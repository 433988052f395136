--------------------------- MODULE MCPlanCatalogue ---------------------------
(* Instances of PlanCatalogue for TLC: a module of plans and one that redefines *)
(* a plan and imports another, with devices that have children.                 *)
EXTENDS PlanCatalogue

Param(n, protocol, arg, required) ==
  [name |-> n, protocol |-> protocol, arg |-> arg, required |-> required]
Object(n, own, lists, params) ==
  [name |-> n, plan |-> TRUE, own |-> own, public |-> TRUE, lists |-> lists, params |-> params]
NoPlan == [Object("x", TRUE, {}, <<>>) EXCEPT !.plan = FALSE]

\* count(m, x = ...) and scan(m: Movable[int]).
Plans ==
  [kind |-> "plans", lists |-> {"export"},
   objects |-> {Object("count", TRUE, {"export"},
                       <<Param("m", "Readable", AnyType, TRUE), Param("x", AnyType, AnyType, FALSE)>>),
                Object("scan", TRUE, {"export"}, <<Param("m", "Movable", "int", TRUE)>>),
                Object("x", TRUE, {}, <<>>)}]

\* count(x), of the module's own, and one that is imported; x is no plan.
OtherPlans ==
  [kind |-> "plans", lists |-> {},
   objects |-> {Object("count", TRUE, {}, <<Param("x", AnyType, AnyType, TRUE)>>),
                Object("scan", FALSE, {}, <<>>), NoPlan}]

\* An __all__ offers what the module imports as well.
Imported == [OtherPlans EXCEPT !.lists = {"all"},
                               !.objects = {Object("scan", FALSE, {"all"}, <<>>)}]

Device(protocols, children) ==
  [kind |-> "device", protocols |-> protocols, children |-> children]
Axis == Device("Movable" :> {"bool", "int"}, Nothing)

\* A stage m with axes in a dictionary and a plain attribute; and a device whose name
\* has a dot, which is taken for that attribute of the stage.
Stage ==
  [kind |-> "devices",
   devices |->
     ("m" :> Device(("Readable" :> {}) @@ ("Movable" :> {"float"}),
                    ("axes" :> [kind |-> "dict", children |-> ("x" :> Axis)])
                    @@ ("y" :> [kind |-> "other"])))
     @@ ("m.y" :> Axis)]

\* Another m, which has no axes.
Motor == [kind |-> "devices", devices |-> ("m" :> Axis)]

First == <<Plans, Stage>>
SourceStates == {First, <<Plans, OtherPlans, Stage>>, <<Stage, Imported, Motor>>}
PlanNames == {"count", "scan"}
ParameterNames == {"m", "x"}

Split == ("m" :> <<"m">>) @@ ("m.y" :> <<"m", "y">>) @@ ("m.axes.x" :> <<"m", "axes", "x">>)
Given == DOMAIN Split
=============================================================================
