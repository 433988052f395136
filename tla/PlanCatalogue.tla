---------------------------- MODULE PlanCatalogue ----------------------------
(***************************************************************************)
(* Which plans and devices there are, and how a client calls a plan.       *)
(*                                                                         *)
(* The subprocess fills its BlueskyContext from the sources of the         *)
(* configuration, once; a reload replaces it, maybe after the modules have *)
(* changed.  A client fetches the plans when it first needs them           *)
(* (PlanCache) and keeps them until it asks for a reload itself: it checks *)
(* the arguments of a call against the plan it has cached and the server   *)
(* then validates them against the plan and the devices it has.            *)
(***************************************************************************)
EXTENDS Naturals, Sequences, SequencesExt

CONSTANTS
  Environments,  \* the states of the sources: each a sequence of sources
  FirstEnv,      \* that at the start
  Names,         \* the names of plans
  Parameters,    \* the names that arguments are given under
  Values,        \* the arguments, which may be addresses of devices
  MaxPositional, \* bound on the arguments given by position
  Parts          \* of each address: addr.split(".")

\* Sources are in a sequence, and so are the parameters of a plan; register_device
\* takes devices only.
ASSUME SourcesAssumption ==
  /\ FirstEnv \in Environments
  /\ \A e \in Environments :
       /\ e \in Seq(Range(e))
       /\ \A s \in Range(e) :
            /\ s.kind = "plans" => \A o \in s.objects : o.params \in Seq(Range(o.params))
            /\ s.kind = "devices" => \A n \in DOMAIN s.devices : s.devices[n].kind = "device"

ASSUME ArgumentsAssumption ==
  /\ MaxPositional \in Nat
  /\ \A v \in Values : Parts[v] \in Seq(Range(Parts[v])) /\ Parts[v] # <<>>

VARIABLES
  env,      \* the environment that was loaded last
  plans,    \* plans, plan_functions: the registered plans, by name
  devices,  \* the devices, by name, each with its attributes
  cached,   \* whether the client has its PlanCache, and the plans in it
  call      \* what has become of the client's last call

context == <<env, plans, devices>>
vars == <<context, cached, call>>

Nothing == [x \in {} |-> x]

-----------------------------------------------------------------------------
(* Loading (BlueskyContext.with_config).  A source is a module of plans,   *)
(* whose objects are what it defines or imports, or a device manager.      *)

\* load_module_all: __export__, else __all__, else what is not private.
Listed(module, o) ==
  IF module.lists = {} THEN o.public ELSE
  IF "export" \in module.lists THEN "export" \in o.lists ELSE "all" \in o.lists

\* with_plan_module: plans, and without an __all__ only the module's own.
Registers(module, o) ==
  o.plan /\ Listed(module, o) /\ ("all" \in module.lists \/ o.own)

\* register_plan, by the name of the function.
PlansOf(source) ==
  LET registered == IF source.kind = "plans" THEN {o \in source.objects : Registers(source, o)}
                                             ELSE {}
  IN [n \in {o.name : o \in registered} |-> (CHOOSE o \in registered : o.name = n).params]

\* with_device_manager: those in missing fail to build or to connect; they are
\* reported and left out.
Built(source, missing) ==
  IF source.kind = "devices"
    THEN [n \in DOMAIN source.devices \ missing |-> source.devices[n]]
    ELSE Nothing

\* self.plans[name] = ..., self.devices[name] = ...: of the sources, which register
\* these sets of names in order, the i-th is the one that n is left to.
Keeps(names, i, n) == n \in names[i] /\ \A j \in DOMAIN names : j > i => n \notin names[j]

\* The plans, from the sources in their order.
LoadPlans(e) ==
  LET names == [i \in DOMAIN e |-> DOMAIN PlansOf(e[i])]
  IN [n \in UNION {names[i] : i \in DOMAIN e} |->
        PlansOf(e[CHOOSE i \in DOMAIN e : Keeps(names, i, n)])[n]]

\* The devices: one that replaces another does so with all that is reached through it.
LoadDevices(e, missing) ==
  LET names == [i \in DOMAIN e |-> DOMAIN Built(e[i], missing)]
  IN [n \in UNION {names[i] : i \in DOMAIN e} |->
        Built(e[CHOOSE i \in DOMAIN e : Keeps(names, i, n)], missing)[n]]

-----------------------------------------------------------------------------
(* Looking devices up (device_lookup.py).  What can be met on the way is a *)
(* device, with attributes, a dictionary, with entries, or something else. *)

Raises  == [kind |-> "raises"]
Missing == [kind |-> "none"]

\* obj.get(head), getattr(obj, head, None), or ValueError.
Component(obj, head) ==
  IF obj.kind \notin {"dict", "device"} THEN Raises
  ELSE IF head \in DOMAIN obj.children THEN obj.children[head] ELSE Missing

\* A step for each part of the address; at its end there is a device, or nothing, or
\* that is an error as well.
find_component(obj, addr) ==
  LET found[i \in 0 .. Len(addr)] == IF i = 0 THEN obj ELSE Component(found[i - 1], addr[i])
      last == found[Len(addr)]
  IN IF last.kind \in {"device", "none"} THEN last ELSE Raises

\* A name with a dot in it is an address of several parts, also when a device is
\* registered under it.
find_device(addr) == find_component([kind |-> "dict", children |-> devices], Parts[addr])

-----------------------------------------------------------------------------
(* Parameters.  One is a value or, when it has a protocol, a reference to  *)
(* a device, which may ask for a type argument.                            *)

AnyType == "any"

\* is_compatible: the protocol, and the argument unless the parameter has none, or the
\* device names none for its protocol.  Of a device, protocols has for each protocol
\* its type argument with the types that it extends.
IsCompatible(device, p) ==
  /\ p.protocol \in DOMAIN device.protocols
  /\ \/ p.arg = AnyType
     \/ device.protocols[p.protocol] = {}
     \/ p.arg \in device.protocols[p.protocol]

\* valid in Reference: an error of find_device is one of the validation too.
ValidReference(a, p) ==
  LET val == find_device(a) IN val.kind = "device" /\ IsCompatible(val, p)

Properties(params) == {params[i].name : i \in DOMAIN params}
Required(params) == {params[i].name : i \in {j \in DOMAIN params : params[j].required}}

\* The server's model of a plan: extra is "forbid", a field without a default
\* is required, and references are looked up.
NamesFit(params, given) ==
  Required(params) \subseteq DOMAIN given /\ DOMAIN given \subseteq Properties(params)

ValuesFit(params, given) ==
  \A i \in DOMAIN params :
    LET p == params[i]
    IN p.name \in DOMAIN given /\ p.protocol # AnyType => ValidReference(given[p.name], p)

-----------------------------------------------------------------------------
(* The arguments of a call (Plan._build_args).                             *)

\* Fault: parameters that are missing are left to their defaults.
NoneMissing(params, bound) == TRUE

HasRequired(params, bound) == Required(params) \subseteq bound

\* Positional arguments are for the first parameters.
Positional(params, n) == {params[i].name : i \in 1 .. n}

\* The call raises no TypeError.
Binds(params, args, kwargs) ==
  /\ Len(args) <= Len(params)
  /\ DOMAIN kwargs \subseteq Properties(params)
  /\ Positional(params, Len(args)) \cap DOMAIN kwargs = {}
  /\ HasRequired(params, Positional(params, Len(args)) \cup DOMAIN kwargs)

BuildArgs(params, args, kwargs) ==
  [n \in Positional(params, Len(args)) \cup DOMAIN kwargs |->
     IF n \in DOMAIN kwargs THEN kwargs[n]
     ELSE args[CHOOSE i \in DOMAIN args : params[i].name = n]]

-----------------------------------------------------------------------------
NoCall == [stage |-> "none"]
NotCached == [present |-> FALSE, plans |-> Nothing, fresh |-> FALSE]

Load(e, missing) ==
  /\ env' = e /\ plans' = LoadPlans(e) /\ devices' = LoadDevices(e, missing)

LoadAny ==
  \E e \in Environments : \E missing \in SUBSET DOMAIN LoadDevices(e, {}) : Load(e, missing)

Init ==
  /\ env = FirstEnv /\ plans = LoadPlans(FirstEnv) /\ devices = LoadDevices(FirstEnv, {})
  /\ cached = NotCached
  /\ call = NoCall

\* The environment is reloaded by another client: what this one has cached is old.
Reload ==
  /\ LoadAny
  /\ cached' = [cached EXCEPT !.fresh = FALSE]
  /\ call' = IF call.stage = "sent" THEN [call EXCEPT !.fresh = FALSE] ELSE NoCall

\* The client's own reload_environment drops what it has cached, and waits for the
\* new environment; if that takes too long the reload comes later.
ReloadEnvironment ==
  /\ call.stage # "sent"
  /\ LoadAny \/ UNCHANGED context
  /\ cached' = NotCached /\ call' = NoCall

\* The plans property, a cached_property.
FetchPlans ==
  /\ ~cached.present /\ cached' = [present |-> TRUE, plans |-> plans, fresh |-> TRUE]
  /\ UNCHANGED <<context, call>>

\* Plan.__call__ of a plan in the cache: a TypeError, or a request.
CallPlan(n, args, kwargs) ==
  /\ cached.present /\ n \in DOMAIN cached.plans /\ call.stage # "sent"
  /\ LET params == cached.plans[n]
     IN call' = IF Binds(params, args, kwargs)
                THEN [stage |-> "sent", plan |-> n, fresh |-> cached.fresh,
                      params |-> BuildArgs(params, args, kwargs)]
                ELSE [stage |-> "refused", plan |-> n, fresh |-> cached.fresh,
                      args |-> args, kwargs |-> kwargs]
  /\ UNCHANGED <<context, cached>>

\* 404 for a plan the context does not have, 422 for parameters its model does not
\* accept; _create_task_exceptions turns them into exceptions.
Outcome ==
  LET params == plans[call.plan]
  IN IF call.plan \notin DOMAIN plans THEN "UnknownPlanError" ELSE
     IF NamesFit(params, call.params) /\ ValuesFit(params, call.params)
     THEN "accepted" ELSE "InvalidParametersError"

\* submit_task and prepare_params
Submit ==
  /\ call.stage = "sent"
  /\ call' = [stage |-> "answered", fresh |-> call.fresh, outcome |-> Outcome]
  /\ UNCHANGED <<context, cached>>

\* The calls: some positional arguments, and others by name.
Arguments == UNION {[1 .. n -> Values] : n \in 0 .. MaxPositional}
Keywords == UNION {[given -> Values] : given \in SUBSET Parameters}

Next ==
  \/ Reload \/ ReloadEnvironment
  \/ FetchPlans
  \/ \E n \in Names, args \in Arguments, kwargs \in Keywords : CallPlan(n, args, kwargs)
  \/ Submit

Spec == Init /\ [][Next]_vars

-----------------------------------------------------------------------------
(* Properties.                                                             *)

\* The client refused the arguments of a call for a reason that the server shares: there
\* are too many, a parameter is given twice, or as a request they would have names that
\* are missing or not those of parameters.
Mismatch(params, args, kwargs) ==
  \/ Len(args) > Len(params)
  \/ \E i \in DOMAIN args : params[i].name \in DOMAIN kwargs
  \/ ~ NamesFit(params, BuildArgs(params, args, kwargs))

\* _build_args and prepare_params: unless the environment was reloaded after
\* the client fetched the plans, the two validations agree.  A call that passes
\* the client's is one whose plan and parameter names the server takes, so only its
\* values can be wrong; and one that the client refuses the server would refuse too.
ValidationsAgree ==
  call.stage # "none" /\ call.fresh =>
    CASE call.stage = "sent" -> NamesFit(plans[call.plan], call.params)
      [] call.stage = "answered" -> call.outcome # "UnknownPlanError"
      [] call.stage = "refused" -> Mismatch(plans[call.plan], call.args, call.kwargs)
=============================================================================
