--------------------------- MODULE CatalogueProofs ---------------------------
(***************************************************************************)
(* Proof, for every configuration, that the client's and the server's      *)
(* validation of a call agree on its plan and parameter names.             *)
(*                                                                         *)
(* It needs that what is loaded has its parameters in a sequence, as the   *)
(* sources have (ContextInv), that a client which is up to date has the    *)
(* plans of the server (CacheInv) and what was checked of a call (CallInv).*)
(***************************************************************************)
EXTENDS PlanCatalogue, SequenceTheorems, WellFoundedInduction, TLAPS

-----------------------------------------------------------------------------
(* Loading.                                                                *)

\* Of the sources that register a name there is a last one.
LEMMA KeeperExists ==
  ASSUME NEW names, NEW k \in Nat, DOMAIN names = 1 .. k, NEW i \in 1 .. k, NEW n, n \in names[i]
  PROVE  \E j \in DOMAIN names : Keeps(names, j, n)
<1> DEFINE T == {m \in 0 .. k : k - m \in 1 .. k /\ n \in names[k - m]}
<1>1. k - i \in T
  OBVIOUS
<1>2. T \subseteq Nat
  OBVIOUS
<1>3. PICK m \in T : \A l \in T : ~ (<<l, m>> \in OpToRel(<, Nat))
  BY <1>1, <1>2, NatLessThanWellFounded, WFMin
<1>4. \A l \in T : ~ (l < m)
  BY <1>2, <1>3 DEF OpToRel
<1>5. ASSUME NEW j \in 1 .. k, j > k - m, n \in names[j]
      PROVE  FALSE
  <2>1. k - j \in T /\ k - j < m
    BY <1>5
  <2> QED
    BY <1>4, <2>1
<1> QED
  BY <1>3, <1>5 DEF Keeps

\* A name that any source registers is a plan, that of the last source which does.
LEMMA LoadedPlans ==
  ASSUME NEW e \in Environments
  PROVE  /\ DOMAIN LoadPlans(e) = UNION {DOMAIN PlansOf(e[i]) : i \in DOMAIN e}
         /\ \A n \in DOMAIN LoadPlans(e) : \E i \in DOMAIN e :
              /\ n \in DOMAIN PlansOf(e[i]) /\ LoadPlans(e)[n] = PlansOf(e[i])[n]
              /\ \A j \in DOMAIN e : j > i => n \notin DOMAIN PlansOf(e[j])
<1> DEFINE names == [i \in DOMAIN e |-> DOMAIN PlansOf(e[i])]
           chosen(n) == CHOOSE i \in DOMAIN e : Keeps(names, i, n)
<1>1. PICK k \in Nat : DOMAIN e = 1 .. k
  BY SourcesAssumption
<1>2. LoadPlans(e) = [n \in UNION {names[i] : i \in DOMAIN e} |-> PlansOf(e[chosen(n)])[n]]
  BY DEF LoadPlans
<1>3. UNION {names[i] : i \in DOMAIN e} = UNION {DOMAIN PlansOf(e[i]) : i \in DOMAIN e}
  OBVIOUS
<1>4. DOMAIN names = 1 .. k /\ \A i \in 1 .. k : names[i] = DOMAIN PlansOf(e[i])
  BY <1>1
<1>5. ASSUME NEW n \in UNION {names[i] : i \in DOMAIN e}
      PROVE  chosen(n) \in DOMAIN e /\ Keeps(names, chosen(n), n)
  <2> HIDE DEF names
  <2>1. PICK i \in 1 .. k : n \in names[i]
    BY <1>1, <1>5
  <2>2. \E j \in DOMAIN e : Keeps(names, j, n)
    BY <1>1, <1>4, <2>1, KeeperExists
  <2> QED
    BY <2>2
<1> HIDE DEF names, chosen
<1>6. DOMAIN LoadPlans(e) = UNION {DOMAIN PlansOf(e[i]) : i \in DOMAIN e}
  BY <1>2, <1>3
<1>7. ASSUME NEW n \in DOMAIN LoadPlans(e)
      PROVE  \E i \in DOMAIN e :
               /\ n \in DOMAIN PlansOf(e[i]) /\ LoadPlans(e)[n] = PlansOf(e[i])[n]
               /\ \A j \in DOMAIN e : j > i => n \notin DOMAIN PlansOf(e[j])
  <2>1. chosen(n) \in DOMAIN e /\ Keeps(names, chosen(n), n)
    BY <1>2, <1>5, <1>7
  <2>2. LoadPlans(e)[n] = PlansOf(e[chosen(n)])[n]
    BY <1>2, <1>7
  <2> QED
    BY <1>1, <1>4, <2>1, <2>2 DEF Keeps
<1> QED
  BY <1>6, <1>7

-----------------------------------------------------------------------------
(* The invariant.                                                          *)

\* The parameters of a plan are in a sequence.
ContextInv == \A n \in DOMAIN plans : plans[n] \in Seq(Range(plans[n]))

\* What a client has cached and is up to date is what the server has.
CacheInv ==
  /\ cached = [present |-> cached.present, plans |-> cached.plans, fresh |-> cached.fresh]
  /\ cached.present \in BOOLEAN /\ cached.fresh \in BOOLEAN
  /\ cached.fresh => cached.plans = plans

\* What was checked of the call, if the client was up to date.
CallInv ==
  /\ call.stage \in {"none", "sent", "refused", "answered"}
  /\ call.stage = "sent" =>
       /\ call = [stage |-> "sent", plan |-> call.plan, fresh |-> call.fresh, params |-> call.params]
       /\ call.fresh \in BOOLEAN
       /\ call.fresh => call.plan \in DOMAIN plans /\ NamesFit(plans[call.plan], call.params)
  /\ call.stage = "refused" /\ call.fresh => Mismatch(plans[call.plan], call.args, call.kwargs)
  /\ call.stage = "answered" /\ call.fresh => call.outcome # "UnknownPlanError"

CatalogueInv == ContextInv /\ CacheInv /\ CallInv

\* Whatever is loaded has the form of its sources.
LEMMA LoadedContext ==
  ASSUME NEW e \in Environments
  PROVE  \A n \in DOMAIN LoadPlans(e) : LoadPlans(e)[n] \in Seq(Range(LoadPlans(e)[n]))
<1>1. \A i \in DOMAIN e : e[i] \in Range(e)
  BY DEF Range
<1>2. ASSUME NEW i \in DOMAIN e, NEW n \in DOMAIN PlansOf(e[i])
      PROVE  PlansOf(e[i])[n] \in Seq(Range(PlansOf(e[i])[n]))
  <2> DEFINE registered == IF e[i].kind = "plans"
                             THEN {o \in e[i].objects : Registers(e[i], o)} ELSE {}
             object == CHOOSE o \in registered : o.name = n
  <2>1. PlansOf(e[i]) = [m \in {o.name : o \in registered}
                           |-> (CHOOSE o \in registered : o.name = m).params]
    BY DEF PlansOf
  <2>2. \E o \in registered : o.name = n
    BY <1>2, <2>1
  <2>3. object \in registered
    BY <2>2
  <2>4. e[i].kind = "plans" /\ object \in e[i].objects
    BY <2>3
  <2>5. PlansOf(e[i])[n] = object.params
    BY <1>2, <2>1
  <2> HIDE DEF object
  <2> QED
    BY <1>1, <2>4, <2>5, SourcesAssumption
<1>3. \A n \in DOMAIN LoadPlans(e) : LoadPlans(e)[n] \in Seq(Range(LoadPlans(e)[n]))
  <2> TAKE n \in DOMAIN LoadPlans(e)
  <2>1. \E i \in DOMAIN e : /\ n \in DOMAIN PlansOf(e[i]) /\ LoadPlans(e)[n] = PlansOf(e[i])[n]
                          /\ \A j \in DOMAIN e : j > i => n \notin DOMAIN PlansOf(e[j])
    BY LoadedPlans, ZenonT(30)
  <2> QED
    BY <1>2, <2>1
<1> QED
  BY <1>3

\* LoadAny leaves plans of the form of some sources.
LEMMA LoadAnyContext ==
  ASSUME LoadAny
  PROVE  ContextInv'
<1>1. PICK e \in Environments : plans' = LoadPlans(e)
  BY DEF LoadAny, Load
<1> QED
  BY <1>1, LoadedContext DEF ContextInv

\* Init, with the first environment loaded and nothing cached.
LEMMA CatalogueInit == Init => CatalogueInv
<1> SUFFICES ASSUME Init
             PROVE  CatalogueInv
  OBVIOUS
<1>1. ContextInv
  BY LoadedContext, SourcesAssumption DEF Init, ContextInv
<1>2. CacheInv
  BY DEF Init, NotCached, CacheInv
<1>3. CallInv
  BY DEF Init, NoCall, CallInv
<1> QED
  BY <1>1, <1>2, <1>3 DEF CatalogueInv

\* Plan._build_args: parameters that bind are named as the server's model wants them.
LEMMA BoundFit ==
  ASSUME NEW params, params \in Seq(Range(params)), NEW args \in Arguments, NEW kwargs,
         Binds(params, args, kwargs)
  PROVE  NamesFit(params, BuildArgs(params, args, kwargs))
<1>1. DOMAIN BuildArgs(params, args, kwargs) = Positional(params, Len(args)) \cup DOMAIN kwargs
  BY DEF BuildArgs
<1>2. Len(args) \in Nat /\ DOMAIN params = 1 .. Len(params) /\ Len(params) \in Nat
  BY ArgumentsAssumption DEF Arguments
<1>3. Positional(params, Len(args)) \subseteq Properties(params)
  BY <1>2 DEF Positional, Properties, Binds
<1> QED
  BY <1>1, <1>3 DEF Binds, HasRequired, NamesFit

\* ... and those that do not bind the server's model would not take either.
LEMMA UnboundMismatch ==
  ASSUME NEW params, params \in Seq(Range(params)), NEW args \in Arguments, NEW kwargs,
         ~ Binds(params, args, kwargs)
  PROVE  Mismatch(params, args, kwargs)
<1>1. Len(args) \in Nat /\ DOMAIN args = 1 .. Len(args) /\ Len(params) \in Nat
  BY ArgumentsAssumption DEF Arguments
<1>2. CASE ~ (Len(args) <= Len(params))
  BY <1>1, <1>2 DEF Mismatch
<1>3. CASE Positional(params, Len(args)) \cap DOMAIN kwargs # {}
  BY <1>1, <1>3 DEF Positional, Mismatch
<1>4. CASE \/ ~ (DOMAIN kwargs \subseteq Properties(params))
           \/ ~ (Required(params) \subseteq Positional(params, Len(args)) \cup DOMAIN kwargs)
  <2>1. DOMAIN BuildArgs(params, args, kwargs) = Positional(params, Len(args)) \cup DOMAIN kwargs
    BY DEF BuildArgs
  <2> QED
    BY <1>4, <2>1 DEF Mismatch, NamesFit
<1> QED
  BY <1>2, <1>3, <1>4 DEF Binds, HasRequired

\* A reload by another client makes what is cached old.
LEMMA ReloadStep == CatalogueInv /\ Reload => CatalogueInv'
<1> SUFFICES ASSUME CatalogueInv, Reload
             PROVE  CatalogueInv'
  OBVIOUS
<1>1. ContextInv'
  BY LoadAnyContext DEF Reload
<1>2. CacheInv'
  BY DEF CatalogueInv, CacheInv, Reload
<1>3. CallInv'
  BY DEF CatalogueInv, CallInv, Reload, NoCall
<1> QED
  BY <1>1, <1>2, <1>3 DEF CatalogueInv

\* reload_environment empties the caches, whatever is loaded.
LEMMA ReloadEnvironmentStep == CatalogueInv /\ ReloadEnvironment => CatalogueInv'
<1> SUFFICES ASSUME CatalogueInv, ReloadEnvironment
             PROVE  CatalogueInv'
  OBVIOUS
<1>1. ContextInv'
  BY LoadAnyContext DEF CatalogueInv, ContextInv, ReloadEnvironment, context
<1>2. CacheInv'
  BY DEF CacheInv, ReloadEnvironment, NotCached
<1>3. CallInv'
  BY DEF CallInv, ReloadEnvironment, NoCall
<1> QED
  BY <1>1, <1>2, <1>3 DEF CatalogueInv

\* The plans property copies what the server has.
LEMMA FetchStep == CatalogueInv /\ FetchPlans => CatalogueInv'
<1> SUFFICES ASSUME CatalogueInv, FetchPlans
             PROVE  CatalogueInv'
  OBVIOUS
<1>1. plans' = plans /\ call' = call
  BY DEF FetchPlans, context
<1>2. CacheInv'
  BY <1>1 DEF CacheInv, FetchPlans
<1> QED
  BY <1>1, <1>2 DEF CatalogueInv, ContextInv, CallInv

\* Plan.__call__, checked against the cached plan.
LEMMA CallPlanStep ==
  ASSUME NEW n, NEW args \in Arguments, NEW kwargs
  PROVE  CatalogueInv /\ CallPlan(n, args, kwargs) => CatalogueInv'
<1> SUFFICES ASSUME CatalogueInv, CallPlan(n, args, kwargs)
             PROVE  CatalogueInv'
  OBVIOUS
<1> DEFINE params == cached.plans[n]
<1>1. plans' = plans /\ cached' = cached
  BY DEF CallPlan, context
<1>2. n \in DOMAIN cached.plans /\ cached.fresh \in BOOLEAN
  BY DEF CallPlan, CatalogueInv, CacheInv
<1>3. cached.fresh => n \in DOMAIN plans /\ params = plans[n] /\ params \in Seq(Range(params))
  BY <1>2 DEF CatalogueInv, CacheInv, ContextInv
<1>4. CASE Binds(params, args, kwargs)
  <2>1. call' = [stage |-> "sent", plan |-> n, fresh |-> cached.fresh,
                 params |-> BuildArgs(params, args, kwargs)]
    BY <1>4 DEF CallPlan
  <2>2. cached.fresh => NamesFit(plans[n], BuildArgs(params, args, kwargs))
    BY <1>3, <1>4, BoundFit
  <2>3. CallInv'
    BY <1>1, <1>2, <1>3, <2>1, <2>2 DEF CallInv
  <2> QED
    BY <1>1, <2>3 DEF CatalogueInv, ContextInv, CacheInv
<1>5. CASE ~ Binds(params, args, kwargs)
  <2>1. call' = [stage |-> "refused", plan |-> n, fresh |-> cached.fresh,
                 args |-> args, kwargs |-> kwargs]
    BY <1>5 DEF CallPlan
  <2>2. cached.fresh => Mismatch(plans[n], args, kwargs)
    BY <1>3, <1>5, UnboundMismatch
  <2>3. CallInv'
    BY <1>1, <2>1, <2>2 DEF CallInv
  <2> QED
    BY <1>1, <2>3 DEF CatalogueInv, ContextInv, CacheInv
<1> QED
  BY <1>4, <1>5

\* submit_task answers the call, and not with 404 if the plan is known.
LEMMA SubmitStep == CatalogueInv /\ Submit => CatalogueInv'
<1> SUFFICES ASSUME CatalogueInv, Submit
             PROVE  CatalogueInv'
  OBVIOUS
<1>1. plans' = plans /\ cached' = cached
  BY DEF Submit, context
<1>2. call' = [stage |-> "answered", fresh |-> call.fresh, outcome |-> Outcome]
  BY DEF Submit
<1>3. call.fresh => Outcome # "UnknownPlanError"
  BY DEF CatalogueInv, CallInv, Submit, Outcome
<1>4. CallInv'
  BY <1>2, <1>3 DEF CallInv
<1> QED
  BY <1>1, <1>4 DEF CatalogueInv, ContextInv, CacheInv

\* A step preserves the invariant.
LEMMA CatalogueNext == CatalogueInv /\ [Next]_vars => CatalogueInv'
<1> SUFFICES ASSUME CatalogueInv, [Next]_vars
             PROVE  CatalogueInv'
  OBVIOUS
<1>1. CASE Reload
  BY <1>1, ReloadStep
<1>2. CASE ReloadEnvironment
  BY <1>2, ReloadEnvironmentStep
<1>3. CASE FetchPlans
  BY <1>3, FetchStep
<1>4. CASE \E n \in Names, args \in Arguments, kwargs \in Keywords : CallPlan(n, args, kwargs)
  BY <1>4, CallPlanStep
<1>5. CASE Submit
  BY <1>5, SubmitStep
<1>6. CASE UNCHANGED vars
  BY <1>6 DEF vars, context, CatalogueInv, ContextInv, CacheInv, CallInv
<1> QED
  BY <1>1, <1>2, <1>3, <1>4, <1>5, <1>6 DEF Next

\* The invariant of the catalogue.
LEMMA CatalogueHolds == Spec => []CatalogueInv
BY CatalogueInit, CatalogueNext, PTL DEF Spec

\* Plan._build_args and prepare_params: for any sources, plans and arguments, a client
\* whose plans are the server's sends only calls whose plan and parameter names the server
\* takes, and one that it refuses has too many positional arguments, gives a parameter
\* twice, or has names that the server refuses as well.
THEOREM ValidationsAreOne == Spec => []ValidationsAgree
<1>1. CatalogueInv => ValidationsAgree
  <2> SUFFICES ASSUME CatalogueInv, call.stage # "none", call.fresh
               PROVE  CASE call.stage = "sent" -> NamesFit(plans[call.plan], call.params)
                        [] call.stage = "answered" -> call.outcome # "UnknownPlanError"
                        [] call.stage = "refused" ->
                             Mismatch(plans[call.plan], call.args, call.kwargs)
    BY DEF ValidationsAgree
  <2>1. CASE call.stage = "sent"
    BY <2>1 DEF CatalogueInv, CallInv
  <2>2. CASE call.stage = "answered"
    BY <2>2 DEF CatalogueInv, CallInv
  <2>3. CASE call.stage = "refused"
    BY <2>3 DEF CatalogueInv, CallInv
  <2> QED
    BY <2>1, <2>2, <2>3 DEF CatalogueInv, CallInv
<1> QED
  BY <1>1, CatalogueHolds, PTL
==============================================================================
