---------------------------- MODULE MCPlanOutput ----------------------------
(* Instances of PlanOutput for TLC. *)
EXTENDS PlanOutput

CONSTANTS r1, r2, r3, t1, t2

\* Two requests for two tasks, and one that repeats the first.
Repeated == (r1 :> t1) @@ (r2 :> t2) @@ (r3 :> t1)

\* The runs are interchangeable.
Symmetric == Permutations(Runs)
=============================================================================
