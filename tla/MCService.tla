------------------------------ MODULE MCService ------------------------------
(* Instances of Service for TLC. *)
EXTENDS Service, TLC

\* Requests and task ids are interchangeable.
ServiceSymmetry == Permutations(Requests) \cup Permutations(Tasks)

\* What a request that was answered leaves behind decides nothing any more: its
\* code, the rest of its pipe and whether its client is still there.
Open(r) == pc[r] \notin Codes
ServiceView ==
  <<workerVars, loop, pool, job,
    [r \in Requests |-> IF Open(r) THEN <<pc[r], pipe[r], r \in gone>> ELSE <<>>]>>
=============================================================================
