--------------------------- MODULE TaskLifecycle ---------------------------
(***************************************************************************)
(* What the worker promises a client about a submitted task, without the   *)
(* threads, the channel or the RunEngine: a task is submitted once, is     *)
(* started at most once and only while no other task is running, ends, and *)
(* its end is announced only after the task has ended.  A client may drop  *)
(* a task at any time (DELETE /tasks/{task_id}).                           *)
(***************************************************************************)
CONSTANT Tasks

VARIABLES phase,     \* [Tasks -> Phases]
          announced  \* the tasks whose completion has been announced

lifecycleVars == <<phase, announced>>

Phases == {"absent", "pending", "running", "complete", "dropped"}

Init == /\ phase = [t \in Tasks |-> "absent"]
        /\ announced = {}

Submit(t) == /\ phase[t] = "absent"
             /\ phase' = [phase EXCEPT ![t] = "pending"]
             /\ UNCHANGED announced

Begin(t) == /\ phase[t] = "pending"
            /\ \A u \in Tasks : phase[u] # "running"
            /\ phase' = [phase EXCEPT ![t] = "running"]
            /\ UNCHANGED announced

End(t) == /\ phase[t] = "running"
          /\ phase' = [phase EXCEPT ![t] = "complete"]
          /\ UNCHANGED announced

Announce(t) == /\ phase[t] \in {"complete", "dropped"}
               /\ announced' = announced \cup {t}
               /\ UNCHANGED phase

Drop(t) == /\ phase[t] \in {"pending", "running", "complete"}
           /\ phase' = [phase EXCEPT ![t] = "dropped"]
           /\ UNCHANGED announced

Next == \E t \in Tasks : Submit(t) \/ Begin(t) \/ End(t) \/ Announce(t) \/ Drop(t)

Spec == Init /\ [][Next]_lifecycleVars
=============================================================================
