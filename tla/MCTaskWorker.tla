---------------------------- MODULE MCTaskWorker ----------------------------
(* Instances of TaskWorker for TLC. *)
EXTENDS TaskWorker, TLC

\* Task ids are interchangeable: no action or invariant tells them apart.
TaskSymmetry == Permutations(Tasks)
=============================================================================
