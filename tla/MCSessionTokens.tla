--------------------------- MODULE MCSessionTokens ---------------------------
(* Instances of SessionTokens for TLC. *)
EXTENDS SessionTokens, TLC

\* The processes are interchangeable.
ProcessSymmetry == Permutations(Processes)
=============================================================================
