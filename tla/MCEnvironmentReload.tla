------------------------- MODULE MCEnvironmentReload -------------------------
(* Instances of EnvironmentReload for TLC. *)
EXTENDS EnvironmentReload, TLC

\* Clients, handlers and the ids still to be drawn are interchangeable.
ReloadSymmetry ==
  Permutations(Clients) \cup Permutations(Handlers)
    \cup Permutations(Envs \ {FirstEnv})
=============================================================================
