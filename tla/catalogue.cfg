SPECIFICATION Spec
CONSTANTS
  Environments <- SourceStates
  FirstEnv <- First
  Names <- PlanNames
  Parameters <- ParameterNames
  Values <- Given
  MaxPositional = 2
  Parts <- Split
INVARIANTS ValidationsAgree
