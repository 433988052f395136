SPECIFICATION FairSpec
CONSTANTS
  Envs = {e0, e1, e2}
  FirstEnv = e0
  Clients = {c1, c2}
  Handlers = {}
  Overlap = FALSE
  MayTimeOut = FALSE
INVARIANTS StatusHonest
PROPERTIES ImplementsEnvironment ReloadEnds ClientAnswered
CHECK_DEADLOCK FALSE
