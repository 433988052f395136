SPECIFICATION Spec
CONSTANTS
  Envs = {e0, e1, e2}
  FirstEnv = e0
  Clients = {c1, c2}
  Handlers = {h1}
  Overlap = TRUE
  MayTimeOut = TRUE
SYMMETRY ReloadSymmetry
INVARIANTS ReloadUnderway NoCallLost
CHECK_DEADLOCK FALSE
