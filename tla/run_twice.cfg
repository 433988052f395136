SPECIFICATION Spec
CONSTANTS
  Tasks = {t1}
  NoTask = NoTask
  KillSignal = KillSignal
  MayTimeOut = FALSE
  RepeatBegin = TRUE
  ClearBegun = FALSE
INVARIANTS RunsAtMostOnce
