SPECIFICATION Spec
CONSTANTS
  Tasks = {t1, t2}
  NoTask = NoTask
  KillSignal = KillSignal
  MayTimeOut = TRUE
  RepeatBegin = TRUE
  ClearBegun = TRUE
CHECK_DEADLOCK FALSE
SYMMETRY TaskSymmetry
INVARIANTS RecordsSettled EveryTaskListed VerdictHonest RunsBounded BegunIsCurrent
PROPERTIES ImplementsLifecycle
