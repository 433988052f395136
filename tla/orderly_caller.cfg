SPECIFICATION FairSpec
CONSTANTS
  Tasks = {t1, t2}
  NoTask = NoTask
  KillSignal = KillSignal
  MayTimeOut = FALSE
  RepeatBegin = FALSE
  ClearBegun = FALSE
INVARIANTS NoQueue CompletionReported PlanIsCurrent TracedAsOwn CallsServed
PROPERTIES BegunCompletes CallsReturn
