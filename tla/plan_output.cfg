SPECIFICATION Spec
CONSTANTS
  r1 = r1
  r2 = r2
  r3 = r3
  t1 = t1
  t2 = t2
  Tasks = {t1, t2}
  Requests = {r1, r2, r3}
  Wanted <- Repeated
  Runs = {a, b, c}
  Statuses = {s}
  NoTask = NoTask
  NoRequest = NoRequest
  OneThread = TRUE
SYMMETRY Symmetric
CHECK_DEADLOCK FALSE
INVARIANTS PathsFollowRuns NoStrayWriter WriterPresent ScansCredited ProgressSettled
