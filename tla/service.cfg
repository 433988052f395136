SPECIFICATION Spec
CONSTANTS
  Tasks = {t1, t2}
  NoTask = NoTask
  Users = {alice, bob}
  Admins = {bob}
  Anonymous = Anonymous
  Requests = {r1, r2}
  NoRequest = NoRequest
SYMMETRY ServiceSymmetry
VIEW ServiceView
INVARIANTS OnlyOwnTasksShown OneTaskAtATime NobodyForgotten
PROPERTIES ImplementsLifecycle OnlyOwnersAct AnswersHonest
