SPECIFICATION FairSpec
CONSTANTS
  Clients = {w1, w2, b1}
  Sockets = {w1, w2}
  NoClient = NoClient
  MaxReloads = 1
CHECK_DEADLOCK FALSE
INVARIANTS CompletionOnTheWay SubscriptionsKept
PROPERTIES RunReturns
