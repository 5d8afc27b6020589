SPECIFICATION FairListenersSpec
CONSTANTS
  p1 = p1
  p2 = p2
  Packages = {p1, p2}
  TakenByOthers = {1, 2, 4, 7}
  MaxRetryCount = 3
INVARIANTS ClosedDoesNotListen FailsOnlyAfterAllPorts
PROPERTY StartEnds
CHECK_DEADLOCK FALSE
