CONSTANTS
  N = 2
  Times <- TwoTimes
  MaxTime = 3
  MaxEdits = 0
  MaxLiveEdits = 1
  MaxFailures = 0
SPECIFICATION Spec
INVARIANTS DocumentKept
CHECK_DEADLOCK FALSE
