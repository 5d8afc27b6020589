CONSTANTS
  N = 2
  Times <- ThreeTimes
  MaxTime = 4
  MaxEdits = 2
  MaxLiveEdits = 0
  MaxFailures = 2
SPECIFICATION FairSpec
INVARIANTS DocumentSurvives DocumentKept
PROPERTIES Converges Settles
CHECK_DEADLOCK FALSE
