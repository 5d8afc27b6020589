SPECIFICATION Spec
CONSTANTS
  None = None
  Threads = {t1, t2}
  Objects = {o1, o2}
  Ids = {"a", "n"}
  Values = {0, 1}
  References = {m}
  Stored <- MCStored
  Setters = {t1}
  MaxPulls = 1
  MaxChanges = 3
INVARIANTS
  MarkedForSaving CleanMeansSaved UniqueByIdentifier
CHECK_DEADLOCK FALSE
