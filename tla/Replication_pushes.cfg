SPECIFICATION ReplicationSpec
CONSTANTS
  r1 = r1
  r2 = r2
  Documents <- MCDocuments
  Local <- MCLocal
  TheirSharing = {TRUE}
  Replications = {r1, r2}
  MaxGen = 2
INVARIANTS OnlySharedIsGlobal StoppedPushesAreForgotten
CHECK_DEADLOCK FALSE
