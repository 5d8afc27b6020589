CONSTANTS
  Docs = {d1}
  Objs = {o1, o2, o3}
  Threads = {t1, t2}
  None = None
  MaxGen = 3
SPECIFICATION FairSpec
INVARIANTS Uniquing NoStaleHit ObserversAgree
PROPERTIES EventuallyAnnounced IdentityKept
CHECK_DEADLOCK FALSE
