CONSTANTS
  Threads = {t1, t2}
  People = {c1, c2, c3}
  Existing = {c1, c2}
  Identities = {i1, i2, i3}
  MaxPulls = 1
  MaxFailures = 1
  None = None
SYMMETRY Alike
SPECIFICATION Spec
INVARIANTS OneMe
