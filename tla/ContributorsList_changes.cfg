CONSTANTS
  Threads = {t1}
  Readers = {}
  N = 3
  MaxWrites = 3
  MaxMoves = 1
  MaxMoved = 3
SPECIFICATION Spec
INVARIANTS TypeOK ListAgrees OrderAgrees
PROPERTY MovesTogether
CHECK_DEADLOCK FALSE
