SPECIFICATION PSpec
CONSTANTS
  r1 = r1 r2 = r2 r3 = r3 w1 = w1 w2 = w2 Nobody = Nobody
  Readers = {r1, r2, r3}
  Writers = {w1, w2}
INVARIANTS Exclusion NobodyForgotten
PROPERTIES WritersProgress EveryRequestDecided GarbageSwept CatchesUp AcceptedDeleted
CHECK_DEADLOCK FALSE
