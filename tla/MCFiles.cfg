CONSTANTS
    r1 = r1  r2 = r2  i1 = i1  i2 = i2  t1 = t1  t2 = t2  c1 = c1  c2 = c2
SPECIFICATION Spec
SYMMETRY Symmetry
INVARIANTS DeletionsBacked   FencedQuiet AtMostOnce
PROPERTIES AcceptedStands
CHECK_DEADLOCK FALSE
