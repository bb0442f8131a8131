SPECIFICATION Spec
CONSTANTS
  s1 = s1 o1 = o1 o2 = o2 o3 = o3 k1 = k1 r1 = r1 r2 = r2 None = None
  Sessions = {s1}
  Owners = {o1, o2, o3}
  SessionOf <- OneSession
  Keys = {k1}
  Requests = {r1, r2}
  MaxGeneration = 3
  Settings <- LockSettings
SYMMETRY Symmetry
INVARIANTS Exclusion NoLostWakeup PublicationExclusive LeaseRecoverySafe
PROPERTIES NoOvertaking LeaseHonoured
CHECK_DEADLOCK FALSE
