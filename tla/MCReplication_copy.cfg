SPECIFICATION Spec
CONSTANTS
  a = a b = b c1 = c1 c2 = c2
  Names = {a, b}
  Callers = {c1, c2}
  Floor = 1
  Buffer = 2
  MaxActive = 1
  MaxWaiting = 1
  MaxPosition = 5
  MaxLogs = 2
  Settings <- Cases
SYMMETRY Symmetry
INVARIANTS
  CopyExact UsableIsCurrent ConfirmedVisible
CHECK_DEADLOCK FALSE
