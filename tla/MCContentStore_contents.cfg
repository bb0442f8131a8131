SPECIFICATION Spec
CONSTANTS
  a = a b = b p1 = p1 p2 = p2 h1 = h1 h2 = h2
  Names = {a, b}
  Procs = {p1, p2}
  Handles = {h1, h2}
  MaxKeys = 3
  MaxNodes = 2
  MaxRevision = 3
  ReadAttempts = 1
  FileAttempts = 2
  Batch = 1
  Settings <- Cases
SYMMETRY Symmetric
INVARIANTS
  ContentsPresent ReadsWhole NothingLeaks
PROPERTIES NoLostEdit
CHECK_DEADLOCK FALSE
