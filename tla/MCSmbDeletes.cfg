SPECIFICATION FairSpec
CONSTANTS
  Handles = {2}
  Ids = {1, 2}
  Settings <- MCSettings
PROPERTY RetriedCloseEnds
CHECK_DEADLOCK FALSE
