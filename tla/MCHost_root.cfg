SPECIFICATION HostSpec
CONSTANTS
  Durations = {1, 2, 3}
  MaxGeneration = 3
  MaxIssued = 2
INVARIANT ReadyReopens
CHECK_DEADLOCK FALSE
