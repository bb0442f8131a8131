SPECIFICATION HostSpec
CONSTANTS
  Durations = {1, 2, 3}
  MaxGeneration = 3
  MaxIssued = 2
INVARIANTS
  PromiseCovered EvidenceNeverContradicts CompletedReopens
   ServesAcknowledged
PROPERTIES ImplementsRegister
CHECK_DEADLOCK FALSE
