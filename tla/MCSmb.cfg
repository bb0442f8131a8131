SPECIFICATION Spec
INVARIANTS ChangesTrue HandleOrder ReadyMeansRecovered RetirementSound
CHECK_DEADLOCK FALSE
