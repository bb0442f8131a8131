CONSTANTS c1 = c1 c2 = c2
SPECIFICATION Spec
INVARIANTS  ReleaseTrue  AnswersOwnId
CHECK_DEADLOCK FALSE
