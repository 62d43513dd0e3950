SPECIFICATION Spec
CONSTANTS
  Caller = caller
  Callee = callee
  Plans <- ChallengedPlans
  MaxAttempts = 1
  MaxCSeq = 4
PROPERTY ByeIncrementsCSeq
CHECK_DEADLOCK FALSE
