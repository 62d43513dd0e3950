SPECIFICATION Spec
CONSTANTS
  Caller = caller
  Callee = callee
  Plans <- CallPlans
  MaxAttempts = 1
  MaxCSeq = 4
INVARIANTS
  TypeOK
  CallHasTwo
  RefusedIsNoCall
  ByeEndsForBoth
  OneAnswerPerInvite
  CSeqsOrdered
  WaitsAreCovered
PROPERTIES
  AcceptedSettles
CHECK_DEADLOCK FALSE
