SPECIFICATION Spec
CONSTANTS
  Lines = {line1}
  MaxAttempts = 1
  MaxRequests = 3
  Periods = {"long"}
  KeepOn = TRUE
  Overlaps = {FALSE, TRUE}
INVARIANTS
  TypeOK
  RegisteredIsBound
  AwakeWhileWaiting
  PendingIsServed
  RegisteredIsRenewed
\* The program may be left alone for ever.
CHECK_DEADLOCK FALSE
