SPECIFICATION Spec
CONSTANTS
  Lines = {line1}
  MaxAttempts = 1
  MaxRequests = 2
  Periods = {"short", "long"}
  KeepOn = FALSE
  Overlaps = {FALSE}
INVARIANT RegisteredIsRenewed
\* The program may be left alone for ever.
CHECK_DEADLOCK FALSE
