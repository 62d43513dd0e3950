\* Timer.java with two timer objects, each with its thread and its user.
CONSTANT Timers = {t1, t2}
SPECIFICATION Spec
PROPERTIES
  HaltedAsleepStaysSilent
  ImplementsContract
\* A timer that has fired or was halted stops.
CHECK_DEADLOCK FALSE
