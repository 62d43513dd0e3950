\* What the documentation of Timer.halt() promises.
CONSTANT Timers = {t1}
SPECIFICATION Spec
PROPERTY HaltReturnedMeansSilent
CHECK_DEADLOCK FALSE
