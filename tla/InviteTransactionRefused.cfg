SPECIFICATION Spec
PROPERTY RefusedCloses
CHECK_DEADLOCK FALSE
