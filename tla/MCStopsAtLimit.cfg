SPECIFICATION Spec
CONSTANT CyclesLimit = 1
CHECK_DEADLOCK FALSE
PROPERTY StopsAtLimit
