SPECIFICATION Spec
CONSTANT CyclesLimit = 2
CHECK_DEADLOCK FALSE
INVARIANTS TypeOK ReportIsFinal
PROPERTY ReportedUnlessWaiting
