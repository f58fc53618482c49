SPECIFICATION Spec
CONSTANTS
  CyclesLimit = 2
  MaxWindows = 2
CHECK_DEADLOCK FALSE
INVARIANTS TypeOK PipeIsShown LastIsTheEnd
