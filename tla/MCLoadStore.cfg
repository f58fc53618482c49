SPECIFICATION Spec
CONSTANTS
  u = u
  NumAddr = 6
  WindowWords = 2
  Word = {0, 1}
  Zero = 0
  Unset = u
  Image <- MCImage
  GarbageMemory = FALSE
  EXRequests <- MCRequests
  ICWindows <- MCWindows
  MaxQueue = 3
  NumSets = 2
  Ways = 2
  FreshLines <- MCFreshLines
  MaxTime = 5
INVARIANTS TypeOK NoShadowedLine CleanLineMatchesMemory
PROPERTIES ImplementsFlatMemory EXAnswered
CHECK_DEADLOCK FALSE
