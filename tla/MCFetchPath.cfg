SPECIFICATION Spec
CONSTANTS
  u = u
  NumAddr = 10
  WindowWords = 2
  Word = {0, 1}
  Zero = 0
  Unset = u
  Image <- MCImage
  GarbageMemory = FALSE
  EXRequests <- MCRequests
  ICWindows <- MCWindows
  MaxQueue = 2
  NumLines = 2
  TagSpan = 2
  StartAddr = 8
  Targets <- MCTargets
  MaxFetched = 1
  MaxSignals = 1
  MaxRequests = 3
INVARIANTS TypeOK UnwrittenUpToTag OvertakenIsInvalidated
PROPERTIES ActsAsClient ImplementsFetcher
