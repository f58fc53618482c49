SPECIFICATION Spec
CONSTANTS
  NumAddr = 8
  WindowWords = 2
  StartAddr = 0
  Programs <- MCStraddling
  Handler <- MCHandler
  MaxDepth = 1
  MaxFetched = 2
  MaxSignals = 4
  MaxDecoded = 2
CHECK_DEADLOCK FALSE

INVARIANT WordsAtAddress
