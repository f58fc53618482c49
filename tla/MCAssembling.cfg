SPECIFICATION Spec
CONSTANTS
  Config <- MCConfig
  Lines <- MCLines
  Openings <- MCOpenings
  EarlierTexts <- MCEarlierTexts
  codeStartAddr = 4096
  bootStartAddr = 4120
  memoryEnd = 4136
  MaxTyped = 3
CHECK_DEADLOCK FALSE
INVARIANTS TypeOK AcceptsLegalButForVectors EarlierTextsOnlyAdd LoadedAsListed ProgramKept RejectedIsMarked
