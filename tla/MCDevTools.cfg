SPECIFICATION DevSpec
CONSTANTS
  Config <- MCConfig
  codeStartAddr = 4096
  bootStartAddr = 65520
  memoryEnd = 65536
  Texts <- MCTexts
  MaxBatch = 2
  MaxVersions = 2
  MaxCommands = 4
CHECK_DEADLOCK FALSE
INVARIANTS DevTypeOK RunIsOfText ReleasedIsCurrent ParsedIsListed
