SPECIFICATION Spec
CONSTANTS
  MaxRuns = 2
  MaxCycle = 3
  MaxClicks = 3
  Configs <- MCConfigs
  DefaultConfig <- MCDefault
  Recordings <- MCRecordings
  Components <- MCComponents
CHECK_DEADLOCK FALSE
INVARIANTS TypeOK CancelHasProcess NeverTrapped OneAtATime ShownIsRecorded SpecIsOfRun NoFalseMarks SelectionIsShown
PROPERTIES AbortsAreKnown AutoplayEnds RunsAreAnswered
