CONSTANTS
  Jobs = {j1, j2, j3}
  None = None
  MaxCmds = 4
  MaxGen = 2
SPECIFICATION FairSpec
INVARIANTS
  OwnResult
PROPERTIES
  ResultsInLine
  EveryTaskEnds
CHECK_DEADLOCK FALSE
