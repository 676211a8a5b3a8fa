CONSTANTS
  Req = {r1, r2}
  Hello = Hello
  MaxAttempts = 1
  MaxProcs = 2
  MaxClients = 2
SPECIFICATION FairSpec
CHECK_DEADLOCK FALSE
INVARIANTS
  NoOrphan
  OneHome
  RightAnswer
PROPERTY EveryCallbackRuns
