CONSTANTS
  N = 2
  Layouts <- MCLayouts
  MaxSessions = 2
  MaxOutside = 1
  MaxRuns = 1
  Nil = Nil
SPECIFICATION MergeSpec
INVARIANTS
  StagesTheResult
  SessionFollowsGit
PROPERTIES
  DeletesInSession
  ContinuesSaved
CHECK_DEADLOCK FALSE
