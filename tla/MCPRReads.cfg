SPECIFICATION ReadsSpec
CONSTANTS
  Nil = Nil
  Env <- MCEnv
  Login = "me"
  FilesAt <- MCFiles
  Viewed <- MCViewed
  Reviews <- MCReviews
  Draft <- MCDraft
  Contexts <- MCContexts
  Trouble <- MCTrouble
  Threads0 <- MCThreads0
  Comments0 <- MCComments0
  Pulls0 <- MCPulls0
  MoreThreads <- MCMoreThreads
  MoreComments = {4, 5}
  PageSize = 2
  CommentsPage = 2
  ReviewsPage = 3
  MaxPages = 2
  MaxCalls = 2
  MaxChanges = 2
CHECK_DEADLOCK FALSE
INVARIANTS
  QuietReads
  NothingTwice
  FailureTold
