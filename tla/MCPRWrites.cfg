SPECIFICATION Spec
CONSTANTS
  Request = {r1, r2}
  Ask <- MCAsk
  Head = {"h1", "h2"}
  Starts <- MCStarts
  None = None
  MaxReviews = 2
  MaxOutside = 1
CHECK_DEADLOCK FALSE
INVARIANTS
  GuardedWrites
  RefusedUnwritten
  JoinsTheDraft
SYMMETRY Symmetry
