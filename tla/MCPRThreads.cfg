CONSTANTS
  s1 = s1
  s2 = s2
  c1 = c1
  c2 = c2
  f1 = f1
  f2 = f2
  p1 = p1
  None = None
  Null = Null
  Sessions = {s1, s2}
  Callers = {c1, c2}
  Fetches = {f1, f2}
  Posts = {p1}
  MaxVersion = 1
SPECIFICATION Spec
INVARIANTS
  CallersKept
PROPERTIES
  NoSupersededList
  PageOverFiles
  CallersAnswered
CHECK_DEADLOCK FALSE
