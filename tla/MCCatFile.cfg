CONSTANTS
  r1 = r1
  r2 = r2
  r3 = r3
  s1 = s1
  s2 = s2
  None = None
  Reads = {r1, r2, r3}
  IndexNames = {r3}
  OddNames = {r2}
  Sessions = {s1, s2}
SPECIFICATION CatSpec
INVARIANTS
  OwnObject
  OneProcess
PROPERTY ReadsReturn
CHECK_DEADLOCK FALSE
