SPECIFICATION Spec
CONSTANTS
  Request = {r1, r2}
  Path <- MCPath
  Sha <- MCSha
  Refs <- MCRefs
  Ask <- MCAsk
  None = None
  Failed = Failed
  Body <- MCBody
  MaxResponse = 3
  KeyLen = 1
  Limit = 5
CHECK_DEADLOCK FALSE
INVARIANTS
  OneEntryPerKey
  Charged
PROPERTIES
  ReadsThrough
