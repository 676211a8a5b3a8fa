SPECIFICATION Spec
CONSTANTS
  Files = 2
  Unread = {1}
  Windows = {w1, w2}
  Flips = {f1, f2}
  MaxOpens = 2
  MaxBlobs = 2
  MaxHead = 1
  None = None
SYMMETRY Symmetry
INVARIANTS
  ShownOrComing
  MarksAgree
  AnchoredAtHead
PROPERTIES
  DrawsCurrent
CHECK_DEADLOCK FALSE
