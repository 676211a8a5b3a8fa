SPECIFICATION Spec
CONSTANTS
  Places = 2
  Text = {t1, t2, t3}
  MaxOutside = 1
SYMMETRY TextSymmetry
INVARIANT MarksTellIndex
PROPERTIES
  KeepsTheRest
  RevertsWhatWasShown
  DropsAsked
CHECK_DEADLOCK FALSE
