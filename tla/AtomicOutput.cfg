SPECIFICATION Spec
CONSTANTS
  Writers = {w1, w2}
  Old     = Old
  None    = None
  Faults  = TRUE
CHECK_DEADLOCK FALSE
INVARIANT IInv
INVARIANT FinalIsWhole
INVARIANT SuccessIsTrue
INVARIANT LitterHasCause
