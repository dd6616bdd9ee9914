SPECIFICATION Spec
CONSTANTS
  NBlocks      = 3
  Contents     = {0, 1}
  Zero         = 0
  Compressible = {0, 1}
  MaxEdits     = 1
  OtherImage   <- Mixed
  Old          = Old
  Torn         = Torn
  Faults       = TRUE
CHECK_DEADLOCK FALSE
INVARIANT ZeroRegionsShort
