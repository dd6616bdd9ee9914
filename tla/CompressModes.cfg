SPECIFICATION Spec
CONSTANTS
  Threads        = 3
  MaxThreads     = 2
  SeqStride      = 16
  StartedChoices = {0, 1, 2}
  NFiles         = 2
  Inputs         <- SmallPairs
  Modes          <- AllModes
  Faults         = TRUE
INVARIANT SequencesDiffer
PROPERTY ImplementsCreation
