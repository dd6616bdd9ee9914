SPECIFICATION FairSpec
CONSTANTS
  Threads        = 3
  MaxThreads     = 64
  SeqStride      = 16
  StartedChoices = {0, 3}
  NFiles         = 2
  Inputs         <- InputPairs
  Modes          <- AllModes
  Faults         = TRUE
INVARIANT IInv
INVARIANT FilesTile
PROPERTY Termination
