SPECIFICATION FairSpec
CONSTANTS
  Threads        = 3
  MaxThreads     = 64
  StartedChoices = {0, 3}
  SeqStride      = 16
  NFiles         = 2
  Archives       <- LongArchives
  SeqModes       = {"positional", "linear"}
  Faults         = TRUE
INVARIANT SubmitFindsSlotFree
PROPERTY ImplementsExtraction
PROPERTY Termination
