SPECIFICATION FairSpec
CONSTANTS
  Threads        = 2
  MaxThreads     = 64
  StartedChoices = {2}
  SeqStride      = 16
  NFiles         = 1
  Archives       <- OneFile
  SeqModes       = {"zero"}
  Faults         = FALSE
PROPERTY Termination
