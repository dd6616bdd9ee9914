SPECIFICATION Spec
CONSTANTS
  Threads        = 2
  MaxThreads     = 64
  StartedChoices = {0, 2}
  SeqStride      = 16
  NFiles         = 2
  Archives       <- TwoFiles
  SeqModes       = {"positional"}
  Faults         = FALSE
INVARIANT SoundFilesPublished
