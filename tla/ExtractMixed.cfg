SPECIFICATION Spec
CONSTANTS
  Threads        = 2
  MaxThreads     = 64
  StartedChoices = {0, 1, 2}
  SeqStride      = 16
  NFiles         = 2
  Archives       <- MixedArchives
  SeqModes       = {"positional", "linear", "zero"}
  Faults         = FALSE
INVARIANT IInv
INVARIANT OutcomeDecided
PROPERTY SlotUndisturbed
