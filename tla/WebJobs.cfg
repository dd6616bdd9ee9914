SPECIFICATION Spec
CONSTANTS
  Workers = {w1, w2}
  Jobs    = {j1, j2}
  NoJob   = NoJob
  TTL     = 1
  Timeout = 1
  Horizon = 2
SYMMETRY Symmetry
INVARIANT IInv
INVARIANT JobUndisturbed
INVARIANT ServedInTime
