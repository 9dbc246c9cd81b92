SPECIFICATION Spec
CONSTANTS
  Uploads = {u1, u2}
  Workers = {w1, w2}
  Size = 3
  Block = 2
  Overlap = TRUE
  Patient = TRUE
  MaxLost = 0
  MaxCrash = 0
  MaxShort = 0
  MaxFail = 0
  None = None
CHECK_DEADLOCK FALSE
INVARIANT FinishedIsWhole
