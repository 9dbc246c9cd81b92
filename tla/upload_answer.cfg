SPECIFICATION FairSpec
CONSTANTS
  Uploads = {u1}
  Workers = {w1}
  Size = 3
  Block = 2
  Overlap = FALSE
  Patient = TRUE
  MaxLost = 1
  MaxCrash = 0
  MaxShort = 0
  MaxFail = 0
  None = None
CHECK_DEADLOCK FALSE
PROPERTY ContinueAnswered
