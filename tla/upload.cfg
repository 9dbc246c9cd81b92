SPECIFICATION TransferSpec
CONSTANTS
  Uploads = {u1, u2}
  Workers = {w1, w2}
  Size = 3
  Block = 2
  Overlap = FALSE
  Patient = TRUE
  MaxLost = 1
  MaxCrash = 1
  MaxShort = 1
  MaxFail = 1
  None = None
  MaxRemove = 1
  MaxRestart = 1
CHECK_DEADLOCK FALSE
INVARIANTS TypeOK FinishedIsWhole DiskIsPrefix AckedIsStored ListedOnceFinished
PROPERTIES UploadArrives FinishedTransferred
