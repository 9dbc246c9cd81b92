SPECIFICATION Spec
CONSTANTS
  long = long
  empty = empty
  root = root
  sub = sub
  Files <- MCFiles
  FileSize <- MCFileSize
  Children <- MCChildren
  Wanted <- MCWantedNear
  Keys <- MCKeys
  Incomplete = {}
  Workers = {w1, w2}
  Block = 2
  Patient = TRUE
  MaxFaults = 0
  None = None
CHECK_DEADLOCK FALSE
PROPERTY SessionKept
