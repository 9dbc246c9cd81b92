SPECIFICATION Spec
CONSTANTS
  long = long
  empty = empty
  root = root
  sub = sub
  Files <- MCFiles
  FileSize <- MCFileSize
  Children <- MCChildren
  Wanted <- MCWantedFile
  Keys <- MCKeys
  Incomplete = {}
  Workers = {w1, w2}
  Block = 2
  Patient = FALSE
  MaxFaults = 1
  None = None
CHECK_DEADLOCK FALSE
INVARIANT ReceivedInOrder
