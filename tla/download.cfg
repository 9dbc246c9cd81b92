SPECIFICATION FairSpec
CONSTANTS
  long = long
  empty = empty
  root = root
  sub = sub
  Files <- MCFiles
  FileSize <- MCFileSize
  Children <- MCChildren
  Wanted <- MCWanted
  Keys <- MCKeys
  Incomplete = {long}
  Workers = {w1, w2}
  Block = 2
  Patient = TRUE
  MaxFaults = 1
  None = None
CHECK_DEADLOCK FALSE
INVARIANTS TypeOK ReceivedInOrder AllOfItArrived SessionsClosed
PROPERTIES SessionKept DownloadArrives
