SPECIFICATION FairSpec
CONSTANTS
  Users = {u1, u2}
  Workers = {w1, w2}
  MaxFile = 2
  Overlap = FALSE
  NoUser = NoUser
CHECK_DEADLOCK FALSE
INVARIANTS TypeOK ReferencedOnDisk
PROPERTY UnreferencedCollected
