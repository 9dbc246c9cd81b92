SPECIFICATION Spec
CONSTANTS
  Users = {u1, u2}
  Workers = {w1, w2}
  MaxFile = 2
  Overlap = TRUE
  NoUser = NoUser
CHECK_DEADLOCK FALSE
INVARIANT ReferencedOnDisk
