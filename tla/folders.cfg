SPECIFICATION FairSpec
CONSTANTS
  u1 = u1
  u2 = u2
  f1 = f1
  a = a
  l1 = l1
  Users = {u1, u2}
  Workers = {w1, w2}
  Files = {f1}
  Links = {l1}
  Names = {a}
  MaxDepth = 3
  MaxRequests = 3
  MaxItems = 2
  Overlap = FALSE
  SelfShare = FALSE
  InitEntries <- MCInitEntries
  InitLinks <- MCInitLinks
  None = None
CHECK_DEADLOCK FALSE
INVARIANTS TypeOK NoOrphans FilesMatchEntries
PROPERTIES WalkExact WalksEnd OneUsersUnlessDrawnTwice
