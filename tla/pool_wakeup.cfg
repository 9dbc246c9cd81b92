SPECIFICATION FairSpec
CONSTANTS
  ThreadMax = 2
  ThreadMin = 1
  QueueMax = 4
  DefCount = 1
  Conns = {c1}
  MaxFail = 0
  NoTask = NoTask
PROPERTY QueuedRecvTaken
