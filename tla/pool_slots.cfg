SPECIFICATION Spec
CONSTANTS
  ThreadMax = 2
  ThreadMin = 1
  QueueMax = 2
  DefCount = 1
  Conns = {c1, c2}
  MaxFail = 0
  NoTask = NoTask
PROPERTY EndedSlotsReused
