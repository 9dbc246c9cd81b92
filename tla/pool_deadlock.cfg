SPECIFICATION Spec
CONSTANTS
  ThreadMax = 2
  ThreadMin = 1
  QueueMax = 1
  DefCount = 1
  Conns = {c1, c2, c3}
  MaxFail = 0
  NoTask = NoTask
INVARIANT SomeWorkerUnblocked
