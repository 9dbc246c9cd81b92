SPECIFICATION Spec
CONSTANTS
  ThreadMax = 3
  ThreadMin = 1
  QueueMax = 2
  DefCount = 2
  Conns = {c1, c2}
  MaxFail = 1
  NoTask = NoTask
SYMMETRY ConnSymmetry
INVARIANTS TypeOK CountersExact KeepsMinimum RingIntact OneReceiver NoRoomMissed
PROPERTIES ImplementsQueue WakeupsLostOnlyByLeaving
