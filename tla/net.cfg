SPECIFICATION Spec
CONSTANTS
  Conns = {k1, k2}
  Fds = {f1, f2}
  Workers = {w1, w2}
  QueueMax = 2
  MaxPackets = 2
  None = None
SYMMETRY NetSymmetry
CHECK_DEADLOCK FALSE
INVARIANTS TypeOK OneHolder DescriptorIsOwn DispatchedOnceInOrder MisdirectedOnlyAfterClose
           NoPacketForgotten NoCloseForgotten
