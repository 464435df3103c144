SPECIFICATION Spec
CONSTANTS
  Sockets = {a, b}
  POOL_BATCHES = 2
  RECV_BATCH = 2
  KERNEL = 2
  DATAGRAMS = 3
CHECK_DEADLOCK FALSE
INVARIANTS
  BuffersKept
  NothingSkipped
  DepthExact
PROPERTIES
  NoneStarves
  StopsOnExit
