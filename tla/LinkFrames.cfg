SPECIFICATION Spec
CONSTANTS
  m1 = m1
  m2 = m2
  Messages = {m1, m2}
  Conns = {sock}
  WebSockets = {}
  Chunks <- BothLong
  PoolSizes = {2}
INVARIANT MessagesAreContiguous
CHECK_DEADLOCK FALSE
