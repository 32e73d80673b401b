SPECIFICATION Spec
CONSTANTS
  m1 = m1
  m2 = m2
  Messages = {m1, m2}
  Conns = {sock, ws}
  WebSockets = {ws}
  Chunks <- OneLong
  PoolSizes = {1, 2}
INVARIANTS
  TypeOK
  EachMessageOnceInOrder
  SentTwiceOnlyAfterFailure
  OpenConnectionsLoseNothing
  ThreadLostOnlyToFailedSend
PROPERTY EventuallyDrained
CHECK_DEADLOCK FALSE
