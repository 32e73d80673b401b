CONSTANTS
  r1 = r1
  r2 = r2
  t1 = t1
  t2 = t2
  w1 = w1
  w2 = w2
  v = v
  NoConn = NoConn
  Sweep = Sweep
  Conns = {r1, r2, t1, t2, w1, w2, v}
  Peer <- ThePeer
  Ephemeral = {"p"}
  MaxReads = 2
  Client <- TheClient
  Transport <- TheTransport
  Before <- TheBefore
  Scenarios <- TheScenarios
SPECIFICATION Spec
INVARIANT TypeOK
INVARIANT RegisteredWhileServed
INVARIANT RoutesFollowConnections
PROPERTY ManifestRemembers
PROPERTY PeerLetsGo
PROPERTY Reconnects
CHECK_DEADLOCK FALSE
