CONSTANTS
  a = a
  r = r
  b = b
  m1 = m1
  m2 = m2
  NoHop = NoHop
  Nodes = {a, r, b}
  Server = b
  Requests = {m1, m2}
  From <- TheFrom
  Kinds <- TheKinds
  FirstTables <- TheFirstTables
  Tables <- TheTables
  MaxJobs = 3
  MaxWorkers = 1
  MaxResponses <- TheResponses
  MaxReroutes = 1
  MaxFaults = 1
SPECIFICATION Spec
INVARIANT TypeOK
INVARIANT NothingVanishes
INVARIANT EofCountsResponses
INVARIANT ActiveWorkIsServed
PROPERTY AnswersArrive
CHECK_DEADLOCK FALSE
