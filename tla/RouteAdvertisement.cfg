SPECIFICATION Spec
CONSTANTS
  A = A
  B = B
  C = C
  Nodes <- MCNodes
  Scenarios <- Settling
INVARIANTS
  TypeOK
  OneStatementPerId
  HandlersSurvive
  EveryoneKnowsTheMesh
PROPERTIES
  NewsNeverGoesBack
  AdvertisingSettles
CHECK_DEADLOCK FALSE
