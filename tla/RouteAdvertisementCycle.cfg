SPECIFICATION Spec
CONSTANTS
  A = A
  B = B
  C = C
  Nodes <- MCNodes
  Scenarios <- Cycle
PROPERTY
  LateNewsIsIgnored
CHECK_DEADLOCK FALSE
