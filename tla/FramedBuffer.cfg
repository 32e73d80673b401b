SPECIFICATION Spec
CONSTANTS
  FrameSize = 3
  ChunkSize = 8
  MaxPiece = 5
  Traffic <- UpToThree
INVARIANTS
  TypeOK
  DeliversWhatArrived
  NeverRaises
  CleanAtBoundary
CHECK_DEADLOCK FALSE
