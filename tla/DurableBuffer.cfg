SPECIFICATION Spec
CONSTANTS
  Messages = {m1, m2}
  Consumers = {c1, c2}
  TTL = 1
  MaxNow = 3
  MaxFaults = 2
INVARIANTS TypeOK OneOwner StoredFileExists
PROPERTIES OrderKept LeavesForAReason DirtyIsRecorded CustodySpec
CHECK_DEADLOCK FALSE
