SPECIFICATION Spec
CONSTANTS
  Messages = {m1, m2}
  Consumers = {c1}
  TTL = 1
  MaxNow = 2
  MaxFaults = 0
PROPERTY StoredUntilTakenOrExpired
CHECK_DEADLOCK FALSE
