SPECIFICATION Spec
CONSTANTS
  Messages = {m1, m2}
  Consumers = {c1}
  TTL = 1
  MaxNow = 0
  MaxFaults = 1
PROPERTY ManifestIsReadBack
CHECK_DEADLOCK FALSE
