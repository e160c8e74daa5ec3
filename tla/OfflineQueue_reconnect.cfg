SPECIFICATION ReconnectSpec
CONSTANTS
  MaxOps = 1
  Syncs = {s1, s2}
  MaxRetries = 5
  MaxTries = 12
CHECK_DEADLOCK FALSE
PROPERTIES
  SyncsWhenOnline
