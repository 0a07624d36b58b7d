\* A client that tunnel-server turns down.
SPECIFICATION ReconnectSpec
CONSTANTS
  BackoffMin = 1
  BackoffMax = 30
  MaxSessions = 12
CHECK_DEADLOCK FALSE
INVARIANTS
  RefusalBacksOff
