CONSTANTS
  c1 = c1
  c2 = c2
  k1 = k1
  NoKey = NoKey
  Empty = Empty
  Commands = {c1}
  Keys = {k1}
  ResponseTimeout = 1
  Intervals = {1}
  PeriodicTimeouts = {2}
  Capacities = {1}
  MaxLatency = 2
  MaxGap = 0
  Faults = {"read_error", "write_error", "write_error_sent"}
  MaxCalls = 2
  MaxNotifications = 0
  MaxTime = 1
SPECIFICATION Spec
INVARIANTS TypeOK Accounting OnePerKeyAndLevel
PROPERTIES ImplementsLedger DataStoredOnce
