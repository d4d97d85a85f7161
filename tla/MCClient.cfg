CONSTANTS
  c1 = c1
  c2 = c2
  k1 = k1
  NoKey = NoKey
  Empty = Empty
  Commands = {c1, c2}
  Keys = {}
  ResponseTimeout = 3
  Intervals = {}
  PeriodicTimeouts = {}
  Capacities = {1}
  MaxLatency = 1
  MaxGap = 1
  Faults = {"write_error"}
  MaxCalls = 2
  MaxNotifications = 1
  MaxTime = 1
SPECIFICATION FairSpec
PROPERTIES OwnReply OneInFlight NoTimeoutOverReply EveryRequestEnds
