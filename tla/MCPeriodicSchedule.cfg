CONSTANTS
  Intervals = {1, 2, 3}
  MaxTime = 10
SPECIFICATION Spec
INVARIANTS TypeOK RateNeverExceeded NoDrift NoBurst
