SPECIFICATION SafetySpec
CONSTANTS
  Jobs <- MCJobs
  Caps = {5}
  Costs = {7}
  Scale = 2
  Attempts = 1
  MaxTotal = 16
  MaxPeriods = 1
  MaxWire = 4
PROPERTIES
  CacheNeverLetsPast
CHECK_DEADLOCK FALSE
