SPECIFICATION Spec
CONSTANTS
  Jobs <- MCJobs
  Caps = {5, 8}
  Costs = {7}
  Scale = 2
  Attempts = 1
  MaxTotal = 16
  MaxPeriods = 2
  MaxWire = 4
INVARIANTS
  CloseAnswersAreCurrent
PROPERTIES
  OvershootBounded
  CheckEnds
CHECK_DEADLOCK FALSE
