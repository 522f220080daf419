SPECIFICATION Spec
CONSTANTS
  Stages <- ApiStages
  Plan <- ApiPlan
  Forcible = TRUE
  Requests <- SignalsAndFailedStart
  MaxPresses = 3
  MaxCopies = 1
INVARIANTS
  OrderKept
  ForcedByNewPress
PROPERTIES
  KeepsContract
  StopEnds
CHECK_DEADLOCK FALSE
