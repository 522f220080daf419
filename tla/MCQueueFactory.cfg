SPECIFICATION Spec
CONSTANTS
  n1 = n1
  n2 = n2
  r1 = r1
  Names = {n1, n2}
  Readers = {r1}
  MaxQueues = 2
  ReadOnly = FALSE
INVARIANTS
  InUseIsOpen
  NoQueueLeft
  InitToldOnce
PROPERTIES
  CloseIsBounded
CHECK_DEADLOCK FALSE
