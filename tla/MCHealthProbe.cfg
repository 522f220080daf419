SPECIFICATION HealthSpec
CONSTANTS
  Callers <- MCCallers
  Polls <- MCPolls
  Flight = "ping"
  Clients = {1, 2, 3}
  Limit = 3
  StatementLimit = 2
  Deadline = 2
  CloseBound = 2
INVARIANTS
  WaitsOnCurrent
  RecoveryIsSeen
PROPERTIES
  CloseKeepsItsWord
  CallsSettle
CHECK_DEADLOCK FALSE
