SPECIFICATION Spec
CONSTANTS
  Workers = {1, 2}
  Releases = {1, 2}
  Registry <- MCRegistry
  Declares <- MCDeclares
  Strays <- MCStrays
  PageSize = 2
  TTL = 1
  Drift = 1
  Edited = {"scout"}
  MaxEdits = 3
  MaxFailures = 1
INVARIANTS
  SchedulesAsDeclared
  HealthyIsEarned
PROPERTIES
  OffStaysOff
  SwitchesPrevail
