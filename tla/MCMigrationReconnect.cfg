SPECIFICATION SafetySpec
CONSTANTS
  Runners <- MCRunners
  Migrations = 2
INVARIANTS
  LockHeldThroughout
CHECK_DEADLOCK FALSE
