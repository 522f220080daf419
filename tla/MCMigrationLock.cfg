SPECIFICATION Spec
CONSTANTS
  Runners <- MCRunners
  Migrations = 2
INVARIANTS
  NoConflict
  OutcomeIsOwn
  SessionPutBack
  OwnLockKept
PROPERTIES
  WaitEnds
CHECK_DEADLOCK FALSE
