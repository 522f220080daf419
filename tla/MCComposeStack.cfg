CONSTANTS
  Trees <- MCTrees
  Shells <- MCShells
  Entries <- MCEntries
  MaxReboots = 1
  StaleCopy = 2
  RunLimit = 1
  StartTakes <- MCStartTakes
  StopTakes <- MCStopTakes
SPECIFICATION Spec
INVARIANTS
  StackIsTheOneChecked
  ImagesAreRight
  DriftIsTold
  CopiesAreTheirRuns
  NoneIsKilled
PROPERTIES
  ServersAreThere
  StackComesUp
CHECK_DEADLOCK FALSE
