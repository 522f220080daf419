SPECIFICATION SmokeSpec
CONSTANTS
  Stages <- MCStages
  Forcible = FALSE
PROPERTIES
  ZeroIsProven
  CommandEnds
CHECK_DEADLOCK FALSE
