SPECIFICATION Spec
CONSTANTS
  Clients <- MCClients
  RoutesOf <- MCRoutesOf
  HandlerErrors <- MCHandlerErrors
  CloseAnswers <- MCCloseAnswers
  Impatient <- MCImpatient
  Slow <- MCSlow
  Outages <- MCOutages
INVARIANTS
  ToldOnce
  FailuresAreTold
  PageBlamesTruly
  AnswersAreUnderstood
  CleanStopAnswers
CHECK_DEADLOCK FALSE
