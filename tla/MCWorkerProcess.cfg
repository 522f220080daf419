SPECIFICATION Spec
CONSTANTS
  Queues <- MCQueues
  Jobs <- MCJobs
  QueueOf <- MCQueueOf
  HeartbeatJob = "beat"
  Attempts = 2
INVARIANTS
  QueuesOutliveTheirUsers
  CleanExitLosesNothing
CHECK_DEADLOCK FALSE
