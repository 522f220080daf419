---------------------------- MODULE WorkerProcess ----------------------------
(***************************************************************************)
(* The worker process from its first line to its exit: bootstrap.ts puts   *)
(* the runtime (runtime.ts) under a stop that is already listening         *)
(* (Shutdown), and the failures of jobs are copied to system.dlq           *)
(* (lib/dlq.ts) while any of this goes on.                                 *)
(*                                                                         *)
(* A queue's jobs, the switch resync and the steps of the start and of the *)
(* stop interleave freely between their awaits.  The queue factory is seen *)
(* from the outside here: open, closing, or over.  BullMQ is external: a   *)
(* Worker takes jobs until close() is called, close() resolves when its    *)
(* jobs have ended, and may be refused at any time.                        *)
(***************************************************************************)
EXTENDS Integers, Sequences

CONSTANTS
  Queues,       \* the queues with a processor
  Jobs,         \* the jobs of this run
  QueueOf,      \* the queue of each job
  HeartbeatJob, \* the job that stamps the heartbeat
  Attempts      \* how many attempts a job has

ASSUME WorkerAssumption ==
  /\ QueueOf \in [Jobs -> Queues]
  /\ HeartbeatJob \in Jobs
  /\ Attempts \in Nat \ {0}

\* The stop of the worker, with signals and the failed start as its callers.
\* Keypresses are Shutdown's own subject and are left out here.
VARIABLES started, startedBySignal, failed, repeatArmed, hinted, windows, step,
          stage, exited, code, exitCode, pressed, copies, answered, forcedBy

Stop == INSTANCE Shutdown WITH
  Stages <- {"workers", "queues", "redis", "db"},
  Plan <- <<{<<"workers">>}, {<<"queues">>}, {<<"redis">>}, {<<"db">>}>>,
  Forcible <- TRUE,
  Requests <- {[signal |-> "SIGTERM", failed |-> FALSE],
               [signal |-> "internal", failed |-> TRUE]},
  MaxPresses <- 0,
  MaxCopies <- 0

VARIABLES
  boot,         \* where the start of the runtime is, or how it failed
  closing,      \* which step closeWorkers is at
  worker,       \* the Worker of each queue
  drained,      \* the queues whose DLQ writer has been drained
  resync,       \* whether the timer of the switch resync runs
  tick,         \* whether a tick of it is in flight
  factory,      \* the queue factory
  stamp,        \* whose heartbeat stamp Redis holds
  job,          \* what has become of each job
  attemptsMade,
  copy          \* what has become of each job's copy to system.dlq

stopVars == <<started, startedBySignal, failed, repeatArmed, hinted, windows,
              step, stage, exited, code, exitCode, pressed, copies, answered,
              forcedBy>>
startVars == <<boot, resync, tick, stamp>>
closeVars == <<closing, worker, drained, factory>>
jobVars == <<job, attemptsMade, copy>>
vars == <<stopVars, startVars, closeVars, jobVars>>

\* The signals are listened for before the start begins, so both are there
\* from the first state.  The stamp in Redis may be of an earlier process.
Init ==
  /\ Stop!Init
  /\ boot = "switches" /\ closing = "no"
  /\ worker = [q \in Queues |-> "none"] /\ drained = {}
  /\ resync = FALSE /\ tick = FALSE
  /\ factory = "open"
  /\ stamp \in {"previous", "none"}
  /\ job = [j \in Jobs |-> "waiting"]
  /\ attemptsMade = [j \in Jobs |-> 0]
  /\ copy = [j \in Jobs |-> "none"]

Alive == Stop!Alive

-----------------------------------------------------------------------------
(* The start: startEverything *)

\* A step of the start that throws is unwound by the stages of the stop.
Throw == boot' = "unwinding"

ApplySwitches ==
  /\ Alive /\ boot = "switches"
  /\ boot' = "heartbeat" \/ Throw
  /\ UNCHANGED <<stopVars, resync, tick, stamp, closeVars, jobVars>>

\* DEL of the stamp; the resync timer is set in the same breath.
ClearHeartbeat ==
  /\ Alive /\ boot = "heartbeat"
  /\ \/ boot' = "schedules" /\ resync' = TRUE /\ stamp' = "none"
     \/ Throw /\ UNCHANGED <<resync, stamp>>
  /\ UNCHANGED <<stopVars, tick, closeVars, jobVars>>

\* The schedules, then every Worker without a pause between them.
StartWorkers ==
  /\ Alive /\ boot = "schedules"
  /\ \E opened \in SUBSET Queues :
       /\ worker' = [q \in Queues |-> IF q \in opened THEN "open" ELSE "none"]
       /\ \/ opened = Queues /\ boot' = "up"
          \/ Throw
  /\ UNCHANGED <<stopVars, resync, tick, stamp, closing, drained, factory,
                 jobVars>>

-----------------------------------------------------------------------------
(* The switch resync *)

TickBegins ==
  /\ Alive /\ resync /\ ~tick
  /\ tick' = TRUE
  /\ UNCHANGED <<stopVars, boot, resync, stamp, closeVars, jobVars>>

\* A pass never rejects; what it does to the queues is QueueSwitches' subject.
TickEnds ==
  /\ Alive /\ tick
  /\ tick' = FALSE
  /\ UNCHANGED <<stopVars, boot, resync, stamp, closeVars, jobVars>>

-----------------------------------------------------------------------------
(* Jobs and their copies in system.dlq *)

TakeJob(j) ==
  /\ Alive /\ worker[QueueOf[j]] = "open" /\ job[j] = "waiting"
  /\ job' = [job EXCEPT ![j] = "active"]
  /\ UNCHANGED <<stopVars, startVars, closeVars, attemptsMade, copy>>

JobCompletes(j) ==
  /\ Alive /\ job[j] = "active"
  /\ job' = [job EXCEPT ![j] = "completed"]
  /\ stamp' = IF j = HeartbeatJob THEN "own" ELSE stamp
  /\ UNCHANGED <<stopVars, boot, resync, tick, closeVars, attemptsMade, copy>>

\* isFinalFailure: the attempts are spent, or the error is unrecoverable.
IsFinalFailure(made, unrecoverable) == unrecoverable \/ made >= Attempts

\* The copy a final failure starts: queues.get throws once the factory closes.
CopyBegun == IF factory = "open" THEN "in flight" ELSE "cut off"

\* An attempt fails: BullMQ emits `failed` and onFailed runs.  Without a record
\* there is nothing to copy, and a job with attempts left only gets a line.
JobFails(j) ==
  /\ Alive /\ job[j] = "active"
  /\ LET made == attemptsMade[j] + 1 IN
     /\ attemptsMade' = [attemptsMade EXCEPT ![j] = made]
     /\ \E unrecoverable \in BOOLEAN :
          IF IsFinalFailure(made, unrecoverable)
          THEN /\ job' = [job EXCEPT ![j] = "failed"]
               /\ \E outcome \in {CopyBegun, "no record"} :
                    copy' = [copy EXCEPT ![j] = outcome]
          ELSE /\ job' = [job EXCEPT ![j] = "waiting"]
               /\ UNCHANGED copy
  /\ UNCHANGED <<stopVars, startVars, closeVars>>

\* Redis answers the copy, or refuses it; or the queue or the connection it
\* travels on has been closed under it.
CopyEnds(j) ==
  /\ Alive /\ copy[j] = "in flight"
  /\ \/ copy' = [copy EXCEPT ![j] = "written"]
     \/ copy' = [copy EXCEPT ![j] = "refused"]
     \/ /\ factory # "open" \/ stage["redis"] # "waiting"
        /\ copy' = [copy EXCEPT ![j] = "cut off"]
  /\ UNCHANGED <<stopVars, startVars, closeVars, job, attemptsMade>>

-----------------------------------------------------------------------------
(* closeWorkers and closeQueues *)

\* Called by the unwinding of a failed start, or by the stop's first stage,
\* which has waited for the start to settle.
CloseWorkersCalled ==
  \/ boot = "unwinding"
  \/ stage["workers"] = "closing" /\ boot = "up"

StopResync ==
  /\ Alive /\ closing = "no" /\ CloseWorkersCalled
  /\ resync' = FALSE
  /\ closing' = "tick"
  /\ UNCHANGED <<stopVars, boot, tick, stamp, worker, drained, factory, jobVars>>

\* The tick that was in flight is over: every Worker is told to close.
CloseWorkers ==
  /\ Alive /\ closing = "tick" /\ ~tick
  /\ closing' = "workers"
  /\ worker' = [q \in Queues |->
                  IF worker[q] = "open" THEN "closing" ELSE worker[q]]
  /\ UNCHANGED <<stopVars, startVars, drained, factory, jobVars>>

Active(q) == \E j \in Jobs : QueueOf[j] = q /\ job[j] = "active"

WorkerCloses(q) ==
  /\ Alive /\ worker[q] = "closing"
  /\ \E outcome \in {"closed", "refused"} :
       /\ outcome = "closed" => ~Active(q)
       /\ worker' = [worker EXCEPT ![q] = outcome]
  /\ UNCHANGED <<stopVars, startVars, closing, drained, factory, jobVars>>

\* Promise.allSettled over the Workers.
WorkersSettled_Fault ==
  /\ Alive /\ closing = "workers"
  /\ \E q \in Queues : worker[q] # "closing"
  /\ closing' = "drain"
  /\ UNCHANGED <<stopVars, startVars, worker, drained, factory, jobVars>>
WorkersSettled ==
  /\ Alive /\ closing = "workers"
  /\ \A q \in Queues : worker[q] # "closing"
  /\ closing' = "drain"
  /\ UNCHANGED <<stopVars, startVars, worker, drained, factory, jobVars>>

InFlight(q) == \E j \in Jobs : QueueOf[j] = q /\ copy[j] = "in flight"

\* drain() of one writer: no copy of its queue is on its way at this moment.
Drain_Fault(q) ==
  /\ Alive /\ closing = "drain" /\ q \notin drained
  /\ drained' = drained \cup {q}
  /\ UNCHANGED <<stopVars, startVars, closing, worker, factory, jobVars>>
Drain(q) ==
  /\ Alive /\ closing = "drain" /\ q \notin drained
  /\ ~InFlight(q)
  /\ drained' = drained \cup {q}
  /\ UNCHANGED <<stopVars, startVars, closing, worker, factory, jobVars>>

CloseWorkersEnds ==
  /\ Alive /\ closing = "drain" /\ drained = Queues
  /\ closing' = IF \E q \in Queues : worker[q] = "refused"
                THEN "refused" ELSE "closed"
  /\ UNCHANGED <<stopVars, startVars, worker, drained, factory, jobVars>>

CloseQueuesCalled ==
  \/ boot = "unwinding" /\ closing \in {"closed", "refused"}
  \/ stage["queues"] = "closing" /\ boot = "up"

CloseFactory ==
  /\ Alive /\ factory = "open" /\ CloseQueuesCalled
  /\ factory' = "closing"
  /\ UNCHANGED <<stopVars, startVars, closing, worker, drained, jobVars>>

FactoryCloses ==
  /\ Alive /\ factory = "closing"
  /\ factory' \in {"closed", "refused"}
  /\ UNCHANGED <<stopVars, startVars, closing, worker, drained, jobVars>>

FactoryOver == factory \in {"closed", "refused"}

-----------------------------------------------------------------------------
(* The stop and the start, under one handler *)

Untouched == UNCHANGED <<resync, tick, stamp, closeVars, jobVars>>

Sigterm ==
  /\ Stop!Call([signal |-> "SIGTERM", failed |-> FALSE], Stop!NoPress)
  /\ UNCHANGED <<pressed, copies, boot>> /\ Untouched

\* The start has been unwound: bootstrap reports it and asks for the stop.
\* The report runs in the microtasks that settle `started`, so no stage that
\* waits for the start gets ahead of it.
StartFails_Fault ==
  /\ boot = "unwinding" /\ FactoryOver
  /\ boot' = "failed"
  /\ Stop!Call([signal |-> "internal", failed |-> FALSE], Stop!NoPress)
  /\ UNCHANGED <<pressed, copies>> /\ Untouched
StartFails ==
  /\ boot = "unwinding" /\ FactoryOver
  /\ boot' = "failed"
  /\ Stop!Call([signal |-> "internal", failed |-> TRUE], Stop!NoPress)
  /\ UNCHANGED <<pressed, copies>> /\ Untouched

StageBegins ==
  /\ \E s \in {"workers", "queues", "redis", "db"} : Stop!CloseBegins(<<s>>, 1)
  /\ UNCHANGED boot /\ Untouched

\* stageOf: the runtime's stages wait for the start, and answer "not opened"
\* when it failed; what the close of an open runtime answers is its outcome.
StageAnswer(s) ==
  IF boot = "failed" THEN "not opened"
  ELSE IF s = "workers"
       THEN IF closing = "refused" THEN "failed" ELSE "closed"
       ELSE IF factory = "refused" THEN "failed" ELSE "closed"

StageReady(s) ==
  \/ boot = "failed"
  \/ boot = "up" /\ s = "workers" /\ closing \in {"closed", "refused"}
  \/ boot = "up" /\ s = "queues" /\ FactoryOver

RuntimeStageEnds ==
  /\ \E s \in {"workers", "queues"} :
       StageReady(s) /\ Stop!CloseEnds(s) /\ stage'[s] = StageAnswer(s)
  /\ UNCHANGED boot /\ Untouched

\* closeRedis and closeDb: closed, torn down with a warning, or refused.
ConnectionEnds ==
  /\ \E s \in {"redis", "db"} : Stop!CloseEnds(s) /\ stage'[s] # "not opened"
  /\ UNCHANGED boot /\ Untouched

StopEnds ==
  /\ Stop!PlanEnds \/ Stop!DeadlineFires \/ Stop!Exit
  /\ UNCHANGED boot /\ Untouched

Next ==
  \/ ApplySwitches \/ ClearHeartbeat \/ StartWorkers
  \/ TickBegins \/ TickEnds
  \/ \E j \in Jobs : TakeJob(j) \/ JobCompletes(j) \/ JobFails(j) \/ CopyEnds(j)
  \/ StopResync \/ CloseWorkers
  \/ \E q \in Queues : WorkerCloses(q) \/ Drain(q)
  \/ WorkersSettled \/ CloseWorkersEnds \/ CloseFactory \/ FactoryCloses
  \/ Sigterm \/ StartFails \/ StageBegins \/ RuntimeStageEnds
  \/ ConnectionEnds \/ StopEnds

Spec == Init /\ [][Next]_vars

-----------------------------------------------------------------------------
(* What the order of the start and of the stop is for *)

SomeWorkerRefused == \E q \in Queues : worker[q] = "refused"

\* The queue factory outlives those who open queues from it: a tick of the
\* resync never meets one that is closing, it would open a Queue on a process
\* that is leaving; and a copy on its way to system.dlq is never cut off, none
\* is started too late, and no connection goes under a running job, unless a
\* Worker refused to close (runtime.ts:117, 133).
QueuesOutliveTheirUsers ==
  /\ factory # "open" => ~tick /\ ~resync
  /\ (\E j \in Jobs : copy[j] = "cut off") => SomeWorkerRefused
  /\ (stage["redis"] # "waiting" /\ \E j \in Jobs : job[j] = "active") => SomeWorkerRefused

\* A process that leaves with 0 leaves no job running and no copy unanswered;
\* and a start that failed never looks like a clean stop, also when a signal
\* had begun the stop before the start failed.
CleanExitLosesNothing ==
  exitCode = 0 =>
    /\ boot # "failed"
    /\ \A j \in Jobs : job[j] # "active" /\ copy[j] \notin {"in flight", "cut off"}
=============================================================================
