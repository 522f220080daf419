----------------------------- MODULE SmokeRun ------------------------------
(***************************************************************************)
(* The smoke check: runSmoke and runSmokeCommand of                        *)
(* apps/worker/src/cli/smoke-run.ts, as smoke.ts puts them together.       *)
(*                                                                         *)
(* One job is put on a queue and the worker of another process is waited   *)
(* for, over a Redis whose client never gives up by itself.  The stop of   *)
(* the process is the one StopContract promises, which Shutdown implements. *)
(***************************************************************************)
EXTENDS StopContract, FiniteSets

VARIABLES
  redis,     \* whether Redis answers
  job,       \* the job, as the queue knows it
  prep,      \* how far the run has come with putting it there
  timer,     \* the deadline, and the question for the reason after it
  over, settled, verdictOfRun,  \* runSmoke
  returned,  \* the await on the run is over
  outcome, ran, aborted         \* runSmokeCommand

runVars == <<redis, job, prep, timer, over, settled, verdictOfRun>>
commandVars == <<returned, outcome, ran, aborted>>
smokeVars == <<contractVars, runVars, commandVars>>

SmokeInit ==
  /\ ContractInit
  /\ redis \in {"up", "dead"} /\ job = "none"
  /\ prep = "open" /\ timer = "unset"
  /\ over = FALSE /\ settled = FALSE /\ verdictOfRun = "none"
  /\ returned = FALSE /\ outcome = "none" /\ ran = FALSE /\ aborted = FALSE

Alive == left = NoCode

\* No verdict yet is a failure too: nothing is proven.
Failed_Fault == outcome = "fail"
Failed == outcome # "pass"

-----------------------------------------------------------------------------
(* The stop *)

\* Only the first call of the stop starts it; each says what it knows.
ShutdownCalled(failed) ==
  /\ blamed' = (blamed \/ failed) /\ UNCHANGED released
  /\ IF stopping THEN Learn ELSE Stop

\* The plan works on, whatever the run is doing.
StopReleases ==
  /\ released' \in SUBSET Stages
  /\ UNCHANGED <<blamed, runVars, commandVars>> /\ Learn
StopDecides ==
  UNCHANGED <<released, blamed, runVars, commandVars>> /\ Decide
StopLeaves == Leave /\ UNCHANGED <<runVars, commandVars>>

-----------------------------------------------------------------------------
(* The verdict *)

\* onVerdict: the command knows the verdict before the await is over.
OnVerdict(o) ==
  IF ran \/ aborted THEN UNCHANGED <<outcome, ran>>
  ELSE outcome' = o /\ ran' = TRUE

Finish(o) ==
  IF settled THEN UNCHANGED <<over, settled, verdictOfRun, outcome, ran>>
  ELSE /\ settled' = TRUE /\ over' = TRUE /\ verdictOfRun' = o
       /\ OnVerdict(o)

\* finishByJob: once the deadline has fired the job gives no verdict, though
\* the run is not settled before its reason is in.
FinishByJob(o) ==
  IF over THEN UNCHANGED <<over, settled, verdictOfRun, outcome, ran>>
  ELSE Finish(o)

-----------------------------------------------------------------------------
(* runSmoke *)

\* The connections are opened and the deadline armed before Redis is asked for
\* anything.
Opens ==
  /\ Alive /\ prep = "open"
  /\ prep' = "events" /\ timer' = "armed"
  /\ UNCHANGED <<contractVars, redis, job, over, settled, verdictOfRun, commandVars>>

OpeningThrows ==
  /\ Alive /\ prep = "open"
  /\ prep' = "gone"
  /\ returned' = TRUE /\ ran' = TRUE
  /\ ShutdownCalled(Failed)
  /\ UNCHANGED <<redis, job, timer, over, settled, verdictOfRun, outcome,
                 aborted>>

\* Nothing is put on the queue by a run that is over.
MayEnqueue == ~over

EventsReady ==
  /\ Alive /\ prep = "events" /\ redis = "up"
  /\ prep' = IF MayEnqueue THEN "enqueuing" ELSE "gone"
  /\ UNCHANGED <<contractVars, redis, job, timer, over, settled, verdictOfRun,
                 commandVars>>

JobAdded ==
  /\ Alive /\ prep = "enqueuing" /\ redis = "up" /\ job = "none"
  /\ job' = "waiting"
  /\ UNCHANGED <<contractVars, redis, prep, timer, over, settled, verdictOfRun,
                 commandVars>>

EnqueueAnswers ==
  /\ Alive /\ prep = "enqueuing" /\ redis = "up" /\ job # "none"
  /\ prep' = IF over THEN "gone" ELSE "watching"
  /\ UNCHANGED <<contractVars, redis, job, timer, over, settled, verdictOfRun,
                 commandVars>>

\* A refusal, or a connection the stop has closed: no news once it is over.
EnqueueFails ==
  /\ Alive /\ prep \in {"events", "enqueuing"}
  /\ prep' = "gone"
  /\ IF over \/ aborted
     THEN UNCHANGED <<over, settled, verdictOfRun, outcome, ran>>
     ELSE Finish("fail")
  /\ UNCHANGED <<contractVars, redis, job, timer, returned, aborted>>

\* An event, or the polled state, which is there when the event is missed.
JobTells ==
  /\ Alive /\ prep = "watching" /\ redis = "up" /\ job \in {"completed", "failed"}
  /\ FinishByJob(IF job = "completed" THEN "pass" ELSE "fail")
  /\ UNCHANGED <<contractVars, redis, job, prep, timer, returned, aborted>>

DeadlineFires ==
  /\ Alive /\ timer = "armed" /\ ~returned
  /\ timer' = "asking" /\ over' = TRUE
  /\ UNCHANGED <<contractVars, redis, job, prep, settled, verdictOfRun, commandVars>>

\* probeQueueState: the answer, or after SMOKE_PROBE_MS none.
ReasonIsIn ==
  /\ Alive /\ timer = "asking"
  /\ timer' = "done"
  /\ Finish("fail")
  /\ UNCHANGED <<contractVars, redis, job, prep, returned, aborted>>

QueueAnswers == redis = "up" /\ ReasonIsIn

ProbeTimesOut_Fault == redis = "up" /\ ReasonIsIn
ProbeTimesOut == ReasonIsIn

-----------------------------------------------------------------------------
(* runSmokeCommand *)

\* A signal before the verdict interrupts the run, which answers at once.
Signal ==
  /\ Alive /\ prep # "open"
  /\ IF ran \/ aborted
     THEN UNCHANGED <<aborted, over, settled, verdictOfRun>>
     ELSE /\ aborted' = TRUE
          /\ settled' = TRUE /\ over' = TRUE
          /\ verdictOfRun' = IF settled THEN verdictOfRun ELSE "fail"
  /\ ShutdownCalled(Failed)
  /\ UNCHANGED <<redis, job, prep, timer, returned, outcome, ran>>

\* The run returned: a stop of a signal is on its way, or this one is asked for.
Speaks == ~aborted

RunReturns ==
  /\ Alive /\ settled /\ ~returned
  /\ returned' = TRUE /\ ran' = TRUE /\ outcome' = verdictOfRun
  /\ IF Speaks
     THEN ShutdownCalled(verdictOfRun # "pass")
     ELSE UNCHANGED contractVars
  /\ UNCHANGED <<runVars, aborted>>

-----------------------------------------------------------------------------
(* The other process, and Redis *)

WorkerFinishes ==
  /\ job = "waiting" /\ redis = "up"
  /\ job' \in {"completed", "failed"}
  /\ UNCHANGED <<contractVars, redis, prep, timer, over, settled, verdictOfRun,
                 commandVars>>

RedisTurns ==
  /\ redis' \in {"up", "dead"} \ {redis}
  /\ UNCHANGED <<contractVars, job, prep, timer, over, settled, verdictOfRun,
                 commandVars>>

SmokeNext ==
  \/ Opens \/ OpeningThrows \/ EventsReady \/ JobAdded \/ EnqueueAnswers
  \/ EnqueueFails \/ JobTells \/ DeadlineFires \/ QueueAnswers \/ ProbeTimesOut
  \/ Signal \/ RunReturns
  \/ StopReleases \/ StopDecides \/ StopLeaves
  \/ WorkerFinishes \/ RedisTurns

\* Timers and the event loop only: Redis owes nothing.  The stop's own deadline
\* is what StopContract owes it to (Shutdown!StopEnds).
SmokeSpec ==
  /\ SmokeInit /\ [][SmokeNext]_smokeVars
  /\ WF_smokeVars(Opens \/ OpeningThrows) /\ WF_smokeVars(DeadlineFires)
  /\ WF_smokeVars(ProbeTimesOut) /\ WF_smokeVars(RunReturns)
  /\ WF_smokeVars(StopDecides) /\ WF_smokeVars(StopLeaves)

-----------------------------------------------------------------------------
(* What the check is worth *)

\* The code is 0 only for a job the worker really finished, in a run that was
\* not interrupted; a job that completes while the deadline waits for its reason
\* is no pass; and a pass stands from the moment it is reached: a signal after
\* it, even before the await is over, neither interrupts nor blames it.
ZeroIsProven ==
  /\ [](left = 0 => job = "completed" /\ outcome = "pass" /\ ~aborted)
  /\ [](verdictOfRun = "pass" => ~aborted /\ outcome = "pass")
  /\ [][verdictOfRun = "none" /\ verdictOfRun' = "pass" => ~over]_smokeVars

\* The command always ends, with Redis dead from any moment on.
CommandEnds == <>(left # NoCode)
=============================================================================
