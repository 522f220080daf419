-------------------------- MODULE WorkerProcessProofs -------------------------
(***************************************************************************)
(* That the order in which the worker starts and stops keeps its promises, *)
(* for any queues, jobs and attempts, wherever a start throws, a signal    *)
(* comes or a close is refused.                                            *)
(*                                                                         *)
(* The invariant follows the stop from the outside in: what has begun to   *)
(* close says how far the runtime is (OrderInv), how far the runtime is    *)
(* says which Workers still hold a job or a copy (UseInv), and a verdict   *)
(* says that all of it went well (VerdictInv).                             *)
(***************************************************************************)
EXTENDS WorkerProcess, TLAPS

StageNames == {"workers", "queues", "redis", "db"}
Answers == {"closed", "warned", "not opened", "failed"}

TypeOK ==
  /\ boot \in {"switches", "heartbeat", "schedules", "up", "unwinding", "failed"}
  /\ closing \in {"no", "tick", "workers", "drain", "closed", "refused"}
  /\ worker \in [Queues -> {"none", "open", "closing", "closed", "refused"}]
  /\ drained \subseteq Queues
  /\ resync \in BOOLEAN /\ tick \in BOOLEAN
  /\ factory \in {"open", "closing", "closed", "refused"}
  /\ job \in [Jobs -> {"waiting", "active", "completed", "failed"}]
  /\ attemptsMade \in [Jobs -> Nat]
  /\ copy \in [Jobs -> {"none", "in flight", "written", "refused", "cut off",
                        "no record"}]
  /\ stage \in [StageNames -> {"waiting", "closing"} \cup Answers]
  /\ step \in 1 .. 5 /\ failed \in BOOLEAN

ClosingOver == closing \in {"closed", "refused"}

\* The place of a stage in the plan of the stop.
Place(s) ==
  CASE s = "workers" -> 1 [] s = "queues" -> 2 [] s = "redis" -> 3 [] s = "db" -> 4

PlanInv ==
  \A s \in StageNames : /\ stage[s] # "waiting" => Place(s) <= step
                        /\ Place(s) < step => stage[s] \in Answers

\* What the stages and the start say of the runtime's own close.
OrderInv ==
  /\ closing # "no" => boot \in {"unwinding", "up", "failed"} /\ ~resync
  /\ closing \notin {"no", "tick"} => ~tick
  /\ factory # "open" => ClosingOver
  /\ boot = "failed" => FactoryOver
  /\ stage["workers"] \in Answers => boot = "failed" \/ (boot = "up" /\ ClosingOver)
  /\ stage["queues"] \in Answers => boot = "failed" \/ (boot = "up" /\ FactoryOver)

\* What the runtime's own close says of the Workers, the jobs and the copies.
UseInv ==
  /\ boot \in {"switches", "heartbeat", "schedules"} => \A q \in Queues : worker[q] = "none"
  /\ closing \notin {"no", "tick"} => \A q \in Queues : worker[q] # "open"
  /\ closing \notin {"no", "tick", "workers"} => \A q \in Queues : worker[q] # "closing"
  /\ drained # {} => closing \notin {"no", "tick", "workers"}
  /\ ClosingOver => drained = Queues
  /\ closing = "closed" => ~SomeWorkerRefused
  /\ \A j \in Jobs :
       /\ job[j] = "active" => worker[QueueOf[j]] \in {"open", "closing", "refused"}
       /\ copy[j] = "in flight" /\ QueueOf[j] \in drained => worker[QueueOf[j]] = "refused"
       /\ copy[j] = "cut off" => SomeWorkerRefused

\* What the verdict of the stop says.
VerdictInv ==
  /\ boot = "failed" => failed
  /\ stage["workers"] = "failed" => failed
  /\ stage["workers"] \in Answers /\ closing = "refused" /\ boot = "up" => failed
  /\ code = 0 => boot = "up" /\ closing = "closed"
  /\ exitCode = 0 => code = 0

WorkerInv == TypeOK /\ PlanInv /\ OrderInv /\ UseInv /\ VerdictInv

-----------------------------------------------------------------------------
(* What the steps of the stop do to the stages and the verdict *)

\* The plan the stop of the worker is given.
WorkerPlan == <<{<<"workers">>}, {<<"queues">>}, {<<"redis">>}, {<<"db">>}>>

LEMMA PlanAt ==
  /\ DOMAIN WorkerPlan = 1 .. 4 /\ Len(WorkerPlan) = 4
  /\ WorkerPlan[1] = {<<"workers">>} /\ WorkerPlan[2] = {<<"queues">>}
  /\ WorkerPlan[3] = {<<"redis">>} /\ WorkerPlan[4] = {<<"db">>}
  BY DEF WorkerPlan

LEMMA CloseBeginsAt ==
  ASSUME TypeOK, NEW s \in StageNames, Stop!CloseBegins(<<s>>, 1)
  PROVE  /\ step = Place(s) /\ stage[s] = "waiting"
         /\ stage' = [stage EXCEPT ![s] = "closing"]
         /\ UNCHANGED <<step, failed, code, exitCode>>
<1>1. step = Place(s)
  <2>1. step \in DOMAIN WorkerPlan /\ <<s>> \in WorkerPlan[step]
    BY DEF Stop!CloseBegins, WorkerPlan
  <2>2. \A t \in StageNames : <<s>> = <<t>> => s = t
    OBVIOUS
  <2> QED
    BY <2>1, <2>2, PlanAt DEF StageNames, Place
<1> QED
  BY <1>1 DEF Stop!CloseBegins, Stop!handlerVars, Stop!exitVars

LEMMA StepSettles ==
  ASSUME NEW phase, NEW s \in StageNames,
         step \in 1 .. 4, Stop!StepSettled(step, phase), Place(s) = step
  PROVE  phase[s] \in Answers
<1>1. \A q \in WorkerPlan[step] : \A k \in DOMAIN q : phase[q[k]] \in Answers
  BY DEF Stop!StepSettled, Stop!Answers, Answers, WorkerPlan
<1>2. <<s>> \in WorkerPlan[step]
  BY PlanAt DEF StageNames, Place
<1> QED
  BY <1>1, <1>2

LEMMA CloseEndsAt ==
  ASSUME TypeOK, NEW s \in StageNames, Stop!CloseEnds(s)
  PROVE  /\ stage[s] = "closing" /\ stage'[s] \in Answers
         /\ \A t \in StageNames \ {s} : stage'[t] = stage[t]
         /\ stage' \in [StageNames -> {"waiting", "closing"} \cup Answers]
         /\ \/ step' = step
            \/ /\ step \in 1 .. 4 /\ step' = step + 1
               /\ \A t \in StageNames : Place(t) = step => stage'[t] \in Answers
         /\ failed' = (failed \/ stage'[s] = "failed")
         /\ UNCHANGED <<code, exitCode>>
<1>1. PICK answer \in Answers :
        /\ stage' = [stage EXCEPT ![s] = answer]
        /\ step' = Stop!StepAfter(stage')
        /\ failed' = (failed \/ answer = "failed")
  BY DEF Stop!CloseEnds, Stop!Answers, Answers
<1>2. /\ stage'[s] = answer /\ \A t \in StageNames \ {s} : stage'[t] = stage[t]
      /\ stage' \in [StageNames -> {"waiting", "closing"} \cup Answers]
  BY <1>1 DEF TypeOK
<1>3. \/ step' = step
      \/ step \in 1 .. 4 /\ step' = step + 1 /\ Stop!StepSettled(step, stage')
  <2>1. step' = IF step \in DOMAIN WorkerPlan /\ Stop!StepSettled(step, stage')
                THEN step + 1 ELSE step
    BY <1>1 DEF Stop!StepAfter, WorkerPlan
  <2> QED
    BY <2>1, PlanAt
<1> QED
  BY <1>1, <1>2, <1>3, StepSettles DEF Stop!CloseEnds, Stop!exitVars

LEMMA CallKnows ==
  ASSUME NEW signal \in {"SIGTERM", "internal"}, NEW f \in BOOLEAN,
         Stop!Call([signal |-> signal, failed |-> f], Stop!NoPress)
  PROVE  /\ UNCHANGED <<stage, step, code, exitCode>>
         /\ failed' = (failed \/ f)
  BY DEF Stop!Call, Stop!Begin, Stop!Hint, Stop!IgnoreCopy, Stop!ForceExit,
         Stop!AlreadyStopping, Stop!MayForce, Stop!Blame, Stop!planVars, Stop!exitVars

LEMMA StopVerdict ==
  ASSUME TypeOK, Stop!PlanEnds \/ Stop!DeadlineFires \/ Stop!Exit
  PROVE  /\ UNCHANGED <<stage, step, failed>>
         /\ code' = 0 /\ code # 0 => ~failed /\ step = 5
         /\ exitCode' = 0 => (exitCode = 0 /\ code' = code) \/ code' = 0
         /\ exitCode = 0 => code' = code
<1> USE DEF Stop!planVars, Stop!handlerVars, Stop!exitVars, Stop!Alive, Stop!NoCode
<1>1. CASE Stop!PlanEnds
  <2>1. Stop!PlanOver <=> step = 5
    BY PlanAt DEF Stop!PlanOver, WorkerPlan
  <2>2. /\ step = 5 /\ UNCHANGED <<stage, step, failed>>
        /\ exitCode = -1 /\ exitCode' = exitCode
    BY <1>1, <2>1 DEF Stop!PlanEnds
  <2>3. failed => code' = 1
    BY <1>1 DEF Stop!PlanEnds, Stop!ExitOnce
  <2> QED
    BY <2>2, <2>3
<1>2. CASE Stop!DeadlineFires
  BY <1>2 DEF Stop!DeadlineFires, Stop!ExitOnce, Stop!TimeoutCode
<1>3. CASE Stop!Exit
  BY <1>3 DEF Stop!Exit
<1> QED
  BY <1>1, <1>2, <1>3

LEMMA PlacesAre ==
  Place("workers") = 1 /\ Place("queues") = 2 /\ Place("redis") = 3 /\ Place("db") = 4
  BY DEF Place

LEMMA StagesInOrder ==
  ASSUME TypeOK, PlanInv
  PROVE  /\ stage["queues"] # "waiting" => stage["workers"] \in Answers
         /\ stage["redis"] # "waiting" => stage["queues"] \in Answers
         /\ step = 5 => \A s \in StageNames : stage[s] \in Answers
<1>0. step \in 1 .. 5
  BY DEF TypeOK
<1>1. \A s \in StageNames : Place(s) < 5
  BY PlacesAre DEF StageNames
<1>2. stage["queues"] # "waiting" => stage["workers"] \in Answers
  BY <1>0, PlacesAre DEF PlanInv, StageNames
<1>3. stage["redis"] # "waiting" => stage["queues"] \in Answers
  BY <1>0, PlacesAre DEF PlanInv, StageNames
<1> QED
  BY <1>1, <1>2, <1>3 DEF PlanInv

\* Past the factory, and with Redis going, only a Worker that refused to close
\* holds a job or a copy on its way.
LEMMA LateIsRefused ==
  ASSUME WorkerInv, factory # "open" \/ stage["redis"] # "waiting",
         NEW j \in Jobs, job[j] = "active" \/ copy[j] = "in flight"
  PROVE  ClosingOver /\ worker[QueueOf[j]] = "refused" /\ SomeWorkerRefused
<1>1. factory # "open"
  <2>1. stage["redis"] # "waiting" => stage["queues"] \in Answers
    BY StagesInOrder DEF WorkerInv
  <2> QED
    BY <2>1 DEF WorkerInv, OrderInv, FactoryOver
<1>2. QueueOf[j] \in Queues
  BY WorkerAssumption
<1> QED
  BY <1>1, <1>2 DEF WorkerInv, OrderInv, UseInv, TypeOK, ClosingOver, SomeWorkerRefused

-----------------------------------------------------------------------------
(* The steps of the runtime *)

\* The start and the ticks of the switch resync.
LEMMA StartKeeps ==
  ASSUME WorkerInv,
         \/ ApplySwitches
         \/ ClearHeartbeat
         \/ StartWorkers
         \/ TickBegins
         \/ TickEnds
  PROVE  WorkerInv'
<1> USE WorkerAssumption DEF WorkerInv, stopVars, startVars, closeVars, jobVars
<1>1. CASE ApplySwitches
  <2>1. TypeOK' /\ PlanInv'
    BY <1>1 DEF ApplySwitches, TypeOK, PlanInv, Answers, Throw
  <2>2. OrderInv'
    BY <1>1 DEF ApplySwitches, OrderInv, TypeOK, ClosingOver, FactoryOver, Throw
  <2>3. UseInv'
    BY <1>1 DEF ApplySwitches, UseInv, TypeOK, ClosingOver, SomeWorkerRefused, Throw
  <2>4. VerdictInv'
    BY <1>1 DEF ApplySwitches, VerdictInv, OrderInv, TypeOK, Answers, ClosingOver, Throw
  <2> QED
    BY <2>1, <2>2, <2>3, <2>4
<1>2. CASE ClearHeartbeat
  <2>1. TypeOK' /\ PlanInv'
    BY <1>2 DEF ClearHeartbeat, TypeOK, PlanInv, Answers, Throw
  <2>2. OrderInv'
    BY <1>2 DEF ClearHeartbeat, OrderInv, TypeOK, ClosingOver, FactoryOver, Throw
  <2>3. UseInv'
    BY <1>2 DEF ClearHeartbeat, UseInv, TypeOK, ClosingOver, SomeWorkerRefused, Throw
  <2>4. VerdictInv'
    BY <1>2 DEF ClearHeartbeat, VerdictInv, OrderInv, TypeOK, Answers, ClosingOver, Throw
  <2> QED
    BY <2>1, <2>2, <2>3, <2>4
<1>3. CASE StartWorkers
  <2>1. TypeOK' /\ PlanInv'
    BY <1>3 DEF StartWorkers, TypeOK, PlanInv, Answers, Throw
  <2>2. OrderInv'
    BY <1>3 DEF StartWorkers, OrderInv, TypeOK, ClosingOver, FactoryOver, Throw
  <2>3. UseInv'
    BY <1>3 DEF StartWorkers, UseInv, OrderInv, TypeOK, ClosingOver, SomeWorkerRefused, Throw
  <2>4. VerdictInv'
    BY <1>3 DEF StartWorkers, VerdictInv, OrderInv, TypeOK, Answers, ClosingOver, Throw
  <2> QED
    BY <2>1, <2>2, <2>3, <2>4
<1>4. CASE TickBegins
  <2>1. TypeOK' /\ PlanInv'
    BY <1>4 DEF TickBegins, TypeOK, PlanInv, Answers, Throw
  <2>2. OrderInv'
    BY <1>4 DEF TickBegins, OrderInv, TypeOK, ClosingOver, FactoryOver, Throw
  <2>3. UseInv'
    BY <1>4 DEF TickBegins, UseInv, TypeOK, ClosingOver, SomeWorkerRefused, Throw
  <2>4. VerdictInv'
    BY <1>4 DEF TickBegins, VerdictInv, OrderInv, TypeOK, Answers, ClosingOver, Throw
  <2> QED
    BY <2>1, <2>2, <2>3, <2>4
<1>5. CASE TickEnds
  <2>1. TypeOK' /\ PlanInv'
    BY <1>5 DEF TickEnds, TypeOK, PlanInv, Answers, Throw
  <2>2. OrderInv'
    BY <1>5 DEF TickEnds, OrderInv, TypeOK, ClosingOver, FactoryOver, Throw
  <2>3. UseInv'
    BY <1>5 DEF TickEnds, UseInv, TypeOK, ClosingOver, SomeWorkerRefused, Throw
  <2>4. VerdictInv'
    BY <1>5 DEF TickEnds, VerdictInv, OrderInv, TypeOK, Answers, ClosingOver, Throw
  <2> QED
    BY <2>1, <2>2, <2>3, <2>4
<1> QED
  BY <1>1, <1>2, <1>3, <1>4, <1>5

\* The jobs and their copies in system.dlq.
LEMMA JobsKeep ==
  ASSUME WorkerInv,
         \/ (\E j \in Jobs : TakeJob(j))
         \/ (\E j \in Jobs : JobCompletes(j))
         \/ (\E j \in Jobs : JobFails(j))
         \/ (\E j \in Jobs : CopyEnds(j))
  PROVE  WorkerInv'
<1> USE WorkerAssumption DEF WorkerInv, stopVars, startVars, closeVars, jobVars
<1>1. ASSUME NEW j \in Jobs, TakeJob(j) PROVE WorkerInv'
  <2>1. TypeOK' /\ PlanInv'
    BY <1>1, ZenonT(60) DEF TakeJob, TypeOK, PlanInv, Answers, Throw
  <2>2. OrderInv'
    BY <1>1 DEF TakeJob, OrderInv, TypeOK, ClosingOver, FactoryOver, Throw
  <2>3. UseInv'
    BY <1>1 DEF TakeJob, UseInv, TypeOK, ClosingOver, SomeWorkerRefused, Throw
  <2>4. VerdictInv'
    BY <1>1 DEF TakeJob, VerdictInv, OrderInv, TypeOK, Answers, ClosingOver, Throw
  <2> QED
    BY <2>1, <2>2, <2>3, <2>4
<1>2. ASSUME NEW j \in Jobs, JobCompletes(j) PROVE WorkerInv'
  <2>1. TypeOK' /\ PlanInv'
    BY <1>2 DEF JobCompletes, TypeOK, PlanInv, Answers, Throw
  <2>2. OrderInv'
    BY <1>2 DEF JobCompletes, OrderInv, TypeOK, ClosingOver, FactoryOver, Throw
  <2>3. UseInv'
    BY <1>2 DEF JobCompletes, UseInv, TypeOK, ClosingOver, SomeWorkerRefused, Throw
  <2>4. VerdictInv'
    BY <1>2 DEF JobCompletes, VerdictInv, OrderInv, TypeOK, Answers, ClosingOver, Throw
  <2> QED
    BY <2>1, <2>2, <2>3, <2>4
<1>3. ASSUME NEW j \in Jobs, JobFails(j) PROVE WorkerInv'
  <2>1. TypeOK' /\ PlanInv'
    <3>1. attemptsMade \in [Jobs -> Nat]
      BY DEF TypeOK
    <3>2. UNCHANGED <<boot, closing, worker, drained, resync, tick, factory, stage, step, failed>>
      BY <1>3 DEF JobFails
    <3>3. attemptsMade' \in [Jobs -> Nat]
      <4>1. attemptsMade' = [attemptsMade EXCEPT ![j] = attemptsMade[j] + 1]
        BY <1>3 DEF JobFails
      <4> QED
        BY <3>1, <4>1
    <3>4. job' \in [Jobs -> {"waiting", "active", "completed", "failed"}]
      BY <1>3 DEF JobFails, TypeOK
    <3>5. copy' \in [Jobs -> {"none", "in flight", "written", "refused", "cut off", "no record"}]
      BY <1>3 DEF JobFails, TypeOK, CopyBegun
    <3> QED
      BY <3>2, <3>3, <3>4, <3>5 DEF TypeOK, PlanInv, Answers
  <2>2. OrderInv'
    BY <1>3 DEF JobFails, OrderInv, TypeOK, ClosingOver, FactoryOver, Throw
  <2>3. UseInv'
    <3>1. /\ \A i \in Jobs \ {j} : job'[i] = job[i] /\ copy'[i] = copy[i]
          /\ job'[j] # "active" /\ UNCHANGED <<boot, closing, worker, drained>>
          /\ copy'[j] \in {copy[j], CopyBegun, "no record"}
          /\ job[j] = "active"
      BY <1>3 DEF JobFails, TypeOK
    <3>2. CopyBegun = "cut off" => SomeWorkerRefused
      BY <3>1, LateIsRefused DEF CopyBegun
    <3>3. QueueOf[j] \in drained => worker[QueueOf[j]] = "refused"
      BY <3>1 DEF UseInv
    <3>4. \A i \in Jobs :
            /\ job'[i] = "active" => worker'[QueueOf[i]] \in {"open", "closing", "refused"}
            /\ copy'[i] = "in flight" /\ QueueOf[i] \in drained' => worker'[QueueOf[i]] = "refused"
            /\ copy'[i] = "cut off" => SomeWorkerRefused'
      BY <3>1, <3>2, <3>3 DEF UseInv, SomeWorkerRefused
    <3> QED
      BY <3>1, <3>4 DEF UseInv, ClosingOver, SomeWorkerRefused
  <2>4. VerdictInv'
    BY <1>3 DEF JobFails, VerdictInv, OrderInv, TypeOK, Answers, ClosingOver, Throw
  <2> QED
    BY <2>1, <2>2, <2>3, <2>4
<1>4. ASSUME NEW j \in Jobs, CopyEnds(j) PROVE WorkerInv'
  <2>1. TypeOK' /\ PlanInv'
    <3>1. UNCHANGED <<boot, closing, worker, drained, resync, tick, factory, stage, step, failed,
                        job, attemptsMade>>
      BY <1>4 DEF CopyEnds
    <3>2. \E outcome \in {"written", "refused", "cut off"} : copy' = [copy EXCEPT ![j] = outcome]
      BY <1>4 DEF CopyEnds
    <3> QED
      BY <3>1, <3>2, ZenonT(60) DEF TypeOK, PlanInv
  <2>2. OrderInv'
    BY <1>4 DEF CopyEnds, OrderInv, TypeOK, ClosingOver, FactoryOver, Throw
  <2>3. UseInv'
    <3>1. /\ \A i \in Jobs \ {j} : copy'[i] = copy[i]
          /\ copy'[j] \in {"written", "refused", "cut off"} /\ copy[j] = "in flight"
          /\ copy'[j] = "cut off" => factory # "open" \/ stage["redis"] # "waiting"
          /\ UNCHANGED <<boot, closing, worker, drained, job>>
      <4>1. \E outcome \in {"written", "refused", "cut off"} :
              /\ copy' = [copy EXCEPT ![j] = outcome]
              /\ outcome = "cut off" => factory # "open" \/ stage["redis"] # "waiting"
        BY <1>4 DEF CopyEnds
      <4>2. copy[j] = "in flight" /\ UNCHANGED <<boot, closing, worker, drained, job>>
        BY <1>4 DEF CopyEnds
      <4> QED
        BY <4>1, <4>2 DEF TypeOK
    <3>2. copy'[j] = "cut off" => SomeWorkerRefused
      BY <3>1, LateIsRefused
    <3> QED
      BY <3>1, <3>2 DEF UseInv, ClosingOver, SomeWorkerRefused
  <2>4. VerdictInv'
    BY <1>4 DEF CopyEnds, VerdictInv, OrderInv, TypeOK, Answers, ClosingOver, Throw
  <2> QED
    BY <2>1, <2>2, <2>3, <2>4
<1> QED
  BY <1>1, <1>2, <1>3, <1>4

\* closeWorkers and closeQueues.
LEMMA CloseKeeps ==
  ASSUME WorkerInv,
         \/ StopResync
         \/ CloseWorkers
         \/ (\E q \in Queues : WorkerCloses(q))
         \/ WorkersSettled
         \/ (\E q \in Queues : Drain(q))
         \/ CloseWorkersEnds
         \/ CloseFactory
         \/ FactoryCloses
  PROVE  WorkerInv'
<1> USE WorkerAssumption DEF WorkerInv, stopVars, startVars, closeVars, jobVars
<1>1. CASE StopResync
  <2>1. TypeOK' /\ PlanInv'
    BY <1>1 DEF StopResync, TypeOK, PlanInv, Answers, Throw
  <2>2. OrderInv'
    BY <1>1 DEF StopResync, CloseWorkersCalled, OrderInv, TypeOK, ClosingOver, FactoryOver
  <2>3. UseInv'
    BY <1>1 DEF StopResync, UseInv, TypeOK, ClosingOver, SomeWorkerRefused, Throw
  <2>4. VerdictInv'
    BY <1>1 DEF StopResync, VerdictInv, OrderInv, TypeOK, Answers, ClosingOver, Throw
  <2> QED
    BY <2>1, <2>2, <2>3, <2>4
<1>2. CASE CloseWorkers
  <2>1. TypeOK' /\ PlanInv'
    BY <1>2 DEF CloseWorkers, TypeOK, PlanInv, Answers, Throw
  <2>2. OrderInv'
    BY <1>2 DEF CloseWorkers, OrderInv, TypeOK, ClosingOver, FactoryOver, Throw
  <2>3. UseInv'
    BY <1>2 DEF CloseWorkers, UseInv, TypeOK, ClosingOver, SomeWorkerRefused, Throw
  <2>4. VerdictInv'
    BY <1>2 DEF CloseWorkers, VerdictInv, OrderInv, TypeOK, Answers, ClosingOver, Throw
  <2> QED
    BY <2>1, <2>2, <2>3, <2>4
<1>3. ASSUME NEW q \in Queues, WorkerCloses(q) PROVE WorkerInv'
  <2>1. TypeOK' /\ PlanInv'
    BY <1>3, ZenonT(60) DEF WorkerCloses, TypeOK, PlanInv, Answers, Throw
  <2>2. OrderInv'
    BY <1>3 DEF WorkerCloses, OrderInv, TypeOK, ClosingOver, FactoryOver, Throw
  <2>3. UseInv'
    <3>1. /\ closing = "workers" \/ closing = "tick" \/ closing = "no"
          /\ UNCHANGED <<boot, closing, drained, job, copy>>
          /\ worker[q] = "closing" /\ worker'[q] \in {"closed", "refused"}
          /\ worker'[q] = "closed" => \A j \in Jobs : QueueOf[j] = q => job[j] # "active"
          /\ \A p \in Queues \ {q} : worker'[p] = worker[p]
      BY <1>3 DEF WorkerCloses, UseInv, TypeOK, Active
    <3>2. drained = {} /\ ~ClosingOver
      BY <3>1 DEF UseInv, ClosingOver
    <3>3. SomeWorkerRefused => SomeWorkerRefused'
      BY <3>1 DEF SomeWorkerRefused
    <3>4. \A j \in Jobs :
            /\ job'[j] = "active" => worker'[QueueOf[j]] \in {"open", "closing", "refused"}
            /\ copy'[j] = "cut off" => SomeWorkerRefused'
      BY <3>1, <3>3 DEF UseInv
    <3> QED
      BY <3>1, <3>2, <3>4 DEF UseInv, ClosingOver
  <2>4. VerdictInv'
    BY <1>3 DEF WorkerCloses, VerdictInv, OrderInv, TypeOK, Answers, ClosingOver, Throw
  <2> QED
    BY <2>1, <2>2, <2>3, <2>4
<1>4. CASE WorkersSettled
  <2>1. TypeOK' /\ PlanInv'
    BY <1>4 DEF WorkersSettled, TypeOK, PlanInv, Answers, Throw
  <2>2. OrderInv'
    BY <1>4 DEF WorkersSettled, OrderInv, TypeOK, ClosingOver, FactoryOver, Throw
  <2>3. UseInv'
    BY <1>4 DEF WorkersSettled, UseInv, TypeOK, ClosingOver, SomeWorkerRefused, Throw
  <2>4. VerdictInv'
    BY <1>4 DEF WorkersSettled, VerdictInv, OrderInv, TypeOK, Answers, ClosingOver, Throw
  <2> QED
    BY <2>1, <2>2, <2>3, <2>4
<1>5. ASSUME NEW q \in Queues, Drain(q) PROVE WorkerInv'
  <2>1. TypeOK' /\ PlanInv'
    BY <1>5 DEF Drain, TypeOK, PlanInv, Answers, Throw
  <2>2. OrderInv'
    BY <1>5 DEF Drain, OrderInv, TypeOK, ClosingOver, FactoryOver, Throw
  <2>3. UseInv'
    BY <1>5 DEF Drain, UseInv, TypeOK, ClosingOver, SomeWorkerRefused, InFlight
  <2>4. VerdictInv'
    BY <1>5 DEF Drain, VerdictInv, OrderInv, TypeOK, Answers, ClosingOver, Throw
  <2> QED
    BY <2>1, <2>2, <2>3, <2>4
<1>6. CASE CloseWorkersEnds
  <2>1. TypeOK' /\ PlanInv'
    BY <1>6 DEF CloseWorkersEnds, TypeOK, PlanInv, Answers, Throw
  <2>2. OrderInv'
    BY <1>6 DEF CloseWorkersEnds, OrderInv, TypeOK, ClosingOver, FactoryOver, Throw
  <2>3. UseInv'
    BY <1>6 DEF CloseWorkersEnds, UseInv, TypeOK, ClosingOver, SomeWorkerRefused, Throw
  <2>4. VerdictInv'
    BY <1>6 DEF CloseWorkersEnds, VerdictInv, OrderInv, TypeOK, Answers, ClosingOver, Throw
  <2> QED
    BY <2>1, <2>2, <2>3, <2>4
<1>7. CASE CloseFactory
  <2>1. TypeOK' /\ PlanInv'
    BY <1>7 DEF CloseFactory, TypeOK, PlanInv, Answers, Throw
  <2>2. OrderInv'
    <3>1. stage["queues"] = "closing" => stage["workers"] \in Answers
      BY StagesInOrder
    <3>2. ClosingOver
      BY <1>7, <3>1 DEF CloseFactory, CloseQueuesCalled, OrderInv, ClosingOver
    <3> QED
      BY <1>7, <3>2 DEF CloseFactory, OrderInv, TypeOK, ClosingOver, FactoryOver
  <2>3. UseInv'
    BY <1>7 DEF CloseFactory, UseInv, TypeOK, ClosingOver, SomeWorkerRefused, Throw
  <2>4. VerdictInv'
    BY <1>7 DEF CloseFactory, VerdictInv, OrderInv, TypeOK, Answers, ClosingOver, Throw
  <2> QED
    BY <2>1, <2>2, <2>3, <2>4
<1>8. CASE FactoryCloses
  <2>1. TypeOK' /\ PlanInv'
    BY <1>8 DEF FactoryCloses, TypeOK, PlanInv, Answers, Throw
  <2>2. OrderInv'
    BY <1>8 DEF FactoryCloses, OrderInv, TypeOK, ClosingOver, FactoryOver, Throw
  <2>3. UseInv'
    BY <1>8 DEF FactoryCloses, UseInv, TypeOK, ClosingOver, SomeWorkerRefused, Throw
  <2>4. VerdictInv'
    BY <1>8 DEF FactoryCloses, VerdictInv, OrderInv, TypeOK, Answers, ClosingOver, Throw
  <2> QED
    BY <2>1, <2>2, <2>3, <2>4
<1> QED
  BY <1>1, <1>2, <1>3, <1>4, <1>5, <1>6, <1>7, <1>8

-----------------------------------------------------------------------------
(* The steps of the stop *)

\* A step of the stop leaves the runtime alone.
LEMMA UntouchedKeeps ==
  ASSUME WorkerInv, Untouched, UNCHANGED boot
  PROVE  UseInv'
  BY DEF WorkerInv, Untouched, closeVars, jobVars, UseInv, ClosingOver, SomeWorkerRefused

LEMMA SigtermKeeps ==
  ASSUME WorkerInv, Sigterm PROVE WorkerInv'
<1>1. UNCHANGED <<stage, step, code, exitCode, failed, boot>> /\ Untouched
  BY CallKnows DEF Sigterm, WorkerInv, TypeOK
<1>2. TypeOK' /\ PlanInv'
  BY <1>1 DEF WorkerInv, TypeOK, PlanInv, Untouched, closeVars, jobVars
<1>3. OrderInv' /\ VerdictInv'
  BY <1>1 DEF WorkerInv, OrderInv, VerdictInv, ClosingOver, FactoryOver, Untouched, closeVars
<1> QED
  BY <1>1, <1>2, <1>3, UntouchedKeeps DEF WorkerInv

LEMMA StartFailsKeeps ==
  ASSUME WorkerInv, StartFails PROVE WorkerInv'
<1>1. /\ boot = "unwinding" /\ FactoryOver /\ boot' = "failed" /\ Untouched
      /\ UNCHANGED <<stage, step, code, exitCode>> /\ failed' = TRUE
  BY CallKnows DEF StartFails, WorkerInv, TypeOK
<1>2. TypeOK' /\ PlanInv'
  BY <1>1 DEF WorkerInv, TypeOK, PlanInv, Untouched, closeVars, jobVars
<1>3. OrderInv'
  BY <1>1 DEF WorkerInv, OrderInv, ClosingOver, FactoryOver, Untouched, closeVars
<1>4. VerdictInv'
  BY <1>1 DEF WorkerInv, VerdictInv
<1>5. UseInv'
  BY <1>1 DEF WorkerInv, UseInv, ClosingOver, SomeWorkerRefused, Untouched, closeVars, jobVars
<1> QED
  BY <1>2, <1>3, <1>4, <1>5 DEF WorkerInv

LEMMA StageBeginsKeeps ==
  ASSUME WorkerInv, StageBegins PROVE WorkerInv'
<1>1. PICK s \in StageNames : Stop!CloseBegins(<<s>>, 1)
  BY DEF StageBegins, StageNames
<1>2. /\ step = Place(s) /\ stage[s] = "waiting" /\ stage' = [stage EXCEPT ![s] = "closing"]
      /\ UNCHANGED <<step, failed, code, exitCode, boot>> /\ Untouched
  BY <1>1, CloseBeginsAt DEF StageBegins, WorkerInv
<1>3. /\ stage' \in [StageNames -> {"waiting", "closing"} \cup Answers]
      /\ stage'[s] = "closing" /\ \A t \in StageNames \ {s} : stage'[t] = stage[t]
      /\ "closing" \notin Answers
  BY <1>2 DEF WorkerInv, TypeOK, Answers
<1>4. TypeOK'
  BY <1>2, <1>3 DEF WorkerInv, TypeOK, Untouched, closeVars, jobVars
<1>5. PlanInv'
  <2>1. step \in 1 .. 5 /\ PlanInv
    BY DEF WorkerInv, TypeOK
  <2>2. step \in Int
    BY <2>1
  <2>3. Place(s) \in Int
    BY <1>2, <2>2
  <2>4. ASSUME NEW t \in StageNames
        PROVE  /\ stage'[t] # "waiting" => Place(t) <= step'
               /\ Place(t) < step' => stage'[t] \in Answers
    <3>1. CASE t = s
      BY <1>2, <1>3, <2>2, <3>1
    <3>2. CASE t # s
      BY <1>2, <1>3, <2>1, <3>2 DEF PlanInv
    <3> QED
      BY <3>1, <3>2
  <2> QED
    BY <2>4 DEF PlanInv
<1>6. OrderInv' /\ VerdictInv'
  <2>1. \A t \in StageNames : stage'[t] \in Answers => stage'[t] = stage[t]
    BY <1>3
  <2>2. "workers" \in StageNames /\ "queues" \in StageNames /\ "failed" \in Answers
    BY DEF StageNames, Answers
  <2> QED
    BY <1>2, <2>1, <2>2
       DEF WorkerInv, OrderInv, VerdictInv, ClosingOver, FactoryOver, Untouched, closeVars
<1> QED
  BY <1>2, <1>4, <1>5, <1>6, UntouchedKeeps DEF WorkerInv

\* The end of a close, when what it answers says how far the runtime is.
LEMMA StageEnded ==
  ASSUME WorkerInv, NEW s \in StageNames, Stop!CloseEnds(s), Untouched, UNCHANGED boot,
         s = "workers" => boot = "failed" \/ (boot = "up" /\ ClosingOver),
         s = "queues" => boot = "failed" \/ (boot = "up" /\ FactoryOver),
         s = "workers" /\ boot = "up" /\ closing = "refused" => stage'[s] = "failed"
  PROVE  WorkerInv'
<1>1. /\ stage[s] = "closing" /\ stage'[s] \in Answers
      /\ \A t \in StageNames \ {s} : stage'[t] = stage[t]
      /\ stage' \in [StageNames -> {"waiting", "closing"} \cup Answers]
      /\ \/ step' = step
         \/ /\ step \in 1 .. 4 /\ step' = step + 1
            /\ \A t \in StageNames : Place(t) = step => stage'[t] \in Answers
      /\ failed' = (failed \/ stage'[s] = "failed")
      /\ UNCHANGED <<code, exitCode>>
  BY CloseEndsAt DEF WorkerInv
<1>2. step' \in 1 .. 5 /\ failed' \in BOOLEAN /\ step \in 1 .. 5
  <2>1. step \in 1 .. 5
    BY DEF WorkerInv, TypeOK
  <2> QED
    BY <1>1, <2>1
<1>3. TypeOK'
  BY <1>1, <1>2 DEF WorkerInv, TypeOK, Untouched, closeVars, jobVars
<1>4. PlanInv'
  <2>1. \A t \in StageNames : Place(t) \in Int
    BY PlacesAre DEF StageNames
  <2>2. ASSUME NEW t \in StageNames PROVE stage'[t] # "waiting" => Place(t) <= step'
    BY <1>1, <1>2, <2>1 DEF WorkerInv, PlanInv
  <2>3. ASSUME NEW t \in StageNames PROVE Place(t) < step' => stage'[t] \in Answers
    BY <1>1, <1>2, <2>1 DEF WorkerInv, PlanInv
  <2> QED
    BY <2>2, <2>3 DEF PlanInv
<1>5. OrderInv'
  <2>1. "workers" \in StageNames /\ "queues" \in StageNames
    BY DEF StageNames
  <2> QED
    BY <1>1, <2>1 DEF WorkerInv, OrderInv, ClosingOver, FactoryOver, Untouched, closeVars
<1>6. VerdictInv'
  <2>1. "workers" \in StageNames /\ "failed" \in Answers
    BY DEF StageNames, Answers
  <2> QED
    BY <1>1, <2>1 DEF WorkerInv, VerdictInv, Untouched, closeVars
<1> QED
  BY <1>3, <1>4, <1>5, <1>6, UntouchedKeeps DEF WorkerInv

LEMMA StopEndsKeeps ==
  ASSUME WorkerInv, StopEnds PROVE WorkerInv'
<1>1. /\ Untouched /\ UNCHANGED <<stage, step, failed, boot>>
      /\ code' = 0 /\ code # 0 => ~failed /\ step = 5
      /\ exitCode' = 0 => (exitCode = 0 /\ code' = code) \/ code' = 0
      /\ exitCode = 0 => code' = code
  BY StopVerdict DEF StopEnds, WorkerInv
<1>2. TypeOK' /\ PlanInv'
  BY <1>1 DEF WorkerInv, TypeOK, PlanInv, Untouched, closeVars, jobVars
<1>3. OrderInv'
  BY <1>1 DEF WorkerInv, OrderInv, ClosingOver, FactoryOver, Untouched, closeVars
<1>4. VerdictInv'
  <2>1. step = 5 => stage["workers"] \in Answers
    BY StagesInOrder DEF WorkerInv, StageNames
  <2>2. step = 5 /\ ~failed => boot = "up" /\ closing = "closed"
    BY <2>1 DEF WorkerInv, OrderInv, VerdictInv, ClosingOver
  <2> QED
    BY <1>1, <2>2 DEF WorkerInv, VerdictInv, Untouched, closeVars
<1> QED
  BY <1>1, <1>2, <1>3, <1>4, UntouchedKeeps DEF WorkerInv

-----------------------------------------------------------------------------

LEMMA WorkerInvInit == Init => WorkerInv
<1> SUFFICES ASSUME Init PROVE WorkerInv
  OBVIOUS
<1>1. /\ stage = [s \in StageNames |-> "waiting"] /\ step = 1 /\ failed = FALSE
      /\ code = -1 /\ exitCode = -1
  BY DEF Init, Stop!Init, Stop!NoCode, StageNames
<1>2. TypeOK
  <2>1. /\ stage \in [StageNames -> {"waiting", "closing"} \cup Answers]
        /\ step \in 1 .. 5
        /\ failed \in BOOLEAN
    <3>1. stage \in [StageNames -> {"waiting", "closing"} \cup Answers]
      BY <1>1
    <3>2. step \in 1 .. 5
      BY <1>1
    <3> QED
      BY <1>1, <3>1, <3>2
  <2>2. attemptsMade \in [Jobs -> Nat] /\ drained \subseteq Queues
    BY DEF Init
  <2>3. /\ worker \in [Queues -> {"none", "open", "closing", "closed", "refused"}]
        /\ job \in [Jobs -> {"waiting", "active", "completed", "failed"}]
        /\ copy \in [Jobs -> {"none", "in flight", "written", "refused", "cut off",
                              "no record"}]
    BY DEF Init
  <2> QED
    BY <2>1, <2>2, <2>3 DEF Init, TypeOK
<1>3. PlanInv
  BY <1>1, PlacesAre DEF PlanInv, StageNames
<1>4. OrderInv /\ UseInv /\ VerdictInv
  BY <1>1 DEF Init, OrderInv, UseInv, VerdictInv, ClosingOver, StageNames, Answers
<1> QED
  BY <1>2, <1>3, <1>4 DEF WorkerInv

LEMMA WorkerInvStep == WorkerInv /\ [Next]_vars => WorkerInv'
<1> SUFFICES ASSUME WorkerInv, [Next]_vars PROVE WorkerInv'
  OBVIOUS
<1>1. CASE UNCHANGED vars
  <2>1. UNCHANGED <<stage, step, failed, code, exitCode, boot>> /\ Untouched
    BY <1>1 DEF vars, stopVars, startVars, closeVars, jobVars, Untouched
  <2>2. TypeOK' /\ PlanInv'
    BY <2>1 DEF WorkerInv, TypeOK, PlanInv, Untouched, closeVars, jobVars
  <2>3. OrderInv' /\ VerdictInv'
    BY <2>1 DEF WorkerInv, OrderInv, VerdictInv, ClosingOver, FactoryOver, Untouched, closeVars
  <2> QED
    BY <2>1, <2>2, <2>3, UntouchedKeeps DEF WorkerInv
<1>2. CASE RuntimeStageEnds
  <2>1. PICK s \in {"workers", "queues"} :
          StageReady(s) /\ Stop!CloseEnds(s) /\ stage'[s] = StageAnswer(s)
    BY <1>2 DEF RuntimeStageEnds
  <2> QED
    BY <1>2, <2>1, StageEnded
       DEF RuntimeStageEnds, StageReady, StageAnswer, StageNames, ClosingOver
<1>3. CASE ConnectionEnds
  <2>1. PICK s \in {"redis", "db"} : Stop!CloseEnds(s)
    BY <1>3 DEF ConnectionEnds
  <2> QED
    BY <1>3, <2>1, StageEnded DEF ConnectionEnds, StageNames
<1> QED
  BY <1>1, <1>2, <1>3, StartKeeps, JobsKeep, CloseKeeps, SigtermKeeps, StartFailsKeeps,
     StageBeginsKeeps, StopEndsKeeps DEF Next

LEMMA WorkerInvariance == Spec => []WorkerInv
  BY WorkerInvInit, WorkerInvStep, PTL DEF Spec

(***************************************************************************)
(* The queue factory outlives those who open queues from it, and Redis the *)
(* jobs and their copies (apps/worker/src/runtime.ts, closeWorkers and     *)
(* closeQueues): only a Worker that refused to close lets one of them meet *)
(* a queue or a connection that is going.                                  *)
(***************************************************************************)
THEOREM QueuesAlwaysOutliveTheirUsers == Spec => []QueuesOutliveTheirUsers
<1>1. WorkerInv => QueuesOutliveTheirUsers
  <2> SUFFICES ASSUME WorkerInv PROVE QueuesOutliveTheirUsers
    OBVIOUS
  <2>1. factory # "open" => ~tick /\ ~resync
    BY DEF WorkerInv, OrderInv, ClosingOver
  <2>2. (\E j \in Jobs : copy[j] = "cut off") => SomeWorkerRefused
    BY DEF WorkerInv, UseInv
  <2>3. (stage["redis"] # "waiting" /\ \E j \in Jobs : job[j] = "active") => SomeWorkerRefused
    BY LateIsRefused
  <2> QED
    BY <2>1, <2>2, <2>3 DEF QueuesOutliveTheirUsers
<1> QED
  BY <1>1, WorkerInvariance, PTL

(***************************************************************************)
(* A worker that leaves with 0 had started, leaves no job running and no   *)
(* copy to system.dlq unanswered, wherever a signal and a failing start    *)
(* met (apps/worker/src/bootstrap.ts).                                     *)
(***************************************************************************)
THEOREM CleanExitAlwaysLosesNothing == Spec => []CleanExitLosesNothing
<1>1. WorkerInv => CleanExitLosesNothing
  <2> SUFFICES ASSUME WorkerInv, exitCode = 0
               PROVE  /\ boot # "failed"
                      /\ \A j \in Jobs : job[j] # "active"
                                       /\ copy[j] \notin {"in flight", "cut off"}
    BY DEF CleanExitLosesNothing
  <2>1. boot = "up" /\ closing = "closed"
    BY DEF WorkerInv, VerdictInv
  <2>2. drained = Queues /\ ~SomeWorkerRefused /\ \A q \in Queues : worker[q] \notin {"open", "closing"}
    BY <2>1 DEF WorkerInv, UseInv, ClosingOver
  <2>3. \A j \in Jobs : QueueOf[j] \in Queues /\ worker[QueueOf[j]] # "refused"
    BY <2>2, WorkerAssumption DEF SomeWorkerRefused
  <2> QED
    BY <2>1, <2>2, <2>3 DEF WorkerInv, UseInv
<1> QED
  BY <1>1, WorkerInvariance, PTL
=============================================================================
