# Verification of shorts-factory

TLA+ models of shorts-factory's processes, of what they share, and of the stack they run in; the TLC runs that check
them on small instances; and theorems about them that TLAPS proves for every value of the constants. Paths below are relative to `src/`.

Contents: [inventory](#inventory) · [modules](#modules) · [runs](#runs) · [bounds](#bounds) · [fairness](#fairness) ·
[proofs](#proofs) · [findings](#findings) · [mutants](#mutants) · [not modelled](#what-is-not-modelled) · [plan](#plan)

## Inventory

shorts-factory is a TypeScript monorepo: an API (Fastify), a worker (BullMQ), a web console (Next.js), Postgres and
Redis, brought up by Docker Compose. The pipeline that will make the shorts is not written yet; what is written is the
machinery it will run on, and nearly all of that machinery is about *failure*: processes that have to stop in order,
clients that never give up by themselves, totals that are stale, locks that belong to sessions, requests that fail twice
on their way out, a stack that has to come up whole.

| Part | State it keeps | Operations | Why it is hard |
|---|---|---|---|
| **Stop of a process** `packages/runtime/src/shutdown.ts`, `deadline.ts` | started, failed, the repeat window, the plan's position, the one verdict | the handler called by signals and by the process, the plan's closes, the deadline, the flush, the exit | three racing ends and one exit; one Ctrl+C delivered several times; a plan that runs on past its deadline |
| **Worker process** `apps/worker/src/bootstrap.ts`, `runtime.ts`, `lib/dlq.ts` | Workers, the switch resync, dlq copies on their way, the heartbeat stamp | the start and its unwinding, jobs and their failures, closeWorkers, closeQueues, four stop stages | SIGTERM during the start; a job that spends its last attempt during the stop; a tick in flight |
| **Queue factory** `packages/runtime/src/queues.ts` | the cached Queue of each name, the forgotten ones, reads in flight, verdicts on `init()`, the mark on the client's errors | get, use, close, init ready/refused, the error listeners, the scheduler getter | `init()` settles at any later time, its error comes ahead of its verdict, closes hang |
| **Budget** `packages/db/src/budget.ts`, `usage-logger.ts`, `packages/core/src/domain/budget.ts`, `apps/worker/src/lib/budget.ts`, `define-job.ts` | the spend journal, the cached total in Redis, commands given to Redis and not executed | assert before a paid call, the cache's get/set with a deadline, the sum, the row after the call | a deadline gives a command up without withdrawing it; caps change under a cached total; calls under way overrun the cap |
| **Migrations** `packages/db/src/migration-lock.ts`, `migrate.ts`, `cli/run.ts`, `cleanup.ts` | the advisory lock, session settings, the journal of migrations | wait for the lock, its cleanup, count/apply/recount, the release, the seed, the close | the lock belongs to a session the driver replaces by itself; a cancel that lands as the lock is granted; two deployments |
| **Bounded handle (probe)** `packages/db/src/probe.ts` | the current client and those being ended, calls with their limits | run, a limit that fires, close | a half-open connection answers nothing and fails nothing; limits racing the server's own bound and `close()` |
| **Health probes** `apps/api/src/lib/health.ts`, `single-flight.ts`, `probe-dbs.ts`, `budget.ts` | the call in flight, each poll's deadline | poll | polls share a call that a silent connection may hold |
| **Smoke command** `apps/worker/src/cli/smoke-run.ts`, `smoke.ts` | the run's verdict, its deadline, what the command knows | the run, the job's events and polls, signals, the stop | the job completing while the deadline still asks for its reason; signals between verdict and return |
| **Queue switches, schedules, seed** `apps/worker/src/lib/queue-switches.ts`, `schedules.ts`, `packages/db/src/seed.ts` | the setting, each queue's paused state, the schedulers in Redis | resync tick, pause/resume, upsert/list/remove, merge and pruning of the defaults | states read together and acted on one by one; a second worker, an older release or an operator in between |
| **Heartbeat** `apps/worker/src/jobs/system-heartbeat.ts`, `packages/core/src/domain/heartbeat.ts`, `apps/worker/src/cli/healthcheck-run.ts`, `apps/api/src/lib/heartbeat.ts` | the stamp and its expiry | clear, stamp, read, verdict under a deadline | clocks of two hosts, a stamp of a previous process |
| **API process** `apps/api/src/compose-app.ts`, `server.ts`, `plugins/closing.ts` | what was opened, whether it listens | compose, listen, SIGTERM, the drain, the closes | a compose that throws half-way; requests in flight during the stop |
| **Requests of the API** `apps/api/src/plugins`, `routes`, `lib/request-log.ts`, `lib/error-mapping.ts`, `lib/socket-errors.ts` | one mark and a few lines per request | Fastify's hooks on the way in and out | several failures of one request, in several orders; an answer the route does not declare |
| **Status page** `apps/api/src/lib/system-status.ts`, `queue-stats.ts`, `packages/runtime/src/connection-failure.ts` | the shared reads | concurrent reads under deadlines, blame of a dependency | which of several failures a dependency is blamed for, and whose fault a failure is |
| **API client** `packages/api-client/src/client.ts` | none | one request, its answer or its failure | statuses that are answers of one route and failures of another |
| **Compose gate** `scripts/compose-rules.mjs`, `check-compose.mjs`, `lib/compose-graph.mjs`; the stack `compose.yaml`, `infra/*.yml`, `.dockerignore` | a working tree; four renders of it; the graph of its files | the rules, the walk, the verdict; then `up`, a reboot, `stop` | what is checked has to be what is brought up; healthchecks that pass too early; a last line that undoes a mask |
| **Schema drift gate** `scripts/check-schema-drift.mjs` | its copy of the migrations folder, next to the copies of other runs | version, sweep, copy, generate, compare, remove, check | a run killed from outside leaves its copy; a sweep next to a run that goes on; drizzle-kit's exit code 0 where it gave up |
| **Image probe** `scripts/probe-image.mjs`, `lib/manifest.mjs` | the container of a run | the walk over the manifests, the run, its removal at the limit, the code | a list of checks taken from what may itself be wrong; a probe that cannot turn red |
| Error rules of the worker `packages/runtime/src/client-errors.ts`, `redis.ts` | whether the outage has had its line | one error line per outage | `ready` racing errors of the old connection |
| Web console `apps/web/src/lib/auto-refresh.ts`, `app/system/use-auto-refresh.ts` | timer, a copy of the transition's state | tick, visibility event, button | the copy is written after the render |
| Task tracker `scripts/tasks.mjs` | tasks.json, worklog, status page | start, done, block, unblock, add, set | three files written in turn, by processes without a lock |
| Other repository checks, config, contracts, logger, schema | none, or one pass | | tables and text; unit tests enumerate them |

How they interact: every process puts its connections under one **stop** handler (`bootstrap.ts`, `compose-app.ts`,
`smoke.ts`); the **worker** opens all its queues through one **factory** and closes it as the second stage of the stop;
jobs call the **budget** guard, whose cache is the worker's Redis connection and whose sum is a query on its database;
the workers of a **fleet** share the setting of the switches in Postgres and the paused queues, the schedulers and the
heartbeat in Redis; the API's polls of `/health` go through a **single flight** to a **bounded handle**, and the sections
of its **status page** through shared reads of both databases; its **requests** end in the error handler, the log and the
typed **client**; the migrations and the smoke check are commands of their own, with the same stop or the same cleanup at
their end; and all of it is brought up by Compose from files the **gate** has judged, with migrations and images that the
**drift gate** and the **image probe** of CI have.

What would make each of them wrong, at the line where it bites, is the list `hazards` of `PROJECT.json`.

## Modules

| Module | Models | Composes |
|---|---|---|
| `StopContract` | what may be relied on when a process is stopped, whatever its plan: one verdict, the first, justified by what was known; the process leaves with it | - |
| `Shutdown` | `createShutdownHandler`, the plan, the repeat window, the deadline race, the flush | implements `StopContract` by the refinement mapping at its end |
| `ShutdownProofs` | theorems on `Shutdown` | |
| `WorkerProcess` | `bootstrap`, `startWorkerRuntime`, `closeWorkers`, `closeQueues`, the dlq writer | `Shutdown` (INSTANCE, the worker's own plan) |
| `WorkerProcessProofs` | theorems on `WorkerProcess` | |
| `QueueFactory` | `createQueueFactory` and `FactoryQueue` | - |
| `BudgetGuard` | guard, cache, journal, what a refusal does to a job | - |
| `BudgetGuardProofs` | theorems on `BudgetGuard` | |
| `MigrationLock` | `withMigrationLock`, `migrateDb`, the entry points with their close | - |
| `ProbeDb` | `createProbeDb` | - |
| `HealthProbe` | the database half of `createHealthProbes`, `singleFlight`, `withDeadline` | `ProbeDb` (EXTENDS) |
| `DatabaseProofs` | theorems on `MigrationLock`, and on `ProbeDb` under `HealthProbe` | |
| `SmokeRun` | `runSmoke`, `runSmokeCommand` | `StopContract` (EXTENDS): the command above the *abstract* stop |
| `QueueProofs` | theorems on `QueueFactory` and `SmokeRun` | |
| `WorkerFleet` | what workers share: passes over the switches, seed and its pruning, schedules, heartbeat and healthcheck, the operator | - |
| `WorkerFleetProofs` | theorems on `WorkerFleet` | |
| `ErrorAnswers` | the mapping of a failure to an answer and to a line, the texts that may leave, what the typed client makes of an answer | pure operators |
| `DependencyFailures` | `connectionFailure` and the reasons of the status page | pure operators |
| `ApiRequests` | a request from the router to its last line: hooks, routes, shared reads, error handler, log | `ErrorAnswers`, `DependencyFailures` (EXTENDS) |
| `ApiProcess` | `composeApp`, `listen`, signals, the drain, the closes | `ApiRequests` (EXTENDS), `Shutdown` (INSTANCE, the API's own plan) |
| `ApiProcessProofs` | theorems on `ApiProcess` and `ApiRequests` | |
| `ComposeRules` | the eighteen rules, the rule of `.dockerignore`, the variables and their control values | pure operators |
| `ComposeGate` | the gate: the entry, the shell, the calls of docker, the walk of the files' graph, the verdict | `ComposeRules` (EXTENDS) |
| `SchemaDrift` | a run of the drift gate with another next to it: copies, the two runs of drizzle-kit and how they are read | - |
| `ImageProbe` | the checks of each image, the walk they come from, the run in the container, the code | - |
| `ComposeStack` | CI over a tree, and the stack a green one brings up: start order, healthchecks, a reboot, a stop | `ComposeGate`, `SchemaDrift`, `ImageProbe` (EXTENDS) |
| `ComposeProofs` | theorems on `ComposeStack` and the three gates in it | |

`MC*` modules only give constants their values (`MCComposeStack` the working trees: this repository's stack and its edits). Every module's head says which code it translates; `PROJECT.json`'s `map`
gives the lines of each definition.

How state and actions correspond. The processes are single-threaded event loops, so **an action is one callback that runs
to its next await**, and actions of different promises interleave freely. Timers are actions whose guard says when they may
fire; only `ProbeDb` counts time, since there the order of three bounds is the subject, and `WorkerFleet` minutes, since
the stamp has an age. What another system does (Redis,
Postgres, BullMQ, the operator) is nondeterministic over what it may do: refuse, answer, answer late, or fall silent. In
detail:

- **Shutdown.** `Call` is one call of the handler; its disjuncts are the branches of the function, in the order the code
  takes them. `CloseBegins`/`CloseEnds` are `runPlan` reaching a stage and its `close` settling; `ExitOnce` is `exitOnce`;
  `Exit` the end of the flush. A window's timer is named by the keypress that opened it, so that the timer of a replaced
  window can be told from the one that replaced it. `answered` and `forcedBy` are history variables. A copy of a keypress
  arrives within milliseconds and the window lasts one second (`SIGINT_REPEAT_WINDOW_MS`), hence the guard of
  `WindowPasses`; this is the one assumption on timing.
- **WorkerProcess.** `boot` is where `startEverything` stands; a throw at any step goes to `unwinding`, which runs the same
  `closeWorkers` and `closeQueues` as the stop's stages. `StageReady` is `stageOf`: the runtime's stages wait for the start
  to settle and answer "not opened" if it failed. A copy to `system.dlq` is *cut off* if the factory or the connection goes
  while it travels. The factory is seen from the outside here; `QueueFactory` is its inside.
- **QueueFactory.** Each Queue object is a record: the verdict on its `init()`, whether it is open, its scheduler, the errors
  whose line still waits for the verdict, the lines written. `InitRefused` is the whole callback: the timer of the error
  BullMQ emits first, the line, the forgetting, the close it starts. `closing` follows `closeOnce` through its two bounded
  waits.
- **BudgetGuard.** One scope and the jobs that spend on it. `wire` is the commands given to the one Redis connection and not
  executed: a command whose deadline passes stays there. `Count` and `CountArrives` separate the moment the statement reads
  the journal from the moment its answer arrives. Money is counted in parts of the column's unit, which is what the
  rounding of `toCostUsdColumn` is about. Totals carry the period they were counted in for the properties only. With and
  without a cache is a choice of the initial state, since the API's guard and the worker's differ in it.
- **MigrationLock.** Each phase is one statement about to be answered; it succeeds, is rejected on a live session, or is lost
  with the session, which the driver then replaces. `idleLoss`, chosen in the initial state, is whether sessions may also be
  replaced *between* two statements, the one that sets `lock_timeout` and the lock itself among them. With a session that already held the lock, a cancel landing as the lock is granted
  leaves it held once more than before (the cleanup skips the unlock on purpose); `SessionPutBack` speaks of held or not held.
- **ProbeDb / HealthProbe.** Ticks; a due timer fires before the next tick. A connection is fresh, up, or half-open
  (`silent`). `HealthProbe` adds polls with a deadline shorter than the handle's limit.
- **WorkerFleet.** One command to Redis or Postgres is one step, so two workers' passes interleave at every command.
  `pass` is a pass as far as it is: the setting it read, the states it read, the queue it is at; a throw ends a start and
  is only a line of a tick. `schedulers` is a sequence, the order of next runs in which BullMQ keeps and pages them:
  `ListPage` reads a range of positions, while another worker may write, and a worker that is up takes jobs (`Takes`), which
  gives a scheduler its next run and so a later place. `off` and `beat` remember what the operator turned off and when a
  heartbeat last ran; `alone` that no other worker wrote into a start's sync, or moved an entry between two pages of its list.
  What Redis holds at first is what an earlier code left, with a stamp just written. A behaviour is about the switches or about the start (`about`), chosen in the initial state: a
  behaviour with both multiplies without meeting anything new. Hence no tick runs during a start, no schedules
  exist where switches are looked at, those are looked at under the newest release, and a start under a setting that is there.
- **ErrorAnswers / DependencyFailures.** A text is the *kind* of text it is (an identifier, a sentence, blank, overlong, no
  text at all): the code's rules look at its shape only. An error is its class, status, code, message and details.
- **ApiRequests / ApiProcess.** From a body or an error to the socket the code runs in one turn, so `HandleError`, `LogError`
  and `SendError` are operators on the record of a request and one action composes them. What Fastify and Node do with the
  response (finish it, break it, report a socket) is an action of its own. `section` is a request's view of each read it waits
  for; `flight` the reads that are on their way and shared. `cause` says, for the properties only, whose fault a failure is.
  The route `other` stands for the routes of the log's own tests: it throws anything, streams, or sets a head Node refuses.
- **ComposeRules / ComposeGate / ComposeStack.** A rule is the set of what violates it, over services as Compose renders
  them. A command is a program, its options, and whether anything stands around it; a path a directory and a name;
  `API_INTERNAL_URL` its port; a `.dockerignore` that is not there an empty one. `ReadFile` is one turn of the walk's loop
  (which file of the queue comes first shows nowhere, so the queue is a set);
  an answer of docker may fail or come in another shape at each of the four calls. What `docker compose up` takes
  without `-f` (`StartsFrom`, `TakenFrom`), the order of the start, healthchecks, restarts and grace periods are Compose's
  and Docker's behaviour: they are external, modelled as the reasons in the rules' own comments say. The tree stands still
  from the first render to `up`. The jobs of CI share nothing, so `ComposeStack` asks one gate after another.
- **SchemaDrift.** `drift` is where `main` stands; what it will return is `outcome` until the copy is removed. Of a second run
  on the same checkout only its effect on the copies is followed, and only until the first is over. The sweep lists the
  copies, reads the clock once and looks at them one by one; it is one step here that takes any of the stale ones, since what
  happens meanwhile only makes a copy older than it is judged, or go, which is no failure. What drizzle-kit prints for a folder is as its recorded outputs say; any run of it may be cut
  before or after its last line, or not start.
- **ImageProbe.** An image is what a check can find in it: packages that load from a directory, entry files, links, tests.
  `WalkBegins` and `WalkReads` are the loop of `workspaceChecks`, one directory a step; `Starts` says independently what a
  service needs: that of every directory in the least set that holds its own and what its links lead to. A `blind` image answers every check alike, the control too.
- **SmokeRun.** `over` is the flag that stops new work, `settled` that the promise is settled; between them the deadline asks
  for its reason. The stop under it is `StopContract`, which `Shutdown` is shown to implement.

## Runs

| Run | Question | States |
|---|---|---|
| `shutdown` | Over the plan of the API, with signals, a failed start, three keypresses and copies of them: does anything close before its turn (`OrderKept`), can copies of one keypress force the exit (`ForcedByNewPress`), is there one justified verdict (`KeepsContract`), does the stop end (`StopEnds`)? | 0.3 M |
| `worker_process` | From the first line to the exit, with failing jobs, ticks, SIGTERM or a failed start at any moment: does the factory outlive ticks and dlq copies (`QueuesOutliveTheirUsers`), is a connection closed under a job (`QueuesOutliveTheirUsers`); does an exit with 0 lose a copy, or hide a failed start (`CleanExitLosesNothing`)? | 0.3 M |
| `queue_factory` | Is a refused or closing Queue ever handed out, or one closed under a read (`InUseIsOpen`); is a queue or a scheduler left open (`NoQueueLeft`), a refusal told twice (`InitToldOnce`); does a close end (`CloseIsBounded`)? | 1.4 M |
| `budget` | Is a close answer ever stale (`CloseAnswersAreCurrent`); by how much is a cap overrun, also by prices below the column's unit (`OvershootBounded`); can Redis hold a check (`CheckEnds`)? | 0.9 M |
| `budget_claim` | **expected violation**, see findings | |
| `migration_lock` | Do two runners conflict or claim each other's migrations (`NoConflict`, `OutcomeIsOwn`); is the session put back (`SessionPutBack`), the caller's own lock kept (`OwnLockKept`); does a wait whose session keeps its `lock_timeout` end (`WaitEnds`)? | 1.9 M |
| `migration_reconnect` | **expected violation**, see findings | |
| `health_probe` | Is a call left on a dead client (`WaitsOnCurrent`); is a database that is back seen to be back within one limit (`RecoveryIsSeen`); does a close cut a query short, open a client or leave one (`CloseKeepsItsWord`); does every call settle (`CallsSettle`)? | 0.3 M |
| `smoke_run` | Is 0 only ever given for a proven pass that stands, late completions included (`ZeroIsProven`); does the command end with Redis dead (`CommandEnds`)? | 11 k |
| `api` | Is a request told about once (`ToldOnce`), and every failure of ours told (`FailuresAreTold`); does the page blame a dependency exactly when it is at fault (`PageBlamesTruly`); does the client understand every answer (`AnswersAreUnderstood`); does a clean stop answer everyone (`CleanStopAnswers`)? | 1.3 M |
| `fleet` | Does anything undo an operator's choice to turn a queue off (`OffStaysOff`); does a switch take effect in the end (`SwitchesPrevail`); are the schedules after a start what the code declares, stray ones of earlier releases gone, in whatever order they stand and whatever fires outside the lists (`SchedulesAsDeclared`); is "healthy" earned, at every moment of a start (`HealthyIsEarned`)? | 0.7 M |
| `compose` | Is the stack that comes up the one that was checked (`StackIsTheOneChecked`), does an image hold a `.env`, tests, or less than its service starts from (`ImagesAreRight`); is CI green exactly on migrations that match the schema (`DriftIsTold`), does one run's sweep take another's copy (`CopiesAreTheirRuns`); does a process start on a server that is not there (`ServersAreThere`), does the stack come up whole, after a reboot too (`StackComesUp`), is a process killed by a stop (`NoneIsKilled`)? | 0.2 M |

The `shutdown` run puts the API's plan (the one with parallel branches) under the worker's answer to a repeated Ctrl+C: the
handler takes plan and `repeatedSigint` independently, and the combination exercises both. The worker's linear plan runs in
`worker_process`. `Forcible = FALSE` is what `SmokeRun` uses.

`budget_claim` and `migration_reconnect` are the instances of `budget` and `migration_lock` without fairness. The `api`
run lets a read of each dependency fail by an outage its SQLSTATE class would hide, by an ordinary one, and by a
defect of ours; one of two clients is impatient. The `compose` run takes eighty-seven trees (the stack as it is, single edits of
it, the pairs of edits that meet in one rule, every state of the migrations folder, images that lack something or hold too
much), five shells and three entries, with and without a copy left behind: 2610 initial states.

Deadlock is checked in `fleet`, where there is always a pass to make or a minute to pass. Every other system is over at some time (an exit code, a
closed handle, a stopped stack), and in a state where it is over nothing is left to do.

## Bounds

| Bound | Value | Why it is enough |
|---|---|---|
| `MaxPresses`, `MaxCopies` | 3, 1 | a stop, a hint and a forced exit need three keypresses at most; one copy of each is what a parent forwards |
| jobs, attempts (worker) | 2, 2 | one job of each of two queues, the heartbeat among them; a retry and a final failure |
| `MaxQueues`, names, readers | 2, 2, 1 | a forgotten Queue and its successor under one name, or two names |
| `Caps`, `Costs`, `Scale` | {5, 8}, {7}, 2 | a cap lowered and raised, a price that is not a multiple of the unit; with two jobs the overshoot reaches its limit |
| `MaxTotal`, `MaxPeriods`, `MaxWire` | 16, 2, 4 | above the highest cap plus both calls; a total of yesterday; two commands of each of two jobs |
| `Migrations`, runners | 2, 2 | "some applied" differs from "none" and from "all"; two deployments |
| `Clients`, `Limit`, `StatementLimit`, `CloseBound` | 3, 3, 2, 2 | the current client and two being ended; the order the code demands (statement < limit) with a tick between |
| `Deadline`, callers, polls | 2, 2, 2 | a poll's deadline below the limit, as `DEPENDENCY_TIMEOUT_MS` is; a shared call and one of its own; a poll that starts the call and one that joins it |
| workers, releases | 2, 2 | the second release renames a queue; a worker of each may run |
| `PageSize`, declared, strays | 2; two schedulers by the first release, another by the second; the first's two | a queue with more schedulers than a page holds, all but one of them stray to the release that comes next |
| `TTL`, `Drift` | 1, 1 | a stamp may be fresh by one clock and stale by the other |
| `MaxEdits`, `MaxFailures` | 3, 1 | off, on and off again while one pass is under way, or a choice and a pause past it; one failed command or killed process |
| requests of the API | 2 | one of the page, which the other may share; one of any route |
| `MaxReboots` | 1 | the second reboot starts from the state of the first |
| `RunLimit`, `StaleCopy` | 1, 2 | steps of the limit of a run (5 minutes in CI, the copies' age is 30): a copy may be as old as a run gets, and at, below and above the age of a stale one |
| `StartTakes`, `StopTakes` | 60 and 10 s; worker 26 s, api 11 s | what the rules' reasons give the databases; the deadline of the stop and the flush after it |

Parameter assumptions are named `ASSUME`s in the modules, and TLC evaluates them on every run.

## Fairness

Only what the event loop, timers and the runtimes around them guarantee. Timers that are armed fire (`DeadlineFires`, `CommandTimesOut`, `WaitExpires`,
`LimitFires`, Postgres' own `lock_timeout` where the session has it), and a callback whose promise is settled runs (`Exit`, `PlanEnds`, `CountArrives`,
`RunReturns`). **No fairness** is assumed of what may hang: a stage's close, a read, a forgotten Queue, Redis, a silent
connection, the runner that holds the lock. Three assumptions about others are stated with the property they carry: a cached
Queue answers its close (`CloseIsBounded`; the code puts no bound of its own on it, the stop's deadline does); the database
answers or refuses a sum (`CheckEnds`; `statement_timeout` sees to it); a server that is there ends a statement by
its bound (`CallsSettle`). Strong fairness stands in `HealthProbe` only, of the clock and of that bound: the database's health
may come and go between two ticks, which disables them again and again without making time stop. In `WorkerFleet` each
process runs what is due and its container is started again (`restart: unless-stopped`); nobody owes a deployment, the end of
a seed, or an edit. In `ComposeStack` Compose creates what may be created, Docker runs healthchecks, the databases get on with
their start and the migrations end; nobody owes a reboot or a stop.

## Proofs

Eight modules, each proved to the last leaf. A theorem holds for **every** value of the constants its module's named `ASSUME`
admits; what the assumptions say is in the last table of this section. No theorem rests on the bounds of the runs: where a
bound stands in a guard (`MaxQueues`, `MaxPresses`, `MaxEdits`, ...), the theorem holds for any value of it.

### The stop: `ShutdownProofs`

For every plan that satisfies `PlanAssumption` (a stage stands in one place, no step is empty), every set of requests, and
any number of keypresses and copies:

| Theorem | States |
|---|---|
| `TypeCorrect` | every reachable state is well typed |
| `OrderAlwaysKept` | no target starts closing before what the plan puts before it has settled - also after the deadline |
| `ExitIsClean` | verdict 0 means every target closed or was never open |
| `OnlyANewPressForces` | the keypress that forces the exit neither began the stop nor got the hint |
| `ContractKept` | `Shutdown` implements `StopContract`: initial states map to initial states, each step to a step or a stutter |

None of the safety properties is inductive by itself. The strengthening has three parts besides the types:

- `PlanInv`: before the stop starts every target waits; every step before `step` has settled; and `OrderKept` itself, a stage
  has begun only if the earlier steps and those before it in its sequence have settled. The plan's disjointness
  (`PlanAssumption`) is what keeps a change of one stage from disturbing the others.
- `VerdictInv`: a verdict exists exactly when `exited`; `exitCode` is that verdict or none; a refused close is remembered in
  `failed`. Since 0 is only chosen when the plan is over and `failed` is still false, `ExitIsClean` follows with the first part.
- `PressInv`: no window is open before the stop starts or when the stop is not forcible; only presses made have copies, and
  only presses made are answered; once repeats are armed, the answered presses have no copies left to come; an open window is
  the one of the answered press. That is what keeps a copy from forcing the exit.

Each part is proved once per action. The refinement uses the same invariant: `ExitOnce` maps to `Decide` when it is first and
to a stutter or to `Learn` otherwise, and `CloseEnds` maps to `Learn`.

### The worker under it: `WorkerProcessProofs`

For any queues, jobs and attempts (`WorkerAssumption`: at least one):

| Theorem | States |
|---|---|
| `QueuesAlwaysOutliveTheirUsers` | wherever a start throws and a signal comes: no tick meets a factory that is closing, and no copy is cut off or job left without its connection unless a Worker refused to close |
| `CleanExitAlwaysLosesNothing` | a worker that leaves with 0 leaves no job running and no copy unanswered, and its start had not failed |

`WorkerInv` follows the stop from the outside in. `PlanInv` says which stages have begun at each step of the plan, `OrderInv`
what a stage (or the unwinding of a failed start, which runs the same closes) says of the runtime's own close, `UseInv` what
that close says of Workers, jobs and copies, and `VerdictInv` that a verdict of 0 had all of it go well. The middle part is
needed because the plan and the unwinding share `closeWorkers` and `closeQueues`: what protects a job is how far the
runtime's close is, not which of the two asked for it.

### Queues: `QueueProofs`

For any names, readers and number of Queue objects, and for any length of a smoke run:

| Theorem | States |
|---|---|
| `InUseAlwaysOpen` | no queue is handed out that is refused or going; none is closed under a read within its bounded wait |
| `NoQueueEverLeft` | no scheduler outlives its queue, and none the close of the factory but a forgotten one that never answers its own |
| `InitAlwaysToldOnce` | a refused `init()` has one line per name, and none as an error of its queue |
| `ZeroAlwaysProven` | the smoke check leaves with 0 only for a job that completed in a run nobody interrupted, before its deadline; a pass stands from the moment it is reached |

`FactoryInv` adds to the three promises of the factory `AllSound` (an object by itself: its scheduler goes with it, an error
about `init()` waits only where the `init()` was refused, a written refusal is remembered by name) and `Accounted`, where
every object is: in the cache, among the forgotten, or closed; once close has read the cache, among those it waits for
instead. `NoQueueLeft` is not inductive without it: nothing else says that close found every object that was open.

`SmokeInv` is about who knows the verdict. `KnownInv`: whoever settles the run tells the command or was told by it, and a
command that ran without a verdict never had its connections. `PassInv`: a pass is of a completed job and known at once.
`ZeroInv`: only a pass begins a stop without blame. The command stands above the abstract stop (`StopContract`), so
the theorem holds over whatever implements it.

### The budget: `BudgetGuardProofs`

For any jobs, caps, prices, unit of the column, attempts and periods; stated of `SafetySpec`, without any fairness:

| Theorem | States |
|---|---|
| `CloseAnswersAlwaysCurrent` | an answer at or past the warning share counts everything recorded before its check began, in that check's period or a later one |
| `OvershootAlwaysBounded` | without the cache the cap is overrun by less than one call of each job at the highest price; and the journal never gains less than was paid |

The first needs what each job knows of the journal (`BegunOf`, `AnswerOf`). The second counts: a job a check has let through,
or is about to, and that has not yet recorded what it pays, is *under way*, and
`PurseInv` keeps `journal + |under way| * Most < Limit`, so that a record only turns what was reserved into what is spent.
Without that reserve the bound is not inductive: a record would raise the journal with nothing to set against it.

### The migrations and the probe: `DatabaseProofs`

Of the migrations, for any set of runners and any number of migrations (`MigrationAssumption`: at least one):

| Theorem | States |
|---|---|
| `TypeCorrect` | every reachable state is well typed |
| `OwnLockAlwaysKept` | the lock a caller brought is still its own, whatever fails |
| `SessionAlwaysPutBack` | the caller's session is as it was, or a step that failed is named |
| `NeverAConflict` | without replaced sessions, no runner fails on what another applied meanwhile |
| `OutcomeAlwaysOwn` | without replaced sessions, a runner reports what it applied itself |
| `SeedAlwaysFollows` | a seed is only written over a complete journal (`SeedFollows`, stated by no run) |

A runner changes its own record only, so most of the invariant is a predicate on one record and the journal.
`Sound` holds whatever becomes of the sessions: `LockKnown` (what the run remembers of the lock it found is what the session
brought), `LockCounts` (how often the session holds the lock at each phase: once more than it brought under the run, as
often as before after it), `Settings`, and `Counts` (the journal only grows, and is complete behind a run without an error).
`LockKept` is what holds as long as sessions are not replaced (`~idleLoss`): a runner in its run holds the lock, so what it
read of the journal is still what the journal says. The runners meet in one fact, `Exclusive`: two sessions never hold the
lock at once. It is needed because `LockKept` of one runner would break if another could reach `Apply`. `Stepped` says what a
statement of one runner may do (a good record, a count of holds that rises only if the lock was free, a journal that is
written only in `Apply`); each action is proved to be such a step, and `StepKeeps` proves once that such a step preserves the
invariant.

Of the probe and its polls, for any callers, polls, clients and bounds of which the server's is below the probe's own
(`ProbeAssumption`):

| Theorem | States |
|---|---|
| `NoCallLeftBehind` | a call only ever waits on the client that is there now, never on one a limit has taken down |
| `RecoveryAlwaysSeen` | within one limit of the first poll after a database is back, a poll is answered up, though the old connection never answers |
| `CloseAlwaysKeepsItsWord` | from the first line of `close()` no limit speaks and no client is opened; when it answers, every client is gone |

The handle has an invariant of its own, `ProbeInv` (`QueueInv`: a call that waits is in the queue of the current client and no older than the limit;
`EndInv`: every other client is gone or being ended), kept by every step of `ProbeDb` whoever calls it. The polls add a clock. `CalmInv`: the call on
a silent connection is as old as the database has been well since, so one that has been silent that long has reached its
limit and taken the connection down; `SureInv` carries that into the answer of a poll. Safety alone gives
no recovery; the clock is what turns the liveness one would like into something a step can keep.

### The fleet: `WorkerFleetProofs`

For any workers, releases, queues, declared schedules, page size, and stray schedulers in any order:

| Theorem | States |
|---|---|
| `HealthyAlwaysEarned` | of a process that is not down, "healthy" means a heartbeat within the TTL, by whatever clock within the drift; and from the clearing of the stamp on, one that ran since. Between its start and that, a worker is healthy on the heartbeat of the process before it or of a neighbour |
| `SchedulesAlwaysAsDeclared` | a worker that runs after a sync no other wrote into, and no firing moved an entry of between two pages of a list, has exactly the schedules its code declares |
| `OffAlwaysStaysOff` | no pass resumes a queue the operator had turned off before the pass began and has left off since |

The invariant has parts that need nothing of each other but the types: `StampInv` (a stamp that is there is no younger than
the last heartbeat, and a worker past its clear has lived through one), `PassInv` (what was turned off is off in the row, and
a pass that has read the row knows it), and for the sync `PlaceInv` (where it is), `AloneInv` (what it has reached while it is
`alone`: queues before this one done, of this one all that is declared there, and what was listed the beginning of
the order) with `OrderInv`, that no scheduler stands in an order twice. What a step does to an order is three lemmas
(`UpsertedHolds`, `WithoutHolds`, `RescheduledHolds`: what it holds afterwards, and that each is there once), and
`FiringUnseen` says that a firing moves nothing a sync knows unless it is between two pages of that queue. That
hypothesis is needed: see the findings.

The attempt found the model wrong once: `PassInv` did not hold after an operator turned a queue off, on and off again during
one pass, which two edits (the bound of the run then) cannot show. What a pass may not resume is what has been off
*since it read*; `Edit` now says so, and the run allows three edits.

### The API: `ApiProcessProofs`

For any number of requests, any routes they ask for, any errors of handlers and any outages:

| Theorem | States |
|---|---|
| `EachAlwaysToldOnce` | a request has one line that says how it went, however many of its steps fail |
| `FailuresAlwaysTold` | a request that was answered or broke has a line, and a failure of ours one at level error |
| `AnswersAlwaysUnderstood` | whatever `/health` and the page answer, the client reads as their value or as the failure reported |
| `CleanStopAlwaysAnswers` | a stop that exits with 0 cut no client off in the middle of its request |
| `PageAlwaysBlamesTruly` | the page says a dependency is down exactly when a read of it failed by that dependency's fault, never for our stop or a defect of ours; only a defect costs the page |

Every step but the arrival of an answer from a dependency changes one request, so the invariant is one statement about a
request, `RequestInv`, kept by each operation on it: `LogInv` (which lines it has at which phase), `RefusalsInv` (what
the socket refused), `ToldInv` (what the mark knows) and `WireInv` (what has gone out). Each step of a request is proved to
have an `Effect` (`RequestInv` again, and nothing that was over begins anew), which is all the stop needs of it.
Two facts tie requests to the stop: `StopInv`, the order of the plan, and `DrainInv`, nobody waits for an answer once the app
is closed. `PagesInv` leans on both: a read the stop has broken off is nobody's who is still there.

`PageAlwaysBlamesTruly` has a hypothesis, `OutagesNamed`: the code of a single failure tells a fault of the
dependency from a defect of ours. That is a fact about codes of Postgres and Redis, not about this program. The lemma
`FailuresAreToldApart` proves it of the failures the run uses, among them the one whose SQLSTATE class would mislead (25006).
The theorem is about everything after it: several sections, shared reads, deadlines, a stop in between.

### The stack and its gates: `ComposeProofs`

For any working trees, shells and entries, any times the databases take to start, any stale age and limit of a run not above
it (`DriftAssumption`), and any times services take to stop that `TreesAssumption` admits:

| Theorem | States |
|---|---|
| `StackAlwaysTheOneChecked` | what the gate found clean is what `docker compose up` takes: from the root exactly the files read, from the directory of any of them none but those; values from outside reach two kinds of fields |
| `ImagesAlwaysRight` | no `.env` enters an image of a clean stack; a probe's 0 and 1 are true of its image, for any workspace and however far its links lead |
| `DriftAlwaysTold` | the drift gate's code is true of the tree's schema, and no sweep takes the copy of a run that goes on |
| `ServersAlwaysThere` | a client of a database is first started when the server answers on its address, api and worker on a migrated one |
| `NoneEverKilled` | a stop of a clean stack kills nobody |
| `CopiesStayWithTheirRuns`, `CodeAlwaysTrue` | the same of the drift gate by itself (`DriftSpec`; a folder that may change under it, and one that does not) |

Each gate has an invariant the others leave alone; together they are `SpecInv`, which TLC found to hold on the
instance before it was proved.

- `GateInv` says what `main` has established where it stands; its core is `WalkInv`: the walk of the files has in the graph
  what it has read, has read or queued what that leads to, and has come nowhere but from the entry. "What Compose takes" is a
  *least* closed set, so the two inclusions are the two halves of that: the graph of a clean verdict is closed (rule 15 leaves no
  edge unread or unfollowed), and nothing is in it that the entry does not reach. Rule 14 makes the entry what Compose starts from.
- `ImagesInv` is the same of the walk of the manifests (`WalkOf`), which is why an image whose probe says 0 holds what its
  service needs many links away, and one that says 1 does not.
- `DriftInv` adds to "each run has its copy" that a copy of a run that goes on is not older than the limit: `CopiesAge`
  keeps it, since a run is ended first, and the sweep takes only what is older. `ToldInv` adds to "the code is true" what the
  run has concluded so far: nothing, or something that is so, or that it could not tell.
- `StackInv` rests on the rules: a database that is `healthy` is `ready`, because the only healthchecks rules 4 and 8 let
  through do not pass earlier, and rule 5 makes its clients wait for that. `NoneEverKilled` is a sum: the deadline of a stop and the flush
  after it (25 and 10 s, 1 s) within the grace rule 3 demands (30 and 15 s).

### What the theorems assume

| Assumption | Says | Why the code justifies it |
|---|---|---|
| `PlanAssumption`, `ParameterAssumption` | each stage in one place of the plan, no empty step; types of the rest | `bootstrap.ts`, `compose-app.ts` and `smoke.ts` list each target once |
| `WorkerAssumption`, `FactoryAssumption`, `MigrationAssumption` | types; at least one attempt, one migration | a job is attempted at least once; the folder of migrations is not empty |
| `BudgetAssumption` | finite sets; caps above 0, some price | caps are `positive()` in the environment's schema |
| `ProbeAssumption`, `HealthAssumption` | two clients at least, `StatementLimit < Limit` | `createProbeDb` refuses bounds that are not positive or not in this order |
| `FleetAssumption` | a first release, the heartbeat in each, no stray scheduler twice in a queue, a page of at least one | the registry of each release and the constants of `schedules.ts` |
| `RequestsAssumption` | the errors of handlers are errors; slow sections are sections; each outage has a cause | types |
| `DriftAssumption` | a copy is stale no sooner than a run is ended | 30 minutes and 5 in `check-schema-drift.mjs` and CI |
| `TreesAssumption` | types of a tree; the probe's control is in no image; api and worker need no longer than their deadline and flush to stop, the others no longer than their grace | `SHUTDOWN_TIMEOUT_MS`, `FLUSH_TIMEOUT_MS`; the name of the control is one nobody publishes; of the others' stop the rules say nothing |

TLC evaluates each of them on the runs. The one hypothesis of a theorem beside them is `OutagesNamed`.

### Only model-checked

The type invariants of the modules above are part of the theorems' invariants, so no run repeats them, and every safety
property a passing run checks is stated by a theorem. Left to TLC is all liveness (`StopEnds`, `CloseIsBounded`, `CheckEnds`,
`WaitEnds`, `CallsSettle`, `CommandEnds`, `SwitchesPrevail`, `StackComesUp`), and fairness with it.

## Findings

Two sentences of the code's comments say more than the code keeps. Both are divergences of documentation; the code's other
mechanisms keep the consequences small.

- **`budget_claim`.** `packages/core/src/domain/redis-keys.ts` says the staleness of the cached total "is never the staleness
  that lets a call past the cap". It can be: a total below the warning share is reused for up to the cache's lifetime while
  other jobs' calls are recorded, so a call is cleared while the journal is already at the cap. `OvershootBounded`
  is therefore stated of a guard without a cache.
- **`migration_reconnect`.** `packages/db/src/migrate.ts` says a single connection "keeps the advisory lock and the migration
  on one session". With `max: 1` the driver still opens a new session by itself when the old one is lost between two
  statements, and the migration then goes on without the lock. `NoConflict` and `OutcomeIsOwn` are therefore stated under
  `~idleLoss`; `SessionPutBack` and `OwnLockKept` hold with it.

Four smaller divergences were met and are no runs, because the properties allow for them. `apps/api/src/lib/request-state.ts`
says that once a line is written every later one but a second failure stays silent; the error handler does not read the
mark, so its line may follow "request errored" (`ToldOnce` says so). And a comment at `system-status.ts:220` says a
`ValidationError` out of a section is answered with 500; the mapping would give 400. No section throws one.

- `packages/db/src/migration-lock.ts:275` says the lock is taken "waiting at most `waitMs`", by the session's `lock_timeout`.
  That is set by one statement, and the next one waits: a session replaced between the two has the server's default, which is
  no limit, and waits as long as the other runner holds the lock. `WaitEnds` leaves such a session out; without that
  exception TLC finds it violated.
- `apps/worker/src/schedules.ts:12` says the sync "removes what is no longer declared", and `:56` that it pages so that none
  past the first page stays. The pages are positions in an order that moves: a scheduler that fires under a live neighbour
  between two pages gets a later place, the next ones slide into the range already read, and a stray among them is not
  listed. It stays until the next start. It takes more schedulers in one queue than a page holds (100), and today's code
  declares one in all. `SchedulesAsDeclared` leaves a sync with such a firing out (`alone`); without that TLC finds it violated.

## Mutants

`X_Fault` (or `X_Leave`, `X_Quiet`), defined just before `X`, is `X` with a plausible defect: a dropped guard, an off-by-one, a
swapped order, a missing reset. No specification uses them. Each property of each passing run has at least one in `PROJECT.json`
under `mutants`: with `X` replaced, TLC finds the property violated, which shows that the instance is large enough for the
property to say something about that line.

## What is not modelled

`PROJECT.json`'s `components` lists every part with its reason. In short:

- The **task tracker**: a command line over three files for one person, without concurrent commands. A process killed between
  two of the writes leaves them apart until the next command or `render --check`. Its checks of documents are text rules.
- The **web console**: rendering of one answer; its automatic refresh may at most read once more than needed.
- The other **repository checks** (documents, the listing of files): one pass over their input, no protocol.
- **Tables and text** (logger, redaction, formatting, the OpenAPI document, configuration, the database schema, job
  identifiers) are enumerated by unit tests; the **integrations** are stubs; the pipeline's jobs do not exist yet.
- Which of a client's **errors** get a line, and the one line per outage: the policy decides log lines only. `backup.sh`: a linear
  script.

Left out *inside* modelled parts: the wording of lines, except where which line is written is the subject (`InitToldOnce`,
`ToldOnce`); keypresses in `WorkerProcess` and `ApiProcess` (they are `Shutdown`'s subject); a paid call whose row cannot be
written stays unrecorded, as the code accepts; an `add` already in the offline queue of the smoke check's client is carried
out when Redis returns, over or not, so no property says otherwise; a refusal on the socket while a handler runs; a deployment
of an *older* release, whose seed would bring back a switch the newer one pruned, with its default; `COMPOSE_*` variables
in the operator's own `.env`, which the gate does not see (the repository's list of debts names it); how the image probe
finds the entry file of a package; a developer editing the schema while the drift gate runs.

## Plan

Written so far, most important behaviour first: the stop and its contract, the worker under it, the queue factory, the
budget, the migrations, the probe with the health polls, the smoke command, the fleet of workers, the API with its requests
over the stop, the Compose stack under its gate, the drift gate and the image probe; and the theorems of all of them.

1. **Abstract specifications worth stating**: a *fuse* that `BudgetGuard` without a cache implements; a *cell* (one live
   client or none) that `ProbeDb` implements; the factory as `WorkerProcess` sees it, implemented by `QueueFactory`.
2. **Models that would add least**: the tracker's three files with a crash between them; the refresh timer of the console;
   the one line per outage.
