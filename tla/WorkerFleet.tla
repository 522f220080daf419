----------------------------- MODULE WorkerFleet -----------------------------
(***************************************************************************)
(* What the worker processes share: the switches of the queues in Postgres *)
(* (app_setting."queues.enabled"), the paused queues, the job schedulers   *)
(* and the heartbeat stamp in Redis.  Workers of two releases start, clear *)
(* the stamp, bring the schedulers to what their code declares, re-apply   *)
(* the switches every minute, and die; a deploy seeds the setting; the     *)
(* operator edits it, and pauses queues past it.                           *)
(*                                                                         *)
(* BullMQ, Redis and Postgres are external: one command, one step.         *)
(***************************************************************************)
EXTENDS Integers, Sequences, FiniteSets, SequencesExt

CONSTANTS
  Workers,       \* the processes
  Releases,      \* the versions of the code
  Registry,      \* by release: QUEUE_NAMES, in order
  Declares,      \* by release and queue: the ids of SCHEDULES
  Strays,        \* by queue: the schedulers an earlier code left in Redis, in order
  PageSize,      \* schedulers per round trip
  TTL,           \* minutes a stamp is believed for
  Drift,         \* how far the reader's clock may be off, in minutes
  Edited,        \* the queues the operator looks after
  MaxEdits,      \* bound: what the operator does
  MaxFailures    \* bound: failed commands and killed processes

QueuesOf(v) == ToSet(Registry[v])
Queues == UNION {QueuesOf(v) : v \in Releases}
Heartbeat == "heartbeat"
Newest == Cardinality(Releases)

\* Releases are numbered as they come; a scheduler's id is a number.
ASSUME FleetAssumption ==
  /\ TTL \in Nat \ {0} /\ PageSize \in Nat \ {0} /\ Drift \in Nat
  /\ IsFiniteSet(Releases) /\ Releases = 1 .. Newest /\ Newest > 0
  /\ \A v \in Releases : /\ Registry[v] \in Seq(QueuesOf(v))
                         /\ Heartbeat \in QueuesOf(v)
  /\ Strays \in [Queues -> Seq(Int)] /\ \A q \in Queues : IsInjective(Strays[q])
  /\ \A v \in Releases : Declares[v] \in [Queues -> SUBSET Int]
  /\ Edited \subseteq Queues

VARIABLES
  row,        \* by queue: its switch as stored; "absent", "on", "off", or no boolean
  paused,     \* the queues paused in Redis
  schedulers, \* by queue: the schedulers in Redis, by their next run
  stamp,      \* minutes since the stamp in Redis was written
  due,        \* the queues in which the job of a scheduler waits
  release,    \* what is deployed
  pruning,    \* a seed between its two statements
  proc,       \* the worker processes
  edits, failures,
  about,      \* which of the subjects the behaviour has
  off,        \* history: the queues the operator has turned off
  beat        \* history: minutes since a heartbeat last ran

storeVars == <<row, paused, schedulers, stamp, due, release, pruning>>
boundVars == <<edits, failures, about>>
vars == <<storeVars, proc, boundVars, off, beat>>

NoStamp == TTL + 1

\* The off of a pass is history: what has been off since the pass began.
NoPass == [step |-> "none", switches |-> [q \in Queues |-> "absent"],
           states |-> [q \in Queues |-> "unread"], off |-> {}, at |-> 1]
NoSync == [step |-> "none", upserted |-> [q \in Queues |-> {}], at |-> 1, ids |-> <<>>]
\* alone is history: since a process cleared the stamp no other worker has written
\* a schedule, nor moved one under its list, between two pages.
Down == [phase |-> "down", release |-> 1, pass |-> NoPass, sync |-> NoSync,
         alone |-> FALSE, beaten |-> FALSE]

\* defaultQueueSwitches
Defaults(v) == [q \in Queues |-> IF q \in QueuesOf(v) THEN "on" ELSE "absent"]

\* A database that is migrated, perhaps seeded by the first release, and a Redis with what an
\* earlier code left.
Init ==
  /\ about \in {"switches", "start"}
  /\ row \in {Defaults(1)} \cup (IF about = "start" THEN {} ELSE {[q \in Queues |-> "absent"]})
  /\ paused = {}
  /\ schedulers = IF about = "start" THEN Strays ELSE [q \in Queues |-> <<>>]
  /\ stamp = IF about = "start" THEN 0 ELSE NoStamp
  /\ due = {}
  /\ release = (IF about = "start" THEN 1 ELSE Newest) /\ pruning = 0
  /\ proc = [w \in Workers |-> Down]
  /\ edits = 0 /\ failures = 0
  /\ off = {} /\ beat = stamp

RowMissing(r) == \A q \in Queues : r[q] = "absent"

\* QueueSwitchesSchema: one value that is no boolean spoils the row.
Readable(r) == ~RowMissing(r) /\ \A q \in Queues : r[q] # "not a boolean"

-----------------------------------------------------------------------------
(* The seed and the operator *)

\* seedAppSettings: the defaults under the stored object, in one statement.
Merged_Fault(v) ==
  [q \in Queues |-> IF Defaults(v)[q] # "absent" THEN Defaults(v)[q] ELSE row[q]]
Merged(v) ==
  [q \in Queues |-> IF row[q] # "absent" THEN row[q] ELSE Defaults(v)[q]]

\* pruneQueueSwitches: the keys the release does not know go.
Pruned(v) == [q \in Queues |-> IF q \in QueuesOf(v) THEN row[q] ELSE "absent"]

\* A release is deployed, or seeded again: the setting first.
\* Bound: the switches are looked at under the newest release, and a start, where
\* nobody edits, under one that is seeded once.
Deploy ==
  /\ pruning = 0
  /\ \E v \in Releases :
       /\ v >= (IF about = "start" THEN release + 1 ELSE Newest) /\ release' = v
       /\ row' = Merged(v)
       /\ pruning' = v
  /\ UNCHANGED <<paused, schedulers, stamp, due, proc, boundVars, off, beat>>

Prune ==
  /\ pruning # 0
  /\ row' = Pruned(pruning)
  /\ pruning' = 0
  /\ UNCHANGED <<paused, schedulers, stamp, due, release, proc, boundVars,
                 off, beat>>

\* The operator edits a switch that is there, or the queue itself.
Edit ==
  /\ about = "switches" /\ edits < MaxEdits
  /\ edits' = edits + 1
  /\ \E q \in Edited :
       \/ /\ row[q] # "absent"
          /\ \E value \in {"on", "off", "not a boolean"} :
               /\ row' = [row EXCEPT ![q] = value]
               /\ off' = IF value = "off" THEN off \cup {q} ELSE off \ {q}
          /\ proc' = [w \in Workers |-> [proc[w] EXCEPT !.pass.off = @ \cap off']]
          /\ UNCHANGED paused
       \/ /\ paused' = IF q \in paused THEN paused \ {q} ELSE paused \cup {q}
          /\ UNCHANGED <<row, off, proc>>
  /\ UNCHANGED <<schedulers, stamp, due, release, pruning, failures, about, beat>>

-----------------------------------------------------------------------------
(* A pass over the switches (applyQueueSwitches) *)

Pass(w) == proc[w].pass
Wanted(w) == {q \in QueuesOf(proc[w].release) : Pass(w).switches[q] # "absent"}
UpdatePass(w, pass) == proc' = [proc EXCEPT ![w].pass = pass]

\* A pass that throws ends the start, and is only a line of a tick.
PassThrows(w) ==
  proc' = [proc EXCEPT ![w] = IF @.phase = "applying" THEN Down
                              ELSE [@ EXCEPT !.pass = NoPass]]

\* startQueueSwitchSync: a tick while a pass is in flight does nothing.
\* Bound: the start is over within the minute before the first tick.
TickBegins(w) ==
  /\ about = "switches"
  /\ proc[w].phase = "up" /\ Pass(w).step = "none"
  /\ UpdatePass(w, [NoPass EXCEPT !.step = "reading", !.off = off])
  /\ UNCHANGED <<storeVars, boundVars, off, beat>>

\* readQueueSwitches.
ReadSwitches(w) ==
  /\ Pass(w).step = "reading"
  /\ IF Readable(row)
     THEN UpdatePass(w, [Pass(w) EXCEPT !.step = "asking", !.switches = row])
     ELSE PassThrows(w)
  /\ UNCHANGED <<storeVars, boundVars, off, beat>>

\* isPaused of every queue that has a switch, all at once.
AskState(w, q) ==
  /\ Pass(w).step = "asking" /\ q \in Wanted(w) /\ Pass(w).states[q] = "unread"
  /\ UpdatePass(w, [Pass(w) EXCEPT !.states[q] =
                      IF q \in paused THEN "paused" ELSE "running"])
  /\ UNCHANGED <<storeVars, boundVars, off, beat>>

\* One queue after the other, against the state that was read; a queue
\* without a switch is left as it is.
Disagrees(w, q) ==
  \/ Pass(w).switches[q] = "on" /\ Pass(w).states[q] = "paused"
  \/ Pass(w).switches[q] = "off" /\ Pass(w).states[q] = "running"
Acting(w) ==
  Pass(w).step = "asking" /\ \A q \in Wanted(w) : Pass(w).states[q] # "unread"
LeftToDo(w) ==
  {i \in DOMAIN Registry[proc[w].release] :
     i >= Pass(w).at /\ Disagrees(w, Registry[proc[w].release][i])}
Act(w) ==
  /\ Acting(w)
  /\ \E i \in LeftToDo(w) :
       LET q == Registry[proc[w].release][i]
       IN  /\ \A j \in LeftToDo(w) : i <= j
           /\ paused' = IF Pass(w).switches[q] = "on" THEN paused \ {q}
                                                      ELSE paused \cup {q}
           /\ UpdatePass(w, [Pass(w) EXCEPT !.at = i + 1])
  /\ UNCHANGED <<row, schedulers, stamp, due, release, pruning, boundVars,
                 off, beat>>

PassEnds_Fault(w) ==
  /\ Acting(w) /\ LeftToDo(w) = {}
  /\ IF proc[w].phase = "applying"
     THEN proc' = [proc EXCEPT ![w].pass = NoPass, ![w].phase = "clearing"]
     ELSE UpdatePass(w, [NoPass EXCEPT !.step = "in flight"])
  /\ UNCHANGED <<storeVars, boundVars, off, beat>>
PassEnds(w) ==
  /\ Acting(w) /\ LeftToDo(w) = {}
  /\ IF proc[w].phase = "applying"
     THEN proc' = [proc EXCEPT ![w].pass = NoPass, ![w].phase = "clearing"]
     ELSE UpdatePass(w, NoPass)
  /\ UNCHANGED <<storeVars, boundVars, off, beat>>

\* Postgres or Redis refuses the command of a pass.
PassFails(w) ==
  /\ Pass(w).step # "none" /\ failures < MaxFailures
  /\ failures' = failures + 1
  /\ PassThrows(w)
  /\ UNCHANGED <<storeVars, edits, about, off, beat>>

PassStep(w) ==
  \/ ReadSwitches(w) \/ (\E q \in Queues : AskState(w, q))
  \/ Act(w) \/ PassEnds(w)

-----------------------------------------------------------------------------
(* The start of a worker *)

\* startEverything begins with a pass of its own.
Start(w) ==
  /\ proc[w].phase = "down"
  /\ proc' = [proc EXCEPT ![w] =
       [Down EXCEPT !.phase = "applying", !.release = release,
                    !.pass = [NoPass EXCEPT !.step = "reading", !.off = off]]]
  /\ UNCHANGED <<storeVars, boundVars, off, beat>>

\* clearHeartbeat, then the resync and the schedules.
\* Bound: a behaviour about the switches has no schedules.
AfterClear == IF about = "start" THEN "syncing" ELSE "up"
ClearHeartbeat_Fault(w) ==
  /\ proc[w].phase = "clearing"
  /\ proc' = [proc EXCEPT ![w].phase = AfterClear, ![w].alone = TRUE,
                          ![w].sync.step = "declaring"]
  /\ UNCHANGED <<storeVars, boundVars, off, beat>>
ClearHeartbeat(w) ==
  /\ proc[w].phase = "clearing"
  /\ stamp' = NoStamp
  /\ proc' = [proc EXCEPT ![w].phase = AfterClear, ![w].alone = TRUE,
                          ![w].sync.step = "declaring"]
  /\ UNCHANGED <<row, paused, schedulers, due, release, pruning, boundVars,
                 off, beat>>

Sync(w) == proc[w].sync
Declared(w, q) == Declares[proc[w].release][q]
SyncQueue(w) == Registry[proc[w].release][Sync(w).at]

\* What a worker writes ends the peace of every sync of another.
SyncWrites(w, sync) ==
  proc' = [x \in Workers |->
             IF x = w THEN [proc[x] EXCEPT !.sync = sync]
             ELSE [proc[x] EXCEPT !.alone = FALSE]]
SyncGoesOn(w, sync) == proc' = [proc EXCEPT ![w].sync = sync]

\* A scheduler that is there keeps its next run, and so its place (one with another
\* pattern would not; that is before anything is listed); a new one has its own.
Upserted(order, id) ==
  IF id \in ToSet(order) THEN {order}
  ELSE {InsertAt(order, i, id) : i \in 1 .. Len(order) + 1}
Without(order, id) ==
  IF id \in ToSet(order) THEN RemoveAt(order, CHOOSE i \in DOMAIN order : order[i] = id)
  ELSE order

\* upsertJobScheduler of one declaration after the other.
ToDeclare(w) ==
  {q \in QueuesOf(proc[w].release) : Declared(w, q) \ Sync(w).upserted[q] # {}}
Upsert(w) ==
  /\ proc[w].phase = "syncing" /\ Sync(w).step = "declaring"
  /\ \E q \in ToDeclare(w) :
       \E id \in Declared(w, q) \ Sync(w).upserted[q] :
         /\ \E order \in Upserted(schedulers[q], id) :
              schedulers' = [schedulers EXCEPT ![q] = order]
         /\ SyncWrites(w, [Sync(w) EXCEPT !.upserted[q] = @ \cup {id}])
  /\ UNCHANGED <<row, paused, stamp, due, release, pruning, boundVars, off, beat>>

\* listSchedulerIds: page after page by position, until one is not full.
Page(q, from) ==
  SubSeq(schedulers[q], from + 1, IF from + PageSize < Len(schedulers[q])
                                  THEN from + PageSize ELSE Len(schedulers[q]))
LastPage_Fault(page) == TRUE
LastPage(page) == Len(page) < PageSize
Listing(w) ==
  /\ proc[w].phase = "syncing" /\ ToDeclare(w) = {}
  /\ Sync(w).step \in {"declaring", "listing"}
  /\ Sync(w).at \in DOMAIN Registry[proc[w].release]
ListPage(w) ==
  /\ Listing(w)
  /\ LET page == Page(SyncQueue(w), Len(Sync(w).ids))
     IN  SyncGoesOn(w, [Sync(w) EXCEPT
           !.ids = @ \o page,
           !.step = IF LastPage(page) THEN "removing" ELSE "listing"])
  /\ UNCHANGED <<storeVars, boundVars, off, beat>>

\* removeJobScheduler of what was listed and is not declared.
Undeclared(w) ==
  {i \in DOMAIN Sync(w).ids : Sync(w).ids[i] \notin Declared(w, SyncQueue(w))}
RemoveStray(w) ==
  /\ Sync(w).step = "removing"
  /\ \E i \in Undeclared(w) :
       /\ \A j \in Undeclared(w) : i <= j
       /\ schedulers' = [schedulers EXCEPT ![SyncQueue(w)] = Without(@, Sync(w).ids[i])]
       /\ SyncWrites(w, [Sync(w) EXCEPT !.ids = SubSeq(@, i + 1, Len(@))])
  /\ UNCHANGED <<row, paused, stamp, due, release, pruning, boundVars, off, beat>>

\* The next queue; after the last the schedules agree and the Workers start.
NextQueue(w) ==
  /\ Sync(w).step = "removing" /\ Undeclared(w) = {}
  /\ IF Sync(w).at < Len(Registry[proc[w].release])
     THEN SyncGoesOn(w, [Sync(w) EXCEPT !.step = "listing", !.ids = <<>>, !.at = @ + 1])
     ELSE proc' = [proc EXCEPT ![w].phase = "up", ![w].sync = NoSync]
  /\ UNCHANGED <<storeVars, boundVars, off, beat>>

StartStep(w) ==
  \/ ClearHeartbeat(w) \/ Upsert(w) \/ ListPage(w) \/ RemoveStray(w) \/ NextQueue(w)

\* The process dies, or its start does.
Dies(w) ==
  /\ proc[w].phase # "down" /\ failures < MaxFailures
  /\ failures' = failures + 1
  /\ proc' = [proc EXCEPT ![w] = Down]
  /\ UNCHANGED <<storeVars, edits, about, off, beat>>

-----------------------------------------------------------------------------
(* The heartbeat *)

Older(minutes) == IF minutes < NoStamp THEN minutes + 1 ELSE NoStamp

\* A minute passes: jobs of schedulers fall due, and Redis drops a key past its TTL.
Minute ==
  /\ about = "start"
  /\ due' = due \cup {q \in Queues : schedulers[q] # <<>>}
  /\ stamp' = IF stamp >= TTL THEN NoStamp ELSE Older(stamp)
  /\ beat' = Older(beat)
  /\ UNCHANGED <<row, paused, schedulers, release, pruning, proc, boundVars, off>>

\* The job of a scheduler is taken: the scheduler gets its next run, and a later
\* place - unless it has been removed since.
Rescheduled(order) ==
  {order} \cup UNION {{InsertAt(RemoveAt(order, i), j, order[i]) : j \in i .. Len(order)}
                         : i \in DOMAIN order}

\* A worker whose list of a queue has begun and not ended.
BetweenPages(x, q) ==
  Sync(x).step = "listing" /\ SyncQueue(x) = q /\ Sync(x).ids # <<>>

\* A worker that is up takes a job from a queue that is not paused.  Also one of
\* a queue that has no processor yet, and so no Worker: more than can happen.
Takes(w, q) ==
  /\ proc[w].phase = "up" /\ q \in QueuesOf(proc[w].release) \cap (due \ paused)
  /\ due' = due \ {q}
  /\ \E order \in Rescheduled(schedulers[q]) :
       /\ schedulers' = [schedulers EXCEPT ![q] = order]
       /\ proc' = [x \in Workers |-> [proc[x] EXCEPT
            !.alone = @ /\ (BetweenPages(x, q) => order = schedulers[q]),
            !.beaten = @ \/ (q = Heartbeat /\ proc[x].phase \in {"syncing", "up"})]]
  /\ IF q = Heartbeat THEN stamp' = 0 /\ beat' = 0 ELSE UNCHANGED <<stamp, beat>>
  /\ UNCHANGED <<row, paused, release, pruning, boundVars, off>>
Beat(w) == \E q \in Queues : Takes(w, q)

\* readHeartbeat: the distance from the reader's clock, either way.
ReadHeartbeat(age, drift) ==
  IF age = NoStamp THEN "stale"
  ELSE IF age - drift \in -TTL .. TTL THEN "fresh" ELSE "stale"

\* runHealthcheck: a read that hangs or fails is an answer, too.
Verdict(answer, drift) ==
  IF answer \in {"timeout", "failed"} THEN "unhealthy"
  ELSE IF ReadHeartbeat(stamp, drift) = "fresh" THEN "healthy" ELSE "unhealthy"

-----------------------------------------------------------------------------

\* The processes.
Runs(w) == Start(w) \/ StartStep(w) \/ TickBegins(w) \/ PassStep(w)
WorkerStep(w) ==
  Runs(w) \/ PassFails(w) \/ Beat(w) \/ Dies(w)

Next ==
  \/ Deploy \/ Prune \/ Edit \/ Minute
  \/ \E w \in Workers : WorkerStep(w)

\* A container is started again, and the timer and the event loop of a process
\* that lives run what is due.  Nobody owes a deploy or the end of a seed.
Fairness == \A w \in Workers : WF_vars(Runs(w))

Spec == Init /\ [][Next]_vars /\ Fairness

-----------------------------------------------------------------------------
(* What the operator may rely on *)

\* A pass never resumes a queue the operator had turned off before the pass
\* began and has left off since: a deploy that merges its defaults, a stale
\* read of another worker, a start - none of them undoes the choice
\* (seed.ts:39).
OffStaysOff ==
  [][\A q \in paused \ paused' :
       edits' = edits =>
         ~ \E w \in Workers : proc'[w] # proc[w] /\ q \in Pass(w).off \cap off]_vars

\* A switch takes effect (queue-switches.ts:19): once the operator leaves the
\* setting alone, every queue of a running release that has a switch ends up
\* as it says, also one paused by hand, also with two workers passing.
SwitchesPrevail ==
  <>[](Readable(row) =>
         \A w \in Workers : \A q \in QueuesOf(proc[w].release) :
           proc[w].phase = "up" /\ row[q] # "absent" =>
             (q \in paused <=> row[q] = "off"))

\* A worker that comes up after a sync no other worker wrote into, and in which
\* no scheduler fired between two pages of a list, has exactly the schedules its
\* code declares in the queues it knows (schedules.ts:8): however many pages an
\* earlier code filled, in whatever order, with or without a live neighbour.  A
\* firing between two pages can move a stray into the part already listed.
SchedulesAsDeclared ==
  \A w \in Workers :
    proc[w].phase = "up" /\ proc[w].alone /\ about = "start" =>
      \A q \in QueuesOf(proc[w].release) : ToSet(schedulers[q]) = Declared(w, q)

\* The healthcheck of a container says healthy, by whatever clock within the
\* drift, only on a heartbeat within the TTL; and once its worker has cleared
\* the stamp only on one that ran since (system-heartbeat.ts:12, runtime.ts:223).
\* Before that a worker is healthy on the heartbeat of the process before it, so
\* one that hangs there is no longer so when the TTL is over, unless a neighbour
\* beats: the stamp is everybody's.
HealthyIsEarned ==
  \A w \in Workers : \A drift \in -Drift .. Drift :
    proc[w].phase # "down" /\ Verdict("stamp", drift) = "healthy" =>
      /\ beat <= TTL
      /\ proc[w].beaten \/ proc[w].phase \in {"applying", "clearing"}
=============================================================================
