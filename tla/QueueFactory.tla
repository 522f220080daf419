---------------------------- MODULE QueueFactory ----------------------------
(***************************************************************************)
(* The factory every process opens its BullMQ queues through:              *)
(* packages/runtime/src/queues.ts.  It caches one Queue per name, forgets   *)
(* the one whose init() was refused, and closes everything it opened.      *)
(*                                                                         *)
(* A Queue of BullMQ is external: its init() settles once, whenever it      *)
(* likes, its close() may hang, and a scheduler it was asked for comes     *)
(* later.  Each action is one callback of the process's event loop.        *)
(***************************************************************************)
EXTENDS Integers, Sequences, FiniteSets

CONSTANTS Names,     \* the queue names
          Readers,   \* the callers of use()
          MaxQueues, \* bound: Queue objects built
          ReadOnly   \* readOnly: a reader writes no refusal line

ASSUME FactoryAssumption == MaxQueues \in Nat /\ ReadOnly \in BOOLEAN

NoQueue == 0

VARIABLES
  queue,      \* the Queue objects built so far: the verdict of init(), its life,
              \* its scheduler, the errors whose line waits, the lines written
  cache,      \* the object get() hands out for a name
  refusalWritten,
  reading,    \* the object each reader's pass runs on
  forgotten,  \* the objects forget() is closing
  closing,    \* where closeOnce is
  awaited,    \* what closeOnce waits for: readers, then objects
  forgetting, \* the forgotten closes it waits for beside them
  expired,    \* which of its two bounded waits have run out
  marked      \* the mark on the errors of the shared client

closeVars == <<closing, awaited, forgetting, expired, marked>>
vars == <<queue, cache, refusalWritten, reading, forgotten, closeVars>>

Init ==
  /\ queue = <<>> /\ cache = [n \in Names |-> NoQueue]
  /\ refusalWritten = {} /\ reading = [r \in Readers |-> NoQueue]
  /\ forgotten = {}
  /\ closing = "no" /\ awaited = {} /\ forgetting = {} /\ expired = {}
  /\ marked = TRUE

closed == closing # "no"

-----------------------------------------------------------------------------
(* get and use *)

Fresh(n) ==
  [name |-> n, verdict |-> "pending", life |-> "open", scheduler |-> "none",
   timers |-> {}, lines |-> {}]

HandsOut_Fault == closing # "over"
HandsOut == ~closed

\* get: refused once closed, the cached object, or a new one put in the cache.
Get(n) ==
  /\ HandsOut
  /\ \/ /\ cache[n] # NoQueue
        /\ UNCHANGED <<queue, cache>>
     \/ /\ cache[n] = NoQueue /\ Len(queue) < MaxQueues
        /\ queue' = Append(queue, Fresh(n))
        /\ cache' = [cache EXCEPT ![n] = Len(queue) + 1]

\* A writer asks for the queue at the moment of the write.
GetForWrite(n) ==
  /\ Get(n)
  /\ UNCHANGED <<refusalWritten, reading, forgotten, closeVars>>

Use(r, n) ==
  /\ reading[r] = NoQueue
  /\ Get(n)
  /\ reading' = [reading EXCEPT ![r] = cache'[n]]
  /\ UNCHANGED <<refusalWritten, forgotten, closeVars>>

ReadEnds(r) ==
  /\ reading[r] # NoQueue
  /\ reading' = [reading EXCEPT ![r] = NoQueue]
  /\ UNCHANGED <<queue, cache, refusalWritten, forgotten, closeVars>>

-----------------------------------------------------------------------------
(* FactoryQueue: close() and the scheduler *)

\* close() begins: the scheduler that is there is closed with the queue.
Closing(state) ==
  [state EXCEPT !.life = "closing",
                !.scheduler = IF @ = "there" THEN "closing" ELSE @]

Set(i, state) == queue' = [queue EXCEPT ![i] = state]
OnlyQueue == UNCHANGED <<cache, refusalWritten, reading, forgotten, closeVars>>

\* The getter awaits init() and then the client.
AskScheduler(i) ==
  /\ queue[i].scheduler = "none" /\ queue[i].life = "open"
  /\ Set(i, [queue[i] EXCEPT !.scheduler = "asked"])
  /\ OnlyQueue

\* One that comes once close() has begun is closed at once, and not awaited.
SchedulerComes(i) ==
  /\ queue[i].scheduler = "asked" /\ queue[i].verdict = "ready"
  /\ Set(i, [queue[i] EXCEPT !.scheduler =
               IF queue[i].life = "open" THEN "there" ELSE "late"])
  /\ OnlyQueue

SchedulerCloses(i) ==
  /\ queue[i].scheduler \in {"closing", "late"}
  /\ Set(i, [queue[i] EXCEPT !.scheduler = "closed"])
  /\ OnlyQueue

\* The queue after its scheduler, whichever way that one went.
QueueCloses(i) ==
  /\ queue[i].life = "closing" /\ queue[i].scheduler # "closing"
  /\ Set(i, [queue[i] EXCEPT !.life = "closed"])
  /\ forgotten' = forgotten \ {i}
  /\ UNCHANGED <<cache, refusalWritten, reading, closeVars>>

-----------------------------------------------------------------------------
(* The verdict on init() and the lines about errors *)

InitReady(i) ==
  /\ queue[i].verdict = "pending"
  /\ Set(i, [queue[i] EXCEPT !.verdict = "ready"])
  /\ OnlyQueue

\* A refusal by a connection failure or over the credentials has no line of
\* its own; one by Redis itself is a defect of the setup, written once per name.
WritesRefusal(i, defect) ==
  /\ ~ReadOnly /\ ~closed /\ defect
  /\ cache[queue[i].name] = i
  /\ queue[i].name \notin refusalWritten

\* BullMQ emits the refusal as an error ahead of the verdict, so its timer is
\* set; then the verdict is taken, the line written and the queue forgotten.
InitRefused_Fault(i, defect) ==
  LET written == WritesRefusal(i, defect)
      known == [queue[i] EXCEPT
                  !.verdict = "refused",
                  !.timers = @ \cup {"init"},
                  !.lines = IF written THEN @ \cup {"init refused"} ELSE @]
  IN
  /\ queue[i].verdict = "pending"
  /\ refusalWritten' = IF written THEN refusalWritten \cup {queue[i].name}
                                  ELSE refusalWritten
  /\ Set(i, known)
  /\ UNCHANGED <<cache, forgotten, reading, closeVars>>
InitRefused(i, defect) ==
  LET written == WritesRefusal(i, defect)
      known == [queue[i] EXCEPT
                  !.verdict = "refused",
                  !.timers = @ \cup {"init"},
                  !.lines = IF written THEN @ \cup {"init refused"} ELSE @]
  IN
  /\ queue[i].verdict = "pending"
  /\ refusalWritten' = IF written THEN refusalWritten \cup {queue[i].name}
                                  ELSE refusalWritten
  /\ IF cache[queue[i].name] = i
     THEN /\ cache' = [cache EXCEPT ![queue[i].name] = NoQueue]
          /\ forgotten' = forgotten \cup {i}
          /\ Set(i, Closing(known))
     ELSE /\ UNCHANGED <<cache, forgotten>>
          /\ Set(i, known)
  /\ UNCHANGED <<reading, closeVars>>

\* writeQueueError: silent once closed, and about the queue's refused init().
WriteQueueError_Fault(state, err) ==
  IF closed THEN state
  ELSE [state EXCEPT !.lines = @ \cup
          {IF err = "init" THEN "init as error" ELSE "other error"}]
WriteQueueError(state, err) ==
  IF closed \/ (err = "init" /\ state.verdict = "refused") THEN state
  ELSE [state EXCEPT !.lines = @ \cup
          {IF err = "init" THEN "init as error" ELSE "other error"}]

\* Any other error of a Queue: at once when the verdict is in, else by timer.
QueueErrs(i) ==
  /\ queue[i].life # "closed"
  /\ Set(i, IF queue[i].verdict = "pending"
            THEN [queue[i] EXCEPT !.timers = @ \cup {"other"}]
            ELSE WriteQueueError(queue[i], "other"))
  /\ OnlyQueue

\* INIT_VERDICT_MS after the error.  The verdict on an init() already refused
\* is microtasks away, so it is in by then.
VerdictTimer(i) ==
  /\ \E err \in queue[i].timers :
       Set(i, WriteQueueError([queue[i] EXCEPT !.timers = @ \ {err}], err))
  /\ OnlyQueue

-----------------------------------------------------------------------------
(* close *)

ReadsInFlight == {r \in Readers : reading[r] # NoQueue}

Close ==
  /\ closing = "no"
  /\ closing' = "reads"
  /\ awaited' = ReadsInFlight
  /\ UNCHANGED <<queue, cache, refusalWritten, reading, forgotten, forgetting,
                 expired, marked>>

\* One of the two bounded waits runs out.
WaitExpires_Fault(wait) ==
  /\ wait = "reads" /\ closing = "reads"
  /\ expired' = expired \cup {wait}
  /\ UNCHANGED <<queue, cache, refusalWritten, reading, forgotten, closing,
                 awaited, forgetting, marked>>
WaitExpires(wait) ==
  /\ \/ wait = "reads" /\ closing = "reads"
     \/ wait = "forgotten" /\ closing = "queues"
  /\ expired' = expired \cup {wait}
  /\ UNCHANGED <<queue, cache, refusalWritten, reading, forgotten, closing,
                 awaited, forgetting, marked>>

\* The reads are over, or their time is: what is cached is closed, and the
\* forgotten ones are read, in one go.
CloseCached ==
  /\ closing = "reads"
  /\ "reads" \in expired \/ \A r \in awaited : reading[r] = NoQueue
  /\ closing' = "queues"
  /\ awaited' = {cache[n] : n \in Names} \ {NoQueue}
  /\ queue' = [i \in DOMAIN queue |->
                 IF i \in awaited' THEN Closing(queue[i]) ELSE queue[i]]
  /\ cache' = [n \in Names |-> NoQueue]
  /\ forgetting' = forgotten
  /\ UNCHANGED <<refusalWritten, reading, forgotten, expired, marked>>

\* Every cached queue has answered, whatever the answer; the mark goes last.
CloseEnds ==
  /\ closing = "queues"
  /\ \A i \in awaited : queue[i].life = "closed"
  /\ "forgotten" \in expired \/ forgetting \cap forgotten = {}
  /\ closing' = "over"
  /\ marked' = FALSE
  /\ UNCHANGED <<queue, cache, refusalWritten, reading, forgotten, awaited,
                 forgetting, expired>>

Next ==
  \/ \E n \in Names : GetForWrite(n)
  \/ \E r \in Readers : (\E n \in Names : Use(r, n)) \/ ReadEnds(r)
  \/ \E i \in DOMAIN queue :
       \/ AskScheduler(i) \/ SchedulerComes(i) \/ SchedulerCloses(i)
       \/ QueueCloses(i)
       \/ InitReady(i) \/ \E defect \in BOOLEAN : InitRefused(i, defect)
       \/ QueueErrs(i) \/ VerdictTimer(i)
  \/ Close \/ CloseCached \/ CloseEnds
  \/ \E wait \in {"reads", "forgotten"} : WaitExpires(wait)

SafetySpec == Init /\ [][Next]_vars

\* The waits are timers.  A cached queue is assumed to answer its close; reads
\* and forgotten queues are owed nothing, they may hang.
CachedCloses(i) ==
  i \in awaited /\ closing = "queues" /\ (QueueCloses(i) \/ SchedulerCloses(i))

Spec ==
  /\ SafetySpec
  /\ WF_vars(CloseCached) /\ WF_vars(CloseEnds)
  /\ \A wait \in {"reads", "forgotten"} : WF_vars(WaitExpires(wait))
  /\ \A i \in 1 .. MaxQueues : WF_vars(i \in DOMAIN queue /\ CachedCloses(i))

-----------------------------------------------------------------------------
(* What the factory promises *)

\* get never hands out a queue whose init() is known to be refused, or one
\* that is being closed; and no queue is closed under a read, unless the read
\* outlived its bounded wait or is about to hear that the init() was refused.
InUseIsOpen ==
  /\ \A n \in Names : cache[n] # NoQueue =>
       /\ queue[cache[n]].name = n
       /\ queue[cache[n]].verdict # "refused"
       /\ queue[cache[n]].life = "open"
  /\ \A r \in Readers : reading[r] # NoQueue =>
       LET state == queue[reading[r]] IN
       state.life # "open" => state.verdict = "refused" \/ "reads" \in expired

\* Nothing outlives its close: a scheduler not its queue, whenever it came; and
\* once close() is over, nothing the factory built still hears the client,
\* except a forgotten queue whose close outlived its bounded wait.
NoQueueLeft ==
  \A i \in DOMAIN queue :
    /\ queue[i].life = "closed" => queue[i].scheduler \notin {"there", "closing"}
    /\ ~marked => \/ queue[i].life = "closed"
                  \/ i \in forgotten /\ "forgotten" \in expired

\* A refused init() is told once per name, and never as an error of its queue.
InitToldOnce ==
  /\ \A i \in DOMAIN queue : "init as error" \notin queue[i].lines
  /\ \A i, j \in DOMAIN queue :
       /\ queue[i].name = queue[j].name
       /\ "init refused" \in queue[i].lines \cap queue[j].lines
       => i = j

\* A close that began ends, however many reads and forgotten queues hang.
CloseIsBounded == closed ~> closing = "over"
=============================================================================
