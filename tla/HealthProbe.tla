---------------------------- MODULE HealthProbe ----------------------------
(***************************************************************************)
(* The polls of /health over one probe handle: the db half of              *)
(* createHealthProbes (apps/api/src/lib/health.ts), the call its polls     *)
(* share (single-flight.ts) and the deadline each has of its own           *)
(* (withDeadline), above ProbeDb.  The budget section of the status page   *)
(* reads its own handle the same way (apps/api/src/lib/budget.ts).         *)
(*                                                                         *)
(* What a handle promises, it promises to calls that do not share: the     *)
(* callers outside Flight come to it with calls of their own.              *)
(***************************************************************************)
EXTENDS ProbeDb

CONSTANTS
  Polls,
  Flight,   \* the caller whose call the polls share
  Deadline  \* DEPENDENCY_TIMEOUT_MS

ASSUME HealthAssumption == Flight \in Callers /\ Deadline \in Nat \ {0}

VARIABLES
  poll,
  healthy,  \* whether the database answers whatever reaches it at once
  calm      \* history: since when it was asked in good health, in ticks + 1

healthVars == <<probeVars, poll, healthy, calm>>

\* More than a whole limit has passed.
Settled == Limit + 2

HealthInit ==
  /\ ProbeInit
  /\ poll = [p \in Polls |-> [state |-> "idle", age |-> 0, sure |-> FALSE]]
  /\ healthy \in BOOLEAN /\ calm = 0

Pending == {p \in Polls : poll[p].state = "waiting"}

\* singleFlight: the call that has not settled is the call of everyone.
InFlight == Flight \in Waiting

\* Whoever shares a settled call is told before anything else runs.
Over == Pending # {} /\ ~InFlight

\* A poll joins the call in flight, or starts one.  The app stage has drained
\* the polls before the handles are closed: none comes once close() has begun.
Ask(p) ==
  /\ p \notin Pending /\ closing = "no" /\ ~Over
  /\ IF InFlight THEN UNCHANGED probeVars ELSE Run(Flight)
  /\ poll' = [poll EXCEPT ![p] = [state |-> "waiting", age |-> 0,
                                  sure |-> healthy /\ calm = Settled]]
  /\ calm' = IF healthy /\ calm = 0 THEN 1 ELSE calm
  /\ UNCHANGED healthy

AskDirectly(c) ==
  /\ c # Flight /\ ~Over
  /\ Run(c)
  /\ UNCHANGED <<poll, healthy, calm>>

CallAnswers ==
  /\ Over
  /\ poll' = [p \in Polls |-> IF p \in Pending
       THEN [poll[p] EXCEPT !.age = 0,
               !.state = IF call[Flight].state = "answered" THEN "up" ELSE "down"]
       ELSE poll[p]]
  /\ UNCHANGED <<probeVars, healthy, calm>>

\* withDeadline: the poll is over, the call is not.
GivesUp(p) ==
  /\ p \in Pending /\ ~Over /\ poll[p].age = Deadline
  /\ poll' = [poll EXCEPT ![p].state = "down", ![p].age = 0]
  /\ UNCHANGED <<probeVars, healthy, calm>>

HealthTick ==
  /\ ~Over /\ Tick
  /\ \A p \in Pending : poll[p].age < Deadline
  /\ ~(healthy /\ Underway)
  /\ poll' = [p \in Polls |-> IF p \in Pending THEN [poll[p] EXCEPT !.age = @ + 1]
                                               ELSE poll[p]]
  /\ calm' = IF calm \in 1 .. Settled - 1 THEN calm + 1 ELSE calm
  /\ UNCHANGED healthy

\* What is there answers; what fell silent before stays silent.
InGoodHealth ==
  /\ ~Over
  /\ Connects \/ FirstEnds("answered") \/ (~healthy /\ Outside)
  /\ UNCHANGED <<poll, healthy, calm>>

Breaks ==
  /\ healthy /\ ~Over
  /\ healthy' = FALSE /\ calm' = 0
  /\ poll' = [p \in Polls |-> [poll[p] EXCEPT !.sure = FALSE]]
  /\ UNCHANGED probeVars

Heals ==
  /\ ~healthy /\ ~Over
  /\ healthy' = TRUE
  /\ UNCHANGED <<probeVars, poll, calm>>

HandleStep ==
  /\ ~Over
  /\ Handle \/ (Pending = {} /\ CloseHandle)
  /\ UNCHANGED <<poll, healthy, calm>>

HealthNext ==
  \/ \E p \in Polls : Ask(p) \/ GivesUp(p)
  \/ \E c \in Callers : AskDirectly(c)
  \/ CallAnswers \/ HandleStep \/ InGoodHealth \/ HealthTick \/ Breaks \/ Heals

\* Timers fire and the driver ends what it is told to end at once; a silent
\* connection owes nothing.  Health may come and go between two ticks: time
\* passes all the same, and a server that is there ends a statement by its bound.
HealthSpec ==
  /\ HealthInit /\ [][HealthNext]_healthVars
  /\ WF_healthVars(CallAnswers) /\ SF_healthVars(HealthTick)
  /\ \A p \in Polls : WF_healthVars(GivesUp(p))
  /\ WF_healthVars(HandleStep /\ Handle)
  /\ WF_healthVars(InGoodHealth /\ healthy)
  /\ SF_healthVars(InGoodHealth /\ spent = ServerBound /\ FirstEnds("failed"))

-----------------------------------------------------------------------------

\* A database that is back is seen to be back: within one limit of the first
\* poll after it, a poll is answered up, though the connection it had been
\* asked over will never answer.
RecoveryIsSeen == \A p \in Polls : poll[p].state = "down" => ~poll[p].sure
=============================================================================
