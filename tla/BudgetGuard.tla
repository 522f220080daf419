---------------------------- MODULE BudgetGuard ----------------------------
(***************************************************************************)
(* The fuse before a paid call: packages/db/src/budget.ts over the pure     *)
(* state of packages/core/src/domain/budget.ts, with the worker's Redis    *)
(* cache (apps/worker/src/lib/budget.ts), the journal its checks sum       *)
(* (usage-logger.ts) and what a refusal does to a job (define-job.ts).     *)
(*                                                                         *)
(* One scope and the jobs that spend on it.  The commands of the worker    *)
(* share one connection: Redis answers them in the order they were given,  *)
(* whenever it can, and a command whose deadline has passed is still on    *)
(* its way.  The database answers each job on its own.                     *)
(***************************************************************************)
EXTENDS Integers, Sequences, FiniteSets, FiniteSetsExt

CONSTANTS
  Jobs,
  Caps,        \* the caps of successive deployments
  Costs,       \* the prices of calls, in parts of the column's unit
  Scale,       \* how many parts the unit has
  Attempts,    \* how many attempts a job has
  MaxTotal,    \* bound: the total the journal may reach
  MaxPeriods,  \* bound: periods
  MaxWire      \* bound: commands on their way to Redis

ASSUME BudgetAssumption ==
  /\ IsFiniteSet(Jobs) /\ IsFiniteSet(Caps) /\ IsFiniteSet(Costs)
  /\ Caps \subseteq Nat \ {0} /\ Costs \subseteq Nat /\ Costs # {}
  /\ {Scale, Attempts, MaxPeriods} \subseteq Nat \ {0}
  /\ {MaxTotal, MaxWire} \subseteq Nat

VARIABLES
  hasCache,   \* whether the guard was given a cache
  cap,        \* the cap of the running deployment
  journal,    \* what the providers of the scope have spent in the period
  period,
  cache,      \* the key of the scope in Redis
  wire,       \* commands given to Redis and not executed yet
  phase, attemptsMade, cost,
  answer,     \* the total a job's check was decided on
  begun       \* history: the total, and the period, when its check began

redisVars == <<cache, wire>>
jobVars == <<phase, attemptsMade, cost, answer, begun>>
guardVars == <<hasCache, cap>>
vars == <<guardVars, journal, period, redisVars, jobVars>>

\* A total carries, for the properties, the period it was counted in; the key
\* and the value in Redis carry none.
TotalOf(spent, warn) == [kind |-> "total", spent |-> spent, warn |-> warn,
                         at |-> period]
NoTotal == [kind |-> "none", spent |-> 0, warn |-> FALSE, at |-> 0]
Unreadable == [NoTotal EXCEPT !.kind = "unreadable"]

Active == {"reading", "counting", "counted", "writing", "cleared", "paid"}

NotBegun == [spent |-> 0, at |-> 0]

\* The key in Redis may be of an earlier release, with another shape.
Init ==
  /\ hasCache \in BOOLEAN /\ cap \in Caps
  /\ journal = 0 /\ period = 1
  /\ cache \in {NoTotal, Unreadable} /\ wire = <<>>
  /\ phase = [j \in Jobs |-> "idle"]
  /\ attemptsMade = [j \in Jobs |-> 0] /\ cost = [j \in Jobs |-> 0]
  /\ answer = [j \in Jobs |-> NoTotal] /\ begun = [j \in Jobs |-> NotBegun]

-----------------------------------------------------------------------------
(* The pure part *)

\* budgetState: neither flag divides, so neither is lost to rounding.
Exceeded_Fault(spent, limit) == spent > limit
Exceeded(spent, limit) == spent >= limit
Warns(spent, limit) == spent * 5 >= limit * 4

\* toCostUsdColumn: up to the unit of the column, and nothing stays nothing.
ToColumn(parts) == (parts + Scale - 1) \div Scale

-----------------------------------------------------------------------------
(* An attempt and its check *)

AttemptsLeft(made) == made < Attempts

\* An attempt that throws: BullMQ runs the job again while attempts are left.
Thrown(j) ==
  LET made == attemptsMade[j] + 1 IN
  /\ attemptsMade' = [attemptsMade EXCEPT ![j] = made]
  /\ phase' = [phase EXCEPT ![j] = IF AttemptsLeft(made) THEN "idle"
                                                         ELSE "failed"]
  /\ cost' = [cost EXCEPT ![j] = 0]
  /\ answer' = [answer EXCEPT ![j] = NoTotal]
  /\ begun' = [begun EXCEPT ![j] = NotBegun]

\* A provider that has no cap yet cannot be asserted: a ValidationError.
AssertUncapped(j) ==
  /\ phase[j] = "idle"
  /\ Thrown(j)
  /\ UNCHANGED <<guardVars, journal, period, redisVars>>

Command(op, j, total) == [op |-> op, job |-> j, total |-> total]
RoomToBegin ==
  Len(wire) + 2 * Cardinality({j \in Jobs : phase[j] \in Active}) + 2 <= MaxWire

\* assert asks the cache first, if there is one.
Assert(j) ==
  /\ phase[j] = "idle" /\ RoomToBegin
  /\ begun' = [begun EXCEPT ![j] = [spent |-> journal, at |-> period]]
  /\ IF hasCache
     THEN /\ phase' = [phase EXCEPT ![j] = "reading"]
          /\ wire' = Append(wire, Command("get", j, NoTotal))
     ELSE /\ phase' = [phase EXCEPT ![j] = "counting"]
          /\ UNCHANGED wire
  /\ UNCHANGED <<guardVars, journal, period, cache, attemptsMade, cost, answer>>

\* The check is over: exceeded is a refusal no retry follows (define-job turns
\* it into an UnrecoverableError), anything else clears the call.
Decided(j, total) ==
  /\ answer' = [answer EXCEPT ![j] = total]
  /\ phase' = [phase EXCEPT ![j] = IF Exceeded(total.spent, cap) THEN "refused"
                                                                 ELSE "cleared"]

\* cachedSpend: a total may be reused if it was comfortable when it was
\* written, and still is under the cap of today.
Reusable_Fault(total) ==
  total.kind = "total" /\ ~Exceeded(total.spent, cap)
Reusable(total) ==
  total.kind = "total" /\ ~total.warn /\ ~Warns(total.spent, cap)

ReadEnds(j, total) ==
  IF Reusable(total) THEN Decided(j, total)
  ELSE /\ phase' = [phase EXCEPT ![j] = "counting"]
       /\ UNCHANGED answer

\* countSpend: the statement reads the journal at one moment ...
Count(j) ==
  /\ phase[j] = "counting"
  /\ phase' = [phase EXCEPT ![j] = "counted"]
  /\ answer' = [answer EXCEPT ![j] = TotalOf(journal, Warns(journal, cap))]
  /\ UNCHANGED <<guardVars, journal, period, redisVars, attemptsMade, cost, begun>>

CountFails(j) ==
  /\ phase[j] = "counting"
  /\ Thrown(j)
  /\ UNCHANGED <<guardVars, journal, period, redisVars>>

\* ... and its answer comes later; only then is the total given to the cache.
CountArrives(j) ==
  /\ phase[j] = "counted"
  /\ IF hasCache
     THEN /\ phase' = [phase EXCEPT ![j] = "writing"]
          /\ wire' = Append(wire, Command("set", j, answer[j]))
          /\ UNCHANGED answer
     ELSE /\ Decided(j, answer[j])
          /\ UNCHANGED wire
  /\ UNCHANGED <<guardVars, journal, period, cache, attemptsMade, cost, begun>>

-----------------------------------------------------------------------------
(* Redis *)

\* Whether the job still waits for this command: it is its latest one, and its
\* deadline has not passed.
Awaited(command, later) ==
  /\ phase[command.job] = IF command.op = "get" THEN "reading" ELSE "writing"
  /\ \A i \in DOMAIN later : later[i].job # command.job

\* What a job does with the answer to its command, or with the lack of one.
CommandEnds(command, value) ==
  IF command.op = "get" THEN ReadEnds(command.job, value)
                        ELSE Decided(command.job, answer[command.job])

\* Redis executes the next command, or refuses it.
RedisAnswers ==
  /\ wire # <<>>
  /\ LET command == Head(wire)
         refused == UNCHANGED cache
         executed == cache' = IF command.op = "set" THEN command.total ELSE cache
     IN
     \E works \in BOOLEAN :
       /\ IF works THEN executed ELSE refused
       /\ IF Awaited(command, Tail(wire))
          THEN CommandEnds(command, IF works THEN cache ELSE NoTotal)
          ELSE UNCHANGED <<phase, answer>>
  /\ wire' = Tail(wire)
  /\ UNCHANGED <<guardVars, journal, period, attemptsMade, cost, begun>>

\* withTimeout: the job goes on without the answer, the command stays given.
CommandTimesOut_Fault(j) ==
  /\ phase[j] = "writing"
  /\ CommandEnds(Command("set", j, NoTotal), NoTotal)
  /\ UNCHANGED <<guardVars, journal, period, redisVars, attemptsMade, cost, begun>>
CommandTimesOut(j) ==
  /\ phase[j] \in {"reading", "writing"}
  /\ CommandEnds(Command(IF phase[j] = "reading" THEN "get" ELSE "set", j, NoTotal),
                 NoTotal)
  /\ UNCHANGED <<guardVars, journal, period, redisVars, attemptsMade, cost, begun>>

\* The key expires after BUDGET_CACHE_TTL_SEC.
Expires ==
  /\ cache # NoTotal
  /\ cache' = NoTotal
  /\ UNCHANGED <<guardVars, journal, period, wire, jobVars>>

-----------------------------------------------------------------------------
(* The paid call, its row, and what happens around it *)

Pay(j) ==
  /\ phase[j] = "cleared"
  /\ phase' = [phase EXCEPT ![j] = "paid"]
  /\ \E parts \in Costs : cost' = [cost EXCEPT ![j] = parts]
  /\ UNCHANGED <<guardVars, journal, period, redisVars, attemptsMade, answer, begun>>

\* The row is written, and the handler ends or makes its next call.
Record(j) ==
  /\ phase[j] = "paid"
  /\ journal + ToColumn(cost[j]) <= MaxTotal
  /\ journal' = journal + ToColumn(cost[j])
  /\ \E next \in {"idle", "done"} : phase' = [phase EXCEPT ![j] = next]
  /\ cost' = [cost EXCEPT ![j] = 0]
  /\ answer' = [answer EXCEPT ![j] = NoTotal]
  /\ begun' = [begun EXCEPT ![j] = NotBegun]
  /\ UNCHANGED <<guardVars, period, redisVars, attemptsMade>>

\* The call or its row fails: a call already made is paid and never recorded.
CallFails(j) ==
  /\ phase[j] \in {"cleared", "paid"}
  /\ Thrown(j)
  /\ UNCHANGED <<guardVars, journal, period, redisVars>>

\* Midnight in the scope's zone: the window of the sum begins anew.
PeriodEnds ==
  /\ period < MaxPeriods
  /\ period' = period + 1
  /\ journal' = 0
  /\ UNCHANGED <<guardVars, redisVars, jobVars>>

\* The worker dies or is deployed anew: what it had not sent is gone, and
\* BullMQ hands the jobs it held out again.
Redeploy ==
  /\ cap' \in Caps
  /\ wire' = <<>>
  /\ phase' = [j \in Jobs |-> IF phase[j] \in Active THEN "idle" ELSE phase[j]]
  /\ cost' = [j \in Jobs |-> 0]
  /\ answer' = [j \in Jobs |-> IF phase[j] \in Active THEN NoTotal ELSE answer[j]]
  /\ begun' = [j \in Jobs |-> IF phase[j] \in Active THEN NotBegun ELSE begun[j]]
  /\ UNCHANGED <<hasCache, journal, period, cache, attemptsMade>>

JobStep(j) ==
  \/ AssertUncapped(j) \/ Assert(j) \/ Count(j) \/ CountFails(j)
  \/ CountArrives(j) \/ CommandTimesOut(j)
  \/ Pay(j) \/ Record(j) \/ CallFails(j)

Next == (\E j \in Jobs : JobStep(j)) \/ RedisAnswers \/ Expires \/ PeriodEnds
        \/ Redeploy

SafetySpec == Init /\ [][Next]_vars

\* The cache's deadline is a timer, and the database answers or refuses; Redis
\* owes nothing.
Spec ==
  /\ SafetySpec
  /\ \A j \in Jobs : WF_vars(CommandTimesOut(j))
                     /\ WF_vars(Count(j) \/ CountFails(j))
                     /\ WF_vars(CountArrives(j))

-----------------------------------------------------------------------------
(* What the fuse is for *)

\* An answer at or past the warning share is never a stale one: it counts
\* everything recorded before its check began, in that check's period or a
\* later one.  So no job is refused over yesterday's total or a lowered cap.
CloseAnswersAreCurrent ==
  \A j \in Jobs :
    phase[j] \in {"cleared", "refused"} /\ Warns(answer[j].spent, cap) =>
      \/ answer[j].at > begun[j].at
      \/ answer[j].at = begun[j].at /\ answer[j].spent >= begun[j].spent

\* Without the cache the highest cap of the period is overrun by the calls that
\* were under way when it was reached, and by no more; and the journal that is
\* held against the cap never says less than was paid, however cheap the calls
\* are.
OvershootBounded ==
  /\ [](~hasCache => journal < Max(Caps) + Cardinality(Jobs) * ToColumn(Max(Costs)))
  /\ [][\A j \in Jobs : Record(j) => (journal' - journal) * Scale >= cost[j]]_vars

\* A Redis that never answers delays a check and does not hold it.
CheckEnds ==
  \A j \in Jobs : phase[j] = "reading" ~>
    phase[j] \notin {"reading", "counting", "counted", "writing"}

\* redis-keys.ts: the staleness of the cache "is never the staleness that lets
\* a call past the cap" - a call cleared by a cached total is below the cap.
CacheNeverLetsPast ==
  [][\A j \in Jobs : phase[j] = "reading" /\ phase'[j] = "cleared" =>
       journal < cap]_vars
=============================================================================
