--------------------------- MODULE MigrationLock ---------------------------
(***************************************************************************)
(* The runners of the migrations: withMigrationLock of                     *)
(* packages/db/src/migration-lock.ts around the migrator of migrate.ts,    *)
(* and the entry point that seeds after it (cli/run.ts).                   *)
(*                                                                         *)
(* Each phase is one statement of a runner, about to be sent or answered,  *)
(* and each statement succeeds, is rejected, or is lost with its session.  *)
(* Postgres is external: an advisory lock belongs to a session, counts its *)
(* holds, and goes with the session, as its settings do; the driver opens  *)
(* a new session by itself for the statement after a loss.                 *)
(***************************************************************************)
EXTENDS Integers

CONSTANTS
  Runners,
  Migrations  \* how many migrations the release carries

ASSUME MigrationAssumption == Migrations \in Nat \ {0}

VARIABLES
  run,      \* each runner: its phase, its session, what it knows
  journal,  \* how many migrations are applied
  seeded,
  idleLoss  \* whether sessions may be replaced between two statements

vars == <<run, journal, seeded, idleLoss>>

Body == {"count", "read journal", "apply", "recount"}
Release == {"unlock", "client_min_messages", "timeouts"}
After == {"seed", "close"}
Phases == {"read_session", "lock_wait", "lock", "cleanup unlock",
           "cleanup timeouts", "timeouts_after_lock", "quiet_notices"}
          \cup Body \cup Release \cup After \cup {"over"}

RunnerStates == [
  phase : Phases,
  held : 0 .. 2,                    \* how often its session holds the lock
  timeouts : {"caller", "wait"},
  notices : {"caller", "quiet"},
  heldLock : {"free", "held"},      \* read_session: the lock before the run
  brought : {"nothing", "lock", "lost"},  \* history: whether it did hold it
  before : 0 .. Migrations,
  applied : 0 .. Migrations,
  seen : 0 .. Migrations,
  reported : SUBSET Release,
  error : {"none", "busy", "conflict", "other", "close"}]

TypeOK ==
  /\ run \in [Runners -> RunnerStates]
  /\ journal \in 0 .. Migrations
  /\ seeded \in BOOLEAN /\ idleLoss \in BOOLEAN

Fresh(held) ==
  [phase |-> "read_session", held |-> held, timeouts |-> "caller",
   notices |-> "caller", heldLock |-> "free",
   brought |-> IF held > 0 THEN "lock" ELSE "nothing",
   before |-> 0, applied |-> 0, seen |-> 0, reported |-> {}, error |-> "none"]

\* One caller's session may hold the lock already.  An earlier release may have
\* applied the first few migrations.
Init ==
  /\ \/ run = [r \in Runners |-> Fresh(0)]
     \/ \E holder \in Runners :
          run = [r \in Runners |-> Fresh(IF r = holder THEN 1 ELSE 0)]
  /\ journal \in 0 .. Migrations
  /\ seeded = FALSE /\ idleLoss \in BOOLEAN

-----------------------------------------------------------------------------
(* Statements *)

At(r, phase) == run[r].phase = phase
To(r, state) == run' = [run EXCEPT ![r] = state] /\ UNCHANGED idleLoss
Go(r, phase) == [run[r] EXCEPT !.phase = phase]

\* What is left of a runner's session once it is lost: a new one.
Replaced(state) ==
  [state EXCEPT !.held = 0, !.timeouts = "caller", !.notices = "caller",
                !.brought = IF @ = "lock" THEN "lost" ELSE @]

\* A statement fails: rejected on a live session, or lost with it.
Fails(r, state) ==
  /\ To(r, state) \/ To(r, Replaced(state))
  /\ UNCHANGED seeded

Quietly == UNCHANGED <<journal, seeded>>

\* The failure of the run, thrown on: the caller's own end comes next.
Thrown(r, phase, error) == [Go(r, phase) EXCEPT !.error = error]

ReadSession(r) ==
  /\ At(r, "read_session")
  /\ \/ To(r, [Go(r, "lock_wait") EXCEPT
                 !.heldLock = IF run[r].held > 0 THEN "held" ELSE "free"])
     \/ Fails(r, Thrown(r, "close", "other"))
  /\ Quietly

LockWait_Fault(r) ==
  /\ At(r, "lock_wait")
  /\ \/ To(r, Go(r, "lock"))
     \/ Fails(r, Thrown(r, "close", "other"))
  /\ Quietly
LockWait(r) ==
  /\ At(r, "lock_wait")
  /\ \/ To(r, [Go(r, "lock") EXCEPT !.timeouts = "wait"])
     \/ Fails(r, Thrown(r, "close", "other"))
  /\ Quietly

LockFree(r) == \A other \in Runners \ {r} : run[other].held = 0

Granted(r) == [Go(r, "timeouts_after_lock") EXCEPT !.held = @ + 1]

Lock(r) ==
  /\ At(r, "lock") /\ LockFree(r)
  /\ To(r, Granted(r))
  /\ Quietly

\* The cleanup of a failed attempt starts with the unlock, but not on a session
\* that held the lock before.
Cleanup_Fault(r) == "cleanup unlock"
Cleanup(r) ==
  IF run[r].heldLock = "held" THEN "cleanup timeouts" ELSE "cleanup unlock"

\* lock_timeout of a session that has it from lock_wait: on any other the wait is
\* the server's, without a limit.  55P03 is the one failure that names a busy lock.
LockTimesOut_Quiet(r) ==
  /\ At(r, "lock") /\ ~LockFree(r) /\ run[r].timeouts = "wait"
  /\ To(r, Go(r, "timeouts_after_lock"))
  /\ Quietly
LockTimesOut(r) ==
  /\ At(r, "lock") /\ ~LockFree(r) /\ run[r].timeouts = "wait"
  /\ To(r, Thrown(r, Cleanup(r), "busy"))
  /\ Quietly

\* A cancel, or a lost connection; a cancel may land as the lock is granted.
LockFails(r) ==
  /\ At(r, "lock")
  /\ \/ Fails(r, Thrown(r, Cleanup(r), "other"))
     \/ LockFree(r) /\ To(r, [Thrown(r, Cleanup(r), "other") EXCEPT !.held = @ + 1])
  /\ Quietly

\* pg_advisory_unlock over the row of pg_locks: one hold, if there is one.
Unlocked(state) == [state EXCEPT !.held = IF @ > 0 THEN @ - 1 ELSE 0]
Restored(state) == [state EXCEPT !.timeouts = "caller"]
Reported(state, step) == [state EXCEPT !.reported = @ \cup {step}]

\* until_failure: the first step that fails ends the cleanup.
CleanupUnlock(r) ==
  /\ At(r, "cleanup unlock")
  /\ \/ To(r, Unlocked(Go(r, "cleanup timeouts")))
     \/ Fails(r, Reported(Go(r, "close"), "unlock"))
  /\ Quietly

CleanupTimeouts(r) ==
  /\ At(r, "cleanup timeouts")
  /\ \/ To(r, Restored(Go(r, "close")))
     \/ Fails(r, Reported(Go(r, "close"), "timeouts"))
  /\ Quietly

-----------------------------------------------------------------------------
(* The run under the lock *)

TimeoutsAfterLock(r) ==
  /\ At(r, "timeouts_after_lock")
  /\ \/ To(r, Restored(Go(r, "quiet_notices")))
     \/ Fails(r, Thrown(r, "unlock", "other"))
  /\ Quietly

QuietNotices(r) ==
  /\ At(r, "quiet_notices")
  /\ \/ To(r, [Go(r, "count") EXCEPT !.notices = "quiet"])
     \/ Fails(r, Thrown(r, "unlock", "other"))
  /\ Quietly

Count(r) ==
  /\ At(r, "count")
  /\ \/ To(r, [Go(r, "read journal") EXCEPT !.before = journal])
     \/ Fails(r, Thrown(r, "unlock", "other"))
  /\ Quietly

\* drizzle reads the journal before it opens its transaction.
ReadJournal(r) ==
  /\ At(r, "read journal")
  /\ \/ To(r, [Go(r, "apply") EXCEPT !.seen = journal])
     \/ Fails(r, Thrown(r, "unlock", "other"))
  /\ Quietly

\* One transaction: everything not seen is applied and journalled, or nothing
\* is.  What another runner has applied since is there already.  A connection
\* lost under the commit may have committed.
Apply(r) ==
  /\ At(r, "apply")
  /\ IF run[r].seen < journal
     THEN /\ To(r, Thrown(r, "unlock", "conflict"))
          /\ UNCHANGED journal
     ELSE \/ To(r, Go(r, "recount")) /\ journal' = Migrations
          \/ Fails(r, Thrown(r, "unlock", "other")) /\ UNCHANGED journal
          \/ /\ To(r, Replaced(Thrown(r, "unlock", "other")))
             /\ journal' = Migrations
  /\ UNCHANGED seeded

Recount_Fault(r) ==
  /\ At(r, "recount")
  /\ \/ To(r, [Go(r, "unlock") EXCEPT !.applied = journal])
     \/ Fails(r, Thrown(r, "unlock", "other"))
  /\ Quietly
Recount(r) ==
  /\ At(r, "recount")
  /\ \/ To(r, [Go(r, "unlock") EXCEPT
                 !.applied = journal - run[r].before])
     \/ Fails(r, Thrown(r, "unlock", "other"))
  /\ Quietly

-----------------------------------------------------------------------------
(* Putting the session back, and what the entry point does then *)

\* every_step: each is tried, whatever became of the one before.
ReleaseUnlock(r) ==
  /\ At(r, "unlock")
  /\ \/ To(r, Unlocked(Go(r, "client_min_messages")))
     \/ Fails(r, Reported(Go(r, "client_min_messages"), "unlock"))
  /\ Quietly

ReleaseNotices(r) ==
  /\ At(r, "client_min_messages")
  /\ \/ To(r, [Go(r, "timeouts") EXCEPT !.notices = "caller"])
     \/ Fails(r, Reported(Go(r, "timeouts"), "client_min_messages"))
  /\ Quietly

\* runSetupCli: the seed follows a run that did not throw.
AfterRelease(r) == IF run[r].error = "none" THEN "seed" ELSE "close"

ReleaseTimeouts_Fault(r) ==
  /\ At(r, "timeouts")
  /\ To(r, Go(r, AfterRelease(r)))
  /\ Quietly
ReleaseTimeouts(r) ==
  /\ At(r, "timeouts")
  /\ \/ To(r, Restored(Go(r, AfterRelease(r))))
     \/ Fails(r, Reported(Go(r, AfterRelease(r)), "timeouts"))
  /\ Quietly

Seed(r) ==
  /\ At(r, "seed")
  /\ \/ To(r, Go(r, "close")) /\ seeded' = TRUE
     \/ Fails(r, Thrown(r, "close", "other"))
  /\ UNCHANGED journal

\* withCleanup: the failure of the run hides the failure of the close.
Close(r) ==
  /\ At(r, "close")
  /\ \/ To(r, Replaced(Go(r, "over")))
     \/ To(r, Replaced([Go(r, "over") EXCEPT
                          !.error = IF @ = "none" THEN "close" ELSE @]))
  /\ Quietly

\* The process dies, and its session with it.
Crash(r) ==
  /\ ~At(r, "over")
  /\ To(r, Replaced(Thrown(r, "over", "other")))
  /\ Quietly

\* postgres-js replaces a connection that was lost, or grew old, while idle: before
\* the statement of any phase is sent.  One that waits for its answer fails with
\* its session instead.
SessionReplaced(r) ==
  /\ idleLoss /\ ~At(r, "over")
  /\ To(r, Replaced(run[r]))
  /\ Quietly

-----------------------------------------------------------------------------

Statement(r) ==
  \/ ReadSession(r) \/ LockWait(r) \/ Lock(r) \/ LockTimesOut(r) \/ LockFails(r)
  \/ CleanupUnlock(r) \/ CleanupTimeouts(r) \/ TimeoutsAfterLock(r)
  \/ QuietNotices(r) \/ Count(r) \/ ReadJournal(r) \/ Apply(r) \/ Recount(r)
  \/ ReleaseUnlock(r) \/ ReleaseNotices(r) \/ ReleaseTimeouts(r)
  \/ Seed(r) \/ Close(r)

Next == \E r \in Runners : Statement(r) \/ Crash(r) \/ SessionReplaced(r)

SafetySpec == Init /\ [][Next]_vars

\* lock_timeout is Postgres's own timer.  A runner inside its run is owed
\* nothing: it may hold the lock for good.
Spec ==
  SafetySpec /\ \A r \in Runners : /\ WF_vars(Lock(r) \/ LockTimesOut(r))
                                 /\ WF_vars(CleanupUnlock(r))
                                 /\ WF_vars(CleanupTimeouts(r))

-----------------------------------------------------------------------------
(* What the lock is for *)

\* While sessions stay theirs, no runner fails on what another has applied in the
\* meantime: the second of two waits, and then finds nothing to apply.
NoConflict == ~idleLoss => \A r \in Runners : run[r].error # "conflict"

\* While sessions stay theirs, each runner reports the migrations it applied
\* itself.
OutcomeIsOwn ==
  ~idleLoss => \A r \in Runners :
    run[r].phase \in Release \cup {"seed"} /\ run[r].error = "none"
      => run[r].applied = Migrations - run[r].seen

\* The caller gets its session back as it was: the lock it brought, no other,
\* and its settings - or is told by name of a step that failed.
SessionPutBack ==
  \A r \in Runners : run[r].phase \in After =>
    /\ run[r].held > 0 => run[r].brought # "nothing" \/ run[r].reported # {}
    /\ run[r].timeouts # "caller" => run[r].reported # {}
    /\ run[r].notices # "caller" => run[r].reported # {}

\* The lock a caller brought outlives the run and a failed attempt alike.
OwnLockKept ==
  \A r \in Runners : run[r].brought = "lock" => run[r].held > 0

\* migrate.ts: "a single connection keeps the advisory lock and the migration on
\* one session" - whoever migrates holds the lock.
LockHeldThroughout ==
  \A r \in Runners : run[r].phase \in Body => run[r].held > 0

\* A seed is only ever written to a database the migrations are on.
SeedFollows == seeded => journal = Migrations

AtTheLock(r) == run[r].phase \in {"lock", "cleanup unlock", "cleanup timeouts"}

\* migration-lock.ts:275: a wait for the lock ends, though its holder never does -
\* unless the session that was to wait has been replaced since it was given its
\* lock_timeout: the new one has none.
WaitEnds ==
  \A r \in Runners : At(r, "lock") ~>
    ~AtTheLock(r) \/ (idleLoss /\ At(r, "lock") /\ run[r].timeouts = "caller")
=============================================================================
