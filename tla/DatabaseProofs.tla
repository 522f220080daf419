---------------------------- MODULE DatabaseProofs ---------------------------
(***************************************************************************)
(* Theorems about the two users of the database that must not hang on it   *)
(* or harm it: the runners that migrate it (MigrationLock), for any number *)
(* of runners and migrations, and the probes that ask whether it is there  *)
(* (ProbeDb, HealthProbe), for any callers, polls, clients and bounds.     *)
(*                                                                         *)
(* What is known of a runner is a predicate on its own record and on the   *)
(* journal: Sound whatever becomes of its sessions, LockKept as long as no *)
(* session is replaced behind the runner's back.  A runner only ever       *)
(* changes its own record, so a step is checked against that record alone, *)
(* and the runners meet in two facts: who holds the lock, and that the     *)
(* journal only grows.                                                     *)
(*                                                                         *)
(* The handle of the probes has an invariant of its own (ProbeInv), which  *)
(* every step of ProbeDb keeps whoever calls it.  What the polls add       *)
(* (HealthInv) is a clock: how long the database has been well since it    *)
(* was first asked says how old a call on a silent connection is, and a    *)
(* call that old has reached its limit and taken the connection down.      *)
(***************************************************************************)
EXTENDS MigrationLock, HealthProbe, TLAPS

-----------------------------------------------------------------------------
(* The migrations *)

Asking == {"read_session", "lock_wait", "lock"}
Cleaning == {"cleanup unlock", "cleanup timeouts"}
Holding == {"timeouts_after_lock", "quiet_notices"} \cup Body
Afterwards == Release \cup {"seed"}

\* What a runner knows of the lock its session brought.
LockKnown(s) ==
  /\ s.heldLock = "held" => s.brought # "nothing"
  /\ s.phase = "cleanup unlock" => s.heldLock = "free"
  /\ s.brought = "lock" /\ s.phase \notin {"read_session", "close", "over"} =>
       s.heldLock = "held"

\* How often the session holds the lock, as far as the run has come.
LockCounts(s) ==
  /\ s.phase \in Asking => s.held <= 1
  /\ s.brought = "lock" => s.held >= 1
  /\ s.brought = "lock" /\ s.phase \in Holding \cup {"unlock"} => s.held = 2
  /\ s.brought = "nothing" /\ s.phase \in Asking \cup {"cleanup timeouts"} => s.held = 0
  /\ s.brought = "nothing" /\ s.phase \in Holding \cup {"unlock", "cleanup unlock"} =>
       s.held <= 1
  /\ s.brought = "nothing" /\ s.phase \in {"client_min_messages", "timeouts"} \cup After =>
       s.held = 0 \/ s.reported # {}

\* The settings of a session are the caller's outside the part that sets them.
Settings(s) ==
  /\ s.phase \in {"read_session", "lock_wait", "quiet_notices"} \cup Body \cup After =>
       s.timeouts = "caller" \/ s.reported # {}
  /\ s.phase \notin Body \cup {"unlock", "client_min_messages", "over"} =>
       s.notices = "caller" \/ s.reported # {}

\* What a runner has seen of the journal, which only grows.
Counts(s, j) ==
  /\ s.before <= j
  /\ s.phase \in {"recount"} \cup Afterwards /\ s.error = "none" => j = Migrations
  /\ s.phase = "seed" => s.error = "none"

Sound(s, j) ==
  /\ s \in RunnerStates /\ LockKnown(s) /\ LockCounts(s)
  /\ Settings(s) /\ Counts(s, j)

\* With the lock kept, the journal stands still under the runner that holds it.
LockKept(s, j) ==
  /\ s.phase \in Holding => s.held > 0
  /\ s.phase \in {"read journal", "apply"} => s.before = j
  /\ s.phase = "apply" => s.seen = j
  /\ s.phase = "recount" => s.before = s.seen
  /\ s.phase \in Afterwards /\ s.error = "none" => s.applied = Migrations - s.seen
  /\ s.error # "conflict"

Good(s, j) == Sound(s, j) /\ (~idleLoss => LockKept(s, j))

Exclusive ==
  \A r, other \in Runners : run[r].held > 0 /\ run[other].held > 0 => r = other

IInv ==
  /\ run \in [Runners -> RunnerStates] /\ journal \in 0 .. Migrations
  /\ seeded \in BOOLEAN /\ idleLoss \in BOOLEAN
  /\ \A r \in Runners : Good(run[r], journal)
  /\ Exclusive
  /\ seeded => journal = Migrations

-----------------------------------------------------------------------------
(* Records *)

\* A record of a runner stays one when a field is given a value of its type.
LEMMA Fields ==
  ASSUME NEW s \in RunnerStates
  PROVE  /\ \A v \in Phases : [s EXCEPT !.phase = v] \in RunnerStates
         /\ \A v \in 0 .. 2 : [s EXCEPT !.held = v] \in RunnerStates
         /\ \A v \in {"caller", "wait"} : [s EXCEPT !.timeouts = v] \in RunnerStates
         /\ \A v \in {"caller", "quiet"} : [s EXCEPT !.notices = v] \in RunnerStates
         /\ \A v \in {"free", "held"} : [s EXCEPT !.heldLock = v] \in RunnerStates
         /\ \A v \in 0 .. Migrations : /\ [s EXCEPT !.before = v] \in RunnerStates
                                      /\ [s EXCEPT !.applied = v] \in RunnerStates
                                      /\ [s EXCEPT !.seen = v] \in RunnerStates
         /\ \A v \in SUBSET Release : [s EXCEPT !.reported = v] \in RunnerStates
         /\ \A v \in {"none", "busy", "conflict", "other", "close"} :
              [s EXCEPT !.error = v] \in RunnerStates
         /\ Replaced(s) \in RunnerStates
<1>1. \A v \in Phases : [s EXCEPT !.phase = v] \in RunnerStates
  BY DEF RunnerStates
<1>2. \A v \in 0 .. 2 : [s EXCEPT !.held = v] \in RunnerStates
  BY DEF RunnerStates
<1>3. \A v \in {"caller", "wait"} : [s EXCEPT !.timeouts = v] \in RunnerStates
  BY DEF RunnerStates
<1>4. \A v \in {"caller", "quiet"} : [s EXCEPT !.notices = v] \in RunnerStates
  BY DEF RunnerStates
<1>5. \A v \in {"free", "held"} : [s EXCEPT !.heldLock = v] \in RunnerStates
  BY DEF RunnerStates
<1>6. \A v \in 0 .. Migrations : [s EXCEPT !.before = v] \in RunnerStates
  BY DEF RunnerStates
<1>7. \A v \in 0 .. Migrations : [s EXCEPT !.applied = v] \in RunnerStates
  BY DEF RunnerStates
<1>8. \A v \in 0 .. Migrations : [s EXCEPT !.seen = v] \in RunnerStates
  BY DEF RunnerStates
<1>9. \A v \in SUBSET Release : [s EXCEPT !.reported = v] \in RunnerStates
  BY DEF RunnerStates
<1>10. \A v \in {"none", "busy", "conflict", "other", "close"} :
         [s EXCEPT !.error = v] \in RunnerStates
  BY DEF RunnerStates
<1>11. Replaced(s) \in RunnerStates
  <2> DEFINE a == [s EXCEPT !.held = 0]
             b == [a EXCEPT !.timeouts = "caller"]
             c == [b EXCEPT !.notices = "caller"]
  <2>1. a \in RunnerStates
    BY DEF RunnerStates
  <2>2. b \in RunnerStates
    BY <2>1 DEF RunnerStates
  <2>3. c \in RunnerStates
    BY <2>2 DEF RunnerStates
  <2>4. [c EXCEPT !.brought = IF @ = "lock" THEN "lost" ELSE @] \in RunnerStates
    BY <2>3 DEF RunnerStates
  <2>5. Replaced(s) = [c EXCEPT !.brought = IF @ = "lock" THEN "lost" ELSE @]
    BY DEF Replaced
  <2>6. QED
    BY <2>4, <2>5
<1>12. QED
  BY <1>1, <1>2, <1>3, <1>4, <1>5, <1>6, <1>7, <1>8, <1>9, <1>10, <1>11


\* A runner that goes on to another phase, or fails, keeps everything else.
LEMMA StillGoing ==
  ASSUME NEW r, run[r] \in RunnerStates, NEW p \in Phases
  PROVE  /\ Go(r, p) \in RunnerStates
         /\ Go(r, p).phase = p
         /\ Go(r, p).held = run[r].held
         /\ Go(r, p).timeouts = run[r].timeouts
         /\ Go(r, p).notices = run[r].notices
         /\ Go(r, p).heldLock = run[r].heldLock
         /\ Go(r, p).brought = run[r].brought
         /\ Go(r, p).before = run[r].before
         /\ Go(r, p).applied = run[r].applied
         /\ Go(r, p).seen = run[r].seen
         /\ Go(r, p).reported = run[r].reported
         /\ Go(r, p).error = run[r].error
<1>1. Go(r, p) \in RunnerStates
  BY Fields DEF Go
<1>2. QED
  BY <1>1 DEF Go, RunnerStates

\* A failure thrown on changes the phase and the error, nothing else.
LEMMA Throwing ==
  ASSUME NEW r, run[r] \in RunnerStates, NEW p \in Phases,
         NEW e \in {"busy", "conflict", "other"}
  PROVE  /\ Thrown(r, p, e) \in RunnerStates
         /\ Thrown(r, p, e).phase = p
         /\ Thrown(r, p, e).held = run[r].held
         /\ Thrown(r, p, e).timeouts = run[r].timeouts
         /\ Thrown(r, p, e).notices = run[r].notices
         /\ Thrown(r, p, e).heldLock = run[r].heldLock
         /\ Thrown(r, p, e).brought = run[r].brought
         /\ Thrown(r, p, e).before = run[r].before
         /\ Thrown(r, p, e).applied = run[r].applied
         /\ Thrown(r, p, e).seen = run[r].seen
         /\ Thrown(r, p, e).reported = run[r].reported
         /\ Thrown(r, p, e).error = e
<1>1. Go(r, p) \in RunnerStates
  BY StillGoing
<1>2. Thrown(r, p, e) \in RunnerStates
  BY <1>1, Fields DEF Thrown
<1>3. QED
  BY <1>1, <1>2, StillGoing DEF Thrown, RunnerStates

\* A session that was replaced has nothing of the old one; what the run knows stays.
LEMMA Replacing ==
  ASSUME NEW s \in RunnerStates
  PROVE  /\ Replaced(s) \in RunnerStates
         /\ Replaced(s).phase = s.phase
         /\ Replaced(s).held = 0
         /\ Replaced(s).timeouts = "caller"
         /\ Replaced(s).notices = "caller"
         /\ Replaced(s).heldLock = s.heldLock
         /\ Replaced(s).brought = IF s.brought = "lock" THEN "lost" ELSE s.brought
         /\ Replaced(s).before = s.before
         /\ Replaced(s).applied = s.applied
         /\ Replaced(s).seen = s.seen
         /\ Replaced(s).reported = s.reported
         /\ Replaced(s).error = s.error
<1>1. Replaced(s) \in RunnerStates
  BY Fields
<1>2. QED
  BY <1>1 DEF Replaced, RunnerStates

\* Putting the timeouts back changes nothing else.
LEMMA Restoring ==
  ASSUME NEW s \in RunnerStates
  PROVE  /\ Restored(s) \in RunnerStates
         /\ Restored(s).timeouts = "caller"
         /\ Restored(s).phase = s.phase
         /\ Restored(s).held = s.held
         /\ Restored(s).notices = s.notices
         /\ Restored(s).heldLock = s.heldLock
         /\ Restored(s).brought = s.brought
         /\ Restored(s).before = s.before
         /\ Restored(s).applied = s.applied
         /\ Restored(s).seen = s.seen
         /\ Restored(s).reported = s.reported
         /\ Restored(s).error = s.error
<1>1. Restored(s) \in RunnerStates
  BY Fields DEF Restored
<1>2. QED
  BY <1>1 DEF Restored, RunnerStates

\* The fields of a runner's record.
LEMMA Types ==
  ASSUME NEW s \in RunnerStates
  PROVE  /\ s.phase \in Phases /\ s.held \in 0 .. 2
         /\ s.heldLock \in {"free", "held"}
         /\ s.brought \in {"nothing", "lock", "lost"}
         /\ s.before \in 0 .. Migrations /\ s.applied \in 0 .. Migrations
         /\ s.seen \in 0 .. Migrations /\ s.reported \in SUBSET Release
BY DEF RunnerStates

\* A session that is lost leaves nothing behind that the caller would have to
\* be told of, and no phase that needs the lock goes on without it.
LEMMA Replacement ==
  ASSUME NEW s, NEW j, Good(s, j)
  PROVE  /\ Sound(Replaced(s), j)
         /\ s.phase \notin Holding => Good(Replaced(s), j)
<1> DEFINE t == Replaced(s)
<1>1. s \in RunnerStates
  BY DEF Good, Sound
<1>2. /\ t \in RunnerStates /\ t.phase = s.phase /\ t.held = 0
      /\ t.timeouts = "caller" /\ t.notices = "caller" /\ t.heldLock = s.heldLock
      /\ t.brought = IF s.brought = "lock" THEN "lost" ELSE s.brought
      /\ t.before = s.before /\ t.applied = s.applied /\ t.seen = s.seen
      /\ t.reported = s.reported /\ t.error = s.error
  BY <1>1, Replacing
<1> HIDE DEF t
<1>3. Sound(t, j)
  <2>1. LockKnown(t)
    BY <1>2 DEF Good, Sound, LockKnown
  <2>2. LockCounts(t)
    BY <1>2 DEF LockCounts
  <2>3. Settings(t)
    BY <1>2 DEF Settings
  <2>4. Counts(t, j)
    BY <1>2 DEF Good, Sound, Counts, Afterwards, Release
  <2>5. QED
    BY <1>2, <2>1, <2>2, <2>3, <2>4 DEF Sound
<1>4. s.phase \notin Holding /\ LockKept(s, j) => LockKept(t, j)
  BY <1>2 DEF LockKept, Holding, Body
<1>5. QED
  BY <1>3, <1>4 DEF Good, t

-----------------------------------------------------------------------------
(* One runner's step *)

\* What a step of one runner may do: it leaves its own record good, takes the
\* lock only when it is free, and writes the journal only as it applies.
Stepped(r) ==
  /\ \E t : /\ run' = [run EXCEPT ![r] = t] /\ Good(t, journal')
            /\ t.held <= run[r].held \/ LockFree(r)
  /\ UNCHANGED idleLoss
  /\ journal' = journal \/ (run[r].phase = "apply" /\ journal' = Migrations)
  /\ seeded' = seeded \/ (seeded' = TRUE /\ journal' = Migrations)

\* A statement of a runner that is not the migrator's own.
LEMMA Landing ==
  ASSUME NEW r \in Runners, NEW t, Good(t, journal),
         t.held <= run[r].held \/ LockFree(r), Quietly
  PROVE  /\ To(r, t) => Stepped(r)
         /\ run[r] \in RunnerStates /\ t.phase \notin Holding /\ Fails(r, t) => Stepped(r)
<1>1. To(r, t) => Stepped(r)
  BY DEF To, Stepped, Quietly
<1>2. ASSUME run[r] \in RunnerStates, t.phase \notin Holding, To(r, Replaced(t))
      PROVE  Stepped(r)
  <2>1. Good(Replaced(t), journal)
    BY <1>2, Replacement
  <2>2. Replaced(t).held = 0 /\ run[r].held \in 0 .. 2
    BY <1>2, Types, Replacing DEF Good, Sound
  <2>3. Replaced(t).held <= run[r].held
    BY <2>2
  <2>4. QED
    BY <1>2, <2>1, <2>3 DEF To, Stepped, Quietly
<1>3. QED
  BY <1>1, <1>2 DEF Fails

\* A failure of a run that has nothing to put back, or has done so, and of one
\* that has.
LEMMA ThrownGood ==
  ASSUME NEW r, Good(run[r], journal)
  PROVE  /\ run[r].phase \in {"read_session", "lock_wait", "seed"} =>
              Good(Thrown(r, "close", "other"), journal)
         /\ run[r].phase \in Holding => Good(Thrown(r, "unlock", "other"), journal)
         /\ Good(Thrown(r, "over", "other"), journal)
<1>1. run[r] \in RunnerStates /\ run[r].held \in 0 .. 2
  BY Types DEF Good, Sound
<1>2. ASSUME run[r].phase \in {"read_session", "lock_wait", "seed"}
      PROVE  Good(Thrown(r, "close", "other"), journal)
  <2> DEFINE t == Thrown(r, "close", "other")
  <2>0. "close" \in Phases
    BY DEF Phases, After
  <2>1. /\ t \in RunnerStates /\ t.phase = "close" /\ t.held = run[r].held
        /\ t.timeouts = run[r].timeouts /\ t.notices = run[r].notices
        /\ t.heldLock = run[r].heldLock /\ t.brought = run[r].brought
        /\ t.before = run[r].before /\ t.reported = run[r].reported
        /\ t.error = "other"
    BY <1>1, <2>0, Throwing
  <2> HIDE DEF t
  <2>2. Sound(t, journal)
    BY <1>1, <1>2, <2>1 DEF Good, Sound, LockKnown, LockCounts, Settings, Counts,
       Asking, Holding, Afterwards, Body, Release, After
  <2>3. LockKept(t, journal)
    BY <2>1 DEF LockKept, Holding, Body, Afterwards, Release
  <2>4. QED
    BY <2>2, <2>3 DEF Good, t
<1>3. ASSUME run[r].phase \in Holding
      PROVE  Good(Thrown(r, "unlock", "other"), journal)
  <2> DEFINE t == Thrown(r, "unlock", "other")
  <2>0. "unlock" \in Phases
    BY DEF Phases, Release
  <2>1. /\ t \in RunnerStates /\ t.phase = "unlock" /\ t.held = run[r].held
        /\ t.timeouts = run[r].timeouts /\ t.notices = run[r].notices
        /\ t.heldLock = run[r].heldLock /\ t.brought = run[r].brought
        /\ t.before = run[r].before /\ t.reported = run[r].reported
        /\ t.error = "other"
    BY <1>1, <2>0, Throwing
  <2> HIDE DEF t
  <2>2. Sound(t, journal)
    BY <1>1, <1>3, <2>1 DEF Good, Sound, LockKnown, LockCounts, Settings, Counts,
       Asking, Holding, Afterwards, Body, Release, After
  <2>3. LockKept(t, journal)
    BY <2>1 DEF LockKept, Holding, Body, Afterwards, Release
  <2>4. QED
    BY <2>2, <2>3 DEF Good, t
<1>4. Good(Thrown(r, "over", "other"), journal)
  <2> DEFINE t == Thrown(r, "over", "other")
  <2>0. "over" \in Phases
    BY DEF Phases
  <2>1. /\ t \in RunnerStates /\ t.phase = "over" /\ t.held = run[r].held
        /\ t.timeouts = run[r].timeouts /\ t.notices = run[r].notices
        /\ t.heldLock = run[r].heldLock /\ t.brought = run[r].brought
        /\ t.before = run[r].before /\ t.reported = run[r].reported
        /\ t.error = "other"
    BY <1>1, <2>0, Throwing
  <2> HIDE DEF t
  <2>2. Sound(t, journal)
    BY <1>1, <2>1 DEF Good, Sound, LockKnown, LockCounts, Settings, Counts,
       Asking, Holding, Afterwards, Body, Release, After
  <2>3. LockKept(t, journal)
    BY <2>1 DEF LockKept, Holding, Body, Afterwards, Release
  <2>4. QED
    BY <2>2, <2>3 DEF Good, t
<1>5. QED
  BY <1>2, <1>3, <1>4

\* The failures that end a run, as steps.
LEMMA FailClosed ==
  ASSUME NEW r \in Runners, Good(run[r], journal), Quietly
  PROVE  /\ run[r].phase \in {"read_session", "lock_wait", "seed"}
              /\ Fails(r, Thrown(r, "close", "other")) => Stepped(r)
         /\ run[r].phase \in Holding
              /\ Fails(r, Thrown(r, "unlock", "other")) => Stepped(r)
<1>1. run[r] \in RunnerStates /\ run[r].held \in 0 .. 2
  BY Types DEF Good, Sound
<1>2. ASSUME NEW p \in {"close", "unlock"}, Good(Thrown(r, p, "other"), journal),
             Fails(r, Thrown(r, p, "other"))
      PROVE  Stepped(r)
  <2> DEFINE t == Thrown(r, p, "other")
  <2>1. p \in Phases /\ p \notin Holding
    BY DEF Phases, Holding, Body, Release, After
  <2>2. t.phase = p /\ t.held = run[r].held
    BY <1>1, <2>1, Throwing
  <2> HIDE DEF t
  <2>3. t.held <= run[r].held /\ t.phase \notin Holding
    BY <1>1, <2>1, <2>2
  <2>4. Good(t, journal) /\ Fails(r, t)
    BY <1>2 DEF t
  <2>5. QED
    BY <1>1, <2>3, <2>4, Landing
<1>3. QED
  BY <1>2, ThrownGood

\* Up to the wait for the lock.
LEMMA AskingStepped ==
  ASSUME IInv, NEW r \in Runners,
         ReadSession(r) \/ LockWait(r)
  PROVE  Stepped(r)
<1> DEFINE s == run[r]
<1>1. /\ Good(s, journal) /\ s \in RunnerStates /\ s.held \in 0 .. 2
      /\ journal \in 0 .. Migrations /\ Migrations \in Nat
  BY MigrationAssumption, Types DEF IInv
<1>2. CASE ReadSession(r)
  <2> DEFINE t == [Go(r, "lock_wait") EXCEPT
                  !.heldLock = IF run[r].held > 0 THEN "held" ELSE "free"]
  <2>1. s.phase = "read_session" /\ "lock_wait" \in Phases
    BY <1>2 DEF ReadSession, At, Phases
  <2>2. /\ t \in RunnerStates /\ t.phase = "lock_wait" /\ t.held = s.held
        /\ t.timeouts = s.timeouts /\ t.notices = s.notices
        /\ t.heldLock = (IF s.held > 0 THEN "held" ELSE "free")
        /\ t.brought = s.brought /\ t.before = s.before
        /\ t.applied = s.applied /\ t.seen = s.seen
        /\ t.reported = s.reported /\ t.error = s.error
    BY <1>1, <2>1, StillGoing DEF RunnerStates
  <2> HIDE DEF t
  <2>3. Sound(t, journal)
    BY <1>1, <2>1, <2>2 DEF Good, Sound, LockKnown, LockCounts, Settings, Counts,
       Asking, Holding, Afterwards, Body, Release, After
  <2>4. LockKept(s, journal) => LockKept(t, journal)
    BY <1>1, <2>1, <2>2 DEF LockKept, Holding, Body, Afterwards, Release
  <2>5. Good(t, journal)
    BY <1>1, <2>3, <2>4 DEF Good
  <2>6. t.held <= s.held
    BY <1>1, <2>2
  <2>7. To(r, t) /\ Quietly => Stepped(r)
    BY <2>5, <2>6, Landing
  <2>8. Fails(r, Thrown(r, "close", "other")) /\ Quietly => Stepped(r)
    BY <1>1, <2>1, FailClosed
  <2>9. QED
    BY <1>2, <2>7, <2>8 DEF ReadSession, t
<1>3. CASE LockWait(r)
  <2> DEFINE t == [Go(r, "lock") EXCEPT !.timeouts = "wait"]
  <2>1. s.phase = "lock_wait" /\ "lock" \in Phases
    BY <1>3 DEF LockWait, At, Phases
  <2>2. /\ t \in RunnerStates /\ t.phase = "lock" /\ t.held = s.held
        /\ t.timeouts = "wait" /\ t.notices = s.notices
        /\ t.heldLock = s.heldLock /\ t.brought = s.brought
        /\ t.before = s.before /\ t.applied = s.applied /\ t.seen = s.seen
        /\ t.reported = s.reported /\ t.error = s.error
    BY <1>1, <2>1, StillGoing DEF RunnerStates
  <2> HIDE DEF t
  <2>3. Sound(t, journal)
    BY <1>1, <2>1, <2>2 DEF Good, Sound, LockKnown, LockCounts, Settings, Counts,
       Asking, Holding, Afterwards, Body, Release, After
  <2>4. LockKept(s, journal) => LockKept(t, journal)
    BY <1>1, <2>1, <2>2 DEF LockKept, Holding, Body, Afterwards, Release
  <2>5. Good(t, journal)
    BY <1>1, <2>3, <2>4 DEF Good
  <2>6. t.held <= s.held
    BY <1>1, <2>2
  <2>7. To(r, t) /\ Quietly => Stepped(r)
    BY <2>5, <2>6, Landing
  <2>8. Fails(r, Thrown(r, "close", "other")) /\ Quietly => Stepped(r)
    BY <1>1, <2>1, FailClosed
  <2>9. QED
    BY <1>3, <2>7, <2>8 DEF LockWait, t
<1>4. QED
  BY <1>2, <1>3

\* The statements under the lock that write nothing.
LEMMA HoldingStepped ==
  ASSUME IInv, NEW r \in Runners,
         TimeoutsAfterLock(r) \/ QuietNotices(r) \/ Count(r) \/ ReadJournal(r) \/ Recount(r)
  PROVE  Stepped(r)
<1> DEFINE s == run[r]
<1>1. /\ Good(s, journal) /\ s \in RunnerStates /\ s.held \in 0 .. 2
      /\ journal \in 0 .. Migrations /\ Migrations \in Nat
  BY MigrationAssumption, Types DEF IInv
<1>2. CASE TimeoutsAfterLock(r)
  <2> DEFINE t == Restored(Go(r, "quiet_notices"))
  <2>1. s.phase = "timeouts_after_lock" /\ "quiet_notices" \in Phases
    BY <1>2 DEF TimeoutsAfterLock, At, Phases
  <2>2. /\ t \in RunnerStates /\ t.phase = "quiet_notices"
        /\ t.held = s.held /\ t.timeouts = "caller"
        /\ t.notices = s.notices /\ t.heldLock = s.heldLock
        /\ t.brought = s.brought /\ t.before = s.before
        /\ t.applied = s.applied /\ t.seen = s.seen
        /\ t.reported = s.reported /\ t.error = s.error
    <3>1. Go(r, "quiet_notices") \in RunnerStates
      BY <1>1, <2>1, StillGoing
    <3>2. QED
      BY <1>1, <2>1, <3>1, StillGoing, Restoring
  <2> HIDE DEF t
  <2>3. Sound(t, journal)
    BY <1>1, <2>1, <2>2 DEF Good, Sound, LockKnown, LockCounts, Settings, Counts,
       Asking, Holding, Afterwards, Body, Release, After
  <2>4. LockKept(s, journal) => LockKept(t, journal)
    BY <1>1, <2>1, <2>2 DEF LockKept, Holding, Body, Afterwards, Release
  <2>5. Good(t, journal)
    BY <1>1, <2>3, <2>4 DEF Good
  <2>6. t.held <= s.held
    BY <1>1, <2>2
  <2>7. To(r, t) /\ Quietly => Stepped(r)
    BY <2>5, <2>6, Landing
  <2>8. Fails(r, Thrown(r, "unlock", "other")) /\ Quietly => Stepped(r)
    BY <1>1, <2>1, FailClosed DEF Holding, Body
  <2>9. QED
    BY <1>2, <2>7, <2>8 DEF TimeoutsAfterLock, t
<1>3. CASE QuietNotices(r)
  <2> DEFINE t == [Go(r, "count") EXCEPT !.notices = "quiet"]
  <2>1. s.phase = "quiet_notices" /\ "count" \in Phases
    BY <1>3 DEF QuietNotices, At, Phases, Body
  <2>2. /\ t \in RunnerStates /\ t.phase = "count" /\ t.held = s.held
        /\ t.timeouts = s.timeouts /\ t.notices = "quiet"
        /\ t.heldLock = s.heldLock /\ t.brought = s.brought
        /\ t.before = s.before /\ t.applied = s.applied /\ t.seen = s.seen
        /\ t.reported = s.reported /\ t.error = s.error
    BY <1>1, <2>1, StillGoing DEF RunnerStates
  <2> HIDE DEF t
  <2>3. Sound(t, journal)
    BY <1>1, <2>1, <2>2 DEF Good, Sound, LockKnown, LockCounts, Settings, Counts,
       Asking, Holding, Afterwards, Body, Release, After
  <2>4. LockKept(s, journal) => LockKept(t, journal)
    BY <1>1, <2>1, <2>2 DEF LockKept, Holding, Body, Afterwards, Release
  <2>5. Good(t, journal)
    BY <1>1, <2>3, <2>4 DEF Good
  <2>6. t.held <= s.held
    BY <1>1, <2>2
  <2>7. To(r, t) /\ Quietly => Stepped(r)
    BY <2>5, <2>6, Landing
  <2>8. Fails(r, Thrown(r, "unlock", "other")) /\ Quietly => Stepped(r)
    BY <1>1, <2>1, FailClosed DEF Holding, Body
  <2>9. QED
    BY <1>3, <2>7, <2>8 DEF QuietNotices, t
<1>4. CASE Count(r)
  <2> DEFINE g == Go(r, "read journal")
             t == [g EXCEPT !.before = journal]
  <2>1. s.phase = "count" /\ "read journal" \in Phases
    BY <1>4 DEF Count, At, Phases, Body
  <2>2. journal \in 0 .. Migrations
    <3>1. s.before \in 0 .. Migrations /\ s.before <= journal
      BY <1>1, Types DEF Good, Sound, Counts
    <3>2. QED
      BY <1>1, <3>1
  <2>3. g \in RunnerStates
    BY <1>1, <2>1, StillGoing
  <2>4. t \in RunnerStates /\ t.before = journal
    <3>1. t \in RunnerStates
      BY <2>2, <2>3, Fields
    <3>2. t.before = journal
      BY <2>3 DEF RunnerStates
    <3>3. QED
      BY <3>1, <3>2
  <2>5. /\ t.phase = g.phase /\ t.held = g.held /\ t.timeouts = g.timeouts
        /\ t.notices = g.notices /\ t.heldLock = g.heldLock
        /\ t.brought = g.brought /\ t.applied = g.applied
        /\ t.seen = g.seen /\ t.reported = g.reported
        /\ t.error = g.error
    BY <2>3 DEF RunnerStates
  <2> HIDE DEF t
  <2>6. /\ t.phase = "read journal" /\ t.held = s.held /\ t.timeouts = s.timeouts
        /\ t.notices = s.notices /\ t.heldLock = s.heldLock
        /\ t.brought = s.brought /\ t.reported = s.reported
        /\ t.error = s.error
    BY <1>1, <2>1, <2>5, StillGoing
  <2>7. t.applied = s.applied /\ t.seen = s.seen
    BY <1>1, <2>1, <2>5, StillGoing
  <2>8. LockKnown(t) /\ LockCounts(t) /\ Settings(t)
    BY <1>1, <2>1, <2>6 DEF Good, Sound, LockKnown, LockCounts, Settings,
       Asking, Holding, Body, Release, After
  <2>9. Counts(t, journal)
    <3>1. t.before <= journal
      BY <1>1, <2>2, <2>4, <2>7 DEF Good, Sound, Counts
    <3>2. QED
      BY <1>1, <2>1, <2>6, <3>1 DEF Good, Sound, Counts, Afterwards, Release
  <2>10. LockKept(s, journal) => LockKept(t, journal)
    BY <1>1, <2>1, <2>4, <2>6, <2>7 DEF Good, Sound, Counts, LockKept, Holding, Body, Afterwards, Release
  <2>11. Good(t, journal)
    BY <1>1, <2>4, <2>8, <2>9, <2>10 DEF Good, Sound
  <2>12. t.held <= s.held
    <3>1. t.held = s.held
      BY <2>6
    <3>2. QED
      BY <1>1, <3>1
  <2>13. To(r, t) /\ Quietly => Stepped(r)
    BY <2>11, <2>12, Landing
  <2>14. Fails(r, Thrown(r, "unlock", "other")) /\ Quietly => Stepped(r)
    BY <1>1, <2>1, FailClosed DEF Holding, Body
  <2>15. QED
    BY <1>4, <2>13, <2>14 DEF Count, t
<1>5. CASE ReadJournal(r)
  <2> DEFINE g == Go(r, "apply")
             t == [g EXCEPT !.seen = journal]
  <2>1. s.phase = "read journal" /\ "apply" \in Phases
    BY <1>5 DEF ReadJournal, At, Phases, Body
  <2>2. journal \in 0 .. Migrations
    <3>1. s.before \in 0 .. Migrations /\ s.before <= journal
      BY <1>1, Types DEF Good, Sound, Counts
    <3>2. QED
      BY <1>1, <3>1
  <2>3. g \in RunnerStates
    BY <1>1, <2>1, StillGoing
  <2>4. t \in RunnerStates /\ t.seen = journal
    <3>1. t \in RunnerStates
      BY <2>2, <2>3, Fields
    <3>2. t.seen = journal
      BY <2>3 DEF RunnerStates
    <3>3. QED
      BY <3>1, <3>2
  <2>5. /\ t.phase = g.phase /\ t.held = g.held /\ t.timeouts = g.timeouts
        /\ t.notices = g.notices /\ t.heldLock = g.heldLock
        /\ t.brought = g.brought /\ t.before = g.before
        /\ t.applied = g.applied /\ t.reported = g.reported
        /\ t.error = g.error
    BY <2>3 DEF RunnerStates
  <2> HIDE DEF t
  <2>6. /\ t.phase = "apply" /\ t.held = s.held /\ t.timeouts = s.timeouts
        /\ t.notices = s.notices /\ t.heldLock = s.heldLock
        /\ t.brought = s.brought /\ t.reported = s.reported
        /\ t.error = s.error
    BY <1>1, <2>1, <2>5, StillGoing
  <2>7. t.before = s.before /\ t.applied = s.applied
    BY <1>1, <2>1, <2>5, StillGoing
  <2>8. LockKnown(t) /\ LockCounts(t) /\ Settings(t)
    BY <1>1, <2>1, <2>6 DEF Good, Sound, LockKnown, LockCounts, Settings,
       Asking, Holding, Body, Release, After
  <2>9. Counts(t, journal)
    <3>1. t.before <= journal
      BY <1>1, <2>2, <2>4, <2>7 DEF Good, Sound, Counts
    <3>2. QED
      BY <1>1, <2>1, <2>6, <3>1 DEF Good, Sound, Counts, Afterwards, Release
  <2>10. LockKept(s, journal) => LockKept(t, journal)
    BY <1>1, <2>1, <2>4, <2>6, <2>7 DEF Good, Sound, Counts, LockKept, Holding, Body, Afterwards, Release
  <2>11. Good(t, journal)
    BY <1>1, <2>4, <2>8, <2>9, <2>10 DEF Good, Sound
  <2>12. t.held <= s.held
    <3>1. t.held = s.held
      BY <2>6
    <3>2. QED
      BY <1>1, <3>1
  <2>13. To(r, t) /\ Quietly => Stepped(r)
    BY <2>11, <2>12, Landing
  <2>14. Fails(r, Thrown(r, "unlock", "other")) /\ Quietly => Stepped(r)
    BY <1>1, <2>1, FailClosed DEF Holding, Body
  <2>15. QED
    BY <1>5, <2>13, <2>14 DEF ReadJournal, t
<1>6. CASE Recount(r)
  <2> DEFINE g == Go(r, "unlock")
             t == [g EXCEPT !.applied = journal - s.before]
  <2>1. s.phase = "recount" /\ "unlock" \in Phases
    BY <1>6 DEF Recount, At, Phases, Body, Release
  <2>2. journal - s.before \in 0 .. Migrations
    <3>1. s.before \in 0 .. Migrations /\ s.before <= journal
      BY <1>1, Types DEF Good, Sound, Counts
    <3>2. QED
      BY <1>1, <3>1
  <2>3. g \in RunnerStates
    BY <1>1, <2>1, StillGoing
  <2>4. t \in RunnerStates /\ t.applied = journal - s.before
    <3>1. t \in RunnerStates
      BY <2>2, <2>3, Fields
    <3>2. t.applied = journal - s.before
      BY <2>3 DEF RunnerStates
    <3>3. QED
      BY <3>1, <3>2
  <2>5. /\ t.phase = g.phase /\ t.held = g.held /\ t.timeouts = g.timeouts
        /\ t.notices = g.notices /\ t.heldLock = g.heldLock
        /\ t.brought = g.brought /\ t.before = g.before
        /\ t.seen = g.seen /\ t.reported = g.reported
        /\ t.error = g.error
    BY <2>3 DEF RunnerStates
  <2> HIDE DEF t
  <2>6. /\ t.phase = "unlock" /\ t.held = s.held /\ t.timeouts = s.timeouts
        /\ t.notices = s.notices /\ t.heldLock = s.heldLock
        /\ t.brought = s.brought /\ t.reported = s.reported
        /\ t.error = s.error
    BY <1>1, <2>1, <2>5, StillGoing
  <2>7. t.before = s.before /\ t.seen = s.seen
    BY <1>1, <2>1, <2>5, StillGoing
  <2>8. LockKnown(t) /\ LockCounts(t) /\ Settings(t)
    BY <1>1, <2>1, <2>6 DEF Good, Sound, LockKnown, LockCounts, Settings,
       Asking, Holding, Body, Release, After
  <2>9. Counts(t, journal)
    <3>1. t.before <= journal
      BY <1>1, <2>2, <2>4, <2>7 DEF Good, Sound, Counts
    <3>2. QED
      BY <1>1, <2>1, <2>6, <3>1 DEF Good, Sound, Counts, Afterwards, Release
  <2>10. LockKept(s, journal) => LockKept(t, journal)
    BY <1>1, <2>1, <2>4, <2>6, <2>7 DEF Good, Sound, Counts, LockKept, Holding, Body, Afterwards, Release
  <2>11. Good(t, journal)
    BY <1>1, <2>4, <2>8, <2>9, <2>10 DEF Good, Sound
  <2>12. t.held <= s.held
    <3>1. t.held = s.held
      BY <2>6
    <3>2. QED
      BY <1>1, <3>1
  <2>13. To(r, t) /\ Quietly => Stepped(r)
    BY <2>11, <2>12, Landing
  <2>14. Fails(r, Thrown(r, "unlock", "other")) /\ Quietly => Stepped(r)
    BY <1>1, <2>1, FailClosed DEF Holding, Body
  <2>15. QED
    BY <1>6, <2>13, <2>14 DEF Recount, t
<1>7. QED
  BY <1>2, <1>3, <1>4, <1>5, <1>6

\* The lock itself: granted, timed out, or failed, be it as it is granted.
LEMMA HeldMore ==
  ASSUME NEW s \in RunnerStates, s.held <= 1
  PROVE  /\ [s EXCEPT !.held = @ + 1] \in RunnerStates
         /\ [s EXCEPT !.held = @ + 1].held = s.held + 1
<1>1. s.held + 1 \in 0 .. 2
  BY DEF RunnerStates
<1>2. [s EXCEPT !.held = s.held + 1] \in RunnerStates
  BY <1>1, Fields
<1>3. [s EXCEPT !.held = @ + 1].held = s.held + 1
  BY DEF RunnerStates
<1>4. QED
  BY <1>2, <1>3

\* The lock, granted: the one statement that may raise the count of holds.
LEMMA GrantedStepped ==
  ASSUME IInv, NEW r \in Runners, Lock(r)
  PROVE  Stepped(r)
<1> DEFINE s == run[r]
           g == Go(r, "timeouts_after_lock")
           t == Granted(r)
<1>1. /\ Good(s, journal) /\ s \in RunnerStates /\ s.phase = "lock" /\ s.held <= 1
      /\ s.held \in 0 .. 2
  BY Types DEF IInv, Good, Sound, LockCounts, Asking, Lock, At
<1>0. "timeouts_after_lock" \in Phases
  BY DEF Phases
<1>2. /\ g \in RunnerStates /\ g.phase = "timeouts_after_lock" /\ g.held = s.held
      /\ g.timeouts = s.timeouts /\ g.notices = s.notices
      /\ g.heldLock = s.heldLock /\ g.brought = s.brought
      /\ g.before = s.before /\ g.reported = s.reported /\ g.error = s.error
  BY <1>0, <1>1, StillGoing
<1>3. t \in RunnerStates /\ t.held = s.held + 1
  BY <1>1, <1>2, HeldMore DEF Granted
<1>4. /\ t.phase = "timeouts_after_lock" /\ t.timeouts = s.timeouts
      /\ t.notices = s.notices /\ t.heldLock = s.heldLock
      /\ t.brought = s.brought /\ t.before = s.before
      /\ t.reported = s.reported /\ t.error = s.error
  BY <1>2 DEF Granted, RunnerStates
<1> HIDE DEF g, t
<1>5. s.held >= 0 /\ (s.held >= 1 => t.held = 2) /\ (s.held = 0 => t.held = 1)
  BY <1>1, <1>3
<1>6. LockCounts(t)
  BY <1>1, <1>4, <1>5 DEF Good, Sound, LockCounts, Asking, Holding, Body, Release, After
<1>7. Sound(t, journal)
  BY <1>1, <1>3, <1>4, <1>6 DEF Good, Sound, LockKnown, Settings, Counts,
     Holding, Afterwards, Body, Release, After
<1>8. LockKept(s, journal) => LockKept(t, journal)
  BY <1>1, <1>4, <1>5 DEF LockKept, Holding, Body, Afterwards, Release
<1>9. Good(t, journal)
  BY <1>1, <1>7, <1>8 DEF Good
<1>10. To(r, t) /\ LockFree(r) /\ Quietly
  BY DEF Lock, t
<1>11. QED
  BY <1>9, <1>10, Landing

\* The lock not granted, or granted to a runner that has given up.
LEMMA AttemptStepped ==
  ASSUME IInv, NEW r \in Runners, LockTimesOut(r) \/ LockFails(r)
  PROVE  Stepped(r)
<1> DEFINE s == run[r]
<1>1. /\ Good(s, journal) /\ s \in RunnerStates /\ s.phase = "lock" /\ s.held <= 1
      /\ s.held \in 0 .. 2
  BY Types DEF IInv, Good, Sound, LockCounts, Asking, LockTimesOut, LockFails, At
<1>2. /\ Cleanup(r) \in Cleaning /\ Cleanup(r) \in Phases
      /\ Cleanup(r) = "cleanup unlock" => s.heldLock = "free"
      /\ Cleanup(r) = "cleanup timeouts" => s.heldLock = "held"
  BY <1>1, Types DEF Cleanup, Cleaning, Phases
<1>3. ASSUME NEW e \in {"busy", "other"}
      PROVE  /\ Good(Thrown(r, Cleanup(r), e), journal)
             /\ Thrown(r, Cleanup(r), e).held = s.held
             /\ Thrown(r, Cleanup(r), e).phase \notin Holding
             /\ Good([Thrown(r, Cleanup(r), e) EXCEPT !.held = @ + 1], journal)
  <2> DEFINE t == Thrown(r, Cleanup(r), e)
             u == [t EXCEPT !.held = @ + 1]
  <2>0. /\ Cleanup(r) \in Phases /\ s \in RunnerStates
        /\ e \in {"busy", "conflict", "other"}
    BY <1>1, <1>2
  <2>1. /\ t \in RunnerStates /\ t.phase = Cleanup(r) /\ t.held = s.held
        /\ t.timeouts = s.timeouts /\ t.notices = s.notices
        /\ t.heldLock = s.heldLock /\ t.brought = s.brought
        /\ t.before = s.before /\ t.reported = s.reported /\ t.error = e
    BY <2>0, Throwing
  <2> HIDE DEF t
  <2>2. u \in RunnerStates /\ u.held = s.held + 1
    BY <1>1, <2>1, HeldMore
  <2>3. /\ u.phase = Cleanup(r) /\ u.timeouts = s.timeouts
        /\ u.notices = s.notices /\ u.heldLock = s.heldLock
        /\ u.brought = s.brought /\ u.before = s.before
        /\ u.reported = s.reported /\ u.error = e
    BY <2>1 DEF RunnerStates
  <2> HIDE DEF u
  <2>4. /\ s.brought = "lock" => s.held = 1 /\ s.heldLock = "held"
        /\ s.brought = "nothing" => s.held = 0 /\ s.heldLock = "free"
    BY <1>1, Types DEF Good, Sound, LockCounts, LockKnown, Asking
  <2>5. /\ s.brought = "lock" => t.held = 1 /\ u.held = 2
        /\ s.brought = "nothing" => t.held = 0 /\ u.held = 1
    BY <2>1, <2>2, <2>4
  <2>6. ASSUME NEW v \in {t, u}
        PROVE  Good(v, journal)
    <3>1. /\ v \in RunnerStates /\ v.phase = Cleanup(r)
          /\ v.timeouts = s.timeouts /\ v.notices = s.notices
          /\ v.heldLock = s.heldLock /\ v.brought = s.brought
          /\ v.before = s.before /\ v.reported = s.reported /\ v.error = e
      BY <2>1, <2>2, <2>3
    <3>2. /\ s.brought = "lock" => v.held \in {1, 2}
          /\ s.brought = "nothing" => v.held \in {0, 1}
          /\ s.brought = "lock" => v.held >= 1
          /\ s.brought = "nothing" => v.held <= 1
      BY <2>5
    <3>3. LockCounts(v)
      BY <1>1, <1>2, <2>4, <3>1, <3>2 DEF LockCounts, Cleaning, Asking, Holding,
         Body, Release, After
    <3>4. LockKnown(v) /\ Settings(v)
      BY <1>1, <1>2, <3>1 DEF Good, Sound, LockKnown, Settings, Cleaning, Body,
         Release, After
    <3>5. Counts(v, journal) /\ LockKept(v, journal)
      BY <1>1, <1>2, <3>1 DEF Good, Sound, Counts, LockKept, Cleaning, Holding, Body,
         Afterwards, Release
    <3>6. QED
      BY <3>1, <3>3, <3>4, <3>5 DEF Good, Sound
  <2>7. t.phase \notin Holding
    BY <1>2, <2>1 DEF Cleaning, Holding, Body
  <2>8. QED
    BY <2>1, <2>6, <2>7 DEF t, u
<1>4. ASSUME NEW e \in {"busy", "other"}, Quietly
      PROVE  /\ To(r, Thrown(r, Cleanup(r), e)) => Stepped(r)
             /\ Fails(r, Thrown(r, Cleanup(r), e)) => Stepped(r)
             /\ LockFree(r) /\ To(r, [Thrown(r, Cleanup(r), e) EXCEPT !.held = @ + 1])
                  => Stepped(r)
  <2> DEFINE t == Thrown(r, Cleanup(r), e)
             u == [t EXCEPT !.held = @ + 1]
  <2>1. /\ Good(t, journal) /\ t.held = s.held /\ t.phase \notin Holding
        /\ Good(u, journal)
    BY <1>3
  <2> HIDE DEF t, u
  <2>2. t.held <= s.held
    BY <1>1, <2>1
  <2>3. /\ To(r, t) => Stepped(r)
        /\ Fails(r, t) => Stepped(r)
    BY <1>1, <1>4, <2>1, <2>2, Landing
  <2>4. LockFree(r) /\ To(r, u) => Stepped(r)
    BY <1>4, <2>1, Landing
  <2>5. QED
    BY <2>3, <2>4 DEF t, u
<1>5. QED
  BY <1>4 DEF LockTimesOut, LockFails

\* One hold less, on a session that has any.
LEMMA HeldLess ==
  ASSUME NEW s \in RunnerStates
  PROVE  /\ Unlocked(s) \in RunnerStates
         /\ Unlocked(s).held \in 0 .. 1
         /\ Unlocked(s).held <= s.held
         /\ s.held = 2 => Unlocked(s).held = 1
         /\ s.held <= 1 => Unlocked(s).held = 0
         /\ Unlocked(s).phase = s.phase
         /\ Unlocked(s).timeouts = s.timeouts
         /\ Unlocked(s).notices = s.notices
         /\ Unlocked(s).heldLock = s.heldLock
         /\ Unlocked(s).brought = s.brought
         /\ Unlocked(s).before = s.before
         /\ Unlocked(s).applied = s.applied
         /\ Unlocked(s).seen = s.seen
         /\ Unlocked(s).reported = s.reported
         /\ Unlocked(s).error = s.error
<1> DEFINE v == IF s.held > 0 THEN s.held - 1 ELSE 0
<1>1. s.held \in 0 .. 2
  BY Types
<1>2. /\ v \in 0 .. 2 /\ v \in 0 .. 1 /\ v <= s.held
      /\ s.held = 2 => v = 1
      /\ s.held <= 1 => v = 0
  BY <1>1
<1>3. Unlocked(s) = [s EXCEPT !.held = v]
  BY DEF Unlocked
<1> HIDE DEF v
<1>4. Unlocked(s) \in RunnerStates
  BY <1>2, <1>3, Fields
<1>5. Unlocked(s).held = v
  BY <1>3 DEF RunnerStates
<1>6. QED
  BY <1>2, <1>3, <1>4, <1>5 DEF RunnerStates

\* What is reported stays reported, and the caller may then find anything.
LEMMA Reporting ==
  ASSUME NEW s \in RunnerStates, NEW x \in Release
  PROVE  /\ Reported(s, x) \in RunnerStates
         /\ Reported(s, x).reported # {}
         /\ Reported(s, x).phase = s.phase
         /\ Reported(s, x).held = s.held
         /\ Reported(s, x).timeouts = s.timeouts
         /\ Reported(s, x).notices = s.notices
         /\ Reported(s, x).heldLock = s.heldLock
         /\ Reported(s, x).brought = s.brought
         /\ Reported(s, x).before = s.before
         /\ Reported(s, x).applied = s.applied
         /\ Reported(s, x).seen = s.seen
         /\ Reported(s, x).error = s.error
<1>1. s.reported \cup {x} \in SUBSET Release
  BY Types
<1>2. Reported(s, x) \in RunnerStates
  BY <1>1, Fields DEF Reported
<1>3. Reported(s, x).reported = s.reported \cup {x}
  BY DEF Reported, RunnerStates
<1>4. QED
  BY <1>2, <1>3 DEF Reported, RunnerStates

\* Where the steps that put the session back lead.
PutBack(p, q) ==
  \/ p \in Cleaning /\ q = "close"
  \/ p = "unlock" /\ q = "client_min_messages"
  \/ p = "client_min_messages" /\ q = "timeouts"

\* A step of putting the session back that fails is reported by its name.
LEMMA FailReported ==
  ASSUME NEW r \in Runners, Good(run[r], journal), Quietly, NEW q, NEW x \in Release,
         \/ PutBack(run[r].phase, q)
         \/ run[r].phase = "timeouts" /\ q = AfterRelease(r),
         Fails(r, Reported(Go(r, q), x))
  PROVE  Stepped(r)
<1> DEFINE s == run[r]
           g == Go(r, q)
           t == Reported(g, x)
<1>1. s \in RunnerStates /\ s.held \in 0 .. 2
  BY Types DEF Good, Sound
<1>2. q \in Phases /\ (q = "seed" => s.error = "none") /\ q \notin Holding
  BY DEF PutBack, AfterRelease, Cleaning, Phases, Release, After, Holding, Body
<1>3. /\ g \in RunnerStates /\ g.phase = q /\ g.held = s.held
      /\ g.timeouts = s.timeouts /\ g.notices = s.notices
      /\ g.heldLock = s.heldLock /\ g.brought = s.brought
      /\ g.before = s.before /\ g.applied = s.applied /\ g.seen = s.seen
      /\ g.error = s.error
  BY <1>1, <1>2, StillGoing
<1> HIDE DEF g
<1>4. /\ t \in RunnerStates /\ t.phase = q /\ t.held = s.held /\ t.reported # {}
      /\ t.timeouts = s.timeouts /\ t.notices = s.notices
      /\ t.heldLock = s.heldLock /\ t.brought = s.brought
      /\ t.before = s.before /\ t.applied = s.applied /\ t.seen = s.seen
      /\ t.error = s.error
  BY <1>3, Reporting
<1> HIDE DEF t
<1>5. LockKnown(t) /\ Settings(t)
  BY <1>4 DEF PutBack, AfterRelease, Cleaning, Good, Sound, LockKnown, Settings,
     Body, Release, After
<1>6. LockCounts(t)
  BY <1>4 DEF PutBack, AfterRelease, Cleaning, Good, Sound, LockCounts, Asking,
     Holding, Body, Release, After
<1>7. Counts(t, journal)
  BY <1>2, <1>4 DEF PutBack, AfterRelease, Cleaning, Good, Sound, Counts,
     Afterwards, Release
<1>8. LockKept(s, journal) => LockKept(t, journal)
  BY <1>4 DEF PutBack, AfterRelease, Cleaning, LockKept, Holding, Body, Afterwards,
     Release
<1>9. Good(t, journal)
  BY <1>4, <1>5, <1>6, <1>7, <1>8 DEF Good, Sound
<1>10. t.held <= s.held /\ t.phase \notin Holding
  BY <1>1, <1>2, <1>4
<1>11. Fails(r, t)
  BY DEF t, g
<1>12. QED
  BY <1>1, <1>9, <1>10, <1>11, Landing

\* The steps that put the session back.
LEMMA PutBackStepped ==
  ASSUME IInv, NEW r \in Runners,
         CleanupUnlock(r) \/ CleanupTimeouts(r) \/ ReleaseUnlock(r) \/ ReleaseNotices(r) \/ ReleaseTimeouts(r)
  PROVE  Stepped(r)
<1> DEFINE s == run[r]
<1>1. /\ Good(s, journal) /\ s \in RunnerStates /\ s.held \in 0 .. 2
      /\ journal \in 0 .. Migrations /\ Migrations \in Nat
  BY MigrationAssumption, Types DEF IInv
<1>2. CASE CleanupUnlock(r)
  <2> DEFINE g == Go(r, "cleanup timeouts")
             t == Unlocked(g)
  <2>1. s.phase = "cleanup unlock" /\ "cleanup timeouts" \in Phases
    BY <1>2 DEF CleanupUnlock, At, Phases
  <2>2. /\ g \in RunnerStates /\ g.phase = "cleanup timeouts"
        /\ g.held = s.held /\ g.timeouts = s.timeouts
        /\ g.notices = s.notices /\ g.heldLock = s.heldLock
        /\ g.brought = s.brought /\ g.before = s.before
        /\ g.applied = s.applied /\ g.seen = s.seen
        /\ g.reported = s.reported /\ g.error = s.error
    BY <1>1, <2>1, StillGoing
  <2> HIDE DEF g
  <2>3. /\ t \in RunnerStates /\ t.held \in 0 .. 1 /\ t.held <= s.held
        /\ s.held = 2 => t.held = 1
        /\ s.held <= 1 => t.held = 0
    <3>1. /\ t \in RunnerStates /\ t.held \in 0 .. 1 /\ t.held <= g.held
          /\ g.held = 2 => t.held = 1
          /\ g.held <= 1 => t.held = 0
      BY <2>2, HeldLess
    <3>2. QED
      BY <2>2, <3>1
  <2>4. /\ t.phase = "cleanup timeouts" /\ t.timeouts = s.timeouts
        /\ t.notices = s.notices /\ t.heldLock = s.heldLock
        /\ t.brought = s.brought /\ t.before = s.before
        /\ t.applied = s.applied /\ t.seen = s.seen
        /\ t.reported = s.reported /\ t.error = s.error
    BY <2>2, HeldLess
  <2> HIDE DEF t
  <2>5. LockCounts(t)
    BY <1>1, <2>1, <2>3, <2>4 DEF Good, Sound, LockKnown, LockCounts, Asking,
       Holding, Body, Release, After
  <2>6. LockKnown(t) /\ Settings(t) /\ Counts(t, journal)
    BY <1>1, <2>1, <2>4 DEF Good, Sound, LockKnown, Settings, Counts, Body,
       Afterwards, Release, After
  <2>7. LockKept(s, journal) => LockKept(t, journal)
    BY <2>1, <2>4 DEF LockKept, Holding, Body, Afterwards, Release
  <2>8. Good(t, journal)
    BY <1>1, <2>3, <2>5, <2>6, <2>7 DEF Good, Sound
  <2>9. To(r, t) /\ Quietly => Stepped(r)
    BY <2>3, <2>8, Landing
  <2>10. Fails(r, Reported(Go(r, "close"), "unlock")) /\ Quietly => Stepped(r)
    BY <1>1, <2>1, FailReported DEF PutBack, Cleaning, Release
  <2>11. QED
    BY <1>2, <2>9, <2>10 DEF CleanupUnlock, t, g
<1>3. CASE CleanupTimeouts(r)
  <2> DEFINE q == "close"
             g == Go(r, q)
             t == Restored(g)
  <2>1. /\ s.phase = "cleanup timeouts" /\ q \in After /\ q \in Phases
        /\ q = "seed" => s.error = "none"
    BY <1>3 DEF CleanupTimeouts, At, After, Phases
  <2>2. /\ g \in RunnerStates /\ g.phase = q /\ g.held = s.held
        /\ g.notices = s.notices /\ g.heldLock = s.heldLock
        /\ g.brought = s.brought /\ g.before = s.before
        /\ g.applied = s.applied /\ g.seen = s.seen
        /\ g.reported = s.reported /\ g.error = s.error
    BY <1>1, <2>1, StillGoing
  <2> HIDE DEF g
  <2>3. t \in RunnerStates /\ t.timeouts = "caller"
    BY <2>2 DEF Restored, RunnerStates
  <2>4. /\ t.phase = q /\ t.held = s.held
        /\ t.notices = s.notices /\ t.heldLock = s.heldLock
        /\ t.brought = s.brought /\ t.before = s.before
        /\ t.applied = s.applied /\ t.seen = s.seen
        /\ t.reported = s.reported /\ t.error = s.error
    BY <2>2 DEF Restored, RunnerStates
  <2> HIDE DEF t
  <2>5. LockCounts(t) /\ LockKnown(t) /\ Settings(t)
    BY <1>1, <2>1, <2>3, <2>4 DEF Good, Sound, LockKnown, LockCounts, Settings,
       Asking, Holding, Body, Release, After
  <2>6. Counts(t, journal)
    BY <1>1, <2>1, <2>4 DEF Good, Sound, Counts, Afterwards, Release, After
  <2>7. LockKept(s, journal) => LockKept(t, journal)
    BY <2>1, <2>4 DEF LockKept, Holding, Body, Afterwards, Release, After
  <2>8. Good(t, journal)
    BY <1>1, <2>3, <2>5, <2>6, <2>7 DEF Good, Sound
  <2>9. t.held <= s.held
    BY <1>1, <2>4
  <2>10. To(r, t) /\ Quietly => Stepped(r)
    BY <2>8, <2>9, Landing
  <2>11. Fails(r, Reported(Go(r, q), "timeouts")) /\ Quietly => Stepped(r)
    BY <1>1, <2>1, FailReported DEF PutBack, Cleaning, Release
  <2>12. QED
    BY <1>3, <2>10, <2>11 DEF CleanupTimeouts, t, g
<1>4. CASE ReleaseUnlock(r)
  <2> DEFINE g == Go(r, "client_min_messages")
             t == Unlocked(g)
  <2>1. s.phase = "unlock" /\ "client_min_messages" \in Phases
    BY <1>4 DEF ReleaseUnlock, At, Phases, Release
  <2>2. /\ g \in RunnerStates /\ g.phase = "client_min_messages"
        /\ g.held = s.held /\ g.timeouts = s.timeouts
        /\ g.notices = s.notices /\ g.heldLock = s.heldLock
        /\ g.brought = s.brought /\ g.before = s.before
        /\ g.applied = s.applied /\ g.seen = s.seen
        /\ g.reported = s.reported /\ g.error = s.error
    BY <1>1, <2>1, StillGoing
  <2> HIDE DEF g
  <2>3. /\ t \in RunnerStates /\ t.held \in 0 .. 1 /\ t.held <= s.held
        /\ s.held = 2 => t.held = 1
        /\ s.held <= 1 => t.held = 0
    <3>1. /\ t \in RunnerStates /\ t.held \in 0 .. 1 /\ t.held <= g.held
          /\ g.held = 2 => t.held = 1
          /\ g.held <= 1 => t.held = 0
      BY <2>2, HeldLess
    <3>2. QED
      BY <2>2, <3>1
  <2>4. /\ t.phase = "client_min_messages" /\ t.timeouts = s.timeouts
        /\ t.notices = s.notices /\ t.heldLock = s.heldLock
        /\ t.brought = s.brought /\ t.before = s.before
        /\ t.applied = s.applied /\ t.seen = s.seen
        /\ t.reported = s.reported /\ t.error = s.error
    BY <2>2, HeldLess
  <2> HIDE DEF t
  <2>5. LockCounts(t)
    BY <1>1, <2>1, <2>3, <2>4 DEF Good, Sound, LockKnown, LockCounts, Asking,
       Holding, Body, Release, After
  <2>6. LockKnown(t) /\ Settings(t) /\ Counts(t, journal)
    BY <1>1, <2>1, <2>4 DEF Good, Sound, LockKnown, Settings, Counts, Body,
       Afterwards, Release, After
  <2>7. LockKept(s, journal) => LockKept(t, journal)
    BY <2>1, <2>4 DEF LockKept, Holding, Body, Afterwards, Release
  <2>8. Good(t, journal)
    BY <1>1, <2>3, <2>5, <2>6, <2>7 DEF Good, Sound
  <2>9. To(r, t) /\ Quietly => Stepped(r)
    BY <2>3, <2>8, Landing
  <2>10. Fails(r, Reported(Go(r, "client_min_messages"), "unlock")) /\ Quietly => Stepped(r)
    BY <1>1, <2>1, FailReported DEF PutBack, Cleaning, Release
  <2>11. QED
    BY <1>4, <2>9, <2>10 DEF ReleaseUnlock, t, g
<1>5. CASE ReleaseNotices(r)
  <2> DEFINE t == [Go(r, "timeouts") EXCEPT !.notices = "caller"]
  <2>1. s.phase = "client_min_messages" /\ "timeouts" \in Phases
    BY <1>5 DEF ReleaseNotices, At, Phases, Release
  <2>2. /\ t \in RunnerStates /\ t.phase = "timeouts" /\ t.held = s.held
        /\ t.timeouts = s.timeouts /\ t.notices = "caller"
        /\ t.heldLock = s.heldLock /\ t.brought = s.brought
        /\ t.before = s.before /\ t.applied = s.applied /\ t.seen = s.seen
        /\ t.reported = s.reported /\ t.error = s.error
    BY <1>1, <2>1, StillGoing DEF RunnerStates
  <2> HIDE DEF t
  <2>3. Sound(t, journal)
    BY <1>1, <2>1, <2>2 DEF Good, Sound, LockKnown, LockCounts, Settings, Counts,
       Asking, Holding, Afterwards, Body, Release, After
  <2>4. LockKept(s, journal) => LockKept(t, journal)
    BY <1>1, <2>1, <2>2 DEF LockKept, Holding, Body, Afterwards, Release
  <2>5. Good(t, journal)
    BY <1>1, <2>3, <2>4 DEF Good
  <2>6. t.held <= s.held
    BY <1>1, <2>2
  <2>7. To(r, t) /\ Quietly => Stepped(r)
    BY <2>5, <2>6, Landing
  <2>8. Fails(r, Reported(Go(r, "timeouts"), "client_min_messages")) /\ Quietly => Stepped(r)
    BY <1>1, <2>1, FailReported DEF Cleaning, Release, PutBack
  <2>9. QED
    BY <1>5, <2>7, <2>8 DEF ReleaseNotices, t
<1>6. CASE ReleaseTimeouts(r)
  <2> DEFINE q == AfterRelease(r)
             g == Go(r, q)
             t == Restored(g)
  <2>1. /\ s.phase = "timeouts" /\ q \in After /\ q \in Phases
        /\ q = "seed" => s.error = "none"
    BY <1>6 DEF ReleaseTimeouts, At, AfterRelease, After, Phases
  <2>2. /\ g \in RunnerStates /\ g.phase = q /\ g.held = s.held
        /\ g.notices = s.notices /\ g.heldLock = s.heldLock
        /\ g.brought = s.brought /\ g.before = s.before
        /\ g.applied = s.applied /\ g.seen = s.seen
        /\ g.reported = s.reported /\ g.error = s.error
    BY <1>1, <2>1, StillGoing
  <2> HIDE DEF g
  <2>3. t \in RunnerStates /\ t.timeouts = "caller"
    BY <2>2 DEF Restored, RunnerStates
  <2>4. /\ t.phase = q /\ t.held = s.held
        /\ t.notices = s.notices /\ t.heldLock = s.heldLock
        /\ t.brought = s.brought /\ t.before = s.before
        /\ t.applied = s.applied /\ t.seen = s.seen
        /\ t.reported = s.reported /\ t.error = s.error
    BY <2>2 DEF Restored, RunnerStates
  <2> HIDE DEF t
  <2>5. LockCounts(t) /\ LockKnown(t) /\ Settings(t)
    BY <1>1, <2>1, <2>3, <2>4 DEF Good, Sound, LockKnown, LockCounts, Settings,
       Asking, Holding, Body, Release, After
  <2>6. Counts(t, journal)
    BY <1>1, <2>1, <2>4 DEF Good, Sound, Counts, Afterwards, Release, After
  <2>7. LockKept(s, journal) => LockKept(t, journal)
    BY <2>1, <2>4 DEF LockKept, Holding, Body, Afterwards, Release, After
  <2>8. Good(t, journal)
    BY <1>1, <2>3, <2>5, <2>6, <2>7 DEF Good, Sound
  <2>9. t.held <= s.held
    BY <1>1, <2>4
  <2>10. To(r, t) /\ Quietly => Stepped(r)
    BY <2>8, <2>9, Landing
  <2>11. Fails(r, Reported(Go(r, q), "timeouts")) /\ Quietly => Stepped(r)
    BY <1>1, <2>1, FailReported DEF Release
  <2>12. QED
    BY <1>6, <2>10, <2>11 DEF ReleaseTimeouts, t, g
<1>7. QED
  BY <1>2, <1>3, <1>4, <1>5, <1>6

\* The journal only grows, and no one but the holder of the lock minds it.
LEMMA Growing ==
  ASSUME NEW s, NEW j \in 0 .. Migrations, Good(s, j)
  PROVE  /\ Sound(s, Migrations)
         /\ s.phase \notin Holding => Good(s, Migrations)
         /\ (~idleLoss => s.held = 0) => Good(s, Migrations)
<1>1. s.before \in 0 .. Migrations /\ s.held \in 0 .. 2 /\ Migrations \in Nat
  BY MigrationAssumption, Types DEF Good, Sound
<1>2. s.before <= Migrations
  BY <1>1
<1>3. Counts(s, Migrations)
  BY <1>2 DEF Good, Sound, Counts
<1>4. Sound(s, Migrations)
  BY <1>3 DEF Good, Sound
<1>5. s.held = 0 /\ LockKept(s, j) => s.phase \notin Holding
  <2>1. s.held = 0 => ~(s.held > 0)
    OBVIOUS
  <2>2. QED
    BY <2>1 DEF LockKept
<1>6. s.phase \notin Holding /\ LockKept(s, j) => LockKept(s, Migrations)
  BY DEF LockKept, Holding, Body
<1>7. QED
  BY <1>4, <1>5, <1>6 DEF Good

\* The migrator's transaction, the one statement that writes the journal.
LEMMA ApplyStepped ==
  ASSUME IInv, NEW r \in Runners, Apply(r)
  PROVE  Stepped(r)
<1> DEFINE s == run[r]
<1>1. /\ Good(s, journal) /\ s \in RunnerStates /\ s.held \in 0 .. 2
      /\ journal \in 0 .. Migrations /\ Migrations \in Nat
      /\ s.phase = "apply" /\ s.phase \in Holding
  BY MigrationAssumption, Types DEF IInv, Apply, At, Holding, Body
<1>2. ASSUME s.seen < journal, To(r, Thrown(r, "unlock", "conflict")), Quietly
      PROVE  Stepped(r)
  <2> DEFINE t == Thrown(r, "unlock", "conflict")
  <2>1. "unlock" \in Phases
    BY DEF Phases, Release
  <2>2. /\ t \in RunnerStates /\ t.phase = "unlock" /\ t.held = s.held
        /\ t.timeouts = s.timeouts /\ t.notices = s.notices
        /\ t.heldLock = s.heldLock /\ t.brought = s.brought
        /\ t.before = s.before /\ t.reported = s.reported
        /\ t.error = "conflict"
    BY <1>1, <2>1, Throwing
  <2> HIDE DEF t
  <2>3. Sound(t, journal)
    BY <1>1, <2>2 DEF Good, Sound, LockKnown, LockCounts, Settings, Counts,
       Asking, Holding, Afterwards, Body, Release, After
  <2>4. s.seen # journal
    <3>1. s.seen \in 0 .. Migrations
      BY <1>1, Types
    <3>2. QED
      BY <1>1, <1>2, <3>1
  <2>5. idleLoss
    BY <1>1, <2>4 DEF IInv, Good, LockKept
  <2>6. Good(t, journal) /\ t.held <= s.held
    BY <1>1, <2>2, <2>3, <2>5 DEF Good
  <2>7. QED
    BY <1>2, <2>6, Landing DEF t
<1>3. ASSUME To(r, Go(r, "recount")), journal' = Migrations, UNCHANGED seeded
      PROVE  Stepped(r)
  <2> DEFINE t == Go(r, "recount")
  <2>1. "recount" \in Phases
    BY DEF Phases, Body
  <2>2. /\ t \in RunnerStates /\ t.phase = "recount" /\ t.held = s.held
        /\ t.timeouts = s.timeouts /\ t.notices = s.notices
        /\ t.heldLock = s.heldLock /\ t.brought = s.brought
        /\ t.before = s.before /\ t.seen = s.seen /\ t.reported = s.reported
        /\ t.error = s.error
    BY <1>1, <2>1, StillGoing
  <2> HIDE DEF t
  <2>3. t.before <= Migrations
    BY <1>1, <2>2, Growing DEF Sound, Counts
  <2>4. Sound(t, Migrations)
    BY <1>1, <2>2, <2>3 DEF Good, Sound, LockKnown, LockCounts, Settings, Counts,
       Asking, Holding, Afterwards, Body, Release, After
  <2>5. LockKept(s, journal) => LockKept(t, Migrations)
    BY <1>1, <2>2 DEF LockKept, Holding, Body, Afterwards, Release
  <2>6. Good(t, journal') /\ t.held <= s.held
    BY <1>1, <1>3, <2>2, <2>4, <2>5 DEF Good
  <2>7. QED
    BY <1>1, <1>3, <2>6 DEF t, Stepped, To
<1>4. ASSUME Fails(r, Thrown(r, "unlock", "other")), Quietly
      PROVE  Stepped(r)
  BY <1>1, <1>4, FailClosed
<1>5. ASSUME To(r, Replaced(Thrown(r, "unlock", "other"))), journal' = Migrations,
             UNCHANGED seeded
      PROVE  Stepped(r)
  <2> DEFINE t == Thrown(r, "unlock", "other")
             u == Replaced(t)
  <2>1. "unlock" \in Phases /\ "unlock" \notin Holding
    BY DEF Phases, Release, Holding, Body
  <2>2. t \in RunnerStates /\ t.phase \notin Holding /\ Good(t, journal)
    BY <1>1, <2>1, Throwing, ThrownGood
  <2> HIDE DEF t
  <2>3. Good(u, journal) /\ u.phase \notin Holding /\ u.held = 0
    BY <2>2, Replacement, Replacing
  <2> HIDE DEF u
  <2>4. Good(u, journal')
    BY <1>1, <1>5, <2>3, Growing
  <2>5. u.held <= s.held
    BY <1>1, <2>3
  <2>6. QED
    BY <1>1, <1>5, <2>4, <2>5 DEF t, u, Stepped, To
<1>6. QED
  BY <1>2, <1>3, <1>4, <1>5 DEF Apply, Quietly, Fails

\* The seed, which follows a run that did not throw.
LEMMA SeedStepped ==
  ASSUME IInv, NEW r \in Runners, Seed(r)
  PROVE  Stepped(r)
<1> DEFINE s == run[r]
<1>1. /\ Good(s, journal) /\ s \in RunnerStates /\ s.held \in 0 .. 2
      /\ s.phase = "seed" /\ journal = Migrations
  BY Types DEF IInv, Seed, At, Good, Sound, Counts, Afterwards
<1>2. ASSUME To(r, Go(r, "close")), seeded' = TRUE, journal' = journal
      PROVE  Stepped(r)
  <2> DEFINE t == Go(r, "close")
  <2>1. "close" \in Phases
    BY DEF Phases, After
  <2>2. /\ t \in RunnerStates /\ t.phase = "close" /\ t.held = s.held
        /\ t.timeouts = s.timeouts /\ t.notices = s.notices
        /\ t.heldLock = s.heldLock /\ t.brought = s.brought
        /\ t.before = s.before /\ t.seen = s.seen /\ t.reported = s.reported
        /\ t.error = s.error
    BY <1>1, <2>1, StillGoing
  <2> HIDE DEF t
  <2>3. Sound(t, journal)
    BY <1>1, <2>2 DEF Good, Sound, LockKnown, LockCounts, Settings, Counts,
       Asking, Holding, Afterwards, Body, Release, After
  <2>4. LockKept(s, journal) => LockKept(t, journal)
    BY <1>1, <2>2 DEF LockKept, Holding, Body, Afterwards, Release
  <2>5. Good(t, journal') /\ t.held <= s.held
    BY <1>1, <1>2, <2>2, <2>3, <2>4 DEF Good
  <2>6. QED
    BY <1>1, <1>2, <2>5 DEF t, Stepped, To
<1>3. ASSUME Fails(r, Thrown(r, "close", "other")), journal' = journal
      PROVE  Stepped(r)
  BY <1>1, <1>3, FailClosed DEF Fails, Quietly
<1>4. QED
  BY <1>2, <1>3 DEF Seed

\* The end of a runner, and of a session.
LEMMA OverStepped ==
  ASSUME IInv, NEW r \in Runners, Close(r) \/ Crash(r) \/ SessionReplaced(r)
  PROVE  Stepped(r)
<1> DEFINE s == run[r]
<1>1. Good(s, journal) /\ s \in RunnerStates /\ s.held \in 0 .. 2 /\ Quietly
  BY Types DEF IInv, Close, Crash, SessionReplaced
<1>2. ASSUME NEW t \in RunnerStates, t.phase = "over", ~idleLoss => t.error # "conflict",
             t.heldLock = s.heldLock, t.brought = s.brought, t.before = s.before,
             t.held = s.held, To(r, Replaced(t))
      PROVE  Stepped(r)
  <2> DEFINE u == Replaced(t)
  <2>1. /\ u \in RunnerStates /\ u.phase = "over" /\ u.held = 0
        /\ u.timeouts = "caller" /\ u.notices = "caller"
        /\ u.heldLock = s.heldLock
        /\ u.brought = IF s.brought = "lock" THEN "lost" ELSE s.brought
        /\ u.before = s.before /\ u.error = t.error
    BY <1>2, Replacing
  <2> HIDE DEF u
  <2>2. LockKnown(u)
    BY <1>1, <2>1 DEF Good, Sound, LockKnown
  <2>3. LockCounts(u)
    BY <2>1 DEF LockCounts, Asking, Holding, Body, Release, After
  <2>4. Settings(u)
    BY <2>1 DEF Settings
  <2>5. Counts(u, journal) /\ (~idleLoss => LockKept(u, journal))
    BY <1>1, <1>2, <2>1 DEF Good, Sound, Counts, LockKept, Holding, Body, Afterwards,
       Release
  <2>6. Good(u, journal)
    BY <2>1, <2>2, <2>3, <2>4, <2>5 DEF Good, Sound
  <2>7. u.held <= s.held
    BY <1>1, <2>1
  <2>8. QED
    BY <1>1, <1>2, <2>6, <2>7, Landing DEF u
<1>3. CASE Close(r)
  <2> DEFINE g == Go(r, "over")
             e == [g EXCEPT !.error = IF @ = "none" THEN "close" ELSE @]
  <2>1. "over" \in Phases /\ s.phase = "close"
    BY <1>3 DEF Phases, Close, At
  <2>2. /\ g \in RunnerStates /\ g.phase = "over" /\ g.held = s.held
        /\ g.heldLock = s.heldLock /\ g.brought = s.brought
        /\ g.before = s.before /\ g.error = s.error
    BY <1>1, <2>1, StillGoing
  <2> HIDE DEF g
  <2>3. /\ e \in RunnerStates /\ e.phase = g.phase /\ e.held = g.held
        /\ e.heldLock = g.heldLock /\ e.brought = g.brought
        /\ e.before = g.before
        /\ e.error = IF g.error = "none" THEN "close" ELSE g.error
    BY <2>2 DEF RunnerStates
  <2> HIDE DEF e
  <2>4. ~idleLoss => g.error # "conflict" /\ e.error # "conflict"
    BY <1>1, <2>2, <2>3 DEF Good, LockKept
  <2>5. To(r, Replaced(g)) \/ To(r, Replaced(e))
    BY <1>3 DEF Close, g, e
  <2>6. QED
    BY <1>2, <2>2, <2>3, <2>4, <2>5
<1>4. CASE Crash(r)
  <2> DEFINE t == Thrown(r, "over", "other")
  <2>1. "over" \in Phases
    BY DEF Phases
  <2>2. /\ t \in RunnerStates /\ t.phase = "over" /\ t.held = s.held
        /\ t.heldLock = s.heldLock /\ t.brought = s.brought
        /\ t.before = s.before /\ t.error = "other"
    BY <1>1, <2>1, Throwing
  <2> HIDE DEF t
  <2>3. To(r, Replaced(t))
    BY <1>4 DEF Crash, t
  <2>4. QED
    BY <1>2, <2>2, <2>3
<1>5. CASE SessionReplaced(r)
  <2>1. idleLoss /\ To(r, Replaced(s))
    BY <1>5 DEF SessionReplaced
  <2>2. Good(Replaced(s), journal)
    BY <1>1, <2>1, Replacement DEF Good
  <2>3. Replaced(s).held <= s.held
    BY <1>1, Replacing
  <2>4. QED
    BY <1>1, <2>1, <2>2, <2>3, Landing
<1>6. QED
  BY <1>3, <1>4, <1>5

-----------------------------------------------------------------------------
(* All runners *)

\* Whatever a runner does, it changes its own record to a good one.
LEMMA EveryStep ==
  ASSUME IInv, NEW r \in Runners, Statement(r) \/ Crash(r) \/ SessionReplaced(r)
  PROVE  Stepped(r)
BY AskingStepped, GrantedStepped, AttemptStepped, HoldingStepped, ApplyStepped,
   PutBackStepped, SeedStepped, OverStepped DEF Statement

\* Such a change keeps what is known of the others: the lock is taken only when it
\* is free, and the journal grows only under its holder.
LEMMA StepKeeps ==
  ASSUME IInv, NEW r \in Runners, Stepped(r)
  PROVE  IInv'
<1>1. PICK t : /\ run' = [run EXCEPT ![r] = t] /\ Good(t, journal')
               /\ t.held <= run[r].held \/ LockFree(r)
  BY DEF Stepped
<1>2. /\ run \in [Runners -> RunnerStates] /\ journal \in 0 .. Migrations
      /\ \A other \in Runners : Good(run[other], journal)
      /\ Migrations \in Nat /\ UNCHANGED idleLoss
  BY MigrationAssumption DEF IInv, Stepped
<1>3. t \in RunnerStates /\ t.held \in 0 .. 2
  BY <1>1, Types DEF Good, Sound
<1>4. run' \in [Runners -> RunnerStates] /\ journal' \in 0 .. Migrations
  BY <1>1, <1>2, <1>3 DEF Stepped
<1>5. run'[r] = t /\ \A other \in Runners \ {r} : run'[other] = run[other]
  BY <1>1, <1>2
<1>6. seeded' \in BOOLEAN /\ idleLoss' \in BOOLEAN
      /\ (seeded' => journal' = Migrations)
  <2>1. seeded \in BOOLEAN /\ idleLoss \in BOOLEAN
    BY Zenon DEF IInv
  <2>2. idleLoss' \in BOOLEAN
    BY <1>2, <2>1, Zenon
  <2>3. seeded' \in BOOLEAN
    BY <2>1, Zenon DEF Stepped
  <2>4. seeded' => journal' = Migrations
    BY Zenon DEF IInv, Stepped
  <2>5. QED
    BY <2>2, <2>3, <2>4
<1>7. Exclusive'
  <2> SUFFICES ASSUME NEW a \in Runners, NEW b \in Runners,
                      run'[a].held > 0, run'[b].held > 0
               PROVE  a = b
    BY DEF Exclusive
  <2>1. \A other \in Runners \ {r} : t.held > 0 => run[other].held = 0
    <3> SUFFICES ASSUME NEW other \in Runners \ {r}, t.held > 0
                 PROVE  run[other].held = 0
      OBVIOUS
    <3>1. run[other].held \in 0 .. 2 /\ run[r].held \in 0 .. 2
      BY <1>2, Types
    <3>2. CASE t.held <= run[r].held
      <4>1. run[r].held > 0
        BY <1>3, <3>1, <3>2
      <4>2. ~(run[other].held > 0)
        BY <4>1 DEF IInv, Exclusive
      <4>3. QED
        BY <3>1, <4>2
    <3>3. CASE LockFree(r)
      BY <3>3 DEF LockFree
    <3>4. QED
      BY <1>1, <3>2, <3>3
  <2>2. CASE a # r /\ b # r
    BY <1>5, <2>2 DEF IInv, Exclusive
  <2>3. ASSUME NEW c \in Runners \ {r}, run'[c].held > 0, run'[r].held > 0
        PROVE  FALSE
    <3>1. run[c].held = 0 /\ run[c].held > 0
      BY <1>5, <2>1, <2>3
    <3>2. QED
      BY <3>1
  <2>4. QED
    BY <2>2, <2>3
<1>8. ASSUME NEW other \in Runners
      PROVE  Good(run'[other], journal')
  <2>1. CASE other = r
    BY <1>1, <1>5, <2>1
  <2>2. CASE other # r /\ journal' = journal
    BY <1>2, <1>5, <2>2
  <2>3. CASE other # r /\ run[r].phase = "apply" /\ journal' = Migrations
    <3>1. ASSUME ~idleLoss
          PROVE  run[other].held = 0
      <4>1. run[r].held > 0
        BY <1>2, <2>3, <3>1 DEF Good, LockKept, Holding, Body
      <4>2. ~(run[other].held > 0)
        BY <2>3, <4>1 DEF IInv, Exclusive
      <4>3. run[other].held \in 0 .. 2
        BY <1>2, Types
      <4>4. QED
        BY <4>2, <4>3
    <3>2. Good(run[other], Migrations)
      BY <1>2, <3>1, Growing
    <3>3. QED
      BY <1>5, <2>3, <3>2
  <2>4. QED
    BY <2>1, <2>2, <2>3 DEF Stepped
<1>9. (\A other \in Runners : Good(run[other], journal))'
  BY <1>2, <1>8 DEF Good
<1>10. QED
  BY <1>4, <1>6, <1>7, <1>9 DEF IInv

\* A runner that has done nothing yet, with the lock brought or without.
LEMMA FreshGood ==
  ASSUME NEW h \in {0, 1}, journal \in 0 .. Migrations
  PROVE  Good(Fresh(h), journal) /\ Fresh(h).held = h
<1> DEFINE t == Fresh(h)
<1>1. Migrations \in Nat
  BY MigrationAssumption
<1>2. /\ t.phase = "read_session" /\ t.held = h /\ t.timeouts = "caller"
      /\ t.notices = "caller" /\ t.heldLock = "free"
      /\ t.brought = (IF h > 0 THEN "lock" ELSE "nothing")
      /\ t.before = 0 /\ t.reported = {} /\ t.error = "none"
  BY DEF Fresh
<1>3. t \in RunnerStates
  BY <1>1 DEF Fresh, RunnerStates, Phases
<1> HIDE DEF t
<1>4. LockCounts(t)
  <2>1. CASE h = 0
    BY <1>2, <2>1 DEF LockCounts, Asking, Holding, Body, Release, After
  <2>2. CASE h = 1
    BY <1>2, <2>2 DEF LockCounts, Asking, Holding, Body, Release, After
  <2>3. QED
    BY <2>1, <2>2
<1>5. LockKnown(t) /\ Settings(t)
  BY <1>2 DEF LockKnown, Settings, Body, Release, After
<1>6. t.before <= journal
  BY <1>1, <1>2
<1>7. Counts(t, journal) /\ LockKept(t, journal)
  BY <1>2, <1>6 DEF Counts, LockKept, Holding, Body, Afterwards, Release
<1>8. QED
  BY <1>2, <1>3, <1>4, <1>5, <1>7 DEF Good, Sound, t

\* The invariant is one.
LEMMA Invariance == Spec => []IInv
<1>1. Init => IInv
  <2> SUFFICES ASSUME Init PROVE IInv
    OBVIOUS
  <2>1. PICK f \in [Runners -> {0, 1}] :
          /\ run = [r \in Runners |-> Fresh(f[r])]
          /\ \A r, other \in Runners : f[r] = 1 /\ f[other] = 1 => r = other
    <3>1. CASE run = [r \in Runners |-> Fresh(0)]
      <4> DEFINE f == [r \in Runners |-> 0]
      <4>1. f \in [Runners -> {0, 1}]
        OBVIOUS
      <4>2. run = [r \in Runners |-> Fresh(f[r])]
        BY <3>1
      <4>3. \A r, other \in Runners : f[r] = 1 /\ f[other] = 1 => r = other
        OBVIOUS
      <4>4. QED
        BY <4>1, <4>2, <4>3
    <3>2. ASSUME NEW holder \in Runners,
                 run = [r \in Runners |-> Fresh(IF r = holder THEN 1 ELSE 0)]
          PROVE  \E f \in [Runners -> {0, 1}] :
                   /\ run = [r \in Runners |-> Fresh(f[r])]
                   /\ \A r, other \in Runners : f[r] = 1 /\ f[other] = 1 => r = other
      <4> DEFINE f == [r \in Runners |-> IF r = holder THEN 1 ELSE 0]
      <4>1. f \in [Runners -> {0, 1}]
        OBVIOUS
      <4>2. run = [r \in Runners |-> Fresh(f[r])]
        BY <3>2
      <4>3. \A r, other \in Runners : f[r] = 1 /\ f[other] = 1 => r = other
        OBVIOUS
      <4>4. QED
        BY <4>1, <4>2, <4>3
    <3>3. QED
      BY <3>1, <3>2 DEF Init
  <2>2. journal \in 0 .. Migrations /\ seeded = FALSE /\ idleLoss \in BOOLEAN
    BY DEF Init
  <2>3. \A r \in Runners : Good(run[r], journal) /\ run[r].held = f[r]
    BY <2>1, <2>2, FreshGood
  <2>4. Exclusive
    <3> SUFFICES ASSUME NEW a \in Runners, NEW b \in Runners,
                        run[a].held > 0, run[b].held > 0
                 PROVE  a = b
      BY DEF Exclusive
    <3>1. f[a] = 1 /\ f[b] = 1
      BY <2>1, <2>3
    <3>2. QED
      BY <2>1, <3>1
  <2>5. run \in [Runners -> RunnerStates]
    BY <2>1, <2>3 DEF Good, Sound
  <2>6. QED
    BY <2>2, <2>3, <2>4, <2>5 DEF IInv
<1>2. IInv /\ [Next]_vars => IInv'
  <2> SUFFICES ASSUME IInv, [Next]_vars PROVE IInv'
    OBVIOUS
  <2>1. CASE Next
    BY <2>1, EveryStep, StepKeeps DEF Next
  <2>2. CASE UNCHANGED vars
    BY <2>2 DEF IInv, Exclusive, Good, vars
  <2>3. QED
    BY <2>1, <2>2
<1>3. QED
  BY <1>1, <1>2, PTL DEF Spec, SafetySpec

-----------------------------------------------------------------------------
(* What follows *)

\* Every runner's record, the journal and the seed keep their types.
THEOREM TypeCorrect == Spec => []TypeOK
<1>1. IInv => TypeOK
  BY DEF IInv, TypeOK
<1>2. QED
  BY <1>1, Invariance, PTL

\* The lock a caller brought to a run is still its own, whatever becomes of the
\* run and of the other runners: no cleanup gives it away.
THEOREM OwnLockAlwaysKept == Spec => []OwnLockKept
<1>1. IInv => OwnLockKept
  <2> SUFFICES ASSUME IInv, NEW r \in Runners, run[r].brought = "lock"
               PROVE  run[r].held > 0
    BY DEF OwnLockKept
  <2>1. run[r].held >= 1 /\ run[r].held \in 0 .. 2
    BY Types DEF IInv, Good, Sound, LockCounts
  <2>2. QED
    BY <2>1
<1>2. QED
  BY <1>1, Invariance, PTL

\* A caller finds its session as it left it, or is told what failed - also when
\* sessions are replaced at any moment.
THEOREM SessionAlwaysPutBack == Spec => []SessionPutBack
<1>1. IInv => SessionPutBack
  <2> SUFFICES ASSUME IInv, NEW r \in Runners, run[r].phase \in After
               PROVE  /\ run[r].held > 0 => run[r].brought # "nothing" \/ run[r].reported # {}
                      /\ run[r].timeouts # "caller" => run[r].reported # {}
                      /\ run[r].notices # "caller" => run[r].reported # {}
    BY DEF SessionPutBack
  <2>1. Sound(run[r], journal)
    BY DEF IInv, Good
  <2>2. run[r].held > 0 => run[r].brought # "nothing" \/ run[r].reported # {}
    <3>1. run[r].brought = "nothing" => run[r].held = 0 \/ run[r].reported # {}
      BY <2>1 DEF Sound, LockCounts
    <3>2. QED
      BY <3>1
  <2>3. run[r].timeouts # "caller" => run[r].reported # {}
    BY <2>1 DEF Sound, Settings
  <2>4. run[r].notices # "caller" => run[r].reported # {}
    BY <2>1 DEF Sound, Settings, After, Body
  <2>5. QED
    BY <2>2, <2>3, <2>4
<1>2. QED
  BY <1>1, Invariance, PTL

\* While sessions are not replaced behind a runner's back, the lock excludes:
\* no runner applies what another has applied since it looked.
THEOREM NeverAConflict == Spec => []NoConflict
<1>1. IInv => NoConflict
  BY DEF IInv, Good, LockKept, NoConflict
<1>2. QED
  BY <1>1, Invariance, PTL

\* ... and what a runner reports as applied is what it applied itself.
THEOREM OutcomeAlwaysOwn == Spec => []OutcomeIsOwn
<1>1. IInv => OutcomeIsOwn
  BY DEF IInv, Good, LockKept, OutcomeIsOwn, Afterwards
<1>2. QED
  BY <1>1, Invariance, PTL

\* The seed is only ever written over a complete journal.
THEOREM SeedAlwaysFollows == Spec => []SeedFollows
<1>1. IInv => SeedFollows
  BY DEF IInv, SeedFollows
<1>2. QED
  BY <1>1, Invariance, PTL

-----------------------------------------------------------------------------
(* The handle of the probes *)

CallStates == {"idle", "waiting", "closed", "limit", "failed", "answered"}
ClientStates == {"unused", "fresh", "up", "silent", "ending"}
PollStates == {"idle", "waiting", "up", "down"}
Calls == [state : CallStates, on : Clients \cup {None}, age : Nat]

ProbeTypeOK ==
  /\ client \in [Clients -> ClientStates]
  /\ current \in Clients
  /\ queue \in Seq(Callers)
  /\ spent \in Nat
  /\ call \in [Callers -> Calls]
  /\ closing \in {"no", "current", "destroyed", "over"}
  /\ closeAge \in Nat

\* A call that waits is in the queue of the current client, and no older than
\* the limit that would take the client down.
QueueInv ==
  /\ WaitsOnCurrent
  /\ Open => Waiting \subseteq Range(queue)
  /\ closing = "no" => \A c \in Waiting : call[c].age <= Limit

\* There is one client to ask, as long as the handle is open; the others are
\* gone, or being ended.
EndInv ==
  /\ \A k \in Clients \ {current} : client[k] \in {"unused", "ending"}
  /\ Open => client[current] \in {"fresh", "up", "silent"}
  /\ ~Open => client[current] = "unused"
  /\ closing = "over" => \A k \in Clients : client[k] = "unused"

ProbeInv == ProbeTypeOK /\ QueueInv /\ EndInv

HealthTypeOK ==
  /\ poll \in [Polls -> [state : PollStates, age : Nat, sure : BOOLEAN]]
  /\ healthy \in BOOLEAN
  /\ calm \in 0 .. Settled

\* While the database is well, time passes only for calls on a silent
\* connection, and the call of the polls is the oldest witness of it.
CalmInv ==
  /\ ~healthy => calm = 0
  /\ closing = "no" /\ calm >= 1 /\ client[current] = "silent" =>
       Flight \in Waiting /\ call[Flight].age >= calm - 1
  /\ closing = "no" /\ calm >= 2 /\ client[current] # "silent" =>
       \A c \in Waiting : call[c].age = 0

\* A poll that may be sure of its answer has it already, or gets it in no time.
SureInv ==
  /\ Pending # {} => closing = "no"
  /\ \A p \in Polls : poll[p].sure =>
       /\ calm = Settled
       /\ poll[p].state \in {"waiting", "up"}
       /\ p \in Pending => /\ poll[p].age = 0
                           /\ call[Flight].state \in {"waiting", "answered"}

HealthInv == ProbeInv /\ HealthTypeOK /\ CalmInv /\ SureInv

-----------------------------------------------------------------------------
(* The queue of a client *)

LEMMA QueueLonger ==
  ASSUME NEW q \in Seq(Callers), NEW c \in Callers
  PROVE  /\ Append(q, c) \in Seq(Callers)
         /\ Range(Append(q, c)) = Range(q) \cup {c}
<1>1. /\ Append(q, c) \in Seq(Callers)
      /\ DOMAIN Append(q, c) = 1 .. Len(q) + 1 /\ DOMAIN q = 1 .. Len(q)
      /\ Len(q) \in Nat
      /\ Append(q, c)[Len(q) + 1] = c
      /\ \A i \in 1 .. Len(q) : Append(q, c)[i] = q[i]
  OBVIOUS
<1>2. Range(Append(q, c)) \subseteq Range(q) \cup {c}
  <2> SUFFICES ASSUME NEW i \in 1 .. Len(q) + 1
               PROVE  Append(q, c)[i] \in Range(q) \cup {c}
    BY <1>1 DEF Range
  <2>1. i \in 1 .. Len(q) \/ i = Len(q) + 1
    BY <1>1
  <2> QED
    BY <1>1, <2>1 DEF Range
<1>3. Range(q) \subseteq Range(Append(q, c))
  <2> SUFFICES ASSUME NEW i \in 1 .. Len(q) PROVE q[i] \in Range(Append(q, c))
    BY <1>1 DEF Range
  <2>1. i \in 1 .. Len(q) + 1
    BY <1>1
  <2> QED
    BY <1>1, <2>1 DEF Range
<1>4. c \in Range(Append(q, c))
  <2>1. Len(q) + 1 \in 1 .. Len(q) + 1
    BY <1>1
  <2> QED
    BY <1>1, <2>1 DEF Range
<1> QED
  BY <1>1, <1>2, <1>3, <1>4

LEMMA QueueShorter ==
  ASSUME NEW q \in Seq(Callers), q # <<>>
  PROVE  /\ Tail(q) \in Seq(Callers)
         /\ Head(q) \in Callers
         /\ Range(q) \subseteq {Head(q)} \cup Range(Tail(q))
<1>1. /\ Tail(q) \in Seq(Callers) /\ Head(q) \in Callers /\ Head(q) = q[1]
      /\ Len(q) \in Nat /\ DOMAIN q = 1 .. Len(q)
      /\ DOMAIN Tail(q) = 1 .. Len(q) - 1
      /\ \A i \in 1 .. Len(q) - 1 : Tail(q)[i] = q[i + 1]
  OBVIOUS
<1>2. ASSUME NEW i \in 1 .. Len(q) PROVE q[i] \in {Head(q)} \cup Range(Tail(q))
  <2>1. CASE i = 1
    BY <1>1, <2>1
  <2>2. CASE i # 1
    <3>1. i - 1 \in 1 .. Len(q) - 1 /\ (i - 1) + 1 = i
      BY <1>1, <2>2
    <3>2. Tail(q)[i - 1] = q[i]
      BY <1>1, <3>1
    <3> QED
      BY <1>1, <3>1, <3>2 DEF Range
  <2> QED
    BY <2>1, <2>2
<1> QED
  BY <1>1, <1>2 DEF Range

LEMMA QueueEmpty == Range(<<>>) = {} /\ <<>> \in Seq(Callers)
  BY DEF Range

\* What ends keeps its record well formed, and the others keep theirs.
LEMMA Settles ==
  ASSUME ProbeTypeOK, NEW cs, NEW outcome \in CallStates \ {"waiting"},
         call' = Settle(cs, outcome)
  PROVE  /\ call' \in [Callers -> Calls]
         /\ Waiting' = Waiting \ cs
         /\ \A c \in Callers : call'[c] = call[c] \/ (c \in cs /\ call'[c].state = outcome)
         /\ \A c \in Waiting' : call'[c] = call[c]
<1>1. \A c \in Callers : call'[c] = IF c \in cs \cap Waiting
                                     THEN [state |-> outcome, on |-> None, age |-> 0]
                                     ELSE call[c]
  BY DEF Settle
<1>2. [state |-> outcome, on |-> None, age |-> 0] \in Calls
  BY DEF Calls
<1>3. call' \in [Callers -> Calls]
  BY <1>2 DEF Settle, ProbeTypeOK
<1>4. \A c \in Callers : call'[c] = call[c] \/ (c \in cs /\ call'[c].state = outcome)
  BY <1>1
<1>5. Waiting' = Waiting \ cs
  BY <1>1 DEF Waiting
<1> QED
  BY <1>1, <1>3, <1>4, <1>5 DEF Waiting

-----------------------------------------------------------------------------
(* The handle keeps its invariant, whoever calls it *)

LEMMA RunKeeps ==
  ASSUME ProbeInv, NEW c \in Callers, Run(c)
  PROVE  /\ ProbeInv'
         /\ closing = "no" => Waiting' = Waiting \cup {c} /\ call'[c].age = 0
         /\ \A d \in Callers \ {c} : call'[d] = call[d]
<1>1. CASE closing # "no"
  <2>1. /\ call' = [call EXCEPT ![c].state = "closed"]
        /\ UNCHANGED <<queue, client, current, spent, closing, closeAge>>
    BY <1>1 DEF Run
  <2>2. call' \in [Callers -> Calls] /\ \A d \in Callers \ {c} : call'[d] = call[d]
    BY <2>1 DEF ProbeInv, ProbeTypeOK, Calls, CallStates
  <2>3. Waiting' = Waiting \ {c} /\ \A d \in Waiting' : call'[d] = call[d]
    BY <2>1, <2>2 DEF Waiting, ProbeInv, ProbeTypeOK, Calls
  <2>4. ProbeTypeOK' /\ EndInv'
    BY <2>1, <2>2 DEF ProbeInv, ProbeTypeOK, EndInv, Open
  <2>5. QueueInv'
    BY <1>1, <2>1, <2>3 DEF ProbeInv, QueueInv, WaitsOnCurrent, Open
  <2> QED
    BY <1>1, <2>2, <2>4, <2>5 DEF ProbeInv
<1>2. CASE closing = "no"
  <2>1. /\ call' = [call EXCEPT ![c] = [state |-> "waiting", on |-> current, age |-> 0]]
        /\ queue' = Append(queue, c)
        /\ UNCHANGED <<client, current, spent, closing, closeAge>>
    BY <1>2 DEF Run
  <2>2. [state |-> "waiting", on |-> current, age |-> 0] \in Calls
    BY DEF ProbeInv, ProbeTypeOK, Calls, CallStates
  <2>3. /\ call' \in [Callers -> Calls]
        /\ \A d \in Callers \ {c} : call'[d] = call[d]
        /\ call'[c] = [state |-> "waiting", on |-> current, age |-> 0]
    BY <2>1, <2>2 DEF ProbeInv, ProbeTypeOK
  <2>4. Waiting' = Waiting \cup {c}
    BY <2>3 DEF Waiting
  <2>5. queue' \in Seq(Callers) /\ Range(queue') = Range(queue) \cup {c}
    BY <2>1, QueueLonger DEF ProbeInv, ProbeTypeOK
  <2>6. ProbeTypeOK' /\ EndInv'
    BY <2>1, <2>3, <2>5 DEF ProbeInv, ProbeTypeOK, EndInv, Open
  <2>7. 0 <= Limit
    BY ProbeAssumption
  <2>8. QueueInv'
    BY <2>1, <2>3, <2>4, <2>5, <2>7 DEF ProbeInv, QueueInv, WaitsOnCurrent, Open
  <2> QED
    BY <1>2, <2>3, <2>4, <2>6, <2>8 DEF ProbeInv
<1> QED
  BY <1>1, <1>2

\* A limit takes down the client everyone waits on: nobody is left behind.
LEMMA LimitKeeps ==
  ASSUME ProbeInv, NEW c \in Callers, LimitFires(c)
  PROVE  /\ ProbeInv' /\ Waiting' = {} /\ client'[current'] = "fresh"
         /\ call[c].age = Limit /\ c \in Waiting
         /\ closing = "no" /\ UNCHANGED <<closing, closeAge>>
<1>1. /\ closing = "no" /\ c \in Waiting /\ call[c].age = Limit /\ call[c].on = current
      /\ UNCHANGED <<closing, closeAge>>
  BY DEF LimitFires, Armed, ProbeInv, QueueInv, WaitsOnCurrent
<1>2. PICK new \in Clients :
        /\ client[new] = "unused" /\ current' = new
        /\ client' = [client EXCEPT ![current] = "ending", ![new] = "fresh"]
        /\ queue' = <<>> /\ spent' = 0
        /\ call' = Settle({d \in Callers : call[d].on = current}, "limit")
  BY <1>1 DEF LimitFires, Destroy
<1>3. "limit" \in CallStates \ {"waiting"}
  BY DEF CallStates
<1>4. /\ call' \in [Callers -> Calls]
      /\ Waiting' = Waiting \ {d \in Callers : call[d].on = current}
  BY <1>2, <1>3, Settles DEF ProbeInv
<1>5. Waiting' = {}
  BY <1>4 DEF ProbeInv, QueueInv, WaitsOnCurrent, Waiting
<1>6. new # current
  BY <1>1, <1>2 DEF ProbeInv, EndInv, Open
<1>7. /\ client' \in [Clients -> ClientStates]
      /\ client'[new] = "fresh" /\ client'[current] = "ending"
      /\ \A k \in Clients \ {new, current} : client'[k] = client[k]
  BY <1>2, <1>6 DEF ProbeInv, ProbeTypeOK, ClientStates
<1>8. ProbeTypeOK'
  BY <1>1, <1>2, <1>4, <1>7, QueueEmpty DEF ProbeInv, ProbeTypeOK
<1>9. EndInv'
  BY <1>1, <1>2, <1>7 DEF ProbeInv, EndInv, Open
<1>10. QueueInv'
  BY <1>5 DEF QueueInv, WaitsOnCurrent
<1> QED
  BY <1>1, <1>2, <1>5, <1>7, <1>8, <1>9, <1>10 DEF ProbeInv

LEMMA DestroyedKeeps ==
  ASSUME ProbeInv, NEW k \in Clients, DestroyedEnds(k)
  PROVE  /\ ProbeInv' /\ UNCHANGED <<current, queue, spent, call, closing, closeAge>>
         /\ client'[current] = client[current]
<1>1. /\ client[k] = "ending" /\ client' = [client EXCEPT ![k] = "unused"]
      /\ UNCHANGED <<current, queue, spent, call, closing, closeAge>>
  BY DEF DestroyedEnds
<1>2. k # current
  BY <1>1 DEF ProbeInv, EndInv
<1>3. /\ client' \in [Clients -> ClientStates] /\ client'[k] = "unused"
      /\ \A j \in Clients \ {k} : client'[j] = client[j]
  BY <1>1 DEF ProbeInv, ProbeTypeOK, ClientStates
<1>4. ProbeTypeOK' /\ EndInv'
  BY <1>1, <1>2, <1>3 DEF ProbeInv, ProbeTypeOK, EndInv, Open
<1>5. QueueInv'
  BY <1>1 DEF ProbeInv, QueueInv, WaitsOnCurrent, Waiting, Open
<1> QED
  BY <1>1, <1>2, <1>3, <1>4, <1>5 DEF ProbeInv, ProbeTypeOK

LEMMA CloseKeeps ==
  ASSUME ProbeInv, CloseHandle
  PROVE  ProbeInv'
<1>1. /\ closing = "no" /\ closing' = "current"
      /\ UNCHANGED <<client, current, queue, spent, call, closeAge>>
  BY DEF CloseHandle
<1>2. ProbeTypeOK' /\ EndInv'
  BY <1>1 DEF ProbeInv, ProbeTypeOK, EndInv, Open
<1>3. QueueInv'
  BY <1>1 DEF ProbeInv, QueueInv, WaitsOnCurrent, Waiting, Open
<1> QED
  BY <1>2, <1>3 DEF ProbeInv

LEMMA CurrentEndsKeeps ==
  ASSUME ProbeInv, CurrentEnds
  PROVE  /\ ProbeInv' /\ closing # "no" /\ closing' = "destroyed" /\ current' = current
         /\ \A c \in Callers : call'[c].state = "limit" => call[c].state = "limit"
<1>1. PICK cut \in SUBSET Range(queue) : call' = Settle(cut, "failed")
  BY DEF CurrentEnds
<1>2. /\ closing = "current" /\ closing' = "destroyed"
      /\ client' = [client EXCEPT ![current] = "unused"]
      /\ queue' = <<>> /\ spent' = 0 /\ closeAge' = 0 /\ current' = current
  BY DEF CurrentEnds
<1>3. /\ call' \in [Callers -> Calls] /\ Waiting' = Waiting \ cut
      /\ \A c \in Callers : call'[c] = call[c] \/ call'[c].state = "failed"
      /\ \A c \in Waiting' : call'[c] = call[c]
  <2>1. "failed" \in CallStates \ {"waiting"}
    BY DEF CallStates
  <2> QED
    BY <1>1, <2>1, Settles DEF ProbeInv
<1>4. /\ client' \in [Clients -> ClientStates] /\ client'[current] = "unused"
      /\ \A k \in Clients \ {current} : client'[k] = client[k]
  BY <1>2 DEF ProbeInv, ProbeTypeOK, ClientStates
<1>5. ProbeTypeOK'
  BY <1>2, <1>3, <1>4, QueueEmpty DEF ProbeInv, ProbeTypeOK
<1>6. EndInv'
  BY <1>2, <1>4 DEF ProbeInv, EndInv, Open
<1>7. QueueInv'
  BY <1>2, <1>3 DEF ProbeInv, QueueInv, WaitsOnCurrent, Open
<1> QED
  BY <1>2, <1>3, <1>5, <1>6, <1>7 DEF ProbeInv

LEMMA CloseOverKeeps ==
  ASSUME ProbeInv, CloseOver
  PROVE  /\ ProbeInv' /\ closing # "no" /\ closing' = "over" /\ current' = current
         /\ \A c \in Callers : call'[c].state = "limit" => call[c].state = "limit"
<1>1. /\ closing = "destroyed" /\ closing' = "over"
      /\ \A k \in Clients : client[k] # "ending"
      /\ call' = Settle(Callers, "closed")
      /\ UNCHANGED <<client, current, queue, spent, closeAge>>
  BY DEF CloseOver
<1>2. /\ call' \in [Callers -> Calls] /\ Waiting' = Waiting \ Callers
      /\ \A c \in Callers : call'[c] = call[c] \/ call'[c].state = "closed"
  <2>1. "closed" \in CallStates \ {"waiting"}
    BY DEF CallStates
  <2> QED
    BY <1>1, <2>1, Settles DEF ProbeInv
<1>3. Waiting' = {}
  BY <1>2 DEF Waiting
<1>4. ProbeTypeOK' /\ EndInv'
  BY <1>1, <1>2 DEF ProbeInv, ProbeTypeOK, EndInv, Open
<1>5. QueueInv'
  BY <1>3 DEF QueueInv, WaitsOnCurrent
<1> QED
  BY <1>1, <1>2, <1>4, <1>5 DEF ProbeInv

LEMMA ConnectsKeeps ==
  ASSUME ProbeInv, Connects
  PROVE  /\ ProbeInv' /\ UNCHANGED <<current, queue, call, closing, closeAge>>
         /\ client[current] = "fresh" /\ client'[current'] = "up"
<1>1. /\ Open /\ client[current] = "fresh" /\ spent' = 0
      /\ client' = [client EXCEPT ![current] = "up"]
      /\ UNCHANGED <<current, queue, call, closing, closeAge>>
  BY DEF Connects
<1>2. /\ client' \in [Clients -> ClientStates] /\ client'[current] = "up"
      /\ \A k \in Clients \ {current} : client'[k] = client[k]
  BY <1>1 DEF ProbeInv, ProbeTypeOK, ClientStates
<1>3. ProbeTypeOK' /\ EndInv'
  BY <1>1, <1>2 DEF ProbeInv, ProbeTypeOK, EndInv, Open
<1>4. QueueInv'
  BY <1>1 DEF ProbeInv, QueueInv, WaitsOnCurrent, Waiting, Open
<1> QED
  BY <1>1, <1>2, <1>3, <1>4 DEF ProbeInv

LEMMA FirstEndsKeeps ==
  ASSUME ProbeInv, NEW outcome \in {"answered", "failed"}, FirstEnds(outcome)
  PROVE  /\ ProbeInv' /\ UNCHANGED <<client, current, closing, closeAge>>
         /\ Waiting' \subseteq Waiting
         /\ \A c \in Waiting' : call'[c] = call[c]
         /\ \A c \in Callers : call'[c] = call[c] \/ call'[c].state = outcome
<1>1. /\ Open /\ queue # <<>> /\ call' = Settle({Head(queue)}, outcome)
      /\ queue' = Tail(queue) /\ spent' = 0
      /\ UNCHANGED <<client, current, closing, closeAge>>
  BY DEF FirstEnds
<1>2. outcome \in CallStates \ {"waiting"}
  BY DEF CallStates
<1>3. /\ call' \in [Callers -> Calls] /\ Waiting' = Waiting \ {Head(queue)}
      /\ \A c \in Waiting' : call'[c] = call[c]
      /\ \A c \in Callers : call'[c] = call[c] \/ call'[c].state = outcome
  <2> DEFINE first == {Head(queue)}
  <2>1. call' = Settle(first, outcome)
    BY <1>1
  <2> HIDE DEF first
  <2>2. /\ call' \in [Callers -> Calls] /\ Waiting' = Waiting \ first
        /\ \A c \in Waiting' : call'[c] = call[c]
        /\ \A c \in Callers : call'[c] = call[c] \/ call'[c].state = outcome
    BY <1>2, <2>1, Settles DEF ProbeInv
  <2> QED
    BY <2>2 DEF first
<1>4. queue' \in Seq(Callers) /\ Range(queue) \subseteq {Head(queue)} \cup Range(queue')
  BY <1>1, QueueShorter DEF ProbeInv, ProbeTypeOK
<1>5. ProbeTypeOK' /\ EndInv'
  BY <1>1, <1>3, <1>4 DEF ProbeInv, ProbeTypeOK, EndInv, Open
<1>6. QueueInv'
  BY <1>1, <1>3, <1>4 DEF ProbeInv, QueueInv, WaitsOnCurrent, Open
<1> QED
  BY <1>1, <1>3, <1>5, <1>6 DEF ProbeInv

LEMMA LostKeeps ==
  ASSUME ProbeInv, ConnectionLost
  PROVE  /\ ProbeInv' /\ UNCHANGED <<current, closing, closeAge>>
         /\ \A c \in Callers : call'[c] = call[c] \/ call'[c].state = "failed"
<1>1. /\ Open /\ client' = [client EXCEPT ![current] = "fresh"]
      /\ call' = Settle(Range(queue), "failed")
      /\ queue' = <<>> /\ spent' = 0
      /\ UNCHANGED <<current, closing, closeAge>>
  BY DEF ConnectionLost
<1>2. "failed" \in CallStates \ {"waiting"}
  BY DEF CallStates
<1>3. /\ call' \in [Callers -> Calls] /\ Waiting' = Waiting \ Range(queue)
      /\ \A c \in Callers : call'[c] = call[c] \/ call'[c].state = "failed"
  BY <1>1, <1>2, Settles DEF ProbeInv
<1>4. Waiting' = {}
  BY <1>1, <1>3 DEF ProbeInv, QueueInv
<1>5. /\ client' \in [Clients -> ClientStates] /\ client'[current] = "fresh"
      /\ \A k \in Clients \ {current} : client'[k] = client[k]
  BY <1>1 DEF ProbeInv, ProbeTypeOK, ClientStates
<1>6. ProbeTypeOK' /\ EndInv'
  BY <1>1, <1>3, <1>5, QueueEmpty DEF ProbeInv, ProbeTypeOK, EndInv, Open
<1>7. QueueInv'
  BY <1>4 DEF QueueInv, WaitsOnCurrent
<1> QED
  BY <1>1, <1>3, <1>6, <1>7 DEF ProbeInv

LEMMA SilenceKeeps ==
  ASSUME ProbeInv, GoesSilent
  PROVE  /\ ProbeInv' /\ UNCHANGED <<current, queue, spent, call, closing, closeAge>>
<1>1. /\ Open /\ client' = [client EXCEPT ![current] = "silent"]
      /\ UNCHANGED <<current, queue, spent, call, closing, closeAge>>
  BY DEF GoesSilent
<1>2. /\ client' \in [Clients -> ClientStates] /\ client'[current] = "silent"
      /\ \A k \in Clients \ {current} : client'[k] = client[k]
  BY <1>1 DEF ProbeInv, ProbeTypeOK, ClientStates
<1>3. ProbeTypeOK' /\ EndInv'
  BY <1>1, <1>2 DEF ProbeInv, ProbeTypeOK, EndInv, Open
<1>4. QueueInv'
  BY <1>1 DEF ProbeInv, QueueInv, WaitsOnCurrent, Waiting, Open
<1> QED
  BY <1>1, <1>3, <1>4 DEF ProbeInv

LEMMA TickKeeps ==
  ASSUME ProbeInv, Tick
  PROVE  /\ ProbeInv' /\ UNCHANGED <<client, current, queue, closing>>
         /\ Waiting' = Waiting
         /\ \A c \in Callers : call'[c].state = call[c].state
         /\ closing = "no" => \A c \in Waiting : /\ call[c].age < Limit
                                                 /\ call'[c].age = call[c].age + 1
<1>1. /\ \A c \in Callers : Armed(c) => call[c].age < Limit
      /\ call' = [c \in Callers |-> IF Armed(c) THEN [call[c] EXCEPT !.age = @ + 1]
                                                ELSE call[c]]
      /\ UNCHANGED <<client, current, queue, closing>>
  BY DEF Tick
<1>2. spent' \in Nat /\ closeAge' \in Nat
  BY DEF Tick, ProbeInv, ProbeTypeOK
<1>3. ASSUME NEW c \in Callers
      PROVE  /\ call'[c] \in Calls
             /\ call'[c].state = call[c].state /\ call'[c].on = call[c].on
             /\ Armed(c) => call'[c].age = call[c].age + 1
             /\ ~Armed(c) => call'[c] = call[c]
  <2>1. call[c] \in Calls /\ call[c].age \in Nat
    BY DEF ProbeInv, ProbeTypeOK, Calls
  <2>2. CASE Armed(c)
    <3>1. call'[c] = [call[c] EXCEPT !.age = @ + 1]
      BY <1>1, <2>2
    <3>2. call[c].age + 1 \in Nat
      BY <2>1
    <3> QED
      BY <2>1, <2>2, <3>1, <3>2 DEF Calls
  <2>3. CASE ~Armed(c)
    BY <1>1, <2>1, <2>3
  <2> QED
    BY <2>2, <2>3
<1>4. call' \in [Callers -> Calls]
  BY <1>1, <1>3
<1>5. Waiting' = Waiting
  BY <1>3 DEF Waiting
<1>6. ProbeTypeOK' /\ EndInv'
  BY <1>1, <1>2, <1>4 DEF ProbeInv, ProbeTypeOK, EndInv, Open
<1>7. closing = "no" => \A c \in Waiting : /\ call[c].age < Limit
                                           /\ call'[c].age = call[c].age + 1
  BY <1>1, <1>3 DEF Armed, Waiting
<1>8. closing = "no" => \A c \in Waiting : call'[c].age <= Limit
  <2>1. Limit \in Nat
    BY ProbeAssumption
  <2>2. \A c \in Waiting : call[c].age \in Nat
    BY DEF ProbeInv, ProbeTypeOK, Calls, Waiting
  <2> QED
    BY <1>7, <2>1, <2>2
<1>9. QueueInv'
  <2>1. WaitsOnCurrent'
    BY <1>1, <1>3, <1>5 DEF ProbeInv, QueueInv, WaitsOnCurrent, Waiting
  <2> QED
    BY <1>1, <1>5, <1>8, <2>1 DEF ProbeInv, QueueInv, Open
<1> QED
  BY <1>1, <1>3, <1>5, <1>6, <1>7, <1>9 DEF ProbeInv

LEMMA ProbeInvInit == ProbeInit => ProbeInv
<1> SUFFICES ASSUME ProbeInit PROVE ProbeInv
  OBVIOUS
<1>1. PICK first \in Clients :
        /\ current = first
        /\ client = [k \in Clients |-> IF k = first THEN "fresh" ELSE "unused"]
  BY DEF ProbeInit
<1>2. /\ call = [c \in Callers |-> [state |-> "idle", on |-> None, age |-> 0]]
      /\ queue = <<>> /\ spent = 0 /\ closing = "no" /\ closeAge = 0
  BY DEF ProbeInit
<1>3. [state |-> "idle", on |-> None, age |-> 0] \in Calls
  BY DEF Calls, CallStates
<1>4. ProbeTypeOK
  BY <1>1, <1>2, <1>3, QueueEmpty DEF ProbeTypeOK, ClientStates
<1>5. Waiting = {}
  BY <1>2 DEF Waiting
<1>6. QueueInv /\ EndInv
  BY <1>1, <1>2, <1>5 DEF QueueInv, WaitsOnCurrent, EndInv, Open
<1> QED
  BY <1>4, <1>6 DEF ProbeInv

LEMMA SameKeeps ==
  ASSUME ProbeInv, UNCHANGED probeVars PROVE ProbeInv'
  BY DEF ProbeInv, ProbeTypeOK, QueueInv, WaitsOnCurrent, Waiting, EndInv, Open, probeVars

-----------------------------------------------------------------------------
(* The polls *)

LEMMA Bounds == Limit \in Nat /\ Limit > 0 /\ Settled = Limit + 2 /\ Settled \in Nat
                /\ Deadline \in Nat /\ Deadline > 0 /\ Flight \in Callers
  BY ProbeAssumption, HealthAssumption DEF Settled

\* A poll that may be sure waits on a connection that is there, for a call that
\* has only just begun.
LEMMA SureIsSoon ==
  ASSUME HealthInv, NEW p \in Pending, poll[p].sure
  PROVE  /\ closing = "no" /\ healthy /\ calm = Settled
         /\ client[current] \in {"fresh", "up"}
         /\ \A c \in Waiting : call[c].age = 0
<1>1. closing = "no" /\ calm = Settled /\ p \in Polls
  BY DEF HealthInv, SureInv, Pending
<1>2. calm >= 2 /\ calm >= 1 /\ calm # 0
  BY <1>1, Bounds
<1>3. healthy
  BY <1>2 DEF HealthInv, CalmInv
<1>4. client[current] # "silent"
  <2> SUFFICES ASSUME client[current] = "silent" PROVE FALSE
    OBVIOUS
  <2>1. Flight \in Waiting /\ call[Flight].age >= calm - 1
    BY <1>1, <1>2 DEF HealthInv, CalmInv
  <2>2. call[Flight].age <= Limit /\ call[Flight].age \in Nat
    BY <1>1, <2>1 DEF HealthInv, ProbeInv, QueueInv, ProbeTypeOK, Calls, Waiting
  <2> QED
    BY <1>1, <2>1, <2>2, Bounds
<1>5. \A c \in Waiting : call[c].age = 0
  BY <1>1, <1>2, <1>4 DEF HealthInv, CalmInv
<1>6. client[current] \in {"fresh", "up"}
  BY <1>1, <1>4 DEF HealthInv, ProbeInv, EndInv, Open
<1> QED
  BY <1>1, <1>3, <1>5, <1>6

LEMMA AskKeeps ==
  ASSUME HealthInv, NEW p \in Polls, Ask(p) PROVE HealthInv'
<1>1. /\ p \notin Pending /\ closing = "no"
      /\ IF InFlight THEN UNCHANGED probeVars ELSE Run(Flight)
      /\ poll' = [poll EXCEPT ![p] = [state |-> "waiting", age |-> 0,
                                      sure |-> healthy /\ calm = Settled]]
      /\ calm' = IF healthy /\ calm = 0 THEN 1 ELSE calm
      /\ healthy' = healthy
  BY DEF Ask
<1>2. /\ ProbeInv' /\ UNCHANGED <<client, current, closing>>
      /\ Flight \in Waiting' /\ Waiting' \subseteq Waiting \cup {Flight}
      /\ \A c \in Waiting' : call'[c] = call[c] \/ call'[c].age = 0
      /\ Flight \in Waiting => call'[Flight] = call[Flight]
  <2>1. CASE InFlight
    BY <1>1, <2>1, SameKeeps DEF HealthInv, probeVars, InFlight, Waiting
  <2>2. CASE ~InFlight
    <3>1. Run(Flight) /\ Flight \notin Waiting /\ Flight \in Callers
      BY <1>1, <2>2, Bounds DEF InFlight
    <3>2. /\ ProbeInv' /\ Waiting' = Waiting \cup {Flight} /\ call'[Flight].age = 0
          /\ \A d \in Callers \ {Flight} : call'[d] = call[d]
      BY <1>1, <3>1, RunKeeps DEF HealthInv
    <3>3. UNCHANGED <<client, current, closing>>
      BY <3>1 DEF Run
    <3> QED
      BY <3>1, <3>2, <3>3 DEF Waiting
  <2> QED
    BY <2>1, <2>2
<1>3. /\ poll' \in [Polls -> [state : PollStates, age : Nat, sure : BOOLEAN]]
      /\ poll'[p] = [state |-> "waiting", age |-> 0, sure |-> healthy /\ calm = Settled]
      /\ \A q \in Polls \ {p} : poll'[q] = poll[q]
  <2>1. (healthy /\ calm = Settled) \in BOOLEAN
    OBVIOUS
  <2>2. poll \in [Polls -> [state : PollStates, age : Nat, sure : BOOLEAN]]
    BY DEF HealthInv, HealthTypeOK, PollStates
  <2>3. "waiting" \in PollStates
    BY DEF PollStates
  <2> QED
    BY <1>1, <2>1, <2>2, <2>3
<1>4. calm \in 0 .. Settled /\ healthy \in BOOLEAN /\ (~healthy => calm = 0)
  BY DEF HealthInv, HealthTypeOK, CalmInv
<1>5. calm' \in 0 .. Settled /\ (calm' >= 2 => calm' = calm)
      /\ (calm # 0 => calm' = calm) /\ (~healthy => calm' = 0)
      /\ (calm' = calm \/ (calm = 0 /\ calm' = 1))
  BY <1>1, <1>4, Bounds
<1>6. HealthTypeOK'
  BY <1>1, <1>3, <1>4, <1>5 DEF HealthTypeOK, PollStates, Settled
<1>7. CalmInv'
  <2>1. \A c \in Waiting' : call'[c].age \in Nat
    BY <1>2 DEF ProbeInv, ProbeTypeOK, Calls, Waiting
  <2>2. closing' = "no" /\ calm' >= 1 /\ client'[current'] = "silent" =>
          Flight \in Waiting' /\ call'[Flight].age >= calm' - 1
    <3>1. CASE calm' = calm
      BY <1>2, <3>1 DEF HealthInv, CalmInv
    <3>2. CASE calm' = 1
      BY <1>2, <2>1, <3>2
    <3> QED
      BY <1>5, <3>1, <3>2
  <2>3. closing' = "no" /\ calm' >= 2 /\ client'[current'] # "silent" =>
          \A c \in Waiting' : call'[c].age = 0
    <3> SUFFICES ASSUME calm' >= 2, client'[current'] # "silent", NEW c \in Waiting'
                 PROVE  call'[c].age = 0
      OBVIOUS
    <3>1. \A d \in Waiting : call[d].age = 0
      BY <1>1, <1>2, <1>5 DEF HealthInv, CalmInv
    <3>2. CASE c \in Waiting
      BY <1>2, <3>1, <3>2
    <3>3. CASE c \notin Waiting
      <4>1. c \in Callers /\ call[c].state # "waiting" /\ call'[c].state = "waiting"
        BY <3>3 DEF Waiting
      <4> QED
        BY <1>2, <4>1
    <3> QED
      BY <3>2, <3>3
  <2> QED
    BY <1>1, <1>5, <2>2, <2>3 DEF CalmInv
<1>8. SureInv'
  <2>1. call'[Flight].state = "waiting"
    BY <1>2 DEF Waiting
  <2>2. ASSUME NEW q \in Polls, poll'[q].sure
        PROVE  /\ calm' = Settled
               /\ poll'[q].state \in {"waiting", "up"}
               /\ poll'[q].state = "waiting" => poll'[q].age = 0
    <3>1. CASE q = p
      BY <1>3, <1>5, <2>2, <3>1, Bounds
    <3>2. CASE q # p
      <4>1. poll'[q] = poll[q] /\ poll[q].sure
        BY <1>3, <2>2, <3>2
      <4> QED
        BY <1>5, <4>1, Bounds DEF HealthInv, SureInv, Pending
    <3> QED
      BY <3>1, <3>2
  <2> QED
    BY <1>1, <1>2, <2>1, <2>2 DEF SureInv, Pending, Settled
<1> QED
  BY <1>2, <1>6, <1>7, <1>8 DEF HealthInv

LEMMA AskDirectlyKeeps ==
  ASSUME HealthInv, NEW c \in Callers, AskDirectly(c) PROVE HealthInv'
<1>1. c # Flight /\ Run(c) /\ UNCHANGED <<poll, healthy, calm>>
  BY DEF AskDirectly
<1>2. /\ ProbeInv'
      /\ closing = "no" => Waiting' = Waiting \cup {c} /\ call'[c].age = 0
      /\ \A d \in Callers \ {c} : call'[d] = call[d]
  BY <1>1, RunKeeps DEF HealthInv
<1>3. UNCHANGED <<client, current, closing>>
  BY <1>1 DEF Run
<1>4. call'[Flight] = call[Flight]
  BY <1>1, <1>2, Bounds
<1>5. HealthTypeOK'
  BY <1>1 DEF HealthInv, HealthTypeOK, Settled
<1>6. CalmInv'
  <2>1. closing = "no" => \A d \in Waiting' : call'[d].age = 0 \/ (d \in Waiting /\ call'[d] = call[d])
    BY <1>2 DEF Waiting
  <2>2. Flight \in Waiting => Flight \in Waiting'
    BY <1>4 DEF Waiting
  <2> QED
    BY <1>1, <1>3, <1>4, <2>1, <2>2 DEF HealthInv, CalmInv
<1>7. SureInv'
  BY <1>1, <1>3, <1>4 DEF HealthInv, SureInv, Pending, Settled
<1> QED
  BY <1>2, <1>5, <1>6, <1>7 DEF HealthInv

\* The polls of a call are told together, and a call that a sure poll shares
\* has ended well.
LEMMA AnswersKeep ==
  ASSUME HealthInv, CallAnswers PROVE HealthInv'
<1>1. /\ Flight \notin Waiting
      /\ poll' = [q \in Polls |-> IF q \in Pending
           THEN [poll[q] EXCEPT !.age = 0,
                   !.state = IF call[Flight].state = "answered" THEN "up" ELSE "down"]
           ELSE poll[q]]
      /\ UNCHANGED <<probeVars, healthy, calm>>
  BY DEF CallAnswers, Over, InFlight
<1>2. ProbeInv' /\ UNCHANGED <<client, current, closing, call>> /\ Waiting' = Waiting
  BY <1>1, SameKeeps DEF HealthInv, probeVars, Waiting
<1>3. call[Flight].state # "waiting"
  BY <1>1, Bounds DEF Waiting
<1>4. ASSUME NEW q \in Polls
      PROVE  /\ poll'[q] \in [state : PollStates, age : Nat, sure : BOOLEAN]
             /\ poll'[q].state # "waiting" /\ poll'[q].sure = poll[q].sure
             /\ poll'[q].sure => poll'[q].state \in {"waiting", "up"}
  <2>1. poll[q] \in [state : PollStates, age : Nat, sure : BOOLEAN]
    BY DEF HealthInv, HealthTypeOK, PollStates
  <2>2. CASE q \in Pending
    <3> DEFINE end == IF call[Flight].state = "answered" THEN "up" ELSE "down"
    <3>1. poll'[q] = [poll[q] EXCEPT !.age = 0, !.state = end]
      BY <1>1, <2>2
    <3>2. end \in PollStates /\ end # "waiting"
      BY DEF PollStates
    <3>3. poll[q].sure => end = "up"
      BY <1>3, <2>2 DEF HealthInv, SureInv
    <3> HIDE DEF end
    <3>4. /\ poll'[q] \in [state : PollStates, age : Nat, sure : BOOLEAN]
          /\ poll'[q].state = end /\ poll'[q].sure = poll[q].sure
      <4>1. \A r \in [state : PollStates, age : Nat, sure : BOOLEAN] : \A s \in PollStates :
              LET t == [r EXCEPT !.age = 0, !.state = s]
              IN  /\ t \in [state : PollStates, age : Nat, sure : BOOLEAN]
                  /\ t.state = s /\ t.sure = r.sure
        OBVIOUS
      <4> QED
        BY <2>1, <3>1, <3>2, <4>1
    <3> QED
      BY <3>2, <3>3, <3>4
  <2>3. CASE q \notin Pending
    BY <1>1, <2>1, <2>3 DEF HealthInv, SureInv, Pending
  <2> QED
    BY <2>2, <2>3
<1>5. HealthTypeOK'
  BY <1>1, <1>4 DEF HealthInv, HealthTypeOK, PollStates, Settled
<1>6. CalmInv'
  BY <1>1, <1>2 DEF HealthInv, CalmInv
<1>7. SureInv'
  BY <1>1, <1>4 DEF HealthInv, SureInv, Pending, Settled
<1> QED
  BY <1>2, <1>5, <1>6, <1>7 DEF HealthInv

LEMMA GivesUpKeeps ==
  ASSUME HealthInv, NEW p \in Polls, GivesUp(p) PROVE HealthInv'
<1>1. /\ p \in Pending /\ poll[p].age = Deadline
      /\ poll' = [poll EXCEPT ![p].state = "down", ![p].age = 0]
      /\ UNCHANGED <<probeVars, healthy, calm>>
  BY DEF GivesUp
<1>2. ProbeInv' /\ UNCHANGED <<client, current, closing, call>> /\ Waiting' = Waiting
  BY <1>1, SameKeeps DEF HealthInv, probeVars, Waiting
<1>3. ~poll[p].sure
  BY <1>1, Bounds DEF HealthInv, SureInv
<1>4. /\ poll' \in [Polls -> [state : PollStates, age : Nat, sure : BOOLEAN]]
      /\ poll'[p].state = "down" /\ ~poll'[p].sure
      /\ \A q \in Polls \ {p} : poll'[q] = poll[q]
  <2>1. poll \in [Polls -> [state : PollStates, age : Nat, sure : BOOLEAN]]
    BY DEF HealthInv, HealthTypeOK, PollStates
  <2>2. "down" \in PollStates /\ 0 \in Nat
    BY DEF PollStates
  <2> QED
    BY <1>1, <1>3, <2>1, <2>2
<1>5. HealthTypeOK'
  BY <1>1, <1>4 DEF HealthInv, HealthTypeOK, PollStates, Settled
<1>6. CalmInv'
  BY <1>1, <1>2 DEF HealthInv, CalmInv
<1>7. SureInv'
  BY <1>1, <1>2, <1>4 DEF HealthInv, SureInv, Pending, Settled
<1> QED
  BY <1>2, <1>5, <1>6, <1>7 DEF HealthInv

LEMMA HandleKeeps ==
  ASSUME HealthInv, HandleStep PROVE HealthInv'
<1> USE DEF HealthInv
<1>1. UNCHANGED <<poll, healthy, calm>>
  BY DEF HandleStep
<1>2. HealthTypeOK'
  BY <1>1 DEF HealthTypeOK, Settled
<1>3. ASSUME NEW c \in Callers, LimitFires(c) PROVE HealthInv'
  <2>1. /\ ProbeInv' /\ Waiting' = {} /\ client'[current'] = "fresh"
        /\ call[c].age = Limit /\ c \in Waiting /\ closing = "no" /\ closing' = closing
    BY <1>3, LimitKeeps
  <2>2. CalmInv'
    BY <1>1, <2>1 DEF CalmInv
  <2>3. \A p \in Pending : ~poll[p].sure
    BY <2>1, SureIsSoon, Bounds
  <2>4. SureInv'
    BY <1>1, <2>1, <2>3 DEF SureInv, Pending, Settled
  <2> QED
    BY <1>2, <2>1, <2>2, <2>4
<1>4. ASSUME NEW k \in Clients, DestroyedEnds(k) PROVE HealthInv'
  <2>1. /\ ProbeInv' /\ UNCHANGED <<current, queue, spent, call, closing, closeAge>>
        /\ client'[current] = client[current]
    BY <1>4, DestroyedKeeps
  <2>2. CalmInv' /\ SureInv'
    BY <1>1, <2>1 DEF CalmInv, SureInv, Pending, Waiting, Settled
  <2> QED
    BY <1>2, <2>1, <2>2
<1>5. ASSUME CurrentEnds \/ CloseOver PROVE HealthInv'
  <2>1. ProbeInv' /\ closing # "no" /\ closing' # "no"
    BY <1>5, CurrentEndsKeeps, CloseOverKeeps
  <2>2. Pending = {} /\ Pending' = {}
    BY <1>1, <2>1 DEF SureInv, Pending
  <2>3. CalmInv' /\ SureInv'
    BY <1>1, <2>1, <2>2 DEF CalmInv, SureInv, Settled
  <2> QED
    BY <1>2, <2>1, <2>3
<1>6. ASSUME Pending = {}, CloseHandle PROVE HealthInv'
  <2>1. ProbeInv' /\ closing' = "current" /\ Pending' = {}
    BY <1>1, <1>6, CloseKeeps DEF CloseHandle, Pending
  <2>2. CalmInv' /\ SureInv'
    BY <1>1, <1>6, <2>1 DEF CalmInv, SureInv, Settled
  <2> QED
    BY <1>2, <2>1, <2>2
<1> QED
  BY <1>3, <1>4, <1>5, <1>6 DEF HandleStep, Handle

LEMMA OutsideKeeps ==
  ASSUME HealthInv, InGoodHealth PROVE HealthInv'
<1> USE DEF HealthInv
<1>1. UNCHANGED <<poll, healthy, calm>>
  BY DEF InGoodHealth
<1>2. HealthTypeOK'
  BY <1>1 DEF HealthTypeOK, Settled
<1>3. CASE Connects
  <2>1. /\ ProbeInv' /\ UNCHANGED <<current, queue, call, closing, closeAge>>
        /\ client[current] = "fresh" /\ client'[current'] = "up"
    BY <1>3, ConnectsKeeps
  <2>2. CalmInv' /\ SureInv'
    BY <1>1, <2>1 DEF CalmInv, SureInv, Pending, Waiting, Settled
  <2> QED
    BY <1>2, <2>1, <2>2
<1>4. CASE FirstEnds("answered")
  <2>1. /\ ProbeInv' /\ UNCHANGED <<client, current, closing, closeAge>>
        /\ Waiting' \subseteq Waiting
        /\ \A c \in Waiting' : call'[c] = call[c]
        /\ \A c \in Callers : call'[c] = call[c] \/ call'[c].state = "answered"
    BY <1>4, FirstEndsKeeps
  <2>2. client[current] # "silent"
    BY <1>4 DEF FirstEnds
  <2>3. CalmInv'
    BY <1>1, <2>1, <2>2 DEF CalmInv
  <2>4. SureInv'
    BY <1>1, <2>1, Bounds DEF SureInv, Pending, Settled
  <2> QED
    BY <1>2, <2>1, <2>3, <2>4
<1>5. CASE ~healthy /\ Outside
  <2>1. ProbeInv' /\ closing' = closing
    BY <1>5, ConnectsKeeps, FirstEndsKeeps, LostKeeps, SilenceKeeps DEF Outside
  <2>2. calm = 0 /\ calm # Settled
    BY <1>5, Bounds DEF CalmInv
  <2>3. CalmInv'
    BY <1>1, <2>2 DEF CalmInv
  <2>4. SureInv'
    BY <1>1, <2>1, <2>2 DEF SureInv, Pending
  <2> QED
    BY <1>2, <2>1, <2>3, <2>4
<1> QED
  BY <1>3, <1>4, <1>5 DEF InGoodHealth

LEMMA TimeKeeps ==
  ASSUME HealthInv, HealthTick PROVE HealthInv'
<1> USE DEF HealthInv
<1>1. /\ ~Over /\ Tick /\ ~(healthy /\ Underway)
      /\ poll' = [p \in Polls |-> IF p \in Pending THEN [poll[p] EXCEPT !.age = @ + 1]
                                                   ELSE poll[p]]
      /\ calm' = IF calm \in 1 .. Settled - 1 THEN calm + 1 ELSE calm
      /\ healthy' = healthy
  BY DEF HealthTick
<1>2. /\ ProbeInv' /\ UNCHANGED <<client, current, queue, closing>>
      /\ Waiting' = Waiting
      /\ \A c \in Callers : call'[c].state = call[c].state
      /\ closing = "no" => \A c \in Waiting : /\ call[c].age < Limit
                                              /\ call'[c].age = call[c].age + 1
  BY <1>1, TickKeeps
<1>3. /\ calm \in 0 .. Settled /\ calm' \in 0 .. Settled
      /\ calm = 0 => calm' = 0
      /\ calm' \in {calm, calm + 1}
      /\ calm = Settled => calm' = Settled
      /\ calm' >= 1 => calm >= 1
  <2>1. calm \in 0 .. Settled
    BY DEF HealthTypeOK
  <2> QED
    BY <1>1, <2>1, Bounds
<1>4. CASE healthy /\ closing = "no" /\ client[current] # "silent"
  <2>1. queue = <<>>
    BY <1>1, <1>4 DEF Underway, EndInv, ProbeInv, Open
  <2> QED
    <3>1. Waiting = {}
      BY <1>4, <2>1, QueueEmpty DEF ProbeInv, QueueInv, Open
    <3>2. Pending = {}
      BY <1>1, <3>1 DEF Over, InFlight
    <3>3. poll' = poll
      BY <1>1, <3>2 DEF HealthTypeOK
    <3>4. CalmInv'
      BY <1>1, <1>2, <1>4, <3>1 DEF CalmInv
    <3>5. HealthTypeOK' /\ SureInv'
      BY <1>1, <1>2, <1>3, <3>2, <3>3 DEF HealthTypeOK, SureInv, Pending, Settled
    <3> QED
      BY <1>2, <3>4, <3>5
<1>5. CASE ~(healthy /\ closing = "no" /\ client[current] # "silent")
  <2>1. \A p \in Pending : ~poll[p].sure
    BY <1>5, SureIsSoon
  <2>2. ASSUME NEW p \in Polls
        PROVE  /\ poll'[p] \in [state : PollStates, age : Nat, sure : BOOLEAN]
               /\ poll'[p].state = poll[p].state /\ poll'[p].sure = poll[p].sure
    <3>1. poll[p] \in [state : PollStates, age : Nat, sure : BOOLEAN]
      BY DEF HealthTypeOK, PollStates
    <3>2. CASE p \in Pending
      <4>1. poll[p].age \in Nat /\ poll[p].age + 1 \in Nat
        BY <3>1
      <4>2. poll'[p] = [poll[p] EXCEPT !.age = @ + 1]
        BY <1>1, <3>2
      <4> QED
        BY <3>1, <4>1, <4>2
    <3>3. CASE p \notin Pending
      BY <1>1, <3>1, <3>3
    <3> QED
      BY <3>2, <3>3
  <2>3. HealthTypeOK'
    BY <1>1, <1>3, <2>2 DEF HealthTypeOK, PollStates, Settled
  <2>4. SureInv'
    BY <1>2, <1>3, <2>1, <2>2 DEF SureInv, Pending, Settled
  <2>5. closing = "no" /\ calm >= 1 /\ client[current] = "silent" =>
          call'[Flight].age >= calm' - 1
    <3> SUFFICES ASSUME closing = "no", calm >= 1, client[current] = "silent"
                 PROVE  call'[Flight].age >= calm' - 1
      OBVIOUS
    <3>1. Flight \in Waiting /\ call[Flight].age >= calm - 1
      BY DEF CalmInv
    <3>2. call'[Flight].age = call[Flight].age + 1 /\ call[Flight].age \in Nat
      BY <1>2, <3>1 DEF ProbeInv, ProbeTypeOK, Calls, Waiting
    <3> QED
      BY <1>3, <3>1, <3>2, Bounds
  <2>6. CalmInv'
    <3>1. closing = "no" /\ client[current] # "silent" => calm' = 0
      BY <1>3, <1>5 DEF CalmInv
    <3>2. ~healthy => calm' = 0
      BY <1>3 DEF CalmInv
    <3>3. CASE calm' = 0
      BY <3>3 DEF CalmInv
    <3>4. CASE calm' # 0
      BY <1>1, <1>2, <1>3, <2>5, <3>1, <3>2, <3>4 DEF CalmInv
    <3> QED
      BY <3>3, <3>4
  <2> QED
    BY <1>2, <2>3, <2>4, <2>6
<1> QED
  BY <1>4, <1>5

LEMMA BreaksKeeps ==
  ASSUME HealthInv, Breaks PROVE HealthInv'
<1>1. /\ calm' = 0 /\ healthy' = FALSE
      /\ poll' = [p \in Polls |-> [poll[p] EXCEPT !.sure = FALSE]]
      /\ UNCHANGED probeVars
  BY DEF Breaks
<1>2. ProbeInv' /\ closing' = closing
  BY <1>1, SameKeeps DEF HealthInv, probeVars
<1>3. ASSUME NEW p \in Polls
      PROVE  /\ poll'[p] \in [state : PollStates, age : Nat, sure : BOOLEAN]
             /\ poll'[p].state = poll[p].state /\ ~poll'[p].sure
  <2>1. poll[p] \in [state : PollStates, age : Nat, sure : BOOLEAN]
    BY DEF HealthInv, HealthTypeOK, PollStates
  <2> QED
    BY <1>1, <2>1
<1>4. HealthTypeOK'
  <2>1. poll' \in [Polls -> [state : PollStates, age : Nat, sure : BOOLEAN]]
    BY <1>1, <1>3
  <2>2. calm' \in 0 .. Settled
    BY <1>1, Bounds
  <2>3. healthy' \in BOOLEAN
    BY <1>1
  <2> QED
    BY <2>1, <2>2, <2>3 DEF HealthTypeOK, PollStates, Settled
<1>5. CalmInv'
  BY <1>1 DEF CalmInv
<1>6. SureInv'
  BY <1>2, <1>3 DEF HealthInv, SureInv, Pending
<1> QED
  BY <1>2, <1>4, <1>5, <1>6 DEF HealthInv

LEMMA HealsKeeps ==
  ASSUME HealthInv, Heals PROVE HealthInv'
<1>1. ~healthy /\ healthy' = TRUE /\ UNCHANGED <<probeVars, poll, calm>>
  BY DEF Heals
<1>2. ProbeInv' /\ closing' = closing /\ calm = 0 /\ Settled # 0
  BY <1>1, SameKeeps, Bounds DEF HealthInv, CalmInv, probeVars
<1>3. HealthTypeOK' /\ CalmInv'
  BY <1>1, <1>2 DEF HealthInv, HealthTypeOK, CalmInv, Settled
<1>4. SureInv'
  BY <1>1, <1>2 DEF HealthInv, SureInv, Pending
<1> QED
  BY <1>2, <1>3, <1>4 DEF HealthInv

LEMMA HealthInvInit == HealthInit => HealthInv
<1> SUFFICES ASSUME HealthInit PROVE HealthInv
  OBVIOUS
<1>1. /\ ProbeInv /\ closing = "no" /\ calm = 0 /\ healthy \in BOOLEAN
      /\ poll = [p \in Polls |-> [state |-> "idle", age |-> 0, sure |-> FALSE]]
  BY ProbeInvInit DEF HealthInit, ProbeInit
<1>2. HealthTypeOK
  <2>1. [state |-> "idle", age |-> 0, sure |-> FALSE] \in
          [state : PollStates, age : Nat, sure : BOOLEAN]
    BY DEF PollStates
  <2> QED
    BY <1>1, <2>1, Bounds DEF HealthTypeOK, PollStates
<1>3. CalmInv /\ SureInv
  BY <1>1 DEF CalmInv, SureInv, Pending
<1> QED
  BY <1>1, <1>2, <1>3 DEF HealthInv

LEMMA HealthInvStep == HealthInv /\ [HealthNext]_healthVars => HealthInv'
<1> SUFFICES ASSUME HealthInv, [HealthNext]_healthVars PROVE HealthInv'
  OBVIOUS
<1>1. CASE UNCHANGED healthVars
  <2>1. ProbeInv' /\ UNCHANGED <<client, current, call, closing, poll, healthy, calm>>
    BY <1>1, SameKeeps DEF HealthInv, healthVars, probeVars
  <2> QED
    BY <2>1 DEF HealthInv, HealthTypeOK, CalmInv, SureInv, Pending, Waiting, Settled
<1>2. CASE HealthNext
  BY <1>2, AskKeeps, GivesUpKeeps, AskDirectlyKeeps, AnswersKeep, HandleKeeps,
     OutsideKeeps, TimeKeeps, BreaksKeeps, HealsKeeps DEF HealthNext
<1> QED
  BY <1>1, <1>2

LEMMA HealthInvAlways == HealthSpec => []HealthInv
  BY HealthInvInit, HealthInvStep, PTL DEF HealthSpec

-----------------------------------------------------------------------------
(* What the handle promises *)

\* destroy (probe.ts) refuses every call on the client it takes down before a
\* new client takes its place: no call of any caller is ever left waiting on
\* a client that is gone, however the limits, the losses and a close fall.
THEOREM NoCallLeftBehind == HealthSpec => []WaitsOnCurrent
<1>1. HealthInv => WaitsOnCurrent
  BY DEF HealthInv, ProbeInv, QueueInv
<1> QED
  BY HealthInvAlways, <1>1, PTL

\* createHealthProbes (health.ts) shares one call among its polls, and the
\* handle replaces a connection that went silent: a poll that comes more than
\* one limit after the first of a database that is well is never answered
\* down, whatever was silent, queued or shared before.
THEOREM RecoveryAlwaysSeen == HealthSpec => []RecoveryIsSeen
<1>1. HealthInv => RecoveryIsSeen
  BY DEF HealthInv, SureInv, RecoveryIsSeen
<1> QED
  BY HealthInvAlways, <1>1, PTL

LEMMA ClosingStep ==
  ASSUME HealthInv, HealthNext, closing # "no"
  PROVE  /\ current' = current
         /\ \A c \in Callers : call'[c].state = "limit" => call[c].state = "limit"
<1> USE DEF HealthInv
<1>1. ASSUME NEW c \in Callers, AskDirectly(c)
      PROVE  /\ current' = current
             /\ \A d \in Callers : call'[d].state = "limit" => call[d].state = "limit"
  <2>1. current' = current /\ call' = [call EXCEPT ![c].state = "closed"]
    BY <1>1 DEF AskDirectly, Run
  <2>2. call'[c].state = "closed" /\ \A d \in Callers \ {c} : call'[d] = call[d]
    BY <2>1 DEF ProbeInv, ProbeTypeOK, Calls
  <2> QED
    BY <2>1, <2>2
<1>2. CASE HandleStep
  BY <1>2, LimitKeeps, DestroyedKeeps, CurrentEndsKeeps, CloseOverKeeps
     DEF HandleStep, Handle, CloseHandle
<1>3. CASE InGoodHealth
  <2>1. ASSUME NEW outcome \in {"answered", "failed"}, FirstEnds(outcome)
        PROVE  /\ current' = current
               /\ \A d \in Callers : call'[d].state = "limit" => call[d].state = "limit"
    BY <2>1, FirstEndsKeeps
  <2>2. CASE ConnectionLost
    BY <2>2, LostKeeps
  <2>3. CASE Connects \/ GoesSilent
    BY <2>3, ConnectsKeeps, SilenceKeeps
  <2> QED
    BY <1>3, <2>1, <2>2, <2>3 DEF InGoodHealth, Outside
<1>4. CASE HealthTick
  BY <1>4, TickKeeps DEF HealthTick
<1>5. CASE CallAnswers \/ Breaks \/ Heals \/ \E p \in Polls : GivesUp(p)
  BY <1>5 DEF CallAnswers, Breaks, Heals, GivesUp, probeVars
<1>6. ASSUME NEW p \in Polls PROVE ~Ask(p)
  BY DEF Ask
<1> QED
  BY <1>1, <1>2, <1>3, <1>4, <1>5, <1>6 DEF HealthNext

\* close() of the handle (probe.ts): once it has begun no limit of a call in
\* flight fires and no client replaces another, and when it answers no client
\* is left, those a limit had taken down before included.
THEOREM CloseAlwaysKeepsItsWord == HealthSpec => CloseKeepsItsWord
<1> DEFINE Silent == closing # "no" =>
      /\ current' = current
      /\ \A c \in Callers : call'[c].state = "limit" => call[c].state = "limit"
<1>1. HealthInv /\ [HealthNext]_healthVars => [Silent]_probeVars
  BY ClosingStep DEF healthVars
<1>2. HealthInv => (closing = "over" => \A k \in Clients : client[k] = "unused")
  BY DEF HealthInv, ProbeInv, EndInv
<1>3. HealthSpec => [][Silent]_probeVars
  <2> HIDE DEF Silent
  <2> QED
    BY <1>1, HealthInvAlways, PTL DEF HealthSpec
<1>4. HealthSpec => [](closing = "over" => \A k \in Clients : client[k] = "unused")
  BY <1>2, HealthInvAlways, PTL
<1> QED
  BY <1>3, <1>4 DEF CloseKeepsItsWord
=============================================================================
