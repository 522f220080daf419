-------------------------- MODULE WorkerFleetProofs --------------------------
(***************************************************************************)
(* That what the workers share keeps its promises, for any workers,        *)
(* releases, queues, schedules and page size, wherever a command fails or  *)
(* a process dies, and however often the operator edits a switch.          *)
(*                                                                         *)
(* The invariant has three parts that need nothing of each other but the   *)
(* types: what a stamp says of the workers that run (StampInv), what a     *)
(* pass in flight knows of the switches (PassInv), and how far a sync is   *)
(* (PlaceInv) and has brought the schedulers while nobody else writes them *)
(* or moves them under its list (AloneInv).                                *)
(***************************************************************************)
EXTENDS WorkerFleet, FiniteSetTheorems, TLAPS

Values == {"absent", "on", "off", "not a boolean"}
Passes == [step : {"none", "reading", "asking"},
           switches : [Queues -> Values],
           states : [Queues -> {"unread", "paused", "running"}],
           off : SUBSET Queues, at : Nat]
Syncs == [step : {"none", "declaring", "listing", "removing"},
          upserted : [Queues -> SUBSET Int], at : Nat, ids : Seq(Int)]
Phases == {"down", "applying", "clearing", "syncing", "up"}
Procs == [phase : Phases, release : Releases, pass : Passes, sync : Syncs,
          alone : BOOLEAN, beaten : BOOLEAN]

StoreTypeOK ==
  /\ row \in [Queues -> Values]
  /\ paused \in SUBSET Queues
  /\ schedulers \in [Queues -> Seq(Int)]
  /\ stamp \in 0 .. NoStamp
  /\ due \in SUBSET Queues
  /\ release \in Releases
  /\ pruning \in Releases \cup {0}
  /\ edits \in Nat /\ failures \in Nat
  /\ about \in {"switches", "start"}
  /\ off \in SUBSET Queues
  /\ beat \in 0 .. NoStamp
ProcTypeOK == proc \in [Workers -> Procs]
TypeOK == StoreTypeOK /\ ProcTypeOK

\* A stamp that is there is as old as the last heartbeat; and a worker clears it
\* before it runs, so it was written since, by a heartbeat it has lived through.
StampInv ==
  /\ stamp # NoStamp => beat <= stamp
  /\ \A w \in Workers :
       proc[w].phase \in {"syncing", "up"} /\ stamp # NoStamp => proc[w].beaten

\* What the operator has turned off is off in the row, or unknown to the release
\* that is deployed; and a pass that has read the row knows it.
PassInv ==
  /\ off # {} => about = "switches"
  /\ about = "switches" => pruning \in {0, Newest}
  /\ \A q \in off : row[q] = "off" \/ (row[q] = "absent" /\ q \notin QueuesOf(Newest))
  /\ \A w \in Workers :
       /\ Pass(w).off \subseteq off
       /\ Pass(w).step = "asking" => \A q \in Pass(w).off : Pass(w).switches[q] # "on"

\* Where a sync is, whoever else writes.
PlaceOf(w) ==
  /\ Sync(w).step \in {"listing", "removing"} =>
       /\ proc[w].phase = "syncing" /\ ToDeclare(w) = {}
       /\ Sync(w).at \in DOMAIN Registry[proc[w].release]
  /\ Sync(w).step = "declaring" => Sync(w).ids = <<>> /\ Sync(w).at = 1
  /\ proc[w].phase = "syncing" => Sync(w).step # "none"
  /\ \A q \in QueuesOf(proc[w].release) : Sync(w).upserted[q] \subseteq Declared(w, q)
  /\ proc[w].phase \in {"down", "applying", "clearing"} => Sync(w) = NoSync
PlaceInv == \A w \in Workers : PlaceOf(w)

\* What the schedulers are while nobody else writes or moves them: what was
\* declared is there, the queues before this one are done, and of this one what
\* was listed is the beginning of it all, or holds every stray that is left.
Done(w, q) == ToSet(schedulers[q]) = Declared(w, q)
AloneOf(w) ==
  /\ proc[w].phase = "syncing" =>
       /\ \A q \in QueuesOf(proc[w].release) : Sync(w).upserted[q] \subseteq ToSet(schedulers[q])
       /\ \A i \in 1 .. Sync(w).at - 1 : Done(w, Registry[proc[w].release][i])
  /\ Sync(w).step = "listing" =>
       /\ Len(Sync(w).ids) <= Len(schedulers[SyncQueue(w)])
       /\ \A i \in 1 .. Len(Sync(w).ids) : Sync(w).ids[i] = schedulers[SyncQueue(w)][i]
  /\ Sync(w).step = "removing" =>
       ToSet(schedulers[SyncQueue(w)])
         \subseteq Declared(w, SyncQueue(w)) \cup ToSet(Sync(w).ids)
  /\ proc[w].phase = "up" /\ about = "start" =>
       \A q \in QueuesOf(proc[w].release) : Done(w, q)
AloneInv == \A w \in Workers : proc[w].alone => AloneOf(w)

\* No scheduler is in a queue twice.
OrderInv == \A q \in Queues : IsInjective(schedulers[q])

FleetInv == TypeOK /\ StampInv /\ PassInv /\ PlaceInv /\ AloneInv /\ OrderInv

-----------------------------------------------------------------------------
(* The order of the schedulers *)

\* A part of a list.
LEMMA Part ==
  ASSUME NEW s \in Seq(Int), NEW m \in Nat, NEW n \in Nat, n <= Len(s)
  PROVE  /\ SubSeq(s, m + 1, n) \in Seq(Int)
         /\ m <= n => /\ Len(SubSeq(s, m + 1, n)) = n - m
                      /\ \A i \in 1 .. n - m : SubSeq(s, m + 1, n)[i] = s[m + i]
         /\ n < m => Len(SubSeq(s, m + 1, n)) = 0
  OBVIOUS

\* One list after another.
LEMMA ListedOn ==
  ASSUME NEW ids \in Seq(Int), NEW page \in Seq(Int)
  PROVE  /\ ids \o page \in Seq(Int) /\ Len(ids \o page) = Len(ids) + Len(page)
         /\ \A i \in 1 .. Len(ids) : (ids \o page)[i] = ids[i]
         /\ \A i \in 1 .. Len(page) : (ids \o page)[Len(ids) + i] = page[i]
  OBVIOUS

\* Taking out the entry at a place.
LEMMA Removed ==
  ASSUME NEW s \in Seq(Int), IsInjective(s), NEW i \in DOMAIN s
  PROVE  /\ RemoveAt(s, i) \in Seq(Int) /\ IsInjective(RemoveAt(s, i))
         /\ Len(RemoveAt(s, i)) = Len(s) - 1
         /\ ToSet(RemoveAt(s, i)) = ToSet(s) \ {s[i]}
<1> DEFINE t == RemoveAt(s, i)
<1>1. i \in 1 .. Len(s) /\ Len(s) \in Nat /\ i \in Nat
  OBVIOUS
<1>2. /\ t \in Seq(Int) /\ Len(t) = Len(s) - 1
      /\ \A k \in 1 .. Len(s) - 1 : t[k] = IF k < i THEN s[k] ELSE s[k + 1]
  <2> DEFINE a == SubSeq(s, 1, i - 1)
             b == SubSeq(s, i + 1, Len(s))
  <2>1. /\ a \in Seq(Int) /\ Len(a) = i - 1 /\ \A k \in 1 .. i - 1 : a[k] = s[k]
    <3>1. 0 \in Nat /\ i - 1 \in Nat /\ i - 1 <= Len(s) /\ 0 <= i - 1
      BY <1>1
    <3> QED
      BY <1>1, <3>1, Part
  <2>2. /\ b \in Seq(Int) /\ Len(b) = Len(s) - i
        /\ \A k \in 1 .. Len(s) - i : b[k] = s[i + k]
    BY <1>1, Part
  <2>3. t = a \o b
    BY DEF RemoveAt
  <2> HIDE DEF a, b, t
  <2>4. /\ t \in Seq(Int) /\ Len(t) = Len(a) + Len(b)
        /\ \A k \in 1 .. Len(a) : t[k] = a[k]
        /\ \A k \in 1 .. Len(b) : t[Len(a) + k] = b[k]
    BY <2>1, <2>2, <2>3, ListedOn
  <2>5. Len(t) = Len(s) - 1
    BY <1>1, <2>1, <2>2, <2>4
  <2>6. ASSUME NEW k \in 1 .. Len(s) - 1 PROVE t[k] = IF k < i THEN s[k] ELSE s[k + 1]
    <3>1. CASE k < i
      <4>1. k \in 1 .. i - 1
        BY <1>1, <3>1
      <4> QED
        BY <2>1, <2>4, <3>1, <4>1
    <3>2. CASE ~(k < i)
      <4> DEFINE m == k - (i - 1)
      <4>1. m \in 1 .. Len(s) - i /\ (i - 1) + m = k /\ i + m = k + 1
        BY <1>1, <3>2
      <4> HIDE DEF m
      <4>2. b[m] = s[k + 1]
        BY <2>2, <4>1
      <4>3. t[Len(a) + m] = b[m]
        BY <2>2, <2>4, <4>1
      <4>4. t[k] = b[m]
        BY <2>1, <4>1, <4>3
      <4> QED
        BY <3>2, <4>2, <4>4
    <3> QED
      BY <3>1, <3>2
  <2> QED
    BY <2>4, <2>5, <2>6
<1> HIDE DEF t
<1>3. DOMAIN t = 1 .. Len(s) - 1 /\ DOMAIN s = 1 .. Len(s)
  BY <1>2
<1>4. \A j, k \in 1 .. Len(s) : s[j] = s[k] => j = k
  BY <1>3 DEF IsInjective
<1>5. IsInjective(t)
  <2> SUFFICES ASSUME NEW j \in 1 .. Len(s) - 1, NEW k \in 1 .. Len(s) - 1, t[j] = t[k]
               PROVE  j = k
    BY <1>3 DEF IsInjective
  <2> DEFINE of(x) == IF x < i THEN x ELSE x + 1
  <2>1. of(j) \in 1 .. Len(s) /\ of(k) \in 1 .. Len(s) /\ (of(j) = of(k) => j = k)
    BY <1>1
  <2>2. t[j] = s[of(j)] /\ t[k] = s[of(k)]
    BY <1>2
  <2> HIDE DEF of
  <2> QED
    BY <1>4, <2>1, <2>2
<1>6. \A y \in ToSet(t) : y \in ToSet(s) /\ y # s[i]
  <2> SUFFICES ASSUME NEW k \in 1 .. Len(s) - 1 PROVE t[k] \in ToSet(s) /\ t[k] # s[i]
    BY <1>3 DEF ToSet
  <2>1. CASE k < i
    <3>1. t[k] = s[k] /\ k \in 1 .. Len(s) /\ k # i
      BY <1>1, <1>2, <2>1
    <3> QED
      BY <1>1, <1>3, <1>4, <3>1 DEF ToSet
  <2>2. CASE ~(k < i)
    <3>1. t[k] = s[k + 1] /\ k + 1 \in 1 .. Len(s) /\ k + 1 # i
      BY <1>1, <1>2, <2>2
    <3> QED
      BY <1>1, <1>3, <1>4, <3>1 DEF ToSet
  <2> QED
    BY <2>1, <2>2
<1>7. \A y \in ToSet(s) : y # s[i] => y \in ToSet(t)
  <2> SUFFICES ASSUME NEW k \in 1 .. Len(s), k # i PROVE s[k] \in ToSet(t)
    BY <1>3 DEF ToSet
  <2>1. CASE k < i
    <3>1. k \in 1 .. Len(s) - 1 /\ t[k] = s[k]
      BY <1>1, <1>2, <2>1
    <3> QED
      BY <1>3, <3>1 DEF ToSet
  <2>2. CASE ~(k < i)
    <3>1. k - 1 \in 1 .. Len(s) - 1 /\ t[k - 1] = s[k]
      BY <1>1, <1>2, <2>2
    <3> QED
      BY <1>3, <3>1 DEF ToSet
  <2> QED
    BY <2>1, <2>2
<1> QED
  BY <1>2, <1>5, <1>6, <1>7 DEF t

\* Putting an entry at a place.
LEMMA Inserted ==
  ASSUME NEW s \in Seq(Int), IsInjective(s), NEW id \in Int, id \notin ToSet(s),
         NEW i \in 1 .. Len(s) + 1
  PROVE  /\ InsertAt(s, i, id) \in Seq(Int) /\ IsInjective(InsertAt(s, i, id))
         /\ ToSet(InsertAt(s, i, id)) = ToSet(s) \cup {id}
<1> DEFINE t == InsertAt(s, i, id)
<1>1. i \in Nat /\ Len(s) \in Nat /\ 1 <= i /\ i <= Len(s) + 1
  OBVIOUS
<1>2. /\ t \in Seq(Int) /\ Len(t) = Len(s) + 1
      /\ \A k \in 1 .. Len(s) + 1 :
           t[k] = IF k < i THEN s[k] ELSE IF k = i THEN id ELSE s[k - 1]
  <2> DEFINE a == SubSeq(s, 1, i - 1)
             b == SubSeq(s, i, Len(s))
             c == a \o <<id>>
  <2>1. /\ a \in Seq(Int) /\ Len(a) = i - 1 /\ \A k \in 1 .. i - 1 : a[k] = s[k]
    <3>1. 0 \in Nat /\ i - 1 \in Nat /\ i - 1 <= Len(s) /\ 0 <= i - 1
      BY <1>1
    <3> QED
      BY <1>1, <3>1, Part
  <2>2. /\ b \in Seq(Int) /\ Len(b) = Len(s) - (i - 1)
        /\ \A k \in 1 .. Len(s) - (i - 1) : b[k] = s[(i - 1) + k]
    <3>1. i - 1 \in Nat /\ i - 1 <= Len(s) /\ (i - 1) + 1 = i
      BY <1>1
    <3> QED
      BY <1>1, <3>1, Part
  <2>3. t = c \o b
    BY DEF InsertAt
  <2> HIDE DEF a, b, t
  <2>4. /\ <<id>> \in Seq(Int) /\ Len(<<id>>) = 1 /\ <<id>>[1] = id
    OBVIOUS
  <2>5. /\ c \in Seq(Int) /\ Len(c) = i
        /\ \A k \in 1 .. i - 1 : c[k] = s[k]
        /\ c[i] = id
    <3>1. /\ c \in Seq(Int) /\ Len(c) = Len(a) + 1
          /\ \A k \in 1 .. Len(a) : c[k] = a[k]
          /\ c[Len(a) + 1] = id
      BY <2>1, <2>4, ListedOn
    <3> QED
      BY <1>1, <2>1, <3>1
  <2> HIDE DEF c
  <2>6. /\ t \in Seq(Int) /\ Len(t) = Len(c) + Len(b)
        /\ \A k \in 1 .. Len(c) : t[k] = c[k]
        /\ \A k \in 1 .. Len(b) : t[Len(c) + k] = b[k]
    BY <2>2, <2>3, <2>5, ListedOn
  <2>7. Len(t) = Len(s) + 1
    BY <1>1, <2>2, <2>5, <2>6
  <2>8. ASSUME NEW k \in 1 .. Len(s) + 1
        PROVE  t[k] = IF k < i THEN s[k] ELSE IF k = i THEN id ELSE s[k - 1]
    <3>1. CASE k < i
      <4>1. k \in 1 .. i - 1 /\ k \in 1 .. i
        BY <1>1, <3>1
      <4> QED
        BY <2>5, <2>6, <3>1, <4>1
    <3>2. CASE k = i
      <4>1. i \in 1 .. i /\ ~(i < i)
        BY <1>1
      <4> QED
        BY <2>5, <2>6, <3>2, <4>1
    <3>3. CASE k > i
      <4>1. k - i \in 1 .. Len(s) - (i - 1) /\ i + (k - i) = k /\ (i - 1) + (k - i) = k - 1
        BY <1>1, <3>3
      <4>2. b[k - i] = s[k - 1] /\ t[k] = b[k - i]
        BY <2>2, <2>5, <2>6, <4>1
      <4>3. ~(k < i) /\ k # i
        BY <1>1, <3>3
      <4> QED
        BY <4>2, <4>3
    <3> QED
      BY <1>1, <3>1, <3>2, <3>3
  <2> QED
    BY <2>6, <2>7, <2>8
<1> HIDE DEF t
<1>3. DOMAIN t = 1 .. Len(s) + 1 /\ DOMAIN s = 1 .. Len(s)
  BY <1>2
<1>4. /\ \A j, k \in 1 .. Len(s) : s[j] = s[k] => j = k
      /\ \A k \in 1 .. Len(s) : s[k] # id
  BY <1>3 DEF IsInjective, ToSet
<1>5. IsInjective(t)
  <2> SUFFICES ASSUME NEW j \in 1 .. Len(s) + 1, NEW k \in 1 .. Len(s) + 1, t[j] = t[k]
               PROVE  j = k
    BY <1>3 DEF IsInjective
  <2> DEFINE of(x) == IF x < i THEN x ELSE x - 1
  <2>1. ASSUME NEW x \in 1 .. Len(s) + 1, x # i
        PROVE  of(x) \in 1 .. Len(s) /\ t[x] = s[of(x)]
    <3>1. of(x) \in 1 .. Len(s)
      BY <1>1, <2>1
    <3>2. t[x] = s[of(x)]
      BY <1>2, <2>1
    <3> QED
      BY <3>1, <3>2
  <2>2. j # i /\ k # i => (of(j) = of(k) => j = k)
    BY <1>1
  <2>3. t[i] = id /\ i \in 1 .. Len(s) + 1
    BY <1>1, <1>2
  <2> HIDE DEF of
  <2>4. CASE j = i \/ k = i
    BY <1>4, <2>1, <2>3, <2>4
  <2>5. CASE j # i /\ k # i
    BY <1>4, <2>1, <2>2, <2>5
  <2> QED
    BY <2>4, <2>5
<1>6. \A y \in ToSet(t) : y \in ToSet(s) \cup {id}
  <2> SUFFICES ASSUME NEW k \in 1 .. Len(s) + 1 PROVE t[k] \in ToSet(s) \cup {id}
    BY <1>3 DEF ToSet
  <2>1. k < i => k \in DOMAIN s
    BY <1>1, <1>3
  <2>2. k > i => k - 1 \in DOMAIN s
    BY <1>1, <1>3
  <2> QED
    BY <1>1, <1>2, <2>1, <2>2 DEF ToSet
<1>7. \A y \in ToSet(s) \cup {id} : y \in ToSet(t)
  <2>1. id \in ToSet(t)
    <3>1. t[i] = id /\ i \in DOMAIN t
      BY <1>1, <1>2, <1>3
    <3> QED
      BY <3>1 DEF ToSet
  <2>2. ASSUME NEW k \in 1 .. Len(s) PROVE s[k] \in ToSet(t)
    <3>1. CASE k < i
      <4>1. k \in 1 .. Len(s) + 1 /\ t[k] = s[k]
        BY <1>1, <1>2, <3>1
      <4> QED
        BY <1>3, <4>1 DEF ToSet
    <3>2. CASE ~(k < i)
      <4>1. /\ k + 1 \in 1 .. Len(s) + 1
            /\ ~(k + 1 < i) /\ k + 1 # i /\ (k + 1) - 1 = k
        BY <1>1, <3>2
      <4>2. t[k + 1] = s[(k + 1) - 1]
        BY <1>2, <4>1
      <4> QED
        BY <1>3, <4>1, <4>2 DEF ToSet
    <3> QED
      BY <3>1, <3>2
  <2> QED
    BY <1>3, <2>1, <2>2 DEF ToSet
<1> QED
  BY <1>2, <1>5, <1>6, <1>7 DEF t

\* An id that is taken out is gone, and nothing else.
LEMMA WithoutHolds ==
  ASSUME NEW s \in Seq(Int), IsInjective(s), NEW id
  PROVE  /\ Without(s, id) \in Seq(Int) /\ IsInjective(Without(s, id))
         /\ ToSet(Without(s, id)) = ToSet(s) \ {id}
<1>1. CASE id \in ToSet(s)
  <2> DEFINE i == CHOOSE i \in DOMAIN s : s[i] = id
  <2>1. i \in DOMAIN s /\ s[i] = id
    BY <1>1 DEF ToSet
  <2> HIDE DEF i
  <2>2. /\ RemoveAt(s, i) \in Seq(Int) /\ IsInjective(RemoveAt(s, i))
        /\ ToSet(RemoveAt(s, i)) = ToSet(s) \ {id}
    BY <2>1, Removed
  <2> QED
    BY <1>1, <2>2 DEF Without, i
<1>2. CASE id \notin ToSet(s)
  BY <1>2 DEF Without
<1> QED
  BY <1>1, <1>2

\* What is declared is there, in one place, and nothing else has come or gone.
LEMMA UpsertedHolds ==
  ASSUME NEW s \in Seq(Int), IsInjective(s), NEW id \in Int, NEW t \in Upserted(s, id)
  PROVE  t \in Seq(Int) /\ IsInjective(t) /\ ToSet(t) = ToSet(s) \cup {id}
<1>1. CASE id \in ToSet(s)
  BY <1>1 DEF Upserted
<1>2. CASE id \notin ToSet(s)
  <2>1. PICK i \in 1 .. Len(s) + 1 : t = InsertAt(s, i, id)
    BY <1>2 DEF Upserted
  <2> QED
    BY <1>2, <2>1, Inserted
<1> QED
  BY <1>1, <1>2

\* A scheduler that fires changes its place, and nothing comes or goes.
LEMMA RescheduledHolds ==
  ASSUME NEW s \in Seq(Int), IsInjective(s), NEW t \in Rescheduled(s)
  PROVE  t \in Seq(Int) /\ IsInjective(t) /\ ToSet(t) = ToSet(s)
<1>1. CASE t = s
  BY <1>1
<1>2. CASE t # s
  <2>1. PICK i \in DOMAIN s : \E j \in i .. Len(s) : t = InsertAt(RemoveAt(s, i), j, s[i])
    BY <1>2 DEF Rescheduled
  <2>2. PICK j \in i .. Len(s) : t = InsertAt(RemoveAt(s, i), j, s[i])
    BY <2>1
  <2> DEFINE r == RemoveAt(s, i)
  <2>3. /\ r \in Seq(Int) /\ IsInjective(r) /\ Len(r) = Len(s) - 1
        /\ ToSet(r) = ToSet(s) \ {s[i]}
    BY Removed
  <2>4. t = InsertAt(r, j, s[i])
    BY <2>2
  <2> HIDE DEF r
  <2>5. s[i] \in Int /\ s[i] \in ToSet(s) /\ s[i] \notin ToSet(r) /\ j \in 1 .. Len(r) + 1
    <3>1. s[i] \in Int /\ s[i] \in ToSet(s)
      BY DEF ToSet
    <3>2. i \in 1 .. Len(s) /\ Len(s) \in Nat
      OBVIOUS
    <3>3. j \in 1 .. Len(r) + 1
      BY <2>3, <3>2
    <3> QED
      BY <2>3, <3>1, <3>3
  <2>6. t \in Seq(Int) /\ IsInjective(t) /\ ToSet(t) = ToSet(r) \cup {s[i]}
    BY <2>3, <2>4, <2>5, Inserted
  <2> QED
    BY <2>3, <2>5, <2>6
<1> QED
  BY <1>1, <1>2

-----------------------------------------------------------------------------
(* The processes *)

LEMMA Named ==
  /\ Newest \in Nat /\ 1 \in Releases /\ Newest \in Releases /\ 0 \notin Releases
  /\ \A v \in Releases : v \in Nat /\ v <= Newest
  /\ NoStamp \in Nat /\ NoStamp = TTL + 1 /\ TTL \in Nat
  /\ Heartbeat \in Queues
  /\ \A v \in Releases : QueuesOf(v) \subseteq Queues
<1>1. Newest \in Nat
  BY FleetAssumption, FS_CardinalityType DEF Newest
<1>2. /\ 1 \in Releases /\ Newest \in Releases /\ 0 \notin Releases
      /\ \A v \in Releases : v \in Nat /\ v <= Newest
  BY <1>1, FleetAssumption
<1>3. \A v \in Releases : QueuesOf(v) \subseteq Queues
  BY DEF Queues
<1> QED
  BY <1>1, <1>2, <1>3, FleetAssumption DEF NoStamp

LEMMA Beginnings == NoPass \in Passes /\ NoSync \in Syncs /\ Down \in Procs
<1>1. NoPass \in Passes
  BY DEF NoPass, Passes, Values
<1>2. NoSync \in Syncs
  BY DEF NoSync, Syncs
<1> QED
  BY <1>1, <1>2, Named DEF Down, Procs, Phases

\* One process changes.
LEMMA OneProc ==
  ASSUME ProcTypeOK, NEW w \in Workers, NEW p \in Procs, proc' = [proc EXCEPT ![w] = p]
  PROVE  /\ ProcTypeOK' /\ proc'[w] = p
         /\ \A x \in Workers \ {w} : proc'[x] = proc[x]
  BY DEF ProcTypeOK

LEMMA NewPass ==
  ASSUME ProcTypeOK, NEW w \in Workers, NEW pass \in Passes, UpdatePass(w, pass)
  PROVE  /\ ProcTypeOK' /\ proc'[w].pass = pass
         /\ \A x \in Workers \ {w} : proc'[x] = proc[x]
         /\ \A x \in Workers :
              /\ proc'[x].phase = proc[x].phase /\ proc'[x].release = proc[x].release
              /\ proc'[x].sync = proc[x].sync /\ proc'[x].alone = proc[x].alone
              /\ proc'[x].beaten = proc[x].beaten
<1>1. proc[w] \in Procs
  BY DEF ProcTypeOK
<1>2. [proc[w] EXCEPT !.pass = pass] \in Procs
  BY <1>1 DEF Procs
<1>3. proc' = [proc EXCEPT ![w] = [proc[w] EXCEPT !.pass = pass]]
  BY DEF UpdatePass, ProcTypeOK
<1>4. /\ ProcTypeOK' /\ proc'[w] = [proc[w] EXCEPT !.pass = pass]
      /\ \A x \in Workers \ {w} : proc'[x] = proc[x]
  BY <1>2, <1>3, OneProc
<1>5. /\ proc'[w].pass = pass
      /\ proc'[w].phase = proc[w].phase /\ proc'[w].release = proc[w].release
      /\ proc'[w].sync = proc[w].sync /\ proc'[w].alone = proc[w].alone
      /\ proc'[w].beaten = proc[w].beaten
  BY <1>1, <1>4 DEF Procs
<1> QED
  BY <1>4, <1>5

LEMMA NewSync ==
  ASSUME ProcTypeOK, NEW w \in Workers, NEW sync \in Syncs, SyncGoesOn(w, sync)
  PROVE  /\ ProcTypeOK' /\ proc'[w].sync = sync
         /\ \A x \in Workers \ {w} : proc'[x] = proc[x]
         /\ \A x \in Workers :
              /\ proc'[x].phase = proc[x].phase /\ proc'[x].release = proc[x].release
              /\ proc'[x].pass = proc[x].pass /\ proc'[x].alone = proc[x].alone
              /\ proc'[x].beaten = proc[x].beaten
<1>1. proc[w] \in Procs
  BY DEF ProcTypeOK
<1>2. [proc[w] EXCEPT !.sync = sync] \in Procs
  BY <1>1 DEF Procs
<1>3. proc' = [proc EXCEPT ![w] = [proc[w] EXCEPT !.sync = sync]]
  BY DEF SyncGoesOn, ProcTypeOK
<1>4. /\ ProcTypeOK' /\ proc'[w] = [proc[w] EXCEPT !.sync = sync]
      /\ \A x \in Workers \ {w} : proc'[x] = proc[x]
  BY <1>2, <1>3, OneProc
<1>5. /\ proc'[w].sync = sync
      /\ proc'[w].phase = proc[w].phase /\ proc'[w].release = proc[w].release
      /\ proc'[w].pass = proc[w].pass /\ proc'[w].alone = proc[w].alone
      /\ proc'[w].beaten = proc[w].beaten
  BY <1>1, <1>4 DEF Procs
<1> QED
  BY <1>4, <1>5

LEMMA WrittenSync ==
  ASSUME ProcTypeOK, NEW w \in Workers, NEW sync \in Syncs, SyncWrites(w, sync)
  PROVE  /\ ProcTypeOK' /\ proc'[w].sync = sync /\ proc'[w].alone = proc[w].alone
         /\ \A x \in Workers \ {w} : proc'[x].sync = proc[x].sync /\ ~proc'[x].alone
         /\ \A x \in Workers :
              /\ proc'[x].phase = proc[x].phase /\ proc'[x].release = proc[x].release
              /\ proc'[x].pass = proc[x].pass /\ proc'[x].beaten = proc[x].beaten
<1>1. ASSUME NEW p \in Procs
      PROVE  /\ [p EXCEPT !.sync = sync] \in Procs
             /\ [p EXCEPT !.alone = FALSE] \in Procs
  BY DEF Procs
<1>2. ASSUME NEW x \in Workers
      PROVE  proc'[x] = IF x = w THEN [proc[x] EXCEPT !.sync = sync]
                        ELSE [proc[x] EXCEPT !.alone = FALSE]
  BY DEF SyncWrites
<1>3. ProcTypeOK'
  BY <1>1 DEF SyncWrites, ProcTypeOK
<1>4. \A x \in Workers : proc[x] \in Procs
  BY DEF ProcTypeOK
<1>5. proc'[w].sync = sync /\ proc'[w].alone = proc[w].alone
      /\ proc'[w].phase = proc[w].phase /\ proc'[w].release = proc[w].release
      /\ proc'[w].pass = proc[w].pass /\ proc'[w].beaten = proc[w].beaten
  BY <1>2, <1>4 DEF Procs
<1>6. ASSUME NEW x \in Workers \ {w}
      PROVE  /\ proc'[x].sync = proc[x].sync /\ ~proc'[x].alone
             /\ proc'[x].phase = proc[x].phase /\ proc'[x].release = proc[x].release
             /\ proc'[x].pass = proc[x].pass /\ proc'[x].beaten = proc[x].beaten
  <2>1. proc'[x] = [proc[x] EXCEPT !.alone = FALSE] /\ proc[x] \in Procs
    BY <1>2, <1>4
  <2> QED
    BY <2>1 DEF Procs
<1> QED
  BY <1>3, <1>5, <1>6

-----------------------------------------------------------------------------
(* What a part of the invariant does not see *)

Idle == {"down", "applying", "clearing"}

LEMMA StampFrame ==
  ASSUME FleetInv, UNCHANGED <<stamp, beat>>,
         \A x \in Workers : proc'[x].phase \in {"syncing", "up"} =>
           proc[x].phase \in {"syncing", "up"} /\ proc'[x].beaten = proc[x].beaten
  PROVE  StampInv'
  BY DEF FleetInv, StampInv, NoStamp

LEMMA PassFrame ==
  ASSUME FleetInv, UNCHANGED <<off, about, pruning, row>>,
         \A x \in Workers : proc'[x].pass = proc[x].pass \/ proc'[x].pass = NoPass
  PROVE  PassInv'
<1>1. ASSUME NEW x \in Workers
      PROVE  /\ proc'[x].pass.off \subseteq off'
             /\ proc'[x].pass.step = "asking" =>
                  \A q \in proc'[x].pass.off : proc'[x].pass.switches[q] # "on"
  <2>1. NoPass.off = {} /\ NoPass.step = "none"
    BY DEF NoPass
  <2> QED
    BY <2>1 DEF FleetInv, PassInv, Pass
<1> QED
  BY <1>1 DEF FleetInv, PassInv, Pass

LEMMA SameSync ==
  ASSUME NEW x, proc'[x].phase = proc[x].phase, proc'[x].release = proc[x].release,
         proc'[x].sync = proc[x].sync
  PROVE  /\ PlaceOf(x) => PlaceOf(x)'
         /\ AloneOf(x) /\ UNCHANGED <<schedulers, about>> => AloneOf(x)'
<1>1. Sync(x)' = Sync(x) /\ SyncQueue(x)' = SyncQueue(x) /\ ToDeclare(x)' = ToDeclare(x)
      /\ \A q : Declared(x, q)' = Declared(x, q)
  BY DEF Sync, SyncQueue, ToDeclare, Declared
<1>2. PlaceOf(x) => PlaceOf(x)'
  BY <1>1 DEF PlaceOf
<1>3. AloneOf(x) /\ UNCHANGED <<schedulers, about>> => AloneOf(x)'
  BY <1>1 DEF AloneOf, Done
<1> QED
  BY <1>2, <1>3

LEMMA SyncFrame ==
  ASSUME FleetInv, UNCHANGED <<schedulers, about>>,
         \A x \in Workers :
           \/ /\ proc'[x].phase = proc[x].phase /\ proc'[x].release = proc[x].release
              /\ proc'[x].sync = proc[x].sync /\ proc'[x].alone = proc[x].alone
           \/ /\ proc'[x].phase \in Idle /\ proc'[x].sync = NoSync
              /\ proc'[x].release \in Releases
  PROVE  PlaceInv' /\ AloneInv' /\ OrderInv'
<1>1. NoSync.step = "none" /\ NoSync.ids = <<>> /\ \A q \in Queues : NoSync.upserted[q] = {}
  BY DEF NoSync
<1>2. ASSUME NEW x \in Workers PROVE PlaceOf(x)' /\ (proc'[x].alone => AloneOf(x)')
  <2>1. CASE /\ proc'[x].phase = proc[x].phase /\ proc'[x].release = proc[x].release
             /\ proc'[x].sync = proc[x].sync /\ proc'[x].alone = proc[x].alone
    BY <2>1, SameSync DEF FleetInv, PlaceInv, AloneInv
  <2>2. CASE /\ proc'[x].phase \in Idle /\ proc'[x].sync = NoSync
             /\ proc'[x].release \in Releases
    BY <1>1, <2>2, Named DEF PlaceOf, AloneOf, Sync, Declared, Idle
  <2> QED
    BY <2>1, <2>2
<1>3. OrderInv'
  BY DEF FleetInv, OrderInv
<1> QED
  BY <1>2, <1>3 DEF PlaceInv, AloneInv

LEMMA StoreFrame ==
  ASSUME FleetInv, UNCHANGED <<storeVars, edits, about, off, beat>>, failures' \in Nat
  PROVE  StoreTypeOK'
  BY DEF FleetInv, TypeOK, StoreTypeOK, storeVars, NoStamp

-----------------------------------------------------------------------------
(* The passes *)

\* A pass that throws leaves a process that passes nothing.
LEMMA Thrown ==
  ASSUME FleetInv, NEW w \in Workers, PassThrows(w)
  PROVE  /\ ProcTypeOK'
         /\ \A x \in Workers : proc'[x].pass = proc[x].pass \/ proc'[x].pass = NoPass
         /\ \A x \in Workers :
              \/ /\ proc'[x].phase = proc[x].phase /\ proc'[x].release = proc[x].release
                 /\ proc'[x].sync = proc[x].sync /\ proc'[x].alone = proc[x].alone
                 /\ proc'[x].beaten = proc[x].beaten
              \/ /\ proc'[x].phase \in Idle /\ proc'[x].sync = NoSync
                 /\ proc'[x].release \in Releases
         /\ \A x \in Workers \ {w} : proc'[x] = proc[x]
<1> DEFINE p == IF proc[w].phase = "applying" THEN Down ELSE [proc[w] EXCEPT !.pass = NoPass]
<1>1. proc[w] \in Procs
  BY DEF FleetInv, TypeOK, ProcTypeOK
<1>2. [proc[w] EXCEPT !.pass = NoPass] \in Procs
  BY <1>1, Beginnings DEF Procs
<1>3. p \in Procs
  BY <1>2, Beginnings
<1>4. proc' = [proc EXCEPT ![w] = p]
  BY DEF PassThrows, FleetInv, TypeOK, ProcTypeOK
<1> HIDE DEF p
<1>5. /\ ProcTypeOK' /\ proc'[w] = p /\ \A x \in Workers \ {w} : proc'[x] = proc[x]
  BY <1>3, <1>4, OneProc DEF FleetInv, TypeOK
<1>6. \/ /\ p.phase = proc[w].phase /\ p.release = proc[w].release
         /\ p.sync = proc[w].sync /\ p.alone = proc[w].alone /\ p.beaten = proc[w].beaten
      \/ p.phase \in Idle /\ p.sync = NoSync /\ p.release \in Releases
  <2>1. CASE proc[w].phase = "applying"
    BY <2>1, Named DEF p, Down, Idle
  <2>2. CASE proc[w].phase # "applying"
    BY <1>1, <2>2 DEF p, Procs
  <2> QED
    BY <2>1, <2>2
<1>7. p.pass = NoPass
  <2>1. Down.pass = NoPass
    BY DEF Down
  <2>2. [proc[w] EXCEPT !.pass = NoPass].pass = NoPass
    BY <1>1 DEF Procs
  <2> QED
    BY <2>1, <2>2 DEF p
<1> QED
  BY <1>5, <1>6, <1>7

LEMMA ThrownKeeps ==
  ASSUME FleetInv, NEW w \in Workers, PassThrows(w),
         UNCHANGED <<storeVars, edits, about, off, beat>>, failures' \in Nat
  PROVE  FleetInv'
<1>1. StoreTypeOK'
  BY StoreFrame
<1>2. PassInv'
  BY Thrown, PassFrame DEF storeVars
<1>3. PlaceInv' /\ AloneInv' /\ OrderInv'
  BY Thrown, SyncFrame DEF storeVars
<1>4. StampInv'
  BY Thrown, StampFrame DEF storeVars, Idle
<1> QED
  BY <1>1, <1>2, <1>3, <1>4, Thrown DEF FleetInv, TypeOK

\* A pass goes on, and knows no less of the switches.
LEMMA PassGoesOn ==
  ASSUME FleetInv, NEW w \in Workers, NEW pass \in Passes, UpdatePass(w, pass),
         UNCHANGED <<row, schedulers, stamp, due, release, pruning, boundVars, off, beat>>,
         paused' \in SUBSET Queues,
         pass.off \subseteq off,
         pass.step = "asking" => \A q \in pass.off : pass.switches[q] # "on"
  PROVE  FleetInv'
<1>1. /\ ProcTypeOK' /\ proc'[w].pass = pass
      /\ \A x \in Workers \ {w} : proc'[x] = proc[x]
      /\ \A x \in Workers :
           /\ proc'[x].phase = proc[x].phase /\ proc'[x].release = proc[x].release
           /\ proc'[x].sync = proc[x].sync /\ proc'[x].alone = proc[x].alone
           /\ proc'[x].beaten = proc[x].beaten
  BY NewPass DEF FleetInv, TypeOK
<1>2. UNCHANGED <<row, schedulers, stamp, pruning, about, off, beat>>
  BY DEF boundVars
<1>3. StoreTypeOK'
  BY DEF FleetInv, TypeOK, StoreTypeOK, boundVars, NoStamp
<1>4. PassInv'
  BY <1>1, <1>2 DEF FleetInv, PassInv, Pass
<1>5. PlaceInv' /\ AloneInv' /\ OrderInv'
  BY <1>1, <1>2, SyncFrame
<1>6. StampInv'
  BY <1>1, <1>2, StampFrame
<1> QED
  BY <1>1, <1>3, <1>4, <1>5, <1>6 DEF FleetInv, TypeOK

LEMMA PassTyped ==
  ASSUME FleetInv, NEW w \in Workers
  PROVE  /\ proc[w] \in Procs /\ Pass(w) \in Passes /\ Pass(w).off \subseteq off
         /\ proc[w].release \in Releases /\ Sync(w) \in Syncs
         /\ Pass(w).at \in Nat
         /\ QueuesOf(proc[w].release) \subseteq Queues
  BY Named DEF FleetInv, TypeOK, ProcTypeOK, Procs, Passes, PassInv, Pass, Sync

LEMMA SyncTyped ==
  ASSUME FleetInv, NEW w \in Workers
  PROVE  /\ Sync(w) \in Syncs /\ Sync(w).ids \in Seq(Int) /\ Sync(w).at \in Nat
         /\ Registry[proc[w].release] \in Seq(QueuesOf(proc[w].release))
         /\ QueuesOf(proc[w].release) \subseteq Queues
         /\ \A i \in DOMAIN Registry[proc[w].release] :
              Registry[proc[w].release][i] \in QueuesOf(proc[w].release)
         /\ \A q \in QueuesOf(proc[w].release) :
              \E i \in DOMAIN Registry[proc[w].release] : Registry[proc[w].release][i] = q
         /\ \A q \in Queues : Declared(w, q) \in SUBSET Int
<1>1. Sync(w) \in Syncs
  BY PassTyped
<1>2. Sync(w).ids \in Seq(Int) /\ Sync(w).at \in Nat
  BY <1>1 DEF Syncs
<1>3. proc[w].release \in Releases
  BY PassTyped
<1>4. \A q \in Queues : Declared(w, q) \in SUBSET Int
  BY <1>3, FleetAssumption DEF Declared
<1> QED
  BY <1>1, <1>2, <1>3, <1>4, Named, FleetAssumption DEF QueuesOf, ToSet

LEMMA TickBeginsKeeps ==
  ASSUME FleetInv, NEW w \in Workers, TickBegins(w) PROVE FleetInv'
<1> DEFINE pass == [NoPass EXCEPT !.step = "reading", !.off = off]
<1>1. pass \in Passes /\ pass.off = off /\ pass.step = "reading"
  BY Beginnings DEF Passes, FleetInv, TypeOK, StoreTypeOK
<1>2. /\ UpdatePass(w, pass)
      /\ UNCHANGED <<row, schedulers, stamp, due, release, pruning, boundVars, off, beat>>
      /\ paused' \in SUBSET Queues
  BY DEF TickBegins, storeVars, FleetInv, TypeOK, StoreTypeOK
<1> HIDE DEF pass
<1> QED
  BY <1>1, <1>2, PassGoesOn

LEMMA ReadSwitchesKeeps ==
  ASSUME FleetInv, NEW w \in Workers, ReadSwitches(w) PROVE FleetInv'
<1>1. CASE Readable(row)
  <2> DEFINE pass == [Pass(w) EXCEPT !.step = "asking", !.switches = row]
  <2>1. Pass(w) \in Passes /\ Pass(w).off \subseteq off /\ row \in [Queues -> Values]
    BY PassTyped DEF FleetInv, TypeOK, StoreTypeOK
  <2>2. pass \in Passes /\ pass.off = Pass(w).off /\ pass.switches = row
    BY <2>1 DEF Passes
  <2>3. /\ UpdatePass(w, pass)
        /\ UNCHANGED <<row, schedulers, stamp, due, release, pruning, boundVars, off, beat>>
        /\ paused' \in SUBSET Queues
    BY <1>1 DEF ReadSwitches, storeVars, FleetInv, TypeOK, StoreTypeOK
  <2>4. \A q \in off : row[q] # "on"
    BY DEF FleetInv, PassInv
  <2> HIDE DEF pass
  <2> QED
    BY <2>1, <2>2, <2>3, <2>4, PassGoesOn
<1>2. CASE ~Readable(row)
  <2>1. PassThrows(w) /\ UNCHANGED <<storeVars, edits, about, off, beat>> /\ failures' \in Nat
    BY <1>2 DEF ReadSwitches, boundVars, FleetInv, TypeOK, StoreTypeOK
  <2> QED
    BY <2>1, ThrownKeeps
<1> QED
  BY <1>1, <1>2

LEMMA AskStateKeeps ==
  ASSUME FleetInv, NEW w \in Workers, NEW q \in Queues, AskState(w, q) PROVE FleetInv'
<1> DEFINE answer == IF q \in paused THEN "paused" ELSE "running"
           pass == [Pass(w) EXCEPT !.states[q] = answer]
<1>1. Pass(w) \in Passes /\ Pass(w).off \subseteq off
  BY PassTyped
<1>2. answer \in {"unread", "paused", "running"}
  OBVIOUS
<1>3. /\ UpdatePass(w, pass) /\ Pass(w).step = "asking"
      /\ UNCHANGED <<row, schedulers, stamp, due, release, pruning, boundVars, off, beat>>
      /\ paused' \in SUBSET Queues
  BY DEF AskState, storeVars, FleetInv, TypeOK, StoreTypeOK
<1> HIDE DEF answer
<1>4. /\ pass \in Passes /\ pass.off = Pass(w).off /\ pass.switches = Pass(w).switches
      /\ pass.step = Pass(w).step
  BY <1>1, <1>2 DEF Passes
<1>5. \A x \in Pass(w).off : Pass(w).switches[x] # "on"
  BY <1>3 DEF FleetInv, PassInv
<1> HIDE DEF pass
<1> QED
  BY <1>1, <1>3, <1>4, <1>5, PassGoesOn

\* The queue a pass acts on, and what it does to it.
LEMMA Acted ==
  ASSUME FleetInv, NEW w \in Workers, Act(w)
  PROVE  /\ \A q \in paused \ paused' : Pass(w).switches[q] = "on"
         /\ paused' \in SUBSET Queues
         /\ Pass(w).step = "asking"
         /\ \E at \in Nat : UpdatePass(w, [Pass(w) EXCEPT !.at = at])
         /\ UNCHANGED <<row, schedulers, stamp, due, release, pruning, boundVars, off, beat>>
<1>1. PICK i \in LeftToDo(w) :
        LET q == Registry[proc[w].release][i]
        IN  /\ paused' = IF Pass(w).switches[q] = "on" THEN paused \ {q} ELSE paused \cup {q}
            /\ UpdatePass(w, [Pass(w) EXCEPT !.at = i + 1])
  BY DEF Act
<1>2. i \in DOMAIN Registry[proc[w].release]
  BY DEF LeftToDo
<1>3. i + 1 \in Nat
  BY <1>2, PassTyped, FleetAssumption
<1>4. Registry[proc[w].release][i] \in Queues
  BY <1>2, PassTyped DEF QueuesOf, ToSet
<1>5. paused \in SUBSET Queues
  BY DEF FleetInv, TypeOK, StoreTypeOK
<1>6. \A q \in paused \ paused' : Pass(w).switches[q] = "on"
  BY <1>1
<1>7. paused' \in SUBSET Queues
  BY <1>1, <1>4, <1>5
<1> QED
  BY <1>1, <1>3, <1>6, <1>7 DEF Act, Acting

LEMMA ActKeeps ==
  ASSUME FleetInv, NEW w \in Workers, Act(w) PROVE FleetInv'
<1>1. PICK at \in Nat : UpdatePass(w, [Pass(w) EXCEPT !.at = at])
  BY Acted
<1> DEFINE pass == [Pass(w) EXCEPT !.at = at]
<1>2. Pass(w) \in Passes /\ Pass(w).off \subseteq off /\ Pass(w).step = "asking"
  BY PassTyped, Acted
<1>3. /\ pass \in Passes /\ pass.off = Pass(w).off /\ pass.switches = Pass(w).switches
  BY <1>2 DEF Passes
<1>4. paused' \in SUBSET Queues
  BY Acted
<1>5. \A x \in Pass(w).off : Pass(w).switches[x] # "on"
  BY <1>2 DEF FleetInv, PassInv
<1> HIDE DEF pass
<1>6. UpdatePass(w, pass)
  BY <1>1 DEF pass
<1> QED
  BY <1>2, <1>3, <1>4, <1>5, <1>6, Acted, PassGoesOn

LEMMA PassEndsKeeps ==
  ASSUME FleetInv, NEW w \in Workers, PassEnds(w) PROVE FleetInv'
<1>1. UNCHANGED <<storeVars, boundVars, off, beat>>
  BY DEF PassEnds
<1>2. CASE proc[w].phase = "applying"
  <2> DEFINE p == [proc[w] EXCEPT !.pass = NoPass, !.phase = "clearing"]
  <2>1. proc[w] \in Procs
    BY PassTyped
  <2>2. p \in Procs /\ p.pass = NoPass /\ p.phase = "clearing" /\ p.sync = proc[w].sync
        /\ p.release = proc[w].release
    BY <2>1, Beginnings DEF Procs, Phases
  <2>3. proc' = [proc EXCEPT ![w] = p]
    BY <1>2 DEF PassEnds, FleetInv, TypeOK, ProcTypeOK
  <2> HIDE DEF p
  <2>4. /\ ProcTypeOK' /\ proc'[w] = p /\ \A x \in Workers \ {w} : proc'[x] = proc[x]
    BY <2>2, <2>3, OneProc DEF FleetInv, TypeOK
  <2>5. p.sync = NoSync /\ p.release \in Releases
    BY <1>2, <2>2, PassTyped DEF FleetInv, PlaceInv, PlaceOf, Sync
  <2>6. StoreTypeOK'
    BY <1>1, StoreFrame DEF boundVars, FleetInv, TypeOK, StoreTypeOK
  <2>7. PassInv'
    BY <1>1, <2>2, <2>4, PassFrame DEF storeVars, boundVars
  <2>8. PlaceInv' /\ AloneInv' /\ OrderInv'
    BY <1>1, <2>2, <2>4, <2>5, SyncFrame DEF storeVars, boundVars, Idle
  <2>9. StampInv'
    BY <1>1, <2>2, <2>4, StampFrame DEF storeVars
  <2> QED
    BY <2>4, <2>6, <2>7, <2>8, <2>9 DEF FleetInv, TypeOK
<1>3. CASE proc[w].phase # "applying"
  <2>1. /\ UpdatePass(w, NoPass) /\ paused' \in SUBSET Queues
        /\ UNCHANGED <<row, schedulers, stamp, due, release, pruning, boundVars, off, beat>>
    BY <1>3 DEF PassEnds, storeVars, FleetInv, TypeOK, StoreTypeOK
  <2>2. NoPass.off = {} /\ NoPass.step = "none"
    BY DEF NoPass
  <2> QED
    BY <2>1, <2>2, PassGoesOn, Beginnings
<1> QED
  BY <1>2, <1>3

LEMMA FailuresKeep ==
  ASSUME FleetInv, NEW w \in Workers, PassFails(w) \/ Dies(w) PROVE FleetInv'
<1>1. failures' \in Nat /\ UNCHANGED <<storeVars, edits, about, off, beat>>
  BY DEF PassFails, Dies, FleetInv, TypeOK, StoreTypeOK
<1>2. CASE PassFails(w)
  BY <1>1, <1>2, ThrownKeeps DEF PassFails
<1>3. CASE Dies(w)
  <2>1. proc' = [proc EXCEPT ![w] = Down]
    BY <1>3 DEF Dies
  <2>2. /\ ProcTypeOK' /\ proc'[w] = Down /\ \A x \in Workers \ {w} : proc'[x] = proc[x]
    BY <2>1, OneProc, Beginnings DEF FleetInv, TypeOK
  <2>3. Down.phase = "down" /\ Down.pass = NoPass /\ Down.sync = NoSync
        /\ Down.release \in Releases
    BY Named DEF Down
  <2>4. StoreTypeOK'
    BY <1>1, StoreFrame
  <2>5. PassInv'
    BY <1>1, <2>2, <2>3, PassFrame DEF storeVars
  <2>6. PlaceInv' /\ AloneInv' /\ OrderInv'
    BY <1>1, <2>2, <2>3, SyncFrame DEF storeVars, Idle
  <2>7. StampInv'
    BY <1>1, <2>2, <2>3, StampFrame DEF storeVars
  <2> QED
    BY <2>2, <2>4, <2>5, <2>6, <2>7 DEF FleetInv, TypeOK
<1> QED
  BY <1>2, <1>3

LEMMA StartKeeps ==
  ASSUME FleetInv, NEW w \in Workers, Start(w) PROVE FleetInv'
<1> DEFINE pass == [NoPass EXCEPT !.step = "reading", !.off = off]
           p == [Down EXCEPT !.phase = "applying", !.release = release, !.pass = pass]
<1>1. pass \in Passes /\ pass.off = off /\ pass.step = "reading"
  BY Beginnings DEF Passes, FleetInv, TypeOK, StoreTypeOK
<1>2. proc' = [proc EXCEPT ![w] = p] /\ UNCHANGED <<storeVars, boundVars, off, beat>>
      /\ release \in Releases
  BY DEF Start, FleetInv, TypeOK, StoreTypeOK
<1> HIDE DEF pass
<1>3. p \in Procs /\ p.phase = "applying" /\ p.pass = pass /\ p.sync = NoSync
      /\ p.release = release
  <2>1. Down.sync = NoSync
    BY DEF Down
  <2> QED
    BY <1>1, <1>2, <2>1, Beginnings DEF Procs, Phases
<1> HIDE DEF p
<1>4. /\ ProcTypeOK' /\ proc'[w] = p /\ \A x \in Workers \ {w} : proc'[x] = proc[x]
  BY <1>2, <1>3, OneProc DEF FleetInv, TypeOK
<1>5. StoreTypeOK'
  BY <1>2, StoreFrame DEF boundVars, FleetInv, TypeOK, StoreTypeOK
<1>6. PassInv'
  BY <1>1, <1>2, <1>3, <1>4 DEF FleetInv, PassInv, Pass, storeVars, boundVars
<1>7. PlaceInv' /\ AloneInv' /\ OrderInv'
  BY <1>2, <1>3, <1>4, SyncFrame DEF storeVars, boundVars, Idle
<1>8. StampInv'
  BY <1>2, <1>3, <1>4, StampFrame DEF storeVars
<1> QED
  BY <1>4, <1>5, <1>6, <1>7, <1>8 DEF FleetInv, TypeOK

-----------------------------------------------------------------------------
(* The seed, the operator, and time *)

LEMMA ClearKeeps ==
  ASSUME FleetInv, NEW w \in Workers, ClearHeartbeat(w) PROVE FleetInv'
<1> DEFINE p == [proc[w] EXCEPT !.phase = AfterClear, !.alone = TRUE, !.sync.step = "declaring"]
<1>1. /\ proc[w].phase = "clearing" /\ stamp' = NoStamp
      /\ proc' = [proc EXCEPT ![w] = p]
      /\ UNCHANGED <<row, paused, schedulers, due, release, pruning, boundVars, off, beat>>
  BY DEF ClearHeartbeat, FleetInv, TypeOK, ProcTypeOK
<1>2. proc[w] \in Procs /\ proc[w].sync = NoSync
  BY <1>1, PassTyped DEF FleetInv, PlaceInv, PlaceOf, Sync
<1>3. [NoSync EXCEPT !.step = "declaring"] \in Syncs
  BY Beginnings DEF Syncs
<1>4. AfterClear \in {"syncing", "up"} /\ (about = "start" => AfterClear = "syncing")
  BY DEF AfterClear
<1>5. /\ p \in Procs /\ p.phase = AfterClear /\ p.release = proc[w].release
      /\ p.sync = [NoSync EXCEPT !.step = "declaring"] /\ p.pass = proc[w].pass
  <2> HIDE DEF AfterClear
  <2> QED
    BY <1>2, <1>3, <1>4 DEF Procs, Phases
<1> HIDE DEF p
<1>6. /\ ProcTypeOK' /\ proc'[w] = p /\ \A x \in Workers \ {w} : proc'[x] = proc[x]
  BY <1>1, <1>5, OneProc DEF FleetInv, TypeOK
<1>7. StoreTypeOK'
  BY <1>1, Named DEF FleetInv, TypeOK, StoreTypeOK, boundVars, NoStamp
<1>8. StampInv'
  BY <1>1 DEF StampInv, NoStamp
<1>9. PassInv'
  BY <1>1, <1>5, <1>6, PassFrame DEF boundVars
<1>10. /\ p.sync.step = "declaring" /\ p.sync.ids = <<>> /\ p.sync.at = 1
       /\ \A q \in Queues : p.sync.upserted[q] = {}
  BY <1>5 DEF NoSync
<1>11. QueuesOf(p.release) \subseteq Queues /\ AfterClear \notin Idle
  BY <1>4, <1>5, PassTyped DEF Idle
<1>12. PlaceInv'
  <2>1. \A x \in Workers \ {w} : PlaceOf(x)'
    BY <1>6, SameSync DEF FleetInv, PlaceInv
  <2>2. PlaceOf(w)'
    BY <1>5, <1>6, <1>10, <1>11 DEF PlaceOf, Sync, Idle
  <2> QED
    BY <2>1, <2>2 DEF PlaceInv
<1>13. AloneInv'
  <2>1. \A x \in Workers \ {w} : proc'[x].alone => AloneOf(x)'
    BY <1>1, <1>6, SameSync DEF FleetInv, AloneInv, boundVars
  <2>2. about' = "start" => p.phase # "up"
    BY <1>1, <1>4, <1>5 DEF boundVars
  <2>3. AloneOf(w)'
    BY <1>6, <1>10, <1>11, <2>2 DEF AloneOf, Sync
  <2> QED
    BY <2>1, <2>3 DEF AloneInv
<1>14. OrderInv'
  BY <1>1 DEF FleetInv, OrderInv
<1> QED
  BY <1>6, <1>7, <1>8, <1>9, <1>12, <1>13, <1>14 DEF FleetInv, TypeOK

LEMMA DefaultsTyped ==
  ASSUME NEW v \in Releases
  PROVE  /\ Defaults(v) \in [Queues -> Values]
         /\ \A q \in Queues \ QueuesOf(v) : Defaults(v)[q] = "absent"
  BY DEF Defaults, Values

\* Nothing but the row, what is paused and what is deployed changes.
LEMMA SettingKeeps ==
  ASSUME FleetInv, UNCHANGED <<schedulers, stamp, due, failures, about, beat>>,
         row' \in [Queues -> Values], paused' \in SUBSET Queues, off' \in SUBSET Queues,
         release' \in Releases, pruning' \in Releases \cup {0}, edits' \in Nat,
         ProcTypeOK',
         \A x \in Workers : \A f \in {"phase", "release", "sync", "alone", "beaten"} :
           proc'[x][f] = proc[x][f],
         PassInv'
  PROVE  FleetInv'
<1>1. \A x \in Workers :
        /\ proc'[x].phase = proc[x].phase /\ proc'[x].release = proc[x].release
        /\ proc'[x].sync = proc[x].sync /\ proc'[x].alone = proc[x].alone
        /\ proc'[x].beaten = proc[x].beaten
  OBVIOUS
<1>2. StoreTypeOK'
  BY DEF FleetInv, TypeOK, StoreTypeOK, NoStamp
<1>3. PlaceInv' /\ AloneInv' /\ OrderInv'
  BY <1>1, SyncFrame
<1>4. StampInv'
  BY <1>1, StampFrame
<1> QED
  BY <1>2, <1>3, <1>4 DEF FleetInv, TypeOK

LEMMA DeployKeeps ==
  ASSUME FleetInv, Deploy PROVE FleetInv'
<1>1. PICK v \in Releases :
        /\ v >= (IF about = "start" THEN release + 1 ELSE Newest) /\ release' = v
        /\ row' = Merged(v) /\ pruning' = v
  BY DEF Deploy
<1>2. UNCHANGED <<paused, schedulers, stamp, due, proc, boundVars, off, beat>>
  BY DEF Deploy
<1>3. row \in [Queues -> Values]
  BY DEF FleetInv, TypeOK, StoreTypeOK
<1>4. row' \in [Queues -> Values]
  BY <1>1, <1>3, DefaultsTyped DEF Merged
<1>5. \A q \in Queues : row'[q] = IF row[q] # "absent" THEN row[q] ELSE Defaults(v)[q]
  BY <1>1 DEF Merged
<1>6. about = "switches" => v = Newest
  BY <1>1, Named
<1>7. ASSUME NEW q \in off
      PROVE  row'[q] = "off" \/ (row'[q] = "absent" /\ q \notin QueuesOf(Newest))
  <2>1. q \in Queues /\ v = Newest
    BY <1>6 DEF FleetInv, TypeOK, StoreTypeOK, PassInv
  <2>2. row[q] = "off" \/ (row[q] = "absent" /\ q \notin QueuesOf(Newest))
    BY DEF FleetInv, PassInv
  <2> QED
    BY <1>5, <2>1, <2>2, DefaultsTyped
<1>8. PassInv'
  BY <1>1, <1>2, <1>6, <1>7 DEF FleetInv, PassInv, Pass, boundVars, Newest, QueuesOf
<1> QED
  <2>1. /\ paused \in SUBSET Queues /\ off \in SUBSET Queues /\ edits \in Nat /\ ProcTypeOK
    BY DEF FleetInv, TypeOK, StoreTypeOK
  <2>2. ProcTypeOK'
    BY <1>2, <2>1 DEF ProcTypeOK
  <2> QED
    BY <1>1, <1>2, <1>4, <1>8, <2>1, <2>2, SettingKeeps DEF boundVars

LEMMA PruneKeeps ==
  ASSUME FleetInv, Prune PROVE FleetInv'
<1>1. /\ pruning # 0 /\ row' = Pruned(pruning) /\ pruning' = 0
      /\ UNCHANGED <<paused, schedulers, stamp, due, release, proc, boundVars, off, beat>>
  BY DEF Prune
<1>2. row \in [Queues -> Values] /\ pruning \in Releases
  BY <1>1 DEF FleetInv, TypeOK, StoreTypeOK
<1>3. \A q \in Queues : row'[q] = IF q \in QueuesOf(pruning) THEN row[q] ELSE "absent"
  BY <1>1 DEF Pruned
<1>4. row' \in [Queues -> Values]
  BY <1>1, <1>2 DEF Pruned, Values
<1>5. ASSUME NEW q \in off
      PROVE  row'[q] = "off" \/ (row'[q] = "absent" /\ q \notin QueuesOf(Newest))
  <2>1. q \in Queues /\ pruning = Newest
    BY <1>1 DEF FleetInv, TypeOK, StoreTypeOK, PassInv
  <2>2. row[q] = "off" \/ (row[q] = "absent" /\ q \notin QueuesOf(Newest))
    BY DEF FleetInv, PassInv
  <2> QED
    BY <1>3, <2>1, <2>2
<1>6. PassInv'
  BY <1>1, <1>5 DEF FleetInv, PassInv, Pass, boundVars, Newest, QueuesOf
<1> QED
  <2>1. /\ paused \in SUBSET Queues /\ off \in SUBSET Queues /\ edits \in Nat /\ ProcTypeOK
        /\ release \in Releases
    BY DEF FleetInv, TypeOK, StoreTypeOK
  <2>2. ProcTypeOK'
    BY <1>1, <2>1 DEF ProcTypeOK
  <2> QED
    BY <1>1, <1>4, <1>6, <2>1, <2>2, SettingKeeps DEF boundVars

LEMMA EditKeeps ==
  ASSUME FleetInv, Edit PROVE FleetInv'
<1>1. /\ about = "switches" /\ edits' = edits + 1
      /\ UNCHANGED <<schedulers, stamp, due, release, pruning, failures, about, beat>>
  BY DEF Edit
<1>2. /\ row \in [Queues -> Values] /\ paused \in SUBSET Queues /\ off \in SUBSET Queues
      /\ edits' \in Nat /\ release \in Releases /\ pruning \in Releases \cup {0}
      /\ proc \in [Workers -> Procs]
  BY <1>1 DEF FleetInv, TypeOK, StoreTypeOK, ProcTypeOK
<1>3. PICK q \in Edited :
        \/ /\ row[q] # "absent"
           /\ \E value \in {"on", "off", "not a boolean"} :
                /\ row' = [row EXCEPT ![q] = value]
                /\ off' = IF value = "off" THEN off \cup {q} ELSE off \ {q}
           /\ proc' = [w \in Workers |-> [proc[w] EXCEPT !.pass.off = @ \cap off']]
           /\ UNCHANGED paused
        \/ /\ paused' = IF q \in paused THEN paused \ {q} ELSE paused \cup {q}
           /\ UNCHANGED <<row, off, proc>>
  BY DEF Edit
<1>4. q \in Queues
  BY FleetAssumption
<1>5. CASE paused' = (IF q \in paused THEN paused \ {q} ELSE paused \cup {q})
           /\ UNCHANGED <<row, off, proc>>
  <2>1. paused' \in SUBSET Queues
    BY <1>2, <1>4, <1>5
  <2>2. PassInv'
    BY <1>1, <1>5, PassFrame
  <2>3. ProcTypeOK'
    BY <1>2, <1>5 DEF ProcTypeOK
  <2> QED
    BY <1>1, <1>2, <1>5, <2>1, <2>2, <2>3, SettingKeeps
<1>6. ASSUME NEW value \in {"on", "off", "not a boolean"},
             row' = [row EXCEPT ![q] = value],
             off' = IF value = "off" THEN off \cup {q} ELSE off \ {q},
             proc' = [w \in Workers |-> [proc[w] EXCEPT !.pass.off = @ \cap off']],
             UNCHANGED paused
      PROVE  FleetInv'
  <2>1. row' \in [Queues -> Values] /\ off' \in SUBSET Queues
    BY <1>2, <1>4, <1>6 DEF Values
  <2>2. \A x \in Queues \ {q} : row'[x] = row[x]
    BY <1>2, <1>6
  <2>3. row'[q] = value
    BY <1>2, <1>4, <1>6
  <2>4. ASSUME NEW x \in Workers
        PROVE  /\ proc'[x] \in Procs
               /\ proc'[x].phase = proc[x].phase /\ proc'[x].release = proc[x].release
               /\ proc'[x].sync = proc[x].sync /\ proc'[x].alone = proc[x].alone
               /\ proc'[x].beaten = proc[x].beaten
               /\ proc'[x].pass.off = proc[x].pass.off \cap off'
               /\ proc'[x].pass.step = proc[x].pass.step
               /\ proc'[x].pass.switches = proc[x].pass.switches
    <3>1. proc[x] \in Procs /\ proc[x].pass \in Passes
      BY <1>2 DEF Procs
    <3>2. proc'[x] = [proc[x] EXCEPT !.pass = [proc[x].pass EXCEPT !.off = proc[x].pass.off \cap off']]
      BY <1>6, <3>1 DEF Procs
    <3>3. proc[x].pass.off \cap off' \in SUBSET Queues
      BY <2>1
    <3>4. [proc[x].pass EXCEPT !.off = proc[x].pass.off \cap off'] \in Passes
      BY <3>1, <3>3 DEF Passes
    <3>5. /\ proc'[x] \in Procs
          /\ proc'[x].phase = proc[x].phase /\ proc'[x].release = proc[x].release
          /\ proc'[x].sync = proc[x].sync /\ proc'[x].alone = proc[x].alone
          /\ proc'[x].beaten = proc[x].beaten
          /\ proc'[x].pass = [proc[x].pass EXCEPT !.off = proc[x].pass.off \cap off']
      BY <3>1, <3>2, <3>4 DEF Procs
    <3> QED
      BY <3>1, <3>5 DEF Passes
  <2>5. ProcTypeOK'
    BY <1>6, <2>4 DEF ProcTypeOK
  <2>6. \A x \in off' : row'[x] = "off" \/ (row'[x] = "absent" /\ x \notin QueuesOf(Newest))
    <3> SUFFICES ASSUME NEW x \in off'
                 PROVE  row'[x] = "off" \/ (row'[x] = "absent" /\ x \notin QueuesOf(Newest))
      OBVIOUS
    <3>1. CASE x = q
      BY <1>6, <2>3, <3>1
    <3>2. CASE x # q
      <4>1. x \in off /\ x \in Queues
        BY <1>6, <2>1, <3>2
      <4> QED
        BY <2>2, <3>2, <4>1 DEF FleetInv, PassInv
    <3> QED
      BY <3>1, <3>2
  <2>7. PassInv'
    <3>1. ASSUME NEW x \in Workers
          PROVE  /\ proc'[x].pass.off \subseteq off'
                 /\ proc'[x].pass.step = "asking" =>
                      \A y \in proc'[x].pass.off : proc'[x].pass.switches[y] # "on"
      <4>1. proc[x].pass.step = "asking" =>
              \A y \in proc[x].pass.off : proc[x].pass.switches[y] # "on"
        BY DEF FleetInv, PassInv, Pass
      <4> QED
        BY <2>4, <4>1
    <3>2. about' = "switches" /\ pruning' \in {0, Newest}
      BY <1>1 DEF FleetInv, PassInv
    <3> QED
      BY <2>6, <3>1, <3>2 DEF PassInv, Pass, Newest, QueuesOf
  <2>8. paused' \in SUBSET Queues /\ release' \in Releases /\ pruning' \in Releases \cup {0}
    BY <1>1, <1>2, <1>6
  <2>9. \A x \in Workers : \A f \in {"phase", "release", "sync", "alone", "beaten"} :
          proc'[x][f] = proc[x][f]
    BY <2>4
  <2> QED
    BY <1>1, <1>2, <2>1, <2>5, <2>7, <2>8, <2>9, SettingKeeps
<1> QED
  BY <1>3, <1>5, <1>6

LEMMA MinuteKeeps ==
  ASSUME FleetInv, Minute PROVE FleetInv'
<1>1. /\ due' = due \cup {q \in Queues : schedulers[q] # <<>>}
      /\ stamp' = IF stamp >= TTL THEN NoStamp ELSE Older(stamp)
      /\ beat' = Older(beat)
      /\ UNCHANGED <<row, paused, schedulers, release, pruning, proc, boundVars, off>>
  BY DEF Minute
<1>2. stamp \in 0 .. NoStamp /\ beat \in 0 .. NoStamp
  BY DEF FleetInv, TypeOK, StoreTypeOK
<1>3. stamp' \in 0 .. NoStamp /\ beat' \in 0 .. NoStamp
  BY <1>1, <1>2, Named DEF Older
<1>4. due' \in SUBSET Queues
  BY <1>1 DEF FleetInv, TypeOK, StoreTypeOK
<1>5. StoreTypeOK' /\ ProcTypeOK'
  BY <1>1, <1>3, <1>4 DEF FleetInv, TypeOK, StoreTypeOK, ProcTypeOK, boundVars, NoStamp
<1>6. stamp' # NoStamp => stamp # NoStamp /\ stamp' = stamp + 1 /\ (beat <= stamp => beat' <= stamp')
  BY <1>1, <1>2, Named DEF Older
<1>7. StampInv'
  BY <1>1, <1>6 DEF FleetInv, StampInv, NoStamp
<1>8. PassInv'
  BY <1>1, PassFrame DEF boundVars
<1>9. PlaceInv' /\ AloneInv' /\ OrderInv'
  BY <1>1, SyncFrame DEF boundVars
<1> QED
  BY <1>5, <1>7, <1>8, <1>9 DEF FleetInv, TypeOK

\* A list that is not between two pages of the queue does not see a firing.
LEMMA FiringUnseen ==
  ASSUME FleetInv, NEW x \in Workers, AloneOf(x), NEW q \in Queues,
         NEW order \in Rescheduled(schedulers[q]),
         schedulers' = [schedulers EXCEPT ![q] = order],
         order = schedulers[q] \/ ~BetweenPages(x, q), UNCHANGED about,
         proc'[x].phase = proc[x].phase, proc'[x].release = proc[x].release,
         proc'[x].sync = proc[x].sync
  PROVE  AloneOf(x)'
<1>1. Sync(x)' = Sync(x) /\ SyncQueue(x)' = SyncQueue(x) /\ \A y : Declared(x, y)' = Declared(x, y)
  BY DEF Sync, SyncQueue, Declared
<1>2. schedulers \in [Queues -> Seq(Int)] /\ IsInjective(schedulers[q])
  BY DEF FleetInv, TypeOK, StoreTypeOK, OrderInv
<1>3. order \in Seq(Int) /\ ToSet(order) = ToSet(schedulers[q])
  BY <1>2, RescheduledHolds
<1>4. /\ schedulers'[q] = order /\ \A y \in Queues \ {q} : schedulers'[y] = schedulers[y]
      /\ \A y \in Queues : ToSet(schedulers'[y]) = ToSet(schedulers[y])
  BY <1>2, <1>3
<1>5. /\ QueuesOf(proc[x].release) \subseteq Queues /\ Sync(x).ids \in Seq(Int)
      /\ \A i \in DOMAIN Registry[proc[x].release] :
           Registry[proc[x].release][i] \in QueuesOf(proc[x].release)
      /\ DOMAIN Registry[proc[x].release] = 1 .. Len(Registry[proc[x].release])
      /\ Len(Registry[proc[x].release]) \in Nat /\ Sync(x).at \in Nat
  BY SyncTyped
<1>6. PlaceOf(x)
  BY DEF FleetInv, PlaceInv
<1>7. Sync(x).step \in {"listing", "removing"} => SyncQueue(x) \in Queues
  BY <1>5, <1>6 DEF PlaceOf, SyncQueue
<1>8. \A y \in Queues : Done(x, y) => Done(x, y)'
  BY <1>1, <1>4 DEF Done
<1>9. (proc[x].phase = "syncing" =>
        /\ \A y \in QueuesOf(proc[x].release) : Sync(x).upserted[y] \subseteq ToSet(schedulers[y])
        /\ \A i \in 1 .. Sync(x).at - 1 : Done(x, Registry[proc[x].release][i]))'
  <2> SUFFICES ASSUME proc[x].phase = "syncing"
               PROVE  /\ \A y \in QueuesOf(proc[x].release) :
                           Sync(x).upserted[y] \subseteq ToSet(schedulers'[y])
                      /\ \A i \in 1 .. Sync(x).at - 1 : Done(x, Registry[proc[x].release][i])'
    BY <1>1
  <2>1. ASSUME NEW i \in 1 .. Sync(x).at - 1 PROVE Registry[proc[x].release][i] \in Queues
    <3>1. CASE Sync(x).step \in {"listing", "removing"}
      <4>1. i \in DOMAIN Registry[proc[x].release]
        BY <1>5, <1>6, <3>1 DEF PlaceOf
      <4> QED
        BY <1>5, <4>1
    <3>2. CASE Sync(x).step \notin {"listing", "removing"}
      <4>1. Sync(x).step = "declaring" /\ Sync(x).at = 1
        BY <1>6, <3>2, SyncTyped DEF PlaceOf, Syncs
      <4> QED
        BY <4>1
    <3> QED
      BY <3>1, <3>2
  <2> QED
    BY <1>1, <1>4, <1>5, <1>8, <2>1 DEF AloneOf
<1>10. (Sync(x).step = "listing" =>
        /\ Len(Sync(x).ids) <= Len(schedulers[SyncQueue(x)])
        /\ \A i \in 1 .. Len(Sync(x).ids) : Sync(x).ids[i] = schedulers[SyncQueue(x)][i])'
  <2> SUFFICES ASSUME Sync(x).step = "listing"
               PROVE  /\ Len(Sync(x).ids) <= Len(schedulers'[SyncQueue(x)])
                      /\ \A i \in 1 .. Len(Sync(x).ids) :
                           Sync(x).ids[i] = schedulers'[SyncQueue(x)][i]
    BY <1>1
  <2>1. CASE schedulers'[SyncQueue(x)] = schedulers[SyncQueue(x)]
    BY <2>1 DEF AloneOf
  <2>2. CASE schedulers'[SyncQueue(x)] # schedulers[SyncQueue(x)]
    <3>1. SyncQueue(x) = q /\ order # schedulers[q]
      BY <1>2, <1>4, <1>7, <2>2
    <3>2. Sync(x).ids = <<>>
      BY <3>1 DEF BetweenPages
    <3>3. Len(schedulers'[SyncQueue(x)]) \in Nat
      BY <1>3, <1>4, <3>1
    <3> QED
      BY <3>2, <3>3
  <2> QED
    BY <2>1, <2>2
<1>11. (Sync(x).step = "removing" =>
        ToSet(schedulers[SyncQueue(x)])
          \subseteq Declared(x, SyncQueue(x)) \cup ToSet(Sync(x).ids))'
  BY <1>1, <1>4, <1>7 DEF AloneOf
<1>12. (proc[x].phase = "up" /\ about = "start" =>
        \A y \in QueuesOf(proc[x].release) : Done(x, y))'
  BY <1>5, <1>8 DEF AloneOf
<1> QED
  BY <1>9, <1>10, <1>11, <1>12 DEF AloneOf

LEMMA TakesKeeps ==
  ASSUME FleetInv, NEW w \in Workers, NEW q \in Queues, Takes(w, q) PROVE FleetInv'
<1>1. PICK order \in Rescheduled(schedulers[q]) :
        /\ schedulers' = [schedulers EXCEPT ![q] = order]
        /\ proc' = [x \in Workers |-> [proc[x] EXCEPT
             !.alone = @ /\ (BetweenPages(x, q) => order = schedulers[q]),
             !.beaten = @ \/ (q = Heartbeat /\ proc[x].phase \in {"syncing", "up"})]]
  BY DEF Takes
<1>2. /\ due' = due \ {q}
      /\ IF q = Heartbeat THEN stamp' = 0 /\ beat' = 0 ELSE UNCHANGED <<stamp, beat>>
      /\ UNCHANGED <<row, paused, release, pruning, boundVars, off>>
  BY DEF Takes
<1>3. ASSUME NEW x \in Workers
      PROVE  /\ proc'[x] \in Procs
             /\ proc'[x].phase = proc[x].phase /\ proc'[x].release = proc[x].release
             /\ proc'[x].sync = proc[x].sync /\ proc'[x].pass = proc[x].pass
             /\ proc'[x].alone =>
                  proc[x].alone /\ (order = schedulers[q] \/ ~BetweenPages(x, q))
             /\ proc[x].beaten => proc'[x].beaten
             /\ q = Heartbeat /\ proc[x].phase \in {"syncing", "up"} => proc'[x].beaten
  <2> DEFINE c == (proc[x].alone /\ (BetweenPages(x, q) => order = schedulers[q]))
             b == (proc[x].beaten \/ (q = Heartbeat /\ proc[x].phase \in {"syncing", "up"}))
  <2>1. proc[x] \in Procs /\ b \in BOOLEAN /\ c \in BOOLEAN
    BY DEF FleetInv, TypeOK, ProcTypeOK
  <2>3. proc'[x] = [proc[x] EXCEPT !.alone = c, !.beaten = b]
    BY <1>1
  <2>4. /\ c => proc[x].alone /\ (order = schedulers[q] \/ ~BetweenPages(x, q))
        /\ proc[x].beaten => b = TRUE
        /\ q = Heartbeat /\ proc[x].phase \in {"syncing", "up"} => b = TRUE
    OBVIOUS
  <2> HIDE DEF b, c
  <2> QED
    BY <2>1, <2>3, <2>4 DEF Procs
<1>4. ProcTypeOK'
  BY <1>1, <1>3 DEF ProcTypeOK
<1>5. schedulers \in [Queues -> Seq(Int)] /\ \A y \in Queues : IsInjective(schedulers[y])
  BY DEF FleetInv, TypeOK, StoreTypeOK, OrderInv
<1>6. order \in Seq(Int) /\ IsInjective(order)
  BY <1>5, RescheduledHolds
<1>7. schedulers' \in [Queues -> Seq(Int)] /\ OrderInv'
  BY <1>1, <1>5, <1>6 DEF OrderInv
<1>8. 0 \in 0 .. NoStamp /\ due' \in SUBSET Queues
  BY <1>2, Named DEF FleetInv, TypeOK, StoreTypeOK
<1>9. StoreTypeOK'
  BY <1>2, <1>7, <1>8 DEF FleetInv, TypeOK, StoreTypeOK, boundVars, NoStamp
<1>10. StampInv'
  BY <1>2, <1>3 DEF FleetInv, StampInv, NoStamp
<1>11. PassInv'
  BY <1>2, <1>3, PassFrame DEF boundVars
<1>12. PlaceInv'
  BY <1>3, SameSync DEF FleetInv, PlaceInv
<1>13. AloneInv'
  <2> SUFFICES ASSUME NEW x \in Workers, proc'[x].alone PROVE AloneOf(x)'
    BY DEF AloneInv
  <2>1. AloneOf(x) /\ (order = schedulers[q] \/ ~BetweenPages(x, q))
    BY <1>3 DEF FleetInv, AloneInv
  <2> QED
    BY <1>1, <1>2, <1>3, <2>1, FiringUnseen DEF boundVars
<1> QED
  BY <1>4, <1>7, <1>9, <1>10, <1>11, <1>12, <1>13 DEF FleetInv, TypeOK

-----------------------------------------------------------------------------
(* The schedules *)

\* What a page holds, and that the last one ends the list.
LEMMA PageHolds ==
  ASSUME FleetInv, NEW q \in Queues, NEW from \in Nat
  PROVE  LET n == Len(schedulers[q])
             page == Page(q, from)
         IN  /\ page \in Seq(Int) /\ n \in Nat
             /\ from <= n => /\ \A i \in 1 .. Len(page) : page[i] = schedulers[q][from + i]
                             /\ LastPage(page) => from + Len(page) = n
                             /\ ~LastPage(page) => from + Len(page) <= n
<1> DEFINE S == schedulers[q]
           n == Len(S)
           end == IF from + PageSize < n THEN from + PageSize ELSE n
<1>1. S \in Seq(Int) /\ n \in Nat
  BY DEF FleetInv, TypeOK, StoreTypeOK
<1>2. PageSize \in Nat /\ PageSize > 0
  BY FleetAssumption
<1>3. Page(q, from) = SubSeq(S, from + 1, end)
  BY DEF Page
<1> HIDE DEF S
<1>4. end \in Nat /\ end <= n /\ (from <= n => from <= end)
      /\ (from <= n => end - from <= PageSize)
      /\ (from <= n /\ end - from < PageSize => end = n)
  BY <1>1, <1>2
<1>5. /\ Page(q, from) \in Seq(Int)
      /\ from <= end => /\ Len(Page(q, from)) = end - from
                        /\ \A i \in 1 .. end - from : Page(q, from)[i] = S[from + i]
  <2>1. /\ SubSeq(S, from + 1, end) \in Seq(Int)
        /\ from <= end => /\ Len(SubSeq(S, from + 1, end)) = end - from
                          /\ \A i \in 1 .. end - from : SubSeq(S, from + 1, end)[i] = S[from + i]
    <3> HIDE DEF end
    <3> QED
      BY <1>1, <1>4, Part
  <2> QED
    BY <1>3, <2>1
<1> HIDE DEF end
<1>6. from <= n => /\ LastPage(Page(q, from)) => from + Len(Page(q, from)) = n
                   /\ ~LastPage(Page(q, from)) => from + Len(Page(q, from)) <= n
  BY <1>1, <1>2, <1>4, <1>5 DEF LastPage
<1> QED
  BY <1>1, <1>4, <1>5, <1>6 DEF S

\* What a step of a sync leaves alone.
LEMMA SyncQuiet ==
  ASSUME FleetInv, ProcTypeOK', schedulers' \in [Queues -> Seq(Int)],
         UNCHANGED <<row, paused, stamp, due, release, pruning, boundVars, off, beat>>,
         \A x \in Workers :
           /\ proc'[x].phase = proc[x].phase \/ proc[x].phase = "syncing"
           /\ proc'[x].pass = proc[x].pass /\ proc'[x].beaten = proc[x].beaten
  PROVE  TypeOK' /\ StampInv' /\ PassInv'
<1>1. StoreTypeOK'
  BY DEF FleetInv, TypeOK, StoreTypeOK, boundVars, NoStamp
<1>2. StampInv'
  BY StampFrame
<1>3. PassInv'
  BY PassFrame DEF boundVars
<1> QED
  BY <1>1, <1>2, <1>3 DEF TypeOK

LEMMA UpsertKeeps ==
  ASSUME FleetInv, NEW w \in Workers, Upsert(w) PROVE FleetInv'
<1>0. PICK q \in ToDeclare(w) : \E id \in Declared(w, q) \ Sync(w).upserted[q] :
        /\ \E order \in Upserted(schedulers[q], id) :
             schedulers' = [schedulers EXCEPT ![q] = order]
        /\ SyncWrites(w, [Sync(w) EXCEPT !.upserted[q] = @ \cup {id}])
  BY DEF Upsert
<1>1a. PICK id \in Declared(w, q) \ Sync(w).upserted[q] :
        /\ \E order \in Upserted(schedulers[q], id) :
             schedulers' = [schedulers EXCEPT ![q] = order]
        /\ SyncWrites(w, [Sync(w) EXCEPT !.upserted[q] = @ \cup {id}])
  BY <1>0
<1>1. PICK order \in Upserted(schedulers[q], id) :
        schedulers' = [schedulers EXCEPT ![q] = order]
  BY <1>1a
<1>2. /\ proc[w].phase = "syncing" /\ Sync(w).step = "declaring"
      /\ UNCHANGED <<row, paused, stamp, due, release, pruning, boundVars, off, beat>>
  BY DEF Upsert
<1>3. q \in QueuesOf(proc[w].release) /\ q \in Queues /\ id \in Int
      /\ schedulers \in [Queues -> Seq(Int)]
  BY SyncTyped DEF ToDeclare, FleetInv, TypeOK, StoreTypeOK
<1> DEFINE sync == [Sync(w) EXCEPT !.upserted[q] = @ \cup {id}]
<1>4. /\ sync \in Syncs /\ sync.step = "declaring" /\ sync.ids = <<>> /\ sync.at = 1
      /\ sync.upserted[q] = Sync(w).upserted[q] \cup {id}
      /\ \A x \in Queues \ {q} : sync.upserted[x] = Sync(w).upserted[x]
  <2>1. Sync(w) \in Syncs /\ Sync(w).upserted \in [Queues -> SUBSET Int]
    BY SyncTyped DEF Syncs
  <2>2. Sync(w).ids = <<>> /\ Sync(w).at = 1
    BY <1>2 DEF FleetInv, PlaceInv, PlaceOf
  <2> QED
    BY <1>2, <1>3, <2>1, <2>2 DEF Syncs
<1>5. SyncWrites(w, sync)
  BY <1>1a
<1> HIDE DEF sync
<1>6. /\ ProcTypeOK' /\ proc'[w].sync = sync
      /\ \A x \in Workers \ {w} : proc'[x].sync = proc[x].sync /\ ~proc'[x].alone
      /\ proc'[w].alone = proc[w].alone
      /\ \A x \in Workers :
           /\ proc'[x].phase = proc[x].phase /\ proc'[x].release = proc[x].release
           /\ proc'[x].pass = proc[x].pass /\ proc'[x].beaten = proc[x].beaten
  BY <1>4, <1>5, WrittenSync DEF FleetInv, TypeOK
<1>7. /\ schedulers' \in [Queues -> Seq(Int)] /\ IsInjective(schedulers'[q])
      /\ ToSet(schedulers'[q]) = ToSet(schedulers[q]) \cup {id}
      /\ \A x \in Queues \ {q} : schedulers'[x] = schedulers[x]
  <2>1. /\ order \in Seq(Int) /\ IsInjective(order)
        /\ ToSet(order) = ToSet(schedulers[q]) \cup {id}
    BY <1>3, UpsertedHolds DEF FleetInv, OrderInv
  <2> QED
    BY <1>1, <1>3, <2>1
<1>8. TypeOK' /\ StampInv' /\ PassInv'
  BY <1>2, <1>6, <1>7, SyncQuiet
<1>9. PlaceInv'
  <2>1. \A x \in Workers \ {w} : PlaceOf(x)'
    BY <1>6, SameSync DEF FleetInv, PlaceInv
  <2>2. \A x \in QueuesOf(proc[w].release) : sync.upserted[x] \subseteq Declared(w, x)
    BY <1>3, <1>4, SyncTyped DEF FleetInv, PlaceInv, PlaceOf
  <2>3. PlaceOf(w)'
    BY <1>2, <1>4, <1>6, <2>2 DEF PlaceOf, Sync, Declared
  <2> QED
    BY <2>1, <2>3 DEF PlaceInv
<1>10. AloneInv'
  <2>1. proc[w].alone => \A x \in QueuesOf(proc[w].release) : sync.upserted[x] \subseteq ToSet(schedulers'[x])
    BY <1>2, <1>3, <1>4, <1>7, SyncTyped DEF FleetInv, AloneInv, AloneOf
  <2>2. proc'[w].alone => AloneOf(w)'
    BY <1>2, <1>4, <1>6, <2>1 DEF AloneOf, Sync
  <2> QED
    BY <1>6, <2>2 DEF AloneInv
<1>11. OrderInv'
  BY <1>7 DEF FleetInv, OrderInv
<1> QED
  BY <1>8, <1>9, <1>10, <1>11 DEF FleetInv

LEMMA ListPageKeeps ==
  ASSUME FleetInv, NEW w \in Workers, ListPage(w) PROVE FleetInv'
<1> DEFINE q == SyncQueue(w)
           ids == Sync(w).ids
           page == Page(q, Len(ids))
           sync == [Sync(w) EXCEPT !.ids = ids \o page,
                                   !.step = IF LastPage(page) THEN "removing" ELSE "listing"]
           S == schedulers[q]
           n == Len(S)
<1>1. /\ proc[w].phase = "syncing" /\ ToDeclare(w) = {}
      /\ Sync(w).step \in {"declaring", "listing"}
      /\ Sync(w).at \in DOMAIN Registry[proc[w].release]
      /\ SyncGoesOn(w, sync)
      /\ UNCHANGED <<storeVars, boundVars, off, beat>>
  BY DEF ListPage, Listing
<1>2. /\ q \in Queues /\ ids \in Seq(Int) /\ Len(ids) \in Nat /\ Sync(w) \in Syncs
      /\ S \in Seq(Int)
  BY <1>1, SyncTyped DEF SyncQueue, FleetInv, TypeOK, StoreTypeOK
<1>3. /\ page \in Seq(Int) /\ n \in Nat
      /\ Len(ids) <= n => /\ \A i \in 1 .. Len(page) : page[i] = S[Len(ids) + i]
                          /\ LastPage(page) => Len(ids) + Len(page) = n
                          /\ ~LastPage(page) => Len(ids) + Len(page) <= n
  BY <1>2, PageHolds
<1> HIDE DEF page
<1>4. /\ ids \o page \in Seq(Int) /\ Len(ids \o page) = Len(ids) + Len(page)
      /\ \A i \in 1 .. Len(ids) : (ids \o page)[i] = ids[i]
      /\ \A i \in 1 .. Len(page) : (ids \o page)[Len(ids) + i] = page[i]
      /\ Len(page) \in Nat
  BY <1>2, <1>3, ListedOn
<1> HIDE DEF ids
<1>5. /\ sync \in Syncs /\ sync.ids = ids \o page /\ sync.at = Sync(w).at
      /\ sync.upserted = Sync(w).upserted
      /\ sync.step = IF LastPage(page) THEN "removing" ELSE "listing"
  BY <1>2, <1>4 DEF Syncs
<1> HIDE DEF sync
<1>6. /\ ProcTypeOK' /\ proc'[w].sync = sync
      /\ \A x \in Workers \ {w} : proc'[x] = proc[x]
      /\ \A x \in Workers :
           /\ proc'[x].phase = proc[x].phase /\ proc'[x].release = proc[x].release
           /\ proc'[x].pass = proc[x].pass /\ proc'[x].alone = proc[x].alone
           /\ proc'[x].beaten = proc[x].beaten
  BY <1>1, <1>5, NewSync DEF FleetInv, TypeOK
<1>7. UNCHANGED <<schedulers, about>> /\ schedulers' \in [Queues -> Seq(Int)]
      /\ UNCHANGED <<row, paused, stamp, due, release, pruning, boundVars, off, beat>>
  BY <1>1 DEF storeVars, boundVars, FleetInv, TypeOK, StoreTypeOK
<1>8. TypeOK' /\ StampInv' /\ PassInv'
  BY <1>6, <1>7, SyncQuiet
<1>9. SyncQueue(w)' = q /\ Sync(w)' = sync /\ ToDeclare(w)' = ToDeclare(w)
      /\ \A x : Declared(w, x)' = Declared(w, x)
  BY <1>5, <1>6 DEF SyncQueue, Sync, ToDeclare, Declared
<1>10. PlaceInv'
  <2>1. \A x \in Workers \ {w} : PlaceOf(x)'
    BY <1>6, SameSync DEF FleetInv, PlaceInv
  <2>2. PlaceOf(w)'
    BY <1>1, <1>5, <1>6, <1>9 DEF FleetInv, PlaceInv, PlaceOf
  <2> QED
    BY <2>1, <2>2 DEF PlaceInv
<1>11. ASSUME proc[w].alone PROVE AloneOf(w)'
  <2>1. AloneOf(w)
    BY <1>11 DEF FleetInv, AloneInv
  <2>2. Len(ids) <= n /\ \A i \in 1 .. Len(ids) : ids[i] = S[i]
    <3>1. CASE Sync(w).step = "declaring"
      <4>1. ids = <<>>
        BY <3>1 DEF ids, FleetInv, PlaceInv, PlaceOf
      <4> QED
        BY <1>3, <4>1
    <3>2. CASE Sync(w).step = "listing"
      BY <2>1, <3>2 DEF AloneOf, ids
    <3> QED
      BY <1>1, <3>1, <3>2
  <2>3. \A i \in 1 .. Len(ids \o page) : (ids \o page)[i] = S[i]
    <3> SUFFICES ASSUME NEW i \in 1 .. Len(ids \o page)
                 PROVE  (ids \o page)[i] = S[i]
      OBVIOUS
    <3>1. CASE i \in 1 .. Len(ids)
      BY <1>4, <2>2, <3>1
    <3>2. CASE i \notin 1 .. Len(ids)
      <4>1. i - Len(ids) \in 1 .. Len(page) /\ Len(ids) + (i - Len(ids)) = i
        BY <1>2, <1>4, <3>2
      <4> QED
        BY <1>3, <1>4, <2>2, <4>1
    <3> QED
      BY <3>1, <3>2
  <2>4. LastPage(page) => ToSet(S) \subseteq ToSet(ids \o page)
    <3> SUFFICES ASSUME LastPage(page), NEW y \in ToSet(S) PROVE y \in ToSet(ids \o page)
      OBVIOUS
    <3>1. Len(ids \o page) = n
      BY <1>3, <1>4, <2>2
    <3>2. PICK i \in 1 .. n : S[i] = y
      BY <1>2 DEF ToSet
    <3>3. i \in 1 .. Len(ids \o page) /\ (ids \o page)[i] = y
      BY <2>3, <3>1, <3>2
    <3>4. i \in DOMAIN (ids \o page)
      BY <1>4, <3>3
    <3> QED
      BY <3>3, <3>4 DEF ToSet
  <2>5. ~LastPage(page) => Len(ids \o page) <= n
    BY <1>3, <1>4, <2>2
  <2> HIDE DEF q
  <2>6. \A i \in 1 .. Sync(w).at - 1 : Done(w, Registry[proc[w].release][i])
    BY <1>1, <2>1 DEF AloneOf
  <2>7. \A x \in QueuesOf(proc[w].release) : Sync(w).upserted[x] \subseteq ToSet(schedulers[x])
    BY <1>1, <2>1 DEF AloneOf
  <2>8. (proc[w].phase = "syncing" =>
          /\ \A x \in QueuesOf(proc[w].release) : Sync(w).upserted[x] \subseteq ToSet(schedulers[x])
          /\ \A i \in 1 .. Sync(w).at - 1 : Done(w, Registry[proc[w].release][i]))'
    BY <1>5, <1>6, <1>7, <1>9, <2>6, <2>7 DEF Done
  <2>9. proc'[w].phase = "syncing"
    BY <1>1, <1>6
  <2> QED
    BY <1>5, <1>7, <1>9, <2>3, <2>4, <2>5, <2>8, <2>9 DEF AloneOf
<1>12. AloneInv'
  <2>1. \A x \in Workers \ {w} : proc'[x].alone => AloneOf(x)'
    BY <1>6, <1>7, SameSync DEF FleetInv, AloneInv
  <2> QED
    BY <1>6, <1>11, <2>1 DEF AloneInv
<1>13. OrderInv'
  BY <1>7 DEF FleetInv, OrderInv
<1> QED
  BY <1>8, <1>10, <1>12, <1>13 DEF FleetInv

LEMMA RemoveStrayKeeps ==
  ASSUME FleetInv, NEW w \in Workers, RemoveStray(w) PROVE FleetInv'
<1> DEFINE q == SyncQueue(w)
           ids == Sync(w).ids
<1>1. PICK i \in Undeclared(w) :
        /\ \A j \in Undeclared(w) : i <= j
        /\ schedulers' = [schedulers EXCEPT ![SyncQueue(w)] = Without(@, Sync(w).ids[i])]
        /\ SyncWrites(w, [Sync(w) EXCEPT !.ids = SubSeq(@, i + 1, Len(@))])
  BY DEF RemoveStray
<1>2. /\ Sync(w).step = "removing"
      /\ UNCHANGED <<row, paused, stamp, due, release, pruning, boundVars, off, beat>>
  BY DEF RemoveStray
<1>3. /\ proc[w].phase = "syncing" /\ ToDeclare(w) = {}
      /\ Sync(w).at \in DOMAIN Registry[proc[w].release]
  BY <1>2 DEF FleetInv, PlaceInv, PlaceOf
<1>4. /\ q \in Queues /\ ids \in Seq(Int) /\ Len(ids) \in Nat /\ Sync(w) \in Syncs
      /\ q \in QueuesOf(proc[w].release)
      /\ schedulers \in [Queues -> Seq(Int)]
  BY <1>3, SyncTyped DEF SyncQueue, FleetInv, TypeOK, StoreTypeOK
<1>5. i \in 1 .. Len(ids) /\ i \in Nat /\ ids[i] \notin Declared(w, q)
  BY <1>1, <1>4 DEF Undeclared
<1> DEFINE rest == SubSeq(ids, i + 1, Len(ids))
           sync == [Sync(w) EXCEPT !.ids = rest]
<1>6. /\ rest \in Seq(Int) /\ Len(rest) = Len(ids) - i
      /\ \A k \in 1 .. Len(ids) - i : rest[k] = ids[i + k]
  <2>1. Len(ids) \in Nat /\ Len(ids) <= Len(ids) /\ i <= Len(ids)
    BY <1>4, <1>5
  <2> QED
    BY <1>4, <1>5, <2>1, Part
<1>7. SyncWrites(w, sync)
  BY <1>1
<1> HIDE DEF rest
<1>8. /\ sync \in Syncs /\ sync.ids = rest /\ sync.at = Sync(w).at
      /\ sync.upserted = Sync(w).upserted /\ sync.step = "removing"
  BY <1>2, <1>4, <1>6 DEF Syncs
<1> HIDE DEF sync
<1>9. /\ ProcTypeOK' /\ proc'[w].sync = sync
      /\ \A x \in Workers \ {w} : proc'[x].sync = proc[x].sync /\ ~proc'[x].alone
      /\ proc'[w].alone = proc[w].alone
      /\ \A x \in Workers :
           /\ proc'[x].phase = proc[x].phase /\ proc'[x].release = proc[x].release
           /\ proc'[x].pass = proc[x].pass /\ proc'[x].beaten = proc[x].beaten
  BY <1>7, <1>8, WrittenSync DEF FleetInv, TypeOK
<1>10. /\ schedulers' \in [Queues -> Seq(Int)] /\ IsInjective(schedulers'[q])
       /\ ToSet(schedulers'[q]) = ToSet(schedulers[q]) \ {ids[i]}
       /\ \A x \in Queues \ {q} : schedulers'[x] = schedulers[x]
  <2> DEFINE order == Without(schedulers[q], ids[i])
  <2>1. /\ order \in Seq(Int) /\ IsInjective(order)
        /\ ToSet(order) = ToSet(schedulers[q]) \ {ids[i]}
    BY <1>4, WithoutHolds DEF FleetInv, OrderInv
  <2>2. schedulers' = [schedulers EXCEPT ![q] = order]
    BY <1>1
  <2> HIDE DEF order
  <2> QED
    BY <1>4, <2>1, <2>2
<1>11. TypeOK' /\ StampInv' /\ PassInv'
  BY <1>2, <1>9, <1>10, SyncQuiet
<1>12. SyncQueue(w)' = q /\ Sync(w)' = sync /\ ToDeclare(w)' = ToDeclare(w)
       /\ \A x : Declared(w, x)' = Declared(w, x)
  BY <1>8, <1>9 DEF SyncQueue, Sync, ToDeclare, Declared
<1>13. PlaceInv'
  <2>1. \A x \in Workers \ {w} : PlaceOf(x)'
    BY <1>9, SameSync DEF FleetInv, PlaceInv
  <2>2. PlaceOf(w)'
    BY <1>3, <1>8, <1>9, <1>12 DEF FleetInv, PlaceInv, PlaceOf
  <2> QED
    BY <2>1, <2>2 DEF PlaceInv
<1>14. ASSUME proc[w].alone PROVE AloneOf(w)'
  <2>1. AloneOf(w)
    BY <1>14 DEF FleetInv, AloneInv
  <2>2. \A x \in QueuesOf(proc[w].release) : Sync(w).upserted[x] \subseteq Declared(w, x)
    BY DEF FleetInv, PlaceInv, PlaceOf
  <2>3. \A x \in QueuesOf(proc[w].release) : Sync(w).upserted[x] \subseteq ToSet(schedulers'[x])
    <3> SUFFICES ASSUME NEW x \in QueuesOf(proc[w].release)
                 PROVE  Sync(w).upserted[x] \subseteq ToSet(schedulers'[x])
      OBVIOUS
    <3>1. Sync(w).upserted[x] \subseteq ToSet(schedulers[x]) /\ x \in Queues
      BY <1>3, <2>1, SyncTyped DEF AloneOf
    <3> QED
      BY <1>5, <1>10, <2>2, <3>1
  <2>4. ASSUME NEW j \in 1 .. Sync(w).at - 1 PROVE Done(w, Registry[proc[w].release][j])'
    <3> DEFINE x == Registry[proc[w].release][j]
    <3>1. Done(w, x)
      BY <1>3, <2>1 DEF AloneOf
    <3>2. x \in Queues
      <4>1. j \in DOMAIN Registry[proc[w].release]
        BY <1>3, SyncTyped
      <4> QED
        BY <4>1, SyncTyped
    <3> HIDE DEF x, q
    <3>3. ToSet(schedulers'[x]) = Declared(w, x)
      BY <1>5, <1>10, <3>1, <3>2 DEF Done
    <3>4. Registry[proc[w].release]' = Registry[proc[w].release]
      BY <1>9
    <3> QED
      BY <1>12, <3>3, <3>4 DEF Done, x
  <2>5. ToSet(schedulers'[q]) \subseteq Declared(w, q) \cup ToSet(rest)
    <3> SUFFICES ASSUME NEW y \in ToSet(schedulers'[q]), y \notin Declared(w, q)
                 PROVE  y \in ToSet(rest)
      OBVIOUS
    <3>1. y \in ToSet(ids) /\ y # ids[i]
      BY <1>2, <1>10, <2>1 DEF AloneOf
    <3>2. PICK k \in DOMAIN ids : ids[k] = y
      BY <3>1 DEF ToSet
    <3>3. k \in Undeclared(w)
      BY <3>2 DEF Undeclared
    <3>4. k \in 1 .. Len(ids) /\ i <= k /\ k # i
      BY <1>1, <1>4, <3>1, <3>2, <3>3
    <3> HIDE DEF ids, q
    <3>5. k - i \in 1 .. Len(ids) - i /\ i + (k - i) = k
      BY <1>4, <1>5, <3>4
    <3>6. rest[k - i] = y /\ k - i \in DOMAIN rest
      BY <1>6, <3>2, <3>5
    <3> QED
      BY <3>6 DEF ToSet
  <2>6. Registry[proc[w].release]' = Registry[proc[w].release] /\ proc'[w].phase = "syncing"
        /\ proc'[w].release = proc[w].release
    BY <1>3, <1>9
  <2> HIDE DEF q, ids
  <2>7. (proc[w].phase = "syncing" =>
          /\ \A x \in QueuesOf(proc[w].release) : Sync(w).upserted[x] \subseteq ToSet(schedulers[x])
          /\ \A j \in 1 .. Sync(w).at - 1 : Done(w, Registry[proc[w].release][j]))'
    BY <1>8, <1>12, <2>3, <2>4, <2>6
  <2> QED
    BY <1>8, <1>12, <2>5, <2>6, <2>7 DEF AloneOf
<1>15. AloneInv'
  BY <1>9, <1>14 DEF AloneInv
<1>16. OrderInv'
  BY <1>10 DEF FleetInv, OrderInv
<1> QED
  BY <1>11, <1>13, <1>15, <1>16 DEF FleetInv

\* When nothing that was listed is undeclared, the queue is done.
LEMMA QueueDone ==
  ASSUME FleetInv, NEW w \in Workers, NextQueue(w), proc[w].alone
  PROVE  \A i \in 1 .. Sync(w).at : Done(w, Registry[proc[w].release][i])
<1>1. Sync(w).step = "removing" /\ Undeclared(w) = {}
  BY DEF NextQueue
<1>2. AloneOf(w) /\ PlaceOf(w)
  BY DEF FleetInv, AloneInv, PlaceInv
<1>3. /\ proc[w].phase = "syncing" /\ ToDeclare(w) = {}
      /\ Sync(w).at \in DOMAIN Registry[proc[w].release]
  BY <1>1, <1>2 DEF PlaceOf
<1>4. SyncQueue(w) \in QueuesOf(proc[w].release) /\ Sync(w).at \in Nat
  BY <1>3, SyncTyped DEF SyncQueue
<1>5. ToSet(schedulers[SyncQueue(w)]) \subseteq Declared(w, SyncQueue(w))
  <2>1. \A y \in ToSet(Sync(w).ids) : y \in Declared(w, SyncQueue(w))
    BY <1>1 DEF Undeclared, ToSet
  <2> QED
    BY <1>1, <1>2, <2>1 DEF AloneOf
<1>6. Declared(w, SyncQueue(w)) \subseteq ToSet(schedulers[SyncQueue(w)])
  <2>1. Declared(w, SyncQueue(w)) \ Sync(w).upserted[SyncQueue(w)] = {}
    BY <1>3, <1>4 DEF ToDeclare
  <2>2. Sync(w).upserted[SyncQueue(w)] \subseteq ToSet(schedulers[SyncQueue(w)])
    BY <1>2, <1>3, <1>4 DEF AloneOf
  <2> QED
    BY <2>1, <2>2
<1>7. Done(w, Registry[proc[w].release][Sync(w).at])
  BY <1>5, <1>6 DEF Done, SyncQueue
<1> SUFFICES ASSUME NEW i \in 1 .. Sync(w).at PROVE Done(w, Registry[proc[w].release][i])
  OBVIOUS
<1>8. i = Sync(w).at \/ i \in 1 .. Sync(w).at - 1
  BY <1>4
<1> QED
  BY <1>2, <1>3, <1>7, <1>8 DEF AloneOf

LEMMA NextQueueKeeps ==
  ASSUME FleetInv, NEW w \in Workers, NextQueue(w) PROVE FleetInv'
<1>1. /\ Sync(w).step = "removing" /\ UNCHANGED <<storeVars, boundVars, off, beat>>
  BY DEF NextQueue
<1>2. /\ proc[w].phase = "syncing" /\ ToDeclare(w) = {}
      /\ Sync(w).at \in DOMAIN Registry[proc[w].release]
      /\ \A x \in QueuesOf(proc[w].release) : Sync(w).upserted[x] \subseteq Declared(w, x)
  BY <1>1 DEF FleetInv, PlaceInv, PlaceOf
<1>3. UNCHANGED <<schedulers, about>> /\ schedulers' \in [Queues -> Seq(Int)]
      /\ UNCHANGED <<row, paused, stamp, due, release, pruning, boundVars, off, beat>>
  BY <1>1 DEF storeVars, boundVars, FleetInv, TypeOK, StoreTypeOK
<1>4. OrderInv'
  BY <1>3 DEF FleetInv, OrderInv
<1>5. Sync(w).at \in Nat /\ Sync(w).at >= 1 /\ Sync(w) \in Syncs
      /\ Sync(w).at <= Len(Registry[proc[w].release])
      /\ DOMAIN Registry[proc[w].release] = 1 .. Len(Registry[proc[w].release])
      /\ Len(Registry[proc[w].release]) \in Nat
  BY <1>2, SyncTyped
<1>6. CASE Sync(w).at < Len(Registry[proc[w].release])
  <2> DEFINE sync == [Sync(w) EXCEPT !.step = "listing", !.ids = <<>>, !.at = @ + 1]
  <2>1. /\ sync \in Syncs /\ sync.step = "listing" /\ sync.ids = <<>>
        /\ sync.at = Sync(w).at + 1 /\ sync.upserted = Sync(w).upserted
    <3> DEFINE none == <<>>
               next == Sync(w).at + 1
    <3>1. next \in Nat /\ none \in Seq(Int) /\ Sync(w) \in Syncs
      BY <1>5
    <3>2. sync = [Sync(w) EXCEPT !.step = "listing", !.ids = none, !.at = next]
      OBVIOUS
    <3> HIDE DEF sync, none, next
    <3>3. /\ sync \in Syncs /\ sync.step = "listing" /\ sync.ids = none
          /\ sync.at = next /\ sync.upserted = Sync(w).upserted
      BY <3>1, <3>2 DEF Syncs
    <3> QED
      BY <3>3 DEF none, next
  <2>2. SyncGoesOn(w, sync)
    BY <1>6 DEF NextQueue
  <2> HIDE DEF sync
  <2>3. /\ ProcTypeOK' /\ proc'[w].sync = sync
        /\ \A x \in Workers \ {w} : proc'[x] = proc[x]
        /\ \A x \in Workers :
             /\ proc'[x].phase = proc[x].phase /\ proc'[x].release = proc[x].release
             /\ proc'[x].pass = proc[x].pass /\ proc'[x].alone = proc[x].alone
             /\ proc'[x].beaten = proc[x].beaten
    BY <2>1, <2>2, NewSync DEF FleetInv, TypeOK
  <2>4. TypeOK' /\ StampInv' /\ PassInv'
    BY <1>3, <2>3, SyncQuiet
  <2>5. Sync(w)' = sync /\ ToDeclare(w)' = ToDeclare(w)
        /\ \A x : Declared(w, x)' = Declared(w, x)
        /\ SyncQueue(w)' = Registry[proc[w].release][sync.at]
    BY <2>1, <2>3 DEF SyncQueue, Sync, ToDeclare, Declared
  <2>6. sync.at \in DOMAIN Registry[proc[w].release] /\ sync.at - 1 = Sync(w).at
    BY <1>5, <1>6, <2>1
  <2>7. PlaceInv'
    <3>1. \A x \in Workers \ {w} : PlaceOf(x)'
      BY <2>3, SameSync DEF FleetInv, PlaceInv
    <3>2. PlaceOf(w)'
      BY <1>2, <2>1, <2>3, <2>5, <2>6 DEF PlaceOf
    <3> QED
      BY <3>1, <3>2 DEF PlaceInv
  <2>8. ASSUME proc[w].alone PROVE AloneOf(w)'
    <3>1. \A i \in 1 .. sync.at - 1 : Done(w, Registry[proc[w].release][i])
      BY <2>6, <2>8, QueueDone
    <3>2. \A x \in QueuesOf(proc[w].release) : Sync(w).upserted[x] \subseteq ToSet(schedulers[x])
      BY <1>2, <2>8 DEF FleetInv, AloneInv, AloneOf
    <3>3. SyncQueue(w)' \in Queues
      BY <2>5, <2>6, SyncTyped
    <3>4. Len(schedulers[SyncQueue(w)])' \in Nat
      BY <1>3, <3>3
    <3>5. Len(<<>>) = 0
      OBVIOUS
    <3>6. (proc[w].phase = "syncing" =>
            /\ \A x \in QueuesOf(proc[w].release) : Sync(w).upserted[x] \subseteq ToSet(schedulers[x])
            /\ \A i \in 1 .. Sync(w).at - 1 : Done(w, Registry[proc[w].release][i]))'
      BY <1>3, <2>1, <2>3, <2>5, <3>1, <3>2 DEF Done
    <3>7. proc'[w].phase = "syncing"
      BY <1>2, <2>3
    <3>8. (Sync(w).step = "listing" =>
            /\ Len(Sync(w).ids) <= Len(schedulers[SyncQueue(w)])
            /\ \A i \in 1 .. Len(Sync(w).ids) :
                 Sync(w).ids[i] = schedulers[SyncQueue(w)][i])'
      BY <2>1, <2>5, <3>4, <3>5
    <3> QED
      BY <2>1, <2>5, <3>6, <3>7, <3>8 DEF AloneOf
  <2>9. AloneInv'
    <3>1. \A x \in Workers \ {w} : proc'[x].alone => AloneOf(x)'
      BY <1>3, <2>3, SameSync DEF FleetInv, AloneInv
    <3> QED
      BY <2>3, <2>8, <3>1 DEF AloneInv
  <2> QED
    BY <1>4, <2>4, <2>7, <2>9 DEF FleetInv
<1>7. CASE ~(Sync(w).at < Len(Registry[proc[w].release]))
  <2> DEFINE p == [proc[w] EXCEPT !.phase = "up", !.sync = NoSync]
  <2>1. proc[w] \in Procs
    BY PassTyped
  <2>2. /\ p \in Procs /\ p.phase = "up" /\ p.sync = NoSync /\ p.release = proc[w].release
        /\ p.pass = proc[w].pass /\ p.alone = proc[w].alone /\ p.beaten = proc[w].beaten
    BY <2>1, Beginnings DEF Procs, Phases
  <2>3. proc' = [proc EXCEPT ![w] = p]
    BY <1>7 DEF NextQueue, FleetInv, TypeOK, ProcTypeOK
  <2> HIDE DEF p
  <2>4. /\ ProcTypeOK' /\ proc'[w] = p /\ \A x \in Workers \ {w} : proc'[x] = proc[x]
    BY <2>2, <2>3, OneProc DEF FleetInv, TypeOK
  <2>5. TypeOK' /\ StampInv' /\ PassInv'
    BY <1>2, <1>3, <2>2, <2>4, SyncQuiet
  <2>6. NoSync.step = "none" /\ \A q \in Queues : NoSync.upserted[q] = {}
    BY DEF NoSync
  <2>7. PlaceInv'
    <3>1. \A x \in Workers \ {w} : PlaceOf(x)'
      BY <2>4, SameSync DEF FleetInv, PlaceInv
    <3>2. PlaceOf(w)'
      BY <2>2, <2>4, <2>6, PassTyped DEF PlaceOf, Sync, Declared
    <3> QED
      BY <3>1, <3>2 DEF PlaceInv
  <2>8. ASSUME proc[w].alone PROVE AloneOf(w)'
    <3>1. \A i \in DOMAIN Registry[proc[w].release] : Done(w, Registry[proc[w].release][i])
      BY <1>5, <1>7, <2>8, QueueDone
    <3>2. \A q \in QueuesOf(proc[w].release) : Done(w, q)
      BY <3>1, SyncTyped
    <3> QED
      BY <1>3, <2>2, <2>4, <2>6, <3>2 DEF AloneOf, Sync, Done, Declared
  <2>9. AloneInv'
    <3>1. \A x \in Workers \ {w} : proc'[x].alone => AloneOf(x)'
      BY <1>3, <2>4, SameSync DEF FleetInv, AloneInv
    <3> QED
      BY <2>2, <2>4, <2>8, <3>1 DEF AloneInv
  <2> QED
    BY <1>4, <2>5, <2>7, <2>9 DEF FleetInv
<1> QED
  BY <1>6, <1>7

-----------------------------------------------------------------------------

LEMMA FleetInvInit == Init => FleetInv
<1> SUFFICES ASSUME Init PROVE FleetInv
  OBVIOUS
<1>1. /\ about \in {"switches", "start"} /\ paused = {} /\ due = {}
      /\ pruning = 0 /\ edits = 0 /\ failures = 0 /\ off = {} /\ beat = stamp
      /\ stamp \in {0, NoStamp} /\ release \in {1, Newest}
      /\ proc = [w \in Workers |-> Down]
      /\ schedulers \in {Strays, [q \in Queues |-> <<>>]}
  BY FleetAssumption DEF Init
<1>2. row \in [Queues -> Values]
  <2>1. [q \in Queues |-> "absent"] \in [Queues -> Values]
    BY DEF Values
  <2> QED
    BY <2>1, Named, DefaultsTyped DEF Init
<1>3. stamp \in 0 .. NoStamp /\ beat \in 0 .. NoStamp /\ release \in Releases
  BY <1>1, Named
<1>4. schedulers \in [Queues -> Seq(Int)] /\ OrderInv
  <2>1. <<>> \in Seq(Int) /\ IsInjective(<<>>)
    BY DEF IsInjective
  <2>2. [q \in Queues |-> <<>>] \in [Queues -> Seq(Int)]
    BY <2>1
  <2> QED
    BY <1>1, <2>1, <2>2, FleetAssumption DEF OrderInv
<1>5. due \in SUBSET Queues
  BY <1>1
<1>6. TypeOK
  BY <1>1, <1>2, <1>3, <1>4, <1>5, Beginnings DEF TypeOK, StoreTypeOK, ProcTypeOK
<1>7. \A w \in Workers : proc[w] = Down
  BY <1>1
<1>8. Down.phase = "down" /\ Down.pass = NoPass /\ Down.sync = NoSync /\ Down.release = 1
      /\ NoPass.step = "none" /\ NoPass.off = {}
      /\ NoSync.step = "none" /\ \A q \in Queues : NoSync.upserted[q] = {}
  BY DEF Down, NoPass, NoSync
<1>9. StampInv
  BY <1>1, <1>3, <1>7, <1>8 DEF StampInv
<1>10. PassInv
  BY <1>1, <1>7, <1>8 DEF PassInv, Pass
<1>11. PlaceInv
  BY <1>7, <1>8, Named DEF PlaceInv, PlaceOf, Sync, Declared
<1>12. AloneInv
  BY <1>7, <1>8 DEF AloneInv, AloneOf, Sync
<1> QED
  BY <1>4, <1>6, <1>9, <1>10, <1>11, <1>12 DEF FleetInv

LEMMA FleetInvStep == FleetInv /\ [Next]_vars => FleetInv'
<1> SUFFICES ASSUME FleetInv, [Next]_vars PROVE FleetInv'
  OBVIOUS
<1>1. CASE UNCHANGED vars
  <2>1. /\ UNCHANGED <<row, paused, schedulers, stamp, due, release, pruning>>
        /\ UNCHANGED <<proc, boundVars, off, beat>>
    BY <1>1 DEF vars, storeVars
  <2>2. ProcTypeOK' /\ schedulers' \in [Queues -> Seq(Int)]
    BY <2>1 DEF FleetInv, TypeOK, StoreTypeOK, ProcTypeOK
  <2>3. TypeOK' /\ StampInv' /\ PassInv'
    BY <2>1, <2>2, SyncQuiet
  <2>4. PlaceInv' /\ AloneInv' /\ OrderInv'
    BY <2>1, SyncFrame DEF boundVars
  <2> QED
    BY <2>3, <2>4 DEF FleetInv
<1>2. CASE Deploy \/ Prune \/ Edit \/ Minute
  BY <1>2, DeployKeeps, PruneKeeps, EditKeeps, MinuteKeeps
<1>3. ASSUME NEW w \in Workers, WorkerStep(w) PROVE FleetInv'
  <2>1. CASE Start(w) \/ TickBegins(w) \/ PassFails(w) \/ Beat(w) \/ Dies(w)
    BY <2>1, StartKeeps, TickBeginsKeeps, FailuresKeep, TakesKeeps DEF Beat
  <2>2. CASE StartStep(w)
    BY <2>2, ClearKeeps, UpsertKeeps, ListPageKeeps, RemoveStrayKeeps, NextQueueKeeps
       DEF StartStep
  <2>3. CASE PassStep(w)
    BY <2>3, ReadSwitchesKeeps, AskStateKeeps, ActKeeps, PassEndsKeeps DEF PassStep
  <2> QED
    BY <1>3, <2>1, <2>2, <2>3 DEF WorkerStep, Runs
<1> QED
  BY <1>1, <1>2, <1>3 DEF Next

LEMMA FleetInvAlways == Spec => []FleetInv
  BY FleetInvInit, FleetInvStep, PTL DEF Spec

-----------------------------------------------------------------------------
(* What the operator may rely on *)

\* Redis drops the stamp past its TTL, so what a healthcheck calls healthy, by any
\* clock within the drift, has a heartbeat within the TTL behind it; runtime.ts
\* clears the stamp before the Workers start, so from then on it is one that ran
\* since.  Between its start and the clear a worker is healthy on the stamp of
\* the process before it, or a neighbour's, and on nothing older than the TTL.
THEOREM HealthyAlwaysEarned == Spec => []HealthyIsEarned
<1>1. FleetInv => HealthyIsEarned
  <2> SUFFICES ASSUME FleetInv, NEW w \in Workers, NEW drift \in -Drift .. Drift,
                      proc[w].phase # "down",
                      Verdict("stamp", drift) = "healthy"
               PROVE  /\ beat <= TTL
                      /\ proc[w].beaten \/ proc[w].phase \in {"applying", "clearing"}
    BY DEF HealthyIsEarned
  <2>1. stamp # NoStamp
    BY DEF Verdict, ReadHeartbeat
  <2>2. beat <= stamp
    BY <2>1 DEF FleetInv, StampInv
  <2>3. stamp <= TTL
    BY <2>1, Named DEF FleetInv, TypeOK, StoreTypeOK
  <2>4. beat <= TTL
    BY <2>2, <2>3, Named DEF FleetInv, TypeOK, StoreTypeOK
  <2>5. CASE proc[w].phase \in {"syncing", "up"}
    <3>1. proc[w].beaten
      BY <2>1, <2>5 DEF FleetInv, StampInv
    <3> QED
      BY <2>4, <3>1
  <2>6. CASE proc[w].phase \in {"applying", "clearing"}
    BY <2>4, <2>6
  <2>7. proc[w].phase \in Phases
    BY PassTyped DEF Procs
  <2> QED
    BY <2>5, <2>6, <2>7 DEF Phases
<1> QED
  BY FleetInvAlways, <1>1, PTL

\* syncSchedules (schedules.ts) lists page by page by position, in the order of
\* the next runs, and removes what it listed and does not declare: whatever an
\* earlier code left, in whatever order, however many pages it fills, and whatever
\* fires before, after or outside the lists, a worker that comes up after a sync
\* nobody else wrote into, and whose lists no firing moved an entry of between two
\* pages, finds exactly what it declares.
THEOREM SchedulesAlwaysAsDeclared == Spec => []SchedulesAsDeclared
<1>1. FleetInv => SchedulesAsDeclared
  BY DEF FleetInv, AloneInv, AloneOf, Done, SchedulesAsDeclared
<1> QED
  BY FleetInvAlways, <1>1, PTL

\* Who resumes a queue: a pass that has read on for it, or the operator.
LEMMA Resumes ==
  ASSUME FleetInv, Next, NEW q \in paused \ paused', edits' = edits,
         NEW w \in Workers, proc'[w] # proc[w]
  PROVE  q \notin Pass(w).off
<1>1. paused' # paused
  OBVIOUS
<1>2. ~(Deploy \/ Prune \/ Minute)
  BY <1>1 DEF Deploy, Prune, Minute
<1>3. ~Edit
  BY DEF Edit, FleetInv, TypeOK, StoreTypeOK
<1>4. PICK x \in Workers : WorkerStep(x)
  BY <1>2, <1>3 DEF Next
<1>5. ~(Start(x) \/ StartStep(x) \/ TickBegins(x) \/ PassFails(x) \/ Beat(x) \/ Dies(x))
  BY <1>1 DEF Start, StartStep, ClearHeartbeat, Upsert, ListPage, RemoveStray, NextQueue,
              TickBegins, PassFails, Beat, Takes, Dies, storeVars
<1>6. ~(ReadSwitches(x) \/ (\E r \in Queues : AskState(x, r)) \/ PassEnds(x))
  BY <1>1 DEF ReadSwitches, AskState, PassEnds, storeVars
<1>7. Act(x)
  BY <1>4, <1>5, <1>6 DEF WorkerStep, Runs, PassStep
<1>8. x = w
  <2>1. PICK pass : UpdatePass(x, pass)
    BY <1>7 DEF Act
  <2> QED
    BY <2>1 DEF UpdatePass, FleetInv, TypeOK, ProcTypeOK
<1> QED
  BY <1>7, <1>8, Acted DEF FleetInv, PassInv

\* applyQueueSwitches (queue-switches.ts) acts on what it read, and a seed keeps
\* what is stored (seed.ts:39): whatever else passes, is seeded or is deployed
\* at the same time, a pass never resumes a queue that has been off since it began.
THEOREM OffAlwaysStaysOff == Spec => OffStaysOff
<1> DEFINE Kept == \A q \in paused \ paused' :
      edits' = edits => ~ \E w \in Workers : proc'[w] # proc[w] /\ q \in Pass(w).off \cap off
<1>1. FleetInv /\ [Next]_vars => [Kept]_vars
  BY Resumes
<1>2. Spec => [][Kept]_vars
  <2> HIDE DEF Kept
  <2> QED
    BY <1>1, FleetInvAlways, PTL DEF Spec
<1> QED
  BY <1>2 DEF OffStaysOff
=============================================================================
