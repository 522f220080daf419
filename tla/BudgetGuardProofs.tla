------------------------- MODULE BudgetGuardProofs -------------------------
(***************************************************************************)
(* That the fuse before a paid call holds, for any jobs, caps, prices,     *)
(* unit of the column, number of attempts and periods: what decides near   *)
(* the cap is never stale, and without the cache the cap is overrun by no  *)
(* more than the calls that were under way.                                *)
(*                                                                         *)
(* The first needs only what each job knows of the journal (BegunOf,       *)
(* AnswerOf).  The second counts the jobs a check has let through, or is   *)
(* about to, and that have not yet recorded what they pay: what they may   *)
(* still add is part of the bound (PurseInv), so that a record only turns  *)
(* what was reserved into what is spent.                                   *)
(***************************************************************************)
EXTENDS BudgetGuard, FiniteSetTheorems, TLAPS

Totals == [kind : {"total", "none", "unreadable"}, spent : Nat, warn : BOOLEAN, at : Nat]
Commands == [op : {"get", "set"}, job : Jobs, total : Totals]
Begins == [spent : Nat, at : Nat]
Phases == Active \cup {"idle", "done", "failed", "refused"}

JobTypeOK ==
  /\ phase \in [Jobs -> Phases]
  /\ attemptsMade \in [Jobs -> Nat] /\ cost \in [Jobs -> Nat]
  /\ answer \in [Jobs -> Totals] /\ begun \in [Jobs -> Begins]
StoreTypeOK ==
  /\ hasCache \in BOOLEAN /\ cap \in Caps
  /\ journal \in Nat /\ period \in Nat \ {0}
  /\ cache \in Totals /\ wire \in Seq(Commands)
TypeOK == StoreTypeOK /\ JobTypeOK

\* A total that counts everything recorded before the check of j began.
CurrentOf(j) ==
  \/ answer[j].at > begun[j].at
  \/ answer[j].at = begun[j].at /\ answer[j].spent >= begun[j].spent

\* What j found when its check began is still there, or of an earlier period.
BegunOf(j) ==
  /\ begun[j].at <= period
  /\ begun[j].at = period => begun[j].spent <= journal

\* What was counted is current, and so is what decided, unless it was comfortable.
AnswerOf(j) ==
  /\ phase[j] \in {"counted", "writing", "refused"} => CurrentOf(j)
  /\ phase[j] = "cleared" => CurrentOf(j) \/ ~Warns(answer[j].spent, cap)

\* A price is one of the prices; and without a cache nobody waits for it.
PaysOf(j) ==
  /\ phase[j] = "paid" => cost[j] \in Costs
  /\ ~hasCache => phase[j] \notin {"reading", "writing"}

\* A check has let j through, or is about to.
LetThrough(j) ==
  \/ phase[j] \in {"cleared", "paid"}
  \/ phase[j] = "counted" /\ ~Exceeded(answer[j].spent, cap)
UnderWay == {j \in Jobs : LetThrough(j)}

\* The most one record adds, and what the journal may reach.
Most == ToColumn(Max(Costs))
Limit == Max(Caps) + Cardinality(Jobs) * Most

PurseInv == ~hasCache => journal + Cardinality(UnderWay) * Most < Limit

BudgetInv ==
  /\ TypeOK
  /\ \A j \in Jobs : BegunOf(j) /\ AnswerOf(j) /\ PaysOf(j)
  /\ PurseInv

-----------------------------------------------------------------------------
(* The numbers *)

\* A finite set of numbers has a greatest: a number with the fewest above it.
LEMMA Greatest ==
  ASSUME NEW S \in SUBSET Nat, IsFiniteSet(S), S # {}
  PROVE  Max(S) \in S /\ \A x \in S : x <= Max(S)
<1> DEFINE Above(x) == {y \in S : y > x}
           family == {Above(x) : x \in S}
<1>1. \A x \in S : Above(x) \in SUBSET S /\ IsFiniteSet(Above(x))
  BY FS_Subset
<1>2. family # {} /\ family \subseteq FiniteSubsetsOf(S)
  BY <1>1 DEF FiniteSubsetsOf
<1>3. \E T \in family : \A U \in family : ~(<<U, T>> \in StrictSubsetOrdering(S))
  <2> HIDE DEF family
  <2> QED
    BY <1>2, FS_StrictSubsetOrderingWellFounded, WFMin
<1>4. PICK m \in S : \A x \in S : ~(<<Above(x), Above(m)>> \in StrictSubsetOrdering(S))
  BY <1>3
<1>5. ASSUME NEW x \in S, x > m PROVE FALSE
  <2>1. x \in Nat /\ m \in Nat
    OBVIOUS
  <2>2. \A y \in Above(x) : y \in Above(m)
    <3> SUFFICES ASSUME NEW y \in S, y > x PROVE y > m
      OBVIOUS
    <3>1. y \in Nat
      OBVIOUS
    <3> QED
      BY <1>5, <2>1, <3>1
  <2>3. x \in Above(m) /\ x \notin Above(x)
    BY <1>5, <2>1
  <2> HIDE DEF Above
  <2>4. <<Above(x), Above(m)>> \in StrictSubsetOrdering(S)
    BY <1>1, <2>2, <2>3 DEF StrictSubsetOrdering
  <2> QED
    BY <1>4, <2>4
<1>6. \A x \in S : m >= x
  BY <1>5
<1>7. Max(S) \in S /\ \A x \in S : Max(S) >= x
  BY <1>6 DEF Max
<1> QED
  BY <1>7

\* The column never says less than was paid, and keeps the order.
LEMMA ColumnRoundsUp ==
  /\ \A a \in Nat : ToColumn(a) \in Nat /\ ToColumn(a) * Scale >= a
  /\ \A a, b \in Nat : a <= b => ToColumn(a) <= ToColumn(b)
<1>1. Scale \in Nat \ {0}
  BY BudgetAssumption
<1>2. ASSUME NEW n \in Nat
      PROVE  n \div Scale \in Nat /\ (n \div Scale) * Scale <= n
             /\ n < ((n \div Scale) + 1) * Scale
  BY <1>1
<1>3. ASSUME NEW p \in Nat, NEW q \in Nat, p * Scale < q * Scale PROVE p < q
  BY <1>1, <1>3
<1>4. ASSUME NEW a \in Nat
      PROVE  /\ ToColumn(a) \in Nat /\ ToColumn(a) * Scale >= a
             /\ ToColumn(a) * Scale <= a + Scale - 1
             /\ a + Scale - 1 < (ToColumn(a) + 1) * Scale
  <2> DEFINE n == a + Scale - 1
             t == n \div Scale
  <2>1. n \in Nat /\ n + 1 = a + Scale
    BY <1>1
  <2> HIDE DEF n
  <2>2. t \in Nat /\ t * Scale <= n /\ n < (t + 1) * Scale
    BY <1>2, <2>1
  <2> HIDE DEF t
  <2>3. (t + 1) * Scale = t * Scale + Scale /\ t * Scale \in Nat
    BY <1>1, <2>2
  <2>4. t * Scale >= a
    BY <1>1, <2>1, <2>2, <2>3
  <2>5. t = ToColumn(a)
    BY DEF t, n, ToColumn
  <2> QED
    BY <2>2, <2>4, <2>5 DEF n
<1>5. ASSUME NEW a \in Nat, NEW b \in Nat, a <= b PROVE ToColumn(a) <= ToColumn(b)
  <2>1. ToColumn(a) \in Nat /\ ToColumn(b) + 1 \in Nat /\ ToColumn(b) \in Nat
    BY <1>4
  <2>2. ToColumn(a) * Scale < (ToColumn(b) + 1) * Scale
    <3> DEFINE p == ToColumn(a) * Scale
               q == (ToColumn(b) + 1) * Scale
    <3>1. p \in Nat /\ q \in Nat
      BY <1>1, <2>1
    <3>2. p <= a + Scale - 1 /\ b + Scale - 1 < q
      BY <1>4
    <3> HIDE DEF p, q
    <3>3. p < q
      BY <1>1, <1>5, <3>1, <3>2
    <3> QED
      BY <3>3 DEF p, q
  <2>3. ToColumn(a) < ToColumn(b) + 1
    BY <1>3, <2>1, <2>2
  <2> QED
    BY <2>1, <2>3
<1> QED
  BY <1>4, <1>5

LEMMA Prices ==
  /\ Caps \in SUBSET Nat /\ Costs \in SUBSET Nat /\ \A c \in Caps : c \in Nat \ {0}
  /\ \A c \in Costs : ToColumn(c) \in Nat /\ ToColumn(c) <= Most
  /\ Most \in Nat /\ IsFiniteSet(Jobs) /\ Cardinality(Jobs) \in Nat
  /\ Cardinality(Jobs) * Most \in Nat
  /\ \A c \in Caps : Max(Caps) \in Nat /\ c <= Max(Caps)
<1>1. /\ Caps \in SUBSET Nat /\ Costs \in SUBSET Nat /\ Costs # {}
      /\ \A c \in Caps : c \in Nat \ {0}
      /\ IsFiniteSet(Jobs) /\ IsFiniteSet(Caps) /\ IsFiniteSet(Costs)
  BY BudgetAssumption
<1>2. Max(Costs) \in Costs /\ \A c \in Costs : c <= Max(Costs)
  BY <1>1, Greatest
<1>3. Most \in Nat /\ \A c \in Costs : ToColumn(c) \in Nat /\ ToColumn(c) <= Most
  BY <1>1, <1>2, ColumnRoundsUp DEF Most
<1>4. Cardinality(Jobs) \in Nat
  BY <1>1, FS_CardinalityType
<1>5. \A c \in Caps : Max(Caps) \in Nat /\ c <= Max(Caps)
  BY <1>1, Greatest
<1>6. Cardinality(Jobs) * Most \in Nat
  BY <1>3, <1>4
<1> QED
  BY <1>1, <1>3, <1>4, <1>5, <1>6

\* A total past the cap is past the warning share.
LEMMA ExceededWarns ==
  ASSUME NEW spent \in Nat, NEW limit \in Nat, Exceeded(spent, limit)
  PROVE  Warns(spent, limit)
  BY DEF Exceeded, Warns

\* What fewer jobs may still add fits as well; and below the cap all jobs fit.
LEMMA Reserve ==
  ASSUME NEW spent \in Nat, NEW m \in Nat, cap \in Caps,
         \/ spent < cap /\ m <= Cardinality(Jobs)
         \/ \E n \in Nat : m <= n /\ spent + n * Most < Limit
  PROVE  spent + m * Most < Limit
<1>1. Most \in Nat /\ Cardinality(Jobs) \in Nat
  BY Prices
<1>2. ASSUME NEW a \in Nat, NEW b \in Nat, a <= b
      PROVE  a * Most \in Nat /\ b * Most \in Nat /\ a * Most <= b * Most
  BY <1>1, <1>2
<1>3. Limit \in Nat /\ cap \in Nat /\ cap + Cardinality(Jobs) * Most <= Limit
  <2>1. Max(Caps) \in Nat /\ cap <= Max(Caps) /\ cap \in Nat
        /\ Cardinality(Jobs) * Most \in Nat
    BY Prices
  <2> DEFINE all == Cardinality(Jobs) * Most
  <2>2. all \in Nat /\ Limit = Max(Caps) + all
    BY <2>1 DEF Limit
  <2> HIDE DEF all
  <2>3. Limit \in Nat /\ cap + all <= Limit
    BY <2>1, <2>2
  <2> QED
    BY <2>1, <2>3 DEF all
<1>4. CASE spent < cap /\ m <= Cardinality(Jobs)
  <2> DEFINE mine == m * Most
             all == Cardinality(Jobs) * Most
  <2>1. mine \in Nat /\ all \in Nat /\ mine <= all
    BY <1>1, <1>2, <1>4
  <2>2. cap + all <= Limit
    BY <1>3
  <2> HIDE DEF mine, all
  <2>3. spent + mine < Limit
    BY <1>3, <1>4, <2>1, <2>2
  <2> QED
    BY <2>3 DEF mine
<1>5. ASSUME NEW n \in Nat, m <= n, spent + n * Most < Limit PROVE spent + m * Most < Limit
  <2> DEFINE mine == m * Most
             theirs == n * Most
  <2>1. mine \in Nat /\ theirs \in Nat /\ mine <= theirs
    BY <1>2, <1>5
  <2>2. spent + theirs < Limit
    BY <1>5
  <2> HIDE DEF mine, theirs
  <2>3. spent + mine < Limit
    BY <1>3, <2>1, <2>2
  <2> QED
    BY <2>3 DEF mine
<1> QED
  BY <1>4, <1>5

-----------------------------------------------------------------------------
(* What a step of one job does to the invariant *)

LEMMA Counted ==
  ASSUME NEW A, NEW B, A \subseteq B, B \subseteq Jobs
  PROVE  /\ Cardinality(A) \in Nat /\ Cardinality(B) \in Nat
         /\ Cardinality(A) <= Cardinality(B) /\ Cardinality(B) <= Cardinality(Jobs)
<1>1. IsFiniteSet(Jobs) /\ IsFiniteSet(B) /\ IsFiniteSet(A)
  BY Prices, FS_Subset
<1> QED
  BY <1>1, FS_Subset, FS_CardinalityType

\* The jobs other than j are as they were; j knows what it should, and is let
\* through only if it was, or below the cap.
LEMMA OneJob ==
  ASSUME BudgetInv, TypeOK', NEW j \in Jobs,
         UNCHANGED <<guardVars, journal, period>>,
         \A x \in Jobs \ {j} : /\ phase'[x] = phase[x] /\ answer'[x] = answer[x]
                               /\ begun'[x] = begun[x] /\ cost'[x] = cost[x],
         BegunOf(j)', AnswerOf(j)', PaysOf(j)',
         LetThrough(j)' => LetThrough(j) \/ journal < cap
  PROVE  BudgetInv'
<1>1. UNCHANGED <<hasCache, cap>>
  BY DEF guardVars
<1>2. ASSUME NEW x \in Jobs \ {j}
      PROVE  BegunOf(x)' /\ AnswerOf(x)' /\ PaysOf(x)' /\ (LetThrough(x)' <=> LetThrough(x))
  <2>1. BegunOf(x) /\ AnswerOf(x) /\ PaysOf(x)
    BY DEF BudgetInv
  <2>2. BegunOf(x)'
    BY <2>1 DEF BegunOf
  <2>3. AnswerOf(x)'
    BY <1>1, <2>1 DEF AnswerOf, CurrentOf, Warns
  <2>4. PaysOf(x)'
    BY <1>1, <2>1 DEF PaysOf
  <2>5. LetThrough(x)' <=> LetThrough(x)
    BY <1>1 DEF LetThrough, Exceeded
  <2> QED
    BY <2>2, <2>3, <2>4, <2>5
<1>3. PurseInv'
  <2> SUFFICES ASSUME ~hasCache PROVE journal + Cardinality(UnderWay') * Most < Limit
    BY <1>1 DEF PurseInv, Most, Limit, ToColumn
  <2>1. journal + Cardinality(UnderWay) * Most < Limit /\ journal \in Nat /\ cap \in Caps
    BY DEF BudgetInv, PurseInv, TypeOK, StoreTypeOK
  <2>2. UnderWay \subseteq Jobs /\ UnderWay' \subseteq Jobs
    BY DEF UnderWay
  <2>3. CASE LetThrough(j)' => LetThrough(j)
    <3>1. UnderWay' \subseteq UnderWay
      BY <1>2, <2>3 DEF UnderWay
    <3>2. /\ Cardinality(UnderWay') \in Nat /\ Cardinality(UnderWay) \in Nat
          /\ Cardinality(UnderWay') <= Cardinality(UnderWay)
      BY <2>2, <3>1, Counted
    <3> QED
      BY <2>1, <3>2, Reserve
  <2>4. CASE journal < cap
    <3>1. Cardinality(UnderWay') \in Nat /\ Cardinality(UnderWay') <= Cardinality(Jobs)
      BY <2>2, Counted
    <3> QED
      BY <2>1, <2>4, <3>1, Reserve
  <2> QED
    BY <2>3, <2>4
<1> QED
  BY <1>2, <1>3 DEF BudgetInv

\* A job, as the invariant types it.
LEMMA JobTyped ==
  ASSUME BudgetInv, NEW j \in Jobs
  PROVE  /\ phase[j] \in Phases /\ attemptsMade[j] \in Nat /\ cost[j] \in Nat
         /\ answer[j] \in Totals /\ answer[j].spent \in Nat /\ answer[j].at \in Nat
         /\ begun[j] \in Begins /\ begun[j].spent \in Nat /\ begun[j].at \in Nat
         /\ cap \in Nat \ {0} /\ journal \in Nat /\ period \in Nat \ {0}
         /\ BegunOf(j) /\ AnswerOf(j) /\ PaysOf(j)
<1>1. answer[j] \in Totals /\ begun[j] \in Begins
  BY DEF BudgetInv, TypeOK, JobTypeOK
<1>2. answer[j].spent \in Nat /\ answer[j].at \in Nat
  BY <1>1 DEF Totals
<1>3. begun[j].spent \in Nat /\ begun[j].at \in Nat
  BY <1>1 DEF Begins
<1> QED
  BY <1>1, <1>2, <1>3, Prices DEF BudgetInv, TypeOK, StoreTypeOK, JobTypeOK

LEMMA Beginnings ==
  NoTotal \in Totals /\ Unreadable \in Totals /\ NotBegun \in Begins
  /\ NoTotal.kind = "none" /\ NotBegun.spent = 0 /\ NotBegun.at = 0
<1>1. NoTotal \in Totals /\ NoTotal.kind = "none"
  BY DEF NoTotal, Totals
<1>2. Unreadable \in Totals
  BY <1>1 DEF Unreadable, Totals
<1> QED
  BY <1>1, <1>2 DEF NotBegun, Begins

\* An attempt that throws knows nothing and is let through no more.
LEMMA ThrownKeeps ==
  ASSUME BudgetInv, NEW j \in Jobs, Thrown(j),
         UNCHANGED <<guardVars, journal, period, redisVars>>
  PROVE  BudgetInv'
<1> DEFINE next == IF AttemptsLeft(attemptsMade[j] + 1) THEN "idle" ELSE "failed"
<1>1. next \in Phases /\ next \in {"idle", "failed"} /\ attemptsMade[j] + 1 \in Nat
  BY JobTyped DEF Phases
<1>2. /\ phase' = [phase EXCEPT ![j] = next]
      /\ attemptsMade' = [attemptsMade EXCEPT ![j] = attemptsMade[j] + 1]
      /\ cost' = [cost EXCEPT ![j] = 0] /\ answer' = [answer EXCEPT ![j] = NoTotal]
      /\ begun' = [begun EXCEPT ![j] = NotBegun]
  BY DEF Thrown
<1> HIDE DEF next
<1>3. JobTypeOK'
  BY <1>1, <1>2, Beginnings DEF BudgetInv, TypeOK, JobTypeOK
<1>4. TypeOK'
  BY <1>3 DEF BudgetInv, TypeOK, StoreTypeOK, guardVars, redisVars
<1>5. phase'[j] = next /\ begun'[j] = NotBegun
  BY <1>2 DEF BudgetInv, TypeOK, JobTypeOK
<1>6. \A x \in Jobs \ {j} : /\ phase'[x] = phase[x] /\ answer'[x] = answer[x]
                            /\ begun'[x] = begun[x] /\ cost'[x] = cost[x]
  BY <1>2 DEF BudgetInv, TypeOK, JobTypeOK
<1>7. BegunOf(j)'
  BY <1>5, Beginnings, JobTyped DEF BegunOf
<1>8. AnswerOf(j)' /\ PaysOf(j)' /\ ~LetThrough(j)'
  BY <1>1, <1>5 DEF AnswerOf, PaysOf, LetThrough
<1> QED
  BY <1>4, <1>6, <1>7, <1>8, OneJob

\* Only the phase and the answer of a job change, and the cache or the wire.
LEMMA AnswerChanges ==
  ASSUME BudgetInv, NEW j \in Jobs, NEW next \in Phases, NEW total \in Totals,
         phase' = [phase EXCEPT ![j] = next],
         answer' = [answer EXCEPT ![j] = total],
         cache' \in Totals, wire' \in Seq(Commands),
         UNCHANGED <<guardVars, journal, period, attemptsMade, cost, begun>>
  PROVE  /\ TypeOK' /\ phase'[j] = next /\ answer'[j] = total /\ begun'[j] = begun[j]
         /\ \A x \in Jobs \ {j} : /\ phase'[x] = phase[x] /\ answer'[x] = answer[x]
                                  /\ begun'[x] = begun[x] /\ cost'[x] = cost[x]
         /\ BegunOf(j)' /\ UNCHANGED <<hasCache, cap>>
<1>1. JobTypeOK'
  BY DEF BudgetInv, TypeOK, JobTypeOK
<1>2. StoreTypeOK'
  BY DEF BudgetInv, TypeOK, StoreTypeOK, guardVars
<1>3. BegunOf(j)'
  BY DEF BudgetInv, BegunOf
<1>4. phase'[j] = next /\ answer'[j] = total
      /\ \A x \in Jobs \ {j} : /\ phase'[x] = phase[x] /\ answer'[x] = answer[x]
  BY DEF BudgetInv, TypeOK, JobTypeOK
<1> QED
  BY <1>1, <1>2, <1>3, <1>4 DEF TypeOK, guardVars

\* The check of j is over, on a total that is current or comfortable.
LEMMA DecidedKeeps ==
  ASSUME BudgetInv, NEW j \in Jobs, NEW total \in Totals, Decided(j, total),
         cache' \in Totals, wire' \in Seq(Commands),
         UNCHANGED <<guardVars, journal, period, attemptsMade, cost, begun>>,
         \/ total = answer[j] /\ phase[j] \in {"counted", "writing"}
         \/ ~Warns(total.spent, cap) /\ hasCache,
         ~hasCache => phase[j] = "counted"
  PROVE  BudgetInv'
<1> DEFINE next == IF Exceeded(total.spent, cap) THEN "refused" ELSE "cleared"
<1>1. next \in Phases /\ next \in {"refused", "cleared"}
      /\ (next = "refused" <=> Exceeded(total.spent, cap))
  BY DEF Phases, Active
<1>2. phase' = [phase EXCEPT ![j] = next] /\ answer' = [answer EXCEPT ![j] = total]
  BY DEF Decided
<1> HIDE DEF next
<1>3. /\ TypeOK' /\ phase'[j] = next /\ answer'[j] = total /\ begun'[j] = begun[j]
      /\ \A x \in Jobs \ {j} : /\ phase'[x] = phase[x] /\ answer'[x] = answer[x]
                               /\ begun'[x] = begun[x] /\ cost'[x] = cost[x]
      /\ BegunOf(j)' /\ UNCHANGED <<hasCache, cap>>
  BY <1>1, <1>2, AnswerChanges
<1>4. AnswerOf(j)'
  <2>1. CASE total = answer[j] /\ phase[j] \in {"counted", "writing"}
    BY <1>1, <1>3, <2>1, JobTyped DEF AnswerOf, CurrentOf
  <2>2. CASE ~Warns(total.spent, cap)
    <3>1. total.spent \in Nat /\ cap \in Nat
      BY JobTyped DEF Totals
    <3>2. next = "cleared"
      BY <1>1, <2>2, <3>1, ExceededWarns
    <3> QED
      BY <1>3, <2>2, <3>2 DEF AnswerOf, Warns
  <2> QED
    BY <2>1, <2>2
<1>5. PaysOf(j)'
  BY <1>1, <1>3 DEF PaysOf
<1>6. CASE hasCache
  <2>1. PurseInv'
    BY <1>3, <1>6 DEF PurseInv
  <2>2. \A x \in Jobs \ {j} : BegunOf(x)' /\ AnswerOf(x)' /\ PaysOf(x)'
    BY <1>3 DEF BudgetInv, BegunOf, AnswerOf, CurrentOf, PaysOf, Warns
  <2> QED
    BY <1>3, <1>4, <1>5, <2>1, <2>2 DEF BudgetInv
<1>7. CASE ~hasCache
  <2>1. LetThrough(j)' => LetThrough(j)
    BY <1>1, <1>3, <1>7 DEF LetThrough, Exceeded
  <2> QED
    BY <1>3, <1>4, <1>5, <2>1, OneJob
<1> QED
  BY <1>6, <1>7

-----------------------------------------------------------------------------
(* The check *)

LEMMA AssertKeeps ==
  ASSUME BudgetInv, NEW j \in Jobs, Assert(j) PROVE BudgetInv'
<1> DEFINE next == IF hasCache THEN "reading" ELSE "counting"
           now == [spent |-> journal, at |-> period]
<1>1. /\ phase' = [phase EXCEPT ![j] = next] /\ begun' = [begun EXCEPT ![j] = now]
      /\ UNCHANGED <<guardVars, journal, period, cache, attemptsMade, cost, answer>>
  BY DEF Assert
<1>2. next \in Phases /\ next \in {"reading", "counting"} /\ (~hasCache => next = "counting")
  BY DEF Phases, Active
<1>3. now \in Begins /\ now.spent = journal /\ now.at = period
  BY JobTyped DEF Begins
<1>4. wire' \in Seq(Commands)
  <2>1. Command("get", j, NoTotal) \in Commands
    BY Beginnings DEF Command, Commands
  <2>2. wire \in Seq(Commands)
    BY DEF BudgetInv, TypeOK, StoreTypeOK
  <2>3. wire' = Append(wire, Command("get", j, NoTotal)) \/ wire' = wire
    BY DEF Assert
  <2> QED
    BY <2>1, <2>2, <2>3
<1> HIDE DEF next, now
<1>5. JobTypeOK'
  BY <1>1, <1>2, <1>3 DEF BudgetInv, TypeOK, JobTypeOK
<1>6. StoreTypeOK'
  BY <1>1, <1>4 DEF BudgetInv, TypeOK, StoreTypeOK, guardVars
<1>7. /\ phase'[j] = next /\ begun'[j] = now
      /\ \A x \in Jobs \ {j} : /\ phase'[x] = phase[x] /\ answer'[x] = answer[x]
                               /\ begun'[x] = begun[x] /\ cost'[x] = cost[x]
  BY <1>1 DEF BudgetInv, TypeOK, JobTypeOK
<1>8. BegunOf(j)'
  BY <1>1, <1>3, <1>7, JobTyped DEF BegunOf
<1>9. AnswerOf(j)' /\ PaysOf(j)' /\ ~LetThrough(j)'
  BY <1>1, <1>2, <1>7 DEF AnswerOf, PaysOf, LetThrough, guardVars
<1> QED
  BY <1>1, <1>5, <1>6, <1>7, <1>8, <1>9, OneJob DEF TypeOK

\* A job whose next phase says nothing of its answer and lets nobody through.
LEMMA QuietKeeps ==
  ASSUME BudgetInv, NEW j \in Jobs, NEW next \in {"counting", "writing"},
         phase' = [phase EXCEPT ![j] = next], answer' = answer,
         next = "writing" => phase[j] = "counted" /\ hasCache,
         cache' \in Totals, wire' \in Seq(Commands),
         UNCHANGED <<guardVars, journal, period, attemptsMade, cost, begun>>
  PROVE  BudgetInv'
<1>1. next \in Phases
  BY DEF Phases, Active
<1>2. answer' = [answer EXCEPT ![j] = answer[j]] /\ answer[j] \in Totals
  BY JobTyped DEF BudgetInv, TypeOK, JobTypeOK
<1>3. /\ TypeOK' /\ phase'[j] = next /\ answer'[j] = answer[j] /\ begun'[j] = begun[j]
      /\ \A x \in Jobs \ {j} : /\ phase'[x] = phase[x] /\ answer'[x] = answer[x]
                               /\ begun'[x] = begun[x] /\ cost'[x] = cost[x]
      /\ BegunOf(j)' /\ UNCHANGED <<hasCache, cap>>
  BY <1>1, <1>2, AnswerChanges
<1>4. AnswerOf(j)'
  BY <1>3, JobTyped DEF AnswerOf, CurrentOf
<1>5. PaysOf(j)' /\ ~LetThrough(j)'
  BY <1>3 DEF PaysOf, LetThrough
<1> QED
  BY <1>3, <1>4, <1>5, OneJob

LEMMA StoreTyped ==
  ASSUME BudgetInv
  PROVE  cache \in Totals /\ wire \in Seq(Commands) /\ hasCache \in BOOLEAN
         /\ (wire # <<>> => Head(wire) \in Commands /\ Tail(wire) \in Seq(Commands))
<1>1. wire \in Seq(Commands)
  BY DEF BudgetInv, TypeOK, StoreTypeOK
<1> QED
  BY <1>1 DEF BudgetInv, TypeOK, StoreTypeOK

\* cachedSpend uses a total only where it is comfortable.
LEMMA ReadEndsKeeps ==
  ASSUME BudgetInv, NEW j \in Jobs, NEW total \in Totals, ReadEnds(j, total),
         phase[j] = "reading", cache' \in Totals, wire' \in Seq(Commands),
         UNCHANGED <<guardVars, journal, period, attemptsMade, cost, begun>>
  PROVE  BudgetInv'
<1>1. hasCache
  BY JobTyped DEF PaysOf
<1>2. CASE Reusable(total)
  <2>1. Decided(j, total) /\ ~Warns(total.spent, cap)
    BY <1>2 DEF ReadEnds, Reusable
  <2> QED
    BY <1>1, <2>1, DecidedKeeps
<1>3. CASE ~Reusable(total)
  <2>1. phase' = [phase EXCEPT ![j] = "counting"] /\ answer' = answer
    BY <1>3 DEF ReadEnds
  <2> QED
    BY <2>1, QuietKeeps
<1> QED
  BY <1>2, <1>3

LEMMA WriteEndsKeeps ==
  ASSUME BudgetInv, NEW j \in Jobs, Decided(j, answer[j]),
         phase[j] = "writing", cache' \in Totals, wire' \in Seq(Commands),
         UNCHANGED <<guardVars, journal, period, attemptsMade, cost, begun>>
  PROVE  BudgetInv'
<1>1. answer[j] \in Totals /\ hasCache
  BY JobTyped DEF PaysOf
<1> QED
  BY <1>1, DecidedKeeps

LEMMA CountKeeps ==
  ASSUME BudgetInv, NEW j \in Jobs, Count(j) PROVE BudgetInv'
<1> DEFINE total == TotalOf(journal, Warns(journal, cap))
<1>1. total \in Totals /\ total.spent = journal /\ total.at = period
  <2>1. Warns(journal, cap) \in BOOLEAN
    BY DEF Warns
  <2> QED
    BY <2>1, JobTyped DEF TotalOf, Totals
<1> HIDE DEF total
<1>2. /\ phase' = [phase EXCEPT ![j] = "counted"] /\ answer' = [answer EXCEPT ![j] = total]
      /\ UNCHANGED <<guardVars, journal, period, redisVars, attemptsMade, cost, begun>>
  BY DEF Count, total
<1>3. "counted" \in Phases /\ cache' \in Totals /\ wire' \in Seq(Commands)
  BY <1>2, StoreTyped DEF Phases, Active, redisVars
<1>4. /\ TypeOK' /\ phase'[j] = "counted" /\ answer'[j] = total /\ begun'[j] = begun[j]
      /\ \A x \in Jobs \ {j} : /\ phase'[x] = phase[x] /\ answer'[x] = answer[x]
                               /\ begun'[x] = begun[x] /\ cost'[x] = cost[x]
      /\ BegunOf(j)' /\ UNCHANGED <<hasCache, cap>>
  BY <1>1, <1>2, <1>3, AnswerChanges
<1>5. AnswerOf(j)'
  BY <1>1, <1>4, JobTyped DEF AnswerOf, CurrentOf, BegunOf
<1>6. PaysOf(j)'
  BY <1>4 DEF PaysOf
<1>7. LetThrough(j)' => journal < cap
  BY <1>1, <1>4, JobTyped DEF LetThrough, Exceeded
<1> QED
  BY <1>2, <1>4, <1>5, <1>6, <1>7, OneJob

LEMMA CountArrivesKeeps ==
  ASSUME BudgetInv, NEW j \in Jobs, CountArrives(j) PROVE BudgetInv'
<1>1. /\ phase[j] = "counted" /\ answer[j] \in Totals /\ cache' \in Totals
      /\ UNCHANGED <<guardVars, journal, period, attemptsMade, cost, begun>>
  BY JobTyped, StoreTyped DEF CountArrives
<1>2. CASE hasCache
  <2>1. /\ phase' = [phase EXCEPT ![j] = "writing"] /\ answer' = answer
        /\ wire' = Append(wire, Command("set", j, answer[j]))
    BY <1>2 DEF CountArrives
  <2>2. Command("set", j, answer[j]) \in Commands
    BY <1>1 DEF Command, Commands
  <2>3. wire' \in Seq(Commands)
    BY <2>1, <2>2, StoreTyped
  <2> QED
    BY <1>1, <1>2, <2>1, <2>3, QuietKeeps
<1>3. CASE ~hasCache
  <2>1. Decided(j, answer[j]) /\ wire' \in Seq(Commands)
    BY <1>3, StoreTyped DEF CountArrives
  <2> QED
    BY <1>1, <2>1, DecidedKeeps
<1> QED
  BY <1>2, <1>3

LEMMA CommandTimesOutKeeps ==
  ASSUME BudgetInv, NEW j \in Jobs, CommandTimesOut(j) PROVE BudgetInv'
<1>1. /\ phase[j] \in {"reading", "writing"} /\ cache' \in Totals /\ wire' \in Seq(Commands)
      /\ UNCHANGED <<guardVars, journal, period, attemptsMade, cost, begun>>
  BY StoreTyped DEF CommandTimesOut, redisVars
<1>2. CASE phase[j] = "reading"
  <2>1. ReadEnds(j, NoTotal)
    BY <1>2 DEF CommandTimesOut, CommandEnds, Command
  <2> QED
    BY <1>1, <1>2, <2>1, Beginnings, ReadEndsKeeps
<1>3. CASE phase[j] = "writing"
  <2>1. Decided(j, answer[j])
    BY <1>3 DEF CommandTimesOut, CommandEnds, Command
  <2> QED
    BY <1>1, <1>3, <2>1, WriteEndsKeeps
<1> QED
  BY <1>1, <1>2, <1>3

\* Where only the cache and the wire change.
LEMMA StoreKeeps ==
  ASSUME BudgetInv, cache' \in Totals, wire' \in Seq(Commands),
         UNCHANGED <<guardVars, journal, period, jobVars>>
  PROVE  BudgetInv'
<1>1. UNCHANGED <<hasCache, cap, journal, period, phase, attemptsMade, cost, answer, begun>>
  BY DEF guardVars, jobVars
<1>2. TypeOK'
  BY <1>1 DEF BudgetInv, TypeOK, StoreTypeOK, JobTypeOK
<1>3. \A j \in Jobs : BegunOf(j)' /\ AnswerOf(j)' /\ PaysOf(j)'
  BY <1>1 DEF BudgetInv, BegunOf, AnswerOf, CurrentOf, PaysOf, Warns
<1>4. UnderWay' = UnderWay
  BY <1>1 DEF UnderWay, LetThrough, Exceeded
<1>5. PurseInv'
  BY <1>1, <1>4 DEF BudgetInv, PurseInv, Limit, Most, ToColumn
<1> QED
  BY <1>2, <1>3, <1>5 DEF BudgetInv

LEMMA RedisAnswersKeeps ==
  ASSUME BudgetInv, RedisAnswers PROVE BudgetInv'
<1> DEFINE command == Head(wire)
<1>1. command \in Commands /\ wire' \in Seq(Commands)
      /\ UNCHANGED <<guardVars, journal, period, attemptsMade, cost, begun>>
  BY StoreTyped DEF RedisAnswers
<1>2. command.job \in Jobs /\ command.op \in {"get", "set"} /\ command.total \in Totals
  BY <1>1 DEF Commands
<1>3. PICK works \in BOOLEAN :
        /\ IF works THEN cache' = (IF command.op = "set" THEN command.total ELSE cache)
                    ELSE cache' = cache
        /\ IF Awaited(command, Tail(wire))
           THEN CommandEnds(command, IF works THEN cache ELSE NoTotal)
           ELSE UNCHANGED <<phase, answer>>
  BY DEF RedisAnswers
<1> HIDE DEF command
<1>4. cache' \in Totals
  BY <1>2, <1>3, StoreTyped
<1>5. CASE ~Awaited(command, Tail(wire))
  BY <1>1, <1>3, <1>4, <1>5, StoreKeeps DEF jobVars
<1>6. CASE Awaited(command, Tail(wire))
  <2> DEFINE value == IF works THEN cache ELSE NoTotal
  <2>1. value \in Totals /\ CommandEnds(command, value)
    BY <1>3, <1>6, StoreTyped, Beginnings
  <2> HIDE DEF value
  <2>2. CASE command.op = "get"
    <3>1. ReadEnds(command.job, value) /\ phase[command.job] = "reading"
      BY <1>6, <2>1, <2>2 DEF CommandEnds, Awaited
    <3> QED
      BY <1>1, <1>2, <1>4, <2>1, <3>1, ReadEndsKeeps
  <2>3. CASE command.op = "set"
    <3>1. Decided(command.job, answer[command.job]) /\ phase[command.job] = "writing"
      BY <1>6, <2>1, <2>3 DEF CommandEnds, Awaited
    <3> QED
      BY <1>1, <1>2, <1>4, <3>1, WriteEndsKeeps
  <2> QED
    BY <1>2, <2>2, <2>3
<1> QED
  BY <1>5, <1>6

-----------------------------------------------------------------------------
(* The paid call, its row, and what happens around it *)

LEMMA PayKeeps ==
  ASSUME BudgetInv, NEW j \in Jobs, Pay(j) PROVE BudgetInv'
<1>1. PICK parts \in Costs : cost' = [cost EXCEPT ![j] = parts]
  BY DEF Pay
<1>2. /\ phase[j] = "cleared" /\ phase' = [phase EXCEPT ![j] = "paid"]
      /\ UNCHANGED <<guardVars, journal, period, redisVars, attemptsMade, answer, begun>>
  BY DEF Pay
<1>3. parts \in Nat /\ "paid" \in Phases
  BY Prices DEF Phases, Active
<1>4. JobTypeOK'
  BY <1>1, <1>2, <1>3 DEF BudgetInv, TypeOK, JobTypeOK
<1>5. StoreTypeOK'
  BY <1>2 DEF BudgetInv, TypeOK, StoreTypeOK, guardVars, redisVars
<1>6. /\ phase'[j] = "paid" /\ cost'[j] = parts
      /\ \A x \in Jobs \ {j} : /\ phase'[x] = phase[x] /\ answer'[x] = answer[x]
                               /\ begun'[x] = begun[x] /\ cost'[x] = cost[x]
  BY <1>1, <1>2 DEF BudgetInv, TypeOK, JobTypeOK
<1>7. BegunOf(j)'
  BY <1>2 DEF BudgetInv, BegunOf
<1>8. AnswerOf(j)' /\ PaysOf(j)'
  BY <1>6 DEF AnswerOf, PaysOf
<1>9. LetThrough(j)
  BY <1>2 DEF LetThrough
<1> QED
  BY <1>2, <1>4, <1>5, <1>6, <1>7, <1>8, <1>9, OneJob DEF TypeOK

\* A record spends what was reserved for it.
LEMMA RecordSpendsReserve ==
  ASSUME BudgetInv, NEW j \in Jobs, phase[j] = "paid", ~hasCache
  PROVE  LET left == UnderWay \ {j}
         IN  /\ Cardinality(left) \in Nat
             /\ journal + ToColumn(cost[j]) + Cardinality(left) * Most < Limit
<1> DEFINE left == UnderWay \ {j}
           n == Cardinality(left)
           mine == ToColumn(cost[j])
           theirs == n * Most
<1>1. j \in UnderWay /\ UnderWay \subseteq Jobs
  BY DEF UnderWay, LetThrough
<1>2. IsFiniteSet(UnderWay)
  BY <1>1, Prices, FS_Subset
<1>3. Cardinality(UnderWay) = n + 1 /\ n \in Nat
  <2>1. Cardinality(UnderWay) \in Nat /\ IsFiniteSet(left) /\ n = Cardinality(UnderWay) - 1
    BY <1>1, <1>2, FS_RemoveElement, FS_CardinalityType
  <2>2. n \in Nat
    BY <2>1, FS_CardinalityType
  <2> QED
    BY <2>1, <2>2
<1>4. mine \in Nat /\ mine <= Most /\ Most \in Nat /\ journal \in Nat
  BY JobTyped, Prices DEF PaysOf
<1>5. journal + (n + 1) * Most < Limit
  BY <1>3 DEF BudgetInv, PurseInv
<1> HIDE DEF n, mine
<1>6. (n + 1) * Most = theirs + Most /\ theirs \in Nat
  BY <1>3, <1>4
<1>7. Limit \in Nat
  <2>1. cap \in Caps /\ Max(Caps) \in Nat /\ Cardinality(Jobs) * Most \in Nat
    BY Prices DEF BudgetInv, TypeOK, StoreTypeOK
  <2> QED
    BY <2>1 DEF Limit
<1> HIDE DEF theirs
<1>8. journal + mine + theirs < Limit
  BY <1>4, <1>5, <1>6, <1>7
<1> QED
  BY <1>3, <1>8 DEF n, mine, theirs

LEMMA RecordKeeps ==
  ASSUME BudgetInv, NEW j \in Jobs, Record(j) PROVE BudgetInv'
<1>1. PICK next \in {"idle", "done"} : phase' = [phase EXCEPT ![j] = next]
  BY DEF Record
<1>2. /\ phase[j] = "paid" /\ journal' = journal + ToColumn(cost[j])
      /\ cost' = [cost EXCEPT ![j] = 0] /\ answer' = [answer EXCEPT ![j] = NoTotal]
      /\ begun' = [begun EXCEPT ![j] = NotBegun]
      /\ UNCHANGED <<hasCache, cap, period, cache, wire, attemptsMade>>
  BY DEF Record, guardVars, redisVars
<1>3. next \in Phases /\ ToColumn(cost[j]) \in Nat /\ journal \in Nat
      /\ journal' \in Nat /\ journal' >= journal
  <2>1. ToColumn(cost[j]) \in Nat /\ journal \in Nat
    BY JobTyped, ColumnRoundsUp
  <2> QED
    BY <1>2, <2>1 DEF Phases
<1>4. JobTypeOK'
  BY <1>1, <1>2, <1>3, Beginnings DEF BudgetInv, TypeOK, JobTypeOK
<1>5. StoreTypeOK'
  BY <1>2, <1>3 DEF BudgetInv, TypeOK, StoreTypeOK
<1>6. /\ phase'[j] = next /\ begun'[j] = NotBegun
      /\ \A x \in Jobs \ {j} : /\ phase'[x] = phase[x] /\ answer'[x] = answer[x]
                               /\ begun'[x] = begun[x] /\ cost'[x] = cost[x]
  BY <1>1, <1>2 DEF BudgetInv, TypeOK, JobTypeOK
<1>7. ASSUME NEW x \in Jobs PROVE BegunOf(x)' /\ AnswerOf(x)' /\ PaysOf(x)'
  <2>1. CASE x = j
    <3>1. BegunOf(j)'
      BY <1>2, <1>6, Beginnings, JobTyped DEF BegunOf
    <3>2. AnswerOf(j)' /\ PaysOf(j)'
      BY <1>6 DEF AnswerOf, PaysOf
    <3> QED
      BY <2>1, <3>1, <3>2
  <2>2. CASE x # j
    <3>1. BegunOf(x)'
      BY <1>2, <1>3, <1>6, <2>2, JobTyped DEF BegunOf
    <3>2. AnswerOf(x)' /\ PaysOf(x)'
      BY <1>2, <1>6, <2>2 DEF BudgetInv, AnswerOf, CurrentOf, PaysOf, Warns
    <3> QED
      BY <3>1, <3>2
  <2> QED
    BY <2>1, <2>2
<1>8. UnderWay' = UnderWay \ {j}
  BY <1>2, <1>6 DEF UnderWay, LetThrough, Exceeded
<1>9. PurseInv'
  <2> SUFFICES ASSUME ~hasCache
               PROVE  journal + ToColumn(cost[j]) + Cardinality(UnderWay \ {j}) * Most < Limit
    BY <1>2, <1>8 DEF PurseInv, Limit, Most, ToColumn
  <2> QED
    BY <1>2, RecordSpendsReserve
<1> QED
  BY <1>4, <1>5, <1>7, <1>9 DEF BudgetInv, TypeOK

LEMMA PeriodEndsKeeps ==
  ASSUME BudgetInv, PeriodEnds PROVE BudgetInv'
<1>1. /\ period' = period + 1 /\ journal' = 0
      /\ UNCHANGED <<hasCache, cap, cache, wire, phase, attemptsMade, cost, answer, begun>>
  BY DEF PeriodEnds, guardVars, redisVars, jobVars
<1>2. TypeOK'
  BY <1>1 DEF BudgetInv, TypeOK, StoreTypeOK, JobTypeOK
<1>3. ASSUME NEW j \in Jobs PROVE BegunOf(j)' /\ AnswerOf(j)' /\ PaysOf(j)'
  <2>1. BegunOf(j)'
    BY <1>1, JobTyped DEF BegunOf
  <2>2. AnswerOf(j)' /\ PaysOf(j)'
    BY <1>1 DEF BudgetInv, AnswerOf, CurrentOf, PaysOf, Warns
  <2> QED
    BY <2>1, <2>2
<1>4. UnderWay' = UnderWay /\ UnderWay \subseteq Jobs
  BY <1>1 DEF UnderWay, LetThrough, Exceeded
<1>5. cap \in Caps /\ 0 < cap
  <2>1. cap \in Caps
    BY DEF BudgetInv, TypeOK, StoreTypeOK
  <2> QED
    BY <2>1, Prices
<1>6. Cardinality(UnderWay) \in Nat /\ Cardinality(UnderWay) <= Cardinality(Jobs)
  BY <1>4, Counted
<1>7. 0 + Cardinality(UnderWay) * Most < Limit
  BY <1>5, <1>6, Reserve
<1>8. PurseInv'
  BY <1>1, <1>4, <1>7 DEF PurseInv, Limit, Most, ToColumn
<1> QED
  BY <1>2, <1>3, <1>8 DEF BudgetInv

LEMMA RedeployKeeps ==
  ASSUME BudgetInv, Redeploy PROVE BudgetInv'
<1>1. /\ cap' \in Caps /\ wire' = <<>>
      /\ phase' = [j \in Jobs |-> IF phase[j] \in Active THEN "idle" ELSE phase[j]]
      /\ cost' = [j \in Jobs |-> 0]
      /\ answer' = [j \in Jobs |-> IF phase[j] \in Active THEN NoTotal ELSE answer[j]]
      /\ begun' = [j \in Jobs |-> IF phase[j] \in Active THEN NotBegun ELSE begun[j]]
      /\ UNCHANGED <<hasCache, journal, period, cache, attemptsMade>>
  BY DEF Redeploy
<1>2. JobTypeOK'
  BY <1>1, Beginnings DEF BudgetInv, TypeOK, JobTypeOK, Phases
<1>3. StoreTypeOK'
  BY <1>1 DEF BudgetInv, TypeOK, StoreTypeOK
<1>4. ASSUME NEW j \in Jobs
      PROVE  BegunOf(j)' /\ AnswerOf(j)' /\ PaysOf(j)' /\ ~LetThrough(j)'
  <2>1. phase'[j] \in {"idle", "done", "failed", "refused"}
    BY <1>1, JobTyped DEF Phases
  <2>2. CASE phase[j] \in Active
    <3>1. phase'[j] = "idle" /\ begun'[j] = NotBegun
      BY <1>1, <2>2
    <3>2. BegunOf(j)'
      BY <1>1, <3>1, Beginnings, JobTyped DEF BegunOf
    <3> QED
      BY <3>1, <3>2 DEF AnswerOf, PaysOf, LetThrough
  <2>3. CASE phase[j] \notin Active
    <3>1. phase'[j] = phase[j] /\ begun'[j] = begun[j] /\ answer'[j] = answer[j]
      BY <1>1, <2>3
    <3>2. BegunOf(j)'
      BY <1>1, <3>1 DEF BudgetInv, BegunOf
    <3>3. AnswerOf(j)'
      BY <2>1, <3>1 DEF BudgetInv, AnswerOf, CurrentOf
    <3> QED
      BY <2>1, <3>2, <3>3 DEF PaysOf, LetThrough
  <2> QED
    BY <2>2, <2>3
<1>5. UnderWay' = {} /\ Cardinality({}) = 0
  BY <1>4, FS_EmptySet DEF UnderWay
<1>6. PurseInv'
  <2> SUFFICES ASSUME ~hasCache PROVE journal + 0 * Most < Limit
    BY <1>1, <1>5 DEF PurseInv, Limit, Most, ToColumn
  <2>1. journal + Cardinality(UnderWay) * Most < Limit /\ journal \in Nat /\ cap \in Caps
    BY DEF BudgetInv, PurseInv, TypeOK, StoreTypeOK
  <2>2. Cardinality(UnderWay) \in Nat
    BY Counted DEF UnderWay
  <2> QED
    BY <2>1, <2>2, Reserve
<1> QED
  BY <1>2, <1>3, <1>4, <1>6 DEF BudgetInv, TypeOK

LEMMA BudgetInvInit == Init => BudgetInv
<1> SUFFICES ASSUME Init PROVE BudgetInv
  OBVIOUS
<1>1. /\ hasCache \in BOOLEAN /\ cap \in Caps /\ journal = 0 /\ period = 1
      /\ cache \in {NoTotal, Unreadable} /\ wire = <<>>
      /\ phase = [j \in Jobs |-> "idle"]
      /\ attemptsMade = [j \in Jobs |-> 0] /\ cost = [j \in Jobs |-> 0]
      /\ answer = [j \in Jobs |-> NoTotal] /\ begun = [j \in Jobs |-> NotBegun]
  BY DEF Init
<1>2. TypeOK
  BY <1>1, Beginnings DEF TypeOK, StoreTypeOK, JobTypeOK, Phases
<1>3. \A j \in Jobs : phase[j] = "idle" /\ begun[j] = NotBegun
  BY <1>1
<1>4. \A j \in Jobs : BegunOf(j)
  BY <1>1, <1>3, Beginnings DEF BegunOf
<1>5. \A j \in Jobs : AnswerOf(j) /\ PaysOf(j) /\ ~LetThrough(j)
  BY <1>3 DEF AnswerOf, PaysOf, LetThrough
<1>6. UnderWay = {} /\ Cardinality({}) = 0 /\ 0 <= Cardinality(Jobs) /\ 0 < cap
  BY <1>1, <1>5, FS_EmptySet, Prices DEF UnderWay
<1>7. 0 + 0 * Most < Limit
  BY <1>1, <1>6, Reserve
<1>8. PurseInv
  BY <1>1, <1>6, <1>7 DEF PurseInv
<1> QED
  BY <1>2, <1>4, <1>5, <1>8 DEF BudgetInv

LEMMA BudgetInvStep == BudgetInv /\ [Next]_vars => BudgetInv'
<1> SUFFICES ASSUME BudgetInv, [Next]_vars PROVE BudgetInv'
  OBVIOUS
<1>1. CASE UNCHANGED vars
  <2>1. cache' \in Totals /\ wire' \in Seq(Commands)
    BY <1>1, StoreTyped DEF vars, redisVars
  <2> QED
    BY <1>1, <2>1, StoreKeeps DEF vars
<1>2. ASSUME NEW j \in Jobs, JobStep(j) PROVE BudgetInv'
  <2>1. CASE AssertUncapped(j)
    BY <2>1, ThrownKeeps DEF AssertUncapped
  <2>2. CASE CountFails(j)
    BY <2>2, ThrownKeeps DEF CountFails
  <2>3. CASE CallFails(j)
    BY <2>3, ThrownKeeps DEF CallFails
  <2>4. CASE Assert(j) \/ Count(j) \/ CountArrives(j) \/ CommandTimesOut(j)
    BY <2>4, AssertKeeps, CountKeeps, CountArrivesKeeps, CommandTimesOutKeeps
  <2>5. CASE Pay(j) \/ Record(j)
    BY <2>5, PayKeeps, RecordKeeps
  <2> QED
    BY <1>2, <2>1, <2>2, <2>3, <2>4, <2>5 DEF JobStep
<1>3. CASE Expires
  <2>1. cache' \in Totals /\ wire' \in Seq(Commands)
    BY <1>3, StoreTyped, Beginnings DEF Expires
  <2> QED
    BY <1>3, <2>1, StoreKeeps DEF Expires
<1>4. CASE RedisAnswers \/ PeriodEnds \/ Redeploy
  BY <1>4, RedisAnswersKeeps, PeriodEndsKeeps, RedeployKeeps
<1> QED
  BY <1>1, <1>2, <1>3, <1>4 DEF Next

LEMMA BudgetInvAlways == SafetySpec => []BudgetInv
  BY BudgetInvInit, BudgetInvStep, PTL DEF SafetySpec

-----------------------------------------------------------------------------
(* What the fuse is for *)

\* cachedSpend (budget.ts) takes a total for granted only while it is
\* comfortable under the cap of today: whatever is late on the wire, expires,
\* times out or is deployed meanwhile, no call is cleared close to the cap and
\* none is refused on a total that misses what was recorded before its check.
THEOREM CloseAnswersAlwaysCurrent == SafetySpec => []CloseAnswersAreCurrent
<1>1. BudgetInv => CloseAnswersAreCurrent
  BY DEF BudgetInv, AnswerOf, CurrentOf, CloseAnswersAreCurrent
<1> QED
  BY BudgetInvAlways, <1>1, PTL

\* Without a cache assertWithinBudget lets a call through only below the cap,
\* and toCostUsdColumn rounds up: the journal passes the highest cap by less
\* than what the calls of all jobs may cost, and never by less than was paid.
THEOREM OvershootAlwaysBounded == SafetySpec => OvershootBounded
<1> DEFINE Within == ~hasCache => journal < Max(Caps) + Cardinality(Jobs) * ToColumn(Max(Costs))
           Told == \A j \in Jobs : Record(j) => (journal' - journal) * Scale >= cost[j]
<1>1. BudgetInv => Within
  <2> SUFFICES ASSUME BudgetInv, ~hasCache PROVE journal < Limit
    BY DEF Limit, Most
  <2>1. journal + Cardinality(UnderWay) * Most < Limit /\ journal \in Nat /\ cap \in Caps
    BY DEF BudgetInv, PurseInv, TypeOK, StoreTypeOK
  <2>2. Cardinality(UnderWay) \in Nat /\ Most \in Nat
    BY Counted, Prices DEF UnderWay
  <2>3. 0 \in Nat /\ 0 <= Cardinality(UnderWay) /\ cap \in Caps
    BY <2>1, <2>2
  <2>4. journal + 0 * Most < Limit
    BY <2>1, <2>2, <2>3, Reserve
  <2> QED
    BY <2>1, <2>2, <2>4
<1>2. BudgetInv => Told
  <2> SUFFICES ASSUME BudgetInv, NEW j \in Jobs, Record(j)
               PROVE  (journal' - journal) * Scale >= cost[j]
    OBVIOUS
  <2>1. journal' = journal + ToColumn(cost[j]) /\ journal \in Nat /\ cost[j] \in Nat
    BY JobTyped DEF Record
  <2>2. ToColumn(cost[j]) \in Nat /\ ToColumn(cost[j]) * Scale >= cost[j]
    BY <2>1, ColumnRoundsUp
  <2>3. journal' - journal = ToColumn(cost[j])
    BY <2>1, <2>2
  <2> QED
    BY <2>2, <2>3
<1>3. SafetySpec => []Within
  <2> HIDE DEF Within
  <2> QED
    BY <1>1, BudgetInvAlways, PTL
<1>4. SafetySpec => [][Told]_vars
  <2> HIDE DEF Told
  <2> QED
    BY <1>2, BudgetInvAlways, PTL DEF SafetySpec
<1> QED
  BY <1>3, <1>4 DEF OvershootBounded
=============================================================================
