----------------------------- MODULE QueueProofs ------------------------------
(***************************************************************************)
(* That the queue factory keeps its promises for any number of names,      *)
(* readers and Queue objects, whenever init() settles, a close hangs or a  *)
(* bounded wait runs out; and, below, that the smoke command, the process  *)
(* that proves a queue by a job, leaves with 0 only when it did.           *)
(*                                                                         *)
(* The factory's invariant adds to its three promises where every object   *)
(* is: in the cache, with the ones being forgotten, among those the close  *)
(* waits for, or closed; and what a step of close may rely on about the    *)
(* others.                                                                 *)
(***************************************************************************)
EXTENDS QueueFactory, SmokeRun, TLAPS

Verdicts == {"pending", "ready", "refused"}
Lives == {"open", "closing", "closed"}
Schedulers == {"none", "asked", "there", "late", "closing", "closed"}
Errs == {"init", "other"}
Lines == {"init refused", "init as error", "other error"}
Objects == [name : Names, verdict : Verdicts, life : Lives,
            scheduler : Schedulers, timers : SUBSET Errs, lines : SUBSET Lines]

TypeOK ==
  /\ queue \in Seq(Objects)
  /\ cache \in [Names -> DOMAIN queue \cup {NoQueue}]
  /\ reading \in [Readers -> DOMAIN queue \cup {NoQueue}]
  /\ forgotten \subseteq DOMAIN queue
  /\ closing \in {"no", "reads", "queues", "over"}

\* An object by itself: its scheduler goes with it, and what its refused
\* init() has led to.
Sound(o) ==
  /\ o.life # "open" => o.scheduler # "there"
  /\ o.life = "closed" => o.scheduler # "closing"
  /\ "init" \in o.timers => o.verdict = "refused"
  /\ "init as error" \notin o.lines
  /\ "init refused" \in o.lines => o.name \in refusalWritten

AllSound == \A i \in DOMAIN queue : Sound(queue[i])

Cached == {cache[n] : n \in Names} \ {NoQueue}

\* Where the objects are before and after the close has read the cache.
Accounted ==
  IF closing \in {"no", "reads"}
  THEN \A i \in DOMAIN queue : i \in Cached \/ i \in forgotten \/ queue[i].life = "closed"
  ELSE /\ Cached = {}
       /\ forgotten \subseteq forgetting
       /\ \A i \in DOMAIN queue : i \in awaited \/ i \in forgotten \/ queue[i].life = "closed"

ClosePhases ==
  /\ closing = "reads" => ReadsInFlight \subseteq awaited
  /\ ~marked <=> closing = "over"

FactoryInv ==
  /\ TypeOK /\ InUseIsOpen /\ NoQueueLeft /\ InitToldOnce
  /\ AllSound /\ Accounted /\ ClosePhases

LEMMA FactoryInvInit == Init => FactoryInv
  BY DEF Init, FactoryInv, TypeOK, InUseIsOpen, NoQueueLeft, InitToldOnce, Accounted,
         Cached, ClosePhases, ReadsInFlight, NoQueue, AllSound

\* What a step gives that changes one object.
LEMMA OneChanges ==
  ASSUME TypeOK, NEW i \in DOMAIN queue, NEW state \in Objects, Set(i, state)
  PROVE  /\ queue' \in Seq(Objects)
         /\ DOMAIN queue' = DOMAIN queue
         /\ queue'[i] = state
         /\ \A j \in DOMAIN queue : j # i => queue'[j] = queue[j]
  BY DEF TypeOK, Set

\* What holds of the objects alone.
LEMMA ObjectsStay ==
  ASSUME FactoryInv, UNCHANGED <<queue, cache, refusalWritten>>
  PROVE  AllSound' /\ InitToldOnce' /\ Cached' = Cached
<1>1. AllSound'
  BY DEF FactoryInv, AllSound, Sound
<1>2. InitToldOnce'
  BY DEF FactoryInv, InitToldOnce
<1>3. Cached' = Cached
  BY DEF Cached
<1> QED
  BY <1>1, <1>2, <1>3

\* An object whose life and name stay, and whose init() is not refused by this
\* step, may change in its scheduler, its timers and the lines of other errors.
LEMMA QuietChange ==
  ASSUME FactoryInv, OnlyQueue,
         NEW i \in DOMAIN queue, NEW state \in Objects, Set(i, state),
         state.name = queue[i].name, state.life = queue[i].life,
         state.verdict = "refused" <=> queue[i].verdict = "refused",
         "init refused" \in state.lines <=> "init refused" \in queue[i].lines,
         Sound(state)
  PROVE  FactoryInv'
<1> USE DEF FactoryInv
<1>1. /\ queue' \in Seq(Objects) /\ DOMAIN queue' = DOMAIN queue /\ queue'[i] = state
      /\ \A j \in DOMAIN queue : j # i => queue'[j] = queue[j]
  BY OneChanges
<1>2. \A j \in DOMAIN queue :
        /\ queue'[j].name = queue[j].name /\ queue'[j].life = queue[j].life
        /\ queue'[j].verdict = "refused" <=> queue[j].verdict = "refused"
        /\ "init refused" \in queue'[j].lines <=> "init refused" \in queue[j].lines
  BY <1>1
<1>3. UNCHANGED <<cache, refusalWritten, reading, forgotten, closeVars>>
  BY DEF OnlyQueue
<1>4. TypeOK'
  BY <1>1, <1>3 DEF TypeOK, closeVars
<1>5. AllSound'
  BY <1>1, <1>3, ZenonT(60) DEF AllSound, Sound
<1>6. InUseIsOpen'
  BY <1>1, <1>2, <1>3, ZenonT(60) DEF InUseIsOpen, TypeOK, closeVars
<1>7. NoQueueLeft'
  <2>1. \A j \in DOMAIN queue' :
          queue'[j].life = "closed" => queue'[j].scheduler \notin {"there", "closing"}
    BY <1>5 DEF AllSound, Sound
  <2> QED
    BY <1>1, <1>2, <1>3, <2>1 DEF NoQueueLeft, closeVars
<1>8. InitToldOnce'
  <2>1. \A j \in DOMAIN queue' : "init as error" \notin queue'[j].lines
    BY <1>5 DEF AllSound, Sound
  <2>2. \A j, k \in DOMAIN queue' :
          queue'[j].name = queue'[k].name
            /\ "init refused" \in queue'[j].lines /\ "init refused" \in queue'[k].lines
          => j = k
    BY <1>1, <1>2 DEF InitToldOnce
  <2> QED
    BY <2>1, <2>2 DEF InitToldOnce
<1>9. Accounted' /\ ClosePhases'
  BY <1>1, <1>2, <1>3, ZenonT(60) DEF Accounted, Cached, ClosePhases, ReadsInFlight, closeVars
<1> QED
  BY <1>4, <1>5, <1>6, <1>7, <1>8, <1>9

-----------------------------------------------------------------------------
(* The steps, one lemma for each part of the factory *)

\* What get does: the reader's step and the writer's share it.
LEMMA GetKeeps ==
  ASSUME FactoryInv, NEW n \in Names, Get(n),
         UNCHANGED <<refusalWritten, forgotten, closeVars>>,
         \/ UNCHANGED reading
         \/ \E r \in Readers : reading' = [reading EXCEPT ![r] = cache'[n]]
  PROVE  FactoryInv'
<1> USE DEF FactoryInv, HandsOut, closed
<1>1. closing = "no" /\ closing' = "no" /\ marked' = marked /\ expired' = expired
  BY DEF Get, closeVars
<1>2. CASE cache[n] # NoQueue /\ UNCHANGED <<queue, cache>>
  <2>1. cache[n] \in DOMAIN queue /\ queue[cache[n]].life = "open"
    BY <1>2 DEF TypeOK, InUseIsOpen
  <2>2. TypeOK'
    BY <1>1, <1>2, <2>1 DEF TypeOK
  <2>3. InUseIsOpen'
    BY <1>1, <1>2, <2>1 DEF InUseIsOpen, TypeOK
  <2>4. NoQueueLeft' /\ InitToldOnce' /\ AllSound'
    BY <1>1, <1>2 DEF NoQueueLeft, InitToldOnce, AllSound, Sound
  <2>5. Accounted' /\ ClosePhases'
    BY <1>1, <1>2 DEF Accounted, Cached, ClosePhases
  <2> QED
    BY <2>2, <2>3, <2>4, <2>5
<1>3. CASE /\ cache[n] = NoQueue
           /\ queue' = Append(queue, Fresh(n))
           /\ cache' = [cache EXCEPT ![n] = Len(queue) + 1]
  <2> DEFINE new == Len(queue) + 1
  <2>1. /\ queue' \in Seq(Objects) /\ DOMAIN queue' = DOMAIN queue \cup {new}
        /\ new \notin DOMAIN queue /\ queue'[new] = Fresh(n) /\ new # NoQueue
        /\ \A j \in DOMAIN queue : queue'[j] = queue[j]
    BY <1>3 DEF TypeOK, Fresh, Objects, Verdicts, Lives, Schedulers, NoQueue
  <2>2. cache'[n] = new /\ \A m \in Names \ {n} : cache'[m] = cache[m]
    BY <1>3 DEF TypeOK
  <2> HIDE DEF new
  <2>0. /\ queue'[new].lines = {} /\ queue'[new].timers = {} /\ queue'[new].life = "open"
        /\ "init" \notin queue'[new].timers /\ "init as error" \notin queue'[new].lines
        /\ "init refused" \notin queue'[new].lines
    <3>1. Fresh(n).lines = {} /\ Fresh(n).timers = {} /\ Fresh(n).life = "open"
      BY DEF Fresh
    <3> QED
      BY <2>1, <3>1
  <2>3. TypeOK'
    BY <1>1, <1>3, <2>1, <2>2 DEF TypeOK
  <2>4. InUseIsOpen'
    <3>1. \A m \in Names : cache'[m] # NoQueue =>
            /\ queue'[cache'[m]].name = m
            /\ queue'[cache'[m]].verdict # "refused"
            /\ queue'[cache'[m]].life = "open"
      BY <2>1, <2>2 DEF InUseIsOpen, TypeOK, Fresh
    <3>2. \A r \in Readers : reading'[r] = new \/ reading'[r] = reading[r]
      BY <2>2 DEF TypeOK
    <3>3. \A r \in Readers : reading'[r] # NoQueue =>
            (queue'[reading'[r]].life # "open" =>
               queue'[reading'[r]].verdict = "refused" \/ "reads" \in expired')
      BY <1>1, <2>1, <3>2 DEF InUseIsOpen, TypeOK, Fresh
    <3> QED
      BY <3>1, <3>3 DEF InUseIsOpen
  <2>5. NoQueueLeft'
    BY <1>1, <2>1 DEF NoQueueLeft, ClosePhases, Fresh
  <2>6. InitToldOnce'
    <3>1. \A j \in DOMAIN queue' : "init as error" \notin queue'[j].lines
      BY <2>0, <2>1 DEF InitToldOnce
    <3>2. \A j, k \in DOMAIN queue' :
            queue'[j].name = queue'[k].name
              /\ "init refused" \in queue'[j].lines /\ "init refused" \in queue'[k].lines
            => j = k
      BY <2>0, <2>1 DEF InitToldOnce
    <3> QED
      BY <3>1, <3>2 DEF InitToldOnce
  <2>7. AllSound'
    BY <2>0, <2>1 DEF AllSound, Sound
  <2>8. Accounted' /\ ClosePhases'
    <3>1. new \in Cached' /\ Cached \subseteq Cached'
      BY <1>3, <2>1, <2>2 DEF Cached, TypeOK
    <3> QED
      BY <1>1, <2>1, <3>1 DEF Accounted, ClosePhases
  <2> QED
    BY <2>3, <2>4, <2>5, <2>6, <2>7, <2>8
<1> QED
  BY <1>2, <1>3 DEF Get

\* A refusal: the object is forgotten when it is the one of its name.
LEMMA RefusalKeeps ==
  ASSUME FactoryInv, NEW i \in DOMAIN queue, NEW defect \in BOOLEAN,
         InitRefused(i, defect)
  PROVE  FactoryInv'
<1> USE DEF FactoryInv
<1> DEFINE name == queue[i].name
           written == WritesRefusal(i, defect)
           known == [queue[i] EXCEPT
                       !.verdict = "refused",
                       !.timers = @ \cup {"init"},
                       !.lines = IF written THEN @ \cup {"init refused"} ELSE @]
           mine == cache[name] = i
           state == IF mine THEN Closing(known) ELSE known
<1>1. /\ queue[i] \in Objects /\ name \in Names /\ queue[i].verdict = "pending"
      /\ Set(i, state) /\ UNCHANGED <<reading, closeVars>>
      /\ refusalWritten' = IF written THEN refusalWritten \cup {name} ELSE refusalWritten
      /\ cache' = IF mine THEN [cache EXCEPT ![name] = NoQueue] ELSE cache
      /\ forgotten' = IF mine THEN forgotten \cup {i} ELSE forgotten
  <2>0. queue[i] \in Objects
    BY DEF TypeOK
  <2>1. queue[i] \in Objects /\ name \in Names
    BY <2>0 DEF Objects
  <2>2. CASE mine
    BY <2>1, <2>2 DEF InitRefused
  <2>3. CASE ~mine
    BY <2>1, <2>3 DEF InitRefused
  <2> QED
    BY <2>2, <2>3
<1>2. /\ known \in Objects /\ known.name = name /\ known.verdict = "refused"
      /\ known.life = queue[i].life /\ known.scheduler = queue[i].scheduler
      /\ known.lines = IF written THEN queue[i].lines \cup {"init refused"}
                                  ELSE queue[i].lines
  BY <1>1 DEF Objects, Verdicts, Errs, Lines
<1> HIDE DEF known
<1>3. /\ state \in Objects /\ state.name = name /\ state.verdict = "refused"
      /\ state.lines = known.lines
      /\ state.life = IF mine THEN "closing" ELSE queue[i].life
      /\ mine => state.scheduler # "there"
      /\ ~mine => state.scheduler = queue[i].scheduler
  BY <1>2 DEF Closing, Objects, Lives, Schedulers
<1>4. mine => queue[i].life = "open" /\ i # NoQueue
  BY <1>1 DEF InUseIsOpen, TypeOK, NoQueue
<1> HIDE DEF state, mine
<1>5. /\ queue' \in Seq(Objects) /\ DOMAIN queue' = DOMAIN queue /\ queue'[i] = state
      /\ \A j \in DOMAIN queue : j # i => queue'[j] = queue[j]
  BY <1>1, <1>3, OneChanges
<1>6. /\ \A m \in Names : \/ cache'[m] = cache[m] /\ cache'[m] # i
                          \/ cache'[m] = NoQueue
      /\ cache' \in [Names -> DOMAIN queue \cup {NoQueue}]
      /\ \A m \in Names : cache[m] # i => cache'[m] = cache[m]
  BY <1>1, <1>4 DEF TypeOK, InUseIsOpen, mine, NoQueue
<1>7. TypeOK'
  BY <1>1, <1>5, <1>6 DEF TypeOK, closeVars
<1>8. AllSound'
  <2>1. \A j \in DOMAIN queue : j # i => Sound(queue[j])'
    BY <1>1, <1>5 DEF AllSound, Sound
  <2>2. /\ state.life # "open" => state.scheduler # "there"
        /\ state.life = "closed" => state.scheduler # "closing"
    BY <1>3 DEF AllSound, Sound
  <2>3. "init as error" \notin state.lines
    <3>1. "init as error" \notin queue[i].lines
      BY DEF AllSound, Sound
    <3>2. state.lines \subseteq queue[i].lines \cup {"init refused"}
      BY <1>2, <1>3
    <3> QED
      BY <3>1, <3>2
  <2>4. "init refused" \in state.lines => name \in refusalWritten'
    BY <1>1, <1>2, <1>3 DEF AllSound, Sound
  <2>5. Sound(queue[i])'
    BY <1>3, <1>5, <2>2, <2>3, <2>4 DEF Sound
  <2> QED
    BY <1>5, <2>1, <2>5 DEF AllSound
<1>9. InUseIsOpen'
  <2>1. \A m \in Names : cache'[m] # NoQueue =>
          /\ queue'[cache'[m]].name = m
          /\ queue'[cache'[m]].verdict # "refused"
          /\ queue'[cache'[m]].life = "open"
    BY <1>5, <1>6 DEF InUseIsOpen, TypeOK
  <2>2. \A r \in Readers : reading'[r] # NoQueue =>
          (queue'[reading'[r]].life # "open" =>
             queue'[reading'[r]].verdict = "refused" \/ "reads" \in expired')
    BY <1>1, <1>3, <1>5 DEF InUseIsOpen, TypeOK, closeVars
  <2> QED
    BY <2>1, <2>2 DEF InUseIsOpen
<1>10. ClosePhases'
  BY <1>1 DEF ClosePhases, ReadsInFlight, closeVars
<1>11. NoQueueLeft'
  <2>1. \A j \in DOMAIN queue' :
          queue'[j].life = "closed" => queue'[j].scheduler \notin {"there", "closing"}
    BY <1>8 DEF AllSound, Sound
  <2>2. \A j \in DOMAIN queue : queue[j].life = "closed" => queue'[j].life = "closed"
    BY <1>3, <1>4, <1>5
  <2> QED
    BY <1>1, <1>5, <2>1, <2>2 DEF NoQueueLeft, closeVars
<1>12. InitToldOnce'
  <2>1. \A j \in DOMAIN queue' : "init as error" \notin queue'[j].lines
    BY <1>8 DEF AllSound, Sound
  <2>2. written => \A j \in DOMAIN queue :
          queue[j].name = name => "init refused" \notin queue[j].lines
    BY DEF WritesRefusal, AllSound, Sound
  <2>3. \A j \in DOMAIN queue : j # i /\ queue[j].name = name =>
          ~ ("init refused" \in queue[j].lines /\ "init refused" \in state.lines)
    BY <1>2, <1>3, <2>2 DEF InitToldOnce
  <2>4. \A j, k \in DOMAIN queue' :
          queue'[j].name = queue'[k].name
            /\ "init refused" \in queue'[j].lines /\ "init refused" \in queue'[k].lines
          => j = k
    <3> HIDE DEF name, written
    <3> QED
      BY <1>3, <1>5, <2>3 DEF InitToldOnce
  <2> QED
    BY <2>1, <2>4 DEF InitToldOnce
<1>13. Accounted'
  <2>1. Cached' \subseteq Cached /\ Cached \subseteq Cached' \cup {i}
    BY <1>6 DEF Cached, TypeOK
  <2>2. closing \notin {"no", "reads"} => ~mine
    BY <1>1, <1>4 DEF Accounted, Cached, mine
  <2>3. ~mine => i \notin Cached
    BY <1>1 DEF mine, Cached, InUseIsOpen
  <2>4. \A j \in DOMAIN queue : queue[j].life = "closed" => queue'[j].life = "closed"
    BY <1>3, <1>4, <1>5
  <2> QED
    BY <1>1, <1>5, <2>1, <2>2, <2>3, <2>4 DEF Accounted, closeVars
<1> QED
  BY <1>7, <1>8, <1>9, <1>10, <1>11, <1>12, <1>13

\* A queue that closes was being closed: no scheduler of it is left behind.
LEMMA ClosedKeeps ==
  ASSUME FactoryInv, NEW i \in DOMAIN queue, QueueCloses(i)
  PROVE  FactoryInv'
<1> USE DEF FactoryInv
<1> DEFINE state == [queue[i] EXCEPT !.life = "closed"]
<1>1. queue[i] \in Objects
  BY DEF TypeOK
<1>2. /\ state \in Objects /\ state.name = queue[i].name
      /\ state.verdict = queue[i].verdict /\ state.life = "closed"
      /\ state.scheduler = queue[i].scheduler /\ state.timers = queue[i].timers
      /\ state.lines = queue[i].lines
  BY <1>1 DEF Objects, Lives
<1>3. /\ Set(i, state) /\ queue[i].life = "closing" /\ queue[i].scheduler # "closing"
      /\ forgotten' = forgotten \ {i}
      /\ UNCHANGED <<cache, refusalWritten, reading, closeVars>>
  BY DEF QueueCloses
<1> HIDE DEF state
<1>4. /\ queue' \in Seq(Objects) /\ DOMAIN queue' = DOMAIN queue /\ queue'[i] = state
      /\ \A j \in DOMAIN queue : j # i => queue'[j] = queue[j]
  BY <1>2, <1>3, OneChanges
<1>5. TypeOK'
  BY <1>3, <1>4 DEF TypeOK, closeVars
<1>6. AllSound'
  <2>1. \A j \in DOMAIN queue : j # i => Sound(queue[j])'
    BY <1>3, <1>4 DEF AllSound, Sound
  <2>2. Sound(queue[i])'
    BY <1>2, <1>3, <1>4 DEF AllSound, Sound
  <2> QED
    BY <1>4, <2>1, <2>2 DEF AllSound
<1>7. InUseIsOpen'
  <2>1. \A n \in Names : cache[n] # i
    BY <1>3 DEF InUseIsOpen, NoQueue, TypeOK
  <2> QED
    BY <1>2, <1>3, <1>4, <2>1 DEF InUseIsOpen, TypeOK, closeVars
<1>8. NoQueueLeft'
  BY <1>2, <1>3, <1>4 DEF NoQueueLeft, AllSound, Sound, closeVars
<1>9. InitToldOnce'
  <2>1. \A j \in DOMAIN queue :
          queue'[j].name = queue[j].name /\ queue'[j].lines = queue[j].lines
    BY <1>2, <1>4
  <2> QED
    BY <1>4, <2>1 DEF InitToldOnce
<1>10. Accounted'
  <2>1. Cached' = Cached
    BY <1>3 DEF Cached
  <2> QED
    BY <1>2, <1>3, <1>4, <2>1 DEF Accounted, closeVars
<1>11. ClosePhases'
  BY <1>3 DEF ClosePhases, ReadsInFlight, closeVars
<1> QED
  BY <1>5, <1>6, <1>7, <1>8, <1>9, <1>10, <1>11

\* The cached queues are closed in one go, once no read runs on one of them.
LEMMA CloseCachedKeeps ==
  ASSUME FactoryInv, CloseCached
  PROVE  FactoryInv'
<1> USE DEF FactoryInv
<1>1. /\ closing = "reads" /\ closing' = "queues" /\ awaited' = Cached
      /\ "reads" \in expired \/ \A r \in Readers : reading[r] = NoQueue
      /\ queue' = [i \in DOMAIN queue |->
                     IF i \in Cached THEN Closing(queue[i]) ELSE queue[i]]
      /\ cache' = [n \in Names |-> NoQueue] /\ forgetting' = forgotten
      /\ UNCHANGED <<refusalWritten, reading, forgotten, expired, marked>>
  BY DEF CloseCached, Cached, ClosePhases, ReadsInFlight
<1>2. /\ \A i \in DOMAIN queue : queue[i] \in Objects
      /\ \A i \in Cached : i \in DOMAIN queue /\ queue[i].life = "open"
  BY DEF TypeOK, Cached, InUseIsOpen
<1>3. \A i \in DOMAIN queue :
        /\ queue'[i] \in Objects /\ queue'[i].name = queue[i].name
        /\ queue'[i].verdict = queue[i].verdict
        /\ queue'[i].timers = queue[i].timers /\ queue'[i].lines = queue[i].lines
        /\ i \notin Cached => queue'[i] = queue[i]
        /\ i \in Cached => queue'[i].life = "closing" /\ queue'[i].scheduler # "there"
  BY <1>1, <1>2 DEF Closing, Objects, Lives, Schedulers
<1>4. DOMAIN queue' = DOMAIN queue /\ queue' \in Seq(Objects)
  <2>1. DOMAIN queue = 1 .. Len(queue) /\ Len(queue) \in Nat
    BY DEF TypeOK
  <2>2. queue' \in [1 .. Len(queue) -> Objects]
    BY <1>1, <1>3, <2>1
  <2> QED
    BY <2>1, <2>2
<1>5. TypeOK'
  BY <1>1, <1>4 DEF TypeOK
<1>6. AllSound'
  <2>1. ASSUME NEW i \in DOMAIN queue PROVE Sound(queue[i])'
    <3>1. Sound(queue[i]) /\ UNCHANGED refusalWritten
      BY <1>1 DEF AllSound
    <3>2. CASE i \in Cached
      BY <1>3, <3>1, <3>2 DEF Sound
    <3>3. CASE i \notin Cached
      BY <1>3, <3>1, <3>3 DEF Sound
    <3> QED
      BY <3>2, <3>3
  <2> QED
    BY <1>4, <2>1 DEF AllSound
<1>7. InUseIsOpen'
  BY <1>1, <1>3 DEF InUseIsOpen, TypeOK
<1>8. NoQueueLeft'
  BY <1>1, <1>4, <1>6 DEF NoQueueLeft, AllSound, Sound, ClosePhases
<1>9. InitToldOnce'
  BY <1>3, <1>4 DEF InitToldOnce
<1>10. Accounted' /\ ClosePhases'
  BY <1>1, <1>3, <1>4 DEF Accounted, Cached, ClosePhases
<1> QED
  BY <1>5, <1>6, <1>7, <1>8, <1>9, <1>10

LEMMA CloseEndsKeeps ==
  ASSUME FactoryInv, CloseEnds
  PROVE  FactoryInv'
<1> USE DEF FactoryInv
<1>1. UNCHANGED <<queue, cache, refusalWritten, reading, forgotten, expired>>
  BY DEF CloseEnds
<1>2. AllSound' /\ InitToldOnce' /\ Cached' = Cached
  BY <1>1, ObjectsStay
<1>6. TypeOK' /\ Accounted' /\ ClosePhases'
  BY <1>1, <1>2 DEF CloseEnds, TypeOK, Accounted, ClosePhases
<1>3. InUseIsOpen'
  BY <1>1 DEF InUseIsOpen
<1>4. \A i \in DOMAIN queue :
        queue[i].life = "closed" \/ (i \in forgotten /\ "forgotten" \in expired)
  BY DEF CloseEnds, Accounted
<1>5. NoQueueLeft'
  BY <1>1, <1>4 DEF NoQueueLeft
<1> QED
  BY <1>2, <1>3, <1>5, <1>6

LEMMA FactoryInvStep == FactoryInv /\ [Next]_vars => FactoryInv'
<1> SUFFICES ASSUME FactoryInv, [Next]_vars PROVE FactoryInv'
  OBVIOUS
<1>0. \A i \in DOMAIN queue : queue[i] \in Objects /\ Sound(queue[i])
  BY DEF FactoryInv, TypeOK, AllSound
<1>1. CASE UNCHANGED vars
  <2>1. AllSound' /\ InitToldOnce' /\ Cached' = Cached
    BY <1>1, ObjectsStay DEF vars, closeVars
  <2>2. TypeOK' /\ InUseIsOpen'
    BY <1>1 DEF vars, closeVars, FactoryInv, TypeOK, InUseIsOpen
  <2>3. NoQueueLeft'
    BY <1>1 DEF vars, closeVars, FactoryInv, NoQueueLeft
  <2>4. Accounted' /\ ClosePhases'
    BY <1>1, <2>1 DEF vars, closeVars, FactoryInv, Accounted, ClosePhases, ReadsInFlight
  <2> QED
    BY <2>1, <2>2, <2>3, <2>4 DEF FactoryInv
<1>2. ASSUME NEW n \in Names, GetForWrite(n) PROVE FactoryInv'
  BY <1>2, GetKeeps DEF GetForWrite
<1>3. ASSUME NEW r \in Readers, NEW n \in Names, Use(r, n) PROVE FactoryInv'
  BY <1>3, GetKeeps DEF Use
<1>4. ASSUME NEW r \in Readers, ReadEnds(r) PROVE FactoryInv'
  <2>1. AllSound' /\ InitToldOnce' /\ Cached' = Cached
    BY <1>4, ObjectsStay DEF ReadEnds, closeVars
  <2>2. TypeOK' /\ InUseIsOpen'
    BY <1>4 DEF ReadEnds, closeVars, FactoryInv, TypeOK, InUseIsOpen
  <2>3. NoQueueLeft'
    BY <1>4 DEF ReadEnds, closeVars, FactoryInv, NoQueueLeft
  <2>4. Accounted' /\ ClosePhases'
    BY <1>4, <2>1 DEF ReadEnds, closeVars, FactoryInv, Accounted, ClosePhases, ReadsInFlight
  <2> QED
    BY <2>1, <2>2, <2>3, <2>4 DEF FactoryInv
<1>5. ASSUME NEW i \in DOMAIN queue, AskScheduler(i) PROVE FactoryInv'
  <2> DEFINE state == [queue[i] EXCEPT !.scheduler = "asked"]
  <2>1. /\ state \in Objects /\ state.name = queue[i].name /\ state.life = queue[i].life
        /\ state.verdict = queue[i].verdict /\ state.lines = queue[i].lines
        /\ Sound(state)
    BY <1>0 DEF Objects, Schedulers, Sound
  <2> QED
    BY <1>5, <2>1, QuietChange DEF AskScheduler
<1>6. ASSUME NEW i \in DOMAIN queue, SchedulerComes(i) PROVE FactoryInv'
  <2> DEFINE state == [queue[i] EXCEPT !.scheduler =
                         IF queue[i].life = "open" THEN "there" ELSE "late"]
  <2>1. /\ state \in Objects /\ state.name = queue[i].name /\ state.life = queue[i].life
        /\ state.verdict = queue[i].verdict /\ state.lines = queue[i].lines
        /\ Sound(state)
    BY <1>0 DEF Objects, Schedulers, Sound
  <2> QED
    BY <1>6, <2>1, QuietChange DEF SchedulerComes
<1>7. ASSUME NEW i \in DOMAIN queue, SchedulerCloses(i) PROVE FactoryInv'
  <2> DEFINE state == [queue[i] EXCEPT !.scheduler = "closed"]
  <2>1. /\ state \in Objects /\ state.name = queue[i].name /\ state.life = queue[i].life
        /\ state.verdict = queue[i].verdict /\ state.lines = queue[i].lines
        /\ Sound(state)
    BY <1>0 DEF Objects, Schedulers, Sound
  <2> QED
    BY <1>7, <2>1, QuietChange DEF SchedulerCloses
<1>8. ASSUME NEW i \in DOMAIN queue, InitReady(i) PROVE FactoryInv'
  <2> DEFINE state == [queue[i] EXCEPT !.verdict = "ready"]
  <2>1. /\ state \in Objects /\ state.name = queue[i].name /\ state.life = queue[i].life
        /\ state.verdict = "ready" /\ state.lines = queue[i].lines
        /\ Sound(state)
    BY <1>0, <1>8 DEF Objects, Verdicts, Sound, InitReady
  <2> QED
    BY <1>8, <2>1, QuietChange DEF InitReady
<1>9. ASSUME NEW i \in DOMAIN queue, QueueErrs(i) PROVE FactoryInv'
  <2> DEFINE state == IF queue[i].verdict = "pending"
                      THEN [queue[i] EXCEPT !.timers = @ \cup {"other"}]
                      ELSE WriteQueueError(queue[i], "other")
  <2>1. /\ state \in Objects /\ state.name = queue[i].name /\ state.life = queue[i].life
        /\ state.verdict = queue[i].verdict
        /\ "init refused" \in state.lines <=> "init refused" \in queue[i].lines
        /\ Sound(state)
    BY <1>0 DEF Objects, Errs, Lines, Sound, WriteQueueError
  <2> QED
    BY <1>9, <2>1, QuietChange DEF QueueErrs
<1>10. ASSUME NEW i \in DOMAIN queue, VerdictTimer(i) PROVE FactoryInv'
  <2>1. PICK err \in queue[i].timers :
          Set(i, WriteQueueError([queue[i] EXCEPT !.timers = @ \ {err}], err))
    BY <1>10 DEF VerdictTimer
  <2> DEFINE state == WriteQueueError([queue[i] EXCEPT !.timers = @ \ {err}], err)
  <2>2. err = "init" => queue[i].verdict = "refused"
    BY <1>0 DEF Sound
  <2>3. /\ state \in Objects /\ state.name = queue[i].name /\ state.life = queue[i].life
        /\ state.verdict = queue[i].verdict
        /\ "init refused" \in state.lines <=> "init refused" \in queue[i].lines
        /\ Sound(state)
    BY <1>0, <2>2 DEF Objects, Errs, Lines, Sound, WriteQueueError
  <2> QED
    BY <1>10, <2>1, <2>3, QuietChange DEF VerdictTimer
<1>11. CASE Close
  <2>1. AllSound' /\ InitToldOnce' /\ Cached' = Cached
    BY <1>11, ObjectsStay DEF Close
  <2>2. TypeOK' /\ InUseIsOpen'
    BY <1>11 DEF Close, FactoryInv, TypeOK, InUseIsOpen
  <2>3. NoQueueLeft'
    BY <1>11 DEF Close, FactoryInv, NoQueueLeft
  <2>4. Accounted' /\ ClosePhases'
    BY <1>11, <2>1 DEF Close, FactoryInv, Accounted, ClosePhases, ReadsInFlight
  <2> QED
    BY <2>1, <2>2, <2>3, <2>4 DEF FactoryInv
<1>12. ASSUME NEW wait \in {"reads", "forgotten"}, WaitExpires(wait) PROVE FactoryInv'
  <2>1. AllSound' /\ InitToldOnce' /\ Cached' = Cached
    BY <1>12, ObjectsStay DEF WaitExpires
  <2>2. TypeOK' /\ InUseIsOpen'
    BY <1>12 DEF WaitExpires, FactoryInv, TypeOK, InUseIsOpen
  <2>3. NoQueueLeft'
    BY <1>12 DEF WaitExpires, FactoryInv, NoQueueLeft
  <2>4. Accounted' /\ ClosePhases'
    BY <1>12, <2>1 DEF WaitExpires, FactoryInv, Accounted, ClosePhases, ReadsInFlight
  <2> QED
    BY <2>1, <2>2, <2>3, <2>4 DEF FactoryInv
<1> QED
  BY <1>1, <1>2, <1>3, <1>4, <1>5, <1>6, <1>7, <1>8, <1>9, <1>10, <1>11, <1>12,
     ClosedKeeps, RefusalKeeps, CloseCachedKeeps, CloseEndsKeeps DEF Next

-----------------------------------------------------------------------------

LEMMA FactoryInvariance == Spec => []FactoryInv
<1>1. Init /\ [][Next]_vars => []FactoryInv
  BY FactoryInvInit, FactoryInvStep, PTL
<1> QED
  BY <1>1, PTL DEF Spec, SafetySpec

(***************************************************************************)
(* get hands out only queues that are open and not known to be refused, and*)
(* none is closed under a read that is within its bounded wait             *)
(* (packages/runtime/src/queues.ts, get, use, forget and close).           *)
(***************************************************************************)
THEOREM InUseAlwaysOpen == Spec => []InUseIsOpen
  BY FactoryInvariance, PTL DEF FactoryInv

(***************************************************************************)
(* Nothing the factory built outlives its close: no scheduler its queue, no*)
(* queue the mark on the client's errors, but for a forgotten one whose    *)
(* close outlived the bounded wait (closeOnce of queues.ts).               *)
(***************************************************************************)
THEOREM NoQueueEverLeft == Spec => []NoQueueLeft
  BY FactoryInvariance, PTL DEF FactoryInv

(***************************************************************************)
(* A refused init() is told once per name, however many objects of the name*)
(* were built, and never again as an error of its queue (writeQueueError). *)
(***************************************************************************)
THEOREM InitAlwaysToldOnce == Spec => []InitToldOnce
  BY FactoryInvariance, PTL DEF FactoryInv

-----------------------------------------------------------------------------
(* The smoke command *)

Outcomes == {"none", "pass", "fail"}

SmokeTypeOK ==
  /\ stopping \in BOOLEAN /\ blamed \in BOOLEAN
  /\ job \in {"none", "waiting", "completed", "failed"}
  /\ over \in BOOLEAN /\ settled \in BOOLEAN /\ ran \in BOOLEAN /\ aborted \in BOOLEAN
  /\ verdictOfRun \in Outcomes /\ outcome \in Outcomes

\* Whoever settles the run has the command know of it, or was told by it; a
\* command that ran without a verdict never had its connections.
KnownInv ==
  /\ settled <=> verdictOfRun # "none"
  /\ settled => over /\ (ran \/ aborted)
  /\ aborted => settled
  /\ ran /\ ~settled => prep = "gone"
  /\ prep = "open" => timer = "unset" /\ ~ran /\ ~aborted
  /\ returned => ran

\* A pass is of a job that completed, and known as soon as it is reached.
PassInv ==
  /\ verdictOfRun = "pass" => outcome = "pass"
  /\ outcome = "pass" => ran /\ ~aborted /\ verdictOfRun = "pass" /\ job = "completed"

\* Only a pass begins a stop without blame, and only such a stop ends with 0.
ZeroInv ==
  /\ stopping /\ ~blamed => outcome = "pass"
  /\ verdict = 0 => outcome = "pass"
  /\ left = NoCode \/ left = verdict

SmokeInv == SmokeTypeOK /\ KnownInv /\ PassInv /\ ZeroInv

LEMMA SmokeInvInit == SmokeInit => SmokeInv
<1>1. NoCode # 0
  BY DEF NoCode
<1> QED
  BY <1>1 DEF SmokeInit, ContractInit, SmokeInv, SmokeTypeOK, Outcomes, KnownInv, PassInv,
              ZeroInv

\* A step of the run that leaves the stop, the interruption and the job alone:
\* it says nothing new, or settles an unsettled run with what the command is
\* told at once.
LEMMA RunKeepsSmokeInv ==
  ASSUME SmokeInv, UNCHANGED <<contractVars, job, returned, aborted>>,
         prep' # "open", prep' = "gone" \/ ~(ran /\ ~settled),
         \/ UNCHANGED <<over, settled, verdictOfRun, outcome, ran>>
         \/ over' = TRUE /\ UNCHANGED <<settled, verdictOfRun, outcome, ran>>
         \/ Finish("fail")
         \/ Finish("pass") /\ job = "completed" /\ ~(ran /\ ~settled)
  PROVE  SmokeInv'
<1> USE DEF SmokeInv, SmokeTypeOK, Outcomes, KnownInv, PassInv, ZeroInv, contractVars
<1>1. CASE UNCHANGED <<over, settled, verdictOfRun, outcome, ran>>
  BY <1>1
<1>2. CASE over' = TRUE /\ UNCHANGED <<settled, verdictOfRun, outcome, ran>>
  BY <1>2
<1>3. CASE Finish("fail")
  BY <1>3 DEF Finish, OnVerdict
<1>4. CASE Finish("pass") /\ job = "completed" /\ ~(ran /\ ~settled)
  BY <1>4 DEF Finish, OnVerdict
<1> QED
  BY <1>1, <1>2, <1>3, <1>4

\* A call of the stop: it carries blame unless the run has passed.
LEMMA CallKeepsZero ==
  ASSUME SmokeInv, NEW failed, ShutdownCalled(failed), failed \in BOOLEAN,
         failed \/ outcome = "pass"
  PROVE  /\ UNCHANGED <<verdict, left>>
         /\ stopping' \in BOOLEAN /\ blamed' \in BOOLEAN
         /\ ~blamed' => outcome = "pass"
  BY DEF SmokeInv, SmokeTypeOK, ShutdownCalled, Learn, Stop

\* What the stop does by itself, whatever the run is doing.
LEMMA PlanKeepsSmokeInv ==
  ASSUME SmokeInv, UNCHANGED <<runVars, commandVars>>,
         \/ Learn /\ UNCHANGED blamed
         \/ Decide /\ UNCHANGED blamed
         \/ Leave
  PROVE  SmokeInv'
<1> USE DEF SmokeInv, SmokeTypeOK, KnownInv, PassInv, ZeroInv, runVars, commandVars
<1>1. CASE Learn /\ UNCHANGED blamed
  BY <1>1 DEF Learn
<1>2. CASE Decide /\ UNCHANGED blamed
  <2>1. verdict' = 0 => ~blamed
    BY <1>2 DEF Decide, Justified
  <2> QED
    BY <1>2, <2>1 DEF Decide
<1>3. CASE Leave
  BY <1>3 DEF Leave
<1> QED
  BY <1>1, <1>2, <1>3

LEMMA SmokeInvStep ==
  ASSUME SmokeInv, [SmokeNext]_smokeVars
  PROVE  /\ SmokeInv'
         /\ verdictOfRun = "none" /\ verdictOfRun' = "pass" => ~over
<1> USE DEF runVars, commandVars
<1>1. CASE UNCHANGED smokeVars
  BY <1>1 DEF smokeVars, contractVars, SmokeInv, SmokeTypeOK, KnownInv, PassInv, ZeroInv
<1>2. CASE Opens \/ EventsReady \/ EnqueueAnswers
  <2>1. ~(ran /\ ~settled)
    BY <1>2 DEF Opens, EventsReady, EnqueueAnswers, SmokeInv, KnownInv
  <2> QED
    BY <1>2, <2>1, RunKeepsSmokeInv DEF Opens, EventsReady, EnqueueAnswers
<1>3. CASE OpeningThrows
  <2>1. outcome # "pass" /\ outcome' = outcome
    BY <1>3 DEF OpeningThrows, SmokeInv, KnownInv, PassInv
  <2>2. /\ UNCHANGED <<verdict, left>>
        /\ stopping' \in BOOLEAN /\ blamed' \in BOOLEAN
        /\ blamed'
    BY <1>3, <2>1, CallKeepsZero DEF OpeningThrows, Failed
  <2> QED
    BY <1>3, <2>1, <2>2
       DEF OpeningThrows, SmokeInv, SmokeTypeOK, KnownInv, PassInv, ZeroInv
<1>4. CASE JobAdded \/ WorkerFinishes \/ RedisTurns
  BY <1>4 DEF JobAdded, WorkerFinishes, RedisTurns, contractVars, SmokeInv, SmokeTypeOK,
              KnownInv, PassInv, ZeroInv
<1>5. CASE EnqueueFails
  <2>1. SmokeInv'
    BY <1>5, RunKeepsSmokeInv DEF EnqueueFails
  <2>2. verdictOfRun' = verdictOfRun \/ verdictOfRun' = "fail"
    BY <1>5 DEF EnqueueFails, Finish
  <2> QED
    BY <2>1, <2>2
<1>6. CASE JobTells
  <2>1. prep' = "watching" /\ ~(ran /\ ~settled)
    BY <1>6 DEF JobTells, SmokeInv, KnownInv
  <2>2. \/ UNCHANGED <<over, settled, verdictOfRun, outcome, ran>>
        \/ ~over /\ Finish("fail")
        \/ ~over /\ Finish("pass") /\ job = "completed"
    BY <1>6 DEF JobTells, FinishByJob
  <2>3. SmokeInv'
    BY <1>6, <2>1, <2>2, RunKeepsSmokeInv DEF JobTells
  <2> QED
    BY <2>2, <2>3
<1>7. CASE DeadlineFires
  <2>1. prep' # "open" /\ (prep' = "gone" \/ ~(ran /\ ~settled))
    BY <1>7 DEF DeadlineFires, SmokeInv, KnownInv
  <2>2. SmokeInv'
    BY <1>7, <2>1, RunKeepsSmokeInv DEF DeadlineFires
  <2> QED
    BY <1>7, <2>2 DEF DeadlineFires
<1>8. CASE QueueAnswers \/ ProbeTimesOut
  <2>1. prep' # "open" /\ (prep' = "gone" \/ ~(ran /\ ~settled))
    BY <1>8 DEF QueueAnswers, ProbeTimesOut, ReasonIsIn, SmokeInv, KnownInv
  <2>2. SmokeInv'
    BY <1>8, <2>1, RunKeepsSmokeInv DEF QueueAnswers, ProbeTimesOut, ReasonIsIn
  <2>3. verdictOfRun' = verdictOfRun \/ verdictOfRun' = "fail"
    BY <1>8 DEF QueueAnswers, ProbeTimesOut, ReasonIsIn, Finish
  <2> QED
    BY <2>2, <2>3
<1>9. CASE Signal
  <2>1. /\ UNCHANGED <<verdict, left>>
        /\ stopping' \in BOOLEAN /\ blamed' \in BOOLEAN
        /\ ~blamed' => outcome = "pass"
    BY <1>9, CallKeepsZero DEF Signal, Failed
  <2>2. prep # "open" /\ UNCHANGED <<job, prep, timer, returned, outcome, ran>>
    BY <1>9 DEF Signal
  <2>3. CASE ran \/ aborted
    <3>1. UNCHANGED <<aborted, over, settled, verdictOfRun>>
      BY <1>9, <2>3 DEF Signal
    <3> QED
      BY <2>1, <2>2, <3>1 DEF SmokeInv, SmokeTypeOK, KnownInv, PassInv, ZeroInv
  <2>4. CASE ~(ran \/ aborted)
    <3>1. ~settled /\ outcome # "pass"
      BY <2>4 DEF SmokeInv, KnownInv, PassInv
    <3>2. aborted' = TRUE /\ settled' = TRUE /\ over' = TRUE /\ verdictOfRun' = "fail"
      BY <1>9, <2>4, <3>1 DEF Signal
    <3> QED
      BY <2>1, <2>2, <3>1, <3>2
         DEF SmokeInv, SmokeTypeOK, Outcomes, KnownInv, PassInv, ZeroInv
  <2> QED
    BY <2>3, <2>4
<1>10. CASE RunReturns
  <2>1. verdictOfRun' = verdictOfRun /\ outcome' = verdictOfRun
    BY <1>10 DEF RunReturns
  <2>2. CASE Speaks
    <3>1. /\ UNCHANGED <<verdict, left>>
          /\ stopping' \in BOOLEAN /\ blamed' \in BOOLEAN
          /\ ~blamed' => outcome = "pass"
      <4>1. ShutdownCalled(verdictOfRun # "pass")
        BY <1>10, <2>2 DEF RunReturns
      <4>2. verdictOfRun # "pass" \/ outcome = "pass"
        BY DEF SmokeInv, PassInv
      <4> QED
        BY <4>1, <4>2, CallKeepsZero
    <3>2. /\ UNCHANGED runVars /\ UNCHANGED aborted
          /\ settled /\ returned' = TRUE /\ ran' = TRUE
      BY <1>10 DEF RunReturns
    <3> QED
      BY <2>1, <3>1, <3>2
         DEF SmokeInv, SmokeTypeOK, KnownInv, PassInv, ZeroInv
  <2>3. CASE ~Speaks
    BY <1>10, <2>1, <2>3
       DEF RunReturns, contractVars, Speaks, SmokeInv, SmokeTypeOK, KnownInv, PassInv, ZeroInv
  <2> QED
    BY <2>2, <2>3
<1>11. CASE StopReleases \/ StopDecides \/ StopLeaves
  <2>1. UNCHANGED <<runVars, commandVars>>
    BY <1>11 DEF StopReleases, StopDecides, StopLeaves
  <2> QED
    BY <1>11, <2>1, PlanKeepsSmokeInv DEF StopReleases, StopDecides, StopLeaves
<1> QED
  BY <1>1, <1>2, <1>3, <1>4, <1>5, <1>6, <1>7, <1>8, <1>9, <1>10, <1>11 DEF SmokeNext

(***************************************************************************)
(* The smoke check leaves with 0 only for a job the worker really finished *)
(* in a run nobody interrupted, before its deadline fired; and a pass is   *)
(* known to the command at once, so that a signal after it neither         *)
(* interrupts nor blames it (smoke-run.ts: runSmoke, runSmokeCommand).     *)
(***************************************************************************)
THEOREM ZeroAlwaysProven == SmokeSpec => ZeroIsProven
<1> DEFINE Zero == left = 0 => job = "completed" /\ outcome = "pass" /\ ~aborted
           Pass == verdictOfRun = "pass" => ~aborted /\ outcome = "pass"
           Late == verdictOfRun = "none" /\ verdictOfRun' = "pass" => ~over
<1>1. SmokeInv => Zero /\ Pass
  BY DEF SmokeInv, PassInv, ZeroInv, NoCode
<1>2. SmokeInv /\ [SmokeNext]_smokeVars => SmokeInv' /\ [Late]_smokeVars
  BY SmokeInvStep
<1> QED
  BY <1>1, <1>2, SmokeInvInit, PTL DEF SmokeSpec, ZeroIsProven
=============================================================================
