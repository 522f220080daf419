--------------------------- MODULE ShutdownProofs ---------------------------
(***************************************************************************)
(* Theorems about Shutdown for every plan, every set of calls and every    *)
(* number of keypresses.                                                   *)
(***************************************************************************)
EXTENDS Shutdown, TLAPS

\* The steps of Next, with the three ways a call arrives taken apart.
Delivered(request, press) ==
  \/ /\ request.signal # "SIGINT" /\ press = NoPress
     /\ UNCHANGED operatorVars
  \/ /\ request.signal = "SIGINT"
     /\ press = pressed + 1 /\ press \in Presses
     /\ pressed' = pressed + 1
     /\ \E n \in 0 .. MaxCopies : copies' = [copies EXCEPT ![press] = n]
  \/ /\ request.signal = "SIGINT" /\ press \in Presses /\ copies[press] > 0
     /\ copies' = [copies EXCEPT ![press] = @ - 1]
     /\ UNCHANGED pressed

LEMMA StepCases ==
  ASSUME TypeOK, Next
  PROVE  \/ \E request \in Requests, press \in Presses \cup {NoPress} :
              Call(request, press) /\ Delivered(request, press)
         \/ WindowPasses
         \/ \E q \in PlanSequences : \E k \in DOMAIN q : CloseBegins(q, k)
         \/ \E s \in Stages : CloseEnds(s)
         \/ PlanEnds \/ DeadlineFires \/ Exit
<1>1. CASE Requested
  BY <1>1 DEF Requested, Delivered, NoPress
<1>2. CASE KeyPress
  <2>1. pressed + 1 \in Presses
    BY <1>2, ParameterAssumption DEF KeyPress, TypeOK, Presses
  <2>2. QED
    BY <1>2, <2>1 DEF KeyPress, Delivered
<1>3. CASE CopyArrives
  BY <1>3 DEF CopyArrives, Delivered
<1>4. QED
  BY <1>1, <1>2, <1>3 DEF Next

\* Every variable keeps its type, for every plan and every operator.
THEOREM TypeCorrect == Spec => []TypeOK
<1>1. Init => TypeOK
  <2> SUFFICES ASSUME Init PROVE TypeOK
    OBVIOUS
  <2>1. step \in 1 .. Len(Plan) + 1
    BY PlanAssumption DEF Init
  <2>2. copies \in [Presses -> 0 .. MaxCopies] /\ pressed \in 0 .. MaxPresses
    BY ParameterAssumption DEF Init
  <2>3. stage \in [Stages -> Phases]
    BY DEF Init, Phases
  <2>4. QED
    BY <2>1, <2>2, <2>3 DEF Init, TypeOK
<1>2. TypeOK /\ [Next]_vars => TypeOK'
  <2> SUFFICES ASSUME TypeOK, [Next]_vars PROVE TypeOK'
    OBVIOUS
  <2> USE ParameterAssumption DEF NoPress
  <2>1. ASSUME NEW request \in Requests, NEW press \in Presses \cup {NoPress},
               Call(request, press), Delivered(request, press)
        PROVE  TypeOK'
    <3>1. request.signal \in Signals /\ request.failed \in BOOLEAN
      OBVIOUS
    <3>2. /\ pressed' \in 0 .. MaxPresses
          /\ copies' \in [Presses -> 0 .. MaxCopies]
      BY <2>1, SMTT(30) DEF Delivered, operatorVars, TypeOK, Presses
    <3>3. CASE Begin(request, press)
      <4>1. startedBySignal' \in BOOLEAN /\ failed' \in BOOLEAN
        BY <3>3 DEF Begin, Blame
      <4>2. answered' \subseteq Presses
        BY <3>3 DEF Begin, Answer, TypeOK
      <4>3. windows' \subseteq Presses \cup {NoPress} /\ repeatArmed' \in BOOLEAN
        BY <3>3 DEF Begin, ArmRepeatWindow, TypeOK
      <4>4. QED
        BY <3>2, <3>3, <4>1, <4>2, <4>3 DEF Begin, TypeOK, planVars, exitVars
    <3>4. CASE Hint(request, press)
      <4>1. failed' \in BOOLEAN /\ answered' \subseteq Presses
        BY <3>4 DEF Hint, Blame, Answer, TypeOK
      <4>2. QED
        BY <3>2, <3>4, <4>1 DEF Hint, ArmRepeatWindow, TypeOK, planVars, exitVars
    <3>5. CASE IgnoreCopy(request)
      <4>1. failed' \in BOOLEAN
        BY <3>5 DEF IgnoreCopy, Blame
      <4>2. QED
        BY <3>2, <3>5, <4>1 DEF IgnoreCopy, TypeOK,
           planVars, exitVars, historyVars
    <3>6. CASE ForceExit(request, press)
      <4>1. failed' \in BOOLEAN
        BY <3>6 DEF ForceExit, Blame
      <4>2. code' \in Codes \cup {NoCode}
        BY <3>6 DEF ForceExit, ExitOnce, ForcedCode, Codes, TypeOK
      <4>3. QED
        BY <3>2, <3>6, <4>1, <4>2 DEF ForceExit, ExitOnce, TypeOK, planVars
    <3>7. CASE AlreadyStopping(request)
      <4>1. failed' \in BOOLEAN
        BY <3>7 DEF AlreadyStopping, Blame
      <4>2. QED
        BY <3>2, <3>7, <4>1 DEF AlreadyStopping, TypeOK,
           planVars, exitVars, historyVars
    <3>8. QED
      BY <2>1, <3>3, <3>4, <3>5, <3>6, <3>7 DEF Call
  <2>2. CASE WindowPasses
    BY <2>2 DEF WindowPasses, TypeOK, planVars, exitVars, operatorVars,
       historyVars
  <2>3. ASSUME NEW q \in PlanSequences, NEW k \in DOMAIN q, CloseBegins(q, k)
        PROVE  TypeOK'
    BY <2>3 DEF CloseBegins, TypeOK, Phases, handlerVars, exitVars,
       operatorVars, historyVars
  <2>4. ASSUME NEW s \in Stages, CloseEnds(s)
        PROVE  TypeOK'
    <3>1. step' \in 1 .. Len(Plan) + 1
      BY <2>4, PlanAssumption DEF CloseEnds, StepAfter, TypeOK
    <3>2. failed' \in BOOLEAN
      BY <2>4 DEF CloseEnds
    <3>3. QED
      BY <2>4, <3>1, <3>2 DEF CloseEnds, TypeOK, Phases, exitVars, operatorVars,
         historyVars
  <2>5. CASE PlanEnds \/ DeadlineFires
    <3>1. code' \in Codes \cup {NoCode} /\ exited' \in BOOLEAN
      BY <2>5 DEF PlanEnds, DeadlineFires, TimeoutCode, ExitOnce, Codes, TypeOK
    <3>2. UNCHANGED <<handlerVars, planVars, exitCode, operatorVars, historyVars>>
      BY <2>5 DEF PlanEnds, DeadlineFires
    <3>3. QED
      BY <3>1, <3>2 DEF TypeOK, handlerVars, planVars, operatorVars, historyVars
  <2>6. CASE Exit
    BY <2>6 DEF Exit, TypeOK, handlerVars, planVars, operatorVars, historyVars
  <2>7. CASE UNCHANGED vars
    BY <2>7 DEF vars, TypeOK, handlerVars, planVars, exitVars, operatorVars,
       historyVars
  <2>8. QED
    BY <2>1, <2>2, <2>3, <2>4, <2>5, <2>6, <2>7, StepCases
<1>3. QED
  BY <1>1, <1>2, PTL DEF Spec, SafetySpec

-----------------------------------------------------------------------------
(* The order of the plan *)

\* OrderKept is not inductive alone: that a step is over has to be remembered
\* when the plan leaves it.
PlanInv ==
  /\ ~started => \A s \in Stages : stage[s] = "waiting"
  /\ \A j \in 1 .. step - 1 : StepSettled(j, stage)
  /\ OrderKept

LEMMA PlanStages ==
  \A i \in DOMAIN Plan : \A q \in Plan[i] : \A k \in DOMAIN q : q[k] \in Stages
BY PlanAssumption

\* What calls, timers and exits leave alone, and that a stop stays begun.
LEMMA OtherSteps ==
  ASSUME TypeOK, [Next]_vars
  PROVE  \/ \E q \in PlanSequences : \E k \in DOMAIN q : CloseBegins(q, k)
         \/ \E s \in Stages : CloseEnds(s)
         \/ (started => started') /\ UNCHANGED planVars
<1>1. ASSUME NEW request \in Requests, NEW press \in Presses \cup {NoPress},
             Call(request, press)
      PROVE  (started => started') /\ UNCHANGED planVars
  BY <1>1 DEF Call, Begin, Hint, IgnoreCopy, ForceExit, AlreadyStopping
<1>2. CASE WindowPasses \/ PlanEnds \/ DeadlineFires \/ Exit \/ UNCHANGED vars
  BY <1>2 DEF WindowPasses, PlanEnds, DeadlineFires, Exit, vars, handlerVars
<1>3. QED
  BY <1>1, <1>2, StepCases

\* A close that ends settles its stage, and nothing else becomes unsettled.
LEMMA SettledStays ==
  ASSUME TypeOK, NEW s \in Stages, NEW phase \in Phases,
         ~Settled(s), stage' = [stage EXCEPT ![s] = phase]
  PROVE  \A t \in Stages : Settled(t) => Settled(t)'
BY DEF TypeOK, Settled

LEMMA StepSettledStays ==
  ASSUME \A t \in Stages : Settled(t) => Settled(t)', NEW i \in DOMAIN Plan,
         StepSettled(i, stage)
  PROVE  StepSettled(i, stage')
BY PlanStages DEF StepSettled, Settled

LEMMA PlanInvariant == Spec => []PlanInv
<1>1. Init => PlanInv
  <2> SUFFICES ASSUME Init PROVE PlanInv
    OBVIOUS
  <2>1. \A i \in DOMAIN Plan : \A q \in Plan[i] : \A k \in DOMAIN q :
          stage[q[k]] = "waiting"
    BY PlanStages DEF Init
  <2>2. QED
    BY <2>1 DEF Init, PlanInv, OrderKept
<1>2. TypeOK /\ PlanInv /\ [Next]_vars => PlanInv'
  <2> SUFFICES ASSUME TypeOK, PlanInv, [Next]_vars PROVE PlanInv'
    OBVIOUS
  <2>1. DOMAIN Plan = 1 .. Len(Plan) /\ Len(Plan) \in Nat /\ step \in Nat
    BY PlanAssumption DEF TypeOK
  <2>2. ASSUME NEW q \in PlanSequences, NEW k \in DOMAIN q, CloseBegins(q, k)
        PROVE  PlanInv'
    <3>1. q[k] \in Stages /\ step \in DOMAIN Plan /\ q \in Plan[step]
      BY <2>2, PlanStages DEF CloseBegins
    <3>2. \A t \in Stages : Settled(t) => Settled(t)'
      BY <2>2, <3>1, SettledStays DEF CloseBegins, Settled, Answers, Phases
    <3>3. \A j \in 1 .. step - 1 : StepSettled(j, stage')
      BY <2>1, <3>1, <3>2, StepSettledStays DEF PlanInv
    <3>4. ASSUME NEW i \in DOMAIN Plan, NEW r \in Plan[i], NEW m \in DOMAIN r,
                 stage'[r[m]] # "waiting"
          PROVE  /\ \A j \in 1 .. i - 1 : StepSettled(j, stage')
                 /\ \A n \in 1 .. m - 1 : Settled(r[n])'
      <4>1. r \in Seq(Stages) /\ r[m] \in Stages
        BY <3>4, PlanStages, PlanAssumption
      <4>2. \A n \in 1 .. m - 1 : r[n] \in Stages
        BY <4>1, <3>4
      <4>3. \A j \in 1 .. i - 1 : j \in DOMAIN Plan
        BY <2>1
      <4>4. CASE r[m] = q[k]
        <5>1. i = step /\ r = q /\ m = k
          BY <3>1, <4>4, PlanAssumption
        <5>2. QED
          BY <2>2, <3>2, <3>3, <4>2, <5>1 DEF CloseBegins
      <4>5. CASE r[m] # q[k]
        <5>1. stage[r[m]] # "waiting"
          BY <2>2, <3>4, <4>1, <4>5 DEF CloseBegins, TypeOK
        <5>2. /\ \A j \in 1 .. i - 1 : StepSettled(j, stage)
              /\ \A n \in 1 .. m - 1 : Settled(r[n])
          BY <3>4, <5>1 DEF PlanInv, OrderKept
        <5>3. QED
          BY <3>2, <4>2, <4>3, <5>2, StepSettledStays
      <4>6. QED
        BY <4>4, <4>5
    <3>5. QED
      BY <2>2, <3>3, <3>4 DEF PlanInv, OrderKept, CloseBegins, handlerVars
  <2>3. ASSUME NEW s \in Stages, CloseEnds(s)
        PROVE  PlanInv'
    <3>1. PICK answer \in Answers :
            /\ stage' = [stage EXCEPT ![s] = answer]
            /\ step' = StepAfter(stage')
      BY <2>3 DEF CloseEnds
    <3>2. stage[s] = "closing"
      BY <2>3 DEF CloseEnds
    <3>3. \A t \in Stages : Settled(t) => Settled(t)'
      BY <3>1, <3>2, SettledStays DEF Settled, Answers, Phases
    <3>4. \A t \in Stages : stage[t] = "waiting" => stage'[t] = "waiting"
      BY <3>1, <3>2 DEF TypeOK
    <3>5. \A j \in 1 .. step - 1 : StepSettled(j, stage')
      <4>1. \A j \in 1 .. step - 1 : j \in DOMAIN Plan
        BY <2>1 DEF TypeOK
      <4>2. QED
        BY <3>3, <4>1, StepSettledStays DEF PlanInv
    <3>6. \A j \in 1 .. step' - 1 : StepSettled(j, stage')
      <4>1. CASE StepSettled(step, stage') /\ step' = step + 1
        <5>1. \A j \in 1 .. step' - 1 : j \in 1 .. step - 1 \/ j = step
          BY <2>1, <4>1
        <5>2. QED
          BY <3>5, <4>1, <5>1
      <4>2. CASE step' = step
        BY <3>5, <4>2
      <4>3. QED
        BY <3>1, <4>1, <4>2 DEF StepAfter
    <3>7. ASSUME NEW i \in DOMAIN Plan, NEW r \in Plan[i], NEW m \in DOMAIN r,
                 stage'[r[m]] # "waiting"
          PROVE  /\ \A j \in 1 .. i - 1 : StepSettled(j, stage')
                 /\ \A n \in 1 .. m - 1 : Settled(r[n])'
      <4>1. r \in Seq(Stages) /\ r[m] \in Stages
        BY <3>7, PlanStages, PlanAssumption
      <4>2. \A n \in 1 .. m - 1 : r[n] \in Stages
        BY <4>1, <3>7
      <4>3. \A j \in 1 .. i - 1 : j \in DOMAIN Plan
        BY <2>1
      <4>4. /\ \A j \in 1 .. i - 1 : StepSettled(j, stage)
            /\ \A n \in 1 .. m - 1 : Settled(r[n])
        BY <3>4, <3>7, <4>1 DEF PlanInv, OrderKept
      <4>5. QED
        BY <3>3, <4>2, <4>3, <4>4, StepSettledStays
    <3>8. started'
      BY <2>3, <3>2 DEF PlanInv, CloseEnds
    <3>9. QED
      BY <3>6, <3>7, <3>8 DEF PlanInv, OrderKept
  <2>4. CASE (started => started') /\ UNCHANGED planVars
    BY <2>4 DEF PlanInv, OrderKept, StepSettled, Settled, planVars
  <2>5. QED
    BY <2>2, <2>3, <2>4, OtherSteps
<1>3. QED
  BY <1>1, <1>2, TypeCorrect, PTL DEF Spec, SafetySpec

\* No target starts closing while something the plan puts before it is still
\* open or closing, for every plan.
THEOREM OrderAlwaysKept == Spec => []OrderKept
<1>1. PlanInv => OrderKept
  BY DEF PlanInv
<1>2. QED
  BY <1>1, PlanInvariant, PTL

-----------------------------------------------------------------------------
(* The verdict *)

Clean == \A s \in Stages : stage[s] \in Answers \ {"failed"}

VerdictInv ==
  /\ exited <=> code # NoCode
  /\ exitCode \in {NoCode, code}
  /\ exited => started
  /\ (\E s \in Stages : stage[s] = "failed") => failed
  /\ CleanExit

\* At the end of the plan every stage is settled.
LEMMA PlanOverSettles ==
  ASSUME TypeOK, PlanInv, PlanOver, NEW s \in Stages
  PROVE  Settled(s)
<1>1. PICK i \in DOMAIN Plan : \E q \in Plan[i] : \E k \in DOMAIN q : q[k] = s
  BY PlanAssumption
<1>2. i \in 1 .. step - 1
  BY PlanAssumption DEF PlanOver
<1>3. QED
  BY <1>1, <1>2 DEF PlanInv, StepSettled, Settled

LEMMA VerdictInvariant == Spec => []VerdictInv
<1>1. Init => VerdictInv
  BY DEF Init, VerdictInv, CleanExit, NoCode
<1>2. TypeOK /\ PlanInv /\ VerdictInv /\ [Next]_vars => VerdictInv'
  <2> SUFFICES ASSUME TypeOK, PlanInv, VerdictInv, [Next]_vars
               PROVE  VerdictInv'
    OBVIOUS
  <2>1. ASSUME NEW request \in Requests, NEW press \in Presses \cup {NoPress},
               Call(request, press)
        PROVE  VerdictInv'
    <3>1. UNCHANGED <<stage, exitCode>> /\ (started => started')
          /\ (failed => failed')
      <4>1. failed => failed'
        BY <2>1 DEF Call, Begin, Hint, IgnoreCopy, ForceExit, AlreadyStopping,
           Blame
      <4>2. UNCHANGED <<stage, exitCode>> /\ (started => started')
        BY <2>1 DEF Call, Begin, Hint, IgnoreCopy, ForceExit, AlreadyStopping,
           planVars, exitVars
      <4>3. QED
        BY <4>1, <4>2
    <3>2. CASE UNCHANGED <<exited, code>>
      BY <3>1, <3>2 DEF VerdictInv, CleanExit
    <3>3. CASE ForceExit(request, press)
      <4>1. /\ Alive /\ started' /\ exited'
            /\ code' = IF exited THEN code ELSE ForcedCode(request)
        BY <2>1, <3>3 DEF Call, ForceExit, ExitOnce, MayForce
      <4>2. code' # NoCode /\ (code' = 0 => code = 0)
        BY <4>1 DEF ForcedCode, NoCode, VerdictInv
      <4>3. QED
        BY <3>1, <4>1, <4>2 DEF VerdictInv, CleanExit, Alive
    <3>4. QED
      BY <2>1, <3>2, <3>3 DEF Call, Begin, Hint, IgnoreCopy, AlreadyStopping,
         exitVars
  <2>2. CASE WindowPasses \/ UNCHANGED vars
    BY <2>2 DEF WindowPasses, vars, handlerVars, planVars, exitVars, VerdictInv,
       CleanExit
  <2>3. ASSUME NEW q \in PlanSequences, NEW k \in DOMAIN q, CloseBegins(q, k)
        PROVE  VerdictInv'
    <3>1. q[k] \in Stages
      BY <2>3, PlanStages DEF CloseBegins
    <3>2. code # 0
      BY <2>3, <3>1 DEF CloseBegins, VerdictInv, CleanExit, Answers
    <3>3. \A s \in Stages : stage'[s] = "failed" => stage[s] = "failed"
      BY <2>3, <3>1 DEF CloseBegins, TypeOK
    <3>4. QED
      BY <2>3, <3>2, <3>3 DEF CloseBegins, VerdictInv, CleanExit, handlerVars,
         exitVars
  <2>4. ASSUME NEW s \in Stages, CloseEnds(s)
        PROVE  VerdictInv'
    <3>1. PICK answer \in Answers :
            /\ stage' = [stage EXCEPT ![s] = answer]
            /\ failed' = (failed \/ answer = "failed")
      BY <2>4 DEF CloseEnds
    <3>2. code # 0
      BY <2>4 DEF CloseEnds, VerdictInv, CleanExit, Answers
    <3>3. (\E t \in Stages : stage'[t] = "failed") => failed'
      BY <3>1 DEF TypeOK, VerdictInv
    <3>4. QED
      BY <2>4, <3>2, <3>3 DEF CloseEnds, VerdictInv, CleanExit, exitVars
  <2>5. CASE PlanEnds
    <3>1. Alive /\ started /\ PlanOver /\ ~exited
          /\ exited' /\ code' = IF failed THEN 1 ELSE 0
      BY <2>5 DEF PlanEnds, ExitOnce
    <3>2. ~failed => Clean
      BY <3>1, PlanOverSettles DEF VerdictInv, Clean, Settled
    <3>3. QED
      BY <2>5, <3>1, <3>2 DEF PlanEnds, VerdictInv, CleanExit, Clean, Alive,
         NoCode, handlerVars, planVars
  <2>6. CASE DeadlineFires
    BY <2>6 DEF DeadlineFires, TimeoutCode, ExitOnce, VerdictInv, CleanExit,
       Alive, NoCode, handlerVars, planVars
  <2>7. CASE Exit
    BY <2>7 DEF Exit, VerdictInv, CleanExit, handlerVars, planVars
  <2>8. QED
    BY <2>1, <2>2, <2>3, <2>4, <2>5, <2>6, <2>7, StepCases
<1>3. QED
  BY <1>1, <1>2, TypeCorrect, PlanInvariant, PTL DEF Spec, SafetySpec

\* Whatever races with it, 0 is reported only when every target was closed or
\* was never open.
THEOREM ExitIsClean == Spec => []CleanExit
<1>1. VerdictInv => CleanExit
  BY DEF VerdictInv
<1>2. QED
  BY <1>1, VerdictInvariant, PTL

-----------------------------------------------------------------------------
(* The keypresses *)

\* Why a copy never forces: once the window has passed, no keypress that was
\* answered has copies left, because a window still open is the one that
\* keypress opened.
PressInv ==
  /\ ~started => windows = {} /\ ~repeatArmed /\ ~hinted /\ answered = {}
                 /\ forcedBy = NoPress
  /\ ~Forcible => windows = {} /\ ~repeatArmed
  /\ started /\ ~startedBySignal /\ ~hinted => answered = {}
  /\ answered \subseteq 1 .. pressed
  /\ \A p \in Presses : copies[p] > 0 => p <= pressed
  /\ \A p \in answered : repeatArmed => copies[p] = 0
  /\ \A p \in answered : \A w \in windows : w = p
  /\ ForcedByNewPress

LEMMA PressInvariant == Spec => []PressInv
<1>1. Init => PressInv
  BY DEF Init, PressInv, ForcedByNewPress, NoPress
<1>2. TypeOK /\ PressInv /\ [Next]_vars => PressInv'
  <2> SUFFICES ASSUME TypeOK, PressInv, [Next]_vars PROVE PressInv'
    OBVIOUS
  <2> USE ParameterAssumption DEF NoPress, Presses
  <2>1. ASSUME NEW request \in Requests, NEW press \in Presses \cup {NoPress},
               Call(request, press), Delivered(request, press)
        PROVE  PressInv'
    <3>1. /\ pressed \in Nat /\ pressed' \in Nat
          /\ pressed <= pressed' /\ (press = 0 \/ press \in 1 .. pressed')
          /\ \A p \in 1 .. pressed : copies[p] = 0 => copies'[p] = 0
          /\ \A p \in Presses : copies'[p] > 0 => p <= pressed'
      <4>1. CASE UNCHANGED operatorVars /\ press = 0
        BY <4>1 DEF operatorVars, TypeOK, PressInv
      <4>2. CASE /\ press = pressed + 1 /\ press \in Presses
                 /\ pressed' = pressed + 1
                 /\ \E n \in 0 .. MaxCopies : copies' = [copies EXCEPT ![press] = n]
        <5>1. \A p \in 1 .. pressed : p \in Presses /\ p # press
          BY <4>2 DEF TypeOK
        <5>2. QED
          BY <4>2, <5>1 DEF TypeOK, PressInv
      <4>3. CASE /\ press \in Presses /\ copies[press] > 0 /\ press \in 1 .. pressed
                 /\ copies' = [copies EXCEPT ![press] = @ - 1]
                 /\ UNCHANGED pressed
        <5>1. \A p \in 1 .. pressed : p \in Presses
          BY <4>3 DEF TypeOK
        <5>2. QED
          BY <4>3, <5>1 DEF TypeOK, PressInv
      <4>4. QED
        BY <2>1, <4>1, <4>2, <4>3 DEF Delivered, PressInv
    <3> HIDE DEF Presses
    <3>2. CASE Begin(request, press)
      <4>1. answered' = {press} \ {0} /\ forcedBy' = 0 /\ started'
        BY <3>2 DEF Begin, Answer, PressInv
      <4>2. ~repeatArmed' /\ windows' = IF Forcible THEN {press} ELSE {}
        BY <3>2 DEF Begin, ArmRepeatWindow, PressInv
      <4>3. ~startedBySignal' => press = 0
        BY <2>1, <3>2 DEF Begin, Delivered
      <4>4. QED
        BY <3>1, <4>1, <4>2, <4>3 DEF PressInv, ForcedByNewPress, TypeOK
    <3>3. CASE Hint(request, press)
      <4>1. answered = {} /\ forcedBy = 0
        BY <3>3 DEF Hint, MayForce, PressInv, ForcedByNewPress
      <4>2. /\ answered' = {press} \ {0} /\ forcedBy' = 0 /\ started' /\ hinted'
            /\ ~repeatArmed' /\ windows' = {press} /\ Forcible
        BY <3>3, <4>1 DEF Hint, MayForce, Answer, ArmRepeatWindow
      <4>3. QED
        BY <3>1, <4>2 DEF PressInv, ForcedByNewPress, TypeOK
    <3>4. CASE IgnoreCopy(request) \/ AlreadyStopping(request)
      <4>1. UNCHANGED <<started, startedBySignal, repeatArmed, hinted, windows,
                        answered, forcedBy>>
        BY <3>4 DEF IgnoreCopy, AlreadyStopping, historyVars
      <4>2. answered' \subseteq 1 .. pressed'
        BY <3>1, <4>1 DEF PressInv, TypeOK
      <4>3. \A p \in answered' : repeatArmed' => copies'[p] = 0
        BY <3>1, <4>1 DEF PressInv
      <4>4. QED
        BY <3>1, <4>1, <4>2, <4>3 DEF PressInv, ForcedByNewPress
    <3>5. CASE ForceExit(request, press)
      <4>1. /\ request.signal = "SIGINT" /\ repeatArmed
            /\ startedBySignal \/ hinted
            /\ forcedBy' \in {forcedBy, press}
            /\ UNCHANGED <<started, startedBySignal, repeatArmed, hinted,
                            windows, answered>>
        BY <3>5 DEF ForceExit, MayForce
      <4>2. press \notin answered
        BY <2>1, <4>1 DEF Delivered, PressInv, TypeOK
      <4>3. answered' \subseteq 1 .. pressed'
        BY <3>1, <4>1 DEF PressInv, TypeOK
      <4>4. \A p \in answered' : copies'[p] = 0
        BY <3>1, <4>1 DEF PressInv
      <4>5. ForcedByNewPress'
        BY <4>1, <4>2 DEF PressInv, ForcedByNewPress
      <4>6. started'
        BY <3>5 DEF ForceExit, MayForce
      <4>7. Forcible
        BY <3>5 DEF ForceExit, MayForce
      <4>8. QED
        BY <3>1, <4>1, <4>3, <4>4, <4>5, <4>6, <4>7 DEF PressInv
    <3>6. QED
      BY <2>1, <3>2, <3>3, <3>4, <3>5 DEF Call
  <2>2. CASE WindowPasses
    <3>1. PICK w \in windows :
            /\ w \in Presses => copies[w] = 0
            /\ windows' = windows \ {w}
            /\ repeatArmed'
      BY <2>2 DEF WindowPasses
    <3>2. UNCHANGED <<started, startedBySignal, hinted, answered, forcedBy,
                      pressed, copies>>
      BY <2>2 DEF WindowPasses, historyVars, operatorVars
    <3>3. \A p \in answered : copies[p] = 0
      BY <3>1 DEF PressInv, TypeOK
    <3>4. QED
      BY <3>1, <3>2, <3>3 DEF PressInv, ForcedByNewPress
  <2>3. CASE UNCHANGED <<started, startedBySignal, repeatArmed, hinted, windows,
                         answered, forcedBy, pressed, copies>>
    BY <2>3 DEF PressInv, ForcedByNewPress
  <2>4. CASE \E q \in PlanSequences : \E k \in DOMAIN q : CloseBegins(q, k)
    BY <2>3, <2>4 DEF CloseBegins, handlerVars, operatorVars, historyVars
  <2>5. CASE \E s \in Stages : CloseEnds(s)
    BY <2>3, <2>5 DEF CloseEnds, operatorVars, historyVars
  <2>6. CASE PlanEnds \/ DeadlineFires \/ Exit \/ UNCHANGED vars
    BY <2>3, <2>6 DEF PlanEnds, DeadlineFires, Exit, vars, handlerVars,
       operatorVars, historyVars
  <2>7. QED
    BY <2>1, <2>2, <2>4, <2>5, <2>6, StepCases
<1>3. QED
  BY <1>1, <1>2, TypeCorrect, PTL DEF Spec, SafetySpec

\* No copy of the Ctrl+C that began the stop, or that got the hint, forces the
\* exit, however many copies there are and whenever the windows open.
THEOREM OnlyANewPressForces == Spec => []ForcedByNewPress
<1>1. PressInv => ForcedByNewPress
  BY DEF PressInv
<1>2. QED
  BY <1>1, PressInvariant, PTL

-----------------------------------------------------------------------------
(* The contract *)

\* The stop implements StopContract: one verdict, justified by what was known
\* when it was reached, and the process leaves with it.
THEOREM ContractKept == Spec => KeepsContract
<1> DEFINE rel == {s \in Stages : stage[s] \in Answers \ {"failed"}}
<1>1. Init => Contract!ContractInit
  BY DEF Init, Contract!ContractInit, NoCode, Contract!NoCode, Answers
<1>2. /\ TypeOK /\ PlanInv /\ VerdictInv /\ VerdictInv' /\ [Next]_vars
      => [Contract!ContractNext]_Contract!contractVars
  <2> SUFFICES ASSUME TypeOK, PlanInv, VerdictInv, VerdictInv', [Next]_vars
               PROVE  [Contract!ContractNext]_Contract!contractVars
    OBVIOUS
  <2> USE DEF NoCode, Contract!NoCode, Contract!contractVars
  <2>1. ASSUME NEW request \in Requests, NEW press \in Presses \cup {NoPress},
               Call(request, press)
        PROVE  [Contract!ContractNext]_Contract!contractVars
    <3>1. UNCHANGED <<stage, exitCode>> /\ exitCode = -1
      BY <2>1 DEF Call, Alive, Begin, Hint, IgnoreCopy, ForceExit,
         AlreadyStopping, planVars, exitVars
    <3>2. failed' \in {failed, TRUE}
      BY <2>1, ParameterAssumption DEF Call, Begin, Hint, IgnoreCopy, ForceExit,
         AlreadyStopping, Blame, TypeOK
    <3>3. CASE Begin(request, press)
      <4>1. Contract!Stop
        BY <3>1, <3>2, <3>3 DEF Begin, Contract!Stop, exitVars
      <4>2. QED
        BY <4>1 DEF Contract!ContractNext
    <3>4. CASE started /\ started' /\ code' = code
      <4>1. Contract!Learn
        BY <3>1, <3>2, <3>4 DEF Contract!Learn
      <4>2. QED
        BY <4>1 DEF Contract!ContractNext
    <3>5. CASE ForceExit(request, press) /\ ~exited
      <4>1. started /\ started' /\ code = -1 /\ code' = ForcedCode(request)
        BY <3>5 DEF ForceExit, MayForce, ExitOnce, VerdictInv
      <4>2. Forcible /\ (code' = 130 => ~failed')
        <5>1. Forcible /\ failed' = (failed \/ request.failed)
          BY <3>5 DEF ForceExit, MayForce, Blame
        <5>2. code' = 130 => ~(failed \/ request.failed)
          BY <4>1 DEF ForcedCode
        <5>3. QED
          BY <5>1, <5>2
      <4>3. code' \in {1, 130}
        BY <4>1 DEF ForcedCode
      <4>4. Contract!Decide
        BY <3>1, <3>2, <4>1, <4>2, <4>3
           DEF Contract!Decide, Contract!Justified, Contract!Codes
      <4>5. QED
        BY <4>4 DEF Contract!ContractNext
    <3>6. CASE Hint(request, press) \/ IgnoreCopy(request) \/ AlreadyStopping(request)
      BY <3>4, <3>6 DEF Hint, IgnoreCopy, MayForce, AlreadyStopping, exitVars
    <3>7. CASE ForceExit(request, press) /\ exited
      BY <3>4, <3>7 DEF ForceExit, ExitOnce, MayForce
    <3>8. QED
      BY <2>1, <3>3, <3>5, <3>6, <3>7 DEF Call
  <2>2. CASE WindowPasses \/ UNCHANGED vars
    BY <2>2 DEF WindowPasses, vars, handlerVars, planVars, exitVars
  <2>3. ASSUME NEW q \in PlanSequences, NEW k \in DOMAIN q, CloseBegins(q, k)
        PROVE  [Contract!ContractNext]_Contract!contractVars
    <3>1. rel' = rel
      BY <2>3, PlanStages DEF CloseBegins, TypeOK, Answers
    <3>2. QED
      BY <2>3, <3>1 DEF CloseBegins, handlerVars, exitVars
  <2>4. ASSUME NEW s \in Stages, CloseEnds(s)
        PROVE  [Contract!ContractNext]_Contract!contractVars
    <3>1. PICK answer \in Answers :
            /\ stage' = [stage EXCEPT ![s] = answer]
            /\ failed' = (failed \/ answer = "failed")
      BY <2>4 DEF CloseEnds
    <3>2. stage[s] = "closing" /\ Alive /\ UNCHANGED <<started, code, exitCode>>
      BY <2>4 DEF CloseEnds, exitVars
    <3>3. rel \subseteq rel' /\ rel' \subseteq Stages
      BY <3>1, <3>2 DEF TypeOK, Answers
    <3>4. failed' \in {failed, TRUE}
      BY <3>1 DEF TypeOK
    <3>5. started
      BY <3>2 DEF PlanInv
    <3>6. Contract!Learn
      BY <3>2, <3>3, <3>4, <3>5 DEF Contract!Learn, Alive
    <3>7. QED
      BY <3>6 DEF Contract!ContractNext
  <2>5. CASE PlanEnds
    <3>1. /\ started /\ code = -1 /\ code' = IF failed THEN 1 ELSE 0
          /\ UNCHANGED <<started, failed, stage, exitCode>>
      BY <2>5 DEF PlanEnds, ExitOnce, VerdictInv, handlerVars, planVars
    <3>2. code' = 0 => rel = Stages /\ ~failed'
      BY <3>1 DEF VerdictInv, CleanExit
    <3>3. Contract!Decide
      BY <3>1, <3>2 DEF Contract!Decide, Contract!Justified, Contract!Codes
    <3>4. QED
      BY <3>3 DEF Contract!ContractNext
  <2>6. CASE DeadlineFires
    <3>1. /\ started /\ code = -1 /\ code' = 1
          /\ UNCHANGED <<started, failed, stage, exitCode>>
      BY <2>6 DEF DeadlineFires, TimeoutCode, ExitOnce, VerdictInv, handlerVars,
         planVars
    <3>2. Contract!Decide
      BY <3>1 DEF Contract!Decide, Contract!Justified, Contract!Codes
    <3>3. QED
      BY <3>2 DEF Contract!ContractNext
  <2>7. CASE Exit
    <3>1. Contract!Leave
      BY <2>7 DEF Exit, Alive, VerdictInv, Contract!Leave, handlerVars, planVars
    <3>2. QED
      BY <3>1 DEF Contract!ContractNext
  <2>8. QED
    BY <2>1, <2>2, <2>3, <2>4, <2>5, <2>6, <2>7, StepCases
<1>3. QED
  BY <1>1, <1>2, TypeCorrect, PlanInvariant, VerdictInvariant, PTL
     DEF Spec, SafetySpec, KeepsContract, Contract!ContractSafety
=============================================================================
