------------------------------ MODULE Shutdown ------------------------------
(***************************************************************************)
(* The stop of every process: createShutdownHandler of                     *)
(* packages/runtime/src/shutdown.ts, with the deadline race of             *)
(* packages/runtime/src/deadline.ts under it.                              *)
(*                                                                         *)
(* The handler is called by signals and by the process itself; the plan,   *)
(* the deadline, the repeat window and the flush are timers and promises   *)
(* of one event loop, so each action below is one callback that runs to    *)
(* its next await.  How long a close takes, or whether it ends at all, is  *)
(* up to the target.                                                       *)
(*                                                                         *)
(* A definition named X_Fault, before X, is X with a fault put into it; the *)
(* specification never uses it (see README.md, Mutants).                   *)
(***************************************************************************)
EXTENDS Integers, Sequences

CONSTANTS
  Stages,      \* the targets the plan closes
  Plan,        \* a sequence of steps; a step is a set of sequences of stages
  Forcible,    \* repeatedSigint # "log": a second Ctrl+C may force the exit
  Requests,    \* what the entry point calls the handler with
  MaxPresses,  \* bound: how often the operator presses Ctrl+C
  MaxCopies    \* bound: how often one keypress is delivered again

Signals == {"SIGINT", "SIGTERM", "internal"}

\* A stage stands in one place of the plan, and no step is empty.
ASSUME PlanAssumption ==
  /\ Plan \in Seq(SUBSET Seq(Stages))
  /\ \A i, j \in DOMAIN Plan : \A q \in Plan[i], r \in Plan[j] :
       \A k \in DOMAIN q, m \in DOMAIN r :
         q[k] = r[m] => i = j /\ q = r /\ k = m
  /\ \A s \in Stages : \E i \in DOMAIN Plan : \E q \in Plan[i] :
       \E k \in DOMAIN q : q[k] = s
  /\ \A i \in DOMAIN Plan : \E q \in Plan[i] : q # <<>>

ASSUME ParameterAssumption ==
  /\ Forcible \in BOOLEAN
  /\ Requests \subseteq [signal : Signals, failed : BOOLEAN]
  /\ MaxPresses \in Nat
  /\ MaxCopies \in Nat

NoCode == -1
Codes == {0, 1, 130}
NoPress == 0
Presses == 1 .. MaxPresses

Answers == {"closed", "warned", "not opened", "failed"}
Phases == {"waiting", "closing"} \cup Answers

VARIABLES
  started, startedBySignal, failed, repeatArmed, hinted,
  windows,     \* the repeat window's timers, each named by what opened it
  step,        \* the step of the plan that runs, Len(Plan) + 1 at its end
  stage,       \* what has become of each target
  exited,
  code,        \* the verdict exitOnce was given
  exitCode,    \* the code the process left with
  pressed,     \* keypresses so far
  copies,      \* copies of each keypress still on their way
  answered,    \* history: keypresses that began the stop or got the hint
  forcedBy     \* history: the keypress that forced the exit

handlerVars ==
  <<started, startedBySignal, failed, repeatArmed, hinted, windows>>
planVars == <<step, stage>>
exitVars == <<exited, code, exitCode>>
operatorVars == <<pressed, copies>>
historyVars == <<answered, forcedBy>>
vars == <<handlerVars, planVars, exitVars, operatorVars, historyVars>>

TypeOK ==
  /\ started \in BOOLEAN /\ startedBySignal \in BOOLEAN
  /\ failed \in BOOLEAN /\ repeatArmed \in BOOLEAN /\ hinted \in BOOLEAN
  /\ windows \subseteq Presses \cup {NoPress}
  /\ step \in 1 .. Len(Plan) + 1
  /\ stage \in [Stages -> Phases]
  /\ exited \in BOOLEAN
  /\ code \in Codes \cup {NoCode} /\ exitCode \in Codes \cup {NoCode}
  /\ pressed \in 0 .. MaxPresses
  /\ copies \in [Presses -> 0 .. MaxCopies]
  /\ answered \subseteq Presses
  /\ forcedBy \in Presses \cup {NoPress}

Init ==
  /\ started = FALSE /\ startedBySignal = FALSE
  /\ failed = FALSE /\ repeatArmed = FALSE /\ hinted = FALSE
  /\ windows = {}
  /\ step = 1
  /\ stage = [s \in Stages |-> "waiting"]
  /\ exited = FALSE /\ code = NoCode /\ exitCode = NoCode
  /\ pressed = 0
  /\ copies = [p \in Presses |-> 0]
  /\ answered = {} /\ forcedBy = NoPress

Alive == exitCode = NoCode

-----------------------------------------------------------------------------
(* The handler *)

\* exitOnce: only the first verdict counts; the flush comes before the exit.
ExitOnce_Fault(verdict) ==
  /\ exited' = TRUE
  /\ code' = verdict
ExitOnce(verdict) ==
  /\ exited' = TRUE
  /\ code' = IF exited THEN code ELSE verdict

\* armRepeatWindow: the window opens anew and replaces one still open.
ArmRepeatWindow_Fault(press) ==
  /\ repeatArmed' = FALSE
  /\ windows' = windows \cup {press}
ArmRepeatWindow(press) ==
  /\ repeatArmed' = FALSE
  /\ windows' = {press}

Answer(press) == answered' = answered \cup ({press} \ {NoPress})

\* A call says what it knows of a failure before anything else is decided.
Blame(request) == failed' = (failed \/ request.failed)

\* The first call begins the stop.
Begin(request, press) ==
  /\ ~started
  /\ started' = TRUE
  /\ startedBySignal' = (request.signal \in {"SIGINT", "SIGTERM"})
  /\ Blame(request)
  /\ IF Forcible THEN ArmRepeatWindow(press)
                 ELSE UNCHANGED <<repeatArmed, windows>>
  /\ Answer(press)
  /\ UNCHANGED <<hinted, planVars, exitVars, forcedBy>>

MayForce(request) == started /\ Forcible /\ request.signal = "SIGINT"

\* The first Ctrl+C of a stop the process began itself gets the hint.
Hint(request, press) ==
  /\ MayForce(request) /\ ~startedBySignal /\ ~hinted
  /\ Blame(request)
  /\ hinted' = TRUE
  /\ ArmRepeatWindow(press)
  /\ Answer(press)
  /\ UNCHANGED <<started, startedBySignal, planVars, exitVars, forcedBy>>

\* A SIGINT inside the window is the same keypress: a line at debug.
IgnoreCopy(request) ==
  /\ MayForce(request) /\ (startedBySignal \/ hinted) /\ ~repeatArmed
  /\ Blame(request)
  /\ UNCHANGED <<started, startedBySignal, repeatArmed, hinted, windows,
                 planVars, exitVars, historyVars>>

\* A SIGINT past the window leaves at once, with the failure's code if any.
ForcedCode(request) == IF failed \/ request.failed THEN 1 ELSE 130

ForceExit(request, press) ==
  /\ MayForce(request) /\ (startedBySignal \/ hinted) /\ repeatArmed
  /\ Blame(request)
  /\ ExitOnce(ForcedCode(request))
  /\ forcedBy' = IF exited THEN forcedBy ELSE press
  /\ UNCHANGED <<started, startedBySignal, repeatArmed, hinted, windows,
                 planVars, exitCode, answered>>

\* Any other call during a stop is only logged.
AlreadyStopping(request) ==
  /\ started /\ ~MayForce(request)
  /\ Blame(request)
  /\ UNCHANGED <<started, startedBySignal, repeatArmed, hinted, windows,
                 planVars, exitVars, historyVars>>

Call(request, press) ==
  /\ Alive
  /\ \/ Begin(request, press)
     \/ Hint(request, press)
     \/ IgnoreCopy(request)
     \/ ForceExit(request, press)
     \/ AlreadyStopping(request)

\* The orchestrator sends SIGTERM, or the process itself asks for the stop.
Requested ==
  /\ \E request \in Requests :
       request.signal # "SIGINT" /\ Call(request, NoPress)
  /\ UNCHANGED operatorVars

\* The operator presses Ctrl+C: the terminal signals the process, and its
\* parents forward the signal, so copies of the keypress may follow.
KeyPress ==
  /\ pressed < MaxPresses
  /\ pressed' = pressed + 1
  /\ \E n \in 0 .. MaxCopies : copies' = [copies EXCEPT ![pressed + 1] = n]
  /\ \E request \in Requests :
       request.signal = "SIGINT" /\ Call(request, pressed + 1)

CopyArrives ==
  /\ \E p \in Presses :
       /\ copies[p] > 0
       /\ copies' = [copies EXCEPT ![p] = @ - 1]
       /\ \E request \in Requests :
            request.signal = "SIGINT" /\ Call(request, p)
  /\ UNCHANGED pressed

\* The timer of a window fires.  Copies of one keypress arrive within
\* milliseconds and the window lasts a second, so a window opened by a
\* keypress outlasts the copies of that keypress.
WindowPasses ==
  /\ Alive
  /\ \E w \in windows :
       /\ w \in Presses => copies[w] = 0
       /\ windows' = windows \ {w}
       /\ repeatArmed' = TRUE
  /\ UNCHANGED <<started, startedBySignal, failed, hinted,
                 planVars, exitVars, operatorVars, historyVars>>

-----------------------------------------------------------------------------
(* The plan *)

Settled(s) == stage[s] \in Answers

StepSettled(i, phase) ==
  \A q \in Plan[i] : \A k \in DOMAIN q : phase[q[k]] \in Answers

\* runPlan reaches a stage: the steps before it are over, and so are the
\* stages before it in its own sequence.  The plan is not cancelled by the
\* deadline; it runs for as long as the process lives.
CloseBegins_Fault(q, k) ==
  /\ Alive /\ started
  /\ step \in DOMAIN Plan /\ q \in Plan[step] /\ k \in DOMAIN q
  /\ stage[q[k]] = "waiting"
  /\ stage' = [stage EXCEPT ![q[k]] = "closing"]
  /\ UNCHANGED <<handlerVars, step, exitVars, operatorVars, historyVars>>
CloseBegins(q, k) ==
  /\ Alive /\ started
  /\ step \in DOMAIN Plan /\ q \in Plan[step] /\ k \in DOMAIN q
  /\ stage[q[k]] = "waiting"
  /\ \A m \in 1 .. k - 1 : Settled(q[m])
  /\ stage' = [stage EXCEPT ![q[k]] = "closing"]
  /\ UNCHANGED <<handlerVars, step, exitVars, operatorVars, historyVars>>

\* The step after the last one that is over, given what became of the stages.
StepAfter(phase) ==
  IF step \in DOMAIN Plan /\ StepSettled(step, phase) THEN step + 1 ELSE step

\* A close answers or rejects; Promise.all lets the plan go on once every
\* sequence of the step is over.
CloseEnds(s) ==
  /\ Alive /\ stage[s] = "closing"
  /\ \E answer \in Answers :
       LET phase == [stage EXCEPT ![s] = answer] IN
       /\ stage' = phase
       /\ step' = StepAfter(phase)
       /\ failed' = (failed \/ answer = "failed")
  /\ UNCHANGED <<started, startedBySignal, repeatArmed, hinted, windows,
                 exitVars, operatorVars, historyVars>>

PlanOver == step = Len(Plan) + 1

\* The plan wins the race: its verdict is read from `failed` at that moment.
PlanEnds ==
  /\ Alive /\ started /\ PlanOver /\ ~exited
  /\ ExitOnce(IF failed THEN 1 ELSE 0)
  /\ UNCHANGED <<handlerVars, planVars, exitCode, operatorVars, historyVars>>

\* The deadline wins the race.  The timer is cleared in the microtasks that
\* follow the last close, so it never fires after the plan is over.  A forced
\* exit does not stop it, but the verdict that got there first is the one.
TimeoutCode == 1
DeadlineFires_Fault ==
  /\ Alive /\ started /\ step = 1 /\ ~PlanOver /\ ~exited
  /\ ExitOnce(TimeoutCode)
  /\ UNCHANGED <<handlerVars, planVars, exitCode, operatorVars, historyVars>>
DeadlineFires ==
  /\ Alive /\ started /\ ~PlanOver /\ ~exited
  /\ ExitOnce(TimeoutCode)
  /\ UNCHANGED <<handlerVars, planVars, exitCode, operatorVars, historyVars>>

\* The flush ends, or its own deadline does, and the process is gone.
Exit ==
  /\ Alive /\ exited
  /\ exitCode' = code
  /\ UNCHANGED <<handlerVars, planVars, exited, code, operatorVars, historyVars>>

PlanSequences == UNION {Plan[i] : i \in DOMAIN Plan}

Next ==
  \/ Requested
  \/ KeyPress
  \/ CopyArrives
  \/ WindowPasses
  \/ \E q \in PlanSequences : \E k \in DOMAIN q : CloseBegins(q, k)
  \/ \E s \in Stages : CloseEnds(s)
  \/ PlanEnds
  \/ DeadlineFires
  \/ Exit

SafetySpec == Init /\ [][Next]_vars

\* The deadline and the flush are live timers and the event loop runs what is
\* due.  A close is owed no progress: a target may hang for good.
Spec ==
  SafetySpec /\ WF_vars(PlanEnds) /\ WF_vars(DeadlineFires) /\ WF_vars(Exit)

-----------------------------------------------------------------------------
(* What the stop promises *)

\* No target starts closing while something the plan puts before it is still
\* open or closing - also after the deadline, when the plan runs on under the
\* flush: a connection never goes before the work that needs it.
OrderKept ==
  \A i \in DOMAIN Plan : \A q \in Plan[i] : \A k \in DOMAIN q :
    stage[q[k]] # "waiting" =>
      /\ \A j \in 1 .. i - 1 : StepSettled(j, stage)
      /\ \A m \in 1 .. k - 1 : Settled(q[m])

\* A stop that did not close what it claimed to close never looks successful:
\* 0 means every target was closed or never open, whatever raced with it.
CleanExit ==
  code = 0 => \A s \in Stages : stage[s] \in Answers \ {"failed"}

\* The copies of one Ctrl+C never force the exit: the keypress that does is
\* neither the one that began the stop nor the one that got the hint, and a
\* stop nobody pressed for has shown its hint first.
ForcedByNewPress ==
  forcedBy # NoPress => /\ forcedBy \notin answered
                        /\ startedBySignal \/ hinted

\* The stop implements StopContract.
Contract == INSTANCE StopContract WITH
  stopping <- started,
  released <- {s \in Stages : stage[s] \in Answers \ {"failed"}},
  blamed <- failed,
  verdict <- code,
  left <- exitCode

\* One verdict, the first one reached, and it is justified by what was known.
KeepsContract == Contract!ContractSafety

\* A stop that began ends, however many targets hang and calls repeat.
StopEnds == Contract!StopEnds
=============================================================================
