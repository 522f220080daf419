----------------------------- MODULE ApiProcess ------------------------------
(***************************************************************************)
(* The api process: compose-app.ts opens the probe handles, Redis, the     *)
(* queue counters and the app under a stop that already listens, server.ts *)
(* listens, and requests are served (ApiRequests) until the stop (Shutdown)*)
(* has drained them and closed what they read from: the app first, then    *)
(* the database next to the queues and their Redis client.                 *)
(*                                                                         *)
(* Composing is one turn of the event loop: no signal falls into it.       *)
(***************************************************************************)
EXTENDS ApiRequests

CONSTANT CloseAnswers  \* by stage: how the close of what was opened may end

VARIABLES started, startedBySignal, failed, repeatArmed, hinted, windows, step,
          stage, exited, code, exitCode, pressed, copies, answered, forcedBy

Stages == {"app", "db", "queues", "redis"}

Stop == INSTANCE Shutdown WITH
  Stages <- Stages,
  Plan <- <<{<<"app">>}, {<<"db">>, <<"queues", "redis">>}>>,
  Forcible <- FALSE,
  Requests <- {[signal |-> "SIGTERM", failed |-> FALSE],
               [signal |-> "internal", failed |-> TRUE]},
  MaxPresses <- 0,
  MaxCopies <- 0

VARIABLES
  boot,    \* where the start is
  opened   \* what the compose has opened

stopVars == <<started, startedBySignal, failed, repeatArmed, hinted, windows,
              step, stage, exited, code, exitCode, pressed, copies, answered,
              forcedBy>>
vars == <<stopVars, boot, opened, reqVars>>

Init ==
  /\ Stop!Init /\ ReqInit
  /\ boot = "composing" /\ opened = {}

Alive == Stop!Alive

-----------------------------------------------------------------------------
(* The start *)

\* What composeApp has opened when its n-th step throws; openProbeDbs closes
\* the first handle itself when the second is refused.
OpenedBefore == {{}, {"db"}, {"db", "redis"}, {"db", "redis", "queues"}}

FailedStart == [signal |-> "internal", failed |-> TRUE]

Compose ==
  /\ Alive /\ boot = "composing"
  /\ \/ /\ boot' = "composed" /\ opened' = Stages
        /\ UNCHANGED stopVars
     \/ /\ boot' = "failed" /\ opened' \in OpenedBefore
        /\ Stop!Call(FailedStart, Stop!NoPress)
        /\ UNCHANGED <<pressed, copies>>
  /\ UNCHANGED reqVars

\* listen: the port is there, or taken - also with the stop under way.
Listens ==
  /\ Alive /\ boot = "composed" /\ stage["app"] = "waiting"
  /\ boot' = "up"
  /\ UNCHANGED <<stopVars, opened, reqVars>>
ListenFails ==
  /\ boot = "composed"
  /\ boot' = "failed"
  /\ Stop!Call(FailedStart, Stop!NoPress)
  /\ UNCHANGED <<pressed, copies, opened, reqVars>>

Sigterm ==
  /\ boot # "composing"
  /\ Stop!Call([signal |-> "SIGTERM", failed |-> FALSE], Stop!NoPress)
  /\ UNCHANGED <<pressed, copies, boot, opened, reqVars>>

-----------------------------------------------------------------------------
(* The requests *)

\* The preClose hook: from the first step of close() every request is refused.
\* Connections that are open still bring some.
Closing == stage["app"] # "waiting"

\* Bound: the requests stand still in the flush that follows the verdict.
Serving == Alive /\ ~exited

RequestArrives ==
  /\ Serving /\ boot = "up" /\ stage["app"] \in {"waiting", "closing"}
  /\ \E r \in Clients : Arrive(r, Closing)
  /\ UNCHANGED <<stopVars, boot, opened>>

\* A read after its connection began to close fails by our own doing.
ReadOutcomes(s) ==
  CASE DependencyOf(s) = "db" /\ stage["db"] # "waiting" ->
         {Failed("stop", Named("ProbeClosedError"))}
    [] DependencyOf(s) = "redis" /\ stage["redis"] # "waiting" ->
         {Failed("stop", Said("Connection is closed."))}
    [] OTHER -> {Read} \cup {Failed(o.cause, o.failure) : o \in Outages[s]}

ReadEnds ==
  /\ Serving
  /\ \E s \in Sections : FlightEnds(s, ReadOutcomes(s))
  /\ UNCHANGED <<stopVars, boot, opened>>

RequestStep ==
  /\ Serving
  /\ \E r \in Clients : RequestSteps(r)
  /\ UNCHANGED <<stopVars, boot, opened>>

-----------------------------------------------------------------------------
(* The stop *)

StageBegins ==
  /\ \/ Stop!CloseBegins(<<"app">>, 1) \/ Stop!CloseBegins(<<"db">>, 1)
     \/ \E k \in {1, 2} : Stop!CloseBegins(<<"queues", "redis">>, k)
  /\ UNCHANGED <<boot, opened, reqVars>>

\* The app has drained its connections before it is closed; the other closes
\* are bounded and take no notice of a read.
StageEnds_Fault ==
  /\ \E s \in Stages :
       /\ Stop!CloseEnds(s)
       /\ stage'[s] \in IF s \in opened THEN CloseAnswers[s] ELSE {"not opened"}
  /\ UNCHANGED <<boot, opened, reqVars>>
StageEnds ==
  /\ \E s \in Stages :
       /\ s = "app" => Drained
       /\ Stop!CloseEnds(s)
       /\ stage'[s] \in IF s \in opened THEN CloseAnswers[s] ELSE {"not opened"}
  /\ UNCHANGED <<boot, opened, reqVars>>

StopEnds ==
  /\ Stop!PlanEnds \/ Stop!DeadlineFires \/ Stop!Exit
  /\ UNCHANGED <<boot, opened, reqVars>>

Next ==
  \/ Compose \/ Listens \/ ListenFails \/ Sigterm
  \/ RequestArrives \/ ReadEnds \/ RequestStep
  \/ StageBegins \/ StageEnds \/ StopEnds

Spec == Init /\ [][Next]_vars

-----------------------------------------------------------------------------

\* A stop that exits with 0 cut no client off in the middle of its request.
CleanStopAnswers ==
  exitCode = 0 =>
    \A r \in Clients : req[r].here => req[r].phase \in {"none", "done", "broken"}
=============================================================================
