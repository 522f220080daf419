---------------------------- MODULE ComposeStack -----------------------------
(***************************************************************************)
(* What the gates are for: the stack that `docker compose up` brings up    *)
(* from a tree CI found clean.  CI asks the gate of the stack (ComposeGate)*)
(* and, in the same job, that of the schema (SchemaDrift), and in another  *)
(* job the probe of each image (ImageProbe).  The jobs share nothing, so   *)
(* they run one after another here.                                        *)
(*                                                                         *)
(* Compose, Docker and the two databases are not code of this repository:  *)
(* they are modelled as the rules' own reasons say they behave             *)
(* (scripts/compose-rules.mjs, header).  A service is created once what it *)
(* depends on is; Docker checks its health by its healthcheck; Postgres    *)
(* answers on its socket while it initialises and over TCP only            *)
(* afterwards, Redis answers LOADING before PONG; a reboot starts again, in*)
(* any order, what has a restart policy; `docker compose stop` kills what  *)
(* has not left within its grace period.                                   *)
(***************************************************************************)
EXTENDS ComposeGate, SchemaDrift, ImageProbe

CONSTANTS
  MaxReboots,   \* how often the host restarts
  StartTakes,   \* seconds a database may need before it is ready
  StopTakes     \* seconds a process needs to stop of its own

\* The longest stop of a service with a deadline of its own: that deadline, and
\* the flush of the log before the exit.
StopDeadline == [worker |-> 25, api |-> 10]
FlushTimeout == 1

\* What is assumed of a tree: a workspace has the directories of its images, the
\* probe's control is in none, and a service no rule asks a grace period of
\* stops within what it has.
ASSUME TreesAssumption ==
  /\ StopTakes \in [RequiredServices -> Nat]
  /\ \A s \in DOMAIN StopDeadline : StopTakes[s] <= StopDeadline[s] + FlushTimeout
  /\ \A t \in Trees :
       /\ t.schema \in Folders
       /\ t.ignore \in Seq([not : BOOLEAN, mask : DOMAIN MatchedBy])
       /\ \A image \in Images : Start(image) \subseteq DOMAIN t.workspace
       /\ \A image \in Images :
            [name |-> Control.name, from |-> Control.from] \notin t.images[image].loads
       /\ \A s \in RequiredServices \cap DOMAIN t.services :
            /\ t.services[s].grace \in Nat
            /\ s \notin DOMAIN StopDeadline => StopTakes[s] <= t.services[s].grace

VARIABLES
  life,      \* of a service: "absent", "up", "done", "failed", "stopped", "killed"
  health,    \* by its healthcheck: "starting", "healthy" or "unhealthy"
  ready,     \* of a database: "no", "socket" (or loading), "ready"
  reboots

stackVars == <<life, health, ready, reboots>>
ciVars == <<gateVars, driftVars, probeVars>>
vars == <<ciVars, stackVars>>

Databases == {"postgres", "redis"}
S == tree.services
LongRunning == RequiredServices \ OneShot

StackInit ==
  /\ life = [s \in RequiredServices |-> "absent"]
  /\ health = [s \in RequiredServices |-> "starting"]
  /\ ready = [d \in Databases |-> "no"]
  /\ reboots = 0

Init == GateInit /\ DriftInit /\ ProbeInit /\ StackInit

\* The operator brings up what CI found clean.
CiIsGreen ==
  at = "clean" /\ driftCode = "0" /\ \A image \in Images : probed[image] = "0"
Up ==
  /\ CiIsGreen /\ at' = "up"
  /\ UNCHANGED <<tree, shell, dockerEnv, graph, queue, verdict>>
  /\ UNCHANGED <<driftVars, probeVars, stackVars>>

Met(dependency, condition) ==
  CASE condition = "service_started" -> life[dependency] \in {"up", "done"}
    [] condition = "service_healthy" -> health[dependency] = "healthy"
    [] condition = "service_completed_successfully" -> life[dependency] = "done"

\* `up` creates a service whose dependencies are as it asks; one found
\* unhealthy ends the command.  A service whose image lacks what it starts
\* from does not get further.
Create(s) ==
  /\ at = "up" /\ s \in DOMAIN S /\ life[s] = "absent" /\ S[s].profiles = {}
  /\ \A t \in RequiredServices : health[t] # "unhealthy"
  /\ \A d \in DOMAIN S[s].depends : Met(d, S[s].depends[d])
  /\ life' = [life EXCEPT ![s] =
       IF s \in Images => Starts(tree.workspace, tree.images[s], s) THEN "up" ELSE "failed"]
  /\ UNCHANGED ciVars /\ UNCHANGED <<health, ready, reboots>>

\* A database gets on with its start.
GetReady(d) ==
  /\ life[d] = "up" /\ ready[d] # "ready"
  /\ ready' = [ready EXCEPT ![d] = IF @ = "no" THEN "socket" ELSE "ready"]
  /\ UNCHANGED ciVars /\ UNCHANGED <<life, health, reboots>>

\* The migrations run to their end, or find no server on the address they dial.
MigrateEnds ==
  /\ at = "up" /\ life["migrate"] = "up"
  /\ life' = [life EXCEPT
       !["migrate"] = IF ready["postgres"] = "ready" THEN "done" ELSE "failed"]
  /\ UNCHANGED ciVars /\ UNCHANGED <<health, ready, reboots>>

\* Where api listens: on the port the files pin, or on the one of .env.
ListensOn == IF ApiPort(S) = "unset" THEN "of .env" ELSE ApiPort(S)

\* Whether the healthcheck of s passes: what stands around its command decides
\* first; then the command asks what it asks.
Passes(s) ==
  LET check == S[s].check
      byTcp == \E i \in DOMAIN check.options :
                 check.options[i].name = "host" /\ check.options[i].value \in TcpHosts
  IN  /\ HasHealthcheck(check)
      /\ \/ ~check.alone
         \/ s = "postgres" /\ ready[s] \in (IF byTcp THEN {"ready"} ELSE {"socket", "ready"})
         \/ /\ s = "redis" /\ ready[s] # "no"
            /\ check.program = RedisHealthcheck => ready[s] = "ready"
         \/ s = "api" /\ AsksPort(check, ListensOn)
         \/ s \in {"worker", "web"}

\* A healthcheck gives up on a service whose start outlasts its start period,
\* and on one that cannot pass.
GivesUp(s) ==
  \/ s \in Databases /\ S[s].period < StartTakes[s]
  \/ s = "api" /\ ~AsksPort(S[s].check, ListensOn)

CheckHealth(s) ==
  /\ life[s] = "up" /\ health[s] = "starting" /\ HasHealthcheck(S[s].check)
  /\ \/ Passes(s) /\ health' = [health EXCEPT ![s] = "healthy"]
     \/ ~Passes(s) /\ GivesUp(s) /\ health' = [health EXCEPT ![s] = "unhealthy"]
  /\ UNCHANGED ciVars /\ UNCHANGED <<life, ready, reboots>>

AllUp ==
  \A s \in LongRunning :
    life[s] = "up" /\ (HasHealthcheck(S[s].check) => health[s] = "healthy")

\* The host restarts under a running stack; Docker starts what is to restart.
Reboot ==
  /\ at = "up" /\ reboots < MaxReboots /\ AllUp
  /\ reboots' = reboots + 1
  /\ life' = [s \in RequiredServices |->
       IF s \in LongRunning /\ S[s].restart # RestartPolicy THEN "stopped" ELSE life[s]]
  /\ health' = [s \in RequiredServices |-> "starting"]
  /\ ready' = [d \in Databases |-> "no"]
  /\ UNCHANGED ciVars

\* `docker compose stop`, at any time; a process that is PID 1 without a
\* handler for SIGTERM does not leave of its own.
Stop ==
  /\ at = "up" /\ at' = "stopping"
  /\ UNCHANGED <<tree, shell, dockerEnv, graph, queue, verdict>>
  /\ UNCHANGED <<driftVars, probeVars, stackVars>>

LeavesInTime(s) ==
  /\ s \in UnderInit => S[s].init
  /\ StopTakes[s] <= S[s].grace

StopService(s) ==
  /\ at = "stopping" /\ life[s] = "up"
  /\ life' = [life EXCEPT ![s] = IF LeavesInTime(s) THEN "stopped" ELSE "killed"]
  /\ UNCHANGED ciVars /\ UNCHANGED <<health, ready, reboots>>

StackNext ==
  \/ Up \/ MigrateEnds \/ Reboot \/ Stop
  \/ \E s \in RequiredServices : Create(s) \/ CheckHealth(s) \/ StopService(s)
  \/ \E d \in Databases : GetReady(d)

\* The steps of CI: the gates of its one job in their order, then the probes.
\* What lies next to the folder is followed until the run of the gate is over.
AsksSchema ==
  /\ at = "clean" /\ driftCode = "none" /\ DriftNext(tree.schema)
  /\ UNCHANGED <<gateVars, probeVars, stackVars>>

\* The job of the images has a checkout of its own, without any copy.
AsksImages ==
  /\ at = "clean" /\ driftCode = "0"
  /\ copies' = <<>> /\ neighbour' = "over" /\ UNCHANGED <<drift, driftCode, outcome>>
  /\ ProbeNext(tree.workspace, tree.images)
  /\ UNCHANGED <<gateVars, stackVars>>

AsksStack == GateNext /\ UNCHANGED <<driftVars, probeVars, stackVars>>

Next == AsksStack \/ AsksSchema \/ AsksImages \/ StackNext

\* Compose, Docker and the databases go on with what they began; nothing asks
\* the operator to run CI, to stop the stack or to restart the host.
Spec ==
  /\ Init /\ [][Next]_vars
  /\ WF_vars(MigrateEnds)
  /\ \A s \in RequiredServices : WF_vars(Create(s)) /\ WF_vars(CheckHealth(s))
  /\ \A d \in Databases : WF_vars(GetReady(d))

-----------------------------------------------------------------------------
(* Properties *)

(***************************************************************************)
(* What the drift gate says is so: CI is green on a schema only with the   *)
(* migrations it needs, red with 1 only where they differ, and a run that  *)
(* was cut or could not be read says neither.                              *)
(***************************************************************************)
DriftIsTold == DriftToldOf(tree.schema)

(***************************************************************************)
(* An image holds what it should, and nothing it should not: no .env of    *)
(* the repository enters one a clean stack builds; one whose probe ended   *)
(* with 0 has all its service starts from, however far its links lead, and *)
(* no tests; 1 is never said of an image in order; and a container left    *)
(* running belongs to a probe that said so (2).                            *)
(***************************************************************************)
ImagesAreRight ==
  /\ SecretsStayOut
  /\ \A image \in Images :
       LET content == tree.images[image]
           whole == Starts(tree.workspace, content, image) /\ content.tests = {}
       IN  /\ probed[image] = "0" => whole
           /\ probed[image] = "1" => ~whole \/ content.blind
           /\ image \in containers => probed[image] = "2"

(***************************************************************************)
(* A process that dials Postgres or Redis is first started when the server *)
(* answers on the address it dials, not on the socket of its               *)
(* initialisation and not with LOADING; and api and worker only on a       *)
(* migrated database.                                                      *)
(***************************************************************************)
ServersAreThere ==
  [][\A s \in PostgresClients :
       life[s] = "absent" /\ life'[s] = "up" =>
         /\ ready["postgres"] = "ready"
         /\ s # "migrate" => ready["redis"] = "ready" /\ life["migrate"] = "done"]_vars

(***************************************************************************)
(* A clean stack comes up whole: however slowly a database starts, every   *)
(* long-running service is up, and healthy where it has a healthcheck; the *)
(* same after the host restarted; unless it is stopped.                    *)
(***************************************************************************)
StackComesUp == (at = "up" /\ ~AllUp) ~> (AllUp \/ at = "stopping")

(***************************************************************************)
(* A stop of a clean stack, whenever it comes, lets every process end by   *)
(* itself: none meets Docker's SIGKILL.                                    *)
(***************************************************************************)
NoneIsKilled == \A s \in RequiredServices : life[s] # "killed"
=============================================================================
