---------------------------- MODULE ComposeRules -----------------------------
(***************************************************************************)
(* The rules the Compose stack is held to (scripts/compose-rules.mjs), over*)
(* what the gate knows of a working tree: the services as Compose renders  *)
(* them with an empty env file, the variables its files read, the          *)
(* .dockerignore, .env.test, and the files next to the files of the stack. *)
(*                                                                         *)
(* A rule is the set of what violates it.  A path is a directory and a     *)
(* name; a command is a program, its options, and whether anything else    *)
(* stands around it.                                                       *)
(***************************************************************************)
EXTENDS Integers, Sequences, FiniteSets, SequencesExt

RequiredServices == {"postgres", "redis", "migrate", "api", "worker", "web"}
AppServices == {"api", "worker", "web"}
PostgresClients == {"migrate", "api", "worker"}
EnvReaders == PostgresClients \cup {"web"}
Published == {"web"}
Unpublished == {"api", "worker", "migrate"}
OneShot == {"migrate"}
UnderInit == {"migrate"}
LoopbackAddresses == {"127.0.0.1", "::1"}
MinGraceSec_Fault == [worker |-> 25, api |-> 10]
MinGraceSec == [worker |-> 30, api |-> 15]
MinStartPeriodSec == [postgres |-> 60, redis |-> 10]
WorkerHealthcheck == "node --import tsx src/cli/healthcheck.ts"
RedisHealthcheck == "redis-cli ping | grep -qx PONG"
RestartPolicy == "unless-stopped"
EnvTarget == "/repo/.env"

Path(dir, name) == [dir |-> dir, name |-> name]
RootFile == Path("root", "compose.yaml")
ComposeSources ==
  {RootFile, Path("infra", "docker-compose.yml"),
   Path("infra", "docker-compose.app.yml")}
OverrideFiles ==
  {"compose.override.yml", "compose.override.yaml",
   "docker-compose.override.yml", "docker-compose.override.yaml"}
DefaultFiles ==
  <<"compose.yaml", "compose.yml", "docker-compose.yml", "docker-compose.yaml">>

\* The services of names that the stack has; rule 0 tells of the others.
Of(S, names) == names \cap DOMAIN S
Env(service, key) ==
  IF key \in DOMAIN service.env THEN service.env[key] ELSE "unset"

-----------------------------------------------------------------------------
(* Healthchecks *)

\* Switched off by `disable: true` and by a test of NONE.
HasHealthcheck(check) == check.form \in {"CMD", "CMD-SHELL"}

\* The command whole, in either form; a pipe needs the shell.
RunsExactly(check, program) ==
  HasHealthcheck(check) /\ check.program = program /\ check.alone
RunsInShell(check, program) ==
  check.form = "CMD-SHELL" /\ check.program = program /\ check.alone

TcpHosts == {"127.0.0.1", "localhost", "::1"}
PgPort == "5432"

\* What each option may say; "-q" stands for the flags, "-U" for the names.
PgIsreadyOptions ==
  [host |-> TcpHosts, port |-> {PgPort}, user |-> {"sf"}, dbname |-> {"sf"},
   quiet |-> {""}]

\* pg_isready and its options alone, with one host: its own loopback.
IsReadyOverTcp(check) ==
  /\ check.program = "pg_isready" /\ check.alone
  /\ \A i \in DOMAIN check.options :
       /\ check.options[i].name \in DOMAIN PgIsreadyOptions
       /\ check.options[i].value \in PgIsreadyOptions[check.options[i].name]
  /\ Cardinality({i \in DOMAIN check.options :
                    check.options[i].name = "host"}) = 1

-----------------------------------------------------------------------------
(* Rules of the services *)

WaitsFor(service, dependency, condition) ==
  dependency \in DOMAIN service.depends
    /\ service.depends[dependency] = condition

Rule0Services(S) == RequiredServices \ DOMAIN S

\* Only web is published, the databases on loopback only.
Rule1Ports(S) ==
  {s \in DOMAIN S \ Published :
     \/ s \in Unpublished /\ S[s].ports # {}
     \/ \E p \in S[s].ports : p.ip \notin LoopbackAddresses}
  \cup {s \in Of(S, Published) : S[s].ports = {}}

Rule2Production(S) ==
  {s \in Of(S, AppServices) : Env(S[s], "NODE_ENV") # "production"}

Rule3Grace(S) ==
  {s \in Of(S, DOMAIN MinGraceSec) : S[s].grace < MinGraceSec[s]}

Rule4Healthchecks_Fault(S) ==
  {s \in Of(S, {"api", "worker", "postgres"}) : ~HasHealthcheck(S[s].check)}
  \cup {s \in Of(S, {"worker"}) : ~RunsExactly(S[s].check, WorkerHealthcheck)}
  \cup {s \in Of(S, {"redis"}) : ~RunsInShell(S[s].check, RedisHealthcheck)}
Rule4Healthchecks(S) ==
  {s \in Of(S, {"api", "worker", "postgres"}) : ~HasHealthcheck(S[s].check)}
  \cup {s \in Of(S, {"worker"}) : ~RunsExactly(S[s].check, WorkerHealthcheck)}
  \cup {s \in Of(S, {"redis"}) : ~RunsInShell(S[s].check, RedisHealthcheck)}
  \cup {s \in Of(S, DOMAIN MinStartPeriodSec) :
          S[s].period < MinStartPeriodSec[s]}

Rule5StartOrder(S) ==
  {s \in Of(S, PostgresClients) : ~WaitsFor(S[s], "postgres", "service_healthy")}
  \cup {s \in Of(S, AppServices) :
          ~WaitsFor(S[s], "migrate", "service_completed_successfully")}
  \cup {s \in Of(S, {"web"}) : ~WaitsFor(S[s], "api", "service_healthy")}
  \cup {s \in Of(S, {"api", "worker"}) :
          ~WaitsFor(S[s], "redis", "service_healthy")}

Rule6Media(S) ==
  {s \in Of(S, {"api", "worker"}) :
     ~ \E v \in S[s].volumes :
         v.type = "volume" /\ v.source = "media"
           /\ v.target = Env(S[s], "MEDIA_DIR")}

\* api's port is pinned; its healthcheck and web's address name it.
ApiPort(S) == Env(S["api"], "API_PORT")
AsksPort(check, port) ==
  \E i \in DOMAIN check.options : check.options[i] = [name |-> "port", value |-> port]
Rule7ApiPort(S) ==
  {s \in Of(S, {"api"}) : ApiPort(S) = "unset" \/ ~AsksPort(S[s].check, ApiPort(S))}
  \cup {s \in Of(S, {"web"}) :
          /\ "api" \in DOMAIN S
          /\ ApiPort(S) # "unset" /\ Env(S[s], "API_INTERNAL_URL") # ApiPort(S)}

Rule8PostgresTcp_Fault(S) ==
  {s \in Of(S, {"postgres"}) :
     ~HasHealthcheck(S[s].check) \/ S[s].check.program # "pg_isready"}
Rule8PostgresTcp(S) ==
  {s \in Of(S, {"postgres"}) :
     ~HasHealthcheck(S[s].check) \/ ~IsReadyOverTcp(S[s].check)}

Rule9Restart(S) == {s \in DOMAIN S \ OneShot : S[s].restart # RestartPolicy}

\* .env is mounted for @sf/config to read, and never given as env_file.
EnvMount == [type |-> "bind", source |-> ".env", target |-> EnvTarget,
             readOnly |-> TRUE, createHostPath |-> FALSE]
Rule10EnvMount(S) ==
  {s \in DOMAIN S : S[s].envFile}
  \cup {s \in Of(S, EnvReaders) :
          {v \in S[s].volumes : v.target = EnvTarget} # {EnvMount}}

Rule13Init(S) == {s \in Of(S, UnderInit) : ~S[s].init}

Rule16Profiles(S) == {s \in DOMAIN S : S[s].profiles # {}}

-----------------------------------------------------------------------------
(* Rules of the files around them *)

EnvMasks == {".env", ".env.*", "**/.env", "**/.env.*"}

\* MASK_COVERS: the lines that count, and the masks each stands for.
MaskCovers(line) ==
  CASE line.mask = ".env*" -> {".env", ".env.*"}
    [] line.mask = "**/.env*" -> EnvMasks
    [] OTHER -> EnvMasks \cap {line.mask}
IsMask(line) == ~line.not /\ MaskCovers(line) # {}

\* checkDockerignore: a mask that no line stands for, or any line that lets
\* something back in after the first of them.
CheckDockerignore_Fault(lines) ==
  EnvMasks \ UNION {MaskCovers(line) : line \in {l \in ToSet(lines) : ~l.not}} = {}
CheckDockerignore(lines) ==
  /\ EnvMasks \ UNION {MaskCovers(line) : line \in {l \in ToSet(lines) : ~l.not}} = {}
  /\ \A i \in DOMAIN lines :
       lines[i].not => \A j \in 1 .. i - 1 : ~IsMask(lines[j])

\* A Dockerfile's own ignore file would be read instead; without any, nothing
\* is kept out.  An ignore file that is not there is the empty one, which
\* lacks every mask.
Rule11BuildIgnores(S, tree) ==
  {s \in DOMAIN S : S[s].built
     /\ (S[s].uncheckedInputs \/ tree.ownIgnore \/ ~CheckDockerignore(tree.ignore))}

\* The port of each URL of .env.test is published on the loopback address of
\* its host, over TCP, to the port its server listens on.
TestStackTargets == [postgres |-> "5432", redis |-> "6379"]
TestStackBinds ==
  [h \in TcpHosts |-> IF h = "::1" THEN h ELSE "127.0.0.1"]
Rule12TestStackPorts(S, tree) ==
  {s \in Of(S, DOMAIN TestStackTargets) :
     LET url == tree.testEnv[s]
     IN  \/ url.host \notin DOMAIN TestStackBinds
         \/ ~ \E p \in S[s].ports :
               p.protocol = "tcp" /\ p.ip = TestStackBinds[url.host]
                 /\ p.published = url.port /\ p.target = TestStackTargets[s]}

\* What lies next to the root or a file of the graph and Compose would take
\* without -f: an override, another file of a default name; and, outside the
\* root, a .env.
GraphDirs(graph) == {"root"} \cup {f.dir : f \in graph.files}
Rule14NoOverride_Fault(tree, graph) ==
  {f \in tree.present : f.dir \in {"root"} /\ f.name \in OverrideFiles}
Rule14NoOverride(tree, graph) ==
  {f \in tree.present \cup DOMAIN tree.files :
     /\ f.dir \in GraphDirs(graph)
     /\ \/ f.name \in OverrideFiles
        \/ f.name \in ToSet(DefaultFiles)
             /\ f \notin {graph.entry} \cup graph.files
        \/ f.dir # "root" /\ f.name = ".env"}

\* Every file of the graph is one the gate is chosen on, by the path written
\* and by its realpath; what the reader could not read is its own.
Rule15ComposeSources(graph) ==
  graph.problems
    \cup ({graph.entry} \ ComposeSources)
    \cup {e \in graph.references : ~(e.written \in ComposeSources /\ e.target \in ComposeSources)}

\* Values from outside the files: a key without a value, configs, secrets, a
\* label_file.
Rule17GraphValues(tree, graph) ==
  {f \in graph.files : f \in DOMAIN tree.files /\ tree.files[f].outside}

-----------------------------------------------------------------------------
(* The whole check *)

\* checkCompose: no rule is violated, over the services and the graph.
CheckCompose(tree, graph) ==
  LET S == tree.services
  IN  /\ UNION {
           Rule0Services(S), Rule1Ports(S), Rule2Production(S), Rule3Grace(S),
           Rule4Healthchecks(S), Rule5StartOrder(S), Rule6Media(S),
           Rule7ApiPort(S), Rule8PostgresTcp(S), Rule9Restart(S),
           Rule10EnvMount(S), Rule11BuildIgnores(S, tree),
           Rule12TestStackPorts(S, tree), Rule13Init(S), Rule16Profiles(S)} = {}
      /\ Rule14NoOverride(tree, graph) = {}
      /\ Rule15ComposeSources(graph) = {}
      /\ Rule17GraphValues(tree, graph) = {}

-----------------------------------------------------------------------------
(* The variables of the files *)

\* INTERPOLATED: each variable a file may take from .env, and where it lands.
BuildArg == {"build arg"}
Interpolated ==
  [WEB_PORT |-> {"web port"}, APP_VERSION |-> BuildArg, GIT_COMMIT |-> BuildArg]

\* checkVariables: every variable is known, none required, and none has its
\* control value for a default.
CheckVariables(takes) ==
  \A t \in takes :
    t.name \in DOMAIN Interpolated /\ ~t.required /\ t.default # "control"

\* Where a variable shows in the difference of the two renders: where its
\* control value is not the value it has without it, and nothing in docker's
\* environment, which goes before the env file, gives it one of its own.
Landings(takes, dockerEnv) ==
  {t \in takes : t.default # "control" /\ t.name \notin dockerEnv}

\* checkInterpolation: each lands in the fields of its variable only.
CheckInterpolation(takes, dockerEnv) ==
  \A t \in Landings(takes, dockerEnv) : t.field \in Interpolated[t.name]
=============================================================================
