----------------------------- MODULE ComposeGate -----------------------------
(***************************************************************************)
(* The gate of the Compose stack (scripts/check-compose.mjs): it refuses an*)
(* entry outside the root and a COMPOSE_* variable of the shell, calls     *)
(* docker four times, walks the graph of the Compose files                 *)
(* (scripts/lib/compose-graph.mjs), and judges all of it by the rules of   *)
(* ComposeRules.                                                           *)
(*                                                                         *)
(* A working tree is what the gate can know of it:                         *)
(*   services  as Compose renders them with an empty env file,             *)
(*   takes     the variables the files read: name, field it lands in,      *)
(*             default, whether it is required,                            *)
(*   files     the Compose files, each with the files it names, whether it *)
(*             parses, and whether it has values from outside,             *)
(*   present   every other file Compose could take: overrides, .env,       *)
(*   ignore, ownIgnore, testEnv  the .dockerignore, a Dockerfile's own one,*)
(*             the addresses of .env.test;                                 *)
(* and what the gates next to it look at: schema (SchemaDrift), workspace  *)
(* and images (ImageProbe).                                                *)
(***************************************************************************)
EXTENDS ComposeRules

CONSTANTS
  Trees,     \* the working trees the gate may be run on
  Shells,    \* the sets of variables the shell may have
  Entries    \* the files the gate may be given

VARIABLES
  tree,      \* the working tree
  shell,     \* the names the environment of the gate gives a value
  at,        \* where main is
  dockerEnv, \* the names docker gets of them
  graph,     \* the graph of the Compose files, as far as it is walked
  queue,     \* the files the walk has still to read; their order shows nowhere
  verdict    \* "none", "clean" or "refused"

gateVars == <<tree, shell, at, dockerEnv, graph, queue, verdict>>

ComposeVariables == {"COMPOSE_FILE", "COMPOSE_PROFILES", "COMPOSE_ANSI"}
Harmless == {"COMPOSE_ANSI"}

\* What a call of docker may give: it fails or prints no JSON, it prints JSON
\* in a shape the rules do not read, or it prints what it was asked for.
Answers == {"failed", "another shape", "as asked"}

GateInit ==
  /\ tree \in Trees /\ shell \in Shells
  /\ at = "entry" /\ verdict = "none" /\ dockerEnv = {} /\ queue = {}
  /\ \E entry \in Entries :
       graph = [entry |-> entry, files |-> {}, references |-> {}, problems |-> {}]

Refuse ==
  /\ verdict' = "refused" /\ at' = "refused"
  /\ UNCHANGED <<tree, shell, dockerEnv, graph, queue>>

GoTo(place) ==
  /\ at' = place
  /\ UNCHANGED <<tree, shell, graph, queue, verdict>>

\* The entry lies at the root, by its canonical path; neither may resolve.
CheckEntry(resolves) ==
  /\ at = "entry"
  /\ IF resolves /\ graph.entry.dir = "root" THEN GoTo("environment") /\ UNCHANGED dockerEnv
     ELSE Refuse

\* stackChangingIn, then dockerEnvOf without names: no COMPOSE_* reaches docker.
StackChangingIn(names) == (names \cap ComposeVariables) \ Harmless
CheckEnvironment ==
  /\ at = "environment"
  /\ IF StackChangingIn(shell) # {} THEN Refuse
     ELSE GoTo("probe") /\ dockerEnv' = shell \ ComposeVariables

\* The rendering probe: this Compose keeps create_host_path in what it prints.
ProbeRendering(answer) ==
  /\ at = "probe"
  /\ IF answer = "as asked" THEN GoTo("variables") /\ UNCHANGED dockerEnv ELSE Refuse

\* config --variables; then docker gets none of the names it listed.
DropNames(names, listed) == names \ listed
ListVariables(answer) ==
  /\ at = "variables"
  /\ IF answer = "as asked" /\ CheckVariables(tree.takes)
     THEN /\ GoTo("render")
          /\ dockerEnv' = DropNames(dockerEnv, {t.name : t \in tree.takes})
     ELSE Refuse

\* The stack with an empty env file, and with the control values.  A shape the
\* rules do not read is the violation of the first of the two.
Render(answer) ==
  \/ /\ at = "render" /\ answer = "as asked"
     /\ GoTo("control") /\ UNCHANGED dockerEnv
  \/ /\ at = "control" /\ answer = "as asked" /\ at' = "walk"
     /\ queue' = IF graph.entry \in ComposeSources THEN {graph.entry} ELSE {}
     /\ UNCHANGED <<tree, shell, dockerEnv, graph, verdict>>
  \/ at \in {"render", "control"} /\ answer # "as asked" /\ Refuse

-----------------------------------------------------------------------------
(* The walk of the graph *)

\* The edges of a file the walk follows: their paths are plain, lead to a file,
\* and are admitted as written and as they resolve.
Resolves(edge) == edge.form = "path"
Admits(edge) == edge.written \in ComposeSources /\ edge.target \in ComposeSources

\* What keeps a file's part of the graph from being read: a file that is not
\* there or does not parse; an edge that is interpolated, leads nowhere, or is
\* written in a form the reader does not take.
Unread(file) ==
  IF file \notin DOMAIN tree.files \/ ~tree.files[file].parses THEN {file}
  ELSE {e \in tree.files[file].edges : ~Resolves(e)}

Edges(file) ==
  IF file \in DOMAIN tree.files /\ tree.files[file].parses
  THEN {e \in tree.files[file].edges : Resolves(e)} ELSE {}

Followed(file) == {e.target : e \in {x \in Edges(file) : Admits(x)}}

\* composeGraph: one file of the queue; what it leads to is read once.
ReadFile ==
  /\ at = "walk"
  /\ \E file \in queue :
       /\ graph' = [graph EXCEPT
            !.files = @ \cup {file},
            !.references = @ \cup Edges(file),
            !.problems = @ \cup Unread(file)]
       /\ queue' = (queue \cup Followed(file)) \ (graph.files \cup {file})
  /\ UNCHANGED <<tree, shell, at, dockerEnv, verdict>>

\* The rules, on the first render and the graph, and the two renders compared.
\* A file the rules ask for may be unreadable.
Judge(readable) ==
  /\ at = "walk" /\ queue = {}
  /\ IF /\ readable
        /\ CheckCompose(tree, graph)
        /\ CheckInterpolation(tree.takes, dockerEnv)
     THEN verdict' = "clean" /\ at' = "clean"
          /\ UNCHANGED <<tree, shell, dockerEnv, graph, queue>>
     ELSE Refuse

GateNext ==
  \/ CheckEnvironment \/ ReadFile
  \/ \E answer \in Answers :
       ProbeRendering(answer) \/ ListVariables(answer) \/ Render(answer)
  \/ \E readable \in BOOLEAN : CheckEntry(readable) \/ Judge(readable)

-----------------------------------------------------------------------------
(* What `docker compose up` would take *)

\* The file Compose starts from in the root, and what it merges into it.
Named(names, dir) == {Path(dir, n) : n \in names} \cap (DOMAIN tree.files \cup tree.present)
FirstOf(dir) ==
  LET there == {i \in DOMAIN DefaultFiles : Named({DefaultFiles[i]}, dir) # {}}
  IN  {Path(dir, DefaultFiles[i]) : i \in {j \in there : \A k \in there : j <= k}}
StartsFrom(dir) == FirstOf(dir) \cup Named(OverrideFiles, dir)

\* Every file reached from those: Compose follows each edge, so this is the
\* least set that holds them and what its files name.
EdgesOf(file) == IF file \in DOMAIN tree.files THEN tree.files[file].edges ELSE {}
TargetsOf(files) == {e.target : e \in UNION {EdgesOf(f) : f \in files}}
TakenFrom(files) ==
  LET known == files \cup DOMAIN tree.files \cup TargetsOf(DOMAIN tree.files)
      closed == {some \in SUBSET known : files \cup TargetsOf(some) \subseteq some}
  IN  {f \in known : \A some \in closed : f \in some}

\* The fields the operator's .env and shell reach.
FieldsFromOutside ==
  {t.field : t \in tree.takes}
    \cup (IF \E f \in DOMAIN tree.files \cap TakenFrom(StartsFrom("root")) :
                tree.files[f].outside
          THEN {"value of a file"} ELSE {})

(***************************************************************************)
(* What the gate found clean is what `docker compose up` brings up: from   *)
(* the root exactly the files the gate read, from the directory of any of  *)
(* them only such files, whatever the shell sets; and values from outside  *)
(* the files reach only the port of web and the build arguments.           *)
(***************************************************************************)
StackIsTheOneChecked ==
  verdict = "clean" =>
    /\ TakenFrom(StartsFrom("root")) = graph.files
    /\ \A dir \in GraphDirs(graph) : TakenFrom(StartsFrom(dir)) \subseteq graph.files
    /\ shell \cap {"COMPOSE_FILE", "COMPOSE_PROFILES"} = {}
    /\ FieldsFromOutside \subseteq {"web port", "build arg"}

\* The .env files of the tree, and the masks of a .dockerignore that match
\* them, as Docker reads it.
EnvFiles == {".env", ".env.local", "apps/.env", "apps/.env.local"}
MatchedBy ==
  [mask \in {".env", ".env.*", ".env*", "**/.env", "**/.env.*", "**/.env*",
             "**", "apps/**", "docs"} |->
    CASE mask = ".env" -> {".env"}
      [] mask = ".env.*" -> {".env.local"}
      [] mask = ".env*" -> {".env", ".env.local"}
      [] mask = "**/.env" -> {".env", "apps/.env"}
      [] mask = "**/.env.*" -> {".env.local", "apps/.env.local"}
      [] mask \in {"**/.env*", "**"} -> EnvFiles
      [] mask = "apps/**" -> {"apps/.env", "apps/.env.local"}
      [] OTHER -> {}]

\* The last line that matches a file decides: one keeps it out, and none after
\* that lets it back in.
KeptOut(file) ==
  LET lines == tree.ignore
      matching == {i \in DOMAIN lines : file \in MatchedBy[lines[i].mask]}
  IN  \E i \in matching :
        /\ ~lines[i].not
        /\ \A j \in matching : j > i => ~lines[j].not

(***************************************************************************)
(* No .env of the repository enters an image that a clean stack builds.    *)
(***************************************************************************)
SecretsStayOut ==
  verdict = "clean" =>
    \A s \in DOMAIN tree.services : tree.services[s].built =>
      ~tree.ownIgnore /\ \A file \in EnvFiles : KeptOut(file)
=============================================================================
