----------------------------- MODULE ComposeProofs ----------------------------
(***************************************************************************)
(* Theorems about the stack of a clean tree and the gates it passed        *)
(* (ComposeStack with ComposeGate, SchemaDrift and ImageProbe): for any    *)
(* trees, shells and entries, and any times the services take to start and *)
(* to stop that TreesAssumption admits.                                    *)
(*                                                                         *)
(* Each gate has an invariant of its own, which the steps of the others    *)
(* leave alone: what main of the gate has established where it stands      *)
(* (GateInv), what the walk of an image's manifests has met (ImagesInv),   *)
(* and of the drift gate what it has read and whose the copies are         *)
(* (ToldInv, DriftInv).  The stack stands on all of them: a stack that is  *)
(* up was found clean, and its tree does not change any more (StackInv).   *)
(***************************************************************************)
EXTENDS ComposeStack, FiniteSetTheorems, TLAPS

-----------------------------------------------------------------------------
(* Least closed sets *)

\* What is taken from some files holds them and is closed under what they name.
LEMMA TakenClosed ==
  ASSUME NEW files
  PROVE  /\ files \subseteq TakenFrom(files)
         /\ TargetsOf(TakenFrom(files)) \subseteq TakenFrom(files)
<1> DEFINE known == files \cup DOMAIN tree.files \cup TargetsOf(DOMAIN tree.files)
           closed == {some \in SUBSET known : files \cup TargetsOf(some) \subseteq some}
<1>1. TakenFrom(files) = {f \in known : \A some \in closed : f \in some}
  BY DEF TakenFrom
<1>3. TargetsOf(TakenFrom(files)) \subseteq known
  BY DEF TargetsOf, EdgesOf
<1>4. ASSUME NEW some \in closed
      PROVE  TargetsOf(TakenFrom(files)) \subseteq some
  <2>1. TakenFrom(files) \subseteq some
    BY <1>1
  <2>2. TargetsOf(TakenFrom(files)) \subseteq TargetsOf(some)
    BY <2>1 DEF TargetsOf
  <2> QED
    BY <2>2
<1> QED
  BY <1>1, <1>3, <1>4

\* ... and is in every set that holds them and is closed.
LEMMA TakenLeast ==
  ASSUME NEW files, NEW some,
         files \subseteq some, TargetsOf(some) \subseteq some
  PROVE  TakenFrom(files) \subseteq some
<1> DEFINE known == files \cup DOMAIN tree.files \cup TargetsOf(DOMAIN tree.files)
           part == some \cap known
<1>1. TargetsOf(part) \subseteq TargetsOf(some)
  BY DEF TargetsOf
<1>2. TargetsOf(part) \subseteq known
  BY DEF TargetsOf, EdgesOf
<1>3. files \cup TargetsOf(part) \subseteq part
  BY <1>1, <1>2
<1>4. part \in {x \in SUBSET known : files \cup TargetsOf(x) \subseteq x}
  BY <1>3
<1> HIDE DEF part
<1>5. TakenFrom(files) \subseteq part
  BY <1>4 DEF TakenFrom
<1> QED
  BY <1>5 DEF part

\* The same of the directories links lead to.
LEMMA ReachedClosed ==
  ASSUME NEW workspace, NEW dirs, dirs \subseteq DOMAIN workspace
  PROVE  /\ dirs \subseteq ReachedFrom(workspace, dirs)
         /\ \A d \in ReachedFrom(workspace, dirs) :
              LeadTo(workspace, {d}) \subseteq ReachedFrom(workspace, dirs)
<1> DEFINE closed == {some \in SUBSET (DOMAIN workspace) :
                        dirs \cup LeadTo(workspace, some) \subseteq some}
<1>1. ReachedFrom(workspace, dirs) = {d \in DOMAIN workspace : \A some \in closed : d \in some}
  BY DEF ReachedFrom
<1>2. ASSUME NEW d \in ReachedFrom(workspace, dirs), NEW some \in closed
      PROVE  LeadTo(workspace, {d}) \subseteq some
  <2>1. d \in some
    BY <1>1
  <2>2. LeadTo(workspace, {d}) \subseteq LeadTo(workspace, some)
    BY <2>1 DEF LeadTo
  <2> QED
    BY <2>2
<1>3. \A d : LeadTo(workspace, {d}) \subseteq DOMAIN workspace
  BY DEF LeadTo, DirOf
<1> QED
  BY <1>1, <1>2, <1>3

LEMMA ReachedLeast ==
  ASSUME NEW workspace, NEW dirs, NEW some \in SUBSET (DOMAIN workspace),
         dirs \subseteq some, LeadTo(workspace, some) \subseteq some
  PROVE  ReachedFrom(workspace, dirs) \subseteq some
BY DEF ReachedFrom

-----------------------------------------------------------------------------
(* The gate of the stack *)

Judged == {"clean", "up", "stopping"}
Walking == {"walk"} \cup Judged
Listed == {"render", "control"} \cup Walking
Probing == {"probe", "variables"} \cup Listed

\* What the walk has read is in the graph, what it leads to is read or waits,
\* and all of that is reached from the entry.
WalkInv ==
  /\ graph.entry \in ComposeSources => graph.entry \in graph.files \cup queue
  /\ graph.files \cup queue \subseteq TakenFrom({graph.entry})
  /\ \A f \in graph.files :
       /\ Unread(f) \subseteq graph.problems
       /\ Edges(f) \subseteq graph.references
       /\ Followed(f) \subseteq graph.files \cup queue

\* What main has established where it stands.
GateInv ==
  /\ tree \in Trees
  /\ graph = [entry |-> graph.entry, files |-> graph.files,
              references |-> graph.references, problems |-> graph.problems]
  /\ at \notin Walking \cup {"refused"} => graph.files = {} /\ queue = {}
  /\ at \in {"environment"} \cup Probing => graph.entry.dir = "root"
  /\ at \in Probing => StackChangingIn(shell) = {}
  /\ at \in Listed =>
       /\ CheckVariables(tree.takes)
       /\ dockerEnv \cap {t.name : t \in tree.takes} = {}
  /\ at \in Walking => WalkInv
  /\ at \in Judged =>
       queue = {} /\ CheckCompose(tree, graph) /\ CheckInterpolation(tree.takes, dockerEnv)
  /\ verdict = "clean" <=> at \in Judged

LEMMA GateInvInit == GateInit => GateInv
<1> SUFFICES ASSUME GateInit PROVE GateInv
  OBVIOUS
<1>1. PICK entry \in Entries :
        graph = [entry |-> entry, files |-> {}, references |-> {}, problems |-> {}]
  BY DEF GateInit
<1> QED
  BY <1>1 DEF GateInit, GateInv, Judged, Walking, Listed, Probing

\* A file read keeps what the walk knows.
LEMMA ReadFileKeeps == GateInv /\ ReadFile => GateInv'
<1> SUFFICES ASSUME GateInv, ReadFile PROVE GateInv'
  OBVIOUS
<1>1. PICK file \in queue :
        /\ graph' = [graph EXCEPT
             !.files = @ \cup {file},
             !.references = @ \cup Edges(file),
             !.problems = @ \cup Unread(file)]
        /\ queue' = (queue \cup Followed(file)) \ (graph.files \cup {file})
  BY DEF ReadFile
<1>2. /\ at = "walk" /\ at' = at /\ tree' = tree /\ shell' = shell
      /\ dockerEnv' = dockerEnv /\ verdict' = verdict
  BY DEF ReadFile
<1>3. /\ graph'.entry = graph.entry
      /\ graph'.files = graph.files \cup {file}
      /\ graph'.references = graph.references \cup Edges(file)
      /\ graph'.problems = graph.problems \cup Unread(file)
      /\ graph' = [entry |-> graph'.entry, files |-> graph'.files,
                   references |-> graph'.references, problems |-> graph'.problems]
  BY <1>1 DEF GateInv
<1>4. WalkInv
  BY <1>2 DEF GateInv, Walking
<1>5. \A f : Unread(f)' = Unread(f) /\ Edges(f)' = Edges(f) /\ Followed(f)' = Followed(f)
  BY <1>2 DEF Unread, Edges, Followed, Resolves, Admits
<1>6. TakenFrom({graph.entry})' = TakenFrom({graph.entry})
  BY <1>2, <1>3 DEF TakenFrom, TargetsOf, EdgesOf
<1>7. Followed(file) \subseteq TakenFrom({graph.entry})
  <2>1. file \in TakenFrom({graph.entry})
    BY <1>4 DEF WalkInv
  <2>2. Followed(file) \subseteq TargetsOf(TakenFrom({graph.entry}))
    BY <2>1 DEF Followed, Edges, TargetsOf, EdgesOf
  <2> QED
    BY <2>2, TakenClosed
<1>8. WalkInv'
  <2> HIDE DEF Unread, Edges, Followed, TakenFrom
  <2>1. graph'.files \cup queue' = graph.files \cup queue \cup Followed(file)
    BY <1>1, <1>3
  <2>2. (graph.entry \in ComposeSources => graph.entry \in graph.files \cup queue)'
    BY <1>3, <1>4, <2>1 DEF WalkInv, ComposeSources
  <2>3. (graph.files \cup queue \subseteq TakenFrom({graph.entry}))'
    BY <1>4, <1>6, <1>7, <2>1 DEF WalkInv
  <2>4. ASSUME NEW f \in graph'.files
        PROVE  /\ Unread(f) \subseteq graph'.problems
               /\ Edges(f) \subseteq graph'.references
               /\ Followed(f) \subseteq graph'.files \cup queue'
    <3>1. f \in graph.files \/ f = file
      BY <1>3
    <3> QED
      BY <1>3, <1>4, <2>1, <3>1 DEF WalkInv
  <2> QED
    BY <1>5, <2>2, <2>3, <2>4 DEF WalkInv
<1>9. /\ at' \notin Judged /\ at' \in Walking /\ verdict' # "clean"
      /\ graph'.entry.dir = "root"
  BY <1>2, <1>3 DEF GateInv, Judged, Walking, Listed, Probing
<1> QED
  BY <1>2, <1>3, <1>8, <1>9
     DEF GateInv, Judged, Walking, Listed, Probing, StackChangingIn, CheckVariables

\* Every other step of the gate.
LEMMA GateStepKeeps ==
  ASSUME GateInv, GateNext, ~ReadFile
  PROVE  GateInv'
<1> USE DEF Judged, Walking, Listed, Probing
<1>1. ASSUME Refuse, at \notin Judged PROVE GateInv'
  BY <1>1 DEF GateInv, Refuse
<1>2. ASSUME CheckEnvironment PROVE GateInv'
  <2>1. CASE StackChangingIn(shell) # {}
    BY <1>1, <1>2, <2>1 DEF CheckEnvironment
  <2>2. CASE StackChangingIn(shell) = {}
    BY <1>2, <2>2 DEF GateInv, CheckEnvironment, GoTo, StackChangingIn
  <2> QED
    BY <2>1, <2>2
<1>3. ASSUME NEW answer, ProbeRendering(answer) PROVE GateInv'
  <2>1. CASE answer = "as asked"
    BY <1>3, <2>1 DEF GateInv, ProbeRendering, GoTo, StackChangingIn
  <2> QED
    BY <1>1, <1>3, <2>1 DEF ProbeRendering
<1>4. ASSUME NEW answer, ListVariables(answer) PROVE GateInv'
  <2>1. CASE answer = "as asked" /\ CheckVariables(tree.takes)
    <3>1. dockerEnv' \cap {t.name : t \in tree'.takes} = {}
      BY <1>4, <2>1 DEF ListVariables, DropNames, GoTo
    <3> QED
      BY <1>4, <2>1, <3>1 DEF GateInv, ListVariables, GoTo, StackChangingIn, CheckVariables
  <2> QED
    BY <1>1, <1>4, <2>1 DEF ListVariables
<1>5. ASSUME NEW answer, Render(answer) PROVE GateInv'
  <2>1. CASE at = "render" /\ answer = "as asked"
    BY <1>5, <2>1 DEF GateInv, Render, Refuse, GoTo, StackChangingIn, CheckVariables
  <2>2. CASE at = "control" /\ answer = "as asked"
    <3>1. /\ at' = "walk" /\ graph' = graph /\ tree' = tree /\ shell' = shell
          /\ dockerEnv' = dockerEnv /\ verdict' = verdict
          /\ queue' = (IF graph.entry \in ComposeSources THEN {graph.entry} ELSE {})
      BY <1>5, <2>2 DEF Render, Refuse, GoTo
    <3>2. graph'.files = {}
      BY <2>2, <3>1 DEF GateInv
    <3>3. WalkInv'
      <4>1. {graph.entry} \subseteq TakenFrom({graph.entry})'
        BY <3>1, TakenClosed DEF TakenFrom, TargetsOf, EdgesOf
      <4> QED
        BY <3>1, <3>2, <4>1 DEF WalkInv, ComposeSources
    <3> QED
      BY <2>2, <3>1, <3>2, <3>3 DEF GateInv, StackChangingIn, CheckVariables
  <2>3. CASE answer # "as asked"
    BY <1>1, <1>5, <2>3 DEF Render
  <2> QED
    BY <1>5, <2>1, <2>2, <2>3 DEF Render
<1>6. ASSUME NEW readable, CheckEntry(readable) PROVE GateInv'
  <2>1. CASE readable /\ graph.entry.dir = "root"
    BY <1>6, <2>1 DEF GateInv, CheckEntry, GoTo
  <2> QED
    BY <1>1, <1>6, <2>1 DEF CheckEntry
<1>7. ASSUME NEW readable, Judge(readable) PROVE GateInv'
  <2>1. CASE /\ readable /\ CheckCompose(tree, graph)
             /\ CheckInterpolation(tree.takes, dockerEnv)
    <3>1. /\ at = "walk" /\ queue = {} /\ at' = "clean" /\ verdict' = "clean"
          /\ UNCHANGED <<tree, shell, dockerEnv, graph, queue>>
      BY <1>7, <2>1 DEF Judge
    <3>2. /\ CheckCompose(tree, graph)' /\ CheckInterpolation(tree.takes, dockerEnv)'
          /\ WalkInv' /\ CheckVariables(tree.takes)' /\ StackChangingIn(shell)' = {}
      <4>1. WalkInv /\ CheckVariables(tree.takes) /\ StackChangingIn(shell) = {}
        BY <3>1 DEF GateInv
      <4>2. WalkInv'
        BY <3>1, <4>1 DEF WalkInv, TakenFrom, TargetsOf, EdgesOf, Unread, Edges, Followed
      <4> QED
        BY <2>1, <3>1, <4>1, <4>2
    <3> QED
      BY <3>1, <3>2 DEF GateInv
  <2> QED
    BY <1>1, <1>7, <2>1 DEF Judge
<1> QED
  BY <1>2, <1>3, <1>4, <1>5, <1>6, <1>7 DEF GateNext

\* What is clean is brought up, or stopped, as it is.
LEMMA GateMovesOn ==
  ASSUME GateInv, UNCHANGED <<tree, shell, dockerEnv, graph, queue, verdict>>,
         at' = at \/ (at \in Judged /\ at' \in Judged)
  PROVE  GateInv'
<1>1. WalkInv' = WalkInv
  BY DEF WalkInv, TakenFrom, TargetsOf, EdgesOf, Unread, Edges, Followed
<1>2. /\ CheckCompose(tree, graph)' = CheckCompose(tree, graph)
      /\ CheckInterpolation(tree.takes, dockerEnv)' = CheckInterpolation(tree.takes, dockerEnv)
      /\ CheckVariables(tree.takes)' = CheckVariables(tree.takes)
      /\ StackChangingIn(shell)' = StackChangingIn(shell)
  OBVIOUS
<1> QED
  BY <1>1, <1>2 DEF GateInv, Judged, Walking, Listed, Probing

LEMMA GateInvStep == GateInv /\ [Next]_vars => GateInv'
<1> SUFFICES ASSUME GateInv, [Next]_vars PROVE GateInv'
  OBVIOUS
<1>1. CASE GateNext
  BY <1>1, ReadFileKeeps, GateStepKeeps
<1>2. CASE Up \/ Stop
  BY <1>2, GateMovesOn DEF Up, Stop, CiIsGreen, Judged
<1>3. CASE UNCHANGED gateVars
  BY <1>3, GateMovesOn DEF gateVars
<1> QED
  BY <1>1, <1>2, <1>3
     DEF Next, AsksStack, AsksSchema, AsksImages, StackNext, vars, ciVars, gateVars,
         MigrateEnds, Reboot, Create, CheckHealth, StopService, GetReady

\* What a clean verdict says of the services, rule by rule.
LEMMA RulesHold ==
  ASSUME CheckCompose(tree, graph)
  PROVE  /\ Rule0Services(S) = {} /\ Rule3Grace(S) = {} /\ Rule4Healthchecks(S) = {}
         /\ Rule5StartOrder(S) = {} /\ Rule8PostgresTcp(S) = {}
         /\ Rule11BuildIgnores(S, tree) = {} /\ Rule13Init(S) = {}
         /\ Rule14NoOverride(tree, graph) = {} /\ Rule15ComposeSources(graph) = {}
         /\ Rule17GraphValues(tree, graph) = {}
BY DEF CheckCompose, S

\* Where the gate was clean, Compose starts from files of the graph only.
LEMMA StartsInGraph ==
  ASSUME GateInv, verdict = "clean"
  PROVE  /\ graph.entry = RootFile /\ RootFile \in graph.files
         /\ StartsFrom("root") = {RootFile}
         /\ \A dir \in GraphDirs(graph) : StartsFrom(dir) \subseteq graph.files
<1>1. /\ CheckCompose(tree, graph) /\ WalkInv /\ queue = {} /\ graph.entry.dir = "root"
  BY DEF GateInv, Judged, Walking, Listed, Probing
<1>2. /\ Rule14NoOverride(tree, graph) = {} /\ Rule15ComposeSources(graph) = {}
  BY <1>1, RulesHold
<1>3. graph.entry \in ComposeSources /\ graph.problems = {}
  BY <1>2 DEF Rule15ComposeSources
<1>4. graph.entry = RootFile
  BY <1>1, <1>3 DEF ComposeSources, Path, RootFile
<1>5. RootFile \in graph.files
  BY <1>1, <1>3, <1>4 DEF WalkInv
<1>6. RootFile \in DOMAIN tree.files
  BY <1>1, <1>3, <1>5 DEF WalkInv, Unread
<1>7. ASSUME NEW dir \in GraphDirs(graph), NEW f \in StartsFrom(dir)
      PROVE  f \in graph.files
  <2>1. /\ f \in tree.present \cup DOMAIN tree.files /\ f.dir = dir
        /\ f.name \in OverrideFiles \cup ToSet(DefaultFiles)
    BY DEF StartsFrom, FirstOf, Named, Path, ToSet
  <2>2. f \in {graph.entry} \cup graph.files
    BY <1>2, <2>1 DEF Rule14NoOverride
  <2> QED
    BY <1>4, <1>5, <2>2
<1>8. StartsFrom("root") = {RootFile}
  <2>1. Named({DefaultFiles[1]}, "root") = {RootFile}
    BY <1>6 DEF Named, DefaultFiles, RootFile, Path
  <2>2. ASSUME NEW f \in FirstOf("root") PROVE f = RootFile
    <3>1. PICK i \in DOMAIN DefaultFiles :
            /\ f = Path("root", DefaultFiles[i])
            /\ \A k \in DOMAIN DefaultFiles : Named({DefaultFiles[k]}, "root") # {} => i <= k
      BY DEF FirstOf
    <3>2. i = 1
      BY <2>1, <3>1 DEF DefaultFiles
    <3> QED
      BY <3>1, <3>2 DEF DefaultFiles, RootFile
  <2>3. RootFile \in FirstOf("root")
    <3>1. 1 \in {i \in DOMAIN DefaultFiles : Named({DefaultFiles[i]}, "root") # {}}
      BY <2>1 DEF DefaultFiles
    <3>2. \A k \in DOMAIN DefaultFiles : 1 <= k
      BY DEF DefaultFiles
    <3>3. RootFile = Path("root", DefaultFiles[1])
      BY DEF DefaultFiles, RootFile
    <3> QED
      BY <3>1, <3>2, <3>3 DEF FirstOf
  <2>4. Named(OverrideFiles, "root") = {}
    <3>1. "root" \in GraphDirs(graph)
      BY DEF GraphDirs
    <3> QED
      BY <1>2, <3>1 DEF Named, Path, Rule14NoOverride
  <2> QED
    BY <2>2, <2>3, <2>4 DEF StartsFrom
<1> QED
  BY <1>4, <1>5, <1>7, <1>8

\* ... and every edge of a file of the graph leads to one.
LEMMA GraphClosed ==
  ASSUME GateInv, verdict = "clean"
  PROVE  /\ graph.files \subseteq DOMAIN tree.files
         /\ TargetsOf(graph.files) \subseteq graph.files
<1>1. /\ CheckCompose(tree, graph) /\ WalkInv /\ queue = {}
  BY DEF GateInv, Judged, Walking, Listed, Probing
<1>2. Rule15ComposeSources(graph) = {}
  BY <1>1, RulesHold
<1>3. ASSUME NEW f \in graph.files
      PROVE  f \in DOMAIN tree.files /\ \A e \in EdgesOf(f) : e.target \in graph.files
  <2>1. Unread(f) = {}
    BY <1>1, <1>2 DEF WalkInv, Rule15ComposeSources
  <2>2. f \in DOMAIN tree.files /\ tree.files[f].parses
    BY <2>1 DEF Unread
  <2>3. Edges(f) = EdgesOf(f)
    BY <2>1, <2>2 DEF Unread, Edges, EdgesOf
  <2>4. \A e \in Edges(f) : Admits(e)
    BY <1>1, <1>2 DEF WalkInv, Rule15ComposeSources, Admits
  <2>5. \A e \in Edges(f) : e.target \in Followed(f)
    BY <2>4 DEF Followed
  <2> QED
    BY <1>1, <2>2, <2>3, <2>5 DEF WalkInv
<1> QED
  BY <1>3 DEF TargetsOf

LEMMA GateInvCheckedOne == GateInv => StackIsTheOneChecked
<1> SUFFICES ASSUME GateInv, verdict = "clean" PROVE StackIsTheOneChecked
  BY DEF StackIsTheOneChecked
<1>1. /\ CheckCompose(tree, graph) /\ WalkInv /\ queue = {}
      /\ CheckVariables(tree.takes) /\ CheckInterpolation(tree.takes, dockerEnv)
      /\ dockerEnv \cap {t.name : t \in tree.takes} = {}
      /\ StackChangingIn(shell) = {}
  BY DEF GateInv, Judged, Walking, Listed, Probing
<1>2. TakenFrom(StartsFrom("root")) = graph.files
  <2>1. TakenFrom({RootFile}) \subseteq graph.files
    BY StartsInGraph, GraphClosed, TakenLeast
  <2>2. graph.files \subseteq TakenFrom({RootFile})
    BY <1>1, StartsInGraph DEF WalkInv
  <2> QED
    BY <2>1, <2>2, StartsInGraph
<1>3. \A dir \in GraphDirs(graph) : TakenFrom(StartsFrom(dir)) \subseteq graph.files
  BY StartsInGraph, GraphClosed, TakenLeast
<1>4. shell \cap {"COMPOSE_FILE", "COMPOSE_PROFILES"} = {}
  BY <1>1 DEF StackChangingIn, ComposeVariables, Harmless
<1>5. FieldsFromOutside \subseteq {"web port", "build arg"}
  <2>1. ASSUME NEW t \in tree.takes PROVE t.field \in {"web port", "build arg"}
    <3>1. t \in Landings(tree.takes, dockerEnv)
      BY <1>1 DEF CheckVariables, Landings
    <3>2. t.name \in DOMAIN Interpolated /\ t.field \in Interpolated[t.name]
      BY <1>1, <3>1 DEF CheckVariables, CheckInterpolation
    <3>3. \A n \in DOMAIN Interpolated : Interpolated[n] \subseteq {"web port", "build arg"}
      <4>1. DOMAIN Interpolated = {"WEB_PORT", "APP_VERSION", "GIT_COMMIT"}
        BY DEF Interpolated
      <4>2. /\ Interpolated["WEB_PORT"] = {"web port"}
            /\ Interpolated["APP_VERSION"] = {"build arg"}
            /\ Interpolated["GIT_COMMIT"] = {"build arg"}
        BY DEF Interpolated, BuildArg
      <4> QED
        BY <4>1, <4>2
    <3> QED
      BY <3>2, <3>3
  <2>2. \A f \in DOMAIN tree.files \cap TakenFrom(StartsFrom("root")) : ~tree.files[f].outside
    BY <1>1, <1>2, RulesHold DEF Rule17GraphValues
  <2> QED
    BY <2>1, <2>2 DEF FieldsFromOutside
<1> QED
  BY <1>2, <1>3, <1>4, <1>5 DEF StackIsTheOneChecked

\* A mask of .dockerignore that must be there, for each .env of the tree.
MaskFor == [f \in EnvFiles |-> CASE f = ".env" -> ".env"
                                 [] f = ".env.local" -> ".env.*"
                                 [] f = "apps/.env" -> "**/.env"
                                 [] f = "apps/.env.local" -> "**/.env.*"]

LEMMA IgnoreKeepsOut ==
  ASSUME tree \in Trees, CheckDockerignore(tree.ignore), NEW f \in EnvFiles
  PROVE  KeptOut(f)
<1> DEFINE lines == tree.ignore
           mask == MaskFor[f]
<1>1. mask \in EnvMasks
  BY DEF MaskFor, EnvFiles, EnvMasks
<1>2. PICK i \in DOMAIN lines : ~lines[i].not /\ mask \in MaskCovers(lines[i])
  BY <1>1 DEF CheckDockerignore, ToSet
<1>3. f \in MatchedBy[lines[i].mask]
  <2>1. \/ lines[i].mask = ".env*" /\ mask \in {".env", ".env.*"}
        \/ lines[i].mask = "**/.env*"
        \/ lines[i].mask = mask
    BY <1>2 DEF MaskCovers
  <2>2. CASE lines[i].mask = ".env*" /\ mask \in {".env", ".env.*"}
    BY <2>2 DEF MatchedBy, MaskFor, EnvFiles
  <2>3. CASE lines[i].mask = "**/.env*"
    BY <2>3 DEF MatchedBy, EnvFiles
  <2>4. CASE lines[i].mask = mask
    BY <2>4 DEF MatchedBy, MaskFor, EnvFiles
  <2> QED
    BY <2>1, <2>2, <2>3, <2>4
<1>4. IsMask(lines[i])
  BY <1>2 DEF IsMask
<1>5. ASSUME NEW j \in DOMAIN lines, j > i PROVE ~lines[j].not
  <2>1. DOMAIN lines \subseteq Nat \ {0}
    BY TreesAssumption
  <2> QED
    BY <1>4, <1>5, <2>1 DEF CheckDockerignore
<1> QED
  BY <1>2, <1>3, <1>5 DEF KeptOut

LEMMA GateInvSecrets == GateInv => SecretsStayOut
<1> SUFFICES ASSUME GateInv, verdict = "clean",
                    NEW s \in DOMAIN tree.services, tree.services[s].built
             PROVE  ~tree.ownIgnore /\ \A file \in EnvFiles : KeptOut(file)
  BY DEF SecretsStayOut
<1>1. Rule11BuildIgnores(S, tree) = {}
  BY RulesHold DEF GateInv, Judged, Walking
<1>2. ~tree.ownIgnore /\ CheckDockerignore(tree.ignore)
  BY <1>1 DEF Rule11BuildIgnores, S
<1> QED
  BY <1>2, IgnoreKeepsOut DEF GateInv

-----------------------------------------------------------------------------
(* The probes of the images *)

Codes == {"none", "0", "1", "2"}

\* What the walk of an image has met is reached from its directory, and of what
\* it has read every link was followed.
WalkOf(image) ==
  /\ Start(image) \subseteq walk.seen
  /\ walk.seen \subseteq ReachedFrom(tree.workspace, Start(image))
  /\ walk.pending \subseteq walk.seen
  /\ \A dir \in walk.seen \ walk.pending : LeadTo(tree.workspace, {dir}) \subseteq walk.seen

\* What the code of a probe says of its image.
Whole(image) ==
  LET content == tree.images[image]
  IN  Starts(tree.workspace, content, image) /\ content.tests = {}
ImageTold(image) ==
  /\ probed[image] = "0" => Whole(image)
  /\ probed[image] = "1" => ~Whole(image) \/ tree.images[image].blind
  /\ image \in containers => probed[image] = "2"

ImagesInv ==
  /\ probed \in [Images -> Codes] /\ containers \subseteq Images
  /\ walk = [on |-> walk.on, seen |-> walk.seen, pending |-> walk.pending]
  /\ \A image \in Images : IsNext(image) /\ walk.on => WalkOf(image)
  /\ \A image \in Images : ImageTold(image)

\* The images in their order, of which one at a time is next.
LEMMA OneIsNext ==
  ASSUME NEW one, NEW other, IsNext(one), IsNext(other)
  PROVE  one = other
<1>1. PICK i \in DOMAIN Matrix : /\ Matrix[i] = one /\ probed[one] = "none"
                                 /\ \A k \in 1 .. i - 1 : probed[Matrix[k]] # "none"
  BY DEF IsNext
<1>2. PICK j \in DOMAIN Matrix : /\ Matrix[j] = other /\ probed[other] = "none"
                                 /\ \A k \in 1 .. j - 1 : probed[Matrix[k]] # "none"
  BY DEF IsNext
<1>3. DOMAIN Matrix = 1 .. 4
  BY DEF Matrix
<1> QED
  BY <1>1, <1>2, <1>3

\* The walk at its end has met exactly what the image's directory leads to.
LEMMA WalkIsWhole ==
  ASSUME tree \in Trees, NEW image \in Images, WalkOf(image), walk.pending = {}
  PROVE  walk.seen = ReachedFrom(tree.workspace, Start(image))
<1>1. walk.seen \subseteq DOMAIN tree.workspace
  BY DEF WalkOf, ReachedFrom
<1>2. LeadTo(tree.workspace, walk.seen) \subseteq walk.seen
  BY DEF WalkOf, LeadTo
<1> QED
  BY <1>1, <1>2, ReachedLeast DEF WalkOf

\* What the probe asks for, at the end of its walk, is what its service starts
\* from.
LEMMA ChecksAreStarts ==
  ASSUME tree \in Trees, NEW image \in Images,
         walk.seen = ReachedFrom(tree.workspace, Start(image)),
         ~tree.images[image].blind
  PROVE  Missing(tree.images[image], ChecksOf(tree.workspace, image)) = {}
           <=> Starts(tree.workspace, tree.images[image], image)
<1> DEFINE content == tree.images[image]
           ws == tree.workspace
           found(check) == IF check.kind = "file" THEN check \in content.files
                           ELSE LET p == [name |-> check.name, from |-> check.from]
                                IN  p \in content.loads
                                      \/ (check.resolveOnly /\ p \in content.there)
<1>1. Missing(content, ChecksOf(ws, image)) = {}
        <=> \A check \in ChecksOf(ws, image) : found(check)
  BY DEF Missing, Finds
<1>2. (\A check \in {Package("tsx", dir) : dir \in Start(image)} : found(check))
        <=> (image \in DOMAIN WorkspaceOf =>
               [name |-> "tsx", from |-> WorkspaceOf[image]] \in content.loads)
  <2>1. \A dir : found(Package("tsx", dir)) <=> [name |-> "tsx", from |-> dir] \in content.loads
    BY DEF Package
  <2> HIDE DEF found
  <2> QED
    BY <2>1 DEF Start
<1>3. (\A check \in Probes[image] : found(check))
        <=> \A check \in Probes[image] :
              IF check.kind = "file" THEN check \in content.files
              ELSE [name |-> check.name, from |-> check.from] \in content.loads
  <2>1. \A check \in Probes[image] : ~check.resolveOnly
    BY DEF Probes, Images, Matrix, Package, FileAt
  <2> QED
    BY <2>1
<1>4. (\A check \in WorkspaceChecks(ws) : found(check))
        <=> \A d \in walk.seen :
              /\ \A l \in ws[d].links : FileAt(l, d) \in content.files
              /\ \A n \in ws[d].externals :
                   [name |-> n, from |-> d] \in content.loads
                      \cup (IF n \in ResolveOnly THEN content.there ELSE {})
  <2> DEFINE asked(n, d) == [Package(n, d) EXCEPT !.resolveOnly = n \in ResolveOnly]
  <2>1. \A l, d : found(FileAt(l, d)) <=> FileAt(l, d) \in content.files
    BY DEF FileAt
  <2>2. \A n, d : found(asked(n, d)) <=>
                   [name |-> n, from |-> d] \in content.loads
                      \cup (IF n \in ResolveOnly THEN content.there ELSE {})
    <3> SUFFICES ASSUME NEW n, NEW d
                 PROVE  found(asked(n, d)) <=>
                          [name |-> n, from |-> d] \in content.loads
                             \cup (IF n \in ResolveOnly THEN content.there ELSE {})
      OBVIOUS
    <3>1. asked(n, d) = [kind |-> "package", name |-> n, from |-> d,
                         resolveOnly |-> n \in ResolveOnly]
      BY DEF Package
    <3> QED
      BY <3>1
  <2> DEFINE of(d) == {FileAt(l, d) : l \in ws[d].links}
                        \cup {asked(n, d) : n \in ws[d].externals}
  <2>3. \A d : (\A check \in of(d) : found(check))
                 <=> /\ \A l \in ws[d].links : FileAt(l, d) \in content.files
                     /\ \A n \in ws[d].externals :
                          [name |-> n, from |-> d] \in content.loads
                             \cup (IF n \in ResolveOnly THEN content.there ELSE {})
    <3> HIDE DEF found, asked
    <3> SUFFICES ASSUME NEW d
                 PROVE  (\A check \in of(d) : found(check))
                          <=> /\ \A l \in ws[d].links : found(FileAt(l, d))
                              /\ \A n \in ws[d].externals : found(asked(n, d))
      BY <2>1, <2>2, Zenon
    <3> QED
      OBVIOUS
  <2>4. WorkspaceChecks(ws) = UNION {of(d) : d \in walk.seen}
    BY DEF WorkspaceChecks
  <2> HIDE DEF of, found
  <2>5. (\A check \in WorkspaceChecks(ws) : found(check))
          <=> \A d \in walk.seen : \A check \in of(d) : found(check)
    BY <2>4
  <2> QED
    BY <2>3, <2>5, Zenon
<1>5. image \notin DOMAIN WorkspaceOf => walk.seen = {}
  <2>1. LeadTo(ws, {}) = {}
    BY DEF LeadTo
  <2> QED
    BY <2>1, ReachedLeast DEF Start
<1> HIDE DEF found
<1> QED
  BY <1>1, <1>2, <1>3, <1>4, <1>5 DEF ChecksOf, Starts

LEMMA ImagesInvInit == ProbeInit => ImagesInv
BY DEF ProbeInit, ImagesInv, Codes, NoWalk, ImageTold

\* An image whose probe and content did not change is told of as before.
LEMMA ToldAsBefore ==
  ASSUME NEW image \in Images, ImageTold(image), tree' = tree,
         probed'[image] = probed[image],
         image \in containers' => image \in containers
  PROVE  ImageTold(image)'
BY DEF ImageTold, Whole

\* A probe that ends says of the next image what is so, and of no other.
LEMMA SayingKeeps ==
  ASSUME ImagesInv, tree' = tree, NEW image \in Images, NEW code \in Codes,
         IsNext(image), Says(image, code),
         containers' \in {containers, containers \cup {image}},
         code = "0" => Whole(image),
         code = "1" => ~Whole(image) \/ tree.images[image].blind,
         code # "2" => containers' = containers
  PROVE  ImagesInv'
<1>1. /\ probed' \in [Images -> Codes] /\ probed'[image] = code
      /\ \A other \in Images \ {image} : probed'[other] = probed[other]
  BY DEF ImagesInv, Says
<1>2. /\ containers' \subseteq Images /\ walk' = NoWalk
  BY DEF ImagesInv, Says
<1>3. ASSUME NEW other \in Images PROVE ImageTold(other)'
  <2>1. CASE other = image
    <3>1. Whole(image)' <=> Whole(image)
      BY DEF Whole
    <3>2. image \in containers => probed[image] = "2"
      BY DEF ImagesInv, ImageTold
    <3>3. probed[image] = "none"
      BY DEF IsNext
    <3> QED
      BY <1>1, <2>1, <3>1, <3>2, <3>3 DEF ImageTold
  <2>2. CASE other # image
    BY <1>1, <2>2, ToldAsBefore DEF ImagesInv
  <2> QED
    BY <2>1, <2>2
<1> QED
  BY <1>1, <1>2, <1>3 DEF ImagesInv, NoWalk

\* While a walk goes on nothing is said.
LEMMA WalkKeeps ==
  ASSUME ImagesInv, tree' = tree, UNCHANGED <<probed, containers>>,
         walk' = [on |-> walk'.on, seen |-> walk'.seen, pending |-> walk'.pending],
         \A image \in Images : IsNext(image) /\ walk'.on => WalkOf(image)'
  PROVE  ImagesInv'
<1>1. \A image \in Images : IsNext(image)' = IsNext(image)
  BY DEF IsNext
<1>2. \A image \in Images : ImageTold(image)'
  BY ToldAsBefore DEF ImagesInv
<1> QED
  BY <1>1, <1>2 DEF ImagesInv

LEMMA ImagesInvStep ==
  ASSUME ImagesInv, tree \in Trees, tree' = tree, ProbeNext(tree.workspace, tree.images)
  PROVE  ImagesInv'
<1> DEFINE ws == tree.workspace
<1>1. ASSUME NEW image \in Images, WalkBegins(image) PROVE ImagesInv'
  <2>1. Start(image) \subseteq ReachedFrom(ws, Start(image))
    BY ReachedClosed, TreesAssumption
  <2>2. WalkOf(image)'
    BY <1>1, <2>1 DEF WalkOf, WalkBegins, LeadTo
  <2> QED
    BY <1>1, <2>2, WalkKeeps, OneIsNext DEF WalkBegins
<1>2. ASSUME WalkReads(ws) PROVE ImagesInv'
  <2>1. PICK dir \in walk.pending :
          walk' = [walk EXCEPT !.seen = @ \cup LeadTo(ws, {dir}),
                             !.pending = (@ \ {dir}) \cup (LeadTo(ws, {dir}) \ walk.seen)]
    BY <1>2 DEF WalkReads
  <2>2. /\ walk'.on = walk.on
        /\ walk'.seen = walk.seen \cup LeadTo(ws, {dir})
        /\ walk'.pending = (walk.pending \ {dir}) \cup (LeadTo(ws, {dir}) \ walk.seen)
        /\ walk' = [on |-> walk'.on, seen |-> walk'.seen, pending |-> walk'.pending]
    BY <2>1 DEF ImagesInv
  <2>3. ASSUME NEW image \in Images, IsNext(image), walk'.on PROVE WalkOf(image)'
    <3>1. WalkOf(image)
      BY <2>2, <2>3 DEF ImagesInv
    <3>2. dir \in ReachedFrom(ws, Start(image))
      BY <3>1 DEF WalkOf
    <3>3. LeadTo(ws, {dir}) \subseteq ReachedFrom(ws, Start(image))
      BY <3>2, ReachedClosed, TreesAssumption
    <3>4. \A d \in walk'.seen \ walk'.pending : d \in walk.seen \ walk.pending \/ d = dir
      BY <2>2
    <3> QED
      BY <2>2, <3>1, <3>3, <3>4 DEF WalkOf
  <2> QED
    BY <1>2, <2>2, <2>3, WalkKeeps DEF WalkReads
<1>3. ASSUME NEW image \in Images, ProbeEnds(ws, tree.images[image], image) PROVE ImagesInv'
  <2> DEFINE content == tree.images[image]
             missing == Missing(content, ChecksOf(ws, image))
             control == IF Finds(content, Control) THEN "passed" ELSE "failed"
             code == CodeOf(missing, content.tests, control)
  <2>1. IsNext(image) /\ walk.on /\ walk.pending = {} /\ containers' = containers
        /\ Says(image, code)
    BY <1>3 DEF ProbeEnds, Walked
  <2>2. walk.seen = ReachedFrom(ws, Start(image))
    BY <2>1, WalkIsWhole DEF ImagesInv
  <2>3. Finds(content, Control) <=> content.blind
    <3>1. Control.kind # "file" /\ ~Control.resolveOnly
      BY DEF Control, Package
    <3> QED
      BY <3>1, TreesAssumption DEF Finds
  <2>4. ~content.blind => (missing = {} <=> Starts(ws, content, image))
    BY <2>2, ChecksAreStarts
  <2>5. /\ code \in Codes /\ code # "2"
        /\ code = "0" => Whole(image)
        /\ code = "1" => ~Whole(image) \/ content.blind
    <3> HIDE DEF missing
    <3> QED
      BY <2>3, <2>4 DEF CodeOf, Codes, Whole
  <2> HIDE DEF code
  <2> QED
    BY <2>1, <2>5, SayingKeeps
<1>4. ASSUME NEW image \in Images, ProbeCannotRun(image) \/ ProbeTimesOut(image)
      PROVE  ImagesInv'
  BY <1>4, SayingKeeps DEF ProbeCannotRun, ProbeTimesOut, Walked, Codes
<1> QED
  BY <1>1, <1>2, <1>3, <1>4 DEF ProbeNext

LEMMA ImagesStay ==
  ASSUME ImagesInv, tree' = tree, UNCHANGED probeVars
  PROVE  ImagesInv'
BY ToldAsBefore DEF ImagesInv, probeVars, IsNext, WalkOf

LEMMA ImagesInvSays == ImagesInv /\ SecretsStayOut => ImagesAreRight
BY DEF ImagesInv, ImageTold, Whole, ImagesAreRight

-----------------------------------------------------------------------------
(* The gate of the schema drift *)

AreAges(held) == held = [c \in DOMAIN held |-> held[c]] /\ \A c \in DOMAIN held : held[c] \in Nat

YoungerThanLimit == \A r \in Going : copies[r] <= RunLimit

DriftInv == AreAges(copies) /\ CopiesAreTheirRuns /\ YoungerThanLimit

\* What a sweep leaves: ages as they were, and every copy that is not stale.
LEMMA SweepLeavesTheYoung ==
  ASSUME NEW held, AreAges(held), NEW rest \in Swept(held)
  PROVE  /\ AreAges(rest)
         /\ DOMAIN rest \subseteq DOMAIN held
         /\ \A c \in DOMAIN rest : rest[c] = held[c]
         /\ \A c \in DOMAIN held : held[c] <= StaleCopy => c \in DOMAIN rest
<1>1. PICK gone \in SUBSET Stale(held) : rest = Restrict(held, DOMAIN held \ gone)
  BY DEF Swept
<1>2. rest = [c \in DOMAIN held \ gone |-> held[c]]
  BY <1>1 DEF Restrict
<1>3. \A c \in DOMAIN held : held[c] <= StaleCopy => c \notin gone
  BY <1>1, DriftAssumption DEF Stale, AreAges
<1> QED
  BY <1>2, <1>3 DEF AreAges

\* A new copy is there, of age 0, and the others are as they were.
LEMMA NewCopyIsYoung ==
  ASSUME NEW held, AreAges(held), NEW owner
  PROVE  /\ AreAges(WithNew(owner, held))
         /\ DOMAIN WithNew(owner, held) = DOMAIN held \cup {owner}
         /\ WithNew(owner, held)[owner] = 0
         /\ \A c \in DOMAIN held \ {owner} : WithNew(owner, held)[c] = held[c]
  BY DEF AreAges, WithNew

\* Removing one copy leaves the others as they were.
LEMMA RemovalLeavesOthers ==
  ASSUME NEW owner, AreAges(copies)
  PROVE  /\ AreAges(Without(owner))
         /\ DOMAIN Without(owner) = DOMAIN copies \ {owner}
         /\ \A c \in DOMAIN copies \ {owner} : Without(owner)[c] = copies[c]
  BY DEF AreAges, Without, Restrict

LEMMA DriftInvInit == DriftInit => DriftInv
<1> SUFFICES ASSUME DriftInit PROVE DriftInv
  OBVIOUS
<1>1. AreAges(copies)
  BY DriftAssumption DEF DriftInit, AreAges
<1>2. Going = {}
  BY DEF DriftInit, Going, HoldsCopy
<1> QED
  BY <1>1, <1>2 DEF DriftInv, CopiesAreTheirRuns, YoungerThanLimit

LEMMA DriftInvStep ==
  DriftInv /\ [\E folder \in Folders : DriftNext(folder)]_driftVars => DriftInv'
<1> SUFFICES ASSUME DriftInv, [\E folder \in Folders : DriftNext(folder)]_driftVars
             PROVE  DriftInv'
  OBVIOUS
<1> USE DEF DriftInv, CopiesAreTheirRuns, YoungerThanLimit, Going, HoldsCopy
<1>1. CASE UNCHANGED driftVars
  BY <1>1 DEF driftVars, AreAges
<1>2. CASE NeighbourBegins
  <2>1. PICK rest \in Swept(copies) : copies' = WithNew("next", rest)
    BY <1>2 DEF NeighbourBegins
  <2>2. AreAges(rest) /\ (HoldsCopy => "own" \in DOMAIN rest /\ rest["own"] = copies["own"])
    BY SweepLeavesTheYoung, DriftAssumption DEF AreAges
  <2>3. AreAges(copies')
    BY <2>1, <2>2, NewCopyIsYoung
  <2>4. "next" \in DOMAIN copies' /\ copies'["next"] = 0
    BY <2>1, <2>2, NewCopyIsYoung
  <2>5. HoldsCopy => "own" \in DOMAIN copies' /\ copies'["own"] = copies["own"]
    <3>1. \A c \in DOMAIN rest \ {"next"} : c \in DOMAIN copies' /\ copies'[c] = rest[c]
      BY <2>1, <2>2, NewCopyIsYoung
    <3> QED
      BY <2>2, <3>1
  <2>6. Going' = Going \cup {"next"} /\ Going \subseteq {"own"}
    BY <1>2 DEF NeighbourBegins
  <2> QED
    BY <2>3, <2>4, <2>5, <2>6, DriftAssumption
<1>3. CASE NeighbourEnds
  <2>1. Going' = Going \ {"next"}
    BY <1>3 DEF NeighbourEnds
  <2>2. CASE copies' = copies
    BY <2>1, <2>2
  <2>3. CASE copies' = Without("next")
    <3>1. AreAges(copies')
      BY <2>3, RemovalLeavesOthers
    <3>2. \A c \in DOMAIN copies \ {"next"} : c \in DOMAIN copies' /\ copies'[c] = copies[c]
      BY <2>3, RemovalLeavesOthers
    <3> QED
      BY <2>1, <3>1, <3>2
  <2> QED
    BY <1>3, <2>2, <2>3 DEF NeighbourEnds
<1>4. CASE CopiesAge
  BY <1>4, DriftAssumption DEF CopiesAge, AreAges
<1>5. ASSUME NEW fails \in BOOLEAN, MakeCopy(fails) PROVE DriftInv'
  <2>1. PICK rest \in Swept(copies) :
          IF fails THEN Leave("2") /\ copies' \in {copies, rest}
          ELSE drift' = "copy" /\ copies' = WithNew("own", rest) /\ UNCHANGED driftCode
    BY <1>5 DEF MakeCopy
  <2>2. /\ AreAges(rest)
        /\ neighbour = "going" => "next" \in DOMAIN rest /\ rest["next"] = copies["next"]
    BY SweepLeavesTheYoung, DriftAssumption DEF AreAges
  <2>3. CASE fails
    BY <1>5, <2>1, <2>2, <2>3 DEF MakeCopy, Leave, AreAges
  <2>4. CASE ~fails
    <3>0. copies' = WithNew("own", rest) /\ drift' = "copy"
      BY <2>1, <2>4
    <3>1. AreAges(copies')
      BY <3>0, <2>2, NewCopyIsYoung
    <3>2. "own" \in DOMAIN copies' /\ copies'["own"] = 0
      BY <3>0, <2>2, NewCopyIsYoung
    <3>3. \A c \in DOMAIN rest \ {"own"} : c \in DOMAIN copies' /\ copies'[c] = rest[c]
      BY <3>0, <2>2, NewCopyIsYoung
    <3>4. neighbour = "going" => "next" \in DOMAIN copies' /\ copies'["next"] = copies["next"]
      BY <2>2, <3>3
    <3>5. Going' = Going \cup {"own"} /\ Going \subseteq {"next"}
      BY <1>5, <3>0 DEF MakeCopy
    <3> QED
      BY <3>1, <3>2, <3>4, <3>5, DriftAssumption
  <2> QED
    BY <2>3, <2>4
<1>6. ASSUME NEW fails \in BOOLEAN, RemoveCopy(fails) PROVE DriftInv'
  BY <1>6, RemovalLeavesOthers DEF RemoveCopy, Leave, AreAges
<1>7. ASSUME NEW fails \in BOOLEAN, CopyFolder(fails) PROVE DriftInv'
  BY <1>7 DEF CopyFolder, AreAges
<1>8. ASSUME NEW installed \in Installed, ReadVersion(installed) PROVE DriftInv'
  BY <1>8 DEF ReadVersion, Leave, AreAges
<1>9. ASSUME NEW folder \in Folders, Generate(folder) PROVE DriftInv'
  BY <1>9 DEF Generate, AreAges
<1>10. ASSUME NEW folder \in Folders, CheckFolder(folder) PROVE DriftInv'
  <2>1. drift' = "over" /\ UNCHANGED <<copies, neighbour>>
    BY <1>10 DEF CheckFolder, Leave
  <2> QED
    BY <2>1 DEF AreAges
<1>11. CASE Killed
  BY <1>11 DEF Killed, Leave, AreAges
<1> QED
  BY <1>1, <1>2, <1>3, <1>4, <1>5, <1>6, <1>7, <1>8, <1>9, <1>10, <1>11 DEF DriftNext

(***************************************************************************)
(* removeStaleCopies of one run never takes the copy of a run that goes on *)
(* (scripts/check-schema-drift.mjs:584): each has its copy until it removes*)
(* it itself.                                                              *)
(***************************************************************************)
THEOREM CopiesStayWithTheirRuns == DriftSpec => []CopiesAreTheirRuns
<1>1. DriftInv => CopiesAreTheirRuns
  BY DEF DriftInv
<1> QED
  BY <1>1, DriftInvInit, DriftInvStep, PTL DEF DriftSpec

\* What one run of drizzle-kit prints, and what becomes of it when it is cut.
LEMMA EndingsOf ==
  ASSUME NEW signs, NEW status, NEW files, NEW ending \in Endings(Ended(signs, status, files))
  PROVE  /\ Cut(ending) \in BOOLEAN
         /\ \/ Cut(ending)
            \/ ending.signs = signs /\ ending.status = status /\ ending.files = files
            \/ ending.signs = {}
  BY DEF Endings, Ended, Cut

\* A run of generate is told as "nothing to do" or as drift only of a folder that is so.
LEMMA OutcomeTold ==
  ASSUME NEW folder \in Folders, NEW ending \in Endings(Generated(folder))
  PROVE  /\ GenerateOutcome(ending) \in {"none", "1", "2"}
         /\ GenerateOutcome(ending) = "none" => folder \in {"match", "inconsistent"}
         /\ GenerateOutcome(ending) = "1" => folder \notin {"match", "unloadable"}
<1> DEFINE class == ClassifyGenerate(ending)
<1>1. GenerateOutcome(ending) =
        IF class = "unfinished" THEN "2"
        ELSE IF class = "clean" /\ ChangesOf(Kept, ending.files) = {} THEN "none" ELSE "1"
  BY DEF GenerateOutcome
<1>2. Cut(ending) \/ ending.signs = {} => class = "unfinished"
  BY DEF ClassifyGenerate
<1>3. CASE folder \in {"match", "inconsistent"}
  <2>1. Generated(folder) = Ended({"clean"}, 0, Kept)
    BY <1>3 DEF Generated
  <2>2. \/ Cut(ending) \/ ending.signs = {}
        \/ ending.signs = {"clean"} /\ ending.status = 0 /\ ending.files = Kept
    BY <2>1, EndingsOf
  <2>3. ChangesOf(Kept, Kept) = {}
    BY DEF ChangesOf
  <2>4. ~Cut(ending) /\ ending.signs = {"clean"} /\ ending.status = 0 => class = "clean"
    BY DEF ClassifyGenerate
  <2> HIDE DEF class
  <2> QED
    BY <1>1, <1>2, <1>3, <2>2, <2>3, <2>4
<1>4. CASE folder = "unloadable"
  <2>1. Generated(folder) = Ended({}, 1, Kept)
    BY <1>4 DEF Generated
  <2>2. Cut(ending) \/ ending.signs = {}
    BY <2>1, EndingsOf
  <2> HIDE DEF class
  <2> QED
    BY <1>1, <1>2, <2>2
<1>5. CASE folder = "not kept"
  <2> DEFINE rewritten == [journal |-> "kept", snapshot |-> "new"]
  <2>1. Generated(folder) = Ended({"clean"}, 0, rewritten)
    BY <1>5 DEF Generated
  <2>2. Cut(ending) \/ ending.signs = {} \/ ending.files = rewritten
    BY <2>1, EndingsOf
  <2>3. "snapshot" \in ChangesOf(Kept, rewritten)
    BY DEF ChangesOf, Kept
  <2> HIDE DEF class, rewritten
  <2> QED
    BY <1>1, <1>2, <1>5, <2>2, <2>3
<1>6. CASE folder \in {"behind", "ambiguous", "colliding"}
  <2>1. PICK sign \in {"wrote", "rename question", "collision"} :
          \E signs, files :
            Generated(folder) = Ended(signs, 0, files) /\ signs = {sign}
    BY <1>6 DEF Generated
  <2>2. Cut(ending) \/ ending.signs = {} \/ ending.signs = {sign}
    <3>1. PICK signs, files : Generated(folder) = Ended(signs, 0, files) /\ signs = {sign}
      BY <2>1
    <3>2. ending \in Endings(Ended(signs, 0, files))
      BY <3>1
    <3>3. ~Cut(ending) => ending.signs = signs \/ ending.signs = {}
      BY <3>2, EndingsOf
    <3> QED
      BY <3>1, <3>3
  <2>3. ending.signs = {sign} => class # "clean"
    BY <2>1 DEF ClassifyGenerate
  <2> HIDE DEF class
  <2> QED
    BY <1>1, <1>2, <1>6, <2>2, <2>3
<1> QED
  BY <1>3, <1>4, <1>5, <1>6 DEF Folders

\* What the run knows of the folder, as far as it has come.
ToldInv(folder) ==
  /\ outcome \in {"none", "1", "2"}
  /\ outcome = "1" => folder \notin {"match", "unloadable"}
  /\ drift \in {"remove", "check"} /\ outcome = "none" => folder \in {"match", "inconsistent"}
  /\ drift = "check" => outcome = "none"
  /\ DriftToldOf(folder)

LEMMA ToldInvStep ==
  ASSUME NEW folder \in Folders, ToldInv(folder), [DriftNext(folder)]_driftVars
  PROVE  ToldInv(folder)'
<1> USE DEF ToldInv, DriftToldOf
<1>1. CASE UNCHANGED <<drift, driftCode, outcome>>
  BY <1>1
<1>2. CASE UNCHANGED driftVars \/ NeighbourBegins \/ NeighbourEnds \/ CopiesAge
  BY <1>2, <1>1 DEF driftVars, NeighbourBegins, NeighbourEnds, CopiesAge
<1>3. ASSUME NEW installed \in Installed, ReadVersion(installed) PROVE ToldInv(folder)'
  BY <1>3 DEF ReadVersion, Leave
<1>4. ASSUME NEW fails \in BOOLEAN, MakeCopy(fails) PROVE ToldInv(folder)'
  BY <1>4 DEF MakeCopy, Leave
<1>5. ASSUME NEW fails \in BOOLEAN, CopyFolder(fails) PROVE ToldInv(folder)'
  BY <1>5 DEF CopyFolder
<1>6. ASSUME NEW fails \in BOOLEAN, RemoveCopy(fails) PROVE ToldInv(folder)'
  BY <1>6 DEF RemoveCopy, Leave
<1>7. CASE Generate(folder)
  <2>1. drift' = "remove" /\ UNCHANGED driftCode
    BY <1>7 DEF Generate
  <2>2. outcome' = "2" \/ \E ending \in Endings(Generated(folder)) : outcome' = GenerateOutcome(ending)
    BY <1>7 DEF Generate
  <2>3. /\ outcome' \in {"none", "1", "2"}
        /\ outcome' = "none" => folder \in {"match", "inconsistent"}
        /\ outcome' = "1" => folder \notin {"match", "unloadable"}
    BY <2>2, OutcomeTold
  <2> QED
    BY <2>1, <2>3
<1>8. CASE CheckFolder(folder)
  <2>1. drift' = "over" /\ UNCHANGED outcome /\ folder \in {"match", "inconsistent"}
    BY <1>8 DEF CheckFolder, Leave
  <2>2. CASE driftCode' = "2"
    BY <2>1, <2>2
  <2>3. ASSUME NEW ending \in Endings(CheckedFolder(folder)),
               driftCode' = CASE ClassifyCheck(ending) = "fine" -> "0"
                              [] ClassifyCheck(ending) = "inconsistent" -> "1" [] OTHER -> "2"
        PROVE  ToldInv(folder)'
    <3>1. CASE folder = "match"
      <4>1. Cut(ending) \/ ending.signs = {} \/ ending.status = 0
        <5>1. CheckedFolder(folder) = Ended({"fine"}, 0, Kept)
          BY <3>1 DEF CheckedFolder
        <5> QED
          BY <5>1, EndingsOf
      <4>2. ClassifyCheck(ending) # "inconsistent"
        BY <4>1 DEF ClassifyCheck
      <4>3. driftCode' # "1"
        BY <2>3, <4>2
      <4> QED
        BY <2>1, <3>1, <4>3
    <3>2. CASE folder = "inconsistent"
      <4>1. Cut(ending) \/ ending.signs = {} \/ ending.status = 1
        <5>1. CheckedFolder(folder) = Ended({"malformed"}, 1, Kept)
          BY <3>2 DEF CheckedFolder
        <5> QED
          BY <5>1, EndingsOf
      <4>2. ClassifyCheck(ending) # "fine"
        BY <4>1 DEF ClassifyCheck
      <4>3. driftCode' # "0"
        BY <2>3, <4>2
      <4> QED
        BY <2>1, <3>2, <4>3
    <3> QED
      BY <2>1, <3>1, <3>2
  <2> QED
    BY <1>8, <2>2, <2>3 DEF CheckFolder, Leave
<1>9. CASE Killed
  BY <1>9 DEF Killed, Leave
<1> QED
  BY <1>2, <1>3, <1>4, <1>5, <1>6, <1>7, <1>8, <1>9 DEF DriftNext

(***************************************************************************)
(* The exit code of the gate is a statement about the folder, whichever    *)
(* run of drizzle-kit is cut, fails to start or cannot be read: 0 only of  *)
(* one that matches the schema, 1 only of one that does not                *)
(* (scripts/check-schema-drift.mjs).                                       *)
(***************************************************************************)
THEOREM CodeAlwaysTrue ==
  ASSUME NEW folder \in Folders
  PROVE  DriftInit /\ [][DriftNext(folder)]_driftVars => []DriftToldOf(folder)
<1>1. DriftInit => ToldInv(folder)
  BY DEF DriftInit, ToldInv, DriftToldOf
<1>2. ToldInv(folder) /\ [DriftNext(folder)]_driftVars => ToldInv(folder)'
  BY ToldInvStep
<1>3. ToldInv(folder) => DriftToldOf(folder)
  BY DEF ToldInv
<1> QED
  BY <1>1, <1>2, <1>3, PTL

-----------------------------------------------------------------------------
(* The stack *)

Lives == {"absent", "up", "done", "failed", "stopped", "killed"}
Healths == {"starting", "healthy", "unhealthy"}
Readies == {"no", "socket", "ready"}

\* Nothing runs before the stack is up; a healthy database is ready.
StackInv ==
  /\ life \in [RequiredServices -> Lives]
  /\ health \in [RequiredServices -> Healths]
  /\ ready \in [Databases -> Readies]
  /\ at \notin {"up", "stopping"} => \A s \in RequiredServices : life[s] = "absent"
  /\ \A d \in Databases : health[d] = "healthy" => ready[d] = "ready"
  /\ NoneIsKilled

DriftDone == driftCode # "none" => drift = "over"

SpecInv ==
  /\ GateInv /\ ImagesInv /\ StackInv
  /\ ToldInv(tree.schema) /\ DriftInv /\ DriftDone

\* What the rules of a clean tree say of the services the stack rests on.
LEMMA CleanServices ==
  ASSUME GateInv, at \in Judged
  PROVE  /\ RequiredServices \subseteq DOMAIN S
         /\ S["migrate"].init /\ ~(S["api"].grace < 15) /\ ~(S["worker"].grace < 30)
         /\ HasHealthcheck(S["postgres"].check) /\ IsReadyOverTcp(S["postgres"].check)
         /\ RunsInShell(S["redis"].check, RedisHealthcheck)
         /\ \A s \in PostgresClients : WaitsFor(S[s], "postgres", "service_healthy")
         /\ \A s \in {"api", "worker"} :
              /\ WaitsFor(S[s], "redis", "service_healthy")
              /\ WaitsFor(S[s], "migrate", "service_completed_successfully")
<1>1. CheckCompose(tree, graph)
  BY DEF GateInv
<1>2. /\ Rule0Services(S) = {} /\ Rule3Grace(S) = {} /\ Rule4Healthchecks(S) = {}
      /\ Rule5StartOrder(S) = {} /\ Rule8PostgresTcp(S) = {} /\ Rule13Init(S) = {}
  BY <1>1, RulesHold
<1>3. RequiredServices \subseteq DOMAIN S
  BY <1>2 DEF Rule0Services
<1>4. /\ \A s \in RequiredServices : s \in DOMAIN S
      /\ {"postgres", "redis", "migrate", "api", "worker"} \subseteq RequiredServices
  BY <1>3 DEF RequiredServices
<1>5. S["migrate"].init
  BY <1>2, <1>4 DEF Rule13Init, UnderInit, Of
<1>6. ~(S["api"].grace < 15) /\ ~(S["worker"].grace < 30)
  <2>1. /\ DOMAIN MinGraceSec = {"api", "worker"}
        /\ MinGraceSec["api"] = 15 /\ MinGraceSec["worker"] = 30
    BY DEF MinGraceSec
  <2> QED
    BY <1>2, <1>4, <2>1 DEF Rule3Grace, Of
<1>7. HasHealthcheck(S["postgres"].check) /\ IsReadyOverTcp(S["postgres"].check)
  BY <1>2, <1>4 DEF Rule8PostgresTcp, Of
<1>8. RunsInShell(S["redis"].check, RedisHealthcheck)
  BY <1>2, <1>4 DEF Rule4Healthchecks, Of
<1>9. \A s \in PostgresClients : WaitsFor(S[s], "postgres", "service_healthy")
  BY <1>2, <1>4 DEF Rule5StartOrder, Of, PostgresClients
<1>10. \A s \in {"api", "worker"} :
         /\ WaitsFor(S[s], "redis", "service_healthy")
         /\ WaitsFor(S[s], "migrate", "service_completed_successfully")
  BY <1>2, <1>4 DEF Rule5StartOrder, Of, AppServices
<1> QED
  BY <1>3, <1>5, <1>6, <1>7, <1>8, <1>9, <1>10

\* A healthcheck the rules accept passes on a database that is ready only.
LEMMA PassesWhenReady ==
  ASSUME GateInv, at \in Judged, NEW d \in Databases, Passes(d)
  PROVE  ready[d] = "ready"
<1>1. CASE d = "postgres"
  <2> DEFINE check == S["postgres"].check
             hosts == {i \in DOMAIN check.options : check.options[i].name = "host"}
  <2>1. IsReadyOverTcp(check)
    BY CleanServices
  <2>2. PICK i \in DOMAIN check.options : check.options[i].name = "host"
    <3>1. hosts # {}
      <4>1. Cardinality(hosts) = 1
        BY <2>1 DEF IsReadyOverTcp
      <4>2. Cardinality({}) = 0
        BY FS_EmptySet
      <4> HIDE DEF hosts
      <4> QED
        BY <4>1, <4>2
    <3> QED
      BY <3>1
  <2>3. check.options[i].value \in TcpHosts
    <3>1. PgIsreadyOptions["host"] = TcpHosts
      BY DEF PgIsreadyOptions
    <3> QED
      BY <2>1, <2>2, <3>1 DEF IsReadyOverTcp
  <2>4. check.alone
    BY <2>1 DEF IsReadyOverTcp
  <2> QED
    BY <1>1, <2>2, <2>3, <2>4 DEF Passes
<1>2. CASE d = "redis"
  <2>1. S["redis"].check.program = RedisHealthcheck /\ S["redis"].check.alone
    BY CleanServices DEF RunsInShell
  <2> QED
    BY <1>2, <2>1 DEF Passes
<1> QED
  BY <1>1, <1>2 DEF Databases

\* A service of a clean tree has left when its grace period is over.
LEMMA AllLeaveInTime ==
  ASSUME GateInv, at \in Judged, NEW s \in RequiredServices
  PROVE  LeavesInTime(s)
<1>1. s \in UnderInit => S[s].init
  BY CleanServices DEF UnderInit
<1>2. S[s].grace \in Nat /\ StopTakes[s] \in Nat
  BY CleanServices, TreesAssumption DEF GateInv, S
<1>3. StopTakes[s] <= S[s].grace
  <2>1. CASE s \in {"api", "worker"}
    <3>1. /\ DOMAIN StopDeadline = {"api", "worker"}
          /\ StopDeadline["api"] = 10 /\ StopDeadline["worker"] = 25
      BY DEF StopDeadline
    <3>2. /\ s = "api" => StopTakes[s] <= 11
          /\ s = "worker" => StopTakes[s] <= 26
      BY <2>1, <3>1, TreesAssumption DEF FlushTimeout
    <3> QED
      BY <1>2, <2>1, <3>2, CleanServices
  <2>2. CASE s \notin {"api", "worker"}
    <3>1. s \notin DOMAIN StopDeadline
      BY <2>2 DEF StopDeadline
    <3> QED
      BY <3>1, CleanServices, TreesAssumption DEF GateInv, S
  <2> QED
    BY <2>1, <2>2
<1> QED
  BY <1>1, <1>3 DEF LeavesInTime

LEMMA TreeStays == [Next]_vars => tree' = tree
<1>1. [GateNext \/ UNCHANGED gateVars]_gateVars => tree' = tree
  BY DEF GateNext, CheckEnvironment, ReadFile, ProbeRendering, ListVariables, Render,
         CheckEntry, Judge, Refuse, GoTo, gateVars
<1> QED
  BY <1>1 DEF Next, vars, ciVars, gateVars, AsksStack, AsksSchema, AsksImages, StackNext,
              Up, Stop, MigrateEnds, Reboot, Create, CheckHealth, StopService, GetReady

\* The stack under the steps of the gates, and as it is brought up.
LEMMA StackStays ==
  ASSUME StackInv, UNCHANGED stackVars, at' = at \/ at \notin {"up", "stopping"} \/ Stop
  PROVE  StackInv'
BY DEF StackInv, stackVars, NoneIsKilled, Stop

LEMMA StackInvStep ==
  ASSUME GateInv, StackInv, [Next]_vars
  PROVE  StackInv'
<1>1. CASE AsksStack
  <2>1. at \notin {"up", "stopping"}
    BY <1>1 DEF AsksStack, GateNext, CheckEnvironment, ReadFile, ProbeRendering, ListVariables,
                Render, CheckEntry, Judge
  <2> QED
    BY <1>1, <2>1, StackStays DEF AsksStack
<1>2. CASE AsksSchema \/ AsksImages \/ UNCHANGED vars
  BY <1>2, StackStays DEF AsksSchema, AsksImages, vars, ciVars, gateVars
<1>3. CASE Up \/ Stop
  BY <1>3, StackStays DEF Up, Stop, CiIsGreen
<1>4. ASSUME NEW s \in RequiredServices, Create(s) PROVE StackInv'
  BY <1>4 DEF Create, StackInv, Lives, NoneIsKilled, ciVars, gateVars
<1>5. ASSUME NEW d \in Databases, GetReady(d) PROVE StackInv'
  BY <1>5 DEF GetReady, StackInv, Readies, NoneIsKilled, ciVars, gateVars
<1>6. CASE MigrateEnds
  BY <1>6 DEF MigrateEnds, StackInv, Lives, NoneIsKilled, ciVars, gateVars
<1>7. ASSUME NEW s \in RequiredServices, CheckHealth(s) PROVE StackInv'
  <2>1. at \in Judged /\ at' = at /\ UNCHANGED <<life, ready>>
    BY <1>7 DEF CheckHealth, StackInv, Judged, ciVars, gateVars
  <2>2. \/ Passes(s) /\ health' = [health EXCEPT ![s] = "healthy"]
        \/ health' = [health EXCEPT ![s] = "unhealthy"]
    BY <1>7 DEF CheckHealth
  <2>3. s \in Databases /\ Passes(s) => ready[s] = "ready"
    BY <2>1, PassesWhenReady
  <2>4. health' \in [RequiredServices -> Healths]
    BY <2>2 DEF StackInv, Healths
  <2>5. ASSUME NEW d \in Databases, health'[d] = "healthy" PROVE ready[d] = "ready"
    <3>1. d \in RequiredServices
      BY DEF Databases, RequiredServices
    <3>2. (d = s /\ Passes(s)) \/ health[d] = "healthy"
      BY <2>2, <2>5, <3>1 DEF StackInv
    <3> QED
      BY <2>3, <3>2 DEF StackInv
  <2> QED
    BY <2>1, <2>4, <2>5 DEF StackInv, NoneIsKilled
<1>8. CASE Reboot
  <2>1. at' = at /\ at = "up"
    BY <1>8 DEF Reboot, ciVars, gateVars
  <2>2. \A s \in RequiredServices : life'[s] \in {"stopped", life[s]}
    BY <1>8 DEF Reboot
  <2>3. life' \in [RequiredServices -> Lives]
    <3>1. life' = [s \in RequiredServices |-> life'[s]]
      BY <1>8 DEF Reboot
    <3>2. \A s \in RequiredServices : life'[s] \in Lives
      BY <2>2 DEF StackInv, Lives
    <3> QED
      BY <3>1, <3>2
  <2>4. /\ health' \in [RequiredServices -> Healths] /\ ready' \in [Databases -> Readies]
        /\ \A d \in Databases : health'[d] # "healthy"
    BY <1>8 DEF Reboot, Healths, Readies, Databases, RequiredServices
  <2> QED
    BY <2>1, <2>2, <2>3, <2>4 DEF StackInv, NoneIsKilled
<1>9. ASSUME NEW s \in RequiredServices, StopService(s) PROVE StackInv'
  <2>1. LeavesInTime(s)
    BY <1>9, AllLeaveInTime DEF StopService, Judged
  <2> QED
    BY <1>9, <2>1 DEF StopService, StackInv, Lives, NoneIsKilled, ciVars, gateVars
<1> QED
  BY <1>1, <1>2, <1>3, <1>4, <1>5, <1>6, <1>7, <1>8, <1>9 DEF Next, StackNext

LEMMA SpecInvInit == Init => SpecInv
<1> SUFFICES ASSUME Init PROVE SpecInv
  OBVIOUS
<1>1. tree \in Trees
  BY DEF Init, GateInit
<1>2. StackInv
  BY DEF Init, GateInit, StackInit, StackInv, Lives, Healths, Readies, NoneIsKilled,
         Databases, RequiredServices
<1>3. ToldInv(tree.schema) /\ DriftDone
  BY DEF Init, DriftInit, ToldInv, DriftToldOf, DriftDone
<1> QED
  BY <1>2, <1>3, GateInvInit, ImagesInvInit, DriftInvInit DEF Init, SpecInv

\* The gate of the schema in a stack: its own steps, and the job of the images.
LEMMA DriftStays ==
  ASSUME tree \in Trees, ToldInv(tree.schema), DriftInv, DriftDone, [Next]_vars
  PROVE  ToldInv(tree.schema)' /\ DriftInv' /\ DriftDone'
<1>1. tree' = tree /\ tree.schema \in Folders
  BY TreeStays, TreesAssumption
<1>2. CASE AsksSchema
  <2>1. DriftNext(tree.schema) /\ driftCode = "none"
    BY <1>2 DEF AsksSchema
  <2>2. ToldInv(tree.schema)' /\ DriftInv'
    BY <1>1, <2>1, ToldInvStep, DriftInvStep
  <2>3. driftCode' = "none" \/ drift' = "over"
    BY <2>1 DEF DriftNext, ReadVersion, MakeCopy, CopyFolder, RemoveCopy, Generate,
                CheckFolder, Killed, Leave, NeighbourBegins, NeighbourEnds, CopiesAge
  <2> QED
    BY <2>2, <2>3 DEF DriftDone
<1>3. CASE AsksImages
  <2>1. /\ drift = "over" /\ copies' = <<>> /\ neighbour' = "over"
        /\ UNCHANGED <<drift, driftCode, outcome>>
    BY <1>3 DEF AsksImages, DriftDone
  <2>2. ToldInv(tree.schema)' /\ DriftDone'
    BY <1>1, <2>1 DEF ToldInv, DriftToldOf, DriftDone
  <2>3. AreAges(copies)' /\ Going' = {}
    BY <2>1 DEF AreAges, Going, HoldsCopy
  <2> QED
    BY <2>2, <2>3 DEF DriftInv, CopiesAreTheirRuns, YoungerThanLimit
<1>4. CASE UNCHANGED driftVars
  <2>1. ToldInv(tree.schema)' /\ DriftDone'
    BY <1>1, <1>4 DEF driftVars, ToldInv, DriftToldOf, DriftDone
  <2> QED
    BY <1>4, <2>1 DEF driftVars, DriftInv, AreAges, CopiesAreTheirRuns, YoungerThanLimit,
                      Going, HoldsCopy
<1> QED
  BY <1>2, <1>3, <1>4 DEF Next, vars, ciVars, AsksStack, StackNext, Up, Stop, MigrateEnds,
                          Reboot, Create, CheckHealth, StopService, GetReady

LEMMA SpecInvStep == SpecInv /\ [Next]_vars => SpecInv'
<1> SUFFICES ASSUME SpecInv, [Next]_vars PROVE SpecInv'
  OBVIOUS
<1>1. tree \in Trees /\ tree' = tree
  BY TreeStays DEF SpecInv, GateInv
<1>2. GateInv' /\ StackInv'
  BY GateInvStep, StackInvStep DEF SpecInv
<1>3. ToldInv(tree.schema)' /\ DriftInv' /\ DriftDone'
  BY <1>1, DriftStays DEF SpecInv
<1>4. ImagesInv'
  <2>1. CASE AsksImages
    BY <1>1, <2>1, ImagesInvStep DEF AsksImages, SpecInv
  <2>2. CASE UNCHANGED probeVars
    BY <1>1, <2>2, ImagesStay DEF SpecInv
  <2> QED
    BY <2>1, <2>2 DEF Next, vars, ciVars, AsksStack, AsksSchema, StackNext, Up, Stop,
                      MigrateEnds, Reboot, Create, CheckHealth, StopService, GetReady
<1> QED
  BY <1>2, <1>3, <1>4 DEF SpecInv

LEMMA SpecInvAlways == Spec => []SpecInv
BY SpecInvInit, SpecInvStep, PTL DEF Spec

\* A first start, and what it is made on.
LEMMA ServersStep == SpecInv /\ [Next]_vars =>
  \A s \in PostgresClients :
    life[s] = "absent" /\ life'[s] = "up" =>
      /\ ready["postgres"] = "ready"
      /\ s # "migrate" => ready["redis"] = "ready" /\ life["migrate"] = "done"
<1> SUFFICES ASSUME SpecInv, [Next]_vars, NEW s \in PostgresClients,
                    life[s] = "absent", life'[s] = "up"
             PROVE  /\ ready["postgres"] = "ready"
                    /\ s # "migrate" => ready["redis"] = "ready" /\ life["migrate"] = "done"
  OBVIOUS
<1>1. s \in RequiredServices
  BY DEF PostgresClients, RequiredServices
<1>2. life \in [RequiredServices -> Lives]
  BY DEF SpecInv, StackInv
<1>3. Create(s)
  <2>1. ~UNCHANGED life
    OBVIOUS
  <2>2. ~MigrateEnds
    BY <1>1, <1>2 DEF MigrateEnds
  <2>3. ~Reboot
    BY <1>1 DEF Reboot
  <2>4. \A t \in RequiredServices : ~StopService(t)
    BY <1>1, <1>2 DEF StopService
  <2>5. \A t \in RequiredServices : Create(t) => t = s
    BY <1>1, <1>2 DEF Create
  <2> QED
    BY <2>1, <2>2, <2>3, <2>4, <2>5
       DEF Next, vars, AsksStack, AsksSchema, AsksImages, StackNext, stackVars, Up, Stop,
           CheckHealth, GetReady
<1>4. at \in Judged /\ \A d \in DOMAIN S[s].depends : Met(d, S[s].depends[d])
  BY <1>3 DEF Create, Judged
<1>5. health["postgres"] = "healthy"
  BY <1>4, CleanServices DEF SpecInv, WaitsFor, Met
<1>6. s # "migrate" => health["redis"] = "healthy" /\ life["migrate"] = "done"
  BY <1>4, CleanServices DEF SpecInv, WaitsFor, Met, PostgresClients
<1> QED
  BY <1>5, <1>6 DEF SpecInv, StackInv, Databases

-----------------------------------------------------------------------------
(* Theorems *)

(***************************************************************************)
(* For any tree, shell and entry: what the gate found clean is what        *)
(* `docker compose up` takes, from the root and from the directory of any  *)
(* file of the graph, and nothing from outside the files reaches more than *)
(* the port of web and the build arguments (scripts/check-compose.mjs,     *)
(* scripts/lib/compose-graph.mjs and rules 14, 15 and 17).                 *)
(***************************************************************************)
THEOREM StackAlwaysTheOneChecked == Spec => []StackIsTheOneChecked
<1>1. SpecInv => StackIsTheOneChecked
  BY GateInvCheckedOne DEF SpecInv
<1> QED
  BY <1>1, SpecInvAlways, PTL

(***************************************************************************)
(* No .env enters an image of a clean stack (checkDockerignore and rule    *)
(* 11); and the code of a probe is true of its image, however far the      *)
(* links of its manifests lead (workspaceChecks, checksOf and main of      *)
(* scripts/probe-image.mjs).                                               *)
(***************************************************************************)
THEOREM ImagesAlwaysRight == Spec => []ImagesAreRight
<1>1. SpecInv => ImagesAreRight
  BY ImagesInvSays, GateInvSecrets DEF SpecInv
<1> QED
  BY <1>1, SpecInvAlways, PTL

(***************************************************************************)
(* The code of the drift gate is true of the schema of the tree, and the   *)
(* copies of its runs stay theirs, in the job that runs it before and after*)
(* the other gates.                                                        *)
(***************************************************************************)
THEOREM DriftAlwaysTold == Spec => [](DriftIsTold /\ CopiesAreTheirRuns)
<1>1. SpecInv => DriftIsTold /\ CopiesAreTheirRuns
  BY DEF SpecInv, ToldInv, DriftInv, DriftIsTold
<1> QED
  BY <1>1, SpecInvAlways, PTL

(***************************************************************************)
(* A process of a clean stack that dials Postgres or Redis is first started*)
(* when the server answers there, and api and worker only on a migrated    *)
(* database (rules 0, 4, 5 and 8 of scripts/compose-rules.mjs).            *)
(***************************************************************************)
THEOREM ServersAlwaysThere == Spec => ServersAreThere
<1>1. SpecInv /\ [Next]_vars =>
        [\A s \in PostgresClients :
           life[s] = "absent" /\ life'[s] = "up" =>
             /\ ready["postgres"] = "ready"
             /\ s # "migrate" => ready["redis"] = "ready" /\ life["migrate"] = "done"]_vars
  BY ServersStep
<1> QED
  BY <1>1, SpecInvAlways, PTL DEF Spec, ServersAreThere

(***************************************************************************)
(* The grace periods the rules demand (rule 3) cover the deadline of each  *)
(* stop and the flush after it, and init (rule 13) passes the signal on:   *)
(* no process of a clean stack is killed by its stop.                      *)
(***************************************************************************)
THEOREM NoneEverKilled == Spec => []NoneIsKilled
<1>1. SpecInv => NoneIsKilled
  BY DEF SpecInv, StackInv
<1> QED
  BY <1>1, SpecInvAlways, PTL
=============================================================================
