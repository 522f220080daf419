----------------------------- MODULE ImageProbe ------------------------------
(***************************************************************************)
(* The gate of the images (scripts/probe-image.mjs): the image CI has just *)
(* built is run once, and must hold what its service starts from.  The     *)
(* probe walks the manifests of the workspace to know what that is, adds   *)
(* what it knows of the image by itself, and requires a check that cannot  *)
(* pass to fail in the same run.                                           *)
(*                                                                         *)
(* A workspace is, for each package directory, its name and what it        *)
(* depends on: external packages, and links to workspace packages.  An     *)
(* image is what of that is in it:                                         *)
(*   loads   the packages that load, each from the directory it is used in,*)
(*   there   those of which only the entry file is there,                  *)
(*   files   the links, and what the build and the migrations put there,   *)
(*   tests   the package directories that carry tests,                     *)
(*   blind   whether what the probe looks with finds anything it asks for. *)
(* Docker is external.                                                     *)
(***************************************************************************)
EXTENDS Integers, Sequences

VARIABLES
  probed,      \* of an image: the exit code of its probe, or "none"
  containers,  \* the images whose container may still be running
  walk         \* of the next image: the directories met, and those still to read

probeVars == <<probed, containers, walk>>

Matrix == <<"api", "migrate", "web", "worker">>
Images == {Matrix[i] : i \in DOMAIN Matrix}
WorkspaceOf == [api |-> "apps/api", worker |-> "apps/worker", migrate |-> "packages/db"]

Package(name, from) == [kind |-> "package", name |-> name, from |-> from, resolveOnly |-> FALSE]
FileAt(name, from) == [kind |-> "file", name |-> name, from |-> from, resolveOnly |-> FALSE]
Control == Package("never installed", "root")

\* PROBES: what each image starts from beyond its manifests.
Probes ==
  [api |-> {Package("fastify", "apps/api")},
   worker |-> {Package("bullmq", "apps/worker")},
   migrate |-> {Package("drizzle-orm", "packages/db"),
                FileAt("migrations", "packages/db"), FileAt("journal", "packages/db")},
   web |-> {FileAt("server.js", "apps/web"), Package("next", "apps/web")}]

\* Packages that throw outside the service by design: looked for, not loaded.
ResolveOnly == {"server-only"}

NoWalk == [on |-> FALSE, seen |-> {}, pending |-> {}]

ProbeInit ==
  probed = [i \in Images |-> "none"] /\ containers = {} /\ walk = NoWalk

\* The next image; the images are probed apart and share nothing, so their
\* order shows nothing.
IsNext(image) ==
  \E i \in DOMAIN Matrix :
    /\ Matrix[i] = image /\ probed[image] = "none"
    /\ \A j \in 1 .. i - 1 : probed[Matrix[j]] # "none"

-----------------------------------------------------------------------------
(* The checks of an image *)

\* The directory of a workspace package, by its name.
DirOf(workspace, name) == {d \in DOMAIN workspace : workspace[d].name = name}

\* The directories the links of some directories lead to.
LeadTo(workspace, dirs) ==
  UNION {DirOf(workspace, l) : l \in UNION {workspace[d].links : d \in dirs}}

\* workspaceChecks starts from the directory of the image, if it has one, and
\* reads each directory once, whatever the order.  It throws on a link no
\* directory holds: such a directory is never read, and the probe cannot run.
Start(image) == IF image \in DOMAIN WorkspaceOf THEN {WorkspaceOf[image]} ELSE {}

WalkBegins(image) ==
  /\ IsNext(image) /\ ~walk.on
  /\ walk' = [on |-> TRUE, seen |-> Start(image), pending |-> Start(image)]
  /\ UNCHANGED <<probed, containers>>

WalkReads(workspace) ==
  /\ \E dir \in walk.pending :
       LET met == LeadTo(workspace, {dir})
       IN  /\ \A l \in workspace[dir].links : DirOf(workspace, l) # {}
           /\ walk' = [walk EXCEPT !.seen = @ \cup met,
                                  !.pending = (@ \ {dir}) \cup (met \ walk.seen)]
  /\ UNCHANGED <<probed, containers>>

Walked(image) == IsNext(image) /\ walk.on /\ walk.pending = {}

\* What the directories read need: the links, and the packages they lead to.
WorkspaceChecks(workspace) ==
  UNION {{FileAt(l, dir) : l \in workspace[dir].links}
           \cup {[Package(n, dir) EXCEPT !.resolveOnly = n \in ResolveOnly] :
                    n \in workspace[dir].externals} : dir \in walk.seen}

\* checksOf: tsx, the own table, then the manifests; tests in any directory.
ChecksOf_Fault(workspace, image) ==
  {Package("tsx", dir) : dir \in Start(image)} \cup WorkspaceChecks(workspace)
ChecksOf(workspace, image) ==
  {Package("tsx", dir) : dir \in Start(image)} \cup Probes[image]
    \cup WorkspaceChecks(workspace)

-----------------------------------------------------------------------------
(* The run in the container, and main *)

\* What the container script finds of one check.
Finds(content, check) ==
  \/ content.blind
  \/ IF check.kind = "file" THEN check \in content.files
     ELSE LET p == [name |-> check.name, from |-> check.from]
          IN  p \in content.loads \/ (check.resolveOnly /\ p \in content.there)

Missing(content, checks) == {check \in checks : ~Finds(content, check)}

\* main, from the line the run printed.
CodeOf(missing, tests, control) ==
  IF missing # {} \/ tests # {} THEN "1"
  ELSE IF control # "failed" THEN "1" ELSE "0"

Says(image, code) == probed' = [probed EXCEPT ![image] = code] /\ walk' = NoWalk

\* The run printed its result.
ProbeEnds(workspace, content, image) ==
  /\ Walked(image)
  /\ Says(image, CodeOf(Missing(content, ChecksOf(workspace, image)), content.tests,
                        IF Finds(content, Control) THEN "passed" ELSE "failed"))
  /\ UNCHANGED containers

\* The checks cannot be worked out, docker fails, or nothing readable was printed.
ProbeCannotRun(image) ==
  /\ IsNext(image) /\ walk.on /\ Says(image, "2")
  /\ UNCHANGED containers

\* The limit ends the docker command, not the container: it is removed by its
\* name, and that may fail.
ProbeTimesOut(image) ==
  /\ Walked(image) /\ Says(image, "2")
  /\ containers' \in {containers, containers \cup {image}}

ProbeNext(workspace, images) ==
  \/ WalkReads(workspace)
  \/ \E image \in Images :
       \/ WalkBegins(image) \/ ProbeEnds(workspace, images[image], image)
       \/ ProbeCannotRun(image) \/ ProbeTimesOut(image)

-----------------------------------------------------------------------------
(* What an image must hold *)

\* What the service of an image starts from: its loader, what its code imports,
\* and every package of a directory its links lead to, however many steps away.
ReachedFrom(workspace, dirs) ==
  LET closed == {some \in SUBSET (DOMAIN workspace) :
                   dirs \cup LeadTo(workspace, some) \subseteq some}
  IN  {d \in DOMAIN workspace : \A some \in closed : d \in some}

Starts(workspace, content, image) ==
  /\ \A check \in Probes[image] :
       IF check.kind = "file" THEN check \in content.files
       ELSE [name |-> check.name, from |-> check.from] \in content.loads
  /\ image \in DOMAIN WorkspaceOf =>
       /\ [name |-> "tsx", from |-> WorkspaceOf[image]] \in content.loads
       /\ \A d \in ReachedFrom(workspace, Start(image)) :
            /\ \A l \in workspace[d].links : FileAt(l, d) \in content.files
            /\ \A n \in workspace[d].externals :
                 [name |-> n, from |-> d] \in content.loads
                    \cup (IF n \in ResolveOnly THEN content.there ELSE {})
=============================================================================
