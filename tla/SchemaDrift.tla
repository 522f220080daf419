----------------------------- MODULE SchemaDrift -----------------------------
(***************************************************************************)
(* The gate of the schema drift (scripts/check-schema-drift.mjs): a change *)
(* of the schema without its migration.  A run copies the migrations next  *)
(* to the package, lets `drizzle-kit generate` write into the copy, reads  *)
(* what it printed and what it changed, removes the copy, and has          *)
(* `drizzle-kit check` look at the folder itself.                          *)
(*                                                                         *)
(* Two runs of one checkout may go on side by side (the hook's and the     *)
(* developer's): "own" is followed step by step, of "next" only what it    *)
(* does to the copies is.  "left" is a copy of a run of the past.  A run   *)
(* may be killed at any moment, and then its copy stays.                   *)
(*                                                                         *)
(* drizzle-kit is external: what it prints for a folder is as              *)
(* test/schema-drift-fixture.ts recorded it.  Ages are in steps of the     *)
(* limit of a run.                                                         *)
(***************************************************************************)
EXTENDS Integers, FiniteSets, Functions

CONSTANTS
  StaleCopy,  \* the age above which a copy counts as left behind
  RunLimit    \* the age of a run at which CI, or the hook, ends it

ASSUME DriftAssumption ==
  /\ StaleCopy \in Nat /\ RunLimit \in Nat
  /\ RunLimit <= StaleCopy

VARIABLES
  drift,      \* where the run is: "idle", a step of main, or "over"
  driftCode,  \* its exit code, "killed", or "none" while there is none
  outcome,    \* what generateInCopy returned, "none" for undefined
  copies,     \* the age of each copy under COPY_PARENT
  neighbour   \* the run next to this one: "none", "going" or "over"

driftVars == <<drift, driftCode, outcome, copies, neighbour>>

\* What the migrations folder is to the schema.
Folders ==
  {"match",         \* generate has nothing to do, and check finds nothing
   "behind",        \* the schema changed without its migration
   "ambiguous",     \* ... by what may be a rename
   "colliding",     \* two branches each added a migration
   "not kept",      \* generate would rewrite files it says are in order
   "inconsistent",  \* generate finds nothing to do, check does
   "unloadable"}    \* the schema, or a snapshot, cannot be loaded

DriftInit ==
  /\ drift = "idle" /\ driftCode = "none" /\ outcome = "none"
  /\ neighbour = "none"
  /\ \E left \in SUBSET {"left"} : copies = [c \in left |-> StaleCopy + 1]

-----------------------------------------------------------------------------
(* What drizzle-kit prints, and how the script reads it *)

\* The files of the folder, by path, and a run that left others in the copy.
Kept == [journal |-> "kept", snapshot |-> "kept"]

Ended(signs, status, files) ==
  [signs |-> signs, status |-> status, files |-> files,
   timedOut |-> FALSE, killed |-> FALSE]

Generated(folder) ==
  CASE folder \in {"match", "inconsistent"} -> Ended({"clean"}, 0, Kept)
    [] folder = "behind" ->
         Ended({"wrote"}, 0, [journal |-> "new", snapshot |-> "kept", migration |-> "new"])
    [] folder = "ambiguous" -> Ended({"rename question"}, 0, Kept)
    [] folder = "colliding" -> Ended({"collision"}, 0, Kept)
    [] folder = "not kept" -> Ended({"clean"}, 0, [journal |-> "kept", snapshot |-> "new"])
    [] folder = "unloadable" -> Ended({}, 1, Kept)

CheckedFolder(folder) ==
  CASE folder = "colliding" -> Ended({"collision"}, 1, Kept)
    [] folder \in {"inconsistent", "unloadable"} -> Ended({"malformed"}, 1, Kept)
    [] OTHER -> Ended({"fine"}, 0, Kept)

\* A run of drizzle-kit may also be cut, by the limit or by a signal, before or
\* after its last line; or fail with nothing to read.
Endings(whole) ==
  {whole, [whole EXCEPT !.timedOut = TRUE], [whole EXCEPT !.killed = TRUE],
   [whole EXCEPT !.signs = {}], Ended({}, 1, Kept)}

Cut(run) == run.timedOut \/ run.killed

\* A collision wins over a rename, both over the exit code.
ClassifyGenerate(run) ==
  IF Cut(run) THEN "unfinished"
  ELSE IF "collision" \in run.signs THEN "snapshot_collision"
  ELSE IF "rename question" \in run.signs THEN "rename_question"
  ELSE IF run.status # 0 THEN "unfinished"
  ELSE IF "wrote" \in run.signs THEN "wrote"
  ELSE IF "clean" \in run.signs THEN "clean"
  ELSE "unfinished"

ClassifyCheck(run) ==
  IF Cut(run) THEN "unfinished"
  ELSE CASE run.status = 0 /\ "fine" \in run.signs -> "fine"
         [] run.status = 1 /\ run.signs \cap {"collision", "malformed"} # {} -> "inconsistent"
         [] OTHER -> "unfinished"

\* changesOf: the files that appeared, went, or have another content.
ChangesOf(before, after) ==
  {path \in DOMAIN before \cup DOMAIN after :
     path \in DOMAIN before \cap DOMAIN after => before[path] # after[path]}

\* generateInCopy, after its run: drift is told by what was printed, and by any
\* file of the copy that changed, whatever was printed.
GenerateOutcome_Fault(run) ==
  LET class == ClassifyGenerate(run)
  IN  CASE class = "unfinished" -> "2"
        [] class = "clean" -> "none"
        [] OTHER -> "1"
GenerateOutcome(run) ==
  LET class == ClassifyGenerate(run)
  IN  CASE class = "unfinished" -> "2"
        [] class = "clean" /\ ChangesOf(Kept, run.files) = {} -> "none"
        [] OTHER -> "1"

-----------------------------------------------------------------------------
(* The copies *)

Without(owner) == Restrict(copies, DOMAIN copies \ {owner})
WithNew(owner, held) == [c \in DOMAIN held \cup {owner} |-> IF c = owner THEN 0 ELSE held[c]]

\* removeStaleCopies: the copies a sweep takes.  Each may fail to go, which is
\* named and nothing more; a failed listing takes none.
Stale_Fault(held) == DOMAIN held
Stale(held) == {c \in DOMAIN held : held[c] > StaleCopy}
Swept(held) == {Restrict(held, DOMAIN held \ gone) : gone \in SUBSET Stale(held)}

\* The sweep and the copy of the run next to this one; its end, with the copy
\* removed, or left because the run was killed or the removal failed.
NeighbourBegins ==
  /\ neighbour = "none" /\ neighbour' = "going"
  /\ \E rest \in Swept(copies) : copies' = WithNew("next", rest)
  /\ UNCHANGED <<drift, driftCode, outcome>>

NeighbourEnds ==
  /\ neighbour = "going" /\ neighbour' = "over"
  /\ copies' \in {copies, Without("next")}
  /\ UNCHANGED <<drift, driftCode, outcome>>

HoldsCopy == drift \in {"copy", "generate", "remove"}
Going == (IF HoldsCopy THEN {"own"} ELSE {}) \cup (IF neighbour = "going" THEN {"next"} ELSE {})

\* Time passes; a run that goes on is ended before it is older than its limit.
CopiesAge ==
  /\ \A r \in Going : copies[r] < RunLimit
  /\ \E c \in DOMAIN copies : copies[c] <= StaleCopy
  /\ copies' = [c \in DOMAIN copies |->
                  IF copies[c] <= StaleCopy THEN copies[c] + 1 ELSE copies[c]]
  /\ UNCHANGED <<drift, driftCode, outcome, neighbour>>

-----------------------------------------------------------------------------
(* main *)

Leave(code) == drift' = "over" /\ driftCode' = code

\* What reading the version of the installed drizzle-kit may come to.
Installed == {"recorded", "another", "unreadable"}

\* Only the version whose lines are known is run.
ReadVersion(installed) ==
  /\ drift = "idle"
  /\ IF installed = "recorded" THEN drift' = "parent" /\ UNCHANGED driftCode
     ELSE Leave("2")
  /\ UNCHANGED <<outcome, copies, neighbour>>

\* The parent of the copies, the sweep of those left behind, then the own one.
MakeCopy(fails) ==
  /\ drift = "parent"
  /\ \E rest \in Swept(copies) :
       IF fails THEN Leave("2") /\ copies' \in {copies, rest}
       ELSE drift' = "copy" /\ copies' = WithNew("own", rest) /\ UNCHANGED driftCode
  /\ UNCHANGED <<outcome, neighbour>>

\* The folder into the copy: no relative path to it, or a file that cannot be
\* read, and the check does not take place.
CopyFolder(fails) ==
  /\ drift = "copy"
  /\ IF fails THEN drift' = "remove" /\ outcome' = "2"
     ELSE drift' = "generate" /\ UNCHANGED outcome
  /\ UNCHANGED <<driftCode, copies, neighbour>>

\* The run of generate, or a failure to start it, to hold its output, or to
\* read the copy afterwards.
Generate(folder) ==
  /\ drift = "generate"
  /\ drift' = "remove"
  /\ \/ \E run \in Endings(Generated(folder)) : outcome' = GenerateOutcome(run)
     \/ outcome' = "2"
  /\ UNCHANGED <<driftCode, copies, neighbour>>

\* finally: the copy goes, or its removal fails and is named; the code stands.
RemoveCopy(fails) ==
  /\ drift = "remove"
  /\ copies' = IF fails THEN copies ELSE Without("own")
  /\ IF outcome = "none" THEN drift' = "check" /\ UNCHANGED driftCode ELSE Leave(outcome)
  /\ UNCHANGED <<outcome, neighbour>>

CheckFolder(folder) ==
  /\ drift = "check"
  /\ \/ \E run \in Endings(CheckedFolder(folder)) :
          LET class == ClassifyCheck(run)
          IN  Leave(CASE class = "fine" -> "0" [] class = "inconsistent" -> "1" [] OTHER -> "2")
     \/ Leave("2")
  /\ UNCHANGED <<outcome, copies, neighbour>>

\* The limit of the step of CI, or of the hook, or the developer.
Killed ==
  /\ drift \notin {"idle", "over"}
  /\ Leave("killed")
  /\ UNCHANGED <<outcome, copies, neighbour>>

DriftNext(folder) ==
  \/ \E installed \in Installed : ReadVersion(installed)
  \/ \E fails \in BOOLEAN : MakeCopy(fails) \/ CopyFolder(fails) \/ RemoveCopy(fails)
  \/ Generate(folder) \/ CheckFolder(folder) \/ Killed
  \/ NeighbourBegins \/ NeighbourEnds \/ CopiesAge

\* The gate by itself, on a folder that may change under it.
DriftSpec == DriftInit /\ [][\E folder \in Folders : DriftNext(folder)]_driftVars

-----------------------------------------------------------------------------
(* Properties *)

(***************************************************************************)
(* The sweep of one run never takes the copy of another that goes on: each *)
(* run has its copy from the moment it made it until it removes it.        *)
(***************************************************************************)
CopiesAreTheirRuns == Going \subseteq DOMAIN copies

(***************************************************************************)
(* A run that ends with 0 looked at a folder that matches the schema; one  *)
(* that ends with 1 did not.  A run that was cut or could not read its     *)
(* answer says neither.                                                    *)
(***************************************************************************)
DriftToldOf(folder) ==
  /\ driftCode = "0" => folder = "match"
  /\ driftCode = "1" => folder \notin {"match", "unloadable"}
=============================================================================
