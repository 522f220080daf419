---------------------------- MODULE StopContract ----------------------------
(***************************************************************************)
(* What an orchestrator and an operator may rely on when they stop one of  *)
(* the processes, whatever its plan is: the process leaves once, with the  *)
(* verdict that was reached first; 0 only if every target was released and *)
(* nobody had reported a failure; 130 only where the operator may insist.  *)
(* Shutdown.tla is shown to implement it.                                  *)
(***************************************************************************)
EXTENDS Integers

CONSTANTS Stages,   \* the targets the stop has to release
          Forcible  \* whether a second Ctrl+C may end the stop with 130

NoCode == -1
Codes == {0, 1, 130}

VARIABLES stopping,  \* the stop has begun
          released,  \* the targets closed, or known never to have been open
          blamed,    \* a failure has been reported to the stop
          verdict,   \* the code the stop has settled on
          left       \* the code the process left with

contractVars == <<stopping, released, blamed, verdict, left>>

ContractInit ==
  /\ stopping = FALSE
  /\ released = {}
  /\ blamed = FALSE
  /\ verdict = NoCode
  /\ left = NoCode

\* The stop begins, possibly as the consequence of a failure.
Stop ==
  /\ ~stopping
  /\ stopping' = TRUE
  /\ blamed' \in {blamed, TRUE}
  /\ UNCHANGED <<released, verdict, left>>

\* Targets are released, failures are learnt: until the process is gone.
Learn ==
  /\ stopping /\ left = NoCode
  /\ blamed' \in {blamed, TRUE}
  /\ released \subseteq released' /\ released' \subseteq Stages
  /\ UNCHANGED <<stopping, verdict, left>>

Justified(code) ==
  \/ code = 0 /\ ~blamed /\ released = Stages
  \/ code = 1
  \/ code = 130 /\ ~blamed /\ Forcible

\* The verdict is reached once; what reaches it may bring news of a failure.
Decide ==
  /\ stopping /\ verdict = NoCode
  /\ blamed' \in {blamed, TRUE}
  /\ \E code \in Codes : Justified(code)' /\ verdict' = code
  /\ UNCHANGED <<stopping, released, left>>

Leave ==
  /\ verdict # NoCode /\ left = NoCode
  /\ left' = verdict
  /\ UNCHANGED <<stopping, released, blamed, verdict>>

ContractNext == Stop \/ Learn \/ Decide \/ Leave

ContractSafety == ContractInit /\ [][ContractNext]_contractVars

\* A stop that began ends, however many of its targets never finish closing.
StopEnds == stopping ~> left # NoCode
=============================================================================
