------------------------- MODULE DependencyFailures --------------------------
(***************************************************************************)
(* What the failure of a read says about Postgres or Redis: the reasons of *)
(* the status page (system-status.ts) over the failures of a connection    *)
(* (packages/runtime/src/connection-failure.ts).                           *)
(*                                                                         *)
(* A failure is the error's name, its code and the class of a SQLSTATE     *)
(* (its first two characters), or the words ioredis says it with.          *)
(***************************************************************************)
EXTENDS Integers

Failure(name, code, class, message) ==
  [name |-> name, code |-> code, class |-> class, message |-> message]
Sqlstate(class, state) == Failure("PostgresError", state, class, "")
Coded(code) == Failure("Error", code, "", "")
Said(message) == Failure("Error", "", "", message)
Named(name) == Failure(name, "", "", "")

-----------------------------------------------------------------------------
(* A failure of the connection *)

SocketFailureCodes == {"ECONNREFUSED", "ENOTFOUND", "EAI_AGAIN", "ETIMEDOUT",
                       "EPIPE", "ECONNRESET", "EHOSTUNREACH", "ENETUNREACH"}
RedisDownMessages ==
  {"Connection is closed.",
   "Stream isn't writeable and enableOfflineQueue options is false"}

\* connectionFailure: nobody there, nobody answering in time, or neither.
ConnectionFailure(f) ==
  IF f.code \in SocketFailureCodes THEN "unreachable"
  ELSE IF f.message = "Command timed out" THEN "timeout"
  ELSE IF f.message \in RedisDownMessages
            \/ f.name = "MaxRetriesPerRequestError" THEN "unreachable"
  ELSE "none"

-----------------------------------------------------------------------------
(* The reason on the page *)

NotMigratedStates == {"42P01", "42703"}
RefusedStates == {"57P04", "08P01", "3D000"}
RefusedClasses == {"28"}
UnreachableStates == {"57P01", "57P02", "57P03"}
UnreachableClasses == {"08"}
TimeoutStates == {"57014"}
ServerStates == {"25006", "25P03", "25P04"}
NamedStates == NotMigratedStates \cup RefusedStates \cup UnreachableStates
                 \cup TimeoutStates \cup ServerStates
DefectClasses == {"42", "3F", "22", "23", "0A", "25", "26", "2B", "34", "2F",
                  "39", "3B", "44"}

\* postgresFailureCode: a state named on its own wins over its class, and a
\* defect of this service is no reason at all.
PostgresFailureCode_Fault(f) ==
  IF f.code = "" THEN "error"
  ELSE IF f.class \in DefectClasses THEN "none"
  ELSE CASE f.code \in NotMigratedStates -> "not_migrated"
         [] f.code \in RefusedStates -> "refused"
         [] f.code \in UnreachableStates -> "unreachable"
         [] f.code \in TimeoutStates -> "timeout"
         [] f.code \notin NamedStates /\ f.class \in RefusedClasses -> "refused"
         [] f.code \notin NamedStates /\ f.class \in UnreachableClasses -> "unreachable"
         [] OTHER -> "error"
PostgresFailureCode(f) ==
  IF f.code = "" THEN "error"
  ELSE IF f.code \in NamedStates
  THEN CASE f.code \in NotMigratedStates -> "not_migrated"
         [] f.code \in RefusedStates -> "refused"
         [] f.code \in UnreachableStates -> "unreachable"
         [] f.code \in TimeoutStates -> "timeout"
         [] f.code \in ServerStates -> "error"
  ELSE CASE f.class \in RefusedClasses -> "refused"
         [] f.class \in UnreachableClasses -> "unreachable"
         [] f.class \in DefectClasses -> "none"
         [] OTHER -> "error"

PostgresUnreachableCodes == {"CONNECT_TIMEOUT", "CONNECTION_CLOSED",
                             "CONNECTION_DESTROYED", "CONNECTION_ENDED"}

\* dependencyFailureCode: "none" is a defect of ours, answered with a 500.
DependencyFailureCode(f) ==
  IF f.name \in {"DeadlineError", "ProbeLimitError"} THEN "timeout"
  ELSE IF f.name = "ProbeClosedError" THEN "error"
  ELSE IF ConnectionFailure(f) # "none" THEN ConnectionFailure(f)
  ELSE IF f.code \in PostgresUnreachableCodes THEN "unreachable"
  ELSE IF f.name = "PostgresError" THEN PostgresFailureCode(f)
  ELSE IF f.name = "ReplyError" THEN "error" ELSE "none"

\* REASON_CERTAINTY: how much a reason says about the dependency.
Certainty == [not_migrated |-> 5, refused |-> 4, unreachable |-> 3,
              error |-> 2, timeout |-> 1]

\* dependencyCheck: the most certain reason of the sections that failed, and
\* "up" without any.
DependencyCheck(reasons) ==
  IF reasons = {} THEN "up"
  ELSE CHOOSE r \in reasons : \A s \in reasons : Certainty[r] >= Certainty[s]
=============================================================================
