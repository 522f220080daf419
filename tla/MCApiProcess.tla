---------------------------- MODULE MCApiProcess -----------------------------
(* Two requests; a read of each dependency fails by an outage that is named
   apart from its SQLSTATE class, by an ordinary one, or by a defect. *)
EXTENDS ApiProcess

MCClients == {1, 2}
MCRoutesOf == <<{"/system/status"},
                {"/system/status", "/health", "unknown", "bad url", "other"}>>
AppError(c, message, status, details) ==
  [kind |-> "app", status |-> status, code |-> c, message |-> message,
   details |-> details]
MCHandlerErrors ==
  {AppError("prose", "sentence", 502, "foreign"),
   AppError("identifier", "overlong", 409, "none"),
   Thrown("primitive", 0), Thrown("unmappable", 0)}
MCCloseAnswers == [s \in Stages |->
  IF s = "app" THEN {"closed", "failed"} ELSE {"closed"}]
Outage(cause, failure) == [cause |-> cause, failure |-> failure]
MCOutages == [s \in Sections |->
  CASE s = "budget" -> {Outage("dependency", Sqlstate("25", "25006")),
                        Outage("service", Sqlstate("42", "42883"))}
    [] s = "queues" -> {Outage("dependency", Said("Command timed out")),
                        Outage("service", Named("QueueCountersError"))}
    [] s \in {"worker", "ping db"} -> {Outage("dependency", Coded("ECONNREFUSED"))}
    [] OTHER -> {}]
MCImpatient == {2}
MCSlow == {"queues", "ping redis"}
=============================================================================
