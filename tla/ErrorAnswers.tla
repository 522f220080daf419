---------------------------- MODULE ErrorAnswers -----------------------------
(***************************************************************************)
(* What a failure of the api looks like on the wire and in the log         *)
(* (error-mapping.ts, error-text.ts, error-response.ts, socket-errors.ts,  *)
(* the error half of request-log.ts), and what the typed client makes of   *)
(* an answer (packages/api-client/src/client.ts).                          *)
(*                                                                         *)
(* A text is the kind of text it is: the rules look at its shape only.     *)
(***************************************************************************)
EXTENDS Integers, Sequences

Codes == {"missing", "identifier", "prose", "blank", "overlong", "not text"}
Messages == {"sentence", "blank", "overlong", "not text"}
Details == {"none", "issues", "empty list", "budget numbers", "foreign"}
Kinds == {"primitive", "request validation", "response serialization",
          "budget exceeded", "validation", "app", "closing", "other",
          "unmappable"}

\* What a handler, a hook or a plugin throws.  status is httpStatus of an
\* AppError and statusCode of anything else; 0 stands for none or no integer.
Errors == [kind : Kinds, status : {0, 302, 400, 401, 404, 409, 418, 502, 503, 700},
           code : Codes, message : Messages, details : Details]

Thrown(kind, status) == [kind |-> kind, status |-> status, code |-> "missing",
                         message |-> "sentence", details |-> "none"]
ServiceClosing == Thrown("closing", 503)
Unauthorized == Thrown("other", 401)
Unserializable == Thrown("response serialization", 500)

AppErrorKinds == {"budget exceeded", "validation", "app"}

-----------------------------------------------------------------------------
(* The texts that may leave *)

\* printableLine: one line of printable characters; only its emptiness counts.
PrintableLine(text) == IF text = "blank" THEN "empty" ELSE text

SafeMessage(message, fallback) ==
  IF message = "not text" \/ PrintableLine(message) = "empty" THEN fallback
  ELSE IF message = "overlong" THEN "cut short" ELSE message

SafeCode(code, fallback) == IF code = "identifier" THEN code ELSE fallback

IsErrorStatus(status) == status \in 400 .. 599
IsClientStatus(status) == status \in 400 .. 499

\* CLIENT_ERROR_CODES of the contract; any other 4xx is CLIENT_ERROR.
NamedClientErrors ==
  {400, 401, 403, 404, 405, 406, 408, 409, 413, 414, 415, 429, 431}
ClientErrorCode(status) ==
  IF status \in NamedClientErrors THEN "code of the status" ELSE "CLIENT_ERROR"

CodeFallback(status) ==
  IF IsClientStatus(status) THEN ClientErrorCode(status) ELSE "INTERNAL_ERROR"

\* toDetailItems and publicDetails: what an error class may say of its details.
ToDetailItems(details) == IF details = "issues" THEN "issues" ELSE "none"
PublicDetails(e) ==
  CASE e.kind = "budget exceeded" -> "budget numbers"
    [] e.kind = "validation" -> ToDetailItems(e.details)
    [] OTHER -> "none"

-----------------------------------------------------------------------------
(* The mapping *)

Mapped(status, code, message, details) ==
  [status |-> status, code |-> code, message |-> message, details |-> details]

\* statusMessage is the reason phrase of the status, for every one of these.
ClientError(status) ==
  Mapped(status, ClientErrorCode(status), "reason phrase", "none")
ServerError(status) == Mapped(status, "INTERNAL_ERROR", "reason phrase", "none")
InternalError == ServerError(500)

MapAppError(e) ==
  IF ~IsErrorStatus(e.status) THEN InternalError
  ELSE LET code == SafeCode(e.code, CodeFallback(e.status))
       IN  IF IsClientStatus(e.status)
           THEN Mapped(e.status, code,
                       SafeMessage(e.message, "reason phrase"),
                       PublicDetails(e))
           ELSE Mapped(e.status, code, "reason phrase", "none")

MapError(e) ==
  CASE e.kind = "primitive" -> InternalError
    [] e.kind = "request validation" ->
         Mapped(400, "VALIDATION_ERROR", "sentence", ToDetailItems(e.details))
    [] e.kind = "response serialization" -> InternalError
    [] e.kind \in AppErrorKinds -> MapAppError(e)
    [] OTHER -> IF IsClientStatus(e.status) THEN ClientError(e.status)
                ELSE IF IsErrorStatus(e.status) THEN ServerError(e.status)
                ELSE InternalError

\* The router's own failures: a url that does not decode, a parameter too
\* long, a constraint that throws.
MapFrameworkError(status) ==
  IF IsClientStatus(status) THEN ClientError(status) ELSE InternalError

\* What Node refused on the socket, by the code of its error.
MapSocketError(nodeCode) ==
  ClientError(CASE nodeCode = "ERR_HTTP_REQUEST_TIMEOUT" -> 408
                [] nodeCode = "HPE_HEADER_OVERFLOW" -> 431
                [] OTHER -> 400)

\* An answer is its status, the kind of its body, and what the envelope says.
Answer(status, type, mapped) ==
  [status |-> status, type |-> type, mapped |-> mapped]
NoFailure == Mapped(0, "none", "none", "none")
Success(status, type) == Answer(status, type, NoFailure)

\* errorBodyOf: the envelope every failure of the service is sent in.
ErrorAnswer(mapped) == Answer(mapped.status, "envelope", mapped)

-----------------------------------------------------------------------------
(* The error in the log *)

\* A code that makes no line is left out, and the rest is bounded.
LoggableCode(code) ==
  CASE code \in {"missing", "blank"} -> "missing"
    [] code = "overlong" -> "cut short"
    [] code = "not text" -> "name of its type"
    [] OTHER -> code

\* The details of an AppError are replaced by what may be said of them.
LoggableDetails(e) ==
  IF e.kind \notin AppErrorKinds \/ e.details = "none" THEN e.details
  ELSE IF PublicDetails(e) = "none" THEN "[omitted]" ELSE PublicDetails(e)

\* loggableError: anything but an AppError is written as it is.
LoggableError(e) ==
  IF e.kind \in AppErrorKinds
  THEN [e EXCEPT !.code = LoggableCode(e.code), !.details = LoggableDetails(e)]
  ELSE e

-----------------------------------------------------------------------------
(* The client at the other end *)

HealthAnswerStatuses == {200, 503}
HealthStatusCode(body) == IF body = "ok" THEN 200 ELSE 503

\* What the two calls of the client say of their routes.
AnswerStatuses(route) == IF route = "/health" THEN HealthAnswerStatuses ELSE {}
AgreesWithStatus(route, type, status) ==
  route = "/health" => HealthStatusCode(type) = status
Describes(route, type) ==
  IF route = "/health" THEN type \in {"ok", "degraded"} ELSE type = "page"

\* readBounded and its callers: the text of a body, or why there is none.
ReadBounded(transport) ==
  CASE transport \in {"announced too big", "grew too big"} -> "past the limit"
    [] transport = "cut off" -> "unreadable"
    [] OTHER -> "text"

\* request: the value of the route, the failure it reported, or a breach of
\* the contract.  A body of the error envelope is no answer of a route.
ReadAnswer(route, transport, answer) ==
  LET ok == answer.status \in 200 .. 299
      answered == ok \/ answer.status \in AnswerStatuses(route)
      type == answer.type
  IN  IF transport = "unreached" \/ ReadBounded(transport) # "text"
           \/ type = "not JSON"
      THEN "ApiContractError"
      ELSE IF answered /\ Describes(route, type)
           THEN IF AgreesWithStatus(route, type, answer.status)
                THEN "value" ELSE "ApiContractError"
           ELSE IF ~ok /\ type = "envelope" THEN "ApiError"
                ELSE "ApiContractError"
=============================================================================
