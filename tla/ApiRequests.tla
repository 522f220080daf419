----------------------------- MODULE ApiRequests -----------------------------
(***************************************************************************)
(* A request of the api, from the router to its last line in the log: the  *)
(* hooks (plugins/closing.ts, auth.ts), the routes /health and             *)
(* /system/status over reads that requests share, the error handler and    *)
(* the log controller (lib/request-log.ts).                                *)
(*                                                                         *)
(* Fastify and Node are external: they hand a request on, report what      *)
(* broke, and finish a response or not.  The route "other" stands for the  *)
(* routes of access-log.test.ts: it throws anything, streams its body or   *)
(* sets a head Node refuses.                                               *)
(***************************************************************************)
EXTENDS ErrorAnswers, DependencyFailures, FiniteSets

CONSTANTS
  Clients,       \* the requests of this run
  RoutesOf,      \* what each of them may ask for
  HandlerErrors, \* what the route "other" may throw
  Outages,       \* by section: how its read may fail, and whose fault it is
  Slow,          \* the sections whose read may outlast its deadline
  Impatient      \* the requests whose client may leave before the answer

Sections == {"queues", "worker", "budget", "ping db", "ping redis"}
SectionsOf(route) ==
  CASE route = "/system/status" -> {"queues", "worker", "budget"}
    [] route = "/health" -> {"ping db", "ping redis"}
    [] OTHER -> {}
DependencyOf(s) == IF s \in {"budget", "ping db"} THEN "db" ELSE "redis"

ASSUME RequestsAssumption ==
  /\ HandlerErrors \subseteq Errors /\ Slow \subseteq Sections
  /\ \A s \in Sections : \A o \in Outages[s] :
       o.cause \in {"dependency", "service", "stop"}

VARIABLES
  req,    \* what has become of each request
  flight  \* the sections whose shared read is on its way

reqVars == <<req, flight>>

Idle == [state |-> "idle", cause |-> "none", failure |-> Named("")]
Waiting == [Idle EXCEPT !.state = "waiting"]
Read == [Idle EXCEPT !.state = "ok"]
Failed(cause, failure) ==
  [state |-> "failed", cause |-> cause, failure |-> failure]

NoError == Thrown("other", 0)
RawError == NoError  \* what Node and Fastify report is written as it is
NoRequest == [phase |-> "none", route |-> "none", authenticated |-> "no",
              told |-> FALSE, lines |-> <<>>, error |-> NoError,
              answer |-> Success(0, "none"), here |-> TRUE, over |-> FALSE,
              section |-> [s \in Sections |-> Idle],
              socket |-> "open", refusals |-> <<>>]

ReqInit ==
  /\ req = [r \in Clients |-> NoRequest]
  /\ flight = [s \in Sections |-> FALSE]

-----------------------------------------------------------------------------
(* The request log *)

Line(msg, e) == [msg |-> msg, err |-> LoggableError(e)]
Write(q, msg, e) == [q EXCEPT !.lines = Append(@, Line(msg, e))]
Told(q) == [q EXCEPT !.told = TRUE]

\* logRejection: short, without the error, and the only line of its request.
LogRejection(q) == Told(Write(q, "request rejected", NoError))

LogError_Fault(q, e, mapped) ==
  IF e.kind = "closing" \/ q.authenticated # "yes"
  THEN LogRejection(q)
  ELSE IF mapped.status >= 500
       THEN Told(Write(q, "request failed", e))
       ELSE Told(Write(q, "request rejected, with its error", e))
LogError(q, e, mapped) ==
  IF e.kind = "closing" \/ (mapped.status < 500 /\ q.authenticated # "yes")
  THEN LogRejection(q)
  ELSE IF mapped.status >= 500
       THEN Told(Write(q, "request failed", e))
       ELSE Told(Write(q, "request rejected, with its error", e))

\* logAccess: silent for a request some line has told about.
LogAccess(q) == IF q.told THEN q ELSE Write(q, "request completed", NoError)

\* failureLine: a failure of the response itself, if it is the first.
FailureLine(q, msg) ==
  IF q.told THEN q ELSE Told(Write(q, msg, RawError))

\* secondFailureLine: told whether or not a line is there.
SecondFailureLine(q, msg) == Told(Write(q, msg, RawError))

\* clientWentAway and streamError: the socket tells who ended the stream.
StreamError_Fault(q) ==
  IF q.here THEN FailureLine(q, "response stream failed")
  ELSE Write(q, "stream closed prematurely", NoError)
StreamError(q) ==
  IF q.here THEN FailureLine(q, "response stream failed")
  ELSE Told(Write(q, "stream closed prematurely", NoError))

-----------------------------------------------------------------------------
(* The way out: from a body or an error to the socket, in one turn *)

\* errorResponses and withErrorEnvelope: the bodies a route declares.
Declared_Fault(route, status) ==
  CASE route = "/health" /\ status \in HealthAnswerStatuses -> {"ok", "degraded"}
    [] route = "/system/status" /\ status = 200 -> {"page"}
    [] route = "other" -> {"plain", "envelope"}
    [] OTHER -> {"envelope"}
Declared(route, status) ==
  CASE route = "/health" /\ status = 200 -> {"ok", "degraded"}
    [] route = "/health" /\ status = 503 -> {"ok", "degraded", "envelope"}
    [] route = "/system/status" /\ status = 200 -> {"page"}
    [] route = "other" -> {"plain", "envelope"}
    [] OTHER -> {"envelope"}

Sending(q, answer) == [q EXCEPT !.phase = "sending", !.answer = answer]
Foreign == Success(500, "foreign")

\* The error handler failed: the default handler takes over, and the
\* serializer of a declared route refuses its body as well.
Fallback(q) ==
  Sending(SecondFailureLine(SecondFailureLine(q, "error handler failed"),
                            "response serializer failed"), Foreign)

\* A head Node refuses: our error answer and the default handler's break on it.
HeadBreaks(q) ==
  Sending(SecondFailureLine(SecondFailureLine(q, "error handler failed"),
                            "response head failed"), Foreign)

\* The error handler's answer, through the serializer of the route.
SendError(q, mapped) ==
  IF "envelope" \in Declared(q.route, mapped.status)
  THEN Sending(q, ErrorAnswer(mapped)) ELSE Fallback(q)

\* setErrorHandler: an error it cannot read is Fastify's to answer.
HandleError(q, e) ==
  LET failing == [q EXCEPT !.error = e]
  IN  IF e.kind = "unmappable" THEN Fallback(failing)
      ELSE SendError(LogError(failing, e, MapError(e)), MapError(e))

\* What the handler returns; a body its schema does not describe is an error.
Reply(q, answer) ==
  IF answer.type \in Declared(q.route, answer.status) THEN Sending(q, answer)
  ELSE HandleError(q, Unserializable)

-----------------------------------------------------------------------------
(* The hooks *)

\* frameworkErrorHandler: on a request without the decorators of a route.
FrameworkError(q, status) ==
  LET mapped == MapFrameworkError(status)
      e == Thrown("other", status)
  IN  Sending(LogError([q EXCEPT !.authenticated = "absent", !.error = e],
                       e, mapped),
              ErrorAnswer(mapped))

\* The not-found handler, behind the password like everything else.
NotFound(q) == SendError(LogRejection(q), ClientError(404))

PublicRoutes == {"/health"}

HandlerBegins(q) ==
  [q EXCEPT !.phase = "handling",
            !.section = [s \in Sections |->
                           IF s \in SectionsOf(q.route) THEN Waiting ELSE Idle]]

\* onRequest: the closing hook, then the password, then the route.
OnRequest(q, closing, right) ==
  IF closing THEN HandleError(q, ServiceClosing)
  ELSE IF q.route \in PublicRoutes THEN HandlerBegins(q)
  ELSE IF ~right THEN HandleError(q, Unauthorized)
  ELSE IF q.route = "unknown" THEN NotFound([q EXCEPT !.authenticated = "yes"])
  ELSE HandlerBegins([q EXCEPT !.authenticated = "yes"])

\* A url that does not decode, a parameter too long, a constraint that throws.
RouterStatuses == {400, 414, 0}

\* A request joins the read that is on its way, or starts it (singleFlight).
Arrive(r, closing) ==
  /\ req[r].phase = "none"
  /\ \E route \in RoutesOf[r] :
       LET q == [req[r] EXCEPT !.route = route]
       IN  \/ /\ route = "bad url"
              /\ \E status \in RouterStatuses :
                   req' = [req EXCEPT ![r] = FrameworkError(q, status)]
           \/ /\ route # "bad url"
              /\ \E right \in BOOLEAN :
                   req' = [req EXCEPT ![r] = OnRequest(q, closing, right)]
  /\ flight' = [s \in Sections |->
                  flight[s] \/ req'[r].section[s].state = "waiting"]

-----------------------------------------------------------------------------
(* The handlers *)

\* A shared read settles, for every request that waits for it.
FlightEnds(s, outcomes) ==
  /\ flight[s]
  /\ flight' = [flight EXCEPT ![s] = FALSE]
  /\ \E outcome \in outcomes :
       req' = [r \in Clients |->
                 IF req[r].section[s].state = "waiting"
                 THEN [req[r] EXCEPT !.section[s] = outcome] ELSE req[r]]

\* withDeadline: a request gives up on its own, the read goes on.
Deadline(r, s) ==
  /\ req[r].phase = "handling" /\ req[r].section[s].state = "waiting"
  /\ req' = [req EXCEPT ![r].section[s] =
               Failed("dependency", Named("DeadlineError"))]
  /\ UNCHANGED flight

Settled(q) == \A s \in Sections : q.section[s].state # "waiting"

\* collect: a failure of the dependency is a reason, any other is rethrown.
ReasonOf(q, s) ==
  IF q.section[s].state = "failed"
  THEN DependencyFailureCode(q.section[s].failure) ELSE "read"
Rethrown(q) == \E s \in Sections : ReasonOf(q, s) = "none"

\* What the page says of a dependency, from the sections that used it.
Check(q, dependency) ==
  DependencyCheck({ReasonOf(q, s) : s \in {x \in SectionsOf(q.route) :
                     DependencyOf(x) = dependency}} \ {"read"})

\* Sections that still wait when the handler is over settle for nobody.
Abandon(q) ==
  [q EXCEPT !.section = [s \in Sections |->
     IF @[s].state = "waiting" THEN Idle ELSE @[s]]]

\* The handler of /system/status: the page, also one its schema does not
\* describe, or the first defect of a section.
PageEnds(r) ==
  LET q == req[r]
  IN  /\ q.phase = "handling" /\ q.route = "/system/status"
      /\ \/ /\ Rethrown(q)
            /\ req' = [req EXCEPT ![r] = HandleError(Abandon(q), NoError)]
         \/ /\ Settled(q) /\ ~Rethrown(q)
            /\ \E type \in {"page", "misfit"} :
                 req' = [req EXCEPT ![r] = Reply(q, Success(200, type))]
      /\ UNCHANGED flight

\* The handler of /health: any failure of a probe is "down".
HealthEnds(r) ==
  LET q == req[r]
      type == IF \A s \in SectionsOf("/health") : q.section[s].state = "ok"
              THEN "ok" ELSE "degraded"
  IN  /\ q.phase = "handling" /\ q.route = "/health" /\ Settled(q)
      /\ req' = [req EXCEPT ![r] = Reply(q, Success(HealthStatusCode(type), type))]
      /\ UNCHANGED flight

\* A response that has broken has no head left to stream under.
OtherEnds(r) ==
  LET q == req[r]
  IN  /\ q.phase = "handling" /\ q.route = "other"
      /\ \/ \E e \in HandlerErrors : req' = [req EXCEPT ![r] = HandleError(q, e)]
         \/ \E e \in HandlerErrors :
              req' = [req EXCEPT ![r] = HeadBreaks(HandleError(q, e))]
         \/ req' = [req EXCEPT ![r] = Reply(q, Success(200, "plain"))]
         \/ /\ ~q.over
            /\ req' = [req EXCEPT ![r].phase = "streaming",
                                  ![r].answer = Success(200, "stream")]
      /\ UNCHANGED flight

-----------------------------------------------------------------------------
(* The end of the response *)

\* What the request read is forgotten with it.
Over(q, phase) ==
  [q EXCEPT !.phase = phase, !.section = NoRequest.section]

\* requestCompleted without an error: only of a client that is still there.
Completes(r) ==
  LET q == req[r]
  IN  /\ q.phase \in {"sending", "streaming"} /\ q.here
      /\ req' = [req EXCEPT ![r] =
           IF q.over THEN Over(q, "broken") ELSE Over(LogAccess(q), "done")]
      /\ UNCHANGED flight

\* requestCompleted with the error the response broke with, once, at any
\* moment from the start of the handler on.
Breaks(r) ==
  LET q == req[r]
  IN  /\ q.route = "other" /\ ~q.over
      /\ q.phase \in {"handling", "sending", "left"}
      /\ req' = [req EXCEPT ![r] =
           [FailureLine(q, "request errored") EXCEPT !.over = TRUE]]
      /\ UNCHANGED flight

\* A stream fails after its head has gone out.
StreamFails(r) ==
  LET q == req[r]
  IN  /\ q.phase = "streaming"
      /\ req' = [req EXCEPT ![r] = Over(StreamError(q), "broken")]
      /\ UNCHANGED flight

\* The client goes, or gives up at its own timeout: its handler runs on.
ClientLeaves(r) ==
  LET q == [req[r] EXCEPT !.here = FALSE]
  IN  /\ r \in Impatient /\ req[r].here
      /\ req[r].phase \in {"handling", "sending", "streaming"}
      /\ req' = [req EXCEPT ![r] =
           IF q.phase = "streaming" THEN Over(StreamError(q), "left") ELSE q]
      /\ UNCHANGED flight

\* A response to nobody never finishes.
NeverFinishes(r) ==
  /\ req[r].phase = "sending" /\ ~req[r].here
  /\ req' = [req EXCEPT ![r] = Over(@, "left")]
  /\ UNCHANGED flight

\* answerClientError: Node refuses what follows on the connection of a request,
\* once for every chunk its parser is handed.  A response under way is not
\* written into, the socket is closed without a word; between two requests it
\* is answered.  (A refusal while a handler runs is left out.)
Refused(r) ==
  LET q == req[r]
      inFlight == q.phase \in {"sending", "streaming"}
      told == [q EXCEPT !.refusals = Append(@, MapSocketError("HPE_HEADER_OVERFLOW"))]
      closed == [told EXCEPT !.socket = "destroyed", !.here = FALSE]
  IN  /\ r \in Impatient /\ q.here /\ q.socket = "open"
      /\ inFlight \/ q.phase = "done"
      /\ req' = [req EXCEPT ![r] =
           CASE q.phase = "streaming" -> Over(StreamError(closed), "left")
             [] q.phase = "sending" -> closed
             [] OTHER -> [told EXCEPT !.socket = "answering"]]
      /\ UNCHANGED flight

\* The answer on the socket is flushed, then the socket is destroyed.
Flushed(r) ==
  /\ req[r].socket = "answering"
  /\ req' = [req EXCEPT ![r].socket = "destroyed", ![r].here = FALSE]
  /\ UNCHANGED flight

\* close() of Fastify waits for the connections, not for their handlers.
Drained == \A r \in Clients :
  req[r].phase \in {"none", "done", "broken", "left"} \/ ~req[r].here

RequestSteps(r) ==
  \/ \E s \in Slow : Deadline(r, s)
  \/ PageEnds(r) \/ HealthEnds(r) \/ OtherEnds(r)
  \/ Completes(r) \/ Breaks(r) \/ StreamFails(r)
  \/ ClientLeaves(r) \/ NeverFinishes(r)
  \/ Refused(r) \/ Flushed(r)

-----------------------------------------------------------------------------
(* What the log, the page and the client are promised *)

SecondFailures ==
  {"error handler failed", "response head failed", "response serializer failed"}
FirstOnly ==
  {"request errored", "response stream failed", "stream closed prematurely"}
ErrorLevel == SecondFailures \cup
  {"request failed", "request errored", "response stream failed"}

\* A request is told about once (request-log.ts:308), and one Node refused on
\* the socket as well, however many chunks of it come: an access line stands
\* alone, a response that broke or was left has a line only when none was
\* written before it, and only the second failures add to a line.  The error
\* handler does not read the mark: its line may follow a response that broke
\* first.
ToldOnce ==
  \A r \in Clients :
    LET l == req[r].lines
    IN  /\ Len(req[r].refusals) <= 1
        /\ \A i \in DOMAIN l :
             /\ l[i].msg = "request completed" => Len(l) = 1
             /\ l[i].msg \in FirstOnly => i = 1
             /\ i > 1 => \/ l[i].msg \in SecondFailures
                         \/ l[1].msg = "request errored"

\* A request that was answered or broke has a line, and a failure of ours,
\* whoever asked, has one at level error; a refused request that broke later,
\* a refusal of the stop and a dependency that is down are no failure of ours.
FailuresAreTold ==
  \A r \in Clients :
    LET q == req[r]
    IN  q.phase \in {"done", "broken"} /\ q.here =>
          /\ q.lines # <<>>
          /\ \/ q.phase = "done" /\ q.answer.status < 500
             \/ IsClientStatus(q.answer.status)
             \/ q.answer.type = "degraded" \/ q.error.kind = "closing"
             \/ \E i \in DOMAIN q.lines : q.lines[i].msg \in ErrorLevel

Causes(q, dependency) ==
  {q.section[s].cause : s \in {x \in SectionsOf(q.route) :
                                 DependencyOf(x) = dependency}}

\* The page a client reads says that a dependency is down exactly when a read
\* of it failed by a fault of that dependency: never for a stop of ours, never
\* for a defect of ours; and it is only lost to a defect (system-status.ts:217,
\* queue-stats.ts:152).
PageBlamesTruly ==
  \A r \in Clients :
    LET q == req[r]
    IN  q.route = "/system/status" /\ q.phase = "sending" /\ q.here
          /\ q.authenticated = "yes" =>
          /\ q.answer.type = "page" =>
               \A d \in {"db", "redis"} :
                 /\ Check(q, d) # "up" <=> "dependency" \in Causes(q, d)
                 /\ "stop" \notin Causes(q, d)
          /\ q.answer.status = 500 =>
               \/ q.error = Unserializable
               \/ "service" \in Causes(q, "db") \cup Causes(q, "redis")

\* Whatever the api answers in its own words, its client understands: the
\* value of the route or the failure it reported, also from a service that is
\* closing and from a failed /health.
AnswersAreUnderstood ==
  \A r \in Clients :
    LET q == req[r]
    IN  q.phase = "done" /\ q.route \in {"/health", "/system/status"} =>
          ReadAnswer(q.route, "complete", q.answer) \in {"value", "ApiError"}
=============================================================================
