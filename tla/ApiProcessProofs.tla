-------------------------- MODULE ApiProcessProofs ---------------------------
(***************************************************************************)
(* Proofs about the api process: what its log, its status page and its     *)
(* answers promise, and what a clean stop of it means, for any number of   *)
(* requests, any routes they ask for, and any outages of the dependencies. *)
(*                                                                         *)
(* Every step but the arrival of an answer from a dependency changes one   *)
(* request, so the invariant is one statement about a request (RequestInv),*)
(* kept by each operation on it; it is tied to the stop by two facts: the  *)
(* order of the plan (StopInv), and that nobody waits for an answer once   *)
(* the app is closed (DrainInv).  What a request has read (PagesInv) leans *)
(* on both: a read the stop breaks off is nobody's who is still there.     *)
(***************************************************************************)
EXTENDS ApiProcess, TLAPS

-----------------------------------------------------------------------------
(* The shape of a request *)

AllRoutes == {"none"} \cup UNION {RoutesOf[r] : r \in Clients}
AllErrors == Errors \cup {Thrown("other", status) : status \in RouterStatuses}
                    \cup {Unserializable}
Verdicts ==
  {"request rejected", "request failed", "request rejected, with its error"}
LineMessages == Verdicts \cup SecondFailures \cup FirstOnly \cup {"request completed"}
LogLines == [msg : LineMessages, err : {LoggableError(e) : e \in AllErrors}]
MappedErrors == {MapError(e) : e \in AllErrors} \cup {ClientError(404)}
                \cup {MapFrameworkError(status) : status \in RouterStatuses}
AnswersSent ==
  {Success(0, "none"), Success(200, "ok"), Success(503, "degraded"),
   Success(200, "page"), Success(200, "plain"), Success(200, "stream"), Foreign}
  \cup {ErrorAnswer(mapped) : mapped \in MappedErrors}
TooLarge == MapSocketError("HPE_HEADER_OVERFLOW")

OwnFailures == {Named(""), Named("DeadlineError"), Named("ProbeClosedError"),
                Said("Connection is closed.")}
Reads == [state : {"idle", "waiting", "ok", "failed"},
          cause : {"none", "dependency", "service", "stop"},
          failure : OwnFailures \cup
                    UNION {{o.failure : o \in Outages[s]} : s \in Sections}]

RequestRecords ==
  [phase : {"none", "handling", "sending", "streaming", "done", "broken", "left"},
   route : AllRoutes, authenticated : {"no", "yes", "absent"},
   told : BOOLEAN, lines : Seq(LogLines), error : AllErrors, answer : AnswersSent,
   here : BOOLEAN, over : BOOLEAN, section : [Sections -> Reads],
   socket : {"open", "answering", "destroyed"}, refusals : Seq({TooLarge})]

-----------------------------------------------------------------------------
(* The invariant of a request *)

NoAccess(l) == \A i \in DOMAIN l : l[i].msg # "request completed"
Errored(l) == Len(l) = 1 /\ l[1].msg = "request errored"
HasError(l) == \E i \in DOMAIN l : l[i].msg \in ErrorLevel

\* ToldOnce, of one log.
LogOk(l) ==
  \A i \in DOMAIN l :
    /\ l[i].msg = "request completed" => Len(l) = 1
    /\ l[i].msg \in FirstOnly => i = 1
    /\ i > 1 => \/ l[i].msg \in SecondFailures
                \/ l[1].msg = "request errored"

\* How the mark and the phase of a request tell what its log holds.
LogInv(q) ==
  /\ LogOk(q.lines)
  /\ q.told => q.lines # <<>>
  /\ q.phase # "done" => NoAccess(q.lines) /\ (~q.told => q.lines = <<>>)
  /\ q.over => q.told
  /\ q.phase = "handling" => (q.told => q.over /\ Errored(q.lines))
  /\ q.phase = "streaming" => ~q.told

\* A socket that was refused is no longer open.
RefusalsInv(q) ==
  \/ q.refusals = <<>>
  \/ q.refusals = <<TooLarge>> /\ q.socket # "open"

\* A failure of ours, once it is told, has its line at level error.
Excused(q) ==
  \/ IsClientStatus(q.answer.status)
  \/ q.answer.type = "degraded" \/ q.error.kind = "closing"
  \/ HasError(q.lines)
ToldInv(q) ==
  /\ q.phase = "sending" => Excused(q) \/ (~q.told /\ q.answer.status < 500)
  /\ q.phase = "streaming" => q.answer = Success(200, "stream")
  /\ q.phase \in {"done", "broken"} /\ q.here => q.lines # <<>>
  /\ q.phase = "done" => Excused(q) \/ q.answer.status < 500
  /\ q.phase = "broken" /\ q.here => Excused(q)

\* Only the handlers of /health and /system/status read, and every answer they
\* send is one the client can read.
Understood(q) ==
  ReadAnswer(q.route, "complete", q.answer) \in {"value", "ApiError"}
WireInv(q) ==
  /\ q.over => q.route = "other"
  /\ q.phase = "streaming" => q.route = "other"
  /\ q.phase \in {"sending", "done"} /\ q.route \in {"/health", "/system/status"} =>
       Understood(q)

RequestInv(q) ==
  /\ q \in RequestRecords
  /\ q.phase = "none" => q = NoRequest
  /\ q.phase = "left" => ~q.here
  /\ LogInv(q) /\ RefusalsInv(q) /\ ToldInv(q) /\ WireInv(q)

RequestsInv ==
  /\ req \in [Clients -> RequestRecords]
  /\ \A r \in Clients : RequestInv(req[r])

-----------------------------------------------------------------------------
(* What a request has read, and what the stop does to it *)

SectionInv(q, o) ==
  \/ o \in {Idle, Waiting, Read}
  \/ /\ o.state = "failed" /\ o.cause \in {"dependency", "service", "stop"}
     /\ o.cause = "service" <=> DependencyFailureCode(o.failure) = "none"
     /\ q.here => o.cause # "stop"
ReadInv(q) ==
  /\ \A s \in Sections \ SectionsOf(q.route) : q.section[s] = Idle
  /\ q.phase \notin {"handling", "sending"} => q.section = NoRequest.section
  /\ q.phase = "sending" => Settled(q)
  /\ \A s \in Sections : SectionInv(q, q.section[s])

PageInv(q) ==
  /\ q.route = "/system/status" /\ q.phase = "handling" => q.authenticated = "yes"
  /\ q.route = "/system/status" /\ q.phase = "sending" /\ q.here
       /\ q.authenticated = "yes" =>
       /\ q.answer.type = "page" => ~Rethrown(q)
       /\ q.answer.status = 500 => q.error = Unserializable \/ Rethrown(q)

StopInv ==
  /\ stage \in [Stages -> Stop!Phases] /\ step \in 1 .. 3
  /\ exitCode = 0 => code = 0
  /\ code = 0 => step = 3
  /\ step # 1 => stage["app"] \in Stop!Answers
  /\ \A s \in {"db", "redis", "queues"} : stage[s] # "waiting" => step # 1

DrainInv ==
  stage["app"] \in Stop!Answers =>
    \A r \in Clients : req[r].here => req[r].phase \in {"none", "done", "broken"}

-----------------------------------------------------------------------------
(* The log of a request *)

\* Whoever writes a line adds it at the end, and does nothing else.
LEMMA Writes ==
  ASSUME NEW q \in RequestRecords, NEW msg \in LineMessages, NEW e \in AllErrors
  PROVE  /\ Write(q, msg, e).lines = Append(q.lines, Line(msg, e))
         /\ Line(msg, e) \in LogLines /\ Line(msg, e).msg = msg
         /\ Append(q.lines, Line(msg, e)) \in Seq(LogLines)
         /\ Write(q, msg, e) = [q EXCEPT !.lines = Append(q.lines, Line(msg, e))]
         /\ Told(Write(q, msg, e)) =
              [q EXCEPT !.lines = Append(q.lines, Line(msg, e)), !.told = TRUE]
         /\ Write(q, msg, e) \in RequestRecords /\ Told(Write(q, msg, e)) \in RequestRecords
<1>1. Line(msg, e) \in LogLines /\ Line(msg, e).msg = msg
  BY DEF Line, LogLines
<1>2. q.lines \in Seq(LogLines)
  BY DEF RequestRecords
<1> DEFINE more == Append(q.lines, Line(msg, e))
<1>3. more \in Seq(LogLines)
  BY <1>1, <1>2
<1>4. Write(q, msg, e) = [q EXCEPT !.lines = more]
  BY DEF Write
<1>5. Told(Write(q, msg, e)) = [q EXCEPT !.lines = more, !.told = TRUE]
  BY <1>4 DEF Told
<1> HIDE DEF more
<1>6. /\ [q EXCEPT !.lines = more] \in RequestRecords
      /\ [q EXCEPT !.lines = more].lines = more
      /\ [q EXCEPT !.lines = more, !.told = TRUE] \in RequestRecords
  BY <1>3 DEF RequestRecords
<1> QED
  BY <1>1, <1>3, <1>4, <1>5, <1>6 DEF more

\* The first line of a log may be any.
LEMMA FirstLine ==
  ASSUME NEW line \in LogLines
  PROVE  LET l == Append(<<>>, line)
         IN  /\ LogOk(l) /\ l # <<>>
             /\ line.msg # "request completed" => NoAccess(l)
             /\ line.msg = "request errored" => Errored(l)
             /\ line.msg \in ErrorLevel => HasError(l)
<1> DEFINE l == Append(<<>>, line)
<1>1. Len(l) = 1 /\ DOMAIN l = {1} /\ l[1] = line
  OBVIOUS
<1> HIDE DEF l
<1>2. LogOk(l) /\ l # <<>>
  BY <1>1 DEF LogOk
<1>3. /\ line.msg # "request completed" => NoAccess(l)
      /\ line.msg = "request errored" => Errored(l)
      /\ line.msg \in ErrorLevel => HasError(l)
  BY <1>1 DEF NoAccess, Errored, HasError
<1> QED
  BY <1>2, <1>3 DEF l

\* A second failure adds to any log but an access line; the error handler
\* adds to a log that holds nothing but the end of the response.
LEMMA NextLine ==
  ASSUME NEW lines \in Seq(LogLines), LogOk(lines), NoAccess(lines),
         NEW line \in LogLines,
         \/ line.msg \in SecondFailures
         \/ line.msg \in Verdicts /\ (lines = <<>> \/ Errored(lines))
  PROVE  LET l == Append(lines, line)
         IN  /\ LogOk(l) /\ NoAccess(l) /\ l # <<>>
             /\ line.msg \in ErrorLevel \/ HasError(lines) => HasError(l)
<1> DEFINE l == Append(lines, line)
           n == Len(lines)
<1>1. /\ n \in Nat /\ DOMAIN lines = 1 .. n /\ DOMAIN l = 1 .. n + 1 /\ Len(l) = n + 1
      /\ \A i \in 1 .. n : l[i] = lines[i]
      /\ l[n + 1] = line
  OBVIOUS
<1>2. line.msg \notin FirstOnly /\ line.msg # "request completed"
  BY DEF SecondFailures, FirstOnly, Verdicts
<1>3. lines = <<>> => n = 0
  OBVIOUS
<1>4. ASSUME Errored(lines) PROVE 1 \in 1 .. n /\ lines[1].msg = "request errored"
  <2>1. Len(lines) = 1
    BY <1>4 DEF Errored
  <2>2. 1 \in 1 .. n
    BY <2>1
  <2> QED
    BY <1>4, <2>2 DEF Errored
<1> HIDE DEF l, n
<1>5. ASSUME NEW i \in DOMAIN l
      PROVE  /\ l[i].msg # "request completed"
             /\ l[i].msg \in FirstOnly => i = 1
             /\ i > 1 => l[i].msg \in SecondFailures \/ l[1].msg = "request errored"
  <2>1. i \in 1 .. n \/ i = n + 1
    BY <1>1
  <2>2. CASE i \in 1 .. n
    <3>1. 1 \in 1 .. n
      BY <1>1, <2>2
    <3>2. l[i].msg = lines[i].msg /\ l[1].msg = lines[1].msg
      BY <1>1, <2>2, <3>1
    <3> QED
      BY <1>1, <2>2, <3>2 DEF LogOk, NoAccess
  <2>3. CASE i = n + 1
    <3>1. l[i] = line
      BY <1>1, <2>3
    <3>2. CASE line.msg \in SecondFailures
      BY <1>2, <3>1, <3>2
    <3>3. CASE lines = <<>>
      <4>1. i = 1 /\ ~(i > 1)
        BY <1>3, <2>3, <3>3
      <4> QED
        BY <1>2, <3>1, <4>1
    <3>4. CASE Errored(lines)
      <4>1. l[1].msg = "request errored"
        BY <1>1, <1>4, <3>4
      <4> QED
        BY <1>2, <3>1, <4>1
    <3> QED
      BY <3>2, <3>3, <3>4
  <2> QED
    BY <2>1, <2>2, <2>3
<1>6. LogOk(l) /\ NoAccess(l)
  BY <1>5 DEF LogOk, NoAccess
<1>7. l # <<>>
  BY <1>1
<1>8. line.msg \in ErrorLevel \/ HasError(lines) => HasError(l)
  BY <1>1 DEF HasError
<1> QED
  BY <1>6, <1>7, <1>8 DEF l

-----------------------------------------------------------------------------
(* What is sent *)

\* Everything a failure is mapped to is an error of HTTP.
LEMMA MapsToErrors ==
  ASSUME NEW mapped \in MappedErrors
  PROVE  mapped.status \in 400 .. 599
<1>1. ASSUME NEW status, NEW name, NEW message, NEW details
      PROVE  Mapped(status, name, message, details).status = status
  BY DEF Mapped
<1>2. ASSUME NEW status
      PROVE  ClientError(status).status = status /\ ServerError(status).status = status
  BY DEF ClientError, ServerError, Mapped
<1>3. InternalError.status \in 400 .. 599 /\ ClientError(404).status \in 400 .. 599
  BY <1>2 DEF InternalError
<1>4. ASSUME NEW status, IsClientStatus(status) \/ IsErrorStatus(status)
      PROVE  status \in 400 .. 599
  BY <1>4 DEF IsClientStatus, IsErrorStatus
<1>5. ASSUME NEW e PROVE MapAppError(e).status \in 400 .. 599
  <2>1. CASE ~IsErrorStatus(e.status)
    BY <1>3, <2>1 DEF MapAppError
  <2>2. CASE IsErrorStatus(e.status)
    <3>1. e.status \in 400 .. 599
      BY <1>4, <2>2
    <3>2. MapAppError(e).status = e.status
      BY <2>2 DEF MapAppError, Mapped
    <3> QED
      BY <3>1, <3>2
  <2> QED
    BY <2>1, <2>2
<1>6. ASSUME NEW e PROVE MapError(e).status \in 400 .. 599
  <2>1. CASE e.kind = "request validation"
    <3>1. MapError(e).status = 400
      BY <2>1 DEF MapError, Mapped, AppErrorKinds
    <3> QED
      BY <3>1
  <2>2. CASE e.kind \in {"primitive", "response serialization"}
    <3>1. MapError(e) = InternalError
      BY <2>2 DEF MapError, AppErrorKinds
    <3> QED
      BY <1>3, <3>1
  <2>3. CASE e.kind \in AppErrorKinds
    BY <1>5, <2>3, ZenonT(60) DEF MapError, AppErrorKinds
  <2>4. CASE e.kind \notin {"request validation", "primitive", "response serialization"}
                           \cup AppErrorKinds
    <3>1. CASE IsClientStatus(e.status)
      BY <1>2, <1>4, <2>4, <3>1, ZenonT(60) DEF MapError
    <3>2. CASE ~IsClientStatus(e.status) /\ IsErrorStatus(e.status)
      BY <1>2, <1>4, <2>4, <3>2, ZenonT(60) DEF MapError
    <3>3. CASE ~IsClientStatus(e.status) /\ ~IsErrorStatus(e.status)
      BY <1>3, <2>4, <3>3, ZenonT(60) DEF MapError
    <3> QED
      BY <3>1, <3>2, <3>3
  <2> QED
    BY <2>1, <2>2, <2>3, <2>4
<1>7. ASSUME NEW status PROVE MapFrameworkError(status).status \in 400 .. 599
  BY <1>2, <1>3, <1>4 DEF MapFrameworkError
<1> QED
  BY <1>3, <1>6, <1>7 DEF MappedErrors

\* The route of a request describes every error, whatever answers it declares.
LEMMA SendsError ==
  ASSUME NEW q, NEW mapped \in MappedErrors
  PROVE  SendError(q, mapped) = Sending(q, ErrorAnswer(mapped))
<1>1. mapped.status # 200
  <2>1. mapped.status \in 400 .. 599
    BY MapsToErrors
  <2> QED
    BY <2>1
<1>2. "envelope" \in Declared(q.route, mapped.status)
  BY <1>1 DEF Declared
<1> QED
  BY <1>2 DEF SendError

\* The log controller writes one line about an error, and a failure of ours at
\* level error.
LEMMA LogsError ==
  ASSUME NEW q, NEW e \in AllErrors, NEW mapped \in MappedErrors
  PROVE  \E msg \in Verdicts, logged \in AllErrors :
           /\ LogError(q, e, mapped) = Told(Write(q, msg, logged))
           /\ \/ msg = "request failed" \/ e.kind = "closing"
              \/ IsClientStatus(mapped.status)
<1>1. mapped.status \in 400 .. 599
  BY MapsToErrors
<1>2. NoError \in AllErrors
  BY DEF NoError, AllErrors, RouterStatuses
<1>3. /\ "request rejected" \in Verdicts /\ "request failed" \in Verdicts
      /\ "request rejected, with its error" \in Verdicts
  BY DEF Verdicts
<1>4. CASE e.kind = "closing"
  BY <1>2, <1>3, <1>4 DEF LogError, LogRejection
<1>5. CASE e.kind # "closing" /\ mapped.status >= 500
  <2>1. ~(mapped.status < 500)
    BY <1>1, <1>5
  <2> QED
    BY <1>3, <1>5, <2>1 DEF LogError
<1>6. CASE e.kind # "closing" /\ ~(mapped.status >= 500)
  <2>1. IsClientStatus(mapped.status) /\ mapped.status < 500
    BY <1>1, <1>6 DEF IsClientStatus
  <2> QED
    BY <1>2, <1>3, <1>6, <2>1 DEF LogError, LogRejection
<1> QED
  BY <1>4, <1>5, <1>6

\* p is q on its way out with a failure some line tells about.
Answers(q, p) ==
  /\ p \in RequestRecords /\ p.phase = "sending" /\ p.told
  /\ LogOk(p.lines) /\ NoAccess(p.lines) /\ p.lines # <<>> /\ Excused(p)
  /\ p.route = q.route /\ p.here = q.here /\ p.over = q.over
  /\ p.section = q.section /\ p.socket = q.socket /\ p.refusals = q.refusals

\* p is q with one more line, and told about.
Tells(q, p, msg) ==
  /\ p \in RequestRecords /\ p.told
  /\ LogOk(p.lines) /\ NoAccess(p.lines) /\ p.lines # <<>>
  /\ msg \in ErrorLevel => HasError(p.lines)
  /\ p.phase = q.phase /\ p.route = q.route
  /\ p.authenticated = q.authenticated /\ p.error = q.error
  /\ p.answer = q.answer /\ p.here = q.here /\ p.over = q.over
  /\ p.section = q.section /\ p.socket = q.socket /\ p.refusals = q.refusals

LEMMA TellsMore ==
  ASSUME NEW q \in RequestRecords, LogOk(q.lines), NoAccess(q.lines),
         NEW msg, NEW e \in AllErrors,
         \/ msg \in SecondFailures
         \/ msg \in Verdicts /\ (q.lines = <<>> \/ Errored(q.lines))
  PROVE  Tells(q, Told(Write(q, msg, e)), msg)
<1> DEFINE line == Line(msg, e)
           more == Append(q.lines, line)
           p == Told(Write(q, msg, e))
<1>1. msg \in LineMessages
  BY DEF LineMessages
<1>2. line \in LogLines /\ line.msg = msg
  BY <1>1, Writes
<1>3. more \in Seq(LogLines)
  BY <1>1, Writes
<1>4. p = [q EXCEPT !.lines = more, !.told = TRUE] /\ p \in RequestRecords
  <2>1. p \in RequestRecords
    BY <1>1, Writes
  <2>2. p = [q EXCEPT !.lines = more, !.told = TRUE]
    BY DEF Told, Write
  <2> QED
    BY <2>1, <2>2
<1>5. q.lines \in Seq(LogLines)
  BY DEF RequestRecords
<1> HIDE DEF line, p
<1>6. /\ LogOk(more) /\ NoAccess(more) /\ more # <<>>
      /\ msg \in ErrorLevel => HasError(more)
  BY <1>2, <1>5, NextLine
<1> HIDE DEF more
<1>7. /\ p.lines = more /\ p.told
      /\ p.phase = q.phase /\ p.route = q.route
      /\ p.authenticated = q.authenticated /\ p.error = q.error
      /\ p.answer = q.answer /\ p.here = q.here /\ p.over = q.over
      /\ p.section = q.section /\ p.socket = q.socket /\ p.refusals = q.refusals
  BY <1>3, <1>4 DEF RequestRecords
<1> QED
  BY <1>4, <1>6, <1>7 DEF p, Tells

LEMMA ToldAndSent ==
  ASSUME NEW p \in RequestRecords, p.told, LogOk(p.lines), NoAccess(p.lines),
         p.lines # <<>>, NEW answer \in AnswersSent,
         IsClientStatus(answer.status) \/ p.error.kind = "closing" \/ HasError(p.lines)
  PROVE  Answers(p, Sending(p, answer)) /\ Sending(p, answer).answer = answer
<1> DEFINE sent == [p EXCEPT !.phase = "sending", !.answer = answer]
<1>1. /\ sent \in RequestRecords /\ sent.phase = "sending" /\ sent.told
      /\ sent.lines = p.lines /\ sent.error = p.error /\ sent.answer = answer
      /\ sent.route = p.route /\ sent.here = p.here /\ sent.over = p.over
      /\ sent.section = p.section /\ sent.socket = p.socket /\ sent.refusals = p.refusals
  BY DEF RequestRecords
<1>2. Sending(p, answer) = sent
  BY DEF Sending
<1> HIDE DEF sent
<1>3. Excused(sent)
  BY <1>1 DEF Excused
<1> QED
  BY <1>1, <1>2, <1>3 DEF Answers

\* An error handler that failed has left two lines at level error.
LEMMA FallsBack ==
  ASSUME NEW q \in RequestRecords, LogOk(q.lines), NoAccess(q.lines)
  PROVE  Answers(q, Fallback(q)) /\ Answers(q, HeadBreaks(q))
<1>1. NoError \in AllErrors /\ Foreign \in AnswersSent
  BY DEF NoError, AllErrors, RouterStatuses, AnswersSent
<1>2. ASSUME NEW msg \in SecondFailures
      PROVE  Answers(q, Sending(SecondFailureLine(
                          SecondFailureLine(q, "error handler failed"), msg), Foreign))
  <2> DEFINE p == SecondFailureLine(q, "error handler failed")
             o == SecondFailureLine(p, msg)
  <2>1. "error handler failed" \in SecondFailures /\ SecondFailures \subseteq ErrorLevel
    BY DEF SecondFailures, ErrorLevel
  <2>2. /\ p \in RequestRecords /\ LogOk(p.lines) /\ NoAccess(p.lines)
        /\ p.route = q.route /\ p.here = q.here /\ p.over = q.over
        /\ p.section = q.section /\ p.socket = q.socket /\ p.refusals = q.refusals
    <3>1. Tells(q, p, "error handler failed")
      BY <1>1, <2>1, TellsMore DEF SecondFailureLine, RawError
    <3> HIDE DEF p
    <3> QED
      BY <3>1 DEF Tells
  <2> HIDE DEF p
  <2>3. /\ o \in RequestRecords /\ o.told /\ LogOk(o.lines) /\ NoAccess(o.lines)
        /\ o.lines # <<>> /\ HasError(o.lines)
        /\ o.route = p.route /\ o.here = p.here /\ o.over = p.over
        /\ o.section = p.section /\ o.socket = p.socket /\ o.refusals = p.refusals
    <3>1. Tells(p, o, msg)
      BY <1>1, <1>2, <2>2, TellsMore DEF SecondFailureLine, RawError
    <3> HIDE DEF o
    <3> QED
      BY <1>2, <2>1, <3>1 DEF Tells
  <2> HIDE DEF o
  <2>4. Answers(o, Sending(o, Foreign))
    BY <1>1, <2>3, ToldAndSent
  <2> QED
    BY <2>2, <2>3, <2>4 DEF Answers, p, o
<1>3. "response serializer failed" \in SecondFailures /\ "response head failed" \in SecondFailures
  BY DEF SecondFailures
<1> QED
  BY <1>2, <1>3 DEF Fallback, HeadBreaks

\* The log controller and the error handler, on a request nobody told about.
LEMMA LogsAndSends ==
  ASSUME NEW q \in RequestRecords, LogOk(q.lines), NoAccess(q.lines),
         q.lines = <<>> \/ Errored(q.lines),
         NEW e \in AllErrors, q.error = e, NEW mapped \in MappedErrors
  PROVE  LET p == Sending(LogError(q, e, mapped), ErrorAnswer(mapped))
         IN  /\ Answers(q, p) /\ p.answer = ErrorAnswer(mapped)
             /\ p.error = e /\ p.authenticated = q.authenticated
<1>1. PICK msg \in Verdicts, logged \in AllErrors :
        /\ LogError(q, e, mapped) = Told(Write(q, msg, logged))
        /\ \/ msg = "request failed" \/ e.kind = "closing"
           \/ IsClientStatus(mapped.status)
  BY LogsError
<1> DEFINE o == Told(Write(q, msg, logged))
           answer == ErrorAnswer(mapped)
<1>2. Tells(q, o, msg)
  BY <1>1, TellsMore
<1>3. answer \in AnswersSent /\ answer.status = mapped.status
  BY DEF AnswersSent, ErrorAnswer, Answer
<1>4. msg = "request failed" => msg \in ErrorLevel
  BY DEF ErrorLevel
<1> HIDE DEF o, answer
<1>5. Answers(o, Sending(o, answer)) /\ Sending(o, answer).answer = answer
  BY <1>1, <1>2, <1>3, <1>4, ToldAndSent DEF Tells
<1>6. Sending(o, answer).error = o.error /\ Sending(o, answer).authenticated = o.authenticated
  BY <1>2 DEF Sending, RequestRecords, Tells
<1>7. /\ Answers(q, Sending(o, answer)) /\ Sending(o, answer).error = e
      /\ Sending(o, answer).authenticated = q.authenticated
  BY <1>2, <1>5, <1>6 DEF Answers, Tells
<1> QED
  BY <1>1, <1>5, <1>7 DEF o, answer

\* Whatever is thrown, the request that is answered has a line about it, and a
\* failure of ours one at level error.
LEMMA HandlesError ==
  ASSUME NEW q \in RequestRecords, LogOk(q.lines), NoAccess(q.lines),
         q.lines = <<>> \/ Errored(q.lines), NEW e \in AllErrors
  PROVE  /\ Answers(q, HandleError(q, e))
         /\ e.kind # "unmappable" =>
              /\ HandleError(q, e).answer = ErrorAnswer(MapError(e))
              /\ HandleError(q, e).error = e
              /\ HandleError(q, e).authenticated = q.authenticated
<1> DEFINE failing == [q EXCEPT !.error = e]
           mapped == MapError(e)
<1>1. /\ failing \in RequestRecords /\ failing.lines = q.lines /\ failing.error = e
      /\ failing.authenticated = q.authenticated
      /\ failing.route = q.route /\ failing.here = q.here /\ failing.over = q.over
      /\ failing.section = q.section /\ failing.socket = q.socket
      /\ failing.refusals = q.refusals
  BY DEF RequestRecords
<1>2. HandleError(q, e) = IF e.kind = "unmappable" THEN Fallback(failing)
                          ELSE SendError(LogError(failing, e, mapped), mapped)
  BY DEF HandleError
<1>3. mapped \in MappedErrors
  BY DEF MappedErrors
<1> HIDE DEF failing
<1>4. CASE e.kind = "unmappable"
  <2>1. Answers(failing, Fallback(failing))
    BY <1>1, FallsBack
  <2> QED
    BY <1>1, <1>2, <1>4, <2>1 DEF Answers
<1>5. CASE e.kind # "unmappable"
  <2> DEFINE p == Sending(LogError(failing, e, mapped), ErrorAnswer(mapped))
  <2>1. HandleError(q, e) = p
    BY <1>2, <1>3, <1>5, SendsError
  <2> HIDE DEF mapped
  <2>2. /\ Answers(failing, p) /\ p.answer = ErrorAnswer(mapped)
        /\ p.error = e /\ p.authenticated = failing.authenticated
    BY <1>1, <1>3, LogsAndSends
  <2> HIDE DEF p
  <2> QED
    BY <1>1, <1>5, <2>1, <2>2 DEF Answers, mapped
<1> QED
  BY <1>4, <1>5

-----------------------------------------------------------------------------
(* Every operation on a request keeps its invariant *)

\* What is sent after a failure, on any way there.
LEMMA AnswersKeep ==
  ASSUME NEW q, RefusalsInv(q), q.over => q.route = "other", NEW p, Answers(q, p),
         p.route \in {"/health", "/system/status"} => Understood(p)
  PROVE  RequestInv(p)
BY DEF Answers, RequestInv, LogInv, RefusalsInv, ToldInv, WireInv

\* Every error answer reaches the client as one.
LEMMA ErrorsAreUnderstood ==
  ASSUME NEW p, p.route \in {"/health", "/system/status"},
         NEW mapped \in MappedErrors, p.answer = ErrorAnswer(mapped)
  PROVE  Understood(p)
<1>1. mapped.status \notin 200 .. 299
  <2>1. mapped.status \in 400 .. 599
    BY MapsToErrors
  <2> QED
    BY <2>1, SMTT(30)
<1>2. p.answer.type = "envelope" /\ p.answer.status = mapped.status
  BY DEF ErrorAnswer, Answer
<1>3. ReadBounded("complete") = "text" /\ ~Describes(p.route, "envelope")
  BY DEF ReadBounded, Describes
<1>4. ReadAnswer(p.route, "complete", p.answer) = "ApiError"
  BY <1>1, <1>2, <1>3 DEF ReadAnswer
<1> QED
  BY <1>4 DEF Understood

\* An error of a handler or of a hook.
LEMMA HandledKeeps ==
  ASSUME NEW q \in RequestRecords, LogOk(q.lines), NoAccess(q.lines),
         q.lines = <<>> \/ Errored(q.lines), RefusalsInv(q), q.over => q.route = "other",
         NEW e \in AllErrors, e.kind = "unmappable" => q.route = "other"
  PROVE  RequestInv(HandleError(q, e))
<1> DEFINE p == HandleError(q, e)
<1>1. Answers(q, p) /\ (e.kind # "unmappable" => p.answer = ErrorAnswer(MapError(e)))
  BY HandlesError
<1>2. MapError(e) \in MappedErrors
  BY DEF MappedErrors
<1> HIDE DEF p
<1>3. p.route = q.route
  BY <1>1 DEF Answers
<1>4. p.route \in {"/health", "/system/status"} => Understood(p)
  BY <1>1, <1>2, <1>3, ErrorsAreUnderstood
<1>5. RequestInv(p)
  BY <1>1, <1>4, AnswersKeep
<1> QED
  BY <1>5 DEF p

\* A request the router has just taken.
Fresh(q) ==
  /\ q \in RequestRecords /\ q.lines = <<>> /\ q.refusals = <<>>
  /\ ~q.told /\ ~q.over /\ q.here

LEMMA FreshLog ==
  ASSUME NEW q, q.lines = <<>>
  PROVE  LogOk(q.lines) /\ NoAccess(q.lines)
BY DEF LogOk, NoAccess

LEMMA FreshErrors ==
  /\ \A e \in {ServiceClosing, Unauthorized, Unserializable, NoError} :
       e \in AllErrors /\ e.kind # "unmappable"
  /\ \A status \in RouterStatuses : Thrown("other", status) \in AllErrors
<1>1. ServiceClosing \in AllErrors /\ ServiceClosing.kind # "unmappable"
  BY DEF ServiceClosing, Thrown, AllErrors, Errors, Kinds, Codes, Messages, Details
<1>2. Unauthorized \in AllErrors /\ Unauthorized.kind # "unmappable"
  BY DEF Unauthorized, Thrown, AllErrors, Errors, Kinds, Codes, Messages, Details
<1>3. Unserializable \in AllErrors /\ Unserializable.kind # "unmappable"
  BY DEF Unserializable, Thrown, AllErrors
<1>4. NoError \in AllErrors /\ NoError.kind # "unmappable"
  BY DEF NoError, Thrown, AllErrors, Errors, Kinds, Codes, Messages, Details
<1>5. \A status \in RouterStatuses : Thrown("other", status) \in AllErrors
  BY DEF AllErrors
<1> QED
  BY <1>1, <1>2, <1>3, <1>4, <1>5

\* The hooks refuse it, or hand it to its handler.
LEMMA ArrivalKeeps ==
  ASSUME NEW q, Fresh(q), NEW closing \in BOOLEAN, NEW right \in BOOLEAN
  PROVE  RequestInv(OnRequest(q, closing, right))
<1>1. ASSUME NEW o, Fresh(o), NEW e \in {ServiceClosing, Unauthorized}
      PROVE  RequestInv(HandleError(o, e))
  BY <1>1, FreshLog, FreshErrors, HandledKeeps DEF Fresh, RefusalsInv
<1>2. ASSUME NEW o, Fresh(o) PROVE RequestInv(HandlerBegins(o))
  <2> DEFINE section == [s \in Sections |->
                           IF s \in SectionsOf(o.route) THEN Waiting ELSE Idle]
             p == [o EXCEPT !.phase = "handling", !.section = section]
  <2>1. Waiting \in Reads /\ Idle \in Reads
    BY DEF Waiting, Idle, Reads, OwnFailures
  <2>2. section \in [Sections -> Reads]
    BY <2>1
  <2> HIDE DEF section
  <2>3. /\ p \in RequestRecords /\ p.phase = "handling" /\ p.lines = <<>>
        /\ p.refusals = <<>> /\ ~p.told /\ ~p.over
    BY <1>2, <2>2 DEF Fresh, RequestRecords
  <2>4. HandlerBegins(o) = p
    BY DEF HandlerBegins, section
  <2> HIDE DEF p
  <2>5. RequestInv(p)
    BY <2>3, FreshLog DEF RequestInv, LogInv, RefusalsInv, ToldInv, WireInv
  <2> QED
    BY <2>4, <2>5
<1>3. Fresh([q EXCEPT !.authenticated = "yes"])
  BY DEF Fresh, RequestRecords
<1>4. ASSUME NEW o, Fresh(o), o.route = "unknown" PROVE RequestInv(NotFound(o))
  <2> DEFINE p == LogRejection(o)
             mapped == ClientError(404)
  <2>1. NoError \in AllErrors /\ "request rejected" \in Verdicts
    BY FreshErrors DEF Verdicts
  <2>2. Tells(o, p, "request rejected")
    BY <1>4, <2>1, FreshLog, TellsMore DEF LogRejection, Fresh
  <2>3. /\ mapped \in MappedErrors /\ mapped.status = 404
        /\ ErrorAnswer(mapped) \in AnswersSent /\ ErrorAnswer(mapped).status = 404
        /\ IsClientStatus(404)
    <3>1. mapped \in MappedErrors
      BY DEF MappedErrors
    <3>2. mapped.status = 404 /\ ErrorAnswer(mapped).status = 404
      BY DEF ErrorAnswer, Answer, ClientError, Mapped
    <3>3. ErrorAnswer(mapped) \in AnswersSent
      BY <3>1 DEF AnswersSent
    <3>4. IsClientStatus(404)
      BY DEF IsClientStatus
    <3> QED
      BY <3>1, <3>2, <3>3, <3>4
  <2>4. NotFound(o) = Sending(p, ErrorAnswer(mapped))
    BY <2>3, SendsError DEF NotFound
  <2> HIDE DEF p, mapped
  <2>5. Answers(p, Sending(p, ErrorAnswer(mapped)))
    BY <2>2, <2>3, ToldAndSent DEF Tells
  <2>6. RequestInv(Sending(p, ErrorAnswer(mapped)))
    BY <1>4, <2>2, <2>5, AnswersKeep DEF Tells, Answers, Fresh, RefusalsInv
  <2> QED
    BY <2>4, <2>6
<1>5. [q EXCEPT !.authenticated = "yes"].route = q.route
  BY DEF Fresh, RequestRecords
<1> QED
  BY <1>1, <1>2, <1>3, <1>4, <1>5 DEF OnRequest

\* The router itself refuses it.
LEMMA RouterKeeps ==
  ASSUME NEW q, Fresh(q), q.route = "bad url", NEW status \in RouterStatuses
  PROVE  RequestInv(FrameworkError(q, status))
<1> DEFINE e == Thrown("other", status)
           mapped == MapFrameworkError(status)
           o == [q EXCEPT !.authenticated = "absent", !.error = e]
           p == Sending(LogError(o, e, mapped), ErrorAnswer(mapped))
<1>1. e \in AllErrors /\ mapped \in MappedErrors
  BY FreshErrors DEF MappedErrors
<1> HIDE DEF e, mapped
<1>2. Fresh(o) /\ o.error = e /\ o.route = "bad url"
  BY <1>1 DEF Fresh, RequestRecords
<1>3. FrameworkError(q, status) = p
  BY DEF FrameworkError, e, mapped
<1> HIDE DEF o
<1>4. Answers(o, p)
  BY <1>1, <1>2, FreshLog, LogsAndSends DEF Fresh
<1> HIDE DEF p
<1>5. RequestInv(p)
  BY <1>2, <1>4, AnswersKeep DEF Answers, Fresh, RefusalsInv
<1> QED
  BY <1>3, <1>5

-----------------------------------------------------------------------------
(* The handlers *)

\* What a handler may send of its own: in time, or after the response broke.
LEMMA ValueKeeps ==
  ASSUME NEW q, RequestInv(q), q.phase = "handling", NEW answer \in AnswersSent,
         answer.status < 500 \/ answer.type = "degraded",
         q.route \in {"/health", "/system/status"} =>
           ReadAnswer(q.route, "complete", answer) = "value"
  PROVE  RequestInv(Sending(q, answer))
<1> DEFINE p == [q EXCEPT !.phase = "sending", !.answer = answer]
<1>1. /\ p \in RequestRecords /\ p.phase = "sending" /\ p.answer = answer
      /\ p.route = q.route /\ p.lines = q.lines /\ p.told = q.told /\ p.over = q.over
      /\ p.here = q.here /\ p.socket = q.socket /\ p.refusals = q.refusals
      /\ p.error = q.error
  BY DEF RequestInv, RequestRecords
<1>2. Sending(q, answer) = p
  BY DEF Sending
<1> HIDE DEF p
<1>3. LogInv(p) /\ RefusalsInv(p)
  BY <1>1 DEF RequestInv, LogInv, RefusalsInv
<1>4. q.told => HasError(q.lines)
  <2>1. ASSUME Errored(q.lines) PROVE HasError(q.lines)
    <3>1. q.lines \in Seq(LogLines)
      BY DEF RequestInv, RequestRecords
    <3>2. Len(q.lines) = 1
      BY <2>1 DEF Errored
    <3>3. 1 \in DOMAIN q.lines
      BY <3>1, <3>2
    <3>4. q.lines[1].msg \in ErrorLevel
      BY <2>1 DEF Errored, ErrorLevel
    <3> QED
      BY <3>3, <3>4 DEF HasError
  <2> QED
    BY <2>1 DEF RequestInv, LogInv
<1>5. ToldInv(p)
  BY <1>1, <1>4 DEF ToldInv, Excused
<1>6. WireInv(p)
  BY <1>1 DEF RequestInv, WireInv, Understood
<1> QED
  BY <1>1, <1>2, <1>3, <1>5, <1>6 DEF RequestInv

\* An error of a handler, also of one whose response has broken.
LEMMA ErrorKeeps ==
  ASSUME NEW q, RequestInv(q), q.phase = "handling", NEW e \in AllErrors,
         e.kind = "unmappable" => q.route = "other"
  PROVE  RequestInv(HandleError(q, e)) /\ Answers(q, HandleError(q, e))
<1>1. /\ q \in RequestRecords /\ LogOk(q.lines) /\ NoAccess(q.lines)
      /\ q.lines = <<>> \/ Errored(q.lines)
      /\ RefusalsInv(q) /\ (q.over => q.route = "other")
  BY DEF RequestInv, LogInv, WireInv
<1> QED
  BY <1>1, HandledKeeps, HandlesError

LEMMA PageKeeps ==
  ASSUME NEW q, RequestInv(q), q.phase = "handling", q.route = "/system/status"
  PROVE  /\ RequestInv(HandleError(Abandon(q), NoError))
         /\ \A type \in {"page", "misfit"} : RequestInv(Reply(q, Success(200, type)))
<1>1. RequestInv(Abandon(q)) /\ Abandon(q).phase = "handling" /\ Abandon(q).route = q.route
  <2> DEFINE section == [s \in Sections |->
                           IF q.section[s].state = "waiting" THEN Idle ELSE q.section[s]]
             p == [q EXCEPT !.section = section]
  <2>1. Abandon(q) = p
    BY DEF Abandon
  <2>2. section \in [Sections -> Reads]
    <3>1. Idle \in Reads
      BY DEF Idle, Reads, OwnFailures
    <3> QED
      BY <3>1 DEF RequestInv, RequestRecords
  <2> HIDE DEF section
  <2>3. /\ p \in RequestRecords /\ p.phase = q.phase /\ p.route = q.route
        /\ p.lines = q.lines /\ p.told = q.told /\ p.over = q.over /\ p.here = q.here
        /\ p.error = q.error /\ p.answer = q.answer
        /\ p.socket = q.socket /\ p.refusals = q.refusals
    BY <2>2 DEF RequestInv, RequestRecords
  <2> HIDE DEF p
  <2>4. RequestInv(p)
    BY <2>3 DEF RequestInv, LogInv, RefusalsInv, ToldInv, WireInv
  <2> QED
    BY <2>1, <2>3, <2>4
<1>2. RequestInv(HandleError(Abandon(q), NoError))
  BY <1>1, FreshErrors, ErrorKeeps
<1>3. RequestInv(Reply(q, Success(200, "page")))
  <2>1. /\ Success(200, "page") \in AnswersSent
        /\ Success(200, "page").status = 200 /\ Success(200, "page").type = "page"
    BY DEF AnswersSent, Success, Answer
  <2>2. ReadAnswer("/system/status", "complete", Success(200, "page")) = "value"
    <3>1. 200 \in 200 .. 299
      OBVIOUS
    <3>2. ReadBounded("complete") = "text" /\ Describes("/system/status", "page")
      BY DEF ReadBounded, Describes
    <3>3. AgreesWithStatus("/system/status", "page", 200)
      BY DEF AgreesWithStatus
    <3> QED
      BY <2>1, <3>1, <3>2, <3>3 DEF ReadAnswer
  <2>3. "page" \in Declared(q.route, 200)
    BY DEF Declared
  <2>4. Reply(q, Success(200, "page")) = Sending(q, Success(200, "page"))
    BY <2>1, <2>3 DEF Reply
  <2>5. Success(200, "page").status < 500
    BY <2>1
  <2> QED
    BY <2>1, <2>2, <2>4, <2>5, ValueKeeps
<1>4. RequestInv(Reply(q, Success(200, "misfit")))
  <2>1. Success(200, "misfit").status = 200 /\ Success(200, "misfit").type = "misfit"
    BY DEF Success, Answer
  <2>2. "misfit" \notin Declared(q.route, 200)
    BY DEF Declared
  <2>3. Reply(q, Success(200, "misfit")) = HandleError(q, Unserializable)
    BY <2>1, <2>2 DEF Reply
  <2> QED
    BY <2>3, FreshErrors, ErrorKeeps
<1> QED
  BY <1>2, <1>3, <1>4

LEMMA HealthKeeps ==
  ASSUME NEW q, RequestInv(q), q.phase = "handling", q.route = "/health",
         NEW type \in {"ok", "degraded"}
  PROVE  RequestInv(Reply(q, Success(HealthStatusCode(type), type)))
<1> DEFINE status == HealthStatusCode(type)
           answer == Success(status, type)
<1>1. status = IF type = "ok" THEN 200 ELSE 503
  BY DEF HealthStatusCode
<1>2. answer \in AnswersSent /\ answer.status = status /\ answer.type = type
  BY <1>1 DEF AnswersSent, Success, Answer
<1>3. type \in Declared(q.route, status)
  BY <1>1 DEF Declared
<1>4. ReadAnswer("/health", "complete", answer) = "value"
  <2>1. status \in AnswerStatuses("/health")
    BY <1>1 DEF AnswerStatuses, HealthAnswerStatuses
  <2>2. ReadBounded("complete") = "text" /\ Describes("/health", type) /\ type # "not JSON"
    BY DEF ReadBounded, Describes
  <2>3. AgreesWithStatus("/health", type, status)
    BY DEF AgreesWithStatus
  <2> HIDE DEF answer, status
  <2> QED
    BY <1>2, <2>1, <2>2, <2>3 DEF ReadAnswer
<1>5. answer.status < 500 \/ answer.type = "degraded"
  BY <1>1, <1>2
<1> HIDE DEF answer
<1>6. Reply(q, answer) = Sending(q, answer)
  BY <1>2, <1>3 DEF Reply
<1> QED
  BY <1>2, <1>4, <1>5, <1>6, ValueKeeps DEF answer

LEMMA OtherKeeps ==
  ASSUME NEW q, RequestInv(q), q.phase = "handling", q.route = "other"
  PROVE  /\ \A e \in HandlerErrors : /\ RequestInv(HandleError(q, e))
                                     /\ RequestInv(HeadBreaks(HandleError(q, e)))
         /\ RequestInv(Reply(q, Success(200, "plain")))
         /\ ~q.over => RequestInv([q EXCEPT !.phase = "streaming",
                                            !.answer = Success(200, "stream")])
<1>1. ASSUME NEW e \in HandlerErrors
      PROVE  RequestInv(HandleError(q, e)) /\ RequestInv(HeadBreaks(HandleError(q, e)))
  <2> DEFINE p == HandleError(q, e)
             o == HeadBreaks(p)
  <2>1. e \in AllErrors
    BY RequestsAssumption DEF AllErrors
  <2>2. RequestInv(p) /\ Answers(q, p)
    BY <2>1, ErrorKeeps
  <2> HIDE DEF p
  <2>3. Answers(p, o)
    BY <2>2, FallsBack DEF Answers
  <2> HIDE DEF o
  <2>4. RefusalsInv(p) /\ p.route = "other" /\ o.route = "other"
    BY <2>2, <2>3 DEF RequestInv, Answers
  <2>5. RequestInv(o)
    BY <2>3, <2>4, AnswersKeep
  <2> QED
    BY <2>2, <2>5 DEF p, o
<1>2. RequestInv(Reply(q, Success(200, "plain")))
  <2>1. /\ Success(200, "plain") \in AnswersSent
        /\ Success(200, "plain").status = 200 /\ Success(200, "plain").type = "plain"
    BY DEF AnswersSent, Success, Answer
  <2>2. "plain" \in Declared(q.route, 200)
    BY DEF Declared
  <2>3. Reply(q, Success(200, "plain")) = Sending(q, Success(200, "plain"))
    BY <2>1, <2>2 DEF Reply
  <2>4. Success(200, "plain").status < 500
    BY <2>1
  <2> QED
    BY <2>1, <2>3, <2>4, ValueKeeps
<1>3. ASSUME ~q.over
      PROVE  RequestInv([q EXCEPT !.phase = "streaming", !.answer = Success(200, "stream")])
  <2> DEFINE answer == Success(200, "stream")
             p == [q EXCEPT !.phase = "streaming", !.answer = answer]
  <2>1. answer \in AnswersSent
    BY DEF AnswersSent
  <2> HIDE DEF answer
  <2>2. /\ p \in RequestRecords /\ p.phase = "streaming" /\ p.answer = answer
        /\ p.route = q.route /\ p.lines = q.lines /\ p.told = q.told /\ p.over = q.over
        /\ p.here = q.here /\ p.socket = q.socket /\ p.refusals = q.refusals
    BY <2>1 DEF RequestInv, RequestRecords
  <2> HIDE DEF p
  <2>3. LogInv(p) /\ RefusalsInv(p)
    BY <1>3, <2>2 DEF RequestInv, LogInv, RefusalsInv
  <2>4. ToldInv(p) /\ WireInv(p)
    BY <1>3, <2>2 DEF ToldInv, WireInv, answer
  <2>5. RequestInv(p)
    BY <2>2, <2>3, <2>4 DEF RequestInv
  <2> QED
    BY <2>5 DEF p, answer
<1> QED
  BY <1>1, <1>2, <1>3

-----------------------------------------------------------------------------
(* The end of a response *)

\* p is q but for what it read, its socket, and who is there.
SameTalk(q, p) ==
  /\ p \in RequestRecords /\ p.phase = q.phase /\ p.route = q.route
  /\ p.lines = q.lines /\ p.told = q.told /\ p.over = q.over
  /\ p.error = q.error /\ p.answer = q.answer
  /\ p.refusals = q.refusals /\ (q.socket # "open" => p.socket # "open")
  /\ p.here => q.here

LEMMA SameTalkKeeps ==
  ASSUME NEW q, RequestInv(q), NEW p, SameTalk(q, p), q.phase # "none"
  PROVE  RequestInv(p)
<1>1. LogInv(p) /\ RefusalsInv(p)
  BY DEF SameTalk, RequestInv, LogInv, RefusalsInv
<1>2. ToldInv(p)
  BY DEF SameTalk, RequestInv, ToldInv, Excused
<1>3. WireInv(p)
  BY DEF SameTalk, RequestInv, WireInv, Understood
<1> QED
  BY <1>1, <1>2, <1>3 DEF SameTalk, RequestInv, RequestRecords

\* A failure of the response adds a line if it is the first.
LEMMA FailsFirst ==
  ASSUME NEW q \in RequestRecords, LogInv(q), q.phase # "done", NEW msg \in FirstOnly
  PROVE  LET p == FailureLine(q, msg)
         IN  IF q.told THEN p = q
             ELSE /\ p \in RequestRecords /\ p.told
                  /\ LogOk(p.lines) /\ NoAccess(p.lines) /\ p.lines # <<>>
                  /\ msg = "request errored" => Errored(p.lines)
                  /\ msg \in ErrorLevel => HasError(p.lines)
                  /\ p.phase = q.phase /\ p.route = q.route
                  /\ p.authenticated = q.authenticated /\ p.error = q.error
                  /\ p.answer = q.answer /\ p.here = q.here /\ p.over = q.over
                  /\ p.section = q.section /\ p.socket = q.socket
                  /\ p.refusals = q.refusals
<1> DEFINE line == Line(msg, RawError)
           more == Append(q.lines, line)
           p == Told(Write(q, msg, RawError))
<1>1. CASE q.told
  BY <1>1 DEF FailureLine
<1>2. CASE ~q.told
  <2>1. msg \in LineMessages /\ RawError \in AllErrors
    BY FreshErrors DEF LineMessages, RawError
  <2>2. line \in LogLines /\ line.msg = msg
    BY <2>1, Writes
  <2>3. more \in Seq(LogLines)
    BY <2>1, Writes
  <2>4. p \in RequestRecords
    BY <2>1, Writes
  <2>5. p = [q EXCEPT !.lines = more, !.told = TRUE]
    BY DEF Told, Write
  <2> HIDE DEF line, p
  <2>6. q.lines = <<>>
    BY <1>2 DEF LogInv
  <2>7. msg # "request completed"
    BY DEF FirstOnly
  <2>8. /\ LogOk(more) /\ NoAccess(more) /\ more # <<>>
        /\ msg = "request errored" => Errored(more)
        /\ msg \in ErrorLevel => HasError(more)
    BY <2>2, <2>6, <2>7, FirstLine
  <2> HIDE DEF more
  <2>9. /\ p.lines = more /\ p.told
        /\ p.phase = q.phase /\ p.route = q.route
        /\ p.authenticated = q.authenticated /\ p.error = q.error
        /\ p.answer = q.answer /\ p.here = q.here /\ p.over = q.over
        /\ p.section = q.section /\ p.socket = q.socket /\ p.refusals = q.refusals
    BY <2>3, <2>5 DEF RequestRecords
  <2>10. FailureLine(q, msg) = p
    BY <1>2 DEF FailureLine, p
  <2> QED
    BY <1>2, <2>4, <2>8, <2>9, <2>10
<1> QED
  BY <1>1, <1>2

NothingRead == NoRequest.section

LEMMA NothingReadIsRead == NothingRead \in [Sections -> Reads]
<1>1. Idle \in Reads
  BY DEF Idle, Reads, OwnFailures
<1> QED
  BY <1>1 DEF NothingRead, NoRequest

LEMMA CompletesKeeps ==
  ASSUME NEW q, RequestInv(q), q.phase \in {"sending", "streaming"}, q.here
  PROVE  RequestInv(IF q.over THEN Over(q, "broken") ELSE Over(LogAccess(q), "done"))
<1>1. CASE q.over
  <2> DEFINE p == [q EXCEPT !.phase = "broken", !.section = NothingRead]
  <2>1. /\ p \in RequestRecords /\ p.phase = "broken" /\ p.answer = q.answer
        /\ p.route = q.route /\ p.lines = q.lines /\ p.told = q.told /\ p.over = q.over
        /\ p.here = q.here /\ p.error = q.error
        /\ p.socket = q.socket /\ p.refusals = q.refusals
    BY NothingReadIsRead DEF RequestInv, RequestRecords
  <2>2. Over(q, "broken") = p
    BY DEF Over, NothingRead
  <2> HIDE DEF p
  <2>3. LogInv(p) /\ RefusalsInv(p)
    BY <2>1 DEF RequestInv, LogInv, RefusalsInv
  <2>4. ToldInv(p)
    BY <1>1, <2>1 DEF RequestInv, LogInv, ToldInv, Excused
  <2>5. WireInv(p)
    BY <2>1 DEF RequestInv, WireInv
  <2> QED
    BY <1>1, <2>1, <2>2, <2>3, <2>4, <2>5 DEF RequestInv
<1>2. CASE ~q.over
  <2>1. PICK lines :
          /\ LogAccess(q) = [q EXCEPT !.lines = lines]
          /\ lines \in Seq(LogLines) /\ LogOk(lines) /\ lines # <<>>
          /\ HasError(q.lines) => HasError(lines)
    <3>1. CASE q.told
      <4>1. LogAccess(q) = [q EXCEPT !.lines = q.lines]
        BY <3>1 DEF LogAccess, RequestInv, RequestRecords
      <4> QED
        BY <3>1, <4>1 DEF RequestInv, RequestRecords, LogInv
    <3>2. CASE ~q.told
      <4> DEFINE line == Line("request completed", NoError)
      <4>1. "request completed" \in LineMessages
        BY DEF LineMessages
      <4>2. LogAccess(q) = Write(q, "request completed", NoError)
        BY <3>2 DEF LogAccess
      <4>3. LogAccess(q) = [q EXCEPT !.lines = Append(q.lines, line)]
        BY <4>2 DEF Write
      <4>4. line \in LogLines
        BY <4>1, FreshErrors, Writes DEF RequestInv
      <4>5. q.lines = <<>>
        BY <3>2 DEF RequestInv, LogInv
      <4> HIDE DEF line
      <4>6. /\ Append(q.lines, line) \in Seq(LogLines) /\ LogOk(Append(q.lines, line))
            /\ Append(q.lines, line) # <<>>
        <5>1. Append(q.lines, line) \in Seq(LogLines)
          BY <4>4 DEF RequestInv, RequestRecords
        <5>2. LogOk(Append(<<>>, line)) /\ Append(<<>>, line) # <<>>
          BY <4>4, FirstLine
        <5> QED
          BY <4>5, <5>1, <5>2
      <4>7. ~HasError(q.lines)
        BY <4>5 DEF HasError
      <4> QED
        BY <4>3, <4>6, <4>7
    <3> QED
      BY <3>1, <3>2
  <2> DEFINE p == [q EXCEPT !.lines = lines, !.phase = "done", !.section = NothingRead]
  <2>2. /\ p \in RequestRecords /\ p.phase = "done" /\ p.answer = q.answer
        /\ p.route = q.route /\ p.lines = lines /\ p.told = q.told /\ p.over = q.over
        /\ p.here = q.here /\ p.error = q.error
        /\ p.socket = q.socket /\ p.refusals = q.refusals
    BY <2>1, NothingReadIsRead DEF RequestInv, RequestRecords
  <2>3. Over(LogAccess(q), "done") = p
    BY <2>1 DEF Over, NothingRead
  <2> HIDE DEF p
  <2>4. LogInv(p) /\ RefusalsInv(p)
    BY <1>2, <2>1, <2>2 DEF RequestInv, LogInv, RefusalsInv
  <2>5. Excused(p) \/ p.answer.status < 500
    <3>1. CASE q.phase = "sending"
      BY <2>1, <2>2, <3>1 DEF RequestInv, ToldInv, Excused
    <3>2. CASE q.phase = "streaming"
      <4>1. p.answer.status = 200
        BY <2>2, <3>2 DEF RequestInv, ToldInv, Success, Answer
      <4> QED
        BY <4>1
    <3> QED
      BY <3>1, <3>2
  <2>6. ToldInv(p)
    BY <2>1, <2>2, <2>5 DEF ToldInv
  <2>7. WireInv(p)
    BY <1>2, <2>2 DEF RequestInv, WireInv, Understood
  <2> QED
    BY <1>2, <2>2, <2>3, <2>4, <2>6, <2>7 DEF RequestInv
<1> QED
  BY <1>1, <1>2 DEF RequestInv, RequestRecords

LEMMA BreaksKeeps ==
  ASSUME NEW q, RequestInv(q), q.route = "other", ~q.over,
         q.phase \in {"handling", "sending", "left"}
  PROVE  RequestInv([FailureLine(q, "request errored") EXCEPT !.over = TRUE])
<1> DEFINE o == FailureLine(q, "request errored")
           p == [o EXCEPT !.over = TRUE]
<1>1. "request errored" \in FirstOnly /\ "request errored" \in ErrorLevel
  BY DEF FirstOnly, ErrorLevel
<1>2. q \in RequestRecords /\ LogInv(q)
  BY DEF RequestInv
<1>3. IF q.told THEN o = q
      ELSE /\ o \in RequestRecords /\ o.told
           /\ LogOk(o.lines) /\ NoAccess(o.lines) /\ o.lines # <<>>
           /\ Errored(o.lines) /\ HasError(o.lines)
           /\ o.phase = q.phase /\ o.route = q.route /\ o.error = q.error
           /\ o.answer = q.answer /\ o.here = q.here /\ o.over = q.over
           /\ o.section = q.section /\ o.socket = q.socket /\ o.refusals = q.refusals
  BY <1>1, <1>2, FailsFirst
<1> HIDE DEF o
<1>4. /\ o \in RequestRecords /\ o.told /\ LogOk(o.lines) /\ NoAccess(o.lines)
      /\ o.lines # <<>>
      /\ o.phase = q.phase /\ o.route = q.route /\ o.error = q.error
      /\ o.answer = q.answer /\ o.here = q.here
      /\ o.section = q.section /\ o.socket = q.socket /\ o.refusals = q.refusals
  BY <1>2, <1>3 DEF LogInv
<1>5. q.phase = "handling" => Errored(o.lines)
  BY <1>2, <1>3 DEF LogInv
<1>6. q.phase = "sending" => Excused(o)
  BY <1>3 DEF RequestInv, ToldInv, Excused
<1>7. /\ p \in RequestRecords /\ p.over /\ p.told /\ p.lines = o.lines
      /\ p.phase = o.phase /\ p.route = o.route /\ p.error = o.error
      /\ p.answer = o.answer /\ p.here = o.here /\ p.told = o.told
      /\ p.section = o.section /\ p.socket = o.socket /\ p.refusals = o.refusals
  BY <1>4 DEF RequestRecords
<1> HIDE DEF p
<1>8. LogInv(p) /\ RefusalsInv(p)
  BY <1>4, <1>5, <1>7 DEF RequestInv, LogInv, RefusalsInv
<1>9. ToldInv(p)
  BY <1>4, <1>6, <1>7 DEF ToldInv, Excused
<1>10. WireInv(p)
  BY <1>4, <1>7 DEF WireInv
<1>11. RequestInv(p)
  BY <1>4, <1>7, <1>8, <1>9, <1>10 DEF RequestInv
<1> QED
  BY <1>11 DEF p, o

\* A stream that ends under its response, whoever ended it.
LEMMA StreamErrorKeeps ==
  ASSUME NEW q \in RequestRecords, LogInv(q), RefusalsInv(q), q.phase = "streaming",
         q.route = "other",
         NEW phase \in {"broken", "left"}, phase = "left" => ~q.here
  PROVE  RequestInv(Over(StreamError(q), phase))
<1> DEFINE msg == IF q.here THEN "response stream failed" ELSE "stream closed prematurely"
           o == FailureLine(q, msg)
           p == [o EXCEPT !.phase = phase, !.section = NothingRead]
<1>1. msg \in FirstOnly /\ (q.here => msg \in ErrorLevel)
  BY DEF FirstOnly, ErrorLevel
<1>2. ~q.told
  BY DEF LogInv
<1>3. StreamError(q) = o
  BY <1>2 DEF StreamError, FailureLine, RawError
<1> HIDE DEF msg
<1>4. /\ o \in RequestRecords /\ o.told
      /\ LogOk(o.lines) /\ NoAccess(o.lines) /\ o.lines # <<>>
      /\ msg \in ErrorLevel => HasError(o.lines)
      /\ o.route = q.route /\ o.here = q.here /\ o.over = q.over
      /\ o.socket = q.socket /\ o.refusals = q.refusals
  BY <1>1, <1>2, FailsFirst
<1> HIDE DEF o
<1>5. /\ p \in RequestRecords /\ p.told /\ p.lines = o.lines /\ p.phase = phase
      /\ p.route = o.route /\ p.here = o.here /\ p.over = o.over /\ p.told = o.told
      /\ p.socket = o.socket /\ p.refusals = o.refusals
  BY <1>4, NothingReadIsRead DEF RequestRecords
<1>6. Over(o, phase) = p
  BY DEF Over, NothingRead
<1> HIDE DEF p
<1>7. LogInv(p) /\ RefusalsInv(p) /\ ToldInv(p) /\ WireInv(p)
  BY <1>1, <1>4, <1>5 DEF LogInv, RefusalsInv, ToldInv, WireInv, Excused
<1> QED
  BY <1>3, <1>4, <1>5, <1>6, <1>7 DEF RequestInv

LEMMA LeavesKeeps ==
  ASSUME NEW q, RequestInv(q), q.here, q.phase \in {"handling", "sending", "streaming"}
  PROVE  LET p == [q EXCEPT !.here = FALSE]
         IN  RequestInv(IF p.phase = "streaming" THEN Over(StreamError(p), "left") ELSE p)
<1> DEFINE p == [q EXCEPT !.here = FALSE]
<1>1. SameTalk(q, p) /\ ~p.here
  BY DEF SameTalk, RequestInv, RequestRecords
<1> HIDE DEF p
<1>2. RequestInv(p)
  BY <1>1, SameTalkKeeps
<1>3. p.phase = "streaming" => RequestInv(Over(StreamError(p), "left"))
  BY <1>1, <1>2, StreamErrorKeeps DEF RequestInv, WireInv
<1> QED
  BY <1>2, <1>3 DEF p

LEMMA NeverFinishesKeeps ==
  ASSUME NEW q, RequestInv(q), q.phase = "sending", ~q.here
  PROVE  RequestInv(Over(q, "left"))
<1> DEFINE p == [q EXCEPT !.phase = "left", !.section = NothingRead]
<1>1. /\ p \in RequestRecords /\ p.phase = "left"
      /\ p.route = q.route /\ p.lines = q.lines /\ p.told = q.told /\ p.over = q.over
      /\ p.here = q.here /\ p.socket = q.socket /\ p.refusals = q.refusals
  BY NothingReadIsRead DEF RequestInv, RequestRecords
<1>2. Over(q, "left") = p
  BY DEF Over, NothingRead
<1> HIDE DEF p
<1>3. LogInv(p) /\ RefusalsInv(p) /\ ToldInv(p) /\ WireInv(p)
  BY <1>1 DEF RequestInv, LogInv, RefusalsInv, ToldInv, WireInv
<1> QED
  BY <1>1, <1>2, <1>3 DEF RequestInv

\* Node refuses what follows on the connection, once: its socket is open no
\* longer.
LEMMA RefusedKeeps ==
  ASSUME NEW q, RequestInv(q), q.here, q.socket = "open",
         q.phase \in {"sending", "streaming", "done"}
  PROVE  LET told == [q EXCEPT !.refusals = Append(@, TooLarge)]
             closed == [told EXCEPT !.socket = "destroyed", !.here = FALSE]
         IN  /\ RequestInv(Over(StreamError(closed), "left")) \/ q.phase # "streaming"
             /\ RequestInv(closed)
             /\ RequestInv([told EXCEPT !.socket = "answering"])
<1> DEFINE told == [q EXCEPT !.refusals = Append(@, TooLarge)]
           closed == [told EXCEPT !.socket = "destroyed", !.here = FALSE]
           answering == [told EXCEPT !.socket = "answering"]
<1>1. q.refusals = <<>>
  BY DEF RequestInv, RefusalsInv
<1>2. Append(q.refusals, TooLarge) = <<TooLarge>>
  BY <1>1
<1>3. /\ closed = [q EXCEPT !.refusals = <<TooLarge>>, !.socket = "destroyed", !.here = FALSE]
      /\ answering = [q EXCEPT !.refusals = <<TooLarge>>, !.socket = "answering"]
  BY <1>2
<1> HIDE DEF closed, answering
<1>4. <<TooLarge>> \in Seq({TooLarge})
  OBVIOUS
<1>5. ASSUME NEW p \in {closed, answering}
      PROVE  /\ p \in RequestRecords /\ p.phase = q.phase /\ p.route = q.route
             /\ p.lines = q.lines /\ p.told = q.told /\ p.over = q.over
             /\ p.error = q.error /\ p.answer = q.answer
             /\ p.refusals = <<TooLarge>> /\ p.socket # "open" /\ (p.here => q.here)
  <2>1. q \in RequestRecords
    BY DEF RequestInv
  <2>2. CASE p = closed
    BY <1>3, <1>4, <2>1, <2>2 DEF RequestRecords
  <2>3. CASE p = answering
    BY <1>3, <1>4, <2>1, <2>3 DEF RequestRecords
  <2> QED
    BY <1>5, <2>2, <2>3
<1>6. ASSUME NEW p \in {closed, answering} PROVE RequestInv(p)
  <2>1. LogInv(p) /\ RefusalsInv(p)
    BY <1>5, <1>6 DEF RequestInv, LogInv, RefusalsInv
  <2>2. ToldInv(p)
    BY <1>5, <1>6 DEF RequestInv, ToldInv, Excused
  <2>3. WireInv(p)
    BY <1>5, <1>6 DEF RequestInv, WireInv, Understood
  <2> QED
    BY <1>5, <1>6, <2>1, <2>2, <2>3 DEF RequestInv
<1>7. ~closed.here
  BY <1>3 DEF RequestInv, RequestRecords
<1>8. q.phase = "streaming" => RequestInv(Over(StreamError(closed), "left"))
  <2>1. q.phase = "streaming" => q.route = "other"
    BY DEF RequestInv, WireInv
  <2>2. RequestInv(closed) /\ closed.phase = q.phase /\ closed.route = q.route
    BY <1>5, <1>6
  <2> QED
    BY <1>7, <2>1, <2>2, StreamErrorKeeps DEF RequestInv
<1> QED
  BY <1>6, <1>8 DEF closed, answering

LEMMA FlushedKeeps ==
  ASSUME NEW q, RequestInv(q), q.socket = "answering"
  PROVE  RequestInv([q EXCEPT !.socket = "destroyed", !.here = FALSE])
<1> DEFINE p == [q EXCEPT !.socket = "destroyed", !.here = FALSE]
<1>1. SameTalk(q, p)
  BY DEF SameTalk, RequestInv, RequestRecords
<1>2. q.phase # "none"
  BY DEF RequestInv, NoRequest
<1> QED
  BY <1>1, <1>2, SameTalkKeeps

\* What is read changes nothing but the sections of a request that waits.
LEMMA ReadingKeeps ==
  ASSUME NEW q, RequestInv(q), NEW s \in Sections, q.section[s].state = "waiting",
         NEW outcome \in Reads
  PROVE  RequestInv([q EXCEPT !.section[s] = outcome])
<1> DEFINE section == [q.section EXCEPT ![s] = outcome]
           p == [q EXCEPT !.section = section]
<1>1. section \in [Sections -> Reads]
  BY DEF RequestInv, RequestRecords
<1>2. [q EXCEPT !.section[s] = outcome] = p
  OBVIOUS
<1> HIDE DEF section
<1>3. SameTalk(q, p)
  BY <1>1 DEF SameTalk, RequestInv, RequestRecords
<1>4. q.phase # "none"
  <2>1. NoRequest.section[s] = Idle /\ Idle.state # "waiting"
    BY DEF NoRequest, Idle
  <2> QED
    BY <2>1 DEF RequestInv
<1> HIDE DEF p
<1> QED
  BY <1>2, <1>3, <1>4, SameTalkKeeps

-----------------------------------------------------------------------------
(* Every step of the process keeps the invariant of the requests *)

LEMMA ArrivesKeeps ==
  ASSUME RequestsInv, NEW r \in Clients, NEW closing \in BOOLEAN, Arrive(r, closing)
  PROVE  RequestsInv'
<1>1. PICK route \in RoutesOf[r] :
        LET q == [req[r] EXCEPT !.route = route]
        IN  \/ /\ route = "bad url"
               /\ \E status \in RouterStatuses :
                    req' = [req EXCEPT ![r] = FrameworkError(q, status)]
            \/ /\ route # "bad url"
               /\ \E right \in BOOLEAN :
                    req' = [req EXCEPT ![r] = OnRequest(q, closing, right)]
  BY DEF Arrive
<1> DEFINE q == [req[r] EXCEPT !.route = route]
<1>2. req[r] = NoRequest
  BY DEF RequestsInv, RequestInv, Arrive
<1>3. Fresh(q) /\ q.route = route
  <2>1. route \in AllRoutes
    BY DEF AllRoutes
  <2>2. req[r] \in RequestRecords
    BY DEF RequestsInv
  <2>3. /\ NoRequest.lines = <<>> /\ NoRequest.refusals = <<>>
        /\ ~NoRequest.told /\ ~NoRequest.over /\ NoRequest.here
    BY DEF NoRequest
  <2> QED
    BY <1>2, <2>1, <2>2, <2>3 DEF Fresh, RequestRecords
<1>4. \E p : RequestInv(p) /\ req' = [req EXCEPT ![r] = p]
  BY <1>1, <1>3, ArrivalKeeps, RouterKeeps
<1> QED
  BY <1>4 DEF RequestsInv, RequestInv

\* A step of one request on its own.
LEMMA StepsKeep ==
  ASSUME RequestsInv, NEW r \in Clients, RequestSteps(r)
  PROVE  RequestsInv'
<1> SUFFICES \E p : RequestInv(p) /\ req' = [req EXCEPT ![r] = p]
  BY DEF RequestsInv, RequestInv
<1> DEFINE q == req[r]
<1> USE DEF RequestsInv
<1>1. ASSUME NEW s \in Slow, Deadline(r, s)
      PROVE  \E p : RequestInv(p) /\ req' = [req EXCEPT ![r] = p]
  <2> DEFINE late == Failed("dependency", Named("DeadlineError"))
  <2>1. s \in Sections
    BY RequestsAssumption
  <2>2. late \in Reads
    BY DEF Failed, Reads, OwnFailures
  <2>3. req' = [req EXCEPT ![r] = [q EXCEPT !.section[s] = late]]
    BY <1>1 DEF Deadline
  <2> HIDE DEF late
  <2>4. RequestInv([q EXCEPT !.section[s] = late])
    BY <1>1, <2>1, <2>2, ReadingKeeps DEF Deadline
  <2> QED
    BY <2>3, <2>4
<1>2. CASE PageEnds(r)
  BY <1>2, PageKeeps DEF PageEnds
<1>3. CASE HealthEnds(r)
  <2> DEFINE type == IF \A s \in SectionsOf("/health") : q.section[s].state = "ok"
                     THEN "ok" ELSE "degraded"
  <2>1. req' = [req EXCEPT ![r] = Reply(q, Success(HealthStatusCode(type), type))]
    BY <1>3 DEF HealthEnds
  <2>2. type \in {"ok", "degraded"}
    OBVIOUS
  <2> HIDE DEF type
  <2>3. RequestInv(Reply(q, Success(HealthStatusCode(type), type)))
    BY <1>3, <2>2, HealthKeeps DEF HealthEnds
  <2> QED
    BY <2>1, <2>3
<1>4. CASE OtherEnds(r)
  <2>1. CASE ~q.over /\ req' = [req EXCEPT ![r].phase = "streaming",
                                          ![r].answer = Success(200, "stream")]
    <3>1. req' = [req EXCEPT ![r] = [q EXCEPT !.phase = "streaming",
                                             !.answer = Success(200, "stream")]]
      BY <2>1
    <3> QED
      BY <1>4, <2>1, <3>1, OtherKeeps DEF OtherEnds
  <2> QED
    BY <1>4, <2>1, OtherKeeps DEF OtherEnds
<1>5. CASE Completes(r)
  BY <1>5, CompletesKeeps DEF Completes
<1>6. CASE Breaks(r)
  BY <1>6, BreaksKeeps DEF Breaks
<1>7. CASE StreamFails(r)
  BY <1>7, StreamErrorKeeps DEF StreamFails, RequestInv, WireInv
<1>8. CASE ClientLeaves(r)
  BY <1>8, LeavesKeeps DEF ClientLeaves
<1>9. CASE NeverFinishes(r)
  BY <1>9, NeverFinishesKeeps DEF NeverFinishes
<1>10. CASE Refused(r)
  BY <1>10, RefusedKeeps DEF Refused, TooLarge
<1>11. CASE Flushed(r)
  <2>1. req' = [req EXCEPT ![r] = [q EXCEPT !.socket = "destroyed", !.here = FALSE]]
    BY <1>11 DEF Flushed
  <2> QED
    BY <1>11, <2>1, FlushedKeeps DEF Flushed
<1> QED
  BY <1>1, <1>2, <1>3, <1>4, <1>5, <1>6, <1>7, <1>8, <1>9, <1>10, <1>11
     DEF RequestSteps

\* What a dependency may answer, by the state of the stop.
LEMMA OutcomesAreReads ==
  ASSUME NEW s \in Sections
  PROVE  ReadOutcomes(s) \subseteq Reads
<1>1. /\ Failed("stop", Named("ProbeClosedError")) \in Reads
      /\ Failed("stop", Said("Connection is closed.")) \in Reads
  BY DEF Failed, Reads, OwnFailures
<1>2. Read \in Reads
  BY DEF Read, Idle, Reads, OwnFailures
<1>3. ASSUME NEW o \in Outages[s] PROVE Failed(o.cause, o.failure) \in Reads
  <2>1. o.cause \in {"dependency", "service", "stop"}
    BY RequestsAssumption
  <2>2. o.failure \in UNION {{x.failure : x \in Outages[t]} : t \in Sections}
    OBVIOUS
  <2> QED
    BY <2>1, <2>2 DEF Failed, Reads
<1> QED
  BY <1>1, <1>2, <1>3 DEF ReadOutcomes

LEMMA FlightKeeps ==
  ASSUME RequestsInv, NEW s \in Sections, FlightEnds(s, ReadOutcomes(s))
  PROVE  RequestsInv'
<1>1. PICK outcome \in ReadOutcomes(s) :
        req' = [r \in Clients |-> IF req[r].section[s].state = "waiting"
                                  THEN [req[r] EXCEPT !.section[s] = outcome] ELSE req[r]]
  BY DEF FlightEnds
<1>2. outcome \in Reads
  BY OutcomesAreReads
<1>3. ASSUME NEW r \in Clients PROVE RequestInv(req'[r])
  <2>1. RequestInv(req[r])
    BY DEF RequestsInv
  <2>2. CASE req[r].section[s].state = "waiting"
    <3>1. req'[r] = [req[r] EXCEPT !.section[s] = outcome]
      BY <1>1, <2>2
    <3> QED
      BY <1>2, <2>1, <2>2, <3>1, ReadingKeeps
  <2>3. CASE req[r].section[s].state # "waiting"
    BY <1>1, <2>1, <2>3
  <2> QED
    BY <2>2, <2>3
<1> QED
  BY <1>1, <1>3 DEF RequestsInv, RequestInv

LEMMA StartsWithNone == ASSUME ReqInit PROVE RequestsInv
<1>1. NoRequest \in RequestRecords
  <2>1. /\ "none" \in AllRoutes /\ NoError \in AllErrors /\ Success(0, "none") \in AnswersSent
    BY FreshErrors DEF AllRoutes, AnswersSent
  <2>2. [s \in Sections |-> Idle] \in [Sections -> Reads]
    BY NothingReadIsRead DEF NothingRead, NoRequest
  <2>3. <<>> \in Seq(LogLines) /\ <<>> \in Seq({TooLarge})
    OBVIOUS
  <2> QED
    BY <2>1, <2>2, <2>3 DEF NoRequest, RequestRecords
<1>2. /\ NoRequest.phase = "none" /\ NoRequest.lines = <<>> /\ NoRequest.refusals = <<>>
      /\ ~NoRequest.told /\ ~NoRequest.over
  BY DEF NoRequest
<1>3. RequestInv(NoRequest)
  BY <1>1, <1>2, FreshLog DEF RequestInv, LogInv, RefusalsInv, ToldInv, WireInv
<1> QED
  BY <1>1, <1>3 DEF ReqInit, RequestsInv

LEMMA RequestsInvStep == ASSUME RequestsInv, [Next]_vars PROVE RequestsInv'
<1>1. CASE UNCHANGED reqVars
  BY <1>1 DEF RequestsInv, RequestInv, reqVars
<1>2. CASE RequestArrives
  BY <1>2, ArrivesKeeps DEF RequestArrives, Closing
<1>3. CASE ReadEnds
  BY <1>3, FlightKeeps DEF ReadEnds
<1>4. CASE RequestStep
  BY <1>4, StepsKeep DEF RequestStep
<1> QED
  BY <1>1, <1>2, <1>3, <1>4
     DEF Next, vars, Compose, Listens, ListenFails, Sigterm, StageBegins, StageEnds, StopEnds

-----------------------------------------------------------------------------
(* What the log and the client are promised *)

(***************************************************************************)
(* A request is told about once: an access line stands alone, and only a   *)
(* failure of the error handler itself, or its line after a response that  *)
(* had broken, adds to a line; and the socket refuses what follows once    *)
(* (request-log.ts, socket-errors.ts).                                     *)
(***************************************************************************)
THEOREM EachAlwaysToldOnce == Spec => []ToldOnce
<1>1. Init => RequestsInv
  BY StartsWithNone DEF Init
<1>2. RequestsInv /\ [Next]_vars => RequestsInv'
  BY RequestsInvStep
<1>3. RequestsInv => ToldOnce
  <2> SUFFICES ASSUME RequestsInv, NEW r \in Clients
               PROVE  Len(req[r].refusals) <= 1 /\ LogOk(req[r].lines)
    BY DEF ToldOnce, LogOk
  <2>1. LogOk(req[r].lines)
    BY DEF RequestsInv, RequestInv, LogInv
  <2>2. req[r].refusals = <<>> \/ req[r].refusals = <<TooLarge>>
    BY DEF RequestsInv, RequestInv, RefusalsInv
  <2>3. Len(req[r].refusals) <= 1
    <3>1. Len(<<>>) <= 1 /\ Len(<<TooLarge>>) <= 1
      OBVIOUS
    <3> QED
      BY <2>2, <3>1, Zenon
  <2> QED
    BY <2>1, <2>3
<1> QED
  BY <1>1, <1>2, <1>3, PTL DEF Spec

(***************************************************************************)
(* A request that was answered, or broke under a client that was there,    *)
(* has a line, and a failure of this service has one at level error        *)
(* (request-log.ts, error-response.ts).                                    *)
(***************************************************************************)
THEOREM FailuresAlwaysTold == Spec => []FailuresAreTold
<1>1. Init => RequestsInv
  BY StartsWithNone DEF Init
<1>2. RequestsInv /\ [Next]_vars => RequestsInv'
  BY RequestsInvStep
<1>3. RequestsInv => FailuresAreTold
  <2> SUFFICES ASSUME RequestsInv, NEW r \in Clients,
                      req[r].phase \in {"done", "broken"}, req[r].here
               PROVE  /\ req[r].lines # <<>>
                      /\ \/ req[r].phase = "done" /\ req[r].answer.status < 500
                         \/ Excused(req[r])
    BY DEF FailuresAreTold, Excused, HasError
  <2> QED
    BY DEF RequestsInv, RequestInv, ToldInv
<1> QED
  BY <1>1, <1>2, <1>3, PTL DEF Spec

(***************************************************************************)
(* Whatever /health and /system/status answer, the client of the api reads *)
(* a value of the route or a failure in the words of the envelope          *)
(* (routes/, error-response.ts, packages/api-client/src/client.ts).        *)
(***************************************************************************)
THEOREM AnswersAlwaysUnderstood == Spec => []AnswersAreUnderstood
<1>1. Init => RequestsInv
  BY StartsWithNone DEF Init
<1>2. RequestsInv /\ [Next]_vars => RequestsInv'
  BY RequestsInvStep
<1>3. RequestsInv => AnswersAreUnderstood
  BY DEF RequestsInv, RequestInv, WireInv, Understood, AnswersAreUnderstood
<1> QED
  BY <1>1, <1>2, <1>3, PTL DEF Spec

-----------------------------------------------------------------------------
(* The order of the stop *)

\* A call of the stop moves no stage and gives no verdict: nobody can force
\* the exit of this process.
LEMMA CallOnlyBlames ==
  ASSUME NEW request, Stop!Call(request, Stop!NoPress)
  PROVE  UNCHANGED <<step, stage, exited, code, exitCode>>
BY DEF Stop!Call, Stop!Begin, Stop!Hint, Stop!IgnoreCopy, Stop!ForceExit,
       Stop!AlreadyStopping, Stop!MayForce, Stop!planVars, Stop!exitVars

\* The plan: the app is the first step, everything else the second.
LEMMA PlanOfApi ==
  ASSUME NEW q, NEW k, StopInv, Stop!CloseBegins(q, k)
  PROVE  /\ stage' = [stage EXCEPT ![q[k]] = "closing"] /\ stage[q[k]] = "waiting"
         /\ UNCHANGED <<step, exited, code, exitCode>>
         /\ step = 1 => q = <<"app">>
BY DEF Stop!CloseBegins, Stop!handlerVars, Stop!exitVars

LEMMA StopInvStep == ASSUME StopInv, [Next]_vars PROVE StopInv'
<1> DEFINE plan == <<step, stage, code, exitCode>>
<1>1. CASE UNCHANGED plan
  BY <1>1 DEF StopInv
<1>2. CASE UNCHANGED vars \/ Listens \/ RequestArrives \/ ReadEnds \/ RequestStep
  BY <1>1, <1>2 DEF vars, stopVars, Listens, RequestArrives, ReadEnds, RequestStep
<1>3. CASE Compose \/ ListenFails \/ Sigterm
  <2>1. \/ UNCHANGED stopVars
        \/ \E request : Stop!Call(request, Stop!NoPress)
    BY <1>3 DEF Compose, ListenFails, Sigterm
  <2> QED
    BY <1>1, <2>1, CallOnlyBlames DEF stopVars
<1>4. CASE StageBegins
  <2>1. PICK q, k : /\ Stop!CloseBegins(q, k)
                    /\ <<q, k>> \in {<< <<"app">>, 1>>, << <<"db">>, 1>>,
                                     << <<"queues", "redis">>, 1>>,
                                     << <<"queues", "redis">>, 2>>}
    BY <1>4 DEF StageBegins
  <2>2. /\ stage' = [stage EXCEPT ![q[k]] = "closing"] /\ stage[q[k]] = "waiting"
        /\ UNCHANGED <<step, exited, code, exitCode>>
        /\ step = 1 => q = <<"app">>
    BY <2>1, PlanOfApi
  <2>3. q[k] \in Stages /\ (q[k] # "app" => q # <<"app">>)
    BY <2>1 DEF Stages
  <2>4. "waiting" \notin Stop!Answers /\ "closing" \in Stop!Phases
    BY DEF Stop!Answers, Stop!Phases
  <2> QED
    BY <2>2, <2>3, <2>4 DEF StopInv
<1>5. CASE StageEnds
  <2>1. PICK s \in Stages : Stop!CloseEnds(s)
    BY <1>5 DEF StageEnds
  <2>2. PICK answer \in Stop!Answers :
          /\ stage' = [stage EXCEPT ![s] = answer]
          /\ step' = Stop!StepAfter(stage')
    BY <2>1 DEF Stop!CloseEnds
  <2>3. UNCHANGED <<exited, code, exitCode>> /\ stage[s] = "closing"
    BY <2>1 DEF Stop!CloseEnds, Stop!exitVars
  <2>4. /\ "closing" \notin Stop!Answers /\ Stop!Answers \subseteq Stop!Phases
        /\ "waiting" \notin Stop!Answers
    BY DEF Stop!Answers, Stop!Phases
  <2>5. step' = step \/ (step \in {1, 2} /\ step' = step + 1)
    BY <2>2 DEF Stop!StepAfter
  <2>6. step = 1 /\ step' # 1 => stage'["app"] \in Stop!Answers
    <3> SUFFICES ASSUME step = 1, step' # 1 PROVE stage'["app"] \in Stop!Answers
      OBVIOUS
    <3>1. Stop!StepSettled(1, stage')
      BY <2>2 DEF Stop!StepAfter
    <3>2. \A k \in DOMAIN <<"app">> : stage'[(<<"app">>)[k]] \in Stop!Answers
      BY <3>1 DEF Stop!StepSettled
    <3>3. 1 \in DOMAIN <<"app">>
      OBVIOUS
    <3> QED
      BY <3>2, <3>3
  <2>7. step # 1 => stage'["app"] \in Stop!Answers
    BY <2>2, <2>3, <2>4 DEF StopInv, Stages
  <2>8. \A x \in {"db", "redis", "queues"} : stage'[x] # "waiting" => stage[x] # "waiting"
    BY <2>2, <2>3, <2>4 DEF StopInv, Stages
  <2>9. step' \in 1 .. 3 /\ (step # 1 => step' # 1) /\ (step = 3 => step' = 3)
    BY <2>5 DEF StopInv
  <2>10. stage' \in [Stages -> Stop!Phases]
    BY <2>2, <2>4 DEF StopInv
  <2> QED
    BY <2>3, <2>6, <2>7, <2>8, <2>9, <2>10 DEF StopInv
<1>6. CASE StopEnds
  <2>1. CASE Stop!PlanEnds
    <3>1. UNCHANGED <<step, stage, exitCode>> /\ exitCode = -1 /\ step = 3
      BY <2>1 DEF Stop!PlanEnds, Stop!Alive, Stop!NoCode, Stop!PlanOver, Stop!planVars
    <3> QED
      BY <3>1 DEF StopInv
  <2>2. CASE Stop!DeadlineFires
    <3>1. UNCHANGED <<step, stage, exitCode>> /\ exitCode = -1 /\ code' = 1
      BY <2>2 DEF Stop!DeadlineFires, Stop!Alive, Stop!NoCode, Stop!ExitOnce,
                  Stop!TimeoutCode, Stop!planVars
    <3> QED
      BY <3>1 DEF StopInv
  <2>3. CASE Stop!Exit
    BY <2>3 DEF StopInv, Stop!Exit, Stop!planVars
  <2> QED
    BY <1>6, <2>1, <2>2, <2>3 DEF StopEnds
<1> QED
  BY <1>2, <1>3, <1>4, <1>5, <1>6 DEF Next

-----------------------------------------------------------------------------
(* What a step of a request does to what it has read *)

Same(q, p) ==
  /\ p.phase = q.phase /\ p.route = q.route /\ p.section = q.section
  /\ p.answer = q.answer /\ p.error = q.error /\ p.authenticated = q.authenticated
  /\ p.here => q.here
HasEnded(q, p) ==
  /\ q.phase \in {"sending", "streaming"} /\ p.phase \in {"done", "broken", "left"}
  /\ p.route = q.route /\ p.section = NothingRead
  /\ p.here => q.here
Streams(q, p) ==
  /\ q.phase = "handling" /\ p.phase = "streaming"
  /\ p.route = q.route /\ q.route = "other" /\ p.section = q.section
  /\ p.here => q.here
Sent(q, p) ==
  /\ q.phase = "handling" /\ p.phase = "sending"
  /\ p.route = q.route /\ p.here = q.here
  /\ Settled(p) \/ q.route = "other"
  /\ \A s \in Sections : p.section[s] \in {q.section[s], Idle}
  /\ PageInv(p)

LEMMA SendingIs ==
  ASSUME NEW q \in RequestRecords, NEW answer
  PROVE  LET p == Sending(q, answer)
         IN  /\ p.phase = "sending" /\ p.answer = answer /\ p.route = q.route
             /\ p.here = q.here /\ p.section = q.section /\ p.error = q.error
             /\ p.authenticated = q.authenticated
BY DEF Sending, RequestRecords

LEMMA OverIs ==
  ASSUME NEW q \in RequestRecords, NEW phase
  PROVE  LET p == Over(q, phase)
         IN  /\ p.phase = phase /\ p.route = q.route /\ p.here = q.here
             /\ p.section = NothingRead
BY DEF Over, NothingRead, RequestRecords

LEMMA FailureLineIs ==
  ASSUME NEW q \in RequestRecords, LogInv(q), q.phase # "done", NEW msg \in FirstOnly
  PROVE  LET p == FailureLine(q, msg)
         IN  /\ p \in RequestRecords /\ p.phase = q.phase /\ p.route = q.route
             /\ p.here = q.here /\ p.section = q.section /\ p.answer = q.answer
             /\ p.error = q.error /\ p.authenticated = q.authenticated
BY FailsFirst

\* What a handler returns is sent as it is, but for a page that is no page.
LEMMA Replies ==
  ASSUME NEW q
  PROVE  /\ q.route = "/system/status" =>
              /\ Reply(q, Success(200, "page")) = Sending(q, Success(200, "page"))
              /\ Reply(q, Success(200, "misfit")) = HandleError(q, Unserializable)
         /\ q.route = "/health" => \A type \in {"ok", "degraded"} :
              Reply(q, Success(HealthStatusCode(type), type))
                = Sending(q, Success(HealthStatusCode(type), type))
         /\ q.route = "other" =>
              Reply(q, Success(200, "plain")) = Sending(q, Success(200, "plain"))
<1>1. ASSUME NEW status, NEW type
      PROVE  Success(status, type).status = status /\ Success(status, type).type = type
  BY DEF Success, Answer
<1>2. /\ q.route = "/system/status" => "page" \in Declared(q.route, 200)
      /\ q.route = "/system/status" => "misfit" \notin Declared(q.route, 200)
      /\ q.route = "other" => "plain" \in Declared(q.route, 200)
  BY DEF Declared
<1>3. ASSUME NEW type \in {"ok", "degraded"}, q.route = "/health"
      PROVE  type \in Declared(q.route, HealthStatusCode(type))
  BY <1>3 DEF Declared, HealthStatusCode
<1>4. ASSUME NEW answer, answer.type \in Declared(q.route, answer.status)
      PROVE  Reply(q, answer) = Sending(q, answer)
  BY <1>4 DEF Reply
<1>5. q.route = "/system/status" =>
        Reply(q, Success(200, "misfit")) = HandleError(q, Unserializable)
  BY <1>1, <1>2 DEF Reply
<1>6. q.route = "/system/status" =>
        Reply(q, Success(200, "page")) = Sending(q, Success(200, "page"))
  BY <1>1, <1>2, <1>4
<1>7. q.route = "other" =>
        Reply(q, Success(200, "plain")) = Sending(q, Success(200, "plain"))
  BY <1>1, <1>2, <1>4
<1>8. ASSUME NEW type \in {"ok", "degraded"}, q.route = "/health"
      PROVE  Reply(q, Success(HealthStatusCode(type), type))
               = Sending(q, Success(HealthStatusCode(type), type))
  BY <1>1, <1>3, <1>4, <1>8
<1> QED
  BY <1>5, <1>6, <1>7, <1>8

\* A page is sent only of sections whose failures have reasons, and lost only
\* to a section that has none, or to its own schema.
LEMMA PageIs ==
  ASSUME NEW q, RequestInv(q), NEW p, q.phase = "handling", q.route = "/system/status",
         \/ Rethrown(q) /\ p = HandleError(Abandon(q), NoError)
         \/ /\ Settled(q) /\ ~Rethrown(q)
            /\ \E type \in {"page", "misfit"} : p = Reply(q, Success(200, type))
  PROVE  Sent(q, p)
<1>1. CASE Rethrown(q) /\ p = HandleError(Abandon(q), NoError)
  <2> DEFINE section == [s \in Sections |->
                           IF q.section[s].state = "waiting" THEN Idle ELSE q.section[s]]
             o == [q EXCEPT !.section = section]
  <2>1. Abandon(q) = o
    BY DEF Abandon
  <2>2. section \in [Sections -> Reads]
    <3>1. Idle \in Reads
      BY DEF Idle, Reads, OwnFailures
    <3> QED
      BY <3>1 DEF RequestInv, RequestRecords
  <2>3. \A s \in Sections : /\ section[s] \in {q.section[s], Idle}
                            /\ section[s].state # "waiting"
                            /\ q.section[s].state = "failed" => section[s] = q.section[s]
    BY DEF Idle
  <2> HIDE DEF section
  <2>4. /\ o \in RequestRecords /\ o.lines = q.lines /\ o.section = section
        /\ o.route = q.route /\ o.here = q.here
    BY <2>2 DEF RequestInv, RequestRecords
  <2> HIDE DEF o
  <2>5. /\ Answers(o, p) /\ p.answer = ErrorAnswer(MapError(NoError))
    BY <1>1, <2>1, <2>4, FreshErrors, HandlesError DEF RequestInv, LogInv
  <2>6. /\ p.phase = "sending" /\ p.route = q.route /\ p.here = q.here
        /\ p.section = section
    BY <2>4, <2>5 DEF Answers
  <2>7. Settled(p)
    BY <2>3, <2>6 DEF Settled
  <2>8. Rethrown(p)
    <3>1. PICK s \in Sections : ReasonOf(q, s) = "none"
      BY <1>1 DEF Rethrown
    <3>2. q.section[s].state = "failed"
      BY <3>1 DEF ReasonOf
    <3>3. ReasonOf(p, s) = "none"
      BY <2>3, <2>6, <3>1, <3>2 DEF ReasonOf
    <3> QED
      BY <3>3 DEF Rethrown
  <2>9. p.answer.type = "envelope"
    BY <2>5 DEF ErrorAnswer, Answer
  <2>10. PageInv(p)
    BY <2>6, <2>8, <2>9 DEF PageInv
  <2> QED
    BY <2>3, <2>6, <2>7, <2>10 DEF Sent
<1>2. CASE Settled(q) /\ ~Rethrown(q) /\ p = Reply(q, Success(200, "page"))
  <2>1. p = Sending(q, Success(200, "page"))
    BY <1>2, Replies
  <2>2. /\ p.phase = "sending" /\ p.answer = Success(200, "page") /\ p.route = q.route
        /\ p.here = q.here /\ p.section = q.section
    BY <2>1, SendingIs DEF RequestInv
  <2>3. Settled(p) /\ ~Rethrown(p)
    BY <1>2, <2>2 DEF Settled, Rethrown, ReasonOf
  <2>4. p.answer.status # 500
    BY <2>2 DEF Success, Answer
  <2>5. PageInv(p)
    BY <2>2, <2>3, <2>4 DEF PageInv
  <2> QED
    BY <2>2, <2>3, <2>5 DEF Sent
<1>3. CASE Settled(q) /\ p = Reply(q, Success(200, "misfit"))
  <2>1. p = HandleError(q, Unserializable)
    BY <1>3, Replies
  <2>2. /\ Answers(q, p) /\ p.error = Unserializable
        /\ p.answer = ErrorAnswer(MapError(Unserializable))
    BY <2>1, FreshErrors, HandlesError DEF RequestInv, LogInv
  <2>3. /\ p.phase = "sending" /\ p.route = q.route /\ p.here = q.here
        /\ p.section = q.section
    BY <2>2 DEF Answers
  <2>4. Settled(p)
    BY <1>3, <2>3 DEF Settled
  <2>5. p.answer.type = "envelope"
    BY <2>2 DEF ErrorAnswer, Answer
  <2>6. PageInv(p)
    BY <2>2, <2>3, <2>5 DEF PageInv
  <2> QED
    BY <2>3, <2>4, <2>6 DEF Sent
<1> QED
  BY <1>1, <1>2, <1>3

\* A read that outlasts its deadline, for one request.
TooLate(q, p) ==
  /\ q.phase = "handling"
  /\ \E s \in Sections :
       /\ q.section[s].state = "waiting"
       /\ p = [q EXCEPT !.section[s] = Failed("dependency", Named("DeadlineError"))]

Effect(q, p) ==
  Same(q, p) \/ HasEnded(q, p) \/ Streams(q, p) \/ Sent(q, p) \/ TooLate(q, p)

LEMMA HandlersDo ==
  ASSUME NEW r \in Clients, RequestInv(req[r]),
         PageEnds(r) \/ HealthEnds(r) \/ OtherEnds(r)
  PROVE  \E p : req' = [req EXCEPT ![r] = p] /\ Effect(req[r], p)
<1> DEFINE q == req[r]
<1>1. CASE PageEnds(r)
  BY <1>1, PageIs DEF PageEnds, Effect
<1>2. CASE HealthEnds(r)
  <2> DEFINE type == IF \A s \in SectionsOf("/health") : q.section[s].state = "ok"
                     THEN "ok" ELSE "degraded"
             answer == Success(HealthStatusCode(type), type)
             p == Sending(q, answer)
  <2>1. req' = [req EXCEPT ![r] = Reply(q, answer)] /\ q.phase = "handling"
        /\ q.route = "/health" /\ Settled(q)
    BY <1>2 DEF HealthEnds
  <2>2. type \in {"ok", "degraded"}
    OBVIOUS
  <2> HIDE DEF type
  <2>3. Reply(q, answer) = p
    BY <2>1, <2>2, Replies
  <2> HIDE DEF answer
  <2>4. /\ p.phase = "sending" /\ p.route = q.route /\ p.here = q.here
        /\ p.section = q.section
    BY SendingIs DEF RequestInv
  <2> HIDE DEF p
  <2>5. Settled(p) /\ PageInv(p)
    BY <2>1, <2>4 DEF Settled, PageInv
  <2>6. Sent(q, p)
    BY <2>1, <2>4, <2>5 DEF Sent
  <2> QED
    BY <2>1, <2>3, <2>6 DEF Effect
<1>3. CASE OtherEnds(r)
  <2>1. q.phase = "handling" /\ q.route = "other"
    BY <1>3 DEF OtherEnds
  <2>2. ASSUME NEW p, p.phase = "sending", p.route = q.route, p.here = q.here,
               p.section = q.section
        PROVE  Effect(q, p)
    BY <2>1, <2>2 DEF Effect, Sent, PageInv
  <2>3. ASSUME NEW e \in HandlerErrors
        PROVE  Effect(q, HandleError(q, e)) /\ Effect(q, HeadBreaks(HandleError(q, e)))
    <3> DEFINE p == HandleError(q, e)
               o == HeadBreaks(p)
    <3>1. e \in AllErrors
      BY RequestsAssumption DEF AllErrors
    <3>2. Answers(q, p)
      BY <2>1, <3>1, ErrorKeeps
    <3> HIDE DEF p
    <3>3. Answers(p, o)
      BY <3>2, FallsBack DEF Answers
    <3> HIDE DEF o
    <3>4. Effect(q, p)
      BY <2>2, <3>2 DEF Answers
    <3>5. Effect(q, o)
      BY <2>2, <3>2, <3>3 DEF Answers
    <3> QED
      BY <3>4, <3>5 DEF p, o
  <2>4. Effect(q, Reply(q, Success(200, "plain")))
    BY <2>1, <2>2, Replies, SendingIs DEF RequestInv
  <2>5. Effect(q, [q EXCEPT !.phase = "streaming", !.answer = Success(200, "stream")])
    <3> DEFINE p == [q EXCEPT !.phase = "streaming", !.answer = Success(200, "stream")]
    <3>1. /\ p.phase = "streaming" /\ p.route = q.route /\ p.section = q.section
          /\ p.here = q.here
      BY DEF RequestInv, RequestRecords
    <3> QED
      BY <2>1, <3>1 DEF Effect, Streams
  <2>6. CASE req' = [req EXCEPT ![r].phase = "streaming", ![r].answer = Success(200, "stream")]
    <3>1. req' = [req EXCEPT ![r] = [q EXCEPT !.phase = "streaming",
                                             !.answer = Success(200, "stream")]]
      BY <2>6
    <3> QED
      BY <2>5, <3>1
  <2> QED
    BY <1>3, <2>3, <2>4, <2>6 DEF OtherEnds
<1> QED
  BY <1>1, <1>2, <1>3

LEMMA EndsDo ==
  ASSUME NEW r \in Clients, RequestInv(req[r]),
         \/ Completes(r) \/ Breaks(r) \/ StreamFails(r) \/ ClientLeaves(r)
         \/ NeverFinishes(r) \/ Refused(r) \/ Flushed(r)
  PROVE  \E p : req' = [req EXCEPT ![r] = p] /\ Effect(req[r], p)
<1> DEFINE q == req[r]
<1>1. q \in RequestRecords /\ LogInv(q)
  BY DEF RequestInv
<1>2. ASSUME NEW o \in RequestRecords, LogInv(o), o.phase = "streaming",
             o.route = q.route, o.here => q.here, q.phase = "streaming",
             NEW phase \in {"broken", "left"}
      PROVE  HasEnded(q, Over(StreamError(o), phase))
  <2> DEFINE msg == IF o.here THEN "response stream failed" ELSE "stream closed prematurely"
             p == FailureLine(o, msg)
  <2>1. StreamError(o) = p
    BY <1>2 DEF StreamError, FailureLine, RawError, LogInv
  <2>2. msg \in FirstOnly
    BY DEF FirstOnly
  <2> HIDE DEF msg
  <2>3. p \in RequestRecords /\ p.route = o.route /\ p.here = o.here
    BY <1>2, <2>2, FailureLineIs
  <2> HIDE DEF p
  <2> QED
    BY <1>2, <2>1, <2>3, OverIs DEF HasEnded
<1>3. CASE Completes(r)
  <2>1. LogAccess(q) \in RequestRecords /\ LogAccess(q).route = q.route
        /\ LogAccess(q).here = q.here
    <3>1. "request completed" \in LineMessages
      BY DEF LineMessages
    <3>2. Write(q, "request completed", NoError) \in RequestRecords
      BY <1>1, <3>1, FreshErrors, Writes
    <3>3. /\ Write(q, "request completed", NoError).route = q.route
          /\ Write(q, "request completed", NoError).here = q.here
      BY <1>1 DEF Write, RequestRecords
    <3> QED
      BY <1>1, <3>2, <3>3 DEF LogAccess
  <2> DEFINE over == Over(q, "broken")
             done == Over(LogAccess(q), "done")
  <2>2. over.phase = "broken" /\ over.route = q.route /\ over.here = q.here
        /\ over.section = NothingRead
    BY <1>1, OverIs
  <2>3. done.phase = "done" /\ done.route = q.route /\ done.here = q.here
        /\ done.section = NothingRead
    BY <2>1, OverIs
  <2>4. q.phase \in {"sending", "streaming"}
        /\ (req' = [req EXCEPT ![r] = over] \/ req' = [req EXCEPT ![r] = done])
    BY <1>3 DEF Completes
  <2> HIDE DEF over, done
  <2>5. HasEnded(q, over) /\ HasEnded(q, done)
    BY <2>2, <2>3, <2>4 DEF HasEnded
  <2> QED
    BY <2>4, <2>5 DEF Effect
<1>4. CASE Breaks(r)
  <2> DEFINE o == FailureLine(q, "request errored")
             p == [o EXCEPT !.over = TRUE]
  <2>1. "request errored" \in FirstOnly
    BY DEF FirstOnly
  <2>2. /\ o \in RequestRecords /\ o.phase = q.phase /\ o.route = q.route
        /\ o.here = q.here /\ o.section = q.section /\ o.answer = q.answer
        /\ o.error = q.error /\ o.authenticated = q.authenticated
    BY <1>1, <1>4, <2>1, FailureLineIs DEF Breaks
  <2>3. req' = [req EXCEPT ![r] = p]
    BY <1>4 DEF Breaks
  <2> HIDE DEF o
  <2>4. Same(q, p)
    BY <2>2 DEF Same, RequestRecords
  <2> QED
    BY <2>3, <2>4 DEF Effect
<1>5. CASE StreamFails(r)
  <2>1. req' = [req EXCEPT ![r] = Over(StreamError(q), "broken")] /\ q.phase = "streaming"
    BY <1>5 DEF StreamFails
  <2> QED
    BY <1>1, <1>2, <2>1 DEF Effect
<1>6. CASE ClientLeaves(r)
  <2> DEFINE o == [q EXCEPT !.here = FALSE]
  <2>1. /\ o \in RequestRecords /\ LogInv(o) /\ Same(q, o) /\ ~o.here
    BY <1>1 DEF RequestRecords, Same, LogInv
  <2>2. req' = [req EXCEPT ![r] = IF o.phase = "streaming"
                                 THEN Over(StreamError(o), "left") ELSE o]
    BY <1>6 DEF ClientLeaves
  <2> HIDE DEF o
  <2>3. o.phase = "streaming" => HasEnded(q, Over(StreamError(o), "left"))
    BY <1>2, <2>1 DEF Same
  <2> QED
    BY <2>1, <2>2, <2>3 DEF Effect
<1>7. CASE NeverFinishes(r)
  <2> DEFINE over == Over(q, "left")
  <2>1. over.phase = "left" /\ over.route = q.route /\ over.here = q.here
        /\ over.section = NothingRead
    BY <1>1, OverIs
  <2>2. q.phase = "sending" /\ req' = [req EXCEPT ![r] = over]
    BY <1>7 DEF NeverFinishes
  <2> HIDE DEF over
  <2>3. HasEnded(q, over)
    BY <2>1, <2>2 DEF HasEnded
  <2> QED
    BY <2>2, <2>3 DEF Effect
<1>8. CASE Refused(r)
  <2> DEFINE told == [q EXCEPT !.refusals = Append(@, TooLarge)]
             closed == [told EXCEPT !.socket = "destroyed", !.here = FALSE]
             answering == [told EXCEPT !.socket = "answering"]
  <2>1. \/ /\ req' = [req EXCEPT ![r] = Over(StreamError(closed), "left")]
           /\ q.phase = "streaming"
        \/ req' = [req EXCEPT ![r] = closed]
        \/ req' = [req EXCEPT ![r] = answering]
    <3>1. CASE q.phase = "streaming"
      BY <1>8, <3>1 DEF Refused, TooLarge
    <3>2. CASE q.phase = "sending"
      BY <1>8, <3>2 DEF Refused, TooLarge
    <3>3. CASE q.phase \notin {"streaming", "sending"}
      BY <1>8, <3>3 DEF Refused, TooLarge
    <3> QED
      BY <3>1, <3>2, <3>3
  <2>2. Append(q.refusals, TooLarge) \in Seq({TooLarge})
    BY <1>1 DEF RequestRecords
  <2>3. told \in RequestRecords /\ LogInv(told) /\ Same(q, told)
    BY <1>1, <2>2 DEF RequestRecords, Same, LogInv
  <2> HIDE DEF told
  <2>4. closed \in RequestRecords /\ LogInv(closed) /\ Same(q, closed) /\ Same(q, answering)
    BY <2>3 DEF RequestRecords, Same, LogInv
  <2> HIDE DEF closed, answering
  <2>5. q.phase = "streaming" => HasEnded(q, Over(StreamError(closed), "left"))
    BY <1>2, <2>4 DEF Same
  <2> QED
    BY <2>1, <2>4, <2>5 DEF Effect
<1>9. CASE Flushed(r)
  <2> DEFINE p == [q EXCEPT !.socket = "destroyed", !.here = FALSE]
  <2>1. req' = [req EXCEPT ![r] = p]
    BY <1>9 DEF Flushed
  <2>2. Same(q, p)
    BY <1>1 DEF Same, RequestRecords
  <2> QED
    BY <2>1, <2>2 DEF Effect
<1> QED
  BY <1>3, <1>4, <1>5, <1>6, <1>7, <1>8, <1>9

LEMMA StepsDo ==
  ASSUME NEW r \in Clients, RequestInv(req[r]), RequestSteps(r)
  PROVE  \E p : req' = [req EXCEPT ![r] = p] /\ Effect(req[r], p)
<1>1. ASSUME NEW s \in Slow, Deadline(r, s)
      PROVE  \E p : req' = [req EXCEPT ![r] = p] /\ Effect(req[r], p)
  <2> DEFINE late == Failed("dependency", Named("DeadlineError"))
  <2>1. s \in Sections
    BY RequestsAssumption
  <2>2. /\ req' = [req EXCEPT ![r] = [req[r] EXCEPT !.section[s] = late]]
        /\ req[r].phase = "handling" /\ req[r].section[s].state = "waiting"
    BY <1>1 DEF Deadline
  <2> HIDE DEF late
  <2>3. TooLate(req[r], [req[r] EXCEPT !.section[s] = late])
    BY <2>1, <2>2 DEF TooLate, late
  <2> QED
    BY <2>2, <2>3 DEF Effect
<1> QED
  BY <1>1, HandlersDo, EndsDo DEF RequestSteps

-----------------------------------------------------------------------------
(* A clean stop *)

Gone == {"none", "done", "broken"}

\* A request that ended, or whose client went, is not taken up again.
LEMMA EffectKeepsGone ==
  ASSUME NEW q \in RequestRecords, NEW p, Effect(q, p), q.here => q.phase \in Gone
  PROVE  p.here => p.phase \in Gone
<1>1. CASE Same(q, p)
  BY <1>1 DEF Same
<1>2. CASE HasEnded(q, p) \/ Streams(q, p) \/ Sent(q, p)
  BY <1>2 DEF HasEnded, Streams, Sent, Gone
<1>3. CASE TooLate(q, p)
  <2>1. PICK s \in Sections :
          p = [q EXCEPT !.section[s] = Failed("dependency", Named("DeadlineError"))]
    BY <1>3 DEF TooLate
  <2>2. p.here = q.here
    BY <2>1 DEF RequestRecords
  <2> QED
    BY <1>3, <2>2 DEF TooLate, Gone
<1> QED
  BY <1>1, <1>2, <1>3 DEF Effect

\* Only the end of its own close settles the app, and that close has drained.
LEMMA AppSettles ==
  ASSUME RequestsInv, StopInv, [Next]_vars, stage'["app"] \in Stop!Answers,
         stage["app"] \notin Stop!Answers
  PROVE  /\ UNCHANGED reqVars
         /\ \A r \in Clients : req[r].here => req[r].phase \in Gone
<1>1. "closing" \notin Stop!Answers
  BY DEF Stop!Answers
<1>2. ~UNCHANGED stage
  OBVIOUS
<1>3. ~(UNCHANGED vars \/ Listens \/ RequestArrives \/ ReadEnds \/ RequestStep)
  BY <1>2 DEF vars, stopVars, Listens, RequestArrives, ReadEnds, RequestStep
<1>4. ~(Compose \/ ListenFails \/ Sigterm)
  BY <1>2, CallOnlyBlames DEF Compose, ListenFails, Sigterm, stopVars
<1>5. ~StopEnds
  BY <1>2 DEF StopEnds, Stop!PlanEnds, Stop!DeadlineFires, Stop!Exit, Stop!planVars
<1>6. ~StageBegins
  <2> SUFFICES ASSUME StageBegins PROVE FALSE
    OBVIOUS
  <2>1. PICK q, k : Stop!CloseBegins(q, k)
    BY DEF StageBegins
  <2>2. stage' = [stage EXCEPT ![q[k]] = "closing"]
    BY <2>1, PlanOfApi
  <2> QED
    BY <1>1, <2>2 DEF StopInv, Stages
<1>7. StageEnds
  BY <1>3, <1>4, <1>5, <1>6 DEF Next
<1>8. PICK s \in Stages : (s = "app" => Drained) /\ Stop!CloseEnds(s)
  BY <1>7 DEF StageEnds
<1>9. s = "app"
  BY <1>8 DEF Stop!CloseEnds, StopInv, Stages
<1>10. Drained /\ UNCHANGED reqVars
  BY <1>7, <1>8, <1>9 DEF StageEnds
<1> QED
  BY <1>10 DEF Drained, RequestsInv, RequestInv, Gone

LEMMA DrainInvStep ==
  ASSUME RequestsInv, StopInv, DrainInv, [Next]_vars
  PROVE  DrainInv'
<1> SUFFICES ASSUME stage'["app"] \in Stop!Answers, NEW r \in Clients
             PROVE  req'[r].here => req'[r].phase \in Gone
  BY DEF DrainInv, Gone, Stop!Answers
<1>1. CASE stage["app"] \notin Stop!Answers
  BY <1>1, AppSettles DEF reqVars
<1>2. CASE stage["app"] \in Stop!Answers
  <2>1. req[r].here => req[r].phase \in Gone
    BY <1>2 DEF DrainInv, Gone
  <2>2. req[r] \in RequestRecords
    BY DEF RequestsInv
  <2>3. CASE UNCHANGED req
    BY <2>1, <2>3
  <2>4. CASE RequestArrives
    <3>1. "waiting" \notin Stop!Answers /\ "closing" \notin Stop!Answers
      BY DEF Stop!Answers
    <3> QED
      BY <1>2, <2>4, <3>1 DEF RequestArrives
  <2>5. CASE ReadEnds
    <3>1. PICK s \in Sections :
            \E outcome :
              req' = [c \in Clients |->
                        IF req[c].section[s].state = "waiting"
                        THEN [req[c] EXCEPT !.section[s] = outcome] ELSE req[c]]
      BY <2>5 DEF ReadEnds, FlightEnds
    <3>2. req'[r].here = req[r].here /\ req'[r].phase = req[r].phase
      BY <2>2, <3>1 DEF RequestRecords
    <3> QED
      BY <2>1, <3>2
  <2>6. CASE RequestStep
    <3>1. PICK c \in Clients : RequestSteps(c)
      BY <2>6 DEF RequestStep
    <3>2. PICK p : req' = [req EXCEPT ![c] = p] /\ Effect(req[c], p)
      BY <3>1, StepsDo DEF RequestsInv
    <3>3. CASE c = r
      <4>1. req'[r] = p
        BY <3>2, <3>3 DEF RequestsInv
      <4> QED
        BY <2>1, <2>2, <3>2, <3>3, <4>1, EffectKeepsGone
    <3>4. CASE c # r
      BY <2>1, <3>2, <3>4
    <3> QED
      BY <3>3, <3>4
  <2> QED
    BY <2>3, <2>4, <2>5, <2>6
       DEF Next, vars, reqVars, Compose, Listens, ListenFails, Sigterm, StageBegins,
           StageEnds, StopEnds
<1> QED
  BY <1>1, <1>2

\* What the stop and the requests know of each other.
ProcessInv == RequestsInv /\ StopInv /\ DrainInv

LEMMA ProcessStarts == ASSUME Init PROVE ProcessInv
<1>1. RequestsInv
  BY StartsWithNone DEF Init
<1>2. stage = [s \in Stages |-> "waiting"] /\ step = 1 /\ code = -1 /\ exitCode = -1
  BY DEF Init, Stop!Init, Stop!NoCode
<1>3. "waiting" \in Stop!Phases /\ "waiting" \notin Stop!Answers
  BY DEF Stop!Phases, Stop!Answers
<1> QED
  BY <1>1, <1>2, <1>3 DEF ProcessInv, StopInv, DrainInv, Stages

LEMMA ProcessInvStep == ASSUME ProcessInv, [Next]_vars PROVE ProcessInv'
BY RequestsInvStep, StopInvStep, DrainInvStep DEF ProcessInv

(***************************************************************************)
(* A stop that exits with 0 cut nobody off: the verdict 0 is given only at *)
(* the end of the plan, whose first step closed the app, and that close    *)
(* waits for every connection (shutdown.ts, server.ts).                    *)
(***************************************************************************)
THEOREM CleanStopAlwaysAnswers == Spec => []CleanStopAnswers
<1>1. Init => ProcessInv
  BY ProcessStarts
<1>2. ProcessInv /\ [Next]_vars => ProcessInv'
  BY ProcessInvStep
<1>3. ProcessInv => CleanStopAnswers
  BY DEF ProcessInv, StopInv, DrainInv, CleanStopAnswers
<1> QED
  BY <1>1, <1>2, <1>3, PTL DEF Spec

-----------------------------------------------------------------------------
(* What the page says of a dependency *)

\* What is known of the outages of a deployment: the code of a failure tells
\* a fault of the dependency from a defect of this service.
OutagesNamed ==
  \A s \in Sections : \A o \in Outages[s] :
    /\ o.cause \in {"dependency", "service"}
    /\ o.cause = "service" <=> DependencyFailureCode(o.failure) = "none"

\* It is known of the outages of the run, among them the read-only server
\* (25006), whose class alone would make it a defect.
LEMMA FailuresAreToldApart ==
  /\ \A f \in {Sqlstate("25", "25006"), Said("Command timed out"), Coded("ECONNREFUSED")} :
       DependencyFailureCode(f) # "none"
  /\ \A f \in {Sqlstate("42", "42883"), Named("QueueCountersError")} :
       DependencyFailureCode(f) = "none"
<1> USE DEF ConnectionFailure, SocketFailureCodes, RedisDownMessages, Failure
<1>1. DependencyFailureCode(Said("Command timed out")) = "timeout"
  BY DEF Said, DependencyFailureCode
<1>2. DependencyFailureCode(Coded("ECONNREFUSED")) = "unreachable"
  BY DEF Coded, DependencyFailureCode
<1>3. DependencyFailureCode(Named("QueueCountersError")) = "none"
  BY DEF Named, DependencyFailureCode, PostgresUnreachableCodes
<1>4. ASSUME NEW class, NEW state, state \notin SocketFailureCodes,
             state \notin PostgresUnreachableCodes
      PROVE  DependencyFailureCode(Sqlstate(class, state)) =
               PostgresFailureCode(Sqlstate(class, state))
  BY <1>4 DEF Sqlstate, DependencyFailureCode
<1>5. PostgresFailureCode(Sqlstate("25", "25006")) = "error"
  BY DEF Sqlstate, PostgresFailureCode, NamedStates, NotMigratedStates, RefusedStates,
         UnreachableStates, TimeoutStates, ServerStates
<1>6. PostgresFailureCode(Sqlstate("42", "42883")) = "none"
  BY DEF Sqlstate, PostgresFailureCode, NamedStates, NotMigratedStates, RefusedStates,
         UnreachableStates, TimeoutStates, ServerStates, RefusedClasses,
         UnreachableClasses, DefectClasses
<1> QED
  BY <1>1, <1>2, <1>3, <1>4, <1>5, <1>6 DEF PostgresUnreachableCodes

PagesInv == \A r \in Clients : ReadInv(req[r]) /\ PageInv(req[r])

LEMMA StatesOfReads ==
  /\ Idle.state = "idle" /\ Waiting.state = "waiting" /\ Read.state = "ok"
  /\ Idle.cause = "none" /\ Waiting.cause = "none" /\ Read.cause = "none"
  /\ Idle # Waiting
  /\ NothingRead = [s \in Sections |-> Idle]
BY DEF Idle, Waiting, Read, NothingRead, NoRequest

\* The failures of our own making are failures of a dependency all the same.
LEMMA OwnFailuresAreNamed ==
  /\ DependencyFailureCode(Named("DeadlineError")) = "timeout"
  /\ DependencyFailureCode(Named("ProbeClosedError")) = "error"
  /\ DependencyFailureCode(Said("Connection is closed.")) = "unreachable"
<1>1. /\ Named("DeadlineError").name = "DeadlineError"
      /\ Named("ProbeClosedError").name = "ProbeClosedError"
      /\ Said("Connection is closed.").name = "Error"
      /\ Said("Connection is closed.").code = ""
      /\ Said("Connection is closed.").message = "Connection is closed."
  BY DEF Named, Said, Failure
<1>2. ConnectionFailure(Said("Connection is closed.")) = "unreachable"
  BY <1>1 DEF ConnectionFailure, SocketFailureCodes, RedisDownMessages
<1> QED
  BY <1>1, <1>2 DEF DependencyFailureCode

\* Only a request whose handler runs waits for a read.
LEMMA WaitsHandling ==
  ASSUME NEW q \in RequestRecords, ReadInv(q), NEW s \in Sections,
         q.section[s].state = "waiting"
  PROVE  q.phase = "handling" /\ s \in SectionsOf(q.route)
BY StatesOfReads DEF ReadInv, Settled, NothingRead

\* A read settles.
LEMMA SectionSettles ==
  ASSUME NEW q \in RequestRecords, ReadInv(q), PageInv(q), NEW s \in Sections,
         q.section[s].state = "waiting", NEW o \in Reads, SectionInv(q, o)
  PROVE  ReadInv([q EXCEPT !.section[s] = o]) /\ PageInv([q EXCEPT !.section[s] = o])
<1> DEFINE p == [q EXCEPT !.section[s] = o]
<1>1. /\ p.phase = q.phase /\ p.route = q.route /\ p.here = q.here
      /\ p.authenticated = q.authenticated
      /\ p.section[s] = o
      /\ \A t \in Sections \ {s} : p.section[t] = q.section[t]
  BY DEF RequestRecords
<1>2. q.phase = "handling" /\ s \in SectionsOf(q.route)
  BY WaitsHandling
<1> HIDE DEF p
<1>3. ASSUME NEW t \in Sections PROVE SectionInv(p, p.section[t])
  <2>1. SectionInv(q, p.section[t])
    BY <1>1 DEF ReadInv
  <2> QED
    BY <1>1, <2>1 DEF SectionInv
<1>4. ReadInv(p)
  BY <1>1, <1>2, <1>3 DEF ReadInv
<1>5. PageInv(p)
  BY <1>1, <1>2 DEF PageInv
<1> QED
  BY <1>4, <1>5 DEF p

LEMMA EffectKeepsPages ==
  ASSUME NEW q \in RequestRecords, ReadInv(q), PageInv(q), NEW p, Effect(q, p)
  PROVE  ReadInv(p) /\ PageInv(p)
<1>1. ASSUME NEW o, SectionInv(q, o), p.here => q.here
      PROVE  SectionInv(p, o)
  BY <1>1 DEF SectionInv
<1>2. CASE Same(q, p)
  <2>1. \A s \in Sections : SectionInv(p, p.section[s])
    BY <1>1, <1>2 DEF Same, ReadInv
  <2>2. ReadInv(p)
    BY <1>2, <2>1 DEF Same, ReadInv, Settled
  <2>3. PageInv(p)
    BY <1>2 DEF Same, PageInv, Rethrown, ReasonOf
  <2> QED
    BY <2>2, <2>3
<1>3. CASE HasEnded(q, p)
  <2>1. \A s \in Sections : p.section[s] = Idle
    BY <1>3, StatesOfReads DEF HasEnded
  <2> QED
    BY <1>3, <2>1 DEF HasEnded, ReadInv, PageInv, SectionInv, NothingRead
<1>4. CASE Streams(q, p)
  <2>1. SectionsOf(q.route) = {}
    BY <1>4 DEF Streams, SectionsOf
  <2>2. \A s \in Sections : q.section[s] = Idle
    BY <2>1 DEF ReadInv
  <2>3. q.section = NothingRead
    BY <2>2, StatesOfReads DEF RequestRecords
  <2> QED
    BY <1>4, <2>1, <2>2, <2>3 DEF Streams, ReadInv, PageInv, SectionInv, NothingRead
<1>5. CASE Sent(q, p)
  <2>1. \A s \in Sections : p.section[s] \in {q.section[s], Idle}
    BY <1>5 DEF Sent
  <2>2. \A s \in Sections : SectionInv(p, p.section[s])
    <3> SUFFICES ASSUME NEW s \in Sections PROVE SectionInv(p, p.section[s])
      OBVIOUS
    <3>1. CASE p.section[s] = Idle
      BY <3>1 DEF SectionInv
    <3>2. CASE p.section[s] = q.section[s]
      BY <1>1, <1>5, <3>2 DEF Sent, ReadInv
    <3> QED
      BY <2>1, <3>1, <3>2
  <2>3. Settled(p)
    <3>1. CASE q.route = "other"
      <4>1. SectionsOf(q.route) = {}
        BY <3>1 DEF SectionsOf
      <4>2. \A s \in Sections : p.section[s] = Idle
        BY <2>1, <4>1 DEF ReadInv
      <4> QED
        BY <4>2, StatesOfReads DEF Settled
    <3> QED
      BY <1>5, <3>1 DEF Sent
  <2>4. \A s \in Sections \ SectionsOf(p.route) : p.section[s] = Idle
    BY <1>5, <2>1 DEF Sent, ReadInv
  <2> QED
    BY <1>5, <2>2, <2>3, <2>4 DEF Sent, ReadInv
<1>6. CASE TooLate(q, p)
  <2> DEFINE late == Failed("dependency", Named("DeadlineError"))
  <2>1. PICK s \in Sections : /\ q.section[s].state = "waiting"
                              /\ p = [q EXCEPT !.section[s] = late]
    BY <1>6 DEF TooLate
  <2>2. SectionInv(q, late) /\ late \in Reads
    BY OwnFailuresAreNamed DEF SectionInv, Failed, Reads, OwnFailures
  <2> HIDE DEF late
  <2> QED
    BY <2>1, <2>2, SectionSettles
<1> QED
  BY <1>2, <1>3, <1>4, <1>5, <1>6 DEF Effect

-----------------------------------------------------------------------------
(* An arrival *)

\* Refused by a hook, or handed to its handler, with its password if it needs one.
Turned(q, p) ==
  /\ p.route = q.route /\ p.phase = "sending" /\ p.section = q.section
  /\ p.route = "/system/status" => p.authenticated # "yes"
Begun(q, p) ==
  /\ p.route = q.route /\ p.phase = "handling"
  /\ p.section = [s \in Sections |-> IF s \in SectionsOf(q.route) THEN Waiting ELSE Idle]
  /\ p.route = "/system/status" => p.authenticated = "yes"

LEMMA HooksDo ==
  ASSUME NEW q, Fresh(q), q.authenticated = "no", NEW closing \in BOOLEAN,
         NEW right \in BOOLEAN
  PROVE  LET p == OnRequest(q, closing, right) IN Turned(q, p) \/ Begun(q, p)
<1> DEFINE o == [q EXCEPT !.authenticated = "yes"]
<1>1. Fresh(o) /\ o.route = q.route /\ o.section = q.section /\ o.authenticated = "yes"
  BY DEF Fresh, RequestRecords
<1>2. ASSUME NEW e \in {ServiceClosing, Unauthorized}
      PROVE  Turned(q, HandleError(q, e))
  <2>1. Answers(q, HandleError(q, e)) /\ HandleError(q, e).authenticated = "no"
    BY FreshLog, FreshErrors, HandlesError DEF Fresh
  <2> QED
    BY <2>1 DEF Answers, Turned
<1>3. ASSUME NEW x, Fresh(x), x.route = q.route,
             x.route = "/system/status" => x.authenticated = "yes"
      PROVE  Begun(q, HandlerBegins(x))
  <2> DEFINE section == [s \in Sections |->
                           IF s \in SectionsOf(x.route) THEN Waiting ELSE Idle]
  <2>1. HandlerBegins(x) = [x EXCEPT !.phase = "handling", !.section = section]
    BY DEF HandlerBegins
  <2> HIDE DEF section
  <2>2. /\ HandlerBegins(x).route = x.route /\ HandlerBegins(x).phase = "handling"
        /\ HandlerBegins(x).section = section
        /\ HandlerBegins(x).authenticated = x.authenticated
    BY <1>3, <2>1 DEF Fresh, RequestRecords
  <2> QED
    BY <1>3, <2>2 DEF Begun, section
<1>4. ASSUME q.route = "unknown" PROVE Turned(q, NotFound(o))
  <2> DEFINE mapped == ClientError(404)
             l == LogRejection(o)
  <2>1. mapped \in MappedErrors
    BY DEF MappedErrors
  <2>2. NotFound(o) = Sending(l, ErrorAnswer(mapped))
    BY <2>1, SendsError DEF NotFound
  <2>3. NoError \in AllErrors /\ "request rejected" \in LineMessages
    BY FreshErrors DEF LineMessages, Verdicts
  <2>4. l \in RequestRecords /\ l.route = o.route /\ l.section = o.section
    <3>1. l \in RequestRecords
      BY <1>1, <2>3, Writes DEF LogRejection, Fresh
    <3>2. l.route = o.route /\ l.section = o.section
      BY <1>1 DEF LogRejection, Told, Write, Fresh, RequestRecords
    <3> QED
      BY <3>1, <3>2
  <2> HIDE DEF mapped, l, o
  <2>5. /\ NotFound(o).phase = "sending" /\ NotFound(o).route = l.route
        /\ NotFound(o).section = l.section
    BY <2>2, <2>4, SendingIs
  <2> QED
    BY <1>1, <1>4, <2>4, <2>5 DEF Turned
<1> HIDE DEF o
<1>5. CASE closing \/ (~closing /\ q.route \notin PublicRoutes /\ ~right)
  <2>1. OnRequest(q, closing, right) \in {HandleError(q, ServiceClosing),
                                          HandleError(q, Unauthorized)}
    BY <1>5 DEF OnRequest
  <2> QED
    BY <1>2, <2>1
<1>6. CASE ~closing /\ q.route \in PublicRoutes
  <2>1. OnRequest(q, closing, right) = HandlerBegins(q)
    BY <1>6 DEF OnRequest
  <2> QED
    BY <1>3, <1>6, <2>1 DEF PublicRoutes
<1>7. CASE ~closing /\ q.route \notin PublicRoutes /\ right
  <2>1. OnRequest(q, closing, right) =
          IF q.route = "unknown" THEN NotFound(o) ELSE HandlerBegins(o)
    BY <1>7 DEF OnRequest, o
  <2> QED
    BY <1>1, <1>3, <1>4, <2>1
<1> QED
  BY <1>5, <1>6, <1>7

LEMMA RouterDoes ==
  ASSUME NEW q, Fresh(q), q.route = "bad url", NEW status \in RouterStatuses
  PROVE  Turned(q, FrameworkError(q, status))
<1> DEFINE e == Thrown("other", status)
           mapped == MapFrameworkError(status)
           o == [q EXCEPT !.authenticated = "absent", !.error = e]
           p == Sending(LogError(o, e, mapped), ErrorAnswer(mapped))
<1>1. e \in AllErrors /\ mapped \in MappedErrors
  BY FreshErrors DEF MappedErrors
<1>2. FrameworkError(q, status) = p
  BY DEF FrameworkError
<1> HIDE DEF e, mapped
<1>3. Fresh(o) /\ o.error = e /\ o.route = q.route /\ o.section = q.section
  BY <1>1 DEF Fresh, RequestRecords
<1> HIDE DEF o
<1>4. Answers(o, p)
  BY <1>1, <1>3, FreshLog, LogsAndSends DEF Fresh
<1> HIDE DEF p
<1> QED
  BY <1>2, <1>3, <1>4 DEF Answers, Turned

LEMMA TurnedOrBegunKeeps ==
  ASSUME NEW q, q.section = NothingRead, NEW p, Turned(q, p) \/ Begun(q, p)
  PROVE  ReadInv(p) /\ PageInv(p)
<1>1. CASE Turned(q, p)
  <2>1. \A s \in Sections : p.section[s] = Idle
    BY <1>1, StatesOfReads DEF Turned
  <2>2. Settled(p)
    BY <2>1, StatesOfReads DEF Settled
  <2> QED
    BY <1>1, <2>1, <2>2 DEF Turned, ReadInv, PageInv, SectionInv
<1>2. CASE Begun(q, p)
  <2>1. \A s \in Sections : p.section[s] = IF s \in SectionsOf(p.route) THEN Waiting ELSE Idle
    BY <1>2 DEF Begun
  <2> QED
    BY <1>2, <2>1 DEF Begun, ReadInv, PageInv, SectionInv
<1> QED
  BY <1>1, <1>2

LEMMA ArrivesKeepsPages ==
  ASSUME RequestsInv, PagesInv, NEW r \in Clients, NEW closing \in BOOLEAN,
         Arrive(r, closing)
  PROVE  PagesInv'
<1>1. PICK route \in RoutesOf[r] :
        LET q == [req[r] EXCEPT !.route = route]
        IN  \/ /\ route = "bad url"
               /\ \E status \in RouterStatuses :
                    req' = [req EXCEPT ![r] = FrameworkError(q, status)]
            \/ /\ route # "bad url"
               /\ \E right \in BOOLEAN :
                    req' = [req EXCEPT ![r] = OnRequest(q, closing, right)]
  BY DEF Arrive
<1> DEFINE q == [req[r] EXCEPT !.route = route]
<1>2. req[r] = NoRequest /\ req[r] \in RequestRecords
  BY DEF RequestsInv, RequestInv, Arrive
<1>3. Fresh(q) /\ q.route = route /\ q.section = NothingRead /\ q.authenticated = "no"
  <2>1. route \in AllRoutes
    BY DEF AllRoutes
  <2>2. /\ NoRequest.lines = <<>> /\ NoRequest.refusals = <<>>
        /\ ~NoRequest.told /\ ~NoRequest.over /\ NoRequest.here
        /\ NoRequest.section = NothingRead /\ NoRequest.authenticated = "no"
    BY DEF NoRequest, NothingRead
  <2> QED
    BY <1>2, <2>1, <2>2 DEF Fresh, RequestRecords
<1>4. \E p : (Turned(q, p) \/ Begun(q, p)) /\ req' = [req EXCEPT ![r] = p]
  <2>1. CASE route = "bad url"
    <3>1. PICK status \in RouterStatuses :
            req' = [req EXCEPT ![r] = FrameworkError(q, status)]
      BY <1>1, <2>1
    <3> HIDE DEF q
    <3> QED
      BY <1>3, <2>1, <3>1, RouterDoes
  <2>2. CASE route # "bad url"
    <3>1. PICK right \in BOOLEAN :
            req' = [req EXCEPT ![r] = OnRequest(q, closing, right)]
      BY <1>1, <2>2
    <3> HIDE DEF q
    <3>2. LET p == OnRequest(q, closing, right) IN Turned(q, p) \/ Begun(q, p)
      BY <1>3, HooksDo
    <3> QED
      BY <3>1, <3>2
  <2> QED
    BY <2>1, <2>2
<1> HIDE DEF q
<1>5. PICK p : /\ ReadInv(p) /\ PageInv(p)
               /\ req' = [req EXCEPT ![r] = p]
  BY <1>3, <1>4, TurnedOrBegunKeeps
<1> QED
  BY <1>5 DEF PagesInv, RequestsInv

-----------------------------------------------------------------------------
(* An answer of a dependency *)

\* Nobody who is still there waits for a read the stop has broken off: what it
\* reads from is closed only after the app.
LEMMA OutcomesAreTrue ==
  ASSUME OutagesNamed, ProcessInv, NEW r \in Clients, ReadInv(req[r]),
         NEW s \in Sections, req[r].section[s].state = "waiting",
         NEW o \in ReadOutcomes(s)
  PROVE  SectionInv(req[r], o)
<1>1. req[r] \in RequestRecords
  BY DEF ProcessInv, RequestsInv
<1>2. ASSUME NEW d \in {"db", "redis"}, stage[d] # "waiting" PROVE ~req[r].here
  <2>1. stage["app"] \in Stop!Answers
    BY <1>2 DEF ProcessInv, StopInv
  <2>2. req[r].phase = "handling"
    BY <1>1, WaitsHandling
  <2> QED
    BY <2>1, <2>2 DEF ProcessInv, DrainInv
<1>3. DependencyOf(s) \in {"db", "redis"}
  BY DEF DependencyOf
<1>4. CASE stage[DependencyOf(s)] # "waiting"
  <2>1. ~req[r].here
    BY <1>2, <1>3, <1>4
  <2>2. o \in {Failed("stop", Named("ProbeClosedError")),
               Failed("stop", Said("Connection is closed."))}
    BY <1>3, <1>4 DEF ReadOutcomes
  <2>3. \A failure : /\ Failed("stop", failure).state = "failed"
                     /\ Failed("stop", failure).cause = "stop"
                     /\ Failed("stop", failure).failure = failure
    BY DEF Failed
  <2> QED
    BY <2>1, <2>2, <2>3, OwnFailuresAreNamed DEF SectionInv
<1>5. CASE stage[DependencyOf(s)] = "waiting"
  <2>1. o \in {Read} \cup {Failed(x.cause, x.failure) : x \in Outages[s]}
    BY <1>3, <1>5 DEF ReadOutcomes
  <2>2. CASE o = Read
    BY <2>2 DEF SectionInv
  <2>3. ASSUME NEW x \in Outages[s], o = Failed(x.cause, x.failure)
        PROVE  SectionInv(req[r], o)
    <3>1. o.state = "failed" /\ o.cause = x.cause /\ o.failure = x.failure
      BY <2>3 DEF Failed
    <3> QED
      BY <3>1 DEF OutagesNamed, SectionInv
  <2> QED
    BY <2>1, <2>2, <2>3
<1> QED
  BY <1>4, <1>5

LEMMA FlightKeepsPages ==
  ASSUME OutagesNamed, ProcessInv, PagesInv, NEW s \in Sections,
         FlightEnds(s, ReadOutcomes(s))
  PROVE  PagesInv'
<1>1. PICK outcome \in ReadOutcomes(s) :
        req' = [r \in Clients |-> IF req[r].section[s].state = "waiting"
                                  THEN [req[r] EXCEPT !.section[s] = outcome] ELSE req[r]]
  BY DEF FlightEnds
<1>2. ASSUME NEW r \in Clients PROVE ReadInv(req'[r]) /\ PageInv(req'[r])
  <2>1. req[r] \in RequestRecords /\ ReadInv(req[r]) /\ PageInv(req[r])
    BY DEF ProcessInv, RequestsInv, PagesInv
  <2>2. CASE req[r].section[s].state = "waiting"
    <3>1. req'[r] = [req[r] EXCEPT !.section[s] = outcome]
      BY <1>1, <2>2
    <3>2. outcome \in Reads
      BY OutcomesAreReads
    <3>3. SectionInv(req[r], outcome)
      BY <2>1, <2>2, OutcomesAreTrue
    <3>4. /\ ReadInv([req[r] EXCEPT !.section[s] = outcome])
          /\ PageInv([req[r] EXCEPT !.section[s] = outcome])
      BY <2>1, <2>2, <3>2, <3>3, SectionSettles
    <3> QED
      BY <3>1, <3>4
  <2>3. CASE req[r].section[s].state # "waiting"
    BY <1>1, <2>1, <2>3
  <2> QED
    BY <2>2, <2>3
<1> QED
  BY <1>2 DEF PagesInv

LEMMA PagesInvStep ==
  ASSUME OutagesNamed, ProcessInv, PagesInv, [Next]_vars
  PROVE  PagesInv'
<1>1. CASE UNCHANGED req
  BY <1>1 DEF PagesInv
<1>2. CASE RequestArrives
  <2>1. PICK r \in Clients : Arrive(r, Closing)
    BY <1>2 DEF RequestArrives
  <2> QED
    BY <2>1, ArrivesKeepsPages DEF ProcessInv, Closing
<1>3. CASE ReadEnds
  BY <1>3, FlightKeepsPages DEF ReadEnds
<1>4. CASE RequestStep
  <2>1. PICK r \in Clients : RequestSteps(r)
    BY <1>4 DEF RequestStep
  <2>2. PICK p : req' = [req EXCEPT ![r] = p] /\ Effect(req[r], p)
    BY <2>1, StepsDo DEF ProcessInv, RequestsInv
  <2>3. ReadInv(p) /\ PageInv(p)
    BY <2>2, EffectKeepsPages DEF ProcessInv, RequestsInv, PagesInv
  <2> QED
    BY <2>2, <2>3 DEF PagesInv, ProcessInv, RequestsInv
<1> QED
  BY <1>1, <1>2, <1>3, <1>4
     DEF Next, vars, reqVars, Compose, Listens, ListenFails, Sigterm, StageBegins,
         StageEnds, StopEnds

LEMMA PagesStart == ASSUME Init PROVE PagesInv
<1>1. \A r \in Clients : req[r] = NoRequest
  BY DEF Init, ReqInit
<1>2. /\ NoRequest.phase = "none" /\ NoRequest.section = NothingRead
      /\ NoRequest.route = "none"
  BY DEF NoRequest, NothingRead
<1>3. ReadInv(NoRequest) /\ PageInv(NoRequest)
  <2>1. \A s \in Sections : NoRequest.section[s] = Idle
    BY <1>2, StatesOfReads
  <2> QED
    BY <1>2, <2>1 DEF ReadInv, PageInv, SectionInv
<1> QED
  BY <1>1, <1>3 DEF PagesInv

-----------------------------------------------------------------------------
(* The page *)

\* A section of a page that is no defect failed by a fault of its dependency,
\* or not at all.
LEMMA PageReasons ==
  ASSUME NEW q, ReadInv(q), q.here, ~Rethrown(q), NEW s \in Sections
  PROVE  /\ q.section[s].cause \in {"none", "dependency"}
         /\ ReasonOf(q, s) # "read" <=> q.section[s].cause = "dependency"
         /\ ReasonOf(q, s) \in DOMAIN Certainty \cup {"read"}
<1>1. SectionInv(q, q.section[s])
  BY DEF ReadInv
<1>2. ReasonOf(q, s) # "none"
  BY DEF Rethrown
<1>3. DOMAIN Certainty = {"not_migrated", "refused", "unreachable", "error", "timeout"}
  BY DEF Certainty
<1>4. \A f : DependencyFailureCode(f) \in DOMAIN Certainty \cup {"none"}
  <2>1. ASSUME NEW f PROVE ConnectionFailure(f) \in {"unreachable", "timeout", "none"}
    BY DEF ConnectionFailure
  <2>2. ASSUME NEW f
        PROVE  PostgresFailureCode(f) \in {"not_migrated", "refused", "unreachable",
                                           "timeout", "error", "none"}
    BY DEF PostgresFailureCode, NamedStates
  <2>3. ASSUME NEW f PROVE DependencyFailureCode(f) \in DOMAIN Certainty \cup {"none"}
    <3>1. ConnectionFailure(f) \in DOMAIN Certainty \cup {"none"}
      BY <1>3, <2>1
    <3>2. PostgresFailureCode(f) \in DOMAIN Certainty \cup {"none"}
      BY <1>3, <2>2
    <3>3. {"timeout", "error", "unreachable"} \subseteq DOMAIN Certainty
      BY <1>3
    <3> QED
      BY <3>1, <3>2, <3>3 DEF DependencyFailureCode
  <2> QED
    BY <2>3
<1>5. CASE q.section[s].state = "failed"
  <2>1. ReasonOf(q, s) = DependencyFailureCode(q.section[s].failure)
    BY <1>5 DEF ReasonOf
  <2>2. q.section[s].cause = "dependency"
    BY <1>1, <1>2, <1>5, <2>1, StatesOfReads DEF SectionInv
  <2> QED
    BY <1>2, <1>3, <1>4, <2>1, <2>2
<1>6. CASE q.section[s].state # "failed"
  <2>1. ReasonOf(q, s) = "read"
    BY <1>6 DEF ReasonOf
  <2>2. q.section[s].cause = "none"
    BY <1>1, <1>6, StatesOfReads DEF SectionInv
  <2> QED
    BY <2>1, <2>2
<1> QED
  BY <1>5, <1>6

\* Of any reasons there is a most certain one, so any reason shows.
LEMMA AnyReasonShows ==
  ASSUME NEW reasons \in SUBSET DOMAIN Certainty
  PROVE  DependencyCheck(reasons) # "up" <=> reasons # {}
<1>1. /\ DOMAIN Certainty = {"not_migrated", "refused", "unreachable", "error", "timeout"}
      /\ Certainty["not_migrated"] = 5 /\ Certainty["refused"] = 4
      /\ Certainty["unreachable"] = 3 /\ Certainty["error"] = 2 /\ Certainty["timeout"] = 1
  BY DEF Certainty
<1>2. ASSUME reasons # {}
      PROVE  \E r \in reasons : \A s \in reasons : Certainty[r] >= Certainty[s]
  <2>1. CASE "not_migrated" \in reasons
    BY <1>1, <2>1
  <2>2. CASE "not_migrated" \notin reasons /\ "refused" \in reasons
    BY <1>1, <2>2
  <2>3. CASE reasons \subseteq {"unreachable", "error", "timeout"} /\ "unreachable" \in reasons
    BY <1>1, <2>3
  <2>4. CASE reasons \subseteq {"error", "timeout"} /\ "error" \in reasons
    BY <1>1, <2>4
  <2>5. CASE reasons = {"timeout"}
    BY <1>1, <2>5
  <2> QED
    BY <1>1, <1>2, <2>1, <2>2, <2>3, <2>4, <2>5
<1>3. reasons # {} => DependencyCheck(reasons) \in reasons
  BY <1>2 DEF DependencyCheck
<1> QED
  BY <1>1, <1>3 DEF DependencyCheck

(***************************************************************************)
(* The page a client reads says that a dependency is down exactly when a   *)
(* read of it failed by a fault of that dependency, never for a stop of    *)
(* this service nor for a defect of it, and it is lost only to a defect -  *)
(* given that the code of each failure tells the two apart, as those of    *)
(* the run do: FailuresAreToldApart (system-status.ts).                    *)
(***************************************************************************)
THEOREM PageAlwaysBlamesTruly ==
  ASSUME OutagesNamed
  PROVE  Spec => []PageBlamesTruly
<1> DEFINE Inv == ProcessInv /\ PagesInv
<1>1. Init => Inv
  BY ProcessStarts, PagesStart
<1>2. Inv /\ [Next]_vars => Inv'
  BY ProcessInvStep, PagesInvStep
<1>3. Inv => PageBlamesTruly
  <2> SUFFICES ASSUME PagesInv, NEW r \in Clients, req[r].route = "/system/status",
                      req[r].phase = "sending", req[r].here,
                      req[r].authenticated = "yes"
               PROVE  /\ req[r].answer.type = "page" =>
                           \A d \in {"db", "redis"} :
                             /\ Check(req[r], d) # "up" <=> "dependency" \in Causes(req[r], d)
                             /\ "stop" \notin Causes(req[r], d)
                      /\ req[r].answer.status = 500 =>
                           \/ req[r].error = Unserializable
                           \/ "service" \in Causes(req[r], "db") \cup Causes(req[r], "redis")
    BY DEF PageBlamesTruly
  <2> DEFINE q == req[r]
  <2>1. ReadInv(q) /\ PageInv(q)
    BY DEF PagesInv
  <2>2. SectionsOf(q.route) \subseteq Sections
    BY DEF SectionsOf, Sections
  <2> HIDE DEF q
  <2>3. ASSUME q.answer.type = "page", NEW d \in {"db", "redis"}
        PROVE  /\ Check(q, d) # "up" <=> "dependency" \in Causes(q, d)
               /\ "stop" \notin Causes(q, d)
    <3> DEFINE used == {x \in SectionsOf(q.route) : DependencyOf(x) = d}
               reasons == {ReasonOf(q, s) : s \in used} \ {"read"}
    <3>1. ~Rethrown(q)
      BY <2>1, <2>3 DEF PageInv, q
    <3>2. \A s \in used : /\ q.section[s].cause \in {"none", "dependency"}
                          /\ ReasonOf(q, s) # "read" <=> q.section[s].cause = "dependency"
                          /\ ReasonOf(q, s) \in DOMAIN Certainty \cup {"read"}
      BY <2>1, <2>2, <3>1, PageReasons DEF q
    <3>3. Check(q, d) = DependencyCheck(reasons)
      BY DEF Check
    <3>4. Causes(q, d) = {q.section[s].cause : s \in used}
      BY DEF Causes
    <3> HIDE DEF used
    <3>5. reasons \in SUBSET DOMAIN Certainty
      BY <3>2
    <3>6. reasons # {} <=> \E s \in used : q.section[s].cause = "dependency"
      BY <3>2
    <3> HIDE DEF reasons
    <3> QED
      BY <3>2, <3>3, <3>4, <3>5, <3>6, AnyReasonShows
  <2>4. ASSUME q.answer.status = 500, Rethrown(q)
        PROVE  "service" \in Causes(q, "db") \cup Causes(q, "redis")
    <3>1. PICK s \in Sections : ReasonOf(q, s) = "none"
      BY <2>4 DEF Rethrown
    <3>2. /\ q.section[s].state = "failed"
          /\ DependencyFailureCode(q.section[s].failure) = "none"
      BY <3>1 DEF ReasonOf
    <3>3. q.section[s].cause = "service" /\ s \in SectionsOf(q.route)
      BY <2>1, <3>2, StatesOfReads DEF ReadInv, SectionInv
    <3>4. DependencyOf(s) \in {"db", "redis"}
      BY DEF DependencyOf
    <3> QED
      BY <3>3, <3>4 DEF Causes
  <2> QED
    BY <2>1, <2>3, <2>4 DEF PageInv, q
<1> QED
  BY <1>1, <1>2, <1>3, PTL DEF Spec
=============================================================================
