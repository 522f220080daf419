------------------------------ MODULE ProbeDb ------------------------------
(***************************************************************************)
(* The bounded database handle of a probe: createProbeDb of                *)
(* packages/db/src/probe.ts.                                               *)
(*                                                                         *)
(* Time passes in ticks, and a timer that is due fires before the next     *)
(* one.  The driver and Postgres are external: one connection per client,  *)
(* opened for the first query, which answers the queries in their order,   *)
(* and which may be refused, lost, or left half-open - where nothing ever   *)
(* answers, and nothing fails.                                             *)
(***************************************************************************)
EXTENDS Integers, Sequences, FiniteSets, SequencesExt

CONSTANTS
  Callers,         \* concurrent users of the handle
  Clients,         \* slots for clients: the current one and those being ended
  Limit,           \* limitMs
  StatementLimit,  \* statementTimeoutMs: of a statement, and of a connect
  CloseBound       \* timeoutSec of close()

\* createProbeDb refuses bounds that are not positive, or not in this order.
ASSUME ProbeAssumption ==
  /\ IsFiniteSet(Clients) /\ Cardinality(Clients) > 1
  /\ {Limit, StatementLimit, CloseBound} \subseteq Nat \ {0}
  /\ StatementLimit < Limit
  /\ 0 \notin Clients

VARIABLES
  client,    \* each slot: unused, unconnected, connected, half-open, being ended
  current,
  queue,     \* the queries given to the current client, in order
  spent,     \* how long the connect, or the first query, has taken
  call,      \* the latest call of each caller
  closing,
  closeAge   \* how long close() has waited for the current client

probeVars == <<client, current, queue, spent, call, closing, closeAge>>

\* The client of a call that waits on none.
None == 0

ProbeInit ==
  /\ call = [c \in Callers |-> [state |-> "idle", on |-> None, age |-> 0]]
  /\ \E first \in Clients :
       /\ current = first
       /\ client = [k \in Clients |-> IF k = first THEN "fresh" ELSE "unused"]
  /\ queue = <<>> /\ spent = 0
  /\ closing = "no" /\ closeAge = 0

Waiting == {c \in Callers : call[c].state = "waiting"}

\* The calls that end, each with its outcome; a call settles once.
Settle(cs, outcome) ==
  [c \in Callers |-> IF c \in cs \cap Waiting
                     THEN [state |-> outcome, on |-> None, age |-> 0] ELSE call[c]]

-----------------------------------------------------------------------------
(* run *)

Run(c) ==
  /\ c \notin Waiting
  /\ IF closing # "no"
     THEN /\ call' = [call EXCEPT ![c].state = "closed"]
          /\ UNCHANGED queue
     ELSE /\ call' = [call EXCEPT ![c] =
               [state |-> "waiting", on |-> current, age |-> 0]]
          /\ queue' = Append(queue, c)
  /\ UNCHANGED <<client, current, spent, closing, closeAge>>

\* destroy: every call on the client is refused, and a new client takes its
\* place before the old one is on its way down.
Destroy_Fault(db) ==
  /\ call' = Settle({c \in Callers : call[c].on = db /\ call[c].age = Limit}, "limit")
  /\ \E new \in Clients :
       /\ client[new] = "unused"
       /\ current' = new
       /\ client' = [client EXCEPT ![db] = "ending", ![new] = "fresh"]
  /\ queue' = <<>> /\ spent' = 0
Destroy_Leave(db) ==
  /\ call' = Settle({c \in Callers : call[c].on = db}, "limit")
  /\ UNCHANGED <<client, current, queue, spent>>
Destroy(db) ==
  /\ call' = Settle({c \in Callers : call[c].on = db}, "limit")
  /\ IF db = current
     THEN /\ \E new \in Clients :
               /\ client[new] = "unused"
               /\ current' = new
               /\ client' = [client EXCEPT ![db] = "ending", ![new] = "fresh"]
          /\ queue' = <<>> /\ spent' = 0
     ELSE UNCHANGED <<client, current, queue, spent>>

\* close() disarms the limits of the calls in flight.
Armed(c) == c \in Waiting /\ closing = "no"

LimitFires(c) ==
  /\ Armed(c) /\ call[c].age = Limit
  /\ Destroy(call[c].on)
  /\ UNCHANGED <<closing, closeAge>>

DestroyedEnds(k) ==
  /\ client[k] = "ending"
  /\ client' = [client EXCEPT ![k] = "unused"]
  /\ UNCHANGED <<current, queue, spent, call, closing, closeAge>>

-----------------------------------------------------------------------------
(* close *)

CloseHandle ==
  /\ closing = "no"
  /\ closing' = "current"
  /\ UNCHANGED <<client, current, queue, spent, call, closeAge>>

\* closeDb: once its queries are answered, or at its bound.  The driver rejects
\* what it cuts; what waits on anything else stays unanswered.
CurrentEnds ==
  /\ closing = "current"
  /\ queue = <<>> \/ closeAge = CloseBound
  /\ closing' = "destroyed"
  /\ client' = [client EXCEPT ![current] = "unused"]
  /\ \E cut \in SUBSET Range(queue) : call' = Settle(cut, "failed")
  /\ queue' = <<>> /\ spent' = 0 /\ closeAge' = 0
  /\ UNCHANGED current

\* Settled with the destroyed clients, and whatever is left is refused.
CloseOver_Fault ==
  /\ closing = "destroyed"
  /\ closing' = "over"
  /\ call' = Settle(Callers, "closed")
  /\ UNCHANGED <<client, current, queue, spent, closeAge>>
CloseOver_Quiet ==
  /\ closing = "destroyed"
  /\ \A k \in Clients : client[k] # "ending"
  /\ closing' = "over"
  /\ UNCHANGED <<client, current, queue, spent, call, closeAge>>
CloseOver ==
  /\ closing = "destroyed"
  /\ \A k \in Clients : client[k] # "ending"
  /\ closing' = "over"
  /\ call' = Settle(Callers, "closed")
  /\ UNCHANGED <<client, current, queue, spent, closeAge>>

-----------------------------------------------------------------------------
(* The driver and Postgres *)

Open == closing \in {"no", "current"}

Connects ==
  /\ Open /\ queue # <<>> /\ client[current] = "fresh"
  /\ client' = [client EXCEPT ![current] = "up"]
  /\ spent' = 0
  /\ UNCHANGED <<current, queue, call, closing, closeAge>>

\* A connect or a statement ends: the statement with its answer or a failure,
\* the connect with a failure.
FirstEnds(outcome) ==
  /\ Open /\ queue # <<>>
  /\ client[current] \in (IF outcome = "answered" THEN {"up"} ELSE {"fresh", "up"})
  /\ call' = Settle({Head(queue)}, outcome)
  /\ queue' = Tail(queue) /\ spent' = 0
  /\ UNCHANGED <<client, current, closing, closeAge>>

ConnectionLost ==
  /\ Open /\ client[current] \in {"up", "silent"}
  /\ client' = [client EXCEPT ![current] = "fresh"]
  /\ call' = Settle(Range(queue), "failed")
  /\ queue' = <<>> /\ spent' = 0
  /\ UNCHANGED <<current, closing, closeAge>>

GoesSilent ==
  /\ Open /\ client[current] = "up"
  /\ client' = [client EXCEPT ![current] = "silent"]
  /\ UNCHANGED <<current, queue, spent, call, closing, closeAge>>

\* The bound of the session: what a statement_timeout in the DSN would replace,
\* were it not taken out of the url.
ServerBound == StatementLimit

Underway == Open /\ queue # <<>> /\ client[current] \in {"fresh", "up"}

Tick ==
  /\ \A c \in Callers : Armed(c) => call[c].age < Limit
  /\ Underway => spent < ServerBound
  /\ closing = "current" => closeAge < CloseBound /\ queue # <<>>
  /\ call' = [c \in Callers |-> IF Armed(c) THEN [call[c] EXCEPT !.age = @ + 1]
                                            ELSE call[c]]
  /\ spent' = IF Underway THEN spent + 1 ELSE spent
  /\ closeAge' = IF closing = "current" THEN closeAge + 1 ELSE closeAge
  /\ UNCHANGED <<client, current, queue, closing>>

-----------------------------------------------------------------------------

\* What the handle does, and what happens to it; HealthProbe composes them with
\* its callers.
Handle ==
  \/ \E c \in Callers : LimitFires(c)
  \/ \E k \in Clients : DestroyedEnds(k)
  \/ CurrentEnds \/ CloseOver

Outside == Connects \/ FirstEnds("answered") \/ FirstEnds("failed")
           \/ ConnectionLost \/ GoesSilent

-----------------------------------------------------------------------------
(* What the handle promises *)

\* A call only ever waits on the client that is there now: no call is left
\* behind on a client a limit has taken down.
WaitsOnCurrent == \A c \in Waiting : call[c].on = current

\* From the first line of close() on no limit speaks and no client is opened:
\* the query in flight has the whole bound of the stop.  When close() answers,
\* every client is gone, the destroyed ones too.
CloseKeepsItsWord ==
  /\ [][closing # "no" =>
         /\ current' = current
         /\ \A c \in Callers : call'[c].state = "limit" => call[c].state = "limit"]_probeVars
  /\ [](closing = "over" => \A k \in Clients : client[k] = "unused")

\* Every call ends, however silent the database, and across a close.
CallsSettle == \A c \in Callers : c \in Waiting ~> c \notin Waiting
=============================================================================
