----------------------------- MODULE MCShutdown -----------------------------
(* The plan of the api, the one with branches, under the worker's answer to  *)
(* a repeated Ctrl+C: the handler takes the two independently.  The worker's *)
(* plan, one stage after the other, is run by WorkerProcess.                 *)
EXTENDS Shutdown

\* apps/api/src/compose-app.ts: the app, then two branches side by side.
ApiStages == {"app", "db", "queues", "redis"}
ApiPlan == <<{<<"app">>}, {<<"db">>, <<"queues", "redis">>}>>

\* Signals say nothing of a failure; the process calls when its start failed.
SignalsAndFailedStart ==
  {[signal |-> "SIGINT", failed |-> FALSE],
   [signal |-> "SIGTERM", failed |-> FALSE],
   [signal |-> "internal", failed |-> TRUE]}
=============================================================================
