---------------------------- MODULE MCSmokeRun -----------------------------
(* The stages smoke.ts stops in; two clients stand for one stage each.     *)
EXTENDS SmokeRun

MCStages == {"events", "queues", "redis", "eventsConnection"}
=============================================================================
