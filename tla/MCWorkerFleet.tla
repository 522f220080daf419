---------------------------- MODULE MCWorkerFleet ----------------------------
(* Two workers, two releases: the second renames a queue, and declares one  *)
(* schedule of its own where the first has filled a page with others.       *)
EXTENDS WorkerFleet

MCRegistry == <<<<"heartbeat", "radar">>, <<"heartbeat", "scout">>>>
MCDeclares == [v \in {1, 2} |-> [q \in Queues |->
                 IF q # Heartbeat THEN {} ELSE IF v = 1 THEN {1, 3} ELSE {2}]]
MCStrays == [q \in Queues |-> IF q = Heartbeat THEN <<1, 3>> ELSE <<>>]
=============================================================================
