--------------------------- MODULE MCWorkerProcess ---------------------------
(* Two queues; the heartbeat and a job of the other queue, two attempts each. *)
EXTENDS WorkerProcess

MCQueues == {"system.heartbeat", "radar.run"}
MCJobs == {"beat", "run"}
MCQueueOf == [j \in MCJobs |-> IF j = "beat" THEN "system.heartbeat"
                                              ELSE "radar.run"]
=============================================================================
