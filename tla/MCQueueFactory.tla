--------------------------- MODULE MCQueueFactory ---------------------------
(* Two names and one reader; enough objects for a name to be refused twice. *)
EXTENDS QueueFactory, TLC

CONSTANTS n1, n2, r1
=============================================================================
