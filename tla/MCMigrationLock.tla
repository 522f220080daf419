-------------------------- MODULE MCMigrationLock --------------------------
(* The Compose service and a developer at its side, each with a session of  *)
(* its own; one of them may hold the lock before its run.                   *)
EXTENDS MigrationLock

MCRunners == {"compose", "developer"}
=============================================================================
