--------------------------- MODULE MCHealthProbe ---------------------------
(* Two polls at a time that share the call of "ping", a healthcheck and a  *)
(* browser, and a call of its own; room for two clients still being ended. *)
EXTENDS HealthProbe

MCCallers == {"ping", "caps"}
MCPolls == {"healthcheck", "browser"}
=============================================================================
