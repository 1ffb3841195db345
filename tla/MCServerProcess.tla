--------------------------- MODULE MCServerProcess ---------------------------
(* One gateway or one orchestrator. *)
EXTENDS ServerProcess
=============================================================================
