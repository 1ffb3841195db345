-------------------------- MODULE MCWriteAheadLog --------------------------
(* The log alone, with callers that append, checkpoint and close freely. *)
EXTENDS WriteAheadLog
=============================================================================
