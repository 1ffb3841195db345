------------------------------ MODULE MCWorker ------------------------------
(* A worker whose streams break and are replaced. *)
EXTENDS Worker

\* DefaultStreamConfig: BackoffMultiplier is 1.5.
MCGrown == [b \in InitialBackoff..MaxBackoff |-> (b * 3) \div 2]
=============================================================================
