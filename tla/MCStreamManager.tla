--------------------------- MODULE MCStreamManager ---------------------------
(* Two stream goroutines.  Backoffs 4, 6, 9, 10 reach the cap in three dials. *)
EXTENDS StreamManager

\* DefaultStreamConfig: BackoffMultiplier is 1.5.
MCGrown == [b \in InitialBackoff..MaxBackoff |-> (b * 3) \div 2]
=============================================================================
