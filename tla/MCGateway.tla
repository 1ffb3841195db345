------------------------------ MODULE MCGateway ------------------------------
(* One client beside workers, a dispatcher and an engine that fails. *)
EXTENDS Gateway, TLC

CONSTANTS w1, p1, r1, r2, e1

MCHash == [id \in TaskIDs |-> id[2]]

\* Nothing tells one result from another but their equality.
ResultSymmetry == Permutations({r1, r2})

\* After Close nothing reads the entries: no step of the gateway, and no property.
OpenLog == <<IF closed THEN <<>> ELSE entries, sequence, committed, closed,
             engineVars, rd, serviceVars, sent>>
=============================================================================
