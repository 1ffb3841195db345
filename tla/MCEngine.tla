------------------------------ MODULE MCEngine ------------------------------
(* Small instances of the engine.  The hash spreads the tasks of a workflow *)
(* over partitions by their clock reading, as FNV-1a of the id does.        *)
EXTENDS Engine

CONSTANTS w1, w2, p1, r1, r2, e1

MCHash == [id \in TaskIDs |-> id[2]]
=============================================================================
