------------------------- MODULE MCPartitionManager -------------------------
(* Two managers and three nodes; five partitions are no multiple of two or  *)
(* of three nodes.                                                          *)
EXTENDS PartitionManager
=============================================================================
