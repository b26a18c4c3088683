--------------------------- MODULE MCCompaction ----------------------------
(* Instances of Compaction for TLC.                                          *)
EXTENDS Compaction
=============================================================================
