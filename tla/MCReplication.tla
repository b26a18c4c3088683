--------------------------- MODULE MCReplication ---------------------------
(* Replication for TLC. *)
EXTENDS Replication
CONSTANTS r1, r2
=============================================================================
