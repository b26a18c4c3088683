---------------------------- MODULE MCSchedulers ----------------------------
(* Schedulers for TLC. *)
EXTENDS Schedulers
CONSTANTS q1, c1, c2, x1
=============================================================================
