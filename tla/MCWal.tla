------------------------------- MODULE MCWal -------------------------------
(* Instances of Wal for TLC.  Entries are interchangeable: only the order   *)
(* in which the channel takes them matters, and that is in the state.      *)
EXTENDS Wal, TLC

EntrySymmetry == Permutations(Entries)
=============================================================================
