---------------------------- MODULE MCAuthCaches ----------------------------
(* Instances of AuthCaches for TLC. *)
EXTENDS AuthCaches, TLC

CONSTANTS t1, r1, r2, w1

\* A token that grants nothing of itself, in use or yet to be created.
SomeRows == {[state |-> state, rotations |-> 0, grants |-> FALSE, life |-> "endless"] :
               state \in {"none", "on"}}

\* The whole chain; a team without a role or a member; nothing.
Chain == [org |-> "on", team |-> "on", members |-> {t1}, role |-> "grants", mperm |-> "other"]
SomeTables == {Chain,
               [Chain EXCEPT !.mperm = "none", !.role = "none", !.members = {}],
               [org |-> "none", team |-> "none", members |-> {}, role |-> "none", mperm |-> "none"]}
===========================================================================
