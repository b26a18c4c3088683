------------------------------ MODULE MCLease ------------------------------
(* Instances of CompactorLease for TLC.                                      *)
EXTENDS CompactorLease

\* The node that joins later is a RoleCompactor.
SomeLayouts == {Nodes \ {First}}
=============================================================================
