------------------------------ MODULE MCAuth -------------------------------
(* Instances of AuthReplica for TLC.                                         *)
EXTENDS AuthReplica

\* One entity of every kind, each below the one before.
FullSeed == <<[op |-> "CreateToken", name |-> "a", cred |-> "k1"],
              [op |-> "CreateOrg", name |-> "a"],
              [op |-> "CreateTeam", org |-> 2, name |-> "a"],
              [op |-> "CreateRole", team |-> 3, pat |-> "p"],
              [op |-> "CreateMPerm", role |-> 4],
              [op |-> "AddMember", token |-> 1, team |-> 3]>>

TokenFamily == TokenOps \cup MemberOps
RBACFamily == OrgOps \cup TeamOps \cup RoleOps \cup MPermOps
BothFamilies == {TokenFamily, RBACFamily}
=============================================================================
