----------------------------- MODULE AuthState -----------------------------
(* The replicated authentication state of a cluster: the tokens and the RBAC *)
(* entities that ClusterFSM holds, the command each Raft entry carries, what *)
(* applying it does, and what a snapshot keeps of it.                        *)
(* internal/cluster/raft/{fsm,fsm_rbac}.go.  The module has no variables:    *)
(* Apply is a function of the state, the entry and its index.                *)
EXTENDS Naturals, FiniteSets, Functions

CONSTANTS
    Names,              \* names of tokens, organizations and teams
    Creds,              \* a token's hash and prefix, as one value
    Patterns,           \* DatabasePattern of a role
    Empty               \* the empty name

ASSUME AuthConstants == Empty \notin Names

Put(f, k, v) == [x \in DOMAIN f \cup {k} |-> IF x = k THEN v ELSE f[x]]
Drop(f, ks) == Restrict(f, DOMAIN f \ ks)
Nothing == [x \in {} |-> x]

(* Six primary maps from an entry's id, then the secondary indices.  A map   *)
(* to maps or to sets, whose inner maps are dropped when they empty, is a    *)
(* map from pairs or a relation.                                             *)
InitAuth ==
    [tokens |-> Nothing, orgs |-> Nothing, teams |-> Nothing, roles |-> Nothing,
     mperms |-> Nothing, members |-> Nothing,
     tokensByName |-> Nothing, tokensByPrefix |-> {}, orgsByName |-> Nothing,
     teamsByOrg |-> Nothing, rolesByTeam |-> {}, mpermsByRole |-> {},
     byPair |-> Nothing, byToken |-> {}, byTeam |-> {}]

Tables == {"tokens", "orgs", "teams", "roles", "mperms", "members"}
Primaries(s) == [t \in Tables |-> s[t]]

---------------------------------------------------------------------------
(* The commands.  Accepts: the checks a handler makes before it changes      *)
(* state; a command that fails one, or whose entry is gone, does nothing.    *)

AcceptsToken(s, c) ==
    CASE c.op = "CreateToken" -> c.name # Empty /\ c.name \notin DOMAIN s.tokensByName
      [] c.op = "UpdateToken" ->
            /\ c.id \in DOMAIN s.tokens
            /\ c.name \in DOMAIN s.tokensByName => s.tokensByName[c.name] = c.id
      [] OTHER -> c.id \in DOMAIN s.tokens

AcceptsOrg(s, c) ==
    CASE c.op = "CreateOrg" -> c.name \notin DOMAIN s.orgsByName
      [] c.op = "UpdateOrg" ->
            /\ c.id \in DOMAIN s.orgs
            /\ c.name # s.orgs[c.id].name => c.name \notin DOMAIN s.orgsByName
      [] OTHER -> c.id \in DOMAIN s.orgs

AcceptsTeam(s, c) ==
    CASE c.op = "CreateTeam" ->
            /\ c.org \in DOMAIN s.orgs
            /\ <<c.org, c.name>> \notin DOMAIN s.teamsByOrg
      [] c.op = "UpdateTeam" ->
            /\ c.id \in DOMAIN s.teams
            /\ c.name # s.teams[c.id].name =>
                    <<s.teams[c.id].org, c.name>> \notin DOMAIN s.teamsByOrg
      [] OTHER -> c.id \in DOMAIN s.teams

AcceptsRole(s, c) == IF c.op = "CreateRole" THEN c.team \in DOMAIN s.teams
                                           ELSE c.id \in DOMAIN s.roles

AcceptsMPerm(s, c) == IF c.op = "CreateMPerm" THEN c.role \in DOMAIN s.roles
                                             ELSE c.id \in DOMAIN s.mperms

AcceptsMember(s, c) ==
    IF c.op = "AddMember"
    THEN /\ c.token \in DOMAIN s.tokens /\ c.team \in DOMAIN s.teams
         /\ <<c.token, c.team>> \notin DOMAIN s.byPair
    ELSE <<c.token, c.team>> \in DOMAIN s.byPair

TokenOps == {"CreateToken", "UpdateToken", "RevokeToken", "RotateToken", "DeleteToken"}
OrgOps == {"CreateOrg", "UpdateOrg", "DeleteOrg"}
TeamOps == {"CreateTeam", "UpdateTeam", "DeleteTeam"}
RoleOps == {"CreateRole", "UpdateRole", "DeleteRole"}
MPermOps == {"CreateMPerm", "DeleteMPerm"}
MemberOps == {"AddMember", "RemoveMember"}

Accepts(s, c) ==
    CASE c.op \in TokenOps -> AcceptsToken(s, c)
      [] c.op \in OrgOps -> AcceptsOrg(s, c)
      [] c.op \in TeamOps -> AcceptsTeam(s, c)
      [] c.op \in RoleOps -> AcceptsRole(s, c)
      [] c.op \in MPermOps -> AcceptsMPerm(s, c)
      [] c.op \in MemberOps -> AcceptsMember(s, c)

---------------------------------------------------------------------------
(* What an accepted command does.  The id of a new entry is the log index.   *)

CreateToken(s, c, i) ==
    [s EXCEPT !.tokens = Put(@, i, [name |-> c.name, cred |-> c.cred, on |-> TRUE]),
              !.tokensByPrefix = @ \cup {<<c.cred, i>>},
              !.tokensByName = Put(@, c.name, i)]

UpdateToken(s, c) ==
    [s EXCEPT !.tokens[c.id].name = c.name,
              !.tokensByName = Put(Drop(@, {s.tokens[c.id].name}), c.name, c.id)]

RevokeToken(s, c) == [s EXCEPT !.tokens[c.id].on = FALSE]

RotateToken(s, c) ==
    [s EXCEPT !.tokens[c.id].cred = c.cred,
              !.tokensByPrefix = (@ \ {<<s.tokens[c.id].cred, c.id>>}) \cup {<<c.cred, c.id>>}]

\* The memberships ms leave the primary map and the three indices.
DropMembers(s, ms) ==
    [s EXCEPT !.members = Drop(@, ms),
              !.byPair = Drop(@, {<<s.members[m].token, s.members[m].team>> : m \in ms}),
              !.byToken = @ \ {<<s.members[m].token, m>> : m \in ms},
              !.byTeam = @ \ {<<s.members[m].team, m>> : m \in ms}]

MembersOf(s, index, keys) == {p[2] : p \in {q \in index : q[1] \in keys}} \cap DOMAIN s.members

DeleteToken(s, c) ==
    LET d == DropMembers(s, MembersOf(s, s.byToken, {c.id})) IN
    [d EXCEPT !.tokens = Drop(@, {c.id}),
              !.tokensByPrefix = @ \ {<<s.tokens[c.id].cred, c.id>>},
              !.tokensByName = Drop(@, {s.tokens[c.id].name}),
              !.byToken = {p \in @ : p[1] # c.id}]

CreateOrg(s, c, i) ==
    [s EXCEPT !.orgs = Put(@, i, [name |-> c.name]), !.orgsByName = Put(@, c.name, i)]

UpdateOrg(s, c) ==
    [s EXCEPT !.orgs[c.id].name = c.name,
              !.orgsByName = Put(Drop(@, {s.orgs[c.id].name}), c.name, c.id)]

\* cascadeDeleteRoleLocked, and the roles themselves
DropRoles(s, rs) ==
    LET ps == {p[2] : p \in {q \in s.mpermsByRole : q[1] \in rs}} IN
    [s EXCEPT !.roles = Drop(@, rs), !.mperms = Drop(@, ps),
              !.mpermsByRole = {q \in @ : q[1] \notin rs}]

\* cascadeDeleteTeamLocked for each team of ts, and the teams themselves
DropTeams(s, ts) ==
    LET r == DropRoles(s, {p[2] : p \in {q \in s.rolesByTeam : q[1] \in ts}})
        d == DropMembers(r, MembersOf(r, r.byTeam, ts))
    IN  [d EXCEPT !.teams = Drop(@, ts), !.rolesByTeam = {q \in @ : q[1] \notin ts},
                  !.byTeam = {q \in @ : q[1] \notin ts}]

DeleteOrg(s, c) ==
    LET ts == {s.teamsByOrg[k] : k \in {k \in DOMAIN s.teamsByOrg : k[1] = c.id}}
        d == DropTeams(s, ts)
    IN  [d EXCEPT !.orgs = Drop(@, {c.id}), !.orgsByName = Drop(@, {s.orgs[c.id].name}),
                  !.teamsByOrg = Drop(@, {k \in DOMAIN @ : k[1] = c.id})]

CreateTeam(s, c, i) ==
    [s EXCEPT !.teams = Put(@, i, [org |-> c.org, name |-> c.name]),
              !.teamsByOrg = Put(@, <<c.org, c.name>>, i)]

UpdateTeam(s, c) ==
    LET t == s.teams[c.id] IN
    [s EXCEPT !.teams[c.id].name = c.name,
              !.teamsByOrg = Put(Drop(@, {<<t.org, t.name>>}), <<t.org, c.name>>, c.id)]

DeleteTeam(s, c) ==
    LET t == s.teams[c.id] IN
    [DropTeams(s, {c.id}) EXCEPT !.teamsByOrg = Drop(@, {<<t.org, t.name>>})]

CreateRole(s, c, i) ==
    [s EXCEPT !.roles = Put(@, i, [team |-> c.team, pat |-> c.pat]),
              !.rolesByTeam = @ \cup {<<c.team, i>>}]

UpdateRole(s, c) == [s EXCEPT !.roles[c.id].pat = c.pat]

DeleteRole(s, c) ==
    [DropRoles(s, {c.id}) EXCEPT !.rolesByTeam = @ \ {<<s.roles[c.id].team, c.id>>}]

CreateMPerm(s, c, i) ==
    [s EXCEPT !.mperms = Put(@, i, [role |-> c.role]),
              !.mpermsByRole = @ \cup {<<c.role, i>>}]

DeleteMPerm(s, c) ==
    [s EXCEPT !.mperms = Drop(@, {c.id}), !.mpermsByRole = @ \ {<<s.mperms[c.id].role, c.id>>}]

AddMember(s, c, i) ==
    [s EXCEPT !.members = Put(@, i, [token |-> c.token, team |-> c.team]),
              !.byPair = Put(@, <<c.token, c.team>>, i),
              !.byToken = @ \cup {<<c.token, i>>}, !.byTeam = @ \cup {<<c.team, i>>}]

RemoveMember(s, c) == DropMembers(s, {s.byPair[<<c.token, c.team>>]})

Effect(s, c, i) ==
    CASE c.op = "CreateToken" -> CreateToken(s, c, i)
      [] c.op = "UpdateToken" -> UpdateToken(s, c)
      [] c.op = "RevokeToken" -> RevokeToken(s, c)
      [] c.op = "RotateToken" -> RotateToken(s, c)
      [] c.op = "DeleteToken" -> DeleteToken(s, c)
      [] c.op = "CreateOrg" -> CreateOrg(s, c, i)
      [] c.op = "UpdateOrg" -> UpdateOrg(s, c)
      [] c.op = "DeleteOrg" -> DeleteOrg(s, c)
      [] c.op = "CreateTeam" -> CreateTeam(s, c, i)
      [] c.op = "UpdateTeam" -> UpdateTeam(s, c)
      [] c.op = "DeleteTeam" -> DeleteTeam(s, c)
      [] c.op = "CreateRole" -> CreateRole(s, c, i)
      [] c.op = "UpdateRole" -> UpdateRole(s, c)
      [] c.op = "DeleteRole" -> DeleteRole(s, c)
      [] c.op = "CreateMPerm" -> CreateMPerm(s, c, i)
      [] c.op = "DeleteMPerm" -> DeleteMPerm(s, c)
      [] c.op = "AddMember" -> AddMember(s, c, i)
      [] c.op = "RemoveMember" -> RemoveMember(s, c)

Apply(s, c, i) == IF Accepts(s, c) THEN Effect(s, c, i) ELSE s
=============================================================================
