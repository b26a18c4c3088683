---------------------------- MODULE AuthReplica ----------------------------
(* One node of the cluster and the Raft log it applies: the node's copy of   *)
(* the authentication state (ClusterFSM), its snapshot, and the SQLite       *)
(* tables that the FSM's callbacks keep as a mirror and that every request   *)
(* is checked against.  cluster/raft/fsm.go (Snapshot, Restore),             *)
(* auth/cluster_apply.go, auth/cluster_rbac_apply.go, the wiring in main.go. *)
(* The rest of the cluster is the sequence of committed entries.             *)
EXTENDS AuthState, Sequences

CONSTANTS
    Seed,               \* the entries already in the log, applied and mirrored
    MaxCommits,         \* bound: entries committed after the seed
    Families,           \* bound: a behaviour commits commands of one of these sets
    MaxLag,             \* bound: entries the cluster commits ahead of a node that is up
    MaxRestarts,        \* bound: crashes of the node
    MayInstall          \* the leader may send its snapshot to a node that lags

Ops == TokenOps \cup OrgOps \cup TeamOps \cup RoleOps \cup MPermOps \cup MemberOps

\* What the entries of the seed are, and the bounds.
ASSUME ReplicaAssumption ==
    /\ \A c \in Range(Seed) : c.op \in Ops
    /\ Families \subseteq SUBSET Ops
    /\ MaxRestarts \in Nat

VARIABLES
    committed,          \* index of the last committed entry
    truth,              \* the state of an FSM that applied all of them in order
    raftLog,            \* entries after the node's snapshot
    nodeUp, fsm, applied,
    snap,               \* [idx, tables]: the snapshot on the node's disk
    db,                 \* the node's SQLite tables
    wired,              \* which callbacks are installed: "none", "tokens", "all"
    restarts,
    family,             \* the commands of this behaviour
    reached,            \* history: the highest index this node ever applied
    cut,                \* history: a crash ended a replay that had callbacks, and no
                        \* replay has come as far as `reached' since
    gap,                \* history: an entry reached this node without its callback,
                        \* for the first time or while `cut'
    renamed             \* history: a token, organization or team changed its name,
                        \* or a token's became empty: "no", "yes", "emptied"

auth_vars == <<committed, truth, raftLog, nodeUp, fsm, applied, snap, db, wired,
               restarts, family, reached, cut, gap, renamed>>
auth_history == <<family, reached, cut, gap, renamed>>

---------------------------------------------------------------------------
CascadeTeamsOnly(d) ==  \* variant
    LET team == Restrict(d.teams, {t \in DOMAIN d.teams : d.teams[t].org \in DOMAIN d.orgs})
    IN  [d EXCEPT !.teams = team, !.members = Restrict(@, {m \in DOMAIN @ : @[m].team \in DOMAIN team})]

(* Rows whose parent is gone go with it: ON DELETE CASCADE in SQLite, the    *)
(* orphan checks in Restore.                                                 *)
Cascade(d) ==
    LET team == Restrict(d.teams, {t \in DOMAIN d.teams : d.teams[t].org \in DOMAIN d.orgs})
        role == Restrict(d.roles, {r \in DOMAIN d.roles : d.roles[r].team \in DOMAIN team})
    IN  [d EXCEPT !.teams = team, !.roles = role,
                  !.mperms = Restrict(@, {p \in DOMAIN @ : @[p].role \in DOMAIN role}),
                  !.members = Restrict(@, {m \in DOMAIN @ : /\ @[m].token \in DOMAIN d.tokens
                                                            /\ @[m].team \in DOMAIN team})]

\* Of entries with equal keys one is kept; which one is the map's order.
KeepOne(f, key(_)) ==
    Restrict(f, {i \in DOMAIN f : \A j \in DOMAIN f : key(f[j]) = key(f[i]) => i <= j})

QuarantineByName(p) ==  \* variant
    LET Name(x) == x.name
    IN  Cascade([p EXCEPT !.tokens = Restrict(@, {t \in DOMAIN @ : @[t].name # Empty}),
                          !.orgs = KeepOne(@, Name), !.teams = KeepOne(@, Name)])

(* What Restore keeps of a snapshot's tables, and the state it builds.       *)
Quarantine(p) ==
    LET valid == [p EXCEPT
            !.tokens = Restrict(@, {t \in DOMAIN @ : @[t].name # Empty}),
            !.orgs = LET Name(o) == o.name IN KeepOne(@, Name)]
    IN  Cascade([valid EXCEPT
            !.teams = LET Scoped(t) == <<t.org, t.name>> IN KeepOne(@, Scoped),
            !.members = LET Pair(m) == <<m.token, m.team>> IN KeepOne(@, Pair)])

Inverted(f, key(_)) == [k \in {key(f[i]) : i \in DOMAIN f} |-> CHOOSE i \in DOMAIN f : key(f[i]) = k]
Grouped(f, key(_)) == {<<key(f[i]), i>> : i \in DOMAIN f}

Restore(p) ==
    LET q == Quarantine(p)
        Name(x) == x.name
        Cred(x) == x.cred
        Scoped(x) == <<x.org, x.name>>
        Team(x) == x.team
        Token(x) == x.token
        Role(x) == x.role
        Pair(x) == <<x.token, x.team>>
    IN  [tokens |-> q.tokens, orgs |-> q.orgs, teams |-> q.teams, roles |-> q.roles,
         mperms |-> q.mperms, members |-> q.members,
         tokensByName |-> Inverted(q.tokens, Name), tokensByPrefix |-> Grouped(q.tokens, Cred),
         orgsByName |-> Inverted(q.orgs, Name), teamsByOrg |-> Inverted(q.teams, Scoped),
         rolesByTeam |-> Grouped(q.roles, Team), mpermsByRole |-> Grouped(q.mperms, Role),
         byPair |-> Inverted(q.members, Pair), byToken |-> Grouped(q.members, Token),
         byTeam |-> Grouped(q.members, Team)]

---------------------------------------------------------------------------
(* The SQLite mirror.  Apply<Command> is an INSERT, UPDATE or DELETE, which  *)
(* changes nothing when the row exists, when a UNIQUE or foreign key         *)
(* constraint fails, or when the row to update is missing.                   *)

Taken(table, i, name) == \E x \in DOMAIN table \ {i} : table[x].name = name

MirrorToken(d, c, i) ==
    CASE c.op = "CreateToken" ->
            IF i \in DOMAIN d.tokens \/ Taken(d.tokens, i, c.name) THEN d
            ELSE [d EXCEPT !.tokens = Put(@, i, [name |-> c.name, cred |-> c.cred, on |-> TRUE])]
      [] c.op = "DeleteToken" -> Cascade([d EXCEPT !.tokens = Drop(@, {c.id})])
      [] c.op = "UpdateToken" ->
            IF c.id \notin DOMAIN d.tokens \/ Taken(d.tokens, c.id, c.name) THEN d
            ELSE [d EXCEPT !.tokens[c.id].name = c.name]
      [] c.op = "RevokeToken" ->
            IF c.id \notin DOMAIN d.tokens THEN d ELSE [d EXCEPT !.tokens[c.id].on = FALSE]
      [] c.op = "RotateToken" ->
            IF c.id \notin DOMAIN d.tokens THEN d ELSE [d EXCEPT !.tokens[c.id].cred = c.cred]

\* ApplyCreateOrganization realigns: an organization of this name under
\* another id is deleted with everything below it, then the row is inserted.
Realign(d, c, i) ==
    LET old == {o \in DOMAIN d.orgs : d.orgs[o].name = c.name} IN
    [Cascade([d EXCEPT !.orgs = Drop(@, old)]) EXCEPT !.orgs = Put(@, i, [name |-> c.name])]

MirrorOrg(d, c, i) ==
    CASE c.op = "CreateOrg" -> IF i \in DOMAIN d.orgs THEN d ELSE Realign(d, c, i)
      [] c.op = "UpdateOrg" ->
            IF c.id \notin DOMAIN d.orgs \/ Taken(d.orgs, c.id, c.name) THEN d
            ELSE [d EXCEPT !.orgs[c.id].name = c.name]
      [] c.op = "DeleteOrg" -> Cascade([d EXCEPT !.orgs = Drop(@, {c.id})])

MirrorTeam(d, c, i) ==
    LET row == [org |-> c.org, name |-> c.name] IN
    CASE c.op = "CreateTeam" ->
            IF i \in DOMAIN d.teams \/ c.org \notin DOMAIN d.orgs \/ row \in Range(d.teams) THEN d
            ELSE [d EXCEPT !.teams = Put(@, i, row)]
      [] c.op = "UpdateTeam" ->
            IF \/ c.id \notin DOMAIN d.teams
               \/ \E t \in DOMAIN d.teams \ {c.id} :
                        d.teams[t] = [d.teams[c.id] EXCEPT !.name = c.name]
            THEN d ELSE [d EXCEPT !.teams[c.id].name = c.name]
      [] c.op = "DeleteTeam" -> Cascade([d EXCEPT !.teams = Drop(@, {c.id})])

MirrorRole(d, c, i) ==
    CASE c.op = "CreateRole" ->
            IF i \in DOMAIN d.roles \/ c.team \notin DOMAIN d.teams THEN d
            ELSE [d EXCEPT !.roles = Put(@, i, [team |-> c.team, pat |-> c.pat])]
      [] c.op = "UpdateRole" ->
            IF c.id \notin DOMAIN d.roles THEN d ELSE [d EXCEPT !.roles[c.id].pat = c.pat]
      [] c.op = "DeleteRole" -> Cascade([d EXCEPT !.roles = Drop(@, {c.id})])

MirrorMPerm(d, c, i) ==
    CASE c.op = "CreateMPerm" ->
            IF i \in DOMAIN d.mperms \/ c.role \notin DOMAIN d.roles THEN d
            ELSE [d EXCEPT !.mperms = Put(@, i, [role |-> c.role])]
      [] c.op = "DeleteMPerm" -> [d EXCEPT !.mperms = Drop(@, {c.id})]

MirrorMember(d, c, i) ==
    LET row == [token |-> c.token, team |-> c.team] IN
    CASE c.op = "AddMember" ->
            IF \/ i \in DOMAIN d.members \/ row \in Range(d.members)
               \/ c.token \notin DOMAIN d.tokens \/ c.team \notin DOMAIN d.teams
            THEN d ELSE [d EXCEPT !.members = Put(@, i, row)]
      [] c.op = "RemoveMember" ->
            [d EXCEPT !.members = Restrict(@, {m \in DOMAIN @ : @[m] # row})]

Mirror(d, c, i) ==
    CASE c.op \in TokenOps -> MirrorToken(d, c, i)
      [] c.op \in OrgOps -> MirrorOrg(d, c, i)
      [] c.op \in TeamOps -> MirrorTeam(d, c, i)
      [] c.op \in RoleOps -> MirrorRole(d, c, i)
      [] c.op \in MPermOps -> MirrorMPerm(d, c, i)
      [] c.op \in MemberOps -> MirrorMember(d, c, i)

---------------------------------------------------------------------------
(* The commands that the API can propose in a state.  Permissions,           *)
(* descriptions and expiry are left out, so a rename to the same name        *)
(* changes nothing; neither does an entry the FSM refuses: only accepted     *)
(* ones are enumerated.                                                      *)

\* Only UpdateToken takes an empty name.
NewNames == Names \cup {Empty}

Commands(s) ==
    LET On(op, t) == {[op |-> op, id |-> x] : x \in DOMAIN s[t]}
        Renames(op, t, ns) == 
                {c \in [op : {op}, id : DOMAIN s[t], name : ns] : c.name # s[t][c.id].name}
        all ==
        {[op |-> "CreateToken", name |-> n, cred |-> k] : n \in Names, k \in Creds}
        \cup Renames("UpdateToken", "tokens", NewNames)
        \cup On("RevokeToken", "tokens") \cup On("DeleteToken", "tokens")
        \cup {[op |-> "RotateToken", id |-> t, cred |-> k] : t \in DOMAIN s.tokens, k \in Creds}
        \cup {[op |-> "CreateOrg", name |-> n] : n \in Names}
        \cup Renames("UpdateOrg", "orgs", Names) \cup On("DeleteOrg", "orgs")
        \cup {[op |-> "CreateTeam", org |-> o, name |-> n] : o \in DOMAIN s.orgs, n \in Names}
        \cup Renames("UpdateTeam", "teams", Names) \cup On("DeleteTeam", "teams")
        \cup {[op |-> "CreateRole", team |-> t, pat |-> p] : t \in DOMAIN s.teams, p \in Patterns}
        \cup {[op |-> "UpdateRole", id |-> r, pat |-> p] : r \in DOMAIN s.roles, p \in Patterns}
        \cup On("DeleteRole", "roles")
        \cup {[op |-> "CreateMPerm", role |-> r] : r \in DOMAIN s.roles}
        \cup On("DeleteMPerm", "mperms")
        \cup {[op |-> o, token |-> t, team |-> m] :
                    o \in {"AddMember", "RemoveMember"}, t \in DOMAIN s.tokens, m \in DOMAIN s.teams}
    IN  {c \in all : c.op \in family /\ Accepts(s, c)}

---------------------------------------------------------------------------
ARInit ==
    /\ committed = 0 /\ truth = InitAuth /\ raftLog = <<>>
    /\ nodeUp = TRUE /\ fsm = InitAuth /\ applied = 0
    /\ snap = [idx |-> 0, tables |-> Primaries(InitAuth)]
    /\ db = Primaries(InitAuth) /\ wired = "all" /\ restarts = 0
    /\ reached = 0 /\ cut = FALSE /\ gap = FALSE /\ renamed = "no" /\ family \in Families

\* Bound: the seed is committed first, and the node keeps up with it.
Seeded == committed >= Len(Seed)

\* The cluster commits an entry.
Commit(c) ==
    /\ committed < Len(Seed) + MaxCommits
    /\ nodeUp => committed - applied <= MaxLag
    /\ IF Seeded THEN c \in Commands(truth)
                 ELSE c = Seed[committed + 1] /\ applied = committed
    /\ committed' = committed + 1
    /\ truth' = Apply(truth, c, committed + 1)
    /\ raftLog' = Append(raftLog, c)
    /\ renamed' = IF c.op = "UpdateToken" /\ c.name = Empty THEN "emptied"
                  ELSE IF c.op \in {"UpdateToken", "UpdateOrg", "UpdateTeam"} /\ renamed = "no" THEN "yes"
                  ELSE renamed
    /\ UNCHANGED <<nodeUp, fsm, applied, snap, db, wired, restarts, family, reached, cut, gap>>

HasCallback(c) == wired = "all" \/ (wired = "tokens" /\ c.op \in TokenOps)

\* runFSM applies the next entry; an accepted one reaches its callback.
ApplyNext ==
    LET i == applied + 1
        c == raftLog[i - snap.idx]
        called == Accepts(fsm, c) /\ HasCallback(c)
    IN  /\ nodeUp /\ applied < committed
        /\ applied' = i
        /\ fsm' = Apply(fsm, c, i)
        /\ db' = IF called THEN Mirror(db, c, i) ELSE db
        /\ reached' = (IF i > reached THEN i ELSE reached)
        /\ cut' = (cut /\ i < reached)
        /\ gap' = (gap \/ ((i > reached \/ cut) /\ ~HasCallback(c)))
        /\ UNCHANGED <<committed, truth, raftLog, nodeUp, snap, wired, restarts, family, renamed>>

\* FSMSnapshot.Persist writes the primary maps; the log is cut behind it.
TakeSnapshot ==
    /\ nodeUp /\ Seeded /\ applied > snap.idx
    /\ snap' = [idx |-> applied, tables |-> Primaries(fsm)]
    /\ raftLog' = SubSeq(raftLog, applied - snap.idx + 1, Len(raftLog))
    /\ UNCHANGED <<committed, truth, nodeUp, fsm, applied, db, wired, restarts, auth_history>>

Crash ==
    /\ nodeUp /\ Seeded /\ restarts < MaxRestarts
    /\ nodeUp' = FALSE /\ restarts' = restarts + 1
    /\ fsm' = InitAuth /\ applied' = 0 /\ wired' = "none"
    /\ cut' = (cut \/ (wired # "none" /\ applied < reached))
    /\ UNCHANGED <<committed, truth, raftLog, snap, db, family, reached, gap, renamed>>

\* The node opens its Raft log: the FSM is restored from the snapshot and
\* replays what follows.  The callbacks are installed later by main.
Restart ==
    /\ ~nodeUp
    /\ nodeUp' = TRUE
    /\ fsm' = Restore(snap.tables) /\ applied' = snap.idx
    /\ UNCHANGED <<committed, truth, raftLog, snap, db, wired, restarts, auth_history>>

SetAuthCallbacks ==
    /\ nodeUp /\ wired = "none" /\ wired' = "tokens"
    /\ UNCHANGED <<committed, truth, raftLog, nodeUp, fsm, applied, snap, db, restarts, auth_history>>

SetRBACCallbacks ==
    /\ nodeUp /\ wired = "tokens" /\ wired' = "all"
    /\ UNCHANGED <<committed, truth, raftLog, nodeUp, fsm, applied, snap, db, restarts, auth_history>>

\* A node that lags behind the leader's log gets its snapshot instead.
InstallSnapshot ==
    /\ MayInstall /\ nodeUp /\ applied < committed
    /\ snap' = [idx |-> committed, tables |-> Primaries(truth)]
    /\ fsm' = Restore(Primaries(truth)) /\ applied' = committed /\ raftLog' = <<>>
    /\ reached' = committed /\ gap' = TRUE
    /\ UNCHANGED <<committed, truth, nodeUp, db, wired, restarts, family, cut, renamed>>

ARNext ==
    \/ \E c \in Commands(truth) \cup Range(Seed) : Commit(c)
    \/ ApplyNext \/ TakeSnapshot \/ Crash \/ Restart
    \/ SetAuthCallbacks \/ SetRBACCallbacks \/ InstallSnapshot

ARSpec == ARInit /\ [][ARNext]_auth_vars

---------------------------------------------------------------------------
(* Properties.                                                               *)

\* The type invariant: indices in order, the log between snapshot and commit.
ARTypeOK ==
    /\ committed \in Nat /\ snap.idx \in 0..committed /\ reached \in 0..committed
    /\ applied \in 0..committed
    /\ Len(raftLog) = committed - snap.idx
    /\ nodeUp \in BOOLEAN /\ cut \in BOOLEAN /\ gap \in BOOLEAN /\ renamed \in {"no", "yes", "emptied"}
    /\ wired \in {"none", "tokens", "all"} /\ restarts \in 0..MaxRestarts /\ family \in Families
    /\ DOMAIN db = Tables /\ DOMAIN snap.tables = Tables

\* Every reference between the entities resolves, whatever was deleted above
\* it: the cascades of applyDelete* leave no orphan for a permission check to
\* follow or for Restore to drop.
NoDangling ==
    /\ \A t \in DOMAIN truth.teams : truth.teams[t].org \in DOMAIN truth.orgs
    /\ \A r \in DOMAIN truth.roles : truth.roles[r].team \in DOMAIN truth.teams
    /\ \A p \in DOMAIN truth.mperms : truth.mperms[p].role \in DOMAIN truth.roles
    /\ \A m \in DOMAIN truth.members :
            /\ truth.members[m].token \in DOMAIN truth.tokens
            /\ truth.members[m].team \in DOMAIN truth.teams

\* A node that has applied every entry, through crashes, replays and snapshots
\* of its own or of the leader, holds the state of any other node, with every
\* secondary index as the incremental updates leave it.  The one exception:
\* UpdateToken takes an empty name, and Restore quarantines the token.
\* Nothing dangles in it.
ReplicaAgrees ==
    /\ NoDangling
    /\ nodeUp /\ applied = committed /\ renamed # "emptied" => fsm = truth

\* "Every node's SQLite RBAC tables stay consistent with the Raft-replicated
\* RBAC state" (fsm.go), tokens too: a node that has caught up mirrors the
\* state, however often it replayed entries whose effects SQLite already had,
\* unless names were reused or an entry reached it without its callback, for
\* the first time or while a replay that was cut short is not made good.
MirrorAgrees ==
    nodeUp /\ applied = committed /\ ~gap /\ renamed = "no" => db = Primaries(truth)
=============================================================================
