------------------------------ MODULE AuthCaches ------------------------------
(***************************************************************************)
(* The caches in front of the auth database: verified tokens (auth.go), a  *)
(* token's teams, roles and measurement permissions, and the results of    *)
(* permission checks (rbac_manager.go), under concurrent requests, writes  *)
(* that invalidate after they have written, and time.                      *)
(*                                                                         *)
(* The database has one connection (SetMaxOpenConns(1)), held while the    *)
(* rows of a query are open; tokenCacheMu is held during the queries of a  *)
(* load.  The tables are one chain organization, team, role, measurement   *)
(* permission, whose identifiers are never used twice, and every check     *)
(* asks for one permission on one measurement that the chain matches.      *)
(***************************************************************************)
EXTENDS Naturals, FiniteSets

CONSTANTS
    Tokens,          \* rows of api_tokens
    MaxRotations,    \* of a token; its n-th secret is <<token, n>>
    Requests,        \* concurrent calls of VerifyToken and then of a check
    Writers,         \* concurrent handlers that write
    Rows, Tables,    \* contents of api_tokens and of the RBAC tables at the start
    BatchRequests,   \* those whose check is a batch
    AuthTTL,         \* cacheTTL of the AuthManager, in ticks
    RbacTTL,         \* CacheTTL of the RBACManager
    MaxCacheSize,    \* entries of each cache
    QueriesMayFail,  \* a query of a load returns an error
    MaxWrites,       \* bound of the writes
    Free,            \* nobody holds the connection or the lock
    None             \* no entry, no secret, no info

ASSUME CachesAssumption ==
    /\ MaxRotations \in Nat /\ AuthTTL \in Nat \ {0} /\ RbacTTL \in Nat \ {0}
    /\ MaxWrites \in Nat /\ MaxCacheSize \in Nat \ {0}
    /\ BatchRequests \subseteq Requests /\ QueriesMayFail \in BOOLEAN
    /\ Free \notin Requests

Secrets == Tokens \X (0..MaxRotations)
Levels == {"none", "grants", "other"}
Datas == [team : {"none", "off", "on"}, role : Levels, mperm : Levels]
Nothing == [team |-> "none", role |-> "none", mperm |-> "none"]

VARIABLES
    token,       \* api_tokens
    rbac,        \* the RBAC tables; "gone" is deleted, and never created again
    conn,        \* who holds the connection across steps
    lock,        \* who holds tokenCacheMu across steps
    cache,       \* secret -> verified token
    tokenCache,  \* token -> what its load read
    permCache,   \* token -> result of the check
    req, writer, \* the calls in progress
    writes,
    lost         \* history: ticks since the tables last granted the token the permission

tables == <<token, rbac>>
caches == <<cache, tokenCache, permCache>>
clock == <<writes, lost>>
vars == <<tables, conn, lock, caches, req, writer, clock>>

\* `torn', `missed' and `why' are history.  A write fell between the queries of the
\* load; a write that does not clear the loaded data came after the first query.
\* Why a result may be other than the tables grant: "missed", after what it was
\* computed from there was a write that does not clear it; "raced", its cache was
\* cleared under the check; "failed", a query failed and the check went on without.
IdleRequest == [pc |-> "idle", secret |-> None, info |-> None,
                data |-> Nothing, torn |-> FALSE, missed |-> FALSE, why |-> "current"]
Because(why, reason) == IF why \in {"current", "failed"} THEN reason ELSE why
IdleWriter == [pc |-> "idle", scope |-> {}]

Seen(level) == IF level = "gone" THEN "none" ELSE level
SeenTeam(t) == IF t \in rbac.members THEN Seen(rbac.team) ELSE "none"

\* What an undisturbed load reads (loadTokenRBACData).
Load(t) ==
    IF SeenTeam(t) = "none" THEN Nothing
    ELSE [team |-> SeenTeam(t), role |-> Seen(rbac.role),
          mperm |-> IF Seen(rbac.role) = "none" THEN "none" ELSE Seen(rbac.mperm)]

\* Measurement permissions of a role, when there are any, decide instead of the role.
Permits(d) ==
    /\ d.team = "on" /\ d.role # "none"
    /\ IF d.mperm = "none" THEN d.role = "grants" ELSE d.mperm = "grants"

\* RBAC first, then the permissions of the token itself.
Granted(grants, d) == Permits(d) \/ grants
Allowed(t) == token[t].state = "on" /\ Granted(token[t].grants, Load(t))

\* The ways to put e at k of the cache c, with one of the victims let go when it is full.
Inserted(c, k, e, victims) ==
    IF Cardinality({j \in DOMAIN c : c[j] # None}) < MaxCacheSize
    THEN {[c EXCEPT ![k] = e]}
    ELSE {[c EXCEPT ![j] = None, ![k] = e] : j \in victims}

---------------------------------------------------------------------------
\* VerifyToken.

\* A batch loads before it looks into the results, a single check after.
FirstOf(r) == IF r \in BatchRequests THEN "data" ELSE "perm"

\* The call begins with its look into the cache.
LookUp(r) ==
    /\ req[r].pc = "idle"
    /\ \E t \in Tokens : \E n \in 0..token[t].rotations :
         LET e == cache[<<t, n>>]
             call == [IdleRequest EXCEPT !.secret = <<t, n>>]
         IN
         /\ token[t].state # "none"
         /\ req' = [req EXCEPT ![r] =
                IF e # None
                THEN [call EXCEPT !.pc = FirstOf(r), !.info = [token |-> t, grants |-> e.grants]]
                ELSE [call EXCEPT !.pc = "query"]]
    /\ UNCHANGED <<tables, conn, lock, caches, writer, clock>>

QueryTokenReleasing(r) ==  \* variant: the rows are closed before the token is stored
    LET t == req[r].secret[1] IN
    /\ req[r].pc = "query" /\ conn = Free
    /\ req' = [req EXCEPT ![r] =
           IF token[t].state = "on" /\ token[t].rotations = @.secret[2] /\ token[t].life # "over"
           THEN [@ EXCEPT !.pc = "remember", !.info = [token |-> t, grants |-> token[t].grants]]
           ELSE IdleRequest]
    /\ UNCHANGED <<tables, conn, lock, caches, writer, clock>>

\* The rows stay open, and the connection taken, until VerifyToken returns.
QueryToken(r) ==
    LET t == req[r].secret[1] IN
    /\ req[r].pc = "query" /\ conn = Free
    /\ IF token[t].state = "on" /\ token[t].rotations = req[r].secret[2] /\ token[t].life # "over"
       THEN /\ conn' = r
            /\ req' = [req EXCEPT ![r].pc = "remember",
                                  ![r].info = [token |-> t, grants |-> token[t].grants]]
       ELSE /\ req' = [req EXCEPT ![r] = IdleRequest]
            /\ UNCHANGED conn
    /\ UNCHANGED <<tables, lock, caches, writer, clock>>

Remember(r) ==
    LET kept == {s \in Secrets : cache[s] # None}
        oldest == {s \in kept : \A o \in kept : cache[s].left <= cache[o].left}
    IN
    /\ req[r].pc = "remember"
    /\ cache' \in Inserted(cache, req[r].secret,
                           [grants |-> req[r].info.grants, left |-> AuthTTL], oldest)
    /\ conn' = Free
    /\ req' = [req EXCEPT ![r].pc = FirstOf(r)]
    /\ UNCHANGED <<tables, lock, tokenCache, permCache, writer, clock>>

---------------------------------------------------------------------------
\* CheckPermission and CheckPermissionsBatch.

LookUpPerm(r) ==
    LET e == permCache[req[r].info.token] IN
    /\ req[r].pc = "perm"
    /\ req' = IF e # None THEN [req EXCEPT ![r] = IdleRequest]
              ELSE [req EXCEPT ![r].pc = IF r \in BatchRequests THEN "answer" ELSE "data"]
    /\ UNCHANGED <<tables, conn, lock, caches, writer, clock>>

AfterData(r) == IF r \in BatchRequests THEN "perm" ELSE "answer"

GetDataSliding(r) ==  \* variant: a use prolongs the entry
    LET t == req[r].info.token
        e == tokenCache[t]
    IN
    /\ req[r].pc = "data" /\ lock = Free
    /\ IF e # None
       THEN /\ req' = [req EXCEPT ![r].pc = AfterData(r), ![r].data = e.data,
                                  ![r].torn = e.torn, ![r].missed = e.missed,
                                  ![r].why = IF e.missed THEN Because(@, "missed") ELSE @]
            /\ tokenCache' = [tokenCache EXCEPT ![t].left = RbacTTL]
            /\ UNCHANGED lock
       ELSE /\ req' = [req EXCEPT ![r].pc = "teams"]
            /\ lock' = r
            /\ UNCHANGED tokenCache
    /\ UNCHANGED <<tables, conn, cache, permCache, writer, clock>>

\* getTokenRBACData: the look under the read lock is repeated under the write lock, so
\* what counts is the look at the moment the lock is taken or a hit returns.
GetData(r) ==
    LET t == req[r].info.token
        e == tokenCache[t]
    IN
    /\ req[r].pc = "data" /\ lock = Free
    /\ IF e # None
       THEN /\ req' = [req EXCEPT ![r].pc = AfterData(r), ![r].data = e.data,
                                  ![r].torn = e.torn, ![r].missed = e.missed,
                                  ![r].why = IF e.missed THEN Because(@, "missed") ELSE @]
            /\ UNCHANGED lock
       ELSE /\ req' = [req EXCEPT ![r].pc = "teams"]
            /\ lock' = r
    /\ UNCHANGED <<tables, conn, caches, writer, clock>>

\* Without the data the token's own permissions decide; a batch does not keep that.
LoadFails(r) ==
    /\ req[r].pc \in {"teams", "roles", "mperms"} /\ conn = Free /\ QueriesMayFail
    /\ lock' = Free
    /\ req' = IF r \in BatchRequests THEN [req EXCEPT ![r] = IdleRequest]
              ELSE [req EXCEPT ![r].pc = "answer", ![r].data = Nothing,
                               ![r].why = Because(@, "failed")]
    /\ UNCHANGED <<tables, conn, caches, writer, clock>>

\* loadTokenRBACData: three queries, each of which closes its rows before the next.
ReadTeams(r) ==
    LET seen == SeenTeam(req[r].info.token) IN
    /\ req[r].pc = "teams" /\ conn = Free
    /\ req' = [req EXCEPT ![r].data = [Nothing EXCEPT !.team = seen],
                          ![r].pc = IF seen = "none" THEN "keep" ELSE "roles"]
    /\ UNCHANGED <<tables, conn, lock, caches, writer, clock>>

ReadRolesKeepingRows(r) ==  \* variant: the rows are closed when the load returns
    /\ req[r].pc = "roles" /\ conn = Free
    /\ conn' = r
    /\ req' = [req EXCEPT ![r].data.role = Seen(rbac.role),
                          ![r].pc = IF Seen(rbac.role) = "none" THEN "keep" ELSE "mperms"]
    /\ UNCHANGED <<tables, lock, caches, writer, clock>>

ReadRoles(r) ==
    /\ req[r].pc = "roles" /\ conn = Free
    /\ req' = [req EXCEPT ![r].data.role = Seen(rbac.role),
                          ![r].pc = IF Seen(rbac.role) = "none" THEN "keep" ELSE "mperms"]
    /\ UNCHANGED <<tables, conn, lock, caches, writer, clock>>

ReadMPerms(r) ==
    /\ req[r].pc = "mperms" /\ conn = Free
    /\ req' = [req EXCEPT ![r].data.mperm = Seen(rbac.mperm), ![r].pc = "keep"]
    /\ UNCHANGED <<tables, conn, lock, caches, writer, clock>>

KeepData(r) ==
    LET entry == [data |-> req[r].data, left |-> RbacTTL, torn |-> req[r].torn,
                  missed |-> req[r].missed]
        kept == {t \in Tokens : tokenCache[t] # None}
    IN
    /\ req[r].pc = "keep"
    /\ tokenCache' \in Inserted(tokenCache, req[r].info.token, entry, kept)
    /\ lock' = Free
    /\ req' = [req EXCEPT ![r].pc = AfterData(r)]
    /\ UNCHANGED <<tables, conn, cache, permCache, writer, clock>>

AnswerCheck(r) ==
    LET entry == [allowed |-> Granted(req[r].info.grants, req[r].data), left |-> RbacTTL,
                  torn |-> req[r].torn, why |-> req[r].why]
        kept == {t \in Tokens : permCache[t] # None}
    IN
    /\ req[r].pc = "answer"
    /\ permCache' \in Inserted(permCache, req[r].info.token, entry, kept)
    /\ req' = [req EXCEPT ![r] = IdleRequest]
    /\ UNCHANGED <<tables, conn, lock, cache, tokenCache, writer, clock>>

---------------------------------------------------------------------------
\* Writes.  One statement writes, then the caches are cleared one after the other.

Outdated(e, S, t) == IF e # None /\ t \in S THEN [e EXCEPT !.why = Because(@, "missed")] ELSE e
Called(q, S) == q.pc # "idle" /\ q.secret[1] \in S
Overtaken(q, S, reason) == IF Called(q, S) THEN [q EXCEPT !.why = Because(@, reason)] ELSE q

\* The statement, when it changes something: the loads that are between two queries
\* are torn.  A write that leaves the results (P) or the loaded data (D) of some
\* tokens alone is noted in them and in the checks that may have read before it.
Writes(w, clears, scope, D, P) ==
    LET loading(q) == q.pc \in {"roles", "mperms", "keep"}
        seen(q) == [q EXCEPT !.torn = @ \/ q.pc \in {"roles", "mperms"},
                             !.missed = @ \/ (loading(q) /\ q.secret[1] \in D)]
    IN
    /\ conn = Free /\ writer[w].pc = "idle" /\ writes < MaxWrites
    /\ writer' = [writer EXCEPT ![w] = [pc |-> clears, scope |-> scope]]
    /\ tokenCache' = [t \in Tokens |-> IF tokenCache[t] # None /\ t \in D
                                      THEN [tokenCache[t] EXCEPT !.missed = TRUE] ELSE tokenCache[t]]
    /\ permCache' = [t \in Tokens |-> Outdated(permCache[t], D \union P, t)]
    /\ req' = [r \in Requests |-> Overtaken(seen(req[r]), D \union P, "missed")]
    /\ lost' = [t \in Tokens |-> IF Allowed(t) THEN 0 ELSE lost[t]]
    /\ writes' = writes + 1
    /\ UNCHANGED <<conn, lock, cache>>

\* The AuthManager's writes clear the verified tokens, and nothing of the RBACManager.
WritesToken(w, t, row) ==
    /\ token' = [token EXCEPT ![t] = row]
    /\ UNCHANGED rbac

\* A new token has a new secret.
CreateToken(w) == \E t \in Tokens, grants \in BOOLEAN, life \in {"endless", "dated"} :
    /\ token[t].state = "none"
    /\ WritesToken(w, t, [token[t] EXCEPT !.state = "on", !.grants = grants, !.life = life])
    /\ Writes(w, "idle", {}, {}, {})

UpdateToken(w) == \E t \in Tokens, grants \in BOOLEAN, life \in {"endless", "dated"} :
    /\ token[t].state \in {"on", "off"}
    /\ <<grants, life>> # <<token[t].grants, token[t].life>>
    /\ WritesToken(w, t, [token[t] EXCEPT !.grants = grants, !.life = life])
    /\ Writes(w, "auth", {t}, {}, {t})

RevokeToken(w) == \E t \in Tokens :
    /\ token[t].state = "on"
    /\ WritesToken(w, t, [token[t] EXCEPT !.state = "off"])
    /\ Writes(w, "auth", {}, {}, {})

RotateToken(w) == \E t \in Tokens :
    /\ token[t].state \in {"on", "off"} /\ token[t].rotations < MaxRotations
    /\ WritesToken(w, t, [token[t] EXCEPT !.rotations = @ + 1])
    /\ Writes(w, "auth", {}, {}, {})

\* The foreign key takes the memberships along.
DeleteToken(w) == \E t \in Tokens :
    /\ token[t].state \in {"on", "off"}
    /\ token' = [token EXCEPT ![t].state = "gone"]
    /\ rbac' = [rbac EXCEPT !.members = @ \ {t}]
    /\ Writes(w, "auth", {}, {}, {})

\* The endpoint that clears the cache writes nothing.
InvalidateTokens(w) ==
    /\ writer[w].pc = "idle" /\ writes < MaxWrites
    /\ cache' = [s \in Secrets |-> None]
    /\ writes' = writes + 1
    /\ UNCHANGED <<tables, conn, lock, tokenCache, permCache, req, writer, lost>>

\* The RBACManager's writes clear its two caches, but for creating an organization
\* or a team and for deleting an organization: these clear nothing.
WritesTables(w, row) ==
    /\ rbac' = row
    /\ UNCHANGED token

CreateOrganization(w) ==
    /\ rbac.org = "none"
    /\ WritesTables(w, [rbac EXCEPT !.org = "on"])
    /\ Writes(w, "idle", {}, {}, {})

Below(level) == IF level = "none" THEN "none" ELSE "gone"

DeleteOrganization(w) ==
    /\ rbac.org = "on"
    /\ WritesTables(w, [org |-> "gone", team |-> Below(rbac.team), members |-> {},
                        role |-> Below(rbac.role), mperm |-> Below(rbac.mperm)])
    /\ Writes(w, "idle", {}, Tokens, {})

CreateTeam(w) ==
    /\ rbac.org = "on" /\ rbac.team = "none"
    /\ WritesTables(w, [rbac EXCEPT !.team = "on"])
    /\ Writes(w, "idle", {}, {}, {})

UpdateTeam(w) == \E enabled \in {"on", "off"} \ {rbac.team} :
    /\ rbac.team \in {"on", "off"}
    /\ WritesTables(w, [rbac EXCEPT !.team = enabled])
    /\ Writes(w, "data", Tokens, {}, {})

DeleteTeam(w) ==
    /\ rbac.team \in {"on", "off"}
    /\ WritesTables(w, [rbac EXCEPT !.team = "gone", !.members = {},
                                    !.role = Below(@), !.mperm = Below(@)])
    /\ Writes(w, "data", Tokens, {}, {})

CreateRole(w) == \E level \in Levels \ {"none"} :
    /\ rbac.team \in {"on", "off"} /\ rbac.role = "none"
    /\ WritesTables(w, [rbac EXCEPT !.role = level])
    /\ Writes(w, "data", Tokens, {}, {})

UpdateRole(w) == \E level \in Levels \ {"none", rbac.role} :
    /\ rbac.role \in Levels \ {"none"}
    /\ WritesTables(w, [rbac EXCEPT !.role = level])
    /\ Writes(w, "data", Tokens, {}, {})

DeleteRole(w) ==
    /\ rbac.role \in Levels \ {"none"}
    /\ WritesTables(w, [rbac EXCEPT !.role = "gone", !.mperm = Below(@)])
    /\ Writes(w, "data", Tokens, {}, {})

CreateMPerm(w) == \E level \in Levels \ {"none"} :
    /\ rbac.role \in Levels \ {"none"} /\ rbac.mperm = "none"
    /\ WritesTables(w, [rbac EXCEPT !.mperm = level])
    /\ Writes(w, "data", Tokens, {}, {})

DeleteMPerm(w) ==
    /\ rbac.mperm \in Levels \ {"none"}
    /\ WritesTables(w, [rbac EXCEPT !.mperm = "gone"])
    /\ Writes(w, "data", Tokens, {}, {})

AddMember(w) == \E t \in Tokens \ rbac.members :
    /\ rbac.team \in {"on", "off"} /\ token[t].state \in {"on", "off"}
    /\ WritesTables(w, [rbac EXCEPT !.members = @ \union {t}])
    /\ Writes(w, "data", {t}, {}, {})

RemoveMember(w) == \E t \in rbac.members :
    /\ WritesTables(w, [rbac EXCEPT !.members = @ \ {t}])
    /\ Writes(w, "data", {t}, {}, {})

---------------------------------------------------------------------------
\* InvalidateCache, and InvalidateAllCache or InvalidateTokenCache.

\* Results that were computed from a verified token of before UpdateToken stay.
ClearTokens(w) ==
    LET scope == writer[w].scope IN
    /\ writer[w].pc = "auth"
    /\ cache' = [s \in Secrets |-> None]
    /\ writer' = [writer EXCEPT ![w] = IdleWriter]
    /\ permCache' = [t \in Tokens |-> Outdated(permCache[t], scope, t)]
    /\ req' = [r \in Requests |-> Overtaken(req[r], scope, "missed")]
    /\ UNCHANGED <<tables, conn, lock, tokenCache, clock>>

Without(c, scope) == [t \in Tokens |-> IF t \in scope THEN None ELSE c[t]]

ClearData(w) ==
    /\ writer[w].pc = "data" /\ lock = Free
    /\ tokenCache' = Without(tokenCache, writer[w].scope)
    /\ writer' = [writer EXCEPT ![w].pc = "perm"]
    /\ UNCHANGED <<tables, conn, lock, cache, permCache, req, clock>>

\* The checks of these tokens in progress store their results after this.
ClearPerm(w) ==
    LET scope == writer[w].scope IN
    /\ writer[w].pc = "perm"
    /\ permCache' = Without(permCache, scope)
    /\ req' = [r \in Requests |-> Overtaken(req[r], scope, "raced")]
    /\ writer' = [writer EXCEPT ![w] = IdleWriter]
    /\ UNCHANGED <<tables, conn, lock, cache, tokenCache, clock>>

Write(w) ==
    \/ CreateToken(w) \/ UpdateToken(w) \/ RevokeToken(w) \/ RotateToken(w) \/ DeleteToken(w)
    \/ InvalidateTokens(w) \/ CreateOrganization(w) \/ DeleteOrganization(w)
    \/ CreateTeam(w) \/ UpdateTeam(w) \/ DeleteTeam(w)
    \/ CreateRole(w) \/ UpdateRole(w) \/ DeleteRole(w)
    \/ CreateMPerm(w) \/ DeleteMPerm(w) \/ AddMember(w) \/ RemoveMember(w)

Clear(w) == ClearTokens(w) \/ ClearData(w) \/ ClearPerm(w)

---------------------------------------------------------------------------
\* Calls are short beside the TTLs: time passes between them.  An entry at the end of
\* its TTL is used no more and waits for cleanupExpiredCache; here it is gone at once.
Older(e) == IF e = None \/ e.left = 1 THEN None ELSE [e EXCEPT !.left = @ - 1]
Capped(n) == IF n < 2 * RbacTTL THEN n ELSE 2 * RbacTTL

Tick ==
    /\ \A r \in Requests : req[r].pc = "idle"
    /\ \A w \in Writers : writer[w].pc = "idle"
    /\ \E expiring \in SUBSET {t \in Tokens : token[t].life = "dated"} :
         token' = [t \in Tokens |-> IF t \in expiring THEN [token[t] EXCEPT !.life = "over"]
                                   ELSE token[t]]
    /\ cache' = [s \in Secrets |-> Older(cache[s])]
    /\ tokenCache' = [t \in Tokens |-> Older(tokenCache[t])]
    /\ permCache' = [t \in Tokens |-> Older(permCache[t])]
    /\ lost' = [t \in Tokens |-> IF Allowed(t) THEN 0 ELSE Capped(lost[t] + 1)]
    /\ UNCHANGED <<rbac, conn, lock, req, writer, writes>>

---------------------------------------------------------------------------
ACInit ==
    /\ token \in [Tokens -> Rows] /\ rbac \in Tables
    /\ \A t \in rbac.members : token[t].state = "on"
    /\ conn = Free /\ lock = Free
    /\ cache = [s \in Secrets |-> None]
    /\ tokenCache = [t \in Tokens |-> None]
    /\ permCache = [t \in Tokens |-> None]
    /\ req = [r \in Requests |-> IdleRequest]
    /\ writer = [w \in Writers |-> IdleWriter]
    /\ writes = 0
    /\ lost = [t \in Tokens |-> 2 * RbacTTL]

Continue(r) == QueryToken(r) \/ Remember(r) \/ LookUpPerm(r) \/ GetData(r) \/ LoadFails(r)
               \/ ReadTeams(r) \/ ReadRoles(r) \/ ReadMPerms(r) \/ KeepData(r) \/ AnswerCheck(r)

ACNext ==
    \/ \E r \in Requests : LookUp(r) \/ Continue(r)
    \/ \E w \in Writers : Write(w) \/ Clear(w)
    \/ Tick

ACSpec == ACInit /\ [][ACNext]_vars

---------------------------------------------------------------------------
RowType == [state : {"none", "on", "off", "gone"}, rotations : 0..MaxRotations,
            grants : BOOLEAN, life : {"endless", "dated", "over"}]
TablesType == [org : {"none", "on", "gone"}, team : {"none", "on", "off", "gone"},
               members : SUBSET Tokens, role : Levels \union {"gone"},
               mperm : Levels \union {"gone"}]

\* The foreign keys leave no member without a team.
ASSUME ContentsAssumption ==
    /\ Rows \subseteq RowType /\ Tables \subseteq TablesType
    /\ \A row \in Tables : row.members # {} => row.team \in {"on", "off"}

Reasons == {"current", "missed", "raced", "failed"}
RequestType ==
    [pc : {"idle", "query", "remember", "perm", "data", "teams", "roles", "mperms", "keep",
           "answer"},
     secret : Secrets \union {None},
     info : [token : Tokens, grants : BOOLEAN] \union {None}, data : Datas,
     torn : BOOLEAN, missed : BOOLEAN, why : Reasons]
ACTypeOK ==
    /\ token \in [Tokens -> RowType] /\ rbac \in TablesType
    /\ conn \in Requests \union {Free} /\ lock \in Requests \union {Free}
    /\ cache \in [Secrets -> [grants : BOOLEAN, left : 1..AuthTTL] \union {None}]
    /\ tokenCache \in [Tokens -> [data : Datas, left : 1..RbacTTL, torn : BOOLEAN, missed : BOOLEAN]
                                 \union {None}]
    /\ permCache \in [Tokens -> [allowed : BOOLEAN, left : 1..RbacTTL, torn : BOOLEAN, why : Reasons]
                                \union {None}]
    /\ req \in [Requests -> RequestType]
    /\ writer \in [Writers -> [pc : {"idle", "auth", "data", "perm"}, scope : SUBSET Tokens]]
    /\ writes \in Nat /\ lost \in [Tokens -> 0..2 * RbacTTL]

Clearing(pcs, t) == \E w \in Writers : writer[w].pc \in pcs /\ t \in writer[w].scope

\* A verified token in the cache is the row of the table, unless a write has not
\* yet cleared it: VerifyToken stores it with the rows still open, so that no
\* write falls between its query and its store (auth.go:834-930 and SetMaxOpenConns).
VerifiedCurrent == \A s \in Secrets :
    LET row == token[s[1]] IN
    cache[s] # None =>
        \/ row.state = "on" /\ row.rotations = s[2] /\ cache[s].grants = row.grants
        \/ \E w \in Writers : writer[w].pc = "auth"

\* The loaded data of a token are what the tables hold, although three queries read
\* them, unless a write has not yet cleared them or clears nothing
\* (getTokenRBACData holds tokenCacheMu over the load, InvalidateAllCache waits for it).
DataCurrent == \A t \in Tokens :
    tokenCache[t] # None /\ token[t].state # "gone" =>
        \/ tokenCache[t].data = Load(t)
        \/ Clearing({"data"}, t)
        \/ tokenCache[t].missed

\* Both caches that are filled under a lock are current in this sense.
CachesCurrent == VerifiedCurrent /\ DataCurrent

\* A stored result is what the tables grant, but for four reasons: a write is about
\* to clear it; its check was overtaken by the clearing; the write was one that does
\* not clear it; a query failed and the check went on without the RBAC data.
NamedStale == \A t \in Tokens :
    permCache[t] # None /\ token[t].state = "on" =>
        \/ permCache[t].allowed = Allowed(t)
        \/ Clearing({"auth", "data", "perm"}, t)
        \/ permCache[t].why \in {"missed", "raced"}
        \/ permCache[t].why = "failed" /\ ~permCache[t].allowed

\* Whatever overtakes what, a permission that a valid token has lost is granted no
\* longer than the two TTLs together (in ticks, a TTL of n lets an entry live n - 1):
\* loaded data are not kept beyond their own TTL by being used.  A torn load may grant
\* what the tables never did.
StaleForTwoTTLs == \A t \in Tokens :
    /\ permCache[t] # None /\ permCache[t].allowed /\ ~permCache[t].torn /\ token[t].state = "on"
    => Allowed(t) \/ lost[t] <= 2 * (RbacTTL - 1)

\* What a stored result may be: one of these, and not for longer.
ResultCurrent == NamedStale /\ StaleForTwoTTLs

\* Nobody waits in a circle: who holds the connection needs neither it nor the lock,
\* and who holds the lock waits for the connection at most (loadTokenRBACData closes
\* the rows of each query before the next, getTokenRBACData gives the lock up on errors).
NoCircularWait ==
    /\ conn # Free => req[conn].pc = "remember"
    /\ \A r \in Requests : lock = r <=> req[r].pc \in {"teams", "roles", "mperms", "keep"}
===========================================================================
