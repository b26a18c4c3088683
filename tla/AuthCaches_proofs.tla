--------------------------- MODULE AuthCaches_proofs ---------------------------
(***************************************************************************)
(* Proofs about AuthCaches.                                                *)
(*                                                                         *)
(* The invariant says of every verified token, of all loaded data, of      *)
(* every result and of every call on the way what it may still differ from *)
(* the tables in, and how many ticks ago the tables last granted what it   *)
(* grants.  Each part is an operator of the value concerned, so that a     *)
(* step that leaves the tables alone keeps it for every value, and the     *)
(* writes are reduced to what they have in common (Written).               *)
(***************************************************************************)
EXTENDS AuthCaches, TLAPS

On(t) == token[t].state = "on"
Excused(q) == q.why \in {"missed", "raced"}

\* The tables have granted t the permission within the last n ticks, or t is not in use.
Recent(t, n) == On(t) => Allowed(t) \/ lost[t] <= n

\* A verified token e at the secret s.
VerifiedOK(s, e) == e # None =>
    /\ token[s[1]].state # "none"
    /\ \/ On(s[1]) /\ token[s[1]].rotations = s[2]
       \/ \E w \in Writers : writer[w].pc = "auth"
    /\ On(s[1]) => e.grants = token[s[1]].grants \/ Clearing({"auth"}, s[1])
    /\ e.grants => Recent(s[1], 0)

\* Loaded data e of the token t.
LoadedOK(t, e) == e # None =>
    /\ token[t].state # "none"
    /\ token[t].state # "gone" => e.data = Load(t) \/ Clearing({"data"}, t) \/ e.missed
    /\ ~e.torn /\ Permits(e.data) => Recent(t, RbacTTL - e.left)

\* A result e of the check for the token t.
ResultOK(t, e) == e # None =>
    /\ token[t].state # "none"
    /\ On(t) => \/ e.allowed = Allowed(t)
                \/ Clearing({"auth", "data", "perm"}, t)
                \/ e.why \in {"missed", "raced"}
                \/ e.why = "failed" /\ ~e.allowed
    /\ ~e.torn /\ e.allowed => Recent(t, 2 * RbacTTL - 1 - e.left)

\* A call q on the way: what it knows of its token, ...
Identified(q) ==
    /\ q.info \in [token : Tokens, grants : BOOLEAN]
    /\ q.info.token = q.secret[1]
    /\ q.pc = "remember" =>
           /\ On(q.secret[1]) /\ token[q.secret[1]].rotations = q.secret[2]
           /\ q.info.grants = token[q.secret[1]].grants
    /\ On(q.secret[1]) => \/ q.info.grants = token[q.secret[1]].grants
                          \/ Clearing({"auth"}, q.secret[1])
                          \/ Excused(q)
    /\ q.info.grants => Recent(q.secret[1], 0)

\* ... what it has read is what the tables hold, ...
ReadCurrent(q) ==
    /\ q.pc = "roles" => /\ q.data = [Nothing EXCEPT !.team = SeenTeam(q.secret[1])]
                         /\ SeenTeam(q.secret[1]) # "none"
    /\ q.pc = "mperms" => /\ q.data = [Nothing EXCEPT !.team = SeenTeam(q.secret[1]),
                                                      !.role = Seen(rbac.role)]
                          /\ SeenTeam(q.secret[1]) # "none" /\ Seen(rbac.role) # "none"
    /\ q.pc = "keep" => q.data = Load(q.secret[1])

\* ... unless a write that came between is noted, or waits for the lock, ...
Reading(q) ==
    /\ token[q.secret[1]].state # "gone" =>
           ReadCurrent(q) \/ Clearing({"data"}, q.secret[1]) \/ q.missed
    /\ q.pc # "keep" /\ ~q.torn => ReadCurrent(q)
    /\ q.pc = "keep" /\ ~q.torn /\ Permits(q.data) => Recent(q.secret[1], 0)

\* ... and what it has loaded or found.
HasData(q, batch) == q.pc = "answer" \/ (q.pc = "perm" /\ batch)
Informed(q) ==
    /\ On(q.secret[1]) => \/ q.data = Load(q.secret[1])
                          \/ Clearing({"data", "perm"}, q.secret[1])
                          \/ Excused(q)
                          \/ q.why = "failed" /\ q.data = Nothing
    /\ ~q.torn /\ Permits(q.data) => Recent(q.secret[1], RbacTTL - 1)

RequestOK(q, batch) == q.pc # "idle" =>
    /\ q.secret \in Secrets /\ token[q.secret[1]].state # "none"
    /\ q.missed => Excused(q)
    /\ q.pc # "query" => Identified(q)
    /\ q.pc \in {"roles", "mperms", "keep"} => Reading(q)
    /\ HasData(q, batch) => Informed(q)

\* Who holds the connection and the lock.
Held ==
    /\ \A r \in Requests : (conn = r) <=> (req[r].pc = "remember")
    /\ \A r \in Requests : (lock = r) <=> (req[r].pc \in {"teams", "roles", "mperms", "keep"})

Membership == rbac.members # {} => rbac.team \in {"on", "off"}

IInv ==
    /\ ACTypeOK /\ Held /\ Membership
    /\ \A s \in Secrets : VerifiedOK(s, cache[s])
    /\ \A t \in Tokens : LoadedOK(t, tokenCache[t])
    /\ \A t \in Tokens : ResultOK(t, permCache[t])
    /\ \A r \in Requests : RequestOK(req[r], r \in BatchRequests)

---------------------------------------------------------------------------
\* What the helpers return.

LEMMA BecauseResult ==
    ASSUME NEW why \in Reasons, NEW reason \in Reasons
    PROVE  /\ Because(why, reason) \in Reasons
           /\ why \in {"missed", "raced"} => Because(why, reason) = why
           /\ why \notin {"missed", "raced"} => Because(why, reason) = reason
  BY DEF Because, Reasons

LEMMA LoadType ==
    ASSUME rbac \in TablesType, NEW t
    PROVE  /\ SeenTeam(t) \in {"none", "off", "on"}
           /\ Seen(rbac.role) \in Levels /\ Seen(rbac.mperm) \in Levels
           /\ Load(t) \in Datas /\ Nothing \in Datas
  BY DEF TablesType, SeenTeam, Seen, Load, Levels, Datas, Nothing

LEMMA IdleType == IdleRequest \in RequestType /\ \A b : RequestOK(IdleRequest, b)
  BY DEF IdleRequest, RequestType, Nothing, Datas, Levels, Reasons, RequestOK

LEMMA OvertakenFields ==
    ASSUME NEW q \in RequestType, NEW S \in SUBSET Tokens, NEW reason \in {"missed", "raced"}
    PROVE  /\ Overtaken(q, S, reason) \in RequestType
           /\ Overtaken(q, S, reason).pc = q.pc /\ Overtaken(q, S, reason).secret = q.secret
           /\ Overtaken(q, S, reason).info = q.info /\ Overtaken(q, S, reason).data = q.data
           /\ Overtaken(q, S, reason).torn = q.torn /\ Overtaken(q, S, reason).missed = q.missed
           /\ Overtaken(q, S, reason).why = q.why \/ Excused(Overtaken(q, S, reason))
           /\ Excused(q) => Excused(Overtaken(q, S, reason))
           /\ q.pc # "idle" /\ q.secret[1] \in S => Excused(Overtaken(q, S, reason))
<1>1. Because(q.why, reason) \in Reasons /\ Because(q.why, reason) \in {"missed", "raced"}
  BY BecauseResult DEF RequestType, Reasons
<1>2. Overtaken(q, S, reason) = [q EXCEPT !.why = IF Called(q, S) THEN Because(q.why, reason) ELSE q.why]
  BY DEF Overtaken, RequestType
<1>3. /\ Overtaken(q, S, reason) \in RequestType
      /\ Overtaken(q, S, reason).pc = q.pc /\ Overtaken(q, S, reason).secret = q.secret
      /\ Overtaken(q, S, reason).info = q.info /\ Overtaken(q, S, reason).data = q.data
      /\ Overtaken(q, S, reason).torn = q.torn /\ Overtaken(q, S, reason).missed = q.missed
      /\ Overtaken(q, S, reason).why = IF Called(q, S) THEN Because(q.why, reason) ELSE q.why
  BY <1>1, <1>2 DEF RequestType
<1> QED  BY <1>1, <1>3 DEF Called, Excused

---------------------------------------------------------------------------
\* A step that touches neither the tables nor the writers nor the time.

Quiet == UNCHANGED <<tables, writer, lost>>

LEMMA QuietKeeps ==
    ASSUME Quiet
    PROVE  /\ \A s, e : VerifiedOK(s, e) => VerifiedOK(s, e)'
           /\ \A t, e : LoadedOK(t, e) => LoadedOK(t, e)'
           /\ \A t, e : ResultOK(t, e) => ResultOK(t, e)'
           /\ \A q, b : RequestOK(q, b) => RequestOK(q, b)'
<1> USE DEF Quiet, tables, On, Recent, Allowed, Load, Clearing, SeenTeam
<1>1. \A s, e : VerifiedOK(s, e) => VerifiedOK(s, e)'
  BY DEF VerifiedOK
<1>2. \A t, e : LoadedOK(t, e) => LoadedOK(t, e)'
  BY DEF LoadedOK
<1>3. \A t, e : ResultOK(t, e) => ResultOK(t, e)'
  BY DEF ResultOK
<1>4. \A q : Identified(q) => Identified(q)'
  BY DEF Identified
<1>5. \A q : Reading(q) => Reading(q)'
  BY DEF Reading, ReadCurrent
<1>6. \A q : Informed(q) => Informed(q)'
  BY DEF Informed
<1>7. \A q, b : RequestOK(q, b) => RequestOK(q, b)'
  BY <1>4, <1>5, <1>6 DEF RequestOK
<1> QED  BY <1>1, <1>2, <1>3, <1>7

\* Such a step preserves the invariant when what it puts into place is in order.
LEMMA QuietPreserves ==
    ASSUME IInv, Quiet, ACTypeOK', Held',
           \A s \in Secrets : cache'[s] = None \/ cache'[s] = cache[s] \/ VerifiedOK(s, cache'[s]),
           \A t \in Tokens : tokenCache'[t] = None \/ tokenCache'[t] = tokenCache[t]
                                                   \/ LoadedOK(t, tokenCache'[t]),
           \A t \in Tokens : permCache'[t] = None \/ permCache'[t] = permCache[t]
                                                  \/ ResultOK(t, permCache'[t]),
           \A r \in Requests : req'[r] = req[r] \/ RequestOK(req'[r], r \in BatchRequests)
    PROVE  IInv'
<1>1. Membership'
  BY DEF IInv, Membership, Quiet, tables
<1>2. \A s \in Secrets : VerifiedOK(s, cache[s])'
  <2> SUFFICES ASSUME NEW s \in Secrets PROVE VerifiedOK(s, cache[s])'
    OBVIOUS
  <2>1. VerifiedOK(s, cache'[s])
    BY DEF IInv, VerifiedOK
  <2> QED  BY <2>1, QuietKeeps
<1>3. \A t \in Tokens : LoadedOK(t, tokenCache[t])'
  <2> SUFFICES ASSUME NEW t \in Tokens PROVE LoadedOK(t, tokenCache[t])'
    OBVIOUS
  <2>1. LoadedOK(t, tokenCache'[t])
    BY DEF IInv, LoadedOK
  <2> QED  BY <2>1, QuietKeeps
<1>4. \A t \in Tokens : ResultOK(t, permCache[t])'
  <2> SUFFICES ASSUME NEW t \in Tokens PROVE ResultOK(t, permCache[t])'
    OBVIOUS
  <2>1. ResultOK(t, permCache'[t])
    BY DEF IInv, ResultOK
  <2> QED  BY <2>1, QuietKeeps
<1>5. \A r \in Requests : RequestOK(req[r], r \in BatchRequests)'
  <2> SUFFICES ASSUME NEW r \in Requests PROVE RequestOK(req[r], r \in BatchRequests)'
    OBVIOUS
  <2>1. RequestOK(req'[r], r \in BatchRequests)
    BY DEF IInv
  <2> QED  BY <2>1, QuietKeeps
<1> QED  BY <1>1, <1>2, <1>3, <1>4, <1>5 DEF IInv

---------------------------------------------------------------------------
\* VerifyToken.

LEMMA LookUpKeeps ==
    ASSUME IInv, NEW r \in Requests, LookUp(r)
    PROVE  IInv'
<1> DEFINE Call(t, n) == [IdleRequest EXCEPT !.secret = <<t, n>>]
           Begin(t, n) ==
             /\ token[t].state # "none"
             /\ req' = [req EXCEPT ![r] =
                    IF cache[<<t, n>>] # None
                    THEN [Call(t, n) EXCEPT !.pc = FirstOf(r),
                                            !.info = [token |-> t, grants |-> cache[<<t, n>>].grants]]
                    ELSE [Call(t, n) EXCEPT !.pc = "query"]]
<1>0. PICK t \in Tokens : \E n \in 0..token[t].rotations : Begin(t, n)
  BY Zenon DEF LookUp
<1>1. PICK n \in 0..token[t].rotations : Begin(t, n)
  BY <1>0
<1>2. ACTypeOK /\ req[r] \in RequestType /\ token[t] \in RowType
  BY DEF IInv, ACTypeOK
<1>3. <<t, n>> \in Secrets /\ <<t, n>>[1] = t
  BY <1>2, CachesAssumption DEF Secrets, RowType
<1>4. cache[<<t, n>>] # None => cache[<<t, n>>].grants \in BOOLEAN /\ VerifiedOK(<<t, n>>, cache[<<t, n>>])
  BY <1>2, <1>3 DEF ACTypeOK, IInv
<1>5. req'[r].pc \in {"query", "perm", "data"} /\ req'[r] \in RequestType
  BY <1>1, <1>2, <1>3, <1>4 DEF ACTypeOK, RequestType, IdleRequest, FirstOf, Nothing, Datas, Levels, Reasons
<1>6. RequestOK(req'[r], r \in BatchRequests)
  <2>1. CASE cache[<<t, n>>] = None
    BY <1>1, <1>2, <1>3, <2>1 DEF ACTypeOK, RequestOK, IdleRequest, HasData
  <2>2. CASE cache[<<t, n>>] # None
    <3> DEFINE q == [Call(t, n) EXCEPT !.pc = FirstOf(r),
                                       !.info = [token |-> t, grants |-> cache[<<t, n>>].grants]]
    <3>1. req'[r] = q
      BY <1>1, <1>2, <2>2 DEF ACTypeOK
    <3>2. /\ q.pc = FirstOf(r) /\ q.secret = <<t, n>> /\ ~q.missed
          /\ q.info = [token |-> t, grants |-> cache[<<t, n>>].grants]
      BY DEF IdleRequest
    <3>3. Identified(q)
      BY <1>3, <1>4, <2>2, <3>2 DEF Identified, VerifiedOK, FirstOf
    <3> HIDE DEF q
    <3>4. RequestOK(q, r \in BatchRequests)
      BY <1>1, <1>3, <3>2, <3>3 DEF RequestOK, HasData, FirstOf
    <3> QED  BY <3>1, <3>4
  <2> QED  BY <2>1, <2>2
<1>7. ACTypeOK'
  BY <1>1, <1>2, <1>5 DEF ACTypeOK, LookUp, tables, caches, clock
<1>8. Held'
  BY <1>1, <1>2, <1>5 DEF Held, IInv, ACTypeOK, LookUp
<1>9. Quiet /\ UNCHANGED caches
  BY DEF LookUp, Quiet, clock
<1>10. \A x \in Requests : req'[x] = req[x] \/ RequestOK(req'[x], x \in BatchRequests)
  BY <1>1, <1>2, <1>6 DEF ACTypeOK
<1> QED  BY <1>7, <1>8, <1>9, <1>10, QuietPreserves DEF caches

LEMMA QueryTokenKeeps ==
    ASSUME IInv, NEW r \in Requests, QueryToken(r)
    PROVE  IInv'
<1> DEFINE t == req[r].secret[1]
           found == token[t].state = "on" /\ token[t].rotations = req[r].secret[2] /\ token[t].life # "over"
<1>1. ACTypeOK /\ req[r] \in RequestType /\ req[r].pc = "query" /\ conn = Free /\ Free \notin Requests
  BY CachesAssumption DEF IInv, ACTypeOK, QueryToken
<1>2. RequestOK(req[r], r \in BatchRequests)
  BY DEF IInv
<1>3. t \in Tokens /\ token[t] \in RowType
  BY <1>1, <1>2 DEF RequestOK, Secrets, ACTypeOK
<1>4. req'[r] \in RequestType /\ RequestOK(req'[r], r \in BatchRequests)
  <2>1. CASE found
    <3>1. req' = [req EXCEPT ![r].pc = "remember", ![r].info = [token |-> t, grants |-> token[t].grants]]
      BY <2>1 DEF QueryToken
    <3>2. req'[r] = [req[r] EXCEPT !.pc = "remember", !.info = [token |-> t, grants |-> token[t].grants]]
      BY <1>1, <3>1 DEF ACTypeOK
    <3>3. /\ req'[r].pc = "remember" /\ req'[r].secret = req[r].secret /\ req'[r].missed = req[r].missed
          /\ req'[r].info = [token |-> t, grants |-> token[t].grants] /\ req'[r].why = req[r].why
      BY <1>1, <3>2 DEF RequestType
    <3>5. [token |-> t, grants |-> token[t].grants] \in [token : Tokens, grants : BOOLEAN]
      BY <1>3 DEF RowType
    <3>6. req'[r] \in RequestType
      BY <1>1, <3>2, <3>5 DEF RequestType
    <3>4. Identified(req'[r])
      BY <1>3, <2>1, <3>3 DEF Identified, On, Recent, Allowed, Granted, RowType
    <3> QED  BY <1>1, <1>2, <3>3, <3>4, <3>6 DEF RequestOK, HasData, Excused
  <2>2. CASE ~found
    <3>1. req' = [req EXCEPT ![r] = IdleRequest]
      BY <2>2 DEF QueryToken
    <3> QED  BY <1>1, <3>1, IdleType DEF ACTypeOK
  <2> QED  BY <2>1, <2>2
<1>5. /\ conn' \in {Free, r} /\ (conn' = r <=> req'[r].pc = "remember")
      /\ req'[r].pc \in {"remember", "idle"}
      /\ \A x \in Requests \ {r} : req'[x] = req[x]
  <2>1. CASE found
    <3>1. /\ req' = [req EXCEPT ![r].pc = "remember", ![r].info = [token |-> t, grants |-> token[t].grants]]
          /\ conn' = r
      BY <2>1 DEF QueryToken
    <3> QED  BY <1>1, <3>1 DEF ACTypeOK, RequestType
  <2>2. CASE ~found
    <3>1. req' = [req EXCEPT ![r] = IdleRequest] /\ conn' = conn
      BY <2>2 DEF QueryToken
    <3> QED  BY <1>1, <3>1 DEF ACTypeOK, IdleRequest
  <2> QED  BY <2>1, <2>2
<1>6. req' \in [Requests -> RequestType]
  BY <1>1, <1>4, <1>5 DEF ACTypeOK, QueryToken
<1>7. ACTypeOK'
  BY <1>1, <1>5, <1>6 DEF ACTypeOK, QueryToken, tables, caches, clock
<1>8. Held'
  BY <1>1, <1>5 DEF Held, IInv, QueryToken
<1>9. Quiet /\ UNCHANGED caches
  BY DEF QueryToken, Quiet, clock
<1>10. \A x \in Requests : req'[x] = req[x] \/ RequestOK(req'[x], x \in BatchRequests)
  BY <1>4, <1>5
<1> QED  BY <1>7, <1>8, <1>9, <1>10, QuietPreserves DEF caches

\* The step of one request.
LEMMA RequestMoves ==
    ASSUME IInv, NEW r \in Requests, UNCHANGED <<tables, writer, clock>>,
           req' \in [Requests -> RequestType], \A x \in Requests \ {r} : req'[x] = req[x],
           RequestOK(req'[r], r \in BatchRequests),
           \/ conn' = conn /\ (req'[r].pc = "remember" <=> req[r].pc = "remember")
           \/ conn = r /\ conn' = Free /\ req'[r].pc # "remember",
           \/ lock' = lock /\ (req'[r].pc \in {"teams", "roles", "mperms", "keep"}
                                 <=> req[r].pc \in {"teams", "roles", "mperms", "keep"})
           \/ lock = r /\ lock' = Free /\ req'[r].pc \notin {"teams", "roles", "mperms", "keep"}
           \/ lock = Free /\ lock' = r /\ req'[r].pc \in {"teams", "roles", "mperms", "keep"},
           cache' \in [Secrets -> [grants : BOOLEAN, left : 1..AuthTTL] \union {None}],
           tokenCache' \in [Tokens -> [data : Datas, left : 1..RbacTTL, torn : BOOLEAN, missed : BOOLEAN]
                                        \union {None}],
           permCache' \in [Tokens -> [allowed : BOOLEAN, left : 1..RbacTTL, torn : BOOLEAN, why : Reasons]
                                       \union {None}],
           \A s \in Secrets : cache'[s] = None \/ cache'[s] = cache[s] \/ VerifiedOK(s, cache'[s]),
           \A t \in Tokens : tokenCache'[t] = None \/ tokenCache'[t] = tokenCache[t]
                                                   \/ LoadedOK(t, tokenCache'[t]),
           \A t \in Tokens : permCache'[t] = None \/ permCache'[t] = permCache[t]
                                                  \/ ResultOK(t, permCache'[t])
    PROVE  IInv'
<1>1. ACTypeOK /\ Held /\ Free \notin Requests
  BY CachesAssumption DEF IInv
<1>2. ACTypeOK'
  BY <1>1 DEF ACTypeOK, tables, clock
<1>3. Held'
  <2>1. \A x \in Requests : (conn' = x) <=> (req'[x].pc = "remember")
    BY <1>1 DEF Held
  <2>2. \A x \in Requests : (lock' = x) <=> (req'[x].pc \in {"teams", "roles", "mperms", "keep"})
    BY <1>1 DEF Held
  <2> QED  BY <2>1, <2>2 DEF Held
<1>4. Quiet
  BY DEF Quiet, clock
<1>5. \A x \in Requests : req'[x] = req[x] \/ RequestOK(req'[x], x \in BatchRequests)
  OBVIOUS
<1> QED  BY <1>2, <1>3, <1>4, <1>5, QuietPreserves

LEMMA RememberKeeps ==
    ASSUME IInv, NEW r \in Requests, Remember(r)
    PROVE  IInv'
<1> DEFINE entry == [grants |-> req[r].info.grants, left |-> AuthTTL]
           secret == req[r].secret
<1>1. ACTypeOK /\ Held /\ req[r] \in RequestType /\ req[r].pc = "remember" /\ conn = r
  BY DEF IInv, ACTypeOK, Held, Remember
<1>2. RequestOK(req[r], r \in BatchRequests)
  BY DEF IInv
<1>3. secret \in Secrets /\ Identified(req[r])
  BY <1>1, <1>2 DEF RequestOK
<1>4. /\ cache' \in [Secrets -> [grants : BOOLEAN, left : 1..AuthTTL] \union {None}]
      /\ cache'[secret] = entry
      /\ \A s \in Secrets \ {secret} : cache'[s] = cache[s] \/ cache'[s] = None
  <2> DEFINE kept == {s \in Secrets : cache[s] # None}
             oldest == {s \in kept : \A o \in kept : cache[s].left <= cache[o].left}
             E == [grants : BOOLEAN, left : 1..AuthTTL]
  <2>1. cache' \in Inserted(cache, secret, entry, oldest)
    BY DEF Remember
  <2>2. entry \in E
    BY <1>3, CachesAssumption DEF Identified
  <2>3. oldest \in SUBSET Secrets /\ cache \in [Secrets -> E \union {None}]
    BY <1>1 DEF ACTypeOK
  <2>4. secret \in Secrets
    BY <1>3
  <2> HIDE DEF E, oldest, entry, secret
  <2>5. \/ cache' = [cache EXCEPT ![secret] = entry]
        \/ \E j \in oldest : cache' = [cache EXCEPT ![j] = None, ![secret] = entry]
    BY <2>1 DEF Inserted
  <2>6. /\ cache' \in [Secrets -> E \union {None}] /\ cache'[secret] = entry
        /\ \A s \in Secrets \ {secret} : cache'[s] = cache[s] \/ cache'[s] = None
    BY <2>2, <2>3, <2>4, <2>5
  <2> QED  BY <2>6 DEF E
<1>5. VerifiedOK(secret, entry)
  BY <1>1, <1>2, <1>3 DEF RequestOK, Identified, VerifiedOK
<1>6. /\ req' \in [Requests -> RequestType] /\ \A x \in Requests \ {r} : req'[x] = req[x]
      /\ req'[r] = [req[r] EXCEPT !.pc = FirstOf(r)]
  BY <1>1 DEF Remember, ACTypeOK, RequestType, FirstOf
<1>7. RequestOK(req'[r], r \in BatchRequests) /\ req'[r].pc \in {"data", "perm"}
  BY <1>1, <1>2, <1>6 DEF RequestOK, HasData, Identified, FirstOf, RequestType, Excused
<1>8. UNCHANGED <<tables, lock, tokenCache, permCache, writer, clock>> /\ conn' = Free
  BY DEF Remember
<1>9. \A s \in Secrets : cache'[s] = None \/ cache'[s] = cache[s] \/ VerifiedOK(s, cache'[s])
  <2> HIDE DEF entry, secret
  <2> QED  BY <1>4, <1>5
<1>10. lock' = lock /\ (req'[r].pc \in {"teams", "roles", "mperms", "keep"}
                          <=> req[r].pc \in {"teams", "roles", "mperms", "keep"})
  BY <1>1, <1>7, <1>8
<1> QED  BY <1>1, <1>4, <1>6, <1>7, <1>8, <1>9, <1>10, RequestMoves DEF ACTypeOK

---------------------------------------------------------------------------
\* CheckPermission and CheckPermissionsBatch.

LEMMA LookUpPermKeeps ==
    ASSUME IInv, NEW r \in Requests, LookUpPerm(r)
    PROVE  IInv'
<1>1. ACTypeOK /\ req[r] \in RequestType /\ req[r].pc = "perm"
  BY DEF IInv, ACTypeOK, LookUpPerm
<1>2. RequestOK(req[r], r \in BatchRequests)
  BY DEF IInv
<1>3. \/ req' = [req EXCEPT ![r] = IdleRequest]
      \/ req' = [req EXCEPT ![r].pc = IF r \in BatchRequests THEN "answer" ELSE "data"]
  BY DEF LookUpPerm
<1>4. /\ req' \in [Requests -> RequestType] /\ \A x \in Requests \ {r} : req'[x] = req[x]
      /\ \/ req'[r] = IdleRequest
         \/ req'[r] = [req[r] EXCEPT !.pc = IF r \in BatchRequests THEN "answer" ELSE "data"]
  <2>1. [req[r] EXCEPT !.pc = IF r \in BatchRequests THEN "answer" ELSE "data"] \in RequestType
    BY <1>1 DEF RequestType
  <2> QED  BY <1>1, <1>3, <2>1, IdleType DEF ACTypeOK
<1>5. /\ RequestOK(req'[r], r \in BatchRequests)
      /\ req'[r].pc \in {"idle", "answer", "data"}
  <2>1. CASE req'[r] = IdleRequest
    BY <2>1 DEF IdleRequest, RequestOK
  <2>2. CASE req'[r] = [req[r] EXCEPT !.pc = IF r \in BatchRequests THEN "answer" ELSE "data"]
    BY <1>1, <1>2, <2>2 DEF RequestOK, HasData, Identified, Informed, Excused, RequestType
  <2> QED  BY <1>4, <2>1, <2>2
<1>6. UNCHANGED <<tables, conn, lock, caches, writer, clock>>
  BY DEF LookUpPerm
<1> QED  BY <1>1, <1>4, <1>5, <1>6, RequestMoves DEF ACTypeOK, caches

LEMMA GetDataKeeps ==
    ASSUME IInv, NEW r \in Requests, GetData(r)
    PROVE  IInv'
<1> DEFINE t == req[r].info.token
           e == tokenCache[t]
           why == IF e.missed THEN Because(req[r].why, "missed") ELSE req[r].why
           found == [req[r] EXCEPT !.pc = AfterData(r), !.data = e.data, !.torn = e.torn,
                                   !.missed = e.missed, !.why = why]
           waiting == [req[r] EXCEPT !.pc = "teams"]
<1>1. ACTypeOK /\ req[r] \in RequestType /\ req[r].pc = "data" /\ lock = Free
  BY DEF IInv, ACTypeOK, GetData
<1>2. RequestOK(req[r], r \in BatchRequests)
  BY DEF IInv
<1>3. Identified(req[r]) /\ t \in Tokens /\ t = req[r].secret[1]
  BY <1>1, <1>2 DEF RequestOK, Identified
<1>4. \/ e # None /\ req' = [req EXCEPT ![r] = found] /\ lock' = lock
      \/ e = None /\ req' = [req EXCEPT ![r] = waiting] /\ lock' = r
  <2>1. CASE e # None
    <3>1. req' = [req EXCEPT ![r].pc = AfterData(r), ![r].data = e.data, ![r].torn = e.torn,
                             ![r].missed = e.missed,
                             ![r].why = IF e.missed THEN Because(@, "missed") ELSE @] /\ lock' = lock
      BY <2>1 DEF GetData
    <3> QED  BY <1>1, <2>1, <3>1 DEF ACTypeOK
  <2>2. CASE e = None
    BY <1>1, <2>2 DEF GetData, ACTypeOK
  <2> QED  BY <2>1, <2>2
<1>5. UNCHANGED <<tables, conn, caches, writer, clock>>
  BY DEF GetData
<1>6. CASE e # None /\ req' = [req EXCEPT ![r] = found] /\ lock' = lock
  <2>1. /\ e \in [data : Datas, left : 1..RbacTTL, torn : BOOLEAN, missed : BOOLEAN]
        /\ LoadedOK(t, e)
    BY <1>1, <1>3, <1>6 DEF ACTypeOK, IInv
  <2>2. why \in Reasons /\ (e.missed \/ Excused(req[r]) => why \in {"missed", "raced"})
    BY <1>1, <2>1, BecauseResult DEF Excused, Reasons, RequestType
  <2>3. AfterData(r) \in {"perm", "answer"} /\ HasData(found, r \in BatchRequests)
    BY <1>1 DEF AfterData, HasData, RequestType
  <2> HIDE DEF why
  <2>4. /\ found \in RequestType /\ found.pc \in {"perm", "answer"} /\ found.secret = req[r].secret
        /\ found.info = req[r].info /\ found.data = e.data /\ found.torn = e.torn
        /\ found.missed = e.missed /\ found.why = why
    BY <1>1, <2>1, <2>2, <2>3 DEF RequestType
  <2> HIDE DEF found
  <2>5. Identified(found)
    BY <1>1, <1>3, <2>2, <2>4 DEF Identified, Excused
  <2>6. Informed(found)
    <3>1. On(t) => \/ found.data = Load(t) \/ Clearing({"data", "perm"}, t) \/ Excused(found)
      BY <1>6, <2>1, <2>2, <2>4 DEF LoadedOK, On, Clearing, Excused
    <3>2. ~found.torn /\ Permits(found.data) => Recent(t, RbacTTL - 1)
      <4>1. e.left \in 1..RbacTTL /\ RbacTTL \in Nat \ {0} /\ (On(t) => lost[t] \in Nat)
        BY <1>1, <1>3, <2>1, CachesAssumption DEF ACTypeOK
      <4>2. RbacTTL - e.left <= RbacTTL - 1
        BY <4>1
      <4>3. Recent(t, RbacTTL - e.left) => Recent(t, RbacTTL - 1)
        BY <4>1, <4>2 DEF Recent
      <4> QED  BY <1>6, <2>1, <2>4, <4>3 DEF LoadedOK
    <3> QED  BY <1>3, <2>4, <3>1, <3>2 DEF Informed
  <2>7. RequestOK(found, r \in BatchRequests)
    BY <1>1, <1>2, <2>2, <2>4, <2>5, <2>6 DEF RequestOK, Excused
  <2>8. /\ req' \in [Requests -> RequestType] /\ req'[r] = found
        /\ \A x \in Requests \ {r} : req'[x] = req[x]
    BY <1>1, <1>6, <2>4 DEF ACTypeOK
  <2> QED  BY <1>1, <1>5, <1>6, <2>4, <2>7, <2>8, RequestMoves DEF ACTypeOK, caches
<1>7. CASE e = None /\ req' = [req EXCEPT ![r] = waiting] /\ lock' = r
  <2>1. /\ waiting \in RequestType /\ waiting.pc = "teams" /\ waiting.secret = req[r].secret
        /\ waiting.info = req[r].info /\ waiting.missed = req[r].missed /\ waiting.why = req[r].why
    BY <1>1 DEF RequestType
  <2> HIDE DEF waiting
  <2>2. RequestOK(waiting, r \in BatchRequests)
    BY <1>1, <1>2, <2>1 DEF RequestOK, HasData, Identified, Excused
  <2>3. /\ req' \in [Requests -> RequestType] /\ req'[r] = waiting
        /\ \A x \in Requests \ {r} : req'[x] = req[x]
    BY <1>1, <1>7, <2>1 DEF ACTypeOK
  <2> QED  BY <1>1, <1>5, <1>7, <2>1, <2>2, <2>3, RequestMoves DEF ACTypeOK, caches
<1> QED  BY <1>4, <1>6, <1>7

LEMMA LoadFailsKeeps ==
    ASSUME IInv, NEW r \in Requests, LoadFails(r)
    PROVE  IInv'
<1> DEFINE without == [req[r] EXCEPT !.pc = "answer", !.data = Nothing, !.why = Because(@, "failed")]
<1>1. ACTypeOK /\ Held /\ req[r] \in RequestType /\ req[r].pc \in {"teams", "roles", "mperms"} /\ lock = r
  BY DEF IInv, ACTypeOK, Held, LoadFails
<1>2. RequestOK(req[r], r \in BatchRequests)
  BY DEF IInv
<1>3. UNCHANGED <<tables, conn, caches, writer, clock>> /\ lock' = Free
  BY DEF LoadFails
<1>4. \/ req' = [req EXCEPT ![r] = IdleRequest]
      \/ req' = [req EXCEPT ![r] = without]
  BY <1>1 DEF LoadFails, ACTypeOK
<1>5. CASE req' = [req EXCEPT ![r] = IdleRequest]
  <2>1. /\ req' \in [Requests -> RequestType] /\ req'[r] = IdleRequest /\ req'[r].pc = "idle"
        /\ \A x \in Requests \ {r} : req'[x] = req[x]
    BY <1>1, <1>5, IdleType DEF ACTypeOK, IdleRequest
  <2>2. RequestOK(req'[r], r \in BatchRequests)
    BY <2>1 DEF RequestOK
  <2> QED  BY <1>1, <1>3, <2>1, <2>2, RequestMoves DEF ACTypeOK, caches
<1>6. CASE req' = [req EXCEPT ![r] = without]
  <2>1. /\ Because(req[r].why, "failed") \in {"missed", "raced", "failed"}
        /\ Excused(req[r]) => Because(req[r].why, "failed") \in {"missed", "raced"}
    BY <1>1, BecauseResult DEF RequestType, Reasons, Excused
  <2>2. /\ without \in RequestType /\ without.pc = "answer" /\ without.secret = req[r].secret
        /\ without.info = req[r].info /\ without.data = Nothing
        /\ without.missed = req[r].missed /\ without.why = Because(req[r].why, "failed")
    BY <1>1, <2>1 DEF RequestType, Nothing, Datas, Levels, Reasons
  <2> HIDE DEF without
  <2>3. Identified(without) /\ Informed(without)
    BY <1>1, <1>2, <2>1, <2>2 DEF RequestOK, Identified, Informed, Excused, Permits, Nothing
  <2>4. RequestOK(without, r \in BatchRequests)
    BY <1>1, <1>2, <2>1, <2>2, <2>3 DEF RequestOK, Excused
  <2>5. /\ req' \in [Requests -> RequestType] /\ req'[r] = without
        /\ \A x \in Requests \ {r} : req'[x] = req[x]
    BY <1>1, <1>6, <2>2 DEF ACTypeOK
  <2> QED  BY <1>1, <1>3, <2>2, <2>4, <2>5, RequestMoves DEF ACTypeOK, caches
<1> QED  BY <1>4, <1>5, <1>6

\* loadTokenRBACData.  What a query reads continues what the earlier ones have read.
LEMMA ReadTeamsKeeps ==
    ASSUME IInv, NEW r \in Requests, ReadTeams(r)
    PROVE  IInv'
<1> DEFINE seen == SeenTeam(req[r].info.token)
           read == [req[r] EXCEPT !.data = [Nothing EXCEPT !.team = seen],
                                  !.pc = IF seen = "none" THEN "keep" ELSE "roles"]
<1>1. ACTypeOK /\ Held /\ req[r] \in RequestType /\ req[r].pc = "teams" /\ lock = r
  BY DEF IInv, ACTypeOK, Held, ReadTeams
<1>2. RequestOK(req[r], r \in BatchRequests)
  BY DEF IInv
<1>3. Identified(req[r]) /\ seen = SeenTeam(req[r].secret[1])
  BY <1>1, <1>2 DEF RequestOK, Identified
<1>4. seen \in {"none", "off", "on"}
  BY <1>1, LoadType DEF ACTypeOK
<1>5. UNCHANGED <<tables, conn, lock, caches, writer, clock>>
  BY DEF ReadTeams
<1>6. [Nothing EXCEPT !.team = seen] \in Datas
  BY <1>4 DEF Nothing, Datas, Levels
<1>7. req' = [req EXCEPT ![r] = read]
  BY <1>1 DEF ReadTeams, ACTypeOK
<1> HIDE DEF seen
<1>8. /\ read \in RequestType /\ read.pc = (IF seen = "none" THEN "keep" ELSE "roles")
      /\ read.secret = req[r].secret /\ read.info = req[r].info
      /\ read.data = [Nothing EXCEPT !.team = seen] /\ read.torn = req[r].torn
      /\ read.missed = req[r].missed /\ read.why = req[r].why
  BY <1>1, <1>4, <1>6 DEF RequestType
<1> HIDE DEF read
<1>9. Identified(read)
  BY <1>1, <1>3, <1>8 DEF Identified, Excused
<1>10. Reading(read)
  <2>1. ReadCurrent(read)
    BY <1>3, <1>8 DEF ReadCurrent, Load, Nothing
  <2>2. read.pc = "keep" => ~Permits(read.data)
    BY <1>8 DEF Permits, Nothing
  <2> QED  BY <2>1, <2>2 DEF Reading
<1>11. RequestOK(read, r \in BatchRequests)
  BY <1>1, <1>2, <1>8, <1>9, <1>10 DEF RequestOK, HasData, Excused
<1>12. /\ req' \in [Requests -> RequestType] /\ req'[r] = read
       /\ \A x \in Requests \ {r} : req'[x] = req[x]
  BY <1>1, <1>7, <1>8 DEF ACTypeOK
<1>13. read.pc \in {"keep", "roles"}
  BY <1>8
<1> QED  BY <1>1, <1>5, <1>11, <1>12, <1>13, RequestMoves DEF ACTypeOK, caches

LEMMA ReadRolesKeeps ==
    ASSUME IInv, NEW r \in Requests, ReadRoles(r)
    PROVE  IInv'
<1> DEFINE seen == Seen(rbac.role)
           data == [req[r].data EXCEPT !.role = seen]
           read == [req[r] EXCEPT !.data = data, !.pc = IF seen = "none" THEN "keep" ELSE "mperms"]
           t == req[r].secret[1]
<1>1. ACTypeOK /\ Held /\ req[r] \in RequestType /\ req[r].pc = "roles" /\ lock = r
  BY DEF IInv, ACTypeOK, Held, ReadRoles
<1>2. RequestOK(req[r], r \in BatchRequests)
  BY DEF IInv
<1>3. Identified(req[r]) /\ Reading(req[r])
  BY <1>1, <1>2 DEF RequestOK
<1>4. seen \in Levels
  BY <1>1, LoadType DEF ACTypeOK
<1>5. UNCHANGED <<tables, conn, lock, caches, writer, clock>>
  BY DEF ReadRoles
<1>6. data \in Datas /\ data.role = seen /\ req[r].data \in Datas
  BY <1>1, <1>4 DEF RequestType, Datas
<1>7. req' = [req EXCEPT ![r] = read]
  BY <1>1 DEF ReadRoles, ACTypeOK
<1>8. /\ read \in RequestType /\ read.pc = (IF seen = "none" THEN "keep" ELSE "mperms")
      /\ read.secret = req[r].secret /\ read.info = req[r].info
      /\ read.data = data /\ read.torn = req[r].torn
      /\ read.missed = req[r].missed /\ read.why = req[r].why
  <2> HIDE DEF seen, data
  <2> QED  BY <1>1, <1>4, <1>6 DEF RequestType
<1>9. ReadCurrent(req[r]) => ReadCurrent(read)
  <2> SUFFICES ASSUME ReadCurrent(req[r]) PROVE ReadCurrent(read)
    OBVIOUS
  <2>1. req[r].data = [Nothing EXCEPT !.team = SeenTeam(t)] /\ SeenTeam(t) # "none"
    BY <1>1 DEF ReadCurrent
  <2>2. data = [Nothing EXCEPT !.team = SeenTeam(t), !.role = seen]
    BY <2>1 DEF Nothing
  <2> HIDE DEF read, data
  <2>3. seen = "none" => data = Load(t)
    BY <2>1, <2>2 DEF Load, Nothing
  <2> QED  BY <1>8, <2>1, <2>2, <2>3 DEF ReadCurrent
<1> HIDE DEF read
<1>10. Identified(read)
  BY <1>1, <1>3, <1>8 DEF Identified, Excused
<1>11. Reading(read)
  <2>1. read.pc = "keep" => ~Permits(read.data)
    BY <1>6, <1>8 DEF Permits
  <2> QED  BY <1>1, <1>3, <1>8, <1>9, <2>1 DEF Reading
<1>12. RequestOK(read, r \in BatchRequests)
  BY <1>1, <1>2, <1>8, <1>10, <1>11 DEF RequestOK, HasData, Excused
<1>13. /\ req' \in [Requests -> RequestType] /\ req'[r] = read
       /\ \A x \in Requests \ {r} : req'[x] = req[x]
  BY <1>1, <1>7, <1>8 DEF ACTypeOK
<1>14. read.pc \in {"keep", "mperms"}
  BY <1>8
<1> QED  BY <1>1, <1>5, <1>12, <1>13, <1>14, RequestMoves DEF ACTypeOK, caches

LEMMA ReadMPermsKeeps ==
    ASSUME IInv, NEW r \in Requests, ReadMPerms(r)
    PROVE  IInv'
<1> DEFINE seen == Seen(rbac.mperm)
           data == [req[r].data EXCEPT !.mperm = seen]
           read == [req[r] EXCEPT !.data = data, !.pc = "keep"]
           t == req[r].secret[1]
<1>1. ACTypeOK /\ Held /\ req[r] \in RequestType /\ req[r].pc = "mperms" /\ lock = r
  BY DEF IInv, ACTypeOK, Held, ReadMPerms
<1>2. RequestOK(req[r], r \in BatchRequests)
  BY DEF IInv
<1>3. Identified(req[r]) /\ Reading(req[r]) /\ t \in Tokens
  BY <1>1, <1>2 DEF RequestOK, Secrets
<1>4. seen \in Levels
  BY <1>1, LoadType DEF ACTypeOK
<1>5. UNCHANGED <<tables, conn, lock, caches, writer, clock>>
  BY DEF ReadMPerms
<1>6. data \in Datas
  BY <1>1, <1>4 DEF RequestType, Datas
<1>7. req' = [req EXCEPT ![r] = read]
  BY <1>1 DEF ReadMPerms, ACTypeOK
<1>8. /\ read \in RequestType /\ read.pc = "keep"
      /\ read.secret = req[r].secret /\ read.info = req[r].info
      /\ read.data = data /\ read.torn = req[r].torn
      /\ read.missed = req[r].missed /\ read.why = req[r].why
  <2> HIDE DEF seen, data
  <2> QED  BY <1>1, <1>6 DEF RequestType
<1>9. ReadCurrent(req[r]) => data = Load(t)
  <2> SUFFICES ASSUME ReadCurrent(req[r]) PROVE data = Load(t)
    OBVIOUS
  <2>1. /\ req[r].data = [Nothing EXCEPT !.team = SeenTeam(t), !.role = Seen(rbac.role)]
        /\ SeenTeam(t) # "none" /\ Seen(rbac.role) # "none"
    BY <1>1 DEF ReadCurrent
  <2>2. data = [Nothing EXCEPT !.team = SeenTeam(t), !.role = Seen(rbac.role), !.mperm = seen]
    BY <2>1 DEF Nothing
  <2>3. Load(t) = [team |-> SeenTeam(t), role |-> Seen(rbac.role), mperm |-> Seen(rbac.mperm)]
    BY <2>1 DEF Load
  <2> HIDE DEF data, seen
  <2>4. data = [team |-> SeenTeam(t), role |-> Seen(rbac.role), mperm |-> seen]
    BY <2>2 DEF Nothing
  <2> QED  BY <2>3, <2>4 DEF seen
<1> HIDE DEF read, data
<1>10. Identified(read)
  BY <1>1, <1>3, <1>8 DEF Identified, Excused
<1>11. Reading(read)
  <2>1. ReadCurrent(req[r]) => ReadCurrent(read)
    BY <1>8, <1>9 DEF ReadCurrent
  <2>2. ~read.torn /\ Permits(read.data) => Recent(t, 0)
    BY <1>1, <1>3, <1>8, <1>9 DEF Reading, Recent, Allowed, Granted, On
  <2> QED  BY <1>1, <1>3, <1>8, <2>1, <2>2 DEF Reading
<1>12. RequestOK(read, r \in BatchRequests)
  BY <1>1, <1>2, <1>8, <1>10, <1>11 DEF RequestOK, HasData, Excused
<1>13. /\ req' \in [Requests -> RequestType] /\ req'[r] = read
       /\ \A x \in Requests \ {r} : req'[x] = req[x]
  BY <1>1, <1>7, <1>8 DEF ACTypeOK
<1> QED  BY <1>1, <1>5, <1>8, <1>12, <1>13, RequestMoves DEF ACTypeOK, caches

LEMMA KeepDataKeeps ==
    ASSUME IInv, NEW r \in Requests, KeepData(r)
    PROVE  IInv'
<1> DEFINE t == req[r].info.token
           entry == [data |-> req[r].data, left |-> RbacTTL, torn |-> req[r].torn,
                     missed |-> req[r].missed]
           kept == {x \in Tokens : tokenCache[x] # None}
           E == [data : Datas, left : 1..RbacTTL, torn : BOOLEAN, missed : BOOLEAN]
           done == [req[r] EXCEPT !.pc = AfterData(r)]
<1>1. ACTypeOK /\ Held /\ req[r] \in RequestType /\ req[r].pc = "keep" /\ lock = r
  BY DEF IInv, ACTypeOK, Held, KeepData
<1>2. RequestOK(req[r], r \in BatchRequests)
  BY DEF IInv
<1>3. /\ Identified(req[r]) /\ Reading(req[r]) /\ t \in Tokens /\ t = req[r].secret[1]
      /\ token[t].state # "none" /\ (req[r].missed => Excused(req[r]))
  BY <1>1, <1>2 DEF RequestOK, Identified
<1>4. UNCHANGED <<tables, conn, cache, permCache, writer, clock>> /\ lock' = Free
  BY DEF KeepData
<1>5. entry \in E
  BY <1>1, CachesAssumption DEF RequestType
<1>6. LoadedOK(t, entry)
  <2>1. token[t].state # "gone" => req[r].data = Load(t) \/ Clearing({"data"}, t) \/ req[r].missed
    BY <1>1, <1>3 DEF Reading, ReadCurrent
  <2>2. ~req[r].torn /\ Permits(req[r].data) => Recent(t, RbacTTL - RbacTTL)
    BY <1>1, <1>3, CachesAssumption DEF Reading
  <2> QED  BY <1>3, <2>1, <2>2 DEF LoadedOK
<1>7. tokenCache' \in Inserted(tokenCache, t, entry, kept)
  BY DEF KeepData
<1>8. tokenCache \in [Tokens -> E \union {None}]
  BY <1>1 DEF ACTypeOK
<1>9. /\ done \in RequestType /\ done.pc \in {"perm", "answer"} /\ HasData(done, r \in BatchRequests)
      /\ done.secret = req[r].secret /\ done.info = req[r].info /\ done.data = req[r].data
      /\ done.torn = req[r].torn /\ done.missed = req[r].missed /\ done.why = req[r].why
  BY <1>1 DEF RequestType, AfterData, HasData
<1>10. req' = [req EXCEPT ![r] = done]
  BY <1>1 DEF KeepData, ACTypeOK
<1> HIDE DEF done
<1>11. Identified(done)
  BY <1>1, <1>3, <1>9 DEF Identified, Excused
<1>12. Informed(done)
  <2>1. On(t) => done.data = Load(t) \/ Clearing({"data", "perm"}, t) \/ Excused(done)
    BY <1>1, <1>3, <1>9 DEF Reading, ReadCurrent, On, Clearing, Excused
  <2>2. ~done.torn /\ Permits(done.data) => Recent(t, RbacTTL - 1)
    <3>1. On(t) => lost[t] \in Nat
      BY <1>1, <1>3, CachesAssumption DEF ACTypeOK
    <3>2. Recent(t, 0) => Recent(t, RbacTTL - 1)
      BY <3>1, CachesAssumption DEF Recent
    <3> QED  BY <1>1, <1>3, <1>9, <3>2 DEF Reading
  <2> QED  BY <1>3, <1>9, <2>1, <2>2 DEF Informed
<1>13. RequestOK(done, r \in BatchRequests)
  BY <1>1, <1>2, <1>3, <1>9, <1>11, <1>12 DEF RequestOK, Excused
<1>14. /\ req' \in [Requests -> RequestType] /\ req'[r] = done
       /\ \A x \in Requests \ {r} : req'[x] = req[x]
  BY <1>1, <1>9, <1>10 DEF ACTypeOK
<1> HIDE DEF entry, kept, E
<1>15. \/ tokenCache' = [tokenCache EXCEPT ![t] = entry]
       \/ \E j \in kept : tokenCache' = [tokenCache EXCEPT ![j] = None, ![t] = entry]
  BY <1>7 DEF Inserted
<1>16. kept \subseteq Tokens
  BY DEF kept
<1>17. /\ tokenCache' \in [Tokens -> E \union {None}] /\ tokenCache'[t] = entry
       /\ \A x \in Tokens \ {t} : tokenCache'[x] = tokenCache[x] \/ tokenCache'[x] = None
  BY <1>3, <1>5, <1>8, <1>15, <1>16
<1>18. \A x \in Tokens : tokenCache'[x] = None \/ tokenCache'[x] = tokenCache[x]
                                               \/ LoadedOK(x, tokenCache'[x])
  <2> HIDE DEF t
  <2> QED  BY <1>6, <1>17
<1>19. tokenCache' \in [Tokens -> [data : Datas, left : 1..RbacTTL, torn : BOOLEAN, missed : BOOLEAN]
                                    \union {None}]
  BY <1>17 DEF E
<1> QED  BY <1>1, <1>4, <1>9, <1>13, <1>14, <1>18, <1>19, RequestMoves DEF ACTypeOK

\* The result is what the data and the verified token say, or excused as these are.
LEMMA AnswerCheckKeeps ==
    ASSUME IInv, NEW r \in Requests, AnswerCheck(r)
    PROVE  IInv'
<1> DEFINE t == req[r].info.token
           entry == [allowed |-> Granted(req[r].info.grants, req[r].data), left |-> RbacTTL,
                     torn |-> req[r].torn, why |-> req[r].why]
           kept == {x \in Tokens : permCache[x] # None}
           E == [allowed : BOOLEAN, left : 1..RbacTTL, torn : BOOLEAN, why : Reasons]
<1>1. ACTypeOK /\ req[r] \in RequestType /\ req[r].pc = "answer"
  BY DEF IInv, ACTypeOK, AnswerCheck
<1>2. RequestOK(req[r], r \in BatchRequests)
  BY DEF IInv
<1>3. /\ Identified(req[r]) /\ Informed(req[r]) /\ t \in Tokens /\ t = req[r].secret[1]
      /\ token[t].state # "none" /\ token[t] \in RowType /\ req[r].info.grants \in BOOLEAN
  BY <1>1, <1>2 DEF RequestOK, Identified, HasData, ACTypeOK
<1>4. UNCHANGED <<tables, conn, lock, cache, tokenCache, writer, clock>>
  BY DEF AnswerCheck
<1>5. entry \in E
  <2>1. Granted(req[r].info.grants, req[r].data) \in BOOLEAN
    BY <1>3 DEF Granted, Permits
  <2> QED  BY <1>1, <2>1, CachesAssumption DEF RequestType
<1>6. ResultOK(t, entry)
  <2>1. On(t) => \/ entry.allowed = Allowed(t)
                 \/ Clearing({"auth", "data", "perm"}, t)
                 \/ entry.why \in {"missed", "raced"}
                 \/ entry.why = "failed" /\ ~entry.allowed
    <3> SUFFICES ASSUME On(t), ~Clearing({"auth", "data", "perm"}, t), ~Excused(req[r])
                 PROVE  \/ entry.allowed = Allowed(t)
                        \/ entry.why = "failed" /\ ~entry.allowed
      BY DEF Excused
    <3>1. req[r].info.grants = token[t].grants
      BY <1>3 DEF Identified, Clearing
    <3>2. req[r].data = Load(t) \/ (req[r].why = "failed" /\ req[r].data = Nothing)
      BY <1>3 DEF Informed, Clearing
    <3>3. ~Permits(Nothing)
      BY DEF Permits, Nothing
    <3>4. CASE req[r].data = Load(t)
      <4>1. Allowed(t) = Granted(token[t].grants, Load(t))
        BY <1>3 DEF Allowed, On, Granted, Permits
      <4> QED  BY <3>1, <3>4, <4>1
    <3>5. CASE req[r].why = "failed" /\ req[r].data = Nothing
      BY <1>3, <3>1, <3>3, <3>5 DEF Allowed, On, Granted
    <3> QED  BY <3>2, <3>4, <3>5
  <2>2. ~entry.torn /\ entry.allowed => Recent(t, 2 * RbacTTL - 1 - entry.left)
    <3>1. On(t) => lost[t] \in Nat
      BY <1>1, <1>3, CachesAssumption DEF ACTypeOK
    <3>2. Recent(t, 0) \/ Recent(t, RbacTTL - 1) => Recent(t, 2 * RbacTTL - 1 - RbacTTL)
      BY <3>1, CachesAssumption DEF Recent
    <3> QED  BY <1>3, <3>2 DEF Granted, Identified, Informed
  <2> QED  BY <1>3, <2>1, <2>2 DEF ResultOK
<1>7. permCache' \in Inserted(permCache, t, entry, kept)
  BY DEF AnswerCheck
<1>8. permCache \in [Tokens -> E \union {None}]
  BY <1>1 DEF ACTypeOK
<1>9. /\ req' \in [Requests -> RequestType] /\ req'[r] = IdleRequest /\ req'[r].pc = "idle"
      /\ \A x \in Requests \ {r} : req'[x] = req[x]
  BY <1>1, IdleType DEF ACTypeOK, IdleRequest, AnswerCheck
<1>10. RequestOK(req'[r], r \in BatchRequests)
  BY <1>9 DEF RequestOK
<1> HIDE DEF entry, kept, E
<1>11. \/ permCache' = [permCache EXCEPT ![t] = entry]
       \/ \E j \in kept : permCache' = [permCache EXCEPT ![j] = None, ![t] = entry]
  BY <1>7 DEF Inserted
<1>12. kept \subseteq Tokens
  BY DEF kept
<1>13. /\ permCache' \in [Tokens -> E \union {None}] /\ permCache'[t] = entry
       /\ \A x \in Tokens \ {t} : permCache'[x] = permCache[x] \/ permCache'[x] = None
  BY <1>3, <1>5, <1>8, <1>11, <1>12
<1>14. \A x \in Tokens : permCache'[x] = None \/ permCache'[x] = permCache[x]
                                              \/ ResultOK(x, permCache'[x])
  <2> HIDE DEF t
  <2> QED  BY <1>6, <1>13
<1>15. permCache' \in [Tokens -> [allowed : BOOLEAN, left : 1..RbacTTL, torn : BOOLEAN, why : Reasons]
                                   \union {None}]
  BY <1>13 DEF E
<1> QED  BY <1>1, <1>4, <1>9, <1>10, <1>14, <1>15, RequestMoves DEF ACTypeOK

---------------------------------------------------------------------------
\* Writes.  What they have in common: a write that takes from what a token may do, or
\* changes what a load reads, clears the data or the results concerned or is noted in them.

Written(w, clears, scope, D, P) ==
    /\ Writes(w, clears, scope, D, P)
    /\ clears \in {"idle", "auth", "data"}
    /\ scope \in SUBSET Tokens /\ D \in SUBSET Tokens /\ P \in SUBSET Tokens
    /\ token' \in [Tokens -> RowType] /\ rbac' \in TablesType
    /\ Membership'
    /\ \A t \in Tokens : token[t].state # "none" =>
         /\ token'[t].state # "none"
         /\ token'[t].state = "on" => token[t].state = "on"
         /\ token[t].state = "gone" => token'[t].state = "gone"
         /\ \/ clears = "auth"
            \/ token'[t].state = token[t].state /\ token'[t].rotations = token[t].rotations
         /\ \/ token'[t].state # "on" \/ token'[t].grants = token[t].grants
            \/ clears = "auth" /\ t \in scope /\ t \in P
         /\ \/ token'[t].state = "gone"
            \/ clears = "data" /\ t \in scope
            \/ t \in D
            \/ /\ SeenTeam(t)' = SeenTeam(t)
               /\ Seen(rbac'.role) = Seen(rbac.role) /\ Seen(rbac'.mperm) = Seen(rbac.mperm)

\* What a write leaves of a call, of loaded data and of a result.
LEMMA WritesCalls ==
    ASSUME ACTypeOK, NEW w \in Writers, NEW clears, NEW scope, NEW D \in SUBSET Tokens,
           NEW P \in SUBSET Tokens, Writes(w, clears, scope, D, P), NEW r \in Requests
    PROVE  /\ req'[r] \in RequestType
           /\ req'[r].pc = req[r].pc /\ req'[r].secret = req[r].secret
           /\ req'[r].info = req[r].info /\ req'[r].data = req[r].data
           /\ req'[r].torn <=> (req[r].torn \/ req[r].pc \in {"roles", "mperms"})
           /\ req'[r].missed <=> (req[r].missed \/ (/\ req[r].pc \in {"roles", "mperms", "keep"}
                                                    /\ req[r].secret[1] \in D))
           /\ Excused(req[r]) => Excused(req'[r])
           /\ req[r].pc # "idle" /\ req[r].secret[1] \in D \union P => Excused(req'[r])
           /\ req'[r].why = req[r].why \/ Excused(req'[r])
<1> DEFINE q == req[r]
           seen == [q EXCEPT !.torn = q.torn \/ q.pc \in {"roles", "mperms"},
                             !.missed = q.missed \/ (q.pc \in {"roles", "mperms", "keep"}
                                                     /\ q.secret[1] \in D)]
<1>1. q \in RequestType
  BY DEF ACTypeOK
<1>2. req'[r] = Overtaken(seen, D \union P, "missed")
  BY <1>1 DEF Writes, RequestType
<1>3. /\ seen \in RequestType /\ seen.pc = q.pc /\ seen.secret = q.secret /\ seen.info = q.info
      /\ seen.data = q.data /\ seen.why = q.why
      /\ seen.torn <=> (q.torn \/ q.pc \in {"roles", "mperms"})
      /\ seen.missed <=> (q.missed \/ (q.pc \in {"roles", "mperms", "keep"} /\ q.secret[1] \in D))
  BY <1>1 DEF RequestType
<1> HIDE DEF seen, q
<1>4. /\ req'[r] \in RequestType /\ req'[r].pc = seen.pc /\ req'[r].secret = seen.secret
      /\ req'[r].info = seen.info /\ req'[r].data = seen.data
      /\ req'[r].torn = seen.torn /\ req'[r].missed = seen.missed
      /\ req'[r].why = seen.why \/ Excused(req'[r])
      /\ Excused(seen) => Excused(req'[r])
      /\ seen.pc # "idle" /\ seen.secret[1] \in D \union P => Excused(req'[r])
  <2>1. D \union P \in SUBSET Tokens
    OBVIOUS
  <2> QED  BY <1>2, <1>3, <2>1, OvertakenFields
<1>5. Excused(q) => Excused(seen)
  BY <1>3 DEF Excused
<1> QED  BY <1>3, <1>4, <1>5 DEF q

LEMMA WritesEntries ==
    ASSUME ACTypeOK, NEW w \in Writers, NEW clears, NEW scope, NEW D \in SUBSET Tokens,
           NEW P \in SUBSET Tokens, Writes(w, clears, scope, D, P)
    PROVE  /\ cache' = cache
           /\ tokenCache' \in [Tokens -> [data : Datas, left : 1..RbacTTL, torn : BOOLEAN, missed : BOOLEAN]
                                            \union {None}]
           /\ permCache' \in [Tokens -> [allowed : BOOLEAN, left : 1..RbacTTL, torn : BOOLEAN, why : Reasons]
                                           \union {None}]
           /\ \A t \in Tokens : tokenCache'[t] # None =>
                LET e == tokenCache[t]
                    f == tokenCache'[t]
                IN /\ e # None /\ f.data = e.data /\ f.left = e.left /\ f.torn = e.torn
                   /\ f.missed <=> (e.missed \/ t \in D)
           /\ \A t \in Tokens : permCache'[t] # None =>
                LET e == permCache[t]
                    f == permCache'[t]
                IN /\ e # None /\ f.allowed = e.allowed /\ f.left = e.left /\ f.torn = e.torn
                   /\ t \in D \union P => f.why \in {"missed", "raced"}
                   /\ t \notin D \union P => f.why = e.why
                   /\ e.why \in {"missed", "raced"} => f.why \in {"missed", "raced"}
<1>1. cache' = cache
  BY DEF Writes
<1>2. \A t \in Tokens :
        tokenCache'[t] = IF tokenCache[t] # None /\ t \in D
                         THEN [tokenCache[t] EXCEPT !.missed = TRUE] ELSE tokenCache[t]
  BY DEF Writes
<1>3. \A t \in Tokens :
        permCache'[t] = IF permCache[t] # None /\ t \in D \union P
                        THEN [permCache[t] EXCEPT !.why = Because(permCache[t].why, "missed")]
                        ELSE permCache[t]
  <2>1. \A t \in Tokens : permCache'[t] = Outdated(permCache[t], D \union P, t)
    BY DEF Writes
  <2> QED  BY <2>1 DEF Outdated
<1>4. DOMAIN tokenCache' = Tokens /\ DOMAIN permCache' = Tokens
      /\ tokenCache' = [t \in Tokens |-> tokenCache'[t]] /\ permCache' = [t \in Tokens |-> permCache'[t]]
  BY DEF Writes
<1>5. ASSUME NEW t \in Tokens
      PROVE  /\ tokenCache'[t] \in [data : Datas, left : 1..RbacTTL, torn : BOOLEAN, missed : BOOLEAN]
                                      \union {None}
             /\ tokenCache'[t] # None =>
                LET e == tokenCache[t]
                    f == tokenCache'[t]
                IN /\ e # None /\ f.data = e.data /\ f.left = e.left /\ f.torn = e.torn
                   /\ f.missed <=> (e.missed \/ t \in D)
  <2>1. tokenCache[t] \in [data : Datas, left : 1..RbacTTL, torn : BOOLEAN, missed : BOOLEAN]
                            \union {None}
    BY DEF ACTypeOK
  <2> QED  BY <1>2, <2>1
<1>6. ASSUME NEW t \in Tokens
      PROVE  /\ permCache'[t] \in [allowed : BOOLEAN, left : 1..RbacTTL, torn : BOOLEAN, why : Reasons]
                                     \union {None}
             /\ permCache'[t] # None =>
                LET e == permCache[t]
                    f == permCache'[t]
                IN /\ e # None /\ f.allowed = e.allowed /\ f.left = e.left /\ f.torn = e.torn
                   /\ t \in D \union P => f.why \in {"missed", "raced"}
                   /\ t \notin D \union P => f.why = e.why
                   /\ e.why \in {"missed", "raced"} => f.why \in {"missed", "raced"}
  <2>1. permCache[t] \in [allowed : BOOLEAN, left : 1..RbacTTL, torn : BOOLEAN, why : Reasons]
                           \union {None}
    BY DEF ACTypeOK
  <2>2. permCache[t] # None => /\ Because(permCache[t].why, "missed") \in Reasons
                               /\ Because(permCache[t].why, "missed") \in {"missed", "raced"}
    BY <2>1, BecauseResult DEF Reasons
  <2> QED  BY <1>3, <2>1, <2>2
<1> QED  BY <1>1, <1>4, <1>5, <1>6

LEMMA WrittenClearing ==
    ASSUME ACTypeOK, NEW w \in Writers, NEW clears, NEW scope, NEW D, NEW P,
           Written(w, clears, scope, D, P), NEW pcs, "idle" \notin pcs, NEW t
    PROVE  /\ Clearing(pcs, t) => Clearing(pcs, t)'
           /\ clears \in pcs /\ t \in scope => Clearing(pcs, t)'
           /\ (\E x \in Writers : writer[x].pc = "auth") => \E x \in Writers : writer'[x].pc = "auth"
           /\ clears = "auth" => \E x \in Writers : writer'[x].pc = "auth"
<1>1. /\ writer[w].pc = "idle" /\ writer'[w] = [pc |-> clears, scope |-> scope]
      /\ \A x \in Writers \ {w} : writer'[x] = writer[x]
  BY DEF Written, Writes, ACTypeOK
<1>2. writer'[w].pc = clears /\ writer'[w].scope = scope
  BY <1>1
<1> QED  BY <1>1, <1>2 DEF Clearing

LEMMA WrittenRecent ==
    ASSUME ACTypeOK, NEW w \in Writers, NEW clears, NEW scope, NEW D, NEW P,
           Written(w, clears, scope, D, P), NEW t \in Tokens, token[t].state # "none", NEW n \in Nat,
           Recent(t, n)
    PROVE  Recent(t, n)'
<1>1. On(t)' => On(t)
  BY DEF Written, On
<1>2. lost'[t] = IF Allowed(t) THEN 0 ELSE lost[t]
  BY DEF Written, Writes
<1> QED  BY <1>1, <1>2 DEF Recent

\* What a load reads stays the same unless the write clears it or is noted.
LEMMA WrittenLoad ==
    ASSUME NEW w \in Writers, NEW clears, NEW scope, NEW D, NEW P,
           Written(w, clears, scope, D, P), NEW t \in Tokens, token[t].state # "none",
           token'[t].state # "gone", ~(clears = "data" /\ t \in scope), t \notin D
    PROVE  /\ Load(t)' = Load(t) /\ SeenTeam(t)' = SeenTeam(t)
           /\ Seen(rbac'.role) = Seen(rbac.role)
<1>1. /\ SeenTeam(t)' = SeenTeam(t) /\ Seen(rbac'.role) = Seen(rbac.role)
      /\ Seen(rbac'.mperm) = Seen(rbac.mperm)
  BY DEF Written
<1>2. Load(t)' = Load(t)
  BY <1>1 DEF Load
<1> QED  BY <1>1, <1>2

LEMMA WrittenKeepsEntries ==
    ASSUME IInv, NEW w \in Writers, NEW clears, NEW scope, NEW D, NEW P,
           Written(w, clears, scope, D, P)
    PROVE  /\ \A s \in Secrets : VerifiedOK(s, cache[s])'
           /\ \A t \in Tokens : LoadedOK(t, tokenCache[t])'
           /\ \A t \in Tokens : ResultOK(t, permCache[t])'
<1>1. ACTypeOK /\ Writes(w, clears, scope, D, P) /\ D \in SUBSET Tokens /\ P \in SUBSET Tokens
  BY DEF IInv, Written
<1>2. /\ cache' = cache
      /\ \A t \in Tokens : tokenCache'[t] # None =>
           LET e == tokenCache[t]
               f == tokenCache'[t]
           IN /\ e # None /\ f.data = e.data /\ f.left = e.left /\ f.torn = e.torn
              /\ f.missed <=> (e.missed \/ t \in D)
      /\ \A t \in Tokens : permCache'[t] # None =>
           LET e == permCache[t]
               f == permCache'[t]
           IN /\ e # None /\ f.allowed = e.allowed /\ f.left = e.left /\ f.torn = e.torn
              /\ t \in D \union P => f.why \in {"missed", "raced"}
              /\ t \notin D \union P => f.why = e.why
              /\ e.why \in {"missed", "raced"} => f.why \in {"missed", "raced"}
  BY <1>1, WritesEntries
<1>3. ASSUME NEW s \in Secrets PROVE VerifiedOK(s, cache[s])'
  <2> DEFINE t == s[1]
             e == cache[s]
  <2> SUFFICES ASSUME e # None PROVE VerifiedOK(s, cache[s])'
    BY <1>2 DEF VerifiedOK
  <2>1. VerifiedOK(s, e) /\ t \in Tokens /\ token[t].state # "none" /\ cache'[s] = e
    BY <1>2 DEF IInv, VerifiedOK, Secrets
  <2>2. /\ token'[t].state # "none"
        /\ On(t)' => On(t)
        /\ clears = "auth" \/ (token'[t].state = token[t].state /\ token'[t].rotations = token[t].rotations)
        /\ ~On(t)' \/ token'[t].grants = token[t].grants \/ (clears = "auth" /\ t \in scope)
    BY <2>1 DEF Written, On
  <2>3. (On(t) /\ token[t].rotations = s[2])' \/ \E x \in Writers : writer'[x].pc = "auth"
    BY <1>1, <2>1, <2>2, WrittenClearing DEF VerifiedOK, On
  <2>4. On(t)' => e.grants = token'[t].grants \/ Clearing({"auth"}, t)'
    BY <1>1, <2>1, <2>2, WrittenClearing DEF VerifiedOK
  <2>5. e.grants => Recent(t, 0)'
    BY <1>1, <2>1, WrittenRecent DEF VerifiedOK
  <2> QED  BY <2>1, <2>2, <2>3, <2>4, <2>5 DEF VerifiedOK
<1>4. ASSUME NEW t \in Tokens PROVE LoadedOK(t, tokenCache[t])'
  <2> DEFINE e == tokenCache[t]
             f == tokenCache'[t]
  <2> SUFFICES ASSUME f # None PROVE LoadedOK(t, tokenCache[t])'
    BY DEF LoadedOK
  <2>1. /\ e # None /\ f.data = e.data /\ f.left = e.left /\ f.torn = e.torn
        /\ f.missed <=> (e.missed \/ t \in D)
    BY <1>2
  <2>2. LoadedOK(t, e) /\ token[t].state # "none"
    BY <2>1 DEF IInv, LoadedOK
  <2>3. token'[t].state # "none" /\ (token'[t].state # "gone" => token[t].state # "gone")
    BY <2>2 DEF Written
  <2>4. token'[t].state # "gone" => f.data = Load(t)' \/ Clearing({"data"}, t)' \/ f.missed
    <3> SUFFICES ASSUME token'[t].state # "gone", t \notin D
                 PROVE  e.data = Load(t)' \/ Clearing({"data"}, t)' \/ e.missed
      BY <2>1
    <3>1. e.data = Load(t) \/ Clearing({"data"}, t) \/ e.missed
      BY <2>1, <2>2, <2>3 DEF LoadedOK
    <3>2. clears = "data" /\ t \in scope => Clearing({"data"}, t)'
      BY <1>1, WrittenClearing
    <3>3. Clearing({"data"}, t) => Clearing({"data"}, t)'
      BY <1>1, WrittenClearing
    <3>4. ~(clears = "data" /\ t \in scope) => Load(t)' = Load(t)
      BY <2>2, WrittenLoad
    <3> QED  BY <3>1, <3>2, <3>3, <3>4
  <2>5. ~f.torn /\ Permits(f.data) => Recent(t, RbacTTL - tokenCache[t].left)'
    <3>1. RbacTTL - e.left \in Nat
      BY <1>1, <2>1, CachesAssumption DEF ACTypeOK
    <3>2. ~e.torn /\ Permits(e.data) => Recent(t, RbacTTL - e.left)
      BY <2>1, <2>2 DEF LoadedOK
    <3>3. Recent(t, RbacTTL - e.left) => \A n \in Nat : n = RbacTTL - e.left => Recent(t, n)'
      BY <1>1, <2>2, <3>1, WrittenRecent
    <3>4. Recent(t, RbacTTL - e.left) => Recent(t, RbacTTL - tokenCache[t].left)'
      BY <2>1, <3>1, <3>3 DEF Recent
    <3> QED  BY <2>1, <3>2, <3>4
  <2> QED  BY <2>3, <2>4, <2>5 DEF LoadedOK, Permits
<1>5. ASSUME NEW t \in Tokens PROVE ResultOK(t, permCache[t])'
  <2> DEFINE e == permCache[t]
             f == permCache'[t]
  <2> SUFFICES ASSUME f # None PROVE ResultOK(t, permCache[t])'
    BY DEF ResultOK
  <2>1. /\ e # None /\ f.allowed = e.allowed /\ f.left = e.left /\ f.torn = e.torn
        /\ t \in D \union P => f.why \in {"missed", "raced"}
        /\ t \notin D \union P => f.why = e.why
        /\ e.why \in {"missed", "raced"} => f.why \in {"missed", "raced"}
    BY <1>2
  <2>2. ResultOK(t, e) /\ token[t].state # "none"
    BY <2>1 DEF IInv, ResultOK
  <2>3. token'[t].state # "none"
    BY <2>2 DEF Written
  <2>4. On(t)' => \/ f.allowed = Allowed(t)'
                  \/ Clearing({"auth", "data", "perm"}, t)'
                  \/ f.why \in {"missed", "raced"}
                  \/ f.why = "failed" /\ ~f.allowed
    <3> SUFFICES ASSUME On(t)', t \notin D \union P, ~(Clearing({"auth", "data", "perm"}, t)')
                 PROVE  \/ e.allowed = Allowed(t)'
                        \/ f.why \in {"missed", "raced"}
                        \/ e.why = "failed" /\ ~e.allowed
      BY <2>1
    <3>1. ~Clearing({"auth", "data", "perm"}, t) /\ ~(clears \in {"auth", "data"} /\ t \in scope)
      <4>1. "idle" \notin {"auth", "data", "perm"}
        OBVIOUS
      <4>2. /\ Clearing({"auth", "data", "perm"}, t) => Clearing({"auth", "data", "perm"}, t)'
            /\ clears \in {"auth", "data", "perm"} /\ t \in scope => Clearing({"auth", "data", "perm"}, t)'
        BY <1>1, <4>1, WrittenClearing
      <4> QED  BY <4>2
    <3>2. On(t) /\ token'[t].state # "gone" /\ token'[t].grants = token[t].grants
      BY <2>2, <3>1 DEF Written, On
    <3>3. Load(t)' = Load(t)
      BY <2>2, <3>1, <3>2, WrittenLoad
    <3>4. Allowed(t)' = Allowed(t)
      BY <3>2, <3>3 DEF Allowed, On, Granted, Permits
    <3>5. \/ e.allowed = Allowed(t)
          \/ e.why \in {"missed", "raced"}
          \/ e.why = "failed" /\ ~e.allowed
      BY <2>1, <2>2, <3>1, <3>2 DEF ResultOK
    <3> QED  BY <2>1, <3>4, <3>5
  <2>5. ~f.torn /\ f.allowed => Recent(t, 2 * RbacTTL - 1 - permCache[t].left)'
    <3>1. 2 * RbacTTL - 1 - e.left \in Nat
      BY <1>1, <2>1, CachesAssumption DEF ACTypeOK
    <3>2. ~e.torn /\ e.allowed => Recent(t, 2 * RbacTTL - 1 - e.left)
      BY <2>1, <2>2 DEF ResultOK
    <3>3. Recent(t, 2 * RbacTTL - 1 - e.left)
            => \A n \in Nat : n = 2 * RbacTTL - 1 - e.left => Recent(t, n)'
      BY <1>1, <2>2, <3>1, WrittenRecent
    <3>4. Recent(t, 2 * RbacTTL - 1 - e.left) => Recent(t, 2 * RbacTTL - 1 - permCache[t].left)'
      BY <2>1, <3>1, <3>3 DEF Recent
    <3> QED  BY <2>1, <3>2, <3>4
  <2> QED  BY <2>3, <2>4, <2>5 DEF ResultOK
<1> QED  BY <1>3, <1>4, <1>5

LEMMA WrittenKeepsCalls ==
    ASSUME IInv, NEW w \in Writers, NEW clears, NEW scope, NEW D, NEW P,
           Written(w, clears, scope, D, P), NEW r \in Requests
    PROVE  RequestOK(req[r], r \in BatchRequests)'
<1> DEFINE q == req[r]
           p == req'[r]
<1>1. ACTypeOK /\ Writes(w, clears, scope, D, P) /\ D \in SUBSET Tokens /\ P \in SUBSET Tokens
  BY DEF IInv, Written
<1>2. /\ p \in RequestType /\ p.pc = q.pc /\ p.secret = q.secret /\ p.info = q.info /\ p.data = q.data
      /\ p.torn <=> (q.torn \/ q.pc \in {"roles", "mperms"})
      /\ p.missed <=> (q.missed \/ (q.pc \in {"roles", "mperms", "keep"} /\ q.secret[1] \in D))
      /\ Excused(q) => Excused(p)
      /\ q.pc # "idle" /\ q.secret[1] \in D \union P => Excused(p)
      /\ p.why = q.why \/ Excused(p)
  BY <1>1, WritesCalls
<1> SUFFICES ASSUME q.pc # "idle" PROVE RequestOK(req[r], r \in BatchRequests)'
  BY <1>2 DEF RequestOK
<1>3. RequestOK(q, r \in BatchRequests) /\ q.secret \in Secrets
  BY DEF IInv, RequestOK
<1>0. PICK t \in Tokens : t = q.secret[1]
  BY <1>3 DEF Secrets
<1>4. /\ token[t].state # "none"
      /\ q.missed => Excused(q)
      /\ q.pc # "query" => Identified(q)
      /\ q.pc \in {"roles", "mperms", "keep"} => Reading(q)
      /\ HasData(q, r \in BatchRequests) => Informed(q)
  BY <1>0, <1>3 DEF RequestOK
<1>5. /\ token'[t].state # "none"
      /\ On(t)' => On(t)
      /\ token[t].state = "gone" => token'[t].state = "gone"
      /\ ~On(t)' \/ token'[t].grants = token[t].grants \/ (clears = "auth" /\ t \in scope)
  BY <1>4 DEF Written, On
<1>6. q.pc # "remember"
  BY <1>1, CachesAssumption DEF IInv, Held, Writes
<1>7. \A n \in Nat : Recent(t, n) => Recent(t, n)'
  BY <1>1, <1>4, WrittenRecent
<1>8. /\ Clearing({"auth"}, t) => Clearing({"auth"}, t)'
      /\ Clearing({"data"}, t) => Clearing({"data"}, t)'
      /\ Clearing({"data", "perm"}, t) => Clearing({"data", "perm"}, t)'
  BY <1>1, WrittenClearing
<1>9. /\ clears = "auth" /\ t \in scope => Clearing({"auth"}, t)'
      /\ clears = "data" /\ t \in scope => Clearing({"data"}, t)' /\ Clearing({"data", "perm"}, t)'
  BY <1>1, WrittenClearing
<1>10. token'[t].state # "gone" /\ ~(clears = "data" /\ t \in scope) /\ t \notin D
         => Load(t)' = Load(t) /\ SeenTeam(t)' = SeenTeam(t) /\ Seen(rbac'.role) = Seen(rbac.role)
  BY <1>4, WrittenLoad
<1>11. p.secret[1] = t
  BY <1>0, <1>2
<1>12. q.pc # "query" => Identified(req[r])'
  <2> SUFFICES ASSUME Identified(q) PROVE Identified(req[r])'
    BY <1>4
  <2>1. p.info \in [token : Tokens, grants : BOOLEAN] /\ p.info.token = t
    BY <1>0, <1>2 DEF Identified
  <2>2. On(t)' => p.info.grants = token'[t].grants \/ Clearing({"auth"}, t)' \/ Excused(p)
    BY <1>0, <1>2, <1>5, <1>8, <1>9 DEF Identified
  <2>3. p.info.grants => Recent(t, 0)'
    BY <1>0, <1>2, <1>7 DEF Identified
  <2> QED  BY <1>2, <1>6, <1>11, <2>1, <2>2, <2>3 DEF Identified, Excused, On, Clearing, Recent, Allowed
<1>13. q.pc \in {"roles", "mperms", "keep"} => Reading(req[r])'
  <2> SUFFICES ASSUME q.pc \in {"roles", "mperms", "keep"} PROVE Reading(req[r])'
    OBVIOUS
  <2>1. Reading(q)
    BY <1>4
  <2>2. token'[t].state # "gone" => ReadCurrent(req[r])' \/ Clearing({"data"}, t)' \/ p.missed
    <3> SUFFICES ASSUME token'[t].state # "gone", ~(clears = "data" /\ t \in scope), t \notin D,
                        ~Clearing({"data"}, t), ~q.missed
                 PROVE  ReadCurrent(req[r])'
      BY <1>0, <1>2, <1>8, <1>9
    <3>1. ReadCurrent(q)
      BY <1>0, <1>5, <2>1 DEF Reading
    <3>2. Load(t)' = Load(t) /\ SeenTeam(t)' = SeenTeam(t) /\ Seen(rbac'.role) = Seen(rbac.role)
      BY <1>10
    <3>3. /\ p.pc = "roles" => p.data = [Nothing EXCEPT !.team = SeenTeam(t)'] /\ SeenTeam(t)' # "none"
          /\ p.pc = "mperms" => /\ p.data = [Nothing EXCEPT !.team = SeenTeam(t)', !.role = Seen(rbac'.role)]
                                /\ SeenTeam(t)' # "none" /\ Seen(rbac'.role) # "none"
          /\ p.pc = "keep" => p.data = Load(t)'
      BY <1>0, <1>2, <3>1, <3>2 DEF ReadCurrent
    <3> QED  BY <1>11, <3>3 DEF ReadCurrent, Load, SeenTeam
  <2>3. ~(p.pc # "keep" /\ ~p.torn)
    BY <1>2
  <2>4. p.pc = "keep" /\ ~p.torn /\ Permits(p.data) => Recent(t, 0)'
    BY <1>0, <1>2, <1>7, <2>1 DEF Reading
  <2> QED  BY <1>11, <2>2, <2>3, <2>4 DEF Reading, Clearing, Recent, On, Allowed, Load, SeenTeam, Permits
<1>14. HasData(q, r \in BatchRequests) => Informed(req[r])'
  <2> SUFFICES ASSUME HasData(q, r \in BatchRequests) PROVE Informed(req[r])'
    OBVIOUS
  <2>1. Informed(q)
    BY <1>4
  <2>2. On(t)' => \/ p.data = Load(t)' \/ Clearing({"data", "perm"}, t)' \/ Excused(p)
                  \/ p.why = "failed" /\ p.data = Nothing
    <3> SUFFICES ASSUME On(t)', ~(clears = "data" /\ t \in scope), t \notin D
                 PROVE  \/ p.data = Load(t)' \/ Clearing({"data", "perm"}, t)' \/ Excused(p)
                        \/ p.why = "failed" /\ p.data = Nothing
      BY <1>0, <1>2, <1>9
    <3>1. Load(t)' = Load(t)
      BY <1>10 DEF On
    <3> QED  BY <1>0, <1>2, <1>5, <1>8, <2>1, <3>1 DEF Informed
  <2>3. RbacTTL - 1 \in Nat
    BY CachesAssumption
  <2>4. p.torn \in BOOLEAN /\ (q.torn => p.torn)
    BY <1>2 DEF RequestType
  <2>5. ~p.torn /\ Permits(p.data) => Recent(t, RbacTTL - 1)'
    BY <1>0, <1>2, <1>7, <2>1, <2>3, <2>4 DEF Informed
  <2> QED  BY <1>11, <2>2, <2>5 DEF Informed, Clearing, Recent, On, Allowed, Load, SeenTeam, Permits, Excused
<1>15. p.missed => Excused(p)
  BY <1>0, <1>2, <1>4
<1>16. HasData(p, r \in BatchRequests) => HasData(q, r \in BatchRequests)
  BY <1>2 DEF HasData
<1> QED
  BY <1>2, <1>3, <1>5, <1>11, <1>12, <1>13, <1>14, <1>15, <1>16 DEF RequestOK, HasData, Excused, Secrets

LEMMA WrittenKeeps ==
    ASSUME IInv, NEW w \in Writers, NEW clears, NEW scope, NEW D, NEW P,
           Written(w, clears, scope, D, P)
    PROVE  IInv'
<1>1. ACTypeOK /\ Writes(w, clears, scope, D, P) /\ D \in SUBSET Tokens /\ P \in SUBSET Tokens
  BY DEF IInv, Written
<1>2. \A r \in Requests : req'[r] \in RequestType /\ req'[r].pc = req[r].pc
  BY <1>1, WritesCalls
<1>3. ACTypeOK'
  <2>1. req' \in [Requests -> RequestType]
    BY <1>1, <1>2 DEF Writes
  <2>2. writer' \in [Writers -> [pc : {"idle", "auth", "data", "perm"}, scope : SUBSET Tokens]]
    <3>1. writer' = [writer EXCEPT ![w] = [pc |-> clears, scope |-> scope]]
      BY <1>1 DEF Writes
    <3>2. clears \in {"idle", "auth", "data", "perm"} /\ scope \in SUBSET Tokens
      BY DEF Written
    <3> QED  BY <1>1, <3>1, <3>2 DEF ACTypeOK
  <2>3. lost' \in [Tokens -> 0..2 * RbacTTL] /\ writes' \in Nat
    <3>1. lost' = [t \in Tokens |-> IF Allowed(t) THEN 0 ELSE lost[t]] /\ writes' = writes + 1
      BY <1>1 DEF Writes
    <3>2. lost \in [Tokens -> 0..2 * RbacTTL] /\ writes \in Nat /\ 0 \in 0..2 * RbacTTL
      BY <1>1, CachesAssumption DEF ACTypeOK
    <3> QED  BY <3>1, <3>2
  <2>4. token' \in [Tokens -> RowType] /\ rbac' \in TablesType
    BY DEF Written
  <2>5. /\ cache' = cache
        /\ tokenCache' \in [Tokens -> [data : Datas, left : 1..RbacTTL, torn : BOOLEAN, missed : BOOLEAN]
                                         \union {None}]
        /\ permCache' \in [Tokens -> [allowed : BOOLEAN, left : 1..RbacTTL, torn : BOOLEAN, why : Reasons]
                                        \union {None}]
    BY <1>1, WritesEntries
  <2>6. conn' = conn /\ lock' = lock
    BY <1>1 DEF Writes
  <2> QED  BY <1>1, <2>1, <2>2, <2>3, <2>4, <2>5, <2>6 DEF ACTypeOK
<1>4. Held'
  <2>1. conn' = conn /\ lock' = lock
    BY <1>1 DEF Writes
  <2> QED  BY <1>2, <2>1 DEF Held, IInv
<1>5. Membership'
  BY DEF Written
<1>6. \A r \in Requests : RequestOK(req[r], r \in BatchRequests)'
  BY WrittenKeepsCalls
<1>7. /\ \A s \in Secrets : VerifiedOK(s, cache[s])'
      /\ \A t \in Tokens : LoadedOK(t, tokenCache[t])'
      /\ \A t \in Tokens : ResultOK(t, permCache[t])'
  BY WrittenKeepsEntries
<1> QED  BY <1>3, <1>4, <1>5, <1>6, <1>7 DEF IInv

\* The writes of the AuthManager: one row of api_tokens, and the tables stay.
LEMMA TokenWrite ==
    ASSUME IInv, NEW w \in Writers, NEW t \in Tokens, NEW clears \in {"idle", "auth"},
           NEW scope \in SUBSET Tokens, NEW P \in SUBSET Tokens,
           Writes(w, clears, scope, {}, P),
           rbac' = rbac, token' \in [Tokens -> RowType],
           \A x \in Tokens \ {t} : token'[x] = token[x],
           \/ token[t].state = "none"
           \/ /\ token[t].state \in {"on", "off"} /\ token'[t].state \in {"on", "off"}
              /\ token'[t].state = "on" => token[t].state = "on"
              /\ \/ clears = "auth"
                 \/ token'[t].state = token[t].state /\ token'[t].rotations = token[t].rotations
              /\ token'[t].grants = token[t].grants \/ (clears = "auth" /\ t \in scope /\ t \in P)
    PROVE  IInv'
<1>1. Written(w, clears, scope, {}, P)
  <2>1. Membership' /\ rbac' \in TablesType
    BY DEF IInv, Membership, ACTypeOK
  <2>2. \A x \in Tokens : SeenTeam(x)' = SeenTeam(x)
    BY DEF SeenTeam
  <2> QED  BY <2>1, <2>2 DEF Written
<1> QED  BY <1>1, WrittenKeeps

\* The writes of the RBACManager: the tables, and api_tokens stays.
LEMMA TablesWrite ==
    ASSUME IInv, NEW w \in Writers, NEW clears \in {"idle", "data"},
           NEW scope \in SUBSET Tokens, NEW D \in SUBSET Tokens,
           Writes(w, clears, scope, D, {}),
           token' = token, rbac' \in TablesType, Membership',
           \A t \in Tokens :
              \/ clears = "data" /\ t \in scope
              \/ t \in D
              \/ /\ SeenTeam(t)' = SeenTeam(t)
                 /\ Seen(rbac'.role) = Seen(rbac.role) /\ Seen(rbac'.mperm) = Seen(rbac.mperm)
    PROVE  IInv'
<1>1. Written(w, clears, scope, D, {})
  BY DEF IInv, ACTypeOK, Written
<1> QED  BY <1>1, WrittenKeeps

LEMMA TokenWritesKeep ==
    ASSUME IInv, NEW w \in Writers,
           CreateToken(w) \/ UpdateToken(w) \/ RevokeToken(w) \/ RotateToken(w)
    PROVE  IInv'
<1>1. token \in [Tokens -> RowType]
  BY DEF IInv, ACTypeOK
<1>2. ASSUME CreateToken(w) PROVE IInv'
  <2>1. PICK t \in Tokens, grants \in BOOLEAN, life \in {"endless", "dated"} :
          /\ token[t].state = "none"
          /\ WritesToken(w, t, [token[t] EXCEPT !.state = "on", !.grants = grants, !.life = life])
          /\ Writes(w, "idle", {}, {}, {})
    BY <1>2, Zenon DEF CreateToken
  <2>2. token' = [token EXCEPT ![t] = [token[t] EXCEPT !.state = "on", !.grants = grants, !.life = life]]
        /\ rbac' = rbac
    BY <2>1 DEF WritesToken
  <2>3. token' \in [Tokens -> RowType] /\ \A x \in Tokens \ {t} : token'[x] = token[x]
    BY <1>1, <2>2 DEF RowType
  <2> QED  BY <2>1, <2>2, <2>3, TokenWrite
<1>3. ASSUME UpdateToken(w) PROVE IInv'
  <2>1. PICK t \in Tokens, grants \in BOOLEAN, life \in {"endless", "dated"} :
          /\ token[t].state \in {"on", "off"}
          /\ WritesToken(w, t, [token[t] EXCEPT !.grants = grants, !.life = life])
          /\ Writes(w, "auth", {t}, {}, {t})
    BY <1>3, Zenon DEF UpdateToken
  <2>2. token' = [token EXCEPT ![t] = [token[t] EXCEPT !.grants = grants, !.life = life]] /\ rbac' = rbac
    BY <2>1 DEF WritesToken
  <2>3. /\ token' \in [Tokens -> RowType] /\ \A x \in Tokens \ {t} : token'[x] = token[x]
        /\ token'[t].state = token[t].state
    BY <1>1, <2>2 DEF RowType
  <2>4. {t} \in SUBSET Tokens /\ t \in {t}
    OBVIOUS
  <2> QED  BY <2>1, <2>2, <2>3, <2>4, TokenWrite
<1>4. ASSUME RevokeToken(w) PROVE IInv'
  <2>1. PICK t \in Tokens :
          /\ token[t].state = "on"
          /\ WritesToken(w, t, [token[t] EXCEPT !.state = "off"])
          /\ Writes(w, "auth", {}, {}, {})
    BY <1>4, Zenon DEF RevokeToken
  <2>2. token' = [token EXCEPT ![t] = [token[t] EXCEPT !.state = "off"]] /\ rbac' = rbac
    BY <2>1 DEF WritesToken
  <2>3. /\ token' \in [Tokens -> RowType] /\ \A x \in Tokens \ {t} : token'[x] = token[x]
        /\ token'[t].state = "off" /\ token'[t].grants = token[t].grants
    BY <1>1, <2>2 DEF RowType
  <2> QED  BY <2>1, <2>2, <2>3, TokenWrite
<1>5. ASSUME RotateToken(w) PROVE IInv'
  <2>1. PICK t \in Tokens :
          /\ token[t].state \in {"on", "off"} /\ token[t].rotations < MaxRotations
          /\ WritesToken(w, t, [token[t] EXCEPT !.rotations = @ + 1])
          /\ Writes(w, "auth", {}, {}, {})
    BY <1>5, Zenon DEF RotateToken
  <2>2. token' = [token EXCEPT ![t] = [token[t] EXCEPT !.rotations = token[t].rotations + 1]] /\ rbac' = rbac
    BY <2>1 DEF WritesToken
  <2>3. token[t] \in RowType /\ token[t].rotations + 1 \in 0..MaxRotations
    BY <1>1, <2>1, CachesAssumption DEF RowType
  <2>4. /\ token' \in [Tokens -> RowType] /\ \A x \in Tokens \ {t} : token'[x] = token[x]
        /\ token'[t].state = token[t].state /\ token'[t].grants = token[t].grants
    BY <1>1, <2>2, <2>3 DEF RowType
  <2> QED  BY <2>1, <2>2, <2>4, TokenWrite
<1> QED  BY <1>2, <1>3, <1>4, <1>5

LEMMA DeleteTokenKeeps ==
    ASSUME IInv, NEW w \in Writers, DeleteToken(w)
    PROVE  IInv'
<1>1. token \in [Tokens -> RowType] /\ rbac \in TablesType
  BY DEF IInv, ACTypeOK
<1>2. PICK t \in Tokens :
        /\ token[t].state \in {"on", "off"}
        /\ token' = [token EXCEPT ![t].state = "gone"]
        /\ rbac' = [rbac EXCEPT !.members = rbac.members \ {t}]
        /\ Writes(w, "auth", {}, {}, {})
  BY Zenon DEF DeleteToken
<1>3. /\ token' \in [Tokens -> RowType] /\ \A x \in Tokens \ {t} : token'[x] = token[x]
      /\ token'[t].state = "gone"
  BY <1>1, <1>2 DEF RowType
<1>4. /\ rbac' \in TablesType /\ rbac'.members = rbac.members \ {t} /\ rbac'.team = rbac.team
      /\ rbac'.role = rbac.role /\ rbac'.mperm = rbac.mperm
  BY <1>1, <1>2 DEF TablesType
<1>5. Membership'
  BY <1>4 DEF IInv, Membership
<1>6. \A x \in Tokens \ {t} : SeenTeam(x)' = SeenTeam(x)
  BY <1>4 DEF SeenTeam
<1>7. Written(w, "auth", {}, {}, {})
  BY <1>2, <1>3, <1>4, <1>5, <1>6 DEF Written
<1> QED  BY <1>7, WrittenKeeps

LEMMA InvalidateTokensKeeps ==
    ASSUME IInv, NEW w \in Writers, InvalidateTokens(w)
    PROVE  IInv'
<1>1. /\ Quiet /\ UNCHANGED <<tables, conn, lock, tokenCache, permCache, req, writer, lost>>
      /\ cache' = [s \in Secrets |-> None] /\ writes' = writes + 1
  BY DEF InvalidateTokens, Quiet
<1>2. ACTypeOK'
  BY <1>1 DEF IInv, ACTypeOK, tables
<1>3. Held'
  BY <1>1 DEF IInv, Held
<1> QED  BY <1>1, <1>2, <1>3, QuietPreserves

\* All of the loaded data are cleared: only the tables remain to be looked at.
LEMMA ClearingWrite ==
    ASSUME IInv, NEW w \in Writers, Writes(w, "data", Tokens, {}, {}),
           token' = token, rbac' \in TablesType,
           rbac'.members # {} => rbac'.team \in {"on", "off"}
    PROVE  IInv'
<1>1. Tokens \in SUBSET Tokens /\ {} \in SUBSET Tokens /\ Membership'
  BY DEF Membership
<1> QED  BY <1>1, TablesWrite

LEMMA OrganizationWritesKeep ==
    ASSUME IInv, NEW w \in Writers,
           CreateOrganization(w) \/ DeleteOrganization(w) \/ CreateTeam(w)
    PROVE  IInv'
<1>1. rbac \in TablesType /\ (rbac.members # {} => rbac.team \in {"on", "off"})
  BY DEF IInv, ACTypeOK, Membership
<1>2. ASSUME CreateOrganization(w) PROVE IInv'
  <2>1. rbac' = [rbac EXCEPT !.org = "on"] /\ token' = token /\ Writes(w, "idle", {}, {}, {})
    BY <1>2 DEF CreateOrganization, WritesTables
  <2>2. /\ rbac' \in TablesType /\ rbac'.team = rbac.team /\ rbac'.members = rbac.members
        /\ rbac'.role = rbac.role /\ rbac'.mperm = rbac.mperm
    BY <1>1, <2>1 DEF TablesType
  <2>3. Membership' /\ \A t \in Tokens : SeenTeam(t)' = SeenTeam(t)
    BY <1>1, <2>2 DEF Membership, SeenTeam
  <2> QED  BY <2>1, <2>2, <2>3, TablesWrite
<1>3. ASSUME DeleteOrganization(w) PROVE IInv'
  <2>1. /\ rbac' = [org |-> "gone", team |-> Below(rbac.team), members |-> {},
                    role |-> Below(rbac.role), mperm |-> Below(rbac.mperm)]
        /\ token' = token /\ Writes(w, "idle", {}, Tokens, {})
    BY <1>3 DEF DeleteOrganization, WritesTables
  <2>2. rbac' \in TablesType /\ Membership'
    BY <2>1 DEF TablesType, Below, Levels, Membership
  <2>3. Tokens \in SUBSET Tokens
    OBVIOUS
  <2> QED  BY <2>1, <2>2, <2>3, TablesWrite
<1>4. ASSUME CreateTeam(w) PROVE IInv'
  <2>1. /\ rbac.team = "none"
        /\ rbac' = [rbac EXCEPT !.team = "on"] /\ token' = token /\ Writes(w, "idle", {}, {}, {})
    BY <1>4 DEF CreateTeam, WritesTables
  <2>2. /\ rbac' \in TablesType /\ rbac.members = {} /\ rbac'.members = {}
        /\ rbac'.role = rbac.role /\ rbac'.mperm = rbac.mperm
    BY <1>1, <2>1 DEF TablesType
  <2>3. Membership' /\ \A t \in Tokens : SeenTeam(t)' = SeenTeam(t)
    BY <2>2 DEF Membership, SeenTeam
  <2> QED  BY <2>1, <2>2, <2>3, TablesWrite
<1> QED  BY <1>2, <1>3, <1>4

\* A team, a role or a measurement permission that changes or goes.
LEMMA ChainWritesKeep ==
    ASSUME IInv, NEW w \in Writers,
           \/ UpdateTeam(w) \/ DeleteTeam(w) \/ CreateRole(w) \/ UpdateRole(w) \/ DeleteRole(w)
           \/ CreateMPerm(w) \/ DeleteMPerm(w)
    PROVE  IInv'
<1>1. rbac \in TablesType /\ (rbac.members # {} => rbac.team \in {"on", "off"})
  BY DEF IInv, ACTypeOK, Membership
<1>2. ASSUME UpdateTeam(w) PROVE IInv'
  <2>1. /\ \E enabled \in {"on", "off"} : rbac' = [rbac EXCEPT !.team = enabled]
        /\ token' = token /\ Writes(w, "data", Tokens, {}, {})
    BY <1>2 DEF UpdateTeam, WritesTables
  <2>2. rbac' \in TablesType /\ (rbac'.members # {} => rbac'.team \in {"on", "off"})
    BY <1>1, <2>1 DEF TablesType, Below, Levels
  <2> QED  BY <2>1, <2>2, ClearingWrite
<1>3. ASSUME DeleteTeam(w) PROVE IInv'
  <2>1. /\ rbac' = [rbac EXCEPT !.team = "gone", !.members = {},
                               !.role = Below(rbac.role), !.mperm = Below(rbac.mperm)]
        /\ token' = token /\ Writes(w, "data", Tokens, {}, {})
    BY <1>3 DEF DeleteTeam, WritesTables
  <2>2. rbac' \in TablesType /\ (rbac'.members # {} => rbac'.team \in {"on", "off"})
    BY <1>1, <2>1 DEF TablesType, Below, Levels
  <2> QED  BY <2>1, <2>2, ClearingWrite
<1>4. ASSUME CreateRole(w) PROVE IInv'
  <2>1. /\ \E level \in Levels : rbac' = [rbac EXCEPT !.role = level]
        /\ token' = token /\ Writes(w, "data", Tokens, {}, {})
    BY <1>4 DEF CreateRole, WritesTables
  <2>2. rbac' \in TablesType /\ (rbac'.members # {} => rbac'.team \in {"on", "off"})
    BY <1>1, <2>1 DEF TablesType, Below, Levels
  <2> QED  BY <2>1, <2>2, ClearingWrite
<1>5. ASSUME UpdateRole(w) PROVE IInv'
  <2>1. /\ \E level \in Levels : rbac' = [rbac EXCEPT !.role = level]
        /\ token' = token /\ Writes(w, "data", Tokens, {}, {})
    BY <1>5 DEF UpdateRole, WritesTables
  <2>2. rbac' \in TablesType /\ (rbac'.members # {} => rbac'.team \in {"on", "off"})
    BY <1>1, <2>1 DEF TablesType, Below, Levels
  <2> QED  BY <2>1, <2>2, ClearingWrite
<1>6. ASSUME DeleteRole(w) PROVE IInv'
  <2>1. /\ rbac' = [rbac EXCEPT !.role = "gone", !.mperm = Below(rbac.mperm)]
        /\ token' = token /\ Writes(w, "data", Tokens, {}, {})
    BY <1>6 DEF DeleteRole, WritesTables
  <2>2. rbac' \in TablesType /\ (rbac'.members # {} => rbac'.team \in {"on", "off"})
    BY <1>1, <2>1 DEF TablesType, Below, Levels
  <2> QED  BY <2>1, <2>2, ClearingWrite
<1>7. ASSUME CreateMPerm(w) PROVE IInv'
  <2>1. /\ \E level \in Levels : rbac' = [rbac EXCEPT !.mperm = level]
        /\ token' = token /\ Writes(w, "data", Tokens, {}, {})
    BY <1>7 DEF CreateMPerm, WritesTables
  <2>2. rbac' \in TablesType /\ (rbac'.members # {} => rbac'.team \in {"on", "off"})
    BY <1>1, <2>1 DEF TablesType, Below, Levels
  <2> QED  BY <2>1, <2>2, ClearingWrite
<1>8. ASSUME DeleteMPerm(w) PROVE IInv'
  <2>1. /\ rbac' = [rbac EXCEPT !.mperm = "gone"]
        /\ token' = token /\ Writes(w, "data", Tokens, {}, {})
    BY <1>8 DEF DeleteMPerm, WritesTables
  <2>2. rbac' \in TablesType /\ (rbac'.members # {} => rbac'.team \in {"on", "off"})
    BY <1>1, <2>1 DEF TablesType, Below, Levels
  <2> QED  BY <2>1, <2>2, ClearingWrite
<1> QED  BY <1>2, <1>3, <1>4, <1>5, <1>6, <1>7, <1>8

LEMMA MemberWritesKeep ==
    ASSUME IInv, NEW w \in Writers, AddMember(w) \/ RemoveMember(w)
    PROVE  IInv'
<1>1. rbac \in TablesType /\ (rbac.members # {} => rbac.team \in {"on", "off"})
  BY DEF IInv, ACTypeOK, Membership
<1>2. PICK t \in Tokens :
        /\ \/ rbac' = [rbac EXCEPT !.members = rbac.members \union {t}] /\ rbac.team \in {"on", "off"}
           \/ rbac' = [rbac EXCEPT !.members = rbac.members \ {t}]
        /\ token' = token /\ Writes(w, "data", {t}, {}, {})
  <2>1. CASE AddMember(w)
    BY <2>1 DEF AddMember, WritesTables
  <2>2. CASE RemoveMember(w)
    BY <1>1, <2>2 DEF RemoveMember, WritesTables, TablesType
  <2> QED  BY <2>1, <2>2
<1>3. /\ rbac' \in TablesType /\ rbac'.team = rbac.team /\ rbac'.role = rbac.role /\ rbac'.mperm = rbac.mperm
      /\ \/ rbac'.members = rbac.members \union {t} /\ rbac.team \in {"on", "off"}
         \/ rbac'.members = rbac.members \ {t}
  BY <1>1, <1>2 DEF TablesType
<1>4. Membership' /\ {t} \in SUBSET Tokens /\ \A x \in Tokens : x \notin {t} => SeenTeam(x)' = SeenTeam(x)
  BY <1>1, <1>3 DEF Membership, SeenTeam
<1> QED  BY <1>2, <1>3, <1>4, TablesWrite

---------------------------------------------------------------------------
\* Clearing.

\* Who clears is done with its scope; what the others are about to clear stays so.
LEMMA WriterMoves ==
    ASSUME ACTypeOK, NEW w \in Writers,
           \A x \in Writers \ {w} : writer'[x] = writer[x],
           NEW pcs, NEW t,
           writer[w].pc \notin pcs \/ t \notin writer[w].scope
             \/ (writer'[w].pc \in pcs /\ t \in writer'[w].scope)
    PROVE  Clearing(pcs, t) => Clearing(pcs, t)'
  BY DEF Clearing

\* The checks in progress that are overtaken, for every token of S, may be of before the clearing.
LEMMA OvertakenKeeps ==
    ASSUME IInv, NEW S \in SUBSET Tokens, NEW reason \in {"missed", "raced"},
           UNCHANGED <<tables, lost>>,
           req' = [r \in Requests |-> Overtaken(req[r], S, reason)],
           \A t \in Tokens : Clearing({"data"}, t) => Clearing({"data"}, t)',
           \A t \in Tokens : t \in S \/ /\ Clearing({"auth"}, t) => Clearing({"auth"}, t)'
                                        /\ Clearing({"data", "perm"}, t) => Clearing({"data", "perm"}, t)'
    PROVE  /\ req' \in [Requests -> RequestType]
           /\ \A r \in Requests : req'[r].pc = req[r].pc
           /\ \A r \in Requests : RequestOK(req[r], r \in BatchRequests)'
<1>1. ASSUME NEW r \in Requests
      PROVE  /\ req'[r] \in RequestType /\ req'[r].pc = req[r].pc
             /\ RequestOK(req[r], r \in BatchRequests)'
  <2> DEFINE q == req[r]
             p == req'[r]
  <2>1. q \in RequestType /\ p = Overtaken(q, S, reason)
    BY DEF IInv, ACTypeOK
  <2>2. /\ p \in RequestType /\ p.pc = q.pc /\ p.secret = q.secret /\ p.info = q.info /\ p.data = q.data
        /\ p.torn = q.torn /\ p.missed = q.missed /\ (p.why = q.why \/ Excused(p))
        /\ Excused(q) => Excused(p)
        /\ q.pc # "idle" /\ q.secret[1] \in S => Excused(p)
    <3> HIDE DEF q, p
    <3> QED  BY <2>1, OvertakenFields
  <2>3. RequestOK(req[r], r \in BatchRequests)'
    <3> SUFFICES ASSUME q.pc # "idle" PROVE RequestOK(req[r], r \in BatchRequests)'
      BY <2>2 DEF RequestOK
    <3>1. RequestOK(q, r \in BatchRequests) /\ q.secret \in Secrets
      BY DEF IInv, RequestOK
    <3>2. PICK t \in Tokens : t = q.secret[1]
      BY <3>1 DEF Secrets
    <3>3. /\ token[t].state # "none"
          /\ q.missed => Excused(q)
          /\ q.pc # "query" => Identified(q)
          /\ q.pc \in {"roles", "mperms", "keep"} => Reading(q)
          /\ HasData(q, r \in BatchRequests) => Informed(q)
      BY <3>1, <3>2 DEF RequestOK
    <3>4. p.secret[1] = t /\ token' = token /\ rbac' = rbac /\ lost' = lost
      BY <2>2, <3>2 DEF tables
    <3>5. /\ Clearing({"data"}, t) => Clearing({"data"}, t)'
          /\ t \in S => Excused(p)
          /\ t \notin S => /\ Clearing({"auth"}, t) => Clearing({"auth"}, t)'
                           /\ Clearing({"data", "perm"}, t) => Clearing({"data", "perm"}, t)'
      BY <2>2, <3>2
    <3>6. q.pc # "query" => Identified(req[r])'
      <4>1. q.pc # "query" /\ On(t) => \/ p.info.grants = token[t].grants
                                       \/ Clearing({"auth"}, t)'
                                       \/ Excused(p)
        BY <2>2, <3>2, <3>3, <3>5 DEF Identified
      <4> QED  BY <2>2, <3>2, <3>3, <3>4, <4>1
                DEF Identified, On, Excused, Clearing, Recent, Allowed, Load, SeenTeam
    <3>7. q.pc \in {"roles", "mperms", "keep"} => Reading(req[r])'
      <4>1. q.pc \in {"roles", "mperms", "keep"} /\ token[t].state # "gone" =>
              ReadCurrent(q) \/ Clearing({"data"}, t)' \/ p.missed
        BY <2>2, <3>2, <3>3, <3>5 DEF Reading
      <4>2. ReadCurrent(q) => ReadCurrent(req[r])'
        BY <2>2, <3>4 DEF ReadCurrent, Load, SeenTeam
      <4> QED  BY <2>2, <3>2, <3>3, <3>4, <4>1, <4>2
                DEF Reading, On, Clearing, Recent, Allowed, Load, SeenTeam
    <3>8. HasData(q, r \in BatchRequests) => Informed(req[r])'
      <4>1. HasData(q, r \in BatchRequests) /\ On(t) =>
              \/ p.data = Load(t) \/ Clearing({"data", "perm"}, t)' \/ Excused(p)
              \/ p.why = "failed" /\ p.data = Nothing
        BY <2>2, <3>2, <3>3, <3>5 DEF Informed
      <4> QED  BY <2>2, <3>2, <3>3, <3>4, <4>1
                DEF Informed, On, Excused, Clearing, Recent, Allowed, Load, SeenTeam
    <3>9. p.missed => Excused(p)
      BY <2>2, <3>3
    <3>10. HasData(p, r \in BatchRequests) => HasData(q, r \in BatchRequests)
      BY <2>2 DEF HasData
    <3> QED
      BY <2>2, <3>1, <3>3, <3>4, <3>6, <3>7, <3>8, <3>9, <3>10 DEF RequestOK, HasData, Excused, Secrets
  <2> QED  BY <2>2, <2>3
<1>2. req' \in [Requests -> RequestType]
  BY <1>1
<1> QED  BY <1>1, <1>2

LEMMA ClearTokensKeeps ==
    ASSUME IInv, NEW w \in Writers, ClearTokens(w)
    PROVE  IInv'
<1> DEFINE scope == writer[w].scope
<1>1. /\ ACTypeOK /\ writer[w].pc = "auth" /\ scope \in SUBSET Tokens
      /\ cache' = [s \in Secrets |-> None]
      /\ writer' = [writer EXCEPT ![w] = IdleWriter]
      /\ permCache' = [t \in Tokens |-> Outdated(permCache[t], scope, t)]
      /\ req' = [r \in Requests |-> Overtaken(req[r], scope, "missed")]
      /\ UNCHANGED <<tables, conn, lock, tokenCache, clock>>
  BY DEF ClearTokens, IInv, ACTypeOK
<1>2. /\ token' = token /\ rbac' = rbac /\ lost' = lost /\ writes' = writes
      /\ UNCHANGED <<tables, lost>>
  BY <1>1 DEF tables, clock
<1>3. /\ \A x \in Writers \ {w} : writer'[x] = writer[x]
      /\ writer' \in [Writers -> [pc : {"idle", "auth", "data", "perm"}, scope : SUBSET Tokens]]
  BY <1>1 DEF ACTypeOK, IdleWriter
<1>4. \A t \in Tokens : /\ Clearing({"data"}, t) => Clearing({"data"}, t)'
                        /\ Clearing({"data", "perm"}, t) => Clearing({"data", "perm"}, t)'
                        /\ t \notin scope =>
                             /\ Clearing({"auth"}, t) => Clearing({"auth"}, t)'
                             /\ Clearing({"auth", "data", "perm"}, t) => Clearing({"auth", "data", "perm"}, t)'
  BY <1>1, <1>3, WriterMoves
<1> HIDE DEF scope
<1>5. /\ req' \in [Requests -> RequestType]
      /\ \A r \in Requests : req'[r].pc = req[r].pc
      /\ \A r \in Requests : RequestOK(req[r], r \in BatchRequests)'
  BY <1>1, <1>2, <1>4, OvertakenKeeps
<1>6. ASSUME NEW t \in Tokens
      PROVE  /\ permCache'[t] \in [allowed : BOOLEAN, left : 1..RbacTTL, torn : BOOLEAN, why : Reasons]
                                     \union {None}
             /\ ResultOK(t, permCache[t])'
  <2> DEFINE e == permCache[t]
             f == permCache'[t]
  <2>1. /\ e \in [allowed : BOOLEAN, left : 1..RbacTTL, torn : BOOLEAN, why : Reasons] \union {None}
        /\ ResultOK(t, e) /\ f = Outdated(e, scope, t)
    BY <1>1 DEF ACTypeOK, IInv
  <2>2. f = IF e # None /\ t \in scope THEN [e EXCEPT !.why = Because(e.why, "missed")] ELSE e
    BY <2>1 DEF Outdated
  <2>3. e # None => Because(e.why, "missed") \in Reasons /\ Because(e.why, "missed") \in {"missed", "raced"}
    BY <2>1, BecauseResult DEF Reasons
  <2>4. f \in [allowed : BOOLEAN, left : 1..RbacTTL, torn : BOOLEAN, why : Reasons] \union {None}
    BY <2>1, <2>2, <2>3
  <2>5. f # None => /\ e # None /\ f.allowed = e.allowed /\ f.left = e.left /\ f.torn = e.torn
                    /\ IF t \in scope THEN f.why \in {"missed", "raced"} ELSE f.why = e.why
    BY <2>1, <2>2, <2>3
  <2>6. f # None /\ On(t) => \/ f.allowed = Allowed(t)
                             \/ Clearing({"auth", "data", "perm"}, t)'
                             \/ f.why \in {"missed", "raced"}
                             \/ f.why = "failed" /\ ~f.allowed
    BY <1>4, <2>1, <2>5 DEF ResultOK
  <2>7. ResultOK(t, permCache[t])'
    BY <1>2, <2>1, <2>5, <2>6 DEF ResultOK, On, Clearing, Recent, Allowed, Load, SeenTeam
  <2> QED  BY <2>4, <2>7
<1>7. ASSUME NEW t \in Tokens PROVE LoadedOK(t, tokenCache[t])'
  <2>1. LoadedOK(t, tokenCache[t]) /\ tokenCache' = tokenCache
    BY <1>1 DEF IInv
  <2> QED  BY <1>2, <1>4, <2>1 DEF LoadedOK, On, Clearing, Recent, Allowed, Load, SeenTeam
<1>8. \A s \in Secrets : VerifiedOK(s, cache[s])'
  BY <1>1 DEF VerifiedOK
<1>9. ACTypeOK'
  <2>1. permCache' \in [Tokens -> [allowed : BOOLEAN, left : 1..RbacTTL, torn : BOOLEAN, why : Reasons]
                                    \union {None}]
    BY <1>1, <1>6
  <2> QED  BY <1>1, <1>2, <1>3, <1>5, <2>1 DEF ACTypeOK
<1>10. Held' /\ Membership'
  BY <1>1, <1>2, <1>5 DEF IInv, Held, Membership
<1> QED  BY <1>5, <1>6, <1>7, <1>8, <1>9, <1>10 DEF IInv

\* Nobody is between two queries then: the lock is free.
LEMMA ClearDataKeeps ==
    ASSUME IInv, NEW w \in Writers, ClearData(w)
    PROVE  IInv'
<1> DEFINE scope == writer[w].scope
<1>1. /\ ACTypeOK /\ writer[w].pc = "data" /\ scope \in SUBSET Tokens /\ lock = Free
      /\ tokenCache' = Without(tokenCache, scope)
      /\ writer' = [writer EXCEPT ![w].pc = "perm"]
      /\ UNCHANGED <<tables, conn, lock, cache, permCache, req, clock>>
  BY DEF ClearData, IInv, ACTypeOK
<1>2. /\ token' = token /\ rbac' = rbac /\ lost' = lost /\ writes' = writes /\ req' = req
      /\ cache' = cache /\ permCache' = permCache
  BY <1>1 DEF tables, clock
<1>3. /\ \A x \in Writers \ {w} : writer'[x] = writer[x]
      /\ writer'[w].pc = "perm" /\ writer'[w].scope = scope
      /\ writer' \in [Writers -> [pc : {"idle", "auth", "data", "perm"}, scope : SUBSET Tokens]]
  BY <1>1 DEF ACTypeOK
<1>4. \A t \in Tokens : /\ Clearing({"auth"}, t) => Clearing({"auth"}, t)'
                        /\ Clearing({"data", "perm"}, t) => Clearing({"data", "perm"}, t)'
                        /\ Clearing({"auth", "data", "perm"}, t) => Clearing({"auth", "data", "perm"}, t)'
                        /\ t \notin scope => (Clearing({"data"}, t) => Clearing({"data"}, t)')
  BY <1>1, <1>3, WriterMoves
<1> HIDE DEF scope
<1>5. ASSUME NEW r \in Requests PROVE RequestOK(req[r], r \in BatchRequests)'
  <2> DEFINE q == req[r]
  <2> SUFFICES ASSUME q.pc # "idle" PROVE RequestOK(req[r], r \in BatchRequests)'
    BY <1>2 DEF RequestOK
  <2>1. RequestOK(q, r \in BatchRequests) /\ q.secret \in Secrets
    BY DEF IInv, RequestOK
  <2>2. PICK t \in Tokens : t = q.secret[1]
    BY <2>1 DEF Secrets
  <2>3. q.pc \notin {"roles", "mperms", "keep"}
    BY <1>1, CachesAssumption DEF IInv, Held
  <2>4. Identified(q) => Identified(req[r])'
    BY <1>2, <1>4, <2>2 DEF Identified, On, Excused, Clearing, Recent, Allowed, Load, SeenTeam
  <2>5. Informed(q) => Informed(req[r])'
    BY <1>2, <1>4, <2>2 DEF Informed, On, Excused, Clearing, Recent, Allowed, Load, SeenTeam
  <2> QED  BY <1>2, <2>1, <2>3, <2>4, <2>5 DEF RequestOK, HasData, Excused, Secrets
<1>6. ASSUME NEW s \in Secrets PROVE VerifiedOK(s, cache[s])'
  <2>1. VerifiedOK(s, cache[s])
    BY DEF IInv
  <2>2. (\E x \in Writers : writer[x].pc = "auth") => \E x \in Writers : writer'[x].pc = "auth"
    BY <1>1, <1>3
  <2>3. PICK t \in Tokens : t = s[1]
    BY DEF Secrets
  <2> QED  BY <1>2, <1>4, <2>1, <2>2, <2>3 DEF VerifiedOK, On, Clearing, Recent, Allowed, Load, SeenTeam
<1>7. ASSUME NEW t \in Tokens PROVE LoadedOK(t, tokenCache[t])'
  <2>1. LoadedOK(t, tokenCache[t]) /\ tokenCache'[t] = IF t \in scope THEN None ELSE tokenCache[t]
    BY <1>1 DEF IInv, Without
  <2> QED  BY <1>2, <1>4, <2>1 DEF LoadedOK, On, Clearing, Recent, Allowed, Load, SeenTeam
<1>8. ASSUME NEW t \in Tokens PROVE ResultOK(t, permCache[t])'
  <2>1. ResultOK(t, permCache[t])
    BY DEF IInv
  <2> QED  BY <1>2, <1>4, <2>1 DEF ResultOK, On, Clearing, Recent, Allowed, Load, SeenTeam
<1>9. ACTypeOK'
  <2>1. tokenCache' \in [Tokens -> [data : Datas, left : 1..RbacTTL, torn : BOOLEAN, missed : BOOLEAN]
                                     \union {None}]
    BY <1>1 DEF ACTypeOK, Without
  <2> QED  BY <1>1, <1>2, <1>3, <2>1 DEF ACTypeOK
<1>10. Held' /\ Membership'
  BY <1>1, <1>2 DEF IInv, Held, Membership
<1> QED  BY <1>5, <1>6, <1>7, <1>8, <1>9, <1>10 DEF IInv

LEMMA ClearPermKeeps ==
    ASSUME IInv, NEW w \in Writers, ClearPerm(w)
    PROVE  IInv'
<1> DEFINE scope == writer[w].scope
<1>1. /\ ACTypeOK /\ writer[w].pc = "perm" /\ scope \in SUBSET Tokens
      /\ permCache' = Without(permCache, scope)
      /\ req' = [r \in Requests |-> Overtaken(req[r], scope, "raced")]
      /\ writer' = [writer EXCEPT ![w] = IdleWriter]
      /\ UNCHANGED <<tables, conn, lock, cache, tokenCache, clock>>
  BY DEF ClearPerm, IInv, ACTypeOK
<1>2. /\ token' = token /\ rbac' = rbac /\ lost' = lost /\ writes' = writes
      /\ cache' = cache /\ tokenCache' = tokenCache /\ UNCHANGED <<tables, lost>>
  BY <1>1 DEF tables, clock
<1>3. /\ \A x \in Writers \ {w} : writer'[x] = writer[x]
      /\ writer' \in [Writers -> [pc : {"idle", "auth", "data", "perm"}, scope : SUBSET Tokens]]
  BY <1>1 DEF ACTypeOK, IdleWriter
<1>4. \A t \in Tokens : /\ Clearing({"auth"}, t) => Clearing({"auth"}, t)'
                        /\ Clearing({"data"}, t) => Clearing({"data"}, t)'
                        /\ t \notin scope =>
                             /\ Clearing({"data", "perm"}, t) => Clearing({"data", "perm"}, t)'
                             /\ Clearing({"auth", "data", "perm"}, t) => Clearing({"auth", "data", "perm"}, t)'
  BY <1>1, <1>3, WriterMoves
<1> HIDE DEF scope
<1>5. /\ req' \in [Requests -> RequestType]
      /\ \A r \in Requests : req'[r].pc = req[r].pc
      /\ \A r \in Requests : RequestOK(req[r], r \in BatchRequests)'
  BY <1>1, <1>2, <1>4, OvertakenKeeps
<1>6. ASSUME NEW s \in Secrets PROVE VerifiedOK(s, cache[s])'
  <2>1. VerifiedOK(s, cache[s])
    BY DEF IInv
  <2>2. (\E x \in Writers : writer[x].pc = "auth") => \E x \in Writers : writer'[x].pc = "auth"
    BY <1>1, <1>3
  <2>3. PICK t \in Tokens : t = s[1]
    BY DEF Secrets
  <2> QED  BY <1>2, <1>4, <2>1, <2>2, <2>3 DEF VerifiedOK, On, Clearing, Recent, Allowed, Load, SeenTeam
<1>7. ASSUME NEW t \in Tokens PROVE LoadedOK(t, tokenCache[t])'
  <2>1. LoadedOK(t, tokenCache[t])
    BY DEF IInv
  <2> QED  BY <1>2, <1>4, <2>1 DEF LoadedOK, On, Clearing, Recent, Allowed, Load, SeenTeam
<1>8. ASSUME NEW t \in Tokens PROVE ResultOK(t, permCache[t])'
  <2>1. ResultOK(t, permCache[t]) /\ permCache'[t] = IF t \in scope THEN None ELSE permCache[t]
    BY <1>1 DEF IInv, Without
  <2> QED  BY <1>2, <1>4, <2>1 DEF ResultOK, On, Clearing, Recent, Allowed, Load, SeenTeam
<1>9. ACTypeOK'
  <2>1. permCache' \in [Tokens -> [allowed : BOOLEAN, left : 1..RbacTTL, torn : BOOLEAN, why : Reasons]
                                    \union {None}]
    BY <1>1 DEF ACTypeOK, Without
  <2> QED  BY <1>1, <1>2, <1>3, <1>5, <2>1 DEF ACTypeOK
<1>10. Held' /\ Membership'
  BY <1>1, <1>2, <1>5 DEF IInv, Held, Membership
<1> QED  BY <1>5, <1>6, <1>7, <1>8, <1>9, <1>10 DEF IInv

---------------------------------------------------------------------------
\* Time passes when nobody is on the way and nobody is about to clear.

LEMMA TickRecent ==
    ASSUME IInv, Tick
    PROVE  \A t \in Tokens :
             /\ token'[t].state = token[t].state /\ token'[t].grants = token[t].grants
             /\ token'[t].rotations = token[t].rotations
             /\ Load(t)' = Load(t) /\ Allowed(t)' = Allowed(t) /\ On(t)' = On(t)
             /\ lost'[t] \in 0..2 * RbacTTL
             /\ \A n \in Nat : Recent(t, n) => Recent(t, n + 1)'
             /\ Recent(t, 0) /\ Allowed(t) => Recent(t, 0)'
<1>1. rbac' = rbac /\ ACTypeOK
  BY DEF Tick, IInv
<1>2. PICK expiring \in SUBSET {t \in Tokens : token[t].life = "dated"} :
        token' = [t \in Tokens |-> IF t \in expiring THEN [token[t] EXCEPT !.life = "over"] ELSE token[t]]
  BY Zenon DEF Tick
<1> SUFFICES ASSUME NEW t \in Tokens
             PROVE  /\ token'[t].state = token[t].state /\ token'[t].grants = token[t].grants
                    /\ token'[t].rotations = token[t].rotations
                    /\ Load(t)' = Load(t) /\ Allowed(t)' = Allowed(t) /\ On(t)' = On(t)
                    /\ lost'[t] \in 0..2 * RbacTTL
                    /\ \A n \in Nat : Recent(t, n) => Recent(t, n + 1)'
                    /\ Recent(t, 0) /\ Allowed(t) => Recent(t, 0)'
  OBVIOUS
<1>3. /\ token'[t].state = token[t].state /\ token'[t].grants = token[t].grants
      /\ token'[t].rotations = token[t].rotations
  BY <1>1, <1>2 DEF ACTypeOK, RowType
<1>4. Load(t)' = Load(t)
  BY <1>1 DEF Load, SeenTeam
<1>5. Allowed(t)' = Allowed(t) /\ On(t)' = On(t)
  BY <1>3, <1>4 DEF Allowed, On
<1>6. lost'[t] = IF Allowed(t) THEN 0 ELSE Capped(lost[t] + 1)
  BY DEF Tick
<1>7. lost[t] \in 0..2 * RbacTTL /\ RbacTTL \in Nat
  BY <1>1, CachesAssumption DEF ACTypeOK
<1>8. lost'[t] \in 0..2 * RbacTTL /\ (~Allowed(t) => lost'[t] <= lost[t] + 1) /\ (Allowed(t) => lost'[t] = 0)
  BY <1>6, <1>7 DEF Capped
<1>9. \A n \in Nat : Recent(t, n) => Recent(t, n + 1)'
  <2> SUFFICES ASSUME NEW n \in Nat, On(t), Allowed(t) \/ lost[t] <= n
               PROVE  Allowed(t)' \/ lost'[t] <= n + 1
    BY <1>5 DEF Recent
  <2> QED  BY <1>5, <1>7, <1>8
<1> QED  BY <1>3, <1>4, <1>5, <1>8, <1>9 DEF Recent

LEMMA TickKeeps ==
    ASSUME IInv, Tick
    PROVE  IInv'
<1>1. /\ ACTypeOK
      /\ \A r \in Requests : req[r].pc = "idle"
      /\ \A w \in Writers : writer[w].pc = "idle"
      /\ cache' = [s \in Secrets |-> Older(cache[s])]
      /\ tokenCache' = [t \in Tokens |-> Older(tokenCache[t])]
      /\ permCache' = [t \in Tokens |-> Older(permCache[t])]
      /\ UNCHANGED <<rbac, conn, lock, req, writer, writes>>
  BY DEF Tick, IInv
<1>2. \A t : /\ ~Clearing({"auth"}, t) /\ ~Clearing({"data"}, t)
             /\ ~Clearing({"auth", "data", "perm"}, t)
  BY <1>1 DEF Clearing
<1>3. ASSUME NEW s \in Secrets
      PROVE  /\ cache'[s] \in [grants : BOOLEAN, left : 1..AuthTTL] \union {None}
             /\ VerifiedOK(s, cache[s])'
  <2> DEFINE e == cache[s]
             f == cache'[s]
  <2>1. /\ e \in [grants : BOOLEAN, left : 1..AuthTTL] \union {None} /\ VerifiedOK(s, e)
        /\ f = IF e = None \/ e.left = 1 THEN None ELSE [e EXCEPT !.left = e.left - 1]
    BY <1>1 DEF ACTypeOK, IInv, Older
  <2>2. /\ f \in [grants : BOOLEAN, left : 1..AuthTTL] \union {None}
        /\ f # None => e # None /\ f.grants = e.grants
    BY <2>1, CachesAssumption
  <2>3. PICK t \in Tokens : t = s[1]
    BY DEF Secrets
  <2>4. f # None => /\ token[t].state # "none" /\ On(t) /\ token[t].rotations = s[2]
                    /\ e.grants = token[t].grants
    BY <1>1, <1>2, <2>1, <2>2, <2>3 DEF VerifiedOK
  <2>5. f # None /\ e.grants => Recent(t, 0)'
    <3>1. f # None /\ e.grants => Recent(t, 0) /\ Allowed(t)
      BY <2>1, <2>2, <2>3, <2>4 DEF VerifiedOK, Allowed, Granted, On
    <3> QED  BY <3>1, TickRecent
  <2>6. /\ token'[t].state = token[t].state /\ token'[t].grants = token[t].grants
        /\ token'[t].rotations = token[t].rotations
    BY TickRecent
  <2>7. VerifiedOK(s, cache[s])'
    BY <2>2, <2>3, <2>4, <2>5, <2>6 DEF VerifiedOK, On, Recent, Allowed, Load, SeenTeam
  <2> QED  BY <2>2, <2>7
<1>4. ASSUME NEW t \in Tokens
      PROVE  /\ tokenCache'[t] \in [data : Datas, left : 1..RbacTTL, torn : BOOLEAN, missed : BOOLEAN]
                                      \union {None}
             /\ LoadedOK(t, tokenCache[t])'
  <2> DEFINE e == tokenCache[t]
             f == tokenCache'[t]
  <2>1. /\ e \in [data : Datas, left : 1..RbacTTL, torn : BOOLEAN, missed : BOOLEAN] \union {None}
        /\ LoadedOK(t, e)
        /\ f = IF e = None \/ e.left = 1 THEN None ELSE [e EXCEPT !.left = e.left - 1]
    BY <1>1 DEF ACTypeOK, IInv, Older
  <2>2. /\ f \in [data : Datas, left : 1..RbacTTL, torn : BOOLEAN, missed : BOOLEAN] \union {None}
        /\ f # None => /\ e # None /\ f.data = e.data /\ f.torn = e.torn /\ f.missed = e.missed
                       /\ f.left = e.left - 1 /\ e.left \in 1..RbacTTL
    BY <2>1, CachesAssumption
  <2>3. token'[t].state = token[t].state /\ Load(t)' = Load(t)
    BY TickRecent
  <2>4. f # None /\ ~f.torn /\ Permits(f.data) => Recent(t, RbacTTL - tokenCache[t].left)'
    <3> SUFFICES ASSUME f # None, ~f.torn, Permits(f.data)
                 PROVE  Recent(t, RbacTTL - tokenCache[t].left)'
      OBVIOUS
    <3>1. Recent(t, RbacTTL - e.left)
      BY <2>1, <2>2 DEF LoadedOK
    <3>2. RbacTTL - e.left \in Nat /\ RbacTTL - f.left = (RbacTTL - e.left) + 1
      BY <2>2, CachesAssumption
    <3>3. \A n \in Nat : n = RbacTTL - e.left => Recent(t, n + 1)'
      BY <3>1, <3>2, TickRecent
    <3> QED  BY <3>2, <3>3 DEF Recent
  <2>5. LoadedOK(t, tokenCache[t])'
    BY <1>2, <2>1, <2>2, <2>3, <2>4 DEF LoadedOK, Permits
  <2> QED  BY <2>2, <2>5
<1>5. ASSUME NEW t \in Tokens
      PROVE  /\ permCache'[t] \in [allowed : BOOLEAN, left : 1..RbacTTL, torn : BOOLEAN, why : Reasons]
                                     \union {None}
             /\ ResultOK(t, permCache[t])'
  <2> DEFINE e == permCache[t]
             f == permCache'[t]
  <2>1. /\ e \in [allowed : BOOLEAN, left : 1..RbacTTL, torn : BOOLEAN, why : Reasons] \union {None}
        /\ ResultOK(t, e)
        /\ f = IF e = None \/ e.left = 1 THEN None ELSE [e EXCEPT !.left = e.left - 1]
    BY <1>1 DEF ACTypeOK, IInv, Older
  <2>2. /\ f \in [allowed : BOOLEAN, left : 1..RbacTTL, torn : BOOLEAN, why : Reasons] \union {None}
        /\ f # None => /\ e # None /\ f.allowed = e.allowed /\ f.torn = e.torn /\ f.why = e.why
                       /\ f.left = e.left - 1 /\ e.left \in 1..RbacTTL
    BY <2>1, CachesAssumption
  <2>3. token'[t].state = token[t].state /\ On(t)' = On(t) /\ Allowed(t)' = Allowed(t)
    BY TickRecent
  <2>4. f # None /\ ~f.torn /\ f.allowed => Recent(t, 2 * RbacTTL - 1 - permCache[t].left)'
    <3> SUFFICES ASSUME f # None, ~f.torn, f.allowed
                 PROVE  Recent(t, 2 * RbacTTL - 1 - permCache[t].left)'
      OBVIOUS
    <3>1. Recent(t, 2 * RbacTTL - 1 - e.left)
      BY <2>1, <2>2 DEF ResultOK
    <3>2. /\ 2 * RbacTTL - 1 - e.left \in Nat
          /\ 2 * RbacTTL - 1 - f.left = (2 * RbacTTL - 1 - e.left) + 1
      BY <2>2, CachesAssumption
    <3>3. \A n \in Nat : n = 2 * RbacTTL - 1 - e.left => Recent(t, n + 1)'
      BY <3>1, <3>2, TickRecent
    <3> QED  BY <3>2, <3>3 DEF Recent
  <2>5. ResultOK(t, permCache[t])'
    BY <1>2, <2>1, <2>2, <2>3, <2>4 DEF ResultOK
  <2> QED  BY <2>2, <2>5
<1>6. \A r \in Requests : RequestOK(req[r], r \in BatchRequests)'
  BY <1>1 DEF RequestOK
<1>7. token' \in [Tokens -> RowType] /\ lost' \in [Tokens -> 0..2 * RbacTTL]
  <2>1. PICK expiring \in SUBSET {t \in Tokens : token[t].life = "dated"} :
          token' = [t \in Tokens |-> IF t \in expiring THEN [token[t] EXCEPT !.life = "over"] ELSE token[t]]
    BY Zenon DEF Tick
  <2>2. token' \in [Tokens -> RowType]
    BY <1>1, <2>1 DEF ACTypeOK, RowType
  <2>3. lost' = [t \in Tokens |-> lost'[t]]
    BY DEF Tick
  <2> QED  BY <2>2, <2>3, TickRecent
<1>8. ACTypeOK'
  <2>1. cache' \in [Secrets -> [grants : BOOLEAN, left : 1..AuthTTL] \union {None}]
    BY <1>1, <1>3
  <2>2. tokenCache' \in [Tokens -> [data : Datas, left : 1..RbacTTL, torn : BOOLEAN, missed : BOOLEAN]
                                     \union {None}]
    BY <1>1, <1>4
  <2>3. permCache' \in [Tokens -> [allowed : BOOLEAN, left : 1..RbacTTL, torn : BOOLEAN, why : Reasons]
                                    \union {None}]
    BY <1>1, <1>5
  <2> QED  BY <1>1, <1>7, <2>1, <2>2, <2>3 DEF ACTypeOK
<1>9. Held' /\ Membership'
  BY <1>1 DEF IInv, Held, Membership
<1> QED  BY <1>3, <1>4, <1>5, <1>6, <1>8, <1>9 DEF IInv

---------------------------------------------------------------------------

LEMMA Initially == ACInit => IInv
<1> SUFFICES ASSUME ACInit PROVE IInv
  OBVIOUS
<1>1. token \in [Tokens -> RowType] /\ rbac \in TablesType
  BY ContentsAssumption DEF ACInit
<1>2. \A r \in Requests : req[r] = IdleRequest /\ req[r].pc = "idle"
  BY DEF ACInit, IdleRequest
<1>3. ACTypeOK
  <2>1. req \in [Requests -> RequestType]
    BY IdleType DEF ACInit
  <2>2. writer \in [Writers -> [pc : {"idle", "auth", "data", "perm"}, scope : SUBSET Tokens]]
    BY DEF ACInit, IdleWriter
  <2>3. writes \in Nat /\ lost \in [Tokens -> 0..2 * RbacTTL]
    BY CachesAssumption DEF ACInit
  <2> QED  BY <1>1, <2>1, <2>2, <2>3 DEF ACTypeOK, ACInit
<1>4. Held /\ Membership
  BY <1>2, CachesAssumption, ContentsAssumption DEF Held, Membership, ACInit
<1>5. \A r \in Requests : RequestOK(req[r], r \in BatchRequests)
  BY <1>2 DEF RequestOK
<1>6. /\ \A s \in Secrets : VerifiedOK(s, cache[s])
      /\ \A t \in Tokens : LoadedOK(t, tokenCache[t])
      /\ \A t \in Tokens : ResultOK(t, permCache[t])
  BY DEF ACInit, VerifiedOK, LoadedOK, ResultOK
<1> QED  BY <1>3, <1>4, <1>5, <1>6 DEF IInv

LEMMA StepKeeps == IInv /\ [ACNext]_vars => IInv'
<1> SUFFICES ASSUME IInv, [ACNext]_vars PROVE IInv'
  OBVIOUS
<1>1. ASSUME NEW r \in Requests, LookUp(r) \/ Continue(r) PROVE IInv'
  BY <1>1, LookUpKeeps, QueryTokenKeeps, RememberKeeps, LookUpPermKeeps, GetDataKeeps, LoadFailsKeeps,
     ReadTeamsKeeps, ReadRolesKeeps, ReadMPermsKeeps, KeepDataKeeps, AnswerCheckKeeps DEF Continue
<1>2. ASSUME NEW w \in Writers, Write(w) PROVE IInv'
  BY <1>2, TokenWritesKeep, DeleteTokenKeeps, InvalidateTokensKeeps, OrganizationWritesKeep,
     ChainWritesKeep, MemberWritesKeep DEF Write
<1>3. ASSUME NEW w \in Writers, Clear(w) PROVE IInv'
  BY <1>3, ClearTokensKeeps, ClearDataKeeps, ClearPermKeeps DEF Clear
<1>4. ASSUME UNCHANGED vars PROVE IInv'
  <2>1. Quiet /\ UNCHANGED <<conn, lock, caches, req, writes>>
    BY <1>4 DEF vars, Quiet, clock
  <2>2. ACTypeOK' /\ Held'
    BY <1>4 DEF IInv, ACTypeOK, Held, vars, tables, caches, clock
  <2> QED  BY <2>1, <2>2, QuietPreserves DEF caches
<1> QED  BY <1>1, <1>2, <1>3, <1>4, TickKeeps DEF ACNext

LEMMA Invariance == ACSpec => []IInv
  BY Initially, StepKeeps, PTL DEF ACSpec

\* The caches, the locks and the calls have their types.
THEOREM TypeCorrect == ACSpec => []ACTypeOK
<1>1. IInv => ACTypeOK
  BY DEF IInv
<1> QED  BY <1>1, Invariance, PTL

\* Nobody waits in a circle for the one connection and tokenCacheMu: VerifyToken holds the
\* connection only until it has stored the token (auth.go), and a load that holds
\* tokenCacheMu closes the rows of each query (rbac_manager.go).
THEOREM NoCircularWaitCorrect == ACSpec => []NoCircularWait
<1>1. IInv => NoCircularWait
  BY DEF IInv, Held, ACTypeOK, NoCircularWait
<1> QED  BY <1>1, Invariance, PTL

\* A verified token is the row of the table and loaded data are what the tables hold, for
\* whatever number of calls and handlers, unless a write has not yet cleared them or, for
\* the data, is one that clears nothing (VerifyToken, getTokenRBACData).
THEOREM CachesCurrentCorrect == ACSpec => []CachesCurrent
<1>1. IInv => CachesCurrent
  <2> SUFFICES ASSUME IInv PROVE CachesCurrent
    OBVIOUS
  <2>1. VerifiedCurrent
    BY DEF IInv, VerifiedCurrent, VerifiedOK, On, Clearing
  <2>2. DataCurrent
    BY DEF IInv, DataCurrent, LoadedOK
  <2> QED  BY <2>1, <2>2 DEF CachesCurrent
<1> QED  BY <1>1, Invariance, PTL

\* A stored result of a check is what the tables grant or is so for one of the named reasons,
\* and grants a permission that was lost for no longer than two TTLs together
\* (CheckPermission, CheckPermissionsBatch, getTokenRBACData).
THEOREM ResultCurrentCorrect == ACSpec => []ResultCurrent
<1>1. IInv => ResultCurrent
  <2> SUFFICES ASSUME IInv PROVE ResultCurrent
    OBVIOUS
  <2>1. NamedStale
    BY DEF IInv, NamedStale, ResultOK, On
  <2>2. StaleForTwoTTLs
    <3> SUFFICES ASSUME NEW t \in Tokens, permCache[t] # None, permCache[t].allowed,
                        ~permCache[t].torn, token[t].state = "on"
                 PROVE  Allowed(t) \/ lost[t] <= 2 * (RbacTTL - 1)
      BY DEF StaleForTwoTTLs
    <3>1. Recent(t, 2 * RbacTTL - 1 - permCache[t].left)
      BY DEF IInv, ResultOK
    <3>2. permCache[t].left \in 1..RbacTTL /\ lost[t] \in 0..2 * RbacTTL
      BY DEF IInv, ACTypeOK
    <3> QED  BY <3>1, <3>2, CachesAssumption DEF Recent, On
  <2> QED  BY <2>1, <2>2 DEF ResultCurrent
<1> QED  BY <1>1, Invariance, PTL

===============================================================================
