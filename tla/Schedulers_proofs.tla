------------------------- MODULE Schedulers_proofs -------------------------
(***************************************************************************)
(* Theorems about Schedulers for every set of queries, handlers and        *)
(* goroutines, and every number of requests, firings, crashes and ticks.   *)
(***************************************************************************)
EXTENDS Schedulers, TLAPS

-----------------------------------------------------------------------------
(* Types, in the groups that the actions change.                           *)

TableType ==
    /\ now \in Nat /\ events \in Nat
    /\ cq \in [CQs -> [is : {"absent", "active", "inactive", "deleted"},
                        interval : Intervals \union {Bad}, last : Int]]
    /\ written \in [CQs -> SUBSET (Int \X Int)] /\ irregular \subseteq CQs

JobsType ==
    /\ jobs \in [CQs -> Slots \union {None}] /\ job \in [CQs -> [Slots -> Goroutines]]
    /\ running \in BOOLEAN /\ raced \subseteq CQs /\ unread \subseteq CQs

Requests == {Idle, [op |-> "trigger"]} \union Restarts \union RestartsOfAll \union Executions

CallType == call \in [Calls -> Requests]

SwitchType ==
    /\ licensed \in BOOLEAN /\ primary \in BOOLEAN
    /\ cron \in BOOLEAN /\ mu \in BOOLEAN /\ runningJob \in BOOLEAN
    /\ cycle \in [Crons -> {"idle", "check", "policies", "deferred"}]
    /\ shutdown \in BOOLEAN
    /\ cqStop \in {"no", "waiting", "done"} /\ retentionStop \in {"no", "waiting", "done"}

LEMMA TypeParts ==
    /\ SCTypeOK <=> TableType /\ JobsType /\ CallType /\ SwitchType
    /\ SCTypeOK' <=> TableType' /\ JobsType' /\ CallType' /\ SwitchType'
BY DEF SCTypeOK, TableType, JobsType, CallType, SwitchType, Requests

LEMMA UnchangedType ==
    /\ TableType /\ UNCHANGED <<now, events, table>> => TableType'
    /\ JobsType /\ UNCHANGED scheduler => JobsType'
    /\ CallType /\ UNCHANGED call => CallType'
    /\ SwitchType /\ UNCHANGED <<licensed, primary, retention, stops>> => SwitchType'
BY DEF table, scheduler, retention, stops, TableType, JobsType, CallType, SwitchType

LEMMA AnyOf == ASSUME NEW S, S # {} PROVE Any(S) \in S
BY DEF Any

LEMMA Constants == None \notin Slots /\ None = 0 /\ Bad = 0 /\ Slots # {} /\ Intervals # {}
                   /\ Intervals \subseteq Nat /\ LookBack \in Nat
BY SchedulerConstants

LEMMA FreeType ==
    /\ Free \in Goroutines /\ Free.at = "free" /\ Free.stop = FALSE
    /\ \A i \in Intervals \union {Bad} :
          Started(i) \in Goroutines /\ Started(i).at = "select" /\ Started(i).stop = FALSE
<1>1. Free \in Goroutines /\ Free.at = "free" /\ Free.stop = FALSE
  BY DEF Free, Goroutines
<1>2. ASSUME NEW i \in Intervals \union {Bad}
      PROVE  Started(i) \in Goroutines /\ Started(i).at = "select" /\ Started(i).stop = FALSE
  BY <1>1 DEF Started, Goroutines
<1> QED
  BY <1>1, <1>2

LEMMA StopJobsType ==
    ASSUME JobsType, NEW Q, NEW D, StopJobs(Q, D)
    PROVE  jobs' \in [CQs -> Slots \union {None}] /\ job' \in [CQs -> [Slots -> Goroutines]]
<1>1. jobs' \in [CQs -> Slots \union {None}]
  BY DEF StopJobs, JobsType
<1>2. ASSUME NEW q \in CQs, NEW k \in Slots
      PROVE  [job[q][k] EXCEPT !.stop = TRUE, !.due = q \in D] \in Goroutines /\ job[q][k] \in Goroutines
  <2>1. job[q][k] \in Goroutines
    BY DEF JobsType
  <2>2. (q \in D) \in BOOLEAN
    OBVIOUS
  <2> QED
    BY <2>1, <2>2 DEF Goroutines
<1>3. job' \in [CQs -> [Slots -> Goroutines]]
  BY <1>2 DEF StopJobs
<1> QED
  BY <1>1, <1>3

LEMMA StartJobsType ==
    ASSUME JobsType, NEW intervals, DOMAIN intervals \subseteq CQs,
           \A q \in DOMAIN intervals : intervals[q] \in Intervals \union {Bad},
           StartJobs(intervals)
    PROVE  jobs' \in [CQs -> Slots \union {None}] /\ job' \in [CQs -> [Slots -> Goroutines]]
<1> DEFINE Q == {q \in DOMAIN intervals : intervals[q] # Bad}
           slot(q) == Any(Slots \ Live(q))
<1>1. /\ \A q \in Q : Live(q) # Slots
      /\ jobs' = [q \in CQs |-> IF q \in Q THEN slot(q) ELSE jobs[q]]
      /\ job' = [q \in CQs |-> [k \in Slots |->
                    IF q \in Q /\ k = slot(q) THEN Started(intervals[q]) ELSE job[q][k]]]
  BY DEF StartJobs
<1>2. ASSUME NEW q \in Q PROVE slot(q) \in Slots
  <2>1. Slots \ Live(q) # {}
    BY <1>1 DEF Live
  <2> QED
    BY <2>1, AnyOf
<1>3. jobs' \in [CQs -> Slots \union {None}]
  BY <1>1, <1>2 DEF JobsType
<1>4. \A q \in Q : Started(intervals[q]) \in Goroutines
  BY FreeType
<1>5. job' \in [CQs -> [Slots -> Goroutines]]
  BY <1>1, <1>4 DEF JobsType
<1> QED
  BY <1>3, <1>5

LEMMA StoppedType ==
    ASSUME JobsType, NEW Q, Q \subseteq CQs
    PROVE  Stopped(Q) \in SUBSET (CQs \X Slots)
BY DEF JobsType, Stopped

\* The shape of a request follows from its operation.
LEMMA RequestShapes ==
    ASSUME NEW r \in Requests
    PROVE  /\ r.op \in {"create", "update"} => r \in Restarts
           /\ r.op = "all" => r \in RestartsOfAll
           /\ r.op = "execute" => r \in Executions
BY DEF Requests, Idle, Restarts, RestartsOfAll, Executions

LEMMA CallUpdate ==
    ASSUME CallType, NEW c \in Calls, NEW r \in Requests, call' = [call EXCEPT ![c] = r]
    PROVE  CallType'
BY DEF CallType

LEMMA RequestsOf ==
    /\ Idle \in Requests /\ [op |-> "trigger"] \in Requests
    /\ Restarts \subseteq Requests /\ RestartsOfAll \subseteq Requests /\ Executions \subseteq Requests
BY DEF Requests

LEMMA JobUpdate ==
    ASSUME JobsType, NEW q \in CQs, NEW k \in Slots, NEW g \in Goroutines,
           job' = [job EXCEPT ![q][k] = g]
    PROVE  job' \in [CQs -> [Slots -> Goroutines]]
BY DEF JobsType

LEMMA TypeInit == Init => SCTypeOK
<1> SUFFICES ASSUME Init PROVE SCTypeOK
  OBVIOUS
<1>1. TableType
  <2>1. PICK A \in SUBSET CQs : \E R \in SUBSET A :
            /\ cq = [q \in CQs |-> [is |-> IF q \in A THEN "active" ELSE "absent",
                                    interval |-> IF q \in A THEN Any(Intervals) ELSE Bad,
                                    last |-> IF q \in R THEN LookBack ELSE None]]
            /\ written = [q \in CQs |-> IF q \in R THEN {<<0, LookBack>>} ELSE {}]
    BY Zenon DEF Init
  <2>2. Any(Intervals) \in Intervals
    BY AnyOf, Constants
  <2>3. now = LookBack + 1 /\ events = 0 /\ irregular = {}
    BY DEF Init
  <2> QED
    BY <2>1, <2>2, <2>3, Constants DEF TableType
<1>2. JobsType
  <2>1. Any(Intervals) \in Intervals /\ Any(Slots) \in Slots
    BY AnyOf, Constants
  <2>2. /\ running = TRUE /\ raced = {} /\ unread = {}
        /\ jobs = [q \in CQs |-> IF q \in Active THEN Any(Slots) ELSE None]
        /\ job = [q \in CQs |-> [k \in Slots |-> IF k = jobs[q] THEN Started(cq[q].interval) ELSE Free]]
    BY DEF Init
  <2>3. \A q \in CQs : cq[q].interval \in Intervals \union {Bad}
    BY <1>1 DEF TableType
  <2>4. job \in [CQs -> [Slots -> Goroutines]]
    BY <2>2, <2>3, FreeType
  <2> QED
    BY <2>1, <2>2, <2>4 DEF JobsType
<1>3. CallType
  BY RequestsOf DEF Init, CallType
<1>4. SwitchType
  BY DEF Init, SwitchType
<1> QED
  BY <1>1, <1>2, <1>3, <1>4, TypeParts

-----------------------------------------------------------------------------
(* The requests that change the table or restart goroutines.               *)

LEMMA TypeCreate ==
    ASSUME SCTypeOK, NEW c \in Calls, NEW q \in CQs, handleCreate(c, q)
    PROVE  SCTypeOK'
<1> USE TypeParts
<1>1. PICK is \in {"active", "inactive"}, i \in Intervals \union {Bad} :
          /\ cq' = [cq EXCEPT ![q] = [is |-> is, interval |-> i, last |-> None]]
          /\ call' = [call EXCEPT ![c] = [op |-> "create", at |-> "begin", on |-> {q}, is |-> is,
                                          interval |-> i, waits |-> {}]]
  BY Zenon DEF handleCreate
<1>2. TableType'
  BY <1>1, Constants DEF handleCreate, Accepts, Event, TableType
<1>3. CallType'
  <2>1. [op |-> "create", at |-> "begin", on |-> {q}, is |-> is, interval |-> i, waits |-> {}] \in Restarts
    BY DEF Restarts
  <2> QED
    BY <1>1, <2>1, RequestsOf, CallUpdate
<1> QED
  BY <1>2, <1>3, UnchangedType DEF handleCreate

LEMMA TypeUpdate ==
    ASSUME SCTypeOK, NEW c \in Calls, NEW q \in CQs, handleUpdate(c, q)
    PROVE  SCTypeOK'
<1> USE TypeParts
<1>1. PICK is \in {"active", "inactive"}, i \in Intervals \union {Bad} :
          cq' = [cq EXCEPT ![q] = [@ EXCEPT !.is = is, !.interval = i]]
  BY Zenon DEF handleUpdate
<1>2. TableType'
  <2>1. [cq[q] EXCEPT !.is = is, !.interval = i] \in
          [is : {"absent", "active", "inactive", "deleted"}, interval : Intervals \union {Bad}, last : Int]
    BY DEF TableType
  <2> QED
    BY <1>1, <2>1 DEF handleUpdate, Accepts, Event, TableType
<1>3. CallType'
  <2>1. [op |-> "update", at |-> "begin", on |-> {q}, is |-> "inactive", interval |-> Bad,
         waits |-> {}] \in Restarts
    BY DEF Restarts
  <2> QED
    BY <2>1, RequestsOf, CallUpdate DEF handleUpdate
<1> QED
  BY <1>2, <1>3, UnchangedType DEF handleUpdate

LEMMA TypeDelete ==
    ASSUME SCTypeOK, NEW c \in Calls, NEW q \in CQs, handleDelete(c, q)
    PROVE  SCTypeOK'
<1> USE TypeParts
<1>1. TableType'
  BY Constants DEF handleDelete, Accepts, Event, TableType
<1> QED
  BY <1>1, UnchangedType DEF handleDelete

LEMMA TypeStartJobDirect ==
    ASSUME SCTypeOK, NEW c \in Calls, NEW q \in CQs, StartJobDirect(c, q)
    PROVE  SCTypeOK'
<1> USE TypeParts
<1>1. call[c] \in Restarts
  BY RequestShapes DEF StartJobDirect, CallType
<1>2. JobsType'
  BY StopJobsType DEF StartJobDirect, JobsType
<1>3. CallType'
  <2>1. CASE running
    <3>1. [call[c] EXCEPT !.at = "waiting", !.waits = Stopped({q})] \in Restarts
      BY <1>1, StoppedType DEF Restarts
    <3> QED
      BY <2>1, <3>1, RequestsOf, CallUpdate DEF StartJobDirect
  <2>2. CASE ~running
    BY <2>2, RequestsOf, CallUpdate DEF StartJobDirect
  <2> QED
    BY <2>1, <2>2
<1> QED
  BY <1>2, <1>3, UnchangedType DEF StartJobDirect

LEMMA TypeReloadCQ ==
    ASSUME SCTypeOK, NEW c \in Calls, NEW q \in CQs, ReloadCQ(c, q)
    PROVE  SCTypeOK'
<1> USE TypeParts
<1>1. call[c] \in Restarts
  BY RequestShapes DEF ReloadCQ, CallType
<1>2. JobsType'
  BY StopJobsType DEF ReloadCQ, JobsType
<1>3. CallType'
  <2>1. CASE running /\ cq[q].is # "deleted"
                     /\ call' = [call EXCEPT ![c] = [@ EXCEPT !.at = "waiting", !.waits = Stopped({q}),
                                                     !.is = cq[q].is, !.interval = cq[q].interval]]
    <3>1. cq[q].is \in {"absent", "active", "inactive"} /\ cq[q].interval \in Intervals \union {Bad}
      BY <2>1 DEF TableType
    <3>2. [call[c] EXCEPT !.at = "waiting", !.waits = Stopped({q}), !.is = cq[q].is,
                          !.interval = cq[q].interval] \in Restarts
      BY <1>1, <3>1, StoppedType DEF Restarts
    <3> QED
      BY <2>1, <3>2, RequestsOf, CallUpdate
  <2>2. CASE call' = [call EXCEPT ![c] = Idle]
    BY <2>2, RequestsOf, CallUpdate
  <2> QED
    BY <2>1, <2>2 DEF ReloadCQ
<1> QED
  BY <1>2, <1>3, UnchangedType DEF ReloadCQ

LEMMA TypeStartReplacement ==
    ASSUME SCTypeOK, NEW c \in Calls, NEW q \in CQs, StartReplacement(c, q)
    PROVE  SCTypeOK'
<1> USE TypeParts
<1>1. call[c] \in Restarts
  BY RequestShapes DEF StartReplacement, CallType
<1>2. JobsType'
  <2>1. CASE call[c].is = "active"
    <3>1. StartJobs([p \in {q} |-> call[c].interval])
      BY <2>1 DEF StartReplacement
    <3>2. \A p \in {q} : call[c].interval \in Intervals \union {Bad}
      BY <1>1 DEF Restarts
    <3>3. jobs' \in [CQs -> Slots \union {None}] /\ job' \in [CQs -> [Slots -> Goroutines]]
      BY <3>1, <3>2, StartJobsType
    <3> QED
      BY <3>3 DEF StartReplacement, JobsType
  <2>2. CASE call[c].is # "active"
    BY <2>2 DEF StartReplacement, JobsType
  <2> QED
    BY <2>1, <2>2
<1>3. CallType'
  BY RequestsOf, CallUpdate DEF StartReplacement
<1> QED
  BY <1>2, <1>3, UnchangedType DEF StartReplacement

LEMMA TypeReloadAll ==
    ASSUME SCTypeOK, NEW c \in Calls, ReloadAll(c)
    PROVE  SCTypeOK'
<1> USE TypeParts
<1>1. TableType'
  BY DEF ReloadAll, Accepts, Event, TableType, table
<1>2. JobsType'
  BY StopJobsType DEF ReloadAll, JobsType
<1>3. CallType'
  <2>1. [op |-> "all", at |-> "waiting", on |-> CQs, waits |-> Stopped(CQs)] \in RestartsOfAll
    BY StoppedType DEF RestartsOfAll
  <2> QED
    BY <2>1, RequestsOf, CallUpdate DEF ReloadAll
<1> QED
  BY <1>1, <1>2, <1>3, UnchangedType DEF ReloadAll

LEMMA TypeStartAll ==
    ASSUME SCTypeOK, NEW c \in Calls, StartAll(c)
    PROVE  SCTypeOK'
<1> USE TypeParts
<1>1. JobsType'
  <2>1. CASE licensed /\ StartJobs([q \in Active |-> cq[q].interval]) /\ unread' = {}
    <3>1. Active \subseteq CQs /\ \A q \in Active : cq[q].interval \in Intervals \union {Bad}
      BY DEF Active, TableType
    <3>2. jobs' \in [CQs -> Slots \union {None}] /\ job' \in [CQs -> [Slots -> Goroutines]]
      BY <2>1, <3>1, StartJobsType
    <3> QED
      BY <2>1, <3>2 DEF StartAll, JobsType
  <2>2. CASE UNCHANGED <<jobs, job>> /\ unread' = CQs
    BY <2>2 DEF StartAll, JobsType
  <2> QED
    BY <2>1, <2>2 DEF StartAll
<1>2. CallType'
  BY RequestsOf, CallUpdate DEF StartAll
<1> QED
  BY <1>1, <1>2, UnchangedType DEF StartAll

-----------------------------------------------------------------------------
(* Executions, retention, shutdown and faults.                             *)

LEMMA FromType == ASSUME TableType, NEW q \in CQs PROVE From(q) \in Int
BY Constants DEF TableType, From

LEMMA MarkType ==
    ASSUME TableType, NEW q \in CQs, NEW yes, MarkIrregular(q, yes)
    PROVE  irregular' \subseteq CQs /\ written' \in [CQs -> SUBSET (Int \X Int)]
BY DEF MarkIrregular, TableType

LEMMA WindowUpdate ==
    ASSUME NEW g \in Goroutines, NEW at \in {"select", "query"}, NEW from \in Int, NEW to \in Int
    PROVE  /\ [g EXCEPT !.at = at, !.due = FALSE, !.from = from, !.to = to] \in Goroutines
           /\ [g EXCEPT !.at = at, !.from = from, !.to = to] \in Goroutines
<1>1. \A h \in Goroutines, i \in Int : [h EXCEPT !.from = i] \in Goroutines
                                     /\ [h EXCEPT !.to = i] \in Goroutines
  BY DEF Goroutines
<1>2. [g EXCEPT !.at = at] \in Goroutines /\ [g EXCEPT !.at = at, !.due = FALSE] \in Goroutines
  BY DEF Goroutines
<1>3. \A h \in Goroutines : [h EXCEPT !.from = from, !.to = to] \in Goroutines
  BY Zenon, <1>1
<1> QED
  BY Zenon, <1>2, <1>3

LEMMA TypeTick ==
    ASSUME SCTypeOK, NEW q \in CQs, NEW k \in Slots, Tick(q, k)
    PROVE  SCTypeOK'
<1> USE TypeParts
<1>1. ExecuteCQ(q, k) /\ job[q][k] \in Goroutines
  BY DEF Tick, JobsType
<1>2. TableType'
  BY <1>1, MarkType DEF ExecuteCQ, TableType
<1>3. JobsType'
  <2>1. [job[q][k] EXCEPT !.at = "query", !.due = FALSE, !.from = From(q), !.to = now] \in Goroutines
    <3>1. From(q) \in Int /\ now \in Int /\ "query" \in {"select", "query"}
      BY FromType DEF TableType
    <3> QED
      BY Zenon, <1>1, <3>1, WindowUpdate
  <2>2. [job[q][k] EXCEPT !.due = FALSE] \in Goroutines
    BY <1>1 DEF Goroutines
  <2>3. job' \in [CQs -> [Slots -> Goroutines]]
    BY <1>1, <2>1, <2>2, JobUpdate DEF ExecuteCQ
  <2> QED
    BY <1>1, <2>3 DEF ExecuteCQ, JobsType
<1> QED
  BY <1>1, <1>2, <1>3, UnchangedType DEF ExecuteCQ

LEMMA AggregationType ==
    ASSUME TableType, NEW q \in CQs, NEW w \in Int \X Int, NEW ok, executeAggregation(q, w, ok)
    PROVE  TableType'
BY DEF executeAggregation, TableType

LEMMA RecordType ==
    ASSUME TableType, NEW q \in CQs, NEW w \in Int \X Int, NEW ok,
           recordExecutionAndUpdateTime(q, w, ok)
    PROVE  TableType'
<1>1. [cq[q] EXCEPT !.last = w[2]] \in
        [is : {"absent", "active", "inactive", "deleted"}, interval : Intervals \union {Bad}, last : Int]
  BY DEF TableType
<1> QED
  BY <1>1 DEF recordExecutionAndUpdateTime, TableType

LEMMA TypeJobAggregates ==
    ASSUME SCTypeOK, NEW q \in CQs, NEW k \in Slots, JobAggregates(q, k)
    PROVE  SCTypeOK'
<1> USE TypeParts
<1>1. PICK ok \in BOOLEAN :
          /\ executeAggregation(q, <<job[q][k].from, job[q][k].to>>, ok)
          /\ job' = [job EXCEPT ![q][k] = [@ EXCEPT !.at = IF ok THEN "record" ELSE "select"]]
  BY Zenon DEF JobAggregates
<1>2. job[q][k] \in Goroutines
  BY DEF JobsType
<1>3. TableType'
  BY <1>1, <1>2, AggregationType DEF Goroutines
<1>4. JobsType'
  <2>1. [job[q][k] EXCEPT !.at = IF ok THEN "record" ELSE "select"] \in Goroutines
    BY <1>2 DEF Goroutines
  <2>2. job' \in [CQs -> [Slots -> Goroutines]]
    BY <1>1, <2>1, JobUpdate
  <2> QED
    BY <1>1, <2>2 DEF executeAggregation, JobsType
<1> QED
  BY <1>1, <1>3, <1>4, UnchangedType DEF JobAggregates, executeAggregation

LEMMA TypeJobRecords ==
    ASSUME SCTypeOK, NEW q \in CQs, NEW k \in Slots, JobRecords(q, k)
    PROVE  SCTypeOK'
<1> USE TypeParts
<1>1. PICK ok \in BOOLEAN : recordExecutionAndUpdateTime(q, <<job[q][k].from, job[q][k].to>>, ok)
  BY Zenon DEF JobRecords
<1>2. job[q][k] \in Goroutines
  BY DEF JobsType
<1>3. TableType'
  BY <1>1, <1>2, RecordType DEF Goroutines
<1>4. JobsType'
  <2>1. [job[q][k] EXCEPT !.at = "select", !.from = 0, !.to = 0] \in Goroutines
    <3>1. 0 \in Int /\ "select" \in {"select", "query"}
      OBVIOUS
    <3> QED
      BY Zenon, <1>2, <3>1, WindowUpdate
  <2>2. job' \in [CQs -> [Slots -> Goroutines]]
    BY <2>1, JobUpdate DEF JobRecords
  <2> QED
    BY <1>1, <2>2 DEF recordExecutionAndUpdateTime, JobsType
<1> QED
  BY <1>1, <1>3, <1>4, UnchangedType DEF JobRecords, recordExecutionAndUpdateTime

LEMMA TypeJobExits ==
    ASSUME SCTypeOK, NEW q \in CQs, NEW k \in Slots, JobExits(q, k)
    PROVE  SCTypeOK'
<1> USE TypeParts
<1>1. JobsType'
  BY FreeType, JobUpdate DEF JobExits, JobsType
<1>2. CallType'
  <2>1. ASSUME NEW c \in Calls, call[c].op \in {"create", "update", "all"}
        PROVE  [call[c] EXCEPT !.waits = @ \ {<<q, k>>}] \in Requests
    <3>1. CASE call[c].op = "all"
      <4>1. call[c] \in RestartsOfAll
        BY <3>1, RequestShapes DEF CallType
      <4> QED
        BY <4>1, RequestsOf DEF RestartsOfAll
    <3>2. CASE call[c].op # "all"
      <4>1. call[c] \in Restarts
        BY <2>1, <3>2, RequestShapes DEF CallType
      <4> QED
        BY <4>1, RequestsOf DEF Restarts
    <3> QED
      BY <3>1, <3>2
  <2> QED
    BY <2>1 DEF JobExits, CallType
<1> QED
  BY <1>1, <1>2, UnchangedType DEF JobExits

LEMMA TypeExecute ==
    ASSUME SCTypeOK, NEW c \in Calls, NEW q \in CQs, handleExecute(c, q)
    PROVE  SCTypeOK'
<1> USE TypeParts
<1>1. PICK w \in {<<From(q), now>>} \union ({-LookBack} \X (1 .. MaxTime)) :
          /\ call' = [call EXCEPT ![c] = [op |-> "execute", at |-> "query", q |-> q, w |-> w]]
          /\ MarkIrregular(q, Irregular(q) \/ w # <<From(q), now>>)
  BY Zenon DEF handleExecute
<1>2. w \in Int \X Int
  <2>1. <<From(q), now>> \in Int \X Int
    BY FromType DEF TableType
  <2>2. ({-LookBack} \X (1 .. MaxTime)) \subseteq Int \X Int
    BY Constants
  <2> QED
    BY <2>1, <2>2
<1>3. TableType'
  BY <1>1, MarkType DEF handleExecute, Accepts, Event, TableType
<1>4. CallType'
  <2>1. [op |-> "execute", at |-> "query", q |-> q, w |-> w] \in Executions
    BY <1>2 DEF Executions
  <2> QED
    BY <1>1, <2>1, RequestsOf, CallUpdate
<1> QED
  BY <1>3, <1>4, UnchangedType DEF handleExecute

LEMMA TypeCallAggregates ==
    ASSUME SCTypeOK, NEW c \in Calls, NEW q \in CQs, CallAggregates(c, q)
    PROVE  SCTypeOK'
<1> USE TypeParts
<1>1. PICK ok \in BOOLEAN :
          /\ executeAggregation(q, call[c].w, ok)
          /\ call' = [call EXCEPT ![c] = IF ok THEN [@ EXCEPT !.at = "record"] ELSE Idle]
  BY Zenon DEF CallAggregates
<1>2. call[c] \in Executions
  BY RequestShapes DEF CallAggregates, Manual, CallType
<1>3. TableType'
  BY <1>1, <1>2, AggregationType DEF Executions
<1>4. CallType'
  <2>1. [call[c] EXCEPT !.at = "record"] \in Executions
    BY <1>2 DEF Executions
  <2> QED
    BY <1>1, <2>1, RequestsOf, CallUpdate
<1>5. JobsType'
  BY <1>1 DEF CallAggregates, executeAggregation, JobsType
<1> QED
  BY <1>1, <1>3, <1>4, <1>5, UnchangedType DEF executeAggregation

LEMMA TypeCallRecords ==
    ASSUME SCTypeOK, NEW c \in Calls, NEW q \in CQs, CallRecords(c, q)
    PROVE  SCTypeOK'
<1> USE TypeParts
<1>1. PICK ok \in BOOLEAN : recordExecutionAndUpdateTime(q, call[c].w, ok)
  BY Zenon DEF CallRecords
<1>2. call[c] \in Executions
  BY RequestShapes DEF CallRecords, Manual, CallType
<1>3. TableType'
  BY <1>1, <1>2, RecordType DEF Executions
<1>4. CallType'
  BY RequestsOf, CallUpdate DEF CallRecords
<1>5. JobsType'
  BY <1>1 DEF CallRecords, recordExecutionAndUpdateTime, JobsType
<1> QED
  BY <1>1, <1>3, <1>4, <1>5, UnchangedType DEF recordExecutionAndUpdateTime

LEMMA TypeRetention ==
    ASSUME SCTypeOK
    PROVE  /\ \A x \in Crons : CronFires(x) \/ runRetention(x) => SCTypeOK'
           /\ \A c \in Calls : TriggerNow(c) \/ TriggerReturns(c) => SCTypeOK'
<1> USE TypeParts
<1>1. ASSUME NEW x \in Crons, CronFires(x) PROVE SCTypeOK'
  <2>1. TableType' /\ SwitchType'
    BY <1>1 DEF CronFires, Event, TableType, SwitchType, table, stops
  <2> QED
    BY <1>1, <2>1, UnchangedType DEF CronFires
<1>2. ASSUME NEW x \in Crons, runRetention(x) PROVE SCTypeOK'
  <2>1. SwitchType'
    BY <1>2 DEF runRetention, ClaimsCycle, ReleasesCycle, SwitchType, stops
  <2> QED
    BY <1>2, <2>1, UnchangedType DEF runRetention
<1>3. ASSUME NEW c \in Calls, TriggerNow(c) PROVE SCTypeOK'
  <2>1. TableType' /\ SwitchType'
    BY <1>3 DEF TriggerNow, Accepts, Event, ClaimsCycle, TableType, SwitchType, table, stops
  <2>2. CallType'
    BY <1>3, RequestsOf, CallUpdate DEF TriggerNow
  <2> QED
    BY <1>3, <2>1, <2>2, UnchangedType DEF TriggerNow
<1>4. ASSUME NEW c \in Calls, TriggerReturns(c) PROVE SCTypeOK'
  <2>1. SwitchType'
    BY <1>4 DEF TriggerReturns, ReleasesCycle, SwitchType, stops
  <2>2. CallType'
    BY <1>4, RequestsOf, CallUpdate DEF TriggerReturns
  <2> QED
    BY <1>4, <2>1, <2>2, UnchangedType DEF TriggerReturns
<1> QED
  BY <1>1, <1>2, <1>3, <1>4

LEMMA TypeShutdown == ASSUME SCTypeOK, BeginShutdown \/ Stops PROVE SCTypeOK'
<1> USE TypeParts
<1>1. ASSUME BeginShutdown PROVE SCTypeOK'
  <2>1. SwitchType'
    BY <1>1 DEF BeginShutdown, SwitchType, retention
  <2> QED
    BY <1>1, <2>1, UnchangedType DEF BeginShutdown
<1>2. ASSUME StopCQ PROVE SCTypeOK'
  <2>1. SwitchType'
    BY <1>2 DEF StopCQ, SwitchType, retention
  <2>2. JobsType'
    BY <1>2, StopJobsType DEF StopCQ, JobsType
  <2> QED
    BY <1>2, <2>1, <2>2, UnchangedType DEF StopCQ
<1>3. ASSUME CQStopped PROVE SCTypeOK'
  <2>1. SwitchType'
    BY <1>3 DEF CQStopped, SwitchType, retention
  <2> QED
    BY <1>3, <2>1, UnchangedType DEF CQStopped
<1>4. ASSUME StopRetention PROVE SCTypeOK'
  <2>1. SwitchType'
    BY <1>4 DEF StopRetention, SwitchType
  <2> QED
    BY <1>4, <2>1, UnchangedType DEF StopRetention
<1>5. ASSUME RetentionStopped PROVE SCTypeOK'
  <2>1. SwitchType'
    BY <1>5 DEF RetentionStopped, SwitchType
  <2> QED
    BY <1>5, <2>1, UnchangedType DEF RetentionStopped
<1> QED
  BY <1>1, <1>2, <1>3, <1>4, <1>5 DEF Stops

LEMMA TypeFaults ==
    ASSUME SCTypeOK, Restart \/ LicenseChanges \/ RoleChanges \/ TimePasses PROVE SCTypeOK'
<1> USE TypeParts
<1>1. ASSUME Restart PROVE SCTypeOK'
  <2>1. PICK ok \in BOOLEAN : BootJobs(ok)
    BY <1>1 DEF Restart
  <2>2. Any(Slots) \in Slots /\ \A q \in CQs : cq[q].interval \in Intervals \union {Bad}
    BY AnyOf, Constants DEF TableType
  <2>3. jobs' \in [CQs -> Slots \union {None}] /\ job' \in [CQs -> [Slots -> Goroutines]]
    BY <2>1, <2>2, FreeType DEF BootJobs
  <2>4. JobsType' /\ CallType'
    BY <1>1, <2>1, <2>3, RequestsOf DEF Restart, BootJobs, JobsType, CallType
  <2>5. TableType'
    BY <1>1 DEF Restart, Event, TableType, table
  <2>6. SwitchType'
    BY <1>1 DEF Restart, SwitchType
  <2> QED
    BY <2>4, <2>5, <2>6
<1>2. ASSUME LicenseChanges \/ RoleChanges PROVE SCTypeOK'
  <2>1. TableType'
    BY <1>2 DEF LicenseChanges, RoleChanges, Event, TableType, table
  <2>2. SwitchType'
    BY <1>2 DEF LicenseChanges, RoleChanges, SwitchType, retention, stops
  <2> QED
    BY <1>2, <2>1, <2>2, UnchangedType DEF LicenseChanges, RoleChanges
<1>3. ASSUME TimePasses PROVE SCTypeOK'
  <2>1. TableType'
    BY <1>3 DEF TimePasses, TableType, table
  <2> QED
    BY <1>3, <2>1, UnchangedType DEF TimePasses
<1> QED
  BY <1>1, <1>2, <1>3

LEMMA TypeNext == SCTypeOK /\ [Next]_vars => SCTypeOK'
<1> SUFFICES ASSUME SCTypeOK, [Next]_vars PROVE SCTypeOK'
  OBVIOUS
<1>1. ASSUME NEW c \in Calls, ReloadAll(c) \/ TriggerNow(c) \/ Handler(c) PROVE SCTypeOK'
  BY <1>1, TypeReloadAll, TypeRetention, TypeStartAll, TypeStartJobDirect, TypeReloadCQ,
     TypeStartReplacement, TypeCallAggregates, TypeCallRecords DEF Handler
<1>2. ASSUME NEW c \in Calls, NEW q \in CQs,
             handleCreate(c, q) \/ handleUpdate(c, q) \/ handleDelete(c, q) \/ handleExecute(c, q)
      PROVE  SCTypeOK'
  BY <1>2, TypeCreate, TypeUpdate, TypeDelete, TypeExecute
<1>3. ASSUME NEW q \in CQs, NEW k \in Slots, Tick(q, k) \/ Goroutine(q, k) PROVE SCTypeOK'
  BY <1>3, TypeTick, TypeJobAggregates, TypeJobRecords, TypeJobExits DEF Goroutine
<1>4. ASSUME NEW x \in Crons, CronFires(x) \/ runRetention(x) PROVE SCTypeOK'
  BY <1>4, TypeRetention
<1>5. CASE UNCHANGED vars
  BY <1>5, UnchangedType, TypeParts DEF vars
<1> QED
  BY <1>1, <1>2, <1>3, <1>4, <1>5, TypeShutdown, TypeFaults DEF Next

(* The table, the goroutines, the requests and the switches of Schedulers   *)
(* keep their types: SCTypeOK for every set of queries and handlers.        *)
THEOREM TypeCorrect == Spec => []SCTypeOK
BY TypeInit, TypeNext, PTL DEF Spec

-----------------------------------------------------------------------------
(* Restarts.  While those of a query have not overlapped, one call at most  *)
(* is restarting it, it has one goroutine at most, the goroutine is the one *)
(* in the map or has been told to stop, and somebody waits for one that has *)
(* been told.                                                               *)

Single(q) ==
    /\ \A c, d \in Restarting(q) : c = d
    /\ \A k, l \in Live(q) : k = l
    /\ \A k \in Live(q) : ~job[q][k].stop => k = jobs[q]
    /\ jobs[q] # None => /\ jobs[q] \in Live(q) /\ ~job[q][jobs[q]].stop
                         /\ Restarting(q) = {}
    /\ running => \A k \in Live(q) :
                     job[q][k].stop => \E c \in Restarting(q) : <<q, k>> \in call[c].waits

RestartInv ==
    /\ \A q \in CQs \ raced : Single(q)
    /\ ~running => \A q \in CQs : Restarting(q) = {}
    /\ shutdown => \A c \in Calls : call[c] = Idle

\* A request that restarts q.
Restarter(r, q) == r.op \in {"create", "update", "all"} /\ r.at = "waiting" /\ q \in r.on

LEMMA RestartingDef ==
    \A q \in CQs :
       /\ Restarting(q) \subseteq Calls /\ Restarting(q)' \subseteq Calls
       /\ \A c \in Calls : /\ c \in Restarting(q) <=> Restarter(call[c], q)
                           /\ c \in Restarting(q)' <=> Restarter(call'[c], q)
BY DEF Restarting, Restarter

LEMMA NotRestarter ==
    \A q \in CQs : /\ ~Restarter(Idle, q) /\ ~Restarter([op |-> "trigger"], q)
                   /\ \A r \in Executions : ~Restarter(r, q)
BY DEF Idle, Executions, Restarter

LEMMA LiveDef ==
    \A q \in CQs :
       /\ Live(q) \subseteq Slots /\ Live(q)' \subseteq Slots
       /\ \A k \in Slots : /\ k \in Live(q) <=> job[q][k].at # "free"
                           /\ k \in Live(q)' <=> job'[q][k].at # "free"
BY DEF Live

\* What a step must leave alone to keep the restarts of q as they are.
LEMMA Frame ==
    ASSUME SCTypeOK, NEW q \in CQs, Single(q), jobs'[q] = jobs[q], running' => running,
           \A k \in Slots : /\ (job'[q][k].at = "free") <=> (job[q][k].at = "free")
                            /\ job'[q][k].stop = job[q][k].stop,
           \A c \in Calls : /\ Restarter(call'[c], q) <=> Restarter(call[c], q)
                            /\ Restarter(call[c], q) => call'[c].waits = call[c].waits
    PROVE  Single(q)'
<1>1. Live(q)' = Live(q) /\ Live(q) \subseteq Slots
  BY LiveDef
<1>2. Restarting(q)' = Restarting(q) /\ \A c \in Restarting(q) : call'[c].waits = call[c].waits
  BY RestartingDef
<1>3. \A k \in Live(q) : job'[q][k].stop = job[q][k].stop
  BY <1>1
<1>4. \A k \in Live(q) : ~job'[q][k].stop => k = jobs'[q]
  BY <1>3 DEF Single
<1>5. jobs'[q] # None => jobs'[q] \in Live(q) /\ ~job'[q][jobs'[q]].stop /\ Restarting(q) = {}
  BY <1>3 DEF Single
<1>6. running' => \A k \in Live(q) :
                     job'[q][k].stop => \E c \in Restarting(q) : <<q, k>> \in call'[c].waits
  BY <1>2, <1>3 DEF Single
<1>7. (\A c, d \in Restarting(q) : c = d) /\ (\A k, l \in Live(q) : k = l)
  BY DEF Single
<1> QED
  BY <1>1, <1>2, <1>4, <1>5, <1>6, <1>7 DEF Single

LEMMA Quiet ==
    ASSUME SCTypeOK, RestartInv, UNCHANGED <<jobs, running>>, raced \subseteq raced',
           \A q \in CQs, k \in Slots : /\ (job'[q][k].at = "free") <=> (job[q][k].at = "free")
                                       /\ job'[q][k].stop = job[q][k].stop,
           \A c \in Calls, q \in CQs :
              /\ Restarter(call'[c], q) <=> Restarter(call[c], q)
              /\ Restarter(call[c], q) => call'[c].waits = call[c].waits,
           shutdown' => \A c \in Calls : call'[c] = Idle
    PROVE  RestartInv'
<1>1. \A q \in CQs \ raced' : Single(q)'
  BY Frame DEF RestartInv
<1>2. \A q \in CQs : Restarting(q)' = Restarting(q)
  BY RestartingDef
<1> QED
  BY <1>1, <1>2 DEF RestartInv

\* A step of one request that neither begins nor ends a restart.
LEMMA QuietCall ==
    ASSUME SCTypeOK, NEW c \in Calls, NEW r,
           call' = [call EXCEPT ![c] = r],
           \A q \in CQs : ~Restarter(call[c], q) /\ ~Restarter(r, q)
    PROVE  \A d \in Calls, q \in CQs :
              /\ Restarter(call'[d], q) <=> Restarter(call[d], q)
              /\ Restarter(call[d], q) => call'[d].waits = call[d].waits
<1>1. /\ call'[c] = r
      /\ \A d \in Calls : d # c => call'[d] = call[d]
  BY TypeParts DEF CallType
<1> QED
  BY <1>1

LEMMA QuietJob ==
    ASSUME SCTypeOK, NEW q \in CQs, NEW k \in Slots, NEW g,
           job' = [job EXCEPT ![q][k] = g],
           (g.at = "free") <=> (job[q][k].at = "free"), g.stop = job[q][k].stop
    PROVE  \A p \in CQs, l \in Slots : /\ (job'[p][l].at = "free") <=> (job[p][l].at = "free")
                                       /\ job'[p][l].stop = job[p][l].stop
<1>1. job'[q][k] = g /\ \A p \in CQs, l \in Slots : <<p, l>> # <<q, k>> => job'[p][l] = job[p][l]
  BY TypeParts DEF JobsType
<1> QED
  BY <1>1

LEMMA RestartInit == Init => RestartInv
<1> SUFFICES ASSUME Init PROVE RestartInv
  OBVIOUS
<1>1. SCTypeOK
  BY TypeInit
<1>2. \A q \in CQs : Restarting(q) = {}
  BY RestartingDef, NotRestarter DEF Init
<1>3. ASSUME NEW q \in CQs PROVE Single(q)
  <2>1. Any(Slots) \in Slots /\ None \notin Slots
    BY AnyOf, Constants
  <2>2. cq[q].interval \in Intervals \union {Bad}
    BY <1>1, TypeParts DEF TableType
  <2>3. jobs[q] = (IF q \in Active THEN Any(Slots) ELSE None)
    BY DEF Init
  <2>4. \A k \in Slots : job[q][k] = IF k = jobs[q] THEN Started(cq[q].interval) ELSE Free
    BY DEF Init
  <2>5. Live(q) = {k \in Slots : k = jobs[q]} /\ \A k \in Live(q) : job[q][k].stop = FALSE
    BY <2>2, <2>4, FreeType DEF Live
  <2> QED
    BY <1>2, <2>1, <2>3, <2>5 DEF Single
<1> QED
  BY <1>2, <1>3 DEF RestartInv, Init

LEMMA StopJobsEffect ==
    ASSUME SCTypeOK, NEW Q \in SUBSET CQs, NEW D, StopJobs(Q, D)
    PROVE  /\ \A q \in CQs : jobs'[q] = IF q \in Q THEN None ELSE jobs[q]
           /\ \A q \in CQs, k \in Slots :
                 /\ job'[q][k].at = job[q][k].at
                 /\ q \in Q /\ k = jobs[q] => job'[q][k].stop = TRUE
                 /\ ~(q \in Q /\ k = jobs[q]) => job'[q][k].stop = job[q][k].stop
<1>1. \A q \in CQs : jobs'[q] = IF q \in Q THEN None ELSE jobs[q]
  BY DEF StopJobs
<1>2. ASSUME NEW q \in CQs, NEW k \in Slots
      PROVE  /\ job'[q][k].at = job[q][k].at
             /\ q \in Q /\ k = jobs[q] => job'[q][k].stop = TRUE
             /\ ~(q \in Q /\ k = jobs[q]) => job'[q][k].stop = job[q][k].stop
  <2>1. job[q][k] \in Goroutines
    BY TypeParts DEF JobsType
  <2>2. job'[q][k] = IF q \in Q /\ k = jobs[q]
                     THEN [job[q][k] EXCEPT !.stop = TRUE, !.due = q \in D] ELSE job[q][k]
    BY DEF StopJobs
  <2> QED
    BY <2>1, <2>2 DEF Goroutines
<1> QED
  BY <1>1, <1>2

\* A request stops the goroutines of Q and waits for them.
LEMMA RestartBegins ==
    ASSUME SCTypeOK, RestartInv, running, running' = running, ~shutdown, UNCHANGED shutdown,
           NEW Q \in SUBSET CQs, NEW D, StopJobs(Q, D),
           NEW c \in Calls, NEW r, call' = [call EXCEPT ![c] = r],
           \A q \in CQs : ~Restarter(call[c], q) /\ (Restarter(r, q) <=> q \in Q),
           r.waits = Stopped(Q),
           raced \subseteq raced', \A q \in Q : Restarting(q) # {} => q \in raced'
    PROVE  RestartInv'
<1>0. /\ \A q \in CQs : jobs'[q] = IF q \in Q THEN None ELSE jobs[q]
      /\ \A q \in CQs, k \in Slots :
            /\ job'[q][k].at = job[q][k].at
            /\ q \in Q /\ k = jobs[q] => job'[q][k].stop = TRUE
            /\ ~(q \in Q /\ k = jobs[q]) => job'[q][k].stop = job[q][k].stop
  BY StopJobsEffect
<1>1. /\ call'[c] = r
      /\ \A d \in Calls : d # c => call'[d] = call[d]
  BY TypeParts DEF CallType
<1>2. ASSUME NEW q \in CQs, q \notin raced' PROVE Single(q)'
  <2>1. Single(q) /\ jobs[q] \in Slots \union {None}
    BY <1>2, TypeParts DEF RestartInv, JobsType
  <2>2. CASE q \in Q
    <3>1. Restarting(q) = {}
      BY <1>2, <2>2
    <3>2. Restarting(q)' = {c}
      BY <1>1, <2>2, <3>1, RestartingDef
    <3>3. Live(q)' = Live(q) /\ Live(q) \subseteq Slots
      BY <1>0, LiveDef
    <3>4. jobs'[q] = None
      BY <1>0, <2>2
    <3>5. \A k \in Live(q) : k = jobs[q] /\ <<q, k>> \in Stopped(Q)
      <4>1. \A k \in Live(q) : k = jobs[q] /\ k # None
        BY <2>1, <3>1, <3>3, Constants DEF Single
      <4> QED
        BY <2>2, <4>1 DEF Stopped
    <3>6. \A k \in Live(q) : job'[q][k].stop = TRUE
      BY <1>0, <2>2, <3>3, <3>5
    <3>7. \A k \in Live(q) : <<q, k>> \in call'[c].waits
      BY <1>1, <3>5
    <3>8. \A k, l \in Live(q) : k = l
      BY <2>1 DEF Single
    <3> QED
      BY <3>2, <3>3, <3>4, <3>6, <3>7, <3>8 DEF Single
  <2>3. CASE q \notin Q
    <3>1. \A d \in Calls : /\ Restarter(call'[d], q) <=> Restarter(call[d], q)
                           /\ Restarter(call[d], q) => call'[d].waits = call[d].waits
      BY <1>1, <2>3
    <3>2. /\ jobs'[q] = jobs[q]
          /\ \A k \in Slots : job'[q][k].at = job[q][k].at /\ job'[q][k].stop = job[q][k].stop
      BY <1>0, <2>3
    <3> QED
      BY <2>1, <3>1, <3>2, Frame
  <2> QED
    BY <2>2, <2>3
<1> QED
  BY <1>2 DEF RestartInv

\* The request that restarts P has waited and starts what it starts.
LEMMA RestartEnds ==
    ASSUME SCTypeOK, RestartInv, UNCHANGED <<running, shutdown, raced>>,
           NEW c \in Calls, call' = [call EXCEPT ![c] = Idle],
           NEW P \in SUBSET CQs, \A q \in CQs : Restarter(call[c], q) <=> q \in P,
           call[c] # Idle, call[c].waits = {},
           \A q \in CQs :
              \/ jobs'[q] = jobs[q] /\ job'[q] = job[q]
              \/ /\ q \in P /\ jobs'[q] \in Slots \ Live(q)
                 /\ job'[q][jobs'[q]].at # "free" /\ ~job'[q][jobs'[q]].stop
                 /\ \A k \in Slots \ {jobs'[q]} : job'[q][k] = job[q][k]
    PROVE  RestartInv'
<1>1. /\ call'[c] = Idle
      /\ \A d \in Calls : d # c => call'[d] = call[d]
  BY TypeParts DEF CallType
<1>2. ASSUME NEW q \in CQs, q \notin raced PROVE Single(q)'
  <2>1. Single(q) /\ jobs[q] \in Slots \union {None}
    BY <1>2, TypeParts DEF RestartInv, JobsType
  <2>2. CASE q \notin P
    <3>1. \A d \in Calls : /\ Restarter(call'[d], q) <=> Restarter(call[d], q)
                           /\ Restarter(call[d], q) => call'[d].waits = call[d].waits
      BY <1>1, <2>2, NotRestarter
    <3> QED
      BY <2>1, <2>2, <3>1, Frame
  <2>3. CASE q \in P
    <3>1. Restarting(q) = {c}
      BY <2>1, <2>3, RestartingDef DEF Single
    <3>2. running
      BY <3>1 DEF RestartInv
    <3>3. jobs[q] = None /\ Live(q) = {}
      <4>1. jobs[q] = None
        BY <2>1, <3>1 DEF Single
      <4>2. ASSUME NEW k \in Live(q) PROVE FALSE
        <5>1. k # None
          BY LiveDef, Constants
        <5>2. job[q][k].stop
          BY <2>1, <4>1, <5>1 DEF Single
        <5>3. \E d \in Restarting(q) : <<q, k>> \in call[d].waits
          BY <2>1, <3>2, <5>2 DEF Single
        <5> QED
          BY <3>1, <5>3
      <4> QED
        BY <4>1, <4>2
    <3>4. Restarting(q)' = {}
      BY <1>1, <3>1, RestartingDef, NotRestarter
    <3>5. CASE jobs'[q] = jobs[q] /\ job'[q] = job[q]
      <4>1. Live(q)' = {} /\ jobs'[q] = None
        BY <3>3, <3>5, LiveDef
      <4> QED
        BY <3>4, <4>1 DEF Single
    <3>6. CASE /\ jobs'[q] \in Slots \ Live(q)
               /\ job'[q][jobs'[q]].at # "free" /\ ~job'[q][jobs'[q]].stop
               /\ \A k \in Slots \ {jobs'[q]} : job'[q][k] = job[q][k]
      <4>1. Live(q)' = {jobs'[q]}
        BY <3>3, <3>6, LiveDef
      <4> QED
        BY <3>4, <3>6, <4>1 DEF Single
    <3> QED
      BY <3>5, <3>6
  <2> QED
    BY <2>2, <2>3
<1>3. ASSUME ~running' PROVE \A q \in CQs : Restarting(q)' = {}
  <2>1. \A q \in CQs : Restarting(q) = {}
    BY <1>3 DEF RestartInv
  <2> QED
    BY <1>1, <2>1, RestartingDef, NotRestarter
<1>4. shutdown' => \A d \in Calls : call'[d] = Idle
  BY <1>1 DEF RestartInv
<1> QED
  BY <1>2, <1>3, <1>4 DEF RestartInv

\* What StartJobs does to a query.
LEMMA StartJobsEffect ==
    ASSUME SCTypeOK, NEW intervals, DOMAIN intervals \subseteq CQs,
           \A q \in DOMAIN intervals : intervals[q] \in Intervals \union {Bad},
           StartJobs(intervals)
    PROVE  \A q \in CQs :
              \/ jobs'[q] = jobs[q] /\ job'[q] = job[q]
              \/ /\ q \in DOMAIN intervals /\ jobs'[q] \in Slots \ Live(q)
                 /\ job'[q][jobs'[q]].at # "free" /\ ~job'[q][jobs'[q]].stop
                 /\ \A k \in Slots \ {jobs'[q]} : job'[q][k] = job[q][k]
<1> DEFINE Q == {q \in DOMAIN intervals : intervals[q] # Bad}
           slot(q) == Any(Slots \ Live(q))
<1>1. /\ \A q \in Q : Live(q) # Slots
      /\ jobs' = [q \in CQs |-> IF q \in Q THEN slot(q) ELSE jobs[q]]
      /\ job' = [q \in CQs |-> [k \in Slots |->
                    IF q \in Q /\ k = slot(q) THEN Started(intervals[q]) ELSE job[q][k]]]
  BY DEF StartJobs
<1>2. ASSUME NEW q \in CQs, q \in Q
      PROVE  /\ jobs'[q] \in Slots \ Live(q)
             /\ job'[q][jobs'[q]].at # "free" /\ ~job'[q][jobs'[q]].stop
             /\ \A k \in Slots \ {jobs'[q]} : job'[q][k] = job[q][k]
  <2>1. Slots \ Live(q) # {}
    BY <1>1, <1>2 DEF Live
  <2>2. jobs'[q] = slot(q) /\ slot(q) \in Slots \ Live(q)
    BY <1>1, <1>2, <2>1, AnyOf
  <2>3. \A k \in Slots : job'[q][k] = IF k = slot(q) THEN Started(intervals[q]) ELSE job[q][k]
    BY <1>1, <1>2
  <2>4. intervals[q] \in Intervals \union {Bad}
    BY <1>2
  <2> HIDE DEF slot
  <2>5. job'[q][slot(q)] = Started(intervals[q])
    BY <2>2, <2>3
  <2> QED
    BY <2>2, <2>3, <2>4, <2>5, FreeType
<1>3. ASSUME NEW q \in CQs, q \notin Q PROVE jobs'[q] = jobs[q] /\ job'[q] = job[q]
  <2>1. jobs'[q] = jobs[q]
    BY <1>1, <1>3
  <2>2. job'[q] = [k \in Slots |-> job[q][k]]
    BY <1>1, <1>3
  <2>3. job[q] \in [Slots -> Goroutines]
    BY TypeParts DEF JobsType
  <2> QED
    BY <2>1, <2>2, <2>3
<1> QED
  BY <1>2, <1>3

-----------------------------------------------------------------------------
(* Every action keeps RestartInv.                                          *)

LEMMA RestartBegun ==
    ASSUME SCTypeOK, RestartInv, NEW c \in Calls
    PROVE  /\ \A q \in CQs : StartJobDirect(c, q) => RestartInv'
           /\ \A q \in CQs : ReloadCQ(c, q) => RestartInv'
           /\ ReloadAll(c) => RestartInv'
<1>1. ASSUME NEW q \in CQs, StartJobDirect(c, q) PROVE RestartInv'
  <2>1. call[c] \in Restarts /\ call[c].at = "begin" /\ call[c].op = "create" /\ q \in call[c].on
    BY <1>1, RequestShapes, TypeParts DEF StartJobDirect, CallType
  <2>2. ~shutdown
    BY <2>1 DEF RestartInv, Idle
  <2>3. \A p \in CQs : ~Restarter(call[c], p)
    BY <2>1 DEF Restarter
  <2>4. CASE running
    <3> DEFINE r == [call[c] EXCEPT !.at = "waiting", !.waits = Stopped({q})]
    <3>1. /\ r.op = "create" /\ r.at = "waiting" /\ r.on = {q} /\ r.waits = Stopped({q})
      BY <2>1 DEF Restarts
    <3>2. PICK D \in SUBSET {q} : StopJobs({q}, D)
      BY <1>1, <2>4 DEF StartJobDirect
    <3>3. call' = [call EXCEPT ![c] = r] /\ UNCHANGED <<running, shutdown>>
      BY <1>1, <2>4 DEF StartJobDirect, stops
    <3>4. raced \subseteq raced' /\ (Restarting(q) # {} => q \in raced')
      <4>1. c \notin Restarting(q)
        BY <2>3, RestartingDef
      <4> QED
        BY <1>1, <2>4, <4>1 DEF StartJobDirect, Races
    <3> HIDE DEF r
    <3>5. \A p \in CQs : Restarter(r, p) <=> p \in {q}
      BY <3>1 DEF Restarter
    <3>6. {q} \in SUBSET CQs /\ \A p \in {q} : Restarting(p) # {} => p \in raced'
      BY <3>4
    <3> QED
      BY <2>2, <2>3, <2>4, <3>1, <3>2, <3>3, <3>4, <3>5, <3>6, RestartBegins
  <2>5. CASE ~running
    <3>1. call' = [call EXCEPT ![c] = Idle] /\ UNCHANGED <<jobs, job, running, raced, shutdown>>
      BY <1>1, <2>5 DEF StartJobDirect, stops
    <3>2. \A p \in CQs : ~Restarter(call[c], p) /\ ~Restarter(Idle, p)
      BY <2>3, NotRestarter
    <3>3. \A d \in Calls, p \in CQs : /\ Restarter(call'[d], p) <=> Restarter(call[d], p)
                                      /\ Restarter(call[d], p) => call'[d].waits = call[d].waits
      BY <3>1, <3>2, QuietCall
    <3> QED
      BY <2>2, <3>1, <3>3, Quiet
  <2> QED
    BY <2>4, <2>5
<1>2. ASSUME NEW q \in CQs, ReloadCQ(c, q) PROVE RestartInv'
  <2>1. call[c] \in Restarts /\ call[c].at = "begin" /\ call[c].op = "update" /\ q \in call[c].on
    BY <1>2, RequestShapes, TypeParts DEF ReloadCQ, CallType
  <2>2. ~shutdown
    BY <2>1 DEF RestartInv, Idle
  <2>3. \A p \in CQs : ~Restarter(call[c], p)
    BY <2>1 DEF Restarter
  <2>4. UNCHANGED <<running, shutdown>>
    BY <1>2 DEF ReloadCQ, stops
  <2>5. c \notin Restarting(q)
    BY <2>3, RestartingDef
  <2> DEFINE r == [call[c] EXCEPT !.at = "waiting", !.waits = Stopped({q}),
                                  !.is = cq[q].is, !.interval = cq[q].interval]
  <2>6. CASE running /\ call' = [call EXCEPT ![c] = r]
             /\ raced' = IF Races(c, q) THEN raced \union {q} ELSE raced
    <3>1. /\ r.op = "update" /\ r.at = "waiting" /\ r.on = {q} /\ r.waits = Stopped({q})
      BY <2>1 DEF Restarts
    <3>2. PICK D \in SUBSET {q} : StopJobs({q}, D)
      BY <1>2, <2>6 DEF ReloadCQ
    <3>3. raced \subseteq raced' /\ (Restarting(q) # {} => q \in raced')
      BY <2>5, <2>6 DEF Races
    <3> HIDE DEF r
    <3>4. \A p \in CQs : Restarter(r, p) <=> p \in {q}
      BY <3>1 DEF Restarter
    <3>5. {q} \in SUBSET CQs /\ \A p \in {q} : Restarting(p) # {} => p \in raced'
      BY <3>3
    <3> QED
      BY <2>2, <2>3, <2>4, <2>6, <3>1, <3>2, <3>3, <3>4, <3>5, RestartBegins
  <2>7. CASE running /\ call' = [call EXCEPT ![c] = Idle]
             /\ raced' = IF jobs[q] # None \/ Races(c, q) THEN raced \union {q} ELSE raced
    <3>1. PICK D \in SUBSET {q} : StopJobs({q}, D)
      BY <1>2, <2>7 DEF ReloadCQ
    <3>2. {q} \in SUBSET CQs
      OBVIOUS
    <3> HIDE DEF r
    <3>3. /\ \A p \in CQs : jobs'[p] = IF p \in {q} THEN None ELSE jobs[p]
          /\ \A p \in CQs, k \in Slots :
                /\ job'[p][k].at = job[p][k].at
                /\ p \in {q} /\ k = jobs[p] => job'[p][k].stop = TRUE
                /\ ~(p \in {q} /\ k = jobs[p]) => job'[p][k].stop = job[p][k].stop
      BY <3>1, <3>2, StopJobsEffect
    <3>4. \A p \in CQs : ~Restarter(call[c], p) /\ ~Restarter(Idle, p)
      BY <2>3, NotRestarter
    <3>5. \A d \in Calls, p \in CQs : /\ Restarter(call'[d], p) <=> Restarter(call[d], p)
                                      /\ Restarter(call[d], p) => call'[d].waits = call[d].waits
      BY <2>7, <3>4, QuietCall
    <3>6. ASSUME NEW p \in CQs, p \notin raced' PROVE Single(p)'
      <4>1. Single(p)
        BY <2>7, <3>6 DEF RestartInv
      <4>2. p = q => jobs[p] = None
        BY <2>7, <3>6
      <4>3. jobs'[p] = jobs[p]
        BY <3>3, <4>2
      <4>4. \A k \in Slots : job'[p][k].at = job[p][k].at /\ job'[p][k].stop = job[p][k].stop
        BY <3>3, <4>2, Constants
      <4> QED
        BY <2>4, <3>5, <4>1, <4>3, <4>4, Frame
    <3> QED
      BY <2>2, <2>4, <2>7, <3>6 DEF RestartInv
  <2>8. CASE ~running
    <3>1. call' = [call EXCEPT ![c] = Idle] /\ UNCHANGED <<jobs, job, raced>>
      BY <1>2, <2>8 DEF ReloadCQ
    <3>2. \A p \in CQs : ~Restarter(call[c], p) /\ ~Restarter(Idle, p)
      BY <2>3, NotRestarter
    <3>3. \A d \in Calls, p \in CQs : /\ Restarter(call'[d], p) <=> Restarter(call[d], p)
                                      /\ Restarter(call[d], p) => call'[d].waits = call[d].waits
      BY <3>1, <3>2, QuietCall
    <3> QED
      BY <2>2, <2>4, <3>1, <3>3, Quiet
  <2> QED
    BY <1>2, <2>6, <2>7, <2>8 DEF ReloadCQ
<1>3. ASSUME ReloadAll(c) PROVE RestartInv'
  <2> DEFINE r == [op |-> "all", at |-> "waiting", on |-> CQs, waits |-> Stopped(CQs)]
  <2>1. running /\ ~shutdown /\ call[c] = Idle /\ UNCHANGED <<running, shutdown>>
    BY <1>3 DEF ReloadAll, Accepts, stops
  <2>2. PICK D \in SUBSET CQs : StopJobs(CQs, D)
    BY <1>3 DEF ReloadAll
  <2>3. call' = [call EXCEPT ![c] = r] /\ raced' = raced \union {q \in CQs : Restarting(q) # {}}
    BY <1>3 DEF ReloadAll
  <2>4. r.waits = Stopped(CQs) /\ \A q \in CQs : Restarter(r, q) /\ ~Restarter(call[c], q)
    BY <2>1, NotRestarter DEF Restarter
  <2> HIDE DEF r
  <2>5. CQs \in SUBSET CQs /\ raced \subseteq raced' /\ \A q \in CQs : Restarting(q) # {} => q \in raced'
    BY <2>3
  <2> QED
    BY <2>1, <2>2, <2>3, <2>4, <2>5, RestartBegins
<1> QED
  BY <1>1, <1>2, <1>3

LEMMA RestartEnded ==
    ASSUME SCTypeOK, RestartInv, NEW c \in Calls
    PROVE  /\ \A q \in CQs : StartReplacement(c, q) => RestartInv'
           /\ StartAll(c) => RestartInv'
<1>1. ASSUME NEW q \in CQs, StartReplacement(c, q) PROVE RestartInv'
  <2>1. /\ call[c] \in Restarts /\ call[c].at = "waiting" /\ call[c].op \in {"create", "update"}
        /\ q \in call[c].on /\ call[c].waits = {}
    BY <1>1, RequestShapes, TypeParts DEF StartReplacement, CallType
  <2>2. call[c].on = {q} /\ call[c] # Idle /\ call[c].interval \in Intervals \union {Bad}
    BY <2>1 DEF Restarts, Idle
  <2>3. \A p \in CQs : Restarter(call[c], p) <=> p \in {q}
    BY <2>1, <2>2 DEF Restarter
  <2>4. call' = [call EXCEPT ![c] = Idle] /\ UNCHANGED <<running, shutdown, raced>>
    BY <1>1 DEF StartReplacement, stops
  <2> DEFINE started(p) == /\ jobs'[p] \in Slots \ Live(p)
                           /\ job'[p][jobs'[p]].at # "free" /\ ~job'[p][jobs'[p]].stop
                           /\ \A k \in Slots \ {jobs'[p]} : job'[p][k] = job[p][k]
  <2>5. \A p \in CQs : \/ jobs'[p] = jobs[p] /\ job'[p] = job[p]
                       \/ p \in {q} /\ started(p)
    <3>1. CASE StartJobs([p \in {q} |-> call[c].interval])
      <4>1. /\ DOMAIN [p \in {q} |-> call[c].interval] = {q}
            /\ \A p \in {q} : [x \in {q} |-> call[c].interval][p] = call[c].interval
        OBVIOUS
      <4> QED
        BY <2>2, <3>1, <4>1, StartJobsEffect
    <3>2. CASE UNCHANGED <<jobs, job>>
      BY <3>2
    <3> QED
      BY <1>1, <3>1, <3>2 DEF StartReplacement
  <2>6. {q} \in SUBSET CQs
    OBVIOUS
  <2> QED
    BY <2>1, <2>2, <2>3, <2>4, <2>5, <2>6, RestartEnds
<1>2. ASSUME StartAll(c) PROVE RestartInv'
  <2>1. call[c] \in RestartsOfAll /\ call[c].op = "all" /\ call[c].waits = {}
    BY <1>2, RequestShapes, TypeParts DEF StartAll, CallType
  <2>2. \A p \in CQs : Restarter(call[c], p) <=> p \in CQs
    BY <2>1 DEF Restarter, RestartsOfAll
  <2>3. call[c] # Idle
    BY <2>1 DEF Idle
  <2>4. call' = [call EXCEPT ![c] = Idle] /\ UNCHANGED <<running, shutdown, raced>>
    BY <1>2 DEF StartAll, stops
  <2> DEFINE started(p) == /\ jobs'[p] \in Slots \ Live(p)
                           /\ job'[p][jobs'[p]].at # "free" /\ ~job'[p][jobs'[p]].stop
                           /\ \A k \in Slots \ {jobs'[p]} : job'[p][k] = job[p][k]
  <2>5. \A p \in CQs : \/ jobs'[p] = jobs[p] /\ job'[p] = job[p]
                       \/ p \in CQs /\ started(p)
    <3>1. CASE StartJobs([p \in Active |-> cq[p].interval])
      <4>1. /\ DOMAIN [p \in Active |-> cq[p].interval] = Active /\ Active \subseteq CQs
            /\ \A p \in Active : [q \in Active |-> cq[q].interval][p] \in Intervals \union {Bad}
        BY TypeParts DEF TableType, Active
      <4> QED
        BY <3>1, <4>1, StartJobsEffect
    <3>2. CASE UNCHANGED <<jobs, job>>
      BY <3>2
    <3> QED
      BY <1>2, <3>1, <3>2 DEF StartAll
  <2>6. CQs \in SUBSET CQs
    OBVIOUS
  <2> QED
    BY <2>1, <2>2, <2>3, <2>4, <2>5, <2>6, RestartEnds
<1> QED
  BY <1>1, <1>2

LEMMA RestartExits ==
    ASSUME SCTypeOK, RestartInv, NEW q \in CQs, NEW k \in Slots, JobExits(q, k)
    PROVE  RestartInv'
<1>1. /\ job'[q][k] = Free
      /\ \A p \in CQs, l \in Slots : <<p, l>> # <<q, k>> => job'[p][l] = job[p][l]
  BY TypeParts DEF JobExits, JobsType
<1>2. \A c \in Calls :
         call'[c] = IF call[c].op \in {"create", "update", "all"}
                    THEN [call[c] EXCEPT !.waits = @ \ {<<q, k>>}] ELSE call[c]
  BY DEF JobExits
<1>3. ASSUME NEW c \in Calls
      PROVE  /\ \A p \in CQs : Restarter(call'[c], p) <=> Restarter(call[c], p)
             /\ \A p \in CQs, l \in Slots : <<p, l>> # <<q, k>> /\ Restarter(call[c], p)
                   /\ <<p, l>> \in call[c].waits => <<p, l>> \in call'[c].waits
             /\ call[c] = Idle => call'[c] = Idle
  <2>1. CASE call[c].op \in {"create", "update", "all"}
    <3>1. call[c] \in Restarts \union RestartsOfAll
      BY <2>1, RequestShapes, TypeParts DEF CallType
    <3>2. /\ call'[c].op = call[c].op /\ call'[c].at = call[c].at /\ call'[c].on = call[c].on
          /\ call'[c].waits = call[c].waits \ {<<q, k>>}
      BY <1>2, <2>1, <3>1 DEF Restarts, RestartsOfAll
    <3>3. call[c] # Idle
      BY <2>1 DEF Idle
    <3> QED
      BY <3>2, <3>3 DEF Restarter
  <2>2. CASE call[c].op \notin {"create", "update", "all"}
    BY <1>2, <2>2 DEF Restarter
  <2> QED
    BY <2>1, <2>2
<1>4. /\ UNCHANGED <<jobs, running, raced, shutdown>>
      /\ k \in Live(q) /\ job[q][k].stop
  BY LiveDef DEF JobExits, stops
<1>5. \A p \in CQs : Restarting(p)' = Restarting(p)
  BY <1>3, RestartingDef
<1>6. ASSUME NEW p \in CQs, p \notin raced PROVE Single(p)'
  <2>1. Single(p)
    BY <1>6 DEF RestartInv
  <2>2. Live(p)' = IF p = q THEN Live(p) \ {k} ELSE Live(p)
    BY <1>1, <1>4, LiveDef, FreeType
  <2>3. \A l \in Live(p)' : l \in Live(p) /\ job'[p][l] = job[p][l] /\ <<p, l>> # <<q, k>>
    BY <1>1, <2>2, LiveDef
  <2>4. jobs[p] # None => jobs[p] \in Live(p)' /\ job'[p][jobs[p]] = job[p][jobs[p]]
    BY <1>4, <2>1, <2>2, <2>3 DEF Single
  <2>5. ASSUME running', NEW l \in Live(p)', job'[p][l].stop
        PROVE  \E c \in Restarting(p)' : <<p, l>> \in call'[c].waits
    <3>1. PICK c \in Restarting(p) : <<p, l>> \in call[c].waits
      BY <1>4, <2>1, <2>3, <2>5 DEF Single
    <3>2. c \in Calls /\ Restarter(call[c], p) /\ l \in Slots
      BY <2>3, LiveDef, RestartingDef
    <3> QED
      BY <1>3, <1>5, <2>3, <3>1, <3>2
  <2>6. (\A c, d \in Restarting(p)' : c = d) /\ (\A l, m \in Live(p)' : l = m)
    BY <1>5, <2>1, <2>3 DEF Single
  <2>7. \A l \in Live(p)' : ~job'[p][l].stop => l = jobs'[p]
    BY <1>4, <2>1, <2>3 DEF Single
  <2>8. jobs'[p] # None => /\ jobs'[p] \in Live(p)' /\ ~job'[p][jobs'[p]].stop
                           /\ Restarting(p)' = {}
    BY <1>4, <1>5, <2>1, <2>4 DEF Single
  <2> QED
    BY <2>5, <2>6, <2>7, <2>8 DEF Single
<1> QED
  BY <1>3, <1>4, <1>5, <1>6 DEF RestartInv

LEMMA RestartStops ==
    ASSUME SCTypeOK, RestartInv, StopCQ
    PROVE  RestartInv'
<1>1. UNCHANGED <<call, raced, shutdown>> /\ shutdown
  BY DEF StopCQ
<1>2. \A c \in Calls : call[c] = Idle
  BY <1>1 DEF RestartInv
<1>3. \A q \in CQs : Restarting(q) = {} /\ Restarting(q)' = {}
  BY <1>1, <1>2, RestartingDef, NotRestarter
<1>4. CASE running
  <2>1. PICK D \in SUBSET CQs : StopJobs(CQs, D)
    BY <1>4 DEF StopCQ
  <2>2. CQs \in SUBSET CQs
    OBVIOUS
  <2>3. /\ \A q \in CQs : jobs'[q] = IF q \in CQs THEN None ELSE jobs[q]
        /\ \A q \in CQs, k \in Slots :
              /\ job'[q][k].at = job[q][k].at
              /\ q \in CQs /\ k = jobs[q] => job'[q][k].stop = TRUE
              /\ ~(q \in CQs /\ k = jobs[q]) => job'[q][k].stop = job[q][k].stop
    BY <2>1, <2>2, StopJobsEffect
  <2>4. running' = FALSE
    BY <1>4 DEF StopCQ
  <2>5. ASSUME NEW q \in CQs, q \notin raced PROVE Single(q)'
    <3>1. Single(q)
      BY <2>5 DEF RestartInv
    <3>2. Live(q)' = Live(q)
      <4>1. \A k \in Slots : job'[q][k].at = job[q][k].at
        BY <2>3
      <4> QED
        BY <4>1, LiveDef
    <3>3. \A k \in Live(q) : k \in Slots /\ job'[q][k].stop
      BY <2>3, <3>1, LiveDef DEF Single
    <3>4. jobs'[q] = None
      BY <2>3
    <3> QED
      BY <1>3, <2>4, <3>1, <3>2, <3>3, <3>4 DEF Single
  <2> QED
    BY <1>1, <1>2, <1>3, <2>5 DEF RestartInv
<1>5. CASE ~running
  <2>1. UNCHANGED <<jobs, job, running>>
    BY <1>5 DEF StopCQ
  <2> QED
    BY <1>1, <1>2, <2>1, Quiet
<1> QED
  BY <1>4, <1>5

LEMMA RestartBoots ==
    ASSUME SCTypeOK, RestartInv, Restart
    PROVE  RestartInv'
<1>1. PICK ok \in BOOLEAN : BootJobs(ok)
  BY DEF Restart
<1>2. call' = [c \in Calls |-> Idle] /\ shutdown' = FALSE
  BY DEF Restart
<1>3. \A q \in CQs : Restarting(q)' = {}
  BY <1>2, RestartingDef, NotRestarter
<1>4. ASSUME NEW q \in CQs PROVE Single(q)'
  <2>1. Any(Slots) \in Slots /\ None \notin Slots
    BY AnyOf, Constants
  <2>2. cq[q].interval \in Intervals \union {Bad}
    BY TypeParts DEF TableType
  <2>3. jobs'[q] \in {Any(Slots), None}
    BY <1>1 DEF BootJobs
  <2>4. \A k \in Slots : job'[q][k] = IF k = jobs'[q] THEN Started(cq[q].interval) ELSE Free
    BY <1>1 DEF BootJobs
  <2>5. Live(q)' = {k \in Slots : k = jobs'[q]} /\ \A k \in Live(q)' : job'[q][k].stop = FALSE
    BY <2>2, <2>4, FreeType, LiveDef
  <2> QED
    BY <1>3, <2>1, <2>3, <2>5 DEF Single
<1> QED
  BY <1>2, <1>3, <1>4 DEF RestartInv

LEMMA RestartQuietCalls ==
    ASSUME SCTypeOK, RestartInv, NEW c \in Calls
    PROVE  /\ \A q \in CQs : handleCreate(c, q) \/ handleUpdate(c, q) \/ handleDelete(c, q)
                             \/ handleExecute(c, q) \/ CallAggregates(c, q) \/ CallRecords(c, q)
                             => RestartInv'
           /\ TriggerNow(c) \/ TriggerReturns(c) => RestartInv'
<1>1. ASSUME UNCHANGED scheduler, UNCHANGED shutdown, ~shutdown,
             NEW r, call' = [call EXCEPT ![c] = r],
             \A p \in CQs : ~Restarter(call[c], p) /\ ~Restarter(r, p)
      PROVE  RestartInv'
  <2>1. \A d \in Calls, p \in CQs : /\ Restarter(call'[d], p) <=> Restarter(call[d], p)
                                    /\ Restarter(call[d], p) => call'[d].waits = call[d].waits
    BY <1>1, QuietCall
  <2> QED
    BY <1>1, <2>1, Quiet DEF scheduler
<1>2. ASSUME NEW q \in CQs, handleCreate(c, q) PROVE RestartInv'
  <2>0. PICK is \in {"active", "inactive"}, i \in Intervals \union {Bad} :
            call' = [call EXCEPT ![c] = [op |-> "create", at |-> "begin", on |-> {q}, is |-> is,
                                         interval |-> i, waits |-> {}]]
    BY Zenon, <1>2 DEF handleCreate
  <2> DEFINE r == [op |-> "create", at |-> "begin", on |-> {q}, is |-> is, interval |-> i,
                   waits |-> {}]
  <2>1. call' = [call EXCEPT ![c] = r] /\ r.op = "create" /\ r.at = "begin"
    BY <2>0
  <2> HIDE DEF r
  <2>2. \A p \in CQs : ~Restarter(call[c], p) /\ ~Restarter(r, p)
    BY <1>2, <2>1, NotRestarter DEF handleCreate, Accepts, Restarter
  <2> QED
    BY <1>1, <1>2, <2>1, <2>2 DEF handleCreate, Accepts, stops
<1>3. ASSUME NEW q \in CQs, handleUpdate(c, q) PROVE RestartInv'
  <2> DEFINE r == [op |-> "update", at |-> "begin", on |-> {q}, is |-> "inactive",
                   interval |-> Bad, waits |-> {}]
  <2>1. call' = [call EXCEPT ![c] = r] /\ r.op = "update" /\ r.at = "begin"
    BY <1>3 DEF handleUpdate
  <2> HIDE DEF r
  <2>2. \A p \in CQs : ~Restarter(call[c], p) /\ ~Restarter(r, p)
    BY <1>3, <2>1, NotRestarter DEF handleUpdate, Accepts, Restarter
  <2> QED
    BY <1>1, <1>3, <2>1, <2>2 DEF handleUpdate, Accepts, stops
<1>4. ASSUME NEW q \in CQs, handleDelete(c, q) PROVE RestartInv'
  BY <1>4, Quiet DEF handleDelete, Accepts, scheduler, stops
<1>5. ASSUME NEW q \in CQs, handleExecute(c, q) PROVE RestartInv'
  <2>0. PICK w : call' = [call EXCEPT ![c] = [op |-> "execute", at |-> "query", q |-> q, w |-> w]]
    BY Zenon, <1>5 DEF handleExecute
  <2> DEFINE r == [op |-> "execute", at |-> "query", q |-> q, w |-> w]
  <2>1. call' = [call EXCEPT ![c] = r] /\ r.op = "execute"
    BY <2>0
  <2> HIDE DEF r
  <2>2. \A p \in CQs : ~Restarter(call[c], p) /\ ~Restarter(r, p)
    BY <1>5, <2>1, NotRestarter DEF handleExecute, Accepts, Restarter
  <2> QED
    BY <1>1, <1>5, <2>1, <2>2 DEF handleExecute, Accepts, stops
<1>6. ASSUME NEW q \in CQs, CallAggregates(c, q) \/ CallRecords(c, q) PROVE RestartInv'
  <2>1. call[c] \in Executions /\ call[c].op = "execute"
    BY <1>6, RequestShapes, TypeParts DEF CallAggregates, CallRecords, Manual, CallType
  <2>2. ~shutdown
    BY <2>1 DEF RestartInv, Idle
  <2>3. UNCHANGED scheduler /\ UNCHANGED shutdown
    BY <1>6 DEF CallAggregates, CallRecords, executeAggregation, recordExecutionAndUpdateTime,
                scheduler, stops
  <2>4. [call[c] EXCEPT !.at = "record"] \in Executions
    BY <2>1 DEF Executions
  <2>5. PICK r \in Executions \union {Idle} : call' = [call EXCEPT ![c] = r]
    BY <1>6, <2>4 DEF CallAggregates, CallRecords
  <2>6. \A p \in CQs : ~Restarter(call[c], p) /\ ~Restarter(r, p)
    BY <2>1, NotRestarter
  <2> QED
    BY <1>1, <2>2, <2>3, <2>5, <2>6
<1>7. ASSUME TriggerNow(c) PROVE RestartInv'
  <2>1. \A p \in CQs : ~Restarter(call[c], p) /\ ~Restarter([op |-> "trigger"], p)
    BY <1>7, NotRestarter DEF TriggerNow, Accepts
  <2> QED
    BY <1>1, <1>7, <2>1 DEF TriggerNow, Accepts, stops
<1>8. ASSUME TriggerReturns(c) PROVE RestartInv'
  <2>1. ~shutdown
    BY <1>8 DEF TriggerReturns, RestartInv, Idle
  <2>2. \A p \in CQs : ~Restarter(call[c], p) /\ ~Restarter(Idle, p)
    BY <1>8, NotRestarter DEF TriggerReturns, Restarter
  <2> QED
    BY <1>1, <1>8, <2>1, <2>2 DEF TriggerReturns, stops
<1> QED
  BY <1>2, <1>3, <1>4, <1>5, <1>6, <1>7, <1>8

LEMMA RestartQuietJobs ==
    ASSUME SCTypeOK, RestartInv, NEW q \in CQs, NEW k \in Slots,
           Tick(q, k) \/ JobAggregates(q, k) \/ JobRecords(q, k)
    PROVE  RestartInv'
<1>1. job[q][k] \in Goroutines /\ job[q][k].at # "free"
  BY TypeParts DEF Tick, JobAggregates, JobRecords, JobsType
<1>2. UNCHANGED <<jobs, running, raced, call, shutdown>>
  BY DEF Tick, ExecuteCQ, JobAggregates, JobRecords, executeAggregation,
         recordExecutionAndUpdateTime, stops
<1>3. PICK g : job' = [job EXCEPT ![q][k] = g] /\ g.at # "free" /\ g.stop = job[q][k].stop
  <2>1. \A at \in {"select", "query", "record"} :
           /\ [job[q][k] EXCEPT !.at = at].at = at
           /\ [job[q][k] EXCEPT !.at = at].stop = job[q][k].stop
    BY <1>1 DEF Goroutines
  <2>2. CASE Tick(q, k)
    <3>1. /\ [job[q][k] EXCEPT !.at = "query", !.due = FALSE, !.from = From(q), !.to = now].at = "query"
          /\ [job[q][k] EXCEPT !.at = "query", !.due = FALSE, !.from = From(q), !.to = now].stop
               = job[q][k].stop
      BY <1>1 DEF Goroutines
    <3>2. /\ [job[q][k] EXCEPT !.due = FALSE].at = job[q][k].at
          /\ [job[q][k] EXCEPT !.due = FALSE].stop = job[q][k].stop
      BY <1>1 DEF Goroutines
    <3> QED
      BY <1>1, <2>2, <3>1, <3>2 DEF Tick, ExecuteCQ
  <2>3. CASE JobAggregates(q, k)
    BY <2>1, <2>3 DEF JobAggregates
  <2>4. CASE JobRecords(q, k)
    <3>1. /\ [job[q][k] EXCEPT !.at = "select", !.from = 0, !.to = 0].at = "select"
          /\ [job[q][k] EXCEPT !.at = "select", !.from = 0, !.to = 0].stop = job[q][k].stop
      BY <1>1 DEF Goroutines
    <3> QED
      BY <2>4, <3>1 DEF JobRecords
  <2> QED
    BY <2>2, <2>3, <2>4
<1>4. \A p \in CQs, l \in Slots : /\ (job'[p][l].at = "free") <=> (job[p][l].at = "free")
                                  /\ job'[p][l].stop = job[p][l].stop
  BY <1>1, <1>3, QuietJob
<1> QED
  BY <1>2, <1>4, Quiet DEF RestartInv

LEMMA RestartNext == SCTypeOK /\ RestartInv /\ [Next]_vars => RestartInv'
<1> SUFFICES ASSUME SCTypeOK, RestartInv, [Next]_vars PROVE RestartInv'
  OBVIOUS
<1>1. ASSUME UNCHANGED <<scheduler, call>>, UNCHANGED shutdown PROVE RestartInv'
  BY <1>1, Quiet DEF scheduler, RestartInv
<1>2. ASSUME NEW c \in Calls, ReloadAll(c) \/ TriggerNow(c) \/ Handler(c) PROVE RestartInv'
  BY <1>2, RestartBegun, RestartEnded, RestartQuietCalls DEF Handler
<1>3. ASSUME NEW c \in Calls, NEW q \in CQs,
             handleCreate(c, q) \/ handleUpdate(c, q) \/ handleDelete(c, q) \/ handleExecute(c, q)
      PROVE  RestartInv'
  BY <1>3, RestartQuietCalls
<1>4. ASSUME NEW q \in CQs, NEW k \in Slots, Tick(q, k) \/ Goroutine(q, k) PROVE RestartInv'
  BY <1>4, RestartQuietJobs, RestartExits DEF Goroutine
<1>5. ASSUME NEW x \in Crons, CronFires(x) \/ runRetention(x) PROVE RestartInv'
  BY <1>1, <1>5 DEF CronFires, runRetention, stops
<1>6. ASSUME BeginShutdown PROVE RestartInv'
  BY <1>6, Quiet DEF BeginShutdown, scheduler
<1>7. ASSUME CQStopped \/ StopRetention \/ RetentionStopped PROVE RestartInv'
  BY <1>1, <1>7 DEF CQStopped, StopRetention, RetentionStopped
<1>8. ASSUME LicenseChanges \/ RoleChanges \/ TimePasses PROVE RestartInv'
  BY <1>1, <1>8 DEF LicenseChanges, RoleChanges, TimePasses, stops
<1>9. CASE UNCHANGED vars
  BY <1>1, <1>9 DEF vars, stops
<1> QED
  BY <1>2, <1>3, <1>4, <1>5, <1>6, <1>7, <1>8, <1>9, RestartStops, RestartBoots DEF Next, Stops

-----------------------------------------------------------------------------
(* Retention cycles: the one that runs has runningJob.                      *)

Executes(x) == cycle[x] \in {"policies", "deferred"}

CycleInv ==
    /\ \A x \in Crons : Executes(x) => /\ runningJob
                                       /\ \A y \in Crons : Executes(y) => x = y
                                       /\ \A c \in Calls : call[c].op # "trigger"
    /\ \A c \in Calls : call[c].op = "trigger" => /\ runningJob
                                                  /\ \A d \in Calls : call[d].op = "trigger" => c = d

LEMMA CycleInit == Init => CycleInv
BY DEF Init, CycleInv, Executes, Idle

LEMMA CycleFrame ==
    ASSUME CycleInv, UNCHANGED <<cycle, runningJob>>,
           \A c \in Calls : call'[c].op = "trigger" => call[c].op = "trigger"
    PROVE  CycleInv'
BY DEF CycleInv, Executes

\* A step of one request that does not make it a trigger, and leaves retention alone.
LEMMA CycleCall ==
    ASSUME SCTypeOK, CycleInv, UNCHANGED <<cycle, runningJob>>,
           NEW c \in Calls, NEW r, call' = [call EXCEPT ![c] = r], r.op # "trigger"
    PROVE  CycleInv'
<1>1. call'[c] = r /\ \A d \in Calls : d # c => call'[d] = call[d]
  BY TypeParts DEF CallType
<1> QED
  BY <1>1, CycleFrame

LEMMA CycleRestarts ==
    ASSUME SCTypeOK, CycleInv, NEW c \in Calls, NEW q \in CQs,
           \/ handleCreate(c, q) \/ handleUpdate(c, q) \/ StartJobDirect(c, q) \/ ReloadCQ(c, q)
           \/ StartReplacement(c, q)
    PROVE  CycleInv'
<1>1. UNCHANGED <<cycle, runningJob>>
  BY DEF handleCreate, handleUpdate, StartJobDirect, ReloadCQ, StartReplacement, retention
<1>2. Idle.op # "trigger"
  BY DEF Idle
<1>3. CASE handleCreate(c, q)
  <2>1. PICK is \in {"active", "inactive"}, i \in Intervals \union {Bad} :
            call' = [call EXCEPT ![c] = [op |-> "create", at |-> "begin", on |-> {q}, is |-> is,
                                         interval |-> i, waits |-> {}]]
    BY Zenon, <1>3 DEF handleCreate
  <2> DEFINE r == [op |-> "create", at |-> "begin", on |-> {q}, is |-> is, interval |-> i,
                   waits |-> {}]
  <2>2. call' = [call EXCEPT ![c] = r] /\ r.op # "trigger"
    BY <2>1
  <2> HIDE DEF r
  <2> QED
    BY <1>1, <2>2, CycleCall
<1>4. CASE handleUpdate(c, q)
  <2> DEFINE r == [op |-> "update", at |-> "begin", on |-> {q}, is |-> "inactive",
                   interval |-> Bad, waits |-> {}]
  <2>1. call' = [call EXCEPT ![c] = r] /\ r.op # "trigger"
    BY <1>4 DEF handleUpdate
  <2> HIDE DEF r
  <2> QED
    BY <1>1, <2>1, CycleCall
<1>5. CASE StartJobDirect(c, q) \/ ReloadCQ(c, q)
  <2>1. call[c] \in Restarts
    BY <1>5, RequestShapes, TypeParts DEF StartJobDirect, ReloadCQ, CallType
  <2>2. [call[c] EXCEPT !.at = "waiting", !.waits = Stopped({q})].op # "trigger"
    BY <2>1 DEF Restarts
  <2>3. [call[c] EXCEPT !.at = "waiting", !.waits = Stopped({q}), !.is = cq[q].is,
                        !.interval = cq[q].interval].op # "trigger"
    BY <2>1 DEF Restarts
  <2>4. \/ call' = [call EXCEPT ![c] = Idle]
        \/ call' = [call EXCEPT ![c] = [@ EXCEPT !.at = "waiting", !.waits = Stopped({q})]]
        \/ call' = [call EXCEPT ![c] = [@ EXCEPT !.at = "waiting", !.waits = Stopped({q}),
                                                 !.is = cq[q].is, !.interval = cq[q].interval]]
    BY Zenon, <1>5 DEF StartJobDirect, ReloadCQ
  <2> QED
    BY <1>1, <1>2, <2>2, <2>3, <2>4, CycleCall
<1>6. CASE StartReplacement(c, q)
  BY <1>1, <1>2, <1>6, CycleCall DEF StartReplacement
<1> QED
  BY <1>3, <1>4, <1>5, <1>6

LEMMA CycleExecutions ==
    ASSUME SCTypeOK, CycleInv, NEW c \in Calls, NEW q \in CQs,
           handleExecute(c, q) \/ CallAggregates(c, q) \/ CallRecords(c, q)
    PROVE  CycleInv'
<1>1. UNCHANGED <<cycle, runningJob>>
  BY DEF handleExecute, CallAggregates, CallRecords, executeAggregation,
         recordExecutionAndUpdateTime, retention
<1>2. Idle.op # "trigger"
  BY DEF Idle
<1>3. CASE handleExecute(c, q)
  <2>1. PICK w : call' = [call EXCEPT ![c] = [op |-> "execute", at |-> "query", q |-> q, w |-> w]]
    BY Zenon, <1>3 DEF handleExecute
  <2> DEFINE r == [op |-> "execute", at |-> "query", q |-> q, w |-> w]
  <2>2. call' = [call EXCEPT ![c] = r] /\ r.op # "trigger"
    BY <2>1
  <2> HIDE DEF r
  <2> QED
    BY <1>1, <2>2, CycleCall
<1>4. CASE CallAggregates(c, q)
  <2>1. call[c] \in Executions
    BY <1>4, RequestShapes, TypeParts DEF CallAggregates, Manual, CallType
  <2>2. [call[c] EXCEPT !.at = "record"].op # "trigger"
    BY <2>1 DEF Executions
  <2>3. \/ call' = [call EXCEPT ![c] = Idle]
        \/ call' = [call EXCEPT ![c] = [@ EXCEPT !.at = "record"]]
    BY <1>4 DEF CallAggregates
  <2> QED
    BY <1>1, <1>2, <2>2, <2>3, CycleCall
<1>5. CASE CallRecords(c, q)
  BY <1>1, <1>2, <1>5, CycleCall DEF CallRecords
<1> QED
  BY <1>3, <1>4, <1>5

LEMMA CycleExits ==
    ASSUME SCTypeOK, CycleInv, NEW q \in CQs, NEW k \in Slots, JobExits(q, k)
    PROVE  CycleInv'
<1>1. UNCHANGED <<cycle, runningJob>>
  BY DEF JobExits, retention
<1>2. ASSUME NEW c \in Calls, call'[c].op = "trigger" PROVE call[c].op = "trigger"
  <2>1. CASE call[c].op \in {"create", "update", "all"}
    <3>1. call[c] \in Restarts \union RestartsOfAll
      BY <2>1, RequestShapes, TypeParts DEF CallType
    <3>2. call'[c] = [call[c] EXCEPT !.waits = @ \ {<<q, k>>}]
      BY <2>1 DEF JobExits
    <3>3. call'[c].op = call[c].op
      BY <3>1, <3>2 DEF Restarts, RestartsOfAll
    <3> QED
      BY <1>2, <3>3
  <2>2. CASE call[c].op \notin {"create", "update", "all"}
    BY <1>2, <2>2 DEF JobExits
  <2> QED
    BY <2>1, <2>2
<1> QED
  BY <1>1, <1>2, CycleFrame

LEMMA CycleRetention ==
    ASSUME SCTypeOK, CycleInv
    PROVE  /\ \A x \in Crons : CronFires(x) \/ runRetention(x) => CycleInv'
           /\ \A c \in Calls : TriggerNow(c) \/ TriggerReturns(c) => CycleInv'
<1> USE TypeParts DEF CycleInv, Executes
<1>1. ASSUME NEW x \in Crons, CronFires(x) PROVE CycleInv'
  <2>1. /\ \A y \in Crons : cycle'[y] = IF y = x THEN "check" ELSE cycle[y]
        /\ UNCHANGED <<call, runningJob>>
    BY <1>1 DEF CronFires, SwitchType
  <2> QED
    BY <2>1
<1>2. ASSUME NEW x \in Crons, runRetention(x) PROVE CycleInv'
  <2>1. UNCHANGED call
    BY <1>2 DEF runRetention
  <2>2. CASE cycle[x] = "check" /\ ClaimsCycle /\ cycle' = [cycle EXCEPT ![x] = "policies"]
    BY <2>1, <2>2 DEF ClaimsCycle, SwitchType
  <2>3. CASE cycle' = [cycle EXCEPT ![x] = "idle"] /\ UNCHANGED runningJob
    BY <2>1, <2>3 DEF SwitchType
  <2>4. CASE cycle[x] = "policies" /\ cycle' = [cycle EXCEPT ![x] = "deferred"]
             /\ UNCHANGED runningJob
    BY <2>1, <2>4 DEF SwitchType
  <2>5. CASE cycle[x] = "deferred" /\ ReleasesCycle /\ cycle' = [cycle EXCEPT ![x] = "idle"]
    BY <2>1, <2>5 DEF ReleasesCycle, SwitchType
  <2> QED
    BY <1>2, <2>2, <2>3, <2>4, <2>5 DEF runRetention
<1>3. ASSUME NEW c \in Calls, TriggerNow(c) PROVE CycleInv'
  <2>1. /\ ~runningJob /\ runningJob' /\ UNCHANGED cycle
        /\ call'[c].op = "trigger" /\ \A d \in Calls : d # c => call'[d] = call[d]
    BY <1>3 DEF TriggerNow, ClaimsCycle, CallType
  <2> QED
    BY <2>1
<1>4. ASSUME NEW c \in Calls, TriggerReturns(c) PROVE CycleInv'
  <2>1. /\ call[c].op = "trigger" /\ UNCHANGED cycle
        /\ call'[c].op # "trigger" /\ \A d \in Calls : d # c => call'[d] = call[d]
    BY <1>4 DEF TriggerReturns, CallType, Idle
  <2> QED
    BY <2>1
<1> QED
  BY <1>1, <1>2, <1>3, <1>4

LEMMA CycleNext == SCTypeOK /\ CycleInv /\ [Next]_vars => CycleInv'
<1> SUFFICES ASSUME SCTypeOK, CycleInv, [Next]_vars PROVE CycleInv'
  OBVIOUS
<1>1. ASSUME UNCHANGED <<call, cycle, runningJob>> PROVE CycleInv'
  BY <1>1, CycleFrame
<1>2. ASSUME NEW c \in Calls, NEW q \in CQs, handleDelete(c, q) PROVE CycleInv'
  BY <1>1, <1>2 DEF handleDelete, retention
<1>3. ASSUME NEW q \in CQs, NEW k \in Slots,
             Tick(q, k) \/ JobAggregates(q, k) \/ JobRecords(q, k)
      PROVE  CycleInv'
  BY <1>1, <1>3 DEF Tick, ExecuteCQ, JobAggregates, JobRecords, executeAggregation,
                    recordExecutionAndUpdateTime, retention
<1>4. ASSUME BeginShutdown \/ Stops PROVE CycleInv'
  BY <1>1, <1>4 DEF BeginShutdown, Stops, StopCQ, CQStopped, StopRetention, RetentionStopped, retention
<1>5. ASSUME Restart PROVE CycleInv'
  BY <1>5 DEF Restart, CycleInv, Executes, Idle
<1>6. ASSUME LicenseChanges \/ RoleChanges \/ TimePasses PROVE CycleInv'
  BY <1>1, <1>6 DEF LicenseChanges, RoleChanges, TimePasses, retention
<1>7. CASE UNCHANGED vars
  BY <1>1, <1>7 DEF vars, retention
<1>8. ASSUME NEW c \in Calls, ReloadAll(c) \/ StartAll(c) PROVE CycleInv'
  <2>1. UNCHANGED <<cycle, runningJob>> /\ Idle.op # "trigger"
    BY <1>8 DEF ReloadAll, StartAll, retention, Idle
  <2> QED
    BY <1>8, <2>1, CycleCall DEF ReloadAll, StartAll
<1>9. ASSUME NEW c \in Calls, TriggerNow(c) \/ Handler(c) PROVE CycleInv'
  BY <1>8, <1>9, CycleRetention, CycleRestarts, CycleExecutions DEF Handler
<1>10. ASSUME NEW c \in Calls, NEW q \in CQs,
              handleCreate(c, q) \/ handleUpdate(c, q) \/ handleExecute(c, q)
       PROVE  CycleInv'
  BY <1>10, CycleRestarts, CycleExecutions
<1>11. ASSUME NEW q \in CQs, NEW k \in Slots, Goroutine(q, k) PROVE CycleInv'
  BY <1>3, <1>11, CycleExits DEF Goroutine
<1> QED
  BY <1>2, <1>3, <1>4, <1>5, <1>6, <1>7, <1>8, <1>9, <1>10, <1>11, CycleRetention DEF Next

-----------------------------------------------------------------------------
LEMMA OneAtATimeFollows == SCTypeOK /\ RestartInv /\ CycleInv => OneAtATime
<1> SUFFICES ASSUME SCTypeOK, RestartInv, CycleInv PROVE OneAtATime
  OBVIOUS
<1>1. ASSUME NEW q \in CQs \ raced
      PROVE  /\ {k \in Live(q) : ~job[q][k].stop} \subseteq {jobs[q]}
             /\ \A k, l \in Executing(q) : k = l
  <2>1. Single(q)
    BY DEF RestartInv
  <2>2. Executing(q) \subseteq Live(q)
    BY DEF Executing, Live
  <2> QED
    BY <2>1, <2>2 DEF Single
<1>2. \A x, y \in Cycles : x = y
  BY DEF CycleInv, Executes, Cycles
<1> QED
  BY <1>1, <1>2 DEF OneAtATime

(* One goroutine of a query executes at a time and nobody loses sight of    *)
(* one, unless restarts of the query overlapped, and one retention cycle    *)
(* runs at a time: OneAtATime of cq_scheduler.go and                        *)
(* retention_scheduler.go, for every number of queries, handlers, cron      *)
(* goroutines, requests, crashes and ticks.                                 *)
THEOREM OneAtATimeCorrect == Spec => []OneAtATime
<1>1. Init => SCTypeOK /\ RestartInv /\ CycleInv
  BY TypeInit, RestartInit, CycleInit
<1>2. SCTypeOK /\ RestartInv /\ CycleInv /\ [Next]_vars => (SCTypeOK /\ RestartInv /\ CycleInv)'
  BY TypeNext, RestartNext, CycleNext
<1> QED
  BY <1>1, <1>2, OneAtATimeFollows, PTL DEF Spec

-----------------------------------------------------------------------------
(* Windows.  W: the windows of a query in the destination, l: its          *)
(* last_processed_time, n: the clock.                                      *)

\* The windows follow each other from a first one, reach l, and are there for every tick before it.
Book(W, l, n) ==
    /\ \A v \in W : v[1] < v[2] /\ v[2] <= n
    /\ \A v, w \in W : v[1] < w[1] => v[2] <= w[1]
    /\ W # {} => \E v \in W : \A w \in W : v[1] <= w[1]
    /\ l # None =>
          /\ \E w \in W : w[2] = l
          /\ \A v \in W : v[2] <= l \/ v[1] = l
          /\ \A v \in W, t \in Int : v[1] <= t /\ t < l => \E w \in W : w[1] <= t /\ t < w[2]

\* What is true of a window that is being computed (query) or recorded.
Doing(W, l, gone, n, at, w) ==
    /\ w[1] < w[2] /\ w[2] <= n
    /\ \A v \in W : (v[2] <= w[1] \/ v[1] = w[1]) /\ v[2] <= w[2]
    /\ at = "record" => w \in W
    /\ ~gone => \/ l # None /\ l = w[1]
                \/ l = None /\ W \subseteq {w} /\ (at = "query" => W = {})

\* A window that a regular execution computes follows what is recorded.
LEMMA WindowBegins ==
    ASSUME NEW W \in SUBSET (Int \X Int), NEW l \in Int, NEW n \in Int, NEW f \in Int,
           Book(W, l, n), f < n, l # None => f = l, l = None => W = {}
    PROVE  Doing(W, l, FALSE, n, "query", <<f, n>>)
BY Constants DEF Book, Doing

\* Its result is one window more.
LEMMA WindowWritten ==
    ASSUME NEW W \in SUBSET (Int \X Int), NEW l \in Int, NEW n \in Int, NEW w \in Int \X Int,
           NEW gone, gone => l = None, Book(W, l, n), Doing(W, l, gone, n, "query", w)
    PROVE  /\ Book(W \union {w}, l, n)
           /\ Doing(W \union {w}, l, gone, n, "record", w)
<1> DEFINE V == W \union {w}
<1>1. V \subseteq Int \X Int /\ w \in V /\ \A v \in V : v \in W \/ v = w
  OBVIOUS
<1>2. /\ \A v \in W : v[1] < v[2] /\ v[2] <= n /\ (v[2] <= w[1] \/ v[1] = w[1]) /\ v[2] <= w[2]
      /\ \A u, v \in W : u[1] < v[1] => u[2] <= v[1]
      /\ w[1] < w[2] /\ w[2] <= n
  BY DEF Book, Doing
<1>3. \A v \in W : v[1] \in Int /\ v[2] \in Int /\ v[1] <= w[1]
  BY <1>2
<1> HIDE DEF V
<1>4. /\ \A v \in V : v[1] < v[2] /\ v[2] <= n
      /\ \A u, v \in V : u[1] < v[1] => u[2] <= v[1]
  BY <1>1, <1>2, <1>3
<1>5. \E v \in V : \A u \in V : v[1] <= u[1]
  <2>1. CASE W = {}
    BY <1>1, <2>1
  <2>2. CASE W # {}
    <3>1. PICK v \in W : \A u \in W : v[1] <= u[1]
      BY <2>2 DEF Book
    <3>2. v \in V /\ v[1] <= w[1]
      BY <1>3 DEF V
    <3> QED
      BY <1>1, <3>1, <3>2
  <2> QED
    BY <2>1, <2>2
<1>6. ASSUME l # None
      PROVE  /\ \E v \in V : v[2] = l
             /\ \A v \in V : v[2] <= l \/ v[1] = l
             /\ \A v \in V, t \in Int : v[1] <= t /\ t < l => \E u \in V : u[1] <= t /\ t < u[2]
  <2>1. l = w[1]
    BY <1>6 DEF Doing
  <2>2. /\ \E v \in W : v[2] = l
        /\ \A v \in W : v[2] <= l \/ v[1] = l
        /\ \A v \in W, t \in Int : v[1] <= t /\ t < l => \E u \in W : u[1] <= t /\ t < u[2]
    BY <1>6 DEF Book
  <2>3. W \subseteq V /\ l \in Int
    BY DEF V
  <2>4. \E v \in V : v[2] = l
    BY <2>2, <2>3
  <2>5. \A v \in V : v[2] <= l \/ v[1] = l
    BY <1>1, <2>1, <2>2
  <2>6. \A v \in V, t \in Int : v[1] <= t /\ t < l => \E u \in V : u[1] <= t /\ t < u[2]
    <3>1. \A v \in V, t \in Int : v[1] <= t /\ t < l => v \in W
      BY <1>1, <2>1
    <3> QED
      BY <2>2, <2>3, <3>1
  <2> QED
    BY <2>4, <2>5, <2>6
<1>7. Book(V, l, n)
  BY <1>4, <1>5, <1>6 DEF Book
<1>8. Doing(V, l, gone, n, "record", w)
  <2>1. \A v \in V : (v[2] <= w[1] \/ v[1] = w[1]) /\ v[2] <= w[2]
    BY <1>1, <1>2
  <2>2. ~gone => (l # None /\ l = w[1]) \/ (l = None /\ V \subseteq {w})
    BY <1>1 DEF Doing
  <2> QED
    BY <1>1, <1>2, <2>1, <2>2 DEF Doing
<1> QED
  BY <1>7, <1>8 DEF V

\* And its end becomes the time up to which all is computed.
LEMMA WindowRecorded ==
    ASSUME NEW W \in SUBSET (Int \X Int), NEW l \in Int, NEW n \in Int, NEW w \in Int \X Int,
           Book(W, l, n), Doing(W, l, FALSE, n, "record", w)
    PROVE  Book(W, w[2], n)
<1>1. /\ w \in W /\ w[1] < w[2] /\ w[1] \in Int /\ w[2] \in Int
      /\ \A v \in W : v[2] <= w[2] /\ v[2] \in Int /\ v[1] \in Int
      /\ (l # None /\ l = w[1]) \/ W \subseteq {w}
  BY DEF Doing
<1>2. ASSUME NEW v \in W, NEW t \in Int, v[1] <= t, t < w[2]
      PROVE  \E u \in W : u[1] <= t /\ t < u[2]
  <2>1. CASE t >= w[1]
    BY <1>1, <1>2, <2>1
  <2>2. CASE t < w[1]
    <3>1. l # None /\ l = w[1]
      BY <1>1, <1>2, <2>2
    <3> QED
      BY <1>2, <2>2, <3>1 DEF Book
  <2> QED
    BY <1>1, <2>1, <2>2
<1> QED
  BY <1>1, <1>2 DEF Book

-----------------------------------------------------------------------------
(* A regular query has one execution at most, and its windows are in order. *)

Runs(g) == g.at \in {"query", "record"}
ByHand(r, q) == r.op = "execute" /\ r.q = q
Gone(d) == d.is = "deleted"
Window(g) == <<g.from, g.to>>

InOrder(q) ==
    /\ Book(written[q], cq[q].last, now)
    /\ \A k \in Slots : Runs(job[q][k]) =>
          Doing(written[q], cq[q].last, Gone(cq[q]), now, job[q][k].at, Window(job[q][k]))
    /\ \A c \in Calls : ByHand(call[c], q) =>
          Doing(written[q], cq[q].last, Gone(cq[q]), now, call[c].at, call[c].w)
    /\ \A k, l \in Slots : Runs(job[q][k]) /\ Runs(job[q][l]) => k = l
    /\ \A c, d \in Calls : ByHand(call[c], q) /\ ByHand(call[d], q) => c = d
    /\ \A k \in Slots, c \in Calls : ~(Runs(job[q][k]) /\ ByHand(call[c], q))

\* A row that is not there has no last_processed_time, and before it is created nobody executes it.
Unborn(q) ==
    /\ cq[q].is \in {"absent", "deleted"} => cq[q].last = None
    /\ cq[q].is = "absent" => /\ \A k \in Slots : ~Runs(job[q][k])
                              /\ \A c \in Calls : ~ByHand(call[c], q)

WindowsInv ==
    /\ \A q \in CQs : Unborn(q)
    /\ \A q \in CQs \ irregular : InOrder(q)

LEMMA ExecutionSets ==
    \A q \in CQs : /\ Executing(q) = {k \in Slots : Runs(job[q][k])}
                   /\ Manual(q) = {c \in Calls : ByHand(call[c], q)}
BY DEF Executing, Manual, Runs, ByHand

\* What a step must leave alone to keep the windows of q in order.
LEMMA SameWindows ==
    ASSUME SCTypeOK, SCTypeOK', NEW q \in CQs, InOrder(q), now <= now',
           cq'[q].last = cq[q].last, Gone(cq[q])' = Gone(cq[q]), written'[q] = written[q],
           \A k \in Slots : Runs(job'[q][k]) =>
              /\ Runs(job[q][k]) /\ job'[q][k].at = job[q][k].at
              /\ job'[q][k].from = job[q][k].from /\ job'[q][k].to = job[q][k].to,
           \A c \in Calls : ByHand(call'[c], q) => call'[c] = call[c]
    PROVE  InOrder(q)'
<1>1. now \in Nat /\ now' \in Nat /\ written[q] \in SUBSET (Int \X Int)
  BY TypeParts DEF TableType
<1>2. Book(written[q], cq[q].last, now')
  BY <1>1 DEF InOrder, Book
<1>3. ASSUME NEW w \in Int \X Int, NEW at, Doing(written[q], cq[q].last, Gone(cq[q]), now, at, w)
      PROVE  Doing(written[q], cq[q].last, Gone(cq[q]), now', at, w)
  BY <1>1, <1>3 DEF Doing
<1>4. ASSUME NEW k \in Slots, Runs(job'[q][k])
      PROVE  Doing(written[q], cq[q].last, Gone(cq[q]), now', job'[q][k].at, Window(job'[q][k]))
  <2>1. job[q][k] \in Goroutines
    BY TypeParts DEF JobsType
  <2>2. Window(job[q][k]) \in Int \X Int /\ Window(job'[q][k]) = Window(job[q][k])
    BY <1>4, <2>1 DEF Window, Goroutines
  <2> QED
    BY <1>3, <1>4, <2>2 DEF InOrder
<1>5. ASSUME NEW c \in Calls, ByHand(call'[c], q)
      PROVE  Doing(written[q], cq[q].last, Gone(cq[q]), now', call'[c].at, call'[c].w)
  <2>1. call'[c] = call[c] /\ call[c] \in Requests
    BY <1>5, TypeParts DEF CallType
  <2>2. call[c].w \in Int \X Int
    BY <1>5, <2>1, RequestShapes DEF ByHand, Executions
  <2> QED
    BY <1>3, <1>5, <2>1, <2>2 DEF InOrder
<1>6. /\ \A k, l \in Slots : Runs(job'[q][k]) /\ Runs(job'[q][l]) => k = l
      /\ \A c, d \in Calls : ByHand(call'[c], q) /\ ByHand(call'[d], q) => c = d
      /\ \A k \in Slots, c \in Calls : ~(Runs(job'[q][k]) /\ ByHand(call'[c], q))
  BY DEF InOrder
<1> QED
  BY <1>2, <1>4, <1>5, <1>6 DEF InOrder

\* A step that leaves table, windows and executions alone.
LEMMA SameExecutions ==
    ASSUME SCTypeOK, SCTypeOK', WindowsInv, UNCHANGED table, now <= now',
           \A q \in CQs, k \in Slots : Runs(job'[q][k]) =>
              /\ Runs(job[q][k]) /\ job'[q][k].at = job[q][k].at
              /\ job'[q][k].from = job[q][k].from /\ job'[q][k].to = job[q][k].to,
           \A q \in CQs, c \in Calls : ByHand(call'[c], q) => call'[c] = call[c]
    PROVE  WindowsInv'
<1>1. UNCHANGED <<cq, written, irregular>>
  BY DEF table
<1>2. \A q \in CQs \ irregular : InOrder(q)'
  <2> SUFFICES ASSUME NEW q \in CQs \ irregular PROVE InOrder(q)'
    OBVIOUS
  <2>1. InOrder(q)
    BY DEF WindowsInv
  <2>2. cq'[q].last = cq[q].last /\ Gone(cq[q])' = Gone(cq[q]) /\ written'[q] = written[q]
    BY <1>1
  <2> QED
    BY <2>1, <2>2, SameWindows
<1>3. \A q \in CQs : Unborn(q)'
  BY <1>1 DEF WindowsInv, Unborn
<1> QED
  BY <1>1, <1>2, <1>3 DEF WindowsInv

\* A step that concerns one query only.
LEMMA OneQuery ==
    ASSUME SCTypeOK, SCTypeOK', WindowsInv, NEW q \in CQs, now <= now', irregular \subseteq irregular',
           \A p \in CQs : p # q =>
              /\ cq'[p] = cq[p] /\ written'[p] = written[p] /\ job'[p] = job[p]
              /\ \A c \in Calls : ByHand(call'[c], p) => call'[c] = call[c],
           Unborn(q)', q \notin irregular' => InOrder(q)'
    PROVE  WindowsInv'
<1>1. ASSUME NEW p \in CQs, p # q PROVE Unborn(p)' /\ (p \notin irregular' => InOrder(p)')
  <2>1. Unborn(p) /\ (p \notin irregular => InOrder(p))
    BY DEF WindowsInv
  <2>2. cq'[p].last = cq[p].last /\ Gone(cq[p])' = Gone(cq[p]) /\ written'[p] = written[p]
    BY <1>1
  <2>3. \A k \in Slots : job'[p][k] = job[p][k]
    BY <1>1
  <2>4. Unborn(p)'
    BY <1>1, <2>1 DEF Unborn
  <2>5. ASSUME p \notin irregular' PROVE InOrder(p)'
    <3>1. InOrder(p)
      BY <2>1, <2>5
    <3>2. \A c \in Calls : ByHand(call'[c], p) => call'[c] = call[c]
      BY <1>1
    <3> QED
      BY <2>2, <2>3, <3>1, <3>2, SameWindows
  <2> QED
    BY <2>4, <2>5
<1> QED
  BY <1>1 DEF WindowsInv

\* Afterwards nobody but goroutine k executes q.
LEMMA JobAlone ==
    ASSUME NEW q \in CQs, NEW k \in Slots, Book(written'[q], cq'[q].last, now'),
           Runs(job'[q][k]) => Doing(written'[q], cq'[q].last, Gone(cq'[q]), now', job'[q][k].at,
                                     Window(job'[q][k])),
           \A l \in Slots : l # k => ~Runs(job'[q][l]),
           \A c \in Calls : ~ByHand(call'[c], q)
    PROVE  InOrder(q)'
BY DEF InOrder

\* Afterwards nobody but request c executes q.
LEMMA CallAlone ==
    ASSUME NEW q \in CQs, NEW c \in Calls, Book(written'[q], cq'[q].last, now'),
           ByHand(call'[c], q) => Doing(written'[q], cq'[q].last, Gone(cq'[q]), now', call'[c].at,
                                        call'[c].w),
           \A d \in Calls : d # c => ~ByHand(call'[d], q),
           \A k \in Slots : ~Runs(job'[q][k])
    PROVE  InOrder(q)'
BY DEF InOrder

-----------------------------------------------------------------------------
(* The executions.                                                         *)

\* The choice of the window: what has to be true unless the query becomes irregular.
LEMMA WindowChosen ==
    ASSUME SCTypeOK, WindowsInv, NEW q \in CQs, q \notin irregular, ~Irregular(q), q \in Active,
           From(q) < now
    PROVE  /\ Book(written[q], cq[q].last, now)
           /\ Doing(written[q], cq[q].last, Gone(cq[q]), now, "query", <<From(q), now>>)
           /\ \A k \in Slots : ~Runs(job[q][k])
           /\ \A c \in Calls : ~ByHand(call[c], q)
<1>1. /\ written[q] \in SUBSET (Int \X Int) /\ cq[q].last \in Int /\ now \in Int /\ From(q) \in Int
  BY FromType, TypeParts DEF TableType
<1>2. InOrder(q) /\ Gone(cq[q]) = FALSE
  BY DEF WindowsInv, Gone, Active
<1>3. /\ cq[q].last # None => From(q) = cq[q].last
      /\ cq[q].last = None => written[q] = {}
      /\ \A k \in Slots : ~Runs(job[q][k])
      /\ \A c \in Calls : ~ByHand(call[c], q)
  BY ExecutionSets DEF From, Irregular
<1>4. Book(written[q], cq[q].last, now)
  BY <1>2 DEF InOrder
<1>5. Doing(written[q], cq[q].last, FALSE, now, "query", <<From(q), now>>)
  BY <1>1, <1>3, <1>4, WindowBegins
<1> QED
  BY <1>2, <1>3, <1>4, <1>5

LEMMA OrderTick ==
    ASSUME SCTypeOK, SCTypeOK', WindowsInv, NEW q \in CQs, NEW k \in Slots, Tick(q, k)
    PROVE  WindowsInv'
<1>1. ExecuteCQ(q, k) /\ job[q][k] \in Goroutines /\ job[q][k].at = "select"
  BY TypeParts DEF Tick, JobsType
<1>2. UNCHANGED <<cq, now, call>> /\ now <= now'
  BY <1>1, TypeParts DEF ExecuteCQ, TableType
<1>3. CASE licensed /\ primary /\ q \in Active /\ From(q) < now
  <2> DEFINE g == [job[q][k] EXCEPT !.at = "query", !.due = FALSE, !.from = From(q), !.to = now]
  <2>1. job' = [job EXCEPT ![q][k] = g] /\ MarkIrregular(q, Irregular(q))
    BY <1>1, <1>3 DEF ExecuteCQ
  <2>2. g.at = "query" /\ g.from = From(q) /\ g.to = now
    BY <1>1 DEF Goroutines
  <2> HIDE DEF g
  <2>3. /\ job'[q][k] = g /\ \A l \in Slots : l # k => job'[q][l] = job[q][l]
        /\ \A p \in CQs : p # q => job'[p] = job[p]
    BY <2>1, TypeParts DEF JobsType
  <2>4. irregular \subseteq irregular' /\ \A p \in CQs : p # q => written'[p] = written[p]
    BY <2>1, TypeParts DEF MarkIrregular, TableType
  <2>5. Unborn(q)'
    BY <1>2, <1>3 DEF Unborn, Active
  <2>6. ASSUME q \notin irregular' PROVE InOrder(q)'
    <3>1. q \notin irregular /\ ~Irregular(q) /\ written'[q] = written[q]
      BY <2>1, <2>6, TypeParts DEF MarkIrregular, TableType
    <3>2. /\ Book(written[q], cq[q].last, now)
          /\ Doing(written[q], cq[q].last, Gone(cq[q]), now, "query", <<From(q), now>>)
          /\ \A l \in Slots : ~Runs(job[q][l])
          /\ \A c \in Calls : ~ByHand(call[c], q)
      BY <1>3, <3>1, WindowChosen
    <3>3. Window(job'[q][k]) = <<From(q), now>> /\ job'[q][k].at = "query"
      BY <2>2, <2>3 DEF Window
    <3> QED
      BY <1>2, <2>3, <3>1, <3>2, <3>3, JobAlone
  <2> QED
    BY <1>2, <2>3, <2>4, <2>5, <2>6, OneQuery
<1>4. CASE ~(licensed /\ primary /\ q \in Active /\ From(q) < now)
  <2> DEFINE g == [job[q][k] EXCEPT !.due = FALSE]
  <2>1. job' = [job EXCEPT ![q][k] = g] /\ UNCHANGED <<written, irregular>>
    BY <1>1, <1>4 DEF ExecuteCQ
  <2>2. g.at = "select"
    BY <1>1 DEF Goroutines
  <2> HIDE DEF g
  <2>3. \A p \in CQs, l \in Slots : job'[p][l] = job[p][l] \/ job'[p][l].at = "select"
    BY <2>1, <2>2, TypeParts DEF JobsType
  <2>4. \A p \in CQs, l \in Slots : Runs(job'[p][l]) => job'[p][l] = job[p][l]
    BY <2>3 DEF Runs
  <2> QED
    BY <1>2, <2>1, <2>4, SameExecutions DEF table
<1> QED
  BY <1>3, <1>4

\* What the state says of an execution, and that nobody else executes the query.
LEMMA JobDoes ==
    ASSUME SCTypeOK, WindowsInv, NEW q \in CQs, NEW k \in Slots, Runs(job[q][k]), q \notin irregular
    PROVE  /\ Book(written[q], cq[q].last, now)
           /\ Doing(written[q], cq[q].last, Gone(cq[q]), now, job[q][k].at, Window(job[q][k]))
           /\ \A l \in Slots : l # k => ~Runs(job[q][l])
           /\ \A c \in Calls : ~ByHand(call[c], q)
BY DEF WindowsInv, InOrder

LEMMA CallDoes ==
    ASSUME SCTypeOK, WindowsInv, NEW q \in CQs, NEW c \in Calls, ByHand(call[c], q), q \notin irregular
    PROVE  /\ Book(written[q], cq[q].last, now)
           /\ Doing(written[q], cq[q].last, Gone(cq[q]), now, call[c].at, call[c].w)
           /\ \A d \in Calls : d # c => ~ByHand(call[d], q)
           /\ \A k \in Slots : ~Runs(job[q][k])
BY DEF WindowsInv, InOrder

LEMMA TableOf ==
    ASSUME SCTypeOK, NEW q \in CQs
    PROVE  /\ written[q] \in SUBSET (Int \X Int) /\ cq[q].last \in Int /\ now \in Int
           /\ Gone(cq[q]) \in BOOLEAN /\ cq[q].is \in {"absent", "active", "inactive", "deleted"}
BY TypeParts DEF TableType, Gone

\* executeAggregation by whoever executes q over w.
LEMMA Aggregated ==
    ASSUME SCTypeOK, NEW q \in CQs, NEW w \in Int \X Int, NEW ok \in BOOLEAN,
           executeAggregation(q, w, ok), Unborn(q), q \notin irregular,
           Book(written[q], cq[q].last, now),
           Doing(written[q], cq[q].last, Gone(cq[q]), now, "query", w)
    PROVE  /\ Book(written'[q], cq'[q].last, now')
           /\ ok => Doing(written'[q], cq'[q].last, Gone(cq'[q]), now', "record", w)
<1>1. UNCHANGED <<cq, now>> /\ written'[q] = IF ok THEN written[q] \union {w} ELSE written[q]
  BY TypeParts DEF executeAggregation, TableType
<1>2. Gone(cq[q]) => cq[q].last = None
  BY DEF Unborn, Gone
<1>3. /\ Book(written[q] \union {w}, cq[q].last, now)
      /\ Doing(written[q] \union {w}, cq[q].last, Gone(cq[q]), now, "record", w)
  BY <1>2, TableOf, WindowWritten
<1> QED
  BY <1>1, <1>3

\* recordExecutionAndUpdateTime by whoever executes q over w.
LEMMA Recorded ==
    ASSUME SCTypeOK, NEW q \in CQs, NEW w \in Int \X Int, NEW ok \in BOOLEAN,
           recordExecutionAndUpdateTime(q, w, ok),
           Book(written[q], cq[q].last, now),
           Doing(written[q], cq[q].last, Gone(cq[q]), now, "record", w)
    PROVE  Book(written'[q], cq'[q].last, now')
<1>1. UNCHANGED <<written, now>> /\ cq[q] \in [is : {"absent", "active", "inactive", "deleted"},
                                               interval : Intervals \union {Bad}, last : Int]
  BY TypeParts DEF recordExecutionAndUpdateTime, TableType
<1>2. cq'[q] = IF ok /\ cq[q].is # "deleted" THEN [cq[q] EXCEPT !.last = w[2]] ELSE cq[q]
  BY TypeParts DEF recordExecutionAndUpdateTime, TableType
<1>3. CASE ok /\ cq[q].is # "deleted"
  <2>1. cq'[q].last = w[2]
    BY <1>1, <1>2, <1>3
  <2>2. Doing(written[q], cq[q].last, FALSE, now, "record", w)
    <3>1. Gone(cq[q]) = FALSE
      BY <1>3 DEF Gone
    <3> QED
      BY <3>1
  <2> QED
    BY <1>1, <2>1, <2>2, TableOf, WindowRecorded
<1>4. CASE ~(ok /\ cq[q].is # "deleted")
  BY <1>1, <1>2, <1>4
<1> QED
  BY <1>3, <1>4

\* A query that somebody executes is not absent, and neither step makes it so.
LEMMA StaysBorn ==
    ASSUME SCTypeOK, SCTypeOK', WindowsInv, NEW q \in CQs, NEW w, NEW ok,
           executeAggregation(q, w, ok) \/ recordExecutionAndUpdateTime(q, w, ok),
           (\E k \in Slots : Runs(job[q][k])) \/ (\E c \in Calls : ByHand(call[c], q))
    PROVE  /\ Unborn(q)'
           /\ \A p \in CQs : p # q => cq'[p] = cq[p] /\ written'[p] = written[p]
           /\ UNCHANGED <<now, irregular>> /\ now <= now'
<1>1. /\ cq[q].is # "absent" /\ (cq[q].is = "deleted" => cq[q].last = None)
      /\ cq[q] \in [is : {"absent", "active", "inactive", "deleted"},
                    interval : Intervals \union {Bad}, last : Int]
  BY TypeParts DEF WindowsInv, Unborn, TableType
<1>2. \/ cq' = cq
      \/ cq' = [cq EXCEPT ![q] = IF ok /\ cq[q].is # "deleted" THEN [cq[q] EXCEPT !.last = w[2]]
                                 ELSE cq[q]]
  BY DEF executeAggregation, recordExecutionAndUpdateTime
<1>3. /\ cq'[q].is = cq[q].is /\ (cq[q].is = "deleted" => cq'[q].last = cq[q].last)
      /\ \A p \in CQs : p # q => cq'[p] = cq[p]
  BY <1>1, <1>2, TypeParts DEF TableType
<1>4. \A p \in CQs : p # q => written'[p] = written[p]
  BY TypeParts DEF executeAggregation, recordExecutionAndUpdateTime, TableType
<1>5. UNCHANGED <<now, irregular>> /\ now <= now'
  BY TableOf DEF executeAggregation, recordExecutionAndUpdateTime
<1> QED
  BY <1>1, <1>3, <1>4, <1>5 DEF Unborn

LEMMA OrderJobAggregates ==
    ASSUME SCTypeOK, SCTypeOK', WindowsInv, NEW q \in CQs, NEW k \in Slots, JobAggregates(q, k)
    PROVE  WindowsInv'
<1>1. PICK ok \in BOOLEAN :
          /\ executeAggregation(q, Window(job[q][k]), ok)
          /\ job' = [job EXCEPT ![q][k] = [@ EXCEPT !.at = IF ok THEN "record" ELSE "select"]]
  BY Zenon DEF JobAggregates, Window
<1>2. job[q][k] \in Goroutines /\ job[q][k].at = "query" /\ Runs(job[q][k]) /\ UNCHANGED call
  BY TypeParts DEF JobAggregates, JobsType, Runs
<1>3. Window(job[q][k]) \in Int \X Int
  BY <1>2 DEF Window, Goroutines
<1>4. /\ job'[q][k].at = (IF ok THEN "record" ELSE "select")
      /\ Window(job'[q][k]) = Window(job[q][k])
      /\ \A l \in Slots : l # k => job'[q][l] = job[q][l]
      /\ \A p \in CQs : p # q => job'[p] = job[p]
  <2> DEFINE g == [job[q][k] EXCEPT !.at = IF ok THEN "record" ELSE "select"]
  <2>1. g.at = (IF ok THEN "record" ELSE "select") /\ Window(g) = Window(job[q][k])
    BY <1>2 DEF Goroutines, Window
  <2>2. job' = [job EXCEPT ![q][k] = g]
    BY <1>1
  <2> HIDE DEF g
  <2> QED
    BY <2>1, <2>2, TypeParts DEF JobsType
<1>5. /\ Unborn(q)' /\ \A p \in CQs : p # q => cq'[p] = cq[p] /\ written'[p] = written[p]
      /\ UNCHANGED irregular /\ now <= now'
  BY <1>1, <1>2, StaysBorn
<1>6. ASSUME q \notin irregular' PROVE InOrder(q)'
  <2>1. /\ Book(written[q], cq[q].last, now)
        /\ Doing(written[q], cq[q].last, Gone(cq[q]), now, "query", Window(job[q][k]))
        /\ \A l \in Slots : l # k => ~Runs(job[q][l])
        /\ \A c \in Calls : ~ByHand(call[c], q)
    BY <1>2, <1>5, <1>6, JobDoes
  <2>2. Unborn(q)
    BY DEF WindowsInv
  <2>3. /\ Book(written'[q], cq'[q].last, now')
        /\ ok => Doing(written'[q], cq'[q].last, Gone(cq'[q]), now', "record", Window(job[q][k]))
    BY <1>1, <1>3, <1>5, <1>6, <2>1, <2>2, Aggregated
  <2>4. Runs(job'[q][k]) => ok
    BY <1>4 DEF Runs
  <2>5. Runs(job'[q][k]) => Doing(written'[q], cq'[q].last, Gone(cq'[q]), now', job'[q][k].at,
                                  Window(job'[q][k]))
    BY <1>4, <2>3, <2>4
  <2>6. \A l \in Slots : l # k => ~Runs(job'[q][l])
    BY <1>4, <2>1
  <2>7. \A c \in Calls : ~ByHand(call'[c], q)
    BY <1>2, <2>1
  <2> QED
    BY <2>3, <2>5, <2>6, <2>7, JobAlone
<1> QED
  BY <1>2, <1>4, <1>5, <1>6, OneQuery

LEMMA OrderJobRecords ==
    ASSUME SCTypeOK, SCTypeOK', WindowsInv, NEW q \in CQs, NEW k \in Slots, JobRecords(q, k)
    PROVE  WindowsInv'
<1>1. PICK ok \in BOOLEAN : recordExecutionAndUpdateTime(q, Window(job[q][k]), ok)
  BY Zenon DEF JobRecords, Window
<1>2. job[q][k] \in Goroutines /\ job[q][k].at = "record" /\ Runs(job[q][k]) /\ UNCHANGED call
  BY TypeParts DEF JobRecords, JobsType, Runs
<1>3. Window(job[q][k]) \in Int \X Int
  BY <1>2 DEF Window, Goroutines
<1>4. /\ ~Runs(job'[q][k]) /\ \A l \in Slots : l # k => job'[q][l] = job[q][l]
      /\ \A p \in CQs : p # q => job'[p] = job[p]
  <2> DEFINE g == [job[q][k] EXCEPT !.at = "select", !.from = 0, !.to = 0]
  <2>1. ~Runs(g)
    BY <1>2 DEF Goroutines, Runs
  <2>2. job' = [job EXCEPT ![q][k] = g]
    BY DEF JobRecords
  <2> HIDE DEF g
  <2> QED
    BY <2>1, <2>2, TypeParts DEF JobsType
<1>5. /\ Unborn(q)' /\ \A p \in CQs : p # q => cq'[p] = cq[p] /\ written'[p] = written[p]
      /\ UNCHANGED irregular /\ now <= now'
  BY <1>1, <1>2, StaysBorn
<1>6. ASSUME q \notin irregular' PROVE InOrder(q)'
  <2>1. /\ Book(written[q], cq[q].last, now)
        /\ Doing(written[q], cq[q].last, Gone(cq[q]), now, "record", Window(job[q][k]))
        /\ \A l \in Slots : l # k => ~Runs(job[q][l])
        /\ \A c \in Calls : ~ByHand(call[c], q)
    BY <1>2, <1>5, <1>6, JobDoes
  <2>2. Book(written'[q], cq'[q].last, now')
    BY <1>1, <1>3, <2>1, Recorded
  <2>3. \A l \in Slots : l # k => ~Runs(job'[q][l])
    BY <1>4, <2>1
  <2>4. \A c \in Calls : ~ByHand(call'[c], q)
    BY <1>2, <2>1
  <2> QED
    BY <1>4, <2>2, <2>3, <2>4, JobAlone
<1> QED
  BY <1>2, <1>4, <1>5, <1>6, OneQuery

LEMMA OrderCallAggregates ==
    ASSUME SCTypeOK, SCTypeOK', WindowsInv, NEW c \in Calls, NEW q \in CQs, CallAggregates(c, q)
    PROVE  WindowsInv'
<1>1. ByHand(call[c], q) /\ call[c].at = "query" /\ call[c] \in Executions /\ UNCHANGED job
  BY ExecutionSets, RequestShapes, TypeParts DEF CallAggregates, CallType, ByHand
<1>2. PICK ok \in BOOLEAN :
          /\ executeAggregation(q, call[c].w, ok)
          /\ call' = [call EXCEPT ![c] = IF ok THEN [@ EXCEPT !.at = "record"] ELSE Idle]
  BY Zenon DEF CallAggregates
<1>3. call[c].w \in Int \X Int
  BY <1>1 DEF Executions
<1>4. /\ ok => ByHand(call'[c], q) /\ call'[c].at = "record" /\ call'[c].w = call[c].w
      /\ ByHand(call'[c], q) => ok
      /\ \A p \in CQs : p # q => ~ByHand(call'[c], p)
      /\ \A d \in Calls : d # c => call'[d] = call[d]
  <2> DEFINE r == IF ok THEN [call[c] EXCEPT !.at = "record"] ELSE Idle
  <2>1. /\ ok => ByHand(r, q) /\ r.at = "record" /\ r.w = call[c].w
        /\ \A p \in CQs : ByHand(r, p) => ok /\ p = q
    BY <1>1 DEF Executions, ByHand, Idle
  <2>2. call' = [call EXCEPT ![c] = r]
    BY <1>2
  <2> HIDE DEF r
  <2>3. call'[c] = r /\ \A d \in Calls : d # c => call'[d] = call[d]
    BY <2>2, TypeParts DEF CallType
  <2> QED
    BY <2>1, <2>3
<1>5. /\ Unborn(q)' /\ \A p \in CQs : p # q => cq'[p] = cq[p] /\ written'[p] = written[p]
      /\ UNCHANGED irregular /\ now <= now'
  BY <1>1, <1>2, StaysBorn
<1>6. ASSUME q \notin irregular' PROVE InOrder(q)'
  <2>1. /\ Book(written[q], cq[q].last, now)
        /\ Doing(written[q], cq[q].last, Gone(cq[q]), now, "query", call[c].w)
        /\ \A d \in Calls : d # c => ~ByHand(call[d], q)
        /\ \A k \in Slots : ~Runs(job[q][k])
    BY <1>1, <1>5, <1>6, CallDoes
  <2>2. Unborn(q)
    BY DEF WindowsInv
  <2>3. /\ Book(written'[q], cq'[q].last, now')
        /\ ok => Doing(written'[q], cq'[q].last, Gone(cq'[q]), now', "record", call[c].w)
    BY <1>2, <1>3, <1>5, <1>6, <2>1, <2>2, Aggregated
  <2>4. ByHand(call'[c], q) => Doing(written'[q], cq'[q].last, Gone(cq'[q]), now', call'[c].at,
                                     call'[c].w)
    BY <1>4, <2>3
  <2>5. /\ \A d \in Calls : d # c => ~ByHand(call'[d], q)
        /\ \A k \in Slots : ~Runs(job'[q][k])
    BY <1>1, <1>4, <2>1
  <2> QED
    BY <2>3, <2>4, <2>5, CallAlone
<1> QED
  BY <1>1, <1>4, <1>5, <1>6, OneQuery

LEMMA OrderCallRecords ==
    ASSUME SCTypeOK, SCTypeOK', WindowsInv, NEW c \in Calls, NEW q \in CQs, CallRecords(c, q)
    PROVE  WindowsInv'
<1>1. /\ ByHand(call[c], q) /\ call[c].at = "record" /\ call[c].w \in Int \X Int /\ UNCHANGED job
      /\ call' = [call EXCEPT ![c] = Idle]
  BY ExecutionSets, RequestShapes, TypeParts DEF CallRecords, CallType, ByHand, Executions
<1>2. PICK ok \in BOOLEAN : recordExecutionAndUpdateTime(q, call[c].w, ok)
  BY Zenon DEF CallRecords
<1>3. \A p \in CQs : ~ByHand(call'[c], p)
  BY <1>1, TypeParts DEF CallType, ByHand, Idle
<1>4. \A d \in Calls : d # c => call'[d] = call[d]
  BY <1>1, TypeParts DEF CallType
<1>5. /\ Unborn(q)' /\ \A p \in CQs : p # q => cq'[p] = cq[p] /\ written'[p] = written[p]
      /\ UNCHANGED irregular /\ now <= now'
  BY <1>1, <1>2, StaysBorn
<1>6. ASSUME q \notin irregular' PROVE InOrder(q)'
  <2>1. /\ Book(written[q], cq[q].last, now)
        /\ Doing(written[q], cq[q].last, Gone(cq[q]), now, "record", call[c].w)
        /\ \A d \in Calls : d # c => ~ByHand(call[d], q)
        /\ \A k \in Slots : ~Runs(job[q][k])
    BY <1>1, <1>5, <1>6, CallDoes
  <2>2. Book(written'[q], cq'[q].last, now')
    BY <1>1, <1>2, <2>1, Recorded
  <2>3. /\ \A d \in Calls : d # c => ~ByHand(call'[d], q)
        /\ \A k \in Slots : ~Runs(job'[q][k])
    BY <1>1, <1>4, <2>1
  <2> QED
    BY <1>3, <2>2, <2>3, CallAlone
<1> QED
  BY <1>1, <1>3, <1>4, <1>5, <1>6, OneQuery

LEMMA OrderExecute ==
    ASSUME SCTypeOK, SCTypeOK', WindowsInv, NEW c \in Calls, NEW q \in CQs, handleExecute(c, q)
    PROVE  WindowsInv'
<1>1. PICK w \in {<<From(q), now>>} \union ({-LookBack} \X (1 .. MaxTime)) :
          /\ w[1] < w[2]
          /\ call' = [call EXCEPT ![c] = [op |-> "execute", at |-> "query", q |-> q, w |-> w]]
          /\ MarkIrregular(q, Irregular(q) \/ w # <<From(q), now>>)
  BY Zenon DEF handleExecute
<1>2. UNCHANGED <<cq, now, job>> /\ now <= now' /\ q \in Active
  BY TypeParts DEF handleExecute, scheduler, TableType
<1>3. /\ call'[c] = [op |-> "execute", at |-> "query", q |-> q, w |-> w]
      /\ \A d \in Calls : d # c => call'[d] = call[d]
  BY <1>1, TypeParts DEF CallType
<1>4. /\ ByHand(call'[c], q) /\ call'[c].at = "query" /\ call'[c].w = w
      /\ \A p \in CQs : p # q => ~ByHand(call'[c], p)
  BY <1>3 DEF ByHand
<1>5. irregular \subseteq irregular' /\ \A p \in CQs : p # q => written'[p] = written[p]
  BY <1>1, TypeParts DEF MarkIrregular, TableType
<1>6. Unborn(q)'
  BY <1>2 DEF Unborn, Active
<1>7. ASSUME q \notin irregular' PROVE InOrder(q)'
  <2>1. q \notin irregular /\ ~Irregular(q) /\ w = <<From(q), now>> /\ written'[q] = written[q]
    BY <1>1, <1>7, TypeParts DEF MarkIrregular, TableType
  <2>2. From(q) < now
    BY <1>1, <2>1
  <2>3. /\ Book(written[q], cq[q].last, now)
        /\ Doing(written[q], cq[q].last, Gone(cq[q]), now, "query", <<From(q), now>>)
        /\ \A k \in Slots : ~Runs(job[q][k])
        /\ \A d \in Calls : ~ByHand(call[d], q)
    BY <1>2, <2>1, <2>2, WindowChosen
  <2>4. \A d \in Calls : d # c => ~ByHand(call'[d], q)
    BY <1>3, <2>3
  <2>5. Doing(written'[q], cq'[q].last, Gone(cq'[q]), now', call'[c].at, call'[c].w)
    BY <1>2, <1>4, <2>1, <2>3
  <2> QED
    BY <1>2, <2>1, <2>3, <2>4, <2>5, CallAlone
<1> QED
  BY <1>2, <1>3, <1>4, <1>5, <1>6, <1>7, OneQuery

\* A row is created, changed or deleted.
LEMMA OrderRequests ==
    ASSUME SCTypeOK, SCTypeOK', WindowsInv, NEW c \in Calls, NEW q \in CQs,
           handleCreate(c, q) \/ handleUpdate(c, q) \/ handleDelete(c, q)
    PROVE  WindowsInv'
<1>1. UNCHANGED <<now, written, irregular, job>> /\ now <= now'
  <2>1. UNCHANGED <<now, written, irregular, job>>
    BY DEF handleCreate, handleUpdate, handleDelete, scheduler
  <2> QED
    BY <2>1, TypeParts DEF TableType
<1>2. \A d \in Calls, p \in CQs : ByHand(call'[d], p) => call'[d] = call[d]
  <2>1. CASE handleCreate(c, q)
    <3>1. PICK is \in {"active", "inactive"}, i \in Intervals \union {Bad} :
              call' = [call EXCEPT ![c] = [op |-> "create", at |-> "begin", on |-> {q}, is |-> is,
                                           interval |-> i, waits |-> {}]]
      BY Zenon, <2>1 DEF handleCreate
    <3>2. call'[c].op = "create" /\ \A d \in Calls : d # c => call'[d] = call[d]
      BY <3>1, TypeParts DEF CallType
    <3> QED
      BY <3>2 DEF ByHand
  <2>2. CASE handleUpdate(c, q)
    <3>1. call'[c].op = "update" /\ \A d \in Calls : d # c => call'[d] = call[d]
      BY <2>2, TypeParts DEF handleUpdate, CallType
    <3> QED
      BY <3>1 DEF ByHand
  <2>3. CASE handleDelete(c, q)
    BY <2>3 DEF handleDelete
  <2> QED
    BY <2>1, <2>2, <2>3
<1>3. \A p \in CQs : p # q => cq'[p] = cq[p]
  BY TypeParts DEF handleCreate, handleUpdate, handleDelete, TableType
<1>4. \A p \in CQs : p # q => written'[p] = written[p] /\ job'[p] = job[p]
  BY <1>1
<1>5. Unborn(q)
  BY DEF WindowsInv
<1>6. CASE handleDelete(c, q)
  <2>1. cq'[q].is = "deleted" /\ cq'[q].last = None
    BY <1>6, TypeParts DEF handleDelete, TableType
  <2>2. Unborn(q)'
    BY <2>1 DEF Unborn
  <2>3. ASSUME InOrder(q) PROVE InOrder(q)'
    <3>1. /\ \A k \in Slots : Runs(job[q][k]) =>
                Doing(written[q], None, TRUE, now, job[q][k].at, Window(job[q][k]))
          /\ \A d \in Calls : ByHand(call[d], q) =>
                Doing(written[q], None, TRUE, now, call[d].at, call[d].w)
          /\ Book(written[q], None, now)
      BY <2>3 DEF InOrder, Doing, Book
    <3>2. Gone(cq[q])' = TRUE /\ UNCHANGED call
      BY <1>6, <2>1 DEF Gone, handleDelete
    <3>3. /\ \A k \in Slots : Runs(job'[q][k]) =>
                Doing(written'[q], cq'[q].last, Gone(cq[q])', now', job'[q][k].at, Window(job'[q][k]))
          /\ \A d \in Calls : ByHand(call'[d], q) =>
                Doing(written'[q], cq'[q].last, Gone(cq[q])', now', call'[d].at, call'[d].w)
          /\ Book(written'[q], cq'[q].last, now')
      BY <1>1, <2>1, <3>1, <3>2
    <3>4. /\ \A k, l \in Slots : Runs(job'[q][k]) /\ Runs(job'[q][l]) => k = l
          /\ \A d, e \in Calls : ByHand(call'[d], q) /\ ByHand(call'[e], q) => d = e
          /\ \A k \in Slots, d \in Calls : ~(Runs(job'[q][k]) /\ ByHand(call'[d], q))
      BY <1>1, <2>3, <3>2 DEF InOrder
    <3> QED
      BY <3>3, <3>4 DEF InOrder
  <2> QED
    BY <1>1, <1>2, <1>3, <1>4, <2>2, <2>3, OneQuery DEF WindowsInv
<1>7. CASE handleCreate(c, q) \/ handleUpdate(c, q)
  <2>1. /\ cq'[q].is \in {"active", "inactive"} /\ cq[q].is # "deleted"
        /\ cq'[q].last = cq[q].last
    <3>1. cq \in [CQs -> [is : {"absent", "active", "inactive", "deleted"},
                           interval : Intervals \union {Bad}, last : Int]]
      BY TypeParts DEF TableType
    <3>2. CASE handleCreate(c, q)
      <4>1. PICK is \in {"active", "inactive"}, i \in Intervals \union {Bad} :
                cq' = [cq EXCEPT ![q] = [is |-> is, interval |-> i, last |-> None]]
        BY Zenon, <3>2 DEF handleCreate
      <4>2. cq'[q] = [is |-> is, interval |-> i, last |-> None] /\ cq[q].is = "absent"
        BY <3>1, <3>2, <4>1 DEF handleCreate
      <4> QED
        BY <1>5, <4>2 DEF Unborn
    <3>3. CASE handleUpdate(c, q)
      <4>1. PICK is \in {"active", "inactive"}, i \in Intervals \union {Bad} :
                cq' = [cq EXCEPT ![q] = [@ EXCEPT !.is = is, !.interval = i]]
        BY Zenon, <3>3 DEF handleUpdate
      <4>2. cq'[q] = [cq[q] EXCEPT !.is = is, !.interval = i] /\ cq[q].is # "deleted"
        BY <3>1, <3>3, <4>1 DEF handleUpdate
      <4> QED
        BY <3>1, <4>2
    <3> QED
      BY <1>7, <3>2, <3>3
  <2>2. Unborn(q)' /\ Gone(cq[q])' = Gone(cq[q])
    BY <2>1 DEF Unborn, Gone
  <2>3. ASSUME InOrder(q) PROVE InOrder(q)'
    BY <1>1, <1>2, <2>1, <2>2, <2>3, SameWindows
  <2> QED
    BY <1>1, <1>2, <1>3, <1>4, <2>2, <2>3, OneQuery DEF WindowsInv
<1> QED
  BY <1>6, <1>7

\* A free place and a fresh goroutine execute nothing.
LEMMA NotRunning == ~Runs(Free) /\ \A i : ~Runs(Started(i))
<1>1. Free.at = "free" /\ \A i : Started(i).at = "select"
  BY DEF Free, Started
<1> QED
  BY <1>1 DEF Runs

\* StopJobs and StartJobs leave what executes as it was.
LEMMA JobsExecute ==
    ASSUME SCTypeOK
    PROVE  /\ \A Q \in SUBSET CQs : \A D : StopJobs(Q, D) =>
                 \A q \in CQs, k \in Slots :
                    /\ job'[q][k].at = job[q][k].at
                    /\ job'[q][k].from = job[q][k].from /\ job'[q][k].to = job[q][k].to
           /\ \A intervals : StartJobs(intervals) =>
                 \A q \in CQs, k \in Slots : job'[q][k] = job[q][k] \/ job'[q][k].at = "select"
<1>1. ASSUME NEW Q \in SUBSET CQs, NEW D, StopJobs(Q, D), NEW q \in CQs, NEW k \in Slots
      PROVE  /\ job'[q][k].at = job[q][k].at
             /\ job'[q][k].from = job[q][k].from /\ job'[q][k].to = job[q][k].to
  <2>1. job[q][k] \in Goroutines
    BY TypeParts DEF JobsType
  <2>2. job'[q][k] = IF q \in Q /\ k = jobs[q]
                     THEN [job[q][k] EXCEPT !.stop = TRUE, !.due = q \in D] ELSE job[q][k]
    BY <1>1 DEF StopJobs
  <2> QED
    BY <2>1, <2>2 DEF Goroutines
<1>2. ASSUME NEW intervals, StartJobs(intervals), NEW q \in CQs, NEW k \in Slots
      PROVE  job'[q][k] = job[q][k] \/ job'[q][k].at = "select"
  <2>1. \A i : Started(i).at = "select"
    BY DEF Started, Free
  <2> QED
    BY <1>2, <2>1 DEF StartJobs
<1> QED
  BY <1>1, <1>2

\* A goroutine or handler afterwards executes only what it executed before.
SameJobs ==
    \A q \in CQs, k \in Slots : Runs(job'[q][k]) =>
       /\ Runs(job[q][k]) /\ job'[q][k].at = job[q][k].at
       /\ job'[q][k].from = job[q][k].from /\ job'[q][k].to = job[q][k].to
SameCalls == \A q \in CQs, c \in Calls : ByHand(call'[c], q) => call'[c] = call[c]

LEMMA CallReplaced ==
    ASSUME SCTypeOK, NEW c \in Calls, NEW r, call' = [call EXCEPT ![c] = r], r.op # "execute"
    PROVE  SameCalls
<1>1. call'[c] = r /\ \A d \in Calls : d # c => call'[d] = call[d]
  BY TypeParts DEF CallType
<1> QED
  BY <1>1 DEF SameCalls, ByHand

\* The requests that stop and start goroutines.
LEMMA OrderRestarts ==
    ASSUME SCTypeOK, SCTypeOK', WindowsInv, NEW c \in Calls,
           \/ ReloadAll(c) \/ StartAll(c)
           \/ \E q \in CQs : StartJobDirect(c, q) \/ ReloadCQ(c, q) \/ StartReplacement(c, q)
    PROVE  WindowsInv'
<1>1. UNCHANGED <<now, table>> /\ now <= now'
  <2>1. UNCHANGED <<now, table>>
    BY DEF ReloadAll, StartAll, StartJobDirect, ReloadCQ, StartReplacement
  <2> QED
    BY <2>1, TypeParts DEF TableType
<1>2. SameJobs
  <2>1. CASE ReloadAll(c)
    BY <2>1, JobsExecute DEF ReloadAll, SameJobs, Runs
  <2>2. CASE StartAll(c)
    <3>1. StartJobs([q \in Active |-> cq[q].interval]) \/ UNCHANGED job
      BY <2>2 DEF StartAll
    <3>2. \A q \in CQs, k \in Slots : job'[q][k] = job[q][k] \/ job'[q][k].at = "select"
      BY <3>1, JobsExecute
    <3> QED
      BY <3>2 DEF SameJobs, Runs
  <2>3. ASSUME NEW q \in CQs, StartJobDirect(c, q) \/ ReloadCQ(c, q) PROVE SameJobs
    <3>1. (\E D : StopJobs({q}, D)) \/ UNCHANGED job
      BY <2>3 DEF StartJobDirect, ReloadCQ
    <3> QED
      BY <3>1, JobsExecute DEF SameJobs, Runs
  <2>4. ASSUME NEW q \in CQs, StartReplacement(c, q) PROVE SameJobs
    <3>1. StartJobs([p \in {q} |-> call[c].interval]) \/ UNCHANGED job
      BY <2>4 DEF StartReplacement
    <3>2. \A p \in CQs, k \in Slots : job'[p][k] = job[p][k] \/ job'[p][k].at = "select"
      BY <3>1, JobsExecute
    <3> QED
      BY <3>2 DEF SameJobs, Runs
  <2> QED
    BY <2>1, <2>2, <2>3, <2>4
<1>3. SameCalls
  <2>1. Idle.op # "execute"
    BY DEF Idle
  <2>2. CASE ReloadAll(c) \/ StartAll(c)
    BY <2>1, <2>2, CallReplaced DEF ReloadAll, StartAll
  <2>3. ASSUME NEW q \in CQs, StartJobDirect(c, q) \/ ReloadCQ(c, q) PROVE SameCalls
    <3>1. call[c] \in Restarts
      BY <2>3, RequestShapes, TypeParts DEF StartJobDirect, ReloadCQ, CallType
    <3>2. /\ [call[c] EXCEPT !.at = "waiting", !.waits = Stopped({q})].op # "execute"
          /\ [call[c] EXCEPT !.at = "waiting", !.waits = Stopped({q}), !.is = cq[q].is,
                             !.interval = cq[q].interval].op # "execute"
      BY <3>1 DEF Restarts
    <3>3. \/ call' = [call EXCEPT ![c] = Idle]
          \/ call' = [call EXCEPT ![c] = [@ EXCEPT !.at = "waiting", !.waits = Stopped({q})]]
          \/ call' = [call EXCEPT ![c] = [@ EXCEPT !.at = "waiting", !.waits = Stopped({q}),
                                                   !.is = cq[q].is, !.interval = cq[q].interval]]
      BY Zenon, <2>3 DEF StartJobDirect, ReloadCQ
    <3> QED
      BY <2>1, <3>2, <3>3, CallReplaced
  <2>4. ASSUME NEW q \in CQs, StartReplacement(c, q) PROVE SameCalls
    BY <2>1, <2>4, CallReplaced DEF StartReplacement
  <2> QED
    BY <2>2, <2>3, <2>4
<1> QED
  BY <1>1, <1>2, <1>3, SameExecutions DEF SameJobs, SameCalls

\* A goroutine ends, or the process.
LEMMA OrderEnds ==
    ASSUME SCTypeOK, SCTypeOK', WindowsInv,
           Restart \/ StopCQ \/ \E q \in CQs, k \in Slots : JobExits(q, k)
    PROVE  WindowsInv'
<1>1. UNCHANGED <<now, table>> /\ now <= now'
  <2>1. UNCHANGED <<now, table>>
    BY DEF Restart, StopCQ, JobExits
  <2> QED
    BY <2>1, TypeParts DEF TableType
<1>2. SameJobs
  <2>1. CASE Restart
    <3>1. \A q \in CQs, k \in Slots : job'[q][k] = Free \/ \E i : job'[q][k] = Started(i)
      BY <2>1 DEF Restart, BootJobs
    <3>2. \A q \in CQs, k \in Slots : ~Runs(job'[q][k])
      BY <3>1, NotRunning
    <3> QED
      BY <3>2 DEF SameJobs
  <2>2. CASE StopCQ
    <3>1. (\E D : StopJobs(CQs, D)) \/ UNCHANGED job
      BY <2>2 DEF StopCQ
    <3> QED
      BY <3>1, JobsExecute DEF SameJobs, Runs
  <2>3. ASSUME NEW q \in CQs, NEW k \in Slots, JobExits(q, k) PROVE SameJobs
    <3>1. \A p \in CQs, l \in Slots : job'[p][l] = job[p][l] \/ job'[p][l] = Free
      BY <2>3, TypeParts DEF JobExits, JobsType
    <3> QED
      BY <3>1 DEF SameJobs, Runs, Free
  <2> QED
    BY <2>1, <2>2, <2>3
<1>3. SameCalls
  <2>1. CASE Restart
    BY <2>1 DEF Restart, SameCalls, ByHand, Idle
  <2>2. CASE StopCQ
    BY <2>2 DEF StopCQ, SameCalls
  <2>3. ASSUME NEW q \in CQs, NEW k \in Slots, JobExits(q, k) PROVE SameCalls
    <3> SUFFICES ASSUME NEW p \in CQs, NEW c \in Calls, ByHand(call'[c], p)
                 PROVE  call'[c] = call[c]
      BY DEF SameCalls
    <3>1. CASE call[c].op \in {"create", "update", "all"}
      <4>1. call[c] \in Restarts \union RestartsOfAll
        BY <3>1, RequestShapes, TypeParts DEF CallType
      <4>2. call'[c] = [call[c] EXCEPT !.waits = @ \ {<<q, k>>}]
        BY <2>3, <3>1 DEF JobExits
      <4>3. call'[c].op = call[c].op
        BY <4>1, <4>2 DEF Restarts, RestartsOfAll
      <4> QED
        BY <3>1, <4>3 DEF ByHand
    <3>2. CASE call[c].op \notin {"create", "update", "all"}
      BY <2>3, <3>2 DEF JobExits
    <3> QED
      BY <3>1, <3>2
  <2> QED
    BY <2>1, <2>2, <2>3
<1> QED
  BY <1>1, <1>2, <1>3, SameExecutions DEF SameJobs, SameCalls

LEMMA OrderInit == Init => WindowsInv
<1> SUFFICES ASSUME Init PROVE WindowsInv
  OBVIOUS
<1>1. PICK A \in SUBSET CQs : \E R \in SUBSET A :
          /\ cq = [q \in CQs |-> [is |-> IF q \in A THEN "active" ELSE "absent",
                                  interval |-> IF q \in A THEN Any(Intervals) ELSE Bad,
                                  last |-> IF q \in R THEN LookBack ELSE None]]
          /\ written = [q \in CQs |-> IF q \in R THEN {<<0, LookBack>>} ELSE {}]
  BY Zenon DEF Init
<1>2. PICK R \in SUBSET A :
          /\ cq = [q \in CQs |-> [is |-> IF q \in A THEN "active" ELSE "absent",
                                  interval |-> IF q \in A THEN Any(Intervals) ELSE Bad,
                                  last |-> IF q \in R THEN LookBack ELSE None]]
          /\ written = [q \in CQs |-> IF q \in R THEN {<<0, LookBack>>} ELSE {}]
  BY Zenon, <1>1
<1>3. /\ \A q \in CQs, k \in Slots : ~Runs(job[q][k])
      /\ \A q \in CQs, c \in Calls : ~ByHand(call[c], q)
  <2>1. \A q \in CQs, k \in Slots : job[q][k] = Free \/ \E i : job[q][k] = Started(i)
    BY DEF Init
  <2>2. \A q \in CQs, k \in Slots : ~Runs(job[q][k])
    BY <2>1, NotRunning
  <2> QED
    BY <2>2 DEF Init, ByHand, Idle
<1>4. \A q \in CQs : Unborn(q)
  BY <1>2, <1>3 DEF Unborn
<1>5. ASSUME NEW q \in CQs PROVE Book(written[q], cq[q].last, now)
  <2>1. LookBack \in Nat \ {0} /\ now = LookBack + 1 /\ None = 0
    BY SchedulerConstants DEF Init
  <2>2. CASE q \in R
    <3>1. written[q] = {<<0, LookBack>>} /\ cq[q].last = LookBack
      BY <1>2, <2>2
    <3> QED
      BY <2>1, <3>1 DEF Book
  <2>3. CASE q \notin R
    BY <1>2, <2>3 DEF Book
  <2> QED
    BY <2>2, <2>3
<1> QED
  BY <1>3, <1>4, <1>5 DEF WindowsInv, InOrder

LEMMA OrderNext == SCTypeOK /\ WindowsInv /\ [Next]_vars => WindowsInv'
<1> SUFFICES ASSUME SCTypeOK, WindowsInv, [Next]_vars PROVE WindowsInv'
  OBVIOUS
<1>0. SCTypeOK'
  BY TypeNext
<1>1. ASSUME UNCHANGED <<table, job, call>>, now <= now' PROVE WindowsInv'
  BY <1>0, <1>1, SameExecutions
<1>2. now \in Nat /\ now <= now
  BY TypeParts DEF TableType
<1>3. ASSUME NEW c \in Calls, ReloadAll(c) \/ Handler(c) PROVE WindowsInv'
  <2>1. ASSUME TriggerReturns(c) PROVE WindowsInv'
    <3>1. Idle.op # "execute" /\ UNCHANGED <<now, table, job>> /\ now <= now'
      BY <1>2, <2>1 DEF TriggerReturns, scheduler, Idle
    <3>2. SameCalls
      BY <2>1, <3>1, CallReplaced DEF TriggerReturns
    <3> QED
      BY <1>0, <3>1, <3>2, SameExecutions DEF SameCalls
  <2> QED
    BY <1>0, <1>3, <2>1, OrderRestarts, OrderCallAggregates, OrderCallRecords DEF Handler
<1>4. ASSUME NEW c \in Calls, TriggerNow(c) PROVE WindowsInv'
  <2>1. [op |-> "trigger"].op # "execute" /\ UNCHANGED <<now, table, job>> /\ now <= now'
    BY <1>2, <1>4 DEF TriggerNow, scheduler
  <2>2. SameCalls
    BY <1>4, <2>1, CallReplaced DEF TriggerNow
  <2> QED
    BY <1>0, <2>1, <2>2, SameExecutions DEF SameCalls
<1>5. ASSUME NEW c \in Calls, NEW q \in CQs,
             handleCreate(c, q) \/ handleUpdate(c, q) \/ handleDelete(c, q) \/ handleExecute(c, q)
      PROVE  WindowsInv'
  BY <1>0, <1>5, OrderRequests, OrderExecute
<1>6. ASSUME NEW q \in CQs, NEW k \in Slots, Tick(q, k) \/ Goroutine(q, k) PROVE WindowsInv'
  BY <1>0, <1>6, OrderTick, OrderJobAggregates, OrderJobRecords, OrderEnds DEF Goroutine
<1>7. ASSUME NEW x \in Crons, CronFires(x) \/ runRetention(x) PROVE WindowsInv'
  BY <1>1, <1>2, <1>7 DEF CronFires, runRetention, scheduler
<1>8. ASSUME BeginShutdown \/ CQStopped \/ StopRetention \/ RetentionStopped PROVE WindowsInv'
  BY <1>1, <1>2, <1>8 DEF BeginShutdown, CQStopped, StopRetention, RetentionStopped, scheduler
<1>9. ASSUME LicenseChanges \/ RoleChanges \/ TimePasses PROVE WindowsInv'
  BY <1>1, <1>2, <1>9 DEF LicenseChanges, RoleChanges, TimePasses, scheduler
<1>10. ASSUME StopCQ \/ Restart PROVE WindowsInv'
  BY <1>0, <1>10, OrderEnds
<1>11. CASE UNCHANGED vars
  BY <1>1, <1>2, <1>11 DEF vars, scheduler
<1> QED
  BY <1>3, <1>4, <1>5, <1>6, <1>7, <1>8, <1>9, <1>10, <1>11 DEF Next, Stops

\* The least start is there, so WindowsMeet speaks of it.
LEMMA WindowsMeetFollows == SCTypeOK /\ WindowsInv => WindowsMeet
<1> SUFFICES ASSUME SCTypeOK, WindowsInv, NEW q \in CQs \ irregular
             PROVE  /\ \A v, w \in written[q] : v[1] < w[1] => v[2] <= w[1]
                    /\ cq[q].last # None =>
                          /\ \E w \in written[q] : w[2] = cq[q].last
                          /\ \A t \in Min({w[1] : w \in written[q]}) .. (cq[q].last - 1) :
                                \E w \in written[q] : w[1] <= t /\ t < w[2]
  BY DEF WindowsMeet
<1>1. Book(written[q], cq[q].last, now) /\ written[q] \in SUBSET (Int \X Int) /\ cq[q].last \in Int
  BY TableOf DEF WindowsInv, InOrder
<1>2. ASSUME cq[q].last # None,
             NEW t \in Min({w[1] : w \in written[q]}) .. (cq[q].last - 1)
      PROVE  \E w \in written[q] : w[1] <= t /\ t < w[2]
  <2> DEFINE S == {w[1] : w \in written[q]}
  <2>1. \E v \in S : \A u \in S : v <= u
    BY <1>1, <1>2 DEF Book
  <2>2. Min(S) \in S
    BY <2>1 DEF Min
  <2>3. PICK v \in written[q] : v[1] = Min(S)
    BY <2>2
  <2>4. v[1] \in Int /\ t \in Int /\ v[1] <= t /\ t < cq[q].last
    BY <1>1, <1>2, <2>3
  <2> QED
    BY <1>1, <1>2, <2>4 DEF Book
<1> QED
  BY <1>1, <1>2 DEF Book

(* The windows of a regular query follow each other and leave no tick out:  *)
(* executeCQ and handleExecute choose a window from last_processed_time,    *)
(* executeAggregation writes it and recordExecutionAndUpdateTime records    *)
(* its end (continuous_query.go), whatever fails, overtakes or crashes in   *)
(* between.  For every number of queries, handlers, ticks and requests.     *)
THEOREM WindowsMeetCorrect == Spec => []WindowsMeet
<1>1. Init => SCTypeOK /\ WindowsInv
  BY TypeInit, OrderInit
<1>2. SCTypeOK /\ WindowsInv /\ [Next]_vars => (SCTypeOK /\ WindowsInv)'
  BY TypeNext, OrderNext
<1> QED
  BY <1>1, <1>2, WindowsMeetFollows, PTL DEF Spec

-----------------------------------------------------------------------------
(* The scheduler against the table.                                        *)

\* r will restart q: as the table says when it gets the lock, or as the definition it carries says.
Pending(r, q) == r.op \in {"create", "update", "all"} /\ q \in r.on
Reloads(r, q) == r.op = "update" /\ r.at = "begin" /\ q \in r.on
Carries(r, q) == (r.op = "create" \/ (r.op = "update" /\ r.at = "waiting")) /\ q \in r.on

\* The definition that r carries is that of row d.
Carried(r, d) == d.is = "deleted" \/ (r.is = d.is /\ r.interval = d.interval)

\* The goroutine in the map is what the row asks for.
Scheduled(q) ==
    /\ cq[q].is = "active" /\ cq[q].interval # Bad =>
          jobs[q] # None /\ job[q][jobs[q]].interval = cq[q].interval
    /\ cq[q].is = "inactive" \/ (cq[q].is = "active" /\ cq[q].interval = Bad) => jobs[q] = None

\* Nobody carries an old definition unless somebody is about to read the new one.
NoneStale(q) ==
    (\A c \in Calls : ~Reloads(call[c], q)) =>
       \A c \in Calls : Carries(call[c], q) => Carried(call[c], cq[q])
AtRest(q) == q \notin unread /\ (\A c \in Calls : ~Pending(call[c], q)) => Scheduled(q)

\* Before a row is created nobody has a request about it.
NoRequest(q) ==
    cq[q].is = "absent" => \A c \in Calls : ~Reloads(call[c], q) /\ ~Carries(call[c], q)

StoredInv ==
    /\ \A q \in CQs : NoRequest(q)
    /\ running => \A q \in CQs \ raced : NoneStale(q) /\ AtRest(q)

LEMMA PendingKinds ==
    /\ \A r, q : Reloads(r, q) \/ Carries(r, q) => Pending(r, q)
    /\ \A q : ~Pending(Idle, q) /\ ~Pending([op |-> "trigger"], q)
    /\ \A r \in Executions, q \in CQs : ~Pending(r, q)
BY DEF Pending, Reloads, Carries, Idle, Executions

\* What a step must leave alone to keep q scheduled as stored.
SameRow(q) == cq'[q].is = cq[q].is /\ cq'[q].interval = cq[q].interval
SameRequest(r, s, q) ==
    /\ Reloads(s, q) <=> Reloads(r, q)
    /\ Carries(s, q) <=> Carries(r, q)
    /\ Pending(s, q) <=> Pending(r, q)
    /\ Carries(r, q) => s.is = r.is /\ s.interval = r.interval

LEMMA NotPending ==
    ASSUME NEW r, NEW s, NEW q, ~Pending(r, q), ~Pending(s, q)
    PROVE  SameRequest(r, s, q)
BY PendingKinds DEF SameRequest

LEMMA SameScheduled ==
    ASSUME NEW q \in CQs, SameRow(q), \A c \in Calls : SameRequest(call[c], call'[c], q)
    PROVE  /\ NoRequest(q) => NoRequest(q)'
           /\ NoneStale(q) => NoneStale(q)'
           /\ AtRest(q) /\ jobs'[q] = jobs[q] /\ (q \in unread => q \in unread')
                /\ (jobs[q] # None => job'[q][jobs[q]].interval = job[q][jobs[q]].interval)
              => AtRest(q)'
<1>1. NoRequest(q) => NoRequest(q)'
  BY DEF NoRequest, SameRow, SameRequest
<1>2. NoneStale(q) => NoneStale(q)'
  BY DEF NoneStale, SameRow, SameRequest, Carried
<1>3. AtRest(q) /\ jobs'[q] = jobs[q] /\ (q \in unread => q \in unread')
         /\ (jobs[q] # None => job'[q][jobs[q]].interval = job[q][jobs[q]].interval)
      => AtRest(q)'
  BY DEF AtRest, SameRow, SameRequest, Scheduled
<1> QED
  BY <1>1, <1>2, <1>3

\* A step that changes neither rows, nor the map, nor what is pending.
LEMMA SameStored ==
    ASSUME StoredInv, running' => running, raced \subseteq raced', UNCHANGED <<jobs, unread>>,
           \A q \in CQs : SameRow(q),
           \A q \in CQs, c \in Calls : SameRequest(call[c], call'[c], q),
           \A q \in CQs \ raced' : jobs[q] # None =>
              job'[q][jobs[q]].interval = job[q][jobs[q]].interval
    PROVE  StoredInv'
BY SameScheduled DEF StoredInv

\* A step of one request about one query.
LEMMA OneRequest ==
    ASSUME SCTypeOK, StoredInv, NEW q \in CQs, NEW c \in Calls, NEW r,
           running' => running, raced \subseteq raced',
           \A p \in CQs : p # q => /\ cq'[p] = cq[p] /\ jobs'[p] = jobs[p] /\ job'[p] = job[p]
                                   /\ (p \in unread => p \in unread')
                                   /\ ~Pending(call[c], p) /\ ~Pending(r, p),
           call' = [call EXCEPT ![c] = r],
           NoRequest(q)', running' /\ q \notin raced' => NoneStale(q)' /\ AtRest(q)'
    PROVE  StoredInv'
<1>1. call'[c] = r /\ \A d \in Calls : d # c => call'[d] = call[d]
  BY TypeParts DEF CallType
<1>2. \A s, p : SameRequest(s, s, p)
  BY DEF SameRequest
<1>3. ASSUME NEW p \in CQs, p # q
      PROVE  /\ NoRequest(p)'
             /\ running' /\ p \notin raced' => NoneStale(p)' /\ AtRest(p)'
  <2>1. SameRow(p)
    BY <1>3 DEF SameRow
  <2>2. \A d \in Calls : SameRequest(call[d], call'[d], p)
    BY <1>1, <1>2, <1>3, NotPending
  <2>3. NoRequest(p) /\ (running' /\ p \notin raced' => NoneStale(p) /\ AtRest(p))
    BY DEF StoredInv
  <2> QED
    BY <1>3, <2>1, <2>2, <2>3, SameScheduled
<1> QED
  BY <1>3 DEF StoredInv

\* What StopJobs and StartJobs do to the map and the intervals.
LEMMA StopJobsMap ==
    ASSUME SCTypeOK, NEW Q \in SUBSET CQs, NEW D, StopJobs(Q, D)
    PROVE  \A p \in CQs : p \notin Q => jobs'[p] = jobs[p] /\ job'[p] = job[p]
<1> SUFFICES ASSUME NEW p \in CQs, p \notin Q PROVE jobs'[p] = jobs[p] /\ job'[p] = job[p]
  OBVIOUS
<1>1. jobs'[p] = jobs[p] /\ job'[p] = [k \in Slots |-> job[p][k]]
  BY DEF StopJobs
<1>2. job[p] \in [Slots -> Goroutines]
  BY TypeParts DEF JobsType
<1> QED
  BY <1>1, <1>2

LEMMA StartJobsMap ==
    ASSUME SCTypeOK, NEW intervals, DOMAIN intervals \subseteq CQs, StartJobs(intervals)
    PROVE  \A p \in CQs :
              /\ p \in DOMAIN intervals /\ intervals[p] # Bad =>
                    jobs'[p] # None /\ job'[p][jobs'[p]].interval = intervals[p]
              /\ ~(p \in DOMAIN intervals /\ intervals[p] # Bad) =>
                    jobs'[p] = jobs[p] /\ job'[p] = job[p]
<1> DEFINE Q == {q \in DOMAIN intervals : intervals[q] # Bad}
           slot(q) == Any(Slots \ Live(q))
<1>1. /\ \A q \in Q : Live(q) # Slots
      /\ jobs' = [q \in CQs |-> IF q \in Q THEN slot(q) ELSE jobs[q]]
      /\ job' = [q \in CQs |-> [k \in Slots |->
                    IF q \in Q /\ k = slot(q) THEN Started(intervals[q]) ELSE job[q][k]]]
  BY DEF StartJobs
<1>2. ASSUME NEW p \in CQs, p \in Q
      PROVE  jobs'[p] # None /\ job'[p][jobs'[p]].interval = intervals[p]
  <2>1. Slots \ Live(p) # {}
    BY <1>1, <1>2 DEF Live
  <2>2. jobs'[p] = slot(p) /\ slot(p) \in Slots
    BY <1>1, <1>2, <2>1, AnyOf
  <2>3. \A k \in Slots : k = slot(p) => job'[p][k] = Started(intervals[p])
    BY <1>1, <1>2
  <2> HIDE DEF slot
  <2>4. job'[p][slot(p)] = Started(intervals[p])
    BY <2>2, <2>3
  <2>5. \A i : Started(i).interval = i
    BY DEF Started, Free
  <2> QED
    BY <2>2, <2>4, <2>5, Constants
<1>3. ASSUME NEW p \in CQs, p \notin Q PROVE jobs'[p] = jobs[p] /\ job'[p] = job[p]
  <2>1. jobs'[p] = jobs[p] /\ job'[p] = [k \in Slots |-> job[p][k]]
    BY <1>1, <1>3
  <2>2. job[p] \in [Slots -> Goroutines]
    BY TypeParts DEF JobsType
  <2> QED
    BY <2>1, <2>2
<1> QED
  BY <1>2, <1>3

-----------------------------------------------------------------------------
(* The requests about a row.                                               *)

LEMMA StoredRequests ==
    ASSUME SCTypeOK, StoredInv, NEW c \in Calls, NEW q \in CQs,
           handleCreate(c, q) \/ handleUpdate(c, q)
    PROVE  StoredInv'
<1>1. UNCHANGED <<jobs, job, running, raced, unread>> /\ call[c] = Idle
  BY DEF handleCreate, handleUpdate, Accepts, scheduler
<1>2. cq \in [CQs -> [is : {"absent", "active", "inactive", "deleted"},
                      interval : Intervals \union {Bad}, last : Int]]
  BY TypeParts DEF TableType
<1>3. \A p \in CQs : p # q => cq'[p] = cq[p]
  BY <1>2 DEF handleCreate, handleUpdate
<1>4. \A p : ~Pending(call[c], p)
  BY <1>1, PendingKinds
<1>5. CASE handleCreate(c, q)
  <2>1. PICK is \in {"active", "inactive"}, i \in Intervals \union {Bad} :
            /\ cq' = [cq EXCEPT ![q] = [is |-> is, interval |-> i, last |-> None]]
            /\ call' = [call EXCEPT ![c] = [op |-> "create", at |-> "begin", on |-> {q}, is |-> is,
                                            interval |-> i, waits |-> {}]]
    BY Zenon, <1>5 DEF handleCreate
  <2> DEFINE r == [op |-> "create", at |-> "begin", on |-> {q}, is |-> is, interval |-> i,
                   waits |-> {}]
  <2>2. /\ Pending(r, q) /\ Carries(r, q) /\ r.is = is /\ r.interval = i
        /\ \A p \in CQs : p # q => ~Pending(r, p)
    BY DEF Pending, Carries
  <2>3. cq'[q].is = is /\ cq'[q].interval = i /\ cq[q].is = "absent"
    BY <1>2, <1>5, <2>1 DEF handleCreate
  <2>4. call' = [call EXCEPT ![c] = r]
    BY <2>1
  <2> HIDE DEF r
  <2>5. call'[c] = r /\ \A d \in Calls : d # c => call'[d] = call[d]
    BY <2>4, TypeParts DEF CallType
  <2>6. NoRequest(q)'
    BY <2>3 DEF NoRequest
  <2>7. \A d \in Calls : d # c => ~Carries(call'[d], q)
    BY <2>3, <2>5 DEF StoredInv, NoRequest
  <2>8. NoneStale(q)'
    BY <2>2, <2>3, <2>5, <2>7 DEF NoneStale, Carried
  <2>9. AtRest(q)'
    BY <2>2, <2>5 DEF AtRest
  <2> QED
    BY <1>1, <1>3, <1>4, <2>2, <2>4, <2>6, <2>8, <2>9, OneRequest
<1>6. CASE handleUpdate(c, q)
  <2> DEFINE r == [op |-> "update", at |-> "begin", on |-> {q}, is |-> "inactive",
                   interval |-> Bad, waits |-> {}]
  <2>1. call' = [call EXCEPT ![c] = r]
    BY <1>6 DEF handleUpdate
  <2>2. Pending(r, q) /\ Reloads(r, q) /\ \A p \in CQs : p # q => ~Pending(r, p)
    BY DEF Pending, Reloads
  <2> HIDE DEF r
  <2>3. call'[c] = r
    BY <2>1, TypeParts DEF CallType
  <2>4. NoRequest(q)'
    <3>1. PICK is \in {"active", "inactive"}, i \in Intervals \union {Bad} :
              cq' = [cq EXCEPT ![q] = [@ EXCEPT !.is = is, !.interval = i]]
      BY Zenon, <1>6 DEF handleUpdate
    <3>2. cq'[q].is # "absent"
      BY <1>2, <3>1
    <3> QED
      BY <3>2 DEF NoRequest
  <2>5. NoneStale(q)' /\ AtRest(q)'
    BY <2>2, <2>3 DEF NoneStale, AtRest
  <2> QED
    BY <1>1, <1>3, <1>4, <2>1, <2>2, <2>4, <2>5, OneRequest
<1> QED
  BY <1>5, <1>6

LEMMA StoredDelete ==
    ASSUME SCTypeOK, StoredInv, NEW c \in Calls, NEW q \in CQs, handleDelete(c, q)
    PROVE  StoredInv'
<1>1. UNCHANGED <<jobs, job, running, raced, unread, call>>
  BY DEF handleDelete, scheduler
<1>2. cq'[q].is = "deleted" /\ \A p \in CQs : p # q => cq'[p] = cq[p]
  BY TypeParts DEF handleDelete, TableType
<1>3. NoRequest(q)' /\ NoneStale(q)' /\ AtRest(q)'
  BY <1>2 DEF NoRequest, NoneStale, Carried, AtRest, Scheduled
<1>4. ASSUME NEW p \in CQs, p # q
      PROVE  NoRequest(p)' /\ (running' /\ p \notin raced' => NoneStale(p)' /\ AtRest(p)')
  <2>1. SameRow(p) /\ \A d \in Calls : SameRequest(call[d], call'[d], p)
    BY <1>1, <1>2, <1>4 DEF SameRow, SameRequest
  <2>2. NoRequest(p) /\ (running' /\ p \notin raced' => NoneStale(p) /\ AtRest(p))
    BY <1>1 DEF StoredInv
  <2> QED
    BY <1>1, <2>1, <2>2, SameScheduled
<1> QED
  BY <1>3, <1>4 DEF StoredInv

\* A request that ends leaves none about a row that is not there.
LEMMA RequestEnds ==
    ASSUME NEW q \in CQs, NoRequest(q), SameRow(q),
           \A d \in Calls : call'[d] = call[d] \/ call'[d] = Idle
    PROVE  NoRequest(q)'
BY PendingKinds DEF NoRequest, SameRow

\* What each restart of a query is about, and what it becomes.
LEMMA RestartOf ==
    ASSUME SCTypeOK, NEW c \in Calls, call[c].op \in {"create", "update"}, NEW q, q \in call[c].on,
           NEW waits, NEW d
    PROVE  /\ call[c].on = {q} /\ Pending(call[c], q) /\ \A p : p # q => ~Pending(call[c], p)
           /\ LET r == [call[c] EXCEPT !.at = "waiting", !.waits = waits]
              IN  /\ r.op = call[c].op /\ r.at = "waiting" /\ r.on = {q}
                  /\ r.is = call[c].is /\ r.interval = call[c].interval
           /\ LET r == [call[c] EXCEPT !.at = "waiting", !.waits = waits, !.is = d.is,
                                       !.interval = d.interval]
              IN  /\ r.op = call[c].op /\ r.at = "waiting" /\ r.on = {q}
                  /\ r.is = d.is /\ r.interval = d.interval
<1>1. call[c] \in Restarts
  BY RequestShapes, TypeParts DEF CallType
<1>2. call[c].on = {q}
  BY <1>1 DEF Restarts
<1>3. Pending(call[c], q) /\ \A p : p # q => ~Pending(call[c], p)
  BY <1>2 DEF Pending
<1> QED
  BY <1>1, <1>2, <1>3 DEF Restarts

LEMMA StoredStartJobDirect ==
    ASSUME SCTypeOK, StoredInv, NEW c \in Calls, NEW q \in CQs, StartJobDirect(c, q)
    PROVE  StoredInv'
<1>1. /\ call[c].op = "create" /\ q \in call[c].on /\ UNCHANGED <<cq, running>>
      /\ raced \subseteq raced' /\ unread' \in {unread, unread \ {q}}
  BY DEF StartJobDirect, table
<1>2. \A p \in CQs : p # q => jobs'[p] = jobs[p] /\ job'[p] = job[p]
  <2>1. CASE running
    <3>1. PICK D : StopJobs({q}, D)
      BY <2>1 DEF StartJobDirect
    <3>2. {q} \in SUBSET CQs
      OBVIOUS
    <3> QED
      BY <3>1, <3>2, StopJobsMap
  <2>2. CASE ~running
    BY <2>2 DEF StartJobDirect
  <2> QED
    BY <2>1, <2>2
<1>3. SameRow(q) /\ NoRequest(q) /\ (running /\ q \notin raced => NoneStale(q))
  BY <1>1 DEF SameRow, StoredInv
<1>4. /\ Pending(call[c], q) /\ Carries(call[c], q) /\ ~Reloads(call[c], q)
      /\ \A p \in CQs : p # q => ~Pending(call[c], p)
  BY <1>1, RestartOf DEF Carries, Reloads
<1>5. CASE running
  <2> DEFINE r == [call[c] EXCEPT !.at = "waiting", !.waits = Stopped({q})]
  <2>1. call' = [call EXCEPT ![c] = r]
    BY <1>5 DEF StartJobDirect
  <2>2. r.op = "create" /\ r.on = {q} /\ r.is = call[c].is /\ r.interval = call[c].interval
    BY <1>1, RestartOf
  <2> HIDE DEF r
  <2>3. call'[c] = r /\ \A d \in Calls : d # c => call'[d] = call[d]
    BY <2>1, TypeParts DEF CallType
  <2>4. /\ SameRequest(call[c], r, q) /\ Pending(r, q)
        /\ \A p \in CQs : p # q => ~Pending(r, p)
    BY <1>4, <2>2 DEF SameRequest, Pending, Carries, Reloads
  <2>5. \A d \in Calls : SameRequest(call[d], call'[d], q)
    BY <2>3, <2>4 DEF SameRequest
  <2>6. NoRequest(q)' /\ (running /\ q \notin raced => NoneStale(q)')
    BY <1>3, <2>5, SameScheduled
  <2>7. AtRest(q)'
    BY <2>3, <2>4 DEF AtRest
  <2> QED
    BY <1>1, <1>2, <1>4, <2>1, <2>4, <2>6, <2>7, OneRequest
<1>6. CASE ~running
  <2>1. call' = [call EXCEPT ![c] = Idle] /\ ~running'
    BY <1>1, <1>6 DEF StartJobDirect
  <2>2. \A d \in Calls : call'[d] = call[d] \/ call'[d] = Idle
    BY <2>1, TypeParts DEF CallType
  <2>3. NoRequest(q)'
    BY <1>3, <2>2, RequestEnds
  <2>4. \A p \in CQs : ~Pending(Idle, p)
    BY PendingKinds
  <2> QED
    BY <1>1, <1>2, <1>4, <2>1, <2>3, <2>4, OneRequest
<1> QED
  BY <1>5, <1>6

\* Unless it races, the request that reads the row is the only one with a definition of it.
LEMMA StoredReloadCQ ==
    ASSUME SCTypeOK, StoredInv, NEW c \in Calls, NEW q \in CQs, ReloadCQ(c, q)
    PROVE  StoredInv'
<1>1. /\ call[c].op = "update" /\ call[c].at = "begin" /\ q \in call[c].on
      /\ UNCHANGED <<cq, running>> /\ raced \subseteq raced'
      /\ \A p : p # q => (p \in unread => p \in unread')
  BY DEF ReloadCQ, table
<1>2. \A p \in CQs : p # q => jobs'[p] = jobs[p] /\ job'[p] = job[p]
  <2>1. CASE running
    <3>1. PICK D : StopJobs({q}, D)
      BY <2>1 DEF ReloadCQ
    <3>2. {q} \in SUBSET CQs
      OBVIOUS
    <3> QED
      BY <3>1, <3>2, StopJobsMap
  <2>2. CASE ~running
    BY <2>2 DEF ReloadCQ
  <2> QED
    BY <2>1, <2>2
<1>3. SameRow(q) /\ NoRequest(q)
  BY <1>1 DEF SameRow, StoredInv
<1>4. /\ Pending(call[c], q) /\ Reloads(call[c], q)
      /\ \A p \in CQs : p # q => ~Pending(call[c], p)
  BY <1>1, RestartOf DEF Reloads
<1>5. cq[q].is # "absent"
  BY <1>3, <1>4 DEF NoRequest
<1>6. NoRequest(q)'
  BY <1>1, <1>5 DEF NoRequest
<1>7. ASSUME running, q \notin raced', NEW d \in Calls, d # c PROVE ~Carries(call[d], q)
  <2>1. ~Races(c, q)
    BY <1>7 DEF ReloadCQ
  <2>2. ASSUME Carries(call[d], q) PROVE FALSE
    <3>1. call[d].op \in {"create", "update"} /\ q \in call[d].on
      BY <2>2 DEF Carries
    <3>2. call[d].on = {q}
      BY <3>1, RestartOf
    <3>3. CASE call[d].op = "create"
      BY <1>1, <2>1, <3>2, <3>3 DEF Races
    <3>4. CASE call[d].op = "update" /\ call[d].at = "waiting"
      BY <1>7, <2>1, <3>1, <3>4 DEF Races, Restarting
    <3> QED
      BY <2>2, <3>3, <3>4 DEF Carries
  <2> QED
    BY <2>2
<1>8. CASE call' = [call EXCEPT ![c] = Idle]
  <2>1. call'[c] = Idle /\ \A d \in Calls : d # c => call'[d] = call[d]
    BY <1>8, TypeParts DEF CallType
  <2>2. running' /\ q \notin raced' => NoneStale(q)'
    BY <1>1, <1>7, <2>1, PendingKinds DEF NoneStale
  <2>3. running' => q \in unread'
    <3>1. ASSUME running,
                 call' = [call EXCEPT ![c] = [@ EXCEPT !.at = "waiting", !.waits = Stopped({q}),
                                                     !.is = cq[q].is, !.interval = cq[q].interval]]
          PROVE  FALSE
      <4>1. call'[c].on = {q} /\ call'[c].op = "update"
        BY <1>1, <3>1, RestartOf, TypeParts DEF CallType
      <4> QED
        BY <2>1, <4>1 DEF Idle
    <3> QED
      BY <1>1, <3>1 DEF ReloadCQ
  <2>4. running' => AtRest(q)'
    BY <2>3 DEF AtRest
  <2>5. \A p \in CQs : ~Pending(Idle, p)
    BY PendingKinds
  <2> QED
    BY <1>1, <1>2, <1>4, <1>6, <1>8, <2>2, <2>4, <2>5, OneRequest
<1>9. CASE /\ running
           /\ call' = [call EXCEPT ![c] = [@ EXCEPT !.at = "waiting", !.waits = Stopped({q}),
                                                     !.is = cq[q].is, !.interval = cq[q].interval]]
  <2> DEFINE r == [call[c] EXCEPT !.at = "waiting", !.waits = Stopped({q}),
                                  !.is = cq[q].is, !.interval = cq[q].interval]
  <2>1. call' = [call EXCEPT ![c] = r]
    BY <1>9
  <2>2. r.op = "update" /\ r.at = "waiting" /\ r.on = {q} /\ r.is = cq[q].is
        /\ r.interval = cq[q].interval
    BY <1>1, RestartOf
  <2> HIDE DEF r
  <2>3. call'[c] = r /\ \A d \in Calls : d # c => call'[d] = call[d]
    BY <2>1, TypeParts DEF CallType
  <2>4. Pending(r, q) /\ Carried(r, cq[q]) /\ \A p \in CQs : p # q => ~Pending(r, p)
    BY <2>2 DEF Pending, Carried
  <2>5. q \notin raced' => NoneStale(q)'
    BY <1>1, <1>7, <1>9, <2>3, <2>4 DEF NoneStale
  <2>6. AtRest(q)'
    BY <2>3, <2>4 DEF AtRest
  <2> QED
    BY <1>1, <1>2, <1>4, <1>6, <2>1, <2>4, <2>5, <2>6, OneRequest
<1> QED
  BY <1>8, <1>9 DEF ReloadCQ

\* Before a restart ends, nobody has told the query's goroutine to stop but those who wait.
LEMMA NoneInMap ==
    ASSUME SCTypeOK, RestartInv, NEW c \in Calls, NEW q \in CQs, Restarter(call[c], q)
    PROVE  running /\ (q \notin raced => jobs[q] = None)
<1>1. c \in Restarting(q)
  BY RestartingDef
<1> QED
  BY <1>1 DEF RestartInv, Single

\* The definition that was waited for is started, when nothing newer is about to be.
LEMMA StoredStartReplacement ==
    ASSUME SCTypeOK, RestartInv, StoredInv, NEW c \in Calls, NEW q \in CQs, StartReplacement(c, q)
    PROVE  StoredInv'
<1>1. /\ call[c].op \in {"create", "update"} /\ call[c].at = "waiting" /\ q \in call[c].on
      /\ call' = [call EXCEPT ![c] = Idle] /\ UNCHANGED <<cq, running, raced, unread>>
  BY DEF StartReplacement, table
<1>2. call'[c] = Idle /\ \A d \in Calls : d # c => call'[d] = call[d]
  BY <1>1, TypeParts DEF CallType
<1>3. /\ Pending(call[c], q) /\ Carries(call[c], q) /\ ~Reloads(call[c], q)
      /\ \A p \in CQs : p # q => ~Pending(call[c], p)
  BY <1>1, RestartOf DEF Carries, Reloads
<1>4. running /\ (q \notin raced => jobs[q] = None)
  BY <1>1, NoneInMap DEF Restarter
<1>5. /\ call[c].is = "active" /\ call[c].interval # Bad =>
            jobs'[q] # None /\ job'[q][jobs'[q]].interval = call[c].interval
      /\ ~(call[c].is = "active" /\ call[c].interval # Bad) => jobs'[q] = jobs[q]
      /\ \A p \in CQs : p # q => jobs'[p] = jobs[p] /\ job'[p] = job[p]
  <2>1. CASE call[c].is = "active"
    <3> DEFINE intervals == [p \in {q} |-> call[c].interval]
    <3>1. StartJobs(intervals) /\ DOMAIN intervals = {q} /\ intervals[q] = call[c].interval
      BY <2>1 DEF StartReplacement
    <3> HIDE DEF intervals
    <3>2. DOMAIN intervals \subseteq CQs
      BY <3>1
    <3> QED
      BY <2>1, <3>1, <3>2, StartJobsMap
  <2>2. CASE call[c].is # "active"
    BY <2>2 DEF StartReplacement
  <2> QED
    BY <2>1, <2>2
<1>6. NoRequest(q)'
  <2>1. SameRow(q) /\ NoRequest(q) /\ \A d \in Calls : call'[d] = call[d] \/ call'[d] = Idle
    BY <1>1, <1>2 DEF SameRow, StoredInv
  <2> QED
    BY <2>1, RequestEnds
<1>7. ASSUME q \notin raced PROVE NoneStale(q)' /\ AtRest(q)'
  <2>1. NoneStale(q)
    BY <1>4, <1>7 DEF StoredInv
  <2>2. NoneStale(q)'
    BY <1>1, <1>2, <1>3, <2>1, PendingKinds DEF NoneStale
  <2>3. ASSUME \A d \in Calls : ~Pending(call'[d], q) PROVE Scheduled(q)'
    <3>1. \A d \in Calls : ~Reloads(call[d], q)
      BY <1>2, <1>3, <2>3, PendingKinds
    <3>2. Carried(call[c], cq[q])
      BY <1>3, <2>1, <3>1 DEF NoneStale
    <3> QED
      BY <1>1, <1>4, <1>5, <1>7, <3>2 DEF Carried, Scheduled
  <2> QED
    BY <2>2, <2>3 DEF AtRest
<1>8. \A p \in CQs : ~Pending(Idle, p)
  BY PendingKinds
<1> QED
  BY <1>1, <1>3, <1>5, <1>6, <1>7, <1>8, OneRequest

LEMMA StoredReloadAll ==
    ASSUME SCTypeOK, StoredInv, NEW c \in Calls, ReloadAll(c)
    PROVE  StoredInv'
<1> DEFINE r == [op |-> "all", at |-> "waiting", on |-> CQs, waits |-> Stopped(CQs)]
<1>1. call' = [call EXCEPT ![c] = r]
  BY DEF ReloadAll
<1>2. UNCHANGED <<cq, running, unread>> /\ raced \subseteq raced' /\ call[c] = Idle
  BY DEF ReloadAll, Accepts, table
<1>3. \A p \in CQs : Pending(r, p) /\ ~Carries(r, p) /\ ~Reloads(r, p)
  BY DEF Pending, Carries, Reloads
<1> HIDE DEF r
<1>4. call'[c] = r /\ \A d \in Calls : d # c => call'[d] = call[d]
  BY <1>1, TypeParts DEF CallType
<1>5. \A p \in CQs, d \in Calls : /\ Reloads(call'[d], p) <=> Reloads(call[d], p)
                                  /\ Carries(call'[d], p) <=> Carries(call[d], p)
                                  /\ Carries(call[d], p) => call'[d] = call[d]
  BY <1>2, <1>3, <1>4, PendingKinds
<1>6. \A p \in CQs : NoRequest(p) => NoRequest(p)'
  BY <1>2, <1>5 DEF NoRequest
<1>7. \A p \in CQs : NoneStale(p) => NoneStale(p)'
  BY <1>2, <1>5 DEF NoneStale
<1>8. \A p \in CQs : AtRest(p)'
  BY <1>3, <1>4 DEF AtRest
<1> QED
  BY <1>2, <1>6, <1>7, <1>8 DEF StoredInv

LEMMA StoredStartAll ==
    ASSUME SCTypeOK, RestartInv, StoredInv, NEW c \in Calls, StartAll(c)
    PROVE  StoredInv'
<1>1. /\ call[c].op = "all" /\ call' = [call EXCEPT ![c] = Idle] /\ UNCHANGED <<cq, running, raced>>
  BY DEF StartAll, table
<1>2. call'[c] = Idle /\ \A d \in Calls : d # c => call'[d] = call[d]
  BY <1>1, TypeParts DEF CallType
<1>3. call[c].at = "waiting" /\ call[c].on = CQs
  BY <1>1, RequestShapes, TypeParts DEF CallType, RestartsOfAll
<1>4. \A p \in CQs : ~Carries(call[c], p) /\ ~Reloads(call[c], p) /\ Restarter(call[c], p)
  BY <1>1, <1>3 DEF Carries, Reloads, Restarter
<1>5. \A p \in CQs, d \in Calls : /\ Reloads(call'[d], p) <=> Reloads(call[d], p)
                                  /\ Carries(call'[d], p) <=> Carries(call[d], p)
                                  /\ Carries(call[d], p) => call'[d] = call[d]
  BY <1>2, <1>4, PendingKinds
<1>6. \A p \in CQs : NoRequest(p) => NoRequest(p)'
  BY <1>1, <1>5 DEF NoRequest
<1>7. \A p \in CQs : NoneStale(p) => NoneStale(p)'
  BY <1>1, <1>5 DEF NoneStale
<1>8. ASSUME NEW p \in CQs, p \notin raced, p \notin unread' PROVE Scheduled(p)'
  <2>1. StartJobs([q \in Active |-> cq[q].interval])
    BY <1>8 DEF StartAll
  <2>2. jobs[p] = None
    BY <1>4, <1>8, NoneInMap
  <2> DEFINE intervals == [q \in Active |-> cq[q].interval]
  <2>3. /\ StartJobs(intervals) /\ DOMAIN intervals = Active
        /\ \A q \in Active : intervals[q] = cq[q].interval
    BY <2>1
  <2> HIDE DEF intervals
  <2>4. DOMAIN intervals \subseteq CQs
    BY <2>3 DEF Active
  <2>5. /\ p \in Active /\ cq[p].interval # Bad =>
              jobs'[p] # None /\ job'[p][jobs'[p]].interval = cq[p].interval
        /\ ~(p \in Active /\ cq[p].interval # Bad) => jobs'[p] = jobs[p]
    BY <2>3, <2>4, StartJobsMap
  <2> QED
    BY <1>1, <2>2, <2>5 DEF Scheduled, Active
<1>9. \A p \in CQs : p \notin raced => AtRest(p)'
  BY <1>8 DEF AtRest
<1> QED
  BY <1>1, <1>6, <1>7, <1>9 DEF StoredInv

\* The goroutine that ends is not the one in the map.
LEMMA StoredExits ==
    ASSUME SCTypeOK, RestartInv, StoredInv, NEW q \in CQs, NEW k \in Slots, JobExits(q, k)
    PROVE  StoredInv'
<1>1. UNCHANGED <<jobs, unread, running, raced, cq>> /\ job[q][k].stop /\ job' = [job EXCEPT ![q][k] = Free]
  BY DEF JobExits, table
<1>2. \A p \in CQs : SameRow(p)
  BY <1>1 DEF SameRow
<1>3. ASSUME NEW p \in CQs, NEW c \in Calls PROVE SameRequest(call[c], call'[c], p)
  <2>1. CASE call[c].op \in {"create", "update", "all"}
    <3>1. call[c] \in Restarts \union RestartsOfAll
      BY <2>1, RequestShapes, TypeParts DEF CallType
    <3>2. call'[c] = [call[c] EXCEPT !.waits = @ \ {<<q, k>>}]
      BY <2>1 DEF JobExits
    <3>3. /\ call'[c].op = call[c].op /\ call'[c].at = call[c].at /\ call'[c].on = call[c].on
          /\ call[c].op # "all" => call'[c].is = call[c].is /\ call'[c].interval = call[c].interval
      BY <3>1, <3>2 DEF Restarts, RestartsOfAll
    <3> QED
      BY <3>3 DEF SameRequest, Reloads, Carries, Pending
  <2>2. CASE call[c].op \notin {"create", "update", "all"}
    <3>1. call'[c] = call[c]
      BY <2>2 DEF JobExits
    <3> QED
      BY <3>1 DEF SameRequest
  <2> QED
    BY <2>1, <2>2
<1>4. ASSUME NEW p \in CQs \ raced, jobs[p] # None
      PROVE  job'[p][jobs[p]].interval = job[p][jobs[p]].interval
  <2>1. jobs[p] \in Slots /\ ~job[p][jobs[p]].stop
    BY <1>4, TypeParts DEF RestartInv, Single, JobsType
  <2>2. <<p, jobs[p]>> # <<q, k>>
    BY <1>1, <2>1
  <2>3. job'[p][jobs[p]] = job[p][jobs[p]]
    BY <1>1, <2>1, <2>2, TypeParts DEF JobsType
  <2> QED
    BY <2>3
<1> QED
  BY <1>1, <1>2, <1>3, <1>4, SameStored

\* A step that changes no row but its last_processed_time, no request about one, and of a
\* goroutine only what it executes.
LEMMA SameSchedule ==
    ASSUME SCTypeOK, StoredInv, UNCHANGED <<jobs, running, raced, unread>>,
           \A q \in CQs : SameRow(q),
           \A q \in CQs, c \in Calls :
              call'[c] = call[c] \/ (~Pending(call[c], q) /\ ~Pending(call'[c], q)),
           \A q \in CQs, k \in Slots : job'[q][k].interval = job[q][k].interval
    PROVE  StoredInv'
<1>1. \A r, q : SameRequest(r, r, q)
  BY DEF SameRequest
<1>2. \A q \in CQs, c \in Calls : SameRequest(call[c], call'[c], q)
  BY <1>1, NotPending
<1>3. \A q \in CQs \ raced' : jobs[q] # None =>
         job'[q][jobs[q]].interval = job[q][jobs[q]].interval
  BY TypeParts DEF JobsType
<1> QED
  BY <1>2, <1>3, SameStored

\* No request about a row begins or ends.
LEMMA OtherCall ==
    ASSUME SCTypeOK, NEW c \in Calls, NEW r, call' = [call EXCEPT ![c] = r],
           call[c] \in {Idle, [op |-> "trigger"]} \union Executions,
           r \in {Idle, [op |-> "trigger"]} \union Executions
    PROVE  \A q \in CQs, d \in Calls :
              call'[d] = call[d] \/ (~Pending(call[d], q) /\ ~Pending(call'[d], q))
<1>1. call'[c] = r /\ \A d \in Calls : d # c => call'[d] = call[d]
  BY TypeParts DEF CallType
<1>2. \A q \in CQs : ~Pending(call[c], q) /\ ~Pending(r, q)
  BY PendingKinds
<1> QED
  BY <1>1, <1>2

LEMMA RecordedRow ==
    ASSUME SCTypeOK, NEW q \in CQs, NEW w, NEW ok, recordExecutionAndUpdateTime(q, w, ok)
    PROVE  \A p \in CQs : SameRow(p)
<1>1. \A p \in CQs : cq[p] \in [is : {"absent", "active", "inactive", "deleted"},
                                interval : Intervals \union {Bad}, last : Int]
  BY TypeParts DEF TableType
<1>2. \A p \in CQs : cq'[p] = cq[p] \/ cq'[p] = [cq[p] EXCEPT !.last = w[2]]
  BY TypeParts DEF recordExecutionAndUpdateTime, TableType
<1> QED
  BY <1>1, <1>2 DEF SameRow

\* Executions of goroutines.
LEMMA StoredJobs ==
    ASSUME SCTypeOK, StoredInv, NEW q \in CQs, NEW k \in Slots,
           Tick(q, k) \/ JobAggregates(q, k) \/ JobRecords(q, k)
    PROVE  StoredInv'
<1>1. job[q][k] \in Goroutines
  BY TypeParts DEF JobsType
<1>2. UNCHANGED <<jobs, running, raced, unread, call>>
  BY DEF Tick, ExecuteCQ, JobAggregates, JobRecords, executeAggregation,
         recordExecutionAndUpdateTime
<1>3. \A p \in CQs : SameRow(p)
  <2>1. CASE Tick(q, k) \/ JobAggregates(q, k)
    BY <2>1 DEF Tick, ExecuteCQ, JobAggregates, executeAggregation, SameRow
  <2>2. CASE JobRecords(q, k)
    BY <2>2, RecordedRow DEF JobRecords
  <2> QED
    BY <2>1, <2>2
<1>4. PICK g : job' = [job EXCEPT ![q][k] = g] /\ g.interval = job[q][k].interval
  <2>1. CASE Tick(q, k)
    <3>1. /\ [job[q][k] EXCEPT !.at = "query", !.due = FALSE, !.from = From(q), !.to = now].interval
                = job[q][k].interval
          /\ [job[q][k] EXCEPT !.due = FALSE].interval = job[q][k].interval
      BY <1>1 DEF Goroutines
    <3> QED
      BY <2>1, <3>1 DEF Tick, ExecuteCQ
  <2>2. CASE JobAggregates(q, k)
    <3>1. \A at : [job[q][k] EXCEPT !.at = at].interval = job[q][k].interval
      BY <1>1 DEF Goroutines
    <3> QED
      BY <2>2, <3>1 DEF JobAggregates
  <2>3. CASE JobRecords(q, k)
    <3>1. [job[q][k] EXCEPT !.at = "select", !.from = 0, !.to = 0].interval = job[q][k].interval
      BY <1>1 DEF Goroutines
    <3> QED
      BY <2>3, <3>1 DEF JobRecords
  <2> QED
    BY <2>1, <2>2, <2>3
<1>5. \A p \in CQs, l \in Slots : job'[p][l].interval = job[p][l].interval
  BY <1>4, TypeParts DEF JobsType
<1> QED
  BY <1>2, <1>3, <1>5, SameSchedule

\* Executions and retention cycles of the API.
LEMMA StoredOtherCalls ==
    ASSUME SCTypeOK, StoredInv, NEW c \in Calls
    PROVE  /\ \A q \in CQs : handleExecute(c, q) \/ CallAggregates(c, q) \/ CallRecords(c, q)
                             => StoredInv'
           /\ TriggerNow(c) \/ TriggerReturns(c) => StoredInv'
<1>1. ASSUME UNCHANGED scheduler, \A q \in CQs : SameRow(q),
             NEW r, call' = [call EXCEPT ![c] = r],
             call[c] \in {Idle, [op |-> "trigger"]} \union Executions,
             r \in {Idle, [op |-> "trigger"]} \union Executions
      PROVE  StoredInv'
  <2>1. UNCHANGED <<jobs, running, raced, unread>>
        /\ \A q \in CQs, k \in Slots : job'[q][k].interval = job[q][k].interval
    BY <1>1 DEF scheduler
  <2>2. \A q \in CQs, d \in Calls :
           call'[d] = call[d] \/ (~Pending(call[d], q) /\ ~Pending(call'[d], q))
    BY <1>1, OtherCall
  <2> QED
    BY <1>1, <2>1, <2>2, SameSchedule
<1>2. UNCHANGED cq => \A q \in CQs : SameRow(q)
  BY DEF SameRow
<1>3. ASSUME NEW q \in CQs, handleExecute(c, q) PROVE StoredInv'
  <2>1. PICK w \in {<<From(q), now>>} \union ({-LookBack} \X (1 .. MaxTime)) :
            call' = [call EXCEPT ![c] = [op |-> "execute", at |-> "query", q |-> q, w |-> w]]
    BY Zenon, <1>3 DEF handleExecute
  <2>2. w \in Int \X Int
    BY FromType, TypeParts, Constants, SchedulerConstants DEF TableType
  <2>3. [op |-> "execute", at |-> "query", q |-> q, w |-> w] \in Executions
    BY <2>2 DEF Executions
  <2>4. UNCHANGED scheduler /\ UNCHANGED cq /\ call[c] = Idle
    BY <1>3 DEF handleExecute, Accepts
  <2> QED
    BY <1>1, <1>2, <2>1, <2>3, <2>4
<1>4. ASSUME NEW q \in CQs, CallAggregates(c, q) \/ CallRecords(c, q) PROVE StoredInv'
  <2>1. call[c] \in Executions
    BY <1>4, RequestShapes, TypeParts DEF CallAggregates, CallRecords, Manual, CallType
  <2>2. [call[c] EXCEPT !.at = "record"] \in Executions
    BY <2>1 DEF Executions
  <2>3. PICK r \in Executions \union {Idle} : call' = [call EXCEPT ![c] = r]
    BY <1>4, <2>2 DEF CallAggregates, CallRecords
  <2>4. UNCHANGED scheduler
    BY <1>4 DEF CallAggregates, CallRecords, executeAggregation, recordExecutionAndUpdateTime,
                scheduler
  <2>5. \A p \in CQs : SameRow(p)
    <3>1. CASE CallAggregates(c, q)
      BY <1>2, <3>1 DEF CallAggregates, executeAggregation
    <3>2. CASE CallRecords(c, q)
      BY <3>2, RecordedRow DEF CallRecords
    <3> QED
      BY <1>4, <3>1, <3>2
  <2> QED
    BY <1>1, <2>1, <2>3, <2>4, <2>5
<1>5. ASSUME TriggerNow(c) PROVE StoredInv'
  <2>1. UNCHANGED scheduler /\ UNCHANGED cq /\ call[c] = Idle
        /\ call' = [call EXCEPT ![c] = [op |-> "trigger"]]
    BY <1>5 DEF TriggerNow, Accepts, table
  <2> QED
    BY <1>1, <1>2, <2>1
<1>6. ASSUME TriggerReturns(c) PROVE StoredInv'
  <2>1. UNCHANGED scheduler /\ UNCHANGED cq /\ call' = [call EXCEPT ![c] = Idle]
    BY <1>6 DEF TriggerReturns, table
  <2>2. call[c] \in {Idle, [op |-> "trigger"]} \union Executions
    BY <1>6, TypeParts DEF TriggerReturns, CallType, Requests, Restarts, RestartsOfAll
  <2> QED
    BY <1>1, <1>2, <2>1, <2>2
<1> QED
  BY <1>3, <1>4, <1>5, <1>6

LEMMA StoredInit == Init => StoredInv
<1> SUFFICES ASSUME Init PROVE StoredInv
  OBVIOUS
<1>1. \A c \in Calls : \A q : ~Pending(call[c], q)
  BY PendingKinds DEF Init
<1>2. \A c \in Calls : \A q : ~Reloads(call[c], q) /\ ~Carries(call[c], q)
  BY <1>1, PendingKinds
<1>3. ASSUME NEW q \in CQs PROVE Scheduled(q)
  <2>1. Any(Slots) \in Slots /\ None \notin Slots
    BY AnyOf, Constants
  <2>2. /\ jobs[q] = IF cq[q].is = "active" THEN Any(Slots) ELSE None
        /\ job[q] = [k \in Slots |-> IF k = jobs[q] THEN Started(cq[q].interval) ELSE Free]
    BY DEF Init, Active
  <2>3. \A i : Started(i).interval = i
    BY DEF Started, Free
  <2>4. cq[q].is = "active" => cq[q].interval # Bad
    <3>1. PICK A \in SUBSET CQs :
             \E R \in SUBSET A :
               cq = [p \in CQs |-> [is |-> IF p \in A THEN "active" ELSE "absent",
                                    interval |-> IF p \in A THEN Any(Intervals) ELSE Bad,
                                    last |-> IF p \in R THEN LookBack ELSE None]]
      BY Zenon DEF Init
    <3>2. Any(Intervals) \in Intervals /\ Bad \notin Intervals
      BY AnyOf, SchedulerConstants
    <3> QED
      BY <3>1, <3>2
  <2> QED
    BY <2>1, <2>2, <2>3, <2>4 DEF Scheduled
<1> QED
  BY <1>2, <1>3 DEF StoredInv, NoRequest, NoneStale, AtRest

\* The scheduler is stopped, or the process starts again.
LEMMA StoredBoots ==
    ASSUME SCTypeOK, StoredInv, StopCQ \/ Restart
    PROVE  StoredInv'
<1>1. CASE StopCQ
  <2>1. UNCHANGED <<cq, call>> /\ ~running'
    BY <1>1 DEF StopCQ, table
  <2> QED
    BY <2>1 DEF StoredInv, NoRequest
<1>2. CASE Restart
  <2>1. UNCHANGED cq /\ \A c \in Calls : call'[c] = Idle
    BY <1>2 DEF Restart, table
  <2>2. \A c \in Calls : \A q : ~Pending(call'[c], q) /\ ~Reloads(call'[c], q) /\ ~Carries(call'[c], q)
    BY <2>1, PendingKinds
  <2>3. ASSUME NEW q \in CQs, running' PROVE Scheduled(q)'
    <3>1. Any(Slots) \in Slots /\ None \notin Slots
      BY AnyOf, Constants
    <3>2. /\ jobs'[q] = IF q \in Active /\ cq[q].interval # Bad THEN Any(Slots) ELSE None
          /\ job'[q] = [k \in Slots |-> IF k = jobs'[q] THEN Started(cq[q].interval) ELSE Free]
      BY <1>2, <2>3 DEF Restart, BootJobs
    <3>3. \A i : Started(i).interval = i
      BY DEF Started, Free
    <3> QED
      BY <2>1, <3>1, <3>2, <3>3 DEF Scheduled, Active
  <2> QED
    BY <2>2, <2>3 DEF StoredInv, NoRequest, NoneStale, AtRest
<1> QED
  BY <1>1, <1>2

LEMMA StoredNext == SCTypeOK /\ RestartInv /\ StoredInv /\ [Next]_vars => StoredInv'
<1> SUFFICES ASSUME SCTypeOK, RestartInv, StoredInv, [Next]_vars PROVE StoredInv'
  OBVIOUS
<1>1. ASSUME UNCHANGED <<table, scheduler, call>> PROVE StoredInv'
  <2>1. \A q \in CQs : SameRow(q)
    BY <1>1 DEF table, SameRow
  <2> QED
    BY <1>1, <2>1, SameSchedule DEF scheduler
<1>2. ASSUME NEW c \in Calls, NEW q \in CQs,
             handleCreate(c, q) \/ handleUpdate(c, q) \/ handleDelete(c, q) \/ handleExecute(c, q)
      PROVE  StoredInv'
  BY <1>2, StoredRequests, StoredDelete, StoredOtherCalls
<1>3. ASSUME NEW c \in Calls, ReloadAll(c) \/ TriggerNow(c) \/ Handler(c) PROVE StoredInv'
  BY <1>3, StoredReloadAll, StoredStartAll, StoredStartJobDirect, StoredReloadCQ,
     StoredStartReplacement, StoredOtherCalls DEF Handler
<1>4. ASSUME NEW q \in CQs, NEW k \in Slots, Tick(q, k) \/ Goroutine(q, k) PROVE StoredInv'
  BY <1>4, StoredJobs, StoredExits DEF Goroutine
<1>5. ASSUME NEW x \in Crons, CronFires(x) \/ runRetention(x) PROVE StoredInv'
  BY <1>1, <1>5 DEF CronFires, runRetention
<1>6. ASSUME BeginShutdown \/ CQStopped \/ StopRetention \/ RetentionStopped PROVE StoredInv'
  BY <1>1, <1>6 DEF BeginShutdown, CQStopped, StopRetention, RetentionStopped
<1>7. ASSUME LicenseChanges \/ RoleChanges \/ TimePasses PROVE StoredInv'
  BY <1>1, <1>7 DEF LicenseChanges, RoleChanges, TimePasses
<1>8. CASE UNCHANGED vars
  BY <1>1, <1>8 DEF vars
<1> QED
  BY <1>2, <1>3, <1>4, <1>5, <1>6, <1>7, <1>8, StoredBoots DEF Next, Stops

LEMMA ScheduledFollows == StoredInv => ScheduledAsStored
<1> SUFFICES ASSUME StoredInv, running, NEW q \in CQs \ (raced \union unread),
                    \A c \in Calls : call[c].op \in {"create", "update", "all"} => q \notin call[c].on
             PROVE  /\ (q \in Active /\ cq[q].interval # Bad) =>
                          jobs[q] # None /\ job[q][jobs[q]].interval = cq[q].interval
                    /\ (cq[q].is = "inactive" \/ (q \in Active /\ cq[q].interval = Bad)) => jobs[q] = None
  BY DEF ScheduledAsStored
<1>1. \A c \in Calls : ~Pending(call[c], q)
  BY DEF Pending
<1>2. Scheduled(q)
  BY <1>1 DEF StoredInv, AtRest
<1> QED
  BY <1>2 DEF Scheduled, Active

(* With no request under way the scheduler runs what the table says: when a *)
(* restart of a query ends, whoever holds a definition of it holds the one  *)
(* of the table, unless a newer request is still to read it (ReloadCQ and   *)
(* StartJobDirect of cq_scheduler.go).  For every number of queries,        *)
(* handlers, intervals and requests.                                        *)
THEOREM ScheduledAsStoredCorrect == Spec => []ScheduledAsStored
<1>1. Init => SCTypeOK /\ RestartInv /\ StoredInv
  BY TypeInit, RestartInit, StoredInit
<1>2. SCTypeOK /\ RestartInv /\ StoredInv /\ [Next]_vars => (SCTypeOK /\ RestartInv /\ StoredInv)'
  BY TypeNext, RestartNext, StoredNext
<1> QED
  BY <1>1, <1>2, ScheduledFollows, PTL DEF Spec
=============================================================================
