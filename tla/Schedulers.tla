----------------------------- MODULE Schedulers -----------------------------
(* The schedulers of continuous queries and of retention on one node, the   *)
(* API calls that create, change, delete, reload and execute, and what the  *)
(* shutdown coordinator does with them.  scheduler/*.go,                    *)
(* api/continuous_query.go, api/scheduler.go and their wiring in main.go.   *)
(* A window is a pair of ticks, its start included and its end not.  The    *)
(* source rows of a window are in storage when it is computed, and results  *)
(* that reached the buffer stay.                                            *)
EXTENDS Integers, FiniteSets, FiniteSetsExt

CONSTANTS
    CQs, Calls,         \* rows of continuous_queries; handlers of API requests
    Crons,              \* goroutines of the cron library
    Intervals, Bad,     \* intervals that parse; one that does not
    None,               \* no goroutine, no time
    Slots,              \* bound: goroutines of one query at the same time
    LookBack,           \* the hour of the first window
    MaxTime, MaxEvents  \* bounds: the clock; requests, firings, crashes and changes of role

ASSUME SchedulerConstants ==
    /\ Slots # {} /\ Slots \subseteq Nat \ {0}
    /\ Intervals # {} /\ Intervals \subseteq Nat \ {0}
    /\ Calls \cap Crons = {}
    /\ Bad = 0 /\ None = 0 /\ LookBack \in Nat \ {0} /\ MaxTime \in Nat

VARIABLES
    now, events,
    cq,                 \* the table: state, interval, last_processed_time
    written,            \* history: windows in the destination, kept while the query is regular
    jobs,               \* CQScheduler.jobs: the goroutine of each query
    job,                \* job[q][k]: a goroutine in runJob, see Free
    running,            \* CQScheduler.running
    call,               \* what the handlers are at
    licensed, primary,
    cron,               \* RetentionScheduler.running
    mu,                 \* RetentionScheduler.mu is held by Stop
    runningJob,
    cycle,              \* the cron goroutines in runRetention
    shutdown, cqStop, retentionStop,
    raced,              \* history: restarts of the query overlapped, or one did not wait
    unread,             \* history: the last restart could not read the query
    irregular           \* history: the windows of the query need not meet

table == <<cq, written, irregular>>
scheduler == <<jobs, job, running, raced, unread>>
retention == <<cron, mu, runningJob, cycle>>
stops == <<shutdown, cqStop, retentionStop>>
vars == <<now, events, table, scheduler, call, licensed, primary, retention, stops>>

Any(S) == CHOOSE x \in S : TRUE
Event == events < MaxEvents /\ events' = events + 1

\* due: the ticker had fired when the goroutine was told to stop.
Free == [at |-> "free", stop |-> FALSE, due |-> FALSE, interval |-> Bad, from |-> 0, to |-> 0]
Started(i) == [Free EXCEPT !.at = "select", !.interval = i]
Idle == [op |-> "none"]
Live(q) == {k \in Slots : job[q][k].at # "free"}
Executing(q) == {k \in Slots : job[q][k].at \in {"query", "record"}}
Manual(q) == {c \in Calls : call[c].op = "execute" /\ call[c].q = q}
Active == {q \in CQs : cq[q].is = "active"}

\* The calls between stopping the job of q and starting the next.
Restarting(q) ==
    {c \in Calls : call[c].op \in {"create", "update", "all"} /\ call[c].at = "waiting"
                   /\ q \in call[c].on}

BootJobs(ok) ==
    /\ running' = ok
    /\ jobs' = [q \in CQs |-> IF ok /\ q \in Active /\ cq[q].interval # Bad THEN Any(Slots) ELSE None]
    /\ job' = [q \in CQs |-> [k \in Slots |->
                  IF k = jobs'[q] THEN Started(cq[q].interval) ELSE Free]]

Init ==
    /\ now = LookBack + 1 /\ events = 0 /\ licensed = TRUE /\ primary = TRUE
    /\ \E A \in SUBSET CQs : \E R \in SUBSET A :
          /\ cq = [q \in CQs |-> [is |-> IF q \in A THEN "active" ELSE "absent",
                                  interval |-> IF q \in A THEN Any(Intervals) ELSE Bad,
                                  last |-> IF q \in R THEN LookBack ELSE None]]
          /\ written = [q \in CQs |-> IF q \in R THEN {<<0, LookBack>>} ELSE {}]
    /\ irregular = {} /\ raced = {} /\ unread = {}
    /\ running = TRUE
    /\ jobs = [q \in CQs |-> IF q \in Active THEN Any(Slots) ELSE None]
    /\ job = [q \in CQs |-> [k \in Slots |-> IF k = jobs[q] THEN Started(cq[q].interval) ELSE Free]]
    /\ call = [c \in Calls |-> Idle]
    /\ cron = TRUE /\ mu = FALSE /\ runningJob = FALSE /\ cycle = [x \in Crons |-> "idle"]
    /\ shutdown = FALSE /\ cqStop = "no" /\ retentionStop = "no"

---------------------------------------------------------------------------
(* Starting and stopping the goroutine of a query, under CQScheduler.mu. *)

\* D: the queries whose ticker has fired.
StopJobs(Q, D) ==
    /\ jobs' = [q \in CQs |-> IF q \in Q THEN None ELSE jobs[q]]
    /\ job' = [q \in CQs |-> [k \in Slots |->
                  IF q \in Q /\ k = jobs[q]
                  THEN [job[q][k] EXCEPT !.stop = TRUE, !.due = q \in D] ELSE job[q][k]]]

Unawaited(Q) == {}  \* variant of the next

\* The done channels StopJobs returns.
Stopped(Q) == {<<q, jobs[q]>> : q \in {q \in Q : jobs[q] # None}}

StartJobs(intervals) ==
    LET Q == {q \in DOMAIN intervals : intervals[q] # Bad}
        slot(q) == Any(Slots \ Live(q))
    IN  /\ \A q \in Q : Live(q) # Slots
        /\ jobs' = [q \in CQs |-> IF q \in Q THEN slot(q) ELSE jobs[q]]
        /\ job' = [q \in CQs |-> [k \in Slots |->
                      IF q \in Q /\ k = slot(q) THEN Started(intervals[q]) ELSE job[q][k]]]

---------------------------------------------------------------------------
(* The API: one request per call. *)

Accepts(c) == ~shutdown /\ call[c] = Idle /\ Event

handleCreate(c, q) ==
    /\ Accepts(c) /\ cq[q].is = "absent"
    /\ \E is \in {"active", "inactive"}, i \in Intervals \union {Bad} :
          /\ cq' = [cq EXCEPT ![q] = [is |-> is, interval |-> i, last |-> None]]
          /\ call' = [call EXCEPT ![c] = [op |-> "create", at |-> "begin", on |-> {q}, is |-> is,
                                          interval |-> i, waits |-> {}]]
    /\ UNCHANGED <<now, written, irregular, scheduler, licensed, primary, retention, stops>>

handleUpdate(c, q) ==
    /\ Accepts(c) /\ cq[q].is \in {"active", "inactive"}
    /\ \E is \in {"active", "inactive"}, i \in Intervals \union {Bad} :
          cq' = [cq EXCEPT ![q] = [@ EXCEPT !.is = is, !.interval = i]]
    /\ call' = [call EXCEPT ![c] = [op |-> "update", at |-> "begin", on |-> {q}, is |-> "inactive",
                                    interval |-> Bad, waits |-> {}]]
    /\ UNCHANGED <<now, written, irregular, scheduler, licensed, primary, retention, stops>>

\* The scheduler is not told.
handleDelete(c, q) ==
    /\ Accepts(c) /\ cq[q].is \in {"active", "inactive"}
    /\ cq' = [cq EXCEPT ![q] = [is |-> "deleted", interval |-> Bad, last |-> None]]
    /\ UNCHANGED <<now, written, irregular, scheduler, call, licensed, primary, retention, stops>>

Races(c, q) ==
    \/ Restarting(q) \ {c} # {}
    \/ call[c].op = "update" /\ \E d \in Calls : call[d].op = "create" /\ call[d].on = {q}

StartJobDirect(c, q) ==
    /\ call[c].op = "create" /\ call[c].at = "begin" /\ q \in call[c].on
    /\ IF running
       THEN /\ \E D \in SUBSET {q} : StopJobs({q}, D)
            /\ call' = [call EXCEPT ![c] = [@ EXCEPT !.at = "waiting", !.waits = Stopped({q})]]
            /\ raced' = IF Races(c, q) THEN raced \union {q} ELSE raced
            /\ unread' = unread \ {q}
       ELSE call' = [call EXCEPT ![c] = Idle] /\ UNCHANGED <<jobs, job, raced, unread>>
    /\ UNCHANGED <<now, events, table, running, licensed, primary, retention, stops>>

\* The definition is read under the same lock that stops the old goroutine; if that
\* fails nobody waits for this goroutine.
ReloadCQ(c, q) ==
    /\ call[c].op = "update" /\ call[c].at = "begin" /\ q \in call[c].on
    /\ IF running
       THEN /\ \E D \in SUBSET {q} : StopJobs({q}, D)
            /\ \/ /\ cq[q].is # "deleted"
                  /\ call' = [call EXCEPT ![c] = [@ EXCEPT !.at = "waiting", !.waits = Stopped({q}),
                                                     !.is = cq[q].is, !.interval = cq[q].interval]]
                  /\ unread' = unread \ {q}
                  /\ raced' = IF Races(c, q) THEN raced \union {q} ELSE raced
               \/ /\ call' = [call EXCEPT ![c] = Idle] /\ unread' = unread \union {q}
                  /\ raced' = IF jobs[q] # None \/ Races(c, q) THEN raced \union {q} ELSE raced
       ELSE call' = [call EXCEPT ![c] = Idle] /\ UNCHANGED <<jobs, job, raced, unread>>
    /\ UNCHANGED <<now, events, table, running, licensed, primary, retention, stops>>

StartReplacementAnyway(c, q) ==  \* variant: also of an inactive query
    /\ call[c].op \in {"create", "update"} /\ call[c].at = "waiting" /\ q \in call[c].on
    /\ call[c].waits = {} /\ StartJobs([p \in {q} |-> call[c].interval])
    /\ call' = [call EXCEPT ![c] = Idle]
    /\ UNCHANGED <<now, events, table, running, raced, unread, licensed, primary, retention, stops>>

StartReplacement(c, q) ==
    /\ call[c].op \in {"create", "update"} /\ call[c].at = "waiting" /\ q \in call[c].on
    /\ call[c].waits = {}
    /\ IF call[c].is = "active" THEN StartJobs([p \in {q} |-> call[c].interval])
       ELSE UNCHANGED <<jobs, job>>
    /\ call' = [call EXCEPT ![c] = Idle]
    /\ UNCHANGED <<now, events, table, running, raced, unread, licensed, primary, retention, stops>>

ReloadAll(c) ==
    /\ Accepts(c) /\ running
    /\ \E D \in SUBSET CQs : StopJobs(CQs, D)
    /\ call' = [call EXCEPT ![c] = [op |-> "all", at |-> "waiting", on |-> CQs, waits |-> Stopped(CQs)]]
    /\ raced' = raced \union {q \in CQs : Restarting(q) # {}}
    /\ UNCHANGED <<now, table, running, unread, licensed, primary, retention, stops>>

\* Without a license, or when the table cannot be read, nothing is started.
StartAll(c) ==
    /\ call[c].op = "all" /\ call[c].waits = {}
    /\ \/ /\ licensed /\ StartJobs([q \in Active |-> cq[q].interval]) /\ unread' = {}
       \/ UNCHANGED <<jobs, job>> /\ unread' = CQs
    /\ call' = [call EXCEPT ![c] = Idle]
    /\ UNCHANGED <<now, events, table, running, raced, licensed, primary, retention, stops>>

---------------------------------------------------------------------------
(* One execution: the window is chosen, its result is written, and the end  *)
(* of the window is recorded.                                               *)

From(q) == IF cq[q].last # None THEN cq[q].last ELSE now - LookBack

\* Another execution is under way, or an earlier first window was never recorded.
Irregular(q) ==
    \/ Executing(q) # {} \/ Manual(q) # {}
    \/ cq[q].last = None /\ written[q] # {}

MarkIrregular(q, yes) ==
    /\ irregular' = IF yes THEN irregular \union {q} ELSE irregular
    /\ written' = [written EXCEPT ![q] = IF yes THEN {} ELSE @]

ExecuteCQ(q, k) ==
    /\ IF licensed /\ primary /\ q \in Active /\ From(q) < now
       THEN /\ job' = [job EXCEPT ![q][k] = [@ EXCEPT !.at = "query", !.due = FALSE,
                                                  !.from = From(q), !.to = now]]
            /\ MarkIrregular(q, Irregular(q))
       ELSE job' = [job EXCEPT ![q][k] = [@ EXCEPT !.due = FALSE]] /\ UNCHANGED <<written, irregular>>
    /\ UNCHANGED <<now, events, cq, jobs, running, raced, unread, call, licensed, primary,
                   retention, stops>>

\* A tick that came before the goroutine was told to stop may still win the select.
Tick(q, k) ==
    /\ job[q][k].at = "select" /\ (job[q][k].stop => job[q][k].due)
    /\ ExecuteCQ(q, k)

\* An execution that was told to stop, or ran out of time, fails at the buffer.
executeAggregation(q, w, ok) ==
    /\ written' = [written EXCEPT ![q] = IF ok /\ q \notin irregular THEN @ \union {w} ELSE @]
    /\ UNCHANGED <<now, events, cq, irregular, jobs, running, raced, unread, licensed, primary,
                   retention, stops>>

RecordsClock(q, w, ok) ==  \* variant: the time of the end, not the end of the window
    /\ cq' = [cq EXCEPT ![q] = IF ok /\ cq[q].is # "deleted" THEN [@ EXCEPT !.last = now] ELSE @]
    /\ UNCHANGED <<now, events, written, irregular, jobs, running, raced, unread, licensed, primary,
                   retention, stops>>

recordExecutionAndUpdateTime(q, w, ok) ==
    /\ cq' = [cq EXCEPT ![q] = IF ok /\ cq[q].is # "deleted" THEN [@ EXCEPT !.last = w[2]] ELSE @]
    /\ UNCHANGED <<now, events, written, irregular, jobs, running, raced, unread, licensed, primary,
                   retention, stops>>

JobAggregates(q, k) ==
    /\ job[q][k].at = "query"
    /\ \E ok \in BOOLEAN :
          /\ executeAggregation(q, <<job[q][k].from, job[q][k].to>>, ok)
          /\ job' = [job EXCEPT ![q][k] = [@ EXCEPT !.at = IF ok THEN "record" ELSE "select"]]
    /\ UNCHANGED call

JobRecords(q, k) ==
    /\ job[q][k].at = "record"
    /\ \E ok \in BOOLEAN : recordExecutionAndUpdateTime(q, <<job[q][k].from, job[q][k].to>>, ok)
    /\ job' = [job EXCEPT ![q][k] = [@ EXCEPT !.at = "select", !.from = 0, !.to = 0]]
    /\ UNCHANGED call

\* The goroutine ends and closes its done channel.
JobExits(q, k) ==
    /\ job[q][k].at = "select" /\ job[q][k].stop
    /\ job' = [job EXCEPT ![q][k] = Free]
    /\ call' = [c \in Calls |-> IF call[c].op \in {"create", "update", "all"}
                                THEN [call[c] EXCEPT !.waits = @ \ {<<q, k>>}] ELSE call[c]]
    /\ UNCHANGED <<now, events, table, jobs, running, raced, unread, licensed, primary, retention, stops>>

\* The default range, or one of the request's own, of which only the end matters here.
handleExecute(c, q) ==
    /\ Accepts(c) /\ primary /\ q \in Active
    /\ \E w \in {<<From(q), now>>} \union ({-LookBack} \X (1 .. MaxTime)) :
          /\ w[1] < w[2]
          /\ call' = [call EXCEPT ![c] = [op |-> "execute", at |-> "query", q |-> q, w |-> w]]
          /\ MarkIrregular(q, Irregular(q) \/ w # <<From(q), now>>)
    /\ UNCHANGED <<now, cq, scheduler, licensed, primary, retention, stops>>

CallAggregates(c, q) ==
    /\ c \in Manual(q) /\ call[c].at = "query"
    /\ \E ok \in BOOLEAN :
          /\ executeAggregation(q, call[c].w, ok)
          /\ call' = [call EXCEPT ![c] = IF ok THEN [@ EXCEPT !.at = "record"] ELSE Idle]
    /\ UNCHANGED job

CallRecords(c, q) ==
    /\ c \in Manual(q) /\ call[c].at = "record"
    /\ \E ok \in BOOLEAN : recordExecutionAndUpdateTime(q, call[c].w, ok)
    /\ call' = [call EXCEPT ![c] = Idle]
    /\ UNCHANGED job

---------------------------------------------------------------------------
(* Retention: cycles of the cron library and of the API, one at a time. *)

CronFires(x) ==
    /\ cron /\ retentionStop = "no" /\ licensed /\ primary /\ cycle[x] = "idle" /\ Event
    /\ cycle' = [cycle EXCEPT ![x] = "check"]
    /\ UNCHANGED <<now, table, scheduler, call, licensed, primary, cron, mu, runningJob, stops>>

\* Both look at runningJob under the mutex.
ClaimsCycle == ~mu /\ ~runningJob /\ runningJob' = TRUE
ReleasesCycle == ~mu /\ runningJob' = FALSE

runRetention(x) ==
    /\ \/ cycle[x] = "check" /\ ClaimsCycle /\ cycle' = [cycle EXCEPT ![x] = "policies"]
       \/ /\ cycle[x] = "check" /\ ~mu /\ runningJob
          /\ cycle' = [cycle EXCEPT ![x] = "idle"] /\ UNCHANGED runningJob
       \/ cycle[x] = "policies" /\ cycle' = [cycle EXCEPT ![x] = "deferred"] /\ UNCHANGED runningJob
       \/ cycle[x] = "deferred" /\ ReleasesCycle /\ cycle' = [cycle EXCEPT ![x] = "idle"]
    /\ UNCHANGED <<now, events, table, scheduler, call, licensed, primary, cron, mu, stops>>

\* A call that finds a cycle under way is refused.
TriggerNow(c) ==
    /\ Accepts(c) /\ cron /\ licensed /\ primary /\ ClaimsCycle
    /\ call' = [call EXCEPT ![c] = [op |-> "trigger"]]
    /\ UNCHANGED <<now, table, scheduler, licensed, primary, cron, mu, cycle, stops>>

TriggerReturns(c) ==
    /\ call[c].op = "trigger" /\ ReleasesCycle
    /\ call' = [call EXCEPT ![c] = Idle]
    /\ UNCHANGED <<now, events, table, scheduler, licensed, primary, cron, mu, cycle, stops>>

---------------------------------------------------------------------------
(* Shutdown: the hook of the HTTP server waits for the requests, then come  *)
(* the two hooks of the schedulers, which have one priority.                *)

BeginShutdown ==
    /\ ~shutdown /\ \A c \in Calls : call[c] = Idle
    /\ shutdown' = TRUE
    /\ UNCHANGED <<now, events, table, scheduler, call, licensed, primary, retention, cqStop,
                   retentionStop>>

StopUnsignalled ==  \* variant: no goroutine is told
    /\ shutdown /\ cqStop = "no" /\ retentionStop # "waiting"
    /\ running' = FALSE /\ cqStop' = IF running THEN "waiting" ELSE "done"
    /\ UNCHANGED <<now, events, table, jobs, job, raced, unread, call, licensed, primary, retention,
                   shutdown, retentionStop>>

StopCQ ==
    /\ shutdown /\ cqStop = "no" /\ retentionStop # "waiting"
    /\ IF running
       THEN /\ \E D \in SUBSET CQs : StopJobs(CQs, D)
            /\ running' = FALSE /\ cqStop' = "waiting"
       ELSE cqStop' = "done" /\ UNCHANGED <<jobs, job, running>>
    /\ UNCHANGED <<now, events, table, raced, unread, call, licensed, primary, retention, shutdown,
                   retentionStop>>

CQStopped ==
    /\ cqStop = "waiting" /\ \A q \in CQs : Live(q) = {}
    /\ cqStop' = "done"
    /\ UNCHANGED <<now, events, table, scheduler, call, licensed, primary, retention, shutdown,
                   retentionStop>>

\* Keeps the mutex while it waits for the goroutines of the cron library.
StopRetention ==
    /\ shutdown /\ retentionStop = "no" /\ cqStop # "waiting" /\ ~mu
    /\ IF cron THEN mu' = TRUE /\ retentionStop' = "waiting"
       ELSE retentionStop' = "done" /\ UNCHANGED mu
    /\ UNCHANGED <<now, events, table, scheduler, call, licensed, primary, cron, runningJob, cycle,
                   shutdown, cqStop>>

RetentionStopped ==
    /\ retentionStop = "waiting" /\ \A x \in Crons : cycle[x] = "idle"
    /\ mu' = FALSE /\ cron' = FALSE /\ retentionStop' = "done"
    /\ UNCHANGED <<now, events, table, scheduler, call, licensed, primary, runningJob, cycle, shutdown,
                   cqStop>>

\* The process ends at any time and starts again; only the table and the results stay.
Restart ==
    /\ Event
    /\ \E ok \in BOOLEAN : (ok => licensed) /\ BootJobs(ok)
    /\ cron' = licensed /\ mu' = FALSE /\ runningJob' = FALSE /\ cycle' = [x \in Crons |-> "idle"]
    /\ call' = [c \in Calls |-> Idle] /\ raced' = {} /\ unread' = {}
    /\ shutdown' = FALSE /\ cqStop' = "no" /\ retentionStop' = "no"
    /\ UNCHANGED <<now, table, licensed, primary>>

LicenseChanges ==
    /\ Event /\ licensed' = ~licensed
    /\ UNCHANGED <<now, table, scheduler, call, primary, retention, stops>>

RoleChanges ==
    /\ Event /\ primary' = ~primary
    /\ UNCHANGED <<now, table, scheduler, call, licensed, retention, stops>>

TimePasses ==
    /\ now < MaxTime /\ now' = now + 1
    /\ UNCHANGED <<events, table, scheduler, call, licensed, primary, retention, stops>>

---------------------------------------------------------------------------
Handler(c) ==
    \/ StartAll(c) \/ TriggerReturns(c)
    \/ \E q \in CQs : StartJobDirect(c, q) \/ ReloadCQ(c, q) \/ StartReplacement(c, q)
                      \/ CallAggregates(c, q) \/ CallRecords(c, q)

Goroutine(q, k) == JobAggregates(q, k) \/ JobRecords(q, k) \/ JobExits(q, k)
Stops == StopCQ \/ CQStopped \/ StopRetention \/ RetentionStopped

Next ==
    \/ \E c \in Calls : ReloadAll(c) \/ TriggerNow(c) \/ Handler(c)
    \/ \E c \in Calls, q \in CQs :
          handleCreate(c, q) \/ handleUpdate(c, q) \/ handleDelete(c, q) \/ handleExecute(c, q)
    \/ \E q \in CQs, k \in Slots : Tick(q, k) \/ Goroutine(q, k)
    \/ \E x \in Crons : CronFires(x) \/ runRetention(x)
    \/ BeginShutdown \/ Stops \/ Restart \/ LicenseChanges \/ RoleChanges \/ TimePasses

Spec == Init /\ [][Next]_vars

\* The steps of goroutines that have something to do; nothing is assumed of requests,
\* ticks, firings, the clock, faults or the start of a shutdown.
FairSpec ==
    /\ Spec
    /\ \A c \in Calls : WF_vars(Handler(c))
    /\ \A q \in CQs, k \in Slots : WF_vars(Goroutine(q, k))
    /\ \A x \in Crons : WF_vars(runRetention(x))
    /\ WF_vars(Stops)

---------------------------------------------------------------------------
(* Properties. *)

Goroutines == [at : {"free", "select", "query", "record"}, stop : BOOLEAN, due : BOOLEAN,
               interval : Intervals \union {Bad}, from : Int, to : Int]
Restarts == [op : {"create", "update"}, at : {"begin", "waiting"}, on : {{q} : q \in CQs},
             is : {"absent", "active", "inactive"}, interval : Intervals \union {Bad},
             waits : SUBSET (CQs \X Slots)]
RestartsOfAll == [op : {"all"}, at : {"waiting"}, on : {CQs}, waits : SUBSET (CQs \X Slots)]
Executions == [op : {"execute"}, at : {"query", "record"}, q : CQs, w : Int \X Int]

\* The type invariant.
SCTypeOK ==
    /\ now \in Nat /\ events \in Nat
    /\ cq \in [CQs -> [is : {"absent", "active", "inactive", "deleted"},
                        interval : Intervals \union {Bad}, last : Int]]
    /\ written \in [CQs -> SUBSET (Int \X Int)]
    /\ jobs \in [CQs -> Slots \union {None}]
    /\ job \in [CQs -> [Slots -> Goroutines]]
    /\ running \in BOOLEAN /\ licensed \in BOOLEAN /\ primary \in BOOLEAN
    /\ call \in [Calls -> {Idle, [op |-> "trigger"]} \union Restarts \union RestartsOfAll
                          \union Executions]
    /\ cron \in BOOLEAN /\ mu \in BOOLEAN /\ runningJob \in BOOLEAN
    /\ cycle \in [Crons -> {"idle", "check", "policies", "deferred"}]
    /\ shutdown \in BOOLEAN
    /\ cqStop \in {"no", "waiting", "done"} /\ retentionStop \in {"no", "waiting", "done"}
    /\ raced \subseteq CQs /\ unread \subseteq CQs /\ irregular \subseteq CQs

\* Who executes retention policies.
Cycles ==
    {x \in Crons : cycle[x] \in {"policies", "deferred"}}
    \union {c \in Calls : call[c].op = "trigger"}

(* As long as no two restarts of a query overlap, at most one goroutine of  *)
(* it has not been told to stop, the one in the map, and at most one        *)
(* executes: "so that a long-running executeJob cannot overlap with the new *)
(* job" (cq_scheduler.go:161).  Nor do two retention cycles run at once.    *)
OneAtATime ==
    /\ \A q \in CQs \ raced :
          /\ {k \in Live(q) : ~job[q][k].stop} \subseteq {jobs[q]}
          /\ \A k, l \in Executing(q) : k = l
    /\ \A x, y \in Cycles : x = y

(* Unless somebody executes a query by hand over a range of his own or      *)
(* beside another execution, or its first window was written and never      *)
(* recorded, the windows of a query follow each other: results with         *)
(* different labels aggregate different rows, whatever failed or crashed in *)
(* between, and up to last_processed_time no row is left out                *)
(* (recordExecutionAndUpdateTime, continuous_query.go:1105).                *)
WindowsMeet ==
    \A q \in CQs \ irregular :
       /\ \A v, w \in written[q] : v[1] < w[1] => v[2] <= w[1]
       /\ cq[q].last # None =>
             /\ \E w \in written[q] : w[2] = cq[q].last
             /\ \A t \in Min({w[1] : w \in written[q]}) .. (cq[q].last - 1) :
                   \E w \in written[q] : w[1] <= t /\ t < w[2]

(* When no request is under way the scheduler runs what the table says: an  *)
(* active query with an interval that parses has its goroutine, of that     *)
(* interval, and an inactive one has none.  Excepted are queries whose      *)
(* restarts overlapped or could not read the table, and deleted ones, which *)
(* nobody tells the scheduler of.                                           *)
ScheduledAsStored ==
    running =>
       \A q \in CQs \ (raced \union unread) :
          (\A c \in Calls : call[c].op \in {"create", "update", "all"} => q \notin call[c].on) =>
             /\ (q \in Active /\ cq[q].interval # Bad) =>
                   jobs[q] # None /\ job[q][jobs[q]].interval = cq[q].interval
             /\ (cq[q].is = "inactive" \/ (q \in Active /\ cq[q].interval = Bad)) => jobs[q] = None

\* Stop waits for a cycle that needs the mutex which Stop holds.
Deadlocked == mu /\ \E x \in Crons : cycle[x] \in {"check", "deferred"}

\* CQScheduler.Stop waits for a goroutine that overlapping restarts have left behind.
Orphaned == cqStop = "waiting" /\ \E q \in raced : \E k \in Live(q) : ~job[q][k].stop

(* Requests return, and a shutdown gets past both schedulers, or the        *)
(* process ends otherwise, unless one Stop waits for what can never end.    *)
StopsEnd ==
    /\ []<>(\A c \in Calls : call[c] = Idle)
    /\ shutdown ~> (~shutdown \/ Orphaned \/ Deadlocked
                     \/ (cqStop = "done" /\ retentionStop = "done"))
=============================================================================
