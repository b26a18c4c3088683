--------------------------- MODULE CompactorLease ---------------------------
(* Which node compacts: the lease that the Raft leader's failover manager    *)
(* assigns, the registry of every node that heartbeats and health checks     *)
(* keep, and the schedulers that main starts by role and that the FSM's      *)
(* callbacks start and stop when the lease moves.                            *)
(* cluster/compactor_failover.go, registry.go, health.go, node.go, the       *)
(* membership handlers of coordinator.go, compaction/scheduler.go, main.go.  *)
(* Raft itself is external: a log of committed entries and a leader.         *)
EXTENDS Naturals, FiniteSets, Sequences

CONSTANTS
    Nodes,              \* the nodes that can compact; other voters keep the quorum
    Layouts,            \* bound: sets of nodes whose role is RoleCompactor, the rest write
    First,              \* the node that bootstraps the cluster
    Nobody,             \* the empty node ID
    UnhealthyThreshold, \* checks of the failover manager before it acts
    MaxJoins,           \* bound: nodes that join or register
    MaxTrouble          \* bound: crashes, elections, removals, late heartbeats, failed commands

ASSUME LeaseConstants ==
    /\ Nobody \notin Nodes /\ First \in Nodes /\ Layouts \subseteq SUBSET Nodes
    /\ UnhealthyThreshold \in Nat \ {0}

VARIABLES
    dedicated,          \* the nodes with RoleCompactor
    log,                \* the committed entries: [op, node]
    leader, voters,
    phase,              \* per node: "down", "raft", "hooked"
    applied, snap,      \* entries applied, and covered by the last snapshot
    wired,              \* entries applied when SetCompactorCallbacks was called
    view,               \* view[n][m]: what n's registry says of m
    mgr,                \* n's failover goroutine: [pc, old, new, index]
    fails, cooling,     \* consecutiveFails; within the cooldown of lastFailoverAt
    hooks,              \* goroutines of onCompactorAssigned that have not run
    running, watching,  \* the schedulers, and the completion watcher
    crossed,            \* history: nodes whose onLose ran while they held the lease
    joins, trouble      \* how much of the bounds is used

cl_raft == <<log, leader, voters>>
cl_node == <<phase, applied, snap, wired>>
cl_mgr == <<mgr, fails, cooling>>
cl_work == <<hooks, running, watching, crossed>>
cl_bounds == <<joins, trouble>>
cl_vars == <<dedicated, cl_raft, cl_node, view, cl_mgr, cl_work, cl_bounds>>

Up(n) == phase[n] # "down"
Trouble == trouble < MaxTrouble /\ trouble' = trouble + 1 /\ UNCHANGED joins
Joining == joins < MaxJoins /\ joins' = joins + 1 /\ UNCHANGED trouble

\* activeCompactorID after the first k entries, and the entry that set it.
Assigns(k) == {i \in 1..k : log[i].op = "assign"}
LastAssign(k) ==
    IF Assigns(k) = {} THEN 0 ELSE CHOOSE i \in Assigns(k) : \A j \in Assigns(k) : j <= i
ActiveAfter(k) == IF LastAssign(k) = 0 THEN Nobody ELSE log[LastAssign(k)].node
Active(n) == ActiveAfter(applied[n])
Holder == ActiveAfter(Len(log))

Idle == [pc |-> "idle", old |-> Nobody, new |-> Nobody, index |-> 0]

\* The node that bootstraps the cluster is up.  A fresh registry knows its own node only.
OnlySelf(n) == [m \in Nodes |-> IF m = n THEN "healthy" ELSE "absent"]

CLInit ==
    /\ dedicated \in Layouts
    /\ log = <<>> /\ leader = First /\ voters = {First}
    /\ phase = [n \in Nodes |-> IF n = First THEN "hooked" ELSE "down"]
    /\ applied = [n \in Nodes |-> 0] /\ snap = [n \in Nodes |-> 0] /\ wired = [n \in Nodes |-> 0]
    /\ view = [n \in Nodes |-> OnlySelf(n)]
    /\ mgr = [n \in Nodes |-> Idle]
    /\ fails = [n \in Nodes |-> 0] /\ cooling = [n \in Nodes |-> FALSE]
    /\ hooks = [n \in Nodes |-> [become |-> 0, lose |-> 0]]
    /\ running = [n \in Nodes |-> n = First /\ n \in dedicated] /\ watching = running
    /\ crossed = {}
    /\ joins = 0 /\ trouble = 0

---------------------------------------------------------------------------
(* The process.  main starts the schedulers before the coordinator exists,   *)
(* then the coordinator with Raft, then the watcher, then the hooks.         *)

\* Raft restores the last snapshot, for which the FSM calls nobody.
Boot(n) ==
    /\ phase[n] = "down" /\ phase' = [phase EXCEPT ![n] = "raft"]
    /\ applied' = [applied EXCEPT ![n] = snap[n]]
    /\ running' = [running EXCEPT ![n] = n \in dedicated]
    /\ UNCHANGED <<dedicated, cl_raft, snap, wired, view, cl_mgr, hooks, watching, crossed, cl_bounds>>

\* The watcher and the hooks follow, once Raft runs and replays its log.
SetCompactorCallbacks(n) ==
    /\ phase[n] = "raft" /\ phase' = [phase EXCEPT ![n] = "hooked"]
    /\ watching' = [watching EXCEPT ![n] = n \in dedicated \/ Active(n) = n]
    /\ wired' = [wired EXCEPT ![n] = applied[n]]
    /\ UNCHANGED <<dedicated, cl_raft, applied, snap, view, cl_mgr, hooks, running, crossed, cl_bounds>>

\* What a process leaves: its log, and the snapshot it began with or a last one.
Ends(n) ==
    /\ phase' = [phase EXCEPT ![n] = "down"]
    /\ \E k \in {snap[n], applied[n]} : snap' = [snap EXCEPT ![n] = k]
    /\ applied' = [applied EXCEPT ![n] = 0] /\ wired' = [wired EXCEPT ![n] = 0]
    /\ mgr' = [mgr EXCEPT ![n] = Idle]
    /\ fails' = [fails EXCEPT ![n] = 0] /\ cooling' = [cooling EXCEPT ![n] = FALSE]
    /\ hooks' = [hooks EXCEPT ![n] = [become |-> 0, lose |-> 0]]
    /\ running' = [running EXCEPT ![n] = FALSE] /\ watching' = [watching EXCEPT ![n] = FALSE]
    /\ crossed' = crossed \ {n}
    /\ leader' = (IF leader = n THEN Nobody ELSE leader)
    /\ UNCHANGED dedicated

NodeCrash(n) ==
    /\ Up(n) /\ Trouble
    /\ Ends(n)
    /\ view' = [view EXCEPT ![n] = OnlySelf(n)]
    /\ UNCHANGED <<log, voters>>

\* A voter that is up may be elected, whatever its FSM has applied so far.
Elect(n) ==
    /\ Up(n) /\ leader # n /\ Trouble
    /\ n \in voters /\ leader' = n
    /\ UNCHANGED <<dedicated, log, voters, cl_node, view, cl_mgr, cl_work>>

---------------------------------------------------------------------------
(* Membership.                                                               *)

\* handleJoinResponse: the joining node registers what the leader's registry holds.
Learns(m, known) == [x \in Nodes |-> IF known[x] = "absent" THEN view[m][x] ELSE known[x]]

\* handleJoinRequest at the leader waits until its FSM has applied the entry.
\* Raft may refuse the entry; the leader answers success all the same.
Join(m) ==
    LET l == leader IN
    /\ Up(m) /\ l \notin {Nobody, m} /\ applied[l] = Len(log) /\ Joining
    /\ \E added \in BOOLEAN :
        LET known == IF added THEN [view[l] EXCEPT ![m] = "healthy"] ELSE view[l]
        IN  /\ log' = IF added THEN Append(log, [op |-> "add", node |-> m]) ELSE log
            /\ applied' = [applied EXCEPT ![l] = Len(log')]
            /\ view' = [view EXCEPT ![l] = known, ![m] = Learns(m, known)]
    /\ voters' = voters \cup {m}
    /\ UNCHANGED <<dedicated, leader, phase, snap, wired, cl_mgr, cl_work>>

\* registerSelfInFSMWhenLeader of the node that bootstraps the cluster.
RegisterSelf(n) ==
    /\ Up(n) /\ leader = n
    /\ \A i \in 1..applied[n] : log[i] # [op |-> "add", node |-> n]
    /\ Joining
    /\ log' = Append(log, [op |-> "add", node |-> n])
    /\ UNCHANGED <<dedicated, leader, voters, cl_node, view, cl_mgr, cl_work>>

\* broadcastLeave of a node that shuts down: the peers it knows and may reach.
Audience(m) == {n \in Nodes \ {m} : Up(n) /\ view[m][n] # "absent"}

\* handleLeaveNotify drops the node; the leader also commits the removal.
Leave(m) ==
    /\ Up(m) /\ Trouble /\ Ends(m)
    /\ \E told \in SUBSET Audience(m) :
        /\ view' = [n \in Nodes |-> IF n = m THEN OnlySelf(m)
                                    ELSE IF n \in told THEN [view[n] EXCEPT ![m] = "absent"]
                                    ELSE view[n]]
        /\ IF leader \in told
           THEN log' = Append(log, [op |-> "remove", node |-> m]) /\ voters' = voters \ {m}
           ELSE UNCHANGED <<log, voters>>

\* RemoveNodeViaRaft, an operator's request at the leader.
RemoveNode(m) ==
    /\ leader \notin {Nobody, m} /\ Trouble
    /\ log' = Append(log, [op |-> "remove", node |-> m]) /\ voters' = voters \ {m}
    /\ UNCHANGED <<dedicated, leader, cl_node, view, cl_mgr, cl_work>>

---------------------------------------------------------------------------
(* Heartbeats and health checks.  "ill" stands for unhealthy and dead.       *)

Reaches(m, n) == Up(m) /\ Up(n) /\ view[m][n] # "absent"

\* handleHeartbeat: the sender's own state, which is healthy once it started.
Heartbeat(m, n) ==
    /\ m # n /\ Reaches(m, n) /\ view[n][m] = "ill"
    /\ view' = [view EXCEPT ![n][m] = "healthy"]
    /\ UNCHANGED <<dedicated, cl_raft, cl_node, cl_mgr, cl_work, cl_bounds>>

\* checkNode: enough checks in a row found the last heartbeat too old.  Every
\* node checks its peers, and only what the leader finds is ever used.
ChecksFail(n, m) ==
    /\ m # n /\ Up(n) /\ leader = n /\ view[n][m] = "healthy"
    /\ IF Reaches(m, n) THEN Trouble ELSE UNCHANGED cl_bounds
    /\ view' = [view EXCEPT ![n][m] = "ill"]
    /\ UNCHANGED <<dedicated, cl_raft, cl_node, cl_mgr, cl_work>>

---------------------------------------------------------------------------
(* The failover manager of the node that leads.                              *)

\* selectNewCompactor: dedicated nodes first, then writers, in map order.
Healthy(n, except) == {m \in Nodes \ {except} : view[n][m] = "healthy"}
SelectNewCompactor(n, except) ==
    LET all == Healthy(n, except)
    IN  IF all \cap dedicated # {} THEN all \cap dedicated ELSE all

Proposes(n, old, new) == mgr' = [mgr EXCEPT ![n] = [Idle EXCEPT !.pc = "apply", !.old = old, !.new = new]]

TryInitialAssignment(n) ==
    /\ Active(n) = Nobody
    /\ \E new \in SelectNewCompactor(n, Nobody) : Proposes(n, Nobody, new)
    /\ UNCHANGED fails

HolderIsHealthy(n) ==
    /\ Active(n) # Nobody /\ view[n][Active(n)] = "healthy"
    /\ fails[n] > 0 /\ fails' = [fails EXCEPT ![n] = 0] /\ UNCHANGED mgr

\* Below the threshold, or in the cooldown, the check only counts.
HolderIsUnhealthy(n) ==
    LET count == fails[n] + 1 IN
    /\ Active(n) # Nobody /\ view[n][Active(n)] # "healthy"
    /\ fails' = [fails EXCEPT ![n] = IF count > UnhealthyThreshold THEN UnhealthyThreshold ELSE count]
    /\ IF count >= UnhealthyThreshold /\ ~cooling[n]
       THEN mgr' = [mgr EXCEPT ![n] = [Idle EXCEPT !.pc = "select", !.old = Active(n)]]
       ELSE UNCHANGED mgr

CheckCompactorHealth(n) ==
    /\ Up(n) /\ leader = n /\ mgr[n].pc = "idle"
    /\ TryInitialAssignment(n) \/ HolderIsHealthy(n) \/ HolderIsUnhealthy(n)
    /\ UNCHANGED <<dedicated, cl_raft, cl_node, view, cooling, cl_work, cl_bounds>>

StaysBusy(n, success) ==  \* variant
    /\ mgr' = [mgr EXCEPT ![n] = IF success THEN Idle ELSE [Idle EXCEPT !.pc = "busy"]]
    /\ IF success THEN cooling' = [cooling EXCEPT ![n] = TRUE] /\ fails' = [fails EXCEPT ![n] = 0]
                  ELSE UNCHANGED <<cooling, fails>>

\* completeFailover clears failoverInProg whatever became of the command.
CompleteFailover(n, success) ==
    /\ mgr' = [mgr EXCEPT ![n] = Idle]
    /\ IF success THEN cooling' = [cooling EXCEPT ![n] = TRUE] /\ fails' = [fails EXCEPT ![n] = 0]
                  ELSE UNCHANGED <<cooling, fails>>

NoCandidate(n) == Healthy(n, mgr[n].old) = {} /\ CompleteFailover(n, FALSE)

ExecuteFailover(n) ==
    /\ Up(n) /\ mgr[n].pc = "select"
    /\ \/ \E new \in SelectNewCompactor(n, mgr[n].old) :
              Proposes(n, mgr[n].old, new) /\ UNCHANGED <<fails, cooling>>
       \/ NoCandidate(n)
    /\ UNCHANGED <<dedicated, cl_raft, cl_node, view, cl_work, cl_bounds>>

\* raft.Node.AssignCompactor: only the leader's command enters the log.
AssignCompactor(n) ==
    /\ Up(n) /\ mgr[n].pc = "apply"
    /\ \/ /\ leader = n
          /\ log' = Append(log, [op |-> "assign", node |-> mgr[n].new])
          /\ mgr' = [mgr EXCEPT ![n].pc = "wait", ![n].index = Len(log) + 1]
          /\ UNCHANGED <<fails, cooling, cl_bounds>>
       \/ leader # n /\ CompleteFailover(n, FALSE) /\ UNCHANGED <<log, cl_bounds>>
       \/ leader = n /\ CompleteFailover(n, FALSE) /\ Trouble /\ UNCHANGED log
    /\ UNCHANGED <<dedicated, leader, voters, cl_node, view, cl_work>>

\* The future resolves when the entry is applied here, or reports a failure
\* although the entry is committed.
AssignEnds(n) ==
    /\ Up(n) /\ mgr[n].pc = "wait"
    /\ \/ applied[n] >= mgr[n].index /\ CompleteFailover(n, TRUE) /\ UNCHANGED cl_bounds
       \/ CompleteFailover(n, FALSE) /\ Trouble
    /\ UNCHANGED <<dedicated, cl_raft, cl_node, view, cl_work>>

\* The cooldown is looked at when the holder is unhealthy; it ends by then or not.
CooldownEnds(n) ==
    /\ leader = n /\ mgr[n].pc = "idle" /\ Active(n) # Nobody /\ view[n][Active(n)] # "healthy"
    /\ cooling[n] /\ cooling' = [cooling EXCEPT ![n] = FALSE]
    /\ UNCHANGED <<dedicated, cl_raft, cl_node, view, mgr, fails, cl_work, cl_bounds>>

---------------------------------------------------------------------------
(* The FSM applies an entry and calls its callbacks.                         *)

SeesAs(n, m, what) == view' = [view EXCEPT ![n][m] = what] /\ UNCHANGED hooks

NeverLoses(n, old, new) ==  \* variant
    [hooks[n] EXCEPT !.become = IF new = n /\ old # n THEN @ + 1 ELSE @]

\* onCompactorAssigned starts a goroutine for each hook.
OnCompactorAssigned(n, old, new) ==
    [hooks[n] EXCEPT !.become = IF new = n /\ old # n THEN @ + 1 ELSE @,
                     !.lose = IF old = n /\ new # n THEN @ + 1 ELSE @]

Apply(n) ==
    LET e == log[applied[n] + 1] IN
    /\ Up(n) /\ applied[n] < Len(log)
    /\ applied' = [applied EXCEPT ![n] = @ + 1]
    /\ CASE e.op = "add" -> SeesAs(n, e.node, "healthy")
         [] e.op = "remove" -> SeesAs(n, e.node, "absent")
         [] e.op = "assign" ->
                /\ UNCHANGED view
                /\ hooks' = IF phase[n] = "hooked"
                            THEN [hooks EXCEPT ![n] = OnCompactorAssigned(n, Active(n), e.node)]
                            ELSE hooks
    /\ UNCHANGED <<dedicated, cl_raft, phase, snap, wired, cl_mgr, running, watching, crossed, cl_bounds>>

---------------------------------------------------------------------------
(* The hooks main has set.                                                   *)

CanCompactByRole(n) == n \in dedicated  \* variant
\* compactionClusterGate.CanCompact, and Scheduler.Start behind it.
CanCompact(n) == IF Active(n) # Nobody THEN Active(n) = n ELSE n \in dedicated

OnBecome(n) ==
    /\ Up(n) /\ hooks[n].become > 0
    /\ hooks' = [hooks EXCEPT ![n].become = @ - 1]
    /\ running' = [running EXCEPT ![n] = @ \/ CanCompact(n)]
    /\ watching' = [watching EXCEPT ![n] = TRUE]
    /\ crossed' = crossed \ {n}
    /\ UNCHANGED <<dedicated, cl_raft, cl_node, view, cl_mgr, cl_bounds>>

\* Scheduler.Stop waits for the cycle that runs.
OnLose(n) ==
    /\ Up(n) /\ hooks[n].lose > 0
    /\ hooks' = [hooks EXCEPT ![n].lose = @ - 1]
    /\ running' = [running EXCEPT ![n] = FALSE]
    /\ watching' = [watching EXCEPT ![n] = n \in dedicated]
    /\ crossed' = (IF Active(n) = n THEN crossed \cup {n} ELSE crossed)
    /\ UNCHANGED <<dedicated, cl_raft, cl_node, view, cl_mgr, cl_bounds>>

---------------------------------------------------------------------------
\* checkLoop and the one goroutine it starts at a time.
Manages(n) == CheckCompactorHealth(n) \/ ExecuteFailover(n) \/ AssignCompactor(n) \/ AssignEnds(n)
NodeSteps(n) ==
    \/ Boot(n) \/ SetCompactorCallbacks(n) \/ Apply(n)
    \/ Manages(n) \/ CooldownEnds(n) \/ OnBecome(n) \/ OnLose(n)

CLNext ==
    \/ \E n \in Nodes : NodeSteps(n)
    \/ \E n \in Nodes : NodeCrash(n) \/ Elect(n) \/ Join(n) \/ RegisterSelf(n) \/ Leave(n) \/ RemoveNode(n)
    \/ \E m, n \in Nodes : Heartbeat(m, n) \/ ChecksFail(n, m)

CLSpec == CLInit /\ [][CLNext]_cl_vars

\* The loops, goroutines and timers of a process that is up go on.  Nothing is
\* assumed of elections, heartbeats, or of the process being started again.
CLFairSpec ==
    /\ CLSpec
    /\ \A n \in Nodes :
        /\ WF_cl_vars(Manages(n)) /\ WF_cl_vars(CooldownEnds(n)) /\ WF_cl_vars(Apply(n))
        /\ WF_cl_vars(\E m \in Nodes : ~Reaches(m, n) /\ ChecksFail(n, m))

---------------------------------------------------------------------------
(* Properties.                                                               *)

\* The type invariant.
CLTypeOK ==
    /\ dedicated \subseteq Nodes
    /\ log \in Seq([op : {"add", "remove", "assign"}, node : Nodes])
    /\ leader \in Nodes \cup {Nobody} /\ voters \subseteq Nodes
    /\ phase \in [Nodes -> {"down", "raft", "hooked"}]
    /\ applied \in [Nodes -> Nat] /\ snap \in [Nodes -> Nat] /\ wired \in [Nodes -> Nat]
    /\ \A n \in Nodes : applied[n] <= Len(log) /\ snap[n] <= Len(log) /\ wired[n] <= applied[n]
    /\ \A n \in Nodes : phase[n] = "down" => wired[n] = 0
    /\ view \in [Nodes -> [Nodes -> {"absent", "healthy", "ill"}]]
    /\ mgr \in [Nodes -> [pc : {"idle", "select", "apply", "wait"},
                         old : Nodes \cup {Nobody}, new : Nodes \cup {Nobody}, index : Nat]]
    /\ \A n \in Nodes : mgr[n].pc = "apply" => mgr[n].new \in Nodes
    /\ fails \in [Nodes -> Nat] /\ cooling \in [Nodes -> BOOLEAN]
    /\ hooks \in [Nodes -> [become : Nat, lose : Nat]]
    /\ running \in [Nodes -> BOOLEAN] /\ watching \in [Nodes -> BOOLEAN] /\ crossed \subseteq Nodes

\* The node has applied every entry and its hooks have run.
AtRest(n) ==
    /\ phase[n] = "hooked" /\ applied[n] = Len(log) /\ hooks[n] = [become |-> 0, lose |-> 0]

\* The lease has left n since n set its hooks.
LostSinceWired(n) ==
    \E i \in (wired[n] + 1)..applied[n] :
        log[i].op = "assign" /\ log[i].node # n /\ ActiveAfter(i - 1) = n

\* The lease has moved, from or to anyone, since n set its hooks.
MovedSinceWired(n) ==
    \E i \in (wired[n] + 1)..applied[n] : ActiveAfter(i) # ActiveAfter(i - 1)

\* The schedulers run where the lease is (main.go: "only start them when the node
\* holds the compactor lease").  A node without it compacts only when its role
\* started the schedulers and the lease has not been taken from it since: the
\* gate has no coordinator at the start, and nothing stops them later.
SoleCompactor ==
    \A n \in Nodes : AtRest(n) /\ running[n] /\ Holder # n => n \in dedicated /\ ~LostSinceWired(n)

\* The holder compacts and applies its completion manifests, unless it was given
\* the lease before its hooks were set, or its onLose for an earlier loss ran
\* after its onBecome.
HolderCompacts ==
    \A n \in Nodes : AtRest(n) /\ Holder = n =>
        (running[n] /\ watching[n]) \/ ~MovedSinceWired(n) \/ n \in crossed

\* A lease that nobody holds, or whose holder is down, gone or silent, does not
\* stay where it is while a leader lasts that sees a healthy candidate.
Stuck ==
    /\ leader # Nobody /\ SelectNewCompactor(leader, Holder) # {}
    /\ Holder # Nobody => ~Up(Holder) \/ view[leader][Holder] # "healthy"
LeaseMoves == []<>~Stuck
=============================================================================
