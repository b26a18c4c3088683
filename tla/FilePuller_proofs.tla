------------------------- MODULE FilePuller_proofs -------------------------
(***************************************************************************)
(* Theorems about FilePuller for every set of paths and workers, every     *)
(* queue size, and every number of attempts, peers and commands.           *)
(***************************************************************************)
EXTENDS FilePuller, SequenceTheorems, FiniteSetTheorems, TLAPS

Callers == {"callback", "walker"}

-----------------------------------------------------------------------------
(* Types, in the groups that the actions change.                           *)

CallType ==
    /\ inflight \subseteq Paths
    /\ tags \subseteq Paths
    /\ call \in [Callers -> CallStates]
    /\ bumped \subseteq {"enqueued", "dup", "dropped"}

QueueType == queue \in Seq(Entry) /\ Len(queue) <= QueueSize

CatchUpType ==
    /\ failedPaths \subseteq Paths
    /\ droppedPaths \subseteq Paths
    /\ walker \in WalkerStates
    /\ walked \in [Paths -> Versions \cup {0}]
    /\ excused \subseteq Paths

WorkType == worker \in [Workers -> WorkerStates] /\ \A w \in Workers : HasEntry(worker[w])

DiskType == DOMAIN final = Paths /\ DOMAIN part = Paths

NodeType ==
    /\ manifest \in [Paths -> Versions \cup {0}]
    /\ gate \in {"idle", "completed", "drained", "unfailed", "open"}
    /\ stopped \in BOOLEAN
    /\ applies \in 0..MaxApplies

LEMMA TypeParts ==
    /\ TypeOK <=> CallType /\ QueueType /\ CatchUpType /\ WorkType /\ DiskType /\ NodeType
    /\ TypeOK' <=> CallType' /\ QueueType' /\ CatchUpType' /\ WorkType' /\ DiskType' /\ NodeType'
BY DEF TypeOK, CallType, QueueType, CatchUpType, WorkType, DiskType, NodeType, Callers

LEMMA UnchangedType ==
    /\ CallType /\ UNCHANGED <<inflight, tags, call, bumped>> => CallType'
    /\ QueueType /\ UNCHANGED queue => QueueType'
    /\ CatchUpType /\ UNCHANGED <<catchVars, walker, history>> => CatchUpType'
    /\ WorkType /\ UNCHANGED worker => WorkType'
    /\ DiskType /\ UNCHANGED disk => DiskType'
    /\ NodeType /\ UNCHANGED <<manifest, gate, stopped, applies>> => NodeType'
BY DEF CallType, QueueType, CatchUpType, catchVars, history, WorkType, DiskType, disk, NodeType

LEMMA TypeInit == Init => TypeOK
<1> SUFFICES ASSUME Init PROVE TypeOK
  OBVIOUS
<1> USE PullerConstants
<1>0. 1 \in Versions
  BY DEF Versions
<1>1. CallType
  BY DEF Init, CallType, CallStates, Callers, NoCall
<1>2. QueueType
  BY DEF Init, QueueType
<1>3. CatchUpType
  BY DEF Init, CatchUpType, WalkerStates
<1>4. WorkType
  <2>1. Idle \in WorkerStates /\ HasEntry(Idle)
    BY DEF Idle, WorkerStates, HasEntry
  <2> QED
    BY <2>1 DEF Init, WorkType
<1>5. DiskType
  <2>1. DOMAIN final = Paths
    BY ZenonT(20) DEF Init
  <2>2. DOMAIN part = Paths
    BY ZenonT(20) DEF Init
  <2> QED
    BY <2>1, <2>2 DEF DiskType
<1>6. NodeType
  <2>1. manifest \in [Paths -> Versions \cup {0}]
    BY <1>0 DEF Init
  <2>2. applies \in 0..MaxApplies
    <3>1. applies = 0
      BY Zenon DEF Init
    <3> QED
      BY <3>1
  <2>3. gate = "idle" /\ stopped = FALSE
    BY Zenon DEF Init
  <2> QED
    BY <2>1, <2>2, <2>3 DEF NodeType
<1> QED
  BY <1>1, <1>2, <1>3, <1>4, <1>5, <1>6, TypeParts

-----------------------------------------------------------------------------
(* The records of the calls and of the workers, after a step.              *)

LEMMA Positive == (\A p \in Paths : p # 0) /\ (\A v \in Versions : v # 0)
BY PullerConstants DEF Versions

LEMMA CallStep ==
    ASSUME CallType, NEW c \in Callers, NEW r \in CallStates
    PROVE  [call EXCEPT ![c] = r] \in [Callers -> CallStates]
BY DEF CallType

LEMMA SetPcType ==
    ASSUME CallType, NEW c \in Callers, call[c].pc # "none", NEW pc \in {"send", "drop"},
           call' = [call EXCEPT ![c].pc = pc]
    PROVE  call' \in [Callers -> CallStates]
<1>1. [call[c] EXCEPT !.pc = pc] \in CallStates
  BY DEF CallType, CallStates
<1> QED
  BY <1>1 DEF CallType

LEMMA ReturnType ==
    ASSUME CallType, NEW c \in Callers, call[c].pc # "none",
           NEW out \in {"enqueued", "dup", "dropped"}, Return(c, out)
    PROVE  call' \in [Callers -> CallStates]
<1>1. NoCall \in CallStates
  BY DEF NoCall, CallStates
<1>2. [call[c] EXCEPT !.pc = "returned", !.out = out] \in CallStates
  BY DEF CallType, CallStates
<1>3. \E r \in CallStates : call' = [call EXCEPT ![c] = r]
  BY <1>1, <1>2 DEF Return
<1> QED
  BY <1>3, CallStep

LEMMA StartCallType ==
    ASSUME CallType, NEW c \in Callers, NEW p \in Paths, NEW v \in Versions, StartCall(c, p, v)
    PROVE  call' \in [Callers -> CallStates]
<1>1. [pc |-> "add", path |-> p, ver |-> v, out |-> "none"] \in CallStates
  BY Positive DEF CallStates
<1> QED
  BY <1>1 DEF StartCall, CallType

LEMMA WorkerStep ==
    ASSUME WorkType, NEW w \in Workers, NEW r \in WorkerStates, HasEntry(r),
           worker' = [worker EXCEPT ![w] = r]
    PROVE  WorkType'
BY DEF WorkType

-----------------------------------------------------------------------------
(* The steps of Enqueue and of the callback.                               *)

LEMMA TypeEnqueue ==
    ASSUME TypeOK, NEW c \in Callers, Enqueue(c)
    PROVE  TypeOK'
<1> USE TypeParts
<1>0. ASSUME call[c].pc # "none"
      PROVE  call[c].path \in Paths /\ call[c].ver \in Versions
  BY <1>0 DEF CallType, CallStates
<1>1. CASE InflightAdd(c)
  <2>1. call[c].pc # "none"
    BY <1>1 DEF InflightAdd
  <2>2. call' \in [Callers -> CallStates]
    BY <1>1, <2>1, SetPcType, ReturnType DEF InflightAdd
  <2>3. inflight' \subseteq Paths
    BY <1>1, <1>0, <2>1 DEF InflightAdd, CallType
  <2>4. bumped' \subseteq {"enqueued", "dup", "dropped"}
    BY <1>1 DEF InflightAdd, CallType, Bump
  <2>5. CallType'
    BY <1>1, <2>2, <2>3, <2>4 DEF InflightAdd, CallType
  <2> QED
    BY <1>1, <2>5, UnchangedType DEF InflightAdd, enqVars, catchVars, disk, history
<1>2. CASE SendEntry(c)
  <2>1. call[c].pc # "none"
    BY <1>2 DEF SendEntry
  <2>2. call' \in [Callers -> CallStates]
    BY <1>2, <2>1, SetPcType, ReturnType DEF SendEntry
  <2>3. inflight' \subseteq Paths
    BY <1>2 DEF SendEntry, CallType
  <2>4. bumped' \subseteq {"enqueued", "dup", "dropped"}
    BY <1>2 DEF SendEntry, CallType, Bump
  <2>5. CallType'
    BY <1>2, <2>2, <2>3, <2>4 DEF SendEntry, CallType
  <2>6. QueueType'
    <3>1. [path |-> call[c].path, ver |-> call[c].ver] \in Entry
      BY <1>0, <2>1 DEF Entry
    <3>2. CASE UNCHANGED queue
      BY <3>2 DEF QueueType
    <3>3. CASE HasRoom /\ queue' = Append(queue, [path |-> call[c].path, ver |-> call[c].ver])
      BY <3>1, <3>3, PullerConstants DEF HasRoom, QueueType
    <3> QED
      BY <1>2, <3>2, <3>3 DEF SendEntry
  <2> QED
    BY <1>2, <2>5, <2>6, UnchangedType DEF SendEntry, enqVars, catchVars, disk, history
<1>3. CASE DropEntry(c)
  <2>1. call[c].pc # "none"
    BY <1>3 DEF DropEntry
  <2>2. call' \in [Callers -> CallStates]
    BY <1>3, <2>1, SetPcType, ReturnType DEF DropEntry
  <2>3. bumped' \subseteq {"enqueued", "dup", "dropped"}
    BY <1>3 DEF DropEntry, CallType, Bump
  <2>4. CallType'
    BY <1>3, <2>2, <2>3 DEF DropEntry, CallType
  <2>5. CatchUpType'
    BY <1>3, <1>0, <2>1 DEF DropEntry, CatchUpType, catchVars
  <2> QED
    BY <1>3, <2>4, <2>5, UnchangedType DEF DropEntry, enqVars, catchVars, disk, history
<1> QED
  BY <1>1, <1>2, <1>3 DEF Enqueue

LEMMA TypeApplyFile ==
    ASSUME TypeOK, NEW p \in Paths, ApplyFile(p)
    PROVE  TypeOK'
<1> USE TypeParts
<1>1. PICK v \in Versions \cap {manifest[p], manifest[p] + 1} :
        /\ manifest' = [manifest EXCEPT ![p] = v]
        /\ IF p \in SelfPaths THEN UNCHANGED call ELSE StartCall("callback", p, v)
  BY DEF ApplyFile
<1>2. call' \in [Callers -> CallStates]
  BY <1>1, StartCallType DEF CallType, Callers
<1>3. CallType'
  BY <1>2 DEF ApplyFile, CallType
<1>4. NodeType'
  <2>1. manifest' \in [Paths -> Versions \cup {0}]
    BY <1>1 DEF NodeType
  <2>2. applies' \in 0..MaxApplies
    BY PullerConstants DEF ApplyFile, NodeType
  <2> QED
    BY <2>1, <2>2 DEF ApplyFile, NodeType
<1> QED
  BY <1>3, <1>4, UnchangedType DEF ApplyFile, enqVars, catchVars, disk, history

-----------------------------------------------------------------------------
(* The steps of the walker.                                                *)

LEMMA NextEntryType == walker \in WalkerStates => NextEntry \in WalkerStates
BY DEF NextEntry, WalkerStates

LEMMA FetchPageType ==
    ASSUME TypeOK, FetchPage
    PROVE  walker' \in WalkerStates
<1> USE TypeParts
<1> DEFINE rest == {p \in Paths : manifest[p] # 0 /\ p > walker.cursor}
           keys == {p \in rest : Cardinality({q \in rest : q < p}) < PageSize}
           page == {[path |-> p, ver |-> manifest[p]] : p \in keys}
<1>1. \A p \in keys : p \in Paths /\ manifest[p] \in Versions
  BY DEF NodeType
<1>2. page \subseteq Entry
  <2> HIDE DEF keys
  <2> QED
    BY <1>1 DEF Entry
<1>3. PICK next \in keys \cup {0} :
        walker' = IF stopped THEN [walker EXCEPT !.pc = "aborted"]
                  ELSE IF keys = {} THEN [walker EXCEPT !.pc = "done"]
                  ELSE [pc |-> "entry", cursor |-> next, page |-> page]
  BY DEF FetchPage
<1>4. next \in Paths \cup {0}
  BY <1>1
<1> HIDE DEF keys, page
<1>5. CASE walker' = [pc |-> "entry", cursor |-> next, page |-> page]
  BY <1>2, <1>4, <1>5 DEF WalkerStates
<1>6. CASE walker' = [walker EXCEPT !.pc = "aborted"] \/ walker' = [walker EXCEPT !.pc = "done"]
  BY <1>6 DEF CatchUpType, WalkerStates
<1> QED
  BY <1>3, <1>5, <1>6

LEMMA TypeWalk == TypeOK /\ Walk => TypeOK'
<1> SUFFICES ASSUME TypeOK, Walk PROVE TypeOK'
  OBVIOUS
<1> USE TypeParts
<1>0. walker \in WalkerStates /\ NextEntry \in WalkerStates
  BY NextEntryType DEF CatchUpType
<1>1. CASE FetchPage
  <2>1. CatchUpType'
    BY <1>1, FetchPageType DEF FetchPage, CatchUpType, catchVars, history
  <2> QED
    BY <1>1, <2>1, UnchangedType DEF FetchPage, enqVars, catchVars, disk, history
<1>2. CASE WalkerAborts
  <2>1. CatchUpType'
    BY <1>2 DEF WalkerAborts, CatchUpType, WalkerStates, catchVars, history
  <2> QED
    BY <1>2, <2>1, UnchangedType DEF WalkerAborts, enqVars, catchVars, disk, history
<1>3. CASE SkipSelf
  <2>1. CatchUpType'
    BY <1>0, <1>3 DEF SkipSelf, CatchUpType, catchVars, history
  <2> QED
    BY <1>3, <2>1, UnchangedType DEF SkipSelf, enqVars, catchVars, disk, history
<1>4. CASE MarkCatchUp
  <2>1. PICK e \in First(walker.page) :
          /\ tags' = tags \cup {e.path}
          /\ StartCall("walker", e.path, e.ver)
          /\ walked' = [walked EXCEPT ![e.path] = e.ver]
          /\ excused' \subseteq excused \cup {e.path}
    BY <1>4 DEF MarkCatchUp
  <2>2. e.path \in Paths /\ e.ver \in Versions
    BY <1>0 DEF First, WalkerStates, Entry
  <2>3. CallType'
    BY <1>4, <2>1, <2>2, StartCallType DEF MarkCatchUp, CallType, Callers
  <2>4. CatchUpType'
    <3>1. walker' \in WalkerStates
      BY <1>0, <1>4 DEF MarkCatchUp, WalkerStates
    <3>2. walked' \in [Paths -> Versions \cup {0}]
      BY <2>1, <2>2 DEF CatchUpType
    <3> QED
      BY <1>4, <2>1, <2>2, <3>1, <3>2 DEF MarkCatchUp, CatchUpType, catchVars
  <2> QED
    BY <1>4, <2>3, <2>4, UnchangedType DEF MarkCatchUp, disk
<1>5. CASE Classify
  <2>1. call["walker"].path \in Paths
    BY <1>5 DEF Classify, CallType, CallStates, Callers
  <2>2. NoCall \in CallStates
    BY DEF NoCall, CallStates
  <2>3. call' \in [Callers -> CallStates]
    BY <1>5, <2>2 DEF Classify, CallType, Callers
  <2>4. CallType'
    BY <1>5, <2>3 DEF Classify, CallType
  <2>5. CatchUpType'
    BY <1>0, <1>5, <2>1 DEF Classify, CatchUpType
  <2> QED
    BY <1>5, <2>4, <2>5, UnchangedType DEF Classify, disk
<1> QED
  BY <1>1, <1>2, <1>3, <1>4, <1>5 DEF Walk

-----------------------------------------------------------------------------
(* The steps of a worker.                                                  *)

\* The records that the steps of a worker leave behind.
LEMMA TakenJob ==
    ASSUME NEW e \in Entry
    PROVE  LET r == [Idle EXCEPT !.pc = "attempt", !.attempt = 1, !.path = e.path, !.ver = e.ver] IN
           r \in WorkerStates /\ HasEntry(r)
BY DEF Entry, Idle, WorkerStates, HasEntry

LEMMA FailedJob ==
    ASSUME NEW j \in WorkerStates, j.path \in Paths, j.ver \in Versions
    PROVE  AttemptFailed(j) \in WorkerStates /\ HasEntry(AttemptFailed(j))
<1>1. ASSUME NEW a \in Nat
      PROVE  LET r == [j EXCEPT !.attempt = a, !.pc = "attempt", !.peers = 0] IN
             r \in WorkerStates /\ HasEntry(r)
  BY DEF WorkerStates, HasEntry
<1>2. LET r == [j EXCEPT !.out = "failed", !.pc = "settle", !.peers = 0] IN
      r \in WorkerStates /\ HasEntry(r)
  BY DEF WorkerStates, HasEntry
<1>3. j.attempt + 1 \in Nat
  BY DEF WorkerStates
<1> QED
  BY <1>1, <1>2, <1>3 DEF AttemptFailed

LEMMA NextPeerJob ==
    ASSUME NEW j \in WorkerStates, j.path \in Paths, j.ver \in Versions
    PROVE  PeerFailed(j) \in WorkerStates /\ HasEntry(PeerFailed(j))
BY FailedJob DEF PeerFailed, WorkerStates, HasEntry

LEMMA NoPeersJob ==
    ASSUME NEW j \in WorkerStates, j.path \in Paths, j.ver \in Versions
    PROVE  NoPeers(j) \in WorkerStates /\ HasEntry(NoPeers(j))
BY DEF NoPeers, WorkerStates, HasEntry

LEMMA TypeWork ==
    ASSUME TypeOK, NEW w \in Workers, Work(w)
    PROVE  TypeOK'
<1> USE TypeParts
<1> DEFINE j == worker[w]
<1>0. j \in WorkerStates /\ (j.pc \notin {"idle", "exited"} => j.path \in Paths /\ j.ver \in Versions)
  BY DEF WorkType, HasEntry
<1>1. CASE WorkerTakes(w)
  <2>1. Head(queue) \in Entry /\ QueueType'
    <3>1. queue \in Seq(Entry) /\ queue # <<>> /\ queue' = Tail(queue)
      BY <1>1 DEF WorkerTakes, TakeHead, QueueType
    <3>2. Tail(queue) \in Seq(Entry) /\ Len(Tail(queue)) = Len(queue) - 1
      BY <3>1, HeadTailProperties
    <3> QED
      BY <3>1, <3>2, PullerConstants DEF QueueType
  <2>2. WorkType'
    BY <1>1, <2>1, TakenJob, WorkerStep DEF WorkerTakes, TakeHead
  <2> QED
    BY <1>1, <2>1, <2>2, UnchangedType DEF WorkerTakes, TakeHead, catchVars, disk, history
<1>2. CASE WorkerExits(w)
  <2>1. WorkType'
    BY <1>0, <1>2 DEF WorkerExits, WorkType, WorkerStates, HasEntry
  <2> QED
    BY <1>2, <2>1, UnchangedType DEF WorkerExits, enqVars, catchVars, disk, history
<1>3. CASE Cancelled(w)
  <2>1. WorkType'
    BY <1>0, <1>3 DEF Cancelled, WorkType, WorkerStates, HasEntry
  <2> QED
    BY <1>3, <2>1, UnchangedType DEF Cancelled, enqVars, catchVars, disk, history
<1>4. CASE StartAttempt(w)
  <2>0. j.path \in Paths /\ j.ver \in Versions
    BY <1>0, <1>4 DEF StartAttempt
  <2>1. PICK r : worker' = [worker EXCEPT ![w] = r]
                 /\ \/ r = [j EXCEPT !.out = "succeeded", !.pc = "settle"]
                    \/ \E n \in 1..MaxPeers : r = [j EXCEPT !.peers = n, !.pc = "pull"]
                    \/ r = NoPeers(j)
    BY <1>4 DEF StartAttempt
  <2>2. r \in WorkerStates /\ HasEntry(r)
    <3>1. CASE r = [j EXCEPT !.out = "succeeded", !.pc = "settle"]
      BY <1>0, <2>0, <3>1 DEF WorkerStates, HasEntry
    <3>2. CASE \E n \in 1..MaxPeers : r = [j EXCEPT !.peers = n, !.pc = "pull"]
      <4>1. PICK n \in Nat : r = [j EXCEPT !.peers = n, !.pc = "pull"]
        <5>1. 1..MaxPeers \subseteq Nat
          BY PullerConstants
        <5> QED
          BY <3>2, <5>1
      <4> QED
        BY <1>0, <2>0, <4>1 DEF WorkerStates, HasEntry
    <3> QED
      BY <1>0, <2>0, <2>1, <3>1, <3>2, NoPeersJob
  <2>3. WorkType'
    BY <2>1, <2>2, WorkerStep
  <2>4. CatchUpType'
    BY <1>4, <2>0 DEF StartAttempt, CatchUpType, catchVars
  <2> QED
    BY <1>4, <2>3, <2>4, UnchangedType DEF StartAttempt, enqVars, catchVars, disk
<1>5. CASE PullRefused(w)
  <2>0. j.path \in Paths /\ j.ver \in Versions
    BY <1>0, <1>5 DEF PullRefused, Pulling
  <2>1. worker' = [worker EXCEPT ![w] = PeerFailed(j)] \/ worker' = [worker EXCEPT ![w] = AttemptFailed(j)]
    BY <1>5 DEF PullRefused
  <2>2. WorkType'
    BY <1>0, <2>0, <2>1, FailedJob, NextPeerJob, WorkerStep
  <2>3. DiskType'
    BY <1>5 DEF PullRefused, DiskType
  <2> QED
    BY <1>5, <2>2, <2>3, UnchangedType DEF PullRefused, enqVars, catchVars, history
<1>6. CASE PullBroken(w)
  <2>0. j.path \in Paths /\ j.ver \in Versions
    BY <1>0, <1>6 DEF PullBroken, Pulling
  <2>2. WorkType'
    BY <1>0, <1>6, <2>0, NextPeerJob, WorkerStep DEF PullBroken
  <2>3. DiskType'
    BY <1>6 DEF PullBroken, DiskType
  <2> QED
    BY <1>6, <2>2, <2>3, UnchangedType DEF PullBroken, enqVars, catchVars, history
<1>7. CASE PullReceived(w)
  <2>0. j.path \in Paths /\ j.ver \in Versions
    BY <1>0, <1>7 DEF PullReceived, Pulling
  <2>1. \/ worker' = [worker EXCEPT ![w] = [j EXCEPT !.out = "succeeded", !.pc = "settle", !.peers = 0]]
        \/ worker' = [worker EXCEPT ![w] = AttemptFailed(j)]
    BY <1>7 DEF PullReceived
  <2>2. LET r == [j EXCEPT !.out = "succeeded", !.pc = "settle", !.peers = 0] IN
        r \in WorkerStates /\ HasEntry(r)
    BY <1>0, <2>0 DEF WorkerStates, HasEntry
  <2>3. WorkType'
    BY <1>0, <2>0, <2>1, <2>2, FailedJob, WorkerStep
  <2>4. DiskType'
    BY <1>7 DEF PullReceived, DiskType
  <2> QED
    BY <1>7, <2>3, <2>4, UnchangedType DEF PullReceived, enqVars, catchVars, history
<1>8. CASE Settle(w)
  <2>0. j.path \in Paths /\ j.ver \in Versions
    BY <1>0, <1>8 DEF Settle
  <2>1. LET r == [Idle EXCEPT !.pc = "release", !.path = j.path, !.ver = j.ver] IN
        r \in WorkerStates /\ HasEntry(r)
    BY <2>0 DEF Idle, WorkerStates, HasEntry
  <2>2. WorkType'
    BY <1>8, <2>1, WorkerStep DEF Settle
  <2>3. CatchUpType'
    BY <1>8, <2>0 DEF Settle, CatchUpType, history
  <2> QED
    BY <1>8, <2>2, <2>3, UnchangedType DEF Settle, enqVars, disk
<1>9. CASE ReleaseInflight(w)
  <2>1. WorkType'
    BY <1>0, <1>9 DEF ReleaseInflight, WorkType, WorkerStates, HasEntry
  <2>2. CallType'
    BY <1>9 DEF ReleaseInflight, CallType
  <2> QED
    BY <1>9, <2>1, <2>2, UnchangedType DEF ReleaseInflight, catchVars, disk, history
<1>10. CASE ReleaseTag(w)
  <2>1. Idle \in WorkerStates /\ HasEntry(Idle)
    BY DEF Idle, WorkerStates, HasEntry
  <2>2. WorkType'
    BY <1>10, <2>1, WorkerStep DEF ReleaseTag
  <2>3. CallType'
    BY <1>10 DEF ReleaseTag, CallType
  <2> QED
    BY <1>10, <2>2, <2>3, UnchangedType DEF ReleaseTag, catchVars, disk, history
<1> QED
  BY <1>1, <1>2, <1>3, <1>4, <1>5, <1>6, <1>7, <1>8, <1>9, <1>10 DEF Work

-----------------------------------------------------------------------------
(* Type correctness.                                                       *)

LEMMA TypeGate == TypeOK /\ (FullyCaughtUp \/ GateReturns) => TypeOK'
<1> SUFFICES ASSUME TypeOK, FullyCaughtUp \/ GateReturns PROVE TypeOK'
  OBVIOUS
<1> USE TypeParts
<1>1. PICK from \in {"idle", "completed", "drained", "unfailed", "open"},
           ok \in BOOLEAN,
           to \in {"idle", "completed", "drained", "unfailed", "open"} : Load(from, ok, to)
  BY DEF FullyCaughtUp, GateReturns, Completed
<1>2. NodeType'
  BY <1>1 DEF Load, NodeType
<1> QED
  BY <1>1, <1>2, UnchangedType DEF Load, enqVars, catchVars, disk, history

LEMMA TypeStop == TypeOK /\ Stop => TypeOK'
<1> SUFFICES ASSUME TypeOK, Stop PROVE TypeOK'
  OBVIOUS
<1> USE TypeParts
<1>1. NodeType'
  BY DEF Stop, NodeType
<1> QED
  BY <1>1, UnchangedType DEF Stop, enqVars, catchVars, disk, history

LEMMA TypeNext == TypeOK /\ [Next]_vars => TypeOK'
<1> SUFFICES ASSUME TypeOK, [Next]_vars PROVE TypeOK'
  OBVIOUS
<1>1. CASE Next
  BY <1>1, TypeApplyFile, TypeEnqueue, TypeWalk, TypeWork, TypeGate, TypeStop DEF Next, Callers
<1>2. CASE UNCHANGED vars
  BY <1>2, TypeParts, UnchangedType DEF vars, enqVars, catchVars, disk, history
<1> QED
  BY <1>1, <1>2

\* The queue never holds more than QueueSize entries, and every call and every
\* busy worker has a registered entry (Enqueue, worker).
THEOREM TypeCorrect == Spec => []TypeOK
BY TypeInit, TypeNext, PTL DEF Spec

-----------------------------------------------------------------------------
(* TagsOwned.  It is inductive together with the fact that the walker has  *)
(* no call under way while it is not classifying one.                      *)

TagOwner(p) ==
    \/ p \in inflight
    \/ \E w \in Workers : worker[w].pc = "untag" /\ worker[w].path = p
    \/ \E c \in Callers : call[c].pc = "drop" /\ call[c].path = p
    \/ call["walker"].pc = "add" /\ call["walker"].path = p

TagInv ==
    /\ \A p \in tags : TagOwner(p)
    /\ walker.pc # "classify" => call["walker"].pc = "none"

LEMMA TagInvInit == Init => TagInv
BY DEF Init, TagInv, NoCall, Callers

LEMMA TagEnqueue ==
    ASSUME TypeOK, TagInv, NEW c \in Callers, Enqueue(c)
    PROVE  TagInv'
<1> USE TypeParts DEF Callers
<1>0. call \in [Callers -> CallStates]
  BY DEF CallType
<1>1. CASE InflightAdd(c)
  BY <1>0, <1>1 DEF InflightAdd, TagInv, TagOwner, Return, NoCall, CallStates
<1>2. CASE SendEntry(c)
  BY <1>0, <1>2 DEF SendEntry, TagInv, TagOwner, Return, NoCall, CallStates
<1>3. CASE DropEntry(c)
  BY <1>0, <1>3 DEF DropEntry, TagInv, TagOwner, Return, NoCall, CallStates
<1> QED
  BY <1>1, <1>2, <1>3 DEF Enqueue

LEMMA TagWalk == TypeOK /\ TagInv /\ Walk => TagInv'
<1> SUFFICES ASSUME TypeOK, TagInv, Walk PROVE TagInv'
  OBVIOUS
<1> USE TypeParts DEF Callers
<1>0. walker \in WalkerStates /\ call \in [Callers -> CallStates]
  BY DEF CatchUpType, CallType
<1>1. CASE FetchPage
  BY <1>0, <1>1 DEF FetchPage, TagInv, TagOwner, enqVars, WalkerStates
<1>2. CASE WalkerAborts
  BY <1>0, <1>2 DEF WalkerAborts, TagInv, TagOwner, enqVars, WalkerStates
<1>3. CASE SkipSelf
  BY <1>0, <1>3 DEF SkipSelf, NextEntry, TagInv, TagOwner, enqVars, WalkerStates
<1>4. CASE MarkCatchUp
  <2>1. PICK e \in First(walker.page) : tags' = tags \cup {e.path} /\ StartCall("walker", e.path, e.ver)
    BY <1>4 DEF MarkCatchUp
  <2>2. call["walker"].pc = "none"
    BY <1>4 DEF MarkCatchUp, TagInv
  <2>3. call'["walker"].pc = "add" /\ call'["walker"].path = e.path /\ call'["callback"] = call["callback"]
    BY <1>0, <2>1 DEF StartCall
  <2>4. \A p \in tags' : TagOwner(p)'
    BY <1>4, <2>1, <2>2, <2>3 DEF MarkCatchUp, TagInv, TagOwner
  <2>5. walker'.pc = "classify"
    BY <1>0, <1>4 DEF MarkCatchUp, WalkerStates
  <2> QED
    BY <2>4, <2>5 DEF TagInv
<1>5. CASE Classify
  <2>1. tags' \subseteq tags /\ call' = [call EXCEPT !["walker"] = NoCall]
    BY <1>5 DEF Classify
  <2>2. call["walker"].pc = "returned"
    BY <1>5 DEF Classify
  <2>3. call'["walker"].pc = "none" /\ call'["callback"] = call["callback"]
    BY <1>0, <2>1 DEF NoCall
  <2> QED
    BY <1>5, <2>1, <2>2, <2>3 DEF Classify, TagInv, TagOwner
<1> QED
  BY <1>1, <1>2, <1>3, <1>4, <1>5 DEF Walk

LEMMA TagWork ==
    ASSUME TypeOK, TagInv, NEW w \in Workers, Work(w)
    PROVE  TagInv'
<1> USE TypeParts DEF Callers
<1>0. worker \in [Workers -> WorkerStates]
  BY DEF WorkType
<1>1. CASE UNCHANGED <<inflight, tags, call, walker>> /\ worker[w].pc # "untag"
           /\ \E r : worker' = [worker EXCEPT ![w] = r]
  BY <1>0, <1>1 DEF TagInv, TagOwner
<1>2. CASE ReleaseInflight(w)
  BY <1>0, <1>2 DEF ReleaseInflight, TagInv, TagOwner, WorkerStates
<1>3. CASE ReleaseTag(w)
  BY <1>0, <1>3 DEF ReleaseTag, TagInv, TagOwner
<1>4. CASE WorkerTakes(w) \/ WorkerExits(w) \/ Cancelled(w) \/ Settle(w)
  BY <1>1, <1>4 DEF WorkerTakes, TakeHead, WorkerExits, Cancelled, Settle, enqVars
<1>5. CASE StartAttempt(w)
  BY <1>1, <1>5 DEF StartAttempt, enqVars
<1>6. CASE PullRefused(w) \/ PullBroken(w)
  BY <1>1, <1>6 DEF PullRefused, PullBroken, Pulling, enqVars
<1>7. CASE PullReceived(w)
  BY <1>1, <1>7 DEF PullReceived, Pulling, enqVars
<1> QED
  BY <1>2, <1>3, <1>4, <1>5, <1>6, <1>7 DEF Work

LEMMA TagNext == TypeOK /\ TagInv /\ [Next]_vars => TagInv'
<1> SUFFICES ASSUME TypeOK, TagInv, [Next]_vars PROVE TagInv'
  OBVIOUS
<1>1. ASSUME NEW p \in Paths, ApplyFile(p)
      PROVE  TagInv'
  <2>1. call["callback"].pc = "none" /\ call \in [Callers -> CallStates]
    BY <1>1, TypeParts DEF ApplyFile, NotCalling, CallType
  <2>2. call'["walker"] = call["walker"]
    BY <1>1, <2>1 DEF ApplyFile, StartCall, Callers
  <2> QED
    BY <1>1, <2>1, <2>2 DEF ApplyFile, TagInv, TagOwner, Callers
<1>2. ASSUME UNCHANGED <<inflight, tags, call, walker, worker>>
      PROVE  TagInv'
  BY <1>2 DEF TagInv, TagOwner
<1>3. CASE FullyCaughtUp \/ GateReturns \/ Stop \/ UNCHANGED vars
  BY <1>2, <1>3 DEF FullyCaughtUp, GateReturns, Load, Stop, vars, enqVars
<1> QED
  BY <1>1, <1>3, TagEnqueue, TagWalk, TagWork DEF Next, Callers

\* No catch-up tag is left without what removes it: a path in flight, a release
\* or a drop on its way, or the walker's own call (markCatchUp, inflightRemove).
THEOREM TagsOwnedCorrect == Spec => []TagsOwned
<1>1. TypeOK /\ TagInv => TagsOwned
  BY TypeParts DEF TagInv, TagOwner, TagsOwned, CallType, Callers
<1> QED
  BY <1>1, TypeInit, TypeNext, TagInvInit, TagNext, PTL DEF Spec

-----------------------------------------------------------------------------
(* FinalVerified.  The digest covers the prefix that was read, and the     *)
(* bytes go behind the staging file: they agree when the digest does.      *)

\* A nonempty prefix of a verified file that is itself a whole version is all of it.
LEMMA WholePrefix ==
    ASSUME NEW u \in Versions, NEW v \in Versions, NEW k \in Nat, NEW b,
           Content(u) \o Blocks(k, b) = Content(v)
    PROVE  u = v
<1>1. /\ SizeOf[u] \in Nat \ {0} /\ SizeOf[v] \in Nat \ {0}
      /\ Content(u) = [i \in 1..SizeOf[u] |-> u] /\ Content(v) = [i \in 1..SizeOf[v] |-> v]
  BY PullerConstants DEF Versions, Content
<1>2. Content(u) \in Seq(Nat) /\ Len(Content(u)) = SizeOf[u] /\ Content(u)[1] = u
  BY <1>1, PullerConstants DEF Versions
<1>3. Blocks(k, b) \in Seq({b}) /\ Len(Blocks(k, b)) = k
  BY DEF Blocks
<1>4. Content(u) \in Seq(Nat \cup {b}) /\ Blocks(k, b) \in Seq(Nat \cup {b})
  BY <1>2, <1>3
<1>5. (Content(u) \o Blocks(k, b))[1] = u
  BY <1>1, <1>2, <1>4, ConcatProperties
<1>6. Content(v)[1] = v
  BY <1>1
<1> QED
  BY <1>5, <1>6

\* What PullReceived promotes is the whole version that was asked for.
LEMMA Promoted ==
    ASSUME FinalVerified, NEW j, j.path \in Paths, j.ver \in Versions, NEW b \in {j.ver, 0},
           Verified(j, Blocks(SizeOf[j.ver] - Len(Prefix(j)), b))
    PROVE  Staged(j) \o Blocks(SizeOf[j.ver] - Len(Prefix(j)), b) = Content(j.ver)
<1> DEFINE body == Blocks(SizeOf[j.ver] - Len(Prefix(j)), b)
<1>0. Prefix(j) \o body = Content(j.ver)
  BY DEF Verified
<1>1. CASE Prefix(j) = <<>>
  BY <1>0, <1>1 DEF Staged
<1>2. CASE Prefix(j) # <<>> /\ final[j.path] = NoFile
  BY <1>0, <1>2 DEF Staged, Prefix, OnDisk
<1>3. CASE Prefix(j) # <<>> /\ final[j.path] # NoFile
  <2>1. PICK u \in Versions : final[j.path] = Content(u)
    BY <1>3 DEF FinalVerified
  <2>2. Prefix(j) = Content(u) /\ Len(Content(u)) < SizeOf[j.ver]
    BY <1>3, <2>1 DEF Prefix, OnDisk, StatFile
  <2>3. Len(Content(u)) = SizeOf[u] /\ SizeOf[u] \in Nat /\ SizeOf[j.ver] \in Nat
    BY PullerConstants DEF Content, Versions
  <2>4. SizeOf[j.ver] - Len(Prefix(j)) \in Nat
    BY <2>2, <2>3
  <2>5. u = j.ver
    BY <1>0, <2>2, <2>4, WholePrefix
  <2> QED
    BY <2>2, <2>3, <2>5
<1> QED
  BY <1>1, <1>2, <1>3

\* At the start a final file is the first version.
LEMMA FinalInit == Init => FinalVerified
<1>1. 1 \in Versions
  BY PullerConstants DEF Versions
<1> QED
  BY <1>1 DEF Init, FinalVerified

\* A pull promotes a whole version or removes what is there.
LEMMA FinalPull ==
    ASSUME TypeOK, FinalVerified, NEW w \in Workers, PullRefused(w) \/ PullReceived(w)
    PROVE  FinalVerified'
<1> DEFINE j == worker[w]
<1>0. j.path \in Paths /\ j.ver \in Versions /\ DOMAIN final = Paths
  BY DEF TypeOK, HasEntry, PullRefused, PullReceived, Pulling
<1>1. \/ final' = final
      \/ final' = [final EXCEPT ![j.path] = NoFile]
      \/ final' = [final EXCEPT ![j.path] = Content(j.ver)]
  <2>1. CASE PullRefused(w)
    BY <2>1 DEF PullRefused
  <2>2. CASE PullReceived(w)
    <3>1. PICK b \in {j.ver, 0} :
            \/ Verified(j, Blocks(SizeOf[j.ver] - Len(Prefix(j)), b))
               /\ final' = [final EXCEPT ![j.path] = Staged(j) \o Blocks(SizeOf[j.ver] - Len(Prefix(j)), b)]
            \/ final' = [final EXCEPT ![j.path] = NoFile]
      BY <2>2 DEF PullReceived
    <3> QED
      BY <1>0, <3>1, Promoted
  <2> QED
    BY <2>1, <2>2
<1>2. \A p \in Paths : \/ final'[p] = final[p] \/ final'[p] = NoFile
                       \/ p = j.path /\ final'[p] = Content(j.ver)
  BY <1>0, <1>1
<1> QED
  BY <1>0, <1>2 DEF FinalVerified

\* Only a pull changes a final file.
LEMMA FinalElse ==
    ASSUME [Next]_vars, \A w \in Workers : ~PullRefused(w) /\ ~PullReceived(w)
    PROVE  final' = final
BY DEF Next, ApplyFile, Enqueue, InflightAdd, SendEntry, DropEntry, Walk, FetchPage, WalkerAborts, SkipSelf,
       MarkCatchUp, Classify, Work, WorkerTakes, TakeHead, WorkerExits, Cancelled, StartAttempt, PullBroken,
       Settle, ReleaseInflight, ReleaseTag, FullyCaughtUp, GateReturns, Load, Stop, vars, disk

\* Every step keeps final files whole.
LEMMA FinalNext == TypeOK /\ FinalVerified /\ [Next]_vars => FinalVerified'
<1> SUFFICES ASSUME TypeOK, FinalVerified, [Next]_vars PROVE FinalVerified'
  OBVIOUS
<1>1. ASSUME final' = final PROVE FinalVerified'
  BY <1>1 DEF FinalVerified
<1> QED
  BY <1>1, FinalElse, FinalPull

\* Whatever peers serve and however a fetch resumes, a file gets its final name only as one whole
\* version (tryResumeFromPartial, AppendReader).
THEOREM FinalVerifiedCorrect == Spec => []FinalVerified
BY TypeInit, TypeNext, FinalInit, FinalNext, PTL DEF Spec

-----------------------------------------------------------------------------
(* InflightExact.  One holder per path in flight, kind by kind.            *)

\* Who holds a path: a busy worker, a queued entry, or a call about to send.
Holding(j) == j.pc \in {"attempt", "pull", "settle", "release"}
Queued(p)  == \E i \in 1..Len(queue) : queue[i].path = p
Working(p) == \E w \in Workers : Holding(worker[w]) /\ worker[w].path = p
Sending(p) == \E c \in Callers : call[c].pc = "send" /\ call[c].path = p

\* The in-flight set is what is queued, worked on or about to be sent, and no path is two of these.
OneKind ==
    \A p \in Paths :
        /\ p \in inflight <=> Queued(p) \/ Working(p) \/ Sending(p)
        /\ Queued(p) => ~Working(p) /\ ~Sending(p)
        /\ Working(p) => ~Sending(p)

\* No two queued entries, busy workers or calls hold the same path.
OneOfKind ==
    /\ \A i, k \in 1..Len(queue) : i # k => queue[i].path # queue[k].path
    /\ \A v, w \in Workers : v # w /\ Holding(worker[v]) /\ Holding(worker[w]) => worker[v].path # worker[w].path
    /\ \A c, d \in Callers : c # d /\ call[c].pc = "send" /\ call[d].pc = "send" => call[c].path # call[d].path

\* The inductive invariant behind InflightExact.
HeldOnce == OneKind /\ OneOfKind

\* Nothing is in flight at the start.
LEMMA HeldInit == Init => HeldOnce
BY DEF Init, HeldOnce, OneKind, OneOfKind, Queued, Working, Sending, Holding, Idle, NoCall, Callers

\* A worker that goes on with its path, or has none before and after.
LEMMA HeldWorker ==
    ASSUME HeldOnce, TypeOK, NEW w \in Workers, NEW r, worker' = [worker EXCEPT ![w] = r],
           Holding(r) <=> Holding(worker[w]), Holding(r) => r.path = worker[w].path,
           UNCHANGED <<queue, inflight, call>>
    PROVE  HeldOnce'
<1>1. \A v \in Workers : /\ Holding(worker'[v]) <=> Holding(worker[v])
                         /\ Holding(worker[v]) => worker'[v].path = worker[v].path
  <2>1. \A v \in Workers : worker'[v] = IF v = w THEN r ELSE worker[v]
    BY TypeParts DEF WorkType
  <2> QED
    BY <2>1
<1>2. \A p : /\ Queued(p)' <=> Queued(p)
             /\ Working(p)' <=> Working(p)
             /\ Sending(p)' <=> Sending(p)
  BY <1>1 DEF Queued, Working, Sending, Holding
<1>3. OneKind'
  BY <1>2 DEF HeldOnce, OneKind
<1>4. OneOfKind'
  BY <1>1 DEF HeldOnce, OneOfKind, Holding
<1> QED
  BY <1>3, <1>4 DEF HeldOnce

\* A call that neither starts nor stops sending.
LEMMA HeldCall ==
    ASSUME HeldOnce, UNCHANGED <<queue, inflight, worker>>,
           \A c \in Callers : /\ call'[c].pc = "send" <=> call[c].pc = "send"
                              /\ call[c].pc = "send" => call'[c].path = call[c].path
    PROVE  HeldOnce'
<1>1. \A p : /\ Queued(p)' <=> Queued(p)
             /\ Working(p)' <=> Working(p)
             /\ Sending(p)' <=> Sending(p)
  BY DEF Queued, Working, Sending, Holding
<1>2. OneKind'
  BY <1>1 DEF HeldOnce, OneKind
<1>3. OneOfKind'
  BY DEF HeldOnce, OneOfKind, Holding
<1> QED
  BY <1>2, <1>3 DEF HeldOnce

\* Nothing changes hands.
LEMMA HeldSame ==
    ASSUME HeldOnce, UNCHANGED <<queue, inflight, call, worker>>
    PROVE  HeldOnce'
BY HeldCall

\* Enqueue adds its path once, hands it to the queue, or lets it go.
LEMMA HeldEnqueue ==
    ASSUME TypeOK, HeldOnce, NEW c \in Callers, Enqueue(c)
    PROVE  HeldOnce'
<1> USE TypeParts
<1> DEFINE p == call[c].path
<1>0. call \in [Callers -> CallStates] /\ queue \in Seq(Entry) /\ inflight \subseteq Paths
  BY DEF CallType, QueueType
<1>1. ASSUME NEW out, call[c].pc # "send", Return(c, out), UNCHANGED <<queue, inflight, worker>>
      PROVE  HeldOnce'
  <2>1. \A d \in Callers : IF d = c THEN call'[d].pc \in {"none", "returned"} ELSE call'[d] = call[d]
    BY <1>0, <1>1 DEF Return, NoCall, CallStates
  <2> QED
    BY <1>1, <2>1, HeldCall
<1>2. CASE InflightAdd(c) /\ p \in inflight
  BY <1>1, <1>2 DEF InflightAdd
<1>3. CASE InflightAdd(c) /\ p \notin inflight
  <2>0. call[c].pc = "add" /\ p \in Paths
    BY <1>0, <1>3, Positive DEF InflightAdd, CallStates
  <2>1. \A d \in Callers : /\ call'[d].pc = IF d = c THEN "send" ELSE call[d].pc
                           /\ call'[d].path = call[d].path
    BY <1>0, <1>3 DEF InflightAdd, CallStates
  <2>2. inflight' = inflight \cup {p} /\ UNCHANGED <<queue, worker>>
    BY <1>3 DEF InflightAdd
  <2>3. \A q : /\ Queued(q)' <=> Queued(q)
               /\ Working(q)' <=> Working(q)
               /\ Sending(q)' <=> Sending(q) \/ q = p
    BY <2>0, <2>1, <2>2 DEF Queued, Working, Sending, Holding
  <2>4. ~Queued(p) /\ ~Working(p) /\ ~Sending(p)
    BY <1>3, <2>0 DEF HeldOnce, OneKind
  <2>5. OneKind'
    BY <2>2, <2>3, <2>4 DEF HeldOnce, OneKind
  <2>6. \A d \in Callers : call[d].pc = "send" => call[d].path # p
    BY <2>4 DEF Sending
  <2>7. OneOfKind'
    BY <2>0, <2>1, <2>2, <2>6 DEF HeldOnce, OneOfKind, Holding
  <2> QED
    BY <2>5, <2>7 DEF HeldOnce
<1>4. CASE SendEntry(c)
  <2>0. call[c].pc = "send" /\ p \in Paths /\ UNCHANGED worker
    BY <1>0, <1>4, Positive DEF SendEntry, CallStates
  <2>1. \A d \in Callers : IF d = c THEN call'[d].pc # "send" ELSE call'[d] = call[d]
    <3>1. CASE HasRoom
      <4>1. Return(c, "enqueued")
        BY <1>4, <3>1 DEF SendEntry
      <4> QED
        BY <1>0, <4>1 DEF Return, NoCall, CallStates
    <3>2. CASE ~HasRoom
      <4>1. call' = [call EXCEPT ![c].pc = "drop"]
        BY <1>4, <3>2 DEF SendEntry
      <4> QED
        BY <1>0, <4>1 DEF CallStates
    <3> QED
      BY <3>1, <3>2
  <2>2. Sending(p) /\ ~Queued(p) /\ ~Working(p)
    BY <2>0 DEF Sending, HeldOnce, OneKind
  <2>3. \A q : /\ Working(q)' <=> Working(q)
               /\ Sending(q)' <=> Sending(q) /\ q # p
    BY <2>0, <2>1 DEF Working, Holding, Sending, HeldOnce, OneOfKind
  <2>4. CASE HasRoom
    <3>0. queue' = Append(queue, [path |-> p, ver |-> call[c].ver]) /\ inflight' = inflight
      BY <1>4, <2>4 DEF SendEntry
    <3>1. /\ Len(queue') = Len(queue) + 1 /\ Len(queue) \in Nat
          /\ \A i \in 1..Len(queue) : queue'[i] = queue[i]
          /\ queue'[Len(queue) + 1].path = p
      BY <1>0, <3>0, AppendProperties
    <3>2. \A q : Queued(q)' <=> Queued(q) \/ q = p
      BY <3>1 DEF Queued
    <3>3. OneKind'
      BY <2>2, <2>3, <3>0, <3>2 DEF HeldOnce, OneKind
    <3>4. \A i \in 1..Len(queue) : queue[i].path # p
      BY <2>2 DEF Queued
    <3>5. \A i, k \in 1..Len(queue') : i # k => queue'[i].path # queue'[k].path
      BY <3>1, <3>4 DEF HeldOnce, OneOfKind
    <3>6. OneOfKind'
      BY <2>0, <2>1, <3>5 DEF HeldOnce, OneOfKind, Holding
    <3> QED
      BY <3>3, <3>6 DEF HeldOnce
  <2>5. CASE ~HasRoom
    <3>0. queue' = queue /\ inflight' = inflight \ {p}
      BY <1>4, <2>5 DEF SendEntry
    <3>1. \A q : Queued(q)' <=> Queued(q)
      BY <3>0 DEF Queued
    <3>2. OneKind'
      BY <2>2, <2>3, <3>0, <3>1 DEF HeldOnce, OneKind
    <3>3. OneOfKind'
      BY <2>0, <2>1, <3>0 DEF HeldOnce, OneOfKind, Holding
    <3> QED
      BY <3>2, <3>3 DEF HeldOnce
  <2> QED
    BY <2>4, <2>5
<1>5. CASE DropEntry(c)
  BY <1>1, <1>5 DEF DropEntry
<1> QED
  BY <1>2, <1>3, <1>4, <1>5 DEF Enqueue

\* The walker sends nothing itself.
LEMMA HeldWalk == TypeOK /\ TagInv /\ HeldOnce /\ Walk => HeldOnce'
<1> SUFFICES ASSUME TypeOK, TagInv, HeldOnce, Walk PROVE HeldOnce'
  OBVIOUS
<1> USE TypeParts DEF Callers
<1>0. call \in [Callers -> CallStates]
  BY DEF CallType
<1>1. CASE FetchPage \/ WalkerAborts \/ SkipSelf
  BY <1>1, HeldSame DEF FetchPage, WalkerAborts, SkipSelf, enqVars
<1>2. CASE MarkCatchUp
  <2>1. /\ call["walker"].pc = "none" /\ call'["walker"].pc = "add" /\ call'["callback"] = call["callback"]
        /\ UNCHANGED <<queue, inflight, worker>>
    BY <1>0, <1>2 DEF MarkCatchUp, TagInv, StartCall
  <2> QED
    BY <2>1, HeldCall
<1>3. CASE Classify
  <2>1. /\ call["walker"].pc = "returned" /\ call'["walker"].pc = "none" /\ call'["callback"] = call["callback"]
        /\ UNCHANGED <<queue, inflight, worker>>
    BY <1>0, <1>3 DEF Classify, NoCall
  <2> QED
    BY <2>1, HeldCall
<1> QED
  BY <1>1, <1>2, <1>3 DEF Walk

\* A worker takes a path over from the queue and releases it once.
LEMMA HeldWork ==
    ASSUME TypeOK, HeldOnce, NEW w \in Workers, Work(w)
    PROVE  HeldOnce'
<1> USE TypeParts
<1> DEFINE j == worker[w]
<1>0. worker \in [Workers -> WorkerStates] /\ queue \in Seq(Entry) /\ inflight \subseteq Paths
  BY DEF WorkType, QueueType, CallType
<1>1. CASE WorkerTakes(w)
  <2>0. queue # <<>> /\ queue' = Tail(queue) /\ j.pc = "idle" /\ UNCHANGED <<inflight, call>>
    BY <1>1 DEF WorkerTakes, TakeHead
  <2> DEFINE p == Head(queue).path
  <2>1. /\ Len(queue) \in Nat \ {0} /\ Len(queue') = Len(queue) - 1
        /\ \A i \in 1..Len(queue') : queue'[i] = queue[i + 1]
        /\ p = queue[1].path /\ queue[1] \in Entry /\ p \in Paths
    <3>1. Len(queue) \in Nat \ {0} /\ Head(queue) = queue[1] /\ Head(queue) \in Entry
      BY <1>0, <2>0, HeadTailProperties, EmptySeq
    <3>2. Len(queue') = Len(queue) - 1 /\ \A i \in 1..Len(queue') : queue'[i] = queue[i + 1]
      BY <1>0, <2>0, HeadTailProperties
    <3> QED
      BY <3>1, <3>2 DEF Entry
  <2>2. \A v \in Workers : /\ Holding(worker'[v]) <=> Holding(worker[v]) \/ v = w
                           /\ worker'[v].path = IF v = w THEN p ELSE worker[v].path
                           /\ ~Holding(j)
    BY <1>0, <1>1 DEF WorkerTakes, TakeHead, Holding, Idle
  <2>3. Queued(p) /\ ~Working(p) /\ ~Sending(p)
    BY <2>1 DEF Queued, HeldOnce, OneKind
  <2>4. \A i \in 1..Len(queue') : queue'[i].path # p
    BY <2>1 DEF HeldOnce, OneOfKind
  <2>5. \A q : Queued(q) => q = p \/ Queued(q)'
    <3> SUFFICES ASSUME NEW q, Queued(q), q # p PROVE Queued(q)'
      OBVIOUS
    <3>1. PICK i \in 1..Len(queue) : queue[i].path = q /\ i # 1
      BY <2>1 DEF Queued
    <3>2. i - 1 \in 1..Len(queue') /\ queue'[i - 1] = queue[i]
      BY <2>1, <3>1
    <3> QED
      BY <3>1, <3>2 DEF Queued
  <2>6. \A q : Queued(q)' => Queued(q) /\ q # p
    <3> SUFFICES ASSUME NEW q, Queued(q)' PROVE Queued(q) /\ q # p
      OBVIOUS
    <3>1. PICK i \in 1..Len(queue') : queue'[i].path = q
      BY DEF Queued
    <3>2. i + 1 \in 1..Len(queue) /\ queue[i + 1].path = q
      BY <2>1, <3>1
    <3> QED
      BY <2>4, <3>1, <3>2 DEF Queued
  <2>7. \A q : /\ Working(q)' <=> Working(q) \/ q = p
               /\ Sending(q)' <=> Sending(q)
    BY <2>0, <2>2 DEF Working, Sending, Holding
  <2>8. OneKind'
    BY <2>0, <2>3, <2>5, <2>6, <2>7 DEF HeldOnce, OneKind
  <2>9. \A i, k \in 1..Len(queue') : i # k => queue'[i].path # queue'[k].path
    <3> SUFFICES ASSUME NEW i \in 1..Len(queue'), NEW k \in 1..Len(queue'), i # k
                 PROVE  queue'[i].path # queue'[k].path
      OBVIOUS
    <3>1. i + 1 \in 1..Len(queue) /\ k + 1 \in 1..Len(queue) /\ i + 1 # k + 1
      BY <2>1
    <3> QED
      BY <2>1, <3>1 DEF HeldOnce, OneOfKind
  <2>10. \A u, v \in Workers : u # v /\ Holding(worker'[u]) /\ Holding(worker'[v]) => worker'[u].path # worker'[v].path
    BY <2>2, <2>3 DEF HeldOnce, OneOfKind, Working
  <2>11. OneOfKind'
    BY <2>0, <2>9, <2>10 DEF HeldOnce, OneOfKind, Holding
  <2> QED
    BY <2>8, <2>11 DEF HeldOnce
<1>2. CASE WorkerExits(w) \/ Cancelled(w) \/ StartAttempt(w) \/ PullRefused(w) \/ PullBroken(w)
           \/ PullReceived(w) \/ Settle(w)
  <2>0. j \in WorkerStates /\ UNCHANGED <<queue, inflight, call>>
    BY <1>0, <1>2 DEF WorkerExits, Cancelled, StartAttempt, PullRefused, PullBroken, PullReceived, Settle, enqVars
  <2>1. ASSUME NEW r, worker' = [worker EXCEPT ![w] = r],
               \/ j.pc = "idle" /\ r.pc = "exited"
               \/ Holding(j) /\ Holding(r) /\ r.path = j.path
        PROVE  HeldOnce'
    BY <2>0, <2>1, HeldWorker DEF Holding
  <2>2. CASE WorkerExits(w)
    <3>1. [j EXCEPT !.pc = "exited"].pc = "exited"
      BY <2>0 DEF WorkerStates
    <3> QED
      BY <2>1, <2>2, <3>1 DEF WorkerExits
  <2>3. CASE Cancelled(w) \/ Settle(w)
    BY <2>0, <2>1, <2>3 DEF Cancelled, Settle, WorkerStates, Holding, Idle
  <2>4. Holding(j) => /\ Holding(AttemptFailed(j)) /\ AttemptFailed(j).path = j.path
                      /\ Holding(PeerFailed(j)) /\ PeerFailed(j).path = j.path
                      /\ Holding(NoPeers(j)) /\ NoPeers(j).path = j.path
    BY <2>0 DEF AttemptFailed, PeerFailed, NoPeers, Holding, WorkerStates
  <2>5. CASE StartAttempt(w)
    <3>1. PICK r : worker' = [worker EXCEPT ![w] = r]
                   /\ \/ r = [j EXCEPT !.out = "succeeded", !.pc = "settle"]
                      \/ \E n : r = [j EXCEPT !.peers = n, !.pc = "pull"]
                      \/ r = NoPeers(j)
      BY <2>5 DEF StartAttempt
    <3>2. Holding(j) /\ Holding(r) /\ r.path = j.path
      BY <2>0, <2>4, <2>5, <3>1 DEF StartAttempt, Holding, WorkerStates
    <3> QED
      BY <2>1, <3>1, <3>2
  <2>6. CASE PullRefused(w) \/ PullBroken(w) \/ PullReceived(w)
    <3>1. Holding(j)
      BY <2>6 DEF PullRefused, PullBroken, PullReceived, Pulling, Holding
    <3>2. PICK r : worker' = [worker EXCEPT ![w] = r]
                   /\ \/ r = [j EXCEPT !.out = "succeeded", !.pc = "settle", !.peers = 0]
                      \/ r = PeerFailed(j) \/ r = AttemptFailed(j)
      BY <2>6 DEF PullRefused, PullBroken, PullReceived
    <3>3. Holding(r) /\ r.path = j.path
      BY <2>0, <2>4, <3>1, <3>2 DEF Holding, WorkerStates
    <3> QED
      BY <2>1, <3>1, <3>2, <3>3
  <2> QED
    BY <1>2, <2>2, <2>3, <2>5, <2>6
<1>3. CASE ReleaseInflight(w)
  <2> DEFINE p == j.path
  <2>0. inflight' = inflight \ {p} /\ UNCHANGED <<queue, call>> /\ Holding(j)
    BY <1>3 DEF ReleaseInflight, Holding
  <2>1. p \in Paths
    BY <1>3 DEF ReleaseInflight, WorkType, HasEntry
  <2>2. \A v \in Workers : /\ Holding(worker'[v]) <=> Holding(worker[v]) /\ v # w
                           /\ worker'[v].path = worker[v].path
    BY <1>0, <1>3 DEF ReleaseInflight, Holding, WorkerStates
  <2>3. Working(p) /\ ~Queued(p) /\ ~Sending(p)
    BY <2>0, <2>1 DEF Working, HeldOnce, OneKind
  <2>4. \A q : /\ Queued(q)' <=> Queued(q)
               /\ Sending(q)' <=> Sending(q)
               /\ Working(q)' <=> Working(q) /\ q # p
    <3>1. \A v \in Workers : v # w /\ Holding(worker[v]) => worker[v].path # p
      BY <2>0 DEF HeldOnce, OneOfKind
    <3> QED
      BY <2>0, <2>2, <3>1 DEF Queued, Sending, Working, Holding
  <2>5. OneKind'
    BY <2>0, <2>3, <2>4 DEF HeldOnce, OneKind
  <2>6. OneOfKind'
    BY <2>0, <2>2 DEF HeldOnce, OneOfKind, Holding
  <2> QED
    BY <2>5, <2>6 DEF HeldOnce
<1>4. CASE ReleaseTag(w)
  <2>1. ~Holding(j) /\ ~Holding(Idle) /\ worker' = [worker EXCEPT ![w] = Idle] /\ UNCHANGED <<queue, inflight, call>>
    BY <1>4 DEF ReleaseTag, Holding, Idle
  <2> QED
    BY <2>1, HeldWorker
<1> QED
  BY <1>1, <1>2, <1>3, <1>4 DEF Work

\* Every step keeps one holder per path in flight.
LEMMA HeldNext == TypeOK /\ TagInv /\ HeldOnce /\ [Next]_vars => HeldOnce'
<1> SUFFICES ASSUME TypeOK, TagInv, HeldOnce, [Next]_vars PROVE HeldOnce'
  OBVIOUS
<1>1. ASSUME NEW p \in Paths, ApplyFile(p)
      PROVE  HeldOnce'
  <2>1. call["callback"].pc = "none" /\ call \in [Callers -> CallStates] /\ UNCHANGED <<queue, inflight, worker>>
    BY <1>1, TypeParts DEF ApplyFile, NotCalling, CallType
  <2>2. call'["walker"] = call["walker"] /\ call'["callback"].pc # "send"
    BY <1>1, <2>1 DEF ApplyFile, StartCall, Callers
  <2> QED
    BY <2>1, <2>2, HeldCall DEF Callers
<1>2. CASE FullyCaughtUp \/ GateReturns \/ Stop \/ UNCHANGED vars
  BY <1>2, HeldSame DEF FullyCaughtUp, GateReturns, Load, Stop, vars, enqVars
<1> QED
  BY <1>1, <1>2, HeldEnqueue, HeldWalk, HeldWork DEF Next, Callers

\* A set with at most one member has as many as it says.
LEMMA AtMostOne ==
    ASSUME NEW S, \A x, y \in S : x = y
    PROVE  Cardinality(S) = IF S = {} THEN 0 ELSE 1
<1>1. CASE S = {}
  BY <1>1, FS_EmptySet
<1>2. ASSUME NEW x \in S PROVE Cardinality(S) = 1
  <2>1. S = {x}
    OBVIOUS
  <2> QED
    BY <2>1, FS_Singleton
<1> QED
  BY <1>1, <1>2

\* One holder of one kind is a count of one.
LEMMA ExactlyHeld == TypeOK /\ HeldOnce => InflightExact
<1> SUFFICES ASSUME TypeOK, HeldOnce, NEW p \in Paths
             PROVE  Holders(p) = IF p \in inflight THEN 1 ELSE 0
  BY DEF InflightExact
<1> DEFINE Q == {i \in DOMAIN queue : queue[i].path = p}
           W == {w \in Workers : worker[w].path = p /\ worker[w].pc \in {"attempt", "pull", "settle", "release"}}
           C == {c \in DOMAIN call : call[c].path = p /\ call[c].pc = "send"}
<1>0. DOMAIN queue = 1..Len(queue) /\ DOMAIN call = Callers
  BY TypeParts DEF QueueType, CallType
<1>1. /\ (Q # {} <=> Queued(p)) /\ (W # {} <=> Working(p)) /\ (C # {} <=> Sending(p))
  BY <1>0 DEF Queued, Working, Sending, Holding
<1>2. /\ \A x, y \in Q : x = y
      /\ \A x, y \in W : x = y
      /\ \A x, y \in C : x = y
  BY <1>0 DEF HeldOnce, OneOfKind, Holding
<1>3. Holders(p) = Cardinality(Q) + Cardinality(W) + Cardinality(C)
  BY DEF Holders
<1> HIDE DEF Q, W, C
<1>4. /\ Cardinality(Q) = IF Q = {} THEN 0 ELSE 1
      /\ Cardinality(W) = IF W = {} THEN 0 ELSE 1
      /\ Cardinality(C) = IF C = {} THEN 0 ELSE 1
  BY <1>2, AtMostOne
<1>5. /\ p \in inflight <=> Q # {} \/ W # {} \/ C # {}
      /\ Q # {} => W = {} /\ C = {}
      /\ W # {} => C = {}
  BY <1>1 DEF HeldOnce, OneKind
<1> QED
  BY <1>3, <1>4, <1>5

\* A path in flight has one holder and any other has none, whatever the callback, the walker and the
\* workers interleave: no two workers write one staging file, and no path is blocked for ever.
THEOREM InflightExactCorrect == Spec => []InflightExact
BY TypeInit, TypeNext, TagInvInit, TagNext, HeldInit, HeldNext, ExactlyHeld, PTL DEF Spec

-----------------------------------------------------------------------------
(* GateMissesOnly.                                                         *)

\* The gate owes an answer for p: the walker handled its present version and
\* none of the known gaps concerns it.
Asked(p) == walked[p] # 0 /\ walked[p] = manifest[p] /\ p \notin excused
\* The version the walker handled is on disk; a failure or a drop of it is recorded.
LocalAsWalked(p) == Local(p, walked[p])
Reported(p) == p \in failedPaths \/ p \in droppedPaths

\* Nobody pulls a version that the manifest does not have yet.
NoneAhead ==
    /\ \A p \in Paths : walked[p] <= manifest[p]
    /\ \A e \in walker.page : e.ver <= manifest[e.path]
    /\ call["callback"].pc # "none" => call["callback"].ver = manifest[call["callback"].path]
    /\ call["walker"].pc # "none" => call["walker"].ver = walked[call["walker"].path]
    /\ \A i \in 1..Len(queue) : queue[i].ver <= manifest[queue[i].path]
    /\ \A w \in Workers : worker[w].path # 0 => worker[w].ver <= manifest[worker[w].path]

\* Nobody pulls an older version of a path that the gate answers for.
NoneBehind ==
    \A p \in Paths : Asked(p) =>
        /\ \A i \in 1..Len(queue) : queue[i].path = p => queue[i].ver = walked[p]
        /\ \A w \in Workers : worker[w].path = p => worker[w].ver = walked[p]

\* A worker pulls only what is missing, and what it calls succeeded is there.
Knows(j) ==
    /\ j.pc \in {"attempt", "pull"} => j.out = "none"
    /\ j.pc = "pull" => ~Local(j.path, j.ver)
    /\ j.pc = "settle" /\ j.out = "succeeded" => Local(j.path, j.ver) \/ j.path \in excused
    /\ j.pc = "settle" /\ j.out = "none" => stopped \/ j.path \in excused
WorkersKnow == \A w \in Workers : Knows(worker[w])

\* What is missing is reported, or has a tag that no release will take, or is being reported.
Tagged(p) == p \in tags /\ ~Releasing(p)
Dropping(p) == call["walker"].path = p /\ call["walker"].pc = "returned" /\ call["walker"].out = "dropped"
Owed ==
    \A p \in Paths : Asked(p) /\ ~stopped => LocalAsWalked(p) \/ Reported(p) \/ Tagged(p) \/ Dropping(p)

\* What each load of the gate has made sure of.
GateKnows ==
    /\ gate # "idle" => Completed
    /\ \A p \in Paths : Asked(p) /\ ~stopped =>
        /\ gate = "drained" => LocalAsWalked(p) \/ Reported(p)
        /\ gate = "unfailed" => LocalAsWalked(p) \/ p \in droppedPaths
        /\ gate = "open" => LocalAsWalked(p)

\* The inductive invariant behind GateMissesOnly.
GateInv == NoneAhead /\ NoneBehind /\ WorkersKnow /\ Owed /\ GateKnows

\* The invariants proved above.
Base == TypeOK /\ TagInv /\ FinalVerified /\ HeldOnce

\* At the start the walker has handled nothing.
LEMMA GateInit == Init => GateInv
<1> SUFFICES ASSUME Init PROVE GateInv
  OBVIOUS
<1> USE DEF Init
<1>0. 1 \in Versions
  BY PullerConstants DEF Versions
<1>1. NoneAhead
  BY <1>0 DEF NoneAhead, NoCall, Idle
<1>2. NoneBehind
  BY DEF NoneBehind, Asked
<1>3. WorkersKnow
  BY DEF WorkersKnow, Knows, Idle
<1>4. Owed /\ GateKnows
  BY DEF Owed, GateKnows, Asked
<1> QED
  BY <1>1, <1>2, <1>3, <1>4 DEF GateInv

\* The types the steps below need.
LEMMA Types ==
    ASSUME TypeOK
    PROVE  /\ manifest \in [Paths -> Versions \cup {0}] /\ walked \in [Paths -> Versions \cup {0}]
           /\ Versions \subseteq Nat
           /\ queue \in Seq(Entry) /\ Len(queue) \in Nat
           /\ \A i \in 1..Len(queue) : queue[i] \in Entry
           /\ call \in [Callers -> CallStates]
           /\ walker \in WalkerStates
           /\ worker \in [Workers -> WorkerStates] /\ \A w \in Workers : HasEntry(worker[w])
           /\ DOMAIN final = Paths
<1>1. Versions \subseteq Nat
  BY PullerConstants DEF Versions
<1>2. queue \in Seq(Entry)
  BY DEF TypeOK
<1>3. Len(queue) \in Nat /\ \A i \in 1..Len(queue) : queue[i] \in Entry
  BY <1>2, ElementOfSeq
<1> QED
  BY <1>1, <1>2, <1>3 DEF TypeOK, Callers

\* The same, point by point.
LEMMA Points ==
    ASSUME TypeOK
    PROVE  /\ \A p \in Paths : manifest[p] \in Nat /\ walked[p] \in Nat
           /\ \A e \in walker.page : e.path \in Paths /\ e.ver \in Nat
           /\ \A i \in 1..Len(queue) : queue[i].path \in Paths /\ queue[i].ver \in Nat
           /\ \A w \in Workers : worker[w].path \in Paths \cup {0} /\ worker[w].ver \in Nat
           /\ \A c \in Callers : call[c].pc # "none" => call[c].path \in Paths /\ call[c].ver \in Nat
<1>1. \A p \in Paths : manifest[p] \in Nat /\ walked[p] \in Nat
  BY Types
<1>2. \A e \in walker.page : e.path \in Paths /\ e.ver \in Nat
  BY Types DEF WalkerStates, Entry
<1>3. \A i \in 1..Len(queue) : queue[i].path \in Paths /\ queue[i].ver \in Nat
  BY Types DEF Entry
<1>4. \A w \in Workers : worker[w].path \in Paths \cup {0} /\ worker[w].ver \in Nat
  BY Types DEF WorkerStates
<1>5. \A c \in Callers : call[c].pc # "none" => call[c].path \in Paths /\ call[c].ver \in Nat
  BY Types DEF CallStates
<1> QED
  BY <1>1, <1>2, <1>3, <1>4, <1>5

\* A worker keeps its path and version until it is idle again.
LEMMA WorkKeepsEntry ==
    ASSUME TypeOK, NEW w \in Workers, Work(w), ~WorkerTakes(w)
    PROVE  \A v \in Workers : worker'[v].path # 0 =>
              worker'[v].path = worker[v].path /\ worker'[v].ver = worker[v].ver
<1> DEFINE j == worker[w]
<1>0. worker \in [Workers -> WorkerStates] /\ j \in WorkerStates
  BY Types
<1>1. ASSUME NEW r, worker' = [worker EXCEPT ![w] = r], r.path # 0 => r.path = j.path /\ r.ver = j.ver
      PROVE  \A v \in Workers : worker'[v].path # 0 =>
                worker'[v].path = worker[v].path /\ worker'[v].ver = worker[v].ver
  <2>1. \A v \in Workers : worker'[v] = IF v = w THEN r ELSE worker[v]
    BY <1>0, <1>1
  <2> QED
    BY <1>1, <2>1
<1>2. CASE WorkerExits(w) \/ Cancelled(w)
  BY <1>0, <1>1, <1>2 DEF WorkerExits, Cancelled, WorkerStates
<1>3. CASE Settle(w) \/ ReleaseInflight(w) \/ ReleaseTag(w)
  BY <1>0, <1>1, <1>3 DEF Settle, ReleaseInflight, ReleaseTag, WorkerStates, Idle
<1>4. /\ AttemptFailed(j).path = j.path /\ AttemptFailed(j).ver = j.ver
      /\ PeerFailed(j).path = j.path /\ PeerFailed(j).ver = j.ver
      /\ NoPeers(j).path = j.path /\ NoPeers(j).ver = j.ver
  BY <1>0 DEF AttemptFailed, PeerFailed, NoPeers, WorkerStates
<1>5. CASE StartAttempt(w)
  <2>1. PICK r : worker' = [worker EXCEPT ![w] = r]
                 /\ \/ r = [j EXCEPT !.out = "succeeded", !.pc = "settle"]
                    \/ \E n : r = [j EXCEPT !.peers = n, !.pc = "pull"]
                    \/ r = NoPeers(j)
    BY <1>5 DEF StartAttempt
  <2>2. r.path = j.path /\ r.ver = j.ver
    BY <1>0, <1>4, <2>1 DEF WorkerStates
  <2> QED
    BY <1>1, <2>1, <2>2
<1>6. CASE PullRefused(w) \/ PullBroken(w) \/ PullReceived(w)
  <2>1. PICK r : worker' = [worker EXCEPT ![w] = r]
                 /\ \/ r = [j EXCEPT !.out = "succeeded", !.pc = "settle", !.peers = 0]
                    \/ r = PeerFailed(j) \/ r = AttemptFailed(j)
    BY <1>6 DEF PullRefused, PullBroken, PullReceived
  <2>2. r.path = j.path /\ r.ver = j.ver
    BY <1>0, <1>4, <2>1 DEF WorkerStates
  <2> QED
    BY <1>1, <2>1, <2>2
<1> QED
  BY <1>2, <1>3, <1>5, <1>6 DEF Work

-----------------------------------------------------------------------------
(* NoneAhead and NoneBehind.                                               *)

\* Every step keeps the versions in order.
LEMMA AheadNext == Base /\ GateInv /\ [Next]_vars => NoneAhead' /\ NoneBehind'
<1> SUFFICES ASSUME Base, GateInv, [Next]_vars PROVE NoneAhead' /\ NoneBehind'
  OBVIOUS
<1>0. /\ manifest \in [Paths -> Versions \cup {0}] /\ walked \in [Paths -> Versions \cup {0}]
      /\ Versions \subseteq Nat
      /\ queue \in Seq(Entry) /\ Len(queue) \in Nat
      /\ \A i \in 1..Len(queue) : queue[i] \in Entry
      /\ call \in [Callers -> CallStates]
      /\ walker \in WalkerStates
      /\ worker \in [Workers -> WorkerStates] /\ \A w \in Workers : HasEntry(worker[w])
  BY Types DEF Base
<1>p. /\ \A p \in Paths : manifest[p] \in Nat /\ walked[p] \in Nat
      /\ \A e \in walker.page : e.path \in Paths /\ e.ver \in Nat
      /\ \A i \in 1..Len(queue) : queue[i].path \in Paths /\ queue[i].ver \in Nat
      /\ \A w \in Workers : worker[w].path \in Paths \cup {0} /\ worker[w].ver \in Nat
      /\ \A c \in Callers : call[c].pc # "none" => call[c].path \in Paths /\ call[c].ver \in Nat
  BY Points DEF Base
<1>1. ASSUME NEW p \in Paths, ApplyFile(p) PROVE NoneAhead' /\ NoneBehind'
  <2>1. PICK v \in Versions : manifest' = [manifest EXCEPT ![p] = v] /\ v \in {manifest[p], manifest[p] + 1}
                              /\ (call' = call \/ StartCall("callback", p, v))
    BY <1>1 DEF ApplyFile
  <2>2. UNCHANGED <<queue, worker, walker, walked, excused>> /\ call["callback"].pc = "none"
    BY <1>1 DEF ApplyFile, NotCalling, history
  <2>3. call'["walker"] = call["walker"]
        /\ (call'["callback"].pc # "none" => call'["callback"].ver = v /\ call'["callback"].path = p)
    BY <1>0, <2>1, <2>2 DEF StartCall, Callers
  <2>4. \A q \in Paths : manifest'[q] >= manifest[q] /\ manifest'[q] \in Nat /\ manifest[q] \in Nat
    <3>1. \A q \in Paths : manifest'[q] = IF q = p THEN v ELSE manifest[q]
      BY <1>0, <2>1
    <3>2. v \in Nat /\ v >= manifest[p]
      BY <1>0, <1>p, <2>1
    <3> QED
      BY <1>p, <3>1, <3>2
  <2>5. manifest'[p] = v
    BY <1>0, <2>1
  <2>6. \A q \in Paths : walked[q] <= manifest[q] /\ walked[q] \in Nat
    BY <1>p DEF GateInv, NoneAhead
  <2>7. \A q \in Paths : Asked(q)' => Asked(q)
    BY <2>2, <2>4, <2>6 DEF Asked
  <2>8. NoneBehind'
    BY <2>2, <2>7 DEF GateInv, NoneBehind
  <2>9. \A q \in Paths : walked'[q] <= manifest'[q]
    BY <2>2, <2>4, <2>6
  <2>10. \A e \in walker'.page : e.ver <= manifest'[e.path]
    BY <1>p, <2>2, <2>4 DEF GateInv, NoneAhead
  <2>11. \A i \in 1..Len(queue') : queue'[i].ver <= manifest'[queue'[i].path]
    BY <1>p, <2>2, <2>4 DEF GateInv, NoneAhead
  <2>12. \A w \in Workers : worker'[w].path # 0 => worker'[w].ver <= manifest'[worker'[w].path]
    BY <1>p, <2>2, <2>4 DEF GateInv, NoneAhead
  <2>13. NoneAhead'
    BY <2>2, <2>3, <2>5, <2>9, <2>10, <2>11, <2>12 DEF GateInv, NoneAhead
  <2> QED
    BY <2>8, <2>13
<1>2. ASSUME NEW c \in Callers, Enqueue(c) PROVE NoneAhead' /\ NoneBehind'
  <2>1. UNCHANGED <<manifest, walked, walker, worker>> /\ excused \subseteq excused'
    BY <1>2 DEF Enqueue, InflightAdd, SendEntry, DropEntry, history
  <2>2. \A d \in Callers : call'[d].pc = "none" \/ /\ call[d].pc # "none"
                                                    /\ call'[d].path = call[d].path /\ call'[d].ver = call[d].ver
    <3>1. \/ \E out : Return(c, out)
          \/ call' = [call EXCEPT ![c].pc = "send"]
          \/ call' = [call EXCEPT ![c].pc = "drop"]
      BY <1>2 DEF Enqueue, InflightAdd, SendEntry, DropEntry
    <3>2. call[c].pc # "none"
      BY <1>2 DEF Enqueue, InflightAdd, SendEntry, DropEntry
    <3>3. ASSUME NEW out, Return(c, out)
          PROVE  call'[c].pc = "none" \/ (call'[c].path = call[c].path /\ call'[c].ver = call[c].ver)
      BY <1>0, <3>3 DEF Return, NoCall, CallStates
    <3>4. call'[c].pc = "none" \/ (call'[c].path = call[c].path /\ call'[c].ver = call[c].ver)
      BY <1>0, <3>1, <3>3 DEF CallStates
    <3>5. \A d \in Callers : d # c => call'[d] = call[d]
      BY <1>0, <3>1 DEF Return
    <3> QED
      BY <3>2, <3>4, <3>5
  <2>3. \/ queue' = queue
        \/ queue' = Append(queue, [path |-> call[c].path, ver |-> call[c].ver]) /\ call[c].pc = "send"
    BY <1>2 DEF Enqueue, InflightAdd, SendEntry, DropEntry
  <2>4. \A i \in 1..Len(queue') :
          \/ i \in 1..Len(queue) /\ queue'[i] = queue[i]
          \/ call[c].pc # "none" /\ queue'[i].path = call[c].path /\ queue'[i].ver = call[c].ver
    <3>1. CASE queue' = queue
      BY <3>1
    <3>2. CASE queue' = Append(queue, [path |-> call[c].path, ver |-> call[c].ver]) /\ call[c].pc = "send"
      <4> DEFINE e == [path |-> call[c].path, ver |-> call[c].ver]
      <4>1. /\ Len(queue') = Len(queue) + 1
            /\ \A i \in 1..Len(queue) : queue'[i] = queue[i]
            /\ queue'[Len(queue) + 1] = e
        BY <1>0, <3>2, AppendProperties
      <4>2. \A i \in 1..Len(queue') : i \in 1..Len(queue) \/ i = Len(queue) + 1
        BY <1>0, <4>1
      <4> QED
        BY <3>2, <4>1, <4>2
    <3> QED
      BY <2>3, <3>1, <3>2
  <2>5. \A p \in Paths : Asked(p)' => Asked(p)
    BY <2>1 DEF Asked
  <2>6. call[c].pc # "none" => call[c].path \in Paths
            /\ (call[c].ver = manifest[call[c].path] \/ call[c].ver = walked[call[c].path])
    BY <1>0, Positive DEF GateInv, NoneAhead, CallStates, Callers
  <2>7. NoneAhead'
    <3>1. \A i \in 1..Len(queue') : queue'[i].ver <= manifest'[queue'[i].path]
      <4>1. call[c].pc # "none" => call[c].ver <= manifest[call[c].path]
        BY <1>p, <2>6 DEF GateInv, NoneAhead
      <4> QED
        BY <2>1, <2>4, <4>1 DEF GateInv, NoneAhead
    <3> QED
      BY <2>1, <2>2, <3>1 DEF GateInv, NoneAhead, Callers
  <2>8. NoneBehind'
    BY <2>1, <2>4, <2>5, <2>6 DEF GateInv, NoneBehind, Asked
  <2> QED
    BY <2>7, <2>8
<1>3. ASSUME UNCHANGED <<manifest, walked, queue, worker>>, excused \subseteq excused', call' = call,
             \A e \in walker'.page : e.ver <= manifest[e.path]
      PROVE  NoneAhead' /\ NoneBehind'
  <2>1. \A p \in Paths : Asked(p)' => Asked(p)
    BY <1>3 DEF Asked
  <2> QED
    BY <1>3, <2>1 DEF GateInv, NoneAhead, NoneBehind
<1>4. CASE FetchPage
  <2>1. \A e \in walker'.page : e.ver <= manifest[e.path]
    <3>1. \/ walker' = [walker EXCEPT !.pc = "aborted"] \/ walker' = [walker EXCEPT !.pc = "done"]
          \/ \E next, keys : keys \subseteq Paths /\
               walker' = [pc |-> "entry", cursor |-> next, page |-> {[path |-> p, ver |-> manifest[p]] : p \in keys}]
      BY <1>4 DEF FetchPage
    <3>2. CASE walker' = [walker EXCEPT !.pc = "aborted"] \/ walker' = [walker EXCEPT !.pc = "done"]
      <4>1. walker'.page = walker.page
        BY <1>0, <3>2 DEF WalkerStates
      <4> QED
        BY <4>1 DEF GateInv, NoneAhead
    <3>3. ASSUME NEW next, NEW keys, keys \subseteq Paths,
                 walker' = [pc |-> "entry", cursor |-> next, page |-> {[path |-> p, ver |-> manifest[p]] : p \in keys}]
          PROVE  \A e \in walker'.page : e.ver <= manifest[e.path]
      <4>1. walker'.page = {[path |-> p, ver |-> manifest[p]] : p \in keys}
        BY <3>3
      <4>2. \A e \in walker'.page : e.ver = manifest[e.path] /\ e.path \in Paths
        BY <3>3, <4>1
      <4> QED
        BY <1>p, <4>2
    <3> QED
      BY <3>1, <3>2, <3>3
  <2> QED
    BY <1>3, <1>4, <2>1 DEF FetchPage, enqVars, history
<1>5. ASSUME walker'.page \subseteq walker.page PROVE \A e \in walker'.page : e.ver <= manifest[e.path]
  BY <1>5 DEF GateInv, NoneAhead
<1>6. NextEntry.page \subseteq walker.page
  BY <1>0 DEF NextEntry, WalkerStates
<1>7. CASE WalkerAborts \/ SkipSelf
  <2>1. walker'.page \subseteq walker.page
    BY <1>0, <1>6, <1>7 DEF WalkerAborts, SkipSelf, WalkerStates
  <2> QED
    BY <1>3, <1>5, <1>7, <2>1 DEF WalkerAborts, SkipSelf, enqVars, history
<1>8. CASE Classify
  <2>1. call["walker"].pc = "returned" /\ call' = [call EXCEPT !["walker"] = NoCall] /\ walker' = NextEntry
        /\ UNCHANGED <<manifest, walked, queue, worker>> /\ excused \subseteq excused'
    BY <1>8 DEF Classify
  <2>2. call'["walker"].pc = "none" /\ call'["callback"] = call["callback"]
    BY <1>0, <2>1 DEF NoCall, Callers
  <2>3. \A p \in Paths : Asked(p)' => Asked(p)
    BY <2>1 DEF Asked
  <2>4. \A e \in walker'.page : e.ver <= manifest[e.path]
    BY <1>5, <1>6, <2>1
  <2> QED
    BY <2>1, <2>2, <2>3, <2>4 DEF GateInv, NoneAhead, NoneBehind
<1>9. CASE MarkCatchUp
  <2>1. PICK e \in First(walker.page) :
          /\ StartCall("walker", e.path, e.ver)
          /\ walked' = [walked EXCEPT ![e.path] = e.ver]
          /\ excused' = IF Releasing(e.path) \/ HeldOlder(e.path, e.ver) THEN excused \cup {e.path} ELSE excused
    BY <1>9 DEF MarkCatchUp
  <2>2. UNCHANGED <<manifest, queue, worker>> /\ walker' = [walker EXCEPT !.pc = "classify"]
    BY <1>9 DEF MarkCatchUp
  <2>3. e \in walker.page /\ e \in Entry /\ walker'.page = walker.page
    BY <1>0, <2>1, <2>2 DEF First, WalkerStates
  <2>4. call'["walker"].ver = e.ver /\ call'["walker"].path = e.path /\ call'["callback"] = call["callback"]
    BY <1>0, <2>1 DEF StartCall, Callers
  <2>5. \A p \in Paths : walked'[p] = IF p = e.path THEN e.ver ELSE walked[p]
    BY <1>0, <2>1
  <2>6. NoneAhead'
    BY <2>2, <2>3, <2>4, <2>5 DEF GateInv, NoneAhead, Entry
  <2>7. ASSUME NEW p \in Paths, Asked(p)', p # e.path
        PROVE  /\ \A i \in 1..Len(queue') : queue'[i].path = p => queue'[i].ver = walked'[p]
               /\ \A w \in Workers : worker'[w].path = p => worker'[w].ver = walked'[p]
    <3>1. Asked(p)
      BY <2>1, <2>2, <2>5, <2>7 DEF Asked
    <3> QED
      BY <2>2, <2>5, <2>7, <3>1 DEF GateInv, NoneBehind
  <2>8. ASSUME Asked(e.path)'
        PROVE  /\ \A i \in 1..Len(queue') : queue'[i].path = e.path => queue'[i].ver = walked'[e.path]
               /\ \A w \in Workers : worker'[w].path = e.path => worker'[w].ver = walked'[e.path]
    <3>1. ~HeldOlder(e.path, e.ver) /\ e.ver = manifest[e.path] /\ e.path \in Paths /\ e.ver \in Nat
      BY <1>0, <2>1, <2>2, <2>3, <2>5, <2>8 DEF Asked, Entry
    <3>2. \A i \in 1..Len(queue) : queue[i] \in Range(queue)
      BY <1>0 DEF Range
    <3>3. \A w \in Workers : worker[w] \in Range(worker)
      BY <1>0 DEF Range
    <3>4. \A i \in 1..Len(queue) : queue[i].path = e.path => ~(queue[i].ver < e.ver) /\ queue[i].ver <= e.ver /\ queue[i].ver \in Nat
      BY <1>0, <3>1, <3>2 DEF HeldOlder, GateInv, NoneAhead, Entry
    <3>5. \A w \in Workers : worker[w].path = e.path => ~(worker[w].ver < e.ver) /\ worker[w].ver <= e.ver /\ worker[w].ver \in Nat
      BY <1>p, <3>1, <3>3, Positive DEF HeldOlder, GateInv, NoneAhead
    <3> QED
      BY <2>2, <2>3, <2>5, <3>1, <3>4, <3>5
  <2>9. NoneBehind'
    BY <2>7, <2>8 DEF NoneBehind
  <2> QED
    BY <2>6, <2>9
<1>10. ASSUME NEW w \in Workers, WorkerTakes(w) PROVE NoneAhead' /\ NoneBehind'
  <2>1. UNCHANGED <<manifest, walked, walker, call, excused>> /\ queue # <<>> /\ queue' = Tail(queue)
    BY <1>10 DEF WorkerTakes, TakeHead, history
  <2>2. /\ \A i \in 1..Len(queue') : i + 1 \in 1..Len(queue) /\ queue'[i] = queue[i + 1]
        /\ 1 \in 1..Len(queue) /\ Head(queue) = queue[1]
    <3>1. /\ Len(queue') = Len(queue) - 1 /\ Len(queue) # 0
          /\ \A i \in 1..Len(queue') : queue'[i] = queue[i + 1]
      BY <1>0, <2>1, HeadTailProperties, EmptySeq
    <3> QED
      BY <1>0, <3>1
  <2>3. \A v \in Workers : IF v = w THEN worker'[v].path = queue[1].path /\ worker'[v].ver = queue[1].ver
                           ELSE worker'[v] = worker[v]
    BY <1>0, <1>10, <2>2 DEF WorkerTakes, TakeHead, Idle
  <2>4. \A p \in Paths : Asked(p)' => Asked(p)
    BY <2>1 DEF Asked
  <2>5. NoneAhead'
    BY <2>1, <2>2, <2>3 DEF GateInv, NoneAhead
  <2>6. NoneBehind'
    BY <2>1, <2>2, <2>3, <2>4 DEF GateInv, NoneBehind
  <2> QED
    BY <2>5, <2>6
<1>11. ASSUME NEW w \in Workers, Work(w), ~WorkerTakes(w) PROVE NoneAhead' /\ NoneBehind'
  <2>1. UNCHANGED <<manifest, walked, walker, call, queue>> /\ excused \subseteq excused'
    BY <1>11 DEF Work, WorkerExits, Cancelled, StartAttempt, PullRefused, PullBroken, PullReceived, Settle,
       ReleaseInflight, ReleaseTag, enqVars, history
  <2>2. \A v \in Workers : worker'[v].path # 0 => worker'[v].path = worker[v].path /\ worker'[v].ver = worker[v].ver
    BY <1>11, WorkKeepsEntry DEF Base
  <2>3. \A p \in Paths : Asked(p)' => Asked(p)
    BY <2>1 DEF Asked
  <2>4. NoneAhead'
    BY <2>1, <2>2 DEF GateInv, NoneAhead
  <2>5. NoneBehind'
    BY <2>1, <2>2, <2>3, Positive DEF GateInv, NoneBehind
  <2> QED
    BY <2>4, <2>5
<1>12. CASE FullyCaughtUp \/ GateReturns \/ Stop \/ UNCHANGED vars
  <2>1. UNCHANGED <<manifest, walked, queue, worker, excused, call, walker>>
    BY <1>12 DEF FullyCaughtUp, GateReturns, Load, Stop, vars, enqVars, history
  <2> QED
    BY <1>3, <2>1 DEF GateInv, NoneAhead
<1> QED
  BY <1>1, <1>2, <1>4, <1>7, <1>8, <1>9, <1>10, <1>11, <1>12 DEF Next, Walk, Callers

-----------------------------------------------------------------------------
(* What the workers know of the files.                                     *)

\* A pull changes one final file; to what was asked for when it succeeds, else at most to nothing.
LEMMA PullLocal ==
    ASSUME Base, NEW w \in Workers, PullRefused(w) \/ PullBroken(w) \/ PullReceived(w)
    PROVE  /\ worker[w].path \in Paths /\ worker[w].ver \in Versions /\ worker[w].pc = "pull"
           /\ \A p \in Paths : p # worker[w].path => final'[p] = final[p]
           /\ \/ /\ final'[worker[w].path] = Content(worker[w].ver)
                 /\ worker' = [worker EXCEPT ![w] = [worker[w] EXCEPT !.out = "succeeded", !.pc = "settle", !.peers = 0]]
              \/ /\ final'[worker[w].path] = final[worker[w].path] \/ final'[worker[w].path] = NoFile
                 /\ \/ worker' = [worker EXCEPT ![w] = PeerFailed(worker[w])]
                    \/ worker' = [worker EXCEPT ![w] = AttemptFailed(worker[w])]
<1> DEFINE j == worker[w]
<1>0. j.path \in Paths /\ j.ver \in Versions /\ j.pc = "pull" /\ DOMAIN final = Paths
  BY Types DEF Base, HasEntry, PullRefused, PullBroken, PullReceived, Pulling
<1>1. ASSUME NEW c, final' = [final EXCEPT ![j.path] = c]
      PROVE  final'[j.path] = c /\ \A p \in Paths : p # j.path => final'[p] = final[p]
  BY <1>0, <1>1
<1>2. CASE PullRefused(w) \/ PullBroken(w)
  <2>1. \/ final' = final \/ final' = [final EXCEPT ![j.path] = NoFile]
    BY <1>2 DEF PullRefused, PullBroken
  <2>2. \/ worker' = [worker EXCEPT ![w] = PeerFailed(j)] \/ worker' = [worker EXCEPT ![w] = AttemptFailed(j)]
    BY <1>2 DEF PullRefused, PullBroken
  <2>3. /\ final'[j.path] = final[j.path] \/ final'[j.path] = NoFile
        /\ \A p \in Paths : p # j.path => final'[p] = final[p]
    BY <1>1, <2>1
  <2> QED
    BY <1>0, <2>2, <2>3
<1>3. CASE PullReceived(w)
  <2>1. PICK b \in {j.ver, 0} :
          \/ /\ Verified(j, Blocks(SizeOf[j.ver] - Len(Prefix(j)), b))
             /\ final' = [final EXCEPT ![j.path] = Staged(j) \o Blocks(SizeOf[j.ver] - Len(Prefix(j)), b)]
             /\ worker' = [worker EXCEPT ![w] = [@ EXCEPT !.out = "succeeded", !.pc = "settle", !.peers = 0]]
          \/ /\ final' = [final EXCEPT ![j.path] = NoFile]
             /\ worker' = [worker EXCEPT ![w] = AttemptFailed(@)]
    BY <1>3 DEF PullReceived
  <2>2. Verified(j, Blocks(SizeOf[j.ver] - Len(Prefix(j)), b))
          => Staged(j) \o Blocks(SizeOf[j.ver] - Len(Prefix(j)), b) = Content(j.ver)
    BY <1>0, Promoted DEF Base
  <2>3. \/ /\ final' = [final EXCEPT ![j.path] = Content(j.ver)]
           /\ worker' = [worker EXCEPT ![w] = [j EXCEPT !.out = "succeeded", !.pc = "settle", !.peers = 0]]
        \/ /\ final' = [final EXCEPT ![j.path] = NoFile]
           /\ worker' = [worker EXCEPT ![w] = AttemptFailed(j)]
    BY <2>1, <2>2
  <2>4. CASE /\ final' = [final EXCEPT ![j.path] = Content(j.ver)]
             /\ worker' = [worker EXCEPT ![w] = [j EXCEPT !.out = "succeeded", !.pc = "settle", !.peers = 0]]
    <3>1. final'[j.path] = Content(j.ver) /\ \A p \in Paths : p # j.path => final'[p] = final[p]
      BY <1>1, <2>4
    <3> QED
      BY <1>0, <2>4, <3>1
  <2>5. CASE /\ final' = [final EXCEPT ![j.path] = NoFile]
             /\ worker' = [worker EXCEPT ![w] = AttemptFailed(j)]
    <3>1. final'[j.path] = NoFile /\ \A p \in Paths : p # j.path => final'[p] = final[p]
      BY <1>1, <2>5
    <3> QED
      BY <1>0, <2>5, <3>1
  <2> QED
    BY <2>3, <2>4, <2>5
<1> QED
  BY <1>2, <1>3

\* No other step of a worker, and no step of another goroutine, changes a final file.
LEMMA NoPullSameFinal ==
    ASSUME NEW w \in Workers, Work(w), ~PullRefused(w), ~PullReceived(w)
    PROVE  final' = final
BY DEF Work, WorkerTakes, TakeHead, WorkerExits, Cancelled, StartAttempt, PullBroken, Settle, ReleaseInflight,
       ReleaseTag, disk

\* Gaps stay named, and a stopped puller stays stopped.
LEMMA Grow ==
    ASSUME [Next]_vars
    PROVE  excused \subseteq excused' /\ (stopped => stopped')
<1>1. ASSUME NEW p \in Paths, ApplyFile(p) PROVE excused' = excused /\ stopped' = stopped
  BY <1>1 DEF ApplyFile, history
<1>2. ASSUME NEW c \in Callers, Enqueue(c) PROVE excused \subseteq excused' /\ stopped' = stopped
  BY <1>2 DEF Enqueue, InflightAdd, SendEntry, DropEntry, history
<1>3. CASE Walk
  BY <1>3 DEF Walk, FetchPage, WalkerAborts, SkipSelf, MarkCatchUp, Classify, history
<1>4. ASSUME NEW w \in Workers, StartAttempt(w) PROVE excused \subseteq excused' /\ stopped' = stopped
  BY <1>4 DEF StartAttempt
<1>5. ASSUME NEW w \in Workers, Work(w), ~StartAttempt(w) PROVE excused' = excused /\ stopped' = stopped
  BY <1>5 DEF Work, WorkerTakes, TakeHead, WorkerExits, Cancelled, PullBroken, PullRefused, PullReceived, Settle,
     ReleaseInflight, ReleaseTag, history
<1>6. CASE FullyCaughtUp \/ GateReturns \/ Stop \/ UNCHANGED vars
  BY <1>6 DEF FullyCaughtUp, GateReturns, Load, Stop, vars, history
<1> QED
  BY <1>1, <1>2, <1>3, <1>4, <1>5, <1>6 DEF Next, Callers

\* A worker keeps its knowledge of its own file, and takes nothing from the others.
LEMMA KnowsWork ==
    ASSUME Base, GateInv, NEW w \in Workers, Work(w)
    PROVE  WorkersKnow'
<1> DEFINE j == worker[w]
<1>0. worker \in [Workers -> WorkerStates] /\ j \in WorkerStates /\ HasEntry(j)
  BY Types DEF Base
<1>g. excused \subseteq excused' /\ (stopped => stopped')
  BY Grow DEF Next
<1>k. \A v \in Workers : Knows(worker[v])
  BY DEF GateInv, WorkersKnow
<1>h. \A v \in Workers : v # w /\ Holding(worker[v]) /\ Holding(j) => worker[v].path # j.path
  BY DEF Base, HeldOnce, OneOfKind
\* The other workers: what they know is of other files.
<1>1. ASSUME NEW r, worker' = [worker EXCEPT ![w] = r], Knows(r)',
             \/ final' = final
             \/ Holding(j) /\ \A p \in Paths : p # j.path => final'[p] = final[p]
      PROVE  WorkersKnow'
  <2> SUFFICES ASSUME NEW v \in Workers, NEW s, s = worker'[v] PROVE Knows(s)'
    BY DEF WorkersKnow, Knows
  <2>1. CASE v = w
    BY <1>0, <1>1, <2>1
  <2>2. CASE v # w
    <3>1. s = worker[v] /\ worker[v] \in WorkerStates /\ HasEntry(worker[v])
      BY <1>0, <1>1, <2>2, Types DEF Base
    <3>2. Holding(worker[v]) => final'[worker[v].path] = final[worker[v].path]
      BY <1>1, <1>h, <2>2, <3>1 DEF Holding, HasEntry
    <3>3. Knows(s) /\ (Holding(s) => final'[s.path] = final[s.path])
      BY <1>k, <3>1, <3>2
    <3> QED
      BY <1>g, <3>3 DEF Knows, Holding, Local
  <2> QED
    BY <2>1, <2>2
<1>2. CASE WorkerTakes(w)
  <2>1. PICK r : worker' = [worker EXCEPT ![w] = r]
                 /\ r = [Idle EXCEPT !.pc = "attempt", !.attempt = 1, !.path = Head(queue).path, !.ver = Head(queue).ver]
    BY <1>2 DEF WorkerTakes, TakeHead
  <2>2. r.pc = "attempt" /\ r.out = "none" /\ final' = final
    BY <1>2, <2>1 DEF Idle, WorkerTakes, TakeHead, disk
  <2> QED
    BY <1>1, <2>1, <2>2 DEF Knows
<1>3. CASE WorkerExits(w) \/ Settle(w) \/ ReleaseInflight(w) \/ ReleaseTag(w)
  <2>1. PICK r : worker' = [worker EXCEPT ![w] = r] /\ r.pc \in {"exited", "release", "untag", "idle"}
    BY <1>0, <1>3 DEF WorkerExits, Settle, ReleaseInflight, ReleaseTag, Idle, WorkerStates
  <2>2. final' = final
    BY <1>3 DEF WorkerExits, Settle, ReleaseInflight, ReleaseTag, disk
  <2> QED
    BY <1>1, <2>1, <2>2 DEF Knows
<1>4. CASE Cancelled(w)
  <2>1. PICK r : worker' = [worker EXCEPT ![w] = r] /\ r = [j EXCEPT !.pc = "settle", !.peers = 0]
    BY <1>4 DEF Cancelled
  <2>2. j.out = "none" /\ stopped' /\ final' = final
    BY <1>4, <1>k DEF Cancelled, Knows, disk
  <2>3. r.pc = "settle" /\ r.out = "none"
    BY <1>0, <2>1, <2>2 DEF WorkerStates
  <2> QED
    BY <1>1, <2>1, <2>2, <2>3 DEF Knows
<1>5. CASE StartAttempt(w)
  <2>0. j.path \in Paths /\ j.ver \in Versions /\ j.out = "none" /\ final' = final
    BY <1>0, <1>5, <1>k DEF StartAttempt, HasEntry, Knows, disk
  <2>1. CASE StatFile(j.path) = SizeOf[j.ver]
    <3>1. PICK r : worker' = [worker EXCEPT ![w] = r] /\ r = [j EXCEPT !.out = "succeeded", !.pc = "settle"]
      BY <1>5, <2>1 DEF StartAttempt
    <3>2. r.pc = "settle" /\ r.out = "succeeded" /\ r.path = j.path /\ r.ver = j.ver
      BY <1>0, <3>1 DEF WorkerStates
    <3>3. Local(j.path, j.ver) \/ j.path \in excused'
      BY <1>5, <2>1 DEF StartAttempt
    <3>4. Knows(r)'
      BY <2>0, <3>2, <3>3 DEF Knows, Local
    <3> QED
      BY <1>1, <2>0, <3>1, <3>4
  <2>2. CASE StatFile(j.path) # SizeOf[j.ver]
    <3>1. ~Local(j.path, j.ver)
      <4>1. Content(j.ver) # NoFile /\ Len(Content(j.ver)) = SizeOf[j.ver]
        BY <2>0, NoFileIsNone, PullerConstants DEF Content, Versions
      <4> QED
        BY <2>2, <4>1 DEF Local, StatFile, OnDisk
    <3>2. CASE \E n \in 1..MaxPeers : worker' = [worker EXCEPT ![w] = [@ EXCEPT !.peers = n, !.pc = "pull"]]
      <4>1. PICK n, r : worker' = [worker EXCEPT ![w] = r] /\ r = [j EXCEPT !.peers = n, !.pc = "pull"]
        BY <3>2
      <4>2. r.pc = "pull" /\ r.out = "none" /\ r.path = j.path /\ r.ver = j.ver
        BY <1>0, <2>0, <4>1 DEF WorkerStates
      <4>3. Knows(r)'
        BY <2>0, <3>1, <4>2 DEF Knows, Local
      <4> QED
        BY <1>1, <2>0, <4>1, <4>3
    <3>3. CASE /\ worker' = [worker EXCEPT ![w] = NoPeers(@)]
               /\ excused' = IF j.attempt < RetryMaxAttempts THEN excused ELSE excused \cup {j.path}
      <4>1. PICK r : worker' = [worker EXCEPT ![w] = r] /\ r = NoPeers(j)
        BY <3>3
      <4>2. /\ r.out = "none" /\ r.path = j.path
            /\ r.pc = "attempt" \/ (r.pc = "settle" /\ j.path \in excused')
        BY <1>0, <1>5, <2>0, <3>3, <4>1 DEF StartAttempt, NoPeers, WorkerStates
      <4>3. Knows(r)'
        BY <4>2 DEF Knows
      <4> QED
        BY <1>1, <2>0, <4>1, <4>3
    <3> QED
      BY <1>5, <2>2, <3>2, <3>3 DEF StartAttempt
  <2> QED
    BY <2>1, <2>2
<1>6. CASE PullRefused(w) \/ PullBroken(w) \/ PullReceived(w)
  <2>0. /\ j.path \in Paths /\ j.ver \in Versions /\ j.pc = "pull"
        /\ \A p \in Paths : p # j.path => final'[p] = final[p]
        /\ \/ /\ final'[j.path] = Content(j.ver)
              /\ worker' = [worker EXCEPT ![w] = [j EXCEPT !.out = "succeeded", !.pc = "settle", !.peers = 0]]
           \/ /\ final'[j.path] = final[j.path] \/ final'[j.path] = NoFile
              /\ \/ worker' = [worker EXCEPT ![w] = PeerFailed(j)]
                 \/ worker' = [worker EXCEPT ![w] = AttemptFailed(j)]
    BY <1>6, PullLocal
  <2>1. Holding(j) /\ j.out = "none" /\ ~Local(j.path, j.ver)
    BY <1>k, <2>0 DEF Holding, Knows
  <2>2. CASE /\ final'[j.path] = Content(j.ver)
             /\ worker' = [worker EXCEPT ![w] = [j EXCEPT !.out = "succeeded", !.pc = "settle", !.peers = 0]]
    <3>1. PICK r : worker' = [worker EXCEPT ![w] = r] /\ r = [j EXCEPT !.out = "succeeded", !.pc = "settle", !.peers = 0]
      BY <2>2
    <3>2. r.pc = "settle" /\ r.out = "succeeded" /\ r.path = j.path /\ r.ver = j.ver
      BY <1>0, <3>1 DEF WorkerStates
    <3>3. Knows(r)'
      BY <2>2, <3>2 DEF Knows, Local
    <3> QED
      BY <1>1, <2>0, <2>1, <3>1, <3>3
  <2>3. CASE /\ final'[j.path] = final[j.path] \/ final'[j.path] = NoFile
             /\ \/ worker' = [worker EXCEPT ![w] = PeerFailed(j)]
                \/ worker' = [worker EXCEPT ![w] = AttemptFailed(j)]
    <3>1. ~(final'[j.path] = Content(j.ver))
      BY <2>0, <2>1, <2>3, NoFileIsNone DEF Local
    <3>2. PICK r : worker' = [worker EXCEPT ![w] = r] /\ (r = PeerFailed(j) \/ r = AttemptFailed(j))
      BY <2>3
    <3>3. /\ r.path = j.path /\ r.ver = j.ver
          /\ \/ r.pc = "pull" /\ r.out = "none"
             \/ r.pc = "attempt" /\ r.out = "none"
             \/ r.pc = "settle" /\ r.out = "failed"
      BY <1>0, <2>0, <2>1, <3>2 DEF PeerFailed, AttemptFailed, WorkerStates
    <3>4. Knows(r)'
      BY <3>1, <3>3 DEF Knows, Local
    <3> QED
      BY <1>1, <2>0, <2>1, <3>2, <3>4
  <2> QED
    BY <2>0, <2>2, <2>3
<1> QED
  BY <1>2, <1>3, <1>4, <1>5, <1>6 DEF Work

\* Every step keeps what the workers know.
LEMMA KnowsNext == Base /\ GateInv /\ [Next]_vars => WorkersKnow'
<1> SUFFICES ASSUME Base, GateInv, [Next]_vars PROVE WorkersKnow'
  OBVIOUS
<1>g. excused \subseteq excused' /\ (stopped => stopped')
  BY Grow
<1>1. ASSUME UNCHANGED <<worker, final>> PROVE WorkersKnow'
  BY <1>1, <1>g DEF GateInv, WorkersKnow, Knows, Local
<1>2. ASSUME NEW p \in Paths, ApplyFile(p) PROVE WorkersKnow'
  BY <1>1, <1>2 DEF ApplyFile, disk
<1>3. ASSUME NEW c \in Callers, Enqueue(c) PROVE WorkersKnow'
  BY <1>1, <1>3 DEF Enqueue, InflightAdd, SendEntry, DropEntry, disk
<1>4. CASE Walk
  BY <1>1, <1>4 DEF Walk, FetchPage, WalkerAborts, SkipSelf, MarkCatchUp, Classify, disk
<1>5. CASE FullyCaughtUp \/ GateReturns \/ Stop \/ UNCHANGED vars
  BY <1>1, <1>5 DEF FullyCaughtUp, GateReturns, Load, Stop, vars, disk
<1> QED
  BY <1>2, <1>3, <1>4, <1>5, KnowsWork DEF Next, Callers

-----------------------------------------------------------------------------
(* What the gate is owed, and what it knows.                               *)

\* The steps of a worker: what is local stays local, what is no longer reported has become local,
\* and a tag is taken only from a path that is one of these.
LEMMA WorkResolves ==
    ASSUME Base, GateInv, NEW w \in Workers, Work(w), NEW p \in Paths, Asked(p)', ~stopped'
    PROVE  /\ Asked(p) /\ walked'[p] = walked[p] /\ ~stopped
           /\ LocalAsWalked(p) => LocalAsWalked(p)'
           /\ p \in failedPaths => p \in failedPaths' \/ LocalAsWalked(p)'
           /\ p \in droppedPaths => p \in droppedPaths' \/ LocalAsWalked(p)'
           /\ Tagged(p) => Tagged(p)' \/ Reported(p)' \/ LocalAsWalked(p)'
<1> DEFINE j == worker[w]
<1>0. worker \in [Workers -> WorkerStates] /\ j \in WorkerStates /\ HasEntry(j)
  BY Types DEF Base
<1>k. Knows(j)
  BY DEF GateInv, WorkersKnow
<1>1. UNCHANGED <<manifest, walked, stopped>> /\ excused \subseteq excused'
  BY Grow DEF Next, Work, WorkerTakes, TakeHead, WorkerExits, Cancelled, PullBroken, PullRefused, PullReceived,
     StartAttempt, Settle, ReleaseInflight, ReleaseTag, history
<1>2. Asked(p) /\ walked'[p] = walked[p] /\ ~stopped /\ p \notin excused'
  BY <1>1 DEF Asked
<1>3. j.path = p => j.ver = walked[p]
  BY <1>2 DEF GateInv, NoneBehind
<1>4. LocalAsWalked(p) => LocalAsWalked(p)'
  <2>1. CASE PullRefused(w) \/ PullBroken(w) \/ PullReceived(w)
    <3>1. /\ j.pc = "pull"
          /\ p # j.path => final'[p] = final[p]
      BY <2>1, PullLocal
    <3>2. p = j.path => ~LocalAsWalked(p)
      BY <1>3, <1>k, <3>1 DEF LocalAsWalked, Knows
    <3> QED
      BY <1>2, <3>1, <3>2 DEF LocalAsWalked, Local
  <2>2. CASE final' = final
    BY <1>2, <2>2 DEF LocalAsWalked, Local
  <2> QED
    BY <2>1, <2>2, NoPullSameFinal
<1>5. ASSUME Settle(w), j.path = p
      PROVE  LocalAsWalked(p)' \/ p \in failedPaths' \/ (j.out = "failed" /\ p \notin tags)
  <2>1. j.pc = "settle" /\ j.out \in {"none", "failed", "succeeded"}
    BY <1>0, <1>5 DEF Settle, WorkerStates
  <2>2. j.out # "none"
    BY <1>1, <1>2, <1>5, <1>k, <2>1 DEF Knows
  <2>3. j.out = "succeeded" => LocalAsWalked(p)
    BY <1>1, <1>2, <1>3, <1>5, <1>k, <2>1 DEF Knows, LocalAsWalked
  <2>4. j.out = "failed" /\ p \in tags => p \in failedPaths'
    BY <1>5 DEF Settle
  <2> QED
    BY <1>4, <2>1, <2>2, <2>3, <2>4
<1>6. ASSUME Settle(w), j.path = p, j.out = "succeeded"
      PROVE  LocalAsWalked(p)'
  <2>1. LocalAsWalked(p)
    BY <1>1, <1>2, <1>3, <1>6, <1>k DEF Knows, LocalAsWalked, Settle
  <2> QED
    BY <1>4, <2>1
<1>7. p \in failedPaths => p \in failedPaths' \/ LocalAsWalked(p)'
  <2>1. CASE Settle(w)
    BY <1>6, <2>1 DEF Settle
  <2>2. CASE ~Settle(w)
    BY <2>2 DEF Work, WorkerTakes, TakeHead, WorkerExits, Cancelled, PullBroken, PullRefused, PullReceived,
       StartAttempt, ReleaseInflight, ReleaseTag, catchVars
  <2> QED
    BY <2>1, <2>2
<1>8. p \in droppedPaths => p \in droppedPaths' \/ LocalAsWalked(p)'
  <2>1. CASE Settle(w)
    BY <1>6, <2>1 DEF Settle
  <2>2. CASE ~Settle(w)
    BY <2>2 DEF Work, WorkerTakes, TakeHead, WorkerExits, Cancelled, PullBroken, PullRefused, PullReceived,
       StartAttempt, ReleaseInflight, ReleaseTag, catchVars
  <2> QED
    BY <2>1, <2>2
<1>9. Tagged(p) => Tagged(p)' \/ Reported(p)' \/ LocalAsWalked(p)'
  <2> SUFFICES ASSUME Tagged(p) PROVE Tagged(p)' \/ Reported(p)' \/ LocalAsWalked(p)'
    OBVIOUS
  <2>0. p \in tags /\ \A v \in Workers : ~(worker[v].path = p /\ worker[v].pc \in {"release", "untag"})
    BY DEF Tagged, Releasing
  <2>1. ASSUME p \in tags', \A v \in Workers : v # w => worker'[v] = worker[v],
               ~(worker'[w].path = p /\ worker'[w].pc \in {"release", "untag"})
        PROVE  Tagged(p)'
    BY <2>0, <2>1 DEF Tagged, Releasing
  <2>2. \A v \in Workers : v # w => worker'[v] = worker[v]
    BY <1>0 DEF Work, WorkerTakes, TakeHead, WorkerExits, Cancelled, PullBroken, PullRefused, PullReceived,
       StartAttempt, Settle, ReleaseInflight, ReleaseTag
  <2>3. CASE Settle(w)
    <3>1. CASE j.path = p
      BY <1>5, <2>0, <2>3, <3>1 DEF Reported
    <3>2. CASE j.path # p
      <4>1. worker'[w].path = j.path /\ tags' = tags
        BY <1>0, <2>3 DEF Settle, Idle, enqVars
      <4> QED
        BY <2>0, <2>1, <2>2, <3>2, <4>1
    <3> QED
      BY <3>1, <3>2
  <2>4. CASE ReleaseInflight(w)
    <3>1. j.path # p /\ worker'[w].path = j.path /\ tags' = tags
      BY <1>0, <2>0, <2>4 DEF ReleaseInflight, WorkerStates
    <3> QED
      BY <2>0, <2>1, <2>2, <3>1
  <2>5. CASE ReleaseTag(w)
    <3>1. j.path # p /\ worker'[w].pc = "idle" /\ tags' = tags \ {j.path}
      BY <1>0, <2>0, <2>5 DEF ReleaseTag, Idle
    <3> QED
      BY <2>0, <2>1, <2>2, <3>1
  <2>6. CASE WorkerTakes(w)
    <3>1. worker'[w].pc = "attempt" /\ tags' = tags
      BY <1>0, <2>6 DEF WorkerTakes, TakeHead, Idle
    <3> QED
      BY <2>0, <2>1, <2>2, <3>1
  <2>7. CASE WorkerExits(w) \/ Cancelled(w)
    <3>1. worker'[w].pc \in {"exited", "settle"} /\ tags' = tags
      BY <1>0, <2>7 DEF WorkerExits, Cancelled, WorkerStates, enqVars
    <3> QED
      BY <2>0, <2>1, <2>2, <3>1
  <2>8. CASE StartAttempt(w)
    <3>1. PICK r : worker' = [worker EXCEPT ![w] = r]
                   /\ \/ r = [j EXCEPT !.out = "succeeded", !.pc = "settle"]
                      \/ \E n : r = [j EXCEPT !.peers = n, !.pc = "pull"]
                      \/ r = NoPeers(j)
      BY <2>8 DEF StartAttempt
    <3>2. r.pc \in {"settle", "pull", "attempt"} /\ tags' = tags
      BY <1>0, <2>8, <3>1 DEF StartAttempt, NoPeers, WorkerStates, enqVars
    <3> QED
      BY <1>0, <2>0, <2>1, <2>2, <3>1, <3>2
  <2>9. CASE PullRefused(w) \/ PullBroken(w) \/ PullReceived(w)
    <3>1. PICK r : worker' = [worker EXCEPT ![w] = r]
                   /\ \/ r = [j EXCEPT !.out = "succeeded", !.pc = "settle", !.peers = 0]
                      \/ r = PeerFailed(j) \/ r = AttemptFailed(j)
      BY <2>9 DEF PullRefused, PullBroken, PullReceived
    <3>2. r.pc \in {"settle", "pull", "attempt"} /\ tags' = tags
      <4>1. j.pc = "pull"
        BY <2>9, PullLocal
      <4>2. tags' = tags
        BY <2>9 DEF PullRefused, PullBroken, PullReceived, enqVars
      <4> QED
        BY <1>0, <3>1, <4>1, <4>2 DEF PeerFailed, AttemptFailed, WorkerStates
    <3> QED
      BY <1>0, <2>0, <2>1, <2>2, <3>1, <3>2
  <2> QED
    BY <2>3, <2>4, <2>5, <2>6, <2>7, <2>8, <2>9 DEF Work
<1> QED
  BY <1>2, <1>4, <1>7, <1>8, <1>9

\* A worker leaves nothing unanswered.
LEMMA GateWork ==
    ASSUME Base, GateInv, NEW w \in Workers, Work(w)
    PROVE  Owed' /\ GateKnows'
<1>1. UNCHANGED <<walker, gate, call>>
  BY DEF Work, WorkerTakes, TakeHead, WorkerExits, Cancelled, PullBroken, PullRefused, PullReceived,
     StartAttempt, Settle, ReleaseInflight, ReleaseTag, enqVars
<1>2. ASSUME NEW p \in Paths, Asked(p)', ~stopped'
      PROVE  LocalAsWalked(p)' \/ Reported(p)' \/ Tagged(p)' \/ Dropping(p)'
  <2>1. LocalAsWalked(p) \/ Reported(p) \/ Tagged(p) \/ Dropping(p)
    BY <1>2, WorkResolves DEF GateInv, Owed
  <2>2. Dropping(p) => Dropping(p)'
    BY <1>1 DEF Dropping
  <2> QED
    BY <1>2, <2>1, <2>2, WorkResolves DEF Reported
<1>3. ASSUME NEW p \in Paths, Asked(p)', ~stopped'
      PROVE  /\ gate' = "drained" => LocalAsWalked(p)' \/ Reported(p)'
             /\ gate' = "unfailed" => LocalAsWalked(p)' \/ p \in droppedPaths'
             /\ gate' = "open" => LocalAsWalked(p)'
  <2>1. /\ gate = "drained" => LocalAsWalked(p) \/ Reported(p)
        /\ gate = "unfailed" => LocalAsWalked(p) \/ p \in droppedPaths
        /\ gate = "open" => LocalAsWalked(p)
    BY <1>3, WorkResolves DEF GateInv, GateKnows
  <2> QED
    BY <1>1, <1>3, <2>1, WorkResolves DEF Reported
<1>4. gate' # "idle" => Completed'
  BY <1>1 DEF GateInv, GateKnows, Completed
<1> QED
  BY <1>2, <1>3, <1>4 DEF Owed, GateKnows

\* A step of another goroutine that reports no less and takes no tag.
LEMMA GateKeeps ==
    ASSUME Base, GateInv, UNCHANGED <<final, worker, gate>>, stopped => stopped',
           \A p \in Paths : Asked(p)' => Asked(p) /\ walked'[p] = walked[p],
           failedPaths \subseteq failedPaths', droppedPaths \subseteq droppedPaths',
           \A p \in Paths : Asked(p)' /\ p \in tags => p \in tags' \/ Reported(p)' \/ Dropping(p)',
           \A p \in Paths : Asked(p)' /\ Dropping(p) => Dropping(p)' \/ Reported(p)',
           gate # "idle" /\ Completed => Completed'
    PROVE  Owed' /\ GateKnows'
<1>1. \A p \in Paths : Asked(p)' => (LocalAsWalked(p)' <=> LocalAsWalked(p))
  BY DEF LocalAsWalked, Local
<1>2. \A p : Releasing(p)' <=> Releasing(p)
  BY DEF Releasing
<1>3. \A p : Reported(p) => Reported(p)'
  BY DEF Reported
<1>4. Owed'
  BY <1>1, <1>2, <1>3 DEF GateInv, Owed, Tagged
<1>5. GateKnows'
  BY <1>1, <1>3 DEF GateInv, GateKnows
<1> QED
  BY <1>4, <1>5

\* Nor does an Enqueue: a dropped call of the walker is about to be recorded, one of the callback is a gap.
LEMMA GateEnqueue ==
    ASSUME Base, GateInv, NEW c \in Callers, Enqueue(c)
    PROVE  Owed' /\ GateKnows'
<1>0. call \in [Callers -> CallStates]
  BY Types DEF Base
<1>1. /\ UNCHANGED <<final, worker, gate, stopped, manifest, walked, walker, failedPaths, droppedPaths>>
      /\ excused \subseteq excused'
  BY DEF Enqueue, InflightAdd, SendEntry, DropEntry, disk, catchVars, history
<1>2. \A p \in Paths : Asked(p)' => Asked(p) /\ walked'[p] = walked[p]
  BY <1>1 DEF Asked
<1>3. \A p \in Paths : Asked(p)' /\ p \in tags => p \in tags' \/ Dropping(p)'
  <2>1. CASE ~DropEntry(c)
    BY <2>1 DEF Enqueue, InflightAdd, SendEntry
  <2>2. CASE DropEntry(c) /\ c = "callback"
    BY <2>2 DEF DropEntry, Asked
  <2>3. CASE DropEntry(c) /\ c = "walker"
    <3>1. /\ call'["walker"].pc = "returned" /\ call'["walker"].out = "dropped"
          /\ call'["walker"].path = call["walker"].path
      BY <1>0, <2>3 DEF DropEntry, Return, CallStates
    <3>2. tags' = tags \ {call["walker"].path}
      BY <2>3 DEF DropEntry
    <3> QED
      BY <3>1, <3>2 DEF Dropping
  <2> QED
    BY <2>1, <2>2, <2>3 DEF Callers
<1>4. \A p \in Paths : Dropping(p) => Dropping(p)'
  <2> SUFFICES ASSUME NEW p \in Paths, Dropping(p) PROVE Dropping(p)'
    OBVIOUS
  <2>1. c # "walker"
    BY DEF Dropping, Enqueue, InflightAdd, SendEntry, DropEntry
  <2>2. call'["walker"] = call["walker"]
    BY <1>0, <2>1 DEF Enqueue, InflightAdd, SendEntry, DropEntry, Return, Callers
  <2> QED
    BY <2>2 DEF Dropping
<1> QED
  BY <1>1, <1>2, <1>3, <1>4, GateKeeps DEF Completed

\* Nor does the walker, which runs only while the gate is closed.
LEMMA GateWalk == Base /\ GateInv /\ Walk => Owed' /\ GateKnows'
<1> SUFFICES ASSUME Base, GateInv, Walk PROVE Owed' /\ GateKnows'
  OBVIOUS
<1>0. call \in [Callers -> CallStates] /\ walker \in WalkerStates /\ walked \in [Paths -> Versions \cup {0}]
  BY Types DEF Base
<1>1. gate = "idle"
  <2>1. walker.pc # "done"
    BY DEF Walk, FetchPage, WalkerAborts, SkipSelf, MarkCatchUp, Classify
  <2> QED
    BY <2>1 DEF GateInv, GateKnows, Completed
<1>2. CASE FetchPage \/ WalkerAborts \/ SkipSelf
  <2>1. UNCHANGED <<final, worker, gate, stopped, manifest, walked, excused, failedPaths, droppedPaths, tags, call>>
    BY <1>2 DEF FetchPage, WalkerAborts, SkipSelf, enqVars, catchVars, disk, history
  <2>2. \A p \in Paths : Asked(p)' => Asked(p) /\ walked'[p] = walked[p]
    BY <2>1 DEF Asked
  <2>3. \A p \in Paths : Dropping(p) => Dropping(p)'
    BY <2>1 DEF Dropping
  <2> QED
    BY <1>1, <2>1, <2>2, <2>3, GateKeeps
<1>3. CASE Classify
  <2> DEFINE q == call["walker"].path
  <2>0. /\ UNCHANGED <<final, worker, gate, stopped, manifest, walked, failedPaths>>
        /\ excused \subseteq excused' /\ droppedPaths \subseteq droppedPaths'
        /\ \A p \in tags : p \in tags' \/ (p = q /\ p \in droppedPaths')
        /\ call["walker"].out = "dropped" => q \in droppedPaths' \/ q \in excused'
    BY <1>3 DEF Classify, disk
  <2>1. \A p \in Paths : Asked(p)' => Asked(p) /\ walked'[p] = walked[p]
    BY <2>0 DEF Asked
  <2>2. \A p \in Paths : Asked(p)' /\ Dropping(p) => Reported(p)'
    BY <2>0 DEF Asked, Dropping, Reported
  <2>3. \A p \in Paths : p \in tags => p \in tags' \/ Reported(p)'
    BY <2>0 DEF Reported
  <2> QED
    BY <1>1, <2>0, <2>1, <2>2, <2>3, GateKeeps
<1>4. CASE MarkCatchUp
  <2>0. /\ UNCHANGED <<final, worker, gate, stopped, manifest, failedPaths, droppedPaths>>
        /\ tags \subseteq tags' /\ excused \subseteq excused'
    BY <1>4 DEF MarkCatchUp, disk, catchVars
  <2>1. PICK e \in First(walker.page) :
          /\ tags' = tags \cup {e.path}
          /\ walked' = [walked EXCEPT ![e.path] = e.ver]
          /\ excused' = IF Releasing(e.path) \/ HeldOlder(e.path, e.ver) THEN excused \cup {e.path} ELSE excused
    BY <1>4 DEF MarkCatchUp
  <2>2. call["walker"].pc = "none"
    BY <1>4 DEF MarkCatchUp, Base, TagInv
  <2>3. \A p \in Paths : p # e.path => walked'[p] = walked[p]
    BY <1>0, <2>1
  <2>4. \A p : Releasing(p)' <=> Releasing(p)
    BY <2>0 DEF Releasing
  <2>5. ASSUME NEW p \in Paths, Asked(p)', ~stopped', p # e.path
        PROVE  LocalAsWalked(p)' \/ Reported(p)' \/ Tagged(p)' \/ Dropping(p)'
    <3>1. Asked(p) /\ ~stopped /\ walked'[p] = walked[p]
      BY <2>0, <2>3, <2>5 DEF Asked
    <3>2. LocalAsWalked(p) \/ Reported(p) \/ Tagged(p)
      BY <2>2, <3>1 DEF GateInv, Owed, Dropping
    <3> QED
      BY <2>0, <2>4, <3>1, <3>2 DEF LocalAsWalked, Local, Reported, Tagged
  <2>6. ASSUME Asked(e.path)' PROVE Tagged(e.path)'
    BY <2>1, <2>4, <2>6 DEF Asked, Tagged
  <2>7. Owed'
    BY <2>5, <2>6 DEF Owed
  <2> QED
    BY <1>1, <2>0, <2>7 DEF GateKnows
<1> QED
  BY <1>2, <1>3, <1>4 DEF Walk

\* Each load of the gate adds what it has seen.
LEMMA GateAsks == Base /\ GateInv /\ (FullyCaughtUp \/ GateReturns) => Owed' /\ GateKnows'
<1> SUFFICES ASSUME Base, GateInv, FullyCaughtUp \/ GateReturns PROVE Owed' /\ GateKnows'
  OBVIOUS
<1>0. UNCHANGED <<manifest, tags, call, failedPaths, droppedPaths, walker, worker, final, stopped, walked, excused>>
  BY DEF FullyCaughtUp, GateReturns, Load, enqVars, catchVars, disk, history
<1>1. \A p : /\ Asked(p)' <=> Asked(p)
             /\ LocalAsWalked(p)' <=> LocalAsWalked(p)
             /\ Reported(p)' <=> Reported(p)
             /\ Tagged(p)' <=> Tagged(p)
             /\ Dropping(p)' <=> Dropping(p)
  BY <1>0 DEF Asked, LocalAsWalked, Local, Reported, Tagged, Releasing, Dropping
<1>2. Owed'
  BY <1>0, <1>1 DEF GateInv, Owed
<1>3. \/ gate' = "idle"
      \/ gate' = "completed" /\ Completed
      \/ gate = "completed" /\ gate' = "drained" /\ tags = {}
      \/ gate = "drained" /\ gate' = "unfailed" /\ failedPaths = {}
      \/ gate = "unfailed" /\ gate' = "open" /\ droppedPaths = {}
  BY DEF FullyCaughtUp, GateReturns, Load
<1>4. Completed' <=> Completed
  BY <1>0 DEF Completed
<1>5. CASE gate' = "idle" \/ (gate' = "completed" /\ Completed)
  BY <1>2, <1>4, <1>5 DEF GateKnows
<1>6. CASE gate = "completed" /\ gate' = "drained" /\ tags = {}
  <2>1. Completed /\ call["walker"].pc = "none"
    BY <1>6 DEF GateInv, GateKnows, Completed, Base, TagInv
  <2>2. \A p \in Paths : Asked(p) /\ ~stopped => LocalAsWalked(p) \/ Reported(p)
    BY <1>6, <2>1 DEF GateInv, Owed, Tagged, Dropping
  <2> QED
    BY <1>0, <1>1, <1>2, <1>4, <1>6, <2>1, <2>2 DEF GateKnows
<1>7. CASE gate = "drained" /\ gate' = "unfailed" /\ failedPaths = {}
  <2>1. \A p \in Paths : Asked(p) /\ ~stopped => LocalAsWalked(p) \/ p \in droppedPaths
    BY <1>7 DEF GateInv, GateKnows, Reported
  <2> QED
    BY <1>0, <1>1, <1>2, <1>4, <1>7, <2>1 DEF GateInv, GateKnows
<1>8. CASE gate = "unfailed" /\ gate' = "open" /\ droppedPaths = {}
  <2>1. \A p \in Paths : Asked(p) /\ ~stopped => LocalAsWalked(p)
    BY <1>8 DEF GateInv, GateKnows
  <2> QED
    BY <1>0, <1>1, <1>2, <1>4, <1>8, <2>1 DEF GateInv, GateKnows
<1> QED
  BY <1>2, <1>3, <1>5, <1>6, <1>7, <1>8

\* Every step keeps the invariant.
LEMMA GateNext == Base /\ GateInv /\ [Next]_vars => GateInv'
<1> SUFFICES ASSUME Base, GateInv, [Next]_vars PROVE GateInv'
  OBVIOUS
<1>1. ASSUME NEW p \in Paths, ApplyFile(p) PROVE Owed' /\ GateKnows'
  <2>0. /\ UNCHANGED <<final, worker, gate, stopped, walked, walker, excused, tags, failedPaths, droppedPaths>>
        /\ call["callback"].pc = "none"
    BY <1>1 DEF ApplyFile, NotCalling, disk, catchVars, history
  <2>1. PICK v \in {manifest[p], manifest[p] + 1} : manifest' = [manifest EXCEPT ![p] = v]
                                                   /\ (call' = call \/ StartCall("callback", p, v))
    BY <1>1 DEF ApplyFile
  <2>2. call'["walker"] = call["walker"]
    BY <2>1, Types DEF StartCall, Base, Callers
  <2>3. \A q \in Paths : manifest'[q] \in {manifest[q], manifest[q] + 1} /\ walked[q] <= manifest[q]
                         /\ walked[q] \in Nat /\ manifest[q] \in Nat
    BY <2>1, Types, Points DEF GateInv, NoneAhead, Base
  <2>4. \A q \in Paths : Asked(q)' => Asked(q) /\ walked'[q] = walked[q]
    BY <2>0, <2>3 DEF Asked
  <2>5. \A q \in Paths : Dropping(q) => Dropping(q)'
    BY <2>2 DEF Dropping
  <2> QED
    BY <2>0, <2>4, <2>5, GateKeeps DEF Completed
<1>2. ASSUME Stop \/ UNCHANGED vars PROVE Owed' /\ GateKnows'
  <2>0. UNCHANGED <<final, worker, gate, manifest, walked, walker, excused, tags, call, failedPaths, droppedPaths>>
        /\ (stopped => stopped')
    BY <1>2 DEF Stop, vars, disk, catchVars, enqVars, history
  <2>1. \A q \in Paths : Asked(q)' => Asked(q) /\ walked'[q] = walked[q]
    BY <2>0 DEF Asked
  <2>2. \A q \in Paths : Dropping(q) => Dropping(q)'
    BY <2>0 DEF Dropping
  <2>3. Completed => Completed'
    BY <2>0 DEF Completed
  <2>4. /\ UNCHANGED <<final, worker, gate>> /\ (stopped => stopped')
        /\ tags' = tags /\ failedPaths' = failedPaths /\ droppedPaths' = droppedPaths
    BY <2>0
  <2> QED
    BY <2>1, <2>2, <2>3, <2>4, GateKeeps
<1>3. Owed' /\ GateKnows'
  <2>1. ASSUME NEW c \in Callers, Enqueue(c) PROVE Owed' /\ GateKnows'
    BY <2>1, GateEnqueue
  <2>2. ASSUME NEW w \in Workers, Work(w) PROVE Owed' /\ GateKnows'
    BY <2>2, GateWork
  <2>3. CASE Walk \/ FullyCaughtUp \/ GateReturns
    BY <2>3, GateWalk, GateAsks
  <2> QED
    BY <1>1, <1>2, <2>1, <2>2, <2>3 DEF Next, Callers
<1> QED
  BY <1>3, AheadNext, KnowsNext DEF GateInv

\* Once the gate is open, what it answers for is local.
LEMMA GateInvImplies == Base /\ GateInv => GateMissesOnly
<1> SUFFICES ASSUME Base, GateInv, gate = "open", ~stopped, NEW p \in Missing, p \notin excused PROVE FALSE
  BY DEF GateMissesOnly
<1>1. p \in Paths /\ Asked(p) /\ ~LocalAsWalked(p)
  BY DEF Missing, Asked, LocalAsWalked
<1> QED
  BY <1>1 DEF GateInv, GateKnows

\* A query that passes the gate misses no file that the walker handled but for the gaps `excused'
\* names, for every set of files, workers and versions and every interleaving of the four loads.
THEOREM GateMissesOnlyCorrect == Spec => []GateMissesOnly
<1>1. Base /\ [Next]_vars => Base'
  BY TypeNext, TagNext, FinalNext, HeldNext DEF Base
<1>2. Init => Base
  BY TypeInit, TagInvInit, FinalInit, HeldInit DEF Base
<1> QED
  BY <1>1, <1>2, GateInit, GateNext, GateInvImplies, PTL DEF Spec
=============================================================================
