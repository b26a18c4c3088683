---------------------------- MODULE FilePuller ----------------------------
(* Peer-to-peer file replication of one node: the Raft callback and the      *)
(* catch-up walker enqueue manifest entries, workers pull the files from     *)
(* peers onto a LocalBackend, and the query gate asks FullyCaughtUp.         *)
(* internal/cluster/filereplication/{puller,catchup,fetch_client}.go,        *)
(* internal/storage/local.go, and the wiring in internal/cluster.            *)
EXTENDS Naturals, Sequences, FiniteSets, Functions

CONSTANTS
    Paths,              \* numbered in the order of the manifest's sorted keys
    Restored,           \* paths in the manifest when the puller starts
    SelfPaths,          \* paths whose OriginNodeID is this node
    SizeOf,             \* version of a file -> SizeBytes, in blocks
    Workers,
    QueueSize,
    RetryMaxAttempts,
    MaxPeers,           \* most candidates ResolvePeers returns
    PageSize,
    FetchMayFail,       \* peers refuse, break off, or are not known
    MayCorrupt,         \* a peer serves bytes that do not match the manifest
    MayStop,
    MaxApplies,         \* bound of the model: Raft commands applied
    NoFile

Versions == DOMAIN SizeOf

ASSUME PullerConstants ==
    /\ Paths \subseteq Nat \ {0}
    /\ Restored \subseteq Paths /\ SelfPaths \subseteq Paths
    /\ SizeOf \in Seq(Nat \ {0}) /\ SizeOf # <<>>
    /\ {QueueSize, RetryMaxAttempts, MaxPeers, PageSize} \subseteq Nat \ {0}
    /\ {FetchMayFail, MayCorrupt, MayStop} \subseteq BOOLEAN
    /\ MaxApplies \in Nat

VARIABLES
    manifest,           \* fsm.files: version of each path, 0 if not registered
    queue,              \* p.queue: entries [path, ver]
    inflight,           \* p.inflight
    tags,               \* p.catchupPaths, whose size is catchupInflight
    failedPaths,        \* p.catchupFailedPaths, whose size is catchupFailed
    droppedPaths,       \* p.catchupDroppedPaths, whose size is catchupDropped
    call,               \* the Enqueue calls of the callback and of the walker
    bumped,             \* counters of Enqueue raised since the walker read them
    walker,             \* RunCatchUp
    worker,             \* processEntry of each worker
    final, part,        \* <path> and <path>.part on disk: the version of each block
    gate,               \* how far a call of FullyCaughtUp has come
    stopped,            \* p.ctx and the walker's context are cancelled
    applies,            \* commands applied, for MaxApplies
    walked,             \* history: version the walker handled, 0 before
    excused             \* history: paths a known gap of the gate concerns

enqVars == <<queue, inflight, tags, call, bumped>>
catchVars == <<failedPaths, droppedPaths>>
disk == <<final, part>>
history == <<walked, excused>>
vars == <<manifest, enqVars, catchVars, walker, worker, disk, gate, stopped, applies, history>>

---------------------------------------------------------------------------
(* Files.  A file is a sequence of blocks, a block the version it belongs to *)
(* or 0 if a peer corrupted it; equal sequences stand for equal SHA-256.     *)

Content(v) == [i \in 1..SizeOf[v] |-> v]

\* A missing file is not mistaken for one with contents.
ASSUME NoFileIsNone == \A v \in Versions : Content(v) # NoFile

Blocks(k, b) == [i \in 1..k |-> b]

\* LocalBackend.StatFile and ReadToAt: the final file, else the staging file.
OnDisk(p) == IF final[p] # NoFile THEN final[p] ELSE part[p]

StatFile(p) == IF OnDisk(p) = NoFile THEN 0 ELSE Len(OnDisk(p))

Local(p, v) == final[p] = Content(v)

Idle == [pc |-> "idle", path |-> 0, ver |-> 0, attempt |-> 0, peers |-> 0, out |-> "none"]
NoCall == [pc |-> "none", path |-> 0, ver |-> 0, out |-> "none"]
NotCalling(c) == call[c].pc = "none"

HighWater == IF (QueueSize * 4) \div 5 < 1 THEN 1 ELSE (QueueSize * 4) \div 5

HasRoom == Len(queue) < QueueSize

Init ==
    /\ manifest = [p \in Paths |-> IF p \in Restored THEN 1 ELSE 0]
    /\ queue = <<>> /\ inflight = {} /\ tags = {}
    /\ failedPaths = {} /\ droppedPaths = {}
    /\ call = [c \in {"callback", "walker"} |-> NoCall]
    /\ bumped = {}
    /\ walker = [pc |-> "page", cursor |-> 0, page |-> {}]
    /\ worker = [w \in Workers |-> Idle]
    /\ \E S \in SUBSET (Restored \ SelfPaths) :
         final = [p \in Paths |-> IF p \in S \cup SelfPaths THEN Content(1) ELSE NoFile]
    /\ part = [p \in Paths |-> NoFile]
    /\ gate = "idle" /\ stopped = FALSE /\ applies = 0
    /\ walked = [p \in Paths |-> 0] /\ excused = {}

---------------------------------------------------------------------------
(* Enqueue, for its two callers c.                                           *)

\* Only what is raised between the walker's loads of the counters matters.
Bump(kind) == bumped' = IF walker.pc = "classify" THEN bumped \cup {kind} ELSE bumped

Return(c, out) ==
    call' = [call EXCEPT ![c] = IF c = "walker" THEN [@ EXCEPT !.pc = "returned", !.out = out] ELSE NoCall]

InflightAdd(c) ==
    LET p == call[c].path IN
    /\ call[c].pc = "add"
    /\ IF p \notin inflight
       THEN /\ inflight' = inflight \cup {p}
            /\ call' = [call EXCEPT ![c].pc = "send"]
            /\ UNCHANGED bumped
       ELSE /\ Bump("dup")
            /\ Return(c, "dup")
            /\ UNCHANGED inflight
    /\ UNCHANGED <<manifest, queue, tags, catchVars, walker, worker, disk, gate, stopped, applies, history>>

\* The non-blocking send; a full queue releases the in-flight slot.
SendEntry(c) ==
    LET p == call[c].path IN
    /\ call[c].pc = "send"
    /\ IF HasRoom
       THEN /\ queue' = Append(queue, [path |-> p, ver |-> call[c].ver])
            /\ Bump("enqueued")
            /\ Return(c, "enqueued")
            /\ UNCHANGED inflight
       ELSE /\ inflight' = inflight \ {p}
            /\ call' = [call EXCEPT ![c].pc = "drop"]
            /\ UNCHANGED <<queue, bumped>>
    /\ UNCHANGED <<manifest, tags, catchVars, walker, worker, disk, gate, stopped, applies, history>>

\* The second half of inflightRemove, under the other mutex.  A drop of the
\* callback may take the tag of the walker: a gap.
DropEntry(c) ==
    LET p == call[c].path IN
    /\ call[c].pc = "drop"
    /\ tags' = tags \ {p}
    /\ Bump("dropped")
    /\ Return(c, "dropped")
    /\ excused' = IF c = "callback" /\ p \in tags THEN excused \cup {p} ELSE excused
    /\ UNCHANGED <<manifest, queue, inflight, catchVars, walker, worker, disk, gate, stopped, applies, walked>>

Enqueue(c) == InflightAdd(c) \/ SendEntry(c) \/ DropEntry(c)

StartCall(c, p, v) ==
    call' = [call EXCEPT ![c] = [pc |-> "add", path |-> p, ver |-> v, out |-> "none"]]

\* applyRegisterFile and applyUpdateFile: a new path, the same entry again
\* (a command retried by its sender), or new content; then onFileRegistered.
ApplyFile(p) ==
    /\ NotCalling("callback")
    /\ applies < MaxApplies
    /\ applies' = applies + 1
    /\ \E v \in Versions \cap {manifest[p], manifest[p] + 1} :
         /\ manifest' = [manifest EXCEPT ![p] = v]
         /\ IF p \in SelfPaths
            THEN UNCHANGED call
            ELSE StartCall("callback", p, v)
    /\ UNCHANGED <<queue, inflight, tags, bumped, catchVars, walker, worker, disk, gate, stopped, history>>

---------------------------------------------------------------------------
(* RunCatchUp.                                                               *)

\* GetFilesPaginated: the first PageSize paths behind the cursor, and the last
\* of them as the next cursor if there are more.
FetchPage ==
    LET rest == {p \in Paths : manifest[p] # 0 /\ p > walker.cursor}
        keys == {p \in rest : Cardinality({q \in rest : q < p}) < PageSize}
    IN
    /\ walker.pc = "page"
    /\ \E next \in keys \cup {0} :
         /\ IF rest = keys THEN next = 0 ELSE next # 0 /\ \A q \in keys : q <= next
         /\ walker' =
              IF stopped THEN [walker EXCEPT !.pc = "aborted"]
              ELSE IF keys = {} THEN [walker EXCEPT !.pc = "done"]
              ELSE [pc |-> "entry", cursor |-> next,
                    page |-> {[path |-> p, ver |-> manifest[p]] : p \in keys}]
    /\ UNCHANGED <<manifest, enqVars, catchVars, worker, disk, gate, stopped, applies, history>>

\* The entry the walker is at: pages are sorted by path.
First(page) == {e \in page : \A f \in page : e.path <= f.path}

\* The next entry, the next page, or catchupCompletedAt.
NextEntry ==
    LET rest == walker.page \ First(walker.page) IN
    [walker EXCEPT !.page = rest,
                   !.pc = IF rest # {} THEN "entry" ELSE IF walker.cursor # 0 THEN "page" ELSE "done"]

WalkerAborts ==
    /\ walker.pc = "entry" /\ stopped
    /\ walker' = [walker EXCEPT !.pc = "aborted", !.page = {}]
    /\ UNCHANGED <<manifest, enqVars, catchVars, worker, disk, gate, stopped, applies, history>>

SkipSelf ==
    /\ walker.pc = "entry" /\ ~stopped
    /\ Len(queue) < HighWater
    /\ \E e \in First(walker.page) : e.path \in SelfPaths
    /\ walker' = NextEntry
    /\ UNCHANGED <<manifest, enqVars, catchVars, worker, disk, gate, stopped, applies, history>>

\* A worker that has looked at the tag of p but not yet removed it, or a pull
\* of an older version, which will take a tag that is meant for version v.
Releasing(p) == \E w \in Workers : worker[w].path = p /\ worker[w].pc \in {"release", "untag"}
HeldOlder(p, v) == \E e \in Range(queue) \cup Range(worker) : e.path = p /\ e.ver < v

\* markCatchUp, then the loads of the three counters.  The mark is lost to the
\* release of the pull in flight in the two cases above: gaps.
MarkCatchUp ==
    /\ walker.pc = "entry" /\ ~stopped
    /\ Len(queue) < HighWater
    /\ \E e \in First(walker.page) :
         /\ e.path \notin SelfPaths
         /\ tags' = tags \cup {e.path}
         /\ StartCall("walker", e.path, e.ver)
         /\ walked' = [walked EXCEPT ![e.path] = e.ver]
         /\ excused' = IF Releasing(e.path) \/ HeldOlder(e.path, e.ver)
                         THEN excused \cup {e.path} ELSE excused
    /\ bumped' = {}
    /\ walker' = [walker EXCEPT !.pc = "classify"]
    /\ UNCHANGED <<manifest, queue, inflight, catchVars, worker, disk, gate, stopped, applies>>

\* Variant: the tag is set when Enqueue has returned, not before it.
ClassifyAndMark ==
    /\ walker.pc = "classify" /\ call["walker"].pc = "returned"
    /\ tags' = IF "enqueued" \in bumped THEN tags \cup {call["walker"].path} ELSE tags
    /\ call' = [call EXCEPT !["walker"] = NoCall]
    /\ bumped' = {}
    /\ walker' = NextEntry
    /\ UNCHANGED <<manifest, queue, inflight, catchVars, worker, disk, gate, stopped, applies, history>>

\* The switch over the counter deltas: it sees the callback's Enqueue as well
\* as its own, and then a drop may go unrecorded: a gap.
Classify ==
    LET p == call["walker"].path
        dropped == bumped = {"dropped"}
    IN
    /\ walker.pc = "classify" /\ call["walker"].pc = "returned"
    /\ tags' = IF dropped THEN tags \ {p} ELSE tags
    /\ droppedPaths' = IF dropped THEN droppedPaths \cup {p} ELSE droppedPaths
    /\ excused' = IF call["walker"].out = "dropped" /\ ~dropped THEN excused \cup {p} ELSE excused
    /\ call' = [call EXCEPT !["walker"] = NoCall]
    /\ bumped' = {}
    /\ walker' = NextEntry
    /\ UNCHANGED <<manifest, queue, inflight, failedPaths, worker, disk, gate, stopped, applies, walked>>

Walk == FetchPage \/ WalkerAborts \/ SkipSelf \/ MarkCatchUp \/ Classify

Completed == walker.pc = "done"

---------------------------------------------------------------------------
(* worker and processEntry.                                                  *)

TakeHead(w) ==
    /\ worker[w].pc = "idle"
    /\ queue # <<>>
    /\ worker' = [worker EXCEPT ![w] = [Idle EXCEPT !.pc = "attempt", !.attempt = 1,
                                        !.path = Head(queue).path, !.ver = Head(queue).ver]]
    /\ queue' = Tail(queue)
    /\ UNCHANGED <<manifest, tags, call, bumped, catchVars, walker, disk, gate, stopped, applies, history>>

\* Variant: the path leaves the in-flight set when it leaves the queue.
WorkerTakesReleasing(w) == TakeHead(w) /\ inflight' = inflight \ {Head(queue).path}

WorkerTakes(w) == TakeHead(w) /\ UNCHANGED inflight

WorkerExits(w) ==
    /\ worker[w].pc = "idle" /\ stopped
    /\ worker' = [worker EXCEPT ![w].pc = "exited"]
    /\ UNCHANGED <<manifest, enqVars, catchVars, walker, disk, gate, stopped, applies, history>>

\* What follows a failed attempt: the next one after a backoff, or giving up.
AttemptFailed(j) ==
    IF j.attempt < RetryMaxAttempts
    THEN [j EXCEPT !.attempt = @ + 1, !.pc = "attempt", !.peers = 0]
    ELSE [j EXCEPT !.out = "failed", !.pc = "settle", !.peers = 0]

PeerFailed(j) == IF j.peers > 1 THEN [j EXCEPT !.peers = @ - 1] ELSE AttemptFailed(j)

\* No candidate: continue.  After the last attempt the loop ends with neither
\* failed nor succeeded: a gap.
NoPeers(j) ==
    IF j.attempt < RetryMaxAttempts THEN [j EXCEPT !.attempt = @ + 1] ELSE [j EXCEPT !.pc = "settle"]

Cancelled(w) ==
    /\ worker[w].pc \in {"attempt", "pull"} /\ stopped
    /\ worker' = [worker EXCEPT ![w] = [@ EXCEPT !.pc = "settle", !.peers = 0]]
    /\ UNCHANGED <<manifest, enqVars, catchVars, walker, disk, gate, stopped, applies, history>>

\* The pre-pull check and ResolvePeers.  The check compares sizes, so a full
\* staging file or an older version of equal size passes for the file: a gap.
StartAttempt(w) ==
    LET j == worker[w] IN
    /\ j.pc = "attempt" /\ ~stopped
    /\ IF StatFile(j.path) = SizeOf[j.ver]
       THEN /\ worker' = [worker EXCEPT ![w] = [@ EXCEPT !.out = "succeeded", !.pc = "settle"]]
            /\ excused' = IF Local(j.path, j.ver) THEN excused ELSE excused \cup {j.path}
       ELSE \/ \E n \in 1..MaxPeers :
                 /\ worker' = [worker EXCEPT ![w] = [@ EXCEPT !.peers = n, !.pc = "pull"]]
                 /\ UNCHANGED excused
            \/ /\ FetchMayFail
               /\ worker' = [worker EXCEPT ![w] = NoPeers(@)]
               /\ excused' = IF j.attempt < RetryMaxAttempts THEN excused ELSE excused \cup {j.path}
    /\ UNCHANGED <<manifest, enqVars, catchVars, walker, disk, gate, stopped, applies, walked>>

---------------------------------------------------------------------------
(* pullOnce.                                                                 *)

\* tryResumeFromPartial: the prefix that is hashed, empty for a full fetch.
Prefix(j) ==
    IF j.attempt > 1 /\ StatFile(j.path) < SizeOf[j.ver] /\ OnDisk(j.path) # NoFile
    THEN OnDisk(j.path) ELSE <<>>

\* What writeFileTail writes behind: WriteReader truncates the staging file,
\* AppendReader needs one.
Staged(j) == IF Prefix(j) = <<>> THEN <<>> ELSE part[j.path]

Pulling(w) == worker[w].pc = "pull" /\ ~stopped

\* The peer is unreachable, lacks the file, or rejects the offset; nothing is
\* received.  deleteFile removes the final file only.
PullRefused(w) ==
    LET j == worker[w] IN
    /\ Pulling(w)
    /\ FetchMayFail \/ Staged(j) = NoFile
    /\ part' = [part EXCEPT ![j.path] = Staged(j)]
    /\ \/ /\ worker' = [worker EXCEPT ![w] = PeerFailed(@)]
          /\ UNCHANGED final
       \/ /\ Prefix(j) # <<>>                                  \* ErrBadOffset
          /\ worker' = [worker EXCEPT ![w] = PeerFailed(@)]
          /\ final' = [final EXCEPT ![j.path] = NoFile]
       \/ /\ MayCorrupt                                        \* the ack's hash differs
          /\ worker' = [worker EXCEPT ![w] = AttemptFailed(@)]
          /\ final' = [final EXCEPT ![j.path] = NoFile]
    /\ UNCHANGED <<manifest, enqVars, catchVars, walker, gate, stopped, applies, history>>

\* The stream breaks off; the staging file keeps what came.
PullBroken(w) ==
    LET j == worker[w] IN
    /\ Pulling(w) /\ FetchMayFail /\ Staged(j) # NoFile
    /\ \E k \in 1..(SizeOf[j.ver] - Len(Prefix(j)) - 1), b \in {j.ver} \cup (IF MayCorrupt THEN {0} ELSE {}) :
         part' = [part EXCEPT ![j.path] = Staged(j) \o Blocks(k, b)]
    /\ worker' = [worker EXCEPT ![w] = PeerFailed(@)]
    /\ UNCHANGED <<manifest, enqVars, catchVars, walker, final, gate, stopped, applies, history>>

\* Variant: the hasher of a resumed fetch is not fed with the prefix.
VerifiedTail(j, body) == \A i \in DOMAIN body : body[i] = j.ver

\* The digest of the prefix and the body against the manifest.
Verified(j, body) == Prefix(j) \o body = Content(j.ver)

\* The whole tail came.  It is promoted if the digest is right; a mismatch
\* leaves it in the staging file and ends the attempt.
PullReceived(w) ==
    LET j == worker[w] IN
    /\ Pulling(w) /\ Staged(j) # NoFile
    /\ \E b \in {j.ver} \cup (IF MayCorrupt THEN {0} ELSE {}) :
         LET body == Blocks(SizeOf[j.ver] - Len(Prefix(j)), b) IN
         IF Verified(j, body)
         THEN /\ final' = [final EXCEPT ![j.path] = Staged(j) \o body]
              /\ part' = [part EXCEPT ![j.path] = NoFile]
              /\ worker' = [worker EXCEPT ![w] = [@ EXCEPT !.out = "succeeded", !.pc = "settle", !.peers = 0]]
         ELSE /\ final' = [final EXCEPT ![j.path] = NoFile]
              /\ part' = [part EXCEPT ![j.path] = Staged(j) \o body]
              /\ worker' = [worker EXCEPT ![w] = AttemptFailed(@)]
    /\ UNCHANGED <<manifest, enqVars, catchVars, walker, gate, stopped, applies, history>>

---------------------------------------------------------------------------
(* The deferred function of processEntry.                                    *)

Settle(w) ==
    LET j == worker[w] IN
    /\ j.pc = "settle"
    /\ failedPaths' = IF j.out = "failed" /\ j.path \in tags THEN failedPaths \cup {j.path}
                      ELSE IF j.out = "succeeded" THEN failedPaths \ {j.path} ELSE failedPaths
    /\ droppedPaths' = IF j.out = "succeeded" THEN droppedPaths \ {j.path} ELSE droppedPaths
    /\ worker' = [worker EXCEPT ![w] = [Idle EXCEPT !.pc = "release", !.path = j.path, !.ver = j.ver]]
    /\ UNCHANGED <<manifest, enqVars, walker, disk, gate, stopped, applies, history>>

\* inflightRemove, under inflightMu and then under catchupPathsMu.
ReleaseInflight(w) ==
    /\ worker[w].pc = "release"
    /\ inflight' = inflight \ {worker[w].path}
    /\ worker' = [worker EXCEPT ![w].pc = "untag"]
    /\ UNCHANGED <<manifest, queue, tags, call, bumped, catchVars, walker, disk, gate, stopped, applies, history>>

ReleaseTag(w) ==
    /\ worker[w].pc = "untag"
    /\ tags' = tags \ {worker[w].path}
    /\ worker' = [worker EXCEPT ![w] = Idle]
    /\ UNCHANGED <<manifest, queue, inflight, call, bumped, catchVars, walker, disk, gate, stopped, applies, history>>

Work(w) ==
    \/ WorkerTakes(w) \/ WorkerExits(w) \/ Cancelled(w) \/ StartAttempt(w)
    \/ PullRefused(w) \/ PullBroken(w) \/ PullReceived(w)
    \/ Settle(w) \/ ReleaseInflight(w) \/ ReleaseTag(w)

---------------------------------------------------------------------------
(* FullyCaughtUp loads its four atomics one after the other.                 *)

Load(from, ok, to) ==
    /\ gate = from
    /\ gate' = IF ok THEN to ELSE "idle"
    /\ UNCHANGED <<manifest, enqVars, catchVars, walker, worker, disk, stopped, applies, history>>

\* Variant: failures are loaded before the tags.
FailuresFirst ==
    \/ Load("idle", Completed, "completed")
    \/ Load("completed", failedPaths = {}, "drained")
    \/ Load("drained", tags = {}, "unfailed")
    \/ Load("unfailed", droppedPaths = {}, "open")

FullyCaughtUp ==
    \/ Load("idle", Completed, "completed")
    \/ Load("completed", tags = {}, "drained")
    \/ Load("drained", failedPaths = {}, "unfailed")
    \/ Load("unfailed", droppedPaths = {}, "open")

\* The query the answer lets through is over.
GateReturns == Load("open", FALSE, "idle")

\* Coordinator.Stop: the contexts are cancelled, the workers joined.
Stop ==
    /\ MayStop /\ ~stopped
    /\ stopped' = TRUE
    /\ UNCHANGED <<manifest, enqVars, catchVars, walker, worker, disk, gate, applies, history>>

Next ==
    \/ \E p \in Paths : ApplyFile(p)
    \/ \E c \in {"callback", "walker"} : Enqueue(c)
    \/ Walk
    \/ \E w \in Workers : Work(w)
    \/ FullyCaughtUp \/ GateReturns \/ Stop

Spec == Init /\ [][Next]_vars

---------------------------------------------------------------------------
(* Properties.                                                               *)

Entry == [path : Paths, ver : Versions]

CallStates ==
    {j \in [pc : {"none", "add", "send", "drop", "returned"}, path : Paths \cup {0},
            ver : Versions \cup {0}, out : {"none", "enqueued", "dup", "dropped"}] :
        j.pc = "none" \/ (j.path # 0 /\ j.ver # 0)}

WorkerStates == [pc : {"idle", "attempt", "pull", "settle", "release", "untag", "exited"},
                 path : Paths \cup {0}, ver : Versions \cup {0}, attempt : Nat, peers : Nat,
                 out : {"none", "failed", "succeeded"}]

\* A worker that has not taken an entry has none.
HasEntry(j) == j.pc \in {"idle", "exited"} \/ (j.path \in Paths /\ j.ver \in Versions)

WalkerStates == [pc : {"page", "entry", "classify", "done", "aborted"},
                 cursor : Paths \cup {0}, page : SUBSET Entry]

\* The types of the variables, and the capacity of the queue.
TypeOK ==
    /\ manifest \in [Paths -> Versions \cup {0}] /\ walked \in [Paths -> Versions \cup {0}]
    /\ queue \in Seq(Entry) /\ Len(queue) <= QueueSize
    /\ inflight \subseteq Paths /\ tags \subseteq Paths /\ failedPaths \subseteq Paths
    /\ droppedPaths \subseteq Paths /\ excused \subseteq Paths
    /\ call \in [{"callback", "walker"} -> CallStates]
    /\ bumped \subseteq {"enqueued", "dup", "dropped"}
    /\ walker \in WalkerStates
    /\ worker \in [Workers -> WorkerStates] /\ \A w \in Workers : HasEntry(worker[w])
    /\ DOMAIN final = Paths /\ DOMAIN part = Paths
    /\ gate \in {"idle", "completed", "drained", "unfailed", "open"}
    /\ stopped \in BOOLEAN /\ applies \in 0..MaxApplies

\* Who is responsible for p: a queued entry, a worker, or a call about to send.
Holders(p) ==
    Cardinality({i \in DOMAIN queue : queue[i].path = p})
    + Cardinality({w \in Workers : worker[w].path = p /\ worker[w].pc \in {"attempt", "pull", "settle", "release"}})
    + Cardinality({c \in DOMAIN call : call[c].path = p /\ call[c].pc = "send"})

\* The in-flight set is exact: each path in it has one holder, no other path
\* has any, so the callback and the walker never make two workers write the
\* same staging file, and no path is blocked for ever (inflightAdd, processEntry).
InflightExact == \A p \in Paths : Holders(p) = IF p \in inflight THEN 1 ELSE 0

\* A catch-up tag never outlives what will remove it: the path is in flight, or
\* a worker or a dropping call is on its way to the tag, or the walker is about
\* to enqueue it.  A leaked tag would close the gate for ever (markCatchUp).
TagsOwned ==
    \A p \in tags :
        \/ p \in inflight
        \/ \E w \in Workers : worker[w].pc = "untag" /\ worker[w].path = p
        \/ \E c \in DOMAIN call : call[c].pc = "drop" /\ call[c].path = p
        \/ call["walker"].pc = "add" /\ call["walker"].path = p

\* What is promoted to its final name is one whole version of the file, though
\* the digest covers a prefix read from one file and the bytes are appended to
\* another (tryResumeFromPartial, AppendReader).
FinalVerified == \A p \in Paths : final[p] = NoFile \/ \E v \in Versions : final[p] = Content(v)

Missing == {p \in Paths : walked[p] # 0 /\ walked[p] = manifest[p] /\ ~Local(p, walked[p])}

\* A query passes the gate while a file that the walker handled is missing
\* only in one of the ways that `excused' names (FullyCaughtUp and the deferred
\* function of processEntry).
GateMissesOnly == gate = "open" /\ ~stopped => Missing \subseteq excused

===========================================================================
