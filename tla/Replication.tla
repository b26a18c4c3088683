---------------------------- MODULE Replication ----------------------------
(* The stream of log entries from the writer to its readers: the Sender of  *)
(* the writer, the Receiver of every reader, and the handshake through the  *)
(* writer's coordinator.  cluster/replication/sender.go and receiver.go,    *)
(* the replication part of cluster/coordinator.go, the hook of wal.go.      *)
(* Every message is authentic.  A connection is the order-preserving        *)
(* stream from the writer to the reader; what the acknowledgements in the   *)
(* other direction carry is only reported.                                  *)
EXTENDS Naturals, FiniteSets, Sequences, SequencesExt

CONSTANTS
    Readers,
    Slots,              \* bound: connections of one reader that somebody still holds
    None,               \* no connection
    BufferSize,         \* capacity of entryChan
    CheckpointInterval,
    MaxCallers,         \* bound: write calls inside Replicate
    MaxEntries,         \* bound: entries that are given a sequence
    MaxTrouble          \* bound: crashes, restarts, cuts, timeouts, failed applies

ASSUME ReplicationConstants ==
    /\ BufferSize \in Nat \ {0} /\ CheckpointInterval \in Nat \ {0}
    /\ Slots \subseteq Nat /\ None \notin Slots

VARIABLES
    up,                 \* the writer runs
    issued,             \* entries given a sequence so far, by every life of the writer
    base,               \* issued when this Sender started: sequence = issued - base
    assigned,           \* entries in Replicate, between sequence.Add and the select
    entryChan,
    sending,            \* broadcastEntry: the entry and the connections still to serve
    readers,            \* Sender.readers: the connection under each reader's ID
    conns,              \* conns[r][k]: both ends of a connection, see Fresh
    conn, streaming,    \* Receiver.conn, and whether its handshake is over
    lastSeq,
    applied, top,       \* history: entries applied; the last one in this life of the reader
    lost,               \* history: entries that will never reach the reader
    trouble

sender == <<issued, base, assigned, entryChan, sending>>
receiver == <<conn, streaming, lastSeq, applied, top>>
vars == <<up, sender, readers, conns, receiver, lost, trouble>>

Trouble == trouble < MaxTrouble /\ trouble' = trouble + 1

\* side is the writer's end: "asked" (request received), "acked" (PrepareReader and the
\* answer), "active" (in the map), "gone" (cancelled and closed).  loop: its receiveLoop
\* runs.  fed and got are the lengths of what the two running hashes cover; since counts
\* up to the next checkpoint.  failed: an entry of this connection was not applied.
Fresh == [side |-> "asked", loop |-> FALSE, open |-> TRUE, cut |-> FALSE, wire |-> <<>>,
          fed |-> 0, since |-> 0, got |-> 0, failed |-> FALSE]
Closed == [Fresh EXCEPT !.side = "gone", !.open = FALSE]
CloseSide(x) == [x EXCEPT !.side = "gone", !.fed = 0, !.since = 0]
CloseEnd(x) == [x EXCEPT !.open = FALSE, !.wire = <<>>, !.got = 0, !.failed = FALSE]

Ack == [kind |-> "ack"]
Entry(e) == [kind |-> "entry", seq |-> e - base, id |-> e]
Checkpoint(e, n) == [kind |-> "checkpoint", seq |-> e - base, fed |-> n]
EntriesOn(x) == {m.id : m \in {m \in ToSet(x.wire) : m.kind = "entry"}}
Put(x, ms) == IF x.open /\ ~x.cut THEN [x EXCEPT !.wire = @ \o ms] ELSE x
Take(x) == [x EXCEPT !.wire = Tail(@)]
TakeEntry(x) == [x EXCEPT !.wire = Tail(@), !.got = @ + 1]
HasMessage(r, kind) ==
    conn[r] # None /\ conns[r][conn[r]].wire # <<>> /\ Head(conns[r][conn[r]].wire).kind = kind
Lose(R, E) == [r \in Readers |-> IF r \in R THEN lost[r] \union E ELSE lost[r]]

NotSending == [id |-> 0, todo |-> {}]
Sending(e, todo) == IF todo = {} THEN NotSending ELSE [id |-> e, todo |-> todo]

Init ==
    /\ up = TRUE /\ issued = 0 /\ base = 0 /\ assigned = {} /\ entryChan = <<>>
    /\ sending = NotSending
    /\ readers = [r \in Readers |-> None]
    /\ conns = [r \in Readers |-> [k \in Slots |-> Closed]]
    /\ conn = [r \in Readers |-> None] /\ streaming = [r \in Readers |-> FALSE]
    /\ lastSeq = [r \in Readers |-> 0] /\ top = [r \in Readers |-> 0]
    /\ applied = [r \in Readers |-> {}] /\ lost = [r \in Readers |-> {}]
    /\ trouble = 0

---------------------------------------------------------------------------
(* Replicate, called through the hook of the log by concurrent write calls. *)

TakeSequence ==
    /\ up /\ issued < MaxEntries /\ Cardinality(assigned) < MaxCallers
    /\ issued' = issued + 1
    /\ assigned' = assigned \union {issued'}
    /\ UNCHANGED <<up, base, entryChan, sending, readers, conns, receiver, lost, trouble>>

QueueEntry(e) ==
    /\ e \in assigned /\ Len(entryChan) < BufferSize
    /\ assigned' = assigned \ {e}
    /\ entryChan' = Append(entryChan, e)
    /\ UNCHANGED <<up, issued, base, sending, readers, conns, receiver, lost, trouble>>

\* The buffer is full.
DropEntry(e) ==
    /\ e \in assigned /\ Len(entryChan) >= BufferSize
    /\ assigned' = assigned \ {e}
    /\ lost' = Lose(Readers, {e})
    /\ UNCHANGED <<up, issued, base, entryChan, sending, readers, conns, receiver, trouble>>

---------------------------------------------------------------------------
(* distributionLoop.  Connections are removed by the ID of their reader,    *)
(* whichever connection is under it by then.                                *)

Removed(r) ==
    IF readers[r] = None THEN conns ELSE [conns EXCEPT ![r][readers[r]] = CloseSide(@)]
RemoveReader(r) == conns' = Removed(r) /\ readers' = [readers EXCEPT ![r] = None]

BroadcastEntry ==
    /\ up /\ sending = NotSending /\ entryChan # <<>>
    /\ LET absent == {r \in Readers : readers[r] = None}
       IN  /\ sending' = Sending(Head(entryChan), {<<r, readers[r]>> : r \in Readers \ absent})
           /\ lost' = Lose(absent, {Head(entryChan)})
    /\ entryChan' = Tail(entryChan)
    /\ UNCHANGED <<up, issued, base, assigned, readers, conns, receiver, trouble>>

\* Variant: a checkpoint taken before its own entry is hashed.
StampedBefore(x, e) ==
    LET due == x.since + 1 >= CheckpointInterval
        ms == <<Entry(e)>> \o IF due THEN <<Checkpoint(e, x.fed)>> ELSE <<>>
    IN  [Put(x, ms) EXCEPT !.fed = @ + 1, !.since = IF due THEN 0 ELSE @ + 1]

\* A write to an end that is closed may succeed all the same.
Stamped(x, e) ==
    LET due == x.since + 1 >= CheckpointInterval
        ms == <<Entry(e)>> \o IF due THEN <<Checkpoint(e, x.fed + 1)>> ELSE <<>>
    IN  [Put(x, ms) EXCEPT !.fed = @ + 1, !.since = IF due THEN 0 ELSE @ + 1]

SendToReader(r, k) ==
    /\ <<r, k>> \in sending.todo /\ conns[r][k].side = "active"
    /\ conns' = [conns EXCEPT ![r][k] = Stamped(@, sending.id)]
    /\ lost' = IF conns[r][k].open /\ ~conns[r][k].cut THEN lost ELSE Lose({r}, {sending.id})
    /\ sending' = Sending(sending.id, sending.todo \ {<<r, k>>})
    /\ UNCHANGED <<up, issued, base, assigned, entryChan, readers, receiver, trouble>>

\* Variant: the first failure ends the broadcast.
SendFailsForAll(r, k) ==
    /\ <<r, k>> \in sending.todo
    /\ conns[r][k].side = "gone" \/ ~conns[r][k].open \/ conns[r][k].cut
    /\ RemoveReader(r)
    /\ lost' = Lose({r}, {sending.id}) /\ sending' = NotSending
    /\ UNCHANGED <<up, issued, base, assigned, entryChan, receiver, trouble>>

\* The connection was cancelled, is broken, or the write times out.
SendFails(r, k) ==
    /\ <<r, k>> \in sending.todo
    /\ \/ /\ conns[r][k].side = "gone" \/ ~conns[r][k].open \/ conns[r][k].cut
          /\ UNCHANGED trouble
       \/ conns[r][k].side = "active" /\ conns[r][k].open /\ ~conns[r][k].cut /\ Trouble
    /\ RemoveReader(r)
    /\ lost' = Lose({r}, {sending.id})
    /\ sending' = Sending(sending.id, sending.todo \ {<<r, k>>})
    /\ UNCHANGED <<up, issued, base, assigned, entryChan, receiver>>

---------------------------------------------------------------------------
(* The handshake, and the loop that waits for acknowledgements.             *)

Idle(r, k) ==
    /\ conns[r][k].side = "gone" /\ ~conns[r][k].open /\ ~conns[r][k].loop
    /\ <<r, k>> \notin sending.todo

\* connect: the request carries lastSeq, which changes nothing but a log line.
Dial(r) ==
    /\ up /\ conn[r] = None
    /\ \E k \in Slots :
          /\ Idle(r, k) /\ \A j \in Slots : Idle(r, j) => k <= j
          /\ conns' = [conns EXCEPT ![r][k] = Fresh]
          /\ conn' = [conn EXCEPT ![r] = k]
    /\ UNCHANGED <<up, sender, readers, streaming, lastSeq, applied, top, lost, trouble>>

\* handleReplicateSync up to the answer.  Nobody else knows of the connection yet.
PrepareReader(r, k) ==
    /\ conns[r][k].side = "asked"
    /\ conns' = [conns EXCEPT ![r][k] = [Put(@, <<Ack>>) EXCEPT !.side = "acked"]]
    /\ UNCHANGED <<up, sender, readers, receiver, lost, trouble>>

Discard(r, k) ==
    /\ conns[r][k].side = "asked" /\ (~conns[r][k].open \/ conns[r][k].cut)
    /\ conns' = [conns EXCEPT ![r][k] = CloseSide(@)]
    /\ UNCHANGED <<up, sender, readers, receiver, lost, trouble>>

\* Variant: the connection under the same ID is replaced and not closed.
ActivateReaderBeside(r, k) ==
    /\ conns[r][k].side = "acked"
    /\ conns' = [conns EXCEPT ![r][k].side = "active", ![r][k].loop = TRUE]
    /\ readers' = [readers EXCEPT ![r] = k]
    /\ UNCHANGED <<up, sender, receiver, lost, trouble>>

\* The connection under the same ID is closed and replaced.
ActivateReader(r, k) ==
    /\ conns[r][k].side = "acked"
    /\ conns' = [Removed(r) EXCEPT ![r][k].side = "active", ![r][k].loop = TRUE]
    /\ readers' = [readers EXCEPT ![r] = k]
    /\ UNCHANGED <<up, sender, receiver, lost, trouble>>

\* receiveLoop of the Sender ends, by its context or by a failing read.
LoopEnds(r, k) ==
    /\ conns[r][k].loop
    /\ conns[r][k].side = "gone" \/ ~conns[r][k].open \/ conns[r][k].cut
    /\ conns' = [Removed(r) EXCEPT ![r][k].loop = FALSE]
    /\ readers' = [readers EXCEPT ![r] = None]
    /\ UNCHANGED <<up, sender, receiver, lost, trouble>>

---------------------------------------------------------------------------
(* The Receiver: connectionLoop, receiveLoop, applyEntry.                   *)

\* What is still on the stream is lost.
Disconnect(r) ==
    /\ lost' = Lose({r}, EntriesOn(conns[r][conn[r]]))
    /\ conns' = [conns EXCEPT ![r][conn[r]] = CloseEnd(@)]
    /\ conn' = [conn EXCEPT ![r] = None]
    /\ streaming' = [streaming EXCEPT ![r] = FALSE]

ReadAck(r) ==
    /\ HasMessage(r, "ack")
    /\ streaming' = [streaming EXCEPT ![r] = TRUE]
    /\ conns' = [conns EXCEPT ![r][conn[r]] = Take(@)]
    /\ UNCHANGED <<up, sender, readers, conn, lastSeq, applied, top, lost, trouble>>

Next1(r) == Head(conns[r][conn[r]].wire)
\* Variant: only a repetition is refused.
AdvancesOrSkips(r) == Next1(r).seq # lastSeq[r]
Advances(r) == Next1(r).seq > lastSeq[r]

ApplyEntry(r) ==
    /\ HasMessage(r, "entry") /\ Advances(r)
    /\ conns' = [conns EXCEPT ![r][conn[r]] = TakeEntry(@)]
    /\ lastSeq' = [lastSeq EXCEPT ![r] = Next1(r).seq]
    /\ applied' = [applied EXCEPT ![r] = @ \union {Next1(r).id}]
    /\ top' = [top EXCEPT ![r] = Next1(r).id]
    /\ UNCHANGED <<up, sender, readers, conn, streaming, lost, trouble>>

\* The hash has the entry, lastSeq has not, and the stream goes on.
ApplyFails(r) ==
    /\ HasMessage(r, "entry") /\ Advances(r) /\ Trouble
    /\ conns' = [conns EXCEPT ![r][conn[r]] = [TakeEntry(@) EXCEPT !.failed = TRUE]]
    /\ lost' = Lose({r}, {Next1(r).id})
    /\ UNCHANGED <<up, sender, readers, receiver>>

EntryRefused(r) == HasMessage(r, "entry") /\ ~Advances(r)
RefuseEntry(r) ==
    /\ EntryRefused(r) /\ Disconnect(r)
    /\ UNCHANGED <<up, sender, readers, lastSeq, applied, top, trouble>>

Matches(r) ==
    LET x == conns[r][conn[r]] IN Head(x.wire).seq = lastSeq[r] /\ Head(x.wire).fed = x.got
VerifyCheckpoint(r) ==
    /\ HasMessage(r, "checkpoint") /\ Matches(r)
    /\ conns' = [conns EXCEPT ![r][conn[r]] = Take(@)]
    /\ UNCHANGED <<up, sender, readers, receiver, lost, trouble>>

CheckpointRefused(r) == HasMessage(r, "checkpoint") /\ ~Matches(r)
RefuseCheckpoint(r) ==
    /\ CheckpointRefused(r) /\ Disconnect(r)
    /\ UNCHANGED <<up, sender, readers, lastSeq, applied, top, trouble>>

\* The read fails, before or after the reader has read what was sent.
ConnectionEnds(r) ==
    /\ conn[r] # None /\ (conns[r][conn[r]].side = "gone" \/ conns[r][conn[r]].cut)
    /\ Disconnect(r)
    /\ UNCHANGED <<up, sender, readers, lastSeq, applied, top, trouble>>

---------------------------------------------------------------------------
(* What goes wrong.                                                         *)

Cut(r, k) ==
    /\ conns[r][k].open /\ ~conns[r][k].cut /\ conns[r][k].side # "gone" /\ Trouble
    /\ lost' = Lose({r}, EntriesOn(conns[r][k]))
    /\ conns' = [conns EXCEPT ![r][k].cut = TRUE, ![r][k].wire = <<>>]
    /\ UNCHANGED <<up, sender, readers, receiver>>

\* The writer stops or crashes: its queue goes, and its connections close.
WriterStops ==
    /\ up /\ Trouble
    /\ up' = FALSE
    /\ lost' = [r \in Readers |-> lost[r] \union assigned \union ToSet(entryChan) \union
                   IF \E k \in Slots : <<r, k>> \in sending.todo THEN {sending.id} ELSE {}]
    /\ assigned' = {} /\ entryChan' = <<>> /\ sending' = NotSending
    /\ readers' = [r \in Readers |-> None]
    /\ conns' = [r \in Readers |-> [k \in Slots |-> [CloseSide(conns[r][k]) EXCEPT !.loop = FALSE]]]
    /\ UNCHANGED <<issued, base, receiver>>

\* A new Sender counts from zero again.
WriterStarts ==
    /\ ~up /\ up' = TRUE /\ base' = issued
    /\ UNCHANGED <<issued, assigned, entryChan, sending, readers, conns, receiver, lost, trouble>>

ReaderRestarts(r) ==
    /\ conn[r] # None /\ Disconnect(r) /\ Trouble
    /\ lastSeq' = [lastSeq EXCEPT ![r] = 0] /\ top' = [top EXCEPT ![r] = 0]
    /\ UNCHANGED <<up, sender, readers, applied>>

---------------------------------------------------------------------------
Replicate == \E e \in assigned : QueueEntry(e) \/ DropEntry(e)
DistributionLoop ==
    \/ BroadcastEntry
    \/ \E r \in Readers, k \in Slots : SendToReader(r, k) \/ SendFails(r, k)
Accept(r, k) == PrepareReader(r, k) \/ Discard(r, k) \/ ActivateReader(r, k)
Receive(r) ==
    \/ ReadAck(r) \/ ApplyEntry(r) \/ ApplyFails(r) \/ RefuseEntry(r)
    \/ VerifyCheckpoint(r) \/ RefuseCheckpoint(r) \/ ConnectionEnds(r)

Next ==
    \/ TakeSequence \/ Replicate \/ DistributionLoop
    \/ \E r \in Readers : Dial(r) \/ Receive(r) \/ ReaderRestarts(r)
    \/ \E r \in Readers, k \in Slots : Accept(r, k) \/ LoopEnds(r, k) \/ Cut(r, k)
    \/ WriterStops \/ WriterStarts

Spec == Init /\ [][Next]_vars

\* The goroutines of both ends run.  Nothing is assumed of write calls, faults and restarts.
FairSpec ==
    /\ Spec /\ WF_vars(Replicate) /\ WF_vars(DistributionLoop)
    /\ \A r \in Readers : WF_vars(Dial(r)) /\ WF_vars(Receive(r))
    /\ \A r \in Readers, k \in Slots : WF_vars(Accept(r, k)) /\ WF_vars(LoopEnds(r, k))

---------------------------------------------------------------------------
TypeOK ==
    /\ up \in BOOLEAN /\ issued \in 0..MaxEntries /\ base \in 0..issued
    /\ assigned \subseteq 1..issued /\ entryChan \in Seq(1..issued)
    /\ sending.id \in 0..issued /\ sending.todo \subseteq Readers \X Slots
    /\ readers \in [Readers -> Slots \union {None}] /\ conn \in [Readers -> Slots \union {None}]
    /\ streaming \in [Readers -> BOOLEAN] /\ lastSeq \in [Readers -> 0..issued]
    /\ applied \in [Readers -> SUBSET (1..issued)] /\ top \in [Readers -> 0..issued]
    /\ lost \in [Readers -> SUBSET (1..issued)]

OnTheWay(r) ==
    assigned \union ToSet(entryChan)
        \union (IF \E k \in Slots : <<r, k>> \in sending.todo THEN {sending.id} ELSE {})
        \union UNION {EntriesOn(conns[r][k]) : k \in Slots}

\* Whatever fails, reconnects or restarts, an entry is for each reader in one of three
\* places: applied, on its way, or lost for one of the reasons at which lost grows.  So
\* one reader's failure takes nothing from another, and no entry is in two streams.
Places(r, e) ==
    {p \in {"applied", "lost", "way"} :
        \/ p = "applied" /\ e \in applied[r]
        \/ p = "lost" /\ e \in lost[r]
        \/ p = "way" /\ e \in OnTheWay(r)}
EveryEntryKnown == \A r \in Readers, e \in 1..issued : Cardinality(Places(r, e)) = 1

\* The stream is honest, so the receiver drops a connection as tampered with (receiver.go:487
\* and :525) only when two write calls queued their entries the other way round, when the
\* writer has restarted and counts from zero, or, at a checkpoint, when an entry of this
\* connection could not be applied.
RefusedOnly ==
    \A r \in Readers :
        /\ EntryRefused(r) => Next1(r).id < top[r] \/ top[r] <= base
        /\ CheckpointRefused(r) => conns[r][conn[r]].failed

\* A reader applies the entries in the order in which they were given their sequence,
\* over reconnections and over restarts of the writer.
AppliesInOrder ==
    [][\A r \in Readers : \A e \in applied'[r] \ applied[r] : e > top[r]]_vars

\* When the faults are over and the writer runs, every reader ends up on the one connection
\* that the sender has for it, with nothing left behind by the connections before it;
\* unless, again and again, the loop of a connection that is already closed is so late
\* that it removes the next connection of its reader.
InStep(r) ==
    /\ conn[r] # None /\ streaming[r] /\ readers[r] = conn[r]
    /\ \A k \in Slots \ {conn[r]} : Idle(r, k)
    /\ OnTheWay(r) = {}
LateLoop ==
    \E r \in Readers, k \in Slots :
        conns[r][k].loop /\ conns[r][k].side = "gone" /\ readers[r] # None
Reconnects == <>[](up => \A r \in Readers : InStep(r)) \/ []<>LateLoop
=============================================================================
