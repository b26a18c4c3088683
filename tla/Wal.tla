-------------------------------- MODULE Wal --------------------------------
(***************************************************************************)
(* The write-ahead log of internal/wal: AppendRaw hands entries to a       *)
(* bounded channel without waiting; one writerLoop goroutine writes them   *)
(* to the current file, syncs in batches and rotates to a new file; Purge  *)
(* and Recovery remove files from the directory while the writer runs.     *)
(* A file is a sequence of entries, an entry has size 1, and Torn stands   *)
(* for the bytes of a write that failed half way.  The process may crash:  *)
(* the channel is lost, what was written to a file that still has a name   *)
(* is not.  Time advances in ticks for modification times only.            *)
(***************************************************************************)
EXTENDS Naturals, Sequences, FiniteSets, SequencesExt

CONSTANTS
    Entries,         \* the payloads handed to AppendRaw, one call each
    Torn,            \* the bytes of an incomplete entry
    ChanCap,         \* BufferSize: capacity of entryChan
    MaxFileEntries,  \* MaxSizeBytes
    SyncEvery,       \* SyncBytes
    SafeAge,         \* minAge of PurgeOlderThan, in ticks
    WritesMayFail,   \* whether a file write or create may return an error
    SyncMayFail,     \* whether fdatasync may return an error
    ReplayMayFail,   \* whether the recovery callback may return an error
    MaxFiles, MaxTime, MaxStarts, MaxPasses  \* bounds of the exploration

ASSUME WalConstants ==
    /\ Torn \notin Entries
    /\ {ChanCap, MaxFileEntries, SyncEvery} \subseteq Nat \ {0}
    /\ {SafeAge, MaxFiles, MaxTime, MaxStarts, MaxPasses} \subseteq Nat
    /\ {WritesMayFail, SyncMayFail, ReplayMayFail} \subseteq BOOLEAN

VARIABLES
    told,     \* what AppendRaw returned for each entry
    chan,     \* entryChan
    disk,     \* the files, and what the Writer knows of the current one
    lost,     \* entries given up after failed writes (FailedWrites)
    writer,   \* the Writer: down, running, running after PurgeAll ("purged"),
              \* draining after Close, closed
    purge,    \* PurgeOlderThan in progress: the path it read, and when
    rec,      \* RecoverWithOptions in progress
    now, starts, passes,
    accepted, \* history: entries in the order the channel took them
    replayed  \* history: entries this process replayed without error

walVars == <<told, chan, disk, lost, writer, purge, rec, now, starts,
             passes, accepted, replayed>>

Files == 1..MaxFiles
NoFile == 0
Idle == [stage |-> "idle", skip |-> NoFile, todo |-> {}, file |-> NoFile,
         rest |-> <<>>]
NoPurge == [on |-> FALSE, active |-> NoFile, time |-> 0]

Init ==
    /\ told = [e \in Entries |-> "none"]
    /\ chan = <<>>
    /\ disk = [content |-> [f \in Files |-> <<>>], made |-> 0, linked |-> {},
               current |-> NoFile, synced |-> [f \in Files |-> 0],
               bytesSinceSync |-> 0, mtime |-> [f \in Files |-> 0]]
    /\ lost = {}
    /\ writer = "down"
    /\ purge = NoPurge
    /\ rec = Idle
    /\ now = 0 /\ starts = 0 /\ passes = 0
    /\ accepted = <<>>
    /\ replayed = {}

-----------------------------------------------------------------------------
(* File operations, as functions from one disk to the possible next ones.  *)

EntriesOf(s) == SelectSeq(s, LAMBDA x : x # Torn)

Put(d, x) == [d EXCEPT !.content[d.current] = Append(@, x),
                       !.mtime[d.current] = now]

Written(d, e) == [Put(d, e) EXCEPT !.bytesSinceSync = @ + 1]

\* A failed sync is logged; its caller resets bytesSinceSync all the same.
Syncs(d) ==
    LET counted == [d EXCEPT !.bytesSinceSync = 0]
    IN  {[counted EXCEPT !.synced[d.current] = Len(d.content[d.current])]}
        \cup IF SyncMayFail THEN {counted} ELSE {}

NewFile(d) == [d EXCEPT !.made = @ + 1,
                        !.linked = @ \cup {d.made + 1},
                        !.mtime[d.made + 1] = now]

\* Variant: the old file is closed without a sync.
RotatedUnsynced(d) ==
    {[NewFile(d) EXCEPT !.current = d.made + 1, !.bytesSinceSync = 0]}

\* rotate: the old file is synced after the new one has its header.
Rotated(d) ==
    {[NewFile(s) EXCEPT !.current = s.made + 1, !.bytesSinceSync = 0] :
        s \in IF d.bytesSinceSync > 0 THEN Syncs(d) ELSE {d}}

\* rotate fails: no file, or one whose header could not be written.
RotationFailed(d) == IF WritesMayFail THEN {d, NewFile(d)} ELSE {}

\* A write that fails leaves no bytes, or some.
WriteFailed(d) == IF WritesMayFail THEN {d, Put(d, Torn)} ELSE {}

\* The tail of writeEntry: sync at the byte threshold, then rotate by size,
\* or by the age of the file, which is left open.
Settled(d) ==
    UNION {LET moved == Rotated(s) \cup RotationFailed(s)
           IN  IF Len(EntriesOf(s.content[s.current])) >= MaxFileEntries
               THEN moved ELSE moved \cup {s} :
           s \in IF d.bytesSinceSync >= SyncEvery THEN Syncs(d) ELSE {d}}

\* Variant: the entry is not written again.
RetriedWithoutWrite(d, e) == UNION {Settled(r) : r \in Rotated(d)}
\* writeEntry with a failed first write: rotate, and try once more.
Retried(d, e) == UNION {Settled(Written(r, e)) : r \in Rotated(d)}
GaveUp(d) == RotationFailed(d) \cup UNION {WriteFailed(r) : r \in Rotated(d)}

-----------------------------------------------------------------------------
(* The Writer.                                                             *)

\* NewWriter: every start of the process begins a file of its own.
NewWriter ==
    /\ writer = "down"
    /\ starts < MaxStarts
    /\ disk.made < MaxFiles
    /\ starts' = starts + 1
    /\ disk' \in Rotated([disk EXCEPT !.bytesSinceSync = 0])
    /\ writer' = "running"
    /\ rec' = [Idle EXCEPT !.stage = "list"]
    /\ UNCHANGED <<told, chan, lost, purge, now, passes, accepted, replayed>>

\* AppendRaw never waits: a full channel drops the entry (ErrWALDropped).
\* Requests are served only after the recovery at startup.
Serving == writer # "down" /\ ~(rec.stage # "idle" /\ rec.skip = NoFile)

HasRoom == Len(chan) < ChanCap

AppendRaw(e) ==
    /\ Serving
    /\ told[e] = "none"
    /\ IF HasRoom
       THEN /\ chan' = Append(chan, e)
            /\ told' = [told EXCEPT ![e] = "ok"]
            /\ accepted' = Append(accepted, e)
       ELSE /\ told' = [told EXCEPT ![e] = "dropped"]
            /\ UNCHANGED <<chan, accepted>>
    /\ UNCHANGED <<disk, lost, writer, purge, rec, now, starts, passes,
                   replayed>>

WritingUntilDone == writer \in {"running", "purged"}  \* variant: no drain
Writing == writer \in {"running", "purged", "draining"}

\* The room two rotations may need is a bound, not the code's.
WriteEntry ==
    /\ Writing
    /\ chan # <<>>
    /\ disk.made + 2 <= MaxFiles
    /\ chan' = Tail(chan)
    /\ \/ /\ \/ disk' \in Settled(Written(disk, Head(chan)))
             \/ \E d \in WriteFailed(disk) : disk' \in Retried(d, Head(chan))
          /\ UNCHANGED lost
       \/ /\ \E d \in WriteFailed(disk) : disk' \in GaveUp(d)
          /\ lost' = lost \cup {Head(chan)}
    /\ UNCHANGED <<told, writer, purge, rec, now, starts, passes, accepted,
                   replayed>>

SyncTick ==
    /\ writer \in {"running", "purged"}
    /\ disk.bytesSinceSync > 0
    /\ disk' \in Syncs(disk)
    /\ UNCHANGED <<told, chan, lost, writer, purge, rec, now, starts, passes,
                   accepted, replayed>>

\* Close signals the loop, which drains the channel, syncs and returns.
CloseWriter ==
    /\ writer \in {"running", "purged"}
    /\ writer' = "draining"
    /\ UNCHANGED <<told, chan, disk, lost, purge, rec, now, starts, passes,
                   accepted, replayed>>

DrainEnds ==
    /\ writer = "draining"
    /\ chan = <<>>
    /\ disk' \in IF disk.bytesSinceSync > 0 THEN Syncs(disk) ELSE {disk}
    /\ writer' = "closed"
    /\ UNCHANGED <<told, chan, lost, purge, rec, now, starts, passes,
                   accepted, replayed>>

\* The process dies, or exits after Close: only the directory remains.
Exit ==
    /\ writer # "down"
    /\ writer' = "down"
    /\ chan' = <<>>
    /\ purge' = NoPurge
    /\ rec' = Idle
    /\ replayed' = {}
    /\ UNCHANGED <<told, disk, lost, now, starts, passes, accepted>>

Tick ==
    /\ now < MaxTime
    /\ now' = now + 1
    /\ UNCHANGED <<told, chan, disk, lost, writer, purge, rec, starts,
                   passes, accepted, replayed>>

-----------------------------------------------------------------------------
(* Purge.  One goroutine does all maintenance: a purge and a recovery never *)
(* overlap.                                                                *)

\* PurgeOlderThan reads the current path and the time, lets go of the mutex ...
BeginPurge ==
    /\ writer = "running"
    /\ ~purge.on /\ rec.stage = "idle"
    /\ purge' = [on |-> TRUE, active |-> disk.current, time |-> now]
    /\ UNCHANGED <<told, chan, disk, lost, writer, rec, now, starts, passes,
                   accepted, replayed>>

PurgeableAtAnyAge(f) == f # purge.active  \* variant: what PurgeInactive does
Purgeable(f) == f # purge.active /\ purge.time > disk.mtime[f] + SafeAge

\* ... and then lists and removes, while the writer may rotate.
EndPurge ==
    /\ purge.on
    /\ disk' = [disk EXCEPT !.linked = {f \in @ : ~Purgeable(f)}]
    /\ purge' = NoPurge
    /\ UNCHANGED <<told, chan, lost, writer, rec, now, starts, passes,
                   accepted, replayed>>

\* PurgeAll, the hook of a clean shutdown.
PurgeAll ==
    /\ writer = "running"
    /\ disk' = [disk EXCEPT !.linked = {}]
    /\ writer' = "purged"
    /\ UNCHANGED <<told, chan, lost, purge, rec, now, starts, passes,
                   accepted, replayed>>

-----------------------------------------------------------------------------
(* Recovery, at startup (skip is NoFile) and periodically.                 *)

\* The sequences of entries that stand in this order in s.
Selections(s) ==
    {t \in UNION {[1..n -> ToSet(s) \ {Torn}] : n \in 0..Len(s)} :
        \E at \in [DOMAIN t -> DOMAIN s] :
            /\ \A i \in DOMAIN t : t[i] = s[at[i]]
            /\ \A i, j \in DOMAIN t : i < j => at[i] < at[j]}

\* What ReadAll may return.  A reader that meets torn bytes takes the start
\* of the next entry for their rest, and from there on may or may not meet
\* an entry boundary again.
Readable(s) ==
    LET torn == {i \in DOMAIN s : s[i] = Torn}
    IN  IF torn = {} THEN {s}
        ELSE UNION {{SubSeq(s, 1, i - 1) \o t : t \in Selections(SubSeq(s, i + 2, Len(s)))} :
                      i \in {k \in torn : \A n \in torn : k <= n}}

\* Maintenance asks for CurrentFile before the directory is listed.
BeginRecovery ==
    /\ writer = "running"
    /\ rec.stage = "idle" /\ ~purge.on
    /\ passes < MaxPasses
    /\ passes' = passes + 1
    /\ rec' = [Idle EXCEPT !.stage = "list", !.skip = disk.current]
    /\ UNCHANGED <<told, chan, disk, lost, writer, purge, now, starts,
                   accepted, replayed>>

findWALFiles ==
    /\ rec.stage = "list"
    /\ rec' = [rec EXCEPT !.stage = "file", !.todo = disk.linked]
    /\ UNCHANGED <<told, chan, disk, lost, writer, purge, now, starts, passes,
                   accepted, replayed>>

\* The oldest file first; the one to skip, and one that is gone, are passed.
ReadFile ==
    /\ rec.stage = "file"
    /\ \E f \in rec.todo :
          LET left == [rec EXCEPT !.todo = @ \ {f}]
          IN  /\ \A g \in rec.todo : f <= g
              /\ IF f = rec.skip \/ f \notin disk.linked
                 THEN rec' = left
                 ELSE \E s \in Readable(disk.content[f]) :
                        rec' = [left EXCEPT !.stage = "replay", !.file = f, !.rest = s]
    /\ UNCHANGED <<told, chan, disk, lost, writer, purge, now, starts, passes,
                   accepted, replayed>>

\* The callback writes the entry into the ArrowBuffer, without the WAL.
ReplayEntry ==
    /\ rec.stage = "replay"
    /\ rec.rest # <<>>
    /\ replayed' = replayed \cup {Head(rec.rest)}
    /\ rec' = [rec EXCEPT !.rest = Tail(@)]
    /\ UNCHANGED <<told, chan, disk, lost, writer, purge, now, starts, passes,
                   accepted>>

\* Variant: the error is logged and the next entry is replayed.
ReplayFailsSilently ==
    /\ ReplayMayFail
    /\ rec.stage = "replay"
    /\ rec.rest # <<>>
    /\ rec' = [rec EXCEPT !.rest = Tail(@)]
    /\ UNCHANGED <<told, chan, disk, lost, writer, purge, now, starts, passes,
                   accepted, replayed>>

\* A callback error: the file is kept for retry, the next one is read.
ReplayFails ==
    /\ ReplayMayFail
    /\ rec.stage = "replay"
    /\ rec.rest # <<>>
    /\ rec' = [rec EXCEPT !.stage = "file", !.rest = <<>>]
    /\ UNCHANGED <<told, chan, disk, lost, writer, purge, now, starts, passes,
                   accepted, replayed>>

\* All entries succeeded, or there were none.
DeleteRecovered ==
    /\ rec.stage = "replay"
    /\ rec.rest = <<>>
    /\ disk' = [disk EXCEPT !.linked = @ \ {rec.file}]
    /\ rec' = [rec EXCEPT !.stage = "file"]
    /\ UNCHANGED <<told, chan, lost, writer, purge, now, starts, passes,
                   accepted, replayed>>

EndRecovery ==
    /\ rec.stage = "file"
    /\ rec.todo = {}
    /\ rec' = Idle
    /\ UNCHANGED <<told, chan, disk, lost, writer, purge, now, starts, passes,
                   accepted, replayed>>

-----------------------------------------------------------------------------
WriterStep ==
    \/ NewWriter \/ WriteEntry \/ SyncTick \/ CloseWriter \/ DrainEnds \/ Exit

PurgeStep == BeginPurge \/ EndPurge \/ PurgeAll

RecoveryStep ==
    \/ BeginRecovery \/ findWALFiles \/ ReadFile \/ ReplayEntry
    \/ ReplayFails \/ DeleteRecovered \/ EndRecovery

Next ==
    \/ \E e \in Entries : AppendRaw(e)
    \/ WriterStep \/ PurgeStep \/ RecoveryStep \/ Tick

Spec == Init /\ [][Next]_walVars

\* writerLoop keeps running; the select takes an entry when there is one.
FairSpec == Spec /\ WF_walVars(WriteEntry) /\ WF_walVars(DrainEnds)

-----------------------------------------------------------------------------
(* Properties.                                                             *)

DiskType ==
    [content : [Files -> Seq(Entries \cup {Torn})], made : 0..MaxFiles,
     linked : SUBSET Files, current : Files \cup {NoFile},
     synced : [Files -> Nat], bytesSinceSync : Nat, mtime : [Files -> Nat]]

\* Every variable of the write-ahead log has its type.
TypeOK ==
    /\ told \in [Entries -> {"none", "ok", "dropped"}]
    /\ chan \in Seq(Entries) /\ Len(chan) <= ChanCap
    /\ disk \in DiskType
    /\ lost \subseteq Entries
    /\ writer \in {"down", "running", "purged", "draining", "closed"}
    /\ purge \in [on : BOOLEAN, active : Files \cup {NoFile}, time : 0..MaxTime]
    /\ rec \in [stage : {"idle", "list", "file", "replay"},
                skip : Files \cup {NoFile}, todo : SUBSET Files,
                file : Files \cup {NoFile}, rest : Seq(Entries)]
    /\ now \in 0..MaxTime /\ starts \in 0..MaxStarts /\ passes \in 0..MaxPasses
    /\ accepted \in Seq(Entries)
    /\ replayed \subseteq Entries

Logged == (UNION {ToSet(disk.content[f]) : f \in Files}) \ {Torn}

\* All files, oldest first, and behind them the channel, as one log.
Queue == MaxFiles + 1
Part(f) == IF f = Queue THEN chan ELSE disk.content[f]

AcceptedBefore(x, y) ==
    \E i, j \in DOMAIN accepted : i < j /\ accepted[i] = x /\ accepted[j] = y

\* The files, read in the order recovery reads them, and the channel give
\* accepted entries in the order AppendRaw took them, each once, whatever
\* writes were retried on another file or given up.
LogInOrder ==
    /\ \A i, j \in DOMAIN accepted : accepted[i] = accepted[j] => i = j
    /\ ToSet(chan) \cup Logged \subseteq ToSet(accepted)
    /\ \A f, g \in 1..Queue : \A i \in DOMAIN Part(f), j \in DOMAIN Part(g) :
          /\ f < g \/ (f = g /\ i < j)
          /\ Torn \notin {Part(f)[i], Part(g)[j]}
          => AcceptedBefore(Part(f)[i], Part(g)[j])

\* While the writer runs an accepted entry is queued, in a file, or counted
\* in FailedWrites: a retry never loses or repeats it, and what is left stays
\* in order.
EveryEntryAccounted ==
    /\ LogInOrder
    /\ starts = 1 /\ writer # "down" =>
          ToSet(accepted) = ToSet(chan) \cup Logged \cup lost
    /\ lost \cap Logged = {}

Unsynced(f) ==
    Cardinality({i \in DOMAIN disk.content[f] :
                    i > disk.synced[f] /\ disk.content[f][i] # Torn})

\* As long as fdatasync succeeds, power loss costs at most the channel and
\* fewer than SyncEvery entries of the current file: a file that was
\* rotated away is synced to its last entry, and a closed log completely.
SyncedExceptTail ==
    ~SyncMayFail /\ starts = 1 => \A f \in Files :
        /\ f # disk.current => Unsynced(f) = 0
        /\ Unsynced(f) < SyncEvery
        /\ writer = "closed" => Unsynced(f) = 0

\* Every accepted entry is taken to a file or given up, also while Close
\* drains the channel, unless the process ends first or AppendRaw comes
\* after the drain.
ChannelDrains ==
    \A e \in Entries : e \in ToSet(chan) ~>
        e \notin ToSet(chan) \/ writer = "closed"

\* The file a Writer goes on using keeps its name: "the active WAL file is never deleted"
\* (wal.go:594), although a purge compares with a path that a rotation may have
\* replaced.  Exceptions: the recovery at startup removes the header-only file
\* NewWriter has just opened, "safe to delete" (recovery.go:187), and maintenance
\* one that began after the file to skip was looked up (main.go:778).
CurrentFileKept ==
    disk.current \in disk.linked /\ disk'.current = disk.current /\ writer' = "running" =>
        \/ disk.current \in disk'.linked
        \/ DeleteRecovered /\ (rec.skip = NoFile \/ rec.skip <= rec.file)

\* What recovery removes has been replayed: the entries of a file it deletes
\* that the reader can reach were all delivered to the callback without
\* error, by this process: a crash in between starts the file again.  The
\* exception is a file that maintenance lists although it began after the one
\* to skip was looked up (main.go:778): the Writer may still append to it.
DeletedAfterReplay ==
    [][DeleteRecovered /\ (rec.skip = NoFile \/ rec.file < rec.skip) =>
          \E s \in Readable(disk.content[rec.file]) : ToSet(s) \subseteq replayed]_walVars
=============================================================================
