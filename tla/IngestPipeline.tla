--------------------------- MODULE IngestPipeline ---------------------------
(***************************************************************************)
(* How cmd/iedb/main.go joins the write-ahead log and the ingest buffer:   *)
(* a write call appends to the log and then to the buffer; the maintenance *)
(* goroutine purges old log files, or replays them after a failed flush;   *)
(* startup recovery and the shutdown hooks do the same at either end.      *)
(* The buffer is reduced to what BufferContract lets happen to the batch   *)
(* of a call: it is held in memory until it is durable, its flush fails,   *)
(* or it is let go before it is queued.  A replayed entry is one more copy *)
(* in memory.  MaxHold bounds, in ticks, how long a copy stays there: the  *)
(* age of the buffer, the wait in the queue and the flush timeout.         *)
(***************************************************************************)
EXTENDS Wal

CONSTANTS
    StorageMayFail, \* whether a flush may fail
    QueueMayFill,   \* whether tryEnqueueFlush may let a batch go
    MayShutDown,    \* whether the shutdown coordinator runs
    MaxHold

ASSUME PipelineConstants ==
    /\ {StorageMayFail, QueueMayFill, MayShutDown} \subseteq BOOLEAN
    /\ MaxHold \in Nat \ {0}

VARIABLES
    call,     \* progress of the write call of each entry
    copies,   \* copies of each entry in buffers, queue and flushes
    heldSince,\* when the entry came to memory, or its first copy left it
    durable,  \* entries in object storage
    failed,   \* entries whose flush or replay returned an error, in this process
    letGo,    \* entries dropped before the queue, or left in it by Close
    hasFlushFailure,
    maint,    \* the maintenance goroutine
    shutdown  \* the shutdown coordinator

memVars == <<copies, heldSince, durable, failed, letGo, hasFlushFailure>>
pipeVars == <<walVars, call, memVars, maint, shutdown>>

PInit ==
    /\ Init
    /\ call = [e \in Entries |-> "none"]
    /\ copies = [e \in Entries |-> 0]
    /\ heldSince = [e \in Entries |-> 0]
    /\ durable = {} /\ failed = {} /\ letGo = {}
    /\ hasFlushFailure = FALSE
    /\ maint = "idle"
    /\ shutdown = "no"

-----------------------------------------------------------------------------
(* Write calls and the buffer.                                             *)

Hold(e) ==
    /\ copies' = [copies EXCEPT ![e] = @ + 1]
    /\ heldSince' = [heldSince EXCEPT ![e] = IF copies[e] = 0 THEN now ELSE @]

\* One copy leaves memory; what is left counts as held from now on.
Release(e) ==
    /\ copies[e] > 0
    /\ copies' = [copies EXCEPT ![e] = @ - 1]
    /\ heldSince' = [heldSince EXCEPT ![e] = now]

\* writeColumnarInternal: the log first; its error does not fail the call.
LogCall(e) ==
    /\ shutdown = "no"
    /\ AppendRaw(e)
    /\ call' = [call EXCEPT ![e] = "logged"]
    /\ UNCHANGED <<memVars, maint, shutdown>>

BufferCall(e) ==
    /\ call[e] = "logged"
    /\ Hold(e)
    /\ call' = [call EXCEPT ![e] = "answered"]
    /\ UNCHANGED <<walVars, durable, failed, letGo, hasFlushFailure, maint,
                   shutdown>>

FlushOK(e) ==
    /\ Release(e)
    /\ durable' = durable \cup {e}
    /\ UNCHANGED <<walVars, call, failed, letGo, hasFlushFailure, maint,
                   shutdown>>

FlushFails(e) ==
    /\ StorageMayFail
    /\ Release(e)
    /\ failed' = failed \cup {e}
    /\ hasFlushFailure' = TRUE
    /\ UNCHANGED <<walVars, call, durable, letGo, maint, shutdown>>

\* tryEnqueueFlush with a full queue, or Close leaving a queued task.
LetGo(e) ==
    /\ QueueMayFill \/ shutdown = "components"
    /\ Release(e)
    /\ letGo' = letGo \cup {e}
    /\ UNCHANGED <<walVars, call, durable, failed, hasFlushFailure, maint,
                   shutdown>>

-----------------------------------------------------------------------------
(* Maintenance: each tick purges, and after a flush failure also recovers. *)

\* main starts the goroutine after the recovery at startup.
MaintenanceTick ==
    /\ maint = "idle"
    /\ shutdown = "no"
    /\ BeginPurge
    /\ maint' = IF hasFlushFailure THEN "purge first" ELSE "purge only"
    /\ UNCHANGED <<call, memVars, shutdown>>

MaintenancePurged ==
    /\ EndPurge
    /\ maint' = IF maint = "purge first" THEN "recover" ELSE "idle"
    /\ UNCHANGED <<call, memVars, shutdown>>

MaintenanceRecovers ==
    /\ maint = "recover"
    /\ BeginRecovery
    /\ UNCHANGED <<call, memVars, maint, shutdown>>

\* Variant: the callback reports success although the write was refused.
ReplayUnchecked ==
    /\ ReplayEntry
    /\ UNCHANGED <<call, memVars, maint, shutdown>>

Replay ==
    /\ ReplayEntry
    /\ Hold(Head(rec.rest))
    /\ UNCHANGED <<call, durable, failed, letGo, hasFlushFailure, maint,
                   shutdown>>

\* ResetFlushFailure follows a periodic recovery, whatever it replayed.
RecoveryDone ==
    /\ EndRecovery
    /\ hasFlushFailure' = (hasFlushFailure /\ maint # "recover")
    /\ maint' = "idle"
    /\ UNCHANGED <<call, copies, heldSince, durable, failed, letGo, shutdown>>

\* The file stays for a retry, which comes only after a flush failure.
ReplayRefused ==
    /\ ReplayFails
    /\ failed' = failed \cup ToSet(rec.rest)
    /\ UNCHANGED <<call, copies, heldSince, durable, letGo, hasFlushFailure,
                   maint, shutdown>>

RecoveryGoesOn ==
    /\ findWALFiles \/ ReadFile \/ DeleteRecovered
    /\ UNCHANGED <<call, memVars, maint, shutdown>>

-----------------------------------------------------------------------------
(* Shutdown: every hook, "wal-purge" among them, runs before the first     *)
(* component is closed.  The hook of the HTTP server has let the calls in  *)
(* progress end.                                                           *)

PurgeHook ==
    /\ MayShutDown
    /\ shutdown = "no"
    /\ \A e \in Entries : call[e] # "logged"
    /\ rec.stage = "idle" \/ rec.skip # NoFile
    /\ PurgeAll
    /\ shutdown' = "components"
    /\ UNCHANGED <<call, memVars, maint>>

\* ArrowBuffer.Close returns when nothing is left in memory.
CloseComponents ==
    /\ shutdown = "components"
    /\ \A e \in Entries : copies[e] = 0
    /\ CloseWriter
    /\ shutdown' = "wal"
    /\ UNCHANGED <<call, memVars, maint>>

\* A crash, an exit after the last component, or one before it when the
\* coordinator runs out of time.
ProcessExit ==
    /\ Exit
    /\ call' = [e \in Entries |-> IF call[e] = "logged" THEN "cut" ELSE call[e]]
    /\ copies' = [e \in Entries |-> 0]
    /\ heldSince' = [e \in Entries |-> 0]
    /\ failed' = {} /\ letGo' = {}
    /\ hasFlushFailure' = FALSE
    /\ maint' = "idle"
    /\ shutdown' = "no"
    /\ UNCHANGED durable

WalGoesOn ==
    /\ NewWriter \/ WriteEntry \/ SyncTick \/ DrainEnds
    /\ UNCHANGED <<call, memVars, maint, shutdown>>

\* A call does not pause between log and buffer, nor an entry in the
\* channel, and no copy outstays MaxHold.
TimePasses ==
    /\ Tick
    /\ chan = <<>>
    /\ \A e \in Entries :
          call[e] # "logged" /\ (copies[e] > 0 => now < heldSince[e] + MaxHold)
    /\ UNCHANGED <<call, memVars, maint, shutdown>>

PNext ==
    \/ \E e \in Entries :
          LogCall(e) \/ BufferCall(e) \/ FlushOK(e) \/ FlushFails(e) \/ LetGo(e)
    \/ MaintenanceTick \/ MaintenancePurged \/ MaintenanceRecovers
    \/ Replay \/ ReplayRefused \/ RecoveryDone \/ RecoveryGoesOn
    \/ PurgeHook \/ CloseComponents \/ ProcessExit \/ WalGoesOn \/ TimePasses

PSpec == PInit /\ [][PNext]_pipeVars

-----------------------------------------------------------------------------
(* Properties.                                                             *)

\* Every variable of the pipeline has its type.
PTypeOK ==
    /\ TypeOK
    /\ call \in [Entries -> {"none", "logged", "answered", "cut"}]
    /\ copies \in [Entries -> Nat]
    /\ heldSince \in [Entries -> 0..MaxTime]
    /\ durable \subseteq Entries /\ failed \subseteq Entries
    /\ letGo \subseteq Entries
    /\ hasFlushFailure \in BOOLEAN
    /\ maint \in {"idle", "purge only", "purge first", "recover"}
    /\ shutdown \in {"no", "components", "wal"}

InLog(e) == \E f \in disk.linked : e \in ToSet(disk.content[f])
InMemory(e) == copies[e] > 0 \/ (call[e] = "logged" /\ writer # "down")

\* Entries that this process replayed from a file that it kept "for retry"
\* because of another entry of it: the file keeps its old age, while they
\* have only come to memory now (recovery.go:198).
KeptForRetry(f) ==
    IF ToSet(disk.content[f]) \cap failed # {} THEN replayed ELSE {}

\* What purging by age removes has reached object storage, or its flush or its
\* replay is known to have failed, or it was let go: "after this duration, a
\* rotated WAL file's data MUST have been flushed to parquet" (main.go:740).
\* The exception is a file of which a recovery replayed a part (KeptForRetry).
\* The file in use stays, but for what recovery does to it.
PurgedIsDurable ==
    [][/\ CurrentFileKept
       /\ EndPurge =>
            \A f \in disk.linked \ disk'.linked :
                ToSet(disk.content[f]) \ {Torn} \subseteq
                    durable \cup failed \cup letGo \cup KeptForRetry(f)]_pipeVars

\* While the process lives only a failed flush or replay, or a batch let go, can
\* cost an entry its last copy: rotation, purge, replay, the deletion of replayed
\* files and the shutdown hooks, in whatever order they meet, pass it from
\* the log to memory to object storage without a gap.
NeverWithoutCopy ==
    [][\A e \in Entries :
          InLog(e) \/ InMemory(e) \/ e \in durable =>
             \/ (InLog(e) \/ InMemory(e) \/ e \in durable)'
             \/ e \in failed' \cup letGo'
             \/ ProcessExit]_pipeVars

=============================================================================
