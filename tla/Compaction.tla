---------------------------- MODULE Compaction -----------------------------
(* Compaction of the Parquet files of one day: the Manager's cycle with its  *)
(* recovery, its two tiers and the retry in halves, the Job that runs in a   *)
(* subprocess, the two manifests it leaves for others (one in storage for    *)
(* recovery, one on local disk for the cluster), the CompletionWatcher that  *)
(* turns the second into Raft commands, and the reconciler that compares     *)
(* Raft's list of files with storage.  internal/compaction/*.go,             *)
(* cluster/compaction_bridge.go, internal/reconciliation/*.go.               *)
EXTENDS Naturals, FiniteSets, Sequences, SequencesExt

CONSTANTS
    Hour,               \* files of the hour that is compacted, in listing order
    Others,             \* files of other hours of the day, compacted before
    MinFiles,           \* MinFiles of both tiers
    MaxBatch,           \* MaxFilesPerBatch, at least MinFilesPerBatch
    MaxJobs,            \* bound: subprocesses started
    MaxCycles,          \* bound: cycles started
    MaxFaults,          \* bound: failing operations, kills and crashes
    Reconciles          \* the reconciler is enabled and acts

Sources == Hour \cup Others
Jobs == 1..MaxJobs
Out(j) == Cardinality(Sources) + j
Files == Sources \cup {Out(j) : j \in Jobs}

ASSUME CompactionConstants ==
    /\ IsFiniteSet(Sources) /\ Sources = 1..Cardinality(Sources) /\ Hour \cap Others = {}
    /\ MinFiles \in Nat \ {0} /\ MaxBatch \in Nat \ {0, 1}
    /\ MaxJobs \in Nat /\ Reconciles \in BOOLEAN

VARIABLES
    stored,             \* the files in storage
    rows,               \* rows[f]: what was written under f; a row is named for its source
    daily, twice, broken, \* of the files: daily outputs, with a row twice, incomplete
    inputs,             \* inputs[j]: the files job j read, as its manifests list them
    pending,            \* jobs with a manifest in storage
    completion,         \* the state of each job's completion manifest
    raft,               \* the files the cluster's manifest lists
    registered,         \* CompletionWatcher.registeredOutputs
    up, stage, todo,    \* the compactor process and its cycle
    work,               \* the batches of the tier, each with its retries
    cache,              \* manifestCache: inputs only, {} when invalid
    job,                \* the running subprocess
    jobs, cycles, faults,
    exposed,            \* history: jobs that ended between upload and output_written,
                        \* or whose output recovery took for whole without its size
    blame               \* history: what may have doubled a row

cp_storage == <<stored, rows, daily, twice, broken>>
cp_cluster == <<completion, raft, registered>>
cp_cycle == <<up, stage, todo, work, cache, cycles>>
cp_history == <<exposed, blame>>
cp_vars == <<cp_storage, inputs, pending, cp_cluster, cp_cycle, job, jobs, faults, cp_history>>

NoJob == [pc |-> "none", id |-> 0, files |-> <<>>]
Fault == faults < MaxFaults /\ faults' = faults + 1

CPInit ==
    /\ stored = Sources /\ rows = [f \in Files |-> IF f \in Sources THEN {f} ELSE {}]
    /\ daily = {} /\ twice = {} /\ broken = {}
    /\ inputs = [j \in Jobs |-> {}] /\ pending = {} /\ completion = [j \in Jobs |-> "none"]
    /\ raft = Sources /\ registered = {}
    /\ up = TRUE /\ stage = "idle" /\ todo = {} /\ work = <<>> /\ cache = {}
    /\ job = NoJob /\ jobs = 0 /\ cycles = 0 /\ faults = 0
    /\ exposed = {} /\ blame = {}

---------------------------------------------------------------------------
(* The cycle of the Manager.                                                 *)

Blame(cause, doubled) == blame' = IF doubled THEN blame \cup {cause} ELSE blame

\* runCycleInternal: cycleRunning lets one cycle in; recovery comes first.
StartCycle ==
    /\ up /\ stage = "idle" /\ cycles < MaxCycles
    /\ cycles' = cycles + 1 /\ stage' = "recover" /\ todo' = pending
    /\ UNCHANGED <<cp_storage, inputs, pending, cp_cluster, up, work, cache, job, jobs, faults,
                   cp_history>>

\* A manifest that cannot be read is deleted.
DropUnreadable(j) ==
    /\ Fault /\ pending' = pending \ {j} /\ cache' = {}
    /\ Blame("unreadable", Out(j) \in stored \ broken)
    /\ UNCHANGED <<cp_storage, exposed>>

\* The output is missing: the job ended before its upload.
DropUnfinished(j) ==
    /\ Out(j) \notin stored /\ pending' = pending \ {j} /\ cache' = {}
    /\ UNCHANGED <<cp_storage, faults, cp_history>>

\* The output's size differs: it is deleted, or stays when that fails.
DropBroken(j) ==
    /\ Out(j) \in stored \cap broken
    /\ \/ stored' = stored \ {Out(j)} /\ UNCHANGED faults
       \/ UNCHANGED stored /\ Fault
    /\ pending' = pending \ {j} /\ cache' = {}
    /\ UNCHANGED <<rows, daily, twice, broken, cp_history>>

FinishDeletionUnchecked(j) ==  \* variant
    /\ Out(j) \in stored
    /\ stored' = stored \ inputs[j] /\ pending' = pending \ {j} /\ cache' = {}
    /\ UNCHANGED <<rows, daily, twice, broken, faults, cp_history>>

FinishDeletionIgnoringErrors(j) ==  \* variant
    /\ Out(j) \in stored \ broken
    /\ \E left \in SUBSET (inputs[j] \cap stored) : stored' = (stored \ inputs[j]) \cup left
    /\ pending' = pending \ {j} /\ cache' = {}
    /\ UNCHANGED <<rows, daily, twice, broken, faults, cp_history>>

\* The output is whole: the inputs go, then the manifest, unless one stays.
FinishDeletion(j) ==
    /\ Out(j) \in stored \ broken
    /\ \/ /\ stored' = stored \ inputs[j] /\ pending' = pending \ {j} /\ cache' = {}
          /\ UNCHANGED faults
       \/ /\ \E left \in SUBSET (inputs[j] \cap stored) :
                 stored' = (stored \ inputs[j]) \cup left
          /\ Fault /\ UNCHANGED <<pending, cache>>
    /\ UNCHANGED <<rows, daily, twice, broken, cp_history>>

\* ListObjects fails, so the size is not compared and the inputs go.
SizeUnknown(j) ==
    /\ Out(j) \in stored \cap broken /\ Fault
    /\ stored' = stored \ inputs[j] /\ pending' = pending \ {j} /\ cache' = {}
    /\ exposed' = exposed \cup {j}
    /\ UNCHANGED <<rows, daily, twice, broken, blame>>

\* A storage error before the decision leaves all as it is.
RecoveryError == Fault /\ UNCHANGED <<cp_storage, pending, cache, cp_history>>

RecoverManifest(j) ==
    /\ up /\ stage = "recover" /\ j \in todo /\ todo' = todo \ {j}
    /\ \/ DropUnreadable(j) \/ DropUnfinished(j) \/ DropBroken(j) \/ FinishDeletion(j)
       \/ SizeUnknown(j) \/ RecoveryError
    /\ UNCHANGED <<inputs, cp_cluster, up, stage, work, cycles, job, jobs>>

EndRecovery ==
    /\ up /\ stage = "recover" /\ todo = {} /\ stage' = "hourly"
    /\ UNCHANGED <<cp_storage, inputs, pending, cp_cluster, up, todo, work, cache, cycles, job,
                   jobs, faults, cp_history>>

---------------------------------------------------------------------------
(* FindCandidates of a tier, the filter against the manifests, the batches.  *)

HourFiles == {f \in stored \ daily : rows[f] \subseteq Hour}
Listed == IF stage = "hourly" THEN HourFiles ELSE stored

\* ShouldCompactByFileSuffix counts the files that this tier has not made.
Uncompacted == IF stage = "hourly" THEN stored \cap Hour ELSE stored \ daily

Tracked == UNION {inputs[j] \cup {Out(j)} : j \in pending}
TrackedInputs == UNION {inputs[j] : j \in pending}

\* GetFilesInManifests reads the manifests, or answers from a cache that is
\* valid for 30 seconds and does not know the outputs.
FilesInManifests == {[files |-> Tracked, cache |-> TrackedInputs]}
                    \cup (IF cache = {} THEN {} ELSE {[files |-> cache, cache |-> cache]})

\* Files in listing order: the i-th has i - 1 of them before it.
ListingOf(S) == [i \in 1..Cardinality(S) |-> CHOOSE f \in S : Cardinality({g \in S : g < f}) = i - 1]

\* Batches of MaxBatch files; a single file left over joins the last one.
SplitIntoBatches(s) ==
    LET n == Len(s)
        ceil == (n + MaxBatch - 1) \div MaxBatch
        count == IF n % MaxBatch = 1 /\ ceil > 1 THEN ceil - 1 ELSE ceil
    IN  [i \in 1..count |-> SubSeq(s, (i - 1) * MaxBatch + 1, IF i = count THEN n ELSE i * MaxBatch)]

NextStage == IF stage \in {"hourly", "hourly batches"} THEN "daily" ELSE "idle"
InBatches == stage \in {"hourly batches", "daily batches"}

\* One partition per tier.  A batch becomes the list of the pieces to try.
FindCandidates ==
    /\ up /\ stage \in {"hourly", "daily"}
    /\ IF Cardinality(Uncompacted) < MinFiles
       THEN stage' = NextStage /\ UNCHANGED <<work, cache, blame>>
       ELSE \E known \in FilesInManifests :
                LET files == ListingOf(Listed \ known.files)
                    batches == SplitIntoBatches(files)
                IN  /\ work' = [i \in DOMAIN batches |-> <<batches[i]>>]
                    /\ cache' = known.cache
                    /\ Blame("cache", ToSet(files) \cap Tracked # {})
                    /\ stage' = IF stage = "hourly" THEN "hourly batches" ELSE "daily batches"
    /\ UNCHANGED <<cp_storage, inputs, pending, cp_cluster, up, todo, cycles, job, jobs, faults,
                   exposed>>

EndTier ==
    /\ up /\ InBatches /\ work = <<>> /\ job = NoJob /\ stage' = NextStage
    /\ UNCHANGED <<cp_storage, inputs, pending, cp_cluster, up, todo, work, cache, cycles, job,
                   jobs, faults, cp_history>>

---------------------------------------------------------------------------
(* compactFilesAdaptively: the head of the first batch's list is tried; when *)
(* it fails it is replaced by its halves, and when it cannot be split the    *)
(* whole batch is given up.                                                  *)

Succeeded == IF Len(Head(work)) = 1 THEN Tail(work) ELSE <<Tail(Head(work))>> \o Tail(work)

Failed(files) ==
    LET n == Len(files)
        halves == <<SubSeq(files, 1, n \div 2), SubSeq(files, n \div 2 + 1, n)>>
    IN  IF n > 2 THEN <<halves \o Tail(Head(work))>> \o Tail(work) ELSE Tail(work)

TooSmall ==
    /\ up /\ InBatches /\ job = NoJob /\ work # <<>> /\ Len(Head(Head(work))) < 2
    /\ work' = Tail(work)
    /\ UNCHANGED <<cp_storage, inputs, pending, cp_cluster, up, stage, todo, cache, cycles, job,
                   jobs, faults, cp_history>>

\* CompactPartition starts the subprocess, which writes its first completion
\* manifest; a failure of that write is ignored.
StartJob ==
    /\ up /\ InBatches /\ job = NoJob /\ work # <<>> /\ Len(Head(Head(work))) >= 2
    /\ jobs < MaxJobs /\ jobs' = jobs + 1
    /\ job' = [pc |-> "read", id |-> jobs + 1, files |-> Head(Head(work))]
    /\ \/ completion' = [completion EXCEPT ![jobs + 1] = "writing"] /\ UNCHANGED faults
       \/ UNCHANGED completion /\ Fault
    /\ UNCHANGED <<cp_storage, inputs, pending, raft, registered, cp_cycle, cp_history>>

JobAt(pc) == up /\ job.pc = pc
JobMoves(pc) == job' = [job EXCEPT !.pc = pc] /\ UNCHANGED work
JobSucceeds == job' = NoJob /\ work' = Succeeded

\* The retry does not look at what the failed job has left behind.
JobFails ==
    /\ job' = NoJob /\ work' = Failed(job.files)
    /\ Blame("retry", Len(job.files) > 2 /\ Out(job.id) \in stored)

\* downloadFiles skips what is gone, compactFiles what is not readable.
ReadInputs ==
    /\ JobAt("read")
    /\ LET found == (ToSet(job.files) \cap stored) \ broken IN
       \/ /\ ToSet(job.files) \cap stored = {} /\ JobSucceeds
          /\ UNCHANGED <<inputs, faults, blame>>
       \/ /\ found # {} /\ JobMoves("record") /\ inputs' = [inputs EXCEPT ![job.id] = found]
          /\ UNCHANGED <<faults, blame>>
       \/ /\ ToSet(job.files) \cap stored # {} /\ (found = {} \/ faults < MaxFaults)
          /\ faults' = (IF found = {} THEN faults ELSE faults + 1)
          /\ JobFails /\ UNCHANGED inputs
    /\ UNCHANGED <<cp_storage, pending, cp_cluster, up, stage, todo, cache, cycles, jobs, exposed>>

WriteManifest ==
    /\ JobAt("record")
    /\ \/ pending' = pending \cup {job.id} /\ JobMoves("upload") /\ UNCHANGED <<faults, blame>>
       \/ UNCHANGED pending /\ JobFails /\ Fault
    /\ UNCHANGED <<cp_storage, inputs, cp_cluster, up, stage, todo, cache, cycles, jobs, exposed>>

\* What the upload writes: the rows of the inputs.
Writes(whole) ==
    LET in == inputs[job.id] IN
    /\ stored' = stored \cup {Out(job.id)}
    /\ rows' = [rows EXCEPT ![Out(job.id)] = UNION {rows[f] : f \in in}]
    /\ daily' = IF stage = "daily batches" THEN daily \cup {Out(job.id)} ELSE daily
    /\ twice' = IF in \cap twice # {} \/ \E f \in in : \E g \in in \ {f} : rows[f] \cap rows[g] # {}
                THEN twice \cup {Out(job.id)} ELSE twice
    /\ broken' = IF whole THEN broken ELSE broken \cup {Out(job.id)}

Upload ==
    /\ JobAt("upload") /\ Writes(TRUE) /\ JobMoves("announce")
    /\ UNCHANGED <<inputs, pending, cp_cluster, up, stage, todo, cache, cycles, jobs, faults,
                   cp_history>>

\* A failed upload may have written nothing, a part or all; its manifest is
\* deleted, unless that fails too.
UploadFails ==
    /\ JobAt("upload") /\ Fault
    /\ UNCHANGED cp_storage \/ \E whole \in BOOLEAN : Writes(whole)
    /\ \/ pending' = pending \ {job.id} \/ UNCHANGED pending
    /\ job' = NoJob /\ work' = Failed(job.files)
    /\ Blame("upload", Out(job.id) \in stored' \ broken'
                         /\ (job.id \notin pending' \/ Len(job.files) > 2))
    /\ exposed' = exposed \cup (IF Out(job.id) \in stored' \ broken' THEN {job.id} ELSE {})
    /\ UNCHANGED <<inputs, cp_cluster, up, stage, todo, cache, cycles, jobs>>

OutputWrittenBestEffort ==  \* variant
    /\ JobAt("announce") /\ JobMoves("delete")
    /\ \/ completion' = [completion EXCEPT ![job.id] = "written"] /\ UNCHANGED faults
       \/ UNCHANGED completion /\ Fault
    /\ UNCHANGED <<stored, rows, daily, twice, broken, inputs, pending, raft, registered, up,
                   stage, todo, cache, cycles, jobs, cp_history>>

\* writeOutputWrittenManifest; its failure fails the job.
OutputWritten ==
    /\ JobAt("announce")
    /\ \/ /\ completion' = [completion EXCEPT ![job.id] = "written"] /\ JobMoves("delete")
          /\ UNCHANGED <<faults, cp_history>>
       \/ UNCHANGED completion /\ JobFails /\ Fault /\ exposed' = exposed \cup {job.id}
    /\ UNCHANGED <<stored, rows, daily, twice, broken, inputs, pending, raft, registered, up,
                   stage, todo, cache, cycles, jobs>>

\* deleteOldFiles; after an error the job completes and leaves its manifest.
DeleteOldFiles ==
    /\ JobAt("delete")
    /\ \/ stored' = stored \ inputs[job.id] /\ JobMoves("forget") /\ UNCHANGED faults
       \/ /\ \E left \in (SUBSET inputs[job.id]) \ {{}} :
                 stored' = (stored \ inputs[job.id]) \cup (left \cap stored)
          /\ JobSucceeds /\ Fault
    /\ UNCHANGED <<rows, daily, twice, broken, inputs, pending, cp_cluster, up, stage, todo, cache,
                   cycles, jobs, cp_history>>

ForgetManifest ==
    /\ JobAt("forget") /\ JobMoves("finish")
    /\ \/ pending' = pending \ {job.id} /\ UNCHANGED faults
       \/ UNCHANGED pending /\ Fault
    /\ UNCHANGED <<cp_storage, inputs, cp_cluster, up, stage, todo, cache, cycles, jobs, cp_history>>

SourcesDeleted ==
    /\ JobAt("finish") /\ JobSucceeds
    /\ \/ completion' = [completion EXCEPT ![job.id] = "gone"] /\ UNCHANGED faults
       \/ UNCHANGED completion /\ Fault
    /\ UNCHANGED <<cp_storage, inputs, pending, raft, registered, up, stage, todo, cache, cycles,
                   jobs, cp_history>>

---------------------------------------------------------------------------
(* The subprocess is killed, or the whole process ends, between any two      *)
(* steps, in the middle of the upload or of the deletion.  WriteReader       *)
(* renames without a sync, so a power failure may leave a file cut short.    *)

Interrupted ==
    /\ Fault
    /\ \/ UNCHANGED cp_storage
       \/ job.pc = "upload" /\ Writes(FALSE)
       \/ /\ job.pc = "delete"
          /\ \E left \in SUBSET inputs[job.id] :
                stored' = (stored \ inputs[job.id]) \cup (left \cap stored)
          /\ UNCHANGED <<rows, daily, twice, broken>>
    /\ exposed' = IF job.pc = "announce" THEN exposed \cup {job.id} ELSE exposed

JobKilled ==
    /\ up /\ job # NoJob /\ Interrupted
    /\ job' = NoJob /\ work' = Failed(job.files)
    /\ Blame("retry", Len(job.files) > 2 /\ Out(job.id) \in stored' \ broken')
    /\ UNCHANGED <<inputs, pending, cp_cluster, up, stage, todo, cache, cycles, jobs>>

Crash ==
    /\ up /\ Interrupted
    /\ up' = FALSE /\ stage' = "idle" /\ todo' = {} /\ work' = <<>> /\ cache' = {}
    /\ job' = NoJob /\ registered' = {}
    /\ UNCHANGED <<inputs, pending, completion, raft, cycles, jobs, blame>>

\* CleanupOrphanedCompletionManifests runs once: what has stayed in
\* writing_output for ten minutes is removed.
Restart ==
    /\ ~up /\ up' = TRUE
    /\ \E old \in SUBSET {j \in Jobs : completion[j] = "writing"} :
            completion' = [j \in Jobs |-> IF j \in old THEN "none" ELSE completion[j]]
    /\ UNCHANGED <<cp_storage, inputs, pending, raft, registered, stage, todo, work, cache, cycles,
                   job, jobs, faults, cp_history>>

---------------------------------------------------------------------------
(* The CompletionWatcher's poll of one manifest, through the bridge.         *)

Registers(j) == IF j \in registered THEN {} ELSE {Out(j)}
Deletes(j) == IF completion[j] = "gone" THEN inputs[j] ELSE {}

ApplyCompletion(j) ==
    /\ up /\ completion[j] \in {"written", "gone"} /\ Registers(j) \cup Deletes(j) # {}
    /\ raft' = (raft \cup Registers(j)) \ Deletes(j)
    /\ \/ /\ completion[j] = "written" /\ registered' = registered \cup {j}
          /\ UNCHANGED <<completion, faults>>
       \/ /\ completion[j] = "gone" /\ registered' = registered \ {j}
          /\ completion' = [completion EXCEPT ![j] = "none"] /\ UNCHANGED faults
       \/ \* applied, but the bridge or the removal of the manifest reports an error
          Fault /\ UNCHANGED completion /\ registered' \in {registered, registered \cup {j}}
    /\ UNCHANGED <<cp_storage, inputs, pending, cp_cycle, job, jobs, cp_history>>

---------------------------------------------------------------------------
(* The reconciler.  A file is an orphan 24 hours after it was written: by    *)
(* then its job has ended and the watcher has seen what it left.             *)

Settled(f) == \A j \in Jobs : f = Out(j) =>
                job.id # j /\ (completion[j] \in {"written", "gone"} => j \in registered)

\* Files of the daily tier have six path segments and are left alone.
OrphanStorage ==
    \E f \in stored \ (raft \cup daily) :
        Reconciles /\ Settled(f) /\ stored' = stored \ {f}
OrphanManifest ==
    \E f \in raft \ stored : Reconciles /\ raft' = raft \ {f}

Reconcile ==
    /\ \/ OrphanStorage /\ UNCHANGED raft
       \/ OrphanManifest /\ UNCHANGED stored
    /\ UNCHANGED <<rows, daily, twice, broken, inputs, pending, completion, registered, cp_cycle,
                   job, jobs, faults, cp_history>>

CPNext ==
    \/ StartCycle \/ EndRecovery \/ FindCandidates \/ EndTier \/ TooSmall
    \/ \E j \in Jobs : RecoverManifest(j) \/ ApplyCompletion(j)
    \/ StartJob \/ ReadInputs \/ WriteManifest \/ Upload \/ UploadFails \/ OutputWritten
    \/ DeleteOldFiles \/ ForgetManifest \/ SourcesDeleted
    \/ JobKilled \/ Crash \/ Restart \/ Reconcile

CPSpec == CPInit /\ [][CPNext]_cp_vars

---------------------------------------------------------------------------
(* Properties.                                                               *)

\* The type invariant: what each variable ranges over; a manifest in storage
\* lists at least one input.
CPTypeOK ==
    /\ stored \in SUBSET Files /\ rows \in [Files -> SUBSET Sources]
    /\ daily \in SUBSET Files /\ twice \in SUBSET Files /\ broken \in SUBSET Files
    /\ inputs \in [Jobs -> SUBSET Files] /\ pending \in SUBSET Jobs
    /\ completion \in [Jobs -> {"none", "writing", "written", "gone"}]
    /\ raft \in SUBSET Files /\ registered \in SUBSET Jobs
    /\ up \in BOOLEAN /\ todo \in SUBSET Jobs /\ job.id \in 0..MaxJobs /\ jobs \in 0..MaxJobs
    /\ exposed \in SUBSET Jobs
    /\ \A j \in pending : inputs[j] # {}

Readable == stored \ broken

\* Whatever fails, is killed or crashes, compaction never loses a row: one
\* whole file in storage holds it.  The two exceptions: the reconciler may
\* delete the only such file when its job ended before it wrote output_written,
\* and recovery may trust a file cut short whose size it could not read.
RowsKept ==
    \A r \in Sources : \/ \E f \in Readable : r \in rows[f]
                       \/ \E j \in exposed : r \in rows[Out(j)]

\* "manifest is source of truth" (watcher.go): when no job runs and the watcher
\* has applied what it found, each row is in a stored file that Raft lists.
Quiet == job = NoJob /\ \A j \in Jobs : completion[j] \in {"written", "gone"} => j \in registered
RowsListed ==
    Quiet => \A r \in Sources : \/ \E f \in Readable \cap raft : r \in rows[f]
                                \/ \E j \in exposed : r \in rows[Out(j)]

\* A row is in one file only once the manifests of finished jobs are gone,
\* unless a job was retried beside its own output, a manifest went before its
\* output, or the cached manifests hid a file.
OncePerRow ==
    job = NoJob /\ pending = {} /\ blame = {} =>
        /\ Readable \cap twice = {}
        /\ \A f, g \in Readable : f # g => rows[f] \cap rows[g] = {}

\* What Raft lists follows what is stored: RowsListed holds after every step, and
\* Raft stops listing a file only after it left storage ("issuing DeleteFile
\* before that would make the manifest claim they're gone while they're still
\* readable", watcher.go).
DeletedFirst == raft \ raft' \subseteq Files \ stored
ListedAsStored == [][RowsListed' /\ DeletedFirst]_cp_vars
=============================================================================
