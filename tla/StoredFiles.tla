---------------------------- MODULE StoredFiles ----------------------------
(* The files of one measurement on a standalone node with tiered storage:    *)
(* everything that moves, rewrites, merges or removes them while queries     *)
(* look for them.  Migration cycles (tiering), delete requests and the drop  *)
(* of the database (api), retention, a compaction and a flush run with no    *)
(* lock between them; they share hot storage (local disk), cold storage      *)
(* (S3 or Azure) and the tier of each file in SQLite.  internal/tiering,     *)
(* api/delete.go, api/retention.go, api/databases.go, and what query.go      *)
(* reads.  Compaction's own failures are in module Compaction.               *)
EXTENDS Naturals, FiniteSets, FiniteSetsExt, Functions

CONSTANTS
    Hourly, Daily,      \* files in hot storage: of an hour, of a whole day
    Fresh,              \* the file a flush writes
    Kinds,              \* of rows: a WHERE clause is TRUE, NULL or FALSE of a kind
    Clauses,            \* WHERE clauses: the kinds they are TRUE of, and NULL of
    Expired,            \* files whose rows retention finds too old
    Cycles, Requests,   \* migration cycles; delete requests and drops
    MaxStarts,          \* bound: operations started
    MaxFaults           \* bound: failing calls and crashes

Output == Fresh + 1     \* what the compaction of the day writes
Sources == Hourly \cup Daily \cup {Fresh}
Files == Sources \cup {Output}
Rows == Sources \X Kinds    \* one row of each kind in every file
Causes == {"rollback", "wiped", "forgotten", "rescan", "left", "revived", "overtaken",
           "cached", "unknown"}
Nobody == "nobody"

ASSUME StoredFilesConstants ==
    /\ Sources \subseteq Nat /\ \A f \in Hourly \cup Daily : f < Fresh
    /\ Hourly \cap Daily = {} /\ Kinds # {} /\ Expired \subseteq Sources
    /\ Clauses \subseteq [where : SUBSET Kinds, unknown : SUBSET Kinds]
    /\ {MaxStarts, MaxFaults} \subseteq Nat /\ Nobody \notin Cycles

VARIABLES
    hot, cold,          \* the files of a tier and the rows in them
    temp,               \* the .tmp/<file>.new files of delete requests
    tier,               \* tier_files: the tier a file is recorded in
    recent,             \* files with a migrated_at of the last 48 hours
    plan,               \* the tiers in the SQL of a query that is cached, or {}
    cyc, req,           \* the migration cycles, the requests
    doomedFiles,        \* retention: the eligible files still to delete
    comp,               \* the compaction: what it has read, and how far it is
    flush,              \* the flush: before, between write and RecordFile, after
    starts, faults,
    solo,               \* history: the cycle that runs, or has run, undisturbed
    written,            \* history: the rows ever stored
    doomed, removed,    \* history: rows asked to be deleted, reported deleted
    blame               \* history: the rows each known race has hit

sf_files == <<hot, cold, temp>>
sf_meta == <<tier, recent>>
sf_others == <<doomedFiles, comp, flush>>
sf_history == <<written, doomed, removed, blame>>
sf_vars == <<sf_files, sf_meta, plan, cyc, req, sf_others, starts, faults, solo, sf_history>>

NoCycle == [stage |-> "idle", todo |-> {}, copied |-> {}, moved |-> {}]
NoRequest == [pc |-> "idle", where |-> {}, unknown |-> {}, todo |-> {}, file |-> 0,
              read |-> {}, gone |-> {}, ok |-> TRUE]
NoComp == [pc |-> "idle", files |-> {}, rows |-> {}]

Put(files, f, rows) == [g \in DOMAIN files \cup {f} |-> IF g = f THEN rows ELSE files[g]]
Drop(files, gone) == Restrict(files, DOMAIN files \ gone)
RowsIn(files) == UNION {files[f] : f \in DOMAIN files}

SFInit ==
    /\ \E present \in (SUBSET (Hourly \cup Daily)) \ {{}} : hot = [f \in present |-> {f} \X Kinds]
    /\ cold = <<>> /\ temp = <<>>
    /\ tier = [f \in Files |-> IF f \in DOMAIN hot THEN "hot" ELSE "none"]
    /\ recent = {} /\ plan = {}
    /\ cyc = [c \in Cycles |-> NoCycle] /\ req = [d \in Requests |-> NoRequest]
    /\ doomedFiles = {} /\ comp = NoComp /\ flush = "none"
    /\ starts = 0 /\ faults = 0 /\ solo = Nobody
    /\ written = RowsIn(hot) /\ doomed = {} /\ removed = {} /\ blame = [c \in Causes |-> {}]

---------------------------------------------------------------------------
(* What the operations share.                                                *)

Resting == /\ \A c \in Cycles : cyc[c].stage = "idle"
           /\ \A d \in Requests : req[d].pc = "idle"
           /\ doomedFiles = {} /\ comp.pc \in {"idle", "done"} /\ flush # "written"

\* An operation starts; a cycle is undisturbed while nothing else starts or fails.
Starts(who) == /\ starts < MaxStarts /\ starts' = starts + 1 /\ UNCHANGED plan
               /\ solo' = IF Resting THEN who ELSE Nobody
Fault == faults < MaxFaults /\ faults' = faults + 1 /\ solo' = Nobody
NoFault == UNCHANGED <<faults, solo>>
Blame(cause, rows) == blame' = [blame EXCEPT ![cause] = @ \cup rows]

\* The rows of f in tier t, when a cached query does not look there.
Hidden(f, t) == LET files == IF t = "hot" THEN hot ELSE cold IN
                IF plan # {} /\ t \notin plan /\ f \in DOMAIN files THEN files[f] ELSE {}

RecordIfNew(f) ==  \* variant
    /\ tier' = [tier EXCEPT ![f] = IF @ = "none" THEN "hot" ELSE @]
    /\ UNCHANGED recent

\* RecordFile: an upsert that dates the change of a known file's tier.
RecordHot(f) ==
    /\ tier' = [tier EXCEPT ![f] = "hot"]
    /\ recent' = IF tier[f] = "cold" THEN recent \cup {f} ELSE recent

\* The 48 hours of the reconciliation window pass.
WindowPasses ==
    /\ recent # {} /\ recent' = {}
    /\ UNCHANGED <<sf_files, tier, cyc, req, sf_others, starts, plan, faults, solo, sf_history>>

---------------------------------------------------------------------------
(* A migration cycle: RunMigrationCycle of the cron entry or of the API,     *)
(* which nothing keeps from running at the same time.                        *)

CycleMoves(c, stage, todo) == cyc' = [cyc EXCEPT ![c].stage = stage, ![c].todo = todo]
CycleDone(c, f) == cyc' = [cyc EXCEPT ![c].todo = @ \ {f}]

\* ScanAndRegisterFiles lists hot storage once.
StartCycle(c) ==
    /\ cyc[c].stage = "idle" /\ Starts(c)
    /\ CycleMoves(c, "scan", DOMAIN hot)
    /\ UNCHANGED <<sf_files, sf_meta, req, sf_others, faults, sf_history>>

\* A cycle that is about to delete the hot copy.
Deleting(c, f) == f \in cyc[c].moved \cup (IF cyc[c].stage = "sweep" THEN cyc[c].todo ELSE {})

\* The file is in cold storage and its hot copy is gone, or about to go.
Leaving(f) == f \in DOMAIN cold /\ (f \notin DOMAIN hot \/ \E c \in Cycles : Deleting(c, f))

\* Each listed file is recorded hot, whatever has become of it since.
Register(c) ==
    /\ cyc[c].stage = "scan" /\ cyc[c].todo # {}
    /\ LET f == Min(cyc[c].todo) IN
       /\ CycleDone(c, f)
       /\ \/ /\ RecordHot(f) /\ NoFault
             /\ blame' = [blame EXCEPT !["cached"] = @ \cup Hidden(f, "hot"),
                              !["rescan"] = @ \cup (IF Leaving(f) THEN cold[f] ELSE {})]
          \/ UNCHANGED <<sf_meta, blame>> /\ Fault
    /\ UNCHANGED <<sf_files, req, sf_others, starts, plan, written, doomed, removed>>

\* FindCandidates: daily files recorded hot; all of them are old enough.
FindCandidates(c) ==
    /\ cyc[c].stage = "scan" /\ cyc[c].todo = {}
    /\ CycleMoves(c, "migrate", {f \in Daily \cup {Output} : tier[f] = "hot"})
    /\ NoFault /\ UNCHANGED <<sf_files, sf_meta, req, sf_others, starts, plan, sf_history>>

CopyUnchecked(c, f) ==  \* variant
    /\ cyc[c].stage = "migrate" /\ f \in cyc[c].todo
    /\ cyc' = [cyc EXCEPT ![c].todo = @ \ {f}, ![c].copied = @ \cup {f}]
    /\ \/ f \in DOMAIN hot /\ cold' = Put(cold, f, hot[f]) /\ NoFault
       \/ UNCHANGED cold /\ Fault
    /\ UNCHANGED <<hot, temp, sf_meta, req, sf_others, starts, plan, sf_history>>

\* MigrateFile, one goroutine per candidate: the copy needs the source.
Copy(c, f) ==
    /\ cyc[c].stage = "migrate" /\ f \in cyc[c].todo
    /\ \/ /\ f \in DOMAIN hot /\ cold' = Put(cold, f, hot[f]) /\ NoFault
          /\ cyc' = [cyc EXCEPT ![c].todo = @ \ {f}, ![c].copied = @ \cup {f}]
       \/ f \notin DOMAIN hot /\ CycleDone(c, f) /\ UNCHANGED cold /\ NoFault
       \/ f \in DOMAIN hot /\ CycleDone(c, f) /\ UNCHANGED cold /\ Fault
    /\ UNCHANGED <<hot, temp, sf_meta, req, sf_others, starts, plan, sf_history>>

\* UpdateTier fails, or finds no row: the destination is deleted, which is
\* fatal once another cycle counts on it.
RollBack(c, f) ==
    LET counted == \/ tier[f] = "cold" \/ f \notin DOMAIN hot
                   \/ \E b \in Cycles \ {c} : f \in cyc[b].copied \/ Deleting(b, f)
    IN  /\ cold' = Drop(cold, {f})
        /\ Blame("rollback", IF counted /\ f \in DOMAIN cold THEN cold[f] ELSE {})

\* ... unless that fails too.
KeepCopy(f) == UNCHANGED cold /\ Blame("left", IF f \in DOMAIN cold THEN cold[f] ELSE {})

UpdateTier(c, f) ==
    /\ f \in cyc[c].copied
    /\ \/ /\ tier[f] # "none" /\ NoFault
          /\ tier' = [tier EXCEPT ![f] = "cold"] /\ recent' = recent \cup {f}
          /\ cyc' = [cyc EXCEPT ![c].copied = @ \ {f}, ![c].moved = @ \cup {f}]
          /\ UNCHANGED cold /\ Blame("cached", Hidden(f, "cold"))
       \/ /\ tier[f] = "none" /\ NoFault /\ RollBack(c, f)
          /\ cyc' = [cyc EXCEPT ![c].copied = @ \ {f}] /\ UNCHANGED sf_meta
       \/ /\ Fault /\ (RollBack(c, f) \/ KeepCopy(f))
          /\ cyc' = [cyc EXCEPT ![c].copied = @ \ {f}] /\ UNCHANGED sf_meta
    /\ UNCHANGED <<hot, temp, req, sf_others, starts, plan, written, doomed, removed>>

DeleteSourceEarly(c, f) ==  \* variant
    /\ f \in cyc[c].copied \cup cyc[c].moved
    /\ cyc' = [cyc EXCEPT ![c].moved = @ \ {f}]
    /\ hot' = Drop(hot, {f}) /\ NoFault
    /\ UNCHANGED <<cold, temp, sf_meta, req, sf_others, starts, plan, sf_history>>

\* A source that cannot be deleted stays; the migration counts as done.
DeleteSource(c, f) ==
    /\ f \in cyc[c].moved /\ cyc' = [cyc EXCEPT ![c].moved = @ \ {f}]
    /\ \/ hot' = Drop(hot, {f}) /\ NoFault /\ UNCHANGED blame
       \/ f \in DOMAIN hot /\ UNCHANGED hot /\ Fault /\ Blame("left", hot[f])
    /\ UNCHANGED <<cold, temp, sf_meta, req, sf_others, starts, plan, written, doomed, removed>>

\* ReconcileOrphanedFiles: files recorded cold of late must not be hot.
FindOrphans(c) ==
    /\ cyc[c].stage = "migrate" /\ cyc[c].todo \cup cyc[c].copied \cup cyc[c].moved = {}
    /\ CycleMoves(c, "sweep", {f \in recent : tier[f] = "cold"})
    /\ NoFault /\ UNCHANGED <<sf_files, sf_meta, req, sf_others, starts, plan, sf_history>>

SweepOrphan(c) ==
    /\ cyc[c].stage = "sweep" /\ cyc[c].todo # {}
    /\ LET f == Min(cyc[c].todo) IN
       /\ CycleDone(c, f)
       /\ \/ hot' = Drop(hot, {f}) /\ NoFault
          \/ f \in DOMAIN hot /\ UNCHANGED hot /\ Fault
    /\ UNCHANGED <<cold, temp, sf_meta, req, sf_others, starts, plan, sf_history>>

EndCycle(c) ==
    /\ cyc[c].stage = "sweep" /\ cyc[c].todo = {} /\ CycleMoves(c, "idle", {})
    /\ NoFault /\ UNCHANGED <<sf_files, sf_meta, req, sf_others, starts, plan, sf_history>>

---------------------------------------------------------------------------
(* A delete request: the affected files are found once and rewritten one     *)
(* after the other; two requests use the same temporary path of a file.      *)

Selected(kinds) == {r \in Rows : r[2] \in kinds}
ReqMoves(d, pc) == req' = [req EXCEPT ![d].pc = pc]

\* handleDelete and findAffectedFiles, which looks at hot storage only: the
\* files and rows of which WHERE is TRUE; a dry run and the limits count those.
StartDelete(d) ==
    /\ req[d].pc = "idle" /\ Starts(Nobody)
    /\ \E clause \in Clauses :
        LET affected == {f \in DOMAIN hot : hot[f] \cap Selected(clause.where) # {}} IN
        /\ affected # {}
        /\ req' = [req EXCEPT ![d] = [NoRequest EXCEPT !.pc = "files", !.todo = affected,
                             !.where = clause.where, !.unknown = clause.unknown]]
        /\ doomed' = doomed \cup (RowsIn(Restrict(hot, affected)) \cap Selected(clause.where))
    /\ UNCHANGED <<sf_files, sf_meta, cyc, sf_others, faults, written, removed, blame>>

\* Copies of a row that some operation holds, or another tier or file.
Held(d) == RowsIn(cold) \cup comp.rows \cup UNION {req[e].read : e \in Requests \ {d}}

\* The rows that are still somewhere else once d has removed or replaced f.
Elsewhere(d, f) == Held(d) \cup RowsIn(Drop(temp, {f})) \cup RowsIn(Drop(hot', {f}))

\* rewriteFileWithoutDeletedRows keeps the rows of which NOT (WHERE) is TRUE: those
\* of which WHERE is NULL go with the selected ones, and count as deleted.  A
\* file that keeps no row is deleted; an error of that deletion is only logged.
CountRows(d, f) ==
    /\ req[d].pc = "files" /\ f \in req[d].todo
    /\ LET rows == IF f \in DOMAIN hot THEN hot[f] ELSE {}
           unasked == rows \cap Selected(req[d].unknown)
           gone == (rows \cap Selected(req[d].where)) \cup unasked
           kept == rows \ gone
       IN
       \/ /\ f \notin DOMAIN hot /\ UNCHANGED <<hot, removed, blame>> /\ NoFault
          /\ req' = [req EXCEPT ![d].todo = @ \ {f}, ![d].ok = FALSE]
       \/ /\ f \in DOMAIN hot /\ kept = {} /\ req' = [req EXCEPT ![d].todo = @ \ {f}]
          /\ removed' = removed \cup gone
          /\ \/ /\ hot' = Drop(hot, {f}) /\ NoFault
                /\ blame' = [blame EXCEPT !["overtaken"] = @ \cup (gone \cap Elsewhere(d, f)),
                                          !["unknown"] = @ \cup unasked]
             \/ UNCHANGED hot /\ Fault /\ Blame("left", gone)
       \/ /\ kept # {} /\ UNCHANGED <<hot, removed>> /\ NoFault /\ Blame("unknown", unasked)
          /\ req' = [req EXCEPT ![d].pc = "copy", ![d].todo = @ \ {f}, ![d].file = f,
                                ![d].read = kept, ![d].gone = gone]
    /\ UNCHANGED <<cold, temp, sf_meta, cyc, sf_others, starts, plan, written, doomed>>

\* The COPY of rewriteLocalFile ends; on an error the temporary file goes.
CopyKept(d) ==
    /\ req[d].pc = "copy"
    /\ \/ temp' = Put(temp, req[d].file, req[d].read) /\ ReqMoves(d, "rename") /\ NoFault
       \/ /\ temp' = Drop(temp, {req[d].file}) /\ Fault
          /\ req' = [req EXCEPT ![d].pc = "files", ![d].ok = FALSE, ![d].read = {}]
    /\ UNCHANGED <<hot, cold, sf_meta, cyc, sf_others, starts, plan, sf_history>>

RenameAnyway(d) ==  \* variant
    LET f == req[d].file IN
    /\ req[d].pc = "rename"
    /\ hot' = (IF f \in DOMAIN temp THEN Put(hot, f, temp[f]) ELSE hot)
    /\ temp' = Drop(temp, {f}) /\ removed' = removed \cup req[d].gone
    /\ Blame("overtaken", req[d].gone \cap Elsewhere(d, f))
    /\ req' = [req EXCEPT ![d].pc = "files", ![d].read = {}, ![d].gone = {}] /\ NoFault
    /\ UNCHANGED <<cold, sf_meta, cyc, sf_others, starts, plan, written, doomed>>

\* The rename over the original, which may have been removed meanwhile, of
\* whatever the temporary path holds.
RenameOver(d) ==
    LET f == req[d].file IN
    /\ req[d].pc = "rename"
    /\ IF f \in DOMAIN temp
       THEN /\ hot' = Put(hot, f, temp[f]) /\ temp' = Drop(temp, {f})
            /\ removed' = removed \cup req[d].gone
            /\ blame' = [blame EXCEPT
                  !["overtaken"] = @ \cup (req[d].gone \cap
                        (Held(d) \cup RowsIn(temp) \cup RowsIn(Drop(hot, {f})))),
                  !["revived"] = @ \cup (IF f \in DOMAIN hot THEN temp[f] \ hot[f]
                                                             ELSE temp[f])]
            /\ req' = [req EXCEPT ![d].pc = "files", ![d].read = {}, ![d].gone = {}]
       ELSE /\ UNCHANGED <<hot, temp, removed, blame>>
            /\ req' = [req EXCEPT ![d].pc = "files", ![d].read = {}, ![d].gone = {},
                                  ![d].ok = FALSE]
    /\ NoFault
    /\ UNCHANGED <<cold, sf_meta, cyc, sf_others, starts, plan, written, doomed>>

\* With no failed file and nothing left in hot storage the directory goes.
EndDelete(d) ==
    /\ req[d].pc = "files" /\ req[d].todo = {}
    /\ IF req[d].ok /\ DOMAIN hot = {} THEN ReqMoves(d, "wipe")
                                       ELSE req' = [req EXCEPT ![d] = NoRequest]
    /\ NoFault /\ UNCHANGED <<sf_files, sf_meta, cyc, sf_others, starts, plan, sf_history>>

\* RemoveDirectoryRecursive, with what has been written since the listing.
Wipe(d) ==
    /\ req[d].pc = "wipe" /\ ReqMoves(d, "forget")
    /\ hot' = <<>> /\ temp' = <<>>
    /\ Blame("wiped", RowsIn(hot))
    /\ NoFault
    /\ UNCHANGED <<cold, sf_meta, cyc, sf_others, starts, plan, written, doomed, removed>>

\* DeleteFilesByMeasurement, or by database: every tier.
Forget(d) ==
    /\ req[d].pc = "forget" /\ req' = [req EXCEPT ![d] = NoRequest]
    /\ \/ /\ tier' = [f \in Files |-> "none"] /\ recent' = {}
          /\ Blame("forgotten", RowsIn(cold)) /\ NoFault
       \/ UNCHANGED <<sf_meta, blame>> /\ Fault
    /\ UNCHANGED <<sf_files, cyc, sf_others, starts, plan, written, doomed, removed>>

\* DELETE /databases/<name>: the listed files go, then the directory with
\* whatever came meanwhile, then the metadata.
StartDrop(d) ==
    /\ req[d].pc = "idle" /\ Starts(Nobody)
    /\ req' = [req EXCEPT ![d] = [NoRequest EXCEPT !.pc = "drop", !.todo = DOMAIN hot]]
    /\ doomed' = doomed \cup RowsIn(hot)
    /\ UNCHANGED <<sf_files, sf_meta, cyc, sf_others, faults, written, removed, blame>>

DropFile(d) ==
    /\ req[d].pc = "drop"
    /\ IF req[d].todo = {}
       THEN ReqMoves(d, "wipe") /\ UNCHANGED hot
       ELSE LET f == Min(req[d].todo) IN
            /\ hot' = Drop(hot, {f})
            /\ req' = [req EXCEPT ![d].todo = @ \ {f}]
    /\ NoFault /\ UNCHANGED <<cold, temp, sf_meta, cyc, sf_others, starts, plan, sf_history>>

---------------------------------------------------------------------------
(* Retention, compaction and a flush.                                        *)

\* deleteOldFiles: the files whose last row is before the cutoff.
StartRetention ==
    /\ doomedFiles = {} /\ Starts(Nobody)
    /\ doomedFiles' = {f \in DOMAIN hot : \A r \in hot[f] : r[1] \in Expired}
    /\ doomedFiles' # {}
    /\ doomed' = doomed \cup RowsIn(Restrict(hot, doomedFiles'))
    /\ UNCHANGED <<sf_files, sf_meta, cyc, req, comp, flush, faults, written, removed, blame>>

RetentionDelete ==
    /\ doomedFiles # {}
    /\ LET f == Min(doomedFiles) IN
       /\ doomedFiles' = doomedFiles \ {f}
       /\ \/ hot' = Drop(hot, {f}) /\ NoFault
          \/ UNCHANGED hot /\ Fault
    /\ UNCHANGED <<cold, temp, sf_meta, cyc, req, comp, flush, starts, plan, sf_history>>

\* The daily tier: the job reads every hot file of the day, ...
StartCompaction ==
    /\ comp = NoComp /\ Cardinality(DOMAIN hot) >= 2 /\ DOMAIN hot \ Daily # {}
    /\ Starts(Nobody)
    /\ comp' = [pc |-> "read", files |-> DOMAIN hot, rows |-> RowsIn(hot)]
    /\ UNCHANGED <<sf_files, sf_meta, cyc, req, doomedFiles, flush, faults, sf_history>>

\* ... uploads what it has read, whatever has left the inputs since, ...
UploadOutput ==
    /\ comp.pc = "read" /\ comp' = [comp EXCEPT !.pc = "uploaded"]
    /\ hot' = Put(hot, Output, comp.rows)
    /\ NoFault
    /\ UNCHANGED <<cold, temp, sf_meta, cyc, req, doomedFiles, flush, starts, plan, sf_history>>

\* ... and deletes the inputs, or its manifest's recovery does.
DeleteInputs ==
    /\ comp.pc = "uploaded" /\ comp' = [NoComp EXCEPT !.pc = "done"]
    /\ hot' = Drop(hot, comp.files)
    /\ Blame("revived", comp.rows \cap (RowsIn(cold) \cup RowsIn(Drop(hot', {Output}))))
    /\ NoFault
    /\ UNCHANGED <<cold, temp, sf_meta, cyc, req, doomedFiles, flush, starts, plan, written,
                   doomed, removed>>

Flush ==
    /\ flush = "none" /\ Starts(Nobody) /\ flush' = "written"
    /\ hot' = Put(hot, Fresh, {Fresh} \X Kinds) /\ written' = written \cup {Fresh} \X Kinds
    /\ UNCHANGED <<cold, temp, sf_meta, cyc, req, doomedFiles, comp, faults, doomed, removed,
                   blame>>

\* registerFileInTiering: an error is only logged.
RegisterFlushed ==
    /\ flush = "written" /\ flush' = "done"
    /\ \/ RecordHot(Fresh) /\ NoFault /\ Blame("cached", Hidden(Fresh, "hot"))
       \/ UNCHANGED <<sf_meta, blame>> /\ Fault
    /\ UNCHANGED <<sf_files, cyc, req, doomedFiles, comp, starts, plan, written, doomed, removed>>

\* The process ends; files, metadata and the manifest of an upload stay.
Crash ==
    /\ ~Resting /\ Fault
    /\ cyc' = [c \in Cycles |-> NoCycle] /\ req' = [d \in Requests |-> NoRequest]
    /\ doomedFiles' = {} /\ flush' = (IF flush = "written" THEN "done" ELSE flush)
    /\ comp' = IF comp.pc = "read" THEN NoComp ELSE comp
    /\ Blame("left", RowsIn(hot) \cap RowsIn(cold))
    /\ UNCHANGED <<sf_files, sf_meta, starts, plan, written, doomed, removed>>

---------------------------------------------------------------------------
(* What a query reads: buildMultiTierReadParquet takes the tiers that the    *)
(* metadata names, hot when it names none, and every file below them; the    *)
(* SQL with these paths is cached for its text.                              *)

TiersOf == {tier[f] : f \in Files} \ {"none"}
QueriedTiers == IF plan # {} THEN plan ELSE IF TiersOf = {} THEN {"hot"} ELSE TiersOf
InTier(t) == IF t = "hot" THEN hot ELSE cold
Visible == UNION {RowsIn(InTier(t)) : t \in QueriedTiers}

\* getTransformedSQL misses its cache.
Query ==
    /\ plan = {} /\ starts < MaxStarts /\ starts' = starts + 1
    /\ plan' = QueriedTiers
    /\ UNCHANGED <<sf_files, sf_meta, cyc, req, sf_others, faults, solo, sf_history>>

\* SQLTransformCacheTTL passes, or a compaction ends; nothing else clears it.
PlanExpires ==
    /\ plan # {} /\ plan' = {} /\ blame' = [blame EXCEPT !["cached"] = {}]
    /\ UNCHANGED <<sf_files, sf_meta, cyc, req, sf_others, starts, faults, solo,
                   written, doomed, removed>>

SFNext ==
    \/ \E c \in Cycles :
        \/ StartCycle(c) \/ Register(c) \/ FindCandidates(c) \/ FindOrphans(c)
        \/ SweepOrphan(c) \/ EndCycle(c)
        \/ \E f \in Daily \cup {Output} : Copy(c, f) \/ UpdateTier(c, f) \/ DeleteSource(c, f)
    \/ \E d \in Requests :
        \/ StartDelete(d) \/ CopyKept(d) \/ RenameOver(d) \/ EndDelete(d)
        \/ Wipe(d) \/ Forget(d) \/ StartDrop(d) \/ DropFile(d)
        \/ \E f \in Files : CountRows(d, f)
    \/ StartRetention \/ RetentionDelete \/ StartCompaction \/ UploadOutput \/ DeleteInputs
    \/ Flush \/ RegisterFlushed \/ Crash \/ WindowPasses \/ Query \/ PlanExpires

SFSpec == SFInit /\ [][SFNext]_sf_vars

---------------------------------------------------------------------------
(* Properties.                                                               *)

\* The type invariant.
SFTypeOK ==
    /\ \A fs \in {hot, cold, temp} : DOMAIN fs \subseteq Files /\ RowsIn(fs) \subseteq Rows
    /\ tier \in [Files -> {"none", "hot", "cold"}] /\ recent \subseteq Files
    /\ doomed \subseteq Rows /\ removed \subseteq Rows

\* A stored row that nobody asked to delete stays in some file of some tier,
\* whatever MigrateFile, the rewrites of delete.go, compaction and retention do
\* at the same time.  Three exceptions: MigrateFile rolls back a copy that another
\* cycle counts on; RemoveDirectoryRecursive takes along what was written after
\* the listing that found the directory empty; and rewriteFileWithoutDeletedRows
\* drops the rows of an affected file of which the WHERE clause is NULL.
RowsSurvive ==
    written \ (doomed \cup blame["rollback"] \cup blame["wiped"] \cup blame["unknown"])
        \subseteq RowsIn(hot) \cup RowsIn(cold)

Unrecorded == {f \in DOMAIN hot : tier[f] = "none"}

\* A stored row is in the answer of a query, at every step of a migration: a
\* tier that the metadata does not name is not read by buildMultiTierReadParquet.
\* Exceptions: files not recorded yet (a flush or an output before RecordFile or
\* the next scan) while only cold storage is recorded; cold files whose metadata
\* a delete dropped; files that a scan overtaken by their migration recorded
\* hot; copies whose roll-back removed what another cycle had recorded; rows that
\* RemoveDirectoryRecursive, or a rewrite whose WHERE is NULL of them, took from
\* hot storage while the cold copy was not recorded yet; and, for a query whose
\* SQL is cached, files recorded since in a tier it does not name.
RowsSeen ==
    (RowsIn(hot) \cup RowsIn(cold)) \ doomed \subseteq
        Visible \cup RowsIn(Restrict(hot, Unrecorded))
        \cup blame["forgotten"] \cup blame["rescan"] \cup blame["rollback"] \cup blame["wiped"]
        \cup blame["unknown"] \cup blame["cached"]

Places(r) == {p \in {"hot", "cold"} \X Files :
                p[2] \in DOMAIN InTier(p[1]) /\ r \in InTier(p[1])[p[2]]}

\* With nothing running no row is in two files that a query reads, within a
\* tier or across both.  Exceptions: a copy that a failed deletion or a crash
\* left behind, and rows that a rename of delete.go or the output of a
\* compaction brought back beside their moved copy.
SeenOnce ==
    Resting => \A r \in Visible : \/ Cardinality(Places(r)) = 1
                                  \/ r \in blame["left"] \cup blame["revived"]

\* A query counts every stored row once, with the exceptions above.
SeenExactlyOnce == RowsSeen /\ SeenOnce

\* A row that a delete request reported as deleted (totalDeleted) is not seen
\* again.  Exceptions: another operation held a copy when it was removed (a
\* migrated file, a compaction's inputs, another rewrite), or the deletion of
\* the file failed and was only logged.
DeletedStayDeleted ==
    removed \cap Visible \subseteq blame["overtaken"] \cup blame["left"]

\* RunMigrationCycle repairs what was left behind: after a cycle that ran alone
\* and without a failure no daily file is in hot storage (not even an orphan of
\* an earlier crash), and each one in cold storage is recorded there.  Files
\* that were forgotten or wrongly recorded hot before it, or whose hot copy went
\* with a directory, a roll-back or a rewrite that dropped their rows before the
\* cold one was recorded, stay lost to queries.
CycleRepairs ==
    solo \in Cycles /\ cyc[solo].stage = "idle" =>
        \A f \in Daily \cup {Output} :
            /\ f \notin DOMAIN hot
            /\ f \in DOMAIN cold /\ tier[f] # "cold"
                  => cold[f] \subseteq doomed \cup blame["forgotten"] \cup blame["rescan"]
                        \cup blame["revived"] \cup blame["wiped"] \cup blame["rollback"]
                        \cup blame["unknown"]
=============================================================================
