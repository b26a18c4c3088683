------------------------- MODULE Compaction_proofs -------------------------
(***************************************************************************)
(* Theorems about Compaction: no row is lost or kept twice, and Raft lists *)
(* what is stored; and about CompactorLease, which decides what node       *)
(* compacts, for every set of nodes, every assignment of roles and every   *)
(* number of joins, crashes, elections and failures.                       *)
(***************************************************************************)
EXTENDS Compaction, CompactorLease, FiniteSetTheorems, SequenceTheorems, TLAPS

Pcs == {"read", "record", "upload", "announce", "delete", "forget", "finish"}
Announced(j) == completion[j] \in {"written", "gone"}

JobInv ==
    \/ job = NoJob
    \/ /\ job = [pc |-> job.pc, id |-> jobs, files |-> job.files]
       /\ jobs \in Jobs /\ job.pc \in Pcs /\ up /\ InBatches
       /\ job.pc \in {"record", "upload"} => inputs[jobs] # {}
       /\ job.pc \in {"announce", "delete", "forget", "finish"} => Out(jobs) \in Readable
       /\ job.pc \in {"forget", "finish"} => inputs[jobs] \cap stored = {}

\* Jobs that have not written anything.
Unwritten(j) == j > jobs \/ (j = job.id /\ job.pc \in {"read", "record", "upload"})
UnwrittenInv ==
    \A j \in Jobs : Unwritten(j) =>
        Out(j) \notin stored \cup broken /\ j \notin exposed /\ ~Announced(j)

\* The inputs of a job are sources and outputs of earlier jobs, and its output holds their rows.
InputsInv ==
    \A j \in Jobs :
        /\ \A i \in Jobs : Out(i) \in inputs[j] => i < j
        /\ Out(j) \in stored => \A f \in inputs[j] : rows[f] \subseteq rows[Out(j)]

ListedInv ==
    /\ Sources \cap stored \subseteq raft
    /\ \A j \in Jobs :
        /\ j \in registered => Announced(j) /\ (Out(j) \in stored => Out(j) \in raft)
        /\ completion[j] = "gone" => inputs[j] \cap stored = {}
        /\ Out(j) \in Readable =>
              \/ Out(j) \in raft \/ Announced(j) \/ j \in exposed
              \/ job.id = j /\ job.pc = "announce"

CPInv == CPTypeOK /\ JobInv /\ UnwrittenInv /\ InputsInv /\ ListedInv /\ RowsKept

----------------------------------------------------------------------------
(* Outputs are different files, and no sources.                             *)
LEMMA OutFacts ==
    /\ \A j \in Jobs : j \in Nat /\ j # 0 /\ j <= MaxJobs /\ Out(j) \in Files /\ Out(j) \notin Sources
    /\ \A i, j \in Jobs : Out(i) = Out(j) => i = j
    /\ \A f \in Files : f \in Sources \/ \E j \in Jobs : f = Out(j)
  <1>1. Cardinality(Sources) \in Nat
    BY CompactionConstants, FS_CardinalityType
  <1>2. \A x \in Sources : x \in 1..Cardinality(Sources)
    BY CompactionConstants
  <1> QED
    BY <1>1, <1>2, CompactionConstants DEF Jobs, Out, Files

LEMMA InitInv == CPInit => CPInv
  <1> SUFFICES ASSUME CPInit PROVE CPInv
    OBVIOUS
  <1>0. \A j \in Jobs : j \in Nat /\ j # 0 /\ Out(j) \in Files /\ Out(j) \notin Sources
    BY OutFacts
  <1>1. CPTypeOK
    BY CompactionConstants DEF CPInit, CPTypeOK, Files, NoJob
  <1>2. JobInv
    BY DEF CPInit, JobInv
  <1>3. UnwrittenInv /\ InputsInv /\ ListedInv /\ RowsKept
    BY <1>0 DEF CPInit, UnwrittenInv, InputsInv, ListedInv, RowsKept, Readable, Announced, Files, NoJob
  <1> QED
    BY <1>1, <1>2, <1>3 DEF CPInv

----------------------------------------------------------------------------
(* The job of a step and what it leaves alone.                              *)

\* The record of the running job, field by field.
LEMMA JobFields ==
    ASSUME JobInv, job.pc # "none"
    PROVE  /\ job # NoJob /\ job.id = jobs /\ jobs \in Jobs /\ up /\ InBatches /\ job.pc \in Pcs
           /\ \A pc : JobMoves(pc) =>
                 job' = [pc |-> pc, id |-> jobs, files |-> job.files] /\ job'.pc = pc /\ job'.id = jobs
  BY DEF JobInv, NoJob, JobMoves

LEMMA NoJobFields == NoJob.pc = "none" /\ NoJob.id = 0
  BY DEF NoJob

\* No job is at two places.
LEMMA PcsFact == "none" \notin Pcs
  BY DEF Pcs

LEMMA SameUnwritten ==
    ASSUME UnwrittenInv, stored' \subseteq stored, UNCHANGED <<broken, completion>>,
           \A j \in Jobs : Unwritten(j)' => Unwritten(j) /\ (j \in exposed' => j \in exposed)
    PROVE  UnwrittenInv'
  BY DEF UnwrittenInv, Announced

LEMMA SameOutputs ==
    ASSUME InputsInv, RowsKept, UNCHANGED <<stored, rows, broken, inputs>>, exposed \subseteq exposed'
    PROVE  InputsInv' /\ RowsKept'
  BY DEF InputsInv, RowsKept, Readable

LEMMA SameListed ==
    ASSUME ListedInv, stored' \subseteq stored, UNCHANGED <<broken, inputs, raft, completion>>,
           registered' \subseteq registered, exposed \subseteq exposed',
           job.pc = "announce" => (job'.pc = "announce" /\ job'.id = job.id) \/ job.id \in exposed'
    PROVE  ListedInv'
  BY DEF ListedInv, Announced, Readable

LEMMA StartJobInv == CPInv /\ StartJob => CPInv'
  <1> SUFFICES ASSUME CPInv, StartJob PROVE CPInv'
    OBVIOUS
  <1> USE DEF CPInv, cp_storage, cp_cycle, cp_history
  <1>1. /\ jobs' = jobs + 1 /\ jobs' \in Jobs /\ job = NoJob
        /\ job' = [pc |-> "read", id |-> jobs', files |-> Head(Head(work))]
        /\ job'.pc = "read" /\ job'.id = jobs' /\ job.id = 0 /\ job.pc = "none"
    BY CompactionConstants DEF StartJob, CPTypeOK, Jobs, NoJob
  <1>2. /\ completion' \in [Jobs -> {"none", "writing", "written", "gone"}]
        /\ \A j \in Jobs : completion'[j] = completion[j] \/ (j = jobs' /\ completion'[j] = "writing")
    BY <1>1 DEF StartJob, CPTypeOK
  <1>3. CPTypeOK'
    BY <1>1, <1>2 DEF CPTypeOK, StartJob, Jobs
  <1>4. JobInv'
    BY <1>1 DEF JobInv, StartJob, Pcs, InBatches
  <1>5. UnwrittenInv'
    BY <1>1, <1>2, OutFacts DEF UnwrittenInv, Unwritten, Announced, StartJob, CPTypeOK
  <1>6. InputsInv' /\ RowsKept'
    BY SameOutputs DEF StartJob
  <1>7. ListedInv'
    BY <1>1, <1>2, <1>5, OutFacts DEF ListedInv, UnwrittenInv, Unwritten, Announced, Readable, StartJob, CPTypeOK
  <1> QED
    BY <1>3, <1>4, <1>5, <1>6, <1>7

LEMMA ReadInputsInv == CPInv /\ ReadInputs => CPInv'
  <1> SUFFICES ASSUME CPInv, ReadInputs PROVE CPInv'
    OBVIOUS
  <1> USE DEF CPInv, cp_storage, cp_cluster
  <1>1. /\ job # NoJob /\ job.id = jobs /\ jobs \in Jobs /\ up /\ InBatches /\ job.pc = "read"
        /\ job' = NoJob \/ job' = [pc |-> "record", id |-> jobs, files |-> job.files]
        /\ job'.pc = "none" \/ (job'.pc = "record" /\ job'.id = jobs)
        /\ job'.id \in {0, jobs}
    BY JobFields, NoJobFields DEF ReadInputs, JobAt, JobFails, JobSucceeds
  <1>2. \/ inputs' = inputs /\ job' = NoJob
        \/ \E found \in SUBSET stored : found # {} /\ inputs' = [inputs EXCEPT ![jobs] = found] /\ job'.pc = "record"
    BY <1>1, JobFields, NoJobFields DEF ReadInputs, JobAt, JobFails, JobSucceeds
  <1>3. /\ inputs' \in [Jobs -> SUBSET Files]
        /\ \A j \in Jobs : inputs'[j] = inputs[j] \/ (j = jobs /\ inputs'[j] \subseteq stored)
        /\ job' # NoJob => inputs'[jobs] # {}
        /\ \A j \in pending : inputs'[j] # {}
    <2>1. CASE inputs' = inputs /\ job' = NoJob
      BY <2>1 DEF CPTypeOK
    <2>2. CASE \E found \in SUBSET stored :
                  found # {} /\ inputs' = [inputs EXCEPT ![jobs] = found] /\ job'.pc = "record"
      <3>1. PICK found \in SUBSET stored : found # {} /\ inputs' = [inputs EXCEPT ![jobs] = found]
        BY <2>2
      <3>2. found \in SUBSET Files /\ inputs \in [Jobs -> SUBSET Files] /\ pending \subseteq Jobs
        BY DEF CPTypeOK
      <3>3. inputs' \in [Jobs -> SUBSET Files] /\ \A j \in Jobs : inputs'[j] = IF j = jobs THEN found ELSE inputs[j]
        BY <1>1, <3>1, <3>2
      <3> QED
        BY <1>1, <3>1, <3>2, <3>3 DEF CPTypeOK
    <2> QED
      BY <1>2, <2>1, <2>2
  <1>4. CPTypeOK'
    BY <1>1, <1>3, CompactionConstants DEF CPTypeOK, ReadInputs, Jobs
  <1>5. JobInv'
    <2>1. CASE job' = NoJob
      BY <2>1 DEF JobInv
    <2>2. CASE job' = [pc |-> "record", id |-> jobs, files |-> job.files]
      BY <1>1, <1>3, <2>2, PcsFact DEF JobInv, ReadInputs, Pcs, InBatches, NoJob
    <2> QED
      BY <1>1, <2>1, <2>2
  <1>6. Unwritten(jobs)
    BY <1>1 DEF Unwritten
  <1>7. UnwrittenInv'
    BY <1>1, SameUnwritten, OutFacts DEF Unwritten, ReadInputs, CPTypeOK
  <1>8. InputsInv'
    BY <1>1, <1>3, <1>6, OutFacts DEF InputsInv, UnwrittenInv, Unwritten, ReadInputs, CPTypeOK
  <1>9. RowsKept'
    BY DEF RowsKept, Readable, ReadInputs
  <1>10. ListedInv'
    BY <1>1, <1>3, <1>6 DEF ListedInv, UnwrittenInv, Announced, Readable, ReadInputs, CPTypeOK
  <1> QED
    BY <1>4, <1>5, <1>7, <1>8, <1>9, <1>10

LEMMA WriteManifestInv == CPInv /\ WriteManifest => CPInv'
  <1> SUFFICES ASSUME CPInv, WriteManifest PROVE CPInv'
    OBVIOUS
  <1> USE DEF CPInv, cp_storage, cp_cluster
  <1>1. /\ job # NoJob /\ job.id = jobs /\ jobs \in Jobs /\ up /\ InBatches /\ job.pc = "record"
        /\ job' = NoJob \/ job' = [pc |-> "upload", id |-> jobs, files |-> job.files]
        /\ job'.pc = "none" \/ (job'.pc = "upload" /\ job'.id = jobs)
        /\ job'.id \in {0, jobs}
    BY JobFields, NoJobFields DEF WriteManifest, JobAt, JobFails
  <1>2. inputs[jobs] # {} /\ pending' \subseteq pending \cup {jobs}
    BY <1>1 DEF JobInv, WriteManifest
  <1>3. CPTypeOK'
    BY <1>1, <1>2, CompactionConstants DEF CPTypeOK, WriteManifest, Jobs
  <1>4. JobInv'
    <2>1. CASE job' = NoJob
      BY <2>1 DEF JobInv
    <2>2. CASE job' = [pc |-> "upload", id |-> jobs, files |-> job.files]
      BY <1>1, <1>2, <2>2, PcsFact DEF JobInv, WriteManifest, Pcs, InBatches, NoJob
    <2> QED
      BY <1>1, <2>1, <2>2
  <1>5. UnwrittenInv'
    BY <1>1, SameUnwritten, OutFacts DEF Unwritten, WriteManifest, CPTypeOK
  <1>6. InputsInv' /\ RowsKept'
    BY SameOutputs DEF WriteManifest
  <1>7. ListedInv'
    BY <1>1, SameListed DEF WriteManifest
  <1> QED
    BY <1>3, <1>4, <1>5, <1>6, <1>7

----------------------------------------------------------------------------
(* What an upload and a deletion do to the files.                           *)

\* An upload adds the job's output, whole or not, and disturbs no other file.
LEMMA WritesFacts ==
    ASSUME CPInv, job.pc = "upload", NEW whole \in BOOLEAN, Writes(whole)
    PROVE  /\ Out(jobs) \in Files /\ Out(jobs) \notin stored \cup broken \cup Sources
           /\ jobs \in Jobs /\ jobs \notin exposed /\ ~Announced(jobs)
           /\ stored' = stored \cup {Out(jobs)}
           /\ broken' = (IF whole THEN broken ELSE broken \cup {Out(jobs)})
           /\ daily' \subseteq Files /\ twice' \subseteq Files
           /\ rows' \in [Files -> SUBSET Sources]
           /\ \A f \in Files \ {Out(jobs)} : rows'[f] = rows[f]
           /\ inputs[jobs] \subseteq Files \ {Out(jobs)}
           /\ \A f \in inputs[jobs] : rows[f] \subseteq rows'[Out(jobs)]
  <1> USE DEF CPInv
  <1>1. /\ job.id = jobs /\ jobs \in Jobs /\ Out(jobs) \in Files /\ Out(jobs) \notin Sources
    BY JobFields, OutFacts
  <1>2. /\ inputs[jobs] \subseteq Files /\ rows \in [Files -> SUBSET Sources]
        /\ daily \subseteq Files /\ twice \subseteq Files
    BY <1>1 DEF CPTypeOK
  <1>3. Out(jobs) \notin stored \cup broken /\ jobs \notin exposed /\ ~Announced(jobs)
    BY <1>1 DEF UnwrittenInv, Unwritten
  <1>4. Out(jobs) \notin inputs[jobs]
    BY <1>1, OutFacts DEF InputsInv
  <1>5. /\ stored' = stored \cup {Out(jobs)} /\ broken' = (IF whole THEN broken ELSE broken \cup {Out(jobs)})
        /\ daily' \subseteq daily \cup {Out(jobs)} /\ twice' \subseteq twice \cup {Out(jobs)}
        /\ rows' = [rows EXCEPT ![Out(jobs)] = UNION {rows[f] : f \in inputs[jobs]}]
    BY <1>1 DEF Writes
  <1>6. UNION {rows[f] : f \in inputs[jobs]} \subseteq Sources
    BY <1>2
  <1>7. /\ rows' \in [Files -> SUBSET Sources]
        /\ \A f \in Files \ {Out(jobs)} : rows'[f] = rows[f]
        /\ rows'[Out(jobs)] = UNION {rows[f] : f \in inputs[jobs]}
    BY <1>1, <1>2, <1>5, <1>6
  <1> QED
    BY <1>1, <1>2, <1>3, <1>4, <1>5, <1>7

LEMMA WritesInv ==
    ASSUME CPInv, job.pc = "upload", NEW whole \in BOOLEAN, Writes(whole),
           UNCHANGED <<inputs, raft, completion, jobs>>, registered' \subseteq registered,
           job' = NoJob \/ job' = [pc |-> "announce", id |-> jobs, files |-> job.files],
           exposed \subseteq exposed', exposed' \subseteq exposed \cup {jobs},
           whole => jobs \in exposed' \/ job' = [pc |-> "announce", id |-> jobs, files |-> job.files]
    PROVE  UnwrittenInv' /\ InputsInv' /\ ListedInv' /\ RowsKept'
  <1> USE DEF CPInv
  <1>1. /\ Out(jobs) \in Files /\ Out(jobs) \notin stored \cup broken \cup Sources
        /\ jobs \in Jobs /\ jobs \notin exposed /\ ~Announced(jobs)
        /\ stored' = stored \cup {Out(jobs)}
        /\ broken' = (IF whole THEN broken ELSE broken \cup {Out(jobs)})
        /\ \A f \in Files \ {Out(jobs)} : rows'[f] = rows[f]
        /\ inputs[jobs] \subseteq Files \ {Out(jobs)}
        /\ \A f \in inputs[jobs] : rows[f] \subseteq rows'[Out(jobs)]
    BY WritesFacts
  <1>2. /\ \A j \in Jobs : j \in Nat /\ Out(j) \in Files
        /\ \A i, j \in Jobs : Out(i) = Out(j) => i = j
        /\ stored \subseteq Files /\ exposed \subseteq Jobs
    BY OutFacts DEF CPTypeOK
  <1>3. /\ job'.pc \in {"none", "announce"} /\ (job'.pc = "announce" => job'.id = jobs)
        /\ (whole => jobs \in exposed' \/ job'.pc = "announce")
    BY NoJobFields
  <1>4. \A j \in Jobs : Out(jobs) \in inputs[j] => j > jobs
    BY <1>1, <1>2 DEF InputsInv
  <1>5. \A j \in Jobs : j > jobs => Out(j) \notin stored \cup broken /\ j \notin exposed /\ ~Announced(j)
    BY DEF UnwrittenInv, Unwritten
  <1>6. UnwrittenInv'
    <2> SUFFICES ASSUME NEW j \in Jobs, Unwritten(j)'
                 PROVE  Out(j) \notin stored' \cup broken' /\ j \notin exposed' /\ ~Announced(j)'
      BY DEF UnwrittenInv
    <2>1. j > jobs
      BY <1>3 DEF Unwritten
    <2>2. Out(j) # Out(jobs) /\ j # jobs
      BY <1>1, <1>2, <2>1
    <2> QED
      BY <1>1, <1>5, <2>1, <2>2 DEF Announced
  <1>7. InputsInv'
    <2> SUFFICES ASSUME NEW j \in Jobs
                 PROVE  /\ \A i \in Jobs : Out(i) \in inputs[j] => i < j
                        /\ Out(j) \in stored' => \A f \in inputs[j] : rows'[f] \subseteq rows'[Out(j)]
      BY DEF InputsInv
    <2>1. \A i \in Jobs : Out(i) \in inputs[j] => i < j
      BY DEF InputsInv
    <2>2. CASE j = jobs
      BY <1>1, <2>1, <2>2
    <2>3. CASE j # jobs
      <3> SUFFICES ASSUME Out(j) \in stored PROVE \A f \in inputs[j] : rows'[f] \subseteq rows'[Out(j)]
        BY <1>1, <1>2, <2>1, <2>3
      <3>1. Out(j) # Out(jobs) /\ Out(jobs) \notin inputs[j] /\ inputs[j] \subseteq Files
        BY <1>1, <1>2, <1>4, <1>5, <2>3 DEF CPTypeOK
      <3>2. \A f \in inputs[j] : rows[f] \subseteq rows[Out(j)]
        BY DEF InputsInv
      <3> QED
        BY <1>1, <1>2, <3>1, <3>2
    <2> QED
      BY <2>2, <2>3
  <1>8. ListedInv'
    <2>1. Sources \cap stored' \subseteq raft'
      BY <1>1 DEF ListedInv
    <2> SUFFICES ASSUME NEW j \in Jobs
                 PROVE  /\ j \in registered' => Announced(j) /\ (Out(j) \in stored' => Out(j) \in raft)
                        /\ completion[j] = "gone" => inputs[j] \cap stored' = {}
                        /\ Out(j) \in Readable' =>
                              Out(j) \in raft \/ Announced(j) \/ j \in exposed' \/ (job'.id = j /\ job'.pc = "announce")
      BY <2>1 DEF ListedInv, Announced
    <2>2. j \in registered' => Announced(j) /\ (Out(j) \in stored' => Out(j) \in raft)
      BY <1>1, <1>2 DEF ListedInv
    <2>3. completion[j] = "gone" => inputs[j] \cap stored' = {}
      BY <1>1, <1>4, <1>5 DEF ListedInv, Announced
    <2>4. ASSUME Out(j) \in Readable'
          PROVE  Out(j) \in raft \/ Announced(j) \/ j \in exposed' \/ (job'.id = j /\ job'.pc = "announce")
      <3>1. CASE j = jobs
        BY <1>1, <1>3, <2>4, <3>1 DEF Readable
      <3>2. CASE j # jobs
        BY <1>1, <1>2, <2>4, <3>2 DEF Readable, ListedInv
      <3> QED
        BY <3>1, <3>2
    <2> QED
      BY <2>2, <2>3, <2>4
  <1>9. RowsKept'
    <2> SUFFICES ASSUME NEW r \in Sources
                 PROVE  (\E f \in Readable' : r \in rows'[f]) \/ (\E j \in exposed' : r \in rows'[Out(j)])
      BY DEF RowsKept
    <2>1. CASE \E f \in Readable : r \in rows[f]
      <3>1. PICK f \in Readable : r \in rows[f]
        BY <2>1
      <3>2. f \in Readable' /\ f \in Files \ {Out(jobs)}
        BY <1>1, <1>2 DEF Readable
      <3> QED
        BY <1>1, <3>1, <3>2
    <2>2. CASE \E j \in exposed : r \in rows[Out(j)]
      <3>1. PICK j \in exposed : r \in rows[Out(j)]
        BY <2>2
      <3>2. j \in exposed' /\ Out(j) \in Files \ {Out(jobs)}
        BY <1>1, <1>2
      <3> QED
        BY <1>1, <3>1, <3>2
    <2> QED
      BY <2>1, <2>2 DEF RowsKept
  <1> QED
    BY <1>6, <1>7, <1>8, <1>9

\* A deletion of inputs whose output is whole keeps every row.
LEMMA DeletesInv ==
    ASSUME CPInv, NEW j \in Jobs, Out(j) \in Readable, stored' \subseteq stored,
           stored \ inputs[j] \subseteq stored', UNCHANGED <<rows, broken, inputs>>, exposed \subseteq exposed'
    PROVE  Out(j) \in Readable' /\ InputsInv' /\ RowsKept'
  <1> USE DEF CPInv
  <1>1. Out(j) \notin inputs[j] /\ Out(j) \in stored'
    BY OutFacts DEF InputsInv, Readable
  <1>2. InputsInv'
    BY DEF InputsInv
  <1>3. Out(j) \in Readable'
    BY <1>1 DEF Readable
  <1>4. ASSUME NEW r \in Sources, NEW f \in Readable, r \in rows[f]
        PROVE  \E g \in Readable' : r \in rows[g]
    <2>1. CASE f \in stored'
      BY <1>4, <2>1 DEF Readable
    <2>2. CASE f \notin stored'
      <3>1. f \in inputs[j]
        BY <2>2 DEF Readable
      <3>2. r \in rows[Out(j)]
        BY <1>4, <3>1 DEF InputsInv, Readable
      <3> QED
        BY <1>3, <3>2
    <2> QED
      BY <2>1, <2>2
  <1>5. RowsKept'
    BY <1>4 DEF RowsKept
  <1> QED
    BY <1>2, <1>3, <1>5

LEMMA UploadInv == CPInv /\ Upload => CPInv'
  <1> SUFFICES ASSUME CPInv, Upload PROVE CPInv'
    OBVIOUS
  <1> USE DEF CPInv, cp_cluster, cp_history
  <1>1. /\ job.pc = "upload" /\ job # NoJob /\ job.id = jobs /\ up /\ InBatches
        /\ job' = [pc |-> "announce", id |-> jobs, files |-> job.files]
        /\ job'.pc = "announce" /\ job'.id = jobs
    BY JobFields DEF Upload, JobAt
  <1>2. Writes(TRUE)
    BY DEF Upload
  <1>3. UnwrittenInv' /\ InputsInv' /\ ListedInv' /\ RowsKept'
    BY <1>1, <1>2, WritesInv DEF Upload
  <1>4. /\ Out(jobs) \in Files /\ Out(jobs) \notin stored \cup broken /\ jobs \in Jobs
        /\ stored' = stored \cup {Out(jobs)} /\ broken' = broken
        /\ daily' \subseteq Files /\ twice' \subseteq Files /\ rows' \in [Files -> SUBSET Sources]
    BY <1>1, <1>2, WritesFacts
  <1>5. CPTypeOK'
    BY <1>1, <1>4, CompactionConstants DEF CPTypeOK, Upload, Jobs
  <1>6. JobInv'
    BY <1>1, <1>4 DEF JobInv, Upload, Pcs, InBatches, Readable
  <1> QED
    BY <1>3, <1>5, <1>6

LEMMA UploadFailsInv == CPInv /\ UploadFails => CPInv'
  <1> SUFFICES ASSUME CPInv, UploadFails PROVE CPInv'
    OBVIOUS
  <1> USE DEF CPInv, cp_storage, cp_cluster
  <1>1. /\ job.pc = "upload" /\ job # NoJob /\ job.id = jobs /\ jobs \in Jobs
        /\ job' = NoJob /\ job'.pc = "none" /\ job'.id = 0
        /\ pending' \subseteq pending
        /\ exposed' = exposed \cup (IF Out(jobs) \in stored' \ broken' THEN {jobs} ELSE {})
    BY JobFields, NoJobFields DEF UploadFails, JobAt
  <1>2. CASE UNCHANGED cp_storage
    <2>1. exposed' = exposed
      BY <1>1, <1>2 DEF UnwrittenInv, Unwritten
    <2>2. CPTypeOK'
      BY <1>1, <1>2, <2>1, CompactionConstants DEF CPTypeOK, UploadFails
    <2>3. UnwrittenInv'
      BY <1>1, <1>2, <2>1, SameUnwritten, OutFacts DEF Unwritten, UploadFails, CPTypeOK
    <2>4. InputsInv' /\ RowsKept'
      BY <1>2, <2>1, SameOutputs DEF UploadFails
    <2>5. ListedInv'
      BY <1>1, <1>2, <2>1, SameListed DEF UploadFails
    <2> QED
      BY <1>1, <2>2, <2>3, <2>4, <2>5 DEF JobInv
  <1>3. ASSUME NEW whole \in BOOLEAN, Writes(whole) PROVE CPInv'
    <2>1. /\ Out(jobs) \in Files /\ Out(jobs) \notin stored \cup broken
          /\ stored' = stored \cup {Out(jobs)}
          /\ broken' = (IF whole THEN broken ELSE broken \cup {Out(jobs)})
          /\ daily' \subseteq Files /\ twice' \subseteq Files /\ rows' \in [Files -> SUBSET Sources]
      BY <1>1, <1>3, WritesFacts
    <2>2. whole => jobs \in exposed'
      BY <1>1, <2>1
    <2>3. UnwrittenInv' /\ InputsInv' /\ ListedInv' /\ RowsKept'
      BY <1>1, <1>3, <2>2, WritesInv DEF UploadFails
    <2>4. CPTypeOK'
      BY <1>1, <2>1, CompactionConstants DEF CPTypeOK, UploadFails
    <2> QED
      BY <1>1, <2>3, <2>4 DEF JobInv
  <1> QED
    BY <1>2, <1>3 DEF UploadFails

LEMMA OutputWrittenInv == CPInv /\ OutputWritten => CPInv'
  <1> SUFFICES ASSUME CPInv, OutputWritten PROVE CPInv'
    OBVIOUS
  <1> USE DEF CPInv, cp_history
  <1>1. /\ job.pc = "announce" /\ job # NoJob /\ job.id = jobs /\ jobs \in Jobs /\ up /\ InBatches
        /\ UNCHANGED <<stored, rows, daily, twice, broken, inputs, pending, raft, registered, up, stage, todo, jobs>>
        /\ \/ /\ job' = NoJob /\ job'.pc = "none" /\ job'.id = 0
              /\ completion' = completion /\ exposed' = exposed \cup {jobs}
           \/ /\ job' = [pc |-> "delete", id |-> jobs, files |-> job.files]
              /\ job'.pc = "delete" /\ job'.id = jobs
              /\ completion' = [completion EXCEPT ![jobs] = "written"] /\ exposed' = exposed
    BY JobFields, NoJobFields DEF OutputWritten, JobAt, JobFails
  <1>2. Out(jobs) \in Readable
    BY <1>1 DEF JobInv
  <1>3. /\ completion' \in [Jobs -> {"none", "writing", "written", "gone"}]
        /\ \A j \in Jobs : completion'[j] = completion[j] \/ (j = jobs /\ completion'[j] = "written")
        /\ completion' # completion => completion'[jobs] = "written"
        /\ completion'[jobs] = "written" \/ jobs \in exposed'
        /\ completion' = [completion EXCEPT ![jobs] = "written"] => completion'[jobs] = "written"
    BY <1>1 DEF CPTypeOK
  <1>4. CPTypeOK'
    BY <1>1, <1>3, CompactionConstants DEF CPTypeOK, Jobs
  <1>5. JobInv'
    <2>1. CASE job' = NoJob
      BY <2>1 DEF JobInv
    <2>2. CASE job' = [pc |-> "delete", id |-> jobs, files |-> job.files]
      BY <1>1, <1>2, <2>2 DEF JobInv, Pcs, InBatches, Readable, NoJob
    <2> QED
      BY <1>1, <2>1, <2>2
  <1>6. UnwrittenInv'
    BY <1>1, <1>3, OutFacts DEF UnwrittenInv, Unwritten, Announced, CPTypeOK
  <1>7. InputsInv' /\ RowsKept'
    BY <1>1, SameOutputs
  <1>8. ListedInv'
    BY <1>1, <1>3 DEF ListedInv, Announced, Readable
  <1> QED
    BY <1>4, <1>5, <1>6, <1>7, <1>8

LEMMA DeleteOldFilesInv == CPInv /\ DeleteOldFiles => CPInv'
  <1> SUFFICES ASSUME CPInv, DeleteOldFiles PROVE CPInv'
    OBVIOUS
  <1> USE DEF CPInv, cp_cluster, cp_history
  <1>1. /\ job.pc = "delete" /\ job # NoJob /\ job.id = jobs /\ jobs \in Jobs /\ up /\ InBatches
        /\ stored' \subseteq stored /\ stored \ inputs[jobs] \subseteq stored'
        /\ \/ job' = NoJob /\ job'.pc = "none" /\ job'.id = 0
           \/ /\ job' = [pc |-> "forget", id |-> jobs, files |-> job.files]
              /\ job'.pc = "forget" /\ job'.id = jobs /\ inputs[jobs] \cap stored' = {}
    BY JobFields, NoJobFields DEF DeleteOldFiles, JobAt, JobSucceeds
  <1>2. Out(jobs) \in Readable
    BY <1>1 DEF JobInv
  <1>3. Out(jobs) \in Readable' /\ InputsInv' /\ RowsKept'
    BY <1>1, <1>2, DeletesInv DEF DeleteOldFiles
  <1>4. CPTypeOK'
    BY <1>1, CompactionConstants DEF CPTypeOK, DeleteOldFiles, Jobs
  <1>5. JobInv'
    <2>1. CASE job' = NoJob
      BY <2>1 DEF JobInv
    <2>2. CASE job' = [pc |-> "forget", id |-> jobs, files |-> job.files]
      BY <1>1, <1>3, <2>2 DEF JobInv, Pcs, InBatches, DeleteOldFiles, NoJob
    <2> QED
      BY <1>1, <2>1, <2>2
  <1>6. UnwrittenInv'
    BY <1>1, SameUnwritten, OutFacts DEF Unwritten, DeleteOldFiles, CPTypeOK
  <1>7. ListedInv'
    BY <1>1, SameListed DEF DeleteOldFiles
  <1> QED
    BY <1>3, <1>4, <1>5, <1>6, <1>7

LEMMA ForgetManifestInv == CPInv /\ ForgetManifest => CPInv'
  <1> SUFFICES ASSUME CPInv, ForgetManifest PROVE CPInv'
    OBVIOUS
  <1> USE DEF CPInv, cp_storage, cp_cluster, cp_history
  <1>1. /\ job.pc = "forget" /\ job # NoJob /\ job.id = jobs /\ jobs \in Jobs /\ up /\ InBatches
        /\ job' = [pc |-> "finish", id |-> jobs, files |-> job.files]
        /\ job'.pc = "finish" /\ job'.id = jobs
    BY JobFields DEF ForgetManifest, JobAt
  <1>2. CPTypeOK'
    BY <1>1, CompactionConstants DEF CPTypeOK, ForgetManifest, Jobs
  <1>3. JobInv'
    BY <1>1 DEF JobInv, Pcs, InBatches, Readable, ForgetManifest
  <1>4. UnwrittenInv'
    BY <1>1, SameUnwritten, OutFacts DEF Unwritten, ForgetManifest, CPTypeOK
  <1>5. InputsInv' /\ RowsKept' /\ ListedInv'
    BY <1>1, SameOutputs, SameListed DEF ForgetManifest
  <1> QED
    BY <1>2, <1>3, <1>4, <1>5

LEMMA SourcesDeletedInv == CPInv /\ SourcesDeleted => CPInv'
  <1> SUFFICES ASSUME CPInv, SourcesDeleted PROVE CPInv'
    OBVIOUS
  <1> USE DEF CPInv, cp_storage, cp_history
  <1>1. /\ job.pc = "finish" /\ job # NoJob /\ job.id = jobs /\ jobs \in Jobs
        /\ job' = NoJob /\ job'.pc = "none" /\ job'.id = 0
    BY JobFields, NoJobFields DEF SourcesDeleted, JobAt, JobSucceeds
  <1>2. inputs[jobs] \cap stored = {}
    BY <1>1 DEF JobInv
  <1>3. /\ completion' \in [Jobs -> {"none", "writing", "written", "gone"}]
        /\ \A j \in Jobs : completion'[j] = completion[j] \/ (j = jobs /\ completion'[j] = "gone")
    BY <1>1 DEF CPTypeOK, SourcesDeleted
  <1>4. CPTypeOK'
    BY <1>1, <1>3, CompactionConstants DEF CPTypeOK, SourcesDeleted, Jobs
  <1>5. UnwrittenInv'
    BY <1>1, <1>3, OutFacts DEF UnwrittenInv, Unwritten, Announced, SourcesDeleted, CPTypeOK
  <1>6. InputsInv' /\ RowsKept'
    BY SameOutputs DEF SourcesDeleted
  <1>7. ListedInv'
    BY <1>1, <1>2, <1>3 DEF ListedInv, Announced, Readable, SourcesDeleted
  <1> QED
    BY <1>1, <1>4, <1>5, <1>6, <1>7 DEF JobInv

----------------------------------------------------------------------------
(* Kills and crashes, and the cluster's side.                               *)

\* A process that ends in the middle of a step leaves all but the cycle's state right.
LEMMA InterruptedInv ==
    ASSUME CPInv, Interrupted, job' = NoJob, UNCHANGED <<inputs, raft, completion, jobs>>,
           registered' \subseteq registered
    PROVE  /\ UnwrittenInv' /\ InputsInv' /\ ListedInv' /\ RowsKept'
           /\ stored' \subseteq Files /\ rows' \in [Files -> SUBSET Sources]
           /\ daily' \subseteq Files /\ twice' \subseteq Files /\ broken' \subseteq Files
           /\ exposed' \subseteq Jobs
  <1> USE DEF CPInv, cp_storage
  <1>1. job'.pc = "none" /\ job'.id = 0
    BY NoJobFields
  <1>2. /\ job.pc # "none" => job.id = jobs /\ jobs \in Jobs
        /\ exposed' = (IF job.pc = "announce" THEN exposed \cup {jobs} ELSE exposed)
    BY JobFields DEF Interrupted
  <1>3. /\ stored \subseteq Files /\ rows \in [Files -> SUBSET Sources]
        /\ daily \subseteq Files /\ twice \subseteq Files /\ broken \subseteq Files /\ exposed' \subseteq Jobs
    BY <1>2 DEF CPTypeOK
  <1>4. jobs \in Nat
    BY CompactionConstants DEF CPTypeOK
  <1>5. \A j \in Jobs : Unwritten(j)' => Unwritten(j) /\ (j \in exposed' => j \in exposed)
    BY <1>1, <1>2, <1>4, OutFacts DEF Unwritten
  <1>6. CASE UNCHANGED cp_storage
    <2>1. UnwrittenInv'
      BY <1>5, <1>6, SameUnwritten
    <2>2. InputsInv' /\ RowsKept' /\ ListedInv'
      BY <1>1, <1>2, <1>6, SameOutputs, SameListed
    <2> QED
      BY <1>3, <1>6, <2>1, <2>2
  <1>7. CASE job.pc = "upload" /\ Writes(FALSE)
    <2>1. exposed' = exposed
      BY <1>2, <1>7
    <2>2. UnwrittenInv' /\ InputsInv' /\ ListedInv' /\ RowsKept'
      BY <1>7, <2>1, WritesInv
    <2>3. /\ Out(jobs) \in Files /\ stored' = stored \cup {Out(jobs)} /\ broken' = broken \cup {Out(jobs)}
          /\ daily' \subseteq Files /\ twice' \subseteq Files /\ rows' \in [Files -> SUBSET Sources]
      BY <1>7, WritesFacts
    <2> QED
      BY <1>3, <2>2, <2>3
  <1>8. CASE /\ job.pc = "delete" /\ UNCHANGED <<rows, daily, twice, broken>>
             /\ \E left \in SUBSET inputs[job.id] : stored' = (stored \ inputs[job.id]) \cup (left \cap stored)
    <2>1. stored' \subseteq stored /\ stored \ inputs[jobs] \subseteq stored'
      BY <1>2, <1>8
    <2>2. Out(jobs) \in Readable /\ exposed' = exposed
      BY <1>2, <1>8 DEF JobInv, NoJob
    <2>3. InputsInv' /\ RowsKept'
      BY <1>2, <1>8, <2>1, <2>2, DeletesInv
    <2>4. UnwrittenInv' /\ ListedInv'
      BY <1>1, <1>2, <1>5, <1>8, <2>1, <2>2, SameUnwritten, SameListed
    <2> QED
      BY <1>3, <1>8, <2>1, <2>3, <2>4
  <1> QED
    BY <1>6, <1>7, <1>8 DEF Interrupted

LEMMA JobKilledInv == CPInv /\ JobKilled => CPInv'
  <1> SUFFICES ASSUME CPInv, JobKilled PROVE CPInv'
    OBVIOUS
  <1> USE DEF CPInv, cp_cluster
  <1>1. /\ UnwrittenInv' /\ InputsInv' /\ ListedInv' /\ RowsKept'
        /\ stored' \subseteq Files /\ rows' \in [Files -> SUBSET Sources]
        /\ daily' \subseteq Files /\ twice' \subseteq Files /\ broken' \subseteq Files
        /\ exposed' \subseteq Jobs
    BY InterruptedInv DEF JobKilled
  <1>2. CPTypeOK'
    BY <1>1, NoJobFields, CompactionConstants DEF CPTypeOK, JobKilled
  <1>3. JobInv'
    BY DEF JobInv, JobKilled
  <1> QED
    BY <1>1, <1>2, <1>3

LEMMA CrashInv == CPInv /\ Crash => CPInv'
  <1> SUFFICES ASSUME CPInv, Crash PROVE CPInv'
    OBVIOUS
  <1> USE DEF CPInv
  <1>1. /\ UnwrittenInv' /\ InputsInv' /\ ListedInv' /\ RowsKept'
        /\ stored' \subseteq Files /\ rows' \in [Files -> SUBSET Sources]
        /\ daily' \subseteq Files /\ twice' \subseteq Files /\ broken' \subseteq Files
        /\ exposed' \subseteq Jobs
    BY InterruptedInv DEF Crash
  <1>2. CPTypeOK'
    <2>1. /\ up' \in BOOLEAN /\ todo' \subseteq Jobs /\ registered' \subseteq Jobs /\ job'.id = 0
          /\ UNCHANGED <<inputs, pending, completion, raft, jobs>>
      BY NoJobFields DEF Crash
    <2> QED
      BY <1>1, <2>1, CompactionConstants DEF CPTypeOK
  <1>3. JobInv'
    BY DEF JobInv, Crash
  <1> QED
    BY <1>1, <1>2, <1>3

LEMMA ApplyCompletionInv == \A j \in Jobs : CPInv /\ ApplyCompletion(j) => CPInv'
  <1> SUFFICES ASSUME NEW j \in Jobs, CPInv, ApplyCompletion(j) PROVE CPInv'
    OBVIOUS
  <1> USE DEF CPInv, cp_storage, cp_cycle, cp_history
  <1>1. /\ Announced(j) /\ raft' = (raft \cup Registers(j)) \ Deletes(j)
        /\ UNCHANGED <<stored, rows, daily, twice, broken, inputs, pending, up, stage, todo, job, jobs, exposed>>
        /\ registered' \subseteq registered \cup {j}
        /\ \/ completion' = completion
           \/ completion[j] = "gone" /\ completion' = [completion EXCEPT ![j] = "none"] /\ j \notin registered'
    BY DEF ApplyCompletion, Announced
  <1>2. /\ completion' \in [Jobs -> {"none", "writing", "written", "gone"}]
        /\ \A i \in Jobs : completion'[i] = completion[i] \/ (i = j /\ completion'[i] = "none" /\ j \notin registered')
    BY <1>1 DEF CPTypeOK
  <1>3. Registers(j) \subseteq {Out(j)} /\ Deletes(j) \subseteq inputs[j] /\ Deletes(j) \cap stored = {}
    BY DEF Registers, Deletes, ListedInv
  <1>4. Out(j) \in stored => Out(j) \in raft'
    BY <1>1, <1>3 DEF Registers, ListedInv
  <1>5. raft \cap stored \subseteq raft' \cap stored
    BY <1>1, <1>3
  <1>6. CPTypeOK'
    BY <1>1, <1>2, <1>3, OutFacts DEF CPTypeOK
  <1>7. JobInv'
    BY <1>1 DEF JobInv, InBatches, Readable
  <1>8. UnwrittenInv'
    BY <1>1, <1>2 DEF UnwrittenInv, Unwritten, Announced
  <1>9. InputsInv' /\ RowsKept'
    BY <1>1, SameOutputs
  <1>10. ListedInv'
    BY <1>1, <1>2, <1>4, <1>5 DEF ListedInv, Announced, Readable
  <1> QED
    BY <1>6, <1>7, <1>8, <1>9, <1>10

LEMMA ReconcileInv == CPInv /\ Reconcile => CPInv'
  <1> SUFFICES ASSUME CPInv, Reconcile PROVE CPInv'
    OBVIOUS
  <1> USE DEF CPInv, cp_cycle, cp_history
  <1>1. UNCHANGED <<rows, daily, twice, broken, inputs, pending, completion, registered, up, stage,
                    todo, job, jobs, exposed>>
    BY DEF Reconcile
  <1>2. CASE OrphanStorage /\ UNCHANGED raft
    <2>1. PICK f \in stored \ (raft \cup daily) : Settled(f) /\ stored' = stored \ {f}
      BY <1>2 DEF OrphanStorage
    <2>2. PICK j \in Jobs : f = Out(j)
      BY <2>1, OutFacts DEF ListedInv, CPTypeOK
    <2>3. job.id # j /\ (Announced(j) => j \in registered)
      BY <2>1, <2>2 DEF Settled, Announced
    <2>4. f \in Readable => j \in exposed
      BY <2>1, <2>2, <2>3 DEF ListedInv
    <2>5. CPTypeOK'
      <3>1. stored' \subseteq Files /\ raft' = raft
        BY <1>2, <2>1 DEF CPTypeOK
      <3> QED
        BY <1>1, <3>1 DEF CPTypeOK
    <2>6. JobInv'
      <3>1. job # NoJob => Out(jobs) # f
        BY <2>2, <2>3, OutFacts DEF JobInv
      <3> QED
        BY <1>1, <2>1, <3>1 DEF JobInv, InBatches, Readable
    <2>7. UnwrittenInv'
      BY <1>1, <2>1, SameUnwritten DEF Unwritten
    <2>8. InputsInv'
      BY <1>1, <2>1 DEF InputsInv
    <2>9. RowsKept'
      BY <1>1, <2>1, <2>2, <2>4 DEF RowsKept, Readable
    <2>10. ListedInv'
      BY <1>1, <1>2, <2>1, SameListed
    <2> QED
      BY <2>5, <2>6, <2>7, <2>8, <2>9, <2>10
  <1>3. CASE OrphanManifest /\ UNCHANGED stored
    <2>1. PICK f \in raft \ stored : raft' = raft \ {f}
      BY <1>3 DEF OrphanManifest
    <2>2. CPTypeOK'
      BY <1>1, <1>3, <2>1 DEF CPTypeOK
    <2>3. JobInv'
      BY <1>1, <1>3 DEF JobInv, InBatches, Readable
    <2>4. UnwrittenInv' /\ InputsInv' /\ RowsKept'
      BY <1>1, <1>3, SameUnwritten, SameOutputs DEF Unwritten
    <2>5. ListedInv'
      BY <1>1, <1>3, <2>1 DEF ListedInv, Announced, Readable
    <2> QED
      BY <2>2, <2>3, <2>4, <2>5
  <1> QED
    BY <1>2, <1>3 DEF Reconcile

----------------------------------------------------------------------------
(* The cycle: what it decides in memory, and recovery.                      *)

\* A step that changes neither the files, nor the jobs, nor what is announced.
LEMMA SameFiles ==
    ASSUME CPInv, UNCHANGED <<cp_storage, inputs, pending, cp_cluster, up, job, jobs, exposed>>,
           todo' \subseteq Jobs, job # NoJob => stage' = stage
    PROVE  CPInv'
  <1> USE DEF CPInv, cp_storage, cp_cluster
  <1>1. CPTypeOK'
    BY DEF CPTypeOK
  <1>2. JobInv'
    BY DEF JobInv, InBatches, Readable
  <1>3. UnwrittenInv' /\ InputsInv' /\ RowsKept' /\ ListedInv'
    BY SameUnwritten, SameOutputs, SameListed DEF Unwritten
  <1> QED
    BY <1>1, <1>2, <1>3

LEMMA CycleInv ==
    CPInv /\ (StartCycle \/ EndRecovery \/ FindCandidates \/ EndTier \/ TooSmall) => CPInv'
  <1> SUFFICES ASSUME CPInv PROVE StartCycle \/ EndRecovery \/ FindCandidates \/ EndTier \/ TooSmall => CPInv'
    OBVIOUS
  <1> USE DEF cp_storage, cp_cluster, cp_history
  <1>1. ~InBatches => job = NoJob
    BY DEF CPInv, JobInv
  <1>2. todo \subseteq Jobs /\ pending \subseteq Jobs
    BY DEF CPInv, CPTypeOK
  <1>3. StartCycle => CPInv'
    BY <1>1, <1>2, SameFiles DEF StartCycle, InBatches
  <1>4. EndRecovery => CPInv'
    BY <1>1, <1>2, SameFiles DEF EndRecovery, InBatches
  <1>5. FindCandidates => CPInv'
    BY <1>1, <1>2, SameFiles DEF FindCandidates, InBatches
  <1>6. EndTier => CPInv'
    BY <1>2, SameFiles DEF EndTier
  <1>7. TooSmall => CPInv'
    BY <1>2, SameFiles DEF TooSmall
  <1> QED
    BY <1>3, <1>4, <1>5, <1>6, <1>7

\* Recovery removes files that are not whole, and inputs whose output it takes for whole.
LEMMA RecoverManifestInv == \A j \in Jobs : CPInv /\ RecoverManifest(j) => CPInv'
  <1> SUFFICES ASSUME NEW j \in Jobs, CPInv, RecoverManifest(j) PROVE CPInv'
    OBVIOUS
  <1> USE DEF CPInv, cp_storage, cp_cluster, cp_history
  <1>1. /\ job = NoJob /\ job' = job /\ job.pc = "none" /\ job.id = 0 /\ todo' \subseteq Jobs
        /\ UNCHANGED <<inputs, completion, raft, registered, up, jobs>>
    BY NoJobFields DEF RecoverManifest, JobInv, InBatches, CPTypeOK
  <1>2. JobInv'
    BY <1>1 DEF JobInv
  <1>3. \A i \in Jobs : Unwritten(i)' => i > jobs
    BY <1>1 DEF Unwritten
  <1>4. ASSUME UNCHANGED <<rows, daily, twice, broken, exposed>>, stored' \subseteq stored, pending' \subseteq pending,
               InputsInv', RowsKept'
        PROVE  CPInv'
    <2>1. CPTypeOK'
      BY <1>1, <1>4 DEF CPTypeOK
    <2>2. UnwrittenInv' /\ ListedInv'
      BY <1>1, <1>4, SameUnwritten, SameListed DEF Unwritten
    <2> QED
      BY <1>2, <1>4, <2>1, <2>2
  <1>5. CASE DropUnreadable(j) \/ DropUnfinished(j) \/ RecoveryError
    <2>1. UNCHANGED <<cp_storage, exposed>> /\ pending' \subseteq pending
      BY <1>5 DEF DropUnreadable, DropUnfinished, RecoveryError
    <2> QED
      BY <1>1, <1>4, <2>1, SameOutputs
  <1>6. CASE DropBroken(j)
    <2>1. /\ UNCHANGED <<rows, daily, twice, broken, exposed>> /\ pending' \subseteq pending
          /\ stored' \subseteq stored /\ stored \ broken \subseteq stored'
      BY <1>6 DEF DropBroken
    <2>2. InputsInv' /\ RowsKept'
      BY <1>1, <2>1 DEF InputsInv, RowsKept, Readable
    <2> QED
      BY <1>4, <2>1, <2>2
  <1>7. CASE FinishDeletion(j)
    <2>1. /\ UNCHANGED <<rows, daily, twice, broken, exposed>> /\ pending' \subseteq pending
          /\ stored' \subseteq stored /\ stored \ inputs[j] \subseteq stored' /\ Out(j) \in Readable
      BY <1>7 DEF FinishDeletion, Readable
    <2>2. InputsInv' /\ RowsKept'
      BY <1>1, <2>1, DeletesInv
    <2> QED
      BY <1>4, <2>1, <2>2
  <1>8. CASE SizeUnknown(j)
    <2>1. /\ UNCHANGED <<rows, daily, twice, broken>> /\ pending' \subseteq pending
          /\ stored' = stored \ inputs[j] /\ Out(j) \in stored /\ exposed' = exposed \cup {j}
      BY <1>8 DEF SizeUnknown
    <2>2. CPTypeOK'
      BY <1>1, <2>1 DEF CPTypeOK
    <2>3. j <= jobs
      <3>1. ~Unwritten(j)
        BY <2>1 DEF UnwrittenInv
      <3> QED
        BY <3>1, OutFacts, CompactionConstants DEF Unwritten, CPTypeOK
    <2>4. UnwrittenInv'
      BY <1>1, <1>3, <2>1, <2>3, SameUnwritten, OutFacts, CompactionConstants DEF Unwritten, CPTypeOK
    <2>5. InputsInv' /\ ListedInv'
      BY <1>1, <2>1, SameListed DEF InputsInv
    <2>6. RowsKept'
      <3>1. \A f \in inputs[j] : rows[f] \subseteq rows[Out(j)]
        BY <2>1 DEF InputsInv
      <3> QED
        BY <2>1, <3>1 DEF RowsKept, Readable
    <2> QED
      BY <1>2, <2>2, <2>4, <2>5, <2>6
  <1> QED
    BY <1>5, <1>6, <1>7, <1>8 DEF RecoverManifest

LEMMA RestartInv == CPInv /\ Restart => CPInv'
  <1> SUFFICES ASSUME CPInv, Restart PROVE CPInv'
    OBVIOUS
  <1> USE DEF CPInv, cp_storage, cp_history
  <1>1. /\ job = NoJob /\ UNCHANGED <<stored, rows, daily, twice, broken, inputs, pending, raft, registered,
                                      todo, job, jobs, exposed>>
    BY DEF Restart, JobInv
  <1>2. /\ completion' \in [Jobs -> {"none", "writing", "written", "gone"}] /\ up' \in BOOLEAN
        /\ \A j \in Jobs : /\ Announced(j)' <=> Announced(j)
                           /\ completion'[j] = "gone" <=> completion[j] = "gone"
    <2>1. PICK old \in SUBSET {j \in Jobs : completion[j] = "writing"} :
                  completion' = [j \in Jobs |-> IF j \in old THEN "none" ELSE completion[j]]
      BY DEF Restart
    <2> QED
      BY <2>1 DEF Restart, CPTypeOK, Announced
  <1>3. CPTypeOK' /\ JobInv'
    BY <1>1, <1>2 DEF CPTypeOK, JobInv
  <1>4. UnwrittenInv' /\ InputsInv' /\ RowsKept' /\ ListedInv'
    BY <1>1, <1>2, SameOutputs DEF UnwrittenInv, Unwritten, ListedInv, Readable
  <1> QED
    BY <1>3, <1>4

LEMMA NextInv == CPInv /\ [CPNext]_cp_vars => CPInv'
  <1> SUFFICES ASSUME CPInv PROVE [CPNext]_cp_vars => CPInv'
    OBVIOUS
  <1>1. CPNext => CPInv'
    BY CycleInv, RecoverManifestInv, ApplyCompletionInv, StartJobInv, ReadInputsInv, WriteManifestInv,
       UploadInv, UploadFailsInv, OutputWrittenInv, DeleteOldFilesInv, ForgetManifestInv,
       SourcesDeletedInv, JobKilledInv, CrashInv, RestartInv, ReconcileInv DEF CPNext
  <1>2. UNCHANGED cp_vars => CPInv'
    <2> SUFFICES ASSUME UNCHANGED cp_vars PROVE CPInv'
      OBVIOUS
    <2> QED
      BY SameFiles DEF cp_vars, cp_cycle, cp_history, CPInv, CPTypeOK
  <1> QED
    BY <1>1, <1>2

\* The inductive invariant holds of every reachable state: it says where a job stands, what an
\* output contains and which files are announced.
THEOREM CPInvariant == CPSpec => []CPInv
  BY InitInv, NextInv, PTL DEF CPSpec

----------------------------------------------------------------------------
(* The results.                                                             *)

\* The type invariant of compaction, for any number of files and jobs.
THEOREM TypeCorrect == CPSpec => []CPTypeOK
  <1>1. CPInv => CPTypeOK
    BY DEF CPInv
  <1> QED
    BY <1>1, CPInvariant, PTL

\* Compaction never loses a row, whatever fails, is killed or crashes: deleteOldFiles and
\* recovery delete inputs only beside an output that holds their rows.
THEOREM RowsKeptCorrect == CPSpec => []RowsKept
  <1>1. CPInv => RowsKept
    BY DEF CPInv
  <1> QED
    BY <1>1, CPInvariant, PTL

\* When the watcher has applied what it found, each row is in a stored file that Raft lists.
LEMMA ListedWhenQuiet == CPInv => RowsListed
  <1> SUFFICES ASSUME CPInv, Quiet, NEW r \in Sources
               PROVE  (\E f \in Readable \cap raft : r \in rows[f]) \/ (\E j \in exposed : r \in rows[Out(j)])
    BY DEF RowsListed
  <1> USE DEF CPInv
  <1>1. CASE \E f \in Readable : r \in rows[f]
    <2>1. PICK f \in Readable : r \in rows[f]
      BY <1>1
    <2>2. f \in raft \/ \E j \in exposed : f = Out(j)
      <3>1. CASE f \in Sources
        BY <3>1 DEF ListedInv, Readable
      <3>2. CASE f \notin Sources
        <4>1. PICK j \in Jobs : f = Out(j)
          BY <3>2, OutFacts DEF Readable, CPTypeOK
        <4>2. job.pc # "announce"
          BY NoJobFields DEF Quiet
        <4>3. Announced(j) => j \in registered
          BY DEF Quiet, Announced
        <4> QED
          BY <4>1, <4>2, <4>3 DEF ListedInv, Readable
      <3> QED
        BY <3>1, <3>2
    <2> QED
      BY <2>1, <2>2
  <1>2. CASE \E j \in exposed : r \in rows[Out(j)]
    BY <1>2
  <1> QED
    BY <1>1, <1>2 DEF RowsKept

\* Only the watcher and the reconciler take a file off Raft's list, both after it left storage.
LEMMA DeletedFirstStep == CPInv /\ [CPNext]_cp_vars => DeletedFirst
  <1> SUFFICES ASSUME CPInv, [CPNext]_cp_vars PROVE DeletedFirst
    OBVIOUS
  <1> USE DEF cp_storage, cp_cluster, cp_history, DeletedFirst
  <1>1. raft \subseteq Files
    BY DEF CPInv, CPTypeOK
  <1>2. ASSUME NEW j \in Jobs, ApplyCompletion(j) PROVE raft \ raft' \subseteq Files \ stored
    <2>1. raft' = (raft \cup Registers(j)) \ Deletes(j)
      BY <1>2 DEF ApplyCompletion
    <2>2. Deletes(j) \cap stored = {}
      BY DEF Deletes, CPInv, ListedInv
    <2> QED
      BY <1>1, <2>1, <2>2
  <1>3. CASE Reconcile
    BY <1>1, <1>3 DEF Reconcile, OrphanManifest
  <1>4. CASE \E j \in Jobs : RecoverManifest(j)
    BY <1>4 DEF RecoverManifest
  <1>5. CASE StartCycle \/ EndRecovery \/ FindCandidates \/ EndTier \/ TooSmall
    BY <1>5 DEF StartCycle, EndRecovery, FindCandidates, EndTier, TooSmall
  <1>6. CASE StartJob \/ ReadInputs \/ WriteManifest \/ Upload \/ UploadFails \/ OutputWritten
    BY <1>6 DEF StartJob, ReadInputs, WriteManifest, Upload, UploadFails, OutputWritten
  <1>7. CASE DeleteOldFiles \/ ForgetManifest \/ SourcesDeleted \/ JobKilled \/ Crash \/ Restart
    BY <1>7 DEF DeleteOldFiles, ForgetManifest, SourcesDeleted, JobKilled, Crash, Restart
  <1>8. CASE UNCHANGED cp_vars
    BY <1>8 DEF cp_vars
  <1> QED
    BY <1>2, <1>3, <1>4, <1>5, <1>6, <1>7, <1>8 DEF CPNext

\* Raft's list follows storage: ListedAsStored, that is RowsListed after every step of the
\* compactor, the watcher and the reconciler, and no file off the list before it is deleted.
THEOREM ListedAsStoredCorrect == CPSpec => ListedAsStored
  <1>1. CPInv' => RowsListed'
    BY ListedWhenQuiet, PTL
  <1>2. CPInv /\ [CPNext]_cp_vars => [RowsListed' /\ DeletedFirst]_cp_vars
    BY <1>1, NextInv, DeletedFirstStep
  <1> QED
    BY <1>2, CPInvariant, PTL DEF CPSpec, ListedAsStored

----------------------------------------------------------------------------
(* Once per row: the places of files in the batches of a cycle.             *)
\* The files of all the pieces of a list of batches, and that no two places hold the same file.
FilesOf(w) == UNION {UNION {ToSet(w[i][k]) : k \in DOMAIN w[i]} : i \in DOMAIN w}
Apart(w) ==
    \A i, j \in DOMAIN w : \A k \in DOMAIN w[i], l \in DOMAIN w[j] :
        \A m \in DOMAIN w[i][k], n \in DOMAIN w[j][l] :
            w[i][k][m] = w[j][l][n] => i = j /\ k = l /\ m = n
Batches(w) == w \in Seq(Seq(Seq(Files)) \ {<<>>}) /\ Apart(w)

LEMMA InFiles ==
    ASSUME NEW w, NEW f
    PROVE  f \in FilesOf(w) <=> \E i \in DOMAIN w : \E k \in DOMAIN w[i] : \E m \in DOMAIN w[i][k] : f = w[i][k][m]
  BY DEF FilesOf, ToSet

LEMMA TailFacts ==
    ASSUME NEW S, NEW s \in Seq(S), s # <<>>
    PROVE  /\ Tail(s) \in Seq(S) /\ Len(s) \in Nat \ {0} /\ DOMAIN s = 1..Len(s)
           /\ Len(Tail(s)) = Len(s) - 1 /\ DOMAIN Tail(s) = 1..(Len(s) - 1)
           /\ Head(s) = s[1] /\ 1 \in DOMAIN s
           /\ \A i \in DOMAIN Tail(s) : i \in Nat \ {0} /\ i + 1 \in DOMAIN s /\ Tail(s)[i] = s[i + 1]
  <1>1. Tail(s) \in Seq(S) /\ Len(s) \in Nat \ {0} /\ Len(Tail(s)) = Len(s) - 1 /\ DOMAIN s = 1..Len(s)
    BY HeadTailProperties, EmptySeq, LenProperties
  <1>2. DOMAIN Tail(s) = 1..(Len(s) - 1)
    BY <1>1, LenProperties
  <1>3. \A i \in 1..Len(Tail(s)) : Tail(s)[i] = s[i + 1]
    BY HeadTailProperties
  <1> QED
    BY <1>1, <1>2, <1>3

LEMMA PrependFacts ==
    ASSUME NEW S, NEW x \in S, NEW t \in Seq(S)
    PROVE  /\ <<x>> \o t \in Seq(S) /\ DOMAIN (<<x>> \o t) = 1..(Len(t) + 1)
           /\ (<<x>> \o t)[1] = x
           /\ \A i \in 1..(Len(t) + 1) : i # 1 => i - 1 \in 1..Len(t) /\ (<<x>> \o t)[i] = t[i - 1]
  <1> DEFINE s == <<x>>
             c == s \o t
  <1>1. s \in Seq(S) /\ Len(s) = 1 /\ s[1] = x /\ Len(t) \in Nat
    BY LenProperties
  <1> HIDE DEF s
  <1>2. /\ c \in Seq(S) /\ Len(c) = Len(s) + Len(t)
        /\ \A i \in 1..(Len(s) + Len(t)) : c[i] = IF i <= Len(s) THEN s[i] ELSE t[i - Len(s)]
    BY <1>1, ConcatProperties
  <1>3. DOMAIN c = 1..Len(c)
    BY <1>2, LenProperties
  <1> HIDE DEF c
  <1>4. /\ c \in Seq(S) /\ DOMAIN c = 1..(Len(t) + 1) /\ c[1] = x
        /\ \A i \in 1..(Len(t) + 1) : i # 1 => i - 1 \in 1..Len(t) /\ c[i] = t[i - 1]
    BY <1>1, <1>2, <1>3
  <1> QED
    BY <1>4 DEF c, s

\* The first batch goes.
LEMMA TailBatches ==
    ASSUME NEW w, Batches(w), w # <<>>
    PROVE  /\ Batches(Tail(w)) /\ FilesOf(Tail(w)) \subseteq FilesOf(w)
           /\ FilesOf(Tail(w)) \cap ToSet(Head(Head(w))) = {}
           /\ ToSet(Head(Head(w))) \subseteq FilesOf(w)
  <1> DEFINE B == Seq(Seq(Files)) \ {<<>>}
             v == Tail(w)
             head == Head(Head(w))
  <1>1. /\ v \in Seq(B) /\ Head(w) = w[1] /\ 1 \in DOMAIN w
        /\ \A i \in DOMAIN v : i \in Nat \ {0} /\ i + 1 \in DOMAIN w /\ v[i] = w[i + 1]
    BY TailFacts DEF Batches
  <1>2. w[1] \in Seq(Seq(Files)) /\ w[1] # <<>>
    BY <1>1, ElementOfSeq, LenProperties DEF Batches
  <1>3. 1 \in DOMAIN w[1] /\ head = w[1][1]
    BY <1>1, <1>2, TailFacts
  <1>4. Apart(w)
    BY DEF Batches
  <1> HIDE DEF v, head
  <1>5. Apart(v)
    <2> SUFFICES ASSUME NEW i \in DOMAIN v, NEW j \in DOMAIN v, NEW k \in DOMAIN v[i], NEW l \in DOMAIN v[j],
                        NEW m \in DOMAIN v[i][k], NEW n \in DOMAIN v[j][l], v[i][k][m] = v[j][l][n]
                 PROVE  i = j /\ k = l /\ m = n
      BY DEF Apart
    <2>1. i + 1 \in DOMAIN w /\ j + 1 \in DOMAIN w /\ v[i] = w[i + 1] /\ v[j] = w[j + 1] /\ i \in Nat /\ j \in Nat
      BY <1>1
    <2>2. i + 1 = j + 1 /\ k = l /\ m = n
      BY <1>4, <2>1 DEF Apart
    <2> QED
      BY <2>1, <2>2
  <1>6. ASSUME NEW f \in FilesOf(v) PROVE f \in FilesOf(w) /\ f \notin ToSet(head)
    <2>a. PICK i \in DOMAIN v : \E k \in DOMAIN v[i] : \E m \in DOMAIN v[i][k] : f = v[i][k][m]
      BY <1>6, InFiles
    <2>b. PICK k \in DOMAIN v[i] : \E m \in DOMAIN v[i][k] : f = v[i][k][m]
      BY <2>a
    <2>1. PICK m \in DOMAIN v[i][k] : f = v[i][k][m]
      BY <2>b
    <2>2. i + 1 \in DOMAIN w /\ v[i] = w[i + 1] /\ i \in Nat \ {0}
      BY <1>1
    <2>3. f \in FilesOf(w)
      BY <2>1, <2>2, InFiles
    <2>4. ASSUME NEW n \in DOMAIN w[1][1], f = w[1][1][n] PROVE FALSE
      <3>1. i + 1 = 1
        BY <1>1, <1>3, <1>4, <2>1, <2>2, <2>4 DEF Apart
      <3> QED
        BY <2>2, <3>1
    <2> QED
      BY <1>3, <2>3, <2>4 DEF ToSet
  <1>7. ToSet(head) \subseteq FilesOf(w)
    BY <1>1, <1>3, InFiles DEF ToSet
  <1> QED
    BY <1>1, <1>5, <1>6, <1>7 DEF Batches, v, head

\* The head of the first batch has succeeded.
LEMMA SucceededBatches ==
    ASSUME Batches(work), work # <<>>
    PROVE  Batches(Succeeded) /\ FilesOf(Succeeded) \subseteq FilesOf(work) \ ToSet(Head(Head(work)))
  <1> DEFINE B == Seq(Seq(Files)) \ {<<>>}
             v == <<Tail(Head(work))>> \o Tail(work)
             head == Head(Head(work))
             rest == Tail(work[1])
             others == Tail(work)
             K(i, k) == IF i = 1 THEN k + 1 ELSE k
  <1>1. CASE Len(Head(work)) = 1
    BY <1>1, TailBatches DEF Succeeded
  <1>2. CASE Len(Head(work)) # 1
    <2>1. /\ others \in Seq(B) /\ Len(others) = Len(work) - 1 /\ Len(work) \in Nat \ {0}
          /\ DOMAIN work = 1..Len(work) /\ Head(work) = work[1] /\ 1 \in DOMAIN work
          /\ DOMAIN others = 1..(Len(work) - 1)
          /\ \A i \in DOMAIN others : others[i] = work[i + 1]
      BY TailFacts DEF Batches
    <2>2. \A i \in DOMAIN work : work[i] \in B
      BY ElementOfSeq, <2>1 DEF Batches
    <2>3. work[1] \in Seq(Seq(Files)) /\ work[1] # <<>>
      BY <2>1, <2>2
    <2>4. /\ rest \in Seq(Seq(Files)) /\ Len(rest) = Len(work[1]) - 1 /\ DOMAIN rest = 1..(Len(work[1]) - 1)
          /\ head = work[1][1] /\ 1 \in DOMAIN work[1] /\ Len(work[1]) \in Nat \ {0}
          /\ \A k \in DOMAIN rest : k \in Nat \ {0} /\ k + 1 \in DOMAIN work[1] /\ rest[k] = work[1][k + 1]
      BY <2>1, <2>3, TailFacts
    <2>a. v = <<rest>> \o others
      BY <2>1
    <2> HIDE DEF rest, others, v, head
    <2>5. rest \in B
      <3>1. Len(work[1]) # 1
        BY <1>2, <2>1
      <3>2. Len(rest) # 0
        BY <2>4, <3>1
      <3> QED
        BY <2>4, <3>2, EmptySeq
    <2>6. /\ v \in Seq(B) /\ DOMAIN v = DOMAIN work /\ v[1] = rest
          /\ \A i \in 1..Len(work) : i # 1 => i - 1 \in 1..Len(others) /\ v[i] = others[i - 1]
      BY <2>1, <2>5, <2>a, PrependFacts
    <2>7. \A i \in DOMAIN work : i # 1 => v[i] = work[i]
      <3> SUFFICES ASSUME NEW i \in 1..Len(work), i # 1 PROVE v[i] = work[i]
        BY <2>1
      <3>1. i - 1 \in DOMAIN others /\ (i - 1) + 1 = i
        BY <2>1
      <3>2. v[i] = others[i - 1] /\ others[i - 1] = work[(i - 1) + 1]
        BY <2>1, <2>6, <3>1
      <3> QED
        BY <3>1, <3>2
    <2>8. ASSUME NEW i \in DOMAIN v, NEW k \in DOMAIN v[i]
          PROVE  /\ i \in DOMAIN work /\ K(i, k) \in DOMAIN work[i] /\ v[i][k] = work[i][K(i, k)]
                 /\ k \in Nat \ {0} /\ (i = 1 => K(i, k) # 1)
      <3>1. CASE i = 1
        <4>1. v[i] = rest /\ k \in DOMAIN rest
          BY <2>6, <3>1
        <4>2. K(i, k) = k + 1
          BY <3>1
        <4>3. k \in Nat \ {0} /\ k + 1 \in DOMAIN work[1] /\ rest[k] = work[1][k + 1]
          BY <2>4, <4>1
        <4> QED
          BY <2>1, <3>1, <4>1, <4>2, <4>3
      <3>2. CASE i # 1
        <4>1. v[i] = work[i] /\ work[i] \in Seq(Seq(Files))
          BY <2>2, <2>6, <2>7, <3>2
        <4>2. DOMAIN work[i] = 1..Len(work[i])
          BY <4>1, LenProperties
        <4> QED
          BY <2>6, <3>2, <4>1, <4>2
      <3> QED
        BY <3>1, <3>2
    <2>9. Apart(work)
      BY DEF Batches
    <2>10. Apart(v)
      <3> SUFFICES ASSUME NEW i \in DOMAIN v, NEW j \in DOMAIN v, NEW k \in DOMAIN v[i], NEW l \in DOMAIN v[j],
                          NEW m \in DOMAIN v[i][k], NEW n \in DOMAIN v[j][l], v[i][k][m] = v[j][l][n]
                   PROVE  i = j /\ k = l /\ m = n
        BY DEF Apart
      <3>1. /\ i \in DOMAIN work /\ K(i, k) \in DOMAIN work[i] /\ v[i][k] = work[i][K(i, k)] /\ k \in Nat
            /\ j \in DOMAIN work /\ K(j, l) \in DOMAIN work[j] /\ v[j][l] = work[j][K(j, l)] /\ l \in Nat
        BY <2>8
      <3> HIDE DEF K
      <3>2. i = j /\ K(i, k) = K(j, l) /\ m = n
        BY <2>9, <3>1 DEF Apart
      <3> QED
        BY <3>1, <3>2 DEF K
    <2>11. ASSUME NEW f \in FilesOf(v) PROVE f \in FilesOf(work) /\ f \notin ToSet(head)
      <3>a. PICK i \in DOMAIN v : \E k \in DOMAIN v[i] : \E m \in DOMAIN v[i][k] : f = v[i][k][m]
        BY <2>11, InFiles
      <3>b. PICK k \in DOMAIN v[i] : \E m \in DOMAIN v[i][k] : f = v[i][k][m]
        BY <3>a
      <3>1. PICK m \in DOMAIN v[i][k] : f = v[i][k][m]
        BY <3>b
      <3>2. /\ i \in DOMAIN work /\ K(i, k) \in DOMAIN work[i] /\ v[i][k] = work[i][K(i, k)]
            /\ (i = 1 => K(i, k) # 1)
        BY <2>8
      <3> HIDE DEF K
      <3>3. f \in FilesOf(work)
        BY <3>1, <3>2, InFiles
      <3>4. ASSUME NEW n \in DOMAIN work[1][1], f = work[1][1][n] PROVE FALSE
        <4>a. PICK p : p = K(i, k)
          OBVIOUS
        <4>b. p \in DOMAIN work[i] /\ m \in DOMAIN work[i][p] /\ work[i][p][m] = work[1][1][n] /\ i \in DOMAIN work
          BY <3>1, <3>2, <3>4, <4>a
        <4>c. 1 \in DOMAIN work /\ 1 \in DOMAIN work[1] /\ n \in DOMAIN work[1][1]
          BY <2>1, <2>4, <3>4
        <4>1. i = 1 /\ K(i, k) = 1
          BY <2>9, <4>a, <4>b, <4>c DEF Apart
        <4> QED
          BY <3>2, <4>1
      <3> QED
        BY <2>4, <3>3, <3>4 DEF ToSet
    <2> QED
      BY <1>2, <2>6, <2>10, <2>11 DEF Succeeded, Batches, v, head, others
  <1> QED
    BY <1>1, <1>2

\* A failed piece is replaced by its halves, or its batch is given up.
LEMMA FailedBatches ==
    ASSUME Batches(work), work # <<>>, NEW files, files = Head(Head(work))
    PROVE  /\ Batches(Failed(files)) /\ FilesOf(Failed(files)) \subseteq FilesOf(work)
           /\ Len(files) > 2 \/ FilesOf(Failed(files)) \cap ToSet(files) = {}
  <1> DEFINE B == Seq(Seq(Files)) \ {<<>>}
             h == Len(files) \div 2
             first == SubSeq(files, 1, h)
             second == SubSeq(files, h + 1, Len(files))
             halves == <<first, second>>
             rest == Tail(work[1])
             others == Tail(work)
             pieces == halves \o rest
             v == <<pieces>> \o others
             K(i, k) == IF i = 1 THEN (IF k <= 2 THEN 1 ELSE k - 1) ELSE k
             M(i, k, m) == IF i = 1 /\ k = 2 THEN m + h ELSE m
  <1>1. /\ others \in Seq(B) /\ Len(others) = Len(work) - 1 /\ Len(work) \in Nat \ {0}
        /\ DOMAIN work = 1..Len(work) /\ Head(work) = work[1] /\ 1 \in DOMAIN work
        /\ DOMAIN others = 1..(Len(work) - 1)
        /\ \A i \in DOMAIN others : others[i] = work[i + 1]
    BY TailFacts DEF Batches
  <1>2. \A i \in DOMAIN work : work[i] \in B
    BY ElementOfSeq, <1>1 DEF Batches
  <1>3. work[1] \in Seq(Seq(Files)) /\ work[1] # <<>>
    BY <1>1, <1>2
  <1>4. /\ rest \in Seq(Seq(Files)) /\ Len(rest) = Len(work[1]) - 1 /\ DOMAIN rest = 1..(Len(work[1]) - 1)
        /\ files = work[1][1] /\ 1 \in DOMAIN work[1] /\ Len(work[1]) \in Nat \ {0} /\ DOMAIN work[1] = 1..Len(work[1])
        /\ \A k \in DOMAIN rest : k \in Nat \ {0} /\ k + 1 \in DOMAIN work[1] /\ rest[k] = work[1][k + 1]
    BY <1>1, <1>3, TailFacts
  <1>5. files \in Seq(Files) /\ Len(files) \in Nat /\ DOMAIN files = 1..Len(files)
    BY <1>3, <1>4, ElementOfSeq, LenProperties
  <1>6. h \in Nat /\ h <= Len(files)
    <2>1. \A n \in Nat : n \div 2 \in Nat /\ n \div 2 <= n
      OBVIOUS
    <2> QED
      BY <1>5, <2>1
  <1> HIDE DEF h
  <1>7. \A i \in 1..Len(files) : files[i] \in Files
    BY <1>5, ElementOfSeq
  <1>8. /\ first \in Seq(Files) /\ Len(first) = h /\ DOMAIN first = 1..h
        /\ \A m \in 1..h : m \in DOMAIN files /\ first[m] = files[m]
    <2>1. /\ first \in Seq(Files)
          /\ Len(first) = (IF 1 <= h THEN h - 1 + 1 ELSE 0)
          /\ \A m \in 1..(h - 1 + 1) : first[m] = files[1 + m - 1]
      BY <1>5, <1>6, <1>7, SubSeqProperties
    <2> HIDE DEF first
    <2>2. DOMAIN first = 1..Len(first) /\ Len(first) = h
      BY <1>6, <2>1, LenProperties
    <2>3. ASSUME NEW m \in 1..h PROVE m \in DOMAIN files /\ first[m] = files[m]
      <3>1. m \in 1..(h - 1 + 1) /\ 1 + m - 1 = m /\ m \in DOMAIN files
        BY <1>5, <1>6
      <3> QED
        BY <2>1, <3>1
    <2> QED
      BY <2>1, <2>2, <2>3
  <1>9. /\ second \in Seq(Files) /\ DOMAIN second = 1..(Len(files) - h)
        /\ \A m \in 1..(Len(files) - h) : m + h \in DOMAIN files /\ second[m] = files[m + h]
    <2>1. /\ second \in Seq(Files)
          /\ Len(second) = (IF h + 1 <= Len(files) THEN Len(files) - (h + 1) + 1 ELSE 0)
          /\ \A m \in 1..(Len(files) - (h + 1) + 1) : second[m] = files[(h + 1) + m - 1]
      BY <1>5, <1>6, <1>7, SubSeqProperties
    <2> HIDE DEF second
    <2>2. DOMAIN second = 1..Len(second) /\ Len(second) = Len(files) - h
      BY <1>5, <1>6, <2>1, LenProperties
    <2>3. ASSUME NEW m \in 1..(Len(files) - h) PROVE m + h \in DOMAIN files /\ second[m] = files[m + h]
      <3>1. m \in 1..(Len(files) - (h + 1) + 1) /\ (h + 1) + m - 1 = m + h /\ m + h \in DOMAIN files
        BY <1>5, <1>6
      <3> QED
        BY <2>1, <3>1
    <2> QED
      BY <2>1, <2>2, <2>3
  <1> HIDE DEF first, second, rest, others
  <1>10. halves \in Seq(Seq(Files)) /\ Len(halves) = 2 /\ halves[1] = first /\ halves[2] = second
    BY <1>8, <1>9
  <1> HIDE DEF halves
  <1>11. /\ pieces \in Seq(Seq(Files)) /\ Len(pieces) = Len(work[1]) + 1
         /\ pieces[1] = first /\ pieces[2] = second
         /\ \A k \in 3..(Len(work[1]) + 1) : pieces[k] = work[1][k - 1]
    <2>1. /\ pieces \in Seq(Seq(Files)) /\ Len(pieces) = Len(halves) + Len(rest)
          /\ \A k \in 1..(Len(halves) + Len(rest)) :
                pieces[k] = IF k <= Len(halves) THEN halves[k] ELSE rest[k - Len(halves)]
      <3>1. halves \in Seq(Seq(Files)) /\ rest \in Seq(Seq(Files))
        BY <1>4, <1>10
      <3> QED
        BY <3>1, ConcatProperties
    <2> HIDE DEF pieces
    <2>2. \A k \in 3..(Len(work[1]) + 1) : pieces[k] = work[1][k - 1]
      <3> SUFFICES ASSUME NEW k \in 3..(Len(work[1]) + 1) PROVE pieces[k] = work[1][k - 1]
        OBVIOUS
      <3>1. k \in 1..(Len(halves) + Len(rest)) /\ ~(k <= Len(halves)) /\ k - Len(halves) \in DOMAIN rest
            /\ (k - Len(halves)) + 1 = k - 1
        BY <1>4, <1>10
      <3>2. pieces[k] = rest[k - Len(halves)] /\ rest[k - Len(halves)] = work[1][(k - Len(halves)) + 1]
        BY <1>4, <2>1, <3>1
      <3> QED
        BY <3>1, <3>2
    <2>3. /\ Len(halves) + Len(rest) = Len(work[1]) + 1
          /\ 1 \in 1..(Len(halves) + Len(rest))
          /\ 2 \in 1..(Len(halves) + Len(rest))
      BY <1>4, <1>10
    <2> QED
      BY <1>10, <2>1, <2>2, <2>3
  <1> HIDE DEF pieces
  <1>12. pieces \in B /\ DOMAIN pieces = 1..(Len(work[1]) + 1)
    BY <1>4, <1>11, EmptySeq, LenProperties
  <1>13. /\ v \in Seq(B) /\ DOMAIN v = DOMAIN work /\ v[1] = pieces
         /\ \A i \in 1..Len(work) : i # 1 => i - 1 \in 1..Len(others) /\ v[i] = others[i - 1]
    BY <1>1, <1>12, PrependFacts
  <1> HIDE DEF v
  <1>14. \A i \in DOMAIN work : i # 1 => v[i] = work[i]
    <2> SUFFICES ASSUME NEW i \in 1..Len(work), i # 1 PROVE v[i] = work[i]
      BY <1>1
    <2>1. i - 1 \in DOMAIN others /\ (i - 1) + 1 = i
      BY <1>1
    <2>2. v[i] = others[i - 1] /\ others[i - 1] = work[(i - 1) + 1]
      BY <1>1, <1>13, <2>1
    <2> QED
      BY <2>1, <2>2
  <1>15. ASSUME NEW i \in DOMAIN v, NEW k \in DOMAIN v[i], NEW m \in DOMAIN v[i][k]
         PROVE  /\ i \in DOMAIN work /\ K(i, k) \in DOMAIN work[i] /\ M(i, k, m) \in DOMAIN work[i][K(i, k)]
                /\ v[i][k][m] = work[i][K(i, k)][M(i, k, m)]
                /\ i = 1 => k \in Nat \ {0} /\ m \in Int /\ (k = 1 => m <= h) /\ (k = 2 => m > 0)
    <2>1. CASE i = 1
      <3>1. v[i] = pieces /\ k \in 1..(Len(work[1]) + 1)
        BY <1>12, <1>13, <2>1
      <3>2. CASE k = 1
        <4>1. v[i][k] = first /\ m \in 1..h /\ K(i, k) = 1 /\ M(i, k, m) = m
          BY <1>8, <1>11, <2>1, <3>1, <3>2
        <4> QED
          BY <1>1, <1>4, <1>6, <1>8, <2>1, <3>2, <4>1
      <3>3. CASE k = 2
        <4>1. v[i][k] = second /\ DOMAIN v[i][k] = 1..(Len(files) - h)
          BY <1>9, <1>11, <3>1, <3>3
        <4>2. m \in 1..(Len(files) - h)
          BY <4>1
        <4>3. K(i, k) = 1 /\ M(i, k, m) = m + h
          BY <2>1, <3>3
        <4>4. m + h \in DOMAIN files /\ second[m] = files[m + h]
          BY <1>9, <4>2
        <4>5. m \in Int /\ m > 0
          BY <1>5, <1>6, <4>2
        <4>6. v[i][k][m] = work[1][1][m + h] /\ m + h \in DOMAIN work[1][1]
          BY <1>4, <4>1, <4>4
        <4> QED
          BY <1>1, <1>4, <2>1, <3>3, <4>3, <4>5, <4>6
      <3>4. CASE k # 1 /\ k # 2
        <4>1. k \in 3..(Len(work[1]) + 1) /\ K(i, k) = k - 1 /\ M(i, k, m) = m
          BY <1>4, <2>1, <3>1, <3>4
        <4>2. v[i][k] = work[1][k - 1] /\ k - 1 \in DOMAIN work[1]
          <5>1. v[i][k] = pieces[k] /\ pieces[k] = work[1][k - 1]
            BY <1>11, <3>1, <4>1
          <5>2. k - 1 \in DOMAIN work[1]
            BY <1>4, <4>1
          <5> QED
            BY <5>1, <5>2
        <4>3. work[1][k - 1] \in Seq(Files)
          BY <1>3, <1>4, <4>2, ElementOfSeq
        <4>4. m \in Int
          BY <4>2, <4>3, LenProperties
        <4> QED
          BY <1>1, <2>1, <3>4, <4>1, <4>2, <4>4
      <3> QED
        BY <3>2, <3>3, <3>4
    <2>2. CASE i # 1
      <3>1. v[i] = work[i] /\ i \in DOMAIN work /\ K(i, k) = k /\ M(i, k, m) = m
        BY <1>13, <1>14, <2>2
      <3> QED
        BY <2>2, <3>1
    <2> QED
      BY <2>1, <2>2
  <1>16. Apart(work)
    BY DEF Batches
  <1>17. Apart(v)
    <2> SUFFICES ASSUME NEW i \in DOMAIN v, NEW j \in DOMAIN v, NEW k \in DOMAIN v[i], NEW l \in DOMAIN v[j],
                        NEW m \in DOMAIN v[i][k], NEW n \in DOMAIN v[j][l], v[i][k][m] = v[j][l][n]
                 PROVE  i = j /\ k = l /\ m = n
      BY DEF Apart
    <2>1. /\ i \in DOMAIN work /\ K(i, k) \in DOMAIN work[i] /\ M(i, k, m) \in DOMAIN work[i][K(i, k)]
          /\ v[i][k][m] = work[i][K(i, k)][M(i, k, m)]
          /\ i = 1 => k \in Nat \ {0} /\ m \in Int /\ (k = 1 => m <= h) /\ (k = 2 => m > 0)
      BY <1>15
    <2>2. /\ j \in DOMAIN work /\ K(j, l) \in DOMAIN work[j] /\ M(j, l, n) \in DOMAIN work[j][K(j, l)]
          /\ v[j][l][n] = work[j][K(j, l)][M(j, l, n)]
          /\ j = 1 => l \in Nat \ {0} /\ n \in Int /\ (l = 1 => n <= h) /\ (l = 2 => n > 0)
      BY <1>15
    <2>3. i = j /\ K(i, k) = K(j, l) /\ M(i, k, m) = M(j, l, n)
      <3>1. PICK p, q : p = K(i, k) /\ q = M(i, k, m)
        OBVIOUS
      <3>2. PICK r, s : r = K(j, l) /\ s = M(j, l, n)
        OBVIOUS
      <3> HIDE DEF K, M
      <3>3. p \in DOMAIN work[i] /\ q \in DOMAIN work[i][p] /\ r \in DOMAIN work[j] /\ s \in DOMAIN work[j][r]
            /\ work[i][p][q] = work[j][r][s]
        BY <2>1, <2>2, <3>1, <3>2
      <3>4. i = j /\ p = r /\ q = s
        BY <1>16, <2>1, <2>2, <3>3 DEF Apart
      <3> QED
        BY <3>1, <3>2, <3>4
    <2> QED
      BY <1>6, <2>1, <2>2, <2>3
  <1>18. ASSUME NEW f \in FilesOf(v) PROVE f \in FilesOf(work)
    <2>1. PICK i \in DOMAIN v : \E k \in DOMAIN v[i] : \E m \in DOMAIN v[i][k] : f = v[i][k][m]
      BY <1>18, InFiles
    <2>2. PICK k \in DOMAIN v[i] : \E m \in DOMAIN v[i][k] : f = v[i][k][m]
      BY <2>1
    <2>3. PICK m \in DOMAIN v[i][k] : f = v[i][k][m]
      BY <2>2
    <2>4. /\ i \in DOMAIN work /\ K(i, k) \in DOMAIN work[i] /\ M(i, k, m) \in DOMAIN work[i][K(i, k)]
          /\ v[i][k][m] = work[i][K(i, k)][M(i, k, m)]
      BY <1>15
    <2> HIDE DEF K, M
    <2> QED
      BY <2>3, <2>4, InFiles
  <1>19. CASE Len(files) > 2
    <2>1. Failed(files) = v
      BY <1>1, <1>19 DEF Failed, v, pieces, halves, first, second, rest, others, h
    <2> QED
      BY <1>13, <1>17, <1>18, <1>19, <2>1 DEF Batches
  <1>20. CASE ~(Len(files) > 2)
    <2>1. Failed(files) = Tail(work)
      BY <1>20 DEF Failed
    <2> QED
      BY <2>1, TailBatches
  <1> QED
    BY <1>19, <1>20

----------------------------------------------------------------------------
(* The listing of files and its division into batches.                      *)
LEMMA FilesFacts == Files \subseteq Nat /\ IsFiniteSet(Files)
  <1>1. Cardinality(Sources) \in Nat /\ MaxJobs \in Nat /\ Sources = 1..Cardinality(Sources)
    BY CompactionConstants, FS_CardinalityType
  <1>2. \A f \in Files : f \in Nat /\ f <= Cardinality(Sources) + MaxJobs
    BY <1>1 DEF Files, Out, Jobs
  <1>3. Files \in SUBSET Nat /\ Cardinality(Sources) + MaxJobs \in Nat
    BY <1>1, <1>2
  <1> QED
    BY <1>2, <1>3, FS_BoundedSetOfNaturals

\* The listing of a set of files holds each of its files once.
LEMMA ListingFacts ==
    ASSUME NEW S \in SUBSET Files
    PROVE  /\ ListingOf(S) \in Seq(Files)
           /\ \A i \in DOMAIN ListingOf(S) : ListingOf(S)[i] \in S
           /\ \A i, j \in DOMAIN ListingOf(S) : ListingOf(S)[i] = ListingOf(S)[j] => i = j
  <1> DEFINE n == Cardinality(S)
             Before(f) == {g \in S : g < f}
             rank == [f \in S |-> Cardinality(Before(f)) + 1]
             L == ListingOf(S)
  <1>1. S \subseteq Nat /\ IsFiniteSet(S) /\ n \in Nat
    BY FilesFacts, FS_Subset, FS_CardinalityType
  <1>2. ASSUME NEW f \in S
        PROVE  /\ IsFiniteSet(Before(f)) /\ Cardinality(Before(f)) \in Nat /\ Cardinality(Before(f)) < n
               /\ f \notin Before(f)
    <2>1. Before(f) \in SUBSET S /\ f \notin Before(f)
      BY <1>1
    <2>2. Before(f) # S
      BY <2>1
    <2> HIDE DEF Before
    <2>3. IsFiniteSet(Before(f)) /\ Cardinality(Before(f)) <= n /\ (n = Cardinality(Before(f)) => S = Before(f))
      BY <1>1, <2>1, FS_Subset
    <2>4. Cardinality(Before(f)) \in Nat
      BY <2>3, FS_CardinalityType
    <2> QED
      BY <1>1, <2>1, <2>2, <2>3, <2>4
  <1>3. ASSUME NEW f \in S, NEW g \in S, f < g PROVE Cardinality(Before(f)) # Cardinality(Before(g))
    <2>0. f \in Nat /\ g \in Nat /\ \A x \in S : x \in Nat
      BY <1>1
    <2>a. (\A x \in S : x < f => x < g) /\ ~(f < f)
      BY <1>3, <2>0
    <2>1. Before(f) \in SUBSET Before(g) /\ f \in Before(g) /\ f \notin Before(f)
      BY <1>3, <2>a
    <2>2. IsFiniteSet(Before(g))
      BY <1>2
    <2> HIDE DEF Before
    <2> QED
      BY <2>1, <2>2, FS_Subset
  <1>4. rank \in Injection(S, 1..n)
    <2>1. rank \in [S -> 1..n]
      <3>1. \A f \in S : Cardinality(Before(f)) + 1 \in 1..n
        BY <1>1, <1>2
      <3> QED
        BY <3>1
    <2>2. ASSUME NEW f \in S, NEW g \in S, rank[f] = rank[g] PROVE f = g
      <3>1. Cardinality(Before(f)) = Cardinality(Before(g))
        <4>1. Cardinality(Before(f)) + 1 = Cardinality(Before(g)) + 1
          BY <2>2
        <4>2. Cardinality(Before(f)) \in Nat /\ Cardinality(Before(g)) \in Nat
          BY <1>2
        <4> HIDE DEF Before
        <4> QED
          BY <4>1, <4>2
      <3>2. ~(f < g) /\ ~(g < f)
        BY <1>3, <3>1
      <3> QED
        BY <1>1, <3>2
    <2> HIDE DEF rank
    <2> QED
      BY <2>1, <2>2 DEF Injection, IsInjective
  <1>5. rank \in Surjection(S, 1..n)
    <2>1. IsFiniteSet(1..n) /\ Cardinality(1..n) = n
      BY <1>1, FS_Interval
    <2> HIDE DEF rank
    <2> QED
      BY <1>4, <2>1, FS_Injection
  <1>6. \A i \in 1..n : \E f \in S : Cardinality(Before(f)) = i - 1
    <2> SUFFICES ASSUME NEW i \in 1..n PROVE \E f \in S : Cardinality(Before(f)) = i - 1
      OBVIOUS
    <2>1. PICK f \in S : rank[f] = i
      BY <1>5 DEF Surjection
    <2>2. Cardinality(Before(f)) + 1 = i /\ Cardinality(Before(f)) \in Nat
      BY <1>2, <2>1
    <2> HIDE DEF Before
    <2> QED
      BY <2>2
  <1>7. L = [i \in 1..n |-> CHOOSE f \in S : Cardinality(Before(f)) = i - 1]
    BY DEF ListingOf
  <1> HIDE DEF Before, L, n
  <1>8. \A i \in 1..n : L[i] \in S /\ Cardinality(Before(L[i])) = i - 1
    BY <1>6, <1>7
  <1>9. DOMAIN L = 1..n /\ L \in [1..n -> Files]
    BY <1>7, <1>8
  <1>10. L \in Seq(Files)
    BY <1>1, <1>9, SeqDef
  <1>11. \A i, j \in 1..n : L[i] = L[j] => i = j
    BY <1>8
  <1> QED
    BY <1>8, <1>9, <1>10, <1>11 DEF L

\* i batches of b files, for i smaller than their number, are no more than n files.
LEMMA FullBatches ==
    ASSUME NEW n \in Nat, NEW b \in Nat \ {0, 1}, NEW i \in Nat, i < (n + b - 1) \div b
    PROVE  i * b <= n
  <1> DEFINE c == (n + b - 1) \div b
  <1>1. c \in Nat /\ c * b <= n + b - 1
    OBVIOUS
  <1> HIDE DEF c
  <1>2. i + 1 <= c
    BY <1>1 DEF c
  <1>3. (i + 1) * b <= c * b
    BY <1>1, <1>2
  <1>4. (i + 1) * b = i * b + b
    OBVIOUS
  <1>5. i * b \in Nat /\ c * b \in Nat
    BY <1>1
  <1> QED
    BY <1>1, <1>3, <1>4, <1>5

LEMMA AllFiles ==
    ASSUME NEW w, NEW S,
           \A i \in DOMAIN w : \A k \in DOMAIN w[i] : \A m \in DOMAIN w[i][k] : w[i][k][m] \in S
    PROVE  FilesOf(w) \subseteq S
  BY InFiles

\* Batches of a list without repetition: no file is in two of them, and each is of the list.
LEMMA SplitBatches ==
    ASSUME NEW s \in Seq(Files), \A x, y \in DOMAIN s : s[x] = s[y] => x = y,
           NEW w, w = [i \in DOMAIN SplitIntoBatches(s) |-> <<SplitIntoBatches(s)[i]>>]
    PROVE  Batches(w) /\ FilesOf(w) \subseteq ToSet(s)
  <1> DEFINE n == Len(s)
             b == MaxBatch
             ceil == (n + b - 1) \div b
             count == IF n % b = 1 /\ ceil > 1 THEN ceil - 1 ELSE ceil
             first(i) == (i - 1) * b + 1
             last(i) == IF i = count THEN n ELSE i * b
             batch(i) == SubSeq(s, first(i), last(i))
  <1>1. n \in Nat /\ b \in Nat \ {0, 1} /\ DOMAIN s = 1..n /\ \A x \in 1..n : s[x] \in Files
    BY CompactionConstants, ElementOfSeq, LenProperties
  <1>2. ceil \in Nat
    <2>1. \A x \in Nat, y \in Nat \ {0} : x \div y \in Nat
      OBVIOUS
    <2>2. n + b - 1 \in Nat
      BY <1>1
    <2> QED
      BY <1>1, <2>1, <2>2
  <1>3. count \in Nat /\ count <= ceil
    <2> HIDE DEF ceil, n, b
    <2> QED
      BY <1>2
  <1>4. SplitIntoBatches(s) = [i \in 1..count |-> batch(i)]
    BY DEF SplitIntoBatches
  <1> HIDE DEF count
  <1>5. ASSUME NEW i \in 1..count
        PROVE  /\ i \in Nat /\ i # 0 /\ (i - 1) * b \in Nat /\ first(i) \in Nat \ {0}
               /\ last(i) \in Nat /\ last(i) <= n
    <2>1. i \in Nat /\ i # 0 /\ i - 1 \in Nat
      BY <1>3
    <2>2. (i - 1) * b \in Nat /\ i * b \in Nat
      BY <1>1, <2>1
    <2>3. CASE i = count
      BY <1>1, <2>1, <2>2, <2>3
    <2>4. CASE i # count
      <3>1. i < ceil
        BY <1>2, <1>3, <2>1, <2>4
      <3>2. i * b <= n
        BY <1>1, <2>1, <3>1, FullBatches
      <3> QED
        BY <1>1, <2>1, <2>2, <2>4, <3>2
    <2> QED
      BY <2>3, <2>4
  <1>6. ASSUME NEW i \in 1..count
        PROVE  /\ batch(i) \in Seq(Files)
               /\ \A m \in DOMAIN batch(i) :
                     /\ m \in Nat \ {0} /\ (i - 1) * b + m \in DOMAIN s /\ batch(i)[m] = s[(i - 1) * b + m]
                     /\ i # count => (i - 1) * b + m <= i * b
    <2> DEFINE lo == first(i)
               hi == last(i)
               q == batch(i)
    <2>1. /\ i \in Nat /\ i # 0 /\ (i - 1) * b \in Nat /\ lo \in Nat \ {0} /\ lo = (i - 1) * b + 1
          /\ hi \in Nat /\ hi <= n /\ (i # count => hi = i * b)
      BY <1>5
    <2>2. q = SubSeq(s, lo, hi)
      OBVIOUS
    <2> HIDE DEF lo, hi, q, first, last, batch
    <2>3. \A x \in lo..hi : s[x] \in Files
      BY <1>1, <2>1
    <2>4. /\ q \in Seq(Files) /\ Len(q) = (IF lo <= hi THEN hi - lo + 1 ELSE 0)
          /\ \A m \in 1..(hi - lo + 1) : q[m] = s[lo + m - 1]
      BY <2>1, <2>2, <2>3, SubSeqProperties
    <2>5. DOMAIN q = 1..Len(q)
      BY <2>4, LenProperties
    <2>6. ASSUME NEW m \in DOMAIN q
          PROVE  /\ m \in Nat \ {0} /\ (i - 1) * b + m \in DOMAIN s /\ q[m] = s[(i - 1) * b + m]
                 /\ i # count => (i - 1) * b + m <= i * b
      <3> DEFINE p == (i - 1) * b
      <3>1. p \in Nat /\ lo = p + 1
        BY <2>1
      <3> HIDE DEF p
      <3>2. m \in Nat \ {0} /\ m \in 1..(hi - lo + 1) /\ p + m <= hi /\ lo + m - 1 = p + m
        BY <2>1, <2>4, <2>5, <3>1
      <3>3. p + m \in DOMAIN s /\ q[m] = s[p + m]
        <4>1. q[m] = s[lo + m - 1]
          BY <2>4, <3>2
        <4>2. p + m \in 1..n
          BY <1>1, <2>1, <3>1, <3>2
        <4> QED
          BY <1>1, <3>2, <4>1, <4>2
      <3> QED
        BY <2>1, <3>2, <3>3 DEF p
    <2> QED
      BY <2>4, <2>6 DEF q
  <1> HIDE DEF first, last, batch, ceil
  <1>7. DOMAIN w = 1..count /\ \A i \in 1..count : w[i] = <<batch(i)>>
    BY <1>4
  <1>8. \A i \in 1..count : /\ w[i] \in Seq(Seq(Files)) \ {<<>>} /\ DOMAIN w[i] = {1} /\ w[i][1] = batch(i)
    <2> SUFFICES ASSUME NEW i \in 1..count
                 PROVE  w[i] \in Seq(Seq(Files)) \ {<<>>} /\ DOMAIN w[i] = {1} /\ w[i][1] = batch(i)
      OBVIOUS
    <2>1. PICK q : q = batch(i)
      OBVIOUS
    <2>2. q \in Seq(Files) /\ w[i] = <<q>>
      BY <1>6, <1>7, <2>1
    <2>3. <<q>> \in Seq(Seq(Files)) /\ DOMAIN <<q>> = {1} /\ <<q>>[1] = q /\ <<q>> # <<>>
      BY <2>2
    <2> QED
      BY <2>1, <2>2, <2>3, Zenon
  <1>9. w \in Seq(Seq(Seq(Files)) \ {<<>>})
    <2>1. w \in [1..count -> Seq(Seq(Files)) \ {<<>>}]
      BY <1>4, <1>7, <1>8
    <2> QED
      BY <1>3, <2>1, SeqDef
  <1>10. ASSUME NEW i \in 1..count, NEW j \in 1..count, i < j PROVE i * b <= (j - 1) * b
    <2>1. i \in Nat /\ j - 1 \in Nat /\ i <= j - 1
      BY <1>3, <1>10
    <2> QED
      BY <1>1, <2>1
  <1>11. Apart(w)
    <2> SUFFICES ASSUME NEW i \in DOMAIN w, NEW j \in DOMAIN w, NEW k \in DOMAIN w[i], NEW l \in DOMAIN w[j],
                        NEW m \in DOMAIN w[i][k], NEW x \in DOMAIN w[j][l], w[i][k][m] = w[j][l][x]
                 PROVE  i = j /\ k = l /\ m = x
      BY DEF Apart
    <2>1. /\ i \in 1..count /\ j \in 1..count /\ k = 1 /\ l = 1
          /\ w[i][k] = batch(i) /\ w[j][l] = batch(j)
      BY <1>7, <1>8
    <2>2. PICK p, q : p = (i - 1) * b /\ q = (j - 1) * b
      OBVIOUS
    <2>3. /\ m \in Nat \ {0} /\ p \in Nat /\ p + m \in DOMAIN s /\ batch(i)[m] = s[p + m]
          /\ i # count => p + m <= i * b
      BY <1>5, <1>6, <2>1, <2>2
    <2>4. /\ x \in Nat \ {0} /\ q \in Nat /\ q + x \in DOMAIN s /\ batch(j)[x] = s[q + x]
          /\ j # count => q + x <= j * b
      BY <1>5, <1>6, <2>1, <2>2
    <2>5. p + m = q + x
      BY <2>1, <2>3, <2>4
    <2>6. ~(i < j)
      <3> SUFFICES ASSUME i < j PROVE FALSE
        OBVIOUS
      <3>1. i # count
        BY <1>3, <2>1
      <3>2. i * b <= q
        BY <1>10, <2>1, <2>2
      <3>3. i * b \in Nat
        BY <1>1, <1>5, <2>1
      <3> QED
        BY <2>3, <2>4, <2>5, <3>1, <3>2, <3>3
    <2>7. ~(j < i)
      <3> SUFFICES ASSUME j < i PROVE FALSE
        OBVIOUS
      <3>1. j # count
        BY <1>3, <2>1
      <3>2. j * b <= p
        BY <1>10, <2>1, <2>2
      <3>3. j * b \in Nat
        BY <1>1, <1>5, <2>1
      <3> QED
        BY <2>3, <2>4, <2>5, <3>1, <3>2, <3>3
    <2>8. i = j
      BY <1>5, <2>1, <2>6, <2>7
    <2>9. p = q
      BY <2>2, <2>8
    <2> QED
      BY <2>1, <2>3, <2>4, <2>5, <2>8, <2>9
  <1>12. FilesOf(w) \subseteq ToSet(s)
    <2>1. ASSUME NEW i \in DOMAIN w, NEW k \in DOMAIN w[i], NEW m \in DOMAIN w[i][k]
          PROVE  w[i][k][m] \in ToSet(s)
      <3>1. i \in 1..count /\ w[i][k] = batch(i)
        BY <1>7, <1>8
      <3>2. (i - 1) * b + m \in DOMAIN s /\ batch(i)[m] = s[(i - 1) * b + m]
        BY <1>6, <3>1
      <3>3. PICK p \in DOMAIN s : w[i][k][m] = s[p]
        BY <3>1, <3>2
      <3> QED
        BY <3>3 DEF ToSet
    <2> QED
      BY <2>1, AllFiles
  <1> QED
    BY <1>9, <1>11, <1>12 DEF Batches

----------------------------------------------------------------------------
(* Once per row: the invariant and the steps of the cycle and the job.      *)
\* The batches hold files once, and none that a job has yet to write.
WorkInv == Batches(work) /\ \A j \in Jobs : Unwritten(j) => Out(j) \notin FilesOf(work) \cup twice

\* The running job works on the head of the first batch and has its manifest in storage.
TakenInv ==
    job # NoJob =>
        /\ work # <<>> /\ job.files = Head(Head(work))
        /\ job.pc # "read" => inputs[jobs] \subseteq ToSet(job.files)
        /\ job.pc \in {"upload", "announce", "delete", "forget"} => jobs \in pending

\* Rows in two files are in the output and an input of a job whose manifest is in storage; the
\* batches left do not hold its files; what a job has read shares no row with any file.
Left(j) == IF j = job.id THEN FilesOf(work) \ ToSet(job.files) ELSE FilesOf(work)
Covers(j, f, g) == (f = Out(j) /\ g \in inputs[j]) \/ (g = Out(j) /\ f \in inputs[j])
Beside(f, g) == f # g /\ rows[f] \cap rows[g] # {}
DoubledInv == \A f, g \in Readable : Beside(f, g) => \E j \in pending : Covers(j, f, g)
BusyInv == \A j \in pending : Out(j) \in Readable => Left(j) \cap (inputs[j] \cup {Out(j)}) = {}
ReadInv ==
    job.pc \in {"record", "upload"} =>
        /\ inputs[job.id] \cap twice = {}
        /\ \A f \in inputs[job.id] : \A g \in inputs[job.id] \cup Readable : ~Beside(f, g)
SingleInv == Readable \cap twice = {} /\ DoubledInv /\ BusyInv /\ ReadInv

OnceInv == WorkInv /\ TakenInv /\ (blame = {} => SingleInv)

LEMMA InitOnce == CPInit => OnceInv
  <1> SUFFICES ASSUME CPInit PROVE OnceInv
    OBVIOUS
  <1>1. work = <<>> /\ job = NoJob /\ job.pc = "none" /\ pending = {} /\ twice = {} /\ stored = Sources
    BY NoJobFields DEF CPInit
  <1>2. Batches(<<>>) /\ FilesOf(<<>>) = {}
    BY DEF Batches, Apart, FilesOf
  <1>3. \A f \in Sources : f \in Files /\ rows[f] = {f}
    BY DEF CPInit, Files
  <1>4. DoubledInv
    BY <1>1, <1>3 DEF DoubledInv, Beside, Readable
  <1> QED
    BY <1>1, <1>2, <1>4 DEF OnceInv, WorkInv, TakenInv, SingleInv, BusyInv, ReadInv

LEMMA Blames ==
    ASSUME NEW cause, NEW doubled, Blame(cause, doubled), blame' = {}
    PROVE  blame = {} /\ ~doubled
  BY DEF Blame

\* Files only go, and with a manifest the output or the inputs it was for.
LEMMA ShrinkSingle ==
    ASSUME CPInv, SingleInv, stored' \subseteq stored, UNCHANGED <<rows, twice, broken, inputs>>,
           pending' \subseteq Jobs,
           \A j \in pending' : j \in pending \/ Out(j) \notin Readable',
           \A j \in pending \ pending' : Out(j) \notin Readable \/ inputs[j] \cap stored' = {},
           \A j \in pending' : Out(j) \in Readable' => Left(j)' \subseteq Left(j),
           job'.pc \in {"record", "upload"} => job.pc \in {"record", "upload"} /\ job'.id = job.id
    PROVE  SingleInv'
  <1>1. Readable' \subseteq Readable
    BY DEF Readable
  <1>2. Readable' \cap twice' = {}
    BY <1>1 DEF SingleInv
  <1>3. DoubledInv'
    <2> SUFFICES ASSUME NEW f \in Readable', NEW g \in Readable', Beside(f, g)'
                 PROVE  \E j \in pending' : Covers(j, f, g)'
      BY DEF DoubledInv
    <2>1. PICK j \in pending : Covers(j, f, g)
      BY <1>1 DEF SingleInv, DoubledInv, Beside
    <2>2. Out(j) \in Readable /\ inputs[j] \cap stored' # {}
      BY <1>1, <2>1 DEF Covers, Readable
    <2>3. j \in pending'
      BY <2>2
    <2> QED
      BY <2>1, <2>3 DEF Covers
  <1>4. BusyInv'
    <2> SUFFICES ASSUME NEW j \in pending', Out(j) \in Readable'
                 PROVE  Left(j)' \cap (inputs'[j] \cup {Out(j)}) = {}
      BY DEF BusyInv
    <2>1. j \in pending /\ Out(j) \in Readable /\ Left(j)' \subseteq Left(j)
      BY <1>1
    <2> QED
      BY <2>1 DEF SingleInv, BusyInv
  <1>5. ReadInv'
    BY <1>1 DEF SingleInv, ReadInv, Beside
  <1> QED
    BY <1>2, <1>3, <1>4, <1>5 DEF SingleInv

\* A step that leaves the job alone.
LEMMA SameJobOnce ==
    ASSUME CPInv, OnceInv, UNCHANGED <<rows, twice, broken, inputs, job, jobs>>, stored' \subseteq stored,
           pending' \subseteq pending,
           blame' = {} => /\ blame = {}
                          /\ \A j \in pending \ pending' : Out(j) \notin Readable \/ inputs[j] \cap stored' = {},
           Batches(work)', FilesOf(work') \subseteq FilesOf(work),
           job # NoJob => work' = work /\ pending' = pending
    PROVE  OnceInv'
  <1>1. WorkInv'
    BY DEF OnceInv, WorkInv, Unwritten
  <1>2. TakenInv'
    BY DEF OnceInv, TakenInv
  <1>3. ASSUME blame' = {} PROVE SingleInv'
    <2>1. \A j \in pending' : Left(j)' \subseteq Left(j)
      BY DEF Left
    <2>2. pending' \subseteq Jobs /\ SingleInv
      BY <1>3 DEF CPInv, CPTypeOK, OnceInv
    <2> QED
      BY <1>3, <2>1, <2>2, ShrinkSingle
  <1> QED
    BY <1>1, <1>2, <1>3 DEF OnceInv

\* A step of the job that does not write its output.
LEMMA MovesOnce ==
    ASSUME CPInv, OnceInv, UNCHANGED <<rows, twice, broken, inputs, jobs, work>>, stored' \subseteq stored,
           job # NoJob, job.pc # "read", NEW pc, job' = [pc |-> pc, id |-> jobs, files |-> job.files],
           pc \in {"record", "upload"} => job.pc \in {"record", "upload"},
           pc \in {"upload", "announce", "delete", "forget"} => jobs \in pending',
           pending' \subseteq pending \cup {jobs}, pending \subseteq pending' \cup {jobs},
           jobs \in pending' => jobs \in pending \/ Out(jobs) \notin Readable',
           jobs \in pending \ pending' => inputs[jobs] \cap stored' = {},
           \A j \in Jobs : Unwritten(j)' => Unwritten(j), blame' = {} => blame = {}
    PROVE  OnceInv'
  <1>1. job'.pc = pc /\ job'.id = jobs /\ job'.files = job.files /\ job.id = jobs /\ jobs \in Jobs
    BY DEF CPInv, JobInv
  <1>2. WorkInv'
    BY DEF OnceInv, WorkInv
  <1>3. TakenInv'
    BY <1>1 DEF OnceInv, TakenInv
  <1>4. ASSUME blame' = {} PROVE SingleInv'
    <2>1. \A j \in pending' : Left(j)' \subseteq Left(j)
      BY <1>1 DEF Left
    <2>2. pending' \subseteq Jobs /\ SingleInv
      BY <1>1, <1>4 DEF CPInv, CPTypeOK, OnceInv
    <2>3. /\ \A j \in pending' : j \in pending \/ Out(j) \notin Readable'
          /\ \A j \in pending \ pending' : inputs[j] \cap stored' = {}
      OBVIOUS
    <2> QED
      BY <1>1, <2>1, <2>2, <2>3, ShrinkSingle
  <1> QED
    BY <1>2, <1>3, <1>4 DEF OnceInv

\* How the batches go on once the job has ended.
Proceeds(f) == work' = Succeeded \/ work' = Failed(f)
LEMMA ProceedsFacts ==
    ASSUME CPInv, OnceInv, job # NoJob, Proceeds(job.files), job' = NoJob, jobs' = jobs,
           twice' \subseteq twice \cup {Out(jobs)}
    PROVE  /\ WorkInv' /\ TakenInv' /\ FilesOf(work') \subseteq FilesOf(work)
           /\ job.id = jobs /\ jobs \in Jobs /\ job'.pc = "none" /\ job'.id = 0
           /\ \A j \in Jobs : Left(j)' = FilesOf(work')
           /\ (work' # Succeeded /\ Len(job.files) > 2) \/ FilesOf(work') \subseteq Left(jobs)
  <1>1. /\ job.id = jobs /\ jobs \in Jobs /\ job'.pc = "none" /\ job'.id = 0
        /\ work # <<>> /\ job.files = Head(Head(work)) /\ Batches(work)
    BY NoJobFields DEF CPInv, JobInv, OnceInv, TakenInv, WorkInv
  <1>2. /\ Batches(work') /\ FilesOf(work') \subseteq FilesOf(work)
        /\ (work' # Succeeded /\ Len(job.files) > 2) \/ FilesOf(work') \cap ToSet(job.files) = {}
    BY <1>1, SucceededBatches, FailedBatches DEF Proceeds
  <1>3. WorkInv'
    <2>1. jobs \in Nat
      BY <1>1, OutFacts
    <2>2. \A j \in Jobs : Unwritten(j)' => Unwritten(j) /\ j # jobs
      BY <1>1, <2>1, OutFacts DEF Unwritten
    <2> QED
      BY <1>1, <1>2, <2>2, OutFacts DEF OnceInv, WorkInv
  <1>4. \A j \in Jobs : Left(j)' = FilesOf(work')
    BY <1>1, OutFacts DEF Left
  <1>5. (work' # Succeeded /\ Len(job.files) > 2) \/ FilesOf(work') \subseteq Left(jobs)
    BY <1>1, <1>2 DEF Left
  <1> QED
    BY <1>1, <1>2, <1>3, <1>4, <1>5 DEF TakenInv

\* The job ends without writing its output.
LEMMA EndsOnce ==
    ASSUME CPInv, OnceInv, UNCHANGED <<rows, twice, broken, inputs, jobs>>, stored' \subseteq stored,
           pending' \subseteq pending, job # NoJob, job' = NoJob, Proceeds(job.files),
           blame' = {} =>
              /\ blame = {} /\ \A j \in pending \ pending' : Out(j) \notin Readable
              /\ work' = Succeeded \/ ~(Len(job.files) > 2) \/ Out(jobs) \notin Readable'
    PROVE  OnceInv'
  <1>1. /\ WorkInv' /\ TakenInv' /\ FilesOf(work') \subseteq FilesOf(work)
        /\ job.id = jobs /\ jobs \in Jobs /\ job'.pc = "none" /\ job'.id = 0
        /\ \A j \in Jobs : Left(j)' = FilesOf(work')
        /\ (work' # Succeeded /\ Len(job.files) > 2) \/ FilesOf(work') \subseteq Left(jobs)
    BY ProceedsFacts
  <1>2. ASSUME blame' = {} PROVE SingleInv'
    <2>1. pending' \subseteq Jobs /\ SingleInv
      BY <1>2 DEF CPInv, CPTypeOK, OnceInv
    <2>2. ASSUME NEW j \in pending', Out(j) \in Readable' PROVE Left(j)' \subseteq Left(j)
      <3>1. CASE j = jobs
        <4>1. ~(work' # Succeeded /\ Len(job.files) > 2)
          BY <1>2, <2>2, <3>1
        <4> QED
          BY <1>1, <2>1, <3>1, <4>1
      <3>2. CASE j # jobs
        BY <1>1, <2>1, <3>2 DEF Left
      <3> QED
        BY <3>1, <3>2
    <2> QED
      BY <1>1, <1>2, <2>1, <2>2, ShrinkSingle
  <1> QED
    BY <1>1, <1>2 DEF OnceInv

\* The upload of a whole output, or of one that is cut short.
LEMMA WritesSingle ==
    ASSUME CPInv, OnceInv, SingleInv, job.pc = "upload", NEW whole \in BOOLEAN, Writes(whole),
           UNCHANGED <<inputs, jobs>>, pending' \subseteq pending, pending \subseteq pending' \cup {jobs},
           whole => /\ jobs \in pending' /\ Left(jobs)' \subseteq FilesOf(work)
                    /\ Left(jobs)' \cap ToSet(job.files) = {},
           \A j \in pending' : j # jobs /\ Out(j) \in Readable' => Left(j)' \subseteq Left(j),
           job'.pc \notin {"record", "upload"}
    PROVE  SingleInv'
  <1> DEFINE out == Out(jobs)
             in == inputs[jobs]
  <1>1. /\ out \in Files /\ out \notin stored \cup broken \cup Sources /\ jobs \in Jobs
        /\ stored' = stored \cup {out} /\ broken' = (IF whole THEN broken ELSE broken \cup {out})
        /\ \A f \in Files \ {out} : rows'[f] = rows[f]
        /\ in \subseteq Files \ {out}
    BY WritesFacts
  <1>2. /\ job # NoJob /\ job.id = jobs /\ pending \subseteq Jobs /\ stored \subseteq Files
        /\ rows \in [Files -> SUBSET Sources]
        /\ \A i, j \in Jobs : Out(i) = Out(j) => i = j
    BY JobFields, OutFacts DEF CPInv, CPTypeOK
  <1>3. /\ rows'[out] = UNION {rows[f] : f \in in}
        /\ twice' = IF in \cap twice # {} \/ \E f \in in : \E g \in in \ {f} : rows[f] \cap rows[g] # {}
                    THEN twice \cup {out} ELSE twice
    BY <1>1, <1>2 DEF Writes
  <1>4. twice' = twice
    <2>1. in \cap twice = {}
      BY <1>2 DEF SingleInv, ReadInv
    <2>2. \A f \in in : \A g \in in \ {f} : rows[f] \cap rows[g] = {}
      BY <1>2 DEF SingleInv, ReadInv, Beside
    <2> QED
      BY <1>3, <2>1, <2>2
  <1>5. in \subseteq ToSet(job.files)
    BY <1>2 DEF OnceInv, TakenInv
  <1>6. out \notin FilesOf(work) \cup twice
    BY <1>1, <1>2 DEF OnceInv, WorkInv, Unwritten
  <1>7. Readable' = IF whole THEN Readable \cup {out} ELSE Readable
    BY <1>1 DEF Readable
  <1>8. out \notin Readable /\ Readable \subseteq Files
    BY <1>1, <1>2 DEF Readable
  <1> HIDE DEF out, in
  <1>9. Readable' \cap twice' = {}
    BY <1>4, <1>6, <1>7 DEF SingleInv
  <1>10. ASSUME NEW g \in Readable, whole, rows'[out] \cap rows[g] # {} PROVE g \in in
    <2>1. PICK f \in in : rows[f] \cap rows[g] # {}
      BY <1>3, <1>10
    <2>2. ~Beside(f, g)
      BY <1>2, <2>1 DEF SingleInv, ReadInv, in
    <2> QED
      BY <2>1, <2>2 DEF Beside
  <1>11. DoubledInv'
    <2> SUFFICES ASSUME NEW f \in Readable', NEW g \in Readable', f # g, rows'[f] \cap rows'[g] # {}
                 PROVE  \E j \in pending' : Covers(j, f, g)'
      BY DEF DoubledInv, Beside
    <2>1. CASE f = out
      <3>1. g \in Readable /\ whole /\ rows'[g] = rows[g]
        BY <1>1, <1>7, <1>8, <2>1 DEF out
      <3>2. g \in in
        BY <1>10, <2>1, <3>1
      <3> QED
        BY <2>1, <3>1, <3>2 DEF Covers, out, in
    <2>2. CASE g = out
      <3>1. f \in Readable /\ whole /\ rows'[f] = rows[f]
        BY <1>1, <1>7, <1>8, <2>2 DEF out
      <3>2. f \in in
        BY <1>10, <2>2, <3>1
      <3> QED
        BY <2>2, <3>1, <3>2 DEF Covers, out, in
    <2>3. CASE f # out /\ g # out
      <3>1. f \in Readable /\ g \in Readable /\ rows'[f] = rows[f] /\ rows'[g] = rows[g]
        BY <1>1, <1>7, <1>8, <2>3 DEF out
      <3>2. PICK j \in pending : Covers(j, f, g)
        BY <3>1 DEF SingleInv, DoubledInv, Beside
      <3>3. j # jobs
        BY <2>3, <3>2 DEF Covers, out
      <3> QED
        BY <3>2, <3>3 DEF Covers
    <2> QED
      BY <2>1, <2>2, <2>3
  <1>12. BusyInv'
    <2> SUFFICES ASSUME NEW j \in pending', Out(j) \in Readable'
                 PROVE  Left(j)' \cap (inputs[j] \cup {Out(j)}) = {}
      BY DEF BusyInv
    <2>1. CASE j = jobs
      <3>1. whole
        BY <1>7, <1>8, <2>1 DEF out
      <3>2. Left(j)' = Left(jobs)' /\ inputs[j] = in /\ Out(j) = out
        BY <2>1 DEF out, in, Left
      <3> QED
        BY <1>5, <1>6, <3>1, <3>2
    <2>2. CASE j # jobs
      <3>1. Out(j) \in Readable
        BY <1>1, <1>2, <1>7, <2>2 DEF out
      <3> QED
        BY <2>2, <3>1 DEF SingleInv, BusyInv
    <2> QED
      BY <2>1, <2>2
  <1>13. ReadInv'
    BY DEF ReadInv
  <1> QED
    BY <1>9, <1>11, <1>12, <1>13 DEF SingleInv

\* A failed job that gives no cause for blame has left no output to be retried beside.
LEMMA FailsFacts ==
    ASSUME JobFails
    PROVE  /\ job' = NoJob /\ Proceeds(job.files)
           /\ blame' = {} => blame = {} /\ (~(Len(job.files) > 2) \/ Out(job.id) \notin stored)
  <1>1. Blame("retry", Len(job.files) > 2 /\ Out(job.id) \in stored)
    BY DEF JobFails
  <1>2. blame' = {} => blame = {} /\ ~(Len(job.files) > 2 /\ Out(job.id) \in stored)
    BY <1>1 DEF Blame
  <1> QED
    BY <1>2 DEF JobFails, Proceeds

\* The reading of the inputs.
LEMMA ReadInputsOnce == CPInv /\ OnceInv /\ ReadInputs => OnceInv'
  <1> SUFFICES ASSUME CPInv, OnceInv, ReadInputs PROVE OnceInv'
    OBVIOUS
  <1>1. job # NoJob /\ job.id = jobs /\ jobs \in Jobs /\ job.pc = "read"
    BY JobFields DEF CPInv, ReadInputs, JobAt
  <1>2. Out(jobs) \notin stored \cup broken
    BY <1>1 DEF CPInv, UnwrittenInv, Unwritten
  <1>3. UNCHANGED <<stored, rows, twice, broken, pending, jobs>>
    BY DEF ReadInputs, cp_storage
  <1>4. CASE job' = NoJob
    <2>1. ~JobMoves("record")
      BY <1>1, <1>4, JobFields, NoJobFields DEF CPInv
    <2>2. \/ JobSucceeds /\ UNCHANGED <<inputs, blame>>
          \/ JobFails /\ UNCHANGED inputs
      BY <2>1 DEF ReadInputs
    <2>3. inputs' = inputs /\ Proceeds(job.files) /\ (blame' = {} => blame = {})
      BY <2>2, FailsFacts DEF JobSucceeds, Proceeds
    <2> QED
      BY <1>1, <1>2, <1>3, <1>4, <2>3, EndsOnce DEF Readable
  <1>5. CASE job' # NoJob
    <2> DEFINE found == (ToSet(job.files) \cap stored) \ broken
    <2>1. JobMoves("record") /\ inputs' = [inputs EXCEPT ![jobs] = found] /\ blame' = blame
      BY <1>1, <1>5 DEF ReadInputs, JobSucceeds, JobFails
    <2>2. /\ job' = [pc |-> "record", id |-> jobs, files |-> job.files] /\ job'.pc = "record" /\ job'.id = jobs
          /\ job'.files = job.files /\ work' = work
      BY <1>1, <2>1, JobFields DEF CPInv, JobMoves
    <2>3. inputs'[jobs] = found /\ \A j \in Jobs : j # jobs => inputs'[j] = inputs[j]
      BY <1>1, <2>1 DEF CPInv, CPTypeOK
    <2>4. work # <<>> /\ job.files = Head(Head(work)) /\ ToSet(job.files) \subseteq FilesOf(work)
      BY <1>1, TailBatches DEF OnceInv, TakenInv, WorkInv
    <2> HIDE DEF found
    <2>5. found \subseteq Readable /\ found \subseteq ToSet(job.files)
      BY DEF found, Readable
    <2>6. WorkInv'
      BY <1>1, <1>3, <2>2 DEF OnceInv, WorkInv, Unwritten
    <2>7. TakenInv'
      BY <1>3, <2>2, <2>3, <2>4, <2>5 DEF TakenInv
    <2>8. ASSUME blame' = {} PROVE SingleInv'
      <3>1. SingleInv /\ pending \subseteq Jobs /\ Readable' = Readable /\ Out(jobs) \notin Readable
        BY <1>2, <1>3, <2>1, <2>8 DEF OnceInv, CPInv, CPTypeOK, Readable
      <3>2. ASSUME NEW f \in found, NEW g \in Readable, Beside(f, g) PROVE FALSE
        <4>1. PICK j \in pending : Covers(j, f, g)
          BY <2>5, <3>1, <3>2 DEF SingleInv, DoubledInv
        <4>2. Out(j) \in Readable /\ f \in inputs[j] \cup {Out(j)}
          BY <2>5, <3>2, <4>1 DEF Covers
        <4>3. j # jobs
          BY <3>1, <4>2
        <4>4. f \in Left(j)
          BY <1>1, <2>4, <2>5, <3>2, <4>3 DEF Left
        <4> QED
          BY <3>1, <4>2, <4>4 DEF SingleInv, BusyInv
      <3>3. Readable' \cap twice' = {}
        BY <1>3, <3>1 DEF SingleInv
      <3>4. DoubledInv'
        <4> SUFFICES ASSUME NEW f \in Readable, NEW g \in Readable, Beside(f, g)
                     PROVE  \E j \in pending : Covers(j, f, g)'
          BY <1>3, <3>1 DEF DoubledInv, Beside
        <4>1. PICK j \in pending : Covers(j, f, g)
          BY <3>1 DEF SingleInv, DoubledInv
        <4>2. j # jobs
          BY <3>1, <4>1 DEF Covers
        <4> QED
          BY <2>3, <3>1, <4>1, <4>2 DEF Covers
      <3>5. BusyInv'
        <4> SUFFICES ASSUME NEW j \in pending, Out(j) \in Readable
                     PROVE  Left(j)' \cap (inputs'[j] \cup {Out(j)}) = {}
          BY <1>3, <3>1 DEF BusyInv
        <4>1. j # jobs /\ inputs'[j] = inputs[j] /\ Left(j)' = Left(j)
          BY <1>1, <2>2, <2>3, <3>1 DEF Left
        <4> QED
          BY <3>1, <4>1 DEF SingleInv, BusyInv
      <3>6. ReadInv'
        <4>1. found \cap twice' = {}
          BY <1>3, <2>5, <3>1 DEF SingleInv
        <4>2. \A f \in found : \A g \in found \cup Readable : ~Beside(f, g)'
          BY <1>3, <2>5, <3>2 DEF Beside
        <4> QED
          BY <2>2, <2>3, <3>1, <4>1, <4>2 DEF ReadInv
      <3> QED
        BY <3>3, <3>4, <3>5, <3>6 DEF SingleInv
    <2> QED
      BY <2>6, <2>7, <2>8 DEF OnceInv
  <1> QED
    BY <1>4, <1>5

LEMMA StartJobOnce == CPInv /\ OnceInv /\ StartJob => OnceInv'
  <1> SUFFICES ASSUME CPInv, OnceInv, StartJob PROVE OnceInv'
    OBVIOUS
  <1>1. /\ UNCHANGED <<stored, rows, twice, broken, inputs, pending, work, blame>>
        /\ work # <<>> /\ job = NoJob /\ jobs' = jobs + 1 /\ jobs' \in Jobs
        /\ job' = [pc |-> "read", id |-> jobs', files |-> Head(Head(work))]
        /\ job'.pc = "read" /\ job'.id = jobs' /\ job'.files = Head(Head(work)) /\ job.id = 0 /\ job.pc = "none"
    BY NoJobFields, CompactionConstants DEF StartJob, CPInv, CPTypeOK, Jobs, cp_storage, cp_cycle, cp_history
  <1>2. jobs \in Nat
    BY CompactionConstants DEF CPInv, CPTypeOK
  <1>3. \A j \in Jobs : Unwritten(j)' => Unwritten(j)
    BY <1>1, <1>2, OutFacts DEF Unwritten
  <1>4. WorkInv'
    BY <1>1, <1>3 DEF OnceInv, WorkInv
  <1>5. TakenInv'
    BY <1>1 DEF TakenInv
  <1>6. ASSUME blame' = {} PROVE SingleInv'
    <2>1. \A j \in Jobs : Left(j)' \subseteq Left(j)
      BY <1>1, OutFacts DEF Left
    <2>2. pending \subseteq Jobs /\ SingleInv
      BY <1>1, <1>6 DEF CPInv, CPTypeOK, OnceInv
    <2> QED
      BY <1>1, <2>1, <2>2, ShrinkSingle
  <1> QED
    BY <1>4, <1>5, <1>6 DEF OnceInv

LEMMA WriteManifestOnce == CPInv /\ OnceInv /\ WriteManifest => OnceInv'
  <1> SUFFICES ASSUME CPInv, OnceInv, WriteManifest PROVE OnceInv'
    OBVIOUS
  <1>1. job # NoJob /\ job.id = jobs /\ jobs \in Jobs /\ job.pc = "record"
    BY JobFields DEF CPInv, WriteManifest, JobAt
  <1>2. Out(jobs) \notin stored
    BY <1>1 DEF CPInv, UnwrittenInv, Unwritten
  <1>3. UNCHANGED <<stored, rows, twice, broken, inputs, jobs>>
    BY DEF WriteManifest, cp_storage
  <1>4. CASE JobMoves("upload") /\ pending' = pending \cup {jobs} /\ UNCHANGED blame
    <2>1. job' = [pc |-> "upload", id |-> jobs, files |-> job.files] /\ work' = work
      BY <1>1, <1>4, JobFields DEF CPInv, JobMoves
    <2>2. \A j \in Jobs : Unwritten(j)' => Unwritten(j)
      BY <1>1, <1>3, <2>1 DEF Unwritten
    <2> QED
      BY <1>1, <1>2, <1>3, <1>4, <2>1, <2>2, MovesOnce DEF Readable
  <1>5. CASE JobFails /\ UNCHANGED pending
    BY <1>1, <1>2, <1>3, <1>5, FailsFacts, EndsOnce DEF Readable
  <1> QED
    BY <1>1, <1>4, <1>5 DEF WriteManifest

LEMMA UploadOnce == CPInv /\ OnceInv /\ Upload => OnceInv'
  <1> SUFFICES ASSUME CPInv, OnceInv, Upload PROVE OnceInv'
    OBVIOUS
  <1>1. job # NoJob /\ job.id = jobs /\ jobs \in Jobs /\ job.pc = "upload"
    BY JobFields DEF CPInv, Upload, JobAt
  <1>2. /\ Writes(TRUE) /\ UNCHANGED <<inputs, pending, jobs, work, blame>>
        /\ job' = [pc |-> "announce", id |-> jobs, files |-> job.files]
        /\ job'.pc = "announce" /\ job'.id = jobs /\ job'.files = job.files
    BY <1>1, JobFields DEF CPInv, Upload, JobMoves, cp_history
  <1>3. jobs \in pending /\ pending \subseteq Jobs /\ inputs[jobs] \subseteq ToSet(job.files)
    BY <1>1 DEF OnceInv, TakenInv, CPInv, CPTypeOK
  <1>4. twice' \subseteq twice \cup {Out(jobs)}
    BY <1>1, <1>2 DEF Writes
  <1>5. WorkInv'
    <2>1. jobs \in Nat
      BY <1>1, OutFacts
    <2>2. \A j \in Jobs : Unwritten(j)' => Unwritten(j) /\ j # jobs
      BY <1>1, <1>2, <2>1, OutFacts DEF Unwritten
    <2> QED
      BY <1>1, <1>2, <1>4, <2>2, OutFacts DEF OnceInv, WorkInv
  <1>6. TakenInv'
    BY <1>1, <1>2, <1>3 DEF OnceInv, TakenInv
  <1>7. ASSUME blame' = {} PROVE SingleInv'
    <2>1. SingleInv
      BY <1>2, <1>7 DEF OnceInv
    <2>2. Left(jobs)' = FilesOf(work) \ ToSet(job.files) /\ \A j \in pending' : Left(j)' = Left(j)
      BY <1>1, <1>2 DEF Left
    <2> QED
      BY <1>1, <1>2, <1>3, <2>1, <2>2, WritesSingle
  <1> QED
    BY <1>5, <1>6, <1>7 DEF OnceInv

LEMMA UploadFailsOnce == CPInv /\ OnceInv /\ UploadFails => OnceInv'
  <1> SUFFICES ASSUME CPInv, OnceInv, UploadFails PROVE OnceInv'
    OBVIOUS
  <1>1. job # NoJob /\ job.id = jobs /\ jobs \in Jobs /\ job.pc = "upload"
    BY JobFields DEF CPInv, UploadFails, JobAt
  <1>2. Out(jobs) \notin stored \cup broken
    BY <1>1 DEF CPInv, UnwrittenInv, Unwritten
  <1>3. /\ UNCHANGED <<inputs, jobs>> /\ pending' \subseteq pending /\ pending \subseteq pending' \cup {jobs}
        /\ job' = NoJob /\ work' = Failed(job.files) /\ Proceeds(job.files)
        /\ Blame("upload", Out(jobs) \in stored' \ broken' /\ (jobs \notin pending' \/ Len(job.files) > 2))
        /\ UNCHANGED cp_storage \/ \E whole \in BOOLEAN : Writes(whole)
    BY <1>1 DEF UploadFails, Proceeds
  <1>4. blame' = {} => /\ blame = {}
                       /\ Out(jobs) \notin stored' \ broken' \/ (jobs \in pending' /\ ~(Len(job.files) > 2))
    BY <1>3 DEF Blame
  <1>5. CASE UNCHANGED cp_storage
    <2>1. UNCHANGED <<stored, rows, twice, broken>>
      BY <1>5 DEF cp_storage
    <2> QED
      BY <1>1, <1>2, <1>3, <1>4, <2>1, EndsOnce DEF Readable
  <1>6. ASSUME NEW whole \in BOOLEAN, Writes(whole) PROVE OnceInv'
    <2>1. twice' \subseteq twice \cup {Out(jobs)}
      BY <1>1, <1>6 DEF Writes
    <2>2. /\ WorkInv' /\ TakenInv' /\ FilesOf(work') \subseteq FilesOf(work) /\ job'.pc = "none"
          /\ \A j \in Jobs : Left(j)' = FilesOf(work')
          /\ (work' # Succeeded /\ Len(job.files) > 2) \/ FilesOf(work') \subseteq Left(jobs)
      BY <1>1, <1>3, <2>1, ProceedsFacts
    <2>3. ASSUME blame' = {} PROVE SingleInv'
      <3>1. SingleInv /\ pending \subseteq Jobs
        BY <1>4, <2>3 DEF OnceInv, CPInv, CPTypeOK
      <3>2. whole => Out(jobs) \in stored' \ broken'
        BY <1>1, <1>2, <1>6 DEF Writes
      <3>3. whole => /\ jobs \in pending' /\ Left(jobs)' \subseteq FilesOf(work)
                     /\ Left(jobs)' \cap ToSet(job.files) = {}
        BY <1>1, <1>3, <1>4, <2>2, <2>3, <3>2 DEF Left
      <3>4. \A j \in pending' : j # jobs => Left(j)' \subseteq Left(j)
        BY <1>1, <1>3, <2>2, <3>1 DEF Left
      <3> QED
        BY <1>1, <1>3, <1>6, <2>2, <3>1, <3>3, <3>4, WritesSingle
    <2> QED
      BY <2>2, <2>3 DEF OnceInv
  <1> QED
    BY <1>3, <1>5, <1>6

LEMMA OutputWrittenOnce == CPInv /\ OnceInv /\ OutputWritten => OnceInv'
  <1> SUFFICES ASSUME CPInv, OnceInv, OutputWritten PROVE OnceInv'
    OBVIOUS
  <1>1. job # NoJob /\ job.id = jobs /\ jobs \in Jobs /\ job.pc = "announce"
    BY JobFields DEF CPInv, OutputWritten, JobAt
  <1>2. UNCHANGED <<stored, rows, twice, broken, inputs, pending, jobs>>
    BY DEF OutputWritten
  <1>3. jobs \in pending
    BY <1>1 DEF OnceInv, TakenInv
  <1>4. CASE JobMoves("delete") /\ UNCHANGED cp_history
    <2>1. job' = [pc |-> "delete", id |-> jobs, files |-> job.files] /\ work' = work
      BY <1>1, <1>4, JobFields DEF CPInv, JobMoves
    <2>2. \A j \in Jobs : Unwritten(j)' => Unwritten(j)
      BY <1>1, <1>2, <2>1 DEF Unwritten
    <2>3. blame' = blame
      BY <1>4 DEF cp_history
    <2> QED
      BY <1>1, <1>2, <1>3, <2>1, <2>2, <2>3, MovesOnce
  <1>5. CASE JobFails
    BY <1>1, <1>2, <1>5, FailsFacts, EndsOnce DEF Readable
  <1> QED
    BY <1>4, <1>5 DEF OutputWritten

LEMMA DeleteOldFilesOnce == CPInv /\ OnceInv /\ DeleteOldFiles => OnceInv'
  <1> SUFFICES ASSUME CPInv, OnceInv, DeleteOldFiles PROVE OnceInv'
    OBVIOUS
  <1>1. job # NoJob /\ job.id = jobs /\ jobs \in Jobs /\ job.pc = "delete"
    BY JobFields DEF CPInv, DeleteOldFiles, JobAt
  <1>2. UNCHANGED <<rows, twice, broken, inputs, pending, jobs, blame>> /\ stored' \subseteq stored
    BY <1>1 DEF DeleteOldFiles, cp_history
  <1>3. jobs \in pending
    BY <1>1 DEF OnceInv, TakenInv
  <1>4. CASE JobMoves("forget")
    <2>1. job' = [pc |-> "forget", id |-> jobs, files |-> job.files] /\ work' = work
      BY <1>1, <1>4, JobFields DEF CPInv, JobMoves
    <2>2. \A j \in Jobs : Unwritten(j)' => Unwritten(j)
      BY <1>1, <1>2, <2>1 DEF Unwritten
    <2> QED
      BY <1>1, <1>2, <1>3, <2>1, <2>2, MovesOnce
  <1>5. CASE JobSucceeds
    BY <1>1, <1>2, <1>5, EndsOnce DEF JobSucceeds, Proceeds
  <1> QED
    BY <1>4, <1>5 DEF DeleteOldFiles

LEMMA ForgetManifestOnce == CPInv /\ OnceInv /\ ForgetManifest => OnceInv'
  <1> SUFFICES ASSUME CPInv, OnceInv, ForgetManifest PROVE OnceInv'
    OBVIOUS
  <1>1. job # NoJob /\ job.id = jobs /\ jobs \in Jobs /\ job.pc = "forget"
    BY JobFields DEF CPInv, ForgetManifest, JobAt
  <1>2. /\ UNCHANGED <<stored, rows, twice, broken, inputs, jobs, blame>>
        /\ pending' \subseteq pending /\ pending \subseteq pending' \cup {jobs}
    BY <1>1 DEF ForgetManifest, cp_storage, cp_history
  <1>3. inputs[jobs] \cap stored = {}
    BY <1>1 DEF CPInv, JobInv
  <1>4. job' = [pc |-> "finish", id |-> jobs, files |-> job.files] /\ work' = work
    BY <1>1, JobFields DEF CPInv, ForgetManifest, JobMoves
  <1>5. \A j \in Jobs : Unwritten(j)' => Unwritten(j)
    BY <1>1, <1>2, <1>4 DEF Unwritten
  <1> QED
    BY <1>1, <1>2, <1>3, <1>4, <1>5, MovesOnce

LEMMA SourcesDeletedOnce == CPInv /\ OnceInv /\ SourcesDeleted => OnceInv'
  <1> SUFFICES ASSUME CPInv, OnceInv, SourcesDeleted PROVE OnceInv'
    OBVIOUS
  <1>1. job # NoJob /\ JobSucceeds /\ UNCHANGED <<stored, rows, twice, broken, inputs, pending, jobs, blame>>
    BY JobFields DEF CPInv, SourcesDeleted, JobAt, cp_storage, cp_history
  <1> QED
    BY <1>1, EndsOnce DEF JobSucceeds, Proceeds

LEMMA InterruptedOnce ==
    ASSUME CPInv, OnceInv, Interrupted, job' = NoJob, UNCHANGED <<inputs, pending, jobs>>
    PROVE  /\ job # NoJob => twice' \subseteq twice \cup {Out(jobs)}
           /\ job = NoJob => twice' = twice
           /\ blame = {} /\ (\A j \in pending' : Out(j) \in Readable' => Left(j)' \subseteq Left(j)) => SingleInv'
  <1>1. job'.pc = "none" /\ job'.id = 0 /\ (job.pc # "none" => job # NoJob /\ job.id = jobs /\ jobs \in Jobs)
    BY JobFields, NoJobFields DEF CPInv
  <1>2. blame = {} => SingleInv /\ pending \subseteq Jobs
    BY DEF OnceInv, CPInv, CPTypeOK
  <1>3. CASE UNCHANGED <<rows, twice, broken>> /\ stored' \subseteq stored
    BY <1>1, <1>2, <1>3, ShrinkSingle
  <1>4. CASE job.pc = "upload" /\ Writes(FALSE)
    <2>1. twice' \subseteq twice \cup {Out(jobs)} /\ Out(jobs) \in broken'
      BY <1>1, <1>4 DEF Writes
    <2>2. \A j \in pending' : Out(j) \in Readable' => j # jobs
      BY <2>1 DEF Readable
    <2>3. ASSUME blame = {}, \A j \in pending' : Out(j) \in Readable' => Left(j)' \subseteq Left(j) PROVE SingleInv'
      <3>1. \A j \in pending' : Out(j) \in Readable' => Left(j)' \subseteq Left(j)
        BY <2>3
      <3> QED
        BY <1>1, <1>2, <1>4, <2>3, <3>1, WritesSingle
    <2> QED
      BY <1>1, <1>4, <2>1, <2>3
  <1> QED
    BY <1>1, <1>3, <1>4 DEF Interrupted, cp_storage

LEMMA JobKilledOnce == CPInv /\ OnceInv /\ JobKilled => OnceInv'
  <1> SUFFICES ASSUME CPInv, OnceInv, JobKilled PROVE OnceInv'
    OBVIOUS
  <1>1. /\ job # NoJob /\ job.id = jobs /\ jobs \in Jobs /\ Interrupted
        /\ job' = NoJob /\ work' = Failed(job.files) /\ Proceeds(job.files)
        /\ UNCHANGED <<inputs, pending, jobs>>
        /\ Blame("retry", Len(job.files) > 2 /\ Out(job.id) \in stored' \ broken')
    BY DEF JobKilled, CPInv, JobInv, Proceeds
  <1>2. blame' = {} => blame = {} /\ (~(Len(job.files) > 2) \/ Out(jobs) \notin Readable')
    BY <1>1 DEF Blame, Readable
  <1>3. /\ twice' \subseteq twice \cup {Out(jobs)}
        /\ blame = {} /\ (\A j \in pending' : Out(j) \in Readable' => Left(j)' \subseteq Left(j)) => SingleInv'
    BY <1>1, InterruptedOnce
  <1>4. /\ WorkInv' /\ TakenInv' /\ FilesOf(work') \subseteq FilesOf(work)
        /\ \A j \in Jobs : Left(j)' = FilesOf(work')
        /\ (work' # Succeeded /\ Len(job.files) > 2) \/ FilesOf(work') \subseteq Left(jobs)
    BY <1>1, <1>3, ProceedsFacts
  <1>5. ASSUME blame' = {}, NEW j \in pending', Out(j) \in Readable' PROVE Left(j)' \subseteq Left(j)
    <2>1. j \in Jobs
      BY <1>1 DEF CPInv, CPTypeOK
    <2>2. CASE j = jobs
      BY <1>2, <1>4, <1>5, <2>1, <2>2
    <2>3. CASE j # jobs
      BY <1>1, <1>4, <2>1, <2>3 DEF Left
    <2> QED
      BY <2>2, <2>3
  <1> QED
    BY <1>2, <1>3, <1>4, <1>5 DEF OnceInv

LEMMA NoWork == Batches(<<>>) /\ FilesOf(<<>>) = {}
  BY DEF Batches, Apart, FilesOf

LEMMA CrashOnce == CPInv /\ OnceInv /\ Crash => OnceInv'
  <1> SUFFICES ASSUME CPInv, OnceInv, Crash PROVE OnceInv'
    OBVIOUS
  <1>1. /\ Interrupted /\ job' = NoJob /\ work' = <<>> /\ UNCHANGED <<inputs, pending, jobs, blame>>
        /\ job'.pc = "none" /\ job'.id = 0
    BY NoJobFields DEF Crash
  <1>2. job # NoJob => job.id = jobs /\ jobs \in Jobs
    BY DEF CPInv, JobInv
  <1>3. Batches(work') /\ FilesOf(work') = {}
    BY <1>1, NoWork
  <1>4. /\ job # NoJob => twice' \subseteq twice \cup {Out(jobs)}
        /\ job = NoJob => twice' = twice
        /\ blame = {} /\ (\A j \in pending' : Out(j) \in Readable' => Left(j)' \subseteq Left(j)) => SingleInv'
    BY <1>1, InterruptedOnce
  <1>5. WorkInv'
    <2>1. jobs \in Nat
      BY CompactionConstants DEF CPInv, CPTypeOK
    <2>2. \A j \in Jobs : Unwritten(j)' => Unwritten(j) /\ (job # NoJob => j # jobs)
      BY <1>1, <2>1, OutFacts DEF Unwritten
    <2> QED
      BY <1>2, <1>3, <1>4, <2>2, OutFacts DEF OnceInv, WorkInv
  <1>6. \A j \in pending' : Left(j)' \subseteq Left(j)
    BY <1>3 DEF Left
  <1> QED
    BY <1>1, <1>4, <1>5, <1>6 DEF OnceInv, TakenInv

LEMMA ApplyCompletionOnce == \A j \in Jobs : CPInv /\ OnceInv /\ ApplyCompletion(j) => OnceInv'
  <1> SUFFICES ASSUME NEW j \in Jobs, CPInv, OnceInv, ApplyCompletion(j) PROVE OnceInv'
    OBVIOUS
  <1>1. UNCHANGED <<stored, rows, twice, broken, inputs, pending, work, job, jobs, blame>>
    BY DEF ApplyCompletion, cp_storage, cp_cycle, cp_history
  <1> QED
    BY <1>1, SameJobOnce DEF OnceInv, WorkInv

LEMMA ReconcileOnce == CPInv /\ OnceInv /\ Reconcile => OnceInv'
  <1> SUFFICES ASSUME CPInv, OnceInv, Reconcile PROVE OnceInv'
    OBVIOUS
  <1>1. UNCHANGED <<rows, twice, broken, inputs, pending, work, job, jobs, blame>> /\ stored' \subseteq stored
    BY DEF Reconcile, OrphanStorage, cp_cycle, cp_history
  <1> QED
    BY <1>1, SameJobOnce DEF OnceInv, WorkInv

LEMMA RestartOnce == CPInv /\ OnceInv /\ Restart => OnceInv'
  <1> SUFFICES ASSUME CPInv, OnceInv, Restart PROVE OnceInv'
    OBVIOUS
  <1>1. UNCHANGED <<stored, rows, twice, broken, inputs, pending, work, job, jobs, blame>>
    BY DEF Restart, cp_storage, cp_history
  <1> QED
    BY <1>1, SameJobOnce DEF OnceInv, WorkInv

LEMMA CycleOnce == CPInv /\ OnceInv /\ (StartCycle \/ EndRecovery \/ EndTier \/ TooSmall) => OnceInv'
  <1> SUFFICES ASSUME CPInv, OnceInv, StartCycle \/ EndRecovery \/ EndTier \/ TooSmall PROVE OnceInv'
    OBVIOUS
  <1>1. /\ UNCHANGED <<stored, rows, twice, broken, inputs, pending, job, jobs, blame>>
        /\ work' = work \/ (TooSmall /\ job = NoJob /\ work # <<>> /\ work' = Tail(work))
    BY DEF StartCycle, EndRecovery, EndTier, TooSmall, cp_storage, cp_history
  <1>2. Batches(work') /\ FilesOf(work') \subseteq FilesOf(work)
    BY <1>1, TailBatches DEF OnceInv, WorkInv
  <1>3. job # NoJob => work' = work
    BY <1>1
  <1> QED
    BY <1>1, <1>2, <1>3, SameJobOnce

\* Recovery drops a manifest without blame only when its output or its inputs are gone.
LEMMA RecoverManifestOnce == \A j \in Jobs : CPInv /\ OnceInv /\ RecoverManifest(j) => OnceInv'
  <1> SUFFICES ASSUME NEW j \in Jobs, CPInv, OnceInv, RecoverManifest(j) PROVE OnceInv'
    OBVIOUS
  <1>1. job = NoJob /\ UNCHANGED <<rows, twice, broken, inputs, work, job, jobs>>
    BY DEF RecoverManifest, DropUnreadable, DropUnfinished, DropBroken, FinishDeletion, SizeUnknown, RecoveryError,
           CPInv, JobInv, InBatches, cp_storage
  <1>2. stored' \subseteq stored /\ pending' \subseteq pending /\ pending \subseteq pending' \cup {j}
    BY DEF RecoverManifest, DropUnreadable, DropUnfinished, DropBroken, FinishDeletion, SizeUnknown, RecoveryError,
           cp_storage
  <1>3. ASSUME blame' = {}
        PROVE  blame = {} /\ (j \notin pending \ pending' \/ Out(j) \notin Readable \/ inputs[j] \cap stored' = {})
    <2>1. CASE DropUnreadable(j)
      BY <1>3, <2>1 DEF DropUnreadable, Blame, Readable
    <2>2. CASE DropUnfinished(j) \/ DropBroken(j) \/ SizeUnknown(j)
      BY <1>3, <2>2 DEF DropUnfinished, DropBroken, SizeUnknown, Readable, cp_history
    <2>3. CASE FinishDeletion(j)
      <3>1. blame' = blame
        BY <2>3 DEF FinishDeletion, cp_history
      <3>2. stored' = stored \ inputs[j] \/ UNCHANGED pending
        BY <2>3 DEF FinishDeletion
      <3> QED
        BY <1>3, <3>1, <3>2
    <2>4. CASE RecoveryError
      BY <1>3, <2>4 DEF RecoveryError, cp_history
    <2> QED
      BY <2>1, <2>2, <2>3, <2>4 DEF RecoverManifest
  <1> QED
    BY <1>1, <1>2, <1>3, SameJobOnce DEF OnceInv, WorkInv

\* A cycle without blame for its cache takes only files that no manifest tracks.
LEMMA FindCandidatesOnce == CPInv /\ OnceInv /\ FindCandidates => OnceInv'
  <1> SUFFICES ASSUME CPInv, OnceInv, FindCandidates PROVE OnceInv'
    OBVIOUS
  <1>1. /\ job = NoJob /\ job.pc = "none" /\ job.id = 0
        /\ UNCHANGED <<stored, rows, twice, broken, inputs, pending, job, jobs>>
    BY NoJobFields DEF FindCandidates, CPInv, JobInv, InBatches, cp_storage
  <1>2. CASE UNCHANGED <<work, blame>>
    BY <1>1, <1>2, SameJobOnce DEF OnceInv, WorkInv
  <1>3. CASE ~UNCHANGED <<work, blame>>
    <2>1. PICK known \in FilesInManifests :
             LET files == ListingOf(Listed \ known.files)
                 batches == SplitIntoBatches(files)
             IN  /\ work' = [i \in DOMAIN batches |-> <<batches[i]>>]
                 /\ Blame("cache", ToSet(files) \cap Tracked # {})
      BY <1>3 DEF FindCandidates
    <2>2. PICK files : files = ListingOf(Listed \ known.files)
      OBVIOUS
    <2>3. /\ work' = [i \in DOMAIN SplitIntoBatches(files) |-> <<SplitIntoBatches(files)[i]>>]
          /\ Blame("cache", ToSet(files) \cap Tracked # {})
      BY <2>1, <2>2
    <2>4. stored \subseteq Files /\ pending \subseteq Jobs
      BY DEF CPInv, CPTypeOK
    <2>5. (Listed \ known.files) \in SUBSET Files /\ Listed \subseteq stored
      BY <2>4 DEF Listed, HourFiles
    <2>6. /\ files \in Seq(Files) /\ \A x, y \in DOMAIN files : files[x] = files[y] => x = y
          /\ \A x \in DOMAIN files : files[x] \in Listed \ known.files
      BY <2>2, <2>5, ListingFacts
    <2>7. ToSet(files) \subseteq stored
      BY <2>5, <2>6 DEF ToSet
    <2>8. Batches(work') /\ FilesOf(work') \subseteq ToSet(files)
      BY <2>3, <2>6, SplitBatches
    <2>9. WorkInv'
      <3>1. \A j \in Jobs : Unwritten(j)' => Unwritten(j)
        BY <1>1 DEF Unwritten
      <3>2. \A j \in Jobs : Unwritten(j) => Out(j) \notin stored
        BY DEF CPInv, UnwrittenInv
      <3> QED
        BY <1>1, <2>7, <2>8, <3>1, <3>2 DEF OnceInv, WorkInv
    <2>10. TakenInv'
      BY <1>1 DEF TakenInv
    <2>11. ASSUME blame' = {} PROVE SingleInv'
      <3>1. blame = {} /\ ToSet(files) \cap Tracked = {}
        BY <2>3, <2>11 DEF Blame
      <3>2. SingleInv
        BY <3>1 DEF OnceInv
      <3>3. Readable' = Readable
        BY <1>1 DEF Readable
      <3>4. BusyInv'
        <4> SUFFICES ASSUME NEW j \in pending PROVE Left(j)' \cap (inputs[j] \cup {Out(j)}) = {}
          BY <1>1 DEF BusyInv
        <4>1. inputs[j] \cup {Out(j)} \subseteq Tracked
          BY DEF Tracked
        <4>2. Left(j)' \subseteq ToSet(files)
          BY <2>8 DEF Left
        <4> QED
          BY <3>1, <4>1, <4>2
      <3>5. DoubledInv' /\ ReadInv'
        BY <1>1, <3>2, <3>3 DEF SingleInv, DoubledInv, ReadInv, Beside, Covers
      <3> QED
        BY <1>1, <3>2, <3>3, <3>4, <3>5 DEF SingleInv
    <2> QED
      BY <2>9, <2>10, <2>11 DEF OnceInv
  <1> QED
    BY <1>2, <1>3

LEMMA NextOnce == CPInv /\ OnceInv /\ [CPNext]_cp_vars => OnceInv'
  <1> SUFFICES ASSUME CPInv, OnceInv PROVE [CPNext]_cp_vars => OnceInv'
    OBVIOUS
  <1>1. CPNext => OnceInv'
    BY CycleOnce, FindCandidatesOnce, RecoverManifestOnce, ApplyCompletionOnce, StartJobOnce, ReadInputsOnce,
       WriteManifestOnce, UploadOnce, UploadFailsOnce, OutputWrittenOnce, DeleteOldFilesOnce, ForgetManifestOnce,
       SourcesDeletedOnce, JobKilledOnce, CrashOnce, RestartOnce, ReconcileOnce DEF CPNext
  <1>2. UNCHANGED cp_vars => OnceInv'
    BY SameJobOnce DEF cp_vars, cp_storage, cp_cycle, cp_history, OnceInv, WorkInv
  <1> QED
    BY <1>1, <1>2

\* Without a cause for blame, a row is in one readable file once the manifests of finished jobs
\* are gone: the cycle's batches, the manifests in storage and what a running job has read never
\* share a file, whatever fails, is killed or crashes.
THEOREM OncePerRowCorrect == CPSpec => []OncePerRow
  <1>1. CPInit => OnceInv
    BY InitOnce
  <1>2. CPInv /\ OnceInv /\ [CPNext]_cp_vars => OnceInv'
    BY NextOnce
  <1>3. OnceInv => OncePerRow
    BY DEF OnceInv, SingleInv, DoubledInv, Beside, OncePerRow
  <1> QED
    BY <1>1, <1>2, <1>3, CPInvariant, PTL DEF CPSpec

-----------------------------------------------------------------------------
(* The lease of the compactor.                                             *)

Entries == [op : {"add", "remove", "assign"}, node : Nodes]

-----------------------------------------------------------------------------
(* Types, in the groups that the actions change.                           *)

LogType ==
    /\ dedicated \subseteq Nodes
    /\ log \in Seq(Entries) /\ leader \in Nodes \cup {Nobody} /\ voters \subseteq Nodes

NodeType ==
    /\ phase \in [Nodes -> {"down", "raft", "hooked"}]
    /\ applied \in [Nodes -> Nat] /\ snap \in [Nodes -> Nat] /\ wired \in [Nodes -> Nat]
    /\ \A n \in Nodes : applied[n] <= Len(log) /\ snap[n] <= Len(log) /\ wired[n] <= applied[n]
    /\ \A n \in Nodes : phase[n] = "down" => wired[n] = 0

ViewType == view \in [Nodes -> [Nodes -> {"absent", "healthy", "ill"}]]

MgrStates == [pc : {"idle", "select", "apply", "wait"},
              old : Nodes \cup {Nobody}, new : Nodes \cup {Nobody}, index : Nat]

MgrType ==
    /\ mgr \in [Nodes -> MgrStates]
    /\ \A n \in Nodes : mgr[n].pc = "apply" => mgr[n].new \in Nodes
    /\ fails \in [Nodes -> Nat] /\ cooling \in [Nodes -> BOOLEAN]

WorkType ==
    /\ hooks \in [Nodes -> [become : Nat, lose : Nat]]
    /\ running \in [Nodes -> BOOLEAN] /\ watching \in [Nodes -> BOOLEAN] /\ crossed \subseteq Nodes

LEMMA TypeParts ==
    /\ CLTypeOK <=> LogType /\ NodeType /\ ViewType /\ MgrType /\ WorkType
    /\ CLTypeOK' <=> LogType' /\ NodeType' /\ ViewType' /\ MgrType' /\ WorkType'
BY DEF CLTypeOK, LogType, NodeType, ViewType, MgrType, MgrStates, WorkType, Entries

LEMMA TypeInit == CLInit => CLTypeOK
<1> SUFFICES ASSUME CLInit PROVE CLTypeOK
  OBVIOUS
<1> USE LeaseConstants
<1>1. LogType
  <2>1. dedicated \in Layouts /\ log = <<>> /\ leader = First /\ voters = {First}
    BY Zenon DEF CLInit
  <2> QED
    BY <2>1 DEF LogType
<1>2. NodeType
  BY DEF CLInit, NodeType
<1>3. ViewType
  BY DEF CLInit, ViewType, OnlySelf
<1>4. MgrType
  BY DEF CLInit, MgrType, MgrStates, Idle
<1>5. WorkType
  <2>1. hooks = [n \in Nodes |-> [become |-> 0, lose |-> 0]] /\ crossed = {} /\ watching = running
    BY Zenon DEF CLInit
  <2>2. running \in [Nodes -> BOOLEAN]
    BY DEF CLInit
  <2> QED
    BY <2>1, <2>2 DEF WorkType
<1> QED
  BY <1>1, <1>2, <1>3, <1>4, <1>5, TypeParts

LEMMA UnchangedType ==
    /\ LogType /\ UNCHANGED <<dedicated, cl_raft>> => LogType'
    /\ NodeType /\ UNCHANGED <<log, cl_node>> => NodeType'
    /\ ViewType /\ UNCHANGED view => ViewType'
    /\ MgrType /\ UNCHANGED cl_mgr => MgrType'
    /\ WorkType /\ UNCHANGED cl_work => WorkType'
BY DEF cl_raft, cl_node, cl_mgr, cl_work, LogType, NodeType, ViewType, MgrType, WorkType

\* A longer log leaves what nodes have applied within it.
LEMMA AppendType ==
    ASSUME LogType, NodeType, NEW e \in Entries, log' = Append(log, e)
    PROVE  /\ log' \in Seq(Entries) /\ Len(log') = Len(log) + 1 /\ Len(log) \in Nat
           /\ \A i \in 1..Len(log) : log'[i] = log[i]
           /\ log'[Len(log) + 1] = e
           /\ UNCHANGED cl_node => NodeType'
<1>1. log' \in Seq(Entries) /\ Len(log') = Len(log) + 1 /\ Len(log) \in Nat
  BY DEF LogType
<1>2. (\A i \in 1..Len(log) : log'[i] = log[i]) /\ log'[Len(log) + 1] = e
  BY DEF LogType
<1>3. ASSUME UNCHANGED cl_node PROVE NodeType'
  BY <1>1, <1>3 DEF NodeType, cl_node
<1> QED
  BY <1>1, <1>2, <1>3

-----------------------------------------------------------------------------
(* The steps of a process.                                                 *)

LEMMA TypeBoot == ASSUME CLTypeOK, NEW n \in Nodes, Boot(n) PROVE CLTypeOK'
<1> USE TypeParts
<1>1. LogType' /\ ViewType' /\ MgrType'
  BY UnchangedType DEF Boot
<1>2. NodeType'
  <2>1. log' = log
    BY DEF Boot, cl_raft
  <2> QED
    BY <2>1 DEF Boot, NodeType
<1>3. WorkType'
  BY DEF Boot, WorkType
<1> QED
  BY <1>1, <1>2, <1>3

LEMMA TypeHooked == ASSUME CLTypeOK, NEW n \in Nodes, SetCompactorCallbacks(n) PROVE CLTypeOK'
<1> USE TypeParts
<1>1. LogType' /\ ViewType' /\ MgrType'
  BY UnchangedType DEF SetCompactorCallbacks
<1>2. NodeType'
  BY DEF SetCompactorCallbacks, NodeType, cl_raft
<1>3. WorkType'
  BY DEF SetCompactorCallbacks, WorkType
<1> QED
  BY <1>1, <1>2, <1>3

\* What the end of a process leaves, with a log that may have grown.
LEMMA TypeEnds ==
    ASSUME CLTypeOK, NEW n \in Nodes, Ends(n), log' \in Seq(Entries), Len(log') >= Len(log),
           voters' \subseteq Nodes, ViewType'
    PROVE  CLTypeOK'
<1> USE TypeParts
<1>0. Len(log) \in Nat /\ Len(log') \in Nat
  BY DEF LogType
<1>1. LogType'
  BY DEF Ends, LogType
<1>2. NodeType'
  <2>1. phase' \in [Nodes -> {"down", "raft", "hooked"}]
    BY DEF Ends, NodeType
  <2>2. PICK k \in {snap[n], applied[n]} : snap' = [snap EXCEPT ![n] = k]
    BY DEF Ends
  <2>3. k \in Nat /\ k <= Len(log')
    BY <1>0 DEF NodeType
  <2>4. snap' \in [Nodes -> Nat] /\ \A m \in Nodes : snap'[m] <= Len(log')
    BY <1>0, <2>2, <2>3 DEF NodeType
  <2>5. applied' \in [Nodes -> Nat] /\ wired' \in [Nodes -> Nat]
    BY DEF Ends, NodeType
  <2>6. \A m \in Nodes : applied'[m] <= Len(log') /\ wired'[m] <= applied'[m]
    BY <1>0 DEF Ends, NodeType
  <2>7. \A m \in Nodes : phase'[m] = "down" => wired'[m] = 0
    BY DEF Ends, NodeType
  <2> QED
    BY <2>1, <2>4, <2>5, <2>6, <2>7 DEF NodeType
<1>3. MgrType'
  <2>1. Idle \in MgrStates /\ Idle.pc # "apply"
    BY DEF Idle, MgrStates
  <2>2. mgr' = [mgr EXCEPT ![n] = Idle]
    BY DEF Ends
  <2> QED
    BY <2>1, <2>2 DEF Ends, MgrType
<1>4. WorkType'
  BY DEF Ends, WorkType
<1> QED
  BY <1>1, <1>2, <1>3, <1>4

LEMMA OnlySelfType == \A n \in Nodes : OnlySelf(n) \in [Nodes -> {"absent", "healthy", "ill"}]
BY DEF OnlySelf

LEMMA TypeCrash == ASSUME CLTypeOK, NEW n \in Nodes, NodeCrash(n) PROVE CLTypeOK'
<1>1. ViewType'
  BY OnlySelfType DEF NodeCrash, ViewType, CLTypeOK
<1>2. log' \in Seq(Entries) /\ Len(log') >= Len(log) /\ voters' \subseteq Nodes
  BY TypeParts DEF NodeCrash, LogType
<1> QED
  BY <1>1, <1>2, TypeEnds DEF NodeCrash

LEMMA TypeElect == ASSUME CLTypeOK, NEW n \in Nodes, Elect(n) PROVE CLTypeOK'
<1> USE TypeParts
<1>1. NodeType' /\ ViewType' /\ MgrType' /\ WorkType'
  BY UnchangedType DEF Elect
<1>2. LogType'
  BY DEF Elect, LogType
<1> QED
  BY <1>1, <1>2

-----------------------------------------------------------------------------
(* Membership, heartbeats and checks.                                      *)

LEMMA TypeJoin == ASSUME CLTypeOK, NEW m \in Nodes, Join(m) PROVE CLTypeOK'
<1> USE TypeParts
<1>1. PICK added \in BOOLEAN :
        LET l == leader
            known == IF added THEN [view[l] EXCEPT ![m] = "healthy"] ELSE view[l]
        IN  /\ log' = IF added THEN Append(log, [op |-> "add", node |-> m]) ELSE log
            /\ applied' = [applied EXCEPT ![l] = Len(log')]
            /\ view' = [view EXCEPT ![l] = known, ![m] = Learns(m, known)]
  BY DEF Join
<1>2. leader \in Nodes
  BY DEF Join, LogType
<1>3. log' \in Seq(Entries) /\ Len(log) \in Nat /\ Len(log') \in Nat /\ Len(log') >= Len(log)
  <2>0. [op |-> "add", node |-> m] \in Entries /\ log \in Seq(Entries)
    BY DEF LogType, Entries
  <2>1. log' = Append(log, [op |-> "add", node |-> m]) \/ log' = log
    BY <1>1
  <2> QED
    BY <2>0, <2>1
<1>4. LogType'
  BY <1>2, <1>3 DEF Join, LogType
<1>5. NodeType'
  <2>1. applied' = [applied EXCEPT ![leader] = Len(log')]
    BY <1>1
  <2>2. UNCHANGED <<phase, snap, wired>>
    BY DEF Join
  <2> QED
    BY <1>2, <1>3, <2>1, <2>2 DEF NodeType
<1>6. ViewType'
  <2> DEFINE known == IF added THEN [view[leader] EXCEPT ![m] = "healthy"] ELSE view[leader]
  <2>1. known \in [Nodes -> {"absent", "healthy", "ill"}]
    BY <1>2 DEF ViewType
  <2>2. Learns(m, known) \in [Nodes -> {"absent", "healthy", "ill"}]
    BY <2>1 DEF Learns, ViewType
  <2>3. view' = [view EXCEPT ![leader] = known, ![m] = Learns(m, known)]
    BY <1>1
  <2> QED
    BY <2>1, <2>2, <2>3 DEF ViewType
<1>7. MgrType' /\ WorkType'
  BY UnchangedType DEF Join
<1> QED
  BY <1>4, <1>5, <1>6, <1>7

LEMMA TypeRegister ==
    ASSUME CLTypeOK, NEW n \in Nodes, RegisterSelf(n) \/ RemoveNode(n) PROVE CLTypeOK'
<1> USE TypeParts
<1>1. PICK e \in Entries : log' = Append(log, e)
  BY DEF RegisterSelf, RemoveNode, Entries
<1>2. UNCHANGED <<dedicated, leader, cl_node, view, cl_mgr, cl_work>> /\ voters' \subseteq Nodes
  BY DEF RegisterSelf, RemoveNode, LogType
<1>3. NodeType' /\ log' \in Seq(Entries)
  BY <1>1, <1>2, AppendType
<1>4. LogType'
  BY <1>2, <1>3 DEF LogType
<1> QED
  BY <1>2, <1>3, <1>4, UnchangedType

LEMMA TypeLeave == ASSUME CLTypeOK, NEW m \in Nodes, Leave(m) PROVE CLTypeOK'
<1>1. PICK told \in SUBSET Audience(m) :
        /\ view' = [n \in Nodes |-> IF n = m THEN OnlySelf(m)
                                    ELSE IF n \in told THEN [view[n] EXCEPT ![m] = "absent"]
                                    ELSE view[n]]
        /\ IF leader \in told
           THEN log' = Append(log, [op |-> "remove", node |-> m]) /\ voters' = voters \ {m}
           ELSE UNCHANGED <<log, voters>>
  BY DEF Leave
<1>2. ViewType'
  BY <1>1, OnlySelfType, TypeParts DEF ViewType
<1>3. log' \in Seq(Entries) /\ Len(log') >= Len(log) /\ voters' \subseteq Nodes
  <2>0. [op |-> "remove", node |-> m] \in Entries /\ log \in Seq(Entries) /\ voters \subseteq Nodes
    BY TypeParts DEF LogType, Entries
  <2>1. \/ log' = Append(log, [op |-> "remove", node |-> m]) /\ voters' = voters \ {m}
        \/ log' = log /\ voters' = voters
    BY <1>1
  <2> QED
    BY <2>0, <2>1
<1> QED
  BY <1>2, <1>3, TypeEnds DEF Leave

LEMMA TypeChecks ==
    ASSUME CLTypeOK, NEW m \in Nodes, NEW n \in Nodes, Heartbeat(m, n) \/ ChecksFail(n, m)
    PROVE  CLTypeOK'
<1> USE TypeParts
<1>1. UNCHANGED <<dedicated, cl_raft, cl_node, cl_mgr, cl_work>>
  BY DEF Heartbeat, ChecksFail
<1>2. ViewType'
  <2>1. \E s \in {"healthy", "ill"} : view' = [view EXCEPT ![n][m] = s]
    BY DEF Heartbeat, ChecksFail
  <2> QED
    BY <2>1 DEF ViewType
<1>3. LogType' /\ MgrType' /\ WorkType'
  BY <1>1, UnchangedType
<1>4. NodeType'
  BY <1>1, UnchangedType DEF cl_raft
<1> QED
  BY <1>2, <1>3, <1>4

-----------------------------------------------------------------------------
(* The failover manager.                                                   *)

LEMMA CompleteType ==
    ASSUME CLTypeOK, NEW n \in Nodes, NEW b \in BOOLEAN, CompleteFailover(n, b) PROVE MgrType'
<1>1. Idle \in MgrStates /\ Idle.pc # "apply"
  BY DEF Idle, MgrStates
<1>2. mgr' = [mgr EXCEPT ![n] = Idle]
  BY DEF CompleteFailover
<1>3. mgr' \in [Nodes -> MgrStates] /\ \A m \in Nodes : mgr'[m].pc = "apply" => mgr'[m].new \in Nodes
  BY <1>1, <1>2, TypeParts DEF MgrType
<1>4. fails' \in [Nodes -> Nat] /\ cooling' \in [Nodes -> BOOLEAN]
  <2>0. fails \in [Nodes -> Nat] /\ cooling \in [Nodes -> BOOLEAN]
    BY TypeParts DEF MgrType
  <2>1. \/ cooling' = [cooling EXCEPT ![n] = TRUE] /\ fails' = [fails EXCEPT ![n] = 0]
        \/ cooling' = cooling /\ fails' = fails
    BY Zenon DEF CompleteFailover
  <2>2. fails' \in [Nodes -> Nat]
    <3>1. CASE fails' = [fails EXCEPT ![n] = 0]
      BY <2>0, <3>1
    <3> QED
      BY <2>0, <2>1, <3>1
  <2>3. cooling' \in [Nodes -> BOOLEAN]
    <3>1. CASE cooling' = [cooling EXCEPT ![n] = TRUE]
      BY <2>0, <3>1
    <3> QED
      BY <2>0, <2>1, <3>1
  <2> QED
    BY <2>2, <2>3
<1> QED
  BY <1>3, <1>4 DEF MgrType

LEMMA ProposesType ==
    ASSUME CLTypeOK, NEW n \in Nodes, NEW old \in Nodes \cup {Nobody}, NEW new \in Nodes,
           Proposes(n, old, new), fails' \in [Nodes -> Nat], UNCHANGED cooling
    PROVE  MgrType'
<1>1. [Idle EXCEPT !.pc = "apply", !.old = old, !.new = new] \in MgrStates
  BY DEF Idle, MgrStates
<1>2. [Idle EXCEPT !.pc = "apply", !.old = old, !.new = new].new = new
  BY DEF Idle
<1> QED
  BY <1>1, <1>2, TypeParts DEF Proposes, MgrType

\* The index that LastAssign chooses, which a longer log does not change.
Scanned(k) ==
    /\ LastAssign(k) \in 0..k
    /\ LastAssign(k) # 0 => log[LastAssign(k)].op = "assign"
    /\ \A i \in 1..k : log[i].op = "assign" => i <= LastAssign(k)
AssignsFound == \A k \in 0..Len(log) : Scanned(k)

LEMMA ActiveIs ==
    ASSUME LogType, AssignsFound, NEW k \in 0..Len(log)
    PROVE  /\ ActiveAfter(k) \in Nodes \cup {Nobody}
           /\ ActiveAfter(k) = Nobody => \A i \in 1..k : log[i].op # "assign"
<1>0. Scanned(k) /\ Len(log) \in Nat
  BY DEF AssignsFound, LogType
<1>1. CASE LastAssign(k) = 0
  BY <1>0, <1>1 DEF ActiveAfter, Scanned
<1>2. CASE LastAssign(k) # 0
  <2>1. LastAssign(k) \in 1..Len(log)
    BY <1>0, <1>2 DEF Scanned
  <2>2. \A i \in 1..Len(log) : log[i].node \in Nodes
    <3> TAKE i \in 1..Len(log)
    <3>1. log[i] \in Entries
      BY DEF LogType
    <3> QED
      BY <3>1 DEF Entries
  <2> QED
    BY <1>2, <2>1, <2>2, LeaseConstants DEF ActiveAfter
<1> QED
  BY <1>1, <1>2

LEMMA FoundInit == CLInit => AssignsFound
<1>1. Scanned(0)
  BY DEF Scanned, LastAssign, Assigns
<1>2. CLInit => log = <<>>
  BY Zenon DEF CLInit
<1>3. log = <<>> => 0..Len(log) = {0}
  OBVIOUS
<1> QED
  BY <1>1, <1>2, <1>3 DEF AssignsFound

LEMMA TypeCheckHealth ==
    ASSUME CLTypeOK, AssignsFound, NEW n \in Nodes, CheckCompactorHealth(n) PROVE CLTypeOK'
<1> USE TypeParts
<1>1. LogType' /\ NodeType' /\ ViewType' /\ WorkType'
  BY UnchangedType DEF CheckCompactorHealth, cl_raft
<1>2. Active(n) \in Nodes \cup {Nobody}
  BY ActiveIs DEF Active, NodeType, LogType
<1>3. UNCHANGED cooling
  BY DEF CheckCompactorHealth
<1>4. CASE TryInitialAssignment(n)
  <2>1. PICK new \in SelectNewCompactor(n, Nobody) : Proposes(n, Nobody, new)
    BY <1>4 DEF TryInitialAssignment
  <2>2. new \in Nodes
    BY DEF SelectNewCompactor, Healthy
  <2>3. fails' \in [Nodes -> Nat]
    BY <1>4 DEF TryInitialAssignment, MgrType
  <2> QED
    BY <1>1, <1>3, <2>1, <2>2, <2>3, ProposesType
<1>5. CASE HolderIsHealthy(n)
  BY <1>1, <1>3, <1>5 DEF HolderIsHealthy, MgrType
<1>6. CASE HolderIsUnhealthy(n)
  <2>1. fails' \in [Nodes -> Nat]
    BY <1>6, LeaseConstants DEF HolderIsUnhealthy, MgrType
  <2>2. [Idle EXCEPT !.pc = "select", !.old = Active(n)] \in MgrStates
    BY <1>2 DEF Idle, MgrStates
  <2>3. \/ mgr' = [mgr EXCEPT ![n] = [Idle EXCEPT !.pc = "select", !.old = Active(n)]]
        \/ mgr' = mgr
    BY <1>6 DEF HolderIsUnhealthy
  <2>4. [Idle EXCEPT !.pc = "select", !.old = Active(n)].pc # "apply"
    BY DEF Idle
  <2>5. mgr' \in [Nodes -> MgrStates] /\ \A m \in Nodes : mgr'[m].pc = "apply" => mgr'[m].new \in Nodes
    BY <2>2, <2>3, <2>4 DEF MgrType
  <2> QED
    BY <1>1, <1>3, <2>1, <2>5 DEF MgrType
<1> QED
  BY <1>4, <1>5, <1>6 DEF CheckCompactorHealth

LEMMA TypeExecute == ASSUME CLTypeOK, NEW n \in Nodes, ExecuteFailover(n) PROVE CLTypeOK'
<1> USE TypeParts
<1>1. LogType' /\ NodeType' /\ ViewType' /\ WorkType'
  BY UnchangedType DEF ExecuteFailover, cl_raft
<1>2. CASE NoCandidate(n)
  BY <1>1, <1>2, CompleteType DEF NoCandidate
<1>3. ASSUME NEW new \in SelectNewCompactor(n, mgr[n].old),
             Proposes(n, mgr[n].old, new), UNCHANGED <<fails, cooling>>
      PROVE  CLTypeOK'
  <2>1. new \in Nodes
    BY DEF SelectNewCompactor, Healthy
  <2>2. mgr[n].old \in Nodes \cup {Nobody} /\ fails' \in [Nodes -> Nat]
    BY <1>3 DEF MgrType, MgrStates
  <2> QED
    BY <1>1, <1>3, <2>1, <2>2, ProposesType
<1> QED
  BY <1>2, <1>3 DEF ExecuteFailover

LEMMA TypeAssign == ASSUME CLTypeOK, NEW n \in Nodes, AssignCompactor(n) PROVE CLTypeOK'
<1> USE TypeParts
<1>1. ViewType' /\ WorkType'
  BY UnchangedType DEF AssignCompactor
<1>2. CASE CompleteFailover(n, FALSE) /\ UNCHANGED log
  <2>1. LogType' /\ NodeType'
    BY <1>2, UnchangedType DEF AssignCompactor, cl_raft
  <2> QED
    BY <1>1, <1>2, <2>1, CompleteType
<1>3. CASE /\ log' = Append(log, [op |-> "assign", node |-> mgr[n].new])
           /\ mgr' = [mgr EXCEPT ![n].pc = "wait", ![n].index = Len(log) + 1]
           /\ UNCHANGED <<fails, cooling>>
  <2>1. [op |-> "assign", node |-> mgr[n].new] \in Entries
    BY DEF AssignCompactor, MgrType, Entries
  <2>2. NodeType' /\ log' \in Seq(Entries) /\ Len(log) \in Nat
    BY <1>3, <2>1, AppendType DEF AssignCompactor
  <2>3. LogType'
    BY <2>2 DEF AssignCompactor, LogType
  <2>4. [mgr[n] EXCEPT !.pc = "wait", !.index = Len(log) + 1] \in MgrStates
    <3>1. mgr[n] \in MgrStates
      BY DEF MgrType
    <3>2. Len(log) + 1 \in Nat
      BY <2>2
    <3>3. \A r \in MgrStates : \A i \in Nat : [r EXCEPT !.pc = "wait", !.index = i] \in MgrStates
      BY DEF MgrStates
    <3> QED
      BY <3>1, <3>2, <3>3
  <2>5. mgr' = [mgr EXCEPT ![n] = [mgr[n] EXCEPT !.pc = "wait", !.index = Len(log) + 1]]
    BY <1>3
  <2>6. [mgr[n] EXCEPT !.pc = "wait", !.index = Len(log) + 1].pc # "apply"
    BY DEF MgrType, MgrStates
  <2>7. mgr' \in [Nodes -> MgrStates] /\ \A m \in Nodes : mgr'[m].pc = "apply" => mgr'[m].new \in Nodes
    BY <2>4, <2>5, <2>6 DEF MgrType
  <2>8. MgrType'
    BY <1>3, <2>7 DEF MgrType
  <2> QED
    BY <1>1, <2>2, <2>3, <2>8
<1> QED
  BY <1>2, <1>3 DEF AssignCompactor

LEMMA TypeEndsOfWaits ==
    ASSUME CLTypeOK, NEW n \in Nodes, AssignEnds(n) \/ CooldownEnds(n) PROVE CLTypeOK'
<1> USE TypeParts
<1>1. LogType' /\ NodeType' /\ ViewType' /\ WorkType'
  BY UnchangedType DEF AssignEnds, CooldownEnds, cl_raft
<1>2. CASE AssignEnds(n)
  BY <1>1, <1>2, CompleteType DEF AssignEnds
<1>3. CASE CooldownEnds(n)
  BY <1>1, <1>3 DEF CooldownEnds, MgrType
<1> QED
  BY <1>2, <1>3

-----------------------------------------------------------------------------
(* The FSM and the hooks.                                                  *)

LEMMA TypeHooks == ASSUME CLTypeOK, NEW n \in Nodes, OnBecome(n) \/ OnLose(n) PROVE CLTypeOK'
<1> USE TypeParts
<1>1. LogType' /\ NodeType' /\ ViewType' /\ MgrType'
  BY UnchangedType DEF OnBecome, OnLose, cl_raft
<1>2. hooks' \in [Nodes -> [become : Nat, lose : Nat]]
  <2>1. \/ hooks[n].become > 0 /\ hooks' = [hooks EXCEPT ![n].become = @ - 1]
        \/ hooks[n].lose > 0 /\ hooks' = [hooks EXCEPT ![n].lose = @ - 1]
    BY DEF OnBecome, OnLose
  <2> QED
    BY <2>1 DEF WorkType
<1>3. \E b, c \in BOOLEAN : running' = [running EXCEPT ![n] = b] /\ watching' = [watching EXCEPT ![n] = c]
  <2>1. CASE OnBecome(n)
    <3>1. (running[n] \/ CanCompact(n)) \in BOOLEAN
      BY Zenon
    <3> QED
      BY <2>1, <3>1, Zenon DEF OnBecome
  <2>2. CASE OnLose(n)
    <3>1. (n \in dedicated) \in BOOLEAN
      OBVIOUS
    <3> QED
      BY <2>2, <3>1, Zenon DEF OnLose
  <2> QED
    BY <2>1, <2>2
<1>4. crossed' \subseteq Nodes
  BY DEF OnBecome, OnLose, WorkType
<1>5. WorkType'
  <2>1. running \in [Nodes -> BOOLEAN] /\ watching \in [Nodes -> BOOLEAN]
    BY DEF WorkType
  <2>2. running' \in [Nodes -> BOOLEAN] /\ watching' \in [Nodes -> BOOLEAN]
    BY <1>3, <2>1
  <2> QED
    BY <1>2, <1>4, <2>2 DEF WorkType
<1> QED
  BY <1>1, <1>5

LEMMA TypeApply == ASSUME CLTypeOK, NEW n \in Nodes, Apply(n) PROVE CLTypeOK'
<1> USE TypeParts
<1>0. LogType' /\ MgrType' /\ UNCHANGED <<log, running, watching, crossed, phase, snap, wired>>
  BY UnchangedType DEF Apply, cl_raft
<1>1. NodeType'
  <2>1. applied' = [applied EXCEPT ![n] = @ + 1] /\ applied[n] < Len(log) /\ Len(log) \in Nat
    BY DEF Apply, LogType
  <2> QED
    BY <1>0, <2>1 DEF NodeType
<1>2. log[applied[n] + 1] \in Entries
  BY DEF Apply, LogType, NodeType
<1>3. ViewType' /\ hooks' \in [Nodes -> [become : Nat, lose : Nat]]
  <2> DEFINE e == log[applied[n] + 1]
  <2>1. CASE e.op \in {"add", "remove"}
    <3>1. \E w \in {"healthy", "absent"} : SeesAs(n, e.node, w)
      BY <2>1 DEF Apply
    <3> QED
      BY <3>1, <1>2 DEF SeesAs, ViewType, WorkType, Entries
  <2>2. CASE e.op = "assign"
    <3>1. view' = view /\ (hooks' = hooks \/ hooks' = [hooks EXCEPT ![n] = OnCompactorAssigned(n, Active(n), e.node)])
      BY <2>2 DEF Apply
    <3>2. OnCompactorAssigned(n, Active(n), e.node) \in [become : Nat, lose : Nat]
      <4> DEFINE b == IF e.node = n /\ Active(n) # n THEN hooks[n].become + 1 ELSE hooks[n].become
      <4> DEFINE l == IF Active(n) = n /\ e.node # n THEN hooks[n].lose + 1 ELSE hooks[n].lose
      <4>1. hooks[n] \in [become : Nat, lose : Nat]
        BY DEF WorkType
      <4>2. b \in Nat /\ l \in Nat
        BY <4>1
      <4>3. OnCompactorAssigned(n, Active(n), e.node) = [hooks[n] EXCEPT !.become = b, !.lose = l]
        BY DEF OnCompactorAssigned
      <4> HIDE DEF b, l
      <4> QED
        BY <4>1, <4>2, <4>3
    <3> QED
      BY <3>1, <3>2 DEF ViewType, WorkType
  <2> QED
    BY <1>2, <2>1, <2>2 DEF Entries
<1>4. WorkType'
  BY <1>0, <1>3 DEF WorkType
<1> QED
  BY <1>0, <1>1, <1>3, <1>4

-----------------------------------------------------------------------------
(* The log, and the lease that a prefix of it gives.                       *)

\* A longer log gives the same lease after each of the entries it had.
LEMMA Prefix ==
    ASSUME LogType, NodeType, AssignsFound,
           NEW e \in Entries, log' = Append(log, e), NEW k \in 0..Len(log)
    PROVE  LastAssign(k)' = LastAssign(k) /\ ActiveAfter(k)' = ActiveAfter(k)
<1>1. \A i \in 1..k : log'[i] = log[i]
  BY AppendType
<1>2. Assigns(k)' = Assigns(k)
  BY <1>1 DEF Assigns
<1>3. LastAssign(k)' = LastAssign(k)
  BY <1>2 DEF LastAssign
<1>4. LastAssign(k) = 0 \/ log'[LastAssign(k)] = log[LastAssign(k)]
  BY <1>1 DEF AssignsFound, Scanned
<1> QED
  BY <1>3, <1>4 DEF ActiveAfter

LEMMA FoundAppend ==
    ASSUME LogType, NodeType, AssignsFound, NEW e \in Entries, log' = Append(log, e)
    PROVE  AssignsFound'
<1>a. Len(log) \in Nat
  BY DEF LogType
<1>b. PICK N \in Nat : N = Len(log) + 1
  BY <1>a
<1>0. Len(log) \in Nat /\ Len(log') = N /\ log'[N] = e /\ \A i \in 1..Len(log) : log'[i] = log[i]
  BY <1>b, AppendType
<1>1. ASSUME NEW k \in 0..Len(log) PROVE Scanned(k)'
  <2>1. Scanned(k) /\ LastAssign(k)' = LastAssign(k)
    BY Prefix DEF AssignsFound
  <2> QED
    BY <1>0, <2>1 DEF Scanned
<1>2. Scanned(N)'
  <2>1. CASE e.op = "assign"
    <3>1. N \in Assigns(N)' /\ \A j \in Assigns(N)' : j <= N /\ j \in Nat
      BY <1>0, <1>b, <2>1 DEF Assigns
    <3>2. \A i \in Assigns(N)' : (\A j \in Assigns(N)' : j <= i) => i = N
      BY <1>0, <3>1
    <3>3. (CHOOSE i \in Assigns(N)' : \A j \in Assigns(N)' : j <= i) = N
      BY <3>1, <3>2
    <3>4. LastAssign(N)' = N
      BY <3>1, <3>3 DEF LastAssign
    <3> QED
      BY <1>0, <1>b, <2>1, <3>4 DEF Scanned
  <2>2. CASE e.op # "assign"
    <3>1. Assigns(N)' = Assigns(Len(log))
      BY <1>0, <1>b, <2>2 DEF Assigns
    <3>2. LastAssign(N)' = LastAssign(Len(log))
      BY <3>1 DEF LastAssign
    <3>3. Scanned(Len(log))
      BY <1>0 DEF AssignsFound
    <3> QED
      BY <1>0, <1>b, <2>2, <3>2, <3>3 DEF Scanned
  <2> QED
    BY <2>1, <2>2
<1>3. \A k \in 0..N : k \in 0..Len(log) \/ k = N
  BY <1>0, <1>b
<1> QED
  BY <1>0, <1>1, <1>2, <1>3 DEF AssignsFound

\* What one more entry does to the lease.
LEMMA NextActive ==
    ASSUME LogType, AssignsFound, NEW k \in 1..Len(log)
    PROVE  ActiveAfter(k) = IF log[k].op = "assign" THEN log[k].node ELSE ActiveAfter(k - 1)
<1>0. Len(log) \in Nat /\ k - 1 \in 0..Len(log) /\ k \in 0..Len(log) /\ k \in 1..k
  BY DEF LogType
<1>1. Scanned(k) /\ Scanned(k - 1)
  BY <1>0 DEF AssignsFound
<1>2. CASE log[k].op = "assign"
  <2>1. LastAssign(k) = k
    BY <1>0, <1>1, <1>2 DEF Scanned
  <2> QED
    BY <1>0, <1>2, <2>1 DEF ActiveAfter
<1>3. CASE log[k].op # "assign"
  <2>1. LastAssign(k) # k
    BY <1>0, <1>1, <1>3 DEF Scanned
  <2>2. LastAssign(k) \in 0..(k - 1) /\ LastAssign(k - 1) \in 0..(k - 1)
    BY <1>0, <1>1, <2>1 DEF Scanned
  <2>3. LastAssign(k) <= LastAssign(k - 1)
    BY <1>0, <1>1, <2>2 DEF Scanned
  <2>4. LastAssign(k - 1) <= LastAssign(k)
    BY <1>0, <1>1, <2>2 DEF Scanned
  <2>5. LastAssign(k) = LastAssign(k - 1)
    BY <1>0, <2>2, <2>3, <2>4
  <2> QED
    BY <1>3, <2>5 DEF ActiveAfter
<1> QED
  BY <1>2, <1>3

-----------------------------------------------------------------------------
(* The type invariant of the specification.                                *)

LEMMA TypeStep == CLTypeOK /\ AssignsFound /\ [CLNext]_cl_vars => CLTypeOK'
<1> SUFFICES ASSUME CLTypeOK, AssignsFound, [CLNext]_cl_vars PROVE CLTypeOK'
  OBVIOUS
<1>1. CASE UNCHANGED cl_vars
  BY <1>1, TypeParts, UnchangedType DEF cl_vars, cl_raft
<1>2. ASSUME NEW n \in Nodes, NodeSteps(n) PROVE CLTypeOK'
  BY <1>2, TypeBoot, TypeHooked, TypeApply, TypeCheckHealth, TypeExecute, TypeAssign,
     TypeEndsOfWaits, TypeHooks DEF NodeSteps, Manages
<1>3. ASSUME NEW n \in Nodes,
             NodeCrash(n) \/ Elect(n) \/ Join(n) \/ RegisterSelf(n) \/ Leave(n) \/ RemoveNode(n)
      PROVE  CLTypeOK'
  BY <1>3, TypeCrash, TypeElect, TypeJoin, TypeRegister, TypeLeave
<1>4. ASSUME NEW m \in Nodes, NEW n \in Nodes, Heartbeat(m, n) \/ ChecksFail(n, m) PROVE CLTypeOK'
  BY <1>4, TypeChecks
<1> QED
  BY <1>1, <1>2, <1>3, <1>4 DEF CLNext

\* Every step leaves the log or appends one entry.
LEMMA LogGrows ==
    ASSUME CLTypeOK, [CLNext]_cl_vars
    PROVE  log' = log \/ \E e \in Entries : log' = Append(log, e)
<1>1. CASE UNCHANGED cl_vars
  BY <1>1 DEF cl_vars, cl_raft
<1>2. ASSUME NEW n \in Nodes, Boot(n) \/ SetCompactorCallbacks(n) \/ Apply(n) \/ CooldownEnds(n)
             \/ OnBecome(n) \/ OnLose(n)
      PROVE  log' = log
  BY <1>2 DEF Boot, SetCompactorCallbacks, Apply, CooldownEnds, OnBecome, OnLose, cl_raft
<1>3. ASSUME NEW n \in Nodes, CheckCompactorHealth(n) \/ ExecuteFailover(n) \/ AssignEnds(n)
      PROVE  log' = log
  BY <1>3 DEF CheckCompactorHealth, ExecuteFailover, AssignEnds, cl_raft
<1>4. ASSUME NEW n \in Nodes, AssignCompactor(n)
      PROVE  log' = log \/ \E e \in Entries : log' = Append(log, e)
  <2>1. [op |-> "assign", node |-> mgr[n].new] \in Entries
    BY <1>4, TypeParts DEF AssignCompactor, MgrType, Entries
  <2> QED
    BY <1>4, <2>1 DEF AssignCompactor
<1>5. ASSUME NEW n \in Nodes, NodeCrash(n) \/ Elect(n) PROVE log' = log
  BY <1>5 DEF NodeCrash, Elect
<1>6. ASSUME NEW n \in Nodes, Join(n) \/ RegisterSelf(n) \/ Leave(n) \/ RemoveNode(n)
      PROVE  log' = log \/ \E e \in Entries : log' = Append(log, e)
  <2>1. [op |-> "add", node |-> n] \in Entries /\ [op |-> "remove", node |-> n] \in Entries
    BY DEF Entries
  <2>2. CASE Join(n)
    BY <2>1, <2>2 DEF Join
  <2>3. CASE Leave(n)
    BY <2>1, <2>3 DEF Leave
  <2>4. CASE RegisterSelf(n) \/ RemoveNode(n)
    BY <2>1, <2>4 DEF RegisterSelf, RemoveNode
  <2> QED
    BY <1>6, <2>2, <2>3, <2>4
<1>7. ASSUME NEW m \in Nodes, NEW n \in Nodes, Heartbeat(m, n) \/ ChecksFail(n, m) PROVE log' = log
  BY <1>7 DEF Heartbeat, ChecksFail, cl_raft
<1> QED
  BY <1>1, <1>2, <1>3, <1>4, <1>5, <1>6, <1>7 DEF CLNext, NodeSteps, Manages

LEMMA FoundStep == CLTypeOK /\ AssignsFound /\ [CLNext]_cl_vars => AssignsFound'
<1> SUFFICES ASSUME CLTypeOK, AssignsFound, [CLNext]_cl_vars PROVE AssignsFound'
  OBVIOUS
<1>1. CASE log' = log
  <2>1. ASSUME NEW k \in 0..Len(log) PROVE Scanned(k)'
    <3>1. LastAssign(k)' = LastAssign(k)
      BY <1>1 DEF LastAssign, Assigns
    <3> QED
      BY <1>1, <3>1 DEF Scanned, AssignsFound
  <2> QED
    BY <1>1, <2>1 DEF AssignsFound
<1>2. ASSUME NEW e \in Entries, log' = Append(log, e) PROVE AssignsFound'
  BY <1>2, FoundAppend, TypeParts
<1> QED
  BY <1>1, <1>2, LogGrows

\* Every variable keeps its type, every index the bounds of the log, whatever
\* fails: fsm.go, coordinator.go, compactor_failover.go.
THEOREM LeaseTypeCorrect == CLSpec => []CLTypeOK
<1>1. CLInit => CLTypeOK /\ AssignsFound
  BY TypeInit, FoundInit
<1>2. CLTypeOK /\ AssignsFound /\ [CLNext]_cl_vars => CLTypeOK' /\ AssignsFound'
  BY TypeStep, FoundStep
<1> QED
  BY <1>1, <1>2, PTL DEF CLSpec

-----------------------------------------------------------------------------
(* The schedulers and the lease.                                           *)

\* Before its hooks are set a node compacts by its role, with no hook pending;
\* afterwards one that compacts without the lease has onLose pending, or was
\* started by its role and never lost the lease; and one that has the lease,
\* given since, compacts or has onBecome pending, unless onLose ran late.
NodeInv(n) ==
    /\ phase[n] # "hooked" => hooks[n] = [become |-> 0, lose |-> 0] /\ (running[n] => n \in dedicated)
    /\ phase[n] = "hooked" /\ running[n] /\ Active(n) # n =>
           hooks[n].lose > 0 \/ (n \in dedicated /\ ~LostSinceWired(n))
    /\ phase[n] = "hooked" /\ Active(n) = n /\ MovedSinceWired(n) /\ n \notin crossed =>
           hooks[n].become > 0 \/ (running[n] /\ watching[n])
LeaseInv == \A n \in Nodes : NodeInv(n)

LEMMA LeaseInit == CLInit => LeaseInv
<1> SUFFICES ASSUME CLInit, NEW n \in Nodes PROVE NodeInv(n)
  BY Zenon DEF LeaseInv
<1>1. applied[n] = 0 /\ wired[n] = 0 /\ (running[n] <=> n = First /\ n \in dedicated)
  BY DEF CLInit
<1>2. phase[n] = (IF n = First THEN "hooked" ELSE "down")
  BY DEF CLInit
<1>3. hooks[n] = [become |-> 0, lose |-> 0]
  BY Zenon DEF CLInit
<1>4. ~LostSinceWired(n) /\ ~MovedSinceWired(n)
  BY <1>1 DEF LostSinceWired, MovedSinceWired
<1> QED
  BY <1>1, <1>2, <1>3, <1>4 DEF NodeInv

\* Whether the lease was lost depends on the entries applied only.
LEMMA SameLease ==
    ASSUME CLTypeOK, AssignsFound, [CLNext]_cl_vars, NEW n \in Nodes
    PROVE  /\ \A k \in 0..Len(log) : ActiveAfter(k)' = ActiveAfter(k)
           /\ \A k \in 1..Len(log) : log'[k] = log[k]
<1>1. CASE log' = log
  <2>1. \A k \in 0..Len(log) : ActiveAfter(k)' = ActiveAfter(k)
    BY <1>1 DEF ActiveAfter, LastAssign, Assigns
  <2> QED
    BY <1>1, <2>1
<1>2. ASSUME NEW e \in Entries, log' = Append(log, e)
      PROVE  /\ \A k \in 0..Len(log) : ActiveAfter(k)' = ActiveAfter(k)
             /\ \A k \in 1..Len(log) : log'[k] = log[k]
  BY <1>2, Prefix, AppendType, TypeParts
<1> QED
  BY <1>1, <1>2, LogGrows

LEMMA StillNotLost ==
    ASSUME CLTypeOK, AssignsFound, [CLNext]_cl_vars, NEW n \in Nodes,
           applied'[n] = applied[n], wired'[n] = wired[n]
    PROVE  /\ LostSinceWired(n)' <=> LostSinceWired(n)
           /\ MovedSinceWired(n)' <=> MovedSinceWired(n)
           /\ Active(n)' = Active(n)
<1>0. applied[n] \in 0..Len(log) /\ wired[n] \in Nat /\ Len(log) \in Nat
  BY TypeParts DEF NodeType, LogType
<1>1. Active(n)' = Active(n)
  BY <1>0, SameLease DEF Active
<1>2. \A i \in (wired[n] + 1)..applied[n] :
        /\ log'[i] = log[i]
        /\ ActiveAfter(i - 1)' = ActiveAfter(i - 1) /\ ActiveAfter(i)' = ActiveAfter(i)
  BY <1>0, SameLease
<1>3. LostSinceWired(n)' <=> LostSinceWired(n)
  BY <1>0, <1>2 DEF LostSinceWired
<1>4. MovedSinceWired(n)' <=> MovedSinceWired(n)
  BY <1>0, <1>2 DEF MovedSinceWired
<1> QED
  BY <1>1, <1>3, <1>4

\* A step that leaves a node's part alone.
LEMMA NodeFrame ==
    ASSUME CLTypeOK, AssignsFound, [CLNext]_cl_vars, NEW n \in Nodes, NodeInv(n),
           applied'[n] = applied[n], wired'[n] = wired[n], phase'[n] = phase[n],
           hooks'[n] = hooks[n], running'[n] = running[n], watching'[n] = watching[n],
           n \in crossed' <=> n \in crossed, dedicated' = dedicated
    PROVE  NodeInv(n)'
BY StillNotLost DEF NodeInv

LEMMA LeaseBoot ==
    ASSUME CLTypeOK, LeaseInv, NEW n \in Nodes, Boot(n) \/ SetCompactorCallbacks(n) PROVE NodeInv(n)'
<1> USE TypeParts
<1>0. NodeInv(n) /\ hooks' = hooks /\ dedicated' = dedicated
  BY DEF LeaseInv, Boot, SetCompactorCallbacks
<1>1. CASE Boot(n)
  <2>1. phase'[n] = "raft" /\ phase[n] = "down" /\ (running'[n] => n \in dedicated)
    BY <1>1 DEF Boot, NodeType, WorkType
  <2> QED
    BY <1>0, <2>1 DEF NodeInv
<1>2. CASE SetCompactorCallbacks(n)
  <2>1. phase'[n] = "hooked" /\ phase[n] = "raft" /\ running' = running
    BY <1>2 DEF SetCompactorCallbacks, NodeType
  <2>2. wired'[n] = applied'[n] /\ applied'[n] \in Nat
    BY <1>2 DEF SetCompactorCallbacks, NodeType
  <2>3. ~LostSinceWired(n)' /\ ~MovedSinceWired(n)'
    BY <2>2 DEF LostSinceWired, MovedSinceWired
  <2> QED
    BY <1>0, <2>1, <2>3 DEF NodeInv
<1> QED
  BY <1>1, <1>2

LEMMA LeaseEnds == ASSUME CLTypeOK, NEW n \in Nodes, Ends(n) PROVE NodeInv(n)'
<1>1. phase'[n] = "down" /\ running'[n] = FALSE /\ hooks'[n] = [become |-> 0, lose |-> 0]
  BY TypeParts DEF Ends, NodeType, WorkType
<1> QED
  BY <1>1 DEF NodeInv

LEMMA LeaseHooks ==
    ASSUME CLTypeOK, AssignsFound, LeaseInv, [CLNext]_cl_vars, NEW n \in Nodes, OnBecome(n) \/ OnLose(n)
    PROVE  NodeInv(n)'
<1> USE TypeParts
<1>0. NodeInv(n) /\ dedicated' = dedicated /\ phase' = phase /\ applied' = applied /\ wired' = wired
  BY DEF LeaseInv, OnBecome, OnLose, cl_node
<1>1. /\ LostSinceWired(n)' <=> LostSinceWired(n)
      /\ MovedSinceWired(n)' <=> MovedSinceWired(n)
      /\ Active(n)' = Active(n)
  BY <1>0, StillNotLost
<1>2. phase[n] = "hooked"
  BY <1>0 DEF OnBecome, OnLose, NodeInv
<1>3. CASE OnLose(n)
  <2>1. running'[n] = FALSE
    BY <1>3 DEF OnLose, WorkType
  <2>2. Active(n) = n => n \in crossed'
    BY <1>3 DEF OnLose
  <2> QED
    BY <1>0, <1>1, <1>2, <2>1, <2>2 DEF NodeInv
<1>4. CASE OnBecome(n)
  <2>1. hooks'[n].lose = hooks[n].lose
    BY <1>4 DEF OnBecome, WorkType
  <2>2. running'[n] => running[n] \/ CanCompact(n)
    BY <1>4 DEF OnBecome, WorkType
  <2>3. CanCompact(n) /\ Active(n) # n => n \in dedicated /\ ~LostSinceWired(n)
    <3>1. CanCompact(n) /\ Active(n) # n => n \in dedicated /\ Active(n) = Nobody
      BY DEF CanCompact
    <3>2. applied[n] \in 0..Len(log) /\ wired[n] \in Nat
      BY DEF NodeType, LogType
    <3>3. Active(n) = Nobody => \A i \in 1..applied[n] : log[i].op # "assign"
      BY <3>2, ActiveIs DEF Active
    <3> QED
      BY <3>1, <3>2, <3>3 DEF LostSinceWired
  <2>4. Active(n) = n => running'[n] /\ watching'[n]
    <3>1. Active(n) = n => CanCompact(n)
      BY LeaseConstants DEF CanCompact
    <3>2. running \in [Nodes -> BOOLEAN] /\ watching \in [Nodes -> BOOLEAN]
      BY DEF WorkType
    <3>3. watching'[n]
      BY <1>4, <3>2 DEF OnBecome
    <3>4. running'[n] = (running[n] \/ CanCompact(n))
      BY <1>4, <3>2, Zenon DEF OnBecome
    <3> QED
      BY <3>1, <3>3, <3>4
  <2> QED
    BY <1>0, <1>1, <1>2, <2>1, <2>2, <2>3, <2>4 DEF NodeInv
<1> QED
  BY <1>3, <1>4

LEMMA LeaseApply ==
    ASSUME CLTypeOK, AssignsFound, LeaseInv, [CLNext]_cl_vars, NEW n \in Nodes, Apply(n)
    PROVE  NodeInv(n)'
<1> USE TypeParts
<1> DEFINE k == applied[n] + 1
<1>0. NodeInv(n) /\ UNCHANGED <<dedicated, log, phase, wired, running, watching, crossed>>
  BY DEF LeaseInv, Apply, cl_raft
<1>1. k \in 1..Len(log) /\ applied'[n] = k /\ applied[n] \in 0..Len(log) /\ wired[n] \in Nat
      /\ wired[n] <= applied[n] /\ k - 1 = applied[n]
  BY DEF Apply, NodeType, LogType
<1>2. Active(n)' = IF log[k].op = "assign" THEN log[k].node ELSE Active(n)
  <2>1. \A j \in 0..Len(log) : ActiveAfter(j)' = ActiveAfter(j)
    BY SameLease
  <2>2. Active(n)' = ActiveAfter(k)
    BY <1>1, <2>1 DEF Active
  <2> QED
    BY <1>1, <2>2, NextActive DEF Active
<1>3. LostSinceWired(n)' => LostSinceWired(n) \/ (log[k].op = "assign" /\ log[k].node # n /\ Active(n) = n)
  <2> SUFFICES ASSUME NEW i \in (wired[n] + 1)..k, log[i].op = "assign", log[i].node # n,
                      ActiveAfter(i - 1) = n
               PROVE  LostSinceWired(n) \/ (log[k].op = "assign" /\ log[k].node # n /\ Active(n) = n)
    <3>1. \A j \in (wired[n] + 1)..k : ActiveAfter(j - 1)' = ActiveAfter(j - 1)
      BY <1>1, SameLease
    <3> QED
      BY <1>0, <1>1, <3>1 DEF LostSinceWired
  <2>1. CASE i = k
    BY <1>1, <2>1 DEF Active
  <2>2. CASE i # k
    BY <1>1, <2>2 DEF LostSinceWired
  <2> QED
    BY <2>1, <2>2
<1>7. MovedSinceWired(n)' => MovedSinceWired(n) \/ Active(n)' # Active(n)
  <2>1. \A j \in (wired[n] + 1)..k :
          ActiveAfter(j - 1)' = ActiveAfter(j - 1) /\ ActiveAfter(j)' = ActiveAfter(j)
    BY <1>1, SameLease
  <2>2. Active(n)' = ActiveAfter(k) /\ Active(n) = ActiveAfter(k - 1)
    BY <1>1, SameLease DEF Active
  <2> SUFFICES ASSUME NEW i \in (wired[n] + 1)..k, ActiveAfter(i) # ActiveAfter(i - 1)
               PROVE  MovedSinceWired(n) \/ Active(n)' # Active(n)
    BY <1>0, <1>1, <2>1 DEF MovedSinceWired
  <2>3. CASE i = k
    BY <2>2, <2>3
  <2>4. CASE i # k
    BY <1>1, <2>4 DEF MovedSinceWired
  <2> QED
    BY <2>3, <2>4
<1>4. CASE phase[n] # "hooked"
  <2>1. hooks' = hooks
    <3>1. log[k] \in Entries
      BY <1>1 DEF LogType
    <3> QED
      BY <1>4, <3>1 DEF Apply, SeesAs, Entries
  <2> QED
    BY <1>0, <1>4, <2>1 DEF NodeInv
<1>5. CASE phase[n] = "hooked" /\ log[k].op = "assign"
  <2>1. hooks'[n] = OnCompactorAssigned(n, Active(n), log[k].node)
    BY <1>5 DEF Apply, WorkType
  <2>2. hooks[n].lose \in Nat /\ hooks[n].become \in Nat
    BY DEF WorkType
  <2>4. hooks'[n].become = IF log[k].node = n /\ Active(n) # n THEN hooks[n].become + 1 ELSE hooks[n].become
    BY <2>1 DEF OnCompactorAssigned, WorkType
  <2>3. hooks'[n].lose = IF Active(n) = n /\ log[k].node # n THEN hooks[n].lose + 1 ELSE hooks[n].lose
    BY <2>1 DEF OnCompactorAssigned, WorkType
  <2> QED
    BY <1>0, <1>2, <1>3, <1>5, <1>7, <2>2, <2>3, <2>4 DEF NodeInv
<1>6. CASE phase[n] = "hooked" /\ log[k].op # "assign"
  <2>1. hooks' = hooks
    <3>1. log[k] \in Entries
      BY <1>1 DEF LogType
    <3> QED
      BY <1>6, <3>1 DEF Apply, SeesAs, Entries
  <2> QED
    BY <1>0, <1>2, <1>3, <1>6, <1>7, <2>1 DEF NodeInv
<1> QED
  BY <1>4, <1>5, <1>6

\* An entry that assigns nothing, appended and applied in one step.
LEMMA AppendKeepsActive ==
    ASSUME LogType, NodeType, AssignsFound, NEW e \in Entries, e.op # "assign", log' = Append(log, e),
           NEW N \in Nat, N = Len(log) + 1
    PROVE  ActiveAfter(N)' = ActiveAfter(Len(log))
<1>0. Len(log) \in Nat /\ log'[N] = e /\ \A i \in 1..Len(log) : log'[i] = log[i]
  BY AppendType
<1>a. PICK k \in Nat : k = Len(log)
  BY <1>0
<1>b. Len(log') = N
  BY AppendType
<1>1. Scanned(N)'
  BY <1>b, FoundAppend DEF AssignsFound
<1>3. Scanned(k)
  BY <1>0, <1>a DEF AssignsFound
<1>2. LastAssign(N)' = LastAssign(k)
  <2>1. LastAssign(N)' # N /\ LastAssign(N)' \in 0..N /\ LastAssign(k) \in 0..k
    BY <1>0, <1>1, <1>3 DEF Scanned
  <2>2. LastAssign(N)' \in 0..k /\ N = k + 1
    BY <1>a, <2>1
  <2>3. LastAssign(N)' = 0 \/ LastAssign(N)' <= LastAssign(k)
    BY <1>0, <1>a, <1>1, <1>3, <2>2 DEF Scanned
  <2>4. LastAssign(k) = 0 \/ LastAssign(k) <= LastAssign(N)'
    BY <1>0, <1>a, <1>1, <1>3, <2>1, <2>2 DEF Scanned
  <2> QED
    BY <2>1, <2>2, <2>3, <2>4
<1>4. LastAssign(k) = 0 \/ log'[LastAssign(k)] = log[LastAssign(k)]
  BY <1>0, <1>a, <1>3 DEF Scanned
<1>5. ActiveAfter(N)' = ActiveAfter(k)
  BY <1>2, <1>4 DEF ActiveAfter
<1> QED
  BY <1>a, <1>5

LEMMA LeaseStep == CLTypeOK /\ AssignsFound /\ LeaseInv /\ [CLNext]_cl_vars => LeaseInv'
<1> SUFFICES ASSUME CLTypeOK, AssignsFound, LeaseInv, [CLNext]_cl_vars, NEW n \in Nodes
             PROVE  NodeInv(n)'
  BY DEF LeaseInv
<1> USE TypeParts
<1>0. NodeInv(n)
  BY DEF LeaseInv
<1>1. ASSUME UNCHANGED <<dedicated, cl_node, cl_work>> PROVE NodeInv(n)'
  BY <1>0, <1>1, NodeFrame DEF cl_node, cl_work
<1>2. CASE UNCHANGED cl_vars
  BY <1>1, <1>2 DEF cl_vars, cl_work
<1>3. ASSUME NEW m \in Nodes, m # n,
             Boot(m) \/ SetCompactorCallbacks(m) \/ Apply(m) \/ OnBecome(m) \/ OnLose(m) \/ Ends(m)
      PROVE  NodeInv(n)'
  <2>1. phase'[n] = phase[n] /\ applied'[n] = applied[n] /\ wired'[n] = wired[n] /\ dedicated' = dedicated
    BY <1>3 DEF Boot, SetCompactorCallbacks, Apply, OnBecome, OnLose, Ends, NodeType, cl_node
  <2>2. running'[n] = running[n] /\ watching'[n] = watching[n] /\ (n \in crossed' <=> n \in crossed)
    BY <1>3 DEF Boot, SetCompactorCallbacks, Apply, OnBecome, OnLose, Ends, WorkType
  <2>3. hooks'[n] = hooks[n]
    <3>1. CASE Apply(m)
      <4>1. log[applied[m] + 1] \in Entries
        BY <3>1 DEF Apply, LogType, NodeType
      <4> QED
        BY <1>3, <3>1, <4>1 DEF Apply, SeesAs, WorkType, Entries
    <3>2. CASE ~Apply(m)
      BY <1>3, <3>2 DEF Boot, SetCompactorCallbacks, OnBecome, OnLose, Ends, WorkType
    <3> QED
      BY <3>1, <3>2
  <2> QED
    BY <1>0, <2>1, <2>2, <2>3, NodeFrame
<1>4. ASSUME NEW m \in Nodes, Boot(m) \/ SetCompactorCallbacks(m) \/ Apply(m) \/ OnBecome(m) \/ OnLose(m)
      PROVE  NodeInv(n)'
  <2>1. CASE m = n
    BY <1>4, <2>1, LeaseBoot, LeaseApply, LeaseHooks
  <2> QED
    BY <1>3, <1>4, <2>1
<1>5. ASSUME NEW m \in Nodes, NodeCrash(m) \/ Leave(m) PROVE NodeInv(n)'
  <2>1. Ends(m)
    BY <1>5 DEF NodeCrash, Leave
  <2> QED
    BY <1>3, <2>1, LeaseEnds
<1>6. ASSUME NEW m \in Nodes, Manages(m) \/ CooldownEnds(m) PROVE NodeInv(n)'
  BY <1>1, <1>6 DEF Manages, CheckCompactorHealth, ExecuteFailover, AssignCompactor, AssignEnds,
     CooldownEnds, cl_work
<1>7. ASSUME NEW m \in Nodes, Elect(m) \/ RegisterSelf(m) \/ RemoveNode(m) PROVE NodeInv(n)'
  BY <1>1, <1>7 DEF Elect, RegisterSelf, RemoveNode, cl_work
<1>8. ASSUME NEW m \in Nodes, Join(m) PROVE NodeInv(n)'
  <2>1. UNCHANGED <<dedicated, phase, wired, cl_work>> /\ applied[leader] = Len(log) /\ leader \in Nodes
    BY <1>8 DEF Join, LogType
  <2>2. CASE n # leader \/ log' = log
    <3>1. applied'[n] = applied[n]
      BY <1>8, <2>1, <2>2 DEF Join, NodeType
    <3> QED
      BY <1>0, <2>1, <3>1, NodeFrame DEF cl_work
  <2>3. CASE n = leader /\ log' # log
    <3> DEFINE e == [op |-> "add", node |-> m]
    <3>1. log' = Append(log, e) /\ applied'[n] = Len(log') /\ e \in Entries /\ e.op = "add"
      BY <1>8, <2>1, <2>3 DEF Join, NodeType, Entries
    <3>2. PICK N \in Nat : N = Len(log) + 1
      BY DEF LogType
    <3>3. applied'[n] = N /\ Len(log) \in Nat /\ log'[N] = e /\ applied[n] = Len(log)
      BY <2>1, <2>3, <3>1, <3>2, AppendType
    <3>4. Active(n)' = Active(n)
      BY <3>1, <3>2, <3>3, AppendKeepsActive DEF Active
    <3>5. LostSinceWired(n)' => LostSinceWired(n)
      <4> SUFFICES ASSUME NEW i \in (wired[n] + 1)..N, log'[i].op = "assign", log'[i].node # n,
                          ActiveAfter(i - 1)' = n
                   PROVE  LostSinceWired(n)
        BY <2>1, <3>3 DEF LostSinceWired
      <4>1. i # N /\ wired[n] \in Nat
        BY <3>1, <3>3 DEF NodeType
      <4>2. i \in (wired[n] + 1)..applied[n] /\ i \in 1..Len(log) /\ i - 1 \in 0..Len(log)
        BY <3>2, <3>3, <4>1
      <4>3. log[i] = log'[i] /\ ActiveAfter(i - 1)' = ActiveAfter(i - 1)
        BY <4>2, SameLease
      <4> QED
        BY <4>2, <4>3 DEF LostSinceWired
    <3>6. MovedSinceWired(n)' => MovedSinceWired(n)
      <4> SUFFICES ASSUME NEW i \in (wired[n] + 1)..N, ActiveAfter(i)' # ActiveAfter(i - 1)'
                   PROVE  MovedSinceWired(n)
        BY <2>1, <3>3 DEF MovedSinceWired
      <4>0. wired[n] \in Nat
        BY DEF NodeType
      <4>1. i # N
        <5>1. PICK k \in Nat : k = Len(log) /\ k = N - 1
          BY <3>2, <3>3
        <5>2. ActiveAfter(k)' = ActiveAfter(k)
          BY <5>1, SameLease
        <5>3. ActiveAfter(N)' = ActiveAfter(Len(log))
          BY <3>1, <3>2, AppendKeepsActive
        <5> QED
          BY <5>1, <5>2, <5>3
      <4>2. i \in (wired[n] + 1)..applied[n] /\ i \in 0..Len(log) /\ i - 1 \in 0..Len(log)
        BY <3>2, <3>3, <4>0, <4>1
      <4>3. ActiveAfter(i)' = ActiveAfter(i) /\ ActiveAfter(i - 1)' = ActiveAfter(i - 1)
        BY <4>2, SameLease
      <4> QED
        BY <4>2, <4>3 DEF MovedSinceWired
    <3> QED
      BY <1>0, <2>1, <3>4, <3>5, <3>6 DEF NodeInv, cl_work
  <2> QED
    BY <2>2, <2>3
<1>9. ASSUME NEW m \in Nodes, NEW k \in Nodes, Heartbeat(m, k) \/ ChecksFail(k, m) PROVE NodeInv(n)'
  BY <1>1, <1>9 DEF Heartbeat, ChecksFail, cl_work
<1> QED
  BY <1>2, <1>4, <1>5, <1>6, <1>7, <1>8, <1>9 DEF CLNext, NodeSteps

LeaseIInv == CLTypeOK /\ AssignsFound /\ LeaseInv

LEMMA LeaseInductive == LeaseIInv /\ [CLNext]_cl_vars => LeaseIInv'
BY TypeStep, FoundStep, LeaseStep DEF LeaseIInv

\* The schedulers run where the lease is: main.go's hooks stop a node that lost
\* it, whatever the order of hooks, elections, crashes and failed commands.
THEOREM SoleCompactorCorrect == CLSpec => []SoleCompactor
<1>1. CLInit => LeaseIInv
  BY TypeInit, FoundInit, LeaseInit DEF LeaseIInv
<1>2. LeaseIInv => SoleCompactor
  <2> SUFFICES ASSUME LeaseIInv, NEW n \in Nodes, AtRest(n), running[n], Holder # n
               PROVE  n \in dedicated /\ ~LostSinceWired(n)
    BY DEF SoleCompactor
  <2>1. NodeInv(n)
    BY DEF LeaseIInv, LeaseInv
  <2>2. Active(n) = Holder /\ hooks[n].lose = 0 /\ phase[n] = "hooked"
    BY DEF AtRest, Active, Holder
  <2> QED
    BY <2>1, <2>2 DEF NodeInv
<1> QED
  BY <1>1, <1>2, LeaseInductive, PTL DEF CLSpec

\* The holder compacts and applies completion manifests once its hooks have run,
\* when the lease moved after it set them: main.go 1489-1520, coordinator.go 2064.
THEOREM HolderCompactsCorrect == CLSpec => []HolderCompacts
<1>1. CLInit => LeaseIInv
  BY TypeInit, FoundInit, LeaseInit DEF LeaseIInv
<1>2. LeaseIInv => HolderCompacts
  <2> SUFFICES ASSUME LeaseIInv, NEW n \in Nodes, AtRest(n), Holder = n, MovedSinceWired(n), n \notin crossed
               PROVE  running[n] /\ watching[n]
    BY DEF HolderCompacts
  <2>1. NodeInv(n)
    BY DEF LeaseIInv, LeaseInv
  <2>2. Active(n) = Holder /\ hooks[n].become = 0 /\ phase[n] = "hooked"
    BY DEF AtRest, Active, Holder
  <2> QED
    BY <2>1, <2>2 DEF NodeInv
<1> QED
  BY <1>1, <1>2, LeaseInductive, PTL DEF CLSpec
=============================================================================
