------------------------ MODULE StoredFiles_proofs ------------------------
(* What migration, delete requests, retention, compaction and a flush do to *)
(* the rows of a measurement, for every number of files, operations and     *)
(* faults.                                                                  *)
EXTENDS StoredFiles, FiniteSetTheorems, WellFoundedInduction, TLAPS

CycleType == [stage : {"idle", "scan", "migrate", "sweep"}, todo : SUBSET Files,
              copied : SUBSET Files, moved : SUBSET Files]
RequestType ==
    [pc : {"idle", "files", "copy", "rename", "wipe", "forget", "drop"}, where : SUBSET Kinds,
     unknown : SUBSET Kinds, todo : SUBSET Files, file : Files \cup {0}, read : SUBSET Rows, gone : SUBSET Rows,
     ok : BOOLEAN]
CompType == [pc : {"idle", "read", "uploaded", "done"}, files : SUBSET Files, rows : SUBSET Rows]

-----------------------------------------------------------------------------
(* Types, in the groups that the actions change.                           *)

Stores(F) == DOMAIN F \subseteq Files /\ \A f \in DOMAIN F : F[f] \subseteq Rows
MetaType == tier \in [Files -> {"none", "hot", "cold"}] /\ recent \subseteq Files
PlanType == plan \subseteq {"hot", "cold"}
CycType == cyc \in [Cycles -> CycleType]
ReqType == req \in [Requests -> RequestType]
NamedType == \A d \in Requests : req[d].pc \in {"copy", "rename"} => req[d].file \in Files
OtherType == doomedFiles \subseteq Files /\ comp \in CompType /\ flush \in {"none", "written", "done"}
SoloType == solo \in Cycles \cup {Nobody}
HistType == /\ written \subseteq Rows /\ doomed \subseteq Rows /\ removed \subseteq Rows
            /\ blame \in [Causes -> SUBSET Rows]
FilesType == Stores(hot) /\ Stores(cold) /\ Stores(temp)

TypeInv == /\ FilesType /\ MetaType /\ PlanType /\ CycType /\ ReqType /\ NamedType
           /\ OtherType /\ SoloType /\ HistType

LEMMA TypeOfTypeInv == TypeInv => SFTypeOK
BY DEF TypeInv, FilesType, Stores, MetaType, HistType, SFTypeOK, RowsIn

LEMMA UnchangedType ==
    /\ FilesType /\ UNCHANGED sf_files => FilesType'
    /\ MetaType /\ UNCHANGED sf_meta => MetaType'
    /\ PlanType /\ UNCHANGED plan => PlanType'
    /\ CycType /\ UNCHANGED cyc => CycType'
    /\ ReqType /\ UNCHANGED req => ReqType'
    /\ NamedType /\ UNCHANGED req => NamedType'
    /\ OtherType /\ UNCHANGED sf_others => OtherType'
    /\ SoloType /\ UNCHANGED solo => SoloType'
    /\ HistType /\ UNCHANGED sf_history => HistType'
BY DEF FilesType, Stores, MetaType, PlanType, CycType, ReqType, NamedType, OtherType, SoloType,
       HistType, sf_files, sf_meta, sf_others, sf_history

\* Constants.
LEMMA FileFacts ==
    /\ Fresh \in Nat /\ Output \in Nat /\ Output = Fresh + 1
    /\ Files \subseteq Nat /\ Files = Sources \cup {Output}
    /\ Output \notin Sources /\ Fresh \in Sources /\ Daily \subseteq Sources /\ Hourly \subseteq Sources
    /\ Fresh \notin Hourly \cup Daily /\ Fresh # Output
<1>1. Fresh \in Nat /\ Hourly \cup Daily \subseteq Nat /\ \A f \in Hourly \cup Daily : f < Fresh
  BY StoredFilesConstants DEF Sources
<1>2. Output = Fresh + 1 /\ Output \in Nat
  BY <1>1 DEF Output
<1>3. \A f \in Hourly \cup Daily : f # Fresh /\ f # Output
  BY <1>1, <1>2
<1> QED
  BY <1>1, <1>2, <1>3 DEF Files, Sources

\* The operations on a tier, row by row.
In(F, f, r) == f \in DOMAIN F /\ r \in F[f]

LEMMA NoFiles == DOMAIN <<>> = {}
OBVIOUS

LEMMA PutFacts ==
    ASSUME NEW F, NEW f, NEW rows
    PROVE  /\ \A g : g \in DOMAIN Put(F, f, rows) <=> g \in DOMAIN F \/ g = f
           /\ Put(F, f, rows)[f] = rows
           /\ \A g \in DOMAIN F : g # f => Put(F, f, rows)[g] = F[g]
BY DEF Put

LEMMA DropFacts ==
    ASSUME NEW F, NEW gone
    PROVE  /\ \A g : g \in DOMAIN Drop(F, gone) <=> g \in DOMAIN F /\ g \notin gone
           /\ \A g \in DOMAIN F : g \notin gone => Drop(F, gone)[g] = F[g]
BY DEF Drop, Restrict

LEMMA RowsInFacts ==
    ASSUME NEW F
    PROVE  \A r : r \in RowsIn(F) <=> \E f \in DOMAIN F : In(F, f, r)
BY DEF RowsIn, In

LEMMA RestrictFacts ==
    ASSUME NEW F, NEW S
    PROVE  /\ DOMAIN Restrict(F, S) = S
           /\ \A g \in S : Restrict(F, S)[g] = F[g]
BY DEF Restrict

LEMMA StoresPut ==
    ASSUME NEW F, Stores(F), NEW f \in Files, NEW rows \in SUBSET Rows
    PROVE  Stores(Put(F, f, rows))
BY PutFacts DEF Stores

LEMMA StoresDrop == ASSUME NEW F, Stores(F), NEW gone PROVE Stores(Drop(F, gone))
BY DropFacts DEF Stores

LEMMA StoresNothing == Stores(<<>>)
BY NoFiles DEF Stores

LEMMA StoresRows == ASSUME NEW F, Stores(F) PROVE RowsIn(F) \subseteq Rows
BY DEF Stores, RowsIn

\* A set of files has a least one.
LEMMA LeastFile == ASSUME NEW S \in SUBSET Files, S # {} PROVE Min(S) \in S
<1>1. S \subseteq Nat
  BY FileFacts
<1>2. PICK n \in S : TRUE
  OBVIOUS
<1> DEFINE Below == {0..m : m \in {k \in S : k =< n}}
<1>3. PICK low \in Below : \A y \in Below : y \subseteq low => y = low
  <2>1. IsFiniteSet(0..n)
    BY <1>1, FS_Interval
  <2>2. IsWellFoundedOn(StrictSubsetOrdering(0..n), SUBSET (0..n))
    BY <2>1, FS_FiniteSubsetsOfFinite, FS_StrictSubsetOrderingWellFounded
  <2>3. Below \subseteq SUBSET (0..n) /\ 0..n \in Below
    BY <1>1
  <2>4. PICK low \in Below : \A y \in Below : ~(<<y, low>> \in StrictSubsetOrdering(0..n))
    <3> HIDE DEF Below
    <3> QED
      BY <2>2, <2>3, WFMin
  <2> QED
    BY <2>3, <2>4 DEF StrictSubsetOrdering
<1>4. PICK m \in S : m =< n /\ low = 0..m
  OBVIOUS
<1>5. \A y \in S : m =< y
  <2> SUFFICES ASSUME NEW y \in S, y < m PROVE FALSE
    BY <1>1
  <2>1. y =< n /\ 0..y \in Below
    BY <1>1, <1>4
  <2>2. 0..y \subseteq low /\ m \in low /\ m \notin 0..y
    BY <1>1, <1>4
  <2> QED
    BY <1>3, <2>1, <2>2
<1> QED
  BY <1>5 DEF Min

-----------------------------------------------------------------------------
(* Every step keeps the types.                                             *)

LEMMA TypeInit == SFInit => TypeInv
<1> SUFFICES ASSUME SFInit PROVE TypeInv
  OBVIOUS
<1>1. PICK present \in SUBSET (Hourly \cup Daily) : hot = [f \in present |-> {f} \X Kinds]
  BY DEF SFInit
<1>2. present \subseteq Sources /\ present \subseteq Files
  BY <1>1, FileFacts DEF Sources
<1>3. Stores(hot)
  <2>1. DOMAIN hot = present /\ \A f \in present : hot[f] = {f} \X Kinds
    BY <1>1
  <2>2. \A f \in present : {f} \X Kinds \subseteq Rows
    BY <1>2 DEF Rows
  <2> QED
    BY <1>2, <2>1, <2>2 DEF Stores
<1>4. FilesType
  BY <1>3, StoresNothing DEF SFInit, FilesType
<1>5. MetaType
  <2>1. tier = [f \in Files |-> IF f \in DOMAIN hot THEN "hot" ELSE "none"] /\ recent = {}
    BY DEF SFInit
  <2> QED
    BY <2>1 DEF MetaType
<1>6. PlanType /\ CycType /\ ReqType /\ NamedType
  BY DEF SFInit, PlanType, CycType, ReqType, NamedType, CycleType, RequestType, NoCycle, NoRequest
<1>7. OtherType /\ SoloType
  BY DEF SFInit, OtherType, CompType, NoComp, SoloType
<1>8. HistType
  <2>1. written = RowsIn(hot) /\ doomed = {} /\ removed = {} /\ blame = [c \in Causes |-> {}]
    BY DEF SFInit
  <2> QED
    BY <1>3, <2>1, StoresRows DEF HistType
<1> QED
  BY <1>4, <1>5, <1>6, <1>7, <1>8 DEF TypeInv

\* What rows the blame may be put on.
LEMMA BlameType ==
    ASSUME HistType, NEW cause \in Causes, NEW rows \in SUBSET Rows, Blame(cause, rows)
    PROVE  /\ blame' \in [Causes -> SUBSET Rows]
           /\ \A c \in Causes : blame'[c] = IF c = cause THEN blame[c] \cup rows ELSE blame[c]
BY DEF HistType, Blame

LEMMA HiddenType ==
    ASSUME FilesType, NEW f, NEW t PROVE Hidden(f, t) \subseteq Rows
BY DEF FilesType, Stores, Hidden

LEMMA RecordType ==
    ASSUME MetaType, NEW f \in Files, RecordHot(f) PROVE MetaType'
BY DEF MetaType, RecordHot

LEMMA StepKindType ==
    /\ SoloType /\ NoFault => SoloType'
    /\ Fault => SoloType'
    /\ SoloType /\ Starts(Nobody) => SoloType' /\ (PlanType => PlanType')
    /\ \A c \in Cycles : SoloType /\ Starts(c) => SoloType' /\ (PlanType => PlanType')
BY DEF SoloType, NoFault, Fault, Starts, PlanType

\* A cycle's own record.
LEMMA CycMoves ==
    ASSUME CycType, NEW c \in Cycles, NEW stage \in {"idle", "scan", "migrate", "sweep"},
           NEW todo \in SUBSET Files, CycleMoves(c, stage, todo)
    PROVE  /\ CycType'
           /\ cyc'[c].stage = stage /\ cyc'[c].todo = todo
           /\ cyc'[c].copied = cyc[c].copied /\ cyc'[c].moved = cyc[c].moved
           /\ \A b \in Cycles : b # c => cyc'[b] = cyc[b]
BY DEF CycType, CycleType, CycleMoves

LEMMA CycDone ==
    ASSUME CycType, NEW c \in Cycles, NEW f, CycleDone(c, f)
    PROVE  /\ CycType'
           /\ cyc'[c].stage = cyc[c].stage /\ cyc'[c].todo = cyc[c].todo \ {f}
           /\ cyc'[c].copied = cyc[c].copied /\ cyc'[c].moved = cyc[c].moved
           /\ \A b \in Cycles : b # c => cyc'[b] = cyc[b]
BY DEF CycType, CycleType, CycleDone

LEMMA CycCopied ==
    ASSUME CycType, NEW c \in Cycles, NEW f \in Files,
           cyc' = [cyc EXCEPT ![c].todo = @ \ {f}, ![c].copied = @ \cup {f}]
    PROVE  /\ CycType'
           /\ cyc'[c].stage = cyc[c].stage /\ cyc'[c].todo = cyc[c].todo \ {f}
           /\ cyc'[c].copied = cyc[c].copied \cup {f} /\ cyc'[c].moved = cyc[c].moved
           /\ \A b \in Cycles : b # c => cyc'[b] = cyc[b]
BY DEF CycType, CycleType

LEMMA CycRecorded ==
    ASSUME CycType, NEW c \in Cycles, NEW f \in Files,
           cyc' = [cyc EXCEPT ![c].copied = @ \ {f}, ![c].moved = @ \cup {f}]
    PROVE  /\ CycType'
           /\ cyc'[c].stage = cyc[c].stage /\ cyc'[c].todo = cyc[c].todo
           /\ cyc'[c].copied = cyc[c].copied \ {f} /\ cyc'[c].moved = cyc[c].moved \cup {f}
           /\ \A b \in Cycles : b # c => cyc'[b] = cyc[b]
BY DEF CycType, CycleType

LEMMA CycUncopied ==
    ASSUME CycType, NEW c \in Cycles, NEW f, cyc' = [cyc EXCEPT ![c].copied = @ \ {f}]
    PROVE  /\ CycType'
           /\ cyc'[c].stage = cyc[c].stage /\ cyc'[c].todo = cyc[c].todo
           /\ cyc'[c].copied = cyc[c].copied \ {f} /\ cyc'[c].moved = cyc[c].moved
           /\ \A b \in Cycles : b # c => cyc'[b] = cyc[b]
BY DEF CycType, CycleType

LEMMA CycDeleted ==
    ASSUME CycType, NEW c \in Cycles, NEW f, cyc' = [cyc EXCEPT ![c].moved = @ \ {f}]
    PROVE  /\ CycType'
           /\ cyc'[c].stage = cyc[c].stage /\ cyc'[c].todo = cyc[c].todo
           /\ cyc'[c].copied = cyc[c].copied /\ cyc'[c].moved = cyc[c].moved \ {f}
           /\ \A b \in Cycles : b # c => cyc'[b] = cyc[b]
BY DEF CycType, CycleType

LEMMA CycCrash == cyc' = [c \in Cycles |-> NoCycle] => CycType' /\ \A c \in Cycles : cyc'[c] = NoCycle
BY DEF CycType, CycleType, NoCycle

\* A request's own record.
LEMMA ReqMoved ==
    ASSUME ReqType, NEW d \in Requests,
           NEW pc \in {"idle", "files", "copy", "rename", "wipe", "forget", "drop"}, ReqMoves(d, pc)
    PROVE  /\ ReqType'
           /\ req'[d].pc = pc /\ req'[d].where = req[d].where /\ req'[d].todo = req[d].todo
           /\ req'[d].file = req[d].file /\ req'[d].read = req[d].read
           /\ req'[d].gone = req[d].gone /\ req'[d].ok = req[d].ok
           /\ \A e \in Requests : e # d => req'[e] = req[e]
BY DEF ReqType, RequestType, ReqMoves

LEMMA ReqReset ==
    ASSUME ReqType, NEW d \in Requests, req' = [req EXCEPT ![d] = NoRequest]
    PROVE  /\ ReqType'
           /\ req'[d].pc = "idle" /\ req'[d].todo = {} /\ req'[d].read = {} /\ req'[d].gone = {}
           /\ \A e \in Requests : e # d => req'[e] = req[e]
BY DEF ReqType, RequestType, NoRequest

LEMMA ReqStart ==
    ASSUME ReqType, NEW d \in Requests, NEW todo \in SUBSET Files,
           NEW where \in SUBSET Kinds, NEW unknown \in SUBSET Kinds,
           req' = [req EXCEPT ![d] = [NoRequest EXCEPT !.pc = "files", !.todo = todo,
                                         !.where = where, !.unknown = unknown]]
    PROVE  /\ ReqType'
           /\ req'[d].pc = "files" /\ req'[d].where = where /\ req'[d].todo = todo
           /\ req'[d].read = {} /\ req'[d].gone = {}
           /\ \A e \in Requests : e # d => req'[e] = req[e]
BY DEF ReqType, RequestType, NoRequest

LEMMA ReqStartDrop ==
    ASSUME ReqType, NEW d \in Requests, NEW todo \in SUBSET Files,
           req' = [req EXCEPT ![d] = [NoRequest EXCEPT !.pc = "drop", !.todo = todo]]
    PROVE  /\ ReqType'
           /\ req'[d].pc = "drop" /\ req'[d].todo = todo
           /\ req'[d].read = {} /\ req'[d].gone = {}
           /\ \A e \in Requests : e # d => req'[e] = req[e]
BY DEF ReqType, RequestType, NoRequest

\* The fields of one request; the rest of the requests stay.
LEMMA ReqField ==
    ASSUME NEW q \in [Requests -> RequestType], NEW d \in Requests
    PROVE  /\ \A v \in {"idle", "files", "copy", "rename", "wipe", "forget", "drop"} :
                [q EXCEPT ![d].pc = v] \in [Requests -> RequestType]
           /\ \A v \in SUBSET Files : [q EXCEPT ![d].todo = v] \in [Requests -> RequestType]
           /\ \A v \in Files : [q EXCEPT ![d].file = v] \in [Requests -> RequestType]
           /\ \A v \in SUBSET Rows : [q EXCEPT ![d].read = v] \in [Requests -> RequestType]
           /\ \A v \in SUBSET Rows : [q EXCEPT ![d].gone = v] \in [Requests -> RequestType]
           /\ \A v \in BOOLEAN : [q EXCEPT ![d].ok = v] \in [Requests -> RequestType]
<1>1. \A v \in SUBSET Files : [q EXCEPT ![d].todo = v] \in [Requests -> RequestType]
  <2>1. \A v \in SUBSET Files : [q[d] EXCEPT !.todo = v] \in RequestType
    BY DEF RequestType
  <2> QED
    BY <2>1
<1>2. \A v \in Files : [q EXCEPT ![d].file = v] \in [Requests -> RequestType]
  <2>1. \A v \in Files : [q[d] EXCEPT !.file = v] \in RequestType
    BY DEF RequestType
  <2> QED
    BY <2>1
<1>3. \A v \in SUBSET Rows : [q EXCEPT ![d].read = v] \in [Requests -> RequestType]
  <2>1. \A v \in SUBSET Rows : [q[d] EXCEPT !.read = v] \in RequestType
    BY DEF RequestType
  <2> QED
    BY <2>1
<1>4. \A v \in SUBSET Rows : [q EXCEPT ![d].gone = v] \in [Requests -> RequestType]
  <2>1. \A v \in SUBSET Rows : [q[d] EXCEPT !.gone = v] \in RequestType
    BY DEF RequestType
  <2> QED
    BY <2>1
<1>5. \A v \in BOOLEAN : [q EXCEPT ![d].ok = v] \in [Requests -> RequestType]
  <2>1. \A v \in BOOLEAN : [q[d] EXCEPT !.ok = v] \in RequestType
    BY DEF RequestType
  <2> QED
    BY <2>1
<1>6. \A v \in {"idle", "files", "copy", "rename", "wipe", "forget", "drop"} :
                [q EXCEPT ![d].pc = v] \in [Requests -> RequestType]
  <2>1. \A v \in {"idle", "files", "copy", "rename", "wipe", "forget", "drop"} :
           [q[d] EXCEPT !.pc = v] \in RequestType
    BY DEF RequestType
  <2> QED
    BY <2>1
<1> QED BY <1>1, <1>2, <1>3, <1>4, <1>5, <1>6

LEMMA ReqDone ==
    ASSUME ReqType, NEW d \in Requests, NEW f,
           \/ req' = [req EXCEPT ![d].todo = @ \ {f}, ![d].ok = FALSE]
           \/ req' = [req EXCEPT ![d].todo = @ \ {f}]
    PROVE  /\ ReqType'
           /\ req'[d].pc = req[d].pc /\ req'[d].where = req[d].where
           /\ req'[d].todo = req[d].todo \ {f}
           /\ req'[d].file = req[d].file /\ req'[d].read = req[d].read
           /\ req'[d].gone = req[d].gone
           /\ \A e \in Requests : e # d => req'[e] = req[e]
<1> DEFINE todo == req[d].todo \ {f}
           q == [req EXCEPT ![d].todo = todo]
<1>1. todo \in SUBSET Files
  BY DEF ReqType, RequestType
<1>2. q \in [Requests -> RequestType]
  <2> HIDE DEF todo
  <2> QED
    BY <1>1, ReqField DEF ReqType
<1>3. ReqType'
  <2>1. req' = [q EXCEPT ![d].ok = FALSE] \/ req' = q
    BY DEF ReqType, RequestType
  <2> HIDE DEF q
  <2>2. [q EXCEPT ![d].ok = FALSE] \in [Requests -> RequestType]
    BY <1>2, ReqField
  <2> QED
    BY <1>2, <2>1, <2>2 DEF ReqType
<1>4. CASE req' = [req EXCEPT ![d].todo = @ \ {f}, ![d].ok = FALSE]
  BY <1>3, <1>4 DEF ReqType, RequestType
<1>5. CASE req' = [req EXCEPT ![d].todo = @ \ {f}]
  BY <1>3, <1>5 DEF ReqType, RequestType
<1> QED
  BY <1>4, <1>5

LEMMA ReqReads ==
    ASSUME ReqType, NEW d \in Requests, NEW f \in Files,
           NEW kept \in SUBSET Rows, NEW gone \in SUBSET Rows,
           req' = [req EXCEPT ![d].pc = "copy", ![d].todo = @ \ {f}, ![d].file = f,
                                ![d].read = kept, ![d].gone = gone]
    PROVE  /\ ReqType'
           /\ req'[d].pc = "copy" /\ req'[d].where = req[d].where
           /\ req'[d].todo = req[d].todo \ {f}
           /\ req'[d].file = f /\ req'[d].read = kept /\ req'[d].gone = gone
           /\ \A e \in Requests : e # d => req'[e] = req[e]
<1> DEFINE todo == req[d].todo \ {f}
           q1 == [req EXCEPT ![d].pc = "copy"]
           q2 == [q1 EXCEPT ![d].todo = todo]
           q3 == [q2 EXCEPT ![d].file = f]
           q4 == [q3 EXCEPT ![d].read = kept]
           q5 == [q4 EXCEPT ![d].gone = gone]
<1>1. todo \in SUBSET Files
  BY DEF ReqType, RequestType
<1>2. q5 \in [Requests -> RequestType]
  <2> HIDE DEF todo
  <2>1. q1 \in [Requests -> RequestType]
    BY ReqField DEF ReqType
  <2> HIDE DEF q1
  <2>2. q2 \in [Requests -> RequestType]
    BY <1>1, <2>1, ReqField
  <2> HIDE DEF q2
  <2>3. q3 \in [Requests -> RequestType]
    BY <2>2, ReqField
  <2> HIDE DEF q3
  <2>4. q4 \in [Requests -> RequestType]
    BY <2>3, ReqField
  <2> HIDE DEF q4
  <2> QED
    BY <2>4, ReqField
<1>3. req' = q5
  BY DEF ReqType, RequestType
<1>4. ReqType'
  BY <1>2, <1>3 DEF ReqType
<1>5. /\ req'[d].pc = "copy" /\ req'[d].where = req[d].where /\ req'[d].todo = req[d].todo \ {f}
      /\ req'[d].file = f /\ req'[d].read = kept /\ req'[d].gone = gone
  BY DEF ReqType, RequestType
<1>6. \A e \in Requests : e # d => req'[e] = req[e]
  BY <1>3 DEF ReqType
<1> QED
  BY <1>4, <1>5, <1>6

LEMMA ReqDrops ==
    ASSUME ReqType, NEW d \in Requests,
           \/ req' = [req EXCEPT ![d].pc = "files", ![d].ok = FALSE, ![d].read = {}]
           \/ req' = [req EXCEPT ![d].pc = "files", ![d].read = {}, ![d].gone = {}]
           \/ req' = [req EXCEPT ![d].pc = "files", ![d].read = {}, ![d].gone = {}, ![d].ok = FALSE]
    PROVE  /\ ReqType'
           /\ req'[d].pc = "files" /\ req'[d].where = req[d].where
           /\ req'[d].todo = req[d].todo /\ req'[d].file = req[d].file
           /\ req'[d].read = {} /\ req'[d].gone \subseteq req[d].gone
           /\ \A e \in Requests : e # d => req'[e] = req[e]
<1> DEFINE q1 == [req EXCEPT ![d].pc = "files"]
           q2 == [q1 EXCEPT ![d].ok = FALSE]
           q3 == [q1 EXCEPT ![d].read = {}]
           q4 == [q3 EXCEPT ![d].gone = {}]
<1>1. {} \in SUBSET Rows
  OBVIOUS
<1>2. /\ [q2 EXCEPT ![d].read = {}] \in [Requests -> RequestType]
      /\ q4 \in [Requests -> RequestType] /\ [q4 EXCEPT ![d].ok = FALSE] \in [Requests -> RequestType]
  <2>1. q1 \in [Requests -> RequestType]
    BY ReqField DEF ReqType
  <2> HIDE DEF q1
  <2>2. q2 \in [Requests -> RequestType] /\ q3 \in [Requests -> RequestType]
    BY <1>1, <2>1, ReqField
  <2> HIDE DEF q2, q3
  <2>3. q4 \in [Requests -> RequestType] /\ [q2 EXCEPT ![d].read = {}] \in [Requests -> RequestType]
    BY <1>1, <2>2, ReqField
  <2> HIDE DEF q4
  <2> QED
    BY <2>3, ReqField
<1>3. CASE req' = [req EXCEPT ![d].pc = "files", ![d].ok = FALSE, ![d].read = {}]
  <2>1. req' = [q2 EXCEPT ![d].read = {}]
    BY <1>3 DEF ReqType, RequestType
  <2>2. /\ req'[d].pc = "files" /\ req'[d].where = req[d].where
        /\ req'[d].todo = req[d].todo /\ req'[d].file = req[d].file
        /\ req'[d].read = {} /\ req'[d].gone = req[d].gone
    BY <1>3 DEF ReqType, RequestType
  <2>3. \A e \in Requests : e # d => req'[e] = req[e]
    BY <1>3 DEF ReqType
  <2> QED
    BY <1>2, <2>1, <2>2, <2>3 DEF ReqType
<1>4. CASE req' = [req EXCEPT ![d].pc = "files", ![d].read = {}, ![d].gone = {}]
  <2>1. req' = q4
    BY <1>4 DEF ReqType, RequestType
  <2>2. /\ req'[d].pc = "files" /\ req'[d].where = req[d].where
        /\ req'[d].todo = req[d].todo /\ req'[d].file = req[d].file
        /\ req'[d].read = {} /\ req'[d].gone = {}
    BY <1>4 DEF ReqType, RequestType
  <2>3. \A e \in Requests : e # d => req'[e] = req[e]
    BY <1>4 DEF ReqType
  <2> QED
    BY <1>2, <2>1, <2>2, <2>3 DEF ReqType
<1>5. CASE req' = [req EXCEPT ![d].pc = "files", ![d].read = {}, ![d].gone = {}, ![d].ok = FALSE]
  <2>1. req' = [q4 EXCEPT ![d].ok = FALSE]
    BY <1>5 DEF ReqType, RequestType
  <2>2. /\ req'[d].pc = "files" /\ req'[d].where = req[d].where
        /\ req'[d].todo = req[d].todo /\ req'[d].file = req[d].file
        /\ req'[d].read = {} /\ req'[d].gone = {}
    BY <1>5 DEF ReqType, RequestType
  <2>3. \A e \in Requests : e # d => req'[e] = req[e]
    BY <1>5 DEF ReqType
  <2> QED
    BY <1>2, <2>1, <2>2, <2>3 DEF ReqType
<1> QED
  BY <1>3, <1>4, <1>5

LEMMA ReqCrash ==
    req' = [d \in Requests |-> NoRequest] => ReqType' /\ NamedType' /\ \A d \in Requests : req'[d] = NoRequest
BY DEF ReqType, NamedType, RequestType, NoRequest

\* CountRows with what it finds in f: the rows gone, kept, and dropped unasked.
Counts(d, f, gone, kept, unasked) ==
    \/ /\ f \notin DOMAIN hot /\ UNCHANGED <<hot, removed, blame>> /\ NoFault
       /\ req' = [req EXCEPT ![d].todo = @ \ {f}, ![d].ok = FALSE]
    \/ /\ f \in DOMAIN hot /\ kept = {} /\ req' = [req EXCEPT ![d].todo = @ \ {f}]
       /\ removed' = removed \cup gone
       /\ \/ /\ hot' = Drop(hot, {f}) /\ NoFault
             /\ blame' = [blame EXCEPT !["overtaken"] = @ \cup (gone \cap Elsewhere(d, f)),
                                       !["unknown"] = @ \cup unasked]
          \/ UNCHANGED hot /\ Fault /\ Blame("left", gone)
    \/ /\ f \in DOMAIN hot /\ UNCHANGED <<hot, removed>> /\ NoFault /\ Blame("unknown", unasked)
       /\ req' = [req EXCEPT ![d].pc = "copy", ![d].todo = @ \ {f}, ![d].file = f,
                             ![d].read = kept, ![d].gone = gone]

LEMMA CountsRows ==
    ASSUME FilesType, NEW d, NEW f, CountRows(d, f)
    PROVE  /\ req[d].pc = "files" /\ f \in req[d].todo
           /\ UNCHANGED <<cold, temp, sf_meta, cyc, sf_others, starts, plan, written, doomed>>
           /\ \E gone, kept, unasked \in SUBSET Rows :
                /\ Counts(d, f, gone, kept, unasked)
                /\ f \in DOMAIN hot => /\ kept = hot[f] \ gone /\ gone \subseteq hot[f]
                                       /\ gone \subseteq Selected(req[d].where) \cup unasked
                                       /\ unasked \subseteq gone
<1> DEFINE rows == IF f \in DOMAIN hot THEN hot[f] ELSE {}
           unasked == rows \cap Selected(req[d].unknown)
           gone == (rows \cap Selected(req[d].where)) \cup unasked
           kept == rows \ gone
<1>1. rows \subseteq Rows
  BY DEF FilesType, Stores
<1>2. gone \in SUBSET Rows /\ kept \in SUBSET Rows /\ unasked \in SUBSET Rows
  BY <1>1
<1>3. \/ /\ f \notin DOMAIN hot /\ UNCHANGED <<hot, removed, blame>> /\ NoFault
         /\ req' = [req EXCEPT ![d].todo = @ \ {f}, ![d].ok = FALSE]
      \/ /\ f \in DOMAIN hot /\ kept = {} /\ req' = [req EXCEPT ![d].todo = @ \ {f}]
         /\ removed' = removed \cup gone
         /\ \/ /\ hot' = Drop(hot, {f}) /\ NoFault
               /\ blame' = [blame EXCEPT !["overtaken"] = @ \cup (gone \cap Elsewhere(d, f)),
                                         !["unknown"] = @ \cup unasked]
            \/ UNCHANGED hot /\ Fault /\ Blame("left", gone)
      \/ /\ kept # {} /\ UNCHANGED <<hot, removed>> /\ NoFault /\ Blame("unknown", unasked)
         /\ req' = [req EXCEPT ![d].pc = "copy", ![d].todo = @ \ {f}, ![d].file = f,
                               ![d].read = kept, ![d].gone = gone]
  BY DEF CountRows
<1>4. kept # {} => f \in DOMAIN hot
  OBVIOUS
<1>5. f \in DOMAIN hot => /\ kept = hot[f] \ gone /\ gone \subseteq hot[f]
                         /\ gone \subseteq Selected(req[d].where) \cup unasked
                         /\ unasked \subseteq gone
  OBVIOUS
<1>6. /\ req[d].pc = "files" /\ f \in req[d].todo
      /\ UNCHANGED <<cold, temp, sf_meta, cyc, sf_others, starts, plan, written, doomed>>
  BY DEF CountRows
<1> HIDE DEF gone, kept, unasked
<1>7. Counts(d, f, gone, kept, unasked)
  BY <1>3, <1>4 DEF Counts
<1> QED
  BY <1>2, <1>5, <1>6, <1>7

LEMMA CycleTypeStep ==
    ASSUME TypeInv, NEW c \in Cycles,
           \/ StartCycle(c) \/ Register(c) \/ FindCandidates(c) \/ FindOrphans(c)
           \/ SweepOrphan(c) \/ EndCycle(c)
           \/ \E f \in Daily \cup {Output} : Copy(c, f) \/ UpdateTier(c, f) \/ DeleteSource(c, f)
    PROVE  TypeInv'
<1> USE DEF TypeInv
<1>1. CASE StartCycle(c)
  <2>1. DOMAIN hot \in SUBSET Files
    BY DEF FilesType, Stores
  <2>2. CycType'
    BY <1>1, <2>1, CycMoves DEF StartCycle
  <2>3. SoloType' /\ PlanType'
    BY <1>1, StepKindType DEF StartCycle
  <2> QED
    BY <1>1, <2>2, <2>3, UnchangedType DEF StartCycle
<1>2. CASE Register(c)
  <2> DEFINE f == Min(cyc[c].todo)
  <2>1. f \in Files /\ cyc[c].todo \in SUBSET Files
    BY <1>2, LeastFile DEF Register, CycType, CycleType
  <2> HIDE DEF f
  <2>2. CycType'
    BY <1>2, CycDone DEF Register, f
  <2>3. MetaType' /\ HistType' /\ SoloType'
    <3>1. CASE /\ RecordHot(f) /\ NoFault
               /\ blame' = [blame EXCEPT !["cached"] = @ \cup Hidden(f, "hot"),
                                  !["rescan"] = @ \cup (IF Leaving(f) THEN cold[f] ELSE {})]
      <4>1. (IF Leaving(f) THEN cold[f] ELSE {}) \subseteq Rows
        BY DEF FilesType, Stores, Leaving
      <4>2. blame' \in [Causes -> SUBSET Rows]
        BY <3>1, <4>1, HiddenType DEF HistType
      <4> QED
        BY <1>2, <2>1, <3>1, <4>2, RecordType, StepKindType DEF HistType, Register
    <3>2. CASE UNCHANGED <<sf_meta, blame>> /\ Fault
      BY <1>2, <3>2, UnchangedType, StepKindType DEF Register, HistType
    <3> QED
      BY <1>2, <3>1, <3>2 DEF Register, f
  <2> QED
    BY <1>2, <2>2, <2>3, UnchangedType DEF Register
<1>3. CASE FindCandidates(c)
  <2>1. {f \in Daily \cup {Output} : tier[f] = "hot"} \in SUBSET Files
    BY FileFacts
  <2>2. CycType'
    BY <1>3, <2>1, CycMoves DEF FindCandidates
  <2> QED
    BY <1>3, <2>2, UnchangedType, StepKindType DEF FindCandidates
<1>4. CASE FindOrphans(c)
  <2>1. {f \in recent : tier[f] = "cold"} \in SUBSET Files
    BY DEF MetaType
  <2>2. CycType'
    BY <1>4, <2>1, CycMoves DEF FindOrphans
  <2> QED
    BY <1>4, <2>2, UnchangedType, StepKindType DEF FindOrphans
<1>5. CASE SweepOrphan(c)
  <2>1. CycType'
    BY <1>5, CycDone DEF SweepOrphan
  <2>2. Stores(hot')
    <3>1. hot' = Drop(hot, {Min(cyc[c].todo)}) \/ hot' = hot
      BY <1>5 DEF SweepOrphan
    <3> QED
      BY <3>1, StoresDrop DEF FilesType
  <2>3. FilesType'
    BY <1>5, <2>2 DEF SweepOrphan, FilesType
  <2>4. SoloType'
    BY <1>5, StepKindType DEF SweepOrphan
  <2> QED
    BY <1>5, <2>1, <2>3, <2>4, UnchangedType DEF SweepOrphan
<1>6. CASE EndCycle(c)
  <2>1. CycType'
    BY <1>6, CycMoves DEF EndCycle
  <2> QED
    BY <1>6, <2>1, UnchangedType, StepKindType DEF EndCycle
<1>7. ASSUME NEW f \in Daily \cup {Output}, Copy(c, f) PROVE TypeInv'
  <2>1. f \in Files
    BY FileFacts
  <2>2. CycType'
    BY <1>7, <2>1, CycDone, CycCopied DEF Copy
  <2>3. Stores(cold')
    <3>1. \/ f \in DOMAIN hot /\ cold' = Put(cold, f, hot[f])
          \/ cold' = cold
      BY <1>7 DEF Copy
    <3>2. f \in DOMAIN hot => hot[f] \in SUBSET Rows
      BY DEF FilesType, Stores
    <3> QED
      BY <2>1, <3>1, <3>2, StoresPut DEF FilesType
  <2>4. FilesType'
    BY <1>7, <2>3 DEF Copy, FilesType
  <2>5. SoloType'
    BY <1>7, StepKindType DEF Copy
  <2> QED
    BY <1>7, <2>2, <2>4, <2>5, UnchangedType DEF Copy
<1>8. ASSUME NEW f \in Daily \cup {Output}, UpdateTier(c, f) PROVE TypeInv'
  <2>1. f \in Files
    BY FileFacts
  <2>2. CycType'
    BY <1>8, <2>1, CycRecorded, CycUncopied DEF UpdateTier
  <2>3. Stores(cold')
    <3>1. cold' = cold \/ cold' = Drop(cold, {f})
      BY <1>8 DEF UpdateTier, RollBack, KeepCopy
    <3> QED
      BY <3>1, StoresDrop DEF FilesType
  <2>4. FilesType'
    BY <1>8, <2>3 DEF UpdateTier, FilesType
  <2>5. SoloType'
    BY <1>8, StepKindType DEF UpdateTier
  <2>6. MetaType'
    <3>1. \/ tier' = [tier EXCEPT ![f] = "cold"] /\ recent' = recent \cup {f}
          \/ UNCHANGED sf_meta
      BY <1>8 DEF UpdateTier
    <3> QED
      BY <2>1, <3>1, UnchangedType DEF MetaType
  <2>7. \E cause \in Causes, rows \in SUBSET Rows : Blame(cause, rows)
    <3>1. (IF f \in DOMAIN cold THEN cold[f] ELSE {}) \in SUBSET Rows
      BY DEF FilesType, Stores
    <3>2. Hidden(f, "cold") \in SUBSET Rows
      BY HiddenType
    <3>3. {} \in SUBSET Rows /\ (f \in DOMAIN cold => cold[f] \in SUBSET Rows)
      BY DEF FilesType, Stores
    <3>4. \/ Blame("cached", Hidden(f, "cold")) \/ RollBack(c, f) \/ KeepCopy(f)
      BY <1>8 DEF UpdateTier
    <3>5. RollBack(c, f) => \E rows \in SUBSET Rows : Blame("rollback", rows)
      BY <3>3 DEF RollBack
    <3>6. KeepCopy(f) => \E rows \in SUBSET Rows : Blame("left", rows)
      BY <3>1 DEF KeepCopy
    <3> QED
      BY <3>2, <3>4, <3>5, <3>6 DEF Causes
  <2>8. HistType'
    <3>1. blame' \in [Causes -> SUBSET Rows]
      BY <2>7, BlameType
    <3> QED
      BY <1>8, <3>1 DEF UpdateTier, HistType
  <2> QED
    BY <1>8, <2>2, <2>4, <2>5, <2>6, <2>8, UnchangedType DEF UpdateTier
<1>9. ASSUME NEW f \in Daily \cup {Output}, DeleteSource(c, f) PROVE TypeInv'
  <2>2. CycType'
    BY <1>9, CycDeleted DEF DeleteSource
  <2>3. Stores(hot')
    <3>1. hot' = hot \/ hot' = Drop(hot, {f})
      BY <1>9 DEF DeleteSource
    <3> QED
      BY <3>1, StoresDrop DEF FilesType
  <2>4. FilesType'
    BY <1>9, <2>3 DEF DeleteSource, FilesType
  <2>5. SoloType'
    BY <1>9, StepKindType DEF DeleteSource
  <2>6. HistType'
    <3>1. CASE UNCHANGED blame
      BY <1>9, <3>1 DEF DeleteSource, HistType
    <3>2. CASE f \in DOMAIN hot /\ Blame("left", hot[f])
      <4>1. hot[f] \in SUBSET Rows /\ "left" \in Causes
        BY <3>2 DEF FilesType, Stores, Causes
      <4>2. blame' \in [Causes -> SUBSET Rows]
        BY <3>2, <4>1, BlameType
      <4> QED
        BY <1>9, <4>2 DEF DeleteSource, HistType
    <3> QED
      BY <1>9, <3>1, <3>2 DEF DeleteSource
  <2> QED
    BY <1>9, <2>2, <2>4, <2>5, <2>6, UnchangedType DEF DeleteSource
<1> QED
  BY <1>1, <1>2, <1>3, <1>4, <1>5, <1>6, <1>7, <1>8, <1>9


LEMMA RequestTypeStep ==
    ASSUME TypeInv, NEW d \in Requests,
           \/ StartDelete(d) \/ CopyKept(d) \/ RenameOver(d) \/ EndDelete(d)
           \/ Wipe(d) \/ Forget(d) \/ StartDrop(d) \/ DropFile(d)
           \/ \E f \in Files : CountRows(d, f)
    PROVE  TypeInv'
<1> USE DEF TypeInv
<1>1. CASE StartDelete(d)
  <2>1. PICK clause \in Clauses, affected \in SUBSET DOMAIN hot :
            /\ req' = [req EXCEPT ![d] = [NoRequest EXCEPT !.pc = "files", !.todo = affected,
                                 !.where = clause.where, !.unknown = clause.unknown]]
            /\ doomed' = doomed \cup (RowsIn(Restrict(hot, affected)) \cap Selected(clause.where))
    BY <1>1 DEF StartDelete
  <2>2. affected \in SUBSET Files
    BY DEF FilesType, Stores
  <2>3. ReqType' /\ NamedType'
    <3>1. clause.where \in SUBSET Kinds /\ clause.unknown \in SUBSET Kinds
      BY StoredFilesConstants
    <3> QED
      BY <2>1, <2>2, <3>1, ReqStart DEF NamedType
  <2>4. HistType'
    <3>1. doomed' \subseteq Rows
      BY <2>1 DEF HistType, Selected
    <3> QED
      BY <1>1, <3>1 DEF StartDelete, HistType
  <2> QED
    BY <1>1, <2>3, <2>4, StepKindType, UnchangedType DEF StartDelete
<1>2. CASE CopyKept(d)
  <2>1. ReqType' /\ NamedType'
    <3>1. \/ ReqMoves(d, "rename")
          \/ req' = [req EXCEPT ![d].pc = "files", ![d].ok = FALSE, ![d].read = {}]
      BY <1>2 DEF CopyKept
    <3>2. CASE ReqMoves(d, "rename")
      BY <1>2, <3>2, ReqMoved DEF CopyKept, NamedType
    <3>3. CASE req' = [req EXCEPT ![d].pc = "files", ![d].ok = FALSE, ![d].read = {}]
      BY <3>3, ReqDrops DEF NamedType
    <3> QED
      BY <3>1, <3>2, <3>3
  <2>2. Stores(temp')
    <3>1. req[d].file \in Files
      BY <1>2 DEF CopyKept, NamedType
    <3>2. req[d].read \in SUBSET Rows
      BY DEF ReqType, RequestType
    <3>3. temp' = Put(temp, req[d].file, req[d].read) \/ temp' = Drop(temp, {req[d].file})
      BY <1>2 DEF CopyKept
    <3> QED
      BY <3>1, <3>2, <3>3, StoresPut, StoresDrop DEF FilesType
  <2> QED
    BY <1>2, <2>1, <2>2, StepKindType, UnchangedType DEF CopyKept, FilesType
<1>3. CASE RenameOver(d)
  <2> DEFINE f == req[d].file
  <2>1. ReqType' /\ NamedType'
    BY <1>3, ReqDrops DEF RenameOver, NamedType
  <2>2. f \in Files /\ req[d].gone \subseteq Rows
    BY <1>3 DEF RenameOver, NamedType, ReqType, RequestType
  <2>3. CASE f \notin DOMAIN temp
    BY <1>3, <2>1, <2>3, StepKindType, UnchangedType DEF RenameOver, sf_files, sf_history
  <2>4. CASE f \in DOMAIN temp
    <3>1. temp[f] \in SUBSET Rows
      BY <2>4 DEF FilesType, Stores
    <3>2. hot' = Put(hot, f, temp[f]) /\ temp' = Drop(temp, {f}) /\ removed' = removed \cup req[d].gone
      BY <1>3, <2>4 DEF RenameOver
    <3>3. FilesType'
      BY <1>3, <2>2, <3>1, <3>2, StoresPut, StoresDrop DEF RenameOver, FilesType
    <3>4. \E lost, back \in SUBSET Rows :
             blame' = [blame EXCEPT !["overtaken"] = @ \cup lost, !["revived"] = @ \cup back]
      <4>1. (IF f \in DOMAIN hot THEN temp[f] \ hot[f] ELSE temp[f]) \in SUBSET Rows
        BY <3>1
      <4>2. \A S : req[d].gone \cap S \in SUBSET Rows
        BY <2>2
      <4> QED
        BY <1>3, <2>4, <4>1, <4>2 DEF RenameOver
    <3>5. blame' \in [Causes -> SUBSET Rows]
      BY <3>4 DEF HistType
    <3> QED
      BY <1>3, <2>1, <2>2, <3>2, <3>3, <3>5, StepKindType, UnchangedType DEF RenameOver, HistType
  <2> QED
    BY <2>3, <2>4
<1>4. CASE EndDelete(d)
  <2>1. ReqType' /\ NamedType'
    BY <1>4, ReqMoved, ReqReset DEF EndDelete, NamedType
  <2> QED
    BY <1>4, <2>1, StepKindType, UnchangedType DEF EndDelete
<1>5. CASE Wipe(d)
  <2>1. ReqType' /\ NamedType'
    BY <1>5, ReqMoved DEF Wipe, NamedType
  <2>2. FilesType'
    BY <1>5, StoresNothing DEF Wipe, FilesType
  <2>3. blame' \in [Causes -> SUBSET Rows]
    BY <1>5, BlameType, StoresRows DEF Wipe, FilesType, Causes
  <2> QED
    BY <1>5, <2>1, <2>2, <2>3, StepKindType, UnchangedType DEF Wipe, HistType
<1>6. CASE Forget(d)
  <2>1. ReqType' /\ NamedType'
    BY <1>6, ReqReset DEF Forget, NamedType
  <2>2. CASE tier' = [f \in Files |-> "none"] /\ recent' = {} /\ Blame("forgotten", RowsIn(cold)) /\ NoFault
    <3>1. blame' \in [Causes -> SUBSET Rows]
      BY <2>2, BlameType, StoresRows DEF FilesType, Causes
    <3> QED
      BY <1>6, <2>1, <2>2, <3>1, StepKindType, UnchangedType DEF Forget, HistType, MetaType
  <2>3. CASE UNCHANGED <<sf_meta, blame>> /\ Fault
    BY <1>6, <2>1, <2>3, StepKindType, UnchangedType DEF Forget, HistType
  <2> QED
    BY <1>6, <2>2, <2>3 DEF Forget
<1>7. CASE StartDrop(d)
  <2>1. DOMAIN hot \in SUBSET Files
    BY DEF FilesType, Stores
  <2>2. ReqType' /\ NamedType'
    BY <1>7, <2>1, ReqStartDrop DEF StartDrop, NamedType
  <2>3. doomed' \subseteq Rows
    BY <1>7, StoresRows DEF StartDrop, FilesType, HistType
  <2> QED
    BY <1>7, <2>2, <2>3, StepKindType, UnchangedType DEF StartDrop, HistType
<1>8. CASE DropFile(d)
  <2>1. ReqType' /\ NamedType'
    <3>1. CASE ReqMoves(d, "wipe")
      BY <3>1, ReqMoved DEF NamedType
    <3>2. CASE req' = [req EXCEPT ![d].todo = @ \ {Min(req[d].todo)}]
      <4>1. ReqType' /\ req'[d].pc = req[d].pc /\ req'[d].file = req[d].file
            /\ \A e \in Requests : e # d => req'[e] = req[e]
        BY <3>2, ReqDone
      <4> QED
        BY <4>1 DEF NamedType
    <3> QED
      BY <1>8, <3>1, <3>2 DEF DropFile
  <2>2. FilesType'
    BY <1>8, StoresDrop DEF DropFile, FilesType
  <2> QED
    BY <1>8, <2>1, <2>2, StepKindType, UnchangedType DEF DropFile
<1>9. ASSUME NEW f \in Files, CountRows(d, f) PROVE TypeInv'
  <2>1. PICK gone, kept, unasked \in SUBSET Rows : Counts(d, f, gone, kept, unasked)
    BY <1>9, CountsRows
  <2>2. ReqType' /\ NamedType'
    <3>1. CASE \/ req' = [req EXCEPT ![d].todo = @ \ {f}, ![d].ok = FALSE]
               \/ req' = [req EXCEPT ![d].todo = @ \ {f}]
      BY <3>1, ReqDone DEF NamedType
    <3>2. CASE req' = [req EXCEPT ![d].pc = "copy", ![d].todo = @ \ {f}, ![d].file = f,
                                 ![d].read = kept, ![d].gone = gone]
      <4>1. /\ ReqType' /\ req'[d].file = f
            /\ \A e \in Requests : e # d => req'[e] = req[e]
        BY <3>2, ReqReads
      <4> QED
        BY <4>1 DEF NamedType
    <3> QED
      BY <2>1, <3>1, <3>2 DEF Counts
  <2>3. FilesType'
    <3>1. hot' = hot \/ hot' = Drop(hot, {f})
      BY <2>1 DEF Counts
    <3>2. Stores(hot')
      BY <3>1, StoresDrop DEF FilesType
    <3>3. UNCHANGED <<cold, temp>>
      BY <1>9 DEF CountRows
    <3> QED
      BY <3>2, <3>3 DEF FilesType
  <2>4. removed' \subseteq Rows
    BY <2>1 DEF Counts, HistType
  <2>5. blame' \in [Causes -> SUBSET Rows]
    <3>1. {"left", "overtaken", "unknown"} \subseteq Causes
      BY DEF Causes
    <3>2. CASE blame' = blame
      BY <3>2 DEF HistType
    <3>3. CASE Blame("left", gone) \/ Blame("unknown", unasked)
      BY <3>1, <3>3, BlameType
    <3>4. CASE blame' = [blame EXCEPT !["overtaken"] = @ \cup (gone \cap Elsewhere(d, f)),
                                      !["unknown"] = @ \cup unasked]
      <4> DEFINE over == gone \cap Elsewhere(d, f)
      <4>1. over \in SUBSET Rows
        OBVIOUS
      <4> HIDE DEF over
      <4>2. blame' = [blame EXCEPT !["overtaken"] = @ \cup over, !["unknown"] = @ \cup unasked]
        BY <3>4 DEF over
      <4> QED
        BY <3>1, <4>1, <4>2 DEF HistType
    <3> QED
      BY <2>1, <3>2, <3>3, <3>4 DEF Counts
  <2>6. SoloType'
    BY <2>1, StepKindType DEF Counts
  <2> QED
    BY <1>9, <2>2, <2>3, <2>4, <2>5, <2>6, UnchangedType DEF CountRows, HistType
<1> QED
  BY <1>1, <1>2, <1>3, <1>4, <1>5, <1>6, <1>7, <1>8, <1>9

LEMMA OtherTypeStep ==
    ASSUME TypeInv,
           \/ StartRetention \/ RetentionDelete \/ StartCompaction \/ UploadOutput \/ DeleteInputs
           \/ Flush \/ RegisterFlushed \/ Crash \/ WindowPasses \/ Query \/ PlanExpires
    PROVE  TypeInv'
<1> USE DEF TypeInv
<1> Fresh \in Files /\ Output \in Files
  BY FileFacts
<1>1. CASE StartRetention
  <2>1. doomedFiles' \subseteq DOMAIN hot /\ DOMAIN hot \subseteq Files
    BY <1>1 DEF StartRetention, FilesType, Stores
  <2>2. RowsIn(Restrict(hot, doomedFiles')) \subseteq Rows
    BY <2>1, RestrictFacts DEF RowsIn, FilesType, Stores
  <2>3. HistType'
    BY <1>1, <2>2 DEF StartRetention, HistType
  <2> QED
    BY <1>1, <2>1, <2>3, StepKindType, UnchangedType DEF StartRetention, OtherType
<1>2. CASE RetentionDelete
  <2>1. Stores(hot') /\ UNCHANGED <<cold, temp>>
    BY <1>2, StoresDrop DEF RetentionDelete, FilesType
  <2>2. doomedFiles' \subseteq doomedFiles
    BY <1>2 DEF RetentionDelete
  <2> QED
    BY <1>2, <2>1, <2>2, StepKindType, UnchangedType DEF RetentionDelete, OtherType, FilesType
<1>3. CASE StartCompaction
  <2>1. DOMAIN hot \in SUBSET Files /\ RowsIn(hot) \in SUBSET Rows
    BY StoresRows DEF FilesType, Stores
  <2>2. comp' \in CompType
    BY <1>3, <2>1 DEF StartCompaction, CompType
  <2> QED
    BY <1>3, <2>2, StepKindType, UnchangedType DEF StartCompaction, OtherType
<1>4. CASE UploadOutput
  <2>1. comp' \in CompType /\ comp.rows \in SUBSET Rows
    BY <1>4 DEF UploadOutput, OtherType, CompType
  <2>2. Stores(hot')
    BY <1>4, <2>1, StoresPut DEF UploadOutput, FilesType
  <2> QED
    BY <1>4, <2>1, <2>2, StepKindType, UnchangedType DEF UploadOutput, OtherType, FilesType
<1>5. CASE DeleteInputs
  <2>1. comp' \in CompType /\ comp.rows \in SUBSET Rows
    BY <1>5 DEF DeleteInputs, OtherType, CompType, NoComp
  <2>2. Stores(hot')
    BY <1>5, StoresDrop DEF DeleteInputs, FilesType
  <2>3. blame' \in [Causes -> SUBSET Rows]
    <3>1. PICK S : Blame("revived", comp.rows \cap S)
      BY <1>5 DEF DeleteInputs
    <3>2. comp.rows \cap S \in SUBSET Rows /\ "revived" \in Causes
      BY <2>1 DEF Causes
    <3> QED
      BY <3>1, <3>2, BlameType
  <2> QED
    BY <1>5, <2>1, <2>2, <2>3, StepKindType, UnchangedType
    DEF DeleteInputs, OtherType, FilesType, HistType
<1>6. CASE Flush
  <2>1. {Fresh} \X Kinds \in SUBSET Rows
    BY FileFacts DEF Rows
  <2>2. Stores(hot')
    BY <1>6, <2>1, StoresPut DEF Flush, FilesType
  <2> QED
    BY <1>6, <2>1, <2>2, StepKindType, UnchangedType DEF Flush, OtherType, FilesType, HistType
<1>7. CASE RegisterFlushed
  <2>1. CASE RecordHot(Fresh) /\ NoFault /\ Blame("cached", Hidden(Fresh, "hot"))
    <3>1. blame' \in [Causes -> SUBSET Rows]
      BY <2>1, HiddenType, BlameType DEF Causes
    <3> QED
      BY <1>7, <2>1, <3>1, RecordType, StepKindType, UnchangedType
      DEF RegisterFlushed, OtherType, HistType
  <2>2. CASE UNCHANGED <<sf_meta, blame>> /\ Fault
    BY <1>7, <2>2, StepKindType, UnchangedType DEF RegisterFlushed, OtherType, HistType
  <2> QED
    BY <1>7, <2>1, <2>2 DEF RegisterFlushed
<1>8. CASE Crash
  <2>1. blame' \in [Causes -> SUBSET Rows]
    <3>1. RowsIn(hot) \cap RowsIn(cold) \in SUBSET Rows /\ "left" \in Causes
      BY StoresRows DEF FilesType, Causes
    <3> QED
      BY <1>8, <3>1, BlameType DEF Crash
  <2>2. comp' \in CompType
    BY <1>8 DEF Crash, OtherType, CompType, NoComp
  <2>3. doomedFiles' = {} /\ flush' \in {"none", "written", "done"}
    BY <1>8 DEF Crash, OtherType
  <2>4. CycType' /\ ReqType' /\ NamedType'
    BY <1>8, CycCrash, ReqCrash DEF Crash
  <2> QED
    BY <1>8, <2>1, <2>2, <2>3, <2>4, StepKindType, UnchangedType DEF Crash, OtherType, HistType
<1>9. CASE WindowPasses
  BY <1>9, UnchangedType DEF WindowPasses, MetaType
<1>10. CASE Query
  <2>1. plan' \subseteq {"hot", "cold"}
    BY <1>10 DEF Query, QueriedTiers, TiersOf, MetaType, PlanType
  <2> QED
    BY <1>10, <2>1, UnchangedType DEF Query, PlanType
<1>11. CASE PlanExpires
  <2>1. blame' \in [Causes -> SUBSET Rows]
    BY <1>11 DEF PlanExpires, HistType
  <2> QED
    BY <1>11, <2>1, UnchangedType DEF PlanExpires, PlanType, HistType
<1> QED
  BY <1>1, <1>2, <1>3, <1>4, <1>5, <1>6, <1>7, <1>8, <1>9, <1>10, <1>11

LEMMA TypeStep == ASSUME TypeInv, [SFNext]_sf_vars PROVE TypeInv'
<1>1. CASE SFNext
  BY <1>1, CycleTypeStep, RequestTypeStep, OtherTypeStep DEF SFNext
<1>2. CASE UNCHANGED sf_vars
  BY <1>2, UnchangedType DEF sf_vars, TypeInv
<1> QED
  BY <1>1, <1>2
-----------------------------------------------------------------------------
(* Which actions change which variable.                                    *)

LEMMA HotFrame ==
    ASSUME SFNext, hot' # hot
    PROVE  \/ \E c \in Cycles : SweepOrphan(c)
                \/ \E f \in Daily \cup {Output} : DeleteSource(c, f)
           \/ \E d \in Requests : RenameOver(d) \/ Wipe(d) \/ DropFile(d)
                \/ \E f \in Files : CountRows(d, f)
           \/ RetentionDelete \/ UploadOutput \/ DeleteInputs \/ Flush
<1>1. \A c \in Cycles : ~StartCycle(c) /\ ~Register(c) /\ ~FindCandidates(c) /\ ~FindOrphans(c)
  BY DEF StartCycle, Register, FindCandidates, FindOrphans, sf_files, sf_meta, sf_others,
         sf_history
<1>2. \A c \in Cycles : ~EndCycle(c)
  BY DEF EndCycle, sf_files, sf_meta, sf_others, sf_history
<1>3. \A c \in Cycles, f \in Files : ~Copy(c, f) /\ ~UpdateTier(c, f)
  BY DEF Copy, UpdateTier, sf_files, sf_meta, sf_others, sf_history
<1>4. \A d \in Requests : ~StartDelete(d) /\ ~CopyKept(d) /\ ~EndDelete(d) /\ ~Forget(d)
  BY DEF StartDelete, CopyKept, EndDelete, Forget, sf_files, sf_meta, sf_others, sf_history
<1>5. \A d \in Requests : ~StartDrop(d)
  BY DEF StartDrop, sf_files, sf_meta, sf_others, sf_history
<1>6. ~StartRetention /\ ~StartCompaction /\ ~RegisterFlushed /\ ~Crash
  BY DEF StartRetention, StartCompaction, RegisterFlushed, Crash, sf_files, sf_meta, sf_others,
         sf_history
<1>7. ~WindowPasses /\ ~Query /\ ~PlanExpires
  BY DEF WindowPasses, Query, PlanExpires, sf_files, sf_meta, sf_others, sf_history
<1> QED
  BY <1>1, <1>2, <1>3, <1>4, <1>5, <1>6, <1>7, FileFacts DEF SFNext

LEMMA ColdFrame ==
    ASSUME SFNext, cold' # cold
    PROVE  \/ \E c \in Cycles : \E f \in Daily \cup {Output} : Copy(c, f) \/ UpdateTier(c, f)
<1>1. \A c \in Cycles : ~StartCycle(c) /\ ~Register(c) /\ ~FindCandidates(c) /\ ~FindOrphans(c)
  BY DEF StartCycle, Register, FindCandidates, FindOrphans, sf_files, sf_meta, sf_others,
         sf_history
<1>2. \A c \in Cycles : ~SweepOrphan(c) /\ ~EndCycle(c)
  BY DEF SweepOrphan, EndCycle, sf_files, sf_meta, sf_others, sf_history
<1>3. \A c \in Cycles, f \in Files : ~DeleteSource(c, f)
  BY DEF DeleteSource, sf_files, sf_meta, sf_others, sf_history
<1>4. \A d \in Requests : ~StartDelete(d) /\ ~CopyKept(d) /\ ~RenameOver(d) /\ ~EndDelete(d)
  BY DEF StartDelete, CopyKept, RenameOver, EndDelete, sf_files, sf_meta, sf_others, sf_history
<1>5. \A d \in Requests : ~Wipe(d) /\ ~Forget(d) /\ ~StartDrop(d) /\ ~DropFile(d)
  BY DEF Wipe, Forget, StartDrop, DropFile, sf_files, sf_meta, sf_others, sf_history
<1>6. \A d \in Requests, f \in Files : ~CountRows(d, f)
  BY DEF CountRows, sf_files, sf_meta, sf_others, sf_history
<1>7. ~StartRetention /\ ~RetentionDelete /\ ~StartCompaction /\ ~UploadOutput
  BY DEF StartRetention, RetentionDelete, StartCompaction, UploadOutput, sf_files, sf_meta,
         sf_others, sf_history
<1>8. ~DeleteInputs /\ ~Flush /\ ~RegisterFlushed /\ ~Crash
  BY DEF DeleteInputs, Flush, RegisterFlushed, Crash, sf_files, sf_meta, sf_others, sf_history
<1>9. ~WindowPasses /\ ~Query /\ ~PlanExpires
  BY DEF WindowPasses, Query, PlanExpires, sf_files, sf_meta, sf_others, sf_history
<1> QED
  BY <1>1, <1>2, <1>3, <1>4, <1>5, <1>6, <1>7, <1>8, <1>9, FileFacts DEF SFNext

LEMMA TempFrame ==
    ASSUME SFNext, temp' # temp
    PROVE  \/ \E d \in Requests : CopyKept(d) \/ RenameOver(d) \/ Wipe(d)
<1>1. \A c \in Cycles : ~StartCycle(c) /\ ~Register(c) /\ ~FindCandidates(c) /\ ~FindOrphans(c)
  BY DEF StartCycle, Register, FindCandidates, FindOrphans, sf_files, sf_meta, sf_others,
         sf_history
<1>2. \A c \in Cycles : ~SweepOrphan(c) /\ ~EndCycle(c)
  BY DEF SweepOrphan, EndCycle, sf_files, sf_meta, sf_others, sf_history
<1>3. \A c \in Cycles, f \in Files : ~Copy(c, f) /\ ~UpdateTier(c, f) /\ ~DeleteSource(c, f)
  BY DEF Copy, UpdateTier, DeleteSource, sf_files, sf_meta, sf_others, sf_history
<1>4. \A d \in Requests : ~StartDelete(d) /\ ~EndDelete(d) /\ ~Forget(d) /\ ~StartDrop(d)
  BY DEF StartDelete, EndDelete, Forget, StartDrop, sf_files, sf_meta, sf_others, sf_history
<1>5. \A d \in Requests : ~DropFile(d)
  BY DEF DropFile, sf_files, sf_meta, sf_others, sf_history
<1>6. \A d \in Requests, f \in Files : ~CountRows(d, f)
  BY DEF CountRows, sf_files, sf_meta, sf_others, sf_history
<1>7. ~StartRetention /\ ~RetentionDelete /\ ~StartCompaction /\ ~UploadOutput
  BY DEF StartRetention, RetentionDelete, StartCompaction, UploadOutput, sf_files, sf_meta,
         sf_others, sf_history
<1>8. ~DeleteInputs /\ ~Flush /\ ~RegisterFlushed /\ ~Crash
  BY DEF DeleteInputs, Flush, RegisterFlushed, Crash, sf_files, sf_meta, sf_others, sf_history
<1>9. ~WindowPasses /\ ~Query /\ ~PlanExpires
  BY DEF WindowPasses, Query, PlanExpires, sf_files, sf_meta, sf_others, sf_history
<1> QED
  BY <1>1, <1>2, <1>3, <1>4, <1>5, <1>6, <1>7, <1>8, <1>9, FileFacts DEF SFNext

LEMMA TierFrame ==
    ASSUME SFNext, tier' # tier
    PROVE  \/ \E c \in Cycles : Register(c) \/ \E f \in Daily \cup {Output} : UpdateTier(c, f)
           \/ \E d \in Requests : Forget(d)
           \/ RegisterFlushed
<1>1. \A c \in Cycles : ~StartCycle(c) /\ ~FindCandidates(c) /\ ~FindOrphans(c) /\ ~SweepOrphan(c)
  BY DEF StartCycle, FindCandidates, FindOrphans, SweepOrphan, sf_files, sf_meta, sf_others,
         sf_history
<1>2. \A c \in Cycles : ~EndCycle(c)
  BY DEF EndCycle, sf_files, sf_meta, sf_others, sf_history
<1>3. \A c \in Cycles, f \in Files : ~Copy(c, f) /\ ~DeleteSource(c, f)
  BY DEF Copy, DeleteSource, sf_files, sf_meta, sf_others, sf_history
<1>4. \A d \in Requests : ~StartDelete(d) /\ ~CopyKept(d) /\ ~RenameOver(d) /\ ~EndDelete(d)
  BY DEF StartDelete, CopyKept, RenameOver, EndDelete, sf_files, sf_meta, sf_others, sf_history
<1>5. \A d \in Requests : ~Wipe(d) /\ ~StartDrop(d) /\ ~DropFile(d)
  BY DEF Wipe, StartDrop, DropFile, sf_files, sf_meta, sf_others, sf_history
<1>6. \A d \in Requests, f \in Files : ~CountRows(d, f)
  BY DEF CountRows, sf_files, sf_meta, sf_others, sf_history
<1>7. ~StartRetention /\ ~RetentionDelete /\ ~StartCompaction /\ ~UploadOutput
  BY DEF StartRetention, RetentionDelete, StartCompaction, UploadOutput, sf_files, sf_meta,
         sf_others, sf_history
<1>8. ~DeleteInputs /\ ~Flush /\ ~Crash /\ ~WindowPasses
  BY DEF DeleteInputs, Flush, Crash, WindowPasses, sf_files, sf_meta, sf_others, sf_history
<1>9. ~Query /\ ~PlanExpires
  BY DEF Query, PlanExpires, sf_files, sf_meta, sf_others, sf_history
<1> QED
  BY <1>1, <1>2, <1>3, <1>4, <1>5, <1>6, <1>7, <1>8, <1>9, FileFacts DEF SFNext

LEMMA RecentFrame ==
    ASSUME SFNext, recent' # recent
    PROVE  \/ \E c \in Cycles : Register(c) \/ \E f \in Daily \cup {Output} : UpdateTier(c, f)
           \/ \E d \in Requests : Forget(d)
           \/ RegisterFlushed \/ WindowPasses
<1>1. \A c \in Cycles : ~StartCycle(c) /\ ~FindCandidates(c) /\ ~FindOrphans(c) /\ ~SweepOrphan(c)
  BY DEF StartCycle, FindCandidates, FindOrphans, SweepOrphan, sf_files, sf_meta, sf_others,
         sf_history
<1>2. \A c \in Cycles : ~EndCycle(c)
  BY DEF EndCycle, sf_files, sf_meta, sf_others, sf_history
<1>3. \A c \in Cycles, f \in Files : ~Copy(c, f) /\ ~DeleteSource(c, f)
  BY DEF Copy, DeleteSource, sf_files, sf_meta, sf_others, sf_history
<1>4. \A d \in Requests : ~StartDelete(d) /\ ~CopyKept(d) /\ ~RenameOver(d) /\ ~EndDelete(d)
  BY DEF StartDelete, CopyKept, RenameOver, EndDelete, sf_files, sf_meta, sf_others, sf_history
<1>5. \A d \in Requests : ~Wipe(d) /\ ~StartDrop(d) /\ ~DropFile(d)
  BY DEF Wipe, StartDrop, DropFile, sf_files, sf_meta, sf_others, sf_history
<1>6. \A d \in Requests, f \in Files : ~CountRows(d, f)
  BY DEF CountRows, sf_files, sf_meta, sf_others, sf_history
<1>7. ~StartRetention /\ ~RetentionDelete /\ ~StartCompaction /\ ~UploadOutput
  BY DEF StartRetention, RetentionDelete, StartCompaction, UploadOutput, sf_files, sf_meta,
         sf_others, sf_history
<1>8. ~DeleteInputs /\ ~Flush /\ ~Crash /\ ~Query
  BY DEF DeleteInputs, Flush, Crash, Query, sf_files, sf_meta, sf_others, sf_history
<1>9. ~PlanExpires
  BY DEF PlanExpires, sf_files, sf_meta, sf_others, sf_history
<1> QED
  BY <1>1, <1>2, <1>3, <1>4, <1>5, <1>6, <1>7, <1>8, <1>9, FileFacts DEF SFNext

LEMMA PlanFrame ==
    ASSUME SFNext, plan' # plan
    PROVE  \/ Query \/ PlanExpires
<1>1. \A c \in Cycles : ~StartCycle(c) /\ ~Register(c) /\ ~FindCandidates(c) /\ ~FindOrphans(c)
  BY DEF StartCycle, Register, FindCandidates, FindOrphans, Starts, sf_files, sf_meta,
         sf_others, sf_history
<1>2. \A c \in Cycles : ~SweepOrphan(c) /\ ~EndCycle(c)
  BY DEF SweepOrphan, EndCycle, Starts, sf_files, sf_meta, sf_others, sf_history
<1>3. \A c \in Cycles, f \in Files : ~Copy(c, f) /\ ~UpdateTier(c, f) /\ ~DeleteSource(c, f)
  BY DEF Copy, UpdateTier, DeleteSource, Starts, sf_files, sf_meta, sf_others, sf_history
<1>4. \A d \in Requests : ~StartDelete(d) /\ ~CopyKept(d) /\ ~RenameOver(d) /\ ~EndDelete(d)
  BY DEF StartDelete, CopyKept, RenameOver, EndDelete, Starts, sf_files, sf_meta, sf_others,
         sf_history
<1>5. \A d \in Requests : ~Wipe(d) /\ ~Forget(d) /\ ~StartDrop(d) /\ ~DropFile(d)
  BY DEF Wipe, Forget, StartDrop, DropFile, Starts, sf_files, sf_meta, sf_others, sf_history
<1>6. \A d \in Requests, f \in Files : ~CountRows(d, f)
  BY DEF CountRows, Starts, sf_files, sf_meta, sf_others, sf_history
<1>7. ~StartRetention /\ ~RetentionDelete /\ ~StartCompaction /\ ~UploadOutput
  BY DEF StartRetention, RetentionDelete, StartCompaction, UploadOutput, Starts, sf_files,
         sf_meta, sf_others, sf_history
<1>8. ~DeleteInputs /\ ~Flush /\ ~RegisterFlushed /\ ~Crash
  BY DEF DeleteInputs, Flush, RegisterFlushed, Crash, Starts, sf_files, sf_meta, sf_others,
         sf_history
<1>9. ~WindowPasses
  BY DEF WindowPasses, Starts, sf_files, sf_meta, sf_others, sf_history
<1> QED
  BY <1>1, <1>2, <1>3, <1>4, <1>5, <1>6, <1>7, <1>8, <1>9, FileFacts DEF SFNext

LEMMA CycFrame ==
    ASSUME SFNext, cyc' # cyc
    PROVE  \/ \E c \in Cycles : StartCycle(c) \/ Register(c) \/ FindCandidates(c)
                \/ FindOrphans(c) \/ SweepOrphan(c) \/ EndCycle(c)
                \/ \E f \in Daily \cup {Output} : Copy(c, f) \/ UpdateTier(c, f)
                \/ DeleteSource(c, f)
           \/ Crash
<1>1. \A d \in Requests : ~StartDelete(d) /\ ~CopyKept(d) /\ ~RenameOver(d) /\ ~EndDelete(d)
  BY DEF StartDelete, CopyKept, RenameOver, EndDelete, sf_files, sf_meta, sf_others, sf_history
<1>2. \A d \in Requests : ~Wipe(d) /\ ~Forget(d) /\ ~StartDrop(d) /\ ~DropFile(d)
  BY DEF Wipe, Forget, StartDrop, DropFile, sf_files, sf_meta, sf_others, sf_history
<1>3. \A d \in Requests, f \in Files : ~CountRows(d, f)
  BY DEF CountRows, sf_files, sf_meta, sf_others, sf_history
<1>4. ~StartRetention /\ ~RetentionDelete /\ ~StartCompaction /\ ~UploadOutput
  BY DEF StartRetention, RetentionDelete, StartCompaction, UploadOutput, sf_files, sf_meta,
         sf_others, sf_history
<1>5. ~DeleteInputs /\ ~Flush /\ ~RegisterFlushed /\ ~WindowPasses
  BY DEF DeleteInputs, Flush, RegisterFlushed, WindowPasses, sf_files, sf_meta, sf_others,
         sf_history
<1>6. ~Query /\ ~PlanExpires
  BY DEF Query, PlanExpires, sf_files, sf_meta, sf_others, sf_history
<1> QED
  BY <1>1, <1>2, <1>3, <1>4, <1>5, <1>6, FileFacts DEF SFNext

LEMMA ReqFrame ==
    ASSUME SFNext, req' # req
    PROVE  \/ \E d \in Requests : StartDelete(d) \/ CopyKept(d) \/ RenameOver(d)
                \/ EndDelete(d) \/ Wipe(d) \/ Forget(d) \/ StartDrop(d) \/ DropFile(d)
                \/ \E f \in Files : CountRows(d, f)
           \/ Crash
<1>1. \A c \in Cycles : ~StartCycle(c) /\ ~Register(c) /\ ~FindCandidates(c) /\ ~FindOrphans(c)
  BY DEF StartCycle, Register, FindCandidates, FindOrphans, sf_files, sf_meta, sf_others,
         sf_history
<1>2. \A c \in Cycles : ~SweepOrphan(c) /\ ~EndCycle(c)
  BY DEF SweepOrphan, EndCycle, sf_files, sf_meta, sf_others, sf_history
<1>3. \A c \in Cycles, f \in Files : ~Copy(c, f) /\ ~UpdateTier(c, f) /\ ~DeleteSource(c, f)
  BY DEF Copy, UpdateTier, DeleteSource, sf_files, sf_meta, sf_others, sf_history
<1>4. ~StartRetention /\ ~RetentionDelete /\ ~StartCompaction /\ ~UploadOutput
  BY DEF StartRetention, RetentionDelete, StartCompaction, UploadOutput, sf_files, sf_meta,
         sf_others, sf_history
<1>5. ~DeleteInputs /\ ~Flush /\ ~RegisterFlushed /\ ~WindowPasses
  BY DEF DeleteInputs, Flush, RegisterFlushed, WindowPasses, sf_files, sf_meta, sf_others,
         sf_history
<1>6. ~Query /\ ~PlanExpires
  BY DEF Query, PlanExpires, sf_files, sf_meta, sf_others, sf_history
<1> QED
  BY <1>1, <1>2, <1>3, <1>4, <1>5, <1>6, FileFacts DEF SFNext

LEMMA CompFrame ==
    ASSUME SFNext, comp' # comp
    PROVE  \/ StartCompaction \/ UploadOutput \/ DeleteInputs \/ Crash
<1>1. \A c \in Cycles : ~StartCycle(c) /\ ~Register(c) /\ ~FindCandidates(c) /\ ~FindOrphans(c)
  BY DEF StartCycle, Register, FindCandidates, FindOrphans, sf_files, sf_meta, sf_others,
         sf_history
<1>2. \A c \in Cycles : ~SweepOrphan(c) /\ ~EndCycle(c)
  BY DEF SweepOrphan, EndCycle, sf_files, sf_meta, sf_others, sf_history
<1>3. \A c \in Cycles, f \in Files : ~Copy(c, f) /\ ~UpdateTier(c, f) /\ ~DeleteSource(c, f)
  BY DEF Copy, UpdateTier, DeleteSource, sf_files, sf_meta, sf_others, sf_history
<1>4. \A d \in Requests : ~StartDelete(d) /\ ~CopyKept(d) /\ ~RenameOver(d) /\ ~EndDelete(d)
  BY DEF StartDelete, CopyKept, RenameOver, EndDelete, sf_files, sf_meta, sf_others, sf_history
<1>5. \A d \in Requests : ~Wipe(d) /\ ~Forget(d) /\ ~StartDrop(d) /\ ~DropFile(d)
  BY DEF Wipe, Forget, StartDrop, DropFile, sf_files, sf_meta, sf_others, sf_history
<1>6. \A d \in Requests, f \in Files : ~CountRows(d, f)
  BY DEF CountRows, sf_files, sf_meta, sf_others, sf_history
<1>7. ~StartRetention /\ ~RetentionDelete /\ ~Flush /\ ~RegisterFlushed
  BY DEF StartRetention, RetentionDelete, Flush, RegisterFlushed, sf_files, sf_meta, sf_others,
         sf_history
<1>8. ~WindowPasses /\ ~Query /\ ~PlanExpires
  BY DEF WindowPasses, Query, PlanExpires, sf_files, sf_meta, sf_others, sf_history
<1> QED
  BY <1>1, <1>2, <1>3, <1>4, <1>5, <1>6, <1>7, <1>8, FileFacts DEF SFNext

LEMMA FlushFrame ==
    ASSUME SFNext, flush' # flush
    PROVE  \/ Flush \/ RegisterFlushed \/ Crash
<1>1. \A c \in Cycles : ~StartCycle(c) /\ ~Register(c) /\ ~FindCandidates(c) /\ ~FindOrphans(c)
  BY DEF StartCycle, Register, FindCandidates, FindOrphans, sf_files, sf_meta, sf_others,
         sf_history
<1>2. \A c \in Cycles : ~SweepOrphan(c) /\ ~EndCycle(c)
  BY DEF SweepOrphan, EndCycle, sf_files, sf_meta, sf_others, sf_history
<1>3. \A c \in Cycles, f \in Files : ~Copy(c, f) /\ ~UpdateTier(c, f) /\ ~DeleteSource(c, f)
  BY DEF Copy, UpdateTier, DeleteSource, sf_files, sf_meta, sf_others, sf_history
<1>4. \A d \in Requests : ~StartDelete(d) /\ ~CopyKept(d) /\ ~RenameOver(d) /\ ~EndDelete(d)
  BY DEF StartDelete, CopyKept, RenameOver, EndDelete, sf_files, sf_meta, sf_others, sf_history
<1>5. \A d \in Requests : ~Wipe(d) /\ ~Forget(d) /\ ~StartDrop(d) /\ ~DropFile(d)
  BY DEF Wipe, Forget, StartDrop, DropFile, sf_files, sf_meta, sf_others, sf_history
<1>6. \A d \in Requests, f \in Files : ~CountRows(d, f)
  BY DEF CountRows, sf_files, sf_meta, sf_others, sf_history
<1>7. ~StartRetention /\ ~RetentionDelete /\ ~StartCompaction /\ ~UploadOutput
  BY DEF StartRetention, RetentionDelete, StartCompaction, UploadOutput, sf_files, sf_meta,
         sf_others, sf_history
<1>8. ~DeleteInputs /\ ~WindowPasses /\ ~Query /\ ~PlanExpires
  BY DEF DeleteInputs, WindowPasses, Query, PlanExpires, sf_files, sf_meta, sf_others,
         sf_history
<1> QED
  BY <1>1, <1>2, <1>3, <1>4, <1>5, <1>6, <1>7, <1>8, FileFacts DEF SFNext

LEMMA DoomedFrame ==
    ASSUME SFNext, doomedFiles' # doomedFiles
    PROVE  \/ StartRetention \/ RetentionDelete \/ Crash
<1>1. \A c \in Cycles : ~StartCycle(c) /\ ~Register(c) /\ ~FindCandidates(c) /\ ~FindOrphans(c)
  BY DEF StartCycle, Register, FindCandidates, FindOrphans, sf_files, sf_meta, sf_others,
         sf_history
<1>2. \A c \in Cycles : ~SweepOrphan(c) /\ ~EndCycle(c)
  BY DEF SweepOrphan, EndCycle, sf_files, sf_meta, sf_others, sf_history
<1>3. \A c \in Cycles, f \in Files : ~Copy(c, f) /\ ~UpdateTier(c, f) /\ ~DeleteSource(c, f)
  BY DEF Copy, UpdateTier, DeleteSource, sf_files, sf_meta, sf_others, sf_history
<1>4. \A d \in Requests : ~StartDelete(d) /\ ~CopyKept(d) /\ ~RenameOver(d) /\ ~EndDelete(d)
  BY DEF StartDelete, CopyKept, RenameOver, EndDelete, sf_files, sf_meta, sf_others, sf_history
<1>5. \A d \in Requests : ~Wipe(d) /\ ~Forget(d) /\ ~StartDrop(d) /\ ~DropFile(d)
  BY DEF Wipe, Forget, StartDrop, DropFile, sf_files, sf_meta, sf_others, sf_history
<1>6. \A d \in Requests, f \in Files : ~CountRows(d, f)
  BY DEF CountRows, sf_files, sf_meta, sf_others, sf_history
<1>7. ~StartCompaction /\ ~UploadOutput /\ ~DeleteInputs /\ ~Flush
  BY DEF StartCompaction, UploadOutput, DeleteInputs, Flush, sf_files, sf_meta, sf_others,
         sf_history
<1>8. ~RegisterFlushed /\ ~WindowPasses /\ ~Query /\ ~PlanExpires
  BY DEF RegisterFlushed, WindowPasses, Query, PlanExpires, sf_files, sf_meta, sf_others,
         sf_history
<1> QED
  BY <1>1, <1>2, <1>3, <1>4, <1>5, <1>6, <1>7, <1>8, FileFacts DEF SFNext

LEMMA WrittenFrame ==
    ASSUME SFNext, written' # written
    PROVE  \/ Flush
<1>1. \A c \in Cycles : ~StartCycle(c) /\ ~Register(c) /\ ~FindCandidates(c) /\ ~FindOrphans(c)
  BY DEF StartCycle, Register, FindCandidates, FindOrphans, sf_files, sf_meta, sf_others,
         sf_history
<1>2. \A c \in Cycles : ~SweepOrphan(c) /\ ~EndCycle(c)
  BY DEF SweepOrphan, EndCycle, sf_files, sf_meta, sf_others, sf_history
<1>3. \A c \in Cycles, f \in Files : ~Copy(c, f) /\ ~UpdateTier(c, f) /\ ~DeleteSource(c, f)
  BY DEF Copy, UpdateTier, DeleteSource, sf_files, sf_meta, sf_others, sf_history
<1>4. \A d \in Requests : ~StartDelete(d) /\ ~CopyKept(d) /\ ~RenameOver(d) /\ ~EndDelete(d)
  BY DEF StartDelete, CopyKept, RenameOver, EndDelete, sf_files, sf_meta, sf_others, sf_history
<1>5. \A d \in Requests : ~Wipe(d) /\ ~Forget(d) /\ ~StartDrop(d) /\ ~DropFile(d)
  BY DEF Wipe, Forget, StartDrop, DropFile, sf_files, sf_meta, sf_others, sf_history
<1>6. \A d \in Requests, f \in Files : ~CountRows(d, f)
  BY DEF CountRows, sf_files, sf_meta, sf_others, sf_history
<1>7. ~StartRetention /\ ~RetentionDelete /\ ~StartCompaction /\ ~UploadOutput
  BY DEF StartRetention, RetentionDelete, StartCompaction, UploadOutput, sf_files, sf_meta,
         sf_others, sf_history
<1>8. ~DeleteInputs /\ ~RegisterFlushed /\ ~Crash /\ ~WindowPasses
  BY DEF DeleteInputs, RegisterFlushed, Crash, WindowPasses, sf_files, sf_meta, sf_others,
         sf_history
<1>9. ~Query /\ ~PlanExpires
  BY DEF Query, PlanExpires, sf_files, sf_meta, sf_others, sf_history
<1> QED
  BY <1>1, <1>2, <1>3, <1>4, <1>5, <1>6, <1>7, <1>8, <1>9, FileFacts DEF SFNext

LEMMA AskedFrame ==
    ASSUME SFNext, doomed' # doomed
    PROVE  \/ \E d \in Requests : StartDelete(d) \/ StartDrop(d)
           \/ StartRetention
<1>1. \A c \in Cycles : ~StartCycle(c) /\ ~Register(c) /\ ~FindCandidates(c) /\ ~FindOrphans(c)
  BY DEF StartCycle, Register, FindCandidates, FindOrphans, sf_files, sf_meta, sf_others,
         sf_history
<1>2. \A c \in Cycles : ~SweepOrphan(c) /\ ~EndCycle(c)
  BY DEF SweepOrphan, EndCycle, sf_files, sf_meta, sf_others, sf_history
<1>3. \A c \in Cycles, f \in Files : ~Copy(c, f) /\ ~UpdateTier(c, f) /\ ~DeleteSource(c, f)
  BY DEF Copy, UpdateTier, DeleteSource, sf_files, sf_meta, sf_others, sf_history
<1>4. \A d \in Requests : ~CopyKept(d) /\ ~RenameOver(d) /\ ~EndDelete(d) /\ ~Wipe(d)
  BY DEF CopyKept, RenameOver, EndDelete, Wipe, sf_files, sf_meta, sf_others, sf_history
<1>5. \A d \in Requests : ~Forget(d) /\ ~DropFile(d)
  BY DEF Forget, DropFile, sf_files, sf_meta, sf_others, sf_history
<1>6. \A d \in Requests, f \in Files : ~CountRows(d, f)
  BY DEF CountRows, sf_files, sf_meta, sf_others, sf_history
<1>7. ~RetentionDelete /\ ~StartCompaction /\ ~UploadOutput /\ ~DeleteInputs
  BY DEF RetentionDelete, StartCompaction, UploadOutput, DeleteInputs, sf_files, sf_meta,
         sf_others, sf_history
<1>8. ~Flush /\ ~RegisterFlushed /\ ~Crash /\ ~WindowPasses
  BY DEF Flush, RegisterFlushed, Crash, WindowPasses, sf_files, sf_meta, sf_others, sf_history
<1>9. ~Query /\ ~PlanExpires
  BY DEF Query, PlanExpires, sf_files, sf_meta, sf_others, sf_history
<1> QED
  BY <1>1, <1>2, <1>3, <1>4, <1>5, <1>6, <1>7, <1>8, <1>9, FileFacts DEF SFNext

LEMMA RemovedFrame ==
    ASSUME SFNext, removed' # removed
    PROVE  \/ \E d \in Requests : RenameOver(d) \/ \E f \in Files : CountRows(d, f)
<1>1. \A c \in Cycles : ~StartCycle(c) /\ ~Register(c) /\ ~FindCandidates(c) /\ ~FindOrphans(c)
  BY DEF StartCycle, Register, FindCandidates, FindOrphans, sf_files, sf_meta, sf_others,
         sf_history
<1>2. \A c \in Cycles : ~SweepOrphan(c) /\ ~EndCycle(c)
  BY DEF SweepOrphan, EndCycle, sf_files, sf_meta, sf_others, sf_history
<1>3. \A c \in Cycles, f \in Files : ~Copy(c, f) /\ ~UpdateTier(c, f) /\ ~DeleteSource(c, f)
  BY DEF Copy, UpdateTier, DeleteSource, sf_files, sf_meta, sf_others, sf_history
<1>4. \A d \in Requests : ~StartDelete(d) /\ ~CopyKept(d) /\ ~EndDelete(d) /\ ~Wipe(d)
  BY DEF StartDelete, CopyKept, EndDelete, Wipe, sf_files, sf_meta, sf_others, sf_history
<1>5. \A d \in Requests : ~Forget(d) /\ ~StartDrop(d) /\ ~DropFile(d)
  BY DEF Forget, StartDrop, DropFile, sf_files, sf_meta, sf_others, sf_history
<1>6. ~StartRetention /\ ~RetentionDelete /\ ~StartCompaction /\ ~UploadOutput
  BY DEF StartRetention, RetentionDelete, StartCompaction, UploadOutput, sf_files, sf_meta,
         sf_others, sf_history
<1>7. ~DeleteInputs /\ ~Flush /\ ~RegisterFlushed /\ ~Crash
  BY DEF DeleteInputs, Flush, RegisterFlushed, Crash, sf_files, sf_meta, sf_others, sf_history
<1>8. ~WindowPasses /\ ~Query /\ ~PlanExpires
  BY DEF WindowPasses, Query, PlanExpires, sf_files, sf_meta, sf_others, sf_history
<1> QED
  BY <1>1, <1>2, <1>3, <1>4, <1>5, <1>6, <1>7, <1>8, FileFacts DEF SFNext

LEMMA BlameFrame ==
    ASSUME SFNext, blame' # blame
    PROVE  \/ \E c \in Cycles : Register(c) \/ \E f \in Daily \cup {Output} : UpdateTier(c, f)
                \/ DeleteSource(c, f)
           \/ \E d \in Requests : RenameOver(d) \/ Wipe(d) \/ Forget(d)
                \/ \E f \in Files : CountRows(d, f)
           \/ DeleteInputs \/ RegisterFlushed \/ Crash \/ PlanExpires
<1>1. \A c \in Cycles : ~StartCycle(c) /\ ~FindCandidates(c) /\ ~FindOrphans(c) /\ ~SweepOrphan(c)
  BY DEF StartCycle, FindCandidates, FindOrphans, SweepOrphan, sf_files, sf_meta, sf_others,
         sf_history
<1>2. \A c \in Cycles : ~EndCycle(c)
  BY DEF EndCycle, sf_files, sf_meta, sf_others, sf_history
<1>3. \A c \in Cycles, f \in Files : ~Copy(c, f)
  BY DEF Copy, sf_files, sf_meta, sf_others, sf_history
<1>4. \A d \in Requests : ~StartDelete(d) /\ ~CopyKept(d) /\ ~EndDelete(d) /\ ~StartDrop(d)
  BY DEF StartDelete, CopyKept, EndDelete, StartDrop, sf_files, sf_meta, sf_others, sf_history
<1>5. \A d \in Requests : ~DropFile(d)
  BY DEF DropFile, sf_files, sf_meta, sf_others, sf_history
<1>6. ~StartRetention /\ ~RetentionDelete /\ ~StartCompaction /\ ~UploadOutput
  BY DEF StartRetention, RetentionDelete, StartCompaction, UploadOutput, sf_files, sf_meta,
         sf_others, sf_history
<1>7. ~Flush /\ ~WindowPasses /\ ~Query
  BY DEF Flush, WindowPasses, Query, sf_files, sf_meta, sf_others, sf_history
<1> QED
  BY <1>1, <1>2, <1>3, <1>4, <1>5, <1>6, <1>7, FileFacts DEF SFNext

-----------------------------------------------------------------------------
(* What a step does to a tier, to the temporary files, and to what the      *)
(* operations hold.                                                         *)

Movable == Daily \cup {Output}
Aim(d) == IF req[d].pc = "drop" THEN Rows ELSE Selected(req[d].where)

\* A request that reads a file it rewrites.
Reading(d, f) == req[d].pc \in {"copy", "rename"} /\ req[d].file = f

\* Why one file goes from hot storage.
Reason(f) ==
    \/ \E c \in Cycles : Deleting(c, f)
    \/ \E d \in Requests : /\ f \in req[d].todo
                           /\ f \in DOMAIN hot => hot[f] \subseteq Aim(d) \cup blame'["unknown"]
    \/ f \in doomedFiles

LEMMA HotStep ==
    ASSUME TypeInv, SFNext, hot' # hot
    PROVE  \/ \E f \in Files : hot' = Drop(hot, {f}) /\ Reason(f)
           \/ \E d \in Requests : Wipe(d)
           \/ \E d \in Requests : RenameOver(d) /\ req[d].file \in DOMAIN temp
           \/ UploadOutput \/ DeleteInputs \/ Flush
<1>1. ASSUME NEW c \in Cycles, SweepOrphan(c) PROVE \E f \in Files : hot' = Drop(hot, {f}) /\ Reason(f)
  <2> DEFINE f == Min(cyc[c].todo)
  <2>1. f \in cyc[c].todo /\ f \in Files
    BY <1>1, LeastFile DEF SweepOrphan, TypeInv, CycType, CycleType
  <2>2. hot' = Drop(hot, {f}) /\ cyc[c].stage = "sweep"
    BY <1>1 DEF SweepOrphan
  <2> QED
    BY <2>1, <2>2 DEF Reason, Deleting
<1>2. ASSUME NEW c \in Cycles, NEW f \in Daily \cup {Output}, DeleteSource(c, f)
      PROVE  \E g \in Files : hot' = Drop(hot, {g}) /\ Reason(g)
  BY <1>2, FileFacts DEF DeleteSource, Reason, Deleting
<1>3. ASSUME NEW d \in Requests, RenameOver(d) PROVE req[d].file \in DOMAIN temp
  BY <1>3 DEF RenameOver
<1>4. ASSUME NEW d \in Requests, DropFile(d) PROVE \E f \in Files : hot' = Drop(hot, {f}) /\ Reason(f)
  <2> DEFINE f == Min(req[d].todo)
  <2>1. req[d].todo # {} /\ hot' = Drop(hot, {f}) /\ req[d].pc = "drop"
    BY <1>4 DEF DropFile
  <2>2. f \in req[d].todo /\ f \in Files
    BY <2>1, LeastFile DEF TypeInv, ReqType, RequestType
  <2>3. f \in DOMAIN hot => hot[f] \subseteq Rows
    BY DEF TypeInv, FilesType, Stores
  <2> QED
    BY <2>1, <2>2, <2>3 DEF Reason, Aim
<1>5. ASSUME NEW d \in Requests, NEW f \in Files, CountRows(d, f)
      PROVE  \E g \in Files : hot' = Drop(hot, {g}) /\ Reason(g)
  <2>1. PICK gone, kept, unasked \in SUBSET Rows :
            /\ Counts(d, f, gone, kept, unasked)
            /\ f \in DOMAIN hot => /\ kept = hot[f] \ gone
                                   /\ gone \subseteq Selected(req[d].where) \cup unasked
    BY <1>5, CountsRows DEF TypeInv
  <2>2. req[d].pc = "files" /\ f \in req[d].todo
    BY <1>5 DEF CountRows
  <2>3. /\ f \in DOMAIN hot /\ kept = {} /\ hot' = Drop(hot, {f})
        /\ \E S : blame' = [blame EXCEPT !["overtaken"] = @ \cup S, !["unknown"] = @ \cup unasked]
    BY <1>5, <2>1 DEF Counts
  <2>4. unasked \subseteq blame'["unknown"]
    BY <2>3 DEF TypeInv, HistType, Causes
  <2>5. hot[f] \subseteq Selected(req[d].where) \cup unasked
    BY <2>1, <2>3
  <2> QED
    BY <2>2, <2>3, <2>4, <2>5 DEF Reason, Aim
<1>6. ASSUME RetentionDelete PROVE \E f \in Files : hot' = Drop(hot, {f}) /\ Reason(f)
  <2> DEFINE f == Min(doomedFiles)
  <2>1. doomedFiles # {} /\ hot' = Drop(hot, {f})
    BY <1>6 DEF RetentionDelete
  <2>2. f \in doomedFiles /\ f \in Files
    BY <2>1, LeastFile DEF TypeInv, OtherType
  <2> QED
    BY <2>1, <2>2 DEF Reason
<1> QED
  BY <1>1, <1>2, <1>3, <1>4, <1>5, <1>6, HotFrame

LEMMA ColdStep ==
    ASSUME TypeInv, SFNext, cold' # cold
    PROVE  \/ \E c \in Cycles, f \in Movable \cap DOMAIN hot :
                 Copy(c, f) /\ cold' = Put(cold, f, hot[f]) /\ f \in cyc'[c].copied /\ hot' = hot
           \/ \E c \in Cycles, f \in Movable :
                 UpdateTier(c, f) /\ RollBack(c, f) /\ hot' = hot /\ tier' = tier
<1>1. PICK c \in Cycles, f \in Daily \cup {Output} : Copy(c, f) \/ UpdateTier(c, f)
  BY ColdFrame
<1>2. f \in Movable /\ f \in Files
  BY FileFacts DEF Movable
<1>3. CASE Copy(c, f)
  <2>1. f \in DOMAIN hot /\ cold' = Put(cold, f, hot[f]) /\ hot' = hot
        /\ cyc' = [cyc EXCEPT ![c].todo = @ \ {f}, ![c].copied = @ \cup {f}]
    BY <1>3 DEF Copy
  <2>2. cyc'[c].copied = cyc[c].copied \cup {f}
    BY <1>2, <2>1, CycCopied DEF TypeInv
  <2> QED
    BY <1>2, <1>3, <2>1, <2>2
<1>4. CASE UpdateTier(c, f)
  BY <1>2, <1>4 DEF UpdateTier, KeepCopy, sf_meta
<1> QED
  BY <1>1, <1>3, <1>4

LEMMA TempStep ==
    ASSUME TypeInv, SFNext, NEW f \in DOMAIN temp'
    PROVE  \/ f \in DOMAIN temp /\ temp'[f] = temp[f]
           \/ \E d \in Requests : CopyKept(d) /\ f = req[d].file /\ temp'[f] = req[d].read
<1>1. CASE temp' = temp
  BY <1>1
<1>2. ASSUME NEW d \in Requests, CopyKept(d)
      PROVE  \/ f \in DOMAIN temp /\ temp'[f] = temp[f]
             \/ f = req[d].file /\ temp'[f] = req[d].read
  BY <1>2, PutFacts, DropFacts DEF CopyKept
<1>3. ASSUME NEW d \in Requests, RenameOver(d) PROVE f \in DOMAIN temp /\ temp'[f] = temp[f]
  <2>1. temp' = Drop(temp, {req[d].file}) \/ temp' = temp
    BY <1>3 DEF RenameOver
  <2> QED
    BY <2>1, DropFacts
<1>4. \A d \in Requests : ~Wipe(d)
  BY NoFiles DEF Wipe
<1> QED
  BY <1>1, <1>2, <1>3, <1>4, TempFrame

\* Only its own actions and a crash change a request.
LEMMA RequestStep ==
    ASSUME TypeInv, SFNext, NEW d \in Requests, req'[d] # req[d]
    PROVE  \/ StartDelete(d) \/ CopyKept(d) \/ RenameOver(d) \/ EndDelete(d) \/ Wipe(d)
           \/ Forget(d) \/ StartDrop(d) \/ DropFile(d) \/ (\E f \in Files : CountRows(d, f))
           \/ Crash
<1> USE DEF TypeInv, ReqType
<1>1. ASSUME NEW e \in Requests, StartDelete(e) PROVE e = d
  BY <1>1 DEF StartDelete
<1>2. ASSUME NEW e \in Requests, CopyKept(e) PROVE e = d
  BY <1>2 DEF CopyKept, ReqMoves
<1>3. ASSUME NEW e \in Requests, RenameOver(e) PROVE e = d
  BY <1>3 DEF RenameOver
<1>4. ASSUME NEW e \in Requests, EndDelete(e) PROVE e = d
  BY <1>4 DEF EndDelete, ReqMoves
<1>5. ASSUME NEW e \in Requests, Wipe(e) \/ Forget(e) PROVE e = d
  BY <1>5 DEF Wipe, Forget, ReqMoves
<1>6. ASSUME NEW e \in Requests, StartDrop(e) \/ DropFile(e) PROVE e = d
  BY <1>6 DEF StartDrop, DropFile, ReqMoves
<1>7. ASSUME NEW e \in Requests, NEW f \in Files, CountRows(e, f) PROVE e = d
  BY <1>7 DEF CountRows
<1>8. req' # req
  OBVIOUS
<1> QED
  BY <1>1, <1>2, <1>3, <1>4, <1>5, <1>6, <1>7, <1>8, ReqFrame

\* What becomes of the fields of one request.
LEMMA RequestFields ==
    ASSUME TypeInv, SFNext, NEW d \in Requests
    PROVE  \/ /\ req'[d].pc = req[d].pc /\ req'[d].where = req[d].where
              /\ req'[d].todo \subseteq req[d].todo /\ req'[d].file = req[d].file
              /\ req'[d].read = req[d].read /\ req'[d].gone = req[d].gone
           \/ /\ req[d].pc = "files" /\ req'[d].pc \in {"idle", "wipe"} /\ req[d].todo = {}
              /\ req'[d].todo = {} /\ req'[d].read \in {{}, req[d].read}
              /\ req'[d].gone \in {{}, req[d].gone}
           \/ /\ req[d].pc \in {"drop", "wipe", "forget"} /\ req'[d].pc \in {"wipe", "forget", "idle"}
              /\ req[d].pc = "drop" => req[d].todo = {} /\ req'[d].pc = "wipe"
              /\ req[d].pc = "wipe" => req'[d].pc = "forget"
              /\ req'[d].todo \in {{}, req[d].todo} /\ req'[d].read \in {{}, req[d].read}
              /\ req'[d].gone \in {{}, req[d].gone}
           \/ /\ req[d].pc = "copy" /\ req'[d].pc = "rename" /\ req'[d].where = req[d].where
              /\ req'[d].todo = req[d].todo /\ req'[d].file = req[d].file
              /\ req'[d].read = req[d].read /\ req'[d].gone = req[d].gone
              /\ CopyKept(d)
           \/ /\ req[d].pc \in {"copy", "rename"} /\ req'[d].pc = "files"
              /\ req'[d].where = req[d].where /\ req'[d].todo = req[d].todo
              /\ req'[d].read = {} /\ req'[d].gone \subseteq req[d].gone
           \/ /\ req[d].pc = "idle" /\ req'[d].pc = "files" /\ req'[d].read = {} /\ req'[d].gone = {}
              /\ \A f \in req'[d].todo : f \in DOMAIN hot
                                         /\ hot[f] \cap Selected(req'[d].where) \subseteq doomed'
           \/ /\ req[d].pc = "idle" /\ req'[d].pc = "drop" /\ req'[d].read = {} /\ req'[d].gone = {}
              /\ \A f \in req'[d].todo : f \in DOMAIN hot /\ hot[f] \subseteq doomed'
           \/ \E f \in req[d].todo \cap DOMAIN hot :
              /\ req[d].pc = "files" /\ req'[d].pc = "copy" /\ req'[d].where = req[d].where
              /\ req'[d].todo = req[d].todo \ {f} /\ req'[d].file = f
              /\ req'[d].gone \subseteq hot[f] /\ req'[d].read = hot[f] \ req'[d].gone
              /\ req'[d].gone \subseteq Selected(req[d].where) \cup blame'["unknown"]
           \/ /\ req'[d].pc = "idle" /\ req'[d].todo = {} /\ req'[d].read = {} /\ req'[d].gone = {}
<1> ReqType
  BY DEF TypeInv
<1>1. CASE req'[d] = req[d]
  BY <1>1
<1>2. CASE StartDelete(d)
  <2>1. PICK clause \in Clauses :
            LET affected == {f \in DOMAIN hot : hot[f] \cap Selected(clause.where) # {}} IN
            /\ req' = [req EXCEPT ![d] = [NoRequest EXCEPT !.pc = "files", !.todo = affected,
                                 !.where = clause.where, !.unknown = clause.unknown]]
            /\ doomed' = doomed \cup (RowsIn(Restrict(hot, affected)) \cap Selected(clause.where))
    BY <1>2 DEF StartDelete
  <2> DEFINE where == clause.where
             affected == {f \in DOMAIN hot : hot[f] \cap Selected(where) # {}}
  <2>2. affected \in SUBSET Files
    BY DEF TypeInv, FilesType, Stores
  <2>3. /\ req'[d].pc = "files" /\ req'[d].where = where /\ req'[d].todo = affected
        /\ req'[d].read = {} /\ req'[d].gone = {}
    <3>1. req' = [req EXCEPT ![d] = [NoRequest EXCEPT !.pc = "files", !.todo = affected,
                                 !.where = where, !.unknown = clause.unknown]]
      BY <2>1
    <3>2. where \in SUBSET Kinds /\ clause.unknown \in SUBSET Kinds
      BY StoredFilesConstants
    <3> HIDE DEF affected, where
    <3>3. /\ ReqType'
          /\ req'[d].pc = "files" /\ req'[d].where = where /\ req'[d].todo = affected
          /\ req'[d].read = {} /\ req'[d].gone = {}
          /\ \A e \in Requests : e # d => req'[e] = req[e]
      BY <2>2, <3>1, <3>2, ReqStart
    <3> QED
      BY <3>3
  <2>4. \A f \in affected : hot[f] \subseteq RowsIn(Restrict(hot, affected))
    BY RestrictFacts DEF RowsIn
  <2>5. \A f \in affected : f \in DOMAIN hot /\ hot[f] \cap Selected(where) \subseteq doomed'
    BY <2>1, <2>4
  <2> HIDE DEF affected, where
  <2>6. req[d].pc = "idle"
    BY <1>2 DEF StartDelete
  <2> QED
    BY <2>3, <2>5, <2>6
<1>3. CASE CopyKept(d)
  BY <1>3, ReqMoved, ReqDrops DEF CopyKept
<1>4. CASE RenameOver(d)
  BY <1>4, ReqDrops DEF RenameOver
<1>5. CASE EndDelete(d)
  BY <1>5, ReqMoved, ReqReset DEF EndDelete
<1>6. CASE Wipe(d)
  BY <1>6, ReqMoved DEF Wipe
<1>7. CASE Forget(d)
  BY <1>7, ReqReset DEF Forget
<1>8. CASE StartDrop(d)
  <2>1. DOMAIN hot \in SUBSET Files
    BY DEF TypeInv, FilesType, Stores
  <2>2. req'[d].pc = "drop" /\ req'[d].todo = DOMAIN hot /\ req'[d].read = {} /\ req'[d].gone = {}
    BY <1>8, <2>1, ReqStartDrop DEF StartDrop
  <2>3. \A f \in DOMAIN hot : hot[f] \subseteq doomed'
    BY <1>8 DEF StartDrop, RowsIn
  <2>4. req[d].pc = "idle"
    BY <1>8 DEF StartDrop
  <2> QED
    BY <2>2, <2>3, <2>4
<1>9. CASE DropFile(d)
  <2>1. CASE req[d].todo = {}
    BY <1>9, <2>1, ReqMoved DEF DropFile
  <2>2. CASE req[d].todo # {}
    <3>1. req' = [req EXCEPT ![d].todo = @ \ {Min(req[d].todo)}]
      BY <1>9, <2>2 DEF DropFile
    <3>2. /\ req'[d].pc = req[d].pc /\ req'[d].where = req[d].where
          /\ req'[d].todo = req[d].todo \ {Min(req[d].todo)} /\ req'[d].file = req[d].file
          /\ req'[d].read = req[d].read /\ req'[d].gone = req[d].gone
      BY <3>1, ReqDone
    <3> QED
      BY <3>2
  <2> QED
    BY <2>1, <2>2
<1>10. ASSUME NEW f \in Files, CountRows(d, f)
       PROVE  \/ /\ req'[d].pc = req[d].pc /\ req'[d].where = req[d].where
                 /\ req'[d].todo \subseteq req[d].todo /\ req'[d].file = req[d].file
                 /\ req'[d].read = req[d].read /\ req'[d].gone = req[d].gone
              \/ /\ f \in DOMAIN hot /\ f \in req[d].todo
                 /\ req[d].pc = "files" /\ req'[d].pc = "copy" /\ req'[d].where = req[d].where
                 /\ req'[d].todo = req[d].todo \ {f} /\ req'[d].file = f
                 /\ req'[d].gone \subseteq hot[f] /\ req'[d].read = hot[f] \ req'[d].gone
                 /\ req'[d].gone \subseteq Selected(req[d].where) \cup blame'["unknown"]
  <2>1. PICK gone, kept, unasked \in SUBSET Rows :
            /\ Counts(d, f, gone, kept, unasked)
            /\ f \in DOMAIN hot => /\ kept = hot[f] \ gone /\ gone \subseteq hot[f]
                                   /\ gone \subseteq Selected(req[d].where) \cup unasked
    BY <1>10, CountsRows DEF TypeInv
  <2>2. req[d].pc = "files" /\ f \in req[d].todo
    BY <1>10 DEF CountRows
  <2>3. CASE \/ req' = [req EXCEPT ![d].todo = @ \ {f}, ![d].ok = FALSE]
             \/ req' = [req EXCEPT ![d].todo = @ \ {f}]
    <3>1. /\ req'[d].pc = req[d].pc /\ req'[d].where = req[d].where
          /\ req'[d].todo = req[d].todo \ {f} /\ req'[d].file = req[d].file
          /\ req'[d].read = req[d].read /\ req'[d].gone = req[d].gone
      BY <2>3, ReqDone
    <3> QED
      BY <3>1
  <2>4. CASE /\ f \in DOMAIN hot /\ Blame("unknown", unasked)
             /\ req' = [req EXCEPT ![d].pc = "copy", ![d].todo = @ \ {f}, ![d].file = f,
                                   ![d].read = kept, ![d].gone = gone]
    <3>1. /\ ReqType'
          /\ req'[d].pc = "copy" /\ req'[d].where = req[d].where
          /\ req'[d].todo = req[d].todo \ {f}
          /\ req'[d].file = f /\ req'[d].read = kept /\ req'[d].gone = gone
          /\ \A e \in Requests : e # d => req'[e] = req[e]
      BY <2>4, ReqReads
    <3>2. blame'["unknown"] = blame["unknown"] \cup unasked
      BY <2>4, BlameType DEF TypeInv, Causes
    <3> QED
      BY <2>1, <2>2, <2>4, <3>1, <3>2
  <2> QED
    BY <2>1, <2>3, <2>4 DEF Counts
<1>11. CASE Crash
  BY <1>11, ReqCrash DEF Crash, NoRequest
<1> QED
  BY <1>1, <1>2, <1>3, <1>4, <1>5, <1>6, <1>7, <1>8, <1>9, <1>10, <1>11, RequestStep

\* Only its own actions and a crash change a cycle.
LEMMA CycleStep ==
    ASSUME TypeInv, SFNext, NEW c \in Cycles, cyc'[c] # cyc[c]
    PROVE  \/ StartCycle(c) \/ Register(c) \/ FindCandidates(c) \/ FindOrphans(c)
           \/ SweepOrphan(c) \/ EndCycle(c) \/ Crash
           \/ \E f \in Movable : Copy(c, f) \/ UpdateTier(c, f) \/ DeleteSource(c, f)
<1> USE DEF TypeInv, CycType
<1>1. ASSUME NEW b \in Cycles, StartCycle(b) \/ Register(b) PROVE b = c
  BY <1>1 DEF StartCycle, Register, CycleMoves, CycleDone
<1>2. ASSUME NEW b \in Cycles, FindCandidates(b) \/ FindOrphans(b) PROVE b = c
  BY <1>2 DEF FindCandidates, FindOrphans, CycleMoves
<1>3. ASSUME NEW b \in Cycles, SweepOrphan(b) \/ EndCycle(b) PROVE b = c
  BY <1>3 DEF SweepOrphan, EndCycle, CycleMoves, CycleDone
<1>4. ASSUME NEW b \in Cycles, NEW f, Copy(b, f) PROVE b = c
  BY <1>4 DEF Copy, CycleDone
<1>5. ASSUME NEW b \in Cycles, NEW f, UpdateTier(b, f) \/ DeleteSource(b, f) PROVE b = c
  BY <1>5 DEF UpdateTier, DeleteSource
<1>6. cyc' # cyc
  OBVIOUS
<1> QED
  BY <1>1, <1>2, <1>3, <1>4, <1>5, <1>6, CycFrame DEF Movable

\* What becomes of the fields of one cycle.
LEMMA CycleFields ==
    ASSUME TypeInv, SFNext, NEW c \in Cycles
    PROVE  \/ /\ cyc'[c].stage = cyc[c].stage /\ cyc'[c].todo \subseteq cyc[c].todo
              /\ cyc'[c].copied = cyc[c].copied /\ cyc'[c].moved = cyc[c].moved
           \/ /\ cyc[c].stage = "idle" /\ cyc'[c].stage = "scan" /\ cyc'[c].todo = DOMAIN hot
              /\ cyc'[c].copied = cyc[c].copied /\ cyc'[c].moved = cyc[c].moved
           \/ /\ cyc[c].stage = "scan" /\ cyc'[c].stage = "migrate"
              /\ cyc'[c].todo = {f \in Movable : tier[f] = "hot"}
              /\ cyc'[c].copied = cyc[c].copied /\ cyc'[c].moved = cyc[c].moved
           \/ \E f \in Movable \cap DOMAIN hot :
              /\ cyc[c].stage = "migrate" /\ cyc'[c].stage = "migrate" /\ f \in cyc[c].todo
              /\ cyc'[c].todo = cyc[c].todo \ {f} /\ cyc'[c].copied = cyc[c].copied \cup {f}
              /\ cyc'[c].moved = cyc[c].moved
              /\ cold' = Put(cold, f, hot[f]) /\ hot' = hot
           \/ \E f \in Movable \cap cyc[c].copied :
              /\ cyc'[c].stage = cyc[c].stage /\ cyc'[c].todo = cyc[c].todo
              /\ cyc'[c].copied = cyc[c].copied \ {f} /\ tier'[f] = "cold"
              /\ cyc'[c].moved = cyc[c].moved \cup {f}
              /\ hot' = hot /\ cold' = cold
           \/ \E f \in Movable \cap cyc[c].copied :
              /\ cyc'[c].stage = cyc[c].stage /\ cyc'[c].todo = cyc[c].todo
              /\ cyc'[c].copied = cyc[c].copied \ {f} /\ cyc'[c].moved = cyc[c].moved
              /\ RollBack(c, f) \/ KeepCopy(f)
           \/ \E f \in Movable \cap cyc[c].moved :
              /\ cyc'[c].stage = cyc[c].stage /\ cyc'[c].todo = cyc[c].todo
              /\ cyc'[c].copied = cyc[c].copied /\ cyc'[c].moved = cyc[c].moved \ {f}
              /\ \/ hot' = Drop(hot, {f})
                 \/ f \in DOMAIN hot /\ hot' = hot /\ cold' = cold /\ Blame("left", hot[f])
           \/ /\ cyc[c].stage = "migrate" /\ cyc'[c].stage = "sweep"
              /\ cyc[c].todo \cup cyc[c].copied \cup cyc[c].moved = {}
              /\ cyc'[c].todo = {f \in recent : tier[f] = "cold"} /\ tier' = tier
              /\ cyc'[c].copied = {} /\ cyc'[c].moved = {}
           \/ /\ cyc[c].stage = "sweep" /\ cyc'[c].stage = "idle"
              /\ cyc[c].todo = {} /\ cyc'[c].todo = {}
              /\ cyc'[c].copied = cyc[c].copied /\ cyc'[c].moved = cyc[c].moved
           \/ /\ Crash /\ cyc'[c].stage = "idle" /\ cyc'[c].todo = {} /\ cyc'[c].copied = {}
              /\ cyc'[c].moved = {}
<1> CycType
  BY DEF TypeInv
<1>1. CASE cyc'[c] = cyc[c]
  BY <1>1
<1>2. CASE StartCycle(c)
  <2>1. DOMAIN hot \in SUBSET Files
    BY DEF TypeInv, FilesType, Stores
  <2> QED
    BY <1>2, <2>1, CycMoves DEF StartCycle
<1>3. CASE Register(c)
  BY <1>3, CycDone DEF Register
<1>4. CASE FindCandidates(c)
  <2>1. {f \in Movable : tier[f] = "hot"} \in SUBSET Files
    BY FileFacts DEF Movable
  <2> QED
    BY <1>4, <2>1, CycMoves DEF FindCandidates, Movable
<1>5. CASE FindOrphans(c)
  <2>1. {f \in recent : tier[f] = "cold"} \in SUBSET Files
    BY DEF TypeInv, MetaType
  <2> QED
    BY <1>5, <2>1, CycMoves DEF FindOrphans, sf_meta
<1>6. CASE SweepOrphan(c)
  BY <1>6, CycDone DEF SweepOrphan
<1>7. CASE EndCycle(c)
  BY <1>7, CycMoves DEF EndCycle
<1>8. CASE Crash
  BY <1>8, CycCrash DEF Crash, NoCycle
<1>9. ASSUME NEW f \in Movable, Copy(c, f)
      PROVE  \/ /\ cyc'[c].stage = cyc[c].stage /\ cyc'[c].todo \subseteq cyc[c].todo
                /\ cyc'[c].copied = cyc[c].copied /\ cyc'[c].moved = cyc[c].moved
             \/ /\ f \in DOMAIN hot
                /\ cyc[c].stage = "migrate" /\ cyc'[c].stage = "migrate" /\ f \in cyc[c].todo
                /\ cyc'[c].todo = cyc[c].todo \ {f} /\ cyc'[c].copied = cyc[c].copied \cup {f}
                /\ cyc'[c].moved = cyc[c].moved
                /\ cold' = Put(cold, f, hot[f]) /\ hot' = hot
  <2>1. f \in Files
    BY FileFacts DEF Movable
  <2>2. cyc[c].stage = "migrate" /\ f \in cyc[c].todo
    BY <1>9 DEF Copy
  <2>3. CASE CycleDone(c, f)
    BY <2>3, CycDone
  <2>4. CASE /\ f \in DOMAIN hot /\ cold' = Put(cold, f, hot[f]) /\ hot' = hot
             /\ cyc' = [cyc EXCEPT ![c].todo = @ \ {f}, ![c].copied = @ \cup {f}]
    <3>1. /\ CycType'
          /\ cyc'[c].stage = cyc[c].stage /\ cyc'[c].todo = cyc[c].todo \ {f}
          /\ cyc'[c].copied = cyc[c].copied \cup {f} /\ cyc'[c].moved = cyc[c].moved
          /\ \A b \in Cycles : b # c => cyc'[b] = cyc[b]
      BY <2>1, <2>4, CycCopied
    <3> QED
      BY <2>2, <2>4, <3>1
  <2> QED
    BY <1>9, <2>3, <2>4 DEF Copy
<1>10. ASSUME NEW f \in Movable, UpdateTier(c, f)
       PROVE  /\ f \in cyc[c].copied
              /\ cyc'[c].stage = cyc[c].stage /\ cyc'[c].todo = cyc[c].todo
              /\ cyc'[c].copied = cyc[c].copied \ {f}
              /\ \/ /\ tier'[f] = "cold" /\ cyc'[c].moved = cyc[c].moved \cup {f}
                    /\ hot' = hot /\ cold' = cold
                 \/ cyc'[c].moved = cyc[c].moved /\ (RollBack(c, f) \/ KeepCopy(f))
  <2>1. f \in Files /\ f \in DOMAIN tier
    BY FileFacts DEF Movable, TypeInv, MetaType
  <2>2. CASE /\ tier' = [tier EXCEPT ![f] = "cold"] /\ hot' = hot /\ cold' = cold
             /\ cyc' = [cyc EXCEPT ![c].copied = @ \ {f}, ![c].moved = @ \cup {f}]
    <3>1. /\ CycType'
          /\ cyc'[c].stage = cyc[c].stage /\ cyc'[c].todo = cyc[c].todo
          /\ cyc'[c].copied = cyc[c].copied \ {f} /\ cyc'[c].moved = cyc[c].moved \cup {f}
          /\ \A b \in Cycles : b # c => cyc'[b] = cyc[b]
      BY <2>1, <2>2, CycRecorded
    <3> QED
      BY <1>10, <2>1, <2>2, <3>1 DEF UpdateTier
  <2>3. CASE cyc' = [cyc EXCEPT ![c].copied = @ \ {f}] /\ (RollBack(c, f) \/ KeepCopy(f))
    <3>1. /\ CycType'
          /\ cyc'[c].stage = cyc[c].stage /\ cyc'[c].todo = cyc[c].todo
          /\ cyc'[c].copied = cyc[c].copied \ {f} /\ cyc'[c].moved = cyc[c].moved
          /\ \A b \in Cycles : b # c => cyc'[b] = cyc[b]
      BY <2>3, CycUncopied
    <3> QED
      BY <1>10, <2>3, <3>1 DEF UpdateTier
  <2> QED
    BY <1>10, <2>2, <2>3 DEF UpdateTier
<1>11. ASSUME NEW f \in Movable, DeleteSource(c, f)
       PROVE  /\ f \in cyc[c].moved
              /\ cyc'[c].stage = cyc[c].stage /\ cyc'[c].todo = cyc[c].todo
              /\ cyc'[c].copied = cyc[c].copied /\ cyc'[c].moved = cyc[c].moved \ {f}
              /\ \/ hot' = Drop(hot, {f})
                 \/ f \in DOMAIN hot /\ hot' = hot /\ cold' = cold /\ Blame("left", hot[f])
  <2>1. cyc' = [cyc EXCEPT ![c].moved = @ \ {f}]
    BY <1>11 DEF DeleteSource
  <2>2. /\ CycType'
        /\ cyc'[c].stage = cyc[c].stage /\ cyc'[c].todo = cyc[c].todo
        /\ cyc'[c].copied = cyc[c].copied /\ cyc'[c].moved = cyc[c].moved \ {f}
        /\ \A b \in Cycles : b # c => cyc'[b] = cyc[b]
    BY <2>1, CycDeleted
  <2> QED
    BY <1>11, <2>2 DEF DeleteSource
<1>12. CASE \E f \in Movable : Copy(c, f)
  BY <1>9, <1>12
<1>13. CASE \E f \in Movable : UpdateTier(c, f)
  BY <1>10, <1>13
<1>14. CASE \E f \in Movable : DeleteSource(c, f)
  BY <1>11, <1>14
<1> QED
  BY <1>1, <1>2, <1>3, <1>4, <1>5, <1>6, <1>7, <1>8, <1>12, <1>13, <1>14, CycleStep

\* The rows that a delete takes: those that are asked for, and those that a
\* rewrite drops with them.
Taken == doomed \cup blame["unknown"]

\* The blame that an action puts on one cause stays there, and so does the rest.
LEMMA BlameGrows ==
    ASSUME HistType, NEW cause \in Causes, NEW rows, Blame(cause, rows)
    PROVE  \A c \in Causes : blame[c] \subseteq blame'[c]
BY DEF HistType, Blame

\* The history only grows; only the end of a plan clears the rows it hid.
LEMMA HistoryGrows ==
    ASSUME TypeInv, SFNext
    PROVE  /\ written \subseteq written' /\ doomed \subseteq doomed' /\ removed \subseteq removed'
           /\ \A c \in Causes \ {"cached"} : blame[c] \subseteq blame'[c]
           /\ plan' # {} => blame["cached"] \subseteq blame'["cached"]
<1> HistType
  BY DEF TypeInv
<1>1. written \subseteq written'
  BY WrittenFrame DEF Flush
<1>2. doomed \subseteq doomed'
  <2>1. \A d \in Requests : StartDelete(d) \/ StartDrop(d) => doomed \subseteq doomed'
    BY DEF StartDelete, StartDrop
  <2> QED
    BY <2>1, AskedFrame DEF StartRetention
<1>3. removed \subseteq removed'
  <2>1. \A d \in Requests, f \in Files : CountRows(d, f) => removed \subseteq removed'
    BY CountsRows DEF Counts, TypeInv
  <2>2. \A d \in Requests : RenameOver(d) => removed \subseteq removed'
    BY DEF RenameOver
  <2> QED
    BY <2>1, <2>2, RemovedFrame
<1>4. CASE blame' = blame
  BY <1>1, <1>2, <1>3, <1>4
<1>5. CASE \E cause \in Causes : \E rows : Blame(cause, rows)
  <2>1. \A c \in Causes : blame[c] \subseteq blame'[c]
    BY <1>5, BlameGrows
  <2> QED
    BY <1>1, <1>2, <1>3, <2>1 DEF Causes
<1>6. CASE \E one, other \in Causes : \E rows, more :
              one # other /\ blame' = [blame EXCEPT ![one] = @ \cup rows, ![other] = @ \cup more]
  <2>1. \A c \in Causes : blame[c] \subseteq blame'[c]
    BY <1>6 DEF HistType
  <2> QED
    BY <1>1, <1>2, <1>3, <2>1 DEF Causes
<1>7. CASE PlanExpires
  <2>1. plan' = {} /\ blame' = [blame EXCEPT !["cached"] = {}]
    BY <1>7 DEF PlanExpires
  <2>2. \A c \in Causes \ {"cached"} : blame'[c] = blame[c]
    BY <2>1 DEF HistType
  <2> QED
    BY <1>1, <1>2, <1>3, <2>1, <2>2
<1>8. blame' # blame => (\E cause \in Causes : \E rows : Blame(cause, rows)) \/ PlanExpires
         \/ \E one, other \in Causes : \E rows, more :
              one # other /\ blame' = [blame EXCEPT ![one] = @ \cup rows, ![other] = @ \cup more]
  <2> DEFINE Once == \E cause \in Causes : \E rows : Blame(cause, rows)
             Twice == \E one, other \in Causes : \E rows, more :
              one # other /\ blame' = [blame EXCEPT ![one] = @ \cup rows, ![other] = @ \cup more]
  <2>1. \A c \in Cycles : Register(c) => Twice \/ blame' = blame
    BY DEF Register, Causes
  <2>2. \A c \in Cycles, f \in Movable : UpdateTier(c, f) => Once
    BY SMTT(60) DEF UpdateTier, RollBack, KeepCopy, Causes
  <2>3. \A c \in Cycles, f \in Movable : DeleteSource(c, f) => Once \/ blame' = blame
    BY DEF DeleteSource, Causes
  <2>4. ASSUME NEW d \in Requests, NEW f \in Files, CountRows(d, f)
        PROVE  Once \/ Twice \/ blame' = blame
    <3>1. PICK gone, kept, unasked \in SUBSET Rows : Counts(d, f, gone, kept, unasked)
      BY <2>4, CountsRows DEF TypeInv
    <3> DEFINE over == gone \cap Elsewhere(d, f)
    <3>2. \/ blame' = [blame EXCEPT !["overtaken"] = @ \cup over, !["unknown"] = @ \cup unasked]
          \/ Blame("left", gone) \/ Blame("unknown", unasked) \/ blame' = blame
      BY <3>1 DEF Counts
    <3> HIDE DEF over
    <3> QED
      BY <3>2 DEF Causes
  <2>5. ASSUME NEW d \in Requests, RenameOver(d) PROVE Twice \/ blame' = blame
    <3> DEFINE f == req[d].file
               lost == req[d].gone \cap (Held(d) \cup RowsIn(temp) \cup RowsIn(Drop(hot, {f})))
               back == IF f \in DOMAIN hot THEN temp[f] \ hot[f] ELSE temp[f]
    <3>1. \/ blame' = [blame EXCEPT !["overtaken"] = @ \cup lost, !["revived"] = @ \cup back]
          \/ blame' = blame
      BY <2>5 DEF RenameOver
    <3> HIDE DEF lost, back
    <3> QED
      BY <3>1 DEF Causes
  <2>6. \A d \in Requests : Wipe(d) \/ Forget(d) => Once \/ blame' = blame
    BY DEF Wipe, Forget, Causes
  <2>7. DeleteInputs \/ RegisterFlushed \/ Crash => Once \/ blame' = blame
    BY DEF DeleteInputs, RegisterFlushed, Crash, Causes
  <2> QED
    BY <2>1, <2>2, <2>3, <2>4, <2>5, <2>6, <2>7, BlameFrame DEF Movable
<1> QED
  BY <1>4, <1>5, <1>6, <1>7, <1>8

LEMMA TakenGrows == ASSUME TypeInv, SFNext PROVE Taken \subseteq Taken'
BY HistoryGrows DEF Taken, Causes

\* How the recorded tier of a file changes, and what that hides.
LEMMA TierStep ==
    ASSUME TypeInv, SFNext, NEW f \in Files, tier'[f] # tier[f]
    PROVE  /\ hot' = hot /\ cold' = cold /\ plan' = plan
           /\ \/ /\ tier'[f] = "hot" /\ Hidden(f, "hot") \subseteq blame'["cached"]
                 /\ \/ f = Fresh /\ flush = "written"
                    \/ /\ \E c \in Cycles : cyc[c].stage = "scan" /\ f \in cyc[c].todo
                       /\ Leaving(f) => cold[f] \subseteq blame'["rescan"]
              \/ /\ tier'[f] = "cold" /\ tier[f] # "none" /\ f \in Movable
                 /\ Hidden(f, "cold") \subseteq blame'["cached"]
                 /\ \E c \in Cycles : f \in cyc[c].copied
              \/ tier'[f] = "none" /\ RowsIn(cold) \subseteq blame'["forgotten"]
<1> USE DEF TypeInv
<1>1. ASSUME NEW c \in Cycles, Register(c)
      PROVE  /\ hot' = hot /\ cold' = cold /\ plan' = plan
             /\ tier'[f] = "hot" /\ Hidden(f, "hot") \subseteq blame'["cached"]
             /\ cyc[c].stage = "scan" /\ f \in cyc[c].todo
             /\ Leaving(f) => cold[f] \subseteq blame'["rescan"]
  <2> DEFINE g == Min(cyc[c].todo)
  <2>1. cyc[c].stage = "scan" /\ cyc[c].todo # {} /\ cyc[c].todo \in SUBSET Files
    BY <1>1 DEF Register, CycType, CycleType
  <2>2. g \in cyc[c].todo
    BY <2>1, LeastFile
  <2>3. RecordHot(g) /\ blame' = [blame EXCEPT !["cached"] = @ \cup Hidden(g, "hot"),
                              !["rescan"] = @ \cup (IF Leaving(g) THEN cold[g] ELSE {})]
    BY <1>1 DEF Register, sf_meta
  <2>4. tier' = [tier EXCEPT ![g] = "hot"]
    BY <2>3 DEF RecordHot
  <2> HIDE DEF g
  <2>5. f = g /\ tier'[f] = "hot"
    BY <2>4 DEF MetaType
  <2>6. "cached" \in Causes /\ "rescan" \in Causes
    BY DEF Causes
  <2>7. /\ blame'["cached"] = blame["cached"] \cup Hidden(g, "hot")
        /\ blame'["rescan"] = blame["rescan"] \cup (IF Leaving(g) THEN cold[g] ELSE {})
    BY <2>3, <2>6 DEF HistType
  <2>8. hot' = hot /\ cold' = cold /\ plan' = plan
    BY <1>1 DEF Register, sf_files
  <2> QED
    BY <2>1, <2>2, <2>5, <2>7, <2>8
<1>2. ASSUME NEW c \in Cycles, NEW g \in Movable, UpdateTier(c, g)
      PROVE  /\ hot' = hot /\ cold' = cold /\ plan' = plan
             /\ tier'[f] = "cold" /\ tier[f] # "none" /\ f \in Movable
             /\ Hidden(f, "cold") \subseteq blame'["cached"]
             /\ f \in cyc[c].copied
  <2>1. /\ tier' = [tier EXCEPT ![g] = "cold"] /\ tier[g] # "none" /\ cold' = cold
        /\ Blame("cached", Hidden(g, "cold")) /\ g \in cyc[c].copied
    BY <1>2 DEF UpdateTier, sf_meta
  <2>2. f = g /\ tier'[f] = "cold"
    BY <2>1 DEF MetaType
  <2>3. blame'["cached"] = blame["cached"] \cup Hidden(g, "cold")
    BY <2>1, HiddenType, BlameType DEF Causes
  <2> QED
    BY <1>2, <2>1, <2>2, <2>3 DEF UpdateTier
<1>3. ASSUME NEW d \in Requests, Forget(d)
      PROVE  /\ hot' = hot /\ cold' = cold /\ plan' = plan
             /\ tier'[f] = "none" /\ RowsIn(cold) \subseteq blame'["forgotten"]
  <2>1. tier' = [g \in Files |-> "none"] /\ Blame("forgotten", RowsIn(cold))
    BY <1>3 DEF Forget, sf_meta
  <2>2. blame'["forgotten"] = blame["forgotten"] \cup RowsIn(cold)
    BY <2>1, StoresRows, BlameType DEF Causes, FilesType
  <2> QED
    BY <1>3, <2>1, <2>2 DEF Forget, sf_files
<1>4. ASSUME RegisterFlushed
      PROVE  /\ hot' = hot /\ cold' = cold /\ plan' = plan
             /\ tier'[f] = "hot" /\ Hidden(f, "hot") \subseteq blame'["cached"]
             /\ f = Fresh /\ flush = "written"
  <2>1. RecordHot(Fresh) /\ Blame("cached", Hidden(Fresh, "hot"))
    BY <1>4 DEF RegisterFlushed, sf_meta
  <2>2. f = Fresh /\ tier'[f] = "hot"
    BY <2>1, FileFacts DEF RecordHot, MetaType
  <2>3. blame'["cached"] = blame["cached"] \cup Hidden(Fresh, "hot")
    BY <2>1, HiddenType, BlameType DEF Causes
  <2> QED
    BY <1>4, <2>2, <2>3 DEF RegisterFlushed, sf_files
<1> QED
  BY <1>1, <1>2, <1>3, <1>4, TierFrame DEF Movable

\* What may be found as an orphan.
LEMMA RecentStep ==
    ASSUME TypeInv, SFNext, NEW f \in recent'
    PROVE  f \in recent \/ tier[f] = "cold" \/ (f \in Movable /\ \E c \in Cycles : f \in cyc[c].copied)
<1>1. \A c \in Cycles : Register(c) => f \in recent \/ tier[f] = "cold"
  BY DEF Register, RecordHot, sf_meta
<1>2. \A c \in Cycles, g \in Movable : UpdateTier(c, g) =>
         f \in recent \/ (f \in Movable /\ f \in cyc[c].copied)
  BY DEF UpdateTier, sf_meta
<1>3. \A d \in Requests : Forget(d) => f \in recent
  BY DEF Forget, sf_meta
<1>4. RegisterFlushed \/ WindowPasses => f \in recent \/ tier[f] = "cold"
  BY DEF RegisterFlushed, RecordHot, WindowPasses, sf_meta
<1> QED
  BY <1>1, <1>2, <1>3, <1>4, RecentFrame DEF Movable

\* How far the compaction is, and what it holds.
LEMMA CompStep ==
    ASSUME TypeInv, SFNext
    PROVE  \/ comp' = comp
           \/ /\ comp.pc = "idle" /\ comp'.pc = "read" /\ comp'.files = DOMAIN hot
              /\ comp'.rows = RowsIn(hot) /\ hot' = hot
           \/ /\ UploadOutput /\ comp.pc = "read" /\ comp'.pc = "uploaded"
              /\ comp'.files = comp.files /\ comp'.rows = comp.rows
              /\ hot' = Put(hot, Output, comp.rows) /\ cold' = cold
           \/ /\ DeleteInputs /\ comp.pc = "uploaded" /\ comp'.pc = "done" /\ comp'.files = {}
              /\ comp'.rows = {}
           \/ Crash /\ comp.pc = "read" /\ comp'.pc = "idle" /\ comp'.files = {} /\ comp'.rows = {}
<1>1. comp \in CompType
  BY DEF TypeInv, OtherType
<1> QED
  BY <1>1, CompFrame
  DEF CompType, StartCompaction, UploadOutput, DeleteInputs, Crash, NoComp, sf_files

LEMMA FlushStep ==
    ASSUME TypeInv, SFNext
    PROVE  /\ flush' = flush \/ Flush \/ (flush = "written" /\ flush' = "done")
           /\ written' # written => Flush
BY FlushFrame, WrittenFrame DEF RegisterFlushed, Crash

LEMMA DoomedStep ==
    ASSUME TypeInv, SFNext, NEW f \in doomedFiles'
    PROVE  f \in doomedFiles \/ (f \in DOMAIN hot /\ hot[f] \subseteq doomed')
<1>1. CASE StartRetention
  <2>1. f \in DOMAIN hot /\ doomed' = doomed \cup RowsIn(Restrict(hot, doomedFiles'))
    BY <1>1 DEF StartRetention
  <2>2. hot[f] \subseteq RowsIn(Restrict(hot, doomedFiles'))
    BY RestrictFacts DEF RowsIn
  <2> QED
    BY <2>1, <2>2
<1>2. RetentionDelete \/ Crash => f \in doomedFiles
  BY DEF RetentionDelete, Crash
<1> QED
  BY <1>1, <1>2, DoomedFrame
-----------------------------------------------------------------------------
(* The shape of the operations, and the files nobody has written yet.       *)

CycleShape(c) ==
    /\ cyc[c].stage # "migrate" => cyc[c].copied = {} /\ cyc[c].moved = {}
    /\ cyc[c].stage = "idle" => cyc[c].todo = {}
    /\ cyc[c].todo \cap (cyc[c].copied \cup cyc[c].moved) = {}
    /\ cyc[c].copied \cap cyc[c].moved = {}
    /\ cyc[c].copied \cup cyc[c].moved \subseteq Movable
RequestShape(d) ==
    /\ req[d].pc \notin {"copy", "rename"} => req[d].read = {}
    /\ req[d].pc \in {"idle", "wipe", "forget"} => req[d].todo = {}
CompShape == comp.pc \in {"idle", "done"} => comp.files = {} /\ comp.rows = {}
MovableShape == /\ DOMAIN cold \subseteq Movable /\ recent \subseteq Movable
                /\ \A f \in Files : tier[f] = "cold" => f \in Movable
ShapeInv == /\ \A c \in Cycles : CycleShape(c)
            /\ \A d \in Requests : RequestShape(d)
            /\ CompShape /\ MovableShape

Unborn(f) == \/ f = Fresh /\ flush = "none"
             \/ f = Output /\ comp.pc \in {"idle", "read"}

BornInv ==
    \A f \in Files : Unborn(f) =>
        /\ f \notin DOMAIN hot /\ f \notin DOMAIN cold /\ f \notin DOMAIN temp
        /\ f \notin comp.files /\ f \notin doomedFiles
        /\ tier[f] = "none" /\ f \notin recent
        /\ \A d \in Requests : ~Reading(d, f) /\ f \notin req[d].todo
        /\ \A c \in Cycles : f \notin cyc[c].todo \cup cyc[c].copied \cup cyc[c].moved

LEMMA ShapeInit == SFInit => ShapeInv
BY NoFiles DEF SFInit, ShapeInv, CycleShape, RequestShape, CompShape, MovableShape, NoCycle,
               NoRequest, NoComp

LEMMA BornInit == SFInit => BornInv
<1> SUFFICES ASSUME SFInit, NEW f \in Files, Unborn(f)
             PROVE  /\ f \notin DOMAIN hot /\ f \notin DOMAIN cold /\ f \notin DOMAIN temp
                    /\ f \notin comp.files /\ f \notin doomedFiles
                    /\ tier[f] = "none" /\ f \notin recent
                    /\ \A d \in Requests : ~Reading(d, f) /\ f \notin req[d].todo
                    /\ \A c \in Cycles : f \notin cyc[c].todo \cup cyc[c].copied \cup cyc[c].moved
  BY DEF BornInv
<1>1. f \notin Hourly \cup Daily
  BY FileFacts DEF Unborn
<1>2. PICK present \in SUBSET (Hourly \cup Daily) : hot = [g \in present |-> {g} \X Kinds]
  BY DEF SFInit
<1>3. f \notin DOMAIN hot
  BY <1>1, <1>2
<1>4. tier = [g \in Files |-> IF g \in DOMAIN hot THEN "hot" ELSE "none"]
  BY DEF SFInit
<1> QED
  BY <1>3, <1>4, NoFiles DEF SFInit, NoCycle, NoRequest, NoComp, Reading

LEMMA CycleShapeStep ==
    ASSUME TypeInv, SFNext, NEW c \in Cycles, CycleShape(c) PROVE CycleShape(c)'
BY CycleFields, ZenonT(60) DEF CycleShape

LEMMA RequestShapeStep ==
    ASSUME TypeInv, SFNext, NEW d \in Requests, RequestShape(d) PROVE RequestShape(d)'
BY RequestFields DEF RequestShape

LEMMA ColdFrom ==
    ASSUME TypeInv, SFNext, NEW f \in DOMAIN cold'
    PROVE  \/ f \in DOMAIN cold /\ cold'[f] = cold[f]
           \/ /\ f \in DOMAIN hot /\ cold'[f] = hot[f] /\ f \in Movable /\ hot' = hot
              /\ \E c \in Cycles : f \in cyc'[c].copied
<1>1. CASE cold' = cold
  BY <1>1
<1>2. ASSUME NEW c \in Cycles, NEW g \in Movable \cap DOMAIN hot,
             cold' = Put(cold, g, hot[g]), g \in cyc'[c].copied, hot' = hot
      PROVE  \/ f \in DOMAIN cold /\ cold'[f] = cold[f]
             \/ f = g /\ cold'[f] = hot[f]
  BY <1>2, PutFacts
<1>3. ASSUME NEW c \in Cycles, NEW g \in Movable, RollBack(c, g)
      PROVE  f \in DOMAIN cold /\ cold'[f] = cold[f]
  <2>1. cold' = Drop(cold, {g})
    BY <1>3 DEF RollBack
  <2> QED
    BY <2>1, DropFacts
<1> QED
  BY <1>1, <1>2, <1>3, ColdStep

LEMMA ShapeStep == ASSUME TypeInv, ShapeInv, SFNext PROVE ShapeInv'
<1>1. CompShape'
  BY CompStep DEF ShapeInv, CompShape
<1>2. DOMAIN cold' \subseteq Movable
  BY ColdFrom DEF ShapeInv, MovableShape
<1>3. recent' \subseteq Movable
  <2> SUFFICES ASSUME NEW f \in recent' PROVE f \in Movable
    OBVIOUS
  <2>1. f \in recent \/ tier[f] = "cold" \/ f \in Movable
    BY RecentStep
  <2>2. f \in Files
    BY TypeStep DEF TypeInv, MetaType
  <2> QED
    BY <2>1, <2>2 DEF ShapeInv, MovableShape
<1>4. \A f \in Files : tier'[f] = "cold" => f \in Movable
  BY TierStep DEF ShapeInv, MovableShape
<1> QED
  BY <1>1, <1>2, <1>3, <1>4, CycleShapeStep, RequestShapeStep DEF ShapeInv, MovableShape

LEMMA UnbornStep == ASSUME TypeInv, SFNext, NEW f, Unborn(f)' PROVE Unborn(f)
BY FlushStep, CompStep DEF Unborn, Flush

\* What a request reads, and what it has still to do.
LEMMA ReadStep ==
    ASSUME TypeInv, SFNext, NEW d \in Requests, NEW f, Reading(d, f)'
    PROVE  \/ Reading(d, f) /\ req'[d].read = req[d].read
           \/ /\ f \in req[d].todo /\ f \in DOMAIN hot /\ req[d].pc = "files"
              /\ req'[d].read \subseteq hot[f]
              /\ hot[f] \subseteq req'[d].read \cup Selected(req[d].where) \cup blame'["unknown"]
BY RequestFields DEF Reading

LEMMA TodoStep ==
    ASSUME TypeInv, ShapeInv, SFNext, NEW d \in Requests, NEW f \in req'[d].todo
    PROVE  \/ f \in req[d].todo /\ Aim(d)' = Aim(d)
           \/ f \in DOMAIN hot /\ hot[f] \cap Aim(d)' \subseteq doomed'
<1>1. RequestShape(d) /\ RequestShape(d)'
  BY ShapeStep DEF ShapeInv
<1> QED
  BY <1>1, RequestFields DEF RequestShape, Aim, Selected

\* What is in hot storage after a step, and whence it comes.
LEMMA HotFrom ==
    ASSUME TypeInv, SFNext, NEW f \in DOMAIN hot'
    PROVE  \/ f \in DOMAIN hot /\ hot'[f] = hot[f]
           \/ /\ f \in DOMAIN temp /\ hot'[f] = temp[f]
              /\ \E d \in Requests : RenameOver(d) /\ req[d].file = f
           \/ UploadOutput /\ f = Output /\ hot'[f] = comp.rows
           \/ Flush /\ f = Fresh /\ hot'[f] = {Fresh} \X Kinds
<1>1. CASE hot' = hot
  BY <1>1
<1>2. ASSUME NEW g \in Files, hot' = Drop(hot, {g}) PROVE f \in DOMAIN hot /\ hot'[f] = hot[f]
  BY <1>2, DropFacts
<1>3. \A d \in Requests : ~Wipe(d)
  BY NoFiles DEF Wipe
<1>4. ASSUME NEW d \in Requests, RenameOver(d), req[d].file \in DOMAIN temp
      PROVE  \/ f \in DOMAIN hot /\ hot'[f] = hot[f]
             \/ f \in DOMAIN temp /\ hot'[f] = temp[f] /\ req[d].file = f
  <2>1. hot' = Put(hot, req[d].file, temp[req[d].file])
    BY <1>4 DEF RenameOver
  <2> QED
    BY <1>4, <2>1, PutFacts
<1>5. UploadOutput => \/ f \in DOMAIN hot /\ hot'[f] = hot[f]
                      \/ f = Output /\ hot'[f] = comp.rows
  BY PutFacts DEF UploadOutput
<1>6. DeleteInputs => f \in DOMAIN hot /\ hot'[f] = hot[f]
  BY DropFacts DEF DeleteInputs
<1>7. Flush => \/ f \in DOMAIN hot /\ hot'[f] = hot[f]
               \/ f = Fresh /\ hot'[f] = {Fresh} \X Kinds
  BY PutFacts DEF Flush
<1> QED
  BY <1>1, <1>2, <1>3, <1>4, <1>5, <1>6, <1>7, HotStep

LEMMA BornStep == ASSUME TypeInv, ShapeInv, BornInv, SFNext PROVE BornInv'
<1> SUFFICES ASSUME NEW f \in Files, Unborn(f)'
             PROVE  /\ f \notin DOMAIN hot' /\ f \notin DOMAIN cold' /\ f \notin DOMAIN temp'
                    /\ f \notin comp'.files /\ f \notin doomedFiles'
                    /\ tier'[f] = "none" /\ f \notin recent'
                    /\ \A d \in Requests : ~Reading(d, f)' /\ f \notin req'[d].todo
                    /\ \A c \in Cycles : f \notin cyc'[c].todo \cup cyc'[c].copied \cup cyc'[c].moved
  BY DEF BornInv
<1>1. /\ f \notin DOMAIN hot /\ f \notin DOMAIN cold /\ f \notin DOMAIN temp
      /\ f \notin comp.files /\ f \notin doomedFiles
      /\ tier[f] = "none" /\ f \notin recent
      /\ \A d \in Requests : ~Reading(d, f) /\ f \notin req[d].todo
      /\ \A c \in Cycles : f \notin cyc[c].todo \cup cyc[c].copied \cup cyc[c].moved
  <2>1. Unborn(f)
    BY UnbornStep
  <2> QED
    BY <2>1 DEF BornInv
<1>2. f \notin DOMAIN hot'
  <2>1. UploadOutput => f # Output
    BY FileFacts DEF UploadOutput, Unborn
  <2>2. Flush => f # Fresh
    BY FileFacts DEF Flush, Unborn
  <2> QED
    BY <1>1, <2>1, <2>2, HotFrom
<1>3. f \notin DOMAIN cold'
  BY <1>1, ColdFrom
<1>4. f \notin DOMAIN temp'
  <2>1. \A d \in Requests : CopyKept(d) => req[d].file # f
    BY <1>1 DEF CopyKept, Reading
  <2> QED
    BY <1>1, <2>1, TempStep
<1>5. f \notin comp'.files
  BY <1>1, CompStep
<1>6. f \notin doomedFiles'
  BY <1>1, DoomedStep
<1>7. tier'[f] = "none"
  <2>1. ~(f = Fresh /\ flush = "written")
    BY UnbornStep, FileFacts DEF Unborn
  <2> QED
    BY <1>1, <2>1, TierStep
<1>8. f \notin recent'
  BY <1>1, RecentStep
<1>9. \A d \in Requests : ~Reading(d, f)' /\ f \notin req'[d].todo
  BY <1>1, ReadStep, TodoStep
<1>10. \A c \in Cycles : f \notin cyc'[c].todo \cup cyc'[c].copied \cup cyc'[c].moved
  BY <1>1, CycleFields, ZenonT(60)
<1> QED
  BY <1>2, <1>3, <1>4, <1>5, <1>6, <1>7, <1>8, <1>9, <1>10
-----------------------------------------------------------------------------
(* The copies of one file, wherever they are, agree on the rows that nobody *)
(* asked to delete.                                                         *)

Has(f, r) ==
    \/ In(hot, f, r) \/ In(cold, f, r) \/ In(temp, f, r)
    \/ \E d \in Requests : Reading(d, f) /\ r \in req[d].read
    \/ f = Output /\ comp.pc = "uploaded" /\ r \in comp.rows

AllHave(f, r) ==
    /\ f \in DOMAIN hot => r \in hot[f]
    /\ f \in DOMAIN cold => r \in cold[f]
    /\ f \in DOMAIN temp => r \in temp[f]
    /\ \A d \in Requests : Reading(d, f) => r \in req[d].read
    /\ f = Output /\ comp.pc = "uploaded" => r \in comp.rows

AgreeInv == \A f \in Files : \A r \in Rows \ Taken : Has(f, r) => AllHave(f, r)

\* What is still to be rewritten, deleted or merged holds nothing that is not
\* asked to be deleted, or merged.
AimInv == \A d \in Requests : \A f \in req[d].todo : \A r \in Rows \ Taken :
             Has(f, r) => r \notin Aim(d)
DoomedInv == \A f \in doomedFiles : \A r \in Rows \ Taken : ~Has(f, r)
InputsInv == /\ Output \notin comp.files
             /\ \A f \in comp.files : \A r \in Rows \ Taken : Has(f, r) => r \in comp.rows

CopiesInv == AgreeInv /\ AimInv /\ DoomedInv /\ InputsInv

LEMMA InitPlaces ==
    ASSUME SFInit, NEW f, NEW r
    PROVE  /\ Has(f, r) <=> In(hot, f, r)
           /\ In(hot, f, r) => f \in Sources /\ r[1] = f /\ r \in written
           /\ f \notin DOMAIN cold /\ f \notin DOMAIN temp
           /\ \A d \in Requests : ~Reading(d, f) /\ req[d].read = {} /\ req[d].todo = {}
           /\ comp.pc = "idle" /\ comp.files = {} /\ comp.rows = {} /\ doomedFiles = {}
<1>1. /\ f \notin DOMAIN cold /\ f \notin DOMAIN temp
      /\ \A d \in Requests : ~Reading(d, f) /\ req[d].read = {} /\ req[d].todo = {}
      /\ comp.pc = "idle" /\ comp.files = {} /\ comp.rows = {} /\ doomedFiles = {}
  BY NoFiles DEF SFInit, Reading, NoRequest, NoComp
<1>2. Has(f, r) <=> In(hot, f, r)
  BY <1>1 DEF Has, In
<1>3. PICK present \in SUBSET (Hourly \cup Daily) : hot = [g \in present |-> {g} \X Kinds]
  BY DEF SFInit
<1>4. ASSUME In(hot, f, r) PROVE f \in Sources /\ r[1] = f /\ r \in written
  <2>1. f \in present /\ hot[f] = {f} \X Kinds
    BY <1>3, <1>4 DEF In
  <2>2. written = RowsIn(hot)
    BY DEF SFInit
  <2> QED
    BY <1>4, <2>1, <2>2, RowsInFacts, FileFacts DEF In, Sources
<1> QED
  BY <1>1, <1>2, <1>4

LEMMA CopiesInit == SFInit => CopiesInv
<1> SUFFICES ASSUME SFInit PROVE CopiesInv
  OBVIOUS
<1>1. AgreeInv
  BY InitPlaces DEF AgreeInv, AllHave, In
<1>2. AimInv /\ DoomedInv /\ InputsInv
  BY InitPlaces DEF AimInv, DoomedInv, InputsInv
<1> QED
  BY <1>1, <1>2 DEF CopiesInv

\* A row gets into a file only with the file: a flush writes it, or the
\* compaction uploads it.
LEMMA Descent ==
    ASSUME TypeInv, SFNext, NEW f, NEW r, Has(f, r)'
    PROVE  \/ Has(f, r)
           \/ UploadOutput /\ f = Output /\ r \in comp.rows
           \/ Flush /\ f = Fresh /\ r \in {Fresh} \X Kinds
<1>1. CASE In(hot', f, r)
  BY <1>1, HotFrom DEF Has, In
<1>2. CASE In(cold', f, r)
  BY <1>2, ColdFrom DEF Has, In
<1>3. CASE In(temp', f, r)
  <2>1. CASE f \in DOMAIN temp /\ temp'[f] = temp[f]
    BY <1>3, <2>1 DEF Has, In
  <2>2. ASSUME NEW d \in Requests, CopyKept(d), f = req[d].file, temp'[f] = req[d].read PROVE Has(f, r)
    BY <1>3, <2>2 DEF Has, In, CopyKept, Reading
  <2> QED
    BY <1>3, <2>1, <2>2, TempStep DEF In
<1>4. ASSUME NEW d \in Requests, Reading(d, f)', r \in req'[d].read PROVE Has(f, r)
  BY <1>4, ReadStep DEF Has, In
<1>5. CASE f = Output /\ comp'.pc = "uploaded" /\ r \in comp'.rows
  BY <1>5, CompStep DEF Has
<1> QED
  BY <1>1, <1>2, <1>3, <1>4, <1>5 DEF Has

LEMMA UnbornHas ==
    ASSUME BornInv, NEW f \in Files, Unborn(f), NEW r
    PROVE  ~Has(f, r)
<1>1. f \notin DOMAIN hot /\ f \notin DOMAIN cold /\ f \notin DOMAIN temp
      /\ \A d \in Requests : ~Reading(d, f)
  BY DEF BornInv
<1>2. ~(f = Output /\ comp.pc = "uploaded")
  BY FileFacts DEF Unborn
<1> QED
  BY <1>1, <1>2 DEF Has, In

LEMMA BirthUnborn ==
    /\ UploadOutput => Unborn(Output) /\ Output \in Files
    /\ Flush => Unborn(Fresh) /\ Fresh \in Files
BY FileFacts DEF UploadOutput, Flush, Unborn

LEMMA AllHaveStep ==
    ASSUME TypeInv, BornInv, AimInv, SFNext, NEW f \in Files, NEW r \in Rows \ Taken',
           Has(f, r), AllHave(f, r)
    PROVE  AllHave(f, r)'
<1>0. r \in Rows \ Taken /\ r \notin blame'["unknown"]
  BY TakenGrows DEF Taken
<1>1. ~(UploadOutput /\ f = Output) /\ ~(Flush /\ f = Fresh)
  BY UnbornHas, BirthUnborn
<1>2. f \in DOMAIN hot' => r \in hot'[f]
  BY <1>1, HotFrom DEF AllHave
<1>3. f \in DOMAIN cold' => r \in cold'[f]
  BY ColdFrom DEF AllHave
<1>4. f \in DOMAIN temp' => r \in temp'[f]
  <2>1. ASSUME NEW d \in Requests, CopyKept(d), f = req[d].file PROVE r \in req[d].read
    BY <2>1 DEF AllHave, CopyKept, Reading
  <2> QED
    BY <2>1, TempStep DEF AllHave
<1>5. ASSUME NEW d \in Requests, Reading(d, f)' PROVE r \in req'[d].read
  <2>1. CASE Reading(d, f) /\ req'[d].read = req[d].read
    BY <2>1 DEF AllHave
  <2>2. CASE /\ f \in req[d].todo /\ f \in DOMAIN hot /\ req[d].pc = "files"
             /\ hot[f] \subseteq req'[d].read \cup Selected(req[d].where) \cup blame'["unknown"]
    BY <1>0, <2>2 DEF AllHave, AimInv, Aim
  <2> QED
    BY <1>5, <2>1, <2>2, ReadStep
<1>6. f = Output /\ comp'.pc = "uploaded" => r \in comp'.rows
  BY <1>1, CompStep DEF AllHave
<1> QED
  BY <1>2, <1>3, <1>4, <1>5, <1>6 DEF AllHave

\* A file that is born is in hot storage only.
LEMMA BirthStep ==
    ASSUME TypeInv, ShapeInv, BornInv, SFNext, NEW f \in Files, Unborn(f),
           (UploadOutput /\ f = Output) \/ (Flush /\ f = Fresh)
    PROVE  /\ f \in DOMAIN hot' /\ f \notin DOMAIN cold' /\ f \notin DOMAIN temp'
           /\ f \notin comp'.files /\ f \notin doomedFiles' /\ tier'[f] = "none" /\ f \notin recent'
           /\ \A d \in Requests : ~Reading(d, f)' /\ f \notin req'[d].todo
           /\ \A c \in Cycles : f \notin cyc'[c].todo \cup cyc'[c].copied \cup cyc'[c].moved
           /\ UploadOutput => hot'[f] = comp.rows /\ comp'.pc = "uploaded" /\ comp'.rows = comp.rows
           /\ Flush => hot'[f] = {Fresh} \X Kinds
<1>1. /\ f \notin DOMAIN hot /\ f \notin DOMAIN cold /\ f \notin DOMAIN temp
      /\ f \notin comp.files /\ f \notin doomedFiles /\ tier[f] = "none" /\ f \notin recent
      /\ \A d \in Requests : ~Reading(d, f) /\ f \notin req[d].todo
      /\ \A c \in Cycles : f \notin cyc[c].todo \cup cyc[c].copied \cup cyc[c].moved
  BY DEF BornInv
<1>2. \/ /\ UploadOutput /\ f = Output /\ hot' = Put(hot, Output, comp.rows)
         /\ comp' = [comp EXCEPT !.pc = "uploaded"]
         /\ UNCHANGED <<cold, temp, tier, recent, req, cyc, doomedFiles>>
      \/ /\ Flush /\ f = Fresh /\ hot' = Put(hot, Fresh, {Fresh} \X Kinds)
         /\ UNCHANGED <<cold, temp, tier, recent, req, cyc, doomedFiles, comp>>
  BY DEF UploadOutput, Flush, sf_meta
<1>3. CASE /\ UploadOutput /\ f = Output /\ hot' = Put(hot, Output, comp.rows)
           /\ comp' = [comp EXCEPT !.pc = "uploaded"]
           /\ UNCHANGED <<cold, temp, tier, recent, req, cyc, doomedFiles>>
  <2>1. comp'.pc = "uploaded" /\ comp'.rows = comp.rows /\ comp'.files = comp.files
    BY <1>3 DEF TypeInv, OtherType, CompType
  <2>2. ~Flush
    BY <1>3, <2>1 DEF UploadOutput, Flush
  <2>3. f \in DOMAIN hot' /\ hot'[f] = comp.rows
    BY <1>3, PutFacts
  <2> QED
    BY <1>1, <1>3, <2>1, <2>2, <2>3 DEF Reading
<1>4. CASE /\ Flush /\ f = Fresh /\ hot' = Put(hot, Fresh, {Fresh} \X Kinds)
           /\ UNCHANGED <<cold, temp, tier, recent, req, cyc, doomedFiles, comp>>
  <2>1. ~UploadOutput
    BY <1>4 DEF UploadOutput, Flush
  <2>2. f \in DOMAIN hot' /\ hot'[f] = {Fresh} \X Kinds
    BY <1>4, PutFacts
  <2> QED
    BY <1>1, <1>4, <2>1, <2>2 DEF Reading
<1> QED
  BY <1>2, <1>3, <1>4

LEMMA AgreeStep ==
    ASSUME TypeInv, ShapeInv, BornInv, AgreeInv, AimInv, SFNext PROVE AgreeInv'
<1> SUFFICES ASSUME NEW f \in Files, NEW r \in Rows \ Taken', Has(f, r)' PROVE AllHave(f, r)'
  BY DEF AgreeInv
<1>1. r \in Rows \ Taken
  BY TakenGrows
<1>2. CASE Has(f, r)
  BY <1>1, <1>2, AllHaveStep DEF AgreeInv
<1>3. CASE UploadOutput /\ f = Output /\ r \in comp.rows
  <2>1. Unborn(f)
    BY <1>3, BirthUnborn
  <2>2. /\ f \notin DOMAIN cold' /\ f \notin DOMAIN temp' /\ \A d \in Requests : ~Reading(d, f)'
        /\ hot'[f] = comp.rows /\ comp'.rows = comp.rows
    BY <1>3, <2>1, BirthStep
  <2> QED
    BY <1>3, <2>2 DEF AllHave
<1>4. CASE Flush /\ f = Fresh /\ r \in {Fresh} \X Kinds
  <2>1. ~(f = Output)
    BY <1>4, FileFacts
  <2> QED
    BY <1>4, <2>1, BirthUnborn, BirthStep DEF AllHave
<1> QED
  BY <1>2, <1>3, <1>4, Descent

LEMMA CopiesStep ==
    ASSUME TypeInv, ShapeInv, BornInv, CopiesInv, SFNext PROVE CopiesInv'
<1> USE DEF CopiesInv
<1>1. Taken \subseteq Taken' /\ doomed' \subseteq Taken'
  BY TakenGrows DEF Taken
<1>2. AgreeInv'
  BY AgreeStep
\* A file that something is still to be done with is not one that is born.
<1>3. ASSUME NEW f, NEW r \in Rows \ Taken', Has(f, r)',
             \/ \E d \in Requests : f \in req'[d].todo
             \/ f \in doomedFiles' \/ f \in comp'.files
      PROVE  Has(f, r)
  <2>1. ASSUME UploadOutput, f = Output PROVE FALSE
    <3>1. Unborn(f) /\ f \in Files
      BY <2>1, BirthUnborn
    <3>2. f \notin comp'.files /\ f \notin doomedFiles' /\ \A d \in Requests : f \notin req'[d].todo
      BY <2>1, <3>1, BirthStep
    <3> QED
      BY <1>3, <3>2
  <2>2. Flush => f # Fresh
    BY <1>3, BirthUnborn, BirthStep
  <2> QED
    BY <1>3, <2>1, <2>2, Descent
<1>4. ASSUME NEW f \in DOMAIN hot, NEW r \in Rows \ Taken', Has(f, r) PROVE r \in hot[f]
  <2>1. f \in Files
    BY DEF TypeInv, FilesType, Stores
  <2> QED
    BY <1>1, <1>4, <2>1 DEF AgreeInv, AllHave
<1>5. ASSUME NEW d \in Requests, NEW f \in req'[d].todo, NEW r \in Rows \ Taken', Has(f, r)'
      PROVE  r \notin Aim(d)'
  <2>1. Has(f, r)
    BY <1>3, <1>5
  <2>2. CASE f \in req[d].todo /\ Aim(d)' = Aim(d)
    BY <1>1, <2>1, <2>2 DEF AimInv
  <2>3. CASE f \in DOMAIN hot /\ hot[f] \cap Aim(d)' \subseteq doomed'
    BY <1>1, <1>4, <2>1, <2>3
  <2> QED
    BY <2>2, <2>3, TodoStep
<1>6. ASSUME NEW f \in doomedFiles', NEW r \in Rows \ Taken' PROVE ~Has(f, r)'
  BY <1>1, <1>3, <1>4, DoomedStep DEF DoomedInv
<1>7. ASSUME NEW f \in comp'.files, NEW r \in Rows \ Taken', Has(f, r)' PROVE r \in comp'.rows
  <2>1. Has(f, r)
    BY <1>3, <1>7
  <2>2. CASE f \in comp.files /\ comp'.rows = comp.rows
    BY <1>1, <2>1, <2>2 DEF InputsInv
  <2>3. CASE f \in DOMAIN hot /\ comp'.rows = RowsIn(hot)
    BY <1>4, <2>1, <2>3 DEF RowsIn
  <2> QED
    BY <2>2, <2>3, CompStep
<1>8. Output \notin comp'.files
  <2>1. comp.pc = "idle" => Output \notin DOMAIN hot
    BY FileFacts DEF BornInv, Unborn
  <2> QED
    BY <2>1, CompStep DEF InputsInv
<1> QED
  BY <1>2, <1>5, <1>6, <1>7, <1>8 DEF AimInv, DoomedInv, InputsInv
-----------------------------------------------------------------------------
(* Every row in a file has been stored, and a source holds its own rows.    *)

WrittenInv ==
    /\ \A f \in Files, r \in Rows : Has(f, r) => r \in written /\ (f \in Sources => r[1] = f)
    /\ comp.rows \subseteq written /\ removed \subseteq written
    /\ \A d \in Requests : req[d].gone \subseteq written
    /\ flush = "none" => \A r \in written : r[1] # Fresh
    /\ comp.pc = "uploaded" => \A r \in Rows : Has(Output, r) => r \in comp.rows

LEMMA WrittenInit == SFInit => WrittenInv
<1> SUFFICES ASSUME SFInit PROVE WrittenInv
  OBVIOUS
<1>1. \A f \in Files, r \in Rows : Has(f, r) => r \in written /\ (f \in Sources => r[1] = f)
  BY InitPlaces
<1>2. comp.pc = "idle" /\ comp.rows = {} /\ removed = {} /\ \A d \in Requests : req[d].gone = {}
  BY DEF SFInit, NoComp, NoRequest
<1>3. \A r \in written : r[1] # Fresh
  <2> SUFFICES ASSUME NEW r \in written PROVE r[1] # Fresh
    OBVIOUS
  <2>1. PICK present \in SUBSET (Hourly \cup Daily) : hot = [g \in present |-> {g} \X Kinds]
    BY DEF SFInit
  <2>2. written = RowsIn(hot)
    BY DEF SFInit
  <2>3. PICK g \in DOMAIN hot : In(hot, g, r)
    BY <2>2, RowsInFacts
  <2>4. g \in Hourly \cup Daily
    BY <2>1
  <2> QED
    BY <2>3, <2>4, InitPlaces, FileFacts
<1> QED
  BY <1>1, <1>2, <1>3 DEF WrittenInv

LEMMA HasRows == ASSUME TypeInv, NEW f, NEW r, Has(f, r) PROVE r \in Rows
<1>1. \A d \in Requests : req[d].read \subseteq Rows
  BY DEF TypeInv, ReqType, RequestType
<1>2. comp.rows \subseteq Rows
  BY DEF TypeInv, OtherType, CompType
<1> QED
  BY <1>1, <1>2 DEF Has, In, TypeInv, FilesType, Stores

LEMMA HotHas == ASSUME TypeInv, NEW f, NEW r, In(hot, f, r) PROVE f \in Files /\ r \in Rows /\ Has(f, r)
BY HasRows DEF Has, In, TypeInv, FilesType, Stores

LEMMA ColdHas == ASSUME TypeInv, NEW f, NEW r, In(cold, f, r) PROVE f \in Files /\ r \in Rows /\ Has(f, r)
BY HasRows DEF Has, In, TypeInv, FilesType, Stores

\* The rows reported as deleted are those of a file or of a rewrite.
LEMMA RemovedStep ==
    ASSUME TypeInv, SFNext, NEW r \in removed'
    PROVE  \/ r \in removed
           \/ \E d \in Requests, f \in Files : CountRows(d, f) /\ In(hot, f, r)
           \/ \E d \in Requests : RenameOver(d) /\ req[d].file \in DOMAIN temp /\ r \in req[d].gone
<1>1. ASSUME NEW d \in Requests, NEW f \in Files, CountRows(d, f) PROVE r \in removed \/ In(hot, f, r)
  <2>1. PICK gone, kept, unasked \in SUBSET Rows :
            /\ Counts(d, f, gone, kept, unasked)
            /\ f \in DOMAIN hot => gone \subseteq hot[f]
    BY <1>1, CountsRows DEF TypeInv
  <2> QED
    BY <2>1 DEF Counts, In
<1>2. ASSUME NEW d \in Requests, RenameOver(d)
      PROVE  r \in removed \/ (req[d].file \in DOMAIN temp /\ r \in req[d].gone)
  BY <1>2 DEF RenameOver
<1> QED
  BY <1>1, <1>2, RemovedFrame

LEMMA WrittenStep ==
    ASSUME TypeInv, ShapeInv, BornInv, WrittenInv, SFNext PROVE WrittenInv'
<1>1. written \subseteq written'
  BY HistoryGrows
<1>2. \A f, r : In(hot, f, r) => r \in written
  BY HotHas DEF WrittenInv
<1>3. ASSUME NEW f \in Files, NEW r \in Rows, Has(f, r)'
      PROVE  r \in written' /\ (f \in Sources => r[1] = f)
  <2>1. CASE Has(f, r)
    BY <1>1, <2>1 DEF WrittenInv
  <2>2. CASE UploadOutput /\ f = Output /\ r \in comp.rows
    BY <1>1, <2>2, FileFacts DEF WrittenInv
  <2>3. CASE Flush /\ f = Fresh /\ r \in {Fresh} \X Kinds
    BY <2>3 DEF Flush
  <2> QED
    BY <1>3, <2>1, <2>2, <2>3, Descent
<1>4. comp'.rows \subseteq written'
  <2>1. RowsIn(hot) \subseteq written
    BY <1>2, RowsInFacts
  <2> QED
    BY <1>1, <2>1, CompStep DEF WrittenInv
<1>5. removed' \subseteq written'
  BY <1>1, <1>2, RemovedStep DEF WrittenInv
<1>6. ASSUME NEW d \in Requests PROVE req'[d].gone \subseteq written'
  <2>1. req'[d].gone \subseteq req[d].gone \/ \E f \in DOMAIN hot : req'[d].gone \subseteq hot[f]
    BY RequestFields
  <2> QED
    BY <1>1, <1>2, <2>1 DEF WrittenInv, In
<1>7. flush' = "none" => \A r \in written' : r[1] # Fresh
  BY FlushStep DEF WrittenInv, Flush
<1>8. ASSUME comp'.pc = "uploaded", NEW r \in Rows, Has(Output, r)' PROVE r \in comp'.rows
  <2>1. ~(Flush /\ Output = Fresh)
    BY FileFacts
  <2>2. CASE comp' = comp
    BY <1>8, <2>1, <2>2, Descent DEF WrittenInv, UploadOutput
  <2>3. CASE UploadOutput
    BY <1>8, <2>1, <2>3, Descent, BirthUnborn, UnbornHas, CompStep DEF UploadOutput
  <2> QED
    BY <1>8, <2>2, <2>3, CompStep
<1> QED
  BY <1>3, <1>4, <1>5, <1>6, <1>7, <1>8 DEF WrittenInv

-----------------------------------------------------------------------------
(* A file that leaves a tier, and what the operations count on.             *)

CountsOn(f) == tier[f] = "cold" \/ \E c \in Cycles : f \in cyc[c].copied \/ Deleting(c, f)

\* A file leaves hot storage because its cold copy is counted on, or because
\* nothing that counts is in it, or as an input of the compaction.
LEMMA HotLeaves ==
    ASSUME TypeInv, CopiesInv, SFNext, NEW f \in DOMAIN hot, f \notin DOMAIN hot'
    PROVE  /\ cold' = cold
           /\ \/ \E c \in Cycles : Deleting(c, f)
              \/ DeleteInputs /\ f \in comp.files
              \/ \A r \in Rows : Has(f, r) => r \in Taken' \cup blame'["wiped"]
<1>0. Taken \subseteq Taken'
  BY TakenGrows
<1>1. cold' = cold /\ f \in Files
  BY ColdStep DEF TypeInv, FilesType, Stores
<1>2. ASSUME NEW g \in Files, hot' = Drop(hot, {g}), Reason(g)
      PROVE  \/ \E c \in Cycles : Deleting(c, f)
             \/ \A r \in Rows : Has(f, r) => r \in Taken'
  <2>1. f = g
    BY <1>2, DropFacts
  <2>2. ASSUME NEW r \in Rows \ Taken, Has(f, r) PROVE r \in hot[f]
    BY <1>1, <2>2 DEF CopiesInv, AgreeInv, AllHave
  <2>3. CASE \E d \in Requests : /\ f \in req[d].todo
                                 /\ hot[f] \subseteq Aim(d) \cup blame'["unknown"]
    <3>1. \A r \in Rows \ Taken : Has(f, r) => r \in blame'["unknown"]
      BY <2>2, <2>3 DEF CopiesInv, AimInv
    <3> QED
      BY <1>0, <3>1 DEF Taken
  <2>4. CASE f \in doomedFiles
    BY <1>0, <1>1, <2>4 DEF CopiesInv, DoomedInv
  <2>5. \/ \E c \in Cycles : Deleting(c, f)
        \/ \E d \in Requests : /\ f \in req[d].todo
                               /\ hot[f] \subseteq Aim(d) \cup blame'["unknown"]
        \/ f \in doomedFiles
    BY <1>2, <2>1 DEF Reason
  <2> QED
    BY <2>3, <2>4, <2>5
<1>3. ASSUME NEW d \in Requests, Wipe(d)
      PROVE  \A r \in Rows : Has(f, r) => r \in Taken' \cup blame'["wiped"]
  <2>1. Blame("wiped", RowsIn(hot))
    BY <1>3 DEF Wipe
  <2>2. RowsIn(hot) \subseteq blame'["wiped"]
    BY <2>1, StoresRows, BlameType DEF TypeInv, FilesType, Causes
  <2>3. \A r \in Rows \ Taken : Has(f, r) => r \in hot[f]
    BY <1>1 DEF CopiesInv, AgreeInv, AllHave
  <2>4. hot[f] \subseteq RowsIn(hot)
    BY DEF RowsIn
  <2> QED
    BY <1>0, <2>2, <2>3, <2>4
<1>4. \A d \in Requests : ~(RenameOver(d) /\ req[d].file \in DOMAIN temp)
  BY PutFacts DEF RenameOver
<1>5. ~UploadOutput /\ ~Flush
  BY PutFacts DEF UploadOutput, Flush
<1>6. DeleteInputs => f \in comp.files
  BY DropFacts DEF DeleteInputs
<1>7. hot' # hot
  OBVIOUS
<1> QED
  BY <1>1, <1>2, <1>3, <1>4, <1>5, <1>6, <1>7, HotStep

\* A file leaves cold storage only when its copy is rolled back.
LEMMA ColdLeaves ==
    ASSUME TypeInv, ShapeInv, SFNext, NEW f \in DOMAIN cold, f \notin DOMAIN cold'
    PROVE  /\ hot' = hot /\ tier' = tier
           /\ \/ cold[f] \subseteq blame'["rollback"]
              \/ ~CountsOn(f)' /\ f \in DOMAIN hot
<1>1. PICK c \in Cycles, g \in Movable :
          UpdateTier(c, g) /\ RollBack(c, g) /\ hot' = hot /\ tier' = tier
  <2>1. \A g, rows : cold' # Put(cold, g, rows)
    BY PutFacts
  <2>2. cold' # cold
    OBVIOUS
  <2> QED
    BY <2>1, <2>2, ColdStep
<1>2. f = g
  BY <1>1, DropFacts DEF RollBack
<1> DEFINE counted == \/ tier[f] = "cold" \/ f \notin DOMAIN hot
                      \/ \E b \in Cycles \ {c} : f \in cyc[b].copied \/ Deleting(b, f)
<1>3. CASE counted
  <2>1. Blame("rollback", cold[f])
    BY <1>1, <1>2, <1>3 DEF RollBack
  <2>2. cold[f] \in SUBSET Rows /\ "rollback" \in Causes
    BY DEF TypeInv, FilesType, Stores, Causes
  <2>3. blame'["rollback"] = blame["rollback"] \cup cold[f]
    BY <2>1, <2>2, BlameType DEF TypeInv
  <2> QED
    BY <1>1, <2>3
<1>4. CASE ~counted
  <2>1. f \in cyc[c].copied /\ cyc' = [cyc EXCEPT ![c].copied = @ \ {f}]
    BY <1>1, <1>2 DEF UpdateTier
  <2>2. /\ CycType'
        /\ cyc'[c].stage = cyc[c].stage /\ cyc'[c].todo = cyc[c].todo
        /\ cyc'[c].copied = cyc[c].copied \ {f} /\ cyc'[c].moved = cyc[c].moved
        /\ \A b \in Cycles : b # c => cyc'[b] = cyc[b]
    BY <2>1, CycUncopied DEF TypeInv
  <2>3. f \notin cyc[c].moved /\ cyc[c].stage = "migrate"
    BY <2>1 DEF ShapeInv, CycleShape
  <2>4. \A b \in Cycles : f \notin cyc'[b].copied /\ ~Deleting(b, f)'
    BY <1>4, <2>2, <2>3 DEF Deleting
  <2> QED
    BY <1>1, <1>4, <2>4 DEF CountsOn
<1> QED
  BY <1>3, <1>4

LEMMA DeletingStep ==
    ASSUME TypeInv, SFNext, NEW f \in Files, NEW c \in Cycles, Deleting(c, f)'
    PROVE  \/ Deleting(c, f) \/ (f \in cyc[c].copied /\ tier'[f] = "cold")
           \/ tier[f] = "cold" /\ tier' = tier
BY CycleFields DEF Deleting

LEMMA CountsStep ==
    ASSUME TypeInv, SFNext, NEW f \in Files, CountsOn(f)'
    PROVE  CountsOn(f) \/ f \in DOMAIN cold'
<1>1. CASE tier'[f] = "cold"
  BY <1>1, TierStep DEF CountsOn
<1>2. ASSUME NEW c \in Cycles, f \in cyc'[c].copied PROVE f \in cyc[c].copied \/ f \in DOMAIN cold'
  <2>1. f \in cyc[c].copied \/ \E g \in Movable : f = g /\ cold' = Put(cold, g, hot[g])
    BY <1>2, CycleFields
  <2> QED
    BY <2>1, PutFacts
<1>3. ASSUME NEW c \in Cycles, Deleting(c, f)' PROVE CountsOn(f)
  BY <1>3, DeletingStep DEF CountsOn
<1> QED
  BY <1>1, <1>2, <1>3 DEF CountsOn
-----------------------------------------------------------------------------
(* No stored row is lost: one that nobody asked to delete, and that no known *)
(* race has hit, is in a file.                                              *)

Kept == written \ (Taken \cup blame["rollback"] \cup blame["wiped"])
At(f, r) == In(hot, f, r) \/ In(cold, f, r)

CountedInv == \A f \in Files : CountsOn(f) /\ f \notin DOMAIN cold => \A r \in Kept : ~Has(f, r)
KeptInv ==
    /\ \A r \in Kept : \E f \in Files : At(f, r)
    /\ comp.pc = "uploaded" => \A r \in comp.rows \cap Kept : At(Output, r)

LEMMA KeptInit == SFInit => CountedInv /\ KeptInv
<1> SUFFICES ASSUME SFInit PROVE CountedInv /\ KeptInv
  OBVIOUS
<1>1. \A f \in Files : ~CountsOn(f)
  BY DEF SFInit, CountsOn, Deleting, NoCycle
<1>2. ASSUME NEW r \in Kept PROVE \E f \in Files : At(f, r)
  <2>1. r \in RowsIn(hot) /\ Stores(hot)
    BY <1>2, TypeInit DEF SFInit, Kept, TypeInv, FilesType
  <2> QED
    BY <2>1, RowsInFacts DEF Stores, At
<1> QED
  BY <1>1, <1>2 DEF CountedInv, KeptInv, SFInit, NoComp

LEMMA KeptStep ==
    ASSUME TypeInv, SFNext, NEW r \in Kept'
    PROVE  r \in Kept \/ (Flush /\ r \in {Fresh} \X Kinds /\ r \notin written)
<1>1. /\ Taken \subseteq Taken' /\ blame["rollback"] \subseteq blame'["rollback"]
      /\ blame["wiped"] \subseteq blame'["wiped"]
  BY HistoryGrows, TakenGrows DEF Causes
<1> QED
  BY <1>1, FlushStep DEF Kept, Flush

\* Every copy of a file has the rows that no delete takes.
LEMMA EveryCopy ==
    ASSUME TypeInv, CopiesInv, NEW f \in Files, NEW r, r \notin Taken, Has(f, r)
    PROVE  r \in Rows /\ AllHave(f, r)
BY HasRows DEF CopiesInv, AgreeInv

LEMMA CountedStep ==
    ASSUME TypeInv, ShapeInv, BornInv, CopiesInv, WrittenInv, CountedInv, SFNext
    PROVE  CountedInv'
<1> SUFFICES ASSUME NEW f \in Files, CountsOn(f)', f \notin DOMAIN cold', NEW r \in Kept', Has(f, r)'
             PROVE  FALSE
  BY DEF CountedInv
<1>1. CountsOn(f)
  BY CountsStep
<1>2. CASE Has(f, r)
  <2>1. r \in Rows /\ r \in written
    BY <1>2, HasRows DEF WrittenInv
  <2>2. r \in Kept
    BY <2>1, KeptStep
  <2>3. f \in DOMAIN cold
    BY <1>1, <1>2, <2>2 DEF CountedInv
  <2>4. r \in cold[f]
    BY <1>2, <2>2, <2>3, EveryCopy DEF Kept, AllHave
  <2> QED
    BY <2>3, <2>4, ColdLeaves DEF Kept
<1>3. CASE (UploadOutput /\ f = Output) \/ (Flush /\ f = Fresh)
  <2>1. Unborn(f)
    BY <1>3, BirthUnborn
  <2>2. tier'[f] = "none"
        /\ \A c \in Cycles : f \notin cyc'[c].todo \cup cyc'[c].copied \cup cyc'[c].moved
    BY <1>3, <2>1, BirthStep
  <2> QED
    BY <2>2 DEF CountsOn, Deleting
<1> QED
  BY <1>2, <1>3, Descent

\* A kept row stays where it is, unless the compaction has merged it.
LEMMA AtStep ==
    ASSUME TypeInv, ShapeInv, BornInv, CopiesInv, CountedInv, SFNext,
           NEW f \in Files, NEW r \in Kept \cap Kept', At(f, r)
    PROVE  At(f, r)' \/ (DeleteInputs /\ f \in comp.files)
<1>1. r \in Rows \ Taken /\ Has(f, r) /\ AllHave(f, r)
  BY EveryCopy DEF At, Has, Kept
<1>2. AllHave(f, r)'
  <2>1. r \in Rows \ Taken'
    BY <1>1 DEF Kept
  <2> QED
    BY <1>1, <2>1, AllHaveStep DEF CopiesInv
<1>3. r \notin Taken' /\ r \notin blame'["wiped"] /\ r \notin blame'["rollback"]
  BY DEF Kept
<1>4. CASE f \in DOMAIN hot'
  BY <1>2, <1>4 DEF AllHave, At, In
<1>5. CASE f \in DOMAIN hot /\ f \notin DOMAIN hot'
  <2>1. CASE \E c \in Cycles : Deleting(c, f)
    <3>1. f \in DOMAIN cold
      BY <1>1, <2>1 DEF CountedInv, CountsOn
    <3>2. cold' = cold
      BY <1>5, HotLeaves
    <3> QED
      BY <1>2, <3>1, <3>2 DEF AllHave, At, In
  <2> QED
    BY <1>1, <1>3, <1>5, <2>1, HotLeaves
<1>6. CASE f \notin DOMAIN hot
  <2>1. f \in DOMAIN cold /\ r \in cold[f]
    BY <1>6 DEF At, In
  <2>2. f \in DOMAIN cold'
    BY <1>3, <1>6, <2>1, ColdLeaves
  <2> QED
    BY <1>2, <2>2 DEF AllHave, At, In
<1> QED
  BY <1>4, <1>5, <1>6

LEMMA KeptInvStep ==
    ASSUME TypeInv, ShapeInv, BornInv, CopiesInv, WrittenInv, CountedInv, KeptInv, SFNext
    PROVE  KeptInv'
<1>1. Output \in Files
  BY FileFacts
<1>2. ASSUME NEW r \in Kept', r \in Kept PROVE \E f \in Files : At(f, r)'
  <2>1. PICK f \in Files : At(f, r)
    BY <1>2 DEF KeptInv
  <2>2. CASE At(f, r)'
    BY <2>2
  <2>3. CASE DeleteInputs /\ f \in comp.files
    <3>1. Has(f, r) /\ r \in Rows \ Taken
      BY <1>2, <2>1, EveryCopy DEF Has, At, Kept
    <3>2. r \in comp.rows /\ Output \notin comp.files /\ comp.pc = "uploaded"
      BY <2>3, <3>1 DEF CopiesInv, InputsInv, DeleteInputs
    <3>3. At(Output, r)
      BY <1>2, <3>2 DEF KeptInv
    <3> QED
      BY <1>1, <1>2, <3>2, <3>3, AtStep
  <2> QED
    BY <1>2, <2>1, <2>2, <2>3, AtStep
<1>3. ASSUME NEW r \in Kept', Flush, r \in {Fresh} \X Kinds PROVE \E f \in Files : At(f, r)'
  BY <1>3, BirthUnborn, BirthStep DEF At, In
<1>4. ASSUME comp'.pc = "uploaded", NEW r \in comp'.rows, r \in Kept' PROVE At(Output, r)'
  <2>1. CASE comp' = comp
    <3>1. r \in Kept
      BY <1>4, <2>1, KeptStep DEF WrittenInv
    <3>2. At(Output, r) /\ Output \notin comp.files
      BY <1>4, <2>1, <3>1 DEF KeptInv, CopiesInv, InputsInv
    <3> QED
      BY <1>1, <1>4, <3>1, <3>2, AtStep
  <2>2. CASE UploadOutput /\ comp'.rows = comp.rows /\ hot' = Put(hot, Output, comp.rows)
    BY <1>4, <2>2, PutFacts DEF At, In
  <2> QED
    BY <1>4, <2>1, <2>2, CompStep
<1> QED
  BY <1>2, <1>3, <1>4, KeptStep DEF KeptInv
-----------------------------------------------------------------------------
(* A kept row is where a query looks for it, unless the metadata of its     *)
(* file was dropped, or set back by a scan.                                 *)

Live == Kept \ (blame["forgotten"] \cup blame["rescan"])

\* A cycle about to delete a hot copy that is not recorded cold deletes
\* nothing live.
DelInv == \A c \in Cycles, f \in Files :
    Deleting(c, f) /\ tier[f] # "cold" => \A r \in Live : ~Has(f, r)

\* A file that is in cold storage only, and not recorded there.
LostInv == \A f \in DOMAIN cold \ DOMAIN hot : tier[f] # "cold" =>
    cold[f] \subseteq Taken \cup blame["forgotten"] \cup blame["rescan"]
                        \cup blame["revived"] \cup blame["wiped"] \cup blame["rollback"]

LEMMA LiveStep ==
    ASSUME TypeInv, SFNext, NEW r \in Live'
    PROVE  r \in Live \/ (Flush /\ r \in {Fresh} \X Kinds /\ r \notin written)
<1>1. blame["forgotten"] \subseteq blame'["forgotten"] /\ blame["rescan"] \subseteq blame'["rescan"]
  BY HistoryGrows DEF Causes
<1> QED
  BY <1>1, KeptStep DEF Live

LEMMA DelStep ==
    ASSUME TypeInv, ShapeInv, BornInv, CopiesInv, WrittenInv, CountedInv, DelInv, SFNext
    PROVE  DelInv'
<1> SUFFICES ASSUME NEW c \in Cycles, NEW f \in Files, Deleting(c, f)', tier'[f] # "cold",
                    NEW r \in Live', Has(f, r)'
             PROVE  FALSE
  BY DEF DelInv
<1>1. Deleting(c, f)
  BY DeletingStep
<1>2. ASSUME (UploadOutput /\ f = Output) \/ (Flush /\ f = Fresh) PROVE FALSE
  <2>1. Unborn(f)
    BY <1>2, BirthUnborn
  <2>2. f \notin cyc'[c].todo \cup cyc'[c].copied \cup cyc'[c].moved
    BY <1>2, <2>1, BirthStep
  <2> QED
    BY <2>2 DEF Deleting
<1>3. Has(f, r)
  BY <1>2, Descent
<1>4. r \in Rows /\ r \in written
  BY <1>3, HasRows DEF WrittenInv
<1>5. r \in Live /\ r \in Kept
  BY <1>4, LiveStep DEF Live
<1>6. tier[f] = "cold"
  BY <1>1, <1>3, <1>5 DEF DelInv
<1>7. f \in DOMAIN cold /\ r \in cold[f]
  <2>1. f \in DOMAIN cold
    BY <1>3, <1>5, <1>6 DEF CountedInv, CountsOn
  <2> QED
    BY <1>3, <1>5, <2>1, EveryCopy DEF AllHave, Kept
<1>8. f # Fresh
  BY <1>6, FileFacts DEF ShapeInv, MovableShape, Movable
<1>9. Leaving(f)
  BY <1>1, <1>7 DEF Leaving
<1>10. r \in RowsIn(cold)
  BY <1>7 DEF RowsIn
<1>11. r \in blame'["rescan"] \/ r \in blame'["forgotten"]
  BY <1>6, <1>7, <1>8, <1>9, <1>10, TierStep
<1> QED
  BY <1>11 DEF Live

\* The compaction brings back what it has read and has been moved since.
LEMMA MergeBlame ==
    ASSUME TypeInv, DeleteInputs
    PROVE  comp.rows \cap (RowsIn(cold) \cup RowsIn(Drop(hot', {Output}))) \subseteq blame'["revived"]
<1> DEFINE S == comp.rows \cap (RowsIn(cold) \cup RowsIn(Drop(hot', {Output})))
<1>1. Blame("revived", S)
  BY DEF DeleteInputs
<1>2. S \in SUBSET Rows /\ "revived" \in Causes
  BY DEF TypeInv, OtherType, CompType, Causes
<1> HIDE DEF S
<1>3. blame'["revived"] = blame["revived"] \cup S
  BY <1>1, <1>2, BlameType DEF TypeInv
<1> QED
  BY <1>3 DEF S

LEMMA LostStep ==
    ASSUME TypeInv, ShapeInv, BornInv, CopiesInv, WrittenInv, DelInv, LostInv, SFNext
    PROVE  LostInv'
<1> DEFINE Excuses == Taken \cup blame["forgotten"] \cup blame["rescan"]
                        \cup blame["revived"] \cup blame["wiped"] \cup blame["rollback"]
<1> SUFFICES ASSUME NEW f \in DOMAIN cold' \ DOMAIN hot', tier'[f] # "cold", NEW r \in cold'[f],
                    r \notin Excuses'
             PROVE  FALSE
  BY DEF LostInv
<1>1. r \notin Excuses /\ Excuses \subseteq Excuses'
  BY HistoryGrows, TakenGrows DEF Causes
<1>2. f \in DOMAIN cold /\ r \in cold[f] /\ In(cold, f, r)
  BY ColdFrom DEF In
<1>3. f \in Files /\ Has(f, r) /\ r \in Rows
  BY <1>2, ColdHas
<1>4. r \in Live
  BY <1>1, <1>3 DEF WrittenInv, Live, Kept
<1>5. CASE f \in DOMAIN hot
  <2>1. hot' # hot
    BY <1>5
  <2>2. tier'[f] = tier[f]
    BY <1>3, <2>1, TierStep
  <2>3. \A c \in Cycles : ~Deleting(c, f)
    BY <1>3, <1>4, <2>2 DEF DelInv
  <2>4. DeleteInputs /\ f \in comp.files
    BY <1>1, <1>3, <1>5, <2>3, HotLeaves
  <2>5. r \in comp.rows /\ r \in RowsIn(cold)
    BY <1>1, <1>2, <1>3, <2>4 DEF CopiesInv, InputsInv, RowsIn
  <2> QED
    BY <2>4, <2>5, MergeBlame
<1>6. CASE f \notin DOMAIN hot
  <2>1. tier[f] = "cold"
    BY <1>1, <1>2, <1>6 DEF LostInv
  <2>2. Leaving(f) /\ r \in RowsIn(cold)
    BY <1>2, <1>6 DEF Leaving, RowsIn
  <2>3. f # Fresh
    BY <1>3, <2>1, FileFacts DEF ShapeInv, MovableShape, Movable
  <2> QED
    BY <1>2, <1>3, <2>1, <2>2, <2>3, TierStep
<1> QED
  BY <1>5, <1>6

\* What a query that looks at the tiers ts finds.
Finds(h, c, t, f, r, ts) ==
    \/ In(h, f, r) /\ (t[f] = "none" \/ (t[f] = "hot" /\ "hot" \in ts))
    \/ In(c, f, r) /\ t[f] = "cold" /\ "cold" \in ts
Found(r, ts) ==
    /\ \E f \in Files : Finds(hot, cold, tier, f, r, ts)
    /\ comp.pc = "uploaded" /\ r \in comp.rows => Finds(hot, cold, tier, Output, r, ts)
FoundInv ==
    /\ \A r \in Live : Found(r, {"hot", "cold"})
    /\ plan # {} => \A r \in Live \ blame["cached"] : Found(r, plan)

LEMMA FoundInit == SFInit => DelInv /\ LostInv /\ FoundInv
<1> SUFFICES ASSUME SFInit PROVE DelInv /\ LostInv /\ FoundInv
  OBVIOUS
<1>1. DelInv /\ LostInv
  BY NoFiles DEF SFInit, DelInv, LostInv, Deleting, NoCycle
<1>2. ASSUME NEW r \in Live PROVE \E f \in Files : Finds(hot, cold, tier, f, r, {"hot", "cold"})
  <2>1. PICK f \in Files : At(f, r)
    BY <1>2, KeptInit DEF Live, KeptInv
  <2>2. In(hot, f, r)
    BY <2>1, NoFiles DEF SFInit, At, In
  <2>3. tier[f] = "hot"
    BY <2>2 DEF SFInit, In
  <2> QED
    BY <2>2, <2>3 DEF Finds
<1> QED
  BY <1>1, <1>2 DEF FoundInv, Found, SFInit, NoComp

LEMMA FindsStep ==
    ASSUME TypeInv, ShapeInv, BornInv, CopiesInv, WrittenInv, CountedInv, DelInv, SFNext,
           NEW f \in Files, NEW r \in Live \cap Live', NEW ts,
           ts = {"hot", "cold"} \/ (plan # {} /\ ts = plan /\ r \notin blame'["cached"]),
           Finds(hot, cold, tier, f, r, ts)
    PROVE  Finds(hot', cold', tier', f, r, ts) \/ (DeleteInputs /\ f \in comp.files)
<1>1. r \in Rows \ Taken /\ Has(f, r) /\ AllHave(f, r) /\ r \in Kept
  BY EveryCopy DEF Finds, Has, Kept, Live
<1>2. AllHave(f, r)'
  <2>1. r \in Rows \ Taken'
    BY <1>1 DEF Kept, Live
  <2> QED
    BY <1>1, <2>1, AllHaveStep DEF CopiesInv
<1>3. /\ r \notin Taken' /\ r \notin blame'["wiped"] /\ r \notin blame'["rollback"]
      /\ r \notin blame'["forgotten"] /\ r \notin blame'["rescan"]
  BY DEF Kept, Live
<1>4. CASE tier'[f] = tier[f]
  <2>1. CASE tier[f] = "cold"
    <3>1. f \in DOMAIN cold /\ r \in cold[f] /\ "cold" \in ts
      BY <2>1 DEF Finds, In
    <3>2. f \in DOMAIN cold'
      BY <1>3, <1>4, <2>1, <3>1, ColdLeaves DEF CountsOn
    <3> QED
      BY <1>2, <1>4, <2>1, <3>1, <3>2 DEF AllHave, Finds, In
  <2>2. CASE tier[f] # "cold"
    <3>1. f \in DOMAIN hot /\ (tier[f] = "none" \/ (tier[f] = "hot" /\ "hot" \in ts))
      BY <2>2 DEF Finds, In
    <3>2. f \in DOMAIN hot' \/ (DeleteInputs /\ f \in comp.files)
      <4>1. \A c \in Cycles : ~Deleting(c, f)
        BY <1>1, <2>2 DEF DelInv
      <4> QED
        BY <1>1, <1>3, <3>1, <4>1, HotLeaves
    <3> QED
      BY <1>2, <1>4, <3>1, <3>2 DEF AllHave, Finds, In
  <2> QED
    BY <2>1, <2>2
<1>5. CASE tier'[f] # tier[f]
  <2>1. hot' = hot /\ cold' = cold /\ plan' = plan
    BY <1>5, TierStep
  <2>2. CASE /\ tier'[f] = "hot" /\ Hidden(f, "hot") \subseteq blame'["cached"]
             /\ f = Fresh \/ (Leaving(f) => cold[f] \subseteq blame'["rescan"])
    <3>1. CASE f \in DOMAIN hot
      <4>1. r \in hot[f]
        BY <1>1, <3>1 DEF AllHave
      <4>2. "hot" \in ts
        BY <2>2, <3>1, <4>1 DEF Hidden
      <4> QED
        BY <2>1, <2>2, <3>1, <4>1, <4>2 DEF Finds, In
    <3>2. CASE f \notin DOMAIN hot
      <4>1. f \in DOMAIN cold /\ r \in cold[f] /\ tier[f] = "cold"
        BY <3>2 DEF Finds, In
      <4>2. f # Fresh /\ Leaving(f)
        BY <3>2, <4>1, FileFacts DEF ShapeInv, MovableShape, Movable, Leaving
      <4> QED
        BY <1>3, <2>2, <4>1, <4>2
    <3> QED
      BY <3>1, <3>2
  <2>3. CASE /\ tier'[f] = "cold" /\ Hidden(f, "cold") \subseteq blame'["cached"]
             /\ \E c \in Cycles : f \in cyc[c].copied
    <3>1. f \in DOMAIN cold /\ r \in cold[f]
      BY <1>1, <2>3 DEF CountedInv, CountsOn, AllHave
    <3>2. "cold" \in ts
      BY <2>3, <3>1 DEF Hidden
    <3> QED
      BY <2>1, <2>3, <3>1, <3>2 DEF Finds, In
  <2>4. CASE tier'[f] = "none" /\ RowsIn(cold) \subseteq blame'["forgotten"]
    <3>1. ~In(cold, f, r)
      BY <1>3, <2>4 DEF RowsIn, In
    <3> QED
      BY <2>1, <2>4, <3>1 DEF Finds
  <2> QED
    BY <1>5, <2>2, <2>3, <2>4, TierStep
<1> QED
  BY <1>4, <1>5

\* What is found of one row after a step.
FoundAfter(r, ts) ==
    /\ \E f \in Files : Finds(hot', cold', tier', f, r, ts)
    /\ comp'.pc = "uploaded" /\ r \in comp'.rows => Finds(hot', cold', tier', Output, r, ts)

LEMMA FoundRow ==
    ASSUME TypeInv, ShapeInv, BornInv, CopiesInv, WrittenInv, CountedInv, DelInv, SFNext,
           NEW r \in Live', NEW ts,
           ts = {"hot", "cold"} \/ (plan # {} /\ ts = plan /\ r \notin blame'["cached"]),
           r \in Live => Found(r, ts)
    PROVE  FoundAfter(r, ts)
<1>1. Output \in Files /\ Fresh \in Files /\ Output # Fresh
  BY FileFacts
<1>2. CASE r \in Live
  <2>1. PICK f \in Files : Finds(hot, cold, tier, f, r, ts)
    BY <1>2 DEF Found
  <2>2. \A g \in Files : Finds(hot, cold, tier, g, r, ts) =>
           Finds(hot', cold', tier', g, r, ts) \/ (DeleteInputs /\ g \in comp.files)
    BY <1>2, FindsStep
  <2>3. CASE comp' = comp
    <3>1. ~DeleteInputs
      BY <2>3, CompStep DEF DeleteInputs, NoComp
    <3> QED
      BY <1>1, <1>2, <2>1, <2>2, <2>3, <3>1 DEF Found, FoundAfter
  <2>4. CASE DeleteInputs /\ comp.pc = "uploaded" /\ comp'.pc = "done"
    <3>1. Output \notin comp.files
      BY DEF CopiesInv, InputsInv
    <3>2. f \in comp.files => r \in comp.rows
      <4>1. Has(f, r) /\ r \in Rows \ Taken
        BY <1>2, <2>1, EveryCopy DEF Finds, Has, Live, Kept
      <4> QED
        BY <4>1 DEF CopiesInv, InputsInv
    <3>3. \E g \in Files : Finds(hot', cold', tier', g, r, ts)
      BY <1>1, <1>2, <2>1, <2>2, <2>4, <3>1, <3>2 DEF Found
    <3> QED
      BY <2>4, <3>3 DEF FoundAfter
  <2>5. CASE comp'.pc # "uploaded" /\ ~DeleteInputs
    BY <2>1, <2>2, <2>5 DEF FoundAfter
  <2>6. CASE UploadOutput /\ comp'.rows = comp.rows
    <3>1. ~DeleteInputs
      BY <2>6 DEF UploadOutput, DeleteInputs
    <3>2. /\ tier'[Output] = "none" /\ Output \in DOMAIN hot' /\ hot'[Output] = comp.rows
      BY <1>1, <2>6, BirthUnborn, BirthStep
    <3>3. r \in comp.rows => Finds(hot', cold', tier', Output, r, ts)
      BY <3>2 DEF Finds, In
    <3> QED
      BY <2>1, <2>2, <2>6, <3>1, <3>3 DEF FoundAfter
  <2>7. comp'.pc # "uploaded" /\ ~(comp.pc = "uploaded" /\ comp'.pc = "done") => ~DeleteInputs
    BY CompStep DEF DeleteInputs, NoComp
  <2> QED
    BY <2>3, <2>4, <2>5, <2>6, <2>7, CompStep
<1>3. CASE Flush /\ r \in {Fresh} \X Kinds /\ r \notin written
  <2>1. /\ tier'[Fresh] = "none" /\ Fresh \in DOMAIN hot' /\ hot'[Fresh] = {Fresh} \X Kinds
    BY <1>1, <1>3, BirthUnborn, BirthStep
  <2>2. Finds(hot', cold', tier', Fresh, r, ts)
    BY <1>3, <2>1 DEF Finds, In
  <2>3. r \notin comp'.rows
    BY <1>3 DEF WrittenInv, Flush
  <2> QED
    BY <1>1, <2>2, <2>3 DEF FoundAfter
<1> QED
  BY <1>2, <1>3, LiveStep

LEMMA FoundStep ==
    ASSUME TypeInv, ShapeInv, BornInv, CopiesInv, WrittenInv, CountedInv, DelInv, FoundInv, SFNext
    PROVE  FoundInv'
<1>1. ASSUME NEW r \in Live' PROVE FoundAfter(r, {"hot", "cold"})
  BY FoundRow DEF FoundInv
<1>2. ASSUME plan' # {}, NEW r \in Live' \ blame'["cached"] PROVE FoundAfter(r, plan')
  <2>1. CASE plan' = plan
    <3>1. r \in Live => Found(r, plan)
      BY <1>2, <2>1, HistoryGrows DEF FoundInv
    <3> QED
      BY <1>2, <2>1, <3>1, FoundRow
  <2>2. CASE plan' # plan
    <3>1. Query
      BY <1>2, <2>2, PlanFrame DEF PlanExpires
    <3>2. plan' = QueriedTiers /\ plan = {} /\ UNCHANGED <<hot, cold, tier, comp>>
      BY <3>1 DEF Query, sf_files, sf_meta, sf_others
    <3>3. \A f \in Files : Finds(hot', cold', tier', f, r, {"hot", "cold"}) =>
                             Finds(hot', cold', tier', f, r, plan')
      BY <3>2 DEF Finds, QueriedTiers, TiersOf
    <3>4. Output \in Files
      BY FileFacts
    <3> QED
      BY <1>1, <3>3, <3>4 DEF FoundAfter
  <2> QED
    BY <2>1, <2>2
<1> QED
  BY <1>1, <1>2 DEF FoundInv, Found, FoundAfter
-----------------------------------------------------------------------------
(* With nothing running a row that no known race has hit is in one file.    *)

Excused == blame["left"] \cup blame["revived"]
OnceInv ==
    \A r \in Rows \ Excused :
        /\ \A f \in Files : In(hot, f, r) /\ In(cold, f, r) =>
                \E c \in Cycles : f \in cyc[c].copied \cup cyc[c].moved
        /\ \A f \in Sources : At(f, r) /\ At(Output, r) => comp.pc = "uploaded"

LEMMA OnceInit == SFInit => OnceInv
<1> SUFFICES ASSUME SFInit PROVE OnceInv
  OBVIOUS
<1>1. \A f, r : At(f, r) => f \in Sources
  BY InitPlaces DEF At, In
<1> QED
  BY <1>1, InitPlaces, FileFacts DEF OnceInv, In

\* The rows that a rename brings into hot storage are blamed.
LEMMA HotGains ==
    ASSUME TypeInv, SFNext, NEW f, NEW r, In(hot', f, r), r \notin blame'["revived"]
    PROVE  \/ In(hot, f, r)
           \/ UploadOutput /\ f = Output /\ r \in comp.rows
           \/ Flush /\ f = Fresh /\ r \in {Fresh} \X Kinds
<1>1. ASSUME NEW d \in Requests, RenameOver(d), req[d].file = f, f \in DOMAIN temp, r \in temp[f]
      PROVE  In(hot, f, r)
  <2> DEFINE lost == req[d].gone \cap (Held(d) \cup RowsIn(temp) \cup RowsIn(Drop(hot, {f})))
             back == IF f \in DOMAIN hot THEN temp[f] \ hot[f] ELSE temp[f]
  <2>1. blame' = [blame EXCEPT !["overtaken"] = @ \cup lost, !["revived"] = @ \cup back]
    BY <1>1 DEF RenameOver
  <2>2. back \subseteq blame'["revived"]
    <3> HIDE DEF lost, back
    <3> QED
      BY <2>1 DEF TypeInv, HistType, Causes
  <2> QED
    BY <1>1, <2>2 DEF In
<1> QED
  BY <1>1, HotFrom DEF In

LEMMA AtGains ==
    ASSUME TypeInv, SFNext, NEW f, NEW r, At(f, r)', r \notin blame'["revived"]
    PROVE  \/ At(f, r)
           \/ UploadOutput /\ f = Output /\ r \in comp.rows
           \/ Flush /\ f = Fresh /\ r \in {Fresh} \X Kinds
<1>1. CASE In(hot', f, r)
  BY <1>1, HotGains DEF At
<1>2. CASE In(cold', f, r)
  BY <1>2, ColdFrom DEF At, In
<1> QED
  BY <1>1, <1>2 DEF At

\* A cycle that has copied a file deletes its hot copy, or the rows are blamed.
LEMMA CopiedStep ==
    ASSUME TypeInv, SFNext, NEW c \in Cycles, NEW f \in cyc[c].copied \cup cyc[c].moved,
           NEW r, In(hot, f, r), In(cold, f, r), In(hot', f, r), In(cold', f, r),
           r \notin blame'["left"]
    PROVE  f \in cyc'[c].copied \cup cyc'[c].moved
<1>1. "left" \in Causes
  BY DEF Causes
<1>2. ~Crash
  <2> SUFFICES ASSUME Crash PROVE FALSE
    OBVIOUS
  <2>1. RowsIn(hot) \cap RowsIn(cold) \in SUBSET Rows
    BY StoresRows DEF TypeInv, FilesType
  <2>2. blame'["left"] = blame["left"] \cup (RowsIn(hot) \cap RowsIn(cold))
    BY <1>1, <2>1, BlameType DEF Crash, TypeInv
  <2> QED
    BY <2>2 DEF RowsIn, In
<1>3. ~RollBack(c, f)
  BY DropFacts DEF RollBack, In
<1>4. ~KeepCopy(f)
  <2> SUFFICES ASSUME KeepCopy(f) PROVE FALSE
    OBVIOUS
  <2>1. cold[f] \in SUBSET Rows /\ Blame("left", cold[f])
    BY DEF KeepCopy, In, TypeInv, FilesType, Stores
  <2>2. blame'["left"] = blame["left"] \cup cold[f]
    BY <1>1, <2>1, BlameType DEF TypeInv
  <2> QED
    BY <2>2 DEF In
<1>5. hot' # Drop(hot, {f})
  BY DropFacts DEF In
<1>6. ~Blame("left", hot[f])
  <2> SUFFICES ASSUME Blame("left", hot[f]) PROVE FALSE
    OBVIOUS
  <2>1. hot[f] \in SUBSET Rows
    BY DEF In, TypeInv, FilesType, Stores
  <2>2. blame'["left"] = blame["left"] \cup hot[f]
    BY <1>1, <2>1, BlameType DEF TypeInv
  <2> QED
    BY <2>2 DEF In
<1> QED
  BY <1>2, <1>3, <1>4, <1>5, <1>6, CycleFields

LEMMA OnceStep ==
    ASSUME TypeInv, ShapeInv, BornInv, WrittenInv, OnceInv, SFNext PROVE OnceInv'
<1> SUFFICES ASSUME NEW r \in Rows \ Excused'
             PROVE  /\ \A f \in Files : In(hot', f, r) /\ In(cold', f, r) =>
                          \E c \in Cycles : f \in cyc'[c].copied \cup cyc'[c].moved
                    /\ \A f \in Sources : At(f, r)' /\ At(Output, r)' => comp'.pc = "uploaded"
  BY DEF OnceInv
<1>1. r \notin Excused /\ r \notin blame'["revived"] /\ r \notin blame'["left"]
  BY HistoryGrows DEF Excused, Causes
<1>2. ASSUME NEW f \in Files, In(hot', f, r), In(cold', f, r)
      PROVE  \E c \in Cycles : f \in cyc'[c].copied \cup cyc'[c].moved
  <2>1. In(hot, f, r)
    <3>1. ASSUME (UploadOutput /\ f = Output) \/ (Flush /\ f = Fresh) PROVE FALSE
      <4>1. Unborn(f)
        BY <3>1, BirthUnborn
      <4>2. f \notin DOMAIN cold'
        BY <3>1, <4>1, BirthStep
      <4> QED
        BY <1>2, <4>2 DEF In
    <3> QED
      BY <1>1, <1>2, <3>1, HotGains
  <2>2. CASE f \in DOMAIN cold /\ cold'[f] = cold[f]
    <3>1. In(cold, f, r)
      BY <1>2, <2>2 DEF In
    <3>2. PICK c \in Cycles : f \in cyc[c].copied \cup cyc[c].moved
      BY <1>1, <2>1, <3>1 DEF OnceInv
    <3> QED
      BY <1>1, <1>2, <2>1, <3>1, <3>2, CopiedStep
  <2> QED
    BY <1>2, <2>2, ColdFrom DEF In
<1>3. ASSUME NEW f \in Sources, At(f, r)', At(Output, r)', comp'.pc # "uploaded" PROVE FALSE
  <2>1. f \in Files /\ f # Output /\ Output \in Files /\ Fresh # Output
    BY FileFacts
  <2>2. ~UploadOutput
    BY <1>3 DEF UploadOutput, TypeInv, OtherType, CompType
  <2>3. At(Output, r)
    BY <1>1, <1>3, <2>1, <2>2, AtGains
  <2>4. Has(Output, r)
    BY <2>3 DEF At, Has
  <2>5. CASE comp.pc = "uploaded"
    <3>1. DeleteInputs /\ r \in comp.rows
      BY <1>3, <2>4, <2>5, CompStep DEF WrittenInv
    <3>2. r \in RowsIn(cold) \cup RowsIn(Drop(hot', {Output}))
      <4>1. CASE In(cold', f, r)
        <5>1. cold' = cold
          BY <3>1 DEF DeleteInputs
        <5> QED
          BY <4>1, <5>1 DEF In, RowsIn
      <4>2. CASE In(hot', f, r)
        BY <2>1, <4>2, DropFacts DEF In, RowsIn
      <4> QED
        BY <1>3, <4>1, <4>2 DEF At
    <3> QED
      BY <1>1, <3>1, <3>2, MergeBlame
  <2>6. CASE comp.pc # "uploaded"
    <3>1. CASE At(f, r)
      BY <1>1, <2>3, <2>6, <3>1 DEF OnceInv
    <3>2. CASE Flush /\ r \in {Fresh} \X Kinds
      BY <2>1, <2>4, <3>2 DEF WrittenInv, Flush
    <3> QED
      BY <1>1, <1>3, <2>2, <3>1, <3>2, AtGains
  <2> QED
    BY <2>5, <2>6
<1> QED
  BY <1>2, <1>3

-----------------------------------------------------------------------------
(* A row that was reported as deleted is nowhere, unless some operation held *)
(* a copy of it then.                                                       *)

\* A temporary file at the time of a rename is what a rewrite has read.
TempInv == \A d \in Requests : req[d].pc = "rename" /\ req[d].file \in DOMAIN temp =>
    \E e \in Requests : Reading(e, req[d].file) /\ req[e].read = temp[req[d].file]
RemovedInv ==
    \A r \in removed \ (blame["overtaken"] \cup blame["left"]) :
        /\ \A f \in Files : ~At(f, r)
        /\ \A d \in Requests : r \notin req[d].read
        /\ r \notin comp.rows

LEMMA RemovedInit == SFInit => TempInv /\ RemovedInv
BY DEF SFInit, TempInv, RemovedInv, NoRequest

LEMMA TempInvStep ==
    ASSUME TypeInv, TempInv, SFNext PROVE TempInv'
<1> SUFFICES ASSUME NEW d \in Requests, req'[d].pc = "rename", req'[d].file \in DOMAIN temp'
             PROVE  \E e \in Requests : /\ req'[e].pc \in {"copy", "rename"}
                                        /\ req'[e].file = req'[d].file
                                        /\ req'[e].read = temp'[req'[d].file]
  BY DEF TempInv, Reading
<1> DEFINE f == req'[d].file
<1>1. ASSUME NEW e \in Requests, CopyKept(e), req[e].file = f
      PROVE  /\ req'[e].pc \in {"copy", "rename"} /\ req'[e].file = f
             /\ req'[e].read = temp'[f]
  <2>1. temp' # Drop(temp, {req[e].file})
    BY <1>1, DropFacts
  <2>2. temp' = Put(temp, req[e].file, req[e].read) /\ ReqMoves(e, "rename")
    BY <1>1, <2>1 DEF CopyKept
  <2>3. temp'[f] = req[e].read
    BY <1>1, <2>2, PutFacts
  <2>4. req'[e].pc = "rename" /\ req'[e].file = req[e].file /\ req'[e].read = req[e].read
    BY <2>2, ReqMoved DEF TypeInv
  <2> QED
    BY <1>1, <2>3, <2>4
<1>2. CASE \E e \in Requests : CopyKept(e) /\ req[e].file = f
  BY <1>1, <1>2
<1>3. CASE ~\E e \in Requests : CopyKept(e) /\ req[e].file = f
  <2>1. req[d].pc = "rename" /\ req[d].file = f
    BY <1>3, RequestFields
  <2>2. f \in DOMAIN temp /\ temp'[f] = temp[f]
    BY <1>3, TempStep
  <2>3. PICK e \in Requests : Reading(e, f) /\ req[e].read = temp[f]
    BY <2>1, <2>2 DEF TempInv
  <2>4. ~Crash
    BY ReqCrash DEF Crash, NoRequest
  <2>5. ~RenameOver(e)
    <3> SUFFICES ASSUME RenameOver(e) PROVE FALSE
      OBVIOUS
    <3>1. temp' = Drop(temp, {f})
      BY <2>2, <2>3 DEF RenameOver, Reading
    <3> QED
      BY <3>1, DropFacts
  <2>6. req'[e] = req[e]
    <3>1. ~CopyKept(e)
      BY <1>3, <2>3 DEF Reading
    <3>2. req[e].pc \in {"copy", "rename"}
      BY <2>3 DEF Reading
    <3>3. ~StartDelete(e) /\ ~EndDelete(e) /\ ~Wipe(e) /\ ~Forget(e) /\ ~StartDrop(e) /\ ~DropFile(e)
      BY <3>2 DEF StartDelete, EndDelete, Wipe, Forget, StartDrop, DropFile
    <3>4. \A g \in Files : ~CountRows(e, g)
      BY <3>2 DEF CountRows
    <3> QED
      BY <2>4, <2>5, <3>1, <3>3, <3>4, RequestStep
  <2> QED
    BY <2>2, <2>3, <2>6 DEF Reading
<1> QED
  BY <1>2, <1>3

\* The rows that a deletion reports are put on the blame if they are elsewhere.
LEMMA CountedGone ==
    ASSUME TypeInv, ShapeInv, NEW d \in Requests, NEW f \in Files, CountRows(d, f), SFNext,
           NEW r \in removed' \ removed, r \notin blame'["overtaken"], r \notin blame'["left"]
    PROVE  /\ \A g \in Files : ~At(g, r)'
           /\ \A e \in Requests : r \notin req'[e].read
           /\ r \notin comp'.rows
<1> DEFINE elsewhere == Held(d) \cup RowsIn(Drop(temp, {f})) \cup RowsIn(Drop(hot', {f}))
<1>1. PICK gone, kept, unasked \in SUBSET Rows : Counts(d, f, gone, kept, unasked)
  BY CountsRows DEF TypeInv
<1>2. req[d].pc = "files" /\ cold' = cold /\ comp' = comp
  BY DEF CountRows, sf_others
<1>3. r \in gone /\ ~Blame("left", gone)
  <2>1. Blame("left", gone) => blame'["left"] = blame["left"] \cup gone
    BY BlameType DEF TypeInv, Causes
  <2> QED
    BY <1>1, <2>1 DEF Counts
<1>4. hot' = Drop(hot, {f}) /\ req' = [req EXCEPT ![d].todo = @ \ {f}]
  BY <1>1, <1>3 DEF Counts
<1>5. blame' = [blame EXCEPT !["overtaken"] = @ \cup (gone \cap elsewhere),
                             !["unknown"] = @ \cup unasked]
  BY <1>1, <1>3 DEF Counts, Elsewhere
<1>6. r \notin elsewhere
  <2> HIDE DEF elsewhere
  <2>1. blame'["overtaken"] = blame["overtaken"] \cup (gone \cap elsewhere)
    BY <1>5 DEF TypeInv, HistType, Causes
  <2> QED
    BY <1>3, <2>1
<1>7. \A g \in Files : ~At(g, r)'
  <2>1. \A g \in Files : ~In(cold', g, r)
    BY <1>2, <1>6 DEF Held, RowsIn, In
  <2>2. \A g \in Files : ~In(hot', g, r)
    BY <1>4, <1>6, DropFacts DEF RowsIn, In
  <2> QED
    BY <2>1, <2>2 DEF At
<1>8. ASSUME NEW e \in Requests PROVE r \notin req'[e].read
  <2>1. req'[e].read = req[e].read
    BY <1>4, ReqDone DEF TypeInv
  <2>2. CASE e = d
    BY <1>2, <2>1, <2>2 DEF ShapeInv, RequestShape
  <2>3. CASE e # d
    BY <1>6, <2>1, <2>3 DEF Held
  <2> QED
    BY <2>2, <2>3
<1>9. r \notin comp'.rows
  BY <1>2, <1>6 DEF Held
<1> QED
  BY <1>7, <1>8, <1>9

LEMMA RenamedGone ==
    ASSUME TypeInv, ShapeInv, NEW d \in Requests, RenameOver(d), req[d].file \in DOMAIN temp, SFNext,
           NEW r \in req[d].gone, r \notin blame'["overtaken"]
    PROVE  /\ \A g \in Files : ~At(g, r)'
           /\ \A e \in Requests : r \notin req'[e].read
           /\ r \notin comp'.rows
<1> DEFINE f == req[d].file
           elsewhere == Held(d) \cup RowsIn(temp) \cup RowsIn(Drop(hot, {f}))
           back == IF f \in DOMAIN hot THEN temp[f] \ hot[f] ELSE temp[f]
<1>1. /\ blame' = [blame EXCEPT !["overtaken"] = @ \cup (req[d].gone \cap elsewhere),
                                !["revived"] = @ \cup back]
      /\ hot' = Put(hot, f, temp[f]) /\ cold' = cold /\ comp' = comp
      /\ req' = [req EXCEPT ![d].pc = "files", ![d].read = {}, ![d].gone = {}]
  BY DEF RenameOver, sf_others
<1>2. r \notin elsewhere
  <2> HIDE DEF elsewhere, back
  <2>1. req[d].gone \cap elsewhere \subseteq blame'["overtaken"]
    BY <1>1 DEF TypeInv, HistType, Causes
  <2> QED
    BY <2>1
<1>3. \A g \in Files : ~At(g, r)'
  <2>1. \A g \in Files : ~In(cold', g, r)
    BY <1>1, <1>2 DEF Held, RowsIn, In
  <2>2. ASSUME NEW g \in Files, In(hot', g, r) PROVE FALSE
    <3>1. CASE g = f
      <4>1. hot'[f] = temp[f]
        BY <1>1, PutFacts
      <4>2. r \in RowsIn(temp)
        BY <2>2, <3>1, <4>1 DEF RowsIn, In
      <4> QED
        BY <1>2, <4>2
    <3>2. CASE g # f
      <4>1. g \in DOMAIN hot /\ hot'[g] = hot[g]
        BY <1>1, <2>2, <3>2, PutFacts DEF In
      <4>2. g \in DOMAIN Drop(hot, {f}) /\ Drop(hot, {f})[g] = hot[g]
        BY <3>2, <4>1, DropFacts
      <4>3. r \in RowsIn(Drop(hot, {f}))
        BY <2>2, <4>1, <4>2 DEF RowsIn, In
      <4> QED
        BY <1>2, <4>3
    <3> QED
      BY <3>1, <3>2
  <2> QED
    BY <2>1, <2>2 DEF At
<1>4. ASSUME NEW e \in Requests PROVE r \notin req'[e].read
  <2>1. req'[d].read = {} /\ \A b \in Requests : b # d => req'[b] = req[b]
    BY <1>1, ReqDrops DEF TypeInv
  <2> QED
    BY <1>2, <2>1 DEF Held
<1>5. r \notin comp'.rows
  BY <1>1, <1>2 DEF Held
<1> QED
  BY <1>3, <1>4, <1>5

LEMMA RemovedInvStep ==
    ASSUME TypeInv, ShapeInv, WrittenInv, TempInv, RemovedInv, SFNext PROVE RemovedInv'
<1> SUFFICES ASSUME NEW r \in removed' \ (blame'["overtaken"] \cup blame'["left"])
             PROVE  /\ \A f \in Files : ~At(f, r)'
                    /\ \A d \in Requests : r \notin req'[d].read
                    /\ r \notin comp'.rows
  BY DEF RemovedInv
<1>1. r \notin blame["overtaken"] \cup blame["left"]
  BY HistoryGrows DEF Causes
<1>2. CASE r \in removed
  <2>1. /\ \A f \in Files : ~At(f, r)
        /\ \A d \in Requests : r \notin req[d].read
        /\ r \notin comp.rows
    BY <1>1, <1>2 DEF RemovedInv
  <2>2. \A f : ~In(hot, f, r) /\ ~In(cold, f, r)
    BY <2>1, HotHas, ColdHas DEF At
  <2>3. \A f : ~In(hot', f, r)
    <3> SUFFICES ASSUME NEW f, In(hot', f, r) PROVE FALSE
      OBVIOUS
    <3>1. CASE f \in DOMAIN temp /\ hot'[f] = temp[f] /\ \E d \in Requests : RenameOver(d) /\ req[d].file = f
      <4>1. PICK e \in Requests : req[e].read = temp[f]
        BY <3>1 DEF TempInv, RenameOver
      <4> QED
        BY <2>1, <3>1, <4>1 DEF In
    <3>2. CASE UploadOutput /\ hot'[f] = comp.rows
      BY <2>1, <3>2 DEF In
    <3>3. CASE Flush /\ hot'[f] = {Fresh} \X Kinds
      <4>1. r[1] = Fresh /\ flush = "none"
        BY <3>3 DEF In, Flush
      <4> QED
        BY <1>2, <4>1 DEF WrittenInv
    <3> QED
      BY <2>2, <3>1, <3>2, <3>3, HotFrom DEF In
  <2>4. \A f : ~In(cold', f, r)
    BY <2>2, ColdFrom DEF In
  <2>5. ASSUME NEW d \in Requests PROVE r \notin req'[d].read
    <3>1. CASE req'[d].pc \in {"copy", "rename"}
      BY <2>1, <2>2, <3>1, ReadStep DEF Reading, In
    <3>2. CASE req'[d].pc \notin {"copy", "rename"}
      BY <3>2, ShapeStep DEF ShapeInv, RequestShape
    <3> QED
      BY <3>1, <3>2
  <2>6. r \notin comp'.rows
    <3>1. r \notin RowsIn(hot)
      BY <2>2, RowsInFacts
    <3> QED
      BY <2>1, <3>1, CompStep
  <2> QED
    BY <2>3, <2>4, <2>5, <2>6 DEF At
<1>3. CASE r \notin removed
  BY <1>3, CountedGone, RenamedGone, RemovedStep
<1> QED
  BY <1>2, <1>3

-----------------------------------------------------------------------------
(* A cycle that runs alone and without a fault moves every daily file.      *)

Alone(c) ==
    /\ \A b \in Cycles \ {c} : cyc[b].stage = "idle"
    /\ \A d \in Requests : req[d].pc = "idle"
    /\ doomedFiles = {} /\ comp.pc \in {"idle", "done"} /\ flush # "written"
Moves(c) ==
    /\ cyc[c].stage = "scan" =>
          \A f \in Movable \cap DOMAIN hot : f \in cyc[c].todo \/ tier[f] = "hot"
    /\ cyc[c].stage = "migrate" =>
          /\ Movable \cap DOMAIN hot \subseteq cyc[c].todo \cup cyc[c].copied \cup cyc[c].moved
          /\ \A f \in cyc[c].todo \cup cyc[c].copied : tier[f] = "hot"
    /\ cyc[c].stage \in {"sweep", "idle"} => Movable \cap DOMAIN hot = {}
SoloInv == \A c \in Cycles : solo = c => Alone(c) /\ Moves(c)

LEMMA SoloInit == SFInit => SoloInv
BY StoredFilesConstants DEF SFInit, SoloInv

\* What can run beside a cycle without disturbing it.
LEMMA SoloActions ==
    ASSUME TypeInv, ShapeInv, SFNext, NEW c \in Cycles, solo = c, Alone(c), solo' = c
    PROVE  \/ StartCycle(c) \/ Register(c) \/ FindCandidates(c) \/ FindOrphans(c)
           \/ SweepOrphan(c) \/ EndCycle(c)
           \/ (\E f \in Movable : Copy(c, f) \/ UpdateTier(c, f) \/ DeleteSource(c, f))
           \/ WindowPasses \/ Query \/ PlanExpires
<1>1. c # Nobody
  BY StoredFilesConstants
<1>2. ASSUME NEW b \in Cycles, b # c
      PROVE  /\ ~StartCycle(b) /\ ~Register(b) /\ ~FindCandidates(b) /\ ~FindOrphans(b)
             /\ ~SweepOrphan(b) /\ ~EndCycle(b)
             /\ \A f \in Movable : ~Copy(b, f) /\ ~UpdateTier(b, f) /\ ~DeleteSource(b, f)
  <2>1. cyc[b].stage = "idle" /\ cyc[b].copied = {} /\ cyc[b].moved = {}
    BY <1>2 DEF Alone, ShapeInv, CycleShape
  <2>2. ~StartCycle(b)
    BY <1>1, <1>2 DEF StartCycle, Starts
  <2> QED
    BY <2>1, <2>2
    DEF Register, FindCandidates, FindOrphans, SweepOrphan, EndCycle, Copy, UpdateTier, DeleteSource
<1>3. ASSUME NEW d \in Requests
      PROVE  /\ ~StartDelete(d) /\ ~CopyKept(d) /\ ~RenameOver(d) /\ ~EndDelete(d) /\ ~Wipe(d)
             /\ ~Forget(d) /\ ~StartDrop(d) /\ ~DropFile(d) /\ \A f \in Files : ~CountRows(d, f)
  <2>1. req[d].pc = "idle"
    BY DEF Alone
  <2>2. ~StartDelete(d) /\ ~StartDrop(d)
    BY <1>1 DEF StartDelete, StartDrop, Starts
  <2> QED
    BY <2>1, <2>2 DEF CopyKept, RenameOver, EndDelete, Wipe, Forget, DropFile, CountRows
<1>4. ~StartRetention /\ ~StartCompaction /\ ~Flush /\ ~Crash
  BY <1>1 DEF StartRetention, StartCompaction, Flush, Crash, Starts, Fault
<1>5. ~RetentionDelete /\ ~UploadOutput /\ ~DeleteInputs /\ ~RegisterFlushed
  BY DEF Alone, RetentionDelete, UploadOutput, DeleteInputs, RegisterFlushed
<1> QED
  BY <1>2, <1>3, <1>4, <1>5 DEF SFNext, Movable

LEMMA AloneStep ==
    ASSUME TypeInv, ShapeInv, SFNext, NEW c \in Cycles, solo = c, Alone(c), solo' = c
    PROVE  Alone(c)'
<1>1. UNCHANGED <<req, doomedFiles, comp, flush>>
  BY SoloActions DEF StartCycle, Register, FindCandidates, FindOrphans, SweepOrphan, EndCycle,
     Copy, UpdateTier, DeleteSource, WindowPasses, Query, PlanExpires, sf_others
<1>2. ASSUME NEW b \in Cycles, b # c PROVE cyc'[b] = cyc[b]
  <2> USE DEF TypeInv, CycType
  <2>1. StartCycle(c) \/ Register(c) => cyc'[b] = cyc[b]
    BY <1>2 DEF StartCycle, Register, CycleMoves, CycleDone
  <2>2. FindCandidates(c) \/ FindOrphans(c) => cyc'[b] = cyc[b]
    BY <1>2 DEF FindCandidates, FindOrphans, CycleMoves
  <2>3. SweepOrphan(c) \/ EndCycle(c) => cyc'[b] = cyc[b]
    BY <1>2 DEF SweepOrphan, EndCycle, CycleMoves, CycleDone
  <2>4. \A f \in Movable : Copy(c, f) => cyc'[b] = cyc[b]
    BY <1>2 DEF Copy, CycleDone
  <2>5. \A f \in Movable : UpdateTier(c, f) \/ DeleteSource(c, f) => cyc'[b] = cyc[b]
    BY <1>2 DEF UpdateTier, DeleteSource
  <2>6. WindowPasses \/ Query \/ PlanExpires => cyc'[b] = cyc[b]
    BY DEF WindowPasses, Query, PlanExpires
  <2> QED
    BY <2>1, <2>2, <2>3, <2>4, <2>5, <2>6, SoloActions
<1> QED
  BY <1>1, <1>2 DEF Alone

\* Only the start of a cycle while everything rests makes that cycle undisturbed.
LEMMA SoloFrame ==
    ASSUME SFNext, NEW c \in Cycles, solo # c, solo' = c PROVE StartCycle(c) /\ Resting
<1>1. c # Nobody /\ ~Fault
  BY StoredFilesConstants DEF Fault
<1>2. ~NoFault
  BY DEF NoFault
<1>3. \A b \in Cycles : StartCycle(b) => StartCycle(c) /\ Resting
  BY <1>1 DEF StartCycle, Starts
<1>4. \A b \in Cycles : ~Register(b) /\ ~FindCandidates(b) /\ ~FindOrphans(b) /\ ~SweepOrphan(b)
                        /\ ~EndCycle(b)
  BY <1>1, <1>2 DEF Register, FindCandidates, FindOrphans, SweepOrphan, EndCycle
<1>5. \A b \in Cycles, f \in Movable : ~Copy(b, f) /\ ~UpdateTier(b, f) /\ ~DeleteSource(b, f)
  BY <1>1, <1>2 DEF Copy, UpdateTier, DeleteSource
<1>6. ~Starts(Nobody)
  BY <1>1 DEF Starts
<1>7. \A d \in Requests : ~StartDelete(d) /\ ~CopyKept(d) /\ ~RenameOver(d) /\ ~EndDelete(d)
                          /\ ~Wipe(d) /\ ~Forget(d) /\ ~StartDrop(d) /\ ~DropFile(d)
  BY <1>1, <1>2, <1>6
  DEF StartDelete, CopyKept, RenameOver, EndDelete, Wipe, Forget, StartDrop, DropFile
<1>8. \A d \in Requests, f \in Files : ~CountRows(d, f)
  BY <1>1, <1>2 DEF CountRows
<1>9. ~StartRetention /\ ~RetentionDelete /\ ~StartCompaction /\ ~UploadOutput /\ ~DeleteInputs
      /\ ~Flush /\ ~RegisterFlushed /\ ~Crash
  BY <1>1, <1>2, <1>6
  DEF StartRetention, RetentionDelete, StartCompaction, UploadOutput, DeleteInputs, Flush,
      RegisterFlushed, Crash
<1>10. ~WindowPasses /\ ~Query /\ ~PlanExpires
  BY DEF WindowPasses, Query, PlanExpires
<1> QED
  BY <1>3, <1>4, <1>5, <1>7, <1>8, <1>9, <1>10 DEF SFNext, Movable

LEMMA MovesStep ==
    ASSUME TypeInv, ShapeInv, SFNext, NEW c \in Cycles, solo = c, Alone(c), Moves(c), solo' = c
    PROVE  Moves(c)'
<1> CycType
  BY DEF TypeInv
<1> USE DEF Moves
<1>1. CASE StartCycle(c)
  <2>1. DOMAIN hot \in SUBSET Files
    BY DEF TypeInv, FilesType, Stores
  <2>2. cyc'[c].stage = "scan" /\ cyc'[c].todo = DOMAIN hot
    BY <1>1, <2>1, CycMoves DEF StartCycle
  <2> QED
    BY <1>1, <2>2 DEF StartCycle, sf_files
<1>2. CASE Register(c)
  <2> DEFINE f == Min(cyc[c].todo)
  <2>1. cyc[c].stage = "scan" /\ cyc[c].todo # {} /\ cyc[c].todo \in SUBSET Files
    BY <1>2 DEF Register, CycType, CycleType
  <2>2. f \in Files
    BY <2>1, LeastFile
  <2>3. CycleDone(c, f) /\ hot' = hot /\ ~Fault
    BY <1>2, StoredFilesConstants DEF Register, sf_files, Fault
  <2>4. RecordHot(f)
    BY <1>2, <2>3 DEF Register
  <2> HIDE DEF f
  <2>5. tier'[f] = "hot" /\ \A g \in Files : g # f => tier'[g] = tier[g]
    BY <2>2, <2>4 DEF RecordHot, TypeInv, MetaType
  <2>6. cyc'[c].stage = "scan" /\ cyc'[c].todo = cyc[c].todo \ {f}
    BY <2>1, <2>3, CycDone
  <2> QED
    BY <2>1, <2>3, <2>5, <2>6, FileFacts DEF Movable
<1>3. CASE FindCandidates(c)
  <2>1. {f \in Movable : tier[f] = "hot"} \in SUBSET Files
    BY FileFacts DEF Movable
  <2>2. cyc'[c].stage = "migrate" /\ cyc'[c].todo = {f \in Movable : tier[f] = "hot"}
        /\ cyc'[c].copied = cyc[c].copied
    BY <1>3, <2>1, CycMoves DEF FindCandidates, Movable
  <2>3. hot' = hot /\ tier' = tier /\ cyc[c].stage = "scan" /\ cyc[c].todo = {}
    BY <1>3 DEF FindCandidates, sf_files, sf_meta
  <2>4. cyc[c].copied = {}
    BY <2>3 DEF ShapeInv, CycleShape
  <2> QED
    BY <2>2, <2>3, <2>4
<1>4. CASE FindOrphans(c)
  <2>1. {f \in recent : tier[f] = "cold"} \in SUBSET Files
    BY DEF TypeInv, MetaType
  <2>2. cyc'[c].stage = "sweep"
    BY <1>4, <2>1, CycMoves DEF FindOrphans
  <2> QED
    BY <1>4, <2>2 DEF FindOrphans, sf_files
<1>5. CASE SweepOrphan(c)
  <2>1. cyc'[c].stage = "sweep" /\ cyc[c].stage = "sweep"
    BY <1>5, CycDone DEF SweepOrphan
  <2>2. DOMAIN hot' \subseteq DOMAIN hot
    BY <1>5, DropFacts DEF SweepOrphan
  <2> QED
    BY <2>1, <2>2
<1>6. CASE EndCycle(c)
  <2>1. cyc'[c].stage = "idle" /\ cyc[c].stage = "sweep"
    BY <1>6, CycMoves DEF EndCycle
  <2> QED
    BY <1>6, <2>1 DEF EndCycle, sf_files
<1>7. ASSUME NEW f \in Movable, Copy(c, f) PROVE Moves(c)'
  <2>1. /\ cyc[c].stage = "migrate" /\ f \in cyc[c].todo /\ f \in Files /\ ~Fault
        /\ hot' = hot /\ tier' = tier
    BY <1>7, FileFacts, StoredFilesConstants DEF Copy, sf_meta, Fault, Movable
  <2>2. CASE f \in DOMAIN hot
    <3>1. cyc' = [cyc EXCEPT ![c].todo = @ \ {f}, ![c].copied = @ \cup {f}]
      BY <1>7, <2>1, <2>2 DEF Copy
    <3>2. cyc'[c].stage = cyc[c].stage /\ cyc'[c].todo = cyc[c].todo \ {f}
          /\ cyc'[c].copied = cyc[c].copied \cup {f} /\ cyc'[c].moved = cyc[c].moved
      BY <2>1, <3>1, CycCopied
    <3> QED
      BY <2>1, <3>2
  <2>3. CASE f \notin DOMAIN hot
    <3>1. CycleDone(c, f)
      BY <1>7, <2>3 DEF Copy
    <3>2. cyc'[c].stage = cyc[c].stage /\ cyc'[c].todo = cyc[c].todo \ {f}
          /\ cyc'[c].copied = cyc[c].copied /\ cyc'[c].moved = cyc[c].moved
      BY <3>1, CycDone
    <3> QED
      BY <2>1, <2>3, <3>2
  <2> QED
    BY <2>2, <2>3
<1>8. ASSUME NEW f \in Movable, UpdateTier(c, f) PROVE Moves(c)'
  <2>1. f \in cyc[c].copied /\ f \in Files /\ ~Fault /\ hot' = hot
    BY <1>8, FileFacts, StoredFilesConstants DEF UpdateTier, Fault, Movable
  <2>2. CycleShape(c)
    BY DEF ShapeInv
  <2>3. cyc[c].stage = "migrate" /\ tier[f] = "hot" /\ f \notin cyc[c].todo
    BY <2>1, <2>2 DEF CycleShape
  <2>4. /\ tier' = [tier EXCEPT ![f] = "cold"]
        /\ cyc' = [cyc EXCEPT ![c].copied = @ \ {f}, ![c].moved = @ \cup {f}]
    BY <1>8, <2>1, <2>3 DEF UpdateTier
  <2>5. \A g \in Files : g # f => tier'[g] = tier[g]
    BY <2>4 DEF TypeInv, MetaType
  <2>6. cyc'[c].stage = cyc[c].stage /\ cyc'[c].todo = cyc[c].todo
        /\ cyc'[c].copied = cyc[c].copied \ {f} /\ cyc'[c].moved = cyc[c].moved \cup {f}
    BY <2>1, <2>4, CycRecorded
  <2>7. cyc[c].todo \subseteq Files /\ cyc[c].copied \subseteq Files
    BY DEF CycType, CycleType
  <2> QED
    BY <2>1, <2>3, <2>5, <2>6, <2>7
<1>9. ASSUME NEW f \in Movable, DeleteSource(c, f) PROVE Moves(c)'
  <2>1. f \in cyc[c].moved /\ hot' = Drop(hot, {f}) /\ tier' = tier
        /\ cyc' = [cyc EXCEPT ![c].moved = @ \ {f}]
    BY <1>9, StoredFilesConstants DEF DeleteSource, Fault, sf_meta
  <2>2. cyc'[c].stage = cyc[c].stage /\ cyc'[c].todo = cyc[c].todo
        /\ cyc'[c].copied = cyc[c].copied /\ cyc'[c].moved = cyc[c].moved \ {f}
    BY <2>1, CycDeleted
  <2>3. cyc[c].stage = "migrate"
    BY <2>1 DEF ShapeInv, CycleShape
  <2>4. DOMAIN hot' \subseteq DOMAIN hot \ {f}
    BY <2>1, DropFacts
  <2> QED
    BY <2>1, <2>2, <2>3, <2>4
<1>10. CASE WindowPasses \/ Query \/ PlanExpires
  BY <1>10 DEF WindowPasses, Query, PlanExpires, sf_files, sf_meta
<1> QED
  BY <1>1, <1>2, <1>3, <1>4, <1>5, <1>6, <1>7, <1>8, <1>9, <1>10, SoloActions

LEMMA SoloStep == ASSUME TypeInv, ShapeInv, SoloInv, SFNext PROVE SoloInv'
<1> SUFFICES ASSUME NEW c \in Cycles, solo' = c PROVE Alone(c)' /\ Moves(c)'
  BY DEF SoloInv
<1>1. CASE solo = c
  BY <1>1, AloneStep, MovesStep DEF SoloInv
<1>2. CASE solo # c
  <2>1. StartCycle(c) /\ Resting
    BY <1>2, SoloFrame
  <2>2. DOMAIN hot \in SUBSET Files /\ CycType
    BY DEF TypeInv, FilesType, Stores
  <2>3. cyc'[c].stage = "scan" /\ cyc'[c].todo = DOMAIN hot
        /\ \A b \in Cycles : b # c => cyc'[b] = cyc[b]
    BY <2>1, <2>2, CycMoves DEF StartCycle
  <2>4. UNCHANGED <<req, doomedFiles, comp, flush, hot>>
    BY <2>1 DEF StartCycle, sf_others, sf_files
  <2> QED
    BY <2>1, <2>3, <2>4 DEF Resting, Alone, Moves
<1> QED
  BY <1>1, <1>2

-----------------------------------------------------------------------------
(* The inductive invariant, and what follows from it.                       *)

SFInv == /\ TypeInv /\ ShapeInv /\ BornInv /\ CopiesInv /\ WrittenInv
         /\ CountedInv /\ KeptInv /\ DelInv /\ LostInv /\ FoundInv
         /\ OnceInv /\ TempInv /\ RemovedInv /\ SoloInv

LEMMA SFInvInit == SFInit => SFInv
BY TypeInit, ShapeInit, BornInit, CopiesInit, WrittenInit, KeptInit, FoundInit, OnceInit,
   RemovedInit, SoloInit DEF SFInv

LEMMA SFInvStep == SFInv /\ SFNext => SFInv'
<1> SUFFICES ASSUME SFInv, SFNext PROVE SFInv'
  OBVIOUS
<1> USE DEF SFInv
<1>1. TypeInv' /\ ShapeInv' /\ BornInv' /\ CopiesInv' /\ WrittenInv'
  BY TypeStep, ShapeStep, BornStep, CopiesStep, WrittenStep
<1>2. CountedInv' /\ KeptInv' /\ DelInv' /\ LostInv' /\ FoundInv'
  BY CountedStep, KeptInvStep, DelStep, LostStep, FoundStep
<1>3. OnceInv' /\ TempInv' /\ RemovedInv' /\ SoloInv'
  BY OnceStep, TempInvStep, RemovedInvStep, SoloStep
<1> QED
  BY <1>1, <1>2, <1>3

LEMMA SFInvSame == SFInv /\ UNCHANGED sf_vars => SFInv'
<1> SUFFICES ASSUME SFInv, UNCHANGED sf_vars PROVE SFInv'
  OBVIOUS
<1> USE DEF SFInv
<1>1. /\ hot' = hot /\ cold' = cold /\ temp' = temp /\ tier' = tier /\ recent' = recent
      /\ plan' = plan /\ cyc' = cyc /\ req' = req /\ doomedFiles' = doomedFiles /\ comp' = comp
      /\ flush' = flush /\ solo' = solo /\ written' = written /\ doomed' = doomed
      /\ removed' = removed /\ blame' = blame
  BY DEF sf_vars, sf_files, sf_meta, sf_others, sf_history
<1>2. TypeInv'
  BY UnchangedType DEF TypeInv, sf_vars, sf_files, sf_meta, sf_others, sf_history
<1>3. ShapeInv'
  BY <1>1 DEF ShapeInv, CycleShape, RequestShape, CompShape, MovableShape
<1>4. BornInv'
  BY <1>1 DEF BornInv, Unborn, Reading
<1>5. \A f, r : /\ Has(f, r)' <=> Has(f, r)
                /\ AllHave(f, r)' <=> AllHave(f, r)
                /\ At(f, r)' <=> At(f, r)
  BY <1>1 DEF Has, AllHave, At, Reading
<1>6. CopiesInv'
  BY <1>1, <1>5 DEF CopiesInv, AgreeInv, AimInv, DoomedInv, InputsInv, Aim, Taken
<1>7. WrittenInv'
  BY <1>1, <1>5 DEF WrittenInv
<1>8. CountedInv' /\ KeptInv'
  BY <1>1, <1>5 DEF CountedInv, KeptInv, CountsOn, Deleting, Kept, Taken
<1>9. DelInv' /\ LostInv'
  BY <1>1, <1>5 DEF DelInv, LostInv, Deleting, Live, Kept, Taken
<1>10. FoundInv'
  BY <1>1 DEF FoundInv, Found, Live, Kept, Taken
<1>11. OnceInv' /\ TempInv' /\ RemovedInv'
  BY <1>1, <1>5 DEF OnceInv, TempInv, RemovedInv, Excused, Reading
<1>12. SoloInv'
  BY <1>1 DEF SoloInv, Alone, Moves
<1> QED
  BY <1>2, <1>3, <1>4, <1>6, <1>7, <1>8, <1>9, <1>10, <1>11, <1>12

LEMMA SFInvAlways == SFSpec => []SFInv
<1>1. SFInv /\ [SFNext]_sf_vars => SFInv'
  BY SFInvStep, SFInvSame
<1> QED
  BY <1>1, SFInvInit, PTL DEF SFSpec

\* Files, metadata and history keep their types, whatever runs at once.
THEOREM TypeCorrect == SFSpec => []SFTypeOK
<1>1. SFInv => SFTypeOK
  BY TypeOfTypeInv DEF SFInv
<1> QED
  BY <1>1, SFInvAlways, PTL

\* MigrateFile, the rewrites of delete.go, retention, compaction and a flush
\* lose no row that nobody asked to delete, however they interleave and fail:
\* only a roll-back of a copy that another cycle counts on, a directory that is
\* removed with what came into it since it was listed, and a rewrite of a file
\* with rows of which its WHERE clause is NULL, do.
THEOREM RowsSurviveCorrect == SFSpec => []RowsSurvive
<1>1. SFInv => RowsSurvive
  <2> SUFFICES ASSUME SFInv, NEW r \in Kept PROVE r \in RowsIn(hot) \cup RowsIn(cold)
    BY DEF RowsSurvive, Kept, Taken
  <2>1. PICK f \in Files : At(f, r)
    BY DEF SFInv, KeptInv
  <2> QED
    BY <2>1 DEF At, In, RowsIn
<1> QED
  BY <1>1, SFInvAlways, PTL

\* Where a row that a query reads is.
LEMMA SeenAt ==
    ASSUME TypeInv, NEW r \in Visible
    PROVE  \E p \in Places(r) : TRUE
<1>1. PICK t \in QueriedTiers : r \in RowsIn(InTier(t))
  BY DEF Visible
<1>2. PICK f \in DOMAIN InTier(t) : r \in InTier(t)[f]
  BY <1>1 DEF RowsIn
<1>3. t \in {"hot", "cold"}
  BY <1>1 DEF QueriedTiers, TiersOf, TypeInv, PlanType, MetaType
<1>4. f \in Files
  BY DEF InTier, TypeInv, FilesType, Stores
<1>5. <<t, f>> \in Places(r)
  BY <1>2, <1>3, <1>4 DEF Places
<1> QED
  BY <1>5

LEMMA PlaceAt ==
    ASSUME NEW r, NEW p \in Places(r)
    PROVE  /\ p = <<p[1], p[2]>> /\ p[1] \in {"hot", "cold"} /\ p[2] \in Files
           /\ p[1] = "hot" => In(hot, p[2], r)
           /\ p[1] = "cold" => In(cold, p[2], r)
           /\ At(p[2], r)
BY DEF Places, InTier, In, At

LEMMA OnePlace ==
    ASSUME SFInv, Resting, NEW r \in Rows \ Excused, NEW p \in Places(r), NEW q \in Places(r)
    PROVE  p = q
<1> USE DEF SFInv
<1>1. At(p[2], r) /\ At(q[2], r) /\ p[2] \in Files /\ q[2] \in Files
  BY PlaceAt
<1>2. \A f \in Sources : ~(At(f, r) /\ At(Output, r))
  BY DEF OnceInv, Resting
<1>3. \A f \in Sources : At(f, r) => r[1] = f
  BY FileFacts DEF At, Has, WrittenInv
<1>4. p[2] = q[2]
  BY <1>1, <1>2, <1>3, FileFacts
<1>5. \A c \in Cycles : cyc[c].copied \cup cyc[c].moved = {}
  BY DEF Resting, ShapeInv, CycleShape
<1>6. \A f \in Files : ~(In(hot, f, r) /\ In(cold, f, r))
  BY <1>5 DEF OnceInv
<1>7. p[1] = q[1]
  BY <1>1, <1>4, <1>6, PlaceAt
<1> QED
  BY <1>4, <1>7, PlaceAt

\* A query of buildMultiTierReadParquet reads every stored row, at every step of
\* a migration and for cached SQL too, and with nothing running it reads none
\* twice.  The only exceptions are the races that RowsSeen and SeenOnce name.
THEOREM SeenExactlyOnceCorrect == SFSpec => []SeenExactlyOnce
<1>1. SFInv => RowsSeen
  <2> DEFINE Excuses == blame["forgotten"] \cup blame["rescan"] \cup blame["rollback"]
                          \cup blame["wiped"] \cup blame["unknown"] \cup blame["cached"]
  <2> SUFFICES ASSUME SFInv, NEW r \in (RowsIn(hot) \cup RowsIn(cold)) \ doomed, r \notin Excuses
               PROVE  r \in Visible \cup RowsIn(Restrict(hot, Unrecorded))
    BY DEF RowsSeen
  <2> USE DEF SFInv
  <2>1. PICK g : In(hot, g, r) \/ In(cold, g, r)
    BY DEF RowsIn, In
  <2>2. r \in written
    BY <2>1, HotHas, ColdHas DEF WrittenInv
  <2>3. r \in Live \ blame["cached"]
    BY <2>2 DEF Live, Kept, Taken
  <2> DEFINE ts == IF plan # {} THEN plan ELSE {"hot", "cold"}
  <2>4. PICK f \in Files : Finds(hot, cold, tier, f, r, ts)
    BY <2>3 DEF FoundInv, Found
  <2>5. ASSUME NEW t \in {"hot", "cold"} \cap ts, tier[f] = t PROVE t \in QueriedTiers
    <3>1. t \in TiersOf
      BY <2>5 DEF TiersOf
    <3> QED
      BY <2>4, <2>5, <3>1 DEF QueriedTiers
  <2>6. CASE In(hot, f, r) /\ tier[f] = "none"
    <3>1. f \in Unrecorded
      BY <2>6 DEF Unrecorded, In
    <3>2. f \in DOMAIN Restrict(hot, Unrecorded) /\ Restrict(hot, Unrecorded)[f] = hot[f]
      BY <3>1, RestrictFacts
    <3> QED
      BY <2>6, <3>2 DEF RowsIn, In
  <2>7. CASE In(hot, f, r) /\ tier[f] = "hot" /\ "hot" \in ts
    <3>1. "hot" \in QueriedTiers /\ r \in RowsIn(InTier("hot"))
      BY <2>5, <2>7 DEF InTier, RowsIn, In
    <3> QED
      BY <3>1 DEF Visible
  <2>8. CASE In(cold, f, r) /\ tier[f] = "cold" /\ "cold" \in ts
    <3>1. "cold" \in QueriedTiers /\ r \in RowsIn(InTier("cold"))
      BY <2>5, <2>8 DEF InTier, RowsIn, In
    <3> QED
      BY <3>1 DEF Visible
  <2> QED
    BY <2>4, <2>6, <2>7, <2>8 DEF Finds
<1>2. SFInv => SeenOnce
  <2> SUFFICES ASSUME SFInv, Resting, NEW r \in Visible, r \notin Excused
               PROVE  Cardinality(Places(r)) = 1
    BY DEF SeenOnce, Excused
  <2>1. PICK p \in Places(r) : TRUE
    BY SeenAt DEF SFInv
  <2>2. r \in Rows
    BY <2>1, PlaceAt, HotHas, ColdHas DEF SFInv
  <2>3. Places(r) = {p}
    BY <2>1, <2>2, OnePlace
  <2> QED
    BY <2>3, FS_Singleton
<1> QED
  BY <1>1, <1>2, SFInvAlways, PTL DEF SeenExactlyOnce

\* A row that a delete request counts in totalDeleted never comes back to a
\* query, unless a migration, a merge or another rewrite held a copy of it when
\* it was counted, or its file could not be deleted.
THEOREM DeletedStayDeletedCorrect == SFSpec => []DeletedStayDeleted
<1>1. SFInv => DeletedStayDeleted
  <2> SUFFICES ASSUME SFInv, NEW r \in removed \cap Visible,
                      r \notin blame["overtaken"], r \notin blame["left"]
               PROVE  FALSE
    BY DEF DeletedStayDeleted
  <2>1. PICK p \in Places(r) : TRUE
    BY SeenAt DEF SFInv
  <2>2. At(p[2], r) /\ p[2] \in Files
    BY <2>1, PlaceAt
  <2> QED
    BY <2>2 DEF SFInv, RemovedInv
<1> QED
  BY <1>1, SFInvAlways, PTL

\* A RunMigrationCycle that nothing disturbed leaves no daily file in hot
\* storage, whatever crashes and failures came before it, and none unrecorded
\* in cold storage but for the rows of the races that CycleRepairs names.
THEOREM CycleRepairsCorrect == SFSpec => []CycleRepairs
<1>1. SFInv => CycleRepairs
  <2> SUFFICES ASSUME SFInv, solo \in Cycles, cyc[solo].stage = "idle", NEW f \in Movable
               PROVE  /\ f \notin DOMAIN hot
                      /\ f \in DOMAIN cold /\ tier[f] # "cold"
                            => cold[f] \subseteq Taken \cup blame["forgotten"]
                                 \cup blame["rescan"] \cup blame["revived"]
                                 \cup blame["wiped"] \cup blame["rollback"]
    BY DEF CycleRepairs, Movable, Taken
  <2>1. f \notin DOMAIN hot
    BY DEF SFInv, SoloInv, Moves
  <2> QED
    BY <2>1 DEF SFInv, LostInv
<1> QED
  BY <1>1, SFInvAlways, PTL
==========
