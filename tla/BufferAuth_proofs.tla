------------------------ MODULE BufferAuth_proofs -------------------------
(***************************************************************************)
(* Theorems about two components of a node that share nothing: ArrowBuffer *)
(* for every number of batches, keys, workers and calls, and AuthReplica   *)
(* for every seed, name, credential and pattern and any number of          *)
(* commands, crashes and snapshots.                                        *)
(***************************************************************************)
EXTENDS ArrowBuffer, AuthReplica, SequenceTheorems, FiniteSetTheorems, WellFoundedInduction, TLAPS

-----------------------------------------------------------------------------
(* I.  ArrowBuffer.                                                        *)

\* Every goroutine that flushes is a Flusher.
LEMMA FlusherMembers ==
    /\ Batches \subseteq Flusher
    /\ Workers \subseteq Flusher
    /\ Ticker \in Flusher
    /\ Sweeper \subseteq Flusher
    /\ FlushCalls \subseteq Sweeper
    /\ Closer \in Sweeper
BY DEF Flusher, Sweeper

-----------------------------------------------------------------------------
(* Types.                                                                  *)

\* Emptying a key under the lock keeps the types of the shard's maps.
LEMMA ClearKeyType ==
    ASSUME ShardType, NEW k \in Keys, ClearKey(k)
    PROVE  ShardType'
BY DEF ShardType, ClearKey

\* A flusher that is handed a set of batches has its types.
LEMMA StartFlushType ==
    ASSUME FlushType, NEW p \in Flusher, NEW S \in SUBSET Batches,
           StartFlush(p, S), flushQueue' \in Seq(SUBSET Batches)
    PROVE  FlushType'
<1>1. HoursIn(S) \subseteq Hours
  BY BufferConstants DEF HoursIn
<1> QED
  BY <1>1 DEF FlushType, StartFlush, FlushStates

\* Taking a key out of its buffer keeps the types.
LEMMA ExtractKeyType ==
    ASSUME ShardType, FlushType, NEW p \in Flusher, NEW k \in Keys,
           ExtractKey(p, k), UNCHANGED flushQueue
    PROVE  ShardType' /\ FlushType'
<1>1. buffers[k] \in SUBSET Batches
  BY DEF ShardType
<1>2. StartFlush(p, buffers[k]) /\ ClearKey(k)
  BY DEF ExtractKey
<1>3. flushQueue' \in Seq(SUBSET Batches)
  BY DEF FlushType
<1> QED
  BY <1>1, <1>2, <1>3, ClearKeyType, StartFlushType

\* Coming back from a flush keeps the types, whether it failed or not.
LEMMA FinishFlushType ==
    ASSUME FlushType, OutcomeType, NEW p \in Flusher, FinishFlush(p),
           UNCHANGED <<flushQueue, diskVars>>
    PROVE  FlushType' /\ OutcomeType'
<1>1. FlushType'
  BY DEF FlushType, FinishFlush, FlushStates
<1>2. OutcomeType'
  BY DEF FlushType, OutcomeType, FinishFlush, diskVars
<1> QED
  BY <1>1, <1>2

\* What nothing has touched keeps its type.
LEMMA UnchangedType ==
    /\ CallType /\ UNCHANGED callVars => CallType'
    /\ ShardType /\ UNCHANGED shardVars => ShardType'
    /\ FlushType /\ UNCHANGED <<flushQueue, flushVars>> => FlushType'
    /\ OutcomeType /\ UNCHANGED <<diskVars, lossVars>> => OutcomeType'
    /\ SweepType /\ UNCHANGED <<closing, ctxDone, sweepVars>> => SweepType'
BY DEF CallType, callVars, ShardType, shardVars, FlushType, flushVars,
       OutcomeType, diskVars, lossVars, SweepType, sweepVars

LEMMA TypeInit == Init => TypeOK
<1> SUFFICES ASSUME Init PROVE TypeOK
  OBVIOUS
<1>1. CallType
  BY BufferConstants DEF Init, CallType, PcStates
<1>2. ShardType
  BY DEF Init, ShardType
<1>3. FlushType
  BY DEF Init, FlushType, FlushStates
<1>4. OutcomeType
  BY DEF Init, OutcomeType
<1>5. SweepType
  BY DEF Init, SweepType, SweepStates
<1> QED
  BY <1>1, <1>2, <1>3, <1>4, <1>5 DEF TypeOK

-----------------------------------------------------------------------------
(* Each action keeps the types.                                            *)

LEMMA TypeWriteCall ==
    ASSUME TypeOK, NEW b \in Batches, WriteCall(b) \/ CancelWrite(b)
    PROVE  TypeOK'
<1> USE DEF TypeOK
<1>0. KeyOf[b] \in Keys /\ SigOf[b] \in Sigs /\ RowsOf[b] \in Nat /\ b \in Flusher
  BY BufferConstants, FlusherMembers
<1>1. CASE EvolveSchema(b)
  <2>1. CallType'
    BY <1>1, BufferConstants DEF EvolveSchema, CallType, PcStates
  <2>2. ShardType' /\ FlushType'
    BY <1>0, <1>1, ExtractKeyType DEF EvolveSchema
  <2> QED
    BY <1>1, <2>1, <2>2, UnchangedType DEF EvolveSchema
<1>2. CASE EvolveReturn(b)
  <2>1. CallType'
    BY <1>2 DEF EvolveReturn, CallType, PcStates
  <2>2. FlushType' /\ OutcomeType'
    BY <1>0, <1>2, FinishFlushType DEF EvolveReturn
  <2> QED
    BY <1>2, <2>1, <2>2, UnchangedType DEF EvolveReturn
<1>3. CASE ChurnExceeded(b) \/ CancelWrite(b)
  <2>1. CallType'
    BY <1>3 DEF ChurnExceeded, CancelWrite, CallType, PcStates
  <2> QED
    BY <1>3, <2>1, UnchangedType DEF ChurnExceeded, CancelWrite
<1>4. CASE AppendBatch(b)
  <2> DEFINE k == KeyOf[b]
             total == counts[k] + RowsOf[b]
  <2>1. CallType'
    BY <1>0, <1>4 DEF AppendBatch, CallType, ShardType, PcStates
  <2>2. ShardType'
    <3>1. CASE total >= MaxBufferSize
      <4>1. ClearKey(k)
        BY <1>4, <3>1 DEF AppendBatch
      <4> QED
        BY <1>0, <4>1, ClearKeyType
    <3>2. CASE ~(total >= MaxBufferSize)
      BY <1>0, <1>4, <3>2 DEF AppendBatch, ShardType
    <3> QED
      BY <3>1, <3>2
  <2> QED
    BY <1>4, <2>1, <2>2, UnchangedType DEF AppendBatch
<1>5. CASE CheckClosing(b)
  <2>1. CallType'
    BY <1>5 DEF CheckClosing, DropExtracted, CallType, PcStates
  <2>2. OutcomeType'
    BY <1>5 DEF CheckClosing, DropExtracted, CallType, OutcomeType, diskVars
  <2>3. UNCHANGED flushQueue
    BY <1>5 DEF CheckClosing, DropExtracted
  <2> QED
    BY <1>5, <2>1, <2>2, <2>3, UnchangedType DEF CheckClosing
<1>6. CASE SendFlush(b)
  <2>1. CallType'
    BY <1>6 DEF SendFlush, DropExtracted, CallType, PcStates
  <2>2. OutcomeType'
    BY <1>6 DEF SendFlush, DropExtracted, CallType, OutcomeType, diskVars
  <2>3. flushQueue' \in Seq(SUBSET Batches)
    <3>1. flushQueue' = flushQueue \/ flushQueue' = Append(flushQueue, extracted[b])
      BY <1>6 DEF SendFlush, DropExtracted
    <3>2. extracted[b] \in SUBSET Batches /\ flushQueue \in Seq(SUBSET Batches)
      BY DEF CallType, FlushType
    <3> QED
      BY <3>1, <3>2, AppendProperties
  <2>4. FlushType'
    BY <1>6, <2>3 DEF SendFlush, FlushType, flushVars
  <2> QED
    BY <1>6, <2>1, <2>2, <2>4, UnchangedType DEF SendFlush
<1> QED
  BY <1>1, <1>2, <1>3, <1>4, <1>5, <1>6 DEF WriteCall

LEMMA TypeFlushIO ==
    ASSUME TypeOK, NEW p \in Flusher, FlushIO(p)
    PROVE  TypeOK'
<1> USE DEF TypeOK
<1>1. CASE WriteHour(p)
  <2>1. FlushType'
    BY <1>1 DEF WriteHour, FlushType
  <2>2. OutcomeType'
    BY <1>1 DEF WriteHour, OutcomeType, lossVars
  <2> QED
    BY <1>1, <2>1, <2>2, UnchangedType DEF WriteHour
<1>2. CASE FlushError(p)
  <2>1. FlushType'
    BY <1>2 DEF FlushError, FlushType, FlushStates
  <2> QED
    BY <1>2, <2>1, UnchangedType DEF FlushError
<1>3. CASE RegisterFiles(p)
  <2>1. FlushType'
    BY <1>3 DEF RegisterFiles, FlushType, FlushStates
  <2>2. PiecesOf(flight[p]) \subseteq Pieces
    BY DEF FlushType, PiecesOf, Pieces
  <2>3. OutcomeType'
    BY <1>3, <2>2 DEF RegisterFiles, OutcomeType, lossVars
  <2> QED
    BY <1>3, <2>1, <2>3, UnchangedType DEF RegisterFiles
<1> QED
  BY <1>1, <1>2, <1>3 DEF FlushIO

LEMMA TypeBackground ==
    ASSUME TypeOK,
           \/ \E w \in Workers : WorkerTake(w)
           \/ \E k \in Keys : TickerTake(k)
           \/ \E p \in Workers \cup {Ticker} : Background(p)
           \/ ResetFlushFailure
    PROVE  TypeOK'
<1> USE FlusherMembers DEF TypeOK
<1>1. ASSUME NEW w \in Workers, WorkerTake(w) PROVE TypeOK'
  <2>1. Head(flushQueue) \in SUBSET Batches /\ flushQueue' \in Seq(SUBSET Batches)
    BY <1>1, HeadTailProperties DEF WorkerTake, FlushType
  <2>2. FlushType'
    BY <1>1, <2>1, StartFlushType DEF WorkerTake
  <2> QED
    BY <1>1, <2>2, UnchangedType DEF WorkerTake
<1>2. ASSUME NEW k \in Keys, TickerTake(k) PROVE TypeOK'
  <2>1. ShardType' /\ FlushType'
    BY <1>2, ExtractKeyType DEF TickerTake
  <2> QED
    BY <1>2, <2>1, UnchangedType DEF TickerTake
<1>3. ASSUME NEW p \in Workers \cup {Ticker}, Background(p) PROVE TypeOK'
  <2>0. p \in Flusher
    OBVIOUS
  <2>1. CASE BackgroundReturn(p)
    <3>1. FlushType' /\ OutcomeType'
      BY <2>0, <2>1, FinishFlushType DEF BackgroundReturn
    <3> QED
      BY <2>1, <3>1, UnchangedType DEF BackgroundReturn
  <2>2. CASE BackgroundExit(p)
    <3>1. FlushType'
      BY <2>0, <2>2 DEF BackgroundExit, FlushType, FlushStates
    <3> QED
      BY <2>2, <3>1, UnchangedType DEF BackgroundExit
  <2> QED
    BY <1>3, <2>1, <2>2 DEF Background
<1>4. CASE ResetFlushFailure
  <2>1. OutcomeType'
    BY <1>4 DEF ResetFlushFailure, OutcomeType, diskVars
  <2> QED
    BY <1>4, <2>1, UnchangedType DEF ResetFlushFailure
<1> QED
  BY <1>1, <1>2, <1>3, <1>4

LEMMA TypeSweep ==
    ASSUME TypeOK,
           \/ \E s \in FlushCalls : BeginFlushAll(s)
           \/ \E s \in Sweeper : SweepStep(s)
           \/ CloseStep
    PROVE  TypeOK'
<1> USE FlusherMembers DEF TypeOK
<1>1. ASSUME NEW s \in FlushCalls, BeginFlushAll(s) PROVE TypeOK'
  <2>1. SweepType'
    BY <1>1 DEF BeginFlushAll, SweepType, SweepStates, Accepted
  <2> QED
    BY <1>1, <2>1, UnchangedType DEF BeginFlushAll
<1>2. ASSUME NEW s \in Sweeper, SweepStep(s) PROVE TypeOK'
  <2>0. s \in Flusher
    OBVIOUS
  <2>1. CASE SweepShard(s)
    <3>1. SweepType'
      BY <2>1 DEF SweepShard, SweepType
    <3> QED
      BY <2>1, <3>1, UnchangedType DEF SweepShard
  <2>2. CASE SweepKey(s)
    <3>1. SweepType'
      BY <2>2 DEF SweepKey, SweepType
    <3>2. PICK k \in Keys : ExtractKey(s, k) \/ UNCHANGED <<shardVars, flushVars>>
      BY <2>2 DEF SweepKey, SweepType
    <3>3. ShardType' /\ FlushType'
      BY <2>0, <2>2, <3>2, ExtractKeyType, UnchangedType DEF SweepKey
    <3> QED
      BY <2>2, <3>1, <3>3, UnchangedType DEF SweepKey
  <2>3. CASE SweepReturn(s)
    <3>1. FlushType' /\ OutcomeType'
      BY <2>0, <2>3, FinishFlushType DEF SweepReturn
    <3>2. SweepType'
      BY <2>3 DEF SweepReturn, SweepType
    <3> QED
      BY <2>3, <3>1, <3>2, UnchangedType DEF SweepReturn
  <2>4. CASE SweepEnd(s)
    <3>1. SweepType'
      BY <2>4 DEF SweepEnd, SweepType, SweepStates
    <3> QED
      BY <2>4, <3>1, UnchangedType DEF SweepEnd
  <2> QED
    BY <1>2, <2>1, <2>2, <2>3, <2>4 DEF SweepStep
<1>3. CASE CloseStep
  <2>1. SweepType'
    BY <1>3, ZenonT(30) DEF CloseStep, CloseFlag, CloseCancel, CloseWait, SweepType,
                SweepStates, Accepted
  <2> QED
    BY <1>3, <2>1, UnchangedType
       DEF CloseStep, CloseFlag, CloseCancel, CloseWait
<1> QED
  BY <1>1, <1>2, <1>3

LEMMA TypeNext == TypeOK /\ [Next]_vars => TypeOK'
<1> SUFFICES ASSUME TypeOK, [Next]_vars PROVE TypeOK'
  OBVIOUS
<1>1. CASE Next
  BY <1>1, TypeWriteCall, TypeFlushIO, TypeBackground, TypeSweep DEF Next
<1>2. CASE UNCHANGED vars
  BY <1>2, UnchangedType DEF TypeOK, vars
<1> QED
  BY <1>1, <1>2

\* The variables of the buffer keep their types, whatever the numbers of
\* batches, keys, hours, workers and calls of FlushAll.
THEOREM TypeCorrect == Spec => []TypeOK
BY TypeInit, TypeNext, PTL DEF Spec

-----------------------------------------------------------------------------
(* One schema per flush.  The maps of a shard describe what the key holds, *)
(* so a set that leaves a buffer is uniform, and it stays the same set on  *)
(* its way through call, queue and flusher.                                *)

Uniform(S) == \A a, b \in S : KeyOf[a] = KeyOf[b] /\ SigOf[a] = SigOf[b]

BuffersDescribed ==
    \A k \in Keys : \A b \in buffers[k] :
        KeyOf[b] = k /\ schemas[k] = SigOf[b]

HandsUniform ==
    /\ \A b \in Batches : Uniform(extracted[b])
    /\ \A i \in 1..Len(flushQueue) : Uniform(flushQueue[i])
    /\ \A p \in Flusher : Uniform(flight[p])

SchemaInv == TypeOK /\ BuffersDescribed /\ HandsUniform

LEMMA BufferUniform ==
    ASSUME BuffersDescribed, NEW k \in Keys PROVE Uniform(buffers[k])
BY DEF BuffersDescribed, Uniform

\* The invariant implies the property.
LEMMA SchemaInvImplies == SchemaInv => OneSchemaPerFlush
<1> SUFFICES ASSUME SchemaInv, NEW S \in Groups PROVE Uniform(S)
  BY DEF OneSchemaPerFlush, Uniform
<1> QED
  BY BufferUniform DEF SchemaInv, HandsUniform, Groups

LEMMA SchemaInit == Init => SchemaInv
<1> SUFFICES ASSUME Init PROVE BuffersDescribed /\ HandsUniform
  BY TypeInit DEF SchemaInv
<1> QED
  BY DEF Init, BuffersDescribed, HandsUniform, Uniform

\* Emptying a key leaves the other keys described.
LEMMA ClearKeyDescribed ==
    ASSUME TypeOK, BuffersDescribed, NEW k \in Keys, ClearKey(k)
    PROVE  BuffersDescribed'
BY DEF TypeOK, ShardType, BuffersDescribed, ClearKey

\* A uniform set in a flusher's hands.
LEMMA StartFlushUniform ==
    ASSUME TypeOK, HandsUniform, NEW p \in Flusher, NEW S, Uniform(S),
           StartFlush(p, S)
    PROVE  \A r \in Flusher : Uniform(flight[r])'
BY DEF TypeOK, FlushType, HandsUniform, StartFlush, Uniform

LEMMA ExtractKeyUniform ==
    ASSUME SchemaInv, NEW p \in Flusher, NEW k \in Keys, ExtractKey(p, k),
           UNCHANGED <<extracted, flushQueue>>
    PROVE  BuffersDescribed' /\ HandsUniform'
<1>1. StartFlush(p, buffers[k]) /\ ClearKey(k)
  BY DEF ExtractKey
<1>2. BuffersDescribed'
  BY <1>1, ClearKeyDescribed DEF SchemaInv
<1>3. \A r \in Flusher : Uniform(flight[r])'
  BY <1>1, BufferUniform, StartFlushUniform DEF SchemaInv
<1> QED
  BY <1>2, <1>3 DEF SchemaInv, HandsUniform, Uniform

LEMMA FinishFlushUniform ==
    ASSUME SchemaInv, NEW p \in Flusher, FinishFlush(p),
           UNCHANGED <<shardVars, extracted, flushQueue>>
    PROVE  BuffersDescribed' /\ HandsUniform'
<1>1. BuffersDescribed'
  BY DEF SchemaInv, BuffersDescribed, shardVars
<1>2. \A r \in Flusher : Uniform(flight[r])'
  BY DEF SchemaInv, TypeOK, FlushType, HandsUniform, FinishFlush, Uniform
<1> QED
  BY <1>1, <1>2 DEF SchemaInv, HandsUniform, Uniform

\* What does not touch buffers or hands keeps the invariant.
LEMMA UnchangedUniform ==
    ASSUME SchemaInv, UNCHANGED <<shardVars, extracted, flushQueue, flight>>
    PROVE  BuffersDescribed' /\ HandsUniform'
BY DEF SchemaInv, BuffersDescribed, HandsUniform, Uniform, shardVars

LEMMA SchemaWriteCall ==
    ASSUME SchemaInv, NEW b \in Batches, WriteCall(b) \/ CancelWrite(b)
    PROVE  BuffersDescribed' /\ HandsUniform'
<1>0. KeyOf[b] \in Keys /\ SigOf[b] \in Sigs /\ RowsOf[b] \in Nat /\ b \in Flusher
  BY BufferConstants, FlusherMembers
<1>1. CASE EvolveSchema(b)
  BY <1>0, <1>1, ExtractKeyUniform DEF EvolveSchema
<1>2. CASE EvolveReturn(b)
  BY <1>0, <1>2, FinishFlushUniform DEF EvolveReturn
<1>3. CASE ChurnExceeded(b) \/ CancelWrite(b)
  BY <1>3, UnchangedUniform DEF ChurnExceeded, CancelWrite, flushVars
<1>4. CASE AppendBatch(b)
  <2> DEFINE k == KeyOf[b]
             total == counts[k] + RowsOf[b]
  <2>1. \A a \in buffers[k] : a \in Batches /\ KeyOf[a] = k /\ SigOf[a] = schemas[k]
    BY <1>0 DEF SchemaInv, TypeOK, ShardType, BuffersDescribed
  <2>2. buffers[k] # {} => schemas[k] = SigOf[b]
    BY <1>0, <1>4, <2>1, BufferConstants DEF AppendBatch, SchemaConflict
  <2>3. Uniform(buffers[k] \cup {b})
    BY <2>1, <2>2 DEF Uniform
  <2>4. UNCHANGED <<flushQueue, flight>>
    BY <1>4 DEF AppendBatch, flushVars
  <2>5. CASE total >= MaxBufferSize
    <3>1. ClearKey(k)
      BY <1>4, <2>5 DEF AppendBatch
    <3>2. BuffersDescribed'
      BY <1>0, <3>1, ClearKeyDescribed DEF SchemaInv
    <3>3. extracted' = [extracted EXCEPT ![b] = buffers[k] \cup {b}]
      BY <1>4, <2>5 DEF AppendBatch
    <3>4. \A c \in Batches : Uniform(extracted'[c])
      BY <2>3, <3>3 DEF SchemaInv, TypeOK, CallType, HandsUniform
    <3> QED
      BY <2>4, <3>2, <3>4 DEF SchemaInv, HandsUniform, Uniform
  <2>6. CASE ~(total >= MaxBufferSize)
    <3>1. /\ buffers' = [buffers EXCEPT ![k] = @ \cup {b}]
          /\ schemas' = [schemas EXCEPT ![k] = SigOf[b]]
          /\ UNCHANGED extracted
      BY <1>4, <2>6 DEF AppendBatch
    <3>2. BuffersDescribed'
      BY <1>0, <2>1, <2>2, <3>1
         DEF SchemaInv, TypeOK, ShardType, BuffersDescribed
    <3> QED
      BY <2>4, <3>1, <3>2 DEF SchemaInv, HandsUniform, Uniform
  <2> QED
    BY <2>5, <2>6
<1>5. CASE CheckClosing(b)
  <2>1. \A c \in Batches : extracted'[c] = extracted[c] \/ extracted'[c] = {}
    BY <1>5 DEF CheckClosing, DropExtracted, SchemaInv, TypeOK, CallType
  <2>2. UNCHANGED <<shardVars, flushQueue, flight>>
    BY <1>5 DEF CheckClosing, DropExtracted, flushVars
  <2> QED
    BY <2>1, <2>2 DEF SchemaInv, BuffersDescribed, HandsUniform, Uniform, shardVars
<1>6. CASE SendFlush(b)
  <2>1. \A c \in Batches : extracted'[c] = extracted[c] \/ extracted'[c] = {}
    BY <1>6 DEF SendFlush, DropExtracted, SchemaInv, TypeOK, CallType
  <2>2. UNCHANGED <<shardVars, flight>>
    BY <1>6 DEF SendFlush, flushVars
  <2>3. flushQueue \in Seq(SUBSET Batches) /\ extracted[b] \in SUBSET Batches
    BY DEF SchemaInv, TypeOK, CallType, FlushType
  <2>4. \A i \in 1..Len(flushQueue') : Uniform(flushQueue'[i])
    <3>1. CASE flushQueue' = flushQueue
      BY <3>1 DEF SchemaInv, HandsUniform
    <3>2. CASE flushQueue' = Append(flushQueue, extracted[b])
      BY <2>3, <3>2, AppendProperties DEF SchemaInv, HandsUniform
    <3> QED
      BY <1>6, <3>1, <3>2 DEF SendFlush, DropExtracted
  <2> QED
    BY <2>1, <2>2, <2>4 DEF SchemaInv, BuffersDescribed, HandsUniform, Uniform, shardVars
<1> QED
  BY <1>1, <1>2, <1>3, <1>4, <1>5, <1>6 DEF WriteCall

LEMMA SchemaFlushers ==
    ASSUME SchemaInv,
           \/ \E p \in Flusher : FlushIO(p)
           \/ \E w \in Workers : WorkerTake(w)
           \/ \E k \in Keys : TickerTake(k)
           \/ \E p \in Workers \cup {Ticker} : Background(p)
           \/ ResetFlushFailure
    PROVE  BuffersDescribed' /\ HandsUniform'
<1> USE FlusherMembers
<1>1. ASSUME NEW p \in Flusher, FlushIO(p) PROVE BuffersDescribed' /\ HandsUniform'
  BY <1>1, UnchangedUniform
     DEF FlushIO, WriteHour, FlushError, RegisterFiles, callVars
<1>2. ASSUME NEW w \in Workers, WorkerTake(w) PROVE BuffersDescribed' /\ HandsUniform'
  <2>1. /\ flushQueue \in Seq(SUBSET Batches) /\ flushQueue # <<>>
        /\ flushQueue' = Tail(flushQueue)
        /\ StartFlush(w, Head(flushQueue))
    BY <1>2 DEF WorkerTake, SchemaInv, TypeOK, FlushType
  <2>2. Head(flushQueue) = flushQueue[1] /\ 1 \in 1..Len(flushQueue)
    BY <2>1, HeadTailProperties
  <2>3. Uniform(Head(flushQueue))
    BY <2>2 DEF SchemaInv, HandsUniform
  <2>4. \A r \in Flusher : Uniform(flight'[r])
    BY <2>1, <2>3, StartFlushUniform DEF SchemaInv, Uniform
  <2>5. \A i \in 1..Len(flushQueue') : Uniform(flushQueue'[i])
    BY <2>1, HeadTailProperties DEF SchemaInv, HandsUniform
  <2>6. UNCHANGED <<shardVars, extracted>>
    BY <1>2 DEF WorkerTake, callVars
  <2> QED
    BY <2>4, <2>5, <2>6 DEF SchemaInv, BuffersDescribed, HandsUniform, Uniform, shardVars
<1>3. ASSUME NEW k \in Keys, TickerTake(k) PROVE BuffersDescribed' /\ HandsUniform'
  BY <1>3, ExtractKeyUniform DEF TickerTake, callVars
<1>4. ASSUME NEW p \in Workers \cup {Ticker}, Background(p)
      PROVE  BuffersDescribed' /\ HandsUniform'
  <2>1. CASE BackgroundReturn(p)
    BY <2>1, FinishFlushUniform DEF BackgroundReturn, callVars
  <2>2. CASE BackgroundExit(p)
    BY <2>2, UnchangedUniform DEF BackgroundExit, callVars
  <2> QED
    BY <1>4, <2>1, <2>2 DEF Background
<1>5. CASE ResetFlushFailure
  BY <1>5, UnchangedUniform DEF ResetFlushFailure, callVars, flushVars
<1> QED
  BY <1>1, <1>2, <1>3, <1>4, <1>5

LEMMA SchemaSweep ==
    ASSUME SchemaInv,
           \/ \E s \in FlushCalls : BeginFlushAll(s)
           \/ \E s \in Sweeper : SweepStep(s)
           \/ CloseStep
    PROVE  BuffersDescribed' /\ HandsUniform'
<1> USE FlusherMembers
<1>1. ASSUME NEW s \in FlushCalls, BeginFlushAll(s)
      PROVE  BuffersDescribed' /\ HandsUniform'
  BY <1>1, UnchangedUniform DEF BeginFlushAll, callVars, flushVars
<1>2. ASSUME NEW s \in Sweeper, SweepStep(s)
      PROVE  BuffersDescribed' /\ HandsUniform'
  <2>1. CASE SweepShard(s) \/ SweepEnd(s)
    BY <2>1, UnchangedUniform DEF SweepShard, SweepEnd, callVars, flushVars
  <2>2. CASE SweepKey(s)
    <3>1. PICK k \in Keys : ExtractKey(s, k) \/ UNCHANGED <<shardVars, flushVars>>
      BY <2>2 DEF SweepKey, SchemaInv, TypeOK, SweepType
    <3> QED
      BY <2>2, <3>1, ExtractKeyUniform, UnchangedUniform
         DEF SweepKey, callVars, flushVars
  <2>3. CASE SweepReturn(s)
    BY <2>3, FinishFlushUniform DEF SweepReturn, callVars
  <2> QED
    BY <1>2, <2>1, <2>2, <2>3 DEF SweepStep
<1>3. CASE CloseStep
  BY <1>3, UnchangedUniform
     DEF CloseStep, CloseFlag, CloseCancel, CloseWait, callVars, flushVars
<1> QED
  BY <1>1, <1>2, <1>3

LEMMA SchemaNext == SchemaInv /\ [Next]_vars => SchemaInv'
<1> SUFFICES ASSUME SchemaInv, [Next]_vars PROVE BuffersDescribed' /\ HandsUniform'
  BY TypeNext DEF SchemaInv
<1>1. CASE Next
  BY <1>1, SchemaWriteCall, SchemaFlushers, SchemaSweep DEF Next
<1>2. CASE UNCHANGED vars
  BY <1>2, UnchangedUniform DEF vars, callVars, flushVars
<1> QED
  BY <1>1, <1>2

\* Whoever flushes, and however writers with other schemas interleave with
\* the unlocked I/O of the evolution loop, the batches merged into one flush
\* have one key and one signature.
THEOREM OneSchemaCorrect == Spec => []OneSchemaPerFlush
<1>1. Spec => []SchemaInv
  BY SchemaInit, SchemaNext, PTL DEF Spec
<1> QED
  BY <1>1, SchemaInvImplies, PTL

-----------------------------------------------------------------------------
(* Registration follows the last write of a flush.                         *)

HoursWritten ==
    \A p \in Flusher : fstate[p] = "io" =>
        \A q \in PiecesOf(flight[p]) : q[2] \notin todoHours[p] => stored[q] >= 1

RegisteredInv == TypeOK /\ HoursWritten /\ RegisteredComplete

LEMMA RegisteredInit == Init => RegisteredInv
<1> SUFFICES ASSUME Init PROVE HoursWritten /\ RegisteredComplete
  BY TypeInit DEF RegisteredInv
<1> QED
  BY DEF Init, HoursWritten, RegisteredComplete

\* A flush begins with every hour of its batches still to be written.
LEMMA StartFlushWritten ==
    ASSUME RegisteredInv, NEW p \in Flusher, NEW S \in SUBSET Batches,
           StartFlush(p, S), UNCHANGED diskVars
    PROVE  HoursWritten' /\ RegisteredComplete'
<1>1. \A q \in PiecesOf(S) : q[2] \in HoursIn(S)
  BY DEF PiecesOf, HoursIn
<1>2. HoursWritten'
  <2> SUFFICES ASSUME NEW r \in Flusher, fstate'[r] = "io",
                      NEW q \in PiecesOf(flight'[r]), q[2] \notin todoHours'[r]
               PROVE  stored'[q] >= 1
    BY DEF HoursWritten, PiecesOf
  <2>1. CASE r = p
    BY <1>1, <2>1 DEF StartFlush, RegisteredInv, TypeOK, FlushType
  <2>2. CASE r # p
    BY <2>2 DEF StartFlush, RegisteredInv, TypeOK, FlushType, HoursWritten, diskVars
  <2> QED
    BY <2>1, <2>2
<1>3. RegisteredComplete'
  BY DEF RegisteredInv, RegisteredComplete, PiecesOf, diskVars
<1> QED
  BY <1>2, <1>3

LEMMA ExtractKeyWritten ==
    ASSUME RegisteredInv, NEW p \in Flusher, NEW k \in Keys, ExtractKey(p, k),
           UNCHANGED diskVars
    PROVE  HoursWritten' /\ RegisteredComplete'
<1>1. buffers[k] \in SUBSET Batches /\ StartFlush(p, buffers[k])
  BY DEF ExtractKey, RegisteredInv, TypeOK, ShardType
<1> QED
  BY <1>1, StartFlushWritten

LEMMA FinishFlushWritten ==
    ASSUME RegisteredInv, NEW p \in Flusher, FinishFlush(p), UNCHANGED diskVars
    PROVE  HoursWritten' /\ RegisteredComplete'
<1>1. HoursWritten'
  <2> SUFFICES ASSUME NEW r \in Flusher, fstate'[r] = "io",
                      NEW q \in PiecesOf(flight'[r]), q[2] \notin todoHours'[r]
               PROVE  stored'[q] >= 1
    BY DEF HoursWritten, PiecesOf
  <2>1. r # p
    BY DEF FinishFlush, RegisteredInv, TypeOK, FlushType
  <2> QED
    BY <2>1 DEF FinishFlush, RegisteredInv, TypeOK, FlushType, HoursWritten, diskVars
<1>2. RegisteredComplete'
  BY DEF RegisteredInv, RegisteredComplete, PiecesOf, diskVars
<1> QED
  BY <1>1, <1>2

LEMMA UnchangedWritten ==
    ASSUME RegisteredInv, UNCHANGED <<flushVars, diskVars>>
    PROVE  HoursWritten' /\ RegisteredComplete'
BY DEF RegisteredInv, HoursWritten, RegisteredComplete, PiecesOf, diskVars, flushVars

LEMMA RegisteredFlushIO ==
    ASSUME RegisteredInv, NEW p \in Flusher, FlushIO(p)
    PROVE  HoursWritten' /\ RegisteredComplete'
<1> USE DEF RegisteredInv, TypeOK
<1>1. CASE WriteHour(p)
  <2>1. PICK h \in todoHours[p] :
          /\ stored' = [q \in Pieces |->
                IF q \in PiecesOf(flight[p]) /\ q[2] = h
                THEN stored[q] + 1 ELSE stored[q]]
          /\ todoHours' = [todoHours EXCEPT ![p] = @ \ {h}]
    BY <1>1 DEF WriteHour
  <2>2. UNCHANGED <<fstate, flight, registered>>
    BY <1>1 DEF WriteHour
  <2>3. \A r \in Flusher : PiecesOf(flight[r]) \subseteq Pieces
    BY DEF FlushType, PiecesOf, Pieces
  <2>4. \A q \in Pieces : /\ stored'[q] >= stored[q]
                          /\ q \in PiecesOf(flight[p]) /\ q[2] = h => stored'[q] >= 1
    BY <2>1 DEF OutcomeType
  <2>5. \A q \in Pieces : stored[q] \in Nat /\ stored'[q] \in Nat
    BY <2>1 DEF OutcomeType
  <2>6. HoursWritten'
    <3> SUFFICES ASSUME NEW r \in Flusher, fstate[r] = "io",
                        NEW q \in PiecesOf(flight[r]), q[2] \notin todoHours'[r]
                 PROVE  stored'[q] >= 1
      BY <2>2 DEF HoursWritten, PiecesOf
    <3>1. q \in Pieces
      BY <2>3
    <3>2. CASE r = p /\ q[2] = h
      BY <3>1, <3>2, <2>4
    <3>3. CASE ~(r = p /\ q[2] = h)
      <4>1. q[2] \notin todoHours[r]
        BY <2>1, <3>3 DEF FlushType
      <4>2. stored[q] >= 1
        BY <4>1 DEF HoursWritten
      <4> QED
        BY <2>4, <2>5, <3>1, <4>2
    <3> QED
      BY <3>2, <3>3
  <2>7. RegisteredComplete'
    <3> SUFFICES ASSUME NEW q \in registered, NEW r \in PiecesOf({q[1]})
                 PROVE  r \in registered /\ stored'[r] >= 1
      BY <2>2 DEF RegisteredComplete, PiecesOf
    <3>1. r \in registered /\ stored[r] >= 1 /\ r \in Pieces
      BY DEF RegisteredComplete, OutcomeType
    <3> QED
      BY <2>4, <2>5, <3>1
  <2> QED
    BY <2>6, <2>7
<1>2. CASE FlushError(p)
  <2>1. HoursWritten'
    <3> SUFFICES ASSUME NEW r \in Flusher, fstate'[r] = "io",
                        NEW q \in PiecesOf(flight[r]), q[2] \notin todoHours'[r]
                 PROVE  stored[q] >= 1
      BY <1>2 DEF FlushError, diskVars, HoursWritten, PiecesOf
    <3>1. r # p
      BY <1>2 DEF FlushError, FlushType
    <3> QED
      BY <1>2, <3>1 DEF FlushError, FlushType, HoursWritten
  <2>2. RegisteredComplete'
    BY <1>2 DEF FlushError, diskVars, RegisteredComplete, PiecesOf
  <2> QED
    BY <2>1, <2>2
<1>3. CASE RegisterFiles(p)
  <2>1. HoursWritten'
    <3> SUFFICES ASSUME NEW r \in Flusher, fstate'[r] = "io",
                        NEW q \in PiecesOf(flight[r]), q[2] \notin todoHours[r]
                 PROVE  stored[q] >= 1
      BY <1>3 DEF RegisterFiles, HoursWritten, PiecesOf
    <3>1. fstate[r] = "io"
      BY <1>3 DEF RegisterFiles, FlushType
    <3> QED
      BY <3>1 DEF HoursWritten
  <2>2. RegisteredComplete'
    <3> SUFFICES ASSUME NEW q \in registered', NEW r \in PiecesOf({q[1]})
                 PROVE  r \in registered' /\ stored[r] >= 1
      BY <1>3 DEF RegisterFiles, RegisteredComplete, PiecesOf
    <3>0. registered' = registered \cup PiecesOf(flight[p])
      BY <1>3 DEF RegisterFiles
    <3>1. CASE q \in registered
      BY <3>0, <3>1 DEF RegisteredComplete
    <3>2. CASE q \in PiecesOf(flight[p])
      <4>1. r \in PiecesOf(flight[p])
        BY <3>2 DEF PiecesOf
      <4>2. fstate[p] = "io" /\ r[2] \notin todoHours[p]
        BY <1>3 DEF RegisterFiles
      <4> QED
        BY <3>0, <4>1, <4>2 DEF HoursWritten
    <3> QED
      BY <3>0, <3>1, <3>2
  <2> QED
    BY <2>1, <2>2
<1> QED
  BY <1>1, <1>2, <1>3 DEF FlushIO

LEMMA RegisteredNext == RegisteredInv /\ [Next]_vars => RegisteredInv'
<1> SUFFICES ASSUME RegisteredInv, [Next]_vars
             PROVE  HoursWritten' /\ RegisteredComplete'
  BY TypeNext DEF RegisteredInv
<1> USE FlusherMembers
<1>0. \A b \in Batches : KeyOf[b] \in Keys
  BY BufferConstants
<1>1. ASSUME NEW b \in Batches, WriteCall(b) \/ CancelWrite(b)
      PROVE  HoursWritten' /\ RegisteredComplete'
  <2>1. CASE EvolveSchema(b)
    BY <1>0, <2>1, ExtractKeyWritten DEF EvolveSchema
  <2>2. CASE EvolveReturn(b)
    BY <2>2, FinishFlushWritten DEF EvolveReturn
  <2>3. CASE ChurnExceeded(b) \/ CancelWrite(b)
    BY <2>3, UnchangedWritten DEF ChurnExceeded, CancelWrite
  <2>4. CASE AppendBatch(b)
    BY <2>4, UnchangedWritten DEF AppendBatch
  <2>5. CASE CheckClosing(b)
    BY <2>5, UnchangedWritten DEF CheckClosing
  <2>6. CASE SendFlush(b)
    BY <2>6, UnchangedWritten DEF SendFlush
  <2> QED
    BY <1>1, <2>1, <2>2, <2>3, <2>4, <2>5, <2>6 DEF WriteCall
<1>2. ASSUME NEW p \in Flusher, FlushIO(p)
      PROVE  HoursWritten' /\ RegisteredComplete'
  BY <1>2, RegisteredFlushIO
<1>3. ASSUME NEW w \in Workers, WorkerTake(w)
      PROVE  HoursWritten' /\ RegisteredComplete'
  <2>1. Head(flushQueue) \in SUBSET Batches
    BY <1>3, HeadTailProperties DEF WorkerTake, RegisteredInv, TypeOK, FlushType
  <2> QED
    BY <1>3, <2>1, StartFlushWritten DEF WorkerTake
<1>4. ASSUME NEW k \in Keys, TickerTake(k)
      PROVE  HoursWritten' /\ RegisteredComplete'
  BY <1>4, ExtractKeyWritten DEF TickerTake
<1>5. ASSUME NEW p \in Workers \cup {Ticker}, Background(p)
      PROVE  HoursWritten' /\ RegisteredComplete'
  <2>1. CASE BackgroundReturn(p)
    BY <2>1, FinishFlushWritten DEF BackgroundReturn
  <2>2. CASE BackgroundExit(p)
    <3>1. \A r \in Flusher : fstate'[r] = "io" => fstate[r] = "io"
      BY <2>2 DEF BackgroundExit, RegisteredInv, TypeOK, FlushType
    <3> QED
      BY <2>2, <3>1 DEF BackgroundExit, RegisteredInv, HoursWritten,
                        RegisteredComplete, PiecesOf, diskVars
  <2> QED
    BY <1>5, <2>1, <2>2 DEF Background
<1>6. ASSUME NEW s \in Sweeper, SweepStep(s)
      PROVE  HoursWritten' /\ RegisteredComplete'
  <2>1. CASE SweepShard(s) \/ SweepEnd(s)
    BY <2>1, UnchangedWritten DEF SweepShard, SweepEnd
  <2>2. CASE SweepKey(s)
    <3>1. PICK k \in Keys : ExtractKey(s, k) \/ UNCHANGED <<shardVars, flushVars>>
      BY <2>2 DEF SweepKey, RegisteredInv, TypeOK, SweepType
    <3> QED
      BY <2>2, <3>1, ExtractKeyWritten, UnchangedWritten DEF SweepKey
  <2>3. CASE SweepReturn(s)
    BY <2>3, FinishFlushWritten DEF SweepReturn
  <2> QED
    BY <1>6, <2>1, <2>2, <2>3 DEF SweepStep
<1>7. CASE ResetFlushFailure \/ CloseStep \/ \E s \in FlushCalls : BeginFlushAll(s)
  BY <1>7, UnchangedWritten
     DEF ResetFlushFailure, CloseStep, CloseFlag, CloseCancel, CloseWait,
         BeginFlushAll
<1>8. CASE UNCHANGED vars
  BY <1>8, UnchangedWritten DEF vars
<1> QED
  BY <1>1, <1>2, <1>3, <1>4, <1>5, <1>6, <1>7, <1>8 DEF Next

\* Nothing is announced to tiering and manifest before every hour of the
\* flush is in object storage, wherever a flush of several hours fails.
THEOREM RegisteredCorrect == Spec => []RegisteredComplete
<1>1. Spec => []RegisteredInv
  BY RegisteredInit, RegisteredNext, PTL DEF Spec
<1> QED
  BY <1>1, PTL DEF RegisteredInv

-----------------------------------------------------------------------------
(* A sweep leaves behind none of the batches accepted before it.  An        *)
(* accepted batch never comes back to a buffer, so a key that the sweep has *)
(* done, or found empty, stays free of them.                                *)

AskedAccepted == \A s \in Sweeper : asked[s] \subseteq Accepted

SweptKeysFree ==
    \A s \in Sweeper : sweep[s] \in {"sweep", "done"} =>
        \A k \in Keys : ShardOf[k] \notin shardsLeft[s] /\ k \notin keysLeft[s] =>
            asked[s] \cap buffers[k] = {}

DoneIsComplete ==
    \A s \in Sweeper : sweep[s] = "done" => shardsLeft[s] = {} /\ keysLeft[s] = {}

SweepInv == TypeOK /\ AskedAccepted /\ SweptKeysFree /\ DoneIsComplete

\* The invariant implies the property.
LEMMA SweepInvImplies == SweepInv => SweepEmptiesBuffers
BY DEF SweepInv, SweptKeysFree, DoneIsComplete, SweepEmptiesBuffers

LEMMA SweepInit == Init => SweepInv
<1> SUFFICES ASSUME Init PROVE AskedAccepted /\ SweptKeysFree /\ DoneIsComplete
  BY TypeInit DEF SweepInv
<1> QED
  BY DEF Init, AskedAccepted, SweptKeysFree, DoneIsComplete

\* Steps that take no part in a sweep: they add to a buffer at most batches
\* whose call had not been accepted, and they undo no acceptance.
LEMMA OtherSteps ==
    ASSUME SweepInv, UNCHANGED sweepVars, Accepted \subseteq Accepted',
           \A k \in Keys : buffers'[k] \cap Accepted \subseteq buffers[k]
    PROVE  AskedAccepted' /\ SweptKeysFree' /\ DoneIsComplete'
<1>1. AskedAccepted' /\ DoneIsComplete'
  BY DEF SweepInv, AskedAccepted, DoneIsComplete, sweepVars
<1>2. SweptKeysFree'
  <2> SUFFICES ASSUME NEW s \in Sweeper, sweep[s] \in {"sweep", "done"},
                      NEW k \in Keys, ShardOf[k] \notin shardsLeft[s],
                      k \notin keysLeft[s]
               PROVE  asked[s] \cap buffers'[k] = {}
    BY DEF SweptKeysFree, sweepVars
  <2>1. asked[s] \cap buffers[k] = {} /\ asked[s] \subseteq Accepted
    BY DEF SweepInv, SweptKeysFree, AskedAccepted
  <2> QED
    BY <2>1
<1> QED
  BY <1>1, <1>2

LEMMA ClearKeySubset ==
    ASSUME SweepInv, NEW k \in Keys, ClearKey(k)
    PROVE  buffers'[k] = {} /\ \A j \in Keys : buffers'[j] \subseteq buffers[j]
BY DEF SweepInv, TypeOK, ShardType, ClearKey

LEMMA SweepWriteCall ==
    ASSUME SweepInv, NEW b \in Batches, WriteCall(b) \/ CancelWrite(b)
    PROVE  AskedAccepted' /\ SweptKeysFree' /\ DoneIsComplete'
<1> USE DEF SweepInv, TypeOK
<1>0. KeyOf[b] \in Keys
  BY BufferConstants
<1>1. pc[b] # "accepted" /\ \A c \in Batches : c # b => pc'[c] = pc[c]
  BY DEF WriteCall, CancelWrite, EvolveSchema, EvolveReturn, ChurnExceeded,
         AppendBatch, CheckClosing, SendFlush, DropExtracted, CallType
<1>2. Accepted \subseteq Accepted'
  BY <1>1 DEF Accepted
<1>3. UNCHANGED sweepVars
  BY DEF WriteCall, CancelWrite, EvolveSchema, EvolveReturn, ChurnExceeded,
         AppendBatch, CheckClosing, SendFlush
<1>4. \A k \in Keys : buffers'[k] \cap Accepted \subseteq buffers[k]
  <2>1. CASE EvolveSchema(b)
    BY <1>0, <2>1, ClearKeySubset DEF EvolveSchema, ExtractKey
  <2>2. CASE AppendBatch(b)
    <3>1. \/ ClearKey(KeyOf[b])
          \/ buffers' = [buffers EXCEPT ![KeyOf[b]] = @ \cup {b}]
      BY <2>2 DEF AppendBatch
    <3>2. CASE ClearKey(KeyOf[b])
      BY <1>0, <3>2, ClearKeySubset
    <3>3. CASE buffers' = [buffers EXCEPT ![KeyOf[b]] = @ \cup {b}]
      BY <1>1, <3>3 DEF Accepted, ShardType
    <3> QED
      BY <3>1, <3>2, <3>3
  <2>3. CASE UNCHANGED buffers
    BY <2>3
  <2> QED
    BY <2>1, <2>2, <2>3
       DEF WriteCall, CancelWrite, EvolveReturn, ChurnExceeded, CheckClosing,
           SendFlush, shardVars
<1> QED
  BY <1>2, <1>3, <1>4, OtherSteps

LEMMA SweepBackground ==
    ASSUME SweepInv,
           \/ \E p \in Flusher : FlushIO(p)
           \/ \E w \in Workers : WorkerTake(w)
           \/ \E k \in Keys : TickerTake(k)
           \/ \E p \in Workers \cup {Ticker} : Background(p)
           \/ ResetFlushFailure
    PROVE  AskedAccepted' /\ SweptKeysFree' /\ DoneIsComplete'
<1>1. UNCHANGED <<sweepVars, pc>>
  BY DEF FlushIO, WriteHour, FlushError, RegisterFiles, WorkerTake, TickerTake,
         Background, BackgroundReturn, BackgroundExit, ResetFlushFailure, callVars
<1>2. \A k \in Keys : buffers'[k] \cap Accepted \subseteq buffers[k]
  <2>1. ASSUME NEW k \in Keys, TickerTake(k)
        PROVE  \A j \in Keys : buffers'[j] \subseteq buffers[j]
    BY <2>1, ClearKeySubset DEF TickerTake, ExtractKey
  <2>2. (\E k \in Keys : TickerTake(k)) \/ UNCHANGED buffers
    BY DEF FlushIO, WriteHour, FlushError, RegisterFiles, WorkerTake,
           Background, BackgroundReturn, BackgroundExit, ResetFlushFailure, shardVars
  <2> QED
    BY <2>1, <2>2
<1> QED
  BY <1>1, <1>2, OtherSteps DEF Accepted

LEMMA SweepProper ==
    ASSUME SweepInv, NEW s \in Sweeper, SweepStep(s)
    PROVE  AskedAccepted' /\ SweptKeysFree' /\ DoneIsComplete'
<1> USE DEF SweepInv, TypeOK
<1>0. UNCHANGED <<asked, pc>>
  BY DEF SweepStep, SweepShard, SweepKey, SweepReturn, SweepEnd, callVars
<1>1. AskedAccepted'
  BY <1>0 DEF AskedAccepted, Accepted
<1>2. CASE SweepShard(s)
  <2>1. PICK d \in shardsLeft[s] :
          /\ shardsLeft' = [shardsLeft EXCEPT ![s] = @ \ {d}]
          /\ keysLeft' = [keysLeft EXCEPT ![s] =
                {k \in Keys : ShardOf[k] = d /\ buffers[k] # {}}]
    BY <1>2 DEF SweepShard
  <2>2. sweep[s] = "sweep" /\ keysLeft[s] = {} /\ UNCHANGED <<sweep, buffers>>
    BY <1>2 DEF SweepShard, shardVars
  <2>3. DoneIsComplete'
    BY <2>1, <2>2 DEF DoneIsComplete, SweepType
  <2>4. SweptKeysFree'
    <3> SUFFICES ASSUME NEW t \in Sweeper, sweep[t] \in {"sweep", "done"},
                        NEW k \in Keys, ShardOf[k] \notin shardsLeft'[t],
                        k \notin keysLeft'[t]
                 PROVE  asked[t] \cap buffers[k] = {}
      BY <1>0, <2>2 DEF SweptKeysFree
    <3>1. CASE t # s
      BY <2>1, <3>1 DEF SweptKeysFree, SweepType
    <3>2. CASE t = s /\ ShardOf[k] = d
      BY <2>1, <3>2 DEF SweepType
    <3>3. CASE t = s /\ ShardOf[k] # d
      BY <2>1, <2>2, <3>3 DEF SweptKeysFree, SweepType
    <3> QED
      BY <3>1, <3>2, <3>3
  <2> QED
    BY <1>1, <2>3, <2>4
<1>3. CASE SweepKey(s)
  <2>1. PICK k \in keysLeft[s] :
          /\ keysLeft' = [keysLeft EXCEPT ![s] = @ \ {k}]
          /\ \/ ExtractKey(s, k)
             \/ buffers[k] = {} /\ UNCHANGED <<shardVars, flushVars>>
    BY <1>3 DEF SweepKey
  <2>2. sweep[s] = "sweep" /\ UNCHANGED <<sweep, shardsLeft>>
    BY <1>3 DEF SweepKey
  <2>3. k \in Keys
    BY <2>1 DEF SweepType
  <2>4. buffers'[k] = {} /\ \A j \in Keys : buffers'[j] \subseteq buffers[j]
    BY <2>1, <2>3, ClearKeySubset DEF ExtractKey, shardVars
  <2>5. DoneIsComplete'
    BY <2>1, <2>2 DEF DoneIsComplete, SweepType
  <2>6. SweptKeysFree'
    <3> SUFFICES ASSUME NEW t \in Sweeper, sweep[t] \in {"sweep", "done"},
                        NEW j \in Keys, ShardOf[j] \notin shardsLeft[t],
                        j \notin keysLeft'[t]
                 PROVE  asked[t] \cap buffers'[j] = {}
      BY <1>0, <2>2 DEF SweptKeysFree
    <3>1. CASE j = k
      BY <2>4, <3>1
    <3>2. CASE j # k
      <4>1. j \notin keysLeft[t]
        BY <2>1, <3>2 DEF SweepType
      <4> QED
        BY <2>4, <4>1 DEF SweptKeysFree
    <3> QED
      BY <3>1, <3>2
  <2> QED
    BY <1>1, <2>5, <2>6
<1>4. CASE SweepReturn(s)
  BY <1>0, <1>1, <1>4
     DEF SweepReturn, SweptKeysFree, DoneIsComplete, shardVars
<1>5. CASE SweepEnd(s)
  <2>1. /\ shardsLeft[s] = {} /\ keysLeft[s] = {} /\ sweep[s] = "sweep"
        /\ sweep' = [sweep EXCEPT ![s] = "done"]
        /\ UNCHANGED <<shardsLeft, keysLeft, buffers>>
    BY <1>5 DEF SweepEnd, shardVars
  <2>2. DoneIsComplete'
    BY <2>1 DEF DoneIsComplete, SweepType
  <2>3. SweptKeysFree'
    BY <1>0, <2>1 DEF SweptKeysFree, SweepType
  <2> QED
    BY <1>1, <2>2, <2>3
<1> QED
  BY <1>2, <1>3, <1>4, <1>5 DEF SweepStep

LEMMA SweepBegins ==
    ASSUME SweepInv,
           CloseStep \/ \E s \in FlushCalls : BeginFlushAll(s)
    PROVE  AskedAccepted' /\ SweptKeysFree' /\ DoneIsComplete'
<1> USE BufferConstants, FlusherMembers DEF SweepInv, TypeOK
<1>1. PICK s \in Sweeper :
        /\ sweep[s] \notin {"sweep", "done"}
        /\ asked' = asked \/ asked' = [asked EXCEPT ![s] = Accepted]
        /\ \/ /\ sweep' = [sweep EXCEPT ![s] = "sweep"]
              /\ shardsLeft' = [shardsLeft EXCEPT ![s] = Shards]
           \/ /\ \E v \in {"cancel", "wait"} : sweep' = [sweep EXCEPT ![s] = v]
              /\ UNCHANGED shardsLeft
        /\ UNCHANGED <<keysLeft, buffers, pc>>
  <2>1. ASSUME NEW s \in FlushCalls, BeginFlushAll(s) PROVE
          /\ sweep[s] \notin {"sweep", "done"}
          /\ asked' = [asked EXCEPT ![s] = Accepted]
          /\ sweep' = [sweep EXCEPT ![s] = "sweep"]
          /\ shardsLeft' = [shardsLeft EXCEPT ![s] = Shards]
          /\ UNCHANGED <<keysLeft, buffers, pc>>
    BY <2>1 DEF BeginFlushAll, callVars, shardVars
  <2>2. CASE CloseFlag
    BY <2>2 DEF CloseFlag, callVars, shardVars
  <2>3. CASE CloseCancel
    BY <2>3 DEF CloseCancel, callVars, shardVars
  <2>4. CASE CloseWait
    BY <2>4 DEF CloseWait, callVars, shardVars
  <2> QED
    BY <2>1, <2>2, <2>3, <2>4 DEF CloseStep
<1>2. AskedAccepted'
  BY <1>1 DEF AskedAccepted, Accepted, SweepType
<1>3. DoneIsComplete'
  BY <1>1 DEF DoneIsComplete, SweepType
<1>4. SweptKeysFree'
  <2> SUFFICES ASSUME NEW t \in Sweeper, sweep'[t] \in {"sweep", "done"},
                      NEW k \in Keys, ShardOf[k] \notin shardsLeft'[t],
                      k \notin keysLeft[t]
               PROVE  asked'[t] \cap buffers[k] = {}
    BY <1>1 DEF SweptKeysFree
  <2>1. ShardOf[k] \in Shards
    OBVIOUS
  <2>2. t # s
    BY <1>1, <2>1 DEF SweepType
  <2> QED
    BY <1>1, <2>2 DEF SweptKeysFree, SweepType
<1> QED
  BY <1>2, <1>3, <1>4

LEMMA SweepNext == SweepInv /\ [Next]_vars => SweepInv'
<1> SUFFICES ASSUME SweepInv, [Next]_vars
             PROVE  AskedAccepted' /\ SweptKeysFree' /\ DoneIsComplete'
  BY TypeNext DEF SweepInv
<1>1. CASE Next
  BY <1>1, SweepWriteCall, SweepBackground, SweepProper, SweepBegins DEF Next
<1>2. CASE UNCHANGED vars
  BY <1>2, OtherSteps DEF vars, callVars, shardVars, Accepted
<1> QED
  BY <1>1, <1>2

\* When FlushAll or Close has ended, nothing accepted before it began is
\* left in a buffer, however many shards and keys there are and whatever
\* writers, workers and failing flushes do during the unlocked I/O.
THEOREM SweepCorrect == Spec => []SweepEmptiesBuffers
<1>1. Spec => []SweepInv
  BY SweepInit, SweepNext, PTL DEF Spec
<1> QED
  BY <1>1, SweepInvImplies, PTL

-----------------------------------------------------------------------------
(* Every appended batch is held exactly once.                              *)

\* The four kinds of place a batch can be in.
InBuffer(b) == \E k \in Keys : b \in buffers[k]
InCall(b)   == \E c \in Batches : b \in extracted[c]
InQueue(b)  == \E i \in 1..Len(flushQueue) : b \in flushQueue[i]
InFlight(b) == \E p \in Carrying : b \in flight[p]

\* No batch is in two kinds of place, or in one and ended, or ended twice.
OneKind ==
    \A b \in Batches :
        /\ InBuffer(b) => ~InCall(b) /\ ~InQueue(b) /\ ~InFlight(b)
        /\ InCall(b) => ~InQueue(b) /\ ~InFlight(b)
        /\ InQueue(b) => ~InFlight(b)
        /\ InBuffer(b) \/ InCall(b) \/ InQueue(b) \/ InFlight(b) =>
              b \notin Durable /\ b \notin failed /\ b \notin dropped
        /\ b \in Durable => b \notin failed /\ b \notin dropped
        /\ b \in failed => b \notin dropped

\* No two places of a kind hold the same batch.
OneOfKind ==
    /\ \A k \in Keys : \A b \in buffers[k] : KeyOf[b] = k
    /\ \A c, d \in Batches : c # d => extracted[c] \cap extracted[d] = {}
    /\ \A i, j \in 1..Len(flushQueue) : i # j => flushQueue[i] \cap flushQueue[j] = {}
    /\ \A p, r \in Carrying : p # r => flight[p] \cap flight[r] = {}

\* The batches that are somewhere are those that were appended.
AppendedSomewhere ==
    \A b \in Batches : b \in Appended <=>
        \/ InBuffer(b) \/ InCall(b) \/ InQueue(b) \/ InFlight(b)
        \/ b \in Durable \/ b \in failed \/ b \in dropped

\* What a call holds, and when it flushes.
CallsInStep ==
    \A b \in Batches :
        /\ extracted[b] # {} => pc[b] \in {"enqueue", "send"}
        /\ pc[b] # "evolve" => fstate[b] = "idle"

\* An hour is written once, by the flusher that has the batch in hand.
HoursOnce ==
    /\ \A p \in Flusher : fstate[p] = "io" => todoHours[p] \subseteq HoursIn(flight[p])
    /\ \A p \in Flusher : fstate[p] = "err" => todoHours[p] = {}
    /\ \A q \in Pieces :
        /\ stored[q] <= 1
        /\ stored[q] = 1 =>
              \/ q[1] \in Durable \/ q[1] \in failed
              \/ \E p \in Carrying : q[1] \in flight[p] /\ q[2] \notin todoHours[p]

\* The inductive invariant behind HeldExactlyOnce.
HeldInv == TypeOK /\ OneKind /\ OneOfKind /\ AppendedSomewhere /\ CallsInStep /\ HoursOnce

\* Who holds what, when nothing moves.
LEMMA SameHolders ==
    /\ UNCHANGED buffers => \A b \in Batches : InBuffer(b)' <=> InBuffer(b)
    /\ UNCHANGED extracted => \A b \in Batches : InCall(b)' <=> InCall(b)
    /\ UNCHANGED flushQueue => \A b \in Batches : InQueue(b)' <=> InQueue(b)
    /\ UNCHANGED <<fstate, flight>> =>
          Carrying' = Carrying /\ \A b \in Batches : InFlight(b)' <=> InFlight(b)
    /\ UNCHANGED registered => Durable' = Durable
    /\ UNCHANGED pc => Appended' = Appended
BY DEF InBuffer, InCall, InQueue, InFlight, Carrying, Durable, Appended

\* Emptying a key leaves the other buffers as they are.
LEMMA ClearKeyMoves ==
    ASSUME TypeOK, OneOfKind, NEW k \in Keys, ClearKey(k)
    PROVE  /\ \A b \in Batches : InBuffer(b)' <=> InBuffer(b) /\ b \notin buffers[k]
           /\ \A j \in Keys : \A b \in buffers'[j] : KeyOf[b] = j
<1>1. \A j \in Keys : buffers'[j] = IF j = k THEN {} ELSE buffers[j]
  BY DEF ClearKey, TypeOK, ShardType
<1> QED
  BY <1>1 DEF OneOfKind, InBuffer

\* A flusher that starts carries what it was given, and no other flusher changes.
LEMMA StartFlushMoves ==
    ASSUME TypeOK, OneOfKind, HoursOnce, NEW p \in Flusher, fstate[p] = "idle", NEW S \in SUBSET Batches,
           \A b \in S : ~InFlight(b), StartFlush(p, S), UNCHANGED <<diskVars, lossVars>>
    PROVE  /\ \A b \in Batches : InFlight(b)' <=> InFlight(b) \/ b \in S
           /\ \A r, t \in Carrying' : r # t => flight'[r] \cap flight'[t] = {}
           /\ HoursOnce'
<1>1. \A r \in Flusher :
          /\ fstate'[r] = IF r = p THEN "io" ELSE fstate[r]
          /\ flight'[r] = IF r = p THEN S ELSE flight[r]
          /\ todoHours'[r] = IF r = p THEN HoursIn(S) ELSE todoHours[r]
  BY DEF StartFlush, TypeOK, FlushType
<1>2. Carrying' = Carrying \cup {p} /\ p \notin Carrying
  BY <1>1 DEF Carrying
<1>3. \A r \in Carrying : r \in Flusher /\ r # p /\ flight'[r] = flight[r] /\ flight[r] \cap S = {}
  BY <1>1, <1>2 DEF Carrying, InFlight
<1>4. \A b \in Batches : InFlight(b)' <=> InFlight(b) \/ b \in S
  BY <1>1, <1>2, <1>3 DEF InFlight
<1>5. \A r, t \in Carrying' : r # t => flight'[r] \cap flight'[t] = {}
  BY <1>1, <1>2, <1>3 DEF OneOfKind
<1>6. HoursOnce'
  <2>1. \A q \in Pieces : stored'[q] = stored[q] /\ Durable' = Durable /\ failed' = failed
    BY DEF diskVars, lossVars, Durable
  <2>2. ASSUME NEW q \in Pieces, NEW r \in Carrying, q[1] \in flight[r], q[2] \notin todoHours[r]
        PROVE  \E t \in Carrying' : q[1] \in flight'[t] /\ q[2] \notin todoHours'[t]
    BY <1>1, <1>2, <1>3, <2>2
  <2> QED
    BY <1>1, <2>1, <2>2 DEF HoursOnce
<1> QED
  BY <1>4, <1>5, <1>6

\* A flusher that comes back lets its batches go: registered, or failed.
LEMMA FinishFlushMoves ==
    ASSUME TypeOK, OneOfKind, HoursOnce, NEW p \in Flusher, FinishFlush(p), UNCHANGED diskVars
    PROVE  /\ \A b \in Batches : InFlight(b)' <=> InFlight(b) /\ ~(fstate[p] = "err" /\ b \in flight[p])
           /\ failed' = failed \cup {b \in Batches : fstate[p] = "err" /\ b \in flight[p]}
           /\ fstate[p] = "err" => \A b \in flight[p] : InFlight(b)
           /\ \A r, t \in Carrying' : r # t => flight'[r] \cap flight'[t] = {}
           /\ HoursOnce'
<1>1. \A r \in Flusher :
          /\ fstate'[r] = IF r = p THEN "idle" ELSE fstate[r]
          /\ flight'[r] = IF r = p THEN {} ELSE flight[r]
          /\ flight[r] \subseteq Batches
  BY DEF FinishFlush, TypeOK, FlushType
<1>2. Carrying' = Carrying \ {p} /\ (p \in Carrying <=> fstate[p] = "err")
  BY <1>1 DEF Carrying, FinishFlush
<1>3. failed' = failed \cup {b \in Batches : fstate[p] = "err" /\ b \in flight[p]}
  BY <1>1 DEF FinishFlush
<1>4. \A r \in Carrying : r \in Flusher /\ (r # p => flight'[r] = flight[r] /\ (p \in Carrying => flight[r] \cap flight[p] = {}))
  BY <1>1 DEF Carrying, OneOfKind
<1>5. \A b \in Batches : InFlight(b)' <=> InFlight(b) /\ ~(fstate[p] = "err" /\ b \in flight[p])
  <2> SUFFICES ASSUME NEW b \in Batches PROVE InFlight(b)' <=> InFlight(b) /\ ~(fstate[p] = "err" /\ b \in flight[p])
    OBVIOUS
  <2>1. InFlight(b)' <=> \E r \in Carrying : r # p /\ b \in flight[r]
    BY <1>2, <1>4 DEF InFlight
  <2>2. CASE p \in Carrying /\ b \in flight[p]
    BY <1>2, <1>4, <2>1, <2>2
  <2>3. CASE ~(p \in Carrying /\ b \in flight[p])
    BY <1>2, <2>1, <2>3 DEF InFlight
  <2> QED
    BY <2>2, <2>3
<1>6. fstate[p] = "err" => \A b \in flight[p] : InFlight(b)
  BY <1>2 DEF InFlight
<1>7. \A r, t \in Carrying' : r # t => flight'[r] \cap flight'[t] = {}
  BY <1>2, <1>4 DEF OneOfKind
<1>8. HoursOnce'
  <2>1. todoHours' = todoHours /\ stored' = stored /\ Durable' = Durable
    BY DEF FinishFlush, diskVars, Durable
  <2>2. ASSUME NEW q \in Pieces, NEW r \in Carrying, q[1] \in flight[r], q[2] \notin todoHours[r]
        PROVE  q[1] \in failed' \/ \E t \in Carrying' : q[1] \in flight'[t] /\ q[2] \notin todoHours'[t]
    <3>1. CASE r = p
      BY <1>1, <1>2, <1>3, <2>2, <3>1
    <3>2. CASE r # p
      BY <1>2, <1>4, <2>1, <2>2, <3>2
    <3> QED
      BY <3>1, <3>2
  <2>3. \A r \in Flusher : fstate'[r] \in {"io", "err"} => r # p /\ fstate'[r] = fstate[r] /\ flight'[r] = flight[r]
    BY <1>1
  <2> QED
    BY <1>3, <2>1, <2>2, <2>3 DEF HoursOnce
<1> QED
  BY <1>3, <1>5, <1>6, <1>7, <1>8

-----------------------------------------------------------------------------

\* The parts of the invariant that say where batches are.
Placed == OneKind /\ OneOfKind /\ AppendedSomewhere /\ HoursOnce

\* Nothing is anywhere at the start.
LEMMA HeldInit == Init => HeldInv
<1> SUFFICES ASSUME Init PROVE OneKind /\ OneOfKind /\ AppendedSomewhere /\ CallsInStep /\ HoursOnce
  BY TypeInit DEF HeldInv
<1>1. \A b \in Batches : ~InBuffer(b) /\ ~InCall(b) /\ ~InQueue(b) /\ ~InFlight(b)
  BY DEF Init, InBuffer, InCall, InQueue, InFlight, Carrying
<1>2. \A b \in Batches : b \notin Durable /\ b \notin failed /\ b \notin dropped /\ b \notin Appended
  <2> SUFFICES ASSUME NEW b \in Batches PROVE b \notin Durable
    BY DEF Init, Appended
  <2>1. PICK h \in Hours : h \in HoursOf[b]
    BY BufferConstants
  <2>2. <<b, h>> \in PiecesOf({b})
    BY <2>1 DEF PiecesOf
  <2> QED
    BY <2>2 DEF Init, Durable
<1>3. OneKind /\ AppendedSomewhere
  BY <1>1, <1>2 DEF OneKind, AppendedSomewhere
<1>4. OneOfKind
  BY DEF Init, OneOfKind, Carrying
<1>5. CallsInStep
  BY FlusherMembers DEF Init, CallsInStep
<1>6. HoursOnce
  BY DEF Init, HoursOnce
<1> QED
  BY <1>3, <1>4, <1>5, <1>6

\* What moves nothing and lets nobody past the append.
LEMMA SamePlaced ==
    ASSUME HeldInv, UNCHANGED <<shardVars, extracted, flushQueue, flushVars, diskVars, failed, dropped>>,
           Appended' = Appended
    PROVE  Placed'
<1> USE DEF HeldInv, Placed, shardVars, flushVars, diskVars
<1>1. OneKind' /\ AppendedSomewhere'
  BY SameHolders DEF OneKind, AppendedSomewhere
<1>2. OneOfKind'
  BY SameHolders DEF OneOfKind
<1>3. HoursOnce'
  BY SameHolders DEF HoursOnce
<1> QED
  BY <1>1, <1>2, <1>3

\* A buffer handed to a flusher is the same batches in another place.
LEMMA ExtractPlaced ==
    ASSUME HeldInv, NEW p \in Flusher, fstate[p] = "idle", NEW k \in Keys, ExtractKey(p, k),
           UNCHANGED <<extracted, flushQueue, diskVars, lossVars>>, Appended' = Appended
    PROVE  Placed'
<1> USE DEF HeldInv, Placed, diskVars, lossVars
<1>1. StartFlush(p, buffers[k]) /\ ClearKey(k) /\ buffers[k] \subseteq Batches
  BY DEF ExtractKey, TypeOK, ShardType
<1>2. \A b \in buffers[k] : InBuffer(b) /\ b \in Batches
  BY <1>1 DEF InBuffer
<1>3. /\ \A b \in Batches : InBuffer(b)' <=> InBuffer(b) /\ b \notin buffers[k]
      /\ \A j \in Keys : \A b \in buffers'[j] : KeyOf[b] = j
  BY <1>1, ClearKeyMoves
<1>4. \A b \in buffers[k] : ~InFlight(b)
  BY <1>2 DEF OneKind
<1>5. /\ \A b \in Batches : InFlight(b)' <=> InFlight(b) \/ b \in buffers[k]
      /\ \A r, t \in Carrying' : r # t => flight'[r] \cap flight'[t] = {}
      /\ HoursOnce'
  BY <1>1, <1>4, StartFlushMoves
<1>6. OneKind' /\ AppendedSomewhere'
  BY <1>2, <1>3, <1>5, SameHolders DEF OneKind, AppendedSomewhere
<1>7. OneOfKind'
  BY <1>3, <1>5 DEF OneOfKind
<1> QED
  BY <1>5, <1>6, <1>7

\* A flusher that is back lets its batches go: registered before, or now recorded as failed.
LEMMA FinishPlaced ==
    ASSUME HeldInv, NEW p \in Flusher, FinishFlush(p),
           UNCHANGED <<shardVars, extracted, flushQueue, diskVars>>, Appended' = Appended
    PROVE  Placed'
<1> USE DEF HeldInv, Placed, shardVars, diskVars
<1>1. /\ \A b \in Batches : InFlight(b)' <=> InFlight(b) /\ ~(fstate[p] = "err" /\ b \in flight[p])
      /\ failed' = failed \cup {b \in Batches : fstate[p] = "err" /\ b \in flight[p]}
      /\ fstate[p] = "err" => \A b \in flight[p] : InFlight(b)
      /\ \A r, t \in Carrying' : r # t => flight'[r] \cap flight'[t] = {}
      /\ HoursOnce'
  BY FinishFlushMoves
<1>2. dropped' = dropped
  BY DEF FinishFlush
<1>3. OneKind' /\ AppendedSomewhere'
  BY <1>1, <1>2, SameHolders DEF OneKind, AppendedSomewhere
<1>4. OneOfKind'
  BY <1>1 DEF OneOfKind
<1> QED
  BY <1>1, <1>3, <1>4

\* "Data preserved in WAL": the call's batches end as dropped.
LEMMA DropPlaced ==
    ASSUME HeldInv, NEW b \in Batches, pc[b] \in {"enqueue", "send"}, DropExtracted(b),
           UNCHANGED <<shardVars, flushVars, diskVars, failed>>
    PROVE  Placed'
<1> USE DEF HeldInv, Placed, shardVars, flushVars, diskVars
<1>1. /\ \A c \in Batches : extracted'[c] = IF c = b THEN {} ELSE extracted[c]
      /\ dropped' = dropped \cup extracted[b] /\ UNCHANGED flushQueue
      /\ \A c \in extracted[b] : c \in Batches /\ InCall(c)
  BY DEF DropExtracted, TypeOK, CallType, InCall
<1>2. Appended' = Appended
  BY DEF DropExtracted, Appended, TypeOK, CallType
<1>3. \A c \in Batches : InCall(c)' <=> InCall(c) /\ c \notin extracted[b]
  BY <1>1 DEF InCall, OneOfKind
<1>4. OneKind' /\ AppendedSomewhere'
  BY <1>1, <1>2, <1>3, SameHolders DEF OneKind, AppendedSomewhere
<1>5. OneOfKind'
  BY <1>1, SameHolders DEF OneOfKind
<1>6. HoursOnce'
  BY SameHolders DEF HoursOnce
<1> QED
  BY <1>4, <1>5, <1>6

\* tryEnqueueFlush: the call's batches go to the end of the channel.
LEMMA SendPlaced ==
    ASSUME HeldInv, NEW b \in Batches, pc[b] = "send",
           flushQueue' = Append(flushQueue, extracted[b]), extracted' = [extracted EXCEPT ![b] = {}],
           pc' = [pc EXCEPT ![b] = "accepted"],
           UNCHANGED <<shardVars, flushVars, diskVars, failed, dropped>>
    PROVE  Placed'
<1> USE DEF HeldInv, Placed, shardVars, flushVars, diskVars
<1>1. /\ \A c \in Batches : extracted'[c] = IF c = b THEN {} ELSE extracted[c]
      /\ \A c \in extracted[b] : c \in Batches /\ InCall(c)
  BY DEF TypeOK, CallType, InCall
<1>2. Appended' = Appended
  BY DEF Appended, TypeOK, CallType
<1>3. \A c \in Batches : InCall(c)' <=> InCall(c) /\ c \notin extracted[b]
  BY <1>1 DEF InCall, OneOfKind
<1>4. flushQueue \in Seq(SUBSET Batches) /\ extracted[b] \in SUBSET Batches
  BY DEF TypeOK, FlushType, CallType
<1>5. /\ Len(flushQueue) \in Nat /\ Len(flushQueue') = Len(flushQueue) + 1
      /\ \A i \in 1..Len(flushQueue) : flushQueue'[i] = flushQueue[i]
      /\ flushQueue'[Len(flushQueue) + 1] = extracted[b]
  BY <1>4, AppendProperties, LenProperties
<1>6. \A c \in Batches : InQueue(c)' <=> InQueue(c) \/ c \in extracted[b]
  BY <1>5 DEF InQueue
<1>7. OneKind' /\ AppendedSomewhere'
  BY <1>1, <1>2, <1>3, <1>6, SameHolders DEF OneKind, AppendedSomewhere
<1>8. OneOfKind'
  <2>1. \A i \in 1..Len(flushQueue) : flushQueue[i] \cap extracted[b] = {}
    BY <1>1 DEF OneKind, InQueue
  <2>2. ASSUME NEW i \in 1..Len(flushQueue'), NEW j \in 1..Len(flushQueue'), i # j
        PROVE  flushQueue'[i] \cap flushQueue'[j] = {}
    <3>1. \/ i \in 1..Len(flushQueue) /\ j \in 1..Len(flushQueue)
          \/ i \in 1..Len(flushQueue) /\ j = Len(flushQueue) + 1
          \/ i = Len(flushQueue) + 1 /\ j \in 1..Len(flushQueue)
      BY <1>5, <2>2
    <3> QED
      BY <1>5, <2>1, <2>2, <3>1 DEF OneOfKind
  <2> QED
    BY <1>1, <2>2, SameHolders DEF OneOfKind
<1>9. HoursOnce'
  BY SameHolders DEF HoursOnce
<1> QED
  BY <1>7, <1>8, <1>9

\* The append: the batch joins its key, and both leave together when the key is full.
LEMMA AppendPlaced ==
    ASSUME HeldInv, NEW b \in Batches, AppendBatch(b)
    PROVE  Placed'
<1> USE DEF HeldInv, Placed, shardVars, flushVars, diskVars, lossVars
<1> DEFINE k == KeyOf[b]
           total == counts[k] + RowsOf[b]
<1>0. k \in Keys /\ pc[b] = "write" /\ UNCHANGED <<flushQueue, flushVars, diskVars, failed, dropped>>
  BY BufferConstants DEF AppendBatch
<1>1. Appended' = Appended \cup {b} /\ b \notin Appended
  BY DEF AppendBatch, Appended, TypeOK, CallType
<1>2. ~InBuffer(b) /\ ~InCall(b) /\ ~InQueue(b) /\ ~InFlight(b) /\ b \notin Durable \cup failed \cup dropped
  BY <1>1 DEF AppendedSomewhere
<1>3. \A c \in buffers[k] : c \in Batches /\ InBuffer(c)
  BY <1>0 DEF TypeOK, ShardType, InBuffer
<1>4. HoursOnce'
  BY <1>0, SameHolders DEF HoursOnce
<1>5. CASE total >= MaxBufferSize
  <2>1. ClearKey(k) /\ extracted' = [extracted EXCEPT ![b] = buffers[k] \cup {b}]
    BY <1>5 DEF AppendBatch
  <2>2. /\ \A c \in Batches : InBuffer(c)' <=> InBuffer(c) /\ c \notin buffers[k]
        /\ \A j \in Keys : \A c \in buffers'[j] : KeyOf[c] = j
    BY <1>0, <2>1, ClearKeyMoves
  <2>3. /\ \A c \in Batches : extracted'[c] = IF c = b THEN buffers[k] \cup {b} ELSE extracted[c]
        /\ extracted[b] = {}
    BY <1>0, <2>1 DEF TypeOK, CallType, CallsInStep
  <2>4. \A c \in Batches : InCall(c)' <=> InCall(c) \/ c \in buffers[k] \/ c = b
    BY <2>3 DEF InCall
  <2>5. OneKind' /\ AppendedSomewhere'
    BY <1>0, <1>1, <1>2, <1>3, <2>2, <2>4, SameHolders DEF OneKind, AppendedSomewhere
  <2>6. \A c \in Batches \ {b} : extracted[c] \cap (buffers[k] \cup {b}) = {}
    BY <1>2, <1>3 DEF OneKind, InCall
  <2>7. OneOfKind'
    BY <1>0, <2>2, <2>3, <2>6, SameHolders DEF OneOfKind
  <2> QED
    BY <1>4, <2>5, <2>7
<1>6. CASE ~(total >= MaxBufferSize)
  <2>1. buffers' = [buffers EXCEPT ![k] = @ \cup {b}] /\ UNCHANGED extracted
    BY <1>6 DEF AppendBatch
  <2>2. \A j \in Keys : buffers'[j] = IF j = k THEN buffers[k] \cup {b} ELSE buffers[j]
    BY <2>1 DEF TypeOK, ShardType
  <2>3. \A c \in Batches : InBuffer(c)' <=> InBuffer(c) \/ c = b
    BY <1>0, <2>2 DEF InBuffer
  <2>4. OneKind' /\ AppendedSomewhere'
    BY <1>0, <1>1, <1>2, <2>1, <2>3, SameHolders DEF OneKind, AppendedSomewhere
  <2>5. OneOfKind'
    BY <1>0, <2>1, <2>2, SameHolders DEF OneOfKind
  <2> QED
    BY <1>4, <2>4, <2>5
<1> QED
  BY <1>5, <1>6

\* The steps of a write call keep every batch in one place.
LEMMA HeldWriteCall ==
    ASSUME HeldInv, NEW b \in Batches, WriteCall(b) \/ CancelWrite(b)
    PROVE  Placed' /\ CallsInStep'
<1> USE FlusherMembers DEF HeldInv
<1>0. KeyOf[b] \in Keys /\ b \in Flusher /\ pc \in [Batches -> PcStates] /\ extracted \in [Batches -> SUBSET Batches]
      /\ fstate \in [Flusher -> FlushStates]
  BY BufferConstants DEF TypeOK, CallType, FlushType
<1>1. CASE EvolveSchema(b)
  <2>1. Appended' = Appended /\ fstate[b] = "idle"
    BY <1>0, <1>1 DEF EvolveSchema, Appended, CallsInStep
  <2>2. Placed'
    BY <1>0, <1>1, <2>1, ExtractPlaced DEF EvolveSchema
  <2>3. CallsInStep'
    BY <1>0, <1>1 DEF EvolveSchema, ExtractKey, StartFlush, CallsInStep
  <2> QED
    BY <2>2, <2>3
<1>2. CASE EvolveReturn(b)
  <2>1. Appended' = Appended
    BY <1>0, <1>2 DEF EvolveReturn, Appended
  <2>2. Placed'
    BY <1>0, <1>2, <2>1, FinishPlaced DEF EvolveReturn
  <2>3. CallsInStep'
    BY <1>0, <1>2 DEF EvolveReturn, FinishFlush, CallsInStep
  <2> QED
    BY <2>2, <2>3
<1>3. CASE ChurnExceeded(b) \/ CancelWrite(b)
  <2>1. Appended' = Appended
    BY <1>0, <1>3 DEF ChurnExceeded, CancelWrite, Appended
  <2>2. Placed'
    BY <1>3, <2>1, SamePlaced DEF ChurnExceeded, CancelWrite, lossVars
  <2>3. CallsInStep'
    BY <1>0, <1>3 DEF ChurnExceeded, CancelWrite, CallsInStep, flushVars
  <2> QED
    BY <2>2, <2>3
<1>4. CASE AppendBatch(b)
  <2>1. CallsInStep'
    BY <1>0, <1>4 DEF AppendBatch, CallsInStep, flushVars
  <2> QED
    BY <1>4, <2>1, AppendPlaced
<1>5. CASE CheckClosing(b)
  <2>1. CallsInStep'
    BY <1>0, <1>5 DEF CheckClosing, DropExtracted, CallsInStep, flushVars
  <2>2. CASE closing
    BY <1>5, <2>1, <2>2, DropPlaced DEF CheckClosing
  <2>3. CASE ~closing
    <3>1. Appended' = Appended
      BY <1>0, <1>5, <2>3 DEF CheckClosing, Appended
    <3> QED
      BY <1>5, <2>1, <2>3, <3>1, SamePlaced DEF CheckClosing
  <2> QED
    BY <2>2, <2>3
<1>6. CASE SendFlush(b)
  <2>1. CallsInStep'
    BY <1>0, <1>6 DEF SendFlush, DropExtracted, CallsInStep, flushVars
  <2>2. CASE DropExtracted(b)
    BY <1>6, <2>1, <2>2, DropPlaced DEF SendFlush
  <2>3. CASE ~DropExtracted(b)
    BY <1>6, <2>1, <2>3, SendPlaced DEF SendFlush
  <2> QED
    BY <2>2, <2>3
<1> QED
  BY <1>1, <1>2, <1>3, <1>4, <1>5, <1>6 DEF WriteCall

\* So do the steps of a flush.
LEMMA HeldFlushIO ==
    ASSUME HeldInv, NEW p \in Flusher, FlushIO(p)
    PROVE  Placed' /\ CallsInStep'
<1> USE DEF HeldInv
<1>0. /\ fstate \in [Flusher -> FlushStates] /\ flight \in [Flusher -> SUBSET Batches]
      /\ todoHours \in [Flusher -> SUBSET Hours] /\ stored \in [Pieces -> Nat] /\ fstate[p] = "io"
  BY DEF TypeOK, FlushType, OutcomeType, FlushIO, WriteHour, FlushError, RegisterFiles
<1>1. p \in Carrying
  BY <1>0 DEF Carrying
<1>2. UNCHANGED <<callVars, shardVars, flushQueue, flight, failed, dropped>> /\ Appended' = Appended
  BY DEF FlushIO, WriteHour, FlushError, RegisterFiles, lossVars, callVars, Appended
<1>3. CallsInStep'
  <2>1. \A b \in Batches : pc[b] # "evolve" => fstate'[b] = "idle"
    BY <1>0, FlusherMembers DEF FlushIO, WriteHour, FlushError, RegisterFiles, CallsInStep
  <2> QED
    BY <1>2, <2>1 DEF CallsInStep, callVars
<1>4. CASE WriteHour(p)
  <2>1. UNCHANGED <<fstate, registered>>
    BY <1>4 DEF WriteHour
  <2>2. OneKind' /\ AppendedSomewhere'
    BY <1>2, <2>1, SameHolders DEF OneKind, AppendedSomewhere, shardVars, callVars
  <2>3. OneOfKind'
    BY <1>2, <2>1, SameHolders DEF OneOfKind, shardVars, callVars
  <2>4. PICK h \in todoHours[p] :
          /\ stored' = [q \in Pieces |->
                IF q \in PiecesOf(flight[p]) /\ q[2] = h THEN stored[q] + 1 ELSE stored[q]]
          /\ todoHours' = [todoHours EXCEPT ![p] = @ \ {h}]
    BY <1>4 DEF WriteHour
  <2>5. \A r \in Flusher : todoHours'[r] = IF r = p THEN todoHours[p] \ {h} ELSE todoHours[r]
    BY <1>0, <2>4
  <2>6. ASSUME NEW q \in Pieces
        PROVE  /\ stored'[q] <= 1
               /\ stored'[q] = 1 =>
                     \/ q[1] \in Durable \/ q[1] \in failed
                     \/ \E r \in Carrying : q[1] \in flight[r] /\ q[2] \notin todoHours'[r]
    <3>1. \A r \in Carrying : r \in Flusher
      BY DEF Carrying
    <3>2. CASE q \in PiecesOf(flight[p]) /\ q[2] = h
      <4>1. q[1] \in flight[p] /\ q[1] \in Batches
        BY <1>0, <3>2 DEF PiecesOf
      <4>2. InFlight(q[1])
        BY <1>1, <4>1 DEF InFlight
      <4>3. q[1] \notin Durable /\ q[1] \notin failed
        BY <4>1, <4>2 DEF OneKind
      <4>4. \A r \in Carrying : q[1] \in flight[r] => r = p
        BY <1>1, <4>1 DEF OneOfKind
      <4>5. stored[q] = 0
        BY <1>0, <2>4, <3>2, <4>3, <4>4 DEF HoursOnce
      <4> QED
        BY <1>1, <2>4, <2>5, <3>2, <4>1, <4>5, <1>0
    <3>3. CASE ~(q \in PiecesOf(flight[p]) /\ q[2] = h)
      <4>1. stored'[q] = stored[q]
        BY <2>4, <3>3
      <4> QED
        BY <2>5, <3>1, <4>1 DEF HoursOnce
    <3> QED
      BY <3>2, <3>3
  <2>7. HoursOnce'
    <3>1. \A r \in Flusher : todoHours'[r] \subseteq todoHours[r]
      BY <2>5
    <3>2. Carrying' = Carrying /\ Durable' = Durable
      BY <1>2, <2>1, SameHolders
    <3> QED
      BY <1>2, <2>1, <2>6, <3>1, <3>2 DEF HoursOnce
  <2> QED
    BY <1>3, <2>2, <2>3, <2>7 DEF Placed
<1>5. CASE FlushError(p)
  <2>1. /\ \A r \in Flusher : fstate'[r] = IF r = p THEN "err" ELSE fstate[r]
        /\ \A r \in Flusher : todoHours'[r] = IF r = p THEN {} ELSE todoHours[r]
        /\ UNCHANGED <<stored, registered>>
    BY <1>0, <1>5 DEF FlushError, diskVars
  <2>2. Carrying' = Carrying
    BY <1>0, <2>1 DEF Carrying
  <2>3. (\A b \in Batches : InFlight(b)' <=> InFlight(b)) /\ Durable' = Durable
    BY <1>2, <2>1, <2>2, SameHolders DEF InFlight
  <2>4. OneKind' /\ AppendedSomewhere'
    BY <1>2, <2>3, SameHolders DEF OneKind, AppendedSomewhere, shardVars, callVars
  <2>5. OneOfKind'
    BY <1>2, <2>2 DEF OneOfKind, shardVars, callVars
  <2>6. HoursOnce'
    <3>1. \A r \in Flusher : todoHours'[r] \subseteq todoHours[r]
      BY <2>1
    <3>2. \A r \in Carrying : r \in Flusher
      BY DEF Carrying
    <3> QED
      BY <1>2, <2>1, <2>2, <2>3, <3>1, <3>2 DEF HoursOnce
  <2> QED
    BY <1>3, <2>4, <2>5, <2>6 DEF Placed
<1>6. CASE RegisterFiles(p)
  <2>1. /\ \A r \in Flusher : fstate'[r] = IF r = p THEN "ok" ELSE fstate[r]
        /\ UNCHANGED <<stored, todoHours>>
        /\ registered' = registered \cup PiecesOf(flight[p])
    BY <1>0, <1>6 DEF RegisterFiles
  <2>2. Carrying' = Carrying \ {p}
    BY <1>0, <2>1 DEF Carrying
  <2>3. Durable' = Durable \cup flight[p]
    <3>1. \A b \in flight[p] : PiecesOf({b}) \subseteq PiecesOf(flight[p])
      BY DEF PiecesOf
    <3>2. \A b \in Batches \ flight[p] : PiecesOf({b}) \cap PiecesOf(flight[p]) = {}
      BY DEF PiecesOf
    <3> QED
      BY <1>0, <2>1, <3>1, <3>2 DEF Durable
  <2>4. \A b \in flight[p] : b \in Batches /\ InFlight(b)
    BY <1>0, <1>1 DEF InFlight
  <2>5. \A b \in Batches : InFlight(b)' <=> InFlight(b) /\ b \notin flight[p]
    BY <1>1, <1>2, <2>2 DEF InFlight, OneOfKind
  <2>6. OneKind' /\ AppendedSomewhere'
    BY <1>2, <2>3, <2>4, <2>5, SameHolders DEF OneKind, AppendedSomewhere, shardVars, callVars
  <2>7. OneOfKind'
    BY <1>2, <2>2 DEF OneOfKind, shardVars, callVars
  <2>8. HoursOnce'
    <3>1. ASSUME NEW q \in Pieces, NEW r \in Carrying, q[1] \in flight[r], q[2] \notin todoHours[r]
          PROVE  q[1] \in Durable' \/ \E t \in Carrying' : q[1] \in flight[t] /\ q[2] \notin todoHours[t]
      BY <2>2, <2>3, <3>1
    <3>2. \A r \in Flusher : fstate'[r] \in {"io", "err"} => fstate'[r] = fstate[r]
      BY <2>1
    <3> QED
      BY <1>2, <2>1, <2>3, <3>1, <3>2 DEF HoursOnce
  <2> QED
    BY <1>3, <2>6, <2>7, <2>8 DEF Placed
<1> QED
  BY <1>4, <1>5, <1>6 DEF FlushIO

\* So do those of the workers, the ticker and the WAL maintenance.
LEMMA HeldBackground ==
    ASSUME HeldInv,
           \/ \E w \in Workers : WorkerTake(w)
           \/ \E k \in Keys : TickerTake(k)
           \/ \E p \in Workers \cup {Ticker} : Background(p)
           \/ ResetFlushFailure
    PROVE  Placed' /\ CallsInStep'
<1> USE FlusherMembers DEF HeldInv
<1>0. fstate \in [Flusher -> FlushStates]
  BY DEF TypeOK, FlushType
<1>1. UNCHANGED callVars /\ Appended' = Appended
  BY DEF WorkerTake, TickerTake, Background, BackgroundReturn, BackgroundExit, ResetFlushFailure, callVars, Appended
<1>2. ASSUME NEW w \in Workers, WorkerTake(w) PROVE Placed' /\ CallsInStep'
  <2>1. /\ flushQueue \in Seq(SUBSET Batches) /\ flushQueue # <<>>
        /\ fstate[w] = "idle" /\ StartFlush(w, Head(flushQueue)) /\ flushQueue' = Tail(flushQueue)
        /\ UNCHANGED <<shardVars, diskVars, lossVars>>
    BY <1>2 DEF WorkerTake, TypeOK, FlushType
  <2>2. /\ Head(flushQueue) = flushQueue[1] /\ Len(flushQueue) \in Nat \ {0}
        /\ Len(flushQueue') = Len(flushQueue) - 1
        /\ \A i \in 1..Len(flushQueue') : flushQueue'[i] = flushQueue[i + 1]
        /\ flushQueue[1] \in SUBSET Batches
    BY <2>1, HeadTailProperties, LenProperties, EmptySeq
  <2>3. \A b \in flushQueue[1] : b \in Batches /\ InQueue(b)
    BY <2>2 DEF InQueue
  <2>4. \A b \in Batches : InQueue(b)' <=> InQueue(b) /\ b \notin flushQueue[1]
    <3> SUFFICES ASSUME NEW b \in Batches PROVE InQueue(b)' <=> InQueue(b) /\ b \notin flushQueue[1]
      OBVIOUS
    <3>1. InQueue(b)' => InQueue(b) /\ b \notin flushQueue[1]
      <4> SUFFICES ASSUME NEW i \in 1..Len(flushQueue'), b \in flushQueue'[i]
                   PROVE  InQueue(b) /\ b \notin flushQueue[1]
        BY DEF InQueue
      <4>1. i + 1 \in 1..Len(flushQueue) /\ i + 1 # 1 /\ 1 \in 1..Len(flushQueue) /\ b \in flushQueue[i + 1]
        BY <2>2
      <4> QED
        BY <4>1 DEF InQueue, OneOfKind
    <3>2. InQueue(b) /\ b \notin flushQueue[1] => InQueue(b)'
      <4> SUFFICES ASSUME NEW i \in 1..Len(flushQueue), b \in flushQueue[i], i # 1
                   PROVE  \E j \in 1..Len(flushQueue') : b \in flushQueue'[j]
        BY DEF InQueue
      <4>1. i - 1 \in 1..Len(flushQueue') /\ (i - 1) + 1 = i
        BY <2>2
      <4>2. flushQueue'[i - 1] = flushQueue[i]
        BY <2>2, <4>1
      <4> QED
        BY <4>1, <4>2
    <3> QED
      BY <3>1, <3>2
  <2>5. \A b \in flushQueue[1] : ~InFlight(b)
    BY <2>3 DEF OneKind
  <2>6. /\ \A b \in Batches : InFlight(b)' <=> InFlight(b) \/ b \in flushQueue[1]
        /\ \A r, t \in Carrying' : r # t => flight'[r] \cap flight'[t] = {}
        /\ HoursOnce'
    BY <2>1, <2>2, <2>5, StartFlushMoves
  <2>7. OneKind' /\ AppendedSomewhere'
    BY <1>1, <2>1, <2>3, <2>4, <2>6, SameHolders DEF OneKind, AppendedSomewhere, shardVars, callVars, diskVars, lossVars
  <2>8. OneOfKind'
    <3>1. ASSUME NEW i \in 1..Len(flushQueue'), NEW j \in 1..Len(flushQueue'), i # j
          PROVE  flushQueue'[i] \cap flushQueue'[j] = {}
      <4>1. i + 1 \in 1..Len(flushQueue) /\ j + 1 \in 1..Len(flushQueue) /\ i + 1 # j + 1
        BY <2>2, <3>1
      <4> QED
        BY <2>2, <4>1 DEF OneOfKind
    <3> QED
      BY <1>1, <2>1, <2>6, <3>1 DEF OneOfKind, shardVars, callVars
  <2>9. CallsInStep'
    BY <1>0, <1>1, <2>1, FlushersDistinct DEF StartFlush, CallsInStep, callVars
  <2> QED
    BY <2>6, <2>7, <2>8, <2>9 DEF Placed
<1>3. ASSUME NEW k \in Keys, TickerTake(k) PROVE Placed' /\ CallsInStep'
  <2>1. Placed'
    BY <1>1, <1>3, ExtractPlaced DEF TickerTake, callVars
  <2>2. CallsInStep'
    BY <1>0, <1>1, <1>3, FlushersDistinct DEF TickerTake, ExtractKey, StartFlush, CallsInStep, callVars
  <2> QED
    BY <2>1, <2>2
<1>4. ASSUME NEW p \in Workers \cup {Ticker}, Background(p) PROVE Placed' /\ CallsInStep'
  <2>0. p \in Flusher /\ p \notin Batches
    BY FlushersDistinct
  <2>1. CASE BackgroundReturn(p)
    <3>1. Placed'
      BY <1>1, <2>0, <2>1, FinishPlaced DEF BackgroundReturn, callVars
    <3>2. CallsInStep'
      BY <1>0, <1>1, <2>0, <2>1 DEF BackgroundReturn, FinishFlush, CallsInStep, callVars
    <3> QED
      BY <3>1, <3>2
  <2>2. CASE BackgroundExit(p)
    <3>1. /\ \A r \in Flusher : fstate'[r] = IF r = p THEN "exited" ELSE fstate[r]
          /\ fstate[p] = "idle" /\ UNCHANGED <<shardVars, flushQueue, flight, todoHours, diskVars, lossVars>>
      BY <1>0, <2>0, <2>2 DEF BackgroundExit
    <3>2. Carrying' = Carrying
      BY <3>1 DEF Carrying
    <3>3. \A b \in Batches : InFlight(b)' <=> InFlight(b)
      BY <3>1, <3>2 DEF InFlight
    <3>4. OneKind' /\ AppendedSomewhere'
      BY <1>1, <3>1, <3>3, SameHolders DEF OneKind, AppendedSomewhere, shardVars, callVars, diskVars, lossVars
    <3>5. OneOfKind'
      BY <1>1, <3>1, <3>2 DEF OneOfKind, shardVars, callVars
    <3>6. HoursOnce'
      <4>1. \A r \in Flusher : fstate'[r] \in {"io", "err"} => fstate'[r] = fstate[r]
        BY <3>1
      <4> QED
        BY <3>1, <3>2, <4>1, SameHolders DEF HoursOnce, diskVars, lossVars
    <3>7. CallsInStep'
      BY <1>1, <2>0, <3>1 DEF CallsInStep, callVars
    <3> QED
      BY <3>4, <3>5, <3>6, <3>7 DEF Placed
  <2> QED
    BY <1>4, <2>1, <2>2 DEF Background
<1>5. CASE ResetFlushFailure
  <2>1. CallsInStep'
    BY <1>1, <1>5 DEF ResetFlushFailure, CallsInStep, callVars, flushVars
  <2> QED
    BY <1>1, <1>5, <2>1, SamePlaced DEF ResetFlushFailure, callVars
<1> QED
  BY <1>2, <1>3, <1>4, <1>5

\* So do those of FlushAll and Close.
LEMMA HeldSweep ==
    ASSUME HeldInv,
           \/ \E s \in FlushCalls : BeginFlushAll(s)
           \/ \E s \in Sweeper : SweepStep(s)
           \/ CloseStep
    PROVE  Placed' /\ CallsInStep'
<1> USE FlusherMembers DEF HeldInv
<1>0. fstate \in [Flusher -> FlushStates]
  BY DEF TypeOK, FlushType
<1>1. UNCHANGED callVars /\ Appended' = Appended
  BY DEF BeginFlushAll, SweepStep, SweepShard, SweepKey, SweepReturn, SweepEnd, CloseStep, CloseFlag,
         CloseCancel, CloseWait, callVars, Appended
<1>2. ASSUME UNCHANGED <<shardVars, flushQueue, flushVars, diskVars, lossVars>> PROVE Placed' /\ CallsInStep'
  BY <1>1, <1>2, SamePlaced DEF CallsInStep, callVars, flushVars, lossVars
<1>3. ASSUME NEW s \in Sweeper, SweepKey(s) PROVE Placed' /\ CallsInStep'
  <2>1. PICK k \in keysLeft[s] : ExtractKey(s, k) \/ UNCHANGED <<shardVars, flushVars>>
    BY <1>3 DEF SweepKey
  <2>2. CASE UNCHANGED <<shardVars, flushVars>>
    BY <1>2, <1>3, <2>2 DEF SweepKey
  <2>3. CASE ExtractKey(s, k)
    <3>1. k \in Keys
      BY <1>3 DEF TypeOK, SweepType
    <3>2. Placed'
      BY <1>1, <1>3, <2>3, <3>1, ExtractPlaced DEF SweepKey, callVars
    <3>3. CallsInStep'
      <4>1. s \notin Batches
        BY FlushersDistinct DEF Sweeper
      <4> QED
        BY <1>0, <1>1, <2>3, <4>1 DEF ExtractKey, StartFlush, CallsInStep, callVars
    <3> QED
      BY <3>2, <3>3
  <2> QED
    BY <2>1, <2>2, <2>3
<1>4. ASSUME NEW s \in Sweeper, SweepReturn(s) PROVE Placed' /\ CallsInStep'
  <2>1. Placed'
    BY <1>1, <1>4, FinishPlaced DEF SweepReturn, callVars
  <2>2. s \notin Batches
    BY FlushersDistinct DEF Sweeper
  <2>3. CallsInStep'
    BY <1>0, <1>1, <1>4, <2>2 DEF SweepReturn, FinishFlush, CallsInStep, callVars
  <2> QED
    BY <2>1, <2>3
<1> QED
  BY <1>2, <1>3, <1>4 DEF BeginFlushAll, SweepStep, SweepShard, SweepEnd, CloseStep, CloseFlag, CloseCancel, CloseWait

\* Every step keeps the invariant.
LEMMA HeldNext == HeldInv /\ [Next]_vars => HeldInv'
<1> SUFFICES ASSUME HeldInv, [Next]_vars PROVE HeldInv'
  OBVIOUS
<1>1. TypeOK'
  BY TypeNext DEF HeldInv
<1>2. CASE Next
  <2>1. Placed' /\ CallsInStep'
    BY <1>2, HeldWriteCall, HeldFlushIO, HeldBackground, HeldSweep DEF Next
  <2> QED
    BY <1>1, <2>1 DEF HeldInv, Placed
<1>3. CASE UNCHANGED vars
  <2>1. Appended' = Appended /\ UNCHANGED <<shardVars, extracted, flushQueue, flushVars, diskVars, failed, dropped, pc>>
    BY <1>3 DEF vars, callVars, lossVars, Appended
  <2>2. Placed'
    BY <2>1, SamePlaced
  <2>3. CallsInStep'
    BY <2>1 DEF HeldInv, CallsInStep, flushVars
  <2> QED
    BY <1>1, <2>2, <2>3 DEF HeldInv, Placed
<1> QED
  BY <1>2, <1>3

\* At any time every batch is in at most one place, and is somewhere exactly when it was appended:
\* the invariant behind HeldExactlyOnce and KeepsContract.
THEOREM HeldInvariant == Spec => []HeldInv
BY HeldInit, HeldNext, PTL DEF Spec

-----------------------------------------------------------------------------
(* The sum that bufferRecordCounts stands for.                             *)

\* A nonempty set of subsets of a finite set has a smallest one.
LEMMA MinimalSubset ==
    ASSUME NEW S, IsFiniteSet(S), NEW T, T \subseteq SUBSET S, T # {}
    PROVE  \E m \in T : \A y \in T : y \subseteq m => y = m
<1>1. IsWellFoundedOn(StrictSubsetOrdering(S), SUBSET S)
  BY FS_FiniteSubsetsOfFinite, FS_StrictSubsetOrderingWellFounded
<1>2. PICK m \in T : \A y \in T : ~(<<y, m>> \in StrictSubsetOrdering(S))
  BY <1>1, WFMin
<1>3. \A y \in T : y \subseteq m => y = m
  BY <1>2 DEF StrictSubsetOrdering
<1> QED
  BY <1>3

\* The rows of a set of batches, one by one.
RowSet(S) == UNION {{b} \X (1..RowsOf[b]) : b \in S}

\* The rows of finitely many batches are finitely many, and a batch more adds its own.
LEMMA RowSetFacts ==
    ASSUME NEW S \in SUBSET Batches, IsFiniteSet(S)
    PROVE  /\ IsFiniteSet(RowSet(S)) /\ Cardinality(RowSet(S)) \in Nat
           /\ \A b \in Batches \ S : Cardinality(RowSet(S \cup {b})) = Cardinality(RowSet(S)) + RowsOf[b]
<1> DEFINE of == [b \in S |-> {b} \X (1..RowsOf[b])]
           sets == {{b} \X (1..RowsOf[b]) : b \in S}
<1>1. \A b \in Batches : /\ RowsOf[b] \in Nat
                         /\ IsFiniteSet({b} \X (1..RowsOf[b])) /\ Cardinality({b} \X (1..RowsOf[b])) = RowsOf[b]
  <2> TAKE b \in Batches
  <2>1. RowsOf[b] \in Nat
    BY BufferConstants
  <2>2. IsFiniteSet(1..RowsOf[b]) /\ Cardinality(1..RowsOf[b]) = RowsOf[b]
    BY <2>1, FS_Interval, SMTT(30)
  <2>3. IsFiniteSet({b}) /\ Cardinality({b}) = 1
    BY FS_Singleton
  <2>4. IsFiniteSet({b} \X (1..RowsOf[b])) /\ Cardinality({b} \X (1..RowsOf[b])) = 1 * RowsOf[b]
    BY <2>2, <2>3, FS_Product
  <2> QED
    BY <2>1, <2>4
<1>2. IsFiniteSet(sets)
  <2>1. of \in Surjection(S, sets)
    BY DEF Surjection
  <2> QED
    BY <2>1, FS_Surjection
<1>3. IsFiniteSet(RowSet(S)) /\ Cardinality(RowSet(S)) \in Nat
  <2>1. IsFiniteSet(RowSet(S))
    BY <1>1, <1>2, FS_UNION DEF RowSet
  <2> QED
    BY <2>1, FS_CardinalityType
<1>4. ASSUME NEW b \in Batches \ S
      PROVE  Cardinality(RowSet(S \cup {b})) = Cardinality(RowSet(S)) + RowsOf[b]
  <2> DEFINE new == {b} \X (1..RowsOf[b])
  <2>1. RowSet(S \cup {b}) = RowSet(S) \cup new
    BY DEF RowSet
  <2>2. RowSet(S) \cap new = {}
    BY DEF RowSet
  <2>3. IsFiniteSet(new) /\ Cardinality(new) = RowsOf[b] /\ RowsOf[b] \in Nat
    BY <1>1
  <2>4. Cardinality(RowSet(S) \cup new) = Cardinality(RowSet(S)) + Cardinality(new) - Cardinality(RowSet(S) \cap new)
    BY <1>3, <2>3, FS_Union
  <2>5. Cardinality(RowSet(S) \cap new) = 0
    BY <2>2, FS_EmptySet
  <2>6. Cardinality(RowSet(S) \cup new) = Cardinality(RowSet(S)) + RowsOf[b]
    <3> HIDE DEF new
    <3> QED
      BY <1>3, <2>3, <2>4, <2>5
  <2> QED
    BY <2>1, <2>6
<1> QED
  BY <1>3, <1>4

\* Rows adds up what the batches of a finite set bring.
LEMMA RowsCounted ==
    ASSUME NEW S \in SUBSET Batches, IsFiniteSet(S)
    PROVE  Rows(S) = Cardinality(RowSet(S))
<1> DEFINE first(s) == CHOOSE x \in s : TRUE
           sum(g) == [s \in SUBSET S |-> IF s = {} THEN 0 ELSE RowsOf[first(s)] + g[s \ {first(s)}]]
           count == [s \in SUBSET S |-> Cardinality(RowSet(s))]
           iter == CHOOSE g : g = sum(g)
<1>1. Rows(S) = iter[S]
  BY DEF Rows, MapThenSumSet, MapThenFoldSet
<1>2. ASSUME NEW s \in SUBSET S, s # {}
      PROVE  /\ first(s) \in s /\ s \ {first(s)} \in SUBSET S
             /\ Cardinality(RowSet(s)) = RowsOf[first(s)] + Cardinality(RowSet(s \ {first(s)}))
  <2>1. first(s) \in s
    BY <1>2
  <2>2. IsFiniteSet(s \ {first(s)}) /\ s \ {first(s)} \in SUBSET Batches
    BY FS_Subset
  <2>3. /\ Cardinality(RowSet(s \ {first(s)})) \in Nat
        /\ \A b \in Batches \ (s \ {first(s)}) : Cardinality(RowSet((s \ {first(s)}) \cup {b}))
                                                   = Cardinality(RowSet(s \ {first(s)})) + RowsOf[b]
    BY <2>2, RowSetFacts
  <2>4. s = (s \ {first(s)}) \cup {first(s)} /\ first(s) \in Batches \ (s \ {first(s)}) /\ RowsOf[first(s)] \in Nat
    BY <2>1, BufferConstants
  <2>5. Cardinality(RowSet(s)) = Cardinality(RowSet(s \ {first(s)})) + RowsOf[first(s)]
    BY <2>3, <2>4
  <2> HIDE DEF first
  <2> QED
    BY <2>1, <2>3, <2>4, <2>5
<1>3. Cardinality(RowSet({})) = 0
  BY FS_EmptySet DEF RowSet
<1>4. count = sum(count)
  <2> HIDE DEF first
  <2>1. ASSUME NEW s \in SUBSET S
        PROVE  count[s] = IF s = {} THEN 0 ELSE RowsOf[first(s)] + count[s \ {first(s)}]
    BY <1>2, <1>3
  <2> QED
    BY <2>1
<1>5. iter = sum(iter)
  <2> HIDE DEF sum, count
  <2> QED
    BY <1>4
<1> HIDE DEF first, iter
<1>6. \A s \in SUBSET S : iter[s] = IF s = {} THEN 0 ELSE RowsOf[first(s)] + iter[s \ {first(s)}]
  BY <1>5
<1> HIDE DEF sum, count
<1>7. ASSUME NEW s \in SUBSET S, iter[s] # Cardinality(RowSet(s)) PROVE FALSE
  <2> DEFINE wrong == {r \in SUBSET S : iter[r] # Cardinality(RowSet(r))}
  <2>0. wrong \subseteq SUBSET S /\ wrong # {}
    BY <1>7
  <2>1. PICK m \in wrong : \A y \in wrong : y \subseteq m => y = m
    <3> HIDE DEF wrong
    <3> QED
      BY <2>0, MinimalSubset
  <2>2. m # {}
    BY <1>3, <1>6, <2>1
  <2>3. first(m) \in m /\ m \ {first(m)} \in SUBSET S
    BY <1>2, <2>1, <2>2
  <2>4. iter[m \ {first(m)}] = Cardinality(RowSet(m \ {first(m)}))
    BY <2>1, <2>3
  <2> QED
    BY <1>2, <1>6, <2>1, <2>2, <2>4
<1> QED
  BY <1>1, <1>7

\* The counter and the schema of a key are those of the batches it holds.
CountersTrue ==
    \A k \in Keys :
        /\ IsFiniteSet(buffers[k])
        /\ buffers[k] = {} <=> schemas[k] = NoSig
        /\ counts[k] = Cardinality(RowSet(buffers[k])) /\ counts[k] < MaxBufferSize

\* No batches, no rows.
LEMMA NoRows == IsFiniteSet({}) /\ Cardinality(RowSet({})) = 0
BY FS_EmptySet DEF RowSet

\* Emptying a key resets its counter and schema with it.
LEMMA ClearKeyCounters ==
    ASSUME TypeOK, CountersTrue, NEW k \in Keys, ClearKey(k)
    PROVE  CountersTrue'
<1>1. \A j \in Keys : /\ buffers'[j] = IF j = k THEN {} ELSE buffers[j]
                      /\ counts'[j] = IF j = k THEN 0 ELSE counts[j]
                      /\ schemas'[j] = IF j = k THEN NoSig ELSE schemas[j]
  BY DEF ClearKey, TypeOK, ShardType
<1> QED
  BY <1>1, NoRows, BufferConstants DEF CountersTrue

\* An append adds the rows of its batch and sets the schema, and empties the key at MaxBufferSize.
LEMMA AppendCounters ==
    ASSUME HeldInv, CountersTrue, NEW b \in Batches, AppendBatch(b)
    PROVE  CountersTrue'
<1> USE DEF HeldInv
<1> DEFINE k == KeyOf[b]
           total == counts[k] + RowsOf[b]
<1>0. k \in Keys /\ SigOf[b] # NoSig /\ RowsOf[b] \in Nat /\ counts[k] \in Nat
  BY BufferConstants DEF TypeOK, ShardType
<1>1. CASE total >= MaxBufferSize
  BY <1>0, <1>1, ClearKeyCounters DEF AppendBatch
<1>2. CASE ~(total >= MaxBufferSize)
  <2>1. \A j \in Keys : /\ buffers'[j] = IF j = k THEN buffers[k] \cup {b} ELSE buffers[j]
                        /\ counts'[j] = IF j = k THEN total ELSE counts[j]
                        /\ schemas'[j] = IF j = k THEN SigOf[b] ELSE schemas[j]
    BY <1>2 DEF AppendBatch, TypeOK, ShardType
  <2>2. b \notin buffers[k]
    <3>1. b \notin Appended
      BY DEF AppendBatch, Appended
    <3> QED
      BY <1>0, <3>1 DEF AppendedSomewhere, InBuffer
  <2>3. /\ buffers[k] \in SUBSET Batches /\ IsFiniteSet(buffers[k])
        /\ counts[k] = Cardinality(RowSet(buffers[k]))
    BY <1>0 DEF TypeOK, ShardType, CountersTrue
  <2>4. IsFiniteSet(buffers[k] \cup {b})
    BY <2>3, FS_AddElement
  <2>5. Cardinality(RowSet(buffers[k] \cup {b})) = total
    BY <2>2, <2>3, RowSetFacts
  <2>6. total < MaxBufferSize
    BY <1>0, <1>2, BufferConstants
  <2> QED
    BY <1>0, <2>1, <2>4, <2>5, <2>6 DEF CountersTrue
<1> QED
  BY <1>1, <1>2

\* At the start no key holds anything.
LEMMA CountersInit == Init => CountersTrue
BY NoRows, BufferConstants DEF Init, CountersTrue

\* Every step keeps the counters and schemas true.
LEMMA CountersNext == HeldInv /\ CountersTrue /\ [Next]_vars => CountersTrue'
<1> SUFFICES ASSUME HeldInv, CountersTrue, [Next]_vars PROVE CountersTrue'
  OBVIOUS
<1>1. ASSUME UNCHANGED shardVars PROVE CountersTrue'
  BY <1>1 DEF shardVars, CountersTrue
<1>2. ASSUME NEW p, NEW k \in Keys, ExtractKey(p, k) PROVE CountersTrue'
  BY <1>2, ClearKeyCounters DEF ExtractKey, HeldInv
<1>3. ASSUME NEW b \in Batches, WriteCall(b) \/ CancelWrite(b) PROVE CountersTrue'
  <2>1. CASE EvolveSchema(b)
    BY <1>2, <2>1, BufferConstants DEF EvolveSchema
  <2>2. CASE AppendBatch(b)
    BY <2>2, AppendCounters
  <2> QED
    BY <1>1, <1>3, <2>1, <2>2 DEF WriteCall, CancelWrite, EvolveReturn, ChurnExceeded, CheckClosing, SendFlush
<1>4. ASSUME NEW k \in Keys, TickerTake(k) PROVE CountersTrue'
  BY <1>2, <1>4 DEF TickerTake
<1>5. ASSUME NEW s \in Sweeper, SweepStep(s) PROVE CountersTrue'
  <2>1. CASE SweepKey(s)
    <3>1. \A k \in keysLeft[s] : k \in Keys
      BY <1>5 DEF HeldInv, TypeOK, SweepType
    <3> QED
      BY <1>1, <1>2, <2>1, <3>1 DEF SweepKey
  <2> QED
    BY <1>1, <1>5, <2>1 DEF SweepStep, SweepShard, SweepReturn, SweepEnd
<1>6. ASSUME \/ \E p \in Flusher : FlushIO(p)
             \/ \E w \in Workers : WorkerTake(w)
             \/ \E p \in Workers \cup {Ticker} : Background(p)
             \/ \E s \in FlushCalls : BeginFlushAll(s)
             \/ CloseStep \/ ResetFlushFailure \/ UNCHANGED vars
      PROVE  CountersTrue'
  BY <1>1, <1>6 DEF FlushIO, WriteHour, FlushError, RegisterFiles, WorkerTake, Background, BackgroundReturn,
     BackgroundExit, BeginFlushAll, CloseStep, CloseFlag, CloseCancel, CloseWait, ResetFlushFailure, vars
<1> QED
  BY <1>3, <1>4, <1>5, <1>6 DEF Next

-----------------------------------------------------------------------------
(* One place, counted.                                                     *)

\* The places of one kind: none, or one.
TaggedWith(tag, D) == {<<tag, i>> : i \in D}

\* Tagging the members of a set changes neither its emptiness nor its being a singleton.
LEMMA Tagged ==
    ASSUME NEW tag, NEW D, \A i, j \in D : i = j
    PROVE  /\ D # {} => \E x : TaggedWith(tag, D) = {x}
           /\ D = {} => TaggedWith(tag, D) = {}
<1>1. CASE D = {}
  BY <1>1 DEF TaggedWith
<1>2. ASSUME NEW d \in D PROVE TaggedWith(tag, D) = {<<tag, d>>}
  <2>1. D = {d}
    OBVIOUS
  <2> QED
    BY <2>1 DEF TaggedWith
<1> QED
  BY <1>1, <1>2

\* One set is empty and the other has one element.
LEMMA OneOfTwo ==
    ASSUME NEW S, NEW T, S = {}, \E x : T = {x}
    PROVE  Cardinality(S) + Cardinality(T) = 1 /\ Cardinality(T) + Cardinality(S) = 1
<1>1. Cardinality(S) = 0
  BY FS_EmptySet
<1>2. Cardinality(T) = 1
  BY FS_Singleton
<1> QED
  BY <1>1, <1>2

\* A batch that was appended is in one place and has not ended, or has ended one way.
LEMMA OnePlace ==
    ASSUME HeldInv, NEW b \in Appended
    PROVE  Cardinality(Places(b)) + Cardinality(Ends(b)) = 1
<1> USE DEF HeldInv
<1>0. b \in Batches /\ flushQueue \in Seq(SUBSET Batches)
  BY DEF Appended, TypeOK, FlushType
<1> DEFINE inBuffer == {<<"buffer", k>> : k \in {j \in Keys : b \in buffers[j]}}
           inCall == {<<"call", c>> : c \in {d \in Batches : b \in extracted[d]}}
           inQueue == {<<"queue", i>> : i \in {j \in 1..Len(flushQueue) : b \in flushQueue[j]}}
           inFlight == {<<"flight", p>> : p \in {r \in Carrying : b \in flight[r]}}
<1>1. Places(b) = ((inBuffer \cup inCall) \cup inQueue) \cup inFlight
  BY DEF Places
<1>2. /\ InBuffer(b) => \E x : inBuffer = {x}
      /\ ~InBuffer(b) => inBuffer = {}
  <2> DEFINE D == {j \in Keys : b \in buffers[j]}
  <2>1. \A i, j \in D : i = j
    BY DEF OneOfKind
  <2>2. D # {} <=> InBuffer(b)
    BY DEF InBuffer
  <2>3. inBuffer = TaggedWith("buffer", D)
    BY DEF TaggedWith
  <2> HIDE DEF D, inBuffer, inCall, inQueue, inFlight, HeldInv
  <2>4. (D # {} => \E x : TaggedWith("buffer", D) = {x}) /\ (D = {} => TaggedWith("buffer", D) = {})
    BY <2>1, Tagged
  <2> QED
    BY <2>2, <2>3, <2>4
<1>3. /\ InCall(b) => \E x : inCall = {x}
      /\ ~InCall(b) => inCall = {}
  <2> DEFINE D == {d \in Batches : b \in extracted[d]}
  <2>1. \A i, j \in D : i = j
    BY DEF OneOfKind
  <2>2. D # {} <=> InCall(b)
    BY DEF InCall
  <2>3. inCall = TaggedWith("call", D)
    BY DEF TaggedWith
  <2> HIDE DEF D, inBuffer, inCall, inQueue, inFlight, HeldInv
  <2>4. (D # {} => \E x : TaggedWith("call", D) = {x}) /\ (D = {} => TaggedWith("call", D) = {})
    BY <2>1, Tagged
  <2> QED
    BY <2>2, <2>3, <2>4
<1>4. /\ InQueue(b) => \E x : inQueue = {x}
      /\ ~InQueue(b) => inQueue = {}
  <2> DEFINE D == {j \in 1..Len(flushQueue) : b \in flushQueue[j]}
  <2>1. \A i, j \in D : i = j
    BY DEF OneOfKind
  <2>2. D # {} <=> InQueue(b)
    BY DEF InQueue
  <2>3. inQueue = TaggedWith("queue", D)
    BY DEF TaggedWith
  <2> HIDE DEF D, inBuffer, inCall, inQueue, inFlight, HeldInv
  <2>4. (D # {} => \E x : TaggedWith("queue", D) = {x}) /\ (D = {} => TaggedWith("queue", D) = {})
    BY <2>1, Tagged
  <2> QED
    BY <2>2, <2>3, <2>4
<1>5. /\ InFlight(b) => \E x : inFlight = {x}
      /\ ~InFlight(b) => inFlight = {}
  <2> DEFINE D == {r \in Carrying : b \in flight[r]}
  <2>1. \A i, j \in D : i = j
    BY DEF OneOfKind
  <2>2. D # {} <=> InFlight(b)
    BY DEF InFlight
  <2>3. inFlight = TaggedWith("flight", D)
    BY DEF TaggedWith
  <2> HIDE DEF D, inBuffer, inCall, inQueue, inFlight, HeldInv
  <2>4. (D # {} => \E x : TaggedWith("flight", D) = {x}) /\ (D = {} => TaggedWith("flight", D) = {})
    BY <2>1, Tagged
  <2> QED
    BY <2>2, <2>3, <2>4
<1>6. Ends(b) = (IF b \in Durable THEN {"durable"} ELSE {}) \cup (IF b \in failed THEN {"failed"} ELSE {})
                  \cup (IF b \in dropped THEN {"dropped"} ELSE {})
  BY DEF Ends
<1> HIDE DEF inBuffer, inCall, inQueue, inFlight
<1>7. CASE InBuffer(b) \/ InCall(b) \/ InQueue(b) \/ InFlight(b)
  <2>1. Ends(b) = {}
    BY <1>0, <1>6, <1>7 DEF OneKind
  <2>2. \E x : Places(b) = {x}
    BY <1>0, <1>1, <1>2, <1>3, <1>4, <1>5, <1>7 DEF OneKind
  <2> QED
    BY <2>1, <2>2, OneOfTwo
<1>8. CASE ~(InBuffer(b) \/ InCall(b) \/ InQueue(b) \/ InFlight(b))
  <2>1. Places(b) = {}
    BY <1>1, <1>2, <1>3, <1>4, <1>5, <1>8
  <2>2. \E x : Ends(b) = {x}
    BY <1>0, <1>6, <1>8 DEF OneKind, AppendedSomewhere
  <2> QED
    BY <2>1, <2>2, OneOfTwo
<1> QED
  BY <1>7, <1>8

\* An appended batch is in exactly one place or has ended exactly one way, each hour of it is
\* written at most once, and the counter and schema of a key are those of what it holds: whatever
\* interleaves with a flush that has released the shard lock for its I/O.
THEOREM HeldExactlyOnceCorrect == Spec => []HeldExactlyOnce
<1>1. HeldInv /\ CountersTrue => HeldExactlyOnce
  <2> SUFFICES ASSUME HeldInv, CountersTrue PROVE HeldExactlyOnce
    OBVIOUS
  <2>1. \A b \in Appended : Cardinality(Places(b)) + Cardinality(Ends(b)) = 1
    BY OnePlace
  <2>2. \A q \in Pieces : stored[q] <= 1
    BY DEF HeldInv, HoursOnce
  <2>3. \A k \in Keys :
          /\ buffers[k] = {} <=> schemas[k] = NoSig
          /\ counts[k] = Rows(buffers[k]) /\ counts[k] < MaxBufferSize
    <3> TAKE k \in Keys
    <3>1. buffers[k] \in SUBSET Batches /\ IsFiniteSet(buffers[k])
      BY DEF HeldInv, TypeOK, ShardType, CountersTrue
    <3>2. Rows(buffers[k]) = Cardinality(RowSet(buffers[k]))
      BY <3>1, RowsCounted
    <3> QED
      BY <3>2 DEF CountersTrue
  <2> QED
    BY <2>1, <2>2, <2>3 DEF HeldExactlyOnce
<1> QED
  BY <1>1, HeldInit, HeldNext, CountersInit, CountersNext, PTL DEF Spec
-----------------------------------------------------------------------------
(* The buffer keeps its contract: each step refuses or holds one batch,    *)
(* settles a set of held ones together, or changes nothing of the contract.*)

\* The status the contract sees.
Status == [b \in Batches |-> StatusOf(b)]

\* How far its call has come, as far as the contract can tell.
Progress(b) == IF pc[b] \in {"write", "evolve"} THEN "calling"
               ELSE IF pc[b] \in {"cancelled", "churn"} THEN "refused" ELSE "appended"

\* The status of a batch, in terms of Progress.
LEMMA StatusFacts ==
    /\ \A b \in Batches : StatusOf(b) =
          IF Progress(b) # "appended" THEN Progress(b)
          ELSE IF b \in dropped THEN "dropped" ELSE IF b \in failed THEN "failed"
          ELSE IF b \in Durable THEN "durable" ELSE "held"
    /\ \A b \in Batches : StatusOf(b)' =
          IF Progress(b)' # "appended" THEN Progress(b)'
          ELSE IF b \in dropped' THEN "dropped" ELSE IF b \in failed' THEN "failed"
          ELSE IF b \in Durable' THEN "durable" ELSE "held"
    /\ TypeOK => \A b \in Batches : b \in Appended <=> Progress(b) = "appended"
<1>1. \A b \in Batches : StatusOf(b) =
          IF Progress(b) # "appended" THEN Progress(b)
          ELSE IF b \in dropped THEN "dropped" ELSE IF b \in failed THEN "failed"
          ELSE IF b \in Durable THEN "durable" ELSE "held"
  BY DEF StatusOf, Progress
<1>2. \A b \in Batches : StatusOf(b)' =
          IF Progress(b)' # "appended" THEN Progress(b)'
          ELSE IF b \in dropped' THEN "dropped" ELSE IF b \in failed' THEN "failed"
          ELSE IF b \in Durable' THEN "durable" ELSE "held"
  BY DEF StatusOf, Progress
<1>3. ASSUME TypeOK, NEW b \in Batches PROVE b \in Appended <=> Progress(b) = "appended"
  <2>1. pc[b] \in {"write", "evolve", "enqueue", "send", "accepted", "cancelled", "churn"}
    BY <1>3 DEF TypeOK, CallType, PcStates
  <2>2. b \in Appended <=> pc[b] \in {"enqueue", "send", "accepted"}
    BY DEF Appended
  <2> QED
    BY <2>1, <2>2 DEF Progress
<1> QED
  BY <1>1, <1>2, <1>3

\* A batch of a call that has not got past the append is nowhere, and has not ended.
LEMMA NotYet ==
    ASSUME HeldInv, NEW b \in Batches, Progress(b) # "appended"
    PROVE  b \notin Durable /\ b \notin failed /\ b \notin dropped
BY StatusFacts DEF HeldInv, AppendedSomewhere

\* Held batches that end together, one way, are a step of the contract.
LEMMA Settles ==
    ASSUME HeldInv, NEW S \in SUBSET Batches,
           \A b \in S : InBuffer(b) \/ InCall(b) \/ InFlight(b),
           \A b \in Batches : Progress(b)' = Progress(b),
           NEW v \in {"durable", "failed", "dropped"},
           Durable' = Durable \cup (IF v = "durable" THEN S ELSE {}),
           failed' = failed \cup (IF v = "failed" THEN S ELSE {}),
           dropped' = dropped \cup (IF v = "dropped" THEN S ELSE {})
    PROVE  [Contract!Next]_Status
<1>1. \A b \in S : Progress(b) = "appended" /\ b \notin Durable \cup failed \cup dropped
  BY StatusFacts DEF HeldInv, OneKind, AppendedSomewhere
<1>2. \A b \in S : StatusOf(b) = "held" /\ StatusOf(b)' = v
  BY <1>1, StatusFacts
<1>3. \A b \in Batches \ S : StatusOf(b)' = StatusOf(b)
  BY StatusFacts
<1>4. CASE S = {}
  BY <1>3, <1>4 DEF Status
<1>5. CASE S # {}
  <2>1. S \in (SUBSET Contract!InStatus("held")) \ {{}}
    BY <1>2, <1>5 DEF Contract!InStatus
  <2>2. Contract!Become(S, v)
    BY <1>2, <1>3 DEF Contract!Become
  <2> QED
    BY <2>1, <2>2 DEF Contract!Next, Contract!Settle
<1> QED
  BY <1>4, <1>5

\* No batch settles when nothing is dropped, failed or registered and no call comes further.
LEMMA Stutters ==
    ASSUME UNCHANGED <<registered, failed, dropped>>, \A b \in Batches : Progress(b)' = Progress(b)
    PROVE  [Contract!Next]_Status
<1>1. \A b \in Batches : StatusOf(b)' = StatusOf(b)
  BY StatusFacts DEF Durable
<1> QED
  BY <1>1 DEF Status

\* A write call refuses or holds its own batch, or settles some that are held.
LEMMA ContractWriteCall ==
    ASSUME HeldInv, NEW b \in Batches, WriteCall(b) \/ CancelWrite(b)
    PROVE  [Contract!Next]_Status
<1> USE DEF diskVars, lossVars
<1>0. pc \in [Batches -> PcStates] /\ extracted \in [Batches -> SUBSET Batches] /\ b \in Flusher
  BY FlusherMembers DEF HeldInv, TypeOK, CallType
<1>1. CASE EvolveSchema(b)
  BY <1>0, <1>1, Stutters DEF EvolveSchema, Progress
<1>2. CASE EvolveReturn(b)
  <2>1. /\ failed' = failed \cup {c \in Batches : fstate[b] = "err" /\ c \in flight[b]}
        /\ fstate[b] = "err" => \A c \in flight[b] : InFlight(c)
    BY <1>0, <1>2, FinishFlushMoves DEF EvolveReturn, HeldInv
  <2>2. \A c \in Batches : Progress(c)' = Progress(c)
    BY <1>0, <1>2 DEF EvolveReturn, Progress
  <2>3. Durable' = Durable /\ dropped' = dropped
    BY <1>2 DEF EvolveReturn, FinishFlush, Durable
  <2> QED
    BY <2>1, <2>2, <2>3, Settles
<1>3. CASE ChurnExceeded(b) \/ CancelWrite(b) \/ AppendBatch(b)
  <2>1. \A c \in Batches \ {b} : Progress(c)' = Progress(c)
    BY <1>0, <1>3 DEF ChurnExceeded, CancelWrite, AppendBatch, Progress
  <2>2. Progress(b) = "calling" /\ Progress(b)' \in {"refused", "appended"}
    <3>1. pc[b] = "write"
      BY <1>3 DEF ChurnExceeded, CancelWrite, AppendBatch
    <3>2. pc'[b] \in {"churn", "cancelled", "enqueue", "accepted"}
      BY <1>0, <1>3 DEF ChurnExceeded, CancelWrite, AppendBatch
    <3> QED
      BY <3>1, <3>2 DEF Progress
  <2>3. Durable' = Durable /\ failed' = failed /\ dropped' = dropped
    BY <1>3 DEF ChurnExceeded, CancelWrite, AppendBatch, Durable
  <2>4. b \notin Durable /\ b \notin failed /\ b \notin dropped
    BY <2>2, NotYet
  <2>5. \A c \in Batches \ {b} : StatusOf(c)' = StatusOf(c)
    BY <2>1, <2>3, StatusFacts
  <2>6. /\ StatusOf(b) = "calling" /\ StatusOf(b)' \in {"refused", "held"}
    BY <2>2, <2>3, <2>4, StatusFacts
  <2>7. b \in Contract!InStatus("calling") /\ Contract!Become({b}, StatusOf(b)')
    BY <2>5, <2>6 DEF Contract!InStatus, Contract!Become
  <2> QED
    BY <2>6, <2>7 DEF Contract!Next, Contract!Refuse, Contract!Hold
<1>4. ASSUME pc[b] \in {"enqueue", "send"}, DropExtracted(b), UNCHANGED <<registered, failed>>
      PROVE  [Contract!Next]_Status
  <2>1. extracted[b] \in SUBSET Batches /\ \A c \in extracted[b] : InCall(c)
    BY <1>0 DEF InCall
  <2>2. \A c \in Batches : Progress(c)' = Progress(c)
    BY <1>0, <1>4 DEF DropExtracted, Progress
  <2>3. Durable' = Durable /\ dropped' = dropped \cup extracted[b]
    BY <1>4 DEF DropExtracted, Durable
  <2> QED
    BY <1>4, <2>1, <2>2, <2>3, Settles
<1>5. CASE CheckClosing(b)
  <2>1. CASE closing
    BY <1>4, <1>5, <2>1 DEF CheckClosing
  <2>2. CASE ~closing
    BY <1>0, <1>5, <2>2, Stutters DEF CheckClosing, Progress
  <2> QED
    BY <2>1, <2>2
<1>6. CASE SendFlush(b)
  <2>1. CASE DropExtracted(b)
    BY <1>4, <1>6, <2>1 DEF SendFlush
  <2>2. CASE ~DropExtracted(b)
    BY <1>0, <1>6, <2>2, Stutters DEF SendFlush, Progress
  <2> QED
    BY <2>1, <2>2
<1> QED
  BY <1>1, <1>2, <1>3, <1>5, <1>6 DEF WriteCall

\* The other goroutines settle some of the held batches or change nothing the contract speaks of.
LEMMA ContractFlushers ==
    ASSUME HeldInv,
           \/ \E p \in Flusher : FlushIO(p)
           \/ \E w \in Workers : WorkerTake(w)
           \/ \E k \in Keys : TickerTake(k)
           \/ \E p \in Workers \cup {Ticker} : Background(p)
           \/ ResetFlushFailure
           \/ \E s \in FlushCalls : BeginFlushAll(s)
           \/ \E s \in Sweeper : SweepStep(s)
           \/ CloseStep
    PROVE  [Contract!Next]_Status
<1> USE FlusherMembers DEF diskVars, lossVars
<1>0. pc' = pc
  BY DEF FlushIO, WriteHour, FlushError, RegisterFiles, WorkerTake, TickerTake, Background, BackgroundReturn,
         BackgroundExit, ResetFlushFailure, BeginFlushAll, SweepStep, SweepShard, SweepKey, SweepReturn,
         SweepEnd, CloseStep, CloseFlag, CloseCancel, CloseWait, callVars
<1>1. \A b \in Batches : Progress(b)' = Progress(b)
  BY <1>0 DEF Progress
<1>2. ASSUME NEW p \in Flusher, FinishFlush(p), UNCHANGED diskVars PROVE [Contract!Next]_Status
  <2>1. /\ failed' = failed \cup {c \in Batches : fstate[p] = "err" /\ c \in flight[p]}
        /\ fstate[p] = "err" => \A c \in flight[p] : InFlight(c)
    BY <1>2, FinishFlushMoves DEF HeldInv
  <2>2. Durable' = Durable /\ dropped' = dropped
    BY <1>2 DEF FinishFlush, Durable
  <2> QED
    BY <1>1, <2>1, <2>2, Settles
<1>3. ASSUME NEW p \in Flusher, RegisterFiles(p) PROVE [Contract!Next]_Status
  <2>1. flight[p] \in SUBSET Batches /\ fstate[p] = "io" /\ registered' = registered \cup PiecesOf(flight[p])
        /\ failed' = failed /\ dropped' = dropped
    BY <1>3 DEF RegisterFiles, HeldInv, TypeOK, FlushType
  <2>2. \A b \in flight[p] : InFlight(b)
    BY <2>1 DEF InFlight, Carrying
  <2>3. Durable' = Durable \cup flight[p]
    <3>1. \A b \in flight[p] : PiecesOf({b}) \subseteq PiecesOf(flight[p])
      BY DEF PiecesOf
    <3>2. \A b \in Batches \ flight[p] : PiecesOf({b}) \cap PiecesOf(flight[p]) = {}
      BY DEF PiecesOf
    <3> QED
      BY <2>1, <3>1, <3>2 DEF Durable
  <2> QED
    BY <1>1, <2>1, <2>2, <2>3, Settles
<1>4. ASSUME UNCHANGED <<registered, failed, dropped>> PROVE [Contract!Next]_Status
  BY <1>1, <1>4, Stutters
<1>5. ASSUME NEW p \in Flusher, FlushIO(p) PROVE [Contract!Next]_Status
  BY <1>3, <1>4, <1>5 DEF FlushIO, WriteHour, FlushError
<1>6. ASSUME NEW p \in Workers \cup {Ticker}, Background(p) PROVE [Contract!Next]_Status
  BY <1>2, <1>4, <1>6 DEF Background, BackgroundReturn, BackgroundExit
<1>7. ASSUME NEW s \in Sweeper, SweepStep(s) PROVE [Contract!Next]_Status
  BY <1>2, <1>4, <1>7 DEF SweepStep, SweepShard, SweepKey, SweepReturn, SweepEnd
<1>8. ASSUME \/ \E w \in Workers : WorkerTake(w)
             \/ \E k \in Keys : TickerTake(k)
             \/ ResetFlushFailure
             \/ \E s \in FlushCalls : BeginFlushAll(s)
             \/ CloseStep
      PROVE  [Contract!Next]_Status
  BY <1>4, <1>8 DEF WorkerTake, TickerTake, ResetFlushFailure, BeginFlushAll, CloseStep, CloseFlag,
     CloseCancel, CloseWait
<1> QED
  BY <1>5, <1>6, <1>7, <1>8

\* The ingest buffer keeps its contract, whatever its goroutines do: no batch is both refused and
\* kept, none settles twice or changes how it settled, and a flush settles as a whole.
THEOREM KeepsContractCorrect == Spec => KeepsContract
<1>1. Init => Contract!Init
  <2> SUFFICES ASSUME Init PROVE Contract!Init
    OBVIOUS
  <2>1. \A b \in Batches : Progress(b) = "calling"
    BY DEF Init, Progress
  <2>2. \A b \in Batches : StatusOf(b) = "calling"
    BY <2>1, StatusFacts
  <2> QED
    BY <2>2 DEF Contract!Init
<1>2. HeldInv /\ [Next]_vars => [Contract!Next]_Status
  <2>1. UNCHANGED vars => [Contract!Next]_Status
    <3> SUFFICES ASSUME UNCHANGED vars PROVE [Contract!Next]_Status
      OBVIOUS
    <3>1. UNCHANGED <<pc, registered, failed, dropped>>
      BY DEF vars, callVars, diskVars, lossVars
    <3> QED
      BY <3>1, Stutters DEF Progress
  <2> QED
    BY <2>1, ContractWriteCall, ContractFlushers DEF Next
<1> QED
  BY <1>1, <1>2, HeldInit, HeldNext, PTL DEF Spec, KeepsContract, Contract!Spec, Status

-----------------------------------------------------------------------------
(* II.  AuthReplica.                                                       *)
---------------------------------------------------------------------------
(* Maps, and the two kinds of secondary index.  A column maps the ids of a   *)
(* table to the keys of an index.                                            *)

IsMap(f) == f = [x \in DOMAIN f |-> f[x]]

\* g is the index by a key that is unique, r the one by a key that is not.
Unique(g, k) ==
    /\ IsMap(g)
    /\ \A x \in DOMAIN g : g[x] \in DOMAIN k /\ k[g[x]] = x
    /\ \A i \in DOMAIN k : k[i] \in DOMAIN g /\ g[k[i]] = i
Grouping(r, k) == r = {<<k[i], i>> : i \in DOMAIN k}

LEMMA PutMap ==
    ASSUME NEW f, NEW k, NEW v
    PROVE  /\ IsMap(Put(f, k, v))
           /\ \A x : x \in DOMAIN Put(f, k, v) <=> x \in DOMAIN f \/ x = k
           /\ Put(f, k, v)[k] = v
           /\ \A x \in DOMAIN f : x # k => Put(f, k, v)[x] = f[x]
BY DEF Put, IsMap

LEMMA RestrictMap ==
    ASSUME NEW f, NEW S, S \subseteq DOMAIN f
    PROVE  /\ IsMap(Restrict(f, S))
           /\ \A x : x \in DOMAIN Restrict(f, S) <=> x \in S
           /\ \A x \in S : Restrict(f, S)[x] = f[x]
BY DEF Restrict, IsMap

LEMMA DropMap ==
    ASSUME NEW f, NEW ks
    PROVE  /\ IsMap(Drop(f, ks))
           /\ \A x : x \in DOMAIN Drop(f, ks) <=> x \in DOMAIN f /\ x \notin ks
           /\ \A x \in DOMAIN f : x \notin ks => Drop(f, ks)[x] = f[x]
BY DEF Drop, Restrict, IsMap

LEMMA MapsEqual ==
    ASSUME NEW f, NEW g, IsMap(f), IsMap(g), DOMAIN f = DOMAIN g,
           \A x \in DOMAIN f : f[x] = g[x]
    PROVE  f = g
BY DEF IsMap

LEMMA KeptWhole ==
    ASSUME NEW f, IsMap(f) PROVE Restrict(f, DOMAIN f) = f
BY DEF Restrict, IsMap

LEMMA UniquePut ==
    ASSUME NEW g, NEW k, NEW i, NEW v, Unique(g, k), i \notin DOMAIN k, v \notin DOMAIN g
    PROVE  Unique(Put(g, v, i), Put(k, i, v))
BY PutMap DEF Unique

LEMMA UniqueMove ==
    ASSUME NEW g, NEW k, NEW i, NEW v, Unique(g, k), i \in DOMAIN k,
           v \in DOMAIN g => g[v] = i
    PROVE  Unique(Put(Drop(g, {k[i]}), v, i), [k EXCEPT ![i] = v])
BY PutMap, DropMap DEF Unique

LEMMA UniqueDrop ==
    ASSUME NEW g, NEW k, NEW S, Unique(g, k), S \subseteq DOMAIN k
    PROVE  Unique(Drop(g, {k[i] : i \in S}), Drop(k, S))
<1> DEFINE old == {k[i] : i \in S}
           h == Drop(g, old)
           l == Drop(k, S)
<1>1. IsMap(h) /\ \A x : (x \in DOMAIN h <=> x \in DOMAIN g /\ x \notin old) /\ (x \in DOMAIN h => h[x] = g[x])
  BY DropMap
<1>2. DOMAIN l = DOMAIN k \ S /\ \A i \in DOMAIN l : l[i] = k[i]
  BY DropMap
<1>3. ASSUME NEW x \in DOMAIN h PROVE h[x] \in DOMAIN l /\ l[h[x]] = x
  <2>1. g[x] \in DOMAIN k /\ k[g[x]] = x
    BY <1>1, <1>3 DEF Unique
  <2>2. g[x] \notin S
    BY <2>1, <1>1, <1>3
  <2> QED
    BY <2>1, <2>2, <1>1, <1>2
<1>4. ASSUME NEW i \in DOMAIN l PROVE l[i] \in DOMAIN h /\ h[l[i]] = i
  <2>1. k[i] \in DOMAIN g /\ g[k[i]] = i
    BY <1>2, <1>4 DEF Unique
  <2>2. k[i] \notin old
    <3> SUFFICES ASSUME NEW j \in S, k[i] = k[j] PROVE FALSE
      OBVIOUS
    <3> QED
      BY <2>1, <1>2, <1>4 DEF Unique
  <2> QED
    BY <2>1, <2>2, <1>1, <1>2
<1> HIDE DEF h, l
<1> QED
  BY <1>1, <1>3, <1>4 DEF Unique, h, l

LEMMA UniqueKey ==
    ASSUME NEW g, NEW k, Unique(g, k), NEW i \in DOMAIN k, NEW j \in DOMAIN k, k[i] = k[j]
    PROVE  i = j
BY DEF Unique

LEMMA GroupingPut ==
    ASSUME NEW r, NEW k, NEW i, NEW v, Grouping(r, k), i \notin DOMAIN k
    PROVE  Grouping(r \cup {<<v, i>>}, Put(k, i, v))
<1> DEFINE l == Put(k, i, v)
<1>1. DOMAIN l = DOMAIN k \cup {i} /\ l[i] = v /\ \A j \in DOMAIN k : l[j] = k[j]
  BY PutMap
<1> HIDE DEF l
<1> QED
  BY <1>1 DEF Grouping, l

LEMMA GroupingMove ==
    ASSUME NEW r, NEW k, NEW i, NEW v, Grouping(r, k), i \in DOMAIN k
    PROVE  Grouping((r \ {<<k[i], i>>}) \cup {<<v, i>>}, [k EXCEPT ![i] = v])
BY DEF Grouping

LEMMA GroupingDrop ==
    ASSUME NEW r, NEW k, NEW S, Grouping(r, k), S \subseteq DOMAIN k
    PROVE  Grouping(r \ {<<k[i], i>> : i \in S}, Drop(k, S))
<1> DEFINE l == Drop(k, S)
<1>1. DOMAIN l = DOMAIN k \ S /\ \A i \in DOMAIN l : l[i] = k[i]
  BY DropMap
<1> HIDE DEF l
<1> QED
  BY <1>1 DEF Grouping, l

LEMMA GroupingDropKeys ==
    ASSUME NEW r, NEW k, NEW K, Grouping(r, k),
           NEW S, S = {i \in DOMAIN k : k[i] \in K}, NEW u, u = {q \in r : q[1] \notin K}
    PROVE  Grouping(u, Drop(k, S))
<1> DEFINE l == Drop(k, S)
<1>1. /\ \A i : i \in DOMAIN l <=> i \in DOMAIN k /\ k[i] \notin K
      /\ \A i \in DOMAIN l : l[i] = k[i]
  BY DropMap
<1> HIDE DEF l
<1>2. ASSUME NEW q \in u PROVE \E i \in DOMAIN l : q = <<l[i], i>>
  <2>1. PICK i \in DOMAIN k : q = <<k[i], i>>
    BY DEF Grouping
  <2>2. q[1] = k[i]
    BY <2>1
  <2> QED
    BY <1>1, <2>1, <2>2
<1>3. ASSUME NEW i \in DOMAIN l PROVE <<l[i], i>> \in u
  <2>1. i \in DOMAIN k /\ l[i] = k[i] /\ k[i] \notin K
    BY <1>1
  <2>2. <<k[i], i>> \in r /\ <<k[i], i>>[1] = k[i]
    BY <2>1 DEF Grouping
  <2> QED
    BY <2>1, <2>2
<1> QED
  BY <1>2, <1>3 DEF Grouping, l

\* The ids that an index gives for some keys.
LEMMA GroupingOf ==
    ASSUME NEW r, NEW k, NEW K, Grouping(r, k)
    PROVE  \A i : i \in {p[2] : p \in {q \in r : q[1] \in K}} <=> i \in DOMAIN k /\ k[i] \in K
<1>1. ASSUME NEW i \in DOMAIN k, k[i] \in K
      PROVE  i \in {p[2] : p \in {q \in r : q[1] \in K}}
  <2>1. <<k[i], i>> \in {q \in r : q[1] \in K}
    BY <1>1 DEF Grouping
  <2>2. <<k[i], i>>[2] = i
    OBVIOUS
  <2> QED
    BY <2>1, <2>2
<1>2. ASSUME NEW q \in r, q[1] \in K PROVE q[2] \in DOMAIN k /\ k[q[2]] \in K
  BY <1>2 DEF Grouping
<1> QED
  BY <1>1, <1>2

---------------------------------------------------------------------------
(* What every state of the FSM satisfies at index n: the shape of the        *)
(* tables, ids that are log indices, references to older entries that exist, *)
(* and every index exactly that of its table.                                *)

Fields == {"tokens", "orgs", "teams", "roles", "mperms", "members", "tokensByName",
           "tokensByPrefix", "orgsByName", "teamsByOrg", "rolesByTeam", "mpermsByRole",
           "byPair", "byToken", "byTeam"}
IsState(s) == s = [x \in Fields |-> s[x]]

\* A table of log indices up to n.
Table(f, n) == IsMap(f) /\ DOMAIN f \subseteq 1..n

TokenNames(f) == [t \in DOMAIN f |-> f[t].name]
TokenCreds(f) == [t \in DOMAIN f |-> f[t].cred]
OrgNames(f) == [o \in DOMAIN f |-> f[o].name]
TeamKeys(f) == [t \in DOMAIN f |-> <<f[t].org, f[t].name>>]
RoleTeams(f) == [r \in DOMAIN f |-> f[r].team]
MPermRoles(f) == [p \in DOMAIN f |-> f[p].role]
MemberKeys(f) == [m \in DOMAIN f |-> <<f[m].token, f[m].team>>]
MemberTokens(f) == [m \in DOMAIN f |-> f[m].token]
MemberTeams(f) == [m \in DOMAIN f |-> f[m].team]

TokensOK(s, n) ==
    /\ Table(s.tokens, n)
    /\ \A t \in DOMAIN s.tokens :
            s.tokens[t] = [name |-> s.tokens[t].name, cred |-> s.tokens[t].cred, on |-> s.tokens[t].on]
    /\ Unique(s.tokensByName, TokenNames(s.tokens))
    /\ Grouping(s.tokensByPrefix, TokenCreds(s.tokens))
OrgsOK(s, n) ==
    /\ Table(s.orgs, n)
    /\ \A o \in DOMAIN s.orgs : s.orgs[o] = [name |-> s.orgs[o].name]
    /\ Unique(s.orgsByName, OrgNames(s.orgs))
TeamsOK(s, n) ==
    /\ Table(s.teams, n)
    /\ \A t \in DOMAIN s.teams : s.teams[t] = [org |-> s.teams[t].org, name |-> s.teams[t].name]
    /\ Unique(s.teamsByOrg, TeamKeys(s.teams))
RolesOK(s, n) ==
    /\ Table(s.roles, n)
    /\ \A r \in DOMAIN s.roles : s.roles[r] = [team |-> s.roles[r].team, pat |-> s.roles[r].pat]
    /\ Grouping(s.rolesByTeam, RoleTeams(s.roles))
MPermsOK(s, n) ==
    /\ Table(s.mperms, n)
    /\ \A p \in DOMAIN s.mperms : s.mperms[p] = [role |-> s.mperms[p].role]
    /\ Grouping(s.mpermsByRole, MPermRoles(s.mperms))
MembersOK(s, n) ==
    /\ Table(s.members, n)
    /\ \A m \in DOMAIN s.members :
            s.members[m] = [token |-> s.members[m].token, team |-> s.members[m].team]
    /\ Unique(s.byPair, MemberKeys(s.members))
    /\ Grouping(s.byToken, MemberTokens(s.members))
    /\ Grouping(s.byTeam, MemberTeams(s.members))

Linked(s) ==
    /\ \A t \in DOMAIN s.teams : s.teams[t].org \in DOMAIN s.orgs /\ s.teams[t].org < t
    /\ \A r \in DOMAIN s.roles : s.roles[r].team \in DOMAIN s.teams /\ s.roles[r].team < r
    /\ \A p \in DOMAIN s.mperms : s.mperms[p].role \in DOMAIN s.roles /\ s.mperms[p].role < p
    /\ \A m \in DOMAIN s.members :
            /\ s.members[m].token \in DOMAIN s.tokens /\ s.members[m].token < m
            /\ s.members[m].team \in DOMAIN s.teams /\ s.members[m].team < m

Good(s, n) ==
    /\ IsState(s)
    /\ TokensOK(s, n) /\ OrgsOK(s, n) /\ TeamsOK(s, n)
    /\ RolesOK(s, n) /\ MPermsOK(s, n) /\ MembersOK(s, n)
    /\ Linked(s)

\* The fields in F are the same in s and d.
Same(s, d, F) == \A x \in F : d[x] = s[x]

TokenFields == {"tokens", "tokensByName", "tokensByPrefix"}
OrgFields == {"orgs", "orgsByName"}
TeamFields == {"teams", "teamsByOrg"}
RoleFields == {"roles", "rolesByTeam"}
MPermFields == {"mperms", "mpermsByRole"}
MemberFields == {"members", "byPair", "byToken", "byTeam"}

LEMMA InitGood == Good(InitAuth, 0)
<1>1. IsState(InitAuth)
  BY DEF IsState, Fields, InitAuth
<1>2. DOMAIN Nothing = {} /\ IsMap(Nothing)
  BY DEF Nothing, IsMap
<1>3. /\ \A x \in Tables : InitAuth[x] = Nothing
      /\ \A x \in {"tokensByName", "orgsByName", "teamsByOrg", "byPair"} : InitAuth[x] = Nothing
      /\ \A x \in {"tokensByPrefix", "rolesByTeam", "mpermsByRole", "byToken", "byTeam"} :
            InitAuth[x] = {}
  BY DEF InitAuth, Tables
<1>4. Linked(InitAuth)
  BY <1>2, <1>3 DEF Linked, Tables
<1>5. TokensOK(InitAuth, 0)
  BY <1>2, <1>3 DEF TokensOK, Table, Tables, Unique, Grouping, TokenNames, TokenCreds
<1>6. OrgsOK(InitAuth, 0) /\ TeamsOK(InitAuth, 0)
  BY <1>2, <1>3 DEF OrgsOK, TeamsOK, Table, Tables, Unique, OrgNames, TeamKeys
<1>7. RolesOK(InitAuth, 0) /\ MPermsOK(InitAuth, 0)
  BY <1>2, <1>3 DEF RolesOK, MPermsOK, Table, Tables, Grouping, RoleTeams, MPermRoles
<1>8. MembersOK(InitAuth, 0)
  BY <1>2, <1>3 DEF MembersOK, Table, Tables, Unique, Grouping, MemberKeys, MemberTokens, MemberTeams
<1> QED
  BY <1>1, <1>4, <1>5, <1>6, <1>7, <1>8 DEF Good

\* A part is kept when its fields are, and by a later index.
LEMMA TableLater ==
    ASSUME NEW f, NEW n \in Nat, NEW m \in Nat, n <= m, Table(f, n) PROVE Table(f, m)
BY DEF Table

LEMMA PartsKept ==
    ASSUME NEW s, NEW d, NEW n \in Nat, NEW m \in Nat, n <= m
    PROVE  /\ Same(s, d, TokenFields) /\ TokensOK(s, n) => TokensOK(d, m)
           /\ Same(s, d, OrgFields) /\ OrgsOK(s, n) => OrgsOK(d, m)
           /\ Same(s, d, TeamFields) /\ TeamsOK(s, n) => TeamsOK(d, m)
           /\ Same(s, d, RoleFields) /\ RolesOK(s, n) => RolesOK(d, m)
           /\ Same(s, d, MPermFields) /\ MPermsOK(s, n) => MPermsOK(d, m)
           /\ Same(s, d, MemberFields) /\ MembersOK(s, n) => MembersOK(d, m)
<1>1. ASSUME Same(s, d, TokenFields), TokensOK(s, n) PROVE TokensOK(d, m)
  BY <1>1, TableLater DEF TokensOK, Same, TokenFields
<1>2. ASSUME Same(s, d, OrgFields), OrgsOK(s, n) PROVE OrgsOK(d, m)
  BY <1>2, TableLater DEF OrgsOK, Same, OrgFields
<1>3. ASSUME Same(s, d, TeamFields), TeamsOK(s, n) PROVE TeamsOK(d, m)
  BY <1>3, TableLater DEF TeamsOK, Same, TeamFields
<1>4. ASSUME Same(s, d, RoleFields), RolesOK(s, n) PROVE RolesOK(d, m)
  BY <1>4, TableLater DEF RolesOK, Same, RoleFields
<1>5. ASSUME Same(s, d, MPermFields), MPermsOK(s, n) PROVE MPermsOK(d, m)
  BY <1>5, TableLater DEF MPermsOK, Same, MPermFields
<1>6. ASSUME Same(s, d, MemberFields), MembersOK(s, n) PROVE MembersOK(d, m)
  BY <1>6, TableLater DEF MembersOK, Same, MemberFields
<1> QED
  BY <1>1, <1>2, <1>3, <1>4, <1>5, <1>6

\* The columns of a table after an entry is put or rows are dropped.
LEMMA TokenColumns ==
    ASSUME NEW f
    PROVE  /\ \A i, v : /\ TokenNames(Put(f, i, v)) = Put(TokenNames(f), i, v.name)
                        /\ TokenCreds(Put(f, i, v)) = Put(TokenCreds(f), i, v.cred)
           /\ \A S : /\ TokenNames(Drop(f, S)) = Drop(TokenNames(f), S)
                     /\ TokenCreds(Drop(f, S)) = Drop(TokenCreds(f), S)
BY DEF TokenNames, TokenCreds, Put, Drop, Restrict

LEMMA OrgColumns ==
    ASSUME NEW f
    PROVE  /\ \A i, v : OrgNames(Put(f, i, v)) = Put(OrgNames(f), i, v.name)
           /\ \A S : OrgNames(Drop(f, S)) = Drop(OrgNames(f), S)
BY DEF OrgNames, Put, Drop, Restrict

LEMMA TeamColumns ==
    ASSUME NEW f
    PROVE  /\ \A i, v : TeamKeys(Put(f, i, v)) = Put(TeamKeys(f), i, <<v.org, v.name>>)
           /\ \A S : TeamKeys(Drop(f, S)) = Drop(TeamKeys(f), S)
BY DEF TeamKeys, Put, Drop, Restrict

LEMMA RoleColumns ==
    ASSUME NEW f
    PROVE  /\ \A i, v : RoleTeams(Put(f, i, v)) = Put(RoleTeams(f), i, v.team)
           /\ \A S : RoleTeams(Drop(f, S)) = Drop(RoleTeams(f), S)
BY DEF RoleTeams, Put, Drop, Restrict

LEMMA MPermColumns ==
    ASSUME NEW f
    PROVE  /\ \A i, v : MPermRoles(Put(f, i, v)) = Put(MPermRoles(f), i, v.role)
           /\ \A S : MPermRoles(Drop(f, S)) = Drop(MPermRoles(f), S)
BY DEF MPermRoles, Put, Drop, Restrict

LEMMA MemberColumns ==
    ASSUME NEW f
    PROVE  /\ \A i, v : /\ MemberKeys(Put(f, i, v)) = Put(MemberKeys(f), i, <<v.token, v.team>>)
                        /\ MemberTokens(Put(f, i, v)) = Put(MemberTokens(f), i, v.token)
                        /\ MemberTeams(Put(f, i, v)) = Put(MemberTeams(f), i, v.team)
           /\ \A S : /\ MemberKeys(Drop(f, S)) = Drop(MemberKeys(f), S)
                     /\ MemberTokens(Drop(f, S)) = Drop(MemberTokens(f), S)
                     /\ MemberTeams(Drop(f, S)) = Drop(MemberTeams(f), S)
BY DEF MemberKeys, MemberTokens, MemberTeams, Put, Drop, Restrict

\* A table with one entry more, or with some fewer.
LEMMA TablePut ==
    ASSUME NEW f, NEW n \in Nat, Table(f, n), NEW v PROVE Table(Put(f, n + 1, v), n + 1)
BY PutMap DEF Table

LEMMA TableDrop ==
    ASSUME NEW f, NEW n \in Nat, Table(f, n), NEW S PROVE Table(Drop(f, S), n)
BY DropMap DEF Table

LEMMA Fresh ==
    ASSUME NEW f, NEW n \in Nat, Table(f, n) PROVE n + 1 \notin DOMAIN f
BY DEF Table

---------------------------------------------------------------------------
(* The commands on tokens.                                                   *)

LEMMA CreateTokenOK ==
    ASSUME NEW s, NEW c, NEW n \in Nat, Good(s, n), c.name \notin DOMAIN s.tokensByName,
           NEW d, d = CreateToken(s, c, n + 1)
    PROVE  /\ Good(d, n + 1) /\ Same(s, d, Fields \ TokenFields)
           /\ d.tokens = Put(s.tokens, n + 1, [name |-> c.name, cred |-> c.cred, on |-> TRUE])
<1> DEFINE row == [name |-> c.name, cred |-> c.cred, on |-> TRUE]
<1>1. /\ IsState(d) /\ Same(s, d, Fields \ TokenFields)
      /\ d.tokens = Put(s.tokens, n + 1, row)
      /\ d.tokensByPrefix = s.tokensByPrefix \cup {<<c.cred, n + 1>>}
      /\ d.tokensByName = Put(s.tokensByName, c.name, n + 1)
  BY DEF Good, IsState, Fields, Same, TokenFields, CreateToken
<1>2. n + 1 \notin DOMAIN s.tokens /\ Table(d.tokens, n + 1)
  BY <1>1, Fresh, TablePut DEF Good, TokensOK
<1>3. /\ TokenNames(d.tokens) = Put(TokenNames(s.tokens), n + 1, c.name)
      /\ TokenCreds(d.tokens) = Put(TokenCreds(s.tokens), n + 1, c.cred)
  <2>1. row.name = c.name /\ row.cred = c.cred
    OBVIOUS
  <2> QED
    BY <1>1, <2>1, TokenColumns
<1>4. n + 1 \notin DOMAIN TokenNames(s.tokens) /\ n + 1 \notin DOMAIN TokenCreds(s.tokens)
  BY <1>2 DEF TokenNames, TokenCreds
<1>5. Unique(d.tokensByName, TokenNames(d.tokens))
  BY <1>1, <1>3, <1>4, UniquePut DEF Good, TokensOK
<1>6. Grouping(d.tokensByPrefix, TokenCreds(d.tokens))
  BY <1>1, <1>3, <1>4, GroupingPut DEF Good, TokensOK
<1>7. \A t : t \in DOMAIN d.tokens <=> t \in DOMAIN s.tokens \/ t = n + 1
  BY <1>1, PutMap
<1>8. ASSUME NEW t \in DOMAIN d.tokens
      PROVE  d.tokens[t] = [name |-> d.tokens[t].name, cred |-> d.tokens[t].cred, on |-> d.tokens[t].on]
  <2>1. CASE t = n + 1
    BY <2>1, <1>1, PutMap
  <2>2. CASE t # n + 1
    BY <2>2, <1>1, <1>7, PutMap DEF Good, TokensOK
  <2> QED
    BY <2>1, <2>2
<1>9. TokensOK(d, n + 1)
  BY <1>2, <1>5, <1>6, <1>8 DEF TokensOK
<1>10. /\ Same(s, d, OrgFields) /\ Same(s, d, TeamFields) /\ Same(s, d, RoleFields)
       /\ Same(s, d, MPermFields) /\ Same(s, d, MemberFields)
  BY <1>1 DEF Same, Fields, TokenFields, OrgFields, TeamFields, RoleFields, MPermFields, MemberFields
<1>11. /\ OrgsOK(d, n + 1) /\ TeamsOK(d, n + 1) /\ RolesOK(d, n + 1)
       /\ MPermsOK(d, n + 1) /\ MembersOK(d, n + 1)
  <2>1. n + 1 \in Nat /\ n <= n + 1
    OBVIOUS
  <2> QED
    BY <1>10, <2>1, PartsKept DEF Good
<1>12. Linked(d)
  BY <1>7, <1>10 DEF Good, Linked, Same, OrgFields, TeamFields, RoleFields, MPermFields, MemberFields
<1> QED
  BY <1>1, <1>9, <1>11, <1>12 DEF Good

LEMMA TokenRow ==
    ASSUME NEW r, r = [name |-> r.name, cred |-> r.cred, on |-> r.on], NEW v
    PROVE  /\ [r EXCEPT !.name = v] = [name |-> v, cred |-> r.cred, on |-> r.on]
           /\ [r EXCEPT !.cred = v] = [name |-> r.name, cred |-> v, on |-> r.on]
           /\ [r EXCEPT !.on = v] = [name |-> r.name, cred |-> r.cred, on |-> v]
<1>1. ASSUME NEW a, NEW b, NEW e, r = [name |-> a, cred |-> b, on |-> e]
      PROVE  /\ [r EXCEPT !.name = v] = [name |-> v, cred |-> b, on |-> e]
             /\ [r EXCEPT !.cred = v] = [name |-> a, cred |-> v, on |-> e]
             /\ [r EXCEPT !.on = v] = [name |-> a, cred |-> b, on |-> v]
  BY <1>1
<1> QED
  BY <1>1

\* A row of tokens is rewritten: the other tables stay as they are.
LEMMA TokenRewritten ==
    ASSUME NEW s, NEW n \in Nat, Good(s, n), NEW d, IsState(d), Same(s, d, Fields \ TokenFields),
           NEW id \in DOMAIN s.tokens, NEW name, NEW cred, NEW on,
           d.tokens = [s.tokens EXCEPT ![id] = [name |-> name, cred |-> cred, on |-> on]],
           Unique(d.tokensByName, [TokenNames(s.tokens) EXCEPT ![id] = name]),
           Grouping(d.tokensByPrefix, [TokenCreds(s.tokens) EXCEPT ![id] = cred])
    PROVE  Good(d, n + 1)
<1>1. IsMap(d.tokens) /\ DOMAIN d.tokens = DOMAIN s.tokens
  BY DEF IsMap
<1>2. Table(d.tokens, n + 1)
  BY <1>1 DEF Good, TokensOK, Table
<1>3. /\ TokenNames(d.tokens) = [TokenNames(s.tokens) EXCEPT ![id] = name]
      /\ TokenCreds(d.tokens) = [TokenCreds(s.tokens) EXCEPT ![id] = cred]
  <2>1. \A t \in DOMAIN s.tokens : /\ t = id => d.tokens[t].name = name /\ d.tokens[t].cred = cred
                                  /\ t # id => d.tokens[t] = s.tokens[t]
    OBVIOUS
  <2>2. /\ TokenNames(d.tokens) = [t \in DOMAIN s.tokens |-> IF t = id THEN name ELSE s.tokens[t].name]
        /\ TokenCreds(d.tokens) = [t \in DOMAIN s.tokens |-> IF t = id THEN cred ELSE s.tokens[t].cred]
    BY <1>1, <2>1 DEF TokenNames, TokenCreds
  <2>3. /\ [TokenNames(s.tokens) EXCEPT ![id] = name]
              = [t \in DOMAIN s.tokens |-> IF t = id THEN name ELSE s.tokens[t].name]
        /\ [TokenCreds(s.tokens) EXCEPT ![id] = cred]
              = [t \in DOMAIN s.tokens |-> IF t = id THEN cred ELSE s.tokens[t].cred]
    BY DEF TokenNames, TokenCreds
  <2> QED
    BY <2>2, <2>3
<1>4. ASSUME NEW t \in DOMAIN d.tokens
      PROVE  d.tokens[t] = [name |-> d.tokens[t].name, cred |-> d.tokens[t].cred, on |-> d.tokens[t].on]
  BY <1>1 DEF Good, TokensOK
<1>5. TokensOK(d, n + 1)
  BY <1>2, <1>3, <1>4 DEF TokensOK
<1>6. /\ Same(s, d, OrgFields) /\ Same(s, d, TeamFields) /\ Same(s, d, RoleFields)
      /\ Same(s, d, MPermFields) /\ Same(s, d, MemberFields)
  BY DEF Same, Fields, TokenFields, OrgFields, TeamFields, RoleFields, MPermFields, MemberFields
<1>7. /\ OrgsOK(d, n + 1) /\ TeamsOK(d, n + 1) /\ RolesOK(d, n + 1)
      /\ MPermsOK(d, n + 1) /\ MembersOK(d, n + 1)
  <2>1. n + 1 \in Nat /\ n <= n + 1
    OBVIOUS
  <2> QED
    BY <1>6, <2>1, PartsKept DEF Good
<1>8. Linked(d)
  BY <1>1, <1>6 DEF Good, Linked, Same, OrgFields, TeamFields, RoleFields, MPermFields, MemberFields
<1> QED
  BY <1>5, <1>7, <1>8 DEF Good

LEMMA UpdateTokenOK ==
    ASSUME NEW s, NEW c, NEW n \in Nat, Good(s, n), c.id \in DOMAIN s.tokens,
           c.name \in DOMAIN s.tokensByName => s.tokensByName[c.name] = c.id,
           NEW d, d = UpdateToken(s, c)
    PROVE  /\ Good(d, n + 1) /\ Same(s, d, Fields \ TokenFields)
           /\ d.tokens = [s.tokens EXCEPT ![c.id] = [s.tokens[c.id] EXCEPT !.name = c.name]]
<1> DEFINE old == s.tokens[c.id]
           names == TokenNames(s.tokens)
           creds == TokenCreds(s.tokens)
<1>1. /\ IsState(d) /\ Same(s, d, Fields \ TokenFields)
      /\ d.tokens = [s.tokens EXCEPT ![c.id] = [old EXCEPT !.name = c.name]]
      /\ d.tokensByPrefix = s.tokensByPrefix
      /\ d.tokensByName = Put(Drop(s.tokensByName, {old.name}), c.name, c.id)
  BY DEF Good, IsState, Fields, Same, TokenFields, UpdateToken
<1>2. [old EXCEPT !.name = c.name] = [name |-> c.name, cred |-> old.cred, on |-> old.on]
  BY TokenRow DEF Good, TokensOK
<1>3. names[c.id] = old.name /\ c.id \in DOMAIN names
  BY DEF TokenNames
<1>4. Unique(d.tokensByName, [names EXCEPT ![c.id] = c.name])
  BY <1>1, <1>3, UniqueMove DEF Good, TokensOK
<1>5. [creds EXCEPT ![c.id] = old.cred] = creds
  BY DEF TokenCreds
<1>6. Grouping(d.tokensByPrefix, [creds EXCEPT ![c.id] = old.cred])
  BY <1>1, <1>5 DEF Good, TokensOK
<1>7. d.tokens = [s.tokens EXCEPT ![c.id] = [name |-> c.name, cred |-> old.cred, on |-> old.on]]
  BY <1>1, <1>2
<1> QED
  BY <1>1, <1>4, <1>6, <1>7, TokenRewritten

LEMMA RevokeTokenOK ==
    ASSUME NEW s, NEW c, NEW n \in Nat, Good(s, n), c.id \in DOMAIN s.tokens,
           NEW d, d = RevokeToken(s, c)
    PROVE  /\ Good(d, n + 1) /\ Same(s, d, Fields \ TokenFields)
           /\ d.tokens = [s.tokens EXCEPT ![c.id] = [s.tokens[c.id] EXCEPT !.on = FALSE]]
<1> DEFINE old == s.tokens[c.id]
           names == TokenNames(s.tokens)
           creds == TokenCreds(s.tokens)
<1>1. /\ IsState(d) /\ Same(s, d, Fields \ TokenFields)
      /\ d.tokens = [s.tokens EXCEPT ![c.id] = [old EXCEPT !.on = FALSE]]
      /\ d.tokensByPrefix = s.tokensByPrefix
      /\ d.tokensByName = s.tokensByName
  BY DEF Good, IsState, Fields, Same, TokenFields, RevokeToken
<1>2. [old EXCEPT !.on = FALSE] = [name |-> old.name, cred |-> old.cred, on |-> FALSE]
  BY TokenRow DEF Good, TokensOK
<1>3. /\ [names EXCEPT ![c.id] = old.name] = names
      /\ [creds EXCEPT ![c.id] = old.cred] = creds
  BY DEF TokenNames, TokenCreds
<1>4. /\ Unique(d.tokensByName, [names EXCEPT ![c.id] = old.name])
      /\ Grouping(d.tokensByPrefix, [creds EXCEPT ![c.id] = old.cred])
  BY <1>1, <1>3 DEF Good, TokensOK
<1>5. d.tokens = [s.tokens EXCEPT ![c.id] = [name |-> old.name, cred |-> old.cred, on |-> FALSE]]
  BY <1>1, <1>2
<1> QED
  BY <1>1, <1>4, <1>5, TokenRewritten

LEMMA RotateTokenOK ==
    ASSUME NEW s, NEW c, NEW n \in Nat, Good(s, n), c.id \in DOMAIN s.tokens,
           NEW d, d = RotateToken(s, c)
    PROVE  /\ Good(d, n + 1) /\ Same(s, d, Fields \ TokenFields)
           /\ d.tokens = [s.tokens EXCEPT ![c.id] = [s.tokens[c.id] EXCEPT !.cred = c.cred]]
<1> DEFINE old == s.tokens[c.id]
           names == TokenNames(s.tokens)
           creds == TokenCreds(s.tokens)
<1>1. /\ IsState(d) /\ Same(s, d, Fields \ TokenFields)
      /\ d.tokens = [s.tokens EXCEPT ![c.id] = [old EXCEPT !.cred = c.cred]]
      /\ d.tokensByPrefix = (s.tokensByPrefix \ {<<old.cred, c.id>>}) \cup {<<c.cred, c.id>>}
      /\ d.tokensByName = s.tokensByName
  BY DEF Good, IsState, Fields, Same, TokenFields, RotateToken
<1>2. [old EXCEPT !.cred = c.cred] = [name |-> old.name, cred |-> c.cred, on |-> old.on]
  <2>1. old = [name |-> old.name, cred |-> old.cred, on |-> old.on]
    BY DEF Good, TokensOK
  <2> QED
    BY <2>1, TokenRow
<1>3. /\ [names EXCEPT ![c.id] = old.name] = names
      /\ creds[c.id] = old.cred /\ c.id \in DOMAIN creds
  BY DEF TokenNames, TokenCreds
<1>4. Unique(d.tokensByName, [names EXCEPT ![c.id] = old.name])
  BY <1>1, <1>3 DEF Good, TokensOK
<1>5. Grouping(d.tokensByPrefix, [creds EXCEPT ![c.id] = c.cred])
  <2>1. d.tokensByPrefix = (s.tokensByPrefix \ {<<creds[c.id], c.id>>}) \cup {<<c.cred, c.id>>}
    BY <1>1, <1>3
  <2>2. Grouping(s.tokensByPrefix, creds)
    BY DEF Good, TokensOK
  <2> HIDE DEF creds
  <2>3. Grouping((s.tokensByPrefix \ {<<creds[c.id], c.id>>}) \cup {<<c.cred, c.id>>},
                 [creds EXCEPT ![c.id] = c.cred])
    BY <1>3, <2>2, GroupingMove
  <2> QED
    BY <2>1, <2>3
<1>6. d.tokens = [s.tokens EXCEPT ![c.id] = [name |-> old.name, cred |-> c.cred, on |-> old.on]]
  BY <1>1, <1>2
<1> QED
  BY <1>1, <1>4, <1>5, <1>6, TokenRewritten

\* Memberships leave their table and the three indices.
LEMMA DropMembersOK ==
    ASSUME NEW s, NEW n \in Nat, IsState(s), MembersOK(s, n), NEW ms, ms \subseteq DOMAIN s.members,
           NEW d, d = DropMembers(s, ms)
    PROVE  /\ IsState(d) /\ Same(s, d, Fields \ MemberFields)
           /\ d.members = Drop(s.members, ms) /\ MembersOK(d, n)
<1> DEFINE keys == MemberKeys(s.members)
           tokens == MemberTokens(s.members)
           teams == MemberTeams(s.members)
<1>1. /\ IsState(d) /\ Same(s, d, Fields \ MemberFields)
      /\ d.members = Drop(s.members, ms)
      /\ d.byPair = Drop(s.byPair, {<<s.members[m].token, s.members[m].team>> : m \in ms})
      /\ d.byToken = s.byToken \ {<<s.members[m].token, m>> : m \in ms}
      /\ d.byTeam = s.byTeam \ {<<s.members[m].team, m>> : m \in ms}
  BY DEF IsState, Fields, Same, MemberFields, DropMembers
<1>2. /\ {<<s.members[m].token, s.members[m].team>> : m \in ms} = {keys[m] : m \in ms}
      /\ {<<s.members[m].token, m>> : m \in ms} = {<<tokens[m], m>> : m \in ms}
      /\ {<<s.members[m].team, m>> : m \in ms} = {<<teams[m], m>> : m \in ms}
  BY DEF MemberKeys, MemberTokens, MemberTeams
<1>3. /\ ms \subseteq DOMAIN keys /\ ms \subseteq DOMAIN tokens /\ ms \subseteq DOMAIN teams
  BY DEF MemberKeys, MemberTokens, MemberTeams
<1>4. /\ MemberKeys(d.members) = Drop(keys, ms)
      /\ MemberTokens(d.members) = Drop(tokens, ms)
      /\ MemberTeams(d.members) = Drop(teams, ms)
  BY <1>1, MemberColumns
<1> HIDE DEF keys, tokens, teams
<1>5. Unique(d.byPair, MemberKeys(d.members))
  BY <1>1, <1>2, <1>3, <1>4, UniqueDrop DEF MembersOK, keys
<1>6. Grouping(d.byToken, MemberTokens(d.members))
  BY <1>1, <1>2, <1>3, <1>4, GroupingDrop DEF MembersOK, tokens
<1>7. Grouping(d.byTeam, MemberTeams(d.members))
  BY <1>1, <1>2, <1>3, <1>4, GroupingDrop DEF MembersOK, teams
<1>8. Table(d.members, n)
  BY <1>1, TableDrop DEF MembersOK
<1>9. ASSUME NEW m \in DOMAIN d.members
      PROVE  d.members[m] = [token |-> d.members[m].token, team |-> d.members[m].team]
  BY <1>1, DropMap DEF MembersOK
<1> QED
  BY <1>1, <1>5, <1>6, <1>7, <1>8, <1>9 DEF MembersOK

LEMMA MembersOfToken ==
    ASSUME NEW s, NEW n \in Nat, MembersOK(s, n), NEW K
    PROVE  MembersOf(s, s.byToken, K) = {m \in DOMAIN s.members : s.members[m].token \in K}
<1>1. \A m : m \in {p[2] : p \in {q \in s.byToken : q[1] \in K}}
            <=> m \in DOMAIN MemberTokens(s.members) /\ MemberTokens(s.members)[m] \in K
  BY GroupingOf DEF MembersOK
<1> QED
  BY <1>1 DEF MembersOf, MemberTokens

LEMMA MembersOfTeam ==
    ASSUME NEW s, NEW n \in Nat, MembersOK(s, n), NEW K
    PROVE  MembersOf(s, s.byTeam, K) = {m \in DOMAIN s.members : s.members[m].team \in K}
<1>1. \A m : m \in {p[2] : p \in {q \in s.byTeam : q[1] \in K}}
            <=> m \in DOMAIN MemberTeams(s.members) /\ MemberTeams(s.members)[m] \in K
  BY GroupingOf DEF MembersOK
<1> QED
  BY <1>1 DEF MembersOf, MemberTeams

\* What a token or a role has below it.
Memberships(s, t) == {m \in DOMAIN s.members : s.members[m].token = t}
Permissions(s, r) == {p \in DOMAIN s.mperms : s.mperms[p].role = r}

LEMMA DeleteTokenOK ==
    ASSUME NEW s, NEW c, NEW n \in Nat, Good(s, n), c.id \in DOMAIN s.tokens,
           NEW d, d = DeleteToken(s, c)
    PROVE  /\ Good(d, n + 1) /\ Same(s, d, Fields \ (TokenFields \cup MemberFields))
           /\ d.tokens = Drop(s.tokens, {c.id})
           /\ d.members = Drop(s.members, Memberships(s, c.id))
<1> DEFINE ms == MembersOf(s, s.byToken, {c.id})
           e == DropMembers(s, ms)
           names == TokenNames(s.tokens)
           creds == TokenCreds(s.tokens)
<1>1. ms = {m \in DOMAIN s.members : s.members[m].token = c.id}
  BY MembersOfToken DEF Good
<1>2. /\ IsState(e) /\ Same(s, e, Fields \ MemberFields)
      /\ e.members = Drop(s.members, ms) /\ MembersOK(e, n)
  BY <1>1, DropMembersOK DEF Good
<1> HIDE DEF ms
<1>3. d = [e EXCEPT !.tokens = Drop(@, {c.id}),
                    !.tokensByPrefix = @ \ {<<s.tokens[c.id].cred, c.id>>},
                    !.tokensByName = Drop(@, {s.tokens[c.id].name}),
                    !.byToken = {p \in @ : p[1] # c.id}]
  BY DEF DeleteToken, ms
<1> HIDE DEF e
<1>4. /\ IsState(d) /\ Same(e, d, Fields \ (TokenFields \cup {"byToken"}))
      /\ d.tokens = Drop(e.tokens, {c.id})
      /\ d.tokensByPrefix = e.tokensByPrefix \ {<<s.tokens[c.id].cred, c.id>>}
      /\ d.tokensByName = Drop(e.tokensByName, {s.tokens[c.id].name})
      /\ d.byToken = {p \in e.byToken : p[1] # c.id}
  BY <1>2, <1>3 DEF IsState, Fields, Same, TokenFields
<1>5. e.tokens = s.tokens /\ e.tokensByPrefix = s.tokensByPrefix /\ e.tokensByName = s.tokensByName
  BY <1>2 DEF Same, Fields, MemberFields
<1>6. Same(s, d, Fields \ (TokenFields \cup MemberFields))
  BY <1>2, <1>4 DEF Same, Fields, TokenFields, MemberFields
<1>7. d.byToken = e.byToken
  <2>1. \A m \in DOMAIN e.members : e.members[m].token # c.id
    BY <1>1, <1>2, DropMap
  <2>2. Grouping(e.byToken, MemberTokens(e.members))
    BY <1>2 DEF MembersOK
  <2>3. ASSUME NEW p \in e.byToken PROVE p[1] # c.id
    <3>1. PICK m \in DOMAIN MemberTokens(e.members) : p = <<MemberTokens(e.members)[m], m>>
      BY <2>2 DEF Grouping
    <3>2. m \in DOMAIN e.members /\ p[1] = e.members[m].token
      BY <3>1 DEF MemberTokens
    <3> QED
      BY <2>1, <3>2
  <2> QED
    BY <1>4, <2>3
<1>8. MembersOK(d, n + 1)
  <2>1. Same(e, d, MemberFields)
    BY <1>4, <1>7 DEF Same, Fields, TokenFields, MemberFields
  <2>2. n + 1 \in Nat /\ n <= n + 1
    OBVIOUS
  <2> QED
    BY <1>2, <2>1, <2>2, PartsKept
<1>9. TokensOK(d, n + 1)
  <2>1. Table(d.tokens, n + 1)
    <3>1. Table(s.tokens, n) /\ n + 1 \in Nat /\ n <= n + 1
      BY DEF Good, TokensOK
    <3> QED
      BY <3>1, <1>4, <1>5, TableDrop, TableLater
  <2>2. \A t \in DOMAIN d.tokens :
            d.tokens[t] = [name |-> d.tokens[t].name, cred |-> d.tokens[t].cred, on |-> d.tokens[t].on]
    <3>1. \A t \in DOMAIN d.tokens : t \in DOMAIN s.tokens /\ d.tokens[t] = s.tokens[t]
      BY <1>4, <1>5, DropMap
    <3> QED
      BY <3>1 DEF Good, TokensOK
  <2>3. TokenNames(d.tokens) = Drop(names, {c.id}) /\ TokenCreds(d.tokens) = Drop(creds, {c.id})
    BY <1>4, <1>5, TokenColumns
  <2>4. /\ {s.tokens[c.id].name} = {names[t] : t \in {c.id}}
        /\ {<<s.tokens[c.id].cred, c.id>>} = {<<creds[t], t>> : t \in {c.id}}
        /\ {c.id} \subseteq DOMAIN names /\ {c.id} \subseteq DOMAIN creds
    BY DEF TokenNames, TokenCreds
  <2> HIDE DEF names, creds
  <2>5. Unique(d.tokensByName, TokenNames(d.tokens))
    BY <1>4, <1>5, <2>3, <2>4, UniqueDrop DEF Good, TokensOK, names
  <2>6. Grouping(d.tokensByPrefix, TokenCreds(d.tokens))
    BY <1>4, <1>5, <2>3, <2>4, GroupingDrop DEF Good, TokensOK, creds
  <2> QED
    BY <2>1, <2>2, <2>5, <2>6 DEF TokensOK
<1>10. /\ Same(s, d, OrgFields) /\ Same(s, d, TeamFields) /\ Same(s, d, RoleFields)
       /\ Same(s, d, MPermFields)
  BY <1>6 DEF Same, Fields, TokenFields, OrgFields, TeamFields, RoleFields, MPermFields, MemberFields
<1>11. /\ OrgsOK(d, n + 1) /\ TeamsOK(d, n + 1) /\ RolesOK(d, n + 1) /\ MPermsOK(d, n + 1)
  <2>1. n + 1 \in Nat /\ n <= n + 1
    OBVIOUS
  <2> QED
    BY <1>10, <2>1, PartsKept DEF Good
<1>12. d.members = Drop(s.members, ms)
  BY <1>2, <1>4 DEF Same, Fields, TokenFields
<1>13. Linked(d)
  <2>1. \A t : t \in DOMAIN d.tokens <=> t \in DOMAIN s.tokens /\ t # c.id
    BY <1>4, <1>5, DropMap
  <2>2. \A m \in DOMAIN d.members : /\ m \in DOMAIN s.members /\ d.members[m] = s.members[m]
                                    /\ s.members[m].token # c.id
    BY <1>1, <1>12, DropMap
  <2> QED
    BY <1>10, <2>1, <2>2 DEF Good, Linked, Same, OrgFields, TeamFields, RoleFields, MPermFields
<1> QED
  BY <1>1, <1>4, <1>5, <1>6, <1>8, <1>9, <1>11, <1>12, <1>13 DEF Good, Memberships

---------------------------------------------------------------------------
(* The commands on organizations and teams.                                  *)

LEMMA CreateOrgOK ==
    ASSUME NEW s, NEW c, NEW n \in Nat, Good(s, n), c.name \notin DOMAIN s.orgsByName,
           NEW d, d = CreateOrg(s, c, n + 1)
    PROVE  /\ Good(d, n + 1) /\ Same(s, d, Fields \ OrgFields)
           /\ d.orgs = Put(s.orgs, n + 1, [name |-> c.name])
<1> DEFINE row == [name |-> c.name]
<1>1. /\ IsState(d) /\ Same(s, d, Fields \ OrgFields)
      /\ d.orgs = Put(s.orgs, n + 1, row)
      /\ d.orgsByName = Put(s.orgsByName, c.name, n + 1)
  BY DEF Good, IsState, Fields, Same, OrgFields, CreateOrg
<1>2. n + 1 \notin DOMAIN s.orgs /\ Table(d.orgs, n + 1)
  BY <1>1, Fresh, TablePut DEF Good, OrgsOK
<1>3. OrgNames(d.orgs) = Put(OrgNames(s.orgs), n + 1, c.name)
  <2>1. row.name = c.name
    OBVIOUS
  <2> QED
    BY <1>1, <2>1, OrgColumns
<1>4. n + 1 \notin DOMAIN OrgNames(s.orgs)
  BY <1>2 DEF OrgNames
<1>5. Unique(d.orgsByName, OrgNames(d.orgs))
  BY <1>1, <1>3, <1>4, UniquePut DEF Good, OrgsOK
<1>6. \A o : o \in DOMAIN d.orgs <=> o \in DOMAIN s.orgs \/ o = n + 1
  BY <1>1, PutMap
<1>7. ASSUME NEW o \in DOMAIN d.orgs PROVE d.orgs[o] = [name |-> d.orgs[o].name]
  <2>1. CASE o = n + 1
    BY <2>1, <1>1, PutMap
  <2>2. CASE o # n + 1
    BY <2>2, <1>1, <1>6, PutMap DEF Good, OrgsOK
  <2> QED
    BY <2>1, <2>2
<1>8. OrgsOK(d, n + 1)
  BY <1>2, <1>5, <1>7 DEF OrgsOK
<1>9. /\ Same(s, d, TokenFields) /\ Same(s, d, TeamFields) /\ Same(s, d, RoleFields)
      /\ Same(s, d, MPermFields) /\ Same(s, d, MemberFields)
  BY <1>1 DEF Same, Fields, TokenFields, OrgFields, TeamFields, RoleFields, MPermFields, MemberFields
<1>10. /\ TokensOK(d, n + 1) /\ TeamsOK(d, n + 1) /\ RolesOK(d, n + 1)
       /\ MPermsOK(d, n + 1) /\ MembersOK(d, n + 1)
  <2>1. n + 1 \in Nat /\ n <= n + 1
    OBVIOUS
  <2> QED
    BY <1>9, <2>1, PartsKept DEF Good
<1>11. Linked(d)
  BY <1>6, <1>9 DEF Good, Linked, Same, TokenFields, TeamFields, RoleFields, MPermFields, MemberFields
<1> QED
  BY <1>1, <1>8, <1>10, <1>11 DEF Good

LEMMA UpdateOrgOK ==
    ASSUME NEW s, NEW c, NEW n \in Nat, Good(s, n), c.id \in DOMAIN s.orgs,
           c.name # s.orgs[c.id].name => c.name \notin DOMAIN s.orgsByName,
           NEW d, d = UpdateOrg(s, c)
    PROVE  Good(d, n + 1) /\ Same(s, d, Fields \ OrgFields)
<1> DEFINE old == s.orgs[c.id]
           names == OrgNames(s.orgs)
<1>1. /\ IsState(d) /\ Same(s, d, Fields \ OrgFields)
      /\ d.orgs = [s.orgs EXCEPT ![c.id] = [old EXCEPT !.name = c.name]]
      /\ d.orgsByName = Put(Drop(s.orgsByName, {old.name}), c.name, c.id)
  BY DEF Good, IsState, Fields, Same, OrgFields, UpdateOrg
<1>2. [old EXCEPT !.name = c.name] = [name |-> c.name]
  <2>1. PICK a : old = [name |-> a]
    BY DEF Good, OrgsOK
  <2> QED
    BY <2>1
<1>3. names[c.id] = old.name /\ c.id \in DOMAIN names
  BY DEF OrgNames
<1>4. Unique(s.orgsByName, names)
  BY DEF Good, OrgsOK
<1>5. c.name \in DOMAIN s.orgsByName => s.orgsByName[c.name] = c.id
  BY <1>3, <1>4 DEF Unique
<1>6. Unique(d.orgsByName, [names EXCEPT ![c.id] = c.name])
  <2> HIDE DEF names
  <2> QED
    BY <1>1, <1>3, <1>4, <1>5, UniqueMove
<1>7. IsMap(d.orgs) /\ DOMAIN d.orgs = DOMAIN s.orgs
  BY <1>1 DEF IsMap
<1>8. \A o \in DOMAIN s.orgs : /\ o = c.id => d.orgs[o] = [name |-> c.name]
                               /\ o # c.id => d.orgs[o] = s.orgs[o]
  BY <1>1, <1>2
<1>9. OrgNames(d.orgs) = [names EXCEPT ![c.id] = c.name]
  <2>1. OrgNames(d.orgs) = [o \in DOMAIN s.orgs |-> IF o = c.id THEN c.name ELSE s.orgs[o].name]
    BY <1>7, <1>8 DEF OrgNames
  <2>2. [names EXCEPT ![c.id] = c.name]
            = [o \in DOMAIN s.orgs |-> IF o = c.id THEN c.name ELSE s.orgs[o].name]
    BY DEF OrgNames
  <2> QED
    BY <2>1, <2>2
<1>10. OrgsOK(d, n + 1)
  <2>1. Table(d.orgs, n + 1)
    BY <1>7 DEF Good, OrgsOK, Table
  <2>2. \A o \in DOMAIN d.orgs : d.orgs[o] = [name |-> d.orgs[o].name]
    BY <1>7, <1>8 DEF Good, OrgsOK
  <2> QED
    BY <2>1, <2>2, <1>6, <1>9 DEF OrgsOK
<1>11. /\ Same(s, d, TokenFields) /\ Same(s, d, TeamFields) /\ Same(s, d, RoleFields)
       /\ Same(s, d, MPermFields) /\ Same(s, d, MemberFields)
  BY <1>1 DEF Same, Fields, TokenFields, OrgFields, TeamFields, RoleFields, MPermFields, MemberFields
<1>12. /\ TokensOK(d, n + 1) /\ TeamsOK(d, n + 1) /\ RolesOK(d, n + 1)
       /\ MPermsOK(d, n + 1) /\ MembersOK(d, n + 1)
  <2>1. n + 1 \in Nat /\ n <= n + 1
    OBVIOUS
  <2> QED
    BY <1>11, <2>1, PartsKept DEF Good
<1>13. Linked(d)
  BY <1>7, <1>11 DEF Good, Linked, Same, TokenFields, TeamFields, RoleFields, MPermFields, MemberFields
<1> QED
  BY <1>1, <1>10, <1>12, <1>13 DEF Good

LEMMA CreateTeamOK ==
    ASSUME NEW s, NEW c, NEW n \in Nat, Good(s, n), c.org \in DOMAIN s.orgs,
           <<c.org, c.name>> \notin DOMAIN s.teamsByOrg,
           NEW d, d = CreateTeam(s, c, n + 1)
    PROVE  /\ Good(d, n + 1) /\ Same(s, d, Fields \ TeamFields)
           /\ d.teams = Put(s.teams, n + 1, [org |-> c.org, name |-> c.name])
<1> DEFINE row == [org |-> c.org, name |-> c.name]
<1>1. /\ IsState(d) /\ Same(s, d, Fields \ TeamFields)
      /\ d.teams = Put(s.teams, n + 1, row)
      /\ d.teamsByOrg = Put(s.teamsByOrg, <<c.org, c.name>>, n + 1)
  BY DEF Good, IsState, Fields, Same, TeamFields, CreateTeam
<1>2. n + 1 \notin DOMAIN s.teams /\ Table(d.teams, n + 1)
  BY <1>1, Fresh, TablePut DEF Good, TeamsOK
<1>3. TeamKeys(d.teams) = Put(TeamKeys(s.teams), n + 1, <<c.org, c.name>>)
  <2>1. row.org = c.org /\ row.name = c.name
    OBVIOUS
  <2> QED
    BY <1>1, <2>1, TeamColumns
<1>4. n + 1 \notin DOMAIN TeamKeys(s.teams)
  BY <1>2 DEF TeamKeys
<1>5. Unique(d.teamsByOrg, TeamKeys(d.teams))
  BY <1>1, <1>3, <1>4, UniquePut DEF Good, TeamsOK
<1>6. /\ \A t : t \in DOMAIN d.teams <=> t \in DOMAIN s.teams \/ t = n + 1
      /\ d.teams[n + 1] = row
      /\ \A t \in DOMAIN s.teams : d.teams[t] = s.teams[t]
  BY <1>1, <1>2, PutMap
<1>7. \A t \in DOMAIN d.teams : d.teams[t] = [org |-> d.teams[t].org, name |-> d.teams[t].name]
  BY <1>6 DEF Good, TeamsOK
<1>8. TeamsOK(d, n + 1)
  BY <1>2, <1>5, <1>7 DEF TeamsOK
<1>9. /\ Same(s, d, TokenFields) /\ Same(s, d, OrgFields) /\ Same(s, d, RoleFields)
      /\ Same(s, d, MPermFields) /\ Same(s, d, MemberFields)
  BY <1>1 DEF Same, Fields, TokenFields, OrgFields, TeamFields, RoleFields, MPermFields, MemberFields
<1>10. /\ TokensOK(d, n + 1) /\ OrgsOK(d, n + 1) /\ RolesOK(d, n + 1)
       /\ MPermsOK(d, n + 1) /\ MembersOK(d, n + 1)
  <2>1. n + 1 \in Nat /\ n <= n + 1
    OBVIOUS
  <2> QED
    BY <1>9, <2>1, PartsKept DEF Good
<1>11. Linked(d)
  <2>1. c.org < n + 1
    BY DEF Good, OrgsOK, Table
  <2> QED
    BY <1>6, <1>9, <2>1 DEF Good, Linked, Same, TokenFields, OrgFields, RoleFields, MPermFields, MemberFields
<1> QED
  BY <1>1, <1>8, <1>10, <1>11 DEF Good

LEMMA UpdateTeamOK ==
    ASSUME NEW s, NEW c, NEW n \in Nat, Good(s, n), c.id \in DOMAIN s.teams,
           c.name # s.teams[c.id].name => <<s.teams[c.id].org, c.name>> \notin DOMAIN s.teamsByOrg,
           NEW d, d = UpdateTeam(s, c)
    PROVE  Good(d, n + 1) /\ Same(s, d, Fields \ TeamFields)
<1> DEFINE old == s.teams[c.id]
           key == <<old.org, c.name>>
           keys == TeamKeys(s.teams)
<1>1. /\ IsState(d) /\ Same(s, d, Fields \ TeamFields)
      /\ d.teams = [s.teams EXCEPT ![c.id] = [old EXCEPT !.name = c.name]]
      /\ d.teamsByOrg = Put(Drop(s.teamsByOrg, {<<old.org, old.name>>}), key, c.id)
  BY DEF Good, IsState, Fields, Same, TeamFields, UpdateTeam
<1>2. [old EXCEPT !.name = c.name] = [org |-> old.org, name |-> c.name]
  <2>1. \A r, a, b : r = [org |-> a, name |-> b] =>
            [r EXCEPT !.name = c.name] = [org |-> a, name |-> c.name]
    OBVIOUS
  <2>2. old = [org |-> old.org, name |-> old.name]
    BY DEF Good, TeamsOK
  <2> QED
    BY <2>1, <2>2
<1>3. keys[c.id] = <<old.org, old.name>> /\ c.id \in DOMAIN keys
  BY DEF TeamKeys
<1>4. Unique(s.teamsByOrg, keys)
  BY DEF Good, TeamsOK
<1>5. key \in DOMAIN s.teamsByOrg => s.teamsByOrg[key] = c.id
  BY <1>3, <1>4 DEF Unique
<1>6. Unique(d.teamsByOrg, [keys EXCEPT ![c.id] = key])
  <2> HIDE DEF keys, key
  <2> QED
    BY <1>1, <1>3, <1>4, <1>5, UniqueMove
<1>7. IsMap(d.teams) /\ DOMAIN d.teams = DOMAIN s.teams
  BY <1>1 DEF IsMap
<1>8. \A t \in DOMAIN s.teams : /\ t = c.id => d.teams[t] = [org |-> old.org, name |-> c.name]
                                /\ t # c.id => d.teams[t] = s.teams[t]
  BY <1>1, <1>2
<1>9. TeamKeys(d.teams) = [keys EXCEPT ![c.id] = key]
  <2>1. TeamKeys(d.teams)
            = [t \in DOMAIN s.teams |-> IF t = c.id THEN key ELSE <<s.teams[t].org, s.teams[t].name>>]
    BY <1>7, <1>8 DEF TeamKeys
  <2>2. [keys EXCEPT ![c.id] = key]
            = [t \in DOMAIN s.teams |-> IF t = c.id THEN key ELSE <<s.teams[t].org, s.teams[t].name>>]
    BY DEF TeamKeys
  <2> QED
    BY <2>1, <2>2
<1>10. TeamsOK(d, n + 1)
  <2>1. Table(d.teams, n + 1)
    BY <1>7 DEF Good, TeamsOK, Table
  <2>2. \A t \in DOMAIN d.teams : d.teams[t] = [org |-> d.teams[t].org, name |-> d.teams[t].name]
    BY <1>7, <1>8 DEF Good, TeamsOK
  <2> QED
    BY <2>1, <2>2, <1>6, <1>9 DEF TeamsOK
<1>11. /\ Same(s, d, TokenFields) /\ Same(s, d, OrgFields) /\ Same(s, d, RoleFields)
       /\ Same(s, d, MPermFields) /\ Same(s, d, MemberFields)
  BY <1>1 DEF Same, Fields, TokenFields, OrgFields, TeamFields, RoleFields, MPermFields, MemberFields
<1>12. /\ TokensOK(d, n + 1) /\ OrgsOK(d, n + 1) /\ RolesOK(d, n + 1)
       /\ MPermsOK(d, n + 1) /\ MembersOK(d, n + 1)
  <2>1. n + 1 \in Nat /\ n <= n + 1
    OBVIOUS
  <2> QED
    BY <1>11, <2>1, PartsKept DEF Good
<1>13. Linked(d)
  <2>1. \A t \in DOMAIN s.teams : d.teams[t].org = s.teams[t].org
    BY <1>8
  <2> QED
    BY <1>7, <1>11, <2>1 DEF Good, Linked, Same, TokenFields, OrgFields, RoleFields, MPermFields, MemberFields
<1> QED
  BY <1>1, <1>10, <1>12, <1>13 DEF Good

\* cascadeDeleteRoleLocked: the permissions of the roles rs go with them.
LEMMA DropRolesOK ==
    ASSUME NEW s, NEW n \in Nat, IsState(s), MPermsOK(s, n), NEW rs,
           NEW d, d = DropRoles(s, rs)
    PROVE  /\ IsState(d) /\ Same(s, d, Fields \ ({"roles"} \cup MPermFields))
           /\ d.roles = Drop(s.roles, rs)
           /\ d.mperms = Drop(s.mperms, {p \in DOMAIN s.mperms : s.mperms[p].role \in rs})
           /\ MPermsOK(d, n)
<1> DEFINE ps == {p[2] : p \in {q \in s.mpermsByRole : q[1] \in rs}}
           col == MPermRoles(s.mperms)
<1>1. \A p : p \in ps <=> p \in DOMAIN col /\ col[p] \in rs
  BY GroupingOf DEF MPermsOK
<1>2. ps = {p \in DOMAIN s.mperms : s.mperms[p].role \in rs}
  <2> HIDE DEF ps
  <2> QED
    BY <1>1 DEF MPermRoles
<1>3. d = [s EXCEPT !.roles = Drop(@, rs), !.mperms = Drop(@, ps),
                    !.mpermsByRole = {q \in @ : q[1] \notin rs}]
  BY DEF DropRoles
<1> HIDE DEF ps
<1>4. /\ IsState(d) /\ Same(s, d, Fields \ ({"roles"} \cup MPermFields))
      /\ d.roles = Drop(s.roles, rs) /\ d.mperms = Drop(s.mperms, ps)
      /\ d.mpermsByRole = {q \in s.mpermsByRole : q[1] \notin rs}
  BY <1>3 DEF IsState, Fields, Same, MPermFields
<1>5. ps = {p \in DOMAIN col : col[p] \in rs}
  BY <1>2 DEF MPermRoles
<1>6. MPermRoles(d.mperms) = Drop(col, ps)
  BY <1>4, MPermColumns
<1>7. Grouping(d.mpermsByRole, MPermRoles(d.mperms))
  <2>1. Grouping(s.mpermsByRole, col)
    BY DEF MPermsOK
  <2> HIDE DEF col
  <2> QED
    BY <2>1, <1>4, <1>5, <1>6, GroupingDropKeys
<1>8. Table(d.mperms, n)
  BY <1>4, TableDrop DEF MPermsOK
<1>9. \A p \in DOMAIN d.mperms : d.mperms[p] = [role |-> d.mperms[p].role]
  <2>1. \A p \in DOMAIN d.mperms : p \in DOMAIN s.mperms /\ d.mperms[p] = s.mperms[p]
    BY <1>4, DropMap
  <2> QED
    BY <2>1 DEF MPermsOK
<1> QED
  BY <1>2, <1>4, <1>7, <1>8, <1>9 DEF MPermsOK

\* cascadeDeleteTeamLocked: roles, their permissions, memberships.
RolesUnder(s, ts) == {r \in DOMAIN s.roles : s.roles[r].team \in ts}
MPermsUnder(s, ts) == {p \in DOMAIN s.mperms : s.mperms[p].role \in RolesUnder(s, ts)}
MembersUnder(s, ts) == {m \in DOMAIN s.members : s.members[m].team \in ts}
TeamDropped(s, d, ts) ==
    /\ d.teams = Drop(s.teams, ts)
    /\ d.roles = Drop(s.roles, RolesUnder(s, ts))
    /\ d.mperms = Drop(s.mperms, MPermsUnder(s, ts))
    /\ d.members = Drop(s.members, MembersUnder(s, ts))

LEMMA DropTeamsOK ==
    ASSUME NEW s, NEW n \in Nat, IsState(s), RolesOK(s, n), MPermsOK(s, n), MembersOK(s, n),
           NEW ts, NEW d, d = DropTeams(s, ts)
    PROVE  /\ IsState(d)
           /\ Same(s, d, Fields \ ({"teams"} \cup RoleFields \cup MPermFields \cup MemberFields))
           /\ TeamDropped(s, d, ts)
           /\ RolesOK(d, n) /\ MPermsOK(d, n) /\ MembersOK(d, n)
<1> DEFINE rs == {p[2] : p \in {q \in s.rolesByTeam : q[1] \in ts}}
           col == RoleTeams(s.roles)
           r == DropRoles(s, rs)
           ms == MembersOf(r, r.byTeam, ts)
           e == DropMembers(r, ms)
<1>1. \A x : x \in rs <=> x \in DOMAIN col /\ col[x] \in ts
  BY GroupingOf DEF RolesOK
<1>2. rs = RolesUnder(s, ts)
  <2> HIDE DEF rs
  <2> QED
    BY <1>1 DEF RoleTeams, RolesUnder
<1>3. d = [e EXCEPT !.teams = Drop(@, ts), !.rolesByTeam = {q \in @ : q[1] \notin ts},
                    !.byTeam = {q \in @ : q[1] \notin ts}]
  BY DEF DropTeams
<1> HIDE DEF rs
<1>4. /\ IsState(r) /\ Same(s, r, Fields \ ({"roles"} \cup MPermFields))
      /\ r.roles = Drop(s.roles, rs)
      /\ r.mperms = Drop(s.mperms, {p \in DOMAIN s.mperms : s.mperms[p].role \in rs})
      /\ MPermsOK(r, n)
  BY DropRolesOK
<1> HIDE DEF r
<1>5. Same(s, r, MemberFields) /\ MembersOK(r, n)
  <2>1. Same(s, r, MemberFields)
    BY <1>4 DEF Same, Fields, MPermFields, MemberFields
  <2> QED
    BY <2>1, PartsKept
<1>6. ms = MembersUnder(s, ts)
  <2>1. ms = {m \in DOMAIN r.members : r.members[m].team \in ts}
    BY <1>5, MembersOfTeam
  <2> QED
    BY <2>1, <1>5 DEF Same, MemberFields, MembersUnder
<1> HIDE DEF ms
<1>7. /\ IsState(e) /\ Same(r, e, Fields \ MemberFields)
      /\ e.members = Drop(r.members, ms) /\ MembersOK(e, n)
  <2>1. ms \subseteq DOMAIN r.members
    BY <1>5, <1>6 DEF MembersUnder, Same, MemberFields
  <2> QED
    BY <2>1, <1>4, <1>5, DropMembersOK
<1> HIDE DEF e
<1>8. /\ IsState(d) /\ Same(e, d, Fields \ {"teams", "rolesByTeam", "byTeam"})
      /\ d.teams = Drop(e.teams, ts)
      /\ d.rolesByTeam = {q \in e.rolesByTeam : q[1] \notin ts}
      /\ d.byTeam = {q \in e.byTeam : q[1] \notin ts}
  BY <1>3, <1>7 DEF IsState, Fields, Same
<1>9. Same(s, d, Fields \ ({"teams"} \cup RoleFields \cup MPermFields \cup MemberFields))
  BY <1>4, <1>7, <1>8 DEF Same, Fields, RoleFields, MPermFields, MemberFields
<1>10. TeamDropped(s, d, ts)
  <2>1. d.teams = Drop(s.teams, ts)
    BY <1>4, <1>7, <1>8 DEF Same, Fields, MPermFields, MemberFields
  <2>2. d.roles = Drop(s.roles, RolesUnder(s, ts))
    BY <1>2, <1>4, <1>7, <1>8 DEF Same, Fields, MemberFields
  <2>3. d.mperms = Drop(s.mperms, MPermsUnder(s, ts))
    BY <1>2, <1>4, <1>7, <1>8 DEF Same, Fields, MemberFields, MPermsUnder
  <2>4. d.members = Drop(s.members, MembersUnder(s, ts))
    BY <1>5, <1>6, <1>7, <1>8 DEF Same, Fields, MemberFields
  <2> QED
    BY <2>1, <2>2, <2>3, <2>4 DEF TeamDropped
<1>11. d.byTeam = e.byTeam
  <2>1. \A m \in DOMAIN e.members : e.members[m].team \notin ts
    <3>1. \A m \in DOMAIN e.members : /\ m \in DOMAIN s.members /\ m \notin ms
                                      /\ e.members[m] = s.members[m]
      BY <1>5, <1>7, DropMap DEF Same, MemberFields
    <3> QED
      BY <3>1, <1>6 DEF MembersUnder
  <2>2. ASSUME NEW p \in e.byTeam PROVE p[1] \notin ts
    <3>1. PICK m \in DOMAIN MemberTeams(e.members) : p = <<MemberTeams(e.members)[m], m>>
      BY <1>7 DEF MembersOK, Grouping
    <3>2. m \in DOMAIN e.members /\ p[1] = e.members[m].team
      BY <3>1 DEF MemberTeams
    <3> QED
      BY <2>1, <3>2
  <2> QED
    BY <1>8, <2>2
<1>12. MembersOK(d, n)
  <2>1. Same(e, d, MemberFields)
    BY <1>8, <1>11 DEF Same, Fields, MemberFields
  <2> QED
    BY <1>7, <2>1, PartsKept
<1>13. MPermsOK(d, n)
  <2>1. Same(r, d, MPermFields)
    BY <1>7, <1>8 DEF Same, Fields, MPermFields, MemberFields
  <2> QED
    BY <1>4, <2>1, PartsKept
<1>14. RolesOK(d, n)
  <2>1. RoleTeams(d.roles) = Drop(col, RolesUnder(s, ts))
    BY <1>10, RoleColumns DEF TeamDropped
  <2>2. RolesUnder(s, ts) = {x \in DOMAIN col : col[x] \in ts}
    BY DEF RolesUnder, RoleTeams
  <2>3. d.rolesByTeam = {q \in s.rolesByTeam : q[1] \notin ts}
    BY <1>4, <1>7, <1>8 DEF Same, Fields, MPermFields, MemberFields
  <2>4. Grouping(s.rolesByTeam, col)
    BY DEF RolesOK
  <2>5. Grouping(d.rolesByTeam, RoleTeams(d.roles))
    <3> DEFINE under == RolesUnder(s, ts)
    <3> HIDE DEF col, under
    <3>1. under = {x \in DOMAIN col : col[x] \in ts} /\ RoleTeams(d.roles) = Drop(col, under)
      BY <2>1, <2>2 DEF under
    <3>2. Grouping(d.rolesByTeam, Drop(col, under))
      BY <3>1, <2>3, <2>4, GroupingDropKeys
    <3> QED
      BY <3>1, <3>2
  <2>6. Table(d.roles, n)
    BY <1>10, TableDrop DEF RolesOK, TeamDropped
  <2>7. \A x \in DOMAIN d.roles : d.roles[x] = [team |-> d.roles[x].team, pat |-> d.roles[x].pat]
    <3>1. \A x \in DOMAIN d.roles : x \in DOMAIN s.roles /\ d.roles[x] = s.roles[x]
      BY <1>10, DropMap DEF TeamDropped
    <3> QED
      BY <3>1 DEF RolesOK
  <2> QED
    BY <2>5, <2>6, <2>7 DEF RolesOK
<1> QED
  BY <1>8, <1>9, <1>10, <1>12, <1>13, <1>14

\* What is left below the teams that are left is linked.
LEMMA LinkedBelow ==
    ASSUME NEW s, NEW n \in Nat, Good(s, n), NEW d, NEW ts, TeamDropped(s, d, ts),
           d.tokens = s.tokens,
           \A t \in DOMAIN s.teams : t \notin ts => s.teams[t].org \in DOMAIN d.orgs
    PROVE  Linked(d)
<1>1. /\ \A t \in DOMAIN d.teams : t \in DOMAIN s.teams /\ t \notin ts /\ d.teams[t] = s.teams[t]
      /\ \A t \in DOMAIN s.teams : t \notin ts => t \in DOMAIN d.teams
  BY DropMap DEF TeamDropped
<1>2. /\ \A r \in DOMAIN d.roles : /\ r \in DOMAIN s.roles /\ d.roles[r] = s.roles[r]
                                   /\ s.roles[r].team \notin ts
      /\ \A r \in DOMAIN s.roles : s.roles[r].team \notin ts => r \in DOMAIN d.roles
  BY DropMap DEF TeamDropped, RolesUnder
<1>3. \A p \in DOMAIN d.mperms :
            /\ p \in DOMAIN s.mperms /\ d.mperms[p] = s.mperms[p]
            /\ s.mperms[p].role \notin RolesUnder(s, ts)
  BY DropMap DEF TeamDropped, MPermsUnder
<1>4. \A m \in DOMAIN d.members : /\ m \in DOMAIN s.members /\ d.members[m] = s.members[m]
                                  /\ s.members[m].team \notin ts
  BY DropMap DEF TeamDropped, MembersUnder
<1>5. \A p \in DOMAIN d.mperms : d.mperms[p].role \in DOMAIN d.roles /\ d.mperms[p].role < p
  BY <1>2, <1>3 DEF Good, Linked, RolesUnder
<1> QED
  BY <1>1, <1>2, <1>4, <1>5 DEF Good, Linked

\* The teams table after a drop.
LEMMA TeamsDropped ==
    ASSUME NEW s, NEW n \in Nat, TeamsOK(s, n), NEW ts, ts \subseteq DOMAIN s.teams, NEW d,
           d.teams = Drop(s.teams, ts),
           d.teamsByOrg = Drop(s.teamsByOrg, {<<s.teams[t].org, s.teams[t].name>> : t \in ts})
    PROVE  TeamsOK(d, n)
<1> DEFINE keys == TeamKeys(s.teams)
<1>1. /\ {<<s.teams[t].org, s.teams[t].name>> : t \in ts} = {keys[t] : t \in ts}
      /\ ts \subseteq DOMAIN keys
  BY DEF TeamKeys
<1>2. TeamKeys(d.teams) = Drop(keys, ts)
  BY TeamColumns
<1>3. Unique(s.teamsByOrg, keys)
  BY DEF TeamsOK
<1> HIDE DEF keys
<1>4. Unique(d.teamsByOrg, TeamKeys(d.teams))
  BY <1>1, <1>2, <1>3, UniqueDrop
<1>5. Table(d.teams, n)
  BY TableDrop DEF TeamsOK
<1>6. \A t \in DOMAIN d.teams : t \in DOMAIN s.teams /\ d.teams[t] = s.teams[t]
  BY DropMap
<1>7. \A t \in DOMAIN d.teams : d.teams[t] = [org |-> d.teams[t].org, name |-> d.teams[t].name]
  BY <1>6 DEF TeamsOK
<1> QED
  BY <1>4, <1>5, <1>7 DEF TeamsOK

LEMMA DeleteTeamOK ==
    ASSUME NEW s, NEW c, NEW n \in Nat, Good(s, n), c.id \in DOMAIN s.teams,
           NEW d, d = DeleteTeam(s, c)
    PROVE  Good(d, n + 1) /\ Same(s, d, TokenFields \cup OrgFields) /\ TeamDropped(s, d, {c.id})
<1> DEFINE t == s.teams[c.id]
           e == DropTeams(s, {c.id})
<1>1. /\ IsState(e)
      /\ Same(s, e, Fields \ ({"teams"} \cup RoleFields \cup MPermFields \cup MemberFields))
      /\ TeamDropped(s, e, {c.id})
      /\ RolesOK(e, n) /\ MPermsOK(e, n) /\ MembersOK(e, n)
  BY DropTeamsOK DEF Good
<1>2. d = [e EXCEPT !.teamsByOrg = Drop(@, {<<t.org, t.name>>})]
  BY DEF DeleteTeam
<1> HIDE DEF e
<1>3. /\ IsState(d) /\ Same(e, d, Fields \ {"teamsByOrg"})
      /\ d.teamsByOrg = Drop(e.teamsByOrg, {<<t.org, t.name>>})
  BY <1>1, <1>2 DEF IsState, Fields, Same
<1>4. Same(s, d, TokenFields \cup OrgFields) /\ e.teamsByOrg = s.teamsByOrg
  BY <1>1, <1>3 DEF Same, Fields, TokenFields, OrgFields, RoleFields, MPermFields, MemberFields
<1>5. TeamDropped(s, d, {c.id})
  BY <1>1, <1>3 DEF TeamDropped, Same, Fields
<1>6. n + 1 \in Nat /\ n <= n + 1
  OBVIOUS
<1>7. RolesOK(d, n + 1) /\ MPermsOK(d, n + 1) /\ MembersOK(d, n + 1)
  <2>1. Same(e, d, RoleFields) /\ Same(e, d, MPermFields) /\ Same(e, d, MemberFields)
    BY <1>3 DEF Same, Fields, RoleFields, MPermFields, MemberFields
  <2> QED
    BY <1>1, <1>6, <2>1, PartsKept
<1>8. TokensOK(d, n + 1) /\ OrgsOK(d, n + 1)
  <2>1. Same(s, d, TokenFields) /\ Same(s, d, OrgFields)
    BY <1>4 DEF Same
  <2> QED
    BY <1>6, <2>1, PartsKept DEF Good
<1>9. TeamsOK(d, n + 1)
  <2>1. {<<t.org, t.name>>} = {<<s.teams[x].org, s.teams[x].name>> : x \in {c.id}}
    OBVIOUS
  <2>2. d.teams = Drop(s.teams, {c.id}) /\ {c.id} \subseteq DOMAIN s.teams
    BY <1>5 DEF TeamDropped
  <2>3. d.teamsByOrg = Drop(s.teamsByOrg, {<<s.teams[x].org, s.teams[x].name>> : x \in {c.id}})
    BY <1>3, <1>4, <2>1
  <2>4. TeamsOK(d, n)
    BY <2>2, <2>3, TeamsDropped DEF Good
  <2>5. Same(d, d, TeamFields)
    BY DEF Same
  <2> QED
    BY <1>6, <2>4, <2>5, PartsKept
<1>10. Linked(d)
  <2>1. d.tokens = s.tokens /\ d.orgs = s.orgs
    BY <1>4 DEF Same, TokenFields, OrgFields
  <2> QED
    BY <1>5, <2>1, LinkedBelow DEF Good, Linked
<1> QED
  BY <1>3, <1>4, <1>5, <1>7, <1>8, <1>9, <1>10 DEF Good

TeamsUnder(s, o) == {t \in DOMAIN s.teams : s.teams[t].org = o}

LEMMA DeleteOrgOK ==
    ASSUME NEW s, NEW c, NEW n \in Nat, Good(s, n), c.id \in DOMAIN s.orgs,
           NEW d, d = DeleteOrg(s, c)
    PROVE  /\ Good(d, n + 1) /\ Same(s, d, TokenFields)
           /\ d.orgs = Drop(s.orgs, {c.id}) /\ TeamDropped(s, d, TeamsUnder(s, c.id))
<1> DEFINE own == {k \in DOMAIN s.teamsByOrg : k[1] = c.id}
           ts == {s.teamsByOrg[k] : k \in own}
           e == DropTeams(s, ts)
           keys == TeamKeys(s.teams)
           names == OrgNames(s.orgs)
<1>1. Unique(s.teamsByOrg, keys)
  BY DEF Good, TeamsOK
<1>2. \A t \in DOMAIN s.teams : t \in DOMAIN keys /\ keys[t] = <<s.teams[t].org, s.teams[t].name>>
  BY DEF TeamKeys
<1>3. ASSUME NEW k \in own PROVE s.teamsByOrg[k] \in TeamsUnder(s, c.id)
  <2>1. s.teamsByOrg[k] \in DOMAIN keys /\ keys[s.teamsByOrg[k]] = k
    BY <1>1 DEF Unique
  <2>2. DOMAIN keys = DOMAIN s.teams
    BY DEF TeamKeys
  <2> QED
    BY <1>2, <2>1, <2>2 DEF TeamsUnder
<1>4. ASSUME NEW t \in TeamsUnder(s, c.id)
      PROVE  keys[t] \in own /\ s.teamsByOrg[keys[t]] = t
  <2>1. t \in DOMAIN s.teams /\ s.teams[t].org = c.id
    BY DEF TeamsUnder
  <2>2. keys[t] \in DOMAIN s.teamsByOrg /\ s.teamsByOrg[keys[t]] = t
    BY <1>1, <1>2, <2>1 DEF Unique
  <2>3. keys[t][1] = c.id
    BY <1>2, <2>1
  <2> QED
    BY <2>2, <2>3
<1>5. ts = TeamsUnder(s, c.id)
  <2> HIDE DEF own
  <2>1. ts \subseteq TeamsUnder(s, c.id)
    BY <1>3
  <2>2. TeamsUnder(s, c.id) \subseteq ts
    BY <1>4
  <2> QED
    BY <2>1, <2>2
<1>6. own = {<<s.teams[t].org, s.teams[t].name>> : t \in ts}
  <2>1. ASSUME NEW k \in own PROVE \E t \in ts : k = <<s.teams[t].org, s.teams[t].name>>
    <3>1. s.teamsByOrg[k] \in ts /\ s.teamsByOrg[k] \in DOMAIN s.teams
      BY <1>3, <1>5 DEF TeamsUnder
    <3>2. keys[s.teamsByOrg[k]] = k
      BY <1>1 DEF Unique
    <3> QED
      BY <1>2, <3>1, <3>2
  <2>2. ASSUME NEW t \in ts PROVE <<s.teams[t].org, s.teams[t].name>> \in own
    <3>1. t \in TeamsUnder(s, c.id)
      BY <1>5
    <3>2. keys[t] \in own /\ keys[t] = <<s.teams[t].org, s.teams[t].name>>
      BY <1>2, <1>4, <3>1 DEF TeamsUnder
    <3> QED
      BY <3>2
  <2> HIDE DEF own, ts
  <2> QED
    BY <2>1, <2>2
<1>7. d = [e EXCEPT !.orgs = Drop(@, {c.id}), !.orgsByName = Drop(@, {s.orgs[c.id].name}),
                    !.teamsByOrg = Drop(@, {k \in DOMAIN @ : k[1] = c.id})]
  BY DEF DeleteOrg
<1> HIDE DEF ts
<1>8. /\ IsState(e)
      /\ Same(s, e, Fields \ ({"teams"} \cup RoleFields \cup MPermFields \cup MemberFields))
      /\ TeamDropped(s, e, ts)
      /\ RolesOK(e, n) /\ MPermsOK(e, n) /\ MembersOK(e, n)
  BY DropTeamsOK DEF Good
<1> HIDE DEF e
<1>9. /\ IsState(d) /\ Same(e, d, Fields \ (OrgFields \cup {"teamsByOrg"}))
      /\ d.orgs = Drop(e.orgs, {c.id})
      /\ d.orgsByName = Drop(e.orgsByName, {s.orgs[c.id].name})
      /\ d.teamsByOrg = Drop(e.teamsByOrg, {k \in DOMAIN e.teamsByOrg : k[1] = c.id})
  BY <1>7, <1>8 DEF IsState, Fields, Same, OrgFields
<1>10. /\ e.orgs = s.orgs /\ e.orgsByName = s.orgsByName /\ e.teamsByOrg = s.teamsByOrg
       /\ Same(s, d, TokenFields)
  BY <1>8, <1>9 DEF Same, Fields, TokenFields, OrgFields, RoleFields, MPermFields, MemberFields
<1>11. TeamDropped(s, d, ts)
  BY <1>8, <1>9 DEF TeamDropped, Same, Fields, OrgFields
<1>12. n + 1 \in Nat /\ n <= n + 1
  OBVIOUS
<1>13. RolesOK(d, n + 1) /\ MPermsOK(d, n + 1) /\ MembersOK(d, n + 1)
  <2>1. Same(e, d, RoleFields) /\ Same(e, d, MPermFields) /\ Same(e, d, MemberFields)
    BY <1>9 DEF Same, Fields, OrgFields, RoleFields, MPermFields, MemberFields
  <2> QED
    BY <1>8, <1>12, <2>1, PartsKept
<1>14. TokensOK(d, n + 1)
  BY <1>10, <1>12, PartsKept DEF Good
<1>15. TeamsOK(d, n + 1)
  <2>1. d.teams = Drop(s.teams, ts) /\ ts \subseteq DOMAIN s.teams
    BY <1>5, <1>11 DEF TeamDropped, TeamsUnder
  <2>2. d.teamsByOrg = Drop(s.teamsByOrg, {<<s.teams[x].org, s.teams[x].name>> : x \in ts})
    BY <1>6, <1>9, <1>10
  <2>3. TeamsOK(d, n)
    BY <2>1, <2>2, TeamsDropped DEF Good
  <2>4. Same(d, d, TeamFields)
    BY DEF Same
  <2> QED
    BY <1>12, <2>3, <2>4, PartsKept
<1>16. OrgsOK(d, n + 1)
  <2>1. OrgNames(d.orgs) = Drop(names, {c.id})
    BY <1>9, <1>10, OrgColumns
  <2>2. {s.orgs[c.id].name} = {names[x] : x \in {c.id}} /\ {c.id} \subseteq DOMAIN names
    BY DEF OrgNames
  <2>3. Unique(s.orgsByName, names)
    BY DEF Good, OrgsOK
  <2> HIDE DEF names
  <2>4. Unique(d.orgsByName, OrgNames(d.orgs))
    BY <1>9, <1>10, <2>1, <2>2, <2>3, UniqueDrop
  <2>5. Table(d.orgs, n + 1)
    <3>1. Table(s.orgs, n)
      BY DEF Good, OrgsOK
    <3> QED
      BY <3>1, <1>9, <1>10, <1>12, TableDrop, TableLater
  <2>6. \A o \in DOMAIN d.orgs : o \in DOMAIN s.orgs /\ d.orgs[o] = s.orgs[o]
    BY <1>9, <1>10, DropMap
  <2>7. \A o \in DOMAIN d.orgs : d.orgs[o] = [name |-> d.orgs[o].name]
    BY <2>6 DEF Good, OrgsOK
  <2> QED
    BY <2>4, <2>5, <2>7 DEF OrgsOK
<1>17. Linked(d)
  <2>1. d.tokens = s.tokens
    BY <1>10 DEF Same, TokenFields
  <2>2. \A o : o \in DOMAIN d.orgs <=> o \in DOMAIN s.orgs /\ o # c.id
    BY <1>9, <1>10, DropMap
  <2>3. \A t \in DOMAIN s.teams : t \notin ts => s.teams[t].org \in DOMAIN d.orgs
    BY <1>5, <2>2 DEF TeamsUnder, Good, Linked
  <2> QED
    BY <1>11, <2>1, <2>3, LinkedBelow
<1> QED
  BY <1>5, <1>9, <1>10, <1>11, <1>13, <1>14, <1>15, <1>16, <1>17 DEF Good

---------------------------------------------------------------------------
(* The commands on roles, measurement permissions and memberships.           *)

LEMMA CreateRoleOK ==
    ASSUME NEW s, NEW c, NEW n \in Nat, Good(s, n), c.team \in DOMAIN s.teams,
           NEW d, d = CreateRole(s, c, n + 1)
    PROVE  /\ Good(d, n + 1) /\ Same(s, d, Fields \ RoleFields)
           /\ d.roles = Put(s.roles, n + 1, [team |-> c.team, pat |-> c.pat])
<1> DEFINE row == [team |-> c.team, pat |-> c.pat]
           col == RoleTeams(s.roles)
<1>1. /\ IsState(d) /\ Same(s, d, Fields \ RoleFields)
      /\ d.roles = Put(s.roles, n + 1, row)
      /\ d.rolesByTeam = s.rolesByTeam \cup {<<c.team, n + 1>>}
  BY DEF Good, IsState, Fields, Same, RoleFields, CreateRole
<1>2. n + 1 \notin DOMAIN s.roles /\ Table(d.roles, n + 1)
  BY <1>1, Fresh, TablePut DEF Good, RolesOK
<1>3. RoleTeams(d.roles) = Put(col, n + 1, c.team)
  <2>1. row.team = c.team
    OBVIOUS
  <2> QED
    BY <1>1, <2>1, RoleColumns
<1>4. n + 1 \notin DOMAIN col
  BY <1>2 DEF RoleTeams
<1>5. Grouping(d.rolesByTeam, RoleTeams(d.roles))
  BY <1>1, <1>3, <1>4, GroupingPut DEF Good, RolesOK
<1>6. /\ \A r : r \in DOMAIN d.roles <=> r \in DOMAIN s.roles \/ r = n + 1
      /\ d.roles[n + 1] = row
      /\ \A r \in DOMAIN s.roles : d.roles[r] = s.roles[r]
  BY <1>1, <1>2, PutMap
<1>7. \A r \in DOMAIN d.roles : d.roles[r] = [team |-> d.roles[r].team, pat |-> d.roles[r].pat]
  BY <1>6 DEF Good, RolesOK
<1>8. RolesOK(d, n + 1)
  BY <1>2, <1>5, <1>7 DEF RolesOK
<1>9. /\ Same(s, d, TokenFields) /\ Same(s, d, OrgFields) /\ Same(s, d, TeamFields)
      /\ Same(s, d, MPermFields) /\ Same(s, d, MemberFields)
  BY <1>1 DEF Same, Fields, TokenFields, OrgFields, TeamFields, RoleFields, MPermFields, MemberFields
<1>10. /\ TokensOK(d, n + 1) /\ OrgsOK(d, n + 1) /\ TeamsOK(d, n + 1)
       /\ MPermsOK(d, n + 1) /\ MembersOK(d, n + 1)
  <2>1. n + 1 \in Nat /\ n <= n + 1
    OBVIOUS
  <2> QED
    BY <1>9, <2>1, PartsKept DEF Good
<1>11. Linked(d)
  <2>1. c.team < n + 1
    BY DEF Good, TeamsOK, Table
  <2> QED
    BY <1>6, <1>9, <2>1 DEF Good, Linked, Same, TokenFields, OrgFields, TeamFields, MPermFields, MemberFields
<1> QED
  BY <1>1, <1>8, <1>10, <1>11 DEF Good

LEMMA UpdateRoleOK ==
    ASSUME NEW s, NEW c, NEW n \in Nat, Good(s, n), c.id \in DOMAIN s.roles,
           NEW d, d = UpdateRole(s, c)
    PROVE  /\ Good(d, n + 1) /\ Same(s, d, Fields \ {"roles"})
           /\ d.roles = [s.roles EXCEPT ![c.id] = [s.roles[c.id] EXCEPT !.pat = c.pat]]
<1> DEFINE old == s.roles[c.id]
<1>1. /\ IsState(d) /\ Same(s, d, Fields \ {"roles"})
      /\ d.roles = [s.roles EXCEPT ![c.id] = [old EXCEPT !.pat = c.pat]]
  BY DEF Good, IsState, Fields, Same, UpdateRole
<1>2. [old EXCEPT !.pat = c.pat] = [team |-> old.team, pat |-> c.pat]
  <2>1. \A r, a, b : r = [team |-> a, pat |-> b] =>
            [r EXCEPT !.pat = c.pat] = [team |-> a, pat |-> c.pat]
    OBVIOUS
  <2>2. old = [team |-> old.team, pat |-> old.pat]
    BY DEF Good, RolesOK
  <2> QED
    BY <2>1, <2>2
<1>3. IsMap(d.roles) /\ DOMAIN d.roles = DOMAIN s.roles
  BY <1>1 DEF IsMap
<1>4. \A r \in DOMAIN s.roles : /\ r = c.id => d.roles[r] = [team |-> old.team, pat |-> c.pat]
                                /\ r # c.id => d.roles[r] = s.roles[r]
  BY <1>1, <1>2
<1>5. \A r \in DOMAIN s.roles : d.roles[r].team = s.roles[r].team
  BY <1>4
<1>6. RolesOK(d, n + 1)
  <2>1. Table(d.roles, n + 1)
    BY <1>3 DEF Good, RolesOK, Table
  <2>2. \A r \in DOMAIN d.roles : d.roles[r] = [team |-> d.roles[r].team, pat |-> d.roles[r].pat]
    BY <1>3, <1>4 DEF Good, RolesOK
  <2>3. RoleTeams(d.roles) = RoleTeams(s.roles) /\ d.rolesByTeam = s.rolesByTeam
    BY <1>1, <1>3, <1>5 DEF RoleTeams, Same, Fields
  <2> QED
    BY <2>1, <2>2, <2>3 DEF Good, RolesOK
<1>7. /\ Same(s, d, TokenFields) /\ Same(s, d, OrgFields) /\ Same(s, d, TeamFields)
      /\ Same(s, d, MPermFields) /\ Same(s, d, MemberFields)
  BY <1>1 DEF Same, Fields, TokenFields, OrgFields, TeamFields, MPermFields, MemberFields
<1>8. /\ TokensOK(d, n + 1) /\ OrgsOK(d, n + 1) /\ TeamsOK(d, n + 1)
      /\ MPermsOK(d, n + 1) /\ MembersOK(d, n + 1)
  <2>1. n + 1 \in Nat /\ n <= n + 1
    OBVIOUS
  <2> QED
    BY <1>7, <2>1, PartsKept DEF Good
<1>9. Linked(d)
  BY <1>3, <1>5, <1>7 DEF Good, Linked, Same, TokenFields, OrgFields, TeamFields, MPermFields, MemberFields
<1> QED
  BY <1>1, <1>6, <1>8, <1>9 DEF Good

LEMMA DeleteRoleOK ==
    ASSUME NEW s, NEW c, NEW n \in Nat, Good(s, n), c.id \in DOMAIN s.roles,
           NEW d, d = DeleteRole(s, c)
    PROVE  /\ Good(d, n + 1) /\ Same(s, d, Fields \ (RoleFields \cup MPermFields))
           /\ d.roles = Drop(s.roles, {c.id})
           /\ d.mperms = Drop(s.mperms, Permissions(s, c.id))
<1> DEFINE e == DropRoles(s, {c.id})
           col == RoleTeams(s.roles)
<1>1. /\ IsState(e) /\ Same(s, e, Fields \ ({"roles"} \cup MPermFields))
      /\ e.roles = Drop(s.roles, {c.id})
      /\ e.mperms = Drop(s.mperms, {p \in DOMAIN s.mperms : s.mperms[p].role \in {c.id}})
      /\ MPermsOK(e, n)
  BY DropRolesOK DEF Good
<1>2. d = [e EXCEPT !.rolesByTeam = @ \ {<<s.roles[c.id].team, c.id>>}]
  BY DEF DeleteRole
<1> HIDE DEF e
<1>3. /\ IsState(d) /\ Same(e, d, Fields \ {"rolesByTeam"})
      /\ d.rolesByTeam = e.rolesByTeam \ {<<s.roles[c.id].team, c.id>>}
  BY <1>1, <1>2 DEF IsState, Fields, Same
<1>4. /\ Same(s, d, Fields \ (RoleFields \cup MPermFields))
      /\ d.roles = Drop(s.roles, {c.id})
      /\ e.rolesByTeam = s.rolesByTeam
  BY <1>1, <1>3 DEF Same, Fields, RoleFields, MPermFields
<1>5. d.mperms = Drop(s.mperms, Permissions(s, c.id))
  <2>1. {p \in DOMAIN s.mperms : s.mperms[p].role \in {c.id}}
            = Permissions(s, c.id)
    BY DEF Permissions
  <2>2. d.mperms = e.mperms
    BY <1>3 DEF Same, Fields
  <2> QED
    BY <1>1, <2>1, <2>2
<1>6. n + 1 \in Nat /\ n <= n + 1
  OBVIOUS
<1>7. MPermsOK(d, n + 1)
  <2>1. Same(e, d, MPermFields)
    BY <1>3 DEF Same, Fields, MPermFields
  <2> QED
    BY <1>1, <1>6, <2>1, PartsKept
<1>8. RolesOK(d, n + 1)
  <2>1. RoleTeams(d.roles) = Drop(col, {c.id})
    BY <1>4, RoleColumns
  <2>2. {<<s.roles[c.id].team, c.id>>} = {<<col[x], x>> : x \in {c.id}} /\ {c.id} \subseteq DOMAIN col
    BY DEF RoleTeams
  <2>3. Grouping(s.rolesByTeam, col)
    BY DEF Good, RolesOK
  <2> HIDE DEF col
  <2>4. Grouping(d.rolesByTeam, RoleTeams(d.roles))
    BY <1>3, <1>4, <2>1, <2>2, <2>3, GroupingDrop
  <2>5. Table(d.roles, n + 1)
    <3>1. Table(s.roles, n)
      BY DEF Good, RolesOK
    <3> QED
      BY <3>1, <1>4, <1>6, TableDrop, TableLater
  <2>6. \A r \in DOMAIN d.roles : r \in DOMAIN s.roles /\ d.roles[r] = s.roles[r]
    BY <1>4, DropMap
  <2>7. \A r \in DOMAIN d.roles : d.roles[r] = [team |-> d.roles[r].team, pat |-> d.roles[r].pat]
    BY <2>6 DEF Good, RolesOK
  <2> QED
    BY <2>4, <2>5, <2>7 DEF RolesOK
<1>9. /\ Same(s, d, TokenFields) /\ Same(s, d, OrgFields) /\ Same(s, d, TeamFields)
      /\ Same(s, d, MemberFields)
  BY <1>4 DEF Same, Fields, TokenFields, OrgFields, TeamFields, RoleFields, MPermFields, MemberFields
<1>10. TokensOK(d, n + 1) /\ OrgsOK(d, n + 1) /\ TeamsOK(d, n + 1) /\ MembersOK(d, n + 1)
  BY <1>6, <1>9, PartsKept DEF Good
<1>11. Linked(d)
  <2>1. /\ \A r \in DOMAIN d.roles : r \in DOMAIN s.roles /\ d.roles[r] = s.roles[r]
        /\ \A r \in DOMAIN s.roles : r # c.id => r \in DOMAIN d.roles
    BY <1>4, DropMap
  <2>2. \A p \in DOMAIN d.mperms : /\ p \in DOMAIN s.mperms /\ d.mperms[p] = s.mperms[p]
                                   /\ s.mperms[p].role # c.id
    BY <1>5, DropMap DEF Permissions
  <2> QED
    BY <1>9, <2>1, <2>2 DEF Good, Linked, Same, TokenFields, OrgFields, TeamFields, MemberFields
<1> QED
  BY <1>3, <1>4, <1>5, <1>7, <1>8, <1>10, <1>11 DEF Good

LEMMA CreateMPermOK ==
    ASSUME NEW s, NEW c, NEW n \in Nat, Good(s, n), c.role \in DOMAIN s.roles,
           NEW d, d = CreateMPerm(s, c, n + 1)
    PROVE  /\ Good(d, n + 1) /\ Same(s, d, Fields \ MPermFields)
           /\ d.mperms = Put(s.mperms, n + 1, [role |-> c.role])
<1> DEFINE row == [role |-> c.role]
           col == MPermRoles(s.mperms)
<1>1. /\ IsState(d) /\ Same(s, d, Fields \ MPermFields)
      /\ d.mperms = Put(s.mperms, n + 1, row)
      /\ d.mpermsByRole = s.mpermsByRole \cup {<<c.role, n + 1>>}
  BY DEF Good, IsState, Fields, Same, MPermFields, CreateMPerm
<1>2. n + 1 \notin DOMAIN s.mperms /\ Table(d.mperms, n + 1)
  BY <1>1, Fresh, TablePut DEF Good, MPermsOK
<1>3. MPermRoles(d.mperms) = Put(col, n + 1, c.role)
  <2>1. row.role = c.role
    OBVIOUS
  <2> QED
    BY <1>1, <2>1, MPermColumns
<1>4. n + 1 \notin DOMAIN col
  BY <1>2 DEF MPermRoles
<1>5. Grouping(d.mpermsByRole, MPermRoles(d.mperms))
  BY <1>1, <1>3, <1>4, GroupingPut DEF Good, MPermsOK
<1>6. /\ \A p : p \in DOMAIN d.mperms <=> p \in DOMAIN s.mperms \/ p = n + 1
      /\ d.mperms[n + 1] = row
      /\ \A p \in DOMAIN s.mperms : d.mperms[p] = s.mperms[p]
  BY <1>1, <1>2, PutMap
<1>7. \A p \in DOMAIN d.mperms : d.mperms[p] = [role |-> d.mperms[p].role]
  BY <1>6 DEF Good, MPermsOK
<1>8. MPermsOK(d, n + 1)
  BY <1>2, <1>5, <1>7 DEF MPermsOK
<1>9. /\ Same(s, d, TokenFields) /\ Same(s, d, OrgFields) /\ Same(s, d, TeamFields)
      /\ Same(s, d, RoleFields) /\ Same(s, d, MemberFields)
  BY <1>1 DEF Same, Fields, TokenFields, OrgFields, TeamFields, RoleFields, MPermFields, MemberFields
<1>10. /\ TokensOK(d, n + 1) /\ OrgsOK(d, n + 1) /\ TeamsOK(d, n + 1)
       /\ RolesOK(d, n + 1) /\ MembersOK(d, n + 1)
  <2>1. n + 1 \in Nat /\ n <= n + 1
    OBVIOUS
  <2> QED
    BY <1>9, <2>1, PartsKept DEF Good
<1>11. Linked(d)
  <2>1. c.role < n + 1
    BY DEF Good, RolesOK, Table
  <2> QED
    BY <1>6, <1>9, <2>1 DEF Good, Linked, Same, TokenFields, OrgFields, TeamFields, RoleFields, MemberFields
<1> QED
  BY <1>1, <1>8, <1>10, <1>11 DEF Good

LEMMA DeleteMPermOK ==
    ASSUME NEW s, NEW c, NEW n \in Nat, Good(s, n), c.id \in DOMAIN s.mperms,
           NEW d, d = DeleteMPerm(s, c)
    PROVE  /\ Good(d, n + 1) /\ Same(s, d, Fields \ MPermFields)
           /\ d.mperms = Drop(s.mperms, {c.id})
<1> DEFINE col == MPermRoles(s.mperms)
<1>1. /\ IsState(d) /\ Same(s, d, Fields \ MPermFields)
      /\ d.mperms = Drop(s.mperms, {c.id})
      /\ d.mpermsByRole = s.mpermsByRole \ {<<s.mperms[c.id].role, c.id>>}
  BY DEF Good, IsState, Fields, Same, MPermFields, DeleteMPerm
<1>2. n + 1 \in Nat /\ n <= n + 1
  OBVIOUS
<1>3. \A p \in DOMAIN d.mperms : p \in DOMAIN s.mperms /\ d.mperms[p] = s.mperms[p]
  BY <1>1, DropMap
<1>4. MPermsOK(d, n + 1)
  <2>1. MPermRoles(d.mperms) = Drop(col, {c.id})
    BY <1>1, MPermColumns
  <2>2. {<<s.mperms[c.id].role, c.id>>} = {<<col[x], x>> : x \in {c.id}} /\ {c.id} \subseteq DOMAIN col
    BY DEF MPermRoles
  <2>3. Grouping(s.mpermsByRole, col)
    BY DEF Good, MPermsOK
  <2> HIDE DEF col
  <2>4. Grouping(d.mpermsByRole, MPermRoles(d.mperms))
    BY <1>1, <2>1, <2>2, <2>3, GroupingDrop
  <2>5. Table(d.mperms, n + 1)
    <3>1. Table(s.mperms, n)
      BY DEF Good, MPermsOK
    <3> QED
      BY <3>1, <1>1, <1>2, TableDrop, TableLater
  <2>6. \A p \in DOMAIN d.mperms : d.mperms[p] = [role |-> d.mperms[p].role]
    BY <1>3 DEF Good, MPermsOK
  <2> QED
    BY <2>4, <2>5, <2>6 DEF MPermsOK
<1>5. /\ Same(s, d, TokenFields) /\ Same(s, d, OrgFields) /\ Same(s, d, TeamFields)
      /\ Same(s, d, RoleFields) /\ Same(s, d, MemberFields)
  BY <1>1 DEF Same, Fields, TokenFields, OrgFields, TeamFields, RoleFields, MPermFields, MemberFields
<1>6. /\ TokensOK(d, n + 1) /\ OrgsOK(d, n + 1) /\ TeamsOK(d, n + 1)
      /\ RolesOK(d, n + 1) /\ MembersOK(d, n + 1)
  BY <1>2, <1>5, PartsKept DEF Good
<1>7. Linked(d)
  BY <1>3, <1>5 DEF Good, Linked, Same, TokenFields, OrgFields, TeamFields, RoleFields, MemberFields
<1> QED
  BY <1>1, <1>4, <1>6, <1>7 DEF Good

LEMMA AddMemberOK ==
    ASSUME NEW s, NEW c, NEW n \in Nat, Good(s, n),
           c.token \in DOMAIN s.tokens, c.team \in DOMAIN s.teams,
           <<c.token, c.team>> \notin DOMAIN s.byPair,
           NEW d, d = AddMember(s, c, n + 1)
    PROVE  /\ Good(d, n + 1) /\ Same(s, d, Fields \ MemberFields)
           /\ d.members = Put(s.members, n + 1, [token |-> c.token, team |-> c.team])
<1> DEFINE row == [token |-> c.token, team |-> c.team]
           keys == MemberKeys(s.members)
           tokens == MemberTokens(s.members)
           teams == MemberTeams(s.members)
<1>1. /\ IsState(d) /\ Same(s, d, Fields \ MemberFields)
      /\ d.members = Put(s.members, n + 1, row)
      /\ d.byPair = Put(s.byPair, <<c.token, c.team>>, n + 1)
      /\ d.byToken = s.byToken \cup {<<c.token, n + 1>>}
      /\ d.byTeam = s.byTeam \cup {<<c.team, n + 1>>}
  BY DEF Good, IsState, Fields, Same, MemberFields, AddMember
<1>2. n + 1 \notin DOMAIN s.members /\ Table(d.members, n + 1)
  BY <1>1, Fresh, TablePut DEF Good, MembersOK
<1>3. /\ MemberKeys(d.members) = Put(keys, n + 1, <<c.token, c.team>>)
      /\ MemberTokens(d.members) = Put(tokens, n + 1, c.token)
      /\ MemberTeams(d.members) = Put(teams, n + 1, c.team)
  <2>1. row.token = c.token /\ row.team = c.team
    OBVIOUS
  <2>2. /\ MemberKeys(d.members) = Put(keys, n + 1, <<row.token, row.team>>)
        /\ MemberTokens(d.members) = Put(tokens, n + 1, row.token)
        /\ MemberTeams(d.members) = Put(teams, n + 1, row.team)
    <3> HIDE DEF row
    <3> QED
      BY <1>1, MemberColumns, SMTT(30)
  <2> QED
    BY <2>1, <2>2
<1>4. n + 1 \notin DOMAIN keys /\ n + 1 \notin DOMAIN tokens /\ n + 1 \notin DOMAIN teams
  BY <1>2 DEF MemberKeys, MemberTokens, MemberTeams
<1>5. Unique(d.byPair, MemberKeys(d.members))
  BY <1>1, <1>3, <1>4, UniquePut DEF Good, MembersOK
<1>6. Grouping(d.byToken, MemberTokens(d.members)) /\ Grouping(d.byTeam, MemberTeams(d.members))
  BY <1>1, <1>3, <1>4, GroupingPut DEF Good, MembersOK
<1>7. /\ \A m : m \in DOMAIN d.members <=> m \in DOMAIN s.members \/ m = n + 1
      /\ d.members[n + 1] = row
      /\ \A m \in DOMAIN s.members : d.members[m] = s.members[m]
  BY <1>1, <1>2, PutMap
<1>8. \A m \in DOMAIN d.members :
            d.members[m] = [token |-> d.members[m].token, team |-> d.members[m].team]
  BY <1>7 DEF Good, MembersOK
<1>9. MembersOK(d, n + 1)
  BY <1>2, <1>5, <1>6, <1>8 DEF MembersOK
<1>10. /\ Same(s, d, TokenFields) /\ Same(s, d, OrgFields) /\ Same(s, d, TeamFields)
       /\ Same(s, d, RoleFields) /\ Same(s, d, MPermFields)
  BY <1>1 DEF Same, Fields, TokenFields, OrgFields, TeamFields, RoleFields, MPermFields, MemberFields
<1>11. /\ TokensOK(d, n + 1) /\ OrgsOK(d, n + 1) /\ TeamsOK(d, n + 1)
       /\ RolesOK(d, n + 1) /\ MPermsOK(d, n + 1)
  <2>1. n + 1 \in Nat /\ n <= n + 1
    OBVIOUS
  <2> QED
    BY <1>10, <2>1, PartsKept DEF Good
<1>12. Linked(d)
  <2>1. c.token < n + 1 /\ c.team < n + 1
    BY DEF Good, TokensOK, TeamsOK, Table
  <2> QED
    BY <1>7, <1>10, <2>1 DEF Good, Linked, Same, TokenFields, OrgFields, TeamFields, RoleFields, MPermFields
<1> QED
  BY <1>1, <1>9, <1>11, <1>12 DEF Good

LEMMA RemoveMemberOK ==
    ASSUME NEW s, NEW c, NEW n \in Nat, Good(s, n), <<c.token, c.team>> \in DOMAIN s.byPair,
           NEW d, d = RemoveMember(s, c)
    PROVE  /\ Good(d, n + 1) /\ Same(s, d, Fields \ MemberFields)
           /\ s.byPair[<<c.token, c.team>>] \in DOMAIN s.members
           /\ d.members = Drop(s.members, {s.byPair[<<c.token, c.team>>]})
<1> DEFINE old == s.byPair[<<c.token, c.team>>]
<1>1. old \in DOMAIN s.members
  <2>1. old \in DOMAIN MemberKeys(s.members)
    BY DEF Good, MembersOK, Unique
  <2> QED
    BY <2>1 DEF MemberKeys
<1>2. /\ IsState(d) /\ Same(s, d, Fields \ MemberFields)
      /\ d.members = Drop(s.members, {old}) /\ MembersOK(d, n)
  <2>1. {old} \subseteq DOMAIN s.members
    BY <1>1
  <2>2. d = DropMembers(s, {old})
    BY DEF RemoveMember
  <2>3. IsState(s) /\ MembersOK(s, n)
    BY DEF Good
  <2> HIDE DEF old
  <2> QED
    BY <2>1, <2>2, <2>3, DropMembersOK
<1>3. /\ Same(s, d, TokenFields) /\ Same(s, d, OrgFields) /\ Same(s, d, TeamFields)
      /\ Same(s, d, RoleFields) /\ Same(s, d, MPermFields) /\ Same(d, d, MemberFields)
  BY <1>2 DEF Same, Fields, TokenFields, OrgFields, TeamFields, RoleFields, MPermFields, MemberFields
<1>4. /\ TokensOK(d, n + 1) /\ OrgsOK(d, n + 1) /\ TeamsOK(d, n + 1)
      /\ RolesOK(d, n + 1) /\ MPermsOK(d, n + 1) /\ MembersOK(d, n + 1)
  <2>1. n + 1 \in Nat /\ n <= n + 1
    OBVIOUS
  <2> QED
    BY <1>2, <1>3, <2>1, PartsKept DEF Good
<1>5. Linked(d)
  <2>1. \A m \in DOMAIN d.members : m \in DOMAIN s.members /\ d.members[m] = s.members[m]
    BY <1>2, DropMap
  <2> QED
    BY <1>3, <2>1 DEF Good, Linked, Same, TokenFields, OrgFields, TeamFields, RoleFields, MPermFields
<1> QED
  BY <1>1, <1>2, <1>4, <1>5 DEF Good

---------------------------------------------------------------------------
(* Every command, accepted or refused.                                       *)

LEMMA Kept ==
    ASSUME NEW s, NEW n \in Nat, Good(s, n) PROVE Good(s, n + 1)
<1>1. n + 1 \in Nat /\ n <= n + 1
  OBVIOUS
<1>2. /\ Same(s, s, TokenFields) /\ Same(s, s, OrgFields) /\ Same(s, s, TeamFields)
      /\ Same(s, s, RoleFields) /\ Same(s, s, MPermFields) /\ Same(s, s, MemberFields)
  BY DEF Same
<1> QED
  BY <1>1, <1>2, PartsKept DEF Good

LEMMA TokenCommand ==
    ASSUME NEW s, NEW c, NEW n \in Nat, Good(s, n), c.op \in TokenOps, AcceptsToken(s, c)
    PROVE  Good(Effect(s, c, n + 1), n + 1)
<1>1. CASE c.op = "CreateToken"
  BY <1>1, CreateTokenOK DEF AcceptsToken, Effect
<1>2. CASE c.op = "UpdateToken"
  BY <1>2, UpdateTokenOK DEF AcceptsToken, Effect
<1>3. CASE c.op = "RevokeToken"
  BY <1>3, RevokeTokenOK DEF AcceptsToken, Effect
<1>4. CASE c.op = "RotateToken"
  BY <1>4, RotateTokenOK DEF AcceptsToken, Effect
<1>5. CASE c.op = "DeleteToken"
  BY <1>5, DeleteTokenOK DEF AcceptsToken, Effect
<1> QED
  BY <1>1, <1>2, <1>3, <1>4, <1>5 DEF TokenOps

LEMMA OrgCommand ==
    ASSUME NEW s, NEW c, NEW n \in Nat, Good(s, n), c.op \in OrgOps, AcceptsOrg(s, c)
    PROVE  Good(Effect(s, c, n + 1), n + 1)
<1>1. CASE c.op = "CreateOrg"
  BY <1>1, CreateOrgOK DEF AcceptsOrg, Effect
<1>2. CASE c.op = "UpdateOrg"
  BY <1>2, UpdateOrgOK DEF AcceptsOrg, Effect
<1>3. CASE c.op = "DeleteOrg"
  BY <1>3, DeleteOrgOK DEF AcceptsOrg, Effect
<1> QED
  BY <1>1, <1>2, <1>3 DEF OrgOps

LEMMA TeamCommand ==
    ASSUME NEW s, NEW c, NEW n \in Nat, Good(s, n), c.op \in TeamOps, AcceptsTeam(s, c)
    PROVE  Good(Effect(s, c, n + 1), n + 1)
<1>1. CASE c.op = "CreateTeam"
  BY <1>1, CreateTeamOK DEF AcceptsTeam, Effect
<1>2. CASE c.op = "UpdateTeam"
  BY <1>2, UpdateTeamOK DEF AcceptsTeam, Effect
<1>3. CASE c.op = "DeleteTeam"
  BY <1>3, DeleteTeamOK DEF AcceptsTeam, Effect
<1> QED
  BY <1>1, <1>2, <1>3 DEF TeamOps

LEMMA RoleCommand ==
    ASSUME NEW s, NEW c, NEW n \in Nat, Good(s, n), c.op \in RoleOps, AcceptsRole(s, c)
    PROVE  Good(Effect(s, c, n + 1), n + 1)
<1>1. CASE c.op = "CreateRole"
  BY <1>1, CreateRoleOK DEF AcceptsRole, Effect
<1>2. CASE c.op = "UpdateRole"
  BY <1>2, UpdateRoleOK DEF AcceptsRole, Effect
<1>3. CASE c.op = "DeleteRole"
  BY <1>3, DeleteRoleOK DEF AcceptsRole, Effect
<1> QED
  BY <1>1, <1>2, <1>3 DEF RoleOps

LEMMA MPermCommand ==
    ASSUME NEW s, NEW c, NEW n \in Nat, Good(s, n), c.op \in MPermOps, AcceptsMPerm(s, c)
    PROVE  Good(Effect(s, c, n + 1), n + 1)
<1>1. CASE c.op = "CreateMPerm"
  BY <1>1, CreateMPermOK DEF AcceptsMPerm, Effect
<1>2. CASE c.op = "DeleteMPerm"
  BY <1>2, DeleteMPermOK DEF AcceptsMPerm, Effect
<1> QED
  BY <1>1, <1>2 DEF MPermOps

LEMMA MemberCommand ==
    ASSUME NEW s, NEW c, NEW n \in Nat, Good(s, n), c.op \in MemberOps, AcceptsMember(s, c)
    PROVE  Good(Effect(s, c, n + 1), n + 1)
<1>1. CASE c.op = "AddMember"
  BY <1>1, AddMemberOK DEF AcceptsMember, Effect
<1>2. CASE c.op = "RemoveMember"
  BY <1>2, RemoveMemberOK DEF AcceptsMember, Effect
<1> QED
  BY <1>1, <1>2 DEF MemberOps

\* The kind of a command decides which checks it meets.
LEMMA AcceptsByKind ==
    ASSUME NEW s, NEW c
    PROVE  /\ c.op \in TokenOps => Accepts(s, c) = AcceptsToken(s, c)
           /\ c.op \in OrgOps => Accepts(s, c) = AcceptsOrg(s, c)
           /\ c.op \in TeamOps => Accepts(s, c) = AcceptsTeam(s, c)
           /\ c.op \in RoleOps => Accepts(s, c) = AcceptsRole(s, c)
           /\ c.op \in MPermOps => Accepts(s, c) = AcceptsMPerm(s, c)
           /\ c.op \in MemberOps => Accepts(s, c) = AcceptsMember(s, c)
BY DEF Accepts, TokenOps, OrgOps, TeamOps, RoleOps, MPermOps, MemberOps

LEMMA ApplyGood ==
    ASSUME NEW s, NEW c, NEW n \in Nat, Good(s, n), c.op \in Ops
    PROVE  Good(Apply(s, c, n + 1), n + 1)
<1>1. CASE ~Accepts(s, c)
  BY <1>1, Kept DEF Apply
<1>2. CASE Accepts(s, c)
  <2>1. Apply(s, c, n + 1) = Effect(s, c, n + 1)
    BY <1>2 DEF Apply
  <2>2. CASE c.op \in TokenOps
    BY <1>2, <2>1, <2>2, AcceptsByKind, TokenCommand
  <2>3. CASE c.op \in OrgOps
    BY <1>2, <2>1, <2>3, AcceptsByKind, OrgCommand
  <2>4. CASE c.op \in TeamOps
    BY <1>2, <2>1, <2>4, AcceptsByKind, TeamCommand
  <2>5. CASE c.op \in RoleOps
    BY <1>2, <2>1, <2>5, AcceptsByKind, RoleCommand
  <2>6. CASE c.op \in MPermOps
    BY <1>2, <2>1, <2>6, AcceptsByKind, MPermCommand
  <2>7. CASE c.op \in MemberOps
    BY <1>2, <2>1, <2>7, AcceptsByKind, MemberCommand
  <2> QED
    BY <2>2, <2>3, <2>4, <2>5, <2>6, <2>7 DEF Ops
<1> QED
  BY <1>1, <1>2

\* Commands of the other kinds leave the tokens alone.
LEMMA OtherCommandTokens ==
    ASSUME NEW s, NEW c, NEW n \in Nat, Good(s, n), c.op \in Ops \ TokenOps, Accepts(s, c),
           NEW d, d = Effect(s, c, n + 1)
    PROVE  d.tokens = s.tokens
<1>1. /\ "tokens" \in TokenFields /\ "tokens" \in TokenFields \cup OrgFields
      /\ "tokens" \in Fields \ OrgFields /\ "tokens" \in Fields \ TeamFields
      /\ "tokens" \in Fields \ RoleFields /\ "tokens" \in Fields \ {"roles"}
      /\ "tokens" \in Fields \ (RoleFields \cup MPermFields)
      /\ "tokens" \in Fields \ MPermFields /\ "tokens" \in Fields \ MemberFields
  BY DEF Fields, TokenFields, OrgFields, TeamFields, RoleFields, MPermFields, MemberFields
<1>2. CASE c.op \in OrgOps
  <2>1. AcceptsOrg(s, c)
    BY <1>2, AcceptsByKind
  <2>2. CASE c.op = "CreateOrg"
    <3>1. d = CreateOrg(s, c, n + 1)
      BY <2>2 DEF Effect
    <3>2. Same(s, d, Fields \ OrgFields)
      BY <2>1, <2>2, <3>1, CreateOrgOK DEF AcceptsOrg
    <3> QED
      BY <1>1, <3>2 DEF Same
  <2>3. CASE c.op = "UpdateOrg"
    <3>1. d = UpdateOrg(s, c)
      BY <2>3 DEF Effect
    <3>2. Same(s, d, Fields \ OrgFields)
      BY <2>1, <2>3, <3>1, UpdateOrgOK DEF AcceptsOrg
    <3> QED
      BY <1>1, <3>2 DEF Same
  <2>4. CASE c.op = "DeleteOrg"
    <3>1. d = DeleteOrg(s, c)
      BY <2>4 DEF Effect
    <3>2. Same(s, d, TokenFields)
      BY <2>1, <2>4, <3>1, DeleteOrgOK DEF AcceptsOrg
    <3> QED
      BY <1>1, <3>2 DEF Same
  <2> QED
    BY <1>2, <2>2, <2>3, <2>4 DEF OrgOps
<1>3. CASE c.op \in TeamOps
  <2>1. AcceptsTeam(s, c)
    BY <1>3, AcceptsByKind
  <2>2. CASE c.op = "CreateTeam"
    <3>1. d = CreateTeam(s, c, n + 1)
      BY <2>2 DEF Effect
    <3>2. Same(s, d, Fields \ TeamFields)
      BY <2>1, <2>2, <3>1, CreateTeamOK DEF AcceptsTeam
    <3> QED
      BY <1>1, <3>2 DEF Same
  <2>3. CASE c.op = "UpdateTeam"
    <3>1. d = UpdateTeam(s, c)
      BY <2>3 DEF Effect
    <3>2. Same(s, d, Fields \ TeamFields)
      BY <2>1, <2>3, <3>1, UpdateTeamOK DEF AcceptsTeam
    <3> QED
      BY <1>1, <3>2 DEF Same
  <2>4. CASE c.op = "DeleteTeam"
    <3>1. d = DeleteTeam(s, c)
      BY <2>4 DEF Effect
    <3>2. Same(s, d, TokenFields \cup OrgFields)
      BY <2>1, <2>4, <3>1, DeleteTeamOK DEF AcceptsTeam
    <3> QED
      BY <1>1, <3>2 DEF Same
  <2> QED
    BY <1>3, <2>2, <2>3, <2>4 DEF TeamOps
<1>4. CASE c.op \in RoleOps
  <2>1. AcceptsRole(s, c)
    BY <1>4, AcceptsByKind
  <2>2. CASE c.op = "CreateRole"
    <3>1. d = CreateRole(s, c, n + 1)
      BY <2>2 DEF Effect
    <3>2. Same(s, d, Fields \ RoleFields)
      BY <2>1, <2>2, <3>1, CreateRoleOK DEF AcceptsRole
    <3> QED
      BY <1>1, <3>2 DEF Same
  <2>3. CASE c.op = "UpdateRole"
    <3>1. d = UpdateRole(s, c)
      BY <2>3 DEF Effect
    <3>2. Same(s, d, Fields \ {"roles"})
      BY <2>1, <2>3, <3>1, UpdateRoleOK DEF AcceptsRole
    <3> QED
      BY <1>1, <3>2 DEF Same
  <2>4. CASE c.op = "DeleteRole"
    <3>1. d = DeleteRole(s, c)
      BY <2>4 DEF Effect
    <3>2. Same(s, d, Fields \ (RoleFields \cup MPermFields))
      BY <2>1, <2>4, <3>1, DeleteRoleOK DEF AcceptsRole
    <3> QED
      BY <1>1, <3>2 DEF Same
  <2> QED
    BY <1>4, <2>2, <2>3, <2>4 DEF RoleOps
<1>5. CASE c.op \in MPermOps
  <2>1. AcceptsMPerm(s, c)
    BY <1>5, AcceptsByKind
  <2>2. CASE c.op = "CreateMPerm"
    <3>1. d = CreateMPerm(s, c, n + 1)
      BY <2>2 DEF Effect
    <3>2. Same(s, d, Fields \ MPermFields)
      BY <2>1, <2>2, <3>1, CreateMPermOK DEF AcceptsMPerm
    <3> QED
      BY <1>1, <3>2 DEF Same
  <2>3. CASE c.op = "DeleteMPerm"
    <3>1. d = DeleteMPerm(s, c)
      BY <2>3 DEF Effect
    <3>2. Same(s, d, Fields \ MPermFields)
      BY <2>1, <2>3, <3>1, DeleteMPermOK DEF AcceptsMPerm
    <3> QED
      BY <1>1, <3>2 DEF Same
  <2> QED
    BY <1>5, <2>2, <2>3 DEF MPermOps
<1>6. CASE c.op \in MemberOps
  <2>1. AcceptsMember(s, c)
    BY <1>6, AcceptsByKind
  <2>2. CASE c.op = "AddMember"
    <3>1. d = AddMember(s, c, n + 1)
      BY <2>2 DEF Effect
    <3>2. Same(s, d, Fields \ MemberFields)
      BY <2>1, <2>2, <3>1, AddMemberOK DEF AcceptsMember
    <3> QED
      BY <1>1, <3>2 DEF Same
  <2>3. CASE c.op = "RemoveMember"
    <3>1. d = RemoveMember(s, c)
      BY <2>3 DEF Effect
    <3>2. Same(s, d, Fields \ MemberFields)
      BY <2>1, <2>3, <3>1, RemoveMemberOK DEF AcceptsMember
    <3> QED
      BY <1>1, <3>2 DEF Same
  <2> QED
    BY <1>6, <2>2, <2>3 DEF MemberOps
<1> QED
  BY <1>2, <1>3, <1>4, <1>5, <1>6 DEF Ops

---------------------------------------------------------------------------
(* Restore, of the primary maps of such a state, gives the state back.       *)

NoEmptyName(s) == \A t \in DOMAIN s.tokens : s.tokens[t].name # Empty

\* Only a rename can empty a name.
LEMMA ApplyNoEmpty ==
    ASSUME NEW s, NEW c, NEW n \in Nat, Good(s, n), c.op \in Ops, NoEmptyName(s),
           ~(c.op = "UpdateToken" /\ c.name = Empty)
    PROVE  NoEmptyName(Apply(s, c, n + 1))
<1> SUFFICES ASSUME Accepts(s, c) PROVE NoEmptyName(Effect(s, c, n + 1))
  BY DEF Apply
<1> DEFINE d == Effect(s, c, n + 1)
<1> HIDE DEF d
<1>1. CASE c.op = "CreateToken"
  <2>1. c.name # Empty /\ c.name \notin DOMAIN s.tokensByName /\ d = CreateToken(s, c, n + 1)
    BY <1>1, AcceptsByKind DEF TokenOps, AcceptsToken, Effect, d
  <2>2. d.tokens = Put(s.tokens, n + 1, [name |-> c.name, cred |-> c.cred, on |-> TRUE])
    BY <2>1, CreateTokenOK
  <2>3. \A t \in DOMAIN d.tokens :
            \/ t = n + 1 /\ d.tokens[t] = [name |-> c.name, cred |-> c.cred, on |-> TRUE]
            \/ t \in DOMAIN s.tokens /\ d.tokens[t] = s.tokens[t]
    BY <2>2, PutMap
  <2> QED
    BY <2>1, <2>3 DEF NoEmptyName, d
<1>2. CASE c.op \in {"UpdateToken", "RevokeToken", "RotateToken"}
  <2>1. c.id \in DOMAIN s.tokens
    BY <1>2, AcceptsByKind DEF TokenOps, AcceptsToken
  <2> DEFINE old == s.tokens[c.id]
  <2>2. old = [name |-> old.name, cred |-> old.cred, on |-> old.on]
    BY <2>1 DEF Good, TokensOK
  <2>3. \E row : row.name # Empty /\ d.tokens = [s.tokens EXCEPT ![c.id] = row]
    <3>1. CASE c.op = "UpdateToken"
      <4>1. c.name # Empty /\ d = UpdateToken(s, c)
        BY <3>1 DEF Effect, d
      <4>5. c.name \in DOMAIN s.tokensByName => s.tokensByName[c.name] = c.id
        <5>1. AcceptsToken(s, c)
          BY <3>1, AcceptsByKind DEF TokenOps
        <5> QED
          BY <3>1, <5>1 DEF AcceptsToken
      <4>2. d.tokens = [s.tokens EXCEPT ![c.id] = [old EXCEPT !.name = c.name]]
        BY <2>1, <4>1, <4>5, UpdateTokenOK
      <4>3. [old EXCEPT !.name = c.name] = [name |-> c.name, cred |-> old.cred, on |-> old.on]
        BY <2>2, TokenRow
      <4>4. [name |-> c.name, cred |-> old.cred, on |-> old.on].name # Empty
        BY <4>1
      <4> QED
        BY <4>2, <4>3, <4>4
    <3>2. CASE c.op = "RevokeToken"
      <4>1. d.tokens = [s.tokens EXCEPT ![c.id] = [old EXCEPT !.on = FALSE]]
        BY <3>2, <2>1, RevokeTokenOK DEF Effect, d
      <4>2. [old EXCEPT !.on = FALSE] = [name |-> old.name, cred |-> old.cred, on |-> FALSE]
        BY <2>2, TokenRow
      <4>3. [name |-> old.name, cred |-> old.cred, on |-> FALSE].name # Empty
        BY <2>1 DEF NoEmptyName
      <4> QED
        BY <4>1, <4>2, <4>3
    <3>3. CASE c.op = "RotateToken"
      <4>1. d.tokens = [s.tokens EXCEPT ![c.id] = [old EXCEPT !.cred = c.cred]]
        BY <3>3, <2>1, RotateTokenOK DEF Effect, d
      <4>2. [old EXCEPT !.cred = c.cred] = [name |-> old.name, cred |-> c.cred, on |-> old.on]
        BY <2>2, TokenRow
      <4>3. [name |-> old.name, cred |-> c.cred, on |-> old.on].name # Empty
        BY <2>1 DEF NoEmptyName
      <4> QED
        BY <4>1, <4>2, <4>3
    <3> QED
      BY <1>2, <3>1, <3>2, <3>3
  <2> QED
    BY <2>1, <2>3 DEF NoEmptyName, d
<1>3. CASE c.op = "DeleteToken"
  <2>1. c.id \in DOMAIN s.tokens
    BY <1>3, AcceptsByKind DEF TokenOps, AcceptsToken
  <2>2. d.tokens = Drop(s.tokens, {c.id})
    <3>1. d = DeleteToken(s, c)
      BY <1>3 DEF Effect, d
    <3> QED
      BY <2>1, <3>1, DeleteTokenOK, ZenonT(30)
  <2> QED
    BY <2>2, DropMap DEF NoEmptyName, d
<1>4. CASE c.op \notin TokenOps
  <2>1. d.tokens = s.tokens
    BY <1>4, OtherCommandTokens, SMTT(30) DEF Ops, d
  <2> QED
    BY <2>1 DEF NoEmptyName, d
<1> QED
  BY <1>1, <1>2, <1>3, <1>4 DEF TokenOps

\* The rows that a cascade leaves, in one table and in all.
LEMMA RestrictRows ==
    ASSUME NEW f, NEW S, S \subseteq DOMAIN f, NEW g, g = Restrict(f, S)
    PROVE  IsMap(g) /\ (\A x : x \in DOMAIN g <=> x \in S) /\ \A x \in DOMAIN g : g[x] = f[x]
BY RestrictMap

LEMMA CascadeRows ==
    ASSUME NEW p, p = [x \in Tables |-> p[x]], NEW d, d = Cascade(p)
    PROVE  /\ d = [x \in Tables |-> d[x]]
           /\ d.tokens = p.tokens /\ d.orgs = p.orgs
           /\ IsMap(d.teams) /\ IsMap(d.roles) /\ IsMap(d.mperms) /\ IsMap(d.members)
           /\ \A x : /\ x \in DOMAIN d.teams <=>
                            x \in DOMAIN p.teams /\ p.teams[x].org \in DOMAIN d.orgs
                     /\ x \in DOMAIN d.roles <=>
                            x \in DOMAIN p.roles /\ p.roles[x].team \in DOMAIN d.teams
                     /\ x \in DOMAIN d.mperms <=>
                            x \in DOMAIN p.mperms /\ p.mperms[x].role \in DOMAIN d.roles
                     /\ x \in DOMAIN d.members <=>
                            /\ x \in DOMAIN p.members /\ p.members[x].token \in DOMAIN d.tokens
                            /\ p.members[x].team \in DOMAIN d.teams
                     /\ x \in DOMAIN d.teams => d.teams[x] = p.teams[x]
                     /\ x \in DOMAIN d.roles => d.roles[x] = p.roles[x]
                     /\ x \in DOMAIN d.mperms => d.mperms[x] = p.mperms[x]
                     /\ x \in DOMAIN d.members => d.members[x] = p.members[x]
<1> DEFINE T == {t \in DOMAIN p.teams : p.teams[t].org \in DOMAIN p.orgs}
           R == {r \in DOMAIN p.roles : p.roles[r].team \in DOMAIN d.teams}
           P == {m \in DOMAIN p.mperms : p.mperms[m].role \in DOMAIN d.roles}
           M == {m \in DOMAIN p.members :
                    p.members[m].token \in DOMAIN p.tokens /\ p.members[m].team \in DOMAIN d.teams}
<1>1. /\ d = [x \in Tables |-> d[x]]
      /\ d.tokens = p.tokens /\ d.orgs = p.orgs
      /\ d.teams = Restrict(p.teams, T) /\ d.roles = Restrict(p.roles, R)
      /\ d.mperms = Restrict(p.mperms, P) /\ d.members = Restrict(p.members, M)
  BY DEF Tables, Cascade
<1>2. /\ T \subseteq DOMAIN p.teams /\ R \subseteq DOMAIN p.roles
      /\ P \subseteq DOMAIN p.mperms /\ M \subseteq DOMAIN p.members
  OBVIOUS
<1>3. \A x : /\ x \in T <=> x \in DOMAIN p.teams /\ p.teams[x].org \in DOMAIN p.orgs
             /\ x \in R <=> x \in DOMAIN p.roles /\ p.roles[x].team \in DOMAIN d.teams
             /\ x \in P <=> x \in DOMAIN p.mperms /\ p.mperms[x].role \in DOMAIN d.roles
             /\ x \in M <=> /\ x \in DOMAIN p.members /\ p.members[x].token \in DOMAIN p.tokens
                            /\ p.members[x].team \in DOMAIN d.teams
  OBVIOUS
<1> HIDE DEF T, R, P, M
<1>4. IsMap(d.teams) /\ (\A x : x \in DOMAIN d.teams <=> x \in T)
                     /\ \A x \in DOMAIN d.teams : d.teams[x] = p.teams[x]
  BY <1>1, <1>2, RestrictRows
<1>5. IsMap(d.roles) /\ (\A x : x \in DOMAIN d.roles <=> x \in R)
                     /\ \A x \in DOMAIN d.roles : d.roles[x] = p.roles[x]
  BY <1>1, <1>2, RestrictRows
<1>6. IsMap(d.mperms) /\ (\A x : x \in DOMAIN d.mperms <=> x \in P)
                      /\ \A x \in DOMAIN d.mperms : d.mperms[x] = p.mperms[x]
  BY <1>1, <1>2, RestrictRows
<1>7. IsMap(d.members) /\ (\A x : x \in DOMAIN d.members <=> x \in M)
                       /\ \A x \in DOMAIN d.members : d.members[x] = p.members[x]
  BY <1>1, <1>2, RestrictRows
<1> QED
  BY <1>1, <1>3, <1>4, <1>5, <1>6, <1>7

LEMMA CascadeNothing ==
    ASSUME NEW s, NEW n \in Nat, Good(s, n), NEW p, p = Primaries(s)
    PROVE  Cascade(p) = p
<1> DEFINE d == Cascade(p)
<1>0. d = Cascade(p)
  OBVIOUS
<1> HIDE DEF d
<1>1. /\ p = [x \in Tables |-> p[x]]
      /\ p.tokens = s.tokens /\ p.orgs = s.orgs /\ p.teams = s.teams /\ p.roles = s.roles
      /\ p.mperms = s.mperms /\ p.members = s.members
  BY DEF Primaries, Tables
<1>2. IsMap(s.teams) /\ IsMap(s.roles) /\ IsMap(s.mperms) /\ IsMap(s.members)
  BY DEF Good, TeamsOK, RolesOK, MPermsOK, MembersOK, Table
<1>3. Linked(s)
  BY DEF Good
<1>4. /\ d = [x \in Tables |-> d[x]] /\ d.tokens = p.tokens /\ d.orgs = p.orgs
      /\ IsMap(d.teams) /\ IsMap(d.roles) /\ IsMap(d.mperms) /\ IsMap(d.members)
  BY <1>0, <1>1, CascadeRows
<1>5. d.teams = p.teams
  <2>1. \A x : /\ x \in DOMAIN d.teams <=> x \in DOMAIN p.teams /\ p.teams[x].org \in DOMAIN d.orgs
               /\ x \in DOMAIN d.teams => d.teams[x] = p.teams[x]
    BY <1>0, <1>1, CascadeRows
  <2>2. DOMAIN d.teams = DOMAIN p.teams
    BY <2>1, <1>1, <1>3, <1>4 DEF Linked
  <2> QED
    BY <2>1, <2>2, <1>1, <1>2, <1>4, MapsEqual
<1>6. d.roles = p.roles
  <2>1. \A x : /\ x \in DOMAIN d.roles <=> x \in DOMAIN p.roles /\ p.roles[x].team \in DOMAIN d.teams
               /\ x \in DOMAIN d.roles => d.roles[x] = p.roles[x]
    BY <1>0, <1>1, CascadeRows
  <2>2. DOMAIN d.roles = DOMAIN p.roles
    BY <2>1, <1>1, <1>3, <1>5 DEF Linked
  <2> QED
    BY <2>1, <2>2, <1>1, <1>2, <1>4, MapsEqual
<1>7. d.mperms = p.mperms
  <2>1. \A x : /\ x \in DOMAIN d.mperms <=> x \in DOMAIN p.mperms /\ p.mperms[x].role \in DOMAIN d.roles
               /\ x \in DOMAIN d.mperms => d.mperms[x] = p.mperms[x]
    BY <1>0, <1>1, CascadeRows
  <2>2. DOMAIN d.mperms = DOMAIN p.mperms
    BY <2>1, <1>1, <1>3, <1>6 DEF Linked
  <2> QED
    BY <2>1, <2>2, <1>1, <1>2, <1>4, MapsEqual
<1>8. d.members = p.members
  <2>1. \A x : /\ x \in DOMAIN d.members <=>
                        /\ x \in DOMAIN p.members /\ p.members[x].token \in DOMAIN d.tokens
                        /\ p.members[x].team \in DOMAIN d.teams
               /\ x \in DOMAIN d.members => d.members[x] = p.members[x]
    BY <1>0, <1>1, CascadeRows
  <2>2. DOMAIN d.members = DOMAIN p.members
    BY <2>1, <1>1, <1>3, <1>4, <1>5 DEF Linked
  <2> QED
    BY <2>1, <2>2, <1>1, <1>2, <1>4, MapsEqual
<1>9. \A x \in Tables : d[x] = p[x]
  BY <1>4, <1>5, <1>6, <1>7, <1>8 DEF Tables
<1>10. d = p
  BY <1>1, <1>4, <1>9
<1> QED
  BY <1>0, <1>10

\* The tables of the state, and with what Restore drops from them.
LEMMA QuarantineNothing ==
    ASSUME NEW s, NEW n \in Nat, Good(s, n), NoEmptyName(s), NEW p, p = Primaries(s)
    PROVE  Quarantine(p) = p
<1>1. /\ p = [x \in Tables |-> p[x]]
      /\ p.tokens = s.tokens /\ p.orgs = s.orgs /\ p.teams = s.teams /\ p.roles = s.roles
      /\ p.mperms = s.mperms /\ p.members = s.members
  BY DEF Primaries, Tables
<1>2. /\ IsMap(s.tokens) /\ IsMap(s.orgs) /\ IsMap(s.teams) /\ IsMap(s.roles)
      /\ IsMap(s.mperms) /\ IsMap(s.members)
  BY DEF Good, TokensOK, OrgsOK, TeamsOK, RolesOK, MPermsOK, MembersOK, Table
<1>3. /\ DOMAIN s.orgs \subseteq Nat /\ DOMAIN s.teams \subseteq Nat /\ DOMAIN s.members \subseteq Nat
  BY DEF Good, OrgsOK, TeamsOK, MembersOK, Table
<1>4. \A i, j \in DOMAIN s.orgs : s.orgs[j].name = s.orgs[i].name => i = j
  <2>1. Unique(s.orgsByName, OrgNames(s.orgs))
    BY DEF Good, OrgsOK
  <2> QED
    BY <2>1, UniqueKey DEF OrgNames
<1>5. \A i, j \in DOMAIN s.teams :
            <<s.teams[j].org, s.teams[j].name>> = <<s.teams[i].org, s.teams[i].name>> => i = j
  <2>1. Unique(s.teamsByOrg, TeamKeys(s.teams))
    BY DEF Good, TeamsOK
  <2> QED
    BY <2>1, UniqueKey DEF TeamKeys
<1>6. \A i, j \in DOMAIN s.members :
            <<s.members[j].token, s.members[j].team>> = <<s.members[i].token, s.members[i].team>> => i = j
  <2>1. Unique(s.byPair, MemberKeys(s.members))
    BY DEF Good, MembersOK
  <2> QED
    BY <2>1, UniqueKey DEF MemberKeys
<1> DEFINE toks == Restrict(p.tokens, {t \in DOMAIN p.tokens : p.tokens[t].name # Empty})
           os == Restrict(p.orgs, {i \in DOMAIN p.orgs :
                    \A j \in DOMAIN p.orgs : p.orgs[j].name = p.orgs[i].name => i <= j})
           ts == Restrict(p.teams, {i \in DOMAIN p.teams : \A j \in DOMAIN p.teams :
                    <<p.teams[j].org, p.teams[j].name>> = <<p.teams[i].org, p.teams[i].name>> => i <= j})
           ms == Restrict(p.members, {i \in DOMAIN p.members : \A j \in DOMAIN p.members :
                    <<p.members[j].token, p.members[j].team>> = <<p.members[i].token, p.members[i].team>>
                        => i <= j})
           u == [p EXCEPT !.tokens = toks, !.orgs = os, !.teams = ts, !.members = ms]
<1>7. Quarantine(p) = Cascade(u)
  BY SMT, <1>1 DEF Quarantine, KeepOne, Tables
<1>8. toks = p.tokens
  <2>1. {t \in DOMAIN p.tokens : p.tokens[t].name # Empty} = DOMAIN p.tokens
    BY <1>1 DEF NoEmptyName
  <2> QED
    BY <1>1, <1>2, <2>1, KeptWhole
<1>9. os = p.orgs
  <2>1. {i \in DOMAIN p.orgs : \A j \in DOMAIN p.orgs : p.orgs[j].name = p.orgs[i].name => i <= j}
            = DOMAIN p.orgs
    BY <1>1, <1>3, <1>4
  <2> QED
    BY <1>1, <1>2, <2>1, KeptWhole
<1>11. ts = p.teams
  <2>1. {i \in DOMAIN p.teams : \A j \in DOMAIN p.teams :
            <<p.teams[j].org, p.teams[j].name>> = <<p.teams[i].org, p.teams[i].name>> => i <= j}
            = DOMAIN p.teams
    BY <1>1, <1>3, <1>5
  <2> QED
    BY <1>1, <1>2, <2>1, KeptWhole
<1>12. ms = p.members
  <2>1. {i \in DOMAIN p.members : \A j \in DOMAIN p.members :
            <<p.members[j].token, p.members[j].team>> = <<p.members[i].token, p.members[i].team>>
                => i <= j}
            = DOMAIN p.members
    BY <1>1, <1>3, <1>6
  <2> QED
    BY <1>1, <1>2, <2>1, KeptWhole
<1>13. u = p
  <2> HIDE DEF toks, os, ts, ms
  <2> QED
    BY <1>1, <1>8, <1>9, <1>11, <1>12 DEF Tables
<1>14. Cascade(p) = p
  BY CascadeNothing
<1> HIDE DEF u
<1> QED
  BY <1>7, <1>13, <1>14

\* An index by a unique key is what Restore builds.
LEMMA TokenNamesBuilt ==
    ASSUME NEW f, NEW g, Unique(g, TokenNames(f))
    PROVE  g = [k \in {f[i].name : i \in DOMAIN f} |-> CHOOSE i \in DOMAIN f : f[i].name = k]
<1> DEFINE h == [k \in {f[i].name : i \in DOMAIN f} |-> CHOOSE i \in DOMAIN f : f[i].name = k]
<1>1. /\ \A x \in DOMAIN g : g[x] \in DOMAIN f /\ f[g[x]].name = x
      /\ \A i \in DOMAIN f : f[i].name \in DOMAIN g /\ g[f[i].name] = i
  BY DEF Unique, TokenNames
<1>2. DOMAIN g = {f[i].name : i \in DOMAIN f}
  BY <1>1
<1>3. ASSUME NEW x \in DOMAIN g PROVE (CHOOSE i \in DOMAIN f : f[i].name = x) = g[x]
  <2>1. g[x] \in DOMAIN f /\ f[g[x]].name = x
    BY <1>1
  <2>2. \A i \in DOMAIN f : f[i].name = x => i = g[x]
    BY <1>1
  <2> QED
    BY <2>1, <2>2
<1>4. IsMap(h) /\ DOMAIN h = DOMAIN g /\ \A x \in DOMAIN h : h[x] = CHOOSE i \in DOMAIN f : f[i].name = x
  BY <1>2 DEF IsMap
<1> HIDE DEF h
<1>5. g = h
  BY <1>3, <1>4, MapsEqual DEF Unique
<1> QED
  BY <1>5 DEF h

LEMMA OrgNamesBuilt ==
    ASSUME NEW f, NEW g, Unique(g, OrgNames(f))
    PROVE  g = [k \in {f[i].name : i \in DOMAIN f} |-> CHOOSE i \in DOMAIN f : f[i].name = k]
<1> DEFINE h == [k \in {f[i].name : i \in DOMAIN f} |-> CHOOSE i \in DOMAIN f : f[i].name = k]
<1>1. /\ \A x \in DOMAIN g : g[x] \in DOMAIN f /\ f[g[x]].name = x
      /\ \A i \in DOMAIN f : f[i].name \in DOMAIN g /\ g[f[i].name] = i
  BY DEF Unique, OrgNames
<1>2. DOMAIN g = {f[i].name : i \in DOMAIN f}
  BY <1>1
<1>3. ASSUME NEW x \in DOMAIN g PROVE (CHOOSE i \in DOMAIN f : f[i].name = x) = g[x]
  <2>1. g[x] \in DOMAIN f /\ f[g[x]].name = x
    BY <1>1
  <2>2. \A i \in DOMAIN f : f[i].name = x => i = g[x]
    BY <1>1
  <2> QED
    BY <2>1, <2>2
<1>4. IsMap(h) /\ DOMAIN h = DOMAIN g /\ \A x \in DOMAIN h : h[x] = CHOOSE i \in DOMAIN f : f[i].name = x
  BY <1>2 DEF IsMap
<1> HIDE DEF h
<1>5. g = h
  BY <1>3, <1>4, MapsEqual DEF Unique
<1> QED
  BY <1>5 DEF h

LEMMA TeamKeysBuilt ==
    ASSUME NEW f, NEW g, Unique(g, TeamKeys(f))
    PROVE  g = [k \in {<<f[i].org, f[i].name>> : i \in DOMAIN f} |-> CHOOSE i \in DOMAIN f : <<f[i].org, f[i].name>> = k]
<1> DEFINE h == [k \in {<<f[i].org, f[i].name>> : i \in DOMAIN f} |-> CHOOSE i \in DOMAIN f : <<f[i].org, f[i].name>> = k]
<1>1. /\ \A x \in DOMAIN g : g[x] \in DOMAIN f /\ <<f[g[x]].org, f[g[x]].name>> = x
      /\ \A i \in DOMAIN f : <<f[i].org, f[i].name>> \in DOMAIN g /\ g[<<f[i].org, f[i].name>>] = i
  BY DEF Unique, TeamKeys
<1>2. DOMAIN g = {<<f[i].org, f[i].name>> : i \in DOMAIN f}
  BY <1>1
<1>3. ASSUME NEW x \in DOMAIN g PROVE (CHOOSE i \in DOMAIN f : <<f[i].org, f[i].name>> = x) = g[x]
  <2>1. g[x] \in DOMAIN f /\ <<f[g[x]].org, f[g[x]].name>> = x
    BY <1>1
  <2>2. \A i \in DOMAIN f : <<f[i].org, f[i].name>> = x => i = g[x]
    BY <1>1
  <2> QED
    BY <2>1, <2>2
<1>4. IsMap(h) /\ DOMAIN h = DOMAIN g /\ \A x \in DOMAIN h : h[x] = CHOOSE i \in DOMAIN f : <<f[i].org, f[i].name>> = x
  BY <1>2 DEF IsMap
<1> HIDE DEF h
<1>5. g = h
  BY <1>3, <1>4, MapsEqual DEF Unique
<1> QED
  BY <1>5 DEF h

LEMMA MemberKeysBuilt ==
    ASSUME NEW f, NEW g, Unique(g, MemberKeys(f))
    PROVE  g = [k \in {<<f[i].token, f[i].team>> : i \in DOMAIN f} |-> CHOOSE i \in DOMAIN f : <<f[i].token, f[i].team>> = k]
<1> DEFINE h == [k \in {<<f[i].token, f[i].team>> : i \in DOMAIN f} |-> CHOOSE i \in DOMAIN f : <<f[i].token, f[i].team>> = k]
<1>1. /\ \A x \in DOMAIN g : g[x] \in DOMAIN f /\ <<f[g[x]].token, f[g[x]].team>> = x
      /\ \A i \in DOMAIN f : <<f[i].token, f[i].team>> \in DOMAIN g /\ g[<<f[i].token, f[i].team>>] = i
  BY DEF Unique, MemberKeys
<1>2. DOMAIN g = {<<f[i].token, f[i].team>> : i \in DOMAIN f}
  BY <1>1
<1>3. ASSUME NEW x \in DOMAIN g PROVE (CHOOSE i \in DOMAIN f : <<f[i].token, f[i].team>> = x) = g[x]
  <2>1. g[x] \in DOMAIN f /\ <<f[g[x]].token, f[g[x]].team>> = x
    BY <1>1
  <2>2. \A i \in DOMAIN f : <<f[i].token, f[i].team>> = x => i = g[x]
    BY <1>1
  <2> QED
    BY <2>1, <2>2
<1>4. IsMap(h) /\ DOMAIN h = DOMAIN g /\ \A x \in DOMAIN h : h[x] = CHOOSE i \in DOMAIN f : <<f[i].token, f[i].team>> = x
  BY <1>2 DEF IsMap
<1> HIDE DEF h
<1>5. g = h
  BY <1>3, <1>4, MapsEqual DEF Unique
<1> QED
  BY <1>5 DEF h

\* Restore, of the tables of such a state, gives the state back.
LEMMA RestoreSame ==
    ASSUME NEW s, NEW n \in Nat, Good(s, n), NoEmptyName(s)
    PROVE  Restore(Primaries(s)) = s
<1> DEFINE p == Primaries(s)
           d == Restore(p)
<1>1. Quarantine(p) = p
  BY QuarantineNothing
<1>2. /\ p.tokens = s.tokens /\ p.orgs = s.orgs /\ p.teams = s.teams /\ p.roles = s.roles
      /\ p.mperms = s.mperms /\ p.members = s.members
  BY DEF Primaries, Tables
<1> HIDE DEF p
<1>3. /\ IsState(d)
      /\ d.tokens = p.tokens /\ d.orgs = p.orgs /\ d.teams = p.teams /\ d.roles = p.roles
      /\ d.mperms = p.mperms /\ d.members = p.members
  BY <1>1 DEF Restore, IsState, Fields
<1>4. d.tokensByName = s.tokensByName
  <2>1. d.tokensByName = [k \in {p.tokens[i].name : i \in DOMAIN p.tokens} |->
                                CHOOSE i \in DOMAIN p.tokens : p.tokens[i].name = k]
    BY <1>1 DEF Restore, Inverted
  <2>2. Unique(s.tokensByName, TokenNames(p.tokens))
    BY <1>2 DEF Good, TokensOK
  <2> QED
    BY <2>1, <2>2, TokenNamesBuilt
<1>5. d.orgsByName = s.orgsByName
  <2>1. d.orgsByName = [k \in {p.orgs[i].name : i \in DOMAIN p.orgs} |->
                                CHOOSE i \in DOMAIN p.orgs : p.orgs[i].name = k]
    BY <1>1 DEF Restore, Inverted
  <2>2. Unique(s.orgsByName, OrgNames(p.orgs))
    BY <1>2 DEF Good, OrgsOK
  <2> QED
    BY <2>1, <2>2, OrgNamesBuilt
<1>6. d.teamsByOrg = s.teamsByOrg
  <2>1. d.teamsByOrg = [k \in {<<p.teams[i].org, p.teams[i].name>> : i \in DOMAIN p.teams} |->
                CHOOSE i \in DOMAIN p.teams : <<p.teams[i].org, p.teams[i].name>> = k]
    BY <1>1 DEF Restore, Inverted
  <2>2. Unique(s.teamsByOrg, TeamKeys(p.teams))
    BY <1>2 DEF Good, TeamsOK
  <2> QED
    BY <2>1, <2>2, TeamKeysBuilt
<1>7. d.byPair = s.byPair
  <2>1. d.byPair = [k \in {<<p.members[i].token, p.members[i].team>> : i \in DOMAIN p.members} |->
                CHOOSE i \in DOMAIN p.members : <<p.members[i].token, p.members[i].team>> = k]
    BY <1>1 DEF Restore, Inverted
  <2>2. Unique(s.byPair, MemberKeys(p.members))
    BY <1>2 DEF Good, MembersOK
  <2> QED
    BY <2>1, <2>2, MemberKeysBuilt
<1>8. d.tokensByPrefix = s.tokensByPrefix
  <2>1. Grouping(s.tokensByPrefix, TokenCreds(p.tokens))
    BY <1>2 DEF Good, TokensOK
  <2>2. d.tokensByPrefix = {<<p.tokens[i].cred, i>> : i \in DOMAIN p.tokens}
    BY <1>1 DEF Restore, Grouped
  <2> QED
    BY <2>1, <2>2 DEF Grouping, TokenCreds
<1>9. d.rolesByTeam = s.rolesByTeam
  <2>1. Grouping(s.rolesByTeam, RoleTeams(p.roles))
    BY <1>2 DEF Good, RolesOK
  <2>2. d.rolesByTeam = {<<p.roles[i].team, i>> : i \in DOMAIN p.roles}
    BY <1>1 DEF Restore, Grouped
  <2> QED
    BY <2>1, <2>2 DEF Grouping, RoleTeams
<1>10. d.mpermsByRole = s.mpermsByRole
  <2>1. Grouping(s.mpermsByRole, MPermRoles(p.mperms))
    BY <1>2 DEF Good, MPermsOK
  <2>2. d.mpermsByRole = {<<p.mperms[i].role, i>> : i \in DOMAIN p.mperms}
    BY <1>1 DEF Restore, Grouped
  <2> QED
    BY <2>1, <2>2 DEF Grouping, MPermRoles
<1>11. d.byToken = s.byToken /\ d.byTeam = s.byTeam
  <2>1. Grouping(s.byToken, MemberTokens(p.members)) /\ Grouping(s.byTeam, MemberTeams(p.members))
    BY <1>2 DEF Good, MembersOK
  <2>2. /\ d.byToken = {<<p.members[i].token, i>> : i \in DOMAIN p.members}
        /\ d.byTeam = {<<p.members[i].team, i>> : i \in DOMAIN p.members}
    BY <1>1 DEF Restore, Grouped
  <2> QED
    BY <2>1, <2>2, ZenonT(30) DEF Grouping, MemberTokens, MemberTeams
<1> HIDE DEF d
<1>12. \A x \in Fields : d[x] = s[x]
  BY <1>2, <1>3, <1>4, <1>5, <1>6, <1>7, <1>8, <1>9, <1>10, <1>11 DEF Fields
<1>13. IsState(s)
  BY DEF Good
<1>14. d = s
  BY <1>3, <1>12, <1>13 DEF IsState
<1> QED
  BY <1>14 DEF d, p

---------------------------------------------------------------------------
(* The invariant.  past gives, for every index the node can still replay     *)
(* from its snapshot, the state of an FSM that has applied that much: a log  *)
(* is replayed entry by entry, so this is what a recursive definition over   *)
(* the log would compute.  An emptied token name ends it: from then on       *)
(* Restore gives something else.                                             *)

IsLog(l) == \E S : l \in Seq(S) /\ \A c \in S : c.op \in Ops

ReplicaTypes ==
    /\ committed \in Nat /\ snap.idx \in 0..committed /\ reached \in 0..committed
    /\ IsLog(raftLog) /\ Len(raftLog) = committed - snap.idx
    /\ nodeUp \in BOOLEAN /\ cut \in BOOLEAN /\ gap \in BOOLEAN /\ renamed \in {"no", "yes", "emptied"}
    /\ wired \in {"none", "tokens", "all"} /\ restarts \in 0..MaxRestarts /\ family \in Families
    /\ DOMAIN db = Tables /\ DOMAIN snap.tables = Tables
    /\ IF nodeUp THEN applied \in snap.idx..committed ELSE applied = 0

Past(past) ==
    /\ IsMap(past) /\ DOMAIN past = snap.idx..committed
    /\ \A i \in snap.idx..committed : Good(past[i], i) /\ NoEmptyName(past[i])
    /\ \A i \in snap.idx..(committed - 1) : past[i + 1] = Apply(past[i], raftLog[i + 1 - snap.idx], i + 1)
    /\ past[committed] = truth /\ snap.tables = Primaries(past[snap.idx])
    /\ nodeUp => fsm = past[applied]

Replays == renamed # "emptied" => \E past : Past(past)

ReplicaInv == ReplicaTypes /\ Good(truth, committed) /\ Replays

\* Every command is one of the FSM's.
LEMMA CommandOps ==
    ASSUME NEW c \in Commands(truth) \cup Range(Seed) PROVE c.op \in Ops
<1>1. CASE c \in Range(Seed)
  BY <1>1, ReplicaAssumption
<1>2. CASE c \in Commands(truth)
  BY <1>2 DEF Commands, Ops, TokenOps, OrgOps, TeamOps, RoleOps, MPermOps, MemberOps
<1> QED
  BY <1>1, <1>2

LEMMA LogAppend ==
    ASSUME NEW l, NEW c, IsLog(l), c.op \in Ops
    PROVE  /\ IsLog(Append(l, c)) /\ Len(l) \in Nat /\ Len(Append(l, c)) = Len(l) + 1
           /\ \A i \in 1..Len(l) : Append(l, c)[i] = l[i]
           /\ Append(l, c)[Len(l) + 1] = c
<1>1. PICK S : l \in Seq(S) /\ \A d \in S : d.op \in Ops
  BY DEF IsLog
<1>2. l \in Seq(S \cup {c}) /\ c \in S \cup {c}
  BY <1>1
<1>3. Append(l, c) \in Seq(S \cup {c})
  BY <1>2
<1>4. \A d \in S \cup {c} : d.op \in Ops
  BY <1>1
<1> QED
  BY <1>1, <1>3, <1>4 DEF IsLog

LEMMA LogTail ==
    ASSUME NEW l, IsLog(l), NEW k \in Nat, k <= Len(l)
    PROVE  /\ IsLog(SubSeq(l, k + 1, Len(l))) /\ Len(SubSeq(l, k + 1, Len(l))) = Len(l) - k
           /\ \A i \in 1..(Len(l) - k) : SubSeq(l, k + 1, Len(l))[i] = l[k + i]
<1>1. PICK S : l \in Seq(S) /\ \A d \in S : d.op \in Ops
  BY DEF IsLog
<1>2. Len(l) \in Nat /\ \A i \in (k + 1)..Len(l) : l[i] \in S
  BY <1>1
<1> DEFINE t == SubSeq(l, k + 1, Len(l))
<1>3. /\ t \in Seq(S) /\ Len(t) = (IF k + 1 <= Len(l) THEN Len(l) - (k + 1) + 1 ELSE 0)
      /\ \A i \in 1..(Len(l) - (k + 1) + 1) : t[i] = l[k + 1 + i - 1]
  BY <1>2, SubSeqProperties, k + 1 \in Int, Len(l) \in Int
<1> HIDE DEF t
<1>4. /\ IsLog(t) /\ Len(t) = Len(l) - k /\ \A i \in 1..(Len(l) - k) : t[i] = l[k + i]
  BY <1>1, <1>2, <1>3 DEF IsLog
<1> QED
  BY <1>4 DEF t

LEMMA LogEntry ==
    ASSUME NEW l, IsLog(l), NEW i \in 1..Len(l) PROVE l[i].op \in Ops
BY DEF IsLog

\* The mirror keeps its six tables.
LEMMA MirrorTables ==
    ASSUME NEW d, DOMAIN d = Tables, NEW c, c.op \in Ops, NEW i
    PROVE  DOMAIN Mirror(d, c, i) = Tables
<1>1. \A e : DOMAIN Cascade(e) = DOMAIN e
  BY DEF Cascade
<1>2. CASE c.op \in TokenOps
  <2>1. Mirror(d, c, i) = MirrorToken(d, c, i)
    BY <1>2 DEF Mirror, TokenOps, OrgOps, TeamOps, RoleOps, MPermOps, MemberOps
  <2> QED
    BY <1>1, <1>2, <2>1 DEF MirrorToken, TokenOps
<1>3. CASE c.op \in OrgOps
  <2>1. Mirror(d, c, i) = MirrorOrg(d, c, i)
    BY <1>3 DEF Mirror, TokenOps, OrgOps, TeamOps, RoleOps, MPermOps, MemberOps
  <2>2. DOMAIN Realign(d, c, i) = DOMAIN d
    BY <1>1 DEF Realign
  <2> QED
    BY <1>1, <1>3, <2>1, <2>2 DEF MirrorOrg, OrgOps
<1>4. CASE c.op \in TeamOps
  <2>1. Mirror(d, c, i) = MirrorTeam(d, c, i)
    BY <1>4 DEF Mirror, TokenOps, OrgOps, TeamOps, RoleOps, MPermOps, MemberOps
  <2> QED
    BY <1>1, <1>4, <2>1 DEF MirrorTeam, TeamOps
<1>5. CASE c.op \in RoleOps
  <2>1. Mirror(d, c, i) = MirrorRole(d, c, i)
    BY <1>5 DEF Mirror, TokenOps, OrgOps, TeamOps, RoleOps, MPermOps, MemberOps
  <2> QED
    BY <1>1, <1>5, <2>1 DEF MirrorRole, RoleOps
<1>6. CASE c.op \in MPermOps
  <2>1. Mirror(d, c, i) = MirrorMPerm(d, c, i)
    BY <1>6 DEF Mirror, TokenOps, OrgOps, TeamOps, RoleOps, MPermOps, MemberOps
  <2> QED
    BY <1>1, <1>6, <2>1 DEF MirrorMPerm, MPermOps
<1>7. CASE c.op \in MemberOps
  <2>1. Mirror(d, c, i) = MirrorMember(d, c, i)
    BY <1>7 DEF Mirror, TokenOps, OrgOps, TeamOps, RoleOps, MPermOps, MemberOps
  <2> QED
    BY <1>1, <1>7, <2>1 DEF MirrorMember, MemberOps
<1> QED
  BY <1>2, <1>3, <1>4, <1>5, <1>6, <1>7 DEF Ops

LEMMA EmptyLog == IsLog(<<>>) /\ Len(<<>>) = 0
<1>1. <<>> \in Seq(Ops) /\ Len(<<>>) = 0
  OBVIOUS
<1>2. \E S : <<>> \in Seq(S) /\ \A c \in S : c.op \in Ops
  <2> DEFINE S == {}
  <2>1. <<>> \in Seq(S) /\ \A c \in S : c.op \in Ops
    OBVIOUS
  <2> HIDE DEF S
  <2> QED
    BY <2>1
<1> QED
  BY <1>1, <1>2 DEF IsLog

LEMMA InitReplica == ARInit => ReplicaInv
<1> SUFFICES ASSUME ARInit PROVE ReplicaInv
  OBVIOUS
<1>1. IsLog(<<>>) /\ Len(<<>>) = 0
  BY EmptyLog
<1>2. DOMAIN Primaries(InitAuth) = Tables
  BY DEF Primaries
<1>3. ReplicaTypes
  <2>1. 0 \in 0..MaxRestarts
    BY ReplicaAssumption
  <2>2. /\ committed = 0 /\ snap.idx = 0 /\ reached = 0 /\ applied = 0 /\ nodeUp = TRUE
        /\ db = Primaries(InitAuth) /\ snap.tables = Primaries(InitAuth)
    BY DEF ARInit
  <2>3. /\ nodeUp \in BOOLEAN /\ cut \in BOOLEAN /\ gap \in BOOLEAN
        /\ renamed \in {"no", "yes", "emptied"} /\ wired \in {"none", "tokens", "all"}
        /\ restarts \in 0..MaxRestarts /\ family \in Families
    BY <2>1 DEF ARInit
  <2>4. IsLog(raftLog) /\ Len(raftLog) = 0
    BY <1>1 DEF ARInit
  <2> QED
    BY <1>2, <2>2, <2>3, <2>4 DEF ReplicaTypes
<1>4. Good(truth, committed)
  BY InitGood DEF ARInit
<1>5. NoEmptyName(InitAuth)
  BY DEF NoEmptyName, InitAuth, Nothing
<1> DEFINE past == [i \in 0..0 |-> InitAuth]
<1>6. IsMap(past) /\ DOMAIN past = 0..0 /\ \A i \in 0..0 : past[i] = InitAuth /\ i = 0
  BY DEF IsMap
<1> HIDE DEF past
<1>7. Past(past)
  BY <1>5, <1>6, InitGood DEF ARInit, Past
<1> QED
  BY <1>3, <1>4, <1>7 DEF ReplicaInv, Replays

\* A commit adds one state to the past.
LEMMA CommitPast ==
    ASSUME ReplicaTypes, NEW past, Past(past), NEW c, c.op \in Ops, Commit(c), renamed' # "emptied",
           NEW next, next = Put(past, committed + 1, truth')
    PROVE  Past(next)' /\ \A i \in snap.idx..committed : next[i] = past[i]
<1> DEFINE n == committed
<1>1. n \in Nat /\ snap.idx \in 0..n /\ n = committed /\ committed' = n + 1 /\ n \in snap.idx..n
  BY DEF ReplicaTypes, Commit
<1>2. truth' = Apply(truth, c, n + 1) /\ raftLog' = Append(raftLog, c)
      /\ UNCHANGED <<snap, nodeUp, fsm, applied>>
  BY DEF Commit
<1>3. ~(c.op = "UpdateToken" /\ c.name = Empty)
  BY DEF Commit
<1>4. past[n] = truth /\ Good(truth, n) /\ NoEmptyName(truth)
  BY <1>1 DEF Past
<1>5. Good(truth', n + 1) /\ NoEmptyName(truth')
  BY <1>1, <1>2, <1>3, <1>4, ApplyGood, ApplyNoEmpty
<1>6. /\ Len(raftLog) = n - snap.idx /\ raftLog'[n + 1 - snap.idx] = c
      /\ \A i \in 1..(n - snap.idx) : raftLog'[i] = raftLog[i]
  BY <1>1, <1>2, LogAppend DEF ReplicaTypes
<1> HIDE DEF n
<1>7. /\ IsMap(next) /\ next[n + 1] = truth' /\ DOMAIN next = snap.idx..(n + 1)
      /\ \A i \in snap.idx..n : next[i] = past[i]
  <2>1. /\ IsMap(next) /\ next[n + 1] = truth' /\ \A x : x \in DOMAIN next <=> x \in snap.idx..n \/ x = n + 1
        /\ \A i \in snap.idx..n : i # n + 1 => next[i] = past[i]
    BY <1>1, PutMap DEF Past
  <2>2. ASSUME NEW x PROVE x \in DOMAIN next <=> x \in snap.idx..(n + 1)
    BY <1>1, <2>1
  <2>3. DOMAIN next = snap.idx..(n + 1)
    BY <2>2
  <2>4. \A i \in snap.idx..n : i # n + 1
    BY <1>1
  <2> QED
    BY <2>1, <2>3, <2>4
<1>8. ASSUME NEW i \in snap.idx..(n + 1) PROVE Good(next[i], i) /\ NoEmptyName(next[i])
  <2>1. CASE i = n + 1
    BY <2>1, <1>5, <1>7
  <2>2. CASE i \in snap.idx..n
    BY <2>2, <1>1, <1>7 DEF Past
  <2> QED
    BY <1>1, <2>1, <2>2
<1>9. ASSUME NEW i \in snap.idx..n
      PROVE  next[i + 1] = Apply(next[i], raftLog'[i + 1 - snap.idx], i + 1)
  <2>1. CASE i = n
    BY <2>1, <1>1, <1>2, <1>4, <1>6, <1>7
  <2>2. CASE i # n
    <3>1. i \in snap.idx..(n - 1) /\ i + 1 \in snap.idx..n /\ i + 1 - snap.idx \in 1..(n - snap.idx)
      BY <1>1, <2>2
    <3> QED
      BY <3>1, <1>1, <1>6, <1>7 DEF Past
  <2> QED
    BY <2>1, <2>2
<1>10. nodeUp => applied \in snap.idx..n /\ fsm = past[applied]
  BY <1>1 DEF Past, ReplicaTypes
<1>11. snap.tables = Primaries(next[snap.idx])
  BY <1>1, <1>7 DEF Past
<1>12. committed' - 1 = n /\ \A i \in snap.idx..(committed' - 1) : i \in snap.idx..n
  BY <1>1
<1>13. nodeUp' => fsm' = next[applied']
  BY <1>2, <1>7, <1>10
<1>14. \A i \in snap'.idx..(committed' - 1) :
            next[i + 1] = Apply(next[i], raftLog'[i + 1 - snap'.idx], i + 1)
  BY <1>2, <1>9, <1>12
<1>15. \A i \in snap'.idx..committed' : Good(next[i], i) /\ NoEmptyName(next[i])
  BY <1>1, <1>2, <1>8
<1>16. next[committed'] = truth' /\ snap'.tables = Primaries(next[snap'.idx])
       /\ DOMAIN next = snap'.idx..committed'
  BY <1>1, <1>2, <1>7, <1>11
<1> QED
  BY <1>1, <1>7, <1>13, <1>14, <1>15, <1>16 DEF Past

LEMMA CommitReplica ==
    ASSUME ReplicaInv, NEW c, c.op \in Ops, Commit(c) PROVE ReplicaInv'
<1>1. ReplicaTypes /\ Good(truth, committed)
  BY DEF ReplicaInv
<1>2. IsLog(raftLog') /\ Len(raftLog') = Len(raftLog) + 1
  BY <1>1, LogAppend DEF Commit, ReplicaTypes
<1>3. renamed' \in {"no", "yes", "emptied"} /\ (renamed = "emptied" => renamed' = "emptied")
  BY <1>1 DEF Commit, ReplicaTypes
<1>4. committed' = committed + 1 /\ committed \in Nat /\ UNCHANGED <<nodeUp, fsm, applied, snap, db,
            wired, restarts, family, reached, cut, gap>>
  BY <1>1 DEF Commit, ReplicaTypes
<1>5. ReplicaTypes'
  <2>1. Len(raftLog') = committed' - snap'.idx /\ snap'.idx \in 0..committed'
        /\ reached' \in 0..committed' /\ committed' \in Nat
    BY <1>1, <1>2, <1>4 DEF ReplicaTypes
  <2>2. IF nodeUp' THEN applied' \in snap'.idx..committed' ELSE applied' = 0
    BY <1>1, <1>4 DEF ReplicaTypes
  <2>3. nodeUp' \in BOOLEAN /\ cut' \in BOOLEAN /\ gap' \in BOOLEAN
        /\ wired' \in {"none", "tokens", "all"} /\ restarts' \in 0..MaxRestarts
        /\ family' \in Families /\ DOMAIN db' = Tables /\ DOMAIN snap'.tables = Tables
    BY <1>1, <1>4 DEF ReplicaTypes
  <2> QED
    BY <1>2, <1>3, <2>1, <2>2, <2>3 DEF ReplicaTypes
<1>6. Good(truth', committed')
  BY <1>1, <1>4, ApplyGood DEF Commit
<1>7. Replays'
  <2> SUFFICES ASSUME renamed' # "emptied" PROVE \E past : Past(past)'
    BY DEF Replays
  <2>1. PICK past : Past(past)
    BY <1>3 DEF ReplicaInv, Replays
  <2>3. PICK next : next = Put(past, committed + 1, truth')
    OBVIOUS
  <2>2. Past(next)'
    BY <1>1, <2>1, <2>3, CommitPast
  <2> QED
    BY <2>2
<1> QED
  BY <1>5, <1>6, <1>7 DEF ReplicaInv

\* A node that applies an entry moves to the next state of its past.
LEMMA ApplyTypes ==
    ASSUME ReplicaTypes, ApplyNext
    PROVE  /\ ReplicaTypes' /\ raftLog[applied + 1 - snap.idx].op \in Ops
           /\ applied' = applied + 1 /\ applied \in snap.idx..(committed - 1)
<1>1. /\ nodeUp /\ applied < committed /\ applied \in snap.idx..committed /\ committed \in Nat
      /\ snap.idx \in 0..committed /\ Len(raftLog) = committed - snap.idx /\ IsLog(raftLog)
  BY DEF ReplicaTypes, ApplyNext
<1>2. applied + 1 - snap.idx \in 1..Len(raftLog) /\ applied \in snap.idx..(committed - 1)
  BY <1>1
<1>3. raftLog[applied + 1 - snap.idx].op \in Ops
  BY <1>1, <1>2, LogEntry
<1>4. DOMAIN db' = Tables
  <2>1. \E i, c : /\ i = applied + 1 /\ c = raftLog[i - snap.idx]
                  /\ db' = IF Accepts(fsm, c) /\ HasCallback(c) THEN Mirror(db, c, i) ELSE db
    BY DEF ApplyNext
  <2>2. PICK i, c : /\ i = applied + 1 /\ c = raftLog[i - snap.idx]
                    /\ db' = Mirror(db, c, i) \/ db' = db
    BY <2>1
  <2>3. i - snap.idx = applied + 1 - snap.idx
    BY <1>1, <2>2
  <2>4. c.op \in Ops
    BY <1>3, <2>2, <2>3
  <2> QED
    BY <2>2, <2>4, MirrorTables DEF ReplicaTypes
<1>5. applied' \in snap.idx..committed /\ reached' \in 0..committed
  BY <1>1, <1>2 DEF ApplyNext, ReplicaTypes
<1>6. cut' \in BOOLEAN /\ gap' \in BOOLEAN
  BY DEF ApplyNext, ReplicaTypes
<1> QED
  BY <1>2, <1>3, <1>4, <1>5, <1>6 DEF ApplyNext, ReplicaTypes

LEMMA ApplyPast ==
    ASSUME ReplicaTypes, NEW past, Past(past), ApplyNext
    PROVE  Past(past)' /\ fsm' = past[applied + 1]
<1>1. applied' = applied + 1 /\ applied \in snap.idx..(committed - 1) /\ fsm = past[applied]
  BY ApplyTypes DEF Past, ApplyNext
<1>2. fsm' = past[applied + 1]
  <2>1. fsm' = Apply(fsm, raftLog[applied + 1 - snap.idx], applied + 1)
    <3>1. \E i, c : i = applied + 1 /\ c = raftLog[i - snap.idx] /\ fsm' = Apply(fsm, c, i)
      BY DEF ApplyNext
    <3>2. applied \in Nat /\ snap.idx \in Nat
      BY DEF ApplyNext, ReplicaTypes
    <3> QED
      BY <3>1, <3>2
  <2> QED
    BY <1>1, <2>1 DEF Past
<1>3. UNCHANGED <<committed, truth, raftLog, snap>>
  BY DEF ApplyNext
<1> QED
  BY <1>1, <1>2, <1>3 DEF Past

LEMMA ApplyReplica ==
    ASSUME ReplicaInv, ApplyNext PROVE ReplicaInv'
<1>1. ReplicaTypes' /\ UNCHANGED <<committed, truth, renamed>>
  BY ApplyTypes DEF ReplicaInv, ApplyNext
<1>2. Replays'
  <2> SUFFICES ASSUME renamed' # "emptied" PROVE \E past : Past(past)'
    BY DEF Replays
  <2>1. PICK past : Past(past)
    BY <1>1 DEF ReplicaInv, Replays
  <2>2. Past(past)'
    BY <2>1, ApplyPast DEF ReplicaInv
  <2> QED
    BY <2>2
<1> QED
  BY <1>1, <1>2 DEF ReplicaInv

\* A snapshot cuts the past in front of it.
LEMMA SnapshotTypes == ASSUME ReplicaTypes, TakeSnapshot PROVE ReplicaTypes'
<1>1. /\ nodeUp /\ applied > snap.idx /\ applied \in snap.idx..committed /\ committed \in Nat
      /\ snap.idx \in 0..committed /\ Len(raftLog) = committed - snap.idx /\ IsLog(raftLog)
  BY DEF ReplicaTypes, TakeSnapshot
<1> DEFINE k == applied - snap.idx
<1>2. k \in Nat /\ k <= Len(raftLog) /\ raftLog' = SubSeq(raftLog, k + 1, Len(raftLog))
  BY <1>1 DEF TakeSnapshot
<1>3. IsLog(raftLog') /\ Len(raftLog') = Len(raftLog) - k
  BY <1>1, <1>2, LogTail
<1>4. snap'.idx = applied /\ snap'.tables = Primaries(fsm) /\ DOMAIN snap'.tables = Tables
  BY DEF TakeSnapshot, Primaries
<1>5. Len(raftLog') = committed - snap'.idx /\ snap'.idx \in 0..committed
      /\ applied \in snap'.idx..committed
  BY <1>1, <1>3, <1>4
<1> QED
  BY <1>3, <1>4, <1>5 DEF TakeSnapshot, auth_history, ReplicaTypes

LEMMA SnapshotPast ==
    ASSUME ReplicaTypes, NEW past, Past(past), TakeSnapshot,
           NEW next, next = Restrict(past, applied..committed)
    PROVE  Past(next)' /\ \A i \in applied..committed : next[i] = past[i]
<1>1. /\ nodeUp /\ applied > snap.idx /\ applied \in snap.idx..committed /\ committed \in Nat
      /\ snap.idx \in 0..committed /\ Len(raftLog) = committed - snap.idx /\ IsLog(raftLog)
  BY DEF ReplicaTypes, TakeSnapshot
<1>2. applied..committed \subseteq snap.idx..committed /\ DOMAIN past = snap.idx..committed
  BY <1>1 DEF Past
<1>3. IsMap(next) /\ DOMAIN next = applied..committed /\ \A i \in applied..committed : next[i] = past[i]
  <2>1. /\ IsMap(next) /\ \A x : x \in DOMAIN next <=> x \in applied..committed
        /\ \A i \in applied..committed : next[i] = past[i]
    BY <1>2, RestrictMap
  <2>2. DOMAIN next = applied..committed
    BY <2>1
  <2> QED
    BY <2>1, <2>2
<1> DEFINE k == applied - snap.idx
<1>4. k \in Nat /\ k <= Len(raftLog) /\ raftLog' = SubSeq(raftLog, k + 1, Len(raftLog))
  BY <1>1 DEF TakeSnapshot
<1>5. \A i \in 1..(Len(raftLog) - k) : raftLog'[i] = raftLog[k + i]
  BY <1>1, <1>4, LogTail
<1>6. snap'.idx = applied /\ snap'.tables = Primaries(fsm)
      /\ UNCHANGED <<committed, truth, nodeUp, fsm, applied>>
  BY DEF TakeSnapshot
<1>7. \A i \in applied..committed : Good(next[i], i) /\ NoEmptyName(next[i])
  BY <1>2, <1>3 DEF Past
<1>8. ASSUME NEW i \in applied..(committed - 1)
      PROVE  next[i + 1] = Apply(next[i], raftLog'[i + 1 - applied], i + 1)
  <2>1. /\ i \in applied..committed /\ i + 1 \in applied..committed /\ i \in snap.idx..(committed - 1)
        /\ i + 1 - applied \in 1..(Len(raftLog) - k) /\ k + (i + 1 - applied) = i + 1 - snap.idx
    BY <1>1, SMTT(30)
  <2>2. raftLog'[i + 1 - applied] = raftLog[i + 1 - snap.idx]
    BY <1>5, <2>1
  <2>3. past[i + 1] = Apply(past[i], raftLog[i + 1 - snap.idx], i + 1)
    BY <2>1 DEF Past
  <2> QED
    BY <1>3, <2>1, <2>2, <2>3
<1>9. next[committed] = truth /\ fsm = next[applied]
  BY <1>1, <1>3 DEF Past
<1>10. \A i \in snap'.idx..(committed' - 1) :
            next[i + 1] = Apply(next[i], raftLog'[i + 1 - snap'.idx], i + 1)
  BY <1>6, <1>8
<1>11. DOMAIN next = snap'.idx..committed'
       /\ \A i \in snap'.idx..committed' : Good(next[i], i) /\ NoEmptyName(next[i])
  BY <1>3, <1>6, <1>7
<1>12. next[committed'] = truth' /\ snap'.tables = Primaries(next[snap'.idx]) /\ fsm' = next[applied']
  BY <1>6, <1>9
<1> QED
  BY <1>3, <1>10, <1>11, <1>12 DEF Past

LEMMA SnapshotReplica ==
    ASSUME ReplicaInv, TakeSnapshot PROVE ReplicaInv'
<1>1. ReplicaTypes' /\ UNCHANGED <<committed, truth, renamed>>
  BY SnapshotTypes DEF ReplicaInv, TakeSnapshot, auth_history
<1>2. Replays'
  <2> SUFFICES ASSUME renamed' # "emptied" PROVE \E past : Past(past)'
    BY DEF Replays
  <2>1. PICK past : Past(past)
    BY <1>1 DEF ReplicaInv, Replays
  <2>2. PICK next : next = Restrict(past, applied..committed)
    OBVIOUS
  <2>3. Past(next)'
    BY <2>1, <2>2, SnapshotPast DEF ReplicaInv
  <2> QED
    BY <2>3
<1> QED
  BY <1>1, <1>2 DEF ReplicaInv

\* A crash and a restart leave the past alone: Restore gives its first state.
LEMMA CrashReplica ==
    ASSUME ReplicaInv, Crash PROVE ReplicaInv' /\ \A past : Past(past) => Past(past)'
<1>1. UNCHANGED <<committed, truth, raftLog, snap, db, family, reached, gap, renamed>>
      /\ nodeUp' = FALSE /\ applied' = 0 /\ wired' = "none"
  BY DEF Crash
<1>2. restarts' \in 0..MaxRestarts /\ cut' \in BOOLEAN
  BY ReplicaAssumption DEF Crash, ReplicaInv, ReplicaTypes
<1>3. ReplicaTypes'
  BY <1>1, <1>2 DEF ReplicaInv, ReplicaTypes
<1>4. \A past : Past(past) => Past(past)'
  BY <1>1 DEF Past
<1> QED
  BY <1>1, <1>3, <1>4 DEF ReplicaInv, Replays

LEMMA RestartReplica ==
    ASSUME ReplicaInv, Restart PROVE ReplicaInv' /\ \A past : Past(past) => Past(past)'
<1>1. UNCHANGED <<committed, truth, raftLog, snap, db, wired, restarts, family, reached, cut, gap, renamed>>
      /\ nodeUp' = TRUE /\ applied' = snap.idx /\ fsm' = Restore(snap.tables)
  BY DEF Restart, auth_history
<1>2. snap.idx \in snap.idx..committed /\ snap.idx \in Nat
  BY DEF ReplicaInv, ReplicaTypes
<1>3. ReplicaTypes'
  BY <1>1, <1>2 DEF ReplicaInv, ReplicaTypes
<1>4. ASSUME NEW past, Past(past) PROVE Past(past)'
  <2>1. Good(past[snap.idx], snap.idx) /\ NoEmptyName(past[snap.idx])
        /\ snap.tables = Primaries(past[snap.idx])
    BY <1>2, <1>4 DEF Past
  <2>2. fsm' = past[applied']
    BY <1>1, <1>2, <2>1, RestoreSame
  <2> QED
    BY <1>1, <1>4, <2>2 DEF Past
<1> QED
  BY <1>1, <1>3, <1>4 DEF ReplicaInv, Replays

LEMMA CallbacksReplica ==
    ASSUME ReplicaInv, SetAuthCallbacks \/ SetRBACCallbacks
    PROVE  ReplicaInv' /\ \A past : Past(past) => Past(past)'
<1>1. UNCHANGED <<committed, truth, raftLog, nodeUp, fsm, applied, snap, db, restarts, family, reached,
            cut, gap, renamed>> /\ wired' \in {"tokens", "all"}
  BY DEF SetAuthCallbacks, SetRBACCallbacks, auth_history
<1>2. ReplicaTypes'
  BY <1>1 DEF ReplicaInv, ReplicaTypes
<1>3. \A past : Past(past) => Past(past)'
  BY <1>1 DEF Past
<1> QED
  BY <1>1, <1>2, <1>3 DEF ReplicaInv, Replays

\* The leader's snapshot is the last state.
LEMMA InstallReplica ==
    ASSUME ReplicaInv, InstallSnapshot PROVE ReplicaInv'
<1>1. UNCHANGED <<committed, truth, nodeUp, db, wired, restarts, family, cut, renamed>>
      /\ snap'.idx = committed /\ snap'.tables = Primaries(truth) /\ applied' = committed
      /\ fsm' = Restore(Primaries(truth)) /\ raftLog' = <<>> /\ reached' = committed /\ gap' = TRUE
      /\ nodeUp
  BY DEF InstallSnapshot
<1>2. IsLog(<<>>) /\ Len(<<>>) = 0
  BY EmptyLog
<1>3. /\ committed \in Nat /\ committed \in 0..committed /\ committed \in committed..committed
      /\ committed - committed = 0
  BY DEF ReplicaInv, ReplicaTypes
<1>4. DOMAIN Primaries(truth) = Tables
  BY DEF Primaries
<1>5. ReplicaTypes'
  <2>1. IsLog(raftLog') /\ Len(raftLog') = committed' - snap'.idx
    BY <1>1, <1>2, <1>3
  <2>2. snap'.idx \in 0..committed' /\ reached' \in 0..committed' /\ applied' \in snap'.idx..committed'
        /\ DOMAIN snap'.tables = Tables
    BY <1>1, <1>3, <1>4
  <2> QED
    BY <1>1, <2>1, <2>2 DEF ReplicaInv, ReplicaTypes
<1>6. Replays'
  <2> SUFFICES ASSUME renamed' # "emptied" PROVE \E past : Past(past)'
    BY DEF Replays
  <2>1. Good(truth, committed) /\ NoEmptyName(truth)
    <3>1. PICK past : Past(past)
      BY <1>1 DEF ReplicaInv, Replays
    <3>2. committed \in snap.idx..committed
      BY DEF ReplicaInv, ReplicaTypes
    <3> QED
      BY <3>1, <3>2 DEF Past
  <2>2. Restore(Primaries(truth)) = truth
    BY <1>3, <2>1, RestoreSame
  <2>3. PICK next : next = [i \in committed..committed |-> truth]
    OBVIOUS
  <2>4. /\ IsMap(next) /\ DOMAIN next = committed..committed /\ next[committed] = truth
        /\ \A i \in committed..committed : i = committed
        /\ \A i \in committed..(committed - 1) : FALSE
    BY <1>3, <2>3 DEF IsMap
  <2>5. Past(next)'
    BY <1>1, <2>1, <2>2, <2>4 DEF Past
  <2> QED
    BY <2>5
<1> QED
  BY <1>1, <1>5, <1>6 DEF ReplicaInv

LEMMA NextReplica == ReplicaInv /\ [ARNext]_auth_vars => ReplicaInv'
<1> SUFFICES ASSUME ReplicaInv, [ARNext]_auth_vars PROVE ReplicaInv'
  OBVIOUS
<1>1. CASE UNCHANGED auth_vars
  <2>1. ReplicaTypes' /\ Good(truth, committed)'
    BY <1>1 DEF ReplicaInv, ReplicaTypes, auth_vars
  <2>2. \A past : Past(past) => Past(past)'
    BY <1>1 DEF Past, auth_vars
  <2> QED
    BY <1>1, <2>1, <2>2 DEF ReplicaInv, Replays, auth_vars
<1>2. ASSUME NEW c \in Commands(truth) \cup Range(Seed), Commit(c) PROVE ReplicaInv'
  BY <1>2, CommandOps, CommitReplica
<1>3. CASE ApplyNext
  BY <1>3, ApplyReplica
<1>4. CASE TakeSnapshot
  BY <1>4, SnapshotReplica
<1>5. CASE Crash
  BY <1>5, CrashReplica
<1>6. CASE Restart
  BY <1>6, RestartReplica
<1>7. CASE SetAuthCallbacks \/ SetRBACCallbacks
  BY <1>7, CallbacksReplica
<1>8. CASE InstallSnapshot
  BY <1>8, InstallReplica
<1> QED
  BY <1>1, <1>2, <1>3, <1>4, <1>5, <1>6, <1>7, <1>8 DEF ARNext

\* The type invariant: indices in order, the log between snapshot and commit.
THEOREM ReplicaTypeCorrect == ARSpec => []ARTypeOK
<1>1. ReplicaInv => ARTypeOK
  <2> SUFFICES ASSUME ReplicaTypes PROVE ARTypeOK
    BY DEF ReplicaInv
  <2>1. applied \in 0..committed
    BY DEF ReplicaTypes
  <2> QED
    BY <2>1 DEF ReplicaTypes, ARTypeOK
<1> QED
  BY <1>1, InitReplica, NextReplica, PTL DEF ARSpec

\* A node that has applied every entry, through crashes, replays and snapshots
\* of its own or of the leader, holds the state of any other node, indices
\* included, and nothing dangles in it; an emptied token name is the one
\* exception (fsm.go, Snapshot and Restore).
THEOREM ReplicaAgreesCorrect == ARSpec => []ReplicaAgrees
<1>1. ReplicaInv => ReplicaAgrees
  <2> SUFFICES ASSUME ReplicaInv PROVE ReplicaAgrees
    OBVIOUS
  <2>1. NoDangling
    BY DEF ReplicaInv, Good, Linked, NoDangling
  <2>2. ASSUME nodeUp, applied = committed, renamed # "emptied" PROVE fsm = truth
    <3>1. PICK past : Past(past)
      BY <2>2 DEF ReplicaInv, Replays
    <3> QED
      BY <2>2, <3>1 DEF Past
  <2> QED
    BY <2>1, <2>2 DEF ReplicaAgrees
<1> QED
  BY <1>1, InitReplica, NextReplica, PTL DEF ARSpec

---------------------------------------------------------------------------
(* The mirror.  During a replay the SQLite tables are neither an old state   *)
(* nor the present one.  Between says what they are when the node stands at  *)
(* k and has been at r: every row is that of a state from k to r, and what   *)
(* exists at k and at r is there.  At k = r these are the tables of the      *)
(* state (BetweenEnds).                                                      *)

\* What a command other than a rename never changes: the entries up to n of d
\* are entries of s, with the same name and the same parents.
Fixed(s, d, n) ==
    /\ \A x \in DOMAIN d.tokens : x <= n =>
            x \in DOMAIN s.tokens /\ s.tokens[x].name = d.tokens[x].name
    /\ \A x \in DOMAIN d.orgs : x <= n => x \in DOMAIN s.orgs /\ s.orgs[x] = d.orgs[x]
    /\ \A x \in DOMAIN d.teams : x <= n => x \in DOMAIN s.teams /\ s.teams[x] = d.teams[x]
    /\ \A x \in DOMAIN d.roles : x <= n =>
            x \in DOMAIN s.roles /\ s.roles[x].team = d.roles[x].team
    /\ \A x \in DOMAIN d.mperms : x <= n => x \in DOMAIN s.mperms /\ s.mperms[x] = d.mperms[x]
    /\ \A x \in DOMAIN d.members : x <= n => x \in DOMAIN s.members /\ s.members[x] = d.members[x]

\* The states from k to r.
Chain(past, k, r) ==
    /\ k \in Nat /\ r \in Nat /\ k <= r
    /\ \A i \in k..r : Good(past[i], i)
    /\ \A i, j \in k..r : i <= j => Fixed(past[i], past[j], i)

\* v is row x of table t in one of these states; of a token, the secret and
\* the revocation may be those of different states.
FromPast(t, x, v, past, k, r) ==
    IF t = "tokens"
    THEN \E i, j \in k..r :
            /\ x \in DOMAIN past[i].tokens /\ x \in DOMAIN past[j].tokens
            /\ v = [name |-> past[i].tokens[x].name, cred |-> past[i].tokens[x].cred,
                    on |-> past[j].tokens[x].on]
    ELSE \E i \in k..r : x \in DOMAIN past[i][t] /\ v = past[i][t][x]

TableBetween(f, t, past, k, r) ==
    /\ IsMap(f)
    /\ \A x \in DOMAIN f : FromPast(t, x, f[x], past, k, r)
    /\ \A x : x \in DOMAIN past[k][t] /\ x \in DOMAIN past[r][t] => x \in DOMAIN f

Whole(d) == d = [t \in Tables |-> d[t]]
Between(d, past, k, r) ==
    Whole(d) /\ \A t \in Tables : TableBetween(d[t], t, past, k, r)

\* Two states agree on what both have, and a state between has it too.
LEMMA ChainKeys ==
    ASSUME NEW past, NEW k, NEW r, Chain(past, k, r), NEW i \in k..r, NEW j \in k..r
    PROVE  /\ \A x : /\ x \in DOMAIN past[i].tokens /\ x \in DOMAIN past[j].tokens =>
                            past[i].tokens[x].name = past[j].tokens[x].name
                     /\ x \in DOMAIN past[i].orgs /\ x \in DOMAIN past[j].orgs =>
                            past[i].orgs[x] = past[j].orgs[x]
                     /\ x \in DOMAIN past[i].teams /\ x \in DOMAIN past[j].teams =>
                            past[i].teams[x] = past[j].teams[x]
                     /\ x \in DOMAIN past[i].roles /\ x \in DOMAIN past[j].roles =>
                            past[i].roles[x].team = past[j].roles[x].team
                     /\ x \in DOMAIN past[i].mperms /\ x \in DOMAIN past[j].mperms =>
                            past[i].mperms[x] = past[j].mperms[x]
                     /\ x \in DOMAIN past[i].members /\ x \in DOMAIN past[j].members =>
                            past[i].members[x] = past[j].members[x]
<1>1. i \in Nat /\ j \in Nat /\ (i <= j \/ j <= i)
  <2>1. k \in Nat /\ r \in Nat
    BY Zenon DEF Chain
  <2> QED
    BY <2>1
<1>2. Good(past[i], i) /\ Good(past[j], j)
  BY DEF Chain
<1>3. /\ DOMAIN past[i].tokens \subseteq 1..i /\ DOMAIN past[j].tokens \subseteq 1..j
      /\ DOMAIN past[i].orgs \subseteq 1..i /\ DOMAIN past[j].orgs \subseteq 1..j
      /\ DOMAIN past[i].teams \subseteq 1..i /\ DOMAIN past[j].teams \subseteq 1..j
      /\ DOMAIN past[i].roles \subseteq 1..i /\ DOMAIN past[j].roles \subseteq 1..j
      /\ DOMAIN past[i].mperms \subseteq 1..i /\ DOMAIN past[j].mperms \subseteq 1..j
      /\ DOMAIN past[i].members \subseteq 1..i /\ DOMAIN past[j].members \subseteq 1..j
  BY <1>2 DEF Good, TokensOK, OrgsOK, TeamsOK, RolesOK, MPermsOK, MembersOK, Table
<1>4. CASE i <= j
  <2>1. Fixed(past[i], past[j], i)
    BY <1>4 DEF Chain
  <2>2. \A x \in 1..i : x <= i
    BY <1>1
  <2> QED
    BY <1>3, <2>1, <2>2 DEF Fixed
<1>5. CASE j <= i
  <2>1. Fixed(past[j], past[i], j)
    BY <1>5 DEF Chain
  <2>2. \A x \in 1..j : x <= j
    BY <1>1
  <2> QED
    BY <1>3, <2>1, <2>2 DEF Fixed
<1> QED
  BY <1>1, <1>4, <1>5

LEMMA ChainMiddle ==
    ASSUME NEW past, NEW k, NEW r, Chain(past, k, r), NEW i \in k..r, NEW j \in i..r, NEW m \in i..j,
           NEW t \in Tables, NEW x \in DOMAIN past[i][t], x \in DOMAIN past[j][t]
    PROVE  x \in DOMAIN past[m][t]
<1>1. i \in k..r /\ j \in k..r /\ m \in k..r /\ m <= j /\ i <= m /\ i \in Nat /\ m \in Nat
  BY DEF Chain
<1>2. Good(past[i], i) /\ Fixed(past[m], past[j], m)
  BY <1>1 DEF Chain
<1>3. x \in 1..i
  BY <1>2 DEF Good, TokensOK, OrgsOK, TeamsOK, RolesOK, MPermsOK, MembersOK, Table, Tables
<1>4. x <= m
  BY <1>1, <1>3
<1> QED
  BY <1>2, <1>4 DEF Fixed, Tables

\* A smaller part of a chain is one.
LEMMA ChainPart ==
    ASSUME NEW past, NEW k, NEW r, Chain(past, k, r), NEW l \in k..r, NEW q \in l..r
    PROVE  Chain(past, l, q)
<1>1. l \in Nat /\ q \in Nat /\ l <= q /\ \A i \in l..q : i \in k..r
  BY DEF Chain
<1> QED
  BY <1>1 DEF Chain

LEMMA RowShape ==
    ASSUME NEW s, NEW n, Good(s, n), NEW x \in DOMAIN s.tokens
    PROVE  s.tokens[x] = [name |-> s.tokens[x].name, cred |-> s.tokens[x].cred, on |-> s.tokens[x].on]
BY DEF Good, TokensOK

LEMMA FromRow ==
    ASSUME NEW past, NEW k, NEW r, Chain(past, k, r), NEW i \in k..r, NEW t \in Tables,
           NEW x \in DOMAIN past[i][t]
    PROVE  FromPast(t, x, past[i][t][x], past, k, r)
<1>1. CASE t = "tokens"
  BY <1>1, RowShape DEF FromPast, Chain
<1>2. CASE t # "tokens"
  BY <1>2 DEF FromPast
<1> QED
  BY <1>1, <1>2

LEMMA FromWider ==
    ASSUME NEW t, NEW x, NEW v, NEW past, NEW k \in Nat, NEW r \in Nat, NEW l \in Nat, NEW q \in Nat,
           l <= k, r <= q, FromPast(t, x, v, past, k, r)
    PROVE  FromPast(t, x, v, past, l, q)
<1>1. \A i \in k..r : i \in l..q
  OBVIOUS
<1> QED
  BY <1>1 DEF FromPast

\* A row that entry k + 1 leaves alone is one of a state from there on.
LEMMA FromLater ==
    ASSUME NEW t, NEW x, NEW v, NEW past, NEW k \in Nat, NEW r \in Nat, k < r,
           FromPast(t, x, v, past, k, r),
           x \in DOMAIN past[k][t] =>
                x \in DOMAIN past[k + 1][t] /\ past[k + 1][t][x] = past[k][t][x]
    PROVE  FromPast(t, x, v, past, k + 1, r)
<1>1. /\ k + 1 \in (k + 1)..r
      /\ \A i \in k..r : i = k \/ i \in (k + 1)..r
  OBVIOUS
<1>2. CASE t = "tokens"
  <2>1. PICK i \in k..r, j \in k..r :
            /\ x \in DOMAIN past[i].tokens /\ x \in DOMAIN past[j].tokens
            /\ v = [name |-> past[i].tokens[x].name, cred |-> past[i].tokens[x].cred,
                    on |-> past[j].tokens[x].on]
    BY <1>2 DEF FromPast
  <2>2. PICK a \in (k + 1)..r : x \in DOMAIN past[a].tokens /\ past[a].tokens[x] = past[i].tokens[x]
    BY <1>1, <1>2, <2>1
  <2>3. PICK b \in (k + 1)..r : x \in DOMAIN past[b].tokens /\ past[b].tokens[x] = past[j].tokens[x]
    BY <1>1, <1>2, <2>1
  <2>4. v = [name |-> past[a].tokens[x].name, cred |-> past[a].tokens[x].cred,
             on |-> past[b].tokens[x].on]
    BY <2>1, <2>2, <2>3
  <2> QED
    BY <1>2, <2>2, <2>3, <2>4 DEF FromPast
<1>3. CASE t # "tokens"
  <2>1. PICK i \in k..r : x \in DOMAIN past[i][t] /\ v = past[i][t][x]
    BY <1>3 DEF FromPast
  <2>2. PICK a \in (k + 1)..r : x \in DOMAIN past[a][t] /\ past[a][t][x] = past[i][t][x]
    BY <1>1, <2>1
  <2> QED
    BY <1>3, <2>1, <2>2 DEF FromPast
<1> QED
  BY <1>2, <1>3

\* A row of a state from k to r has the key that any of these states gives it.
LEMMA FromKeys ==
    ASSUME NEW past, NEW k, NEW r, Chain(past, k, r), NEW t \in Tables, NEW x, NEW v,
           FromPast(t, x, v, past, k, r)
    PROVE  \E i \in k..r :
              /\ x \in DOMAIN past[i][t]
              /\ t = "tokens" => v.name = past[i].tokens[x].name
              /\ t = "orgs" => v = past[i].orgs[x]
              /\ t = "teams" => v = past[i].teams[x]
              /\ t = "roles" => v.team = past[i].roles[x].team
              /\ t = "mperms" => v = past[i].mperms[x]
              /\ t = "members" => v = past[i].members[x]
<1>1. CASE t = "tokens"
  BY <1>1 DEF FromPast
<1>2. CASE t # "tokens"
  BY <1>2 DEF FromPast
<1> QED
  BY <1>1, <1>2

LEMMA KeysAt ==
    ASSUME NEW past, NEW k, NEW r, Chain(past, k, r), NEW m \in k..r, NEW t \in Tables,
           NEW x \in DOMAIN past[m][t], NEW v, FromPast(t, x, v, past, k, r)
    PROVE  /\ t = "tokens" => v.name = past[m].tokens[x].name
           /\ t = "orgs" => v = past[m].orgs[x]
           /\ t = "teams" => v = past[m].teams[x]
           /\ t = "roles" => v.team = past[m].roles[x].team
           /\ t = "mperms" => v = past[m].mperms[x]
           /\ t = "members" => v = past[m].members[x]
<1>1. PICK i \in k..r :
              /\ x \in DOMAIN past[i][t]
              /\ t = "tokens" => v.name = past[i].tokens[x].name
              /\ t = "orgs" => v = past[i].orgs[x]
              /\ t = "teams" => v = past[i].teams[x]
              /\ t = "roles" => v.team = past[i].roles[x].team
              /\ t = "mperms" => v = past[i].mperms[x]
              /\ t = "members" => v = past[i].members[x]
  BY FromKeys
<1> QED
  BY <1>1, ChainKeys

\* The tables of a state, at the end of the chain.
LEMMA BetweenEnds ==
    ASSUME NEW past, NEW k, Chain(past, k, k), NEW d
    PROVE  Between(d, past, k, k) <=> d = Primaries(past[k])
<1> DEFINE s == past[k]
<1>1. k \in k..k /\ (\A i \in k..k : i = k) /\ Good(s, k)
  BY DEF Chain
<1>2. \A t \in Tables : IsMap(s[t])
  BY <1>1 DEF Good, TokensOK, OrgsOK, TeamsOK, RolesOK, MPermsOK, MembersOK, Table, Tables
<1>3. ASSUME Between(d, past, k, k) PROVE d = Primaries(s)
  <2>1. ASSUME NEW t \in Tables PROVE d[t] = s[t]
    <3>1. TableBetween(d[t], t, past, k, k)
      BY <1>3 DEF Between
    <3>2. \A x \in DOMAIN d[t] : x \in DOMAIN s[t] /\ d[t][x] = s[t][x]
      <4> SUFFICES ASSUME NEW x \in DOMAIN d[t] PROVE x \in DOMAIN s[t] /\ d[t][x] = s[t][x]
        OBVIOUS
      <4>1. FromPast(t, x, d[t][x], past, k, k)
        BY <3>1 DEF TableBetween
      <4>2. CASE t = "tokens"
        <5>1. /\ x \in DOMAIN s.tokens
              /\ d[t][x] = [name |-> s.tokens[x].name, cred |-> s.tokens[x].cred, on |-> s.tokens[x].on]
          BY <1>1, <4>1, <4>2 DEF FromPast
        <5> QED
          BY <1>1, <4>2, <5>1, RowShape
      <4>3. CASE t # "tokens"
        BY <1>1, <4>1, <4>3 DEF FromPast
      <4> QED
        BY <4>2, <4>3
    <3>3. DOMAIN d[t] = DOMAIN s[t]
      <4>1. \A x : x \in DOMAIN s[t] => x \in DOMAIN d[t]
        BY <3>1 DEF TableBetween
      <4> QED
        BY <3>2, <4>1
    <3> QED
      BY <1>2, <3>1, <3>2, <3>3, MapsEqual DEF TableBetween
  <2> QED
    BY <1>3, <2>1 DEF Between, Whole, Primaries
<1>4. ASSUME d = Primaries(s) PROVE Between(d, past, k, k)
  <2>1. Whole(d) /\ \A t \in Tables : d[t] = s[t]
    BY <1>4 DEF Whole, Primaries
  <2>2. ASSUME NEW t \in Tables PROVE TableBetween(d[t], t, past, k, k)
    BY <1>1, <1>2, <2>1, FromRow DEF TableBetween
  <2> QED
    BY <2>1, <2>2 DEF Between
<1> QED
  BY <1>3, <1>4

\* What is at m and at r survives a cascade if it was there before: so do its
\* parents.
Drawn(e, past, k, r) == \A t \in Tables : \A x \in DOMAIN e[t] : FromPast(t, x, e[t][x], past, k, r)
Keeps(e, past, m, r) ==
    \A t \in Tables : \A x : x \in DOMAIN past[m][t] /\ x \in DOMAIN past[r][t] => x \in DOMAIN e[t]

LEMMA CascadeKeeps ==
    ASSUME NEW past, NEW k, NEW r, Chain(past, k, r), NEW m \in k..r,
           NEW e, Whole(e), Drawn(e, past, k, r), Keeps(e, past, m, r), NEW d, d = Cascade(e)
    PROVE  Keeps(d, past, m, r)
<1> DEFINE p == past[m]
           q == past[r]
<1>1. r \in k..r /\ Linked(p) /\ Linked(q)
  BY DEF Chain, Good
<1>2. /\ d.tokens = e.tokens /\ d.orgs = e.orgs
      /\ \A x : /\ x \in DOMAIN d.teams <=>
                            x \in DOMAIN e.teams /\ e.teams[x].org \in DOMAIN d.orgs
                /\ x \in DOMAIN d.roles <=>
                            x \in DOMAIN e.roles /\ e.roles[x].team \in DOMAIN d.teams
                /\ x \in DOMAIN d.mperms <=>
                            x \in DOMAIN e.mperms /\ e.mperms[x].role \in DOMAIN d.roles
                /\ x \in DOMAIN d.members <=>
                            /\ x \in DOMAIN e.members /\ e.members[x].token \in DOMAIN d.tokens
                            /\ e.members[x].team \in DOMAIN d.teams
  BY CascadeRows DEF Whole
<1>3. \A x : /\ x \in DOMAIN p.tokens /\ x \in DOMAIN q.tokens => x \in DOMAIN e.tokens
             /\ x \in DOMAIN p.orgs /\ x \in DOMAIN q.orgs => x \in DOMAIN e.orgs
             /\ x \in DOMAIN p.teams /\ x \in DOMAIN q.teams => x \in DOMAIN e.teams
             /\ x \in DOMAIN p.roles /\ x \in DOMAIN q.roles => x \in DOMAIN e.roles
             /\ x \in DOMAIN p.mperms /\ x \in DOMAIN q.mperms => x \in DOMAIN e.mperms
             /\ x \in DOMAIN p.members /\ x \in DOMAIN q.members => x \in DOMAIN e.members
  BY DEF Keeps, Tables
<1>4. \A x : /\ x \in DOMAIN p.teams /\ x \in DOMAIN e.teams => e.teams[x] = p.teams[x]
             /\ x \in DOMAIN p.roles /\ x \in DOMAIN e.roles => e.roles[x].team = p.roles[x].team
             /\ x \in DOMAIN p.mperms /\ x \in DOMAIN e.mperms => e.mperms[x] = p.mperms[x]
             /\ x \in DOMAIN p.members /\ x \in DOMAIN e.members => e.members[x] = p.members[x]
  <2>1. {"teams", "roles", "mperms", "members"} \subseteq Tables
    BY DEF Tables
  <2> QED
    BY <2>1, KeysAt DEF Drawn
<1>5. \A x : /\ x \in DOMAIN p.teams /\ x \in DOMAIN q.teams => p.teams[x] = q.teams[x]
             /\ x \in DOMAIN p.roles /\ x \in DOMAIN q.roles => p.roles[x].team = q.roles[x].team
             /\ x \in DOMAIN p.mperms /\ x \in DOMAIN q.mperms => p.mperms[x] = q.mperms[x]
             /\ x \in DOMAIN p.members /\ x \in DOMAIN q.members => p.members[x] = q.members[x]
  BY <1>1, ChainKeys
<1> HIDE DEF p, q
<1>6. ASSUME NEW x, x \in DOMAIN p.teams, x \in DOMAIN q.teams PROVE x \in DOMAIN d.teams
  BY <1>1, <1>2, <1>3, <1>4, <1>5, <1>6 DEF Linked
<1>7. ASSUME NEW x, x \in DOMAIN p.roles, x \in DOMAIN q.roles PROVE x \in DOMAIN d.roles
  BY <1>1, <1>2, <1>3, <1>4, <1>5, <1>6, <1>7 DEF Linked
<1>8. ASSUME NEW x, x \in DOMAIN p.mperms, x \in DOMAIN q.mperms PROVE x \in DOMAIN d.mperms
  BY <1>1, <1>2, <1>3, <1>4, <1>5, <1>7, <1>8 DEF Linked
<1>9. ASSUME NEW x, x \in DOMAIN p.members, x \in DOMAIN q.members PROVE x \in DOMAIN d.members
  BY <1>1, <1>2, <1>3, <1>4, <1>5, <1>6, <1>9 DEF Linked
<1> QED
  BY <1>2, <1>3, <1>6, <1>7, <1>8, <1>9 DEF Keeps, Tables, p, q

\* Between, from its parts.
LEMMA BetweenParts ==
    ASSUME NEW d, NEW past, NEW k, NEW r
    PROVE  Between(d, past, k, r) <=>
              /\ Whole(d) /\ \A t \in Tables : IsMap(d[t])
              /\ Drawn(d, past, k, r) /\ Keeps(d, past, k, r)
BY DEF Between, TableBetween, Drawn, Keeps

\* A cascade of rows that entry k + 1 does not touch.
LEMMA CascadeStays ==
    ASSUME NEW past, NEW k, NEW r, Chain(past, k, r),
           NEW e, Between(e, past, k, r), NEW d, d = Cascade(e)
    PROVE  Between(d, past, k, r)
<1>1. /\ Whole(e) /\ Drawn(e, past, k, r) /\ Keeps(e, past, k, r) /\ k \in k..r
      /\ \A t \in Tables : IsMap(e[t])
  BY BetweenParts DEF Chain
<1>2. Keeps(d, past, k, r)
  BY <1>1, CascadeKeeps
<1>3. /\ Whole(d) /\ d.tokens = e.tokens /\ d.orgs = e.orgs
      /\ IsMap(d.teams) /\ IsMap(d.roles) /\ IsMap(d.mperms) /\ IsMap(d.members)
      /\ \A x : /\ x \in DOMAIN d.teams => x \in DOMAIN e.teams /\ d.teams[x] = e.teams[x]
                /\ x \in DOMAIN d.roles => x \in DOMAIN e.roles /\ d.roles[x] = e.roles[x]
                /\ x \in DOMAIN d.mperms => x \in DOMAIN e.mperms /\ d.mperms[x] = e.mperms[x]
                /\ x \in DOMAIN d.members => x \in DOMAIN e.members /\ d.members[x] = e.members[x]
  BY <1>1, CascadeRows DEF Whole
<1>4. \A t \in Tables : \A x \in DOMAIN d[t] : x \in DOMAIN e[t] /\ d[t][x] = e[t][x]
  BY <1>3 DEF Tables
<1>5. \A t \in Tables : IsMap(d[t])
  BY <1>1, <1>3 DEF Tables
<1>6. Drawn(d, past, k, r)
  BY <1>1, <1>4 DEF Drawn
<1> QED
  BY <1>2, <1>3, <1>5, <1>6, BetweenParts

\* Entry k + 1 takes entries away, and everything below them.  The mirror
\* deletes the rows of the former, and the cascade those of the latter.
TakenBelow(p, q, e) ==
    /\ \A t \in Tables : \A x \in DOMAIN q[t] : x \in DOMAIN p[t] /\ q[t][x] = p[t][x]
    /\ \A x \in DOMAIN p.tokens : x \in DOMAIN e.tokens => x \in DOMAIN q.tokens
    /\ \A x \in DOMAIN p.orgs : x \in DOMAIN e.orgs => x \in DOMAIN q.orgs
    /\ \A x \in DOMAIN p.teams :
            x \in DOMAIN e.teams /\ p.teams[x].org \in DOMAIN q.orgs => x \in DOMAIN q.teams
    /\ \A x \in DOMAIN p.roles :
            x \in DOMAIN e.roles /\ p.roles[x].team \in DOMAIN q.teams => x \in DOMAIN q.roles
    /\ \A x \in DOMAIN p.mperms :
            x \in DOMAIN e.mperms /\ p.mperms[x].role \in DOMAIN q.roles => x \in DOMAIN q.mperms
    /\ \A x \in DOMAIN p.members :
            /\ x \in DOMAIN e.members /\ p.members[x].token \in DOMAIN q.tokens
            /\ p.members[x].team \in DOMAIN q.teams
            => x \in DOMAIN q.members

LEMMA CascadeTakes ==
    ASSUME NEW past, NEW k, NEW r, Chain(past, k, r), k < r,
           NEW e, Whole(e), \A t \in Tables : IsMap(e[t]), Drawn(e, past, k, r), Keeps(e, past, k + 1, r),
           TakenBelow(past[k], past[k + 1], e), NEW d, d = Cascade(e)
    PROVE  Between(d, past, k + 1, r)
<1> DEFINE p == past[k]
           q == past[k + 1]
<1>1. k \in Nat /\ r \in Nat /\ k \in k..r /\ k + 1 \in k..r /\ Linked(p)
  BY DEF Chain, Good
<1>2. Keeps(d, past, k + 1, r)
  BY <1>1, CascadeKeeps
<1>3. /\ Whole(d) /\ d.tokens = e.tokens /\ d.orgs = e.orgs
      /\ IsMap(d.teams) /\ IsMap(d.roles) /\ IsMap(d.mperms) /\ IsMap(d.members)
      /\ \A x : /\ x \in DOMAIN d.teams =>
                        /\ x \in DOMAIN e.teams /\ e.teams[x].org \in DOMAIN d.orgs
                        /\ d.teams[x] = e.teams[x]
                /\ x \in DOMAIN d.roles =>
                        /\ x \in DOMAIN e.roles /\ e.roles[x].team \in DOMAIN d.teams
                        /\ d.roles[x] = e.roles[x]
                /\ x \in DOMAIN d.mperms =>
                        /\ x \in DOMAIN e.mperms /\ e.mperms[x].role \in DOMAIN d.roles
                        /\ d.mperms[x] = e.mperms[x]
                /\ x \in DOMAIN d.members =>
                        /\ x \in DOMAIN e.members /\ e.members[x].token \in DOMAIN d.tokens
                        /\ e.members[x].team \in DOMAIN d.teams /\ d.members[x] = e.members[x]
  BY CascadeRows DEF Whole
<1>4. \A t \in Tables : \A x \in DOMAIN d[t] : x \in DOMAIN e[t] /\ d[t][x] = e[t][x]
  BY <1>3 DEF Tables
<1>5. \A t \in Tables : IsMap(d[t])
  BY <1>3 DEF Tables
<1>6. \A x : /\ x \in DOMAIN p.teams /\ x \in DOMAIN e.teams => e.teams[x] = p.teams[x]
             /\ x \in DOMAIN p.roles /\ x \in DOMAIN e.roles => e.roles[x].team = p.roles[x].team
             /\ x \in DOMAIN p.mperms /\ x \in DOMAIN e.mperms => e.mperms[x] = p.mperms[x]
             /\ x \in DOMAIN p.members /\ x \in DOMAIN e.members => e.members[x] = p.members[x]
  <2>1. {"teams", "roles", "mperms", "members"} \subseteq Tables
    BY DEF Tables
  <2> QED
    BY <1>1, <2>1, KeysAt DEF Drawn
<1>7. TakenBelow(p, q, e)
  OBVIOUS
<1> HIDE DEF p, q
<1>8. \A x : /\ x \in DOMAIN p.tokens /\ x \in DOMAIN d.tokens => x \in DOMAIN q.tokens
             /\ x \in DOMAIN p.orgs /\ x \in DOMAIN d.orgs => x \in DOMAIN q.orgs
  BY <1>3, <1>7 DEF TakenBelow
<1>9. \A x : x \in DOMAIN p.teams /\ x \in DOMAIN d.teams => x \in DOMAIN q.teams
  BY <1>1, <1>3, <1>6, <1>7, <1>8 DEF TakenBelow, Linked
<1>10. \A x : x \in DOMAIN p.roles /\ x \in DOMAIN d.roles => x \in DOMAIN q.roles
  BY <1>1, <1>3, <1>6, <1>7, <1>9 DEF TakenBelow, Linked
<1>11. \A x : x \in DOMAIN p.mperms /\ x \in DOMAIN d.mperms => x \in DOMAIN q.mperms
  BY <1>1, <1>3, <1>6, <1>7, <1>10 DEF TakenBelow, Linked
<1>12. \A x : x \in DOMAIN p.members /\ x \in DOMAIN d.members => x \in DOMAIN q.members
  BY <1>1, <1>3, <1>6, <1>7, <1>8, <1>9 DEF TakenBelow, Linked
<1>13. \A t \in Tables : \A x \in DOMAIN d[t] :
            x \in DOMAIN p[t] => x \in DOMAIN q[t] /\ q[t][x] = p[t][x]
  <2>1. \A t \in Tables : \A x \in DOMAIN d[t] : x \in DOMAIN p[t] => x \in DOMAIN q[t]
    BY <1>8, <1>9, <1>10, <1>11, <1>12 DEF Tables
  <2> QED
    BY <1>7, <2>1 DEF TakenBelow
<1>14. Drawn(d, past, k + 1, r)
  <2> SUFFICES ASSUME NEW t \in Tables, NEW x \in DOMAIN d[t]
               PROVE  FromPast(t, x, d[t][x], past, k + 1, r)
    BY DEF Drawn
  <2>1. FromPast(t, x, d[t][x], past, k, r)
    BY <1>4 DEF Drawn
  <2> QED
    BY <1>1, <1>13, <2>1, FromLater DEF p, q
<1> QED
  BY <1>2, <1>3, <1>5, <1>14, BetweenParts

---------------------------------------------------------------------------
(* One entry further.  The node stands at k, entry k + 1 is accepted there   *)
(* and is no rename, and its callback runs.                                  *)

\* A table that the entry does not touch.
LEMMA TableRests ==
    ASSUME NEW past, NEW k, NEW r, Chain(past, k, r), k < r, NEW t \in Tables,
           NEW f, TableBetween(f, t, past, k, r), past[k + 1][t] = past[k][t]
    PROVE  TableBetween(f, t, past, k + 1, r)
<1>1. k \in Nat /\ r \in Nat
  BY DEF Chain
<1>2. \A x \in DOMAIN f : FromPast(t, x, f[x], past, k + 1, r)
  BY <1>1, FromLater DEF TableBetween
<1> QED
  BY <1>2 DEF TableBetween

\* The table that gets entry k + 1.  The row may be missing in the mirror if it
\* is gone at r.
LEMMA TablePuts ==
    ASSUME NEW past, NEW k, NEW r, Chain(past, k, r), k < r, NEW t \in Tables,
           NEW f, TableBetween(f, t, past, k, r), NEW v, past[k + 1][t] = Put(past[k][t], k + 1, v),
           NEW g, \/ g = Put(f, k + 1, v)
                  \/ g = f /\ (k + 1 \in DOMAIN f \/ k + 1 \notin DOMAIN past[r][t])
    PROVE  TableBetween(g, t, past, k + 1, r)
<1>1. k \in Nat /\ r \in Nat /\ k \in k..r /\ k + 1 \in k..r /\ r \in (k + 1)..r /\ Good(past[k], k)
  BY DEF Chain
<1>2. k + 1 \notin DOMAIN past[k][t]
  BY <1>1, Fresh DEF Good, TokensOK, OrgsOK, TeamsOK, RolesOK, MPermsOK, MembersOK, Tables
<1>3. /\ \A x : x \in DOMAIN past[k + 1][t] <=> x \in DOMAIN past[k][t] \/ x = k + 1
      /\ past[k + 1][t][k + 1] = v
      /\ \A x \in DOMAIN past[k][t] : past[k + 1][t][x] = past[k][t][x]
  BY <1>2, PutMap
<1>4. \A x \in DOMAIN f : FromPast(t, x, f[x], past, k + 1, r)
  <2> SUFFICES ASSUME NEW x \in DOMAIN f PROVE FromPast(t, x, f[x], past, k + 1, r)
    OBVIOUS
  <2>1. FromPast(t, x, f[x], past, k, r)
    BY DEF TableBetween
  <2> QED
    BY <1>1, <1>3, <2>1, FromLater
<1>5. FromPast(t, k + 1, v, past, k + 1, r)
  <2>1. Chain(past, k + 1, r)
    BY <1>1, ChainPart
  <2>2. k + 1 \in (k + 1)..r /\ k + 1 \in DOMAIN past[k + 1][t]
    BY <1>1, <1>3
  <2> QED
    BY <1>3, <2>1, <2>2, FromRow
<1>6. /\ IsMap(g)
      /\ \A x \in DOMAIN g :
            \/ x \in DOMAIN f /\ g[x] = f[x]
            \/ x = k + 1 /\ g[x] = v
  BY PutMap DEF TableBetween
<1>7. \A x : x \in DOMAIN f => x \in DOMAIN g
  BY PutMap
<1>8. k + 1 \in DOMAIN g \/ k + 1 \notin DOMAIN past[r][t]
  BY PutMap
<1>9. \A x \in DOMAIN g : FromPast(t, x, g[x], past, k + 1, r)
  BY <1>4, <1>5, <1>6
<1>10. \A x : x \in DOMAIN past[k + 1][t] /\ x \in DOMAIN past[r][t] => x \in DOMAIN g
  BY <1>3, <1>7, <1>8 DEF TableBetween
<1> QED
  BY <1>6, <1>9, <1>10 DEF TableBetween

\* The table from which the entry takes the rows S.
LEMMA TableDrops ==
    ASSUME NEW past, NEW k, NEW r, Chain(past, k, r), k < r, NEW t \in Tables,
           NEW f, TableBetween(f, t, past, k, r), NEW S, past[k + 1][t] = Drop(past[k][t], S),
           NEW g, IsMap(g), \A x \in DOMAIN g : x \in DOMAIN f /\ g[x] = f[x],
           \A x \in DOMAIN past[k][t] : x \in S => x \notin DOMAIN g,
           \A x \in DOMAIN past[k + 1][t] : x \in DOMAIN f => x \in DOMAIN g
    PROVE  TableBetween(g, t, past, k + 1, r)
<1>1. k \in Nat /\ r \in Nat
  BY DEF Chain
<1>2. /\ \A x : x \in DOMAIN past[k + 1][t] <=> x \in DOMAIN past[k][t] /\ x \notin S
      /\ \A x \in DOMAIN past[k + 1][t] : past[k + 1][t][x] = past[k][t][x]
  BY DropMap
<1>3. \A x \in DOMAIN g : FromPast(t, x, g[x], past, k + 1, r)
  <2> SUFFICES ASSUME NEW x \in DOMAIN g PROVE FromPast(t, x, g[x], past, k + 1, r)
    OBVIOUS
  <2>1. FromPast(t, x, g[x], past, k, r)
    BY DEF TableBetween
  <2> QED
    BY <1>1, <1>2, <2>1, FromLater
<1>4. \A x : x \in DOMAIN past[k + 1][t] /\ x \in DOMAIN past[r][t] => x \in DOMAIN g
  BY <1>2 DEF TableBetween
<1> QED
  BY <1>3, <1>4 DEF TableBetween

\* The table in which the entry rewrites row y, and what the mirror makes of it.
LEMMA TableRewrites ==
    ASSUME NEW past, NEW k, NEW r, Chain(past, k, r), k < r, NEW t \in Tables,
           NEW f, TableBetween(f, t, past, k, r), NEW y, NEW w,
           past[k + 1][t] = [past[k][t] EXCEPT ![y] = w],
           NEW v, NEW g, (g = f /\ y \notin DOMAIN f) \/ g = [f EXCEPT ![y] = v],
           y \in DOMAIN f => FromPast(t, y, v, past, k + 1, r)
    PROVE  TableBetween(g, t, past, k + 1, r)
<1>1. k \in Nat /\ r \in Nat
  BY DEF Chain
<1>2. /\ DOMAIN past[k + 1][t] = DOMAIN past[k][t]
      /\ \A x \in DOMAIN past[k][t] : x # y => past[k + 1][t][x] = past[k][t][x]
  OBVIOUS
<1>3. /\ IsMap(g) /\ DOMAIN g = DOMAIN f
      /\ \A x \in DOMAIN g : x # y => g[x] = f[x]
      /\ y \in DOMAIN g => g[y] = v
  BY DEF TableBetween, IsMap
<1>4. ASSUME NEW x \in DOMAIN g PROVE FromPast(t, x, g[x], past, k + 1, r)
  <2>1. CASE x = y
    BY <1>3, <2>1
  <2>2. CASE x # y
    <3>1. FromPast(t, x, g[x], past, k, r)
      BY <1>3, <2>2 DEF TableBetween
    <3> QED
      BY <1>1, <1>2, <2>2, <3>1, FromLater
  <2> QED
    BY <2>1, <2>2
<1>5. \A x : x \in DOMAIN past[k + 1][t] /\ x \in DOMAIN past[r][t] => x \in DOMAIN g
  BY <1>2, <1>3 DEF TableBetween
<1> QED
  BY <1>3, <1>4, <1>5 DEF TableBetween

\* Outside T the tables of d are those of s.
Rest(s, d, T) == \A t \in Tables \ T : d[t] = s[t]

\* One table changes.
LEMMA OneTable ==
    ASSUME NEW past, NEW k, NEW r, Chain(past, k, r), k < r, NEW e, Between(e, past, k, r),
           NEW t \in Tables, Rest(past[k], past[k + 1], {t}),
           NEW g, TableBetween(g, t, past, k + 1, r),
           NEW d, (d = e /\ g = e[t]) \/ d = [e EXCEPT ![t] = g]
    PROVE  Between(d, past, k + 1, r)
<1>1. Whole(d) /\ d[t] = g /\ \A u \in Tables : u # t => d[u] = e[u]
  BY DEF Between, Whole
<1>2. \A u \in Tables : u # t => TableBetween(e[u], u, past, k + 1, r)
  BY TableRests DEF Between, Rest
<1>3. \A u \in Tables : TableBetween(d[u], u, past, k + 1, r)
  BY <1>1, <1>2
<1> QED
  BY <1>1, <1>3 DEF Between

---------------------------------------------------------------------------
(* What the commands do to the tables.                                       *)

LEMMA RestOfTables ==
    ASSUME NEW s, NEW d
    PROVE  /\ Same(s, d, Fields \ TokenFields) => Rest(s, d, {"tokens"})
           /\ Same(s, d, Fields \ (TokenFields \cup MemberFields)) => Rest(s, d, {"tokens", "members"})
           /\ Same(s, d, Fields \ OrgFields) => Rest(s, d, {"orgs"})
           /\ Same(s, d, TokenFields) => Rest(s, d, {"orgs", "teams", "roles", "mperms", "members"})
           /\ Same(s, d, Fields \ TeamFields) => Rest(s, d, {"teams"})
           /\ Same(s, d, TokenFields \cup OrgFields) => Rest(s, d, {"teams", "roles", "mperms", "members"})
           /\ Same(s, d, Fields \ RoleFields) => Rest(s, d, {"roles"})
           /\ Same(s, d, Fields \ {"roles"}) => Rest(s, d, {"roles"})
           /\ Same(s, d, Fields \ (RoleFields \cup MPermFields)) => Rest(s, d, {"roles", "mperms"})
           /\ Same(s, d, Fields \ MPermFields) => Rest(s, d, {"mperms"})
           /\ Same(s, d, Fields \ MemberFields) => Rest(s, d, {"members"})
BY DEF Same, Rest, Fields, Tables, TokenFields, OrgFields, TeamFields, RoleFields, MPermFields, MemberFields

LEMMA CreateTokenRows ==
    ASSUME NEW s, NEW c, NEW n \in Nat, Good(s, n), c.op = "CreateToken", Accepts(s, c),
           NEW d, d = Effect(s, c, n + 1)
    PROVE  /\ c.name \notin DOMAIN s.tokensByName
           /\ Rest(s, d, {"tokens"})
           /\ d.tokens = Put(s.tokens, n + 1, [name |-> c.name, cred |-> c.cred, on |-> TRUE])
<1>1. c.name \notin DOMAIN s.tokensByName
  <2>1. AcceptsToken(s, c)
    BY AcceptsByKind DEF TokenOps
  <2> QED
    BY <2>1 DEF AcceptsToken
<1>2. d = CreateToken(s, c, n + 1)
  BY DEF Effect
<1>3. /\ Same(s, d, Fields \ TokenFields)
      /\ d.tokens = Put(s.tokens, n + 1, [name |-> c.name, cred |-> c.cred, on |-> TRUE])
  BY <1>1, <1>2, CreateTokenOK
<1>4. Rest(s, d, {"tokens"})
  BY <1>3, RestOfTables
<1> QED
  BY <1>1, <1>3, <1>4

LEMMA RevokeTokenRows ==
    ASSUME NEW s, NEW c, NEW n \in Nat, Good(s, n), c.op = "RevokeToken", Accepts(s, c),
           NEW d, d = Effect(s, c, n + 1)
    PROVE  /\ c.id \in DOMAIN s.tokens
           /\ Rest(s, d, {"tokens"})
           /\ d.tokens = [s.tokens EXCEPT ![c.id] = [s.tokens[c.id] EXCEPT !.on = FALSE]]
<1>1. c.id \in DOMAIN s.tokens
  <2>1. AcceptsToken(s, c)
    BY AcceptsByKind DEF TokenOps
  <2> QED
    BY <2>1 DEF AcceptsToken
<1>2. d = RevokeToken(s, c)
  BY DEF Effect
<1>3. /\ Same(s, d, Fields \ TokenFields)
      /\ d.tokens = [s.tokens EXCEPT ![c.id] = [s.tokens[c.id] EXCEPT !.on = FALSE]]
  BY <1>1, <1>2, RevokeTokenOK, ZenonT(30)
<1>4. Rest(s, d, {"tokens"})
  BY <1>3, RestOfTables
<1> QED
  BY <1>1, <1>3, <1>4

LEMMA RotateTokenRows ==
    ASSUME NEW s, NEW c, NEW n \in Nat, Good(s, n), c.op = "RotateToken", Accepts(s, c),
           NEW d, d = Effect(s, c, n + 1)
    PROVE  /\ c.id \in DOMAIN s.tokens
           /\ Rest(s, d, {"tokens"})
           /\ d.tokens = [s.tokens EXCEPT ![c.id] = [s.tokens[c.id] EXCEPT !.cred = c.cred]]
<1>1. c.id \in DOMAIN s.tokens
  <2>1. AcceptsToken(s, c)
    BY AcceptsByKind DEF TokenOps
  <2> QED
    BY <2>1 DEF AcceptsToken
<1>2. d = RotateToken(s, c)
  BY DEF Effect
<1>3. /\ Same(s, d, Fields \ TokenFields)
      /\ d.tokens = [s.tokens EXCEPT ![c.id] = [s.tokens[c.id] EXCEPT !.cred = c.cred]]
  BY <1>1, <1>2, RotateTokenOK, ZenonT(30)
<1>4. Rest(s, d, {"tokens"})
  BY <1>3, RestOfTables
<1> QED
  BY <1>1, <1>3, <1>4

LEMMA DeleteTokenRows ==
    ASSUME NEW s, NEW c, NEW n \in Nat, Good(s, n), c.op = "DeleteToken", Accepts(s, c),
           NEW d, d = Effect(s, c, n + 1)
    PROVE  /\ c.id \in DOMAIN s.tokens
           /\ Rest(s, d, {"tokens", "members"})
           /\ d.tokens = Drop(s.tokens, {c.id})
           /\ d.members = Drop(s.members, Memberships(s, c.id))
<1>1. c.id \in DOMAIN s.tokens
  <2>1. AcceptsToken(s, c)
    BY AcceptsByKind DEF TokenOps
  <2> QED
    BY <2>1 DEF AcceptsToken
<1>2. d = DeleteToken(s, c)
  BY DEF Effect
<1>3. /\ Same(s, d, Fields \ (TokenFields \cup MemberFields))
      /\ d.tokens = Drop(s.tokens, {c.id})
      /\ d.members = Drop(s.members, Memberships(s, c.id))
  BY <1>1, <1>2, DeleteTokenOK, ZenonT(30)
<1>4. Rest(s, d, {"tokens", "members"})
  BY <1>3, RestOfTables
<1> QED
  BY <1>1, <1>3, <1>4

LEMMA CreateOrgRows ==
    ASSUME NEW s, NEW c, NEW n \in Nat, Good(s, n), c.op = "CreateOrg", Accepts(s, c),
           NEW d, d = Effect(s, c, n + 1)
    PROVE  /\ c.name \notin DOMAIN s.orgsByName
           /\ Rest(s, d, {"orgs"})
           /\ d.orgs = Put(s.orgs, n + 1, [name |-> c.name])
<1>1. c.name \notin DOMAIN s.orgsByName
  <2>1. AcceptsOrg(s, c)
    BY AcceptsByKind DEF OrgOps
  <2> QED
    BY <2>1 DEF AcceptsOrg
<1>2. d = CreateOrg(s, c, n + 1)
  BY DEF Effect
<1>3. /\ Same(s, d, Fields \ OrgFields)
      /\ d.orgs = Put(s.orgs, n + 1, [name |-> c.name])
  BY <1>1, <1>2, CreateOrgOK
<1>4. Rest(s, d, {"orgs"})
  BY <1>3, RestOfTables
<1> QED
  BY <1>1, <1>3, <1>4

LEMMA DeleteOrgRows ==
    ASSUME NEW s, NEW c, NEW n \in Nat, Good(s, n), c.op = "DeleteOrg", Accepts(s, c),
           NEW d, d = Effect(s, c, n + 1)
    PROVE  /\ c.id \in DOMAIN s.orgs
           /\ Rest(s, d, {"orgs", "teams", "roles", "mperms", "members"})
           /\ d.orgs = Drop(s.orgs, {c.id})
           /\ TeamDropped(s, d, TeamsUnder(s, c.id))
<1>1. c.id \in DOMAIN s.orgs
  <2>1. AcceptsOrg(s, c)
    BY AcceptsByKind DEF OrgOps
  <2> QED
    BY <2>1 DEF AcceptsOrg
<1>2. d = DeleteOrg(s, c)
  BY DEF Effect
<1> QED
  BY <1>1, <1>2, DeleteOrgOK, RestOfTables

LEMMA CreateTeamRows ==
    ASSUME NEW s, NEW c, NEW n \in Nat, Good(s, n), c.op = "CreateTeam", Accepts(s, c),
           NEW d, d = Effect(s, c, n + 1)
    PROVE  /\ c.org \in DOMAIN s.orgs
           /\ <<c.org, c.name>> \notin DOMAIN s.teamsByOrg
           /\ Rest(s, d, {"teams"})
           /\ d.teams = Put(s.teams, n + 1, [org |-> c.org, name |-> c.name])
<1>1. /\ c.org \in DOMAIN s.orgs
      /\ <<c.org, c.name>> \notin DOMAIN s.teamsByOrg
  <2>1. AcceptsTeam(s, c)
    BY AcceptsByKind DEF TeamOps
  <2> QED
    BY <2>1 DEF AcceptsTeam
<1>2. d = CreateTeam(s, c, n + 1)
  BY DEF Effect
<1>3. /\ Same(s, d, Fields \ TeamFields)
      /\ d.teams = Put(s.teams, n + 1, [org |-> c.org, name |-> c.name])
  BY <1>1, <1>2, CreateTeamOK
<1>4. Rest(s, d, {"teams"})
  BY <1>3, RestOfTables
<1> QED
  BY <1>1, <1>3, <1>4

LEMMA DeleteTeamRows ==
    ASSUME NEW s, NEW c, NEW n \in Nat, Good(s, n), c.op = "DeleteTeam", Accepts(s, c),
           NEW d, d = Effect(s, c, n + 1)
    PROVE  /\ c.id \in DOMAIN s.teams
           /\ Rest(s, d, {"teams", "roles", "mperms", "members"})
           /\ TeamDropped(s, d, {c.id})
<1>1. c.id \in DOMAIN s.teams
  <2>1. AcceptsTeam(s, c)
    BY AcceptsByKind DEF TeamOps
  <2> QED
    BY <2>1 DEF AcceptsTeam
<1>2. d = DeleteTeam(s, c)
  BY DEF Effect
<1> QED
  BY <1>1, <1>2, DeleteTeamOK, RestOfTables

LEMMA CreateRoleRows ==
    ASSUME NEW s, NEW c, NEW n \in Nat, Good(s, n), c.op = "CreateRole", Accepts(s, c),
           NEW d, d = Effect(s, c, n + 1)
    PROVE  /\ c.team \in DOMAIN s.teams
           /\ Rest(s, d, {"roles"})
           /\ d.roles = Put(s.roles, n + 1, [team |-> c.team, pat |-> c.pat])
<1>1. c.team \in DOMAIN s.teams
  <2>1. AcceptsRole(s, c)
    BY AcceptsByKind DEF RoleOps
  <2> QED
    BY <2>1 DEF AcceptsRole
<1>2. d = CreateRole(s, c, n + 1)
  BY DEF Effect
<1>3. /\ Same(s, d, Fields \ RoleFields)
      /\ d.roles = Put(s.roles, n + 1, [team |-> c.team, pat |-> c.pat])
  BY <1>1, <1>2, CreateRoleOK
<1>4. Rest(s, d, {"roles"})
  BY <1>3, RestOfTables
<1> QED
  BY <1>1, <1>3, <1>4

LEMMA UpdateRoleRows ==
    ASSUME NEW s, NEW c, NEW n \in Nat, Good(s, n), c.op = "UpdateRole", Accepts(s, c),
           NEW d, d = Effect(s, c, n + 1)
    PROVE  /\ c.id \in DOMAIN s.roles
           /\ Rest(s, d, {"roles"})
           /\ d.roles = [s.roles EXCEPT ![c.id] = [s.roles[c.id] EXCEPT !.pat = c.pat]]
<1>1. c.id \in DOMAIN s.roles
  <2>1. AcceptsRole(s, c)
    BY AcceptsByKind DEF RoleOps
  <2> QED
    BY <2>1 DEF AcceptsRole
<1>2. d = UpdateRole(s, c)
  BY DEF Effect
<1>3. /\ Same(s, d, Fields \ {"roles"})
      /\ d.roles = [s.roles EXCEPT ![c.id] = [s.roles[c.id] EXCEPT !.pat = c.pat]]
  BY <1>1, <1>2, UpdateRoleOK, ZenonT(30)
<1>4. Rest(s, d, {"roles"})
  BY <1>3, RestOfTables
<1> QED
  BY <1>1, <1>3, <1>4

LEMMA DeleteRoleRows ==
    ASSUME NEW s, NEW c, NEW n \in Nat, Good(s, n), c.op = "DeleteRole", Accepts(s, c),
           NEW d, d = Effect(s, c, n + 1)
    PROVE  /\ c.id \in DOMAIN s.roles
           /\ Rest(s, d, {"roles", "mperms"})
           /\ d.roles = Drop(s.roles, {c.id})
           /\ d.mperms = Drop(s.mperms, Permissions(s, c.id))
<1>1. c.id \in DOMAIN s.roles
  <2>1. AcceptsRole(s, c)
    BY AcceptsByKind DEF RoleOps
  <2> QED
    BY <2>1 DEF AcceptsRole
<1>2. d = DeleteRole(s, c)
  BY DEF Effect
<1>3. /\ Same(s, d, Fields \ (RoleFields \cup MPermFields))
      /\ d.roles = Drop(s.roles, {c.id})
      /\ d.mperms = Drop(s.mperms, Permissions(s, c.id))
  BY <1>1, <1>2, DeleteRoleOK, ZenonT(30)
<1>4. Rest(s, d, {"roles", "mperms"})
  BY <1>3, RestOfTables
<1> QED
  BY <1>1, <1>3, <1>4

LEMMA CreateMPermRows ==
    ASSUME NEW s, NEW c, NEW n \in Nat, Good(s, n), c.op = "CreateMPerm", Accepts(s, c),
           NEW d, d = Effect(s, c, n + 1)
    PROVE  /\ c.role \in DOMAIN s.roles
           /\ Rest(s, d, {"mperms"})
           /\ d.mperms = Put(s.mperms, n + 1, [role |-> c.role])
<1>1. c.role \in DOMAIN s.roles
  <2>1. AcceptsMPerm(s, c)
    BY AcceptsByKind DEF MPermOps
  <2> QED
    BY <2>1 DEF AcceptsMPerm
<1>2. d = CreateMPerm(s, c, n + 1)
  BY DEF Effect
<1>3. /\ Same(s, d, Fields \ MPermFields)
      /\ d.mperms = Put(s.mperms, n + 1, [role |-> c.role])
  BY <1>1, <1>2, CreateMPermOK
<1>4. Rest(s, d, {"mperms"})
  BY <1>3, RestOfTables
<1> QED
  BY <1>1, <1>3, <1>4

LEMMA DeleteMPermRows ==
    ASSUME NEW s, NEW c, NEW n \in Nat, Good(s, n), c.op = "DeleteMPerm", Accepts(s, c),
           NEW d, d = Effect(s, c, n + 1)
    PROVE  /\ c.id \in DOMAIN s.mperms
           /\ Rest(s, d, {"mperms"})
           /\ d.mperms = Drop(s.mperms, {c.id})
<1>1. c.id \in DOMAIN s.mperms
  <2>1. AcceptsMPerm(s, c)
    BY AcceptsByKind DEF MPermOps
  <2> QED
    BY <2>1 DEF AcceptsMPerm
<1>2. d = DeleteMPerm(s, c)
  BY DEF Effect
<1>3. /\ Same(s, d, Fields \ MPermFields)
      /\ d.mperms = Drop(s.mperms, {c.id})
  BY <1>1, <1>2, DeleteMPermOK
<1>4. Rest(s, d, {"mperms"})
  BY <1>3, RestOfTables
<1> QED
  BY <1>1, <1>3, <1>4

LEMMA AddMemberRows ==
    ASSUME NEW s, NEW c, NEW n \in Nat, Good(s, n), c.op = "AddMember", Accepts(s, c),
           NEW d, d = Effect(s, c, n + 1)
    PROVE  /\ c.token \in DOMAIN s.tokens
           /\ c.team \in DOMAIN s.teams
           /\ <<c.token, c.team>> \notin DOMAIN s.byPair
           /\ Rest(s, d, {"members"})
           /\ d.members = Put(s.members, n + 1, [token |-> c.token, team |-> c.team])
<1>1. /\ c.token \in DOMAIN s.tokens
      /\ c.team \in DOMAIN s.teams
      /\ <<c.token, c.team>> \notin DOMAIN s.byPair
  <2>1. AcceptsMember(s, c)
    BY AcceptsByKind DEF MemberOps
  <2> QED
    BY <2>1 DEF AcceptsMember
<1>2. d = AddMember(s, c, n + 1)
  BY DEF Effect
<1>3. /\ Same(s, d, Fields \ MemberFields)
      /\ d.members = Put(s.members, n + 1, [token |-> c.token, team |-> c.team])
  BY <1>1, <1>2, AddMemberOK
<1>4. Rest(s, d, {"members"})
  BY <1>3, RestOfTables
<1> QED
  BY <1>1, <1>3, <1>4

LEMMA RemoveMemberRows ==
    ASSUME NEW s, NEW c, NEW n \in Nat, Good(s, n), c.op = "RemoveMember", Accepts(s, c),
           NEW d, d = Effect(s, c, n + 1)
    PROVE  /\ <<c.token, c.team>> \in DOMAIN s.byPair
           /\ Rest(s, d, {"members"})
           /\ s.byPair[<<c.token, c.team>>] \in DOMAIN s.members
           /\ d.members = Drop(s.members, {s.byPair[<<c.token, c.team>>]})
<1>1. <<c.token, c.team>> \in DOMAIN s.byPair
  <2>1. AcceptsMember(s, c)
    BY AcceptsByKind DEF MemberOps
  <2> QED
    BY <2>1 DEF AcceptsMember
<1>2. d = RemoveMember(s, c)
  BY DEF Effect
<1>3. /\ Same(s, d, Fields \ MemberFields)
      /\ s.byPair[<<c.token, c.team>>] \in DOMAIN s.members
      /\ d.members = Drop(s.members, {s.byPair[<<c.token, c.team>>]})
  BY <1>1, <1>2, RemoveMemberOK
<1>4. Rest(s, d, {"members"})
  BY <1>3, RestOfTables
<1> QED
  BY <1>1, <1>3, <1>4

---------------------------------------------------------------------------
(* A command that is no rename keeps the keys of what was there before.      *)
Renames == {"UpdateToken", "UpdateOrg", "UpdateTeam"}

LEMMA FixedSame == ASSUME NEW s, NEW n PROVE Fixed(s, s, n)
BY DEF Fixed

LEMMA FixedOn ==
    ASSUME NEW s, NEW d, NEW e, NEW n \in Nat, NEW m \in Nat, n <= m, Fixed(s, d, n), Fixed(d, e, m),
           /\ DOMAIN e.tokens \subseteq Nat /\ DOMAIN e.orgs \subseteq Nat /\ DOMAIN e.teams \subseteq Nat
           /\ DOMAIN e.roles \subseteq Nat /\ DOMAIN e.mperms \subseteq Nat /\ DOMAIN e.members \subseteq Nat
    PROVE  Fixed(s, e, n)
<1>1. \A x \in Nat : x <= n => x <= m
  OBVIOUS
<1> QED
  BY <1>1 DEF Fixed

\* A table is kept, gets a row, or loses some.
KeysKept(f, g, n) == \A x \in DOMAIN g : x <= n => x \in DOMAIN f /\ g[x] = f[x]

LEMMA KeysKeptOnes ==
    ASSUME NEW f, NEW n \in Nat
    PROVE  /\ KeysKept(f, f, n)
           /\ \A v : KeysKept(f, Put(f, n + 1, v), n)
           /\ \A S : KeysKept(f, Drop(f, S), n)
<1>1. ~(n + 1 <= n)
  OBVIOUS
<1> QED
  BY <1>1, PutMap, DropMap DEF KeysKept

LEMMA FixedKept ==
    ASSUME NEW s, NEW d, NEW n, \A t \in Tables : KeysKept(s[t], d[t], n)
    PROVE  Fixed(s, d, n)
BY DEF KeysKept, Fixed, Tables

LEMMA StepFixed ==
    ASSUME NEW s, NEW c, NEW n \in Nat, Good(s, n), c.op \in Ops \ Renames, Accepts(s, c),
           NEW d, d = Effect(s, c, n + 1)
    PROVE  Fixed(s, d, n)
<1>1. CASE c.op = "CreateToken"
  <2>1. /\ Rest(s, d, {"tokens"})
        /\ d.tokens = Put(s.tokens, n + 1, [name |-> c.name, cred |-> c.cred, on |-> TRUE])
    BY <1>1, CreateTokenRows
  <2>2. \A t \in Tables \ {"tokens"} : KeysKept(s[t], d[t], n)
    BY <2>1, KeysKeptOnes DEF Rest
  <2>3. KeysKept(s.tokens, d.tokens, n)
    BY <2>1, KeysKeptOnes
  <2>4. \A t \in Tables : KeysKept(s[t], d[t], n)
    BY <2>2, <2>3 DEF Tables
  <2> QED
    BY <2>4, FixedKept
<1>2. CASE c.op = "RevokeToken"
  <2>1. /\ c.id \in DOMAIN s.tokens /\ Rest(s, d, {"tokens"})
        /\ d.tokens = [s.tokens EXCEPT ![c.id] = [s.tokens[c.id] EXCEPT !.on = FALSE]]
    BY <1>2, RevokeTokenRows
  <2>2. [s.tokens[c.id] EXCEPT !.on = FALSE] = [name |-> s.tokens[c.id].name, cred |-> s.tokens[c.id].cred, on |-> FALSE]
    <3> DEFINE old == s.tokens[c.id]
    <3>1. old = [name |-> old.name, cred |-> old.cred, on |-> old.on]
      BY <2>1, RowShape, ZenonT(30)
    <3> HIDE DEF old
    <3>2. [old EXCEPT !.on = FALSE] = [name |-> old.name, cred |-> old.cred, on |-> FALSE]
      BY <3>1, TokenRow
    <3> QED
      BY <3>2 DEF old
  <2>3. \A x \in DOMAIN d.tokens : x \in DOMAIN s.tokens /\ d.tokens[x].name = s.tokens[x].name
    BY <2>1, <2>2
  <2> QED
    BY <2>1, <2>3 DEF Fixed, Rest, Tables
<1>3. CASE c.op = "RotateToken"
  <2>1. /\ c.id \in DOMAIN s.tokens /\ Rest(s, d, {"tokens"})
        /\ d.tokens = [s.tokens EXCEPT ![c.id] = [s.tokens[c.id] EXCEPT !.cred = c.cred]]
    BY <1>3, RotateTokenRows
  <2>2. [s.tokens[c.id] EXCEPT !.cred = c.cred] = [name |-> s.tokens[c.id].name, cred |-> c.cred, on |-> s.tokens[c.id].on]
    <3> DEFINE old == s.tokens[c.id]
    <3>1. old = [name |-> old.name, cred |-> old.cred, on |-> old.on]
      BY <2>1, RowShape, ZenonT(30)
    <3> HIDE DEF old
    <3>2. [old EXCEPT !.cred = c.cred] = [name |-> old.name, cred |-> c.cred, on |-> old.on]
      BY <3>1, TokenRow
    <3> QED
      BY <3>2 DEF old
  <2>3. \A x \in DOMAIN d.tokens : x \in DOMAIN s.tokens /\ d.tokens[x].name = s.tokens[x].name
    BY <2>1, <2>2
  <2> QED
    BY <2>1, <2>3 DEF Fixed, Rest, Tables
<1>4. CASE c.op = "DeleteToken"
  <2>1. /\ Rest(s, d, {"tokens", "members"})
        /\ d.tokens = Drop(s.tokens, {c.id})
        /\ d.members = Drop(s.members, Memberships(s, c.id))
    BY <1>4, DeleteTokenRows, ZenonT(30)
  <2>2. \A t \in Tables \ {"tokens", "members"} : KeysKept(s[t], d[t], n)
    BY <2>1, KeysKeptOnes DEF Rest
  <2>3. /\ KeysKept(s.tokens, d.tokens, n)
        /\ KeysKept(s.members, d.members, n)
    BY <2>1, KeysKeptOnes
  <2>4. \A t \in Tables : KeysKept(s[t], d[t], n)
    BY <2>2, <2>3 DEF Tables
  <2> QED
    BY <2>4, FixedKept
<1>5. CASE c.op = "CreateOrg"
  <2>1. /\ Rest(s, d, {"orgs"})
        /\ d.orgs = Put(s.orgs, n + 1, [name |-> c.name])
    BY <1>5, CreateOrgRows
  <2>2. \A t \in Tables \ {"orgs"} : KeysKept(s[t], d[t], n)
    BY <2>1, KeysKeptOnes DEF Rest
  <2>3. KeysKept(s.orgs, d.orgs, n)
    BY <2>1, KeysKeptOnes
  <2>4. \A t \in Tables : KeysKept(s[t], d[t], n)
    BY <2>2, <2>3 DEF Tables
  <2> QED
    BY <2>4, FixedKept
<1>6. CASE c.op = "DeleteOrg"
  <2>1. /\ Rest(s, d, {"orgs", "teams", "roles", "mperms", "members"})
        /\ d.orgs = Drop(s.orgs, {c.id})
        /\ TeamDropped(s, d, TeamsUnder(s, c.id))
    BY <1>6, DeleteOrgRows
  <2>2. \A t \in Tables \ {"orgs", "teams", "roles", "mperms", "members"} : KeysKept(s[t], d[t], n)
    BY <2>1, KeysKeptOnes DEF Rest
  <2>3. /\ KeysKept(s.orgs, d.orgs, n)
        /\ KeysKept(s.teams, d.teams, n)
        /\ KeysKept(s.roles, d.roles, n)
        /\ KeysKept(s.mperms, d.mperms, n)
        /\ KeysKept(s.members, d.members, n)
    BY <2>1, KeysKeptOnes DEF TeamDropped
  <2>4. \A t \in Tables : KeysKept(s[t], d[t], n)
    BY <2>2, <2>3 DEF Tables
  <2> QED
    BY <2>4, FixedKept
<1>7. CASE c.op = "CreateTeam"
  <2>1. /\ Rest(s, d, {"teams"})
        /\ d.teams = Put(s.teams, n + 1, [org |-> c.org, name |-> c.name])
    BY <1>7, CreateTeamRows
  <2>2. \A t \in Tables \ {"teams"} : KeysKept(s[t], d[t], n)
    BY <2>1, KeysKeptOnes DEF Rest
  <2>3. KeysKept(s.teams, d.teams, n)
    BY <2>1, KeysKeptOnes
  <2>4. \A t \in Tables : KeysKept(s[t], d[t], n)
    BY <2>2, <2>3 DEF Tables
  <2> QED
    BY <2>4, FixedKept
<1>8. CASE c.op = "DeleteTeam"
  <2>1. /\ Rest(s, d, {"teams", "roles", "mperms", "members"})
        /\ TeamDropped(s, d, {c.id})
    BY <1>8, DeleteTeamRows
  <2>2. \A t \in Tables \ {"teams", "roles", "mperms", "members"} : KeysKept(s[t], d[t], n)
    BY <2>1, KeysKeptOnes DEF Rest
  <2>3. /\ KeysKept(s.teams, d.teams, n)
        /\ KeysKept(s.roles, d.roles, n)
        /\ KeysKept(s.mperms, d.mperms, n)
        /\ KeysKept(s.members, d.members, n)
    BY <2>1, KeysKeptOnes DEF TeamDropped
  <2>4. \A t \in Tables : KeysKept(s[t], d[t], n)
    BY <2>2, <2>3 DEF Tables
  <2> QED
    BY <2>4, FixedKept
<1>9. CASE c.op = "CreateRole"
  <2>1. /\ Rest(s, d, {"roles"})
        /\ d.roles = Put(s.roles, n + 1, [team |-> c.team, pat |-> c.pat])
    BY <1>9, CreateRoleRows
  <2>2. \A t \in Tables \ {"roles"} : KeysKept(s[t], d[t], n)
    BY <2>1, KeysKeptOnes DEF Rest
  <2>3. KeysKept(s.roles, d.roles, n)
    BY <2>1, KeysKeptOnes
  <2>4. \A t \in Tables : KeysKept(s[t], d[t], n)
    BY <2>2, <2>3 DEF Tables
  <2> QED
    BY <2>4, FixedKept
<1>10. CASE c.op = "UpdateRole"
  <2>1. /\ c.id \in DOMAIN s.roles /\ Rest(s, d, {"roles"})
        /\ d.roles = [s.roles EXCEPT ![c.id] = [s.roles[c.id] EXCEPT !.pat = c.pat]]
    BY <1>10, UpdateRoleRows
  <2>2. [s.roles[c.id] EXCEPT !.pat = c.pat].team = s.roles[c.id].team
    <3>1. s.roles[c.id] = [team |-> s.roles[c.id].team, pat |-> s.roles[c.id].pat]
      BY <2>1 DEF Good, RolesOK
    <3> QED
      BY <3>1
  <2>3. \A x \in DOMAIN d.roles : x \in DOMAIN s.roles /\ d.roles[x].team = s.roles[x].team
    BY <2>1, <2>2
  <2> QED
    BY <2>1, <2>3 DEF Fixed, Rest, Tables
<1>11. CASE c.op = "DeleteRole"
  <2>1. /\ Rest(s, d, {"roles", "mperms"})
        /\ d.roles = Drop(s.roles, {c.id})
        /\ d.mperms = Drop(s.mperms, Permissions(s, c.id))
    BY <1>11, DeleteRoleRows, ZenonT(30)
  <2>2. \A t \in Tables \ {"roles", "mperms"} : KeysKept(s[t], d[t], n)
    BY <2>1, KeysKeptOnes DEF Rest
  <2>3. /\ KeysKept(s.roles, d.roles, n)
        /\ KeysKept(s.mperms, d.mperms, n)
    BY <2>1, KeysKeptOnes
  <2>4. \A t \in Tables : KeysKept(s[t], d[t], n)
    BY <2>2, <2>3 DEF Tables
  <2> QED
    BY <2>4, FixedKept
<1>12. CASE c.op = "CreateMPerm"
  <2>1. /\ Rest(s, d, {"mperms"})
        /\ d.mperms = Put(s.mperms, n + 1, [role |-> c.role])
    BY <1>12, CreateMPermRows
  <2>2. \A t \in Tables \ {"mperms"} : KeysKept(s[t], d[t], n)
    BY <2>1, KeysKeptOnes DEF Rest
  <2>3. KeysKept(s.mperms, d.mperms, n)
    BY <2>1, KeysKeptOnes
  <2>4. \A t \in Tables : KeysKept(s[t], d[t], n)
    BY <2>2, <2>3 DEF Tables
  <2> QED
    BY <2>4, FixedKept
<1>13. CASE c.op = "DeleteMPerm"
  <2>1. /\ Rest(s, d, {"mperms"})
        /\ d.mperms = Drop(s.mperms, {c.id})
    BY <1>13, DeleteMPermRows
  <2>2. \A t \in Tables \ {"mperms"} : KeysKept(s[t], d[t], n)
    BY <2>1, KeysKeptOnes DEF Rest
  <2>3. KeysKept(s.mperms, d.mperms, n)
    BY <2>1, KeysKeptOnes
  <2>4. \A t \in Tables : KeysKept(s[t], d[t], n)
    BY <2>2, <2>3 DEF Tables
  <2> QED
    BY <2>4, FixedKept
<1>14. CASE c.op = "AddMember"
  <2>1. /\ Rest(s, d, {"members"})
        /\ d.members = Put(s.members, n + 1, [token |-> c.token, team |-> c.team])
    BY <1>14, AddMemberRows
  <2>2. \A t \in Tables \ {"members"} : KeysKept(s[t], d[t], n)
    BY <2>1, KeysKeptOnes DEF Rest
  <2>3. KeysKept(s.members, d.members, n)
    BY <2>1, KeysKeptOnes
  <2>4. \A t \in Tables : KeysKept(s[t], d[t], n)
    BY <2>2, <2>3 DEF Tables
  <2> QED
    BY <2>4, FixedKept
<1>15. CASE c.op = "RemoveMember"
  <2>1. /\ Rest(s, d, {"members"})
        /\ d.members = Drop(s.members, {s.byPair[<<c.token, c.team>>]})
    BY <1>15, RemoveMemberRows
  <2>2. \A t \in Tables \ {"members"} : KeysKept(s[t], d[t], n)
    BY <2>1, KeysKeptOnes DEF Rest
  <2>3. KeysKept(s.members, d.members, n)
    BY <2>1, KeysKeptOnes
  <2>4. \A t \in Tables : KeysKept(s[t], d[t], n)
    BY <2>2, <2>3 DEF Tables
  <2> QED
    BY <2>4, FixedKept
<1> QED
  BY <1>1, <1>2, <1>3, <1>4, <1>5, <1>6, <1>7, <1>8, <1>9, <1>10, <1>11, <1>12, <1>13, <1>14, <1>15
     DEF Ops, Renames, TokenOps, OrgOps, TeamOps, RoleOps, MPermOps, MemberOps

---------------------------------------------------------------------------
(* One entry further, command by command.                                    *)

LEMMA MirrorByKind ==
    ASSUME NEW e, NEW c, NEW i
    PROVE  /\ c.op \in TokenOps => Mirror(e, c, i) = MirrorToken(e, c, i)
           /\ c.op \in OrgOps => Mirror(e, c, i) = MirrorOrg(e, c, i)
           /\ c.op \in TeamOps => Mirror(e, c, i) = MirrorTeam(e, c, i)
           /\ c.op \in RoleOps => Mirror(e, c, i) = MirrorRole(e, c, i)
           /\ c.op \in MPermOps => Mirror(e, c, i) = MirrorMPerm(e, c, i)
           /\ c.op \in MemberOps => Mirror(e, c, i) = MirrorMember(e, c, i)
BY DEF Mirror, TokenOps, OrgOps, TeamOps, RoleOps, MPermOps, MemberOps

\* The names, and the rows that are keys as a whole, are unique.
LEMMA UniqueRows ==
    ASSUME NEW s, NEW n, Good(s, n)
    PROVE  /\ \A x, y \in DOMAIN s.tokens : s.tokens[x].name = s.tokens[y].name => x = y
           /\ \A x, y \in DOMAIN s.teams : s.teams[x] = s.teams[y] => x = y
           /\ \A x, y \in DOMAIN s.members : s.members[x] = s.members[y] => x = y
           /\ \A x \in DOMAIN s.tokens : s.tokens[x].name \in DOMAIN s.tokensByName
           /\ \A x \in DOMAIN s.orgs : s.orgs[x].name \in DOMAIN s.orgsByName
           /\ \A x \in DOMAIN s.teams : <<s.teams[x].org, s.teams[x].name>> \in DOMAIN s.teamsByOrg
           /\ \A x \in DOMAIN s.members :
                    <<s.members[x].token, s.members[x].team>> \in DOMAIN s.byPair
<1>1. /\ Unique(s.tokensByName, TokenNames(s.tokens)) /\ Unique(s.orgsByName, OrgNames(s.orgs))
      /\ Unique(s.teamsByOrg, TeamKeys(s.teams)) /\ Unique(s.byPair, MemberKeys(s.members))
  BY DEF Good, TokensOK, OrgsOK, TeamsOK, MembersOK
<1>2. /\ \A x, y \in DOMAIN s.tokens : s.tokens[x].name = s.tokens[y].name => x = y
      /\ \A x \in DOMAIN s.tokens : s.tokens[x].name \in DOMAIN s.tokensByName
  <2> DEFINE f == TokenNames(s.tokens)
  <2>1. DOMAIN f = DOMAIN s.tokens /\ \A x \in DOMAIN s.tokens : f[x] = s.tokens[x].name
    BY DEF TokenNames
  <2>2. Unique(s.tokensByName, f)
    BY <1>1
  <2> HIDE DEF f
  <2>3. \A x \in DOMAIN f : f[x] \in DOMAIN s.tokensByName
    BY <2>2 DEF Unique
  <2>4. \A x, y \in DOMAIN f : f[x] = f[y] => x = y
    BY <2>2, UniqueKey
  <2> QED
    BY <2>1, <2>3, <2>4
<1>3. \A x \in DOMAIN s.orgs : s.orgs[x].name \in DOMAIN s.orgsByName
  <2> DEFINE f == OrgNames(s.orgs)
  <2>1. DOMAIN f = DOMAIN s.orgs /\ \A x \in DOMAIN s.orgs : f[x] = s.orgs[x].name
    BY DEF OrgNames
  <2>2. Unique(s.orgsByName, f)
    BY <1>1
  <2> HIDE DEF f
  <2>3. \A x \in DOMAIN f : f[x] \in DOMAIN s.orgsByName
    BY <2>2 DEF Unique
  <2>4. \A x, y \in DOMAIN f : f[x] = f[y] => x = y
    BY <2>2, UniqueKey
  <2> QED
    BY <2>1, <2>3, <2>4
<1>4. /\ \A x, y \in DOMAIN s.teams : s.teams[x] = s.teams[y] => x = y
      /\ \A x \in DOMAIN s.teams : <<s.teams[x].org, s.teams[x].name>> \in DOMAIN s.teamsByOrg
  <2> DEFINE f == TeamKeys(s.teams)
  <2>1. DOMAIN f = DOMAIN s.teams /\ \A x \in DOMAIN s.teams : f[x] = <<s.teams[x].org, s.teams[x].name>>
    BY DEF TeamKeys
  <2>2. Unique(s.teamsByOrg, f)
    BY <1>1
  <2> HIDE DEF f
  <2>3. \A x \in DOMAIN f : f[x] \in DOMAIN s.teamsByOrg
    BY <2>2 DEF Unique
  <2>4. \A x, y \in DOMAIN f : f[x] = f[y] => x = y
    BY <2>2, UniqueKey
  <2> QED
    BY <2>1, <2>3, <2>4
<1>5. /\ \A x, y \in DOMAIN s.members : s.members[x] = s.members[y] => x = y
      /\ \A x \in DOMAIN s.members : <<s.members[x].token, s.members[x].team>> \in DOMAIN s.byPair
  <2> DEFINE f == MemberKeys(s.members)
  <2>1. DOMAIN f = DOMAIN s.members /\ \A x \in DOMAIN s.members : f[x] = <<s.members[x].token, s.members[x].team>>
    BY DEF MemberKeys
  <2>2. Unique(s.byPair, f)
    BY <1>1
  <2> HIDE DEF f
  <2>3. \A x \in DOMAIN f : f[x] \in DOMAIN s.byPair
    BY <2>2 DEF Unique
  <2>4. \A x, y \in DOMAIN f : f[x] = f[y] => x = y
    BY <2>2, UniqueKey
  <2> QED
    BY <2>1, <2>3, <2>4
<1> QED
  BY <1>2, <1>3, <1>4, <1>5

\* If the mirror has the key of entry k + 1 under another id, that row comes
\* from a later state, in which the entry is gone.
LEMMA TokenGone ==
    ASSUME NEW past, NEW k, NEW r, Chain(past, k, r), k < r, k + 1 \in DOMAIN past[k + 1].tokens,
           NEW j \in k..r, NEW x \in DOMAIN past[j].tokens, x # k + 1,
           past[j].tokens[x].name = past[k + 1].tokens[k + 1].name,
           \A y \in DOMAIN past[k].tokens : past[k].tokens[y].name # past[k + 1].tokens[k + 1].name
    PROVE  k + 1 \notin DOMAIN past[r].tokens
<1> SUFFICES ASSUME k + 1 \in DOMAIN past[r].tokens PROVE FALSE
  OBVIOUS
<1>1. /\ k \in Nat /\ r \in Nat /\ j \in (k + 1)..r /\ k + 1 \in k..r /\ r \in (k + 1)..r
      /\ Good(past[j], j) /\ "tokens" \in Tables
  BY DEF Chain, Tables
<1>2. k + 1 \in DOMAIN past[j].tokens
  BY <1>1, ChainMiddle
<1>3. past[j].tokens[k + 1].name = past[k + 1].tokens[k + 1].name
  BY <1>1, <1>2, ChainKeys
<1> QED
  BY <1>1, <1>2, <1>3, UniqueRows

LEMMA RowGone ==
    ASSUME NEW past, NEW k, NEW r, Chain(past, k, r), k < r, NEW t \in {"teams", "members"},
           k + 1 \in DOMAIN past[k + 1][t],
           NEW j \in k..r, NEW x \in DOMAIN past[j][t], x # k + 1,
           past[j][t][x] = past[k + 1][t][k + 1],
           \A y \in DOMAIN past[k][t] : past[k][t][y] # past[k + 1][t][k + 1]
    PROVE  k + 1 \notin DOMAIN past[r][t]
<1> SUFFICES ASSUME k + 1 \in DOMAIN past[r][t] PROVE FALSE
  OBVIOUS
<1>1. /\ k \in Nat /\ r \in Nat /\ j \in (k + 1)..r /\ k + 1 \in k..r /\ r \in (k + 1)..r
      /\ Good(past[j], j) /\ t \in Tables
  BY DEF Chain, Tables
<1>2. k + 1 \in DOMAIN past[j][t]
  BY <1>1, ChainMiddle
<1>3. past[j][t][k + 1] = past[k + 1][t][k + 1]
  BY <1>1, <1>2, ChainKeys
<1> QED
  BY <1>1, <1>2, <1>3, UniqueRows

LEMMA CreateTokenMirrored ==
    ASSUME NEW past, NEW k, NEW r, Chain(past, k, r), k < r, NEW e, Between(e, past, k, r),
           NEW c, c.op = "CreateToken", Accepts(past[k], c), past[k + 1] = Effect(past[k], c, k + 1),
           NEW d, d = Mirror(e, c, k + 1)
    PROVE  Between(d, past, k + 1, r)
<1> DEFINE row == [name |-> c.name, cred |-> c.cred, on |-> TRUE]
<1>1. k \in Nat /\ Good(past[k], k) /\ k \in k..r /\ k + 1 \in k..r /\ "tokens" \in Tables
  BY DEF Chain, Tables
<1>2. /\ c.name \notin DOMAIN past[k].tokensByName /\ Rest(past[k], past[k + 1], {"tokens"})
      /\ past[k + 1].tokens = Put(past[k].tokens, k + 1, row)
  BY <1>1, CreateTokenRows
<1>3. d = IF k + 1 \in DOMAIN e.tokens \/ Taken(e.tokens, k + 1, c.name) THEN e
          ELSE [e EXCEPT !["tokens"] = Put(e.tokens, k + 1, row)]
  <2>1. d = MirrorToken(e, c, k + 1)
    BY MirrorByKind DEF TokenOps
  <2> QED
    BY <2>1 DEF MirrorToken
<1>4. TableBetween(e.tokens, "tokens", past, k, r)
  BY <1>1 DEF Between
<1>5. k + 1 \in DOMAIN past[k + 1].tokens /\ past[k + 1].tokens[k + 1].name = c.name
  BY <1>2, PutMap
<1>6. ASSUME k + 1 \notin DOMAIN e.tokens, Taken(e.tokens, k + 1, c.name)
      PROVE  k + 1 \notin DOMAIN past[r].tokens
  <2>1. PICK x \in DOMAIN e.tokens : x # k + 1 /\ e.tokens[x].name = c.name
    BY <1>6 DEF Taken
  <2>2. PICK j \in k..r : x \in DOMAIN past[j].tokens /\ past[j].tokens[x].name = c.name
    BY <1>1, <1>4, <2>1, FromKeys DEF TableBetween
  <2>3. \A y \in DOMAIN past[k].tokens : past[k].tokens[y].name # c.name
    BY <1>1, <1>2, UniqueRows
  <2> QED
    BY <1>5, <2>1, <2>2, <2>3, TokenGone
<1> HIDE DEF row
<1>7. CASE k + 1 \in DOMAIN e.tokens \/ Taken(e.tokens, k + 1, c.name)
  <2>1. TableBetween(e.tokens, "tokens", past, k + 1, r)
    BY <1>1, <1>2, <1>4, <1>6, <1>7, TablePuts
  <2> QED
    BY <1>1, <1>2, <1>3, <1>7, <2>1, OneTable
<1>8. CASE ~(k + 1 \in DOMAIN e.tokens \/ Taken(e.tokens, k + 1, c.name))
  <2> DEFINE g == Put(e.tokens, k + 1, row)
  <2>1. TableBetween(g, "tokens", past, k + 1, r)
    BY <1>1, <1>2, <1>4, TablePuts
  <2>2. d = [e EXCEPT !["tokens"] = g]
    BY <1>3, <1>8
  <2> HIDE DEF g
  <2> QED
    BY <1>1, <1>2, <2>1, <2>2, OneTable
<1> QED
  BY <1>7, <1>8

LEMMA CreateTeamMirrored ==
    ASSUME NEW past, NEW k, NEW r, Chain(past, k, r), k < r, NEW e, Between(e, past, k, r),
           NEW c, c.op = "CreateTeam", Accepts(past[k], c), past[k + 1] = Effect(past[k], c, k + 1),
           NEW d, d = Mirror(e, c, k + 1)
    PROVE  Between(d, past, k + 1, r)
<1> DEFINE row == [org |-> c.org, name |-> c.name]
           no == c.org \notin DOMAIN e.orgs \/ row \in Range(e.teams)
<1>1. /\ k \in Nat /\ r \in Nat /\ Good(past[k], k) /\ k \in k..r /\ k + 1 \in k..r /\ r \in k..r
      /\ {"tokens", "orgs", "teams", "roles", "mperms", "members"} = Tables /\ Linked(past[r])
  BY DEF Chain, Good, Tables
<1>2. /\ c.org \in DOMAIN past[k].orgs
      /\ <<c.org, c.name>> \notin DOMAIN past[k].teamsByOrg
      /\ Rest(past[k], past[k + 1], {"teams"})
      /\ past[k + 1].teams = Put(past[k].teams, k + 1, row)
  BY <1>1, CreateTeamRows
<1>3. d = IF k + 1 \in DOMAIN e.teams \/ no THEN e ELSE [e EXCEPT !["teams"] = Put(e.teams, k + 1, row)]
  <2>1. d = MirrorTeam(e, c, k + 1)
    BY MirrorByKind DEF TeamOps
  <2> QED
    BY <2>1 DEF MirrorTeam
<1>4. TableBetween(e.teams, "teams", past, k, r)
  BY <1>1 DEF Between
<1>5. k + 1 \in DOMAIN past[k + 1].teams /\ past[k + 1].teams[k + 1] = row
  BY <1>2, PutMap
<1>6. ASSUME k + 1 \notin DOMAIN e.teams, no PROVE k + 1 \notin DOMAIN past[r].teams
  <2> SUFFICES ASSUME k + 1 \in DOMAIN past[r].teams PROVE FALSE
    OBVIOUS
  <2>1. past[r].teams[k + 1].org = c.org
    BY <1>1, <1>5, ChainKeys
  <2>2. c.org \in DOMAIN past[r].orgs
    BY <1>1, <2>1 DEF Linked
  <2>3. c.org \in DOMAIN e.orgs
    BY <1>1, <1>2, <2>2 DEF Between, TableBetween
  <2>4. PICK x \in DOMAIN e.teams : e.teams[x] = row
    BY <1>6, <2>3 DEF Range
  <2>5. PICK j \in k..r : x \in DOMAIN past[j].teams /\ past[j].teams[x] = row
    BY <1>1, <1>4, <2>4, FromKeys DEF TableBetween
  <2>6. \A y \in DOMAIN past[k].teams : past[k].teams[y] # row
    BY <1>1, <1>2, UniqueRows
  <2> HIDE DEF row
  <2> QED
    BY <1>5, <1>6, <2>4, <2>5, <2>6, RowGone
<1> HIDE DEF row, no
<1>7. CASE k + 1 \in DOMAIN e.teams \/ no
  <2>1. TableBetween(e.teams, "teams", past, k + 1, r)
    BY <1>1, <1>2, <1>4, <1>6, <1>7, TablePuts
  <2> QED
    BY <1>1, <1>2, <1>3, <1>7, <2>1, OneTable
<1>8. CASE ~(k + 1 \in DOMAIN e.teams \/ no)
  <2> DEFINE g == Put(e.teams, k + 1, row)
  <2>1. TableBetween(g, "teams", past, k + 1, r)
    BY <1>1, <1>2, <1>4, TablePuts
  <2>2. d = [e EXCEPT !["teams"] = g]
    BY <1>3, <1>8
  <2> HIDE DEF g
  <2> QED
    BY <1>1, <1>2, <2>1, <2>2, OneTable
<1> QED
  BY <1>7, <1>8

LEMMA CreateRoleMirrored ==
    ASSUME NEW past, NEW k, NEW r, Chain(past, k, r), k < r, NEW e, Between(e, past, k, r),
           NEW c, c.op = "CreateRole", Accepts(past[k], c), past[k + 1] = Effect(past[k], c, k + 1),
           NEW d, d = Mirror(e, c, k + 1)
    PROVE  Between(d, past, k + 1, r)
<1> DEFINE row == [team |-> c.team, pat |-> c.pat]
           no == c.team \notin DOMAIN e.teams
<1>1. /\ k \in Nat /\ r \in Nat /\ Good(past[k], k) /\ k \in k..r /\ k + 1 \in k..r /\ r \in k..r
      /\ {"tokens", "orgs", "teams", "roles", "mperms", "members"} = Tables /\ Linked(past[r])
  BY DEF Chain, Good, Tables
<1>2. /\ c.team \in DOMAIN past[k].teams
      /\ Rest(past[k], past[k + 1], {"roles"})
      /\ past[k + 1].roles = Put(past[k].roles, k + 1, row)
  BY <1>1, CreateRoleRows
<1>3. d = IF k + 1 \in DOMAIN e.roles \/ no THEN e ELSE [e EXCEPT !["roles"] = Put(e.roles, k + 1, row)]
  <2>1. d = MirrorRole(e, c, k + 1)
    BY MirrorByKind DEF RoleOps
  <2> QED
    BY <2>1 DEF MirrorRole
<1>4. TableBetween(e.roles, "roles", past, k, r)
  BY <1>1 DEF Between
<1>5. k + 1 \in DOMAIN past[k + 1].roles /\ past[k + 1].roles[k + 1] = row
  BY <1>2, PutMap
<1>6. ASSUME k + 1 \notin DOMAIN e.roles, no PROVE k + 1 \notin DOMAIN past[r].roles
  <2> SUFFICES ASSUME k + 1 \in DOMAIN past[r].roles PROVE FALSE
    OBVIOUS
  <2>1. past[r].roles[k + 1].team = c.team
    BY <1>1, <1>5, ChainKeys
  <2>2. c.team \in DOMAIN past[r].teams
    BY <1>1, <2>1 DEF Linked
  <2>3. c.team \in DOMAIN e.teams
    BY <1>1, <1>2, <2>2 DEF Between, TableBetween
  <2> QED
    BY <1>6, <2>3
<1> HIDE DEF row, no
<1>7. CASE k + 1 \in DOMAIN e.roles \/ no
  <2>1. TableBetween(e.roles, "roles", past, k + 1, r)
    BY <1>1, <1>2, <1>4, <1>6, <1>7, TablePuts
  <2> QED
    BY <1>1, <1>2, <1>3, <1>7, <2>1, OneTable
<1>8. CASE ~(k + 1 \in DOMAIN e.roles \/ no)
  <2> DEFINE g == Put(e.roles, k + 1, row)
  <2>1. TableBetween(g, "roles", past, k + 1, r)
    BY <1>1, <1>2, <1>4, TablePuts
  <2>2. d = [e EXCEPT !["roles"] = g]
    BY <1>3, <1>8
  <2> HIDE DEF g
  <2> QED
    BY <1>1, <1>2, <2>1, <2>2, OneTable
<1> QED
  BY <1>7, <1>8

LEMMA CreateMPermMirrored ==
    ASSUME NEW past, NEW k, NEW r, Chain(past, k, r), k < r, NEW e, Between(e, past, k, r),
           NEW c, c.op = "CreateMPerm", Accepts(past[k], c), past[k + 1] = Effect(past[k], c, k + 1),
           NEW d, d = Mirror(e, c, k + 1)
    PROVE  Between(d, past, k + 1, r)
<1> DEFINE row == [role |-> c.role]
           no == c.role \notin DOMAIN e.roles
<1>1. /\ k \in Nat /\ r \in Nat /\ Good(past[k], k) /\ k \in k..r /\ k + 1 \in k..r /\ r \in k..r
      /\ {"tokens", "orgs", "teams", "roles", "mperms", "members"} = Tables /\ Linked(past[r])
  BY DEF Chain, Good, Tables
<1>2. /\ c.role \in DOMAIN past[k].roles
      /\ Rest(past[k], past[k + 1], {"mperms"})
      /\ past[k + 1].mperms = Put(past[k].mperms, k + 1, row)
  BY <1>1, CreateMPermRows
<1>3. d = IF k + 1 \in DOMAIN e.mperms \/ no THEN e ELSE [e EXCEPT !["mperms"] = Put(e.mperms, k + 1, row)]
  <2>1. d = MirrorMPerm(e, c, k + 1)
    BY MirrorByKind DEF MPermOps
  <2> QED
    BY <2>1 DEF MirrorMPerm
<1>4. TableBetween(e.mperms, "mperms", past, k, r)
  BY <1>1 DEF Between
<1>5. k + 1 \in DOMAIN past[k + 1].mperms /\ past[k + 1].mperms[k + 1] = row
  BY <1>2, PutMap
<1>6. ASSUME k + 1 \notin DOMAIN e.mperms, no PROVE k + 1 \notin DOMAIN past[r].mperms
  <2> SUFFICES ASSUME k + 1 \in DOMAIN past[r].mperms PROVE FALSE
    OBVIOUS
  <2>1. past[r].mperms[k + 1].role = c.role
    BY <1>1, <1>5, ChainKeys
  <2>2. c.role \in DOMAIN past[r].roles
    BY <1>1, <2>1 DEF Linked
  <2>3. c.role \in DOMAIN e.roles
    BY <1>1, <1>2, <2>2 DEF Between, TableBetween
  <2> QED
    BY <1>6, <2>3
<1> HIDE DEF row, no
<1>7. CASE k + 1 \in DOMAIN e.mperms \/ no
  <2>1. TableBetween(e.mperms, "mperms", past, k + 1, r)
    BY <1>1, <1>2, <1>4, <1>6, <1>7, TablePuts
  <2> QED
    BY <1>1, <1>2, <1>3, <1>7, <2>1, OneTable
<1>8. CASE ~(k + 1 \in DOMAIN e.mperms \/ no)
  <2> DEFINE g == Put(e.mperms, k + 1, row)
  <2>1. TableBetween(g, "mperms", past, k + 1, r)
    BY <1>1, <1>2, <1>4, TablePuts
  <2>2. d = [e EXCEPT !["mperms"] = g]
    BY <1>3, <1>8
  <2> HIDE DEF g
  <2> QED
    BY <1>1, <1>2, <2>1, <2>2, OneTable
<1> QED
  BY <1>7, <1>8

LEMMA AddMemberMirrored ==
    ASSUME NEW past, NEW k, NEW r, Chain(past, k, r), k < r, NEW e, Between(e, past, k, r),
           NEW c, c.op = "AddMember", Accepts(past[k], c), past[k + 1] = Effect(past[k], c, k + 1),
           NEW d, d = Mirror(e, c, k + 1)
    PROVE  Between(d, past, k + 1, r)
<1> DEFINE row == [token |-> c.token, team |-> c.team]
           no == c.token \notin DOMAIN e.tokens \/ c.team \notin DOMAIN e.teams \/ row \in Range(e.members)
<1>1. /\ k \in Nat /\ r \in Nat /\ Good(past[k], k) /\ k \in k..r /\ k + 1 \in k..r /\ r \in k..r
      /\ {"tokens", "orgs", "teams", "roles", "mperms", "members"} = Tables /\ Linked(past[r])
  BY DEF Chain, Good, Tables
<1>2. /\ c.token \in DOMAIN past[k].tokens
      /\ c.team \in DOMAIN past[k].teams
      /\ <<c.token, c.team>> \notin DOMAIN past[k].byPair
      /\ Rest(past[k], past[k + 1], {"members"})
      /\ past[k + 1].members = Put(past[k].members, k + 1, row)
  <2> DEFINE s == past[k]
             q == past[k + 1]
  <2>1. Good(s, k) /\ Accepts(s, c) /\ q = Effect(s, c, k + 1)
    BY <1>1
  <2> HIDE DEF s, q
  <2>2. /\ c.token \in DOMAIN s.tokens /\ c.team \in DOMAIN s.teams
        /\ <<c.token, c.team>> \notin DOMAIN s.byPair
    BY <1>1, <2>1, AddMemberRows
  <2>3. Rest(s, q, {"members"}) /\ q.members = Put(s.members, k + 1, row)
    BY <1>1, <2>1, AddMemberRows
  <2> QED
    BY <2>2, <2>3 DEF s, q
<1>3. d = IF k + 1 \in DOMAIN e.members \/ no THEN e ELSE [e EXCEPT !["members"] = Put(e.members, k + 1, row)]
  <2>1. d = MirrorMember(e, c, k + 1)
    BY MirrorByKind DEF MemberOps
  <2> QED
    BY <2>1 DEF MirrorMember
<1>4. TableBetween(e.members, "members", past, k, r)
  BY <1>1 DEF Between
<1>5. k + 1 \in DOMAIN past[k + 1].members /\ past[k + 1].members[k + 1] = row
  BY <1>2, PutMap
<1>6. ASSUME k + 1 \notin DOMAIN e.members, no PROVE k + 1 \notin DOMAIN past[r].members
  <2> SUFFICES ASSUME k + 1 \in DOMAIN past[r].members PROVE FALSE
    OBVIOUS
  <2>1. /\ past[r].members[k + 1].token = c.token
        /\ past[r].members[k + 1].team = c.team
    BY <1>1, <1>5, ChainKeys
  <2>2. /\ c.token \in DOMAIN past[r].tokens
        /\ c.team \in DOMAIN past[r].teams
    BY <1>1, <2>1 DEF Linked
  <2>3. /\ c.token \in DOMAIN e.tokens
        /\ c.team \in DOMAIN e.teams
    BY <1>1, <1>2, <2>2 DEF Between, TableBetween
  <2>4. PICK x \in DOMAIN e.members : e.members[x] = row
    BY <1>6, <2>3 DEF Range
  <2>5. PICK j \in k..r : x \in DOMAIN past[j].members /\ past[j].members[x] = row
    BY <1>1, <1>4, <2>4, FromKeys DEF TableBetween
  <2>6. \A y \in DOMAIN past[k].members : past[k].members[y] # row
    BY <1>1, <1>2, UniqueRows
  <2> HIDE DEF row
  <2> QED
    BY <1>5, <1>6, <2>4, <2>5, <2>6, RowGone
<1> HIDE DEF row, no
<1>7. CASE k + 1 \in DOMAIN e.members \/ no
  <2>1. TableBetween(e.members, "members", past, k + 1, r)
    BY <1>1, <1>2, <1>4, <1>6, <1>7, TablePuts
  <2> QED
    BY <1>1, <1>2, <1>3, <1>7, <2>1, OneTable
<1>8. CASE ~(k + 1 \in DOMAIN e.members \/ no)
  <2> DEFINE g == Put(e.members, k + 1, row)
  <2>1. TableBetween(g, "members", past, k + 1, r)
    BY <1>1, <1>2, <1>4, TablePuts
  <2>2. d = [e EXCEPT !["members"] = g]
    BY <1>3, <1>8
  <2> HIDE DEF g
  <2> QED
    BY <1>1, <1>2, <2>1, <2>2, OneTable
<1> QED
  BY <1>7, <1>8

LEMMA RevokeTokenMirrored ==
    ASSUME NEW past, NEW k, NEW r, Chain(past, k, r), k < r, NEW e, Between(e, past, k, r),
           NEW c, c.op = "RevokeToken", Accepts(past[k], c), past[k + 1] = Effect(past[k], c, k + 1),
           NEW d, d = Mirror(e, c, k + 1)
    PROVE  Between(d, past, k + 1, r)
<1> DEFINE old == past[k].tokens[c.id]
           new == [name |-> old.name, cred |-> old.cred, on |-> FALSE]
<1>1. /\ k \in Nat /\ r \in Nat /\ Good(past[k], k) /\ k \in k..r /\ k + 1 \in (k + 1)..r
      /\ "tokens" \in Tables
  BY DEF Chain, Tables
<1>2. /\ c.id \in DOMAIN past[k].tokens /\ Rest(past[k], past[k + 1], {"tokens"})
      /\ past[k + 1].tokens = [past[k].tokens EXCEPT ![c.id] = new]
  <2>1. /\ c.id \in DOMAIN past[k].tokens /\ Rest(past[k], past[k + 1], {"tokens"})
        /\ past[k + 1].tokens = [past[k].tokens EXCEPT ![c.id] = [old EXCEPT !.on = FALSE]]
    BY <1>1, RevokeTokenRows
  <2>2. old = [name |-> old.name, cred |-> old.cred, on |-> old.on]
    BY <1>1, <2>1, RowShape
  <2> HIDE DEF old
  <2>3. [old EXCEPT !.on = FALSE] = new
    BY <2>2, TokenRow
  <2> QED
    BY <2>1, <2>3
<1>3. d = IF c.id \notin DOMAIN e.tokens THEN e
          ELSE [e EXCEPT !["tokens"] = [e.tokens EXCEPT ![c.id] = [e.tokens[c.id] EXCEPT !.on = FALSE]]]
  <2>1. d = MirrorToken(e, c, k + 1)
    BY MirrorByKind DEF TokenOps
  <2> QED
    BY <2>1 DEF MirrorToken
<1>4. TableBetween(e.tokens, "tokens", past, k, r)
  BY <1>1 DEF Between
<1>5. c.id \in DOMAIN past[k + 1].tokens /\ past[k + 1].tokens[c.id] = new
  BY <1>2
<1>6. CASE c.id \notin DOMAIN e.tokens
  <2>1. TableBetween(e.tokens, "tokens", past, k + 1, r)
    <3> HIDE DEF new
    <3> QED
      BY <1>1, <1>2, <1>4, <1>6, TableRewrites
  <2> QED
    BY <1>1, <1>2, <1>3, <1>6, <2>1, OneTable
<1>7. CASE c.id \in DOMAIN e.tokens
  <2> DEFINE row == e.tokens[c.id]
             v == [name |-> row.name, cred |-> row.cred, on |-> FALSE]
             g == [e.tokens EXCEPT ![c.id] = v]
  <2>1. PICK i \in k..r, j \in k..r :
            /\ c.id \in DOMAIN past[i].tokens /\ c.id \in DOMAIN past[j].tokens
            /\ row = [name |-> past[i].tokens[c.id].name, cred |-> past[i].tokens[c.id].cred,
                      on |-> past[j].tokens[c.id].on]
    BY <1>4, <1>7 DEF TableBetween, FromPast
  <2>2. row = [name |-> row.name, cred |-> row.cred, on |-> row.on] /\ row.name = old.name
    <3>1. FromPast("tokens", c.id, row, past, k, r)
      BY <1>4, <1>7 DEF TableBetween
    <3>2. row.name = old.name
      BY <1>1, <1>2, <3>1, KeysAt
    <3> QED
      BY <2>1, <3>2
  <2>3. [row EXCEPT !.on = FALSE] = v
    <3> HIDE DEF row
    <3> QED
      BY <2>2, TokenRow
  <2>4. PICK a \in (k + 1)..r : /\ c.id \in DOMAIN past[a].tokens
                               /\ past[a].tokens[c.id].name = row.name
                               /\ past[a].tokens[c.id].cred = row.cred
    <3>1. CASE i = k
      <4>1. past[k + 1].tokens[c.id].name = row.name /\ past[k + 1].tokens[c.id].cred = row.cred
        BY <1>5, <2>1, <3>1
      <4> QED
        BY <1>1, <1>5, <4>1
    <3>2. CASE i # k
      <4>1. i \in (k + 1)..r
        BY <1>1, <3>2
      <4> QED
        BY <2>1, <4>1
    <3> QED
      BY <3>1, <3>2
  <2>5. v = [name |-> past[a].tokens[c.id].name, cred |-> past[a].tokens[c.id].cred,
             on |-> past[k + 1].tokens[c.id].on]
    <3>1. past[k + 1].tokens[c.id].on = FALSE
      BY <1>5
    <3> QED
      BY <2>4, <3>1
  <2> HIDE DEF v
  <2>6. FromPast("tokens", c.id, v, past, k + 1, r)
    BY <1>1, <1>5, <2>4, <2>5 DEF FromPast
  <2>7. TableBetween(g, "tokens", past, k + 1, r)
    <3> HIDE DEF new
    <3> QED
      BY <1>1, <1>2, <1>4, <2>6, TableRewrites, ZenonT(30)
  <2>8. d = [e EXCEPT !["tokens"] = g]
    BY <1>3, <1>7, <2>3
  <2> HIDE DEF g
  <2> QED
    BY <1>1, <1>2, <2>7, <2>8, OneTable, ZenonT(30)
<1> QED
  BY <1>6, <1>7

LEMMA RotateTokenMirrored ==
    ASSUME NEW past, NEW k, NEW r, Chain(past, k, r), k < r, NEW e, Between(e, past, k, r),
           NEW c, c.op = "RotateToken", Accepts(past[k], c), past[k + 1] = Effect(past[k], c, k + 1),
           NEW d, d = Mirror(e, c, k + 1)
    PROVE  Between(d, past, k + 1, r)
<1> DEFINE old == past[k].tokens[c.id]
           new == [name |-> old.name, cred |-> c.cred, on |-> old.on]
<1>1. /\ k \in Nat /\ r \in Nat /\ Good(past[k], k) /\ k \in k..r /\ k + 1 \in (k + 1)..r
      /\ "tokens" \in Tables
  BY DEF Chain, Tables
<1>2. /\ c.id \in DOMAIN past[k].tokens /\ Rest(past[k], past[k + 1], {"tokens"})
      /\ past[k + 1].tokens = [past[k].tokens EXCEPT ![c.id] = new]
  <2>1. /\ c.id \in DOMAIN past[k].tokens /\ Rest(past[k], past[k + 1], {"tokens"})
        /\ past[k + 1].tokens = [past[k].tokens EXCEPT ![c.id] = [old EXCEPT !.cred = c.cred]]
    BY <1>1, RotateTokenRows
  <2>2. old = [name |-> old.name, cred |-> old.cred, on |-> old.on]
    BY <1>1, <2>1, RowShape
  <2> HIDE DEF old
  <2>3. [old EXCEPT !.cred = c.cred] = new
    BY <2>2, TokenRow
  <2> QED
    BY <2>1, <2>3
<1>3. d = IF c.id \notin DOMAIN e.tokens THEN e
          ELSE [e EXCEPT !["tokens"] = [e.tokens EXCEPT ![c.id] = [e.tokens[c.id] EXCEPT !.cred = c.cred]]]
  <2>1. d = MirrorToken(e, c, k + 1)
    BY MirrorByKind DEF TokenOps
  <2>2. c.id \in DOMAIN e.tokens => d = [e EXCEPT !.tokens[c.id].cred = c.cred]
    BY <2>1 DEF MirrorToken
  <2>3. c.id \notin DOMAIN e.tokens => d = e
    BY <2>1 DEF MirrorToken
  <2> QED
    BY <2>2, <2>3
<1>4. TableBetween(e.tokens, "tokens", past, k, r)
  BY <1>1 DEF Between
<1>5. c.id \in DOMAIN past[k + 1].tokens /\ past[k + 1].tokens[c.id] = new
  BY <1>2
<1>6. CASE c.id \notin DOMAIN e.tokens
  <2>1. TableBetween(e.tokens, "tokens", past, k + 1, r)
    <3> HIDE DEF new
    <3> QED
      BY <1>1, <1>2, <1>4, <1>6, TableRewrites
  <2> QED
    BY <1>1, <1>2, <1>3, <1>6, <2>1, OneTable
<1>7. CASE c.id \in DOMAIN e.tokens
  <2> DEFINE row == e.tokens[c.id]
             v == [name |-> row.name, cred |-> c.cred, on |-> row.on]
             g == [e.tokens EXCEPT ![c.id] = v]
  <2>1. PICK i \in k..r, j \in k..r :
            /\ c.id \in DOMAIN past[i].tokens /\ c.id \in DOMAIN past[j].tokens
            /\ row = [name |-> past[i].tokens[c.id].name, cred |-> past[i].tokens[c.id].cred,
                      on |-> past[j].tokens[c.id].on]
    BY <1>4, <1>7 DEF TableBetween, FromPast
  <2>2. row = [name |-> row.name, cred |-> row.cred, on |-> row.on] /\ row.name = old.name
    <3>1. FromPast("tokens", c.id, row, past, k, r)
      BY <1>4, <1>7 DEF TableBetween
    <3>2. row.name = old.name
      BY <1>1, <1>2, <3>1, KeysAt
    <3> QED
      BY <2>1, <3>2
  <2>3. [row EXCEPT !.cred = c.cred] = v
    <3> HIDE DEF row
    <3> QED
      BY <2>2, TokenRow
  <2>4. PICK a \in (k + 1)..r : c.id \in DOMAIN past[a].tokens /\ past[a].tokens[c.id].on = row.on
    <3>1. CASE j = k
      <4>1. past[k + 1].tokens[c.id].on = row.on
        BY <1>5, <2>1, <3>1
      <4> QED
        BY <1>1, <1>5, <4>1
    <3>2. CASE j # k
      <4>1. j \in (k + 1)..r
        BY <1>1, <3>2
      <4> QED
        BY <2>1, <4>1
    <3> QED
      BY <3>1, <3>2
  <2>5. v = [name |-> past[k + 1].tokens[c.id].name, cred |-> past[k + 1].tokens[c.id].cred,
             on |-> past[a].tokens[c.id].on]
    BY <1>5, <2>2, <2>4
  <2> HIDE DEF v
  <2>6. FromPast("tokens", c.id, v, past, k + 1, r)
    BY <1>1, <1>5, <2>4, <2>5 DEF FromPast
  <2>7. TableBetween(g, "tokens", past, k + 1, r)
    <3> HIDE DEF new
    <3> QED
      BY <1>1, <1>2, <1>4, <2>6, TableRewrites, ZenonT(30)
  <2>8. d = [e EXCEPT !["tokens"] = g]
    BY <1>3, <1>7, <2>3
  <2> HIDE DEF g
  <2> QED
    BY <1>1, <1>2, <2>7, <2>8, OneTable, SMTT(30)
<1> QED
  BY <1>6, <1>7

LEMMA UpdateRoleMirrored ==
    ASSUME NEW past, NEW k, NEW r, Chain(past, k, r), k < r, NEW e, Between(e, past, k, r),
           NEW c, c.op = "UpdateRole", Accepts(past[k], c), past[k + 1] = Effect(past[k], c, k + 1),
           NEW d, d = Mirror(e, c, k + 1)
    PROVE  Between(d, past, k + 1, r)
<1> DEFINE old == past[k].roles[c.id]
           new == [team |-> old.team, pat |-> c.pat]
<1>1. /\ k \in Nat /\ r \in Nat /\ Good(past[k], k) /\ k \in k..r /\ k + 1 \in (k + 1)..r
      /\ "roles" \in Tables /\ Chain(past, k + 1, r)
  BY ChainPart DEF Chain, Tables
<1>2. /\ c.id \in DOMAIN past[k].roles /\ Rest(past[k], past[k + 1], {"roles"})
      /\ past[k + 1].roles = [past[k].roles EXCEPT ![c.id] = new]
  <2>1. /\ c.id \in DOMAIN past[k].roles /\ Rest(past[k], past[k + 1], {"roles"})
        /\ past[k + 1].roles = [past[k].roles EXCEPT ![c.id] = [old EXCEPT !.pat = c.pat]]
    BY <1>1, UpdateRoleRows
  <2>2. old = [team |-> old.team, pat |-> old.pat]
    BY <1>1, <2>1 DEF Good, RolesOK
  <2>3. [old EXCEPT !.pat = c.pat] = new
    BY <2>2
  <2> QED
    BY <2>1, <2>3
<1>3. d = IF c.id \notin DOMAIN e.roles THEN e
          ELSE [e EXCEPT !["roles"] = [e.roles EXCEPT ![c.id] = [e.roles[c.id] EXCEPT !.pat = c.pat]]]
  <2>1. d = MirrorRole(e, c, k + 1)
    BY MirrorByKind DEF RoleOps
  <2> QED
    BY <2>1 DEF MirrorRole
<1>4. TableBetween(e.roles, "roles", past, k, r)
  BY <1>1 DEF Between
<1>5. FromPast("roles", c.id, new, past, k + 1, r)
  <2>1. c.id \in DOMAIN past[k + 1].roles /\ past[k + 1].roles[c.id] = new
    BY <1>2
  <2> HIDE DEF new
  <2> QED
    BY <1>1, <2>1, FromRow
<1>6. c.id \in DOMAIN e.roles => [e.roles[c.id] EXCEPT !.pat = c.pat] = new
  <2> SUFFICES ASSUME c.id \in DOMAIN e.roles PROVE [e.roles[c.id] EXCEPT !.pat = c.pat] = new
    OBVIOUS
  <2> DEFINE row == e.roles[c.id]
  <2>1. FromPast("roles", c.id, row, past, k, r)
    BY <1>4 DEF TableBetween
  <2>2. row.team = old.team
    BY <1>1, <1>2, <2>1, KeysAt
  <2>3. PICK i \in k..r : c.id \in DOMAIN past[i].roles /\ row = past[i].roles[c.id]
    BY <2>1 DEF FromPast
  <2>4. row = [team |-> row.team, pat |-> row.pat]
    BY <2>3 DEF Chain, Good, RolesOK
  <2> HIDE DEF row
  <2>5. [row EXCEPT !.pat = c.pat] = [team |-> row.team, pat |-> c.pat]
    BY <2>4
  <2> QED
    BY <2>2, <2>5 DEF row
<1> HIDE DEF new, old
<1>7. CASE c.id \notin DOMAIN e.roles
  <2>1. TableBetween(e.roles, "roles", past, k + 1, r)
    BY <1>1, <1>2, <1>4, <1>7, TableRewrites
  <2> QED
    BY <1>1, <1>2, <1>3, <1>7, <2>1, OneTable
<1>8. CASE c.id \in DOMAIN e.roles
  <2> DEFINE g == [e.roles EXCEPT ![c.id] = new]
  <2>1. TableBetween(g, "roles", past, k + 1, r)
    BY <1>1, <1>2, <1>4, <1>5, TableRewrites
  <2>2. d = [e EXCEPT !["roles"] = g]
    BY <1>3, <1>6, <1>8
  <2> HIDE DEF g
  <2> QED
    BY <1>1, <1>2, <2>1, <2>2, OneTable
<1> QED
  BY <1>7, <1>8

LEMMA DeleteMPermMirrored ==
    ASSUME NEW past, NEW k, NEW r, Chain(past, k, r), k < r, NEW e, Between(e, past, k, r),
           NEW c, c.op = "DeleteMPerm", Accepts(past[k], c), past[k + 1] = Effect(past[k], c, k + 1),
           NEW d, d = Mirror(e, c, k + 1)
    PROVE  Between(d, past, k + 1, r)
<1> DEFINE g == Drop(e.mperms, {c.id})
<1>1. k \in Nat /\ Good(past[k], k) /\ "mperms" \in Tables
  BY DEF Chain, Tables
<1>2. /\ Rest(past[k], past[k + 1], {"mperms"})
      /\ past[k + 1].mperms = Drop(past[k].mperms, {c.id})
  <2> DEFINE s == past[k]
             q == past[k + 1]
  <2>1. Good(s, k) /\ Accepts(s, c) /\ q = Effect(s, c, k + 1)
    BY <1>1
  <2> HIDE DEF s, q
  <2>2. Rest(s, q, {"mperms"}) /\ q.mperms = Drop(s.mperms, {c.id})
    BY <1>1, <2>1, DeleteMPermRows
  <2> QED
    BY <2>2 DEF s, q
<1>3. d = [e EXCEPT !["mperms"] = g]
  <2>1. d = MirrorMPerm(e, c, k + 1)
    BY MirrorByKind DEF MPermOps
  <2> QED
    BY <2>1 DEF MirrorMPerm
<1>4. TableBetween(e.mperms, "mperms", past, k, r)
  BY <1>1 DEF Between
<1>5. /\ IsMap(g) /\ (\A x \in DOMAIN g : x \in DOMAIN e.mperms /\ g[x] = e.mperms[x])
      /\ \A x \in DOMAIN past[k].mperms : x \in {c.id} => x \notin DOMAIN g
      /\ \A x \in DOMAIN past[k + 1].mperms : x \in DOMAIN e.mperms => x \in DOMAIN g
  BY <1>2, DropMap
<1> HIDE DEF g
<1>6. TableBetween(g, "mperms", past, k + 1, r)
  BY <1>1, <1>2, <1>4, <1>5, TableDrops
<1> QED
  BY <1>1, <1>2, <1>3, <1>6, OneTable

LEMMA RemoveMemberMirrored ==
    ASSUME NEW past, NEW k, NEW r, Chain(past, k, r), k < r, NEW e, Between(e, past, k, r),
           NEW c, c.op = "RemoveMember", Accepts(past[k], c), past[k + 1] = Effect(past[k], c, k + 1),
           NEW d, d = Mirror(e, c, k + 1)
    PROVE  Between(d, past, k + 1, r)
<1> DEFINE row == [token |-> c.token, team |-> c.team]
           f == e.members
           T == {m \in DOMAIN f : f[m] # row}
           g == Restrict(f, T)
           old == past[k].byPair[<<c.token, c.team>>]
<1>1. k \in Nat /\ r \in Nat /\ Good(past[k], k) /\ k \in k..r /\ k + 1 \in k..r /\ "members" \in Tables
  BY DEF Chain, Tables
<1>2. /\ Rest(past[k], past[k + 1], {"members"}) /\ old \in DOMAIN past[k].members
      /\ past[k + 1].members = Drop(past[k].members, {old})
      /\ <<c.token, c.team>> \in DOMAIN past[k].byPair
  <2> DEFINE s == past[k]
             q == past[k + 1]
             old2 == s.byPair[<<c.token, c.team>>]
  <2>1. Good(s, k) /\ Accepts(s, c) /\ q = Effect(s, c, k + 1)
    BY <1>1
  <2> HIDE DEF s, q
  <2>2. <<c.token, c.team>> \in DOMAIN s.byPair /\ old2 \in DOMAIN s.members
    BY <1>1, <2>1, RemoveMemberRows
  <2>3. Rest(s, q, {"members"}) /\ q.members = Drop(s.members, {old2})
    BY <1>1, <2>1, RemoveMemberRows
  <2> QED
    BY <2>2, <2>3 DEF s, q
<1>3. d = [e EXCEPT !["members"] = g]
  <2>1. d = MirrorMember(e, c, k + 1)
    BY MirrorByKind DEF MemberOps
  <2> QED
    BY <2>1 DEF MirrorMember
<1>4. TableBetween(f, "members", past, k, r)
  BY <1>1 DEF Between
<1>5. past[k].members[old] = row
  <2>1. Unique(past[k].byPair, MemberKeys(past[k].members))
    BY <1>1, SMTT(30) DEF Good, MembersOK
  <2>2. <<past[k].members[old].token, past[k].members[old].team>> = <<c.token, c.team>>
    BY <1>2, <2>1 DEF Unique, MemberKeys
  <2>3. past[k].members[old] = [token |-> past[k].members[old].token, team |-> past[k].members[old].team]
    BY <1>1, <1>2 DEF Good, MembersOK
  <2> QED
    BY <2>2, <2>3
<1>6. \A x \in DOMAIN f : x \in DOMAIN past[k].members => f[x] = past[k].members[x]
  BY <1>1, <1>4, KeysAt DEF TableBetween
<1>7. \A x \in DOMAIN past[k].members : past[k].members[x] = row => x = old
  BY <1>1, <1>2, <1>5, UniqueRows
<1>8. /\ IsMap(g) /\ \A x : x \in DOMAIN g <=> x \in DOMAIN f /\ f[x] # row
      /\ \A x \in DOMAIN g : g[x] = f[x]
  BY RestrictRows
<1>9. \A x : x \in DOMAIN past[k + 1].members <=> x \in DOMAIN past[k].members /\ x # old
  BY <1>2, DropMap
<1> HIDE DEF g, f, old, row
<1>10. /\ \A x \in DOMAIN g : x \in DOMAIN f /\ g[x] = f[x]
       /\ \A x \in DOMAIN past[k].members : x \in {old} => x \notin DOMAIN g
       /\ \A x \in DOMAIN past[k + 1].members : x \in DOMAIN f => x \in DOMAIN g
  BY <1>5, <1>6, <1>7, <1>8, <1>9
<1>11. TableBetween(g, "members", past, k + 1, r)
  BY <1>1, <1>2, <1>4, <1>8, <1>10, TableDrops
<1> QED
  BY <1>1, <1>2, <1>3, <1>11, OneTable

\* The mirror without the row that the entry deletes.
Shrinks(p, q) == \A u \in Tables : \A x \in DOMAIN q[u] : x \in DOMAIN p[u]
Without(e, f, t, id) ==
    /\ Whole(f) /\ IsMap(f[t]) /\ \A u \in Tables : u # t => f[u] = e[u]
    /\ \A x : x \in DOMAIN f[t] <=> x \in DOMAIN e[t] /\ x # id
    /\ \A x \in DOMAIN f[t] : f[t][x] = e[t][x]

LEMMA RootDropped ==
    ASSUME NEW past, NEW k, NEW r, Chain(past, k, r), k < r, NEW e, Between(e, past, k, r),
           NEW t \in Tables, NEW id, id \notin DOMAIN past[k + 1][t],
           Shrinks(past[k], past[k + 1]), NEW f, Without(e, f, t, id)
    PROVE  /\ Whole(f) /\ (\A u \in Tables : IsMap(f[u]))
           /\ Drawn(f, past, k, r) /\ Keeps(f, past, k + 1, r) /\ id \notin DOMAIN f[t]
<1>1. /\ Whole(e) /\ (\A u \in Tables : IsMap(e[u])) /\ Drawn(e, past, k, r) /\ Keeps(e, past, k, r)
  BY BetweenParts
<1>4. \A u \in Tables : IsMap(f[u]) /\ \A x \in DOMAIN f[u] : x \in DOMAIN e[u] /\ f[u][x] = e[u][x]
  BY <1>1 DEF Without
<1>5. Drawn(f, past, k, r)
  BY <1>1, <1>4 DEF Drawn
<1>6. Keeps(f, past, k + 1, r)
  <2> SUFFICES ASSUME NEW u \in Tables, NEW x \in DOMAIN past[k + 1][u], x \in DOMAIN past[r][u]
               PROVE  x \in DOMAIN f[u]
    BY DEF Keeps
  <2>1. x \in DOMAIN e[u]
    BY <1>1 DEF Keeps, Shrinks
  <2> QED
    BY <2>1 DEF Without
<1> QED
  BY <1>4, <1>5, <1>6 DEF Without

LEMMA DeleteTokenMirrored ==
    ASSUME NEW past, NEW k, NEW r, Chain(past, k, r), k < r, NEW e, Between(e, past, k, r),
           NEW c, c.op = "DeleteToken", Accepts(past[k], c), past[k + 1] = Effect(past[k], c, k + 1),
           NEW d, d = Mirror(e, c, k + 1)
    PROVE  Between(d, past, k + 1, r)
<1> DEFINE p == past[k]
           q == past[k + 1]
           f == [e EXCEPT !["tokens"] = Drop(e["tokens"], {c.id})]
<1>1. k \in Nat /\ Good(p, k) /\ Accepts(p, c) /\ q = Effect(p, c, k + 1)
  BY DEF Chain
<1> HIDE DEF p, q
<1>2. /\ Rest(p, q, {"tokens", "members"})
      /\ q.tokens = Drop(p.tokens, {c.id})
      /\ q.members = Drop(p.members, Memberships(p, c.id))
  BY <1>1, DeleteTokenRows
<1>3. \A x : /\ x \in DOMAIN q.tokens <=> x \in DOMAIN p.tokens /\ x # c.id
             /\ x \in DOMAIN q.tokens => q.tokens[x] = p.tokens[x]
  BY <1>2, DropMap
<1>4. \A x : /\ x \in DOMAIN q.members <=> x \in DOMAIN p.members /\ p.members[x].token # c.id
             /\ x \in DOMAIN q.members => q.members[x] = p.members[x]
  BY <1>2, DropMap DEF Memberships
<1>5. q.orgs = p.orgs /\ q.teams = p.teams /\ q.roles = p.roles /\ q.mperms = p.mperms
  BY <1>2 DEF Rest, Tables
<1>6. \A u \in Tables : \A x \in DOMAIN q[u] : x \in DOMAIN p[u] /\ q[u][x] = p[u][x]
  BY <1>3, <1>4, <1>5 DEF Tables
<1>7. /\ Whole(f) /\ (\A u \in Tables : IsMap(f[u]))
      /\ Drawn(f, past, k, r) /\ Keeps(f, past, k + 1, r) /\ c.id \notin DOMAIN f.tokens
  <2>1. "tokens" \in Tables
    BY DEF Tables
  <2>2. ASSUME NEW t \in Tables, t = "tokens"
        PROVE  /\ Whole(f) /\ (\A u \in Tables : IsMap(f[u]))
               /\ Drawn(f, past, k, r) /\ Keeps(f, past, k + 1, r) /\ c.id \notin DOMAIN f[t]
    <3>1. /\ Whole(f) /\ \A u \in Tables : u # t => f[u] = e[u]
          /\ f[t] = Drop(e[t], {c.id})
      BY <2>2 DEF Between, Whole
    <3> HIDE DEF f
    <3>2. Without(e, f, t, c.id)
      BY <3>1, DropMap DEF Without
    <3>3. c.id \notin DOMAIN past[k + 1][t] /\ Shrinks(past[k], past[k + 1])
      BY <1>3, <1>6, <2>2 DEF p, q, Shrinks
    <3> QED
      BY <3>2, <3>3, RootDropped
  <2> HIDE DEF f
  <2> QED
    BY <2>1, <2>2
<1>8. d = Cascade(f)
  <2>1. d = MirrorToken(e, c, k + 1)
    BY MirrorByKind DEF TokenOps
  <2> QED
    BY <2>1 DEF MirrorToken
<1> HIDE DEF f
<1>9. TakenBelow(p, q, f)
  <2>1. \A x \in DOMAIN p.tokens : x \in DOMAIN f.tokens => x \in DOMAIN q.tokens
    BY <1>3, <1>4, <1>5, <1>7
  <2>2. \A x \in DOMAIN p.orgs : x \in DOMAIN f.orgs => x \in DOMAIN q.orgs
    BY <1>3, <1>4, <1>5, <1>7
  <2>3. \A x \in DOMAIN p.teams :
            x \in DOMAIN f.teams /\ p.teams[x].org \in DOMAIN q.orgs => x \in DOMAIN q.teams
    BY <1>3, <1>4, <1>5, <1>7
  <2>4. \A x \in DOMAIN p.roles :
            x \in DOMAIN f.roles /\ p.roles[x].team \in DOMAIN q.teams => x \in DOMAIN q.roles
    BY <1>3, <1>4, <1>5, <1>7
  <2>5. \A x \in DOMAIN p.mperms :
            x \in DOMAIN f.mperms /\ p.mperms[x].role \in DOMAIN q.roles => x \in DOMAIN q.mperms
    BY <1>3, <1>4, <1>5, <1>7
  <2>6. \A x \in DOMAIN p.members :
            /\ x \in DOMAIN f.members /\ p.members[x].token \in DOMAIN q.tokens
            /\ p.members[x].team \in DOMAIN q.teams
            => x \in DOMAIN q.members
    BY <1>3, <1>4, <1>5, <1>7
  <2> QED
    BY <1>6, <2>1, <2>2, <2>3, <2>4, <2>5, <2>6 DEF TakenBelow
<1> QED
  BY <1>1, <1>7, <1>8, <1>9, CascadeTakes DEF p, q

LEMMA DeleteOrgMirrored ==
    ASSUME NEW past, NEW k, NEW r, Chain(past, k, r), k < r, NEW e, Between(e, past, k, r),
           NEW c, c.op = "DeleteOrg", Accepts(past[k], c), past[k + 1] = Effect(past[k], c, k + 1),
           NEW d, d = Mirror(e, c, k + 1)
    PROVE  Between(d, past, k + 1, r)
<1> DEFINE p == past[k]
           q == past[k + 1]
           f == [e EXCEPT !["orgs"] = Drop(e["orgs"], {c.id})]
<1>1. k \in Nat /\ Good(p, k) /\ Accepts(p, c) /\ q = Effect(p, c, k + 1)
  BY DEF Chain
<1> HIDE DEF p, q
<1>2. /\ Rest(p, q, {"orgs", "teams", "roles", "mperms", "members"})
      /\ q.orgs = Drop(p.orgs, {c.id})
      /\ TeamDropped(p, q, TeamsUnder(p, c.id))
  BY <1>1, DeleteOrgRows
<1>3. \A x : /\ x \in DOMAIN q.orgs <=> x \in DOMAIN p.orgs /\ x # c.id
             /\ x \in DOMAIN q.orgs => q.orgs[x] = p.orgs[x]
  BY <1>2, DropMap
<1>4. \A x : /\ x \in DOMAIN q.teams <=> x \in DOMAIN p.teams /\ p.teams[x].org # c.id
             /\ x \in DOMAIN q.teams => q.teams[x] = p.teams[x]
  BY <1>2, DropMap DEF TeamDropped, TeamsUnder
<1>5. \A x : /\ x \in DOMAIN q.roles <=> x \in DOMAIN p.roles /\ p.roles[x].team \notin TeamsUnder(p, c.id)
             /\ x \in DOMAIN q.roles => q.roles[x] = p.roles[x]
  BY <1>2, DropMap DEF TeamDropped, RolesUnder
<1>6. \A x : /\ x \in DOMAIN q.mperms <=> x \in DOMAIN p.mperms /\ p.mperms[x].role \notin RolesUnder(p, TeamsUnder(p, c.id))
             /\ x \in DOMAIN q.mperms => q.mperms[x] = p.mperms[x]
  BY <1>2, DropMap DEF TeamDropped, MPermsUnder
<1>7. \A x : /\ x \in DOMAIN q.members <=> x \in DOMAIN p.members /\ p.members[x].team \notin TeamsUnder(p, c.id)
             /\ x \in DOMAIN q.members => q.members[x] = p.members[x]
  BY <1>2, DropMap DEF TeamDropped, MembersUnder
<1>8. q.tokens = p.tokens
  BY <1>2 DEF Rest, Tables
<1>9. \A u \in Tables : \A x \in DOMAIN q[u] : x \in DOMAIN p[u] /\ q[u][x] = p[u][x]
  BY <1>3, <1>4, <1>5, <1>6, <1>7, <1>8 DEF Tables
<1>10. /\ Whole(f) /\ (\A u \in Tables : IsMap(f[u]))
      /\ Drawn(f, past, k, r) /\ Keeps(f, past, k + 1, r) /\ c.id \notin DOMAIN f.orgs
  <2>1. "orgs" \in Tables
    BY DEF Tables
  <2>2. ASSUME NEW t \in Tables, t = "orgs"
        PROVE  /\ Whole(f) /\ (\A u \in Tables : IsMap(f[u]))
               /\ Drawn(f, past, k, r) /\ Keeps(f, past, k + 1, r) /\ c.id \notin DOMAIN f[t]
    <3>1. /\ Whole(f) /\ \A u \in Tables : u # t => f[u] = e[u]
          /\ f[t] = Drop(e[t], {c.id})
      BY <2>2 DEF Between, Whole
    <3> HIDE DEF f
    <3>2. Without(e, f, t, c.id)
      BY <3>1, DropMap DEF Without
    <3>3. c.id \notin DOMAIN past[k + 1][t] /\ Shrinks(past[k], past[k + 1])
      BY <1>3, <1>9, <2>2 DEF p, q, Shrinks
    <3> QED
      BY <3>2, <3>3, RootDropped
  <2> HIDE DEF f
  <2> QED
    BY <2>1, <2>2
<1>11. d = Cascade(f)
  <2>1. d = MirrorOrg(e, c, k + 1)
    BY MirrorByKind DEF OrgOps
  <2> QED
    BY <2>1 DEF MirrorOrg
<1> HIDE DEF f
<1>12. TakenBelow(p, q, f)
  <2>1. \A x \in DOMAIN p.tokens : x \in DOMAIN f.tokens => x \in DOMAIN q.tokens
    BY <1>3, <1>4, <1>5, <1>6, <1>7, <1>8, <1>10
  <2>2. \A x \in DOMAIN p.orgs : x \in DOMAIN f.orgs => x \in DOMAIN q.orgs
    BY <1>3, <1>4, <1>5, <1>6, <1>7, <1>8, <1>10
  <2>3. \A x \in DOMAIN p.teams :
            x \in DOMAIN f.teams /\ p.teams[x].org \in DOMAIN q.orgs => x \in DOMAIN q.teams
    BY <1>3, <1>4, <1>5, <1>6, <1>7, <1>8, <1>10
  <2>4. \A x \in DOMAIN p.roles :
            x \in DOMAIN f.roles /\ p.roles[x].team \in DOMAIN q.teams => x \in DOMAIN q.roles
    BY <1>3, <1>4, <1>5, <1>6, <1>7, <1>8, <1>10 DEF TeamsUnder
  <2>5. \A x \in DOMAIN p.mperms :
            x \in DOMAIN f.mperms /\ p.mperms[x].role \in DOMAIN q.roles => x \in DOMAIN q.mperms
    BY <1>3, <1>4, <1>5, <1>6, <1>7, <1>8, <1>10 DEF RolesUnder
  <2>6. \A x \in DOMAIN p.members :
            /\ x \in DOMAIN f.members /\ p.members[x].token \in DOMAIN q.tokens
            /\ p.members[x].team \in DOMAIN q.teams
            => x \in DOMAIN q.members
    BY <1>3, <1>4, <1>5, <1>6, <1>7, <1>8, <1>10 DEF TeamsUnder
  <2> QED
    BY <1>9, <2>1, <2>2, <2>3, <2>4, <2>5, <2>6 DEF TakenBelow
<1> QED
  BY <1>1, <1>10, <1>11, <1>12, CascadeTakes DEF p, q

LEMMA DeleteTeamMirrored ==
    ASSUME NEW past, NEW k, NEW r, Chain(past, k, r), k < r, NEW e, Between(e, past, k, r),
           NEW c, c.op = "DeleteTeam", Accepts(past[k], c), past[k + 1] = Effect(past[k], c, k + 1),
           NEW d, d = Mirror(e, c, k + 1)
    PROVE  Between(d, past, k + 1, r)
<1> DEFINE p == past[k]
           q == past[k + 1]
           f == [e EXCEPT !["teams"] = Drop(e["teams"], {c.id})]
<1>1. k \in Nat /\ Good(p, k) /\ Accepts(p, c) /\ q = Effect(p, c, k + 1)
  BY DEF Chain
<1> HIDE DEF p, q
<1>2. /\ Rest(p, q, {"teams", "roles", "mperms", "members"})
      /\ TeamDropped(p, q, {c.id})
  BY <1>1, DeleteTeamRows
<1>3. \A x : /\ x \in DOMAIN q.teams <=> x \in DOMAIN p.teams /\ x # c.id
             /\ x \in DOMAIN q.teams => q.teams[x] = p.teams[x]
  BY <1>2, DropMap DEF TeamDropped
<1>4. \A x : /\ x \in DOMAIN q.roles <=> x \in DOMAIN p.roles /\ p.roles[x].team \notin {c.id}
             /\ x \in DOMAIN q.roles => q.roles[x] = p.roles[x]
  BY <1>2, DropMap DEF TeamDropped, RolesUnder
<1>5. \A x : /\ x \in DOMAIN q.mperms <=> x \in DOMAIN p.mperms /\ p.mperms[x].role \notin RolesUnder(p, {c.id})
             /\ x \in DOMAIN q.mperms => q.mperms[x] = p.mperms[x]
  <2> DEFINE S == MPermsUnder(p, {c.id})
  <2>1. IsMap(q.mperms) /\ \A x : /\ x \in DOMAIN q.mperms <=> x \in DOMAIN p.mperms /\ x \notin S
                                  /\ x \in DOMAIN q.mperms => q.mperms[x] = p.mperms[x]
    BY <1>2, DropMap DEF TeamDropped
  <2>2. \A x : x \in S <=> x \in DOMAIN p.mperms /\ p.mperms[x].role \in RolesUnder(p, {c.id})
    BY DEF MPermsUnder
  <2> HIDE DEF S
  <2> QED
    BY <2>1, <2>2
<1>6. \A x : /\ x \in DOMAIN q.members <=> x \in DOMAIN p.members /\ p.members[x].team \notin {c.id}
             /\ x \in DOMAIN q.members => q.members[x] = p.members[x]
  BY <1>2, DropMap DEF TeamDropped, MembersUnder
<1>7. q.tokens = p.tokens /\ q.orgs = p.orgs
  BY <1>2 DEF Rest, Tables
<1>8. \A u \in Tables : \A x \in DOMAIN q[u] : x \in DOMAIN p[u] /\ q[u][x] = p[u][x]
  BY <1>3, <1>4, <1>5, <1>6, <1>7 DEF Tables
<1>9. /\ Whole(f) /\ (\A u \in Tables : IsMap(f[u]))
      /\ Drawn(f, past, k, r) /\ Keeps(f, past, k + 1, r) /\ c.id \notin DOMAIN f.teams
  <2>1. "teams" \in Tables
    BY DEF Tables
  <2>2. ASSUME NEW t \in Tables, t = "teams"
        PROVE  /\ Whole(f) /\ (\A u \in Tables : IsMap(f[u]))
               /\ Drawn(f, past, k, r) /\ Keeps(f, past, k + 1, r) /\ c.id \notin DOMAIN f[t]
    <3>1. /\ Whole(f) /\ \A u \in Tables : u # t => f[u] = e[u]
          /\ f[t] = Drop(e[t], {c.id})
      BY <2>2 DEF Between, Whole
    <3> HIDE DEF f
    <3>2. Without(e, f, t, c.id)
      BY <3>1, DropMap DEF Without
    <3>3. c.id \notin DOMAIN past[k + 1][t] /\ Shrinks(past[k], past[k + 1])
      BY <1>3, <1>8, <2>2 DEF p, q, Shrinks
    <3> QED
      BY <3>2, <3>3, RootDropped
  <2> HIDE DEF f
  <2> QED
    BY <2>1, <2>2
<1>10. d = Cascade(f)
  <2>1. d = MirrorTeam(e, c, k + 1)
    BY MirrorByKind DEF TeamOps
  <2> QED
    BY <2>1 DEF MirrorTeam
<1> HIDE DEF f
<1>11. TakenBelow(p, q, f)
  <2>1. \A x \in DOMAIN p.tokens : x \in DOMAIN f.tokens => x \in DOMAIN q.tokens
    BY <1>3, <1>4, <1>5, <1>6, <1>7, <1>9
  <2>2. \A x \in DOMAIN p.orgs : x \in DOMAIN f.orgs => x \in DOMAIN q.orgs
    BY <1>3, <1>4, <1>5, <1>6, <1>7, <1>9
  <2>3. \A x \in DOMAIN p.teams :
            x \in DOMAIN f.teams /\ p.teams[x].org \in DOMAIN q.orgs => x \in DOMAIN q.teams
    BY <1>3, <1>4, <1>5, <1>6, <1>7, <1>9
  <2>4. \A x \in DOMAIN p.roles :
            x \in DOMAIN f.roles /\ p.roles[x].team \in DOMAIN q.teams => x \in DOMAIN q.roles
    BY <1>3, <1>4, <1>5, <1>6, <1>7, <1>9
  <2>5. \A x \in DOMAIN p.mperms :
            x \in DOMAIN f.mperms /\ p.mperms[x].role \in DOMAIN q.roles => x \in DOMAIN q.mperms
    BY <1>3, <1>4, <1>5, <1>6, <1>7, <1>9 DEF RolesUnder
  <2>6. \A x \in DOMAIN p.members :
            /\ x \in DOMAIN f.members /\ p.members[x].token \in DOMAIN q.tokens
            /\ p.members[x].team \in DOMAIN q.teams
            => x \in DOMAIN q.members
    BY <1>3, <1>4, <1>5, <1>6, <1>7, <1>9
  <2> QED
    BY <1>8, <2>1, <2>2, <2>3, <2>4, <2>5, <2>6 DEF TakenBelow
<1> QED
  BY <1>1, <1>9, <1>10, <1>11, CascadeTakes DEF p, q

LEMMA DeleteRoleMirrored ==
    ASSUME NEW past, NEW k, NEW r, Chain(past, k, r), k < r, NEW e, Between(e, past, k, r),
           NEW c, c.op = "DeleteRole", Accepts(past[k], c), past[k + 1] = Effect(past[k], c, k + 1),
           NEW d, d = Mirror(e, c, k + 1)
    PROVE  Between(d, past, k + 1, r)
<1> DEFINE p == past[k]
           q == past[k + 1]
           f == [e EXCEPT !["roles"] = Drop(e["roles"], {c.id})]
<1>1. k \in Nat /\ Good(p, k) /\ Accepts(p, c) /\ q = Effect(p, c, k + 1)
  BY DEF Chain
<1> HIDE DEF p, q
<1>2. /\ Rest(p, q, {"roles", "mperms"})
      /\ q.roles = Drop(p.roles, {c.id})
      /\ q.mperms = Drop(p.mperms, Permissions(p, c.id))
  BY <1>1, DeleteRoleRows
<1>3. \A x : /\ x \in DOMAIN q.roles <=> x \in DOMAIN p.roles /\ x # c.id
             /\ x \in DOMAIN q.roles => q.roles[x] = p.roles[x]
  BY <1>2, DropMap
<1>4. \A x : /\ x \in DOMAIN q.mperms <=> x \in DOMAIN p.mperms /\ p.mperms[x].role # c.id
             /\ x \in DOMAIN q.mperms => q.mperms[x] = p.mperms[x]
  BY <1>2, DropMap DEF Permissions
<1>5. q.tokens = p.tokens /\ q.orgs = p.orgs /\ q.teams = p.teams /\ q.members = p.members
  BY <1>2 DEF Rest, Tables
<1>6. \A u \in Tables : \A x \in DOMAIN q[u] : x \in DOMAIN p[u] /\ q[u][x] = p[u][x]
  BY <1>3, <1>4, <1>5 DEF Tables
<1>7. /\ Whole(f) /\ (\A u \in Tables : IsMap(f[u]))
      /\ Drawn(f, past, k, r) /\ Keeps(f, past, k + 1, r) /\ c.id \notin DOMAIN f.roles
  <2>1. "roles" \in Tables
    BY DEF Tables
  <2>2. ASSUME NEW t \in Tables, t = "roles"
        PROVE  /\ Whole(f) /\ (\A u \in Tables : IsMap(f[u]))
               /\ Drawn(f, past, k, r) /\ Keeps(f, past, k + 1, r) /\ c.id \notin DOMAIN f[t]
    <3>1. /\ Whole(f) /\ \A u \in Tables : u # t => f[u] = e[u]
          /\ f[t] = Drop(e[t], {c.id})
      BY <2>2 DEF Between, Whole
    <3> HIDE DEF f
    <3>2. Without(e, f, t, c.id)
      BY <3>1, DropMap DEF Without
    <3>3. c.id \notin DOMAIN past[k + 1][t] /\ Shrinks(past[k], past[k + 1])
      BY <1>3, <1>6, <2>2 DEF p, q, Shrinks
    <3> QED
      BY <3>2, <3>3, RootDropped
  <2> HIDE DEF f
  <2> QED
    BY <2>1, <2>2
<1>8. d = Cascade(f)
  <2>1. d = MirrorRole(e, c, k + 1)
    BY MirrorByKind DEF RoleOps
  <2> QED
    BY <2>1 DEF MirrorRole
<1> HIDE DEF f
<1>9. TakenBelow(p, q, f)
  <2>1. \A x \in DOMAIN p.tokens : x \in DOMAIN f.tokens => x \in DOMAIN q.tokens
    BY <1>3, <1>4, <1>5, <1>7
  <2>2. \A x \in DOMAIN p.orgs : x \in DOMAIN f.orgs => x \in DOMAIN q.orgs
    BY <1>3, <1>4, <1>5, <1>7
  <2>3. \A x \in DOMAIN p.teams :
            x \in DOMAIN f.teams /\ p.teams[x].org \in DOMAIN q.orgs => x \in DOMAIN q.teams
    BY <1>3, <1>4, <1>5, <1>7
  <2>4. \A x \in DOMAIN p.roles :
            x \in DOMAIN f.roles /\ p.roles[x].team \in DOMAIN q.teams => x \in DOMAIN q.roles
    BY <1>3, <1>4, <1>5, <1>7
  <2>5. \A x \in DOMAIN p.mperms :
            x \in DOMAIN f.mperms /\ p.mperms[x].role \in DOMAIN q.roles => x \in DOMAIN q.mperms
    BY <1>3, <1>4, <1>5, <1>7
  <2>6. \A x \in DOMAIN p.members :
            /\ x \in DOMAIN f.members /\ p.members[x].token \in DOMAIN q.tokens
            /\ p.members[x].team \in DOMAIN q.teams
            => x \in DOMAIN q.members
    BY <1>3, <1>4, <1>5, <1>7
  <2> QED
    BY <1>6, <2>1, <2>2, <2>3, <2>4, <2>5, <2>6 DEF TakenBelow
<1> QED
  BY <1>1, <1>7, <1>8, <1>9, CascadeTakes DEF p, q

\* An organization that has the name under another id is not one of the state
\* at k: the mirror has gone ahead there, and the realignment takes it back.
LEMMA CreateOrgMirrored ==
    ASSUME NEW past, NEW k, NEW r, Chain(past, k, r), k < r, NEW e, Between(e, past, k, r),
           NEW c, c.op = "CreateOrg", Accepts(past[k], c), past[k + 1] = Effect(past[k], c, k + 1),
           NEW d, d = Mirror(e, c, k + 1)
    PROVE  Between(d, past, k + 1, r)
<1> DEFINE row == [name |-> c.name]
           old == {o \in DOMAIN e.orgs : e.orgs[o].name = c.name}
           f == Drop(e.orgs, old)
           h == [e EXCEPT !["orgs"] = f]
           b == Cascade(h)
           g == Put(b.orgs, k + 1, row)
<1>1. k \in Nat /\ Good(past[k], k) /\ k \in k..r /\ "orgs" \in Tables
  BY DEF Chain, Tables
<1>2. /\ c.name \notin DOMAIN past[k].orgsByName /\ Rest(past[k], past[k + 1], {"orgs"})
      /\ past[k + 1].orgs = Put(past[k].orgs, k + 1, row)
  <2> DEFINE s == past[k]
             q == past[k + 1]
  <2>1. Good(s, k) /\ Accepts(s, c) /\ q = Effect(s, c, k + 1)
    BY <1>1
  <2> HIDE DEF s, q
  <2>2. /\ c.name \notin DOMAIN s.orgsByName /\ Rest(s, q, {"orgs"})
        /\ q.orgs = Put(s.orgs, k + 1, row)
    BY <1>1, <2>1, CreateOrgRows
  <2> QED
    BY <2>2 DEF s, q
<1>3. d = IF k + 1 \in DOMAIN e.orgs THEN e ELSE [b EXCEPT !["orgs"] = g]
  <2>1. d = MirrorOrg(e, c, k + 1)
    BY MirrorByKind DEF OrgOps
  <2> QED
    BY <2>1 DEF MirrorOrg, Realign
<1>4. TableBetween(e.orgs, "orgs", past, k, r)
  BY <1>1 DEF Between
<1>5. CASE k + 1 \in DOMAIN e.orgs
  <2>1. TableBetween(e.orgs, "orgs", past, k + 1, r)
    <3> HIDE DEF row
    <3> QED
      BY <1>1, <1>2, <1>4, <1>5, TablePuts
  <2> QED
    BY <1>1, <1>2, <1>3, <1>5, <2>1, OneTable
<1>6. CASE k + 1 \notin DOMAIN e.orgs
  <2>1. \A x \in DOMAIN past[k].orgs : x \in DOMAIN e.orgs => x \notin old
    <3>1. \A x \in DOMAIN past[k].orgs : x \in DOMAIN e.orgs => e.orgs[x] = past[k].orgs[x]
      BY <1>1, <1>4, KeysAt DEF TableBetween
    <3>2. \A x \in DOMAIN past[k].orgs : past[k].orgs[x].name # c.name
      BY <1>1, <1>2, UniqueRows
    <3> QED
      BY <3>1, <3>2
  <2>2. /\ IsMap(f) /\ \A x : x \in DOMAIN f <=> x \in DOMAIN e.orgs /\ x \notin old
        /\ \A x \in DOMAIN f : f[x] = e.orgs[x]
    BY DropMap
  <2> HIDE DEF old, f
  <2>3. TableBetween(f, "orgs", past, k, r)
    BY <1>4, <2>1, <2>2 DEF TableBetween
  <2>4. Between(h, past, k, r)
    BY <1>1, <2>3 DEF Between, Whole
  <2> HIDE DEF h
  <2>5. Between(b, past, k, r)
    BY <2>4, CascadeStays
  <2> HIDE DEF b, row
  <2>6. TableBetween(b.orgs, "orgs", past, k, r)
    BY <1>1, <2>5 DEF Between
  <2>7. TableBetween(g, "orgs", past, k + 1, r)
    BY <1>1, <1>2, <2>6, TablePuts
  <2>8. d = [b EXCEPT !["orgs"] = g]
    BY <1>3, <1>6
  <2> HIDE DEF g
  <2> QED
    BY <1>1, <1>2, <2>5, <2>7, <2>8, OneTable
<1> QED
  BY <1>5, <1>6

\* Any command that is no rename.
LEMMA StepMirrored ==
    ASSUME NEW past, NEW k, NEW r, Chain(past, k, r), k < r, NEW e, Between(e, past, k, r),
           NEW c, c.op \in Ops \ Renames, past[k + 1] = Apply(past[k], c, k + 1),
           NEW d, d = IF Accepts(past[k], c) THEN Mirror(e, c, k + 1) ELSE e
    PROVE  Between(d, past, k + 1, r)
<1>1. CASE ~Accepts(past[k], c)
  <2>1. past[k + 1] = past[k] /\ d = e
    BY <1>1 DEF Apply
  <2>2. \A t \in Tables : TableBetween(e[t], t, past, k + 1, r)
    BY <2>1, TableRests DEF Between
  <2> QED
    BY <2>1, <2>2 DEF Between
<1>2. CASE Accepts(past[k], c)
  <2>1. past[k + 1] = Effect(past[k], c, k + 1) /\ d = Mirror(e, c, k + 1)
    BY <1>2 DEF Apply
  <2>2. CASE c.op \in TokenOps \ Renames
    BY <1>2, <2>1, <2>2, CreateTokenMirrored, RevokeTokenMirrored, RotateTokenMirrored, DeleteTokenMirrored
       DEF TokenOps, Renames
  <2>3. CASE c.op \in OrgOps \ Renames
    BY <1>2, <2>1, <2>3, CreateOrgMirrored, DeleteOrgMirrored DEF OrgOps, Renames
  <2>4. CASE c.op \in TeamOps \ Renames
    BY <1>2, <2>1, <2>4, CreateTeamMirrored, DeleteTeamMirrored DEF TeamOps, Renames
  <2>5. CASE c.op \in RoleOps
    BY <1>2, <2>1, <2>5, CreateRoleMirrored, UpdateRoleMirrored, DeleteRoleMirrored DEF RoleOps
  <2>6. CASE c.op \in MPermOps
    BY <1>2, <2>1, <2>6, CreateMPermMirrored, DeleteMPermMirrored DEF MPermOps
  <2>7. CASE c.op \in MemberOps
    BY <1>2, <2>1, <2>7, AddMemberMirrored, RemoveMemberMirrored DEF MemberOps
  <2> QED
    BY <2>2, <2>3, <2>4, <2>5, <2>6, <2>7 DEF Ops
<1> QED
  BY <1>1, <1>2

---------------------------------------------------------------------------
(* From the commands to the actions.                                         *)

\* While only the callbacks for tokens are installed, the RBAC tables are those
\* that the node had at r, and no token of r is missing.
Ahead(d, s) ==
    /\ \A t \in Tables \ {"tokens"} : d[t] = s[t]
    /\ \A x \in DOMAIN s.tokens : x \in DOMAIN d.tokens

LEMMA BetweenBack ==
    ASSUME NEW past, NEW l, NEW r, Chain(past, l, r), NEW k \in l..r, NEW d, Between(d, past, k, r)
    PROVE  Between(d, past, l, r)
<1>1. l \in Nat /\ k \in Nat /\ r \in Nat /\ l <= k /\ r <= r /\ l \in l..r /\ r \in l..r /\ k \in l..r
  BY DEF Chain
<1>2. /\ Whole(d) /\ (\A t \in Tables : IsMap(d[t]))
      /\ Drawn(d, past, k, r) /\ Keeps(d, past, k, r)
  BY BetweenParts
<1>3. Drawn(d, past, l, r)
  BY <1>1, <1>2, FromWider DEF Drawn
<1>4. Keeps(d, past, l, r)
  BY <1>1, <1>2, ChainMiddle DEF Keeps
<1> QED
  BY <1>2, <1>3, <1>4, BetweenParts

LEMMA BetweenForward ==
    ASSUME NEW past, NEW k, Chain(past, k, k + 1), NEW d, Between(d, past, k, k)
    PROVE  Between(d, past, k, k + 1)
<1>1. k \in Nat /\ k + 1 \in Nat /\ k <= k /\ k <= k + 1
  BY DEF Chain
<1>2. /\ Whole(d) /\ (\A t \in Tables : IsMap(d[t]))
      /\ Drawn(d, past, k, k) /\ Keeps(d, past, k, k)
  BY BetweenParts
<1>3. Drawn(d, past, k, k + 1)
  BY <1>1, <1>2, FromWider DEF Drawn
<1>4. Keeps(d, past, k, k + 1)
  BY <1>2 DEF Keeps
<1> QED
  BY <1>2, <1>3, <1>4, BetweenParts

LEMMA BetweenLatest ==
    ASSUME NEW past, NEW k, NEW r, Chain(past, k, r), NEW d, d = Primaries(past[r])
    PROVE  Between(d, past, k, r) /\ Ahead(d, past[r])
<1>1. r \in k..r /\ k \in k..r /\ k \in Nat /\ r \in Nat /\ r <= r /\ k <= r
  BY DEF Chain
<1>2. Chain(past, r, r)
  BY <1>1, ChainPart
<1>3. Between(d, past, r, r)
  BY <1>2, BetweenEnds
<1>4. Between(d, past, k, r)
  BY <1>1, <1>3, BetweenBack
<1>5. \A t \in Tables : d[t] = past[r][t]
  BY DEF Primaries
<1> QED
  BY <1>4, <1>5 DEF Ahead, Tables

LEMMA BetweenSame ==
    ASSUME NEW past, NEW next, NEW k \in Nat, NEW r \in Nat, k <= r, \A i \in k..r : next[i] = past[i],
           NEW d, Between(d, past, k, r)
    PROVE  Between(d, next, k, r)
<1>1. k \in k..r /\ r \in k..r
  OBVIOUS
<1>2. \A t \in Tables : \A x, v : FromPast(t, x, v, past, k, r) => FromPast(t, x, v, next, k, r)
  BY DEF FromPast
<1> QED
  BY <1>1, <1>2 DEF Between, TableBetween

\* A token command during such a replay.
LEMMA AheadStep ==
    ASSUME NEW past, NEW k, NEW r, Chain(past, k, r), k < r, NEW e, Between(e, past, k, r), Ahead(e, past[r]),
           NEW c, c.op \in TokenOps \ Renames, Accepts(past[k], c), past[k + 1] = Effect(past[k], c, k + 1),
           NEW d, d = Mirror(e, c, k + 1)
    PROVE  Ahead(d, past[r])
<1>1. /\ k \in Nat /\ r \in Nat /\ k \in k..r /\ k + 1 \in k..r /\ r \in k..r /\ Whole(e)
      /\ Good(past[k], k) /\ Good(past[r], r) /\ k + 1 \in k..r /\ "tokens" \in Tables
  BY DEF Chain, Between, Tables
<1>2. d = MirrorToken(e, c, k + 1)
  BY MirrorByKind DEF Renames
<1>3. CASE c.op # "DeleteToken"
  <2>1. \E g : d = [e EXCEPT !["tokens"] = g] /\ \A x \in DOMAIN e.tokens : x \in DOMAIN g
    <3>1. CASE c.op = "CreateToken"
      <4> DEFINE row == [name |-> c.name, cred |-> c.cred, on |-> TRUE]
      <4>1. d = e \/ d = [e EXCEPT !["tokens"] = Put(e.tokens, k + 1, row)]
        BY <1>2, <3>1 DEF MirrorToken
      <4>2. e = [e EXCEPT !["tokens"] = e.tokens]
        BY <1>1 DEF Whole
      <4>3. \A x \in DOMAIN e.tokens : x \in DOMAIN Put(e.tokens, k + 1, row)
        BY PutMap
      <4> DEFINE g == Put(e.tokens, k + 1, row)
      <4> HIDE DEF g
      <4>4. CASE d = e
        BY <4>2, <4>4
      <4>5. CASE d = [e EXCEPT !["tokens"] = g]
        BY <4>3, <4>5 DEF g
      <4> QED
        BY <4>1, <4>4, <4>5 DEF g
    <3>2. CASE c.op = "RevokeToken"
      <4>1. d = e \/ d = [e EXCEPT !["tokens"] = [e.tokens EXCEPT ![c.id] = [e.tokens[c.id] EXCEPT !.on = FALSE]]]
        BY <1>2, <3>2 DEF MirrorToken
      <4>2. e = [e EXCEPT !["tokens"] = e.tokens]
        BY <1>1 DEF Whole
      <4> QED
        BY <4>1, <4>2
    <3>3. CASE c.op = "RotateToken"
      <4>1. c.id \in DOMAIN e.tokens => d = [e EXCEPT !.tokens[c.id].cred = c.cred]
        BY <1>2, <3>3 DEF MirrorToken
      <4>2. c.id \notin DOMAIN e.tokens => d = e
        BY <1>2, <3>3 DEF MirrorToken
      <4>3. e = [e EXCEPT !["tokens"] = e.tokens]
        BY <1>1 DEF Whole
      <4> QED
        BY <4>1, <4>2, <4>3
    <3> QED
      BY <1>3, <3>1, <3>2, <3>3 DEF TokenOps, Renames
  <2>2. PICK g : d = [e EXCEPT !["tokens"] = g] /\ \A x \in DOMAIN e.tokens : x \in DOMAIN g
    BY <2>1, Zenon
  <2>3. d.tokens = g /\ \A t \in Tables \ {"tokens"} : d[t] = e[t]
    BY <1>1, <2>2, Zenon DEF Whole
  <2> QED
    BY <2>2, <2>3 DEF Ahead
<1>4. CASE c.op = "DeleteToken"
  <2> DEFINE q == past[r]
             f == [e EXCEPT !["tokens"] = Drop(e.tokens, {c.id})]
  <2>1. d = Cascade(f)
    BY <1>2, <1>4 DEF MirrorToken
  <2>2. c.id \notin DOMAIN q.tokens
    <3>1. c.id \in DOMAIN past[k].tokens /\ past[k + 1].tokens = Drop(past[k].tokens, {c.id})
      <4> DEFINE s == past[k]
                 p == past[k + 1]
      <4>1. Good(s, k) /\ Accepts(s, c) /\ p = Effect(s, c, k + 1)
        BY <1>1
      <4> HIDE DEF s, p
      <4>2. c.id \in DOMAIN s.tokens /\ p.tokens = Drop(s.tokens, {c.id})
        BY <1>1, <1>4, <4>1, DeleteTokenRows, ZenonT(30)
      <4> QED
        BY <4>2 DEF s, p
    <3>2. c.id \notin DOMAIN past[k + 1].tokens
      BY <3>1, DropMap
    <3> QED
      BY <1>1, <3>1, <3>2, ChainMiddle
  <2>3. Whole(f) /\ f.tokens = Drop(e.tokens, {c.id}) /\ \A t \in Tables \ {"tokens"} : f[t] = e[t]
    BY <1>1 DEF Whole
  <2>4. \A x \in DOMAIN q.tokens : x \in DOMAIN f.tokens
    BY <2>2, <2>3, DropMap DEF Ahead
  <2>5. /\ f.orgs = q.orgs /\ f.teams = q.teams /\ f.roles = q.roles /\ f.mperms = q.mperms
        /\ f.members = q.members
    BY <2>3 DEF Ahead, Tables
  <2>6. /\ Linked(q) /\ IsMap(q.teams) /\ IsMap(q.roles) /\ IsMap(q.mperms) /\ IsMap(q.members)
    BY <1>1 DEF Good, TeamsOK, RolesOK, MPermsOK, MembersOK, Table
  <2> HIDE DEF f, q
  <2>7. /\ Whole(d) /\ d.tokens = f.tokens /\ d.orgs = f.orgs
        /\ IsMap(d.teams) /\ IsMap(d.roles) /\ IsMap(d.mperms) /\ IsMap(d.members)
        /\ \A x : /\ x \in DOMAIN d.teams <=>
                            x \in DOMAIN f.teams /\ f.teams[x].org \in DOMAIN d.orgs
                  /\ x \in DOMAIN d.roles <=>
                            x \in DOMAIN f.roles /\ f.roles[x].team \in DOMAIN d.teams
                  /\ x \in DOMAIN d.mperms <=>
                            x \in DOMAIN f.mperms /\ f.mperms[x].role \in DOMAIN d.roles
                  /\ x \in DOMAIN d.members <=>
                            /\ x \in DOMAIN f.members /\ f.members[x].token \in DOMAIN d.tokens
                            /\ f.members[x].team \in DOMAIN d.teams
                  /\ x \in DOMAIN d.teams => d.teams[x] = f.teams[x]
                  /\ x \in DOMAIN d.roles => d.roles[x] = f.roles[x]
                  /\ x \in DOMAIN d.mperms => d.mperms[x] = f.mperms[x]
                  /\ x \in DOMAIN d.members => d.members[x] = f.members[x]
    BY <2>1, <2>3, CascadeRows DEF Whole
  <2>8. d.teams = q.teams
    <3>1. \A x : x \in DOMAIN d.teams <=> x \in DOMAIN q.teams
      BY <2>5, <2>6, <2>7 DEF Linked
    <3>2. DOMAIN d.teams = DOMAIN q.teams /\ \A x \in DOMAIN d.teams : d.teams[x] = q.teams[x]
      BY <2>5, <2>7, <3>1
    <3> QED
      BY <2>6, <2>7, <3>2, MapsEqual
  <2>9. d.roles = q.roles
    <3>1. \A x : x \in DOMAIN d.roles <=> x \in DOMAIN q.roles
      BY <2>5, <2>6, <2>7, <2>8 DEF Linked
    <3>2. DOMAIN d.roles = DOMAIN q.roles /\ \A x \in DOMAIN d.roles : d.roles[x] = q.roles[x]
      BY <2>5, <2>7, <3>1
    <3> QED
      BY <2>6, <2>7, <3>2, MapsEqual
  <2>10. d.mperms = q.mperms
    <3>1. \A x : x \in DOMAIN d.mperms <=> x \in DOMAIN q.mperms
      BY <2>5, <2>6, <2>7, <2>9 DEF Linked
    <3>2. DOMAIN d.mperms = DOMAIN q.mperms /\ \A x \in DOMAIN d.mperms : d.mperms[x] = q.mperms[x]
      BY <2>5, <2>7, <3>1
    <3> QED
      BY <2>6, <2>7, <3>2, MapsEqual
  <2>11. d.members = q.members
    <3>1. \A x : x \in DOMAIN d.members <=> x \in DOMAIN q.members
      BY <2>4, <2>5, <2>6, <2>7, <2>8 DEF Linked
    <3>2. DOMAIN d.members = DOMAIN q.members /\ \A x \in DOMAIN d.members : d.members[x] = q.members[x]
      BY <2>5, <2>7, <3>1
    <3> QED
      BY <2>6, <2>7, <3>2, MapsEqual
  <2> QED
    BY <2>4, <2>5, <2>7, <2>8, <2>9, <2>10, <2>11 DEF Ahead, Tables, q
<1> QED
  BY <1>3, <1>4

\* An RBAC command that reaches no callback during such a replay.
LEMMA AheadWaits ==
    ASSUME NEW past, NEW k, NEW r, Chain(past, k, r), k < r, NEW e, Between(e, past, k, r), Ahead(e, past[r]),
           NEW c, c.op \in Ops \ TokenOps, past[k + 1] = Apply(past[k], c, k + 1)
    PROVE  Between(e, past, k + 1, r)
<1>1. /\ k \in Nat /\ r \in Nat /\ Good(past[k], k) /\ r \in (k + 1)..r /\ Chain(past, k + 1, r)
      /\ Whole(e) /\ \A t \in Tables : IsMap(e[t])
  BY ChainPart DEF Chain, Between, TableBetween
<1>2. past[k + 1].tokens = past[k].tokens
  BY <1>1, OtherCommandTokens DEF Apply
<1>3. TableBetween(e["tokens"], "tokens", past, k + 1, r)
  BY <1>2, TableRests DEF Between, Tables
<1>4. ASSUME NEW t \in Tables, t # "tokens" PROVE TableBetween(e[t], t, past, k + 1, r)
  <2>1. e[t] = past[r][t]
    BY <1>4 DEF Ahead
  <2> QED
    BY <1>1, <2>1, FromRow DEF TableBetween
<1> QED
  BY <1>1, <1>3, <1>4 DEF Between

---------------------------------------------------------------------------
(* The invariant.  As long as no name was reused and no entry passed without *)
(* its callback, the tables are between the state where the node stands and  *)
(* the one that it has reached.                                              *)

Stand == IF nodeUp THEN applied ELSE snap.idx

FixedPast(past) == \A i, j \in snap.idx..committed : i <= j => Fixed(past[i], past[j], i)

Held(past) ==
    /\ wired # "none" \/ cut => Between(db, past, Stand, reached)
    /\ ~cut /\ wired = "tokens" => Ahead(db, past[reached])
    /\ ~cut /\ wired = "none" => db = Primaries(past[reached])

MirrorHolds ==
    /\ snap.idx <= reached /\ (nodeUp => applied <= reached)
    /\ \A i \in 1..Len(raftLog) : raftLog[i].op \notin Renames
    /\ \E past : Past(past) /\ FixedPast(past) /\ Held(past)

MirrorInv == ~gap /\ renamed = "no" => MirrorHolds

LEMMA ChainOf ==
    ASSUME ReplicaTypes, NEW past, Past(past), FixedPast(past),
           NEW i \in snap.idx..committed, NEW j \in i..committed
    PROVE  Chain(past, i, j)
<1>1. snap.idx \in Nat /\ committed \in Nat
  BY DEF ReplicaTypes
<1>2. i \in Nat /\ j \in Nat /\ i <= j /\ \A m \in i..j : m \in snap.idx..committed
  BY <1>1
<1> QED
  BY <1>2 DEF Chain, Past, FixedPast

LEMMA StandPlace ==
    ASSUME ReplicaTypes, MirrorHolds
    PROVE  /\ reached \in snap.idx..committed /\ Stand \in snap.idx..reached
           /\ snap.idx \in Nat /\ reached \in Nat /\ Stand \in Nat /\ committed \in Nat
           /\ reached <= committed
BY DEF ReplicaTypes, MirrorHolds, Stand

LEMMA InitMirror == ARInit => MirrorInv
<1> SUFFICES ASSUME ARInit PROVE MirrorHolds
  BY DEF MirrorInv
<1>1. ReplicaInv /\ renamed = "no"
  BY InitReplica DEF ARInit
<1>2. PICK past : Past(past)
  BY <1>1 DEF ReplicaInv, Replays
<1>3. /\ snap.idx = 0 /\ committed = 0 /\ applied = 0 /\ reached = 0 /\ nodeUp /\ raftLog = <<>>
      /\ wired = "all" /\ cut = FALSE /\ db = Primaries(truth)
  BY DEF ARInit
<1>4. FixedPast(past)
  <2>1. \A i \in 0..0 : i = 0
    OBVIOUS
  <2> QED
    BY <1>3, <2>1, FixedSame DEF FixedPast
<1>5. past[0] = truth /\ 0 \in snap.idx..committed /\ 0 \in 0..committed
  BY <1>2, <1>3 DEF Past
<1>6. Chain(past, 0, 0)
  BY <1>1, <1>2, <1>4, <1>5, ChainOf DEF ReplicaInv
<1>7. Between(db, past, 0, 0)
  BY <1>3, <1>5, <1>6, BetweenEnds
<1>8. Held(past)
  BY <1>3, <1>7 DEF Held, Stand
<1>9. Len(raftLog) = 0
  BY <1>3, EmptyLog
<1>10. \A i \in 1..Len(raftLog) : raftLog[i].op \notin Renames
  BY <1>9
<1> QED
  BY <1>2, <1>3, <1>4, <1>8, <1>10 DEF MirrorHolds

LEMMA MirrorCaughtUp ==
    ASSUME ReplicaInv, MirrorInv PROVE MirrorAgrees
<1> SUFFICES ASSUME nodeUp, applied = committed, ~gap, renamed = "no" PROVE db = Primaries(truth)
  BY DEF MirrorAgrees
<1>1. ReplicaTypes /\ MirrorHolds
  BY DEF ReplicaInv, MirrorInv
<1>2. PICK past : Past(past) /\ FixedPast(past) /\ Held(past)
  BY <1>1 DEF MirrorHolds
<1>3. reached = committed /\ Stand = committed /\ committed \in snap.idx..committed /\ committed \in committed..committed
  BY <1>1, StandPlace DEF MirrorHolds, Stand
<1>4. Chain(past, committed, committed) /\ past[committed] = truth
  BY <1>1, <1>2, <1>3, ChainOf DEF Past
<1>5. CASE wired # "none" \/ cut
  BY <1>2, <1>3, <1>4, <1>5, BetweenEnds DEF Held
<1>6. CASE ~cut /\ wired = "none"
  BY <1>2, <1>3, <1>4, <1>6 DEF Held
<1> QED
  BY <1>1, <1>5, <1>6 DEF ReplicaTypes

---------------------------------------------------------------------------
(* The actions.                                                              *)

LEMMA CommitMirror ==
    ASSUME ReplicaInv, MirrorInv, NEW c, c.op \in Ops, Commit(c) PROVE MirrorInv'
<1> SUFFICES ASSUME ~gap', renamed' = "no" PROVE MirrorHolds'
  BY DEF MirrorInv
<1> DEFINE n == committed
<1>1. /\ UNCHANGED <<nodeUp, applied, snap, db, wired, reached, cut, gap>> /\ committed' = n + 1
      /\ truth' = Apply(truth, c, n + 1) /\ raftLog' = Append(raftLog, c)
  BY DEF Commit
<1>2. renamed = "no" /\ c.op \notin Renames
  BY DEF Commit, Renames
<1>3. ReplicaTypes /\ MirrorHolds
  BY <1>1, <1>2 DEF ReplicaInv, MirrorInv
<1>4. PICK past : Past(past) /\ FixedPast(past) /\ Held(past)
  BY <1>3 DEF MirrorHolds
<1>5. PICK next : next = Put(past, n + 1, truth')
  OBVIOUS
<1>6. Past(next)' /\ \A i \in snap.idx..n : next[i] = past[i]
  BY <1>3, <1>4, <1>5, CommitPast
<1>7. /\ n \in Nat /\ snap.idx \in Nat /\ n \in snap.idx..n /\ past[n] = truth /\ Good(truth, n)
      /\ next[n + 1] = truth' /\ Good(truth', n + 1) /\ reached \in snap.idx..n
      /\ Stand \in Nat /\ reached \in Nat /\ Stand <= reached /\ \A i \in Stand..reached : i \in snap.idx..n
  <2>1. n \in Nat /\ snap.idx \in Nat /\ n \in snap.idx..n /\ n + 1 \in snap.idx..(n + 1)
    BY <1>3 DEF ReplicaTypes
  <2>2. past[n] = truth /\ Good(truth, n)
    BY <1>4, <2>1 DEF Past
  <2>3. next[n + 1] = truth' /\ Good(truth', n + 1)
    BY <1>5, <1>1, <2>1, <2>2, PutMap, ApplyGood
  <2>4. /\ reached \in snap.idx..n /\ Stand \in Nat /\ reached \in Nat /\ Stand <= reached
        /\ \A i \in Stand..reached : i \in snap.idx..n
    BY <1>3, StandPlace
  <2> QED
    BY <2>1, <2>2, <2>3, <2>4
<1>8. Fixed(truth, truth', n)
  BY <1>1, <1>2, <1>7, StepFixed, FixedSame DEF Apply
<1> HIDE DEF n
<1>9. \A i, j \in snap.idx..(n + 1) : i <= j => Fixed(next[i], next[j], i)
  <2> SUFFICES ASSUME NEW i \in snap.idx..(n + 1), NEW j \in snap.idx..(n + 1), i <= j
               PROVE  Fixed(next[i], next[j], i)
    OBVIOUS
  <2>1. CASE i = j
    BY <2>1, FixedSame
  <2>2. CASE i # j /\ j # n + 1
    <3>1. i \in snap.idx..n /\ j \in snap.idx..n
      BY <1>7, <2>2
    <3> QED
      BY <1>4, <1>6, <3>1 DEF FixedPast, n
  <2>3. CASE i # j /\ j = n + 1
    <3>1. i \in snap.idx..n /\ i <= n /\ i \in Nat
      BY <1>7, <2>3
    <3>2. Fixed(past[i], truth, i)
      BY <1>4, <1>7, <3>1 DEF FixedPast, n
    <3>3. /\ DOMAIN truth'.tokens \subseteq Nat /\ DOMAIN truth'.orgs \subseteq Nat
          /\ DOMAIN truth'.teams \subseteq Nat /\ DOMAIN truth'.roles \subseteq Nat
          /\ DOMAIN truth'.mperms \subseteq Nat /\ DOMAIN truth'.members \subseteq Nat
      <4>1. 1..(n + 1) \subseteq Nat
        BY <1>7
      <4> QED
        BY <1>7, <4>1 DEF Good, TokensOK, OrgsOK, TeamsOK, RolesOK, MPermsOK, MembersOK, Table
    <3>4. PICK e : e = truth'
      OBVIOUS
    <3>5. Fixed(past[i], e, i)
      BY <1>7, <1>8, <3>1, <3>2, <3>3, <3>4, FixedOn
    <3> QED
      BY <1>6, <1>7, <2>3, <3>1, <3>4, <3>5
  <2> QED
    BY <2>1, <2>2, <2>3
<1>10. FixedPast(next)'
  BY <1>1, <1>9 DEF FixedPast, n
<1>11. next[reached] = past[reached] /\ \A i \in Stand..reached : next[i] = past[i]
  BY <1>6, <1>7
<1>12. Between(db, past, Stand, reached) => Between(db, next, Stand, reached)
  BY <1>7, <1>11, BetweenSame
<1>13. Stand' = Stand
  BY <1>1 DEF Stand
<1>14. Held(next)'
  BY <1>1, <1>4, <1>11, <1>12, <1>13 DEF Held
<1>15. \A i \in 1..Len(raftLog') : raftLog'[i].op \notin Renames
  <2>1. /\ Len(raftLog') = Len(raftLog) + 1 /\ Len(raftLog) \in Nat
        /\ \A i \in 1..Len(raftLog) : raftLog'[i] = raftLog[i]
        /\ raftLog'[Len(raftLog) + 1] = c
    BY <1>1, <1>3, LogAppend DEF ReplicaTypes
  <2>2. \A i \in 1..(Len(raftLog) + 1) : i \in 1..Len(raftLog) \/ i = Len(raftLog) + 1
    BY <2>1
  <2> QED
    BY <1>2, <1>3, <2>1, <2>2 DEF MirrorHolds
<1> QED
  BY <1>1, <1>3, <1>6, <1>10, <1>14, <1>15 DEF MirrorHolds

\* The node applies an entry that it had already applied before a restart.
LEMMA ReplayHeld ==
    ASSUME ReplicaTypes, MirrorHolds, NEW past, Past(past), FixedPast(past), Held(past),
           ApplyNext, applied < reached, ~gap'
    PROVE  Held(past)'
<1> DEFINE k == applied
           r == reached
           c == raftLog[k + 1 - snap.idx]
           called == Accepts(past[k], c) /\ HasCallback(c)
<1>1. /\ nodeUp /\ k \in snap.idx..(committed - 1) /\ k \in Nat /\ r \in Nat /\ snap.idx \in Nat
      /\ r \in snap.idx..committed /\ committed \in Nat /\ c.op \in Ops /\ applied' = k + 1
      /\ k \in snap.idx..committed /\ r \in k..committed
  <2>1. /\ nodeUp /\ k \in snap.idx..(committed - 1) /\ c.op \in Ops /\ applied' = k + 1
    BY ApplyTypes DEF ApplyNext
  <2> HIDE DEF c
  <2> QED
    BY <2>1, StandPlace
<1>2. c.op \notin Renames
  <2>1. k + 1 - snap.idx \in 1..Len(raftLog)
    <3>1. Len(raftLog) = committed - snap.idx
      BY DEF ReplicaTypes
    <3> QED
      BY <1>1, <3>1
  <2> QED
    BY <2>1 DEF MirrorHolds
<1>3. /\ UNCHANGED <<wired, snap, nodeUp>> /\ reached' = r /\ (cut' <=> cut /\ k + 1 < r)
      /\ db' = IF called THEN Mirror(db, c, k + 1) ELSE db
      /\ cut => HasCallback(c)
  <2>1. PICK i, x : /\ i = k + 1 /\ x = raftLog[i - snap.idx]
                    /\ db' = IF Accepts(fsm, x) /\ HasCallback(x) THEN Mirror(db, x, i) ELSE db
                    /\ reached' = (IF i > r THEN i ELSE r)
                    /\ cut' = (cut /\ i < r)
                    /\ gap' = (gap \/ ((i > r \/ cut) /\ ~HasCallback(x)))
    BY DEF ApplyNext
  <2>2. fsm = past[k]
    BY <1>1 DEF Past
  <2>3. ~(k + 1 > r)
    BY <1>1
  <2>4. x = c
    <3>1. i = k + 1 /\ x = raftLog[i - snap.idx]
      BY <2>1
    <3>2. k \in Nat /\ snap.idx \in Nat
      BY <1>1
    <3>3. i - snap.idx = k + 1 - snap.idx
      BY <3>1, <3>2
    <3> QED
      BY <3>1, <3>3 DEF c
  <2> HIDE DEF k, r, c
  <2>5. reached' = r /\ (cut' <=> cut /\ k + 1 < r)
    BY <2>1, <2>3
  <2>6. cut => HasCallback(c)
    BY <2>1, <2>4
  <2>7. db' = IF called THEN Mirror(db, c, k + 1) ELSE db
    BY <2>1, <2>2, <2>4
  <2>8. UNCHANGED <<wired, snap, nodeUp>>
    BY DEF ApplyNext
  <2> QED
    BY <2>5, <2>6, <2>7, <2>8
<1>4. past[k + 1] = Apply(past[k], c, k + 1)
  BY <1>1 DEF Past
<1>5. Chain(past, k, r) /\ k < r
  BY <1>1, ChainOf
<1>6. Stand = k /\ Stand' = k + 1
  BY <1>1, <1>3 DEF Stand
<1>7. wired \in {"none", "tokens", "all"} /\ cut \in BOOLEAN
  BY DEF ReplicaTypes
<1>8. /\ wired # "none" \/ cut => Between(db, past, k, r)
      /\ ~cut /\ wired = "tokens" => Ahead(db, past[r])
      /\ ~cut /\ wired = "none" => db = Primaries(past[r])
  BY <1>6 DEF Held
<1>9. HasCallback(c) <=> wired = "all" \/ (wired = "tokens" /\ c.op \in TokenOps)
  BY DEF HasCallback
<1> PICK d : d = db'
  OBVIOUS
<1> HIDE DEF c, k, r, called
<1>10. CASE HasCallback(c)
  <2>1. wired # "none" /\ Between(db, past, k, r)
    BY <1>8, <1>9, <1>10
  <2>2. d = IF Accepts(past[k], c) THEN Mirror(db, c, k + 1) ELSE db
    BY <1>3, <1>10 DEF called
  <2>3. Between(d, past, k + 1, r)
    BY <1>1, <1>2, <1>4, <1>5, <2>1, <2>2, StepMirrored
  <2>4. ASSUME ~cut', wired = "tokens" PROVE Ahead(d, past[r])
    <3>1. CASE cut
      <4>1. k + 1 = r
        BY <1>1, <1>3, <1>5, <2>4, <3>1
      <4>2. Chain(past, r, r)
        BY <1>1, <1>5, <4>1, ChainPart
      <4>3. d = Primaries(past[r])
        BY <2>3, <4>1, <4>2, BetweenEnds
      <4> QED
        BY <4>2, <4>3, BetweenLatest
    <3>2. CASE ~cut
      <4>1. Ahead(db, past[r]) /\ c.op \in TokenOps \ Renames
        BY <1>2, <1>8, <1>9, <1>10, <2>4, <3>2
      <4>2. CASE Accepts(past[k], c)
        <5>1. past[k + 1] = Effect(past[k], c, k + 1) /\ d = Mirror(db, c, k + 1)
          BY <1>4, <2>2, <4>2 DEF Apply
        <5> QED
          BY <1>5, <2>1, <4>1, <4>2, <5>1, AheadStep
      <4>3. CASE ~Accepts(past[k], c)
        BY <2>2, <4>1, <4>3
      <4> QED
        BY <4>2, <4>3
    <3> QED
      BY <3>1, <3>2
  <2> QED
    BY <1>3, <1>6, <2>1, <2>3, <2>4 DEF Held, r
<1>11. CASE ~HasCallback(c)
  <2>1. ~cut /\ ~cut' /\ d = db /\ wired \in {"none", "tokens"}
    BY <1>3, <1>7, <1>9, <1>11 DEF called
  <2>2. ASSUME wired = "tokens" PROVE Between(db, past, k + 1, r) /\ Ahead(db, past[r])
    <3>1. Between(db, past, k, r) /\ Ahead(db, past[r]) /\ c.op \in Ops \ TokenOps
      BY <1>1, <1>8, <1>9, <1>11, <2>1, <2>2
    <3> QED
      BY <1>4, <1>5, <3>1, AheadWaits
  <2> QED
    BY <1>3, <1>6, <1>8, <2>1, <2>2 DEF Held, r
<1> QED
  BY <1>10, <1>11

\* The node applies an entry for the first time.
LEMMA FirstHeld ==
    ASSUME ReplicaTypes, MirrorHolds, NEW past, Past(past), FixedPast(past), Held(past),
           ApplyNext, applied = reached, ~gap'
    PROVE  Held(past)'
<1> DEFINE k == applied
           c == raftLog[k + 1 - snap.idx]
<1>1. /\ nodeUp /\ k \in snap.idx..(committed - 1) /\ k \in Nat /\ snap.idx \in Nat
      /\ committed \in Nat /\ c.op \in Ops /\ applied' = k + 1 /\ reached = k
      /\ k \in snap.idx..committed /\ k + 1 \in k..committed /\ k \in k..(k + 1)
      /\ k + 1 \in k..(k + 1) /\ k + 1 \in (k + 1)..(k + 1)
  <2>1. /\ nodeUp /\ k \in snap.idx..(committed - 1) /\ c.op \in Ops /\ applied' = k + 1
    BY ApplyTypes DEF ApplyNext
  <2> HIDE DEF c
  <2> QED
    BY <2>1, StandPlace
<1>2. c.op \notin Renames
  <2>1. k + 1 - snap.idx \in 1..Len(raftLog)
    <3>1. Len(raftLog) = committed - snap.idx
      BY DEF ReplicaTypes
    <3> QED
      BY <1>1, <3>1
  <2> QED
    BY <2>1 DEF MirrorHolds
<1>3. /\ UNCHANGED <<wired, snap, nodeUp>> /\ reached' = k + 1 /\ ~cut'
      /\ db' = IF Accepts(past[k], c) THEN Mirror(db, c, k + 1) ELSE db
      /\ HasCallback(c)
  <2>1. PICK i, x : /\ i = k + 1 /\ x = raftLog[i - snap.idx]
                    /\ db' = IF Accepts(fsm, x) /\ HasCallback(x) THEN Mirror(db, x, i) ELSE db
                    /\ reached' = (IF i > reached THEN i ELSE reached)
                    /\ cut' = (cut /\ i < reached)
                    /\ gap' = (gap \/ ((i > reached \/ cut) /\ ~HasCallback(x)))
    BY DEF ApplyNext
  <2>2. fsm = past[k]
    BY <1>1 DEF Past
  <2>3. k + 1 > reached /\ ~(k + 1 < reached)
    BY <1>1
  <2>4. x = c
    <3>1. i = k + 1 /\ x = raftLog[i - snap.idx]
      BY <2>1
    <3>2. k \in Nat /\ snap.idx \in Nat
      BY <1>1
    <3>3. i - snap.idx = k + 1 - snap.idx
      BY <3>1, <3>2
    <3> QED
      BY <3>1, <3>3 DEF c
  <2> HIDE DEF k, c
  <2>5. reached' = k + 1 /\ ~cut'
    BY <2>1, <2>3
  <2>6. HasCallback(c)
    BY <2>1, <2>3, <2>4
  <2>7. db' = IF Accepts(past[k], c) THEN Mirror(db, c, k + 1) ELSE db
    BY <2>1, <2>2, <2>4, <2>6
  <2>8. UNCHANGED <<wired, snap, nodeUp>>
    BY DEF ApplyNext
  <2> QED
    BY <2>5, <2>6, <2>7, <2>8
<1>4. past[k + 1] = Apply(past[k], c, k + 1)
  BY <1>1 DEF Past
<1>5. Chain(past, k, k + 1) /\ k < k + 1
  BY <1>1, ChainOf
<1>6. Stand = k /\ Stand' = k + 1
  BY <1>1, <1>3 DEF Stand
<1>7. wired # "none" /\ Between(db, past, k, k)
  BY <1>1, <1>3, <1>6 DEF Held, HasCallback
<1> PICK d : d = db'
  OBVIOUS
<1> HIDE DEF c, k
<1>8. Between(db, past, k, k + 1)
  BY <1>5, <1>7, BetweenForward
<1>9. Between(d, past, k + 1, k + 1)
  <2>1. d = IF Accepts(past[k], c) THEN Mirror(db, c, k + 1) ELSE db
    BY <1>3
  <2> QED
    BY <1>1, <1>2, <1>4, <1>5, <1>8, <2>1, StepMirrored
<1>10. Chain(past, k + 1, k + 1)
  BY <1>1, <1>5, ChainPart
<1>11. d = Primaries(past[k + 1])
  BY <1>9, <1>10, BetweenEnds
<1>12. Ahead(d, past[k + 1])
  BY <1>10, <1>11, BetweenLatest
<1> QED
  BY <1>3, <1>6, <1>7, <1>9, <1>11, <1>12 DEF Held

LEMMA ApplyMirror ==
    ASSUME ReplicaInv, MirrorInv, ApplyNext PROVE MirrorInv'
<1> SUFFICES ASSUME ~gap', renamed' = "no" PROVE MirrorHolds'
  BY DEF MirrorInv
<1>1. /\ UNCHANGED <<committed, raftLog, snap, nodeUp, renamed>> /\ applied' = applied + 1 /\ nodeUp
      /\ reached' = (IF applied + 1 > reached THEN applied + 1 ELSE reached)
  BY DEF ApplyNext
<1>2. ~gap
  BY DEF ApplyNext
<1>3. ReplicaTypes /\ MirrorHolds
  BY <1>1, <1>2 DEF ReplicaInv, MirrorInv
<1>4. PICK past : Past(past) /\ FixedPast(past) /\ Held(past)
  BY <1>3 DEF MirrorHolds
<1>5. Past(past)' /\ FixedPast(past)'
  BY <1>1, <1>3, <1>4, ApplyPast DEF FixedPast
<1>6. /\ applied \in Nat /\ reached \in Nat /\ snap.idx \in Nat /\ applied <= reached
      /\ snap.idx <= reached
  BY <1>1, <1>3, StandPlace DEF MirrorHolds, Stand
<1>7. Held(past)'
  <2>1. CASE applied < reached
    BY <1>3, <1>4, <2>1, ReplayHeld
  <2>2. CASE applied = reached
    BY <1>3, <1>4, <2>2, FirstHeld
  <2> QED
    BY <1>6, <2>1, <2>2
<1>8. snap.idx <= reached' /\ applied + 1 <= reached'
  BY <1>1, <1>6
<1> QED
  BY <1>1, <1>3, <1>5, <1>7, <1>8 DEF MirrorHolds

LEMMA SnapshotMirror ==
    ASSUME ReplicaInv, MirrorInv, TakeSnapshot PROVE MirrorInv'
<1> SUFFICES ASSUME ~gap', renamed' = "no" PROVE MirrorHolds'
  BY DEF MirrorInv
<1>1. /\ UNCHANGED <<committed, nodeUp, applied, db, wired, reached, cut, gap, renamed>>
      /\ nodeUp /\ applied > snap.idx /\ snap'.idx = applied
      /\ raftLog' = SubSeq(raftLog, applied - snap.idx + 1, Len(raftLog))
  BY DEF TakeSnapshot, auth_history
<1>2. ReplicaTypes /\ MirrorHolds
  BY <1>1 DEF ReplicaInv, MirrorInv
<1>3. PICK past : Past(past) /\ FixedPast(past) /\ Held(past)
  BY <1>2 DEF MirrorHolds
<1>4. PICK next : next = Restrict(past, applied..committed)
  OBVIOUS
<1>5. Past(next)' /\ \A i \in applied..committed : next[i] = past[i]
  BY <1>2, <1>3, <1>4, SnapshotPast
<1>6. /\ applied \in Nat /\ reached \in Nat /\ committed \in Nat /\ snap.idx \in Nat
      /\ applied <= reached /\ reached <= committed
      /\ Len(raftLog) = committed - snap.idx /\ IsLog(raftLog) /\ applied <= committed
      /\ Stand = applied /\ Stand' = applied
  BY <1>1, <1>2, StandPlace DEF ReplicaTypes, MirrorHolds, Stand
<1>7. /\ \A i \in applied..committed : i \in snap.idx..committed
      /\ \A i \in applied..reached : i \in applied..committed
      /\ reached \in applied..reached
  BY <1>1, <1>6
<1>8. FixedPast(next)'
  BY <1>1, <1>3, <1>5, <1>7 DEF FixedPast
<1>9. next[reached] = past[reached] /\ \A i \in applied..reached : next[i] = past[i]
  BY <1>5, <1>7
<1>10. Between(db, past, applied, reached) => Between(db, next, applied, reached)
  BY <1>6, <1>9, BetweenSame
<1>11. Held(next)'
  BY <1>1, <1>3, <1>6, <1>9, <1>10 DEF Held
<1>12. \A i \in 1..Len(raftLog') : raftLog'[i].op \notin Renames
  <2> DEFINE k == applied - snap.idx
  <2>1. k \in Nat /\ k <= Len(raftLog) /\ raftLog' = SubSeq(raftLog, k + 1, Len(raftLog))
    BY <1>1, <1>6
  <2>2. /\ Len(raftLog') = Len(raftLog) - k /\ Len(raftLog) \in Nat
        /\ \A i \in 1..(Len(raftLog) - k) : raftLog'[i] = raftLog[k + i]
    <3>1. Len(raftLog) \in Nat
      BY <1>6
    <3> HIDE DEF k
    <3> QED
      BY <1>6, <2>1, <3>1, LogTail
  <2> HIDE DEF k
  <2>3. \A i \in 1..(Len(raftLog) - k) : k + i \in 1..Len(raftLog)
    BY <2>1, <2>2
  <2> QED
    BY <1>2, <2>2, <2>3 DEF MirrorHolds
<1> QED
  BY <1>1, <1>5, <1>6, <1>8, <1>11, <1>12 DEF MirrorHolds

LEMMA CrashMirror ==
    ASSUME ReplicaInv, MirrorInv, Crash PROVE MirrorInv'
<1> SUFFICES ASSUME ~gap', renamed' = "no" PROVE MirrorHolds'
  BY DEF MirrorInv
<1>1. /\ UNCHANGED <<committed, raftLog, snap, db, reached, gap, renamed>>
      /\ nodeUp /\ nodeUp' = FALSE /\ wired' = "none"
      /\ cut' = (cut \/ (wired # "none" /\ applied < reached))
  BY DEF Crash
<1>2. ReplicaTypes /\ MirrorHolds
  BY <1>1 DEF ReplicaInv, MirrorInv
<1>3. PICK past : Past(past) /\ FixedPast(past) /\ Held(past)
  BY <1>2 DEF MirrorHolds
<1>4. Past(past)' /\ FixedPast(past)'
  BY <1>1, <1>3, CrashReplica DEF FixedPast
<1>5. /\ Stand = applied /\ Stand' = snap.idx /\ snap.idx \in Nat /\ reached \in Nat
      /\ applied \in snap.idx..reached /\ snap.idx \in snap.idx..committed
      /\ reached \in snap.idx..committed /\ reached \in reached..committed
      /\ applied \in Nat /\ applied <= reached
  BY <1>1, <1>2, StandPlace DEF Stand
<1>6. Chain(past, snap.idx, reached) /\ Chain(past, reached, reached)
  <2>1. \A i \in snap.idx..committed : \A j \in i..committed : Chain(past, i, j)
    BY <1>2, <1>3, ChainOf
  <2>2. reached \in snap.idx..committed /\ snap.idx \in snap.idx..committed
    BY <1>5
  <2> QED
    BY <1>5, <2>1, <2>2
<1>7. ASSUME Between(db, past, applied, reached) PROVE Between(db, past, snap.idx, reached)
  BY <1>5, <1>6, <1>7, BetweenBack
<1>8. cut' => Between(db, past, snap.idx, reached)
  BY <1>1, <1>3, <1>5, <1>7 DEF Held
<1>9. ASSUME ~cut' PROVE db = Primaries(past[reached])
  <2>1. CASE wired = "none"
    BY <1>1, <1>3, <1>9, <2>1 DEF Held
  <2>2. CASE wired # "none"
    <3>1. applied = reached
      <4>1. ~(applied < reached)
        BY <1>1, <1>9, <2>2
      <4> QED
        BY <1>5, <4>1
    <3>2. Between(db, past, reached, reached)
      BY <1>3, <1>5, <2>2, <3>1 DEF Held
    <3> QED
      BY <1>6, <3>2, BetweenEnds
  <2> QED
    BY <2>1, <2>2
<1>10. Held(past)'
  BY <1>1, <1>5, <1>8, <1>9 DEF Held
<1> QED
  BY <1>1, <1>2, <1>4, <1>10 DEF MirrorHolds

LEMMA RestartMirror ==
    ASSUME ReplicaInv, MirrorInv, Restart PROVE MirrorInv'
<1> SUFFICES ASSUME ~gap', renamed' = "no" PROVE MirrorHolds'
  BY DEF MirrorInv
<1>1. /\ UNCHANGED <<committed, raftLog, snap, db, wired, reached, cut, gap, renamed>>
      /\ ~nodeUp /\ nodeUp' = TRUE /\ applied' = snap.idx
  BY DEF Restart, auth_history
<1>2. ReplicaTypes /\ MirrorHolds
  BY <1>1 DEF ReplicaInv, MirrorInv
<1>3. PICK past : Past(past) /\ FixedPast(past) /\ Held(past)
  BY <1>2 DEF MirrorHolds
<1>4. Past(past)' /\ FixedPast(past)'
  BY <1>1, <1>3, RestartReplica DEF FixedPast
<1>5. Stand' = snap.idx /\ Stand = snap.idx
  BY <1>1 DEF Stand
<1>6. Held(past)'
  BY <1>1, <1>3, <1>5 DEF Held
<1> QED
  BY <1>1, <1>2, <1>4, <1>6 DEF MirrorHolds

LEMMA CallbacksMirror ==
    ASSUME ReplicaInv, MirrorInv, SetAuthCallbacks \/ SetRBACCallbacks PROVE MirrorInv'
<1> SUFFICES ASSUME ~gap', renamed' = "no" PROVE MirrorHolds'
  BY DEF MirrorInv
<1>1. /\ UNCHANGED <<committed, raftLog, nodeUp, applied, snap, db, reached, cut, gap, renamed>>
      /\ nodeUp /\ ((wired = "none" /\ wired' = "tokens") \/ (wired = "tokens" /\ wired' = "all"))
  <2>1. CASE SetAuthCallbacks
    BY <2>1 DEF SetAuthCallbacks, auth_history
  <2>2. CASE SetRBACCallbacks
    BY <2>2 DEF SetRBACCallbacks, auth_history
  <2> QED
    BY <2>1, <2>2
<1>2. ReplicaTypes /\ MirrorHolds
  BY <1>1 DEF ReplicaInv, MirrorInv
<1>3. PICK past : Past(past) /\ FixedPast(past) /\ Held(past)
  BY <1>2 DEF MirrorHolds
<1>4. Past(past)' /\ FixedPast(past)'
  BY <1>1, <1>3, CallbacksReplica DEF FixedPast
<1>5. Stand' = Stand /\ Stand \in snap.idx..committed /\ reached \in Stand..committed
  BY <1>1, <1>2, StandPlace DEF Stand
<1>6. Chain(past, Stand, reached)
  BY <1>2, <1>3, <1>5, ChainOf
<1>7. CASE wired = "none" /\ wired' = "tokens"
  <2>1. ~cut => Between(db, past, Stand, reached) /\ Ahead(db, past[reached])
    BY <1>3, <1>6, <1>7, BetweenLatest DEF Held
  <2>2. Held(past)'
    BY <1>1, <1>3, <1>5, <1>7, <2>1 DEF Held
  <2> QED
    BY <1>1, <1>2, <1>4, <2>2 DEF MirrorHolds
<1>8. CASE wired = "tokens" /\ wired' = "all"
  <2>1. Held(past)'
    BY <1>1, <1>3, <1>5, <1>8 DEF Held
  <2> QED
    BY <1>1, <1>2, <1>4, <2>1 DEF MirrorHolds
<1> QED
  BY <1>1, <1>7, <1>8

LEMMA StutterMirror ==
    ASSUME ReplicaInv, MirrorInv, UNCHANGED auth_vars PROVE MirrorInv'
<1> SUFFICES ASSUME ~gap, renamed = "no" PROVE MirrorHolds'
  BY DEF MirrorInv, auth_vars
<1>1. UNCHANGED <<committed, truth, raftLog, nodeUp, fsm, applied, snap, db, wired, reached, cut>>
  BY DEF auth_vars
<1>2. PICK past : Past(past) /\ FixedPast(past) /\ Held(past)
  BY DEF MirrorInv, MirrorHolds
<1>3. Past(past)'
  BY <1>1, <1>2 DEF Past
<1>4. FixedPast(past)'
  BY <1>1, <1>2 DEF FixedPast
<1>5. Held(past)'
  BY <1>1, <1>2 DEF Held, Stand
<1> QED
  BY <1>1, <1>3, <1>4, <1>5 DEF MirrorInv, MirrorHolds

LEMMA NextMirror == ReplicaInv /\ MirrorInv /\ [ARNext]_auth_vars => MirrorInv'
<1> SUFFICES ASSUME ReplicaInv, MirrorInv, [ARNext]_auth_vars PROVE MirrorInv'
  OBVIOUS
<1>1. CASE UNCHANGED auth_vars
  BY <1>1, StutterMirror
<1>2. ASSUME NEW c \in Commands(truth) \cup Range(Seed), Commit(c) PROVE MirrorInv'
  BY <1>2, CommandOps, CommitMirror
<1>3. CASE ApplyNext
  BY <1>3, ApplyMirror
<1>4. CASE TakeSnapshot
  BY <1>4, SnapshotMirror
<1>5. CASE Crash
  BY <1>5, CrashMirror
<1>6. CASE Restart
  BY <1>6, RestartMirror
<1>7. CASE SetAuthCallbacks \/ SetRBACCallbacks
  BY <1>7, CallbacksMirror
<1>8. CASE InstallSnapshot
  <2>1. gap'
    BY <1>8 DEF InstallSnapshot
  <2> QED
    BY <2>1 DEF MirrorInv
<1> QED
  BY <1>1, <1>2, <1>3, <1>4, <1>5, <1>6, <1>7, <1>8 DEF ARNext

\* The SQLite mirror: whatever the crashes and whatever part of the log the
\* callbacks saw a second time, as long as no name changed hands and no entry
\* passed without its callback, a node that has applied every committed entry
\* holds in its auth tables exactly what the commands made of them
\* (the Apply callbacks of bridge.go, replayed over rows they wrote before).
THEOREM MirrorAgreesCorrect == ARSpec => []MirrorAgrees
<1>1. ARInit => ReplicaInv /\ MirrorInv
  BY InitReplica, InitMirror
<1>2. ReplicaInv /\ MirrorInv /\ [ARNext]_auth_vars => (ReplicaInv /\ MirrorInv)'
  BY NextReplica, NextMirror
<1>3. ReplicaInv /\ MirrorInv => MirrorAgrees
  BY MirrorCaughtUp
<1> QED
  BY <1>1, <1>2, <1>3, PTL DEF ARSpec
=============================================================================
