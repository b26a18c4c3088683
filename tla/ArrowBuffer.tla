---------------------------- MODULE ArrowBuffer ----------------------------
(***************************************************************************)
(* The sharded ingest buffer of internal/ingest/arrow_writer.go: request   *)
(* handlers append typed column batches under a shard lock, and four kinds *)
(* of goroutine take batches out again and write them as Parquet files:    *)
(*   - the handler itself, when its batch changes the schema of a key;     *)
(*   - the flush workers, fed through the bounded channel flushQueue;      *)
(*   - the periodicFlush goroutine (here "Ticker");                        *)
(*   - a sweep over all shards: FlushAll calls, and Close ("Closer").      *)
(* flushBufferLocked releases the shard lock around its storage I/O, so    *)
(* every flush is modelled as: extract under the lock, one storage write   *)
(* per hour partition, register, and come back.  A critical section that   *)
(* does no I/O is one action, hence the lock itself needs no variable.     *)
(* A batch stands for the rows of one write call.                          *)
(***************************************************************************)
EXTENDS Naturals, Sequences, FiniteSets, FiniteSetsExt

CONSTANTS
    Batches,        \* the batches that write calls bring, one call each
    Keys,           \* buffer keys "database/measurement"
    Shards,         \* lock shards
    Sigs,           \* column signatures (names and types)
    Hours,          \* hour partitions
    Workers,        \* flush workers
    FlushCalls,     \* calls of FlushAll
    KeyOf, SigOf, RowsOf, HoursOf,  \* what each batch carries
    ShardOf,        \* getShard: FNV hash of the key
    MaxBufferSize,  \* rows after which a buffer is handed to the workers
    QueueSize,      \* capacity of flushQueue
    MaxIters,       \* schemaEvolutionMaxIters
    StorageMayFail, \* whether storage.Write may return an error
    MayClose,       \* whether Close is called
    NoSig           \* no entry in bufferSchemas

Ticker  == "periodicFlush"
Closer  == "Close"
Sweeper == FlushCalls \cup {Closer}
Flusher == Batches \cup Workers \cup {Ticker} \cup Sweeper

ASSUME BufferConstants ==
    /\ KeyOf \in [Batches -> Keys]
    /\ SigOf \in [Batches -> Sigs]
    /\ RowsOf \in [Batches -> Nat \ {0}]
    /\ HoursOf \in [Batches -> (SUBSET Hours) \ {{}}]
    /\ ShardOf \in [Keys -> Shards]
    /\ MaxBufferSize \in Nat \ {0}
    /\ QueueSize \in Nat \ {0}
    /\ MaxIters \in Nat \ {0}
    /\ StorageMayFail \in BOOLEAN
    /\ MayClose \in BOOLEAN
    /\ NoSig \notin Sigs

\* The four kinds of flusher are different goroutines.
ASSUME FlushersDistinct ==
    /\ Batches \cap Workers = {}
    /\ FlushCalls \cap (Batches \cup Workers) = {}
    /\ Ticker \notin Batches \cup Workers \cup Sweeper
    /\ Closer \notin Batches \cup Workers \cup FlushCalls

VARIABLES
    pc,          \* progress of the write call of each batch
    iters,       \* iterations of its schema-evolution loop
    extracted,   \* its local recordsToFlush, between unlock and enqueue
    buffers,     \* shard.buffers: the batches held for each key
    counts,      \* shard.bufferRecordCounts
    schemas,     \* shard.bufferSchemas
    flushQueue,  \* the channel, a FIFO of sets of batches
    fstate,      \* what each flusher is doing
    flight,      \* the batches it has taken out
    todoHours,   \* hour partitions it has still to write
    stored,      \* files written to object storage, per (batch, hour)
    registered,  \* (batch, hour) announced in tiering and cluster manifest
    failed,      \* batches of a flush that returned an error
    dropped,     \* batches not queued: "data preserved in WAL"
    hasFlushFailure,
    closing,     \* b.closing
    ctxDone,     \* b.ctx cancelled
    sweep,       \* progress of each FlushAll call and of Close
    shardsLeft, keysLeft,  \* its loop variables
    sweepErr,    \* its lastErr is not nil
    asked        \* history: the batches accepted when it was called

callVars  == <<pc, iters, extracted>>
shardVars == <<buffers, counts, schemas>>
diskVars  == <<stored, registered>>
lossVars  == <<failed, dropped, hasFlushFailure>>
sweepVars == <<sweep, shardsLeft, keysLeft, sweepErr, asked>>
flushVars == <<fstate, flight, todoHours>>
vars == <<callVars, shardVars, flushQueue, flushVars, diskVars, lossVars,
          closing, ctxDone, sweepVars>>

Pieces == Batches \X Hours
PiecesOf(S) == {q \in S \X Hours : q[2] \in HoursOf[q[1]]}
HoursIn(S)  == UNION {HoursOf[b] : b \in S}

PcStates    == {"write", "evolve", "enqueue", "send",
                "accepted", "cancelled", "churn"}
FlushStates == {"idle", "io", "ok", "err", "exited"}
SweepStates == {"open", "cancel", "wait", "sweep", "done"}

Init ==
    /\ pc = [b \in Batches |-> "write"]
    /\ iters = [b \in Batches |-> 0]
    /\ extracted = [b \in Batches |-> {}]
    /\ buffers = [k \in Keys |-> {}]
    /\ counts = [k \in Keys |-> 0]
    /\ schemas = [k \in Keys |-> NoSig]
    /\ flushQueue = <<>>
    /\ fstate = [p \in Flusher |-> "idle"]
    /\ flight = [p \in Flusher |-> {}]
    /\ todoHours = [p \in Flusher |-> {}]
    /\ stored = [q \in Pieces |-> 0]
    /\ registered = {}
    /\ failed = {}
    /\ dropped = {}
    /\ hasFlushFailure = FALSE
    /\ closing = FALSE
    /\ ctxDone = FALSE
    /\ sweep = [s \in Sweeper |-> "open"]
    /\ shardsLeft = [s \in Sweeper |-> {}]
    /\ keysLeft = [s \in Sweeper |-> {}]
    /\ sweepErr = [s \in Sweeper |-> FALSE]
    /\ asked = [s \in Sweeper |-> {}]

-----------------------------------------------------------------------------
(* Helpers shared by the flush paths.                                      *)

\* The four map deletes that empty a key under the lock.
ClearKey(k) ==
    /\ buffers' = [buffers EXCEPT ![k] = {}]
    /\ counts' = [counts EXCEPT ![k] = 0]
    /\ schemas' = [schemas EXCEPT ![k] = NoSig]

\* Flusher p starts the I/O of flushPartitionedData for the batches S.
StartFlush(p, S) ==
    /\ fstate' = [fstate EXCEPT ![p] = "io"]
    /\ flight' = [flight EXCEPT ![p] = S]
    /\ todoHours' = [todoHours EXCEPT ![p] = HoursIn(S)]

\* flushBufferLocked up to the unlock: key k is emptied into p's hands.
ExtractKey(p, k) ==
    /\ buffers[k] # {}
    /\ StartFlush(p, buffers[k])
    /\ ClearKey(k)

\* Variants: the error is not recorded; the goroutine stops at an error.
FinishFlushSilently(p) ==
    /\ fstate[p] \in {"ok", "err"}
    /\ fstate' = [fstate EXCEPT ![p] = "idle"]
    /\ flight' = [flight EXCEPT ![p] = {}]
    /\ UNCHANGED <<todoHours, lossVars>>

FinishFlushOrStop(p) ==
    /\ fstate[p] \in {"ok", "err"}
    /\ fstate' = [fstate EXCEPT ![p] = IF @ = "ok" THEN "idle" ELSE "exited"]
    /\ flight' = [flight EXCEPT ![p] = {}]
    /\ failed' = failed \cup (IF fstate[p] = "err" THEN flight[p] ELSE {})
    /\ hasFlushFailure' = (hasFlushFailure \/ fstate[p] = "err")
    /\ UNCHANGED <<todoHours, dropped>>

\* p is back from flushPartitionedData; an error is recorded by
\* markFlushFailure once p holds the lock again.
FinishFlush(p) ==
    /\ fstate[p] \in {"ok", "err"}
    /\ fstate' = [fstate EXCEPT ![p] = "idle"]
    /\ flight' = [flight EXCEPT ![p] = {}]
    /\ IF fstate[p] = "err"
       THEN /\ failed' = failed \cup flight[p]
            /\ hasFlushFailure' = TRUE
       ELSE UNCHANGED <<failed, hasFlushFailure>>
    /\ UNCHANGED <<todoHours, dropped>>

\* Variant: the records are let go and nobody is told.
ForgetExtracted(b) ==
    /\ extracted' = [extracted EXCEPT ![b] = {}]
    /\ pc' = [pc EXCEPT ![b] = "accepted"]
    /\ UNCHANGED <<flushQueue, dropped>>

\* "Data preserved in WAL": the records of call b are let go.
DropExtracted(b) ==
    /\ dropped' = dropped \cup extracted[b]
    /\ extracted' = [extracted EXCEPT ![b] = {}]
    /\ pc' = [pc EXCEPT ![b] = "accepted"]
    /\ UNCHANGED flushQueue

-----------------------------------------------------------------------------
(* The write call of batch b: writeColumnarInternal and its typed twin.    *)

NoSchemaConflict(b) == FALSE  \* variant: schemas are not compared

SchemaConflict(b) == schemas[KeyOf[b]] \notin {NoSig, SigOf[b]}

\* Variant: a context cancelled after the append refuses the call too.
CancelWriteLate(b) ==
    /\ pc[b] \in {"write", "enqueue"}
    /\ pc' = [pc EXCEPT ![b] = "cancelled"]
    /\ UNCHANGED <<iters, extracted, shardVars, flushQueue, flushVars,
                   diskVars, lossVars, closing, ctxDone, sweepVars>>

\* The request context is checked on each turn of the evolution loop.
CancelWrite(b) ==
    /\ pc[b] = "write"
    /\ iters[b] < MaxIters
    /\ pc' = [pc EXCEPT ![b] = "cancelled"]
    /\ UNCHANGED <<iters, extracted, shardVars, flushQueue, flushVars,
                   diskVars, lossVars, closing, ctxDone, sweepVars>>

\* One turn of flushOnSchemaChangeLocked: flush the buffer that holds
\* another schema.  The lock is released until EvolveReturn.
EvolveSchema(b) ==
    /\ pc[b] = "write"
    /\ iters[b] < MaxIters
    /\ SchemaConflict(b)
    /\ ExtractKey(b, KeyOf[b])
    /\ pc' = [pc EXCEPT ![b] = "evolve"]
    /\ iters' = [iters EXCEPT ![b] = @ + 1]
    /\ UNCHANGED <<extracted, flushQueue, diskVars, lossVars, closing,
                   ctxDone, sweepVars>>

\* A flush error is only logged here: the loop goes on either way.
EvolveReturn(b) ==
    /\ pc[b] = "evolve"
    /\ FinishFlush(b)
    /\ pc' = [pc EXCEPT ![b] = "write"]
    /\ UNCHANGED <<iters, extracted, shardVars, flushQueue, diskVars,
                   closing, ctxDone, sweepVars>>

\* Variant: the loop's bound is off by one.
ChurnOffByOne(b) ==
    /\ pc[b] = "write"
    /\ iters[b] > MaxIters
    /\ pc' = [pc EXCEPT ![b] = "churn"]
    /\ UNCHANGED <<iters, extracted, shardVars, flushQueue, flushVars,
                   diskVars, lossVars, closing, ctxDone, sweepVars>>

\* The loop ends after MaxIters flushes without looking at the schema again.
ChurnExceeded(b) ==
    /\ pc[b] = "write"
    /\ iters[b] = MaxIters
    /\ pc' = [pc EXCEPT ![b] = "churn"]
    /\ UNCHANGED <<iters, extracted, shardVars, flushQueue, flushVars,
                   diskVars, lossVars, closing, ctxDone, sweepVars>>

\* Append under the lock; at MaxBufferSize rows extract everything.
AppendBatch(b) ==
    LET k == KeyOf[b]
        total == counts[k] + RowsOf[b]
    IN  /\ pc[b] = "write"
        /\ iters[b] < MaxIters
        /\ ~SchemaConflict(b)
        /\ IF total >= MaxBufferSize
           THEN /\ extracted' = [extracted EXCEPT ![b] = buffers[k] \cup {b}]
                /\ ClearKey(k)
                /\ pc' = [pc EXCEPT ![b] = "enqueue"]
           ELSE /\ buffers' = [buffers EXCEPT ![k] = @ \cup {b}]
                /\ counts' = [counts EXCEPT ![k] = total]
                /\ schemas' = [schemas EXCEPT ![k] = SigOf[b]]
                /\ pc' = [pc EXCEPT ![b] = "accepted"]
                /\ UNCHANGED extracted
        /\ UNCHANGED <<iters, flushQueue, flushVars, diskVars, lossVars,
                       closing, ctxDone, sweepVars>>

\* tryEnqueueFlush loads the closing flag ...
CheckClosing(b) ==
    /\ pc[b] = "enqueue"
    /\ IF closing
       THEN DropExtracted(b)
       ELSE /\ pc' = [pc EXCEPT ![b] = "send"]
            /\ UNCHANGED <<extracted, flushQueue, dropped>>
    /\ UNCHANGED <<iters, shardVars, flushVars, diskVars, failed,
                   hasFlushFailure, closing, ctxDone, sweepVars>>

\* ... and then selects: a free slot in the channel, a cancelled context
\* (either one when both are ready), and the default arm when neither is.
SendFlush(b) ==
    /\ pc[b] = "send"
    /\ \/ /\ Len(flushQueue) < QueueSize
          /\ flushQueue' = Append(flushQueue, extracted[b])
          /\ extracted' = [extracted EXCEPT ![b] = {}]
          /\ pc' = [pc EXCEPT ![b] = "accepted"]
          /\ UNCHANGED dropped
       \/ /\ ctxDone \/ Len(flushQueue) = QueueSize
          /\ DropExtracted(b)
    /\ UNCHANGED <<iters, shardVars, flushVars, diskVars, failed,
                   hasFlushFailure, closing, ctxDone, sweepVars>>

-----------------------------------------------------------------------------
(* flushPartitionedData, run by whichever flusher p holds the batches.     *)

\* One storage.Write: the file of one hour partition.
WriteHour(p) ==
    /\ fstate[p] = "io"
    /\ \E h \in todoHours[p] :
        /\ stored' = [q \in Pieces |->
              IF q \in PiecesOf(flight[p]) /\ q[2] = h
              THEN stored[q] + 1 ELSE stored[q]]
        /\ todoHours' = [todoHours EXCEPT ![p] = @ \ {h}]
    /\ UNCHANGED <<callVars, shardVars, flushQueue, fstate, flight,
                   registered, lossVars, closing, ctxDone, sweepVars>>

\* Encoding or storage.Write fails, or its context is cancelled or times
\* out: the hours still to do are abandoned, those written stay written.
FlushError(p) ==
    /\ fstate[p] = "io"
    /\ todoHours[p] # {}
    /\ StorageMayFail \/ (ctxDone /\ p \in Workers \cup {Ticker})
    /\ fstate' = [fstate EXCEPT ![p] = "err"]
    /\ todoHours' = [todoHours EXCEPT ![p] = {}]
    /\ UNCHANGED <<callVars, shardVars, flushQueue, flight, diskVars,
                   lossVars, closing, ctxDone, sweepVars>>

\* Variant: registration while hours are still to be written.
RegisterEarly(p) ==
    /\ fstate[p] = "io"
    /\ registered' = registered \cup PiecesOf(flight[p])
    /\ fstate' = [fstate EXCEPT ![p] = IF todoHours[p] = {} THEN "ok" ELSE @]
    /\ UNCHANGED <<callVars, shardVars, flushQueue, flight, todoHours,
                   stored, lossVars, closing, ctxDone, sweepVars>>

\* Registration happens only after the write of the last hour.
RegisterFiles(p) ==
    /\ fstate[p] = "io"
    /\ todoHours[p] = {}
    /\ registered' = registered \cup PiecesOf(flight[p])
    /\ fstate' = [fstate EXCEPT ![p] = "ok"]
    /\ UNCHANGED <<callVars, shardVars, flushQueue, flight, todoHours,
                   stored, lossVars, closing, ctxDone, sweepVars>>

-----------------------------------------------------------------------------
(* Flush workers and the periodic flush.                                   *)

\* select is free to take a task even when the context is done.
WorkerTake(w) ==
    /\ fstate[w] = "idle"
    /\ flushQueue # <<>>
    /\ StartFlush(w, Head(flushQueue))
    /\ flushQueue' = Tail(flushQueue)
    /\ UNCHANGED <<callVars, shardVars, diskVars, lossVars, closing, ctxDone,
                   sweepVars>>

\* flushAgedBuffers reaches a key that is old enough.  Age is left open:
\* any buffered key may be due.
TickerTake(k) ==
    /\ fstate[Ticker] = "idle"
    /\ ExtractKey(Ticker, k)
    /\ UNCHANGED <<callVars, flushQueue, diskVars, lossVars, closing, ctxDone,
                   sweepVars>>

BackgroundReturn(p) ==
    /\ FinishFlush(p)
    /\ UNCHANGED <<callVars, shardVars, flushQueue, diskVars, closing,
                   ctxDone, sweepVars>>

BackgroundExit(p) ==
    /\ ctxDone
    /\ fstate[p] = "idle"
    /\ fstate' = [fstate EXCEPT ![p] = "exited"]
    /\ UNCHANGED <<callVars, shardVars, flushQueue, flight, todoHours,
                   diskVars, lossVars, closing, ctxDone, sweepVars>>

\* Called by WAL maintenance once it has replayed the log.
ResetFlushFailure ==
    /\ hasFlushFailure
    /\ hasFlushFailure' = FALSE
    /\ UNCHANGED <<callVars, shardVars, flushQueue, flushVars, diskVars,
                   failed, dropped, closing, ctxDone, sweepVars>>

-----------------------------------------------------------------------------
(* FlushAll, and Close around the same sweep over the shards.              *)

Accepted == {b \in Batches : pc[b] = "accepted"}

BeginFlushAll(s) ==
    /\ sweep[s] = "open"
    /\ asked' = [asked EXCEPT ![s] = Accepted]
    /\ sweep' = [sweep EXCEPT ![s] = "sweep"]
    /\ shardsLeft' = [shardsLeft EXCEPT ![s] = Shards]
    /\ UNCHANGED <<callVars, shardVars, flushQueue, flushVars, diskVars,
                   lossVars, closing, ctxDone, keysLeft, sweepErr>>

\* Close: the flag first, then the context, then wait for the goroutines.
CloseFlag ==
    /\ MayClose
    /\ sweep[Closer] = "open"
    /\ closing' = TRUE
    /\ asked' = [asked EXCEPT ![Closer] = Accepted]
    /\ sweep' = [sweep EXCEPT ![Closer] = "cancel"]
    /\ UNCHANGED <<callVars, shardVars, flushQueue, flushVars, diskVars,
                   lossVars, ctxDone, shardsLeft, keysLeft, sweepErr>>

CloseCancel ==
    /\ sweep[Closer] = "cancel"
    /\ ctxDone' = TRUE
    /\ sweep' = [sweep EXCEPT ![Closer] = "wait"]
    /\ UNCHANGED <<callVars, shardVars, flushQueue, flushVars, diskVars,
                   lossVars, closing, shardsLeft, keysLeft, sweepErr, asked>>

CloseWait ==
    /\ sweep[Closer] = "wait"
    /\ \A p \in Workers \cup {Ticker} : fstate[p] = "exited"
    /\ sweep' = [sweep EXCEPT ![Closer] = "sweep"]
    /\ shardsLeft' = [shardsLeft EXCEPT ![Closer] = Shards]
    /\ UNCHANGED <<callVars, shardVars, flushQueue, flushVars, diskVars,
                   lossVars, closing, ctxDone, keysLeft, sweepErr, asked>>

\* Lock the next shard and copy its keys; later keys are not seen.
SweepShard(s) ==
    /\ sweep[s] = "sweep"
    /\ fstate[s] = "idle"
    /\ keysLeft[s] = {}
    /\ \E d \in shardsLeft[s] :
        /\ shardsLeft' = [shardsLeft EXCEPT ![s] = @ \ {d}]
        /\ keysLeft' = [keysLeft EXCEPT ![s] =
              {k \in Keys : ShardOf[k] = d /\ buffers[k] # {}}]
    /\ UNCHANGED <<callVars, shardVars, flushQueue, flushVars, diskVars,
                   lossVars, closing, ctxDone, sweep, sweepErr, asked>>

\* Flush one copied key; another goroutine may have emptied it meanwhile.
\* The lock is held from one key to the next: a step of another goroutine
\* in between stands for one during the I/O before it.
SweepKey(s) ==
    /\ sweep[s] = "sweep"
    /\ fstate[s] = "idle"
    /\ \E k \in keysLeft[s] :
        /\ keysLeft' = [keysLeft EXCEPT ![s] = @ \ {k}]
        /\ \/ ExtractKey(s, k)
           \/ buffers[k] = {} /\ UNCHANGED <<shardVars, flushVars>>
    /\ UNCHANGED <<callVars, flushQueue, diskVars, lossVars, closing, ctxDone,
                   sweep, shardsLeft, sweepErr, asked>>

\* Variant: the sweep ends at the first error.
SweepReturnOrEnd(s) ==
    /\ sweep[s] = "sweep"
    /\ FinishFlush(s)
    /\ sweepErr' = [sweepErr EXCEPT ![s] = @ \/ fstate[s] = "err"]
    /\ sweep' = [sweep EXCEPT ![s] = IF fstate[s] = "err" THEN "done" ELSE @]
    /\ UNCHANGED <<callVars, shardVars, flushQueue, diskVars, closing,
                   ctxDone, shardsLeft, keysLeft, asked>>

SweepReturn(s) ==
    /\ sweep[s] = "sweep"
    /\ FinishFlush(s)
    /\ sweepErr' = [sweepErr EXCEPT ![s] = @ \/ fstate[s] = "err"]
    /\ UNCHANGED <<callVars, shardVars, flushQueue, diskVars, closing,
                   ctxDone, sweep, shardsLeft, keysLeft, asked>>

SweepEnd(s) ==
    /\ sweep[s] = "sweep"
    /\ fstate[s] = "idle"
    /\ shardsLeft[s] = {} /\ keysLeft[s] = {}
    /\ sweep' = [sweep EXCEPT ![s] = "done"]
    /\ UNCHANGED <<callVars, shardVars, flushQueue, flushVars, diskVars,
                   lossVars, closing, ctxDone, shardsLeft, keysLeft, sweepErr, asked>>

-----------------------------------------------------------------------------
WriteCall(b) ==
    \/ EvolveSchema(b) \/ EvolveReturn(b) \/ ChurnExceeded(b)
    \/ AppendBatch(b) \/ CheckClosing(b) \/ SendFlush(b)

FlushIO(p) == WriteHour(p) \/ FlushError(p) \/ RegisterFiles(p)

Background(p) == BackgroundReturn(p) \/ BackgroundExit(p)

SweepStep(s) ==
    SweepShard(s) \/ SweepKey(s) \/ SweepReturn(s) \/ SweepEnd(s)

CloseStep == CloseFlag \/ CloseCancel \/ CloseWait

Next ==
    \/ \E b \in Batches : WriteCall(b) \/ CancelWrite(b)
    \/ \E p \in Flusher : FlushIO(p)
    \/ \E w \in Workers : WorkerTake(w)
    \/ \E k \in Keys : TickerTake(k)
    \/ \E p \in Workers \cup {Ticker} : Background(p)
    \/ \E s \in FlushCalls : BeginFlushAll(s)
    \/ \E s \in Sweeper : SweepStep(s)
    \/ CloseStep
    \/ ResetFlushFailure

Spec == Init /\ [][Next]_vars

-----------------------------------------------------------------------------
(* Fairness: every goroutine that can run runs.  A storage call ends, since
   flushTimeout bounds it, and the timer of periodicFlush is rearmed after
   every use; nothing is assumed of the order in which select chooses, and
   no request needs to be cancelled.                                        *)
Fairness ==
    /\ \A b \in Batches : WF_vars(WriteCall(b))
    /\ \A p \in Flusher : WF_vars(FlushIO(p))
    /\ \A w \in Workers : WF_vars(WorkerTake(w))
    /\ WF_vars(\E k \in Keys : TickerTake(k))
    /\ \A p \in Workers \cup {Ticker} :
          WF_vars(BackgroundReturn(p)) /\ WF_vars(BackgroundExit(p))
    /\ \A s \in Sweeper : WF_vars(SweepStep(s))
    /\ WF_vars(CloseCancel \/ CloseWait)

FairSpec == Spec /\ Fairness

-----------------------------------------------------------------------------
(* What the properties speak of.                                           *)

\* Batches whose call has got past the append.
Appended == {b \in Batches : pc[b] \in {"enqueue", "send", "accepted"}}

\* Everything that is taken out of a buffer together.
Groups == {buffers[k] : k \in Keys} \cup {extracted[b] : b \in Batches}
          \cup {flushQueue[i] : i \in 1..Len(flushQueue)}
          \cup {flight[p] : p \in Flusher}

Durable == {b \in Batches : PiecesOf({b}) \subseteq registered}

\* Flushers that hold their batches, not yet registered or given up.
Carrying == {p \in Flusher : fstate[p] \in {"io", "err"}}

\* Where batch b is now; "ends" are the three ways out of memory.
Places(b) ==
    {<<"buffer", k>> : k \in {j \in Keys : b \in buffers[j]}}
    \cup {<<"call", c>> : c \in {d \in Batches : b \in extracted[d]}}
    \cup {<<"queue", i>> : i \in {j \in 1..Len(flushQueue) : b \in flushQueue[j]}}
    \cup {<<"flight", p>> : p \in {r \in Carrying : b \in flight[r]}}
Ends(b) ==
    {e \in {"durable", "failed", "dropped"} :
        \/ e = "durable" /\ b \in Durable
        \/ e = "failed" /\ b \in failed
        \/ e = "dropped" /\ b \in dropped}

Rows(S) == MapThenSumSet(LAMBDA b : RowsOf[b], S)

-----------------------------------------------------------------------------
(* Invariants.                                                             *)

CallType ==
    /\ pc \in [Batches -> PcStates]
    /\ iters \in [Batches -> 0..MaxIters]
    /\ extracted \in [Batches -> SUBSET Batches]

ShardType ==
    /\ buffers \in [Keys -> SUBSET Batches]
    /\ counts \in [Keys -> Nat]
    /\ schemas \in [Keys -> Sigs \cup {NoSig}]

FlushType ==
    /\ flushQueue \in Seq(SUBSET Batches)
    /\ fstate \in [Flusher -> FlushStates]
    /\ flight \in [Flusher -> SUBSET Batches]
    /\ todoHours \in [Flusher -> SUBSET Hours]

OutcomeType ==
    /\ stored \in [Pieces -> Nat]
    /\ registered \subseteq Pieces
    /\ failed \subseteq Batches
    /\ dropped \subseteq Batches
    /\ hasFlushFailure \in BOOLEAN

SweepType ==
    /\ closing \in BOOLEAN
    /\ ctxDone \in BOOLEAN
    /\ sweep \in [Sweeper -> SweepStates]
    /\ shardsLeft \in [Sweeper -> SUBSET Shards]
    /\ keysLeft \in [Sweeper -> SUBSET Keys]
    /\ sweepErr \in [Sweeper -> BOOLEAN]
    /\ asked \in [Sweeper -> SUBSET Batches]

\* Every variable of the ArrowBuffer has its type.
TypeOK == CallType /\ ShardType /\ FlushType /\ OutcomeType /\ SweepType

\* Batches merged into one flush have one key and one signature: the type
\* assertions of mergeBatches would panic on anything else.
OneSchemaPerFlush ==
    \A S \in Groups : \A a, b \in S :
        KeyOf[a] = KeyOf[b] /\ SigOf[a] = SigOf[b]

\* A batch that was appended is in exactly one place: one buffer, one
\* call's hands, one queue slot, one flusher, or it has ended exactly one
\* way.  Nothing appended while another goroutine does the I/O of the same
\* key is wiped with it, nothing is handed to two flushers or written to two
\* files, and the counter and the schema of a key, which decide when it is
\* flushed and with what, are those of the batches it still holds, whoever
\* emptied it during an I/O.
HeldExactlyOnce ==
    /\ \A b \in Appended : Cardinality(Places(b)) + Cardinality(Ends(b)) = 1
    /\ \A q \in Pieces : stored[q] <= 1
    /\ \A k \in Keys :
        /\ buffers[k] = {} <=> schemas[k] = NoSig
        /\ counts[k] = Rows(buffers[k]) /\ counts[k] < MaxBufferSize

\* What the manifest announces is complete: a multi-hour flush that fails
\* half way announces none of its files.
RegisteredComplete ==
    \A q \in registered : \A r \in PiecesOf({q[1]}) :
        r \in registered /\ stored[r] >= 1

\* When FlushAll or Close has ended, whatever was accepted before it began
\* has left the shard maps, even if the flush of some key failed.
SweepEmptiesBuffers ==
    \A s \in Sweeper : sweep[s] = "done" =>
        \A k \in Keys : asked[s] \cap buffers[k] = {}


-----------------------------------------------------------------------------
(* The buffer implements its contract.                                     *)

StatusOf(b) ==
    IF pc[b] \in {"write", "evolve"} THEN "calling"
    ELSE IF pc[b] \in {"cancelled", "churn"} THEN "refused"
    ELSE IF b \in dropped THEN "dropped"
    ELSE IF b \in failed THEN "failed"
    ELSE IF b \in Durable THEN "durable" ELSE "held"

Contract == INSTANCE BufferContract WITH
                status <- [b \in Batches |-> StatusOf(b)]

\* Every step of the buffer's goroutines keeps the promise of
\* BufferContract: nothing is both refused and kept, no batch settles
\* twice or changes how it settled, and a flush settles as a whole.
KeepsContract == Contract!Spec

-----------------------------------------------------------------------------
(* Liveness.                                                               *)

\* Unless the buffer is closed every appended batch leaves memory: it becomes
\* durable, or is reported failed or dropped.
MemoryDrains ==
    \A b \in Batches : b \in Appended ~> Ends(b) # {} \/ closing

\* Every write call returns, however its schema loop is contended, and Close
\* comes to an end: no worker or ticker outlives the cancelled context, and
\* the sweep cannot be kept busy by late writers.
CallsReturn ==
    /\ \A b \in Batches : <>(pc[b] \in {"accepted", "cancelled", "churn"})
    /\ sweep[Closer] = "cancel" ~> sweep[Closer] = "done"
=============================================================================
