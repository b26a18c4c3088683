------------------------ MODULE Replication_proofs ------------------------
(* Theorems about Replication for every number of readers, connections,     *)
(* entries and faults: a reader applies entries in the order of their       *)
(* sequence; no entry is forgotten or in two places; and the receiver       *)
(* refuses an honest stream only for known reasons.                         *)
(*                                                                          *)
(* The Sender that numbered an entry is told by id - seq, the entries that  *)
(* were given a sequence before it began.  The entries of one stream come   *)
(* from Senders in their order, none from a later one than the present, and *)
(* none on a reader's connection from an earlier one than the entry that    *)
(* set its lastSeq.  So a larger seq means a larger id: RInv.               *)
(*                                                                          *)
(* LInv adds the places of every entry (Books) and what a stream is: no     *)
(* entry twice, the checkpoints where the Sender put them (Sound).          *)
EXTENDS Replication, Integers, FiniteSetTheorems, TLAPS

Message ==
    [kind : {"ack"}] \union [kind : {"entry"}, seq : Int, id : Int]
        \union [kind : {"checkpoint"}, seq : Int, fed : Nat]
Connection ==
    [side : {"asked", "acked", "active", "gone"}, loop : BOOLEAN, open : BOOLEAN, cut : BOOLEAN,
     wire : Seq(Message), fed : Nat, since : Nat, got : Nat, failed : BOOLEAN]

IsEntry(w, i) == i \in 1..Len(w) /\ w[i].kind = "entry"
\* Earlier entries of a stream are of the same or an earlier Sender than later ones.
Rising(w) ==
    \A i, j \in Nat : i <= j /\ IsEntry(w, i) /\ IsEntry(w, j)
                          => w[i].id + w[j].seq <= w[j].id + w[i].seq
\* No entry is of a later Sender than the one that began at b.
NotAfter(w, b) == \A i \in Nat : IsEntry(w, i) => w[i].id <= b + w[i].seq
\* No entry is of an earlier Sender than the one that gave entry t the sequence l.
NotBefore(w, t, l) == \A i \in Nat : IsEntry(w, i) => t + w[i].seq <= w[i].id + l

Types ==
    /\ issued \in Nat /\ base \in Nat /\ base <= issued
    /\ assigned \subseteq Nat /\ entryChan \in Seq(Nat)
    /\ sending \in [id : Nat, todo : SUBSET (Readers \X Slots)]
    /\ readers \in [Readers -> Slots \union {None}] /\ conn \in [Readers -> Slots \union {None}]
    /\ conns \in [Readers -> [Slots -> Connection]]
    /\ lastSeq \in [Readers -> Int] /\ top \in [Readers -> Int]
    /\ applied \in [Readers -> SUBSET Int]

Streams ==
    \A r \in Readers, k \in Slots :
        /\ Rising(conns[r][k].wire) /\ NotAfter(conns[r][k].wire, base)
        /\ conn[r] = k => NotBefore(conns[r][k].wire, top[r], lastSeq[r])
Known == \A r \in Readers : top[r] <= base + lastSeq[r]

RInv == Types /\ Streams /\ Known

---------------------------------------------------------------------------
(* Streams.                                                                 *)

\* An empty stream has every property of streams.
LEMMA EmptyWire ==
    ASSUME NEW b, NEW t, NEW l
    PROVE  /\ <<>> \in Seq(Message) /\ Rising(<<>>) /\ NotAfter(<<>>, b) /\ NotBefore(<<>>, t, l)
  BY DEF Rising, NotAfter, NotBefore, IsEntry

\* What is behind the first message of a stream is a stream.
LEMMA TailWire ==
    ASSUME NEW w \in Seq(Message), w # <<>>, NEW b \in Int, NEW t \in Int, NEW l \in Int
    PROVE  /\ Tail(w) \in Seq(Message)
           /\ Rising(w) => Rising(Tail(w))
           /\ NotAfter(w, b) => NotAfter(Tail(w), b)
           /\ NotBefore(w, t, l) => NotBefore(Tail(w), t, l)
  <1>1. /\ Tail(w) \in Seq(Message) /\ Len(w) \in Nat /\ Len(Tail(w)) = Len(w) - 1
        /\ \A i \in 1..Len(Tail(w)) : Tail(w)[i] = w[i + 1]
    OBVIOUS
  <1>2. \A i \in Nat : IsEntry(Tail(w), i) => IsEntry(w, i + 1) /\ Tail(w)[i] = w[i + 1]
    BY <1>1 DEF IsEntry
  <1>3. Rising(w) => Rising(Tail(w))
    <2>1. SUFFICES ASSUME Rising(w), NEW i \in Nat, NEW j \in Nat,
                          i <= j, IsEntry(Tail(w), i), IsEntry(Tail(w), j)
                   PROVE  Tail(w)[i].id + Tail(w)[j].seq <= Tail(w)[j].id + Tail(w)[i].seq
      BY DEF Rising
    <2>2. /\ IsEntry(w, i + 1) /\ Tail(w)[i] = w[i + 1]
          /\ IsEntry(w, j + 1) /\ Tail(w)[j] = w[j + 1]
      BY <1>2, <2>1
    <2>3. i + 1 \in Nat /\ j + 1 \in Nat /\ i + 1 <= j + 1
      BY <2>1
    <2> QED BY <2>1, <2>2, <2>3 DEF Rising
  <1>4. NotAfter(w, b) => NotAfter(Tail(w), b)
    <2>1. SUFFICES ASSUME NotAfter(w, b), NEW i \in Nat, IsEntry(Tail(w), i)
                   PROVE  Tail(w)[i].id <= b + Tail(w)[i].seq
      BY DEF NotAfter
    <2>2. IsEntry(w, i + 1) /\ Tail(w)[i] = w[i + 1]
      BY <1>2, <2>1
    <2>3. i + 1 \in Nat
      OBVIOUS
    <2> QED BY <2>1, <2>2, <2>3 DEF NotAfter
  <1>5. NotBefore(w, t, l) => NotBefore(Tail(w), t, l)
    <2>1. SUFFICES ASSUME NotBefore(w, t, l), NEW i \in Nat, IsEntry(Tail(w), i)
                   PROVE  t + Tail(w)[i].seq <= Tail(w)[i].id + l
      BY DEF NotBefore
    <2>2. IsEntry(w, i + 1) /\ Tail(w)[i] = w[i + 1]
      BY <1>2, <2>1
    <2>3. i + 1 \in Nat
      OBVIOUS
    <2> QED BY <2>1, <2>2, <2>3 DEF NotBefore
  <1> QED BY <1>1, <1>3, <1>4, <1>5

\* A message that is no entry adds nothing to a stream.
LEMMA OtherMessage ==
    ASSUME NEW w \in Seq(Message), NEW m \in Message, m.kind # "entry",
           NEW b \in Int, NEW t \in Int, NEW l \in Int
    PROVE  /\ Append(w, m) \in Seq(Message)
           /\ Rising(w) => Rising(Append(w, m))
           /\ NotAfter(w, b) => NotAfter(Append(w, m), b)
           /\ NotBefore(w, t, l) => NotBefore(Append(w, m), t, l)
  <1>1. /\ Append(w, m) \in Seq(Message) /\ Len(w) \in Nat /\ Len(Append(w, m)) = Len(w) + 1
        /\ \A i \in 1..Len(w) : Append(w, m)[i] = w[i]
        /\ Append(w, m)[Len(w) + 1] = m
    OBVIOUS
  <1>2. \A i \in Nat : IsEntry(Append(w, m), i) => IsEntry(w, i) /\ Append(w, m)[i] = w[i]
    BY <1>1 DEF IsEntry
  <1> QED BY <1>1, <1>2 DEF Rising, NotAfter, NotBefore

\* An entry of the present Sender may follow what earlier and the present one have sent.
LEMMA NextEntry ==
    ASSUME NEW w \in Seq(Message), NEW b \in Int, NEW e \in Int, NEW t \in Int, NEW l \in Int,
           NEW m \in Message, m.kind = "entry", m.id = e, m.seq = e - b,
           Rising(w), NotAfter(w, b)
    PROVE  /\ Append(w, m) \in Seq(Message)
           /\ Rising(Append(w, m)) /\ NotAfter(Append(w, m), b)
           /\ NotBefore(w, t, l) /\ t <= b + l => NotBefore(Append(w, m), t, l)
  <1> DEFINE v == Append(w, m)
  <1>1. /\ v \in Seq(Message) /\ Len(w) \in Nat /\ Len(v) = Len(w) + 1
        /\ \A i \in 1..Len(w) : v[i] = w[i]
        /\ v[Len(w) + 1] = m
    OBVIOUS
  <1>2. \A i \in Nat : IsEntry(v, i) =>
           \/ IsEntry(w, i) /\ v[i] = w[i]
           \/ i = Len(w) + 1 /\ v[i] = m
    BY <1>1 DEF IsEntry
  <1>3. \A i \in Nat : IsEntry(w, i) => w[i].id \in Int /\ w[i].seq \in Int /\ i <= Len(w)
    BY DEF IsEntry, Message
  <1> HIDE DEF v
  <1>4. Rising(v)
    <2>1. SUFFICES ASSUME NEW i \in Nat, NEW j \in Nat, i <= j, IsEntry(v, i), IsEntry(v, j)
                   PROVE  v[i].id + v[j].seq <= v[j].id + v[i].seq
      BY DEF Rising
    <2>2. CASE IsEntry(w, i) /\ v[i] = w[i] /\ IsEntry(w, j) /\ v[j] = w[j]
      BY <2>1, <2>2 DEF Rising
    <2>3. CASE IsEntry(w, i) /\ v[i] = w[i] /\ j = Len(w) + 1 /\ v[j] = m
      <3>1. w[i].id <= b + w[i].seq /\ w[i].id \in Int /\ w[i].seq \in Int
        BY <2>1, <2>3, <1>3 DEF NotAfter
      <3> QED BY <3>1, <2>3
    <2>4. CASE i = Len(w) + 1 /\ v[i] = m /\ IsEntry(w, j)
      BY <2>1, <2>4, <1>1, <1>3
    <2>5. CASE i = Len(w) + 1 /\ v[i] = m /\ j = Len(w) + 1 /\ v[j] = m
      BY <2>5
    <2> QED BY <2>1, <2>2, <2>3, <2>4, <2>5, <1>2
  <1>5. NotAfter(v, b)
    BY <1>2 DEF NotAfter
  <1>6. ASSUME NotBefore(w, t, l), t <= b + l PROVE NotBefore(v, t, l)
    BY <1>2, <1>6 DEF NotBefore
  <1> QED BY <1>1, <1>4, <1>5, <1>6 DEF v

---------------------------------------------------------------------------
(* Connections.                                                             *)

Conns == [Readers -> [Slots -> Connection]]

\* Changing one connection leaves the others alone.
LEMMA SetConn ==
    ASSUME NEW C \in Conns, NEW r \in Readers, NEW k \in Slots, NEW y \in Connection
    PROVE  /\ [C EXCEPT ![r][k] = y] \in Conns
           /\ \A q \in Readers, j \in Slots :
                 [C EXCEPT ![r][k] = y][q][j] = IF q = r /\ j = k THEN y ELSE C[q][j]
  BY DEF Conns

\* What the two ends do when they close, and what a read takes.
LEMMA Ends ==
    ASSUME NEW x \in Connection
    PROVE  /\ CloseSide(x) \in Connection /\ CloseSide(x).wire = x.wire
           /\ CloseEnd(x) \in Connection /\ CloseEnd(x).wire = <<>>
           /\ x.wire # <<>> => /\ Take(x) \in Connection /\ Take(x).wire = Tail(x.wire)
                              /\ TakeEntry(x) \in Connection /\ TakeEntry(x).wire = Tail(x.wire)
           /\ Fresh \in Connection /\ Fresh.wire = <<>>
           /\ Closed \in Connection /\ Closed.wire = <<>>
  <1>1. <<>> \in Seq(Message) /\ x.wire \in Seq(Message)
    BY DEF Connection
  <1>2. x.wire # <<>> => Tail(x.wire) \in Seq(Message)
    BY <1>1
  <1>3. /\ CloseSide(x) \in Connection /\ CloseSide(x).wire = x.wire
        /\ CloseEnd(x) \in Connection /\ CloseEnd(x).wire = <<>>
    BY <1>1 DEF Connection, CloseSide, CloseEnd
  <1>4. x.wire # <<>> => /\ Take(x) \in Connection /\ Take(x).wire = Tail(x.wire)
                         /\ TakeEntry(x) \in Connection /\ TakeEntry(x).wire = Tail(x.wire)
    <2> SUFFICES ASSUME x.wire # <<>>
                 PROVE  /\ Take(x) \in Connection /\ Take(x).wire = Tail(x.wire)
                        /\ TakeEntry(x) \in Connection /\ TakeEntry(x).wire = Tail(x.wire)
      OBVIOUS
    <2> DEFINE v == Tail(x.wire)
               n == x.got + 1
    <2>1. v \in Seq(Message) /\ n \in Nat
      BY <1>2 DEF Connection
    <2>2. Take(x) = [x EXCEPT !.wire = v] /\ TakeEntry(x) = [x EXCEPT !.wire = v, !.got = n]
      BY DEF Take, TakeEntry
    <2> HIDE DEF v, n
    <2>3. Take(x) \in Connection /\ Take(x).wire = v
      BY <2>1, <2>2 DEF Connection
    <2>4. TakeEntry(x) \in Connection /\ TakeEntry(x).wire = v
      BY <2>1, <2>2 DEF Connection
    <2> QED BY <2>3, <2>4 DEF v
  <1>5. Fresh \in Connection /\ Fresh.wire = <<>> /\ Closed \in Connection /\ Closed.wire = <<>>
    BY <1>1 DEF Connection, Fresh, Closed
  <1> QED BY <1>3, <1>4, <1>5

\* Removing a reader closes the writer's end of one connection and takes nothing off a stream.
LEMMA RemovedConns ==
    ASSUME Types, NEW r \in Readers
    PROVE  /\ Removed(r) \in Conns
           /\ \A q \in Readers, j \in Slots : Removed(r)[q][j].wire = conns[q][j].wire
  <1>1. conns \in Conns /\ readers[r] \in Slots \union {None}
    BY DEF Types, Conns
  <1>2. CASE readers[r] = None
    BY <1>1, <1>2 DEF Removed
  <1>3. CASE readers[r] # None
    <2> DEFINE k == readers[r]
               y == CloseSide(conns[r][k])
    <2>1. k \in Slots /\ conns[r][k] \in Connection
      BY <1>1, <1>3 DEF Conns
    <2>2. y \in Connection /\ y.wire = conns[r][k].wire
      BY <2>1, Ends
    <2>3. Removed(r) = [conns EXCEPT ![r][k] = y]
      BY <1>3 DEF Removed
    <2> HIDE DEF y, k
    <2>4. /\ [conns EXCEPT ![r][k] = y] \in Conns
          /\ \A q \in Readers, j \in Slots :
                [conns EXCEPT ![r][k] = y][q][j] = IF q = r /\ j = k THEN y ELSE conns[q][j]
      BY <1>1, <2>1, <2>2, SetConn
    <2> QED BY <2>2, <2>3, <2>4
  <1> QED BY <1>2, <1>3

\* v carries no entry that w does not.
Carries(w, v) ==
    v = w \/ v = <<>> \/ (w # <<>> /\ v = Tail(w)) \/ v = Append(w, Ack)

\* While the Sender stays and the reader's position does, such steps keep the streams.
LEMMA CarriedStreams ==
    ASSUME RInv, Types', base' = base, top' = top, lastSeq' = lastSeq,
           \A r \in Readers, k \in Slots : Carries(conns[r][k].wire, conns'[r][k].wire),
           \A r \in Readers, k \in Slots :
               conn'[r] = k => conn[r] = k \/ conns'[r][k].wire = <<>>
    PROVE  RInv'
  <1>1. Known'
    BY DEF RInv, Known
  <1>2. ASSUME NEW r \in Readers, NEW k \in Slots
        PROVE  /\ Rising(conns'[r][k].wire) /\ NotAfter(conns'[r][k].wire, base)
               /\ conn'[r] = k => NotBefore(conns'[r][k].wire, top[r], lastSeq[r])
    <2> DEFINE w == conns[r][k].wire
               v == conns'[r][k].wire
    <2>1. /\ w \in Seq(Message) /\ base \in Int /\ top[r] \in Int /\ lastSeq[r] \in Int
          /\ Carries(w, v) /\ Rising(w) /\ NotAfter(w, base)
          /\ conn'[r] = k => v = <<>> \/ NotBefore(w, top[r], lastSeq[r])
      BY DEF RInv, Types, Streams, Connection
    <2>2. Ack \in Message /\ Ack.kind # "entry"
      BY DEF Ack, Message
    <2> HIDE DEF w, v
    <2>3. CASE v = w
      BY <2>1, <2>3, EmptyWire DEF v
    <2>4. CASE v = <<>>
      BY <2>4, EmptyWire DEF v
    <2>5. CASE w # <<>> /\ v = Tail(w)
      <3>1. v # <<>> => (conn'[r] = k => NotBefore(w, top[r], lastSeq[r]))
        BY <2>1
      <3>2. /\ Rising(v) /\ NotAfter(v, base)
            /\ NotBefore(w, top[r], lastSeq[r]) => NotBefore(v, top[r], lastSeq[r])
        BY <2>1, <2>5, TailWire
      <3>3. v = <<>> => NotBefore(v, top[r], lastSeq[r])
        BY EmptyWire
      <3> QED BY <3>1, <3>2, <3>3 DEF v
    <2>6. CASE v = Append(w, Ack)
      <3>1. v # <<>> => (conn'[r] = k => NotBefore(w, top[r], lastSeq[r]))
        BY <2>1
      <3>2. /\ Rising(v) /\ NotAfter(v, base)
            /\ NotBefore(w, top[r], lastSeq[r]) => NotBefore(v, top[r], lastSeq[r])
        BY <2>1, <2>2, <2>6, OtherMessage
      <3>3. v = <<>> => NotBefore(v, top[r], lastSeq[r])
        BY EmptyWire
      <3> QED BY <3>1, <3>2, <3>3 DEF v
    <2> QED BY <2>1, <2>3, <2>4, <2>5, <2>6 DEF Carries
  <1> QED BY <1>1, <1>2 DEF RInv, Streams

---------------------------------------------------------------------------
(* The steps.                                                               *)

\* Steps that leave connections and positions alone.
LEMMA QuietSteps ==
    ASSUME RInv, Types', conns' = conns, conn' = conn, base' = base, top' = top,
           lastSeq' = lastSeq
    PROVE  RInv'
  BY DEF RInv, Streams, Known

\* Replicate and the distribution loop up to the first reader.
LEMMA QueueSteps ==
    ASSUME RInv, TakeSequence \/ Replicate \/ BroadcastEntry
    PROVE  RInv'
  <1> USE DEF RInv
  <1>1. CASE TakeSequence
    <2>1. Types' /\ conns' = conns /\ conn' = conn /\ base' = base /\ top' = top
          /\ lastSeq' = lastSeq
      BY <1>1 DEF TakeSequence, Types, receiver
    <2> QED BY <2>1, QuietSteps
  <1>2. CASE Replicate
    <2>1. PICK e \in assigned : QueueEntry(e) \/ DropEntry(e)
      BY <1>2 DEF Replicate
    <2>2. e \in Nat /\ assigned' = assigned \ {e}
          /\ (entryChan' = entryChan \/ entryChan' = Append(entryChan, e))
      BY <2>1 DEF QueueEntry, DropEntry, Types
    <2>3. entryChan' \in Seq(Nat) /\ assigned' \subseteq Nat
      <3>1. entryChan \in Seq(Nat) /\ assigned \subseteq Nat
        BY DEF Types
      <3>2. Append(entryChan, e) \in Seq(Nat)
        BY <2>2, <3>1
      <3> QED BY <2>2, <3>1, <3>2
    <2>4. UNCHANGED <<issued, base, sending, readers, conns, receiver>>
      BY <2>1 DEF QueueEntry, DropEntry
    <2>5. Types' /\ conns' = conns /\ conn' = conn /\ base' = base /\ top' = top
          /\ lastSeq' = lastSeq
      BY <2>3, <2>4 DEF Types, receiver
    <2> QED BY <2>5, QuietSteps
  <1>3. CASE BroadcastEntry
    <2> DEFINE absent == {r \in Readers : readers[r] = None}
               todo == {<<r, readers[r]>> : r \in Readers \ absent}
    <2>1. entryChan \in Seq(Nat) /\ entryChan # <<>>
      BY <1>3 DEF BroadcastEntry, Types
    <2>2. Head(entryChan) \in Nat /\ Tail(entryChan) \in Seq(Nat)
      BY <2>1
    <2>3. todo \subseteq Readers \X Slots
      BY DEF Types
    <2>4. /\ sending' = Sending(Head(entryChan), todo) /\ entryChan' = Tail(entryChan)
          /\ UNCHANGED <<issued, base, assigned, readers, conns, receiver>>
      BY <1>3 DEF BroadcastEntry
    <2> HIDE DEF todo
    <2>5. sending' \in [id : Nat, todo : SUBSET (Readers \X Slots)]
      BY <2>2, <2>3, <2>4 DEF Sending, NotSending
    <2>6. Types' /\ conns' = conns /\ conn' = conn /\ base' = base /\ top' = top
          /\ lastSeq' = lastSeq
      BY <2>2, <2>4, <2>5 DEF Types, receiver
    <2> QED BY <2>6, QuietSteps
  <1> QED BY <1>1, <1>2, <1>3

\* What Stamped adds to a stream: the entry, and perhaps a checkpoint.
LEMMA StampedWire ==
    ASSUME NEW x \in Connection, NEW e \in Nat, base \in Nat, NEW t \in Int, NEW l \in Int,
           Rising(x.wire), NotAfter(x.wire, base)
    PROVE  /\ Stamped(x, e) \in Connection
           /\ Rising(Stamped(x, e).wire) /\ NotAfter(Stamped(x, e).wire, base)
           /\ NotBefore(x.wire, t, l) /\ t <= base + l => NotBefore(Stamped(x, e).wire, t, l)
  <1> DEFINE w == x.wire
             m == Entry(e)
             c == Checkpoint(e, x.fed + 1)
             v == Append(w, m)
             due == x.since + 1 >= CheckpointInterval
             ms == <<m>> \o IF due THEN <<c>> ELSE <<>>
             y == Put(x, ms)
  <1>1. x.fed \in Nat /\ x.since \in Nat /\ w \in Seq(Message)
    BY DEF Connection
  <1>2. m \in Message /\ m.kind = "entry" /\ m.id = e /\ m.seq = e - base
    BY DEF Entry, Message
  <1>3. c \in Message /\ c.kind # "entry"
    BY <1>1 DEF Checkpoint, Message
  <1>4. /\ v \in Seq(Message) /\ Rising(v) /\ NotAfter(v, base)
        /\ NotBefore(w, t, l) /\ t <= base + l => NotBefore(v, t, l)
    <2> HIDE DEF m
    <2> QED BY <1>1, <1>2, NextEntry
  <1>5. /\ Append(v, c) \in Seq(Message) /\ Rising(Append(v, c)) /\ NotAfter(Append(v, c), base)
        /\ NotBefore(w, t, l) /\ t <= base + l => NotBefore(Append(v, c), t, l)
    <2> HIDE DEF v, c, m
    <2> QED BY <1>3, <1>4, OtherMessage
  <1>6. w \o ms = v \/ w \o ms = Append(v, c)
    <2>1. CASE due
      <3> HIDE DEF m, c
      <3>1. w \o (<<m>> \o <<c>>) = Append(Append(w, m), c)
        BY <1>1, <1>2, <1>3
      <3> QED BY <2>1, <3>1
    <2>2. CASE ~due
      <3> HIDE DEF m, c, due
      <3>1. w \o (<<m>> \o <<>>) = Append(w, m)
        BY <1>1, <1>2
      <3> QED BY <2>2, <3>1
    <2> QED BY <2>1, <2>2
  <1>7. w \o ms \in Seq(Message)
    <2> HIDE DEF w, ms, v, c
    <2> QED BY <1>4, <1>5, <1>6
  <1>8. y \in Connection /\ (y.wire = w \/ y.wire = w \o ms) /\ y.fed = x.fed /\ y.since = x.since
    <2> HIDE DEF ms
    <2> QED BY <1>7 DEF Put, Connection
  <1>9. Stamped(x, e) = [y EXCEPT !.fed = @ + 1, !.since = IF due THEN 0 ELSE @ + 1]
    BY DEF Stamped
  <1>10. Stamped(x, e) \in Connection /\ Stamped(x, e).wire = y.wire
    <2> DEFINE n == IF due THEN 0 ELSE y.since + 1
    <2>1. n \in Nat /\ y.fed + 1 \in Nat
      <3> HIDE DEF y, due
      <3> QED BY <1>1, <1>8
    <2>2. Stamped(x, e) = [y EXCEPT !.fed = y.fed + 1, !.since = n]
      BY <1>9
    <2> HIDE DEF y, n
    <2> QED BY <1>8, <2>1, <2>2 DEF Connection
  <1> HIDE DEF y, w, ms, v, c
  <1>11. Stamped(x, e).wire = w \/ Stamped(x, e).wire = v \/ Stamped(x, e).wire = Append(v, c)
    BY <1>6, <1>8, <1>10
  <1> QED BY <1>4, <1>5, <1>10, <1>11 DEF w

\* The variables of Types but for connections and the reader's position.
Others ==
    /\ issued' = issued /\ base' = base /\ assigned' = assigned /\ entryChan' = entryChan
    /\ sending' \in [id : Nat, todo : SUBSET (Readers \X Slots)]
    /\ readers' \in [Readers -> Slots \union {None}] /\ conn' \in [Readers -> Slots \union {None}]
    /\ top' = top /\ lastSeq' = lastSeq /\ applied' \in [Readers -> SUBSET Int]

\* Steps that change one connection and add no entry to its stream; C is the connections,
\* perhaps after one of them was closed on the writer's side.
LEMMA OneConnection ==
    ASSUME RInv, Others, NEW C \in Conns, NEW r \in Readers, NEW k \in Slots,
           NEW y \in Connection, conns' = [C EXCEPT ![r][k] = y],
           \A q \in Readers, j \in Slots : C[q][j].wire = conns[q][j].wire,
           Carries(conns[r][k].wire, y.wire),
           \A q \in Readers, j \in Slots :
               conn'[q] = j => conn[q] = j \/ (q = r /\ j = k /\ y.wire = <<>>)
    PROVE  RInv'
  <1>1. /\ conns' \in Conns
        /\ \A q \in Readers, j \in Slots :
              conns'[q][j] = IF q = r /\ j = k THEN y ELSE C[q][j]
    BY DEF Conns
  <1>2. Types'
    BY <1>1 DEF RInv, Types, Others, Conns
  <1>3. \A q \in Readers, j \in Slots : Carries(conns[q][j].wire, conns'[q][j].wire)
    BY <1>1 DEF Carries
  <1>4. \A q \in Readers, j \in Slots :
            conn'[q] = j => conn[q] = j \/ conns'[q][j].wire = <<>>
    BY <1>1
  <1> QED BY <1>2, <1>3, <1>4, CarriedStreams DEF Others

\* The reader closes its connection; nobody has to know more of Disconnect.
LEMMA Disconnects ==
    ASSUME RInv, NEW r \in Readers, conn[r] # None, Disconnect(r),
           UNCHANGED <<issued, base, assigned, entryChan, sending, readers>>, top' = top,
           lastSeq' = lastSeq, applied' = applied
    PROVE  RInv'
  <1> DEFINE k == conn[r]
             y == CloseEnd(conns[r][k])
  <1>1. k \in Slots /\ conns \in Conns /\ conns[r][k] \in Connection
    BY DEF RInv, Types, Conns
  <1>2. y \in Connection /\ y.wire = <<>>
    BY <1>1, Ends
  <1>3. conns' = [conns EXCEPT ![r][k] = y] /\ conn' = [conn EXCEPT ![r] = None]
    BY DEF Disconnect
  <1>4. Others
    BY <1>3 DEF Others, RInv, Types
  <1>5. \A q \in Readers, j \in Slots :
            conn'[q] = j => conn[q] = j \/ (q = r /\ j = k /\ y.wire = <<>>)
    <2>1. \A q \in Readers, j \in Slots : conn'[q] = j => conn[q] = j
      BY <1>3, ReplicationConstants DEF RInv, Types
    <2> QED BY <2>1
  <1>6. Carries(conns[r][k].wire, y.wire)
    BY <1>2 DEF Carries
  <1> HIDE DEF y, k
  <1> QED BY <1>1, <1>2, <1>3, <1>4, <1>5, <1>6, OneConnection

\* The writer's side of the handshake, and the end of its loop.
LEMMA WriterSteps ==
    ASSUME RInv, NEW r \in Readers, NEW k \in Slots, Accept(r, k) \/ LoopEnds(r, k) \/ Cut(r, k)
    PROVE  RInv'
  <1> DEFINE x == conns[r][k]
  <1>1. conns \in Conns /\ x \in Connection /\ x.wire \in Seq(Message)
    BY DEF RInv, Types, Conns, Connection
  <1>2. CASE PrepareReader(r, k)
    <2> DEFINE y == [Put(x, <<Ack>>) EXCEPT !.side = "acked"]
    <2>1. Ack \in Message /\ x.wire \o <<Ack>> = Append(x.wire, Ack)
      BY <1>1 DEF Ack, Message
    <2>2. y \in Connection /\ (y.wire = x.wire \/ y.wire = Append(x.wire, Ack))
      <3> DEFINE v == x.wire \o <<Ack>>
      <3>1. v \in Seq(Message) /\ v = Append(x.wire, Ack)
        BY <1>1, <2>1
      <3>2. Put(x, <<Ack>>) \in Connection
            /\ (Put(x, <<Ack>>).wire = x.wire \/ Put(x, <<Ack>>).wire = v)
        <4>1. Put(x, <<Ack>>) = IF x.open /\ ~x.cut THEN [x EXCEPT !.wire = v] ELSE x
          BY DEF Put
        <4> HIDE DEF v, x
        <4> QED BY <1>1, <3>1, <4>1 DEF Connection
      <3> HIDE DEF v, x
      <3> QED BY <3>1, <3>2 DEF Connection
    <2>3. conns' = [conns EXCEPT ![r][k] = y] /\ Others /\ conn' = conn
      BY <1>2 DEF PrepareReader, Others, RInv, Types, sender, receiver
    <2>4. Carries(conns[r][k].wire, y.wire)
      BY <2>2 DEF Carries
    <2> HIDE DEF y
    <2> QED BY <1>1, <2>2, <2>3, <2>4, OneConnection
  <1>3. CASE Discard(r, k)
    <2>1. CloseSide(x) \in Connection /\ CloseSide(x).wire = x.wire
      BY <1>1, Ends
    <2>2. conns' = [conns EXCEPT ![r][k] = CloseSide(x)] /\ Others /\ conn' = conn
      BY <1>3 DEF Discard, Others, RInv, Types, sender, receiver
    <2>3. Carries(conns[r][k].wire, CloseSide(x).wire)
      BY <2>1 DEF Carries
    <2> QED BY <1>1, <2>1, <2>2, <2>3, OneConnection
  <1>4. CASE ActivateReader(r, k)
    <2> DEFINE y == [Removed(r)[r][k] EXCEPT !.side = "active", !.loop = TRUE]
    <2>1. Removed(r) \in Conns
          /\ \A q \in Readers, j \in Slots : Removed(r)[q][j].wire = conns[q][j].wire
      BY RemovedConns DEF RInv
    <2>2. Removed(r)[r][k] \in Connection
      BY <2>1 DEF Conns
    <2>3. y \in Connection /\ y.wire = x.wire
      BY <2>1, <2>2 DEF Connection
    <2>4. conns' = [Removed(r) EXCEPT ![r][k] = y] /\ readers' = [readers EXCEPT ![r] = k]
          /\ UNCHANGED <<sender, receiver>>
      BY <1>4, <2>1 DEF ActivateReader, Conns
    <2>5. Others /\ conn' = conn
      BY <2>4 DEF Others, RInv, Types, sender, receiver
    <2>6. Carries(conns[r][k].wire, y.wire)
      BY <2>3 DEF Carries
    <2> HIDE DEF y
    <2> QED BY <1>1, <2>1, <2>3, <2>4, <2>5, <2>6, OneConnection
  <1>5. CASE LoopEnds(r, k)
    <2> DEFINE y == [Removed(r)[r][k] EXCEPT !.loop = FALSE]
    <2>1. Removed(r) \in Conns
          /\ \A q \in Readers, j \in Slots : Removed(r)[q][j].wire = conns[q][j].wire
      BY RemovedConns DEF RInv
    <2>2. Removed(r)[r][k] \in Connection
      BY <2>1 DEF Conns
    <2>3. y \in Connection /\ y.wire = x.wire
      BY <2>1, <2>2 DEF Connection
    <2>4. conns' = [Removed(r) EXCEPT ![r][k] = y] /\ readers' = [readers EXCEPT ![r] = None]
          /\ UNCHANGED <<sender, receiver>>
      BY <1>5 DEF LoopEnds
    <2>5. Others /\ conn' = conn
      BY <2>4 DEF Others, RInv, Types, sender, receiver
    <2>6. Carries(conns[r][k].wire, y.wire)
      BY <2>3 DEF Carries
    <2> HIDE DEF y
    <2> QED BY <1>1, <2>1, <2>3, <2>4, <2>5, <2>6, OneConnection
  <1>6. CASE Cut(r, k)
    <2> DEFINE y == [x EXCEPT !.cut = TRUE, !.wire = <<>>]
    <2>1. y \in Connection /\ y.wire = <<>>
      <3>1. <<>> \in Seq(Message)
        OBVIOUS
      <3> HIDE DEF x
      <3> QED BY <1>1, <3>1 DEF Connection
    <2>2. conns' = [conns EXCEPT ![r][k] = y]
      BY <1>1, <1>6 DEF Cut, Conns
    <2>3. Others /\ conn' = conn
      BY <1>6 DEF Cut, Others, RInv, Types, sender, receiver
    <2>4. Carries(conns[r][k].wire, y.wire)
      BY <2>1 DEF Carries
    <2> HIDE DEF y
    <2> QED BY <1>1, <2>1, <2>2, <2>3, <2>4, OneConnection
  <1> QED BY <1>2, <1>3, <1>4, <1>5, <1>6 DEF Accept

\* The distribution loop serves one reader.
LEMMA SendSteps ==
    ASSUME RInv, NEW r \in Readers, NEW k \in Slots, SendToReader(r, k) \/ SendFails(r, k)
    PROVE  RInv'
  <1>1. /\ conns \in Conns /\ conns[r][k] \in Connection /\ base \in Nat
        /\ sending \in [id : Nat, todo : SUBSET (Readers \X Slots)]
    BY DEF RInv, Types, Conns
  <1>2. Sending(sending.id, sending.todo \ {<<r, k>>})
            \in [id : Nat, todo : SUBSET (Readers \X Slots)]
    <2> DEFINE todo == sending.todo \ {<<r, k>>}
    <2>1. sending.id \in Nat /\ todo \in SUBSET (Readers \X Slots)
      BY <1>1
    <2> HIDE DEF todo
    <2>2. Sending(sending.id, todo) \in [id : Nat, todo : SUBSET (Readers \X Slots)]
      BY <2>1 DEF Sending, NotSending
    <2> QED BY <2>2 DEF todo
  <1>3. CASE SendToReader(r, k)
    <2> DEFINE x == conns[r][k]
               y == Stamped(x, sending.id)
    <2>1. /\ sending.id \in Nat /\ top[r] \in Int /\ lastSeq[r] \in Int
          /\ Rising(x.wire) /\ NotAfter(x.wire, base) /\ top[r] <= base + lastSeq[r]
          /\ conn[r] = k => NotBefore(x.wire, top[r], lastSeq[r])
      BY <1>1 DEF RInv, Types, Streams, Known
    <2>2. /\ y \in Connection /\ Rising(y.wire) /\ NotAfter(y.wire, base)
          /\ conn[r] = k => NotBefore(y.wire, top[r], lastSeq[r])
      <3> HIDE DEF x
      <3>1. x \in Connection
        BY <1>1 DEF x
      <3> QED BY <1>1, <2>1, <3>1, StampedWire
    <2>3. conns' = [conns EXCEPT ![r][k] = y]
          /\ sending' = Sending(sending.id, sending.todo \ {<<r, k>>})
          /\ UNCHANGED <<issued, base, assigned, entryChan, readers, receiver>>
      BY <1>3 DEF SendToReader
    <2> HIDE DEF y, x
    <2>4. /\ conns' \in Conns
          /\ \A q \in Readers, j \in Slots :
                conns'[q][j] = IF q = r /\ j = k THEN y ELSE conns[q][j]
      BY <1>1, <2>2, <2>3 DEF Conns
    <2>5. Types'
      BY <1>2, <2>3, <2>4 DEF RInv, Types, Conns, receiver
    <2>6. Known'
      BY <2>3 DEF RInv, Known, receiver
    <2>7. Streams'
      <3>1. ASSUME NEW q \in Readers, NEW j \in Slots
            PROVE  /\ Rising(conns'[q][j].wire) /\ NotAfter(conns'[q][j].wire, base)
                   /\ conn[q] = j => NotBefore(conns'[q][j].wire, top[q], lastSeq[q])
        <4>1. CASE q = r /\ j = k
          BY <2>2, <2>4, <4>1
        <4>2. CASE ~(q = r /\ j = k)
          <5>1. conns'[q][j] = conns[q][j]
            BY <2>4, <4>2
          <5> QED BY <5>1 DEF RInv, Streams
        <4> QED BY <4>1, <4>2
      <3>2. conn' = conn /\ base' = base /\ top' = top /\ lastSeq' = lastSeq
        BY <2>3 DEF receiver
      <3> QED BY <3>1, <3>2 DEF Streams
    <2> QED BY <2>5, <2>6, <2>7 DEF RInv
  <1>4. CASE SendFails(r, k)
    <2>1. Removed(r) \in Conns
          /\ \A q \in Readers, j \in Slots : Removed(r)[q][j].wire = conns[q][j].wire
      BY RemovedConns DEF RInv
    <2>2. /\ conns' = Removed(r) /\ readers' = [readers EXCEPT ![r] = None]
          /\ sending' = Sending(sending.id, sending.todo \ {<<r, k>>})
          /\ UNCHANGED <<issued, base, assigned, entryChan, receiver>>
      BY <1>4 DEF SendFails, RemoveReader
    <2>3. Types'
      BY <1>2, <2>1, <2>2 DEF RInv, Types, Conns, receiver
    <2>4. \A q \in Readers, j \in Slots : Carries(conns[q][j].wire, conns'[q][j].wire)
      BY <2>1, <2>2 DEF Carries
    <2>5. conn' = conn /\ base' = base /\ top' = top /\ lastSeq' = lastSeq
      BY <2>2 DEF receiver
    <2> QED BY <2>3, <2>4, <2>5, CarriedStreams
  <1> QED BY <1>3, <1>4

\* The reader dials.
LEMMA DialStep ==
    ASSUME RInv, NEW r \in Readers, Dial(r)
    PROVE  RInv'
  <1>1. PICK k \in Slots : /\ conns' = [conns EXCEPT ![r][k] = Fresh]
                           /\ conn' = [conn EXCEPT ![r] = k]
    BY DEF Dial
  <1>2. conns \in Conns /\ conns[r][k] \in Connection
    BY DEF RInv, Types, Conns
  <1>3. Fresh \in Connection /\ Fresh.wire = <<>>
    BY <1>2, Ends
  <1>4. Others
    BY <1>1 DEF Dial, Others, RInv, Types, sender
  <1>5. Carries(conns[r][k].wire, Fresh.wire)
    BY <1>3 DEF Carries
  <1>6. \A q \in Readers, j \in Slots :
            conn'[q] = j => conn[q] = j \/ (q = r /\ j = k /\ Fresh.wire = <<>>)
    BY <1>1, <1>3 DEF RInv, Types
  <1> QED BY <1>1, <1>2, <1>3, <1>4, <1>5, <1>6, OneConnection

\* What HasMessage says of the stream that the reader reads.
LEMMA Reading ==
    ASSUME RInv, NEW r \in Readers, NEW kind, HasMessage(r, kind)
    PROVE  /\ conn[r] \in Slots /\ conns \in Conns /\ conns[r][conn[r]] \in Connection
           /\ conns[r][conn[r]].wire \in Seq(Message) /\ conns[r][conn[r]].wire # <<>>
           /\ Next1(r) = conns[r][conn[r]].wire[1] /\ Next1(r) \in Message /\ Next1(r).kind = kind
           /\ Take(conns[r][conn[r]]) \in Connection
           /\ Take(conns[r][conn[r]]).wire = Tail(conns[r][conn[r]].wire)
           /\ TakeEntry(conns[r][conn[r]]) \in Connection
           /\ TakeEntry(conns[r][conn[r]]).wire = Tail(conns[r][conn[r]].wire)
  <1> DEFINE x == conns[r][conn[r]]
  <1>1. conn[r] \in Slots /\ conns \in Conns /\ x \in Connection
    BY DEF RInv, Types, Conns, HasMessage
  <1>2. x.wire \in Seq(Message) /\ x.wire # <<>> /\ Head(x.wire).kind = kind
    BY <1>1 DEF HasMessage, Connection
  <1>3. Head(x.wire) = x.wire[1] /\ Head(x.wire) \in Message
    <2> HIDE DEF x
    <2> QED BY <1>2
  <1>4. /\ Take(x) \in Connection /\ Take(x).wire = Tail(x.wire)
        /\ TakeEntry(x) \in Connection /\ TakeEntry(x).wire = Tail(x.wire)
    BY <1>1, <1>2, Ends
  <1> QED BY <1>1, <1>2, <1>3, <1>4 DEF Next1

\* An entry is applied: it is larger than the last one, and its Sender takes its place.
LEMMA ApplyStep ==
    ASSUME RInv, NEW r \in Readers, ApplyEntry(r)
    PROVE  RInv' /\ Next1(r).id > top[r]
  <1> DEFINE k == conn[r]
             x == conns[r][k]
             w == x.wire
             m == Next1(r)
             y == TakeEntry(x)
  <1>1. /\ k \in Slots /\ conns \in Conns /\ x \in Connection /\ w \in Seq(Message) /\ w # <<>>
        /\ m = w[1] /\ m \in Message /\ m.kind = "entry"
        /\ y \in Connection /\ y.wire = Tail(w)
    BY Reading DEF ApplyEntry
  <1>2. m.id \in Int /\ m.seq \in Int
    BY <1>1 DEF Message
  <1>3. Len(w) \in Nat /\ 1 \in 1..Len(w) /\ IsEntry(w, 1)
    <2> HIDE DEF w, m
    <2> QED BY <1>1 DEF IsEntry
  <1>4. /\ Rising(w) /\ NotAfter(w, base) /\ NotBefore(w, top[r], lastSeq[r])
        /\ base \in Nat /\ top[r] \in Int /\ lastSeq[r] \in Int
    BY <1>1 DEF RInv, Types, Streams
  <1>5. m.id <= base + m.seq /\ top[r] + m.seq <= m.id + lastSeq[r]
    BY <1>1, <1>3, <1>4 DEF NotAfter, NotBefore
  <1>6. m.seq > lastSeq[r]
    BY DEF ApplyEntry, Advances
  <1>7. m.id > top[r]
    <2> HIDE DEF m
    <2> QED BY <1>2, <1>4, <1>5, <1>6
  <1>8. NotBefore(w, m.id, m.seq)
    BY <1>1, <1>3, <1>4 DEF Rising, NotBefore, IsEntry
  <1>9. /\ y \in Connection /\ y.wire = Tail(w)
        /\ Rising(y.wire) /\ NotAfter(y.wire, base) /\ NotBefore(y.wire, m.id, m.seq)
    <2>1. base \in Int
      BY <1>4
    <2> HIDE DEF y, w, m
    <2> QED BY <1>1, <1>2, <1>4, <1>8, <2>1, TailWire
  <1>10. /\ conns' = [conns EXCEPT ![r][k] = y]
         /\ lastSeq' = [lastSeq EXCEPT ![r] = m.seq] /\ top' = [top EXCEPT ![r] = m.id]
         /\ applied' = [applied EXCEPT ![r] = @ \union {m.id}]
         /\ UNCHANGED <<sender, readers, conn>>
    BY DEF ApplyEntry
  <1> HIDE DEF y, m
  <1>11. /\ conns' \in Conns
         /\ \A q \in Readers, j \in Slots :
               conns'[q][j] = IF q = r /\ j = k THEN y ELSE conns[q][j]
    <2> HIDE DEF k, x
    <2> QED BY <1>1, <1>9, <1>10 DEF Conns
  <1>12. Types'
    BY <1>2, <1>10, <1>11 DEF RInv, Types, Conns, sender
  <1>13. Known'
    BY <1>2, <1>5, <1>10 DEF RInv, Known, Types, sender
  <1>14. Streams'
    <2> SUFFICES ASSUME NEW q \in Readers, NEW j \in Slots
                 PROVE  /\ Rising(conns'[q][j].wire) /\ NotAfter(conns'[q][j].wire, base')
                        /\ conn'[q] = j => NotBefore(conns'[q][j].wire, top'[q], lastSeq'[q])
      BY DEF Streams
    <2>1. conn' = conn /\ base' = base
      BY <1>10 DEF sender
    <2>2. CASE q = r /\ j = k
      <3>1. top'[r] = m.id /\ lastSeq'[r] = m.seq
        BY <1>10 DEF RInv, Types
      <3>2. conns'[q][j] = y
        BY <1>11, <2>2
      <3> QED BY <1>9, <2>1, <2>2, <3>1, <3>2
    <2>3. CASE q = r /\ j # k
      <3>1. conns'[q][j] = conns[q][j] /\ conn[q] # j
        BY <1>11, <2>3
      <3> QED BY <2>1, <3>1 DEF RInv, Streams
    <2>4. CASE q # r
      <3>1. conns'[q][j] = conns[q][j] /\ top'[q] = top[q] /\ lastSeq'[q] = lastSeq[q]
        BY <1>10, <1>11, <2>4 DEF RInv, Types
      <3> QED BY <2>1, <3>1 DEF RInv, Streams
    <2> QED BY <2>2, <2>3, <2>4
  <1> QED BY <1>7, <1>12, <1>13, <1>14 DEF RInv, m

\* The reader's other steps.
LEMMA ReaderSteps ==
    ASSUME RInv, NEW r \in Readers, Receive(r), ~ApplyEntry(r)
    PROVE  RInv' /\ applied' = applied
  <1> DEFINE k == conn[r]
             x == conns[r][k]
  <1>1. CASE ReadAck(r)
    <2>1. /\ k \in Slots /\ conns \in Conns /\ Take(x) \in Connection
          /\ x.wire # <<>> /\ Take(x).wire = Tail(x.wire)
      BY <1>1, Reading DEF ReadAck
    <2>2. conns' = [conns EXCEPT ![r][k] = Take(x)] /\ Others /\ conn' = conn
      BY <1>1 DEF ReadAck, Others, RInv, Types, sender
    <2>3. Carries(conns[r][k].wire, Take(x).wire)
      BY <2>1 DEF Carries
    <2>4. applied' = applied
      BY <1>1 DEF ReadAck
    <2> HIDE DEF k
    <2> QED BY <2>1, <2>2, <2>3, <2>4, OneConnection
  <1>2. CASE VerifyCheckpoint(r)
    <2>1. /\ k \in Slots /\ conns \in Conns /\ Take(x) \in Connection
          /\ x.wire # <<>> /\ Take(x).wire = Tail(x.wire)
      BY <1>2, Reading DEF VerifyCheckpoint
    <2>2. conns' = [conns EXCEPT ![r][k] = Take(x)] /\ Others /\ conn' = conn
      BY <1>2 DEF VerifyCheckpoint, Others, RInv, Types, sender, receiver
    <2>3. Carries(conns[r][k].wire, Take(x).wire)
      BY <2>1 DEF Carries
    <2>4. applied' = applied
      BY <1>2 DEF VerifyCheckpoint, receiver
    <2> HIDE DEF k
    <2> QED BY <2>1, <2>2, <2>3, <2>4, OneConnection
  <1>3. CASE ApplyFails(r)
    <2> DEFINE y == [TakeEntry(x) EXCEPT !.failed = TRUE]
    <2>1. /\ k \in Slots /\ conns \in Conns /\ TakeEntry(x) \in Connection
          /\ x.wire # <<>> /\ TakeEntry(x).wire = Tail(x.wire)
      BY <1>3, Reading DEF ApplyFails
    <2>2. y \in Connection /\ y.wire = Tail(x.wire)
      <3> HIDE DEF x
      <3> QED BY <2>1 DEF Connection
    <2>3. conns' = [conns EXCEPT ![r][k] = y] /\ Others /\ conn' = conn
      BY <1>3 DEF ApplyFails, Others, RInv, Types, sender, receiver
    <2>4. Carries(conns[r][k].wire, y.wire)
      BY <2>1, <2>2 DEF Carries
    <2>5. applied' = applied
      BY <1>3 DEF ApplyFails, receiver
    <2> HIDE DEF k, y
    <2> QED BY <2>1, <2>2, <2>3, <2>4, <2>5, OneConnection
  <1>4. CASE RefuseEntry(r) \/ RefuseCheckpoint(r) \/ ConnectionEnds(r)
    <2>1. conn[r] # None /\ Disconnect(r)
      BY <1>4 DEF RefuseEntry, RefuseCheckpoint, ConnectionEnds, EntryRefused,
                  CheckpointRefused, HasMessage
    <2>2. UNCHANGED <<issued, base, assigned, entryChan, sending, readers>> /\ top' = top
          /\ lastSeq' = lastSeq /\ applied' = applied
      BY <1>4 DEF RefuseEntry, RefuseCheckpoint, ConnectionEnds, sender
    <2> QED BY <2>1, <2>2, Disconnects
  <1> QED BY <1>1, <1>2, <1>3, <1>4 DEF Receive

\* The writer stops and starts, the reader restarts.
LEMMA RestartSteps ==
    ASSUME RInv, WriterStops \/ WriterStarts \/ \E r \in Readers : ReaderRestarts(r)
    PROVE  RInv' /\ applied' = applied
  <1>1. conns \in Conns
    BY DEF RInv, Types, Conns
  <1>2. CASE WriterStops
    <2>1. conns' = [r \in Readers |->
                       [k \in Slots |-> [CloseSide(conns[r][k]) EXCEPT !.loop = FALSE]]]
      BY <1>2 DEF WriterStops
    <2>2. ASSUME NEW r \in Readers, NEW k \in Slots
          PROVE  conns'[r][k] \in Connection /\ conns'[r][k].wire = conns[r][k].wire
      <3> DEFINE y == CloseSide(conns[r][k])
      <3>1. y \in Connection /\ y.wire = conns[r][k].wire
        BY <1>1, Ends DEF Conns
      <3>2. conns'[r][k] = [y EXCEPT !.loop = FALSE]
        BY <2>1
      <3> HIDE DEF y
      <3>3. [y EXCEPT !.loop = FALSE] \in Connection /\ [y EXCEPT !.loop = FALSE].wire = y.wire
        BY <3>1 DEF Connection
      <3> QED BY <3>1, <3>2, <3>3
    <2>3. conns' \in Conns
      <3>1. conns' = [r \in Readers |-> [k \in Slots |-> conns'[r][k]]]
        BY <2>1
      <3> QED BY <2>2, <3>1 DEF Conns
    <2>4. /\ assigned' = {} /\ entryChan' = <<>> /\ sending' = NotSending
          /\ readers' = [r \in Readers |-> None]
          /\ UNCHANGED <<issued, base, receiver>>
      BY <1>2 DEF WriterStops
    <2>5. sending' \in [id : Nat, todo : SUBSET (Readers \X Slots)] /\ entryChan' \in Seq(Nat)
      BY <2>4 DEF NotSending
    <2>6. Types'
      BY <2>3, <2>4, <2>5 DEF RInv, Types, Conns, receiver
    <2>7. \A r \in Readers, k \in Slots : Carries(conns[r][k].wire, conns'[r][k].wire)
      BY <2>2 DEF Carries
    <2>8. conn' = conn /\ base' = base /\ top' = top /\ lastSeq' = lastSeq /\ applied' = applied
      BY <2>4 DEF receiver
    <2> QED BY <2>6, <2>7, <2>8, CarriedStreams
  <1>3. CASE WriterStarts
    <2>1. /\ base' = issued
          /\ UNCHANGED <<issued, assigned, entryChan, sending, readers, conns, receiver>>
      BY <1>3 DEF WriterStarts
    <2>2. base \in Nat /\ issued \in Nat /\ base <= issued
      BY DEF RInv, Types
    <2>3. Types'
      BY <2>1, <2>2 DEF RInv, Types, receiver
    <2>4. Known'
      BY <2>1, <2>2 DEF RInv, Known, Types, receiver
    <2>5. Streams'
      <3>1. ASSUME NEW r \in Readers, NEW k \in Slots
            PROVE  NotAfter(conns[r][k].wire, issued)
        <4>1. conns[r][k].wire \in Seq(Message) /\ NotAfter(conns[r][k].wire, base)
          BY <1>1 DEF RInv, Streams, Conns, Connection
        <4>2. \A i \in Nat : IsEntry(conns[r][k].wire, i) =>
                  conns[r][k].wire[i].id \in Int /\ conns[r][k].wire[i].seq \in Int
          BY <4>1 DEF IsEntry, Message
        <4> DEFINE w == conns[r][k].wire
        <4> HIDE DEF w
        <4>3. ASSUME NEW i \in Nat, IsEntry(w, i) PROVE w[i].id <= issued + w[i].seq
          <5>1. w[i].id <= base + w[i].seq
            BY <4>1, <4>3 DEF NotAfter, w
          <5>2. w[i].id \in Int /\ w[i].seq \in Int
            BY <4>2, <4>3 DEF w
          <5> QED BY <2>2, <5>1, <5>2
        <4> QED BY <4>3 DEF NotAfter, w
      <3> QED BY <2>1, <3>1 DEF RInv, Streams, receiver
    <2> QED BY <2>1, <2>3, <2>4, <2>5 DEF RInv, receiver
  <1>4. ASSUME NEW r \in Readers, ReaderRestarts(r) PROVE RInv' /\ applied' = applied
    <2> DEFINE k == conn[r]
               y == CloseEnd(conns[r][k])
    <2>1. /\ k \in Slots /\ k # None /\ conns[r][k] \in Connection
          /\ base \in Nat
      BY <1>1, <1>4 DEF ReaderRestarts, RInv, Types, Conns
    <2>2. y \in Connection /\ y.wire = <<>>
      BY <2>1, Ends
    <2>3. /\ conns' = [conns EXCEPT ![r][k] = y] /\ conn' = [conn EXCEPT ![r] = None]
          /\ lastSeq' = [lastSeq EXCEPT ![r] = 0] /\ top' = [top EXCEPT ![r] = 0]
          /\ UNCHANGED <<sender, readers, applied>>
      BY <1>4 DEF ReaderRestarts, Disconnect
    <2> HIDE DEF y, k
    <2>4. /\ conns' \in Conns
          /\ \A q \in Readers, j \in Slots :
                conns'[q][j] = IF q = r /\ j = k THEN y ELSE conns[q][j]
      BY <1>1, <2>1, <2>2, <2>3 DEF Conns
    <2>5. Types'
      BY <2>3, <2>4 DEF RInv, Types, Conns, sender
    <2>6. Known'
      BY <2>1, <2>3 DEF RInv, Known, Types, sender
    <2>7. Streams'
      <3> SUFFICES ASSUME NEW q \in Readers, NEW j \in Slots
                   PROVE  /\ Rising(conns'[q][j].wire) /\ NotAfter(conns'[q][j].wire, base')
                          /\ conn'[q] = j => NotBefore(conns'[q][j].wire, top'[q], lastSeq'[q])
        BY DEF Streams
      <3>1. base' = base
        BY <2>3 DEF sender
      <3>2. CASE q = r
        <4>1. conn'[q] # j
          BY <2>3, <3>2, ReplicationConstants DEF RInv, Types
        <4>2. conns'[q][j].wire = <<>> \/ conns'[q][j] = conns[q][j]
          BY <2>2, <2>4
        <4> QED BY <3>1, <4>1, <4>2, EmptyWire DEF RInv, Streams
      <3>3. CASE q # r
        <4>1. conns'[q][j] = conns[q][j] /\ top'[q] = top[q] /\ lastSeq'[q] = lastSeq[q]
              /\ conn'[q] = conn[q]
          BY <2>3, <2>4, <3>3 DEF RInv, Types
        <4> QED BY <3>1, <4>1 DEF RInv, Streams
      <3> QED BY <3>2, <3>3
    <2> QED BY <2>3, <2>5, <2>6, <2>7 DEF RInv
  <1> QED BY <1>2, <1>3, <1>4

---------------------------------------------------------------------------
(* The order of application.                                                *)

\* The invariant holds in the beginning.
LEMMA RInit == Init => RInv
  <1> SUFFICES ASSUME Init PROVE RInv
    OBVIOUS
  <1>1. Closed \in Connection /\ Closed.wire = <<>>
    <2>1. <<>> \in Seq(Message)
      OBVIOUS
    <2> QED BY <2>1 DEF Connection, Fresh, Closed
  <1>2. conns = [r \in Readers |-> [k \in Slots |-> Closed]]
    BY DEF Init
  <1>3. conns \in Conns /\ \A r \in Readers, k \in Slots : conns[r][k].wire = <<>>
    BY <1>1, <1>2 DEF Conns
  <1>4. Types
    BY <1>3 DEF Init, Types, Conns, NotSending
  <1>5. Streams
    BY <1>3, EmptyWire DEF Streams
  <1>6. Known
    BY DEF Init, Known
  <1> QED BY <1>4, <1>5, <1>6 DEF RInv

\* Every step keeps the invariant, and applies only an entry after the last one.
LEMMA RNext ==
    ASSUME RInv, [Next]_vars
    PROVE  /\ RInv'
           /\ \A r \in Readers : \A e \in applied'[r] \ applied[r] : e > top[r]
  <1>1. CASE UNCHANGED vars
    <2>1. UNCHANGED <<sender, readers, conns, receiver>>
      BY <1>1 DEF vars
    <2> QED BY <2>1 DEF RInv, Types, Streams, Known, sender, receiver
  <1>2. CASE TakeSequence \/ Replicate \/ DistributionLoop
    <2>1. RInv'
      BY <1>2, QueueSteps, SendSteps DEF DistributionLoop
    <2>2. applied' = applied
      BY <1>2 DEF TakeSequence, Replicate, QueueEntry, DropEntry, DistributionLoop,
                  BroadcastEntry, SendToReader, SendFails, receiver
    <2> QED BY <2>1, <2>2
  <1>3. ASSUME NEW r \in Readers, Dial(r)
        PROVE  RInv' /\ applied' = applied
    BY <1>3, DialStep DEF Dial
  <1>4. ASSUME NEW r \in Readers, ApplyEntry(r)
        PROVE  /\ RInv'
               /\ \A q \in Readers : \A e \in applied'[q] \ applied[q] : e > top[q]
    <2>1. RInv' /\ Next1(r).id > top[r]
      BY <1>4, ApplyStep
    <2>2. applied' = [applied EXCEPT ![r] = @ \union {Next1(r).id}]
      BY <1>4 DEF ApplyEntry
    <2>3. applied \in [Readers -> SUBSET Int]
      BY DEF RInv, Types
    <2> QED BY <2>1, <2>2, <2>3
  <1>5. ASSUME NEW r \in Readers, Receive(r), ~ApplyEntry(r)
        PROVE  RInv' /\ applied' = applied
    BY <1>5, ReaderSteps
  <1>6. ASSUME NEW r \in Readers, NEW k \in Slots, Accept(r, k) \/ LoopEnds(r, k) \/ Cut(r, k)
        PROVE  RInv' /\ applied' = applied
    <2>1. RInv'
      BY <1>6, WriterSteps
    <2>2. applied' = applied
      BY <1>6 DEF Accept, PrepareReader, Discard, ActivateReader, LoopEnds, Cut, receiver
    <2> QED BY <2>1, <2>2
  <1>7. ASSUME WriterStops \/ WriterStarts \/ \E r \in Readers : ReaderRestarts(r)
        PROVE  RInv' /\ applied' = applied
    BY <1>7, RestartSteps
  <1> QED BY <1>1, <1>2, <1>3, <1>4, <1>5, <1>6, <1>7 DEF Next

\* The receiver's test of the sequence (receiver.go:487) keeps a reader's entries in the
\* order in which the writer's write calls were given theirs, whatever overtakes, is lost
\* or restarts.
THEOREM AppliesInOrderCorrect == Spec => AppliesInOrder
  <1>1. Init => RInv
    BY RInit
  <1>2. RInv /\ [Next]_vars => RInv'
    BY RNext
  <1>3. RInv /\ [Next]_vars
            => [\A r \in Readers : \A e \in applied'[r] \ applied[r] : e > top[r]]_vars
    BY RNext
  <1> QED BY <1>1, <1>2, <1>3, PTL DEF Spec, AppliesInOrder

---------------------------------------------------------------------------
(* What else is true of a stream.                                           *)

\* The entries of a stream, and whether each is on it once.
Ids(w) == {e \in Int : \E i \in 1..Len(w) : w[i].kind = "entry" /\ w[i].id = e}
Distinct(w) ==
    \A i, j \in Nat : IsEntry(w, i) /\ IsEntry(w, j) /\ w[i].id = w[j].id => i = j
\* The entries of the Sender that began at b have its numbers.
Own(w, b) == \A i \in Nat : IsEntry(w, i) /\ w[i].id > b => w[i].id = b + w[i].seq
\* A checkpoint follows its own entry; what the reader has not read begins after it,
\* or with the checkpoint of sequence l.
Followed(w) ==
    \A i \in Nat : i \in 1..Len(w) /\ i + 1 \in 1..Len(w) /\ w[i + 1].kind = "checkpoint"
                       => w[i].kind = "entry" /\ w[i].seq = w[i + 1].seq
HeadIs(w, l) == w # <<>> /\ w[1].kind = "checkpoint" => w[1].seq = l
\* A reader that has hashed g entries hashes f when it has read the stream, and finds each
\* checkpoint to cover as many as it has: n[i] is what it has hashed after message i.
Weight(m) == IF m.kind = "entry" THEN 1 ELSE 0
Counting(w, g, f, n) ==
    /\ n \in [Nat -> Nat] /\ n[0] = g /\ n[Len(w)] = f
    /\ \A i \in Nat : i + 1 \in 1..Len(w) =>
           /\ n[i + 1] = n[i] + Weight(w[i + 1])
           /\ w[i + 1].kind = "checkpoint" => w[i + 1].fed = n[i + 1]
Hashes(w, g, f) == \E n : Counting(w, g, f, n)

\* An empty stream has these properties too.
LEMMA EmptyStream ==
    ASSUME NEW b, NEW l, NEW g \in Nat
    PROVE  /\ Ids(<<>>) = {} /\ Distinct(<<>>) /\ Own(<<>>, b)
           /\ Followed(<<>>) /\ HeadIs(<<>>, l) /\ Hashes(<<>>, g, g)
  <1>1. Ids(<<>>) = {} /\ Distinct(<<>>) /\ Own(<<>>, b) /\ Followed(<<>>) /\ HeadIs(<<>>, l)
    BY DEF Ids, Distinct, Own, Followed, HeadIs, IsEntry
  <1>2. Counting(<<>>, g, g, [i \in Nat |-> g])
    BY DEF Counting
  <1> QED BY <1>1, <1>2 DEF Hashes

\* What a read leaves of a stream.
LEMMA TailStream ==
    ASSUME NEW w \in Seq(Message), w # <<>>, NEW b \in Int, NEW l \in Int,
           NEW g \in Nat, NEW f \in Nat,
           Distinct(w), Own(w, b), Followed(w), Hashes(w, g, f)
    PROVE  /\ Distinct(Tail(w)) /\ Own(Tail(w), b) /\ Followed(Tail(w))
           /\ w[1].kind = "entry" =>
                 /\ w[1].id \in Ids(w) /\ Ids(Tail(w)) = Ids(w) \ {w[1].id}
                 /\ HeadIs(Tail(w), w[1].seq) /\ Hashes(Tail(w), g + 1, f)
           /\ w[1].kind # "entry" =>
                 /\ Ids(Tail(w)) = Ids(w)
                 /\ HeadIs(Tail(w), l) /\ Hashes(Tail(w), g, f)
           /\ w[1].kind = "checkpoint" => w[1].fed = g
  <1> DEFINE v == Tail(w)
  <1>1. /\ v \in Seq(Message) /\ Len(w) \in Nat /\ Len(w) >= 1 /\ Len(v) = Len(w) - 1
        /\ \A i \in 1..Len(v) : v[i] = w[i + 1]
    OBVIOUS
  <1>2. w[1] \in Message /\ 1 \in 1..Len(w)
    BY <1>1
  <1>3. w[1].kind = "entry" => w[1].id \in Int /\ w[1].seq \in Int
    BY <1>2 DEF Message
  <1> HIDE DEF v
  <1>4. \A i \in Nat : IsEntry(v, i) => IsEntry(w, i + 1) /\ v[i] = w[i + 1] /\ i + 1 \in Nat
    BY <1>1 DEF IsEntry
  <1>5. Distinct(v) /\ Own(v, b)
    <2>1. \A i, j \in Nat : i + 1 = j + 1 => i = j
      OBVIOUS
    <2>2. Distinct(v)
      BY <1>4, <2>1 DEF Distinct
    <2>3. Own(v, b)
      BY <1>4 DEF Own
    <2> QED BY <2>2, <2>3
  <1>6. Followed(v)
    <2>1. SUFFICES ASSUME NEW i \in Nat, i \in 1..Len(v), i + 1 \in 1..Len(v),
                          v[i + 1].kind = "checkpoint"
                   PROVE  v[i].kind = "entry" /\ v[i].seq = v[i + 1].seq
      BY DEF Followed
    <2>2. v[i] = w[i + 1] /\ v[i + 1] = w[(i + 1) + 1]
      BY <1>1, <2>1
    <2>3. i + 1 \in 1..Len(w) /\ (i + 1) + 1 \in 1..Len(w) /\ i + 1 \in Nat
      BY <1>1, <2>1
    <2> QED BY <2>1, <2>2, <2>3 DEF Followed
  <1>7. \A e \in Int : e \in Ids(w) <=>
            (w[1].kind = "entry" /\ w[1].id = e) \/ e \in Ids(v)
    <2>1. \A i \in 1..Len(w) : i = 1 \/ \E j \in 1..Len(v) : i = j + 1
      <3>1. \A i \in 1..Len(w) : i = 1 \/ (i - 1 \in 1..Len(v) /\ i = (i - 1) + 1)
        BY <1>1
      <3> QED BY <3>1
    <2>2. \A j \in 1..Len(v) : j + 1 \in 1..Len(w)
      BY <1>1
    <2> QED BY <1>1, <1>2, <2>1, <2>2 DEF Ids
  <1>8. w[1].kind = "entry" => w[1].id \notin Ids(v)
    <2>1. SUFFICES ASSUME w[1].kind = "entry", NEW i \in 1..Len(v), v[i].kind = "entry",
                          v[i].id = w[1].id
                   PROVE  FALSE
      BY DEF Ids
    <2>2. IsEntry(w, 1) /\ IsEntry(w, i + 1) /\ w[i + 1].id = w[1].id /\ i + 1 \in Nat /\ 1 \in Nat
      BY <1>1, <1>2, <2>1 DEF IsEntry
    <2>3. 1 = i + 1
      BY <2>2 DEF Distinct
    <2> QED BY <2>3
  <1>9. Ids(w) \subseteq Int /\ Ids(v) \subseteq Int
    BY DEF Ids
  <1>10. v # <<>> => 1 \in 1..Len(v) /\ v[1] = w[2] /\ 1 + 1 \in 1..Len(w) /\ 1 \in Nat
    <2>1. v # <<>> => Len(v) >= 1
      BY <1>1
    <2> QED BY <1>1, <2>1
  <1>11. w[1].kind = "entry" => HeadIs(v, w[1].seq)
    BY <1>2, <1>10 DEF Followed, HeadIs
  <1>12. w[1].kind # "entry" => HeadIs(v, l)
    BY <1>2, <1>10 DEF Followed, HeadIs
  <1>13. PICK n : Counting(w, g, f, n)
    BY DEF Hashes
  <1>14. /\ 0 \in Nat /\ 0 + 1 \in 1..Len(w) /\ 0 + 1 = 1
         /\ n[1] = g + Weight(w[1]) /\ (w[1].kind = "checkpoint" => w[1].fed = n[1])
    <2>1. 0 \in Nat /\ 0 + 1 \in 1..Len(w) /\ 0 + 1 = 1
      BY <1>1
    <2> QED BY <1>13, <2>1 DEF Counting
  <1>15. Counting(v, n[1], f, [i \in Nat |-> n[i + 1]])
    <2> DEFINE m == [i \in Nat |-> n[i + 1]]
    <2>1. \A i \in Nat : m[i] = n[i + 1] /\ i + 1 \in Nat
      OBVIOUS
    <2>2. m \in [Nat -> Nat] /\ m[0] = n[1]
      <3>1. n \in [Nat -> Nat]
        BY <1>13 DEF Counting
      <3>2. ASSUME NEW i \in Nat PROVE n[i + 1] \in Nat
        <4>1. i + 1 \in Nat
          OBVIOUS
        <4> QED BY <3>1, <4>1
      <3>3. 0 \in Nat /\ 0 + 1 = 1
        OBVIOUS
      <3> QED BY <3>2, <3>3
    <2>3. m[Len(v)] = f
      <3>1. Len(v) \in Nat /\ Len(v) + 1 = Len(w)
        BY <1>1
      <3> QED BY <1>13, <2>1, <3>1 DEF Counting
    <2> HIDE DEF m
    <2>4. ASSUME NEW i \in Nat, i + 1 \in 1..Len(v)
          PROVE  /\ m[i + 1] = m[i] + Weight(v[i + 1])
                 /\ v[i + 1].kind = "checkpoint" => v[i + 1].fed = m[i + 1]
      <3> DEFINE j == i + 1
      <3>1. j \in Nat /\ j \in 1..Len(v) /\ j + 1 \in 1..Len(w) /\ m[i] = n[j]
        BY <1>1, <2>1, <2>4
      <3>2. v[j] = w[j + 1] /\ m[j] = n[j + 1]
        BY <1>1, <2>1, <3>1
      <3> HIDE DEF j
      <3>3. /\ n[j + 1] = n[j] + Weight(w[j + 1])
            /\ w[j + 1].kind = "checkpoint" => w[j + 1].fed = n[j + 1]
        BY <1>13, <3>1 DEF Counting
      <3> QED BY <3>1, <3>2, <3>3 DEF j
    <2>5. Counting(v, n[1], f, m)
      BY <2>2, <2>3, <2>4 DEF Counting
    <2> QED BY <2>5 DEF m
  <1>16. Hashes(v, n[1], f)
    BY <1>15 DEF Hashes
  <1>17. /\ w[1].kind = "entry" => n[1] = g + 1
         /\ w[1].kind # "entry" => n[1] = g
    BY <1>14 DEF Weight
  <1>18. w[1].kind = "entry" =>
            /\ w[1].id \in Ids(w) /\ Ids(v) = Ids(w) \ {w[1].id}
            /\ HeadIs(v, w[1].seq) /\ Hashes(v, g + 1, f)
    BY <1>3, <1>7, <1>8, <1>9, <1>11, <1>16, <1>17
  <1>19. w[1].kind # "entry" => Ids(v) = Ids(w) /\ HeadIs(v, l) /\ Hashes(v, g, f)
    BY <1>7, <1>9, <1>12, <1>16, <1>17
  <1>20. w[1].kind = "checkpoint" => w[1].fed = g
    BY <1>14, <1>17
  <1> QED BY <1>5, <1>6, <1>18, <1>19, <1>20 DEF v

\* What one more message makes of a stream.
LEMMA AppendStream ==
    ASSUME NEW w \in Seq(Message), NEW m \in Message, NEW b \in Int, NEW l,
           NEW g \in Nat, NEW f \in Nat,
           Distinct(w), Own(w, b), Followed(w), HeadIs(w, l), Hashes(w, g, f),
           m.kind = "entry" => m.id = b + m.seq /\ m.id \notin Ids(w),
           m.kind = "checkpoint" =>
               /\ w # <<>> /\ w[Len(w)].kind = "entry" /\ w[Len(w)].seq = m.seq
               /\ m.fed = f
    PROVE  /\ Distinct(Append(w, m)) /\ Own(Append(w, m), b) /\ Followed(Append(w, m))
           /\ HeadIs(Append(w, m), l) /\ Hashes(Append(w, m), g, f + Weight(m))
           /\ m.kind = "entry" => Ids(Append(w, m)) = Ids(w) \union {m.id}
           /\ m.kind # "entry" => Ids(Append(w, m)) = Ids(w)
  <1> DEFINE v == Append(w, m)
  <1>1. /\ v \in Seq(Message) /\ Len(w) \in Nat /\ Len(v) = Len(w) + 1
        /\ \A i \in 1..Len(w) : v[i] = w[i]
        /\ v[Len(w) + 1] = m
    OBVIOUS
  <1>2. m.kind = "entry" => m.id \in Int /\ m.seq \in Int
    BY DEF Message
  <1> HIDE DEF v
  <1>3. \A i \in Nat : IsEntry(v, i) =>
           \/ IsEntry(w, i) /\ v[i] = w[i]
           \/ i = Len(w) + 1 /\ v[i] = m /\ m.kind = "entry"
    BY <1>1 DEF IsEntry
  <1>4. Own(v, b)
    BY <1>3 DEF Own
  <1>5. \A i \in Nat : IsEntry(w, i) => w[i].id \in Ids(w)
    <2>1. \A i \in Nat : IsEntry(w, i) => w[i].id \in Int
      BY DEF IsEntry, Message
    <2> QED BY <2>1 DEF Ids, IsEntry
  <1>6. Distinct(v)
    <2> SUFFICES ASSUME NEW i \in Nat, NEW j \in Nat, IsEntry(v, i), IsEntry(v, j),
                        v[i].id = v[j].id
                 PROVE  i = j
      BY DEF Distinct
    <2> QED BY <1>3, <1>5 DEF Distinct
  <1>7. Followed(v)
    <2>1. SUFFICES ASSUME NEW i \in Nat, i \in 1..Len(v), i + 1 \in 1..Len(v),
                          v[i + 1].kind = "checkpoint"
                   PROVE  v[i].kind = "entry" /\ v[i].seq = v[i + 1].seq
      BY DEF Followed
    <2>2. i \in 1..Len(w) /\ v[i] = w[i]
      BY <1>1, <2>1
    <2>3. CASE i + 1 \in 1..Len(w)
      BY <1>1, <2>1, <2>2, <2>3 DEF Followed
    <2>4. CASE i + 1 = Len(w) + 1
      <3>1. i = Len(w) /\ v[i + 1] = m
        BY <1>1, <2>4
      <3> QED BY <2>1, <2>2, <3>1
    <2> QED BY <1>1, <2>1, <2>3, <2>4
  <1>8. HeadIs(v, l)
    <2>1. CASE w = <<>>
      <3>1. v[1] = m
        BY <1>1, <2>1
      <3> QED BY <2>1, <3>1 DEF HeadIs
    <2>2. CASE w # <<>>
      <3>1. v[1] = w[1]
        BY <1>1, <2>2
      <3> QED BY <2>2, <3>1 DEF HeadIs
    <2> QED BY <2>1, <2>2
  <1>9. PICK n : Counting(w, g, f, n)
    BY DEF Hashes
  <1> DEFINE k == Len(w) + 1
             p == [n EXCEPT ![k] = f + Weight(m)]
  <1>10. Weight(m) \in Nat /\ k \in Nat
    BY <1>1 DEF Weight
  <1>11. /\ p \in [Nat -> Nat] /\ p[k] = f + Weight(m)
         /\ \A i \in Nat : i # k => p[i] = n[i]
    <2>1. n \in [Nat -> Nat]
      BY <1>9 DEF Counting
    <2>2. f + Weight(m) \in Nat
      BY <1>10
    <2> HIDE DEF k
    <2> QED BY <1>10, <2>1, <2>2
  <1> HIDE DEF p
  <1>12. Counting(v, g, f + Weight(m), p)
    <2>1. p[0] = g /\ p[Len(v)] = f + Weight(m) /\ p[Len(w)] = f
      <3>1. n[0] = g /\ n[Len(w)] = f
        BY <1>9 DEF Counting
      <3>2. 0 \in Nat /\ 0 # k /\ Len(w) \in Nat /\ Len(w) # k /\ Len(v) = k
        BY <1>1
      <3> HIDE DEF k
      <3> QED BY <1>11, <3>1, <3>2
    <2>2. ASSUME NEW i \in Nat, i + 1 \in 1..Len(v)
          PROVE  /\ p[i + 1] = p[i] + Weight(v[i + 1])
                 /\ v[i + 1].kind = "checkpoint" => v[i + 1].fed = p[i + 1]
      <3>1. CASE i + 1 \in 1..Len(w)
        <4>1. i # k /\ i + 1 # k /\ i + 1 \in Nat /\ v[i + 1] = w[i + 1]
          BY <1>1, <3>1
        <4>2. p[i] = n[i] /\ p[i + 1] = n[i + 1]
          BY <1>11, <4>1
        <4> QED BY <1>9, <3>1, <4>1, <4>2 DEF Counting
      <3>2. CASE i + 1 = k
        <4>1. i = Len(w) /\ v[i + 1] = m
          BY <1>1, <3>2
        <4>2. p[i] = f /\ p[i + 1] = f + Weight(m)
          BY <1>11, <2>1, <3>2, <4>1
        <4>3. m.kind = "checkpoint" => m.fed = f + Weight(m)
          BY DEF Weight
        <4> QED BY <4>1, <4>2, <4>3
      <3> QED BY <1>1, <2>2, <3>1, <3>2
    <2> QED BY <1>11, <2>1, <2>2 DEF Counting
  <1>13. Hashes(v, g, f + Weight(m))
    BY <1>12 DEF Hashes
  <1>14. \A e \in Int : e \in Ids(v) <=> e \in Ids(w) \/ (m.kind = "entry" /\ m.id = e)
    <2>1. \A i \in 1..Len(v) : i \in 1..Len(w) \/ i = Len(w) + 1
      BY <1>1
    <2>2. \A i \in 1..Len(w) : i \in 1..Len(v)
      BY <1>1
    <2>3. Len(w) + 1 \in 1..Len(v)
      BY <1>1
    <2> QED BY <1>1, <2>1, <2>2, <2>3 DEF Ids
  <1>15. Ids(v) \subseteq Int /\ Ids(w) \subseteq Int
    BY DEF Ids
  <1>16. m.kind = "entry" => Ids(v) = Ids(w) \union {m.id}
    BY <1>2, <1>14, <1>15
  <1>17. m.kind # "entry" => Ids(v) = Ids(w)
    BY <1>14, <1>15
  <1> QED BY <1>4, <1>6, <1>7, <1>8, <1>13, <1>16, <1>17 DEF v

---------------------------------------------------------------------------
(* Sound connections, and what a step makes of them.                        *)

\* x is a connection of the Sender that began at b or of one before it.
Sound(x, b) ==
    /\ Distinct(x.wire) /\ Own(x.wire, b) /\ Followed(x.wire)
    /\ (x.open /\ ~x.cut) \/ x.wire = <<>>
    /\ x.side \in {"asked", "acked"} => x.fed = 0
    /\ \E f \in Nat : /\ Hashes(x.wire, x.got, f)
                      /\ (x.side # "gone" /\ x.open /\ ~x.cut) => f = x.fed

\* y is x, or x after the writer has closed its side.
SameEnd(x, y) ==
    /\ y.wire = x.wire /\ y.open = x.open /\ y.cut = x.cut /\ y.got = x.got
    /\ y.failed = x.failed
    /\ y.side = "gone" \/ (y.side = x.side /\ y.fed = x.fed)

LEMMA SameSound ==
    ASSUME NEW x, NEW y, NEW b, Sound(x, b), SameEnd(x, y)
    PROVE  Sound(y, b)
  BY DEF Sound, SameEnd

LEMMA ClosedSame ==
    ASSUME NEW x \in Connection
    PROVE  /\ SameEnd(x, x) /\ SameEnd(x, CloseSide(x))
           /\ SameEnd(x, [CloseSide(x) EXCEPT !.loop = FALSE])
  BY DEF SameEnd, CloseSide, Connection

LEMMA EmptySound ==
    ASSUME NEW x \in Connection, NEW b, x.wire = <<>>,
           x.side = "gone" \/ ~x.open \/ x.cut \/ x.fed = x.got,
           x.side \in {"asked", "acked"} => x.fed = 0
    PROVE  Sound(x, b)
  <1>1. x.got \in Nat
    BY DEF Connection
  <1>2. Hashes(x.wire, x.got, x.got) /\ Distinct(x.wire) /\ Own(x.wire, b) /\ Followed(x.wire)
    BY <1>1, EmptyStream
  <1> QED BY <1>1, <1>2 DEF Sound

\* What the model's EntriesOn means.
LEMMA EntriesAreIds ==
    ASSUME NEW x \in Connection
    PROVE  EntriesOn(x) = Ids(x.wire)
  <1>1. x.wire \in Seq(Message)
    BY DEF Connection
  <1>2. \A i \in 1..Len(x.wire) : x.wire[i].kind = "entry" => x.wire[i].id \in Int
    <2> DEFINE w == x.wire
    <2> HIDE DEF w
    <2>1. \A i \in 1..Len(w) : w[i] \in Message
      BY <1>1 DEF w
    <2> QED BY <2>1 DEF Message, w
  <1>3. ToSet(x.wire) = {x.wire[i] : i \in 1..Len(x.wire)}
    BY <1>1 DEF ToSet
  <1> QED BY <1>2, <1>3 DEF EntriesOn, Ids

\* The writer's answer is on the stream, or the connection is closed already.
LEMMA AckSound ==
    ASSUME NEW x \in Connection, NEW b \in Int, Sound(x, b), x.side = "asked"
    PROVE  LET y == [Put(x, <<Ack>>) EXCEPT !.side = "acked"]
           IN  /\ Sound(y, b) /\ Ids(y.wire) = Ids(x.wire) /\ y.failed = x.failed
               /\ \A l : HeadIs(x.wire, l) => HeadIs(y.wire, l)
  <1> DEFINE w == x.wire
             v == w \o <<Ack>>
             p == Put(x, <<Ack>>)
             y == [p EXCEPT !.side = "acked"]
  <1>1. w \in Seq(Message) /\ x.got \in Nat
    BY DEF Connection
  <1>2. Ack \in Message /\ Ack.kind = "ack"
    BY DEF Ack, Message
  <1>3. v = Append(w, Ack)
    BY <1>1, <1>2
  <1>4. PICK f \in Nat : /\ Hashes(w, x.got, f)
                         /\ (x.side # "gone" /\ x.open /\ ~x.cut) => f = x.fed
    BY DEF Sound
  <1>5. Distinct(w) /\ Own(w, b) /\ Followed(w) /\ x.fed = 0
    BY DEF Sound
  <1>6. f + Weight(Ack) = f
    BY <1>2 DEF Weight
  <1>7. ASSUME NEW l, HeadIs(w, l)
        PROVE  /\ Distinct(v) /\ Own(v, b) /\ Followed(v) /\ HeadIs(v, l)
               /\ Hashes(v, x.got, f) /\ Ids(v) = Ids(w)
    <2> HIDE DEF w, v
    <2>1. /\ Distinct(Append(w, Ack)) /\ Own(Append(w, Ack), b) /\ Followed(Append(w, Ack))
          /\ HeadIs(Append(w, Ack), l) /\ Hashes(Append(w, Ack), x.got, f + Weight(Ack))
          /\ Ids(Append(w, Ack)) = Ids(w)
      BY <1>1, <1>2, <1>4, <1>5, <1>7, AppendStream
    <2> QED BY <1>3, <1>6, <2>1
  <1>8. \E l : HeadIs(w, l)
    <2>1. HeadIs(w, w[1].seq)
      BY DEF HeadIs
    <2> QED BY <2>1
  <1>9. p = IF x.open /\ ~x.cut THEN [x EXCEPT !.wire = v] ELSE x
    BY DEF Put
  <1>10. /\ p.open = x.open /\ p.cut = x.cut /\ p.got = x.got /\ p.failed = x.failed
         /\ p.fed = x.fed /\ p.wire = (IF x.open /\ ~x.cut THEN v ELSE w)
    <2> HIDE DEF v, p
    <2> QED BY <1>9 DEF Connection
  <1>11. p \in Connection
    <2>1. v \in Seq(Message)
      BY <1>1, <1>2, <1>3
    <2> HIDE DEF v, p
    <2> QED BY <1>9, <2>1 DEF Connection
  <1>12. /\ y.open = x.open /\ y.cut = x.cut /\ y.got = x.got /\ y.failed = x.failed
         /\ y.fed = x.fed /\ y.side = "acked" /\ y.wire = (IF x.open /\ ~x.cut THEN v ELSE w)
    <2> HIDE DEF v, p
    <2> QED BY <1>10, <1>11 DEF Connection
  <1> HIDE DEF v, y, p
  <1>13. Sound(y, b)
    BY <1>4, <1>5, <1>7, <1>8, <1>12 DEF Sound, w
  <1>14. Ids(y.wire) = Ids(w) /\ \A l : HeadIs(w, l) => HeadIs(y.wire, l)
    BY <1>7, <1>8, <1>12
  <1> QED BY <1>12, <1>13, <1>14 DEF y, p, w

\* The writer's entry, with its checkpoint when one is due, on a connection that is whole.
LEMMA StampedSound ==
    ASSUME NEW x \in Connection, NEW b \in Int, b = base, NEW e \in Nat, Sound(x, b),
           x.side = "active", (x.open /\ ~x.cut) => e \notin Ids(x.wire)
    PROVE  LET y == Stamped(x, e)
           IN  /\ Sound(y, b) /\ y.failed = x.failed
               /\ Ids(y.wire) = Ids(x.wire) \union (IF x.open /\ ~x.cut THEN {e} ELSE {})
               /\ \A l : HeadIs(x.wire, l) => HeadIs(y.wire, l)
  <1> DEFINE w == x.wire
             m == Entry(e)
             c == Checkpoint(e, x.fed + 1)
             v == Append(w, m)
             due == x.since + 1 >= CheckpointInterval
             ms == <<m>> \o IF due THEN <<c>> ELSE <<>>
             p == Put(x, ms)
             y == Stamped(x, e)
  <1>1. w \in Seq(Message) /\ x.got \in Nat /\ x.fed \in Nat /\ x.since \in Nat
    BY DEF Connection
  <1>2. m \in Message /\ m.kind = "entry" /\ m.id = e /\ m.seq = e - b
    BY DEF Entry, Message
  <1>3. c \in Message /\ c.kind = "checkpoint" /\ c.seq = e - b /\ c.fed = x.fed + 1
    BY <1>1 DEF Checkpoint, Message
  <1>4. v \in Seq(Message) /\ v # <<>> /\ v[Len(v)] = m
    BY <1>1, <1>2
  <1>5. w \o ms = (IF due THEN Append(v, c) ELSE v)
    <2>1. w \in Seq(Message) /\ m \in Message /\ c \in Message
      BY <1>1, <1>2, <1>3
    <2> HIDE DEF w, m, c, due
    <2>2. w \o (<<m>> \o <<c>>) = Append(Append(w, m), c) /\ w \o (<<m>> \o <<>>) = Append(w, m)
      BY <2>1
    <2> QED BY <2>2
  <1>6. w \o ms \in Seq(Message)
    <2> HIDE DEF w, ms, v, c
    <2> QED BY <1>3, <1>4, <1>5
  <1>7. p = IF x.open /\ ~x.cut THEN [x EXCEPT !.wire = w \o ms] ELSE x
    BY DEF Put
  <1>8. /\ p \in Connection
        /\ p.open = x.open /\ p.cut = x.cut /\ p.got = x.got /\ p.failed = x.failed
        /\ p.fed = x.fed /\ p.side = x.side /\ p.since = x.since
        /\ p.wire = (IF x.open /\ ~x.cut THEN w \o ms ELSE w)
    <2> HIDE DEF ms, p
    <2> QED BY <1>6, <1>7 DEF Connection
  <1>9. /\ y.open = x.open /\ y.cut = x.cut /\ y.got = x.got /\ y.failed = x.failed
        /\ y.fed = x.fed + 1 /\ y.side = "active"
        /\ y.wire = (IF x.open /\ ~x.cut THEN w \o ms ELSE w)
    <2> DEFINE n == IF due THEN 0 ELSE p.since + 1
    <2>1. y = [p EXCEPT !.fed = p.fed + 1, !.since = n]
      BY DEF Stamped
    <2> HIDE DEF y, n, p, ms
    <2> QED BY <1>8, <2>1 DEF Connection
  <1>10. PICK f \in Nat : /\ Hashes(w, x.got, f)
                          /\ (x.side # "gone" /\ x.open /\ ~x.cut) => f = x.fed
    BY DEF Sound
  <1>11. Distinct(w) /\ Own(w, b) /\ Followed(w)
    BY DEF Sound
  <1>12. CASE x.open /\ ~x.cut
    <2>1. f = x.fed /\ e \notin Ids(w)
      BY <1>10, <1>12
    <2>2. Weight(m) = 1 /\ Weight(c) = 0 /\ e = b + m.seq
      BY <1>2, <1>3 DEF Weight
    <2>3. ASSUME NEW l, HeadIs(w, l)
          PROVE  /\ Distinct(v) /\ Own(v, b) /\ Followed(v) /\ HeadIs(v, l)
                 /\ Hashes(v, x.got, x.fed + 1) /\ Ids(v) = Ids(w) \union {e}
      <3>1. m.kind = "entry" => m.id = b + m.seq /\ m.id \notin Ids(w)
        BY <1>2, <2>1, <2>2
      <3>2. m.kind # "checkpoint"
        BY <1>2
      <3> HIDE DEF w, m
      <3>3. /\ Distinct(Append(w, m)) /\ Own(Append(w, m), b) /\ Followed(Append(w, m))
            /\ HeadIs(Append(w, m), l) /\ Hashes(Append(w, m), x.got, f + Weight(m))
            /\ Ids(Append(w, m)) = Ids(w) \union {m.id}
        BY <1>1, <1>2, <1>10, <1>11, <2>3, <3>1, <3>2, AppendStream
      <3> QED BY <1>2, <2>1, <2>2, <3>3
    <2>4. ASSUME NEW l, HeadIs(w, l)
          PROVE  /\ Distinct(Append(v, c)) /\ Own(Append(v, c), b) /\ Followed(Append(v, c))
                 /\ HeadIs(Append(v, c), l) /\ Hashes(Append(v, c), x.got, x.fed + 1)
                 /\ Ids(Append(v, c)) = Ids(w) \union {e}
      <3>1. /\ Distinct(v) /\ Own(v, b) /\ Followed(v) /\ HeadIs(v, l)
            /\ Hashes(v, x.got, x.fed + 1) /\ Ids(v) = Ids(w) \union {e}
        BY <2>3, <2>4
      <3>2. c.kind # "entry" /\ x.fed + 1 \in Nat /\ (x.fed + 1) + Weight(c) = x.fed + 1
        BY <1>1, <1>3, <2>2
      <3>3. /\ v # <<>> /\ v[Len(v)].kind = "entry" /\ v[Len(v)].seq = c.seq
            /\ c.fed = x.fed + 1
        BY <1>2, <1>3, <1>4
      <3> HIDE DEF w, v, c, m
      <3>4. /\ Distinct(Append(v, c)) /\ Own(Append(v, c), b) /\ Followed(Append(v, c))
            /\ HeadIs(Append(v, c), l) /\ Hashes(Append(v, c), x.got, (x.fed + 1) + Weight(c))
            /\ Ids(Append(v, c)) = Ids(v)
        BY <1>1, <1>3, <1>4, <3>1, <3>2, <3>3, AppendStream
      <3> QED BY <3>1, <3>2, <3>4
    <2>5. \E l : HeadIs(w, l)
      <3>1. HeadIs(w, w[1].seq)
        BY DEF HeadIs
      <3> QED BY <3>1
    <2>6. y.wire = v \/ y.wire = Append(v, c)
      BY <1>5, <1>9, <1>12
    <2>7. x.fed + 1 \in Nat
      BY <1>1
    <2> HIDE DEF y, v, c, m
    <2>8. Sound(y, b)
      BY <1>9, <1>12, <2>3, <2>4, <2>5, <2>6, <2>7 DEF Sound
    <2>9. Ids(y.wire) = Ids(w) \union {e} /\ \A l : HeadIs(w, l) => HeadIs(y.wire, l)
      BY <2>3, <2>4, <2>5, <2>6
    <2> QED BY <1>9, <1>12, <2>8, <2>9 DEF y
  <1>13. CASE ~(x.open /\ ~x.cut)
    <2>1. y.wire = w
      BY <1>9, <1>13
    <2> HIDE DEF y
    <2>2. Sound(y, b)
      BY <1>9, <1>10, <1>11, <1>13, <2>1 DEF Sound
    <2> QED BY <1>9, <1>13, <2>1, <2>2 DEF y
  <1> QED BY <1>12, <1>13

\* A read takes the first message; an entry counts.
LEMMA ReadSound ==
    ASSUME NEW x \in Connection, NEW b \in Int, Sound(x, b), x.wire # <<>>
    PROVE  /\ x.wire[1].kind # "entry" =>
                 /\ Sound(Take(x), b) /\ Ids(Take(x).wire) = Ids(x.wire)
                 /\ Take(x).failed = x.failed /\ \A l \in Int : HeadIs(Take(x).wire, l)
           /\ x.wire[1].kind = "entry" =>
                 /\ Sound(TakeEntry(x), b) /\ TakeEntry(x).failed = x.failed
                 /\ x.wire[1].id \in Ids(x.wire)
                 /\ Ids(TakeEntry(x).wire) = Ids(x.wire) \ {x.wire[1].id}
                 /\ HeadIs(TakeEntry(x).wire, x.wire[1].seq)
           /\ x.wire[1].kind = "checkpoint" => x.wire[1].fed = x.got
  <1> DEFINE w == x.wire
  <1>1. w \in Seq(Message) /\ x.got \in Nat
    BY DEF Connection
  <1>2. PICK f \in Nat : /\ Hashes(w, x.got, f)
                         /\ (x.side # "gone" /\ x.open /\ ~x.cut) => f = x.fed
    BY DEF Sound
  <1>3. /\ Distinct(w) /\ Own(w, b) /\ Followed(w) /\ x.open /\ ~x.cut
        /\ x.side \in {"asked", "acked"} => x.fed = 0
    BY DEF Sound
  <1>4. ASSUME NEW l \in Int
        PROVE  /\ Distinct(Tail(w)) /\ Own(Tail(w), b) /\ Followed(Tail(w))
               /\ w[1].kind = "entry" =>
                     /\ w[1].id \in Ids(w) /\ Ids(Tail(w)) = Ids(w) \ {w[1].id}
                     /\ HeadIs(Tail(w), w[1].seq) /\ Hashes(Tail(w), x.got + 1, f)
               /\ w[1].kind # "entry" =>
                     /\ Ids(Tail(w)) = Ids(w)
                     /\ HeadIs(Tail(w), l) /\ Hashes(Tail(w), x.got, f)
               /\ w[1].kind = "checkpoint" => w[1].fed = x.got
    <2> HIDE DEF w
    <2> QED BY <1>1, <1>2, <1>3, TailStream DEF w
  <1>5. /\ Take(x).wire = Tail(w) /\ Take(x).got = x.got /\ Take(x).fed = x.fed
        /\ Take(x).side = x.side /\ Take(x).open = x.open /\ Take(x).cut = x.cut
        /\ Take(x).failed = x.failed
    BY DEF Take, Connection
  <1>6. /\ TakeEntry(x).wire = Tail(w) /\ TakeEntry(x).got = x.got + 1 /\ TakeEntry(x).fed = x.fed
        /\ TakeEntry(x).side = x.side /\ TakeEntry(x).open = x.open
        /\ TakeEntry(x).cut = x.cut /\ TakeEntry(x).failed = x.failed
    BY DEF TakeEntry, Connection
  <1>7. 0 \in Int
    OBVIOUS
  <1> DEFINE t == Take(x)
             u == TakeEntry(x)
             v == Tail(w)
  <1> HIDE DEF w, t, u, v
  <1>8. ASSUME w[1].kind # "entry"
        PROVE  Sound(t, b) /\ Ids(t.wire) = Ids(w) /\ \A l \in Int : HeadIs(t.wire, l)
    <2>1. t.wire = v /\ t.got = x.got /\ t.fed = x.fed /\ t.side = x.side /\ t.open /\ ~t.cut
      BY <1>3, <1>5 DEF t, v
    <2>2. /\ Distinct(v) /\ Own(v, b) /\ Followed(v) /\ Ids(v) = Ids(w) /\ Hashes(v, x.got, f)
          /\ \A l \in Int : HeadIs(v, l)
      BY <1>4, <1>7, <1>8 DEF v
    <2>3. (x.side # "gone" /\ x.open /\ ~x.cut) => f = x.fed
      BY <1>2
    <2> QED BY <1>3, <2>1, <2>2, <2>3 DEF Sound
  <1>9. ASSUME w[1].kind = "entry"
        PROVE  /\ Sound(u, b) /\ w[1].id \in Ids(w) /\ Ids(u.wire) = Ids(w) \ {w[1].id}
               /\ HeadIs(u.wire, w[1].seq)
    <2>1. u.wire = v /\ u.got = x.got + 1 /\ u.fed = x.fed /\ u.side = x.side /\ u.open /\ ~u.cut
      BY <1>3, <1>6 DEF u, v
    <2>2. /\ Distinct(v) /\ Own(v, b) /\ Followed(v) /\ w[1].id \in Ids(w)
          /\ Ids(v) = Ids(w) \ {w[1].id} /\ HeadIs(v, w[1].seq) /\ Hashes(v, x.got + 1, f)
      BY <1>4, <1>7, <1>9 DEF v
    <2>3. (x.side # "gone" /\ x.open /\ ~x.cut) => f = x.fed
      BY <1>2
    <2> QED BY <1>3, <2>1, <2>2, <2>3 DEF Sound
  <1> QED BY <1>4, <1>5, <1>6, <1>7, <1>8, <1>9 DEF t, u, w

---------------------------------------------------------------------------
(* Where the entries are.                                                   *)

\* An entry that was given a sequence is in one place: assigned, queued, with the loop that
\* sends, on one of a reader's streams, applied or lost; no other number is anywhere.
Books(A, Q, S, W, P, L, n) ==
    /\ \A e \in Int : e \in 1..n <=>
          \/ e \in A \/ e \in Q \/ e \in S \/ e \in P \/ e \in L
          \/ \E k \in Slots : e \in W[k]
    /\ \A e \in Int :
          /\ e \in A => e \notin Q /\ e \notin S /\ e \notin P /\ e \notin L
          /\ e \in Q => e \notin S /\ e \notin P /\ e \notin L
          /\ e \in S => e \notin P /\ e \notin L
          /\ e \in P => e \notin L
          /\ \A k \in Slots : e \in W[k] =>
                e \notin A /\ e \notin Q /\ e \notin S /\ e \notin P /\ e \notin L
          /\ \A j, k \in Slots : e \in W[j] /\ e \in W[k] => j = k

\* Every place gives to the next.
LEMMA Moves ==
    ASSUME NEW A, NEW Q, NEW S, NEW W, NEW P, NEW L, NEW n \in Nat, Books(A, Q, S, W, P, L, n)
    PROVE  /\ Books(A \union {n + 1}, Q, S, W, P, L, n + 1)
           /\ \A e \in A : Books(A \ {e}, Q \union {e}, S, W, P, L, n)
           /\ \A e \in A : Books(A \ {e}, Q, S, W, P, L \union {e}, n)
           /\ \A e \in Q : S = {} => Books(A, Q \ {e}, {e}, W, P, L, n)
           /\ \A e \in Q : Books(A, Q \ {e}, S, W, P, L \union {e}, n)
           /\ \A e : S = {e} => Books(A, Q, {}, W, P, L \union {e}, n)
           /\ Books({}, {}, {}, W, P, L \union A \union Q \union S, n)
  <1>1. Books(A \union {n + 1}, Q, S, W, P, L, n + 1)
    <2>1. \A e \in Int : (e \in 1..(n + 1) <=> e \in 1..n \/ e = n + 1) /\ (n + 1) \notin 1..n
      OBVIOUS
    <2> QED BY <2>1 DEF Books
  <1>2. \A e \in A : Books(A \ {e}, Q \union {e}, S, W, P, L, n)
    BY DEF Books
  <1>3. \A e \in A : Books(A \ {e}, Q, S, W, P, L \union {e}, n)
    BY DEF Books
  <1>4. \A e \in Q : S = {} => Books(A, Q \ {e}, {e}, W, P, L, n)
    BY DEF Books
  <1>5. \A e \in Q : Books(A, Q \ {e}, S, W, P, L \union {e}, n)
    BY DEF Books
  <1>6. \A e : S = {e} => Books(A, Q, {}, W, P, L \union {e}, n)
    BY DEF Books
  <1>7. Books({}, {}, {}, W, P, L \union A \union Q \union S, n)
    BY DEF Books
  <1> QED BY <1>1, <1>2, <1>3, <1>4, <1>5, <1>6, <1>7

\* A stream takes an entry from the loop.
LEMMA WireTakes ==
    ASSUME NEW A, NEW Q, NEW W, NEW V, NEW P, NEW L, NEW n \in Nat, NEW e,
           Books(A, Q, {e}, W, P, L, n), NEW k \in Slots,
           \A j \in Slots : j # k => V[j] = W[j], V[k] = W[k] \union {e}
    PROVE  Books(A, Q, {}, V, P, L, n)
  <1>1. \A i \in Int, j \in Slots : i \in V[j] <=> i \in W[j] \/ (j = k /\ i = e)
    OBVIOUS
  <1> QED BY <1>1 DEF Books

\* A stream gives an entry to the reader, or ends.
LEMMA WireMoves ==
    ASSUME NEW A, NEW Q, NEW S, NEW W, NEW V, NEW P, NEW L, NEW n \in Nat,
           Books(A, Q, S, W, P, L, n), NEW k \in Slots, NEW e,
           \A j \in Slots : j # k => V[j] = W[j]
    PROVE  /\ e \in W[k] /\ V[k] = W[k] \ {e} => Books(A, Q, S, V, P \union {e}, L, n)
           /\ e \in W[k] /\ V[k] = W[k] \ {e} => Books(A, Q, S, V, P, L \union {e}, n)
           /\ V[k] = {} => Books(A, Q, S, V, P, L \union W[k], n)
           /\ V[k] = W[k] => Books(A, Q, S, V, P, L, n)
  <1>1. ASSUME e \in W[k], V[k] = W[k] \ {e}
        PROVE  Books(A, Q, S, V, P \union {e}, L, n) /\ Books(A, Q, S, V, P, L \union {e}, n)
    <2>1. \A i \in Int, j \in Slots : i \in V[j] <=> i \in W[j] /\ ~(j = k /\ i = e)
      BY <1>1
    <2>2. Books(A, Q, S, V, P \union {e}, L, n)
      BY <1>1, <2>1 DEF Books
    <2>3. Books(A, Q, S, V, P, L \union {e}, n)
      BY <1>1, <2>1 DEF Books
    <2> QED BY <2>2, <2>3
  <1>2. ASSUME V[k] = {} PROVE Books(A, Q, S, V, P, L \union W[k], n)
    <2>1. \A i \in Int, j \in Slots : i \in V[j] <=> i \in W[j] /\ j # k
      BY <1>2
    <2> QED BY <1>2, <2>1 DEF Books
  <1>3. ASSUME V[k] = W[k] PROVE Books(A, Q, S, V, P, L, n)
    <2>1. \A j \in Slots : V[j] = W[j]
      BY <1>3
    <2> QED BY <2>1 DEF Books
  <1> QED BY <1>1, <1>2, <1>3

Waits(r) == IF \E k \in Slots : <<r, k>> \in sending.todo THEN {sending.id} ELSE {}
OnWires(r) == [k \in Slots |-> Ids(conns[r][k].wire)]

BooksInv ==
    \A r \in Readers :
        Books(assigned, ToSet(entryChan), Waits(r), OnWires(r), applied[r], lost[r], issued)
\* No entry is twice in the queue, and the loop has one connection for each reader.
QueueOnce == \A i, j \in 1..Len(entryChan) : entryChan[i] = entryChan[j] => i = j
QueueInv ==
    \A r \in Readers :
        /\ QueueOnce
        /\ \A j, k \in Slots : <<r, j>> \in sending.todo /\ <<r, k>> \in sending.todo => j = k
SoundInv == \A r \in Readers, k \in Slots : Sound(conns[r][k], base)
\* What the reader has read last, while nothing failed on the connection.
HeadsInv ==
    \A r \in Readers, k \in Slots :
        conn[r] = k /\ ~conns[r][k].failed => HeadIs(conns[r][k].wire, lastSeq[r])
TopsInv ==
    \A r \in Readers :
        /\ top[r] > base => top[r] = base + lastSeq[r]
        /\ top[r] = 0 \/ top[r] \in applied[r]
LInv ==
    /\ lost \in [Readers -> SUBSET Int]
    /\ BooksInv /\ QueueInv /\ SoundInv /\ HeadsInv /\ TopsInv

\* The queue as a set.
LEMMA QueueSet ==
    ASSUME NEW q \in Seq(Nat), \A i, j \in 1..Len(q) : q[i] = q[j] => i = j
    PROVE  /\ ToSet(q) = {q[i] : i \in 1..Len(q)} /\ ToSet(q) \subseteq Nat
           /\ \A e \in Nat : e \notin ToSet(q) =>
                 /\ ToSet(Append(q, e)) = ToSet(q) \union {e}
                 /\ \A i, j \in 1..Len(Append(q, e)) : Append(q, e)[i] = Append(q, e)[j] => i = j
           /\ q # <<>> =>
                 /\ Head(q) \in ToSet(q) /\ ToSet(Tail(q)) = ToSet(q) \ {Head(q)}
                 /\ \A i, j \in 1..Len(Tail(q)) : Tail(q)[i] = Tail(q)[j] => i = j
  <1>1. ToSet(q) = {q[i] : i \in 1..Len(q)} /\ ToSet(q) \subseteq Nat
    BY DEF ToSet
  <1>2. ASSUME NEW e \in Nat, e \notin ToSet(q)
        PROVE  /\ ToSet(Append(q, e)) = ToSet(q) \union {e}
               /\ \A i, j \in 1..Len(Append(q, e)) : Append(q, e)[i] = Append(q, e)[j] => i = j
    <2> DEFINE p == Append(q, e)
    <2>1. /\ p \in Seq(Nat) /\ Len(p) = Len(q) + 1 /\ p[Len(q) + 1] = e /\ Len(q) \in Nat
          /\ \A i \in 1..Len(q) : p[i] = q[i]
      OBVIOUS
    <2>2. ToSet(p) = {p[i] : i \in 1..Len(p)}
      BY <2>1 DEF ToSet
    <2> HIDE DEF p
    <2>3. \A i : i \in 1..Len(p) <=> i \in 1..Len(q) \/ i = Len(q) + 1
      BY <2>1
    <2>4. ToSet(p) = ToSet(q) \union {e}
      <3>1. \A i \in 1..Len(q) : p[i] = q[i] /\ i \in 1..Len(p)
        BY <2>1, <2>3
      <3>2. Len(q) + 1 \in 1..Len(p) /\ p[Len(q) + 1] = e
        BY <2>1, <2>3
      <3>3. ToSet(q) \union {e} \subseteq ToSet(p)
        BY <1>1, <2>2, <3>1, <3>2
      <3>4. \A i \in 1..Len(p) : p[i] \in ToSet(q) \union {e}
        BY <1>1, <2>3, <3>1, <3>2
      <3>5. ToSet(p) \subseteq ToSet(q) \union {e}
        BY <2>2, <3>4
      <3> QED BY <3>3, <3>5
    <2>5. \A i, j \in 1..Len(p) : p[i] = p[j] => i = j
      BY <1>1, <1>2, <2>1, <2>3
    <2> QED BY <2>4, <2>5 DEF p
  <1>3. ASSUME q # <<>>
        PROVE  /\ Head(q) \in ToSet(q) /\ ToSet(Tail(q)) = ToSet(q) \ {Head(q)}
               /\ \A i, j \in 1..Len(Tail(q)) : Tail(q)[i] = Tail(q)[j] => i = j
    <2> DEFINE p == Tail(q)
    <2>1. /\ p \in Seq(Nat) /\ Len(q) \in Nat /\ Len(q) >= 1 /\ Len(p) = Len(q) - 1
          /\ Head(q) = q[1] /\ \A i \in 1..Len(p) : p[i] = q[i + 1]
      BY <1>3
    <2> HIDE DEF p
    <2>2. ToSet(p) = {p[i] : i \in 1..Len(p)}
      BY <2>1 DEF ToSet
    <2>3. \A i \in 1..Len(p) : i + 1 \in 1..Len(q) /\ i + 1 # 1
      BY <2>1
    <2>4. \A i \in 1..Len(q) : i = 1 \/ (i - 1 \in 1..Len(p) /\ (i - 1) + 1 = i)
      BY <2>1
    <2>5. 1 \in 1..Len(q) /\ Head(q) \in ToSet(q)
      BY <1>1, <2>1
    <2>6. ToSet(p) \subseteq ToSet(q) \ {Head(q)}
      <3>1. \A i \in 1..Len(p) : q[i + 1] \in ToSet(q) /\ q[i + 1] # q[1]
        BY <1>1, <2>3, <2>5
      <3> QED BY <2>1, <2>2, <3>1
    <2>7. ToSet(q) \ {Head(q)} \subseteq ToSet(p)
      <3>1. ASSUME NEW i \in 1..Len(q), i # 1 PROVE q[i] \in ToSet(p)
        <4>1. i - 1 \in 1..Len(p) /\ q[i] = p[i - 1]
          BY <2>1, <2>4, <3>1
        <4> QED BY <2>2, <4>1
      <3>2. \A i \in 1..Len(q) : q[i] # Head(q) => q[i] \in ToSet(p)
        BY <2>1, <3>1
      <3> QED BY <1>1, <3>2
    <2>8. \A i, j \in 1..Len(p) : p[i] = p[j] => i = j
      <3>1. \A i, j \in 1..Len(p) : q[i + 1] = q[j + 1] => i + 1 = j + 1
        BY <2>3
      <3>2. ASSUME NEW i \in 1..Len(p), NEW j \in 1..Len(p), p[i] = p[j] PROVE i = j
        <4>1. i + 1 = j + 1
          BY <2>1, <3>1, <3>2
        <4> QED BY <4>1
      <3> QED BY <3>2
    <2> QED BY <2>5, <2>6, <2>7, <2>8 DEF p
  <1> QED BY <1>1, <1>2, <1>3

\* A step that changes connection k of reader r, and ends others on the writer's side at most.
LEMMA ConnStep ==
    ASSUME SoundInv, HeadsInv, base' = base, NEW r \in Readers, NEW k \in Slots,
           \A q \in Readers, j \in Slots : (q # r \/ j # k) =>
               /\ SameEnd(conns[q][j], conns'[q][j])
               /\ conn'[q] = j => conn[q] = j /\ lastSeq'[q] = lastSeq[q],
           Sound(conns'[r][k], base),
           conn'[r] = k /\ ~conns'[r][k].failed => HeadIs(conns'[r][k].wire, lastSeq'[r])
    PROVE  /\ SoundInv' /\ HeadsInv'
           /\ \A q \in Readers, j \in Slots : (q # r \/ j # k) =>
                 Ids(conns'[q][j].wire) = Ids(conns[q][j].wire)
  <1>1. SoundInv'
    BY SameSound DEF SoundInv
  <1>2. HeadsInv'
    BY DEF HeadsInv, SameEnd
  <1> QED BY <1>1, <1>2 DEF SameEnd

\* A step that ends connections on the writer's side at most.
LEMMA EndsStep ==
    ASSUME SoundInv, HeadsInv, base' = base, conn' = conn, lastSeq' = lastSeq,
           \A q \in Readers, j \in Slots : SameEnd(conns[q][j], conns'[q][j])
    PROVE  /\ SoundInv' /\ HeadsInv'
           /\ \A q \in Readers : OnWires(q)' = OnWires(q)
  <1>1. SoundInv'
    BY SameSound DEF SoundInv
  <1>2. HeadsInv'
    BY DEF HeadsInv, SameEnd
  <1> QED BY <1>1, <1>2 DEF SameEnd, OnWires

\* Removing a reader ends one connection on the writer's side.
LEMMA RemovedSame ==
    ASSUME Types, NEW r \in Readers
    PROVE  /\ Removed(r) \in Conns
           /\ \A q \in Readers, j \in Slots : SameEnd(conns[q][j], Removed(r)[q][j])
  <1>1. conns \in Conns /\ readers[r] \in Slots \union {None} /\ Removed(r) \in Conns
    BY RemovedConns DEF Types, Conns
  <1>2. \A q \in Readers, j \in Slots : conns[q][j] \in Connection
    BY <1>1 DEF Conns
  <1>3. CASE readers[r] = None
    BY <1>1, <1>2, <1>3, ClosedSame DEF Removed
  <1>4. CASE readers[r] # None
    <2> DEFINE k == readers[r]
               y == CloseSide(conns[r][k])
    <2>1. k \in Slots /\ y \in Connection
      BY <1>1, <1>2, <1>4, Ends
    <2>2. Removed(r) = [conns EXCEPT ![r][k] = y]
      BY <1>4 DEF Removed
    <2>3. SameEnd(conns[r][k], y)
      BY <1>2, <2>1, ClosedSame
    <2> HIDE DEF y, k
    <2>4. \A q \in Readers, j \in Slots :
              Removed(r)[q][j] = IF q = r /\ j = k THEN y ELSE conns[q][j]
      BY <1>1, <2>1, <2>2, SetConn
    <2> QED BY <1>1, <1>2, <2>3, <2>4, ClosedSame
  <1> QED BY <1>3, <1>4

\* What the loop holds when it begins with an entry and when it has served a reader.
LEMMA SendingFacts ==
    ASSUME NEW e, NEW T
    PROVE  Sending(e, T).todo = T /\ (T # {} => Sending(e, T).id = e)
  BY DEF Sending, NotSending

LEMMA ServedFacts ==
    ASSUME QueueInv, NEW r \in Readers, NEW k \in Slots, <<r, k>> \in sending.todo,
           sending' = Sending(sending.id, sending.todo \ {<<r, k>>})
    PROVE  /\ Waits(r) = {sending.id} /\ Waits(r)' = {}
           /\ \A q \in Readers \ {r} : Waits(q)' = Waits(q)
           /\ \A q \in Readers, i, j \in Slots :
                 <<q, i>> \in sending'.todo /\ <<q, j>> \in sending'.todo => i = j
  <1> DEFINE T == sending.todo \ {<<r, k>>}
  <1>1. sending'.todo = T /\ (T # {} => sending'.id = sending.id)
    BY SendingFacts
  <1>2. Waits(r) = {sending.id}
    BY DEF Waits
  <1>3. \A j \in Slots : <<r, j>> \notin T
    BY DEF QueueInv
  <1>4. \A q \in Readers \ {r}, j \in Slots : <<q, j>> \in T <=> <<q, j>> \in sending.todo
    OBVIOUS
  <1> HIDE DEF T
  <1>5. Waits(r)' = {}
    BY <1>1, <1>3 DEF Waits
  <1>6. ASSUME NEW q \in Readers \ {r} PROVE Waits(q)' = Waits(q)
    <2>1. CASE \E j \in Slots : <<q, j>> \in T
      BY <1>1, <1>4, <2>1 DEF Waits
    <2>2. CASE ~\E j \in Slots : <<q, j>> \in T
      BY <1>1, <1>4, <2>2 DEF Waits
    <2> QED BY <2>1, <2>2
  <1>7. \A q \in Readers, i, j \in Slots :
            <<q, i>> \in sending'.todo /\ <<q, j>> \in sending'.todo => i = j
    BY <1>1 DEF QueueInv, T
  <1> QED BY <1>2, <1>5, <1>6, <1>7

---------------------------------------------------------------------------
(* The steps, again: what each of them does to the places and the streams.  *)

\* Replicate and the distribution loop up to the first reader.
LEMMA LQueueSteps ==
    ASSUME RInv, LInv, TakeSequence \/ Replicate \/ BroadcastEntry
    PROVE  LInv'
  <1>1. /\ issued \in Nat /\ assigned \subseteq Nat /\ entryChan \in Seq(Nat)
        /\ lost \in [Readers -> SUBSET Int] /\ QueueInv /\ BooksInv
    BY DEF RInv, Types, LInv
  <1>2. UNCHANGED <<base, readers, conns, conn, streaming, lastSeq, applied, top>>
    BY DEF TakeSequence, Replicate, QueueEntry, DropEntry, BroadcastEntry, receiver
  <1>3. SoundInv' /\ HeadsInv' /\ TopsInv' /\ \A r \in Readers : OnWires(r)' = OnWires(r)
    BY <1>2 DEF LInv, SoundInv, HeadsInv, TopsInv, OnWires
  <1>4. CASE TakeSequence
    <2>1. /\ issued' = issued + 1 /\ assigned' = assigned \union {issued + 1}
          /\ entryChan' = entryChan /\ sending' = sending /\ lost' = lost
      BY <1>4 DEF TakeSequence
    <2>2. QueueInv' /\ \A r \in Readers : Waits(r)' = Waits(r)
      BY <1>1, <2>1 DEF QueueInv, QueueOnce, Waits
    <2>3. ASSUME NEW r \in Readers
          PROVE  Books(assigned', ToSet(entryChan'), Waits(r)', OnWires(r)', applied'[r],
                       lost'[r], issued')
      <3>1. Books(assigned \union {issued + 1}, ToSet(entryChan), Waits(r), OnWires(r),
                  applied[r], lost[r], issued + 1)
        BY <1>1, Moves DEF BooksInv
      <3> QED BY <1>2, <1>3, <2>1, <2>2, <3>1
    <2>4. BooksInv'
      BY <2>3 DEF BooksInv
    <2> QED BY <1>1, <1>3, <2>1, <2>2, <2>4 DEF LInv
  <1>5. CASE Replicate
    <2>1. PICK e \in assigned : QueueEntry(e) \/ DropEntry(e)
      BY <1>5 DEF Replicate
    <2>2. /\ e \in Nat /\ assigned' = assigned \ {e} /\ sending' = sending /\ issued' = issued
      BY <1>1, <2>1 DEF QueueEntry, DropEntry
    <2>3. \A r \in Readers : Waits(r)' = Waits(r)
      BY <2>2 DEF Waits
    <2>4. CASE QueueEntry(e)
      <3>1. entryChan' = Append(entryChan, e) /\ lost' = lost
        BY <2>4 DEF QueueEntry
      <3>2. ASSUME NEW r \in Readers
            PROVE  /\ Books(assigned', ToSet(entryChan'), Waits(r)', OnWires(r)', applied'[r],
                            lost'[r], issued')
                   /\ QueueOnce'
        <4>1. Books(assigned, ToSet(entryChan), Waits(r), OnWires(r), applied[r], lost[r], issued)
          BY <1>1 DEF BooksInv
        <4>2. e \notin ToSet(entryChan)
          BY <2>1, <2>2, <4>1 DEF Books
        <4>3. \A i, j \in 1..Len(entryChan) : entryChan[i] = entryChan[j] => i = j
          BY <1>1 DEF QueueInv, QueueOnce
        <4>4. /\ ToSet(entryChan') = ToSet(entryChan) \union {e}
              /\ \A i, j \in 1..Len(entryChan') : entryChan'[i] = entryChan'[j] => i = j
          BY <1>1, <2>2, <3>1, <4>2, <4>3, QueueSet
        <4>5. Books(assigned \ {e}, ToSet(entryChan) \union {e}, Waits(r), OnWires(r),
                    applied[r], lost[r], issued)
          BY <1>1, <2>1, <4>1, Moves
        <4>6. QueueOnce'
          BY <4>4 DEF QueueOnce
        <4> QED BY <1>2, <1>3, <2>2, <2>3, <3>1, <4>4, <4>5, <4>6
      <3>3. BooksInv'
        BY <3>2 DEF BooksInv
      <3>4. QueueInv'
        BY <1>1, <2>2, <3>2 DEF QueueInv
      <3> QED BY <1>1, <1>3, <3>1, <3>3, <3>4 DEF LInv
    <2>5. CASE DropEntry(e)
      <3>1. entryChan' = entryChan /\ lost' = [r \in Readers |-> lost[r] \union {e}]
        BY <2>5 DEF DropEntry, Lose
      <3>2. QueueInv'
        BY <1>1, <2>2, <3>1 DEF QueueInv, QueueOnce
      <3>3. lost' \in [Readers -> SUBSET Int]
        BY <1>1, <2>2, <3>1
      <3>4. ASSUME NEW r \in Readers
            PROVE  Books(assigned', ToSet(entryChan'), Waits(r)', OnWires(r)', applied'[r],
                         lost'[r], issued')
        <4>1. Books(assigned \ {e}, ToSet(entryChan), Waits(r), OnWires(r), applied[r],
                    lost[r] \union {e}, issued)
          BY <1>1, <2>1, Moves DEF BooksInv
        <4>2. lost'[r] = lost[r] \union {e}
          BY <3>1
        <4> QED BY <1>2, <1>3, <2>2, <2>3, <3>1, <4>1, <4>2
      <3>5. BooksInv'
        BY <3>4 DEF BooksInv
      <3> QED BY <1>3, <3>2, <3>3, <3>5 DEF LInv
    <2> QED BY <2>1, <2>4, <2>5
  <1>6. CASE BroadcastEntry
    <2> DEFINE absent == {r \in Readers : readers[r] = None}
               todo == {<<r, readers[r]>> : r \in Readers \ absent}
               h == Head(entryChan)
    <2>1. /\ sending = NotSending /\ entryChan # <<>> /\ sending' = Sending(h, todo)
          /\ entryChan' = Tail(entryChan) /\ assigned' = assigned /\ issued' = issued
          /\ lost' = [r \in Readers |-> IF r \in absent THEN lost[r] \union {h} ELSE lost[r]]
      BY <1>6 DEF BroadcastEntry, Lose
    <2>2. readers \in [Readers -> Slots \union {None}]
      BY DEF RInv, Types
    <2>3. \A r \in Readers, k \in Slots : <<r, k>> \in todo <=> r \notin absent /\ k = readers[r]
      OBVIOUS
    <2>4. h \in Nat
      BY <1>1, <2>1
    <2>5. ASSUME NEW r \in Readers
           PROVE  /\ h \in ToSet(entryChan) /\ ToSet(entryChan') = ToSet(entryChan) \ {h}
                  /\ QueueOnce'
      <3>1. \A i, j \in 1..Len(entryChan) : entryChan[i] = entryChan[j] => i = j
        BY <1>1 DEF QueueInv, QueueOnce
      <3>2. /\ h \in ToSet(entryChan) /\ ToSet(entryChan') = ToSet(entryChan) \ {h}
            /\ \A i, j \in 1..Len(entryChan') : entryChan'[i] = entryChan'[j] => i = j
        BY <1>1, <2>1, <3>1, QueueSet
      <3> QED BY <3>2 DEF QueueOnce
    <2> HIDE DEF todo, h
    <2>6. sending'.todo = todo /\ (todo # {} => sending'.id = h)
      BY <2>1, SendingFacts
    <2>7. QueueInv'
      BY <2>3, <2>6, <2>5 DEF QueueInv
    <2>8. \A r \in Readers : Waits(r) = {}
      BY <2>1 DEF Waits, NotSending
    <2>9. ASSUME NEW r \in Readers
          PROVE  Books(assigned', ToSet(entryChan'), Waits(r)', OnWires(r)', applied'[r],
                       lost'[r], issued')
      <3>1. /\ Books(assigned, ToSet(entryChan) \ {h}, {h}, OnWires(r), applied[r], lost[r], issued)
            /\ Books(assigned, ToSet(entryChan) \ {h}, {}, OnWires(r), applied[r],
                     lost[r] \union {h}, issued)
        BY <1>1, <2>8, <2>5, Moves DEF BooksInv
      <3>2. CASE r \in absent
        <4>1. lost'[r] = lost[r] \union {h}
          BY <2>1, <3>2
        <4>2. Waits(r)' = {}
          BY <2>3, <2>6, <3>2 DEF Waits
        <4> QED BY <1>2, <1>3, <2>1, <2>5, <3>1, <4>1, <4>2
      <3>3. CASE r \notin absent
        <4>1. lost'[r] = lost[r]
          BY <2>1, <3>3
        <4>2. readers[r] \in Slots /\ <<r, readers[r]>> \in todo
          BY <2>2, <2>3, <3>3
        <4>3. Waits(r)' = {h}
          BY <2>6, <4>2 DEF Waits
        <4> QED BY <1>2, <1>3, <2>1, <2>5, <3>1, <4>1, <4>3
      <3> QED BY <3>2, <3>3
    <2>10. lost' \in [Readers -> SUBSET Int]
      BY <1>1, <2>1, <2>4
    <2>11. BooksInv'
      BY <2>9 DEF BooksInv
    <2> QED BY <1>3, <2>7, <2>10, <2>11 DEF LInv
  <1> QED BY <1>4, <1>5, <1>6

\* A step on connection k of reader r leaves the places of other readers alone, but that all
\* readers' entries may be lost or applied only by a step that says so.
LEMMA OtherBooks ==
    ASSUME BooksInv, NEW r \in Readers, NEW k \in Slots,
           UNCHANGED <<issued, assigned, entryChan>>,
           \A q \in Readers, j \in Slots : (q # r \/ j # k) =>
               Ids(conns'[q][j].wire) = Ids(conns[q][j].wire),
           \A q \in Readers : q # r =>
               Waits(q)' = Waits(q) /\ applied'[q] = applied[q] /\ lost'[q] = lost[q],
           Books(assigned, ToSet(entryChan), Waits(r)', OnWires(r)', applied'[r], lost'[r], issued)
    PROVE  BooksInv'
  <1>1. ASSUME NEW q \in Readers, q # r
        PROVE  Books(assigned', ToSet(entryChan'), Waits(q)', OnWires(q)', applied'[q], lost'[q],
                     issued')
    <2>1. OnWires(q)' = OnWires(q)
      BY <1>1 DEF OnWires
    <2>2. Books(assigned, ToSet(entryChan), Waits(q), OnWires(q), applied[q], lost[q], issued)
      BY DEF BooksInv
    <2>3. Waits(q)' = Waits(q) /\ applied'[q] = applied[q] /\ lost'[q] = lost[q]
      BY <1>1
    <2> QED BY <2>1, <2>2, <2>3
  <1>2. Books(assigned', ToSet(entryChan'), Waits(r)', OnWires(r)', applied'[r], lost'[r], issued')
    OBVIOUS
  <1> QED BY <1>1, <1>2 DEF BooksInv

\* What OnWires says of a reader's streams when one has changed.
LEMMA ChangedWire ==
    ASSUME NEW r \in Readers, NEW k \in Slots,
           \A q \in Readers, j \in Slots : (q # r \/ j # k) =>
               Ids(conns'[q][j].wire) = Ids(conns[q][j].wire)
    PROVE  /\ \A j \in Slots : j # k => OnWires(r)'[j] = OnWires(r)[j]
           /\ OnWires(r)[k] = Ids(conns[r][k].wire) /\ OnWires(r)'[k] = Ids(conns'[r][k].wire)
  BY DEF OnWires

\* The distribution loop serves one reader.
LEMMA LSendSteps ==
    ASSUME RInv, LInv, NEW r \in Readers, NEW k \in Slots, SendToReader(r, k) \/ SendFails(r, k)
    PROVE  LInv'
  <1> DEFINE e == sending.id
             x == conns[r][k]
  <1>1. /\ conns \in Conns /\ base \in Nat /\ issued \in Nat /\ e \in Nat
        /\ lost \in [Readers -> SUBSET Int] /\ QueueInv /\ SoundInv /\ HeadsInv /\ TopsInv /\ BooksInv
    BY DEF RInv, Types, LInv, Conns
  <1>2. x \in Connection /\ Sound(x, base)
    BY <1>1 DEF Conns, SoundInv
  <1>3. /\ <<r, k>> \in sending.todo /\ sending' = Sending(e, sending.todo \ {<<r, k>>})
        /\ UNCHANGED <<issued, base, assigned, entryChan, conn, streaming, lastSeq, applied, top>>
    BY DEF SendToReader, SendFails, receiver
  <1>4. /\ Waits(r) = {e} /\ Waits(r)' = {}
        /\ \A q \in Readers \ {r} : Waits(q)' = Waits(q)
        /\ \A q \in Readers, i, j \in Slots :
              <<q, i>> \in sending'.todo /\ <<q, j>> \in sending'.todo => i = j
    BY <1>1, <1>3, ServedFacts
  <1>5. QueueInv'
    BY <1>1, <1>3, <1>4 DEF QueueInv, QueueOnce
  <1>6. TopsInv'
    BY <1>1, <1>3 DEF TopsInv
  <1>7. Books(assigned, ToSet(entryChan), {e}, OnWires(r), applied[r], lost[r], issued)
    BY <1>1, <1>4 DEF BooksInv
  <1>8. \A q \in Readers : OnWires(q) = [j \in Slots |-> Ids(conns[q][j].wire)]
    BY DEF OnWires
  <1> HIDE DEF e, x
  <1>9. e \notin Ids(x.wire)
    <2>1. \A j \in Slots : e \notin OnWires(r)[j]
      BY <1>1, <1>7 DEF Books
    <2> QED BY <1>8, <2>1 DEF x
  <1>10. /\ lost' = [lost EXCEPT ![r] = @ \union {e}] => lost' \in [Readers -> SUBSET Int]
         /\ Lose({r}, {e}) = [lost EXCEPT ![r] = @ \union {e}]
    <2>1. Lose({r}, {e}) = [q \in Readers |-> IF q = r THEN lost[q] \union {e} ELSE lost[q]]
      BY DEF Lose
    <2>2. [lost EXCEPT ![r] = @ \union {e}]
              = [q \in Readers |-> IF q = r THEN lost[q] \union {e} ELSE lost[q]]
      BY <1>1
    <2>3. [lost EXCEPT ![r] = @ \union {e}] \in [Readers -> SUBSET Int]
      BY <1>1
    <2> QED BY <2>1, <2>2, <2>3
  <1>11. CASE SendToReader(r, k)
    <2> DEFINE y == Stamped(x, e)
    <2>1. /\ x.side = "active" /\ conns' = [conns EXCEPT ![r][k] = y]
          /\ lost' = IF x.open /\ ~x.cut THEN lost ELSE Lose({r}, {e})
      BY <1>11 DEF SendToReader, x, e
    <2>2. /\ Sound(y, base) /\ y.failed = x.failed
          /\ Ids(y.wire) = Ids(x.wire) \union (IF x.open /\ ~x.cut THEN {e} ELSE {})
          /\ \A l : HeadIs(x.wire, l) => HeadIs(y.wire, l)
      BY <1>1, <1>2, <1>9, <2>1, StampedSound
    <2>3. y \in Connection
      BY <1>1, <1>2, StampedWire DEF RInv, Streams, x
    <2> HIDE DEF y
    <2>4. \A q \in Readers, j \in Slots :
              conns'[q][j] = IF q = r /\ j = k THEN y ELSE conns[q][j]
      BY <1>1, <2>1, <2>3, SetConn
    <2>5. \A q \in Readers, j \in Slots : (q # r \/ j # k) =>
              /\ SameEnd(conns[q][j], conns'[q][j])
              /\ conn'[q] = j => conn[q] = j /\ lastSeq'[q] = lastSeq[q]
      BY <1>1, <1>3, <2>4, ClosedSame DEF Conns
    <2>6. conns'[r][k] = y
      BY <2>4
    <2>7. conn'[r] = k /\ ~y.failed => HeadIs(y.wire, lastSeq'[r])
      BY <1>1, <1>3, <2>2 DEF HeadsInv, x
    <2>8. /\ SoundInv' /\ HeadsInv'
          /\ \A q \in Readers, j \in Slots : (q # r \/ j # k) =>
                Ids(conns'[q][j].wire) = Ids(conns[q][j].wire)
      BY <1>1, <1>3, <2>2, <2>5, <2>6, <2>7, ConnStep
    <2>9. /\ \A j \in Slots : j # k => OnWires(r)'[j] = OnWires(r)[j]
          /\ OnWires(r)[k] = Ids(x.wire) /\ OnWires(r)'[k] = Ids(y.wire)
      BY <2>6, <2>8, ChangedWire DEF x
    <2>10. Books(assigned, ToSet(entryChan), {}, OnWires(r)', applied[r], lost'[r], issued)
      <3>1. CASE x.open /\ ~x.cut
        <4>1. OnWires(r)'[k] = OnWires(r)[k] \union {e} /\ lost' = lost
          BY <2>1, <2>2, <2>9, <3>1
        <4>2. Books(assigned, ToSet(entryChan), {}, OnWires(r)', applied[r], lost[r], issued)
          BY <1>1, <1>7, <2>9, <4>1, WireTakes
        <4> QED BY <4>1, <4>2
      <3>2. CASE ~(x.open /\ ~x.cut)
        <4>1. OnWires(r)'[k] = OnWires(r)[k] /\ lost' = [lost EXCEPT ![r] = @ \union {e}]
          BY <1>10, <2>1, <2>2, <2>9, <3>2
        <4>2. Books(assigned, ToSet(entryChan), {e}, OnWires(r)', applied[r], lost[r], issued)
          BY <1>1, <1>7, <2>9, <4>1, WireMoves
        <4>3. Books(assigned, ToSet(entryChan), {}, OnWires(r)', applied[r],
                    lost[r] \union {e}, issued)
          BY <1>1, <4>2, Moves
        <4>4. lost'[r] = lost[r] \union {e}
          BY <1>1, <4>1
        <4> QED BY <4>3, <4>4
      <3> QED BY <3>1, <3>2
    <2>11. /\ lost' \in [Readers -> SUBSET Int]
           /\ \A q \in Readers : q # r => lost'[q] = lost[q]
      BY <1>1, <1>10, <2>1
    <2>12. BooksInv'
      <3>1. Books(assigned, ToSet(entryChan), Waits(r)', OnWires(r)', applied'[r], lost'[r], issued)
        BY <1>3, <1>4, <2>10
      <3>2. \A q \in Readers : q # r =>
                Waits(q)' = Waits(q) /\ applied'[q] = applied[q] /\ lost'[q] = lost[q]
        BY <1>3, <1>4, <2>11
      <3> QED BY <1>1, <1>3, <2>8, <3>1, <3>2, OtherBooks
    <2> QED BY <1>5, <1>6, <2>8, <2>11, <2>12 DEF LInv
  <1>12. CASE SendFails(r, k)
    <2>1. conns' = Removed(r) /\ lost' = [lost EXCEPT ![r] = @ \union {e}]
      BY <1>10, <1>12 DEF SendFails, RemoveReader, e
    <2>2. \A q \in Readers, j \in Slots : SameEnd(conns[q][j], conns'[q][j])
      BY <2>1, RemovedSame DEF RInv
    <2>3. SoundInv' /\ HeadsInv' /\ \A q \in Readers : OnWires(q)' = OnWires(q)
      BY <1>1, <1>3, <2>2, EndsStep
    <2>4. \A q \in Readers, j \in Slots : Ids(conns'[q][j].wire) = Ids(conns[q][j].wire)
      BY <2>2 DEF SameEnd
    <2>5. Books(assigned, ToSet(entryChan), {}, OnWires(r)', applied[r], lost[r] \union {e}, issued)
      BY <1>1, <1>7, <2>3, Moves
    <2>6. /\ lost' \in [Readers -> SUBSET Int] /\ lost'[r] = lost[r] \union {e}
          /\ \A q \in Readers : q # r => lost'[q] = lost[q]
      BY <1>1, <1>10, <2>1
    <2>7. BooksInv'
      <3>1. Books(assigned, ToSet(entryChan), Waits(r)', OnWires(r)', applied'[r], lost'[r], issued)
        BY <1>3, <1>4, <2>5, <2>6
      <3>2. \A q \in Readers : q # r =>
                Waits(q)' = Waits(q) /\ applied'[q] = applied[q] /\ lost'[q] = lost[q]
        BY <1>3, <1>4, <2>6
      <3> QED BY <1>1, <1>3, <2>4, <3>1, <3>2, OtherBooks
    <2> QED BY <1>5, <1>6, <2>3, <2>6, <2>7 DEF LInv
  <1> QED BY <1>11, <1>12

\* Nobody's entry moves, and one connection changes.
LEMMA LQuietConn ==
    ASSUME RInv, LInv, NEW r \in Readers, NEW k \in Slots, NEW C \in Conns, NEW y \in Connection,
           UNCHANGED <<issued, base, assigned, entryChan, sending, lastSeq, applied, top, lost>>,
           \A q \in Readers, j \in Slots : SameEnd(conns[q][j], C[q][j]),
           conns' = [C EXCEPT ![r][k] = y], Ids(y.wire) = Ids(conns[r][k].wire),
           \A q \in Readers, j \in Slots : (q # r \/ j # k) => (conn'[q] = j => conn[q] = j),
           Sound(y, base), conn'[r] = k /\ ~y.failed => HeadIs(y.wire, lastSeq[r])
    PROVE  LInv'
  <1>1. \A q \in Readers, j \in Slots : conns'[q][j] = IF q = r /\ j = k THEN y ELSE C[q][j]
    BY SetConn
  <1>2. \A q \in Readers, j \in Slots : (q # r \/ j # k) =>
            /\ SameEnd(conns[q][j], conns'[q][j])
            /\ conn'[q] = j => conn[q] = j /\ lastSeq'[q] = lastSeq[q]
    BY <1>1
  <1>3. conns'[r][k] = y
    BY <1>1
  <1>4. /\ SoundInv' /\ HeadsInv'
        /\ \A q \in Readers, j \in Slots : (q # r \/ j # k) =>
              Ids(conns'[q][j].wire) = Ids(conns[q][j].wire)
    <2>1. SoundInv /\ HeadsInv
      BY DEF LInv
    <2> QED BY <1>2, <1>3, <2>1, ConnStep
  <1>5. \A q \in Readers : OnWires(q)' = OnWires(q) /\ Waits(q)' = Waits(q)
    BY <1>3, <1>4 DEF OnWires, Waits
  <1>6. BooksInv' /\ QueueInv' /\ TopsInv'
    BY <1>5 DEF LInv, BooksInv, QueueInv, QueueOnce, TopsInv
  <1> QED BY <1>4, <1>6 DEF LInv

\* The handshake, and the end of the writer's loop.
LEMMA LAcceptSteps ==
    ASSUME RInv, LInv, NEW r \in Readers, NEW k \in Slots, Accept(r, k) \/ LoopEnds(r, k)
    PROVE  LInv'
  <1> DEFINE x == conns[r][k]
  <1>1. conns \in Conns /\ x \in Connection /\ Sound(x, base) /\ base \in Nat
        /\ \A q \in Readers, j \in Slots : SameEnd(conns[q][j], conns[q][j])
    BY ClosedSame DEF RInv, Types, Conns, LInv, SoundInv
  <1>2. UNCHANGED <<issued, base, assigned, entryChan, sending, conn, lastSeq, applied, top, lost>>
    BY DEF Accept, PrepareReader, Discard, ActivateReader, LoopEnds, sender, receiver
  <1>3. conn[r] = k /\ ~x.failed => HeadIs(x.wire, lastSeq[r])
    BY DEF LInv, HeadsInv
  <1> HIDE DEF x
  <1>4. CASE PrepareReader(r, k)
    <2> DEFINE y == [Put(x, <<Ack>>) EXCEPT !.side = "acked"]
    <2>1. x.side = "asked" /\ conns' = [conns EXCEPT ![r][k] = y]
      BY <1>4 DEF PrepareReader, x
    <2>2. /\ Sound(y, base) /\ Ids(y.wire) = Ids(x.wire) /\ y.failed = x.failed
          /\ \A l : HeadIs(x.wire, l) => HeadIs(y.wire, l)
      BY <1>1, <2>1, AckSound
    <2>3. y \in Connection
      <3> DEFINE v == x.wire \o <<Ack>>
      <3>1. v \in Seq(Message)
        BY <1>1 DEF Ack, Message, Connection
      <3>2. Put(x, <<Ack>>) = IF x.open /\ ~x.cut THEN [x EXCEPT !.wire = v] ELSE x
        BY DEF Put
      <3> HIDE DEF v
      <3>3. Put(x, <<Ack>>) \in Connection
        BY <1>1, <3>1, <3>2 DEF Connection
      <3> QED BY <3>3 DEF Connection
    <2> HIDE DEF y
    <2> QED BY <1>1, <1>2, <1>3, <2>1, <2>2, <2>3, LQuietConn DEF x
  <1>5. CASE Discard(r, k)
    <2>1. conns' = [conns EXCEPT ![r][k] = CloseSide(x)]
      BY <1>5 DEF Discard, x
    <2>2. CloseSide(x) \in Connection /\ SameEnd(x, CloseSide(x))
      BY <1>1, Ends, ClosedSame
    <2>3. Sound(CloseSide(x), base) /\ Ids(CloseSide(x).wire) = Ids(x.wire)
          /\ CloseSide(x).failed = x.failed /\ CloseSide(x).wire = x.wire
      BY <1>1, <2>2, SameSound DEF SameEnd
    <2> DEFINE y == CloseSide(x)
    <2> HIDE DEF y
    <2> QED BY <1>1, <1>2, <1>3, <2>1, <2>2, <2>3, LQuietConn DEF x, y
  <1>6. CASE ActivateReader(r, k) \/ LoopEnds(r, k)
    <2> DEFINE z == Removed(r)[r][k]
    <2>1. /\ Removed(r) \in Conns
          /\ \A q \in Readers, j \in Slots : SameEnd(conns[q][j], Removed(r)[q][j])
      BY RemovedSame DEF RInv
    <2>2. z \in Connection /\ SameEnd(x, z)
      BY <2>1 DEF Conns, x
    <2>3. /\ LoopEnds(r, k) => conns' = [Removed(r) EXCEPT ![r][k] = [z EXCEPT !.loop = FALSE]]
          /\ ActivateReader(r, k) =>
                /\ conns' = [Removed(r) EXCEPT ![r][k] = [z EXCEPT !.side = "active", !.loop = TRUE]]
                /\ x.side = "acked"
      BY <2>1 DEF LoopEnds, ActivateReader, Conns, x
    <2> HIDE DEF z
    <2>4. PICK y \in Connection :
              /\ conns' = [Removed(r) EXCEPT ![r][k] = y]
              /\ y.wire = z.wire /\ y.open = z.open /\ y.cut = z.cut /\ y.got = z.got
              /\ y.failed = z.failed /\ y.fed = z.fed
              /\ y.side = z.side \/ (y.side = "active" /\ x.side = "acked")
      <3>1. CASE LoopEnds(r, k)
        <4> DEFINE y == [z EXCEPT !.loop = FALSE]
        <4>1. /\ y \in Connection /\ y.wire = z.wire /\ y.open = z.open /\ y.cut = z.cut
              /\ y.got = z.got /\ y.failed = z.failed /\ y.fed = z.fed /\ y.side = z.side
          BY <2>2 DEF Connection
        <4> HIDE DEF y
        <4>2. conns' = [Removed(r) EXCEPT ![r][k] = y]
          BY <2>3, <3>1 DEF y
        <4> QED BY <4>1, <4>2
      <3>2. CASE ActivateReader(r, k)
        <4> DEFINE y == [z EXCEPT !.side = "active", !.loop = TRUE]
        <4>1. /\ y \in Connection /\ y.wire = z.wire /\ y.open = z.open /\ y.cut = z.cut
              /\ y.got = z.got /\ y.failed = z.failed /\ y.fed = z.fed /\ y.side = "active"
          BY <2>2 DEF Connection
        <4> HIDE DEF y
        <4>2. conns' = [Removed(r) EXCEPT ![r][k] = y] /\ x.side = "acked"
          BY <2>3, <3>2 DEF y
        <4> QED BY <4>1, <4>2
      <3> QED BY <1>6, <3>1, <3>2
    <2>5. /\ y.wire = x.wire /\ y.open = x.open /\ y.cut = x.cut /\ y.got = x.got
          /\ y.failed = x.failed
      BY <2>2, <2>4 DEF SameEnd
    <2>6. \/ y.side = "gone"
          \/ y.side = x.side /\ y.fed = x.fed
          \/ y.side = "active" /\ x.side = "acked" /\ y.fed = x.fed
      <3>1. x.side = "acked" => x.fed = 0
        BY <1>1 DEF Sound
      <3>2. z = x \/ z = CloseSide(x)
        <4>1. CASE readers[r] = k
          <5>1. k # None
            BY ReplicationConstants
          <5>2. Removed(r) = [conns EXCEPT ![r][k] = CloseSide(conns[r][k])]
            BY <4>1, <5>1 DEF Removed
          <5>3. conns \in Conns /\ CloseSide(conns[r][k]) \in Connection
            BY <1>1, Ends DEF Conns
          <5> QED BY <5>2, <5>3, SetConn DEF z, x
        <4>2. CASE readers[r] # k
          <5>1. CASE readers[r] = None
            BY <5>1 DEF Removed, z, x
          <5>2. CASE readers[r] # None
            <6> DEFINE j == readers[r]
                       c == CloseSide(conns[r][j])
            <6>1. j \in Slots /\ j # k
              BY <4>2, <5>2 DEF RInv, Types
            <6>2. c \in Connection /\ conns \in Conns
              BY <1>1, <6>1, Ends DEF Conns
            <6>3. Removed(r) = [conns EXCEPT ![r][j] = c]
              BY <5>2 DEF Removed
            <6> HIDE DEF c, j
            <6> QED BY <6>1, <6>2, <6>3, SetConn DEF z, x
          <5> QED BY <5>1, <5>2
        <4> QED BY <4>1, <4>2
      <3>3. CloseSide(x).fed = 0 /\ CloseSide(x).side = "gone"
        BY <1>1 DEF CloseSide, Connection
      <3> QED BY <2>4, <3>1, <3>2, <3>3
    <2>7. Sound(y, base)
      <3>1. y.side # "gone" => x.side # "gone" /\ y.fed = x.fed
        BY <2>6
      <3>2. y.side \in {"asked", "acked"} => y.side = x.side
        BY <2>6
      <3> QED BY <1>1, <2>5, <3>1, <3>2 DEF Sound
    <2> QED BY <1>2, <1>3, <2>1, <2>4, <2>5, <2>7, LQuietConn DEF x
  <1> QED BY <1>4, <1>5, <1>6 DEF Accept

\* A reader dials on a connection that nobody holds any more.
LEMMA LDialStep ==
    ASSUME RInv, LInv, NEW r \in Readers, Dial(r)
    PROVE  LInv'
  <1>1. PICK k \in Slots : /\ Idle(r, k) /\ conns' = [conns EXCEPT ![r][k] = Fresh]
                           /\ conn' = [conn EXCEPT ![r] = k]
    BY DEF Dial
  <1>2. UNCHANGED <<issued, base, assigned, entryChan, sending, lastSeq, applied, top, lost>>
    BY DEF Dial, sender
  <1>3. /\ conns \in Conns /\ conns[r][k] \in Connection /\ Sound(conns[r][k], base)
        /\ \A q \in Readers, j \in Slots : SameEnd(conns[q][j], conns[q][j])
    BY ClosedSame DEF RInv, Types, Conns, LInv, SoundInv
  <1>4. conns[r][k].wire = <<>>
    BY <1>1, <1>3 DEF Idle, Sound
  <1>5. Fresh \in Connection /\ Fresh.wire = <<>>
    BY <1>3, Ends
  <1>6. Sound(Fresh, base)
    <2>1. Fresh.fed = 0 /\ Fresh.got = 0
      BY DEF Fresh
    <2> QED BY <1>5, <2>1, EmptySound
  <1>7. HeadIs(Fresh.wire, lastSeq[r])
    BY <1>5 DEF HeadIs
  <1>8. \A q \in Readers, j \in Slots : (q # r \/ j # k) => (conn'[q] = j => conn[q] = j)
    BY <1>1 DEF RInv, Types
  <1>9. Ids(Fresh.wire) = Ids(conns[r][k].wire)
    BY <1>4, <1>5
  <1> DEFINE y == Fresh
  <1> HIDE DEF y
  <1> QED BY <1>1, <1>2, <1>3, <1>5, <1>6, <1>7, <1>8, <1>9, LQuietConn DEF y

\* The stream W gives one entry to the applied (P) or the lost (L), or all to the lost.
Gives(W, V, P, P2, L, L2) ==
    \/ \E e \in W : /\ V = W \ {e}
                     /\ \/ P2 = P \union {e} /\ L2 = L
                        \/ P2 = P /\ L2 = L \union {e}
    \/ V = {} /\ P2 = P /\ L2 = L \union W

\* Connection k of reader r gives an entry to the reader, or loses one or all.
LEMMA LMove ==
    ASSUME RInv, LInv, NEW r \in Readers, NEW k \in Slots, NEW y \in Connection,
           \A q \in Readers, j \in Slots :
               conns'[q][j] = IF q = r /\ j = k THEN y ELSE conns[q][j],
           UNCHANGED <<issued, base, assigned, entryChan, sending>>,
           \A q \in Readers : q # r =>
               /\ lastSeq'[q] = lastSeq[q] /\ applied'[q] = applied[q] /\ top'[q] = top[q]
               /\ lost'[q] = lost[q] /\ conn'[q] = conn[q],
           \A j \in Slots : j # k => (conn'[r] = j => conn[r] = j /\ lastSeq'[r] = lastSeq[r]),
           Sound(y, base), conn'[r] = k /\ ~y.failed => HeadIs(y.wire, lastSeq'[r]),
           lost' \in [Readers -> SUBSET Int],
           Gives(Ids(conns[r][k].wire), Ids(y.wire), applied[r], applied'[r], lost[r], lost'[r]),
           top'[r] > base => top'[r] = base + lastSeq'[r],
           top'[r] = 0 \/ top'[r] \in applied'[r]
    PROVE  LInv'
  <1> DEFINE x == conns[r][k]
  <1>1. /\ conns \in Conns /\ issued \in Nat
        /\ \A q \in Readers, j \in Slots : SameEnd(conns[q][j], conns[q][j])
    BY ClosedSame DEF RInv, Types, Conns
  <1>2. SoundInv /\ HeadsInv /\ BooksInv /\ QueueInv /\ TopsInv
    BY DEF LInv
  <1>3. \A q \in Readers, j \in Slots : (q # r \/ j # k) =>
            /\ SameEnd(conns[q][j], conns'[q][j])
            /\ conn'[q] = j => conn[q] = j /\ lastSeq'[q] = lastSeq[q]
    BY <1>1
  <1>4. conns'[r][k] = y
    OBVIOUS
  <1>5. /\ SoundInv' /\ HeadsInv'
        /\ \A q \in Readers, j \in Slots : (q # r \/ j # k) =>
              Ids(conns'[q][j].wire) = Ids(conns[q][j].wire)
    BY <1>2, <1>3, <1>4, ConnStep
  <1>6. /\ \A j \in Slots : j # k => OnWires(r)'[j] = OnWires(r)[j]
        /\ OnWires(r)[k] = Ids(x.wire) /\ OnWires(r)'[k] = Ids(y.wire)
    BY <1>4, <1>5, ChangedWire
  <1>7. Books(assigned, ToSet(entryChan), Waits(r), OnWires(r), applied[r], lost[r], issued)
    BY <1>2 DEF BooksInv
  <1>8. \A q \in Readers : Waits(q)' = Waits(q)
    BY DEF Waits
  <1> HIDE DEF x
  <1>9. Books(assigned, ToSet(entryChan), Waits(r), OnWires(r)', applied'[r], lost'[r], issued)
    <2>1. CASE \E e \in Ids(x.wire) :
                 /\ Ids(y.wire) = Ids(x.wire) \ {e}
                 /\ \/ applied'[r] = applied[r] \union {e} /\ lost'[r] = lost[r]
                    \/ applied'[r] = applied[r] /\ lost'[r] = lost[r] \union {e}
      <3>1. PICK e \in Ids(x.wire) :
                 /\ Ids(y.wire) = Ids(x.wire) \ {e}
                 /\ \/ applied'[r] = applied[r] \union {e} /\ lost'[r] = lost[r]
                    \/ applied'[r] = applied[r] /\ lost'[r] = lost[r] \union {e}
        BY <2>1
      <3>2. /\ Books(assigned, ToSet(entryChan), Waits(r), OnWires(r)', applied[r] \union {e},
                     lost[r], issued)
            /\ Books(assigned, ToSet(entryChan), Waits(r), OnWires(r)', applied[r],
                     lost[r] \union {e}, issued)
        <4>1. OnWires(r)'[k] = OnWires(r)[k] \ {e} /\ e \in OnWires(r)[k]
          BY <1>6, <3>1
        <4> QED BY <1>1, <1>6, <1>7, <4>1, WireMoves
      <3> QED BY <3>1, <3>2
    <2>2. CASE /\ Ids(y.wire) = {} /\ applied'[r] = applied[r]
               /\ lost'[r] = lost[r] \union Ids(x.wire)
      <3>1. OnWires(r)'[k] = {}
        BY <1>6, <2>2
      <3>2. Books(assigned, ToSet(entryChan), Waits(r), OnWires(r)', applied[r],
                  lost[r] \union OnWires(r)[k], issued)
        BY <1>1, <1>6, <1>7, <3>1, WireMoves
      <3> QED BY <1>6, <2>2, <3>2
    <2> QED BY <2>1, <2>2 DEF Gives, x
  <1>10. BooksInv'
    <2>1. Books(assigned, ToSet(entryChan), Waits(r)', OnWires(r)', applied'[r], lost'[r], issued)
      BY <1>8, <1>9
    <2>2. \A q \in Readers : q # r =>
              Waits(q)' = Waits(q) /\ applied'[q] = applied[q] /\ lost'[q] = lost[q]
      BY <1>8
    <2> QED BY <1>2, <1>5, <2>1, <2>2, OtherBooks
  <1>11. QueueInv' /\ TopsInv'
    BY <1>2 DEF QueueInv, QueueOnce, TopsInv
  <1> QED BY <1>5, <1>10, <1>11 DEF LInv

\* The reader closes its connection: what is on the stream is lost.
LEMMA LDisconnects ==
    ASSUME RInv, LInv, NEW r \in Readers, conn[r] # None, Disconnect(r),
           UNCHANGED <<issued, base, assigned, entryChan, sending, applied>>,
           \A q \in Readers : q # r => lastSeq'[q] = lastSeq[q] /\ top'[q] = top[q],
           (top'[r] = top[r] /\ lastSeq'[r] = lastSeq[r]) \/ top'[r] = 0
    PROVE  LInv'
  <1> DEFINE k == conn[r]
             x == conns[r][k]
             y == CloseEnd(x)
  <1>1. /\ k \in Slots /\ conns \in Conns /\ x \in Connection /\ Sound(x, base) /\ TopsInv
        /\ lost \in [Readers -> SUBSET Int] /\ base \in Nat
    BY DEF RInv, Types, Conns, LInv, SoundInv
  <1>2. y \in Connection /\ y.wire = <<>> /\ ~y.open /\ y.side = x.side /\ y.fed = x.fed
    <2> HIDE DEF x
    <2>1. y \in Connection /\ y.wire = <<>>
      BY <1>1, Ends
    <2>2. ~y.open /\ y.side = x.side /\ y.fed = x.fed
      BY <1>1 DEF CloseEnd, Connection
    <2> QED BY <2>1, <2>2
  <1>3. /\ conns' = [conns EXCEPT ![r][k] = y] /\ conn' = [conn EXCEPT ![r] = None]
        /\ lost' = [q \in Readers |-> IF q = r THEN lost[q] \union Ids(x.wire) ELSE lost[q]]
    <2>1. EntriesOn(x) = Ids(x.wire)
      BY <1>1, EntriesAreIds
    <2> QED BY <2>1 DEF Disconnect, Lose
  <1> HIDE DEF y, x, k
  <1>4. Sound(y, base)
    <2>1. y.side \in {"asked", "acked"} => y.fed = 0
      BY <1>1, <1>2 DEF Sound
    <2> QED BY <1>2, <2>1, EmptySound
  <1>5. /\ lost' \in [Readers -> SUBSET Int] /\ lost'[r] = lost[r] \union Ids(x.wire)
        /\ \A q \in Readers : q # r => lost'[q] = lost[q]
    <2>1. Ids(x.wire) \subseteq Int
      BY DEF Ids
    <2> QED BY <1>1, <1>3, <2>1
  <1>6. conn \in [Readers -> Slots \union {None}] /\ None \notin Slots
    BY ReplicationConstants DEF RInv, Types
  <1>7. conn'[r] = None /\ \A q \in Readers : q # r => conn'[q] = conn[q]
    BY <1>3, <1>6
  <1>8. \A j \in Slots : conn'[r] # j
    BY <1>6, <1>7
  <1>9. \A q \in Readers, j \in Slots : conns'[q][j] = IF q = r /\ j = k THEN y ELSE conns[q][j]
    BY <1>1, <1>2, <1>3, SetConn
  <1>10. Ids(y.wire) = {}
    <2>1. 0 \in Nat
      OBVIOUS
    <2> QED BY <1>2, <2>1, EmptyStream
  <1>11. /\ top'[r] > base => top'[r] = base + lastSeq'[r]
         /\ top'[r] = 0 \/ top'[r] \in applied'[r]
    BY <1>1 DEF TopsInv
  <1>12. Gives(Ids(conns[r][k].wire), Ids(y.wire), applied[r], applied'[r], lost[r], lost'[r])
    BY <1>5, <1>10 DEF Gives, x
  <1>13. \A j \in Slots : j # k => (conn'[r] = j => conn[r] = j /\ lastSeq'[r] = lastSeq[r])
    BY <1>8
  <1>14. conn'[r] = k /\ ~y.failed => HeadIs(y.wire, lastSeq'[r])
    BY <1>1, <1>8
  <1>15. \A q \in Readers : q # r =>
            /\ lastSeq'[q] = lastSeq[q] /\ applied'[q] = applied[q] /\ top'[q] = top[q]
            /\ lost'[q] = lost[q] /\ conn'[q] = conn[q]
    BY <1>5, <1>7
  <1> QED BY <1>1, <1>2, <1>4, <1>5, <1>11, <1>9, <1>12, <1>13, <1>14, <1>15, LMove

\* What the reader reads.
LEMMA LReceiveSteps ==
    ASSUME RInv, LInv, NEW r \in Readers, Receive(r)
    PROVE  LInv'
  <1> DEFINE k == conn[r]
             x == conns[r][k]
             m == Next1(r)
  <1>1. CASE RefuseEntry(r) \/ RefuseCheckpoint(r) \/ ConnectionEnds(r)
    <2>1. conn[r] # None /\ Disconnect(r)
      BY <1>1 DEF RefuseEntry, RefuseCheckpoint, ConnectionEnds, EntryRefused,
                  CheckpointRefused, HasMessage
    <2>2. UNCHANGED <<issued, base, assigned, entryChan, sending, applied, lastSeq, top>>
      BY <1>1 DEF RefuseEntry, RefuseCheckpoint, ConnectionEnds, sender
    <2> QED BY <2>1, <2>2, LDisconnects
  <1>2. CASE ReadAck(r) \/ VerifyCheckpoint(r) \/ ApplyEntry(r) \/ ApplyFails(r)
    <2>1. PICK kind \in {"ack", "entry", "checkpoint"} :
              /\ HasMessage(r, kind)
              /\ kind = "entry" <=> ApplyEntry(r) \/ ApplyFails(r)
      <3>1. "ack" # "entry" /\ "checkpoint" # "entry"
        OBVIOUS
      <3>2. \A a, b \in {"ack", "entry", "checkpoint"} :
                HasMessage(r, a) /\ HasMessage(r, b) => a = b
        BY DEF HasMessage
      <3>3. ReadAck(r) => HasMessage(r, "ack")
        BY DEF ReadAck
      <3>4. VerifyCheckpoint(r) => HasMessage(r, "checkpoint")
        BY DEF VerifyCheckpoint
      <3>5. ApplyEntry(r) \/ ApplyFails(r) => HasMessage(r, "entry")
        BY DEF ApplyEntry, ApplyFails
      <3> QED BY <1>2, <3>1, <3>2, <3>3, <3>4, <3>5
    <2>2. /\ k \in Slots /\ conns \in Conns /\ x \in Connection /\ x.wire \in Seq(Message)
          /\ x.wire # <<>> /\ m = x.wire[1] /\ m \in Message /\ m.kind = kind
          /\ Take(x) \in Connection /\ TakeEntry(x) \in Connection
      BY <2>1, Reading
    <2>3. /\ Sound(x, base) /\ base \in Nat /\ lost \in [Readers -> SUBSET Int] /\ TopsInv
          /\ \A q \in Readers, j \in Slots : SameEnd(conns[q][j], conns[q][j])
          /\ conn \in [Readers -> Slots \union {None}] /\ lastSeq \in [Readers -> Int]
          /\ top \in [Readers -> Int] /\ applied \in [Readers -> SUBSET Int]
      BY <2>2, ClosedSame DEF RInv, Types, Conns, LInv, SoundInv
    <2>4. UNCHANGED <<issued, base, assigned, entryChan, sending, conn>>
      BY <1>2 DEF ReadAck, VerifyCheckpoint, ApplyEntry, ApplyFails, sender, receiver
    <2>5. /\ kind # "entry" =>
                /\ Sound(Take(x), base) /\ Ids(Take(x).wire) = Ids(x.wire)
                /\ Take(x).failed = x.failed /\ \A l \in Int : HeadIs(Take(x).wire, l)
          /\ kind = "entry" =>
                /\ Sound(TakeEntry(x), base) /\ TakeEntry(x).failed = x.failed
                /\ m.id \in Ids(x.wire)
                /\ Ids(TakeEntry(x).wire) = Ids(x.wire) \ {m.id}
                /\ HeadIs(TakeEntry(x).wire, m.seq)
      <3>1. base \in Int
        BY <2>3
      <3> HIDE DEF x, m
      <3> QED BY <2>2, <2>3, <3>1, ReadSound
    <2>6. CASE ReadAck(r) \/ VerifyCheckpoint(r)
      <3> DEFINE y == Take(x)
      <3>1. kind # "entry"
        <4>1. ~ApplyEntry(r) /\ ~ApplyFails(r)
          <5>1. HasMessage(r, "ack") \/ HasMessage(r, "checkpoint")
            BY <2>6 DEF ReadAck, VerifyCheckpoint
          <5>2. ~HasMessage(r, "entry")
            BY <5>1 DEF HasMessage
          <5> QED BY <5>2 DEF ApplyEntry, ApplyFails
        <4> QED BY <2>1, <4>1
      <3>2. /\ conns' = [conns EXCEPT ![r][k] = y]
            /\ UNCHANGED <<lastSeq, applied, top, lost>>
        BY <2>6 DEF ReadAck, VerifyCheckpoint, receiver
      <3>3. conn'[r] = k /\ ~y.failed => HeadIs(y.wire, lastSeq[r])
        BY <2>3, <2>5, <3>1
      <3> HIDE DEF y
      <3>4. y \in Connection /\ Sound(y, base) /\ Ids(y.wire) = Ids(conns[r][k].wire)
        BY <2>2, <2>5, <3>1 DEF y
      <3>5. \A q \in Readers, j \in Slots : (q # r \/ j # k) => (conn'[q] = j => conn[q] = j)
        BY <2>4
      <3> HIDE DEF x, k
      <3> QED BY <2>2, <2>3, <2>4, <3>2, <3>3, <3>4, <3>5, LQuietConn
    <2>7. CASE ApplyEntry(r)
      <3> DEFINE y == TakeEntry(x)
      <3>1. kind = "entry"
        BY <2>1, <2>7
      <3>2. /\ conns' = [conns EXCEPT ![r][k] = y]
            /\ lastSeq' = [lastSeq EXCEPT ![r] = m.seq] /\ top' = [top EXCEPT ![r] = m.id]
            /\ applied' = [applied EXCEPT ![r] = @ \union {m.id}] /\ lost' = lost
        BY <2>7 DEF ApplyEntry
      <3>3. m.id > base => m.id = base + m.seq
        <4>1. Len(x.wire) \in Nat /\ 1 \in 1..Len(x.wire) /\ 1 \in Nat
          <5> HIDE DEF x
          <5> QED BY <2>2
        <4>2. Own(x.wire, base) /\ IsEntry(x.wire, 1)
          BY <2>2, <2>3, <3>1, <4>1 DEF Sound, IsEntry
        <4> QED BY <2>2, <4>1, <4>2 DEF Own
      <3> HIDE DEF y, m
      <3>4. /\ lastSeq'[r] = m.seq /\ top'[r] = m.id /\ applied'[r] = applied[r] \union {m.id}
            /\ lost'[r] = lost[r] /\ conn'[r] = k
            /\ \A q \in Readers : q # r =>
                  /\ lastSeq'[q] = lastSeq[q] /\ applied'[q] = applied[q] /\ top'[q] = top[q]
                  /\ lost'[q] = lost[q] /\ conn'[q] = conn[q]
        BY <2>3, <2>4, <3>2
      <3>5. /\ y \in Connection /\ Sound(y, base) /\ m.id \in Ids(conns[r][k].wire)
            /\ Ids(y.wire) = Ids(conns[r][k].wire) \ {m.id} /\ HeadIs(y.wire, lastSeq'[r])
        BY <2>2, <2>5, <3>1, <3>4 DEF y
      <3>6. \A j \in Slots : j # k => conn'[r] # j
        BY <3>4
      <3>7. /\ top'[r] > base => top'[r] = base + lastSeq'[r]
            /\ top'[r] \in applied'[r] /\ lost' \in [Readers -> SUBSET Int]
        BY <2>3, <3>2, <3>3, <3>4
      <3>8. Gives(Ids(conns[r][k].wire), Ids(y.wire), applied[r], applied'[r], lost[r], lost'[r])
        BY <3>4, <3>5 DEF Gives
      <3> HIDE DEF x, k
      <3>9. \A q \in Readers, j \in Slots :
                conns'[q][j] = IF q = r /\ j = k THEN y ELSE conns[q][j]
        BY <2>2, <3>2, <3>5, SetConn
      <3> QED BY <2>2, <2>4, <3>4, <3>5, <3>6, <3>7, <3>8, <3>9, LMove
    <2>8. CASE ApplyFails(r)
      <3> DEFINE y == [TakeEntry(x) EXCEPT !.failed = TRUE]
      <3>1. kind = "entry"
        BY <2>1, <2>8
      <3>2. /\ conns' = [conns EXCEPT ![r][k] = y]
            /\ lost' = [q \in Readers |-> IF q = r THEN lost[q] \union {m.id} ELSE lost[q]]
            /\ UNCHANGED <<lastSeq, applied, top>>
        BY <2>8 DEF ApplyFails, Lose, receiver
      <3> DEFINE u == TakeEntry(x)
      <3>3. u \in Connection /\ Sound(u, base)
        BY <2>2, <2>5, <3>1
      <3> HIDE DEF u
      <3>4. /\ y = [u EXCEPT !.failed = TRUE] /\ y \in Connection /\ y.failed
            /\ y.wire = u.wire /\ y.open = u.open /\ y.cut = u.cut /\ y.got = u.got
            /\ y.fed = u.fed /\ y.side = u.side
        BY <3>3 DEF Connection, u
      <3> HIDE DEF y
      <3>5. Sound(y, base)
        BY <3>3, <3>4 DEF Sound
      <3>6. m.id \in Int
        BY <2>5, <3>1 DEF Ids
      <3> HIDE DEF m
      <3>7. /\ lost' \in [Readers -> SUBSET Int] /\ lost'[r] = lost[r] \union {m.id}
            /\ \A q \in Readers : q # r => lost'[q] = lost[q]
        BY <2>3, <3>2, <3>6
      <3>8. /\ m.id \in Ids(conns[r][k].wire) /\ Ids(y.wire) = Ids(conns[r][k].wire) \ {m.id}
        BY <2>5, <3>1, <3>4 DEF u
      <3>9. \A q \in Readers : q # r =>
                /\ lastSeq'[q] = lastSeq[q] /\ applied'[q] = applied[q] /\ top'[q] = top[q]
                /\ lost'[q] = lost[q] /\ conn'[q] = conn[q]
        BY <2>4, <3>2, <3>7
      <3>10. /\ applied'[r] = applied[r] /\ lastSeq' = lastSeq /\ conn' = conn
             /\ top'[r] > base => top'[r] = base + lastSeq'[r]
             /\ top'[r] = 0 \/ top'[r] \in applied'[r]
        BY <2>3, <2>4, <3>2 DEF TopsInv
      <3>11. Gives(Ids(conns[r][k].wire), Ids(y.wire), applied[r], applied'[r], lost[r], lost'[r])
        BY <3>7, <3>8, <3>10 DEF Gives
      <3>12. \A q \in Readers, j \in Slots :
                conns'[q][j] = IF q = r /\ j = k THEN y ELSE conns[q][j]
        BY <2>2, <3>2, <3>4, SetConn
      <3>13. \A j \in Slots : j # k => (conn'[r] = j => conn[r] = j /\ lastSeq'[r] = lastSeq[r])
        BY <3>10
      <3>14. conn'[r] = k /\ ~y.failed => HeadIs(y.wire, lastSeq'[r])
        BY <3>4
      <3> HIDE DEF x, k
      <3>15. k \in Slots /\ y \in Connection /\ lost' \in [Readers -> SUBSET Int]
        BY <2>2, <3>4, <3>7
      <3> QED BY <2>4, <3>5, <3>9, <3>10, <3>13, <3>11, <3>12, <3>14, <3>15, LMove
    <2> QED BY <1>2, <2>6, <2>7, <2>8
  <1> QED BY <1>1, <1>2 DEF Receive

\* A connection is cut: what is on its stream is lost.
LEMMA LCutStep ==
    ASSUME RInv, LInv, NEW r \in Readers, NEW k \in Slots, Cut(r, k)
    PROVE  LInv'
  <1> DEFINE x == conns[r][k]
             y == [x EXCEPT !.cut = TRUE, !.wire = <<>>]
  <1>1. /\ conns \in Conns /\ x \in Connection /\ Sound(x, base) /\ TopsInv
        /\ lost \in [Readers -> SUBSET Int]
    BY DEF RInv, Types, Conns, LInv, SoundInv
  <1>2. y \in Connection /\ y.wire = <<>> /\ y.cut /\ y.side = x.side /\ y.fed = x.fed
    <2>1. <<>> \in Seq(Message)
      OBVIOUS
    <2> HIDE DEF x
    <2> QED BY <1>1, <2>1 DEF Connection
  <1>3. conns' = [conns EXCEPT ![r][k] = y]
    BY <1>1 DEF Cut, Conns
  <1>4. /\ lost' = [q \in Readers |-> IF q = r THEN lost[q] \union Ids(x.wire) ELSE lost[q]]
        /\ UNCHANGED <<issued, base, assigned, entryChan, sending, conn, lastSeq, applied, top>>
    <2>1. EntriesOn(x) = Ids(x.wire)
      BY <1>1, EntriesAreIds
    <2> QED BY <2>1 DEF Cut, Lose, sender, receiver
  <1> HIDE DEF y, x
  <1>5. Sound(y, base)
    <2>1. y.side \in {"asked", "acked"} => y.fed = 0
      BY <1>1, <1>2 DEF Sound
    <2> QED BY <1>2, <2>1, EmptySound
  <1>6. /\ lost' \in [Readers -> SUBSET Int] /\ lost'[r] = lost[r] \union Ids(x.wire)
        /\ \A q \in Readers : q # r => lost'[q] = lost[q]
    <2>1. Ids(x.wire) \subseteq Int
      BY DEF Ids
    <2> QED BY <1>1, <1>4, <2>1
  <1>7. Ids(y.wire) = {}
    <2>1. 0 \in Nat
      OBVIOUS
    <2> QED BY <1>2, <2>1, EmptyStream
  <1>8. Gives(Ids(conns[r][k].wire), Ids(y.wire), applied[r], applied'[r], lost[r], lost'[r])
    BY <1>4, <1>6, <1>7 DEF Gives, x
  <1>9. \A q \in Readers, j \in Slots : conns'[q][j] = IF q = r /\ j = k THEN y ELSE conns[q][j]
    BY <1>1, <1>2, <1>3, SetConn
  <1>10. \A q \in Readers : q # r =>
            /\ lastSeq'[q] = lastSeq[q] /\ applied'[q] = applied[q] /\ top'[q] = top[q]
            /\ lost'[q] = lost[q] /\ conn'[q] = conn[q]
    BY <1>4, <1>6
  <1>11. \A j \in Slots : j # k => (conn'[r] = j => conn[r] = j /\ lastSeq'[r] = lastSeq[r])
    BY <1>4
  <1>12. conn'[r] = k /\ ~y.failed => HeadIs(y.wire, lastSeq'[r])
    BY <1>2 DEF HeadIs
  <1>13. /\ top'[r] > base => top'[r] = base + lastSeq'[r]
         /\ top'[r] = 0 \/ top'[r] \in applied'[r]
    BY <1>1, <1>4 DEF TopsInv
  <1> QED BY <1>2, <1>4, <1>5, <1>6, <1>8, <1>9, <1>10, <1>11, <1>12, <1>13, LMove

\* The writer stops and starts, the reader restarts.
LEMMA LRestartSteps ==
    ASSUME RInv, LInv, WriterStops \/ WriterStarts \/ \E r \in Readers : ReaderRestarts(r)
    PROVE  LInv'
  <1>1. /\ conns \in Conns /\ issued \in Nat /\ base \in Nat /\ lost \in [Readers -> SUBSET Int]
        /\ BooksInv /\ QueueInv /\ SoundInv /\ HeadsInv /\ TopsInv
        /\ assigned \subseteq Nat /\ entryChan \in Seq(Nat) /\ sending.id \in Nat
        /\ top \in [Readers -> Int]
    BY DEF RInv, Types, Conns, LInv
  <1>2. \A r \in Readers, k \in Slots : conns[r][k] \in Connection
    BY <1>1 DEF Conns
  <1>3. CASE WriterStops
    <2>1. /\ conns' = [r \in Readers |->
                          [k \in Slots |-> [CloseSide(conns[r][k]) EXCEPT !.loop = FALSE]]]
          /\ lost' = [r \in Readers |-> lost[r] \union assigned \union ToSet(entryChan)
                                           \union Waits(r)]
          /\ assigned' = {} /\ entryChan' = <<>> /\ sending' = NotSending
          /\ UNCHANGED <<issued, base, conn, lastSeq, applied, top>>
      BY <1>3 DEF WriterStops, Waits, receiver
    <2>2. \A r \in Readers, k \in Slots : SameEnd(conns[r][k], conns'[r][k])
      BY <1>2, <2>1, ClosedSame
    <2>3. SoundInv' /\ HeadsInv' /\ \A r \in Readers : OnWires(r)' = OnWires(r)
      BY <1>1, <2>1, <2>2, EndsStep
    <2>4. ToSet(entryChan') = {} /\ \A r \in Readers : Waits(r)' = {}
      BY <2>1 DEF ToSet, Waits, NotSending
    <2>5. ToSet(entryChan) \subseteq Int /\ \A r \in Readers : Waits(r) \subseteq Int
      BY <1>1 DEF ToSet, Waits
    <2>6. lost' \in [Readers -> SUBSET Int]
      BY <1>1, <2>1, <2>5
    <2>7. ASSUME NEW r \in Readers
          PROVE  Books(assigned', ToSet(entryChan'), Waits(r)', OnWires(r)', applied'[r],
                       lost'[r], issued')
      <3>1. Books({}, {}, {}, OnWires(r), applied[r],
                  lost[r] \union assigned \union ToSet(entryChan) \union Waits(r), issued)
        BY <1>1, Moves DEF BooksInv
      <3>2. lost'[r] = lost[r] \union assigned \union ToSet(entryChan) \union Waits(r)
        BY <2>1
      <3> QED BY <2>1, <2>3, <2>4, <3>1, <3>2
    <2>8. BooksInv'
      BY <2>7 DEF BooksInv
    <2>9. QueueInv' /\ TopsInv'
      BY <1>1, <2>1 DEF QueueInv, QueueOnce, TopsInv, NotSending
    <2> QED BY <2>3, <2>6, <2>8, <2>9 DEF LInv
  <1>4. CASE WriterStarts
    <2>1. /\ base' = issued
          /\ UNCHANGED <<issued, assigned, entryChan, sending, conns, conn, lastSeq, applied, top,
                         lost>>
      BY <1>4 DEF WriterStarts, receiver
    <2>2. BooksInv' /\ QueueInv' /\ HeadsInv'
      BY <1>1, <2>1 DEF BooksInv, QueueInv, QueueOnce, HeadsInv, Waits, OnWires
    <2>3. ASSUME NEW r \in Readers
          PROVE  /\ top[r] <= issued
                 /\ \A k \in Slots : \A e \in Ids(conns[r][k].wire) : e <= issued
      <3>1. Books(assigned, ToSet(entryChan), Waits(r), OnWires(r), applied[r], lost[r], issued)
        BY <1>1 DEF BooksInv
      <3>2. \A e \in applied[r] : e \in Int => e <= issued
        BY <1>1, <3>1 DEF Books
      <3>3. \A k \in Slots : OnWires(r)[k] = Ids(conns[r][k].wire)
        BY DEF OnWires
      <3>4. ASSUME NEW k \in Slots, NEW e \in Ids(conns[r][k].wire)
            PROVE  e \in 1..issued
        <4> DEFINE W == OnWires(r)
        <4>1. e \in W[k] /\ e \in Int
          BY <3>3 DEF Ids
        <4>2. Books(assigned, ToSet(entryChan), Waits(r), W, applied[r], lost[r], issued)
          BY <3>1
        <4> HIDE DEF W
        <4> QED BY <4>1, <4>2 DEF Books
      <3> QED BY <1>1, <3>2, <3>4 DEF TopsInv
    <2>4. TopsInv'
      BY <1>1, <2>1, <2>3 DEF TopsInv
    <2>5. SoundInv'
      <3> SUFFICES ASSUME NEW r \in Readers, NEW k \in Slots
                   PROVE  Sound(conns[r][k], issued)
        BY <2>1 DEF SoundInv
      <3> DEFINE x == conns[r][k]
      <3>1. Sound(x, base) /\ x.wire \in Seq(Message)
        BY <1>1, <1>2 DEF SoundInv, Connection
      <3>2. \A e \in Ids(x.wire) : e <= issued
        BY <2>3
      <3> HIDE DEF x
      <3>3. Own(x.wire, issued)
        <4>1. \A i \in Nat : IsEntry(x.wire, i) => x.wire[i].id \in Ids(x.wire)
          <5>1. \A i \in Nat : IsEntry(x.wire, i) => x.wire[i].id \in Int
            BY <3>1 DEF IsEntry, Message
          <5> QED BY <5>1 DEF Ids, IsEntry
        <4>2. \A e \in Ids(x.wire) : e \in Int
          BY DEF Ids
        <4>3. \A i \in Nat : IsEntry(x.wire, i) => ~(x.wire[i].id > issued)
          BY <1>1, <3>2, <4>1, <4>2
        <4> QED BY <4>3 DEF Own
      <3> QED BY <3>1, <3>3 DEF Sound, x
    <2> QED BY <1>1, <2>1, <2>2, <2>4, <2>5 DEF LInv
  <1>5. ASSUME NEW r \in Readers, ReaderRestarts(r) PROVE LInv'
    <2>1. /\ conn[r] # None /\ Disconnect(r)
          /\ lastSeq' = [lastSeq EXCEPT ![r] = 0] /\ top' = [top EXCEPT ![r] = 0]
          /\ UNCHANGED <<issued, base, assigned, entryChan, sending, applied>>
      BY <1>5 DEF ReaderRestarts, sender
    <2>2. \A q \in Readers : q # r => lastSeq'[q] = lastSeq[q] /\ top'[q] = top[q]
      BY <2>1 DEF RInv, Types
    <2>3. top'[r] = 0
      BY <1>1, <2>1
    <2> QED BY <2>1, <2>2, <2>3, LDisconnects
  <1> QED BY <1>3, <1>4, <1>5

LEMMA LInitial == Init => LInv
  <1> SUFFICES ASSUME Init PROVE LInv
    OBVIOUS
  <1>1. /\ conns = [r \in Readers |-> [k \in Slots |-> Closed]] /\ issued = 0 /\ base = 0
        /\ assigned = {} /\ entryChan = <<>> /\ sending = NotSending
        /\ applied = [r \in Readers |-> {}] /\ lost = [r \in Readers |-> {}]
        /\ top = [r \in Readers |-> 0] /\ lastSeq = [r \in Readers |-> 0]
    BY DEF Init
  <1>2. Closed \in Connection /\ Closed.wire = <<>> /\ Closed.side = "gone"
    <2>1. <<>> \in Seq(Message)
      OBVIOUS
    <2> QED BY <2>1 DEF Connection, Fresh, Closed
  <1>3. Sound(Closed, base) /\ Ids(Closed.wire) = {} /\ \A l : HeadIs(Closed.wire, l)
    <2>1. 0 \in Nat
      OBVIOUS
    <2>2. Ids(<<>>) = {} /\ \A l : HeadIs(<<>>, l)
      BY <2>1, EmptyStream DEF HeadIs
    <2>3. Sound(Closed, base)
      BY <1>2, EmptySound
    <2> QED BY <1>2, <2>2, <2>3
  <1>4. SoundInv /\ HeadsInv
    BY <1>1, <1>3 DEF SoundInv, HeadsInv
  <1>5. QueueInv /\ TopsInv
    BY <1>1 DEF QueueInv, QueueOnce, TopsInv, NotSending
  <1>6. ToSet(entryChan) = {} /\ \A r \in Readers : Waits(r) = {}
    BY <1>1 DEF ToSet, Waits, NotSending
  <1>7. \A r \in Readers, k \in Slots : OnWires(r)[k] = {}
    BY <1>1, <1>3 DEF OnWires
  <1>8. ASSUME NEW r \in Readers
        PROVE  Books(assigned, ToSet(entryChan), Waits(r), OnWires(r), applied[r], lost[r], issued)
    <2>1. applied[r] = {} /\ lost[r] = {} /\ ~(\E e \in Int : e \in 1..issued)
      BY <1>1
    <2> QED BY <1>1, <1>6, <1>7, <2>1 DEF Books
  <1> QED BY <1>1, <1>4, <1>5, <1>8 DEF LInv, BooksInv

\* Every step keeps both invariants.
LEMMA LNext ==
    ASSUME RInv, LInv, [Next]_vars
    PROVE  LInv'
  <1>1. CASE UNCHANGED vars
    <2>1. UNCHANGED <<issued, base, assigned, entryChan, sending, conns, conn, lastSeq, applied,
                      top, lost>>
      BY <1>1 DEF vars, sender, receiver
    <2> QED BY <2>1 DEF LInv, BooksInv, QueueInv, QueueOnce, SoundInv, HeadsInv, TopsInv, Waits,
                        OnWires
  <1>2. CASE TakeSequence \/ Replicate \/ BroadcastEntry
    BY <1>2, LQueueSteps
  <1>3. ASSUME NEW r \in Readers, NEW k \in Slots, SendToReader(r, k) \/ SendFails(r, k)
        PROVE  LInv'
    BY <1>3, LSendSteps
  <1>4. ASSUME NEW r \in Readers, Dial(r) PROVE LInv'
    BY <1>4, LDialStep
  <1>5. ASSUME NEW r \in Readers, Receive(r) PROVE LInv'
    BY <1>5, LReceiveSteps
  <1>6. ASSUME NEW r \in Readers, NEW k \in Slots, Accept(r, k) \/ LoopEnds(r, k) PROVE LInv'
    BY <1>6, LAcceptSteps
  <1>7. ASSUME NEW r \in Readers, NEW k \in Slots, Cut(r, k) PROVE LInv'
    BY <1>7, LCutStep
  <1>8. ASSUME WriterStops \/ WriterStarts \/ \E r \in Readers : ReaderRestarts(r) PROVE LInv'
    BY <1>8, LRestartSteps
  <1> QED BY <1>1, <1>2, <1>3, <1>4, <1>5, <1>6, <1>7, <1>8 DEF Next, DistributionLoop

\* An entry is in one of the three places that the property tells apart.
LEMMA KnownPlaces ==
    ASSUME RInv, LInv
    PROVE  EveryEntryKnown
  <1> SUFFICES ASSUME NEW r \in Readers, NEW e \in 1..issued
               PROVE  Cardinality(Places(r, e)) = 1
    BY DEF EveryEntryKnown
  <1>1. Books(assigned, ToSet(entryChan), Waits(r), OnWires(r), applied[r], lost[r], issued)
    BY DEF LInv, BooksInv
  <1>2. e \in Int
    BY DEF RInv, Types
  <1>3. \A k \in Slots : EntriesOn(conns[r][k]) = OnWires(r)[k]
    <2>1. \A k \in Slots : conns[r][k] \in Connection
      BY DEF RInv, Types
    <2> QED BY <2>1, EntriesAreIds DEF OnWires
  <1>4. e \in OnTheWay(r) <=> \/ e \in assigned \/ e \in ToSet(entryChan) \/ e \in Waits(r)
                              \/ \E k \in Slots : e \in OnWires(r)[k]
    BY <1>3 DEF OnTheWay, Waits
  <1>5. /\ e \in applied[r] \/ e \in lost[r] \/ e \in OnTheWay(r)
        /\ ~(e \in applied[r] /\ e \in lost[r])
        /\ ~(e \in applied[r] /\ e \in OnTheWay(r))
        /\ ~(e \in lost[r] /\ e \in OnTheWay(r))
    BY <1>1, <1>2, <1>4 DEF Books
  <1>6. \E p : Places(r, e) = {p}
    <2>1. CASE e \in applied[r]
      <3>1. Places(r, e) = {"applied"}
        BY <1>5, <2>1 DEF Places
      <3> QED BY <3>1
    <2>2. CASE e \in lost[r]
      <3>1. Places(r, e) = {"lost"}
        BY <1>5, <2>2 DEF Places
      <3> QED BY <3>1
    <2>3. CASE e \in OnTheWay(r)
      <3>1. Places(r, e) = {"way"}
        BY <1>5, <2>3 DEF Places
      <3> QED BY <3>1
    <2> QED BY <1>5, <2>1, <2>2, <2>3
  <1> QED BY <1>6, FS_Singleton

\* The receiver refuses for the reasons that the property names.
LEMMA RefusalReasons ==
    ASSUME RInv, LInv
    PROVE  RefusedOnly
  <1> SUFFICES ASSUME NEW r \in Readers
               PROVE  /\ EntryRefused(r) => Next1(r).id < top[r] \/ top[r] <= base
                      /\ CheckpointRefused(r) => conns[r][conn[r]].failed
    BY DEF RefusedOnly
  <1> DEFINE k == conn[r]
             x == conns[r][k]
             m == Next1(r)
  <1>1. /\ base \in Nat /\ top[r] \in Int /\ lastSeq[r] \in Int /\ issued \in Nat
        /\ TopsInv /\ SoundInv /\ HeadsInv /\ BooksInv
    BY DEF RInv, Types, LInv
  <1>2. ASSUME EntryRefused(r), top[r] > base PROVE m.id < top[r]
    <2>1. /\ k \in Slots /\ x \in Connection /\ x.wire \in Seq(Message) /\ x.wire # <<>>
          /\ m = x.wire[1] /\ m \in Message /\ m.kind = "entry"
      BY <1>2, Reading DEF EntryRefused, Conns
    <2>2. m.id \in Int /\ m.seq \in Int
      BY <2>1 DEF Message
    <2>3. Len(x.wire) \in Nat /\ 1 \in 1..Len(x.wire) /\ 1 \in Nat
      <3> HIDE DEF x
      <3> QED BY <2>1
    <2>4. IsEntry(x.wire, 1) /\ m.id \in Ids(x.wire)
      BY <2>1, <2>2, <2>3 DEF IsEntry, Ids
    <2>5. m.id <= base + m.seq
      BY <2>1, <2>3, <2>4 DEF RInv, Streams, NotAfter
    <2>6. ~(m.seq > lastSeq[r])
      BY <1>2 DEF EntryRefused, Advances
    <2>7. top[r] = base + lastSeq[r]
      BY <1>1, <1>2 DEF TopsInv
    <2>8. m.id # top[r]
      <3>1. Books(assigned, ToSet(entryChan), Waits(r), OnWires(r), applied[r], lost[r], issued)
        BY <1>1 DEF BooksInv
      <3>2. top[r] \in applied[r]
        BY <1>1, <1>2 DEF TopsInv
      <3>3. OnWires(r)[k] = Ids(x.wire)
        BY <2>1 DEF OnWires
      <3> HIDE DEF m, x, k
      <3>4. m.id \notin applied[r]
        BY <2>1, <2>2, <2>4, <3>1, <3>3 DEF Books
      <3> QED BY <3>2, <3>4
    <2> HIDE DEF m
    <2> QED BY <1>1, <2>2, <2>5, <2>6, <2>7, <2>8
  <1>3. ASSUME CheckpointRefused(r) PROVE x.failed
    <2>1. /\ k \in Slots /\ x \in Connection /\ x.wire \in Seq(Message) /\ x.wire # <<>>
          /\ m = x.wire[1] /\ m.kind = "checkpoint"
      BY <1>3, Reading DEF CheckpointRefused, Conns
    <2>2. m.fed = x.got
      <3>1. Sound(x, base) /\ base \in Int
        BY <1>1, <2>1 DEF SoundInv
      <3> HIDE DEF x, m
      <3> QED BY <2>1, <3>1, ReadSound
    <2>3. SUFFICES ASSUME ~x.failed PROVE FALSE
      OBVIOUS
    <2>4. m.seq = lastSeq[r]
      BY <1>1, <2>1, <2>3 DEF HeadsInv, HeadIs
    <2> QED BY <1>3, <2>2, <2>4 DEF CheckpointRefused, Matches, Next1
  <1> QED BY <1>1, <1>2, <1>3

\* What becomes of an entry is known, whoever fails, reconnects or restarts: the places that
\* sender.go and receiver.go hand it through never hold it twice and never forget it.
THEOREM EveryEntryKnownCorrect == Spec => []EveryEntryKnown
  <1>1. Init => RInv /\ LInv
    BY RInit, LInitial
  <1>2. RInv /\ LInv /\ [Next]_vars => RInv' /\ LInv'
    BY RNext, LNext
  <1>3. RInv /\ LInv => EveryEntryKnown
    BY KnownPlaces
  <1> QED BY <1>1, <1>2, <1>3, PTL DEF Spec

\* The receiver's two tests (receiver.go:487 and :525) refuse an honest stream only in the
\* cases that the property names.
THEOREM RefusedOnlyCorrect == Spec => []RefusedOnly
  <1>1. Init => RInv /\ LInv
    BY RInit, LInitial
  <1>2. RInv /\ LInv /\ [Next]_vars => RInv' /\ LInv'
    BY RNext, LNext
  <1>3. RInv /\ LInv => RefusedOnly
    BY RefusalReasons
  <1> QED BY <1>1, <1>2, <1>3, PTL DEF Spec
=============================================================================
