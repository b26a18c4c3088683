----------------------- MODULE IngestPipeline_proofs -----------------------
(***************************************************************************)
(* Theorems about Wal and about IngestPipeline, whose every step is a step *)
(* of Wal or leaves the log alone, for every set of entries, every         *)
(* capacity, size and number of files, and every fault the constants allow.*)
(***************************************************************************)
EXTENDS IngestPipeline, FiniteSetTheorems, SequenceTheorems, TLAPS

Bytes == Entries \cup {Torn}

-----------------------------------------------------------------------------
(* Sequences and the sets of their elements.                               *)

LEMMA EmptyHasNone == ToSet(<<>>) = {}
  BY DEF ToSet

LEMMA SetIn == ASSUME NEW S, NEW s \in Seq(S) PROVE ToSet(s) \subseteq S
  BY DEF ToSet

LEMMA HeadAndTail ==
    ASSUME NEW S, NEW s \in Seq(S), s # <<>>
    PROVE  /\ Head(s) \in S /\ Tail(s) \in Seq(S) /\ Len(Tail(s)) = Len(s) - 1
           /\ ToSet(s) = {Head(s)} \cup ToSet(Tail(s))
  <1>1. Len(s) \in Nat /\ Len(s) # 0 /\ DOMAIN s = 1..Len(s)
    OBVIOUS
  <1>2. /\ Head(s) = s[1] /\ Tail(s) \in Seq(S) /\ Len(Tail(s)) = Len(s) - 1
        /\ \A i \in 1..(Len(s) - 1) : Tail(s)[i] = s[i + 1]
    BY HeadTailProperties
  <1>3. DOMAIN Tail(s) = 1..(Len(s) - 1)
    BY <1>2
  <1>4. ASSUME NEW x \in ToSet(s) PROVE x \in {Head(s)} \cup ToSet(Tail(s))
    <2>1. PICK i \in 1..Len(s) : x = s[i]
      BY <1>1 DEF ToSet
    <2>2. CASE i = 1
      BY <2>1, <2>2, <1>2
    <2>3. CASE i # 1
      <3>1. i - 1 \in 1..(Len(s) - 1) /\ (i - 1) + 1 = i
        BY <2>1, <2>3, <1>1
      <3>2. Tail(s)[i - 1] = x
        BY <3>1, <1>2, <2>1
      <3> QED
        BY <3>1, <3>2, <1>3 DEF ToSet
    <2> QED
      BY <2>2, <2>3
  <1>5. Head(s) \in ToSet(s)
    BY <1>1, <1>2 DEF ToSet
  <1>6. ASSUME NEW x \in ToSet(Tail(s)) PROVE x \in ToSet(s)
    <2>1. PICK i \in 1..(Len(s) - 1) : x = Tail(s)[i]
      BY <1>3 DEF ToSet
    <2>2. x = s[i + 1] /\ i + 1 \in 1..Len(s)
      BY <2>1, <1>1, <1>2
    <2> QED
      BY <2>2, <1>1 DEF ToSet
  <1> QED
    BY <1>1, <1>2, <1>4, <1>5, <1>6

LEMMA AppendedSet ==
    ASSUME NEW S, NEW s \in Seq(S), NEW x \in S
    PROVE  /\ Append(s, x) \in Seq(S) /\ Len(Append(s, x)) = Len(s) + 1
           /\ Append(s, x)[Len(s) + 1] = x
           /\ \A i \in DOMAIN s : Append(s, x)[i] = s[i]
           /\ DOMAIN Append(s, x) = DOMAIN s \cup {Len(s) + 1}
           /\ ToSet(Append(s, x)) = ToSet(s) \cup {x}
  <1>1. /\ Append(s, x) \in Seq(S) /\ Len(Append(s, x)) = Len(s) + 1
        /\ Append(s, x)[Len(s) + 1] = x
        /\ \A i \in 1..Len(s) : Append(s, x)[i] = s[i]
    BY AppendProperties
  <1>2. DOMAIN s = 1..Len(s) /\ DOMAIN Append(s, x) = 1..(Len(s) + 1) /\ Len(s) \in Nat
    BY <1>1
  <1>3. 1..(Len(s) + 1) = 1..Len(s) \cup {Len(s) + 1}
    BY <1>2
  <1> QED
    BY <1>1, <1>2, <1>3 DEF ToSet

-----------------------------------------------------------------------------
(* What the reader of a file may return.                                   *)

LEMMA SelectionsType ==
    ASSUME NEW s \in Seq(Bytes), NEW t \in Selections(s)
    PROVE  t \in Seq(Entries)
  <1>1. PICK n \in 0..Len(s) : t \in [1..n -> ToSet(s) \ {Torn}]
    BY DEF Selections
  <1>2. ToSet(s) \ {Torn} \subseteq Entries
    BY SetIn DEF Bytes
  <1>3. t \in [1..n -> Entries] /\ n \in Nat
    BY <1>1, <1>2
  <1> QED
    BY <1>3

LEMMA ReadableType ==
    ASSUME NEW s \in Seq(Bytes), NEW r \in Readable(s)
    PROVE  r \in Seq(Entries)
  <1> DEFINE torn == {i \in DOMAIN s : s[i] = Torn}
  <1>1. CASE torn = {}
    <2>1. r = s
      BY <1>1 DEF Readable
    <2>2. \A i \in 1..Len(s) : s[i] \in Entries
      BY <1>1 DEF Bytes
    <2> QED
      BY <2>1, <2>2
  <1>2. CASE torn # {}
    <2>1. PICK i \in {k \in torn : \A n \in torn : k <= n} :
             \E t \in Selections(SubSeq(s, i + 2, Len(s))) : r = SubSeq(s, 1, i - 1) \o t
      BY <1>2 DEF Readable
    <2>2. PICK t \in Selections(SubSeq(s, i + 2, Len(s))) : r = SubSeq(s, 1, i - 1) \o t
      BY <2>1
    <2>3. i \in 1..Len(s) /\ Len(s) \in Nat
      BY <2>1
    <2>4. \A k \in 1..(i - 1) : s[k] \in Entries
      BY <2>1, <2>3 DEF Bytes
    <2>5. SubSeq(s, 1, i - 1) \in Seq(Entries)
      BY <2>3, <2>4
    <2>6. SubSeq(s, i + 2, Len(s)) \in Seq(Bytes)
      BY <2>3
    <2>7. t \in Seq(Entries)
      BY <2>6, SelectionsType
    <2> QED
      BY <2>2, <2>5, <2>7
  <1> QED
    BY <1>1, <1>2

LEMMA ReadableWhole ==
    ASSUME NEW s \in Seq(Bytes), Torn \notin ToSet(s)
    PROVE  Readable(s) = {s}
  BY DEF Readable, ToSet

-----------------------------------------------------------------------------
(* The disk, as the writer leaves it.                                      *)

\* Nothing is written behind the current file, and no time is ahead of the clock.
Shape(d) ==
    /\ d \in DiskType
    /\ d.current <= d.made
    /\ \A f \in Files : f > d.current => d.content[f] = <<>>
    /\ d.linked \subseteq 1..d.made
    /\ \A f \in Files : d.mtime[f] <= now

InUse(d) == Shape(d) /\ d.current \in Files

\* A set of disks that no operation of writeEntry but the write itself leaves.
Closed(S) ==
    \A d \in S :
        /\ Syncs(d) \subseteq S
        /\ WriteFailed(d) \subseteq S
        /\ d.made < MaxFiles => Rotated(d) \cup RotationFailed(d) \subseteq S

LEMMA SyncsForms ==
    ASSUME NEW d, NEW r \in Syncs(d)
    PROVE  \/ r = [d EXCEPT !.bytesSinceSync = 0]
           \/ r = [[d EXCEPT !.bytesSinceSync = 0] EXCEPT
                      !.synced[d.current] = Len(d.content[d.current])]
  BY DEF Syncs

LEMMA RotatedForms ==
    ASSUME NEW d, NEW r \in Rotated(d)
    PROVE  \E s \in IF d.bytesSinceSync > 0 THEN Syncs(d) ELSE {d} :
              r = [NewFile(s) EXCEPT !.current = s.made + 1, !.bytesSinceSync = 0]
  BY DEF Rotated

LEMMA SyncedType ==
    ASSUME NEW d, InUse(d), NEW r \in Syncs(d)
    PROVE  /\ InUse(r) /\ r.bytesSinceSync = 0
           /\ r.content = d.content /\ r.made = d.made /\ r.linked = d.linked
           /\ r.current = d.current /\ r.mtime = d.mtime
           /\ \A f \in Files : f # d.current => r.synced[f] = d.synced[f]
           /\ r.synced[d.current] \in {d.synced[d.current], Len(d.content[d.current])}
           /\ ~SyncMayFail => r.synced[d.current] = Len(d.content[d.current])
  <1>1. Len(d.content[d.current]) \in Nat /\ d \in DiskType /\ d.current \in Files
    BY DEF InUse, Shape, DiskType
  <1>2. CASE r = [d EXCEPT !.bytesSinceSync = 0]
    <2>1. /\ r \in DiskType /\ r.content = d.content /\ r.made = d.made /\ r.linked = d.linked
          /\ r.current = d.current /\ r.mtime = d.mtime /\ r.synced = d.synced
          /\ r.bytesSinceSync = 0
      BY <1>1, <1>2 DEF DiskType
    <2>2. InUse(r)
      BY <2>1 DEF InUse, Shape
    <2>3. ~SyncMayFail => r.synced[d.current] = Len(d.content[d.current])
      <3> SUFFICES ASSUME ~SyncMayFail PROVE r.synced[d.current] = Len(d.content[d.current])
        OBVIOUS
      <3>1. r = [[d EXCEPT !.bytesSinceSync = 0] EXCEPT
                      !.synced[d.current] = Len(d.content[d.current])]
        BY <1>1 DEF Syncs, DiskType
      <3> QED
        BY <1>1, <3>1 DEF DiskType
    <2> QED
      BY <2>1, <2>2, <2>3
  <1>3. CASE r = [[d EXCEPT !.bytesSinceSync = 0] EXCEPT
                      !.synced[d.current] = Len(d.content[d.current])]
    <2>1. /\ r \in DiskType /\ r.content = d.content /\ r.made = d.made /\ r.linked = d.linked
          /\ r.current = d.current /\ r.mtime = d.mtime
          /\ r.synced = [d.synced EXCEPT ![d.current] = Len(d.content[d.current])]
          /\ r.bytesSinceSync = 0
      BY <1>1, <1>3 DEF DiskType
    <2>2. InUse(r)
      BY <2>1 DEF InUse, Shape
    <2> QED
      BY <1>1, <2>1, <2>2 DEF DiskType
  <1> QED
    BY <1>2, <1>3, SyncsForms

LEMMA NewFileType ==
    ASSUME NEW d, Shape(d), d.made < MaxFiles, now \in Nat
    PROVE  /\ Shape(NewFile(d))
           /\ NewFile(d).made = d.made + 1 /\ NewFile(d).linked = d.linked \cup {d.made + 1}
           /\ NewFile(d).content = d.content /\ NewFile(d).current = d.current
           /\ NewFile(d).synced = d.synced /\ NewFile(d).bytesSinceSync = d.bytesSinceSync
           /\ NewFile(d).mtime[d.made + 1] = now
           /\ \A f \in Files : f # d.made + 1 => NewFile(d).mtime[f] = d.mtime[f]
  <1>1. d.made + 1 \in Files /\ d.made \in Nat
    BY WalConstants DEF Shape, DiskType, Files
  <1>2. NewFile(d) \in DiskType
    <2>1. d \in DiskType /\ d.made + 1 \in 0..MaxFiles
      BY <1>1, WalConstants DEF Shape, Files
    <2>2. d.linked \cup {d.made + 1} \in SUBSET Files
      BY <1>1, <2>1 DEF DiskType
    <2>3. [d.mtime EXCEPT ![d.made + 1] = now] \in [Files -> Nat]
      BY <2>1 DEF DiskType
    <2>4. NewFile(d) = [d EXCEPT !.made = d.made + 1, !.linked = d.linked \cup {d.made + 1},
                                 !.mtime = [d.mtime EXCEPT ![d.made + 1] = now]]
      BY <2>1 DEF NewFile, DiskType
    <2> QED
      BY <2>1, <2>2, <2>3, <2>4 DEF DiskType
  <1>3. /\ NewFile(d).made = d.made + 1 /\ NewFile(d).linked = d.linked \cup {d.made + 1}
        /\ NewFile(d).content = d.content /\ NewFile(d).current = d.current
        /\ NewFile(d).synced = d.synced /\ NewFile(d).bytesSinceSync = d.bytesSinceSync
        /\ NewFile(d).mtime = [d.mtime EXCEPT ![d.made + 1] = now]
    BY DEF NewFile, Shape, DiskType
  <1>4. /\ NewFile(d).mtime[d.made + 1] = now
        /\ \A f \in Files : f # d.made + 1 => NewFile(d).mtime[f] = d.mtime[f]
    BY <1>1, <1>3 DEF Shape, DiskType
  <1>5. d.current \in Nat /\ d.current <= d.made + 1 /\ d.linked \cup {d.made + 1} \subseteq 1..(d.made + 1)
    BY <1>1 DEF Shape, DiskType, Files, NoFile
  <1>6. \A f \in Files : NewFile(d).mtime[f] <= now
    BY <1>4 DEF Shape
  <1> QED
    BY <1>2, <1>3, <1>4, <1>5, <1>6 DEF Shape

\* A sync that a rotation makes of the file it leaves.
LEMMA RotatedType ==
    ASSUME NEW d, InUse(d) \/ (Shape(d) /\ d.bytesSinceSync = 0),
           d.made < MaxFiles, now \in Nat, NEW r \in Rotated(d)
    PROVE  /\ InUse(r) /\ r.made = d.made + 1 /\ r.linked = d.linked \cup {d.made + 1}
           /\ r.content = d.content /\ r.current = d.made + 1 /\ r.bytesSinceSync = 0
           /\ r.mtime[d.made + 1] = now
           /\ \A f \in Files : f # d.made + 1 => r.mtime[f] = d.mtime[f]
           /\ \A f \in Files : f # d.current => r.synced[f] = d.synced[f]
           /\ d.bytesSinceSync = 0 => r.synced = d.synced
           /\ d.bytesSinceSync > 0 /\ ~SyncMayFail =>
                 r.synced[d.current] = Len(d.content[d.current])
  <1>1. PICK s \in IF d.bytesSinceSync > 0 THEN Syncs(d) ELSE {d} :
           r = [NewFile(s) EXCEPT !.current = s.made + 1, !.bytesSinceSync = 0]
    BY RotatedForms
  <1>2. /\ Shape(s) /\ s.content = d.content /\ s.made = d.made /\ s.linked = d.linked
        /\ s.current = d.current /\ s.mtime = d.mtime
        /\ \A f \in Files : f # d.current => s.synced[f] = d.synced[f]
        /\ d.bytesSinceSync = 0 => s.synced = d.synced
        /\ d.bytesSinceSync > 0 /\ ~SyncMayFail =>
              s.synced[d.current] = Len(d.content[d.current])
    BY <1>1, SyncedType DEF InUse
  <1> HIDE DEF Shape
  <1>3. /\ Shape(NewFile(s))
        /\ NewFile(s).made = s.made + 1 /\ NewFile(s).linked = s.linked \cup {s.made + 1}
        /\ NewFile(s).content = s.content /\ NewFile(s).synced = s.synced
        /\ NewFile(s).mtime[s.made + 1] = now
        /\ \A f \in Files : f # s.made + 1 => NewFile(s).mtime[f] = s.mtime[f]
    BY <1>2, NewFileType
  <1>4. s.made \in Nat /\ s.made + 1 \in Files /\ s.current <= s.made /\ s.current \in Nat
    <2>1. s.made \in Nat /\ s.current <= s.made /\ s.current \in Files \cup {0} /\ s.made < MaxFiles
      BY <1>2, WalConstants DEF Shape, DiskType, NoFile
    <2> QED
      BY <2>1, WalConstants DEF Files
  <1>5. NewFile(s) \in DiskType
    BY <1>3 DEF Shape
  <1>6. /\ r \in DiskType /\ r.current = s.made + 1 /\ r.bytesSinceSync = 0
        /\ r.made = NewFile(s).made /\ r.linked = NewFile(s).linked
        /\ r.content = NewFile(s).content /\ r.synced = NewFile(s).synced
        /\ r.mtime = NewFile(s).mtime
    BY <1>1, <1>4, <1>5 DEF DiskType
  <1>7. \A f \in Files : f > s.made + 1 => s.content[f] = <<>>
    BY <1>2, <1>4 DEF Shape, Files
  <1>8. Shape(r)
    BY <1>2, <1>3, <1>6, <1>7 DEF Shape
  <1> QED
    BY <1>2, <1>3, <1>4, <1>6, <1>8 DEF InUse

LEMMA PutType ==
    ASSUME NEW d, InUse(d), NEW x \in Bytes, now \in Nat
    PROVE  /\ InUse(Put(d, x))
           /\ Put(d, x).made = d.made /\ Put(d, x).linked = d.linked
           /\ Put(d, x).current = d.current
           /\ Put(d, x).synced = d.synced /\ Put(d, x).bytesSinceSync = d.bytesSinceSync
           /\ Put(d, x).content[d.current] = Append(d.content[d.current], x)
           /\ Put(d, x).mtime[d.current] = now
           /\ \A f \in Files : f # d.current =>
                 /\ Put(d, x).content[f] = d.content[f]
                 /\ Put(d, x).mtime[f] = d.mtime[f]
  <1>1. d \in DiskType /\ d.current \in Files
    BY DEF InUse, Shape
  <1>2. Append(d.content[d.current], x) \in Seq(Bytes)
    BY <1>1 DEF DiskType, Bytes
  <1>3. /\ Put(d, x).content = [d.content EXCEPT ![d.current] = Append(d.content[d.current], x)]
        /\ Put(d, x).mtime = [d.mtime EXCEPT ![d.current] = now]
        /\ Put(d, x).made = d.made /\ Put(d, x).linked = d.linked
        /\ Put(d, x).current = d.current
        /\ Put(d, x).synced = d.synced /\ Put(d, x).bytesSinceSync = d.bytesSinceSync
    BY <1>1 DEF Put, DiskType
  <1>4. Put(d, x) \in DiskType
    BY <1>1, <1>2 DEF Put, DiskType, Bytes
  <1>5. /\ Put(d, x).content[d.current] = Append(d.content[d.current], x)
        /\ Put(d, x).mtime[d.current] = now
        /\ \A f \in Files : f # d.current =>
              /\ Put(d, x).content[f] = d.content[f]
              /\ Put(d, x).mtime[f] = d.mtime[f]
    BY <1>1, <1>3 DEF DiskType
  <1>6. \A f \in Files : f > d.current => Put(d, x).content[f] = <<>>
    <2>1. d.current \in Nat
      BY <1>1, WalConstants DEF Files
    <2> QED
      BY <1>5, <2>1 DEF InUse, Shape, Files
  <1>7. \A f \in Files : Put(d, x).mtime[f] <= now
    BY <1>5 DEF InUse, Shape
  <1> QED
    BY <1>1, <1>3, <1>4, <1>5, <1>6, <1>7 DEF InUse, Shape

LEMMA WrittenType ==
    ASSUME NEW d, InUse(d), NEW x \in Entries, now \in Nat
    PROVE  /\ InUse(Written(d, x))
           /\ Written(d, x).made = d.made /\ Written(d, x).linked = d.linked
           /\ Written(d, x).current = d.current
           /\ Written(d, x).synced = d.synced
           /\ Written(d, x).bytesSinceSync = d.bytesSinceSync + 1
           /\ Written(d, x).content[d.current] = Append(d.content[d.current], x)
           /\ Written(d, x).mtime[d.current] = now
           /\ \A f \in Files : f # d.current =>
                 /\ Written(d, x).content[f] = d.content[f]
                 /\ Written(d, x).mtime[f] = d.mtime[f]
  <1>1. /\ InUse(Put(d, x))
        /\ Put(d, x).made = d.made /\ Put(d, x).linked = d.linked
        /\ Put(d, x).current = d.current
        /\ Put(d, x).synced = d.synced /\ Put(d, x).bytesSinceSync = d.bytesSinceSync
        /\ Put(d, x).content[d.current] = Append(d.content[d.current], x)
        /\ Put(d, x).mtime[d.current] = now
        /\ \A f \in Files : f # d.current =>
              /\ Put(d, x).content[f] = d.content[f]
              /\ Put(d, x).mtime[f] = d.mtime[f]
    BY PutType DEF Bytes
  <1>2. Put(d, x) \in DiskType
    BY <1>1 DEF InUse, Shape
  <1>3. /\ Written(d, x) \in DiskType
        /\ Written(d, x).made = Put(d, x).made /\ Written(d, x).linked = Put(d, x).linked
        /\ Written(d, x).current = Put(d, x).current
        /\ Written(d, x).synced = Put(d, x).synced
        /\ Written(d, x).bytesSinceSync = Put(d, x).bytesSinceSync + 1
        /\ Written(d, x).content = Put(d, x).content
        /\ Written(d, x).mtime = Put(d, x).mtime
    <2>1. Put(d, x).bytesSinceSync + 1 \in Nat
      BY <1>2 DEF DiskType
    <2>2. Written(d, x) = [Put(d, x) EXCEPT !.bytesSinceSync = Put(d, x).bytesSinceSync + 1]
      BY DEF Written
    <2> HIDE DEF Put
    <2> QED
      BY <1>2, <2>1, <2>2 DEF DiskType
  <1>4. InUse(Written(d, x))
    BY <1>1, <1>3 DEF InUse, Shape
  <1> QED
    BY <1>1, <1>3, <1>4

-----------------------------------------------------------------------------
(* writeEntry as a whole: what holds of all disks of a set that the other  *)
(* operations do not leave holds after it.                                 *)

LEMMA MadeGrows ==
    ASSUME NEW d, InUse(d), now \in Nat
    PROVE  /\ \A r \in Syncs(d) : InUse(r) /\ r.made = d.made
           /\ \A r \in WriteFailed(d) : InUse(r) /\ r.made = d.made
           /\ d.made < MaxFiles => \A r \in Rotated(d) : InUse(r) /\ r.made = d.made + 1
           /\ d.made < MaxFiles => \A r \in RotationFailed(d) : InUse(r)
  <1>1. \A r \in Syncs(d) : InUse(r) /\ r.made = d.made
    BY SyncedType
  <1>2. \A r \in WriteFailed(d) : InUse(r) /\ r.made = d.made
    <2>1. Torn \in Bytes
      BY DEF Bytes
    <2>2. InUse(Put(d, Torn)) /\ Put(d, Torn).made = d.made
      BY <2>1, PutType
    <2> QED
      BY <2>2 DEF WriteFailed
  <1>3. d.made < MaxFiles => \A r \in Rotated(d) : InUse(r) /\ r.made = d.made + 1
    BY RotatedType
  <1>4. d.made < MaxFiles => InUse(NewFile(d))
    BY NewFileType DEF InUse
  <1>5. d.made < MaxFiles => \A r \in RotationFailed(d) : InUse(r)
    BY <1>4 DEF RotationFailed
  <1> QED
    BY <1>1, <1>2, <1>3, <1>5

LEMMA SettledStays ==
    ASSUME NEW S, Closed(S), now \in Nat, NEW d \in S, InUse(d), d.made < MaxFiles
    PROVE  Settled(d) \subseteq S
  <1> SUFFICES ASSUME NEW r \in Settled(d) PROVE r \in S
    OBVIOUS
  <1>1. PICK s \in IF d.bytesSinceSync >= SyncEvery THEN Syncs(d) ELSE {d} :
           r \in Rotated(s) \cup RotationFailed(s) \cup {s}
    BY DEF Settled
  <1>2. s \in S /\ s.made = d.made
    BY <1>1, MadeGrows DEF Closed
  <1> QED
    BY <1>1, <1>2 DEF Closed

LEMMA WriteEntryForms ==
    ASSUME NEW S, NEW T, NEW e, Closed(S), Closed(T), now \in Nat, e \in Entries,
           \A d \in S : InUse(d) => Written(d, e) \in T,
           disk \in S, InUse(disk), disk.made + 2 <= MaxFiles
    PROVE  /\ Settled(Written(disk, e)) \subseteq T
           /\ \A d \in WriteFailed(disk) : Retried(d, e) \subseteq T /\ GaveUp(d) \subseteq S
  <1>0. disk.made \in Nat /\ disk.made < MaxFiles /\ disk.made + 1 < MaxFiles
    BY WalConstants DEF InUse, Shape, DiskType
  <1>1. Settled(Written(disk, e)) \subseteq T
    <2>1. InUse(Written(disk, e)) /\ Written(disk, e).made = disk.made
      BY WrittenType
    <2> QED
      BY <2>1, <1>0, SettledStays
  <1>2. ASSUME NEW d \in WriteFailed(disk)
        PROVE  Retried(d, e) \subseteq T /\ GaveUp(d) \subseteq S
    <2>1. d \in S /\ InUse(d) /\ d.made = disk.made
      BY MadeGrows DEF Closed
    <2>2. ASSUME NEW r \in Rotated(d) PROVE r \in S /\ InUse(r) /\ r.made = disk.made + 1
      BY <2>1, <1>0, MadeGrows DEF Closed
    <2>3. ASSUME NEW r \in Rotated(d) PROVE Settled(Written(r, e)) \subseteq T
      <3>1. InUse(Written(r, e)) /\ Written(r, e).made = r.made
        BY <2>2, WrittenType
      <3>2. Written(r, e) \in T /\ Written(r, e).made < MaxFiles
        BY <2>2, <3>1, <1>0
      <3> QED
        BY <3>1, <3>2, SettledStays
    <2>4. Retried(d, e) \subseteq T
      BY <2>3 DEF Retried
    <2>5. RotationFailed(d) \subseteq S
      BY <2>1, <1>0 DEF Closed
    <2>6. ASSUME NEW r \in Rotated(d) PROVE WriteFailed(r) \subseteq S
      BY <2>2 DEF Closed
    <2>7. GaveUp(d) \subseteq S
      BY <2>5, <2>6 DEF GaveUp
    <2> QED
      BY <2>4, <2>7
  <1> QED
    BY <1>1, <1>2

\* The step: either the head of the channel reaches a file, or it is given up.
LEMMA WriteEntryStep ==
    ASSUME NEW S, NEW T, WriteEntry, chan \in Seq(Entries), Closed(S), Closed(T), now \in Nat,
           \A d \in S : InUse(d) => Written(d, Head(chan)) \in T,
           disk \in S, InUse(disk)
    PROVE  /\ Head(chan) \in Entries /\ chan' = Tail(chan) /\ chan # <<>>
           /\ \/ disk' \in T /\ lost' = lost
              \/ disk' \in S /\ lost' = lost \cup {Head(chan)}
  <1>1. chan # <<>> /\ disk.made + 2 <= MaxFiles /\ chan' = Tail(chan)
    BY DEF WriteEntry
  <1>2. Head(chan) \in Entries
    BY <1>1
  <1>3. /\ Settled(Written(disk, Head(chan))) \subseteq T
        /\ \A d \in WriteFailed(disk) :
              Retried(d, Head(chan)) \subseteq T /\ GaveUp(d) \subseteq S
    BY <1>1, <1>2, WriteEntryForms
  <1> QED
    BY <1>1, <1>2, <1>3 DEF WriteEntry

-----------------------------------------------------------------------------
(* What the writer may do to a disk d0 until now, writing at most X.       *)

Noise == IF WritesMayFail THEN {Torn} ELSE {}

GrownFrom(d0, X) ==
    {d \in DiskType :
        /\ InUse(d)
        /\ d0.made <= d.made /\ d0.current <= d.current
        /\ d0.linked \subseteq d.linked
        /\ \A f \in d.linked : f \in d0.linked \/ f > d0.made
        /\ d.current = d0.current \/ d.mtime[d.current] >= now
        /\ \A f \in Files :
              /\ f < d0.current => d.content[f] = d0.content[f]
              /\ d0.mtime[f] <= d.mtime[f]
              /\ ToSet(d0.content[f]) \subseteq ToSet(d.content[f])
              /\ ToSet(d.content[f]) \subseteq ToSet(d0.content[f]) \cup Noise \cup X
              /\ \/ ToSet(d.content[f]) \subseteq ToSet(d0.content[f]) \cup Noise
                 \/ d.mtime[f] >= now}

LEMMA FilesNat == /\ \A f \in Files : f \in Nat /\ f > 0
                  /\ MaxFiles \in Nat
  BY WalConstants DEF Files

LEMMA DiskNumbers ==
    ASSUME NEW d \in DiskType
    PROVE  /\ d.made \in Nat /\ d.current \in Nat /\ d.bytesSinceSync \in Nat
           /\ \A f \in Files : d.mtime[f] \in Nat /\ d.synced[f] \in Nat /\ d.content[f] \in Seq(Bytes)
  <1>1. /\ d.made \in 0..MaxFiles /\ d.current \in Files \cup {NoFile} /\ d.bytesSinceSync \in Nat
        /\ d.mtime \in [Files -> Nat] /\ d.synced \in [Files -> Nat]
        /\ d.content \in [Files -> Seq(Bytes)]
    BY DEF DiskType, Bytes
  <1>2. d.made \in Nat
    BY <1>1, FilesNat
  <1>3. d.current \in Nat
    BY <1>1, FilesNat DEF NoFile
  <1> QED
    BY <1>1, <1>2, <1>3

LEMMA GrownPart ==
    ASSUME NEW d0, Shape(d0), NEW X, NEW d \in GrownFrom(d0, X), InUse(d),
           NEW r, InUse(r), r.content = d.content, d.linked \subseteq r.linked,
           \A f \in r.linked : f \in d.linked \/ f > d.made,
           d.made <= r.made, d.current <= r.current,
           r.current = d.current \/ r.mtime[r.current] >= now,
           \A f \in Files : d.mtime[f] <= r.mtime[f], now \in Nat
    PROVE  r \in GrownFrom(d0, X)
  <1>1. /\ r \in DiskType /\ d \in DiskType /\ d0 \in DiskType
        /\ d.current \in Files /\ r.current \in Files
    BY DEF InUse, Shape
  <1>2. /\ d.made \in Nat /\ r.made \in Nat /\ d0.made \in Nat
        /\ d.current \in Nat /\ r.current \in Nat /\ d0.current \in Nat
    BY <1>1, DiskNumbers
  <1>3. d0.made <= r.made /\ d0.current <= r.current /\ d0.linked \subseteq r.linked
    BY <1>2 DEF GrownFrom
  <1>4. \A f \in Files : d0.mtime[f] \in Nat /\ d.mtime[f] \in Nat /\ r.mtime[f] \in Nat
    BY <1>1 DEF DiskType
  <1>5. r.current = d0.current \/ r.mtime[r.current] >= now
    BY <1>1, <1>4 DEF GrownFrom
  <1>7. ASSUME NEW f \in r.linked PROVE f \in d0.linked \/ f > d0.made
    <2>1. f \in Files
      BY <1>1 DEF DiskType
    <2>2. f \in Nat /\ d0.made <= d.made
      BY <2>1, FilesNat DEF GrownFrom
    <2>3. f \in d.linked => f \in d0.linked \/ f > d0.made
      BY DEF GrownFrom
    <2> QED
      BY <1>2, <2>2, <2>3
  <1>6. ASSUME NEW f \in Files
        PROVE  /\ f < d0.current => r.content[f] = d0.content[f]
               /\ d0.mtime[f] <= r.mtime[f]
               /\ ToSet(d0.content[f]) \subseteq ToSet(r.content[f])
               /\ ToSet(r.content[f]) \subseteq ToSet(d0.content[f]) \cup Noise \cup X
               /\ \/ ToSet(r.content[f]) \subseteq ToSet(d0.content[f]) \cup Noise
                  \/ r.mtime[f] >= now
    BY <1>4 DEF GrownFrom
  <1> QED
    BY <1>1, <1>3, <1>5, <1>6, <1>7 DEF GrownFrom

LEMMA GrownPut ==
    ASSUME NEW d0, Shape(d0), NEW X, NEW Y, NEW d \in GrownFrom(d0, X), InUse(d),
           NEW x \in Bytes, X \subseteq Y, x \in Noise \cup Y,
           NEW r, InUse(r), r.made = d.made, r.linked = d.linked, r.current = d.current,
           r.content[d.current] = Append(d.content[d.current], x),
           r.mtime[d.current] = now,
           \A f \in Files : f # d.current =>
               r.content[f] = d.content[f] /\ r.mtime[f] = d.mtime[f],
           now \in Nat
    PROVE  r \in GrownFrom(d0, Y)
  <1>1. /\ r \in DiskType /\ d \in DiskType /\ d0 \in DiskType
        /\ d.current \in Files /\ r.current \in Files
    BY DEF InUse, Shape
  <1>2. d.current \in Nat /\ d0.current \in Nat /\ d0.current <= d.current
    BY <1>1, DiskNumbers DEF GrownFrom
  <1>3. ToSet(r.content[d.current]) = ToSet(d.content[d.current]) \cup {x}
    <2>1. d.content[d.current] \in Seq(Bytes)
      BY <1>1 DEF DiskType, Bytes
    <2> QED
      BY <2>1, AppendedSet
  <1>4. \A f \in Files : d0.mtime[f] <= now /\ d.mtime[f] <= now
    BY DEF Shape, InUse
  <1>5. \A f \in Files : d0.mtime[f] \in Nat /\ d.mtime[f] \in Nat /\ r.mtime[f] \in Nat
    BY <1>1 DEF DiskType
  <1>6. ASSUME NEW f \in Files
        PROVE  /\ f < d0.current => r.content[f] = d0.content[f]
               /\ d0.mtime[f] <= r.mtime[f]
               /\ ToSet(d0.content[f]) \subseteq ToSet(r.content[f])
               /\ ToSet(r.content[f]) \subseteq ToSet(d0.content[f]) \cup Noise \cup Y
               /\ \/ ToSet(r.content[f]) \subseteq ToSet(d0.content[f]) \cup Noise
                  \/ r.mtime[f] >= now
    <2>1. CASE f = d.current
      <3>1. ~(f < d0.current)
        BY <1>2, <2>1
      <3>2. d0.mtime[f] <= r.mtime[f] /\ r.mtime[f] >= now
        BY <1>4, <1>5, <2>1
      <3>3. /\ ToSet(d0.content[f]) \subseteq ToSet(d.content[f])
            /\ ToSet(d.content[f]) \subseteq ToSet(d0.content[f]) \cup Noise \cup X
        BY DEF GrownFrom
      <3> QED
        BY <3>1, <3>2, <3>3, <1>3, <2>1
    <2>2. CASE f # d.current
      <3>1. r.content[f] = d.content[f] /\ r.mtime[f] = d.mtime[f]
        BY <2>2
      <3>2. /\ f < d0.current => d.content[f] = d0.content[f]
            /\ d0.mtime[f] <= d.mtime[f]
            /\ ToSet(d0.content[f]) \subseteq ToSet(d.content[f])
            /\ ToSet(d.content[f]) \subseteq ToSet(d0.content[f]) \cup Noise \cup X
            /\ \/ ToSet(d.content[f]) \subseteq ToSet(d0.content[f]) \cup Noise
               \/ d.mtime[f] >= now
        BY DEF GrownFrom
      <3> QED
        BY <3>1, <3>2
    <2> QED
      BY <2>1, <2>2
  <1>7. /\ d0.made <= r.made /\ d0.current <= r.current /\ d0.linked \subseteq r.linked
        /\ r.current = d0.current \/ r.mtime[r.current] >= now
        /\ \A f \in r.linked : f \in d0.linked \/ f > d0.made
    BY <1>5, <1>1, <1>4 DEF GrownFrom
  <1> QED
    BY <1>1, <1>6, <1>7 DEF GrownFrom

LEMMA GrownRotated ==
    ASSUME NEW d0, Shape(d0), NEW X, NEW d \in GrownFrom(d0, X), InUse(d),
           d.made < MaxFiles, now \in Nat
    PROVE  Rotated(d) \cup RotationFailed(d) \subseteq GrownFrom(d0, X)
  <1>1. d \in DiskType /\ d.made \in Nat /\ d.current \in Nat /\ d.current <= d.made
    BY DiskNumbers DEF InUse, Shape
  <1>2. \A f \in Files : d.mtime[f] \in Nat /\ d.mtime[f] <= now
    BY <1>1 DEF DiskType, InUse, Shape
  <1>3. ASSUME NEW r \in Rotated(d) PROVE r \in GrownFrom(d0, X)
    <2>1. /\ InUse(r) /\ r.made = d.made + 1 /\ r.linked = d.linked \cup {d.made + 1}
          /\ r.content = d.content /\ r.current = d.made + 1
          /\ r.mtime[d.made + 1] = now
          /\ \A f \in Files : f # d.made + 1 => r.mtime[f] = d.mtime[f]
      BY RotatedType
    <2>2. \A f \in Files : d.mtime[f] <= r.mtime[f]
      BY <2>1, <1>2
    <2>3. /\ r.mtime[r.current] >= now /\ d.current <= r.current /\ d.made <= r.made
          /\ \A f \in r.linked : f \in d.linked \/ f > d.made
      BY <2>1, <1>1
    <2> QED
      BY <2>1, <2>2, <2>3, GrownPart
  <1>4. NewFile(d) \in GrownFrom(d0, X)
    <2> DEFINE r == NewFile(d)
    <2>1. /\ Shape(r) /\ r.made = d.made + 1 /\ r.linked = d.linked \cup {d.made + 1}
          /\ r.content = d.content /\ r.current = d.current
          /\ r.mtime[d.made + 1] = now
          /\ \A f \in Files : f # d.made + 1 => r.mtime[f] = d.mtime[f]
      BY NewFileType DEF InUse
    <2>2. InUse(r)
      BY <2>1 DEF InUse
    <2> HIDE DEF r
    <2>3. \A f \in Files : d.mtime[f] <= r.mtime[f]
      BY <2>1, <1>2
    <2>4. /\ d.current <= r.current /\ d.made <= r.made
          /\ \A f \in r.linked : f \in d.linked \/ f > d.made
      BY <2>1, <1>1
    <2>5. r \in GrownFrom(d0, X)
      BY <2>1, <2>2, <2>3, <2>4, GrownPart
    <2> QED
      BY <2>5 DEF r
  <1>5. RotationFailed(d) \subseteq GrownFrom(d0, X)
    BY <1>4 DEF RotationFailed
  <1> QED
    BY <1>3, <1>5

LEMMA GrownClosed ==
    ASSUME NEW d0, Shape(d0), NEW X, now \in Nat
    PROVE  Closed(GrownFrom(d0, X))
  <1> SUFFICES ASSUME NEW d \in GrownFrom(d0, X)
               PROVE  /\ Syncs(d) \subseteq GrownFrom(d0, X)
                      /\ WriteFailed(d) \subseteq GrownFrom(d0, X)
                      /\ d.made < MaxFiles =>
                            Rotated(d) \cup RotationFailed(d) \subseteq GrownFrom(d0, X)
    BY DEF Closed
  <1>1. InUse(d)
    BY DEF GrownFrom
  <1>2. d.made \in Nat /\ d.current \in Nat /\ \A f \in Files : d.mtime[f] \in Nat
    BY <1>1, DiskNumbers DEF InUse, Shape
  <1>3. ASSUME NEW r \in Syncs(d) PROVE r \in GrownFrom(d0, X)
    <2>1. /\ InUse(r) /\ r.content = d.content /\ r.made = d.made /\ r.linked = d.linked
          /\ r.current = d.current /\ r.mtime = d.mtime
      BY <1>1, SyncedType
    <2>2. d.linked \subseteq r.linked /\ d.made <= r.made /\ d.current <= r.current
          /\ (\A f \in r.linked : f \in d.linked \/ f > d.made)
          /\ \A f \in Files : d.mtime[f] <= r.mtime[f]
      BY <1>2, <2>1
    <2> QED
      BY <1>1, <2>1, <2>2, GrownPart
  <1>4. WriteFailed(d) \subseteq GrownFrom(d0, X)
    <2>1. CASE WritesMayFail
      <3>1. Torn \in Bytes /\ Torn \in Noise \cup X
        BY <2>1 DEF Bytes, Noise
      <3>2. /\ InUse(Put(d, Torn))
            /\ Put(d, Torn).made = d.made /\ Put(d, Torn).linked = d.linked
            /\ Put(d, Torn).current = d.current
            /\ Put(d, Torn).content[d.current] = Append(d.content[d.current], Torn)
            /\ Put(d, Torn).mtime[d.current] = now
            /\ \A f \in Files : f # d.current =>
                  /\ Put(d, Torn).content[f] = d.content[f]
                  /\ Put(d, Torn).mtime[f] = d.mtime[f]
        BY <3>1, <1>1, PutType
      <3>3. Put(d, Torn) \in GrownFrom(d0, X)
        BY <3>1, <3>2, <1>1, GrownPut
      <3> QED
        BY <3>3 DEF WriteFailed
    <2> QED
      BY <2>1 DEF WriteFailed
  <1>5. d.made < MaxFiles => Rotated(d) \cup RotationFailed(d) \subseteq GrownFrom(d0, X)
    BY <1>1, GrownRotated
  <1> QED
    BY <1>3, <1>4, <1>5

LEMMA GrownAtOnce ==
    ASSUME NEW d0, InUse(d0), NEW X PROVE d0 \in GrownFrom(d0, X)
  <1>1. /\ d0 \in DiskType /\ d0.made \in Nat /\ d0.current \in Nat
        /\ \A f \in Files : d0.mtime[f] \in Nat
    BY DiskNumbers DEF InUse, Shape
  <1> QED
    BY <1>1 DEF GrownFrom

LEMMA GrownWritten ==
    ASSUME NEW d0, Shape(d0), NEW e \in Entries, NEW d \in GrownFrom(d0, {}), InUse(d), now \in Nat
    PROVE  Written(d, e) \in GrownFrom(d0, {e})
  <1>1. /\ InUse(Written(d, e))
        /\ Written(d, e).made = d.made /\ Written(d, e).linked = d.linked
        /\ Written(d, e).current = d.current
        /\ Written(d, e).content[d.current] = Append(d.content[d.current], e)
        /\ Written(d, e).mtime[d.current] = now
        /\ \A f \in Files : f # d.current =>
              /\ Written(d, e).content[f] = d.content[f]
              /\ Written(d, e).mtime[f] = d.mtime[f]
    BY WrittenType
  <1>2. e \in Bytes /\ {} \subseteq {e} /\ e \in Noise \cup {e}
    BY DEF Bytes
  <1> QED
    BY <1>1, <1>2, GrownPut

\* The whole step, as the other invariants see it.
LEMMA WriteEntryGrows ==
    ASSUME WriteEntry, chan \in Seq(Entries), now \in Nat, InUse(disk)
    PROVE  /\ Head(chan) \in Entries /\ chan' = Tail(chan) /\ chan # <<>>
           /\ \/ disk' \in GrownFrom(disk, {Head(chan)}) /\ lost' = lost
              \/ disk' \in GrownFrom(disk, {}) /\ lost' = lost \cup {Head(chan)}
  <1> DEFINE S == GrownFrom(disk, {})
             T == GrownFrom(disk, {Head(chan)})
  <1>1. Shape(disk) /\ disk \in S
    BY GrownAtOnce DEF InUse
  <1>2. chan # <<>> /\ Head(chan) \in Entries
    BY DEF WriteEntry
  <1>3. Closed(S) /\ Closed(T)
    BY <1>1, GrownClosed
  <1>4. \A d \in S : InUse(d) => Written(d, Head(chan)) \in T
    BY <1>1, <1>2, GrownWritten
  <1> HIDE DEF S, T
  <1>5. /\ Head(chan) \in Entries /\ chan' = Tail(chan) /\ chan # <<>>
        /\ \/ disk' \in T /\ lost' = lost
           \/ disk' \in S /\ lost' = lost \cup {Head(chan)}
    BY <1>1, <1>3, <1>4, WriteEntryStep
  <1> QED
    BY <1>5 DEF S, T

-----------------------------------------------------------------------------
(* What is true of the log in every state, besides its types: who is at    *)
(* work with what, the path a purge has read, and, in Replaying, that what *)
(* a recovery has left to do of a file and what it has replayed are, taken *)
(* together, what the reader returned.                                     *)

RecType ==
    rec \in [stage : {"idle", "list", "file", "replay"},
             skip : Files \cup {NoFile}, todo : SUBSET Files,
             file : Files \cup {NoFile}, rest : Seq(Entries)]

Startup == rec.stage # "idle" /\ rec.skip = NoFile

AtWork ==
    /\ writer # "down" => disk.current \in Files
    /\ writer = "down" => chan = <<>> /\ rec = Idle /\ purge = NoPurge /\ replayed = {}
    /\ rec.stage = "idle" => rec = Idle
    /\ rec.stage = "replay" => rec.file \in Files
    /\ rec.skip <= disk.current
    /\ Startup => chan = <<>>
    /\ purge.on => rec.stage = "idle"

PurgePath ==
    purge.on =>
        /\ purge.time <= now
        /\ purge.active = disk.current \/ disk.mtime[disk.current] >= purge.time

Replaying ==
    rec.stage = "replay" /\ (rec.skip = NoFile \/ rec.file < rec.skip) =>
        \E s \in Readable(disk.content[rec.file]) :
            ToSet(s) \subseteq replayed \cup ToSet(rec.rest)

LogInv == TypeOK /\ Shape(disk) /\ AtWork /\ PurgePath /\ Replaying

LEMMA IdleIsRec == Idle \in [stage : {"idle", "list", "file", "replay"},
             skip : Files \cup {NoFile}, todo : SUBSET Files,
             file : Files \cup {NoFile}, rest : Seq(Entries)]
  BY DEF Idle

LEMMA InitLog == Init => LogInv
  <1> SUFFICES ASSUME Init PROVE LogInv
    OBVIOUS
  <1>1. /\ disk.made = 0 /\ disk.linked = {} /\ disk.current = NoFile
        /\ \A f \in Files : disk.content[f] = <<>> /\ disk.mtime[f] = 0
    BY DEF Init
  <1>2. disk \in DiskType
    <2>1. [f \in Files |-> <<>>] \in [Files -> Seq(Entries \cup {Torn})]
      OBVIOUS
    <2>2. 0 \in 0..MaxFiles
      BY FilesNat
    <2> QED
      BY <2>1, <2>2 DEF Init, DiskType
  <1>3. TypeOK
    <2>1. 0 \in 0..MaxTime /\ 0 \in 0..MaxStarts /\ 0 \in 0..MaxPasses /\ ChanCap >= 0
      BY WalConstants
    <2> QED
      BY <1>2, <2>1, IdleIsRec DEF Init, TypeOK, NoPurge
  <1>4. Shape(disk)
    BY <1>1, <1>2 DEF Shape, NoFile, Init
  <1>5. AtWork /\ PurgePath /\ Replaying
    BY <1>1 DEF Init, AtWork, PurgePath, Replaying, Startup, Idle, NoPurge, NoFile
  <1> QED
    BY <1>3, <1>4, <1>5 DEF LogInv

\* Steps that leave the files alone.
LEMMA ShapeSame ==
    ASSUME Shape(disk), disk' = disk, now' = now
    PROVE  Shape(disk)'
  BY DEF Shape

LEMMA ShapeMoves ==
    ASSUME NEW d, Shape(d), disk' = d, now' = now
    PROVE  Shape(disk)'
  BY DEF Shape

LEMMA AppendRawLog == ASSUME LogInv, NEW e \in Entries, AppendRaw(e) PROVE LogInv'
  <1> USE DEF LogInv
  <1>1. Serving /\ UNCHANGED <<disk, lost, writer, purge, rec, now, starts, passes, replayed>>
    BY DEF AppendRaw
  <1>2. TypeOK'
    <2>1. CASE HasRoom
      <3>1. /\ chan' = Append(chan, e) /\ told' = [told EXCEPT ![e] = "ok"]
            /\ accepted' = Append(accepted, e) /\ Len(chan) < ChanCap
        BY <2>1 DEF AppendRaw, HasRoom
      <3>2. chan' \in Seq(Entries) /\ Len(chan') <= ChanCap
        BY <3>1, WalConstants DEF TypeOK
      <3>3. accepted' \in Seq(Entries)
        BY <3>1 DEF TypeOK
      <3>4. told' \in [Entries -> {"none", "ok", "dropped"}]
        BY <3>1 DEF TypeOK
      <3> QED
        BY <1>1, <3>2, <3>3, <3>4 DEF TypeOK
    <2>2. CASE ~HasRoom
      <3>1. chan' = chan /\ accepted' = accepted /\ told' = [told EXCEPT ![e] = "dropped"]
        BY <2>2 DEF AppendRaw
      <3> QED
        BY <1>1, <3>1 DEF TypeOK
    <2> QED
      BY <2>1, <2>2
  <1>3. AtWork'
    BY <1>1 DEF AtWork, Serving, Startup
  <1>4. PurgePath' /\ Replaying'
    BY <1>1 DEF PurgePath, Replaying
  <1> QED
    BY <1>1, <1>2, <1>3, <1>4, ShapeSame

LEMMA NewWriterLog == ASSUME LogInv, NewWriter PROVE LogInv'
  <1> USE DEF LogInv
  <1> DEFINE d == [disk EXCEPT !.bytesSinceSync = 0]
  <1>1. /\ writer = "down" /\ starts < MaxStarts /\ disk.made < MaxFiles
        /\ starts' = starts + 1 /\ disk' \in Rotated(d) /\ writer' = "running"
        /\ rec' = [Idle EXCEPT !.stage = "list"]
        /\ UNCHANGED <<told, chan, lost, purge, now, passes, accepted, replayed>>
    BY DEF NewWriter
  <1>2. Shape(d) /\ d.bytesSinceSync = 0 /\ d.made < MaxFiles /\ now \in Nat
    <2>1. disk \in DiskType /\ now \in Nat /\ 0 \in Nat
      BY WalConstants DEF Shape, TypeOK
    <2>2. /\ d \in DiskType /\ d.content = disk.content /\ d.made = disk.made
          /\ d.linked = disk.linked /\ d.current = disk.current /\ d.mtime = disk.mtime
          /\ d.bytesSinceSync = 0
      BY <2>1 DEF DiskType
    <2> HIDE DEF d
    <2> QED
      BY <1>1, <2>1, <2>2 DEF Shape
  <1> HIDE DEF d
  <1>3. InUse(disk')
    BY <1>1, <1>2, RotatedType
  <1>4. TypeOK'
    <2>1. starts' \in 0..MaxStarts
      BY <1>1, WalConstants DEF TypeOK
    <2>2. rec' \in [stage : {"idle", "list", "file", "replay"},
             skip : Files \cup {NoFile}, todo : SUBSET Files,
             file : Files \cup {NoFile}, rest : Seq(Entries)]
      BY <1>1, IdleIsRec
    <2>3. disk' \in DiskType
      BY <1>3 DEF InUse, Shape
    <2> QED
      BY <1>1, <2>1, <2>2, <2>3 DEF TypeOK
  <1>5. Shape(disk)'
    BY <1>1, <1>3, ShapeMoves DEF InUse
  <1>6. rec'.stage = "list" /\ rec'.skip = NoFile /\ disk'.current \in Files
    BY <1>1, <1>3 DEF Idle, InUse
  <1>7. AtWork' /\ PurgePath' /\ Replaying'
    <2>1. chan' = <<>> /\ ~purge'.on
      BY <1>1 DEF AtWork, NoPurge
    <2>2. rec'.skip <= disk'.current
      BY <1>6, FilesNat DEF NoFile
    <2> QED
      BY <1>1, <1>6, <2>1, <2>2 DEF AtWork, PurgePath, Replaying, Startup
  <1> QED
    BY <1>4, <1>5, <1>7

LEMMA WriteEntryLog == ASSUME LogInv, WriteEntry PROVE LogInv'
  <1> USE DEF LogInv
  <1>1. /\ writer \in {"running", "purged", "draining"} /\ chan # <<>>
        /\ UNCHANGED <<told, writer, purge, rec, now, starts, passes, accepted, replayed>>
    BY DEF WriteEntry, Writing
  <1>2. InUse(disk) /\ now \in Nat /\ chan \in Seq(Entries)
    BY <1>1, WalConstants DEF AtWork, InUse, TypeOK
  <1>3. PICK X : /\ disk' \in GrownFrom(disk, X)
                 /\ Head(chan) \in Entries /\ chan' = Tail(chan)
                 /\ lost' = lost \/ lost' = lost \cup {Head(chan)}
    BY <1>2, WriteEntryGrows
  <1>4. /\ disk' \in DiskType /\ InUse(disk') /\ disk.current <= disk'.current
        /\ disk'.current = disk.current \/ disk'.mtime[disk'.current] >= now
        /\ \A f \in Files : /\ f < disk.current => disk'.content[f] = disk.content[f]
                            /\ disk.mtime[f] <= disk'.mtime[f]
    BY <1>3 DEF GrownFrom
  <1>5. TypeOK'
    <2>1. chan' \in Seq(Entries) /\ Len(chan') <= ChanCap
      BY <1>1, <1>2, <1>3, HeadAndTail, WalConstants DEF TypeOK
    <2> QED
      BY <1>1, <1>3, <1>4, <2>1 DEF TypeOK
  <1>6. Shape(disk)'
    BY <1>1, <1>4, ShapeMoves DEF InUse
  <1>7. disk.current \in Nat /\ disk'.current \in Nat /\ rec.skip \in Nat
    BY <1>4, DiskNumbers, FilesNat DEF TypeOK, NoFile
  <1>8. AtWork'
    <2>1. rec'.skip <= disk'.current
      BY <1>1, <1>4, <1>7 DEF AtWork
    <2>2. ~Startup'
      BY <1>1 DEF AtWork, Startup
    <2> QED
      BY <1>1, <1>4, <2>1, <2>2 DEF AtWork, InUse
  <1>9. PurgePath'
    <2>1. disk.mtime[disk.current] <= disk'.mtime[disk.current]
      BY <1>2, <1>4 DEF InUse
    <2>2. disk.mtime[disk.current] \in Nat /\ disk'.mtime[disk.current] \in Nat
          /\ disk'.mtime[disk'.current] \in Nat /\ purge.time \in Nat
      <3>1. disk.current \in Files /\ disk'.current \in Files /\ disk \in DiskType
        BY <1>2, <1>4 DEF InUse, Shape
      <3>2. purge.time \in Nat
        BY WalConstants DEF TypeOK
      <3> QED
        BY <3>1, <3>2, <1>4, DiskNumbers
    <2>3. CASE disk'.current = disk.current
      BY <1>1, <2>1, <2>2, <2>3 DEF PurgePath
    <2>4. CASE disk'.mtime[disk'.current] >= now
      BY <1>1, <1>2, <2>2, <2>4 DEF PurgePath
    <2> QED
      BY <1>4, <2>3, <2>4
  <1>10. Replaying'
    <2> SUFFICES ASSUME rec.stage = "replay", rec.skip = NoFile \/ rec.file < rec.skip
                 PROVE  \E s \in Readable(disk'.content[rec.file]) :
                            ToSet(s) \subseteq replayed \cup ToSet(rec.rest)
      BY <1>1 DEF Replaying
    <2>1. rec.file < rec.skip /\ rec.file \in Files
      BY <1>1 DEF AtWork, Startup
    <2>2. rec.file < disk.current
      BY <2>1, <1>7, FilesNat DEF AtWork
    <2>3. disk'.content[rec.file] = disk.content[rec.file]
      BY <2>1, <2>2, <1>4
    <2> QED
      BY <2>3 DEF Replaying
  <1> QED
    BY <1>5, <1>6, <1>8, <1>9, <1>10

\* The writer syncs a file, or leaves it as it is.
LEMMA SyncLog ==
    ASSUME LogInv, writer # "down", disk' \in Syncs(disk) \cup {disk},
           writer' # "down",
           UNCHANGED <<told, chan, lost, purge, rec, now, starts, passes, accepted, replayed>>,
           writer' \in {"down", "running", "purged", "draining", "closed"}
    PROVE  LogInv'
  <1> USE DEF LogInv
  <1>1. InUse(disk)
    BY DEF AtWork, InUse
  <1>2. /\ InUse(disk') /\ disk'.content = disk.content /\ disk'.current = disk.current
        /\ disk'.mtime = disk.mtime
    BY <1>1, SyncedType
  <1>3. TypeOK'
    BY <1>2 DEF InUse, Shape, TypeOK
  <1>4. Shape(disk)'
    BY <1>2, ShapeMoves DEF InUse
  <1>5. AtWork' /\ PurgePath' /\ Replaying'
    BY <1>2 DEF AtWork, PurgePath, Replaying, Startup
  <1> QED
    BY <1>3, <1>4, <1>5

LEMMA WriterLog ==
    ASSUME LogInv, SyncTick \/ CloseWriter \/ DrainEnds PROVE LogInv'
  <1>1. /\ writer # "down" /\ disk' \in Syncs(disk) \cup {disk} /\ writer' # "down"
        /\ writer' \in {"down", "running", "purged", "draining", "closed"}
        /\ UNCHANGED <<told, chan, lost, purge, rec, now, starts, passes, accepted, replayed>>
    BY DEF SyncTick, CloseWriter, DrainEnds
  <1> QED
    BY <1>1, SyncLog

LEMMA ExitLog == ASSUME LogInv, Exit PROVE LogInv'
  <1> USE DEF LogInv
  <1>1. /\ writer' = "down" /\ chan' = <<>> /\ purge' = NoPurge /\ rec' = Idle /\ replayed' = {}
        /\ UNCHANGED <<told, disk, lost, now, starts, passes, accepted>>
    BY DEF Exit
  <1>2. TypeOK'
    <2>1. 0 \in 0..MaxTime /\ ChanCap >= 0
      BY WalConstants
    <2> QED
      BY <1>1, <2>1, IdleIsRec DEF TypeOK, NoPurge
  <1>3. AtWork' /\ PurgePath' /\ Replaying'
    <2>1. 0 <= disk.current
      BY DiskNumbers DEF TypeOK
    <2> QED
      BY <1>1, <2>1 DEF AtWork, PurgePath, Replaying, Startup, Idle, NoPurge, NoFile
  <1> QED
    BY <1>1, <1>2, <1>3, ShapeSame

LEMMA TickLog == ASSUME LogInv, Tick PROVE LogInv'
  <1> USE DEF LogInv
  <1>1. /\ now < MaxTime /\ now' = now + 1 /\ now \in Nat /\ now' \in 0..MaxTime
        /\ UNCHANGED <<told, chan, disk, lost, writer, purge, rec, starts, passes,
                       accepted, replayed>>
    BY WalConstants DEF Tick, TypeOK
  <1>2. TypeOK'
    BY <1>1 DEF TypeOK
  <1>3. Shape(disk)'
    <2>1. \A f \in Files : disk.mtime[f] \in Nat /\ disk.mtime[f] <= now
      BY DiskNumbers DEF TypeOK, Shape
    <2> QED
      BY <1>1, <2>1 DEF Shape
  <1>4. AtWork' /\ Replaying'
    BY <1>1 DEF AtWork, Replaying, Startup
  <1>5. PurgePath'
    <2>1. purge.time \in Nat
      BY WalConstants DEF TypeOK
    <2> QED
      BY <1>1, <2>1 DEF PurgePath
  <1> QED
    BY <1>2, <1>3, <1>4, <1>5

LEMMA UnlinkedShape ==
    ASSUME Shape(disk), NEW L, L \subseteq disk.linked, disk' = [disk EXCEPT !.linked = L], now' = now
    PROVE  /\ Shape(disk)' /\ disk' \in DiskType /\ disk'.linked = L
           /\ disk'.content = disk.content /\ disk'.made = disk.made
           /\ disk'.current = disk.current /\ disk'.mtime = disk.mtime
           /\ disk'.synced = disk.synced /\ disk'.bytesSinceSync = disk.bytesSinceSync
  <1>1. disk \in DiskType /\ L \in SUBSET Files
    BY DEF Shape, DiskType
  <1>2. /\ disk' \in DiskType /\ disk'.linked = L
        /\ disk'.content = disk.content /\ disk'.made = disk.made
        /\ disk'.current = disk.current /\ disk'.mtime = disk.mtime
        /\ disk'.synced = disk.synced /\ disk'.bytesSinceSync = disk.bytesSinceSync
    BY <1>1 DEF DiskType
  <1> QED
    BY <1>2 DEF Shape

LEMMA EndPurgeUnlinks ==
    ASSUME EndPurge
    PROVE  disk' = [disk EXCEPT !.linked = {f \in disk.linked : ~Purgeable(f)}]
  BY DEF EndPurge

LEMMA PurgeLog == ASSUME LogInv, PurgeStep PROVE LogInv'
  <1> USE DEF LogInv
  <1>1. CASE BeginPurge
    <2>1. /\ writer = "running" /\ rec.stage = "idle"
          /\ purge' = [on |-> TRUE, active |-> disk.current, time |-> now]
          /\ UNCHANGED <<told, chan, disk, lost, writer, rec, now, starts, passes, accepted,
                         replayed>>
      BY <1>1 DEF BeginPurge
    <2>2. TypeOK'
      <3>1. disk.current \in Files \cup {NoFile} /\ now \in 0..MaxTime
        BY DEF TypeOK, DiskType
      <3> QED
        BY <2>1, <3>1 DEF TypeOK
    <2>3. AtWork' /\ Replaying'
      BY <2>1 DEF AtWork, Replaying, Startup
    <2>4. PurgePath'
      <3>1. now \in Nat
        BY WalConstants DEF TypeOK
      <3> QED
        BY <2>1, <3>1 DEF PurgePath
    <2> QED
      BY <2>1, <2>2, <2>3, <2>4, ShapeSame
  <1>2. CASE EndPurge
    <2> DEFINE L == {f \in disk.linked : ~Purgeable(f)}
    <2>1. /\ disk' = [disk EXCEPT !.linked = L] /\ purge' = NoPurge
          /\ UNCHANGED <<told, chan, lost, writer, rec, now, starts, passes, accepted, replayed>>
      BY <1>2, EndPurgeUnlinks DEF EndPurge
    <2>2. L \subseteq disk.linked
      OBVIOUS
    <2> HIDE DEF L
    <2>3. /\ Shape(disk)' /\ disk' \in DiskType
          /\ disk'.content = disk.content /\ disk'.current = disk.current
      BY <2>1, <2>2, UnlinkedShape
    <2>4. TypeOK'
      <3>1. 0 \in 0..MaxTime
        BY WalConstants
      <3> QED
        BY <2>1, <2>3, <3>1 DEF TypeOK, NoPurge
    <2>5. AtWork' /\ PurgePath' /\ Replaying'
      BY <2>1, <2>3 DEF AtWork, PurgePath, Replaying, Startup, NoPurge
    <2> QED
      BY <2>3, <2>4, <2>5
  <1>3. CASE PurgeAll
    <2>1. /\ disk' = [disk EXCEPT !.linked = {}] /\ writer = "running" /\ writer' = "purged"
          /\ UNCHANGED <<told, chan, lost, purge, rec, now, starts, passes, accepted, replayed>>
      BY <1>3 DEF PurgeAll
    <2>2. /\ Shape(disk)' /\ disk' \in DiskType /\ disk'.mtime = disk.mtime
          /\ disk'.content = disk.content /\ disk'.current = disk.current
      BY <2>1, UnlinkedShape
    <2>3. TypeOK'
      BY <2>1, <2>2 DEF TypeOK
    <2>4. AtWork' /\ PurgePath' /\ Replaying'
      BY <2>1, <2>2 DEF AtWork, PurgePath, Replaying, Startup
    <2> QED
      BY <2>2, <2>3, <2>4
  <1> QED
    BY <1>1, <1>2, <1>3 DEF PurgeStep

\* A step of recovery that changes rec, and perhaps the passes or replayed.
LEMMA RecMoves ==
    ASSUME LogInv, writer # "down", ~purge.on,
           UNCHANGED <<told, chan, disk, lost, writer, purge, now, starts, accepted>>,
           passes' \in 0..MaxPasses, replayed' \subseteq Entries, RecType',
           rec'.stage = "idle" => rec' = Idle,
           rec'.stage = "replay" => rec'.file \in Files,
           rec'.skip <= disk.current,
           rec'.stage # "idle" /\ rec'.skip = NoFile => Startup,
           Replaying'
    PROVE  LogInv'
  <1> USE DEF LogInv
  <1>1. TypeOK'
    BY DEF TypeOK, RecType
  <1>2. AtWork' /\ PurgePath'
    BY DEF AtWork, PurgePath, Startup
  <1> QED
    BY <1>1, <1>2, ShapeSame

LEMMA RecoveryRuns ==
    ASSUME LogInv, rec.stage # "idle" PROVE writer # "down" /\ ~purge.on
  BY DEF LogInv, AtWork, Idle

LEMMA RecFields ==
    ASSUME RecType
    PROVE  /\ rec = [stage |-> rec.stage, skip |-> rec.skip, todo |-> rec.todo,
                     file |-> rec.file, rest |-> rec.rest]
           /\ rec.stage \in {"idle", "list", "file", "replay"}
           /\ rec.skip \in Files \cup {NoFile} /\ rec.todo \subseteq Files
           /\ rec.file \in Files \cup {NoFile} /\ rec.rest \in Seq(Entries)
  BY DEF RecType

LEMMA BeginRecoveryLog == ASSUME LogInv, BeginRecovery PROVE LogInv'
  <1>1. /\ writer = "running" /\ rec.stage = "idle" /\ ~purge.on /\ passes < MaxPasses
        /\ passes' = passes + 1 /\ rec' = [Idle EXCEPT !.stage = "list", !.skip = disk.current]
        /\ UNCHANGED <<told, chan, disk, lost, writer, purge, now, starts, accepted, replayed>>
    BY DEF BeginRecovery
  <1>2. disk.current \in Files /\ replayed \subseteq Entries /\ disk.current \in Nat
    BY <1>1, FilesNat DEF LogInv, AtWork, TypeOK
  <1>3. passes' \in 0..MaxPasses
    BY <1>1, WalConstants DEF LogInv, TypeOK
  <1>4. /\ rec'.stage = "list" /\ rec'.skip = disk.current /\ rec'.todo = {}
        /\ rec'.file = NoFile /\ rec'.rest = <<>> /\ RecType'
    <2>1. rec' = [stage |-> "list", skip |-> disk.current, todo |-> {}, file |-> NoFile,
                  rest |-> <<>>]
      BY <1>1 DEF Idle
    <2> QED
      BY <2>1, <1>2 DEF RecType
  <1>5. Replaying' /\ rec'.skip <= disk.current /\ rec'.skip # NoFile
    BY <1>2, <1>4, FilesNat DEF Replaying, NoFile
  <1> QED
    BY <1>1, <1>2, <1>3, <1>4, <1>5, RecMoves

LEMMA findWALFilesLog == ASSUME LogInv, findWALFiles PROVE LogInv'
  <1>1. /\ rec.stage = "list" /\ rec' = [rec EXCEPT !.stage = "file", !.todo = disk.linked]
        /\ UNCHANGED <<told, chan, disk, lost, writer, purge, now, starts, passes, accepted,
                       replayed>>
    BY DEF findWALFiles
  <1>2. RecType /\ disk.linked \subseteq Files /\ passes \in 0..MaxPasses /\ replayed \subseteq Entries
    BY DEF LogInv, TypeOK, RecType, DiskType
  <1>3. RecType' /\ rec'.stage = "file" /\ rec'.skip = rec.skip
    BY <1>1, <1>2 DEF RecType
  <1>4. writer # "down" /\ ~purge.on /\ rec.skip <= disk.current
    BY <1>1, RecoveryRuns DEF LogInv, AtWork
  <1>5. Replaying' /\ (rec'.stage # "idle" /\ rec'.skip = NoFile => Startup)
    BY <1>1, <1>3 DEF Replaying, Startup
  <1> QED
    BY <1>1, <1>2, <1>3, <1>4, <1>5, RecMoves

\* What reading the next file comes to.
LEMMA ReadFileForms ==
    ASSUME RecType, disk \in DiskType, ReadFile
    PROVE  \E f \in rec.todo :
              /\ rec.stage = "file" /\ f \in Files
              /\ \A g \in rec.todo : f <= g
              /\ rec'.skip = rec.skip /\ rec'.todo = rec.todo \ {f} /\ RecType'
              /\ \/ /\ f = rec.skip \/ f \notin disk.linked
                    /\ rec'.stage = "file"
                 \/ /\ f # rec.skip /\ f \in disk.linked
                    /\ rec'.stage = "replay" /\ rec'.file = f
                    /\ rec'.rest \in Readable(disk.content[f])
  <1>1. PICK f \in rec.todo :
           /\ rec.stage = "file" /\ \A g \in rec.todo : f <= g
           /\ IF f = rec.skip \/ f \notin disk.linked
              THEN rec' = [rec EXCEPT !.todo = @ \ {f}]
              ELSE \E s \in Readable(disk.content[f]) :
                      rec' = [[rec EXCEPT !.todo = @ \ {f}] EXCEPT
                                !.stage = "replay", !.file = f, !.rest = s]
    BY DEF ReadFile
  <1>2. f \in Files /\ disk.content[f] \in Seq(Bytes) /\ rec.todo \ {f} \in SUBSET Files
    BY DiskNumbers DEF RecType
  <1>3. CASE f = rec.skip \/ f \notin disk.linked
    <2>1. rec' = [rec EXCEPT !.todo = rec.todo \ {f}]
      BY <1>1, <1>3
    <2>2. rec'.skip = rec.skip /\ rec'.todo = rec.todo \ {f} /\ RecType' /\ rec'.stage = "file"
      BY <1>1, <1>2, <2>1 DEF RecType
    <2> QED
      BY <1>1, <1>2, <1>3, <2>2
  <1>4. CASE ~(f = rec.skip \/ f \notin disk.linked)
    <2>1. PICK s \in Readable(disk.content[f]) :
             rec' = [rec EXCEPT !.todo = rec.todo \ {f}, !.stage = "replay", !.file = f, !.rest = s]
      BY <1>1, <1>4
    <2>2. s \in Seq(Entries)
      BY <1>2, ReadableType
    <2>3. /\ rec'.skip = rec.skip /\ rec'.todo = rec.todo \ {f} /\ RecType'
          /\ rec'.stage = "replay" /\ rec'.file = f /\ rec'.rest = s
      BY <1>2, <2>1, <2>2 DEF RecType
    <2> QED
      BY <1>1, <1>2, <1>4, <2>1, <2>3
  <1> QED
    BY <1>3, <1>4

LEMMA ReadFileLog == ASSUME LogInv, ReadFile PROVE LogInv'
  <1>1. UNCHANGED <<told, chan, disk, lost, writer, purge, now, starts, passes, accepted,
                    replayed>>
    BY DEF ReadFile
  <1>2. /\ RecType /\ disk \in DiskType /\ passes \in 0..MaxPasses /\ replayed \subseteq Entries
        /\ rec.skip <= disk.current
    BY DEF LogInv, TypeOK, RecType, AtWork
  <1>3. PICK f \in rec.todo :
              /\ rec.stage = "file" /\ f \in Files
              /\ rec'.skip = rec.skip /\ RecType'
              /\ \/ rec'.stage = "file"
                 \/ /\ rec'.stage = "replay" /\ rec'.file = f
                    /\ rec'.rest \in Readable(disk.content[f])
    BY <1>2, ReadFileForms
  <1>4. writer # "down" /\ ~purge.on
    BY <1>3, RecoveryRuns
  <1>5. Replaying'
    <2> SUFFICES ASSUME rec'.stage = "replay"
                 PROVE  \E s \in Readable(disk'.content[rec'.file]) :
                            ToSet(s) \subseteq replayed' \cup ToSet(rec'.rest)
      BY DEF Replaying
    <2> QED
      BY <1>1, <1>3
  <1>6. /\ rec'.stage = "idle" => rec' = Idle
        /\ rec'.stage = "replay" => rec'.file \in Files
        /\ rec'.skip <= disk.current
        /\ rec'.stage # "idle" /\ rec'.skip = NoFile => Startup
    BY <1>2, <1>3 DEF Startup
  <1> QED
    BY <1>1, <1>2, <1>3, <1>4, <1>5, <1>6, RecMoves

LEMMA ReplayEntryForms ==
    ASSUME RecType, ReplayEntry
    PROVE  /\ rec.stage = "replay" /\ rec.rest # <<>> /\ Head(rec.rest) \in Entries
           /\ RecType' /\ rec'.stage = "replay" /\ rec'.skip = rec.skip
           /\ rec'.file = rec.file /\ rec'.todo = rec.todo /\ rec'.rest = Tail(rec.rest)
           /\ ToSet(rec.rest) = {Head(rec.rest)} \cup ToSet(rec'.rest)
           /\ replayed' = replayed \cup {Head(rec.rest)}
  <1>1. /\ rec.stage = "replay" /\ rec.rest # <<>> /\ rec' = [rec EXCEPT !.rest = Tail(rec.rest)]
        /\ replayed' = replayed \cup {Head(rec.rest)}
    BY DEF ReplayEntry
  <1>2. rec.rest \in Seq(Entries)
    BY DEF RecType
  <1>3. /\ Head(rec.rest) \in Entries /\ Tail(rec.rest) \in Seq(Entries)
        /\ ToSet(rec.rest) = {Head(rec.rest)} \cup ToSet(Tail(rec.rest))
    BY <1>1, <1>2, HeadAndTail
  <1>4. /\ RecType' /\ rec'.stage = "replay" /\ rec'.skip = rec.skip
        /\ rec'.file = rec.file /\ rec'.todo = rec.todo /\ rec'.rest = Tail(rec.rest)
    BY <1>1, <1>3 DEF RecType
  <1> QED
    BY <1>1, <1>3, <1>4

LEMMA ReplayEntryLog == ASSUME LogInv, ReplayEntry PROVE LogInv'
  <1>1. UNCHANGED <<told, chan, disk, lost, writer, purge, now, starts, passes, accepted>>
    BY DEF ReplayEntry
  <1>2. /\ RecType /\ passes \in 0..MaxPasses /\ replayed \subseteq Entries
        /\ rec.skip <= disk.current
    BY DEF LogInv, TypeOK, RecType, AtWork
  <1>3. /\ rec.stage = "replay" /\ rec.rest # <<>> /\ Head(rec.rest) \in Entries
        /\ RecType' /\ rec'.stage = "replay" /\ rec'.skip = rec.skip
        /\ rec'.file = rec.file
        /\ ToSet(rec.rest) = {Head(rec.rest)} \cup ToSet(rec'.rest)
        /\ replayed' = replayed \cup {Head(rec.rest)}
    BY <1>2, ReplayEntryForms
  <1>4. writer # "down" /\ ~purge.on
    BY <1>3, RecoveryRuns
  <1>5. Replaying'
    BY <1>1, <1>3 DEF LogInv, Replaying
  <1>6. /\ rec'.stage = "idle" => rec' = Idle
        /\ rec'.stage = "replay" => rec'.file \in Files
        /\ rec'.skip <= disk.current
        /\ rec'.stage # "idle" /\ rec'.skip = NoFile => Startup
        /\ replayed' \subseteq Entries
    BY <1>2, <1>3 DEF Startup, LogInv, AtWork
  <1> QED
    BY <1>1, <1>2, <1>3, <1>4, <1>5, <1>6, RecMoves

LEMMA ReplayFailsLog == ASSUME LogInv, ReplayFails PROVE LogInv'
  <1>1. /\ rec.stage = "replay" /\ rec' = [rec EXCEPT !.stage = "file", !.rest = <<>>]
        /\ UNCHANGED <<told, chan, disk, lost, writer, purge, now, starts, passes, accepted,
                       replayed>>
    BY DEF ReplayFails
  <1>2. RecType /\ passes \in 0..MaxPasses /\ replayed \subseteq Entries
    BY DEF LogInv, TypeOK, RecType
  <1>3. RecType' /\ rec'.stage = "file" /\ rec'.skip = rec.skip
    <2>1. <<>> \in Seq(Entries)
      OBVIOUS
    <2> QED
      BY <1>1, <1>2, <2>1 DEF RecType
  <1>4. writer # "down" /\ ~purge.on /\ rec.skip <= disk.current
    BY <1>1, RecoveryRuns DEF LogInv, AtWork
  <1>5. Replaying' /\ (rec'.stage # "idle" /\ rec'.skip = NoFile => Startup)
    BY <1>1, <1>3 DEF Replaying, Startup
  <1> QED
    BY <1>1, <1>2, <1>3, <1>4, <1>5, RecMoves

LEMMA EndRecoveryLog == ASSUME LogInv, EndRecovery PROVE LogInv'
  <1>1. /\ rec.stage = "file" /\ rec' = Idle
        /\ UNCHANGED <<told, chan, disk, lost, writer, purge, now, starts, passes, accepted,
                       replayed>>
    BY DEF EndRecovery
  <1>2. RecType' /\ passes \in 0..MaxPasses /\ replayed \subseteq Entries
    BY <1>1, IdleIsRec DEF LogInv, TypeOK, RecType
  <1>3. writer # "down" /\ ~purge.on /\ 0 <= disk.current
    BY <1>1, RecoveryRuns, DiskNumbers DEF LogInv, TypeOK
  <1>4. /\ Replaying' /\ rec'.stage = "idle" /\ rec'.skip <= disk.current
    BY <1>1, <1>3 DEF Replaying, Idle, NoFile
  <1> QED
    BY <1>1, <1>2, <1>3, <1>4, RecMoves

LEMMA DeleteRecoveredForms ==
    ASSUME Shape(disk), RecType, DeleteRecovered
    PROVE  /\ rec.stage = "replay" /\ rec.rest = <<>>
           /\ RecType' /\ rec'.stage = "file" /\ rec'.skip = rec.skip /\ rec'.todo = rec.todo
           /\ Shape(disk)' /\ disk' \in DiskType /\ disk'.linked = disk.linked \ {rec.file}
           /\ disk'.content = disk.content /\ disk'.made = disk.made
           /\ disk'.current = disk.current /\ disk'.mtime = disk.mtime
           /\ disk'.synced = disk.synced /\ disk'.bytesSinceSync = disk.bytesSinceSync
           /\ UNCHANGED <<told, chan, lost, writer, purge, now, starts, passes, accepted,
                          replayed>>
  <1>1. /\ rec.stage = "replay" /\ rec.rest = <<>>
        /\ disk' = [disk EXCEPT !.linked = disk.linked \ {rec.file}]
        /\ rec' = [rec EXCEPT !.stage = "file"]
        /\ UNCHANGED <<told, chan, lost, writer, purge, now, starts, passes, accepted, replayed>>
    BY DEF DeleteRecovered
  <1>2. disk.linked \ {rec.file} \subseteq disk.linked
    OBVIOUS
  <1>3. /\ Shape(disk)' /\ disk' \in DiskType /\ disk'.linked = disk.linked \ {rec.file}
        /\ disk'.content = disk.content /\ disk'.made = disk.made
        /\ disk'.current = disk.current /\ disk'.mtime = disk.mtime
        /\ disk'.synced = disk.synced /\ disk'.bytesSinceSync = disk.bytesSinceSync
    BY <1>1, <1>2, UnlinkedShape
  <1>4. RecType' /\ rec'.stage = "file" /\ rec'.skip = rec.skip /\ rec'.todo = rec.todo
    BY <1>1 DEF RecType
  <1> QED
    BY <1>1, <1>3, <1>4

LEMMA DeleteRecoveredLog == ASSUME LogInv, DeleteRecovered PROVE LogInv'
  <1> USE DEF LogInv
  <1>1. RecType /\ writer # "down" /\ ~purge.on
    BY RecoveryRuns DEF TypeOK, RecType, DeleteRecovered
  <1>2. /\ rec.stage = "replay" /\ RecType' /\ rec'.stage = "file" /\ rec'.skip = rec.skip
        /\ Shape(disk)' /\ disk' \in DiskType
        /\ disk'.content = disk.content /\ disk'.current = disk.current
        /\ UNCHANGED <<told, chan, lost, writer, purge, now, starts, passes, accepted, replayed>>
    BY <1>1, DeleteRecoveredForms
  <1>3. TypeOK'
    BY <1>2 DEF TypeOK, RecType
  <1>4. AtWork' /\ PurgePath' /\ Replaying'
    BY <1>1, <1>2 DEF AtWork, PurgePath, Replaying, Startup
  <1> QED
    BY <1>2, <1>3, <1>4

LEMMA LogStep == LogInv /\ [Next]_walVars => LogInv'
  <1> SUFFICES ASSUME LogInv, [Next]_walVars PROVE LogInv'
    OBVIOUS
  <1>1. CASE \E e \in Entries : AppendRaw(e)
    BY <1>1, AppendRawLog
  <1>2. CASE WriterStep
    BY <1>2, NewWriterLog, WriteEntryLog, WriterLog, ExitLog DEF WriterStep
  <1>3. CASE PurgeStep
    BY <1>3, PurgeLog
  <1>4. CASE RecoveryStep
    BY <1>4, BeginRecoveryLog, findWALFilesLog, ReadFileLog, ReplayEntryLog, ReplayFailsLog,
       DeleteRecoveredLog, EndRecoveryLog DEF RecoveryStep
  <1>5. CASE Tick
    BY <1>5, TickLog
  <1>6. CASE UNCHANGED walVars
    BY <1>6 DEF walVars, LogInv, TypeOK, Shape, AtWork, PurgePath, Replaying, Startup
  <1> QED
    BY <1>1, <1>2, <1>3, <1>4, <1>5, <1>6 DEF Next

\* LogInv holds in every state of the log by itself, and of the pipeline.
LEMMA LogInvariant == Spec => []LogInv
  <1>1. Init => LogInv
    BY InitLog
  <1>2. LogInv /\ [Next]_walVars => LogInv'
    BY LogStep
  <1> QED
    BY <1>1, <1>2, PTL DEF Spec

\* The variables of the write-ahead log keep their types, for every number of
\* entries, files, starts and passes, and every capacity.
THEOREM LogTypeCorrect == Spec => []TypeOK
  <1>1. LogInv => TypeOK
    BY DEF LogInv
  <1> QED
    BY <1>1, LogInvariant, PTL

LEMMA DeletesReplayed ==
    ASSUME LogInv, DeleteRecovered, rec.skip = NoFile \/ rec.file < rec.skip
    PROVE  \E s \in Readable(disk.content[rec.file]) : ToSet(s) \subseteq replayed
  <1>1. rec.stage = "replay" /\ rec.rest = <<>>
    BY DEF DeleteRecovered
  <1>2. ToSet(rec.rest) = {}
    BY <1>1, EmptyHasNone
  <1> QED
    BY <1>1, <1>2 DEF LogInv, Replaying

\* Recovery removes only what it replayed in full: Replaying carries this from the
\* moment a file is read, over the writer that goes on writing other files, to its removal.
THEOREM DeletedAfterReplayCorrect == Spec => DeletedAfterReplay
  <1>1. LogInv /\ [Next]_walVars =>
           [DeleteRecovered /\ (rec.skip = NoFile \/ rec.file < rec.skip) =>
              \E s \in Readable(disk.content[rec.file]) : ToSet(s) \subseteq replayed]_walVars
    BY DeletesReplayed
  <1> QED
    BY <1>1, LogInvariant, PTL DEF Spec, DeletedAfterReplay

-----------------------------------------------------------------------------
(* The order of the log, taken apart: within the files, from the files to  *)
(* the channel, and within the channel.                                    *)

FilesOrdered(c) ==
    \A f, g \in Files : \A i \in DOMAIN c[f], j \in DOMAIN c[g] :
        (f < g \/ (f = g /\ i < j)) /\ c[f][i] # Torn /\ c[g][j] # Torn
            => AcceptedBefore(c[f][i], c[g][j])

FilesBefore(c, q) ==
    \A f \in Files : \A x \in ToSet(c[f]) \ {Torn}, y \in ToSet(q) : AcceptedBefore(x, y)

QueueOrdered(q) == \A i, j \in DOMAIN q : i < j => AcceptedBefore(q[i], q[j])

FilesKnown(c) == \A f \in Files : ToSet(c[f]) \ {Torn} \subseteq ToSet(accepted)

AcceptedOnce == \A i, j \in DOMAIN accepted : accepted[i] = accepted[j] => i = j

OrderInv ==
    /\ AcceptedOnce
    /\ \A e \in ToSet(accepted) : told[e] = "ok"
    /\ ToSet(chan) \subseteq ToSet(accepted)
    /\ FilesKnown(disk.content) /\ FilesOrdered(disk.content)
    /\ FilesBefore(disk.content, chan) /\ QueueOrdered(chan)

AccountInv ==
    /\ lost \cap (ToSet(chan) \cup Logged) = {}
    /\ \A e \in lost : told[e] = "ok"
    /\ starts = 0 => writer = "down" /\ accepted = <<>> /\ lost = {}
    /\ starts = 1 /\ writer # "down" =>
          ToSet(accepted) = ToSet(chan) \cup Logged \cup lost

LEMMA NotBeforeItself ==
    ASSUME AcceptedOnce, accepted \in Seq(Entries), NEW x PROVE ~AcceptedBefore(x, x)
  <1> SUFFICES ASSUME AcceptedBefore(x, x) PROVE FALSE
    OBVIOUS
  <1>1. PICK i, j \in DOMAIN accepted : i < j /\ accepted[i] = x /\ accepted[j] = x
    BY DEF AcceptedBefore
  <1>2. i = j /\ i \in Nat
    BY <1>1 DEF AcceptedOnce
  <1> QED
    BY <1>1, <1>2

\* An entry of the channel is in no file, and once in the channel.
LEMMA QueuedOnce ==
    ASSUME OrderInv, accepted \in Seq(Entries), chan \in Seq(Entries), chan # <<>>
    PROVE  /\ Head(chan) \notin ToSet(Tail(chan))
           /\ \A f \in Files : Head(chan) \notin ToSet(disk.content[f])
           /\ QueueOrdered(Tail(chan))
           /\ \A y \in ToSet(Tail(chan)) : AcceptedBefore(Head(chan), y)
  <1>1. /\ Len(chan) \in Nat /\ Len(chan) > 0 /\ DOMAIN chan = 1..Len(chan)
        /\ Head(chan) = chan[1] /\ Head(chan) \in Entries
    OBVIOUS
  <1>2. /\ DOMAIN Tail(chan) = 1..(Len(chan) - 1)
        /\ \A i \in 1..(Len(chan) - 1) : Tail(chan)[i] = chan[i + 1]
    BY HeadTailProperties
  <1>3. ASSUME NEW y \in ToSet(Tail(chan)) PROVE AcceptedBefore(Head(chan), y)
    <2>1. PICK i \in 1..(Len(chan) - 1) : y = Tail(chan)[i]
      BY <1>2 DEF ToSet
    <2>2. y = chan[i + 1] /\ i + 1 \in DOMAIN chan /\ 1 \in DOMAIN chan /\ 1 < i + 1
      BY <1>1, <1>2, <2>1
    <2> QED
      BY <1>1, <2>2 DEF OrderInv, QueueOrdered
  <1>4. Head(chan) \notin ToSet(Tail(chan))
    BY <1>3, NotBeforeItself DEF OrderInv
  <1>5. ASSUME NEW f \in Files, Head(chan) \in ToSet(disk.content[f]) PROVE FALSE
    <2>1. Head(chan) \in ToSet(chan)
      BY HeadAndTail
    <2>2. Head(chan) # Torn
      BY <1>1, WalConstants
    <2>3. AcceptedBefore(Head(chan), Head(chan))
      BY <1>5, <2>1, <2>2 DEF OrderInv, FilesBefore
    <2> QED
      BY <2>3, NotBeforeItself DEF OrderInv
  <1>6. QueueOrdered(Tail(chan))
    <2> SUFFICES ASSUME NEW i \in 1..(Len(chan) - 1), NEW j \in 1..(Len(chan) - 1), i < j
                 PROVE  AcceptedBefore(Tail(chan)[i], Tail(chan)[j])
      BY <1>2 DEF QueueOrdered
    <2>1. i + 1 \in DOMAIN chan /\ j + 1 \in DOMAIN chan /\ i + 1 < j + 1
      BY <1>1
    <2> QED
      BY <1>2, <2>1 DEF OrderInv, QueueOrdered
  <1> QED
    BY <1>3, <1>4, <1>5, <1>6

\* The disks that may stand before a queue q.
OrderedBefore(q) ==
    {d \in DiskType : /\ InUse(d) /\ FilesKnown(d.content) /\ FilesOrdered(d.content)
                      /\ FilesBefore(d.content, q)}

\* x comes to the end of the last file that has any entries.
LEMMA PutOrdered ==
    ASSUME NEW q, NEW p, NEW d \in OrderedBefore(q), InUse(d), NEW x \in Bytes,
           NEW r, InUse(r),
           r.content[d.current] = Append(d.content[d.current], x),
           \A f \in Files : f # d.current => r.content[f] = d.content[f],
           ToSet(p) \subseteq ToSet(q),
           x # Torn => /\ x \in ToSet(accepted) /\ x \in ToSet(q)
                       /\ \A y \in ToSet(p) : AcceptedBefore(x, y)
    PROVE  r \in OrderedBefore(p)
  <1> DEFINE c == d.current
             n == Len(d.content[c])
  <1>1. /\ d \in DiskType /\ r \in DiskType /\ c \in Files /\ c \in Nat
        /\ d.content[c] \in Seq(Bytes) /\ n \in Nat
        /\ \A f \in Files : f > c => d.content[f] = <<>>
        /\ \A f \in Files : d.content[f] \in Seq(Bytes)
    BY DiskNumbers, FilesNat DEF InUse, Shape
  <1>2. /\ r.content[c][n + 1] = x
        /\ \A i \in DOMAIN d.content[c] : r.content[c][i] = d.content[c][i]
        /\ DOMAIN r.content[c] = DOMAIN d.content[c] \cup {n + 1}
        /\ ToSet(r.content[c]) = ToSet(d.content[c]) \cup {x}
    BY <1>1, AppendedSet
  <1>3. FilesKnown(d.content) /\ FilesOrdered(d.content) /\ FilesBefore(d.content, q)
    BY DEF OrderedBefore
  <1>4. \A f \in Files : f # c => r.content[f] = d.content[f]
    OBVIOUS
  <1> HIDE DEF c, n
  <1>5. FilesKnown(r.content)
    BY <1>1, <1>2, <1>3, <1>4 DEF FilesKnown
  <1>6. FilesBefore(r.content, p)
    <2> SUFFICES ASSUME NEW f \in Files, NEW z \in ToSet(r.content[f]) \ {Torn}, NEW y \in ToSet(p)
                 PROVE  AcceptedBefore(z, y)
      BY DEF FilesBefore
    <2>1. CASE z \in ToSet(d.content[f])
      BY <2>1, <1>3 DEF FilesBefore
    <2>2. CASE z \notin ToSet(d.content[f])
      BY <2>2, <1>2, <1>4
    <2> QED
      BY <2>1, <2>2
  <1>7. FilesOrdered(r.content)
    <2> SUFFICES ASSUME NEW f \in Files, NEW g \in Files,
                        NEW i \in DOMAIN r.content[f], NEW j \in DOMAIN r.content[g],
                        f < g \/ (f = g /\ i < j),
                        r.content[f][i] # Torn, r.content[g][j] # Torn
                 PROVE  AcceptedBefore(r.content[f][i], r.content[g][j])
      BY DEF FilesOrdered
    <2>1. f \in Nat /\ g \in Nat
      BY FilesNat
    <2>2. CASE g = c /\ j = n + 1
      <3>1. r.content[g][j] = x /\ x \in ToSet(q)
        BY <2>2, <1>2
      <3>2. i \in DOMAIN d.content[f] /\ r.content[f][i] = d.content[f][i]
        <4>1. CASE f = c
          <5>1. i < n + 1 /\ i # n + 1
            BY <2>2, <4>1, <1>1, <1>2
          <5> QED
            BY <4>1, <5>1, <1>2
        <4>2. CASE f # c
          BY <4>2, <1>4
        <4> QED
          BY <4>1, <4>2
      <3>3. d.content[f][i] \in ToSet(d.content[f]) \ {Torn}
        BY <3>2 DEF ToSet
      <3> QED
        BY <3>1, <3>2, <3>3, <1>3 DEF FilesBefore
    <2>3. CASE ~(g = c /\ j = n + 1)
      <3>1. j \in DOMAIN d.content[g] /\ r.content[g][j] = d.content[g][j]
        BY <2>3, <1>2, <1>4
      <3>2. ~(f = c /\ i = n + 1)
        <4> SUFFICES ASSUME f = c, i = n + 1 PROVE FALSE
          OBVIOUS
        <4>1. CASE g = c
          <5>1. j \in 1..n
            BY <3>1, <4>1, <1>1 DEF n
          <5> QED
            BY <5>1, <4>1, <2>1, <1>1
        <4>2. CASE g # c
          <5>1. g > c /\ d.content[g] = <<>>
            BY <4>2, <2>1, <1>1
          <5> QED
            BY <5>1, <3>1
        <4> QED
          BY <4>1, <4>2
      <3>3. i \in DOMAIN d.content[f] /\ r.content[f][i] = d.content[f][i]
        BY <3>2, <1>2, <1>4
      <3> QED
        BY <3>1, <3>3, <1>3 DEF FilesOrdered
    <2> QED
      BY <2>2, <2>3
  <1> QED
    BY <1>1, <1>5, <1>6, <1>7 DEF OrderedBefore

LEMMA OrderedClosed == ASSUME NEW q, now \in Nat PROVE Closed(OrderedBefore(q))
  <1> SUFFICES ASSUME NEW d \in OrderedBefore(q)
               PROVE  /\ Syncs(d) \subseteq OrderedBefore(q)
                      /\ WriteFailed(d) \subseteq OrderedBefore(q)
                      /\ d.made < MaxFiles =>
                            Rotated(d) \cup RotationFailed(d) \subseteq OrderedBefore(q)
    BY DEF Closed
  <1>1. InUse(d)
    BY DEF OrderedBefore
  <1>2. ASSUME NEW r, InUse(r), r.content = d.content PROVE r \in OrderedBefore(q)
    BY <1>2 DEF OrderedBefore, InUse, Shape
  <1>3. Syncs(d) \subseteq OrderedBefore(q)
    BY <1>1, <1>2, SyncedType
  <1>4. WriteFailed(d) \subseteq OrderedBefore(q)
    <2>1. Torn \in Bytes
      BY DEF Bytes
    <2>2. /\ InUse(Put(d, Torn))
          /\ Put(d, Torn).content[d.current] = Append(d.content[d.current], Torn)
          /\ \A f \in Files : f # d.current => Put(d, Torn).content[f] = d.content[f]
      BY <1>1, <2>1, PutType
    <2>3. Put(d, Torn) \in OrderedBefore(q)
      BY <1>1, <2>1, <2>2, PutOrdered
    <2> QED
      BY <2>3 DEF WriteFailed
  <1>5. ASSUME d.made < MaxFiles
        PROVE  Rotated(d) \cup RotationFailed(d) \subseteq OrderedBefore(q)
    <2>1. \A r \in Rotated(d) : InUse(r) /\ r.content = d.content
      BY <1>1, <1>5, RotatedType
    <2>2. InUse(NewFile(d)) /\ NewFile(d).content = d.content
      BY <1>1, <1>5, NewFileType DEF InUse
    <2> QED
      BY <1>2, <2>1, <2>2 DEF RotationFailed
  <1> QED
    BY <1>3, <1>4, <1>5

LEMMA WriteEntryOrder ==
    ASSUME LogInv, OrderInv, WriteEntry
    PROVE  OrderInv'
  <1> DEFINE S == OrderedBefore(chan)
             T == OrderedBefore(Tail(chan))
  <1>1. /\ chan \in Seq(Entries) /\ accepted \in Seq(Entries) /\ now \in Nat /\ InUse(disk)
        /\ chan # <<>>
    BY WalConstants DEF LogInv, TypeOK, AtWork, WriteEntry, Writing, InUse
  <1>2. /\ Head(chan) \in Entries /\ Tail(chan) \in Seq(Entries)
        /\ ToSet(chan) = {Head(chan)} \cup ToSet(Tail(chan))
    BY <1>1, HeadAndTail
  <1>3. /\ QueueOrdered(Tail(chan))
        /\ \A y \in ToSet(Tail(chan)) : AcceptedBefore(Head(chan), y)
    BY <1>1, QueuedOnce
  <1>4. Closed(S) /\ Closed(T)
    BY <1>1, OrderedClosed
  <1>5. disk \in S
    BY <1>1 DEF OrderedBefore, OrderInv, InUse, Shape
  <1>6. ASSUME NEW d \in S, InUse(d) PROVE Written(d, Head(chan)) \in T
    <2>1. /\ InUse(Written(d, Head(chan)))
          /\ Written(d, Head(chan)).content[d.current] = Append(d.content[d.current], Head(chan))
          /\ \A f \in Files : f # d.current => Written(d, Head(chan)).content[f] = d.content[f]
      BY <1>6, <1>1, <1>2, WrittenType
    <2>2. Head(chan) \in Bytes /\ Head(chan) \in ToSet(chan) /\ Head(chan) \in ToSet(accepted)
      BY <1>2 DEF Bytes, OrderInv
    <2>3. ToSet(Tail(chan)) \subseteq ToSet(chan)
      BY <1>2
    <2> QED
      BY <1>3, <1>6, <2>1, <2>2, <2>3, PutOrdered
  <1>7. S \subseteq T
    BY <1>2 DEF OrderedBefore, FilesBefore
  <1> HIDE DEF S, T
  <1>8. /\ chan' = Tail(chan)
        /\ \/ disk' \in T /\ lost' = lost
           \/ disk' \in S /\ lost' = lost \cup {Head(chan)}
    BY <1>1, <1>4, <1>5, <1>6, WriteEntryStep
  <1>9. disk' \in T /\ told' = told /\ accepted' = accepted
    BY <1>7, <1>8 DEF WriteEntry
  <1>10. /\ FilesKnown(disk'.content) /\ FilesOrdered(disk'.content)
         /\ FilesBefore(disk'.content, Tail(chan))
    BY <1>9 DEF T, OrderedBefore
  <1>11. ToSet(Tail(chan)) \subseteq ToSet(accepted)
    BY <1>2 DEF OrderInv
  <1> QED
    BY <1>3, <1>8, <1>9, <1>10, <1>11
       DEF OrderInv, AcceptedOnce, FilesKnown, FilesOrdered, FilesBefore, QueueOrdered, AcceptedBefore

\* Steps of the log that write nothing and take nothing from the channel.
LEMMA QuietStep ==
    ASSUME LogInv, Next, \A e \in Entries : ~AppendRaw(e), ~WriteEntry, ~Exit
    PROVE  /\ disk'.content = disk.content
           /\ UNCHANGED <<told, chan, lost, accepted>>
           /\ \/ NewWriter
              \/ starts' = starts /\ (writer' = "down" <=> writer = "down")
  <1>1. CASE NewWriter
    <2> DEFINE d == [disk EXCEPT !.bytesSinceSync = 0]
    <2>1. disk' \in Rotated(d) /\ UNCHANGED <<told, chan, lost, accepted>>
          /\ disk.made < MaxFiles
      BY <1>1 DEF NewWriter
    <2>2. /\ Shape(d) /\ d.bytesSinceSync = 0 /\ d.made = disk.made /\ d.content = disk.content
          /\ now \in Nat
      <3>1. disk \in DiskType /\ now \in Nat /\ 0 \in Nat /\ Shape(disk)
        BY WalConstants DEF LogInv, Shape, TypeOK
      <3>2. /\ d \in DiskType /\ d.content = disk.content /\ d.made = disk.made
            /\ d.linked = disk.linked /\ d.current = disk.current /\ d.mtime = disk.mtime
            /\ d.bytesSinceSync = 0
        BY <3>1 DEF DiskType
      <3> HIDE DEF d
      <3> QED
        BY <3>1, <3>2 DEF Shape
    <2> HIDE DEF d
    <2>3. disk'.content = d.content
      BY <2>1, <2>2, RotatedType
    <2> QED
      BY <1>1, <2>1, <2>2, <2>3
  <1>2. CASE SyncTick \/ CloseWriter \/ DrainEnds
    <2>1. InUse(disk)
      BY <1>2 DEF LogInv, AtWork, InUse, SyncTick, CloseWriter, DrainEnds
    <2>2. disk' \in Syncs(disk) \cup {disk}
      BY <1>2 DEF SyncTick, CloseWriter, DrainEnds
    <2>3. disk'.content = disk.content
      BY <2>1, <2>2, SyncedType
    <2> QED
      BY <1>2, <2>3 DEF SyncTick, CloseWriter, DrainEnds
  <1>3. CASE PurgeStep
    <2>1. CASE BeginPurge
      BY <2>1 DEF BeginPurge
    <2>2. CASE EndPurge
      <3>1. disk' = [disk EXCEPT !.linked = {f \in disk.linked : ~Purgeable(f)}] /\ now' = now
        BY <2>2, EndPurgeUnlinks DEF EndPurge
      <3>2. {f \in disk.linked : ~Purgeable(f)} \subseteq disk.linked /\ Shape(disk)
        BY DEF LogInv
      <3>3. disk'.content = disk.content
        BY <3>1, <3>2, UnlinkedShape
      <3> QED
        BY <2>2, <3>3 DEF EndPurge
    <2>3. CASE PurgeAll
      <3>1. disk' = [disk EXCEPT !.linked = {}] /\ now' = now /\ Shape(disk)
        BY <2>3 DEF PurgeAll, LogInv
      <3>2. disk'.content = disk.content
        BY <3>1, UnlinkedShape
      <3> QED
        BY <2>3, <3>2 DEF PurgeAll
    <2> QED
      BY <1>3, <2>1, <2>2, <2>3 DEF PurgeStep
  <1>4. CASE RecoveryStep
    <2>1. CASE DeleteRecovered
      <3>1. Shape(disk) /\ RecType
        BY DEF LogInv, TypeOK, RecType
      <3>2. disk'.content = disk.content
        BY <2>1, <3>1, DeleteRecoveredForms
      <3> QED
        BY <2>1, <3>2 DEF DeleteRecovered
    <2>2. CASE BeginRecovery \/ findWALFiles \/ ReadFile \/ ReplayEntry \/ ReplayFails \/ EndRecovery
      BY <2>2 DEF BeginRecovery, findWALFiles, ReadFile, ReplayEntry, ReplayFails, EndRecovery
    <2> QED
      BY <1>4, <2>1, <2>2 DEF RecoveryStep
  <1>5. CASE Tick
    BY <1>5 DEF Tick
  <1> QED
    BY <1>1, <1>2, <1>3, <1>4, <1>5 DEF Next, WriterStep

LEMMA AppendRawOrder == ASSUME LogInv, OrderInv, NEW e \in Entries, AppendRaw(e) PROVE OrderInv'
  <1>1. told[e] = "none" /\ disk' = disk
    BY DEF AppendRaw
  <1>2. /\ chan \in Seq(Entries) /\ accepted \in Seq(Entries)
        /\ told \in [Entries -> {"none", "ok", "dropped"}]
    BY DEF LogInv, TypeOK
  <1>3. CASE HasRoom
    <2>1. /\ chan' = Append(chan, e) /\ told' = [told EXCEPT ![e] = "ok"]
          /\ accepted' = Append(accepted, e)
      BY <1>3 DEF AppendRaw
    <2> DEFINE n == Len(accepted)
               m == Len(chan)
    <2>2. /\ n \in Nat /\ DOMAIN accepted = 1..n /\ DOMAIN accepted' = DOMAIN accepted \cup {n + 1}
          /\ accepted'[n + 1] = e /\ \A i \in DOMAIN accepted : accepted'[i] = accepted[i]
          /\ ToSet(accepted') = ToSet(accepted) \cup {e}
      BY <1>2, <2>1, AppendedSet
    <2>3. /\ m \in Nat /\ DOMAIN chan = 1..m /\ DOMAIN chan' = DOMAIN chan \cup {m + 1}
          /\ chan'[m + 1] = e /\ \A i \in DOMAIN chan : chan'[i] = chan[i]
          /\ ToSet(chan') = ToSet(chan) \cup {e}
      BY <1>2, <2>1, AppendedSet
    <2> HIDE DEF n, m
    <2>4. e \notin ToSet(accepted)
      BY <1>1 DEF OrderInv
    <2>5. AcceptedOnce'
      <3> SUFFICES ASSUME NEW i \in DOMAIN accepted', NEW j \in DOMAIN accepted',
                          accepted'[i] = accepted'[j]
                   PROVE  i = j
        BY DEF AcceptedOnce
      <3>1. \A k \in DOMAIN accepted : accepted[k] # e
        BY <2>4 DEF ToSet
      <3> QED
        BY <2>2, <3>1 DEF OrderInv, AcceptedOnce
    <2>6. \A x, y : AcceptedBefore(x, y) => AcceptedBefore(x, y)'
      <3> SUFFICES ASSUME NEW x, NEW y, AcceptedBefore(x, y) PROVE AcceptedBefore(x, y)'
        OBVIOUS
      <3>1. PICK i, j \in DOMAIN accepted : i < j /\ accepted[i] = x /\ accepted[j] = y
        BY DEF AcceptedBefore
      <3>2. i \in DOMAIN accepted' /\ j \in DOMAIN accepted' /\ accepted'[i] = x /\ accepted'[j] = y
        BY <2>2, <3>1
      <3> QED
        BY <3>1, <3>2 DEF AcceptedBefore
    <2>7. \A x \in ToSet(accepted) : AcceptedBefore(x, e)'
      <3> SUFFICES ASSUME NEW x \in ToSet(accepted) PROVE AcceptedBefore(x, e)'
        OBVIOUS
      <3>1. PICK i \in DOMAIN accepted : accepted[i] = x
        BY DEF ToSet
      <3>2. /\ i \in DOMAIN accepted' /\ n + 1 \in DOMAIN accepted' /\ i < n + 1
            /\ accepted'[i] = x /\ accepted'[n + 1] = e
        BY <2>2, <3>1
      <3> QED
        BY <3>2 DEF AcceptedBefore
    <2>8. \A x \in ToSet(accepted') : told'[x] = "ok"
      <3>1. ToSet(accepted) \subseteq Entries
        BY <1>2, SetIn
      <3> QED
        BY <1>2, <2>1, <2>2, <3>1 DEF OrderInv
    <2>9. ToSet(chan') \subseteq ToSet(accepted')
      BY <2>2, <2>3 DEF OrderInv
    <2>10. FilesKnown(disk.content)' /\ FilesOrdered(disk.content)'
      BY <1>1, <2>2, <2>6 DEF OrderInv, FilesKnown, FilesOrdered
    <2>11. FilesBefore(disk.content, chan)'
      BY <1>1, <2>3, <2>6, <2>7 DEF OrderInv, FilesKnown, FilesBefore
    <2>12. QueueOrdered(chan)'
      <3> SUFFICES ASSUME NEW i \in DOMAIN chan', NEW j \in DOMAIN chan', i < j
                   PROVE  AcceptedBefore(chan[i], chan[j])'
        BY DEF QueueOrdered
      <3>1. i \in DOMAIN chan
        BY <2>3
      <3>2. CASE j = m + 1
        <4>1. chan[i] \in ToSet(accepted)
          BY <3>1 DEF OrderInv, ToSet
        <4> QED
          BY <2>3, <2>7, <3>1, <3>2, <4>1
      <3>3. CASE j # m + 1
        BY <2>3, <2>6, <3>1, <3>3 DEF OrderInv, QueueOrdered
      <3> QED
        BY <3>2, <3>3
    <2> QED
      BY <2>5, <2>8, <2>9, <2>10, <2>11, <2>12 DEF OrderInv
  <1>4. CASE ~HasRoom
    <2>1. told' = [told EXCEPT ![e] = "dropped"] /\ chan' = chan /\ accepted' = accepted
      BY <1>4 DEF AppendRaw
    <2>2. \A x \in ToSet(accepted) : told'[x] = "ok"
      BY <1>1, <1>2, <2>1, SetIn DEF OrderInv
    <2> QED
      BY <1>1, <2>1, <2>2 DEF OrderInv, AcceptedOnce, FilesKnown, FilesOrdered, FilesBefore,
                              QueueOrdered, AcceptedBefore
  <1> QED
    BY <1>3, <1>4

LEMMA OrderStep == LogInv /\ OrderInv /\ [Next]_walVars => OrderInv'
  <1> SUFFICES ASSUME LogInv, OrderInv, [Next]_walVars PROVE OrderInv'
    OBVIOUS
  <1>1. CASE \E e \in Entries : AppendRaw(e)
    BY <1>1, AppendRawOrder
  <1>2. CASE WriteEntry
    BY <1>2, WriteEntryOrder
  <1>3. CASE Exit
    <2>1. chan' = <<>> /\ UNCHANGED <<told, disk, accepted>>
      BY <1>3 DEF Exit
    <2>2. ToSet(chan') = {}
      BY <2>1, EmptyHasNone
    <2>3. FilesKnown(disk.content)' /\ FilesOrdered(disk.content)' /\ AcceptedOnce'
          /\ \A e \in ToSet(accepted') : told'[e] = "ok"
      BY <2>1 DEF OrderInv, FilesKnown, FilesOrdered, AcceptedBefore, AcceptedOnce
    <2>4. FilesBefore(disk.content, chan)' /\ QueueOrdered(chan)'
      BY <2>1, <2>2 DEF FilesBefore, QueueOrdered
    <2> QED
      BY <2>2, <2>3, <2>4 DEF OrderInv
  <1>4. CASE Next /\ ~WriteEntry /\ ~Exit /\ \A e \in Entries : ~AppendRaw(e)
    <2>1. disk'.content = disk.content /\ UNCHANGED <<told, chan, accepted>>
      BY <1>4, QuietStep
    <2> QED
      BY <2>1 DEF OrderInv, AcceptedOnce, FilesKnown, FilesOrdered, FilesBefore,
                  QueueOrdered, AcceptedBefore
  <1>5. CASE UNCHANGED walVars
    BY <1>5 DEF walVars, OrderInv, AcceptedOnce, FilesKnown, FilesOrdered, FilesBefore,
                QueueOrdered, AcceptedBefore
  <1> QED
    BY <1>1, <1>2, <1>3, <1>4, <1>5

LEMMA InitOrder == Init => OrderInv
  <1> SUFFICES ASSUME Init PROVE OrderInv
    OBVIOUS
  <1>1. chan = <<>> /\ accepted = <<>> /\ \A f \in Files : disk.content[f] = <<>>
    BY DEF Init
  <1>2. ToSet(<<>>) = {} /\ DOMAIN <<>> = {}
    BY EmptyHasNone
  <1> QED
    BY <1>1, <1>2 DEF OrderInv, AcceptedOnce, FilesKnown, FilesOrdered, FilesBefore, QueueOrdered

-----------------------------------------------------------------------------
(* What became of the entries.                                             *)

LoggedIn(c) == (UNION {ToSet(c[f]) : f \in Files}) \ {Torn}

LEMMA LoggedIsIn == Logged = LoggedIn(disk.content)
  BY DEF Logged, LoggedIn

LEMMA InLogged ==
    ASSUME NEW c, NEW y
    PROVE  y \in LoggedIn(c) <=> y # Torn /\ \E f \in Files : y \in ToSet(c[f])
  <1> DEFINE G == {ToSet(c[f]) : f \in Files}
  <1>1. y \in UNION G <=> \E s \in G : y \in s
    OBVIOUS
  <1>2. (\E s \in G : y \in s) <=> \E f \in Files : y \in ToSet(c[f])
    OBVIOUS
  <1>3. LoggedIn(c) = (UNION G) \ {Torn}
    BY DEF LoggedIn
  <1> HIDE DEF G
  <1>4. y \in LoggedIn(c) <=> y # Torn /\ y \in UNION G
    BY <1>3
  <1> QED
    BY <1>1, <1>2, <1>4

WithLogged(X) == {d \in DiskType : InUse(d) /\ LoggedIn(d.content) = X}

LEMMA PutLogged ==
    ASSUME NEW d, InUse(d), NEW x \in Bytes, NEW r, InUse(r),
           r.content[d.current] = Append(d.content[d.current], x),
           \A f \in Files : f # d.current => r.content[f] = d.content[f]
    PROVE  LoggedIn(r.content) = LoggedIn(d.content) \cup ({x} \ {Torn})
  <1>1. d.current \in Files /\ d.content[d.current] \in Seq(Bytes)
    BY DiskNumbers DEF InUse, Shape
  <1>2. ToSet(r.content[d.current]) = ToSet(d.content[d.current]) \cup {x}
    BY <1>1, AppendedSet
  <1>3. ASSUME NEW y \in LoggedIn(r.content) PROVE y \in LoggedIn(d.content) \cup ({x} \ {Torn})
    <2>1. PICK f \in Files : y \in ToSet(r.content[f]) /\ y # Torn
      BY InLogged
    <2>2. CASE y \in ToSet(d.content[f])
      BY <2>1, <2>2, InLogged
    <2>3. CASE y \notin ToSet(d.content[f])
      BY <2>1, <2>3, <1>2
    <2> QED
      BY <2>2, <2>3
  <1>4. ASSUME NEW y \in LoggedIn(d.content) PROVE y \in LoggedIn(r.content)
    <2>1. PICK f \in Files : y \in ToSet(d.content[f]) /\ y # Torn
      BY InLogged
    <2>2. y \in ToSet(r.content[f])
      BY <2>1, <1>2
    <2> QED
      BY <2>1, <2>2, InLogged
  <1>5. x # Torn => x \in LoggedIn(r.content)
    BY <1>1, <1>2, InLogged
  <1> QED
    BY <1>3, <1>4, <1>5

LEMMA LoggedClosed == ASSUME NEW X, now \in Nat PROVE Closed(WithLogged(X))
  <1> SUFFICES ASSUME NEW d \in WithLogged(X)
               PROVE  /\ Syncs(d) \subseteq WithLogged(X)
                      /\ WriteFailed(d) \subseteq WithLogged(X)
                      /\ d.made < MaxFiles =>
                            Rotated(d) \cup RotationFailed(d) \subseteq WithLogged(X)
    BY DEF Closed
  <1>1. InUse(d)
    BY DEF WithLogged
  <1>2. ASSUME NEW r, InUse(r), r.content = d.content PROVE r \in WithLogged(X)
    BY <1>2 DEF WithLogged, InUse, Shape
  <1>3. Syncs(d) \subseteq WithLogged(X)
    BY <1>1, <1>2, SyncedType
  <1>4. WriteFailed(d) \subseteq WithLogged(X)
    <2>1. Torn \in Bytes
      BY DEF Bytes
    <2>2. /\ InUse(Put(d, Torn))
          /\ Put(d, Torn).content[d.current] = Append(d.content[d.current], Torn)
          /\ \A f \in Files : f # d.current => Put(d, Torn).content[f] = d.content[f]
      BY <1>1, <2>1, PutType
    <2>3. LoggedIn(Put(d, Torn).content) = LoggedIn(d.content)
      <3>1. LoggedIn(Put(d, Torn).content) = LoggedIn(d.content) \cup ({Torn} \ {Torn})
        BY <1>1, <2>1, <2>2, PutLogged
      <3> QED
        BY <3>1
    <2>4. Put(d, Torn) \in WithLogged(X)
      BY <2>2, <2>3 DEF WithLogged, InUse, Shape
    <2> QED
      BY <2>4 DEF WriteFailed
  <1>5. ASSUME d.made < MaxFiles
        PROVE  Rotated(d) \cup RotationFailed(d) \subseteq WithLogged(X)
    <2>1. \A r \in Rotated(d) : InUse(r) /\ r.content = d.content
      BY <1>1, <1>5, RotatedType
    <2>2. InUse(NewFile(d)) /\ NewFile(d).content = d.content
      BY <1>1, <1>5, NewFileType DEF InUse
    <2> QED
      BY <1>2, <2>1, <2>2 DEF RotationFailed
  <1> QED
    BY <1>3, <1>4, <1>5

LEMMA WriteEntryAccount ==
    ASSUME LogInv, OrderInv, AccountInv, WriteEntry
    PROVE  AccountInv'
  <1> DEFINE e == Head(chan)
             S == WithLogged(Logged)
             T == WithLogged(Logged \cup {e})
  <1>1. /\ chan \in Seq(Entries) /\ accepted \in Seq(Entries) /\ now \in Nat /\ InUse(disk)
        /\ chan # <<>>
    BY WalConstants DEF LogInv, TypeOK, AtWork, WriteEntry, Writing, InUse
  <1>2. /\ e \in Entries /\ ToSet(chan) = {e} \cup ToSet(Tail(chan))
        /\ e \notin ToSet(Tail(chan)) /\ e # Torn /\ \A f \in Files : e \notin ToSet(disk.content[f])
    BY <1>1, HeadAndTail, QueuedOnce, WalConstants
  <1>3. e \notin Logged
    BY <1>2 DEF Logged
  <1>4. Closed(S) /\ Closed(T)
    BY <1>1, LoggedClosed
  <1>5. disk \in S
    BY <1>1, LoggedIsIn DEF WithLogged, InUse, Shape
  <1>6. ASSUME NEW d \in S, InUse(d) PROVE Written(d, e) \in T
    <2>1. /\ InUse(Written(d, e))
          /\ Written(d, e).content[d.current] = Append(d.content[d.current], e)
          /\ \A f \in Files : f # d.current => Written(d, e).content[f] = d.content[f]
      BY <1>6, <1>1, <1>2, WrittenType
    <2>2. e \in Bytes
      BY <1>2 DEF Bytes
    <2>3. LoggedIn(Written(d, e).content) = LoggedIn(d.content) \cup ({e} \ {Torn})
      BY <1>6, <2>1, <2>2, PutLogged
    <2> QED
      BY <1>2, <2>1, <2>3 DEF WithLogged, InUse, Shape
  <1> HIDE DEF S, T
  <1>7. /\ chan' = Tail(chan)
        /\ \/ disk' \in T /\ lost' = lost
           \/ disk' \in S /\ lost' = lost \cup {e}
    BY <1>1, <1>4, <1>5, <1>6, WriteEntryStep
  <1>8. UNCHANGED <<told, writer, starts, accepted>> /\ writer # "down"
    BY DEF WriteEntry, Writing
  <1>9. \/ Logged' = Logged \cup {e} /\ lost' = lost
        \/ Logged' = Logged /\ lost' = lost \cup {e}
    <2>1. Logged' = LoggedIn(disk'.content)
      BY DEF Logged, LoggedIn
    <2> QED
      BY <1>7, <2>1 DEF S, T, WithLogged
  <1>10. told[e] = "ok"
    BY <1>2 DEF OrderInv
  <1> HIDE DEF e
  <1> QED
    BY <1>2, <1>3, <1>7, <1>8, <1>9, <1>10 DEF AccountInv

LEMMA AccountStep == LogInv /\ OrderInv /\ AccountInv /\ [Next]_walVars => AccountInv'
  <1> SUFFICES ASSUME LogInv, OrderInv, AccountInv, [Next]_walVars PROVE AccountInv'
    OBVIOUS
  <1>1. ASSUME NEW e \in Entries, AppendRaw(e) PROVE AccountInv'
    <2>1. told[e] = "none" /\ UNCHANGED <<disk, lost, writer, starts>> /\ writer # "down"
      BY <1>1 DEF AppendRaw, Serving
    <2>2. /\ chan \in Seq(Entries) /\ accepted \in Seq(Entries) /\ lost \subseteq Entries
          /\ told \in [Entries -> {"none", "ok", "dropped"}]
      BY DEF LogInv, TypeOK
    <2>3. e \notin lost /\ Logged' = Logged
      BY <2>1 DEF AccountInv, Logged
    <2>4. CASE HasRoom
      <3>1. /\ chan' = Append(chan, e) /\ told' = [told EXCEPT ![e] = "ok"]
            /\ accepted' = Append(accepted, e)
        BY <1>1, <2>4 DEF AppendRaw
      <3>2. ToSet(chan') = ToSet(chan) \cup {e} /\ ToSet(accepted') = ToSet(accepted) \cup {e}
        BY <2>2, <3>1, AppendedSet
      <3>3. \A x \in lost' : told'[x] = "ok"
        BY <2>1, <2>2, <3>1 DEF AccountInv
      <3> QED
        BY <2>1, <2>3, <3>2, <3>3 DEF AccountInv
    <2>5. CASE ~HasRoom
      <3>1. chan' = chan /\ accepted' = accepted /\ told' = [told EXCEPT ![e] = "dropped"]
        BY <1>1, <2>5 DEF AppendRaw
      <3>2. \A x \in lost' : told'[x] = "ok"
        BY <2>1, <2>2, <2>3, <3>1 DEF AccountInv
      <3> QED
        BY <2>1, <2>3, <3>1, <3>2 DEF AccountInv
    <2> QED
      BY <2>4, <2>5
  <1>2. CASE WriteEntry
    BY <1>2, WriteEntryAccount
  <1>3. CASE Exit
    <2>1. chan' = <<>> /\ writer' = "down" /\ UNCHANGED <<told, disk, lost, starts, accepted>>
          /\ writer # "down"
      BY <1>3 DEF Exit
    <2>2. ToSet(chan') = {} /\ Logged' = Logged
      BY <2>1, EmptyHasNone DEF Logged
    <2> QED
      BY <2>1, <2>2 DEF AccountInv
  <1>4. CASE Next /\ ~WriteEntry /\ ~Exit /\ \A e \in Entries : ~AppendRaw(e)
    <2>1. /\ disk'.content = disk.content /\ UNCHANGED <<told, chan, lost, accepted>>
          /\ \/ NewWriter
             \/ starts' = starts /\ (writer' = "down" <=> writer = "down")
      BY <1>4, QuietStep
    <2>2. Logged' = Logged
      BY <2>1 DEF Logged
    <2>3. CASE NewWriter
      <3>1. starts' = starts + 1 /\ starts \in Nat
        BY <2>3, WalConstants DEF NewWriter, LogInv, TypeOK
      <3>2. CASE starts = 0
        <4>1. ToSet(accepted) = {}
          BY <3>2, EmptyHasNone DEF AccountInv
        <4>2. ToSet(chan) = {} /\ lost = {}
          BY <3>2, <4>1 DEF AccountInv, OrderInv
        <4>3. Logged = {}
          BY <4>1, LoggedIsIn, InLogged DEF OrderInv, FilesKnown
        <4> QED
          BY <2>1, <2>2, <3>1, <3>2, <4>1, <4>2, <4>3 DEF AccountInv
      <3>3. CASE starts # 0
        <4>1. starts' # 0 /\ starts' # 1
          BY <3>1, <3>3
        <4> QED
          BY <2>1, <2>2, <4>1 DEF AccountInv
      <3> QED
        BY <3>2, <3>3
    <2>4. CASE starts' = starts /\ (writer' = "down" <=> writer = "down")
      BY <2>1, <2>2, <2>4 DEF AccountInv
    <2> QED
      BY <2>1, <2>3, <2>4
  <1>5. CASE UNCHANGED walVars
    BY <1>5 DEF walVars, AccountInv, Logged
  <1> QED
    BY <1>1, <1>2, <1>3, <1>4, <1>5

LEMMA InitAccount == Init => AccountInv
  <1> SUFFICES ASSUME Init PROVE AccountInv
    OBVIOUS
  <1> QED
    BY DEF Init, AccountInv

LEMMA AccountInvariant == Spec => [](LogInv /\ OrderInv /\ AccountInv)
  <1>1. Init => LogInv /\ OrderInv /\ AccountInv
    BY InitLog, InitOrder, InitAccount
  <1>2. LogInv /\ OrderInv /\ AccountInv /\ [Next]_walVars => (LogInv /\ OrderInv /\ AccountInv)'
    BY LogStep, OrderStep, AccountStep
  <1> QED
    BY <1>1, <1>2, PTL DEF Spec

LEMMA PartsOrdered == ASSUME LogInv, OrderInv PROVE LogInOrder
  <1>1. /\ chan \in Seq(Entries) /\ Torn \notin ToSet(chan) /\ MaxFiles \in Nat
    BY SetIn, WalConstants, FilesNat DEF LogInv, TypeOK
  <1>2. ToSet(chan) \cup Logged \subseteq ToSet(accepted)
    BY LoggedIsIn, InLogged DEF OrderInv, FilesKnown
  <1>3. ASSUME NEW f \in 1..Queue, NEW g \in 1..Queue,
               NEW i \in DOMAIN Part(f), NEW j \in DOMAIN Part(g),
               f < g \/ (f = g /\ i < j), Torn \notin {Part(f)[i], Part(g)[j]}
        PROVE  AcceptedBefore(Part(f)[i], Part(g)[j])
    <2>1. CASE f = Queue
      <3>1. g = Queue /\ i < j
        BY <1>1, <1>3, <2>1 DEF Queue
      <3> QED
        BY <2>1, <3>1 DEF Part, OrderInv, QueueOrdered
    <2>2. CASE f # Queue /\ g = Queue
      <3>1. f \in Files /\ Part(f) = disk.content[f] /\ Part(g) = chan
        BY <1>1, <2>2 DEF Queue, Files, Part
      <3>2. Part(f)[i] \in ToSet(disk.content[f]) \ {Torn} /\ Part(g)[j] \in ToSet(chan)
        BY <1>3, <3>1 DEF ToSet
      <3> QED
        BY <3>1, <3>2 DEF OrderInv, FilesBefore
    <2>3. CASE f # Queue /\ g # Queue
      <3>1. f \in Files /\ g \in Files /\ Part(f) = disk.content[f] /\ Part(g) = disk.content[g]
        BY <1>1, <2>3 DEF Queue, Files, Part
      <3> QED
        BY <1>3, <3>1 DEF OrderInv, FilesOrdered
    <2> QED
      BY <2>1, <2>2, <2>3
  <1> QED
    BY <1>2, <1>3 DEF LogInOrder, OrderInv, AcceptedOnce

\* While a writer runs, an accepted entry is queued, in a file or counted as failed, and the
\* files and the channel together keep the order of AppendRaw: OrderInv takes the order apart
\* into files and channel, where a write moves one entry from the head of one to the end of the other.
THEOREM EveryEntryAccountedCorrect == Spec => []EveryEntryAccounted
  <1>1. LogInv /\ OrderInv /\ AccountInv => EveryEntryAccounted
    BY PartsOrdered DEF EveryEntryAccounted, AccountInv
  <1> QED
    BY <1>1, AccountInvariant, PTL

-----------------------------------------------------------------------------
(* What is not yet synced: as long as fdatasync succeeds, bytesSinceSync   *)
(* counts it.                                                              *)

UnsyncedIn(d, f) ==
    {i \in DOMAIN d.content[f] : i > d.synced[f] /\ d.content[f][i] # Torn}

Counted(d) ==
    \A f \in Files :
        /\ d.synced[f] <= Len(d.content[f])
        /\ Cardinality(UnsyncedIn(d, f)) = IF f = d.current THEN d.bytesSinceSync ELSE 0

SyncInv ==
    ~SyncMayFail /\ starts <= 1 =>
        /\ Counted(disk)
        /\ disk.bytesSinceSync < SyncEvery
        /\ writer = "closed" => disk.bytesSinceSync = 0
        /\ starts = 0 => disk.current = NoFile /\ writer = "down"

CountedDisks(bound) ==
    {d \in DiskType : InUse(d) /\ Counted(d) /\ d.bytesSinceSync <= bound}

\* The file in use is synced, or d says nothing new of it.
LEMMA CountedAfter ==
    ASSUME NEW d, Shape(d), Counted(d), NEW r, InUse(r), r.content = d.content,
           \A f \in Files : f # d.current => r.synced[f] = d.synced[f],
           d.current \in Files =>
              \/ r.synced[d.current] = Len(d.content[d.current])
              \/ r.synced[d.current] = d.synced[d.current] /\ d.bytesSinceSync = 0,
           r.bytesSinceSync = 0
    PROVE  Counted(r)
  <1> SUFFICES ASSUME NEW f \in Files
               PROVE  /\ r.synced[f] <= Len(r.content[f])
                      /\ Cardinality(UnsyncedIn(r, f)) = 0
    BY DEF Counted
  <1>1. d.content[f] \in Seq(Bytes) /\ d.synced[f] \in Nat /\ Len(d.content[f]) \in Nat
        /\ DOMAIN d.content[f] = 1..Len(d.content[f])
    BY DiskNumbers DEF Shape
  <1>2. CASE f = d.current /\ r.synced[f] = Len(d.content[f])
    <2>1. UnsyncedIn(r, f) = {}
      BY <1>1, <1>2 DEF UnsyncedIn
    <2> QED
      BY <1>1, <1>2, <2>1, FS_EmptySet
  <1>3. CASE ~(f = d.current /\ r.synced[f] = Len(d.content[f]))
    <2>1. r.synced[f] = d.synced[f] /\ (f = d.current => d.bytesSinceSync = 0)
      BY <1>3
    <2>2. UnsyncedIn(r, f) = UnsyncedIn(d, f)
      BY <2>1 DEF UnsyncedIn
    <2> QED
      BY <2>1, <2>2 DEF Counted
  <1> QED
    BY <1>2, <1>3

LEMMA PutCounted ==
    ASSUME NEW d, InUse(d), Counted(d), NEW x \in Bytes, NEW r, InUse(r),
           r.content[d.current] = Append(d.content[d.current], x),
           \A f \in Files : f # d.current => r.content[f] = d.content[f],
           r.synced = d.synced, r.current = d.current,
           r.bytesSinceSync = IF x = Torn THEN d.bytesSinceSync ELSE d.bytesSinceSync + 1
    PROVE  Counted(r)
  <1> SUFFICES ASSUME NEW f \in Files
               PROVE  /\ r.synced[f] <= Len(r.content[f])
                      /\ Cardinality(UnsyncedIn(r, f)) = IF f = r.current THEN r.bytesSinceSync ELSE 0
    BY DEF Counted
  <1> DEFINE n == Len(d.content[f])
  <1>1. /\ d.content[f] \in Seq(Bytes) /\ d.synced[f] \in Nat /\ n \in Nat
        /\ DOMAIN d.content[f] = 1..n /\ d.synced[f] <= n /\ d.bytesSinceSync \in Nat
    BY DiskNumbers DEF InUse, Shape, Counted
  <1>2. CASE f # d.current
    <2>1. UnsyncedIn(r, f) = UnsyncedIn(d, f)
      BY <1>2 DEF UnsyncedIn
    <2> QED
      BY <1>2, <2>1 DEF Counted
  <1>3. CASE f = d.current
    <2>1. /\ r.content[f][n + 1] = x
          /\ \A i \in DOMAIN d.content[f] : r.content[f][i] = d.content[f][i]
          /\ DOMAIN r.content[f] = DOMAIN d.content[f] \cup {n + 1}
          /\ Len(r.content[f]) = n + 1
      <3>1. r.content[f] = Append(d.content[f], x)
        BY <1>3
      <3>2. /\ Len(Append(d.content[f], x)) = Len(d.content[f]) + 1
            /\ Append(d.content[f], x)[Len(d.content[f]) + 1] = x
            /\ \A i \in DOMAIN d.content[f] : Append(d.content[f], x)[i] = d.content[f][i]
            /\ DOMAIN Append(d.content[f], x) = DOMAIN d.content[f] \cup {Len(d.content[f]) + 1}
        BY <1>1, AppendedSet
      <3> QED
        BY <3>1, <3>2
    <2>2. r.synced[f] <= Len(r.content[f])
      BY <1>1, <2>1
    <2>3. Cardinality(UnsyncedIn(d, f)) = d.bytesSinceSync
      BY <1>3 DEF Counted
    <2>4. CASE x = Torn
      <3>1. UnsyncedIn(r, f) = UnsyncedIn(d, f)
        BY <2>1, <2>4 DEF UnsyncedIn
      <3> QED
        BY <1>3, <2>2, <2>3, <2>4, <3>1
    <2>5. CASE x # Torn
      <3>1. UnsyncedIn(r, f) = UnsyncedIn(d, f) \cup {n + 1}
        BY <1>1, <2>1, <2>5 DEF UnsyncedIn
      <3>2. n + 1 \notin UnsyncedIn(d, f)
        BY <1>1 DEF UnsyncedIn
      <3>3. IsFiniteSet(UnsyncedIn(d, f))
        <4>1. UnsyncedIn(d, f) \subseteq 1..n
          BY <1>1 DEF UnsyncedIn
        <4>2. n \in Int /\ 1 \in Int
          BY <1>1
        <4>3. IsFiniteSet(1..n)
          BY <4>2, FS_Interval
        <4> QED
          BY <4>1, <4>3, FS_Subset
      <3>4. Cardinality(UnsyncedIn(r, f)) = Cardinality(UnsyncedIn(d, f)) + 1
        BY <3>1, <3>2, <3>3, FS_AddElement
      <3> QED
        BY <1>3, <2>2, <2>3, <2>5, <3>4
    <2> QED
      BY <2>4, <2>5
  <1> QED
    BY <1>2, <1>3

LEMMA CountedClosed ==
    ASSUME NEW bound \in Nat, now \in Nat, ~SyncMayFail
    PROVE  Closed(CountedDisks(bound))
  <1> DEFINE S == CountedDisks(bound)
  <1> SUFFICES ASSUME NEW d \in S
               PROVE  /\ Syncs(d) \subseteq S
                      /\ WriteFailed(d) \subseteq S
                      /\ d.made < MaxFiles => Rotated(d) \cup RotationFailed(d) \subseteq S
    BY DEF Closed
  <1>1. InUse(d) /\ Counted(d) /\ d.bytesSinceSync <= bound /\ Shape(d) /\ d \in DiskType
        /\ d.bytesSinceSync \in Nat /\ d.current \in Files
    BY DiskNumbers DEF CountedDisks, InUse
  <1>2. ASSUME NEW r, InUse(r), Counted(r), r.bytesSinceSync <= bound PROVE r \in S
    BY <1>2 DEF CountedDisks, InUse, Shape
  <1> HIDE DEF S
  <1>3. ASSUME NEW r \in Syncs(d) PROVE r \in S
    <2>1. /\ InUse(r) /\ r.bytesSinceSync = 0 /\ r.content = d.content
          /\ \A f \in Files : f # d.current => r.synced[f] = d.synced[f]
          /\ r.synced[d.current] = Len(d.content[d.current])
      BY <1>1, SyncedType
    <2>2. Counted(r)
      BY <1>1, <2>1, CountedAfter
    <2> QED
      BY <1>2, <2>1, <2>2
  <1>4. WriteFailed(d) \subseteq S
    <2>1. Torn \in Bytes
      BY DEF Bytes
    <2>2. /\ InUse(Put(d, Torn))
          /\ Put(d, Torn).current = d.current
          /\ Put(d, Torn).synced = d.synced /\ Put(d, Torn).bytesSinceSync = d.bytesSinceSync
          /\ Put(d, Torn).content[d.current] = Append(d.content[d.current], Torn)
          /\ \A f \in Files : f # d.current => Put(d, Torn).content[f] = d.content[f]
      BY <1>1, <2>1, PutType
    <2>3. Counted(Put(d, Torn))
      BY <1>1, <2>1, <2>2, PutCounted
    <2>4. Put(d, Torn) \in S
      BY <1>1, <1>2, <2>2, <2>3
    <2> QED
      BY <1>1, <2>4 DEF WriteFailed, S
  <1>5. ASSUME d.made < MaxFiles
        PROVE  Rotated(d) \cup RotationFailed(d) \subseteq S
    <2>1. ASSUME NEW r \in Rotated(d) PROVE r \in S
      <3>1. /\ InUse(r) /\ r.bytesSinceSync = 0 /\ r.content = d.content
            /\ \A f \in Files : f # d.current => r.synced[f] = d.synced[f]
            /\ d.bytesSinceSync = 0 => r.synced = d.synced
            /\ d.bytesSinceSync > 0 => r.synced[d.current] = Len(d.content[d.current])
        BY <1>1, <1>5, RotatedType
      <3>2. Counted(r)
        BY <1>1, <3>1, CountedAfter
      <3> QED
        BY <1>2, <3>1, <3>2
    <2>2. NewFile(d) \in S
      <3> DEFINE r == NewFile(d)
      <3>1. /\ InUse(r) /\ r.content = d.content /\ r.current = d.current
            /\ r.synced = d.synced /\ r.bytesSinceSync = d.bytesSinceSync
        BY <1>1, <1>5, NewFileType DEF InUse
      <3> HIDE DEF r
      <3>2. \A f \in Files : UnsyncedIn(r, f) = UnsyncedIn(d, f)
        BY <3>1 DEF UnsyncedIn
      <3>3. Counted(r)
        BY <1>1, <3>1, <3>2 DEF Counted
      <3>4. r \in S
        BY <1>1, <1>2, <3>1, <3>3
      <3> QED
        BY <3>4 DEF r
    <2> QED
      BY <1>1, <2>1, <2>2 DEF RotationFailed, S
  <1> QED
    BY <1>3, <1>4, <1>5 DEF S

\* Whatever writeEntry does at its end, a sync is behind it when one was due.
LEMMA SettledSynced ==
    ASSUME NEW d, InUse(d), d.made < MaxFiles, now \in Nat, NEW r \in Settled(d)
    PROVE  r.bytesSinceSync < SyncEvery
  <1>1. SyncEvery \in Nat /\ 0 < SyncEvery /\ d.bytesSinceSync \in Nat
    BY WalConstants, DiskNumbers DEF InUse, Shape
  <1>2. PICK s \in IF d.bytesSinceSync >= SyncEvery THEN Syncs(d) ELSE {d} :
           r \in Rotated(s) \cup RotationFailed(s) \cup {s}
    BY DEF Settled
  <1>3. InUse(s) /\ s.made = d.made /\ s.bytesSinceSync < SyncEvery
    BY <1>1, <1>2, SyncedType
  <1>4. CASE r \in Rotated(s)
    BY <1>1, <1>3, <1>4, RotatedType
  <1>5. CASE r \in RotationFailed(s)
    <2>1. NewFile(s).bytesSinceSync = s.bytesSinceSync
      BY <1>3, NewFileType DEF InUse
    <2> QED
      BY <1>3, <1>5, <2>1 DEF RotationFailed
  <1> QED
    BY <1>2, <1>3, <1>4, <1>5

LEMMA WriteEntrySynced ==
    ASSUME LogInv, WriteEntry
    PROVE  lost' = lost => disk'.bytesSinceSync < SyncEvery \/ Head(chan) \in lost
  <1>1. /\ chan \in Seq(Entries) /\ now \in Nat /\ InUse(disk) /\ chan # <<>>
        /\ disk.made + 2 <= MaxFiles /\ Head(chan) \in Entries
    BY WalConstants DEF LogInv, TypeOK, AtWork, WriteEntry, Writing, InUse
  <1>2. disk.made \in Nat /\ disk.made < MaxFiles /\ disk.made + 1 < MaxFiles
    BY <1>1, DiskNumbers, FilesNat DEF InUse, Shape
  <1>3. CASE disk' \in Settled(Written(disk, Head(chan)))
    <2>1. InUse(Written(disk, Head(chan))) /\ Written(disk, Head(chan)).made = disk.made
      BY <1>1, WrittenType
    <2> QED
      BY <1>1, <1>2, <1>3, <2>1, SettledSynced
  <1>4. ASSUME NEW d \in WriteFailed(disk), disk' \in Retried(d, Head(chan))
        PROVE  disk'.bytesSinceSync < SyncEvery
    <2>1. PICK r \in Rotated(d) : disk' \in Settled(Written(r, Head(chan)))
      BY <1>4 DEF Retried
    <2>2. InUse(d) /\ d.made = disk.made
      BY <1>1, MadeGrows
    <2>3. InUse(r) /\ r.made = d.made + 1
      BY <1>1, <1>2, <2>2, MadeGrows
    <2>4. InUse(Written(r, Head(chan))) /\ Written(r, Head(chan)).made = r.made
      BY <1>1, <2>3, WrittenType
    <2>5. Written(r, Head(chan)).made < MaxFiles
      BY <1>2, <2>2, <2>3, <2>4
    <2> QED
      BY <1>1, <2>1, <2>4, <2>5, SettledSynced
  <1> QED
    BY <1>3, <1>4 DEF WriteEntry

LEMMA WriteEntryCounted ==
    ASSUME LogInv, OrderInv, AccountInv, SyncInv, WriteEntry
    PROVE  SyncInv'
  <1> SUFFICES ASSUME ~SyncMayFail, starts <= 1, starts' = starts, writer' = writer
               PROVE  SyncInv'
    BY DEF WriteEntry, SyncInv
  <1> DEFINE S == CountedDisks(SyncEvery - 1)
             T == CountedDisks(SyncEvery)
  <1>1. /\ chan \in Seq(Entries) /\ now \in Nat /\ InUse(disk) /\ chan # <<>>
        /\ Head(chan) \in Entries /\ writer \in {"running", "purged", "draining"}
        /\ ToSet(chan) = {Head(chan)} \cup ToSet(Tail(chan))
    BY WalConstants, HeadAndTail DEF LogInv, TypeOK, AtWork, WriteEntry, Writing, InUse
  <1>2. SyncEvery \in Nat /\ SyncEvery - 1 \in Nat
    BY WalConstants
  <1>3. Closed(S) /\ Closed(T)
    BY <1>1, <1>2, CountedClosed
  <1>4. disk \in S
    <2>1. disk \in DiskType /\ disk.bytesSinceSync \in Nat
      BY <1>1, DiskNumbers DEF InUse, Shape
    <2> QED
      BY <1>1, <1>2, <2>1 DEF SyncInv, CountedDisks
  <1>5. ASSUME NEW d \in S, InUse(d) PROVE Written(d, Head(chan)) \in T
    <2> DEFINE r == Written(d, Head(chan))
    <2>1. /\ InUse(r) /\ r.current = d.current /\ r.synced = d.synced
          /\ r.bytesSinceSync = d.bytesSinceSync + 1
          /\ r.content[d.current] = Append(d.content[d.current], Head(chan))
          /\ \A f \in Files : f # d.current => r.content[f] = d.content[f]
      BY <1>5, <1>1, WrittenType
    <2>2. Head(chan) \in Bytes /\ Head(chan) # Torn /\ Counted(d)
          /\ d.bytesSinceSync <= SyncEvery - 1 /\ d.bytesSinceSync \in Nat
      BY <1>1, <1>5, WalConstants, DiskNumbers DEF Bytes, CountedDisks
    <2> HIDE DEF r
    <2>3. Counted(r)
      BY <1>5, <2>1, <2>2, PutCounted
    <2>4. r.bytesSinceSync <= SyncEvery /\ r \in DiskType
      BY <1>2, <2>1, <2>2 DEF InUse, Shape
    <2>5. r \in T
      BY <2>1, <2>3, <2>4 DEF CountedDisks
    <2> QED
      BY <2>5 DEF r
  <1> HIDE DEF S, T
  <1>6. \/ disk' \in T /\ lost' = lost
        \/ disk' \in S /\ lost' = lost \cup {Head(chan)}
    BY <1>1, <1>3, <1>4, <1>5, WriteEntryStep
  <1>7. Head(chan) \notin lost
    BY <1>1 DEF AccountInv
  <1>8. disk' \in T /\ disk'.bytesSinceSync < SyncEvery
    <2>1. CASE disk' \in T /\ lost' = lost
      BY <1>7, <2>1, WriteEntrySynced
    <2>2. CASE disk' \in S
      <3>1. /\ disk'.bytesSinceSync \in Nat /\ disk'.bytesSinceSync <= SyncEvery - 1
            /\ InUse(disk') /\ Counted(disk') /\ disk' \in DiskType
        BY <2>2, DiskNumbers DEF S, CountedDisks
      <3>2. disk'.bytesSinceSync < SyncEvery /\ disk'.bytesSinceSync <= SyncEvery
        BY <1>2, <3>1
      <3> QED
        BY <3>1, <3>2 DEF T, CountedDisks
    <2> QED
      BY <1>6, <2>1, <2>2
  <1>9. Counted(disk)'
    <2>1. Counted(disk')
      BY <1>8 DEF T, CountedDisks
    <2> QED
      BY <2>1 DEF Counted, UnsyncedIn
  <1>10. starts # 0
    BY <1>1 DEF SyncInv
  <1> QED
    BY <1>1, <1>8, <1>9, <1>10 DEF SyncInv

LEMMA SyncStep ==
    LogInv /\ OrderInv /\ AccountInv /\ SyncInv /\ [Next]_walVars => SyncInv'
  <1> SUFFICES ASSUME LogInv, OrderInv, AccountInv, SyncInv, [Next]_walVars PROVE SyncInv'
    OBVIOUS
  <1>0. SyncEvery \in Nat /\ SyncEvery > 0 /\ starts \in Nat /\ disk \in DiskType /\ now \in Nat
        /\ Shape(disk)
    BY WalConstants DEF LogInv, TypeOK
  <1>1. CASE WriteEntry
    BY <1>1, WriteEntryCounted
  <1>2. CASE NewWriter
    <2> SUFFICES ASSUME ~SyncMayFail, starts' <= 1 PROVE SyncInv'
      BY DEF SyncInv
    <2>1. /\ starts' = starts + 1 /\ writer' = "running" /\ disk.made < MaxFiles
          /\ disk' \in Rotated([disk EXCEPT !.bytesSinceSync = 0])
      BY <1>2 DEF NewWriter
    <2>2. starts = 0 /\ starts' # 0
      BY <1>0, <2>1
    <2>3. Counted(disk) /\ disk.current = NoFile
      BY <2>2 DEF SyncInv
    <2> DEFINE d == [disk EXCEPT !.bytesSinceSync = 0]
    <2>4. /\ Shape(d) /\ d.bytesSinceSync = 0 /\ d.made = disk.made /\ d.content = disk.content
          /\ d.synced = disk.synced /\ d.current = NoFile
      <3>1. 0 \in Nat
        OBVIOUS
      <3>2. /\ d \in DiskType /\ d.content = disk.content /\ d.made = disk.made
            /\ d.linked = disk.linked /\ d.current = disk.current /\ d.mtime = disk.mtime
            /\ d.synced = disk.synced /\ d.bytesSinceSync = 0
        BY <1>0, <3>1 DEF DiskType
      <3> HIDE DEF d
      <3> QED
        BY <1>0, <2>3, <3>2 DEF Shape
    <2>5. disk' \in Rotated(d)
      BY <2>1
    <2> HIDE DEF d
    <2>6. /\ InUse(disk') /\ disk'.bytesSinceSync = 0 /\ disk'.content = d.content
          /\ disk'.synced = d.synced
      BY <1>0, <2>1, <2>4, <2>5, RotatedType
    <2>7. Counted(disk)'
      <3>1. NoFile \notin Files
        BY FilesNat DEF NoFile
      <3>2. \A f \in Files : UnsyncedIn(disk', f) = UnsyncedIn(disk, f)
        BY <2>4, <2>6 DEF UnsyncedIn
      <3>3. \A f \in Files : /\ disk'.synced[f] <= Len(disk'.content[f])
                             /\ Cardinality(UnsyncedIn(disk', f)) = 0
        BY <2>3, <2>4, <2>6, <3>1, <3>2 DEF Counted
      <3> QED
        BY <2>6, <3>3 DEF Counted, UnsyncedIn
    <2> QED
      BY <1>0, <2>1, <2>2, <2>6, <2>7 DEF SyncInv
  <1>3. CASE SyncTick \/ DrainEnds
    <2> SUFFICES ASSUME ~SyncMayFail, starts <= 1, starts' = starts PROVE SyncInv'
      BY <1>3 DEF SyncTick, DrainEnds, SyncInv
    <2>1. /\ InUse(disk) /\ Counted(disk) /\ disk.bytesSinceSync < SyncEvery
          /\ writer # "down" /\ writer # "closed" /\ writer' # "down"
      BY <1>3 DEF SyncTick, DrainEnds, LogInv, AtWork, InUse, SyncInv
    <2>2. CASE disk' \in Syncs(disk)
      <3>1. /\ InUse(disk') /\ disk'.bytesSinceSync = 0 /\ disk'.content = disk.content
            /\ \A f \in Files : f # disk.current => disk'.synced[f] = disk.synced[f]
            /\ disk'.synced[disk.current] = Len(disk.content[disk.current])
        BY <2>1, <2>2, SyncedType
      <3>2. Counted(disk')
        BY <1>0, <2>1, <3>1, CountedAfter
      <3>3. Counted(disk)'
        BY <3>2 DEF Counted, UnsyncedIn
      <3> QED
        BY <1>0, <2>1, <3>1, <3>3 DEF SyncInv
    <2>3. CASE disk' = disk /\ ~(disk.bytesSinceSync > 0)
      <3>1. disk.bytesSinceSync = 0
        BY <1>0, <2>3, DiskNumbers
      <3> QED
        BY <2>1, <2>3, <3>1 DEF SyncInv, Counted, UnsyncedIn
    <2> QED
      BY <1>3, <2>2, <2>3 DEF SyncTick, DrainEnds
  <1>4. CASE /\ disk'.content = disk.content /\ disk'.current = disk.current
             /\ disk'.synced = disk.synced /\ disk'.bytesSinceSync = disk.bytesSinceSync
             /\ starts' = starts
             /\ writer' = "closed" => writer = "closed"
             /\ starts = 0 => writer' = "down"
    BY <1>4 DEF SyncInv, Counted, UnsyncedIn
  <1>5. CASE EndPurge \/ PurgeAll \/ DeleteRecovered
    <2>1. PICK L \in SUBSET disk.linked : disk' = [disk EXCEPT !.linked = L] /\ now' = now
      <3>1. CASE EndPurge
        BY <3>1, EndPurgeUnlinks DEF EndPurge
      <3>2. CASE PurgeAll
        BY <3>2 DEF PurgeAll
      <3>3. CASE DeleteRecovered
        BY <3>3 DEF DeleteRecovered
      <3> QED
        BY <1>5, <3>1, <3>2, <3>3
    <2>2. /\ disk'.content = disk.content /\ disk'.current = disk.current
          /\ disk'.synced = disk.synced /\ disk'.bytesSinceSync = disk.bytesSinceSync
      BY <1>0, <2>1, UnlinkedShape
    <2>3. starts' = starts /\ (writer' = writer \/ (writer' = "purged" /\ writer = "running"))
      BY <1>5 DEF EndPurge, PurgeAll, DeleteRecovered
    <2>4. SyncMayFail \/ starts > 1 \/ (starts = 0 => writer = "down")
      BY <1>0 DEF SyncInv
    <2>5. CASE SyncMayFail \/ starts > 1
      <3>1. ~(~SyncMayFail /\ starts' <= 1)
        BY <1>0, <2>3, <2>5
      <3> QED
        BY <3>1 DEF SyncInv
    <2>6. CASE starts = 0 => writer = "down"
      BY <1>4, <2>2, <2>3, <2>6
    <2> QED
      BY <2>4, <2>5, <2>6
  <1>6. CASE \/ \E e \in Entries : AppendRaw(e)
             \/ CloseWriter \/ Exit \/ BeginPurge \/ Tick
             \/ BeginRecovery \/ findWALFiles \/ ReadFile \/ ReplayEntry \/ ReplayFails \/ EndRecovery
             \/ UNCHANGED walVars
    <2>1. disk' = disk /\ starts' = starts /\ (writer' = writer \/ writer' = "down" \/
             (writer' = "draining" /\ writer # "down"))
      BY <1>6 DEF AppendRaw, CloseWriter, Exit, BeginPurge, Tick, BeginRecovery, findWALFiles,
                  ReadFile, ReplayEntry, ReplayFails, EndRecovery, walVars
    <2> QED
      BY <2>1 DEF SyncInv, Counted, UnsyncedIn
  <1> QED
    BY <1>1, <1>2, <1>3, <1>5, <1>6 DEF Next, WriterStep, PurgeStep, RecoveryStep

LEMMA InitSync == Init => SyncInv
  <1> SUFFICES ASSUME Init PROVE SyncInv
    OBVIOUS
  <1>1. /\ \A f \in Files : disk.content[f] = <<>> /\ disk.synced[f] = 0
        /\ disk.current = NoFile /\ disk.bytesSinceSync = 0 /\ writer = "down"
    BY DEF Init
  <1>2. \A f \in Files : UnsyncedIn(disk, f) = {}
    BY <1>1 DEF UnsyncedIn
  <1>3. Counted(disk)
    <2>1. Len(<<>>) = 0 /\ Cardinality({}) = 0
      BY FS_EmptySet
    <2>2. \A f \in Files : disk.synced[f] <= Len(disk.content[f])
      BY <1>1, <2>1
    <2>3. \A f \in Files : Cardinality(UnsyncedIn(disk, f)) = 0
      BY <1>2, <2>1
    <2> QED
      BY <1>1, <2>2, <2>3 DEF Counted
  <1>4. SyncEvery \in Nat /\ 0 < SyncEvery
    BY WalConstants
  <1> QED
    BY <1>1, <1>3, <1>4 DEF SyncInv

\* As long as fdatasync succeeds, power loss costs at most the channel and fewer than SyncEvery
\* entries of the current file: bytesSinceSync is the number of entries behind the synced
\* position of the file in use, and no other file has any.
THEOREM SyncedExceptTailCorrect == Spec => []SyncedExceptTail
  <1>1. Init => LogInv /\ OrderInv /\ AccountInv /\ SyncInv
    BY InitLog, InitOrder, InitAccount, InitSync
  <1>2. LogInv /\ OrderInv /\ AccountInv /\ SyncInv /\ [Next]_walVars =>
           (LogInv /\ OrderInv /\ AccountInv /\ SyncInv)'
    BY LogStep, OrderStep, AccountStep, SyncStep
  <1>3. SyncInv => SyncedExceptTail
    <2> SUFFICES ASSUME SyncInv, ~SyncMayFail, starts = 1, NEW f \in Files
                 PROVE  /\ f # disk.current => Unsynced(f) = 0
                        /\ Unsynced(f) < SyncEvery
                        /\ writer = "closed" => Unsynced(f) = 0
      BY DEF SyncedExceptTail
    <2>1. Unsynced(f) = Cardinality(UnsyncedIn(disk, f))
      BY DEF Unsynced, UnsyncedIn
    <2>2. SyncEvery \in Nat /\ 0 < SyncEvery
      BY WalConstants
    <2> QED
      BY <2>1, <2>2 DEF SyncInv, Counted
  <1> QED
    BY <1>1, <1>2, <1>3, PTL DEF Spec

-----------------------------------------------------------------------------
(* The pipeline: each of its steps is one of the log, or leaves it alone.  *)

LEMMA PipelineStep == [PNext]_pipeVars => [Next]_walVars
  <1> SUFFICES ASSUME [PNext]_pipeVars PROVE [Next]_walVars
    OBVIOUS
  <1>1. CASE UNCHANGED pipeVars
    BY <1>1 DEF pipeVars
  <1>2. ASSUME NEW e \in Entries,
               LogCall(e) \/ BufferCall(e) \/ FlushOK(e) \/ FlushFails(e) \/ LetGo(e)
        PROVE  [Next]_walVars
    BY <1>2 DEF LogCall, BufferCall, FlushOK, FlushFails, LetGo, Next
  <1>3. CASE MaintenanceTick \/ MaintenancePurged \/ PurgeHook
    BY <1>3 DEF MaintenanceTick, MaintenancePurged, PurgeHook, PurgeStep, Next
  <1>4. CASE MaintenanceRecovers \/ Replay \/ ReplayRefused \/ RecoveryDone \/ RecoveryGoesOn
    BY <1>4 DEF MaintenanceRecovers, Replay, ReplayRefused, RecoveryDone, RecoveryGoesOn,
                RecoveryStep, Next
  <1>5. CASE CloseComponents \/ ProcessExit \/ WalGoesOn
    BY <1>5 DEF CloseComponents, ProcessExit, WalGoesOn, WriterStep, Next
  <1>6. CASE TimePasses
    BY <1>6 DEF TimePasses, Next
  <1> QED
    BY <1>1, <1>2, <1>3, <1>4, <1>5, <1>6 DEF PNext

\* Whatever holds of the log by itself holds of the log in the pipeline: its theorems above
\* are theorems of PSpec.
THEOREM PipelineIsLog == PSpec => Spec
  <1>1. PInit => Init
    BY DEF PInit
  <1> QED
    BY <1>1, PipelineStep, PTL DEF PSpec, Spec

PTypes ==
    /\ call \in [Entries -> {"none", "logged", "answered", "cut"}]
    /\ copies \in [Entries -> Nat]
    /\ heldSince \in [Entries -> 0..MaxTime]
    /\ durable \subseteq Entries /\ failed \subseteq Entries
    /\ letGo \subseteq Entries
    /\ hasFlushFailure \in BOOLEAN
    /\ maint \in {"idle", "purge only", "purge first", "recover"}
    /\ shutdown \in {"no", "components", "wal"}

LEMMA TypesPart == PTypeOK <=> TypeOK /\ PTypes
  BY DEF PTypeOK, PTypes

LEMMA HoldTypes ==
    ASSUME PTypes, TypeOK, NEW e \in Entries, Hold(e)
    PROVE  /\ copies' \in [Entries -> Nat] /\ heldSince' \in [Entries -> 0..MaxTime]
           /\ copies'[e] = copies[e] + 1
           /\ heldSince'[e] = IF copies[e] = 0 THEN now ELSE heldSince[e]
           /\ \A x \in Entries : x # e => copies'[x] = copies[x] /\ heldSince'[x] = heldSince[x]
  <1>1. now \in 0..MaxTime /\ copies \in [Entries -> Nat] /\ heldSince \in [Entries -> 0..MaxTime]
    BY DEF PTypes, TypeOK
  <1>2. copies[e] + 1 \in Nat
    BY <1>1
  <1>3. /\ copies' = [copies EXCEPT ![e] = copies[e] + 1]
        /\ heldSince' = [heldSince EXCEPT ![e] = IF copies[e] = 0 THEN now ELSE heldSince[e]]
    BY DEF Hold
  <1> QED
    BY <1>1, <1>2, <1>3

LEMMA ReleaseTypes ==
    ASSUME PTypes, TypeOK, NEW e \in Entries, Release(e)
    PROVE  /\ copies' \in [Entries -> Nat] /\ heldSince' \in [Entries -> 0..MaxTime]
           /\ copies[e] > 0 /\ heldSince'[e] = now
           /\ \A x \in Entries : x # e => copies'[x] = copies[x] /\ heldSince'[x] = heldSince[x]
  <1>1. now \in 0..MaxTime /\ copies \in [Entries -> Nat] /\ heldSince \in [Entries -> 0..MaxTime]
    BY DEF PTypes, TypeOK
  <1>2. /\ copies[e] > 0 /\ copies' = [copies EXCEPT ![e] = copies[e] - 1]
        /\ heldSince' = [heldSince EXCEPT ![e] = now]
    BY DEF Release
  <1>3. copies[e] - 1 \in Nat
    BY <1>1, <1>2
  <1> QED
    BY <1>1, <1>2, <1>3

LEMMA PTypesStep == LogInv /\ PTypes /\ [PNext]_pipeVars => PTypes'
  <1> SUFFICES ASSUME LogInv, PTypes, [PNext]_pipeVars PROVE PTypes'
    OBVIOUS
  <1>0. TypeOK /\ RecType
    BY DEF LogInv, TypeOK, RecType
  <1>1. ASSUME NEW e \in Entries, LogCall(e) PROVE PTypes'
    BY <1>1 DEF LogCall, memVars, PTypes
  <1>2. ASSUME NEW e \in Entries, BufferCall(e) PROVE PTypes'
    <2>1. copies' \in [Entries -> Nat] /\ heldSince' \in [Entries -> 0..MaxTime]
      BY <1>0, <1>2, HoldTypes DEF BufferCall
    <2> QED
      BY <1>2, <2>1 DEF BufferCall, PTypes
  <1>3. ASSUME NEW e \in Entries, FlushOK(e) \/ FlushFails(e) \/ LetGo(e) PROVE PTypes'
    <2>1. copies' \in [Entries -> Nat] /\ heldSince' \in [Entries -> 0..MaxTime]
      BY <1>0, <1>3, ReleaseTypes DEF FlushOK, FlushFails, LetGo
    <2> QED
      BY <1>3, <2>1 DEF FlushOK, FlushFails, LetGo, PTypes
  <1>4. CASE Replay
    <2>1. Head(rec.rest) \in Entries
      BY <1>0, <1>4, ReplayEntryForms DEF Replay
    <2>2. copies' \in [Entries -> Nat] /\ heldSince' \in [Entries -> 0..MaxTime]
      BY <1>0, <1>4, <2>1, HoldTypes DEF Replay
    <2> QED
      BY <1>4, <2>2 DEF Replay, PTypes
  <1>5. CASE ReplayRefused
    <2>1. ToSet(rec.rest) \subseteq Entries
      BY <1>0, SetIn DEF RecType
    <2> QED
      BY <1>5, <2>1 DEF ReplayRefused, PTypes
  <1>6. CASE RecoveryDone
    BY <1>6 DEF RecoveryDone, PTypes
  <1>7. CASE ProcessExit
    <2>1. 0 \in 0..MaxTime
      BY WalConstants
    <2>2. call' \in [Entries -> {"none", "logged", "answered", "cut"}]
      BY <1>7 DEF ProcessExit, PTypes
    <2> QED
      BY <1>7, <2>1, <2>2 DEF ProcessExit, PTypes
  <1>8. CASE \/ MaintenanceTick \/ MaintenancePurged \/ MaintenanceRecovers \/ RecoveryGoesOn
             \/ PurgeHook \/ CloseComponents \/ WalGoesOn \/ TimePasses
    BY <1>8 DEF MaintenanceTick, MaintenancePurged, MaintenanceRecovers, RecoveryGoesOn, PurgeHook,
                CloseComponents, WalGoesOn, TimePasses, memVars, PTypes
  <1>9. CASE UNCHANGED pipeVars
    BY <1>9 DEF pipeVars, memVars, PTypes
  <1> QED
    BY <1>1, <1>2, <1>3, <1>4, <1>5, <1>6, <1>7, <1>8, <1>9 DEF PNext

LEMMA InitPTypes == PInit => PTypes
  <1>1. 0 \in 0..MaxTime
    BY WalConstants
  <1> SUFFICES ASSUME PInit PROVE PTypes
    OBVIOUS
  <1>2. /\ call = [e \in Entries |-> "none"]
        /\ copies = [e \in Entries |-> 0] /\ heldSince = [e \in Entries |-> 0]
        /\ durable = {} /\ failed = {} /\ letGo = {}
        /\ hasFlushFailure = FALSE /\ maint = "idle" /\ shutdown = "no"
    BY DEF PInit
  <1> QED
    BY <1>1, <1>2 DEF PTypes

\* The variables of the pipeline keep their types, those of the log included.
THEOREM TypeCorrect == PSpec => []PTypeOK
  <1>1. PInit => LogInv /\ PTypes
    BY InitLog, InitPTypes DEF PInit
  <1>2. LogInv /\ PTypes /\ [PNext]_pipeVars => (LogInv /\ PTypes)'
    BY LogStep, PipelineStep, PTypesStep
  <1>3. LogInv /\ PTypes => PTypeOK
    BY TypesPart DEF LogInv
  <1> QED
    BY <1>1, <1>2, <1>3, PTL DEF PSpec

-----------------------------------------------------------------------------
(* Where the copies of an entry are.                                       *)

Known(e) == e \in durable \/ e \in failed \/ e \in letGo
Covered(e) == Known(e) \/ copies[e] > 0 \/ call[e] = "logged"

MemInv ==
    /\ \A e \in replayed : Known(e) \/ copies[e] > 0
    /\ \A e \in ToSet(chan) : Covered(e)
    /\ \A e \in Entries : copies[e] > 0 => heldSince[e] <= now /\ now <= heldSince[e] + MaxHold

\* While the process lives memory loses no entry without a reason, and forgets no reason.
MemGrows ==
    /\ durable \subseteq durable' /\ failed \subseteq failed' /\ letGo \subseteq letGo'
    /\ replayed \subseteq replayed'
    /\ \A e \in Entries :
          /\ call[e] = "logged" =>
                call'[e] = "logged" \/ (copies'[e] > 0 /\ heldSince'[e] <= now)
          /\ copies[e] > 0 =>
                \/ e \in durable' \cup failed' \cup letGo'
                \/ copies'[e] > 0 /\ heldSince'[e] = heldSince[e]

LEMMA MemoryNumbers ==
    ASSUME LogInv, PTypes
    PROVE  /\ now \in Nat /\ MaxHold \in Nat /\ MaxHold > 0
           /\ \A e \in Entries : copies[e] \in Nat /\ heldSince[e] \in Nat
  <1>1. now \in 0..MaxTime /\ MaxTime \in Nat
    BY WalConstants DEF LogInv, TypeOK
  <1>2. MaxHold \in Nat /\ MaxHold > 0
    BY PipelineConstants
  <1>3. copies \in [Entries -> Nat] /\ heldSince \in [Entries -> 0..MaxTime]
    BY DEF PTypes
  <1>4. \A k \in 0..MaxTime : k \in Nat
    BY <1>1
  <1>5. \A e \in Entries : copies[e] \in Nat /\ heldSince[e] \in 0..MaxTime
    BY <1>3
  <1> HIDE DEF PTypes
  <1> QED
    BY <1>1, <1>2, <1>4, <1>5

LEMMA ReleaseGrows ==
    ASSUME LogInv, PTypes, MemInv, NEW e \in Entries, Release(e),
           call' = call, replayed' = replayed,
           durable \subseteq durable', failed \subseteq failed', letGo \subseteq letGo',
           e \in durable' \cup failed' \cup letGo'
    PROVE  MemGrows
  <1>1. TypeOK
    BY DEF LogInv
  <1>2. \A x \in Entries : x # e => copies'[x] = copies[x] /\ heldSince'[x] = heldSince[x]
    BY <1>1, ReleaseTypes
  <1> QED
    BY <1>2 DEF MemGrows

LEMMA HoldGrows ==
    ASSUME LogInv, PTypes, MemInv, NEW e \in Entries, Hold(e),
           \A x \in Entries : x # e => call'[x] = call[x],
           replayed \subseteq replayed',
           durable' = durable, failed' = failed, letGo' = letGo
    PROVE  MemGrows
  <1>1. TypeOK /\ now \in Nat /\ \A x \in Entries : copies[x] \in Nat /\ heldSince[x] \in Nat
    BY MemoryNumbers DEF LogInv
  <1>2. /\ copies'[e] = copies[e] + 1
        /\ heldSince'[e] = IF copies[e] = 0 THEN now ELSE heldSince[e]
        /\ \A x \in Entries : x # e => copies'[x] = copies[x] /\ heldSince'[x] = heldSince[x]
    BY <1>1, HoldTypes
  <1>3. copies'[e] > 0 /\ heldSince'[e] <= now
    BY <1>1, <1>2 DEF MemInv
  <1>4. copies[e] > 0 => heldSince'[e] = heldSince[e]
    BY <1>1, <1>2
  <1> QED
    BY <1>2, <1>3, <1>4 DEF MemGrows

LEMMA MemoryGrows ==
    ASSUME LogInv, PTypes, MemInv, [PNext]_pipeVars, ~ProcessExit
    PROVE  MemGrows
  <1>1. ASSUME NEW e \in Entries, LogCall(e) PROVE MemGrows
    <2>1. /\ call' = [call EXCEPT ![e] = "logged"] /\ replayed' = replayed
          /\ UNCHANGED <<copies, heldSince, durable, failed, letGo>>
      BY <1>1 DEF LogCall, AppendRaw, memVars
    <2>2. \A x \in Entries : call[x] = "logged" => call'[x] = "logged"
      BY <2>1 DEF PTypes
    <2> QED
      BY <2>1, <2>2 DEF MemGrows
  <1>2. ASSUME NEW e \in Entries, BufferCall(e) PROVE MemGrows
    <2>1. /\ Hold(e) /\ call' = [call EXCEPT ![e] = "answered"]
          /\ replayed' = replayed /\ durable' = durable /\ failed' = failed /\ letGo' = letGo
      BY <1>2 DEF BufferCall, walVars
    <2>2. \A x \in Entries : x # e => call'[x] = call[x]
      BY <2>1 DEF PTypes
    <2> QED
      BY <2>1, <2>2, HoldGrows
  <1>3. ASSUME NEW e \in Entries, FlushOK(e) \/ FlushFails(e) \/ LetGo(e) PROVE MemGrows
    <2>1. /\ Release(e) /\ call' = call /\ replayed' = replayed
          /\ durable \subseteq durable' /\ failed \subseteq failed' /\ letGo \subseteq letGo'
          /\ e \in durable' \cup failed' \cup letGo'
      BY <1>3 DEF FlushOK, FlushFails, LetGo, walVars
    <2> QED
      BY <2>1, ReleaseGrows
  <1>4. CASE Replay
    <2>1. RecType
      BY DEF LogInv, TypeOK, RecType
    <2>2. Head(rec.rest) \in Entries /\ replayed' = replayed \cup {Head(rec.rest)}
      BY <1>4, <2>1, ReplayEntryForms DEF Replay
    <2>3. Hold(Head(rec.rest)) /\ call' = call /\ durable' = durable /\ failed' = failed
          /\ letGo' = letGo /\ replayed \subseteq replayed'
      BY <1>4, <2>2 DEF Replay
    <2> QED
      BY <2>2, <2>3, HoldGrows
  <1>5. CASE ReplayRefused
    BY <1>5 DEF ReplayRefused, ReplayFails, MemGrows
  <1>6. CASE RecoveryDone
    BY <1>6 DEF RecoveryDone, EndRecovery, MemGrows
  <1>7. CASE UNCHANGED <<call, copies, heldSince, durable, failed, letGo>> /\ replayed' = replayed
    BY <1>7 DEF MemGrows
  <1>8. CASE \/ MaintenanceTick \/ MaintenancePurged \/ MaintenanceRecovers \/ RecoveryGoesOn
             \/ PurgeHook \/ CloseComponents \/ WalGoesOn \/ TimePasses
    <2>1. UNCHANGED <<call, copies, heldSince, durable, failed, letGo>>
      BY <1>8 DEF MaintenanceTick, MaintenancePurged, MaintenanceRecovers, RecoveryGoesOn,
                  PurgeHook, CloseComponents, WalGoesOn, TimePasses, memVars
    <2>2. CASE MaintenanceTick \/ MaintenancePurged \/ MaintenanceRecovers \/ RecoveryGoesOn
      BY <2>1, <2>2, <1>7 DEF MaintenanceTick, MaintenancePurged, MaintenanceRecovers,
                  RecoveryGoesOn, BeginPurge, EndPurge, BeginRecovery, findWALFiles, ReadFile,
                  DeleteRecovered
    <2>3. CASE PurgeHook \/ CloseComponents \/ WalGoesOn \/ TimePasses
      BY <2>1, <2>3, <1>7 DEF PurgeHook, CloseComponents, WalGoesOn, TimePasses, PurgeAll,
                  CloseWriter, NewWriter, WriteEntry, SyncTick, DrainEnds, Tick
    <2> QED
      BY <1>8, <2>2, <2>3
  <1>9. CASE UNCHANGED pipeVars
    BY <1>9, <1>7 DEF pipeVars, memVars, walVars
  <1> QED
    BY <1>1, <1>2, <1>3, <1>4, <1>5, <1>6, <1>8, <1>9 DEF PNext

\* What memory keeps when it grows.
LEMMA StaysCovered ==
    ASSUME MemGrows, NEW e \in Entries, Covered(e)
    PROVE  Covered(e)' /\ (Known(e) => Known(e)') /\ (copies[e] > 0 => Known(e)' \/ copies'[e] > 0)
  BY DEF MemGrows, Covered, Known

\* No copy outstays MaxHold, because time does not pass that would make it.
LEMMA HoldingStep ==
    ASSUME LogInv, PTypes, MemInv, [PNext]_pipeVars
    PROVE  \A e \in Entries :
              copies'[e] > 0 => heldSince'[e] <= now' /\ now' <= heldSince'[e] + MaxHold
  <1>0. /\ TypeOK /\ now \in Nat /\ MaxHold \in Nat /\ MaxHold > 0
        /\ \A e \in Entries : copies[e] \in Nat /\ heldSince[e] \in Nat
    BY MemoryNumbers DEF LogInv
  <1>1. ASSUME NEW e \in Entries, Hold(e), now' = now
        PROVE  \A x \in Entries :
                  copies'[x] > 0 => heldSince'[x] <= now' /\ now' <= heldSince'[x] + MaxHold
    <2>1. /\ heldSince'[e] = IF copies[e] = 0 THEN now ELSE heldSince[e]
          /\ \A x \in Entries : x # e => copies'[x] = copies[x] /\ heldSince'[x] = heldSince[x]
      BY <1>0, <1>1, HoldTypes
    <2>2. heldSince'[e] <= now /\ now <= heldSince'[e] + MaxHold
      BY <1>0, <2>1 DEF MemInv
    <2> QED
      BY <1>1, <2>1, <2>2 DEF MemInv
  <1>2. ASSUME NEW e \in Entries, Release(e), now' = now
        PROVE  \A x \in Entries :
                  copies'[x] > 0 => heldSince'[x] <= now' /\ now' <= heldSince'[x] + MaxHold
    <2>1. /\ heldSince'[e] = now
          /\ \A x \in Entries : x # e => copies'[x] = copies[x] /\ heldSince'[x] = heldSince[x]
      BY <1>0, <1>2, ReleaseTypes
    <2>2. heldSince'[e] <= now /\ now <= heldSince'[e] + MaxHold
      BY <1>0, <2>1
    <2> QED
      BY <1>2, <2>1, <2>2 DEF MemInv
  <1>3. CASE UNCHANGED <<copies, heldSince, now>>
    BY <1>3 DEF MemInv
  <1>4. ASSUME NEW e \in Entries,
               LogCall(e) \/ BufferCall(e) \/ FlushOK(e) \/ FlushFails(e) \/ LetGo(e)
        PROVE  \A x \in Entries :
                  copies'[x] > 0 => heldSince'[x] <= now' /\ now' <= heldSince'[x] + MaxHold
    <2>1. CASE LogCall(e)
      BY <2>1, <1>3 DEF LogCall, AppendRaw, memVars
    <2>2. CASE BufferCall(e)
      BY <2>2, <1>1 DEF BufferCall, walVars
    <2>3. CASE FlushOK(e) \/ FlushFails(e) \/ LetGo(e)
      BY <2>3, <1>2 DEF FlushOK, FlushFails, LetGo, walVars
    <2> QED
      BY <1>4, <2>1, <2>2, <2>3
  <1>5. CASE Replay
    <2>1. RecType
      BY DEF LogInv, TypeOK, RecType
    <2>2. Head(rec.rest) \in Entries /\ Hold(Head(rec.rest)) /\ now' = now
      BY <1>5, <2>1, ReplayEntryForms DEF Replay, ReplayEntry
    <2> QED
      BY <2>2, <1>1
  <1>6. CASE TimePasses
    <2>1. /\ now' = now + 1 /\ UNCHANGED <<copies, heldSince>>
          /\ \A e \in Entries : copies[e] > 0 => now < heldSince[e] + MaxHold
      BY <1>6 DEF TimePasses, Tick, memVars
    <2> QED
      BY <1>0, <2>1 DEF MemInv
  <1>7. CASE ProcessExit
    <2>1. \A e \in Entries : copies'[e] = 0
      BY <1>7 DEF ProcessExit
    <2> QED
      BY <2>1
  <1>8. CASE \/ MaintenanceTick \/ MaintenancePurged \/ MaintenanceRecovers \/ ReplayRefused
             \/ RecoveryDone
    BY <1>8, <1>3 DEF MaintenanceTick, MaintenancePurged, MaintenanceRecovers, ReplayRefused,
          RecoveryDone, BeginPurge, EndPurge, BeginRecovery, ReplayFails, EndRecovery, memVars
  <1>9. CASE RecoveryGoesOn \/ PurgeHook \/ CloseComponents \/ WalGoesOn
    BY <1>9, <1>3 DEF RecoveryGoesOn, PurgeHook, CloseComponents, WalGoesOn, PurgeAll, CloseWriter,
          NewWriter, WriteEntry, SyncTick, DrainEnds, findWALFiles, ReadFile, DeleteRecovered, memVars
  <1>10. CASE UNCHANGED pipeVars
    BY <1>10, <1>3 DEF pipeVars, walVars, memVars
  <1> QED
    BY <1>4, <1>5, <1>6, <1>7, <1>8, <1>9, <1>10 DEF PNext

\* The log takes a new entry from a call, and hands one to the callback of a recovery.
LEMMA TakesStep ==
    ASSUME LogInv, PTypes, [PNext]_pipeVars, ~ProcessExit
    PROVE  /\ \A x \in ToSet(chan') : x \in ToSet(chan) \/ (x \in Entries /\ call'[x] = "logged")
           /\ \A x \in replayed' : x \in replayed \/ (x \in Entries /\ copies'[x] > 0)
  <1>0. TypeOK /\ RecType /\ chan \in Seq(Entries)
    BY DEF LogInv, TypeOK, RecType
  <1>1. ASSUME NEW e \in Entries, LogCall(e)
        PROVE  /\ \A x \in ToSet(chan') : x \in ToSet(chan) \/ (x \in Entries /\ call'[x] = "logged")
               /\ replayed' = replayed
    <2>1. call'[e] = "logged" /\ (chan' = chan \/ chan' = Append(chan, e)) /\ replayed' = replayed
      BY <1>1 DEF LogCall, AppendRaw, PTypes
    <2>2. ToSet(Append(chan, e)) = ToSet(chan) \cup {e}
      BY <1>0, AppendedSet
    <2>3. ToSet(chan') \subseteq ToSet(chan) \cup {e}
      BY <2>1, <2>2
    <2> QED
      BY <2>1, <2>3
  <1>2. CASE Replay
    <2>1. /\ Head(rec.rest) \in Entries /\ replayed' = replayed \cup {Head(rec.rest)}
          /\ Hold(Head(rec.rest)) /\ chan' = chan
      BY <1>0, <1>2, ReplayEntryForms DEF Replay, ReplayEntry
    <2>2. copies'[Head(rec.rest)] > 0
      <3>1. copies'[Head(rec.rest)] = copies[Head(rec.rest)] + 1
        BY <1>0, <2>1, HoldTypes
      <3> QED
        BY <2>1, <3>1, MemoryNumbers
    <2> QED
      BY <2>1, <2>2
  <1>3. CASE WalGoesOn
    <2>1. replayed' = replayed /\ (chan' = chan \/ (WriteEntry /\ chan # <<>> /\ chan' = Tail(chan)))
      BY <1>3 DEF WalGoesOn, NewWriter, WriteEntry, SyncTick, DrainEnds
    <2>2. ToSet(chan') \subseteq ToSet(chan)
      BY <1>0, <2>1, HeadAndTail
    <2> QED
      BY <2>1, <2>2
  <1>4. CASE UNCHANGED <<chan, replayed>>
    BY <1>4
  <1>5. ASSUME NEW e \in Entries, BufferCall(e) \/ FlushOK(e) \/ FlushFails(e) \/ LetGo(e)
        PROVE  UNCHANGED <<chan, replayed>>
    BY <1>5 DEF BufferCall, FlushOK, FlushFails, LetGo, walVars
  <1>6. CASE \/ MaintenanceTick \/ MaintenancePurged \/ MaintenanceRecovers \/ ReplayRefused
             \/ RecoveryDone \/ RecoveryGoesOn
    BY <1>6, <1>4 DEF MaintenanceTick, MaintenancePurged, MaintenanceRecovers, ReplayRefused,
          RecoveryDone, RecoveryGoesOn, BeginPurge, EndPurge, BeginRecovery, ReplayFails, EndRecovery,
          findWALFiles, ReadFile, DeleteRecovered
  <1>7. CASE PurgeHook \/ CloseComponents \/ TimePasses
    BY <1>7, <1>4 DEF PurgeHook, CloseComponents, TimePasses, PurgeAll, CloseWriter, Tick
  <1>8. CASE UNCHANGED pipeVars
    BY <1>8, <1>4 DEF pipeVars, walVars
  <1> QED
    BY <1>1, <1>2, <1>3, <1>4, <1>5, <1>6, <1>7, <1>8 DEF PNext

LEMMA MemStep == LogInv /\ PTypes /\ MemInv /\ [PNext]_pipeVars => MemInv'
  <1> SUFFICES ASSUME LogInv, PTypes, MemInv, [PNext]_pipeVars PROVE MemInv'
    OBVIOUS
  <1>1. \A e \in Entries :
           copies'[e] > 0 => heldSince'[e] <= now' /\ now' <= heldSince'[e] + MaxHold
    BY HoldingStep
  <1>2. CASE ProcessExit
    <2>1. replayed' = {} /\ ToSet(chan') = {}
      BY <1>2, EmptyHasNone DEF ProcessExit, Exit
    <2> QED
      BY <1>1, <2>1 DEF MemInv
  <1>3. CASE ~ProcessExit
    <2>1. MemGrows
      BY <1>3, MemoryGrows
    <2>2. ToSet(chan) \subseteq Entries /\ replayed \subseteq Entries
      BY SetIn DEF LogInv, TypeOK
    <2>3. \A e \in ToSet(chan') : Covered(e)'
      BY <1>3, <2>1, <2>2, StaysCovered, TakesStep DEF MemInv, Covered
    <2>4. \A e \in replayed' : Known(e)' \/ copies'[e] > 0
      <3> SUFFICES ASSUME NEW e \in replayed', e \in replayed PROVE Known(e)' \/ copies'[e] > 0
        BY <1>3, TakesStep
      <3>1. e \in Entries /\ (Known(e) \/ copies[e] > 0)
        BY <2>2 DEF MemInv
      <3>2. Covered(e)
        BY <3>1 DEF Covered
      <3> QED
        BY <2>1, <3>1, <3>2, StaysCovered
    <2> QED
      BY <1>1, <2>3, <2>4 DEF MemInv
  <1> QED
    BY <1>2, <1>3

LEMMA InitMem == PInit => MemInv
  <1> SUFFICES ASSUME PInit PROVE MemInv
    OBVIOUS
  <1>1. replayed = {} /\ chan = <<>> /\ \A e \in Entries : copies[e] = 0
    BY DEF PInit, Init
  <1> QED
    BY <1>1, EmptyHasNone DEF MemInv

-----------------------------------------------------------------------------
(* What the entries of a file still rely on.  As long as no write fails no *)
(* file has torn bytes, and a recovery that reads a file reads all of it.  *)

NoTorn == \A f \in Files : Torn \notin ToSet(disk.content[f])

RestInv == rec.stage = "replay" => ToSet(rec.rest) \subseteq ToSet(disk.content[rec.file])

\* Files that the recovery at startup has not come to, and the one it replays.
Pending(f) == Startup /\ (rec.stage = "list" \/ f \in rec.todo)
Reading(f) == Startup /\ rec.stage = "replay" /\ f = rec.file

\* The entry has left memory for a known reason, or it came to memory no later than the file
\* was written to, or by the replay of a file that had to be kept.
Held(f, e) ==
    \/ Known(e)
    \/ call[e] = "logged" /\ disk.mtime[f] >= now
    \/ copies[e] > 0 /\ heldSince[e] <= disk.mtime[f]
    \/ copies[e] > 0 /\ e \in replayed /\ ToSet(disk.content[f]) \cap failed # {}

FileHeld(f) == Pending(f) \/ Reading(f) \/ \A e \in ToSet(disk.content[f]) : Held(f, e)

FileInv ==
    /\ NoTorn /\ RestInv
    /\ writer # "down" => \A f \in disk.linked : FileHeld(f)

AllInv == LogInv /\ PTypes /\ MemInv /\ FileInv

LEMMA ContentIn ==
    ASSUME LogInv, NoTorn, NEW f \in Files
    PROVE  /\ disk.content[f] \in Seq(Bytes) /\ ToSet(disk.content[f]) \subseteq Entries
           /\ Readable(disk.content[f]) = {disk.content[f]}
  <1>1. disk.content[f] \in Seq(Bytes)
    BY DiskNumbers DEF LogInv, Shape
  <1>2. ToSet(disk.content[f]) \subseteq Bytes /\ Torn \notin ToSet(disk.content[f])
    BY <1>1, SetIn DEF NoTorn
  <1> QED
    BY <1>1, <1>2, ReadableWhole DEF Bytes

\* A file whose entries are held stays so, as memory grows and time does not pass.
LEMMA HeldStays ==
    ASSUME LogInv, PTypes, PTypes', MemGrows, now' = now, NEW f \in Files, NEW e \in Entries, Held(f, e),
           Shape(disk)', disk'.mtime[f] >= disk.mtime[f],
           ToSet(disk.content[f]) \subseteq ToSet(disk'.content[f])
    PROVE  Held(f, e)'
  <1>1. /\ now \in Nat /\ heldSince[e] \in Nat /\ disk.mtime[f] \in Nat
        /\ disk'.mtime[f] \in Nat /\ disk'.mtime[f] >= disk.mtime[f]
    <2>1. disk \in DiskType /\ disk' \in DiskType
      BY DEF LogInv, Shape
    <2> QED
      BY <2>1, MemoryNumbers, DiskNumbers
  <1>2. CASE Known(e)
    BY <1>2 DEF MemGrows, Known, Held
  <1>3. CASE call[e] = "logged" /\ disk.mtime[f] >= now
    <2>1. call'[e] = "logged" \/ (copies'[e] > 0 /\ heldSince'[e] <= now)
      BY <1>3 DEF MemGrows
    <2>2. CASE call'[e] = "logged"
      <3>1. disk'.mtime[f] >= now'
        BY <1>1, <1>3
      <3> QED
        BY <2>2, <3>1 DEF Held
    <2>3. CASE copies'[e] > 0 /\ heldSince'[e] <= now
      <3>1. heldSince'[e] <= disk'.mtime[f]
        <4>1. heldSince'[e] \in 0..MaxTime /\ MaxTime \in Nat
          BY WalConstants DEF PTypes
        <4>2. heldSince'[e] \in Nat
          BY <4>1
        <4> QED
          BY <1>1, <1>3, <2>3, <4>2
      <3> QED
        BY <2>3, <3>1 DEF Held
    <2> QED
      BY <2>1, <2>2, <2>3
  <1>4. CASE copies[e] > 0 /\ heldSince[e] <= disk.mtime[f]
    <2>1. e \in durable' \cup failed' \cup letGo' \/ (copies'[e] > 0 /\ heldSince'[e] = heldSince[e])
      BY <1>4 DEF MemGrows
    <2>2. heldSince[e] <= disk'.mtime[f]
      BY <1>1, <1>4
    <2> QED
      BY <2>1, <2>2 DEF Held, Known
  <1>5. CASE copies[e] > 0 /\ e \in replayed /\ ToSet(disk.content[f]) \cap failed # {}
    <2>1. e \in durable' \cup failed' \cup letGo' \/ copies'[e] > 0
      BY <1>5 DEF MemGrows
    <2>2. e \in replayed' /\ ToSet(disk'.content[f]) \cap failed' # {}
      BY <1>5 DEF MemGrows
    <2> QED
      BY <2>1, <2>2 DEF Held, Known
  <1> QED
    BY <1>2, <1>3, <1>4, <1>5 DEF Held

\* Files that a step leaves linked, of the same content and age, when it does not end the
\* process, move the clock, or take a file from what the recovery at startup has before it.
LEMMA FilesStay ==
    ASSUME AllInv, PTypes', MemGrows, now' = now, writer # "down",
           Shape(disk)', disk'.content = disk.content, disk'.mtime = disk.mtime,
           disk'.linked \subseteq disk.linked, RestInv',
           \A f \in disk'.linked : Pending(f) \/ Reading(f) => FileHeld(f)'
    PROVE  FileInv'
  <1>1. \A f \in Files : disk.mtime[f] \in Nat /\ disk'.mtime[f] >= disk.mtime[f]
    <2>1. disk \in DiskType
      BY DEF AllInv, LogInv, Shape
    <2>2. \A f \in Files : disk.mtime[f] \in Nat
      BY <2>1, DiskNumbers
    <2> QED
      BY <2>2
  <1>2. ASSUME NEW f \in disk'.linked PROVE FileHeld(f)'
    <2>1. f \in disk.linked /\ f \in Files
      BY DEF AllInv, LogInv, Shape, DiskType
    <2>2. CASE Pending(f) \/ Reading(f)
      BY <2>2
    <2>3. CASE \A e \in ToSet(disk.content[f]) : Held(f, e)
      <3> SUFFICES ASSUME NEW e \in ToSet(disk.content[f]) PROVE Held(f, e)'
        BY DEF FileHeld
      <3>1. e \in Entries
        BY <2>1, ContentIn DEF AllInv, FileInv
      <3> QED
        BY <1>1, <2>1, <2>3, <3>1, HeldStays DEF AllInv
    <2> QED
      BY <2>1, <2>2, <2>3 DEF AllInv, FileInv, FileHeld
  <1>3. NoTorn'
    BY DEF AllInv, FileInv, NoTorn
  <1> QED
    BY <1>2, <1>3 DEF FileInv

\* A step that has nothing to do with the log.
LEMMA MemoryOnly ==
    ASSUME AllInv, PTypes', MemGrows, UNCHANGED <<disk, rec, now, writer>>
    PROVE  FileInv'
  <1>1. CASE writer = "down"
    BY <1>1 DEF AllInv, FileInv, NoTorn, RestInv
  <1>2. CASE writer # "down"
    <2>1. Shape(disk)' /\ RestInv'
      BY DEF AllInv, LogInv, Shape, FileInv, RestInv
    <2>2. \A f : (Pending(f) \/ Reading(f)) => FileHeld(f)'
      BY DEF Pending, Reading, FileHeld, Startup
    <2> QED
      BY <1>2, <2>1, <2>2, FilesStay
  <1> QED
    BY <1>1, <1>2

\* The writer takes an entry: it is covered, and its file is as young as can be.
LEMMA WriteEntryFiles ==
    ASSUME ~WritesMayFail, AllInv, LogInv', PTypes', MemGrows, WriteEntry, call' = call
    PROVE  FileInv'
  <1> DEFINE x == Head(chan)
  <1>1. /\ LogInv /\ PTypes /\ MemInv /\ FileInv /\ Shape(disk) /\ Shape(disk)'
        /\ chan \in Seq(Entries) /\ now \in Nat /\ writer # "down" /\ ~Startup
        /\ now' = now /\ rec' = rec /\ replayed' = replayed
    BY MemoryNumbers DEF AllInv, LogInv, TypeOK, AtWork, WriteEntry, Writing
  <1>2. InUse(disk)
    BY <1>1 DEF LogInv, AtWork, InUse
  <1>3. /\ x \in Entries /\ chan # <<>>
        /\ disk' \in GrownFrom(disk, {x}) \/ disk' \in GrownFrom(disk, {})
    BY <1>1, <1>2, WriteEntryGrows
  <1>4. /\ Noise = {} /\ x # Torn
    BY <1>3, WalConstants DEF Noise
  <1>5. Covered(x)
    BY <1>1, <1>3, HeadAndTail DEF MemInv
  <1> HIDE DEF x
  <1>6. /\ disk' \in DiskType /\ disk \in DiskType
        /\ \A f \in disk'.linked : f \in disk.linked \/ f > disk.made
        /\ \A f \in Files :
              /\ disk.mtime[f] <= disk'.mtime[f]
              /\ ToSet(disk.content[f]) \subseteq ToSet(disk'.content[f])
              /\ ToSet(disk'.content[f]) \subseteq ToSet(disk.content[f]) \cup {x}
              /\ ToSet(disk'.content[f]) \subseteq ToSet(disk.content[f]) \/ disk'.mtime[f] >= now
    BY <1>1, <1>3, <1>4 DEF GrownFrom, Shape
  <1>7. NoTorn'
    BY <1>1, <1>4, <1>6 DEF FileInv, NoTorn
  <1>8. RestInv'
    <2>1. rec.stage = "replay" => rec.file \in Files
      BY <1>1 DEF LogInv, AtWork
    <2> QED
      BY <1>1, <1>6, <2>1 DEF FileInv, RestInv
  <1>9. ASSUME NEW f \in disk'.linked, NEW e \in ToSet(disk'.content[f]) PROVE Held(f, e)'
    <2>1. /\ f \in Files /\ f \in Nat /\ disk.mtime[f] \in Nat /\ disk'.mtime[f] \in Nat
          /\ disk'.mtime[f] >= disk.mtime[f]
      BY <1>6, FilesNat, DiskNumbers DEF DiskType
    <2>2. CASE e \in ToSet(disk.content[f])
      <3>1. f \in disk.linked
        <4>1. CASE f > disk.made
          <5>1. disk.content[f] = <<>>
            BY <1>1, <1>6, <2>1, <4>1, DiskNumbers DEF Shape
          <5> QED
            BY <2>2, <5>1, EmptyHasNone
        <4> QED
          BY <1>6, <4>1
      <3>2. Held(f, e) /\ e \in Entries
        BY <1>1, <2>1, <2>2, <3>1, ContentIn DEF FileInv, FileHeld, Pending, Reading
      <3>3. ToSet(disk.content[f]) \subseteq ToSet(disk'.content[f])
        BY <1>6, <2>1
      <3> QED
        BY <1>1, <2>1, <3>2, <3>3, HeldStays
    <2>3. CASE e \notin ToSet(disk.content[f])
      <3>1. e = x /\ disk'.mtime[f] >= now
        BY <1>6, <2>1, <2>3
      <3>2. CASE Known(x)
        BY <3>1, <3>2 DEF MemGrows, Known, Held
      <3>3. CASE copies[x] > 0
        <4>1. heldSince[x] <= now /\ heldSince[x] \in Nat
          BY <1>1, <1>3, <3>3, MemoryNumbers DEF MemInv
        <4>2. heldSince[x] <= disk'.mtime[f]
          BY <1>1, <2>1, <3>1, <4>1
        <4>3. x \in durable' \cup failed' \cup letGo' \/ (copies'[x] > 0 /\ heldSince'[x] = heldSince[x])
          BY <1>3, <3>3 DEF MemGrows
        <4> QED
          BY <3>1, <4>2, <4>3 DEF Held, Known
      <3>4. CASE call[x] = "logged"
        <4> QED
          BY <1>1, <3>1, <3>4 DEF Held
      <3> QED
        BY <1>5, <3>2, <3>3, <3>4 DEF Covered
    <2> QED
      BY <2>2, <2>3
  <1> QED
    BY <1>7, <1>8, <1>9 DEF FileInv, FileHeld

\* Recovery: what it has not come to stays before it, what it has replayed is in memory,
\* and what it could not replay is known to have failed.
LEMMA ReplayRefusedFiles ==
    ASSUME AllInv, PTypes', MemGrows, ReplayRefused PROVE FileInv'
  <1>1. /\ LogInv /\ MemInv /\ FileInv /\ RecType /\ Shape(disk)' /\ writer # "down"
    BY RecoveryRuns DEF AllInv, LogInv, Shape, TypeOK, RecType, ReplayRefused, ReplayFails
  <1>2. /\ rec.stage = "replay" /\ rec.rest # <<>> /\ disk' = disk /\ now' = now
        /\ rec' = [rec EXCEPT !.stage = "file", !.rest = <<>>]
        /\ failed' = failed \cup ToSet(rec.rest) /\ replayed' = replayed
        /\ durable' = durable /\ letGo' = letGo /\ copies' = copies
    BY DEF ReplayRefused, ReplayFails
  <1>3. rec'.stage = "file" /\ rec'.skip = rec.skip /\ rec'.todo = rec.todo
    BY <1>1, <1>2, RecFields
  <1>4. RestInv'
    BY <1>3 DEF RestInv
  <1>5. ASSUME NEW f \in disk'.linked, Pending(f) PROVE FileHeld(f)'
    BY <1>2, <1>3, <1>5 DEF Pending, Startup, FileHeld
  <1>6. ASSUME NEW f \in disk'.linked, Reading(f), NEW e \in ToSet(disk'.content[f])
        PROVE  Held(f, e)'
    <2>1. f = rec.file /\ f \in Files /\ rec.skip = NoFile
      BY <1>1, <1>6 DEF Reading, Startup, LogInv, AtWork
    <2>2. Readable(disk.content[f]) = {disk.content[f]}
      BY <1>1, <2>1, ContentIn DEF FileInv
    <2>3. ToSet(disk.content[f]) \subseteq replayed \cup ToSet(rec.rest)
      BY <1>1, <1>2, <2>1, <2>2 DEF LogInv, Replaying
    <2>4. CASE e \in ToSet(rec.rest)
      BY <1>2, <2>4 DEF Held, Known
    <2>5. CASE e \in replayed
      <3>1. Head(rec.rest) \in ToSet(rec.rest)
        BY <1>1, <1>2, HeadAndTail DEF RecType
      <3>2. ToSet(disk'.content[f]) \cap failed' # {}
        BY <1>1, <1>2, <2>1, <3>1 DEF FileInv, RestInv
      <3>3. Known(e) \/ copies[e] > 0
        BY <1>1, <2>5 DEF MemInv
      <3> QED
        BY <1>2, <2>5, <3>2, <3>3 DEF Held, Known
    <2> QED
      BY <1>2, <1>6, <2>3, <2>4, <2>5
  <1>7. \A f \in disk'.linked : Pending(f) \/ Reading(f) => FileHeld(f)'
    BY <1>5, <1>6 DEF FileHeld
  <1> QED
    BY <1>1, <1>2, <1>4, <1>7, FilesStay

LEMMA ReadFileFiles == ASSUME AllInv, PTypes', MemGrows, ReadFile PROVE FileInv'
  <1>1. /\ LogInv /\ FileInv /\ RecType /\ Shape(disk)' /\ writer # "down" /\ disk \in DiskType
        /\ disk' = disk /\ now' = now
    BY RecoveryRuns DEF AllInv, LogInv, Shape, TypeOK, RecType, ReadFile
  <1>2. PICK f \in rec.todo :
              /\ rec.stage = "file" /\ f \in Files
              /\ rec'.skip = rec.skip /\ rec'.todo = rec.todo \ {f}
              /\ \/ /\ f = rec.skip \/ f \notin disk.linked
                    /\ rec'.stage = "file"
                 \/ /\ f # rec.skip /\ f \in disk.linked
                    /\ rec'.stage = "replay" /\ rec'.file = f
                    /\ rec'.rest \in Readable(disk.content[f])
    BY <1>1, ReadFileForms
  <1>3. RestInv'
    <2>1. Readable(disk.content[f]) = {disk.content[f]}
      BY <1>1, <1>2, ContentIn DEF FileInv
    <2> QED
      BY <1>1, <1>2, <2>1 DEF RestInv
  <1>4. ASSUME NEW g \in disk'.linked, Pending(g) \/ Reading(g) PROVE FileHeld(g)'
    <2>1. Startup /\ g \in rec.todo /\ rec.skip = NoFile /\ f # NoFile
      BY <1>2, <1>4, FilesNat DEF Pending, Reading, Startup, NoFile
    <2>2. Startup'
      BY <1>2, <2>1 DEF Startup
    <2>3. Pending(g)' \/ Reading(g)'
      BY <1>1, <1>2, <1>4, <2>1, <2>2 DEF Pending, Reading
    <2> QED
      BY <2>3 DEF FileHeld
  <1> QED
    BY <1>1, <1>3, <1>4, FilesStay

LEMMA RecoveryFiles ==
    ASSUME AllInv, PTypes', MemGrows,
           MaintenanceRecovers \/ Replay \/ RecoveryDone \/ findWALFiles \/ DeleteRecovered
    PROVE  FileInv'
  <1>1. /\ LogInv /\ FileInv /\ RecType /\ Shape(disk) /\ disk \in DiskType /\ writer # "down"
    <2>1. LogInv /\ FileInv /\ RecType /\ Shape(disk) /\ disk \in DiskType
      BY DEF AllInv, LogInv, Shape, TypeOK, RecType
    <2>2. writer = "running" \/ rec.stage # "idle"
      BY DEF MaintenanceRecovers, BeginRecovery, Replay, ReplayEntry, RecoveryDone, EndRecovery,
             findWALFiles, DeleteRecovered
    <2> QED
      BY <2>1, <2>2, RecoveryRuns
  <1>2. CASE DeleteRecovered
    <2>1. /\ rec.stage = "replay" /\ rec'.stage = "file" /\ rec'.skip = rec.skip /\ rec'.todo = rec.todo
          /\ Shape(disk)' /\ disk'.linked = disk.linked \ {rec.file}
          /\ disk'.content = disk.content /\ disk'.mtime = disk.mtime /\ now' = now
      BY <1>1, <1>2, DeleteRecoveredForms
    <2>2. RestInv'
      BY <2>1 DEF RestInv
    <2>3. \A f \in disk'.linked : Pending(f) \/ Reading(f) => FileHeld(f)'
      BY <2>1 DEF Pending, Reading, Startup, FileHeld
    <2> QED
      BY <1>1, <2>1, <2>2, <2>3, FilesStay
  <1>3. CASE disk' = disk /\ now' = now /\ RestInv' /\
             \A f \in disk'.linked : Pending(f) \/ Reading(f) => FileHeld(f)'
    <2>1. Shape(disk)' /\ disk'.linked \subseteq disk.linked
      BY <1>1, <1>3 DEF Shape
    <2> QED
      BY <1>1, <1>3, <2>1, FilesStay
  <1>4. CASE MaintenanceRecovers
    <2>1. /\ rec.stage = "idle" /\ rec' = [Idle EXCEPT !.stage = "list", !.skip = disk.current]
          /\ disk' = disk /\ now' = now
      BY <1>4 DEF MaintenanceRecovers, BeginRecovery
    <2>2. rec'.stage = "list"
      BY <2>1 DEF Idle
    <2> QED
      BY <1>3, <2>1, <2>2 DEF RestInv, Pending, Reading, Startup
  <1>5. CASE Replay
    <2>1. /\ rec.stage = "replay" /\ rec'.stage = "replay" /\ rec'.skip = rec.skip
          /\ rec'.file = rec.file /\ rec'.todo = rec.todo /\ ToSet(rec'.rest) \subseteq ToSet(rec.rest)
      BY <1>1, <1>5, ReplayEntryForms DEF Replay
    <2>2. disk' = disk /\ now' = now
      BY <1>5 DEF Replay, ReplayEntry
    <2>3. RestInv'
      BY <1>1, <2>1, <2>2 DEF FileInv, RestInv
    <2> QED
      BY <1>3, <2>1, <2>2, <2>3 DEF Pending, Reading, Startup, FileHeld
  <1>6. CASE RecoveryDone
    <2>1. rec.stage = "file" /\ rec.todo = {} /\ rec' = Idle /\ disk' = disk /\ now' = now
      BY <1>6 DEF RecoveryDone, EndRecovery
    <2>2. rec'.stage = "idle"
      BY <2>1 DEF Idle
    <2> QED
      BY <1>3, <2>1, <2>2 DEF RestInv, Pending, Reading
  <1>7. CASE findWALFiles
    <2>1. /\ rec.stage = "list" /\ rec' = [rec EXCEPT !.stage = "file", !.todo = disk.linked]
          /\ disk' = disk /\ now' = now
      BY <1>7 DEF findWALFiles
    <2>2. rec'.stage = "file" /\ rec'.skip = rec.skip /\ rec'.todo = disk.linked
      BY <1>1, <2>1, RecFields
    <2> QED
      BY <1>3, <2>1, <2>2 DEF RestInv, Pending, Reading, Startup, FileHeld
  <1> QED
    BY <1>2, <1>4, <1>5, <1>6, <1>7

\* The purges take names away; the writer and the clock age no file and hold no entry back.
LEMMA PurgeFiles ==
    ASSUME AllInv, PTypes', MemGrows, EndPurge \/ PurgeAll PROVE FileInv'
  <1>1. /\ LogInv /\ FileInv /\ Shape(disk) /\ writer # "down"
        /\ EndPurge => rec.stage = "idle"
    BY DEF AllInv, LogInv, AtWork, NoPurge, EndPurge, PurgeAll
  <1>2. PICK L \in SUBSET disk.linked : /\ disk' = [disk EXCEPT !.linked = L]
                                        /\ PurgeAll => L = {}
    <2>1. CASE EndPurge /\ ~PurgeAll
      BY <2>1, EndPurgeUnlinks
    <2>2. CASE PurgeAll
      BY <2>2 DEF PurgeAll
    <2> QED
      BY <2>1, <2>2
  <1>3. rec' = rec /\ now' = now
    BY DEF EndPurge, PurgeAll
  <1>4. /\ Shape(disk)' /\ disk'.linked = L /\ disk'.content = disk.content
        /\ disk'.mtime = disk.mtime
    BY <1>1, <1>2, <1>3, UnlinkedShape
  <1>5. RestInv'
    BY <1>1, <1>3, <1>4 DEF FileInv, RestInv
  <1>6. \A f \in disk'.linked : Pending(f) \/ Reading(f) => FileHeld(f)'
    BY <1>1, <1>2, <1>4 DEF Pending, Reading, Startup
  <1> QED
    BY <1>1, <1>3, <1>4, <1>5, <1>6, FilesStay

LEMMA NewWriterFiles == ASSUME AllInv, NewWriter PROVE FileInv'
  <1>1. /\ NewWriter /\ LogInv /\ FileInv /\ writer = "down"
        /\ rec' = [Idle EXCEPT !.stage = "list"]
    BY DEF AllInv, NewWriter
  <1>2. rec'.stage = "list" /\ rec'.skip = NoFile
    BY <1>1 DEF Idle
  <1>3. disk'.content = disk.content
    <2>1. Next /\ ~WriteEntry /\ ~Exit /\ \A e \in Entries : ~AppendRaw(e)
      BY <1>1 DEF Next, WriterStep, NewWriter, WriteEntry, Writing, Exit, AppendRaw, Serving
    <2> QED
      BY <1>1, <2>1, QuietStep
  <1>4. NoTorn' /\ RestInv'
    BY <1>1, <1>2, <1>3 DEF FileInv, NoTorn, RestInv
  <1>5. \A f : Pending(f)'
    BY <1>2 DEF Pending, Startup
  <1> QED
    BY <1>4, <1>5 DEF FileInv, FileHeld

LEMMA WriterFiles ==
    ASSUME AllInv, LogInv', PTypes', MemGrows, SyncTick \/ DrainEnds \/ CloseWriter PROVE FileInv'
  <1>1. /\ LogInv /\ FileInv /\ InUse(disk) /\ writer # "down" /\ rec' = rec /\ now' = now
    BY DEF AllInv, LogInv, AtWork, InUse, SyncTick, DrainEnds, CloseWriter
  <1>2. disk' \in Syncs(disk) \cup {disk}
    BY DEF SyncTick, DrainEnds, CloseWriter
  <1>3. /\ disk'.content = disk.content /\ disk'.mtime = disk.mtime /\ disk'.linked = disk.linked
    BY <1>1, <1>2, SyncedType
  <1>4. RestInv'
    BY <1>1, <1>3 DEF FileInv, RestInv
  <1>5. \A f \in disk'.linked : Pending(f) \/ Reading(f) => FileHeld(f)'
    BY <1>1 DEF Pending, Reading, Startup, FileHeld
  <1>6. Shape(disk)'
    BY DEF LogInv
  <1> QED
    BY <1>1, <1>3, <1>4, <1>5, <1>6, FilesStay

LEMMA TimePassesFiles == ASSUME AllInv, TimePasses PROVE FileInv'
  <1>1. /\ LogInv /\ FileInv
        /\ UNCHANGED <<disk, rec, writer, replayed, call, copies, heldSince, durable, failed, letGo>>
        /\ \A e \in Entries : call[e] # "logged"
    BY DEF AllInv, TimePasses, Tick, memVars
  <1>2. NoTorn' /\ RestInv'
    BY <1>1 DEF FileInv, NoTorn, RestInv
  <1>3. ASSUME writer # "down", NEW f \in disk.linked PROVE FileHeld(f)'
    <2>1. f \in Files
      BY <1>1, <1>3 DEF LogInv, Shape, DiskType
    <2>2. CASE Pending(f) \/ Reading(f)
      BY <1>1, <2>2 DEF Pending, Reading, Startup, FileHeld
    <2>3. CASE \A e \in ToSet(disk.content[f]) : Held(f, e)
      <3> SUFFICES ASSUME NEW e \in ToSet(disk.content[f]) PROVE Held(f, e)'
        BY <1>1 DEF FileHeld
      <3>1. e \in Entries
        BY <1>1, <2>1, ContentIn DEF FileInv
      <3>2. call[e] # "logged"
        BY <1>1, <3>1
      <3>3. Held(f, e)
        BY <2>3
      <3>4. Known(e) => Known(e)'
        BY <1>1 DEF Known
      <3> QED
        BY <1>1, <3>2, <3>3, <3>4 DEF Held
    <2> QED
      BY <1>1, <1>3, <2>2, <2>3 DEF FileInv, FileHeld
  <1> QED
    BY <1>1, <1>2, <1>3 DEF FileInv

LEMMA FileStep ==
    ASSUME ~WritesMayFail, AllInv, LogInv', PTypes', [PNext]_pipeVars
    PROVE  FileInv'
  <1>1. CASE ProcessExit
    <2>1. /\ FileInv /\ disk' = disk /\ writer' = "down" /\ rec' = Idle
      BY <1>1 DEF AllInv, ProcessExit, Exit
    <2>2. rec'.stage = "idle"
      BY <2>1 DEF Idle
    <2> QED
      BY <2>1, <2>2 DEF FileInv, NoTorn, RestInv
  <1>2. CASE ~ProcessExit
    <2>1. MemGrows
      BY <1>2, MemoryGrows DEF AllInv
    <2>2. CASE \/ \E e \in Entries :
                     LogCall(e) \/ BufferCall(e) \/ FlushOK(e) \/ FlushFails(e) \/ LetGo(e)
               \/ MaintenanceTick
      <3>1. UNCHANGED <<disk, rec, now, writer>>
        BY <2>2 DEF LogCall, AppendRaw, BufferCall, FlushOK, FlushFails, LetGo, MaintenanceTick,
                    BeginPurge, walVars
      <3> QED
        BY <2>1, <3>1, MemoryOnly
    <2>3. CASE UNCHANGED pipeVars
      BY <2>1, <2>3, MemoryOnly DEF pipeVars, walVars
    <2>4. CASE MaintenancePurged \/ PurgeHook
      BY <2>1, <2>4, PurgeFiles DEF MaintenancePurged, PurgeHook
    <2>5. CASE MaintenanceRecovers \/ Replay \/ RecoveryDone \/ RecoveryGoesOn
      BY <2>1, <2>5, RecoveryFiles, ReadFileFiles DEF RecoveryGoesOn
    <2>6. CASE ReplayRefused
      BY <2>1, <2>6, ReplayRefusedFiles
    <2>7. CASE CloseComponents
      BY <2>1, <2>7, WriterFiles DEF CloseComponents
    <2>8. CASE WalGoesOn
      <3>1. call' = call
        BY <2>8 DEF WalGoesOn
      <3> QED
        BY <2>1, <2>8, <3>1, NewWriterFiles, WriteEntryFiles, WriterFiles DEF WalGoesOn
    <2>9. CASE TimePasses
      BY <2>9, TimePassesFiles
    <2> QED
      BY <1>2, <2>2, <2>3, <2>4, <2>5, <2>6, <2>7, <2>8, <2>9 DEF PNext
  <1> QED
    BY <1>1, <1>2

LEMMA AllStep == ~WritesMayFail /\ AllInv /\ [PNext]_pipeVars => AllInv'
  <1> SUFFICES ASSUME ~WritesMayFail, AllInv, [PNext]_pipeVars PROVE AllInv'
    OBVIOUS
  <1>1. LogInv' /\ PTypes' /\ MemInv'
    BY LogStep, PipelineStep, PTypesStep, MemStep DEF AllInv
  <1>2. FileInv'
    BY <1>1, FileStep
  <1> QED
    BY <1>1, <1>2 DEF AllInv

LEMMA InitAll == PInit => AllInv
  <1> SUFFICES ASSUME PInit PROVE AllInv
    OBVIOUS
  <1>1. /\ Init /\ writer = "down" /\ rec = Idle /\ \A f \in Files : disk.content[f] = <<>>
    BY DEF PInit, Init
  <1>2. rec.stage = "idle"
    BY <1>1 DEF Idle
  <1>3. FileInv
    BY <1>1, <1>2, EmptyHasNone DEF FileInv, NoTorn, RestInv
  <1> QED
    BY <1>1, <1>3, InitLog, InitPTypes, InitMem DEF AllInv

-----------------------------------------------------------------------------
(* What may be taken from the directory.                                   *)

LEMMA NewWriterLinks ==
    ASSUME Shape(disk), now \in Nat, NewWriter PROVE disk.linked \subseteq disk'.linked
  <1> DEFINE d == [disk EXCEPT !.bytesSinceSync = 0]
  <1>1. disk' \in Rotated(d) /\ disk.made < MaxFiles /\ disk \in DiskType /\ Shape(disk)
    BY DEF NewWriter, Shape
  <1>2. /\ Shape(d) /\ d.bytesSinceSync = 0 /\ d.made = disk.made /\ d.linked = disk.linked
    <2>1. 0 \in Nat
      OBVIOUS
    <2>2. /\ d \in DiskType /\ d.content = disk.content /\ d.made = disk.made
          /\ d.linked = disk.linked /\ d.current = disk.current /\ d.mtime = disk.mtime
          /\ d.bytesSinceSync = 0
      BY <1>1, <2>1 DEF DiskType
    <2> HIDE DEF d
    <2> QED
      BY <1>1, <2>2 DEF Shape
  <1> HIDE DEF d
  <1>3. disk'.linked = disk.linked \cup {d.made + 1}
    BY <1>1, <1>2, RotatedType
  <1> QED
    BY <1>3

\* The file in use: a purge has read its path, or began before it was made.
LEMMA CurrentStays == ASSUME LogInv, [PNext]_pipeVars PROVE CurrentFileKept
  <1> SUFFICES ASSUME disk.current \in disk.linked, disk'.current = disk.current,
                      writer' = "running"
               PROVE  \/ disk.current \in disk'.linked
                      \/ DeleteRecovered /\ (rec.skip = NoFile \/ rec.skip <= rec.file)
    BY DEF CurrentFileKept
  <1>1. [Next]_walVars /\ TypeOK /\ RecType /\ Shape(disk) /\ disk \in DiskType /\ now \in Nat
    BY PipelineStep, WalConstants DEF LogInv, TypeOK, RecType, Shape
  <1>2. disk.current \in Files /\ disk.current \in Nat
    BY <1>1, DiskNumbers DEF Shape, DiskType
  <1>3. CASE DeleteRecovered
    <2>1. disk'.linked = disk.linked \ {rec.file} /\ rec.stage = "replay"
      BY <1>1, <1>3, DeleteRecoveredForms
    <2>2. rec.skip <= disk.current
      BY DEF LogInv, AtWork
    <2> QED
      BY <1>3, <2>1, <2>2
  <1>4. CASE EndPurge
    <2>1. disk' = [disk EXCEPT !.linked = {f \in disk.linked : ~Purgeable(f)}] /\ now' = now
          /\ purge.on
      BY <1>4, EndPurgeUnlinks DEF EndPurge
    <2>2. disk'.linked = {f \in disk.linked : ~Purgeable(f)}
      <3>1. {f \in disk.linked : ~Purgeable(f)} \subseteq disk.linked
        OBVIOUS
      <3> QED
        BY <1>1, <2>1, <3>1, UnlinkedShape
    <2>3. purge.active = disk.current \/ disk.mtime[disk.current] >= purge.time
      BY <2>1 DEF LogInv, PurgePath
    <2>4. purge.time \in Nat /\ disk.mtime[disk.current] \in Nat /\ SafeAge \in Nat
      <3>1. purge.time \in 0..MaxTime /\ MaxTime \in Nat /\ SafeAge \in Nat
        BY <1>1, WalConstants DEF TypeOK
      <3> QED
        BY <1>1, <1>2, <3>1, DiskNumbers
    <2>5. ~Purgeable(disk.current)
      BY <2>3, <2>4 DEF Purgeable
    <2> QED
      BY <2>2, <2>5
  <1>5. CASE WriteEntry
    <2>1. InUse(disk) /\ chan \in Seq(Entries)
      BY <1>1, <1>2 DEF InUse, TypeOK
    <2>2. disk' \in GrownFrom(disk, {Head(chan)}) \/ disk' \in GrownFrom(disk, {})
      BY <1>1, <1>5, <2>1, WriteEntryGrows
    <2> QED
      BY <2>2 DEF GrownFrom
  <1>6. CASE SyncTick \/ DrainEnds \/ CloseWriter
    <2>1. InUse(disk) /\ disk' \in Syncs(disk) \cup {disk}
      BY <1>1, <1>2, <1>6 DEF InUse, SyncTick, DrainEnds, CloseWriter
    <2> QED
      BY <2>1, SyncedType
  <1>7. CASE NewWriter
    <2>3. disk.linked \subseteq disk'.linked
      BY <1>1, <1>7, NewWriterLinks
    <2> QED
      BY <2>3
  <1>8. CASE PurgeAll \/ Exit
    BY <1>8 DEF PurgeAll, Exit
  <1>9. CASE disk' = disk
    BY <1>9
  <1>10. CASE \/ \E e \in Entries : AppendRaw(e)
              \/ BeginPurge \/ Tick \/ BeginRecovery \/ findWALFiles \/ ReadFile \/ ReplayEntry
              \/ ReplayFails \/ EndRecovery \/ UNCHANGED walVars
    BY <1>9, <1>10 DEF AppendRaw, BeginPurge, Tick, BeginRecovery, findWALFiles, ReadFile,
                 ReplayEntry, ReplayFails, EndRecovery, walVars
  <1> QED
    BY <1>1, <1>3, <1>4, <1>5, <1>6, <1>7, <1>8, <1>10
       DEF Next, WriterStep, PurgeStep, RecoveryStep

\* A file old enough for the purge has no entry that memory still holds.
LEMMA PurgedAreKnown ==
    ASSUME AllInv, SafeAge >= MaxHold, EndPurge, NEW f \in disk.linked \ disk'.linked,
           NEW e \in ToSet(disk.content[f]) \ {Torn}
    PROVE  e \in durable \cup failed \cup letGo \cup KeptForRetry(f)
  <1>1. /\ LogInv /\ PTypes /\ MemInv /\ FileInv /\ Shape(disk) /\ disk \in DiskType
        /\ purge.on /\ writer # "down" /\ rec.stage = "idle"
    BY DEF AllInv, LogInv, Shape, AtWork, NoPurge, EndPurge
  <1>2. f \in Files /\ Purgeable(f)
    <2>1. disk' = [disk EXCEPT !.linked = {g \in disk.linked : ~Purgeable(g)}] /\ now' = now
      BY EndPurgeUnlinks DEF EndPurge
    <2>2. disk'.linked = {g \in disk.linked : ~Purgeable(g)}
      <3>1. {g \in disk.linked : ~Purgeable(g)} \subseteq disk.linked
        OBVIOUS
      <3> QED
        BY <1>1, <2>1, <3>1, UnlinkedShape
    <2> QED
      BY <1>1, <2>2 DEF DiskType
  <1>3. e \in Entries /\ Held(f, e)
    BY <1>1, <1>2, ContentIn DEF FileInv, FileHeld, Pending, Reading, Startup
  <1>4. /\ purge.time \in Nat /\ now \in Nat /\ disk.mtime[f] \in Nat /\ heldSince[e] \in Nat
        /\ SafeAge \in Nat /\ MaxHold \in Nat
        /\ purge.time <= now /\ purge.time > disk.mtime[f] + SafeAge
    <2>1. purge.time \in 0..MaxTime /\ MaxTime \in Nat /\ SafeAge \in Nat
      BY <1>1, WalConstants DEF LogInv, TypeOK
    <2>2. purge.time <= now /\ purge.time > disk.mtime[f] + SafeAge
      BY <1>1, <1>2 DEF LogInv, PurgePath, Purgeable
    <2> QED
      BY <1>1, <1>2, <1>3, <2>1, <2>2, MemoryNumbers, DiskNumbers
  <1>5. ~(disk.mtime[f] >= now)
    BY <1>4
  <1>6. CASE copies[e] > 0 /\ heldSince[e] <= disk.mtime[f]
    <2>1. now <= heldSince[e] + MaxHold
      BY <1>1, <1>3, <1>6 DEF MemInv
    <2> QED
      BY <1>4, <1>6, <2>1
  <1> QED
    BY <1>3, <1>5, <1>6 DEF Held, Known, KeptForRetry

\* What the purge by age removes is durable, or known not to be, as long as the purge waits for
\* at least as long as memory may hold a copy, and no file write fails: every linked file that
\* recovery has dealt with is FileHeld.
THEOREM PurgedIsDurableCorrect ==
    ASSUME SafeAge >= MaxHold, ~WritesMayFail
    PROVE  PSpec => PurgedIsDurable
  <1>1. AllInv /\ [PNext]_pipeVars => AllInv'
    BY AllStep
  <1>2. AllInv /\ [PNext]_pipeVars =>
           [/\ CurrentFileKept
            /\ EndPurge =>
                 \A f \in disk.linked \ disk'.linked :
                     ToSet(disk.content[f]) \ {Torn} \subseteq
                         durable \cup failed \cup letGo \cup KeptForRetry(f)]_pipeVars
    BY CurrentStays, PurgedAreKnown DEF AllInv
  <1> QED
    BY <1>1, <1>2, InitAll, PTL DEF PSpec, PurgedIsDurable

\* A linked file that recovery does not have before it gives up an entry only to memory.
LEMMA HeldIsCovered ==
    ASSUME MemInv, NEW f, NEW e, Held(f, e) PROVE Covered(e)
  BY DEF Held, Covered

\* An entry of a file that loses its name.
LEMMA UnlinkedIsCovered ==
    ASSUME AllInv, [PNext]_pipeVars, ~ProcessExit, NEW f \in disk.linked, f \notin disk'.linked,
           NEW e \in ToSet(disk.content[f])
    PROVE  Covered(e) /\ writer # "down"
  <1>1. /\ LogInv /\ MemInv /\ FileInv /\ RecType /\ Shape(disk) /\ disk \in DiskType
        /\ f \in Files
    BY DEF AllInv, LogInv, Shape, TypeOK, RecType, DiskType
  <1>2. CASE DeleteRecovered
    <2>1. /\ rec.stage = "replay" /\ rec.rest = <<>> /\ f = rec.file
      BY <1>1, <1>2, DeleteRecoveredForms
    <2>2. writer # "down"
      BY <1>1, <2>1, RecoveryRuns
    <2>3. CASE rec.skip = NoFile
      <3>1. ToSet(disk.content[f]) \subseteq replayed
        BY <1>1, <1>2, <2>1, <2>3, DeletesReplayed, ContentIn DEF FileInv
      <3> QED
        BY <1>1, <2>2, <3>1 DEF MemInv, Covered
    <2>4. CASE rec.skip # NoFile
      <3>1. Held(f, e)
        BY <1>1, <2>2, <2>4 DEF FileInv, FileHeld, Pending, Reading, Startup
      <3> QED
        BY <1>1, <2>2, <3>1, HeldIsCovered
    <2> QED
      BY <2>3, <2>4
  <1>3. CASE EndPurge \/ PurgeHook
    <2>1. writer # "down" /\ ~Startup
      BY <1>1, <1>3 DEF LogInv, AtWork, NoPurge, EndPurge, PurgeHook, PurgeAll, Startup
    <2>2. Held(f, e)
      BY <1>1, <2>1 DEF FileInv, FileHeld, Pending, Reading
    <2> QED
      BY <1>1, <2>1, <2>2, HeldIsCovered
  <1>4. CASE disk.linked \subseteq disk'.linked
    BY <1>4
  <1>5. CASE WalGoesOn \/ CloseComponents
    <2>1. CASE WriteEntry
      <3>1. InUse(disk) /\ chan \in Seq(Entries) /\ now \in Nat
        BY <1>1, <2>1, WalConstants DEF LogInv, AtWork, TypeOK, InUse, WriteEntry, Writing
      <3>2. disk' \in GrownFrom(disk, {Head(chan)}) \/ disk' \in GrownFrom(disk, {})
        BY <2>1, <3>1, WriteEntryGrows
      <3> QED
        BY <1>4, <3>2 DEF GrownFrom
    <2>2. CASE SyncTick \/ DrainEnds \/ CloseWriter
      <3>1. InUse(disk) /\ disk' \in Syncs(disk) \cup {disk}
        BY <1>1, <2>2 DEF LogInv, AtWork, InUse, SyncTick, DrainEnds, CloseWriter
      <3> QED
        BY <1>4, <3>1, SyncedType
    <2>3. CASE NewWriter
      <3>1. now \in Nat
        BY <1>1, WalConstants DEF LogInv, TypeOK
      <3> QED
        BY <1>1, <1>4, <2>3, <3>1, NewWriterLinks
    <2> QED
      BY <1>5, <2>1, <2>2, <2>3 DEF WalGoesOn, CloseComponents
  <1>6. CASE \/ \E x \in Entries :
                   LogCall(x) \/ BufferCall(x) \/ FlushOK(x) \/ FlushFails(x) \/ LetGo(x)
             \/ MaintenanceTick \/ MaintenanceRecovers \/ Replay \/ ReplayRefused \/ RecoveryDone
             \/ findWALFiles \/ ReadFile \/ TimePasses \/ UNCHANGED pipeVars
    <2>1. disk' = disk
      BY <1>6 DEF LogCall, AppendRaw, BufferCall, FlushOK, FlushFails, LetGo, MaintenanceTick,
                  BeginPurge, MaintenanceRecovers, BeginRecovery, Replay, ReplayEntry, ReplayRefused,
                  ReplayFails, RecoveryDone, EndRecovery, findWALFiles, ReadFile, TimePasses, Tick,
                  walVars, pipeVars
    <2> QED
      BY <1>4, <2>1
  <1> QED
    BY <1>2, <1>3, <1>5, <1>6 DEF PNext, MaintenancePurged, RecoveryGoesOn

LEMMA WriterLives ==
    ASSUME [PNext]_pipeVars, ~ProcessExit, writer # "down" PROVE writer' # "down"
  <1>1. CASE UNCHANGED pipeVars
    BY <1>1 DEF pipeVars, walVars
  <1>2. CASE \E e \in Entries :
                LogCall(e) \/ BufferCall(e) \/ FlushOK(e) \/ FlushFails(e) \/ LetGo(e)
    BY <1>2 DEF LogCall, AppendRaw, BufferCall, FlushOK, FlushFails, LetGo, walVars
  <1>3. CASE \/ MaintenanceTick \/ MaintenancePurged \/ MaintenanceRecovers \/ Replay
             \/ ReplayRefused \/ RecoveryDone \/ RecoveryGoesOn
    BY <1>3 DEF MaintenanceTick, BeginPurge, MaintenancePurged, EndPurge, MaintenanceRecovers,
                BeginRecovery, Replay, ReplayEntry, ReplayRefused, ReplayFails, RecoveryDone,
                EndRecovery, RecoveryGoesOn, findWALFiles, ReadFile, DeleteRecovered
  <1>4. CASE PurgeHook \/ CloseComponents \/ WalGoesOn \/ TimePasses
    BY <1>4 DEF PurgeHook, PurgeAll, CloseComponents, CloseWriter, WalGoesOn, NewWriter, WriteEntry,
                SyncTick, DrainEnds, TimePasses, Tick
  <1> QED
    BY <1>1, <1>2, <1>3, <1>4 DEF PNext

LEMMA ContentGrows ==
    ASSUME LogInv, [PNext]_pipeVars, NEW f \in Files
    PROVE  ToSet(disk.content[f]) \subseteq ToSet(disk'.content[f])
  <1>1. [Next]_walVars
    BY PipelineStep
  <1>2. CASE WriteEntry
    <2>1. InUse(disk) /\ chan \in Seq(Entries) /\ now \in Nat
      BY <1>2, WalConstants DEF LogInv, AtWork, TypeOK, InUse, WriteEntry, Writing
    <2>2. disk' \in GrownFrom(disk, {Head(chan)}) \/ disk' \in GrownFrom(disk, {})
      BY <1>2, <2>1, WriteEntryGrows
    <2> QED
      BY <2>2 DEF GrownFrom
  <1>3. CASE Exit \/ (\E e \in Entries : AppendRaw(e)) \/ UNCHANGED walVars
    BY <1>3 DEF Exit, AppendRaw, walVars
  <1>4. CASE Next /\ ~WriteEntry /\ ~Exit /\ \A e \in Entries : ~AppendRaw(e)
    BY <1>4, QuietStep
  <1> QED
    BY <1>1, <1>2, <1>3, <1>4

\* While the process lives every entry keeps a copy, in a linked file, in memory or in object
\* storage, unless a flush or a replay of it fails or it is let go: as no file write fails, a
\* file that loses its name has only entries that are covered elsewhere.
THEOREM NeverWithoutCopyCorrect ==
    ASSUME ~WritesMayFail
    PROVE  PSpec => NeverWithoutCopy
  <1>1. AllInv /\ [PNext]_pipeVars => AllInv'
    BY AllStep
  <1>2. ASSUME AllInv, [PNext]_pipeVars, ~ProcessExit, NEW e \in Entries,
               InLog(e) \/ InMemory(e) \/ e \in durable
        PROVE  (InLog(e) \/ InMemory(e) \/ e \in durable)' \/ e \in failed' \cup letGo'
    <2>1. MemGrows
      BY <1>2, MemoryGrows DEF AllInv
    <2>2. CASE e \in durable
      BY <2>1, <2>2 DEF MemGrows
    <2>3. CASE InMemory(e) \/ (Covered(e) /\ writer # "down")
      <3>1. writer # "down" => writer' # "down"
        BY <1>2, WriterLives
      <3>2. \/ e \in durable' \cup failed' \cup letGo' \/ copies'[e] > 0
            \/ writer # "down" /\ call'[e] = "logged"
        BY <2>1, <2>3 DEF MemGrows, Covered, Known, InMemory
      <3> QED
        BY <2>3, <3>1, <3>2 DEF InMemory
    <2>4. CASE InLog(e)
      <3>1. PICK f \in disk.linked : e \in ToSet(disk.content[f])
        BY <2>4 DEF InLog
      <3>2. CASE f \in disk'.linked
        <4>1. ToSet(disk.content[f]) \subseteq ToSet(disk'.content[f])
          BY <1>2, <3>1, ContentGrows DEF AllInv, LogInv, Shape, DiskType
        <4> QED
          BY <3>1, <3>2, <4>1 DEF InLog
      <3>3. CASE f \notin disk'.linked
        BY <1>2, <2>3, <3>1, <3>3, UnlinkedIsCovered
      <3> QED
        BY <3>2, <3>3
    <2> QED
      BY <1>2, <2>2, <2>3, <2>4
  <1>3. AllInv /\ [PNext]_pipeVars =>
           [\A e \in Entries :
              InLog(e) \/ InMemory(e) \/ e \in durable =>
                 \/ (InLog(e) \/ InMemory(e) \/ e \in durable)'
                 \/ e \in failed' \cup letGo'
                 \/ ProcessExit]_pipeVars
    BY <1>2
  <1> QED
    BY <1>1, <1>3, InitAll, PTL DEF PSpec, NeverWithoutCopy
=============================================================================
