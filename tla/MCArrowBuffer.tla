--------------------------- MODULE MCArrowBuffer ---------------------------
(* Instances of ArrowBuffer for TLC.  The first key sees two schemas, one  *)
(* batch spans two hours, and b3 reaches MaxBufferSize alone.              *)
EXTENDS ArrowBuffer, TLC

CONSTANTS b1, b2, b3, b4, k1, k2, d1, i64, f64

MCKeyOf == (b1 :> k1) @@ (b2 :> k1) @@ (b3 :> k1) @@ (b4 :> k2)
MCSigOf == (b1 :> i64) @@ (b2 :> i64) @@ (b3 :> f64) @@ (b4 :> i64)
MCRowsOf == (b1 :> 1) @@ (b2 :> 1) @@ (b3 :> 2) @@ (b4 :> 1)
MCHoursOf == (b1 :> {1, 2}) @@ (b2 :> {1}) @@ (b3 :> {2}) @@ (b4 :> {1})

KeyOfBatches   == [b \in Batches |-> MCKeyOf[b]]
SigOfBatches   == [b \in Batches |-> MCSigOf[b]]
RowsOfBatches  == [b \in Batches |-> MCRowsOf[b]]
HoursOfBatches == [b \in Batches |-> MCHoursOf[b]]

\* b1 and b2 are alike, and b3 spans two hours.
AlikeHours == [b \in Batches |-> IF b = b3 THEN {1, 2} ELSE {1}]
Alike == Permutations({b1, b2})

\* Both keys in one lock shard.
OneShard  == [k \in Keys |-> d1]
=============================================================================
