--------------------------- MODULE BufferContract ---------------------------
(***************************************************************************)
(* What the ingest buffer promises of each batch a write call brings,      *)
(* whatever goroutines are involved: a call is refused, and then its batch *)
(* never appears anywhere, or it is taken into memory; and a batch in      *)
(* memory leaves it once and for all, as durable, as part of a flush that  *)
(* is reported failed, or as part of one that was not queued.  Batches     *)
(* leave together: a flush is all or nothing.                              *)
(***************************************************************************)
CONSTANT Batches

VARIABLE status

Init == status = [b \in Batches |-> "calling"]

Become(S, v) ==
    status' = [b \in Batches |-> IF b \in S THEN v ELSE status[b]]

InStatus(v) == {b \in Batches : status[b] = v}

Refuse == \E b \in InStatus("calling") : Become({b}, "refused")
Hold   == \E b \in InStatus("calling") : Become({b}, "held")
Settle == \E S \in (SUBSET InStatus("held")) \ {{}}, 
             v \in {"durable", "failed", "dropped"} : Become(S, v)

Next == Refuse \/ Hold \/ Settle

Spec == Init /\ [][Next]_status

=============================================================================
