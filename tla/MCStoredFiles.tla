--------------------------- MODULE MCStoredFiles ---------------------------
(* Instances of StoredFiles for TLC.  Cycles and requests are                *)
(* interchangeable.                                                          *)
EXTENDS StoredFiles, TLC

CONSTANTS low, high, blank  \* kinds of rows: by a column's value, blank for no value

\* Three clauses over that column: a comparison that is NULL of the rows without
\* a value and FALSE of others, one that leaves no row of a file, and one (with
\* IS NOT NULL in it) that is NULL of no row.
Where(yes, null) == [where |-> yes, unknown |-> null]
WhereClauses == {Where({low}, {blank}), Where({low, high}, {blank}), Where({high}, {})}

Alike == Permutations(Cycles) \cup Permutations(Requests)
=============================================================================
