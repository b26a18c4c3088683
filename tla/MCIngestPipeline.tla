-------------------------- MODULE MCIngestPipeline --------------------------
(* Instances of IngestPipeline for TLC; entries are interchangeable.       *)
EXTENDS IngestPipeline, TLC

EntrySymmetry == Permutations(Entries)
=============================================================================
