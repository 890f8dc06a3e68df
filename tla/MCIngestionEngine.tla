-------------------------- MODULE MCIngestionEngine --------------------------
(* Small instances of IngestionEngine for TLC.                             *)
EXTENDS IngestionEngine

CONSTANTS w1, w2, u1, u2, i1

ChunkCounts == [t \in Contents |-> 1]
=============================================================================
