-------------------------- MODULE MCDocumentService --------------------------
(* Small instances of DocumentService for TLC.                             *)
EXTENDS DocumentService, TLC

CONSTANTS w1, w2, u1, u2, i1, i2

(* The first upload is cut into two chunks and the others into one, so a   *)
(* shorter text can leave a tail of a longer one, and an upsert can stop   *)
(* half way.                                                               *)
ChunkCounts == [t \in Contents |-> IF t = u1 THEN 2 ELSE 1]

WorkerSymmetry == Permutations(Workers)
=============================================================================
