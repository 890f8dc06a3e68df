--------------------------- MODULE MCDocumentQueue ---------------------------
(* Small instances of DocumentQueue for TLC.                               *)
EXTENDS DocumentQueue

ConsumerSymmetry == Permutations(Consumers)
=============================================================================
