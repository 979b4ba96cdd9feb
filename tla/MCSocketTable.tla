---------------------------- MODULE MCSocketTable ----------------------------
(* SocketTable with two records, so that records are reused soon. *)
EXTENDS SocketTable, TLC

Symmetry == Permutations(Workers)
==============================================================================
