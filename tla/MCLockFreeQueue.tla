--------------------------- MODULE MCLockFreeQueue ---------------------------
(***************************************************************************)
(* Instances of LockFreeQueue for TLC.  NoValue is a model value; threads  *)
(* and values are interchangeable.                                         *)
(***************************************************************************)
EXTENDS LockFreeQueue, TLC

Symmetry == Permutations(Threads) \cup Permutations(Values)
==============================================================================
