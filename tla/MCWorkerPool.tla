---------------------------- MODULE MCWorkerPool ----------------------------
(***************************************************************************)
(* Instances of WorkerPool for TLC.  The workers are interchangeable.      *)
(***************************************************************************)
EXTENDS WorkerPool, TLC

Symmetry == Permutations(Workers)
==============================================================================
