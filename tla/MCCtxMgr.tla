------------------------------ MODULE MCCtxMgr ------------------------------
(***************************************************************************)
(* Instances of CtxMgr for TLC.  Contexts are interchangeable.             *)
(***************************************************************************)
EXTENDS CtxMgr, TLC

Symmetry == Permutations(Contexts)
==============================================================================
