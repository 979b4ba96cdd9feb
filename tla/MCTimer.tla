------------------------------- MODULE MCTimer -------------------------------
(* Timer with two threads, one of which also gets the signal. *)
EXTENDS Timer
==============================================================================
