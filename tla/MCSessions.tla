----------------------------- MODULE MCSessions ------------------------------
(* Sessions with two services that call each other and themselves. *)
EXTENDS Sessions, TLC

Symmetry == Permutations(Services)

\* Bound: messages in the queue of one service.
MaxInbox == 2
ShortInboxes == \A s \in Services : Len(inbox[s]) <= MaxInbox
==============================================================================
