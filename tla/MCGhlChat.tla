----------------------------- MODULE MCGhlChat -----------------------------
(* The GHL chat with conversations of one owner.                           *)
EXTENDS GhlChat, TLC

CONSTANTS u1

MCOwnerOf == [c \in Conversations |-> u1]

(* Conversations of one owner, workers and request keys are alike.         *)
MCSymmetry == Permutations(Conversations) \cup Permutations(Workers) \cup Permutations(Keys)
=============================================================================
