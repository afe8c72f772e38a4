----------------------------- MODULE MCMeetings -----------------------------
(***************************************************************************)
(* The tasklist and the meeting inbox beside each other: a behaviour that  *)
(* interleaves them shows each no more than one in which "part" moves.     *)
(***************************************************************************)
EXTENDS MeetingTasklist, FathomInbox, TLC

VARIABLE part

Init == part \in {"list", "inbox"} /\ ListInit /\ FathomInit

Next == /\ UNCHANGED part
        /\ \/ part = "list" /\ ListNext /\ UNCHANGED fathomVars
           \/ part = "inbox" /\ FathomNext /\ UNCHANGED listVars

Spec == Init /\ [][Next]_<<part, listVars, fathomVars>>

\* The rows, locks and requests of both are what their models say.
MeetingTypesOK == ListTypeOK /\ FathomTypeOK

MCSymmetry == Permutations(Items) \cup Permutations(Jobs)
=============================================================================
