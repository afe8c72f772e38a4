--------------------------- MODULE MCSlackIntake ---------------------------
(* One channel with a thread that begins with e1.                          *)
EXTENDS SlackIntake, TLC

CONSTANTS e1

MCChannels == {1}
MCChannelOf == [e \in Events |-> 1]
MCRootOf == [e \in Events |-> e1]
MCTagged == {e1}

(* People change settings and tasks while messages are young, and grown old *)
(* they meet one worker at a time, within its lease: the purge is run      *)
(* beside deliveries, edits and a worker, and not beside everything.       *)
MCScene ==
  \/ old = {}
  \/ /\ changes = 0 /\ lapsed = {}
     /\ \A w, x \in Workers : w # x => "idle" \in {pc[w], pc[x]}

MCSpec == Init /\ [][Next /\ MCScene']_vars

(* Staff and workers are alike.                                            *)
MCSymmetry == Permutations(Staff) \cup Permutations(Workers)
=============================================================================
