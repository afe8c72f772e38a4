------------------------- MODULE MCTaskCompletion -------------------------
EXTENDS TaskCompletion, TLC

(* Staff reopen and complete.                                              *)
MCChoices == {"TODO", "DONE"}

(* Clients and workers are alike.                                          *)
MCSymmetry == Permutations(Clients) \cup Permutations(Workers)
=============================================================================
