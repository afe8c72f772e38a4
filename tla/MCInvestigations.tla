-------------------------- MODULE MCInvestigations --------------------------
(* One thread of one client, one worker that may die and one request.      *)
EXTENDS Investigations

CONSTANTS i1, w1, r1
=============================================================================
