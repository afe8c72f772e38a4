---------------------------- MODULE ChatLedger ----------------------------
(***************************************************************************)
(* What the GHL chat promises about the remote account, whatever its       *)
(* workers, queues and failures do: a mutation reaches the account only    *)
(* because the owner of some run authorised exactly that mutation, and it  *)
(* reaches it at most once, whichever run asks for it.                     *)
(***************************************************************************)
EXTENDS Integers, Sequences

CONSTANTS
  Requests,     (* runs that may ask for a mutation                        *)
  Mutations,    (* distinct mutations of the remote account                *)
  Nothing

VARIABLES
  authorised,   (* the mutation each request was authorised to perform     *)
  applied       (* per mutation, the requests it was applied for, in order *)

ledgerVars == <<authorised, applied>>

Init ==
  /\ authorised = [r \in Requests |-> Nothing]
  /\ applied = [m \in Mutations |-> <<>>]

Authorise(r, m) ==
  /\ authorised[r] = Nothing
  /\ authorised' = [authorised EXCEPT ![r] = m]
  /\ UNCHANGED applied

Apply(r, m) ==
  /\ authorised[r] = m
  /\ applied[m] = <<>>
  /\ applied' = [applied EXCEPT ![m] = <<r>>]
  /\ UNCHANGED authorised

Next == \E r \in Requests, m \in Mutations : Authorise(r, m) \/ Apply(r, m)

Spec == Init /\ [][Next]_ledgerVars
=============================================================================
