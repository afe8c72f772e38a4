------------------------------- MODULE Vault -------------------------------
(***************************************************************************)
(* The secrets of providers are stored encrypted. When the encryption      *)
(* secret is replaced the old one stays as a fallback, reencrypt_secrets   *)
(* rewrites every row, and then the fallback is dropped. Slack and GHL     *)
(* rows are rewritten if they are still what was read, the others blindly. *)
(***************************************************************************)
EXTENDS Naturals

CONSTANTS
    Guarded,        \* rows of SlackContextGrant and GhlConnection
    Blind,          \* rows of AiApiKey and Connection
    MaxRotation, MaxValue   \* bounds on rotations, and on the values of a row

ASSUME VaultConstants == Guarded \cap Blind = {} /\ MaxRotation \in Nat /\ MaxValue \in Nat

Rows == Guarded \cup Blind

VARIABLES
    secret,         \* the secrets configured: the primary, and whether the old
                    \* one is still a fallback
    stored,         \* per row: its value, and the secret it is encrypted with
    pass,           \* the command: rows left, and the row it has in hand
    saved,          \* history: the value last saved in a row
    passed          \* history: rows saved while the command had them in hand

vaultVars == <<secret, stored, pass, saved, passed>>
-----------------------------------------------------------------------------
Stored == [value : 0..MaxValue, under : 0..MaxRotation]
NoRow == [value |-> 0, under |-> 0]
Pass == [on : BOOLEAN, left : SUBSET Rows, hand : SUBSET Rows, read : Stored]
Stopped == [on |-> FALSE, left |-> {}, hand |-> {}, read |-> NoRow]

VaultInit ==
    /\ secret = [primary |-> 0, fallback |-> FALSE]
    /\ stored = [r \in Rows |-> NoRow] /\ pass = Stopped
    /\ saved = [r \in Rows |-> 0] /\ passed = {}
-----------------------------------------------------------------------------
EncryptionSecrets == {secret.primary} \cup IF secret.fallback THEN {secret.primary - 1} ELSE {}
Readable(r) == stored[r].under \in EncryptionSecrets

\* A token is refreshed, or a key stored, by a process that encrypts with the
\* primary secret.
SaveSecret(r) ==
    /\ saved[r] < MaxValue
    /\ stored' = [stored EXCEPT ![r] = [value |-> saved[r] + 1, under |-> secret.primary]]
    /\ saved' = [saved EXCEPT ![r] = @ + 1]
    /\ passed' = IF r \in pass.hand \cap Blind THEN passed \cup {r} ELSE passed
    /\ UNCHANGED <<secret, pass>>

RotateSecret ==
    /\ ~secret.fallback /\ secret.primary < MaxRotation
    /\ secret' = [primary |-> secret.primary + 1, fallback |-> TRUE]
    /\ UNCHANGED <<stored, pass, saved, passed>>

Start ==
    /\ secret.fallback /\ ~pass.on
    /\ pass' = [Stopped EXCEPT !.on = TRUE, !.left = Rows]
    /\ UNCHANGED <<secret, stored, saved, passed>>

Decrypt(r) ==
    /\ pass.on /\ pass.hand = {} /\ r \in pass.left
    /\ pass' = [pass EXCEPT !.left = @ \ {r}, !.read = stored[r],
                            !.hand = IF Readable(r) THEN {r} ELSE {}]
    /\ UNCHANGED <<secret, stored, saved, passed>>

\* The guarded update matches the ciphertext it has read.
MayWrite(r) == r \in Blind \/ stored[r] = pass.read

Encrypt ==
    /\ \E r \in pass.hand :
         stored' = IF MayWrite(r)
                   THEN [stored EXCEPT ![r] = [pass.read EXCEPT !.under = secret.primary]]
                   ELSE stored
    /\ pass' = [pass EXCEPT !.hand = {}]
    /\ UNCHANGED <<secret, saved, passed>>

CommandDies == pass.on /\ pass' = Stopped /\ UNCHANGED <<secret, stored, saved, passed>>

\* "Once it reports success, you can drop the fallbacks."
DropFallback ==
    /\ pass.on /\ pass.left = {} /\ pass.hand = {}
    /\ secret' = [secret EXCEPT !.fallback = FALSE] /\ pass' = Stopped
    /\ UNCHANGED <<stored, saved, passed>>
-----------------------------------------------------------------------------
VaultNext ==
    \/ \E r \in Rows : SaveSecret(r) \/ Decrypt(r)
    \/ RotateSecret \/ Start \/ Encrypt \/ CommandDies \/ DropFallback

VaultSpec == VaultInit /\ [][VaultNext]_vaultVars
-----------------------------------------------------------------------------
VaultTypeOK ==
    /\ secret \in [primary : 0..MaxRotation, fallback : BOOLEAN]
    /\ stored \in [Rows -> Stored] /\ pass \in Pass
    /\ saved \in [Rows -> 0..MaxValue] /\ passed \subseteq Rows

\* A rotation loses nothing: every row stays readable with the secrets that are
\* configured and holds what was saved last, except a connection or key that was
\* saved while the command had it in hand.
SecretsKept ==
    \A r \in Rows : Readable(r) /\ (r \in passed \/ stored[r].value = saved[r])
=============================================================================
