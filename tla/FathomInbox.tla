---------------------------- MODULE FathomInbox ----------------------------
(***************************************************************************)
(* Fathom delivers each recording one or more times; the first delivery    *)
(* that is accepted creates a meeting, which becomes a note of the build   *)
(* its participants' rules name or waits for a manager.                    *)
(***************************************************************************)
EXTENDS Naturals, FiniteSets

CONSTANTS
    Recordings, Emails, Builds, Handlers,
    NoBuild, NoMeeting,
    MaxSecret       \* bound on the signing secrets that are saved

ASSUME FathomConstants == NoBuild \notin Builds /\ NoMeeting \notin Recordings
                          /\ MaxSecret \in Nat \ {0}

VARIABLES
    config,         \* FathomSettings: enabled, and the secret (0: none saved)
    rule,           \* the active rule of an email: a build or none
    present,        \* builds that exist
    meeting,        \* per recording: status, and the build of its note
    handler,        \* webhook requests past the signature check
    notes           \* history: the notes created for a recording

fathomVars == <<config, rule, present, meeting, handler, notes>>
-----------------------------------------------------------------------------
FathomSettings == [enabled : BOOLEAN, secret : 0..MaxSecret]
FathomRoutingRule == [Emails -> Builds \cup {NoBuild}]
FathomMeeting == [status : {"none", "pending", "attached", "ignored"},
                  note : Builds \cup {NoBuild}]

FathomInit ==
    /\ config = [enabled |-> FALSE, secret |-> 0]
    /\ rule = [e \in Emails |-> NoBuild] /\ present = Builds
    /\ meeting = [r \in Recordings |-> [status |-> "none", note |-> NoBuild]]
    /\ handler = [h \in Handlers |-> NoMeeting]
    /\ notes = [r \in Recordings |-> 0]
-----------------------------------------------------------------------------
\* Managers save a secret, and enable the import once there is one.
SaveSettings ==
    /\ \E on \in BOOLEAN, s \in {config.secret, config.secret + 1} \cap (0..MaxSecret) :
         (on => s > 0) /\ config' = [enabled |-> on, secret |-> s]
    /\ UNCHANGED <<rule, present, meeting, handler, notes>>

\* One rule for an email; deleted, inactive and absent are the same to a delivery.
SaveRule(e, b) ==
    /\ b \in present \cup {NoBuild} /\ rule' = [rule EXCEPT ![e] = b]
    /\ UNCHANGED <<config, present, meeting, handler, notes>>

\* A build takes its rules and notes with it; the meeting remains, without a note.
DeleteBuild(b) ==
    /\ present' = present \ {b}
    /\ rule' = [e \in Emails |-> IF rule[e] = b THEN NoBuild ELSE rule[e]]
    /\ meeting' = [r \in Recordings |-> IF meeting[r].note = b
                                        THEN [meeting[r] EXCEPT !.note = NoBuild] ELSE meeting[r]]
    /\ UNCHANGED <<config, handler, notes>>

DeleteNote(r) ==
    /\ meeting' = [meeting EXCEPT ![r].note = NoBuild]
    /\ UNCHANGED <<config, rule, present, handler, notes>>

\* A delivery is taken if the import is enabled and it is signed with the secret
\* that is stored; Fathom repeats one that was refused or not acknowledged.
VerifySignature(signedWith) == config.enabled /\ signedWith = config.secret

Webhook(h, r) ==
    /\ handler[h] = NoMeeting
    /\ \E s \in 1..MaxSecret : VerifySignature(s)
    /\ handler' = [handler EXCEPT ![h] = r]
    /\ UNCHANGED <<config, rule, present, meeting, notes>>

\* MUTANT of MayAttach: a meeting that was handled may be attached again.
MutMayAttach(m) == m.status # "none"

\* attach_meeting() takes a meeting that waits, or was created just now.
MayAttach(m) == m.status = "pending"

AttachMeeting(r, b) ==
    /\ meeting' = [meeting EXCEPT ![r] = [status |-> "attached", note |-> b]]
    /\ notes' = [notes EXCEPT ![r] = @ + 1]

\* get_or_create and the routing are one transaction; the recording is unique.
Ingest(h) ==
    LET r == handler[h] IN
    /\ r # NoMeeting
    /\ handler' = [handler EXCEPT ![h] = NoMeeting]
    /\ IF meeting[r].status # "none" THEN UNCHANGED <<meeting, notes>>
       ELSE \E emails \in SUBSET Emails :
              LET targets == {rule[e] : e \in emails} \ {NoBuild} IN
              IF Cardinality(targets) = 1
              THEN AttachMeeting(r, CHOOSE b \in targets : TRUE)
              ELSE /\ meeting' = [meeting EXCEPT ![r].status = "pending"]
                   /\ UNCHANGED notes
    /\ UNCHANGED <<config, rule, present>>

HandlerDies(h) ==
    /\ handler[h] # NoMeeting /\ handler' = [handler EXCEPT ![h] = NoMeeting]
    /\ UNCHANGED <<config, rule, present, meeting, notes>>

\* A manager's decision, under the lock of the meeting; attaching it to the build
\* that has it already is answered with what there is.
Attach(r, b) ==
    /\ b \in present /\ MayAttach(meeting[r])
    /\ meeting[r].note # b
    /\ AttachMeeting(r, b)
    /\ UNCHANGED <<config, rule, present, handler>>

Ignore(r) ==
    /\ meeting[r].status \in {"pending", "ignored"}
    /\ meeting' = [meeting EXCEPT ![r].status = "ignored"]
    /\ UNCHANGED <<config, rule, present, handler, notes>>
-----------------------------------------------------------------------------
FathomNext ==
    \/ SaveSettings
    \/ \E e \in Emails, b \in Builds \cup {NoBuild} : SaveRule(e, b)
    \/ \E b \in Builds : DeleteBuild(b)
    \/ \E h \in Handlers : (\E r \in Recordings : Webhook(h, r)) \/ Ingest(h) \/ HandlerDies(h)
    \/ \E r \in Recordings : DeleteNote(r) \/ Ignore(r) \/ \E b \in Builds : Attach(r, b)

FathomSpec == FathomInit /\ [][FathomNext]_fathomVars
-----------------------------------------------------------------------------
FathomTypeOK ==
    /\ config \in FathomSettings /\ rule \in FathomRoutingRule
    /\ present \subseteq Builds
    /\ meeting \in [Recordings -> FathomMeeting]
    /\ handler \in [Handlers -> Recordings \cup {NoMeeting}]
    /\ notes \in [Recordings -> {0, 1}]

\* However often a recording is delivered, routed and attached, and whatever is
\* deleted meanwhile, it becomes at most one note, of a build that exists; it has
\* become one exactly if it shows as attached.
OneNotePerMeeting ==
    \A r \in Recordings :
        /\ notes[r] = (IF meeting[r].status = "attached" THEN 1 ELSE 0)
        /\ meeting[r].note # NoBuild => meeting[r].status = "attached" /\ meeting[r].note \in present
=============================================================================
