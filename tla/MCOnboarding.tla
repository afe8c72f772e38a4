---------------------------- MODULE MCOnboarding ----------------------------
(***************************************************************************)
(* The small machines of onboarding, of the clients' GHL connections and   *)
(* of the project board beside each other. They share no variable, so a    *)
(* behaviour that interleaves them shows each no more than one in which    *)
(* only "part" moves. Requests to the board save only rows of one scene,   *)
(* though they may delete any row: rows meet in what they belong to and in *)
(* who may change them, and the dashboards count tasks alone.              *)
(***************************************************************************)
EXTENDS CallPipeline, Connections, SlackGrant, GhlAccounts, Board, TLC

CONSTANTS t1, t2, k1, g1, m1, m2, s1

VARIABLES part, scene

MCFanOut == <<"ASANA", "SLACK_EXTERNAL">>

MCScenes == {{t1}, {t2}, {k1}, {g1, m2}, {m1}, {Project, s1}}

\* The project's tasks are alike.
MCSymmetry == Permutations({t1, t2})

Touched == {edit[e].x : e \in {f \in Editors : edit[f].pc \notin {"idle", "done"}}}

Begun == {e \in Editors : edit[e].pc # "idle"}

Scenery == /\ Touched' \subseteq scene
           /\ tally'.pc # "idle" => scene \in {{t1}, {t2}} /\ Cardinality(Begun') <= 1

Init == /\ part \in {"calls", "connections", "grant", "accounts", "board"}
        /\ CallInit /\ ConnInit /\ GrantInit /\ GhlInit /\ BoardInit
        /\ part # "accounts" => \A c \in Customers : customer[c].there = "never"
        /\ IF part = "board" THEN scene \in MCScenes
           ELSE scene = {} /\ \A x \in Things : thing[x].there = "never"

Next == /\ UNCHANGED <<part, scene>>
        /\ IF part = "calls" THEN CallNext ELSE UNCHANGED callVars
        /\ IF part = "connections" THEN ConnNext ELSE UNCHANGED connVars
        /\ IF part = "grant" THEN GrantNext ELSE UNCHANGED grantVars
        /\ IF part = "accounts" THEN GhlNext ELSE UNCHANGED ghlVars
        /\ IF part = "board" THEN BoardNext /\ Scenery ELSE UNCHANGED boardVars

Spec == Init /\ [][Next]_<<part, scene, callVars, connVars, grantVars, ghlVars, boardVars>>

\* The rows, messages and tokens of all five are what their models say.
OnboardingTypesOK == CallTypeOK /\ ConnTypeOK /\ GrantTypeOK /\ GhlTypeOK /\ BoardTypeOK

\* Each target gets one post of a call unless two runs overlap, and a call in
\* between has a run.
CallsKept == OnePostUnlessOverlap /\ UnsettledHasRun

\* A second active connection of a provider needs a race, and a client shows the
\* GHL location that its connection reads, with checks and records read there.
ConnectionsKept == SecondActiveNeedsARace /\ LocationsAgree /\ ReadsAreCurrent
=============================================================================
