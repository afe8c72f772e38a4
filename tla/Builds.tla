------------------------------- MODULE Builds -------------------------------
(***************************************************************************)
(* A build on its way from draft to delivery: its status and document, the *)
(* section of its client updates with their change requests, and the gold  *)
(* reference it leaves in the library. No handler locks a row: each works  *)
(* with the row it read first and saves some columns of it, or all.        *)
(* Handlers are used once, which bounds the requests; who may send one is  *)
(* left out.                                                               *)
(***************************************************************************)
EXTENDS Naturals, FiniteSets

CONSTANTS
    Handlers, Staff, Changes,
    NoStaff,
    NoText          \* an empty document

ASSUME BuildConstants == NoStaff \notin Staff /\ NoText \notin Handlers

VARIABLES
    build,          \* the build's row
    change,         \* per change request: absent, still open, or resolved
    section,        \* the review of the section CLIENT_UPDATES
    gold,           \* per auto-generated reference: its text
    handler,        \* per request: what it does and what it has read
    chosen,         \* history: the status last chosen for the build
    blocks,         \* history: requests that recorded a blocker or a question
    reopened,       \* history: changes opened since the section was last checked
    stale           \* history: rows that were saved from an older reading

buildVars == <<build, change, section, gold, handler, chosen, blocks, reopened, stale>>
-----------------------------------------------------------------------------
BuildStatus == {"DRAFT", "AI_DRAFTED", "ASSIGNED", "IN_PROGRESS", "READY_FOR_REVIEW",
                "CHANGES_REQUESTED", "DELIVERED"}
BuildRow == [status : BuildStatus, assignee : Staff \cup {NoStaff}, doc : Handlers \cup {NoText}]
\* Open: PENDING, APPROVED, IN_BUILD, BLOCKED. Resolved: IMPLEMENTED, REJECTED, DEFERRED.
ChangeRequestStatus == {"none", "open", "resolved"}
BuildSectionReview == [status : {"TODO", "DONE", "BLOCKED"}, history : SUBSET Handlers]
Handler == [pc : {"idle", "open", "generate", "section", "info", "start", "promote", "create",
                  "refresh", "done"},
            row : BuildRow, status : {"TODO", "DONE", "BLOCKED"}, review : BuildSectionReview]

NewBuild == [status |-> "DRAFT", assignee |-> NoStaff, doc |-> NoText]
NewReview == [status |-> "TODO", history |-> {}]
Free == [pc |-> "idle", row |-> NewBuild, status |-> "TODO", review |-> NewReview]

BuildInit ==
    /\ build \in {[NewBuild EXCEPT !.status = s] : s \in {"DRAFT", "AI_DRAFTED"}}
    /\ change = [c \in Changes |-> "none"] /\ section = NewReview
    /\ gold = [h \in Handlers |-> NoText]
    /\ handler = [h \in Handlers |-> Free]
    /\ chosen = build.status /\ blocks = {} /\ reopened = {} /\ stale = {}
-----------------------------------------------------------------------------
At(h, pc) == handler[h].pc = pc
\* Requests are alike: the next one is any that has not been sent.
Takes(h) == At(h, "idle") /\ h = CHOOSE g \in Handlers : At(g, "idle")
Turns(h, pc) == handler' = [handler EXCEPT ![h].pc = pc]
Closes(h) == handler' = [handler EXCEPT ![h] = [Free EXCEPT !.pc = "done"]]
Mark(name, lost) == stale' = IF lost THEN stale \cup {name} ELSE stale
rest == <<change, section, blocks, reopened>>

GetObject(h) ==
    /\ Takes(h)
    /\ handler' = [handler EXCEPT ![h].pc = "open", ![h].row = build]
    /\ UNCHANGED <<build, gold, chosen, stale>> /\ UNCHANGED rest

\* save() without update_fields: every column, as read.
Assign(h, u) ==
    LET row == handler[h].row
        fresh == row.status \in {"DRAFT", "AI_DRAFTED"} IN
    /\ At(h, "open")
    /\ build' = [row EXCEPT !.assignee = u, !.status = IF fresh THEN "ASSIGNED" ELSE @]
    /\ chosen' = IF fresh THEN "ASSIGNED" ELSE chosen
    /\ Mark("build", row # build)
    /\ Closes(h) /\ UNCHANGED gold /\ UNCHANGED rest

\* An edit of the build saves every column as well; it may name any of these, with
\* the document emptied or replaced by the request's own.
PatchBuild(h, s, u) ==
    LET row == handler[h].row IN
    /\ At(h, "open")
    /\ \E d \in {row.doc, NoText, h} : build' = [status |-> s, assignee |-> u, doc |-> d]
    /\ chosen' = IF s = row.status THEN chosen ELSE s
    /\ Mark("build", row # build)
    /\ Closes(h) /\ UNCHANGED gold /\ UNCHANGED rest

SetStatus(h, s) ==
    /\ At(h, "open")
    /\ build' = [build EXCEPT !.status = s] /\ chosen' = s
    /\ IF s = "DELIVERED" /\ handler[h].row.doc # NoText THEN Turns(h, "promote") ELSE Closes(h)
    /\ UNCHANGED <<gold, stale>> /\ UNCHANGED rest

Approve(h, u) ==
    /\ At(h, "open") /\ u \in Staff \cup {handler[h].row.assignee} /\ u # NoStaff
    /\ build' = [build EXCEPT !.assignee = u, !.status = "ASSIGNED"] /\ chosen' = "ASSIGNED"
    /\ Closes(h) /\ UNCHANGED <<gold, stale>> /\ UNCHANGED rest

\* PUT saves the text of a person; POST waits for the model's answer first.
AskDocument(h) ==
    /\ At(h, "open") /\ Turns(h, "generate")
    /\ UNCHANGED <<build, gold, chosen, stale>> /\ UNCHANGED rest

SaveDocument(h) ==
    /\ At(h, "open") \/ At(h, "generate")
    /\ build' = [build EXCEPT !.doc = h]
    /\ Closes(h) /\ UNCHANGED <<gold, chosen, stale>> /\ UNCHANGED rest

\* A progress report, like a section's review, starts the work on the build.
ReportProgress(h) ==
    /\ At(h, "open") /\ Turns(h, "start")
    /\ UNCHANGED <<build, gold, chosen, stale>> /\ UNCHANGED rest

\* MUTANT of MayStart: work moves any build to "in progress".
MutMayStart(row) == TRUE

MayStart(row) == row.status = "ASSIGNED"

\* The status is the one that was read before the report or the review was saved.
MaybeStartProgress(h) ==
    /\ At(h, "start")
    /\ IF MayStart(handler[h].row)
       THEN /\ build' = [build EXCEPT !.status = "IN_PROGRESS"]
            /\ Mark("build", build.status # handler[h].row.status)
       ELSE UNCHANGED <<build, stale>>
    /\ Closes(h) /\ UNCHANGED <<gold, chosen>> /\ UNCHANGED rest
-----------------------------------------------------------------------------
\* The first reference of the build is refreshed; if there is none, one is made.
PromoteToLibrary(h) ==
    /\ At(h, "promote")
    /\ Turns(h, IF \E g \in Handlers : gold[g] # NoText THEN "refresh" ELSE "create")
    /\ Mark("gold", \E g \in Handlers : At(g, "create"))
    /\ UNCHANGED <<build, gold, chosen>> /\ UNCHANGED rest

SaveGold(h) ==
    /\ \/ At(h, "create") /\ gold' = [gold EXCEPT ![h] = handler[h].row.doc]
       \/ At(h, "refresh") /\ \E g \in Handlers :
            gold[g] # NoText /\ gold' = [gold EXCEPT ![g] = handler[h].row.doc]
    /\ Closes(h) /\ UNCHANGED <<build, chosen, stale>> /\ UNCHANGED rest
-----------------------------------------------------------------------------
AllResolved == \A c \in Changes : change[c] # "open"

\* The review is read, and for a section that is done the changes are counted.
UpsertReview(h, s) ==
    /\ At(h, "open")
    /\ s = "DONE" => AllResolved
    /\ handler' = [handler EXCEPT ![h].pc = "section", ![h].status = s, ![h].review = section]
    /\ reopened' = IF s = "DONE" THEN {} ELSE reopened
    /\ UNCHANGED <<build, change, section, gold, chosen, blocks, stale>>

\* The whole review is saved, its list of blockers as it was read.
SaveReview(h) ==
    LET q == handler[h] blocked == q.status = "BLOCKED" IN
    /\ At(h, "section")
    /\ section' = [status |-> q.status,
                   history |-> q.review.history \cup IF blocked THEN {h} ELSE {}]
    /\ blocks' = blocks \cup IF blocked THEN {h} ELSE {}
    /\ Mark("section", section # q.review)
    /\ IF q.status = "TODO" THEN Closes(h) ELSE Turns(h, "start")
    /\ UNCHANGED <<build, change, gold, chosen, reopened>>

RequestInfo(h) ==
    /\ Takes(h)
    /\ handler' = [handler EXCEPT ![h].pc = "info", ![h].review = section]
    /\ UNCHANGED <<build, gold, chosen, stale>> /\ UNCHANGED rest

SaveQuestion(h) ==
    LET read == handler[h].review IN
    /\ At(h, "info")
    /\ section' = [section EXCEPT !.history = read.history \cup {h}]
    /\ blocks' = blocks \cup {h}
    /\ Mark("section", section.history # read.history)
    /\ Closes(h) /\ UNCHANGED <<build, change, gold, chosen, reopened>>

\* Staff raise changes, and so does the analysis of a progress update; a change
\* is set to any status from any other.
SetChange(c, s) ==
    /\ s # change[c] /\ (change[c] = "none" => s = "open")
    /\ change' = [change EXCEPT ![c] = s]
    /\ reopened' = IF s = "open" THEN reopened \cup {c} ELSE reopened
    /\ UNCHANGED <<build, section, gold, handler, chosen, blocks, stale>>

\* A request may end after any statement; what it saved remains.
HandlerEnds(h) ==
    /\ ~At(h, "idle") /\ ~At(h, "done")
    /\ Closes(h) /\ UNCHANGED <<build, gold, chosen, stale>> /\ UNCHANGED rest
-----------------------------------------------------------------------------
BuildNext ==
    \/ \E h \in Handlers :
        \/ GetObject(h) \/ AskDocument(h) \/ SaveDocument(h) \/ ReportProgress(h)
        \/ MaybeStartProgress(h) \/ PromoteToLibrary(h) \/ SaveGold(h) \/ SaveReview(h)
        \/ RequestInfo(h) \/ SaveQuestion(h) \/ HandlerEnds(h)
        \/ \E u \in Staff : Assign(h, u) \/ Approve(h, u)
        \/ \E s \in BuildStatus : SetStatus(h, s) \/ \E u \in Staff \cup {NoStaff} : PatchBuild(h, s, u)
        \/ \E s \in {"TODO", "DONE", "BLOCKED"} : UpsertReview(h, s)
    \/ \E c \in Changes, s \in ChangeRequestStatus : SetChange(c, s)

BuildSpec == BuildInit /\ [][BuildNext]_buildVars
-----------------------------------------------------------------------------
BuildTypeOK ==
    /\ build \in BuildRow /\ change \in [Changes -> ChangeRequestStatus]
    /\ section \in BuildSectionReview /\ gold \in [Handlers -> Handlers \cup {NoText}]
    /\ handler \in [Handlers -> Handler] /\ chosen \in BuildStatus
    /\ blocks \subseteq Handlers /\ reopened \subseteq Changes
    /\ stale \subseteq {"build", "gold", "section"}

\* A build shows the status somebody last chose for it, or that the work on an
\* assigned build has begun: reports, reviews and assignments move no other one,
\* unless a handler saved a row somebody had changed since it was read.
StatusIsChosen ==
    "build" \in stale \/ build.status = chosen
                      \/ (chosen = "ASSIGNED" /\ build.status = "IN_PROGRESS")

\* "Idempotent per build": however often it is delivered, one reference is kept,
\* unless two deliveries looked for it at once.
GoldOnce == "gold" \in stale \/ Cardinality({h \in Handlers : gold[h] # NoText}) <= 1

\* While the section of client updates is done, every change that is open was
\* opened after the check; and no blocker or question is lost from its history,
\* unless two requests saved the list at once.
UpdatesResolved ==
    /\ section.status = "DONE" => \A c \in Changes : change[c] = "open" => c \in reopened
    /\ "section" \in stale \/ blocks \subseteq section.history
=============================================================================
