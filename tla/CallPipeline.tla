---------------------------- MODULE CallPipeline ----------------------------
(***************************************************************************)
(* Onboarding calls: a Fireflies webhook queues the ingestion of a call;   *)
(* a worker fetches the transcript, resolves the client, has it analysed   *)
(* and fans out to Slack, Asana and Drive; a manager may retract a post.   *)
(* A message of the queue is one run of ingest_fireflies_call().           *)
(***************************************************************************)
EXTENDS Naturals, FiniteSets, Sequences

CONSTANTS
    Calls,          \* Fireflies call ids
    Deliveries,     \* messages the webhook may queue: bounds its requests
    Clients,        \* clients that may have an IntegrationMap
    NoClient,       \* "no client", and "no post"
    FanOut,         \* the targets a client's map has a channel for, in order
    Deaths          \* bound on worker deaths

TargetOrder == <<"SLACK_INTERNAL", "ASANA", "DRIVE", "SLACK_EXTERNAL">>
Targets == {TargetOrder[i] : i \in 1..4}

ASSUME CallConstants == /\ FanOut \in Seq(Targets)
                        /\ \A i, j \in 1..Len(FanOut) : FanOut[i] = FanOut[j] => i = j
                        /\ NoClient \notin Clients \cup Deliveries
                        /\ Deaths \in Nat

VARIABLES
    insight,        \* per call: its CallInsight row
    event,          \* per call and target: its IntegrationEvent row
    run,            \* per message: the worker's progress and what it has read
    retraction,     \* the retract_event() task at work
    posts,          \* what Slack, Asana and Drive received
    overlap,        \* history: calls two runs worked on at once
    lost,           \* history: calls whose run died
    deaths

callVars == <<insight, event, run, retraction, posts,
              overlap, lost, deaths>>
-----------------------------------------------------------------------------
CallStatus == {"none", "pending", "processing", "analyzed", "distributed",
               "skipped", "failed"}
EventStatus == {"none", "pending", "sent", "failed", "skipped", "retracted"}

AutomationSettings == [enabled : BOOLEAN, external : BOOLEAN]
\* Managers edit the settings and the clients' maps at any time and a run reads
\* each of them once, so it may find any settings and any maps active.
IntegrationMap == SUBSET Clients
CallInsight == [status : CallStatus, client : Clients \cup {NoClient}]
IntegrationEvent == [status : EventStatus, ref : Deliveries \cup {NoClient}]
Post == [call : Calls, target : Targets, client : Clients, by : Deliveries]
Run == [pc : {"idle", "queued", "fetch", "resolved", "emit", "post", "save",
              "done"},
        call : Calls, old : CallInsight, client : Clients \cup {NoClient},
        external : BOOLEAN, at : 1..Len(FanOut) + 1, status : {"sent", "failed"},
        ref : Deliveries \cup {NoClient}]

NoInsight == [status |-> "none", client |-> NoClient]
NewRun(c) == [pc |-> "idle", call |-> c, old |-> NoInsight, client |-> NoClient,
              external |-> FALSE, at |-> 1, status |-> "failed", ref |-> NoClient]

CallInit ==
    /\ insight = [c \in Calls |-> NoInsight]
    /\ event = [c \in Calls |->
                  [t \in Targets |-> [status |-> "none", ref |-> NoClient]]]
    /\ run \in [Deliveries -> {NewRun(c) : c \in Calls}]
    /\ retraction = {}
    /\ posts = {}
    /\ overlap = {} /\ lost = {} /\ deaths = 0

Alive(d) == run[d].pc \notin {"idle", "queued", "done"}
Last(d) == run[d].at = Len(FanOut) + 1
To(d, pc) == run' = [run EXCEPT ![d].pc = pc]
Ends(d) == run' = [run EXCEPT ![d] = [NewRun(@.call) EXCEPT !.pc = "done"]]
SetStatus(c, s) == insight' = [insight EXCEPT ![c].status = s]
SetEvent(c, t, s) == event' = [event EXCEPT ![c][t].status = s]
-----------------------------------------------------------------------------
\* A signed request queues one message; with the broker down it queues none.
FirefliesWebhook(d) ==
    /\ run[d].pc = "idle"
    /\ To(d, "queued")
    /\ UNCHANGED <<insight, event, retraction, posts, overlap,
                   lost, deaths>>
-----------------------------------------------------------------------------
(* A run.                                                                  *)

\* MUTANT of Start: a call is taken whatever its status.
MutStart(d, settings) ==
    /\ run[d].pc = "queued" /\ settings.enabled
    /\ run' = [run EXCEPT ![d] = [@ EXCEPT !.pc = "fetch", !.old = insight[run[d].call],
                                           !.external = settings.external]]
    /\ overlap' = IF \E e \in Deliveries \ {d} : Alive(e) /\ run[e].call = run[d].call
                  THEN overlap \cup {run[d].call} ELSE overlap
    /\ UNCHANGED <<insight, event, retraction, posts, lost, deaths>>

\* The row is read without a lock.
Start(d, settings) ==
    LET c == run[d].call IN
    /\ run[d].pc = "queued"
    /\ IF settings.enabled /\ insight[c].status \in {"none", "pending", "failed"}
       THEN /\ run' = [run EXCEPT ![d] = [@ EXCEPT !.pc = "fetch", !.old = insight[c],
                                                   !.external = settings.external]]
            /\ overlap' = IF \E e \in Deliveries \ {d} : Alive(e) /\ run[e].call = c
                          THEN overlap \cup {c} ELSE overlap
       ELSE Ends(d) /\ UNCHANGED overlap
    /\ UNCHANGED <<insight, event, retraction, posts, lost, deaths>>

\* No transcript: the row as it was read is saved as failed, and a row that
\* did not exist is inserted, which the unique call id refuses a second time.
FetchFails(d) ==
    LET c == run[d].call
        old == run[d].old IN
    /\ run[d].pc = "fetch"
    /\ Ends(d)
    /\ insight' = IF old.status = "none" /\ insight[c].status # "none"
                  THEN insight
                  ELSE [insight EXCEPT ![c] = [old EXCEPT !.status = "failed"]]
    /\ UNCHANGED <<event, retraction, posts, overlap, lost, deaths>>

\* The clients a call may be attributed to: any whose known participants
\* match, first come; else the only one that owns a participant's domain.
Resolve(exact, owner) ==
    IF exact # {} THEN exact
    ELSE IF Cardinality(owner) = 1 THEN owner ELSE {NoClient}

\* The transcript names the participants: whose known addresses, and whose
\* domains, they match is for the data to say. Only active maps count.
Transcript(active) == (SUBSET active) \X (SUBSET active)

Fetched(d, active) ==
    /\ run[d].pc = "fetch"
    /\ \E m \in Transcript(active) : \E k \in Resolve(m[1], m[2]) :
         /\ run' = [run EXCEPT ![d] = [@ EXCEPT !.pc = "resolved", !.client = k]]
         /\ insight' = [insight EXCEPT ![run[d].call] =
                          [status |-> "processing", client |-> k]]
    /\ UNCHANGED <<event, retraction, posts, overlap, lost, deaths>>

Unattributed(d) ==
    /\ run[d].pc = "resolved" /\ run[d].client = NoClient
    /\ Ends(d)
    /\ SetStatus(run[d].call, "skipped")
    /\ UNCHANGED <<event, retraction, posts, overlap, lost, deaths>>

\* The model answers by the schema; a cap, a timeout or other text raises.
AnalyzeCall == {"analyzed", "failed"}

Analyze(d) ==
    /\ run[d].pc = "resolved" /\ run[d].client # NoClient
    /\ \E s \in AnalyzeCall :
         /\ IF s = "analyzed" THEN To(d, "emit") ELSE Ends(d)
         /\ SetStatus(run[d].call, s)
    /\ UNCHANGED <<event, retraction, posts, overlap, lost, deaths>>

\* MUTANT of NothingToEmit: one target too many.
MutNothingToEmit(d) ==
    /\ run[d].pc = "emit"
    /\ run' = [run EXCEPT ![d].at = @ + 1]
    /\ UNCHANGED <<insight, event, retraction, posts, overlap, lost, deaths>>

\* _fan_out() goes on to the next target: this one has no channel or no text.
NothingToEmit(d) ==
    /\ run[d].pc = "emit" /\ ~Last(d)
    /\ run' = [run EXCEPT ![d].at = @ + 1]
    /\ UNCHANGED <<insight, event, retraction, posts, overlap,
                   lost, deaths>>

\* The client-facing post is held: posting is off, or the transcript is thin,
\* the confidence low or the guardrail against it (data, so it may be so).
\* The event says skipped, unless it was sent already.
Hold(d) ==
    LET c == run[d].call
        t == FanOut[run[d].at] IN
    /\ run[d].pc = "emit" /\ ~Last(d) /\ t = "SLACK_EXTERNAL"
    /\ run' = [run EXCEPT ![d].at = @ + 1]
    /\ IF event[c][t].status = "sent" THEN UNCHANGED event ELSE SetEvent(c, t, "skipped")
    /\ UNCHANGED <<insight, retraction, posts, overlap, lost, deaths>>

\* What the guardrail raises nothing catches: the call stays analyzed.
GuardrailRaises(d) ==
    /\ run[d].pc = "emit" /\ ~Last(d) /\ run[d].external
    /\ FanOut[run[d].at] = "SLACK_EXTERNAL"
    /\ Ends(d)
    /\ lost' = lost \cup {run[d].call}
    /\ UNCHANGED <<insight, event, retraction, posts, overlap, deaths>>

\* _emit() gets or creates the event; one that was sent is not sent again.
Emit(d) ==
    LET c == run[d].call
        t == FanOut[run[d].at] IN
    /\ run[d].pc = "emit" /\ ~Last(d)
    /\ t = "SLACK_EXTERNAL" => run[d].external
    /\ IF event[c][t].status = "sent"
       THEN run' = [run EXCEPT ![d].at = @ + 1] /\ UNCHANGED event
       ELSE /\ run' = [run EXCEPT ![d] = [@ EXCEPT !.pc = "post", !.ref = event[c][t].ref]]
            /\ IF event[c][t].status # "none" THEN UNCHANGED event
               ELSE SetEvent(c, t, "pending")
    /\ UNCHANGED <<insight, retraction, posts, overlap, lost, deaths>>

\* What a provider's call may come to: done, refused (also when no token of
\* the provider is stored), or done while the answer is lost.
SlackPost == {[up |-> TRUE, status |-> "sent"], [up |-> FALSE, status |-> "failed"],
              [up |-> TRUE, status |-> "failed"]}
\* Some of the tasks may exist when one fails; items without a title make none.
AsanaTasks == SlackPost \cup {[up |-> FALSE, status |-> "sent"]}
DocAppend == SlackPost
Answers(t) == CASE t = "ASANA" -> AsanaTasks [] t = "DRIVE" -> DocAppend
                [] OTHER -> SlackPost

DoPost(d) ==
    LET t == FanOut[run[d].at] IN
    /\ run[d].pc = "post"
    /\ \E a \in Answers(t) :
         /\ run' = [run EXCEPT ![d] = [@ EXCEPT !.pc = "save", !.status = a.status,
                                 !.ref = IF a.status = "failed" THEN run[d].ref
                                         ELSE IF a.up THEN d ELSE NoClient]]
         /\ posts' = IF ~a.up THEN posts
                     ELSE posts \cup {[call |-> run[d].call, target |-> t,
                                       client |-> run[d].client, by |-> d]}
    /\ UNCHANGED <<insight, event, retraction, overlap, lost, deaths>>

SaveEvent(d) ==
    /\ run[d].pc = "save"
    /\ run' = [run EXCEPT ![d] = [@ EXCEPT !.pc = "emit", !.at = run[d].at + 1]]
    /\ event' = [event EXCEPT ![run[d].call][FanOut[run[d].at]] =
                   [status |-> run[d].status, ref |-> run[d].ref]]
    /\ UNCHANGED <<insight, retraction, posts, overlap, lost, deaths>>

Distributed(d) ==
    /\ run[d].pc = "emit" /\ Last(d)
    /\ Ends(d)
    /\ SetStatus(run[d].call, "distributed")
    /\ UNCHANGED <<event, retraction, posts, overlap, lost, deaths>>

\* A worker dies: the message was acknowledged when it was taken.
WorkerDies(d) ==
    /\ Alive(d) /\ deaths < Deaths
    /\ deaths' = deaths + 1
    /\ Ends(d)
    /\ lost' = lost \cup {run[d].call}
    /\ UNCHANGED <<insight, event, retraction, posts, overlap>>
-----------------------------------------------------------------------------
(* Retraction.                                                             *)

\* retract_event() reads a sent event; Slack's channel comes from the map of
\* the client the call has now, and what the provider answers is not read.
Retract(c, t) ==
    /\ retraction = {}
    /\ event[c][t].status = "sent" /\ event[c][t].ref # NoClient
    /\ retraction' = {[call |-> c, target |-> t]}
    /\ UNCHANGED <<insight, event, run, posts, overlap, lost, deaths>>

\* Only the status is saved; a retraction that raises leaves the row.
RetractSave(r) ==
    /\ r \in retraction
    /\ retraction' = {}
    /\ \/ SetEvent(r.call, r.target, "retracted")
       \/ UNCHANGED event
    /\ UNCHANGED <<insight, run, posts, overlap, lost, deaths>>
-----------------------------------------------------------------------------
Ingest(d) ==
    \/ \E settings \in AutomationSettings : Start(d, settings)
    \/ \E active \in IntegrationMap : Fetched(d, active)
    \/ FetchFails(d) \/ Unattributed(d) \/ Analyze(d)
    \/ NothingToEmit(d) \/ Hold(d) \/ GuardrailRaises(d) \/ Emit(d)
    \/ DoPost(d) \/ SaveEvent(d) \/ Distributed(d)

CallNext ==
    \/ \E d \in Deliveries : FirefliesWebhook(d) \/ Ingest(d) \/ WorkerDies(d)
    \/ \E c \in Calls, t \in Targets : Retract(c, t)
    \/ \E r \in retraction : RetractSave(r)

CallSpec == CallInit /\ [][CallNext]_callVars
-----------------------------------------------------------------------------
CallTypeOK ==
    /\ insight \in [Calls -> CallInsight]
    /\ event \in [Calls -> [Targets -> IntegrationEvent]]
    /\ run \in [Deliveries -> Run]
    /\ retraction \subseteq [call : Calls, target : Targets]
    /\ posts \subseteq Post
    /\ overlap \subseteq Calls /\ lost \subseteq Calls /\ deaths \in 0..Deaths

\* However often a call is delivered, retracted, re-attributed or half done by
\* a worker that died: as long as no two runs of it overlapped, each target got
\* one post at most, and it went to the client the call is stored under.
OnePostUnlessOverlap ==
    \A c \in Calls \ overlap : \A p, q \in {x \in posts : x.call = c} :
        /\ p.target = q.target => p = q
        /\ p.client = insight[c].client

\* A call that is neither waiting nor settled has a run at work on it, or lost
\* one: nothing but a lost run leaves a call in between for good.
UnsettledHasRun ==
    \A c \in Calls \ lost :
        insight[c].status \in {"processing", "analyzed"}
          => \E d \in Deliveries : Alive(d) /\ run[d].call = c
=============================================================================
