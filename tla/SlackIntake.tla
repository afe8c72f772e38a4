---------------------------- MODULE SlackIntake ----------------------------
(***************************************************************************)
(* The Slack intake (backend/onboarding/slack_intake.py): signed events    *)
(* are stored in a database inbox, and a periodic worker claims a channel  *)
(* under a fenced lease, lets the AI classify its oldest pending message   *)
(* outside any lock, and routes it to the people responsible for the       *)
(* channel as tasks, messages and notifications in one transaction.        *)
(* Messages may be edited or deleted in Slack at any time, and the hourly  *)
(* purge removes copies past their retention period.                       *)
(*                                                                         *)
(* A message's text is the number of its last edit.  The AI's answer is a  *)
(* set of categories and a flag that stands for every reason not to trust  *)
(* it (uncertain, low confidence, unavailable).  A task is named by the    *)
(* event and category of its SlackWorkItem, which are unique.              *)
(***************************************************************************)
EXTENDS Integers, Sequences, FiniteSets, Functions

CONSTANTS
  Channels,     (* SlackChannel rows, numbered by primary key              *)
  Events,       (* Slack messages, by channel and message_ts               *)
  ChannelOf,    (* the channel of each message                             *)
  RootOf,       (* the message that began its thread                       *)
  Tagged,       (* the messages that mention the configured user           *)
  Categories,   (* TaskType, numbered in their alphabetical order          *)
  Staff,
  Workers,
  MaxEdits,     (* Bound: the last event_ts of a change in Slack           *)
  MaxChanges,   (* Bound: changes to settings, mappings, users and tasks   *)
  Retention,    (* do messages get older than the retention period?        *)
  None

ASSUME IntakeConstants ==
  /\ Channels \subseteq Nat /\ Categories \subseteq Nat
  /\ ChannelOf \in [Events -> Channels]
  /\ RootOf \in [Events -> Events]
  /\ Tagged \subseteq Events
  /\ MaxEdits \in Nat /\ MaxChanges \in Nat
  /\ Retention \in BOOLEAN
  /\ IsFiniteSet(Categories)
  /\ None \notin Staff \cup Workers \cup Events \cup (Events \X Categories)

Versions == 0..MaxEdits
Links == Events \X Categories
Statuses == {"pending", "needs_setup", "routed", "ignored"}
NoMessage == [task |-> None, of |-> -1]
Cleared == -1

VARIABLES
  enabled,     (* SlackIntakeSettings.enabled                              *)
  active,      (* the channels that are active                             *)
  responsible, (* SlackResponsibility: assignee by channel and category    *)
  employed,    (* the staff whose is_active is set                         *)
  changes,     (* how many changes people have made since the start        *)
  inbox,       (* SlackIntakeEvent rows in order of id                     *)
  status,      (* SlackIntakeEvent.status                                  *)
  updated,     (* source_updated_ts, and so the version of the text        *)
  redacted,    (* events whose copy was removed                            *)
  old,         (* events past the retention period                         *)
  purging,     (* the purge cleared interpretations and has not committed  *)
  links,       (* SlackWorkItem rows in order of id                        *)
  assignee,    (* Task.assignee, for the task of each link                 *)
  open,        (* tasks that are not DONE and not in a build               *)
  message,     (* SlackTaskMessage by event and category                   *)
  notes,       (* notifications by event, version and person               *)
  triaged,     (* events last routed as team triage                        *)
  missed,      (* history: expired events routed while the purge ran       *)
  lease,       (* SlackChannel.lease_token: the worker that drew it        *)
  lapsed,      (* channels whose lease_until has passed                    *)
  pc,          (* where each worker is                                     *)
  todo,        (* channels its drain has yet to process                    *)
  event,       (* the event it analyses                                    *)
  seen         (* its source_revision when it was read                     *)

setup   == <<enabled, active, responsible, employed, changes>>
rows    == <<inbox, status, updated, redacted>>
age     == <<old, purging>>
work    == <<links, assignee, open, message, notes, triaged, missed>>
leases  == <<lease, lapsed>>
workers == <<pc, todo, event, seen>>
vars    == <<setup, rows, age, work, leases, workers>>

(* source_revision is renewed exactly when the text or redacted change.    *)
Revision(e) == <<updated[e], e \in redacted>>
Stored(e) == e \in Range(inbox)
SameThread(d, e) == ChannelOf[d] = ChannelOf[e] /\ RootOf[d] = RootOf[e]
Linked(e, c) == <<e, c>> \in Range(links)

(* The intake is configured in some way before its first message.         *)
Init ==
  /\ enabled \in BOOLEAN
  /\ active = Channels
  /\ responsible \in [Channels -> [Categories -> Staff \cup {None}]]
  /\ employed = Staff
  /\ changes = 0
  /\ inbox = <<>>
  /\ status = [e \in Events |-> "pending"]
  /\ updated = [e \in Events |-> 0]
  /\ redacted = {} /\ old = {} /\ purging = FALSE
  /\ links = <<>>
  /\ assignee = [l \in Links |-> None]
  /\ open = {}
  /\ message = [l \in Links |-> NoMessage]
  /\ notes = [n \in Events \X Versions \X Staff |-> 0]
  /\ triaged = {} /\ missed = {}
  /\ lease = [ch \in Channels |-> None]
  /\ lapsed = {}
  /\ pc = [w \in Workers |-> "idle"]
  /\ todo = [w \in Workers |-> {}]
  /\ event = [w \in Workers |-> None]
  /\ seen = [w \in Workers |-> <<0, FALSE>>]

----------------------------------------------------------------------------
(* Managers and staff.                                                     *)

Change == changes < MaxChanges /\ changes' = changes + 1

ToggleIntake ==
  /\ Change
  /\ enabled' = ~enabled
  /\ UNCHANGED <<active, responsible, employed, rows, age, work, leases, workers>>

ToggleChannel(ch) ==
  /\ Change
  /\ active' = IF ch \in active THEN active \ {ch} ELSE active \cup {ch}
  /\ UNCHANGED <<enabled, responsible, employed, rows, age, work, leases, workers>>

(* Only an active person can be made responsible.                          *)
SetResponsible(ch, c, s) ==
  /\ Change
  /\ s \in employed \cup {None}
  /\ s # responsible[ch][c]
  /\ responsible' = [responsible EXCEPT ![ch][c] = s]
  /\ UNCHANGED <<enabled, active, employed, rows, age, work, leases, workers>>

ToggleUser(s) ==
  /\ Change
  /\ employed' = IF s \in employed THEN employed \ {s} ELSE employed \cup {s}
  /\ UNCHANGED <<enabled, active, responsible, rows, age, work, leases, workers>>

(* A task is given to somebody else, or is completed or filed in a build.  *)
Reassign(e, c, s) ==
  /\ Change
  /\ Linked(e, c) /\ assignee[<<e, c>>] # s
  /\ assignee' = [assignee EXCEPT ![<<e, c>>] = s]
  /\ UNCHANGED <<enabled, active, responsible, employed, rows, age, links, open, message, notes, triaged, missed, leases, workers>>

CloseTask(e, c) ==
  /\ <<e, c>> \in open
  /\ open' = open \ {<<e, c>>}
  /\ UNCHANGED <<setup, rows, age, links, assignee, message, notes, triaged, missed, leases, workers>>

(* The inbox: retry() and ignore().                                        *)
SetStatus(e, from, to) ==
  /\ Stored(e) /\ status[e] \in from
  /\ status' = [status EXCEPT ![e] = to]
  /\ UNCHANGED <<setup, inbox, updated, redacted, age, work, leases, workers>>

Retry(e) == SetStatus(e, {"needs_setup"}, "pending")
Ignore(e) == SetStatus(e, {"needs_setup", "pending"}, "ignored")

----------------------------------------------------------------------------
(* Slack: webhook() and source_change().                                   *)

(* Mutant: a message delivered again is stored again.                      *)
NewMessage_Always(e) == TRUE
(* get_or_create on channel and message_ts: a row is never replaced.       *)
NewMessage(e) == ~Stored(e)

Deliver(e) ==
  /\ enabled /\ ChannelOf[e] \in active
  /\ e \in Tagged \/ \E d \in Range(inbox) : SameThread(d, e)
  /\ NewMessage(e)
  /\ inbox' = Append(inbox, e)
  /\ UNCHANGED <<setup, status, updated, redacted, age, work, leases, workers>>

(* Mutant: an edit leaves the event where it is.                           *)
ChangedTo_Same(e, deleted) == IF deleted THEN "ignored" ELSE status[e]
ChangedTo(e, deleted) == IF deleted THEN "ignored" ELSE "pending"

Clear(es) ==
  message' = [l \in Links |->
    IF l[1] \in es /\ message[l] # NoMessage THEN [message[l] EXCEPT !.of = Cleared]
    ELSE message[l]]

(* The n-th change of a message reaches us, in any order and even while    *)
(* the intake is paused.  Rows the purge has updated are locked.           *)
SourceChange(e, n, deleted) ==
  /\ Stored(e) /\ e \notin redacted /\ updated[e] < n
  /\ purging /\ e \in old => \A c \in Categories : message[<<e, c>>] = NoMessage
  /\ updated' = [updated EXCEPT ![e] = n]
  /\ redacted' = IF deleted THEN redacted \cup {e} ELSE redacted
  /\ status' = [status EXCEPT ![e] = ChangedTo(e, deleted)]
  /\ Clear({e})
  /\ UNCHANGED <<setup, inbox, age, links, assignee, open, notes, triaged, missed, leases, workers>>

----------------------------------------------------------------------------
(* The hourly purge_expired(): one transaction of several statements, none *)
(* of which locks the events before the last one.                          *)

GrowOld(e) ==
  /\ Retention /\ Stored(e) /\ e \notin old
  /\ ~purging
  /\ old' = old \cup {e}
  /\ UNCHANGED <<setup, rows, purging, work, leases, workers>>

PurgeInterpretations ==
  /\ ~purging /\ old \ redacted # {}
  /\ purging' = TRUE
  /\ Clear(old \ redacted)
  /\ UNCHANGED <<setup, rows, old, links, assignee, open, notes, triaged, missed, leases, workers>>

PurgeSources ==
  /\ purging
  /\ purging' = FALSE
  /\ redacted' = redacted \cup old
  /\ status' = [e \in Events |-> IF e \in old \ redacted THEN "ignored" ELSE status[e]]
  /\ UNCHANGED <<setup, inbox, updated, old, work, leases, workers>>

----------------------------------------------------------------------------
(* Routing: route(event, analysis).                                        *)

Owners(ch) == {c \in Categories : responsible[ch][c] \in employed}
Owner(e, c) == responsible[ChannelOf[e]][c]
People(ch) == {responsible[ch][c] : c \in Owners(ch)}

(* One triage item per person, under the person's first category.          *)
TriageItems(ch) ==
  {c \in Owners(ch) : \A d \in Owners(ch) : responsible[ch][d] = responsible[ch][c] => c =< d}

(* The event's own task, or the newest open one of its thread and category *)
ThreadLinks(e, c) ==
  {i \in DOMAIN links : /\ links[i][2] = c /\ links[i] \in open
                        /\ SameThread(links[i][1], e)}
Newest(is) == {i \in is : \A j \in is : j =< i}
Candidates(e, c) ==
  IF Linked(e, c) THEN {<<e, c>>} ELSE {links[i] : i \in Newest(ThreadLinks(e, c))}

(* Mutant: triage goes to whoever has the task now.                        *)
Usable_Reassigned(l, s, fallback) == assignee[l] \in employed
(* Triage must reach the responsible person; otherwise a task stays with   *)
(* whoever it was given to, if that is an active person.                   *)
Usable(l, s, fallback) == assignee[l] \in employed /\ (fallback => assignee[l] = s)

Existing(e, c, fallback) == {l \in Candidates(e, c) : Usable(l, Owner(e, c), fallback)}
TaskFor(e, c, fallback) ==
  IF Existing(e, c, fallback) = {} THEN <<e, c>> ELSE CHOOSE l \in Existing(e, c, fallback) : TRUE
Recipient(e, c, fallback) ==
  IF Existing(e, c, fallback) = {} THEN Owner(e, c) ELSE assignee[TaskFor(e, c, fallback)]

(* The categories that need a task of their own ...                        *)
NewItems(e, items, fallback) == {c \in items : Existing(e, c, fallback) = {}}
(* ... and the insert that breaks slack_event_category_once.               *)
Collides(e, items, fallback) == \E c \in NewItems(e, items, fallback) : Linked(e, c)

(* What the routing transaction would wait for while the purge is open.    *)
LockedByPurge(e, items, fallback) ==
  /\ purging
  /\ \E c \in items :
       \/ e \in old /\ message[<<e, c>>] # NoMessage
       \/ \E l \in Links : l[1] \in old /\ Existing(e, c, fallback) # {}
                           /\ message[l].task = TaskFor(e, c, fallback)

(* The AI may list the categories in any order.                            *)
Orders(S) == {order \in [1..Cardinality(S) -> S] : Range(order) = S}

(* The rows route() writes, all in one transaction; v is the version of    *)
(* the text the AI has read.                                               *)
Deliveries(e, items, fallback, v) ==
  LET new == NewItems(e, items, fallback)
      reached == {Recipient(e, c, fallback) : c \in items}
  IN
  /\ \E order \in Orders(new) :
       links' = links \o [i \in 1..Cardinality(new) |-> <<e, order[i]>>]
  /\ assignee' = [l \in Links |-> IF l[1] = e /\ l[2] \in new THEN Owner(e, l[2]) ELSE assignee[l]]
  /\ open' = open \cup {<<e, c>> : c \in new}
  /\ message' = [l \in Links |->
       IF l[1] = e /\ l[2] \in items THEN [task |-> TaskFor(e, l[2], fallback), of |-> v]
       ELSE message[l]]
  /\ notes' = [n \in DOMAIN notes |->
       IF n[1] = e /\ n[2] = updated[e] /\ n[3] \in reached THEN notes[n] + 1 ELSE notes[n]]
  /\ status' = [status EXCEPT ![e] = "routed"]
  /\ triaged' = IF fallback THEN triaged \cup {e} ELSE triaged \ {e}
  /\ missed' = IF purging /\ e \in old THEN missed \cup {e} ELSE missed

Leave(e, s) ==
  /\ status' = [status EXCEPT ![e] = s]
  /\ UNCHANGED work

----------------------------------------------------------------------------
(* Workers: drain_slack_intake() and process_channel().                    *)

Pending(ch) == {e \in Range(inbox) : ChannelOf[e] = ch /\ status[e] = "pending"}
(* Rows are taken in the order of their ids.                               *)
Oldest(ch) ==
  {inbox[i] : i \in {j \in DOMAIN inbox : /\ inbox[j] \in Pending(ch)
                                          /\ \A k \in 1..j - 1 : inbox[k] \notin Pending(ch)}}

Drain(w) ==
  /\ pc[w] = "idle" /\ enabled
  /\ {ch \in active : Pending(ch) # {}} # {}
  /\ pc' = [pc EXCEPT ![w] = "next"]
  /\ todo' = [todo EXCEPT ![w] = {ch \in active : Pending(ch) # {}}]
  /\ UNCHANGED <<setup, rows, age, work, leases, event, seen>>

(* Mutant: an abandoned lease is never taken over.                         *)
Claimable_Free(ch) == ch \in active /\ lease[ch] = None
Claimable(ch) == ch \in active /\ (lease[ch] = None \/ ch \in lapsed)

(* Claim the next channel and read its oldest pending event; a channel     *)
(* that has a worker or nothing to do is skipped.                          *)
Claim(w) ==
  /\ pc[w] = "next"
  /\ \E ch \in todo[w] :
       /\ \A other \in todo[w] : ch =< other
       /\ todo' = [todo EXCEPT ![w] = @ \ {ch}]
       /\ IF Claimable(ch) /\ enabled /\ Pending(ch) # {}
            THEN /\ lease' = [lease EXCEPT ![ch] = w]
                 /\ lapsed' = lapsed \ {ch}
                 /\ \E e \in Oldest(ch) :
                      /\ event' = [event EXCEPT ![w] = e]
                      /\ seen' = [seen EXCEPT ![w] = Revision(e)]
                 /\ pc' = [pc EXCEPT ![w] = "analysing"]
            ELSE UNCHANGED <<leases, event, seen, pc>>
  /\ UNCHANGED <<setup, rows, age, work>>

Rest(w) ==
  /\ pc[w] = "next" /\ todo[w] = {}
  /\ pc' = [pc EXCEPT ![w] = "idle"]
  /\ UNCHANGED <<setup, rows, age, work, leases, todo, event, seen>>

(* Mutants: the row is not read again; its revision is not compared.       *)
Fresh_NotReread(w) == ChannelOf[event[w]] \in active /\ enabled
Fresh_AnyRevision(w) ==
  LET e == event[w] IN
  /\ lease[ChannelOf[e]] = w
  /\ ChannelOf[e] \in active /\ enabled
  /\ status[e] = "pending"

(* Under the locks: is the analysis still about what is stored?            *)
Fresh(w) ==
  LET e == event[w] IN
  /\ lease[ChannelOf[e]] = w
  /\ ChannelOf[e] \in active /\ enabled
  /\ status[e] = "pending"
  /\ Revision(e) = seen[w]

(* A thread whose root was not captured is always triaged.                 *)
RootMissing(e) == RootOf[e] \notin Range(inbox) \ redacted

Routed(w, found, unsure) ==
  LET e == event[w]
      ch == ChannelOf[e]
      fallback == unsure \/ RootMissing(e) \/ ~(found \subseteq Owners(ch))
      items == IF fallback THEN TriageItems(ch) ELSE found
  IN
  IF Owners(ch) = {} THEN Leave(e, "needs_setup") /\ UNCHANGED todo
  ELSE IF items = {} THEN Leave(e, "ignored") /\ UNCHANGED todo
  ELSE
    /\ ~LockedByPurge(e, items, fallback)
    /\ IF Collides(e, items, fallback)
         (* IntegrityError: rolled back, and the whole drain ends.         *)
         THEN UNCHANGED <<status, work>> /\ todo' = [todo EXCEPT ![w] = {}]
         ELSE Deliveries(e, items, fallback, seen[w][1]) /\ UNCHANGED todo

(* The AI has answered: it found work in some categories.                  *)
Commit(w) ==
  /\ pc[w] = "analysing"
  /\ Fresh(w)
  /\ \E found \in SUBSET Categories, unsure \in BOOLEAN : Routed(w, found, unsure)
  /\ pc' = [pc EXCEPT ![w] = "releasing"]
  /\ UNCHANGED <<setup, inbox, updated, redacted, age, leases, event, seen>>

Abandon(w) ==
  /\ pc[w] = "analysing"
  /\ ~Fresh(w)
  /\ pc' = [pc EXCEPT ![w] = "releasing"]
  /\ UNCHANGED <<setup, rows, age, work, leases, todo, event, seen>>

Forget(w) ==
  /\ event' = [event EXCEPT ![w] = None]
  /\ seen' = [seen EXCEPT ![w] = <<0, FALSE>>]

(* finally: give the lease back, if it is still this worker's.             *)
Release(w) ==
  LET ch == ChannelOf[event[w]] IN
  /\ pc[w] = "releasing"
  /\ IF lease[ch] = w
       THEN lease' = [lease EXCEPT ![ch] = None] /\ lapsed' = lapsed \ {ch}
       ELSE UNCHANGED leases
  /\ pc' = [pc EXCEPT ![w] = "next"]
  /\ Forget(w)
  /\ UNCHANGED <<setup, rows, age, work, todo>>

WorkerDies(w) ==
  /\ pc[w] # "idle"
  /\ pc' = [pc EXCEPT ![w] = "idle"]
  /\ todo' = [todo EXCEPT ![w] = {}]
  /\ Forget(w)
  /\ UNCHANGED <<setup, rows, age, work, leases>>

(* Ten minutes after the claim, whatever its worker does.                  *)
LeaseLapses(ch) ==
  /\ lease[ch] # None /\ ch \notin lapsed
  /\ lapsed' = lapsed \cup {ch}
  /\ UNCHANGED <<setup, rows, age, work, lease, workers>>

----------------------------------------------------------------------------
Administration ==
  \/ ToggleIntake
  \/ \E ch \in Channels : ToggleChannel(ch)
  \/ \E ch \in Channels, c \in Categories, s \in Staff \cup {None} : SetResponsible(ch, c, s)
  \/ \E s \in Staff : ToggleUser(s)
  \/ \E e \in Events, c \in Categories, s \in Staff \cup {None} : Reassign(e, c, s)
  \/ \E e \in Events, c \in Categories : CloseTask(e, c)
  \/ \E e \in Events : Retry(e) \/ Ignore(e)

Slack ==
  \/ \E e \in Events : Deliver(e)
  \/ \E e \in Events, n \in Versions \ {0}, deleted \in BOOLEAN : SourceChange(e, n, deleted)

Purge == (\E e \in Events : GrowOld(e)) \/ PurgeInterpretations \/ PurgeSources

WorkerStep(w) == Claim(w) \/ Rest(w) \/ Commit(w) \/ Abandon(w) \/ Release(w)

Next ==
  \/ Administration
  \/ Slack
  \/ Purge
  \/ \E w \in Workers : Drain(w) \/ WorkerStep(w) \/ WorkerDies(w)
  \/ \E ch \in Channels : LeaseLapses(ch)

Spec == Init /\ [][Next]_vars

(* Beat starts the drain every fifteen seconds, workers go on, leases      *)
(* lapse and a purge that began ends; a worker does not die in every drain *)
(* before it has claimed, nor in every analysis.                           *)
Fairness ==
  /\ \A w \in Workers : WF_vars(Drain(w)) /\ WF_vars(WorkerStep(w))
                    /\ SF_vars(Claim(w)) /\ SF_vars(Commit(w))
  /\ \A ch \in Channels : WF_vars(LeaseLapses(ch))
  /\ WF_vars(PurgeSources)

FairSpec == Spec /\ Fairness

----------------------------------------------------------------------------
(* Properties                                                              *)

(* Every variable keeps its type; a message is stored once, however often  *)
(* Slack delivers it.                                                      *)
TypeOK ==
  /\ enabled \in BOOLEAN /\ active \subseteq Channels
  /\ responsible \in [Channels -> [Categories -> Staff \cup {None}]]
  /\ employed \subseteq Staff /\ changes \in 0..MaxChanges
  /\ inbox \in Seq(Events) /\ IsInjective(inbox)
  /\ status \in [Events -> Statuses]
  /\ updated \in [Events -> Versions]
  /\ redacted \subseteq Events /\ old \subseteq Events /\ purging \in BOOLEAN
  /\ links \in Seq(Links) /\ IsInjective(links)
  /\ assignee \in [Links -> Staff \cup {None}]
  /\ open \subseteq Range(links)
  /\ message \in [Links -> [task : Links \cup {None}, of : Versions \cup {Cleared}]]
  /\ notes \in [Events \X Versions \X Staff -> Nat]
  /\ triaged \subseteq Events /\ missed \subseteq Events
  /\ lease \in [Channels -> Workers \cup {None}] /\ lapsed \subseteq Channels
  /\ pc \in [Workers -> {"idle", "next", "analysing", "releasing"}]
  /\ todo \in [Workers -> SUBSET Channels]
  /\ event \in [Workers -> Events \cup {None}]
  /\ seen \in [Workers -> Versions \X BOOLEAN]

(* What staff read as the interpretation of a message is about the text it *)
(* has now, and nothing is left of it once the message was removed from    *)
(* Slack or purged - except of a message routed while the purge that       *)
(* removes it was running: the purge had already cleared interpretations.  *)
InterpretationIsCurrent ==
  \A l \in Links : message[l].of # Cleared =>
    /\ message[l].of = updated[l[1]]
    /\ l[1] \in redacted => l[1] \in missed

(* Nobody is notified twice of one version of a message, whatever workers  *)
(* hold or lose the channel's lease.                                       *)
NotifiedOnce == \A n \in DOMAIN notes : notes[n] =< 1

(* A message shown as assigned was delivered in its present wording: some  *)
(* task has it and somebody was told.  While the purge runs, an expired    *)
(* one still shows as assigned until the purge commits.                    *)
RoutedIsDelivered ==
  \A e \in Events : status[e] = "routed" =>
    /\ \/ purging /\ e \in old
       \/ \E c \in Categories : message[<<e, c>>].of = updated[e] /\ message[<<e, c>>].task # None
    /\ \E s \in Staff : notes[<<e, updated[e], s>>] > 0

(* Triage reaches every active person responsible for the channel, also    *)
(* when an older task of theirs was given to somebody else.                *)
TriageReachesEveryone ==
  [][\A e \in Events :
       status[e] = "pending" /\ status'[e] = "routed" /\ e \in triaged' =>
         \A s \in People(ChannelOf[e]) :
           notes'[<<e, updated[e], s>>] = notes[<<e, updated[e], s>>] + 1]_vars

(* The intake is running and there is somebody to deliver to.              *)
Running ==
  /\ enabled /\ active = Channels
  /\ \A ch \in Channels : Owners(ch) # {}

(* A task of the event itself cannot be used for it any more.              *)
Conflicted(e) ==
  \E c \in Categories : Linked(e, c) /\ (assignee[<<e, c>>] \notin employed
                                         \/ assignee[<<e, c>>] # Owner(e, c))

Handled == \A e \in Events : (Stored(e) /\ status[e] = "pending") ~> status[e] # "pending"

(* While the intake runs, every stored message is handled, although        *)
(* workers die and leave leases behind, unless a message in conflict with  *)
(* its own task waits.                                                     *)
HandledUnlessConflicted ==
  <>[](Running /\ \A e \in Events : status[e] = "pending" => ~Conflicted(e)) => Handled
=============================================================================
