------------------------- MODULE SlackIntakeProofs -------------------------
(***************************************************************************)
(* Proofs about the Slack intake, for any number of channels, messages,    *)
(* categories, staff, workers, edits and changes of the settings.          *)
(***************************************************************************)
EXTENDS SlackIntake, SequenceTheorems, FiniteSetTheorems, WellFoundedInduction, TLAPS

Interpretation == [task : Links \cup {None}, of : Versions \cup {Cleared}]

(* The type invariant, by the part of the state it is about.               *)
SetupOK ==
  /\ enabled \in BOOLEAN /\ active \subseteq Channels
  /\ responsible \in [Channels -> [Categories -> Staff \cup {None}]]
  /\ employed \subseteq Staff /\ changes \in 0..MaxChanges

RowsOK ==
  /\ inbox \in Seq(Events) /\ IsInjective(inbox)
  /\ status \in [Events -> Statuses]
  /\ updated \in [Events -> Versions]
  /\ redacted \subseteq Events /\ old \subseteq Events /\ purging \in BOOLEAN

LinksOK == links \in Seq(Links) /\ IsInjective(links) /\ open \subseteq Range(links)

TasksOK ==
  /\ assignee \in [Links -> Staff \cup {None}]
  /\ message \in [Links -> Interpretation]
  /\ notes \in [Events \X Versions \X Staff -> Nat]
  /\ triaged \subseteq Events /\ missed \subseteq Events

WorkersOK ==
  /\ lease \in [Channels -> Workers \cup {None}] /\ lapsed \subseteq Channels
  /\ pc \in [Workers -> {"idle", "next", "analysing", "releasing"}]
  /\ todo \in [Workers -> SUBSET Channels]
  /\ event \in [Workers -> Events \cup {None}]
  /\ seen \in [Workers -> Versions \X BOOLEAN]

Types == SetupOK /\ RowsOK /\ LinksOK /\ TasksOK /\ WorkersOK

(* Whoever analyses has an event.                                          *)
AnalysesEvent == \A w \in Workers : pc[w] \in {"analysing", "releasing"} => event[w] \in Events

(* Nothing happens to a message after its copy was removed.                *)
RedactedRest == \A e \in redacted : status[e] = "ignored"

(* An interpretation is of the present text; that of a removed message is  *)
(* left only where the message was routed while the purge ran, as is that  *)
(* of a message the running purge is about to remove.                      *)
InterpretationsInv ==
  \A l \in Links : message[l].of # Cleared =>
    /\ message[l].of = updated[l[1]]
    /\ l[1] \in redacted => l[1] \in missed
    /\ purging /\ l[1] \in old => l[1] \in missed \cup redacted

(* Nobody was told of a later text than the present one, and whoever was   *)
(* told of the present one was told by the routing that settled it.        *)
NotesInv ==
  \A e \in Events, n \in Versions, s \in Staff :
    /\ notes[<<e, n, s>>] =< 1
    /\ notes[<<e, n, s>>] > 0 =>
         n =< updated[e] /\ (n = updated[e] => status[e] \in {"routed", "ignored"})

(* What RoutedIsDelivered says of one message.                             *)
Told(e) == \E s \in Staff : notes[<<e, updated[e], s>>] > 0
Carried(e) == \E c \in Categories : message[<<e, c>>].of = updated[e] /\ message[<<e, c>>].task # None

DeliveredInv ==
  \A e \in Events : status[e] = "routed" => Told(e) /\ ((purging /\ e \in old) \/ Carried(e))

IntakeInv ==
  /\ Types /\ AnalysesEvent /\ RedactedRest
  /\ InterpretationsInv /\ NotesInv /\ DeliveredInv
----------------------------------------------------------------------------
(* Numbers, sequences and records.                                         *)

(* Every set of numbers that is not empty has a smallest one.              *)
LEMMA Smallest ==
  ASSUME NEW S \in SUBSET Nat, S # {}
  PROVE  \E x \in S : \A y \in S : x =< y
<1> DEFINE R == OpToRel(<, Nat)
<1>1. \E x \in S : \A y \in S : <<y, x>> \notin R
  BY NatLessThanWellFounded, WFMin, Zenon
<1>2. \A x, y \in Nat : <<y, x>> \in R <=> y < x
  BY DEF OpToRel
<1> HIDE DEF R
<1>3. PICK x \in S : \A y \in S : ~(y < x)
  BY <1>1, <1>2
<1> QED BY <1>3

(* A row that is not there yet may be added.                               *)
LEMMA AppendNew ==
  ASSUME NEW S, NEW s \in Seq(S), IsInjective(s), NEW x \in S, x \notin Range(s)
  PROVE  Append(s, x) \in Seq(S) /\ IsInjective(Append(s, x))
<1>1. /\ Append(s, x) \in Seq(S) /\ Len(Append(s, x)) = Len(s) + 1
      /\ \A i \in 1..Len(s) : Append(s, x)[i] = s[i]
      /\ Append(s, x)[Len(s) + 1] = x
  BY AppendProperties
<1>2. DOMAIN s = 1..Len(s) /\ DOMAIN Append(s, x) = 1..Len(s) + 1 /\ Len(s) \in Nat
  BY <1>1, LenProperties
<1>3. \A i \in 1..Len(s) : s[i] # x
  BY <1>2 DEF Range
<1>4. \A i, j \in 1..Len(s) : s[i] = s[j] => i = j
  BY <1>2 DEF IsInjective
<1>5. ASSUME NEW i \in 1..Len(s) + 1, NEW j \in 1..Len(s) + 1, Append(s, x)[i] = Append(s, x)[j]
      PROVE  i = j
  <2>1. (i \in 1..Len(s) \/ i = Len(s) + 1) /\ (j \in 1..Len(s) \/ j = Len(s) + 1)
    BY <1>2
  <2> QED BY <1>1, <1>3, <1>4, <1>5, <2>1
<1> QED BY <1>1, <1>2, <1>5 DEF IsInjective

(* So may several, if they are new and differ from each other.             *)
LEMMA ConcatNew ==
  ASSUME NEW S, NEW s \in Seq(S), IsInjective(s), NEW t \in Seq(S), IsInjective(t),
         Range(s) \cap Range(t) = {}
  PROVE  s \o t \in Seq(S) /\ IsInjective(s \o t) /\ Range(s \o t) = Range(s) \cup Range(t)
<1>1. /\ s \o t \in Seq(S) /\ Len(s \o t) = Len(s) + Len(t)
      /\ \A i \in 1..Len(s) + Len(t) : (s \o t)[i] = IF i =< Len(s) THEN s[i] ELSE t[i - Len(s)]
  BY ConcatProperties
<1>2. /\ DOMAIN s = 1..Len(s) /\ DOMAIN t = 1..Len(t) /\ Len(s) \in Nat /\ Len(t) \in Nat
      /\ DOMAIN (s \o t) = 1..Len(s) + Len(t)
  BY <1>1, LenProperties
<1>3. \A i \in 1..Len(s), j \in 1..Len(t) : s[i] # t[j]
  BY <1>2 DEF Range
<1>4. /\ \A i, j \in 1..Len(s) : s[i] = s[j] => i = j
      /\ \A i, j \in 1..Len(t) : t[i] = t[j] => i = j
  BY <1>2 DEF IsInjective
<1>5. ASSUME NEW i \in 1..Len(s) + Len(t), NEW j \in 1..Len(s) + Len(t), (s \o t)[i] = (s \o t)[j]
      PROVE  i = j
  <2>1. /\ i =< Len(s) => i \in 1..Len(s)
        /\ j =< Len(s) => j \in 1..Len(s)
        /\ ~(i =< Len(s)) => i - Len(s) \in 1..Len(t)
        /\ ~(j =< Len(s)) => j - Len(s) \in 1..Len(t)
    BY <1>2
  <2>2. CASE i =< Len(s) /\ j =< Len(s)
    BY <1>1, <1>4, <1>5, <2>1, <2>2
  <2>3. CASE ~(i =< Len(s)) /\ ~(j =< Len(s))
    <3>1. t[i - Len(s)] = t[j - Len(s)]
      BY <1>1, <1>5, <2>3
    <3>2. i - Len(s) = j - Len(s)
      BY <1>4, <2>1, <2>3, <3>1
    <3> QED BY <1>2, <3>2
  <2>4. CASE (i =< Len(s)) # (j =< Len(s))
    BY <1>1, <1>3, <1>5, <2>1, <2>4
  <2> QED BY <2>2, <2>3, <2>4
<1>6. Range(s \o t) = Range(s) \cup Range(t)
  BY RangeConcatenation
<1> QED BY <1>1, <1>2, <1>5, <1>6 DEF IsInjective

(* Each edit of a text has a number.                                       *)
LEMMA VersionNumbers == Versions \subseteq Nat /\ 0 \in Versions /\ Cleared \notin Versions
BY IntakeConstants DEF Versions, Cleared

(* What clearing interpretations leaves.                                   *)
LEMMA ClearLeaves ==
  ASSUME TasksOK, NEW es, Clear(es)
  PROVE  /\ message' \in [Links -> Interpretation]
         /\ \A l \in Links : IF l[1] \in es THEN message'[l].of = Cleared
                                            ELSE message'[l] = message[l]
<1>1. \A l \in Links : message[l] \in Interpretation
  BY DEF TasksOK
<1>2. \A m \in Interpretation : /\ [m EXCEPT !.of = Cleared] \in Interpretation
                                /\ [m EXCEPT !.of = Cleared].of = Cleared
  BY DEF Interpretation
<1>3. NoMessage.of = Cleared
  BY DEF NoMessage, Cleared
<1> QED BY <1>1, <1>2, <1>3 DEF Clear
----------------------------------------------------------------------------
(* Routing.                                                                *)

(* A category somebody answers for gets a task, which goes to an active    *)
(* person; under triage, to the one who is responsible.                    *)
LEMMA Receives ==
  ASSUME SetupOK, LinksOK, TasksOK, NEW e \in Events, NEW c \in Owners(ChannelOf[e]),
         NEW fallback \in BOOLEAN
  PROVE  /\ TaskFor(e, c, fallback) \in Links /\ TaskFor(e, c, fallback) # None
         /\ Recipient(e, c, fallback) \in Staff
         /\ fallback => Recipient(e, c, fallback) = Owner(e, c)
<1>1. c \in Categories /\ Owner(e, c) \in employed /\ employed \subseteq Staff
  BY DEF Owners, Owner, SetupOK
<1>2. <<e, c>> \in Links
  BY <1>1 DEF Links
<1>3. Existing(e, c, fallback) \subseteq Links
  <2>1. \A i \in DOMAIN links : links[i] \in Links
    BY LenProperties, ElementOfSeq DEF LinksOK
  <2>2. Candidates(e, c) \subseteq Links
    BY <1>2, <2>1 DEF Candidates, Newest, ThreadLinks
  <2> QED BY <2>2 DEF Existing
<1>4. Existing(e, c, fallback) # {} => TaskFor(e, c, fallback) \in Existing(e, c, fallback)
  BY DEF TaskFor
<1>5. TaskFor(e, c, fallback) \in Links
  BY <1>2, <1>3, <1>4 DEF TaskFor
<1>6. None \notin Links
  BY IntakeConstants DEF Links
<1>7. CASE Existing(e, c, fallback) = {}
  BY <1>1, <1>5, <1>6, <1>7 DEF Recipient
<1>8. CASE Existing(e, c, fallback) # {}
  <2>1. Usable(TaskFor(e, c, fallback), Owner(e, c), fallback)
    BY <1>4, <1>8 DEF Existing
  <2>2. Recipient(e, c, fallback) = assignee[TaskFor(e, c, fallback)]
    BY <1>8 DEF Recipient
  <2> QED BY <1>1, <1>5, <1>6, <2>1, <2>2 DEF Usable
<1> QED BY <1>7, <1>8

(* The new work items of a routing, in any order, are rows of their own.   *)
LEMMA NewLinks ==
  ASSUME LinksOK, NEW e \in Events, NEW new \in SUBSET Categories,
         \A c \in new : ~Linked(e, c), NEW order \in Orders(new),
         links' = links \o [i \in 1..Cardinality(new) |-> <<e, order[i]>>]
  PROVE  /\ links' \in Seq(Links) /\ IsInjective(links')
         /\ Range(links') = Range(links) \cup {<<e, c>> : c \in new}
<1> DEFINE more == [i \in 1..Cardinality(new) |-> <<e, order[i]>>]
<1>1. IsFiniteSet(new)
  BY IntakeConstants, FS_Subset
<1>2. Cardinality(new) \in Nat
  BY <1>1, FS_CardinalityType
<1>3. order \in [1..Cardinality(new) -> new] /\ Range(order) = new
  BY DEF Orders
<1>4. \A c \in new : <<e, c>> \in Links
  BY DEF Links
<1>5. more \in Seq(Links)
  <2>1. \A i \in 1..Cardinality(new) : <<e, order[i]>> \in Links
    BY <1>3, <1>4
  <2> QED BY <1>2, <2>1, IsASeq
<1>6. Range(more) = {<<e, c>> : c \in new}
  BY <1>3 DEF Range
<1>7. IsInjective(order)
  <2>1. order \in Surjection(1..Cardinality(new), new)
    BY <1>3 DEF Surjection, Range
  <2>2. IsFiniteSet(1..Cardinality(new)) /\ Cardinality(1..Cardinality(new)) = Cardinality(new)
    BY <1>2, FS_Interval
  <2>3. order \in Injection(1..Cardinality(new), new)
    BY <1>1, <2>1, <2>2, FS_SurjSameCardinalityImpliesInj
  <2> QED BY <2>3 DEF Injection
<1>8. IsInjective(more)
  BY <1>3, <1>7 DEF IsInjective
<1>9. Range(links) \cap Range(more) = {}
  BY <1>6 DEF Linked
<1> HIDE DEF more
<1>10. links \o more \in Seq(Links) /\ IsInjective(links \o more)
       /\ Range(links \o more) = Range(links) \cup Range(more)
  BY <1>5, <1>8, <1>9, ConcatNew DEF LinksOK
<1>11. links' = links \o more
  BY DEF more
<1> QED BY <1>6, <1>10, <1>11

(* What the routing transaction writes.                                    *)
Writes(e, items, fallback, v) ==
  /\ status' = [status EXCEPT ![e] = "routed"]
  /\ \A l \in Links : IF l[1] = e /\ l[2] \in items
                      THEN message'[l].of = v /\ message'[l].task # None
                      ELSE message'[l] = message[l]
  /\ \A d \in Events, n \in Versions, s \in Staff :
       notes'[<<d, n, s>>] =
         IF d = e /\ n = updated[e] /\ \E c \in items : s = Recipient(e, c, fallback)
         THEN notes[<<d, n, s>>] + 1 ELSE notes[<<d, n, s>>]

LEMMA Delivers ==
  ASSUME SetupOK, RowsOK, LinksOK, TasksOK, NEW e \in Events,
         NEW items \in SUBSET Owners(ChannelOf[e]), NEW fallback \in BOOLEAN,
         NEW v \in Versions, ~Collides(e, items, fallback), Deliveries(e, items, fallback, v)
  PROVE  LinksOK' /\ TasksOK' /\ Writes(e, items, fallback, v)
<1> DEFINE new == NewItems(e, items, fallback)
<1>1. items \subseteq Categories /\ \A c \in items : Owner(e, c) \in Staff
  BY DEF Owners, Owner, SetupOK
<1>2. new \subseteq Categories /\ \A c \in new : ~Linked(e, c) /\ Owner(e, c) \in Staff
  BY <1>1 DEF NewItems, Collides
<1>3. LinksOK'
  <2>1. PICK order \in Orders(new) :
          links' = links \o [i \in 1..Cardinality(new) |-> <<e, order[i]>>]
    BY DEF Deliveries
  <2>2. open' = open \cup {<<e, c>> : c \in new}
    BY DEF Deliveries
  <2> HIDE DEF new
  <2>3. /\ links' \in Seq(Links) /\ IsInjective(links')
        /\ Range(links') = Range(links) \cup {<<e, c>> : c \in new}
    BY <1>2, <2>1, NewLinks
  <2> QED BY <2>2, <2>3 DEF LinksOK
<1>4. assignee' \in [Links -> Staff \cup {None}]
  <2>1. assignee' = [l \in Links |-> IF l[1] = e /\ l[2] \in new THEN Owner(e, l[2]) ELSE assignee[l]]
    BY DEF Deliveries
  <2> QED BY <1>2, <2>1 DEF TasksOK
<1>5. /\ message' \in [Links -> Interpretation]
      /\ \A l \in Links : IF l[1] = e /\ l[2] \in items
                          THEN message'[l].of = v /\ message'[l].task # None
                          ELSE message'[l] = message[l]
  <2>1. message' = [l \in Links |->
          IF l[1] = e /\ l[2] \in items THEN [task |-> TaskFor(e, l[2], fallback), of |-> v]
          ELSE message[l]]
    BY DEF Deliveries
  <2>2. ASSUME NEW l \in Links
        PROVE  /\ message'[l] \in Interpretation
               /\ IF l[1] = e /\ l[2] \in items
                  THEN message'[l].of = v /\ message'[l].task # None
                  ELSE message'[l] = message[l]
    <3>1. CASE l[1] = e /\ l[2] \in items
      <4>1. TaskFor(e, l[2], fallback) \in Links /\ TaskFor(e, l[2], fallback) # None
        BY <3>1, Receives
      <4> QED BY <2>1, <3>1, <4>1 DEF Interpretation
    <3>2. CASE ~(l[1] = e /\ l[2] \in items)
      BY <2>1, <3>2 DEF TasksOK
    <3> QED BY <3>1, <3>2
  <2> QED BY <2>1, <2>2
<1>6. /\ notes' \in [Events \X Versions \X Staff -> Nat]
      /\ \A d \in Events, n \in Versions, s \in Staff :
              notes'[<<d, n, s>>] =
                IF d = e /\ n = updated[e] /\ \E c \in items : s = Recipient(e, c, fallback)
                THEN notes[<<d, n, s>>] + 1 ELSE notes[<<d, n, s>>]
  <2>1. notes' = [n \in Events \X Versions \X Staff |->
          IF n[1] = e /\ n[2] = updated[e] /\ n[3] \in {Recipient(e, c, fallback) : c \in items}
          THEN notes[n] + 1 ELSE notes[n]]
    BY DEF Deliveries, TasksOK
  <2> QED BY <2>1 DEF TasksOK
<1>7. triaged' \subseteq Events /\ missed' \subseteq Events
  BY DEF Deliveries, TasksOK
<1>8. status' = [status EXCEPT ![e] = "routed"]
  BY DEF Deliveries
<1> QED BY <1>3, <1>4, <1>5, <1>6, <1>7, <1>8 DEF TasksOK, Writes

(* A worker commits what it has read, of an event that is still pending:   *)
(* it routes it, lets it rest, or is turned back by its own task.          *)
Routes(e, items, fallback) ==
  /\ items # {} /\ (fallback => items = TriageItems(ChannelOf[e]))
  /\ Deliveries(e, items, fallback, updated[e])

LEMMA Commits ==
  ASSUME Types, AnalysesEvent, NEW w \in Workers, Commit(w)
  PROVE  /\ event[w] \in Events /\ status[event[w]] = "pending"
         /\ UNCHANGED <<setup, inbox, updated, redacted, age, leases, event, seen>>
         /\ \/ UNCHANGED <<status, work>>
            \/ \E t \in {"needs_setup", "ignored"} : Leave(event[w], t)
            \/ \E items \in SUBSET Owners(ChannelOf[event[w]]), fallback \in BOOLEAN :
                 ~Collides(event[w], items, fallback) /\ Routes(event[w], items, fallback)
<1> DEFINE e == event[w]
           ch == ChannelOf[e]
<1>1. e \in Events /\ status[e] = "pending" /\ Revision(e) = seen[w]
  BY DEF Commit, Fresh, AnalysesEvent
<1>2. seen[w][1] = updated[e]
  BY <1>1 DEF Revision
<1>3. PICK found \in SUBSET Categories, unsure \in BOOLEAN : Routed(w, found, unsure)
  BY DEF Commit
<1> DEFINE fallback == unsure \/ RootMissing(e) \/ ~(found \subseteq Owners(ch))
           items == IF fallback THEN TriageItems(ch) ELSE found
<1>4. items \subseteq Owners(ch) /\ fallback \in BOOLEAN
  BY DEF TriageItems
<1>5. \/ \E t \in {"needs_setup", "ignored"} : Leave(e, t)
      \/ items # {} /\ IF Collides(e, items, fallback)
                       THEN UNCHANGED <<status, work>>
                       ELSE Deliveries(e, items, fallback, updated[e])
  BY <1>2, <1>3 DEF Routed
<1>6. fallback => items = TriageItems(ch)
  OBVIOUS
<1>7. UNCHANGED <<setup, inbox, updated, redacted, age, leases, event, seen>>
  BY DEF Commit
<1> HIDE DEF items, fallback
<1> QED BY <1>1, <1>4, <1>5, <1>6, <1>7 DEF Routes
----------------------------------------------------------------------------
(* Every step keeps the types.                                             *)

WorkerMoves(w) == Drain(w) \/ Claim(w) \/ Rest(w) \/ Abandon(w) \/ Release(w) \/ WorkerDies(w)

LEMMA SetupStep ==
  ASSUME SetupOK, Next
  PROVE  SetupOK'
<1>1. CASE UNCHANGED setup
  BY <1>1 DEF SetupOK, setup
<1>2. CASE ToggleIntake
  BY <1>2, IntakeConstants DEF ToggleIntake, Change, SetupOK
<1>3. ASSUME NEW ch \in Channels, ToggleChannel(ch) PROVE SetupOK'
  BY <1>3, IntakeConstants DEF ToggleChannel, Change, SetupOK
<1>4. ASSUME NEW ch \in Channels, NEW c \in Categories, NEW s \in Staff \cup {None},
             SetResponsible(ch, c, s)
      PROVE  SetupOK'
  BY <1>4, IntakeConstants DEF SetResponsible, Change, SetupOK
<1>5. ASSUME NEW s \in Staff, ToggleUser(s) PROVE SetupOK'
  BY <1>5, IntakeConstants DEF ToggleUser, Change, SetupOK
<1>6. CASE Administration
  <2>1. ASSUME NEW e \in Events, NEW c \in Categories, NEW s \in Staff \cup {None}, Reassign(e, c, s)
        PROVE  SetupOK'
    BY <2>1, IntakeConstants DEF Reassign, Change, SetupOK
  <2>2. ASSUME NEW e \in Events, NEW c \in Categories, CloseTask(e, c) PROVE SetupOK'
    BY <1>1, <2>2 DEF CloseTask
  <2>3. ASSUME NEW e \in Events, Retry(e) \/ Ignore(e) PROVE SetupOK'
    BY <1>1, <2>3 DEF Retry, Ignore, SetStatus
  <2> QED BY <1>2, <1>3, <1>4, <1>5, <1>6, <2>1, <2>2, <2>3 DEF Administration
<1>7. CASE Slack \/ Purge
  BY <1>1, <1>7 DEF Slack, Purge, Deliver, SourceChange, GrowOld, PurgeInterpretations, PurgeSources
<1>8. ASSUME NEW w \in Workers, WorkerMoves(w) \/ Commit(w) PROVE SetupOK'
  BY <1>1, <1>8 DEF WorkerMoves, Drain, Claim, Rest, Abandon, Release, WorkerDies, Commit
<1>9. ASSUME NEW ch \in Channels, LeaseLapses(ch) PROVE SetupOK'
  BY <1>1, <1>9 DEF LeaseLapses
<1> QED BY <1>6, <1>7, <1>8, <1>9 DEF Next, WorkerStep, WorkerMoves

(* People do not touch the rows, but for retrying and ignoring a message,  *)
(* and workers only when they commit.                                      *)
LEMMA RowsStep ==
  ASSUME Types, AnalysesEvent, Next
  PROVE  RowsOK'
<1> USE DEF RowsOK
<1>1. CASE UNCHANGED <<rows, age>>
  BY <1>1 DEF Types, rows, age
<1>2. RowsOK /\ TasksOK /\ \A s \in Statuses, e \in Events : [status EXCEPT ![e] = s] \in [Events -> Statuses]
  BY DEF Types
<1>3. CASE Administration
  <2>1. ASSUME NEW e \in Events, Retry(e) \/ Ignore(e) PROVE RowsOK'
    BY <1>2, <2>1 DEF Retry, Ignore, SetStatus, age, Statuses
  <2> QED
    BY <1>1, <1>3, <2>1 DEF Administration, ToggleIntake, ToggleChannel, SetResponsible, ToggleUser,
       Reassign, CloseTask
<1>4. CASE Slack
  <2>1. ASSUME NEW e \in Events, Deliver(e) PROVE RowsOK'
    <3>1. inbox' = Append(inbox, e) /\ e \notin Range(inbox)
      BY <2>1 DEF Deliver, NewMessage, Stored
    <3>2. inbox' \in Seq(Events) /\ IsInjective(inbox')
      BY <1>2, <3>1, AppendNew
    <3> QED BY <1>2, <2>1, <3>2 DEF Deliver, age
  <2>2. ASSUME NEW e \in Events, NEW n \in Versions \ {0}, NEW deleted \in BOOLEAN,
               SourceChange(e, n, deleted)
        PROVE  RowsOK'
    <3>1. ChangedTo(e, deleted) \in Statuses
      BY DEF ChangedTo, Statuses
    <3> QED BY <1>2, <2>2, <3>1 DEF SourceChange, age
  <2> QED BY <1>4, <2>1, <2>2 DEF Slack
<1>5. CASE Purge
  <2>1. ASSUME NEW e \in Events, GrowOld(e) PROVE RowsOK'
    BY <1>2, <2>1 DEF GrowOld, rows
  <2>2. CASE PurgeInterpretations
    BY <1>2, <2>2 DEF PurgeInterpretations, rows
  <2>3. CASE PurgeSources
    <3>1. status' \in [Events -> Statuses]
      BY <1>2, <2>3 DEF PurgeSources, Statuses
    <3> QED BY <1>2, <2>3, <3>1 DEF PurgeSources
  <2> QED BY <1>5, <2>1, <2>2, <2>3 DEF Purge
<1>6. ASSUME NEW w \in Workers, WorkerMoves(w) PROVE RowsOK'
  BY <1>1, <1>6 DEF WorkerMoves, Drain, Claim, Rest, Abandon, Release, WorkerDies
<1>7. ASSUME NEW w \in Workers, Commit(w) PROVE RowsOK'
  <2>1. UNCHANGED <<inbox, updated, redacted, old, purging>>
    BY <1>7 DEF Commit, age
  <2>2. \/ status' = status
        \/ \E t \in {"needs_setup", "ignored", "routed"} : status' = [status EXCEPT ![event[w]] = t]
    BY <1>7, Commits DEF Leave, Routes, Deliveries
  <2>3. event[w] \in Events
    BY <1>7, Commits
  <2>4. status' \in [Events -> Statuses]
    BY <1>2, <2>2, <2>3 DEF Statuses
  <2> QED BY <1>2, <2>1, <2>4
<1>8. ASSUME NEW ch \in Channels, LeaseLapses(ch) PROVE RowsOK'
  BY <1>1, <1>8 DEF LeaseLapses
<1> QED BY <1>3, <1>4, <1>5, <1>6, <1>7, <1>8 DEF Next, WorkerStep, WorkerMoves

LEMMA WorkStep ==
  ASSUME Types, AnalysesEvent, Next
  PROVE  LinksOK' /\ TasksOK'
<1>1. CASE UNCHANGED work
  BY <1>1 DEF Types, LinksOK, TasksOK, work
<1>2. LinksOK /\ TasksOK /\ SetupOK /\ RowsOK
  BY DEF Types
<1>3. CASE Administration
  <2>1. ASSUME NEW e \in Events, NEW c \in Categories, NEW s \in Staff \cup {None}, Reassign(e, c, s)
        PROVE  LinksOK' /\ TasksOK'
    <3>1. <<e, c>> \in Links
      BY DEF Links
    <3> QED BY <1>2, <2>1, <3>1 DEF Reassign, LinksOK, TasksOK
  <2>2. ASSUME NEW e \in Events, NEW c \in Categories, CloseTask(e, c) PROVE LinksOK' /\ TasksOK'
    BY <1>2, <2>2 DEF CloseTask, LinksOK, TasksOK
  <2> QED
    BY <1>1, <1>3, <2>1, <2>2 DEF Administration, ToggleIntake, ToggleChannel, SetResponsible,
       ToggleUser, Retry, Ignore, SetStatus
<1>4. CASE Slack
  <2>1. ASSUME NEW e \in Events, NEW n \in Versions \ {0}, NEW deleted \in BOOLEAN,
               SourceChange(e, n, deleted)
        PROVE  LinksOK' /\ TasksOK'
    <3>1. message' \in [Links -> Interpretation]
      BY <1>2, <2>1, ClearLeaves DEF SourceChange
    <3> QED BY <1>2, <2>1, <3>1 DEF SourceChange, LinksOK, TasksOK
  <2> QED BY <1>1, <1>4, <2>1 DEF Slack, Deliver
<1>5. CASE Purge
  <2>1. CASE PurgeInterpretations
    <3>1. message' \in [Links -> Interpretation]
      BY <1>2, <2>1, ClearLeaves DEF PurgeInterpretations
    <3> QED BY <1>2, <2>1, <3>1 DEF PurgeInterpretations, LinksOK, TasksOK
  <2> QED BY <1>1, <1>5, <2>1 DEF Purge, GrowOld, PurgeSources
<1>6. ASSUME NEW w \in Workers, WorkerMoves(w) PROVE LinksOK' /\ TasksOK'
  BY <1>1, <1>6 DEF WorkerMoves, Drain, Claim, Rest, Abandon, Release, WorkerDies
<1>7. ASSUME NEW w \in Workers, Commit(w) PROVE LinksOK' /\ TasksOK'
  <2>1. CASE UNCHANGED work
    BY <1>1, <2>1
  <2>2. ASSUME NEW items \in SUBSET Owners(ChannelOf[event[w]]), NEW fallback \in BOOLEAN,
               ~Collides(event[w], items, fallback), Routes(event[w], items, fallback)
        PROVE  LinksOK' /\ TasksOK'
    <3>1. event[w] \in Events /\ updated[event[w]] \in Versions
      BY <1>2, <1>7, Commits DEF RowsOK
    <3> QED BY <1>2, <2>2, <3>1, Delivers DEF Routes
  <2> QED BY <1>7, <2>1, <2>2, Commits DEF Leave
<1>8. ASSUME NEW ch \in Channels, LeaseLapses(ch) PROVE LinksOK' /\ TasksOK'
  BY <1>1, <1>8 DEF LeaseLapses
<1> QED BY <1>3, <1>4, <1>5, <1>6, <1>7, <1>8 DEF Next, WorkerStep, WorkerMoves

(* What each worker has in hand is its own.                                *)
LEMMA WorkersStep ==
  ASSUME Types, AnalysesEvent, Next
  PROVE  WorkersOK' /\ AnalysesEvent'
<1> USE DEF WorkersOK, AnalysesEvent
<1>1. CASE UNCHANGED <<leases, workers>>
  BY <1>1 DEF Types, leases, workers
<1>2. WorkersOK /\ RowsOK /\ SetupOK
  BY DEF Types
<1>3. ASSUME NEW w \in Workers
      PROVE  Forget(w) => /\ event' = [event EXCEPT ![w] = None]
                          /\ event' \in [Workers -> Events \cup {None}]
                          /\ seen' \in [Workers -> Versions \X BOOLEAN]
  <2>1. <<0, FALSE>> \in Versions \X BOOLEAN
    BY VersionNumbers
  <2> QED BY <1>2, <2>1 DEF Forget
<1>4. ASSUME NEW w \in Workers, Drain(w) PROVE WorkersOK' /\ AnalysesEvent'
  BY <1>2, <1>4 DEF Drain, SetupOK, leases
<1>5. ASSUME NEW w \in Workers, Claim(w) PROVE WorkersOK' /\ AnalysesEvent'
  <2>1. PICK ch \in todo[w] :
          /\ todo' = [todo EXCEPT ![w] = @ \ {ch}]
          /\ \/ /\ lease' = [lease EXCEPT ![ch] = w]
                /\ lapsed' = lapsed \ {ch}
                /\ \E e \in Oldest(ch) :
                     /\ event' = [event EXCEPT ![w] = e]
                     /\ seen' = [seen EXCEPT ![w] = Revision(e)]
                /\ pc' = [pc EXCEPT ![w] = "analysing"]
             \/ UNCHANGED <<leases, event, seen, pc>>
    BY <1>5 DEF Claim
  <2>2. ch \in Channels /\ todo' \in [Workers -> SUBSET Channels] /\ pc[w] = "next"
    BY <1>2, <1>5, <2>1 DEF Claim
  <2>3. \A e \in Oldest(ch) : e \in Events /\ Revision(e) \in Versions \X BOOLEAN
    <3>1. \A i \in DOMAIN inbox : inbox[i] \in Events
      BY <1>2, LenProperties, ElementOfSeq DEF RowsOK
    <3>2. \A e \in Oldest(ch) : e \in Events
      BY <3>1 DEF Oldest
    <3>3. \A e \in Events : updated[e] \in Versions
      BY <1>2 DEF RowsOK
    <3>4. ASSUME NEW e \in Events PROVE Revision(e) \in Versions \X BOOLEAN
      <4>1. (e \in redacted) = TRUE \/ (e \in redacted) = FALSE
        OBVIOUS
      <4>2. Revision(e) = <<updated[e], TRUE>> \/ Revision(e) = <<updated[e], FALSE>>
        BY <4>1 DEF Revision
      <4>3. /\ <<updated[e], TRUE>> \in Versions \X BOOLEAN
            /\ <<updated[e], FALSE>> \in Versions \X BOOLEAN
        BY <3>3
      <4> QED BY <4>2, <4>3
    <3> QED BY <3>2, <3>4
  <2>4. CASE UNCHANGED <<leases, event, seen, pc>>
    BY <1>2, <2>2, <2>4 DEF leases
  <2>5. CASE UNCHANGED <<leases, event, seen, pc>> \/ ~UNCHANGED <<leases, event, seen, pc>>
    <3>1. ASSUME NEW e \in Events, Revision(e) \in Versions \X BOOLEAN,
                 lease' = [lease EXCEPT ![ch] = w], lapsed' = lapsed \ {ch},
                 event' = [event EXCEPT ![w] = e], seen' = [seen EXCEPT ![w] = Revision(e)],
                 pc' = [pc EXCEPT ![w] = "analysing"]
          PROVE  WorkersOK' /\ AnalysesEvent'
      BY <1>2, <2>2, <3>1
    <3> QED BY <2>1, <2>3, <2>4, <3>1
  <2> QED BY <2>5
<1>6. ASSUME NEW w \in Workers, Rest(w) \/ Abandon(w) PROVE WorkersOK' /\ AnalysesEvent'
  BY <1>2, <1>6 DEF Rest, Abandon, leases
<1>7. ASSUME NEW w \in Workers, Release(w) PROVE WorkersOK' /\ AnalysesEvent'
  <2>1. event[w] \in Events /\ ChannelOf[event[w]] \in Channels
    BY <1>2, <1>7, IntakeConstants DEF Release
  <2>2. lease' \in [Channels -> Workers \cup {None}] /\ lapsed' \subseteq Channels
    BY <1>2, <1>7, <2>1 DEF Release, leases
  <2> QED BY <1>2, <1>3, <1>7, <2>2 DEF Release
<1>8. ASSUME NEW w \in Workers, WorkerDies(w) PROVE WorkersOK' /\ AnalysesEvent'
  BY <1>2, <1>3, <1>8 DEF WorkerDies, leases
<1>9. ASSUME NEW w \in Workers, Commit(w) PROVE WorkersOK' /\ AnalysesEvent'
  <2>1. UNCHANGED <<lease, lapsed, event, seen>>
    BY <1>9, Commits DEF leases
  <2>2. pc[w] = "analysing" /\ pc' = [pc EXCEPT ![w] = "releasing"]
    BY <1>9 DEF Commit
  <2>3. todo' \in [Workers -> SUBSET Channels]
    BY <1>2, <1>9 DEF Commit, Routed
  <2> QED BY <1>2, <2>1, <2>2, <2>3
<1>10. ASSUME NEW ch \in Channels, LeaseLapses(ch) PROVE WorkersOK' /\ AnalysesEvent'
  BY <1>2, <1>10 DEF LeaseLapses, workers
<1>11. CASE Administration \/ Slack \/ Purge
  BY <1>1, <1>11 DEF Administration, ToggleIntake, ToggleChannel, SetResponsible, ToggleUser,
     Reassign, CloseTask, Retry, Ignore, SetStatus, Slack, Deliver, SourceChange, Purge, GrowOld,
     PurgeInterpretations, PurgeSources
<1> QED BY <1>4, <1>5, <1>6, <1>7, <1>8, <1>9, <1>10, <1>11 DEF Next, WorkerStep

LEMMA TypesStep ==
  ASSUME Types, AnalysesEvent, [Next]_vars
  PROVE  Types' /\ AnalysesEvent'
<1>1. CASE Next
  <2>1. SetupOK'
    BY <1>1, SetupStep DEF Types
  <2> QED BY <1>1, <2>1, RowsStep, WorkStep, WorkersStep DEF Types
<1>2. CASE UNCHANGED vars
  BY <1>2 DEF Types, AnalysesEvent, SetupOK, RowsOK, LinksOK, TasksOK, WorkersOK, vars, setup, rows,
     age, work, leases, workers
<1> QED BY <1>1, <1>2

LEMMA TypesInit ==
  ASSUME Init
  PROVE  Types /\ AnalysesEvent
<1>1. SetupOK
  BY IntakeConstants DEF Init, SetupOK
<1>2. RowsOK
  <2>1. inbox \in Seq(Events) /\ IsInjective(inbox)
    BY EmptySeq DEF Init, IsInjective
  <2> QED BY <2>1, VersionNumbers DEF Init, RowsOK, Statuses
<1>3. LinksOK
  BY EmptySeq DEF Init, LinksOK, IsInjective
<1>4. TasksOK
  <2>1. NoMessage \in Interpretation
    BY DEF NoMessage, Interpretation, Cleared
  <2> QED BY <2>1 DEF Init, TasksOK
<1>5. WorkersOK /\ AnalysesEvent
  BY VersionNumbers DEF Init, WorkersOK, AnalysesEvent
<1> QED BY <1>1, <1>2, <1>3, <1>4, <1>5 DEF Types

----------------------------------------------------------------------------
(* What only a few steps touch.                                            *)

(* Everything else that people and workers do leaves the messages, their   *)
(* status and what was made of them alone.                                 *)
Aside ==
  \/ Administration /\ ~\E e \in Events : Retry(e) \/ Ignore(e)
  \/ \E e \in Events : Deliver(e)
  \/ \E w \in Workers : WorkerMoves(w)
  \/ \E ch \in Channels : LeaseLapses(ch)

LEMMA AsideLeaves ==
  ASSUME Aside
  PROVE  UNCHANGED <<status, updated, redacted, old, purging, missed, message, notes>>
BY DEF Aside, Administration, ToggleIntake, ToggleChannel, SetResponsible, ToggleUser, Reassign,
   CloseTask, Deliver, WorkerMoves, Drain, Claim, Rest, Abandon, Release, WorkerDies, LeaseLapses,
   rows, age, work

LEMMA Splits ==
  ASSUME Next
  PROVE  \/ Aside
         \/ \E e \in Events : Retry(e) \/ Ignore(e)
         \/ \E e \in Events, n \in Versions \ {0}, deleted \in BOOLEAN : SourceChange(e, n, deleted)
         \/ \E e \in Events : GrowOld(e)
         \/ PurgeInterpretations
         \/ PurgeSources
         \/ \E w \in Workers : Commit(w)
BY DEF Next, Aside, Slack, Purge, WorkerStep, WorkerMoves

LEMMA RestStep ==
  ASSUME Types, AnalysesEvent, RedactedRest, Next
  PROVE  RedactedRest'
<1> USE DEF RedactedRest
<1>0. status \in [Events -> Statuses] /\ redacted \subseteq Events /\ old \subseteq Events
  BY DEF Types, RowsOK
<1>1. CASE Aside
  BY <1>1, AsideLeaves
<1>2. ASSUME NEW e \in Events, Retry(e) \/ Ignore(e) PROVE RedactedRest'
  BY <1>0, <1>2 DEF Retry, Ignore, SetStatus
<1>3. ASSUME NEW e \in Events, NEW n \in Versions \ {0}, NEW deleted \in BOOLEAN,
             SourceChange(e, n, deleted)
      PROVE  RedactedRest'
  BY <1>0, <1>3 DEF SourceChange, ChangedTo
<1>4. ASSUME NEW e \in Events, GrowOld(e) PROVE RedactedRest'
  BY <1>4 DEF GrowOld, rows
<1>5. CASE PurgeInterpretations
  BY <1>5 DEF PurgeInterpretations, rows
<1>6. CASE PurgeSources
  BY <1>0, <1>6 DEF PurgeSources
<1>7. ASSUME NEW w \in Workers, Commit(w) PROVE RedactedRest'
  <2>1. status[event[w]] = "pending" /\ redacted' = redacted
    BY <1>7, Commits
  <2>2. \A e \in Events \ {event[w]} : status'[e] = status[e]
    BY <1>0, <1>7, Commits DEF Leave, Routes, Deliveries
  <2> QED BY <1>0, <2>1, <2>2
<1> QED BY <1>1, <1>2, <1>3, <1>4, <1>5, <1>6, <1>7, Splits

LEMMA InterpretationsStep ==
  ASSUME Types, AnalysesEvent, RedactedRest, InterpretationsInv, Next
  PROVE  InterpretationsInv'
<1> USE DEF InterpretationsInv
<1>0. /\ status \in [Events -> Statuses] /\ updated \in [Events -> Versions]
      /\ redacted \subseteq Events /\ \A l \in Links : l[1] \in Events
  BY DEF Types, RowsOK, Links
<1>1. CASE Aside
  BY <1>1, AsideLeaves
<1>2. ASSUME NEW e \in Events, Retry(e) \/ Ignore(e) PROVE InterpretationsInv'
  BY <1>2 DEF Retry, Ignore, SetStatus, age, work
<1>3. ASSUME NEW e \in Events, NEW n \in Versions \ {0}, NEW deleted \in BOOLEAN,
             SourceChange(e, n, deleted)
      PROVE  InterpretationsInv'
  <2>1. \A l \in Links : IF l[1] = e THEN message'[l].of = Cleared ELSE message'[l] = message[l]
    BY <1>3, ClearLeaves DEF SourceChange, Types
  <2>2. /\ updated' = [updated EXCEPT ![e] = n] /\ old' = old
        /\ redacted' = redacted \/ redacted' = redacted \cup {e}
        /\ UNCHANGED <<purging, missed>>
    BY <1>3 DEF SourceChange, age
  <2> QED BY <1>0, <2>1, <2>2
<1>4. ASSUME NEW e \in Events, GrowOld(e) PROVE InterpretationsInv'
  BY <1>4 DEF GrowOld, rows, work
<1>5. CASE PurgeInterpretations
  <2>1. \A l \in Links : IF l[1] \in old \ redacted THEN message'[l].of = Cleared
                                                   ELSE message'[l] = message[l]
    BY <1>5, ClearLeaves DEF PurgeInterpretations, Types
  <2>2. UNCHANGED <<updated, redacted, old, missed>>
    BY <1>5 DEF PurgeInterpretations, rows
  <2> QED BY <1>0, <2>1, <2>2
<1>6. CASE PurgeSources
  BY <1>6 DEF PurgeSources, work
<1>7. ASSUME NEW w \in Workers, Commit(w) PROVE InterpretationsInv'
  <2>1. /\ event[w] \in Events /\ status[event[w]] = "pending"
        /\ UNCHANGED <<updated, redacted, old, purging>>
    BY <1>7, Commits DEF age
  <2>2. CASE UNCHANGED work
    BY <2>1, <2>2 DEF work
  <2>3. ASSUME NEW items \in SUBSET Owners(ChannelOf[event[w]]), NEW fallback \in BOOLEAN,
               ~Collides(event[w], items, fallback), Routes(event[w], items, fallback)
        PROVE  InterpretationsInv'
    <3>1. updated[event[w]] \in Versions /\ event[w] \notin redacted
      BY <1>0, <2>1 DEF RedactedRest
    <3>2. \A l \in Links : \/ l[1] = event[w] /\ message'[l].of = updated[event[w]]
                           \/ message'[l] = message[l]
      <4>1. Deliveries(event[w], items, fallback, updated[event[w]])
        BY <2>3 DEF Routes
      <4>2. Writes(event[w], items, fallback, updated[event[w]])
        BY <2>1, <2>3, <3>1, <4>1, Delivers DEF Types
      <4> QED BY <4>2 DEF Writes
    <3>3. missed \subseteq missed' /\ (purging /\ event[w] \in old => event[w] \in missed')
      BY <2>3 DEF Routes, Deliveries
    <3> QED BY <1>0, <2>1, <3>1, <3>2, <3>3
  <2> QED BY <1>7, <2>2, <2>3, Commits DEF Leave
<1> QED BY <1>1, <1>2, <1>3, <1>4, <1>5, <1>6, <1>7, Splits

LEMMA NotesStep ==
  ASSUME Types, AnalysesEvent, NotesInv, Next
  PROVE  NotesInv'
<1> USE DEF NotesInv
<1>0. /\ status \in [Events -> Statuses] /\ updated \in [Events -> Versions]
      /\ Versions \subseteq Nat /\ notes \in [Events \X Versions \X Staff -> Nat]
  BY VersionNumbers DEF Types, RowsOK, TasksOK
<1>1. CASE Aside
  BY <1>1, AsideLeaves
<1>2. ASSUME NEW e \in Events, Retry(e) \/ Ignore(e) PROVE NotesInv'
  BY <1>0, <1>2 DEF Retry, Ignore, SetStatus, work
<1>3. ASSUME NEW e \in Events, NEW n \in Versions \ {0}, NEW deleted \in BOOLEAN,
             SourceChange(e, n, deleted)
      PROVE  NotesInv'
  <2>1. /\ updated[e] < n /\ updated' = [updated EXCEPT ![e] = n] /\ notes' = notes
        /\ \A d \in Events \ {e} : status'[d] = status[d]
    BY <1>0, <1>3 DEF SourceChange
  <2>2. ASSUME NEW d \in Events, NEW m \in Versions, NEW s \in Staff, notes[<<d, m, s>>] > 0
        PROVE  m =< updated'[d] /\ (m = updated'[d] => status'[d] \in {"routed", "ignored"})
    <3>1. m =< updated[d] /\ (m = updated[d] => status[d] \in {"routed", "ignored"})
      BY <2>2
    <3>2. CASE d = e
      <4>1. updated'[d] = n /\ m \in Nat /\ n \in Nat /\ updated[e] \in Nat
        BY <1>0, <2>1, <3>2
      <4> QED BY <2>1, <3>1, <3>2, <4>1
    <3>3. CASE d # e
      BY <1>0, <2>1, <3>1, <3>3
    <3> QED BY <3>2, <3>3
  <2> QED BY <2>1, <2>2
<1>4. ASSUME NEW e \in Events, GrowOld(e) PROVE NotesInv'
  BY <1>4 DEF GrowOld, rows, work
<1>5. CASE PurgeInterpretations
  BY <1>5 DEF PurgeInterpretations, rows
<1>6. CASE PurgeSources
  BY <1>6 DEF PurgeSources, work
<1>7. ASSUME NEW w \in Workers, Commit(w) PROVE NotesInv'
  <2> DEFINE e == event[w]
  <2>1. e \in Events /\ status[e] = "pending" /\ updated' = updated
    BY <1>7, Commits
  <2>2. CASE UNCHANGED <<status, work>>
    BY <2>1, <2>2 DEF work
  <2>3. \A s \in Staff : notes[<<e, updated[e], s>>] = 0
    <3>1. ASSUME NEW s \in Staff PROVE notes[<<e, updated[e], s>>] = 0
      <4>1. notes[<<e, updated[e], s>>] \in Nat /\ ~(notes[<<e, updated[e], s>>] > 0)
        BY <1>0, <2>1
      <4> QED BY <4>1
    <3> QED BY <3>1
  <2>4. ASSUME NEW t \in {"needs_setup", "ignored"}, Leave(e, t) PROVE NotesInv'
    BY <1>0, <2>1, <2>3, <2>4 DEF Leave, work
  <2>5. ASSUME NEW items \in SUBSET Owners(ChannelOf[e]), NEW fallback \in BOOLEAN,
               ~Collides(e, items, fallback), Routes(e, items, fallback)
        PROVE  NotesInv'
    <3>1. updated[e] \in Versions
      BY <1>0, <2>1
    <3>2. /\ status' = [status EXCEPT ![e] = "routed"]
          /\ \A d \in Events, n \in Versions, s \in Staff :
               \/ notes'[<<d, n, s>>] = notes[<<d, n, s>>]
               \/ d = e /\ n = updated[e] /\ notes'[<<d, n, s>>] = notes[<<d, n, s>>] + 1
      <4>1. Deliveries(e, items, fallback, updated[e])
        BY <2>5 DEF Routes
      <4>2. Writes(e, items, fallback, updated[e])
        BY <2>1, <2>5, <3>1, <4>1, Delivers DEF Types
      <4> HIDE DEF e
      <4> QED BY <4>2 DEF Writes
    <3>3. status'[e] = "routed" /\ \A d \in Events \ {e} : status'[d] = status[d]
      BY <1>0, <2>1, <3>2
    <3> HIDE DEF e
    <3>4. ASSUME NEW d \in Events, NEW n \in Versions, NEW s \in Staff
          PROVE  /\ notes'[<<d, n, s>>] =< 1
                 /\ notes'[<<d, n, s>>] > 0 =>
                      n =< updated[d] /\ (n = updated[d] => status'[d] \in {"routed", "ignored"})
      <4>1. CASE notes'[<<d, n, s>>] = notes[<<d, n, s>>]
        BY <3>3, <4>1
      <4>2. CASE d = e /\ n = updated[e] /\ notes'[<<d, n, s>>] = notes[<<d, n, s>>] + 1
        BY <1>0, <2>3, <3>3, <4>2
      <4> QED BY <3>2, <4>1, <4>2
    <3> QED BY <2>1, <3>4
  <2> QED BY <1>7, <2>2, <2>4, <2>5, Commits
<1> QED BY <1>1, <1>2, <1>3, <1>4, <1>5, <1>6, <1>7, Splits

LEMMA DeliveredStep ==
  ASSUME Types, AnalysesEvent, RedactedRest, DeliveredInv, Next
  PROVE  DeliveredInv'
<1> USE DEF DeliveredInv
<1>0. /\ status \in [Events -> Statuses] /\ updated \in [Events -> Versions] /\ redacted \subseteq Events
      /\ \A e \in Events, c \in Categories : <<e, c>> \in Links
      /\ notes \in [Events \X Versions \X Staff -> Nat]
  BY DEF Types, RowsOK, TasksOK, Links
\* What was made of a message stays while its text and interpretations do.
<1>a. ASSUME NEW e \in Events, updated'[e] = updated[e],
             \A n \in Versions, s \in Staff : notes'[<<e, n, s>>] = notes[<<e, n, s>>]
      PROVE  /\ Told(e) => Told(e)'
             /\ (\A c \in Categories : message'[<<e, c>>] = message[<<e, c>>]) =>
                  (Carried(e) => Carried(e)')
  <2>1. Told(e) => Told(e)'
    BY <1>0, <1>a DEF Told
  <2>2. ASSUME \A c \in Categories : message'[<<e, c>>] = message[<<e, c>>], Carried(e)
        PROVE  Carried(e)'
    BY <1>0, <1>a, <2>2 DEF Carried
  <2> QED BY <2>1, <2>2
<1>1. CASE Aside
  BY <1>1, <1>a, AsideLeaves
<1>2. ASSUME NEW e \in Events, Retry(e) \/ Ignore(e) PROVE DeliveredInv'
  <2>1. UNCHANGED <<updated, message, notes, old, purging>>
    BY <1>2 DEF Retry, Ignore, SetStatus, age, work
  <2>2. \A d \in Events : status'[d] = "routed" => status[d] = "routed"
    BY <1>0, <1>2 DEF Retry, Ignore, SetStatus
  <2> QED BY <1>a, <2>1, <2>2
<1>3. ASSUME NEW e \in Events, NEW n \in Versions \ {0}, NEW deleted \in BOOLEAN,
             SourceChange(e, n, deleted)
      PROVE  DeliveredInv'
  <2>1. /\ updated' = [updated EXCEPT ![e] = n] /\ UNCHANGED <<notes, old, purging>>
        /\ status' = [status EXCEPT ![e] = ChangedTo(e, deleted)]
    BY <1>3 DEF SourceChange, age
  <2>2. \A l \in Links : l[1] # e => message'[l] = message[l]
    BY <1>3, ClearLeaves DEF SourceChange, Types
  <2>3. status'[e] # "routed"
    BY <1>0, <2>1 DEF ChangedTo
  <2>4. ASSUME NEW d \in Events \ {e}
        PROVE  /\ status'[d] = status[d] /\ updated'[d] = updated[d]
               /\ \A c \in Categories : message'[<<d, c>>] = message[<<d, c>>]
    BY <1>0, <2>1, <2>2
  <2> QED BY <1>a, <2>1, <2>3, <2>4
<1>4. ASSUME NEW e \in Events, GrowOld(e) PROVE DeliveredInv'
  <2>1. UNCHANGED <<status, updated, message, notes>> /\ ~purging
    BY <1>4 DEF GrowOld, rows, work
  <2> QED BY <1>a, <2>1
<1>5. CASE PurgeInterpretations
  <2>1. UNCHANGED <<status, updated, notes, old>> /\ purging'
    BY <1>5 DEF PurgeInterpretations, rows
  <2>2. \A l \in Links : l[1] \notin old => message'[l] = message[l]
    BY <1>5, ClearLeaves DEF PurgeInterpretations, Types
  <2>3. \A e \in Events \ old, c \in Categories : message'[<<e, c>>] = message[<<e, c>>]
    BY <1>0, <2>2
  <2>4. ~purging
    BY <1>5 DEF PurgeInterpretations
  <2> QED BY <1>a, <2>1, <2>3, <2>4
<1>6. CASE PurgeSources
  <2>1. UNCHANGED <<updated, message, notes, old>>
    BY <1>6 DEF PurgeSources, work
  <2>2. \A e \in Events \ old : status'[e] = status[e]
    BY <1>6 DEF PurgeSources
  <2>3. \A e \in Events : e \in old => status'[e] # "routed"
    BY <1>0, <1>6 DEF PurgeSources, RedactedRest
  <2> QED BY <1>a, <2>1, <2>2, <2>3
<1>7. ASSUME NEW w \in Workers, Commit(w) PROVE DeliveredInv'
  <2>0. PICK e \in Events : e = event[w]
    BY <1>7, Commits
  <2>1. UNCHANGED <<updated, old, purging>>
    BY <1>7, Commits DEF age
  <2>2. CASE UNCHANGED <<status, work>>
    BY <1>a, <2>1, <2>2 DEF work
  <2>3. ASSUME NEW t \in {"needs_setup", "ignored"}, Leave(e, t) PROVE DeliveredInv'
    <3>1. UNCHANGED <<message, notes>> /\ status' = [status EXCEPT ![e] = t]
      BY <2>3 DEF Leave, work
    <3>2. \A d \in Events : status'[d] = "routed" => status[d] = "routed"
      BY <1>0, <2>1, <3>1
    <3> QED BY <1>a, <2>1, <3>1, <3>2
  <2>4. ASSUME NEW items \in SUBSET Owners(ChannelOf[e]), NEW fallback \in BOOLEAN,
               ~Collides(e, items, fallback), Routes(e, items, fallback)
        PROVE  DeliveredInv'
    <3>1. updated[e] \in Versions /\ SetupOK /\ RowsOK /\ LinksOK /\ TasksOK
      BY <1>0, <2>1 DEF Types
    <3>2. items # {} /\ Deliveries(e, items, fallback, updated[e])
      BY <2>4 DEF Routes
    <3>3. Writes(e, items, fallback, updated[e])
      BY <2>1, <2>4, <3>1, <3>2, Delivers
    <3>4. PICK c \in items : c \in Categories /\ Recipient(e, c, fallback) \in Staff
      <4>1. items \subseteq Categories
        BY DEF Owners
      <4> QED BY <2>1, <3>1, <3>2, <4>1, Receives
    <3>5. PICK s \in Staff : s = Recipient(e, c, fallback)
      BY <3>4
    <3>6. PICK n \in Versions : n = updated[e]
      BY <3>1
    <3>7. /\ status'[e] = "routed" /\ \A d \in Events \ {e} : status'[d] = status[d]
          /\ message'[<<e, c>>].of = n /\ message'[<<e, c>>].task # None
          /\ notes'[<<e, n, s>>] = notes[<<e, n, s>>] + 1
      <4>1. <<e, c>> \in Links /\ <<e, c>>[1] = e /\ <<e, c>>[2] = c
        BY <1>0, <3>4
      <4>2. status' = [status EXCEPT ![e] = "routed"]
        BY <3>3 DEF Writes
      <4>3. message'[<<e, c>>].of = n /\ message'[<<e, c>>].task # None
        BY <3>3, <3>6, <4>1 DEF Writes
      <4>4. notes'[<<e, n, s>>] = notes[<<e, n, s>>] + 1
        BY <3>3, <3>4, <3>5, <3>6 DEF Writes
      <4> QED BY <1>0, <4>2, <4>3, <4>4
    <3>8. Told(e)' /\ Carried(e)'
      <4>1. notes[<<e, n, s>>] \in Nat
        BY <1>0
      <4>2. notes'[<<e, n, s>>] > 0
        BY <3>7, <4>1
      <4>3. updated'[e] = n
        BY <2>1, <3>6
      <4> QED BY <3>4, <3>7, <4>2, <4>3 DEF Told, Carried
    <3>9. ASSUME NEW d \in Events \ {e}
          PROVE  /\ \A k \in Categories : message'[<<d, k>>] = message[<<d, k>>]
                 /\ \A m \in Versions, p \in Staff : notes'[<<d, m, p>>] = notes[<<d, m, p>>]
      <4>1. \A k \in Categories : <<d, k>> \in Links /\ <<d, k>>[1] # e
        BY <1>0
      <4> QED BY <3>3, <4>1 DEF Writes
    <3> QED BY <1>a, <2>1, <3>7, <3>8, <3>9
  <2> QED BY <1>7, <2>0, <2>2, <2>3, <2>4, Commits
<1> QED BY <1>1, <1>2, <1>3, <1>4, <1>5, <1>6, <1>7, Splits

----------------------------------------------------------------------------
(* The invariant, and what follows from it.                                *)

LEMMA IntakeInvInit ==
  ASSUME Init
  PROVE  IntakeInv
<1>1. Types /\ AnalysesEvent
  BY TypesInit
<1>2. RedactedRest /\ NotesInv
  BY DEF Init, RedactedRest, NotesInv
<1>3. InterpretationsInv /\ DeliveredInv
  BY DEF Init, InterpretationsInv, DeliveredInv, NoMessage, Cleared
<1> QED BY <1>1, <1>2, <1>3 DEF IntakeInv

LEMMA IntakeInvStep ==
  ASSUME IntakeInv, [Next]_vars
  PROVE  IntakeInv'
<1>1. Types' /\ AnalysesEvent'
  BY TypesStep DEF IntakeInv
<1>2. CASE Next
  BY <1>1, <1>2, RestStep, InterpretationsStep, NotesStep, DeliveredStep DEF IntakeInv
<1>3. CASE UNCHANGED vars
  BY <1>1, <1>3 DEF IntakeInv, RedactedRest, InterpretationsInv, NotesInv, DeliveredInv, Told,
     Carried, vars, rows, age, work
<1> QED BY <1>2, <1>3

LEMMA IntakeInvariant == Spec => []IntakeInv
<1>1. Init => IntakeInv
  BY IntakeInvInit
<1>2. IntakeInv /\ [Next]_vars => IntakeInv'
  BY IntakeInvStep
<1> QED BY <1>1, <1>2, PTL DEF Spec

(* Every variable keeps its type, and no message and no work item is       *)
(* stored twice: get_or_create() and slack_event_category_once hold.       *)
THEOREM TypesKept == Spec => []TypeOK
<1>1. IntakeInv => TypeOK
  BY DEF IntakeInv, Types, SetupOK, RowsOK, LinksOK, TasksOK, WorkersOK, TypeOK, Interpretation
<1> QED BY <1>1, IntakeInvariant, PTL

(* Nobody is notified twice of one version of a message, whatever workers  *)
(* hold or lose the channel's lease (process_channel, route).              *)
THEOREM OneNotification == Spec => []NotifiedOnce
<1>1. IntakeInv => NotifiedOnce
  <2> SUFFICES ASSUME IntakeInv, NEW n \in DOMAIN notes PROVE notes[n] =< 1
    BY DEF NotifiedOnce
  <2>1. DOMAIN notes = Events \X Versions \X Staff
    BY DEF IntakeInv, Types, TasksOK
  <2>2. n[1] \in Events /\ n[2] \in Versions /\ n[3] \in Staff /\ n = <<n[1], n[2], n[3]>>
    BY <2>1
  <2>3. notes[<<n[1], n[2], n[3]>>] =< 1
    BY <2>2 DEF IntakeInv, NotesInv
  <2> QED BY <2>2, <2>3
<1> QED BY <1>1, IntakeInvariant, PTL

(* What staff read as the interpretation of a message is about its present *)
(* text, and of a message removed from Slack or purged nothing is left -   *)
(* with the one exception of purge_expired() that the property names.      *)
THEOREM InterpretationKept == Spec => []InterpretationIsCurrent
<1>1. IntakeInv => InterpretationIsCurrent
  BY DEF IntakeInv, InterpretationsInv, InterpretationIsCurrent
<1> QED BY <1>1, IntakeInvariant, PTL

(* A message shown as assigned was delivered in its present wording: some  *)
(* task has it and somebody was told (route, source_change).               *)
THEOREM RoutedIsKept == Spec => []RoutedIsDelivered
<1>1. IntakeInv => RoutedIsDelivered
  BY DEF IntakeInv, DeliveredInv, RoutedIsDelivered, Told, Carried
<1> QED BY <1>1, IntakeInvariant, PTL

(* Triage gives each active person who answers for the channel an item of  *)
(* their own, under the first of their categories, and so reaches them.    *)
LEMMA TriageStep ==
  ASSUME IntakeInv, Next, NEW e \in Events, status[e] = "pending", status'[e] = "routed",
         e \in triaged', NEW s \in People(ChannelOf[e])
  PROVE  notes'[<<e, updated[e], s>>] = notes[<<e, updated[e], s>>] + 1
<1> DEFINE ch == ChannelOf[e]
<1>0. /\ Types /\ AnalysesEvent /\ SetupOK /\ RowsOK /\ LinksOK /\ TasksOK
      /\ status \in [Events -> Statuses]
  BY DEF IntakeInv, Types, RowsOK
<1>1. PICK w \in Workers : Commit(w)
  <2>1. status' # status
    OBVIOUS
  <2>2. \A d \in Events : \A f : ~SetStatus(d, f, "pending") /\ ~SetStatus(d, f, "ignored")
    BY <1>0 DEF SetStatus
  <2>3. \A d \in Events, n \in Versions \ {0}, deleted \in BOOLEAN : ~SourceChange(d, n, deleted)
    BY <1>0 DEF SourceChange, ChangedTo
  <2>4. (\A d \in Events : ~GrowOld(d)) /\ ~PurgeInterpretations
    BY <2>1 DEF GrowOld, PurgeInterpretations, rows
  <2>5. ~PurgeSources
    BY DEF PurgeSources
  <2> QED BY <2>1, <2>2, <2>3, <2>4, <2>5, AsideLeaves, Splits DEF Retry, Ignore
<1>2. event[w] = e
  <2>1. \A d \in Events \ {event[w]} : status'[d] = status[d]
    BY <1>0, <1>1, Commits DEF Leave, Routes, Deliveries
  <2> QED BY <2>1
<1>3. PICK items \in SUBSET Owners(ch), fallback \in BOOLEAN :
        ~Collides(e, items, fallback) /\ Routes(e, items, fallback)
  <2>1. status' # status /\ \A t \in {"needs_setup", "ignored"} : ~Leave(e, t)
    BY <1>0 DEF Leave
  <2> QED BY <1>0, <1>1, <1>2, <2>1, Commits
<1>4. items = TriageItems(ch) /\ fallback = TRUE
  BY <1>3 DEF Routes, Deliveries
<1>5. PICK c \in items : Owner(e, c) = s
  <2> DEFINE theirs == {c \in Owners(ch) : responsible[ch][c] = s}
  <2>1. theirs \in SUBSET Nat /\ theirs # {}
    BY IntakeConstants DEF People, Owners
  <2>2. PICK c \in theirs : \A d \in theirs : c =< d
    BY <2>1, Smallest
  <2>3. c \in TriageItems(ch)
    BY <2>2 DEF TriageItems
  <2> QED BY <1>4, <2>2, <2>3 DEF Owner
<1>6. Recipient(e, c, fallback) = s /\ s \in Staff
  BY <1>0, <1>4, <1>5, Receives
<1>7. updated[e] \in Versions /\ Deliveries(e, items, fallback, updated[e])
  BY <1>0, <1>3 DEF RowsOK, Routes
<1>8. Writes(e, items, fallback, updated[e])
  BY <1>0, <1>3, <1>7, Delivers
<1> QED BY <1>5, <1>6, <1>7, <1>8 DEF Writes

(* route(): under triage everybody who answers for the channel is told,    *)
(* also when an older task of theirs was given to somebody else.           *)
THEOREM TriageReaches == Spec => TriageReachesEveryone
<1> DEFINE Reaches ==
      \A e \in Events :
        status[e] = "pending" /\ status'[e] = "routed" /\ e \in triaged' =>
          \A s \in People(ChannelOf[e]) :
            notes'[<<e, updated[e], s>>] = notes[<<e, updated[e], s>>] + 1
<1>1. IntakeInv /\ [Next]_vars => [Reaches]_vars
  BY TriageStep
<1>2. []IntakeInv /\ [][Next]_vars => [][Reaches]_vars
  BY <1>1, PTL
<1>3. Spec => [][Reaches]_vars
  BY <1>2, IntakeInvariant, PTL DEF Spec
<1> QED BY <1>3 DEF TriageReachesEveryone
=============================================================================
