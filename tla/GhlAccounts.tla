---------------------------- MODULE GhlAccounts ----------------------------
(***************************************************************************)
(* Clients and the private connection to its GHL location that each may    *)
(* have: onboarded from GHL, saved, tested, read for evidence, removed;    *)
(* beside the edits of the client itself, which save every column that     *)
(* they have read. A revision stands for one token at one location. What   *)
(* a request does under the lock of its client, in one transaction, is one *)
(* step; its checks before that, and every read of GHL, are steps of their *)
(* own. A request is used once.                                            *)
(***************************************************************************)
EXTENDS Naturals, FiniteSets

CONSTANTS
    Customers, Locations, Callers,  \* clients there may be, GHL locations, requests
    MaxRevision,                    \* bound: revisions drawn
    NoCustomer, NoWhere

ASSUME AccountsConstants ==
    MaxRevision \in Nat \ {0} /\ NoCustomer \notin Customers /\ NoWhere \notin Locations

VARIABLES
    customer,       \* per client: whether there is one, and the location it shows
    ghl,            \* per client: its connection
    drawn,          \* revisions drawn so far
    evidence,       \* the cache: per revision, the location of the records kept
    ask,            \* per request: where it is, and what it has read
    overtaken       \* history: clients whose last save was an edit that had read
                    \* them before their connection changed

ghlVars == <<customer, ghl, drawn, evidence, ask, overtaken>>
-----------------------------------------------------------------------------
Place == Locations \cup {NoWhere}
Revisions == 1..MaxRevision

ClientRow == [there : {"never", "here", "gone"}, location : Place]
\* details: the location whose business details are shown; tested: the revision
\* that the check shown has read with. 0 is none.
GhlConnection == [rev : 0..MaxRevision, location : Place, details : Place, tested : 0..MaxRevision]
NoConnection == [rev |-> 0, location |-> NoWhere, details |-> NoWhere, tested |-> 0]

Ask == [pc : {"idle", "onboard", "create", "put", "test", "collect", "open", "save", "done"},
        c : Customers \cup {NoCustomer}, location : Place, shown : Place, rev : 0..MaxRevision]
NoAsk == [pc |-> "idle", c |-> NoCustomer, location |-> NoWhere, shown |-> NoWhere, rev |-> 0]

Here(c) == customer[c].there = "here"
Connected(c) == ghl[c].rev # 0
LinkedElsewhere(c, l) == \E d \in Customers \ {c} : Connected(d) /\ ghl[d].location = l

GhlInit ==
    /\ customer \in {[c \in Customers |-> [there |-> IF c \in known THEN "here" ELSE "never",
                                           location |-> IF c \in known THEN l ELSE NoWhere]] :
                        known \in SUBSET Customers, l \in Place}
    /\ \A c, d \in Customers : customer[c] = customer[d] /\ Here(c) => c = d \/ customer[c].location = NoWhere
    /\ ghl = [c \in Customers |-> NoConnection] /\ drawn = 0
    /\ evidence = [r \in Revisions |-> NoWhere]
    /\ ask = [q \in Callers |-> NoAsk] /\ overtaken = {}
-----------------------------------------------------------------------------
Comes(q) == ask[q].pc = "idle" /\ q = CHOOSE p \in Callers : ask[p].pc = "idle"
Goes(q, at) == ask' = [ask EXCEPT ![q] = at]
Replied(q) == Goes(q, [NoAsk EXCEPT !.pc = "done"])

\* The connection has changed, and the client shows its location again.
Settled(c) == overtaken' = overtaken \ {c}

\* An administrator's token names a location, and GHL has answered with its details.
OnboardGhl(q, l) ==
    /\ Comes(q) /\ Goes(q, [NoAsk EXCEPT !.pc = "onboard", !.location = l])
    /\ UNCHANGED <<customer, ghl, drawn, evidence, overtaken>>

Existing(q) ==
    /\ ask[q].pc = "onboard"
    /\ IF LinkedElsewhere(NoCustomer, ask[q].location) THEN Replied(q)
       ELSE Goes(q, [ask[q] EXCEPT !.pc = "create"])
    /\ UNCHANGED <<customer, ghl, drawn, evidence, overtaken>>

\* The one client that shows the location, or a new one if none does. A unique
\* constraint rolls all of it back: another request connected either meanwhile.
OnboardCreates(q) ==
    LET l == ask[q].location
        matches == {c \in Customers : Here(c) /\ customer[c].location = l} IN
    /\ ask[q].pc = "create" /\ Replied(q) /\ drawn < MaxRevision
    /\ \E c \in Customers :
         /\ IF matches = {} THEN customer[c].there = "never" ELSE matches = {c}
         /\ ~Connected(c) /\ ~LinkedElsewhere(c, l)
         /\ customer' = [customer EXCEPT ![c] = [there |-> "here", location |-> l]]
         /\ ghl' = [ghl EXCEPT ![c] = [rev |-> drawn + 1, location |-> l, details |-> l, tested |-> 0]]
         /\ Settled(c)
    /\ drawn' = drawn + 1 /\ UNCHANGED evidence

PutConnection(q, c, l) ==
    /\ Comes(q) /\ Here(c) /\ ~LinkedElsewhere(c, l)
    /\ Goes(q, [NoAsk EXCEPT !.pc = "put", !.c = c, !.location = l])
    /\ UNCHANGED <<customer, ghl, drawn, evidence, overtaken>>

\* The connection saved with a token: a new revision, not yet tested, with the
\* business details only if they are of this location.
Replaced(old, l) ==
    [rev |-> drawn + 1, location |-> l,
     details |-> IF old.location = l THEN old.details ELSE NoWhere, tested |-> 0]

\* Without a token nothing but the location shown is saved, and only for the
\* location that is connected.
SaveToken(q) ==
    LET c == ask[q].c IN
    /\ ask[q].pc = "put" /\ Here(c) /\ ~LinkedElsewhere(c, ask[q].location) /\ drawn < MaxRevision
    /\ ghl' = [ghl EXCEPT ![c] = Replaced(@, ask[q].location)] /\ drawn' = drawn + 1
    /\ customer' = [customer EXCEPT ![c].location = ask[q].location]
    /\ Settled(c) /\ Replied(q) /\ UNCHANGED evidence

SaveWithoutToken(q) ==
    LET c == ask[q].c IN
    /\ ask[q].pc = "put" /\ Here(c) /\ Connected(c) /\ ghl[c].location = ask[q].location
    /\ customer' = [customer EXCEPT ![c].location = ask[q].location]
    /\ Settled(c) /\ Replied(q) /\ UNCHANGED <<ghl, drawn, evidence>>

DeleteGhlConnection(q, c) ==
    /\ Comes(q) /\ Here(c) /\ Replied(q)
    /\ ghl' = [ghl EXCEPT ![c] = NoConnection]
    /\ customer' = [customer EXCEPT ![c].location = NoWhere]
    /\ Settled(c) /\ UNCHANGED <<drawn, evidence>>
-----------------------------------------------------------------------------
\* The test and the reads of evidence work with the connection as it was read.
ReadConnection(q, c, purpose) ==
    /\ Comes(q) /\ Connected(c)
    /\ Goes(q, [NoAsk EXCEPT !.pc = purpose, !.c = c, !.rev = ghl[c].rev, !.location = ghl[c].location])
    /\ UNCHANGED <<customer, ghl, drawn, evidence, overtaken>>

\* MUTANT of StillThat: the result is saved on whatever connection there is.
MutStillThat(c, rev) == Connected(c)

\* A result is not attached to a connection replaced or removed meanwhile.
StillThat(c, rev) == ghl[c].rev = rev

GhlTest(q) ==
    LET c == ask[q].c IN
    /\ ask[q].pc = "test" /\ StillThat(c, ask[q].rev)
    /\ ghl' = [ghl EXCEPT ![c].tested = ask[q].rev]
    /\ Replied(q) /\ UNCHANGED <<customer, drawn, evidence, overtaken>>

\* Every record is checked to be of the location and kept under the revision;
\* records already kept are used as they are.
Collect(q) ==
    /\ ask[q].pc = "collect"
    /\ evidence' = [evidence EXCEPT ![ask[q].rev] = IF @ = NoWhere THEN ask[q].location ELSE @]
    /\ Replied(q) /\ UNCHANGED <<customer, ghl, drawn, overtaken>>

EvidenceExpires(r) ==
    /\ evidence[r] # NoWhere /\ evidence' = [evidence EXCEPT ![r] = NoWhere]
    /\ UNCHANGED <<customer, ghl, drawn, ask, overtaken>>
-----------------------------------------------------------------------------
CreateClient(q, c, l) ==
    /\ Comes(q) /\ customer[c].there = "never" /\ Replied(q)
    /\ customer' = [customer EXCEPT ![c] = [there |-> "here", location |-> l]]
    /\ UNCHANGED <<ghl, drawn, evidence, overtaken>>

\* An edit reads the client; a new location is then refused if it has a connection.
OpenClient(q, c, l) ==
    /\ Comes(q) /\ Here(c)
    /\ Goes(q, [NoAsk EXCEPT !.pc = "open", !.c = c, !.location = l,
                           !.shown = customer[c].location, !.rev = ghl[c].rev])
    /\ UNCHANGED <<customer, ghl, drawn, evidence, overtaken>>

MayMove(c, shown, l) == l = shown \/ ~Connected(c)

ValidateClient(q) ==
    LET a == ask[q] IN
    /\ a.pc = "open" /\ MayMove(a.c, a.shown, a.location)
    /\ Goes(q, [a EXCEPT !.pc = "save"])
    /\ UNCHANGED <<customer, ghl, drawn, evidence, overtaken>>

\* The whole row is saved; one deleted meanwhile is inserted again.
SaveClient(q) ==
    LET a == ask[q] IN
    /\ a.pc = "save" /\ customer' = [customer EXCEPT ![a.c] = [there |-> "here", location |-> a.location]]
    /\ overtaken' = IF ghl[a.c].rev # a.rev \/ customer[a.c].location # a.shown
                    THEN overtaken \cup {a.c} ELSE overtaken
    /\ Replied(q) /\ UNCHANGED <<ghl, drawn, evidence>>

\* The connection goes with its client.
DestroyClient(q, c) ==
    /\ Comes(q) /\ Here(c) /\ Replied(q)
    /\ customer' = [customer EXCEPT ![c] = [there |-> "gone", location |-> NoWhere]]
    /\ ghl' = [ghl EXCEPT ![c] = NoConnection]
    /\ Settled(c) /\ UNCHANGED <<drawn, evidence>>

\* A refusal, a failed read or a broken constraint leaves all as it is.
AskFails(q) ==
    /\ ask[q].pc \notin {"idle", "done"} /\ Replied(q)
    /\ UNCHANGED <<customer, ghl, drawn, evidence, overtaken>>
-----------------------------------------------------------------------------
GhlNext ==
    \/ \E q \in Callers :
        \/ Existing(q) \/ OnboardCreates(q) \/ SaveToken(q) \/ SaveWithoutToken(q)
        \/ GhlTest(q) \/ Collect(q) \/ ValidateClient(q) \/ SaveClient(q) \/ AskFails(q)
        \/ \E l \in Locations : OnboardGhl(q, l)
        \/ \E c \in Customers :
            \/ DeleteGhlConnection(q, c) \/ DestroyClient(q, c)
            \/ \E purpose \in {"test", "collect"} : ReadConnection(q, c, purpose)
            \/ \E l \in Locations : PutConnection(q, c, l)
            \/ \E l \in Place : CreateClient(q, c, l) \/ OpenClient(q, c, l)
    \/ \E r \in Revisions : EvidenceExpires(r)

GhlSpec == GhlInit /\ [][GhlNext]_ghlVars
-----------------------------------------------------------------------------
GhlTypeOK ==
    /\ customer \in [Customers -> ClientRow] /\ ghl \in [Customers -> GhlConnection]
    /\ drawn \in 0..MaxRevision /\ evidence \in [Revisions -> Place]
    /\ ask \in [Callers -> Ask] /\ overtaken \subseteq Customers

\* A client shows the location that its connection reads, and a removed client has
\* no connection: only an edit that had read the client before its connection
\* changed may show another.
LocationsAgree ==
    \A c \in Customers : Connected(c) =>
        Here(c) /\ (c \notin overtaken => customer[c].location = ghl[c].location)

\* What is shown or kept of a connection was read with its present token at its
\* present location: the check, the business details, and the records in the cache,
\* however long a read of GHL took.
ReadsAreCurrent ==
    \A c \in Customers : Connected(c) =>
        /\ ghl[c].tested \in {0, ghl[c].rev}
        /\ ghl[c].details \in {NoWhere, ghl[c].location}
        /\ evidence[ghl[c].rev] \in {NoWhere, ghl[c].location}
=============================================================================
