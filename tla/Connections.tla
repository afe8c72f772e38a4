---------------------------- MODULE Connections -----------------------------
(***************************************************************************)
(* The store of provider connections (Slack, Asana, Google, Fireflies):    *)
(* managers add, edit and delete rows or connect by OAuth, and every call  *)
(* of a provider picks the active row, refreshing an expired OAuth token.  *)
(* No request locks a row and no database constraint keeps one row active. *)
(***************************************************************************)
EXTENDS Naturals, FiniteSets

CONSTANTS
    Providers,      \* providers of the connections
    OAuthProviders, \* those one may connect by OAuth
    Refreshable,    \* and whose tokens can be refreshed (Slack's cannot)
    ConnIds,        \* rows that may be created: bounds the requests that do
    Requests,       \* requests and pipeline calls at work at once
    NoConn          \* no row

ASSUME ConnConstants == /\ NoConn \notin ConnIds
                        /\ Refreshable \subseteq OAuthProviders
                        /\ OAuthProviders \subseteq Providers
                        /\ Providers # {}

VARIABLES
    conn,           \* the Connection rows
    req,            \* per request: its progress and what it has read
    signed,         \* providers an OAuth state is signed for and still fresh
    raced           \* history: providers whose rows two edits overlapped on

connVars == <<conn, req, signed, raced>>
-----------------------------------------------------------------------------
\* oauth: an OAuth token stored with a refresh token; due: it has expired.
Connection == [made : BOOLEAN, provider : Providers, active : BOOLEAN,
               oauth : BOOLEAN, due : BOOLEAN]
Request == [pc : {"idle", "insert", "save", "refresh", "call"},
            id : ConnIds \cup {NoConn}, row : Connection]

NoRowYet == [made |-> FALSE, provider |-> CHOOSE p \in Providers : TRUE,
             active |-> FALSE, oauth |-> FALSE, due |-> FALSE]
NoRequest == [pc |-> "idle", id |-> NoConn, row |-> NoRowYet]

ConnInit ==
    /\ conn = [i \in ConnIds |-> NoRowYet]
    /\ req = [r \in Requests |-> NoRequest]
    /\ signed = {}
    /\ raced = {}

Answered(r) == req' = [req EXCEPT ![r] = NoRequest]
Unmade(i) == ~conn[i].made /\ \A r \in Requests : req[r].id # i

\* filter(provider=p, active=True).exclude(pk=i).update(active=False)
Deactivated(p, i) ==
    [j \in ConnIds |-> IF conn[j].made /\ conn[j].provider = p /\ j # i
                       THEN [conn[j] EXCEPT !.active = FALSE] ELSE conn[j]]

\* Writers of a provider's rows that are between their two statements.
Writing(p) == {r \in Requests : /\ req[r].pc \in {"insert", "save"}
                                /\ \/ req[r].row.provider = p
                                   \/ req[r].id # NoConn
                                      /\ conn[req[r].id].provider = p}
Races(ps) == raced' = raced \cup {p \in ps : Writing(p) # {}}
-----------------------------------------------------------------------------
\* POST of a row: the others are switched off first, if it is to be active.
CreateConnection(r, i, p, active) ==
    /\ req[r].pc = "idle" /\ Unmade(i)
    /\ conn' = IF active THEN Deactivated(p, i) ELSE conn
    /\ req' = [req EXCEPT ![r] = [pc |-> "insert", id |-> i,
                 row |-> [made |-> TRUE, provider |-> p, active |-> active,
                          oauth |-> FALSE, due |-> FALSE]]]
    /\ Races({p})
    /\ UNCHANGED signed

\* A manager asks for the provider's page; the state is fresh for ten minutes.
OAuthAuthorize(p) ==
    /\ p \in OAuthProviders
    /\ signed' = signed \cup {p}
    /\ UNCHANGED <<conn, req, raced>>
StateExpires(p) ==
    /\ p \in signed
    /\ signed' = signed \ {p}
    /\ UNCHANGED <<conn, req, raced>>

\* What the provider gives for a code: a token, with or without a refresh
\* token, or an error, on which the callback changes nothing. A state may come
\* back more than once; its code is the provider's to refuse.
ExchangeCode(p) == [made : {TRUE}, provider : {p}, active : {TRUE},
                    oauth : IF p \in Refreshable THEN BOOLEAN ELSE {FALSE},
                    due : {FALSE}]

\* The public callback, with a state signed for this provider: the old
\* connection is switched off, then the new one inserted.
OAuthCallback(r, i, p) ==
    /\ req[r].pc = "idle" /\ Unmade(i)
    /\ p \in signed
    /\ conn' = Deactivated(p, i)
    /\ \E row \in ExchangeCode(p) :
         req' = [req EXCEPT ![r] = [pc |-> "insert", id |-> i, row |-> row]]
    /\ Races({p})
    /\ UNCHANGED signed

Insert(r) ==
    /\ req[r].pc = "insert"
    /\ conn' = [conn EXCEPT ![req[r].id] = req[r].row]
    /\ Answered(r)
    /\ UNCHANGED <<signed, raced>>

\* PATCH reads the row, and switches the others of its old provider off if it
\* is to be active; the provider itself may be changed too.
PatchConnection(r, i, p, active) ==
    LET old == conn[i] IN
    /\ req[r].pc = "idle" /\ old.made
    /\ conn' = IF active THEN Deactivated(old.provider, i) ELSE conn
    /\ req' = [req EXCEPT ![r] = [pc |-> "save", id |-> i,
                 row |-> [old EXCEPT !.provider = p, !.active = active]]]
    /\ raced' = raced \cup {q \in {p, old.provider} : Writing(q) # {}}
                      \cup (IF p # old.provider THEN {p} ELSE {})
    /\ UNCHANGED signed

\* PATCH of a label or a secret leaves "active" as it was read.
PatchOther(r, i) ==
    /\ req[r].pc = "idle" /\ conn[i].made
    /\ req' = [req EXCEPT ![r] = [pc |-> "save", id |-> i, row |-> conn[i]]]
    /\ Races({conn[i].provider})
    /\ UNCHANGED <<conn, signed>>

\* The whole row is saved: one that was deleted meanwhile is inserted again.
SaveConnection(r) ==
    /\ req[r].pc = "save"
    /\ conn' = [conn EXCEPT ![req[r].id] = req[r].row]
    /\ Answered(r)
    /\ UNCHANGED <<signed, raced>>

DeleteConnection(i) ==
    /\ conn[i].made
    /\ conn' = [conn EXCEPT ![i] = NoRowYet]
    /\ UNCHANGED <<req, signed, raced>>

TokenExpires(i) ==
    /\ conn[i].made /\ conn[i].oauth /\ ~conn[i].due
    /\ conn' = [conn EXCEPT ![i].due = TRUE]
    /\ UNCHANGED <<req, signed, raced>>
-----------------------------------------------------------------------------
\* get_provider_secret(): the active row (any of them, were there two).
GetSecret(r, i) ==
    /\ req[r].pc = "idle" /\ conn[i].made /\ conn[i].active
    /\ req' = [req EXCEPT ![r] = [pc |-> IF conn[i].due THEN "refresh" ELSE "call",
                                  id |-> i, row |-> conn[i]]]
    /\ UNCHANGED <<conn, signed, raced>>

\* MUTANT of Refreshed: the row is saved whole, as it was read.
MutRefreshed(i, row) == IF conn[i].made THEN [row EXCEPT !.due = FALSE] ELSE conn[i]

\* What a refresh writes: the token's columns, of a row that still exists.
Refreshed(i, row) == IF conn[i].made THEN [conn[i] EXCEPT !.due = FALSE] ELSE conn[i]

\* The provider refreshes the token, or fails and the stale one is tried.
RefreshConnection(r) ==
    LET i == req[r].id IN
    /\ req[r].pc = "refresh"
    /\ conn' \in {conn, [conn EXCEPT ![i] = Refreshed(i, req[r].row)]}
    /\ req' = [req EXCEPT ![r].pc = "call"]
    /\ UNCHANGED <<signed, raced>>

\* The call of the provider, whatever it answers, changes no row here.
CallProvider(r) ==
    /\ req[r].pc = "call"
    /\ Answered(r)
    /\ UNCHANGED <<conn, signed, raced>>
-----------------------------------------------------------------------------
ConnNext ==
    \/ \E r \in Requests :
         \/ \E i \in ConnIds, p \in Providers :
              \/ OAuthCallback(r, i, p)
              \/ \E active \in BOOLEAN :
                   CreateConnection(r, i, p, active) \/ PatchConnection(r, i, p, active)
         \/ \E i \in ConnIds : PatchOther(r, i) \/ GetSecret(r, i)
         \/ Insert(r) \/ SaveConnection(r) \/ RefreshConnection(r) \/ CallProvider(r)
    \/ \E p \in Providers : OAuthAuthorize(p) \/ StateExpires(p)
    \/ \E i \in ConnIds : DeleteConnection(i) \/ TokenExpires(i)

ConnSpec == ConnInit /\ [][ConnNext]_connVars
-----------------------------------------------------------------------------
ConnTypeOK ==
    /\ conn \in [ConnIds -> Connection]
    /\ req \in [Requests -> Request]
    /\ signed \subseteq Providers
    /\ raced \subseteq Providers

\* One active connection per provider, unless two edits of the provider's rows
\* overlapped or an edit moved a row to another provider: no refresh that comes
\* back late, and no insert after a delete, brings a second one about.
SecondActiveNeedsARace ==
    \A p \in Providers \ raced :
        Cardinality({i \in ConnIds : /\ conn[i].made /\ conn[i].active
                                     /\ conn[i].provider = p}) <= 1
=============================================================================
