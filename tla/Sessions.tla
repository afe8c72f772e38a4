------------------------------ MODULE Sessions ------------------------------
(***************************************************************************)
(* What a visitor holds: the refresh token in a browser's cookie, replaced *)
(* at every refresh, and the link of an invitation, replaced when it is    *)
(* sent again and used to create the account.                              *)
(***************************************************************************)
EXTENDS Naturals, FiniteSets

CONSTANTS
    MaxToken,       \* bound on the refresh tokens that are issued
    MaxLink,        \* bound on the links of the invitation that are mailed
    MaxMail,        \* limit of _rate_limited(): requests of an address per hour
    Visitors        \* requests at work

ASSUME SessionConstants == MaxToken \in Nat \ {0} /\ MaxLink \in Nat \ {0} /\ MaxMail \in Nat
                           /\ IsFiniteSet(Visitors)

Tokens == 1..MaxToken

VARIABLES
    issued,         \* per refresh token: the login it descends from (0: not issued)
    black,          \* refresh tokens on the blacklist
    cookie,         \* the token in the browser (0: none)
    out,            \* history: logins a logout ended
    invite,         \* the invitation: its newest link, and whether it was accepted
    mailed,         \* links in mailboxes
    accounts,       \* accounts with the invited address
    counter,        \* the cached count of _rate_limited()
    sent,           \* history: mails that passed the limit
    visit,          \* per request: what it does and what it has read
    doubled         \* history: what two requests were doing at once

sessionVars == <<issued, black, cookie, out, invite, mailed, accounts, counter, sent,
                 visit, doubled>>
-----------------------------------------------------------------------------
TeamInvite == [hash : 0..MaxLink, accepted : BOOLEAN, late : BOOLEAN]
Visit == [op : {"none", "refresh", "accept", "name", "mark", "resend", "mail", "done"},
          read : 0..(MaxToken + MaxLink + MaxMail + Cardinality(Visitors))]
Waiting == [op |-> "none", read |-> 0]
Logins == {issued[t] : t \in Tokens} \ {0}
Live == {t \in Tokens : issued[t] # 0 /\ t \notin black}

SessionInit ==
    /\ issued = [t \in Tokens |-> 0] /\ black = {} /\ cookie = 0 /\ out = {}
    /\ invite = [hash |-> 0, accepted |-> FALSE, late |-> FALSE]
    /\ mailed = {} /\ accounts = 0 /\ counter = 0 /\ sent = 0
    /\ visit = [v \in Visitors |-> Waiting] /\ doubled = {}

Reads(v, op, x) ==
    /\ visit' = [visit EXCEPT ![v] = [op |-> op, read |-> x]]
    /\ doubled' = IF \E w \in Visitors \ {v} : visit[w].op = op /\ op # "none"
                  THEN doubled \cup {op} ELSE doubled
Leaves(v) == visit' = [visit EXCEPT ![v] = [op |-> "done", read |-> 0]] /\ UNCHANGED doubled
Waits(v) == visit[v].op = "none"
inviteVars == <<invite, mailed, accounts, counter, sent>>
tokenVars == <<issued, black, cookie, out>>
-----------------------------------------------------------------------------
\* A login issues the first token of a chain of its own.
TokenObtain(t) ==
    /\ issued[t] = 0
    /\ issued' = [issued EXCEPT ![t] = t] /\ cookie' = t
    /\ UNCHANGED <<black, out, visit, doubled>> /\ UNCHANGED inviteVars

\* RefreshToken() refuses one that is on the blacklist, and the cookie is cleared.
TokenRefresh(v) ==
    /\ Waits(v) /\ cookie # 0
    /\ IF cookie \in Live
       THEN Reads(v, "refresh", cookie) /\ UNCHANGED cookie
       ELSE cookie' = 0 /\ UNCHANGED <<visit, doubled>>
    /\ UNCHANGED <<issued, black, out>> /\ UNCHANGED inviteVars

\* blacklist() is get_or_create: it succeeds for a token that is there already.
Spend(t) == black' = black \cup {t}

\* The answer may be lost on its way: the browser then keeps the old token.
RotateToken(v, t) ==
    /\ visit[v].op = "refresh" /\ issued[t] = 0
    /\ Spend(visit[v].read)
    /\ issued' = [issued EXCEPT ![t] = issued[visit[v].read]]
    /\ cookie' \in {cookie, t}
    /\ Leaves(v) /\ UNCHANGED out /\ UNCHANGED inviteVars

TokenLogout ==
    /\ cookie \in Live
    /\ Spend(cookie) /\ out' = out \cup {issued[cookie]} /\ cookie' = 0
    /\ doubled' = IF \E v \in Visitors : visit[v].op = "refresh" /\ visit[v].read = cookie
                  THEN doubled \cup {"refresh"} ELSE doubled
    /\ UNCHANGED <<issued, visit>> /\ UNCHANGED inviteVars
-----------------------------------------------------------------------------
Invite ==
    /\ invite.hash = 0 /\ MaxLink > 0
    /\ invite' = [invite EXCEPT !.hash = 1] /\ mailed' \in {{}, {1}}
    /\ UNCHANGED <<accounts, counter, sent, visit, doubled>> /\ UNCHANGED tokenVars

InviteExpires ==
    /\ invite.hash # 0 /\ invite' = [invite EXCEPT !.late = TRUE]
    /\ UNCHANGED <<mailed, accounts, counter, sent, visit, doubled>> /\ UNCHANGED tokenVars

Resend(v) ==
    /\ Waits(v) /\ invite.hash \in 1..MaxLink - 1 /\ ~invite.accepted
    /\ Reads(v, "resend", 0)
    /\ UNCHANGED <<invite, mailed, accounts, counter, sent>> /\ UNCHANGED tokenVars

\* The new link replaces the old; the mail may fail.
SaveLink(v) ==
    /\ visit[v].op = "resend" /\ invite.hash < MaxLink
    /\ invite' = [invite EXCEPT !.hash = @ + 1, !.late = FALSE]
    /\ mailed' \in {mailed, mailed \cup {invite.hash + 1}}
    /\ Leaves(v) /\ UNCHANGED <<accounts, counter, sent>> /\ UNCHANGED tokenVars

LookupInvite(l) == l = invite.hash /\ ~invite.accepted /\ ~invite.late

\* The address has no account yet; a free user name is looked for afterwards.
InviteAccept(v, l) ==
    /\ Waits(v) /\ l \in mailed /\ LookupInvite(l) /\ accounts = 0
    /\ visit' = [visit EXCEPT ![v] = [op |-> "accept", read |-> l]]
    /\ doubled' = IF \E w \in Visitors \ {v} : visit[w].op \in {"accept", "name"}
                  THEN doubled \cup {"accept"} ELSE doubled
    /\ UNCHANGED <<invite, mailed, accounts, counter, sent>> /\ UNCHANGED tokenVars

PickUsername(v) ==
    /\ visit[v].op = "accept"
    /\ visit' = [visit EXCEPT ![v] = [op |-> "name", read |-> accounts]]
    /\ UNCHANGED <<invite, mailed, accounts, counter, sent, doubled>> /\ UNCHANGED tokenVars

\* The user name is unique: the second of two that chose the same one fails.
CreateUser(v) ==
    /\ visit[v].op = "name"
    /\ IF visit[v].read = accounts
       THEN accounts' = accounts + 1 /\ Reads(v, "mark", 0)
       ELSE Leaves(v) /\ UNCHANGED accounts
    /\ UNCHANGED <<invite, mailed, counter, sent>> /\ UNCHANGED tokenVars

MarkAccepted(v) ==
    /\ visit[v].op = "mark"
    /\ invite' = [invite EXCEPT !.accepted = TRUE]
    /\ Leaves(v) /\ UNCHANGED <<mailed, accounts, counter, sent>> /\ UNCHANGED tokenVars
-----------------------------------------------------------------------------
\* The count is read, then set or increased, by any number of requests at once.
RateLimited(v) ==
    /\ Waits(v)
    /\ IF counter >= MaxMail THEN Leaves(v) ELSE Reads(v, "mail", counter)
    /\ UNCHANGED inviteVars /\ UNCHANGED tokenVars

CountMail(v) ==
    /\ visit[v].op = "mail"
    /\ counter' = (IF visit[v].read = 0 THEN 1 ELSE counter + 1)
    /\ sent' = sent + 1
    /\ Leaves(v) /\ UNCHANGED <<invite, mailed, accounts>> /\ UNCHANGED tokenVars

\* A request that ends early may be followed by another.
VisitorLeaves(v) ==
    /\ visit[v].op \notin {"none", "done"}
    /\ Leaves(v) /\ UNCHANGED inviteVars /\ UNCHANGED tokenVars
-----------------------------------------------------------------------------
SessionNext ==
    \/ \E t \in Tokens : TokenObtain(t) \/ \E v \in Visitors : RotateToken(v, t)
    \/ TokenLogout \/ Invite \/ InviteExpires
    \/ \E v \in Visitors :
        \/ TokenRefresh(v) \/ Resend(v) \/ SaveLink(v)
        \/ \E l \in 1..MaxLink : InviteAccept(v, l)
        \/ PickUsername(v) \/ CreateUser(v) \/ MarkAccepted(v)
        \/ RateLimited(v) \/ CountMail(v) \/ VisitorLeaves(v)

SessionSpec == SessionInit /\ [][SessionNext]_sessionVars
-----------------------------------------------------------------------------
SessionTypeOK ==
    /\ issued \in [Tokens -> 0..MaxToken] /\ black \subseteq Tokens
    /\ cookie \in 0..MaxToken /\ out \subseteq Tokens
    /\ invite \in TeamInvite /\ mailed \subseteq 1..MaxLink
    /\ accounts \in 0..Cardinality(Visitors)
    /\ counter \in 0..(MaxMail + Cardinality(Visitors)) /\ sent \in 0..Cardinality(Visitors)
    /\ visit \in [Visitors -> Visit]
    /\ doubled \subseteq {"refresh", "accept", "name", "mark", "resend", "mail"}

\* A login has one refresh token that is good and, logged out, none; an invited
\* address gets one account; the mails of an hour stay within their limit: unless
\* two requests did the same at once.
SessionsKept ==
    /\ "refresh" \in doubled \/ \A n \in Logins :
          LET good == {t \in Live : issued[t] = n} IN
          Cardinality(good) <= (IF n \in out THEN 0 ELSE 1)
    /\ "accept" \in doubled \/ accounts <= 1
    /\ "mail" \in doubled \/ sent <= MaxMail
=============================================================================
