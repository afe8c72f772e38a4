----------------------------- MODULE SlackGrant -----------------------------
(***************************************************************************)
(* The Slack user grant behind live client context: a manager connects it  *)
(* by OAuth, workers that collect evidence refresh its token under a lease *)
(* and use it, and it is torn down by a manager or when Slack disowns it.  *)
(* The refresh token is rotated: Slack takes each one once.                *)
(***************************************************************************)
EXTENDS Naturals

CONSTANTS
    Attempts,       \* OAuth attempts; each may become one grant
    Readers,        \* workers that collect evidence from Slack
    NoGrant,        \* no attempt, reader or token
    MaxRefresh      \* bound on the refreshes of a grant

ASSUME GrantConstants == /\ NoGrant \notin Attempts \cup Readers
                         /\ MaxRefresh \in Nat

VARIABLES
    attempt,        \* the SlackOAuthAttempt rows and their callbacks
    grant,          \* the SlackContextGrant row; rev stands for its revision
    reader,         \* per worker: progress, the revision and token it read
    slackNext,      \* Slack: the refresh of each grant it will take next
    spentTwice,     \* history: grants of which a spent token was presented
    broken          \* history: grants with a refresh lost, or its lease overtaken

grantVars == <<attempt, grant, reader, slackNext, spentTwice, broken>>
-----------------------------------------------------------------------------
Token == [of : Attempts \cup {NoGrant}, n : 0..MaxRefresh]
NoToken == [of |-> NoGrant, n |-> 0]
SlackOAuthAttempt == {"none", "open", "consumed", "stored", "closed"}
SlackContextGrant == [active : BOOLEAN, rev : Attempts \cup {NoGrant},
                      token : Token, due : BOOLEAN,
                      lease : Readers \cup {NoGrant}, over : BOOLEAN]
NoRow == [active |-> FALSE, rev |-> NoGrant, token |-> NoToken, due |-> FALSE,
          lease |-> NoGrant, over |-> FALSE]
Reader == [pc : {"idle", "read", "claimed", "asking", "answered", "calling"},
           rev : Attempts \cup {NoGrant}, token : Token, due : BOOLEAN]
IdleReader == [pc |-> "idle", rev |-> NoGrant, token |-> NoToken, due |-> FALSE]

GrantInit ==
    /\ attempt = [a \in Attempts |-> "none"]
    /\ grant = NoRow
    /\ reader = [r \in Readers |-> IdleReader]
    /\ slackNext = [a \in Attempts |-> 0]
    /\ spentTwice = {} /\ broken = {}

\* revoke(): tokens, revision and lease are cleared (and, in Investigations,
\* everything that was derived from Slack). The row keeps its expiry.
Revoked(g) == [NoRow EXCEPT !.due = g.due]
-----------------------------------------------------------------------------
(* Connecting.                                                             *)

Authorize(a) ==
    /\ attempt[a] = "none"
    /\ attempt' = [attempt EXCEPT ![a] = "open"]
    /\ UNCHANGED <<grant, reader, slackNext, spentTwice, broken>>

\* The callback consumes the attempt by a guarded update, so only one does.
\* An attempt that is not answered in ten minutes is never consumed.
Consume(a) ==
    /\ attempt[a] = "open"
    /\ attempt' = [attempt EXCEPT ![a] = "consumed"]
    /\ UNCHANGED <<grant, reader, slackNext, spentTwice, broken>>

\* Slack gave a token of the right user: the old grant is revoked first.
\* A code Slack refuses, or a token of somebody else, changes no grant.
CallbackRevokes(a) ==
    /\ attempt[a] = "consumed"
    /\ \/ /\ attempt' = [attempt EXCEPT ![a] = "stored"]
          /\ grant' = Revoked(grant)
       \/ /\ attempt' = [attempt EXCEPT ![a] = "closed"]
          /\ UNCHANGED grant
    /\ UNCHANGED <<reader, slackNext, spentTwice, broken>>

\* ... and the new one written over the row, whatever it holds by then.
CallbackStores(a) ==
    /\ attempt[a] = "stored"
    /\ attempt' = [attempt EXCEPT ![a] = "closed"]
    /\ grant' = [grant EXCEPT !.active = TRUE, !.rev = a, !.due = FALSE,
                              !.token = [of |-> a, n |-> 0]]
    /\ UNCHANGED <<reader, slackNext, spentTwice, broken>>

\* DELETE on the connection.
Disconnect ==
    /\ grant.active
    /\ grant' = Revoked(grant)
    /\ UNCHANGED <<attempt, reader, slackNext, spentTwice, broken>>

\* Less than a minute of the token's life is left; a lease's 30 s are over.
TokenDue == /\ grant.active /\ ~grant.due
            /\ grant' = [grant EXCEPT !.due = TRUE]
            /\ UNCHANGED <<attempt, reader, slackNext, spentTwice, broken>>
LeaseOver == /\ grant.lease # NoGrant /\ ~grant.over
             /\ grant' = [grant EXCEPT !.over = TRUE]
             /\ UNCHANGED <<attempt, reader, slackNext, spentTwice, broken>>
-----------------------------------------------------------------------------
(* Collecting evidence: retrieve() and, within it, grant_token().          *)

Retrieve(r) ==
    /\ reader[r].pc = "idle" /\ grant.active
    /\ reader' = [reader EXCEPT ![r] = [pc |-> "read", rev |-> grant.rev,
                                        token |-> grant.token, due |-> grant.due]]
    /\ UNCHANGED <<attempt, grant, slackNext, spentTwice, broken>>

GoesIdle(r) == reader' = [reader EXCEPT ![r] = IdleReader]
CallWith(r, t) == reader' = [reader EXCEPT ![r] = [IdleReader EXCEPT !.pc = "calling",
                                                                   !.token = t]]
Release(r, g) == IF g.lease = r THEN [g EXCEPT !.lease = NoGrant, !.over = FALSE]
                 ELSE g

UseToken(r) ==
    /\ reader[r].pc = "read" /\ ~reader[r].due
    /\ CallWith(r, reader[r].token)
    /\ UNCHANGED <<attempt, grant, slackNext, spentTwice, broken>>

\* MUTANT of Claimable: the lease of another worker is ignored.
MutClaimable(r, g) == g.active /\ g.rev = reader[r].rev

\* The lease is free for the revision that was read.
Claimable(r, g) == g.active /\ g.rev = reader[r].rev /\ (g.lease = NoGrant \/ g.over)

Claim(r) ==
    /\ reader[r].pc = "read" /\ reader[r].due
    /\ IF Claimable(r, grant)
       THEN /\ grant' = [grant EXCEPT !.lease = r, !.over = FALSE]
            /\ reader' = [reader EXCEPT ![r].pc = "claimed"]
            /\ broken' = IF grant.over THEN broken \cup {grant.rev} ELSE broken
       ELSE GoesIdle(r) /\ UNCHANGED <<grant, broken>>
    /\ UNCHANGED <<attempt, slackNext, spentTwice>>

\* The row is read again: refreshed meanwhile, disconnected, or to be refreshed.
\* If it was reconnected, the worker spends the token of the new grant, for
\* nothing: what it gets will not be stored under the revision it began with.
Recheck(r) ==
    /\ reader[r].pc = "claimed"
    /\ \/ /\ ~grant.due
          /\ CallWith(r, grant.token) /\ grant' = Release(r, grant)
          /\ UNCHANGED broken
       \/ /\ grant.due /\ grant.token = NoToken
          /\ GoesIdle(r) /\ grant' = Release(r, grant)
          /\ UNCHANGED broken
       \/ /\ grant.due /\ grant.token # NoToken
          /\ reader' = [reader EXCEPT ![r] = [@ EXCEPT !.pc = "asking", !.token = grant.token]]
          /\ broken' = IF grant.rev = reader[r].rev THEN broken
                       ELSE broken \cup {grant.rev}
          /\ UNCHANGED grant
    /\ UNCHANGED <<attempt, slackNext, spentTwice>>

\* token_request(): Slack takes the token it issued last and issues the next;
\* a spent one is refused. The answer may also be lost, or never asked for.
Exchange(r) ==
    LET t == reader[r].token IN
    /\ reader[r].pc = "asking"
    /\ \/ /\ t.n = slackNext[t.of] /\ t.n < MaxRefresh
          /\ slackNext' = [slackNext EXCEPT ![t.of] = t.n + 1]
          /\ \/ /\ reader' = [reader EXCEPT ![r] = [@ EXCEPT !.pc = "answered", !.token = [t EXCEPT !.n = t.n + 1]]]
                /\ UNCHANGED <<grant, broken>>
             \/ /\ GoesIdle(r) /\ grant' = Release(r, grant)
                /\ broken' = broken \cup {t.of}
          /\ UNCHANGED spentTwice
       \/ /\ GoesIdle(r) /\ grant' = Release(r, grant)
          /\ spentTwice' = IF t.n = slackNext[t.of] THEN spentTwice
                           ELSE spentTwice \cup {t.of}
          /\ UNCHANGED <<slackNext, broken>>
    /\ UNCHANGED attempt

\* The guard of the update that stores a refreshed token.
Storable(r, g) == g.active /\ g.rev = reader[r].rev /\ g.lease = r

Store(r) ==
    LET t == reader[r].token IN
    /\ reader[r].pc = "answered"
    /\ IF Storable(r, grant)
       THEN /\ grant' = Release(r, [grant EXCEPT !.token = t, !.due = FALSE])
            /\ CallWith(r, t) /\ UNCHANGED broken
       ELSE /\ grant' = Release(r, grant)
            /\ GoesIdle(r) /\ broken' = broken \cup {t.of}
    /\ UNCHANGED <<attempt, slackNext, spentTwice>>

\* Slack's read API answers; when it disowns the token the stored grant goes,
\* be it the one the token is from or a later one.
ReadThread(r) ==
    /\ reader[r].pc = "calling"
    /\ GoesIdle(r)
    /\ grant' \in {grant, Revoked(grant)}
    /\ UNCHANGED <<attempt, slackNext, spentTwice, broken>>

\* A worker dies; its lease stays until it is over.
ReaderDies(r) ==
    /\ reader[r].pc # "idle"
    /\ GoesIdle(r)
    /\ broken' = IF reader[r].pc = "answered" THEN broken \cup {reader[r].token.of}
                  ELSE broken
    /\ UNCHANGED <<attempt, grant, slackNext, spentTwice>>
-----------------------------------------------------------------------------
GrantNext ==
    \/ \E a \in Attempts : Authorize(a) \/ Consume(a) \/ CallbackRevokes(a)
                           \/ CallbackStores(a)
    \/ Disconnect \/ TokenDue \/ LeaseOver
    \/ \E r \in Readers : Retrieve(r) \/ UseToken(r) \/ Claim(r) \/ Recheck(r)
                          \/ Exchange(r) \/ Store(r) \/ ReadThread(r) \/ ReaderDies(r)

GrantSpec == GrantInit /\ [][GrantNext]_grantVars
-----------------------------------------------------------------------------
GrantTypeOK ==
    /\ attempt \in [Attempts -> SlackOAuthAttempt]
    /\ grant \in SlackContextGrant
    /\ reader \in [Readers -> Reader]
    /\ slackNext \in [Attempts -> 0..MaxRefresh]
    /\ spentTwice \subseteq Attempts /\ broken \subseteq Attempts

\* The stored token is of the grant that is connected, whichever refreshes were
\* under way when it was connected; and two workers never present the same
\* refresh token, unless an earlier one was lost, outran its lease or had begun
\* with a grant that was replaced.
OneLineage ==
    /\ grant.active => grant.token.of = grant.rev
    /\ ~grant.active => grant.token = NoToken
    /\ spentTwice \subseteq broken
=============================================================================
