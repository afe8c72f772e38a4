-------------------------- MODULE OnboardingProofs --------------------------
(***************************************************************************)
(* Proofs about onboarding: the Slack grant behind client context, the     *)
(* pipeline of Fireflies calls, the provider connections and the clients'  *)
(* GHL connections, for any number of attempts, workers, calls, messages,  *)
(* targets, requests, providers, clients and locations.                    *)
(***************************************************************************)
EXTENDS MCOnboarding, BoardProofs

(* ------------------------- The Slack grant ----------------------------- *)

\* Workers that are refreshing a token, and those that hold one to refresh.
Refreshing == {"claimed", "asking", "answered"}
Presenting == {"asking", "answered"}

\* A connected grant is of an attempt whose callback is over, and has its token.
GrantShape ==
    /\ grant.active => /\ grant.rev \in Attempts /\ attempt[grant.rev] = "closed"
                       /\ grant.token.of = grant.rev
    /\ ~grant.active => grant.token = NoToken /\ grant.rev = NoGrant

\* So are the grants that workers have begun with and those they refresh. Who
\* refreshes a later grant than it began with will never store what it gets.
ReaderShape ==
    \A r \in Readers :
        /\ reader[r].pc \in {"read"} \cup Refreshing =>
               reader[r].rev \in Attempts /\ attempt[reader[r].rev] = "closed"
        /\ reader[r].pc \in Presenting =>
               /\ reader[r].token.of \in Attempts /\ attempt[reader[r].token.of] = "closed"
               /\ reader[r].token.of # reader[r].rev =>
                      grant.rev # reader[r].rev /\ reader[r].token.of \in broken

\* One worker at a time refreshes a grant none of whose refreshes went wrong, and
\* it holds the lease of the grant if that is still connected.
OneRefresher ==
    /\ \A r \in Readers :
           reader[r].pc \in Refreshing /\ reader[r].rev = grant.rev /\ grant.rev \notin broken
             => grant.lease = r
    /\ \A r, s \in Readers :
           reader[r].pc \in Refreshing /\ reader[s].pc \in Refreshing
           /\ reader[r].rev = reader[s].rev /\ reader[r].rev \notin broken
             => r = s

\* The token it holds is the one Slack will take next, and so is the stored one
\* unless a worker is about to store its successor.
NextToken ==
    /\ \A a \in Attempts : attempt[a] # "closed" => slackNext[a] = 0
    /\ \A r \in Readers :
           reader[r].pc \in Presenting /\ reader[r].token.of \notin broken
             => reader[r].token.n = slackNext[reader[r].token.of]
    /\ grant.active /\ grant.rev \notin broken =>
           \/ grant.token.n = slackNext[grant.rev]
           \/ \E r \in Readers : reader[r].pc = "answered" /\ reader[r].token.of = grant.rev

GrantInv == /\ GrantTypeOK /\ GrantShape /\ ReaderShape /\ OneRefresher /\ NextToken
            /\ spentTwice \subseteq broken

\* Steps of the attempts and of the stored grant, and steps of a worker.
GrantStep(a) == Authorize(a) \/ Consume(a) \/ CallbackRevokes(a) \/ CallbackStores(a)
ReaderStep(r) == Retrieve(r) \/ UseToken(r) \/ Claim(r) \/ Recheck(r) \/ Exchange(r) \/ Store(r)
                 \/ ReadThread(r) \/ ReaderDies(r)

\* The values rows and workers are given.
LEMMA GrantRecords ==
    /\ NoToken \in Token /\ NoRow \in SlackContextGrant /\ IdleReader \in Reader
    /\ \A g \in SlackContextGrant :
           /\ Revoked(g) \in SlackContextGrant
           /\ Revoked(g).active = FALSE /\ Revoked(g).token = NoToken /\ Revoked(g).rev = NoGrant
           /\ \A r \in Readers :
                  /\ Release(r, g) \in SlackContextGrant
                  /\ Release(r, g).active = g.active /\ Release(r, g).rev = g.rev
                  /\ Release(r, g).token = g.token
                  /\ Release(r, g).lease = IF g.lease = r THEN NoGrant ELSE g.lease
<1>1. NoToken \in Token
    BY GrantConstants DEF NoToken, Token
<1>2. NoRow \in SlackContextGrant
    BY <1>1 DEF NoRow, SlackContextGrant
<1>3. IdleReader \in Reader
    BY <1>1 DEF IdleReader, Reader
<1>4. ASSUME NEW g \in SlackContextGrant
      PROVE  /\ Revoked(g) \in SlackContextGrant
             /\ Revoked(g).active = FALSE /\ Revoked(g).token = NoToken /\ Revoked(g).rev = NoGrant
    BY <1>1 DEF Revoked, NoRow, SlackContextGrant
<1>5. ASSUME NEW g \in SlackContextGrant, NEW r \in Readers
      PROVE  /\ Release(r, g) \in SlackContextGrant
             /\ Release(r, g).active = g.active /\ Release(r, g).rev = g.rev
             /\ Release(r, g).token = g.token
             /\ Release(r, g).lease = IF g.lease = r THEN NoGrant ELSE g.lease
    BY DEF Release, SlackContextGrant
<1> QED BY <1>1, <1>2, <1>3, <1>4, <1>5

\* What a worker has in hand once it has gone on.
LEMMA ReaderMoves ==
    ASSUME GrantTypeOK, NEW r \in Readers
    PROVE  /\ GoesIdle(r) => /\ reader'[r] = IdleReader /\ reader'[r].pc = "idle"
                             /\ \A s \in Readers \ {r} : reader'[s] = reader[s]
                             /\ reader' \in [Readers -> Reader]
           /\ \A t \in Token : CallWith(r, t) =>
                 /\ reader'[r].pc = "calling" /\ \A s \in Readers \ {r} : reader'[s] = reader[s]
                 /\ reader' \in [Readers -> Reader]
           /\ reader' = [reader EXCEPT ![r].pc = "claimed"] =>
                 /\ reader'[r].pc = "claimed" /\ reader'[r].rev = reader[r].rev
                 /\ \A s \in Readers \ {r} : reader'[s] = reader[s]
                 /\ reader' \in [Readers -> Reader]
           /\ \A p \in Presenting, t \in Token :
                 reader' = [reader EXCEPT ![r] = [@ EXCEPT !.pc = p, !.token = t]] =>
                 /\ reader'[r].pc = p /\ reader'[r].rev = reader[r].rev
                 /\ reader'[r].token = t /\ \A s \in Readers \ {r} : reader'[s] = reader[s]
                 /\ reader' \in [Readers -> Reader]
<1>1. reader \in [Readers -> Reader] /\ reader[r] \in Reader
    BY DEF GrantTypeOK
<1>2. IdleReader \in Reader /\ IdleReader.pc = "idle"
    BY GrantRecords DEF IdleReader
<1>3. \A t \in Token : /\ [IdleReader EXCEPT !.pc = "calling", !.token = t] \in Reader
                       /\ [IdleReader EXCEPT !.pc = "calling", !.token = t].pc = "calling"
    BY <1>2 DEF Reader
<1>4. \A x \in Reader : /\ [x EXCEPT !.pc = "claimed"] \in Reader
                        /\ [x EXCEPT !.pc = "claimed"].pc = "claimed"
                        /\ [x EXCEPT !.pc = "claimed"].rev = x.rev
    BY DEF Reader
<1>5. GoesIdle(r) => /\ reader'[r] = IdleReader /\ reader'[r].pc = "idle"
                     /\ \A s \in Readers \ {r} : reader'[s] = reader[s]
                     /\ reader' \in [Readers -> Reader]
    BY <1>1, <1>2 DEF GoesIdle
<1>6. \A t \in Token : CallWith(r, t) =>
          /\ reader'[r].pc = "calling" /\ \A s \in Readers \ {r} : reader'[s] = reader[s]
          /\ reader' \in [Readers -> Reader]
    BY <1>1, <1>3 DEF CallWith
<1>7. reader' = [reader EXCEPT ![r].pc = "claimed"] =>
          /\ reader'[r].pc = "claimed" /\ reader'[r].rev = reader[r].rev
          /\ \A s \in Readers \ {r} : reader'[s] = reader[s]
          /\ reader' \in [Readers -> Reader]
    BY <1>1, <1>4
<1>8. ASSUME NEW p \in Presenting, NEW t \in Token,
              reader' = [reader EXCEPT ![r] = [@ EXCEPT !.pc = p, !.token = t]]
       PROVE  /\ reader'[r].pc = p /\ reader'[r].rev = reader[r].rev
              /\ reader'[r].token = t /\ \A s \in Readers \ {r} : reader'[s] = reader[s]
              /\ reader' \in [Readers -> Reader]
    <2>1. reader'[r] = [reader[r] EXCEPT !.pc = p, !.token = t]
        BY <1>1, <1>8
    <2>2. /\ reader'[r] \in Reader /\ reader'[r].pc = p /\ reader'[r].rev = reader[r].rev
          /\ reader'[r].token = t
        BY <1>1, <2>1 DEF Reader, Presenting
    <2> QED BY <1>1, <1>8, <2>2
<1> QED BY <1>5, <1>6, <1>7, <1>8

\* Whatever a worker goes idle or calls Slack for, the grant, if it changes at all,
\* is released by it or revoked: nothing new is refreshed.
LEMMA StopsRefreshing ==
    ASSUME GrantInv, NEW r \in Readers, UNCHANGED <<attempt, slackNext>>,
           reader' \in [Readers -> Reader], reader'[r].pc \in {"idle", "calling"},
           \A s \in Readers \ {r} : reader'[s] = reader[s],
           grant' \in {grant, Release(r, grant), Revoked(grant)},
           broken \subseteq broken', broken' \subseteq Attempts,
           reader[r].pc = "answered" => reader[r].token.of \in broken',
           spentTwice' \subseteq broken', spentTwice' \subseteq Attempts
    PROVE  GrantInv'
<1>1. GrantTypeOK'
    BY GrantRecords DEF GrantInv, GrantTypeOK
<1>2. \/ grant'.active = FALSE /\ grant'.token = NoToken /\ grant'.rev = NoGrant
      \/ /\ grant'.active = grant.active /\ grant'.rev = grant.rev /\ grant'.token = grant.token
         /\ grant'.lease = grant.lease \/ grant.lease = r
    BY GrantRecords DEF GrantInv, GrantTypeOK
<1>3. NoGrant \notin Attempts
    BY GrantConstants
<1>4. GrantShape'
    BY <1>2 DEF GrantInv, GrantShape
<1>5. ReaderShape'
    BY <1>2, <1>3 DEF GrantInv, ReaderShape, Refreshing, Presenting
<1>6. OneRefresher'
    <2>1. ASSUME NEW s \in Readers, reader'[s].pc \in Refreshing, reader'[s].rev = grant'.rev,
                 grant'.rev \notin broken'
          PROVE  grant'.lease = s
        <3>1. s # r /\ reader'[s] = reader[s] /\ reader[s].rev \in Attempts
            BY <2>1 DEF GrantInv, ReaderShape, Refreshing
        <3>2. grant'.rev = grant.rev /\ (grant'.lease = grant.lease \/ grant.lease = r)
            BY <1>2, <1>3, <2>1, <3>1
        <3>3. grant.lease = s
            BY <2>1, <3>1, <3>2 DEF GrantInv, OneRefresher
        <3> QED BY <3>1, <3>2, <3>3
    <2>2. ASSUME NEW s \in Readers, NEW t \in Readers,
                 reader'[s].pc \in Refreshing, reader'[t].pc \in Refreshing,
                 reader'[s].rev = reader'[t].rev, reader'[s].rev \notin broken'
          PROVE  s = t
        <3>1. s # r /\ t # r
            BY <2>2 DEF Refreshing
        <3> QED BY <2>2, <3>1 DEF GrantInv, OneRefresher
    <2> QED BY <2>1, <2>2 DEF OneRefresher
<1>7. NextToken'
    <2>1. ASSUME NEW s \in Readers, reader'[s].pc \in Presenting, reader'[s].token.of \notin broken'
          PROVE  reader'[s].token.n = slackNext'[reader'[s].token.of]
        <3>1. s # r
            BY <2>1 DEF Presenting
        <3> QED BY <2>1, <3>1 DEF GrantInv, NextToken
    <2>2. ASSUME grant'.active, grant'.rev \notin broken'
          PROVE  \/ grant'.token.n = slackNext'[grant'.rev]
                 \/ \E s \in Readers : reader'[s].pc = "answered" /\ reader'[s].token.of = grant'.rev
        <3>1. grant.active /\ grant'.rev = grant.rev /\ grant'.token = grant.token
            BY <1>2, <2>2
        <3>2. CASE grant.token.n = slackNext[grant.rev]
            BY <3>1, <3>2
        <3>3. ASSUME NEW s \in Readers, reader[s].pc = "answered", reader[s].token.of = grant.rev
              PROVE  reader'[s].pc = "answered" /\ reader'[s].token.of = grant'.rev
            BY <2>2, <3>1, <3>3
        <3> QED BY <2>2, <3>1, <3>2, <3>3 DEF GrantInv, NextToken
    <2>3. \A a \in Attempts : attempt'[a] # "closed" => slackNext'[a] = 0
        BY DEF GrantInv, NextToken
    <2> QED BY <2>1, <2>2, <2>3 DEF NextToken
<1> QED BY <1>1, <1>4, <1>5, <1>6, <1>7 DEF GrantInv

\* The steps after which a worker refreshes nothing.
LEMMA StopSteps ==
    ASSUME GrantInv, NEW r \in Readers,
           UseToken(r) \/ ReadThread(r) \/ ReaderDies(r)
           \/ (Claim(r) /\ GoesIdle(r)) \/ (Recheck(r) /\ reader'[r].pc # "asking")
           \/ (Exchange(r) /\ UNCHANGED slackNext) \/ (Store(r) /\ GoesIdle(r))
    PROVE  GrantInv'
<1>0. /\ GrantTypeOK /\ NoToken \in Token /\ reader[r] \in Reader /\ grant \in SlackContextGrant
      /\ broken \subseteq Attempts /\ spentTwice \subseteq broken
    BY GrantRecords DEF GrantInv, GrantTypeOK
<1>1. /\ grant.token \in Token /\ reader[r].token \in Token
    BY <1>0 DEF SlackContextGrant, Reader
<1>2. reader[r].pc \in Presenting => reader[r].token.of \in Attempts
    BY DEF GrantInv, ReaderShape
<1>3. CASE UseToken(r)
    BY <1>0, <1>1, <1>3, ReaderMoves, StopsRefreshing DEF UseToken
<1>4. CASE ReadThread(r)
    BY <1>0, <1>4, ReaderMoves, StopsRefreshing DEF ReadThread
<1>5. CASE ReaderDies(r)
    BY <1>0, <1>2, <1>5, ReaderMoves, StopsRefreshing DEF ReaderDies, Presenting
<1>6. CASE Claim(r) /\ GoesIdle(r)
    <2>1. reader'[r].pc = "idle" /\ reader' \in [Readers -> Reader]
          /\ \A s \in Readers \ {r} : reader'[s] = reader[s]
        BY <1>0, <1>6, ReaderMoves
    <2>2. ~(reader' = [reader EXCEPT ![r].pc = "claimed"])
        BY <1>0, <2>1, ReaderMoves
    <2> QED BY <1>0, <1>6, <2>1, <2>2, StopsRefreshing DEF Claim
<1>7. CASE Recheck(r) /\ reader'[r].pc # "asking"
    <2>1. reader[r].pc = "claimed" /\ UNCHANGED <<attempt, slackNext, spentTwice>>
        BY <1>7 DEF Recheck
    <2>2. ~(reader' = [reader EXCEPT ![r] = [@ EXCEPT !.pc = "asking", !.token = grant.token]])
        BY <1>0, <1>1, <1>7, ReaderMoves DEF Presenting
    <2>3. /\ CallWith(r, grant.token) \/ GoesIdle(r)
          /\ grant' = Release(r, grant) /\ UNCHANGED broken
        BY <1>7, <2>2 DEF Recheck
    <2> QED BY <1>0, <1>1, <2>1, <2>3, ReaderMoves, StopsRefreshing
<1>8. CASE Exchange(r) /\ UNCHANGED slackNext
    <2>1. reader[r].pc = "asking" /\ UNCHANGED attempt
        BY <1>8 DEF Exchange
    <2> DEFINE t == reader[r].token
    <2>2. t.of \in Attempts /\ slackNext \in [Attempts -> 0..MaxRefresh] /\ t.n \in Nat
        BY <1>0, <1>1, <1>2, <2>1, GrantConstants DEF Presenting, GrantTypeOK, Token
    <2>3. ~(t.n = slackNext[t.of] /\ slackNext' = [slackNext EXCEPT ![t.of] = t.n + 1])
        BY <1>8, <2>2
    <2>4. /\ GoesIdle(r) /\ grant' = Release(r, grant) /\ UNCHANGED broken
          /\ spentTwice' = IF t.n = slackNext[t.of] THEN spentTwice ELSE spentTwice \cup {t.of}
        BY <1>8, <2>3 DEF Exchange
    <2>5. t.n # slackNext[t.of] => t.of \in broken
        BY <2>1 DEF GrantInv, NextToken, Presenting
    <2>6. spentTwice' \subseteq broken
        BY <1>0, <2>4, <2>5
    <2> HIDE DEF t
    <2> QED BY <1>0, <1>8, <2>1, <2>4, <2>6, ReaderMoves, StopsRefreshing
<1>9. CASE Store(r) /\ GoesIdle(r)
    <2>1. reader[r].pc = "answered" /\ UNCHANGED <<attempt, slackNext, spentTwice>>
        BY <1>9 DEF Store
    <2>2. reader'[r].pc = "idle"
        BY <1>0, <1>9, ReaderMoves
    <2>3. ~CallWith(r, reader[r].token)
        BY <1>0, <1>1, <2>2, ReaderMoves
    <2>4. grant' = Release(r, grant) /\ broken' = broken \cup {reader[r].token.of}
        BY <1>9, <2>3 DEF Store
    <2>5. reader[r].token.of \in Attempts
        BY <1>2, <2>1 DEF Presenting
    <2> QED BY <1>0, <1>9, <2>1, <2>4, <2>5, ReaderMoves, StopsRefreshing
<1> QED BY <1>3, <1>4, <1>5, <1>6, <1>7, <1>8, <1>9

\* A worker begins with the grant that is connected.
LEMMA RetrieveStep ==
    ASSUME GrantInv, NEW r \in Readers, Retrieve(r)
    PROVE  GrantInv'
<1>1. GrantTypeOK /\ GrantShape /\ ReaderShape /\ OneRefresher /\ NextToken /\ spentTwice \subseteq broken
    BY DEF GrantInv
<1>2. PICK x \in Reader : /\ x.pc = "read" /\ x.rev = grant.rev
                          /\ reader' = [reader EXCEPT ![r] = x]
    <2>1. [pc |-> "read", rev |-> grant.rev, token |-> grant.token, due |-> grant.due] \in Reader
        BY <1>1 DEF GrantTypeOK, Reader, SlackContextGrant
    <2> QED BY <2>1 DEF Retrieve
<1>3. /\ reader'[r] = x /\ \A s \in Readers \ {r} : reader'[s] = reader[s]
      /\ reader' \in [Readers -> Reader]
    BY <1>1, <1>2 DEF GrantTypeOK
<1>4. UNCHANGED <<attempt, grant, slackNext, spentTwice, broken>> /\ grant.active
    BY DEF Retrieve
<1>5. GrantTypeOK' /\ GrantShape'
    BY <1>1, <1>3, <1>4 DEF GrantTypeOK, GrantShape
<1>6. ReaderShape'
    BY <1>1, <1>2, <1>3, <1>4 DEF ReaderShape, GrantShape, Refreshing, Presenting
<1>7. OneRefresher'
    BY <1>1, <1>2, <1>3, <1>4 DEF OneRefresher, Refreshing
<1>8. reader[r].pc = "idle"
    BY DEF Retrieve
<1>9. NextToken'
    BY <1>1, <1>2, <1>3, <1>4, <1>8 DEF NextToken, Presenting
<1> QED BY <1>1, <1>4, <1>5, <1>6, <1>7, <1>9 DEF GrantInv

\* Whoever held the lease of a grant that is claimed is overtaken.
LEMMA ClaimStep ==
    ASSUME GrantInv, NEW r \in Readers, Claim(r), reader'[r].pc = "claimed"
    PROVE  GrantInv'
<1>1. GrantTypeOK /\ GrantShape /\ ReaderShape /\ OneRefresher /\ NextToken /\ spentTwice \subseteq broken
    BY DEF GrantInv
<1>2. /\ reader[r].pc = "read" /\ grant.active /\ grant.rev = reader[r].rev
      /\ grant.lease = NoGrant \/ grant.over
      /\ grant' = [grant EXCEPT !.lease = r, !.over = FALSE]
      /\ reader' = [reader EXCEPT ![r].pc = "claimed"]
      /\ broken' = IF grant.over THEN broken \cup {grant.rev} ELSE broken
      /\ UNCHANGED <<attempt, slackNext, spentTwice>>
    BY <1>1, ReaderMoves DEF Claim, Claimable
<1>3. /\ reader'[r].rev = reader[r].rev /\ \A s \in Readers \ {r} : reader'[s] = reader[s]
      /\ reader' \in [Readers -> Reader]
    BY <1>1, <1>2, ReaderMoves
<1>4. /\ grant' \in SlackContextGrant /\ grant'.active = grant.active /\ grant'.rev = grant.rev
      /\ grant'.token = grant.token /\ grant'.lease = r
    BY <1>1, <1>2 DEF GrantTypeOK, SlackContextGrant
<1>5. broken \subseteq broken' /\ broken' \subseteq Attempts
    BY <1>1, <1>2 DEF GrantTypeOK, GrantShape
<1>6. GrantTypeOK' /\ GrantShape'
    BY <1>1, <1>2, <1>3, <1>4, <1>5 DEF GrantTypeOK, GrantShape
<1>7. ReaderShape'
    BY <1>1, <1>2, <1>3, <1>4, <1>5 DEF ReaderShape, Refreshing, Presenting
\* Nobody else refreshes this grant, unless it is broken now.
<1>8. ASSUME NEW s \in Readers \ {r}, reader[s].pc \in Refreshing, reader[s].rev = grant.rev
      PROVE  grant.rev \in broken'
    <2>1. CASE grant.over
        BY <1>2, <2>1
    <2>2. CASE grant.lease = NoGrant
        <3>1. s # NoGrant
            BY GrantConstants
        <3>2. grant.rev \in broken
            BY <1>1, <1>8, <2>2, <3>1 DEF OneRefresher
        <3> QED BY <1>5, <3>2
    <2> QED BY <1>2, <2>1, <2>2
<1>9. OneRefresher'
    <2>1. ASSUME NEW s \in Readers, reader'[s].pc \in Refreshing, reader'[s].rev = grant'.rev,
                 grant'.rev \notin broken'
          PROVE  grant'.lease = s
        BY <1>3, <1>4, <1>8, <2>1
    <2>2. ASSUME NEW s \in Readers, NEW t \in Readers,
                 reader'[s].pc \in Refreshing, reader'[t].pc \in Refreshing,
                 reader'[s].rev = reader'[t].rev, reader'[s].rev \notin broken'
          PROVE  s = t
        <3>1. CASE s # r /\ t # r
            BY <1>1, <1>3, <1>5, <2>2, <3>1 DEF OneRefresher
        <3>2. CASE s = r \/ t = r
            BY <1>2, <1>3, <1>8, <2>2, <3>2
        <3> QED BY <3>1, <3>2
    <2> QED BY <2>1, <2>2 DEF OneRefresher
<1>10. NextToken'
    <2>1. \A s \in Readers : reader'[s].pc \in Presenting => s # r /\ reader'[s] = reader[s]
        BY <1>2, <1>3 DEF Presenting
    <2>2. \A s \in Readers : reader[s].pc = "answered" => reader'[s] = reader[s]
        BY <1>2, <1>3
    <2> QED BY <1>1, <1>2, <1>4, <1>5, <2>1, <2>2 DEF NextToken
<1> QED BY <1>1, <1>2, <1>5, <1>6, <1>7, <1>9, <1>10 DEF GrantInv

\* A worker that has the lease takes the stored token to be refreshed.
LEMMA RecheckStep ==
    ASSUME GrantInv, NEW r \in Readers, Recheck(r), reader'[r].pc = "asking"
    PROVE  GrantInv'
<1>1. GrantTypeOK /\ GrantShape /\ ReaderShape /\ OneRefresher /\ NextToken /\ spentTwice \subseteq broken
    BY DEF GrantInv
<1>2. grant.token \in Token /\ NoToken \in Token
    BY <1>1, GrantRecords DEF GrantTypeOK, SlackContextGrant
<1>3. /\ reader[r].pc = "claimed" /\ grant.token # NoToken /\ UNCHANGED grant
      /\ reader' = [reader EXCEPT ![r] = [@ EXCEPT !.pc = "asking", !.token = grant.token]]
      /\ broken' = IF grant.rev = reader[r].rev THEN broken ELSE broken \cup {grant.rev}
      /\ UNCHANGED <<attempt, slackNext, spentTwice>>
    <2>1. ~CallWith(r, grant.token) /\ ~GoesIdle(r)
        BY <1>1, <1>2, ReaderMoves
    <2> QED BY <2>1 DEF Recheck
<1>4. /\ reader'[r].rev = reader[r].rev /\ reader'[r].token = grant.token
      /\ \A s \in Readers \ {r} : reader'[s] = reader[s]
    BY <1>1, <1>2, <1>3, ReaderMoves DEF Presenting
<1>5. reader' \in [Readers -> Reader]
    BY <1>1, <1>2, <1>3, ReaderMoves DEF Presenting
<1>6. grant.active /\ grant.rev \in Attempts /\ attempt[grant.rev] = "closed" /\ grant.token.of = grant.rev
    BY <1>1, <1>3 DEF GrantShape
<1>7. broken \subseteq broken' /\ broken' \subseteq Attempts
    BY <1>1, <1>3, <1>6 DEF GrantTypeOK
<1>8. GrantTypeOK' /\ GrantShape'
    BY <1>1, <1>3, <1>5, <1>7 DEF GrantTypeOK, GrantShape
<1>9. ReaderShape'
    BY <1>1, <1>3, <1>4, <1>6, <1>7 DEF ReaderShape, Refreshing, Presenting
<1>10. OneRefresher'
    <2>1. \A s \in Readers : /\ reader'[s].pc \in Refreshing => reader[s].pc \in Refreshing
                             /\ reader'[s].rev = reader[s].rev
        BY <1>3, <1>4 DEF Refreshing
    <2> QED BY <1>1, <1>3, <1>7, <2>1 DEF OneRefresher
<1>11. NextToken'
    <2>1. ASSUME grant.rev \notin broken'
          PROVE  grant.token.n = slackNext[grant.rev]
        <3>1. grant.rev = reader[r].rev /\ grant.rev \notin broken
            BY <1>3, <2>1
        <3>2. ASSUME NEW s \in Readers, reader[s].pc = "answered", reader[s].token.of = grant.rev
              PROVE  FALSE
            <4>1. reader[s].rev = grant.rev
                BY <1>1, <3>1, <3>2 DEF ReaderShape, Presenting
            <4>2. s = r
                BY <1>1, <1>3, <3>1, <3>2, <4>1 DEF OneRefresher, Refreshing
            <4> QED BY <1>3, <3>2, <4>2
        <3> QED BY <1>1, <1>6, <3>1, <3>2 DEF NextToken
    <2>2. ASSUME NEW s \in Readers, reader'[s].pc \in Presenting, reader'[s].token.of \notin broken'
          PROVE  reader'[s].token.n = slackNext[reader'[s].token.of]
        <3>1. CASE s = r
            BY <1>4, <1>6, <2>1, <2>2, <3>1
        <3>2. CASE s # r
            BY <1>1, <1>4, <1>7, <2>2, <3>2 DEF NextToken
        <3> QED BY <3>1, <3>2
    <2> QED BY <1>1, <1>3, <2>1, <2>2 DEF NextToken
<1> QED BY <1>1, <1>3, <1>7, <1>8, <1>9, <1>10, <1>11 DEF GrantInv

\* Slack takes the token and issues the next; the worker has it, or it is lost.
LEMMA ExchangeStep ==
    ASSUME GrantInv, NEW r \in Readers, Exchange(r), slackNext' # slackNext
    PROVE  GrantInv'
<1>1. GrantTypeOK /\ GrantShape /\ ReaderShape /\ OneRefresher /\ NextToken /\ spentTwice \subseteq broken
    BY DEF GrantInv
<1>2. /\ reader[r].pc = "asking" /\ reader[r] \in Reader /\ reader[r].token \in Token
      /\ UNCHANGED <<attempt, spentTwice>>
    BY <1>1 DEF Exchange, GrantTypeOK, Reader
<1>3. PICK a \in Attempts : a = reader[r].token.of /\ attempt[a] = "closed"
    BY <1>1, <1>2 DEF ReaderShape, Presenting
<1>4. PICK n \in Nat : n = reader[r].token.n /\ n = slackNext[a] /\ n + 1 \in 0..MaxRefresh
    BY <1>2, <1>3, GrantConstants DEF Exchange, Token
<1>5. PICK next \in Token : next = [reader[r].token EXCEPT !.n = n + 1]
    BY <1>2, <1>4 DEF Token
<1>6. next.of = a /\ next.n = n + 1
    BY <1>2, <1>3, <1>4, <1>5 DEF Token
<1>7. /\ slackNext' = [slackNext EXCEPT ![a] = n + 1]
      /\ \/ /\ reader' = [reader EXCEPT ![r] = [@ EXCEPT !.pc = "answered", !.token = next]]
            /\ UNCHANGED <<grant, broken>>
         \/ /\ GoesIdle(r) /\ grant' = Release(r, grant)
            /\ broken' = broken \cup {a}
    BY <1>3, <1>4, <1>5 DEF Exchange
<1>8. /\ slackNext' \in [Attempts -> 0..MaxRefresh] /\ slackNext'[a] = n + 1
      /\ \A b \in Attempts \ {a} : slackNext'[b] = slackNext[b]
    BY <1>1, <1>4, <1>7 DEF GrantTypeOK
\* Nobody else presents a token of this grant, unless it is broken.
<1>9. ASSUME NEW s \in Readers \ {r}, reader[s].pc \in Presenting, reader[s].token.of = a
      PROVE  a \in broken
    <2>1. CASE reader[s].rev = a /\ reader[r].rev = a
        <3>1. reader[s].pc \in Refreshing /\ reader[r].pc \in Refreshing
            BY <1>2, <1>9 DEF Refreshing, Presenting
        <3> QED BY <1>1, <2>1, <3>1 DEF OneRefresher
    <2>2. CASE reader[s].rev # a \/ reader[r].rev # a
        BY <1>1, <1>2, <1>3, <1>9, <2>2 DEF ReaderShape, Presenting
    <2> QED BY <2>1, <2>2
<1>10. CASE /\ reader' = [reader EXCEPT ![r] = [@ EXCEPT !.pc = "answered", !.token = next]]
            /\ UNCHANGED <<grant, broken>>
    <2>1. /\ reader'[r].pc = "answered" /\ reader'[r].rev = reader[r].rev /\ reader'[r].token = next
          /\ \A s \in Readers \ {r} : reader'[s] = reader[s]
          /\ reader' \in [Readers -> Reader]
        BY <1>1, <1>10, ReaderMoves DEF Presenting
    <2>2. GrantTypeOK' /\ GrantShape'
        BY <1>1, <1>2, <1>8, <1>10, <2>1 DEF GrantTypeOK, GrantShape
    <2>3. ReaderShape'
        BY <1>1, <1>2, <1>3, <1>6, <1>10, <2>1 DEF ReaderShape, Refreshing, Presenting
    <2>4. OneRefresher'
        <3>1. \A s \in Readers : /\ reader'[s].pc \in Refreshing => reader[s].pc \in Refreshing
                                 /\ reader'[s].rev = reader[s].rev
            BY <1>2, <2>1 DEF Refreshing
        <3> QED BY <1>1, <1>10, <3>1 DEF OneRefresher
    <2>5. NextToken'
        <3>1. ASSUME NEW s \in Readers, reader'[s].pc \in Presenting, reader'[s].token.of \notin broken
              PROVE  reader'[s].token.n = slackNext'[reader'[s].token.of]
            <4>1. CASE s = r
                BY <1>6, <1>8, <2>1, <4>1
            <4>2. CASE s # r
                <5>1. reader[s].token.of # a
                    BY <1>9, <2>1, <3>1, <4>2
                <5>2. reader[s].token.of \in Attempts
                    BY <1>1, <2>1, <3>1, <4>2 DEF ReaderShape
                <5>3. slackNext'[reader[s].token.of] = slackNext[reader[s].token.of]
                    BY <1>8, <5>1, <5>2
                <5> QED BY <1>1, <2>1, <3>1, <4>2, <5>3 DEF NextToken
            <4> QED BY <4>1, <4>2
        <3>2. ASSUME grant.active, grant.rev \notin broken
              PROVE  \/ grant.token.n = slackNext'[grant.rev]
                     \/ \E s \in Readers : reader'[s].pc = "answered" /\ reader'[s].token.of = grant.rev
            <4>1. CASE grant.rev = a
                BY <1>6, <2>1, <4>1
            <4>2. CASE grant.rev # a
                <5>1. slackNext'[grant.rev] = slackNext[grant.rev]
                    BY <1>1, <1>8, <3>2, <4>2 DEF GrantShape
                <5>2. \A s \in Readers : reader[s].pc = "answered" => reader'[s] = reader[s]
                    BY <1>2, <2>1
                <5> QED BY <1>1, <3>2, <5>1, <5>2 DEF NextToken
            <4> QED BY <4>1, <4>2
        <3>3. \A b \in Attempts : attempt[b] # "closed" => slackNext'[b] = 0
            BY <1>1, <1>3, <1>8 DEF NextToken
        <3> QED BY <1>2, <1>10, <3>1, <3>2, <3>3 DEF NextToken
    <2> QED BY <1>1, <1>2, <1>10, <2>2, <2>3, <2>4, <2>5 DEF GrantInv
<1>11. CASE GoesIdle(r) /\ grant' = Release(r, grant) /\ broken' = broken \cup {a}
    <2>1. /\ reader'[r].pc = "idle" /\ \A s \in Readers \ {r} : reader'[s] = reader[s]
          /\ reader' \in [Readers -> Reader]
        BY <1>1, <1>11, ReaderMoves
    <2>2. /\ grant' \in SlackContextGrant /\ grant'.active = grant.active /\ grant'.rev = grant.rev
          /\ grant'.token = grant.token
          /\ grant'.lease = IF grant.lease = r THEN NoGrant ELSE grant.lease
        BY <1>1, <1>11, GrantRecords DEF GrantTypeOK
    <2>3. GrantTypeOK' /\ GrantShape'
        BY <1>1, <1>2, <1>8, <1>11, <2>1, <2>2 DEF GrantTypeOK, GrantShape
    <2>4. ReaderShape'
        BY <1>1, <1>2, <1>11, <2>1, <2>2 DEF ReaderShape, Refreshing, Presenting
    <2>5. OneRefresher'
        <3>1. \A s \in Readers : reader'[s].pc \in Refreshing => s # r /\ reader'[s] = reader[s]
            BY <2>1 DEF Refreshing
        <3>2. ASSUME NEW s \in Readers, reader'[s].pc \in Refreshing, reader'[s].rev = grant'.rev,
                     grant'.rev \notin broken'
              PROVE  grant'.lease = s
            <4>1. s # r /\ grant.lease = s
                BY <1>1, <1>11, <2>2, <3>1, <3>2 DEF OneRefresher
            <4> QED BY <2>2, <4>1
        <3> QED BY <1>1, <1>11, <3>1, <3>2 DEF OneRefresher
    <2>6. NextToken'
        <3>1. \A b \in Attempts : b \notin broken' => slackNext'[b] = slackNext[b]
            BY <1>8, <1>11
        <3>2. ASSUME NEW s \in Readers, reader'[s].pc \in Presenting, reader'[s].token.of \notin broken'
              PROVE  reader'[s].token.n = slackNext'[reader'[s].token.of]
            <4>1. s # r
                BY <2>1, <3>2 DEF Presenting
            <4>2. reader[s].token.of \in Attempts
                BY <1>1, <2>1, <3>2, <4>1 DEF ReaderShape
            <4> QED BY <1>1, <1>11, <2>1, <3>1, <3>2, <4>1, <4>2 DEF NextToken
        <3>3. ASSUME grant.active, grant.rev \notin broken'
              PROVE  \/ grant.token.n = slackNext'[grant.rev]
                     \/ \E s \in Readers : reader'[s].pc = "answered" /\ reader'[s].token.of = grant.rev
            <4>1. slackNext'[grant.rev] = slackNext[grant.rev]
                BY <1>1, <3>1, <3>3 DEF GrantShape
            <4>2. \A s \in Readers : reader[s].pc = "answered" => reader'[s] = reader[s]
                BY <1>2, <2>1
            <4> QED BY <1>1, <1>11, <3>3, <4>1, <4>2 DEF NextToken
        <3>4. \A b \in Attempts : attempt[b] # "closed" => slackNext'[b] = 0
            BY <1>1, <1>3, <1>8 DEF NextToken
        <3> QED BY <1>2, <2>2, <3>2, <3>3, <3>4 DEF NextToken
    <2> QED BY <1>1, <1>2, <1>11, <2>3, <2>4, <2>5, <2>6 DEF GrantInv
<1> QED BY <1>7, <1>10, <1>11

\* The new token is stored under the lease.
LEMMA StoreStep ==
    ASSUME GrantInv, NEW r \in Readers, Store(r), ~GoesIdle(r)
    PROVE  GrantInv'
<1>1. GrantTypeOK /\ GrantShape /\ ReaderShape /\ OneRefresher /\ NextToken /\ spentTwice \subseteq broken
    BY DEF GrantInv
<1>2. PICK t \in Token : t = reader[r].token
    BY <1>1 DEF GrantTypeOK, Reader
<1>3. /\ reader[r].pc = "answered" /\ grant.active /\ grant.rev = reader[r].rev /\ grant.lease = r
      /\ grant' = Release(r, [grant EXCEPT !.token = t, !.due = FALSE])
      /\ CallWith(r, t) /\ UNCHANGED <<broken, attempt, slackNext, spentTwice>>
    BY <1>2 DEF Store, Storable
<1>4. /\ reader'[r].pc = "calling" /\ \A s \in Readers \ {r} : reader'[s] = reader[s]
      /\ reader' \in [Readers -> Reader]
    BY <1>1, <1>3, ReaderMoves
<1>5. /\ grant' \in SlackContextGrant /\ grant'.active = grant.active /\ grant'.rev = grant.rev
      /\ grant'.token = t
    <2> DEFINE g == [grant EXCEPT !.token = t, !.due = FALSE]
    <2>1. g \in SlackContextGrant /\ g.active = grant.active /\ g.rev = grant.rev /\ g.token = t
        BY <1>1 DEF GrantTypeOK, SlackContextGrant
    <2>2. grant' = Release(r, g)
        BY <1>3
    <2> HIDE DEF g
    <2> QED BY <2>1, <2>2, GrantRecords
<1>6. t.of = grant.rev
    BY <1>1, <1>2, <1>3 DEF ReaderShape, Presenting
<1>7. GrantTypeOK' /\ GrantShape'
    BY <1>1, <1>3, <1>4, <1>5, <1>6 DEF GrantTypeOK, GrantShape
<1>8. ReaderShape'
    BY <1>1, <1>3, <1>4, <1>5 DEF ReaderShape, Refreshing, Presenting
<1>9. OneRefresher'
    <2>1. \A s \in Readers : reader'[s].pc \in Refreshing => s # r /\ reader'[s] = reader[s]
        BY <1>4 DEF Refreshing
    <2>2. ASSUME NEW s \in Readers, reader'[s].pc \in Refreshing, reader'[s].rev = grant'.rev,
                 grant'.rev \notin broken'
          PROVE  grant'.lease = s
        <3>1. s # r /\ grant.lease = s
            BY <1>1, <1>3, <1>5, <2>1, <2>2 DEF OneRefresher
        <3> QED BY <1>3, <3>1
    <2> QED BY <1>1, <1>3, <2>1, <2>2 DEF OneRefresher
<1>10. NextToken'
    <2>1. \A s \in Readers : reader'[s].pc \in Presenting => reader'[s] = reader[s]
        BY <1>4 DEF Presenting
    <2>2. grant.rev \notin broken => t.n = slackNext[grant.rev]
        BY <1>1, <1>2, <1>3, <1>6 DEF NextToken, Presenting
    <2>3. \A s \in Readers : reader'[s].pc \in Presenting /\ reader'[s].token.of \notin broken
            => reader'[s].token.n = slackNext[reader'[s].token.of]
        BY <1>1, <2>1 DEF NextToken
    <2> QED BY <1>1, <1>3, <1>5, <2>2, <2>3 DEF NextToken
<1> QED BY <1>1, <1>3, <1>7, <1>8, <1>9, <1>10 DEF GrantInv

\* A grant that is new has no worker yet, and its first token is the next to take.
LEMMA GrantSteps ==
    ASSUME GrantInv, NEW a \in Attempts, GrantStep(a)
    PROVE  GrantInv'
<1>1. GrantTypeOK /\ GrantShape /\ ReaderShape /\ OneRefresher /\ NextToken /\ spentTwice \subseteq broken
    BY DEF GrantInv
<1>2. UNCHANGED <<reader, slackNext, spentTwice, broken>>
    BY DEF GrantStep, Authorize, Consume, CallbackRevokes, CallbackStores
<1>3. /\ attempt[a] # "closed" /\ attempt' \in [Attempts -> SlackOAuthAttempt]
      /\ \A b \in Attempts \ {a} : attempt'[b] = attempt[b]
    BY <1>1 DEF GrantStep, Authorize, Consume, CallbackRevokes, CallbackStores,
                GrantTypeOK, SlackOAuthAttempt
<1>4. \A b \in Attempts : attempt[b] = "closed" => attempt'[b] = "closed"
    BY <1>3
<1>5. ReaderShape /\ \A r \in Readers :
          /\ reader[r].pc \in {"read"} \cup Refreshing => reader[r].rev # a
          /\ reader[r].pc \in Presenting => reader[r].token.of # a
    BY <1>1, <1>3 DEF ReaderShape
<1>6. \/ grant' = grant
      \/ grant'.active = FALSE /\ grant'.token = NoToken /\ grant'.rev = NoGrant
      \/ grant'.active /\ grant'.rev = a /\ grant'.token.of = a /\ grant'.token.n = 0
         /\ attempt'[a] = "closed"
    <2>1. CASE Authorize(a) \/ Consume(a)
        BY <2>1 DEF Authorize, Consume
    <2>2. CASE CallbackRevokes(a)
        BY <1>1, <2>2, GrantRecords DEF CallbackRevokes, GrantTypeOK
    <2>3. CASE CallbackStores(a)
        BY <1>1, <2>3 DEF CallbackStores, GrantTypeOK, SlackContextGrant
    <2> QED BY <2>1, <2>2, <2>3 DEF GrantStep
<1>7. grant' \in SlackContextGrant
    <2>1. CASE Authorize(a) \/ Consume(a)
        BY <1>1, <2>1 DEF Authorize, Consume, GrantTypeOK
    <2>2. CASE CallbackRevokes(a)
        BY <1>1, <2>2, GrantRecords DEF CallbackRevokes, GrantTypeOK
    <2>3. CASE CallbackStores(a)
        <3>1. [of |-> a, n |-> 0] \in Token
            BY GrantConstants DEF Token
        <3> QED BY <1>1, <2>3, <3>1 DEF CallbackStores, GrantTypeOK, SlackContextGrant
    <2> QED BY <2>1, <2>2, <2>3 DEF GrantStep
<1>8. GrantTypeOK'
    BY <1>1, <1>2, <1>3, <1>7 DEF GrantTypeOK
<1>9. GrantShape'
    BY <1>1, <1>4, <1>6 DEF GrantShape
<1>10. NoGrant \notin Attempts
    BY GrantConstants
<1>11. ReaderShape'
    BY <1>2, <1>4, <1>5, <1>6, <1>10 DEF ReaderShape, Refreshing, Presenting
<1>12. OneRefresher'
    BY <1>1, <1>2, <1>5, <1>6, <1>10 DEF OneRefresher, ReaderShape
<1>13. NextToken'
    <2>1. slackNext[a] = 0
        BY <1>1, <1>3 DEF NextToken
    <2>2. \A b \in Attempts : attempt'[b] # "closed" => slackNext'[b] = 0
        BY <1>1, <1>2, <1>4 DEF NextToken
    <2> QED BY <1>1, <1>2, <1>6, <2>1, <2>2 DEF NextToken
<1> QED BY <1>1, <1>2, <1>8, <1>9, <1>11, <1>12, <1>13 DEF GrantInv

\* Disconnecting and the clock: no other grant or token is stored.
LEMMA RowSteps ==
    ASSUME GrantInv, Disconnect \/ TokenDue \/ LeaseOver
    PROVE  GrantInv'
<1>1. GrantTypeOK /\ GrantShape /\ ReaderShape /\ OneRefresher /\ NextToken /\ spentTwice \subseteq broken
    BY DEF GrantInv
<1>2. UNCHANGED <<attempt, reader, slackNext, spentTwice, broken>>
    BY DEF Disconnect, TokenDue, LeaseOver
<1>3. /\ grant' \in SlackContextGrant
      /\ \/ grant'.active = FALSE /\ grant'.token = NoToken /\ grant'.rev = NoGrant
         \/ /\ grant'.active = grant.active /\ grant'.rev = grant.rev
            /\ grant'.token = grant.token /\ grant'.lease = grant.lease
    <2>1. CASE Disconnect
        BY <1>1, <2>1, GrantRecords DEF Disconnect, GrantTypeOK
    <2>2. CASE TokenDue
        BY <1>1, <2>2 DEF TokenDue, GrantTypeOK, SlackContextGrant
    <2>3. CASE LeaseOver
        BY <1>1, <2>3 DEF LeaseOver, GrantTypeOK, SlackContextGrant
    <2> QED BY <2>1, <2>2, <2>3
<1>4. NoGrant \notin Attempts
    BY GrantConstants
<1>5. GrantTypeOK' /\ GrantShape'
    BY <1>1, <1>2, <1>3 DEF GrantTypeOK, GrantShape
<1>6. ReaderShape'
    BY <1>1, <1>2, <1>3, <1>4 DEF ReaderShape, Refreshing, Presenting
<1>7. OneRefresher'
    BY <1>1, <1>2, <1>3, <1>4 DEF OneRefresher, ReaderShape, Refreshing
<1>8. NextToken'
    BY <1>1, <1>2, <1>3 DEF NextToken
<1> QED BY <1>1, <1>2, <1>5, <1>6, <1>7, <1>8 DEF GrantInv

LEMMA GrantStarts ==
    ASSUME GrantInit
    PROVE  GrantInv
<1>1. NoRow.active = FALSE /\ NoRow.token = NoToken /\ NoRow.rev = NoGrant /\ IdleReader.pc = "idle"
    BY DEF NoRow, IdleReader
<1>2. GrantTypeOK
    BY GrantRecords, GrantConstants DEF GrantInit, GrantTypeOK, SlackOAuthAttempt
<1>3. \A r \in Readers : reader[r].pc = "idle"
    BY <1>1 DEF GrantInit
<1>4. grant.active = FALSE /\ grant.token = NoToken /\ grant.rev = NoGrant
    BY <1>1 DEF GrantInit
<1>5. \A a \in Attempts : slackNext[a] = 0
    BY DEF GrantInit
<1> QED BY <1>2, <1>3, <1>4, <1>5 DEF GrantInv, GrantInit, GrantShape, ReaderShape, OneRefresher,
                                    NextToken, Refreshing, Presenting

LEMMA GrantMoves ==
    ASSUME GrantInv, GrantNext
    PROVE  GrantInv'
<1>1. CASE \E a \in Attempts : GrantStep(a)
    BY <1>1, GrantSteps
<1>2. CASE Disconnect \/ TokenDue \/ LeaseOver
    BY <1>2, RowSteps
<1>3. ASSUME NEW r \in Readers, ReaderStep(r)
      PROVE  GrantInv'
    <2>1. CASE Retrieve(r)
        BY <2>1, RetrieveStep
    <2>2. CASE Claim(r) /\ ~GoesIdle(r)
        <3>1. reader' = [reader EXCEPT ![r].pc = "claimed"]
            BY <2>2 DEF Claim
        <3> QED BY <2>2, <3>1, ReaderMoves, ClaimStep DEF GrantInv
    <2>3. CASE Recheck(r) /\ reader'[r].pc = "asking"
        BY <2>3, RecheckStep
    <2>4. CASE Exchange(r) /\ slackNext' # slackNext
        BY <2>4, ExchangeStep
    <2>5. CASE Store(r) /\ ~GoesIdle(r)
        BY <2>5, StoreStep
    <2> QED BY <1>3, <2>1, <2>2, <2>3, <2>4, <2>5, StopSteps DEF ReaderStep
<1> QED BY <1>1, <1>2, <1>3 DEF GrantNext, GrantStep, ReaderStep

LEMMA GrantStutters ==
    ASSUME GrantInv, UNCHANGED grantVars
    PROVE  GrantInv'
BY DEF grantVars, GrantInv, GrantTypeOK, GrantShape, ReaderShape, OneRefresher, NextToken

\* The stored token is always of the connected grant, and none of its refresh
\* tokens is presented twice, unless one was lost, outran its lease, or was begun
\* with a grant that was replaced (OneLineage).
THEOREM GrantLineage == Spec => []OneLineage
<1>1. Init => GrantInv
    BY GrantStarts DEF Init
<1>2. GrantInv /\ [Next]_<<part, scene, callVars, connVars, grantVars, ghlVars, boardVars>> => GrantInv'
    BY GrantMoves, GrantStutters DEF Next
<1>3. GrantInv => OneLineage
    BY DEF GrantInv, GrantShape, OneLineage
<1> QED BY <1>1, <1>2, <1>3, PTL DEF Spec

(* ------------------------- Fireflies calls ----------------------------- *)

\* A run that knows its client, and one whose call is analysed.
PastFetch == {"resolved", "emit", "post", "save"}
FannedOut == {"emit", "post", "save"}

\* A run that fans out has a client, and one that posts a target to post to.
RunShape ==
    \A d \in Deliveries :
        /\ run[d].pc \in FannedOut => run[d].client # NoClient
        /\ run[d].pc \in {"post", "save"} => run[d].at # Len(FanOut) + 1

\* Runs of a call that did not overlap are one at a time ...
OneAtWork ==
    \A d, e \in Deliveries :
        Alive(d) /\ Alive(e) /\ run[d].call = run[e].call /\ run[d].call \notin overlap => d = e

\* ... and the row then says how far the run is.
RunOwnsRow ==
    \A d \in Deliveries : run[d].call \notin overlap =>
        /\ run[d].pc = "fetch" => insight[run[d].call].status \in {"none", "pending", "failed"}
        /\ run[d].pc = "resolved" => insight[run[d].call].status = "processing"
        /\ run[d].pc \in FannedOut => insight[run[d].call].status = "analyzed"
        /\ run[d].pc \in PastFetch => insight[run[d].call].client = run[d].client

\* The run is through with the jth target, but for saving its event.
Through(d, j) == j < run[d].at \/ (j = run[d].at /\ run[d].pc = "save")

\* What was posted is of the run at work, for a target it is through with; a
\* call that has posts is never taken again.
PostsOfRun ==
    \A p \in posts : p.call \notin overlap =>
        /\ insight[p.call].status \in {"analyzed", "distributed"}
        /\ insight[p.call].client = p.client
        /\ \A d \in Deliveries : Alive(d) /\ run[d].call = p.call =>
               p.by = d /\ \E j \in 1..Len(FanOut) : Through(d, j) /\ p.target = FanOut[j]

OnePost ==
    \A p, q \in posts : p.call = q.call /\ p.target = q.target /\ p.call \notin overlap => p = q

\* A call in between has a run that is past its fetch, so the end of a run that
\* is not (another one was quicker) leaves it that run.
InBetween ==
    \A c \in Calls \ lost : insight[c].status \in {"processing", "analyzed"} =>
        \E d \in Deliveries : run[d].pc \in PastFetch /\ run[d].call = c

CallInv == /\ CallTypeOK /\ RunShape /\ OneAtWork /\ RunOwnsRow /\ PostsOfRun /\ OnePost
           /\ InBetween

LEMMA FanOutIs ==
    /\ Len(FanOut) \in Nat
    /\ \A i \in 1..Len(FanOut) : FanOut[i] \in Targets
    /\ \A i, j \in 1..Len(FanOut) : FanOut[i] = FanOut[j] => i = j
BY CallConstants

\* What a run's step does to the table of runs.
LEMMA RunMoves ==
    ASSUME CallTypeOK, NEW d \in Deliveries
    PROVE  /\ run \in [Deliveries -> Run] /\ run[d] \in Run /\ run[d].call \in Calls
           /\ \A x \in Run : run' = [run EXCEPT ![d] = x] =>
                 /\ run' \in [Deliveries -> Run] /\ run'[d] = x
                 /\ \A e \in Deliveries \ {d} : run'[e] = run[e]
           /\ Ends(d) =>
                 /\ run' \in [Deliveries -> Run]
                 /\ run'[d].pc = "done" /\ run'[d].call = run[d].call
                 /\ \A e \in Deliveries \ {d} : run'[e] = run[e]
<1>1. run \in [Deliveries -> Run] /\ run[d] \in Run
    BY DEF CallTypeOK
<1>2. run[d].call \in Calls
    BY <1>1 DEF Run
<1>3. \A x \in Run : run' = [run EXCEPT ![d] = x] =>
          /\ run' \in [Deliveries -> Run] /\ run'[d] = x
          /\ \A e \in Deliveries \ {d} : run'[e] = run[e]
    BY <1>1
<1> DEFINE x == [NewRun(run[d].call) EXCEPT !.pc = "done"]
<1>4. x \in Run /\ x.pc = "done" /\ x.call = run[d].call
    <2>1. NoInsight \in CallInsight
        BY DEF NoInsight, CallInsight, CallStatus
    <2>2. NewRun(run[d].call) \in Run /\ NewRun(run[d].call).call = run[d].call
        BY <1>2, <2>1, FanOutIs DEF Run, NewRun
    <2> QED BY <2>2 DEF Run
<1>5. Ends(d) => run' = [run EXCEPT ![d] = x]
    BY <1>1 DEF Ends
<1> HIDE DEF x
<1> QED BY <1>1, <1>2, <1>3, <1>4, <1>5

\* A run ends, or what is not at work moves. It leaves the call in between only
\* if it dies or has done nothing yet.
LEMMA RunEnds ==
    ASSUME CallInv, NEW d \in Deliveries, UNCHANGED <<posts, overlap>>,
           run' \in [Deliveries -> Run], run'[d].call = run[d].call,
           run'[d].pc \in {"queued", "done"},
           \A e \in Deliveries \ {d} : run'[e] = run[e],
           event' \in [Calls -> [Targets -> IntegrationEvent]],
           retraction' \subseteq [call : Calls, target : Targets],
           insight' \in [Calls -> CallInsight],
           \A c \in Calls \ {run[d].call} : insight'[c] = insight[c],
           insight'[run[d].call] # insight[run[d].call] =>
               /\ Alive(d)
               /\ insight'[run[d].call].status \notin {"processing", "analyzed"}
               /\ \/ run[d].pc \in {"fetch", "resolved"}
                  \/ /\ insight'[run[d].call].status = "distributed"
                     /\ insight'[run[d].call].client = insight[run[d].call].client,
           run[d].pc \in PastFetch /\ insight'[run[d].call].status \in {"processing", "analyzed"}
               => run[d].call \in lost',
           lost \subseteq lost', lost' \subseteq Calls, deaths' \in 0..Deaths
    PROVE  CallInv'
<1>1. /\ CallTypeOK /\ RunShape /\ OneAtWork /\ RunOwnsRow /\ PostsOfRun /\ OnePost
      /\ InBetween /\ run[d].call \in Calls
    BY RunMoves DEF CallInv
<1>2. CallTypeOK'
    BY <1>1 DEF CallTypeOK
<1>3. \A e \in Deliveries : run'[e].pc \notin {"idle", "queued", "done"} =>
          e # d /\ run'[e] = run[e]
    OBVIOUS
<1>4. RunShape'
    BY <1>1, <1>3 DEF RunShape, FannedOut
<1>5. OneAtWork'
    BY <1>1, <1>3 DEF OneAtWork, Alive
\* A row that changes has no other run at work.
<1>6. ASSUME NEW e \in Deliveries, run'[e].pc \notin {"idle", "queued", "done"},
             run[e].call \notin overlap
      PROVE  insight'[run[e].call] = insight[run[e].call] /\ run[e].call \in Calls
    <2>1. e # d /\ run'[e] = run[e] /\ Alive(e) /\ run[e].call \in Calls
        BY <1>1, <1>3, <1>6, RunMoves DEF Alive
    <2>2. CASE run[e].call = run[d].call
        <3>1. ~Alive(d)
            BY <1>1, <1>6, <2>1, <2>2 DEF OneAtWork
        <3> QED BY <2>1, <2>2, <3>1
    <2> QED BY <2>1, <2>2
<1>7. RunOwnsRow'
    BY <1>1, <1>3, <1>6 DEF RunOwnsRow, FannedOut, PastFetch
<1>8. PostsOfRun'
    <2>1. ASSUME NEW p \in posts, p.call \notin overlap
          PROVE  /\ insight'[p.call].status \in {"analyzed", "distributed"}
                 /\ insight'[p.call].client = p.client
        <3>1. insight[p.call].status \in {"analyzed", "distributed"}
              /\ insight[p.call].client = p.client /\ p.call \in Calls
            BY <1>1, <2>1 DEF PostsOfRun, CallTypeOK, Post
        <3>2. p.call = run[d].call => run[d].pc \notin {"fetch", "resolved"}
            BY <1>1, <2>1, <3>1 DEF RunOwnsRow
        <3> QED BY <3>1, <3>2
    <2>2. ASSUME NEW p \in posts, p.call \notin overlap,
                 NEW e \in Deliveries, Alive(e)', run'[e].call = p.call
          PROVE  p.by = e /\ \E j \in 1..Len(FanOut) : Through(e, j)' /\ p.target = FanOut[j]
        BY <1>1, <1>3, <2>2 DEF PostsOfRun, Alive, Through
    <2> QED BY <2>1, <2>2 DEF PostsOfRun
<1>9. OnePost'
    BY <1>1 DEF OnePost
<1>10. InBetween'
    <2>1. ASSUME NEW c \in Calls, c \notin lost', insight'[c].status \in {"processing", "analyzed"}
          PROVE  \E e \in Deliveries : run'[e].pc \in PastFetch /\ run'[e].call = c
        <3>1. insight'[c] = insight[c]
            BY <2>1
        <3>2. PICK e \in Deliveries : run[e].pc \in PastFetch /\ run[e].call = c
            BY <1>1, <2>1, <3>1 DEF InBetween
        <3>3. e # d
            BY <2>1, <3>1, <3>2
        <3> QED BY <3>2, <3>3
    <2> QED BY <2>1 DEF InBetween
<1> QED BY <1>2, <1>4, <1>5, <1>7, <1>8, <1>9, <1>10 DEF CallInv

\* A run that fans out goes on: nothing is posted, and nothing done is forgotten.
LEMMA RunGoesOn ==
    ASSUME CallInv, NEW d \in Deliveries,
           UNCHANGED <<insight, retraction, posts, overlap, lost, deaths>>,
           run' \in [Deliveries -> Run], \A e \in Deliveries \ {d} : run'[e] = run[e],
           run[d].pc \in FannedOut, run'[d].pc \in FannedOut,
           run'[d].call = run[d].call, run'[d].client = run[d].client,
           run'[d].pc \in {"post", "save"} => run'[d].at # Len(FanOut) + 1,
           \A j \in 1..Len(FanOut) : Through(d, j) => Through(d, j)',
           event' \in [Calls -> [Targets -> IntegrationEvent]]
    PROVE  CallInv'
<1>1. /\ CallTypeOK /\ RunShape /\ OneAtWork /\ RunOwnsRow /\ PostsOfRun /\ OnePost
      /\ InBetween /\ run[d].call \in Calls
    BY RunMoves DEF CallInv
<1>2. CallTypeOK'
    BY <1>1 DEF CallTypeOK
<1>3. RunShape'
    BY <1>1 DEF RunShape
<1>4. \A e \in Deliveries : /\ run'[e].call = run[e].call /\ (Alive(e)' => Alive(e))
                            /\ run[e].pc \in PastFetch => run'[e].pc \in PastFetch
    BY DEF Alive, FannedOut, PastFetch
<1>5. OneAtWork'
    BY <1>1, <1>4 DEF OneAtWork
<1>6. RunOwnsRow'
    BY <1>1 DEF RunOwnsRow, FannedOut, PastFetch
<1>7. PostsOfRun'
    <2>1. ASSUME NEW p \in posts, p.call \notin overlap,
                 NEW e \in Deliveries, Alive(e)', run'[e].call = p.call
          PROVE  p.by = e /\ \E j \in 1..Len(FanOut) : Through(e, j)' /\ p.target = FanOut[j]
        <3>1. PICK j \in 1..Len(FanOut) : p.by = e /\ Through(e, j) /\ p.target = FanOut[j]
            BY <1>1, <1>4, <2>1 DEF PostsOfRun
        <3>2. CASE e = d
            BY <3>1, <3>2
        <3>3. CASE e # d
            BY <3>1, <3>3 DEF Through
        <3> QED BY <3>2, <3>3
    <2> QED BY <1>1, <2>1 DEF PostsOfRun
<1>8. OnePost'
    BY <1>1 DEF OnePost
<1>9. InBetween'
    BY <1>1, <1>4 DEF InBetween
<1> QED BY <1>2, <1>3, <1>5, <1>6, <1>7, <1>8, <1>9 DEF CallInv

\* What a row of the call or of an event becomes.
LEMMA RowsKept ==
    ASSUME CallTypeOK, NEW c \in Calls
    PROVE  /\ insight[c] \in CallInsight
           /\ \A i \in CallInsight : insight' = [insight EXCEPT ![c] = i] =>
                 /\ insight' \in [Calls -> CallInsight] /\ insight'[c] = i
                 /\ \A b \in Calls \ {c} : insight'[b] = insight[b]
           /\ \A s \in CallStatus : SetStatus(c, s) =>
                 /\ insight' \in [Calls -> CallInsight]
                 /\ insight'[c].status = s /\ insight'[c].client = insight[c].client
                 /\ \A b \in Calls \ {c} : insight'[b] = insight[b]
<1>1. insight \in [Calls -> CallInsight] /\ insight[c] \in CallInsight
    BY DEF CallTypeOK
<1>2. \A i \in CallInsight : insight' = [insight EXCEPT ![c] = i] =>
          /\ insight' \in [Calls -> CallInsight] /\ insight'[c] = i
          /\ \A b \in Calls \ {c} : insight'[b] = insight[b]
    BY <1>1
<1>3. ASSUME NEW s \in CallStatus, SetStatus(c, s)
      PROVE  /\ insight' \in [Calls -> CallInsight]
             /\ insight'[c].status = s /\ insight'[c].client = insight[c].client
             /\ \A b \in Calls \ {c} : insight'[b] = insight[b]
    <2> DEFINE i == [insight[c] EXCEPT !.status = s]
    <2>1. i \in CallInsight /\ i.status = s /\ i.client = insight[c].client
        BY <1>1 DEF CallInsight
    <2>2. insight' = [insight EXCEPT ![c] = i]
        BY <1>1, <1>3 DEF SetStatus
    <2> HIDE DEF i
    <2> QED BY <1>1, <2>1, <2>2
<1> QED BY <1>1, <1>2, <1>3

LEMMA EventsKept ==
    ASSUME CallTypeOK, NEW c \in Calls, NEW t \in Targets
    PROVE  /\ event[c][t] \in IntegrationEvent
           /\ \A e \in IntegrationEvent : [event EXCEPT ![c][t] = e]
                                             \in [Calls -> [Targets -> IntegrationEvent]]
           /\ \A s \in EventStatus : SetEvent(c, t, s) =>
                                       event' \in [Calls -> [Targets -> IntegrationEvent]]
<1>1. event \in [Calls -> [Targets -> IntegrationEvent]] /\ event[c][t] \in IntegrationEvent
    BY DEF CallTypeOK
<1>2. ASSUME NEW e \in IntegrationEvent
      PROVE  [event EXCEPT ![c][t] = e] \in [Calls -> [Targets -> IntegrationEvent]]
    BY <1>1
<1>3. ASSUME NEW s \in EventStatus, SetEvent(c, t, s)
      PROVE  event' \in [Calls -> [Targets -> IntegrationEvent]]
    <2>1. [event[c][t] EXCEPT !.status = s] \in IntegrationEvent
        BY <1>1 DEF IntegrationEvent
    <2> QED BY <1>1, <1>3, <2>1 DEF SetEvent
<1> QED BY <1>1, <1>2, <1>3

\* The steps that end a run, or are not of a run at work.
LEMMA EndingSteps ==
    ASSUME CallInv, NEW d \in Deliveries,
           \/ FirefliesWebhook(d) \/ FetchFails(d) \/ Unattributed(d)
           \/ GuardrailRaises(d) \/ Distributed(d) \/ WorkerDies(d)
           \/ \E settings \in AutomationSettings : Start(d, settings) /\ Ends(d)
           \/ Analyze(d) /\ Ends(d)
    PROVE  CallInv'
<1>1. /\ CallTypeOK /\ RunShape /\ RunOwnsRow /\ run[d] \in Run
      /\ run[d].call \in Calls
    BY RunMoves DEF CallInv
<1>2. /\ event \in [Calls -> [Targets -> IntegrationEvent]]
      /\ retraction \subseteq [call : Calls, target : Targets]
      /\ insight \in [Calls -> CallInsight] /\ lost \subseteq Calls /\ deaths \in 0..Deaths
      /\ Deaths \in Nat
    BY <1>1, CallConstants DEF CallTypeOK
<1>3. CASE FirefliesWebhook(d)
    <2> DEFINE x == [run[d] EXCEPT !.pc = "queued"]
    <2>1. x \in Run /\ x.pc = "queued" /\ x.call = run[d].call
        BY <1>1 DEF Run
    <2>2. run' = [run EXCEPT ![d] = x]
        BY <1>1, <1>3 DEF FirefliesWebhook, To, CallTypeOK
    <2> HIDE DEF x
    <2>3. run[d].pc \notin PastFetch
        BY <1>3 DEF FirefliesWebhook, PastFetch
    <2> QED BY <1>1, <1>2, <1>3, <2>1, <2>2, <2>3, RunMoves, RunEnds DEF FirefliesWebhook
<1>4. CASE FetchFails(d)
    <2> DEFINE i == [run[d].old EXCEPT !.status = "failed"]
    <2>1. i \in CallInsight /\ i.status = "failed"
        BY <1>1 DEF Run, CallInsight, CallStatus
    <2>2. /\ Ends(d) /\ run[d].pc = "fetch" /\ insight' \in {insight, [insight EXCEPT ![run[d].call] = i]}
          /\ UNCHANGED <<event, retraction, posts, overlap, lost, deaths>>
        BY <1>4 DEF FetchFails
    <2> HIDE DEF i
    <2>3. /\ insight' \in [Calls -> CallInsight]
          /\ \A c \in Calls \ {run[d].call} : insight'[c] = insight[c]
          /\ insight'[run[d].call] # insight[run[d].call] => insight'[run[d].call].status = "failed"
        BY <1>1, <1>2, <2>1, <2>2, RowsKept
    <2> QED BY <1>1, <1>2, <2>2, <2>3, RunMoves, RunEnds DEF Alive, PastFetch
<1>5. CASE Unattributed(d)
    <2>1. /\ insight' \in [Calls -> CallInsight] /\ insight'[run[d].call].status = "skipped"
          /\ \A c \in Calls \ {run[d].call} : insight'[c] = insight[c]
        BY <1>1, <1>5, RowsKept DEF Unattributed, CallStatus
    <2>2. Ends(d) /\ run[d].pc = "resolved" /\ UNCHANGED <<event, retraction, posts, overlap, lost, deaths>>
        BY <1>5 DEF Unattributed
    <2> QED BY <1>1, <1>2, <2>1, <2>2, RunMoves, RunEnds DEF Alive, PastFetch
<1>6. CASE GuardrailRaises(d) \/ WorkerDies(d)
    <2>1. /\ Ends(d) /\ lost' = lost \cup {run[d].call} /\ deaths' \in 0..Deaths
          /\ UNCHANGED <<insight, event, retraction, posts, overlap>>
        BY <1>2, <1>6 DEF GuardrailRaises, WorkerDies
    <2> QED BY <1>1, <1>2, <2>1, RunMoves, RunEnds
<1>7. CASE Distributed(d)
    <2>1. /\ insight' \in [Calls -> CallInsight] /\ insight'[run[d].call].status = "distributed"
          /\ insight'[run[d].call].client = insight[run[d].call].client
          /\ \A c \in Calls \ {run[d].call} : insight'[c] = insight[c]
        BY <1>1, <1>7, RowsKept DEF Distributed, CallStatus
    <2>2. Ends(d) /\ run[d].pc = "emit" /\ UNCHANGED <<event, retraction, posts, overlap, lost, deaths>>
        BY <1>7 DEF Distributed
    <2> QED BY <1>1, <1>2, <2>1, <2>2, RunMoves, RunEnds DEF Alive, PastFetch
<1>8. ASSUME NEW settings \in AutomationSettings, Start(d, settings), Ends(d)
      PROVE  CallInv'
    <2>1. run'[d].pc = "done"
        BY <1>1, <1>8, RunMoves
    <2> DEFINE x == [run[d] EXCEPT !.pc = "fetch", !.old = insight[run[d].call],
                                   !.external = settings.external]
    <2>2. x \in Run /\ x.pc = "fetch"
        BY <1>1, <1>2 DEF Run, AutomationSettings
    <2>3. run' # [run EXCEPT ![d] = x]
        BY <1>1, <2>1, <2>2, RunMoves
    <2>4. run[d].pc = "queued" /\ UNCHANGED <<insight, event, retraction, posts, overlap, lost, deaths>>
        BY <1>1, <1>8, <2>3 DEF Start, CallTypeOK
    <2> HIDE DEF x
    <2> QED BY <1>1, <1>2, <1>8, <2>4, RunMoves, RunEnds DEF PastFetch
<1>9. CASE Analyze(d) /\ Ends(d)
    <2>1. run'[d].pc = "done"
        BY <1>1, <1>9, RunMoves
    <2>2. ~To(d, "emit")
        BY <1>1, <2>1 DEF To, CallTypeOK, Run
    <2>3. /\ run[d].pc = "resolved" /\ SetStatus(run[d].call, "failed")
          /\ UNCHANGED <<event, retraction, posts, overlap, lost, deaths>>
        BY <1>9, <2>2 DEF Analyze, AnalyzeCall
    <2>4. /\ insight' \in [Calls -> CallInsight] /\ insight'[run[d].call].status = "failed"
          /\ \A c \in Calls \ {run[d].call} : insight'[c] = insight[c]
        BY <1>1, <2>3, RowsKept DEF CallStatus
    <2> QED BY <1>1, <1>2, <1>9, <2>3, <2>4, RunMoves, RunEnds DEF Alive, PastFetch
<1> QED BY <1>3, <1>4, <1>5, <1>6, <1>7, <1>8, <1>9

\* A run takes a call that waits; if another is at it, the call is one of overlap.
LEMMA StartTakes ==
    ASSUME CallInv, NEW d \in Deliveries, NEW settings \in AutomationSettings,
           Start(d, settings), ~Ends(d)
    PROVE  CallInv'
<1>1. /\ CallTypeOK /\ RunShape /\ OneAtWork /\ RunOwnsRow /\ PostsOfRun /\ OnePost
      /\ InBetween /\ run[d] \in Run /\ run[d].call \in Calls
    BY RunMoves DEF CallInv
<1>2. /\ run[d].pc = "queued" /\ insight[run[d].call].status \in {"none", "pending", "failed"}
      /\ UNCHANGED <<insight, event, retraction, posts, lost, deaths>>
      /\ overlap' = IF \E e \in Deliveries \ {d} : Alive(e) /\ run[e].call = run[d].call
                    THEN overlap \cup {run[d].call} ELSE overlap
    BY DEF Start
<1> DEFINE x == [run[d] EXCEPT !.pc = "fetch", !.old = insight[run[d].call],
                               !.external = settings.external]
<1>3. x \in Run /\ x.pc = "fetch" /\ x.call = run[d].call
    BY <1>1 DEF Run, AutomationSettings, CallTypeOK
<1>4. run' = [run EXCEPT ![d] = x]
    BY <1>1 DEF Start, CallTypeOK
<1> HIDE DEF x
<1>5. /\ run' \in [Deliveries -> Run] /\ run'[d].pc = "fetch" /\ run'[d].call = run[d].call
      /\ \A e \in Deliveries \ {d} : run'[e] = run[e]
    BY <1>1, <1>3, <1>4, RunMoves
<1>6. overlap \subseteq overlap' /\ overlap' \subseteq Calls
    BY <1>1, <1>2 DEF CallTypeOK
<1>7. CallTypeOK'
    BY <1>1, <1>2, <1>5, <1>6 DEF CallTypeOK
<1>8. RunShape'
    BY <1>1, <1>5 DEF RunShape, FannedOut
<1>9. OneAtWork'
    <2>1. ASSUME NEW e \in Deliveries \ {d}, Alive(e)', run'[e].call = run[d].call
          PROVE  run[d].call \in overlap'
        BY <1>2, <1>5, <2>1 DEF Alive
    <2> QED BY <1>1, <1>5, <1>6, <2>1 DEF OneAtWork, Alive
<1>10. RunOwnsRow'
    BY <1>1, <1>2, <1>5, <1>6 DEF RunOwnsRow, FannedOut, PastFetch
<1>11. PostsOfRun'
    <2>1. ASSUME NEW p \in posts, p.call \notin overlap'
          PROVE  p.call # run[d].call /\ p.call \notin overlap
        BY <1>1, <1>2, <1>6, <2>1 DEF PostsOfRun
    <2> QED BY <1>1, <1>2, <1>5, <2>1 DEF PostsOfRun, Alive, Through
<1>12. OnePost'
    BY <1>1, <1>2, <1>6 DEF OnePost
<1>13. InBetween'
    <2>1. \A e \in Deliveries : run[e].pc \in PastFetch => run'[e] = run[e]
        BY <1>2, <1>5 DEF PastFetch
    <2> QED BY <1>1, <1>2, <2>1 DEF InBetween
<1> QED BY <1>7, <1>8, <1>9, <1>10, <1>11, <1>12, <1>13 DEF CallInv

\* The call is attributed, or analysed: nothing was posted for it before, and no
\* other run that does not overlap is at it.
LEMMA RunAdvances ==
    ASSUME CallInv, NEW d \in Deliveries, NEW i \in CallInsight,
           UNCHANGED <<event, retraction, posts, overlap, lost, deaths>>,
           run' \in [Deliveries -> Run], \A e \in Deliveries \ {d} : run'[e] = run[e],
           run[d].pc \in {"fetch", "resolved"}, run'[d].call = run[d].call,
           insight' = [insight EXCEPT ![run[d].call] = i],
           run[d].call \notin overlap => run'[d].client = i.client,
           \/ run'[d].pc = "resolved" /\ i.status = "processing"
           \/ run'[d].pc = "emit" /\ i.status = "analyzed" /\ run'[d].client # NoClient
    PROVE  CallInv'
<1>1. /\ CallTypeOK /\ RunShape /\ OneAtWork /\ RunOwnsRow /\ PostsOfRun /\ OnePost
      /\ InBetween /\ run[d].call \in Calls
    BY RunMoves DEF CallInv
<1>2. /\ insight' \in [Calls -> CallInsight] /\ insight'[run[d].call] = i
      /\ \A c \in Calls \ {run[d].call} : insight'[c] = insight[c]
    BY <1>1, RowsKept
<1>3. CallTypeOK'
    BY <1>1, <1>2 DEF CallTypeOK
<1>4. RunShape'
    BY <1>1 DEF RunShape, FannedOut
<1>5. \A e \in Deliveries : Alive(e)' => Alive(e) /\ run'[e].call = run[e].call
    BY DEF Alive
<1>6. OneAtWork'
    BY <1>1, <1>5 DEF OneAtWork
<1>7. ASSUME NEW e \in Deliveries \ {d}, Alive(e), run[e].call \notin overlap
      PROVE  insight'[run[e].call] = insight[run[e].call]
    <2>1. run[e].call # run[d].call
        BY <1>1, <1>7 DEF OneAtWork, Alive
    <2> QED BY <1>1, <1>2, <2>1, RunMoves
<1>8. RunOwnsRow'
    <2>1. ASSUME NEW e \in Deliveries \ {d}, run[e].call \notin overlap,
                 run[e].pc \in {"fetch"} \cup PastFetch
          PROVE  Alive(e) /\ insight'[run[e].call] = insight[run[e].call]
        BY <1>7, <2>1 DEF Alive, PastFetch
    <2>2. ASSUME NEW e \in Deliveries \ {d}, run'[e].call \notin overlap'
          PROVE  /\ run'[e].pc = "fetch" => insight'[run'[e].call].status \in {"none", "pending", "failed"}
                 /\ run'[e].pc = "resolved" => insight'[run'[e].call].status = "processing"
                 /\ run'[e].pc \in FannedOut => insight'[run'[e].call].status = "analyzed"
                 /\ run'[e].pc \in PastFetch => insight'[run'[e].call].client = run'[e].client
        BY <1>1, <2>1, <2>2 DEF RunOwnsRow, PastFetch, FannedOut
    <2> QED BY <1>2, <2>2 DEF RunOwnsRow, PastFetch, FannedOut
<1>9. PostsOfRun'
    <2>1. ASSUME NEW p \in posts, p.call \notin overlap
          PROVE  p.call \in Calls \ {run[d].call}
        BY <1>1, <2>1 DEF PostsOfRun, RunOwnsRow, CallTypeOK, Post
    <2> QED BY <1>1, <1>2, <2>1 DEF PostsOfRun, Alive, Through
<1>10. OnePost'
    BY <1>1 DEF OnePost
<1>11. InBetween'
    <2>1. \A e \in Deliveries : /\ run'[e].call = run[e].call
                                /\ run[e].pc \in PastFetch => run'[e].pc \in PastFetch
        BY DEF PastFetch
    <2>2. run'[d].pc \in PastFetch
        BY DEF PastFetch
    <2> QED BY <1>1, <1>2, <2>1, <2>2 DEF InBetween
<1> QED BY <1>3, <1>4, <1>6, <1>8, <1>9, <1>10, <1>11 DEF CallInv

LEMMA AdvancingSteps ==
    ASSUME CallInv, NEW d \in Deliveries,
           (\E active \in IntegrationMap : Fetched(d, active)) \/ (Analyze(d) /\ ~Ends(d))
    PROVE  CallInv'
<1>1. /\ CallTypeOK /\ RunShape /\ RunOwnsRow /\ run[d] \in Run
      /\ run[d].call \in Calls /\ insight[run[d].call] \in CallInsight
    BY RunMoves, RowsKept DEF CallInv
<1>2. ASSUME NEW active \in IntegrationMap, Fetched(d, active)
      PROVE  CallInv'
    <2>0. PICK m \in Transcript(active) : \E k \in Resolve(m[1], m[2]) :
              /\ run' = [run EXCEPT ![d] = [@ EXCEPT !.pc = "resolved", !.client = k]]
              /\ insight' = [insight EXCEPT ![run[d].call] = [status |-> "processing", client |-> k]]
        BY <1>2 DEF Fetched
    <2>1. PICK k \in Resolve(m[1], m[2]) :
              /\ run' = [run EXCEPT ![d] = [@ EXCEPT !.pc = "resolved", !.client = k]]
              /\ insight' = [insight EXCEPT ![run[d].call] = [status |-> "processing", client |-> k]]
        BY <2>0
    <2>2. k \in Clients \cup {NoClient}
        BY <2>1 DEF Transcript, Resolve, IntegrationMap
    <2> DEFINE x == [run[d] EXCEPT !.pc = "resolved", !.client = k]
               i == [status |-> "processing", client |-> k]
    <2>3. x \in Run /\ x.pc = "resolved" /\ x.client = k /\ x.call = run[d].call
        BY <1>1, <2>2 DEF Run
    <2>4. i \in CallInsight /\ i.status = "processing" /\ i.client = k
        BY <2>2 DEF CallInsight, CallStatus
    <2>5. run' = [run EXCEPT ![d] = x] /\ insight' = [insight EXCEPT ![run[d].call] = i]
        BY <1>1, <2>1 DEF CallTypeOK
    <2>6. run[d].pc = "fetch" /\ UNCHANGED <<event, retraction, posts, overlap, lost, deaths>>
        BY <1>2 DEF Fetched
    <2> HIDE DEF x, i
    <2>7. /\ run' \in [Deliveries -> Run] /\ run'[d] = x
          /\ \A e \in Deliveries \ {d} : run'[e] = run[e]
        BY <1>1, <2>3, <2>5, RunMoves
    <2> QED BY <2>3, <2>4, <2>5, <2>6, <2>7, RunAdvances
<1>3. CASE Analyze(d) /\ ~Ends(d)
    <2>1. /\ run[d].pc = "resolved" /\ run[d].client # NoClient /\ To(d, "emit")
          /\ UNCHANGED <<event, retraction, posts, overlap, lost, deaths>>
          /\ SetStatus(run[d].call, "analyzed")
        BY <1>3 DEF Analyze, AnalyzeCall
    <2> DEFINE x == [run[d] EXCEPT !.pc = "emit"]
    <2>2. x \in Run /\ x.pc = "emit" /\ x.client = run[d].client /\ x.call = run[d].call
        BY <1>1 DEF Run
    <2>3. run' = [run EXCEPT ![d] = x]
        BY <1>1, <2>1 DEF CallTypeOK, To
    <2>4. PICK i \in CallInsight : i = [insight[run[d].call] EXCEPT !.status = "analyzed"]
        BY <1>1 DEF CallInsight, CallStatus
    <2>5. i.status = "analyzed" /\ i.client = insight[run[d].call].client
        BY <1>1, <2>4 DEF CallInsight
    <2>6. insight' = [insight EXCEPT ![run[d].call] = i]
        BY <1>1, <2>1, <2>4 DEF SetStatus, CallTypeOK
    <2> HIDE DEF x
    <2>7. /\ run' \in [Deliveries -> Run] /\ run'[d] = x
          /\ \A e \in Deliveries \ {d} : run'[e] = run[e]
        BY <1>1, <2>2, <2>3, RunMoves
    <2>8. run[d].call \notin overlap => run[d].client = i.client
        BY <1>1, <2>1, <2>5 DEF RunOwnsRow, PastFetch
    <2> QED BY <2>1, <2>2, <2>5, <2>6, <2>7, <2>8, RunAdvances
<1> QED BY <1>2, <1>3

\* The steps of the fan-out that post nothing.
LEMMA FanOutSteps ==
    ASSUME CallInv, NEW d \in Deliveries,
           NothingToEmit(d) \/ Hold(d) \/ Emit(d) \/ SaveEvent(d)
    PROVE  CallInv'
<1>1. /\ CallTypeOK /\ RunShape /\ run \in [Deliveries -> Run] /\ run[d] \in Run
      /\ run[d].call \in Calls
    BY RunMoves DEF CallInv
<1>2. /\ run[d].at \in 1..Len(FanOut) + 1 /\ Len(FanOut) \in Nat
      /\ run[d].status \in {"sent", "failed"} /\ run[d].ref \in Deliveries \cup {NoClient}
    BY <1>1, FanOutIs DEF Run
<1>3. run[d].pc \in FannedOut /\ run[d].at \in 1..Len(FanOut) /\ FanOut[run[d].at] \in Targets
    <2>1. run[d].pc \in FannedOut /\ run[d].at # Len(FanOut) + 1
        BY <1>1 DEF NothingToEmit, Hold, Emit, SaveEvent, Last, RunShape, FannedOut
    <2> QED BY <1>2, <2>1, FanOutIs
<1>4. UNCHANGED <<insight, retraction, posts, overlap, lost, deaths>>
    BY DEF NothingToEmit, Hold, Emit, SaveEvent
\* On to the next target.
<1>5. ASSUME NEW x \in Run, run' = [run EXCEPT ![d] = x], x.pc = "emit", x.at = run[d].at + 1,
             x.call = run[d].call, x.client = run[d].client,
             event' \in [Calls -> [Targets -> IntegrationEvent]]
      PROVE  CallInv'
    <2>1. /\ run' \in [Deliveries -> Run] /\ run'[d] = x
          /\ \A e \in Deliveries \ {d} : run'[e] = run[e]
        BY <1>1, <1>5, RunMoves
    <2>2. \A j \in 1..Len(FanOut) : Through(d, j) => Through(d, j)'
        BY <1>2, <1>5, <2>1 DEF Through
    <2> QED BY <1>3, <1>4, <1>5, <2>1, <2>2, RunGoesOn DEF FannedOut
<1> DEFINE next == [run[d] EXCEPT !.at = run[d].at + 1]
           saved == [run[d] EXCEPT !.pc = "emit", !.at = run[d].at + 1]
<1>n. run[d].at + 1 \in 1..Len(FanOut) + 1
    BY <1>3, FanOutIs
<1>6. /\ next \in Run /\ next.at = run[d].at + 1 /\ next.call = run[d].call
      /\ next.client = run[d].client /\ next.pc = run[d].pc
    BY <1>1, <1>n DEF Run
<1>7. /\ saved \in Run /\ saved.at = run[d].at + 1 /\ saved.call = run[d].call
      /\ saved.client = run[d].client /\ saved.pc = "emit"
    BY <1>1, <1>n DEF Run
<1>8. event \in [Calls -> [Targets -> IntegrationEvent]]
    BY <1>1 DEF CallTypeOK
<1>9. CASE NothingToEmit(d)
    <2>1. run' = [run EXCEPT ![d] = next] /\ run[d].pc = "emit" /\ UNCHANGED event
        BY <1>1, <1>9 DEF NothingToEmit
    <2> HIDE DEF next
    <2> QED BY <1>5, <1>6, <1>8, <2>1
<1>10. CASE Hold(d)
    <2>1. /\ run' = [run EXCEPT ![d] = next] /\ run[d].pc = "emit"
          /\ UNCHANGED event \/ SetEvent(run[d].call, FanOut[run[d].at], "skipped")
        BY <1>1, <1>10 DEF Hold
    <2> HIDE DEF next
    <2>2. event' \in [Calls -> [Targets -> IntegrationEvent]]
        BY <1>1, <1>3, <1>8, <2>1, EventsKept DEF EventStatus
    <2> QED BY <1>5, <1>6, <2>1, <2>2
<1>11. CASE Emit(d) /\ event[run[d].call][FanOut[run[d].at]].status = "sent"
    <2>1. run' = [run EXCEPT ![d] = next] /\ run[d].pc = "emit" /\ UNCHANGED event
        BY <1>1, <1>11 DEF Emit
    <2> HIDE DEF next
    <2> QED BY <1>5, <1>6, <1>8, <2>1
<1>12. CASE Emit(d) /\ event[run[d].call][FanOut[run[d].at]].status # "sent"
    <2>1. PICK ref \in Deliveries \cup {NoClient} : ref = event[run[d].call][FanOut[run[d].at]].ref
        BY <1>1, <1>3, EventsKept DEF IntegrationEvent
    <2> DEFINE x == [run[d] EXCEPT !.pc = "post", !.ref = ref]
    <2>2. /\ x \in Run /\ x.at = run[d].at /\ x.call = run[d].call /\ x.client = run[d].client
          /\ x.pc = "post"
        BY <1>1 DEF Run
    <2>3. /\ run' = [run EXCEPT ![d] = x] /\ run[d].pc = "emit"
          /\ UNCHANGED event \/ SetEvent(run[d].call, FanOut[run[d].at], "pending")
        BY <1>1, <1>12, <2>1 DEF Emit
    <2>4. event' \in [Calls -> [Targets -> IntegrationEvent]]
        BY <1>1, <1>3, <1>8, <2>3, EventsKept DEF EventStatus
    <2> HIDE DEF x
    <2>5. /\ run' \in [Deliveries -> Run] /\ run'[d] = x
          /\ \A e \in Deliveries \ {d} : run'[e] = run[e]
        BY <1>1, <2>2, <2>3, RunMoves
    <2>6. \A j \in 1..Len(FanOut) : Through(d, j) => Through(d, j)'
        BY <2>2, <2>3, <2>5 DEF Through
    <2> QED BY <1>2, <1>3, <1>4, <2>2, <2>4, <2>5, <2>6, RunGoesOn DEF FannedOut
<1>13. CASE SaveEvent(d)
    <2>1. PICK e \in IntegrationEvent : e = [status |-> run[d].status, ref |-> run[d].ref]
        BY <1>2 DEF IntegrationEvent, EventStatus
    <2>2. event' = [event EXCEPT ![run[d].call][FanOut[run[d].at]] = e]
        BY <1>13, <2>1 DEF SaveEvent
    <2>4. run' = [run EXCEPT ![d] = saved]
        BY <1>1, <1>13 DEF SaveEvent
    <2>3. event' \in [Calls -> [Targets -> IntegrationEvent]]
        BY <1>1, <1>3, <2>2, EventsKept
    <2> HIDE DEF saved
    <2> QED BY <1>5, <1>7, <2>3, <2>4
<1> QED BY <1>9, <1>10, <1>11, <1>12, <1>13

\* The provider answers: if anything is up, it is the first post of this call for
\* this target, as each target comes once.
LEMMA PostStep ==
    ASSUME CallInv, NEW d \in Deliveries, DoPost(d)
    PROVE  CallInv'
<1>1. /\ CallTypeOK /\ RunShape /\ OneAtWork /\ RunOwnsRow /\ PostsOfRun /\ OnePost
      /\ InBetween /\ run \in [Deliveries -> Run] /\ run[d] \in Run /\ run[d].call \in Calls
    BY RunMoves DEF CallInv
<1>2. /\ run[d].pc = "post" /\ run[d].at \in 1..Len(FanOut) /\ Len(FanOut) \in Nat
      /\ run[d].client \in Clients
    BY <1>1, FanOutIs DEF DoPost, RunShape, FannedOut, Run
<1>3. PICK t \in Targets : t = FanOut[run[d].at]
    BY <1>2, FanOutIs
<1>4. PICK new \in Post : new = [call |-> run[d].call, target |-> t, client |-> run[d].client, by |-> d]
    BY <1>1, <1>2 DEF Post
<1>5. new.call = run[d].call /\ new.target = t /\ new.client = run[d].client /\ new.by = d
    BY <1>4
<1>6. PICK a \in Answers(t) :
          /\ run' = [run EXCEPT ![d] = [@ EXCEPT !.pc = "save", !.status = a.status,
                                  !.ref = IF a.status = "failed" THEN run[d].ref
                                          ELSE IF a.up THEN d ELSE NoClient]]
          /\ posts' \in {posts, posts \cup {new}}
    BY <1>3, <1>4 DEF DoPost
<1>7. UNCHANGED <<insight, event, retraction, overlap, lost, deaths>>
    BY DEF DoPost
<1>8. a.status \in {"sent", "failed"}
    BY DEF Answers, AsanaTasks, DocAppend, SlackPost
<1> DEFINE ref == IF a.status = "failed" THEN run[d].ref ELSE IF a.up THEN d ELSE NoClient
           x == [run[d] EXCEPT !.pc = "save", !.status = a.status, !.ref = ref]
<1>9. ref \in Deliveries \cup {NoClient}
    BY <1>1 DEF Run
<1>10. /\ x \in Run /\ x.at = run[d].at /\ x.call = run[d].call /\ x.client = run[d].client
       /\ x.pc = "save"
    <2> HIDE DEF ref
    <2> QED BY <1>1, <1>8, <1>9 DEF Run
<1>11. run' = [run EXCEPT ![d] = x]
    BY <1>1, <1>6
<1> HIDE DEF x
<1>12. /\ run' \in [Deliveries -> Run] /\ run'[d] = x
       /\ \A e \in Deliveries \ {d} : run'[e] = run[e]
    BY <1>1, <1>10, <1>11, RunMoves
<1>13. CallTypeOK'
    BY <1>1, <1>6, <1>7, <1>12 DEF CallTypeOK
<1>14. RunShape'
    BY <1>1, <1>2, <1>10, <1>12 DEF RunShape, FannedOut
<1>15. \A e \in Deliveries : /\ run'[e].call = run[e].call /\ (Alive(e)' => Alive(e))
                             /\ run[e].pc \in PastFetch => run'[e].pc \in PastFetch
    BY <1>2, <1>10, <1>12 DEF Alive, PastFetch
<1>16. OneAtWork'
    BY <1>1, <1>7, <1>15 DEF OneAtWork
<1>17. RunOwnsRow'
    BY <1>1, <1>2, <1>7, <1>10, <1>12 DEF RunOwnsRow, FannedOut, PastFetch
<1>18. PostsOfRun'
    <2>1. ASSUME NEW p \in posts, p.call \notin overlap
          PROVE  /\ insight[p.call].status \in {"analyzed", "distributed"}
                 /\ insight[p.call].client = p.client
                 /\ \A e \in Deliveries : Alive(e)' /\ run'[e].call = p.call =>
                     p.by = e /\ \E j \in 1..Len(FanOut) : Through(e, j)' /\ p.target = FanOut[j]
        <3>1. ASSUME NEW e \in Deliveries, Alive(e)', run'[e].call = p.call
              PROVE  p.by = e /\ \E j \in 1..Len(FanOut) : Through(e, j)' /\ p.target = FanOut[j]
            <4>1. PICK j \in 1..Len(FanOut) : p.by = e /\ Through(e, j) /\ p.target = FanOut[j]
                BY <1>1, <1>15, <2>1, <3>1 DEF PostsOfRun
            <4>2. Through(e, j)'
                BY <1>10, <1>12, <4>1 DEF Through
            <4> QED BY <4>1, <4>2
        <3> QED BY <1>1, <2>1, <3>1 DEF PostsOfRun
    <2>2. ASSUME run[d].call \notin overlap
          PROVE  /\ insight[new.call].status \in {"analyzed", "distributed"}
                 /\ insight[new.call].client = new.client
                 /\ \A e \in Deliveries : Alive(e)' /\ run'[e].call = new.call =>
                     new.by = e /\ \E j \in 1..Len(FanOut) : Through(e, j)' /\ new.target = FanOut[j]
        <3>0. PICK k \in 1..Len(FanOut) : k = run[d].at
            BY <1>2
        <3>1. Through(d, k)' /\ t = FanOut[k]
            BY <1>3, <1>10, <1>12, <3>0 DEF Through
        <3>2. \A e \in Deliveries : Alive(e)' /\ run'[e].call = new.call => e = d
            BY <1>1, <1>2, <1>5, <1>15, <2>2 DEF OneAtWork, Alive
        <3>3. /\ insight[new.call].status = "analyzed" /\ insight[new.call].client = new.client
            BY <1>1, <1>2, <1>5, <2>2 DEF RunOwnsRow, FannedOut, PastFetch
        <3>4. ASSUME NEW e \in Deliveries, Alive(e)', run'[e].call = new.call
              PROVE  new.by = e /\ \E j \in 1..Len(FanOut) : Through(e, j)' /\ new.target = FanOut[j]
            <4>1. e = d
                BY <3>2, <3>4
            <4>2. new.by = d /\ \E j \in 1..Len(FanOut) : Through(d, j)' /\ new.target = FanOut[j]
                BY <1>5, <3>1
            <4> QED BY <4>1, <4>2 DEF Through
        <3> QED BY <3>3, <3>4
    <2> QED BY <1>5, <1>6, <1>7, <2>1, <2>2 DEF PostsOfRun
<1>19. OnePost'
    <2>1. ASSUME NEW p \in posts, p.call = run[d].call, p.call \notin overlap
          PROVE  p.target # t
        <3>1. PICK j \in 1..Len(FanOut) : Through(d, j) /\ p.target = FanOut[j]
            BY <1>1, <1>2, <2>1 DEF PostsOfRun, Alive
        <3>2. j # run[d].at
            BY <1>2, <3>1 DEF Through
        <3> QED BY <1>2, <1>3, <3>1, <3>2, FanOutIs
    <2> QED BY <1>1, <1>5, <1>6, <1>7, <2>1 DEF OnePost
<1>20. InBetween'
    BY <1>1, <1>7, <1>15 DEF InBetween
<1> QED BY <1>13, <1>14, <1>16, <1>17, <1>18, <1>19, <1>20 DEF CallInv

LEMMA RetractSteps ==
    ASSUME CallInv, \/ \E c \in Calls, t \in Targets : Retract(c, t)
                    \/ \E r \in retraction : RetractSave(r)
    PROVE  CallInv'
<1>1. UNCHANGED <<insight, run, posts, overlap, lost, deaths>>
    BY DEF Retract, RetractSave
<1>2. CallTypeOK'
    <2>1. CASE \E c \in Calls, t \in Targets : Retract(c, t)
        BY <1>1, <2>1 DEF Retract, CallInv, CallTypeOK
    <2>2. ASSUME NEW r \in retraction, RetractSave(r)
          PROVE  CallTypeOK'
        <3>1. r.call \in Calls /\ r.target \in Targets
            BY DEF CallInv, CallTypeOK
        <3>2. event' \in [Calls -> [Targets -> IntegrationEvent]]
            BY <2>2, <3>1, EventsKept DEF RetractSave, EventStatus, CallInv, CallTypeOK
        <3> QED BY <1>1, <2>2, <3>2 DEF RetractSave, CallInv, CallTypeOK
    <2> QED BY <2>1, <2>2
<1> QED BY <1>1, <1>2 DEF CallInv, RunShape, OneAtWork, RunOwnsRow, PostsOfRun, OnePost, InBetween,
                          Alive, Through

LEMMA CallStarts ==
    ASSUME CallInit
    PROVE  CallInv
<1>1. NoInsight \in CallInsight /\ NoInsight.status = "none"
    BY DEF NoInsight, CallInsight, CallStatus
<1>2. \A c \in Calls : NewRun(c) \in Run /\ NewRun(c).pc = "idle"
    BY <1>1, FanOutIs DEF NewRun, Run
<1>3. run \in [Deliveries -> Run] /\ \A d \in Deliveries : run[d].pc = "idle"
    BY <1>2 DEF CallInit
<1>4. \A c \in Calls : insight[c].status = "none"
    BY <1>1 DEF CallInit
<1>5. event \in [Calls -> [Targets -> IntegrationEvent]]
    BY DEF CallInit, IntegrationEvent, EventStatus
<1>6. CallTypeOK
    BY <1>1, <1>3, <1>5, CallConstants DEF CallInit, CallTypeOK
<1>7. posts = {}
    BY DEF CallInit
<1> QED BY <1>3, <1>4, <1>6, <1>7 DEF CallInv, RunShape, OneAtWork, RunOwnsRow, PostsOfRun, OnePost,
                               InBetween, Alive, FannedOut, PastFetch

LEMMA CallMoves ==
    ASSUME CallInv, CallNext
    PROVE  CallInv'
<1>1. ASSUME NEW d \in Deliveries, FirefliesWebhook(d) \/ Ingest(d) \/ WorkerDies(d)
      PROVE  CallInv'
    <2>1. CASE FirefliesWebhook(d) \/ WorkerDies(d) \/ FetchFails(d) \/ Unattributed(d)
               \/ GuardrailRaises(d) \/ Distributed(d)
        BY <2>1, EndingSteps
    <2>2. ASSUME NEW settings \in AutomationSettings, Start(d, settings)
          PROVE  CallInv'
        BY <2>2, EndingSteps, StartTakes
    <2>3. CASE Analyze(d)
        BY <2>3, EndingSteps, AdvancingSteps
    <2>4. CASE \E active \in IntegrationMap : Fetched(d, active)
        BY <2>4, AdvancingSteps
    <2>5. CASE NothingToEmit(d) \/ Hold(d) \/ Emit(d) \/ SaveEvent(d)
        BY <2>5, FanOutSteps
    <2>6. CASE DoPost(d)
        BY <2>6, PostStep
    <2> QED BY <1>1, <2>1, <2>2, <2>3, <2>4, <2>5, <2>6 DEF Ingest
<1> QED BY <1>1, RetractSteps DEF CallNext

LEMMA CallStutters ==
    ASSUME CallInv, UNCHANGED callVars
    PROVE  CallInv'
BY DEF callVars, CallInv, CallTypeOK, RunShape, OneAtWork, RunOwnsRow, PostsOfRun, OnePost,
       InBetween, Alive, Through

\* One post per target of a call, to the client it is stored under, however often
\* it is delivered, unless runs overlapped; and no call stays in between unless a
\* run was lost (CallsKept).
THEOREM CallsArePosted == Spec => []CallsKept
<1>1. Init => CallInv
    BY CallStarts DEF Init
<1>2. CallInv /\ [Next]_<<part, scene, callVars, connVars, grantVars, ghlVars, boardVars>> => CallInv'
    BY CallMoves, CallStutters DEF Next
<1>3. ASSUME CallInv
      PROVE  CallsKept
    <2>1. OnePostUnlessOverlap
        BY <1>3 DEF CallInv, PostsOfRun, OnePost, OnePostUnlessOverlap
    <2>2. UnsettledHasRun
        BY <1>3 DEF CallInv, InBetween, PastFetch, Alive, UnsettledHasRun
    <2> QED BY <2>1, <2>2 DEF CallsKept
<1> QED BY <1>1, <1>2, <1>3, PTL DEF Spec

(* ----------------------- Provider connections -------------------------- *)

Active(i, p) == conn[i].made /\ conn[i].active /\ conn[i].provider = p

\* The request will save a row of the provider.
Saving(r, p) == req[r].pc \in {"insert", "save"} /\ req[r].row.provider = p

\* A request that will write a row has one.
RequestShape == \A r \in Requests : req[r].pc \in {"insert", "save", "refresh"} => req[r].id \in ConnIds

\* Of a provider no edits of which overlapped: one row is active, one request is
\* saving a row, and if that will be active no other one is.
OneEachUnlessRaced ==
    \A p \in Providers \ raced :
        /\ \A i, j \in ConnIds : Active(i, p) /\ Active(j, p) => i = j
        /\ \A r, s \in Requests : Saving(r, p) /\ Saving(s, p) => r = s
        /\ \A r \in Requests, i \in ConnIds :
               Saving(r, p) /\ req[r].row.made /\ req[r].row.active /\ Active(i, p) => i = req[r].id

ConnInv == ConnTypeOK /\ RequestShape /\ OneEachUnlessRaced

LEMMA ConnRecords ==
    /\ NoRowYet \in Connection /\ NoRowYet.made = FALSE
    /\ NoRequest \in Request /\ NoRequest.pc = "idle"
<1>1. NoRowYet \in Connection /\ NoRowYet.made = FALSE
    BY ConnConstants DEF NoRowYet, Connection
<1>2. NoRequest \in Request /\ NoRequest.pc = "idle"
    BY <1>1 DEF NoRequest, Request
<1> QED BY <1>1, <1>2

\* A request is given something to do.
LEMMA RequestMoves ==
    ASSUME ConnTypeOK, NEW r \in Requests
    PROVE  /\ req[r] \in Request
           /\ \A q \in Request : req' = [req EXCEPT ![r] = q] =>
                 /\ req' \in [Requests -> Request] /\ req'[r] = q
                 /\ \A s \in Requests \ {r} : req'[s] = req[s]
           /\ Answered(r) =>
                 /\ req' \in [Requests -> Request] /\ req'[r].pc = "idle"
                 /\ \A s \in Requests \ {r} : req'[s] = req[s]
BY ConnRecords DEF ConnTypeOK, Answered

\* No row becomes active, and a request that begins to save one is the only one.
LEMMA QuietSteps ==
    ASSUME ConnInv, ConnTypeOK', raced \subseteq raced',
           \A i \in ConnIds, p \in Providers : Active(i, p)' => Active(i, p),
           NEW r \in Requests, \A s \in Requests \ {r} : req'[s] = req[s],
           req'[r].pc \in {"insert", "save", "refresh"} => req'[r].id \in ConnIds,
           \A p \in Providers \ raced' : req'[r] # req[r] /\ Saving(r, p)' =>
               /\ \A s \in Requests : ~Saving(s, p)
               /\ \A i \in ConnIds :
                      req'[r].row.made /\ req'[r].row.active /\ Active(i, p)' => i = req'[r].id
    PROVE  ConnInv'
<1>1. RequestShape'
    BY DEF ConnInv, RequestShape
<1>2. ASSUME NEW p \in Providers, p \notin raced'
      PROVE  /\ \A i, j \in ConnIds : Active(i, p)' /\ Active(j, p)' => i = j
             /\ \A s, t \in Requests : Saving(s, p)' /\ Saving(t, p)' => s = t
             /\ \A s \in Requests, i \in ConnIds :
                    Saving(s, p)' /\ req'[s].row.made /\ req'[s].row.active /\ Active(i, p)' => i = req'[s].id
    <2>1. \A i, j \in ConnIds : Active(i, p)' /\ Active(j, p)' => i = j
        BY <1>2 DEF ConnInv, OneEachUnlessRaced
    <2>2. \A s \in Requests \ {r} : Saving(s, p)' => Saving(s, p)
        BY DEF Saving
    <2>3. Saving(r, p)' => Saving(r, p) \/ \A s \in Requests : ~Saving(s, p)
        BY <1>2 DEF Saving
    <2>4. \A s, t \in Requests : Saving(s, p)' /\ Saving(t, p)' => s = t
        BY <1>2, <2>2, <2>3 DEF ConnInv, OneEachUnlessRaced
    <2>5. ASSUME NEW s \in Requests, NEW i \in ConnIds,
                 Saving(s, p)', req'[s].row.made, req'[s].row.active, Active(i, p)'
          PROVE  i = req'[s].id
        <3>1. CASE req'[s] = req[s]
            BY <1>2, <2>5, <3>1 DEF ConnInv, OneEachUnlessRaced, Saving
        <3>2. CASE req'[s] # req[s]
            BY <1>2, <2>5, <3>2
        <3> QED BY <3>1, <3>2
    <2> QED BY <2>1, <2>4, <2>5
<1> QED BY <1>1, <1>2 DEF ConnInv, OneEachUnlessRaced

\* The steps that begin to save a row.
LEMMA BeginSteps ==
    ASSUME ConnInv, NEW r \in Requests, NEW i \in ConnIds,
           \/ \E p \in Providers, active \in BOOLEAN :
                  CreateConnection(r, i, p, active) \/ PatchConnection(r, i, p, active)
           \/ \E p \in Providers : OAuthCallback(r, i, p)
           \/ PatchOther(r, i)
    PROVE  ConnInv'
<1>1. /\ ConnTypeOK /\ RequestShape /\ OneEachUnlessRaced
      /\ conn \in [ConnIds -> Connection] /\ signed \subseteq Providers /\ raced \subseteq Providers
    BY DEF ConnInv, ConnTypeOK
\* Rows are switched off, if they change.
<1>2. \A p \in Providers :
          /\ Deactivated(p, i) \in [ConnIds -> Connection]
          /\ conn' = Deactivated(p, i) =>
                /\ \A j \in ConnIds, q \in Providers : Active(j, q)' => Active(j, q)
                /\ \A j \in ConnIds : Active(j, p)' => j = i
    <2>1. ASSUME NEW j \in ConnIds
          PROVE  /\ [conn[j] EXCEPT !.active = FALSE] \in Connection
                 /\ [conn[j] EXCEPT !.active = FALSE].active = FALSE
        BY <1>1 DEF Connection
    <2>2. ASSUME NEW p \in Providers
          PROVE  Deactivated(p, i) \in [ConnIds -> Connection]
        BY <1>1, <2>1 DEF Deactivated
    <2>3. ASSUME NEW p \in Providers, conn' = Deactivated(p, i), NEW j \in ConnIds
          PROVE  /\ conn'[j] = conn[j] \/ conn'[j].active = FALSE
                 /\ conn[j].made /\ conn[j].provider = p /\ j # i => conn'[j].active = FALSE
        BY <2>1, <2>3 DEF Deactivated
    <2> QED BY <2>2, <2>3 DEF Active
\* A request that begins has a row in hand; nobody else saves a row of its provider,
\* unless that is raced now.
<1>3. ASSUME NEW pc \in {"insert", "save"}, NEW row \in Connection,
             req' = [req EXCEPT ![r] = [pc |-> pc, id |-> i, row |-> row]],
             conn' = conn \/ \E p \in Providers : conn' = Deactivated(p, i),
             UNCHANGED signed, raced \subseteq raced', raced' \subseteq Providers,
             \A s \in Requests : Saving(s, row.provider) => row.provider \in raced',
             row.provider \notin raced' => \A j \in ConnIds :
                 row.made /\ row.active /\ Active(j, row.provider)' => j = i
      PROVE  ConnInv'
    <2> DEFINE q == [pc |-> pc, id |-> i, row |-> row]
    <2>1. q \in Request /\ q.id = i /\ q.row = row
        BY DEF Request
    <2> HIDE DEF q
    <2>2. req' \in [Requests -> Request] /\ req'[r] = q /\ \A s \in Requests \ {r} : req'[s] = req[s]
        BY <1>1, <1>3, <2>1, RequestMoves DEF q
    <2>3. ConnTypeOK'
        BY <1>1, <1>2, <1>3, <2>2 DEF ConnTypeOK
    <2>4. \A j \in ConnIds, p \in Providers : Active(j, p)' => Active(j, p)
        BY <1>2, <1>3 DEF Active
    <2>5. \A p \in Providers : Saving(r, p)' => p = row.provider
        BY <2>1, <2>2 DEF Saving
    <2> QED BY <1>3, <2>1, <2>2, <2>3, <2>4, <2>5, QuietSteps
<1>4. ASSUME NEW p \in Providers, p \notin raced', Writing(p) # {} => p \in raced', NEW s \in Requests
      PROVE  ~Saving(s, p)
    BY <1>4 DEF Writing, Saving
<1>5. ASSUME NEW p \in Providers, NEW active \in BOOLEAN, CreateConnection(r, i, p, active)
      PROVE  ConnInv'
    <2>1. PICK row \in Connection : row = [made |-> TRUE, provider |-> p, active |-> active,
                                          oauth |-> FALSE, due |-> FALSE]
        BY DEF Connection
    <2>2. row.provider = p /\ row.active = active
        BY <2>1
    <2> QED BY <1>1, <1>2, <1>3, <1>4, <1>5, <2>1, <2>2 DEF CreateConnection, Races
<1>6. ASSUME NEW p \in Providers, OAuthCallback(r, i, p)
      PROVE  ConnInv'
    <2>1. PICK row \in ExchangeCode(p) : req' = [req EXCEPT ![r] = [pc |-> "insert", id |-> i, row |-> row]]
        BY <1>6 DEF OAuthCallback
    <2>2. row \in Connection /\ row.provider = p
        BY DEF ExchangeCode, Connection
    <2> QED BY <1>1, <1>2, <1>3, <1>4, <1>6, <2>1, <2>2 DEF OAuthCallback, Races
<1>7. ASSUME NEW p \in Providers, NEW active \in BOOLEAN, PatchConnection(r, i, p, active)
      PROVE  ConnInv'
    <2>1. PICK row \in Connection : row = [conn[i] EXCEPT !.provider = p, !.active = active]
        BY <1>1 DEF Connection
    <2>2. row.provider = p /\ row.active = active /\ conn[i].provider \in Providers
        BY <1>1, <2>1 DEF Connection
    <2>3. /\ conn' = IF active THEN Deactivated(conn[i].provider, i) ELSE conn
          /\ req' = [req EXCEPT ![r] = [pc |-> "save", id |-> i, row |-> row]]
          /\ raced' = raced \cup {q \in {p, conn[i].provider} : Writing(q) # {}}
                            \cup (IF p # conn[i].provider THEN {p} ELSE {})
          /\ UNCHANGED signed
        BY <1>7, <2>1 DEF PatchConnection
    <2>4. p \notin raced' => p = conn[i].provider
        BY <2>3
    <2> QED BY <1>1, <1>2, <1>3, <1>4, <2>2, <2>3, <2>4
<1>8. CASE PatchOther(r, i)
    <2>1. PICK row \in Connection : row = conn[i]
        BY <1>1
    <2>2. row.provider \in Providers /\ row.made
        BY <1>8, <2>1 DEF Connection, PatchOther
    <2>3. /\ req' = [req EXCEPT ![r] = [pc |-> "save", id |-> i, row |-> row]]
          /\ Races({row.provider}) /\ UNCHANGED <<conn, signed>>
        BY <1>8, <2>1 DEF PatchOther
    <2>4. \A j \in ConnIds : row.active /\ row.provider \notin raced' /\ Active(j, row.provider)' => j = i
        BY <1>1, <2>1, <2>2, <2>3 DEF OneEachUnlessRaced, Active, Races
    <2> QED BY <1>1, <1>3, <1>4, <2>2, <2>3, <2>4 DEF Races
<1> QED BY <1>5, <1>6, <1>7, <1>8

\* The row is written: no other of its provider is active, and no other request
\* saves one, unless the provider is raced.
LEMMA WriteSteps ==
    ASSUME ConnInv, NEW r \in Requests, Insert(r) \/ SaveConnection(r)
    PROVE  ConnInv'
<1>1. /\ ConnTypeOK /\ RequestShape /\ OneEachUnlessRaced /\ req[r] \in Request
      /\ conn \in [ConnIds -> Connection]
    BY RequestMoves DEF ConnInv, ConnTypeOK
<1>2. /\ conn' = [conn EXCEPT ![req[r].id] = req[r].row] /\ Answered(r)
      /\ req[r].pc \in {"insert", "save"} /\ UNCHANGED <<signed, raced>>
    BY DEF Insert, SaveConnection
<1>3. PICK i \in ConnIds : i = req[r].id
    BY <1>1, <1>2 DEF RequestShape
<1>4. PICK row \in Connection : row = req[r].row
    BY <1>1 DEF Request
<1>5. conn'[i] = row /\ (\A j \in ConnIds \ {i} : conn'[j] = conn[j]) /\ conn' \in [ConnIds -> Connection]
    BY <1>1, <1>2, <1>3, <1>4
<1>6. /\ req' \in [Requests -> Request] /\ req'[r].pc = "idle"
      /\ \A s \in Requests \ {r} : req'[s] = req[s]
    BY <1>1, <1>2, RequestMoves
<1>7. ConnTypeOK'
    BY <1>1, <1>2, <1>5, <1>6 DEF ConnTypeOK
<1>8. RequestShape'
    BY <1>1, <1>6 DEF RequestShape
<1>9. ASSUME NEW p \in Providers, p \notin raced
      PROVE  /\ \A j, k \in ConnIds : Active(j, p)' /\ Active(k, p)' => j = k
             /\ \A s, t \in Requests : Saving(s, p)' /\ Saving(t, p)' => s = t
             /\ \A s \in Requests, j \in ConnIds :
                    Saving(s, p)' /\ req'[s].row.made /\ req'[s].row.active /\ Active(j, p)' => j = req'[s].id
    <2>1. \A s \in Requests : Saving(s, p)' => Saving(s, p) /\ s # r /\ req'[s] = req[s]
        BY <1>6 DEF Saving
    <2>2. \A s, t \in Requests : Saving(s, p)' /\ Saving(t, p)' => s = t
        BY <1>1, <1>9, <2>1 DEF OneEachUnlessRaced
    <2>3. CASE row.provider = p /\ row.active /\ row.made
        <3>1. Saving(r, p)
            BY <1>2, <1>4, <2>3 DEF Saving
        <3>2. \A j \in ConnIds : Active(j, p)' => j = i
            BY <1>1, <1>3, <1>4, <1>5, <1>9, <2>3, <3>1 DEF OneEachUnlessRaced, Active
        <3>3. \A s \in Requests : ~Saving(s, p)'
            BY <1>1, <1>9, <2>1, <3>1 DEF OneEachUnlessRaced
        <3> QED BY <2>2, <3>2, <3>3
    <2>4. CASE ~(row.provider = p /\ row.active /\ row.made)
        <3>1. \A j \in ConnIds : Active(j, p)' => Active(j, p)
            BY <1>5, <2>4 DEF Active
        <3> QED BY <1>1, <1>9, <2>1, <2>2, <3>1 DEF OneEachUnlessRaced
    <2> QED BY <2>3, <2>4
<1>10. OneEachUnlessRaced'
    BY <1>2, <1>9 DEF OneEachUnlessRaced
<1> QED BY <1>7, <1>8, <1>10 DEF ConnInv

\* The steps of the calls of providers: a token's date is all that changes.
LEMMA ReadSteps ==
    ASSUME ConnInv, NEW r \in Requests,
           (\E i \in ConnIds : GetSecret(r, i)) \/ RefreshConnection(r) \/ CallProvider(r)
    PROVE  ConnInv'
<1>1. /\ ConnTypeOK /\ RequestShape /\ req[r] \in Request /\ conn \in [ConnIds -> Connection]
    BY RequestMoves DEF ConnInv, ConnTypeOK
<1>2. UNCHANGED <<signed, raced>>
    BY DEF GetSecret, RefreshConnection, CallProvider
<1>3. ASSUME NEW i \in ConnIds, GetSecret(r, i)
      PROVE  ConnInv'
    <2>0. PICK q \in Request :
              q = [pc |-> IF conn[i].due THEN "refresh" ELSE "call", id |-> i, row |-> conn[i]]
        BY <1>1 DEF Request
    <2>1. q.pc \in {"refresh", "call"} /\ q.id = i
        BY <2>0
    <2>2. req' \in [Requests -> Request] /\ req'[r] = q /\ \A s \in Requests \ {r} : req'[s] = req[s]
        BY <1>1, <1>3, <2>0, RequestMoves DEF GetSecret
    <2>3. ConnTypeOK' /\ UNCHANGED conn
        BY <1>1, <1>2, <1>3, <2>2 DEF ConnTypeOK, GetSecret
    <2> QED BY <1>2, <2>1, <2>2, <2>3, QuietSteps DEF Active, Saving
<1>4. CASE RefreshConnection(r)
    <2>9. PICK q \in Request : q = [req[r] EXCEPT !.pc = "call"]
        BY <1>1 DEF Request
    <2>1. q.pc = "call"
        BY <1>1, <2>9 DEF Request
    <2>2. req' = [req EXCEPT ![r] = q]
        BY <1>1, <1>4, <2>9 DEF RefreshConnection, ConnTypeOK
    <2>3. req' \in [Requests -> Request] /\ req'[r] = q /\ \A s \in Requests \ {r} : req'[s] = req[s]
        BY <1>1, <2>1, <2>2, RequestMoves
    <2>4. PICK i \in ConnIds : i = req[r].id
        BY <1>1, <1>4 DEF RequestShape, RefreshConnection
    <2>0. PICK row \in Connection : row = Refreshed(i, req[r].row)
        BY <1>1 DEF Refreshed, Connection
    <2>5. row.made = conn[i].made /\ row.active = conn[i].active /\ row.provider = conn[i].provider
        BY <1>1, <2>0 DEF Refreshed, Connection
    <2>6. conn' \in {conn, [conn EXCEPT ![i] = row]}
        BY <1>4, <2>4, <2>0 DEF RefreshConnection
    <2>7. ConnTypeOK'
        BY <1>1, <1>2, <2>3, <2>6 DEF ConnTypeOK
    <2>8. \A j \in ConnIds, p \in Providers : Active(j, p)' => Active(j, p)
        BY <1>1, <2>5, <2>6 DEF Active
    <2> QED BY <1>2, <2>1, <2>3, <2>7, <2>8, QuietSteps DEF Saving
<1>5. CASE CallProvider(r)
    <2>1. /\ req' \in [Requests -> Request] /\ req'[r].pc = "idle"
          /\ \A s \in Requests \ {r} : req'[s] = req[s]
        BY <1>1, <1>5, RequestMoves DEF CallProvider
    <2>2. ConnTypeOK' /\ UNCHANGED conn
        BY <1>1, <1>2, <1>5, <2>1 DEF ConnTypeOK, CallProvider
    <2> QED BY <1>2, <2>1, <2>2, QuietSteps DEF Active, Saving
<1> QED BY <1>3, <1>4, <1>5

\* States, deletions and the clock.
LEMMA RowFades ==
    ASSUME ConnInv,
           \/ \E p \in Providers : OAuthAuthorize(p) \/ StateExpires(p)
           \/ \E i \in ConnIds : DeleteConnection(i) \/ TokenExpires(i)
    PROVE  ConnInv'
<1>1. ConnTypeOK /\ conn \in [ConnIds -> Connection] /\ UNCHANGED <<req, raced>>
    BY DEF ConnInv, ConnTypeOK, OAuthAuthorize, StateExpires, DeleteConnection, TokenExpires
<1>2. /\ conn' \in [ConnIds -> Connection] /\ signed' \subseteq Providers
      /\ \A i \in ConnIds, p \in Providers : Active(i, p)' => Active(i, p)
    <2>1. CASE \E p \in Providers : OAuthAuthorize(p) \/ StateExpires(p)
        BY <1>1, <2>1 DEF OAuthAuthorize, StateExpires, ConnTypeOK, Active
    <2>2. ASSUME NEW i \in ConnIds, DeleteConnection(i)
          PROVE  /\ conn' \in [ConnIds -> Connection] /\ signed' \subseteq Providers
                 /\ \A j \in ConnIds, p \in Providers : Active(j, p)' => Active(j, p)
        BY <1>1, <2>2, ConnRecords DEF DeleteConnection, ConnTypeOK, Active
    <2>3. ASSUME NEW i \in ConnIds, TokenExpires(i)
          PROVE  /\ conn' \in [ConnIds -> Connection] /\ signed' \subseteq Providers
                 /\ \A j \in ConnIds, p \in Providers : Active(j, p)' => Active(j, p)
        <3>0. PICK row \in Connection : row = [conn[i] EXCEPT !.due = TRUE]
            BY <1>1 DEF Connection
        <3>1. /\ row.made = conn[i].made /\ row.active = conn[i].active
              /\ row.provider = conn[i].provider
            BY <1>1, <3>0 DEF Connection
        <3>2. conn' = [conn EXCEPT ![i] = row] /\ UNCHANGED signed
            BY <1>1, <2>3, <3>0 DEF TokenExpires
        <3> QED BY <1>1, <3>1, <3>2 DEF ConnTypeOK, Active
    <2> QED BY <2>1, <2>2, <2>3
<1>3. ConnTypeOK'
    BY <1>1, <1>2 DEF ConnTypeOK
<1>4. RequestShape'
    BY <1>1 DEF ConnInv, RequestShape
<1>5. OneEachUnlessRaced'
    BY <1>1, <1>2 DEF ConnInv, OneEachUnlessRaced, Saving
<1> QED BY <1>3, <1>4, <1>5 DEF ConnInv

LEMMA ConnStarts ==
    ASSUME ConnInit
    PROVE  ConnInv
<1>1. ConnTypeOK
    BY ConnRecords DEF ConnInit, ConnTypeOK
<1>2. (\A i \in ConnIds : conn[i].made = FALSE) /\ (\A r \in Requests : req[r].pc = "idle")
    BY ConnRecords DEF ConnInit
<1> QED BY <1>1, <1>2 DEF ConnInv, RequestShape, OneEachUnlessRaced, Active, Saving

LEMMA ConnMoves ==
    ASSUME ConnInv, ConnNext
    PROVE  ConnInv'
<1>1. ASSUME NEW r \in Requests, NEW i \in ConnIds, NEW p \in Providers,
             OAuthCallback(r, i, p) \/ \E active \in BOOLEAN :
                 CreateConnection(r, i, p, active) \/ PatchConnection(r, i, p, active)
      PROVE  ConnInv'
    BY <1>1, BeginSteps
<1>2. ASSUME NEW r \in Requests, NEW i \in ConnIds, PatchOther(r, i) \/ GetSecret(r, i)
      PROVE  ConnInv'
    BY <1>2, BeginSteps, ReadSteps
<1>3. ASSUME NEW r \in Requests,
             Insert(r) \/ SaveConnection(r) \/ RefreshConnection(r) \/ CallProvider(r)
      PROVE  ConnInv'
    BY <1>3, WriteSteps, ReadSteps
<1> QED BY <1>1, <1>2, <1>3, RowFades DEF ConnNext

LEMMA ConnStutters ==
    ASSUME ConnInv, UNCHANGED connVars
    PROVE  ConnInv'
BY DEF connVars, ConnInv, ConnTypeOK, RequestShape, OneEachUnlessRaced, Active, Saving

\* A second active connection of a provider needs two edits of it that overlap, or
\* a row that is moved to it.
THEOREM OneActive == Spec => []SecondActiveNeedsARace
<1>1. Init => ConnInv
    BY ConnStarts DEF Init
<1>2. ConnInv /\ [Next]_<<part, scene, callVars, connVars, grantVars, ghlVars, boardVars>> => ConnInv'
    BY ConnMoves, ConnStutters DEF Next
<1>3. ASSUME ConnInv
      PROVE  SecondActiveNeedsARace
    <2>1. ASSUME NEW p \in Providers \ raced
          PROVE  Cardinality({i \in ConnIds : conn[i].made /\ conn[i].active /\ conn[i].provider = p}) <= 1
        <3> DEFINE A == {i \in ConnIds : conn[i].made /\ conn[i].active /\ conn[i].provider = p}
        <3>1. \A i, j \in A : i = j
            BY <1>3, <2>1 DEF ConnInv, OneEachUnlessRaced, Active
        <3>2. A = {} \/ \E i \in A : A = {i}
            BY <3>1
        <3> HIDE DEF A
        <3>3. Cardinality(A) <= 1
            BY <3>2, FS_EmptySet, FS_Singleton
        <3> QED BY <3>3 DEF A
    <2> QED BY <2>1 DEF SecondActiveNeedsARace
<1> QED BY <1>1, <1>2, <1>3, PTL DEF Spec

(* -------------------------- GHL connections ---------------------------- *)

\* A request beyond its first step has a client, and revisions that were drawn.
AskShape ==
    \A q \in Callers :
        /\ ask[q].pc \in {"put", "test", "collect", "open", "save"} => ask[q].c \in Customers
        /\ ask[q].pc \in {"test", "collect"} => ask[q].rev # 0
        /\ ask[q].rev <= drawn

\* A revision is of one connection, and never drawn again; what is shown of a
\* connection is of its revision and its location.
ConnectionShape ==
    /\ \A c \in Customers :
          /\ ghl[c].rev <= drawn /\ ghl[c].tested \in {0, ghl[c].rev}
          /\ ghl[c].details \in {NoWhere, ghl[c].location}
    /\ \A c, d \in Customers : ghl[c].rev = ghl[d].rev /\ ghl[c].rev # 0 => c = d
    /\ \A r \in Revisions : evidence[r] # NoWhere => r <= drawn

\* So a request that has read the connection as it still is has its location, and
\* an edit that was checked against it does not move the client.
SameLocation ==
    \A c \in Customers : ghl[c].rev # 0 =>
        /\ evidence[ghl[c].rev] \in {NoWhere, ghl[c].location}
        /\ \A q \in Callers : ask[q].rev = ghl[c].rev =>
             /\ ask[q].pc = "collect" => ask[q].location = ghl[c].location
             /\ ask[q].pc = "save" /\ ask[q].c = c => ask[q].location = ask[q].shown

GhlInv == GhlTypeOK /\ AskShape /\ ConnectionShape /\ SameLocation /\ LocationsAgree

LEMMA AskMoves ==
    ASSUME GhlTypeOK, NEW q \in Callers
    PROVE  /\ ask[q] \in Ask
           /\ \A a \in Ask : Goes(q, a) =>
                 /\ ask' \in [Callers -> Ask] /\ ask'[q] = a
                 /\ \A p \in Callers \ {q} : ask'[p] = ask[p]
           /\ NoAsk \in Ask /\ NoAsk.pc = "idle" /\ NoAsk.rev = 0
           /\ Replied(q) =>
                 /\ ask' \in [Callers -> Ask] /\ ask'[q].pc = "done" /\ ask'[q].rev = 0
                 /\ \A p \in Callers \ {q} : ask'[p] = ask[p]
<1>1. ask \in [Callers -> Ask] /\ ask[q] \in Ask
    BY DEF GhlTypeOK
<1>2. NoAsk \in Ask /\ NoAsk.pc = "idle" /\ NoAsk.rev = 0
    BY AccountsConstants DEF NoAsk, Ask, Place
<1>3. PICK done \in Ask : done = [NoAsk EXCEPT !.pc = "done"]
    BY <1>2 DEF Ask
<1>4. done.pc = "done" /\ done.rev = 0
    BY <1>2, <1>3 DEF Ask
<1>5. \A a \in Ask : Goes(q, a) =>
          /\ ask' \in [Callers -> Ask] /\ ask'[q] = a
          /\ \A p \in Callers \ {q} : ask'[p] = ask[p]
    BY <1>1 DEF Goes
<1>6. Replied(q) => Goes(q, done)
    BY <1>3 DEF Replied
<1> QED BY <1>1, <1>2, <1>4, <1>5, <1>6

\* A request goes on, or is answered, and nothing else changes.
LEMMA AskOnly ==
    ASSUME GhlInv, NEW q \in Callers, UNCHANGED <<customer, ghl, drawn, evidence, overtaken>>,
           ask' \in [Callers -> Ask], \A p \in Callers \ {q} : ask'[p] = ask[p],
           ask'[q].pc \in {"put", "test", "collect", "open", "save"} => ask'[q].c \in Customers,
           ask'[q].pc \in {"test", "collect"} => ask'[q].rev # 0,
           ask'[q].rev <= drawn,
           \A c \in Customers : ghl[c].rev # 0 /\ ask'[q].rev = ghl[c].rev =>
             /\ ask'[q].pc = "collect" => ask'[q].location = ghl[c].location
             /\ ask'[q].pc = "save" /\ ask'[q].c = c => ask'[q].location = ask'[q].shown
    PROVE  GhlInv'
<1>1. GhlTypeOK'
    BY DEF GhlInv, GhlTypeOK
<1>2. AskShape'
    BY DEF GhlInv, AskShape
<1>3. ConnectionShape' /\ LocationsAgree'
    BY DEF GhlInv, ConnectionShape, LocationsAgree, Connected, Here
<1>4. SameLocation'
    BY DEF GhlInv, SameLocation
<1> QED BY <1>1, <1>2, <1>3, <1>4 DEF GhlInv

\* The connection of one client goes, is replaced by one of a new revision, or keeps
\* its revision; and the client then shows its location, unless an edit overtook it.
LEMMA OneConnection ==
    ASSUME GhlInv, NEW q \in Callers, NEW c \in Customers, GhlTypeOK',
           ask' \in [Callers -> Ask], \A p \in Callers \ {q} : ask'[p] = ask[p],
           ask'[q].pc = "done", ask'[q].rev = 0,
           \A d \in Customers \ {c} : ghl'[d] = ghl[d] /\ customer'[d] = customer[d]
                                     /\ (d \in overtaken' <=> d \in overtaken),
           \/ ghl'[c].rev = 0 /\ drawn' = drawn
           \/ ghl'[c].rev = ghl[c].rev /\ ghl'[c].location = ghl[c].location /\ drawn' = drawn
           \/ ghl'[c].rev = drawn + 1 /\ drawn' = drawn + 1,
           ghl'[c].tested \in {0, ghl'[c].rev}, ghl'[c].details \in {NoWhere, ghl'[c].location},
           ghl'[c].rev # 0 =>
               Here(c)' /\ (c \notin overtaken' => customer'[c].location = ghl'[c].location),
           UNCHANGED evidence
    PROVE  GhlInv'
<1>1. /\ GhlTypeOK /\ AskShape /\ ConnectionShape /\ SameLocation /\ LocationsAgree
      /\ drawn \in Nat /\ drawn' \in Nat /\ drawn <= drawn' /\ MaxRevision \in Nat
    BY AccountsConstants DEF GhlInv, GhlTypeOK
<1>2. \A p \in Callers : ask[p] \in Ask /\ ask[p].rev \in Nat /\ ask[p].rev <= drawn
    BY <1>1 DEF GhlTypeOK, AskShape, Ask
<1>3. \A d \in Customers : ghl[d].rev \in Nat /\ ghl[d].rev <= drawn
    BY <1>1 DEF GhlTypeOK, ConnectionShape, GhlConnection
<1>4. AskShape'
    BY <1>1, <1>2 DEF AskShape
<1>5. ConnectionShape'
    <2>1. \A d \in Customers :
              /\ ghl'[d].rev <= drawn' /\ ghl'[d].tested \in {0, ghl'[d].rev}
              /\ ghl'[d].details \in {NoWhere, ghl'[d].location}
        BY <1>1, <1>3 DEF ConnectionShape
    <2>2. \A d \in Customers \ {c} : ghl'[c].rev = ghl'[d].rev => ghl'[c].rev = 0
        BY <1>1, <1>3 DEF ConnectionShape
    <2>3. \A r \in Revisions : evidence'[r] # NoWhere => r <= drawn'
        BY <1>1 DEF ConnectionShape, Revisions
    <2> QED BY <1>1, <2>1, <2>2, <2>3 DEF ConnectionShape
<1>6. SameLocation'
    <2>1. ASSUME NEW d \in Customers, ghl'[d].rev # 0
          PROVE  evidence'[ghl'[d].rev] \in {NoWhere, ghl'[d].location}
        <3>1. CASE ghl'[d].rev = ghl[d].rev /\ ghl'[d].location = ghl[d].location
            BY <1>1, <2>1, <3>1 DEF SameLocation
        <3>2. CASE ghl'[d].rev = drawn + 1
            <4>1. ghl'[d].rev \in Revisions
                BY <2>1 DEF GhlTypeOK, GhlConnection, Revisions
            <4> QED BY <1>1, <3>2, <4>1 DEF ConnectionShape, Revisions
        <3> QED BY <2>1, <3>1, <3>2
    <2>2. ASSUME NEW d \in Customers, ghl'[d].rev # 0, NEW p \in Callers, ask'[p].rev = ghl'[d].rev
          PROVE  /\ ask'[p].pc = "collect" => ask'[p].location = ghl'[d].location
                 /\ ask'[p].pc = "save" /\ ask'[p].c = d => ask'[p].location = ask'[p].shown
        <3>1. p # q /\ ask'[p] = ask[p]
            BY <2>2
        <3>2. ghl'[d].rev # drawn + 1
            BY <1>1, <1>2, <2>2, <3>1
        <3>3. ghl'[d].rev = ghl[d].rev /\ ghl'[d].location = ghl[d].location
            BY <2>2, <3>2
        <3> QED BY <1>1, <2>2, <3>1, <3>3 DEF SameLocation
    <2> QED BY <2>1, <2>2 DEF SameLocation
<1>7. LocationsAgree'
    BY <1>1 DEF LocationsAgree, Connected, Here
<1> QED BY <1>4, <1>5, <1>6, <1>7 DEF GhlInv

\* The first steps of a request and its checks.
LEMMA AskSteps ==
    ASSUME GhlInv, NEW q \in Callers,
           \/ Existing(q) \/ ValidateClient(q) \/ AskFails(q)
           \/ \E l \in Locations : OnboardGhl(q, l)
           \/ \E c \in Customers, l \in Locations : PutConnection(q, c, l)
           \/ \E c \in Customers, l \in Place : OpenClient(q, c, l)
           \/ \E c \in Customers, purpose \in {"test", "collect"} : ReadConnection(q, c, purpose)
    PROVE  GhlInv'
<1>1. /\ GhlTypeOK /\ AskShape /\ ConnectionShape /\ SameLocation /\ ask[q] \in Ask
      /\ drawn \in 0..MaxRevision /\ MaxRevision \in Nat
      /\ \A c \in Customers : /\ ghl[c] \in GhlConnection /\ customer[c] \in ClientRow
      /\ NoAsk \in Ask /\ NoAsk.pc = "idle" /\ NoAsk.rev = 0
    BY AskMoves, AccountsConstants DEF GhlInv, GhlTypeOK
<1>2. UNCHANGED <<customer, ghl, drawn, evidence, overtaken>>
    BY DEF Existing, ValidateClient, AskFails, OnboardGhl, PutConnection, OpenClient, ReadConnection
<1>3. CASE Replied(q)
    BY <1>1, <1>2, <1>3, AskMoves, AskOnly
<1>4. CASE Existing(q) /\ ~Replied(q)
    <2>1. PICK a \in Ask : a = [ask[q] EXCEPT !.pc = "create"]
        BY <1>1 DEF Ask
    <2>2. Goes(q, a) /\ a.pc = "create" /\ a.rev = ask[q].rev
        BY <1>1, <1>4, <2>1 DEF Existing, Ask
    <2> QED BY <1>1, <1>2, <2>2, AskMoves, AskOnly DEF AskShape
<1>5. CASE ValidateClient(q)
    <2>1. PICK a \in Ask : a = [ask[q] EXCEPT !.pc = "save"]
        BY <1>1 DEF Ask
    <2>2. /\ Goes(q, a) /\ a.pc = "save" /\ a.rev = ask[q].rev /\ a.c = ask[q].c
          /\ a.location = ask[q].location /\ a.shown = ask[q].shown
        BY <1>1, <1>5, <2>1 DEF ValidateClient, Ask
    <2>3. ask[q].pc = "open" /\ MayMove(a.c, a.shown, a.location)
        BY <1>5, <2>2 DEF ValidateClient
    <2>4. \A c \in Customers : ghl[c].rev # 0 /\ a.c = c => a.location = a.shown
        BY <2>3 DEF MayMove, Connected
    <2> QED BY <1>1, <1>2, <2>2, <2>3, <2>4, AskMoves, AskOnly DEF AskShape
<1>6. ASSUME NEW l \in Locations, OnboardGhl(q, l)
      PROVE  GhlInv'
    <2>1. PICK a \in Ask : a = [NoAsk EXCEPT !.pc = "onboard", !.location = l]
        BY <1>1 DEF Ask, Place
    <2>2. Goes(q, a) /\ a.pc = "onboard" /\ a.rev = 0
        BY <1>1, <1>6, <2>1 DEF OnboardGhl, Ask
    <2> QED BY <1>1, <1>2, <2>2, AskMoves, AskOnly
<1>7. ASSUME NEW c \in Customers, NEW l \in Locations, PutConnection(q, c, l)
      PROVE  GhlInv'
    <2>1. PICK a \in Ask : a = [NoAsk EXCEPT !.pc = "put", !.c = c, !.location = l]
        BY <1>1 DEF Ask, Place
    <2>2. Goes(q, a) /\ a.pc = "put" /\ a.rev = 0 /\ a.c = c
        BY <1>1, <1>7, <2>1 DEF PutConnection, Ask
    <2> QED BY <1>1, <1>2, <2>2, AskMoves, AskOnly
<1>8. ASSUME NEW c \in Customers, NEW l \in Place, OpenClient(q, c, l)
      PROVE  GhlInv'
    <2>1. PICK a \in Ask : a = [NoAsk EXCEPT !.pc = "open", !.c = c, !.location = l,
                                            !.shown = customer[c].location, !.rev = ghl[c].rev]
        <3>1. customer[c].location \in Place /\ ghl[c].rev \in 0..MaxRevision
            BY <1>1 DEF ClientRow, GhlConnection
        <3> QED BY <1>1, <3>1 DEF Ask
    <2>2. Goes(q, a) /\ a.pc = "open" /\ a.rev = ghl[c].rev /\ a.c = c
        BY <1>1, <1>8, <2>1 DEF OpenClient, Ask
    <2> QED BY <1>1, <1>2, <2>2, AskMoves, AskOnly DEF ConnectionShape
<1>9. ASSUME NEW c \in Customers, NEW purpose \in {"test", "collect"}, ReadConnection(q, c, purpose)
      PROVE  GhlInv'
    <2>1. PICK a \in Ask : a = [NoAsk EXCEPT !.pc = purpose, !.c = c, !.rev = ghl[c].rev,
                                            !.location = ghl[c].location]
        <3>1. ghl[c].location \in Place /\ ghl[c].rev \in 0..MaxRevision
            BY <1>1 DEF GhlConnection
        <3> QED BY <1>1, <3>1 DEF Ask
    <2>2. /\ Goes(q, a) /\ a.pc = purpose /\ a.rev = ghl[c].rev /\ a.c = c
          /\ a.location = ghl[c].location /\ ghl[c].rev # 0
        BY <1>1, <1>9, <2>1 DEF ReadConnection, Ask, Connected
    <2>3. \A d \in Customers : ghl[d].rev # 0 /\ a.rev = ghl[d].rev => d = c
        BY <1>1, <2>2 DEF ConnectionShape
    <2>4. ask'[q] = a
        BY <1>1, <2>2, AskMoves
    <2> QED BY <1>1, <1>2, <2>2, <2>3, <2>4, AskMoves, AskOnly DEF ConnectionShape
<1>10. CASE AskFails(q)
    BY <1>3, <1>10 DEF AskFails
<1> QED BY <1>3, <1>4, <1>5, <1>6, <1>7, <1>8, <1>9, <1>10

\* The steps that write a client or its connection.
LEMMA WritingSteps ==
    ASSUME GhlInv, NEW q \in Callers,
           \/ OnboardCreates(q) \/ SaveToken(q) \/ SaveWithoutToken(q) \/ GhlTest(q) \/ SaveClient(q)
           \/ \E c \in Customers : DeleteGhlConnection(q, c) \/ DestroyClient(q, c)
           \/ \E c \in Customers, l \in Place : CreateClient(q, c, l)
    PROVE  GhlInv'
<1>1. /\ GhlTypeOK /\ AskShape /\ ConnectionShape /\ SameLocation /\ LocationsAgree /\ ask[q] \in Ask
      /\ drawn \in 0..MaxRevision /\ MaxRevision \in Nat /\ NoWhere \notin Locations
      /\ customer \in [Customers -> ClientRow] /\ ghl \in [Customers -> GhlConnection]
      /\ evidence \in [Revisions -> Place] /\ overtaken \subseteq Customers
    BY AskMoves, AccountsConstants DEF GhlInv, GhlTypeOK
<1>2. ask[q].location \in Place /\ ask[q].rev \in 0..MaxRevision /\ NoWhere \in Place
    BY <1>1 DEF Ask, Place
<1>3. UNCHANGED evidence /\ Replied(q)
    BY DEF OnboardCreates, SaveToken, SaveWithoutToken, GhlTest, SaveClient, DeleteGhlConnection,
           DestroyClient, CreateClient
<1>4. /\ ask' \in [Callers -> Ask] /\ ask'[q].pc = "done" /\ ask'[q].rev = 0
      /\ \A p \in Callers \ {q} : ask'[p] = ask[p]
    BY <1>1, <1>3, AskMoves
\* What one client's row and connection are written with.
<1>5. ASSUME NEW c \in Customers, NEW row \in ClientRow, NEW g \in GhlConnection,
             customer' = [customer EXCEPT ![c] = row], ghl' = [ghl EXCEPT ![c] = g],
             overtaken' \subseteq Customers,
             \A d \in Customers \ {c} : d \in overtaken' <=> d \in overtaken,
             \/ g.rev = 0 /\ drawn' = drawn
             \/ g.rev = ghl[c].rev /\ g.location = ghl[c].location /\ drawn' = drawn
             \/ g.rev = drawn + 1 /\ drawn' = drawn + 1,
             g.tested \in {0, g.rev}, g.details \in {NoWhere, g.location},
             g.rev # 0 => row.there = "here" /\ (c \notin overtaken' => row.location = g.location)
      PROVE  GhlInv'
    <2>1. /\ customer' \in [Customers -> ClientRow] /\ customer'[c] = row
          /\ ghl' \in [Customers -> GhlConnection] /\ ghl'[c] = g
          /\ \A d \in Customers \ {c} : ghl'[d] = ghl[d] /\ customer'[d] = customer[d]
        BY <1>1, <1>5
    <2>2. drawn' \in 0..MaxRevision
        BY <1>1, <1>5 DEF GhlConnection
    <2>3. GhlTypeOK'
        BY <1>1, <1>3, <1>4, <1>5, <2>1, <2>2 DEF GhlTypeOK
    <2> QED BY <1>3, <1>4, <1>5, <2>1, <2>3, OneConnection DEF Here
<1>6. \A c \in Customers :
          /\ customer[c] \in ClientRow /\ ghl[c] \in GhlConnection
          /\ customer = [customer EXCEPT ![c] = customer[c]] /\ ghl = [ghl EXCEPT ![c] = ghl[c]]
          /\ ghl[c].tested \in {0, ghl[c].rev} /\ ghl[c].details \in {NoWhere, ghl[c].location}
    BY <1>1 DEF ConnectionShape
<1>7. NoConnection \in GhlConnection /\ NoConnection.rev = 0 /\ NoConnection.tested = 0
      /\ NoConnection.details = NoWhere
    BY <1>1, <1>2 DEF NoConnection, GhlConnection
<1>8. CASE OnboardCreates(q)
    <2>1. PICK c \in Customers :
              /\ customer' = [customer EXCEPT ![c] = [there |-> "here", location |-> ask[q].location]]
              /\ ghl' = [ghl EXCEPT ![c] = [rev |-> drawn + 1, location |-> ask[q].location,
                                           details |-> ask[q].location, tested |-> 0]]
              /\ Settled(c)
        BY <1>8 DEF OnboardCreates
    <2>2. drawn < MaxRevision /\ drawn' = drawn + 1
        BY <1>8 DEF OnboardCreates
    <2>3. PICK row \in ClientRow : row = [there |-> "here", location |-> ask[q].location]
        BY <1>2 DEF ClientRow
    <2>4. PICK g \in GhlConnection : g = [rev |-> drawn + 1, location |-> ask[q].location,
                                         details |-> ask[q].location, tested |-> 0]
        <3>1. drawn + 1 \in 0..MaxRevision /\ 0 \in 0..MaxRevision
            BY <1>1, <2>2
        <3> DEFINE g == [rev |-> drawn + 1, location |-> ask[q].location,
                         details |-> ask[q].location, tested |-> 0]
        <3>2. g \in GhlConnection
            BY <1>2, <3>1 DEF GhlConnection
        <3> QED BY <3>2
    <2>5. /\ row.there = "here" /\ row.location = g.location /\ g.rev = drawn + 1
          /\ g.tested = 0 /\ g.details = g.location
        BY <2>3, <2>4
    <2>6. overtaken' = overtaken \ {c}
        BY <2>1 DEF Settled
    <2> QED BY <1>1, <1>5, <2>1, <2>2, <2>3, <2>4, <2>5, <2>6
<1>9. CASE SaveToken(q)
    <2>1. PICK c \in Customers : c = ask[q].c
        BY <1>1, <1>9 DEF SaveToken, AskShape
    <2>2. /\ drawn < MaxRevision /\ drawn' = drawn + 1 /\ customer[c].there = "here"
          /\ overtaken' = overtaken \ {c}
        BY <1>9, <2>1 DEF SaveToken, Here, Settled
    <2>3. PICK row \in ClientRow : row = [customer[c] EXCEPT !.location = ask[q].location]
        BY <1>2, <1>6 DEF ClientRow
    <2>4. row.there = "here" /\ row.location = ask[q].location
        BY <1>6, <2>2, <2>3 DEF ClientRow
    <2>5. PICK g \in GhlConnection : g = Replaced(ghl[c], ask[q].location)
        <3>1. drawn + 1 \in 0..MaxRevision /\ 0 \in 0..MaxRevision
            BY <1>1, <2>2
        <3>2. ghl[c].details \in Place
            BY <1>6 DEF GhlConnection
        <3>3. Replaced(ghl[c], ask[q].location) \in GhlConnection
            BY <1>2, <3>1, <3>2 DEF GhlConnection, Replaced
        <3> QED BY <3>3
    <2>6. /\ g.rev = drawn + 1 /\ g.location = ask[q].location /\ g.tested = 0
          /\ g.details \in {NoWhere, g.location}
        BY <1>6, <2>5 DEF Replaced
    <2>7. customer' = [customer EXCEPT ![c] = row] /\ ghl' = [ghl EXCEPT ![c] = g]
        BY <1>1, <1>9, <2>1, <2>3, <2>5 DEF SaveToken
    <2> QED BY <1>1, <1>5, <2>2, <2>4, <2>6, <2>7
<1>10. CASE SaveWithoutToken(q)
    <2>1. PICK c \in Customers : c = ask[q].c
        BY <1>1, <1>10 DEF SaveWithoutToken, AskShape
    <2>2. /\ customer[c].there = "here" /\ ghl[c].location = ask[q].location
          /\ UNCHANGED <<ghl, drawn>> /\ overtaken' = overtaken \ {c}
        BY <1>10, <2>1 DEF SaveWithoutToken, Here, Settled
    <2>3. PICK row \in ClientRow : row = [customer[c] EXCEPT !.location = ask[q].location]
        BY <1>2, <1>6 DEF ClientRow
    <2>4. row.there = "here" /\ row.location = ask[q].location
        BY <1>6, <2>2, <2>3 DEF ClientRow
    <2>5. customer' = [customer EXCEPT ![c] = row]
        BY <1>1, <1>10, <2>1, <2>3 DEF SaveWithoutToken
    <2>6. PICK g \in GhlConnection : g = ghl[c]
        BY <1>6
    <2>7. /\ ghl' = [ghl EXCEPT ![c] = g] /\ g.rev = ghl[c].rev /\ g.location = ghl[c].location
          /\ g.tested \in {0, g.rev} /\ g.details \in {NoWhere, g.location} /\ drawn' = drawn
        BY <1>6, <2>2, <2>6
    <2>8. /\ overtaken' \subseteq Customers
          /\ \A d \in Customers \ {c} : d \in overtaken' <=> d \in overtaken
        BY <1>1, <2>2
    <2>9. row.location = g.location
        BY <2>2, <2>4, <2>6
    <2> QED BY <1>5, <2>4, <2>5, <2>7, <2>8, <2>9
<1>11. CASE GhlTest(q)
    <2>1. PICK c \in Customers : c = ask[q].c
        BY <1>1, <1>11 DEF GhlTest, AskShape
    <2>2. ghl[c].rev = ask[q].rev /\ UNCHANGED <<customer, drawn, overtaken>>
        BY <1>11, <2>1 DEF GhlTest, StillThat
    <2>3. PICK g \in GhlConnection : g = [ghl[c] EXCEPT !.tested = ask[q].rev]
        BY <1>2, <1>6 DEF GhlConnection
    <2>4. /\ g.rev = ghl[c].rev /\ g.location = ghl[c].location /\ g.details = ghl[c].details
          /\ g.tested = g.rev
        BY <1>6, <2>2, <2>3 DEF GhlConnection
    <2>5. ghl' = [ghl EXCEPT ![c] = g]
        BY <1>1, <1>11, <2>1, <2>3 DEF GhlTest
    <2>6. g.rev # 0 => customer[c].there = "here" /\ (c \notin overtaken => customer[c].location = g.location)
        BY <1>1, <2>4 DEF LocationsAgree, Connected, Here
    <2>7. PICK row \in ClientRow : row = customer[c]
        BY <1>6
    <2>8. customer' = [customer EXCEPT ![c] = row]
        BY <1>6, <2>2, <2>7
    <2>9. overtaken' = overtaken /\ overtaken' \subseteq Customers /\ drawn' = drawn
        BY <1>1, <2>2
    <2>10. g.tested \in {0, g.rev} /\ g.details \in {NoWhere, g.location}
        BY <1>6, <2>4
    <2> QED BY <1>5, <2>4, <2>5, <2>6, <2>7, <2>8, <2>9, <2>10
<1>12. CASE SaveClient(q)
    <2>1. PICK c \in Customers : c = ask[q].c
        BY <1>1, <1>12 DEF SaveClient, AskShape
    <2>2. PICK row \in ClientRow : row = [there |-> "here", location |-> ask[q].location]
        BY <1>2 DEF ClientRow
    <2>3. /\ customer' = [customer EXCEPT ![c] = row] /\ UNCHANGED <<ghl, drawn>>
          /\ overtaken' = IF ghl[c].rev # ask[q].rev \/ customer[c].location # ask[q].shown
                          THEN overtaken \cup {c} ELSE overtaken
          /\ row.there = "here" /\ row.location = ask[q].location /\ ask[q].pc = "save"
        BY <1>12, <2>1, <2>2 DEF SaveClient
    <2>4. ghl[c].rev # 0 /\ c \notin overtaken' => row.location = ghl[c].location
        <3>1. SUFFICES ASSUME ghl[c].rev # 0, c \notin overtaken'
                       PROVE  row.location = ghl[c].location
            OBVIOUS
        <3>2. ghl[c].rev = ask[q].rev /\ customer[c].location = ask[q].shown /\ c \notin overtaken
            BY <2>3, <3>1
        <3>3. ask[q].location = ask[q].shown
            BY <1>1, <2>1, <2>3, <3>1, <3>2 DEF SameLocation
        <3> QED BY <1>1, <2>3, <3>1, <3>2, <3>3 DEF LocationsAgree, Connected
    <2>5. PICK g \in GhlConnection : g = ghl[c]
        BY <1>6
    <2>6. /\ ghl' = [ghl EXCEPT ![c] = g] /\ g.rev = ghl[c].rev /\ g.location = ghl[c].location
          /\ g.tested \in {0, g.rev} /\ g.details \in {NoWhere, g.location} /\ drawn' = drawn
        BY <1>6, <2>3, <2>5
    <2>7. /\ overtaken' \subseteq Customers
          /\ \A d \in Customers \ {c} : d \in overtaken' <=> d \in overtaken
        BY <1>1, <2>3
    <2> QED BY <1>5, <2>3, <2>4, <2>5, <2>6, <2>7
<1>13. ASSUME NEW c \in Customers, DeleteGhlConnection(q, c)
       PROVE  GhlInv'
    <2>1. PICK row \in ClientRow : row = [customer[c] EXCEPT !.location = NoWhere]
        BY <1>2, <1>6 DEF ClientRow
    <2>2. /\ customer' = [customer EXCEPT ![c] = row] /\ ghl' = [ghl EXCEPT ![c] = NoConnection]
          /\ overtaken' = overtaken \ {c} /\ UNCHANGED drawn
        BY <1>1, <1>13, <2>1 DEF DeleteGhlConnection, Settled
    <2> QED BY <1>1, <1>5, <1>7, <2>2
<1>14. ASSUME NEW c \in Customers, DestroyClient(q, c)
       PROVE  GhlInv'
    <2>1. PICK row \in ClientRow : row = [there |-> "gone", location |-> NoWhere]
        BY <1>2 DEF ClientRow
    <2>2. /\ customer' = [customer EXCEPT ![c] = row] /\ ghl' = [ghl EXCEPT ![c] = NoConnection]
          /\ overtaken' = overtaken \ {c} /\ UNCHANGED drawn
        BY <1>1, <1>14, <2>1 DEF DestroyClient, Settled
    <2> QED BY <1>1, <1>5, <1>7, <2>2
<1>15. ASSUME NEW c \in Customers, NEW l \in Place, CreateClient(q, c, l)
       PROVE  GhlInv'
    <2>1. PICK row \in ClientRow : row = [there |-> "here", location |-> l]
        BY DEF ClientRow
    <2>2. /\ customer' = [customer EXCEPT ![c] = row] /\ UNCHANGED <<ghl, drawn, overtaken>>
          /\ customer[c].there = "never"
        BY <1>1, <1>15, <2>1 DEF CreateClient
    <2>3. ghl[c].rev = 0
        BY <1>1, <2>2 DEF LocationsAgree, Connected, Here
    <2> QED BY <1>1, <1>5, <1>6, <2>2, <2>3
<1> QED BY <1>8, <1>9, <1>10, <1>11, <1>12, <1>13, <1>14, <1>15

\* Records come to the cache, and go.
LEMMA CacheSteps ==
    ASSUME GhlInv, (\E q \in Callers : Collect(q)) \/ (\E r \in Revisions : EvidenceExpires(r))
    PROVE  GhlInv'
<1>1. /\ GhlTypeOK /\ AskShape /\ ConnectionShape /\ SameLocation /\ LocationsAgree
      /\ evidence \in [Revisions -> Place] /\ UNCHANGED <<customer, ghl, drawn, overtaken>>
      /\ drawn \in 0..MaxRevision /\ MaxRevision \in Nat
    BY AccountsConstants DEF GhlInv, GhlTypeOK, Collect, EvidenceExpires
<1>2. /\ ask' \in [Callers -> Ask] /\ AskShape'
      /\ \A q \in Callers : ask'[q].pc \in {"collect", "save"} => ask'[q] = ask[q]
    <2>1. ASSUME NEW q \in Callers, Collect(q)
          PROVE  /\ ask' \in [Callers -> Ask] /\ AskShape'
                 /\ \A p \in Callers : ask'[p].pc \in {"collect", "save"} => ask'[p] = ask[p]
        <3>1. /\ ask' \in [Callers -> Ask] /\ ask'[q].pc = "done" /\ ask'[q].rev = 0
              /\ \A p \in Callers \ {q} : ask'[p] = ask[p]
            BY <1>1, <2>1, AskMoves DEF Collect
        <3> QED BY <1>1, <3>1 DEF AskShape
    <2>2. ASSUME NEW r \in Revisions, EvidenceExpires(r)
          PROVE  UNCHANGED ask
        BY <2>2 DEF EvidenceExpires
    <2> QED BY <1>1, <2>1, <2>2 DEF AskShape, GhlTypeOK
<1>3. PICK r \in Revisions, l \in Place :
          /\ evidence' = [evidence EXCEPT ![r] = l]
          /\ l # NoWhere => r <= drawn
          /\ \A c \in Customers : ghl[c].rev = r => l \in {NoWhere, ghl[c].location}
    <2>1. ASSUME NEW q \in Callers, Collect(q)
          PROVE  \E r \in Revisions, l \in Place :
                     /\ evidence' = [evidence EXCEPT ![r] = l]
                     /\ l # NoWhere => r <= drawn
                     /\ \A c \in Customers : ghl[c].rev = r => l \in {NoWhere, ghl[c].location}
        <3>1. ask[q] \in Ask /\ ask[q].pc = "collect" /\ ask[q].rev # 0 /\ ask[q].rev <= drawn
            BY <1>1, <2>1, AskMoves DEF Collect, AskShape
        <3>2. PICK r \in Revisions : r = ask[q].rev
            BY <1>1, <3>1 DEF Ask, Revisions
        <3>3. PICK l \in Place : l = IF evidence[r] = NoWhere THEN ask[q].location ELSE evidence[r]
            BY <1>1, <3>1 DEF Ask
        <3>4. evidence' = [evidence EXCEPT ![r] = l]
            BY <1>1, <2>1, <3>2, <3>3 DEF Collect
        <3>5. \A c \in Customers : ghl[c].rev = r => l \in {NoWhere, ghl[c].location}
            BY <1>1, <3>1, <3>2, <3>3 DEF SameLocation
        <3> QED BY <3>1, <3>2, <3>4, <3>5
    <2>2. ASSUME NEW r \in Revisions, EvidenceExpires(r)
          PROVE  \E l \in Place :
                     /\ evidence' = [evidence EXCEPT ![r] = l]
                     /\ l # NoWhere => r <= drawn
                     /\ \A c \in Customers : ghl[c].rev = r => l \in {NoWhere, ghl[c].location}
        BY <2>2 DEF EvidenceExpires, Place
    <2> QED BY <2>1, <2>2
<1>4. /\ evidence' \in [Revisions -> Place] /\ evidence'[r] = l
      /\ \A s \in Revisions \ {r} : evidence'[s] = evidence[s]
    BY <1>1, <1>3
<1>5. GhlTypeOK'
    BY <1>1, <1>2, <1>4 DEF GhlTypeOK
<1>6. ConnectionShape' /\ LocationsAgree'
    BY <1>1, <1>3, <1>4 DEF ConnectionShape, LocationsAgree, Connected, Here
<1>7. SameLocation'
    <2>1. ASSUME NEW c \in Customers, ghl[c].rev # 0
          PROVE  evidence'[ghl[c].rev] \in {NoWhere, ghl[c].location}
        <3>1. ghl[c].rev \in Revisions
            BY <1>1, <2>1 DEF GhlTypeOK, GhlConnection, Revisions
        <3> QED BY <1>1, <1>3, <1>4, <2>1, <3>1 DEF SameLocation
    <2>2. ASSUME NEW c \in Customers, ghl[c].rev # 0, NEW q \in Callers, ask'[q].rev = ghl[c].rev
          PROVE  /\ ask'[q].pc = "collect" => ask'[q].location = ghl[c].location
                 /\ ask'[q].pc = "save" /\ ask'[q].c = c => ask'[q].location = ask'[q].shown
        BY <1>1, <1>2, <2>2 DEF SameLocation
    <2> QED BY <1>1, <2>1, <2>2 DEF SameLocation
<1> QED BY <1>2, <1>5, <1>6, <1>7 DEF GhlInv

LEMMA GhlStarts ==
    ASSUME GhlInit
    PROVE  GhlInv
<1>1. NoConnection \in GhlConnection /\ NoConnection.rev = 0 /\ NoConnection.tested = 0
      /\ NoConnection.details = NoWhere /\ MaxRevision \in Nat
    BY AccountsConstants DEF NoConnection, GhlConnection, Place
<1>2. NoAsk \in Ask /\ NoAsk.pc = "idle" /\ NoAsk.rev = 0
    BY <1>1, AccountsConstants DEF NoAsk, Ask, Place
<1>3. customer \in [Customers -> ClientRow]
    BY DEF GhlInit, ClientRow, Place
<1>4. \A c \in Customers : ghl[c] = NoConnection
    BY DEF GhlInit
<1>5. \A q \in Callers : ask[q] = NoAsk
    BY DEF GhlInit
<1>6. GhlTypeOK
    BY <1>1, <1>2, <1>3 DEF GhlInit, GhlTypeOK, Place
<1>7. drawn = 0 /\ \A r \in Revisions : evidence[r] = NoWhere
    BY DEF GhlInit
<1> QED BY <1>1, <1>2, <1>4, <1>5, <1>6, <1>7 DEF GhlInv, AskShape, ConnectionShape, SameLocation,
                                              LocationsAgree, Connected

LEMMA GhlMoves ==
    ASSUME GhlInv, GhlNext
    PROVE  GhlInv'
<1>1. ASSUME NEW q \in Callers,
             \/ Existing(q) \/ OnboardCreates(q) \/ SaveToken(q) \/ SaveWithoutToken(q)
             \/ GhlTest(q) \/ Collect(q) \/ ValidateClient(q) \/ SaveClient(q) \/ AskFails(q)
             \/ \E l \in Locations : OnboardGhl(q, l)
      PROVE  GhlInv'
    BY <1>1, AskSteps, WritingSteps, CacheSteps
<1>2. ASSUME NEW q \in Callers, NEW c \in Customers,
             \/ DeleteGhlConnection(q, c) \/ DestroyClient(q, c)
             \/ \E purpose \in {"test", "collect"} : ReadConnection(q, c, purpose)
             \/ \E l \in Locations : PutConnection(q, c, l)
             \/ \E l \in Place : CreateClient(q, c, l) \/ OpenClient(q, c, l)
      PROVE  GhlInv'
    BY <1>2, AskSteps, WritingSteps
<1> QED BY <1>1, <1>2, CacheSteps DEF GhlNext

LEMMA GhlStutters ==
    ASSUME GhlInv, UNCHANGED ghlVars
    PROVE  GhlInv'
BY DEF ghlVars, GhlInv, GhlTypeOK, AskShape, ConnectionShape, SameLocation, LocationsAgree,
       Connected, Here

\* One active connection per provider but for a race; and a client shows the GHL
\* location that its connection reads, with checks, details and records that were
\* read there (ConnectionsKept).
THEOREM ConnectionsHold == Spec => []ConnectionsKept
<1>1. Init => GhlInv
    BY GhlStarts DEF Init
<1>2. GhlInv /\ [Next]_<<part, scene, callVars, connVars, grantVars, ghlVars, boardVars>> => GhlInv'
    BY GhlMoves, GhlStutters DEF Next
<1>3. GhlInv => LocationsAgree /\ ReadsAreCurrent
    BY DEF GhlInv, ConnectionShape, SameLocation, ReadsAreCurrent, Connected
<1>4. SecondActiveNeedsARace /\ GhlInv => ConnectionsKept
    BY <1>3 DEF ConnectionsKept
<1> QED BY <1>1, <1>2, <1>4, OneActive, PTL DEF Spec

(* ------------------------- The board beside them ----------------------- *)

\* In whatever scenes its requests work, the board does what Board says.
LEMMA BoardBeside == Spec => BoardSpec
<1>1. Init => BoardInit
    BY DEF Init
<1>2. [Next]_<<part, scene, callVars, connVars, grantVars, ghlVars, boardVars>> => [BoardNext]_boardVars
    BY DEF Next
<1> QED BY <1>1, <1>2, PTL DEF Spec, BoardSpec

\* The rows, messages, tokens and counts of the five machines are what their models
\* say, and stay so however they are interleaved (OnboardingTypesOK).
THEOREM OnboardingTypes == Spec => []OnboardingTypesOK
<1>1. Init => GrantInv /\ CallInv /\ ConnInv /\ GhlInv
    BY GrantStarts, CallStarts, ConnStarts, GhlStarts DEF Init
<1>2. GrantInv /\ [Next]_<<part, scene, callVars, connVars, grantVars, ghlVars, boardVars>> => GrantInv'
    BY GrantMoves, GrantStutters DEF Next
<1>3. CallInv /\ [Next]_<<part, scene, callVars, connVars, grantVars, ghlVars, boardVars>> => CallInv'
    BY CallMoves, CallStutters DEF Next
<1>4. ConnInv /\ [Next]_<<part, scene, callVars, connVars, grantVars, ghlVars, boardVars>> => ConnInv'
    BY ConnMoves, ConnStutters DEF Next
<1>5. GhlInv /\ [Next]_<<part, scene, callVars, connVars, grantVars, ghlVars, boardVars>> => GhlInv'
    BY GhlMoves, GhlStutters DEF Next
<1>6. GrantInv /\ CallInv /\ ConnInv /\ GhlInv /\ BoardTypeOK => OnboardingTypesOK
    BY DEF GrantInv, CallInv, ConnInv, GhlInv, OnboardingTypesOK
<1> QED BY <1>1, <1>2, <1>3, <1>4, <1>5, <1>6, BoardBeside, BoardTypes, PTL DEF Spec
=============================================================================
