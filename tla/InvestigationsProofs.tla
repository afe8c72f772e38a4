------------------------ MODULE InvestigationsProofs ------------------------
(***************************************************************************)
(* The context of client threads, proved for every number of threads,      *)
(* workers, requests and changes.  What a worker holds belongs to the      *)
(* revision it has read (HeldScope) and was collected after the scope of   *)
(* that revision and before the present (ReadInOrder), so a scope that is  *)
(* the same before and after was the scope all along.                      *)
(***************************************************************************)
EXTENDS Investigations, TLAPS

Places == {"idle", "next", "leasing", "claiming", "gate", "reading", "asking", "barred",
           "publishing", "releasing"}
Statuses == {"none", "pending", "processing", "ready", "partial", "unavailable", "stale", "expired"}
Pages == [of : Investigations \cup {None}, rev : Numbers, edition : Nat, scope : Scopes \cup {None}]
Collections == [of : Investigations \cup {None}, rev : Numbers, scope : Scopes \cup {None},
                source : Numbers, perm : Numbers]
Results == [rev : Numbers, source : Numbers, perm : Numbers]

Holds(w) == pc[w] \notin {"idle", "next"}

(* The types by groups of variables; requests and workers that are busy    *)
(* have an investigation in hand.                                          *)
WorldOK == source \in [Investigations -> Numbers] /\ perm \in Numbers /\ allowed \in BOOLEAN
RowsOK ==
  /\ rev \in [Investigations -> Numbers] /\ withdrawn \in [Investigations -> Numbers]
  /\ status \in [Investigations -> Statuses]
  /\ scope \in [Investigations -> Scopes \cup {None}]
  /\ overdue \subseteq Investigations /\ aged \subseteq Investigations
  /\ purging \subseteq Investigations
BriefsOK ==
  /\ result \in [Investigations -> Results]
  /\ text \in [Investigations -> Numbers] /\ ready \in [Investigations -> Numbers]
  /\ edited \in [Investigations -> BOOLEAN] /\ edition \in [Investigations -> Nat]
RequestsOK ==
  /\ at \in [Requests -> {"idle", "queueing", "reading"}]
  /\ page \in [Requests -> Pages]
  /\ \A r \in Requests : at[r] # "idle" => page[r].of \in Investigations
WorkersOK ==
  /\ lease \in Workers \cup {None} /\ lapsed \in BOOLEAN
  /\ pc \in [Workers -> Places]
  /\ held \in [Workers -> Collections]
  /\ \A w \in Workers : Holds(w) => held[w].of \in Investigations
TypeInv == changes \in Numbers /\ WorldOK /\ RowsOK /\ BriefsOK /\ RequestsOK /\ WorkersOK

(* Numbers in use are those of changes that have been.                     *)
Issued ==
  /\ perm =< changes
  /\ \A i \in Investigations : source[i] =< changes /\ rev[i] =< changes /\ withdrawn[i] =< rev[i]
  /\ \A w \in Workers : held[w].rev =< changes

(* The scope a worker has read is that of the revision it has read.        *)
HeldScope ==
  \A w \in Workers : Holds(w) /\ rev[held[w].of] = held[w].rev => held[w].scope = scope[held[w].of]

(* Scopes are older than the present, and between the two lies what a      *)
(* worker has collected.                                                   *)
Older(s, src, prm) == s \in Scopes => s.source =< src /\ s.perm =< prm
ReadInOrder ==
  /\ \A i \in Investigations : Older(scope[i], source[i], perm)
  /\ \A r \in Requests : at[r] = "queueing" => 
       page[r].scope \in Scopes /\ Older(page[r].scope, source[page[r].of], perm)
  /\ \A w \in Workers :
       LET h == held[w] IN
       /\ Holds(w) => Older(h.scope, source[h.of], perm)
       /\ pc[w] \in {"asking", "publishing"} =>
            h.source =< source[h.of] /\ (h.scope \in Scopes => h.scope.source =< h.source)
       /\ pc[w] = "publishing" =>
            h.perm =< perm /\ (h.scope \in Scopes => h.scope.perm =< h.perm)

(* Evidence has the revision and the scope of its investigation.           *)
EvidenceInScope ==
  \A i \in Investigations : status[i] \in {"ready", "partial"} =>
    result[i] = [rev |-> rev[i], source |-> scope[i].source, perm |-> scope[i].perm]

Inv == TypeInv /\ Issued /\ HeldScope /\ ReadInOrder /\ EvidenceInScope
       /\ NothingWithdrawn /\ ReadyIsReviewed

----------------------------------------------------------------------------
(* Steps by what they may change.                                          *)

(* Messages, owners or permissions change, or not.                         *)
WorldMoves ==
  /\ WorldOK'
  /\ \A i \in Investigations : source'[i] = source[i] \/ source'[i] = Fresh
  /\ perm' = perm \/ perm' = Fresh

(* Something is withdrawn.                                                 *)
Withdrawal ==
  /\ Change /\ WorldMoves
  /\ \E is \in SUBSET Investigations : \E again \in SUBSET is : Withdraw(is, again)
  /\ purging' \subseteq Investigations
  /\ UNCHANGED <<requests, workers>>

(* Only the world changes.                                                 *)
WorldStep == Change /\ WorldMoves /\ UNCHANGED <<rows, briefs, requests, workers>>

(* Only a request goes on.                                                 *)
RequestStep ==
  /\ UNCHANGED <<changes, world, rows, briefs, workers>>
  /\ \/ \E r \in Requests, i \in Investigations : OpenPage(r, i) \/ \E force \in BOOLEAN : AskContext(r, i, force)
     \/ \E r \in Requests : RequestDies(r)

(* Investigations end otherwise than with evidence, or time passes.        *)
Ends ==
  /\ UNCHANGED <<changes, world, rev, scope, withdrawn, briefs, requests, held>>
  /\ status' \in [Investigations -> Statuses]
  /\ \A i \in Investigations : status'[i] = status[i] \/ status'[i] \notin {"ready", "partial"}
  /\ overdue' \subseteq Investigations /\ aged' \subseteq Investigations /\ purging' \subseteq Investigations
  /\ lease' \in Workers \cup {None} /\ lapsed' \in BOOLEAN
  /\ pc' \in [Workers -> Places]
  /\ \A w \in Workers : pc'[w] # pc[w] =>
       \/ pc'[w] \in {"idle", "next"}
       \/ Holds(w) /\ pc'[w] \in {"claiming", "gate", "reading", "barred", "releasing"}

(* A worker drops what it holds, or takes an investigation.                *)
Drops(w) ==
  /\ UNCHANGED <<changes, world, rows, briefs, requests>>
  /\ lease' \in Workers \cup {None} /\ lapsed' \in BOOLEAN
  /\ (Go(w, "idle") \/ Go(w, "next")) /\ Drop(w)

----------------------------------------------------------------------------
(* Helpers.                                                                *)

(* The number of a change is one of the bounded numbers.                   *)
LEMMA ChangeType ==
  ASSUME changes \in Numbers, Change
  PROVE  changes' \in Numbers /\ Fresh \in Numbers /\ changes' = Fresh /\ Fresh > changes /\ Fresh # 0
BY InvestigationConstants DEF Change, Fresh, Numbers

LEMMA ZeroType == 0 \in Numbers /\ Numbers \subseteq Nat
BY InvestigationConstants DEF Numbers

LEMMA ScopeType == ASSUME WorldOK, NEW i \in Investigations PROVE Scope(i) \in Scopes
BY DEF WorldOK, Scope, Scopes

(* The types by groups are the types.                                      *)
LEMMA TypesTogether == TypeInv => TypeOK
BY DEF TypeInv, WorldOK, RowsOK, BriefsOK, RequestsOK, WorkersOK, TypeOK, Statuses, Places, Pages,
       Collections, Results

(* Every step is of one of these kinds.                                    *)
LEMMA Kinds ==
  ASSUME TypeInv, Next
  PROVE  \/ Withdrawal \/ WorldStep \/ RequestStep \/ Ends
         \/ \E w \in Workers : Drops(w) \/ GatherLocal(w) \/ GatherRemote(w) \/ Publish(w)
         \/ \E w \in Workers, i \in Investigations : Take(w, i)
         \/ \E r \in Requests : SaveQueue(r) \/ \E approved \in BOOLEAN : SaveDraft(r, approved)
<1> SUFFICES ASSUME Next
             PROVE  \/ Withdrawal \/ WorldStep \/ RequestStep \/ Ends
                    \/ \E w \in Workers : Drops(w) \/ GatherLocal(w) \/ GatherRemote(w) \/ Publish(w)
                    \/ \E w \in Workers, i \in Investigations : Take(w, i)
                    \/ \E r \in Requests : SaveQueue(r) \/ \E approved \in BOOLEAN : SaveDraft(r, approved)
  OBVIOUS
<1>0. changes \in Numbers /\ WorldOK /\ RowsOK /\ WorkersOK
  BY DEF TypeInv
<1>1. ASSUME NEW i \in Investigations, SourceGrows(i) PROVE WorldStep
  <2>1. Change /\ Fresh \in Numbers
    BY <1>0, <1>1, ChangeType DEF SourceGrows
  <2> QED BY <1>0, <1>1, <2>1 DEF SourceGrows, WorldStep, WorldMoves, WorldOK
<1>2. ASSUME NEW i \in Investigations, NEW again \in SUBSET {i}, SourceChange(i, again) PROVE Withdrawal
  <2>1. Change /\ Fresh \in Numbers
    BY <1>0, <1>2, ChangeType DEF SourceChange
  <2>2. WorldMoves
    BY <1>0, <1>2, <2>1 DEF SourceChange, WorldMoves, WorldOK
  <2>3. again \in SUBSET Investigations /\ Withdraw(Investigations, again)
        /\ purging' \subseteq Investigations /\ UNCHANGED <<requests, workers>>
    BY <1>0, <1>2 DEF SourceChange, RowsOK
  <2> QED BY <2>1, <2>2, <2>3 DEF Withdrawal
<1>3. ASSUME HistoryChange PROVE Withdrawal
  <2>1. Change /\ WorldMoves
    BY <1>0, <1>3 DEF HistoryChange, WorldMoves, WorldOK, world
  <2>2. Withdraw(Investigations, {}) /\ purging' \subseteq Investigations /\ UNCHANGED <<requests, workers>>
    BY <1>0, <1>3 DEF HistoryChange, RowsOK
  <2> QED BY <2>1, <2>2 DEF Withdrawal
<1>4. ASSUME NEW b \in BOOLEAN, SetPermission(b) PROVE Withdrawal
  <2>1. Change /\ Fresh \in Numbers
    BY <1>0, <1>4, ChangeType DEF SetPermission
  <2>2. WorldMoves
    BY <1>0, <1>4, <2>1 DEF SetPermission, WorldMoves, WorldOK
  <2>3. Withdraw(Investigations, {}) /\ purging' \subseteq Investigations /\ UNCHANGED <<requests, workers>>
    BY <1>0, <1>4 DEF SetPermission, RowsOK
  <2> QED BY <2>1, <2>2, <2>3 DEF Withdrawal
<1>5. ASSUME GrantConnected PROVE WorldStep
  <2>1. Change /\ Fresh \in Numbers
    BY <1>0, <1>5, ChangeType DEF GrantConnected
  <2> QED BY <1>0, <1>5, <2>1 DEF GrantConnected, WorldStep, WorldMoves, WorldOK
<1>6. ASSUME PurgeExpired PROVE Withdrawal
  <2>1. Change /\ WorldMoves
    BY <1>0, <1>6 DEF PurgeExpired, WorldMoves, WorldOK, world
  <2>2. PICK expired \in SUBSET Investigations :
          Withdraw(expired, {}) /\ purging' = expired /\ UNCHANGED <<requests, workers>>
    BY <1>0, <1>6 DEF PurgeExpired, RowsOK
  <2> QED BY <2>1, <2>2 DEF Withdrawal
<1>7. Around => Withdrawal \/ WorldStep
  <2>1. allowed \in BOOLEAN
    BY <1>0 DEF WorldOK
  <2> QED BY <1>1, <1>2, <1>3, <1>4, <1>5, <2>1 DEF Around, SetPolicy, SetChannel, SetAccess
<1>8. ASSUME NEW r \in Requests, Staff(r)
      PROVE  RequestStep \/ SaveQueue(r) \/ \E approved \in BOOLEAN : SaveDraft(r, approved)
  <2>1. ASSUME NEW i \in Investigations, OpenPage(r, i) \/ \E force \in BOOLEAN : AskContext(r, i, force)
        PROVE  RequestStep
    <3>1. UNCHANGED <<changes, world, rows, briefs, workers>>
      BY <2>1 DEF OpenPage, AskContext
    <3> QED BY <2>1, <3>1 DEF RequestStep
  <2>2. RequestDies(r) => RequestStep
    BY DEF RequestStep, RequestDies
  <2> QED BY <1>8, <2>1, <2>2 DEF Staff
<1>9. Time => Withdrawal \/ Ends
  <2>1. ASSUME NEW i \in Investigations, GrowOld(i) \/ StartedLongAgo(i) PROVE Ends
    BY <1>0, <2>1 DEF GrowOld, StartedLongAgo, Ends, RowsOK, WorkersOK, workers, Statuses
  <2>2. LeaseLapses => Ends
    BY <1>0 DEF LeaseLapses, Ends, RowsOK, WorkersOK, rows
  <2>3. MarkExpired => Ends
    BY <1>0 DEF MarkExpired, Ends, RowsOK, WorkersOK, workers, Statuses
  <2>4. PurgeDies => Ends
    BY <1>0 DEF PurgeDies, Ends, RowsOK, WorkersOK, workers
  <2> QED BY <1>6, <2>1, <2>2, <2>3, <2>4 DEF Time
<1>10. ASSUME NEW w \in Workers, Sweep(w) \/ Rest(w) \/ Claim(w) \/ Gate(w) \/ Fail(w) PROVE Ends
  <2>1. lease \in Workers \cup {None} /\ lapsed \in BOOLEAN /\ pc \in [Workers -> Places]
        /\ status \in [Investigations -> Statuses]
        /\ overdue \subseteq Investigations /\ aged \subseteq Investigations /\ purging \subseteq Investigations
    BY <1>0 DEF RowsOK, WorkersOK
  <2>2. /\ UNCHANGED <<changes, world, rev, scope, withdrawn, briefs, requests, held, lease, lapsed, aged, purging>>
        /\ overdue' \subseteq Investigations
    BY <1>10, <2>1 DEF Sweep, Rest, Claim, Gate, Fail, rows
  <2>3. pc' \in [Workers -> Places]
        /\ \A v \in Workers : pc'[v] # pc[v] =>
             \/ pc'[v] \in {"idle", "next"}
             \/ Holds(v) /\ pc'[v] \in {"claiming", "gate", "reading", "barred", "releasing"}
    BY <1>10, <2>1 DEF Sweep, Rest, Claim, Gate, Fail, Go, Holds, Places
  <2>4. status' \in [Investigations -> Statuses]
        /\ \A i \in Investigations : status'[i] = status[i] \/ status'[i] \notin {"ready", "partial"}
    BY <1>10, <2>1 DEF Sweep, Rest, Claim, Gate, Fail, rows, Statuses
  <2> QED BY <2>1, <2>2, <2>3, <2>4 DEF Ends
<1>11. ASSUME NEW w \in Workers, Lease(w) PROVE Ends \/ Drops(w)
  <2>1. lease \in Workers \cup {None} /\ lapsed \in BOOLEAN /\ pc \in [Workers -> Places]
    BY <1>0 DEF WorkersOK
  <2>2. CASE lease = None \/ lapsed
    BY <1>0, <1>11, <2>1, <2>2 DEF Lease, Ends, Go, Holds, Places, rows, RowsOK
  <2>3. CASE ~(lease = None \/ lapsed)
    BY <1>11, <2>1, <2>3 DEF Lease, Drops
  <2> QED BY <2>2, <2>3
<1>12. ASSUME NEW w \in Workers, Release(w) \/ WorkerDies(w) PROVE Drops(w)
  BY <1>0, <1>12 DEF WorkersOK, Release, WorkerDies, Drops
<1>13. ASSUME NEW w \in Workers, TokenRevoked(w) PROVE Withdrawal
  BY <1>0, <1>4, <1>13 DEF TokenRevoked, SetAccess, WorldOK
<1> QED BY <1>7, <1>8, <1>9, <1>10, <1>11, <1>12, <1>13 DEF Next, WorkerStep

----------------------------------------------------------------------------
(* The inductive invariant.                                                *)

LEMMA InitInv == Init => Inv
<1> SUFFICES ASSUME Init PROVE Inv
  OBVIOUS
<1>1. 0 \in Numbers
  BY ZeroType
<1>2. changes \in Numbers /\ WorldOK /\ RowsOK
  BY <1>1 DEF Init, WorldOK, RowsOK, Statuses
<1>3. BriefsOK
  BY <1>1 DEF Init, BriefsOK, Nothing, Results
<1>4. RequestsOK
  BY <1>1 DEF Init, RequestsOK, NoPage, Pages
<1>5. WorkersOK
  BY <1>1 DEF Init, WorkersOK, NotHeld, Collections, Places, Holds
<1>6. Issued
  BY <1>1 DEF Init, Issued, NotHeld
<1>7. HeldScope /\ EvidenceInScope
  BY DEF Init, HeldScope, Holds, EvidenceInScope
<1>8. ReadInOrder
  <2>1. \A i \in Investigations : Older(scope[i], source[i], perm)
    BY InvestigationConstants DEF Init, Older, Scopes, Numbers
  <2> QED BY <2>1 DEF Init, ReadInOrder, Holds
<1>9. NothingWithdrawn /\ ReadyIsReviewed
  BY DEF Init, NothingWithdrawn, ReadyIsReviewed
<1> QED BY <1>2, <1>3, <1>4, <1>5, <1>6, <1>7, <1>8, <1>9 DEF Inv, TypeInv

(* What the world's moves keep.                                            *)
LEMMA MovesKeep ==
  ASSUME TypeInv, Issued, WorldMoves, Change
  PROVE  /\ perm' >= perm /\ perm' =< changes'
         /\ \A i \in Investigations : source'[i] >= source[i] /\ source'[i] =< changes'
         /\ \A s : \A i \in Investigations : Older(s, source[i], perm) => Older(s, source'[i], perm')
         /\ changes' \in Numbers /\ changes' = changes + 1 /\ Fresh \in Numbers /\ changes \in Nat
<1>1. changes' \in Numbers /\ changes' = changes + 1 /\ Fresh \in Numbers /\ Fresh = changes + 1 /\ changes \in Nat
  BY ChangeType, ZeroType DEF TypeInv, Fresh
<1>2. perm \in Nat /\ perm =< changes /\ perm' \in Nat
  BY ZeroType DEF TypeInv, WorldOK, Issued, WorldMoves
<1>3. \A i \in Investigations : source[i] \in Nat /\ source[i] =< changes /\ source'[i] \in Nat
  BY ZeroType DEF TypeInv, WorldOK, Issued, WorldMoves
<1>4. perm' >= perm /\ perm' =< changes'
  BY <1>1, <1>2 DEF WorldMoves
<1>5. \A i \in Investigations : source'[i] >= source[i] /\ source'[i] =< changes'
  BY <1>1, <1>3 DEF WorldMoves
<1>6. ASSUME NEW s, NEW i \in Investigations, Older(s, source[i], perm), s \in Scopes
      PROVE  s.source =< source'[i] /\ s.perm =< perm'
  <2>1. s.source \in Nat /\ s.perm \in Nat
    BY <1>6, ZeroType DEF Scopes
  <2> QED BY <1>2, <1>3, <1>4, <1>5, <1>6, <2>1 DEF Older
<1>7. \A s : \A i \in Investigations : Older(s, source[i], perm) => Older(s, source'[i], perm')
  BY <1>6 DEF Older
<1> QED BY <1>1, <1>4, <1>5, <1>7

(* What a worker has collected stays between its scope and the present.    *)
LEMMA HeldGrows ==
  ASSUME Inv, WorldMoves, Change, NEW w \in Workers, UNCHANGED <<pc, held>>
  PROVE  LET h == held'[w] IN
         /\ Holds(w)' => Older(h.scope, source'[h.of], perm')
         /\ pc'[w] \in {"asking", "publishing"} =>
              h.source =< source'[h.of] /\ (h.scope \in Scopes => h.scope.source =< h.source)
         /\ pc'[w] = "publishing" =>
              h.perm =< perm' /\ (h.scope \in Scopes => h.scope.perm =< h.perm)
<1> DEFINE h == held[w]
<1>1. TypeInv /\ Issued /\ ReadInOrder
  BY DEF Inv
<1>2. /\ perm' >= perm
      /\ \A i \in Investigations : source'[i] >= source[i]
      /\ \A s : \A i \in Investigations : Older(s, source[i], perm) => Older(s, source'[i], perm')
  BY <1>1, MovesKeep
<1>3. Holds(w)' => Holds(w) /\ h.of \in Investigations
  BY <1>1 DEF Holds, TypeInv, WorkersOK
<1>4. h.source \in Nat /\ h.perm \in Nat /\ perm \in Nat /\ perm' \in Nat
      /\ \A i \in Investigations : source[i] \in Nat /\ source'[i] \in Nat
  BY <1>1, ZeroType DEF TypeInv, WorldOK, WorkersOK, Collections, WorldMoves
<1>5. Holds(w)' => Older(h.scope, source'[h.of], perm')
  BY <1>1, <1>2, <1>3 DEF ReadInOrder
<1>6. pc[w] \in {"asking", "publishing"} =>
        h.source =< source'[h.of] /\ (h.scope \in Scopes => h.scope.source =< h.source)
  <2> SUFFICES ASSUME pc[w] \in {"asking", "publishing"}
               PROVE  h.source =< source'[h.of] /\ (h.scope \in Scopes => h.scope.source =< h.source)
    OBVIOUS
  <2>1. h.of \in Investigations
    BY <1>3 DEF Holds
  <2>2. h.source =< source[h.of] /\ (h.scope \in Scopes => h.scope.source =< h.source)
    BY <1>1 DEF ReadInOrder
  <2> QED BY <1>2, <1>4, <2>1, <2>2
<1>7. pc[w] = "publishing" => h.perm =< perm' /\ (h.scope \in Scopes => h.scope.perm =< h.perm)
  <2> SUFFICES ASSUME pc[w] = "publishing"
               PROVE  h.perm =< perm' /\ (h.scope \in Scopes => h.scope.perm =< h.perm)
    OBVIOUS
  <2>1. h.perm =< perm /\ (h.scope \in Scopes => h.scope.perm =< h.perm)
    BY <1>1 DEF ReadInOrder
  <2> QED BY <1>2, <1>4, <2>1
<1> QED BY <1>5, <1>6, <1>7

(* Withdrawing.                                                            *)
LEMMA WithdrawalKeeps == ASSUME Inv, Withdrawal PROVE Inv'
<1> USE DEF Inv
<1>1. Change /\ WorldMoves /\ TypeInv /\ Issued
  BY DEF Withdrawal
<1>0. PICK is \in SUBSET Investigations : \E again \in SUBSET is : Withdraw(is, again)
  BY DEF Withdrawal
<1>2. PICK again \in SUBSET is : Withdraw(is, again)
  BY <1>0
<1> DEFINE gone == is \cap Created
<1>3. PICK s \in Queued :
       /\ rev' = [i \in Investigations |-> IF i \in gone \cup again THEN Fresh ELSE rev[i]]
       /\ status' = [i \in Investigations |->
            IF i \in again THEN s ELSE IF i \in gone THEN "stale" ELSE status[i]]
       /\ scope' = [i \in Investigations |->
            IF i \in again THEN [source |-> source'[i], perm |-> perm']
            ELSE IF i \in gone THEN None ELSE scope[i]]
       /\ overdue' = overdue \ again /\ aged' = aged \ again
       /\ withdrawn' = [i \in Investigations |-> IF i \in gone THEN Fresh ELSE withdrawn[i]]
       /\ result' = [i \in Investigations |-> IF i \in gone THEN Nothing ELSE result[i]]
       /\ text' = [i \in Investigations |-> IF i \in gone THEN 0 ELSE text[i]]
       /\ edited' = [i \in Investigations |-> edited[i] /\ i \notin gone]
       /\ ready' = [i \in Investigations |-> IF i \in gone THEN 0 ELSE ready[i]]
       /\ UNCHANGED edition
  BY <1>2 DEF Withdraw
<1> HIDE DEF gone
<1>4. UNCHANGED <<at, page, lease, lapsed, pc, held>> /\ purging' \subseteq Investigations /\ WorldOK'
  BY DEF Withdrawal, WorldMoves, requests, workers
<1>5. /\ perm' =< changes' /\ perm' >= perm
      /\ \A i \in Investigations : source'[i] =< changes' /\ source'[i] >= source[i]
      /\ \A x : \A i \in Investigations : Older(x, source[i], perm) => Older(x, source'[i], perm')
      /\ changes' \in Numbers /\ changes' = changes + 1 /\ Fresh \in Numbers /\ Fresh = changes + 1
      /\ changes \in Nat
  BY <1>1, MovesKeep DEF Fresh
<1>6. RowsOK /\ BriefsOK /\ RequestsOK /\ WorkersOK
  BY DEF TypeInv
<1>7. TypeInv'
  <2>1. RowsOK'
    <3>1. rev' \in [Investigations -> Numbers] /\ withdrawn' \in [Investigations -> Numbers]
      BY <1>3, <1>5, <1>6 DEF RowsOK
    <3>2. status' \in [Investigations -> Statuses]
      BY <1>3, <1>6 DEF RowsOK, Statuses, Queued
    <3>3. scope' \in [Investigations -> Scopes \cup {None}]
      BY <1>3, <1>4, <1>6 DEF RowsOK, Scopes, WorldOK
    <3> QED BY <1>3, <1>4, <1>6, <3>1, <3>2, <3>3 DEF RowsOK
  <2>2. BriefsOK'
    BY <1>3, <1>6, ZeroType DEF BriefsOK, Nothing, Results
  <2>3. RequestsOK' /\ WorkersOK'
    BY <1>4, <1>6 DEF RequestsOK, WorkersOK, Holds
  <2> QED BY <1>4, <1>5, <2>1, <2>2, <2>3 DEF TypeInv
<1>8. Issued'
  <2>1. \A i \in Investigations : rev'[i] =< changes' /\ withdrawn'[i] =< rev'[i]
    <3> SUFFICES ASSUME NEW i \in Investigations PROVE rev'[i] =< changes' /\ withdrawn'[i] =< rev'[i]
      OBVIOUS
    <3>1. rev[i] \in Nat /\ withdrawn[i] \in Nat /\ rev[i] =< changes /\ withdrawn[i] =< rev[i]
      BY <1>6, ZeroType DEF RowsOK, Issued
    <3>2. rev'[i] = (IF i \in gone \cup again THEN Fresh ELSE rev[i])
          /\ withdrawn'[i] = (IF i \in gone THEN Fresh ELSE withdrawn[i])
      BY <1>3
    <3> QED BY <1>5, <3>1, <3>2
  <2>2. \A w \in Workers : held'[w].rev =< changes'
    <3> SUFFICES ASSUME NEW w \in Workers PROVE held'[w].rev =< changes'
      OBVIOUS
    <3>1. held[w].rev \in Nat /\ held[w].rev =< changes
      BY <1>6, ZeroType DEF WorkersOK, Collections, Issued
    <3> QED BY <1>4, <1>5, <3>1
  <2> QED BY <1>5, <2>1, <2>2 DEF Issued
<1>9. HeldScope'
  <2> SUFFICES ASSUME NEW w \in Workers, Holds(w)', rev'[held'[w].of] = held'[w].rev
               PROVE  held'[w].scope = scope'[held'[w].of]
    BY DEF HeldScope
  <2>1. Holds(w) /\ held[w].of \in Investigations /\ held[w].rev \in Nat /\ held[w].rev =< changes
    BY <1>4, <1>6, ZeroType DEF WorkersOK, Holds, Collections, Issued
  <2>2. held[w].of \notin gone \cup again
    BY <1>3, <1>4, <1>5, <2>1
  <2> QED BY <1>3, <1>4, <2>1, <2>2 DEF HeldScope
<1>10. ReadInOrder'
  <2>1. ASSUME NEW i \in Investigations PROVE Older(scope'[i], source'[i], perm')
    <3>1. CASE i \in again
      <4>1. scope'[i] = [source |-> source'[i], perm |-> perm']
        BY <1>3, <3>1
      <4>2. source'[i] \in Nat /\ perm' \in Nat
        BY <1>4, ZeroType DEF WorldOK
      <4> QED BY <4>1, <4>2 DEF Older
    <3>2. CASE i \notin again /\ i \notin gone
      <4>1. scope'[i] = scope[i] /\ Older(scope[i], source[i], perm)
        BY <1>3, <3>2 DEF ReadInOrder
      <4> QED BY <1>5, <4>1
    <3>3. CASE i \notin again /\ i \in gone
      <4>1. scope'[i] = None
        BY <1>3, <3>3
      <4> QED BY <4>1, InvestigationConstants DEF Older, Scopes, Numbers
    <3> QED BY <3>1, <3>2, <3>3
  <2>2. ASSUME NEW r \in Requests, at'[r] = "queueing"
        PROVE  page'[r].scope \in Scopes /\ Older(page'[r].scope, source'[page'[r].of], perm')
    <3>1. page[r].of \in Investigations /\ page[r].scope \in Scopes
          /\ Older(page[r].scope, source[page[r].of], perm)
      BY <1>4, <1>6, <2>2 DEF RequestsOK, ReadInOrder
    <3> QED BY <1>4, <1>5, <3>1
  <2>3. ASSUME NEW w \in Workers
        PROVE  LET h == held'[w] IN
               /\ Holds(w)' => Older(h.scope, source'[h.of], perm')
               /\ pc'[w] \in {"asking", "publishing"} =>
                    h.source =< source'[h.of] /\ (h.scope \in Scopes => h.scope.source =< h.source)
               /\ pc'[w] = "publishing" =>
                    h.perm =< perm' /\ (h.scope \in Scopes => h.scope.perm =< h.perm)
    BY <1>1, <1>4, HeldGrows DEF Inv
  <2> QED BY <2>1, <2>2, <2>3 DEF ReadInOrder
<1>11. EvidenceInScope'
  <2> SUFFICES ASSUME NEW i \in Investigations, status'[i] \in {"ready", "partial"}
               PROVE  result'[i] = [rev |-> rev'[i], source |-> scope'[i].source, perm |-> scope'[i].perm]
    BY DEF EvidenceInScope
  <2>1. i \notin again /\ i \notin gone
    BY <1>3 DEF Queued
  <2> QED BY <1>3, <2>1 DEF EvidenceInScope
<1>12. NothingWithdrawn'
  <2> SUFFICES ASSUME NEW i \in Investigations
               PROVE  /\ result'[i] # Nothing => result'[i].rev >= withdrawn'[i]
                      /\ text'[i] # 0 => text'[i] >= withdrawn'[i]
    BY DEF NothingWithdrawn
  <2> QED BY <1>3 DEF NothingWithdrawn
<1>13. ReadyIsReviewed'
  <2> SUFFICES ASSUME NEW i \in Investigations, ready'[i] # 0
               PROVE  ready'[i] = rev'[i] /\ edited'[i] /\ text'[i] # 0
    BY DEF ReadyIsReviewed
  <2>1. i \notin gone /\ ready[i] # 0
    BY <1>3
  <2>2. rev[i] # 0 /\ i \notin again
    BY <2>1 DEF ReadyIsReviewed, gone, Created
  <2> QED BY <1>3, <2>1, <2>2 DEF ReadyIsReviewed
<1> QED BY <1>7, <1>8, <1>9, <1>10, <1>11, <1>12, <1>13 DEF Inv

(* Only the world changes.                                                 *)
LEMMA WorldStepKeeps == ASSUME Inv, WorldStep PROVE Inv'
<1>1. Change /\ WorldMoves /\ TypeInv /\ Issued
      /\ UNCHANGED <<rev, status, scope, overdue, aged, purging, withdrawn, result, text, edited, ready,
                     edition, at, page, lease, lapsed, pc, held>>
  BY DEF Inv, WorldStep, rows, briefs, requests, workers
<1>2. /\ perm' =< changes'
      /\ \A i \in Investigations : source'[i] =< changes'
      /\ \A s : \A i \in Investigations : Older(s, source[i], perm) => Older(s, source'[i], perm')
      /\ changes' \in Numbers /\ changes' = changes + 1 /\ changes \in Nat
  BY <1>1, MovesKeep
<1>3. TypeInv'
  BY <1>1, <1>2 DEF TypeInv, WorldMoves, RowsOK, BriefsOK, RequestsOK, WorkersOK, Holds
<1>4. Issued'
  <2>1. ASSUME NEW i \in Investigations PROVE rev'[i] =< changes' /\ withdrawn'[i] =< rev'[i]
    <3>1. rev[i] \in Nat /\ rev[i] =< changes /\ withdrawn[i] =< rev[i]
      BY <1>1, ZeroType DEF Issued, TypeInv, RowsOK
    <3> QED BY <1>1, <1>2, <3>1
  <2>2. ASSUME NEW w \in Workers PROVE held'[w].rev =< changes'
    <3>1. held[w].rev \in Nat /\ held[w].rev =< changes
      BY <1>1, ZeroType DEF Issued, TypeInv, WorkersOK, Collections
    <3> QED BY <1>1, <1>2, <3>1
  <2> QED BY <1>2, <2>1, <2>2 DEF Issued
<1>5. HeldScope' /\ EvidenceInScope' /\ NothingWithdrawn' /\ ReadyIsReviewed'
  BY <1>1 DEF Inv, HeldScope, Holds, EvidenceInScope, NothingWithdrawn, ReadyIsReviewed
<1>6. ReadInOrder'
  <2>1. ASSUME NEW i \in Investigations PROVE Older(scope'[i], source'[i], perm')
    BY <1>1, <1>2 DEF Inv, ReadInOrder
  <2>2. ASSUME NEW r \in Requests, at'[r] = "queueing"
        PROVE  page'[r].scope \in Scopes /\ Older(page'[r].scope, source'[page'[r].of], perm')
    <3>1. page[r].of \in Investigations /\ page[r].scope \in Scopes
          /\ Older(page[r].scope, source[page[r].of], perm)
      BY <1>1, <2>2 DEF Inv, TypeInv, RequestsOK, ReadInOrder
    <3> QED BY <1>1, <1>2, <3>1
  <2> QED BY <1>1, <2>1, <2>2, HeldGrows DEF ReadInOrder
<1> QED BY <1>3, <1>4, <1>5, <1>6 DEF Inv

(* A request reads, or gives up.                                           *)
LEMMA RequestStepKeeps == ASSUME Inv, RequestStep PROVE Inv'
<1>1. UNCHANGED <<changes, source, perm, allowed, rev, status, scope, overdue, aged, purging, withdrawn,
                  result, text, edited, ready, edition, lease, lapsed, pc, held>>
  BY DEF RequestStep, world, rows, briefs, workers
<1>2. WorldOK /\ RowsOK /\ BriefsOK /\ RequestsOK
  BY DEF Inv, TypeInv
<1>3. PICK r \in Requests, i \in Investigations, new \in Pages, place \in {"idle", "queueing", "reading"} :
        /\ at' = [at EXCEPT ![r] = place] /\ page' = [page EXCEPT ![r] = new]
        /\ place # "idle" => new.of = i
        /\ place = "queueing" => new.scope = Scope(i)
  <2>1. ASSUME NEW r \in Requests, NEW i \in Investigations, OpenPage(r, i)
        PROVE  /\ at' = [at EXCEPT ![r] = "reading"]
               /\ \E new \in Pages : page' = [page EXCEPT ![r] = new] /\ new.of = i
    <3> DEFINE new == [of |-> i, rev |-> rev[i], edition |-> edition[i], scope |-> None]
    <3>1. new \in Pages
      BY <1>2 DEF Pages, RowsOK, BriefsOK
    <3> QED BY <2>1, <3>1 DEF OpenPage
  <2>2. ASSUME NEW r \in Requests, NEW i \in Investigations, NEW force \in BOOLEAN, AskContext(r, i, force)
        PROVE  /\ at' = [at EXCEPT ![r] = "queueing"]
               /\ \E new \in Pages : page' = [page EXCEPT ![r] = new] /\ new.of = i /\ new.scope = Scope(i)
    <3> DEFINE new == [of |-> i, rev |-> 0, edition |-> 0, scope |-> Scope(i)]
    <3>1. new \in Pages
      BY <1>2, ScopeType, ZeroType DEF Pages
    <3> QED BY <2>2, <3>1 DEF AskContext
  <2>3. ASSUME NEW r \in Requests, RequestDies(r)
        PROVE  /\ at' = [at EXCEPT ![r] = "idle"] /\ page' = [page EXCEPT ![r] = NoPage] /\ NoPage \in Pages
               /\ \E i : i \in Investigations
    <3>1. NoPage \in Pages
      BY ZeroType DEF NoPage, Pages
    <3>2. page[r].of \in Investigations
      BY <1>2, <2>3 DEF RequestDies, RequestsOK
    <3> QED BY <2>3, <3>1, <3>2 DEF RequestDies, Return
  <2> QED BY <2>1, <2>2, <2>3 DEF RequestStep
<1>4. RequestsOK'
  <2>1. at' \in [Requests -> {"idle", "queueing", "reading"}] /\ page' \in [Requests -> Pages]
    BY <1>2, <1>3 DEF RequestsOK
  <2>2. \A q \in Requests : at'[q] # "idle" => page'[q].of \in Investigations
    BY <1>2, <1>3 DEF RequestsOK
  <2> QED BY <2>1, <2>2 DEF RequestsOK
<1>5. TypeInv'
  BY <1>1, <1>4 DEF Inv, TypeInv, WorldOK, RowsOK, BriefsOK, WorkersOK, Holds
<1>6. Issued' /\ HeldScope' /\ EvidenceInScope' /\ NothingWithdrawn' /\ ReadyIsReviewed'
  BY <1>1 DEF Inv, Issued, HeldScope, Holds, EvidenceInScope, NothingWithdrawn, ReadyIsReviewed
<1>7. ReadInOrder'
  <2>1. Scope(i) \in Scopes /\ Older(Scope(i), source[i], perm)
    <3>1. source[i] \in Nat /\ perm \in Nat
      BY <1>2, ZeroType DEF WorldOK
    <3> QED BY <1>2, <3>1, ScopeType DEF Older, Scope
  <2>2. ASSUME NEW q \in Requests, at'[q] = "queueing"
        PROVE  page'[q].scope \in Scopes /\ Older(page'[q].scope, source'[page'[q].of], perm')
    <3>1. CASE q = r
      BY <1>1, <1>2, <1>3, <2>1, <2>2, <3>1 DEF RequestsOK
    <3>2. CASE q # r
      BY <1>1, <1>2, <1>3, <2>2, <3>2 DEF RequestsOK, Inv, ReadInOrder
    <3> QED BY <3>1, <3>2
  <2> QED BY <1>1, <2>2 DEF Inv, ReadInOrder, Holds
<1> QED BY <1>5, <1>6, <1>7 DEF Inv

(* Investigations end otherwise than with evidence, or time passes.        *)
LEMMA EndsKeep == ASSUME Inv, Ends PROVE Inv'
<1>1. /\ UNCHANGED <<changes, source, perm, allowed, rev, scope, withdrawn, result, text, edited, ready,
                      edition, at, page, held>>
      /\ \A i \in Investigations : status'[i] = status[i] \/ status'[i] \notin {"ready", "partial"}
      /\ \A w \in Workers : pc'[w] # pc[w] =>
            \/ pc'[w] \in {"idle", "next"}
            \/ Holds(w) /\ pc'[w] \in {"claiming", "gate", "reading", "barred", "releasing"}
  BY DEF Ends, world, briefs, requests
<1>2. \A w \in Workers : /\ Holds(w)' => Holds(w)
                         /\ pc'[w] \in {"asking", "publishing"} => pc'[w] = pc[w]
  BY <1>1 DEF Holds
<1>3. TypeInv'
  <2>1. RowsOK'
    BY <1>1 DEF Ends, Inv, TypeInv, RowsOK
  <2>2. WorkersOK'
    BY <1>1, <1>2 DEF Ends, Inv, TypeInv, WorkersOK
  <2> QED BY <1>1, <2>1, <2>2 DEF Inv, TypeInv, WorldOK, BriefsOK, RequestsOK
<1>4. Issued' /\ NothingWithdrawn' /\ ReadyIsReviewed'
  BY <1>1 DEF Inv, Issued, NothingWithdrawn, ReadyIsReviewed
<1>5. HeldScope' /\ EvidenceInScope'
  BY <1>1, <1>2 DEF Inv, HeldScope, EvidenceInScope
<1>6. ReadInOrder'
  BY <1>1, <1>2 DEF Inv, ReadInOrder
<1> QED BY <1>3, <1>4, <1>5, <1>6 DEF Inv

(* A worker drops what it holds.                                           *)
LEMMA DropsKeep == ASSUME Inv, NEW w \in Workers, Drops(w) PROVE Inv'
<1>1. /\ UNCHANGED <<changes, source, perm, allowed, rev, status, scope, overdue, aged, purging, withdrawn,
                     result, text, edited, ready, edition, at, page>>
      /\ held' = [held EXCEPT ![w] = NotHeld]
      /\ pc' = [pc EXCEPT ![w] = "idle"] \/ pc' = [pc EXCEPT ![w] = "next"]
  BY DEF Drops, world, rows, briefs, requests, Go, Drop
<1>2. WorkersOK
  BY DEF Inv, TypeInv
<1>3. ~Holds(w)' /\ \A v \in Workers : v # w => pc'[v] = pc[v] /\ held'[v] = held[v]
  BY <1>1, <1>2 DEF WorkersOK, Holds
<1>4. held' \in [Workers -> Collections] /\ held'[w].rev = 0 /\ pc' \in [Workers -> Places]
  BY <1>1, <1>2, ZeroType DEF WorkersOK, NotHeld, Collections, Places
<1>5. WorkersOK'
  BY <1>2, <1>3, <1>4 DEF WorkersOK, Drops, Holds
<1>6. TypeInv'
  BY <1>1, <1>5 DEF Inv, TypeInv, WorldOK, RowsOK, BriefsOK, RequestsOK
<1>7. Issued'
  BY <1>1, <1>3, <1>4, ZeroType DEF Inv, Issued, TypeInv
<1>8. EvidenceInScope' /\ NothingWithdrawn' /\ ReadyIsReviewed'
  BY <1>1 DEF Inv, EvidenceInScope, NothingWithdrawn, ReadyIsReviewed
<1>9. HeldScope'
  BY <1>1, <1>3 DEF Inv, HeldScope, Holds
<1>10. ReadInOrder'
  <2>1. pc'[w] \notin {"asking", "publishing"}
    BY <1>3 DEF Holds
  <2> QED BY <1>1, <1>3, <2>1 DEF Inv, ReadInOrder, Holds
<1> QED BY <1>6, <1>7, <1>8, <1>9, <1>10 DEF Inv

(* A worker takes an investigation or collects for it.                     *)
LEMMA CollectingKeeps ==
  ASSUME Inv, NEW w \in Workers,
         GatherLocal(w) \/ GatherRemote(w) \/ \E i \in Investigations : Take(w, i)
  PROVE  Inv'
<1>1. UNCHANGED <<changes, source, perm, allowed, rev, status, scope, overdue, aged, purging, withdrawn,
                  result, text, edited, ready, edition, at, page, lease, lapsed>>
  BY DEF GatherLocal, GatherRemote, Take, world, rows, briefs, requests
<1>2. WorldOK /\ RowsOK /\ WorkersOK
  BY DEF Inv, TypeInv
<1> DEFINE h == held[w]
           g == held'[w]
<1>3. /\ \A v \in Workers : v # w => pc'[v] = pc[v] /\ held'[v] = held[v]
      /\ held' \in [Workers -> Collections] /\ pc' \in [Workers -> Places] /\ Holds(w)'
      /\ g.of \in Investigations
      /\ \/ pc'[w] = "asking" /\ Holds(w) /\ g = [h EXCEPT !.source = source[h.of]]
         \/ pc'[w] = "publishing" /\ pc[w] = "asking" /\ g = [h EXCEPT !.perm = perm]
         \/ pc'[w] = "leasing" /\ g.rev = rev[g.of] /\ g.scope = scope[g.of]
  <2>1. CASE GatherLocal(w)
    <3>1. Holds(w) /\ h.of \in Investigations /\ source[h.of] \in Numbers
      BY <1>2, <2>1 DEF GatherLocal, Holds, WorkersOK, WorldOK
    <3>2. held' = [held EXCEPT ![w] = [h EXCEPT !.source = source[h.of]]] /\ pc' = [pc EXCEPT ![w] = "asking"]
      BY <2>1 DEF GatherLocal, Go
    <3> QED BY <1>2, <3>1, <3>2 DEF WorkersOK, Collections, Places, Holds
  <2>2. CASE GatherRemote(w)
    <3>1. Holds(w) /\ h.of \in Investigations /\ perm \in Numbers /\ pc[w] = "asking"
      BY <1>2, <2>2 DEF GatherRemote, Holds, WorkersOK, WorldOK
    <3>2. held' = [held EXCEPT ![w] = [h EXCEPT !.perm = perm]] /\ pc' = [pc EXCEPT ![w] = "publishing"]
      BY <2>2 DEF GatherRemote, Go
    <3> QED BY <1>2, <3>1, <3>2 DEF WorkersOK, Collections, Places, Holds
  <2>3. CASE \E i \in Investigations : Take(w, i)
    <3>1. PICK i \in Investigations : Take(w, i)
      BY <2>3
    <3>2. held' = [held EXCEPT ![w] = [of |-> i, rev |-> rev[i], scope |-> scope[i], source |-> 0, perm |-> 0]]
          /\ pc' = [pc EXCEPT ![w] = "leasing"]
      BY <3>1 DEF Take
    <3> QED BY <1>2, <3>2, ZeroType DEF WorkersOK, RowsOK, Collections, Places, Holds
  <2> QED BY <2>1, <2>2, <2>3
<1>4. TypeInv'
  <2>1. WorkersOK'
    BY <1>1, <1>2, <1>3 DEF WorkersOK, Holds
  <2> QED BY <1>1, <2>1 DEF Inv, TypeInv, WorldOK, RowsOK, BriefsOK, RequestsOK
<1>5. g.rev =< changes /\ (rev[g.of] = g.rev => g.scope = scope[g.of])
  <2>1. h \in Collections
    BY <1>2 DEF WorkersOK
  <2>2. CASE pc'[w] = "leasing"
    BY <1>3, <2>2 DEF Inv, Issued
  <2>3. CASE pc'[w] # "leasing"
    <3>1. Holds(w) /\ g.rev = h.rev /\ g.of = h.of /\ g.scope = h.scope
      BY <1>3, <2>1, <2>3 DEF Holds, Collections
    <3> QED BY <3>1 DEF Inv, Issued, HeldScope
  <2> QED BY <2>2, <2>3
<1>6. Issued' /\ HeldScope'
  BY <1>1, <1>3, <1>5 DEF Inv, Issued, HeldScope, Holds
<1>7. EvidenceInScope' /\ NothingWithdrawn' /\ ReadyIsReviewed'
  BY <1>1 DEF Inv, EvidenceInScope, NothingWithdrawn, ReadyIsReviewed
<1>8. /\ Older(g.scope, source[g.of], perm)
      /\ pc'[w] \in {"asking", "publishing"} =>
           g.source =< source[g.of] /\ (g.scope \in Scopes => g.scope.source =< g.source)
      /\ pc'[w] = "publishing" => g.perm =< perm /\ (g.scope \in Scopes => g.scope.perm =< g.perm)
  <2>1. h \in Collections /\ perm \in Nat /\ source[g.of] \in Nat
    BY <1>2, <1>3, ZeroType DEF WorkersOK, WorldOK
  <2>2. CASE pc'[w] = "leasing"
    BY <1>3, <2>2 DEF Inv, ReadInOrder
  <2>3. CASE pc'[w] = "asking"
    <3>1. Holds(w) /\ g.of = h.of /\ g.scope = h.scope /\ g.source = source[h.of]
      BY <1>3, <2>1, <2>3 DEF Collections
    <3>2. Older(h.scope, source[h.of], perm)
      BY <3>1 DEF Inv, ReadInOrder
    <3> QED BY <2>1, <2>3, <3>1, <3>2 DEF Older
  <2>4. CASE pc'[w] = "publishing"
    <3>1. pc[w] = "asking" /\ g.of = h.of /\ g.scope = h.scope /\ g.source = h.source /\ g.perm = perm
      BY <1>3, <2>1, <2>4 DEF Collections
    <3>2. Older(h.scope, source[h.of], perm) /\ h.source =< source[h.of]
          /\ (h.scope \in Scopes => h.scope.source =< h.source)
      BY <3>1 DEF Inv, ReadInOrder, Holds
    <3> QED BY <2>1, <2>4, <3>1, <3>2 DEF Older
  <2> QED BY <1>3, <2>2, <2>3, <2>4
<1>9. ReadInOrder'
  BY <1>1, <1>3, <1>8 DEF Inv, ReadInOrder, Holds
<1> QED BY <1>4, <1>6, <1>7, <1>9 DEF Inv

(* A result is stored, or not.                                             *)
LEMMA PublishKeeps == ASSUME Inv, NEW w \in Workers, Publish(w) PROVE Inv'
<1> DEFINE i == held[w].of
           h == held[w]
<1>1. /\ UNCHANGED <<changes, source, perm, allowed, rev, scope, overdue, aged, purging, withdrawn,
                     edited, at, page, lease, lapsed, held>>
      /\ pc' = [pc EXCEPT ![w] = "releasing"]
      /\ pc[w] \in {"publishing", "barred"}
  BY DEF Publish, world, requests, Go
<1>2. WorldOK /\ RowsOK /\ BriefsOK /\ WorkersOK
  BY DEF Inv, TypeInv
<1>3. Holds(w) /\ i \in Investigations /\ h \in Collections
  BY <1>1, <1>2 DEF Holds, WorkersOK
<1>4. \/ UNCHANGED <<status, result, text, ready, edition>>
      \/ status' = [status EXCEPT ![i] = "stale"] /\ UNCHANGED <<result, text, ready, edition>>
      \/ Mine(w) /\ Store(w, Nothing, "unavailable", 0)
      \/ /\ Mine(w) /\ Scope(i) = h.scope /\ pc[w] = "publishing"
         /\ \E s \in {"ready", "partial"} :
              Store(w, [rev |-> h.rev, source |-> h.source, perm |-> h.perm], s, h.rev)
  BY <1>1 DEF Publish
<1>5. \/ UNCHANGED <<result, text, ready, edition>>
         /\ \E s \in Statuses \ {"ready", "partial"} : status' = [status EXCEPT ![i] = s] \/ UNCHANGED status
      \/ \E s \in Statuses, found \in Results, t \in Numbers :
           /\ rev[i] = h.rev /\ status' = [status EXCEPT ![i] = s]
           /\ result' = [result EXCEPT ![i] = found]
           /\ text' = [text EXCEPT ![i] = IF edited[i] THEN text[i] ELSE t]
           /\ ready' = [ready EXCEPT ![i] = 0]
           /\ edition' = [edition EXCEPT ![i] = @ + 1]
           /\ t \in {0, h.rev} /\ (found = Nothing \/ found.rev = h.rev)
           /\ s \in {"ready", "partial"} =>
                found = [rev |-> h.rev, source |-> h.source, perm |-> h.perm]
                /\ Scope(i) = h.scope /\ pc[w] = "publishing"
  <2>1. CASE UNCHANGED <<status, result, text, ready, edition>>
    BY <2>1 DEF Statuses
  <2>2. CASE status' = [status EXCEPT ![i] = "stale"] /\ UNCHANGED <<result, text, ready, edition>>
    BY <2>2 DEF Statuses
  <2>3. CASE Mine(w) /\ Store(w, Nothing, "unavailable", 0)
    BY <2>3, ZeroType DEF Mine, Store, Draft, Statuses, Results, Nothing
  <2>4. ASSUME NEW s \in {"ready", "partial"}, Mine(w), Scope(i) = h.scope, pc[w] = "publishing",
               Store(w, [rev |-> h.rev, source |-> h.source, perm |-> h.perm], s, h.rev)
        PROVE  <1>5!2
    <3>1. [rev |-> h.rev, source |-> h.source, perm |-> h.perm] \in Results /\ h.rev \in Numbers /\ s \in Statuses
      BY <1>3 DEF Collections, Results, Statuses
    <3> QED BY <2>4, <3>1 DEF Mine, Store, Draft
  <2> QED BY <1>4, <2>1, <2>2, <2>3, <2>4
<1>6. TypeInv'
  <2>1. RowsOK' /\ BriefsOK'
    BY <1>1, <1>2, <1>3, <1>5, ZeroType DEF RowsOK, BriefsOK
  <2>2. WorkersOK'
    BY <1>1, <1>2, <1>3 DEF WorkersOK, Places, Holds
  <2> QED BY <1>1, <2>1, <2>2 DEF Inv, TypeInv, WorldOK, RequestsOK
<1>7. Issued' /\ HeldScope'
  BY <1>1, <1>2, <1>3 DEF Inv, Issued, HeldScope, Holds, WorkersOK
<1>8. ReadInOrder'
  <2>1. \A v \in Workers : v # w => pc'[v] = pc[v]
    BY <1>1, <1>2 DEF WorkersOK
  <2>2. pc'[w] = "releasing"
    BY <1>1, <1>2 DEF WorkersOK
  <2> QED BY <1>1, <1>3, <2>1, <2>2 DEF Inv, ReadInOrder, Holds
<1>9. EvidenceInScope'
  <2> SUFFICES ASSUME NEW j \in Investigations, status'[j] \in {"ready", "partial"}
               PROVE  result'[j] = [rev |-> rev[j], source |-> scope[j].source, perm |-> scope[j].perm]
    BY <1>1 DEF EvidenceInScope
  <2>1. CASE status'[j] = status[j] /\ result'[j] = result[j]
    BY <2>1 DEF Inv, EvidenceInScope
  <2>2. CASE ~(status'[j] = status[j] /\ result'[j] = result[j])
    <3>1. j = i /\ rev[i] = h.rev /\ Scope(i) = h.scope /\ pc[w] = "publishing"
          /\ result'[i] = [rev |-> h.rev, source |-> h.source, perm |-> h.perm]
      BY <1>2, <1>3, <1>5, <2>2 DEF RowsOK, BriefsOK
    <3>2. h.scope = scope[i]
      BY <1>3, <3>1 DEF Inv, HeldScope
    <3>3. h.scope \in Scopes
      BY <1>2, <1>3, <3>1, ScopeType
    <3>4. h.source =< source[i] /\ h.scope.source =< h.source /\ h.perm =< perm /\ h.scope.perm =< h.perm
      BY <1>3, <3>1, <3>3 DEF Inv, ReadInOrder
    <3>5. h.scope.source = source[i] /\ h.scope.perm = perm
      BY <3>1 DEF Scope
    <3>6. h.source \in Nat /\ h.perm \in Nat /\ source[i] \in Nat /\ perm \in Nat
      BY <1>2, <1>3, ZeroType DEF Collections, WorldOK
    <3>7. h.source = h.scope.source /\ h.perm = h.scope.perm
      BY <3>4, <3>5, <3>6
    <3> QED BY <3>1, <3>2, <3>7
  <2> QED BY <2>1, <2>2
<1>10. NothingWithdrawn'
  <2> SUFFICES ASSUME NEW j \in Investigations
               PROVE  /\ result'[j] # Nothing => result'[j].rev >= withdrawn[j]
                      /\ text'[j] # 0 => text'[j] >= withdrawn[j]
    BY <1>1 DEF NothingWithdrawn
  <2>1. /\ result[j] # Nothing => result[j].rev >= withdrawn[j]
        /\ text[j] # 0 => text[j] >= withdrawn[j]
    BY DEF Inv, NothingWithdrawn
  <2>2. withdrawn[j] =< rev[j] /\ withdrawn[j] \in Nat /\ rev[j] \in Nat
    BY <1>2, ZeroType DEF Inv, Issued, RowsOK
  <2>3. result'[j] = result[j] \/ result'[j] = Nothing \/ result'[j].rev = rev[j]
    BY <1>2, <1>3, <1>5 DEF BriefsOK
  <2>4. text'[j] = text[j] \/ text'[j] = 0 \/ text'[j] = rev[j]
    BY <1>2, <1>3, <1>5 DEF BriefsOK
  <2> QED BY <2>1, <2>2, <2>3, <2>4
<1>11. ReadyIsReviewed'
  <2> SUFFICES ASSUME NEW j \in Investigations, ready'[j] # 0
               PROVE  ready'[j] = rev[j] /\ edited[j] /\ text'[j] # 0
    BY <1>1 DEF ReadyIsReviewed
  <2>1. ready'[j] = ready[j] /\ text'[j] = text[j]
    BY <1>2, <1>3, <1>5 DEF BriefsOK
  <2> QED BY <2>1 DEF Inv, ReadyIsReviewed
<1> QED BY <1>6, <1>7, <1>8, <1>9, <1>10, <1>11 DEF Inv

(* An investigation is queued.                                             *)
LEMMA SaveQueueKeeps == ASSUME Inv, NEW r \in Requests, SaveQueue(r) PROVE Inv'
<1> DEFINE i == page[r].of
<1>1. /\ UNCHANGED <<source, perm, allowed, purging, withdrawn, result, text, edited, edition,
                     lease, lapsed, pc, held>>
      /\ at[r] = "queueing" /\ at' = [at EXCEPT ![r] = "idle"] /\ page' = [page EXCEPT ![r] = NoPage]
      /\ rev' = [rev EXCEPT ![i] = Fresh] /\ scope' = [scope EXCEPT ![i] = page[r].scope]
      /\ ready' = [ready EXCEPT ![i] = 0]
      /\ overdue' = overdue \ {i} /\ aged' = aged \ {i} /\ Change
  BY DEF SaveQueue, world, workers, Return, Unready
<1>2. PICK s \in {"pending", "unavailable"} : status' = [status EXCEPT ![i] = s]
  BY DEF SaveQueue, Queued
<1>3. TypeInv /\ WorldOK /\ RowsOK /\ BriefsOK /\ RequestsOK /\ WorkersOK
  BY DEF Inv, TypeInv
<1>4. changes' \in Numbers /\ Fresh \in Numbers /\ changes' = Fresh /\ Fresh = changes + 1 /\ changes \in Nat
  BY <1>1, <1>3, ChangeType, ZeroType DEF TypeInv, Fresh
<1>5. i \in Investigations /\ page[r].scope \in Scopes /\ Older(page[r].scope, source[i], perm)
  BY <1>1, <1>3 DEF RequestsOK, Inv, ReadInOrder
<1>6. TypeInv'
  <2>1. RowsOK' /\ BriefsOK'
    BY <1>1, <1>2, <1>3, <1>4, <1>5, ZeroType DEF RowsOK, BriefsOK, Statuses
  <2>2. NoPage \in Pages
    BY ZeroType DEF NoPage, Pages
  <2>3. RequestsOK'
    BY <1>1, <1>3, <2>2 DEF RequestsOK
  <2> QED BY <1>1, <1>3, <1>4, <2>1, <2>3 DEF TypeInv, WorldOK, WorkersOK, Holds
<1>7. Issued'
  <2>1. perm' =< changes'
    BY <1>1, <1>3, <1>4, ZeroType DEF Inv, Issued, WorldOK
  <2>2. ASSUME NEW j \in Investigations
        PROVE  source'[j] =< changes' /\ rev'[j] =< changes' /\ withdrawn'[j] =< rev'[j]
    <3>1. /\ source[j] \in Nat /\ rev[j] \in Nat /\ withdrawn[j] \in Nat
          /\ source[j] =< changes /\ rev[j] =< changes /\ withdrawn[j] =< rev[j]
      BY <1>3, ZeroType DEF Inv, Issued, WorldOK, RowsOK
    <3>2. rev'[j] = rev[j] \/ rev'[j] = Fresh
      BY <1>1, <1>3 DEF RowsOK
    <3> QED BY <1>1, <1>4, <3>1, <3>2
  <2>3. ASSUME NEW w \in Workers PROVE held'[w].rev =< changes'
    <3>1. held[w].rev \in Nat /\ held[w].rev =< changes
      BY <1>3, ZeroType DEF Inv, Issued, WorkersOK, Collections
    <3> QED BY <1>1, <1>4, <3>1
  <2> QED BY <2>1, <2>2, <2>3 DEF Issued
<1>8. HeldScope'
  <2> SUFFICES ASSUME NEW w \in Workers, Holds(w)', rev'[held[w].of] = held[w].rev
               PROVE  held[w].scope = scope'[held[w].of]
    BY <1>1 DEF HeldScope
  <2>1. Holds(w) /\ held[w].of \in Investigations /\ held[w].rev \in Nat /\ held[w].rev =< changes
    BY <1>1, <1>3, ZeroType DEF WorkersOK, Holds, Collections, Inv, Issued
  <2>2. held[w].of # i
    BY <1>1, <1>3, <1>4, <2>1 DEF RowsOK
  <2> QED BY <1>1, <1>3, <2>1, <2>2 DEF RowsOK, Inv, HeldScope
<1>9. ReadInOrder'
  <2>1. ASSUME NEW j \in Investigations PROVE Older(scope'[j], source[j], perm)
    BY <1>1, <1>3, <1>5 DEF Inv, ReadInOrder, RowsOK
  <2>2. ASSUME NEW q \in Requests, at'[q] = "queueing"
        PROVE  page'[q].scope \in Scopes /\ Older(page'[q].scope, source[page'[q].of], perm)
    <3>1. q # r
      BY <1>1, <1>3, <2>2 DEF RequestsOK
    <3> QED BY <1>1, <1>3, <2>2, <3>1 DEF Inv, ReadInOrder, RequestsOK
  <2> QED BY <1>1, <2>1, <2>2 DEF Inv, ReadInOrder, Holds
<1>10. EvidenceInScope' /\ NothingWithdrawn'
  <2>1. ASSUME NEW j \in Investigations, status'[j] \in {"ready", "partial"}
        PROVE  result'[j] = [rev |-> rev'[j], source |-> scope'[j].source, perm |-> scope'[j].perm]
    <3>1. j # i
      BY <1>2, <1>3, <2>1 DEF RowsOK
    <3> QED BY <1>1, <1>2, <1>3, <2>1, <3>1 DEF Inv, EvidenceInScope, RowsOK
  <2> QED BY <1>1, <2>1 DEF Inv, EvidenceInScope, NothingWithdrawn
<1>11. ReadyIsReviewed'
  <2> SUFFICES ASSUME NEW j \in Investigations, ready'[j] # 0
               PROVE  ready'[j] = rev'[j] /\ edited'[j] /\ text'[j] # 0
    BY DEF ReadyIsReviewed
  <2>1. j # i
    BY <1>1, <1>3 DEF BriefsOK
  <2> QED BY <1>1, <1>3, <2>1 DEF Inv, ReadyIsReviewed, BriefsOK, RowsOK
<1> QED BY <1>6, <1>7, <1>8, <1>9, <1>10, <1>11 DEF Inv

(* Staff save a draft, or are told to reload.                              *)
LEMMA SaveDraftKeeps ==
  ASSUME Inv, NEW r \in Requests, NEW approved \in BOOLEAN, SaveDraft(r, approved)
  PROVE  Inv'
<1> DEFINE i == page[r].of
<1>1. /\ UNCHANGED <<source, perm, allowed, rev, status, scope, overdue, aged, purging, withdrawn, result,
                     lease, lapsed, pc, held>>
      /\ at[r] = "reading" /\ at' = [at EXCEPT ![r] = "idle"] /\ page' = [page EXCEPT ![r] = NoPage]
  BY DEF SaveDraft, world, rows, workers, Return
<1>2. TypeInv /\ WorldOK /\ RowsOK /\ BriefsOK /\ RequestsOK /\ WorkersOK
  BY DEF Inv, TypeInv
<1>3. i \in Investigations /\ page[r] \in Pages
  BY <1>1, <1>2 DEF RequestsOK
<1>4. \/ UNCHANGED <<changes, text, edited, ready, edition>>
      \/ /\ Change /\ rev[i] = page[r].rev
         /\ text' = [text EXCEPT ![i] = Fresh] /\ edited' = [edited EXCEPT ![i] = TRUE]
         /\ ready' = [ready EXCEPT ![i] = IF approved THEN page[r].rev ELSE 0]
         /\ edition' = [edition EXCEPT ![i] = @ + 1]
  BY DEF SaveDraft, Unchanged
<1>5. changes \in Nat /\ changes' \in Numbers /\ (changes' = changes \/ changes' = changes + 1)
      /\ (Change => Fresh \in Numbers /\ Fresh = changes + 1 /\ changes' = Fresh)
  BY <1>2, <1>4, ChangeType, ZeroType DEF TypeInv, Fresh
<1>6. TypeInv'
  <2>1. BriefsOK'
    <3>1. CASE UNCHANGED <<changes, text, edited, ready, edition>>
      BY <1>1, <1>2, <3>1 DEF BriefsOK
    <3>2. CASE ~UNCHANGED <<changes, text, edited, ready, edition>>
      <4>1. Fresh \in Numbers /\ page[r].rev \in Numbers /\ 0 \in Numbers
        BY <1>3, <1>4, <1>5, <3>2, ZeroType DEF Pages
      <4>2. text' \in [Investigations -> Numbers] /\ ready' \in [Investigations -> Numbers]
        BY <1>2, <1>4, <3>2, <4>1 DEF BriefsOK
      <4>3. edition' = [edition EXCEPT ![i] = edition[i] + 1] /\ edited' = [edited EXCEPT ![i] = TRUE]
        BY <1>4, <3>2
      <4>4. edition' \in [Investigations -> Nat]
        BY <1>2, <1>3, <4>3 DEF BriefsOK
      <4>5. edited' \in [Investigations -> BOOLEAN]
        BY <1>2, <4>3 DEF BriefsOK
      <4> QED BY <1>1, <1>2, <4>2, <4>4, <4>5 DEF BriefsOK
    <3> QED BY <3>1, <3>2
  <2>2. NoPage \in Pages
    BY ZeroType DEF NoPage, Pages
  <2>3. RequestsOK'
    BY <1>1, <1>2, <2>2 DEF RequestsOK
  <2> QED BY <1>1, <1>2, <1>5, <2>1, <2>3 DEF TypeInv, WorldOK, RowsOK, WorkersOK, Holds
<1>7. Issued'
  <2>1. perm' =< changes'
    BY <1>1, <1>2, <1>5, ZeroType DEF Inv, Issued, WorldOK
  <2>2. ASSUME NEW j \in Investigations
        PROVE  source'[j] =< changes' /\ rev'[j] =< changes' /\ withdrawn'[j] =< rev'[j]
    <3>1. /\ source[j] \in Nat /\ rev[j] \in Nat /\ withdrawn[j] \in Nat
          /\ source[j] =< changes /\ rev[j] =< changes /\ withdrawn[j] =< rev[j]
      BY <1>2, ZeroType DEF Inv, Issued, WorldOK, RowsOK
    <3> QED BY <1>1, <1>5, <3>1
  <2>3. ASSUME NEW w \in Workers PROVE held'[w].rev =< changes'
    <3>1. held[w].rev \in Nat /\ held[w].rev =< changes
      BY <1>2, ZeroType DEF Inv, Issued, WorkersOK, Collections
    <3> QED BY <1>1, <1>5, <3>1
  <2> QED BY <2>1, <2>2, <2>3 DEF Issued
<1>8. HeldScope' /\ EvidenceInScope'
  BY <1>1 DEF Inv, HeldScope, Holds, EvidenceInScope
<1>9. ReadInOrder'
  <2>1. ASSUME NEW q \in Requests, at'[q] = "queueing"
        PROVE  page'[q].scope \in Scopes /\ Older(page'[q].scope, source[page'[q].of], perm)
    <3>1. q # r
      BY <1>1, <1>2, <2>1 DEF RequestsOK
    <3> QED BY <1>1, <1>2, <2>1, <3>1 DEF Inv, ReadInOrder, RequestsOK
  <2> QED BY <1>1, <2>1 DEF Inv, ReadInOrder, Holds
<1>10. NothingWithdrawn'
  <2> SUFFICES ASSUME NEW j \in Investigations
               PROVE  /\ result'[j] # Nothing => result'[j].rev >= withdrawn'[j]
                      /\ text'[j] # 0 => text'[j] >= withdrawn'[j]
    BY DEF NothingWithdrawn
  <2>1. withdrawn[j] \in Nat /\ rev[j] \in Nat /\ withdrawn[j] =< rev[j] /\ rev[j] =< changes
    BY <1>2, ZeroType DEF Inv, Issued, RowsOK
  <2>2. text'[j] = text[j] \/ text'[j] = changes + 1
    BY <1>2, <1>4, <1>5 DEF BriefsOK
  <2>3. text[j] # 0 => text[j] >= withdrawn[j]
    BY DEF Inv, NothingWithdrawn
  <2>4. text'[j] # 0 => text'[j] >= withdrawn[j]
    BY <1>5, <2>1, <2>2, <2>3
  <2> QED BY <1>1, <2>4 DEF Inv, NothingWithdrawn
<1>11. ReadyIsReviewed'
  <2> SUFFICES ASSUME NEW j \in Investigations, ready'[j] # 0
               PROVE  ready'[j] = rev[j] /\ edited'[j] /\ text'[j] # 0
    BY <1>1 DEF ReadyIsReviewed
  <2>1. CASE ready'[j] = ready[j] /\ edited'[j] = edited[j] /\ text'[j] = text[j]
    BY <2>1 DEF Inv, ReadyIsReviewed
  <2>2. CASE j = i /\ Change /\ rev[i] = page[r].rev /\ text'[i] = Fresh /\ edited'[i] = TRUE
             /\ ready'[i] = (IF approved THEN page[r].rev ELSE 0)
    BY <1>5, <2>2
  <2> QED BY <1>2, <1>3, <1>4, <2>1, <2>2 DEF BriefsOK
<1> QED BY <1>6, <1>7, <1>8, <1>9, <1>10, <1>11 DEF Inv

(* Every step keeps the invariant.                                         *)
LEMMA NextInv == Inv /\ [Next]_vars => Inv'
<1> SUFFICES ASSUME Inv, [Next]_vars PROVE Inv'
  OBVIOUS
<1>1. CASE UNCHANGED vars
  <2>1. UNCHANGED <<changes, source, perm, allowed, rev, status, scope, overdue, aged, purging, withdrawn,
                    result, text, edited, ready, edition, at, page, lease, lapsed, pc, held>>
    BY <1>1 DEF vars, world, rows, briefs, requests, workers
  <2>2. TypeInv'
    BY <2>1 DEF Inv, TypeInv, WorldOK, RowsOK, BriefsOK, RequestsOK, WorkersOK, Holds
  <2> QED BY <2>1, <2>2 DEF Inv, Issued, HeldScope, ReadInOrder, Holds, EvidenceInScope, NothingWithdrawn,
                            ReadyIsReviewed
<1>2. CASE Next
  <2>1. TypeInv
    BY DEF Inv
  <2> QED BY <1>2, <2>1, Kinds, WithdrawalKeeps, WorldStepKeeps, RequestStepKeeps, EndsKeep, DropsKeep,
             CollectingKeeps, PublishKeeps, SaveQueueKeeps, SaveDraftKeeps
<1> QED BY <1>1, <1>2

LEMMA Invariance == Spec => []Inv
<1> QED BY InitInv, NextInv, PTL DEF Spec

----------------------------------------------------------------------------
(* The theorems.                                                           *)

(* Every variable keeps its type.                                          *)
THEOREM TypeCorrect == Spec => []TypeOK
<1>1. Inv => TypeOK
  BY TypesTogether DEF Inv
<1> QED BY <1>1, Invariance, PTL

(* Evidence shown is of the messages, owners and permissions as they are,  *)
(* although it was collected outside any lock while they changed.          *)
THEOREM EvidenceCurrent == Spec => []ShownIsCurrent
<1>1. Inv => ShownIsCurrent
  <2> SUFFICES ASSUME Inv, NEW i \in Investigations, Shown(i)
               PROVE  result[i] = [rev |-> rev[i], source |-> source[i], perm |-> perm]
    BY DEF ShownIsCurrent
  <2>1. result[i] = [rev |-> rev[i], source |-> scope[i].source, perm |-> scope[i].perm]
    BY DEF Inv, EvidenceInScope, Shown
  <2>2. scope[i].source = source[i] /\ scope[i].perm = perm
    BY DEF Shown, Scope
  <2> QED BY <2>1, <2>2
<1> QED BY <1>1, Invariance, PTL

(* Of what was withdrawn nothing is left or comes back.                    *)
THEOREM WithdrawnStaysAway == Spec => []NothingWithdrawn
<1>1. Inv => NothingWithdrawn
  BY DEF Inv
<1> QED BY <1>1, Invariance, PTL

(* A draft is ready only as somebody approved it for the present revision. *)
THEOREM ReadyReviewed == Spec => []ReadyIsReviewed
<1>1. Inv => ReadyIsReviewed
  BY DEF Inv
<1> QED BY <1>1, Invariance, PTL

(* A step replaces an edited draft only if it withdraws it or saves what   *)
(* somebody wrote who had seen it.                                         *)
LEMMA DraftStep ==
  ASSUME Inv, Next
  PROVE  \A i \in Investigations : edited[i] /\ text'[i] # text[i] =>
           \/ text'[i] = 0
           \/ \E r \in Requests :
                at[r] = "reading" /\ page[r].of = i /\ page[r].edition = edition[i] /\ at'[r] = "idle"
<1> SUFFICES ASSUME NEW i \in Investigations, edited[i], text'[i] # text[i], text'[i] # 0
             PROVE  \E r \in Requests :
                      at[r] = "reading" /\ page[r].of = i /\ page[r].edition = edition[i] /\ at'[r] = "idle"
  OBVIOUS
<1>1. TypeInv /\ BriefsOK /\ RequestsOK
  BY DEF Inv, TypeInv
<1>2. ~Withdrawal
  BY DEF Withdrawal, Withdraw
<1>3. ~WorldStep /\ ~RequestStep /\ ~Ends /\ \A w \in Workers : ~Drops(w)
  BY DEF WorldStep, RequestStep, Ends, Drops, briefs
<1>4. \A w \in Workers : ~GatherLocal(w) /\ ~GatherRemote(w) /\ \A j \in Investigations : ~Take(w, j)
  BY DEF GatherLocal, GatherRemote, Take, briefs
<1>5. \A w \in Workers : ~Publish(w)
  BY <1>1 DEF Publish, Store, Draft, BriefsOK
<1>6. \A r \in Requests : ~SaveQueue(r)
  BY DEF SaveQueue
<1>7. PICK r \in Requests, approved \in BOOLEAN : SaveDraft(r, approved)
  BY <1>1, <1>2, <1>3, <1>4, <1>5, <1>6, Kinds
<1>8. at[r] = "reading" /\ at'[r] = "idle" /\ Unchanged(r) /\ text' = [text EXCEPT ![page[r].of] = Fresh]
  BY <1>1, <1>7 DEF SaveDraft, Return, RequestsOK
<1>9. page[r].of = i
  BY <1>1, <1>8 DEF BriefsOK
<1> QED BY <1>8, <1>9 DEF Unchanged

(* An edited draft is replaced only by somebody who has seen it, or        *)
(* withdrawn.                                                              *)
THEOREM EditedKept == Spec => EditedDraftKept
<1>1. Inv /\ [Next]_vars =>
        [\A i \in Investigations : edited[i] /\ text'[i] # text[i] =>
           \/ text'[i] = 0
           \/ \E r \in Requests :
                at[r] = "reading" /\ page[r].of = i /\ page[r].edition = edition[i] /\ at'[r] = "idle"]_vars
  BY DraftStep
<1> QED BY <1>1, Invariance, PTL DEF Spec, EditedDraftKept
=============================================================================
