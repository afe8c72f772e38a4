---------------------------- MODULE OfficeProofs ----------------------------
(***************************************************************************)
(* Proofs about the team, its sessions, the builds, their library, the     *)
(* gateway to the models and the stored secrets, for any number of users,  *)
(* requests, tokens, handlers, jobs, calls, keys and rows.                 *)
(***************************************************************************)
EXTENDS MCOffice, FiniteSetTheorems, TLAPS

(* What counting at most one means.                                        *)
LEMMA AtMostOne ==
  ASSUME NEW S, NEW x, S \subseteq {x}
  PROVE  Cardinality(S) <= 1
  <1>1. S = {} \/ S = {x}
    OBVIOUS
  <1>2. Cardinality({}) = 0 /\ Cardinality({x}) = 1
    BY FS_EmptySet, FS_Singleton
  <1> QED
    BY <1>1, <1>2

----------------------------------------------------------------------------
(* The team.                                                               *)

Superuser(u) == IsSuperuser(account[u]) /\ account[u].active

(* What a request has read is a row, of an account that exists, and only a *)
(* request that uses a link names one.                                     *)
HasRead(r) ==
  LET q == request[r] IN
  /\ q.pc = "begun" => q.by \in Users /\ q.me.role # "none"
  /\ q.pc \in {"reset", "register", "confirm"} => q.to \in Users /\ q.row.role # "none"
  /\ q.pc \in {"deactivate", "delete", "forgot"} => q.to \in Users /\ Exists(q.to)
  /\ IF q.pc \in {"confirm", "mark"} THEN q.link \in Links /\ link[q.link].user # NoUser
     ELSE q.link = NoLink

ReadInv ==
  /\ \A u \in Users : ~Exists(u) => ~account[u].deleted /\ ~account[u].active
  /\ \A r \in Requests : HasRead(r)
  /\ \A l \in Links : link[l].user # NoUser => Exists(link[l].user)

(* One removal at a time, and somebody else would be left.                 *)
LastInv ==
  /\ ~raced => \A q, r \in Requests : Removing(q) /\ Removing(r) => q = r
  /\ ~demoted /\ ~raced /\ overwritten = {} =>
       /\ \E u \in Users : Superuser(u)
       /\ \A r \in Requests : Removing(r) => \E u \in Users \ {request[r].to} : Superuser(u)

(* A link that nothing crossed serves one request, which finds it unspent. *)
LinkInv ==
  \A l \in Links \ crossed :
    /\ \A q, r \in Requests : request[q].link = l /\ request[r].link = l => q = r
    /\ \A r \in Requests : request[r].pc = "confirm" /\ request[r].link = l => spent[l] = {}
    /\ spent[l] # {} =>
         link[l].used \/ \E r \in Requests : request[r].pc = "mark" /\ request[r].link = l
    /\ \A q, r \in spent[l] : q = r

KeptInv == \A u \in Users \ overwritten :
  /\ account[u].pw = setBy[u]
  /\ u \in removed => account[u].deleted /\ ~account[u].active

TeamInv == AccountTypeOK /\ ReadInv /\ LastInv /\ LinkInv /\ KeptInv

----------------------------------------------------------------------------
(* Sessions.                                                               *)

(* A token descends from a login that was issued; what is not issued is on *)
(* no list.                                                                *)
ChainInv ==
  /\ \A t \in Tokens : issued[t] # 0 => issued[t] \in Tokens /\ issued[issued[t]] = issued[t]
  /\ \A t \in black : issued[t] # 0
  /\ \A n \in out : issued[n] # 0
  /\ cookie # 0 => issued[cookie] # 0

(* A request that refreshes holds a token that is good, and is alone.      *)
RefreshInv ==
  /\ \A v \in Visitors : visit[v].op = "refresh" => visit[v].read \in Tokens /\ issued[visit[v].read] # 0
  /\ "refresh" \notin doubled =>
       /\ \A v, w \in Visitors : visit[v].op = "refresh" /\ visit[w].op = "refresh" => v = w
       /\ \A v \in Visitors : visit[v].op = "refresh" => visit[v].read \in Live
       /\ \A s, t \in Live : issued[s] = issued[t] => s = t
       /\ \A t \in Live : issued[t] \notin out

(* Each visitor makes an account and passes the limit at most once; who is *)
(* about to, alone, has read what still holds.                             *)
Makers   == {v \in Visitors : visit[v].op \in {"mark", "done"}}
Finished == {v \in Visitors : visit[v].op = "done"}

AcceptInv ==
  /\ accounts <= Cardinality(Makers)
  /\ "accept" \notin doubled =>
       /\ \A v, w \in Visitors : visit[v].op \in {"accept", "name"} /\ visit[w].op \in {"accept", "name"} => v = w
       /\ \A v \in Visitors : visit[v].op \in {"accept", "name"} => accounts = 0
       /\ accounts <= 1

MailInv ==
  /\ counter <= sent /\ sent <= Cardinality(Finished)
  /\ "mail" \notin doubled =>
       /\ \A v, w \in Visitors : visit[v].op = "mail" /\ visit[w].op = "mail" => v = w
       /\ \A v \in Visitors : visit[v].op = "mail" => visit[v].read = counter /\ counter < MaxMail
       /\ counter = sent /\ sent <= MaxMail

VisitInv == SessionTypeOK /\ ChainInv /\ RefreshInv /\ AcceptInv /\ MailInv

----------------------------------------------------------------------------
(* Builds.                                                                 *)

(* Who is about to make a reference is alone, and there is none.           *)
GoldInv ==
  "gold" \notin stale =>
    /\ \A g, h \in Handlers : At(g, "create") /\ At(h, "create") => g = h
    /\ \A h \in Handlers : At(h, "create") => \A g \in Handlers : gold[g] = NoText
    /\ \A g, h \in Handlers : gold[g] # NoText /\ gold[h] # NoText => g = h

(* Also for a section about to be done, what is open was opened since.     *)
CheckedInv ==
  /\ \A h \in Handlers : At(h, "section") /\ handler[h].status = "DONE" =>
       \A c \in Changes : change[c] = "open" => c \in reopened
  /\ UpdatesResolved

WorkInv == BuildTypeOK /\ StatusIsChosen /\ GoldInv /\ CheckedInv

----------------------------------------------------------------------------
(* The library.                                                            *)

Waits4Worker == \E j \in Jobs : job[j].kind \in {"reindex", "remove"} /\ JobAt(j, "queued")
Matches ==
  IF doc.present /\ doc.usable THEN \E j \in Jobs : chunks = {[content |-> Content(doc), by |-> j]}
  ELSE chunks = {}

DocInv ==
  /\ doc.present => doc.text # 0
  /\ editor.present => editor.text # 0
  /\ \A j \in Jobs : job[j].kind = "remove" /\ JobAt(j, "queued") => ~doc.present /\ doc # NoDoc
  /\ \A j \in Jobs : job[j].kind = "remove" => ~Working(j)

(* One worker indexes, what it has read is the row, and it has dropped the *)
(* chunks before it adds any; unless a job waits the row is what it was.   *)
IndexInv ==
  ~unsynced =>
    /\ \A i, j \in Jobs : Indexing(i) /\ Indexing(j) => i = j
    /\ \A j \in Jobs : Indexing(j) =>
         /\ JobAt(j, "embed") => chunks = {} /\ job[j].row.usable
         /\ Waits4Worker \/ (job[j].row = doc /\ doc.present)
    /\ Outstanding \/ Matches

SummaryInv ==
  /\ human # 0 => doc.present
  /\ human # 0 /\ ~late =>
       /\ doc.summary = "human"
       /\ \A j \in Jobs : Enriching(j) => job[j].row.summary = "human"

StoreInv == LibraryTypeOK /\ DocInv /\ IndexInv /\ SummaryInv

----------------------------------------------------------------------------
(* The gateway.                                                            *)

Answers == {c \in AiCalls : call[c].pc = "done"}

(* A call in progress saw less than the cap, and may yet add what it uses; *)
(* today's bound counts as many calls as were in progress at once.         *)
SpendInv ==
  /\ embedded <= used /\ used - embedded <= MaxTokens * Cardinality(Answers)
  /\ Cardinality(InProgress) <= crowd
  /\ (used - embedded) + MaxTokens * Cardinality(InProgress) < Cap + MaxTokens * crowd

(* One key is in use or about to be.                                       *)
KeyInv ==
  \A p \in Providers \ paired : \A j, k \in Keys : Taken(j, p) /\ Taken(k, p) => j = k

CapInv == GatewayTypeOK /\ SpendInv /\ PrivateStays /\ KeyInv

----------------------------------------------------------------------------
(* The stored secrets.                                                     *)

(* What the command has passed is under the primary secret; what it has in *)
(* hand is as it read it or was saved since.                               *)
PassInv ==
  /\ secret.fallback => secret.primary > 0
  /\ pass.on => secret.fallback
  /\ ~pass.on => pass.hand = {}
  /\ \A r, s \in pass.hand : r = s
  /\ pass.on => \A r \in Rows \ (pass.left \cup pass.hand) : stored[r].under = secret.primary
  /\ \A r \in pass.hand : stored[r] = pass.read \/ stored[r].under = secret.primary
  /\ \A r \in pass.hand \cap Blind : r \in passed \/ stored[r] = pass.read

RotationInv == VaultTypeOK /\ PassInv /\ SecretsKept

OfficeInv == TeamInv /\ VisitInv /\ WorkInv /\ StoreInv /\ CapInv /\ RotationInv

----------------------------------------------------------------------------
(* The rotation.                                                           *)

LEMMA RotationStarts == VaultInit => RotationInv
  BY VaultConstants DEF VaultInit, RotationInv, VaultTypeOK, PassInv, SecretsKept, Stored, NoRow,
     Pass, Stopped, Rows, Readable, EncryptionSecrets

LEMMA RotationStep == RotationInv /\ [VaultNext]_vaultVars => RotationInv'
  <1> SUFFICES ASSUME RotationInv, [VaultNext]_vaultVars PROVE RotationInv'
    OBVIOUS
  <1> USE VaultConstants DEF RotationInv, VaultTypeOK, Stored
  <1>0. /\ secret.primary \in 0..MaxRotation /\ secret.fallback \in BOOLEAN
        /\ pass.on \in BOOLEAN /\ pass.left \subseteq Rows /\ pass.hand \subseteq Rows
        /\ pass.read \in Stored
        /\ \A r \in Rows : /\ stored[r] \in Stored /\ saved[r] \in 0..MaxValue
                           /\ stored[r].under \in 0..MaxRotation
                           /\ stored[r].value \in 0..MaxValue
    BY DEF Pass
  <1>1. ASSUME NEW r \in Rows, SaveSecret(r) PROVE RotationInv'
    <2>1. /\ saved[r] + 1 \in 0..MaxValue
          /\ stored' \in [Rows -> Stored] /\ saved' \in [Rows -> 0..MaxValue]
      BY <1>0, <1>1 DEF SaveSecret
    <2>2. /\ stored'[r] = [value |-> saved[r] + 1, under |-> secret.primary]
          /\ saved'[r] = saved[r] + 1
          /\ \A s \in Rows \ {r} : stored'[s] = stored[s] /\ saved'[s] = saved[s]
          /\ passed' = IF r \in pass.hand \cap Blind THEN passed \cup {r} ELSE passed
          /\ UNCHANGED <<secret, pass>>
      BY <1>1 DEF SaveSecret
    <2>3. stored'[r].under = secret.primary /\ stored'[r].value = saved'[r]
      BY <2>2
    <2>4. VaultTypeOK'
      BY <2>1, <2>2
    <2>5. PassInv'
      BY <1>0, <2>2, <2>3 DEF PassInv
    <2>6. SecretsKept'
      BY <1>0, <2>2, <2>3 DEF SecretsKept, Readable, EncryptionSecrets
    <2> QED
      BY <2>4, <2>5, <2>6
  <1>2. CASE RotateSecret
    <2>1. /\ secret' = [primary |-> secret.primary + 1, fallback |-> TRUE]
          /\ secret.primary + 1 \in 0..MaxRotation /\ ~secret.fallback
          /\ UNCHANGED <<stored, pass, saved, passed>>
      BY <1>0, <1>2 DEF RotateSecret
    <2>2. secret'.primary = secret.primary + 1 /\ secret'.fallback = TRUE
      BY <2>1
    <2>3. ~pass.on /\ pass.hand = {}
      BY <2>1 DEF PassInv
    <2>4. PassInv'
      BY <1>0, <2>1, <2>2, <2>3 DEF PassInv
    <2>5. \A r \in Rows : stored[r].under = secret.primary
      BY <2>1 DEF SecretsKept, Readable, EncryptionSecrets
    <2>6. SecretsKept'
      BY <1>0, <2>1, <2>2, <2>5 DEF SecretsKept, Readable, EncryptionSecrets
    <2> QED
      BY <2>1, <2>4, <2>6
  <1>3. CASE Start
    <2>1. /\ pass' = [on |-> TRUE, left |-> Rows, hand |-> {}, read |-> NoRow]
          /\ secret.fallback /\ UNCHANGED <<secret, stored, saved, passed>>
      BY <1>3 DEF Start, Stopped
    <2>2. pass' \in Pass
      BY <2>1 DEF Pass, NoRow
    <2>3. PassInv'
      BY <1>0, <2>1 DEF PassInv
    <2> QED
      BY <2>1, <2>2, <2>3 DEF SecretsKept, Readable, EncryptionSecrets
  <1>4. ASSUME NEW r \in Rows, Decrypt(r) PROVE RotationInv'
    <2>1. /\ pass.on /\ pass.hand = {} /\ r \in pass.left /\ Readable(r)
          /\ pass' = [pass EXCEPT !.left = pass.left \ {r}, !.read = stored[r], !.hand = {r}]
          /\ UNCHANGED <<secret, stored, saved, passed>>
      BY <1>4 DEF Decrypt, SecretsKept
    <2>2. /\ pass' \in Pass
          /\ pass'.on /\ pass'.left = pass.left \ {r} /\ pass'.read = stored[r] /\ pass'.hand = {r}
      BY <1>0, <2>1 DEF Pass
    <2>3. PassInv'
      BY <2>1, <2>2 DEF PassInv
    <2> QED
      BY <2>1, <2>2, <2>3 DEF SecretsKept, Readable, EncryptionSecrets
  <1>5. CASE Encrypt
    <2>1. PICK r \in pass.hand :
            /\ stored' = IF MayWrite(r)
                         THEN [stored EXCEPT ![r] = [pass.read EXCEPT !.under = secret.primary]]
                         ELSE stored
            /\ pass' = [pass EXCEPT !.hand = {}]
            /\ UNCHANGED <<secret, saved, passed>>
      BY <1>5 DEF Encrypt
    <2>2. /\ pass' \in Pass /\ r \in Rows
          /\ pass'.on = pass.on /\ pass'.left = pass.left /\ pass'.hand = {}
      BY <1>0, <2>1 DEF Pass
    <2> DEFINE new == [pass.read EXCEPT !.under = secret.primary]
    <2>3. new \in Stored /\ new.under = secret.primary /\ new.value = pass.read.value
      BY <1>0
    <2> HIDE DEF new
    <2>4. /\ stored' \in [Rows -> Stored] /\ \A s \in Rows \ {r} : stored'[s] = stored[s]
          /\ IF MayWrite(r) THEN stored'[r] = new ELSE stored'[r] = stored[r]
      BY <1>0, <2>1, <2>2, <2>3 DEF new
    <2>5. stored'[r].under = secret.primary
      BY <2>2, <2>3, <2>4 DEF PassInv, MayWrite, Rows
    <2>6. r \in passed \/ stored'[r].value = saved[r]
      BY <2>2, <2>3, <2>4 DEF PassInv, MayWrite, Rows, SecretsKept
    <2>7. pass.hand = {r}
      BY DEF PassInv
    <2>8. PassInv'
      BY <2>1, <2>2, <2>4, <2>5, <2>7 DEF PassInv
    <2>9. SecretsKept'
      BY <2>1, <2>2, <2>4, <2>5, <2>6 DEF SecretsKept, Readable, EncryptionSecrets
    <2> QED
      BY <2>1, <2>2, <2>4, <2>8, <2>9
  <1>6. CASE CommandDies
    <2>1. /\ pass' = [on |-> FALSE, left |-> {}, hand |-> {}, read |-> NoRow]
          /\ UNCHANGED <<secret, stored, saved, passed>>
      BY <1>6 DEF CommandDies, Stopped
    <2>2. pass' \in Pass
      BY <2>1 DEF Pass, NoRow
    <2> QED
      BY <2>1, <2>2 DEF PassInv, SecretsKept, Readable, EncryptionSecrets
  <1>7. CASE DropFallback
    <2>1. /\ pass' = [on |-> FALSE, left |-> {}, hand |-> {}, read |-> NoRow]
          /\ secret' = [secret EXCEPT !.fallback = FALSE]
          /\ pass.on /\ pass.left = {} /\ pass.hand = {}
          /\ UNCHANGED <<stored, saved, passed>>
      BY <1>7 DEF DropFallback, Stopped
    <2>2. pass' \in Pass
      BY <2>1 DEF Pass, NoRow
    <2>3. secret'.primary = secret.primary /\ secret'.fallback = FALSE
      BY <2>1
    <2>4. \A r \in Rows : stored[r].under = secret.primary
      BY <2>1 DEF PassInv
    <2> QED
      BY <2>1, <2>2, <2>3, <2>4 DEF PassInv, SecretsKept, Readable, EncryptionSecrets
  <1>8. CASE UNCHANGED vaultVars
    BY <1>8 DEF vaultVars, PassInv, SecretsKept, Readable, EncryptionSecrets
  <1> QED
    BY <1>1, <1>2, <1>3, <1>4, <1>5, <1>6, <1>7, <1>8 DEF VaultNext

----------------------------------------------------------------------------
(* The work on a build.                                                    *)

LEMMA WorkStarts == BuildInit => WorkInv
  <1> SUFFICES ASSUME BuildInit PROVE WorkInv
    OBVIOUS
  <1> USE BuildConstants DEF BuildInit
  <1>1. BuildTypeOK
    BY DEF BuildTypeOK, BuildRow, BuildStatus, ChangeRequestStatus, BuildSectionReview, NewBuild,
       NewReview, Free, Handler
  <1>2. StatusIsChosen /\ GoldInv /\ CheckedInv
    BY DEF StatusIsChosen, GoldInv, CheckedInv, UpdatesResolved, At, Free, NewReview
  <1> QED
    BY <1>1, <1>2 DEF WorkInv

(* A handler that only moves on, to where it neither makes a reference nor *)
(* saves a review.                                                         *)
LEMMA TurnTypes ==
  ASSUME BuildTypeOK, NEW h \in Handlers
  PROVE  /\ \A pc \in {"generate", "start", "promote", "create", "refresh"} :
              Turns(h, pc) => /\ handler' \in [Handlers -> Handler]
                              /\ handler'[h].pc = pc
                              /\ \A g \in Handlers \ {h} : handler'[g] = handler[g]
         /\ Closes(h) => /\ handler' \in [Handlers -> Handler]
                         /\ handler'[h].pc = "done"
                         /\ \A g \in Handlers \ {h} : handler'[g] = handler[g]
  <1> USE DEF BuildTypeOK
  <1>1. [Free EXCEPT !.pc = "done"] \in Handler /\ [Free EXCEPT !.pc = "done"].pc = "done"
    BY BuildConstants DEF Free, Handler, NewBuild, NewReview, BuildRow, BuildStatus, BuildSectionReview
  <1>2. ASSUME NEW pc \in {"generate", "start", "promote", "create", "refresh"}
        PROVE  [handler[h] EXCEPT !.pc = pc] \in Handler /\ [handler[h] EXCEPT !.pc = pc].pc = pc
    BY <1>2 DEF Handler
  <1> QED
    BY <1>1, <1>2 DEF Turns, Closes

(* The document's reference, and the section, for a handler that touches   *)
(* neither.                                                                *)
LEMMA HandlersElsewhere ==
  ASSUME WorkInv, NEW h \in Handlers,
         handler'[h].pc \notin {"create", "section"},
         \A g \in Handlers \ {h} : handler'[g] = handler[g],
         UNCHANGED <<gold, change, section, blocks, reopened>>,
         stale \subseteq stale'
  PROVE  GoldInv' /\ CheckedInv'
  BY DEF WorkInv, GoldInv, CheckedInv, UpdatesResolved, At

(* What the handlers do to the row of the build.                           *)
LEMMA RowStep ==
  ASSUME WorkInv, NEW h \in Handlers,
         \/ GetObject(h) \/ AskDocument(h) \/ SaveDocument(h) \/ ReportProgress(h)
         \/ MaybeStartProgress(h) \/ HandlerEnds(h)
         \/ \E u \in Staff : Assign(h, u) \/ Approve(h, u)
         \/ \E s \in BuildStatus : SetStatus(h, s) \/ \E u \in Staff \cup {NoStaff} : PatchBuild(h, s, u)
  PROVE  WorkInv'
  <1> USE DEF WorkInv, BuildTypeOK, rest
  <1>0. /\ build.status \in BuildStatus /\ handler[h].row.status \in BuildStatus
        /\ build \in BuildRow /\ handler[h].row \in BuildRow
        /\ handler[h].row.assignee \in Staff \cup {NoStaff}
    BY DEF Handler, BuildRow
  <1>1. /\ handler' \in [Handlers -> Handler] /\ handler'[h].pc \notin {"create", "section"}
        /\ \A g \in Handlers \ {h} : handler'[g] = handler[g]
    <2>1. CASE GetObject(h)
      <3>1. [handler[h] EXCEPT !.pc = "open", !.row = build] \in Handler
        BY <1>0 DEF Handler
      <3>2. handler' = [handler EXCEPT ![h] = [handler[h] EXCEPT !.pc = "open", !.row = build]]
        BY <2>1 DEF GetObject
      <3>3. [handler[h] EXCEPT !.pc = "open", !.row = build].pc = "open"
        BY DEF Handler
      <3> QED
        BY <3>1, <3>2, <3>3
    <2>2. ~GetObject(h) => Closes(h) \/ \E pc \in {"generate", "start", "promote"} : Turns(h, pc)
      BY DEF AskDocument, SaveDocument, ReportProgress, MaybeStartProgress, HandlerEnds, Assign,
         Approve, SetStatus, PatchBuild
    <2> QED
      BY <2>1, <2>2, TurnTypes
  <1>2. /\ UNCHANGED <<gold, change, section, blocks, reopened>>
        /\ stale' \in {stale, stale \cup {"build"}}
    BY DEF GetObject, AskDocument, SaveDocument, ReportProgress, MaybeStartProgress, HandlerEnds,
       Assign, Approve, SetStatus, PatchBuild, Mark
  <1>3. GoldInv' /\ CheckedInv'
    BY <1>1, <1>2, HandlersElsewhere
  <1>4. build' \in BuildRow /\ chosen' \in BuildStatus /\ StatusIsChosen'
    <2>1. CASE GetObject(h) \/ AskDocument(h) \/ ReportProgress(h) \/ HandlerEnds(h)
      BY <2>1 DEF GetObject, AskDocument, ReportProgress, HandlerEnds, StatusIsChosen
    <2>2. CASE SaveDocument(h)
      <3>1. build' = [build EXCEPT !.doc = h] /\ UNCHANGED <<chosen, stale>>
        BY <2>2 DEF SaveDocument
      <3>2. build'.status = build.status /\ build' \in BuildRow
        BY <1>0, <3>1 DEF BuildRow
      <3> QED
        BY <3>1, <3>2 DEF StatusIsChosen
    <2>3. CASE MaybeStartProgress(h)
      <3>1. CASE MayStart(handler[h].row)
        <4>1. /\ build' = [build EXCEPT !.status = "IN_PROGRESS"] /\ chosen' = chosen
              /\ "build" \notin stale' => "build" \notin stale /\ build.status = "ASSIGNED"
          BY <2>3, <3>1 DEF MaybeStartProgress, MayStart, Mark
        <4>2. build'.status = "IN_PROGRESS" /\ build' \in BuildRow
          BY <1>0, <4>1 DEF BuildRow, BuildStatus
        <4> QED
          BY <4>1, <4>2 DEF StatusIsChosen
      <3>2. CASE ~MayStart(handler[h].row)
        BY <2>3, <3>2 DEF MaybeStartProgress, StatusIsChosen
      <3> QED
        BY <3>1, <3>2
    <2>4. ASSUME NEW u \in Staff, Assign(h, u) PROVE build' \in BuildRow /\ chosen' \in BuildStatus /\ StatusIsChosen'
      <3> DEFINE row == handler[h].row
      <3> DEFINE fresh == row.status \in {"DRAFT", "AI_DRAFTED"}
      <3>1. /\ build' = [row EXCEPT !.assignee = u, !.status = IF fresh THEN "ASSIGNED" ELSE row.status]
            /\ chosen' = IF fresh THEN "ASSIGNED" ELSE chosen
            /\ "build" \notin stale' => "build" \notin stale /\ row = build
        BY <2>4 DEF Assign, Mark
      <3>2. /\ build' \in BuildRow /\ chosen' \in BuildStatus
            /\ build'.status = IF fresh THEN "ASSIGNED" ELSE row.status
        BY <1>0, <3>1 DEF BuildRow, BuildStatus
      <3> QED
        BY <3>1, <3>2 DEF StatusIsChosen
    <2>5. ASSUME NEW u \in Staff, Approve(h, u) PROVE build' \in BuildRow /\ chosen' \in BuildStatus /\ StatusIsChosen'
      <3>1. build' = [build EXCEPT !.assignee = u, !.status = "ASSIGNED"] /\ chosen' = "ASSIGNED"
        BY <2>5 DEF Approve
      <3>2. build' \in BuildRow /\ build'.status = "ASSIGNED"
        BY <1>0, <3>1 DEF BuildRow, BuildStatus
      <3> QED
        BY <3>1, <3>2 DEF StatusIsChosen, BuildStatus
    <2>6. ASSUME NEW s \in BuildStatus, SetStatus(h, s) PROVE build' \in BuildRow /\ chosen' \in BuildStatus /\ StatusIsChosen'
      <3>1. build' = [build EXCEPT !.status = s] /\ chosen' = s
        BY <2>6 DEF SetStatus
      <3>2. build' \in BuildRow /\ build'.status = s
        BY <1>0, <3>1 DEF BuildRow
      <3> QED
        BY <3>1, <3>2 DEF StatusIsChosen
    <2>7. ASSUME NEW s \in BuildStatus, NEW u \in Staff \cup {NoStaff}, PatchBuild(h, s, u)
          PROVE  build' \in BuildRow /\ chosen' \in BuildStatus /\ StatusIsChosen'
      <3> DEFINE row == handler[h].row
      <3>1. /\ \E d \in {row.doc, NoText, h} : build' = [status |-> s, assignee |-> u, doc |-> d]
            /\ chosen' = IF s = row.status THEN chosen ELSE s
            /\ "build" \notin stale' => "build" \notin stale /\ row = build
        BY <2>7 DEF PatchBuild, Mark
      <3>2. build' \in BuildRow /\ build'.status = s /\ chosen' \in BuildStatus
        BY <1>0, <3>1 DEF BuildRow
      <3> QED
        BY <3>1, <3>2 DEF StatusIsChosen
    <2> QED
      BY <2>1, <2>2, <2>3, <2>4, <2>5, <2>6, <2>7
  <1> QED
    BY <1>1, <1>2, <1>3, <1>4

(* The reference of a delivered build.                                     *)
LEMMA GoldStep ==
  ASSUME WorkInv, NEW h \in Handlers, PromoteToLibrary(h) \/ SaveGold(h)
  PROVE  WorkInv'
  <1> USE DEF WorkInv, BuildTypeOK, rest
  <1>0. handler[h].row.doc \in Handlers \cup {NoText}
    BY DEF Handler, BuildRow
  <1>1. CASE PromoteToLibrary(h)
    <2>1. /\ handler' \in [Handlers -> Handler]
          /\ handler'[h].pc = IF \E g \in Handlers : gold[g] # NoText THEN "refresh" ELSE "create"
          /\ \A g \in Handlers \ {h} : handler'[g] = handler[g]
      BY <1>1, TurnTypes DEF PromoteToLibrary
    <2>2. /\ UNCHANGED <<build, gold, chosen, change, section, blocks, reopened>>
          /\ stale' = IF \E g \in Handlers : At(g, "create") THEN stale \cup {"gold"} ELSE stale
      BY <1>1 DEF PromoteToLibrary, Mark
    <2>3. GoldInv'
      BY <2>1, <2>2 DEF GoldInv, At
    <2>4. CheckedInv' /\ StatusIsChosen'
      BY <2>1, <2>2 DEF CheckedInv, UpdatesResolved, At, StatusIsChosen
    <2> QED
      BY <2>1, <2>2, <2>3, <2>4
  <1>2. CASE SaveGold(h)
    <2>1. /\ handler' \in [Handlers -> Handler] /\ handler'[h].pc = "done"
          /\ \A g \in Handlers \ {h} : handler'[g] = handler[g]
      BY <1>2, TurnTypes DEF SaveGold
    <2>2. UNCHANGED <<build, chosen, stale, change, section, blocks, reopened>>
      BY <1>2 DEF SaveGold
    <2>3. PICK g \in Handlers : /\ gold' = [gold EXCEPT ![g] = handler[h].row.doc]
                                /\ (At(h, "create") /\ g = h) \/ gold[g] # NoText
      BY <1>2 DEF SaveGold
    <2>4. gold' \in [Handlers -> Handlers \cup {NoText}]
      BY <1>0, <2>3
    <2>5. \A f \in Handlers \ {g} : gold'[f] = gold[f]
      BY <2>3
    <2>6. GoldInv'
      BY <2>1, <2>2, <2>3, <2>5 DEF GoldInv, At
    <2>7. CheckedInv' /\ StatusIsChosen'
      BY <2>1, <2>2 DEF CheckedInv, UpdatesResolved, At, StatusIsChosen
    <2> QED
      BY <2>1, <2>2, <2>4, <2>6, <2>7
  <1> QED
    BY <1>1, <1>2

(* The section of client updates.                                          *)
LEMMA SectionStep ==
  ASSUME WorkInv, NEW h \in Handlers,
         \/ \E s \in {"TODO", "DONE", "BLOCKED"} : UpsertReview(h, s)
         \/ SaveReview(h) \/ RequestInfo(h) \/ SaveQuestion(h)
  PROVE  WorkInv'
  <1> USE DEF WorkInv, BuildTypeOK, rest
  <1>0. /\ section.history \in SUBSET Handlers /\ handler[h].review.history \in SUBSET Handlers
        /\ handler[h].status \in {"TODO", "DONE", "BLOCKED"}
    BY DEF Handler, BuildSectionReview
  <1>1. ASSUME NEW s \in {"TODO", "DONE", "BLOCKED"}, UpsertReview(h, s) PROVE WorkInv'
    <2> DEFINE new == [handler[h] EXCEPT !.pc = "section", !.status = s, !.review = section]
    <2>1. new \in Handler /\ new.pc = "section" /\ new.status = s
      BY DEF Handler
    <2>2. handler' = [handler EXCEPT ![h] = new]
      BY <1>1 DEF UpsertReview
    <2> HIDE DEF new
    <2>3. /\ handler' \in [Handlers -> Handler]
          /\ handler'[h].pc = "section" /\ handler'[h].status = s
          /\ \A g \in Handlers \ {h} : handler'[g] = handler[g]
      BY <2>1, <2>2
    <2>4. /\ UNCHANGED <<build, change, section, gold, chosen, blocks, stale>>
          /\ IF s = "DONE" THEN AllResolved /\ reopened' = {} ELSE reopened' = reopened
      BY <1>1 DEF UpsertReview
    <2>5. GoldInv' /\ StatusIsChosen'
      BY <2>3, <2>4 DEF GoldInv, At, StatusIsChosen
    <2>6. CheckedInv'
      <3>1. CASE s = "DONE"
        BY <2>3, <2>4, <3>1 DEF CheckedInv, UpdatesResolved, At, AllResolved
      <3>2. CASE s # "DONE"
        BY <2>3, <2>4, <3>2 DEF CheckedInv, UpdatesResolved, At
      <3> QED
        BY <3>1, <3>2
    <2> QED
      BY <2>3, <2>4, <2>5, <2>6
  <1>2. CASE SaveReview(h)
    <2> DEFINE extra == IF handler[h].status = "BLOCKED" THEN {h} ELSE {}
    <2>1. /\ section' = [status |-> handler[h].status, history |-> handler[h].review.history \cup extra]
          /\ blocks' = blocks \cup extra
          /\ stale' = IF section # handler[h].review THEN stale \cup {"section"} ELSE stale
          /\ At(h, "section") /\ UNCHANGED <<build, change, gold, chosen, reopened>>
      BY <1>2 DEF SaveReview, Mark
    <2>2. extra \subseteq Handlers
      OBVIOUS
    <2>3. /\ handler' \in [Handlers -> Handler] /\ handler'[h].pc \in {"done", "start"}
          /\ \A g \in Handlers \ {h} : handler'[g] = handler[g]
      BY <1>2, TurnTypes DEF SaveReview
    <2> HIDE DEF extra
    <2>4. /\ section' \in BuildSectionReview
          /\ section'.status = handler[h].status
          /\ section'.history = handler[h].review.history \cup extra
      BY <1>0, <2>1, <2>2 DEF BuildSectionReview
    <2>5. GoldInv' /\ StatusIsChosen'
      BY <2>1, <2>3 DEF GoldInv, At, StatusIsChosen
    <2>6. CheckedInv'
      BY <2>1, <2>3, <2>4 DEF CheckedInv, UpdatesResolved, At
    <2> QED
      BY <2>1, <2>2, <2>3, <2>4, <2>5, <2>6
  <1>3. CASE RequestInfo(h)
    <2> DEFINE new == [handler[h] EXCEPT !.pc = "info", !.review = section]
    <2>1. new \in Handler /\ new.pc = "info"
      BY DEF Handler
    <2>2. handler' = [handler EXCEPT ![h] = new]
      BY <1>3 DEF RequestInfo
    <2> HIDE DEF new
    <2>3. /\ handler' \in [Handlers -> Handler] /\ handler'[h].pc = "info"
          /\ \A g \in Handlers \ {h} : handler'[g] = handler[g]
      BY <2>1, <2>2
    <2>4. UNCHANGED <<build, change, section, gold, chosen, blocks, reopened, stale>>
      BY <1>3 DEF RequestInfo
    <2>5. GoldInv' /\ CheckedInv'
      BY <2>3, <2>4, HandlersElsewhere
    <2> QED
      BY <2>3, <2>4, <2>5 DEF StatusIsChosen
  <1>4. CASE SaveQuestion(h)
    <2>1. /\ section' = [section EXCEPT !.history = handler[h].review.history \cup {h}]
          /\ blocks' = blocks \cup {h}
          /\ stale' = IF section.history # handler[h].review.history THEN stale \cup {"section"} ELSE stale
          /\ UNCHANGED <<build, change, gold, chosen, reopened>>
      BY <1>4 DEF SaveQuestion, Mark
    <2>2. /\ handler' \in [Handlers -> Handler] /\ handler'[h].pc = "done"
          /\ \A g \in Handlers \ {h} : handler'[g] = handler[g]
      BY <1>4, TurnTypes DEF SaveQuestion
    <2>3. /\ section' \in BuildSectionReview
          /\ section'.status = section.status
          /\ section'.history = handler[h].review.history \cup {h}
      BY <1>0, <2>1 DEF BuildSectionReview
    <2>4. GoldInv' /\ StatusIsChosen'
      BY <2>1, <2>2 DEF GoldInv, At, StatusIsChosen
    <2>5. CheckedInv'
      BY <2>1, <2>2, <2>3 DEF CheckedInv, UpdatesResolved, At
    <2> QED
      BY <2>1, <2>2, <2>3, <2>4, <2>5
  <1> QED
    BY <1>1, <1>2, <1>3, <1>4

LEMMA WorkStep == WorkInv /\ [BuildNext]_buildVars => WorkInv'
  <1> SUFFICES ASSUME WorkInv, [BuildNext]_buildVars PROVE WorkInv'
    OBVIOUS
  <1>1. ASSUME NEW c \in Changes, NEW s \in ChangeRequestStatus, SetChange(c, s)
        PROVE  WorkInv'
    <2> USE DEF WorkInv, BuildTypeOK
    <2>1. /\ change' = [change EXCEPT ![c] = s]
          /\ reopened' = IF s = "open" THEN reopened \cup {c} ELSE reopened
          /\ UNCHANGED <<build, section, gold, handler, chosen, blocks, stale>>
      BY <1>1 DEF SetChange
    <2>2. change' \in [Changes -> ChangeRequestStatus] /\ reopened' \subseteq Changes
      BY <2>1
    <2>3. \A d \in Changes : change'[d] = "open" => change[d] = "open" \/ d \in reopened'
      BY <2>1
    <2>4. CheckedInv'
      BY <2>1, <2>3 DEF CheckedInv, UpdatesResolved, At
    <2> QED
      BY <2>1, <2>2, <2>4 DEF GoldInv, At, StatusIsChosen
  <1>2. CASE UNCHANGED buildVars
    BY <1>2 DEF buildVars, WorkInv, BuildTypeOK, GoldInv, At, StatusIsChosen, CheckedInv, UpdatesResolved
  <1> QED
    BY <1>1, <1>2, RowStep, GoldStep, SectionStep DEF BuildNext

----------------------------------------------------------------------------
(* The library and its index.                                              *)

LEMMA UnusedMessage ==
  /\ NoDoc \in BuildKnowledge /\ NoDoc.present = FALSE /\ NoDoc.text = 0
  /\ Unused \in Job /\ Unused.kind = "none" /\ Unused.pc = "idle"
  <1>1. NoDoc \in BuildKnowledge
    BY LibraryConstants DEF BuildKnowledge, NoDoc, Summary
  <1> QED
    BY <1>1 DEF Unused, Job, Kinds, NoDoc

LEMMA StoreStarts == LibraryInit => StoreInv
  <1> SUFFICES ASSUME LibraryInit PROVE StoreInv
    OBVIOUS
  <1> USE LibraryConstants DEF LibraryInit
  <1>1. chunks = {} /\ 0 \in 0..MaxText /\ \A j \in Jobs : job[j] = Unused
    OBVIOUS
  <1>2. job \in [Jobs -> Job]
    BY UnusedMessage
  <1>3. LibraryTypeOK
    BY <1>1, <1>2, UnusedMessage DEF LibraryTypeOK
  <1> QED
    BY <1>1, <1>3, UnusedMessage DEF StoreInv, DocInv, IndexInv, SummaryInv, Matches, Indexing, Enriching, Working

(* What ending and queueing a message do to it and to the others.          *)
LEMMA MessageEnds ==
  ASSUME NEW f \in [Jobs -> Job], NEW j \in Jobs
  PROVE  /\ Ended(f, j) \in [Jobs -> Job]
         /\ Ended(f, j)[j].kind = "none" /\ Ended(f, j)[j].pc = "done"
         /\ \A i \in Jobs \ {j} : Ended(f, j)[i] = f[i]
  <1> DEFINE new == [Unused EXCEPT !.pc = "done"]
  <1>1. new \in Job /\ new.kind = "none" /\ new.pc = "done"
    BY UnusedMessage DEF Job
  <1>2. Ended(f, j) = [f EXCEPT ![j] = new]
    BY DEF Ended
  <1> HIDE DEF new
  <1> QED
    BY <1>1, <1>2

LEMMA MessageQueued ==
  ASSUME NEW f \in [Jobs -> Job], NEW j \in Jobs, NEW kind \in Kinds
  PROVE  /\ Queued(f, j, kind) \in [Jobs -> Job]
         /\ Queued(f, j, kind)[j].kind = kind /\ Queued(f, j, kind)[j].pc = "queued"
         /\ \A i \in Jobs \ {j} : Queued(f, j, kind)[i] = f[i]
  <1> DEFINE new == [Unused EXCEPT !.kind = kind, !.pc = "queued"]
  <1>1. new \in Job /\ new.kind = kind /\ new.pc = "queued"
    BY UnusedMessage DEF Job
  <1>2. Queued(f, j, kind) = [f EXCEPT ![j] = new]
    BY DEF Queued
  <1> HIDE DEF new
  <1> QED
    BY <1>1, <1>2

(* f is g but for messages that were unused and now wait.                  *)
Adds(f, g, kinds) ==
  /\ g \in [Jobs -> Job]
  /\ \A j \in Jobs : g[j] = f[j] \/ (g[j].kind \in kinds /\ g[j].pc = "queued" /\ f[j].pc = "idle")

(* Afterwards a message waits, or one is known to be lost.                 *)
LEMMA Signalled ==
  ASSUME NEW f \in [Jobs -> Job], NEW kind \in {"reindex", "remove"}, Signal(f, kind),
         unsynced \in BOOLEAN
  PROVE  /\ Adds(f, job', {kind})
         /\ unsynced' \in BOOLEAN
         /\ ~unsynced' => ~unsynced /\ Waits4Worker'
  <1>1. ASSUME NEW j \in FreshJob(f), job' = Queued(f, j, kind), UNCHANGED unsynced
        PROVE  /\ Adds(f, job', {kind})
               /\ ~unsynced' => ~unsynced /\ Waits4Worker'
    <2>1. j \in Jobs /\ f[j].pc = "idle"
      BY DEF FreshJob
    <2>2. /\ job' \in [Jobs -> Job] /\ job'[j].kind = kind /\ job'[j].pc = "queued"
          /\ \A i \in Jobs \ {j} : job'[i] = f[i]
      BY <1>1, <2>1, MessageQueued DEF Kinds
    <2> QED
      BY <1>1, <2>1, <2>2 DEF Adds, Waits4Worker, JobAt
  <1>2. CASE job' = f /\ unsynced' = TRUE
    BY <1>2 DEF Adds
  <1> QED
    BY <1>1, <1>2 DEF Signal

(* After a change of the document a message waits, or one is lost: nothing *)
(* is claimed of the index, and the others work on.                        *)
LEMMA ChangeStep ==
  ASSUME StoreInv, NEW f \in [Jobs -> Job], Adds(f, job', {"reindex", "remove", "enrich"}),
         \A j \in Jobs : f[j] = job[j] \/ (Enriching(j) /\ f[j].kind = "none" /\ f[j].pc = "done"),
         unsynced' \in BOOLEAN, ~unsynced' => ~unsynced /\ Waits4Worker',
         UNCHANGED chunks
  PROVE  IndexInv'
  <1>1. \A j \in Jobs : Indexing(j)' => Indexing(j) /\ job'[j] = job[j]
    BY DEF Adds, Indexing, Working
  <1>2. Waits4Worker' => Outstanding'
    BY DEF Waits4Worker, Outstanding
  <1> QED
    BY <1>1, <1>2 DEF StoreInv, IndexInv, JobAt

(* A worker that enriches read its row before.                             *)
LEMMA EnrichersStay ==
  ASSUME NEW f \in [Jobs -> Job], NEW kinds, Adds(f, job', kinds),
         \A j \in Jobs : f[j] = job[j] \/ (f[j].kind = "none" /\ f[j].pc = "done")
  PROVE  \A j \in Jobs : Enriching(j)' => Enriching(j) /\ job'[j] = job[j]
  BY DEF Adds, Enriching, Working

(* A document is uploaded, or promoted from a build: its summary waits too. *)
LEMMA TwoSignals ==
  ASSUME job \in [Jobs -> Job], unsynced \in BOOLEAN,
         \/ \E j \in FreshJob(job) : Signal(Queued(job, j, "enrich"), "reindex")
         \/ Signal(job, "reindex")
  PROVE  /\ Adds(job, job', {"reindex", "enrich"})
         /\ unsynced' \in BOOLEAN
         /\ ~unsynced' => ~unsynced /\ Waits4Worker'
  <1>1. CASE Signal(job, "reindex")
    BY <1>1, Signalled DEF Adds
  <1>2. ASSUME NEW j \in FreshJob(job), Signal(Queued(job, j, "enrich"), "reindex")
        PROVE  /\ Adds(job, job', {"reindex", "enrich"})
               /\ unsynced' \in BOOLEAN
               /\ ~unsynced' => ~unsynced /\ Waits4Worker'
    <2> DEFINE f == Queued(job, j, "enrich")
    <2>1. j \in Jobs /\ job[j].pc = "idle"
      BY DEF FreshJob
    <2>2. /\ f \in [Jobs -> Job] /\ f[j].kind = "enrich" /\ f[j].pc = "queued"
          /\ \A i \in Jobs \ {j} : f[i] = job[i]
      BY <2>1, MessageQueued DEF Kinds
    <2> HIDE DEF f
    <2>3. /\ Adds(f, job', {"reindex"})
          /\ unsynced' \in BOOLEAN /\ (~unsynced' => ~unsynced /\ Waits4Worker')
      BY <1>2, <2>2, Signalled DEF f
    <2> QED
      BY <2>1, <2>2, <2>3 DEF Adds
  <1> QED
    BY <1>1, <1>2

(* People and builds change the document.                                  *)
LEMMA DocumentStep ==
  ASSUME StoreInv,
         \/ \E summary \in {"blank", "human"}, usable \in BOOLEAN : Upload(summary, usable)
         \/ OpenEditor \/ SaveEdit \/ PromoteBuild \/ Delete
  PROVE  StoreInv'
  <1> USE LibraryConstants DEF StoreInv, LibraryTypeOK
  <1>0. /\ doc.present \in BOOLEAN /\ doc.text \in 0..MaxText /\ doc.usable \in BOOLEAN
        /\ editor.present \in BOOLEAN /\ editor.text \in 0..MaxText /\ editor.usable \in BOOLEAN
        /\ NoDoc \in BuildKnowledge /\ NoDoc.present = FALSE /\ NoDoc.text = 0
    BY UnusedMessage DEF BuildKnowledge
  <1>1. ASSUME NEW summary \in {"blank", "human"}, NEW usable \in BOOLEAN, Upload(summary, usable)
        PROVE  StoreInv'
    <2>1. /\ doc = NoDoc /\ Writes(summary)
          /\ doc' = [present |-> TRUE, text |-> 1, summary |-> summary, usable |-> usable]
          /\ UNCHANGED <<editor, chunks>>
      BY <1>1 DEF Upload
    <2>2. /\ doc' \in BuildKnowledge /\ doc'.present /\ doc'.text = 1 /\ doc'.summary = summary
          /\ human' \in 0..MaxText /\ (human' # 0 => doc'.summary = "human")
          /\ late' \in BOOLEAN /\ late' = \E j \in Jobs : Enriching(j)
      BY <2>1 DEF BuildKnowledge, Summary, Writes
    <2>3. /\ Adds(job, job', {"reindex", "enrich"})
          /\ unsynced' \in BOOLEAN /\ (~unsynced' => ~unsynced /\ Waits4Worker')
      BY <1>1, TwoSignals DEF Upload
    <2>4. IndexInv'
      <3>1. Adds(job, job', {"reindex", "remove", "enrich"})
        BY <2>3 DEF Adds
      <3> QED
        BY <2>1, <2>3, <3>1, ChangeStep
    <2>5. DocInv'
      BY <2>1, <2>2, <2>3 DEF DocInv, Adds, JobAt, Working
    <2>6. SummaryInv'
      <3>1. \A j \in Jobs : Enriching(j)' => Enriching(j)
        BY <2>3, EnrichersStay
      <3> QED
        BY <2>1, <2>2, <3>1 DEF SummaryInv
    <2> QED
      BY <2>1, <2>2, <2>3, <2>4, <2>5, <2>6 DEF Adds
  <1>2. CASE OpenEditor
    <2>1. editor' = doc /\ doc.present /\ UNCHANGED <<doc, job, chunks, unsynced, human, late>>
      BY <1>2 DEF OpenEditor
    <2> QED
      BY <2>1 DEF DocInv, IndexInv, Waits4Worker, Outstanding, Matches, Indexing, Working, JobAt,
         Content, SummaryInv, Enriching
  <1>3. CASE SaveEdit
    <2>1. /\ doc.present /\ editor.present /\ editor' = NoDoc /\ UNCHANGED chunks
          /\ late' = \E j \in Jobs : Enriching(j)
          /\ human' = IF doc'.summary = "human" THEN doc'.text ELSE 0
          /\ Signal(job, "reindex")
      BY <1>3 DEF SaveEdit, Writes
    <2>2. doc' \in BuildKnowledge /\ doc'.present /\ doc'.text # 0 /\ doc'.text \in 0..MaxText
      <3>1. CASE editor.text < MaxText /\ doc' = [editor EXCEPT !.text = editor.text + 1]
        <4>1. doc' \in BuildKnowledge /\ doc'.present = editor.present /\ doc'.text = editor.text + 1
          BY <1>0, <3>1 DEF BuildKnowledge
        <4> QED
          BY <1>0, <2>1, <3>1, <4>1
      <3>2. ASSUME NEW summary \in {"blank", "human"}, doc' = [editor EXCEPT !.summary = summary]
            PROVE  doc' \in BuildKnowledge /\ doc'.present /\ doc'.text # 0 /\ doc'.text \in 0..MaxText
        <4>1. doc' \in BuildKnowledge /\ doc'.present = editor.present /\ doc'.text = editor.text
          BY <1>0, <3>2 DEF BuildKnowledge, Summary
        <4> QED
          BY <1>0, <2>1, <4>1 DEF DocInv
      <3>3. CASE doc' = [editor EXCEPT !.usable = ~editor.usable]
        <4>1. doc' \in BuildKnowledge /\ doc'.present = editor.present /\ doc'.text = editor.text
          BY <1>0, <3>3 DEF BuildKnowledge
        <4> QED
          BY <1>0, <2>1, <4>1 DEF DocInv
      <3> QED
        BY <1>3, <3>1, <3>2, <3>3 DEF SaveEdit
    <2>8. human' \in 0..MaxText /\ (human' # 0 => doc'.summary = "human")
      BY <1>0, <2>1, <2>2
    <2>3. /\ Adds(job, job', {"reindex"})
          /\ unsynced' \in BOOLEAN /\ (~unsynced' => ~unsynced /\ Waits4Worker')
      BY <2>1, Signalled
    <2>4. IndexInv'
      <3>1. Adds(job, job', {"reindex", "remove", "enrich"})
        BY <2>3 DEF Adds
      <3> QED
        BY <2>1, <2>3, <3>1, ChangeStep
    <2>5. DocInv'
      BY <1>0, <2>1, <2>2, <2>3 DEF DocInv, Adds, JobAt, Working
    <2>6. SummaryInv'
      <3>1. \A j \in Jobs : Enriching(j)' => Enriching(j)
        BY <2>3, EnrichersStay
      <3> QED
        BY <2>1, <2>2, <2>8, <3>1 DEF SummaryInv
    <2>7. late' \in BOOLEAN
      BY <2>1
    <2> QED
      BY <1>0, <2>1, <2>2, <2>3, <2>4, <2>5, <2>6, <2>7, <2>8 DEF Adds
  <1>4. CASE PromoteBuild
    <2>1. /\ doc.present /\ doc.text < MaxText /\ human' = 0
          /\ doc' = [doc EXCEPT !.text = doc.text + 1, !.summary = "blank", !.usable = TRUE]
          /\ UNCHANGED <<editor, chunks, late>>
      BY <1>4 DEF PromoteBuild
    <2>2. /\ doc' \in BuildKnowledge
          /\ doc'.present = doc.present /\ doc'.text = doc.text + 1
      <3>1. doc.text + 1 \in 0..MaxText
        BY <1>0, <2>1
      <3> QED
        BY <1>0, <2>1, <3>1 DEF BuildKnowledge, Summary
    <2>3. /\ Adds(job, job', {"reindex", "enrich"})
          /\ unsynced' \in BOOLEAN /\ (~unsynced' => ~unsynced /\ Waits4Worker')
      BY <1>4, TwoSignals DEF PromoteBuild
    <2>4. IndexInv'
      <3>1. Adds(job, job', {"reindex", "remove", "enrich"})
        BY <2>3 DEF Adds
      <3> QED
        BY <2>1, <2>3, <3>1, ChangeStep
    <2>5. DocInv'
      BY <1>0, <2>1, <2>2, <2>3 DEF DocInv, Adds, JobAt, Working
    <2>6. SummaryInv'
      BY <2>1 DEF SummaryInv
    <2> QED
      BY <2>1, <2>2, <2>3, <2>4, <2>5, <2>6 DEF Adds
  <1>5. CASE Delete
    <2>1. /\ doc.present /\ doc' = [doc EXCEPT !.present = FALSE] /\ editor' = NoDoc
          /\ human' = 0 /\ UNCHANGED <<chunks, late>>
      BY <1>5 DEF Delete
    <2>2. doc' \in BuildKnowledge /\ doc'.present = FALSE /\ doc'.text # NoDoc.text
      BY <1>0, <2>1 DEF BuildKnowledge, DocInv
    <2>3. /\ Adds(job, job', {"remove"})
          /\ unsynced' \in BOOLEAN /\ (~unsynced' => ~unsynced /\ Waits4Worker')
      BY <1>5, Signalled DEF Delete
    <2>4. IndexInv'
      <3>1. Adds(job, job', {"reindex", "remove", "enrich"})
        BY <2>3 DEF Adds
      <3> QED
        BY <2>1, <2>3, <3>1, ChangeStep
    <2>5. DocInv'
      BY <1>0, <2>1, <2>2, <2>3 DEF DocInv, Adds, JobAt, Working
    <2>6. SummaryInv'
      BY <2>1 DEF SummaryInv
    <2> QED
      BY <1>0, <2>1, <2>2, <2>3, <2>4, <2>5, <2>6 DEF Adds
  <1> QED
    BY <1>1, <1>2, <1>3, <1>4, <1>5

(* What a worker does to its message: it ends it, sends it back, or works  *)
(* on it; the other messages stay.                                         *)
LEMMA JobMoves ==
  ASSUME LibraryTypeOK, NEW j \in Jobs
  PROVE  /\ job' = [job EXCEPT ![j].pc = "embed"] =>
              /\ job' \in [Jobs -> Job]
              /\ job'[j].pc = "embed" /\ job'[j].kind = job[j].kind /\ job'[j].row = job[j].row
              /\ \A i \in Jobs \ {j} : job'[i] = job[i]
         /\ job' = [job EXCEPT ![j].pc = "read", ![j].row = doc] =>
              /\ job' \in [Jobs -> Job]
              /\ job'[j].pc = "read" /\ job'[j].kind = job[j].kind /\ job'[j].row = doc
              /\ \A i \in Jobs \ {j} : job'[i] = job[i]
         /\ job' = [job EXCEPT ![j].pc = "read", ![j].row.summary = doc.summary] =>
              /\ job' \in [Jobs -> Job]
              /\ job'[j].pc = "read" /\ job'[j].kind = job[j].kind
              /\ job'[j].row.summary = doc.summary
              /\ \A i \in Jobs \ {j} : job'[i] = job[i]
  <1> USE DEF LibraryTypeOK
  <1>1. ASSUME NEW new \in Job, job' = [job EXCEPT ![j] = new]
        PROVE  job' \in [Jobs -> Job] /\ job'[j] = new /\ \A i \in Jobs \ {j} : job'[i] = job[i]
    BY <1>1
  <1>2. ASSUME job' = [job EXCEPT ![j].pc = "embed"]
        PROVE  /\ job' \in [Jobs -> Job]
               /\ job'[j].pc = "embed" /\ job'[j].kind = job[j].kind /\ job'[j].row = job[j].row
               /\ \A i \in Jobs \ {j} : job'[i] = job[i]
    <2> DEFINE new == [job[j] EXCEPT !.pc = "embed"]
    <2>1. new \in Job /\ new.pc = "embed" /\ new.kind = job[j].kind /\ new.row = job[j].row
      BY DEF Job
    <2>2. job' = [job EXCEPT ![j] = new]
      BY <1>2
    <2> HIDE DEF new
    <2> QED
      BY <1>1, <2>1, <2>2
  <1>3. ASSUME job' = [job EXCEPT ![j].pc = "read", ![j].row = doc]
        PROVE  /\ job' \in [Jobs -> Job]
               /\ job'[j].pc = "read" /\ job'[j].kind = job[j].kind /\ job'[j].row = doc
               /\ \A i \in Jobs \ {j} : job'[i] = job[i]
    <2> DEFINE new == [job[j] EXCEPT !.pc = "read", !.row = doc]
    <2>1. new \in Job /\ new.pc = "read" /\ new.kind = job[j].kind /\ new.row = doc
      BY DEF Job
    <2>2. job' = [job EXCEPT ![j] = new]
      BY <1>3
    <2> HIDE DEF new
    <2> QED
      BY <1>1, <2>1, <2>2
  <1>4. ASSUME job' = [job EXCEPT ![j].pc = "read", ![j].row.summary = doc.summary]
        PROVE  /\ job' \in [Jobs -> Job]
               /\ job'[j].pc = "read" /\ job'[j].kind = job[j].kind
               /\ job'[j].row.summary = doc.summary
               /\ \A i \in Jobs \ {j} : job'[i] = job[i]
    <2> DEFINE row == [job[j].row EXCEPT !.summary = doc.summary]
    <2> DEFINE new == [job[j] EXCEPT !.pc = "read", !.row = row]
    <2>1. row \in BuildKnowledge /\ row.summary = doc.summary
      BY DEF Job, BuildKnowledge
    <2>2. job' = [job EXCEPT ![j] = new]
      BY <1>4 DEF Job
    <2> HIDE DEF row
    <2>3. new \in Job /\ new.pc = "read" /\ new.kind = job[j].kind /\ new.row = row
      BY <2>1 DEF Job
    <2> HIDE DEF new
    <2> QED
      BY <1>1, <2>1, <2>2, <2>3
  <1> QED
    BY <1>2, <1>3, <1>4

(* Workers on a summary leave the index as it is.                          *)
LEMMA EnrichLeaves ==
  ASSUME StoreInv, NEW j \in Jobs, job[j].kind = "enrich",
         job'[j].kind \in {"none", "enrich"}, \A i \in Jobs \ {j} : job'[i] = job[i],
         UNCHANGED <<doc, editor, chunks, unsynced>>
  PROVE  DocInv' /\ IndexInv'
  <1> USE DEF Indexing, Working, JobAt
  <1>1. /\ \A i \in Jobs : Indexing(i)' <=> Indexing(i)
        /\ \A i \in Jobs : Indexing(i) => job'[i] = job[i]
        /\ Waits4Worker' <=> Waits4Worker
        /\ Outstanding' <=> Outstanding
    BY DEF Waits4Worker, Outstanding
  <1>2. Matches' <=> Matches
    BY DEF Matches, Content
  <1> QED
    BY <1>1, <1>2 DEF StoreInv, DocInv, IndexInv

(* Workers on the index leave the document as it is.                       *)
LEMMA IndexLeaves ==
  ASSUME StoreInv, NEW j \in Jobs, job[j].kind # "enrich", job'[j].kind # "enrich",
         job'[j].kind = "remove" => ~(JobAt(j, "queued") \/ Working(j))',
         \A i \in Jobs \ {j} : job'[i] = job[i],
         UNCHANGED <<doc, editor, human, late>>
  PROVE  DocInv' /\ SummaryInv'
  <1> USE DEF Working, JobAt, Enriching
  <1> QED
    BY DEF StoreInv, DocInv, SummaryInv

LEMMA IndexStep ==
  ASSUME StoreInv, NEW j \in Jobs,
         \/ ReindexKnowledge(j) \/ DropChunks(j) \/ IndexKnowledge(j) \/ EmbeddingFails(j)
         \/ RemoveChunks(j) \/ (JobEnds(j) /\ job[j].kind # "enrich")
  PROVE  StoreInv'
  <1> USE DEF StoreInv, LibraryTypeOK
  <1>0. UNCHANGED <<doc, editor, human, late>> /\ job[j].kind # "enrich"
    BY DEF ReindexKnowledge, DropChunks, IndexKnowledge, EmbeddingFails, RemoveChunks, JobEnds
  <1>1. ASSUME ReindexKnowledge(j), doc.present PROVE StoreInv'
    <2>1. /\ job' \in [Jobs -> Job]
          /\ job'[j].pc = "read" /\ job'[j].kind = "reindex" /\ job'[j].row = doc
          /\ \A i \in Jobs \ {j} : job'[i] = job[i]
      BY <1>1, JobMoves DEF ReindexKnowledge
    <2>2. unsynced' = (unsynced \/ \E k \in Jobs : Indexing(k)) /\ UNCHANGED chunks
      BY <1>1 DEF ReindexKnowledge
    <2>3. IndexInv'
      <3>1. ASSUME ~unsynced' PROVE ~unsynced /\ \A k \in Jobs : ~Indexing(k)
        BY <2>2, <3>1
      <3>2. ASSUME ~unsynced' PROVE \A k \in Jobs : Indexing(k)' => k = j
        BY <2>1, <3>1, <3>2 DEF Indexing, Working, JobAt
      <3>3. ASSUME ~unsynced' PROVE Outstanding'
        BY <2>1 DEF Outstanding, Working, JobAt
      <3>4. ~JobAt(j, "embed")' /\ job'[j].row = doc' /\ doc'.present
        BY <1>0, <1>1, <2>1 DEF JobAt
      <3> QED
        BY <3>2, <3>3, <3>4 DEF IndexInv
    <2>4. DocInv' /\ SummaryInv'
      BY <1>0, <2>1, IndexLeaves
    <2>5. unsynced' \in BOOLEAN
      BY <2>2
    <2> QED
      BY <1>0, <2>1, <2>2, <2>3, <2>4, <2>5
  <1>2. ASSUME \/ ReindexKnowledge(j) /\ ~doc.present
               \/ RemoveChunks(j)
        PROVE  StoreInv'
    <2>1. /\ job' \in [Jobs -> Job]
          /\ job'[j].kind = "none" /\ job'[j].pc = "done"
          /\ \A i \in Jobs \ {j} : job'[i] = job[i]
      BY <1>2, MessageEnds DEF ReindexKnowledge, RemoveChunks
    <2>2. unsynced' = (unsynced \/ \E k \in Jobs : Indexing(k)) /\ chunks' = {} /\ ~doc.present
      BY <1>2 DEF ReindexKnowledge, RemoveChunks, DocInv
    <2>3. IndexInv'
      BY <1>0, <2>1, <2>2 DEF IndexInv, Indexing, Working, Matches
    <2>4. DocInv' /\ SummaryInv'
      BY <1>0, <2>1, IndexLeaves
    <2>5. unsynced' \in BOOLEAN
      BY <2>2
    <2> QED
      BY <1>0, <2>1, <2>2, <2>3, <2>4, <2>5
  <1>3. CASE DropChunks(j)
    <2> DEFINE usable == job[j].row.usable
    <2>1. /\ job' \in [Jobs -> Job]
          /\ IF usable THEN job'[j].pc = "embed" /\ job'[j].kind = "reindex" /\ job'[j].row = job[j].row
             ELSE job'[j].kind = "none" /\ job'[j].pc = "done"
          /\ \A i \in Jobs \ {j} : job'[i] = job[i]
      <3>1. CASE usable
        BY <1>3, <3>1, JobMoves DEF DropChunks
      <3>2. CASE ~usable
        BY <1>3, <3>2, MessageEnds DEF DropChunks
      <3> QED
        BY <3>1, <3>2
    <2>2. UNCHANGED unsynced /\ chunks' = {} /\ Indexing(j) /\ ~JobAt(j, "queued")
      BY <1>3 DEF DropChunks, Drop, Indexing, Working, JobAt
    <2> HIDE DEF usable
    <2>3. Waits4Worker' <=> Waits4Worker
      BY <2>1, <2>2 DEF Waits4Worker, JobAt
    <2>4. \A i \in Jobs : Indexing(i)' => Indexing(i)
      BY <2>1, <2>2 DEF Indexing, Working
    <2>5. CASE usable
      <3>1. Outstanding'
        BY <2>1, <2>5 DEF Outstanding, Working
      <3> QED
        BY <1>0, <2>1, <2>2, <2>3, <2>4, <2>5, <3>1, IndexLeaves DEF IndexInv, JobAt, usable
    <2>6. CASE ~usable
      <3>1. ~Indexing(j)'
        BY <2>1, <2>6 DEF Indexing
      <3>2. Waits4Worker' => Outstanding'
        BY DEF Waits4Worker, Outstanding
      <3>3. ~unsynced => Outstanding' \/ Matches'
        BY <1>0, <2>2, <2>3, <2>6, <3>2 DEF IndexInv, Matches, usable
      <3>4. IndexInv'
        BY <2>2, <2>4, <3>1, <3>3 DEF IndexInv
      <3> QED
        BY <1>0, <2>1, <2>2, <2>6, <3>4, IndexLeaves
    <2> QED
      BY <2>5, <2>6
  <1>4. CASE IndexKnowledge(j)
    <2> DEFINE new == [content |-> Content(job[j].row), by |-> j]
    <2>1. /\ job' \in [Jobs -> Job]
          /\ job'[j].kind = "none" /\ job'[j].pc = "done"
          /\ \A i \in Jobs \ {j} : job'[i] = job[i]
      BY <1>4, MessageEnds DEF IndexKnowledge
    <2>2. chunks' = chunks \cup {new} /\ UNCHANGED unsynced /\ Indexing(j) /\ JobAt(j, "embed")
      BY <1>4 DEF IndexKnowledge, Indexing, Working, JobAt
    <2>3. new \in [content : [text : 0..MaxText, summary : Summary], by : Jobs]
      BY DEF Job, BuildKnowledge, Content
    <2> HIDE DEF new
    <2>4. \A i \in Jobs : Indexing(i)' => Indexing(i) /\ i # j
      BY <2>1 DEF Indexing, Working
    <2>5. Waits4Worker => Outstanding'
      BY <2>1, <2>2 DEF Waits4Worker, Outstanding, JobAt
    <2>6. ~unsynced => Outstanding' \/ Matches'
      <3>1. ASSUME ~unsynced, ~Waits4Worker PROVE Matches'
        <4>1. chunks' = {[content |-> Content(doc), by |-> j]} /\ doc.present /\ doc.usable
          BY <2>2, <3>1 DEF IndexInv, new
        <4> QED
          BY <1>0, <4>1 DEF Matches, Content
      <3> QED
        BY <2>5, <3>1
    <2>7. IndexInv'
      BY <2>2, <2>4, <2>6 DEF IndexInv
    <2> QED
      BY <1>0, <2>1, <2>2, <2>3, <2>7, IndexLeaves
  <1>5. CASE EmbeddingFails(j)
    <2>1. /\ job' \in [Jobs -> Job]
          /\ \/ job'[j].kind = "reindex" /\ job'[j].pc = "queued" /\ UNCHANGED unsynced
             \/ job'[j].kind = "none" /\ job'[j].pc = "done" /\ unsynced' = TRUE
          /\ \A i \in Jobs \ {j} : job'[i] = job[i]
      BY <1>5, MessageEnds, MessageQueued DEF EmbeddingFails, Kinds
    <2>2. UNCHANGED chunks /\ Indexing(j)
      BY <1>5 DEF EmbeddingFails, Indexing, Working, JobAt
    <2>3. \A i \in Jobs : Indexing(i)' => Indexing(i) /\ i # j
      BY <2>1 DEF Indexing, Working
    <2>4. ~unsynced' => ~unsynced /\ Outstanding'
      BY <2>1 DEF Outstanding, JobAt
    <2>5. IndexInv'
      BY <2>2, <2>3, <2>4 DEF IndexInv
    <2>6. unsynced' \in BOOLEAN
      BY <2>1
    <2> QED
      BY <1>0, <2>1, <2>2, <2>5, <2>6, IndexLeaves
  <1>6. CASE JobEnds(j) /\ job[j].kind # "enrich"
    <2>1. /\ job' \in [Jobs -> Job]
          /\ job'[j].kind = "none" /\ job'[j].pc = "done"
          /\ \A i \in Jobs \ {j} : job'[i] = job[i]
          /\ unsynced' = TRUE /\ UNCHANGED chunks
      BY <1>6, MessageEnds DEF JobEnds
    <2> QED
      BY <1>0, <2>1, IndexLeaves DEF IndexInv
  <1> QED
    BY <1>1, <1>2, <1>3, <1>4, <1>5, <1>6

LEMMA EnrichStep ==
  ASSUME StoreInv, NEW j \in Jobs,
         EnrichKnowledge(j) \/ FillBlanks(j) \/ (JobEnds(j) /\ job[j].kind = "enrich")
  PROVE  StoreInv'
  <1> USE DEF StoreInv, LibraryTypeOK
  <1>1. ASSUME UNCHANGED <<doc, unsynced>>, job' = Ended(job, j), job[j].kind = "enrich",
               UNCHANGED <<editor, chunks, human, late>>
        PROVE  StoreInv'
    <2>1. /\ job' \in [Jobs -> Job]
          /\ job'[j].kind = "none" /\ job'[j].pc = "done"
          /\ \A i \in Jobs \ {j} : job'[i] = job[i]
      BY <1>1, MessageEnds
    <2>2. DocInv' /\ IndexInv'
      BY <1>1, <2>1, EnrichLeaves
    <2>3. SummaryInv'
      BY <1>1, <2>1 DEF SummaryInv, Enriching, Working
    <2> QED
      BY <1>1, <2>1, <2>2, <2>3
  <1>2. ASSUME EnrichKnowledge(j), doc.present PROVE StoreInv'
    <2>1. /\ job' \in [Jobs -> Job]
          /\ job'[j].pc = "read" /\ job'[j].kind = "enrich" /\ job'[j].row.summary = doc.summary
          /\ \A i \in Jobs \ {j} : job'[i] = job[i]
          /\ UNCHANGED <<doc, editor, chunks, unsynced, human, late>>
      BY <1>2, JobMoves DEF EnrichKnowledge
    <2>2. DocInv' /\ IndexInv'
      BY <1>2, <2>1, EnrichLeaves DEF EnrichKnowledge
    <2>3. SummaryInv'
      BY <2>1 DEF SummaryInv, Enriching, Working
    <2> QED
      BY <2>1, <2>2, <2>3
  <1>3. ASSUME FillBlanks(j), doc.present PROVE StoreInv'
    <2> DEFINE f == Ended(job, j)
    <2>1. /\ f \in [Jobs -> Job] /\ f[j].kind = "none" /\ f[j].pc = "done"
          /\ \A i \in Jobs \ {j} : f[i] = job[i]
      BY MessageEnds
    <2> HIDE DEF f
    <2>2. /\ Adds(f, job', {"reindex"}) /\ unsynced' \in BOOLEAN
          /\ ~unsynced' => ~unsynced /\ Waits4Worker'
      BY <1>3, <2>1, Signalled DEF FillBlanks, f
    <2>3. /\ Enriching(j) /\ UNCHANGED <<editor, chunks, human, late>>
          /\ doc' = IF Blank(job[j].row) THEN [doc EXCEPT !.summary = "ai"] ELSE doc
      BY <1>3 DEF FillBlanks
    <2>4. /\ doc' \in BuildKnowledge /\ doc'.present = doc.present /\ doc'.text = doc.text
          /\ doc'.summary = IF Blank(job[j].row) THEN "ai" ELSE doc.summary
      BY <2>3 DEF BuildKnowledge, Summary
    <2>5. IndexInv'
      <3>1. Adds(f, job', {"reindex", "remove", "enrich"})
        BY <2>2 DEF Adds
      <3>2. \A i \in Jobs : f[i] = job[i] \/ (Enriching(i) /\ f[i].kind = "none" /\ f[i].pc = "done")
        BY <2>1, <2>3
      <3> QED
        BY <2>1, <2>2, <2>3, <3>1, <3>2, ChangeStep
    <2>6. \A i \in Jobs : job'[i] = job[i] \/ job'[i].kind \in {"none", "reindex"}
      BY <2>1, <2>2 DEF Adds
    <2>7. DocInv'
      BY <1>3, <2>3, <2>4, <2>6 DEF DocInv, JobAt, Working
    <2>8. SummaryInv'
      BY <2>3, <2>4, <2>6 DEF SummaryInv, Enriching, Working, Blank
    <2> QED
      BY <2>2, <2>3, <2>4, <2>5, <2>7, <2>8 DEF Adds
  <1> QED
    BY <1>1, <1>2, <1>3 DEF EnrichKnowledge, FillBlanks, JobEnds, Enriching

LEMMA StoreStep == StoreInv /\ [LibraryNext]_libraryVars => StoreInv'
  <1> SUFFICES ASSUME StoreInv, [LibraryNext]_libraryVars PROVE StoreInv'
    OBVIOUS
  <1>1. CASE UNCHANGED libraryVars
    BY <1>1 DEF libraryVars, StoreInv, LibraryTypeOK, DocInv, IndexInv, SummaryInv, Indexing, Enriching,
       Working, JobAt, Waits4Worker, Outstanding, Matches, Content
  <1> QED
    BY <1>1, DocumentStep, IndexStep, EnrichStep DEF LibraryNext

----------------------------------------------------------------------------
(* The gateway to the models.                                              *)

(* A call more costs the tokens of one call more.                          *)
LEMMA OneMore ==
  ASSUME NEW m \in Nat, NEW n \in Nat
  PROVE  m * (n + 1) = m * n + m /\ m * n \in Nat
  OBVIOUS

LEMMA MoreCost ==
  ASSUME NEW m \in Nat, NEW n \in Nat, NEW k \in Nat, n <= k
  PROVE  m * n <= m * k
  <1>1. PICK d \in Nat : k = n + d
    <2>1. k - n \in Nat /\ k = n + (k - n)
      OBVIOUS
    <2> QED
      BY <2>1
  <1>2. m * k = m * n + m * d
    BY <1>1
  <1>3. m * d \in Nat /\ m * n \in Nat /\ m * k \in Nat
    OBVIOUS
  <1> QED
    BY <1>2, <1>3

(* Answers of c and embeddings of t tokens at most fill a log of m + t.    *)
LEMMA LogFits ==
  ASSUME NEW u \in Int, NEW v \in Nat, NEW e \in Int, NEW f \in Int,
         NEW c \in Int, NEW m \in Int, NEW t \in Int,
         u - e <= c, c <= m, v - f = u - e, f <= t
  PROVE  v \in 0..(m + t)
  OBVIOUS

LEMMA CallsCounted ==
  /\ IsFiniteSet(Answers) /\ Cardinality(Answers) \in Nat /\ Cardinality(AiCalls) \in Nat
  /\ Cardinality(Answers) <= Cardinality(AiCalls)
  /\ IsFiniteSet(InProgress) /\ Cardinality(InProgress) \in Nat
  /\ Cardinality(InProgress) <= Cardinality(AiCalls)
  <1>1. Answers \in SUBSET AiCalls /\ InProgress \in SUBSET AiCalls
    BY DEF Answers, InProgress
  <1> QED
    BY <1>1, GatewayConstants, FS_Subset, FS_CardinalityType

(* The same after a step.                                                  *)
LEMMA CallsCountedNext ==
  /\ Cardinality(Answers') \in Nat /\ Cardinality(Answers') <= Cardinality(AiCalls)
  /\ IsFiniteSet(InProgress') /\ Cardinality(InProgress') \in Nat
  /\ Cardinality(InProgress') <= Cardinality(AiCalls)
  <1>1. Answers' \in SUBSET AiCalls /\ InProgress' \in SUBSET AiCalls
    BY DEF Answers, InProgress
  <1> QED
    BY <1>1, GatewayConstants, FS_Subset, FS_CardinalityType

LEMMA CapStarts == GatewayInit => CapInv
  <1> SUFFICES ASSUME GatewayInit PROVE CapInv
    OBVIOUS
  <1> USE GatewayConstants DEF GatewayInit
  <1>1. \A c \in AiCalls : call[c].pc = "new" /\ call[c].sent = {}
    OBVIOUS
  <1>2. Answers = {} /\ Cardinality(Answers) = 0 /\ InProgress = {} /\ Cardinality(InProgress) = 0
    BY <1>1, FS_EmptySet DEF Answers, InProgress, Under
  <1>3. Cardinality(AiCalls) \in Nat /\ MaxTokens * 0 = 0
    BY FS_CardinalityType
  <1>4. MaxTokens * (Cardinality(AiCalls) + 1) \in Nat
    BY <1>3
  <1>5. /\ call \in [AiCalls -> Call] /\ key \in [Keys -> AiApiKey] /\ saver \in [Keys -> Saver]
        /\ \A k \in Keys : ~key[k].active /\ saver[k] = "none"
    BY DEF Call, AiApiKey, Providers, Saver
  <1>6. GatewayTypeOK
    <2>1. used \in 0..(MaxTokens * (Cardinality(AiCalls) + 1)) /\ embedded \in 0..MaxTokens
      BY <1>4
    <2>2. crowd \in 0..Cardinality(AiCalls)
      BY <1>3
    <2> QED
      BY <1>5, <2>1, <2>2 DEF GatewayTypeOK
  <1>7. SpendInv
    BY <1>2, <1>3 DEF SpendInv
  <1>8. PrivateStays /\ KeyInv
    BY <1>1, <1>5 DEF PrivateStays, KeyInv, Taken, InUse
  <1> QED
    BY <1>6, <1>7, <1>8 DEF CapInv

(* What calls do leaves the keys alone.                                    *)
LEMMA KeysStay ==
  ASSUME CapInv, UNCHANGED keyVars
  PROVE  KeyInv'
  BY DEF CapInv, KeyInv, Taken, InUse, keyVars

(* A call that moves on without an answer.                                 *)
LEMMA CallStep ==
  ASSUME CapInv, NEW c \in AiCalls, NEW new \in Call,
         call' = [call EXCEPT ![c] = new],
         c \in InProgress, new.pc \in {"first", "second", "failed"},
         c \in PrivateCalls => new.sent \subseteq {new.provider},
         UNCHANGED <<used, embedded, crowd, aiConfig>>, UNCHANGED keyVars
  PROVE  CapInv'
  <1> USE DEF CapInv, GatewayTypeOK
  <1>1. /\ call' \in [AiCalls -> Call] /\ call'[c] = new
        /\ \A d \in AiCalls \ {c} : call'[d] = call[d]
    OBVIOUS
  <1>2. Answers' = Answers
    BY <1>1 DEF Answers, InProgress, Under
  <1>3. InProgress' \subseteq InProgress
    BY <1>1 DEF InProgress
  <1>4. SpendInv'
    <2>1. Cardinality(InProgress') <= Cardinality(InProgress)
      BY <1>3, CallsCounted, FS_Subset
    <2>2. /\ Cardinality(InProgress) \in Nat /\ Cardinality(InProgress') \in Nat
          /\ used \in Int /\ embedded \in Int /\ crowd \in Nat /\ Cap \in Nat /\ MaxTokens \in Nat
      BY CallsCounted, CallsCountedNext, GatewayConstants
    <2>3. MaxTokens * Cardinality(InProgress') <= MaxTokens * Cardinality(InProgress)
      BY <2>1, <2>2, MoreCost
    <2> DEFINE most == MaxTokens * crowd
    <2> DEFINE now == MaxTokens * Cardinality(InProgress)
    <2> DEFINE then == MaxTokens * Cardinality(InProgress')
    <2>4. most \in Nat /\ now \in Nat /\ then \in Nat /\ then <= now /\ (used - embedded) + now < Cap + most
      BY <2>2, <2>3, OneMore DEF SpendInv
    <2> HIDE DEF most, now, then
    <2>5. (used - embedded) + then < Cap + most
      BY <2>2, <2>4
    <2>6. Cardinality(InProgress') <= crowd
      BY <2>1, <2>2 DEF SpendInv
    <2> QED
      BY <1>2, <2>5, <2>6 DEF SpendInv, most, then
  <1>5. PrivateStays'
    BY <1>1, GatewayConstants DEF PrivateStays
  <1>6. KeyInv'
    BY KeysStay
  <1> QED
    BY <1>1, <1>4, <1>5, <1>6 DEF keyVars

LEMMA AskStep ==
  ASSUME CapInv, NEW c \in AiCalls, Chat(c) \/ CallFails(c) \/ CallerDies(c)
  PROVE  CapInv'
  <1> USE DEF CapInv, GatewayTypeOK
  <1>0. /\ call[c] \in Call /\ call[c].sent \subseteq Providers /\ call[c].provider \in Providers
        /\ aiConfig \in Providers
    BY DEF Call
  <1>1. CASE Chat(c)
    <2> DEFINE new == [pc |-> "first", provider |-> aiConfig,
                       sent |-> IF HasKey(aiConfig) THEN {aiConfig} ELSE {}]
    <2>1. new \in Call /\ new.pc = "first" /\ new.sent \subseteq {new.provider}
      BY <1>0 DEF Call
    <2>2. /\ call' = [call EXCEPT ![c] = new] /\ c \in InProgress
          /\ UNCHANGED <<used, embedded, crowd, aiConfig>> /\ UNCHANGED keyVars
      BY <1>1 DEF Chat, InProgress, Under
    <2> HIDE DEF new
    <2> QED
      BY <2>1, <2>2, CallStep
  <1>2. ASSUME c \in InProgress, Proceeds(c, "failed"),
               UNCHANGED <<used, embedded, crowd, aiConfig>>, UNCHANGED keyVars
        PROVE  CapInv'
    <2> DEFINE new == [call[c] EXCEPT !.pc = "failed"]
    <2>1. new \in Call /\ new.pc = "failed" /\ new.sent = call[c].sent /\ new.provider = call[c].provider
      BY <1>0 DEF Call
    <2>2. call' = [call EXCEPT ![c] = new]
      BY <1>2 DEF Proceeds
    <2> HIDE DEF new
    <2> QED
      BY <1>2, <2>1, <2>2, CallStep DEF PrivateStays
  <1>3. ASSUME MayFallBack(c), c \in InProgress,
               call' = [call EXCEPT ![c].pc = "second",
                                    ![c].sent = IF HasKey("OPENAI") THEN @ \cup {"OPENAI"} ELSE @],
               UNCHANGED <<used, embedded, crowd, aiConfig>>, UNCHANGED keyVars
        PROVE  CapInv'
    <2> DEFINE to == IF HasKey("OPENAI") THEN call[c].sent \cup {"OPENAI"} ELSE call[c].sent
    <2> DEFINE new == [call[c] EXCEPT !.pc = "second", !.sent = to]
    <2>1. to \subseteq Providers
      BY <1>0 DEF Providers
    <2>2. call' = [call EXCEPT ![c] = new]
      BY <1>0, <1>3 DEF Call
    <2> HIDE DEF to
    <2>3. new \in Call /\ new.pc = "second"
      BY <1>0, <2>1 DEF Call
    <2> HIDE DEF new
    <2> QED
      BY <1>3, <2>2, <2>3, CallStep DEF MayFallBack
  <1>4. CASE CallFails(c)
    <2>1. c \in InProgress /\ UNCHANGED <<used, embedded, crowd, aiConfig>> /\ UNCHANGED keyVars
      BY <1>4 DEF CallFails, InProgress, Under
    <2> QED
      BY <1>2, <1>3, <1>4, <2>1 DEF CallFails
  <1>5. CASE CallerDies(c)
    BY <1>2, <1>5 DEF CallerDies
  <1> QED
    BY <1>1, <1>4, <1>5

LEMMA AdmitStep ==
  ASSUME CapInv, NEW c \in AiCalls, Admit(c)
  PROVE  CapInv'
  <1> USE DEF CapInv, GatewayTypeOK
  <1> DEFINE pc == IF UnderCap THEN "admitted" ELSE "refused"
  <1> DEFINE new == [call[c] EXCEPT !.pc = pc]
  <1>1. /\ new \in Call /\ new.pc = pc
        /\ new.sent = call[c].sent /\ new.provider = call[c].provider
    BY DEF Call
  <1>2. call' = [call EXCEPT ![c] = new]
    BY DEF Admit, Proceeds
  <1> HIDE DEF new
  <1>3. /\ call' \in [AiCalls -> Call] /\ call'[c] = new
        /\ \A d \in AiCalls \ {c} : call'[d] = call[d]
    BY <1>1, <1>2
  <1>4. /\ call[c].pc = "new"
        /\ crowd' = IF UnderCap /\ Cardinality(InProgress) >= crowd THEN crowd + 1 ELSE crowd
        /\ UNCHANGED <<used, embedded, aiConfig>> /\ UNCHANGED keyVars
    BY DEF Admit
  <1>5. Answers' = Answers
    BY <1>1, <1>3, <1>4 DEF Answers
  <1>6. IF UnderCap THEN InProgress' = InProgress \cup {c} /\ c \notin InProgress
        ELSE InProgress' = InProgress
    BY <1>1, <1>3, <1>4 DEF InProgress, Under
  <1>7. /\ used \in Nat /\ embedded \in Nat /\ Cap \in Nat /\ MaxTokens \in Nat /\ crowd \in Nat
        /\ Cardinality(InProgress) \in Nat /\ Cardinality(InProgress') \in Nat
        /\ Cardinality(InProgress') <= Cardinality(AiCalls) /\ Cardinality(AiCalls) \in Nat
    BY GatewayConstants, CallsCounted, CallsCountedNext
  <1>8. SpendInv' /\ crowd' \in 0..Cardinality(AiCalls)
    <2>1. CASE UnderCap
      <3>1. Cardinality(InProgress') = Cardinality(InProgress) + 1
        BY <1>6, <2>1, CallsCounted, FS_AddElement
      <3>2. Cardinality(InProgress) <= crowd
        BY DEF SpendInv
      <3>3. Cardinality(InProgress') <= crowd' /\ crowd' \in Nat /\ crowd' <= Cardinality(AiCalls)
        BY <1>4, <1>7, <2>1, <3>1, <3>2
      <3>4. MaxTokens * Cardinality(InProgress') <= MaxTokens * crowd'
        BY <1>7, <3>3, MoreCost
      <3>5. used - embedded < Cap
        BY <1>7, <2>1 DEF UnderCap
      <3> DEFINE now == MaxTokens * Cardinality(InProgress')
      <3> DEFINE most == MaxTokens * crowd'
      <3>6. now \in Nat /\ most \in Nat /\ now <= most
        BY <1>7, <3>3, <3>4, OneMore
      <3> HIDE DEF now, most
      <3>7. (used - embedded) + now < Cap + most
        BY <1>7, <3>5, <3>6
      <3> QED
        BY <1>4, <1>5, <1>7, <3>3, <3>7 DEF SpendInv, now, most
    <2>2. CASE ~UnderCap
      BY <1>4, <1>5, <1>6, <2>2 DEF SpendInv
    <2> QED
      BY <2>1, <2>2
  <1>9. PrivateStays' /\ KeyInv'
    BY <1>1, <1>3, <1>4, GatewayConstants, KeysStay DEF PrivateStays
  <1> QED
    BY <1>3, <1>4, <1>8, <1>9 DEF keyVars

LEMMA RepliedStep ==
  ASSUME CapInv, NEW c \in AiCalls, Answered(c)
  PROVE  CapInv'
  <1> USE DEF CapInv, GatewayTypeOK
  <1> DEFINE new == [call[c] EXCEPT !.pc = "done"]
  <1>1. /\ new \in Call /\ new.pc = "done"
        /\ new.sent = call[c].sent /\ new.provider = call[c].provider
    BY DEF Call
  <1>2. call' = [call EXCEPT ![c] = new]
    BY DEF Answered, Proceeds
  <1> HIDE DEF new
  <1>3. /\ call' \in [AiCalls -> Call] /\ call'[c] = new
        /\ \A d \in AiCalls \ {c} : call'[d] = call[d]
    BY <1>1, <1>2
  <1>4. c \in InProgress /\ UNCHANGED <<embedded, crowd, aiConfig>> /\ UNCHANGED keyVars
    BY DEF Answered, InProgress, Under
  <1>5. PICK n \in 0..MaxTokens : used' = used + n
    BY DEF Answered
  <1>6. /\ Answers' = Answers \cup {c} /\ c \notin Answers
        /\ InProgress' = InProgress \ {c}
    BY <1>1, <1>3, <1>4 DEF Answers, InProgress, Under
  <1>7. /\ Cardinality(Answers') = Cardinality(Answers) + 1
        /\ Cardinality(InProgress') = Cardinality(InProgress) - 1
    BY <1>4, <1>6, CallsCounted, FS_AddElement, FS_RemoveElement
  <1>8. /\ used \in Nat /\ embedded \in 0..MaxTokens /\ Cap \in Nat /\ MaxTokens \in Nat /\ crowd \in Nat
        /\ Cardinality(Answers) \in Nat /\ Cardinality(AiCalls) \in Nat /\ n \in Nat /\ n <= MaxTokens
        /\ Cardinality(Answers') <= Cardinality(AiCalls) /\ Cardinality(Answers') \in Nat
        /\ Cardinality(InProgress) \in Nat /\ Cardinality(InProgress') \in Nat
    BY GatewayConstants, CallsCounted, CallsCountedNext
  <1> DEFINE cost == MaxTokens * Cardinality(Answers)
  <1> DEFINE most == MaxTokens * Cardinality(AiCalls)
  <1> DEFINE after == MaxTokens * Cardinality(InProgress')
  <1> DEFINE bound == MaxTokens * crowd
  <1>9. /\ MaxTokens * Cardinality(Answers') = cost + MaxTokens
        /\ cost \in Nat /\ most \in Nat /\ MaxTokens * (Cardinality(AiCalls) + 1) = most + MaxTokens
        /\ MaxTokens * Cardinality(Answers') <= most
    BY <1>7, <1>8, OneMore, MoreCost
  <1>10. Cardinality(InProgress) = Cardinality(InProgress') + 1
    BY <1>7, <1>8
  <1>11. MaxTokens * Cardinality(InProgress) = after + MaxTokens /\ after \in Nat /\ bound \in Nat
    BY <1>8, <1>10, OneMore
  <1>12. /\ used - embedded <= cost /\ embedded <= used
         /\ (used - embedded) + (after + MaxTokens) < Cap + bound
         /\ Cardinality(InProgress') <= crowd
    BY <1>8, <1>10, <1>11 DEF SpendInv
  <1> HIDE DEF cost, most, after, bound
  <1>13. /\ embedded <= used' /\ used' - embedded <= cost + MaxTokens
         /\ used' \in 0..(most + MaxTokens)
         /\ (used' - embedded) + after < Cap + bound
    BY <1>5, <1>8, <1>9, <1>11, <1>12
  <1>14. SpendInv'
    BY <1>4, <1>9, <1>12, <1>13 DEF SpendInv, after, bound
  <1>15. PrivateStays' /\ KeyInv'
    BY <1>1, <1>3, <1>4, GatewayConstants, KeysStay DEF PrivateStays
  <1> QED
    BY <1>3, <1>4, <1>9, <1>13, <1>14, <1>15 DEF keyVars

LEMMA UsageStep ==
  ASSUME CapInv, EmbedTexts \/ NewDay \/ \E p \in Providers : SaveConfig(p)
  PROVE  CapInv'
  <1> USE DEF CapInv, GatewayTypeOK
  <1>0. /\ used \in Nat /\ embedded \in 0..MaxTokens /\ Cap \in Nat \ {0} /\ MaxTokens \in Nat \ {0}
        /\ Cardinality(Answers) \in Nat /\ Cardinality(AiCalls) \in Nat
        /\ Cardinality(InProgress) \in Nat /\ Cardinality(InProgress) <= Cardinality(AiCalls)
        /\ crowd \in Nat /\ crowd <= Cardinality(AiCalls)
    BY GatewayConstants, CallsCounted
  <1> DEFINE cost == MaxTokens * Cardinality(Answers)
  <1> DEFINE most == MaxTokens * Cardinality(AiCalls)
  <1> DEFINE now == MaxTokens * Cardinality(InProgress)
  <1> DEFINE bound == MaxTokens * crowd
  <1>1. /\ cost \in Nat /\ most \in Nat /\ cost <= most /\ now \in Nat /\ bound \in Nat
        /\ MaxTokens * (Cardinality(AiCalls) + 1) = most + MaxTokens
    BY <1>0, OneMore, MoreCost, CallsCounted
  <1>2. UNCHANGED call /\ UNCHANGED keyVars /\ aiConfig' \in Providers
    BY DEF EmbedTexts, NewDay, SaveConfig
  <1>3. Answers' = Answers /\ InProgress' = InProgress
    BY <1>2 DEF Answers, InProgress
  <1>4. PrivateStays' /\ KeyInv'
    BY <1>2, KeysStay DEF PrivateStays
  <1>5. /\ embedded <= used /\ used - embedded <= cost
        /\ Cardinality(InProgress) <= crowd /\ (used - embedded) + now < Cap + bound
    BY DEF SpendInv
  <1>6. CASE EmbedTexts \/ \E p \in Providers : SaveConfig(p)
    <2>1. /\ embedded' \in 0..MaxTokens /\ UNCHANGED crowd
          /\ used' - embedded' = used - embedded /\ embedded' <= used'
          /\ used' \in Nat
      <3>1. CASE EmbedTexts
        <4>1. PICK n \in 1..(MaxTokens - embedded) : used' = used + n /\ embedded' = embedded + n
          BY <3>1 DEF EmbedTexts
        <4>2. n \in Nat /\ embedded + n <= MaxTokens
          BY <1>0, <4>1
        <4> QED
          BY <1>0, <1>5, <3>1, <4>1, <4>2 DEF EmbedTexts
      <3>2. CASE \E p \in Providers : SaveConfig(p)
        BY <1>0, <1>5, <3>2 DEF SaveConfig
      <3> QED
        BY <1>6, <3>1, <3>2
    <2> HIDE DEF cost, most, now, bound
    <2>2. used' \in 0..(most + MaxTokens)
      <3>1. embedded' <= MaxTokens /\ embedded' \in Int /\ used \in Int /\ embedded \in Int
        BY <1>0, <2>1
      <3>2. used' \in Nat /\ used' - embedded' = used - embedded
        BY <2>1
      <3>3. cost \in Int /\ most \in Int /\ cost <= most
        BY ONLY <1>1
      <3>4. MaxTokens \in Int /\ used - embedded <= cost
        BY ONLY <1>0, <1>5
      <3> QED
        BY ONLY <3>1, <3>2, <3>3, <3>4, LogFits
    <2>3. used' - embedded' <= cost /\ (used' - embedded') + now < Cap + bound
      BY <1>5, <2>1
    <2>4. SpendInv'
      BY <1>3, <1>5, <2>1, <2>3 DEF SpendInv, cost, now, bound
    <2> QED
      BY <1>0, <1>1, <1>2, <1>4, <2>1, <2>2, <2>4 DEF keyVars
  <1>7. CASE NewDay
    <2>1. used' = 0 /\ embedded' = 0 /\ crowd' = Cardinality(InProgress)
      BY <1>7 DEF NewDay
    <2>2. now < Cap + now /\ 0 <= cost
      <3> HIDE DEF now, cost
      <3> QED
        BY <1>0, <1>1
    <2>3. SpendInv'
      <3>1. MaxTokens * crowd' = now /\ MaxTokens * Cardinality(InProgress') = now
        BY <1>3, <2>1
      <3>2. Cardinality(InProgress') <= crowd'
        BY <1>0, <1>3, <2>1
      <3>3. embedded' <= used' /\ used' - embedded' <= MaxTokens * Cardinality(Answers')
        BY <1>3, <2>1, <2>2
      <3> HIDE DEF now
      <3>4. (used' - embedded') + MaxTokens * Cardinality(InProgress') < Cap + MaxTokens * crowd'
        BY <1>1, <2>1, <2>2, <3>1
      <3> QED
        BY <3>2, <3>3, <3>4 DEF SpendInv
    <2> HIDE DEF most
    <2>4. used' \in 0..(MaxTokens * (Cardinality(AiCalls) + 1)) /\ embedded' \in 0..MaxTokens
      BY <1>0, <1>1, <2>1
    <2>5. crowd' \in 0..Cardinality(AiCalls)
      BY <1>0, <2>1
    <2> QED
      BY <1>2, <1>4, <2>3, <2>4, <2>5 DEF keyVars
  <1> QED
    BY <1>6, <1>7

(* What is done to keys leaves the calls alone.                            *)
LEMMA CallsStay ==
  ASSUME CapInv, UNCHANGED callVars
  PROVE  SpendInv' /\ PrivateStays'
  BY DEF CapInv, SpendInv, PrivateStays, Answers, InProgress, callVars

LEMMA KeyStep ==
  ASSUME CapInv, KeyNext
  PROVE  CapInv'
  <1> USE DEF CapInv, GatewayTypeOK
  <1>0. /\ UNCHANGED callVars
        /\ \A j \in Keys : /\ key[j] \in AiApiKey /\ key[j].provider \in Providers
                           /\ key[j].exists \in BOOLEAN /\ key[j].active \in BOOLEAN
                           /\ saver[j] \in Saver
    BY DEF KeyNext, DeactivateOthers, SaveKey, CreateInactive, ReadKey, PatchKey, DeleteKey, AiApiKey
  <1>1. SpendInv' /\ PrivateStays'
    BY <1>0, CallsStay
  <1>2. SUFFICES /\ key' \in [Keys -> AiApiKey] /\ later' \subseteq Keys \X Keys
                 /\ saver' \in [Keys -> Saver] /\ edited' \subseteq Keys /\ paired' \subseteq Providers
                 /\ KeyInv'
    BY <1>0, <1>1 DEF callVars
  <1>3. PICK k \in Keys : \/ DeactivateOthers(k) \/ SaveKey(k) \/ CreateInactive(k)
                          \/ ReadKey(k) \/ PatchKey(k) \/ DeleteKey(k)
    BY DEF KeyNext
  <1>4. Saved(k) => later' \subseteq Keys \X Keys
    BY DEF Saved
  <1>5. CASE DeactivateOthers(k)
    <2> DEFINE p == key[k].provider
    <2>1. /\ saver[k] = "none" /\ UNCHANGED <<later, edited>> /\ p \in Providers
          /\ key' = [j \in Keys |-> [key[j] EXCEPT !.active = key[j].active /\ ~(key[j].provider = p)]]
          /\ saver' = [saver EXCEPT ![k] = IF key[k].exists THEN "activate" ELSE "create"]
          /\ paired' = IF \E j \in Keys : key[j].provider = p /\ saver[j] # "none"
                        THEN paired \cup {p} ELSE paired \ {p}
      BY <1>0, <1>5 DEF DeactivateOthers, Deactivates
    <2>2. /\ saver' \in [Keys -> Saver] /\ saver'[k] # "none"
          /\ \A j \in Keys \ {k} : saver'[j] = saver[j]
      BY <2>1 DEF Saver
    <2>3. /\ key' \in [Keys -> AiApiKey]
          /\ \A j \in Keys : /\ key'[j].provider = key[j].provider /\ key'[j].exists = key[j].exists
                             /\ key[j].provider = p => key'[j].active = FALSE
                             /\ key[j].provider # p => key'[j].active = key[j].active
      <3> HIDE DEF p
      <3>1. ASSUME NEW j \in Keys
            PROVE  LET new == [key[j] EXCEPT !.active = key[j].active /\ ~(key[j].provider = p)] IN
                   /\ new \in AiApiKey /\ new.provider = key[j].provider /\ new.exists = key[j].exists
                   /\ key[j].provider = p => new.active = FALSE
                   /\ key[j].provider # p => new.active = key[j].active
        BY <1>0, <3>1 DEF AiApiKey
      <3> QED
        BY <2>1, <3>1
    <2> HIDE DEF p
    <2>4. ASSUME NEW q \in Providers, q \notin paired', NEW i \in Keys, NEW j \in Keys,
                 Taken(i, q)', Taken(j, q)'
          PROVE  i = j
      <3>1. CASE q = p
        <4>1. \A l \in Keys : key[l].provider = p => saver[l] = "none"
          BY <2>1, <2>4, <3>1
        <4>2. \A l \in Keys : Taken(l, q)' => l = k
          BY <2>2, <2>3, <3>1, <4>1 DEF Taken, InUse
        <4> QED
          BY <2>4, <4>2
      <3>2. CASE q # p
        <4>1. q \notin paired
          BY <2>1, <2>4, <3>2
        <4>2. key[k].provider = p
          BY DEF p
        <4>3. \A l \in Keys : Taken(l, q)' => Taken(l, q)
          BY <2>2, <2>3, <3>2, <4>2 DEF Taken, InUse
        <4> QED
          BY <2>4, <4>1, <4>3 DEF KeyInv
      <3> QED
        BY <3>1, <3>2
    <2>5. KeyInv'
      BY <2>4 DEF KeyInv
    <2> QED
      BY <2>1, <2>2, <2>3, <2>5
  <1>6. CASE SaveKey(k)
    <2>1. /\ saver[k] # "none" /\ saver' = [saver EXCEPT ![k] = "none"] /\ UNCHANGED <<edited, paired>>
          /\ \/ key' = [key EXCEPT ![k].exists = TRUE, ![k].active = TRUE] /\ Saved(k)
             \/ UNCHANGED <<key, later>>
      BY <1>6 DEF SaveKey
    <2> DEFINE new == [key[k] EXCEPT !.exists = TRUE, !.active = TRUE]
    <2>2. new \in AiApiKey /\ new.provider = key[k].provider
      BY <1>0 DEF AiApiKey
    <2>3. key' = [key EXCEPT ![k] = new] \/ key' = key
      BY <1>0, <2>1 DEF AiApiKey
    <2> HIDE DEF new
    <2>4. /\ key' \in [Keys -> AiApiKey] /\ key'[k].provider = key[k].provider
          /\ \A j \in Keys \ {k} : key'[j] = key[j] /\ saver'[j] = saver[j]
          /\ saver' \in [Keys -> Saver]
      BY <2>1, <2>2, <2>3 DEF Saver
    <2>5. \A j \in Keys, q \in Providers : Taken(j, q)' => Taken(j, q)
      BY <2>1, <2>4 DEF Taken, InUse
    <2>6. KeyInv'
      BY <2>1, <2>5 DEF KeyInv
    <2> QED
      BY <1>4, <2>1, <2>4, <2>6
  <1>7. ASSUME NEW b \in BOOLEAN, key' = [key EXCEPT ![k].exists = b, ![k].active = FALSE],
               UNCHANGED <<saver, edited, paired>>, Saved(k) \/ UNCHANGED later
        PROVE  /\ key' \in [Keys -> AiApiKey] /\ later' \subseteq Keys \X Keys
               /\ saver' \in [Keys -> Saver] /\ edited' \subseteq Keys /\ paired' \subseteq Providers
               /\ KeyInv'
    <2> DEFINE new == [key[k] EXCEPT !.exists = b, !.active = FALSE]
    <2>1. new \in AiApiKey /\ new.provider = key[k].provider /\ new.active = FALSE
      BY <1>0, <1>7 DEF AiApiKey
    <2>2. key' = [key EXCEPT ![k] = new]
      BY <1>0, <1>7 DEF AiApiKey
    <2> HIDE DEF new
    <2>3. /\ key' \in [Keys -> AiApiKey] /\ key'[k].provider = key[k].provider /\ key'[k].active = FALSE
          /\ \A j \in Keys \ {k} : key'[j] = key[j]
      BY <2>1, <2>2
    <2>4. \A j \in Keys, q \in Providers : Taken(j, q)' => Taken(j, q)
      BY <1>7, <2>3 DEF Taken, InUse
    <2>5. KeyInv'
      BY <1>7, <2>4 DEF KeyInv
    <2> QED
      BY <1>4, <1>7, <2>3, <2>5
  <1>8. CASE ReadKey(k)
    <2>1. edited' = edited \cup {k} /\ UNCHANGED <<key, later, saver, paired>>
      BY <1>8 DEF ReadKey
    <2> QED
      BY <2>1 DEF KeyInv, Taken, InUse
  <1>9. CASE PatchKey(k)
    <2>1. /\ edited' = edited \ {k} /\ UNCHANGED saver /\ Saved(k)
      BY <1>9 DEF PatchKey
    <2>2. PICK p \in Providers, active \in BOOLEAN :
            /\ key' = [key EXCEPT ![k] = [provider |-> p, exists |-> TRUE, active |-> active]]
            /\ paired' = IF Taken(k, p)' /\ ~Taken(k, p) THEN paired \cup {p} ELSE paired
      BY <1>9 DEF PatchKey
    <2>3. /\ key' \in [Keys -> AiApiKey] /\ key'[k].provider = p
          /\ \A j \in Keys \ {k} : key'[j] = key[j]
      BY <2>2 DEF AiApiKey
    <2>4. ASSUME NEW q \in Providers, q \notin paired', NEW j \in Keys, Taken(j, q)'
          PROVE  Taken(j, q) /\ q \notin paired
      <3>1. q \notin paired
        BY <2>2, <2>4
      <3>2. CASE j # k
        BY <2>1, <2>3, <2>4, <3>1, <3>2 DEF Taken, InUse
      <3>3. CASE j = k
        <4>1. q = p
          BY <2>3, <2>4, <3>3 DEF Taken
        <4>2. Taken(k, p)' => Taken(k, p)
          BY <2>2, <2>4, <4>1
        <4> QED
          BY <2>4, <3>1, <3>3, <4>1, <4>2
      <3> QED
        BY <3>2, <3>3
    <2>5. KeyInv'
      BY <2>4 DEF KeyInv
    <2>6. paired' \subseteq Providers
      BY <2>2
    <2> QED
      BY <1>4, <2>1, <2>3, <2>5, <2>6
  <1>10. CASE CreateInactive(k)
    BY <1>7, <1>10 DEF CreateInactive
  <1>11. CASE DeleteKey(k)
    BY <1>7, <1>11 DEF DeleteKey
  <1> QED
    BY <1>3, <1>5, <1>6, <1>8, <1>9, <1>10, <1>11

LEMMA CapStep == CapInv /\ [GatewayNext]_gatewayVars => CapInv'
  <1> SUFFICES ASSUME CapInv, [GatewayNext]_gatewayVars PROVE CapInv'
    OBVIOUS
  <1>1. CASE UNCHANGED gatewayVars
    <2>1. UNCHANGED callVars /\ UNCHANGED keyVars
      BY <1>1 DEF gatewayVars, callVars, keyVars
    <2>2. GatewayTypeOK'
      BY <1>1 DEF gatewayVars, CapInv, GatewayTypeOK
    <2> QED
      BY <2>1, <2>2, CallsStay, KeysStay DEF CapInv
  <1>2. CASE CallNext
    BY <1>2, AskStep, AdmitStep, RepliedStep, UsageStep DEF CallNext
  <1>3. CASE KeyNext
    BY <1>3, KeyStep
  <1> QED
    BY <1>1, <1>2, <1>3 DEF GatewayNext

(* What the settings say of spending, prompts and keys.                    *)
LEMMA CapHolds == CapInv => SpendBounded /\ PrivateStays /\ OneKeyInUse
  <1> SUFFICES ASSUME CapInv PROVE SpendBounded /\ PrivateStays /\ OneKeyInUse
    OBVIOUS
  <1> USE DEF CapInv
  <1>1. SpendBounded
    <2> DEFINE now == MaxTokens * Cardinality(InProgress)
    <2> DEFINE bound == MaxTokens * crowd
    <2>1. /\ used \in Nat /\ embedded \in Nat /\ Cap \in Nat /\ MaxTokens \in Nat
          /\ crowd \in Nat /\ now \in Nat /\ bound \in Nat
      BY GatewayConstants, CallsCounted, OneMore DEF GatewayTypeOK
    <2>2. (used - embedded) + now < Cap + bound
      BY DEF SpendInv
    <2> HIDE DEF now
    <2>3. used - embedded < Cap + bound
      <3> HIDE DEF bound
      <3> QED
        BY <2>1, <2>2
    <2> QED
      BY <2>3 DEF SpendBounded
  <1>2. ASSUME NEW p \in Providers \ paired PROVE Cardinality(InUse(p)) <= 1
    <2>1. \A j, k \in InUse(p) : j = k
      BY DEF KeyInv, Taken, InUse
    <2>2. \E k : InUse(p) \subseteq {k}
      BY <2>1
    <2> QED
      BY <2>2, AtMostOne
  <1> QED
    BY <1>1, <1>2 DEF OneKeyInUse

----------------------------------------------------------------------------
(* Sessions, invitations and mails.                                        *)

LEMMA VisitorsCounted ==
  /\ IsFiniteSet(Makers) /\ Cardinality(Makers) \in Nat /\ Cardinality(Makers) <= Cardinality(Visitors)
  /\ IsFiniteSet(Finished) /\ Cardinality(Finished) \in Nat
  /\ Cardinality(Finished) <= Cardinality(Visitors)
  /\ Cardinality(Visitors) \in Nat
  <1>1. Makers \in SUBSET Visitors /\ Finished \in SUBSET Visitors
    BY DEF Makers, Finished
  <1> QED
    BY <1>1, SessionConstants, FS_Subset, FS_CardinalityType

LEMMA VisitStarts == SessionInit => VisitInv
  <1> SUFFICES ASSUME SessionInit PROVE VisitInv
    OBVIOUS
  <1> USE SessionConstants DEF SessionInit
  <1>1. /\ MaxToken \in Nat /\ MaxLink \in Nat /\ MaxMail \in Nat
        /\ 0 \in 0..MaxToken /\ 0 \in 0..MaxLink
        /\ 0 \in 0..Cardinality(Visitors) /\ 0 \in 0..(MaxMail + Cardinality(Visitors))
        /\ 0 \in 0..(MaxToken + MaxLink + MaxMail + Cardinality(Visitors))
    BY VisitorsCounted
  <1>2. Waiting \in Visit /\ Waiting.op = "none"
    BY <1>1 DEF Waiting, Visit
  <1>3. SessionTypeOK
    BY <1>1, <1>2 DEF SessionTypeOK, TeamInvite
  <1>4. ChainInv /\ RefreshInv
    BY <1>2 DEF ChainInv, RefreshInv, Live
  <1>5. AcceptInv /\ MailInv
    BY <1>1, <1>2, VisitorsCounted DEF AcceptInv, MailInv
  <1> QED
    BY <1>3, <1>4, <1>5 DEF VisitInv

(* One request moves on; no request comes back.                            *)
Moves(v, op) ==
  /\ visit' \in [Visitors -> Visit]
  /\ visit'[v].op = op
  /\ \A w \in Visitors \ {v} : visit'[w] = visit[w]
  /\ visit[v].op # "done" /\ (visit[v].op = "mark" => op = "done")
  /\ doubled \subseteq doubled'

LEMMA LeaveMoves ==
  ASSUME SessionTypeOK, NEW v \in Visitors, Leaves(v), visit[v].op # "done"
  PROVE  Moves(v, "done") /\ UNCHANGED doubled
  <1> DEFINE new == [op |-> "done", read |-> 0]
  <1>1. new \in Visit /\ new.op = "done"
    BY SessionConstants, VisitorsCounted DEF Visit
  <1>2. visit' = [visit EXCEPT ![v] = new] /\ UNCHANGED doubled
    BY DEF Leaves
  <1> HIDE DEF new
  <1> QED
    BY <1>1, <1>2 DEF Moves, SessionTypeOK

LEMMA ReadMoves ==
  ASSUME SessionTypeOK, NEW v \in Visitors, visit[v].op \notin {"mark", "done"},
         NEW op \in {"refresh", "accept", "name", "mark", "resend", "mail"},
         NEW x \in 0..(MaxToken + MaxLink + MaxMail + Cardinality(Visitors)),
         visit' = [visit EXCEPT ![v] = [op |-> op, read |-> x]],
         doubled \subseteq doubled'
  PROVE  Moves(v, op) /\ visit'[v].read = x
  <1> DEFINE new == [op |-> op, read |-> x]
  <1>1. new \in Visit /\ new.op = op /\ new.read = x
    BY DEF Visit
  <1>2. visit' = [visit EXCEPT ![v] = new]
    OBVIOUS
  <1> HIDE DEF new
  <1> QED
    BY <1>1, <1>2 DEF Moves, SessionTypeOK

LEMMA Counting ==
  ASSUME NEW v \in Visitors, NEW op, Moves(v, op)
  PROVE  /\ Cardinality(Makers) <= Cardinality(Makers') /\ Cardinality(Makers') \in Nat
         /\ op = "mark" => Cardinality(Makers') = Cardinality(Makers) + 1
         /\ Cardinality(Finished) <= Cardinality(Finished') /\ Cardinality(Finished') \in Nat
         /\ op = "done" => Cardinality(Finished') = Cardinality(Finished) + 1
  <1>1. Makers' \in SUBSET Visitors /\ Finished' \in SUBSET Visitors
    BY DEF Makers, Finished
  <1>2. /\ IsFiniteSet(Makers') /\ Cardinality(Makers') \in Nat
        /\ IsFiniteSet(Finished') /\ Cardinality(Finished') \in Nat
    BY <1>1, SessionConstants, FS_Subset, FS_CardinalityType
  <1>3. Makers \in SUBSET Makers' /\ Finished \in SUBSET Finished'
    BY DEF Moves, Makers, Finished
  <1>4. op = "mark" => Makers' = Makers \cup {v} /\ v \notin Makers
    BY DEF Moves, Makers
  <1>5. op = "done" => Finished' = Finished \cup {v} /\ v \notin Finished
    BY DEF Moves, Finished
  <1>6. op = "mark" => Cardinality(Makers') = Cardinality(Makers) + 1
    BY <1>4, VisitorsCounted, FS_AddElement
  <1>7. op = "done" => Cardinality(Finished') = Cardinality(Finished) + 1
    BY <1>5, VisitorsCounted, FS_AddElement
  <1>8. Cardinality(Makers) <= Cardinality(Makers') /\ Cardinality(Finished) <= Cardinality(Finished')
    BY <1>2, <1>3, FS_Subset
  <1> QED
    BY <1>2, <1>6, <1>7, <1>8

(* What a move to something else leaves as it is.                          *)
LEMMA TokensElsewhere ==
  ASSUME VisitInv, NEW v \in Visitors, NEW op, op # "refresh", Moves(v, op), UNCHANGED tokenVars
  PROVE  ChainInv' /\ RefreshInv'
  BY DEF VisitInv, ChainInv, RefreshInv, Live, Moves, tokenVars

LEMMA AcceptElsewhere ==
  ASSUME VisitInv, NEW v \in Visitors, NEW op, op \notin {"accept", "name"}, Moves(v, op),
         UNCHANGED accounts
  PROVE  AcceptInv'
  <1>1. accounts <= Cardinality(Makers)'
    BY Counting, VisitorsCounted DEF VisitInv, SessionTypeOK, AcceptInv
  <1> QED
    BY <1>1 DEF VisitInv, AcceptInv, Moves

LEMMA MailElsewhere ==
  ASSUME VisitInv, NEW v \in Visitors, NEW op, op # "mail", Moves(v, op), UNCHANGED <<counter, sent>>
  PROVE  MailInv'
  <1>1. sent <= Cardinality(Finished)'
    BY Counting, VisitorsCounted DEF VisitInv, SessionTypeOK, MailInv
  <1> QED
    BY <1>1 DEF VisitInv, MailInv, Moves

LEMMA RequestsStay ==
  ASSUME VisitInv, UNCHANGED <<visit, accounts, counter, sent>>, doubled \subseteq doubled'
  PROVE  AcceptInv' /\ MailInv'
  <1>1. Makers' = Makers /\ Finished' = Finished
    BY DEF Makers, Finished
  <1> QED
    BY <1>1 DEF VisitInv, AcceptInv, MailInv

LEMMA TokenStep ==
  ASSUME VisitInv,
         \/ \E t \in Tokens : TokenObtain(t)
         \/ \E v \in Visitors, t \in Tokens : RotateToken(v, t)
         \/ TokenLogout
         \/ \E v \in Visitors : TokenRefresh(v)
  PROVE  VisitInv'
  <1> USE DEF VisitInv, SessionTypeOK, inviteVars
  <1>0. /\ MaxToken \in Nat /\ Tokens = 1..MaxToken /\ MaxLink \in Nat /\ MaxMail \in Nat
        /\ Cardinality(Visitors) \in Nat
        /\ \A t \in Tokens : issued[t] \in 0..MaxToken /\ t # 0 /\ t \in 0..MaxToken
    BY SessionConstants, VisitorsCounted DEF Tokens
  <1>1. ASSUME NEW t \in Tokens, TokenObtain(t) PROVE VisitInv'
    <2>1. /\ issued[t] = 0 /\ issued' = [issued EXCEPT ![t] = t] /\ cookie' = t
          /\ UNCHANGED <<black, out, visit, doubled, invite, mailed, accounts, counter, sent>>
      BY <1>1 DEF TokenObtain
    <2>2. /\ issued' \in [Tokens -> 0..MaxToken] /\ issued'[t] = t
          /\ \A s \in Tokens \ {t} : issued'[s] = issued[s]
      BY <1>0, <2>1
    <2>3. \A s \in Tokens : issued[s] # t
      BY <1>0, <2>1 DEF ChainInv
    <2>4. t \notin black /\ t \notin out
      BY <2>1 DEF ChainInv
    <2>5. ChainInv'
      BY <1>0, <2>1, <2>2, <2>3, <2>4 DEF ChainInv
    <2>6. Live' = Live \cup {t}
      BY <1>0, <2>1, <2>2, <2>4 DEF Live
    <2>7. RefreshInv'
      <3>1. \A v \in Visitors : visit[v].op = "refresh" =>
                visit[v].read \in Tokens /\ issued'[visit[v].read] # 0
        BY <2>1, <2>2 DEF RefreshInv
      <3>2. \A s \in Live : s \in Tokens /\ s # t /\ issued'[s] = issued[s] /\ issued[s] # t
        BY <2>1, <2>2, <2>3 DEF Live
      <3>3. ASSUME "refresh" \notin doubled
            PROVE  \A s, u \in Live' : issued'[s] = issued'[u] => s = u
        BY <2>2, <2>6, <3>2, <3>3 DEF RefreshInv
      <3>4. ASSUME "refresh" \notin doubled
            PROVE  \A s \in Live' : issued'[s] \notin out'
        BY <2>1, <2>2, <2>4, <2>6, <3>2, <3>4 DEF RefreshInv
      <3>5. "refresh" \notin doubled => \A v \in Visitors : visit[v].op = "refresh" => visit[v].read \in Live'
        BY <2>6 DEF RefreshInv
      <3> QED
        BY <2>1, <3>1, <3>3, <3>4, <3>5 DEF RefreshInv
    <2>8. AcceptInv' /\ MailInv'
      BY <2>1, RequestsStay
    <2> QED
      BY <1>0, <2>1, <2>2, <2>5, <2>7, <2>8
  <1>2. ASSUME NEW v \in Visitors, NEW t \in Tokens, RotateToken(v, t) PROVE VisitInv'
    <2> DEFINE r == visit[v].read
    <2>1. /\ visit[v].op = "refresh" /\ issued[t] = 0 /\ black' = black \cup {r}
          /\ issued' = [issued EXCEPT ![t] = issued[r]] /\ cookie' \in {cookie, t}
          /\ UNCHANGED <<out, doubled, invite, mailed, accounts, counter, sent>>
      BY <1>2 DEF RotateToken, Spend, Leaves
    <2>2. r \in Tokens /\ issued[r] # 0 /\ r # t
      BY <2>1 DEF RefreshInv
    <2>3. Moves(v, "done")
      BY <1>2, <2>1, LeaveMoves DEF RotateToken
    <2> HIDE DEF r
    <2>4. /\ issued' \in [Tokens -> 0..MaxToken] /\ issued'[t] = issued[r]
          /\ \A s \in Tokens \ {t} : issued'[s] = issued[s]
          /\ black' \subseteq Tokens /\ cookie' \in 0..MaxToken
      BY <1>0, <2>1, <2>2
    <2>5. t \notin black /\ \A s \in Tokens : issued[s] # t
      BY <1>0, <2>1 DEF ChainInv
    <2>6. ChainInv'
      <3>1. \A s \in Tokens : issued'[s] # 0 => issued'[s] \in Tokens /\ issued[issued'[s]] = issued'[s]
                                               /\ issued'[s] # t
        BY <2>2, <2>4, <2>5 DEF ChainInv
      <3>2. \A s \in Tokens : issued'[s] # 0 => issued'[issued'[s]] = issued'[s]
        BY <2>4, <3>1
      <3>3. \A s \in Tokens : issued[s] # 0 => issued'[s] # 0
        BY <2>1, <2>4
      <3>4. \A s \in black' : issued'[s] # 0
        BY <1>0, <2>1, <2>2, <3>3 DEF ChainInv
      <3>5. \A n \in out' : issued'[n] # 0
        BY <1>0, <2>1, <3>3 DEF ChainInv
      <3>6. cookie' # 0 => issued'[cookie'] # 0
        BY <1>0, <2>1, <2>2, <2>4, <3>3 DEF ChainInv
      <3> QED
        BY <3>1, <3>2, <3>4, <3>5, <3>6 DEF ChainInv
    <2>7. Live' = (Live \ {r}) \cup {t}
      BY <1>0, <2>1, <2>2, <2>4, <2>5 DEF Live
    <2>8. RefreshInv'
      <3>1. \A w \in Visitors : visit'[w].op = "refresh" => w # v /\ visit'[w] = visit[w]
        BY <2>3 DEF Moves
      <3>2. "refresh" \notin doubled => r \in Live /\ \A w \in Visitors : visit'[w].op # "refresh"
        BY <2>1, <3>1 DEF RefreshInv, r
      <3>3. ASSUME "refresh" \notin doubled
            PROVE  /\ \A s, u \in Live' : issued'[s] = issued'[u] => s = u
                   /\ \A s \in Live' : issued'[s] \notin out
        <4>1. \A s \in Live \ {r} : s \in Tokens /\ issued'[s] = issued[s] /\ issued[s] # issued[r]
          BY <2>1, <2>4, <3>2, <3>3 DEF RefreshInv, Live
        <4>2. issued[r] \notin out /\ \A s \in Live : issued[s] \notin out
          BY <3>2, <3>3 DEF RefreshInv
        <4>3. \A s, u \in Live : issued[s] = issued[u] => s = u
          BY <3>3 DEF RefreshInv
        <4> QED
          BY <2>4, <2>7, <4>1, <4>2, <4>3
      <3>4. \A w \in Visitors : visit'[w].op = "refresh" =>
              visit'[w].read \in Tokens /\ issued'[visit'[w].read] # 0
        BY <2>1, <2>4, <3>1 DEF RefreshInv
      <3> QED
        BY <2>1, <3>2, <3>3, <3>4 DEF RefreshInv
    <2>9. AcceptInv' /\ MailInv'
      BY <2>1, <2>3, AcceptElsewhere, MailElsewhere
    <2> QED
      BY <2>1, <2>3, <2>4, <2>6, <2>8, <2>9 DEF Moves
  <1>3. CASE TokenLogout
    <2>1. /\ cookie \in Live /\ black' = black \cup {cookie} /\ out' = out \cup {issued[cookie]}
          /\ cookie' = 0
          /\ doubled' = IF \E v \in Visitors : visit[v].op = "refresh" /\ visit[v].read = cookie
                        THEN doubled \cup {"refresh"} ELSE doubled
          /\ UNCHANGED <<issued, visit, invite, mailed, accounts, counter, sent>>
      BY <1>3 DEF TokenLogout, Spend
    <2>2. /\ cookie \in Tokens /\ issued[cookie] # 0 /\ issued[cookie] \in Tokens
          /\ issued[issued[cookie]] = issued[cookie]
      BY <2>1 DEF Live, ChainInv
    <2>3. ChainInv'
      BY <2>1, <2>2 DEF ChainInv
    <2>4. Live' = Live \ {cookie}
      BY <2>1 DEF Live
    <2>5. RefreshInv'
      <3>1. ASSUME "refresh" \notin doubled'
            PROVE  /\ "refresh" \notin doubled
                   /\ \A v \in Visitors : visit[v].op = "refresh" => visit[v].read # cookie
        BY <2>1, <3>1
      <3> QED
        BY <2>1, <2>4, <3>1 DEF RefreshInv
    <2>6. AcceptInv' /\ MailInv'
      BY <2>1, RequestsStay
    <2>7. black' \subseteq Tokens /\ out' \subseteq Tokens
      BY <2>1, <2>2
    <2>9. cookie' \in 0..MaxToken
      BY <1>0, <2>1
    <2>8. doubled' \subseteq doubled \cup {"refresh"}
      BY <2>1
    <2> QED
      BY <2>1, <2>3, <2>5, <2>6, <2>7, <2>8, <2>9
  <1>4. ASSUME NEW v \in Visitors, TokenRefresh(v) PROVE VisitInv'
    <2>1. CASE cookie \in Live
      <3>1. /\ Waits(v) /\ Reads(v, "refresh", cookie)
            /\ UNCHANGED <<cookie, issued, black, out, invite, mailed, accounts, counter, sent>>
        BY <1>4, <2>1 DEF TokenRefresh
      <3>2. /\ visit' = [visit EXCEPT ![v] = [op |-> "refresh", read |-> cookie]]
            /\ doubled' = IF \E w \in Visitors \ {v} : visit[w].op = "refresh"
                          THEN doubled \cup {"refresh"} ELSE doubled
        BY <3>1 DEF Reads
      <3>3. cookie \in 0..(MaxToken + MaxLink + MaxMail + Cardinality(Visitors))
        BY <1>0
      <3>4. Moves(v, "refresh") /\ visit'[v].read = cookie
        BY <3>1, <3>2, <3>3, ReadMoves DEF Waits
      <3>5. ChainInv'
        BY <3>1 DEF ChainInv
      <3>6. RefreshInv'
        BY <2>1, <3>1, <3>2, <3>4 DEF RefreshInv, Moves, Live
      <3>7. AcceptInv' /\ MailInv'
        BY <3>1, <3>4, AcceptElsewhere, MailElsewhere
      <3>8. doubled' \subseteq {"refresh", "accept", "name", "mark", "resend", "mail"}
        BY <3>2
      <3> QED
        BY <3>1, <3>4, <3>5, <3>6, <3>7, <3>8 DEF Moves
    <2>2. CASE cookie \notin Live
      <3>1. cookie' = 0 /\ UNCHANGED <<visit, doubled, issued, black, out, invite, mailed, accounts, counter, sent>>
        BY <1>4, <2>2 DEF TokenRefresh
      <3>2. ChainInv' /\ RefreshInv'
        BY <3>1 DEF ChainInv, RefreshInv, Live
      <3>3. AcceptInv' /\ MailInv'
        BY <3>1, RequestsStay
      <3> QED
        BY <1>0, <3>1, <3>2, <3>3
    <2> QED
      BY <2>1, <2>2
  <1> QED
    BY <1>1, <1>2, <1>3, <1>4

(* The invitation and its link change without a request, or with one that  *)
(* does so and ends.                                                       *)
LEMMA LinkStep ==
  ASSUME VisitInv,
         \/ Invite \/ InviteExpires
         \/ \E v \in Visitors : Resend(v) \/ SaveLink(v) \/ MarkAccepted(v) \/ VisitorLeaves(v)
  PROVE  VisitInv'
  <1> USE DEF VisitInv, SessionTypeOK
  <1>0. /\ MaxLink \in Nat \ {0} /\ invite \in TeamInvite /\ invite.hash \in 0..MaxLink
        /\ 0 \in 0..(MaxToken + MaxLink + MaxMail + Cardinality(Visitors))
    BY SessionConstants, VisitorsCounted DEF TeamInvite
  <1>1. CASE Invite \/ InviteExpires
    <2>1. UNCHANGED <<accounts, counter, sent, visit, doubled>> /\ UNCHANGED tokenVars
      BY <1>1 DEF Invite, InviteExpires
    <2>2. invite' \in TeamInvite /\ mailed' \subseteq 1..MaxLink
      <3>1. CASE Invite
        <4>1. invite' = [invite EXCEPT !.hash = 1] /\ mailed' \in {{}, {1}}
          BY <3>1 DEF Invite
        <4> QED
          BY <1>0, <4>1 DEF TeamInvite
      <3>2. CASE InviteExpires
        BY <1>0, <3>2 DEF InviteExpires, TeamInvite
      <3> QED
        BY <1>1, <3>1, <3>2
    <2>3. ChainInv' /\ RefreshInv'
      BY <2>1 DEF ChainInv, RefreshInv, Live, tokenVars
    <2>4. AcceptInv' /\ MailInv'
      BY <2>1, RequestsStay
    <2> QED
      BY <2>1, <2>2, <2>3, <2>4 DEF tokenVars
  <1>2. ASSUME NEW v \in Visitors, SaveLink(v) \/ MarkAccepted(v) \/ VisitorLeaves(v)
        PROVE  VisitInv'
    <2>1. Leaves(v) /\ visit[v].op # "done" /\ UNCHANGED <<accounts, counter, sent>> /\ UNCHANGED tokenVars
      BY <1>2 DEF SaveLink, MarkAccepted, VisitorLeaves, inviteVars
    <2>2. Moves(v, "done") /\ UNCHANGED doubled
      BY <2>1, LeaveMoves
    <2>3. invite' \in TeamInvite /\ mailed' \subseteq 1..MaxLink
      <3>1. CASE SaveLink(v)
        <4>1. invite.hash + 1 \in 1..MaxLink /\ invite.hash + 1 \in 0..MaxLink
          BY <1>0, <3>1 DEF SaveLink
        <4>2. /\ invite' = [invite EXCEPT !.hash = invite.hash + 1, !.late = FALSE]
              /\ mailed' \in {mailed, mailed \cup {invite.hash + 1}}
          BY <1>0, <3>1 DEF SaveLink, TeamInvite
        <4> QED
          BY <1>0, <4>1, <4>2 DEF TeamInvite
      <3>2. CASE MarkAccepted(v)
        BY <1>0, <3>2 DEF MarkAccepted, TeamInvite
      <3>3. CASE VisitorLeaves(v)
        BY <3>3 DEF VisitorLeaves, inviteVars
      <3> QED
        BY <1>2, <3>1, <3>2, <3>3
    <2>4. ChainInv' /\ RefreshInv'
      BY <2>1, <2>2, TokensElsewhere
    <2>5. AcceptInv' /\ MailInv'
      BY <2>1, <2>2, AcceptElsewhere, MailElsewhere
    <2> QED
      BY <2>1, <2>2, <2>3, <2>4, <2>5 DEF Moves, tokenVars
  <1>3. ASSUME NEW v \in Visitors, Resend(v) PROVE VisitInv'
    <2>1. /\ visit[v].op = "none" /\ visit' = [visit EXCEPT ![v] = [op |-> "resend", read |-> 0]]
          /\ doubled' \in {doubled, doubled \cup {"resend"}}
          /\ UNCHANGED <<invite, mailed, accounts, counter, sent>> /\ UNCHANGED tokenVars
      BY <1>3 DEF Resend, Reads, Waits
    <2>2. Moves(v, "resend")
      BY <1>0, <2>1, ReadMoves
    <2>3. ChainInv' /\ RefreshInv'
      BY <2>1, <2>2, TokensElsewhere
    <2>4. AcceptInv' /\ MailInv'
      BY <2>1, <2>2, AcceptElsewhere, MailElsewhere
    <2> QED
      BY <2>1, <2>2, <2>3, <2>4 DEF Moves, tokenVars
  <1> QED
    BY <1>1, <1>2, <1>3

(* From the look at the invitation to the account: whoever is alone in it  *)
(* finds no account of the address, and makes one.                         *)
LEMMA AcceptStep ==
  ASSUME VisitInv, NEW v \in Visitors,
         (\E l \in 1..MaxLink : InviteAccept(v, l)) \/ PickUsername(v) \/ CreateUser(v)
  PROVE  VisitInv'
  <1> USE DEF VisitInv, SessionTypeOK
  <1>0. /\ MaxLink \in Nat /\ MaxToken \in Nat /\ MaxMail \in Nat
        /\ Cardinality(Visitors) \in Nat /\ accounts \in Nat /\ accounts <= Cardinality(Visitors)
        /\ accounts <= Cardinality(Makers) /\ Cardinality(Makers) \in Nat
        /\ 0 \in 0..(MaxToken + MaxLink + MaxMail + Cardinality(Visitors))
        /\ accounts \in 0..(MaxToken + MaxLink + MaxMail + Cardinality(Visitors))
    BY SessionConstants, VisitorsCounted DEF AcceptInv
  <1>1. ASSUME NEW l \in 1..MaxLink, InviteAccept(v, l) PROVE VisitInv'
    <2>1. /\ visit[v].op = "none" /\ accounts = 0
          /\ visit' = [visit EXCEPT ![v] = [op |-> "accept", read |-> l]]
          /\ doubled' = IF \E w \in Visitors \ {v} : visit[w].op \in {"accept", "name"}
                        THEN doubled \cup {"accept"} ELSE doubled
          /\ UNCHANGED <<invite, mailed, accounts, counter, sent>> /\ UNCHANGED tokenVars
      BY <1>1 DEF InviteAccept, Waits
    <2>2. l \in 0..(MaxToken + MaxLink + MaxMail + Cardinality(Visitors))
      BY <1>0
    <2>3. doubled' \in {doubled, doubled \cup {"accept"}}
      BY <2>1
    <2>4. Moves(v, "accept")
      BY <2>1, <2>2, <2>3, ReadMoves
    <2>5. ChainInv' /\ RefreshInv' /\ MailInv'
      BY <2>1, <2>4, TokensElsewhere, MailElsewhere
    <2>6. accounts' <= Cardinality(Makers')
      BY <1>0, <2>1, <2>4, Counting
    <2>7. ASSUME "accept" \notin doubled'
          PROVE  \A w \in Visitors : visit'[w].op \in {"accept", "name"} => w = v
      BY <2>1, <2>4, <2>7 DEF Moves
    <2>8. AcceptInv'
      BY <2>1, <2>6, <2>7 DEF AcceptInv
    <2> QED
      BY <2>1, <2>3, <2>4, <2>5, <2>8 DEF Moves, tokenVars
  <1>2. CASE PickUsername(v)
    <2>1. /\ visit[v].op = "accept" /\ visit' = [visit EXCEPT ![v] = [op |-> "name", read |-> accounts]]
          /\ UNCHANGED <<invite, mailed, accounts, counter, sent, doubled>> /\ UNCHANGED tokenVars
      BY <1>2 DEF PickUsername
    <2>2. Moves(v, "name")
      BY <1>0, <2>1, ReadMoves
    <2>3. ChainInv' /\ RefreshInv' /\ MailInv'
      BY <2>1, <2>2, TokensElsewhere, MailElsewhere
    <2>4. accounts' <= Cardinality(Makers')
      BY <1>0, <2>1, <2>2, Counting
    <2>5. AcceptInv'
      BY <2>1, <2>2, <2>4 DEF AcceptInv, Moves
    <2> QED
      BY <2>1, <2>2, <2>3, <2>5 DEF Moves, tokenVars
  <1>3. CASE CreateUser(v) /\ visit[v].read = accounts
    <2>1. /\ visit[v].op = "name" /\ accounts' = accounts + 1
          /\ visit' = [visit EXCEPT ![v] = [op |-> "mark", read |-> 0]]
          /\ doubled' \in {doubled, doubled \cup {"mark"}}
          /\ UNCHANGED <<invite, mailed, counter, sent>> /\ UNCHANGED tokenVars
      BY <1>3 DEF CreateUser, Reads
    <2>2. Moves(v, "mark")
      BY <1>0, <2>1, ReadMoves
    <2>3. ChainInv' /\ RefreshInv' /\ MailInv'
      BY <2>1, <2>2, TokensElsewhere, MailElsewhere
    <2>4. Cardinality(Makers') = Cardinality(Makers) + 1 /\ Makers' \in SUBSET Visitors
      BY <2>2, Counting DEF Makers
    <2>5. Cardinality(Makers') <= Cardinality(Visitors)
      BY <2>4, SessionConstants, FS_Subset
    <2>6. accounts' <= Cardinality(Makers') /\ accounts' \in 0..Cardinality(Visitors)
      BY <1>0, <2>1, <2>4, <2>5
    <2>7. ASSUME "accept" \notin doubled'
          PROVE  /\ \A w \in Visitors : visit'[w].op \notin {"accept", "name"}
                 /\ accounts' <= 1
      <3>1. "accept" \notin doubled
        BY <2>1, <2>7
      <3>2. accounts = 0
        BY <2>1, <3>1 DEF AcceptInv
      <3> QED
        BY <2>1, <2>2, <3>1, <3>2 DEF AcceptInv, Moves
    <2>8. AcceptInv'
      BY <2>6, <2>7 DEF AcceptInv
    <2> QED
      BY <2>1, <2>2, <2>3, <2>6, <2>8 DEF Moves, tokenVars
  <1>4. CASE CreateUser(v) /\ visit[v].read # accounts
    <2>1. /\ Leaves(v) /\ visit[v].op # "done"
          /\ UNCHANGED <<accounts, invite, mailed, counter, sent>> /\ UNCHANGED tokenVars
      BY <1>4 DEF CreateUser
    <2>2. Moves(v, "done") /\ UNCHANGED doubled
      BY <2>1, LeaveMoves
    <2>3. ChainInv' /\ RefreshInv' /\ MailInv' /\ AcceptInv'
      BY <2>1, <2>2, TokensElsewhere, MailElsewhere, AcceptElsewhere
    <2> QED
      BY <2>1, <2>2, <2>3 DEF Moves, tokenVars
  <1> QED
    BY <1>1, <1>2, <1>3, <1>4

(* A mail is counted by a request that has read the count and ends.        *)
LEMMA MailStep ==
  ASSUME VisitInv, NEW v \in Visitors, RateLimited(v) \/ CountMail(v)
  PROVE  VisitInv'
  <1> USE DEF VisitInv, SessionTypeOK
  <1>0. /\ MaxLink \in Nat /\ MaxToken \in Nat /\ MaxMail \in Nat
        /\ Cardinality(Visitors) \in Nat /\ counter \in Nat /\ sent \in Nat
        /\ counter <= sent /\ sent <= Cardinality(Finished) /\ Cardinality(Finished) \in Nat
        /\ counter <= MaxMail + Cardinality(Visitors)
        /\ counter \in 0..(MaxToken + MaxLink + MaxMail + Cardinality(Visitors))
    BY SessionConstants, VisitorsCounted DEF MailInv
  <1>1. CASE RateLimited(v) /\ counter >= MaxMail
    <2>1. /\ Leaves(v) /\ visit[v].op # "done"
          /\ UNCHANGED <<accounts, invite, mailed, counter, sent>> /\ UNCHANGED tokenVars
      BY <1>1 DEF RateLimited, Waits, inviteVars
    <2>2. Moves(v, "done") /\ UNCHANGED doubled
      BY <2>1, LeaveMoves
    <2>3. ChainInv' /\ RefreshInv' /\ MailInv' /\ AcceptInv'
      BY <2>1, <2>2, TokensElsewhere, MailElsewhere, AcceptElsewhere
    <2> QED
      BY <2>1, <2>2, <2>3 DEF Moves, tokenVars
  <1>2. CASE RateLimited(v) /\ ~(counter >= MaxMail)
    <2>1. /\ visit[v].op = "none" /\ counter < MaxMail
          /\ visit' = [visit EXCEPT ![v] = [op |-> "mail", read |-> counter]]
          /\ doubled' = IF \E w \in Visitors \ {v} : visit[w].op = "mail"
                        THEN doubled \cup {"mail"} ELSE doubled
          /\ UNCHANGED <<invite, mailed, accounts, counter, sent>> /\ UNCHANGED tokenVars
      BY <1>0, <1>2 DEF RateLimited, Waits, Reads, inviteVars
    <2>2. doubled' \in {doubled, doubled \cup {"mail"}}
      BY <2>1
    <2>3. Moves(v, "mail") /\ visit'[v].read = counter
      BY <1>0, <2>1, <2>2, ReadMoves
    <2>4. ChainInv' /\ RefreshInv' /\ AcceptInv'
      BY <2>1, <2>3, TokensElsewhere, AcceptElsewhere
    <2>5. sent' <= Cardinality(Finished')
      BY <1>0, <2>1, <2>3, Counting
    <2>6. ASSUME "mail" \notin doubled'
          PROVE  \A w \in Visitors : visit'[w].op = "mail" => w = v
      BY <2>1, <2>3, <2>6 DEF Moves
    <2>7. "mail" \notin doubled' => "mail" \notin doubled
      BY <2>2
    <2>8. MailInv'
      BY <2>1, <2>3, <2>5, <2>6, <2>7 DEF MailInv
    <2> QED
      BY <2>1, <2>2, <2>3, <2>4, <2>8 DEF Moves, tokenVars
  <1>3. CASE CountMail(v)
    <2>1. /\ visit[v].op = "mail" /\ Leaves(v) /\ sent' = sent + 1
          /\ counter' = IF visit[v].read = 0 THEN 1 ELSE counter + 1
          /\ UNCHANGED <<invite, mailed, accounts>> /\ UNCHANGED tokenVars
      BY <1>3 DEF CountMail
    <2>2. Moves(v, "done") /\ UNCHANGED doubled
      BY <2>1, LeaveMoves
    <2>3. ChainInv' /\ RefreshInv' /\ AcceptInv'
      BY <2>1, <2>2, TokensElsewhere, AcceptElsewhere
    <2>4. Cardinality(Finished') = Cardinality(Finished) + 1 /\ Finished' \in SUBSET Visitors
      BY <2>2, Counting DEF Finished
    <2>5. Cardinality(Finished') <= Cardinality(Visitors)
      BY <2>4, SessionConstants, FS_Subset
    <2>6. /\ counter' \in Nat /\ counter' <= sent' /\ counter' <= counter + 1
          /\ sent' <= Cardinality(Finished')
          /\ sent' \in 0..Cardinality(Visitors)
      BY <1>0, <2>1, <2>4, <2>5
    <2>7. counter' \in 0..(MaxMail + Cardinality(Visitors))
      BY <1>0, <2>5, <2>6
    <2>8. ASSUME "mail" \notin doubled'
          PROVE  /\ \A w \in Visitors : visit'[w].op # "mail"
                 /\ counter' = sent' /\ sent' <= MaxMail
      <3>1. /\ \A w \in Visitors : visit[w].op = "mail" => w = v
            /\ visit[v].read = counter /\ counter < MaxMail /\ counter = sent
        BY <2>1, <2>2, <2>8 DEF MailInv
      <3>2. \A w \in Visitors : visit'[w].op # "mail"
        BY <2>2, <3>1 DEF Moves
      <3> QED
        BY <1>0, <2>1, <3>1, <3>2
    <2>9. MailInv'
      BY <2>6, <2>8 DEF MailInv
    <2> QED
      BY <2>1, <2>2, <2>3, <2>6, <2>7, <2>9 DEF Moves, tokenVars
  <1> QED
    BY <1>1, <1>2, <1>3

LEMMA VisitStep == VisitInv /\ [SessionNext]_sessionVars => VisitInv'
  <1> SUFFICES ASSUME VisitInv, [SessionNext]_sessionVars PROVE VisitInv'
    OBVIOUS
  <1>1. CASE UNCHANGED sessionVars
    BY <1>1 DEF sessionVars, VisitInv, SessionTypeOK, ChainInv, RefreshInv, Live, AcceptInv, Makers,
       MailInv, Finished
  <1> QED
    BY <1>1, TokenStep, LinkStep, AcceptStep, MailStep DEF SessionNext

(* One good token per login and none once logged out, one account, and the *)
(* mails within their limit.                                               *)
LEMMA VisitHolds == VisitInv => SessionsKept
  <1> SUFFICES ASSUME VisitInv PROVE SessionsKept
    OBVIOUS
  <1>1. ASSUME "refresh" \notin doubled, NEW n \in Logins
        PROVE  LET good == {t \in Live : issued[t] = n} IN
               Cardinality(good) <= (IF n \in out THEN 0 ELSE 1)
    <2> DEFINE good == {t \in Live : issued[t] = n}
    <2>1. \A s, t \in good : s = t
      BY <1>1 DEF VisitInv, RefreshInv
    <2>2. \E t : good \subseteq {t}
      BY <2>1
    <2>3. n \in out => good = {}
      BY <1>1 DEF VisitInv, RefreshInv
    <2> HIDE DEF good
    <2>4. Cardinality(good) <= 1
      BY <2>2, AtMostOne
    <2>5. n \in out => Cardinality(good) = 0
      BY <2>3, FS_EmptySet
    <2>6. Cardinality(good) <= (IF n \in out THEN 0 ELSE 1)
      BY <2>4, <2>5
    <2> QED
      BY <2>6 DEF good
  <1> QED
    BY <1>1 DEF SessionsKept, VisitInv, AcceptInv, MailInv

----------------------------------------------------------------------------
(* The team's accounts.                                                    *)

LEMMA TeamStarts == AccountInit => TeamInv
  <1> SUFFICES ASSUME AccountInit PROVE TeamInv
    OBVIOUS
  <1> USE AccountConstants DEF AccountInit, Absent, Member
  <1>1. \A u \in Users : /\ account[u] \in DashboardUser /\ account[u].pw = Nobody
                         /\ ~account[u].deleted /\ (~Exists(u) => ~account[u].active)
    <2> TAKE u \in Users
    <2> DEFINE fresh(x) == /\ x \in DashboardUser /\ x.pw = Nobody
                           /\ ~x.deleted /\ (x.role = "none" => ~x.active)
    <2> DEFINE off == [Member("superuser", FALSE) EXCEPT !.active = FALSE]
    <2>1. account[u] \in {Absent, Member("superuser", FALSE), Member("admin", FALSE),
                         Member("employee", TRUE), off}
      <3> HIDE DEF Absent, Member
      <3> QED
        OBVIOUS
    <2> HIDE DEF AccountInit
    <2>2. fresh(Absent)
      BY DEF DashboardUser
    <2>3. ASSUME NEW role \in Roles, NEW team \in BOOLEAN PROVE fresh(Member(role, team))
      BY DEF DashboardUser, Roles
    <2>4. fresh(off)
      <3>1. Member("superuser", FALSE) \in DashboardUser /\ fresh(Member("superuser", FALSE))
        BY <2>3 DEF Roles
      <3>2. Member("superuser", FALSE).role = "superuser"
        OBVIOUS
      <3> HIDE DEF Member
      <3> QED
        BY <3>1, <3>2 DEF DashboardUser
    <2>5. fresh(account[u])
      <3> HIDE DEF fresh, off, Absent, Member
      <3> QED
        BY <2>1, <2>2, <2>3, <2>4 DEF Roles
    <2> QED
      BY <2>5 DEF Exists
  <1>2. NoRequest \in Request /\ NoRequest.pc = "idle" /\ NoRequest.link = NoLink
    BY DEF NoRequest, Request, DashboardUser
  <1>3. \A l \in Links : /\ link[l] \in PasswordResetToken /\ ~link[l].used /\ ~link[l].late
                         /\ link[l].user \in Users => account[link[l].user].active
                         /\ link[l].user \in Users \cup {NoUser}
    <2> TAKE l \in Links
    <2>1. PICK u \in Users \cup {NoUser} : link[l] = [user |-> u, used |-> FALSE, late |-> FALSE]
      OBVIOUS
    <2>2. link[l].user = u /\ ~link[l].used /\ ~link[l].late /\ link[l] \in PasswordResetToken
      BY <2>1 DEF PasswordResetToken
    <2>3. link[l].user \in {x \in Users : account[x].active} \cup {NoUser}
      OBVIOUS
    <2> QED
      BY <2>2, <2>3
  <1>4. account \in [Users -> DashboardUser] /\ link \in [Links -> PasswordResetToken]
    BY <1>1, <1>3
  <1>5. AccountTypeOK
    BY <1>2, <1>3, <1>4 DEF AccountTypeOK
  <1>6. ReadInv
    BY <1>1, <1>2, <1>3 DEF ReadInv, HasRead
  <1>7. \E u \in Users : Superuser(u)
    BY DEF Superuser
  <1>8. LastInv /\ LinkInv /\ KeptInv
    BY <1>1, <1>2, <1>7 DEF LastInv, LinkInv, KeptInv, Removing
  <1> QED
    BY <1>5, <1>6, <1>8 DEF TeamInv

(* One request goes on.                                                    *)
Advances(r, pc) ==
  /\ request' \in [Requests -> Request]
  /\ request'[r].pc = pc
  /\ \A q \in Requests \ {r} : request'[q] = request[q]

LEMMA DoneAdvances ==
  ASSUME AccountTypeOK, NEW r \in Requests, Done(r)
  PROVE  Advances(r, "done") /\ request'[r].link = NoLink
  <1> DEFINE new == [NoRequest EXCEPT !.pc = "done"]
  <1>1. new \in Request /\ new.pc = "done" /\ new.link = NoLink
    BY DEF NoRequest, Absent, Request, DashboardUser
  <1>2. request' = [request EXCEPT ![r] = new]
    BY DEF Done
  <1> HIDE DEF new
  <1> QED
    BY <1>1, <1>2 DEF Advances, AccountTypeOK

LEMMA GoesAdvances ==
  ASSUME AccountTypeOK, NEW r \in Requests, NEW t \in Users, NEW row \in DashboardUser,
         NEW pc \in {"reset", "register", "deactivate", "delete", "forgot"}, Goes(r, pc, t, row)
  PROVE  /\ Advances(r, pc)
         /\ request'[r].to = t /\ request'[r].row = row /\ request'[r].link = request[r].link
  <1> DEFINE new == [request[r] EXCEPT !.pc = pc, !.to = t, !.row = row]
  <1>1. /\ new \in Request /\ new.pc = pc /\ new.to = t /\ new.row = row
        /\ new.link = request[r].link
    <2>1. request[r] \in Request
      BY DEF AccountTypeOK
    <2>2. t \in Users \cup {NoUser}
      OBVIOUS
    <2> QED
      BY <2>1, <2>2 DEF Request
  <1>2. request' = [request EXCEPT ![r] = new]
    BY DEF Goes, AccountTypeOK
  <1> HIDE DEF new
  <1> QED
    BY <1>1, <1>2 DEF Advances, AccountTypeOK

(* What a step leaves as it is while no account goes away.                 *)
LEMMA ReadStays ==
  ASSUME TeamInv, NEW r \in Requests, NEW pc, Advances(r, pc), HasRead(r)',
         \A u \in Users : Exists(u) \/ account'[u] # account[u] => Exists(u)',
         \A l \in Links : \/ link'[l].user = link[l].user
                          \/ /\ link[l].user = NoUser /\ link'[l].user \in Users
                             /\ account'[link'[l].user].role # "none"
  PROVE  ReadInv'
  <1> USE DEF TeamInv, ReadInv
  <1>1. \A q \in Requests : HasRead(q)'
    BY DEF HasRead, Advances
  <1>2. \A u \in Users : ~Exists(u)' => ~account'[u].deleted /\ ~account'[u].active
    BY DEF Exists
  <1>3. \A l \in Links : link'[l].user # NoUser => account'[link'[l].user].role # "none"
    <2> TAKE l \in Links
    <2>1. link[l].user \in Users \cup {NoUser}
      BY DEF AccountTypeOK, PasswordResetToken
    <2>2. link[l].user # NoUser => account'[link[l].user].role # "none"
      BY <2>1 DEF Exists
    <2> QED
      BY <2>2
  <1> QED
    BY <1>1, <1>2, <1>3 DEF Exists

LEMMA LastStays ==
  ASSUME TeamInv, NEW r \in Requests, NEW pc, Advances(r, pc), pc \notin {"deactivate", "delete"},
         raced' = raced, demoted => demoted', overwritten \subseteq overwritten',
         ~demoted' /\ overwritten' = {} => \A u \in Users : Superuser(u) => Superuser(u)'
  PROVE  LastInv'
  <1>1. \A q \in Requests : Removing(q)' => Removing(q) /\ request'[q] = request[q]
    BY DEF Advances, Removing
  <1>2. raced' \/ \A p, q \in Requests : Removing(p)' /\ Removing(q)' => p = q
    BY <1>1 DEF TeamInv, LastInv
  <1>3. ASSUME ~demoted', ~raced', overwritten' = {}
        PROVE  /\ \E u \in Users : Superuser(u)'
               /\ \A q \in Requests : Removing(q)' =>
                    \E u \in Users \ {request'[q].to} : Superuser(u)'
    <2>1. ~demoted /\ ~raced /\ overwritten = {}
      BY <1>3
    <2>2. \A u \in Users : Superuser(u) => Superuser(u)'
      BY <1>3
    <2> QED
      BY <1>1, <2>1, <2>2 DEF TeamInv, LastInv
  <1> QED
    BY <1>2, <1>3 DEF LastInv

LEMMA LinksStay ==
  ASSUME TeamInv, NEW r \in Requests, NEW pc, Advances(r, pc), pc \notin {"confirm", "mark"},
         request[r].pc # "mark", request'[r].link = NoLink, UNCHANGED <<spent, crossed>>,
         \A l \in Links : link[l].used => link'[l].used
  PROVE  LinkInv'
  BY AccountConstants DEF TeamInv, LinkInv, Advances

(* A row that is saved has a role; unless it was read too early it is what *)
(* was there, with another password.                                       *)
LEMMA RowSaved ==
  ASSUME TeamInv, NEW t \in Users, NEW read \in DashboardUser, NEW new \in DashboardUser,
         read.role # "none", new.role = read.role, new.active = read.active,
         new.deleted = read.deleted, SaveRow(t, read, new)
  PROVE  /\ account' \in [Users -> DashboardUser] /\ account'[t] = new
         /\ \A u \in Users \ {t} : account'[u] = account[u]
         /\ overwritten \subseteq overwritten' /\ overwritten' \subseteq Users
         /\ t \notin overwritten' => read = account[t]
         /\ \A u \in Users : Exists(u) \/ account'[u] # account[u] => Exists(u)'
         /\ overwritten' = {} => \A u \in Users : Superuser(u) => Superuser(u)'
  <1>1. account' = [account EXCEPT ![t] = new]
    BY DEF SaveRow
  <1>2. account' \in [Users -> DashboardUser] /\ account'[t] = new
    BY <1>1 DEF TeamInv, AccountTypeOK
  <1>3. \A u \in Users \ {t} : account'[u] = account[u]
    BY <1>1 DEF TeamInv, AccountTypeOK
  <1>4. /\ overwritten \subseteq overwritten' /\ overwritten' \subseteq Users
        /\ t \notin overwritten' => read = account[t]
    BY DEF SaveRow, TeamInv, AccountTypeOK
  <1>5. \A u \in Users : Exists(u) \/ account'[u] # account[u] => Exists(u)'
    BY <1>2, <1>3 DEF Exists
  <1>6. overwritten' = {} => \A u \in Users : Superuser(u) => Superuser(u)'
    BY <1>2, <1>3, <1>4 DEF Superuser, IsSuperuser
  <1> QED
    BY <1>2, <1>3, <1>4, <1>5, <1>6

LEMMA SaveStep ==
  ASSUME TeamInv, NEW r \in Requests, Me(r) \/ ChangePassword(r) \/ SaveReset(r) \/ SaveFlags(r)
  PROVE  TeamInv'
  <1> USE DEF TeamInv, AccountTypeOK
  <1>1. /\ request[r] \in Request /\ request[r].me \in DashboardUser
        /\ request[r].row \in DashboardUser
    BY DEF Request
  <1>2. PICK t \in Users, read \in DashboardUser :
          /\ read.role # "none"
          /\ \/ SaveRow(t, read, read) /\ setBy' = setBy
             \/ SaveRow(t, read, [read EXCEPT !.pw = r]) /\ setBy' = [setBy EXCEPT ![t] = r]
          /\ Done(r) /\ request[r].pc # "mark" /\ UNCHANGED <<link, removed, demoted, raced, spent, crossed>>
    <2>1. request[r].pc = "begun" => request[r].by \in Users /\ request[r].me.role # "none"
      BY DEF ReadInv, HasRead
    <2>2. request[r].pc \in {"reset", "register"} => request[r].to \in Users /\ request[r].row.role # "none"
      BY DEF ReadInv, HasRead
    <2>3. CASE Me(r)
      BY <1>1, <2>1, <2>3 DEF Me
    <2>4. CASE ChangePassword(r)
      BY <1>1, <2>1, <2>4 DEF ChangePassword
    <2>5. CASE SaveReset(r)
      BY <1>1, <2>2, <2>5 DEF SaveReset
    <2>6. CASE SaveFlags(r)
      BY <1>1, <2>2, <2>6 DEF SaveFlags
    <2> QED
      BY <2>3, <2>4, <2>5, <2>6
  <1>3. PICK new \in DashboardUser :
          /\ SaveRow(t, read, new)
          /\ new.role = read.role /\ new.active = read.active /\ new.deleted = read.deleted
          /\ \/ new.pw = read.pw /\ setBy' = setBy
             \/ new.pw = r /\ setBy' = [setBy EXCEPT ![t] = r]
    <2>1. [read EXCEPT !.pw = r] \in DashboardUser
      BY DEF DashboardUser
    <2>2. read.pw \in Requests \cup {Nobody} /\ [read EXCEPT !.pw = r].pw = r
      BY DEF DashboardUser
    <2>3. LET x == [read EXCEPT !.pw = r] IN
          x.role = read.role /\ x.active = read.active /\ x.deleted = read.deleted
      BY DEF DashboardUser
    <2> QED
      BY <1>2, <2>1, <2>2, <2>3
  <1>4. Advances(r, "done") /\ request'[r].link = NoLink
    BY <1>2, DoneAdvances
  <1>5. /\ account' \in [Users -> DashboardUser] /\ account'[t] = new
        /\ \A u \in Users \ {t} : account'[u] = account[u]
        /\ overwritten \subseteq overwritten' /\ overwritten' \subseteq Users
        /\ t \notin overwritten' => read = account[t]
        /\ \A u \in Users : Exists(u) \/ account'[u] # account[u] => Exists(u)'
        /\ overwritten' = {} => \A u \in Users : Superuser(u) => Superuser(u)'
    BY <1>2, <1>3, RowSaved
  <1>6. /\ setBy' \in [Users -> Requests \cup {Nobody}]
        /\ \A u \in Users \ {t} : setBy'[u] = setBy[u]
        /\ new.pw = setBy'[t] \/ (new.pw = read.pw /\ setBy'[t] = setBy[t])
    BY <1>3
  <1>7. ReadInv'
    <2>1. HasRead(r)'
      BY <1>4 DEF HasRead, Advances
    <2> QED
      BY <1>2, <1>4, <1>5, <2>1, ReadStays
  <1>8. LastInv'
    BY <1>2, <1>4, <1>5, LastStays
  <1>9. LinkInv'
    BY <1>2, <1>4, LinksStay
  <1>10. KeptInv'
    BY <1>2, <1>3, <1>5, <1>6 DEF KeptInv
  <1> QED
    BY <1>2, <1>4, <1>5, <1>6, <1>7, <1>8, <1>9, <1>10 DEF Advances

LEMMA ConfirmStep ==
  ASSUME TeamInv, NEW r \in Requests, ResetPasswordConfirm(r)
  PROVE  TeamInv'
  <1> USE DEF TeamInv, AccountTypeOK
  <1> DEFINE t == request[r].to
  <1> DEFINE read == request[r].row
  <1> DEFINE new == [read EXCEPT !.pw = r]
  <1> DEFINE k == request[r].link
  <1>1. /\ request[r].pc = "confirm" /\ SaveRow(t, read, new)
        /\ setBy' = [setBy EXCEPT ![t] = r]
        /\ spent' = [spent EXCEPT ![k] = spent[k] \cup {r}]
        /\ request' = [request EXCEPT ![r].pc = "mark"]
        /\ UNCHANGED <<link, removed, demoted, raced, crossed>>
    BY DEF ResetPasswordConfirm
  <1>2. /\ t \in Users /\ read \in DashboardUser /\ read.role # "none" /\ k \in Links
        /\ link[k].user # NoUser /\ request[r] \in Request
    BY <1>1 DEF ReadInv, HasRead, Request
  <1>3. /\ new \in DashboardUser /\ new.role = read.role /\ new.active = read.active
        /\ new.deleted = read.deleted /\ new.pw = r
    BY <1>2 DEF DashboardUser
  <1> HIDE DEF read, new, t, k
  <1>4. Advances(r, "mark") /\ request'[r].link = k
    <2> DEFINE now == [request[r] EXCEPT !.pc = "mark"]
    <2>1. now \in Request /\ now.pc = "mark" /\ now.link = k
      BY <1>2 DEF Request, k
    <2>2. request' = [request EXCEPT ![r] = now]
      BY <1>1
    <2> HIDE DEF now
    <2> QED
      BY <2>1, <2>2 DEF Advances
  <1>5. /\ account' \in [Users -> DashboardUser] /\ account'[t] = new
        /\ \A u \in Users \ {t} : account'[u] = account[u]
        /\ overwritten \subseteq overwritten' /\ overwritten' \subseteq Users
        /\ t \notin overwritten' => read = account[t]
        /\ \A u \in Users : Exists(u) \/ account'[u] # account[u] => Exists(u)'
        /\ overwritten' = {} => \A u \in Users : Superuser(u) => Superuser(u)'
    BY <1>1, <1>2, <1>3, RowSaved
  <1>6. /\ setBy' \in [Users -> Requests \cup {Nobody}] /\ setBy'[t] = r
        /\ \A u \in Users \ {t} : setBy'[u] = setBy[u]
        /\ spent' \in [Links -> SUBSET Requests] /\ spent'[k] = spent[k] \cup {r}
        /\ \A l \in Links \ {k} : spent'[l] = spent[l]
    BY <1>1, <1>2
  <1>7. ReadInv'
    <2>1. HasRead(r)'
      BY <1>1, <1>2, <1>4 DEF HasRead, Advances
    <2> QED
      BY <1>1, <1>4, <1>5, <2>1, ReadStays
  <1>8. LastInv'
    BY <1>1, <1>4, <1>5, LastStays
  <1>9. LinkInv'
    <2>1. ASSUME NEW l \in Links \ crossed
          PROVE  /\ \A p, q \in Requests : request'[p].link = l /\ request'[q].link = l => p = q
                 /\ \A q \in Requests : request'[q].pc = "confirm" /\ request'[q].link = l => spent'[l] = {}
                 /\ spent'[l] # {} =>
                      link[l].used \/ \E q \in Requests : request'[q].pc = "mark" /\ request'[q].link = l
                 /\ \A p, q \in spent'[l] : p = q
      <3>1. \A q \in Requests : request'[q].link = request[q].link
        BY <1>4 DEF Advances, k
      <3>2. \A p, q \in Requests : request'[p].link = l /\ request'[q].link = l => p = q
        BY <2>1, <3>1 DEF LinkInv
      <3>3. CASE l = k
        <4>1. spent[l] = {} /\ spent'[l] = {r}
          BY <1>1, <1>6, <2>1, <3>3 DEF LinkInv, k
        <4> QED
          BY <1>4, <3>2, <3>3, <4>1 DEF Advances
      <3>4. CASE l # k
        <4>1. spent'[l] = spent[l]
          BY <1>6, <2>1, <3>4
        <4>2. \A q \in Requests : request'[q].link = l => request'[q] = request[q]
          BY <1>4, <3>4 DEF Advances
        <4>3. \A q \in Requests : request[q].pc = "mark" /\ request[q].link = l =>
                                    request'[q].pc = "mark" /\ request'[q].link = l
          BY <1>1, <1>4 DEF Advances
        <4> QED
          BY <2>1, <3>2, <4>1, <4>2, <4>3 DEF LinkInv
      <3> QED
        BY <3>3, <3>4
    <2> QED
      BY <1>1, <2>1 DEF LinkInv
  <1>10. KeptInv'
    BY <1>1, <1>3, <1>5, <1>6 DEF KeptInv
  <1> QED
    BY <1>1, <1>4, <1>5, <1>6, <1>7, <1>8, <1>9, <1>10 DEF Advances

LEMMA RegisterStep ==
  ASSUME TeamInv, NEW r \in Requests, NEW t \in Users, NEW role \in Roles, RegisterUser(r, t, role)
  PROVE  TeamInv'
  <1> USE DEF TeamInv, AccountTypeOK
  <1> DEFINE row == [Member(role, FALSE) EXCEPT !.pw = r]
  <1>1. /\ request[r].pc = "begun" /\ ~Exists(t)
        /\ account' = [account EXCEPT ![t] = row] /\ setBy' = [setBy EXCEPT ![t] = r]
        /\ Goes(r, "register", t, row) \/ Done(r)
        /\ UNCHANGED <<link, removed, overwritten, demoted, raced, spent, crossed>>
    BY DEF RegisterUser
  <1>2. row \in DashboardUser /\ row.role # "none" /\ row.pw = r
    BY DEF Member, Absent, DashboardUser, Roles
  <1> HIDE DEF row
  <1>3. PICK pc \in {"register", "done"} :
          /\ Advances(r, pc) /\ request'[r].link = NoLink
          /\ pc = "register" => request'[r].to = t /\ request'[r].row = row
    <2>1. request[r].link = NoLink
      BY <1>1 DEF ReadInv, HasRead
    <2> QED
      BY <1>1, <1>2, <2>1, DoneAdvances, GoesAdvances
  <1>4. /\ account' \in [Users -> DashboardUser] /\ account'[t] = row
        /\ \A u \in Users \ {t} : account'[u] = account[u]
        /\ setBy' \in [Users -> Requests \cup {Nobody}] /\ setBy'[t] = r
        /\ \A u \in Users \ {t} : setBy'[u] = setBy[u]
    BY <1>1, <1>2
  <1>5. \A u \in Users : Exists(u) \/ account'[u] # account[u] => Exists(u)'
    BY <1>2, <1>4 DEF Exists
  <1>6. \A u \in Users : Superuser(u) => Superuser(u)'
    BY <1>1, <1>4 DEF Superuser, Exists, IsSuperuser
  <1>7. ReadInv'
    <2>1. HasRead(r)'
      BY <1>2, <1>3 DEF HasRead, Advances
    <2> QED
      BY <1>1, <1>3, <1>5, <2>1, ReadStays
  <1>8. LastInv'
    BY <1>1, <1>3, <1>6, LastStays
  <1>9. LinkInv'
    BY <1>1, <1>3, LinksStay
  <1>10. t \notin removed \ overwritten
    BY <1>1 DEF ReadInv, KeptInv
  <1>11. KeptInv'
    BY <1>1, <1>2, <1>4, <1>10 DEF KeptInv
  <1> QED
    BY <1>1, <1>3, <1>4, <1>7, <1>8, <1>9, <1>11 DEF Advances

(* An update or an activation, of a row that is locked and not removed.    *)
LEMMA UpdateStep ==
  ASSUME TeamInv, NEW r \in Requests, NEW t \in Users,
         \/ ActivateUser(r, t)
         \/ \E role \in Roles, on, team \in BOOLEAN : UpdateUser(r, t, role, on, team)
  PROVE  TeamInv'
  <1> USE DEF TeamInv, AccountTypeOK
  <1>1. account[t] \in DashboardUser
    OBVIOUS
  <1>2. PICK new \in DashboardUser :
          /\ account' = [account EXCEPT ![t] = new]
          /\ new.role # "none" /\ new.pw = account[t].pw /\ new.deleted = account[t].deleted
          /\ \/ demoted' = demoted /\ (Superuser(t) => IsSuperuser(new) /\ new.active)
             \/ demoted' = (demoted \/ (IsSuperuser(account[t]) /\ ~(IsSuperuser(new) /\ new.active)))
          /\ request[r].pc = "begun" /\ InTeam(t) /\ Done(r)
          /\ UNCHANGED <<link, raced, removed, overwritten, setBy, spent, crossed>>
    <2>1. CASE ActivateUser(r, t)
      <3> DEFINE x == [account[t] EXCEPT !.active = TRUE]
      <3>1. /\ account' = [account EXCEPT ![t] = x]
            /\ request[r].pc = "begun" /\ InTeam(t) /\ Done(r)
            /\ UNCHANGED <<link, removed, overwritten, demoted, raced, setBy, spent, crossed>>
        BY <2>1 DEF ActivateUser
      <3>2. /\ x \in DashboardUser /\ x.role = account[t].role /\ x.active
            /\ x.pw = account[t].pw /\ x.deleted = account[t].deleted
        BY <1>1 DEF DashboardUser
      <3>3. account[t].role # "none"
        BY <3>1 DEF InTeam, Exists
      <3> HIDE DEF x
      <3> QED
        BY <3>1, <3>2, <3>3 DEF Superuser, IsSuperuser
    <2>2. ASSUME NEW role \in Roles, NEW on \in BOOLEAN, NEW team \in BOOLEAN,
                 UpdateUser(r, t, role, on, team)
          PROVE  \E new \in DashboardUser :
                   /\ account' = [account EXCEPT ![t] = new]
                   /\ new.role # "none" /\ new.pw = account[t].pw /\ new.deleted = account[t].deleted
                   /\ demoted' = (demoted \/ (IsSuperuser(account[t]) /\ ~(IsSuperuser(new) /\ new.active)))
                   /\ request[r].pc = "begun" /\ InTeam(t) /\ Done(r)
                   /\ UNCHANGED <<link, raced, removed, overwritten, setBy, spent, crossed>>
      <3> DEFINE x == [account[t] EXCEPT !.role = role, !.active = on,
                         !.team = IF IsManager(request[r].me) THEN team ELSE account[t].team]
      <3>1. /\ account' = [account EXCEPT ![t] = x]
            /\ demoted' = (demoted \/ (IsSuperuser(account[t]) /\ ~(IsSuperuser(x) /\ x.active)))
            /\ request[r].pc = "begun" /\ InTeam(t) /\ Done(r)
            /\ UNCHANGED <<link, raced, removed, overwritten, setBy, spent, crossed>>
        BY <2>2 DEF UpdateUser
      <3>2. x \in DashboardUser /\ x.role # "none" /\ x.pw = account[t].pw /\ x.deleted = account[t].deleted
        BY <1>1 DEF DashboardUser, Roles
      <3> HIDE DEF x
      <3> QED
        BY <3>1, <3>2
    <2> QED
      BY <2>1, <2>2
  <1>3. /\ account' \in [Users -> DashboardUser] /\ account'[t] = new
        /\ \A u \in Users \ {t} : account'[u] = account[u]
        /\ demoted' \in BOOLEAN
    BY <1>2
  <1>4. Advances(r, "done") /\ request'[r].link = NoLink
    BY <1>2, DoneAdvances
  <1>5. \A u \in Users : Exists(u) \/ account'[u] # account[u] => Exists(u)'
    BY <1>2, <1>3 DEF Exists
  <1>6. demoted => demoted'
    BY <1>2
  <1>7. ~demoted' => \A u \in Users : Superuser(u) => Superuser(u)'
    BY <1>2, <1>3 DEF Superuser, IsSuperuser
  <1>8. ReadInv'
    <2>1. HasRead(r)'
      BY <1>4 DEF HasRead, Advances
    <2> QED
      BY <1>2, <1>4, <1>5, <2>1, ReadStays
  <1>9. LastInv'
    BY <1>2, <1>4, <1>6, <1>7, LastStays
  <1>10. LinkInv'
    BY <1>2, <1>4, LinksStay
  <1>11. t \notin removed \ overwritten
    BY <1>2 DEF InTeam, KeptInv
  <1>12. KeptInv'
    BY <1>2, <1>3, <1>11 DEF KeptInv
  <1> QED
    BY <1>2, <1>3, <1>4, <1>8, <1>9, <1>10, <1>12 DEF Advances

(* A request begins, or goes on with a row it has read.                    *)
LEMMA ReadingStep ==
  ASSUME TeamInv, NEW r \in Requests, NEW t \in Users, Authenticate(r, t) \/ ResetPassword(r, t)
  PROVE  TeamInv'
  <1> USE DEF TeamInv, AccountTypeOK
  <1>1. UNCHANGED <<account, link, removed, overwritten, demoted, raced, setBy, spent, crossed>>
    BY DEF Authenticate, ResetPassword
  <1>2. /\ request[r].pc # "mark" /\ request[r].link = NoLink
        /\ account[t] \in DashboardUser /\ request[r] \in Request
    BY DEF Authenticate, ResetPassword, Begins, ReadInv, HasRead
  <1>3. PICK pc \in {"begun", "reset"} : Advances(r, pc) /\ HasRead(r)' /\ request'[r].link = NoLink
    <2>1. CASE Authenticate(r, t)
      <3> DEFINE new == [request[r] EXCEPT !.pc = "begun", !.by = t, !.me = account[t]]
      <3>1. request' = [request EXCEPT ![r] = new] /\ account[t].active
        BY <2>1 DEF Authenticate
      <3>2. /\ new \in Request /\ new.pc = "begun" /\ new.by = t /\ new.me = account[t]
            /\ new.link = NoLink
        BY <1>2 DEF Request
      <3>3. account[t].role # "none"
        BY <3>1 DEF ReadInv, Exists
      <3> HIDE DEF new
      <3>4. Advances(r, "begun") /\ request'[r] = new
        BY <3>1, <3>2 DEF Advances
      <3> QED
        BY <3>2, <3>3, <3>4 DEF HasRead
    <2>2. CASE ResetPassword(r, t)
      <3>1. Goes(r, "reset", t, account[t]) /\ account[t].role # "none"
        BY <2>2 DEF ResetPassword, Exists
      <3>2. /\ Advances(r, "reset") /\ request'[r].to = t /\ request'[r].row = account[t]
            /\ request'[r].link = NoLink
        BY <1>2, <3>1, GoesAdvances
      <3> QED
        BY <3>1, <3>2 DEF HasRead, Advances
    <2> QED
      BY <2>1, <2>2
  <1>4. ReadInv'
    BY <1>1, <1>3, ReadStays DEF Exists
  <1>5. LastInv'
    BY <1>1, <1>3, LastStays DEF Superuser
  <1>6. LinkInv'
    BY <1>1, <1>2, <1>3, LinksStay
  <1> QED
    BY <1>1, <1>3, <1>4, <1>5, <1>6 DEF KeptInv, Advances

(* Who is about to remove a superuser has counted another, who is not the  *)
(* one to be removed.                                                      *)
LEMMA CountStep ==
  ASSUME TeamInv, NEW r \in Requests, NEW t \in Users, NEW op \in {"deactivate", "delete"},
         Count(r, t, op)
  PROVE  TeamInv'
  <1> USE DEF TeamInv, AccountTypeOK
  <1>1. /\ request[r].pc = "begun" /\ InTeam(t) /\ Goes(r, op, t, account[t])
        /\ IsSuperuser(account[t]) => SuperusersLeft > 1
        /\ raced' = (raced \/ \E q \in Requests : Removing(q))
        /\ UNCHANGED <<account, demoted, link, removed, overwritten, setBy, spent, crossed>>
    BY DEF Count
  <1>2. account[t] \in DashboardUser /\ Exists(t) /\ request[r].link = NoLink
    BY <1>1 DEF InTeam, ReadInv, HasRead
  <1>3. Advances(r, op) /\ request'[r].to = t /\ request'[r].link = NoLink
    BY <1>1, <1>2, GoesAdvances
  <1>4. ReadInv'
    <2>1. HasRead(r)'
      BY <1>1, <1>2, <1>3 DEF HasRead, Advances, Exists
    <2> QED
      BY <1>1, <1>3, <2>1, ReadStays DEF Exists
  <1>5. LinkInv'
    BY <1>1, <1>3, LinksStay
  <1>6. ASSUME ~raced' PROVE \A q \in Requests : Removing(q)' => q = r
    BY <1>1, <1>3, <1>6 DEF Advances, Removing
  <1>7. ASSUME \E u \in Users : Superuser(u) PROVE \E u \in Users \ {t} : Superuser(u)
    <2>1. CASE IsSuperuser(account[t])
      <3> DEFINE S == {u \in Users : IsSuperuser(account[u]) /\ account[u].active}
      <3>1. Cardinality(S) > 1
        BY <1>1, <2>1 DEF SuperusersLeft
      <3> HIDE DEF S
      <3>2. S \subseteq {t} => S = {} \/ S = {t}
        OBVIOUS
      <3>3. S = {} \/ S = {t} => Cardinality(S) = 0 \/ Cardinality(S) = 1
        BY FS_EmptySet, FS_Singleton
      <3>4. ~(S \subseteq {t})
        BY <3>1, <3>2, <3>3
      <3> QED
        BY <3>4 DEF S, Superuser
    <2>2. CASE ~IsSuperuser(account[t])
      BY <1>7, <2>2 DEF Superuser
    <2> QED
      BY <2>1, <2>2
  <1>8. LastInv'
    <2>1. ASSUME ~demoted', ~raced', overwritten' = {}
          PROVE  /\ \E u \in Users : Superuser(u)'
                 /\ \A q \in Requests : Removing(q)' =>
                      \E u \in Users \ {request'[q].to} : Superuser(u)'
      <3>1. ~demoted /\ ~raced /\ overwritten = {}
        BY <1>1, <2>1
      <3>2. \E u \in Users : Superuser(u)
        BY <3>1 DEF LastInv
      <3>3. \E u \in Users \ {t} : Superuser(u)
        BY <1>7, <3>2
      <3> QED
        BY <1>1, <1>3, <1>6, <2>1, <3>3 DEF Superuser
    <2> QED
      BY <1>6, <2>1 DEF LastInv
  <1> QED
    BY <1>1, <1>3, <1>4, <1>5, <1>8 DEF KeptInv, Advances

LEMMA RemoveStep ==
  ASSUME TeamInv, NEW r \in Requests, DeactivateUser(r) \/ DeleteUser(r)
  PROVE  TeamInv'
  <1> USE DEF TeamInv, AccountTypeOK
  <1> DEFINE t == request[r].to
  <1>1. Removing(r) /\ t \in Users /\ Exists(t) /\ account[t] \in DashboardUser
    BY DEF DeactivateUser, DeleteUser, Removing, ReadInv, HasRead
  <1> HIDE DEF t
  <1>2. PICK new \in DashboardUser :
          /\ account' = [account EXCEPT ![t] = new]
          /\ new.role = account[t].role /\ new.pw = account[t].pw /\ new.active = FALSE
          /\ account[t].deleted => new.deleted
          /\ removed' = removed \/ (removed' = removed \cup {t} /\ new.deleted)
          /\ Done(r) /\ UNCHANGED <<link, overwritten, demoted, raced, setBy, spent, crossed>>
    <2>1. CASE DeactivateUser(r)
      <3> DEFINE x == [account[t] EXCEPT !.active = FALSE]
      <3>1. /\ account' = [account EXCEPT ![t] = x]
            /\ Done(r) /\ UNCHANGED <<link, removed, overwritten, demoted, raced, setBy, spent, crossed>>
        BY <2>1 DEF DeactivateUser, t
      <3>2. /\ x \in DashboardUser /\ x.role = account[t].role /\ x.pw = account[t].pw
            /\ x.active = FALSE /\ x.deleted = account[t].deleted
        BY <1>1 DEF DashboardUser
      <3> HIDE DEF x
      <3> QED
        BY <3>1, <3>2
    <2>2. CASE DeleteUser(r)
      <3> DEFINE x == [account[t] EXCEPT !.active = FALSE, !.deleted = TRUE]
      <3>1. /\ account' = [account EXCEPT ![t] = x] /\ removed' = removed \cup {t}
            /\ Done(r) /\ UNCHANGED <<link, overwritten, demoted, raced, setBy, spent, crossed>>
        BY <1>1, <2>2 DEF DeleteUser, t
      <3>2. /\ x \in DashboardUser /\ x.role = account[t].role /\ x.pw = account[t].pw
            /\ x.active = FALSE /\ x.deleted = TRUE
        BY <1>1 DEF DashboardUser
      <3> HIDE DEF x
      <3> QED
        BY <3>1, <3>2
    <2> QED
      BY <2>1, <2>2
  <1>3. /\ account' \in [Users -> DashboardUser] /\ account'[t] = new
        /\ \A u \in Users \ {t} : account'[u] = account[u]
        /\ removed' \subseteq Users /\ removed' \subseteq removed \cup {t}
        /\ t \in removed' => t \in removed \/ new.deleted
    BY <1>1, <1>2
  <1>4. Advances(r, "done") /\ request'[r].link = NoLink
    BY <1>2, DoneAdvances
  <1>5. ReadInv'
    <2>1. HasRead(r)'
      BY <1>4 DEF HasRead, Advances
    <2>2. \A u \in Users : Exists(u) \/ account'[u] # account[u] => Exists(u)'
      BY <1>1, <1>2, <1>3 DEF Exists
    <2> QED
      BY <1>2, <1>4, <2>1, <2>2, ReadStays
  <1>6. LinkInv'
    BY <1>1, <1>2, <1>4, LinksStay DEF Removing
  <1>7. LastInv'
    <2>1. ASSUME ~raced' PROVE \A q \in Requests : ~Removing(q)'
      BY <1>1, <1>2, <1>4, <2>1 DEF LastInv, Advances, Removing
    <2>2. ASSUME ~demoted', ~raced', overwritten' = {} PROVE \E u \in Users : Superuser(u)'
      <3>1. PICK u \in Users \ {t} : Superuser(u)
        BY <1>1, <1>2, <2>2 DEF LastInv, t
      <3> QED
        BY <1>3, <3>1 DEF Superuser
    <2> QED
      BY <2>1, <2>2 DEF LastInv
  <1>8. KeptInv'
    BY <1>2, <1>3 DEF KeptInv
  <1> QED
    BY <1>2, <1>3, <1>4, <1>5, <1>6, <1>7, <1>8 DEF Advances

(* A link is asked for, made, and runs out.                                *)
LEMMA ForgotStep ==
  ASSUME TeamInv,
         \/ \E r \in Requests, t \in Users : ForgotPassword(r, t)
         \/ \E r \in Requests, l \in Links : CreateLink(r, l)
         \/ \E l \in Links : LinkExpires(l)
  PROVE  TeamInv'
  <1> USE DEF TeamInv, AccountTypeOK
  <1>0. \A l \in Links : link[l].user \in Users \cup {NoUser}
    BY DEF PasswordResetToken
  <1>1. ASSUME NEW r \in Requests, NEW t \in Users, ForgotPassword(r, t) PROVE TeamInv'
    <2>1. /\ request[r].pc = "idle" /\ account[t].active /\ Goes(r, "forgot", t, Absent)
          /\ link' = [l \in Links |-> IF link[l].user = t THEN [link[l] EXCEPT !.used = TRUE] ELSE link[l]]
          /\ UNCHANGED <<account, removed, overwritten, demoted, raced, setBy, spent, crossed>>
      BY <1>1 DEF ForgotPassword, Begins, Retires
    <2>2. Exists(t) /\ Absent \in DashboardUser /\ request[r].link = NoLink
      BY <2>1 DEF ReadInv, HasRead, Absent, DashboardUser
    <2>3. Advances(r, "forgot") /\ request'[r].to = t /\ request'[r].link = NoLink
      BY <2>1, <2>2, GoesAdvances
    <2>4. \A l \in Links : LET x == [link[l] EXCEPT !.used = TRUE] IN
            x \in PasswordResetToken /\ x.used /\ x.user = link[l].user
      BY DEF PasswordResetToken
    <2>5. /\ link' \in [Links -> PasswordResetToken]
          /\ \A l \in Links : /\ link'[l].user = link[l].user /\ (link[l].used => link'[l].used)
                              /\ link[l].user = NoUser => link'[l] = link[l]
      BY <1>0, <2>1, <2>4, AccountConstants
    <2>6. ReadInv'
      <3>1. HasRead(r)'
        BY <2>1, <2>2, <2>3 DEF HasRead, Advances, Exists
      <3> QED
        BY <2>1, <2>3, <2>5, <3>1, ReadStays DEF Exists
    <2>7. LastInv'
      BY <2>1, <2>3, LastStays DEF Superuser
    <2>8. LinkInv'
      BY <2>1, <2>3, <2>5, LinksStay
    <2> QED
      <3>1. AccountTypeOK'
        BY <2>1, <2>3, <2>5 DEF Advances, AccountTypeOK
      <3>2. KeptInv'
        BY <2>1 DEF KeptInv
      <3> QED
        BY <2>6, <2>7, <2>8, <3>1, <3>2
  <1>2. ASSUME NEW r \in Requests, NEW k \in Links, CreateLink(r, k) PROVE TeamInv'
    <2> DEFINE t == request[r].to
    <2> DEFINE new == [link[k] EXCEPT !.user = t]
    <2>1. /\ request[r].pc = "forgot" /\ link[k].user = NoUser /\ Done(r)
          /\ link' = [link EXCEPT ![k] = new]
          /\ UNCHANGED <<account, removed, overwritten, demoted, raced, setBy, spent, crossed>>
      BY <1>2 DEF CreateLink
    <2>2. t \in Users /\ Exists(t)
      BY <2>1 DEF ReadInv, HasRead
    <2>3. new \in PasswordResetToken /\ new.user = t /\ new.used = link[k].used
      BY <2>2 DEF PasswordResetToken
    <2> HIDE DEF new, t
    <2>4. /\ link' \in [Links -> PasswordResetToken] /\ link'[k] = new
          /\ \A l \in Links \ {k} : link'[l] = link[l]
      BY <2>1, <2>3
    <2>5. Advances(r, "done") /\ request'[r].link = NoLink
      BY <2>1, DoneAdvances
    <2>6. ReadInv'
      <3>1. HasRead(r)'
        BY <2>5 DEF HasRead, Advances
      <3>2. \A l \in Links : \/ link'[l].user = link[l].user
                             \/ /\ link[l].user = NoUser /\ link'[l].user \in Users
                                /\ account'[link'[l].user].role # "none"
        BY <2>1, <2>2, <2>3, <2>4 DEF Exists
      <3>3. \A u \in Users : Exists(u) \/ account'[u] # account[u] => Exists(u)'
        BY <2>1 DEF Exists
      <3> QED
        BY <2>5, <3>1, <3>2, <3>3, ReadStays
    <2>7. LastInv'
      BY <2>1, <2>5, LastStays DEF Superuser
    <2>8. LinkInv'
      BY <2>1, <2>3, <2>4, <2>5, LinksStay
    <2>9. \A l \in Links : link'[l].user = NoUser => ~link'[l].used /\ ~link'[l].late
      BY <2>2, <2>3, <2>4, AccountConstants
    <2> QED
      BY <2>1, <2>4, <2>5, <2>6, <2>7, <2>8, <2>9 DEF KeptInv, Advances
  <1>3. ASSUME NEW k \in Links, LinkExpires(k) PROVE TeamInv'
    <2> DEFINE new == [link[k] EXCEPT !.late = TRUE]
    <2>1. /\ link[k].user # NoUser /\ link' = [link EXCEPT ![k] = new]
          /\ UNCHANGED <<account, request, removed, overwritten, demoted, raced, setBy, spent, crossed>>
      BY <1>3 DEF LinkExpires
    <2>2. new \in PasswordResetToken /\ new.user = link[k].user /\ new.used = link[k].used
      BY DEF PasswordResetToken
    <2> HIDE DEF new
    <2>3. /\ link' \in [Links -> PasswordResetToken]
          /\ \A l \in Links : /\ link'[l].user = link[l].user /\ link'[l].used = link[l].used
                              /\ link[l].user = NoUser => link'[l] = link[l]
      BY <2>1, <2>2
    <2>4. ReadInv'
      BY <2>1, <2>3 DEF ReadInv, HasRead, Exists
    <2>5. LastInv' /\ KeptInv'
      BY <2>1 DEF LastInv, KeptInv, Superuser, Removing
    <2>6. LinkInv'
      BY <2>1, <2>3 DEF LinkInv
    <2> QED
      BY <2>1, <2>3, <2>4, <2>5, <2>6
  <1> QED
    BY <1>1, <1>2, <1>3

(* A link is looked up, and marked.                                        *)
LEMMA UseLinkStep ==
  ASSUME TeamInv, NEW r \in Requests, (\E l \in Links : ReadLink(r, l)) \/ MarkUsed(r)
  PROVE  TeamInv'
  <1> USE DEF TeamInv, AccountTypeOK
  <1>1. ASSUME NEW k \in Links, ReadLink(r, k) PROVE TeamInv'
    <2> DEFINE t == link[k].user
    <2> DEFINE new == [NoRequest EXCEPT !.pc = "confirm", !.to = t, !.row = account[t], !.link = k]
    <2>1. /\ request[r].pc = "idle" /\ t # NoUser /\ ~link[k].used
          /\ request' = [request EXCEPT ![r] = new]
          /\ crossed' = IF \E q \in Requests : request[q].link = k THEN crossed \cup {k} ELSE crossed
          /\ UNCHANGED <<account, link, removed, overwritten, demoted, raced, setBy, spent>>
      BY <1>1 DEF ReadLink, Begins, IsValid
    <2>2. t \in Users /\ Exists(t) /\ account[t] \in DashboardUser
      BY <2>1 DEF ReadInv, PasswordResetToken
    <2>3. /\ new \in Request /\ new.pc = "confirm" /\ new.to = t /\ new.row = account[t]
          /\ new.link = k
      BY <2>2 DEF NoRequest, Absent, Request, DashboardUser
    <2> HIDE DEF new, t
    <2>4. /\ Advances(r, "confirm") /\ request'[r].to = t /\ request'[r].row = account[t]
          /\ request'[r].link = k
      BY <2>1, <2>3 DEF Advances
    <2>5. ReadInv'
      <3>1. HasRead(r)'
        BY <2>1, <2>2, <2>4 DEF HasRead, Advances, Exists, t
      <3> QED
        BY <2>1, <2>4, <3>1, ReadStays DEF Exists
    <2>6. LastInv'
      BY <2>1, <2>4, LastStays DEF Superuser
    <2>7. LinkInv'
      <3>1. request[r].link = NoLink
        BY <2>1 DEF ReadInv, HasRead
      <3>2. ASSUME NEW l \in Links \ crossed'
            PROVE  /\ \A p, q \in Requests : request'[p].link = l /\ request'[q].link = l => p = q
                   /\ \A q \in Requests : request'[q].pc = "confirm" /\ request'[q].link = l => spent[l] = {}
                   /\ spent[l] # {} =>
                        link[l].used \/ \E q \in Requests : request'[q].pc = "mark" /\ request'[q].link = l
                   /\ \A p, q \in spent[l] : p = q
        <4>1. l \in Links \ crossed
          BY <2>1
        <4>2. CASE l = k
          <5>1. \A q \in Requests : request[q].link # k
            BY <2>1, <3>2, <4>2
          <5>2. spent[l] = {}
            BY <2>1, <4>1, <4>2, <5>1 DEF LinkInv
          <5> QED
            BY <2>4, <4>2, <5>1, <5>2 DEF Advances
        <4>3. CASE l # k
          BY <2>1, <2>4, <3>1, <4>1, <4>3, AccountConstants DEF LinkInv, Advances
        <4> QED
          BY <4>2, <4>3
      <3> QED
        BY <2>1, <3>2 DEF LinkInv
    <2>8. crossed' \subseteq Links
      BY <2>1
    <2> QED
      BY <2>1, <2>4, <2>5, <2>6, <2>7, <2>8 DEF KeptInv, Advances
  <1>2. CASE MarkUsed(r)
    <2> DEFINE k == request[r].link
    <2> DEFINE new == [link[k] EXCEPT !.used = TRUE]
    <2>1. /\ request[r].pc = "mark" /\ link' = [link EXCEPT ![k] = new] /\ Done(r)
          /\ UNCHANGED <<account, removed, overwritten, demoted, raced, setBy, spent, crossed>>
      BY <1>2 DEF MarkUsed
    <2>2. k \in Links
      BY <2>1 DEF ReadInv, HasRead
    <2>3. new \in PasswordResetToken /\ new.user = link[k].user /\ new.used
      BY <2>2 DEF PasswordResetToken
    <2> HIDE DEF new, k
    <2>4. /\ link' \in [Links -> PasswordResetToken] /\ link'[k] = new
          /\ \A l \in Links \ {k} : link'[l] = link[l]
      BY <2>1, <2>2, <2>3
    <2>5. Advances(r, "done") /\ request'[r].link = NoLink
      BY <2>1, DoneAdvances
    <2>6. ReadInv'
      <3>1. HasRead(r)'
        BY <2>5 DEF HasRead, Advances
      <3> QED
        BY <2>1, <2>3, <2>4, <2>5, <3>1, ReadStays DEF Exists
    <2>7. LastInv'
      BY <2>1, <2>5, LastStays DEF Superuser
    <2>8. LinkInv'
      BY <2>1, <2>2, <2>3, <2>4, <2>5, AccountConstants DEF LinkInv, Advances, k
    <2>9. \A l \in Links : link'[l].user = NoUser => ~link'[l].used /\ ~link'[l].late
      <3>1. \E q \in Requests : request[q].pc = "mark" /\ request[q].link = k
        BY <2>1 DEF k
      <3> QED
        BY <2>2, <2>3, <2>4, <3>1 DEF ReadInv, HasRead
    <2> QED
      BY <2>1, <2>4, <2>5, <2>6, <2>7, <2>8, <2>9 DEF KeptInv, Advances
  <1> QED
    BY <1>1, <1>2

LEMMA FailStep ==
  ASSUME TeamInv, NEW r \in Requests, RequestFails(r)
  PROVE  TeamInv'
  <1> USE DEF TeamInv, AccountTypeOK
  <1>1. /\ Done(r) /\ UNCHANGED <<account, link, removed, overwritten, demoted, raced, setBy, spent>>
        /\ crossed' = IF request[r].pc = "mark" THEN crossed \cup {request[r].link} ELSE crossed
    BY DEF RequestFails
  <1>2. Advances(r, "done") /\ request'[r].link = NoLink
    BY <1>1, DoneAdvances
  <1>3. crossed' \subseteq Links /\ crossed \subseteq crossed'
    BY <1>1 DEF ReadInv, HasRead
  <1>4. ReadInv'
    <2>1. HasRead(r)'
      BY <1>2 DEF HasRead, Advances
    <2> QED
      BY <1>1, <1>2, <2>1, ReadStays DEF Exists
  <1>5. LastInv'
    BY <1>1, <1>2, LastStays DEF Superuser
  <1>6. LinkInv'
    <2>1. \A l \in Links \ crossed' : request[r].pc = "mark" => request[r].link # l
      BY <1>1
    <2> QED
      BY <1>1, <1>2, <1>3, <2>1, AccountConstants DEF LinkInv, Advances
  <1> QED
    BY <1>1, <1>2, <1>3, <1>4, <1>5, <1>6 DEF KeptInv, Advances

LEMMA TeamStep == TeamInv /\ [AccountNext]_accountVars => TeamInv'
  <1> SUFFICES ASSUME TeamInv, [AccountNext]_accountVars PROVE TeamInv'
    OBVIOUS
  <1>1. CASE UNCHANGED accountVars
    BY <1>1 DEF accountVars, TeamInv, AccountTypeOK, ReadInv, HasRead, LastInv, LinkInv, KeptInv, Exists,
       Superuser, Removing
  <1> QED
    BY <1>1, SaveStep, ConfirmStep, RegisterStep, UpdateStep, ReadingStep, CountStep, RemoveStep,
       ForgotStep, UseLinkStep, FailStep DEF AccountNext

(* What the team keeps.                                                    *)
LEMMA TeamHolds == TeamInv => SuperuserLeft /\ RemovedStays /\ PasswordsKept
  <1> SUFFICES ASSUME TeamInv PROVE SuperuserLeft /\ RemovedStays /\ PasswordsKept
    OBVIOUS
  <1>1. SuperuserLeft
    BY DEF TeamInv, LastInv, Superuser, SuperuserLeft
  <1>2. RemovedStays
    BY DEF TeamInv, AccountTypeOK, KeptInv, RemovedStays
  <1>3. ASSUME NEW l \in Links \ crossed PROVE Cardinality(spent[l]) <= 1
    <2>1. \A q, r \in spent[l] : q = r
      BY DEF TeamInv, LinkInv
    <2>2. \E q : spent[l] \subseteq {q}
      BY <2>1
    <2> QED
      BY <2>2, AtMostOne
  <1> QED
    BY <1>1, <1>2, <1>3 DEF TeamInv, KeptInv, PasswordsKept

----------------------------------------------------------------------------
(* All of the office.                                                      *)

(* What a build keeps.                                                     *)
LEMMA WorkHolds == WorkInv => StatusIsChosen /\ GoldOnce /\ UpdatesResolved
  <1> SUFFICES ASSUME WorkInv PROVE StatusIsChosen /\ GoldOnce /\ UpdatesResolved
    OBVIOUS
  <1>1. ASSUME "gold" \notin stale PROVE Cardinality({h \in Handlers : gold[h] # NoText}) <= 1
    <2> DEFINE S == {h \in Handlers : gold[h] # NoText}
    <2>1. \A g, h \in S : g = h
      BY <1>1 DEF WorkInv, GoldInv
    <2>2. \E h : S \subseteq {h}
      BY <2>1
    <2> QED
      BY <2>2, AtMostOne
  <1> QED
    BY <1>1 DEF WorkInv, CheckedInv, GoldOnce

(* What the library and the store keep.                                    *)
LEMMA StoreHolds == StoreInv => IndexFollows /\ SummaryKept
  <1> SUFFICES ASSUME StoreInv PROVE IndexFollows /\ SummaryKept
    OBVIOUS
  <1>1. IndexFollows
    BY DEF StoreInv, IndexInv, Matches, IndexFollows
  <1>2. SummaryKept
    BY DEF StoreInv, SummaryInv, SummaryKept
  <1> QED
    BY <1>1, <1>2

(* Each part is in a state of its own invariant, whichever part moves: the *)
(* others stand still.                                                     *)
LEMMA OfficeInvariant == Spec => []OfficeInv
  <1> DEFINE v == <<part, accountVars, sessionVars, buildVars, libraryVars, gatewayVars, vaultVars>>
  <1>1. Init => OfficeInv
    BY TeamStarts, VisitStarts, WorkStarts, StoreStarts, CapStarts, RotationStarts DEF Init, OfficeInv
  <1>2. OfficeInv /\ [Next]_v => OfficeInv'
    <2> SUFFICES ASSUME OfficeInv, [Next]_v PROVE OfficeInv'
      OBVIOUS
    <2>1. TeamInv'
      <3>1. [AccountNext]_accountVars
        BY DEF Next
      <3> QED
        BY <3>1, TeamStep DEF OfficeInv
    <2>2. VisitInv'
      <3>1. [SessionNext]_sessionVars
        BY DEF Next
      <3> QED
        BY <3>1, VisitStep DEF OfficeInv
    <2>3. WorkInv'
      <3>1. [BuildNext]_buildVars
        BY DEF Next
      <3> QED
        BY <3>1, WorkStep DEF OfficeInv
    <2>4. StoreInv'
      <3>1. [LibraryNext]_libraryVars
        BY DEF Next
      <3> QED
        BY <3>1, StoreStep DEF OfficeInv
    <2>5. CapInv'
      <3>1. [GatewayNext]_gatewayVars
        BY DEF Next, GatewayNext
      <3> QED
        BY <3>1, CapStep DEF OfficeInv
    <2>6. RotationInv'
      <3>1. [VaultNext]_vaultVars
        BY DEF Next
      <3> QED
        BY <3>1, RotationStep DEF OfficeInv
    <2> QED
      BY <2>1, <2>2, <2>3, <2>4, <2>5, <2>6 DEF OfficeInv
  <1> QED
    BY <1>1, <1>2, PTL DEF Spec

(* The rows, requests, messages and calls of the six parts are what their  *)
(* models say, and stay so (OfficeTypesOK).                                *)
THEOREM OfficeTypes == Spec => []OfficeTypesOK
  <1>1. OfficeInv => OfficeTypesOK
    BY DEF OfficeInv, TeamInv, VisitInv, WorkInv, StoreInv, CapInv, RotationInv, OfficeTypesOK
  <1> QED
    BY <1>1, OfficeInvariant, PTL

(* The handlers of Auth/views.py leave an active superuser, keep removed   *)
(* accounts removed and passwords as they were last set, but for the late  *)
(* saves and races the property names; the tokens, the invitation and the  *)
(* mails of builds/views.py are used once (TeamKept).                      *)
THEOREM TeamHoldsTogether == Spec => []TeamKept
  <1>1. OfficeInv => TeamKept
    BY TeamHolds, VisitHolds DEF OfficeInv, TeamKept
  <1> QED
    BY <1>1, OfficeInvariant, PTL

(* A build's status is the one chosen last, it leaves one reference, and   *)
(* its client updates are done only when all are resolved (BuildKept).     *)
THEOREM BuildHolds == Spec => []BuildKept
  <1>1. OfficeInv => BuildKept
    BY WorkHolds DEF OfficeInv, BuildKept
  <1> QED
    BY <1>1, OfficeInvariant, PTL

(* Removals, passwords, tokens, invitations, statuses, references and      *)
(* client updates last beside the saves of whole rows (RecordsKept).       *)
THEOREM RecordsLast == Spec => []RecordsKept
  <1>1. TeamKept /\ BuildKept => RecordsKept
    BY DEF RecordsKept
  <1> QED
    BY <1>1, TeamHoldsTogether, BuildHolds, PTL

(* Once its jobs have run the store has the chunks of the document that is *)
(* there, and a summary a person wrote is never replaced (LibraryKept).    *)
THEOREM LibraryFollows == Spec => []LibraryKept
  <1>1. OfficeInv => LibraryKept
    BY StoreHolds DEF OfficeInv, LibraryKept
  <1> QED
    BY <1>1, OfficeInvariant, PTL

(* A day's logged answers pass the cap by less than the tokens of the      *)
(* calls that _chat() had in progress at once, for any number of calls     *)
(* and any cap, and a client's words reach no provider but the one the     *)
(* settings named (AiKept).                                                *)
THEOREM SettingsHold == Spec => []AiKept
  <1>1. OfficeInv => AiKept
    BY CapHolds DEF OfficeInv, AiKept
  <1> QED
    BY <1>1, OfficeInvariant, PTL

(* Creations, activations, edits and deletions of AiApiKeyViewSet leave a  *)
(* provider one key in use but for the overlaps and edits the property     *)
(* names, and the rotation of the secrets loses no row (KeysKept).         *)
THEOREM KeysLast == Spec => []KeysKept
  <1>1. OfficeInv => KeysKept
    BY CapHolds DEF OfficeInv, RotationInv, KeysKept
  <1> QED
    BY <1>1, OfficeInvariant, PTL
=============================================================================
