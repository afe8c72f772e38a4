--------------------------- MODULE Investigations ---------------------------
(***************************************************************************)
(* Client investigations (backend/onboarding/investigations.py): staff ask *)
(* for the context of a client's Slack threads, workers collect it outside *)
(* any lock and store evidence and reply drafts, which staff edit while    *)
(* messages, permissions and the retention period withdraw what they rest  *)
(* on.                                                                     *)
(*                                                                         *)
(* One client, and one task, hence one brief, per thread.  The messages    *)
(* and owners of a thread are the number of their last change (source), as *)
(* are the client's permissions: policy, GHL connection, channel and Slack *)
(* grant (perm).  Revisions, which the code draws at random, and draft     *)
(* texts are the number of the change that made them.                      *)
(***************************************************************************)
EXTENDS Integers

CONSTANTS
  Investigations,  (* the client's Slack threads                           *)
  Workers,
  Requests,        (* the requests the server handles at the same time     *)
  MaxChanges,      (* Bound: changes to sources, permissions, rows, drafts *)
  None

ASSUME InvestigationConstants ==
  /\ MaxChanges \in Nat
  /\ None \notin Workers \cup Investigations \cup [source : 0..MaxChanges, perm : 0..MaxChanges]

VARIABLES
  changes,   (* how many changes there have been                           *)
  source,    (* the last change to each thread's messages and owners       *)
  perm,      (* the last change to the client's permissions                *)
  allowed,   (* whether they permit additional context                     *)
  rev,       (* ClientInvestigation.revision; 0: there is none yet         *)
  status,
  scope,     (* its source_fingerprint and scope; None: it was emptied     *)
  overdue,   (* started more than three minutes ago                        *)
  aged,      (* past its expires_at                                        *)
  purging,   (* withdrawn by a purge that has not marked them expired yet  *)
  withdrawn, (* when what it rests on was last withdrawn                   *)
  result,    (* its evidence, with the revision and scope it came from     *)
  text,      (* StaffBrief.draft_text: the change that wrote it; 0: empty  *)
  edited,    (* draft_edited                                               *)
  ready,     (* draft_ready: the revision it was approved under, or 0      *)
  edition,   (* draft_version                                              *)
  at,        (* where each request is                                      *)
  page,      (* what it has read                                           *)
  lease,     (* the holder of the policy's lease                           *)
  lapsed,    (* whether the lease is older than two minutes                *)
  pc,        (* where each worker is                                       *)
  held       (* what it has read and collected                             *)

world    == <<source, perm, allowed>>
rows     == <<rev, status, scope, overdue, aged, purging, withdrawn>>
briefs   == <<result, text, edited, ready, edition>>
requests == <<at, page>>
workers  == <<lease, lapsed, pc, held>>
vars     == <<changes, world, rows, briefs, requests, workers>>

Numbers == 0..MaxChanges
Scopes == [source : Numbers, perm : Numbers]
Nothing == [rev |-> 0, source |-> 0, perm |-> 0]
NoPage == [of |-> None, rev |-> 0, edition |-> 0, scope |-> None]
NotHeld == [of |-> None, rev |-> 0, scope |-> None, source |-> 0, perm |-> 0]

Init ==
  /\ changes = 0 /\ perm = 0 /\ allowed \in BOOLEAN
  /\ overdue = {} /\ aged = {} /\ purging = {}
  /\ LET zero == [i \in Investigations |-> 0] IN
       /\ source = zero /\ rev = zero /\ withdrawn = zero
       /\ text = zero /\ ready = zero /\ edition = zero
  /\ status = [i \in Investigations |-> "none"]
  /\ scope = [i \in Investigations |-> None]
  /\ result = [i \in Investigations |-> Nothing]
  /\ edited = [i \in Investigations |-> FALSE]
  /\ at = [r \in Requests |-> "idle"]
  /\ page = [r \in Requests |-> NoPage]
  /\ lease = None /\ lapsed = FALSE
  /\ pc = [w \in Workers |-> "idle"]
  /\ held = [w \in Workers |-> NotHeld]

----------------------------------------------------------------------------
Change == changes < MaxChanges /\ changes' = changes + 1
Fresh == changes + 1

Created == {i \in Investigations : rev[i] # 0}
Waiting == {"pending", "processing"}

(* Mutant: the permissions are left out of the scope.                      *)
Scope_Source(i) == [source |-> source[i]]
(* fingerprint() and scope_for().                                          *)
Scope(i) == [source |-> source[i], perm |-> perm]

(* queue() holds the policy's lock from its reads to its write; so does    *)
(* whoever publishes a result or changes the policy.                       *)
PolicyFree == \A r \in Requests : at[r] # "queueing"

(* Mutant: evidence is shown whatever has changed since.                   *)
Shown_Always(i) == status[i] \in {"ready", "partial"} /\ i \notin aged
(* current_context(): evidence and drafts are shown, and drafts accepted.  *)
Shown(i) ==
  /\ status[i] \in {"ready", "partial"} /\ i \notin aged
  /\ scope[i] = Scope(i)

(* The status of a queued investigation; how many investigations of other  *)
(* clients wait is not known here, so the queue may always be full.        *)
Queued == {"pending", "unavailable"}

(* invalidate(): is' revisions, evidence and drafts go.  Those in again    *)
(* are queued in the same transaction, with the scope they have then.      *)
Withdraw(is, again) ==
  LET gone == is \cap Created IN
  \E s \in Queued :
    /\ rev' = [i \in Investigations |-> IF i \in gone \cup again THEN Fresh ELSE rev[i]]
    /\ status' = [i \in Investigations |->
         IF i \in again THEN s ELSE IF i \in gone THEN "stale" ELSE status[i]]
    /\ scope' = [i \in Investigations |->
         IF i \in again THEN [source |-> source'[i], perm |-> perm']
         ELSE IF i \in gone THEN None ELSE scope[i]]
    /\ overdue' = overdue \ again /\ aged' = aged \ again
    /\ withdrawn' = [i \in Investigations |-> IF i \in gone THEN Fresh ELSE withdrawn[i]]
    /\ result' = [i \in Investigations |-> IF i \in gone THEN Nothing ELSE result[i]]
    /\ text' = [i \in Investigations |-> IF i \in gone THEN 0 ELSE text[i]]
    /\ edited' = [i \in Investigations |-> edited[i] /\ i \notin gone]
    /\ ready' = [i \in Investigations |-> IF i \in gone THEN 0 ELSE ready[i]]
    /\ UNCHANGED edition

----------------------------------------------------------------------------
(* The world around: messages, owners and permissions.                     *)

(* A message arrives or a task changes hands: nothing is withdrawn.        *)
SourceGrows(i) ==
  /\ Change
  /\ source' = [source EXCEPT ![i] = Fresh]
  /\ UNCHANGED <<perm, allowed, rows, briefs, requests, workers>>

(* source_change(): a captured message is edited or deleted (or expired).  *)
(* What rests on the channel is withdrawn, and the thread queued again if  *)
(* an edited message has a task.                                           *)
SourceChange(i, again) ==
  /\ Change
  /\ source' = [source EXCEPT ![i] = Fresh]
  /\ UNCHANGED <<perm, allowed>>
  /\ again = {} \/ PolicyFree
  /\ Withdraw(Investigations, again)
  /\ UNCHANGED <<purging, requests, workers>>

(* A message that was never captured is edited or deleted.                 *)
HistoryChange ==
  /\ Change
  /\ Withdraw(Investigations, {})
  /\ UNCHANGED <<world, purging, requests, workers>>

SetPermission(b) ==
  /\ Change
  /\ perm' = Fresh /\ allowed' = b
  /\ UNCHANGED source
  /\ Withdraw(Investigations, {})
  /\ UNCHANGED <<purging, requests, workers>>

SetPolicy(b) == PolicyFree /\ SetPermission(b)
SetChannel(b) == SetPermission(b)
SetAccess == SetPermission(allowed)  (* GHL connection, Slack revocation   *)

(* A new Slack grant, after the old one was revoked.                       *)
GrantConnected ==
  /\ Change
  /\ perm' = Fresh
  /\ UNCHANGED <<source, allowed, rows, briefs, requests, workers>>

----------------------------------------------------------------------------
(* Requests: queue(), pages and save_draft().                              *)

(* queue() reads under the policy's lock, ...                              *)
AskContext(r, i, force) ==
  /\ at[r] = "idle" /\ PolicyFree /\ changes < MaxChanges
  /\ Scope(i) # scope[i] \/ (force /\ status[i] \notin Waiting)
  /\ at' = [at EXCEPT ![r] = "queueing"]
  /\ page' = [page EXCEPT ![r] = 
       [of |-> i, rev |-> 0, edition |-> 0, scope |-> Scope(i)]]
  /\ UNCHANGED <<changes, world, rows, briefs, workers>>

Return(r) ==
  /\ at' = [at EXCEPT ![r] = "idle"]
  /\ page' = [page EXCEPT ![r] = NoPage]

(* Mutant: a draft stays ready when its investigation is queued again.     *)
Unready_Never(i) == UNCHANGED ready
Unready(i) == ready' = [ready EXCEPT ![i] = 0]

(* ... and saves the whole row.                                            *)
SaveQueue(r) ==
  LET i == page[r].of IN
  /\ at[r] = "queueing"
  /\ Change
  /\ rev' = [rev EXCEPT ![i] = Fresh]
  /\ \E s \in Queued : status' = [status EXCEPT ![i] = s]
  /\ scope' = [scope EXCEPT ![i] = page[r].scope]
  /\ overdue' = overdue \ {i} /\ aged' = aged \ {i}
  /\ Unready(i)
  /\ Return(r)
  /\ UNCHANGED <<world, purging, withdrawn, result, text, edited, edition, workers>>

(* Staff see the evidence and the draft, ...                               *)
OpenPage(r, i) ==
  /\ at[r] = "idle" /\ Shown(i)
  /\ at' = [at EXCEPT ![r] = "reading"]
  /\ page' = [page EXCEPT ![r] = 
       [of |-> i, rev |-> rev[i], edition |-> edition[i], scope |-> None]]
  /\ UNCHANGED <<changes, world, rows, briefs, workers>>

(* Mutant: what was saved in the meantime is not looked at.                *)
Unchanged_Revision(r) == rev[page[r].of] = page[r].rev
Unchanged(r) == rev[page[r].of] = page[r].rev /\ edition[page[r].of] = page[r].edition

(* ... and save a draft, unless something changed; approved, it is ready.  *)
SaveDraft(r, approved) ==
  LET i == page[r].of IN
  /\ at[r] = "reading"
  /\ IF Shown(i) /\ Unchanged(r)
       THEN /\ Change
            /\ text' = [text EXCEPT ![i] = Fresh]
            /\ edited' = [edited EXCEPT ![i] = TRUE]
            /\ ready' = [ready EXCEPT ![i] = IF approved THEN page[r].rev ELSE 0]
            /\ edition' = [edition EXCEPT ![i] = @ + 1]
       ELSE UNCHANGED <<changes, text, edited, ready, edition>>
  /\ Return(r)
  /\ UNCHANGED <<world, rows, result, workers>>

RequestDies(r) ==
  /\ at[r] # "idle"
  /\ Return(r)
  /\ UNCHANGED <<changes, world, rows, briefs, workers>>

----------------------------------------------------------------------------
(* Time, and the hourly purge_expired().                                   *)

GrowOld(i) ==
  /\ i \in Created /\ i \notin aged
  /\ aged' = aged \cup {i}
  /\ UNCHANGED <<changes, world, rev, status, scope, overdue, purging, withdrawn, briefs, requests, workers>>

(* What has expired is withdrawn in one transaction, ...                   *)
PurgeExpired ==
  LET expired == {i \in aged : status[i] # "expired"} IN
  /\ purging = {} /\ expired # {}
  /\ Change
  /\ purging' = expired
  /\ Withdraw(expired, {})
  /\ UNCHANGED <<world, requests, workers>>

(* ... and marked after it, unless the purge ends before.                  *)
MarkExpired ==
  /\ purging # {}
  /\ status' = [i \in Investigations |-> IF i \in purging THEN "expired" ELSE status[i]]
  /\ purging' = {}
  /\ UNCHANGED <<changes, world, rev, scope, overdue, aged, withdrawn, briefs, requests, workers>>

PurgeDies ==
  /\ purging # {}
  /\ purging' = {}
  /\ UNCHANGED <<changes, world, rev, status, scope, overdue, aged, withdrawn, briefs, requests, workers>>

----------------------------------------------------------------------------
(* Workers: drain() and process().                                         *)

StartedLongAgo(i) ==
  /\ status[i] = "processing" /\ i \notin overdue
  /\ overdue' = overdue \cup {i}
  /\ UNCHANGED <<changes, world, rev, status, scope, aged, purging, withdrawn, briefs, requests, workers>>

LeaseLapses ==
  /\ lease # None /\ ~lapsed
  /\ lapsed' = TRUE
  /\ UNCHANGED <<changes, world, rows, briefs, requests, lease, pc, held>>

(* Mutant: only investigations that have not started are interrupted.      *)
Interrupted_Unclaimed == {i \in overdue : status[i] = "pending"}
Interrupted == {i \in overdue : status[i] = "processing"}

Sweep(w) ==
  /\ pc[w] = "idle"
  /\ pc' = [pc EXCEPT ![w] = "next"]
  /\ status' = [i \in Investigations |-> IF i \in Interrupted THEN "unavailable" ELSE status[i]]
  /\ UNCHANGED <<changes, world, rev, scope, overdue, aged, purging, withdrawn, briefs, requests, lease, lapsed, held>>

Rest(w) ==
  /\ pc[w] = "next" /\ \A i \in Investigations : status[i] # "pending"
  /\ pc' = [pc EXCEPT ![w] = "idle"]
  /\ UNCHANGED <<changes, world, rows, briefs, requests, lease, lapsed, held>>

(* An investigation is read, ...                                           *)
Take(w, i) ==
  /\ pc[w] = "next" /\ status[i] = "pending"
  /\ pc' = [pc EXCEPT ![w] = "leasing"]
  /\ held' = [held EXCEPT ![w] = 
       [of |-> i, rev |-> rev[i], scope |-> scope[i], source |-> 0, perm |-> 0]]
  /\ UNCHANGED <<changes, world, rows, briefs, requests, lease, lapsed>>

Go(w, place) == pc' = [pc EXCEPT ![w] = place]
Drop(w) == held' = [held EXCEPT ![w] = NotHeld]

(* ... the client's lease is taken, unless another worker has it, ...      *)
Lease(w) ==
  /\ pc[w] = "leasing" /\ PolicyFree
  /\ IF lease = None \/ lapsed
       THEN lease' = w /\ lapsed' = FALSE /\ Go(w, "claiming") /\ UNCHANGED held
       ELSE Go(w, "idle") /\ Drop(w) /\ UNCHANGED <<lease, lapsed>>
  /\ UNCHANGED <<changes, world, rows, briefs, requests>>

(* ... the investigation is claimed, ...                                   *)
Claim(w) ==
  LET i == held[w].of IN
  /\ pc[w] = "claiming"
  /\ IF rev[i] = held[w].rev /\ status[i] = "pending"
       THEN /\ status' = [status EXCEPT ![i] = "processing"]
            /\ overdue' = overdue \ {i}
            /\ Go(w, "gate")
       ELSE Go(w, "releasing") /\ UNCHANGED <<status, overdue>>
  /\ UNCHANGED <<changes, world, rev, scope, aged, purging, withdrawn, briefs, requests, lease, lapsed, held>>

(* ... permitted or not, ...                                               *)
Gate(w) ==
  /\ pc[w] = "gate"
  /\ Go(w, IF allowed THEN "reading" ELSE "barred")
  /\ UNCHANGED <<changes, world, rows, briefs, requests, lease, lapsed, held>>

(* ... and outside any lock the messages are read, ...                     *)
GatherLocal(w) ==
  /\ pc[w] = "reading"
  /\ held' = [held EXCEPT ![w].source = source[held[w].of]]
  /\ Go(w, "asking")
  /\ UNCHANGED <<changes, world, rows, briefs, requests, lease, lapsed>>

(* ... and Slack and GHL asked with the permissions there are then.        *)
GatherRemote(w) ==
  /\ pc[w] = "asking"
  /\ held' = [held EXCEPT ![w].perm = perm]
  /\ Go(w, "publishing")
  /\ UNCHANGED <<changes, world, rows, briefs, requests, lease, lapsed>>

(* Slack may answer that the grant was revoked: revoke().                  *)
TokenRevoked(w) ==
  /\ pc[w] = "asking"
  /\ SetAccess

(* Mutant: the revision is not compared, nor who has the lease.            *)
Mine_Always(w) == TRUE
Mine(w) == rev[held[w].of] = held[w].rev /\ lease = w

(* Mutant: a new draft replaces one that staff have edited.                *)
Draft_New(i, t) == t
Draft(i, t) == IF edited[i] THEN text[i] ELSE t

Store(w, found, s, t) ==
  LET i == held[w].of IN
  /\ status' = [status EXCEPT ![i] = s]
  /\ result' = [result EXCEPT ![i] = found]
  /\ text' = [text EXCEPT ![i] = Draft(i, t)]
  /\ ready' = [ready EXCEPT ![i] = 0]
  /\ edition' = [edition EXCEPT ![i] = @ + 1]

(* Under the locks of the policy and the row the result is stored, with a  *)
(* draft where staff have not edited one, if nothing has changed.          *)
Publish(w) ==
  LET i == held[w].of IN
  /\ pc[w] \in {"publishing", "barred"} /\ PolicyFree
  /\ IF ~Mine(w) THEN UNCHANGED <<status, result, text, ready, edition>>
     ELSE IF Scope(i) # held[w].scope
       THEN status' = [status EXCEPT ![i] = "stale"] /\ UNCHANGED <<result, text, ready, edition>>
     ELSE IF pc[w] = "barred" THEN Store(w, Nothing, "unavailable", 0)
     ELSE \E s \in {"ready", "partial"} :
            Store(w, [rev |-> held[w].rev, source |-> held[w].source, perm |-> held[w].perm], s, held[w].rev)
  /\ Go(w, "releasing")
  /\ UNCHANGED <<changes, world, rev, scope, overdue, aged, purging, withdrawn, edited, requests, lease, lapsed, held>>

(* An exception anywhere between the claim and the end of that.            *)
Fail(w) ==
  LET i == held[w].of IN
  /\ pc[w] \in {"gate", "reading", "asking", "barred", "publishing"}
  /\ status' = IF rev[i] = held[w].rev /\ status[i] = "processing"
                 THEN [status EXCEPT ![i] = "unavailable"] ELSE status
  /\ Go(w, "releasing")
  /\ UNCHANGED <<changes, world, rev, scope, overdue, aged, purging, withdrawn, briefs, requests, lease, lapsed, held>>

Release(w) ==
  /\ pc[w] = "releasing" /\ PolicyFree
  /\ IF lease = w THEN lease' = None /\ lapsed' = FALSE ELSE UNCHANGED <<lease, lapsed>>
  /\ Go(w, "next") /\ Drop(w)
  /\ UNCHANGED <<changes, world, rows, briefs, requests>>

WorkerDies(w) ==
  /\ pc[w] # "idle"
  /\ Go(w, "idle") /\ Drop(w)
  /\ UNCHANGED <<changes, world, rows, briefs, requests, lease, lapsed>>

----------------------------------------------------------------------------
Around ==
  \/ \E i \in Investigations : SourceGrows(i) \/ \E again \in SUBSET {i} : SourceChange(i, again)
  \/ HistoryChange \/ SetAccess \/ GrantConnected
  \/ \E b \in BOOLEAN : SetPolicy(b) \/ SetChannel(b)

Staff(r) ==
  \/ \E i \in Investigations : OpenPage(r, i) \/ \E force \in BOOLEAN : AskContext(r, i, force)
  \/ SaveQueue(r) \/ RequestDies(r)
  \/ \E approved \in BOOLEAN : SaveDraft(r, approved)

Time ==
  \/ \E i \in Investigations : GrowOld(i) \/ StartedLongAgo(i)
  \/ LeaseLapses \/ PurgeExpired \/ MarkExpired \/ PurgeDies

WorkerStep(w) ==
  \/ Sweep(w) \/ Rest(w) \/ Lease(w) \/ Claim(w) \/ Gate(w)
  \/ GatherLocal(w) \/ GatherRemote(w) \/ Publish(w) \/ Release(w)
  \/ \E i \in Investigations : Take(w, i)

Next ==
  \/ Around
  \/ \E r \in Requests : Staff(r)
  \/ Time
  \/ \E w \in Workers : WorkerStep(w) \/ TokenRevoked(w) \/ Fail(w) \/ WorkerDies(w)

Spec == Init /\ [][Next]_vars

(* Beat starts a drain every fifteen seconds, time passes, transactions    *)
(* end; not every drain dies before it claims.  Nothing is assumed of any  *)
(* one worker.                                                             *)
Fairness ==
  /\ WF_vars(\E w \in Workers : WorkerStep(w))
  /\ SF_vars(\E w \in Workers, i \in Investigations : Take(w, i))
  /\ SF_vars(\E w \in Workers : Lease(w)) /\ SF_vars(\E w \in Workers : Claim(w))
  /\ \A i \in Investigations : WF_vars(StartedLongAgo(i))
  /\ WF_vars(LeaseLapses)
  /\ \A r \in Requests : WF_vars(at[r] = "queueing" /\ (SaveQueue(r) \/ RequestDies(r)))
  /\ SF_vars(\E r \in Requests : SaveQueue(r))

FairSpec == Spec /\ Fairness

----------------------------------------------------------------------------
(* Properties                                                              *)

(* Every variable keeps its type.                                          *)
TypeOK ==
  /\ changes \in Numbers /\ perm \in Numbers /\ allowed \in BOOLEAN
  /\ overdue \subseteq Investigations /\ aged \subseteq Investigations
  /\ purging \subseteq Investigations
  /\ source \in [Investigations -> Numbers] /\ rev \in [Investigations -> Numbers]
  /\ withdrawn \in [Investigations -> Numbers]
  /\ status \in [Investigations -> {"none", "pending", "processing", "ready", "partial",
                                   "unavailable", "stale", "expired"}]
  /\ scope \in [Investigations -> Scopes \cup {None}]
  /\ result \in [Investigations -> [rev : Numbers, source : Numbers, perm : Numbers]]
  /\ text \in [Investigations -> Numbers] /\ ready \in [Investigations -> Numbers]
  /\ edited \in [Investigations -> BOOLEAN] /\ edition \in [Investigations -> Nat]
  /\ at \in [Requests -> {"idle", "queueing", "reading"}]
  /\ page \in [Requests -> [of : Investigations \cup {None}, rev : Numbers, edition : Nat,
                            scope : Scopes \cup {None}]]
  /\ lease \in Workers \cup {None} /\ lapsed \in BOOLEAN
  /\ pc \in [Workers -> {"idle", "next", "leasing", "claiming", "gate", "reading", "asking",
                         "barred", "publishing", "releasing"}]
  /\ held \in [Workers -> [of : Investigations \cup {None}, rev : Numbers,
                           scope : Scopes \cup {None}, source : Numbers, perm : Numbers]]

(* Evidence shown to staff is of the messages, owners and permissions as   *)
(* they are, all of it, although it was collected while they changed.      *)
ShownIsCurrent ==
  \A i \in Investigations : Shown(i) =>
    result[i] = [rev |-> rev[i], source |-> source[i], perm |-> perm]

(* Of what was withdrawn nothing is left or comes back: no evidence and no *)
(* draft is older, however late a worker or a request returns.             *)
NothingWithdrawn ==
  \A i \in Investigations :
    /\ result[i] # Nothing => result[i].rev >= withdrawn[i]
    /\ text[i] # 0 => text[i] >= withdrawn[i]

(* A draft is ready only as somebody approved it, knowing the evidence of  *)
(* the present revision.                                                   *)
ReadyIsReviewed ==
  \A i \in Investigations : ready[i] # 0 => ready[i] = rev[i] /\ edited[i] /\ text[i] # 0

(* A draft that staff have edited is replaced only by somebody who has     *)
(* seen it, or withdrawn: never by a worker, nor by a page opened earlier. *)
EditedDraftKept ==
  [][\A i \in Investigations : edited[i] /\ text'[i] # text[i] =>
       \/ text'[i] = 0
       \/ \E r \in Requests :
            at[r] = "reading" /\ page[r].of = i /\ page[r].edition = edition[i] /\ at'[r] = "idle"]_vars

(* A queued investigation comes to an end, although workers die and leave  *)
(* the client's lease.                                                     *)
InvestigationsEnd ==
  \A i \in Investigations : status[i] \in Waiting ~> status[i] \notin Waiting
=============================================================================
