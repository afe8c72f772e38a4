------------------------------ MODULE GhlChat ------------------------------
(***************************************************************************)
(* The GHL chat application (backend/ghl_chat): a durable queue of runs    *)
(* kept in database rows.  A staff member posts a message, a worker plans  *)
(* it, and a plan that would change the remote account stops at a          *)
(* proposal which its owner approves or rejects; an approved proposal is   *)
(* queued again and executed by a worker.                                  *)
(*                                                                         *)
(* One account is modelled (accounts share nothing but the queue).         *)
(* Questions, answers, rows, exports and the AI's choices are abstracted   *)
(* to the nondeterministic outcome of each planning job.  A step is what   *)
(* one transaction or one remote call of the code does; between two steps  *)
(* of a worker every other actor may act, and the worker may die.          *)
(***************************************************************************)
EXTENDS Integers, FiniteSets, Sequences

CONSTANTS
  MaxRuns,        (* Bound: rows of Run that can be created              *)
  Conversations,  (* Conversation rows                                   *)
  Users,          (* staff members                                       *)
  OwnerOf,        (* the owner of each conversation                      *)
  Levels,         (* the levels of access a user may be given            *)
  Keys,           (* client-generated request keys                       *)
  Ops,            (* mutations the AI may propose: operation and params  *)
  ActiveJobLimit, (* jobs a user may have in the queue: 3 in the code    *)
  MaxRevision,    (* Bound: how often the connection can be saved        *)
  Workers,        (* Celery workers                                      *)
  HardLimit,      (* ticks after which Celery kills a drain_chat task    *)
  SweepAfter,     (* ticks after which drain_chat gives up on a run      *)
  LateFailures,   (* may a job fail after it has saved its run?          *)
  None

ASSUME ChatConstants ==
  /\ MaxRuns \in Nat
  /\ OwnerOf \in [Conversations -> Users]
  /\ Levels \subseteq {"none", "read", "write"}
  /\ ActiveJobLimit \in Nat
  /\ MaxRevision \in Nat
  /\ HardLimit \in Nat \ {0}
  /\ SweepAfter \in Nat
  /\ LateFailures \in BOOLEAN

(* time_limit=220 seconds against a cutoff of 5 minutes.                   *)
ASSUME KilledBeforeSwept == HardLimit =< SweepAfter

Runs == 1..MaxRuns
Revisions == 1..MaxRevision
(* What the unique digest of an Execution row stands for.                  *)
Fingerprint == [op : Ops, rev : Revisions]

ASSUME NoneIsNoValue == None \notin Fingerprint \cup Keys \cup Conversations \cup Runs

Queued   == {"queued", "execute_queued"}
Active   == {"running", "executing"}
Terminal == {"done", "failed", "unknown", "rejected"}
Pending  == Queued \cup Active \cup {"awaiting_confirmation"}
Statuses == {"none"} \cup Pending \cup Terminal

VARIABLES
  status,      (* Run.status, "none" before the row exists               *)
  conv,        (* Run.conversation                                       *)
  reqKey,      (* Run.request_key                                        *)
  proposal,    (* Run.proposal: operation and connection_revision        *)
  expired,     (* runs whose proposal is past its expires_at             *)
  age,         (* ticks since Run.started_at, while running or executing *)
  posting,     (* request key of the open transaction of messages() that *)
               (* holds the row lock of the conversation                 *)
  approved,    (* the proposal named by the audit row "approved"         *)
  claim,       (* Execution rows: the fingerprint claimed by a run       *)
  applied,     (* history: the runs GHL applied each fingerprint for     *)
  access,      (* what the account grants each user                      *)
  revision,    (* the last GhlConnection.revision saved                  *)
  connected,   (* does the GhlConnection row exist?                      *)
  pc,          (* where each worker is                                   *)
  job,         (* the run it is processing                               *)
  held,        (* its in-memory copy of Run.proposal                     *)
  seen,        (* gateway.revision, as the worker loaded it              *)
  verdict,     (* the status its failure handler is about to save        *)
  elapsed      (* ticks since its task started                           *)

rowVars    == <<status, conv, reqKey, proposal, expired, age, posting, approved, claim>>
remoteVars == <<applied, access, revision, connected>>
workerVars == <<pc, job, held, seen, verdict, elapsed>>
vars       == <<rowVars, remoteVars, workerVars>>

Created == {r \in Runs : status[r] # "none"}
RunsOf(c) == {r \in Created : conv[r] = c}
OwnerOfRun(r) == OwnerOf[conv[r]]

(* authorize(): managers and holders of an execute grant may write, other  *)
(* grants may read.                                                        *)
MayRead(u)  == access[u] \in {"read", "write"}
MayWrite(u) == access[u] = "write"
(* Mutant: nobody compares the revision.                                   *)
RevisionIs_Unchecked(rev) == TRUE

(* current_revision(account) == rev; a removed connection matches nothing. *)
RevisionIs(rev) == connected /\ revision = rev

Init ==
  /\ status = [r \in Runs |-> "none"]
  /\ conv = [r \in Runs |-> None]
  /\ reqKey = [r \in Runs |-> None]
  /\ proposal = [r \in Runs |-> None]
  /\ expired = {}
  /\ age = [r \in Runs |-> 0]
  /\ posting = [c \in Conversations |-> None]
  /\ approved = [r \in Runs |-> None]
  /\ claim = [r \in Runs |-> None]
  /\ applied = [fp \in Fingerprint |-> <<>>]
  /\ access = [u \in Users |-> "none"]
  /\ revision = 0
  /\ connected = FALSE
  /\ pc = [w \in Workers |-> "idle"]
  /\ job = [w \in Workers |-> None]
  /\ held = [w \in Workers |-> None]
  /\ seen = [w \in Workers |-> 0]
  /\ verdict = [w \in Workers |-> "failed"]
  /\ elapsed = [w \in Workers |-> 0]

----------------------------------------------------------------------------
(* Managers: grants, account switch, user deactivation; the connection.    *)

SetAccess(u, level) ==
  /\ access[u] # level
  /\ access' = [access EXCEPT ![u] = level]
  /\ UNCHANGED <<rowVars, applied, revision, connected, workerVars>>

SaveConnection ==
  /\ revision < MaxRevision
  /\ revision' = revision + 1
  /\ connected' = TRUE
  /\ UNCHANGED <<rowVars, applied, access, workerVars>>

DeleteConnection ==
  /\ connected
  /\ connected' = FALSE
  /\ UNCHANGED <<rowVars, applied, access, revision, workerVars>>

----------------------------------------------------------------------------
(* Staff: messages() and confirm().                                        *)

ActiveJobs(u) == {r \in Created : OwnerOfRun(r) = u /\ status[r] \in Queued \cup Active}
UnderJobLimit(u) == Cardinality(ActiveJobs(u)) < ActiveJobLimit
NewKey(c, k) == \A r \in RunsOf(c) : reqKey[r] # k
(* Mutant: a proposal that waits for its owner is not counted.             *)
NothingPending_Working(c) == \A r \in RunsOf(c) : status[r] \notin Queued \cup Active
NothingPending(c) == \A r \in RunsOf(c) : status[r] \notin Pending

(* messages() up to the insert: the conversation's row is locked, the key  *)
(* is new, nothing is pending and the owner is below the cap.  The cap     *)
(* reads rows of other conversations, which this lock does not cover.      *)
PostMessage(c, k) ==
  /\ posting[c] = None
  /\ MayRead(OwnerOf[c])
  /\ NewKey(c, k)
  /\ NothingPending(c)
  /\ UnderJobLimit(OwnerOf[c])
  /\ posting' = [posting EXCEPT ![c] = k]
  /\ UNCHANGED <<status, conv, reqKey, proposal, expired, age, approved, claim,
                 remoteVars, workerVars>>

(* The insert and the commit that releases the lock.                       *)
InsertRun(c, r) ==
  /\ posting[c] # None
  /\ r \notin Created /\ \A s \in Runs : s < r => s \in Created
  /\ status' = [status EXCEPT ![r] = "queued"]
  /\ conv' = [conv EXCEPT ![r] = c]
  /\ reqKey' = [reqKey EXCEPT ![r] = posting[c]]
  /\ posting' = [posting EXCEPT ![c] = None]
  /\ UNCHANGED <<proposal, expired, age, approved, claim, remoteVars, workerVars>>

(* The transaction ends without a row: the client went away, the server    *)
(* stopped.                                                                *)
AbortPost(c) ==
  /\ posting[c] # None
  /\ posting' = [posting EXCEPT ![c] = None]
  /\ UNCHANGED <<status, conv, reqKey, proposal, expired, age, approved, claim,
                 remoteVars, workerVars>>

Approve(r) ==
  /\ status[r] = "awaiting_confirmation"
  /\ MayWrite(OwnerOfRun(r))
  /\ r \notin expired
  /\ RevisionIs(proposal[r].rev)
  /\ status' = [status EXCEPT ![r] = "execute_queued"]
  /\ approved' = [approved EXCEPT ![r] = proposal[r]]
  /\ UNCHANGED <<conv, reqKey, proposal, expired, age, posting, claim, remoteVars, workerVars>>

Reject(r) ==
  /\ status[r] = "awaiting_confirmation"
  /\ MayRead(OwnerOfRun(r))
  /\ status' = [status EXCEPT ![r] = "rejected"]
  /\ UNCHANGED <<conv, reqKey, proposal, expired, age, posting, approved, claim,
                 remoteVars, workerVars>>

(* Fifteen minutes pass since the proposal was saved.  (Passing while the  *)
(* worker checks the proposal is the same as passing just before.)         *)
Expire(r) ==
  /\ status[r] \in {"awaiting_confirmation", "execute_queued"}
  /\ r \notin expired
  /\ expired' = expired \cup {r}
  /\ UNCHANGED <<status, conv, reqKey, proposal, age, posting, approved, claim,
                 remoteVars, workerVars>>

----------------------------------------------------------------------------
(* Workers: one drain_chat task at a time, started by Celery beat.         *)

Goto(w, label) == pc' = [pc EXCEPT ![w] = label]

(* Mutants: no cutoff; only executing runs are given up.                   *)
Stale_Now(r) == status[r] \in Active
Stale_Executing(r) == status[r] = "executing" /\ age[r] > SweepAfter
Stale(r) == status[r] \in Active /\ age[r] > SweepAfter
SweptTo(s) == IF s = "executing" THEN "unknown" ELSE "failed"
Waiting == {r \in Runs : status[r] \in Queued}

(* drain_chat: give up on the runs of dead workers, then select the oldest *)
(* waiting run.  Rows are numbered in the order of created_at.             *)
Drain(w) ==
  /\ pc[w] = "idle"
  /\ status' = [r \in Runs |-> IF Stale(r) THEN SweptTo(status[r]) ELSE status[r]]
  /\ \/ /\ Waiting = {}
        /\ UNCHANGED workerVars
     \/ \E r \in Waiting :
          /\ \A s \in Waiting : r =< s
          /\ Goto(w, "picked")
          /\ job' = [job EXCEPT ![w] = r]
          /\ UNCHANGED <<held, seen, verdict, elapsed>>
  /\ UNCHANGED <<conv, reqKey, proposal, expired, age, posting, approved, claim, remoteVars>>

(* The task is over and its local variables are gone.                      *)
Release(w) ==
  /\ Goto(w, "idle")
  /\ job' = [job EXCEPT ![w] = None]
  /\ held' = [held EXCEPT ![w] = None]
  /\ seen' = [seen EXCEPT ![w] = 0]
  /\ verdict' = [verdict EXCEPT ![w] = "failed"]
  /\ elapsed' = [elapsed EXCEPT ![w] = 0]

(* process_run: the compare-and-set on status decides which worker has the *)
(* run; ask() then loads the connection into its gateway.                  *)
StartRun(w) ==
  LET r == job[w] IN
  /\ pc[w] = "picked"
  /\ status[r] \in Queued
  /\ status' = [status EXCEPT ![r] = IF @ = "queued" THEN "running" ELSE "executing"]
  /\ Goto(w, IF status[r] = "queued" THEN "planning" ELSE "checking")
  /\ held' = [held EXCEPT ![w] = proposal[r]]
  /\ seen' = [seen EXCEPT ![w] = revision]
  /\ age' = [age EXCEPT ![r] = 0]
  /\ UNCHANGED <<conv, reqKey, proposal, expired, posting, approved, claim, remoteVars,
                 job, verdict, elapsed>>

LoseRun(w) ==
  /\ pc[w] = "picked"
  /\ status[job[w]] \notin Queued
  /\ Release(w)
  /\ UNCHANGED <<rowVars, remoteVars>>

(* Any exception inside the job: revoked access, a changed connection, an  *)
(* exhausted budget, a GHL or AI error, the soft time limit.               *)
JobFails(w) ==
  /\ pc[w] \in {"planning", "checking", "claiming", "claimed", "sending", "replied"}
  /\ Goto(w, "failing")
  /\ UNCHANGED <<rowVars, remoteVars, job, held, seen, verdict, elapsed>>

(* run.save(): the in-memory row replaces the stored one, whatever status  *)
(* that has by now.                                                        *)
SaveRun(w, s) ==
  /\ status' = [status EXCEPT ![job[w]] = s]
  /\ proposal' = [proposal EXCEPT ![job[w]] = held'[w]]

(* ask(): the plan ends in an answer, saved by finish().                   *)
AnswerRun(w) ==
  /\ pc[w] = "planning"
  /\ MayRead(OwnerOfRun(job[w]))
  /\ UNCHANGED held
  /\ SaveRun(w, "done")
  /\ Goto(w, "saved")
  /\ UNCHANGED <<conv, reqKey, expired, age, posting, approved, claim, remoteVars,
                 job, seen, verdict, elapsed>>

(* ask(): the plan ends in a mutation, which is proposed and not executed. *)
ProposeMutation(w, op) ==
  /\ pc[w] = "planning"
  /\ MayWrite(OwnerOfRun(job[w]))
  /\ RevisionIs(seen[w])
  /\ held' = [held EXCEPT ![w] = [op |-> op, rev |-> seen[w]]]
  /\ SaveRun(w, "awaiting_confirmation")
  /\ Goto(w, "saved")
  /\ UNCHANGED <<conv, reqKey, expired, age, posting, approved, claim, remoteVars,
                 job, seen, verdict, elapsed>>

(* execute_confirmed: every check before the claim.                        *)
CheckApproval(w) ==
  /\ pc[w] = "checking"
  /\ MayWrite(OwnerOfRun(job[w]))
  /\ job[w] \notin expired
  /\ RevisionIs(held[w].rev)
  /\ seen' = [seen EXCEPT ![w] = revision]
  /\ Goto(w, "claiming")
  /\ UNCHANGED <<rowVars, remoteVars, job, held, verdict, elapsed>>

FingerprintOf(w) == [op |-> held[w].op, rev |-> seen[w]]

(* Mutant: the fingerprint is not unique.                                  *)
Claimable_PerRun(r, fp) == claim[r] = None

(* The unique constraints of Execution, on run and on fingerprint.         *)
Claimable(r, fp) == claim[r] = None /\ \A s \in Runs : claim[s] # fp

(* The insert of the Execution.  (A duplicate raises IntegrityError, one   *)
(* of the causes of JobFails.)                                             *)
ClaimMutation(w) ==
  /\ pc[w] = "claiming"
  /\ Claimable(job[w], FingerprintOf(w))
  /\ claim' = [claim EXCEPT ![job[w]] = FingerprintOf(w)]
  /\ Goto(w, "claimed")
  /\ UNCHANGED <<status, conv, reqKey, proposal, expired, age, posting, approved, remoteVars,
                 job, held, seen, verdict, elapsed>>

RecheckAccess(w) ==
  /\ pc[w] = "claimed"
  /\ MayWrite(OwnerOfRun(job[w]))
  /\ RevisionIs(seen[w])
  /\ Goto(w, "sending")
  /\ UNCHANGED <<rowVars, remoteVars, job, held, seen, verdict, elapsed>>

(* gateway.execute: GHL applies the mutation; the reply may be lost.  (A   *)
(* call GHL refuses is JobFails.)                                          *)
SendMutation(w) ==
  /\ pc[w] = "sending"
  /\ applied' = [applied EXCEPT ![FingerprintOf(w)] = Append(@, job[w])]
  /\ \/ Goto(w, "replied")
     \/ Goto(w, "failing")
  /\ UNCHANGED <<rowVars, access, revision, connected, job, held, seen, verdict, elapsed>>

(* Mutant: success is recorded before the call.                            *)
Confirmed_Early(w) == pc[w] \in {"sending", "replied"}
Confirmed(w) == pc[w] = "replied"

(* append_result and finish().                                             *)
FinishMutation(w) ==
  /\ Confirmed(w)
  /\ MayRead(OwnerOfRun(job[w]))
  /\ UNCHANGED held
  /\ SaveRun(w, "done")
  /\ Goto(w, "saved")
  /\ UNCHANGED <<conv, reqKey, expired, age, posting, approved, claim, remoteVars,
                 job, seen, verdict, elapsed>>

(* The audit row after the save is written and the task returns ...        *)
EndJob(w) ==
  /\ pc[w] = "saved"
  /\ Release(w)
  /\ UNCHANGED <<rowVars, remoteVars>>

(* ... or it is not, and the exception reaches the handler of process_run  *)
(* although everyone can already see the status that was saved.            *)
AuditFails(w) ==
  /\ LateFailures
  /\ pc[w] = "saved"
  /\ Goto(w, "failing")
  /\ UNCHANGED <<rowVars, remoteVars, job, held, seen, verdict, elapsed>>

(* Mutant: a failure is a failure.                                         *)
FailureVerdict_Plain(r) == "failed"
FailureVerdict(r) == IF claim[r] # None THEN "unknown" ELSE "failed"

(* The handler of process_run looks for an Execution, then saves the run.  *)
JudgeFailure(w) ==
  /\ pc[w] = "failing"
  /\ verdict' = [verdict EXCEPT ![w] = FailureVerdict(job[w])]
  /\ Goto(w, "judged")
  /\ UNCHANGED <<rowVars, remoteVars, job, held, seen, elapsed>>

SaveFailure(w) ==
  /\ pc[w] = "judged"
  /\ status' = [status EXCEPT ![job[w]] = verdict[w]]
  /\ proposal' = [proposal EXCEPT ![job[w]] = held[w]]
  /\ Release(w)
  /\ UNCHANGED <<conv, reqKey, expired, age, posting, approved, claim, remoteVars>>

(* The process dies or is killed at the hard limit; acks_late is off, so   *)
(* the broker does not deliver the task again.                             *)
WorkerDies(w) ==
  /\ pc[w] # "idle"
  /\ Release(w)
  /\ UNCHANGED <<rowVars, remoteVars>>

(* Time passes: a live task never outlives its hard limit.                 *)
Busy(w) == pc[w] # "idle"
Aging(r) == status[r] \in Active /\ age[r] =< SweepAfter

Tick ==
  /\ \A w \in Workers : Busy(w) => elapsed[w] < HardLimit
  /\ (\E w \in Workers : Busy(w)) \/ (\E r \in Runs : Aging(r))
  /\ elapsed' = [w \in Workers |-> IF Busy(w) THEN elapsed[w] + 1 ELSE elapsed[w]]
  /\ age' = [r \in Runs |-> IF Aging(r) THEN age[r] + 1 ELSE age[r]]
  /\ UNCHANGED <<status, conv, reqKey, proposal, expired, posting, approved, claim, remoteVars,
                 pc, job, held, seen, verdict>>

----------------------------------------------------------------------------
Manage ==
  \/ \E u \in Users, level \in Levels : SetAccess(u, level)
  \/ SaveConnection
  \/ DeleteConnection

Staff ==
  \/ \E c \in Conversations, k \in Keys : PostMessage(c, k)
  \/ \E c \in Conversations, r \in Runs : InsertRun(c, r)
  \/ \E c \in Conversations : AbortPost(c)
  \/ \E r \in Runs : Approve(r) \/ Reject(r) \/ Expire(r)

(* What a worker does by itself once it has picked a run.                  *)
WorkerStep(w) ==
  \/ StartRun(w) \/ LoseRun(w)
  \/ AnswerRun(w) \/ (\E op \in Ops : ProposeMutation(w, op))
  \/ CheckApproval(w) \/ ClaimMutation(w) \/ RecheckAccess(w)
  \/ SendMutation(w) \/ FinishMutation(w) \/ EndJob(w)
  \/ JobFails(w) \/ AuditFails(w) \/ JudgeFailure(w) \/ SaveFailure(w)

Next ==
  \/ Manage
  \/ Staff
  \/ \E w \in Workers : Drain(w) \/ WorkerStep(w) \/ WorkerDies(w)
  \/ Tick

Spec == Init /\ [][Next]_vars

(* Beat starts drain_chat every five seconds, a worker that runs takes its *)
(* next step or dies, and time passes.  Workers do not die for ever in the *)
(* instant between selecting a run and starting it (strong fairness); they *)
(* may always die later.  Nothing is asked of the people.                  *)
Fairness ==
  /\ \A w \in Workers : WF_vars(Drain(w)) /\ WF_vars(WorkerStep(w)) /\ SF_vars(StartRun(w))
  /\ WF_vars(Tick)

FairSpec == Spec /\ Fairness

----------------------------------------------------------------------------
(* Properties                                                              *)

Labels == {"idle", "picked", "planning", "checking", "claiming", "claimed", "sending",
           "replied", "saved", "failing", "judged"}

(* Every variable keeps its type; in particular no proposal and no         *)
(* fingerprint names a connection revision that was never saved.           *)
TypeOK ==
  /\ status \in [Runs -> Statuses]
  /\ conv \in [Runs -> Conversations \cup {None}]
  /\ reqKey \in [Runs -> Keys \cup {None}]
  /\ proposal \in [Runs -> Fingerprint \cup {None}]
  /\ expired \in SUBSET Runs
  /\ age \in [Runs -> 0..SweepAfter + 1]
  /\ posting \in [Conversations -> Keys \cup {None}]
  /\ approved \in [Runs -> Fingerprint \cup {None}]
  /\ claim \in [Runs -> Fingerprint \cup {None}]
  /\ applied \in [Fingerprint -> Seq(Runs)]
  /\ access \in [Users -> {"none", "read", "write"}]
  /\ revision \in 0..MaxRevision
  /\ connected \in BOOLEAN
  /\ pc \in [Workers -> Labels]
  /\ job \in [Workers -> Runs \cup {None}]
  /\ held \in [Workers -> Fingerprint \cup {None}]
  /\ seen \in [Workers -> 0..MaxRevision]
  /\ verdict \in [Workers -> {"failed", "unknown"}]
  /\ elapsed \in [Workers -> 0..HardLimit]

(* GHL applies a mutation at most once, whichever runs propose it and      *)
(* however their workers fail: services.py claims before remote I/O and    *)
(* never retries.                                                          *)
AtMostOnceMutation == \A fp \in Fingerprint : Len(applied[fp]) =< 1

(* GHL applies a mutation only for a run whose owner approved exactly that *)
(* operation under that connection.                                        *)
OnlyApprovedMutations ==
  \A fp \in Fingerprint : \A i \in DOMAIN applied[fp] : approved[applied[fp][i]] = fp

AppliedFor(r) == {fp \in Fingerprint : \E i \in DOMAIN applied[fp] : applied[fp][i] = r}

(* An approved run that says done did change the account.                  *)
DoneMeansExecuted ==
  \A r \in Runs : status[r] = "done" /\ approved[r] # None => AppliedFor(r) # {}

(* A run that says failed or rejected changed nothing, and nothing that is *)
(* still running on its behalf will: only "unknown" asks for               *)
(* reconciliation.                                                         *)
FailedMeansUntouched ==
  \A r \in Runs : status[r] \in {"failed", "rejected"} => AppliedFor(r) = {}

(* The row lock of messages() keeps a conversation to one pending run, and *)
(* a request key repeated by a client never makes a second run.            *)
OneRunPerRequest ==
  \A r, s \in Created : r # s /\ conv[r] = conv[s] =>
    /\ ~(status[r] \in Pending /\ status[s] \in Pending)
    /\ reqKey[r] # reqKey[s]

(* A status a client was told is final stays.                              *)
TerminalIsFinal ==
  [][\A r \in Runs : status[r] \in Terminal => status'[r] = status[r]]_vars

(* A run in the queue or in a worker's hands comes to rest: it is          *)
(* answered, failed, declared unknown, or waits for its owner.             *)
EveryJobSettles ==
  \A r \in Runs : status[r] \in Queued \cup Active ~> status[r] \notin Queued \cup Active

Ledger == INSTANCE ChatLedger WITH
  Requests <- Runs, Mutations <- Fingerprint, Nothing <- None, authorised <- approved

(* The chat implements the ledger.                                         *)
ImplementsLedger == Ledger!Spec
=============================================================================
