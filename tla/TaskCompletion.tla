--------------------------- MODULE TaskCompletion ---------------------------
(***************************************************************************)
(* Completing a task (backend/builds): staff mark a task done, which       *)
(* queues a read-only check of the client's GHL account; a periodic worker *)
(* claims the check, reads the account outside any lock and publishes a    *)
(* verdict if the task has not moved on (builds/ghl_verification.py).  The *)
(* meeting item a task was published from follows it (TaskViewSet in       *)
(* builds/views.py).                                                       *)
(*                                                                         *)
(* What is checked of a task, the texts and criteria staff gave it, is the *)
(* number of their last change; so are the revisions of tasks and of GHL   *)
(* connections, which the code draws at random.  NEEDS_EVIDENCE,           *)
(* FAILED_CHECK and PASSED_CHECKS, the verdicts of a check that read the   *)
(* account, are one: "CHECKED".                                            *)
(***************************************************************************)
EXTENDS Integers

CONSTANTS
  Tasks,
  Sourced,     (* the tasks published from a meeting item                  *)
  SlackTasks,  (* the tasks whose client is that of their Slack channel    *)
  Briefed,     (* the tasks with a staff brief of a client investigation   *)
  Choices,     (* the statuses staff give to tasks                         *)
  Clients,
  Workers,
  Requests,    (* the requests the server handles at the same time         *)
  MaxChanges,  (* Bound: changes to tasks, clients, connections, contexts  *)
  None

Statuses == {"TODO", "IN_PROGRESS", "BLOCKED", "DONE"}
Checks == {"", "PENDING", "PROCESSING", "NOT_CONNECTED", "ACCESS_ISSUE", "CHECKED"}

ASSUME CompletionConstants ==
  /\ Sourced \subseteq Tasks /\ SlackTasks \subseteq Tasks /\ Briefed \subseteq Tasks
  /\ Choices \subseteq Statuses
  /\ MaxChanges \in Nat
  /\ None \notin Clients \cup Tasks \cup Nat

Numbers == 0..MaxChanges
Notes == [of : Numbers, client : Clients, conn : Numbers]
NoNote == [of |-> 0, client |-> None, conn |-> None]

VARIABLES
  changes,   (* how many changes there have been                           *)
  clientOf,  (* the client of the task's build or Slack channel            *)
  conn,      (* GhlConnection.revision of each client; None: not connected *)
  status,    (* Task.status                                                *)
  version,   (* the last change staff made to its texts and criteria       *)
  rev,       (* Task.ghl_verification_revision                             *)
  check,     (* Task.ghl_verification_status                               *)
  note,      (* ghl_verification_note: what a CHECKED verdict is about     *)
  overdue,   (* tasks whose check was started more than five minutes ago   *)
  item,      (* MeetingActionItem.status of the item it was published from *)
  verdict,   (* MeetingActionItem.verification                             *)
  notices,   (* notifications of a verdict, by task and revision           *)
  at,        (* where each request is                                      *)
  held,      (* the task as the request has read it                        *)
  pc,        (* where each worker is                                       *)
  todo,      (* tasks its drain has yet to check                           *)
  seen       (* the task and connection as the worker has read them        *)

accounts == <<clientOf, conn>>
tasks    == <<status, version, rev, check, note, overdue>>
items    == <<item, verdict>>
requests == <<at, held>>
workers  == <<pc, todo, seen>>
vars     == <<changes, accounts, tasks, items, notices, requests, workers>>

NotRead == [task |-> None, status |-> "", check |-> "", rev |-> 0]
NotSeen == [task |-> None, rev |-> 0, of |-> 0, client |-> None, conn |-> None]

(* Mutant: the checklist takes over the task's own statuses.               *)
ItemStatus_Same(s) == s
ItemStatus(s) ==
  CASE s \in {"TODO", "BLOCKED"} -> "OPEN" [] OTHER -> s

(* A task created as done queues its first check; those that were done     *)
(* before there were checks have none.                                     *)
Init ==
  /\ changes = 0
  /\ clientOf \in [Tasks -> Clients \cup {None}]
  /\ conn \in [Clients -> {0, None}]
  /\ status \in [Tasks -> Choices]
  /\ check \in {f \in [Tasks -> {"", "PENDING"}] : \A t \in Tasks : f[t] = "PENDING" => status[t] = "DONE"}
  /\ version = [t \in Tasks |-> 0]
  /\ rev = [t \in Tasks |-> 0]
  /\ note = [t \in Tasks |-> NoNote]
  /\ overdue = {}
  /\ item = [t \in Sourced |-> ItemStatus(status[t])]
  /\ verdict = [t \in Sourced |-> "UNVERIFIED"]
  /\ notices = [n \in Tasks \X Numbers |-> 0]
  /\ at = [r \in Requests |-> "idle"]
  /\ held = [r \in Requests |-> NotRead]
  /\ pc = [w \in Workers |-> "idle"]
  /\ todo = [w \in Workers |-> {}]
  /\ seen = [w \in Workers |-> NotSeen]

----------------------------------------------------------------------------
(* Changes: each one has a number, and a fresh revision is that number.    *)

Change == changes < MaxChanges /\ changes' = changes + 1
Fresh == changes + 1

(* _queue_verification: a new revision, queued if the task is done.        *)
Queue(ts, queued) ==
  /\ rev' = [t \in Tasks |-> IF t \in ts THEN Fresh ELSE rev[t]]
  /\ check' = [t \in Tasks |-> IF t \in ts THEN queued ELSE check[t]]
  /\ note' = [t \in Tasks |-> IF t \in ts THEN NoNote ELSE note[t]]

(* TaskCardSerializer.update: under the task's lock, a change of its       *)
(* status or texts queues a new check or withdraws the old one.            *)
Save(t, s, edited) ==
  /\ status' = [status EXCEPT ![t] = s]
  /\ version' = IF edited THEN [version EXCEPT ![t] = Fresh] ELSE version
  /\ IF s # status[t] \/ edited
       THEN Queue({t}, IF s = "DONE" THEN "PENDING" ELSE "")
       ELSE UNCHANGED <<rev, check, note>>

(* _sync_source: the item follows the task as the request knows it.        *)
SyncSource(t, s, c) ==
  IF t \in Sourced
    THEN /\ item' = [item EXCEPT ![t] = ItemStatus(s)]
         /\ verdict' = IF c = "PENDING" \/ s # "DONE"
                         THEN [verdict EXCEPT ![t] = "UNVERIFIED"] ELSE verdict
    ELSE UNCHANGED items

(* set_status: the task and its item in one transaction.                   *)
SetStatus(t, s, edited) ==
  /\ Change
  /\ Save(t, s, edited)
  /\ SyncSource(t, s, check'[t])
  /\ UNCHANGED <<accounts, overdue, notices, requests, workers>>

(* PATCH (perform_update): the task is saved first, ...                    *)
Patch(r, t, s, edited) ==
  /\ at[r] = "idle"
  /\ Change
  /\ Save(t, s, edited)
  /\ at' = [at EXCEPT ![r] = "saved"]
  /\ held' = [held EXCEPT ![r] = [task |-> t, status |-> s, check |-> check'[t], rev |-> rev'[t]]]
  /\ UNCHANGED <<accounts, overdue, items, notices, workers>>

Return(r) ==
  /\ at' = [at EXCEPT ![r] = "idle"]
  /\ held' = [held EXCEPT ![r] = NotRead]

(* ... and the item after that, in a transaction of its own.               *)
PatchItem(r) ==
  /\ at[r] = "saved"
  /\ SyncSource(held[r].task, held[r].status, held[r].check)
  /\ Return(r)
  /\ UNCHANGED <<changes, accounts, tasks, notices, workers>>

(* POST ghl-verification: reads the task, ...                              *)
AskCheck(r, t) ==
  /\ at[r] = "idle"
  /\ status[t] = "DONE" /\ check[t] \notin {"PENDING", "PROCESSING"}
  /\ at' = [at EXCEPT ![r] = "asked"]
  /\ held' = [held EXCEPT ![r] = [task |-> t, status |-> status[t], check |-> check[t], rev |-> rev[t]]]
  /\ UNCHANGED <<changes, accounts, tasks, items, notices, workers>>

(* ... and queues a check unless the task was changed in between.          *)
QueueCheck(r) ==
  LET t == held[r].task IN
  /\ at[r] = "asked"
  /\ IF status[t] = "DONE" /\ rev[t] = held[r].rev
       THEN Change /\ Queue({t}, "PENDING")
       ELSE UNCHANGED <<changes, rev, check, note>>
  /\ Return(r)
  /\ UNCHANGED <<accounts, status, version, overdue, items, notices, workers>>

RequestDies(r) ==
  /\ at[r] # "idle"
  /\ Return(r)
  /\ UNCHANGED <<changes, accounts, tasks, items, notices, workers>>

(* PUT ghl-acceptance: new criteria.                                       *)
SetCriteria(t) ==
  /\ Change
  /\ version' = [version EXCEPT ![t] = Fresh]
  /\ IF status[t] = "DONE" THEN Queue({t}, "PENDING") ELSE UNCHANGED <<rev, check, note>>
  /\ UNCHANGED <<accounts, status, overdue, items, notices, requests, workers>>

----------------------------------------------------------------------------
(* Clients and their GHL connections.                                      *)

(* invalidate: the checks of tasks with a brief of a withdrawn             *)
(* investigation are withdrawn with it, whatever their state.              *)
Withdraw(ts) ==
  /\ Queue(ts, "")
  /\ UNCHANGED <<status, version, overdue>>

(* A build or a Slack channel is given to another client.                  *)
Remap(t, c) ==
  /\ Change
  /\ c # clientOf[t] /\ clientOf' = [clientOf EXCEPT ![t] = c]
  /\ IF t \in SlackTasks THEN \E ts \in SUBSET Briefed : Withdraw(ts) ELSE UNCHANGED tasks
  /\ UNCHANGED <<conn, items, notices, requests, workers>>

(* PUT and DELETE ghl-connection.                                          *)
SetConnection(c, n) ==
  /\ Change
  /\ conn' = [conn EXCEPT ![c] = n]
  /\ \E ts \in SUBSET Briefed : Withdraw(ts)
  /\ UNCHANGED <<clientOf, items, notices, requests, workers>>
Connect(c) == SetConnection(c, Fresh)
Disconnect(c) == conn[c] # None /\ SetConnection(c, None)

(* The other callers of invalidate.                                        *)
ContextWithdrawn ==
  /\ Change
  /\ \E ts \in SUBSET Briefed : Withdraw(ts)
  /\ UNCHANGED <<accounts, items, notices, requests, workers>>

----------------------------------------------------------------------------
(* Workers: drain() and verify().                                          *)

StartedLongAgo(t) ==
  /\ check[t] = "PROCESSING" /\ t \notin overdue
  /\ overdue' = overdue \cup {t}
  /\ UNCHANGED <<changes, accounts, status, version, rev, check, note, items, notices, requests, workers>>

(* Mutant: only a check nobody has claimed is interrupted.                 *)
Interrupted_Unclaimed == {t \in overdue : check[t] = "PENDING"}
Interrupted == {t \in overdue : check[t] = "PROCESSING"}

Sweep(w) ==
  /\ pc[w] = "idle"
  /\ pc' = [pc EXCEPT ![w] = "listing"]
  /\ check' = [t \in Tasks |-> IF t \in Interrupted THEN "ACCESS_ISSUE" ELSE check[t]]
  /\ UNCHANGED <<changes, accounts, status, version, rev, note, overdue, items, notices, requests, todo, seen>>

(* At most five tasks in the code: there are fewer here.                   *)
List(w) ==
  /\ pc[w] = "listing"
  /\ todo' = [todo EXCEPT ![w] = {t \in Tasks : status[t] = "DONE" /\ check[t] = "PENDING"}]
  /\ pc' = [pc EXCEPT ![w] = "next"]
  /\ UNCHANGED <<changes, accounts, tasks, items, notices, requests, seen>>

(* The task is read, with its build, ...                                   *)
Read(w, t) ==
  /\ pc[w] = "next" /\ t \in todo[w]
  /\ todo' = [todo EXCEPT ![w] = @ \ {t}]
  /\ IF status[t] = "DONE" /\ check[t] = "PENDING"
       THEN /\ pc' = [pc EXCEPT ![w] = "claiming"]
            /\ seen' = [seen EXCEPT ![w] = [task |-> t, rev |-> rev[t], of |-> version[t],
                                            client |-> clientOf[t], conn |-> None]]
       ELSE UNCHANGED <<pc, seen>>
  /\ UNCHANGED <<changes, accounts, tasks, items, notices, requests>>

Rest(w) ==
  /\ pc[w] = "next" /\ todo[w] = {}
  /\ pc' = [pc EXCEPT ![w] = "idle"]
  /\ UNCHANGED <<changes, accounts, tasks, items, notices, requests, todo, seen>>

(* Mutant: a check that somebody else has claimed is claimed again.        *)
Claimable_Twice(w) == status[seen[w].task] = "DONE" /\ rev[seen[w].task] = seen[w].rev
Claimable(w) ==
  /\ status[seen[w].task] = "DONE" /\ rev[seen[w].task] = seen[w].rev
  /\ check[seen[w].task] = "PENDING"

Skip(w) ==
  /\ pc' = [pc EXCEPT ![w] = "next"]
  /\ seen' = [seen EXCEPT ![w] = NotSeen]

(* ... claimed, ...                                                        *)
Claim(w) ==
  LET t == seen[w].task IN
  /\ pc[w] = "claiming"
  /\ IF Claimable(w)
       THEN /\ check' = [check EXCEPT ![t] = "PROCESSING"]
            /\ overdue' = overdue \ {t}
            /\ pc' = [pc EXCEPT ![w] = "connecting"]
            /\ UNCHANGED seen
       ELSE Skip(w) /\ UNCHANGED <<check, overdue>>
  /\ UNCHANGED <<changes, accounts, status, version, rev, note, items, notices, requests, todo>>

(* ... the connection of its client is looked up, ...                      *)
LookUp(w) ==
  LET c == IF seen[w].task \in SlackTasks THEN clientOf[seen[w].task] ELSE seen[w].client IN
  /\ pc[w] = "connecting"
  /\ seen' = [seen EXCEPT ![w].client = c, ![w].conn = IF c = None THEN None ELSE conn[c]]
  /\ pc' = [pc EXCEPT ![w] = "checking"]
  /\ UNCHANGED <<changes, accounts, tasks, items, notices, requests, todo>>

(* Mutant: the revision is not compared.                                   *)
Current_AnyRevision(w) == status[seen[w].task] = "DONE" /\ check[seen[w].task] = "PROCESSING"
Current(w) ==
  /\ status[seen[w].task] = "DONE" /\ rev[seen[w].task] = seen[w].rev
  /\ check[seen[w].task] = "PROCESSING"

(* Mutant: the task may have gone to another client.                       *)
SameAccount_AnyClient(w) == conn[seen[w].client] = seen[w].conn
SameAccount(w) == conn[seen[w].client] = seen[w].conn /\ clientOf[seen[w].task] = seen[w].client

(* ... and the account is read, outside any lock; then, under the task's   *)
(* lock, the verdict is saved with the item and a notification.            *)
Outcome(w, readable) ==
  IF seen[w].conn = None THEN "NOT_CONNECTED"
  ELSE IF readable /\ SameAccount(w) THEN "CHECKED" ELSE "ACCESS_ISSUE"

Finish(w, readable) ==
  LET t == seen[w].task IN
  /\ pc[w] = "checking"
  /\ IF Current(w)
       THEN /\ check' = [check EXCEPT ![t] = Outcome(w, readable)]
            /\ note' = [note EXCEPT ![t] =
                 IF Outcome(w, readable) = "CHECKED"
                   THEN [of |-> seen[w].of, client |-> seen[w].client, conn |-> seen[w].conn]
                   ELSE NoNote]
            /\ verdict' = IF t \in Sourced THEN [verdict EXCEPT ![t] = "NEEDS_INFO"] ELSE verdict
            /\ notices' = [notices EXCEPT ![<<t, rev[t]>>] = @ + 1]
       ELSE UNCHANGED <<check, note, verdict, notices>>
  /\ Skip(w)
  /\ UNCHANGED <<changes, accounts, status, version, rev, overdue, item, requests, todo>>

WorkerDies(w) ==
  /\ pc[w] # "idle"
  /\ pc' = [pc EXCEPT ![w] = "idle"]
  /\ todo' = [todo EXCEPT ![w] = {}]
  /\ seen' = [seen EXCEPT ![w] = NotSeen]
  /\ UNCHANGED <<changes, accounts, tasks, items, notices, requests>>

----------------------------------------------------------------------------
Staff ==
  \/ \E t \in Tasks, s \in Choices, edited \in BOOLEAN :
       SetStatus(t, s, edited) \/ \E r \in Requests : Patch(r, t, s, edited)
  \/ \E t \in Tasks : SetCriteria(t) \/ \E r \in Requests : AskCheck(r, t)
  \/ \E r \in Requests : PatchItem(r) \/ QueueCheck(r) \/ RequestDies(r)

Accounts ==
  \/ \E t \in Tasks, c \in Clients \cup {None} : Remap(t, c)
  \/ \E c \in Clients : Connect(c) \/ Disconnect(c)
  \/ ContextWithdrawn

WorkerStep(w) ==
  \/ Sweep(w) \/ List(w) \/ Rest(w) \/ Claim(w) \/ LookUp(w)
  \/ \E t \in Tasks : Read(w, t)
  \/ \E readable \in BOOLEAN : Finish(w, readable)

Next ==
  \/ Staff
  \/ Accounts
  \/ \E t \in Tasks : StartedLongAgo(t)
  \/ \E w \in Workers : WorkerStep(w) \/ WorkerDies(w)

Spec == Init /\ [][Next]_vars

(* Beat starts a drain every fifteen seconds, workers go on, time passes;  *)
(* not every drain dies between reading a task and claiming it.            *)
Fairness ==
  /\ \A w \in Workers : WF_vars(WorkerStep(w)) /\ SF_vars(Claim(w))
                    /\ SF_vars(List(w)) /\ \A t \in Tasks : SF_vars(Read(w, t))
  /\ \A t \in Tasks : WF_vars(StartedLongAgo(t))

FairSpec == Spec /\ Fairness

----------------------------------------------------------------------------
(* Properties                                                              *)

(* Every variable keeps its type, and the checklist its own statuses.      *)
TypeOK ==
  /\ changes \in Numbers
  /\ clientOf \in [Tasks -> Clients \cup {None}]
  /\ conn \in [Clients -> Numbers \cup {None}]
  /\ status \in [Tasks -> Statuses]
  /\ version \in [Tasks -> Numbers] /\ rev \in [Tasks -> Numbers]
  /\ check \in [Tasks -> Checks]
  /\ note \in [Tasks -> Notes \cup {NoNote}]
  /\ overdue \subseteq Tasks
  /\ item \in [Sourced -> {"OPEN", "IN_PROGRESS", "DONE"}]
  /\ verdict \in [Sourced -> {"UNVERIFIED", "NEEDS_INFO"}]
  /\ notices \in [Tasks \X Numbers -> Nat]
  /\ at \in [Requests -> {"idle", "saved", "asked"}]
  /\ held \in [Requests -> [task : Tasks \cup {None}, status : Statuses \cup {""},
                            check : Checks, rev : Numbers]]
  /\ pc \in [Workers -> {"idle", "listing", "next", "claiming", "connecting", "checking"}]
  /\ todo \in [Workers -> SUBSET Tasks]
  /\ seen \in [Workers -> [task : Tasks \cup {None}, rev : Numbers, of : Numbers,
                           client : Clients \cup {None}, conn : Numbers \cup {None}]]

(* A verdict shown for a task is about the texts and criteria staff have   *)
(* given it, and a task that was reopened has none, however late a worker  *)
(* comes back.                                                             *)
VerdictIsCurrent ==
  \A t \in Tasks :
    /\ check[t] # "" => status[t] = "DONE"
    /\ check[t] = "CHECKED" => note[t].of = version[t]

(* Staff are told of each completion's verdict at most once, whatever      *)
(* workers hold the same task.                                             *)
NotifiedOnce == \A n \in DOMAIN notices : notices[n] =< 1

(* A verdict comes from the account that the task's client had connected   *)
(* when it was published, never from another client's or a replaced one.   *)
CheckedOwnAccount ==
  [][\A t \in Tasks :
       check[t] # "CHECKED" /\ check'[t] = "CHECKED" =>
         /\ note'[t].client = clientOf[t]
         /\ note'[t].conn # None /\ note'[t].conn = conn[clientOf[t]]]_vars

(* A queued check ends: in a verdict, in a visible failure if its worker   *)
(* died, or because the task was changed or its context withdrawn.         *)
ChecksEnd ==
  \A t \in Tasks :
    check[t] \in {"PENDING", "PROCESSING"} ~> check[t] \notin {"PENDING", "PROCESSING"}
=============================================================================
