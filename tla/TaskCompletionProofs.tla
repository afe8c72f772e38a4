------------------------ MODULE TaskCompletionProofs ------------------------
(***************************************************************************)
(* The verdicts of GHL checks, proved for every number of tasks, clients,  *)
(* workers, requests and changes.  A verdict stands or falls with the      *)
(* task's revision: a worker that still sees the revision it has claimed   *)
(* has seen the present texts (SeenIsCurrent), and a revision that still   *)
(* waits for its verdict has not been announced (NoticeDue).               *)
(***************************************************************************)
EXTENDS TaskCompletion, TLAPS

Busy == {"claiming", "connecting", "checking"}

(* A request that is under way has a task, and so has a busy worker.       *)
InHand ==
  /\ \A r \in Requests : at[r] # "idle" => held[r].task \in Tasks /\ held[r].status \in Statuses
  /\ \A w \in Workers :
       /\ pc[w] \in Busy => seen[w].task \in Tasks
       /\ seen[w].conn # None => seen[w].client \in Clients

TypeInv == TypeOK /\ InHand

(* The same by groups of variables.                                        *)
AccountsOK ==
  /\ clientOf \in [Tasks -> Clients \cup {None}]
  /\ conn \in [Clients -> Numbers \cup {None}]
TasksOK ==
  /\ status \in [Tasks -> Statuses]
  /\ version \in [Tasks -> Numbers] /\ rev \in [Tasks -> Numbers]
  /\ check \in [Tasks -> Checks]
  /\ note \in [Tasks -> Notes \cup {NoNote}]
  /\ overdue \subseteq Tasks
ItemsOK ==
  /\ item \in [Sourced -> {"OPEN", "IN_PROGRESS", "DONE"}]
  /\ verdict \in [Sourced -> {"UNVERIFIED", "NEEDS_INFO"}]
RequestsOK ==
  /\ at \in [Requests -> {"idle", "saved", "asked"}]
  /\ held \in [Requests -> [task : Tasks \cup {None}, status : Statuses \cup {""},
                            check : Checks, rev : Numbers]]
  /\ \A r \in Requests : at[r] # "idle" => held[r].task \in Tasks /\ held[r].status \in Statuses
WorkersOK ==
  /\ pc \in [Workers -> {"idle", "listing", "next", "claiming", "connecting", "checking"}]
  /\ todo \in [Workers -> SUBSET Tasks]
  /\ seen \in [Workers -> [task : Tasks \cup {None}, rev : Numbers, of : Numbers,
                           client : Clients \cup {None}, conn : Numbers \cup {None}]]
  /\ \A w \in Workers : /\ pc[w] \in Busy => seen[w].task \in Tasks
                        /\ seen[w].conn # None => seen[w].client \in Clients

(* Revisions in use are the numbers of changes that have been.             *)
RevisionsIssued ==
  /\ \A t \in Tasks : rev[t] =< changes
  /\ \A w \in Workers : seen[w].rev =< changes
  /\ \A t \in Tasks, n \in Numbers : n > changes => notices[<<t, n>>] = 0

(* What a worker has read is current as long as the revision is.           *)
SeenIsCurrent ==
  \A w \in Workers :
    pc[w] \in Busy /\ rev[seen[w].task] = seen[w].rev /\ status[seen[w].task] = "DONE"
      => seen[w].of = version[seen[w].task]

(* A revision whose check has not ended has not been announced.            *)
NoticeDue ==
  \A t \in Tasks : check[t] \in {"PENDING", "PROCESSING"} => notices[<<t, rev[t]>>] = 0

Inv == TypeInv /\ RevisionsIssued /\ SeenIsCurrent /\ VerdictIsCurrent /\ NoticeDue /\ NotifiedOnce

----------------------------------------------------------------------------
(* Helpers.                                                                *)

(* The types hold if those of every group do.                              *)
LEMMA Parts ==
  ASSUME changes' \in Numbers, AccountsOK', TasksOK', ItemsOK', RequestsOK', WorkersOK',
         notices' \in [Tasks \X Numbers -> Nat]
  PROVE  TypeInv'
<1>1. TypeOK'
  BY DEF TypeOK, AccountsOK, TasksOK, ItemsOK, RequestsOK, WorkersOK
<1>2. InHand'
  BY DEF InHand, RequestsOK, WorkersOK
<1> QED BY <1>1, <1>2 DEF TypeInv

(* A group that a step leaves alone keeps its types.                       *)
LEMMA Frame ==
  ASSUME TypeInv
  PROVE  /\ UNCHANGED changes => changes' \in Numbers
         /\ UNCHANGED accounts => AccountsOK'
         /\ UNCHANGED tasks => TasksOK'
         /\ UNCHANGED items => ItemsOK'
         /\ UNCHANGED requests => RequestsOK'
         /\ UNCHANGED workers => WorkersOK'
         /\ UNCHANGED notices => notices' \in [Tasks \X Numbers -> Nat]
<1>1. /\ UNCHANGED changes => changes' \in Numbers
      /\ UNCHANGED notices => notices' \in [Tasks \X Numbers -> Nat]
  BY DEF TypeInv, TypeOK
<1>2. UNCHANGED accounts => AccountsOK'
  BY DEF TypeInv, TypeOK, accounts, AccountsOK
<1>3. UNCHANGED tasks => TasksOK'
  BY DEF TypeInv, TypeOK, tasks, TasksOK
<1>4. UNCHANGED items => ItemsOK'
  BY DEF TypeInv, TypeOK, items, ItemsOK
<1>5. UNCHANGED requests => RequestsOK'
  BY DEF TypeInv, TypeOK, InHand, requests, RequestsOK
<1>6. UNCHANGED workers => WorkersOK'
  BY DEF TypeInv, TypeOK, InHand, workers, WorkersOK
<1> QED BY <1>1, <1>2, <1>3, <1>4, <1>5, <1>6

(* The checklist has a status for each status of a task.                   *)
LEMMA ItemStatusType ==
  ASSUME NEW s \in Statuses
  PROVE  ItemStatus(s) \in {"OPEN", "IN_PROGRESS", "DONE"}
BY DEF ItemStatus, Statuses

(* The number of a change is one of the bounded numbers.                   *)
LEMMA ChangeType ==
  ASSUME TypeOK, Change
  PROVE  changes' \in Numbers /\ Fresh \in Numbers
<1>1. changes \in Numbers
  BY DEF TypeOK
<1>2. MaxChanges \in Nat
  BY CompletionConstants
<1> QED BY <1>1, <1>2 DEF Change, Fresh, Numbers

(* A fresh revision keeps the types.                                       *)
LEMMA QueueType ==
  ASSUME TypeOK, Change, NEW ts, NEW queued \in {"", "PENDING"}, Queue(ts, queued)
  PROVE  /\ rev' \in [Tasks -> Numbers]
         /\ check' \in [Tasks -> Checks]
         /\ note' \in [Tasks -> Notes \cup {NoNote}]
         /\ changes' \in Numbers /\ Fresh \in Numbers
<1>1. changes' \in Numbers /\ Fresh \in Numbers
  BY ChangeType
<1>2. rev' \in [Tasks -> Numbers]
  BY <1>1 DEF Queue, TypeOK
<1>3. check' \in [Tasks -> Checks]
  BY DEF Queue, TypeOK, Checks
<1>4. note' \in [Tasks -> Notes \cup {NoNote}]
  BY DEF Queue, TypeOK
<1> QED BY <1>1, <1>2, <1>3, <1>4

(* Saving a task keeps the types.                                          *)
LEMMA SaveType ==
  ASSUME TypeOK, Change, NEW t \in Tasks, NEW s \in Choices, NEW edited \in BOOLEAN, Save(t, s, edited)
  PROVE  /\ rev' \in [Tasks -> Numbers]
         /\ check' \in [Tasks -> Checks]
         /\ note' \in [Tasks -> Notes \cup {NoNote}]
         /\ changes' \in Numbers
         /\ status' \in [Tasks -> Statuses]
         /\ version' \in [Tasks -> Numbers]
         /\ s \in Statuses
<1>1. s \in Statuses
  BY CompletionConstants
<1>2. status' \in [Tasks -> Statuses]
  BY <1>1 DEF Save, TypeOK
<1>3. changes' \in Numbers /\ Fresh \in Numbers
  BY ChangeType
<1>4. version' \in [Tasks -> Numbers]
  BY <1>3 DEF Save, TypeOK
<1>5. CASE s # status[t] \/ edited
  <2>1. PICK queued \in {"", "PENDING"} : Queue({t}, queued)
    BY <1>5 DEF Save
  <2> QED BY <2>1, QueueType, <1>1, <1>2, <1>3, <1>4
<1>6. CASE ~(s # status[t] \/ edited)
  BY <1>1, <1>2, <1>3, <1>4, <1>6 DEF Save, TypeOK
<1> QED BY <1>5, <1>6

(* Synchronising an item keeps the types.                                  *)
LEMMA SyncType ==
  ASSUME TypeOK, NEW t \in Tasks, NEW s \in Statuses, NEW c, SyncSource(t, s, c)
  PROVE  /\ item' \in [Sourced -> {"OPEN", "IN_PROGRESS", "DONE"}]
         /\ verdict' \in [Sourced -> {"UNVERIFIED", "NEEDS_INFO"}]
BY ItemStatusType DEF SyncSource, TypeOK, items

(* A request that ends leaves nothing behind.                              *)
LEMMA ReturnType ==
  ASSUME TypeInv, NEW r \in Requests, Return(r)
  PROVE  /\ at' \in [Requests -> {"idle", "saved", "asked"}]
         /\ held' \in [Requests -> [task : Tasks \cup {None}, status : Statuses \cup {""},
                                   check : Checks, rev : Numbers]]
         /\ \A q \in Requests : at'[q] # "idle" => held'[q].task \in Tasks /\ held'[q].status \in Statuses
<1>1. 0 \in Numbers
  BY CompletionConstants DEF Numbers
<1>2. NotRead \in [task : Tasks \cup {None}, status : Statuses \cup {""}, check : Checks, rev : Numbers]
  BY <1>1 DEF NotRead, Checks
<1> QED BY <1>2 DEF Return, TypeInv, TypeOK, InHand

(* A worker that drops a task holds nothing.                               *)
LEMMA SkipType ==
  ASSUME TypeInv, NEW w \in Workers, todo' \in [Workers -> SUBSET Tasks],
         pc' = [pc EXCEPT ![w] = "idle"] \/ pc' = [pc EXCEPT ![w] = "next"],
         seen' = [seen EXCEPT ![w] = NotSeen]
  PROVE  WorkersOK'
<1>1. 0 \in Numbers
  BY CompletionConstants DEF Numbers
<1>2. NotSeen \in [task : Tasks \cup {None}, rev : Numbers, of : Numbers,
                  client : Clients \cup {None}, conn : Numbers \cup {None}]
      /\ NotSeen.conn = None
  BY <1>1 DEF NotSeen
<1>3. pc' \in [Workers -> {"idle", "listing", "next", "claiming", "connecting", "checking"}]
      /\ seen' \in [Workers -> [task : Tasks \cup {None}, rev : Numbers, of : Numbers,
                                client : Clients \cup {None}, conn : Numbers \cup {None}]]
  BY <1>2 DEF TypeInv, TypeOK
<1>4. \A v \in Workers : /\ pc'[v] \in Busy => seen'[v].task \in Tasks
                         /\ seen'[v].conn # None => seen'[v].client \in Clients
  <2>1. /\ pc \in [Workers -> {"idle", "listing", "next", "claiming", "connecting", "checking"}]
        /\ seen \in [Workers -> [task : Tasks \cup {None}, rev : Numbers, of : Numbers,
                                 client : Clients \cup {None}, conn : Numbers \cup {None}]]
        /\ \A v \in Workers : pc[v] \in Busy => seen[v].task \in Tasks
        /\ \A v \in Workers : seen[v].conn # None => seen[v].client \in Clients
    BY DEF TypeInv, TypeOK, InHand
  <2>2. pc'[w] \notin Busy /\ seen'[w].conn = None
    BY <1>2, <2>1 DEF Busy
  <2>3. \A v \in Workers : v # w => pc'[v] = pc[v] /\ seen'[v] = seen[v]
    BY <2>1
  <2> QED BY <2>1, <2>2, <2>3
<1> QED BY <1>3, <1>4 DEF WorkersOK

----------------------------------------------------------------------------
(* The inductive invariant.                                                *)

LEMMA InitInv == Init => Inv
<1> SUFFICES ASSUME Init PROVE Inv
  OBVIOUS
<1>1. 0 \in Numbers /\ changes = 0
  <2>1. 0 \in Numbers
    BY CompletionConstants DEF Numbers
  <2> QED BY <2>1 DEF Init
<1>2. item \in [Sourced -> {"OPEN", "IN_PROGRESS", "DONE"}] /\ status \in [Tasks -> Statuses]
  BY CompletionConstants, ItemStatusType DEF Init
<1>3. conn \in [Clients -> Numbers \cup {None}] /\ clientOf \in [Tasks -> Clients \cup {None}]
  BY <1>1 DEF Init
<1>4. /\ version \in [Tasks -> Numbers] /\ rev \in [Tasks -> Numbers]
      /\ notices \in [Tasks \X Numbers -> Nat]
      /\ seen \in [Workers -> [task : Tasks \cup {None}, rev : Numbers, of : Numbers,
                               client : Clients \cup {None}, conn : Numbers \cup {None}]]
  BY <1>1 DEF Init, NotSeen
<1>5. /\ check \in [Tasks -> Checks]
      /\ note \in [Tasks -> Notes \cup {NoNote}]
      /\ held \in [Requests -> [task : Tasks \cup {None}, status : Statuses \cup {""},
                                check : Checks, rev : Numbers]]
  BY <1>1 DEF Init, NotRead, Checks
<1>6. TypeOK
  BY <1>1, <1>2, <1>3, <1>4, <1>5 DEF Init, TypeOK
<1>7. InHand
  BY DEF Init, InHand, Busy, NotSeen
<1>8. RevisionsIssued /\ NoticeDue /\ NotifiedOnce
  <2>1. \A t \in Tasks : rev[t] = 0
    BY DEF Init
  <2>2. \A w \in Workers : seen[w].rev = 0
    BY DEF Init, NotSeen
  <2>3. \A t \in Tasks, n \in Numbers : notices[<<t, n>>] = 0
    BY DEF Init
  <2>4. DOMAIN notices = Tasks \X Numbers
    BY DEF Init
  <2> QED BY <1>1, <2>1, <2>2, <2>3, <2>4 DEF RevisionsIssued, NoticeDue, NotifiedOnce
<1>9. SeenIsCurrent /\ VerdictIsCurrent
  BY DEF Init, SeenIsCurrent, VerdictIsCurrent, Busy
<1> QED BY <1>6, <1>7, <1>8, <1>9 DEF Inv, TypeInv

(* Every step keeps the types.                                             *)
LEMMA TypeStep == TypeInv /\ [Next]_vars => TypeInv'
<1> SUFFICES ASSUME TypeInv, [Next]_vars PROVE TypeInv'
  OBVIOUS
<1> USE DEF TypeInv
<1>1. ASSUME NEW t \in Tasks, NEW s \in Choices, NEW edited \in BOOLEAN, SetStatus(t, s, edited)
      PROVE  TypeInv'
  <2>1. Change /\ Save(t, s, edited) /\ SyncSource(t, s, check'[t])
    BY <1>1 DEF SetStatus
  <2>2. UNCHANGED <<accounts, overdue, notices, requests, workers>>
    BY <1>1 DEF SetStatus
  <2>3. s \in Statuses
    BY CompletionConstants
  <2>4. changes' \in Numbers /\ TasksOK'
    <3>1. overdue' \subseteq Tasks
      BY <2>2 DEF TypeOK
    <3> QED BY <2>1, <3>1, SaveType DEF TasksOK
  <2>5. ItemsOK'
    <3> HIDE DEF TypeInv
    <3> QED BY <2>1, <2>3, SyncType DEF ItemsOK, TypeInv
  <2> QED BY <2>2, <2>4, <2>5, Frame, Parts
<1>2. ASSUME NEW r \in Requests, NEW t \in Tasks, NEW s \in Choices, NEW edited \in BOOLEAN,
             Patch(r, t, s, edited)
      PROVE  TypeInv'
  <2>1. Change /\ Save(t, s, edited)
    BY <1>2 DEF Patch
  <2>2. UNCHANGED <<accounts, overdue, items, notices, workers>>
    BY <1>2 DEF Patch
  <2>3. [task |-> t, status |-> s, check |-> check'[t], rev |-> rev'[t]]
          \in [task : Tasks \cup {None}, status : Statuses \cup {""}, check : Checks, rev : Numbers]
    BY <2>1, SaveType
  <2>4. /\ held' \in [Requests -> [task : Tasks \cup {None}, status : Statuses \cup {""},
                                 check : Checks, rev : Numbers]]
        /\ at' \in [Requests -> {"idle", "saved", "asked"}]
        /\ \A q \in Requests : at'[q] # "idle" => held'[q].task \in Tasks /\ held'[q].status \in Statuses
    BY <1>2, <2>1, <2>3, SaveType DEF Patch, TypeOK, InHand
  <2>5. changes' \in Numbers /\ TasksOK'
    <3>1. overdue' \subseteq Tasks
      BY <2>2 DEF TypeOK
    <3> QED BY <2>1, <3>1, SaveType DEF TasksOK
  <2>6. RequestsOK'
    BY <2>4 DEF RequestsOK
  <2> QED BY <2>2, <2>5, <2>6, Frame, Parts
<1>3. ASSUME NEW r \in Requests, PatchItem(r)
      PROVE  TypeInv'
  <2>1. SyncSource(held[r].task, held[r].status, held[r].check)
        /\ held[r].task \in Tasks /\ held[r].status \in Statuses
    BY <1>3 DEF PatchItem, InHand, TypeOK
  <2>2. Return(r) /\ UNCHANGED <<changes, accounts, tasks, notices, workers>>
    BY <1>3 DEF PatchItem
  <2> QED BY <2>1, <2>2, SyncType, ReturnType
          DEF TypeOK, InHand, accounts, tasks, workers
<1>4. ASSUME NEW r \in Requests, NEW t \in Tasks, AskCheck(r, t)
      PROVE  TypeInv'
  <2>1. [task |-> t, status |-> status[t], check |-> check[t], rev |-> rev[t]]
          \in [task : Tasks \cup {None}, status : Statuses \cup {""}, check : Checks, rev : Numbers]
    BY DEF TypeOK
  <2>2. UNCHANGED <<changes, accounts, tasks, items, notices, workers>>
    BY <1>4 DEF AskCheck
  <2>3. /\ held' \in [Requests -> [task : Tasks \cup {None}, status : Statuses \cup {""},
                                 check : Checks, rev : Numbers]]
        /\ at' \in [Requests -> {"idle", "saved", "asked"}]
        /\ \A q \in Requests : at'[q] # "idle" => held'[q].task \in Tasks /\ held'[q].status \in Statuses
    BY <1>4, <2>1 DEF AskCheck, TypeOK, InHand
  <2> QED BY <2>2, <2>3 DEF TypeOK, InHand, accounts, tasks, items, workers
<1>5. ASSUME NEW r \in Requests, QueueCheck(r)
      PROVE  TypeInv'
  <2>1. \/ Change /\ Queue({held[r].task}, "PENDING")
        \/ UNCHANGED <<changes, rev, check, note>>
    BY <1>5 DEF QueueCheck
  <2>2. Return(r) /\ UNCHANGED <<accounts, status, version, overdue, items, notices, workers>>
    BY <1>5 DEF QueueCheck
  <2>3. /\ rev' \in [Tasks -> Numbers] /\ check' \in [Tasks -> Checks]
        /\ note' \in [Tasks -> Notes \cup {NoNote}] /\ changes' \in Numbers
    BY <2>1, QueueType DEF TypeOK
  <2> QED BY <2>2, <2>3, ReturnType DEF TypeOK, InHand, accounts, items, workers
<1>6. ASSUME NEW r \in Requests, RequestDies(r)
      PROVE  TypeInv'
  <2>1. Return(r) /\ UNCHANGED <<changes, accounts, tasks, items, notices, workers>>
    BY <1>6 DEF RequestDies
  <2> QED BY <2>1, ReturnType DEF TypeOK, InHand, accounts, tasks, items, workers
<1>7. ASSUME NEW t \in Tasks, SetCriteria(t)
      PROVE  TypeInv'
  <2>1. Change /\ UNCHANGED <<accounts, status, overdue, items, notices, requests, workers>>
    BY <1>7 DEF SetCriteria
  <2>2. Queue({t}, "PENDING") \/ UNCHANGED <<rev, check, note>>
    BY <1>7 DEF SetCriteria
  <2>3. /\ rev' \in [Tasks -> Numbers] /\ check' \in [Tasks -> Checks]
        /\ note' \in [Tasks -> Notes \cup {NoNote}] /\ changes' \in Numbers
    BY <2>1, <2>2, QueueType, ChangeType DEF TypeOK
  <2>4. version' \in [Tasks -> Numbers]
    BY <1>7, <2>1, ChangeType DEF SetCriteria, TypeOK
  <2> QED BY <2>1, <2>3, <2>4 DEF TypeOK, InHand, accounts, items, requests, workers
<1>8. ASSUME Change, NEW ts \in SUBSET Briefed, Withdraw(ts),
             clientOf' \in [Tasks -> Clients \cup {None}], conn' \in [Clients -> Numbers \cup {None}],
             UNCHANGED <<items, notices, requests, workers>>
      PROVE  TypeInv'
  <2>1. /\ rev' \in [Tasks -> Numbers] /\ check' \in [Tasks -> Checks]
        /\ note' \in [Tasks -> Notes \cup {NoNote}] /\ changes' \in Numbers
    BY <1>8, QueueType DEF Withdraw
  <2>2. UNCHANGED <<status, version, overdue>>
    BY <1>8 DEF Withdraw
  <2> QED BY <1>8, <2>1, <2>2 DEF TypeOK, InHand, items, requests, workers
<1>9. ASSUME NEW t \in Tasks, NEW c \in Clients \cup {None}, Remap(t, c)
      PROVE  TypeInv'
  <2>1. /\ Change /\ UNCHANGED <<conn, items, notices, requests, workers>>
        /\ clientOf' \in [Tasks -> Clients \cup {None}]
    BY <1>9 DEF Remap, TypeOK
  <2>2. CASE \E ts \in SUBSET Briefed : Withdraw(ts)
    BY <1>8, <2>1, <2>2 DEF TypeOK
  <2>3. CASE UNCHANGED tasks
    BY <2>1, <2>3, ChangeType DEF TypeOK, InHand, tasks, items, requests, workers
  <2> QED BY <1>9, <2>2, <2>3 DEF Remap
<1>10. ASSUME NEW c \in Clients, NEW n \in Numbers \cup {None}, SetConnection(c, n)
       PROVE  TypeInv'
  <2>1. /\ Change /\ UNCHANGED <<clientOf, items, notices, requests, workers>>
        /\ conn' \in [Clients -> Numbers \cup {None}]
    BY <1>10 DEF SetConnection, TypeOK
  <2> QED BY <1>8, <1>10, <2>1 DEF SetConnection, TypeOK
<1>11. ASSUME NEW c \in Clients, Connect(c) \/ Disconnect(c)
       PROVE  TypeInv'
  <2>1. CASE Connect(c)
    <3>1. Change
      BY <2>1 DEF Connect, SetConnection
    <3> QED BY <1>10, <2>1, <3>1, ChangeType DEF Connect
  <2> QED BY <1>10, <1>11, <2>1 DEF Disconnect
<1>12. ASSUME ContextWithdrawn
       PROVE  TypeInv'
  BY <1>8, <1>12 DEF ContextWithdrawn, TypeOK, accounts
<1>13. ASSUME NEW t \in Tasks, StartedLongAgo(t)
       PROVE  TypeInv'
  BY <1>13 DEF StartedLongAgo, TypeOK, InHand, accounts, items, requests, workers
<1>14. ASSUME NEW w \in Workers, Sweep(w)
       PROVE  TypeInv'
  <2>1. check' \in [Tasks -> Checks]
    BY <1>14 DEF Sweep, TypeOK, Checks
  <2>2. pc' \in [Workers -> {"idle", "listing", "next", "claiming", "connecting", "checking"}]
        /\ \A v \in Workers : pc'[v] \in Busy => pc[v] \in Busy
    BY <1>14 DEF Sweep, TypeOK, Busy
  <2>3. UNCHANGED <<changes, accounts, status, version, rev, note, overdue, items, notices, requests, todo, seen>>
    BY <1>14 DEF Sweep
  <2> QED BY <2>1, <2>2, <2>3 DEF TypeOK, InHand, accounts, items, requests
<1>15. ASSUME NEW w \in Workers, List(w)
       PROVE  TypeInv'
  <2>1. pc' \in [Workers -> {"idle", "listing", "next", "claiming", "connecting", "checking"}]
        /\ todo' \in [Workers -> SUBSET Tasks]
        /\ \A v \in Workers : pc'[v] \in Busy => pc[v] \in Busy
    BY <1>15 DEF List, TypeOK, Busy
  <2>2. UNCHANGED <<changes, accounts, tasks, items, notices, requests, seen>>
    BY <1>15 DEF List
  <2> QED BY <2>1, <2>2 DEF TypeOK, InHand, accounts, tasks, items, requests
<1>16. ASSUME NEW w \in Workers, NEW t \in Tasks, Read(w, t)
       PROVE  TypeInv'
  <2>1. [task |-> t, rev |-> rev[t], of |-> version[t], client |-> clientOf[t], conn |-> None]
          \in [task : Tasks \cup {None}, rev : Numbers, of : Numbers,
              client : Clients \cup {None}, conn : Numbers \cup {None}]
    BY DEF TypeOK
  <2>2. todo' \in [Workers -> SUBSET Tasks]
    BY <1>16 DEF Read, TypeOK
  <2>3. UNCHANGED <<changes, accounts, tasks, items, notices, requests>>
    BY <1>16 DEF Read
  <2>4. CASE UNCHANGED <<pc, seen>>
    <3>1. WorkersOK'
      BY <2>2, <2>4 DEF TypeOK, InHand, WorkersOK
    <3> QED BY <2>3, <3>1, Frame, Parts
  <2>5. CASE /\ pc' = [pc EXCEPT ![w] = "claiming"]
             /\ seen' = [seen EXCEPT ![w] = [task |-> t, rev |-> rev[t], of |-> version[t],
                                             client |-> clientOf[t], conn |-> None]]
    <3>1. seen' \in [Workers -> [task : Tasks \cup {None}, rev : Numbers, of : Numbers,
                                 client : Clients \cup {None}, conn : Numbers \cup {None}]]
      BY <2>1, <2>5 DEF TypeOK
    <3>2. pc' \in [Workers -> {"idle", "listing", "next", "claiming", "connecting", "checking"}]
      BY <2>5 DEF TypeOK
    <3>3. \A v \in Workers : /\ pc'[v] \in Busy => seen'[v].task \in Tasks
                             /\ seen'[v].conn # None => seen'[v].client \in Clients
      BY <2>5 DEF TypeOK, InHand
    <3>4. WorkersOK'
      BY <2>2, <3>1, <3>2, <3>3 DEF WorkersOK
    <3> QED BY <2>3, <3>4, Frame, Parts
  <2> QED BY <1>16, <2>4, <2>5 DEF Read
<1>17. ASSUME NEW w \in Workers, Rest(w)
       PROVE  TypeInv'
  <2>1. pc' \in [Workers -> {"idle", "listing", "next", "claiming", "connecting", "checking"}]
        /\ \A v \in Workers : pc'[v] \in Busy => pc[v] \in Busy
    BY <1>17 DEF Rest, TypeOK, Busy
  <2>2. UNCHANGED <<changes, accounts, tasks, items, notices, requests, todo, seen>>
    BY <1>17 DEF Rest
  <2> QED BY <2>1, <2>2 DEF TypeOK, InHand, accounts, tasks, items, requests
<1>18. ASSUME NEW w \in Workers, Claim(w)
       PROVE  TypeInv'
  <2>1. UNCHANGED <<changes, accounts, status, version, rev, note, items, notices, requests, todo>>
    BY <1>18 DEF Claim
  <2>2. CASE Claimable(w)
    <3>1. check' \in [Tasks -> Checks] /\ overdue' \subseteq Tasks
      BY <1>18, <2>2 DEF Claim, TypeOK, Checks
    <3>2. /\ pc' \in [Workers -> {"idle", "listing", "next", "claiming", "connecting", "checking"}]
          /\ UNCHANGED seen
          /\ \A v \in Workers : pc'[v] \in Busy => pc[v] \in Busy
      BY <1>18, <2>2 DEF Claim, TypeOK, Busy
    <3> QED BY <2>1, <3>1, <3>2 DEF TypeOK, InHand, accounts, items, requests
  <2>3. CASE ~Claimable(w)
    <3>1. Skip(w) /\ UNCHANGED <<check, overdue>>
      BY <1>18, <2>3 DEF Claim
    <3>2. WorkersOK'
      <4>1. todo' \in [Workers -> SUBSET Tasks]
        BY <2>1 DEF TypeOK
      <4> QED BY <3>1, <4>1, SkipType DEF Skip
    <3>3. UNCHANGED tasks
      BY <2>1, <3>1 DEF tasks
    <3> QED BY <2>1, <3>2, <3>3, Frame, Parts
  <2> QED BY <2>2, <2>3
<1>19. ASSUME NEW w \in Workers, LookUp(w)
       PROVE  TypeInv'
  <2> DEFINE c == IF seen[w].task \in SlackTasks THEN clientOf[seen[w].task] ELSE seen[w].client
             k == IF c = None THEN None ELSE conn[c]
  <2>1. UNCHANGED <<changes, accounts, tasks, items, notices, requests, todo>>
    BY <1>19 DEF LookUp
  <2>2. pc[w] = "checking" \/ seen[w].task \in Tasks
    BY <1>19 DEF LookUp, InHand, Busy
  <2>3. c \in Clients \cup {None} /\ k \in Numbers \cup {None} /\ (k # None => c \in Clients)
    BY <1>19, CompletionConstants DEF LookUp, TypeOK
  <2>4. seen' = [seen EXCEPT ![w] = [seen[w] EXCEPT !.client = c, !.conn = k]]
    BY <1>19 DEF LookUp, TypeOK
  <2>5. /\ seen' \in [Workers -> [task : Tasks \cup {None}, rev : Numbers, of : Numbers,
                                 client : Clients \cup {None}, conn : Numbers \cup {None}]]
        /\ \A v \in Workers : /\ seen'[v].task = seen[v].task
                              /\ seen'[v].conn # None => seen'[v].client \in Clients
    <3>1. seen \in [Workers -> [task : Tasks \cup {None}, rev : Numbers, of : Numbers,
                                client : Clients \cup {None}, conn : Numbers \cup {None}]]
          /\ \A v \in Workers : seen[v].conn # None => seen[v].client \in Clients
      BY DEF TypeOK, InHand
    <3> HIDE DEF c, k, TypeInv
    <3>2. \A v \in Workers : v # w => seen'[v] = seen[v]
      BY <2>4, <3>1
    <3>3. seen'[w] = [task |-> seen[w].task, rev |-> seen[w].rev, of |-> seen[w].of, client |-> c, conn |-> k]
      BY <2>4, <3>1
    <3>4. seen' \in [Workers -> [task : Tasks \cup {None}, rev : Numbers, of : Numbers,
                                 client : Clients \cup {None}, conn : Numbers \cup {None}]]
      <4>1. [task |-> seen[w].task, rev |-> seen[w].rev, of |-> seen[w].of, client |-> c, conn |-> k]
              \in [task : Tasks \cup {None}, rev : Numbers, of : Numbers,
                  client : Clients \cup {None}, conn : Numbers \cup {None}]
        BY <2>3, <3>1
      <4>2. seen' = [seen EXCEPT ![w] =
                      [task |-> seen[w].task, rev |-> seen[w].rev, of |-> seen[w].of, client |-> c, conn |-> k]]
        BY <2>4, <3>1, <3>3
      <4> QED BY <3>1, <4>1, <4>2
    <3> QED BY <2>3, <3>1, <3>2, <3>3, <3>4
  <2>6. pc' \in [Workers -> {"idle", "listing", "next", "claiming", "connecting", "checking"}]
        /\ \A v \in Workers : pc'[v] \in Busy => pc[v] \in Busy
    BY <1>19 DEF LookUp, TypeOK, Busy
  <2>7. todo' \in [Workers -> SUBSET Tasks]
    BY <2>1 DEF TypeOK
  <2>8. WorkersOK'
    <3>1. \A v \in Workers : pc'[v] \in Busy => seen'[v].task \in Tasks
      BY <2>5, <2>6 DEF InHand
    <3> QED BY <2>5, <2>6, <2>7, <3>1 DEF WorkersOK
  <2> QED BY <2>1, <2>8, Frame, Parts
<1>20. ASSUME NEW w \in Workers, NEW readable \in BOOLEAN, Finish(w, readable)
       PROVE  TypeInv'
  <2>1. Skip(w) /\ UNCHANGED <<changes, accounts, status, version, rev, overdue, item, requests, todo>>
    BY <1>20 DEF Finish
  <2>2. pc[w] = "checking" /\ seen[w].task \in Tasks
    BY <1>20 DEF Finish, InHand, Busy
  <2>5. WorkersOK'
    <3>1. todo' \in [Workers -> SUBSET Tasks]
      BY <2>1 DEF TypeOK
    <3> QED BY <2>1, <3>1, SkipType DEF Skip
  <2>3. CASE Current(w)
    <3>1. check' \in [Tasks -> Checks]
      BY <1>20, <2>3 DEF Finish, Outcome, TypeOK, Checks
    <3>2. Outcome(w, readable) = "CHECKED" =>
            [of |-> seen[w].of, client |-> seen[w].client, conn |-> seen[w].conn] \in Notes
      BY DEF Outcome, TypeOK, InHand, Notes
    <3>3. note' \in [Tasks -> Notes \cup {NoNote}]
      BY <1>20, <2>3, <3>2 DEF Finish, TypeOK
    <3>4. verdict' \in [Sourced -> {"UNVERIFIED", "NEEDS_INFO"}]
      BY <1>20, <2>3 DEF Finish, TypeOK
    <3>5. notices' \in [Tasks \X Numbers -> Nat]
      <4>1. notices' = [notices EXCEPT ![<<seen[w].task, rev[seen[w].task]>>] = @ + 1]
        BY <1>20, <2>3 DEF Finish
      <4>2. notices \in [Tasks \X Numbers -> Nat]
            /\ <<seen[w].task, rev[seen[w].task]>> \in Tasks \X Numbers
        BY <2>2 DEF TypeOK
      <4> QED BY <4>1, <4>2
    <3>6. TasksOK'
      BY <2>1, <3>1, <3>3 DEF TypeOK, TasksOK
    <3>7. ItemsOK'
      BY <2>1, <3>4 DEF TypeOK, ItemsOK
    <3> QED BY <2>1, <2>5, <3>5, <3>6, <3>7, Frame, Parts
  <2>4. CASE ~Current(w)
    <3>1. UNCHANGED <<check, note, verdict, notices>>
      BY <1>20, <2>4 DEF Finish
    <3>2. UNCHANGED <<tasks, items>>
      BY <2>1, <3>1 DEF tasks, items
    <3> QED BY <2>1, <2>5, <3>1, <3>2, Frame, Parts
  <2> QED BY <2>3, <2>4
<1>21. ASSUME NEW w \in Workers, WorkerDies(w)
       PROVE  TypeInv'
  <2>1. todo' \in [Workers -> SUBSET Tasks]
    BY <1>21 DEF WorkerDies, TypeOK
  <2>2. UNCHANGED <<changes, accounts, tasks, items, notices, requests>>
    BY <1>21 DEF WorkerDies
  <2>3. pc' = [pc EXCEPT ![w] = "idle"] /\ seen' = [seen EXCEPT ![w] = NotSeen]
    BY <1>21 DEF WorkerDies
  <2>4. WorkersOK'
    BY <2>1, <2>3, SkipType
  <2> QED BY <2>2, <2>4, Frame, Parts
<1>22. CASE UNCHANGED vars
  BY <1>22 DEF TypeOK, InHand, vars, accounts, tasks, items, requests, workers
<1> QED BY <1>1, <1>2, <1>3, <1>4, <1>5, <1>6, <1>7, <1>9, <1>11, <1>12, <1>13, <1>14, <1>15, <1>16,
           <1>17, <1>18, <1>19, <1>20, <1>21, <1>22 DEF Next, Staff, Accounts, WorkerStep

----------------------------------------------------------------------------
(* Every step but the publication of a verdict is one of two kinds.        *)

(* Some tasks get a fresh revision; the others are not edited while done.  *)
Requeued ==
  /\ Change
  /\ UNCHANGED <<notices, pc, seen>>
  /\ \A t \in Tasks :
       \/ /\ rev'[t] = Fresh
          /\ check'[t] \in {"", "PENDING"}
          /\ check'[t] = "PENDING" => status'[t] = "DONE"
       \/ /\ rev'[t] = rev[t] /\ check'[t] = check[t]
          /\ note'[t] = note[t] /\ status'[t] = status[t]
          /\ version'[t] = version[t] \/ status[t] # "DONE"

(* A check is claimed or interrupted, a task is read or put away.          *)
Worked ==
  /\ UNCHANGED <<changes, status, version, rev, note, notices>>
  /\ \A t \in Tasks :
       \/ check'[t] = check[t]
       \/ check[t] \in {"PENDING", "PROCESSING"} /\ check'[t] \in {"PROCESSING", "ACCESS_ISSUE"}
  /\ \A w \in Workers :
       \/ pc'[w] \notin Busy /\ seen'[w].rev \in {0, seen[w].rev}
       \/ /\ pc[w] \in Busy
          /\ seen'[w].task = seen[w].task /\ seen'[w].rev = seen[w].rev /\ seen'[w].of = seen[w].of
       \/ /\ seen'[w].task \in Tasks
          /\ seen'[w].rev = rev[seen'[w].task] /\ seen'[w].of = version[seen'[w].task]

(* What the arguments below need of the types.                             *)
LEMMA Ranges ==
  ASSUME TypeInv
  PROVE  /\ changes \in Nat /\ Numbers \subseteq Nat
         /\ \A t \in Tasks : rev[t] \in Numbers
         /\ \A w \in Workers : seen[w].rev \in Numbers /\ (pc[w] \in Busy => seen[w].task \in Tasks)
<1>1. Numbers \subseteq Nat
  BY CompletionConstants DEF Numbers
<1>2. /\ changes \in Numbers
      /\ \A t \in Tasks : rev[t] \in Numbers
      /\ \A w \in Workers : seen[w].rev \in Numbers
  BY DEF TypeInv, TypeOK
<1>3. \A w \in Workers : pc[w] \in Busy => seen[w].task \in Tasks
  BY DEF TypeInv, InHand
<1> QED BY <1>1, <1>2, <1>3

(* A fresh revision is nobody's, so nothing said about the old one counts. *)
LEMMA RequeueStep ==
  ASSUME Inv, TypeInv', Requeued
  PROVE  Inv'
<1>1. /\ changes \in Nat /\ Numbers \subseteq Nat
      /\ \A t \in Tasks : rev[t] \in Nat
      /\ \A w \in Workers : seen[w].rev \in Nat /\ (pc[w] \in Busy => seen[w].task \in Tasks)
  BY Ranges DEF Inv
<1>2. changes' = changes + 1 /\ Fresh = changes + 1
  BY DEF Requeued, Change, Fresh
<1>3. \A t \in Tasks : rev'[t] = Fresh \/ rev'[t] = rev[t]
  BY DEF Requeued
<1>4. UNCHANGED <<notices, pc, seen>>
  BY DEF Requeued
<1>5. /\ \A t \in Tasks : rev[t] =< changes
      /\ \A w \in Workers : seen[w].rev =< changes
      /\ \A t \in Tasks, n \in Numbers : n > changes => notices[<<t, n>>] = 0
  BY DEF Inv, RevisionsIssued
<1>6. RevisionsIssued'
  <2>1. \A t \in Tasks : rev'[t] =< changes'
    BY <1>1, <1>2, <1>3, <1>5
  <2>2. \A w \in Workers : seen[w].rev =< changes'
    BY <1>1, <1>2, <1>5
  <2>3. \A t \in Tasks, n \in Numbers : n > changes' => notices[<<t, n>>] = 0
    BY <1>1, <1>2, <1>5
  <2> QED BY <1>4, <2>1, <2>2, <2>3 DEF RevisionsIssued
<1>7. SeenIsCurrent'
  <2> SUFFICES ASSUME NEW w \in Workers, pc[w] \in Busy, rev'[seen[w].task] = seen[w].rev,
                      status'[seen[w].task] = "DONE"
               PROVE  seen[w].of = version'[seen[w].task]
    BY <1>4 DEF SeenIsCurrent
  <2>1. seen[w].task \in Tasks /\ seen[w].rev # Fresh
    BY <1>1, <1>2, <1>5
  <2>2. /\ rev[seen[w].task] = seen[w].rev /\ status[seen[w].task] = "DONE"
        /\ version'[seen[w].task] = version[seen[w].task]
    BY <2>1 DEF Requeued
  <2> QED BY <2>2 DEF Inv, SeenIsCurrent
<1>8. VerdictIsCurrent'
  <2> SUFFICES ASSUME NEW t \in Tasks
               PROVE  /\ check'[t] # "" => status'[t] = "DONE"
                      /\ check'[t] = "CHECKED" => note'[t].of = version'[t]
    BY DEF VerdictIsCurrent
  <2>1. /\ check[t] # "" => status[t] = "DONE"
        /\ check[t] = "CHECKED" => note[t].of = version[t]
    BY DEF Inv, VerdictIsCurrent
  <2> QED BY <2>1 DEF Requeued
<1>9. NoticeDue'
  <2> SUFFICES ASSUME NEW t \in Tasks, check'[t] \in {"PENDING", "PROCESSING"}
               PROVE  notices[<<t, rev'[t]>>] = 0
    BY <1>4 DEF NoticeDue
  <2>1. CASE rev'[t] = Fresh
    <3>1. Fresh \in Numbers
      BY ChangeType DEF Inv, TypeInv, Requeued
    <3> QED BY <1>1, <1>2, <1>5, <2>1, <3>1
  <2>2. CASE rev'[t] = rev[t] /\ check'[t] = check[t]
    BY <2>2 DEF Inv, NoticeDue
  <2> QED BY <2>1, <2>2 DEF Requeued
<1>10. NotifiedOnce'
  BY <1>4 DEF Inv, NotifiedOnce
<1> QED BY <1>6, <1>7, <1>8, <1>9, <1>10 DEF Inv

(* A worker reads what is current, and claiming a check does not end it.   *)
LEMMA WorkStep ==
  ASSUME Inv, TypeInv', Worked
  PROVE  Inv'
<1>1. UNCHANGED <<changes, status, version, rev, note, notices>>
  BY DEF Worked
<1>2. RevisionsIssued'
  <2>1. \A w \in Workers : seen'[w].rev =< changes
    <3>1. TAKE w \in Workers
    <3>2. changes \in Nat /\ 0 =< changes /\ seen[w].rev =< changes /\ \A t \in Tasks : rev[t] =< changes
      BY Ranges DEF Inv, RevisionsIssued
    <3>3. \/ seen'[w].rev \in {0, seen[w].rev}
          \/ seen'[w].task \in Tasks /\ seen'[w].rev = rev[seen'[w].task]
      BY DEF Worked
    <3> QED BY <3>2, <3>3
  <2> QED BY <1>1, <2>1 DEF Inv, RevisionsIssued
<1>3. SeenIsCurrent'
  <2> SUFFICES ASSUME NEW w \in Workers, pc'[w] \in Busy, rev[seen'[w].task] = seen'[w].rev,
                      status[seen'[w].task] = "DONE"
               PROVE  seen'[w].of = version[seen'[w].task]
    BY <1>1 DEF SeenIsCurrent
  <2>1. CASE /\ pc[w] \in Busy
             /\ seen'[w].task = seen[w].task /\ seen'[w].rev = seen[w].rev /\ seen'[w].of = seen[w].of
    BY <2>1 DEF Inv, SeenIsCurrent
  <2>2. CASE seen'[w].of = version[seen'[w].task]
    BY <2>2
  <2> QED BY <2>1, <2>2 DEF Worked
<1>4. VerdictIsCurrent'
  <2> SUFFICES ASSUME NEW t \in Tasks
               PROVE  /\ check'[t] # "" => status[t] = "DONE"
                      /\ check'[t] = "CHECKED" => note[t].of = version[t]
    BY <1>1 DEF VerdictIsCurrent
  <2>1. /\ check[t] # "" => status[t] = "DONE"
        /\ check[t] = "CHECKED" => note[t].of = version[t]
    BY DEF Inv, VerdictIsCurrent
  <2> QED BY <2>1 DEF Worked
<1>5. NoticeDue'
  BY <1>1 DEF Inv, NoticeDue, Worked
<1>6. NotifiedOnce'
  BY <1>1 DEF Inv, NotifiedOnce
<1> QED BY <1>2, <1>3, <1>4, <1>5, <1>6 DEF Inv
(* A verdict is published of what the worker has read, if the revision is  *)
(* still the one it read, and announced for the first time.                *)
LEMMA FinishStep ==
  ASSUME Inv, TypeInv', NEW w \in Workers, NEW readable \in BOOLEAN, Finish(w, readable), Current(w)
  PROVE  Inv'
<1> DEFINE t == seen[w].task
<1>1. /\ t \in Tasks /\ pc[w] \in Busy
      /\ status[t] = "DONE" /\ rev[t] = seen[w].rev /\ check[t] = "PROCESSING"
  BY Ranges DEF Inv, Finish, Current, Busy
<1>2. UNCHANGED <<changes, status, version, rev>>
  BY DEF Finish
<1>3. /\ check' = [check EXCEPT ![t] = Outcome(w, readable)]
      /\ notices' = [notices EXCEPT ![<<t, rev[t]>>] = @ + 1]
      /\ Outcome(w, readable) = "CHECKED" => note' = [note EXCEPT ![t] =
           [of |-> seen[w].of, client |-> seen[w].client, conn |-> seen[w].conn]]
      /\ \A u \in Tasks : u # t => note'[u] = note[u]
  <2>1. note \in [Tasks -> Notes \cup {NoNote}]
    BY DEF Inv, TypeInv, TypeOK
  <2> QED BY <2>1 DEF Finish
<1>4. Outcome(w, readable) \in {"NOT_CONNECTED", "ACCESS_ISSUE", "CHECKED"}
  BY DEF Outcome
<1>5. /\ check \in [Tasks -> Checks] /\ note \in [Tasks -> Notes \cup {NoNote}]
      /\ notices \in [Tasks \X Numbers -> Nat]
      /\ pc \in [Workers -> {"idle", "listing", "next", "claiming", "connecting", "checking"}]
      /\ DOMAIN seen = Workers
      /\ \A u \in Tasks : rev[u] \in Numbers
  BY DEF Inv, TypeInv, TypeOK
<1>6. /\ \A v \in Workers : v # w => pc'[v] = pc[v] /\ seen'[v] = seen[v]
      /\ pc'[w] \notin Busy /\ seen'[w].rev = 0
  BY <1>5 DEF Finish, Skip, Busy, NotSeen
<1>7. RevisionsIssued'
  <2>1. \A v \in Workers : seen'[v].rev =< changes
    <3>1. changes \in Nat /\ 0 =< changes /\ \A v \in Workers : seen[v].rev =< changes
      BY Ranges DEF Inv, RevisionsIssued
    <3> QED BY <1>6, <3>1
  <2>2. \A u \in Tasks, n \in Numbers : n > changes => notices'[<<u, n>>] = 0
    <3>1. TAKE u \in Tasks, n \in Numbers
    <3>2. HAVE n > changes
    <3>3. rev[t] # n
      <4>1. rev[t] =< changes /\ changes \in Nat /\ rev[t] \in Nat /\ n \in Nat
        BY <1>1, Ranges DEF Inv, RevisionsIssued
      <4> QED BY <3>2, <4>1
    <3>4. notices'[<<u, n>>] = notices[<<u, n>>]
      BY <1>3, <1>5, <3>3
    <3> QED BY <3>2, <3>4 DEF Inv, RevisionsIssued
  <2> QED BY <1>2, <2>1, <2>2 DEF Inv, RevisionsIssued
<1>8. SeenIsCurrent'
  BY <1>2, <1>6 DEF Inv, SeenIsCurrent
<1>9. VerdictIsCurrent'
  <2> SUFFICES ASSUME NEW u \in Tasks
               PROVE  /\ check'[u] # "" => status[u] = "DONE"
                      /\ check'[u] = "CHECKED" => note'[u].of = version[u]
    BY <1>2 DEF VerdictIsCurrent
  <2>1. CASE u = t
    <3>1. check'[u] = Outcome(w, readable)
      BY <1>1, <1>3, <1>5, <2>1
    <3>2. Outcome(w, readable) = "CHECKED" => note'[u].of = seen[w].of
      BY <1>1, <1>3, <1>5, <2>1
    <3>3. seen[w].of = version[t]
      BY <1>1 DEF Inv, SeenIsCurrent
    <3> QED BY <1>1, <2>1, <3>1, <3>2, <3>3
  <2>2. CASE u # t
    <3>1. check'[u] = check[u] /\ note'[u] = note[u]
      BY <1>3, <1>5, <2>2
    <3> QED BY <3>1 DEF Inv, VerdictIsCurrent
  <2> QED BY <2>1, <2>2
<1>10. NoticeDue'
  <2> SUFFICES ASSUME NEW u \in Tasks, check'[u] \in {"PENDING", "PROCESSING"}
               PROVE  notices'[<<u, rev[u]>>] = 0
    BY <1>2 DEF NoticeDue
  <2>1. u # t
    BY <1>1, <1>3, <1>4, <1>5
  <2>2. check'[u] = check[u] /\ notices'[<<u, rev[u]>>] = notices[<<u, rev[u]>>]
    BY <1>3, <1>5, <2>1
  <2> QED BY <2>2 DEF Inv, NoticeDue
<1>11. NotifiedOnce'
  <2>1. notices[<<t, rev[t]>>] = 0
    BY <1>1 DEF Inv, NoticeDue
  <2>2. \A n \in Tasks \X Numbers : notices[n] =< 1
    BY <1>5 DEF Inv, NotifiedOnce
  <2>3. notices'[<<t, rev[t]>>] = 1
    BY <1>1, <1>3, <1>5, <2>1
  <2>4. DOMAIN notices' = Tasks \X Numbers
        /\ \A n \in Tasks \X Numbers : n # <<t, rev[t]>> => notices'[n] = notices[n]
    BY <1>3, <1>5
  <2>5. \A n \in Tasks \X Numbers : notices'[n] =< 1
    BY <2>2, <2>3, <2>4
  <2> QED BY <2>4, <2>5 DEF NotifiedOnce
<1> QED BY <1>7, <1>8, <1>9, <1>10, <1>11 DEF Inv

----------------------------------------------------------------------------
(* Each action is of its kind.                                             *)

(* Staff saving a task: a fresh revision unless nothing changed.           *)
LEMMA SaveRequeues ==
  ASSUME Inv, Change, NEW t \in Tasks, NEW s \in Choices, NEW edited \in BOOLEAN, Save(t, s, edited),
         UNCHANGED <<notices, pc, seen>>
  PROVE  Requeued
<1>1. status \in [Tasks -> Statuses] /\ version \in [Tasks -> Numbers]
  BY DEF Inv, TypeInv, TypeOK
<1>2. \A u \in Tasks : u # t => status'[u] = status[u] /\ version'[u] = version[u]
  BY <1>1 DEF Save
<1>3. status'[t] = s
  BY <1>1 DEF Save
<1>4. CASE s # status[t] \/ edited
  <2>1. Queue({t}, IF s = "DONE" THEN "PENDING" ELSE "")
    BY <1>4 DEF Save
  <2>2. rev'[t] = Fresh /\ check'[t] = (IF s = "DONE" THEN "PENDING" ELSE "")
    BY <2>1 DEF Queue
  <2>3. \A u \in Tasks : u # t => rev'[u] = rev[u] /\ check'[u] = check[u] /\ note'[u] = note[u]
    BY <2>1 DEF Queue
  <2> QED BY <1>2, <1>3, <2>2, <2>3 DEF Requeued
<1>5. CASE ~(s # status[t] \/ edited)
  <2>1. UNCHANGED <<rev, check, note>> /\ version' = version /\ s = status[t]
    BY <1>5 DEF Save
  <2> QED BY <1>2, <1>3, <2>1 DEF Requeued
<1> QED BY <1>4, <1>5

(* A withdrawn context: fresh revisions, and no check.                     *)
LEMMA WithdrawRequeues ==
  ASSUME Inv, Change, NEW ts \in SUBSET Briefed, Withdraw(ts), UNCHANGED <<notices, pc, seen>>
  PROVE  Requeued
BY DEF Withdraw, Queue, Requeued
(* Steps that leave tasks and workers alone are of the second kind.        *)
LEMMA IdleWorks ==
  ASSUME UNCHANGED <<changes, status, version, rev, note, check, notices, pc, seen>>
  PROVE  Worked
BY DEF Worked

(* What staff do.                                                          *)
LEMMA StaffStep ==
  ASSUME Inv, TypeInv', Staff
  PROVE  Inv'
<1>1. ASSUME NEW t \in Tasks, NEW s \in Choices, NEW edited \in BOOLEAN, SetStatus(t, s, edited)
      PROVE  Inv'
  BY <1>1, SaveRequeues, RequeueStep DEF SetStatus, workers
<1>2. ASSUME NEW r \in Requests, NEW t \in Tasks, NEW s \in Choices, NEW edited \in BOOLEAN,
             Patch(r, t, s, edited)
      PROVE  Inv'
  BY <1>2, SaveRequeues, RequeueStep DEF Patch, workers
<1>3. ASSUME NEW t \in Tasks, SetCriteria(t)
      PROVE  Inv'
  <2>1. /\ Change
        /\ UNCHANGED <<notices, pc, seen>> /\ status' = status
        /\ \A u \in Tasks : u # t => version'[u] = version[u]
    BY <1>3 DEF SetCriteria, workers, Inv, TypeInv, TypeOK
  <2>2. CASE status[t] = "DONE"
    <3>1. Queue({t}, "PENDING")
      BY <1>3, <2>2 DEF SetCriteria
    <3>2. Requeued
      BY <2>1, <2>2, <3>1 DEF Queue, Requeued
    <3> QED BY <3>2, RequeueStep
  <2>3. CASE status[t] # "DONE"
    <3>1. UNCHANGED <<rev, check, note>>
      BY <1>3, <2>3 DEF SetCriteria
    <3>2. Requeued
      BY <2>1, <2>3, <3>1 DEF Requeued
    <3> QED BY <3>2, RequeueStep
  <2> QED BY <2>2, <2>3
<1>4. ASSUME NEW r \in Requests, NEW t \in Tasks, AskCheck(r, t)
      PROVE  Inv'
  BY <1>4, IdleWorks, WorkStep DEF AskCheck, tasks, workers
<1>5. ASSUME NEW r \in Requests, PatchItem(r) \/ RequestDies(r)
      PROVE  Inv'
  BY <1>5, IdleWorks, WorkStep DEF PatchItem, RequestDies, tasks, workers
<1>6. ASSUME NEW r \in Requests, QueueCheck(r)
      PROVE  Inv'
  <2>1. UNCHANGED <<status, version, notices, pc, seen>>
    BY <1>6 DEF QueueCheck, workers
  <2>2. CASE Change /\ Queue({held[r].task}, "PENDING") /\ status[held[r].task] = "DONE"
    <3>1. Requeued
      BY <2>1, <2>2 DEF Queue, Requeued
    <3> QED BY <3>1, RequeueStep
  <2>3. CASE UNCHANGED <<changes, rev, check, note>>
    BY <2>1, <2>3, IdleWorks, WorkStep
  <2> QED BY <1>6, <2>2, <2>3 DEF QueueCheck
<1> QED BY <1>1, <1>2, <1>3, <1>4, <1>5, <1>6 DEF Staff

(* What happens to clients and their connections.                          *)
LEMMA AccountsStep ==
  ASSUME Inv, TypeInv', Accounts
  PROVE  Inv'
<1>1. ASSUME Change, NEW ts \in SUBSET Briefed, Withdraw(ts), UNCHANGED <<notices, workers>>
      PROVE  Inv'
  BY <1>1, WithdrawRequeues, RequeueStep DEF workers
<1>2. ASSUME NEW t \in Tasks, NEW c \in Clients \cup {None}, Remap(t, c)
      PROVE  Inv'
  <2>1. CASE UNCHANGED tasks
    <3>1. Requeued
      BY <1>2, <2>1 DEF Remap, Requeued, tasks, workers
    <3> QED BY <3>1, RequeueStep
  <2>2. CASE \E ts \in SUBSET Briefed : Withdraw(ts)
    BY <1>1, <1>2, <2>2 DEF Remap
  <2> QED BY <1>2, <2>1, <2>2 DEF Remap
<1>3. ASSUME NEW c \in Clients, NEW n, SetConnection(c, n)
      PROVE  Inv'
  BY <1>1, <1>3 DEF SetConnection
<1>4. ASSUME ContextWithdrawn
      PROVE  Inv'
  BY <1>1, <1>4 DEF ContextWithdrawn
<1> QED BY <1>2, <1>3, <1>4 DEF Accounts, Connect, Disconnect

(* What workers do.                                                        *)
LEMMA WorkerWorks ==
  ASSUME Inv, TypeInv', NEW w \in Workers, WorkerStep(w) \/ WorkerDies(w)
  PROVE  Inv'
<1>1. /\ pc \in [Workers -> {"idle", "listing", "next", "claiming", "connecting", "checking"}]
      /\ DOMAIN seen = Workers /\ check \in [Tasks -> Checks]
      /\ \A v \in Workers : pc[v] \in Busy => seen[v].task \in Tasks
  BY DEF Inv, TypeInv, TypeOK, InHand
<1>2. CASE Sweep(w)
  <2>1. \A v \in Workers : pc'[v] \in Busy => pc[v] \in Busy
    BY <1>1, <1>2 DEF Sweep, Busy
  <2>2. \A t \in Tasks : check'[t] = check[t] \/ (check[t] = "PROCESSING" /\ check'[t] = "ACCESS_ISSUE")
    BY <1>2 DEF Sweep, Interrupted
  <2>3. Worked
    BY <1>2, <2>1, <2>2 DEF Sweep, Worked
  <2> QED BY <2>3, WorkStep
<1>3. CASE List(w) \/ Rest(w)
  <2>1. \A v \in Workers : pc'[v] \in Busy => pc[v] \in Busy
    BY <1>1, <1>3 DEF List, Rest, Busy
  <2>2. Worked
    BY <1>3, <2>1 DEF List, Rest, tasks, Worked
  <2> QED BY <2>2, WorkStep
<1>4. ASSUME NEW t \in Tasks, Read(w, t)
      PROVE  Inv'
  <2>1. UNCHANGED <<changes, tasks, notices>>
    BY <1>4 DEF Read
  <2>2. CASE UNCHANGED <<pc, seen>>
    BY <2>1, <2>2, IdleWorks, WorkStep DEF tasks
  <2>3. CASE /\ pc' = [pc EXCEPT ![w] = "claiming"]
             /\ seen' = [seen EXCEPT ![w] = [task |-> t, rev |-> rev[t], of |-> version[t],
                                             client |-> clientOf[t], conn |-> None]]
    <3>1. seen'[w].task = t /\ seen'[w].rev = rev[t] /\ seen'[w].of = version[t]
      BY <1>1, <2>3
    <3>2. \A v \in Workers : v # w => pc'[v] = pc[v] /\ seen'[v] = seen[v]
      BY <1>1, <2>3
    <3>3. Worked
      BY <2>1, <3>1, <3>2 DEF tasks, Worked
    <3> QED BY <3>3, WorkStep
  <2> QED BY <1>4, <2>2, <2>3 DEF Read
<1>5. ASSUME UNCHANGED <<changes, status, version, rev, note, check, notices>>,
             pc'[w] \notin Busy, seen'[w].rev = 0,
             \A v \in Workers : v # w => pc'[v] = pc[v] /\ seen'[v] = seen[v]
      PROVE  Inv'
  <2>1. Worked
    BY <1>5 DEF Worked
  <2> QED BY <2>1, WorkStep
<1>6. CASE Claim(w)
  <2>1. UNCHANGED <<changes, status, version, rev, note, notices>>
    BY <1>6 DEF Claim
  <2>2. CASE Claimable(w)
    <3>1. /\ check' = [check EXCEPT ![seen[w].task] = "PROCESSING"] /\ check[seen[w].task] = "PENDING"
          /\ pc' = [pc EXCEPT ![w] = "connecting"] /\ pc[w] = "claiming" /\ UNCHANGED seen
      BY <1>6, <2>2 DEF Claim, Claimable
    <3>2. \A t \in Tasks : check'[t] = check[t] \/ (check[t] = "PENDING" /\ check'[t] = "PROCESSING")
      BY <1>1, <3>1
    <3>3. \A v \in Workers : pc'[v] \in Busy => pc[v] \in Busy
      BY <1>1, <3>1 DEF Busy
    <3>4. Worked
      BY <2>1, <3>1, <3>2, <3>3 DEF Worked
    <3> QED BY <3>4, WorkStep
  <2>3. CASE ~Claimable(w)
    <3>1. Skip(w) /\ UNCHANGED check
      BY <1>6, <2>3 DEF Claim
    <3>2. pc'[w] \notin Busy /\ seen'[w].rev = 0
          /\ \A v \in Workers : v # w => pc'[v] = pc[v] /\ seen'[v] = seen[v]
      BY <1>1, <3>1 DEF Skip, NotSeen, Busy
    <3> QED BY <1>5, <2>1, <3>1, <3>2
  <2> QED BY <2>2, <2>3
<1>7. CASE LookUp(w)
  <2>1. UNCHANGED <<changes, tasks, notices>> /\ pc[w] = "connecting" /\ pc' = [pc EXCEPT ![w] = "checking"]
    BY <1>7 DEF LookUp
  <2>2. /\ seen'[w].task = seen[w].task /\ seen'[w].rev = seen[w].rev /\ seen'[w].of = seen[w].of
        /\ \A v \in Workers : v # w => seen'[v] = seen[v]
    BY <1>1, <1>7 DEF LookUp, Inv, TypeInv, TypeOK
  <2>3. pc[w] \in Busy /\ \A v \in Workers : pc'[v] \in Busy => pc[v] \in Busy
    BY <1>1, <2>1 DEF Busy
  <2>4. Worked
    BY <2>1, <2>2, <2>3 DEF Worked, tasks
  <2> QED BY <2>4, WorkStep
<1>8. ASSUME NEW readable \in BOOLEAN, Finish(w, readable)
      PROVE  Inv'
  <2>1. CASE Current(w)
    BY <1>8, <2>1, FinishStep
  <2>2. CASE ~Current(w)
    <3>1. Skip(w) /\ UNCHANGED <<changes, status, version, rev, note, check, notices>>
      BY <1>8, <2>2 DEF Finish
    <3>2. pc'[w] \notin Busy /\ seen'[w].rev = 0
          /\ \A v \in Workers : v # w => pc'[v] = pc[v] /\ seen'[v] = seen[v]
      BY <1>1, <3>1 DEF Skip, NotSeen, Busy
    <3> QED BY <1>5, <3>1, <3>2
  <2> QED BY <2>1, <2>2
<1>9. CASE WorkerDies(w)
  <2>1. UNCHANGED <<changes, status, version, rev, note, check, notices>>
    BY <1>9 DEF WorkerDies, tasks
  <2>2. pc'[w] \notin Busy /\ seen'[w].rev = 0
        /\ \A v \in Workers : v # w => pc'[v] = pc[v] /\ seen'[v] = seen[v]
    BY <1>1, <1>9 DEF WorkerDies, NotSeen, Busy
  <2> QED BY <1>5, <2>1, <2>2
<1> QED BY <1>2, <1>3, <1>4, <1>6, <1>7, <1>8, <1>9 DEF WorkerStep

(* The invariant is inductive.                                             *)
LEMMA InvStep == Inv /\ [Next]_vars => Inv'
<1> SUFFICES ASSUME Inv, [Next]_vars PROVE Inv'
  OBVIOUS
<1>1. TypeInv'
  BY TypeStep DEF Inv
<1>2. CASE Staff
  BY <1>1, <1>2, StaffStep
<1>3. CASE Accounts
  BY <1>1, <1>3, AccountsStep
<1>4. ASSUME NEW t \in Tasks, StartedLongAgo(t)
      PROVE  Inv'
  BY <1>1, <1>4, IdleWorks, WorkStep DEF StartedLongAgo, workers
<1>5. ASSUME NEW w \in Workers, WorkerStep(w) \/ WorkerDies(w)
      PROVE  Inv'
  BY <1>1, <1>5, WorkerWorks
<1>6. CASE UNCHANGED vars
  BY <1>1, <1>6, IdleWorks, WorkStep DEF vars, tasks, workers
<1> QED BY <1>2, <1>3, <1>4, <1>5, <1>6 DEF Next

LEMMA Invariance == Spec => []Inv
BY InitInv, InvStep, PTL DEF Spec

----------------------------------------------------------------------------
(* Only the publication of a verdict makes a task checked.                 *)

(* Queueing, saving and withdrawing make none.                             *)
LEMMA QueueNone ==
  ASSUME NEW ts, NEW queued \in {"", "PENDING"}, Queue(ts, queued), NEW u \in Tasks, check'[u] = "CHECKED"
  PROVE  check[u] = "CHECKED"
BY DEF Queue

LEMMA OnlyFinish ==
  ASSUME TypeOK, [Next]_vars, NEW u \in Tasks, check[u] # "CHECKED", check'[u] = "CHECKED"
  PROVE  \E w \in Workers, readable \in BOOLEAN : Finish(w, readable)
<1>0. check \in [Tasks -> Checks]
  BY DEF TypeOK
<1>1. ASSUME NEW t, NEW s, NEW edited, Save(t, s, edited) PROVE FALSE
  BY <1>1, QueueNone DEF Save
<1>2. ASSUME NEW ts, Withdraw(ts) PROVE FALSE
  BY <1>2, QueueNone DEF Withdraw
<1>3. CASE Staff
  <2>1. ASSUME NEW t \in Tasks, SetCriteria(t) PROVE FALSE
    BY <2>1, QueueNone DEF SetCriteria
  <2>2. ASSUME NEW r \in Requests, QueueCheck(r) PROVE FALSE
    BY <2>2, QueueNone DEF QueueCheck
  <2>3. ASSUME NEW r \in Requests, PatchItem(r) \/ RequestDies(r) PROVE FALSE
    BY <2>3 DEF PatchItem, RequestDies, tasks
  <2>4. ASSUME NEW r \in Requests, NEW t \in Tasks, AskCheck(r, t) PROVE FALSE
    BY <2>4 DEF AskCheck, tasks
  <2> QED BY <1>1, <1>3, <2>1, <2>2, <2>3, <2>4 DEF Staff, SetStatus, Patch
<1>4. CASE Accounts
  <2>1. ASSUME NEW t \in Tasks, NEW c, Remap(t, c) PROVE FALSE
    BY <1>2, <2>1 DEF Remap, tasks
  <2>2. ASSUME NEW c, NEW n, SetConnection(c, n) PROVE FALSE
    BY <1>2, <2>2 DEF SetConnection
  <2>3. ASSUME ContextWithdrawn PROVE FALSE
    BY <1>2, <2>3 DEF ContextWithdrawn
  <2> QED BY <1>4, <2>1, <2>2, <2>3 DEF Accounts, Connect, Disconnect
<1>5. ASSUME NEW t \in Tasks, StartedLongAgo(t) PROVE FALSE
  BY <1>5 DEF StartedLongAgo
<1>6. ASSUME NEW w \in Workers, Sweep(w) PROVE FALSE
  BY <1>6 DEF Sweep
<1>7. ASSUME NEW w \in Workers, Claim(w) PROVE FALSE
  BY <1>0, <1>7 DEF Claim
<1>8. ASSUME NEW w \in Workers, List(w) \/ Rest(w) \/ LookUp(w) \/ WorkerDies(w) PROVE FALSE
  BY <1>8 DEF List, Rest, LookUp, WorkerDies, tasks
<1>9. ASSUME NEW w \in Workers, NEW t \in Tasks, Read(w, t) PROVE FALSE
  BY <1>9 DEF Read, tasks
<1>10. CASE UNCHANGED vars
  BY <1>10 DEF vars, tasks
<1> QED BY <1>3, <1>4, <1>5, <1>6, <1>7, <1>8, <1>9, <1>10 DEF Next, WorkerStep

----------------------------------------------------------------------------
(* The results.                                                            *)

(* Types hold of every reachable state.                                    *)
THEOREM TypeCorrect == Spec => []TypeOK
<1>1. Inv => TypeOK
  BY DEF Inv, TypeInv
<1> QED BY <1>1, Invariance, PTL

(* No verdict outlives the texts, criteria and status it is about,         *)
(* whatever workers, requests and withdrawals interleave.                  *)
THEOREM VerdictCurrent == Spec => []VerdictIsCurrent
<1>1. Inv => VerdictIsCurrent
  BY DEF Inv
<1> QED BY <1>1, Invariance, PTL

(* The verdict of a completion is announced at most once.                  *)
THEOREM AnnouncedOnce == Spec => []NotifiedOnce
<1>1. Inv => NotifiedOnce
  BY DEF Inv
<1> QED BY <1>1, Invariance, PTL
(* A verdict is published of the account that the task's client has        *)
(* connected at that moment, although the account was read without a lock. *)
THEOREM OwnAccount == Spec => CheckedOwnAccount
<1> DEFINE Own == \A t \in Tasks :
              check[t] # "CHECKED" /\ check'[t] = "CHECKED" =>
                /\ note'[t].client = clientOf[t]
                /\ note'[t].conn # None /\ note'[t].conn = conn[clientOf[t]]
<1>1. Inv /\ [Next]_vars => Own
  <2> SUFFICES ASSUME Inv, [Next]_vars, NEW t \in Tasks, check[t] # "CHECKED", check'[t] = "CHECKED"
               PROVE  /\ note'[t].client = clientOf[t]
                      /\ note'[t].conn # None /\ note'[t].conn = conn[clientOf[t]]
    OBVIOUS
  <2>1. TypeOK
    BY DEF Inv, TypeInv
  <2>2. PICK w \in Workers, readable \in BOOLEAN : Finish(w, readable)
    BY <2>1, OnlyFinish
  <2>3. Current(w) /\ check' = [check EXCEPT ![seen[w].task] = Outcome(w, readable)]
    BY <2>2 DEF Finish
  <2>4. t = seen[w].task /\ Outcome(w, readable) = "CHECKED"
    BY <2>1, <2>3 DEF TypeOK
  <2>5. seen[w].conn # None /\ conn[seen[w].client] = seen[w].conn /\ clientOf[t] = seen[w].client
    BY <2>4 DEF Outcome, SameAccount
  <2>6. note'[t] = [of |-> seen[w].of, client |-> seen[w].client, conn |-> seen[w].conn]
    BY <2>1, <2>2, <2>3, <2>4 DEF Finish, TypeOK
  <2> QED BY <2>5, <2>6
<1>2. CheckedOwnAccount <=> [][Own]_vars
  BY DEF CheckedOwnAccount
<1> QED BY <1>1, <1>2, Invariance, PTL DEF Spec
=============================================================================
