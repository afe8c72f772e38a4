--------------------------- MODULE GhlChatProofs ---------------------------
(***************************************************************************)
(* Proofs about the GHL chat, for any number of runs, conversations,       *)
(* users, workers, mutations and connection revisions, with and without    *)
(* failures after a save.                                                  *)
(***************************************************************************)
EXTENDS GhlChat, TLAPS

Executing == {"checking", "claiming", "claimed", "sending", "replied"}
Checked   == {"claiming", "claimed", "sending", "replied"}
Holding   == {"claimed", "sending"}

(* A saved connection has a revision.                                      *)
ConnectionInv == connected => revision \in Revisions

(* A worker that is not idle has a run; a run that is not yet approved     *)
(* bears no approval; a waiting proposal exists and what was approved is   *)
(* what will be executed.                                                  *)
RowInv ==
  /\ \A w \in Workers : pc[w] # "idle" => job[w] \in Runs
  /\ \A r \in Runs :
       /\ status[r] \in {"none", "queued", "running", "awaiting_confirmation"} => approved[r] = None
       /\ status[r] = "awaiting_confirmation" => proposal[r] # None
       /\ status[r] = "execute_queued" => approved[r] = proposal[r] /\ proposal[r] # None

(* The run of a planning worker is its own until it is given up.           *)
PlanInv ==
  /\ \A w \in Workers : pc[w] = "planning" =>
       /\ status[job[w]] \in {"running"} \cup Terminal
       /\ approved[job[w]] = None
  /\ \A v, w \in Workers : pc[v] = "planning" /\ pc[w] = "planning" /\ job[v] = job[w] => v = w

(* An executing worker holds the approved proposal, under the connection   *)
(* it was approved for.                                                    *)
ExecInv ==
  \A w \in Workers :
    /\ pc[w] \in Executing => held[w] # None /\ held[w] = approved[job[w]]
    /\ pc[w] \in Checked => seen[w] = held[w].rev

(* Whoever may still send has the only claim to a mutation that was not    *)
(* applied yet.                                                            *)
ClaimInv ==
  /\ \A r, s \in Runs : claim[r] # None /\ claim[r] = claim[s] => r = s
  /\ \A w \in Workers :
       /\ pc[w] \in Holding => claim[job[w]] = held[w] /\ applied[held[w]] = <<>>
       /\ pc[w] = "replied" => applied[held[w]] = <<job[w]>>
  /\ \A v, w \in Workers : pc[v] \in Holding /\ pc[w] \in Holding /\ job[v] = job[w] => v = w

(* A mutation that was applied was applied once, for the run that claimed  *)
(* it and was approved for it.                                             *)
AppliedInv ==
  \A fp \in Fingerprint :
    \/ applied[fp] = <<>>
    \/ \E r \in Runs : applied[fp] = <<r>> /\ claim[r] = fp /\ approved[r] = fp

DoneInv ==
  \A r \in Runs : status[r] = "done" /\ approved[r] # None => applied[approved[r]] = <<r>>

IndInv ==
  TypeOK /\ ConnectionInv /\ RowInv /\ PlanInv /\ ExecInv /\ ClaimInv /\ AppliedInv /\ DoneInv

(* For any worker of a run under an approval: the fingerprint it computes  *)
(* is the proposal it holds.                                               *)
LEMMA FingerprintIsHeld ==
  ASSUME TypeOK, ExecInv, NEW w \in Workers, pc[w] \in Checked
  PROVE  FingerprintOf(w) = held[w] /\ held[w] \in Fingerprint
  BY DEF TypeOK, ExecInv, FingerprintOf, Fingerprint, Executing, Checked

(* The initial state satisfies the inductive invariant.                    *)
LEMMA InitIndInv == Init => IndInv
  <1> SUFFICES ASSUME Init PROVE IndInv
    OBVIOUS
  <1> USE ChatConstants, NoneIsNoValue DEF Init
  <1>1. TypeOK
    <2>1. applied \in [Fingerprint -> Seq(Runs)]
      OBVIOUS
    <2>2. age \in [Runs -> 0..SweepAfter + 1] /\ elapsed \in [Workers -> 0..HardLimit]
      BY DEF ChatConstants
    <2>3. seen \in [Workers -> 0..MaxRevision] /\ revision \in 0..MaxRevision
      BY DEF ChatConstants
    <2> QED
      BY <2>1, <2>2, <2>3 DEF TypeOK, Statuses, Labels
  <1>2. ConnectionInv /\ RowInv /\ PlanInv /\ ExecInv
    BY DEF ConnectionInv, RowInv, PlanInv, ExecInv, Executing, Checked
  <1>3. ClaimInv /\ AppliedInv /\ DoneInv
    BY DEF ClaimInv, AppliedInv, DoneInv, Holding
  <1> QED
    BY <1>1, <1>2, <1>3 DEF IndInv

----------------------------------------------------------------------------
(* Steps that leave the variables of the invariant alone.                  *)

Core == <<status, proposal, approved, claim, applied, pc, job, held, seen, revision, connected>>

LEMMA CoreStutter ==
  ASSUME IndInv, TypeOK', UNCHANGED Core
  PROVE  IndInv'
  BY DEF Core, IndInv, ConnectionInv, RowInv, PlanInv, ExecInv, ClaimInv, AppliedInv, DoneInv

(* A worker that gives its run up, or turns to its failure handler,        *)
(* disturbs nothing.                                                       *)
LEMMA WorkerLeaves ==
  ASSUME IndInv, TypeOK', NEW w \in Workers, NEW l \in {"idle", "failing", "judged"},
         pc' = [pc EXCEPT ![w] = l],
         l # "idle" => job'[w] = job[w],
         \A v \in Workers \ {w} :
           job'[v] = job[v] /\ held'[v] = held[v] /\ seen'[v] = seen[v],
         UNCHANGED <<rowVars, remoteVars>>,
         pc[w] # "idle"
  PROVE  IndInv'
  <1> USE DEF rowVars, remoteVars, IndInv
  <1>0. /\ pc'[w] = l
        /\ \A v \in Workers \ {w} : pc'[v] = pc[v]
    BY DEF TypeOK
  <1>1. ConnectionInv' /\ AppliedInv' /\ DoneInv'
    BY DEF ConnectionInv, AppliedInv, DoneInv
  <1>2. RowInv'
    BY <1>0 DEF RowInv
  <1>3. PlanInv'
    BY <1>0 DEF PlanInv
  <1>4. ExecInv'
    BY <1>0 DEF ExecInv, Executing, Checked
  <1>5. ClaimInv'
    BY <1>0 DEF ClaimInv, Holding
  <1> QED
    BY <1>1, <1>2, <1>3, <1>4, <1>5

----------------------------------------------------------------------------
(* Managers and staff.                                                     *)

LEMMA ManageStep ==
  ASSUME IndInv, Manage
  PROVE  IndInv'
  <1> USE DEF IndInv
  <1>1. ASSUME NEW u \in Users, NEW level \in Levels, SetAccess(u, level)
        PROVE  IndInv'
    <2>1. TypeOK'
      BY <1>1, ChatConstants DEF SetAccess, TypeOK, rowVars, workerVars
    <2> QED
      BY <1>1, <2>1, CoreStutter DEF SetAccess, Core, rowVars, workerVars
  <1>2. ASSUME revision' \in 0..MaxRevision, connected' \in BOOLEAN, ConnectionInv',
               UNCHANGED <<rowVars, applied, access, workerVars>>
        PROVE  IndInv'
    <2> USE <1>2 DEF rowVars, workerVars
    <2>1. TypeOK'
      BY DEF TypeOK
    <2> QED
      BY <2>1 DEF RowInv, PlanInv, ExecInv, ClaimInv, AppliedInv, DoneInv
  <1>3. CASE SaveConnection
    BY <1>2, <1>3, ChatConstants DEF SaveConnection, TypeOK, ConnectionInv, Revisions
  <1>4. CASE DeleteConnection
    BY <1>2, <1>4 DEF DeleteConnection, TypeOK, ConnectionInv
  <1> QED
    BY <1>1, <1>3, <1>4 DEF Manage

LEMMA PostStep ==
  ASSUME IndInv, NEW c \in Conversations,
         (\E k \in Keys : PostMessage(c, k)) \/ AbortPost(c)
  PROVE  IndInv'
  <1>1. TypeOK'
    BY DEF IndInv, TypeOK, PostMessage, AbortPost, remoteVars, workerVars
  <1> QED
    BY <1>1, CoreStutter DEF PostMessage, AbortPost, Core, remoteVars, workerVars

LEMMA ExpireStep ==
  ASSUME IndInv, NEW r \in Runs, Expire(r)
  PROVE  IndInv'
  <1>1. TypeOK'
    BY DEF IndInv, TypeOK, Expire, remoteVars, workerVars
  <1> QED
    BY <1>1, CoreStutter DEF Expire, Core, remoteVars, workerVars

LEMMA InsertStep ==
  ASSUME IndInv, NEW c \in Conversations, NEW r \in Runs, InsertRun(c, r)
  PROVE  IndInv'
  <1> USE DEF IndInv, InsertRun, remoteVars, workerVars
  <1>0. status[r] = "none"
    BY DEF Created
  <1>1. TypeOK'
    BY DEF TypeOK, Statuses, Pending, Queued
  <1>2. ConnectionInv' /\ ExecInv' /\ ClaimInv' /\ AppliedInv'
    BY DEF ConnectionInv, ExecInv, ClaimInv, AppliedInv
  <1>3. RowInv'
    BY <1>0 DEF RowInv, TypeOK
  <1>4. PlanInv'
    BY <1>0 DEF PlanInv, TypeOK, Terminal, RowInv
  <1>5. DoneInv'
    BY DEF DoneInv, TypeOK
  <1> QED
    BY <1>1, <1>2, <1>3, <1>4, <1>5

LEMMA ApproveStep ==
  ASSUME IndInv, NEW r \in Runs, Approve(r)
  PROVE  IndInv'
  <1> USE DEF IndInv, Approve, remoteVars, workerVars
  <1>0. approved[r] = None /\ proposal[r] # None
    BY DEF RowInv
  <1>1. TypeOK'
    BY DEF TypeOK, Statuses, Pending, Queued
  <1>2. ConnectionInv' /\ ClaimInv'
    BY DEF ConnectionInv, ClaimInv
  <1>3. RowInv'
    BY <1>0 DEF RowInv, TypeOK
  <1>4. PlanInv'
    BY DEF PlanInv, TypeOK, Terminal, RowInv
  <1>5. ExecInv'
    BY <1>0 DEF ExecInv, TypeOK, RowInv, Executing
  <1>6. AppliedInv'
    BY <1>0, NoneIsNoValue DEF AppliedInv, TypeOK
  <1>7. DoneInv'
    BY <1>0 DEF DoneInv, TypeOK
  <1> QED
    BY <1>1, <1>2, <1>3, <1>4, <1>5, <1>6, <1>7

LEMMA RejectStep ==
  ASSUME IndInv, NEW r \in Runs, Reject(r)
  PROVE  IndInv'
  <1> USE DEF IndInv, Reject, remoteVars, workerVars
  <1>1. TypeOK'
    BY DEF TypeOK, Statuses, Terminal
  <1>2. ConnectionInv' /\ ClaimInv' /\ ExecInv' /\ AppliedInv'
    BY DEF ConnectionInv, ClaimInv, ExecInv, AppliedInv
  <1>3. RowInv'
    BY DEF RowInv, TypeOK
  <1>4. PlanInv'
    BY DEF PlanInv, TypeOK, Terminal, RowInv
  <1>5. DoneInv'
    BY DEF DoneInv, TypeOK
  <1> QED
    BY <1>1, <1>2, <1>3, <1>4, <1>5

----------------------------------------------------------------------------
(* Workers.                                                                *)

LEMMA DrainStep ==
  ASSUME IndInv, NEW w \in Workers, Drain(w)
  PROVE  IndInv'
  <1> USE DEF IndInv, remoteVars, workerVars
  <1>0. UNCHANGED <<conv, reqKey, proposal, expired, age, posting, approved, claim,
                    remoteVars, held, seen, verdict, elapsed>>
    BY DEF Drain
  <1>1. \A r \in Runs : \/ status'[r] = status[r]
                        \/ status[r] \in Active /\ status'[r] \in {"failed", "unknown"}
    BY DEF Drain, Stale, SweptTo
  <1>2. status' \in [Runs -> Statuses]
    BY <1>1 DEF Drain, TypeOK, Statuses, Terminal
  <1>3. \/ UNCHANGED <<pc, job>>
        \/ \E r \in Runs : /\ pc' = [pc EXCEPT ![w] = "picked"]
                           /\ job' = [job EXCEPT ![w] = r]
    BY DEF Drain, Goto, Waiting
  <1>4. \A v \in Workers : \/ pc'[v] = pc[v] /\ job'[v] = job[v]
                           \/ pc'[v] = "picked" /\ job'[v] \in Runs
    BY <1>3 DEF TypeOK
  <1>5. TypeOK'
    <2>1. pc' \in [Workers -> Labels] /\ job' \in [Workers -> Runs \cup {None}]
      BY <1>3 DEF TypeOK, Labels
    <2> QED
      BY <1>0, <1>2, <2>1 DEF TypeOK
  <1>6. ConnectionInv' /\ AppliedInv'
    BY <1>0 DEF ConnectionInv, AppliedInv
  <1>7. RowInv'
    BY <1>0, <1>1, <1>4 DEF RowInv, Active
  <1>8. PlanInv'
    BY <1>0, <1>1, <1>4 DEF PlanInv, Active, Terminal, RowInv
  <1>9. ExecInv' /\ ClaimInv'
    BY <1>0, <1>4 DEF ExecInv, ClaimInv, Executing, Checked, Holding
  <1>10. DoneInv'
    BY <1>0, <1>1 DEF DoneInv
  <1> QED
    BY <1>5, <1>6, <1>7, <1>8, <1>9, <1>10

LEMMA StartStep ==
  ASSUME IndInv, NEW w \in Workers, StartRun(w)
  PROVE  IndInv'
  <1> DEFINE r == job[w]
  <1> USE DEF IndInv, StartRun, Goto, remoteVars
  <1>0. r \in Runs
    BY DEF RowInv
  <1>1. TypeOK'
    BY <1>0, ChatConstants DEF TypeOK, Statuses, Pending, Active, Labels
  <1>2. /\ status[r] \in Queued
        /\ status'[r] = IF status[r] = "queued" THEN "running" ELSE "executing"
        /\ \A s \in Runs \ {r} : status'[s] = status[s]
        /\ pc'[w] = IF status[r] = "queued" THEN "planning" ELSE "checking"
        /\ held'[w] = proposal[r]
        /\ \A v \in Workers \ {w} : pc'[v] = pc[v] /\ held'[v] = held[v] /\ seen'[v] = seen[v]
    BY <1>0 DEF TypeOK
  <1>3. ConnectionInv' /\ AppliedInv'
    BY DEF ConnectionInv, AppliedInv
  <1>4. RowInv'
    BY <1>0, <1>2 DEF RowInv, Queued
  <1>5. PlanInv'
    BY <1>0, <1>2 DEF PlanInv, RowInv, Terminal, Queued
  <1>6. ExecInv'
    BY <1>0, <1>2 DEF ExecInv, RowInv, Executing, Checked, Queued
  <1>7. ClaimInv'
    <2>1. pc'[w] \notin Holding \cup {"replied"} /\ UNCHANGED <<claim, applied, job>>
      BY <1>2 DEF Holding
    <2> HIDE DEF StartRun
    <2>2. \A v \in Workers : pc'[v] \in Holding \cup {"replied"} =>
                             v # w /\ pc'[v] = pc[v] /\ held'[v] = held[v]
      BY <1>2, <2>1
    <2>3. ClaimInv
      OBVIOUS
    <2> HIDE DEF IndInv
    <2> QED
      BY <2>1, <2>2, <2>3 DEF ClaimInv
  <1>8. DoneInv'
    BY <1>0, <1>2 DEF DoneInv
  <1> QED
    BY <1>1, <1>3, <1>4, <1>5, <1>6, <1>7, <1>8

LEMMA ReleaseTypes ==
  ASSUME TypeOK, NEW w \in Workers, Release(w)
  PROVE  /\ pc' \in [Workers -> Labels]
         /\ job' \in [Workers -> Runs \cup {None}]
         /\ held' \in [Workers -> Fingerprint \cup {None}]
         /\ seen' \in [Workers -> 0..MaxRevision]
         /\ verdict' \in [Workers -> {"failed", "unknown"}]
         /\ elapsed' \in [Workers -> 0..HardLimit]
  <1>1. 0 \in 0..MaxRevision /\ 0 \in 0..HardLimit
    BY ChatConstants
  <1> QED
    BY <1>1 DEF TypeOK, Release, Goto, Labels

(* The steps that end a task or turn to the handler, rows unchanged.       *)
LEMMA QuietSteps ==
  ASSUME IndInv, NEW w \in Workers,
         LoseRun(w) \/ JobFails(w) \/ EndJob(w) \/ AuditFails(w) \/ JudgeFailure(w) \/ WorkerDies(w)
  PROVE  IndInv'
  <1> USE DEF IndInv, Goto
  <1>1. CASE LoseRun(w) \/ EndJob(w) \/ WorkerDies(w)
    <2>1. TypeOK'
      BY <1>1, ReleaseTypes DEF TypeOK, LoseRun, EndJob, WorkerDies, rowVars, remoteVars
    <2> QED
      BY <1>1, <2>1, WorkerLeaves DEF LoseRun, EndJob, WorkerDies, Release, TypeOK
  <1>2. CASE JobFails(w) \/ AuditFails(w) \/ JudgeFailure(w)
    <2>1. TypeOK'
      <3>1. /\ pc' = [pc EXCEPT ![w] = "failing"] \/ pc' = [pc EXCEPT ![w] = "judged"]
            /\ UNCHANGED <<rowVars, remoteVars, job, held, seen, elapsed>>
        BY <1>2 DEF JobFails, AuditFails, JudgeFailure
      <3>2. pc' \in [Workers -> Labels]
        BY <3>1 DEF TypeOK, Labels
      <3>3. verdict' \in [Workers -> {"failed", "unknown"}]
        BY <1>2 DEF TypeOK, JobFails, AuditFails, JudgeFailure, FailureVerdict
      <3> QED
        BY <3>1, <3>2, <3>3 DEF TypeOK, rowVars, remoteVars
    <2> QED
      BY <1>2, <2>1, WorkerLeaves DEF JobFails, AuditFails, JudgeFailure, TypeOK
  <1> QED
    BY <1>1, <1>2

LEMMA AnswerStep ==
  ASSUME IndInv, NEW w \in Workers, AnswerRun(w)
  PROVE  IndInv'
  <1> DEFINE r == job[w]
  <1> USE DEF IndInv, AnswerRun, SaveRun, Goto, remoteVars
  <1>0. r \in Runs /\ approved[r] = None
    BY DEF RowInv, PlanInv
  <1>1. TypeOK'
    BY <1>0 DEF TypeOK, Statuses, Terminal, Labels
  <1>2. /\ status'[r] = "done" /\ pc'[w] = "saved"
        /\ \A s \in Runs \ {r} : status'[s] = status[s] /\ proposal'[s] = proposal[s]
        /\ \A v \in Workers \ {w} : pc'[v] = pc[v]
    BY <1>0 DEF TypeOK
  <1>3. ConnectionInv' /\ AppliedInv'
    BY DEF ConnectionInv, AppliedInv
  <1>4. RowInv'
    BY <1>0, <1>2 DEF RowInv
  <1>5. PlanInv'
    BY <1>0, <1>2 DEF PlanInv, RowInv, Terminal
  <1>6. ExecInv'
    BY <1>2 DEF ExecInv, Executing, Checked
  <1>7. ClaimInv'
    BY <1>2 DEF ClaimInv, Holding
  <1>8. DoneInv'
    BY <1>0, <1>2 DEF DoneInv
  <1> QED
    BY <1>1, <1>3, <1>4, <1>5, <1>6, <1>7, <1>8

LEMMA ProposeStep ==
  ASSUME IndInv, NEW w \in Workers, NEW op \in Ops, ProposeMutation(w, op)
  PROVE  IndInv'
  <1> DEFINE r == job[w]
             fp == [op |-> op, rev |-> seen[w]]
  <1> USE DEF IndInv, ProposeMutation, SaveRun, Goto, remoteVars
  <1>0. r \in Runs /\ approved[r] = None /\ fp \in Fingerprint /\ fp # None
    BY NoneIsNoValue DEF RowInv, PlanInv, Fingerprint, RevisionIs, ConnectionInv
  <1>1. TypeOK'
    BY <1>0 DEF TypeOK, Statuses, Pending, Labels
  <1>2. /\ status'[r] = "awaiting_confirmation" /\ proposal'[r] = fp
        /\ pc'[w] = "saved"
        /\ \A s \in Runs \ {r} : status'[s] = status[s] /\ proposal'[s] = proposal[s]
        /\ \A v \in Workers \ {w} : pc'[v] = pc[v] /\ held'[v] = held[v]
    BY <1>0 DEF TypeOK
  <1>3. ConnectionInv' /\ AppliedInv'
    BY DEF ConnectionInv, AppliedInv
  <1>4. RowInv'
    BY <1>0, <1>2 DEF RowInv
  <1>5. PlanInv'
    BY <1>0, <1>2 DEF PlanInv, RowInv, Terminal
  <1>6. ExecInv'
    BY <1>2 DEF ExecInv, Executing, Checked
  <1>7. ClaimInv'
    BY <1>2 DEF ClaimInv, Holding
  <1>8. DoneInv'
    BY <1>0, <1>2 DEF DoneInv
  <1> QED
    BY <1>1, <1>3, <1>4, <1>5, <1>6, <1>7, <1>8

LEMMA CheckStep ==
  ASSUME IndInv, NEW w \in Workers, CheckApproval(w)
  PROVE  IndInv'
  <1> USE DEF IndInv, CheckApproval, Goto, rowVars, remoteVars
  <1>1. TypeOK'
    BY DEF TypeOK, Labels
  <1>2. /\ pc[w] = "checking" /\ pc'[w] = "claiming" /\ seen'[w] = held[w].rev
        /\ \A v \in Workers \ {w} : pc'[v] = pc[v] /\ seen'[v] = seen[v]
    BY DEF TypeOK, RevisionIs
  <1>3. ConnectionInv' /\ RowInv' /\ AppliedInv' /\ DoneInv'
    BY <1>2 DEF ConnectionInv, RowInv, AppliedInv, DoneInv
  <1>4. PlanInv'
    BY <1>2 DEF PlanInv
  <1>5. ExecInv'
    BY <1>2 DEF ExecInv, Executing, Checked
  <1>6. ClaimInv'
    BY <1>2 DEF ClaimInv, Holding
  <1> QED
    BY <1>1, <1>3, <1>4, <1>5, <1>6

LEMMA ClaimStep ==
  ASSUME IndInv, NEW w \in Workers, ClaimMutation(w)
  PROVE  IndInv'
  <1> DEFINE r == job[w]
  <1> USE DEF IndInv, ClaimMutation, Goto, remoteVars
  <1>0. r \in Runs /\ FingerprintOf(w) = held[w] /\ held[w] \in Fingerprint /\ held[w] # None
    BY FingerprintIsHeld, NoneIsNoValue DEF RowInv, Checked
  <1>1. TypeOK'
    BY <1>0 DEF TypeOK, Labels
  <1>2. /\ claim[r] = None /\ claim'[r] = held[w]
        /\ \A s \in Runs : claim[s] # held[w]
        /\ \A s \in Runs \ {r} : claim'[s] = claim[s]
        /\ pc[w] = "claiming" /\ pc'[w] = "claimed"
        /\ \A v \in Workers \ {w} : pc'[v] = pc[v]
    BY <1>0 DEF TypeOK, Claimable
  <1>3. ConnectionInv' /\ RowInv' /\ DoneInv'
    BY <1>2 DEF ConnectionInv, RowInv, DoneInv
  <1>4. PlanInv'
    BY <1>2 DEF PlanInv
  <1>5. ExecInv'
    BY <1>2 DEF ExecInv, Executing, Checked
  <1>6. ClaimInv'
    <2>1. applied[held[w]] = <<>>
      BY <1>0, <1>2 DEF AppliedInv
    <2>2. \A v \in Workers : pc[v] \in Holding => job[v] # r
      BY <1>0, <1>2, NoneIsNoValue DEF ClaimInv, ExecInv, Holding, Executing
    <2>3. \A s, t \in Runs : claim'[s] # None /\ claim'[s] = claim'[t] => s = t
      BY <1>2 DEF ClaimInv
    <2>4. ASSUME NEW v \in Workers
          PROVE  /\ pc'[v] \in Holding => claim'[job[v]] = held[v] /\ applied[held[v]] = <<>>
                 /\ pc'[v] = "replied" => applied[held[v]] = <<job[v]>>
      <3>1. CASE v = w
        BY <1>2, <2>1, <3>1
      <3>2. CASE v # w
        <4>1. pc'[v] = pc[v] /\ (pc[v] \in Holding => job[v] \in Runs \ {r})
          BY <1>2, <2>2, <3>2 DEF RowInv, Holding
        <4> QED
          BY <1>2, <4>1 DEF ClaimInv
      <3> QED
        BY <3>1, <3>2
    <2> QED
      <3>1. \A u, v \in Workers : pc'[u] \in Holding /\ pc'[v] \in Holding /\ job[u] = job[v] => u = v
        BY <1>2, <2>2 DEF ClaimInv, Holding
      <3> QED
        BY <2>3, <2>4, <3>1 DEF ClaimInv
  <1>7. AppliedInv'
    BY <1>2, NoneIsNoValue DEF AppliedInv
  <1> QED
    BY <1>1, <1>3, <1>4, <1>5, <1>6, <1>7

LEMMA RecheckStep ==
  ASSUME IndInv, NEW w \in Workers, RecheckAccess(w)
  PROVE  IndInv'
  <1> USE DEF IndInv, RecheckAccess, Goto, rowVars, remoteVars
  <1>1. TypeOK'
    BY DEF TypeOK, Labels
  <1>2. /\ pc[w] = "claimed" /\ pc'[w] = "sending"
        /\ \A v \in Workers \ {w} : pc'[v] = pc[v]
    BY DEF TypeOK
  <1>3. ConnectionInv' /\ RowInv' /\ AppliedInv' /\ DoneInv'
    BY <1>2 DEF ConnectionInv, RowInv, AppliedInv, DoneInv
  <1>4. PlanInv'
    BY <1>2 DEF PlanInv
  <1>5. ExecInv'
    BY <1>2 DEF ExecInv, Executing, Checked
  <1>6. ClaimInv'
    BY <1>2 DEF ClaimInv, Holding
  <1> QED
    BY <1>1, <1>3, <1>4, <1>5, <1>6

(* The fingerprint of a worker that sends was never applied, and its run   *)
(* is approved for it.                                                     *)
LEMMA SendFacts ==
  ASSUME IndInv, NEW w \in Workers, SendMutation(w)
  PROVE  /\ job[w] \in Runs /\ held[w] \in Fingerprint
         /\ approved[job[w]] = held[w] /\ claim[job[w]] = held[w]
         /\ applied[held[w]] = <<>>
         /\ applied' = [applied EXCEPT ![held[w]] = <<job[w]>>]
  <1>1. job[w] \in Runs /\ held[w] \in Fingerprint /\ FingerprintOf(w) = held[w]
    BY FingerprintIsHeld DEF IndInv, RowInv, SendMutation, Checked
  <1>2. approved[job[w]] = held[w] /\ claim[job[w]] = held[w] /\ applied[held[w]] = <<>>
    BY DEF IndInv, ExecInv, ClaimInv, SendMutation, Executing, Holding
  <1>3. Append(applied[held[w]], job[w]) = <<job[w]>>
    BY <1>1, <1>2
  <1> QED
    BY <1>1, <1>2, <1>3 DEF SendMutation

LEMMA SendStep ==
  ASSUME IndInv, NEW w \in Workers, SendMutation(w)
  PROVE  IndInv'
  <1> DEFINE r == job[w]
             fp == held[w]
  <1> USE DEF IndInv, rowVars
  <1>0. /\ r \in Runs /\ fp \in Fingerprint
        /\ approved[r] = fp /\ claim[r] = fp /\ applied[fp] = <<>>
        /\ applied' = [applied EXCEPT ![fp] = <<r>>]
        /\ pc[w] = "sending"
        /\ pc' = [pc EXCEPT ![w] = "replied"] \/ pc' = [pc EXCEPT ![w] = "failing"]
        /\ UNCHANGED <<rowVars, access, revision, connected, job, held, seen, verdict, elapsed>>
    BY SendFacts DEF SendMutation, Goto
  <1>1. TypeOK'
    <2>1. <<r>> \in Seq(Runs)
      BY <1>0
    <2>2. applied' \in [Fingerprint -> Seq(Runs)]
      BY <1>0, <2>1 DEF TypeOK
    <2>3. pc' \in [Workers -> Labels]
      BY <1>0 DEF TypeOK, Labels
    <2> QED
      BY <1>0, <2>2, <2>3 DEF TypeOK
  <1>2. /\ pc'[w] \in {"replied", "failing"}
        /\ \A v \in Workers \ {w} : pc'[v] = pc[v]
        /\ applied'[fp] = <<r>>
        /\ \A g \in Fingerprint \ {fp} : applied'[g] = applied[g]
    BY <1>0 DEF TypeOK
  <1>3. ConnectionInv' /\ RowInv'
    BY <1>0, <1>2 DEF ConnectionInv, RowInv
  <1>4. PlanInv'
    BY <1>0, <1>2 DEF PlanInv
  <1>5. ExecInv'
    BY <1>0, <1>2 DEF ExecInv, Executing, Checked
  <1>6. ClaimInv'
    <2>1. \A v \in Workers \ {w} :
            pc[v] \in Holding \cup {"replied"} => held[v] # fp
      BY <1>0, <1>2, NoneIsNoValue DEF ClaimInv, RowInv, Holding
    <2>2. \A v \in Workers : pc[v] \in Holding \cup {"replied"} => held[v] \in Fingerprint
      BY DEF ExecInv, TypeOK, Holding, Executing
    <2>3. ASSUME NEW v \in Workers
          PROVE  /\ pc'[v] \in Holding => claim[job[v]] = held[v] /\ applied'[held[v]] = <<>>
                 /\ pc'[v] = "replied" => applied'[held[v]] = <<job[v]>>
      <3>1. CASE v = w
        BY <1>2, <3>1 DEF Holding
      <3>2. CASE v # w
        <4>1. pc'[v] = pc[v]
          BY <1>2, <3>2
        <4>2. pc[v] \in Holding \cup {"replied"} => applied'[held[v]] = applied[held[v]]
          BY <1>2, <2>1, <2>2, <3>2
        <4> QED
          BY <4>1, <4>2 DEF ClaimInv
      <3> QED
        BY <3>1, <3>2
    <2>4. \A v \in Workers : pc'[v] \in Holding => pc[v] \in Holding
      BY <1>0, <1>2 DEF Holding
    <2> QED
      BY <1>0, <2>3, <2>4 DEF ClaimInv
  <1>7. AppliedInv'
    BY <1>0, <1>2 DEF AppliedInv
  <1>8. DoneInv'
    BY <1>0, <1>2, NoneIsNoValue DEF DoneInv, TypeOK
  <1> QED
    BY <1>1, <1>3, <1>4, <1>5, <1>6, <1>7, <1>8

LEMMA FinishStep ==
  ASSUME IndInv, NEW w \in Workers, FinishMutation(w)
  PROVE  IndInv'
  <1> DEFINE r == job[w]
  <1> USE DEF IndInv, remoteVars
  <1>0. /\ r \in Runs /\ held[w] = approved[r] /\ applied[approved[r]] = <<r>>
        /\ approved[r] # None
    BY DEF FinishMutation, Confirmed, RowInv, ExecInv, ClaimInv, Executing
  <1>1. /\ pc' = [pc EXCEPT ![w] = "saved"]
        /\ status' = [status EXCEPT ![r] = "done"]
        /\ proposal' = [proposal EXCEPT ![r] = held[w]]
        /\ UNCHANGED <<conv, reqKey, expired, age, posting, approved, claim, remoteVars,
                       job, held, seen, verdict, elapsed>>
    BY DEF FinishMutation, SaveRun, Goto
  <1>2. TypeOK'
    BY <1>0, <1>1 DEF TypeOK, Statuses, Terminal, Labels
  <1>3. /\ status'[r] = "done" /\ pc'[w] = "saved"
        /\ \A s \in Runs \ {r} : status'[s] = status[s] /\ proposal'[s] = proposal[s]
        /\ \A v \in Workers \ {w} : pc'[v] = pc[v]
    BY <1>0, <1>1 DEF TypeOK
  <1>4. ConnectionInv' /\ AppliedInv'
    BY <1>1 DEF ConnectionInv, AppliedInv
  <1>5. RowInv'
    BY <1>0, <1>1, <1>3 DEF RowInv
  <1>6. PlanInv'
    BY <1>0, <1>1, <1>3 DEF PlanInv, RowInv, Terminal
  <1>7. ExecInv'
    BY <1>1, <1>3 DEF ExecInv, Executing, Checked
  <1>8. ClaimInv'
    BY <1>1, <1>3 DEF ClaimInv, Holding
  <1>9. DoneInv'
    BY <1>0, <1>1, <1>3 DEF DoneInv
  <1> QED
    BY <1>2, <1>4, <1>5, <1>6, <1>7, <1>8, <1>9

LEMMA FailureStep ==
  ASSUME IndInv, NEW w \in Workers, SaveFailure(w)
  PROVE  IndInv'
  <1> DEFINE r == job[w]
  <1> USE DEF IndInv, remoteVars
  <1>0. r \in Runs
    BY DEF SaveFailure, RowInv
  <1>1. /\ status' = [status EXCEPT ![r] = verdict[w]]
        /\ proposal' = [proposal EXCEPT ![r] = held[w]]
        /\ pc' = [pc EXCEPT ![w] = "idle"]
        /\ \A v \in Workers \ {w} : job'[v] = job[v] /\ held'[v] = held[v] /\ seen'[v] = seen[v]
        /\ UNCHANGED <<conv, reqKey, expired, age, posting, approved, claim, remoteVars>>
    BY DEF SaveFailure, Release, Goto, TypeOK
  <1>2. TypeOK'
    <2>1. status' \in [Runs -> Statuses] /\ proposal' \in [Runs -> Fingerprint \cup {None}]
      BY <1>0, <1>1 DEF TypeOK, Statuses, Terminal
    <2> QED
      <3>1. /\ pc' \in [Workers -> Labels]
            /\ job' \in [Workers -> Runs \cup {None}]
            /\ held' \in [Workers -> Fingerprint \cup {None}]
            /\ seen' \in [Workers -> 0..MaxRevision]
            /\ verdict' \in [Workers -> {"failed", "unknown"}]
            /\ elapsed' \in [Workers -> 0..HardLimit]
        BY ReleaseTypes DEF SaveFailure
      <3> QED
        BY <1>1, <2>1, <3>1 DEF TypeOK
  <1>3. /\ status'[r] \in {"failed", "unknown"} /\ pc'[w] = "idle"
        /\ \A s \in Runs \ {r} : status'[s] = status[s] /\ proposal'[s] = proposal[s]
        /\ \A v \in Workers \ {w} : pc'[v] = pc[v]
    BY <1>0, <1>1 DEF TypeOK
  <1>4. ConnectionInv' /\ AppliedInv'
    BY <1>1 DEF ConnectionInv, AppliedInv
  <1>5. RowInv'
    BY <1>0, <1>1, <1>3 DEF RowInv
  <1>6. PlanInv'
    BY <1>0, <1>1, <1>3 DEF PlanInv, RowInv, Terminal
  <1>7. ExecInv'
    BY <1>1, <1>3 DEF ExecInv, Executing, Checked
  <1>8. ClaimInv'
    <2>1. \A v \in Workers : pc'[v] \in Holding \cup {"replied"} =>
                             v # w /\ pc'[v] = pc[v] /\ job'[v] = job[v] /\ held'[v] = held[v]
      BY <1>1, <1>3 DEF Holding
    <2>2. claim' = claim /\ applied' = applied /\ ClaimInv
      BY <1>1
    <2> HIDE DEF IndInv
    <2> QED
      BY <2>1, <2>2 DEF ClaimInv
  <1>9. DoneInv'
    BY <1>0, <1>1, <1>3 DEF DoneInv
  <1> QED
    BY <1>2, <1>4, <1>5, <1>6, <1>7, <1>8, <1>9

LEMMA TickStep ==
  ASSUME IndInv, Tick
  PROVE  IndInv'
  <1> USE DEF IndInv, remoteVars
  <1>1. elapsed' \in [Workers -> 0..HardLimit]
    BY ChatConstants DEF Tick, TypeOK
  <1>2. age' \in [Runs -> 0..SweepAfter + 1]
    BY ChatConstants DEF Tick, TypeOK, Aging
  <1>3. TypeOK'
    BY <1>1, <1>2 DEF TypeOK, Tick
  <1> QED
    BY <1>3, CoreStutter DEF Tick, Core

(* The invariant is inductive.                                             *)
THEOREM Invariance == Spec => []IndInv
  <1>1. IndInv /\ [Next]_vars => IndInv'
    <2> SUFFICES ASSUME IndInv, [Next]_vars PROVE IndInv'
      OBVIOUS
    <2>1. CASE Manage
      BY <2>1, ManageStep
    <2>2. CASE Staff
      BY <2>2, PostStep, InsertStep, ApproveStep, RejectStep, ExpireStep DEF Staff
    <2>3. ASSUME NEW w \in Workers, Drain(w) \/ WorkerStep(w) \/ WorkerDies(w)
          PROVE  IndInv'
      BY <2>3, DrainStep, StartStep, QuietSteps, AnswerStep, ProposeStep, CheckStep, ClaimStep,
         RecheckStep, SendStep, FinishStep, FailureStep DEF WorkerStep
    <2>4. CASE Tick
      BY <2>4, TickStep
    <2>5. CASE UNCHANGED vars
      <3>1. TypeOK'
        BY <2>5 DEF IndInv, TypeOK, vars, rowVars, remoteVars, workerVars
      <3> QED
        BY <2>5, <3>1, CoreStutter DEF Core, vars, rowVars, remoteVars, workerVars
    <2> QED
      BY <2>1, <2>2, <2>3, <2>4, <2>5 DEF Next
  <1> QED
    BY <1>1, InitIndInv, PTL DEF Spec

----------------------------------------------------------------------------
(* Results.                                                                *)

(* Every variable keeps its type.                                          *)
THEOREM TypeCorrect == Spec => []TypeOK
  BY Invariance, PTL DEF IndInv

(* GHL applies a mutation at most once, whatever the workers, the failures *)
(* and the runs that ask for it.                                           *)
THEOREM MutationAtMostOnce == Spec => []AtMostOnceMutation
  <1>1. ASSUME IndInv, NEW fp \in Fingerprint PROVE Len(applied[fp]) =< 1
    <2>1. CASE applied[fp] = <<>>
      BY <2>1
    <2>2. ASSUME NEW r \in Runs, applied[fp] = <<r>> PROVE Len(applied[fp]) =< 1
      BY <2>2
    <2> QED
      BY <1>1, <2>1, <2>2 DEF IndInv, AppliedInv
  <1>2. IndInv => AtMostOnceMutation
    BY <1>1 DEF AtMostOnceMutation
  <1> QED
    BY <1>2, Invariance, PTL

(* GHL applies a mutation only for a run whose owner approved exactly it.  *)
THEOREM MutationApproved == Spec => []OnlyApprovedMutations
  <1>1. IndInv => OnlyApprovedMutations
    BY DEF IndInv, AppliedInv, OnlyApprovedMutations
  <1> QED
    BY <1>1, Invariance, PTL

(* An approved run that says done did change the account.                  *)
THEOREM DoneIsTrue == Spec => []DoneMeansExecuted
  <1>1. ASSUME IndInv, NEW r \in Runs, status[r] = "done", approved[r] # None
        PROVE  AppliedFor(r) # {}
    <2>1. approved[r] \in Fingerprint /\ applied[approved[r]] = <<r>>
      BY <1>1 DEF IndInv, TypeOK, DoneInv
    <2>2. 1 \in DOMAIN applied[approved[r]] /\ applied[approved[r]][1] = r
      BY <2>1
    <2> QED
      BY <2>1, <2>2 DEF AppliedFor
  <1>2. IndInv => DoneMeansExecuted
    BY <1>1 DEF DoneMeansExecuted
  <1> QED
    BY <1>2, Invariance, PTL

----------------------------------------------------------------------------
(* Time, requests and final answers.                                       *)

(* A worker that has started its run, and one that is still to save it.    *)
Working(w)  == pc[w] \notin {"idle", "picked"}
Deciding(w) == pc[w] \notin {"idle", "picked", "saved"}

(* A run that is being worked on is no older than the task of its worker,  *)
(* which Celery kills before the run is given up.                          *)
ClockInv ==
  \A w \in Workers : Working(w) /\ status[job[w]] \in Active => age[job[w]] =< elapsed[w]

(* A run is planned once, by one worker, and nobody else works on it.      *)
PlannerInv ==
  /\ \A w \in Workers : Working(w) => status[job[w]] \notin {"none", "queued"}
  /\ \A w \in Workers : pc[w] = "planning" => status[job[w]] = "running"
  /\ \A v, w \in Workers : pc[w] = "planning" /\ Working(v) /\ job[v] = job[w] => v = w

(* What a transaction of messages() has found under its lock still holds.  *)
PostingInv ==
  \A c \in Conversations : posting[c] # None => NothingPending(c) /\ NewKey(c, posting[c])

RequestInv == ClockInv /\ PlannerInv /\ PostingInv /\ OneRunPerRequest

(* Without failures after a save one worker decides about a run, which is  *)
(* as it left it.                                                          *)
DecideInv ==
  /\ \A w \in Workers :
       /\ pc[w] = "planning" => status[job[w]] = "running"
       /\ pc[w] \in Executing => status[job[w]] = "executing"
       /\ pc[w] \in {"failing", "judged"} => status[job[w]] \in Active
       /\ pc[w] = "judged" /\ verdict[w] = "failed" => claim[job[w]] = None
  /\ \A v, w \in Workers : Deciding(v) /\ Deciding(w) /\ job[v] = job[w] => v = w

(* A run that claimed a mutation neither fails nor is rejected.            *)
OutcomeInv == \A r \in Runs : claim[r] # None => status[r] \in {"executing", "done", "unknown"}

FinalInv == ClockInv /\ DecideInv /\ OutcomeInv

(* Nobody gives up a run that is being worked on.                          *)
LEMMA NotSwept ==
  ASSUME IndInv, ClockInv, NEW w \in Workers, Working(w)
  PROVE  ~Stale(job[w])
  <1>1. /\ job[w] \in Runs /\ age[job[w]] \in 0..SweepAfter + 1 /\ elapsed[w] \in 0..HardLimit
    BY DEF IndInv, RowInv, TypeOK, Working
  <1>2. status[job[w]] \in Active => age[job[w]] =< elapsed[w]
    BY DEF ClockInv
  <1> QED
    BY <1>1, <1>2, ChatConstants, KilledBeforeSwept DEF Stale

(* A worker's step is its own.                                             *)
LEMMA OthersStay ==
  ASSUME IndInv, NEW w \in Workers, Drain(w) \/ WorkerStep(w) \/ WorkerDies(w)
  PROVE  \A v \in Workers \ {w} : /\ pc'[v] = pc[v] /\ job'[v] = job[v]
                                  /\ elapsed'[v] = elapsed[v] /\ verdict'[v] = verdict[v]
  <1> USE DEF IndInv, TypeOK, Goto, Release
  <1>1. CASE Drain(w)
    BY <1>1 DEF Drain, workerVars
  <1>2. CASE StartRun(w) \/ LoseRun(w) \/ AnswerRun(w) \/ \E op \in Ops : ProposeMutation(w, op)
    BY <1>2 DEF StartRun, LoseRun, AnswerRun, ProposeMutation
  <1>3. CASE CheckApproval(w) \/ ClaimMutation(w) \/ RecheckAccess(w) \/ SendMutation(w)
    BY <1>3 DEF CheckApproval, ClaimMutation, RecheckAccess, SendMutation
  <1>4. CASE FinishMutation(w) \/ EndJob(w) \/ JobFails(w) \/ AuditFails(w)
    BY <1>4 DEF FinishMutation, EndJob, JobFails, AuditFails
  <1>5. CASE JudgeFailure(w) \/ SaveFailure(w) \/ WorkerDies(w)
    BY <1>5 DEF JudgeFailure, SaveFailure, WorkerDies
  <1> QED
    BY <1>1, <1>2, <1>3, <1>4, <1>5 DEF WorkerStep

(* What a step of a worker that has started its run does to it and to the  *)
(* row: nothing, or it saves the row.                                      *)
Passes(w) ==
  \/ LoseRun(w) \/ EndJob(w) \/ WorkerDies(w)
  \/ JobFails(w) \/ AuditFails(w) \/ JudgeFailure(w)
  \/ CheckApproval(w) \/ ClaimMutation(w) \/ RecheckAccess(w) \/ SendMutation(w)
Saves(w) ==
  AnswerRun(w) \/ (\E op \in Ops : ProposeMutation(w, op)) \/ FinishMutation(w) \/ SaveFailure(w)

LEMMA Passing ==
  ASSUME IndInv, NEW w \in Workers, Passes(w)
  PROVE  /\ UNCHANGED <<status, conv, reqKey, age, posting>>
         /\ \/ pc'[w] = "idle"
            \/ /\ Working(w) /\ pc'[w] \notin {"picked", "planning", "saved"}
               /\ job'[w] = job[w] /\ elapsed'[w] = elapsed[w]
  <1> USE DEF IndInv, TypeOK, rowVars, Working
  <1>1. CASE LoseRun(w) \/ EndJob(w) \/ WorkerDies(w)
    BY <1>1 DEF LoseRun, EndJob, WorkerDies, Release, Goto
  <1>2. CASE JobFails(w) \/ AuditFails(w) \/ JudgeFailure(w)
    BY <1>2 DEF JobFails, AuditFails, JudgeFailure, Goto
  <1>3. CASE CheckApproval(w) \/ ClaimMutation(w) \/ RecheckAccess(w) \/ SendMutation(w)
    BY <1>3 DEF CheckApproval, ClaimMutation, RecheckAccess, SendMutation, Goto
  <1> QED
    BY <1>1, <1>2, <1>3 DEF Passes

LEMMA Saving ==
  ASSUME IndInv, NEW w \in Workers, Saves(w)
  PROVE  /\ UNCHANGED <<conv, reqKey, age, posting, claim>>
         /\ Working(w) /\ job[w] \in Runs /\ pc'[w] \in {"saved", "idle"}
         /\ \A r \in Runs \ {job[w]} : status'[r] = status[r]
         /\ \/ status'[job[w]] = "done" /\ pc[w] \in {"planning", "replied"}
            \/ status'[job[w]] = "awaiting_confirmation" /\ pc[w] = "planning"
            \/ status'[job[w]] = verdict[w] /\ pc[w] = "judged"
         /\ pc'[w] = "saved" => job'[w] = job[w] /\ elapsed'[w] = elapsed[w]
  <1> USE DEF IndInv, TypeOK, Working
  <1>1. CASE AnswerRun(w) \/ \E op \in Ops : ProposeMutation(w, op)
    <2>1. job[w] \in Runs
      BY <1>1 DEF RowInv, AnswerRun, ProposeMutation
    <2> QED
      BY <1>1, <2>1 DEF AnswerRun, ProposeMutation, SaveRun, Goto
  <1>2. CASE FinishMutation(w)
    <2>1. job[w] \in Runs
      BY <1>2 DEF RowInv, FinishMutation, Confirmed
    <2> QED
      BY <1>2, <2>1 DEF FinishMutation, Confirmed, SaveRun, Goto
  <1>3. CASE SaveFailure(w)
    <2>1. job[w] \in Runs
      BY <1>3 DEF RowInv, SaveFailure
    <2> QED
      BY <1>3, <2>1 DEF SaveFailure, Release, Goto
  <1> QED
    BY <1>1, <1>2, <1>3 DEF Saves

LEMMA Starting ==
  ASSUME IndInv, NEW w \in Workers, StartRun(w)
  PROVE  /\ UNCHANGED <<conv, reqKey, posting, claim, job, elapsed, verdict>>
         /\ job[w] \in Runs /\ status[job[w]] \in Queued /\ pc[w] = "picked"
         /\ \/ status[job[w]] = "queued" /\ status'[job[w]] = "running" /\ pc'[w] = "planning"
            \/ status[job[w]] = "execute_queued" /\ status'[job[w]] = "executing" /\ pc'[w] = "checking"
         /\ age'[job[w]] = 0
         /\ \A r \in Runs \ {job[w]} : status'[r] = status[r] /\ age'[r] = age[r]
  <1>1. job[w] \in Runs
    BY DEF IndInv, RowInv, StartRun
  <1> QED
    BY <1>1 DEF IndInv, TypeOK, StartRun, Goto, Queued

LEMMA Draining ==
  ASSUME IndInv, NEW w \in Workers, Drain(w)
  PROVE  /\ UNCHANGED <<conv, reqKey, posting, claim, age, elapsed, verdict>>
         /\ \A r \in Runs : IF Stale(r) THEN status[r] \in Active /\ status'[r] \in {"failed", "unknown"}
                            ELSE status'[r] = status[r]
         /\ \A r \in Runs : Stale(r) /\ status[r] = "executing" => status'[r] = "unknown"
         /\ pc'[w] \in {"idle", "picked"}
  <1>1. \A r \in Runs : status'[r] = IF Stale(r) THEN SweptTo(status[r]) ELSE status[r]
    BY DEF Drain
  <1>2. pc'[w] \in {"idle", "picked"}
    BY DEF IndInv, TypeOK, Drain, Goto, workerVars
  <1> QED
    BY <1>1, <1>2 DEF Drain, Stale, SweptTo, workerVars

(* What staff and managers leave to the workers, and what they do to the   *)
(* status of a run.                                                        *)
LEMMA StaffLeaves ==
  ASSUME Manage \/ Staff
  PROVE  UNCHANGED <<age, claim, pc, job, elapsed, verdict>>
  <1> USE DEF rowVars, workerVars
  <1>1. CASE Manage
    BY <1>1 DEF Manage, SetAccess, SaveConnection, DeleteConnection
  <1>2. CASE Staff
    BY <1>2 DEF Staff, PostMessage, AbortPost, InsertRun, Approve, Reject, Expire
  <1> QED
    BY <1>1, <1>2

LEMMA StaffStatus ==
  ASSUME IndInv, Manage \/ Staff, NEW r \in Runs
  PROVE  \/ status'[r] = status[r]
         \/ status[r] = "none" /\ status'[r] = "queued"
         \/ status[r] = "awaiting_confirmation" /\ status'[r] \in {"execute_queued", "rejected"}
  <1> USE DEF IndInv, TypeOK, rowVars
  <1>1. CASE Manage
    BY <1>1 DEF Manage, SetAccess, SaveConnection, DeleteConnection
  <1>2. ASSUME NEW c \in Conversations, (\E k \in Keys : PostMessage(c, k)) \/ AbortPost(c)
        PROVE  UNCHANGED status
    BY <1>2 DEF PostMessage, AbortPost
  <1>3. ASSUME NEW c \in Conversations, NEW s \in Runs, InsertRun(c, s)
        PROVE  status'[r] = status[r] \/ (status[r] = "none" /\ status'[r] = "queued")
    BY <1>3 DEF InsertRun, Created
  <1>4. ASSUME NEW s \in Runs, Approve(s) \/ Reject(s) \/ Expire(s)
        PROVE  \/ status'[r] = status[r]
               \/ status[r] = "awaiting_confirmation" /\ status'[r] \in {"execute_queued", "rejected"}
    BY <1>4 DEF Approve, Reject, Expire
  <1> QED
    BY <1>1, <1>2, <1>3, <1>4 DEF Staff

(* The clock: what is not started keeps the bound, and so does a tick.     *)
LEMMA ClockStep ==
  ASSUME IndInv, ClockInv, [Next]_vars
  PROVE  ClockInv'
  <1>0. \A w \in Workers : Working(w) => job[w] \in Runs
    BY DEF IndInv, RowInv, Working
  <1>1. CASE Manage \/ Staff
    <2>1. ASSUME NEW w \in Workers, Working(w)', status'[job'[w]] \in Active
          PROVE  age'[job'[w]] =< elapsed'[w]
      <3>1. Working(w) /\ job[w] \in Runs /\ job'[w] = job[w]
        BY <1>0, <1>1, <2>1, StaffLeaves DEF Working
      <3>2. status'[job[w]] = status[job[w]]
        BY <1>1, <2>1, <3>1, StaffStatus DEF Active
      <3> QED
        BY <1>1, <2>1, <3>1, <3>2, StaffLeaves DEF ClockInv
    <2> QED
      BY <2>1 DEF ClockInv
  <1>2. ASSUME NEW w \in Workers, Drain(w) \/ WorkerStep(w) \/ WorkerDies(w)
        PROVE  ClockInv'
    <2>1. ASSUME NEW v \in Workers, Working(v)', status'[job'[v]] \in Active
          PROVE  age'[job'[v]] =< elapsed'[v]
      <3>1. CASE Drain(w)
        BY <1>0, <1>2, <2>1, <3>1, Draining, OthersStay DEF ClockInv, Working, Active
      <3>2. CASE StartRun(w)
        <4>1. elapsed[v] \in 0..HardLimit
          BY DEF IndInv, TypeOK
        <4> QED
          BY <1>0, <1>2, <2>1, <3>2, <4>1, Starting, OthersStay, ChatConstants DEF ClockInv, Working
      <3>3. CASE Passes(w)
        BY <1>0, <1>2, <2>1, <3>3, Passing, OthersStay DEF ClockInv, Working
      <3>4. CASE Saves(w)
        <4>1. verdict[w] \in {"failed", "unknown"}
          BY DEF IndInv, TypeOK
        <4> QED
          BY <1>0, <1>2, <2>1, <3>4, <4>1, Saving, OthersStay DEF ClockInv, Working, Active
      <3> QED
        BY <1>2, <3>1, <3>2, <3>3, <3>4 DEF WorkerStep, Passes, Saves
    <2> QED
      BY <2>1 DEF ClockInv
  <1>3. CASE Tick
    <2>1. ASSUME NEW w \in Workers, Working(w), status[job[w]] \in Active
          PROVE  age'[job[w]] =< elapsed'[w]
      <3>1. /\ age[job[w]] =< elapsed[w] /\ job[w] \in Runs
            /\ age[job[w]] \in 0..SweepAfter + 1 /\ elapsed[w] \in 0..HardLimit
        BY <1>0, <2>1 DEF ClockInv, IndInv, TypeOK
      <3>2. elapsed'[w] = elapsed[w] + 1
        BY <1>3, <2>1 DEF Tick, Busy, Working
      <3>3. age'[job[w]] \in {age[job[w]], age[job[w]] + 1}
        BY <1>3, <3>1 DEF Tick
      <3> QED
        BY <3>1, <3>2, <3>3, ChatConstants
    <2> QED
      BY <1>3, <2>1 DEF Tick, ClockInv, Working
  <1>4. CASE UNCHANGED vars
    BY <1>4 DEF vars, rowVars, workerVars, ClockInv, Working
  <1> QED
    BY <1>1, <1>2, <1>3, <1>4 DEF Next

(* Whoever plans a run is alone with it.                                   *)
LEMMA PlannerStep ==
  ASSUME IndInv, ClockInv, PlannerInv, [Next]_vars
  PROVE  PlannerInv'
  <1>0. \A w \in Workers : Working(w) => job[w] \in Runs
    BY DEF IndInv, RowInv, Working
  <1>1. CASE Manage \/ Staff
    <2>1. UNCHANGED <<pc, job>>
      BY <1>1, StaffLeaves
    <2>2. ASSUME NEW w \in Workers, Working(w)
          PROVE  \/ status'[job[w]] = status[job[w]]
                 \/ status[job[w]] # "running" /\ status'[job[w]] \notin {"none", "queued"}
      BY <1>0, <1>1, <2>2, StaffStatus DEF PlannerInv
    <2> QED
      BY <2>1, <2>2 DEF PlannerInv, Working
  <1>2. ASSUME NEW w \in Workers, Drain(w) \/ WorkerStep(w) \/ WorkerDies(w)
        PROVE  PlannerInv'
    <2>0. \A v \in Workers \ {w} : pc'[v] = pc[v] /\ job'[v] = job[v]
      BY <1>2, OthersStay
    <2>1. CASE Drain(w)
      <3>1. \A v \in Workers : Working(v) => status'[job[v]] = status[job[v]]
        BY <1>0, <2>1, Draining, NotSwept
      <3>2. ~Working(w)'
        BY <2>1, Draining DEF Working
      <3> QED
        BY <2>0, <3>1, <3>2 DEF PlannerInv, Working
    <2>2. CASE StartRun(w)
      <3> DEFINE r == job[w]
      <3>1. /\ job'[w] = r /\ r \in Runs
            /\ \/ status[r] = "queued" /\ status'[r] = "running" /\ pc'[w] = "planning"
               \/ status[r] = "execute_queued" /\ status'[r] = "executing" /\ pc'[w] = "checking"
            /\ \A s \in Runs \ {r} : status'[s] = status[s]
        BY <2>2, Starting
      <3> HIDE DEF r
      <3>2. \A v \in Workers : Working(v) /\ job[v] = r => pc[v] # "planning" /\ status[r] # "queued"
        BY <3>1 DEF PlannerInv
      <3> QED
        BY <1>0, <2>0, <3>1, <3>2 DEF PlannerInv, Working
    <2>3. CASE Passes(w)
      BY <2>0, <2>3, Passing DEF PlannerInv, Working
    <2>4. CASE Saves(w)
      <3> DEFINE r == job[w]
      <3>1. /\ Working(w) /\ r \in Runs /\ pc'[w] \in {"saved", "idle"}
            /\ status'[r] \notin {"none", "queued"}
            /\ \A s \in Runs \ {r} : status'[s] = status[s]
            /\ pc'[w] = "saved" => job'[w] = r
        BY <2>4, Saving DEF IndInv, TypeOK
      <3> HIDE DEF r
      <3>2. \A v \in Workers \ {w} : pc[v] = "planning" => job[v] # r
        BY <3>1 DEF PlannerInv, r
      <3> QED
        BY <1>0, <2>0, <3>1, <3>2 DEF PlannerInv, Working
    <2> QED
      BY <1>2, <2>1, <2>2, <2>3, <2>4 DEF WorkerStep, Passes, Saves
  <1>3. CASE Tick \/ UNCHANGED vars
    BY <1>3 DEF Tick, vars, rowVars, workerVars, PlannerInv, Working
  <1> QED
    BY <1>1, <1>2, <1>3 DEF Next

(* A step that neither creates a run nor makes one pending again.          *)
Settles(r) ==
  \/ status'[r] = status[r]
  \/ /\ status[r] # "none" /\ status'[r] # "none"
     /\ status'[r] \in Pending => status[r] \in Pending

LEMMA SettlingStep ==
  ASSUME PostingInv, OneRunPerRequest, UNCHANGED <<conv, reqKey, posting>>,
         \A r \in Runs : Settles(r)
  PROVE  PostingInv' /\ OneRunPerRequest'
  BY DEF PostingInv, OneRunPerRequest, NothingPending, NewKey, RunsOf, Created, Settles

(* messages() from its checks to its insert.                               *)
LEMMA PostingStep ==
  ASSUME IndInv, PostingInv, OneRunPerRequest, NEW c \in Conversations,
         \/ \E k \in Keys : PostMessage(c, k)
         \/ AbortPost(c)
         \/ \E r \in Runs : InsertRun(c, r)
  PROVE  PostingInv' /\ OneRunPerRequest'
  <1> USE DEF NothingPending, NewKey, RunsOf, Created
  <1>1. CASE (\E k \in Keys : PostMessage(c, k)) \/ AbortPost(c)
    <2>1. UNCHANGED <<status, conv, reqKey>>
      BY <1>1 DEF PostMessage, AbortPost
    <2>2. \A d \in Conversations : posting'[d] # None =>
            posting'[d] = posting[d] \/ (NothingPending(d) /\ NewKey(d, posting'[d]))
      BY <1>1 DEF PostMessage, AbortPost, IndInv, TypeOK
    <2> QED
      BY <2>1, <2>2 DEF PostingInv, OneRunPerRequest
  <1>2. ASSUME NEW r \in Runs, InsertRun(c, r)
        PROVE  PostingInv' /\ OneRunPerRequest'
    <2>1. /\ posting[c] # None /\ status[r] = "none"
          /\ status'[r] = "queued" /\ conv'[r] = c /\ reqKey'[r] = posting[c]
          /\ posting'[c] = None
          /\ \A s \in Runs \ {r} :
               status'[s] = status[s] /\ conv'[s] = conv[s] /\ reqKey'[s] = reqKey[s]
          /\ \A d \in Conversations \ {c} : posting'[d] = posting[d]
      BY <1>2 DEF InsertRun, IndInv, TypeOK
    <2>2. PostingInv'
      BY <2>1 DEF PostingInv
    <2>3. \A s \in Runs \ {r} : status[s] # "none" /\ conv[s] = c =>
            status[s] \notin Pending /\ reqKey[s] # posting[c]
      BY <2>1 DEF PostingInv
    <2>4. OneRunPerRequest'
      BY <2>1, <2>3 DEF OneRunPerRequest
    <2> QED
      BY <2>2, <2>4
  <1> QED
    BY <1>1, <1>2

LEMMA RequestStep ==
  ASSUME IndInv, RequestInv, [Next]_vars
  PROVE  PostingInv' /\ OneRunPerRequest'
  <1> USE DEF RequestInv
  <1>1. CASE Manage \/ \E r \in Runs : Approve(r) \/ Reject(r) \/ Expire(r)
    <2>1. UNCHANGED <<conv, reqKey, posting>>
      BY <1>1 DEF Manage, SetAccess, SaveConnection, DeleteConnection, Approve, Reject, Expire, rowVars
    <2>2. ASSUME NEW r \in Runs PROVE Settles(r)
      <3>1. CASE status[r] # "none"
        BY <1>1, <3>1, StaffStatus DEF Staff, Settles, Pending, Queued
      <3>2. CASE status[r] = "none"
        BY <1>1, <3>2 DEF Manage, SetAccess, SaveConnection, DeleteConnection, Approve, Reject,
           Expire, rowVars, Settles, IndInv, TypeOK
      <3> QED
        BY <3>1, <3>2
    <2> QED
      BY <2>1, <2>2, SettlingStep
  <1>2. ASSUME NEW w \in Workers, Drain(w) \/ WorkerStep(w) \/ WorkerDies(w)
        PROVE  PostingInv' /\ OneRunPerRequest'
    <2>1. UNCHANGED <<conv, reqKey, posting>>
      BY <1>2, Draining, Starting, Passing, Saving DEF WorkerStep, Passes, Saves
    <2>2. ASSUME NEW r \in Runs PROVE Settles(r)
      <3>1. CASE Drain(w)
        BY <3>1, Draining DEF Settles, Active, Pending
      <3>2. CASE StartRun(w)
        BY <3>2, Starting DEF Settles, Active, Queued, Pending
      <3>3. CASE Passes(w)
        BY <3>3, Passing DEF Settles
      <3>4. CASE Saves(w)
        <4>1. status[job[w]] # "none" /\ (pc[w] = "planning" => status[job[w]] = "running")
          BY <3>4, Saving DEF PlannerInv
        <4>2. verdict[w] \in {"failed", "unknown"}
          BY DEF IndInv, TypeOK
        <4> QED
          BY <3>4, <4>1, <4>2, Saving DEF Settles, Active, Queued, Pending
      <3> QED
        BY <1>2, <3>1, <3>2, <3>3, <3>4 DEF WorkerStep, Passes, Saves
    <2> QED
      BY <2>1, <2>2, SettlingStep
  <1>3. CASE Tick \/ UNCHANGED vars
    <2>1. UNCHANGED <<status, conv, reqKey, posting>>
      BY <1>3 DEF Tick, vars, rowVars
    <2> QED
      BY <2>1, SettlingStep DEF Settles
  <1> QED
    BY <1>1, <1>2, <1>3, PostingStep DEF Next, Staff

(* A conversation has at most one pending run, and a request key repeated  *)
(* by a client never makes a second run: the lock of messages() is enough, *)
(* although the workers change the same rows without it.                   *)
THEOREM OneRun == Spec => []OneRunPerRequest
  <1>1. Init => RequestInv
    BY DEF Init, RequestInv, ClockInv, PlannerInv, PostingInv, OneRunPerRequest, Working, Created,
       NothingPending
  <1>2. IndInv /\ RequestInv /\ [Next]_vars => RequestInv'
    BY ClockStep, PlannerStep, RequestStep DEF RequestInv
  <1>3. RequestInv => OneRunPerRequest
    BY DEF RequestInv
  <1> QED
    BY <1>1, <1>2, <1>3, Invariance, PTL DEF Spec

(* What a worker does to the claims and to itself on its way to a save.    *)
LEMMA Deciders ==
  ASSUME IndInv, DecideInv, ~LateFailures, NEW w \in Workers, Passes(w)
  PROVE  /\ \A r \in Runs \ {job[w]} : claim'[r] = claim[r]
         /\ claim'[job[w]] # claim[job[w]] => pc[w] = "claiming" /\ pc'[w] = "claimed"
         /\ \/ pc'[w] = "idle"
            \/ /\ Deciding(w) /\ job'[w] = job[w]
               /\ \/ pc[w] \in Executing /\ pc'[w] \in Executing
                  \/ pc[w] \in Executing \cup {"planning"} /\ pc'[w] = "failing"
                  \/ /\ pc[w] = "failing" /\ pc'[w] = "judged"
                     /\ verdict'[w] = "failed" => claim[job[w]] = None
                     /\ claim' = claim
  <1> USE DEF IndInv, TypeOK, rowVars, Deciding, Executing
  <1>1. CASE LoseRun(w) \/ EndJob(w) \/ WorkerDies(w) \/ AuditFails(w)
    BY <1>1 DEF LoseRun, EndJob, WorkerDies, Release, Goto, AuditFails
  <1>2. CASE JobFails(w)
    BY <1>2 DEF JobFails, Goto
  <1>3. CASE JudgeFailure(w)
    BY <1>3 DEF JudgeFailure, Goto, FailureVerdict
  <1>4. CASE CheckApproval(w) \/ RecheckAccess(w) \/ SendMutation(w)
    BY <1>4 DEF CheckApproval, RecheckAccess, SendMutation, Goto
  <1>5. CASE ClaimMutation(w)
    BY <1>5 DEF ClaimMutation, Goto
  <1> QED
    BY <1>1, <1>2, <1>3, <1>4, <1>5 DEF Passes

(* One worker decides about a run.                                         *)
LEMMA DecideStep ==
  ASSUME IndInv, FinalInv, ~LateFailures, [Next]_vars
  PROVE  DecideInv'
  <1> USE DEF FinalInv
  <1>0. \A w \in Workers : Deciding(w) => Working(w) /\ job[w] \in Runs
    BY DEF IndInv, RowInv, Working, Deciding
  <1>a. \A w \in Workers : Deciding(w) => status[job[w]] \in Active
    BY DEF DecideInv, Deciding, Executing, Active, IndInv, TypeOK, Labels
  <1>1. CASE Manage \/ Staff
    <2>1. UNCHANGED <<claim, pc, job, verdict>>
      BY <1>1, StaffLeaves
    <2>2. \A w \in Workers : Deciding(w) => status'[job[w]] = status[job[w]]
      BY <1>0, <1>a, <1>1, StaffStatus DEF Active
    <2> QED
      BY <2>1, <2>2 DEF DecideInv, Deciding, Executing
  <1>2. ASSUME NEW w \in Workers, Drain(w) \/ WorkerStep(w) \/ WorkerDies(w)
        PROVE  DecideInv'
    <2> DEFINE r == job[w]
    <2>0. \A v \in Workers \ {w} : pc'[v] = pc[v] /\ job'[v] = job[v] /\ verdict'[v] = verdict[v]
      BY <1>2, OthersStay
    <2>1. CASE Drain(w)
      <3>1. \A v \in Workers : Deciding(v) => status'[job[v]] = status[job[v]]
        BY <1>0, <2>1, Draining, NotSwept
      <3>2. ~Deciding(w)' /\ UNCHANGED claim
        BY <2>1, Draining DEF Deciding
      <3> QED
        BY <2>0, <3>1, <3>2 DEF DecideInv, Deciding, Executing
    <2>2. CASE StartRun(w)
      <3>1. /\ UNCHANGED claim /\ job'[w] = r /\ r \in Runs /\ status[r] \in Queued
            /\ \/ status'[r] = "running" /\ pc'[w] = "planning"
               \/ status'[r] = "executing" /\ pc'[w] = "checking"
            /\ \A s \in Runs \ {r} : status'[s] = status[s]
        BY <2>2, Starting
      <3> HIDE DEF r
      <3>2. \A v \in Workers : Deciding(v) => job[v] # r
        BY <1>a, <3>1 DEF Active, Queued
      <3> QED
        BY <1>0, <2>0, <3>1, <3>2 DEF DecideInv, Deciding, Executing
    <2>3. CASE Passes(w)
      <3>1. /\ UNCHANGED status
            /\ \A s \in Runs \ {r} : claim'[s] = claim[s]
            /\ claim'[r] # claim[r] => Deciding(w) /\ pc'[w] = "claimed"
            /\ \/ pc'[w] = "idle"
               \/ /\ Deciding(w) /\ job'[w] = r
                  /\ \/ pc[w] \in Executing /\ pc'[w] \in Executing
                     \/ pc[w] \in Executing \cup {"planning"} /\ pc'[w] = "failing"
                     \/ /\ pc[w] = "failing" /\ pc'[w] = "judged"
                        /\ verdict'[w] = "failed" => claim'[r] = None
        BY <2>3, Passing, Deciders DEF Deciding
      <3> HIDE DEF r
      <3>2. \A v \in Workers \ {w} : Deciding(v) /\ Deciding(w) => job[v] # r
        BY DEF DecideInv, r
      <3>3. \A v \in Workers \ {w} : Deciding(v) => claim'[job[v]] = claim[job[v]]
        BY <1>0, <3>1, <3>2
      <3>4. /\ pc[w] = "planning" => status[r] = "running"
            /\ pc[w] \in Executing => status[r] = "executing"
            /\ pc[w] = "failing" => status[r] \in Active
        BY DEF DecideInv, r
      <3> QED
        BY <2>0, <3>1, <3>2, <3>3, <3>4 DEF DecideInv, Deciding, Executing, Active
    <2>4. CASE Saves(w)
      <3>1. /\ UNCHANGED claim /\ pc'[w] \in {"saved", "idle"} /\ Deciding(w)
            /\ \A s \in Runs \ {r} : status'[s] = status[s]
        BY <2>4, Saving DEF Deciding
      <3> HIDE DEF r
      <3>2. \A v \in Workers \ {w} : Deciding(v) => job[v] # r
        BY <3>1 DEF DecideInv, r
      <3> QED
        BY <1>0, <2>0, <3>1, <3>2 DEF DecideInv, Deciding, Executing
    <2> QED
      BY <1>2, <2>1, <2>2, <2>3, <2>4 DEF WorkerStep, Passes, Saves
  <1>3. CASE Tick \/ UNCHANGED vars
    BY <1>3 DEF Tick, vars, rowVars, workerVars, DecideInv, Deciding
  <1> QED
    BY <1>1, <1>2, <1>3 DEF Next

(* A claim and the outcome of its run.                                     *)
LEMMA OutcomeStep ==
  ASSUME IndInv, FinalInv, ~LateFailures, [Next]_vars
  PROVE  OutcomeInv'
  <1> USE DEF FinalInv
  <1>1. CASE Manage \/ Staff
    BY <1>1, StaffLeaves, StaffStatus DEF OutcomeInv
  <1>2. ASSUME NEW w \in Workers, Drain(w) \/ WorkerStep(w) \/ WorkerDies(w)
        PROVE  OutcomeInv'
    <2>1. CASE Drain(w)
      BY <2>1, Draining DEF OutcomeInv, Active
    <2>2. CASE StartRun(w)
      BY <2>2, Starting DEF OutcomeInv, Queued
    <2>3. CASE Passes(w)
      <3>1. pc[w] = "claiming" => status[job[w]] = "executing"
        BY DEF DecideInv, Executing
      <3> QED
        BY <2>3, <3>1, Passing, Deciders DEF OutcomeInv
    <2>4. CASE Saves(w)
      <3>1. /\ pc[w] = "planning" => status[job[w]] = "running"
            /\ pc[w] = "judged" /\ verdict[w] = "failed" => claim[job[w]] = None
            /\ verdict[w] \in {"failed", "unknown"}
        BY DEF DecideInv, IndInv, TypeOK
      <3> QED
        BY <2>4, <3>1, Saving DEF OutcomeInv
    <2> QED
      BY <1>2, <2>1, <2>2, <2>3, <2>4 DEF WorkerStep, Passes, Saves
  <1>3. CASE Tick \/ UNCHANGED vars
    BY <1>3 DEF Tick, vars, rowVars, OutcomeInv
  <1> QED
    BY <1>1, <1>2, <1>3 DEF Next

LEMMA Decisions == ASSUME ~LateFailures PROVE Spec => []FinalInv
  <1>1. Init => FinalInv
    BY DEF Init, FinalInv, ClockInv, DecideInv, OutcomeInv, Working, Deciding, Executing
  <1>2. IndInv /\ FinalInv /\ [Next]_vars => FinalInv'
    BY ClockStep, DecideStep, OutcomeStep DEF FinalInv
  <1> QED
    BY <1>1, <1>2, Invariance, PTL DEF Spec

(* Where no job fails after it has saved its run, a run that says failed   *)
(* or rejected changed nothing.                                            *)
THEOREM FailedChangedNothing == ASSUME ~LateFailures PROVE Spec => []FailedMeansUntouched
  <1>1. ASSUME IndInv, FinalInv, NEW r \in Runs, status[r] \in {"failed", "rejected"},
               NEW fp \in Fingerprint, NEW i \in DOMAIN applied[fp], applied[fp][i] = r
        PROVE  FALSE
    <2>1. PICK s \in Runs : applied[fp] = <<s>> /\ claim[s] = fp
      BY <1>1 DEF IndInv, AppliedInv
    <2>2. r = s /\ fp # None
      BY <1>1, <2>1, NoneIsNoValue
    <2> QED
      BY <1>1, <2>1, <2>2 DEF FinalInv, OutcomeInv
  <1>2. IndInv /\ FinalInv => FailedMeansUntouched
    BY <1>1 DEF FailedMeansUntouched, AppliedFor
  <1> QED
    BY <1>2, Invariance, Decisions, PTL

(* There too, a status a client was told is final stays.                   *)
THEOREM FinalStays == ASSUME ~LateFailures PROVE Spec => TerminalIsFinal
  <1>1. ASSUME IndInv, FinalInv, [Next]_vars, NEW r \in Runs, status[r] \in Terminal
        PROVE  status'[r] = status[r]
    <2>1. CASE Manage \/ Staff
      BY <1>1, <2>1, StaffStatus DEF Terminal
    <2>2. ASSUME NEW w \in Workers, Drain(w) \/ WorkerStep(w) \/ WorkerDies(w)
          PROVE  status'[r] = status[r]
      <3>1. CASE Drain(w)
        BY <1>1, <3>1, Draining DEF Terminal, Active
      <3>2. CASE StartRun(w)
        BY <1>1, <3>2, Starting DEF Terminal, Queued
      <3>3. CASE Passes(w)
        BY <1>1, <3>3, Passing
      <3>4. CASE Saves(w)
        <4>1. pc[w] \in Executing \cup {"planning", "judged"} => status[job[w]] \in Active
          BY <1>1 DEF FinalInv, DecideInv, Active
        <4> QED
          BY <1>1, <3>4, <4>1, Saving DEF Executing, Terminal, Active
      <3> QED
        BY <2>2, <3>1, <3>2, <3>3, <3>4 DEF WorkerStep, Passes, Saves
    <2>3. CASE Tick \/ UNCHANGED vars
      BY <2>3 DEF Tick, vars, rowVars
    <2> QED
      BY <1>1, <2>1, <2>2, <2>3 DEF Next
  <1>2. IndInv /\ FinalInv /\ [Next]_vars => [\A r \in Runs : status[r] \in Terminal => status'[r] = status[r]]_vars
    BY <1>1
  <1> QED
    BY <1>2, Invariance, Decisions, PTL DEF Spec, TerminalIsFinal

----------------------------------------------------------------------------
(* Refinement.                                                             *)

(* An approval is an authorisation: the run had none, and its proposal is  *)
(* a mutation.                                                             *)
LEMMA ApproveAuthorises ==
  ASSUME IndInv, NEW r \in Runs, Approve(r)
  PROVE  Ledger!Next
  <1>1. proposal[r] \in Fingerprint /\ approved[r] = None
    BY DEF IndInv, TypeOK, RowInv, Approve
  <1>2. Ledger!Authorise(r, proposal[r])
    BY <1>1 DEF Approve, remoteVars, Ledger!Authorise
  <1> QED
    BY <1>1, <1>2 DEF Ledger!Next

(* A send is an application.                                               *)
LEMMA SendApplies ==
  ASSUME IndInv, NEW w \in Workers, SendMutation(w)
  PROVE  Ledger!Next
  <1>1. /\ job[w] \in Runs /\ held[w] \in Fingerprint
        /\ Ledger!Apply(job[w], held[w])
    BY SendFacts DEF SendMutation, rowVars, Ledger!Apply
  <1> QED
    BY <1>1 DEF Ledger!Next

(* No other step touches the ledger.                                       *)
LEMMA OthersStutter ==
  ASSUME [Next]_vars,
         ~ \E r \in Runs : Approve(r),
         ~ \E w \in Workers : SendMutation(w)
  PROVE  UNCHANGED Ledger!ledgerVars
  <1> USE DEF Ledger!ledgerVars, rowVars, remoteVars, workerVars
  <1>1. CASE Manage
    BY <1>1 DEF Manage, SetAccess, SaveConnection, DeleteConnection
  <1>2. CASE Staff
    BY <1>2 DEF Staff, PostMessage, InsertRun, AbortPost, Reject, Expire
  <1>3. ASSUME NEW w \in Workers, Drain(w) \/ WorkerStep(w) \/ WorkerDies(w)
        PROVE  UNCHANGED Ledger!ledgerVars
    BY <1>3 DEF Drain, WorkerStep, WorkerDies, StartRun, LoseRun, AnswerRun, ProposeMutation,
       CheckApproval, ClaimMutation, RecheckAccess, FinishMutation, EndJob, JobFails, AuditFails,
       JudgeFailure, SaveFailure
  <1>4. CASE Tick
    BY <1>4 DEF Tick
  <1>5. CASE UNCHANGED vars
    BY <1>5 DEF vars
  <1> QED
    BY <1>1, <1>2, <1>3, <1>4, <1>5 DEF Next

(* The chat implements the ledger: whatever its queue, workers and failures *)
(* do, the account sees authorised mutations, each at most once.            *)
THEOREM LedgerImplemented == Spec => ImplementsLedger
  <1>1. Init => Ledger!Init
    BY DEF Init, Ledger!Init
  <1>2. IndInv /\ [Next]_vars => [Ledger!Next]_(Ledger!ledgerVars)
    BY ApproveAuthorises, SendApplies, OthersStutter
  <1> QED
    BY <1>1, <1>2, Invariance, PTL DEF Spec, ImplementsLedger, Ledger!Spec
=============================================================================
