--------------------------- MODULE MeetingsProofs ---------------------------
(***************************************************************************)
(* The tasklist and the meeting inbox, proved for every number of items,   *)
(* jobs, requests of staff, recordings and builds.  Neither promise of the *)
(* tasklist is inductive: a published item keeps its text because it is    *)
(* locked and because no job that holds the build has selected it, and a   *)
(* list that is being written has one writer because its status says so    *)
(* as long as there is one.                                                *)
(***************************************************************************)
EXTENDS MCMeetings, FiniteSetTheorems, TLAPS

----------------------------------------------------------------------------
(* The meeting inbox.                                                      *)

\* A rule names a build that exists.
RulesExist == \A e \in Emails : rule[e] # NoBuild => rule[e] \in present

FathomInv == FathomTypeOK /\ RulesExist /\ OneNotePerMeeting

\* The invariant of the inbox holds at first.
LEMMA FathomStarts == FathomInit => FathomInv
BY FathomConstants DEF FathomInit, FathomInv, FathomTypeOK, FathomSettings, FathomRoutingRule,
   FathomMeeting, RulesExist, OneNotePerMeeting

\* A set of one element is not empty.
LEMMA OneIsSome ==
  ASSUME NEW S, Cardinality(S) = 1
  PROVE  S # {}
BY FS_EmptySet

\* The meetings that a step attaches are of builds that exist.
LEMMA AttachKeeps ==
  ASSUME FathomInv, NEW r \in Recordings, NEW b \in present, notes[r] = 0,
         AttachMeeting(r, b), UNCHANGED <<config, rule, present>>,
         handler' \in [Handlers -> Recordings \cup {NoMeeting}]
  PROVE  FathomInv'
BY FathomConstants DEF FathomInv, FathomTypeOK, FathomSettings, FathomRoutingRule, FathomMeeting, RulesExist,
   OneNotePerMeeting, AttachMeeting

\* Every step of the inbox keeps its invariant.
LEMMA FathomStep == FathomInv /\ [FathomNext]_fathomVars => FathomInv'
<1> SUFFICES ASSUME FathomInv, [FathomNext]_fathomVars PROVE FathomInv'
  OBVIOUS
<1> USE FathomConstants DEF FathomInv, FathomTypeOK, FathomSettings, FathomRoutingRule, FathomMeeting,
        RulesExist, OneNotePerMeeting
<1>1. CASE SaveSettings
  BY <1>1 DEF SaveSettings
<1>2. CASE \E e \in Emails, b \in Builds \cup {NoBuild} : SaveRule(e, b)
  BY <1>2 DEF SaveRule
<1>3. CASE \E b \in Builds : DeleteBuild(b)
  BY <1>3 DEF DeleteBuild
<1>4. ASSUME NEW h \in Handlers, NEW r \in Recordings, Webhook(h, r) PROVE FathomInv'
  BY <1>4 DEF Webhook
<1>5. ASSUME NEW h \in Handlers, Ingest(h) PROVE FathomInv'
  <2> DEFINE r == handler[h]
  <2>1. r \in Recordings /\ handler' \in [Handlers -> Recordings \cup {NoMeeting}]
    BY <1>5 DEF Ingest
  <2>2. CASE meeting[r].status # "none"
    BY <1>5, <2>1, <2>2 DEF Ingest
  <2>3. CASE meeting[r].status = "none"
    <3>1. PICK emails \in SUBSET Emails :
            LET targets == {rule[e] : e \in emails} \ {NoBuild} IN
            IF Cardinality(targets) = 1
            THEN AttachMeeting(r, CHOOSE b \in targets : TRUE)
            ELSE /\ meeting' = [meeting EXCEPT ![r].status = "pending"]
                 /\ UNCHANGED notes
      BY <1>5, <2>3 DEF Ingest
    <3> DEFINE targets == {rule[e] : e \in emails} \ {NoBuild}
    <3>2. CASE Cardinality(targets) = 1
      <4>1. targets # {}
        <5> HIDE DEF targets
        <5> QED BY <3>2, OneIsSome
      <4>2. (CHOOSE b \in targets : TRUE) \in targets
        BY <4>1
      <4>3. targets \subseteq present
        OBVIOUS
      <4>4. AttachMeeting(r, CHOOSE b \in targets : TRUE)
        BY <3>1, <3>2
      <4>5. notes[r] = 0
        BY <2>1, <2>3
      <4>6. UNCHANGED <<config, rule, present>>
        BY <1>5 DEF Ingest
      <4> HIDE DEF targets, r
      <4> QED BY <2>1, <4>2, <4>3, <4>4, <4>5, <4>6, AttachKeeps
    <3>3. CASE Cardinality(targets) # 1
      <4>1. meeting' = [meeting EXCEPT ![r].status = "pending"] /\ UNCHANGED notes
        BY <3>1, <3>3
      <4> QED BY <1>5, <2>1, <2>3, <4>1 DEF Ingest
    <3> QED BY <3>2, <3>3
  <2> QED BY <2>2, <2>3
<1>6. ASSUME NEW h \in Handlers, HandlerDies(h) PROVE FathomInv'
  BY <1>6 DEF HandlerDies
<1>7. ASSUME NEW r \in Recordings, DeleteNote(r) PROVE FathomInv'
  BY <1>7 DEF DeleteNote
<1>8. ASSUME NEW r \in Recordings, Ignore(r) PROVE FathomInv'
  BY <1>8 DEF Ignore
<1>9. ASSUME NEW r \in Recordings, NEW b \in Builds, Attach(r, b) PROVE FathomInv'
  BY <1>9, AttachKeeps DEF Attach, MayAttach
<1>10. CASE UNCHANGED fathomVars
  BY <1>10 DEF fathomVars
<1> QED BY <1>1, <1>2, <1>3, <1>4, <1>5, <1>6, <1>7, <1>8, <1>9, <1>10 DEF FathomNext

----------------------------------------------------------------------------
(* The tasklist.                                                           *)

(* The types, by groups of variables.                                      *)
ItemsOK == item \in [Items -> MeetingActionItem]
JobsOK ==
  /\ tasklistStatus \in ListStatus /\ buildLock \in Jobs \cup {NoJob}
  /\ job \in [Jobs -> Job] /\ mark \in [Jobs -> ListStatus] /\ died \subseteq Jobs
StaffOK ==
  /\ task \in [Items -> Text \cup {NoTask}] /\ edit \in [Edits -> Edit]
  /\ overtaken \subseteq Items /\ restored \in BOOLEAN

\* A request of staff that is under way has an item.
EditInHand == \A e \in Edits : edit[e].op # "none" => edit[e].on \in Items

\* A job has a kind from the request that made it, and what it was asked for is
\* marked on its report or note unless it is a list.
JobsBegun == \A j \in Jobs : /\ (job[j].kind = "none") <=> (job[j].pc = "none")
                             /\ job[j].kind \in {"none", "generate"} => mark[j] = ""

\* A job that has selected rows holds the build.
SelectionLocked == \A j \in Jobs : At(j, "generate", "read") => buildLock = j

\* It has selected none that is published.
SelectedFree ==
  \A j \in Jobs, i \in Items :
    At(j, "generate", "read") /\ i \in job[j].read => task[i] = NoTask \/ i \in overtaken

\* A published item is locked.
PublishedLocked ==
  \A i \in Items : task[i] # NoTask => i \in overtaken \/ item[i].locked

\* The status says whether a job writes the list, and only one does.
OneWriter ==
  ~restored => /\ Writing # {} => tasklistStatus = "processing"
               /\ \A j, k \in Writing : j = k
               /\ tasklistStatus = "processing" =>
                    Writing # {} \/ \E j \in died : job[j].kind = "generate"

\* A report or note that is being worked on has its job, or a dead one.
Marked == \A j \in Jobs : mark[j] = "processing" => job[j].pc # "over" \/ j \in died

ListTypes == ItemsOK /\ JobsOK /\ StaffOK /\ EditInHand
PublishInv == SelectionLocked /\ SelectedFree /\ PublishedLocked /\ PublishedKept
ListInv == ListTypes /\ JobsBegun /\ PublishInv /\ OneWriter /\ Marked

(* The steps of jobs, and those of staff.                                  *)
JobStep(j) ==
  \/ RequestTasklist(j) \/ ReportProgress(j) \/ ProgressUpdate(j)
  \/ DispatchAsync(j) \/ Begin(j) \/ ModelFails(j)
  \/ Select(j) \/ ApplyFull(j) \/ ApplyDelta(j) \/ Finish(j)
  \/ AuditReads(j) \/ AuditSaves(j) \/ UpdateSaves(j) \/ UpdateDone(j)
  \/ JobDies(j)
StaffStep ==
  \/ \E i \in Items : AddItem(i) \/ Publish(i) \/ SyncSource(i) \/ DeleteTask(i)
  \/ \E e \in Edits, i \in Items : OpenItem(e, i)
  \/ \E e \in Edits : SaveItem(e) \/ DeleteItem(e)
  \/ SaveBuild

----------------------------------------------------------------------------
(* Types.                                                                  *)

\* A row keeps its type when a field changes.
LEMMA RowTypes ==
  /\ \A text \in Text, ask, done, ai \in BOOLEAN : Row(text, ask, done, ai) \in MeetingActionItem
  /\ Gone \in MeetingActionItem /\ NoRow \in MeetingActionItem
  /\ \A r \in MeetingActionItem, b \in BOOLEAN :
       /\ [r EXCEPT !.superseded = b] \in MeetingActionItem
       /\ [r EXCEPT !.done = b] \in MeetingActionItem
       /\ [r EXCEPT !.locked = b] \in MeetingActionItem
       /\ [r EXCEPT !.done = b, !.locked = TRUE] \in MeetingActionItem
  /\ \A r \in MeetingActionItem, t \in Text :
       /\ [r EXCEPT !.text = t] \in MeetingActionItem
       /\ [r EXCEPT !.text = t, !.locked = TRUE] \in MeetingActionItem
<1>1. \A text \in Text, ask, done, ai \in BOOLEAN : Row(text, ask, done, ai) \in MeetingActionItem
  BY DEF Row, MeetingActionItem
<1>2. Gone \in MeetingActionItem /\ NoRow \in MeetingActionItem
  BY DEF Gone, NoRow, Row, MeetingActionItem, Text
<1>3. ASSUME NEW r \in MeetingActionItem, NEW b \in BOOLEAN
      PROVE  /\ [r EXCEPT !.superseded = b] \in MeetingActionItem
             /\ [r EXCEPT !.done = b] \in MeetingActionItem
             /\ [r EXCEPT !.locked = b] \in MeetingActionItem
             /\ [r EXCEPT !.done = b, !.locked = TRUE] \in MeetingActionItem
  BY DEF MeetingActionItem
<1>4. ASSUME NEW r \in MeetingActionItem, NEW t \in Text
      PROVE  /\ [r EXCEPT !.text = t] \in MeetingActionItem
             /\ [r EXCEPT !.text = t, !.locked = TRUE] \in MeetingActionItem
  BY DEF MeetingActionItem
<1> QED BY <1>1, <1>2, <1>3, <1>4

\* A job keeps its type as it goes on.
LEMMA JobRecords ==
  ASSUME NEW r \in Job, NEW s \in SUBSET Items, NEW b \in BOOLEAN,
         NEW k \in {"generate", "audit", "update"},
         NEW p \in {"none", "accepted", "queued", "running", "read", "applied", "over"}
  PROVE  /\ [r EXCEPT !.pc = p] \in Job
         /\ [r EXCEPT !.pc = p, !.full = b] \in Job
         /\ [r EXCEPT !.pc = p, !.read = s] \in Job
         /\ [r EXCEPT !.kind = k, !.pc = p] \in Job
         /\ [r EXCEPT !.pc = p, !.full = b, !.read = s] \in Job
BY DEF Job

\* A list to which a job adds a row.
LEMMA AddingType ==
  ASSUME NEW items \in [Items -> MeetingActionItem], NEW j \in Jobs,
         NEW ask \in BOOLEAN, NEW done \in BOOLEAN, NEW next \in Adding(items, j, ask, done)
  PROVE  next \in [Items -> MeetingActionItem]
<1>1. Row(j, ask, done, TRUE) \in MeetingActionItem
  BY RowTypes DEF Text
<1>2. next = items \/ \E i \in Items : next = [items EXCEPT ![i] = Row(j, ask, done, TRUE)]
  BY DEF Adding
<1> QED BY <1>1, <1>2

\* The items keep their type when a job writes them ...
LEMMA ItemsByJobs ==
  ASSUME ItemsOK, NEW j \in Jobs, JobStep(j)
  PROVE  ItemsOK'
<1> USE DEF ItemsOK
<1>1. CASE UNCHANGED item
  BY <1>1
<1>2. CASE ApplyFull(j)
  <2> DEFINE left == [i \in Items |-> IF i \in job[j].read THEN Gone ELSE item[i]]
  <2>1. left \in [Items -> MeetingActionItem]
    BY DEF Gone, NoRow, Row, MeetingActionItem, Text
  <2>2. item' \in Adding(left, j, TRUE, FALSE)
    BY <1>2 DEF ApplyFull, ExtractTasklist
  <2> QED BY <2>1, <2>2, AddingType
<1>3. CASE ApplyDelta(j) /\ job[j].read \subseteq Live
  <2>1. PICK now \in {[i \in Items |-> IF i \in job[j].read
                                      THEN [item[i] EXCEPT !.text = j] ELSE item[i]],
                     [i \in Items |-> IF i \in job[j].read
                                      THEN [item[i] EXCEPT !.superseded = TRUE] ELSE item[i]]} :
          item' \in Adding(now, j, TRUE, FALSE)
    BY <1>3 DEF ApplyDelta, ExtractTasklist
  <2>2. now \in [Items -> MeetingActionItem]
    <3>1. \A i \in Items : /\ [item[i] EXCEPT !.text = j] \in MeetingActionItem
                           /\ [item[i] EXCEPT !.superseded = TRUE] \in MeetingActionItem
      BY RowTypes DEF Text
    <3> QED BY <2>1, <3>1
  <2> QED BY <2>1, <2>2, AddingType
<1>4. CASE AuditSaves(j) /\ job[j].read \subseteq Live
  <2>1. PICK d \in BOOLEAN :
          item' \in Adding([i \in Items |-> IF i \in job[j].read
                                           THEN [item[i] EXCEPT !.done = d]
                                           ELSE item[i]], j, TRUE, TRUE)
    BY <1>4 DEF AuditSaves
  <2> DEFINE now == [i \in Items |-> IF i \in job[j].read
                                     THEN [item[i] EXCEPT !.done = d] ELSE item[i]]
  <2>2. now \in [Items -> MeetingActionItem]
    BY DEF MeetingActionItem
  <2> QED BY <2>1, <2>2, AddingType
<1>5. CASE UpdateSaves(j)
  BY <1>5, AddingType DEF UpdateSaves, ExtractDelta
<1> QED
  BY <1>1, <1>2, <1>3, <1>4, <1>5 DEF JobStep, RequestTasklist, ReportProgress, ProgressUpdate,
     DispatchAsync, Begin, ModelFails, Select, ApplyDelta, Finish, AuditReads, AuditSaves,
     UpdateDone, JobDies

\* ... and when staff do.
LEMMA ItemsByStaff ==
  ASSUME ItemsOK, StaffOK, StaffStep
  PROVE  ItemsOK'
<1> USE DEF ItemsOK
<1>1. CASE UNCHANGED item
  BY <1>1
<1>2. ASSUME NEW i \in Items, AddItem(i) PROVE ItemsOK'
  BY <1>2 DEF AddItem, Row, MeetingActionItem, Text
<1>3. ASSUME NEW i \in Items, Publish(i) PROVE ItemsOK'
  BY <1>3 DEF Publish, Assigned, MeetingActionItem
<1>4. ASSUME NEW i \in Items, SyncSource(i) PROVE ItemsOK'
  <2>1. PICK d \in BOOLEAN : item' = [item EXCEPT ![i] = [@ EXCEPT !.done = d, !.locked = TRUE]]
    BY <1>4 DEF SyncSource
  <2>2. item[i] \in MeetingActionItem
    OBVIOUS
  <2>3. [item[i] EXCEPT !.done = d, !.locked = TRUE] \in MeetingActionItem
    BY <2>2, RowTypes
  <2> QED BY <2>1, <2>3
<1>5. ASSUME NEW e \in Edits, SaveItem(e) PROVE ItemsOK'
  <2>1. edit[e].row \in MeetingActionItem
    BY DEF StaffOK, Edit
  <2> DEFINE r == edit[e].row
  <2>2. /\ [r EXCEPT !.text = Human, !.locked = TRUE] \in MeetingActionItem
        /\ [r EXCEPT !.done = ~r.done, !.locked = TRUE] \in MeetingActionItem
    <3>1. Human \in Text /\ (~r.done) \in BOOLEAN
      BY <2>1 DEF Text, MeetingActionItem
    <3> QED BY <2>1, <3>1, RowTypes
  <2>3. PICK n \in {[r EXCEPT !.text = Human, !.locked = TRUE],
                    [r EXCEPT !.done = ~r.done, !.locked = TRUE]} :
          item' = [item EXCEPT ![edit[e].on] = n]
    BY <1>5 DEF SaveItem
  <2> QED BY <2>2, <2>3
<1>6. ASSUME NEW e \in Edits, DeleteItem(e) PROVE ItemsOK'
  BY <1>6 DEF DeleteItem, Gone, NoRow, Row, MeetingActionItem, Text
<1> QED
  BY <1>1, <1>2, <1>3, <1>4, <1>5, <1>6 DEF StaffStep, DeleteTask, OpenItem, SaveBuild

\* The jobs keep their types, ...
LEMMA JobsByJobs ==
  ASSUME JobsOK, NEW j \in Jobs, JobStep(j)
  PROVE  JobsOK'
<1>1. tasklistStatus' \in ListStatus
  <2>1. Failed(j) => tasklistStatus' \in ListStatus
    BY DEF JobsOK, Failed, ListStatus
  <2> QED
    BY <2>1 DEF JobsOK, JobStep, RequestTasklist, ReportProgress, ProgressUpdate, DispatchAsync, Begin,
       ModelFails, Select, ApplyFull, ApplyDelta, Finish, AuditReads, AuditSaves, UpdateSaves,
       UpdateDone, JobDies, ListStatus
<1>2. buildLock' \in Jobs \cup {NoJob}
  BY DEF JobsOK, JobStep, RequestTasklist, ReportProgress, ProgressUpdate, DispatchAsync, Begin,
     ModelFails, Select, ApplyFull, ApplyDelta, Finish, AuditReads, AuditSaves, UpdateSaves,
     UpdateDone, JobDies
<1>3. mark' \in [Jobs -> ListStatus]
  <2>1. Failed(j) => mark' \in [Jobs -> ListStatus]
    BY DEF JobsOK, Failed, ListStatus
  <2> QED
    BY <2>1 DEF JobsOK, JobStep, RequestTasklist, ReportProgress, ProgressUpdate, DispatchAsync, Begin,
       ModelFails, Select, ApplyFull, ApplyDelta, Finish, AuditReads, AuditSaves, UpdateSaves,
       UpdateDone, JobDies, ListStatus
<1>4. died' \subseteq Jobs
  BY DEF JobsOK, JobStep, RequestTasklist, ReportProgress, ProgressUpdate, DispatchAsync, Begin,
     ModelFails, Select, ApplyFull, ApplyDelta, Finish, AuditReads, AuditSaves, UpdateSaves,
     UpdateDone, JobDies, Crash
<1>5. job' \in [Jobs -> Job]
  <2>0. job \in [Jobs -> Job] /\ job[j] \in Job
    BY DEF JobsOK
  <2>1. /\ Ends(j) => job' \in [Jobs -> Job]
        /\ \A p \in {"queued", "applied"} : Goto(j, p) => job' \in [Jobs -> Job]
    <3>1. [job[j] EXCEPT !.pc = "over", !.full = FALSE, !.read = {}] \in Job
      BY <2>0, JobRecords
    <3>2. \A p \in {"queued", "applied"} : [job[j] EXCEPT !.pc = p] \in Job
      BY <2>0, JobRecords
    <3> QED BY <2>0, <3>1, <3>2 DEF Ends, Goto
  <2>2. CASE RequestTasklist(j) \/ ReportProgress(j) \/ ProgressUpdate(j) \/ Begin(j)
    <3>1. /\ \A k \in {"generate", "audit", "update"} :
               [job[j] EXCEPT !.kind = k, !.pc = "accepted"] \in Job
          /\ \A b \in BOOLEAN : [job[j] EXCEPT !.pc = "running", !.full = b] \in Job
      BY <2>0, JobRecords
    <3>2. CASE RequestTasklist(j) \/ ReportProgress(j) \/ ProgressUpdate(j)
      BY <2>0, <3>1, <3>2 DEF RequestTasklist, ReportProgress, ProgressUpdate
    <3>3. CASE Begin(j)
      BY <2>0, <3>1, <3>3 DEF Begin
    <3> QED BY <2>2, <3>2, <3>3
  <2>3. CASE Select(j) \/ AuditReads(j)
    <3>1. PICK s \in SUBSET Items : job' = [job EXCEPT ![j].pc = "read", ![j].read = s]
      BY <2>3 DEF Select, AuditReads, AnalyzeReport, Replaced, ReconcileTasklist, Changeable, Live
    <3> QED BY <2>0, <3>1, JobRecords
  <2>4. CASE ApplyDelta(j)
    BY <2>1, <2>4 DEF ApplyDelta
  <2> QED
    BY <2>0, <2>1, <2>2, <2>3, <2>4 DEF JobStep, DispatchAsync, ModelFails, ApplyFull, Finish,
       AuditSaves, UpdateSaves, UpdateDone, JobDies
<1> QED BY <1>1, <1>2, <1>3, <1>4, <1>5 DEF JobsOK

\* ... and staff leave them alone, but for the status of the list.
LEMMA JobsByStaff ==
  ASSUME JobsOK, StaffStep
  PROVE  JobsOK' /\ UNCHANGED <<buildLock, job, mark, died>>
BY DEF JobsOK, StaffStep, AddItem, Publish, SyncSource, DeleteTask, OpenItem, SaveItem, DeleteItem,
   SaveBuild, staffVars

\* Jobs leave alone what staff have in hand.
LEMMA StaffByJobs ==
  ASSUME NEW j \in Jobs, JobStep(j)
  PROVE  UNCHANGED staffVars
BY DEF JobStep, RequestTasklist, ReportProgress, ProgressUpdate, DispatchAsync, Begin,
   ModelFails, Select, ApplyFull, ApplyDelta, Finish, AuditReads, AuditSaves, UpdateSaves,
   UpdateDone, JobDies

\* Staff publish texts of the list, and have rows of it in hand.
LEMMA StaffByStaff ==
  ASSUME ItemsOK, StaffOK, EditInHand, StaffStep
  PROVE  StaffOK' /\ EditInHand'
<1> USE DEF StaffOK, EditInHand
<1>1. CASE UNCHANGED <<task, edit, overtaken, restored>>
  BY <1>1
<1>2. ASSUME NEW i \in Items, AddItem(i) PROVE StaffOK' /\ EditInHand'
  BY <1>2 DEF AddItem, staffVars
<1>3. ASSUME NEW i \in Items, Publish(i) PROVE StaffOK' /\ EditInHand'
  <2>1. item[i].text \in Text
    BY DEF ItemsOK, MeetingActionItem
  <2> QED BY <1>3, <2>1 DEF Publish
<1>4. ASSUME NEW i \in Items, SyncSource(i) PROVE StaffOK' /\ EditInHand'
  BY <1>4 DEF SyncSource, staffVars
<1>5. ASSUME NEW i \in Items, DeleteTask(i) PROVE StaffOK' /\ EditInHand'
  BY <1>5 DEF DeleteTask
<1>6. ASSUME NEW e \in Edits, NEW i \in Items, OpenItem(e, i) PROVE StaffOK' /\ EditInHand'
  <2>1. PICK n \in {[op |-> "save", on |-> i, row |-> item[i]], [op |-> "delete", on |-> i, row |-> NoRow]} :
          edit' = [edit EXCEPT ![e] = n]
    BY <1>6 DEF OpenItem
  <2>2. n \in Edit /\ n.on \in Items
    <3>1. item[i] \in MeetingActionItem
      BY DEF ItemsOK
    <3>2. NoRow \in MeetingActionItem
      BY RowTypes
    <3>3. [op |-> "save", on |-> i, row |-> item[i]] \in Edit
      BY <3>1 DEF Edit
    <3>4. [op |-> "delete", on |-> i, row |-> NoRow] \in Edit
      BY <3>2 DEF Edit
    <3> QED BY <2>1, <3>3, <3>4
  <2> QED BY <1>6, <2>1, <2>2 DEF OpenItem
<1>7. ASSUME NEW e \in Edits, SaveItem(e) \/ DeleteItem(e) PROVE StaffOK' /\ EditInHand'
  <2>1. NoEdit \in Edit /\ NoEdit.op = "none"
    BY RowTypes DEF NoEdit, Edit
  <2>2. edit' = [edit EXCEPT ![e] = NoEdit] /\ edit[e].on \in Items
    BY <1>7 DEF SaveItem, DeleteItem, Closed
  <2>3. UNCHANGED restored /\ task' \in [Items -> Text \cup {NoTask}] /\ overtaken' \subseteq Items
    BY <1>7, <2>2 DEF SaveItem, DeleteItem, Overtakes
  <2> QED BY <2>1, <2>2, <2>3
<1>8. ASSUME SaveBuild PROVE StaffOK' /\ EditInHand'
  BY <1>8 DEF SaveBuild
<1> QED BY <1>2, <1>3, <1>4, <1>5, <1>6, <1>7, <1>8 DEF StaffStep

\* Every step keeps the types.
LEMMA ListTypesStep ==
  ASSUME ListTypes, ListNext
  PROVE  ListTypes'
<1>1. CASE \E j \in Jobs : JobStep(j)
  BY <1>1, ItemsByJobs, JobsByJobs, StaffByJobs DEF ListTypes, StaffOK, EditInHand, staffVars
<1>2. CASE StaffStep
  BY <1>2, ItemsByStaff, JobsByStaff, StaffByStaff DEF ListTypes
<1> QED BY <1>1, <1>2 DEF ListNext, JobStep, StaffStep

----------------------------------------------------------------------------
(* Jobs and their marks.                                                   *)

\* Where a job is once it has gone on, has ended or has selected rows.
LEMMA Goes ==
  ASSUME JobsOK, NEW j \in Jobs
  PROVE  /\ \A p \in {"queued", "applied"} :
              Goto(j, p) => /\ job'[j].kind = job[j].kind /\ job'[j].pc = p
                            /\ \A k \in Jobs \ {j} : job'[k] = job[k]
         /\ Ends(j) => /\ job'[j].kind = job[j].kind /\ job'[j].pc = "over"
                       /\ \A k \in Jobs \ {j} : job'[k] = job[k]
         /\ \A s \in SUBSET Items :
              job' = [job EXCEPT ![j].pc = "read", ![j].read = s] =>
                /\ job'[j].kind = job[j].kind /\ job'[j].pc = "read" /\ job'[j].read = s
                /\ \A k \in Jobs \ {j} : job'[k] = job[k]
         /\ \A t \in {"generate", "audit", "update"} :
              job' = [job EXCEPT ![j].kind = t, ![j].pc = "accepted"] =>
                /\ job'[j].kind = t /\ job'[j].pc = "accepted"
                /\ \A k \in Jobs \ {j} : job'[k] = job[k]
<1>1. job \in [Jobs -> Job]
  BY DEF JobsOK
<1>2. ASSUME NEW p \in {"queued", "applied"}, Goto(j, p)
      PROVE  /\ job'[j].kind = job[j].kind /\ job'[j].pc = p
             /\ \A k \in Jobs \ {j} : job'[k] = job[k]
  BY <1>1, <1>2 DEF Goto, Job
<1>3. ASSUME Ends(j)
      PROVE  /\ job'[j].kind = job[j].kind /\ job'[j].pc = "over"
             /\ \A k \in Jobs \ {j} : job'[k] = job[k]
  BY <1>1, <1>3 DEF Ends, Job
<1>4. ASSUME NEW s \in SUBSET Items, job' = [job EXCEPT ![j].pc = "read", ![j].read = s]
      PROVE  /\ job'[j].kind = job[j].kind /\ job'[j].pc = "read" /\ job'[j].read = s
             /\ \A k \in Jobs \ {j} : job'[k] = job[k]
  BY <1>1, <1>4 DEF Job
<1>5. ASSUME NEW t \in {"generate", "audit", "update"},
             job' = [job EXCEPT ![j].kind = t, ![j].pc = "accepted"]
      PROVE  /\ job'[j].kind = t /\ job'[j].pc = "accepted"
             /\ \A k \in Jobs \ {j} : job'[k] = job[k]
  BY <1>1, <1>5 DEF Job
<1> QED BY <1>2, <1>3, <1>4, <1>5

\* What a job that gives up, or is done with a report or note, leaves behind.
LEMMA Leaves ==
  ASSUME JobsOK, NEW j \in Jobs
  PROVE  /\ \A v \in {"processing", "done", "failed"} : mark' = [mark EXCEPT ![j] = v] =>
              mark'[j] = v /\ \A k \in Jobs \ {j} : mark'[k] = mark[k]
         /\ Failed(j) => IF job[j].kind = "generate"
                         THEN tasklistStatus' = "failed" /\ UNCHANGED mark
                         ELSE /\ UNCHANGED tasklistStatus /\ mark'[j] = "failed"
                              /\ \A k \in Jobs \ {j} : mark'[k] = mark[k]
<1>1. mark \in [Jobs -> ListStatus]
  BY DEF JobsOK
<1>2. ASSUME NEW v \in {"processing", "done", "failed"}, mark' = [mark EXCEPT ![j] = v]
      PROVE  mark'[j] = v /\ \A k \in Jobs \ {j} : mark'[k] = mark[k]
  BY <1>1, <1>2
<1> QED BY <1>2 DEF Failed

\* What a selection reads: items that are not locked.
LEMMA Selects ==
  ASSUME NEW j \in Jobs, Select(j) \/ AuditReads(j)
  PROVE  \E s \in SUBSET Items : /\ \A i \in s : ~item[i].locked
                                 /\ job' = [job EXCEPT ![j].pc = "read", ![j].read = s]
<1>1. \A s \in ReconcileTasklist \cup {Replaced} \cup AnalyzeReport :
        s \subseteq Items /\ \A i \in s : ~item[i].locked
  BY DEF Replaced, ReconcileTasklist, AnalyzeReport, Changeable, Live
<1>2. PICK s \in ReconcileTasklist \cup {Replaced} \cup AnalyzeReport :
        job' = [job EXCEPT ![j].pc = "read", ![j].read = s]
  BY DEF Select, AuditReads
<1> QED BY <1>1, <1>2

\* What becomes of the progress, the kind and the mark of each job in a step of one.
LEMMA Progress ==
  ASSUME JobsOK, JobsBegun, NEW j \in Jobs, JobStep(j)
  PROVE  /\ \A k \in Jobs \ {j} : job'[k] = job[k] /\ mark'[k] = mark[k]
         /\ job[j].kind # "none" => job'[j].kind = job[j].kind
         /\ job'[j].kind # "none" /\ job'[j].pc # "none"
         /\ job'[j].kind = "generate" => mark'[j] = ""
         /\ died \subseteq died'
         /\ mark'[j] = "processing" => job'[j].pc # "over" \/ j \in died'
<1>0. /\ job[j].kind = "none" <=> job[j].pc = "none"
      /\ job[j].kind \in {"none", "generate"} => mark[j] = ""
  BY DEF JobsBegun
<1>1. CASE RequestTasklist(j)
  BY <1>0, <1>1 DEF RequestTasklist, JobsOK, Job
<1>2. CASE ReportProgress(j)
  <2>1. /\ job[j].kind = "none" /\ died' = died
        /\ job' = [job EXCEPT ![j].kind = "audit", ![j].pc = "accepted"]
        /\ mark' = [mark EXCEPT ![j] = "processing"]
    BY <1>2 DEF ReportProgress, staffVars
  <2>2. /\ job'[j].kind = "audit" /\ job'[j].pc = "accepted"
        /\ \A i \in Jobs \ {j} : job'[i] = job[i]
    BY <2>1, Goes
  <2>3. \A i \in Jobs \ {j} : mark'[i] = mark[i]
    BY <2>1, Leaves
  <2> QED BY <2>1, <2>2, <2>3
<1>3. CASE ProgressUpdate(j)
  <2>1. /\ job[j].kind = "none" /\ died' = died
        /\ job' = [job EXCEPT ![j].kind = "update", ![j].pc = "accepted"]
        /\ mark' = [mark EXCEPT ![j] = "processing"]
    BY <1>3 DEF ProgressUpdate, staffVars
  <2>2. /\ job'[j].kind = "update" /\ job'[j].pc = "accepted"
        /\ \A i \in Jobs \ {j} : job'[i] = job[i]
    BY <2>1, Goes
  <2>3. \A i \in Jobs \ {j} : mark'[i] = mark[i]
    BY <2>1, Leaves
  <2> QED BY <2>1, <2>2, <2>3
<1>4. CASE DispatchAsync(j)
  BY <1>0, <1>4, Goes, Leaves DEF DispatchAsync
<1>5. CASE Begin(j)
  BY <1>0, <1>5 DEF Begin, JobsOK, Job
<1>6. CASE ModelFails(j)
  BY <1>0, <1>6, Goes, Leaves DEF ModelFails
<1>7. CASE Select(j)
  BY <1>0, <1>7, Selects, Goes DEF Select, At
<1>8. CASE AuditReads(j)
  BY <1>0, <1>8, Selects, Goes DEF AuditReads, At
<1>9. CASE ApplyFull(j)
  BY <1>0, <1>9, Goes DEF ApplyFull, At
<1>10. CASE ApplyDelta(j)
  BY <1>0, <1>10, Goes, Leaves DEF ApplyDelta, At
<1>11. CASE Finish(j)
  BY <1>0, <1>11, Goes DEF Finish, At
<1>12. CASE AuditSaves(j)
  BY <1>0, <1>12, Goes, Leaves DEF AuditSaves, At, Crash
<1>13. CASE UpdateSaves(j)
  BY <1>0, <1>13, Goes DEF UpdateSaves, At
<1>14. CASE UpdateDone(j)
  BY <1>0, <1>14, Goes, Leaves DEF UpdateDone, At
<1>15. CASE JobDies(j)
  BY <1>0, <1>15, Goes DEF JobDies, Crash
<1> QED
  BY <1>1, <1>2, <1>3, <1>4, <1>5, <1>6, <1>7, <1>8, <1>9, <1>10, <1>11, <1>12, <1>13, <1>14,
     <1>15 DEF JobStep

\* So every job in hand has a kind, and every mark its job.
LEMMA MarkedStep ==
  ASSUME ListTypes, JobsBegun, Marked, ListNext
  PROVE  JobsBegun' /\ Marked'
<1>1. ASSUME NEW j \in Jobs, JobStep(j) PROVE JobsBegun' /\ Marked'
  <2>1. JobsOK
    BY DEF ListTypes
  <2>2. ASSUME NEW k \in Jobs
        PROVE  /\ (job'[k].kind = "none") <=> (job'[k].pc = "none")
               /\ job'[k].kind \in {"none", "generate"} => mark'[k] = ""
               /\ mark'[k] = "processing" => job'[k].pc # "over" \/ k \in died'
    <3>1. CASE k = j
      BY <1>1, <2>1, <3>1, Progress
    <3>2. CASE k # j
      <4>1. job'[k] = job[k] /\ mark'[k] = mark[k] /\ died \subseteq died'
        BY <1>1, <2>1, <3>2, Progress
      <4> QED BY <4>1 DEF JobsBegun, Marked
    <3> QED BY <3>1, <3>2
  <2> QED BY <2>2 DEF JobsBegun, Marked
<1>2. CASE StaffStep
  BY <1>2, JobsByStaff DEF ListTypes, JobsBegun, Marked
<1> QED BY <1>1, <1>2 DEF ListNext, JobStep, StaffStep

----------------------------------------------------------------------------
(* One writer.                                                             *)

\* A job that writes the list.
Writes(j) == job[j].kind = "generate" /\ job[j].pc # "over"

\* A step of a job makes it a writer only when the list may be asked for, and
\* leaves the status alone unless the writer itself ends.
LEMMA WriterMoves ==
  ASSUME JobsOK, JobsBegun, NEW j \in Jobs, JobStep(j)
  PROVE  \/ tasklistStatus # "processing" /\ tasklistStatus' = "processing" /\ Writes(j)'
         \/ UNCHANGED tasklistStatus /\ (Writes(j)' <=> Writes(j))
         \/ Writes(j) /\ ~Writes(j)' /\ tasklistStatus' # "processing"
         \/ /\ Writes(j) /\ ~Writes(j)' /\ UNCHANGED tasklistStatus
            /\ j \in died' /\ job'[j].kind = "generate"
<1>0. job[j].kind = "none" <=> job[j].pc = "none"
  BY DEF JobsBegun
<1>1. CASE RequestTasklist(j)
  BY <1>0, <1>1 DEF RequestTasklist, MayStart, Writes, JobsOK, Job
<1>2. CASE ReportProgress(j)
  BY <1>0, <1>2 DEF ReportProgress, Writes, JobsOK, Job
<1>3. CASE ProgressUpdate(j)
  BY <1>0, <1>3 DEF ProgressUpdate, Writes, JobsOK, Job
<1>4. CASE DispatchAsync(j)
  BY <1>0, <1>4, Goes, Leaves DEF DispatchAsync, Writes
<1>5. CASE Begin(j)
  BY <1>0, <1>5 DEF Begin, Writes, JobsOK, Job
<1>6. CASE ModelFails(j)
  BY <1>0, <1>6, Goes, Leaves DEF ModelFails, Writes
<1>7. CASE Select(j)
  BY <1>0, <1>7, Selects, Goes DEF Select, At, Writes
<1>8. CASE ApplyFull(j)
  BY <1>0, <1>8, Goes DEF ApplyFull, At, Writes
<1>9. CASE ApplyDelta(j)
  BY <1>0, <1>9, Goes, Leaves DEF ApplyDelta, At, Writes
<1>10. CASE Finish(j)
  BY <1>0, <1>10, Goes DEF Finish, At, Writes
<1>11. CASE AuditReads(j)
  BY <1>0, <1>11, Selects, Goes DEF AuditReads, At, Writes
<1>12. CASE AuditSaves(j)
  BY <1>0, <1>12, Goes DEF AuditSaves, At, Writes
<1>13. CASE UpdateSaves(j)
  BY <1>0, <1>13, Goes DEF UpdateSaves, At, Writes
<1>14. CASE UpdateDone(j)
  BY <1>0, <1>14, Goes DEF UpdateDone, At, Writes
<1>15. CASE JobDies(j)
  BY <1>0, <1>15, Goes DEF JobDies, Crash, Writes
<1> QED
  BY <1>1, <1>2, <1>3, <1>4, <1>5, <1>6, <1>7, <1>8, <1>9, <1>10, <1>11, <1>12, <1>13, <1>14,
     <1>15 DEF JobStep

\* Until the whole build is saved, one job writes the list and the status says so.
LEMMA WriterStep ==
  ASSUME ListTypes, JobsBegun, OneWriter, ListNext
  PROVE  OneWriter'
<1>1. ASSUME NEW j \in Jobs, JobStep(j) PROVE OneWriter'
  <2>1. UNCHANGED restored
    BY <1>1, StaffByJobs DEF staffVars
  <2>2. \A k \in died : job[k].kind = "generate" => k \in died' /\ job'[k].kind = "generate"
    BY <1>1, Progress DEF ListTypes, JobsOK
  <2>3. \A k \in Jobs \ {j} : Writes(k)' <=> Writes(k)
    BY <1>1, Progress DEF ListTypes, Writes
  <2>4. Writing = {k \in Jobs : Writes(k)} /\ Writing' = {k \in Jobs : Writes(k)'}
    BY DEF Writing, Writes
  <2> QED BY <1>1, <2>1, <2>2, <2>3, <2>4, WriterMoves DEF ListTypes, OneWriter
<1>2. CASE StaffStep
  <2>1. UNCHANGED <<job, died>>
    BY <1>2, JobsByStaff DEF ListTypes
  <2>2. Writing' = Writing
    BY <2>1 DEF Writing
  <2>3. restored' \/ UNCHANGED <<tasklistStatus, restored>>
    BY <1>2 DEF StaffStep, AddItem, Publish, SyncSource, DeleteTask, OpenItem, SaveItem, DeleteItem,
       SaveBuild, staffVars
  <2> QED BY <2>1, <2>2, <2>3 DEF OneWriter
<1> QED BY <1>1, <1>2 DEF ListNext, JobStep, StaffStep

----------------------------------------------------------------------------
(* Published items.                                                        *)

\* Only the job that holds the build has a selection.
LEMMA LockStep ==
  ASSUME JobsOK, SelectionLocked, NEW j \in Jobs, JobStep(j)
  PROVE  SelectionLocked'
<1> SUFFICES ASSUME NEW k \in Jobs, At(k, "generate", "read")'
             PROVE  buildLock' = k
  BY DEF SelectionLocked
<1> USE DEF JobsOK, SelectionLocked, At
<1>1. CASE Select(j)
  BY <1>1, TasklistConstants DEF Select, Job
<1>2. CASE ApplyFull(j)
  BY <1>2 DEF ApplyFull, Goto, Job
<1>3. CASE ApplyDelta(j)
  BY <1>3 DEF ApplyDelta, Goto, Ends, Failed, Job
<1>4. CASE JobDies(j)
  BY <1>4 DEF JobDies, Ends, Job
<1>5. CASE RequestTasklist(j)
  BY <1>5 DEF RequestTasklist, Job
<1>6. CASE ReportProgress(j)
  BY <1>6 DEF ReportProgress, Job
<1>7. CASE ProgressUpdate(j)
  BY <1>7 DEF ProgressUpdate, Job
<1>8. CASE DispatchAsync(j)
  BY <1>8 DEF DispatchAsync, Goto, Ends, Job
<1>9. CASE Begin(j)
  BY <1>9 DEF Begin, Job
<1>10. CASE ModelFails(j)
  BY <1>10 DEF ModelFails, Ends, Job
<1>11. CASE Finish(j)
  BY <1>11 DEF Finish, Ends, Job
<1>12. CASE AuditReads(j)
  BY <1>12 DEF AuditReads, Job
<1>13. CASE AuditSaves(j)
  BY <1>13 DEF AuditSaves, Ends, Job
<1>14. CASE UpdateSaves(j)
  BY <1>14 DEF UpdateSaves, Goto, Job
<1>15. CASE UpdateDone(j)
  BY <1>15 DEF UpdateDone, Ends, Job
<1> QED
  BY <1>1, <1>2, <1>3, <1>4, <1>5, <1>6, <1>7, <1>8, <1>9, <1>10, <1>11, <1>12, <1>13, <1>14,
     <1>15 DEF JobStep

\* A selection was made by Select, of items that were not locked.
LEMMA SelectionComes ==
  ASSUME JobsOK, NEW j \in Jobs, JobStep(j), NEW k \in Jobs, At(k, "generate", "read")'
  PROVE  \/ At(k, "generate", "read") /\ job'[k].read = job[k].read
         \/ k = j /\ UNCHANGED item /\ \A i \in job'[k].read : ~item[i].locked
<1> USE DEF JobsOK, At
<1>1. CASE k # j
  <2>1. job'[k] = job[k]
    BY <1>1 DEF JobStep, RequestTasklist, ReportProgress, ProgressUpdate, DispatchAsync, Begin,
       ModelFails, Select, ApplyFull, ApplyDelta, Finish, AuditReads, AuditSaves, UpdateSaves,
       UpdateDone, JobDies, Goto, Ends
  <2> QED BY <2>1
<1>2. CASE k = j
  <2>1. CASE Select(j)
    <3>1. PICK s \in SUBSET Items :
            /\ \A i \in s : ~item[i].locked
            /\ job' = [job EXCEPT ![j].pc = "read", ![j].read = s]
      BY <2>1, Selects
    <3>2. job'[j].read = s
      BY <3>1 DEF Job
    <3>3. UNCHANGED item
      BY <2>1 DEF Select
    <3> QED BY <1>2, <3>1, <3>2, <3>3
  <2>2. CASE AuditReads(j)
    BY <1>2, <2>2 DEF AuditReads, Job
  <2>3. ASSUME \E p \in {"queued", "applied", "accepted", "running", "over"} : job'[j].pc = p
        PROVE  FALSE
    BY <1>2, <2>3
  <2>4. CASE RequestTasklist(j) \/ ReportProgress(j)
    BY <2>3, <2>4 DEF RequestTasklist, ReportProgress, Job
  <2>5. CASE ProgressUpdate(j) \/ Begin(j)
    BY <2>3, <2>5 DEF ProgressUpdate, Begin, Job
  <2>6. CASE DispatchAsync(j) \/ ModelFails(j) \/ Finish(j)
    BY <2>3, <2>6 DEF DispatchAsync, ModelFails, Finish, Goto, Ends, Job
  <2>7. CASE ApplyFull(j) \/ ApplyDelta(j) \/ AuditSaves(j)
    BY <2>3, <2>7 DEF ApplyFull, ApplyDelta, AuditSaves, Goto, Ends, Job
  <2>8. CASE UpdateSaves(j) \/ UpdateDone(j) \/ JobDies(j)
    BY <2>3, <2>8 DEF UpdateSaves, UpdateDone, JobDies, Goto, Ends, Job
  <2> QED BY <1>2, <2>1, <2>2, <2>4, <2>5, <2>6, <2>7, <2>8 DEF JobStep
<1> QED BY <1>1, <1>2

\* A row to which nothing happens but that another is added beside it.
LEMMA AddingKeeps ==
  ASSUME NEW items \in [Items -> MeetingActionItem], NEW j \in Jobs,
         NEW ask \in BOOLEAN, NEW done \in BOOLEAN, NEW next \in Adding(items, j, ask, done),
         NEW i \in Items, item[i].st # "unused"
  PROVE  next[i] = items[i]
<1>1. CASE next = items
  BY <1>1
<1>2. CASE next # items
  <2>1. PICK k \in {k \in Items : item[k].st = "unused"} :
          next = [items EXCEPT ![k] = Row(j, ask, done, TRUE)]
    BY <1>2 DEF Adding
  <2> QED BY <2>1
<1> QED BY <1>1, <1>2

\* A job changes text, lock and state of no item on the list, but those it has
\* selected under the lock of the build.
LEMMA JobsSpare ==
  ASSUME ItemsOK, JobsOK, NEW j \in Jobs, JobStep(j), NEW i \in Items, item[i].st = "live",
         ~(At(j, "generate", "read") /\ i \in job[j].read)
  PROVE  /\ item'[i].st = "live" /\ item'[i].text = item[i].text
         /\ item'[i].superseded = item[i].superseded /\ item'[i].locked = item[i].locked
<1> USE DEF ItemsOK
<1>0. item[i].st # "unused"
  OBVIOUS
<1>1. CASE UNCHANGED item
  BY <1>1
<1>2. CASE ApplyFull(j)
  <2> DEFINE left == [k \in Items |-> IF k \in job[j].read THEN Gone ELSE item[k]]
  <2>1. left \in [Items -> MeetingActionItem] /\ left[i] = item[i]
    BY <1>2, RowTypes DEF ApplyFull
  <2>2. item' \in Adding(left, j, TRUE, FALSE)
    BY <1>2 DEF ApplyFull, ExtractTasklist
  <2> HIDE DEF left
  <2>3. item'[i] = item[i]
    BY <1>0, <2>1, <2>2, AddingKeeps
  <2> QED BY <2>3
<1>3. CASE ApplyDelta(j) /\ job[j].read \subseteq Live
  <2>1. PICK now \in {[k \in Items |-> IF k \in job[j].read
                                      THEN [item[k] EXCEPT !.text = j] ELSE item[k]],
                     [k \in Items |-> IF k \in job[j].read
                                      THEN [item[k] EXCEPT !.superseded = TRUE] ELSE item[k]]} :
          item' \in Adding(now, j, TRUE, FALSE)
    BY <1>3 DEF ApplyDelta, ExtractTasklist
  <2>2. now \in [Items -> MeetingActionItem]
    <3>1. \A k \in Items : /\ [item[k] EXCEPT !.text = j] \in MeetingActionItem
                           /\ [item[k] EXCEPT !.superseded = TRUE] \in MeetingActionItem
      BY RowTypes DEF Text
    <3> QED BY <2>1, <3>1
  <2>3. now[i] = item[i]
    BY <1>3, <2>1 DEF ApplyDelta
  <2>4. item'[i] = item[i]
    BY <1>0, <2>1, <2>2, <2>3, AddingKeeps
  <2> QED BY <2>4
<1>4. CASE AuditSaves(j) /\ job[j].read \subseteq Live
  <2>1. PICK d \in BOOLEAN :
          item' \in Adding([k \in Items |-> IF k \in job[j].read
                                           THEN [item[k] EXCEPT !.done = d]
                                           ELSE item[k]], j, TRUE, TRUE)
    BY <1>4 DEF AuditSaves
  <2> DEFINE now == [k \in Items |-> IF k \in job[j].read
                                     THEN [item[k] EXCEPT !.done = d] ELSE item[k]]
  <2>2. now \in [Items -> MeetingActionItem]
    BY RowTypes
  <2>3. /\ now[i].st = "live" /\ now[i].text = item[i].text
        /\ now[i].superseded = item[i].superseded /\ now[i].locked = item[i].locked
    BY DEF MeetingActionItem
  <2> HIDE DEF now
  <2>4. item' \in Adding(now, j, TRUE, TRUE)
    BY <2>1 DEF now
  <2>5. item'[i] = now[i]
    BY <1>0, <2>2, <2>4, AddingKeeps
  <2> QED BY <2>3, <2>5
<1>5. CASE UpdateSaves(j)
  <2>1. item'[i] = item[i]
    <3>1. item' \in Adding(item, j, FALSE, FALSE)
      BY <1>5 DEF UpdateSaves, ExtractDelta
    <3> QED BY <1>0, <3>1, AddingKeeps
  <2> QED BY <2>1
<1> QED
  BY <1>1, <1>2, <1>3, <1>4, <1>5 DEF JobStep, RequestTasklist, ReportProgress, ProgressUpdate,
     DispatchAsync, Begin, ModelFails, Select, ApplyDelta, Finish, AuditReads, AuditSaves,
     UpdateDone, JobDies

\* Jobs leave published items alone.
LEMMA PublishedByJobs ==
  ASSUME ListTypes, PublishInv, NEW j \in Jobs, JobStep(j)
  PROVE  PublishInv'
<1> USE DEF ListTypes, PublishInv
<1>0. UNCHANGED <<task, overtaken>>
  BY StaffByJobs DEF staffVars
<1>1. SelectionLocked'
  BY LockStep
<1>2. PublishedLocked' /\ PublishedKept'
  <2> SUFFICES ASSUME NEW i \in Items, task[i] # NoTask, i \notin overtaken
               PROVE  item'[i].locked /\ item'[i].st = "live" /\ ~item'[i].superseded
                      /\ item'[i].text = task[i]
    BY <1>0 DEF PublishedLocked, PublishedKept, Live
  <2>1. item[i].locked /\ item[i].st = "live" /\ ~item[i].superseded /\ item[i].text = task[i]
    BY DEF PublishedLocked, PublishedKept, Live
  <2>2. ~(At(j, "generate", "read") /\ i \in job[j].read)
    BY DEF SelectedFree
  <2> QED BY <2>1, <2>2, JobsSpare
<1>3. SelectedFree'
  <2> SUFFICES ASSUME NEW k \in Jobs, NEW i \in Items, At(k, "generate", "read")', i \in job'[k].read
               PROVE  task[i] = NoTask \/ i \in overtaken
    BY <1>0 DEF SelectedFree
  <2> QED BY SelectionComes DEF SelectedFree, PublishedLocked
<1> QED BY <1>1, <1>2, <1>3

\* Staff publish nothing that a job has selected, and what they change was
\* opened before it was published.
LEMMA PublishedByStaff ==
  ASSUME ListTypes, PublishInv, StaffStep
  PROVE  PublishInv'
<1> USE DEF ListTypes, PublishInv
<1>0. UNCHANGED <<job, buildLock>>
  BY JobsByStaff
<1>1. SelectionLocked'
  BY <1>0 DEF SelectionLocked, At
<1>2. ASSUME \A i \in Items : task'[i] # NoTask /\ i \notin overtaken' =>
               /\ task[i] # NoTask /\ i \notin overtaken
               /\ task'[i] = task[i]
               /\ item'[i].locked /\ item'[i].st = item[i].st /\ item'[i].text = item[i].text
               /\ item'[i].superseded = item[i].superseded
      PROVE  PublishInv'
  <2>1. PublishedLocked' /\ PublishedKept'
    BY <1>2 DEF PublishedLocked, PublishedKept, Live
  <2>2. SelectedFree'
    BY <1>0, <1>2 DEF SelectedFree, At
  <2> QED BY <1>1, <2>1, <2>2
<1>3. ASSUME NEW i \in Items, AddItem(i) PROVE PublishInv'
  BY <1>2, <1>3 DEF AddItem, staffVars, PublishedKept, PublishedLocked, Live, ItemsOK
<1>4. ASSUME NEW i \in Items, Publish(i) PROVE PublishInv'
  <2>1. \A k \in Jobs : ~At(k, "generate", "read")
    BY <1>4, TasklistConstants DEF Publish, SelectionLocked
  <2>2. SelectedFree'
    BY <1>0, <2>1 DEF SelectedFree, At
  <2>3. \A k \in Items \ {i} : item'[k] = item[k] /\ task'[k] = task[k]
    BY <1>4 DEF Publish
  <2>4. /\ item'[i].locked /\ item'[i].st = "live" /\ ~item'[i].superseded
        /\ item'[i].text = task'[i]
    BY <1>4 DEF Publish, Assigned, ItemsOK, StaffOK, MeetingActionItem, Live
  <2>5. UNCHANGED overtaken
    BY <1>4 DEF Publish
  <2> QED BY <1>1, <2>2, <2>3, <2>4, <2>5 DEF PublishedLocked, PublishedKept, Live
<1>5. ASSUME NEW i \in Items, SyncSource(i) PROVE PublishInv'
  <2>1. /\ \A k \in Items \ {i} : item'[k] = item[k]
        /\ item'[i].locked /\ item'[i].st = item[i].st /\ item'[i].text = item[i].text
        /\ item'[i].superseded = item[i].superseded
    BY <1>5 DEF SyncSource, ItemsOK, MeetingActionItem
  <2> QED BY <1>2, <1>5, <2>1 DEF SyncSource, staffVars, PublishedLocked
<1>6. ASSUME NEW i \in Items, DeleteTask(i) PROVE PublishInv'
  BY <1>2, <1>6 DEF DeleteTask, StaffOK, PublishedLocked
<1>7. ASSUME NEW e \in Edits, NEW i \in Items, OpenItem(e, i) PROVE PublishInv'
  BY <1>2, <1>7 DEF OpenItem, PublishedLocked
<1>8. ASSUME NEW e \in Edits, SaveItem(e) PROVE PublishInv'
  <2>1. edit[e].on \in Items
    BY <1>8 DEF SaveItem, EditInHand
  <2> QED BY <1>2, <1>8, <2>1 DEF SaveItem, Overtakes, PublishedLocked, ItemsOK
<1>9. ASSUME NEW e \in Edits, DeleteItem(e) PROVE PublishInv'
  <2>1. edit[e].on \in Items
    BY <1>9 DEF DeleteItem, EditInHand
  <2> QED BY <1>2, <1>9, <2>1 DEF DeleteItem, PublishedLocked, ItemsOK, StaffOK
<1>10. ASSUME SaveBuild PROVE PublishInv'
  BY <1>2, <1>10 DEF SaveBuild, PublishedLocked
<1> QED
  BY <1>3, <1>4, <1>5, <1>6, <1>7, <1>8, <1>9, <1>10 DEF StaffStep

----------------------------------------------------------------------------
(* The invariant of the tasklist.                                          *)

\* It holds at first ...
LEMMA ListStarts == ListInit => ListInv
<1> SUFFICES ASSUME ListInit PROVE ListInv
  OBVIOUS
<1>1. ItemsOK
  BY RowTypes DEF ListInit, ItemsOK
<1>2. JobsOK
  BY DEF ListInit, JobsOK, ListStatus, Job
<1>3. StaffOK /\ EditInHand
  <2>1. NoEdit \in Edit /\ NoEdit.op = "none"
    BY RowTypes DEF NoEdit, Edit
  <2> QED BY <2>1 DEF ListInit, StaffOK, EditInHand
<1>4. JobsBegun /\ Marked /\ SelectionLocked /\ SelectedFree
  BY DEF ListInit, JobsBegun, Marked, SelectionLocked, SelectedFree, At
<1>5. PublishedLocked /\ PublishedKept
  BY DEF ListInit, PublishedLocked, PublishedKept
<1>6. OneWriter
  BY DEF ListInit, OneWriter, Writing
<1> QED BY <1>1, <1>2, <1>3, <1>4, <1>5, <1>6 DEF ListInv, ListTypes, PublishInv

\* ... and is kept by every step.
LEMMA ListStep == ListInv /\ [ListNext]_listVars => ListInv'
<1> SUFFICES ASSUME ListInv, [ListNext]_listVars PROVE ListInv'
  OBVIOUS
<1>1. CASE ListNext
  <2>1. ListTypes' /\ JobsBegun' /\ Marked' /\ OneWriter'
    BY <1>1, ListTypesStep, MarkedStep, WriterStep DEF ListInv
  <2>2. PublishInv'
    BY <1>1, PublishedByJobs, PublishedByStaff DEF ListInv, ListNext, JobStep, StaffStep
  <2> QED BY <2>1, <2>2 DEF ListInv
<1>2. CASE UNCHANGED listVars
  <2>1. ListTypes'
    BY <1>2 DEF listVars, ListInv, ListTypes, ItemsOK, JobsOK, StaffOK, EditInHand
  <2>2. JobsBegun' /\ Marked' /\ OneWriter'
    <3>1. Writing' = Writing /\ UNCHANGED <<job, mark, died, tasklistStatus, restored>>
      BY <1>2 DEF listVars, Writing
    <3> QED BY <3>1 DEF ListInv, JobsBegun, Marked, OneWriter
  <2>3. PublishInv'
    BY <1>2 DEF listVars, ListInv, PublishInv, SelectionLocked, SelectedFree, PublishedLocked,
       PublishedKept, Live, At
  <2> QED BY <2>1, <2>2, <2>3 DEF ListInv
<1> QED BY <1>1, <1>2

\* A set all of whose elements are equal has one at most.
LEMMA AtMostOne ==
  ASSUME NEW S, \A x, y \in S : x = y
  PROVE  Cardinality(S) <= 1
<1>1. CASE S = {}
  BY <1>1, FS_EmptySet
<1>2. CASE S # {}
  <2>1. PICK x \in S : S = {x}
    BY <1>2
  <2> QED BY <2>1, FS_Singleton
<1> QED BY <1>1, <1>2

\* The invariant says what the runs check.
LEMMA ListInvSays == ListInv => ListTypeOK /\ PublishedKept /\ ProcessingHasJob
<1> SUFFICES ASSUME ListInv PROVE ListTypeOK /\ PublishedKept /\ ProcessingHasJob
  OBVIOUS
<1>1. ListTypeOK
  BY DEF ListInv, ListTypes, ItemsOK, JobsOK, StaffOK, ListTypeOK
<1>2. ProcessingHasJob
  BY AtMostOne DEF ListInv, OneWriter, Marked, ProcessingHasJob
<1> QED BY <1>1, <1>2 DEF ListInv, PublishInv

----------------------------------------------------------------------------
(* Both beside each other.                                                 *)

MeetingsInv == ListInv /\ FathomInv

\* Every behaviour keeps the invariants of both.
LEMMA MeetingsInvariant == Spec => []MeetingsInv
<1>1. Init => MeetingsInv
  BY ListStarts, FathomStarts DEF Init, MeetingsInv
<1>2. MeetingsInv /\ [Next]_<<part, listVars, fathomVars>> => MeetingsInv'
  BY ListStep, FathomStep DEF Next, MeetingsInv
<1> QED BY <1>1, <1>2, PTL DEF Spec

\* Every row, lock and request keeps its type.
THEOREM TypeCorrect == Spec => []MeetingTypesOK
<1>1. MeetingsInv => MeetingTypesOK
  BY ListInvSays DEF MeetingsInv, FathomInv, MeetingTypesOK
<1> QED BY <1>1, MeetingsInvariant, PTL

\* What workers and staff do beside it, a published item keeps the text of its task,
\* but for edits that were begun before it was published.
THEOREM PublishedStays == Spec => []PublishedKept
<1>1. MeetingsInv => PublishedKept
  BY ListInvSays DEF MeetingsInv
<1> QED BY <1>1, MeetingsInvariant, PTL

\* A list, report or note that shows "processing" has its job or a dead one, and two
\* jobs never write the list together, unless the whole build was saved.
THEOREM ProcessingEnds == Spec => []ProcessingHasJob
<1>1. MeetingsInv => ProcessingHasJob
  BY ListInvSays DEF MeetingsInv
<1> QED BY <1>1, MeetingsInvariant, PTL

\* However often it is delivered, routed and attached, a recording becomes one note.
THEOREM OneNote == Spec => []OneNotePerMeeting
<1>1. MeetingsInv => OneNotePerMeeting
  BY DEF MeetingsInv, FathomInv
<1> QED BY <1>1, MeetingsInvariant, PTL
=============================================================================
