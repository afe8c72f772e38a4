-------------------------- MODULE MeetingTasklist --------------------------
(***************************************************************************)
(* The tasklist of one build. Workers extract it from meeting notes,       *)
(* re-sync it with later notes, audit progress reports against it and add  *)
(* the questions of follow-up meetings; staff add, edit and delete its     *)
(* items and publish them as tasks. A worker's model call takes long and   *)
(* runs under no lock.                                                     *)
(***************************************************************************)
EXTENDS Naturals, FiniteSets

CONSTANTS
    Items,          \* ids of MeetingActionItem rows
    Jobs,           \* requests that queue a worker, with their report or note
    Edits,          \* requests of staff that read an item and save it later
    Human,          \* the text of an item as staff wrote it
    NoJob, NoTask, NoItem,
    Deaths          \* bound on the deaths of workers and requests

ASSUME TasklistConstants ==
    /\ Human \notin Jobs /\ NoJob \notin Jobs /\ NoTask \notin Jobs \cup {Human}
    /\ Deaths \in Nat

VARIABLES
    tasklistStatus, \* Build.tasklist_status
    buildLock,      \* the job whose transaction holds the Build row
    item,           \* the MeetingActionItem rows; text names who wrote it
    task,           \* the text of the task published from an item
    job,            \* per job: kind, progress and the items it has read
    mark,           \* ai_status of a job's ProgressReport or MeetingNote
    edit,           \* per staff request: what it does and the row it read
    died,           \* history: jobs cut short by a death or an uncaught error
    restored,       \* history: a save of the whole build changed the status
    overtaken       \* history: published items a request begun earlier changed

listVars == <<tasklistStatus, buildLock, item, task, job, mark, edit,
              died, restored, overtaken>>
-----------------------------------------------------------------------------
ListStatus == {"", "processing", "done", "failed"}
Text == Jobs \cup {Human}
MeetingActionItem ==
    [st : {"unused", "live", "gone"}, text : Text, ask : BOOLEAN, done : BOOLEAN,
     superseded : BOOLEAN, ai : BOOLEAN, locked : BOOLEAN]
Row(text, ask, done, ai) == [st |-> "live", text |-> text, ask |-> ask, done |-> done,
                             superseded |-> FALSE, ai |-> ai, locked |-> FALSE]
NoRow == [Row(Human, FALSE, FALSE, FALSE) EXCEPT !.st = "unused"]
Gone == [NoRow EXCEPT !.st = "gone"]
Job == [kind : {"none", "generate", "audit", "update"},
        pc : {"none", "accepted", "queued", "running", "read", "applied", "over"},
        full : BOOLEAN, read : SUBSET Items]
Edit == [op : {"none", "save", "delete"}, on : Items \cup {NoItem},
         row : MeetingActionItem]
NoEdit == [op |-> "none", on |-> NoItem, row |-> NoRow]

ListInit ==
    /\ tasklistStatus = "" /\ buildLock = NoJob
    /\ item = [i \in Items |-> NoRow] /\ task = [i \in Items |-> NoTask]
    /\ job = [j \in Jobs |-> [kind |-> "none", pc |-> "none", full |-> FALSE, read |-> {}]]
    /\ mark = [j \in Jobs |-> ""]
    /\ edit = [e \in Edits |-> NoEdit]
    /\ died = {} /\ restored = FALSE /\ overtaken = {}

Live == {i \in Items : item[i].st = "live"}
At(j, kind, pc) == job[j].kind = kind /\ job[j].pc = pc
Goto(j, pc) == job' = [job EXCEPT ![j].pc = pc]
Ends(j) == job' = [job EXCEPT ![j] = [@ EXCEPT !.pc = "over", !.full = FALSE, !.read = {}]]
Crash(j) == died' = died \cup {j}
staffVars == <<task, edit, restored, overtaken>>
-----------------------------------------------------------------------------
(* Requests that start a job.                                              *)

\* MUTANT of MayStart: a list that is being written may be asked for again.
MutMayStart == TRUE

\* A request for a list that is being written is answered and starts nothing.
MayStart == tasklistStatus # "processing"

RequestTasklist(j) ==
    /\ job[j].kind = "none" /\ buildLock = NoJob /\ MayStart
    /\ job' = [job EXCEPT ![j].kind = "generate", ![j].pc = "accepted"]
    /\ tasklistStatus' = "processing"
    /\ UNCHANGED <<buildLock, item, mark, died, staffVars>>

ReportProgress(j) ==
    /\ job[j].kind = "none"
    /\ job' = [job EXCEPT ![j].kind = "audit", ![j].pc = "accepted"]
    /\ mark' = [mark EXCEPT ![j] = "processing"]
    /\ UNCHANGED <<tasklistStatus, buildLock, item, died, staffVars>>

ProgressUpdate(j) ==
    /\ job[j].kind = "none"
    /\ job' = [job EXCEPT ![j].kind = "update", ![j].pc = "accepted"]
    /\ mark' = [mark EXCEPT ![j] = "processing"]
    /\ UNCHANGED <<tasklistStatus, buildLock, item, died, staffVars>>

\* What a job that gives up writes: on the build, or on its report or note.
Failed(j) ==
    IF job[j].kind = "generate"
    THEN /\ buildLock \in {NoJob, j}
         /\ tasklistStatus' = "failed" /\ UNCHANGED mark
    ELSE mark' = [mark EXCEPT ![j] = "failed"] /\ UNCHANGED tasklistStatus

\* _dispatch_async(): the broker takes the job or is offline.
DispatchAsync(j) ==
    /\ job[j].pc = "accepted"
    /\ \/ Goto(j, "queued") /\ UNCHANGED <<tasklistStatus, mark>>
       \/ Ends(j) /\ Failed(j)
    /\ UNCHANGED <<buildLock, item, died, staffVars>>
-----------------------------------------------------------------------------
(* generate_meeting_tasklist.                                              *)

\* A first run if no item exists yet, of anybody.
Begin(j) ==
    /\ job[j].pc = "queued"
    /\ job' = [job EXCEPT ![j].pc = "running", ![j].full = (Live = {})]
    /\ UNCHANGED <<tasklistStatus, buildLock, item, mark, died, staffVars>>

ModelFails(j) ==
    /\ job[j].pc = "running"
    /\ Ends(j) /\ Failed(j)
    /\ UNCHANGED <<buildLock, item, died, staffVars>>

\* Items a first run replaces, and those a re-sync may change.
Replaced == {i \in Live : item[i].ai /\ ~item[i].locked}
Changeable == {i \in Live : ~item[i].locked}

\* What the model asks to change by id, or finds done: one item at most here.
ReconcileTasklist == {{}} \cup {{i} : i \in Changeable}
AnalyzeReport == {{}} \cup {{i} : i \in {k \in Changeable : ~item[k].superseded}}

\* The transaction locks the build; its rows are selected, then written.
Select(j) ==
    /\ At(j, "generate", "running") /\ buildLock = NoJob
    /\ buildLock' = j
    /\ \E s \in IF job[j].full THEN {Replaced} ELSE ReconcileTasklist :
         job' = [job EXCEPT ![j].pc = "read", ![j].read = s]
    /\ UNCHANGED <<tasklistStatus, item, mark, died, staffVars>>

\* New rows beside the present ones: at most one in this model.
Adding(items, j, ask, done) ==
    {items} \cup {[items EXCEPT ![i] = Row(j, ask, done, TRUE)] :
                  i \in {k \in Items : item[k].st = "unused"}}

\* What the model finds in all notes, or in the notes of one meeting: its asks,
\* and its open questions.
ExtractTasklist(items, j) == Adding(items, j, TRUE, FALSE)
ExtractDelta(j) == Adding(item, j, FALSE, FALSE)

\* _apply_tasklist_full: what was selected goes, whoever has locked it since.
ApplyFull(j) ==
    /\ At(j, "generate", "read") /\ job[j].full
    /\ item' \in ExtractTasklist([i \in Items |-> IF i \in job[j].read THEN Gone ELSE item[i]], j)
    /\ Goto(j, "applied") /\ buildLock' = NoJob
    /\ UNCHANGED <<tasklistStatus, mark, died, staffVars>>

\* _apply_tasklist_delta: an item that was selected gets a new text or is
\* superseded. If it was deleted since, the save raises and all is undone.
ApplyDelta(j) ==
    /\ At(j, "generate", "read") /\ ~job[j].full
    /\ buildLock' = NoJob
    /\ IF job[j].read \subseteq Live
       THEN /\ \E now \in {[i \in Items |-> IF i \in job[j].read
                                            THEN [item[i] EXCEPT !.text = j] ELSE item[i]],
                           [i \in Items |-> IF i \in job[j].read
                                            THEN [item[i] EXCEPT !.superseded = TRUE] ELSE item[i]]} :
                 item' \in ExtractTasklist(now, j)
            /\ Goto(j, "applied") /\ UNCHANGED <<tasklistStatus, mark>>
       ELSE /\ Ends(j) /\ Failed(j) /\ UNCHANGED item
    /\ UNCHANGED <<died, staffVars>>

Finish(j) ==
    /\ At(j, "generate", "applied") /\ buildLock = NoJob
    /\ Ends(j) /\ tasklistStatus' = "done"
    /\ UNCHANGED <<buildLock, item, mark, died, staffVars>>
-----------------------------------------------------------------------------
(* analyze_build_progress and apply_progress_update.                       *)

\* An item the audit has a verdict on, unless it is locked or withdrawn.
AuditReads(j) ==
    /\ At(j, "audit", "running")
    /\ \E s \in AnalyzeReport :
         job' = [job EXCEPT ![j].pc = "read", ![j].read = s]
    /\ UNCHANGED <<tasklistStatus, buildLock, item, mark, died, staffVars>>

\* The verdict and reported new work are saved with the report, all or nothing:
\* an item deleted meanwhile raises, and no one then marks the report failed.
AuditSaves(j) ==
    /\ At(j, "audit", "read") /\ Ends(j)
    /\ IF job[j].read \subseteq Live
       THEN /\ \E d \in BOOLEAN :
                 item' \in Adding([i \in Items |-> IF i \in job[j].read
                                                   THEN [item[i] EXCEPT !.done = d]
                                                   ELSE item[i]], j, TRUE, TRUE)
            /\ mark' = [mark EXCEPT ![j] = "done"] /\ UNCHANGED died
       ELSE Crash(j) /\ UNCHANGED <<item, mark>>
    /\ UNCHANGED <<tasklistStatus, buildLock, staffVars>>

\* A question of the meeting becomes an item; the note is marked afterwards.
UpdateSaves(j) ==
    /\ At(j, "update", "running")
    /\ item' \in ExtractDelta(j) /\ Goto(j, "applied")
    /\ UNCHANGED <<tasklistStatus, buildLock, mark, died, staffVars>>

UpdateDone(j) ==
    /\ At(j, "update", "applied") /\ Ends(j)
    /\ mark' = [mark EXCEPT ![j] = "done"]
    /\ UNCHANGED <<tasklistStatus, buildLock, item, died, staffVars>>

\* A request or a worker dies; an open transaction is undone.
JobDies(j) ==
    /\ job[j].pc \in {"accepted", "running", "read", "applied"}
    /\ Cardinality(died) < Deaths
    /\ Ends(j) /\ Crash(j)
    /\ buildLock' = IF buildLock = j THEN NoJob ELSE buildLock
    /\ UNCHANGED <<tasklistStatus, item, mark, staffVars>>
-----------------------------------------------------------------------------
(* Staff.                                                                  *)

AddItem(i) ==
    /\ item[i].st = "unused"
    /\ item' = [item EXCEPT ![i] = Row(Human, TRUE, FALSE, FALSE)]
    /\ UNCHANGED <<tasklistStatus, buildLock, job, mark, died, staffVars>>

\* An edit or a deletion reads the item with its task, and refuses if it has one.
OpenItem(e, i) ==
    /\ edit[e].op = "none" /\ i \in Live /\ task[i] = NoTask
    /\ edit' \in {[edit EXCEPT ![e] = [op |-> "save", on |-> i, row |-> item[i]]],
                  [edit EXCEPT ![e] = [op |-> "delete", on |-> i, row |-> NoRow]]}
    /\ UNCHANGED <<tasklistStatus, buildLock, item, task, job, mark, died,
                   restored, overtaken>>

Closed(e) == edit' = [edit EXCEPT ![e] = NoEdit]
Overtakes(i) == overtaken' = IF task[i] = NoTask THEN overtaken ELSE overtaken \cup {i}

\* The whole row is saved, locked; a row deleted meanwhile is inserted again.
SaveItem(e) ==
    LET i == edit[e].on  r == edit[e].row IN
    /\ edit[e].op = "save"
    /\ item' \in {[item EXCEPT ![i] = [r EXCEPT !.text = Human, !.locked = TRUE]],
                  [item EXCEPT ![i] = [r EXCEPT !.done = ~r.done, !.locked = TRUE]]}
    /\ Closed(e) /\ Overtakes(i)
    /\ UNCHANGED <<tasklistStatus, buildLock, task, job, mark, died, restored>>

DeleteItem(e) ==
    LET i == edit[e].on IN
    /\ edit[e].op = "delete"
    /\ item' = [item EXCEPT ![i] = Gone]
    /\ task' = [task EXCEPT ![i] = NoTask]
    /\ Closed(e) /\ overtaken' = overtaken \ {i}
    /\ UNCHANGED <<tasklistStatus, buildLock, job, mark, died, restored>>

\* MUTANT of Assigned: publishing does not protect the item from a re-sync.
MutAssigned(r) == r

\* The item of a new assignment is locked.
Assigned(r) == [r EXCEPT !.locked = TRUE]

Publish(i) ==
    /\ buildLock = NoJob /\ tasklistStatus # "processing"
    /\ i \in Live /\ ~item[i].superseded /\ item[i].ask /\ ~item[i].done
    /\ task[i] = NoTask
    /\ task' = [task EXCEPT ![i] = item[i].text]
    /\ item' = [item EXCEPT ![i] = Assigned(@)]
    /\ UNCHANGED <<tasklistStatus, buildLock, job, mark, edit, died,
                   restored, overtaken>>

\* The status of a task is copied to its item; or the task is deleted.
SyncSource(i) ==
    /\ task[i] # NoTask
    /\ \E d \in BOOLEAN : item' = [item EXCEPT ![i] = [@ EXCEPT !.done = d, !.locked = TRUE]]
    /\ UNCHANGED <<tasklistStatus, buildLock, job, mark, died, staffVars>>

DeleteTask(i) ==
    /\ task[i] # NoTask
    /\ task' = [task EXCEPT ![i] = NoTask] /\ overtaken' = overtaken \ {i}
    /\ UNCHANGED <<tasklistStatus, buildLock, item, job, mark, edit, died, restored>>

\* Assigning a build, or editing its details, saves the whole row as it was read,
\* an old status with it (and the status may be given in the request): once here.
SaveBuild ==
    /\ buildLock = NoJob /\ ~restored
    /\ tasklistStatus' \in ListStatus \ {tasklistStatus} /\ restored' = TRUE
    /\ UNCHANGED <<buildLock, item, task, job, mark, edit, died, overtaken>>
-----------------------------------------------------------------------------
ListNext ==
    \/ \E j \in Jobs :
         \/ RequestTasklist(j) \/ ReportProgress(j) \/ ProgressUpdate(j)
         \/ DispatchAsync(j) \/ Begin(j) \/ ModelFails(j)
         \/ Select(j) \/ ApplyFull(j) \/ ApplyDelta(j) \/ Finish(j)
         \/ AuditReads(j) \/ AuditSaves(j) \/ UpdateSaves(j) \/ UpdateDone(j)
         \/ JobDies(j)
    \/ \E i \in Items : AddItem(i) \/ Publish(i) \/ SyncSource(i) \/ DeleteTask(i)
    \/ \E e \in Edits, i \in Items : OpenItem(e, i)
    \/ \E e \in Edits : SaveItem(e) \/ DeleteItem(e)
    \/ SaveBuild

ListSpec == ListInit /\ [][ListNext]_listVars
-----------------------------------------------------------------------------
ListTypeOK ==
    /\ tasklistStatus \in ListStatus
    /\ buildLock \in Jobs \cup {NoJob}
    /\ item \in [Items -> MeetingActionItem] /\ task \in [Items -> Text \cup {NoTask}]
    /\ job \in [Jobs -> Job] /\ mark \in [Jobs -> ListStatus]
    /\ edit \in [Edits -> Edit]
    /\ died \subseteq Jobs /\ overtaken \subseteq Items /\ restored \in BOOLEAN

\* Whatever workers do beside them, an item that was published stays on the list
\* with the text its task was given, unless an edit begun before it was published
\* is saved after.
PublishedKept ==
    \A i \in Items : task[i] # NoTask =>
        i \in overtaken \/ (i \in Live /\ ~item[i].superseded /\ item[i].text = task[i])

\* A list, report or note that shows "processing" has a job that will settle it,
\* or one that died; and two jobs never write the list together. A save of the
\* whole build with an old status breaks both, which the code does not prevent.
Writing == {j \in Jobs : job[j].kind = "generate" /\ job[j].pc # "over"}
ProcessingHasJob ==
    /\ \A j \in Jobs : mark[j] = "processing" => job[j].pc # "over" \/ j \in died
    /\ ~restored =>
         /\ tasklistStatus = "processing" =>
              Writing # {} \/ \E j \in died : job[j].kind = "generate"
         /\ Cardinality(Writing) <= 1

\* The promise of the list's docstring: no worker changes an item that staff have
\* locked. The lock is read before the change and not looked at when it is saved.
LockedKept ==
    [][\A j \in Jobs, i \in Items :
         (ApplyFull(j) \/ ApplyDelta(j)) /\ i \in Live /\ item[i].locked
           => item'[i] = item[i]]_listVars
=============================================================================
