------------------------------- MODULE Board -------------------------------
(***************************************************************************)
(* The project board: one project with its team, tasks, milestones and     *)
(* blockers, and the checklists of its tasks. A request saves every column *)
(* of the row that it has read, may save some a second time, and then      *)
(* mails whom the row names; each statement is a transaction of its own,   *)
(* and the dashboards count in several. A request is used once. The logs,  *)
(* and the mails that only tell others that a row changed, are left out:   *)
(* nothing reads them.                                                     *)
(***************************************************************************)
EXTENDS Naturals, FiniteSets

CONSTANTS
    Team, Managers, \* staff with a mail address, and those who may change all
    Editors,        \* requests
    Project,        \* Bound: one project
    Cards, Ticks, Milestones, Blockers, Seats,  \* the tasks, checklist items,
                    \* milestones, blockers and co-assignments there may be
    TaskBlockers,   \* the blockers of tasks; the others are the project's
    NoOne

ASSUME BoardConstants ==
    /\ Managers \subseteq Team
    /\ NoOne \notin Team \cup {Project} \cup Cards \cup Ticks \cup Milestones \cup Blockers \cup Seats
    /\ IsFiniteSet(Cards) /\ Cards # {} /\ TaskBlockers \subseteq Blockers
    /\ Project \notin Cards \cup Ticks \cup Milestones \cup Blockers \cup Seats
    /\ Cards \cap (Ticks \cup Milestones \cup Blockers \cup Seats) = {}
    /\ Ticks \cap (Milestones \cup Blockers \cup Seats) = {}
    /\ Milestones \cap (Blockers \cup Seats) = {} /\ Blockers \cap Seats = {}

VARIABLES
    thing,          \* per row: its columns
    edit,           \* per request: who sent it, the row it read, or the one it saved
    tally,          \* a dashboard that is being counted
    knows,          \* history: who was mailed of a row that names him, or saved it
    untold,         \* history: whom a row names though no mail is to follow: its
                    \* request ended before its mails, or that edit mails nobody
    excused         \* history: rows that were created with a date that does not agree,
                    \* whose last saves crossed or whose last save of a date was lost

boardVars == <<thing, edit, tally, knows, untold, excused>>
-----------------------------------------------------------------------------
Things == {Project} \cup Cards \cup Ticks \cup Milestones \cup Blockers \cup Seats
Person == Team \cup {NoOne}

\* What a row may belong to.
Parents(x) == IF x \in Ticks \cup TaskBlockers THEN Cards ELSE {Project} \ {x}

\* done: completed, checked or resolved; dated: completed_at; who: assigned to it or
\* checked it; by: created or reported it; of: its task or project. A kind without a
\* column leaves it empty, and columns that nothing reads are left out.
RowsOf(x) ==
    [there : {"never", "here", "gone"},
     done : IF x \in Cards \cup Ticks \cup Milestones \cup Blockers THEN BOOLEAN ELSE {FALSE},
     dated : IF x \in Cards \cup Ticks \cup Milestones THEN BOOLEAN ELSE {FALSE},
     who : IF x \in {Project} \cup Cards \cup Ticks \cup Seats THEN Person ELSE {NoOne},
     by : IF x \in Cards \cup Blockers THEN Person ELSE {NoOne},
     of : Parents(x) \cup {NoOne}]

NoThing == [there |-> "never", done |-> FALSE, dated |-> FALSE, who |-> NoOne, by |-> NoOne, of |-> NoOne]
Gone == [NoThing EXCEPT !.there = "gone"]

Rows == UNION {RowsOf(x) : x \in Things}
Edit == [pc : {"idle", "open", "stamp", "tell", "done"}, by : Person, x : Things,
         row : Rows, told : SUBSET Person]
NoEdit == [pc |-> "idle", by |-> NoOne, x |-> Project, row |-> NoThing, told |-> {}]

Counts == 0..Cardinality(Cards)
Tally == [pc : {"idle", "done", "rest", "end"}, of : Person, total : Counts,
          done : Counts, rest : Counts, moved : BOOLEAN]

Stands(x) == thing[x].there = "here"
HasHome(x, row) == x = Project \/ \E p \in Parents(x) : row.of = p /\ Stands(p)

\* Whom a row names: its assignee, or who reported a blocker that is resolved.
Named(x, row) ==
    (IF x \in {Project} \cup Cards \cup Seats THEN {row.who}
     ELSE IF x \in Blockers /\ row.done THEN {row.by} ELSE {}) \ {NoOne}

\* A completed row has its date; a task or an item that is not has none, and nobody
\* who checked it.
Agrees(x, row) ==
    /\ x \in Cards \cup Ticks \cup Milestones /\ row.done => row.dated
    /\ x \in Cards \cup Ticks /\ ~row.done => ~row.dated
    /\ x \in Ticks /\ ~row.done => row.who = NoOne

\* At first there is nothing, a project, or one with rows that are all completed or not.
BoardInit ==
    /\ \E u \in Person, all \in BOOLEAN, t \in Cards, there \in {{}, {Project}, Things \ Seats} :
         thing = [x \in Things |-> IF x \notin there THEN NoThing ELSE
             [there |-> "here", done |-> all /\ x # Project,
              dated |-> all /\ x \in Cards \cup Ticks \cup Milestones,
              who |-> IF x \in {Project} \cup Cards \/ (all /\ x \in Ticks) THEN u ELSE NoOne,
              by |-> IF x \in Blockers THEN u ELSE NoOne,
              of |-> IF x = Project THEN NoOne ELSE IF x \in Ticks \cup TaskBlockers THEN t ELSE Project]]
    /\ edit = [e \in Editors |-> NoEdit]
    /\ tally = [pc |-> "idle", of |-> NoOne, total |-> 0, done |-> 0, rest |-> 0, moved |-> FALSE]
    /\ knows = {p \in Things \X Team : p[2] \in Named(p[1], thing[p[1]])}
    /\ untold = {} /\ excused = {}
-----------------------------------------------------------------------------
IsProjectMember(u) ==
    Stands(Project) /\ \E x \in {Project} \cup Seats : Stands(x) /\ thing[x].who = u
CanManageProject(u) == u \in Managers \/ IsProjectMember(u)
CanManageTask(u, t) == CanManageProject(u) \/ u \in {thing[t].who, thing[t].by}

\* A project or a task may be created by anyone who is logged in, what belongs to
\* them by whoever may change them; so may an existing row.
MayFile(u, x, of) ==
    IF of \in Cards THEN CanManageTask(u, of) ELSE x \in Cards \cup {Project} \/ CanManageProject(u)
MayEdit(u, x) ==
    IF x \in Cards THEN CanManageTask(u, x)
    ELSE IF x = Project THEN CanManageProject(u) ELSE MayFile(u, x, thing[x].of)

\* MUTANT of Dated: the date of a completion is never taken back.
MutDated(row) == [row EXCEPT !.dated = @ \/ row.done]

\* Tasks.save(): the date of completion follows the status.
Dated(row) == [row EXCEPT !.dated = row.done]

\* Who creates a row is saved with it, whatever the request says.
Saved(x, row) == IF x \in Cards THEN Dated(row) ELSE row
Created(x, row, u) == IF x \in Cards \cup Blockers THEN [row EXCEPT !.by = u] ELSE row

\* The save that may follow an update: of the date of a completed milestone, of the
\* date of a checklist item and of who checked it.
StampsMilestone(x, row) == x \in Milestones /\ row.done /\ ~row.dated
StampsTick(x, row) == x \in Ticks /\ (row.done => ~row.dated)

\* MUTANT of Stamped: a milestone records who completed it, which has no such column.
MutStamped(x, now, row, by) ==
    [now EXCEPT !.dated = row.done, !.who = IF row.done THEN by ELSE NoOne]

Stamped(x, now, row, by) ==
    IF x \in Milestones THEN [now EXCEPT !.dated = TRUE]
    ELSE [now EXCEPT !.dated = row.done, !.who = IF row.done THEN by ELSE NoOne]

\* MUTANT of Assigned: only a new row tells its assignee.
MutAssigned(x, read, row) ==
    IF x \in Cards \cup Seats \cup {Project} /\ read.there = "never" THEN {row.who} ELSE {}

\* Who is told of a row: its assignee, when that is not who was read, the user of a
\* new co-assignment, and who reported a blocker, when it is resolved.
Assigned(x, read, row) ==
    IF (x \in Cards \cup {Project} /\ row.who # read.who) \/ (x \in Seats /\ read.there = "never")
    THEN {row.who} ELSE {}
Resolved(x, read, row) ==
    IF x \in Blockers /\ row.done /\ read.there # "never" /\ ~read.done THEN {row.by} ELSE {}

\* Whom an edit names and does not mail: the new user of a co-assignment and the
\* new reporter of a blocker that was resolved before.
Unmailed(x, read, row) ==
    IF (x \in Seats /\ read.there # "never") \/ (x \in Blockers /\ read.done)
    THEN Named(x, row) \ Named(x, read) ELSE {}
-----------------------------------------------------------------------------
Idle(e) == edit[e].pc = "idle" /\ e = CHOOSE f \in Editors : edit[f].pc = "idle"
Finished(e) == edit' = [edit EXCEPT ![e] = [NoEdit EXCEPT !.pc = "done"]]
Moves == tally' = [tally EXCEPT !.moved = @ \/ tally.pc \in {"done", "rest"}]
Stamping(x) == \E e \in Editors : edit[e].pc = "stamp" /\ edit[e].x = x

\* What a request may send: every column is writable. A person is co-assigned once.
Sent(x, of) ==
    {row \in RowsOf(x) :
        /\ row.there = "here" /\ row.of = of
        /\ x \in Seats => /\ row.who # NoOne
                          /\ \A y \in Seats \ {x} : Stands(y) => thing[y].who # row.who}

\* A row is saved that was read, or that is new; the mails are still to be sent.
SaveThing(e, u, x, read, new) ==
    LET told == (Assigned(x, read, new) \cup Resolved(x, read, new)) \ {NoOne} IN
    /\ HasHome(x, new)
    /\ thing' = [thing EXCEPT ![x] = new]
    /\ edit' = [edit EXCEPT ![e] =
                  [pc |-> IF read.there # "never" /\ (StampsMilestone(x, new) \/ StampsTick(x, new))
                          THEN "stamp" ELSE "tell",
                   by |-> u, x |-> x, row |-> new, told |-> told]]
    /\ untold' = untold \cup {<<x, p>> : p \in Unmailed(x, read, new)}
    /\ knows' = knows \cup {<<x, p>> : p \in Named(x, new) \cap {u}}
    /\ Moves

PerformCreate(e, u, x) ==
    /\ Idle(e) /\ thing[x].there = "never"
    /\ \E of \in IF x = Project THEN {NoOne} ELSE Parents(x) :
        /\ MayFile(u, x, of)
        /\ \E row \in Sent(x, of) :
            LET new == Saved(x, Created(x, row, u)) IN
            /\ SaveThing(e, u, x, NoThing, new)
            /\ excused' = IF Agrees(x, new) THEN excused ELSE excused \cup {x}

\* A request may file the row elsewhere; whether its sender may change what it names
\* then is asked before the row is read.
GetThing(e, u, x) ==
    /\ Idle(e) /\ Stands(x) /\ MayEdit(u, x)
    /\ \E of \in {thing[x].of} \cup {p \in Parents(x) : Stands(p) /\ MayFile(u, x, p)} :
        edit' = [edit EXCEPT ![e] = [pc |-> "open", by |-> u, x |-> x,
                                     row |-> [thing[x] EXCEPT !.of = of], told |-> {}]]
    /\ UNCHANGED <<thing, tally, knows, untold, excused>>

\* A row that was deleted meanwhile is inserted again, if what it belongs to is there.
PerformUpdate(e) ==
    LET q == edit[e] IN
    /\ q.pc = "open"
    /\ \E row \in Sent(q.x, q.row.of) : SaveThing(e, q.by, q.x, q.row, Saved(q.x, row))
    /\ excused' = IF Stamping(q.x) THEN excused \cup {q.x} ELSE excused \ {q.x}

StampThing(e) ==
    LET q == edit[e] IN
    /\ q.pc = "stamp" /\ Stands(q.x)
    /\ thing' = [thing EXCEPT ![q.x] = Stamped(q.x, @, q.row, q.by)]
    /\ edit' = [edit EXCEPT ![e].pc = "tell"]
    /\ UNCHANGED <<tally, knows, untold, excused>>

\* Nobody is mailed what he did himself: he knows.
Notify(e) ==
    /\ edit[e].pc = "tell"
    /\ knows' = knows \cup {<<edit[e].x, u>> : u \in edit[e].told}
    /\ Finished(e) /\ UNCHANGED <<thing, tally, untold, excused>>

\* MUTANT of Falls: the rows of a deleted task stay.
MutFalls(x, y) == y = x \/ x = Project

\* What is deleted with a row: a task's items, and everything with the project.
Falls(x, y) == y = x \/ x = Project \/ thing[y].of = x

PerformDestroy(e, u, x) ==
    /\ Idle(e) /\ Stands(x) /\ MayEdit(u, x)
    /\ thing' = [y \in Things |-> IF Stands(y) /\ Falls(x, y) THEN Gone ELSE thing[y]]
    /\ Finished(e) /\ Moves /\ UNCHANGED <<knows, untold, excused>>

\* A request may end after any statement; so it does if its row is gone.
EditEnds(e) ==
    LET q == edit[e] IN
    /\ q.pc \in {"open", "stamp", "tell"}
    /\ untold' = untold \cup {<<q.x, u>> : u \in q.told}
    /\ excused' = IF q.pc = "stamp" THEN excused \cup {q.x} ELSE excused
    /\ Finished(e) /\ UNCHANGED <<thing, tally, knows>>
-----------------------------------------------------------------------------
AllTasks == {t \in Cards : Stands(t)}
DoneTasks == {t \in AllTasks : thing[t].done}
MyOpenTasks(u) == {t \in AllTasks \ DoneTasks : thing[t].who = u}

\* A project's progress counts its tasks, then those that are done, then those of
\* each other status; the overview of the managers then lists who has open tasks.
ProjectProgress ==
    \/ /\ tally.pc = "idle"
       /\ tally' = [tally EXCEPT !.pc = "done", !.total = Cardinality(AllTasks)]
    \/ /\ tally.pc = "done" /\ tally.of = NoOne
       /\ tally' = [tally EXCEPT !.pc = "rest", !.done = Cardinality(DoneTasks)]
AdminDashboard ==
    /\ tally.pc = "rest"
    /\ \E rest \in {AllTasks \ DoneTasks, UNION {MyOpenTasks(u) : u \in Team}} :
         tally' = [tally EXCEPT !.pc = "end", !.rest = Cardinality(rest)]

\* A person's dashboard counts his open tasks and then lists them.
MyDashboard(u) ==
    \/ /\ tally.pc = "idle"
       /\ tally' = [tally EXCEPT !.pc = "done", !.of = u, !.total = Cardinality(MyOpenTasks(u))]
    \/ /\ tally.pc = "done" /\ tally.of = u
       /\ tally' = [tally EXCEPT !.pc = "end", !.rest = Cardinality(MyOpenTasks(u))]
-----------------------------------------------------------------------------
BoardNext ==
    \/ \E e \in Editors :
        \/ PerformUpdate(e) \/ StampThing(e) \/ Notify(e) \/ EditEnds(e)
        \/ \E u \in Team, x \in Things : PerformCreate(e, u, x) \/ GetThing(e, u, x) \/ PerformDestroy(e, u, x)
    \/ (ProjectProgress \/ AdminDashboard \/ \E u \in Team : MyDashboard(u))
       /\ UNCHANGED <<thing, edit, knows, untold, excused>>

BoardSpec == BoardInit /\ [][BoardNext]_boardVars
-----------------------------------------------------------------------------
BoardTypeOK ==
    /\ thing \in [Things -> Rows] /\ \A x \in Things : thing[x] \in RowsOf(x)
    /\ edit \in [Editors -> Edit] /\ tally \in Tally
    /\ knows \subseteq Things \X Team /\ untold \subseteq Things \X Team /\ excused \subseteq Things

Telling(x) == \E e \in Editors : edit[e].x = x /\ edit[e].pc \in {"stamp", "tell"}

\* A task has a date of completion exactly while it is done, whatever a request sends;
\* a completed item or milestone has one too, and an item that is not has neither a
\* date nor a name, once the request that saved it last is through - unless that save
\* crossed another's or its second half was lost, or the row was created otherwise.
DatesKept ==
    \A x \in Things : Stands(x) =>
        Agrees(x, thing[x]) \/ (x \notin Cards /\ (x \in excused \/ Stamping(x)))

\* Who is assigned a task or the project or co-assigned to it, and who reported a
\* blocker that is resolved, was told or did it himself, though late saves of an
\* older row bring names back; unless the request ended before its mails, or gave a
\* co-assignment to another person or a resolved blocker to another reporter, which
\* mails nobody.
PeopleTold ==
    \A x \in Things : Stands(x) /\ ~Telling(x) =>
        \A u \in Named(x, thing[x]) : <<x, u>> \in knows \cup untold

\* No row is left behind by what it belongs to, though a late save puts a deleted
\* row back or files it elsewhere.
NoOrphans == \A x \in Things : Stands(x) => HasHome(x, thing[x])

\* The counts of a board that did not move meanwhile add up: no more tasks are open
\* and done than there are, and a person's list is as long as its count.
TallyAddsUp ==
    tally.pc = "end" /\ ~tally.moved =>
        IF tally.of = NoOne THEN tally.done + tally.rest <= tally.total
        ELSE tally.rest = tally.total

\* The board keeps its dates, has told whom its rows name, has no orphans and
\* counts what is there.
BoardKept == DatesKept /\ PeopleTold /\ NoOrphans /\ TallyAddsUp
=============================================================================
