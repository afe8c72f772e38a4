---------------------------- MODULE BoardProofs ----------------------------
(***************************************************************************)
(* Proofs about the project board, for any number of people, requests and  *)
(* rows.                                                                   *)
(***************************************************************************)
EXTENDS Board, FiniteSetTheorems, TLAPS

(* ---------------------- The inductive invariants ----------------------- *)

\* A request that is at work is one of the team's, and the row it read or saved is
\* of the kind it says. Only milestones and checklist items have a second save, and
\* only once they are there.
EditShape ==
    \A e \in Editors :
        /\ edit[e].row \in RowsOf(edit[e].x) /\ NoOne \notin edit[e].told
        /\ edit[e].pc = "open" => edit[e].by \in Team /\ edit[e].row.there = "here"
        /\ edit[e].pc = "stamp" => /\ edit[e].by \in Team /\ edit[e].x \in Ticks \cup Milestones
                                   /\ thing[edit[e].x].there # "never"

EditInv == BoardTypeOK /\ EditShape

\* Requests that have saved a row and are still to save its date.
Stampers(x) == {e \in Editors : edit[e].pc = "stamp" /\ edit[e].x = x}

\* At most one request at a time is to date a row that is not excused, by the status
\* that the row has; a row that nobody is to date agrees. So does every task.
DateShape ==
    /\ \A t \in Cards : Agrees(t, thing[t])
    /\ \A x \in (Ticks \cup Milestones) \ excused :
        /\ \A e, f \in Stampers(x) : e = f
        /\ Stands(x) => \A e \in Stampers(x) : thing[x].done = edit[e].row.done
        /\ Stands(x) /\ Stampers(x) = {} => Agrees(x, thing[x])

\* He knows of it, a request that is still at work will tell him, or none will.
Hears(x, u) ==
    \/ <<x, u>> \in knows \cup untold
    \/ \E e \in Editors : edit[e].pc \in {"stamp", "tell"} /\ edit[e].x = x /\ u \in edit[e].told

\* So does everyone whom a row names, as it is or as a request has read it: what a
\* late save brings back was told when it was first saved.
ToldShape ==
    \A x \in Things :
        /\ \A u \in Named(x, thing[x]) : Hears(x, u)
        /\ \A e \in Editors : edit[e].pc = "open" /\ edit[e].x = x =>
               \A u \in Named(x, edit[e].row) : Hears(x, u)

\* What a dashboard has counted so far is what there is, if the board stood still.
TallyShape ==
    /\ tally.pc \in {"idle", "rest"} => tally.of = NoOne
    /\ tally.pc \in {"done", "rest"} /\ ~tally.moved /\ tally.of = NoOne =>
           tally.total = Cardinality(AllTasks)
    /\ tally.pc = "rest" /\ ~tally.moved => tally.done = Cardinality(DoneTasks)
    /\ tally.pc = "done" /\ ~tally.moved /\ tally.of # NoOne =>
           tally.total = Cardinality(MyOpenTasks(tally.of))
    /\ TallyAddsUp

BoardInv == EditInv /\ DateShape /\ ToldShape /\ NoOrphans /\ TallyShape

(* ------------------------------- Rows ---------------------------------- *)

\* What the columns of a row may hold; those that its kind has not are empty.
Dones(x) == IF x \in Cards \cup Ticks \cup Milestones \cup Blockers THEN BOOLEAN ELSE {FALSE}
Dates(x) == IF x \in Cards \cup Ticks \cup Milestones THEN BOOLEAN ELSE {FALSE}
Whos(x) == IF x \in {Project} \cup Cards \cup Ticks \cup Seats THEN Person ELSE {NoOne}
Bys(x) == IF x \in Cards \cup Blockers THEN Person ELSE {NoOne}
Homes(x) == Parents(x) \cup {NoOne}

LEMMA KindOf ==
    ASSUME NEW x \in Things
    PROVE  /\ RowsOf(x) = [there : {"never", "here", "gone"}, done : Dones(x), dated : Dates(x),
                           who : Whos(x), by : Bys(x), of : Homes(x)]
           /\ Dones(x) \subseteq BOOLEAN /\ Dates(x) \subseteq BOOLEAN
           /\ Whos(x) \subseteq Person /\ Bys(x) \subseteq Person
           /\ FALSE \in Dones(x) /\ FALSE \in Dates(x) /\ NoOne \in Whos(x) /\ NoOne \in Bys(x)
           /\ NoOne \in Homes(x)
<1>1. NoOne \in Person
    BY DEF Person
<1>2. RowsOf(x) = [there : {"never", "here", "gone"}, done : Dones(x), dated : Dates(x),
                   who : Whos(x), by : Bys(x), of : Homes(x)]
    BY DEF RowsOf, Dones, Dates, Whos, Bys, Homes
<1> QED BY <1>1, <1>2 DEF Dones, Dates, Whos, Bys, Homes

\* A row is what its columns say, and other columns make another.
LEMMA RowIs ==
    ASSUME NEW x \in Things, NEW row \in RowsOf(x)
    PROVE  /\ row = [there |-> row.there, done |-> row.done, dated |-> row.dated,
                     who |-> row.who, by |-> row.by, of |-> row.of]
           /\ row.there \in {"never", "here", "gone"} /\ row.done \in Dones(x)
           /\ row.dated \in Dates(x) /\ row.who \in Whos(x) /\ row.by \in Bys(x) /\ row.of \in Homes(x)
<1>1. row \in [there : {"never", "here", "gone"}, done : Dones(x), dated : Dates(x),
                 who : Whos(x), by : Bys(x), of : Homes(x)]
    BY KindOf
<1> QED BY <1>1

LEMMA RowFields ==
    ASSUME NEW x \in Things, NEW row \in RowsOf(x)
    PROVE  /\ row.there \in {"never", "here", "gone"} /\ row.of \in Parents(x) \cup {NoOne}
           /\ row.done \in BOOLEAN /\ row.dated \in BOOLEAN /\ row.who \in Person /\ row.by \in Person
BY RowIs, KindOf DEF Homes

LEMMA MakeRow ==
    ASSUME NEW x \in Things, NEW there \in {"never", "here", "gone"}, NEW done \in Dones(x),
           NEW dated \in Dates(x), NEW who \in Whos(x), NEW by \in Bys(x), NEW of \in Homes(x)
    PROVE  \E new \in RowsOf(x) :
               /\ new = [there |-> there, done |-> done, dated |-> dated, who |-> who, by |-> by, of |-> of]
               /\ new.there = there /\ new.done = done /\ new.dated = dated
               /\ new.who = who /\ new.by = by /\ new.of = of
<1>1. PICK new : new = [there |-> there, done |-> done, dated |-> dated, who |-> who, by |-> by, of |-> of]
    OBVIOUS
<1>2. new \in RowsOf(x)
    BY <1>1, KindOf
<1>3. new.dated = dated
    BY <1>1
<1>4. new.there = there /\ new.done = done /\ new.who = who /\ new.by = by /\ new.of = of
    BY <1>1
<1> QED BY <1>1, <1>2, <1>3, <1>4

LEMMA NothingIsARow ==
    ASSUME NEW x \in Things
    PROVE  /\ NoThing \in RowsOf(x) /\ Gone \in RowsOf(x)
           /\ NoThing.there = "never" /\ Gone.there = "gone" /\ ~Gone.done /\ ~NoThing.done
           /\ NoThing.who = NoOne /\ Gone.who = NoOne /\ NoThing.by = NoOne /\ Gone.by = NoOne
<1>1. NoThing \in RowsOf(x)
    BY KindOf DEF NoThing
<1>2. PICK gone : gone = Gone
    OBVIOUS
<1>3. gone = [there |-> "gone", done |-> FALSE, dated |-> FALSE, who |-> NoOne, by |-> NoOne, of |-> NoOne]
    BY <1>2 DEF Gone, NoThing
<1>4. gone \in RowsOf(x)
    BY <1>3, KindOf
<1> QED BY <1>1, <1>2, <1>3, <1>4 DEF NoThing

\* Who creates a row is saved with it, and the rest as the request says.
LEMMA CreatedRow ==
    ASSUME NEW x \in Things, NEW row \in RowsOf(x), NEW u \in Team
    PROVE  \E new \in RowsOf(x) :
               /\ new = Created(x, row, u) /\ new.there = row.there /\ new.of = row.of
               /\ x \in Blockers => new.by = u
<1>1. CASE x \in Cards \cup Blockers
    <2>1. u \in Bys(x)
        BY <1>1 DEF Bys, Person
    <2>2. PICK new \in RowsOf(x) :
              /\ new = [there |-> row.there, done |-> row.done, dated |-> row.dated,
                        who |-> row.who, by |-> u, of |-> row.of]
              /\ new.there = row.there /\ new.of = row.of /\ new.by = u
        BY <2>1, RowIs, MakeRow
    <2>3. [row EXCEPT !.by = u] = new
        BY <2>2, RowIs
    <2> QED BY <1>1, <2>2, <2>3 DEF Created
<1>2. CASE x \notin Cards \cup Blockers
    BY <1>2 DEF Created
<1> QED BY <1>1, <1>2

LEMMA SavedRow ==
    ASSUME NEW x \in Things, NEW row \in RowsOf(x)
    PROVE  \E new \in RowsOf(x) :
               /\ new = Saved(x, row) /\ new.there = row.there /\ new.of = row.of
               /\ new.by = row.by
               /\ x \in Cards => Agrees(x, new)
<1>1. CASE x \in Cards
    <2>1. row.done \in Dates(x)
        BY <1>1, RowFields DEF Dates
    <2>2. PICK new \in RowsOf(x) :
              /\ new = [there |-> row.there, done |-> row.done, dated |-> row.done,
                        who |-> row.who, by |-> row.by, of |-> row.of]
              /\ new.there = row.there /\ new.of = row.of /\ new.by = row.by
              /\ new.dated = row.done /\ new.done = row.done
        BY <2>1, RowIs, MakeRow
    <2>3. [row EXCEPT !.dated = row.done] = new
        BY <2>2, RowIs
    <2>4. Agrees(x, new)
        BY <1>1, <2>2, BoardConstants DEF Agrees
    <2> QED BY <1>1, <2>2, <2>3, <2>4 DEF Saved, Dated
<1>2. CASE x \notin Cards
    BY <1>2 DEF Saved
<1> QED BY <1>1, <1>2

LEMMA StampedRow ==
    ASSUME NEW x \in Ticks \cup Milestones, NEW now \in RowsOf(x), NEW row \in RowsOf(x), NEW u \in Team
    PROVE  \E new \in RowsOf(x) :
               /\ new = Stamped(x, now, row, u)
               /\ new.there = now.there /\ new.done = now.done /\ new.of = now.of
               /\ now.done = row.done => Agrees(x, new)
<1>1. x \in Things /\ u \in Person /\ NoOne \in Person
      /\ ~(x \in Ticks /\ x \in Milestones) /\ x \notin Cards
    BY BoardConstants DEF Things, Person
<1>2. TRUE \in Dates(x) /\ row.done \in Dates(x) /\ (x \in Ticks => Whos(x) = Person)
    BY <1>1, RowFields DEF Dates, Whos
<1>3. /\ now = [there |-> now.there, done |-> now.done, dated |-> now.dated,
                 who |-> now.who, by |-> now.by, of |-> now.of]
      /\ now.there \in {"never", "here", "gone"} /\ now.done \in Dones(x)
      /\ now.dated \in Dates(x) /\ now.who \in Whos(x) /\ now.by \in Bys(x) /\ now.of \in Homes(x)
    BY <1>1, RowIs
<1>4. CASE x \in Milestones
    <2>1. PICK d \in Dates(x) : d = TRUE
        BY <1>2
    <2>2. PICK new \in RowsOf(x) :
              /\ new = [there |-> now.there, done |-> now.done, dated |-> d,
                        who |-> now.who, by |-> now.by, of |-> now.of]
              /\ new.there = now.there /\ new.done = now.done /\ new.of = now.of /\ new.dated = d
        BY <1>1, <1>3, MakeRow
    <2>3. new = Stamped(x, now, row, u)
        BY <1>3, <1>4, <2>1, <2>2 DEF Stamped
    <2>4. Agrees(x, new)
        BY <1>1, <1>4, <2>1, <2>2 DEF Agrees
    <2> QED BY <2>2, <2>3, <2>4
<1>5. CASE x \in Ticks
    <2>1. PICK w \in Person : w = IF row.done THEN u ELSE NoOne
        BY <1>1
    <2>2. PICK new \in RowsOf(x) :
              /\ new = [there |-> now.there, done |-> now.done, dated |-> row.done,
                        who |-> w, by |-> now.by, of |-> now.of]
              /\ new.there = now.there /\ new.done = now.done /\ new.of = now.of
              /\ new.dated = row.done /\ new.who = w
        BY <1>1, <1>2, <1>3, <1>5, MakeRow
    <2>3. new = Stamped(x, now, row, u)
        BY <1>1, <1>3, <1>5, <2>1, <2>2 DEF Stamped
    <2>4. now.done = row.done => Agrees(x, new)
        BY <1>1, <1>5, <2>1, <2>2 DEF Agrees
    <2> QED BY <2>2, <2>3, <2>4
<1> QED BY <1>4, <1>5

\* A row that is filed elsewhere names whom it named.
LEMMA MovedRow ==
    ASSUME NEW x \in Things, NEW row \in RowsOf(x), NEW of \in Homes(x)
    PROVE  \E new \in RowsOf(x) :
               /\ new = [row EXCEPT !.of = of] /\ new.there = row.there
               /\ Named(x, new) = Named(x, row)
<1>1. PICK new \in RowsOf(x) :
          /\ new = [there |-> row.there, done |-> row.done, dated |-> row.dated,
                    who |-> row.who, by |-> row.by, of |-> of]
          /\ new.there = row.there /\ new.done = row.done /\ new.who = row.who /\ new.by = row.by
    BY RowIs, MakeRow
<1>2. [row EXCEPT !.of = of] = new
    BY <1>1, RowIs
<1> QED BY <1>1, <1>2 DEF Named

(* ------------------------------ Requests ------------------------------- *)

LEMMA EditIs ==
    ASSUME NEW pc \in {"idle", "open", "stamp", "tell", "done"}, NEW u \in Person, NEW x \in Things,
           NEW row \in RowsOf(x), NEW told \in SUBSET Person
    PROVE  [pc |-> pc, by |-> u, x |-> x, row |-> row, told |-> told] \in Edit
<1>1. row \in Rows
    BY DEF Rows
<1> QED BY <1>1 DEF Edit

LEMMA EditFields ==
    ASSUME NEW a \in Edit
    PROVE  /\ a.pc \in {"idle", "open", "stamp", "tell", "done"} /\ a.by \in Person
           /\ a.x \in Things /\ a.told \in SUBSET Person
           /\ a = [pc |-> a.pc, by |-> a.by, x |-> a.x, row |-> a.row, told |-> a.told]
BY DEF Edit

LEMMA NoEditIs ==
    /\ NoEdit \in Edit /\ NoEdit.pc = "idle" /\ NoEdit.x = Project /\ NoEdit.told = {}
    /\ NoEdit.by = NoOne /\ NoEdit.row = NoThing /\ NoThing \in RowsOf(Project)
<1>1. NoOne \in Person /\ Project \in Things
    BY DEF Person, Things
<1> QED BY <1>1, EditIs, NothingIsARow DEF NoEdit

\* What a step does to one row, and to one request.
Wrote(x, new) == /\ new \in RowsOf(x) /\ thing'[x] = new
                 /\ \A y \in Things \ {x} : thing'[y] = thing[y]
                 /\ thing' \in [Things -> Rows]
Went(e, a) == /\ a \in Edit /\ edit'[e] = a /\ \A f \in Editors \ {e} : edit'[f] = edit[f]
              /\ edit' \in [Editors -> Edit]

LEMMA RowWritten ==
    ASSUME EditInv, NEW x \in Things, NEW new \in RowsOf(x), thing' = [thing EXCEPT ![x] = new]
    PROVE  Wrote(x, new)
<1>1. new \in Rows
    BY DEF Rows
<1>2. thing \in [Things -> Rows]
    BY DEF EditInv, BoardTypeOK
<1>3. thing' \in [Things -> Rows] /\ thing'[x] = new /\ \A y \in Things \ {x} : thing'[y] = thing[y]
    BY <1>1, <1>2
<1> QED BY <1>3 DEF Wrote

LEMMA EditWritten ==
    ASSUME EditInv, NEW e \in Editors, NEW a \in Edit, edit' = [edit EXCEPT ![e] = a]
    PROVE  Went(e, a)
BY DEF EditInv, BoardTypeOK, Went

LEMMA Finishes ==
    ASSUME EditInv, NEW e \in Editors, Finished(e)
    PROVE  \E a \in Edit : /\ Went(e, a) /\ a.pc = "done" /\ a.told = {} /\ a.row \in RowsOf(a.x)
<1>1. PICK a \in Edit : a = [NoEdit EXCEPT !.pc = "done"]
    BY NoEditIs DEF Edit
<1>2. a.pc = "done" /\ a.told = {} /\ a.x = Project /\ a.row = NoThing
    BY <1>1, NoEditIs DEF Edit
<1>3. Went(e, a)
    BY <1>1, EditWritten DEF Finished
<1> QED BY <1>2, <1>3, NoEditIs

\* The shape of requests and rows is kept by a step of one request.
LEMMA EditsKept ==
    ASSUME EditInv, NEW e \in Editors, NEW a \in Edit, Went(e, a),
           a.row \in RowsOf(a.x), NoOne \notin a.told,
           a.pc = "open" => a.by \in Team /\ a.row.there = "here",
           a.pc = "stamp" => /\ a.by \in Team /\ a.x \in Ticks \cup Milestones
                             /\ thing'[a.x].there # "never",
           \A y \in Things : thing[y].there # "never" => thing'[y].there # "never"
    PROVE  EditShape'
<1>1. \A f \in Editors : edit[f] \in Edit /\ edit[f].x \in Things
    BY EditFields DEF EditInv, BoardTypeOK
<1> QED BY <1>1 DEF EditInv, EditShape, Went

\* Whom a saved row names: someone it named when it was read, the sender, someone
\* the request will tell, or someone whom such an edit does not mail.
LEMMA Saves ==
    ASSUME EditInv, NEW e \in Editors, NEW u \in Team, NEW x \in Things,
           NEW read \in RowsOf(x), NEW new \in RowsOf(x), SaveThing(e, u, x, read, new),
           read.there = "never" => ~read.done /\ (x \in Blockers => new.by = u)
    PROVE  \E a \in Edit :
               /\ Wrote(x, new) /\ Went(e, a)
               /\ a.x = x /\ a.by = u /\ a.row = new /\ a.pc \in {"stamp", "tell"} /\ NoOne \notin a.told
               /\ a.pc = "stamp" <=> read.there # "never" /\ (StampsMilestone(x, new) \/ StampsTick(x, new))
               /\ knows \subseteq knows' /\ untold \subseteq untold'
               /\ knows' \subseteq Things \X Team /\ untold' \subseteq Things \X Team
               /\ \A w \in Named(x, new) : w \in Named(x, read) \cup a.told \/ <<x, w>> \in knows' \cup untold'
<1>1. /\ read.who \in Person /\ read.by \in Person /\ new.who \in Person /\ new.by \in Person
      /\ read.done \in BOOLEAN /\ new.done \in BOOLEAN /\ u \in Person
    BY RowFields DEF Person
<1>2. PICK pc \in {"stamp", "tell"} :
          /\ pc = IF read.there # "never" /\ (StampsMilestone(x, new) \/ StampsTick(x, new))
                  THEN "stamp" ELSE "tell"
          /\ pc = "stamp" <=> read.there # "never" /\ (StampsMilestone(x, new) \/ StampsTick(x, new))
    OBVIOUS
<1>3. PICK told \in SUBSET Person : told = (Assigned(x, read, new) \cup Resolved(x, read, new)) \ {NoOne}
    BY <1>1 DEF Assigned, Resolved
<1>4. PICK a \in Edit : a = [pc |-> pc, by |-> u, x |-> x, row |-> new, told |-> told]
    BY <1>1, EditIs
<1>5. a.x = x /\ a.by = u /\ a.row = new /\ a.pc = pc /\ a.told = told
    BY <1>4
<1>6. /\ edit' = [edit EXCEPT ![e] = a] /\ thing' = [thing EXCEPT ![x] = new]
      /\ untold' = untold \cup {<<x, w>> : w \in Unmailed(x, read, new)}
      /\ knows' = knows \cup {<<x, w>> : w \in Named(x, new) \cap {u}}
    BY <1>2, <1>3, <1>4 DEF SaveThing
<1>7. Went(e, a) /\ Wrote(x, new)
    BY <1>6, EditWritten, RowWritten
<1>8. Named(x, new) \subseteq Team /\ Unmailed(x, read, new) \subseteq Named(x, new)
    BY <1>1 DEF Named, Unmailed, Person
<1>9. knows' \subseteq Things \X Team /\ untold' \subseteq Things \X Team
    BY <1>6, <1>8 DEF EditInv, BoardTypeOK
<1>10. \A w \in Named(x, new) : w \in Named(x, read) \cup told \cup {u} \cup Unmailed(x, read, new)
    <2>1. CASE x \in {Project} \cup Cards
        BY <1>3, <2>1, BoardConstants DEF Named, Assigned
    <2>2. CASE x \in Seats
        BY <1>3, <2>2, BoardConstants DEF Named, Assigned, Unmailed
    <2>3. CASE x \in Blockers
        BY <1>1, <1>3, <2>3, BoardConstants DEF Named, Resolved, Unmailed
    <2>4. CASE x \in Ticks \cup Milestones
        BY <2>4, BoardConstants DEF Named
    <2> QED BY <2>1, <2>2, <2>3, <2>4 DEF Things
<1>11. \A w \in Named(x, new) : w \in Named(x, read) \cup told \/ <<x, w>> \in knows' \cup untold'
    BY <1>6, <1>10
<1>12. knows \subseteq knows' /\ untold \subseteq untold' /\ NoOne \notin told
    BY <1>3, <1>6
<1> QED BY <1>2, <1>5, <1>7, <1>9, <1>11, <1>12

\* Who hears of a row still does after a step of one request, unless that request
\* was the one to tell him.
LEMMA HearsOn ==
    ASSUME EditInv, NEW e \in Editors, NEW a \in Edit, Went(e, a),
           knows \cup untold \subseteq knows' \cup untold',
           NEW x \in Things, NEW u, Hears(x, u),
           edit[e].pc \in {"stamp", "tell"} /\ edit[e].x = x /\ u \in edit[e].told =>
               \/ <<x, u>> \in knows' \cup untold'
               \/ a.pc \in {"stamp", "tell"} /\ a.x = x /\ u \in a.told
    PROVE  Hears(x, u)'
<1>1. CASE <<x, u>> \in knows \cup untold
    BY <1>1 DEF Hears
<1>2. ASSUME NEW f \in Editors, edit[f].pc \in {"stamp", "tell"}, edit[f].x = x, u \in edit[f].told
      PROVE  Hears(x, u)'
    BY <1>2 DEF Hears, Went
<1> QED BY <1>1, <1>2 DEF Hears

\* While a board is counted a change of it is noticed; only tasks are counted.
LEMMA TallyMoves ==
    ASSUME tally \in Tally, TallyShape, Moves
    PROVE  tally' \in Tally /\ TallyShape'
<1>1. PICK b \in BOOLEAN : b = (tally.moved \/ tally.pc \in {"done", "rest"})
    OBVIOUS
<1>2. tally' = [tally EXCEPT !.moved = b]
    BY <1>1 DEF Moves
<1>3. /\ tally' \in Tally /\ tally'.pc = tally.pc /\ tally'.of = tally.of /\ tally'.total = tally.total
      /\ tally'.done = tally.done /\ tally'.rest = tally.rest /\ tally'.moved = b
    BY <1>2 DEF Tally
<1>4. tally.pc \in {"done", "rest"} => tally'.moved
    BY <1>1, <1>3
<1>5. ~tally'.moved => ~tally.moved
    BY <1>1, <1>3
<1> QED BY <1>3, <1>4, <1>5 DEF TallyShape, TallyAddsUp

LEMMA TallyStill ==
    ASSUME TallyShape, UNCHANGED tally, \A t \in Cards : thing'[t] = thing[t]
    PROVE  TallyShape'
<1>1. AllTasks' = AllTasks
    BY DEF AllTasks, Stands
<1>2. DoneTasks' = DoneTasks
    BY <1>1 DEF DoneTasks, AllTasks
<1>3. \A u : MyOpenTasks(u)' = MyOpenTasks(u)
    BY <1>1, <1>2 DEF MyOpenTasks, AllTasks
<1> QED BY <1>1, <1>2, <1>3 DEF TallyShape, TallyAddsUp

(* ------------------------------- Steps --------------------------------- *)

\* What a step of one request does to the dates of a row that is not excused.
LEMMA DatesKeptBy ==
    ASSUME DateShape, NEW e \in Editors, NEW a \in Edit, Went(e, a),
           NEW y \in (Ticks \cup Milestones) \ excused, thing'[y] = thing[y],
           (edit[e].pc = "stamp" /\ edit[e].x = y) <=> (a.pc = "stamp" /\ a.x = y),
           a.pc = "stamp" /\ a.x = y => a.row = edit[e].row
    PROVE  /\ \A f, g \in Stampers(y)' : f = g
           /\ Stands(y)' => \A f \in Stampers(y)' : thing'[y].done = edit'[f].row.done
           /\ Stands(y)' /\ Stampers(y)' = {} => Agrees(y, thing'[y])
<1>1. Stampers(y)' = Stampers(y) /\ \A f \in Stampers(y) : edit'[f].row = edit[f].row
    BY DEF Stampers, Went
<1>2. Stands(y)' <=> Stands(y)
    BY DEF Stands
<1> QED BY <1>1, <1>2 DEF DateShape

\* A row is saved by a request that creates it or has read it.
LEMMA SaveSteps ==
    ASSUME BoardInv, NEW e \in Editors, NEW u \in Team, NEW x \in Things,
           NEW read \in RowsOf(x), NEW new \in RowsOf(x), SaveThing(e, u, x, read, new),
           new.there = "here", x \in Cards => Agrees(x, new), x \in Blockers /\ read.there = "never" => new.by = u,
           \/ /\ edit[e].pc = "idle" /\ thing[x].there = "never" /\ read = NoThing
              /\ excused' = IF Agrees(x, new) THEN excused ELSE excused \cup {x}
           \/ /\ edit[e].pc = "open" /\ edit[e].x = x /\ read = edit[e].row
              /\ excused' = IF Stamping(x) THEN excused \cup {x} ELSE excused \ {x}
    PROVE  BoardInv'
<1>1. /\ EditInv /\ BoardTypeOK /\ EditShape /\ DateShape /\ ToldShape /\ NoOrphans /\ TallyShape
      /\ tally \in Tally /\ HasHome(x, new) /\ Moves
    BY DEF BoardInv, EditInv, BoardTypeOK, SaveThing
<1>2. /\ edit[e].pc \in {"idle", "open"}
      /\ edit[e].pc = "idle" => read.there = "never" /\ ~read.done /\ Named(x, read) = {}
      /\ edit[e].pc = "open" => read.there = "here" /\ edit[e].x = x /\ read = edit[e].row
      /\ excused' \subseteq excused \cup {x} /\ excused \subseteq excused' \cup {x}
    BY <1>1, NothingIsARow DEF EditShape, Named
<1>3. read.there = "never" => ~read.done /\ (x \in Blockers => new.by = u)
    BY <1>2
<1>4. PICK a \in Edit :
          /\ Wrote(x, new) /\ Went(e, a)
          /\ a.x = x /\ a.by = u /\ a.row = new /\ a.pc \in {"stamp", "tell"} /\ NoOne \notin a.told
          /\ a.pc = "stamp" <=> read.there # "never" /\ (StampsMilestone(x, new) \/ StampsTick(x, new))
          /\ knows \subseteq knows' /\ untold \subseteq untold'
          /\ knows' \subseteq Things \X Team /\ untold' \subseteq Things \X Team
          /\ \A w \in Named(x, new) : w \in Named(x, read) \cup a.told \/ <<x, w>> \in knows' \cup untold'
    BY <1>1, <1>3, Saves
<1>5. EditInv'
    <2>1. EditShape'
        <3>1. a.pc = "stamp" => a.x \in Ticks \cup Milestones
            BY <1>4 DEF StampsMilestone, StampsTick
        <3>2. thing'[x].there = "here" /\ \A y \in Things : thing[y].there # "never" => thing'[y].there # "never"
            BY <1>4 DEF Wrote
        <3> QED BY <1>1, <1>4, <3>1, <3>2, EditsKept
    <2>2. tally' \in Tally
        BY <1>1, TallyMoves
    <2>3. \A y \in Things : thing'[y] \in RowsOf(y)
        BY <1>1, <1>4 DEF BoardTypeOK, Wrote
    <2>4. excused' \subseteq Things
        BY <1>1, <1>2 DEF BoardTypeOK
    <2>5. BoardTypeOK'
        BY <1>4, <2>2, <2>3, <2>4 DEF BoardTypeOK, Wrote, Went
    <2> QED BY <2>1, <2>5 DEF EditInv
<1>6. NoOrphans'
    <2>1. \A y \in Things : (Stands(y)' <=> y = x \/ Stands(y)) /\ (y # x => thing'[y] = thing[y])
        BY <1>4 DEF Stands, Wrote
    <2>2. ASSUME NEW y \in Things, Stands(y)'
          PROVE  HasHome(y, thing[y])'
        <3>1. \A p \in Parents(y) : p \in Things
            BY DEF Parents, Things
        <3>2. HasHome(y, thing'[y])
            BY <1>1, <1>4, <2>1, <2>2 DEF NoOrphans, Wrote
        <3> QED BY <2>1, <3>1, <3>2 DEF HasHome
    <2> QED BY <2>2 DEF NoOrphans
<1>7. TallyShape'
    BY <1>1, TallyMoves
<1>8. ToldShape'
    <2>1. ASSUME NEW y \in Things, NEW w, Hears(y, w)
          PROVE  Hears(y, w)'
        BY <1>1, <1>2, <1>4, <2>1, HearsOn
    <2>2. \A w \in Named(x, read) : Hears(x, w)
        BY <1>1, <1>2 DEF ToldShape
    <2>3. ASSUME NEW w \in Named(x, new)
          PROVE  Hears(x, w)'
        <3>1. CASE w \in Named(x, read)
            BY <2>1, <2>2, <3>1
        <3>2. CASE w \in a.told
            BY <1>4, <3>2 DEF Hears, Went
        <3>3. CASE <<x, w>> \in knows' \cup untold'
            BY <3>3 DEF Hears
        <3> QED BY <1>4, <2>3, <3>1, <3>2, <3>3
    <2>4. ASSUME NEW y \in Things
          PROVE  /\ \A w \in Named(y, thing'[y]) : Hears(y, w)'
                 /\ \A f \in Editors : edit'[f].pc = "open" /\ edit'[f].x = y =>
                        \A w \in Named(y, edit'[f].row) : Hears(y, w)'
        <3>1. \A w \in Named(y, thing'[y]) : Hears(y, w)'
            BY <1>1, <1>4, <2>1, <2>3 DEF ToldShape, Wrote
        <3>2. \A f \in Editors : edit'[f].pc = "open" => edit'[f] = edit[f]
            BY <1>4 DEF Went
        <3> QED BY <1>1, <2>1, <3>1, <3>2 DEF ToldShape
    <2> QED BY <2>4 DEF ToldShape, Named
<1>9. DateShape'
    <2>1. \A t \in Cards : Agrees(t, thing'[t])
        BY <1>1, <1>4 DEF DateShape, Wrote, Things
    <2>2. ASSUME x \in Ticks \cup Milestones, x \notin excused'
          PROVE  /\ \A f, g \in Stampers(x)' : f = g
                 /\ Stands(x)' => \A f \in Stampers(x)' : thing'[x].done = edit'[f].row.done
                 /\ Stands(x)' /\ Stampers(x)' = {} => Agrees(x, thing'[x])
        <3>1. Stampers(x) = {}
            BY <1>1, <1>2, <2>2 DEF Stampers, Stamping, EditShape
        <3>2. Stampers(x)' \subseteq {e} /\ (e \in Stampers(x)' <=> a.pc = "stamp") /\ edit'[e] = a
            BY <1>4, <3>1 DEF Stampers, Went
        <3>3. a.pc # "stamp" => Agrees(x, new)
            <4>1. CASE edit[e].pc = "idle"
                BY <2>2, <4>1
            <4>2. CASE edit[e].pc = "open" /\ a.pc # "stamp"
                <5>1. ~StampsMilestone(x, new) /\ ~StampsTick(x, new) /\ x \notin Cards
                    BY <1>2, <1>4, <2>2, <4>2, BoardConstants
                <5> QED BY <2>2, <5>1, BoardConstants DEF StampsMilestone, StampsTick, Agrees
            <4> QED BY <1>2, <4>1, <4>2
        <3> QED BY <1>4, <3>2, <3>3 DEF Wrote
    <2>3. ASSUME NEW y \in (Ticks \cup Milestones) \ excused'
          PROVE  /\ \A f, g \in Stampers(y)' : f = g
                 /\ Stands(y)' => \A f \in Stampers(y)' : thing'[y].done = edit'[f].row.done
                 /\ Stands(y)' /\ Stampers(y)' = {} => Agrees(y, thing'[y])
        <3>1. CASE y = x
            BY <2>2, <2>3, <3>1
        <3>2. CASE y # x
            <4>1. y \in (Ticks \cup Milestones) \ excused /\ thing'[y] = thing[y]
                BY <1>2, <1>4, <2>3, <3>2 DEF Wrote, Things
            <4> QED BY <1>1, <1>2, <1>4, <3>2, <4>1, DatesKeptBy
        <3> QED BY <3>1, <3>2
    <2> QED BY <2>1, <2>3 DEF DateShape, Agrees
<1> QED BY <1>5, <1>6, <1>7, <1>8, <1>9 DEF BoardInv

\* Everyone hears what he heard of after a step that names nobody, if its request
\* has told whom it was to tell, is still to, or has ended before its mails.
LEMMA ToldKept ==
    ASSUME EditInv, ToldShape, NEW e \in Editors, NEW a \in Edit, Went(e, a), a.pc # "open",
           knows \cup untold \subseteq knows' \cup untold',
           edit[e].pc \in {"stamp", "tell"} =>
               \/ \A w \in edit[e].told : <<edit[e].x, w>> \in knows' \cup untold'
               \/ a.pc \in {"stamp", "tell"} /\ a.x = edit[e].x /\ a.told = edit[e].told,
           \A y \in Things : Named(y, thing'[y]) \subseteq Named(y, thing[y])
    PROVE  ToldShape'
<1>1. ASSUME NEW y \in Things, NEW w, Hears(y, w)
      PROVE  Hears(y, w)'
    <2>1. edit[e].pc \in {"stamp", "tell"} /\ edit[e].x = y /\ w \in edit[e].told =>
              \/ <<y, w>> \in knows' \cup untold'
              \/ a.pc \in {"stamp", "tell"} /\ a.x = y /\ w \in a.told
        OBVIOUS
    <2> QED BY <1>1, <2>1, HearsOn
<1>2. \A f \in Editors : edit'[f].pc = "open" => edit'[f] = edit[f]
    BY DEF Went
<1>3. ASSUME NEW y \in Things
      PROVE  /\ \A w \in Named(y, thing'[y]) : Hears(y, w)'
             /\ \A f \in Editors : edit'[f].pc = "open" /\ edit'[f].x = y =>
                    \A w \in Named(y, edit'[f].row) : Hears(y, w)'
    BY <1>1, <1>2, <1>3 DEF ToldShape
<1> QED BY <1>3 DEF ToldShape, Named

\* A request reads a row, to save it where it is or elsewhere.
LEMMA GetSteps ==
    ASSUME BoardInv, NEW e \in Editors, NEW u \in Team, NEW x \in Things, GetThing(e, u, x)
    PROVE  BoardInv'
<1>1. /\ EditInv /\ BoardTypeOK /\ EditShape /\ DateShape /\ ToldShape /\ NoOrphans /\ TallyShape
      /\ thing[x] \in RowsOf(x) /\ u \in Person /\ {} \in SUBSET Person
    BY DEF BoardInv, EditInv, BoardTypeOK, Person
<1>2. PICK of \in {thing[x].of} \cup Parents(x) :
          edit' = [edit EXCEPT ![e] = [pc |-> "open", by |-> u, x |-> x,
                                       row |-> [thing[x] EXCEPT !.of = of], told |-> {}]]
    BY DEF GetThing
<1>3. of \in Homes(x)
    BY <1>1, RowFields DEF Homes
<1>4. PICK row \in RowsOf(x) :
          /\ row = [thing[x] EXCEPT !.of = of] /\ row.there = thing[x].there
          /\ Named(x, row) = Named(x, thing[x])
    BY <1>1, <1>3, MovedRow
<1>5. PICK a \in Edit : a = [pc |-> "open", by |-> u, x |-> x, row |-> row, told |-> {}]
    BY <1>1, EditIs
<1>6. a.pc = "open" /\ a.by = u /\ a.x = x /\ a.row = row /\ a.told = {}
    BY <1>5
<1>7. Went(e, a)
    <2>1. edit' = [edit EXCEPT ![e] = a]
        BY <1>2, <1>4, <1>5
    <2> QED BY <1>1, <2>1, EditWritten
<1>8. /\ edit[e].pc = "idle" /\ thing[x].there = "here"
      /\ UNCHANGED <<thing, tally, knows, untold, excused>>
    BY DEF GetThing, Idle, Stands
<1>9. EditInv'
    <2>1. EditShape'
        BY <1>1, <1>4, <1>6, <1>7, <1>8, EditsKept
    <2>2. BoardTypeOK'
        BY <1>1, <1>7, <1>8 DEF BoardTypeOK, Went
    <2> QED BY <2>1, <2>2 DEF EditInv
<1>10. NoOrphans' /\ TallyShape'
    BY <1>1, <1>8, TallyStill DEF NoOrphans, Stands, HasHome
<1>11. ToldShape'
    <2>1. ASSUME NEW y \in Things, NEW w, Hears(y, w)
          PROVE  Hears(y, w)'
        BY <1>1, <1>7, <1>8, <2>1, HearsOn
    <2>2. ASSUME NEW y \in Things
          PROVE  /\ \A w \in Named(y, thing[y]) : Hears(y, w)'
                 /\ \A f \in Editors : edit'[f].pc = "open" /\ edit'[f].x = y =>
                        \A w \in Named(y, edit'[f].row) : Hears(y, w)'
        <3>1. \A f \in Editors : edit'[f] = edit[f] \/ (f = e /\ edit'[f] = a)
            BY <1>7 DEF Went
        <3> QED BY <1>1, <1>4, <1>6, <2>1, <2>2, <3>1 DEF ToldShape
    <2> QED BY <1>8, <2>2 DEF ToldShape, Named
<1>12. DateShape'
    <2>1. \A y : Stampers(y)' = Stampers(y) /\ \A f \in Stampers(y) : edit'[f] = edit[f]
        BY <1>6, <1>7, <1>8 DEF Stampers, Went
    <2> QED BY <1>1, <1>8, <2>1 DEF DateShape, Stands, Agrees
<1> QED BY <1>9, <1>10, <1>11, <1>12 DEF BoardInv

\* The save of a date: the row is still there, and gets what its status asks for.
LEMMA StampSteps ==
    ASSUME BoardInv, NEW e \in Editors, StampThing(e)
    PROVE  BoardInv'
<1>1. /\ EditInv /\ BoardTypeOK /\ EditShape /\ DateShape /\ ToldShape /\ NoOrphans /\ TallyShape
      /\ edit[e] \in Edit /\ edit[e].pc = "stamp"
    BY DEF BoardInv, EditInv, BoardTypeOK, StampThing
<1>2. PICK x \in Ticks \cup Milestones : x = edit[e].x
    BY <1>1 DEF EditShape
<1>3. x \in Things /\ x \notin Cards \cup {Project} \cup Blockers \cup Seats /\ thing[x] \in RowsOf(x)
    BY <1>1, BoardConstants DEF Things, BoardTypeOK
<1>4. edit[e].row \in RowsOf(x) /\ edit[e].by \in Team /\ NoOne \notin edit[e].told
    BY <1>1, <1>2 DEF EditShape
<1>5. PICK now \in RowsOf(x), row \in RowsOf(x), u \in Team :
          now = thing[x] /\ row = edit[e].row /\ u = edit[e].by
    BY <1>3, <1>4
<1>6. PICK new \in RowsOf(x) :
          /\ new = Stamped(x, now, row, u)
          /\ new.there = now.there /\ new.done = now.done /\ new.of = now.of
          /\ now.done = row.done => Agrees(x, new)
    BY StampedRow
<1>7. Wrote(x, new)
    <2>1. thing' = [thing EXCEPT ![x] = new]
        BY <1>2, <1>5, <1>6 DEF StampThing
    <2> QED BY <1>1, <1>3, <2>1, RowWritten
<1>8. PICK a \in Edit : a = [pc |-> "tell", by |-> edit[e].by, x |-> x, row |-> edit[e].row,
                            told |-> edit[e].told]
    BY <1>1, <1>3, <1>4, EditIs, EditFields
<1>9. a.pc = "tell" /\ a.x = x /\ a.row = edit[e].row /\ a.told = edit[e].told
    BY <1>8
<1>10. Went(e, a)
    <2>1. a = [edit[e] EXCEPT !.pc = "tell"]
        BY <1>1, <1>2, <1>8, EditFields
    <2>2. edit' = [edit EXCEPT ![e] = a]
        BY <2>1 DEF StampThing
    <2> QED BY <1>1, <2>2, EditWritten
<1>11. Stands(x) /\ UNCHANGED <<tally, knows, untold, excused>>
    BY <1>2 DEF StampThing
<1>12. EditInv'
    <2>1. \A y \in Things : thing'[y].there = thing[y].there
        BY <1>5, <1>6, <1>7 DEF Wrote
    <2>2. EditShape'
        BY <1>1, <1>4, <1>9, <1>10, <2>1, EditsKept
    <2>3. BoardTypeOK'
        BY <1>1, <1>7, <1>10, <1>11 DEF BoardTypeOK, Wrote, Went
    <2> QED BY <2>2, <2>3 DEF EditInv
<1>13. NoOrphans'
    <2>1. \A y \in Things : (Stands(y)' <=> Stands(y)) /\ thing'[y].of = thing[y].of
        BY <1>5, <1>6, <1>7 DEF Stands, Wrote
    <2>2. \A y \in Things : \A p \in Parents(y) : p \in Things
        BY DEF Parents, Things
    <2> QED BY <1>1, <2>1, <2>2 DEF NoOrphans, HasHome
<1>14. TallyShape'
    BY <1>1, <1>3, <1>7, <1>11, TallyStill DEF Wrote, Things
<1>15. ToldShape'
    <2>1. \A y \in Things : Named(y, thing'[y]) \subseteq Named(y, thing[y])
        BY <1>3, <1>7 DEF Named, Wrote
    <2> QED BY <1>1, <1>2, <1>9, <1>10, <1>11, <2>1, ToldKept
<1>16. DateShape'
    <2>1. \A t \in Cards : Agrees(t, thing'[t])
        BY <1>1, <1>3, <1>7 DEF DateShape, Wrote, Things
    <2>2. ASSUME NEW y \in (Ticks \cup Milestones) \ excused
          PROVE  /\ \A f, g \in Stampers(y)' : f = g
                 /\ Stands(y)' => \A f \in Stampers(y)' : thing'[y].done = edit'[f].row.done
                 /\ Stands(y)' /\ Stampers(y)' = {} => Agrees(y, thing'[y])
        <3>1. CASE y # x
            <4>1. thing'[y] = thing[y]
                BY <1>7, <2>2, <3>1 DEF Wrote, Things
            <4> QED BY <1>1, <1>2, <1>9, <1>10, <2>2, <3>1, <4>1, DatesKeptBy
        <3>2. CASE y = x
            <4>1. e \in Stampers(x) /\ \A f \in Stampers(x) : f = e
                BY <1>1, <1>2, <2>2, <3>2 DEF Stampers, DateShape
            <4>2. Stampers(x)' = {}
                BY <1>9, <1>10, <4>1 DEF Stampers, Went
            <4>3. now.done = row.done
                BY <1>1, <1>5, <1>11, <2>2, <3>2, <4>1 DEF DateShape
            <4> QED BY <1>6, <1>7, <3>2, <4>2, <4>3 DEF Wrote
        <3> QED BY <3>1, <3>2
    <2> QED BY <1>11, <2>1, <2>2 DEF DateShape, Agrees
<1> QED BY <1>12, <1>13, <1>14, <1>15, <1>16 DEF BoardInv

\* Mails and requests that end change no row, and excuse a date that is not saved.
LEMMA MailSteps ==
    ASSUME BoardInv, NEW e \in Editors, Notify(e) \/ EditEnds(e)
    PROVE  BoardInv'
<1>1. /\ EditInv /\ BoardTypeOK /\ EditShape /\ DateShape /\ ToldShape /\ NoOrphans /\ TallyShape
      /\ edit[e] \in Edit
    BY DEF BoardInv, EditInv, BoardTypeOK
<1>2. PICK a \in Edit : Went(e, a) /\ a.pc = "done" /\ a.told = {} /\ a.row \in RowsOf(a.x)
    BY <1>1, Finishes DEF Notify, EditEnds
<1>3. UNCHANGED <<thing, tally>>
    BY DEF Notify, EditEnds
<1>4. edit[e].x \in Things /\ edit[e].told \subseteq Team
    BY <1>1, EditFields DEF EditShape, Person
<1>5. /\ knows \cup untold \subseteq knows' \cup untold' /\ excused \subseteq excused'
      /\ knows' \subseteq Things \X Team /\ untold' \subseteq Things \X Team /\ excused' \subseteq Things
      /\ edit[e].pc = "stamp" => edit[e].x \in excused'
      /\ \A w \in edit[e].told : <<edit[e].x, w>> \in knows' \cup untold'
    <2>1. CASE Notify(e)
        BY <1>1, <1>4, <2>1 DEF Notify, BoardTypeOK
    <2>2. CASE EditEnds(e)
        BY <1>1, <1>4, <2>2 DEF EditEnds, BoardTypeOK
    <2> QED BY <2>1, <2>2
<1>6. EditInv'
    <2>1. EditShape'
        BY <1>1, <1>2, <1>3, EditsKept
    <2>2. BoardTypeOK'
        BY <1>1, <1>2, <1>3, <1>5 DEF BoardTypeOK, Went
    <2> QED BY <2>1, <2>2 DEF EditInv
<1>7. NoOrphans' /\ TallyShape'
    BY <1>1, <1>3, TallyStill DEF NoOrphans, Stands, HasHome
<1>8. DateShape'
    <2>1. ASSUME NEW y \in (Ticks \cup Milestones) \ excused'
          PROVE  /\ \A f, g \in Stampers(y)' : f = g
                 /\ Stands(y)' => \A f \in Stampers(y)' : thing'[y].done = edit'[f].row.done
                 /\ Stands(y)' /\ Stampers(y)' = {} => Agrees(y, thing'[y])
        <3>1. y \in (Ticks \cup Milestones) \ excused /\ ~(edit[e].pc = "stamp" /\ edit[e].x = y)
            BY <1>5, <2>1
        <3> QED BY <1>1, <1>2, <1>3, <3>1, DatesKeptBy
    <2> QED BY <1>1, <1>3, <2>1 DEF DateShape, Agrees
<1>9. ToldShape'
    BY <1>1, <1>2, <1>3, <1>5, ToldKept
<1> QED BY <1>6, <1>7, <1>8, <1>9 DEF BoardInv

\* With a row goes what belongs to it, and everything with the project.
LEMMA DestroySteps ==
    ASSUME BoardInv, NEW e \in Editors, NEW u \in Team, NEW x \in Things, PerformDestroy(e, u, x)
    PROVE  BoardInv'
<1>1. /\ EditInv /\ BoardTypeOK /\ EditShape /\ DateShape /\ ToldShape /\ NoOrphans /\ TallyShape
      /\ tally \in Tally
    BY DEF BoardInv, EditInv, BoardTypeOK
<1>2. PICK a \in Edit : Went(e, a) /\ a.pc = "done" /\ a.told = {} /\ a.row \in RowsOf(a.x)
    BY <1>1, Finishes DEF PerformDestroy
<1>3. /\ edit[e].pc = "idle" /\ Moves /\ UNCHANGED <<knows, untold, excused>>
      /\ thing' = [y \in Things |-> IF Stands(y) /\ Falls(x, y) THEN Gone ELSE thing[y]]
    BY DEF PerformDestroy, Idle
<1>4. ASSUME NEW y \in Things
      PROVE  /\ thing'[y] \in RowsOf(y)
             /\ thing'[y] = thing[y] \/ (thing'[y] = Gone /\ ~Stands(y)' /\ Stands(y) /\ Falls(x, y))
             /\ thing[y].there # "never" => thing'[y].there # "never"
             /\ Stands(y)' <=> Stands(y) /\ ~Falls(x, y)
    <2>1. Gone \in RowsOf(y) /\ Gone.there = "gone" /\ thing[y] \in RowsOf(y)
        BY <1>1, NothingIsARow DEF BoardTypeOK
    <2>2. thing'[y] = IF Stands(y) /\ Falls(x, y) THEN Gone ELSE thing[y]
        BY <1>3
    <2> QED BY <2>1, <2>2 DEF Stands
<1>5. EditInv'
    <2>1. EditShape'
        BY <1>1, <1>2, <1>4, EditsKept
    <2>2. thing' \in [Things -> Rows]
        <3>1. \A y \in Things : thing'[y] \in Rows
            BY <1>4 DEF Rows
        <3> QED BY <1>3, <3>1
    <2>3. tally' \in Tally
        BY <1>1, <1>3, TallyMoves
    <2>4. BoardTypeOK'
        BY <1>1, <1>2, <1>3, <1>4, <2>2, <2>3 DEF BoardTypeOK, Went
    <2> QED BY <2>1, <2>4 DEF EditInv
<1>6. NoOrphans'
    <2>1. SUFFICES ASSUME NEW y \in Things, Stands(y)', y # Project
                   PROVE  \E p \in Parents(y) : thing'[y].of = p /\ Stands(p)'
        BY DEF NoOrphans, HasHome
    <2>2. Stands(y) /\ ~Falls(x, y) /\ thing'[y] = thing[y]
        BY <1>4, <2>1
    <2>3. PICK p \in Parents(y) : thing[y].of = p /\ Stands(p)
        BY <1>1, <2>1, <2>2 DEF NoOrphans, HasHome
    <2>4. p \in Cards \cup {Project} /\ p \in Things /\ Project \in Things
        BY DEF Parents, Things
    <2>5. thing[p].of \in Parents(p) \cup {NoOne} /\ Parents(p) \subseteq {Project}
        <3>1. p \notin Ticks \cup TaskBlockers
            BY <2>4, BoardConstants
        <3>2. thing[p] \in RowsOf(p)
            BY <1>1, <2>4 DEF BoardTypeOK
        <3> QED BY <2>4, <3>1, <3>2, RowFields DEF Parents
    <2>6. x # NoOne /\ x # Project /\ p # x
        BY <2>2, <2>3, BoardConstants DEF Falls, Things
    <2>7. ~Falls(x, p)
        BY <2>5, <2>6 DEF Falls
    <2> QED BY <1>4, <2>2, <2>3, <2>4, <2>7
<1>7. TallyShape'
    BY <1>1, <1>3, TallyMoves
<1>8. DateShape'
    <2>1. ASSUME NEW y \in (Ticks \cup Milestones) \ excused
          PROVE  /\ \A f, g \in Stampers(y)' : f = g
                 /\ Stands(y)' => \A f \in Stampers(y)' : thing'[y].done = edit'[f].row.done
                 /\ Stands(y)' /\ Stampers(y)' = {} => Agrees(y, thing'[y])
        <3>1. y \in Things
            BY <2>1 DEF Things
        <3>2. CASE thing'[y] = thing[y]
            BY <1>1, <1>2, <1>3, <2>1, <3>2, DatesKeptBy
        <3>3. CASE ~Stands(y)'
            <4>1. Stampers(y)' \subseteq Stampers(y)
                BY <1>2 DEF Stampers, Went
            <4> QED BY <1>1, <2>1, <3>3, <4>1 DEF DateShape
        <3> QED BY <1>4, <3>1, <3>2, <3>3
    <2>2. \A t \in Cards : Agrees(t, thing'[t])
        <3>1. \A t \in Cards : t \in Things /\ t \notin Ticks /\ Agrees(t, Gone)
            BY BoardConstants, NothingIsARow DEF Things, Agrees, Gone, NoThing
        <3> QED BY <1>1, <1>4, <3>1 DEF DateShape
    <2> QED BY <1>3, <2>1, <2>2 DEF DateShape, Agrees
<1>9. ToldShape'
    <2>1. \A y \in Things : Named(y, Gone) = {}
        BY NothingIsARow DEF Named
    <2>2. \A y \in Things : Named(y, thing'[y]) \subseteq Named(y, thing[y])
        BY <1>4, <2>1
    <2> QED BY <1>1, <1>2, <1>3, <2>2, ToldKept
<1> QED BY <1>5, <1>6, <1>7, <1>8, <1>9 DEF BoardInv

(* ------------------------------ Counting ------------------------------- *)

LEMMA Counted ==
    /\ AllTasks \subseteq Cards /\ DoneTasks \subseteq AllTasks
    /\ \A u : MyOpenTasks(u) \subseteq AllTasks \ DoneTasks
    /\ \A s \in SUBSET Cards : IsFiniteSet(s) /\ Cardinality(s) \in Counts
    /\ \A s \in SUBSET (AllTasks \ DoneTasks) :
           Cardinality(DoneTasks) + Cardinality(s) <= Cardinality(AllTasks)
<1>1. IsFiniteSet(Cards) /\ Cardinality(Cards) \in Nat
    BY BoardConstants, FS_CardinalityType
<1>2. ASSUME NEW s \in SUBSET Cards
      PROVE  IsFiniteSet(s) /\ Cardinality(s) \in Counts
    <2>1. IsFiniteSet(s) /\ Cardinality(s) <= Cardinality(Cards) /\ Cardinality(s) \in Nat
        BY <1>1, FS_Subset, FS_CardinalityType
    <2> QED BY <1>1, <2>1 DEF Counts
<1>3. /\ AllTasks \subseteq Cards /\ DoneTasks \subseteq AllTasks
      /\ \A u : MyOpenTasks(u) \subseteq AllTasks \ DoneTasks
    BY DEF AllTasks, DoneTasks, MyOpenTasks
<1>4. ASSUME NEW s \in SUBSET (AllTasks \ DoneTasks)
      PROVE  Cardinality(DoneTasks) + Cardinality(s) <= Cardinality(AllTasks)
    <2>1. /\ IsFiniteSet(AllTasks) /\ IsFiniteSet(AllTasks \ DoneTasks) /\ IsFiniteSet(s)
          /\ Cardinality(DoneTasks) \in Nat /\ Cardinality(AllTasks) \in Nat
          /\ Cardinality(s) \in Nat /\ Cardinality(AllTasks \ DoneTasks) \in Nat
        <3>1. \A r \in SUBSET Cards : IsFiniteSet(r) /\ Cardinality(r) \in Nat
            BY <1>1, <1>2, FS_CardinalityType
        <3>2. AllTasks \ DoneTasks \in SUBSET Cards /\ s \in SUBSET Cards /\ DoneTasks \in SUBSET Cards
              /\ AllTasks \in SUBSET Cards
            BY <1>3
        <3> QED BY <3>1, <3>2
    <2>2. Cardinality(AllTasks \ DoneTasks) = Cardinality(AllTasks) - Cardinality(AllTasks \cap DoneTasks)
        BY <2>1, FS_Difference
    <2>3. AllTasks \cap DoneTasks = DoneTasks
        BY <1>3
    <2>4. Cardinality(s) <= Cardinality(AllTasks \ DoneTasks)
        BY <2>1, FS_Subset
    <2>5. Cardinality(AllTasks \ DoneTasks) = Cardinality(AllTasks) - Cardinality(DoneTasks)
        BY <2>2, <2>3
    <2> QED BY <2>1, <2>4, <2>5
<1> QED BY <1>2, <1>3, <1>4

\* A dashboard counts in several statements; it changes no row.
LEMMA CountSteps ==
    ASSUME BoardInv, ProjectProgress \/ AdminDashboard \/ \E u \in Team : MyDashboard(u),
           UNCHANGED <<thing, edit, knows, untold, excused>>
    PROVE  BoardInv'
<1>1. /\ EditInv /\ BoardTypeOK /\ EditShape /\ DateShape /\ ToldShape /\ NoOrphans /\ TallyShape
      /\ tally \in Tally
    BY DEF BoardInv, EditInv, BoardTypeOK
<1>2. /\ AllTasks' = AllTasks /\ DoneTasks' = DoneTasks
      /\ \A u : MyOpenTasks(u)' = MyOpenTasks(u)
    BY DEF AllTasks, DoneTasks, MyOpenTasks, Stands
<1>3. /\ Cardinality(AllTasks) \in Counts /\ Cardinality(DoneTasks) \in Counts
      /\ \A u : Cardinality(MyOpenTasks(u)) \in Counts
    <2>1. AllTasks \in SUBSET Cards /\ DoneTasks \in SUBSET Cards /\ \A u : MyOpenTasks(u) \in SUBSET Cards
        BY Counted
    <2> QED BY <2>1, Counted
<1>4. tally' \in Tally /\ TallyShape'
    <2>1. CASE tally.pc = "idle" /\ ProjectProgress
        <3>1. PICK n \in Counts : n = Cardinality(AllTasks)
            BY <1>3
        <3>2. tally' = [tally EXCEPT !.pc = "done", !.total = n]
            BY <2>1, <3>1 DEF ProjectProgress
        <3>3. /\ tally' \in Tally /\ tally'.pc = "done" /\ tally'.total = n /\ tally'.of = tally.of
            BY <1>1, <3>2 DEF Tally
        <3> QED BY <1>1, <1>2, <2>1, <3>1, <3>3 DEF TallyShape, TallyAddsUp
    <2>2. CASE tally.pc = "done" /\ ProjectProgress
        <3>1. PICK n \in Counts : n = Cardinality(DoneTasks)
            BY <1>3
        <3>2. tally' = [tally EXCEPT !.pc = "rest", !.done = n] /\ tally.of = NoOne
            BY <2>2, <3>1 DEF ProjectProgress
        <3>3. /\ tally' \in Tally /\ tally'.pc = "rest" /\ tally'.done = n /\ tally'.of = tally.of
              /\ tally'.total = tally.total /\ tally'.moved = tally.moved
            BY <1>1, <3>2 DEF Tally
        <3> QED BY <1>1, <1>2, <2>2, <3>1, <3>2, <3>3 DEF TallyShape, TallyAddsUp
    <2>3. CASE AdminDashboard
        <3>1. PICK rest \in {AllTasks \ DoneTasks, UNION {MyOpenTasks(u) : u \in Team}} :
                  tally' = [tally EXCEPT !.pc = "end", !.rest = Cardinality(rest)]
            BY <2>3 DEF AdminDashboard
        <3>2. rest \in SUBSET (AllTasks \ DoneTasks)
            BY <3>1, Counted
        <3>3. rest \in SUBSET Cards
            BY <3>2, Counted
        <3>4. PICK n \in Counts : n = Cardinality(rest)
            BY <3>3, Counted
        <3>5. Cardinality(DoneTasks) + n <= Cardinality(AllTasks)
            BY <3>2, <3>4, Counted
        <3>6. tally' = [tally EXCEPT !.pc = "end", !.rest = n] /\ tally.pc = "rest"
            BY <2>3, <3>1, <3>4 DEF AdminDashboard
        <3>7. /\ tally' \in Tally /\ tally'.pc = "end" /\ tally'.rest = n /\ tally'.of = tally.of
              /\ tally'.total = tally.total /\ tally'.moved = tally.moved /\ tally'.done = tally.done
            BY <1>1, <3>6 DEF Tally
        <3> QED BY <1>1, <3>5, <3>6, <3>7 DEF TallyShape, TallyAddsUp
    <2>4. ASSUME NEW u \in Team, tally.pc = "idle", MyDashboard(u)
          PROVE  tally' \in Tally /\ TallyShape'
        <3>1. PICK n \in Counts : n = Cardinality(MyOpenTasks(u))
            BY <1>3
        <3>2. tally' = [tally EXCEPT !.pc = "done", !.of = u, !.total = n]
            BY <2>4, <3>1 DEF MyDashboard
        <3>3. u \in Person /\ u # NoOne
            BY BoardConstants DEF Person
        <3>4. /\ tally' \in Tally /\ tally'.pc = "done" /\ tally'.total = n /\ tally'.of = u
            BY <1>1, <3>2, <3>3 DEF Tally
        <3> QED BY <1>2, <3>1, <3>3, <3>4 DEF TallyShape, TallyAddsUp
    <2>5. ASSUME NEW u \in Team, tally.pc = "done", MyDashboard(u)
          PROVE  tally' \in Tally /\ TallyShape'
        <3>1. PICK n \in Counts : n = Cardinality(MyOpenTasks(u))
            BY <1>3
        <3>2. tally' = [tally EXCEPT !.pc = "end", !.rest = n] /\ tally.of = u /\ u # NoOne
            BY <2>5, <3>1, BoardConstants DEF MyDashboard
        <3>3. /\ tally' \in Tally /\ tally'.pc = "end" /\ tally'.rest = n /\ tally'.of = tally.of
              /\ tally'.total = tally.total /\ tally'.moved = tally.moved
            BY <1>1, <3>2 DEF Tally
        <3> QED BY <1>1, <2>5, <3>1, <3>2, <3>3 DEF TallyShape, TallyAddsUp
    <2> QED BY <2>1, <2>2, <2>3, <2>4, <2>5 DEF ProjectProgress, MyDashboard
<1>5. EditInv' /\ NoOrphans'
    BY <1>1, <1>4 DEF EditInv, BoardTypeOK, EditShape, NoOrphans, HasHome, Stands
<1>6. DateShape' /\ ToldShape'
    BY <1>1 DEF DateShape, Stampers, Stands, Agrees, ToldShape, Hears, Named
<1> QED BY <1>4, <1>5, <1>6 DEF BoardInv

(* ------------------------------ Theorems ------------------------------- *)

LEMMA BoardStarts ==
    ASSUME BoardInit
    PROVE  BoardInv
<1>1. PICK w \in Person, all \in BOOLEAN, t \in Cards, there \in {{}, {Project}, Things \ Seats} :
          thing = [x \in Things |-> IF x \notin there THEN NoThing ELSE
             [there |-> "here", done |-> all /\ x # Project,
              dated |-> all /\ x \in Cards \cup Ticks \cup Milestones,
              who |-> IF x \in {Project} \cup Cards \/ (all /\ x \in Ticks) THEN w ELSE NoOne,
              by |-> IF x \in Blockers THEN w ELSE NoOne,
              of |-> IF x = Project THEN NoOne ELSE IF x \in Ticks \cup TaskBlockers THEN t ELSE Project]]
    BY DEF BoardInit
<1>2. /\ untold = {} /\ excused = {}
      /\ edit = [e \in Editors |-> NoEdit]
      /\ tally = [pc |-> "idle", of |-> NoOne, total |-> 0, done |-> 0, rest |-> 0, moved |-> FALSE]
      /\ knows = {p \in Things \X Team : p[2] \in Named(p[1], thing[p[1]])}
    BY DEF BoardInit
<1>3. ASSUME NEW x \in Things, x \in there
      PROVE  /\ thing[x] \in RowsOf(x) /\ Agrees(x, thing[x])
             /\ x # Project => thing[x].of \in Parents(x) /\ thing[x].of \in there
    <2>1. x \notin Seats
        BY <1>1, <1>3, BoardConstants
    <2>2. PICK done \in BOOLEAN : done = (all /\ x # Project)
        OBVIOUS
    <2>3. PICK dated \in BOOLEAN : dated = (all /\ x \in Cards \cup Ticks \cup Milestones)
        OBVIOUS
    <2>4. PICK who \in Person : who = IF x \in {Project} \cup Cards \/ (all /\ x \in Ticks) THEN w ELSE NoOne
        BY DEF Person
    <2>5. PICK by \in Person : by = IF x \in Blockers THEN w ELSE NoOne
        BY DEF Person
    <2>6. PICK of : of = IF x = Project THEN NoOne ELSE IF x \in Ticks \cup TaskBlockers THEN t ELSE Project
        OBVIOUS
    <2>7. done \in Dones(x) /\ dated \in Dates(x) /\ who \in Whos(x) /\ by \in Bys(x)
        BY <2>1, <2>2, <2>3, <2>4, <2>5 DEF Dones, Dates, Whos, Bys, Things
    <2>8. x # Project => of \in Parents(x) /\ of \in there
        <3>1. t \in Things /\ Project \in Things /\ t \notin Seats /\ Project \notin Seats
            BY BoardConstants DEF Things
        <3> QED BY <1>1, <1>3, <2>6, <3>1 DEF Parents
    <2>9. of \in Homes(x)
        BY <2>6, <2>8 DEF Homes
    <2>10. thing[x] = [there |-> "here", done |-> done, dated |-> dated, who |-> who, by |-> by, of |-> of]
        BY <1>1, <1>3, <2>2, <2>3, <2>4, <2>5, <2>6
    <2>11. PICK row \in RowsOf(x) :
              /\ row = [there |-> "here", done |-> done, dated |-> dated, who |-> who, by |-> by, of |-> of]
              /\ row.done = done /\ row.dated = dated /\ row.who = who /\ row.of = of
        BY <2>7, <2>9, MakeRow
    <2>12. Agrees(x, row)
        BY <2>1, <2>2, <2>3, <2>4, <2>11, BoardConstants DEF Agrees
    <2> QED BY <2>8, <2>10, <2>11, <2>12
<1>4. ASSUME NEW x \in Things, x \notin there
      PROVE  thing[x] = NoThing
    BY <1>1, <1>4
<1>5. \A x \in Things : thing[x] \in RowsOf(x) /\ (Stands(x) => x \in there)
    BY <1>3, <1>4, NothingIsARow DEF Stands
<1>6. thing \in [Things -> Rows]
    <2>1. \A x \in Things : thing[x] \in Rows
        BY <1>5 DEF Rows
    <2> QED BY <1>1, <2>1
<1>7. \A e \in Editors : edit[e] = NoEdit
    BY <1>2
<1>8. tally \in Tally
    <2>1. Cardinality(Cards) \in Nat /\ NoOne \in Person
        BY BoardConstants, FS_CardinalityType DEF Person
    <2>2. 0 \in Counts
        BY <2>1 DEF Counts
    <2> QED BY <1>2, <2>1, <2>2 DEF Tally
<1>9. EditInv
    <2>1. edit \in [Editors -> Edit]
        BY <1>2, NoEditIs
    <2>2. BoardTypeOK
        BY <1>2, <1>5, <1>6, <1>8, <2>1 DEF BoardTypeOK
    <2> QED BY <1>7, <2>2, NoEditIs DEF EditInv, EditShape
<1>10. NoOrphans
    <2>1. ASSUME NEW x \in Things, Stands(x), x # Project
          PROVE  HasHome(x, thing[x])
        <3>1. PICK p \in Parents(x) : thing[x].of = p /\ p \in there
            BY <1>3, <1>5, <2>1
        <3>2. p \in Things
            BY DEF Parents, Things
        <3>3. thing[p].there = "here"
            BY <1>1, <3>1, <3>2
        <3> QED BY <3>1, <3>3 DEF HasHome, Stands
    <2> QED BY <2>1 DEF NoOrphans, HasHome
<1>11. DateShape
    <2>1. \A x \in Things : Stampers(x) = {}
        BY <1>7, NoEditIs DEF Stampers
    <2>2. \A x \in Ticks \cup Milestones \cup Cards : x \in Things
        BY DEF Things
    <2>3. \A x \in Cards : Agrees(x, NoThing)
        BY BoardConstants DEF Agrees, NoThing
    <2> QED BY <1>3, <1>4, <1>5, <2>1, <2>2, <2>3 DEF DateShape
<1>12. ToldShape
    <2>1. ASSUME NEW x \in Things, NEW u \in Named(x, thing[x])
          PROVE  <<x, u>> \in knows
        <3>1. u \in Team
            BY <1>5, RowFields DEF Named, Person
        <3> QED BY <1>2, <2>1, <3>1
    <2> QED BY <1>7, <2>1, NoEditIs DEF ToldShape, Hears
<1>13. TallyShape
    BY <1>2 DEF TallyShape, TallyAddsUp
<1> QED BY <1>9, <1>10, <1>11, <1>12, <1>13 DEF BoardInv

LEMMA BoardMoves ==
    ASSUME BoardInv, BoardNext
    PROVE  BoardInv'
<1>1. /\ EditInv /\ EditShape /\ BoardTypeOK /\ \A e \in Editors : edit[e] \in Edit
    BY DEF BoardInv, EditInv, BoardTypeOK
<1>2. ASSUME NEW e \in Editors, NEW u \in Team, NEW x \in Things, PerformCreate(e, u, x)
      PROVE  BoardInv'
    <2>1. PICK of \in {NoOne} \cup Parents(x) : \E row \in Sent(x, of) :
              LET new == Saved(x, Created(x, row, u)) IN
              /\ SaveThing(e, u, x, NoThing, new)
              /\ excused' = IF Agrees(x, new) THEN excused ELSE excused \cup {x}
        BY <1>2 DEF PerformCreate
    <2>2. PICK row \in RowsOf(x) :
              /\ row.there = "here"
              /\ SaveThing(e, u, x, NoThing, Saved(x, Created(x, row, u)))
              /\ excused' = IF Agrees(x, Saved(x, Created(x, row, u))) THEN excused ELSE excused \cup {x}
        BY <2>1 DEF Sent
    <2>3. PICK made \in RowsOf(x) :
              made = Created(x, row, u) /\ made.there = "here" /\ (x \in Blockers => made.by = u)
        BY <2>2, CreatedRow
    <2>4. PICK new \in RowsOf(x) :
              new = Saved(x, made) /\ new.there = "here" /\ new.by = made.by /\ (x \in Cards => Agrees(x, new))
        BY <2>3, SavedRow
    <2>5. SaveThing(e, u, x, NoThing, new) /\ excused' = IF Agrees(x, new) THEN excused ELSE excused \cup {x}
        BY <2>2, <2>3, <2>4
    <2>6. edit[e].pc = "idle" /\ thing[x].there = "never" /\ NoThing \in RowsOf(x)
        BY <1>2, NothingIsARow DEF PerformCreate, Idle
    <2> QED BY <2>3, <2>4, <2>5, <2>6, SaveSteps
<1>3. ASSUME NEW e \in Editors, PerformUpdate(e)
      PROVE  BoardInv'
    <2>1. edit[e].x \in Things /\ edit[e].row \in RowsOf(edit[e].x) /\ edit[e].by \in Team
          /\ edit[e].row.there = "here"
        BY <1>1, <1>3, EditFields DEF EditShape, PerformUpdate
    <2>2. PICK x \in Things : x = edit[e].x
        BY <2>1
    <2>3. PICK read \in RowsOf(x), u \in Team : read = edit[e].row /\ u = edit[e].by
        BY <2>1, <2>2
    <2>4. PICK row \in RowsOf(x) : row.there = "here" /\ SaveThing(e, u, x, read, Saved(x, row))
        BY <1>3, <2>2, <2>3 DEF PerformUpdate, Sent
    <2>5. PICK new \in RowsOf(x) :
              new = Saved(x, row) /\ new.there = "here" /\ (x \in Cards => Agrees(x, new))
        BY <2>4, SavedRow
    <2>6. /\ edit[e].pc = "open" /\ read.there # "never"
          /\ excused' = IF Stamping(x) THEN excused \cup {x} ELSE excused \ {x}
        BY <1>3, <2>1, <2>2, <2>3 DEF PerformUpdate
    <2> QED BY <2>2, <2>3, <2>4, <2>5, <2>6, SaveSteps
<1>4. ASSUME NEW e \in Editors, StampThing(e) \/ Notify(e) \/ EditEnds(e)
      PROVE  BoardInv'
    BY <1>4, StampSteps, MailSteps
<1>5. ASSUME NEW e \in Editors, NEW u \in Team, NEW x \in Things, GetThing(e, u, x) \/ PerformDestroy(e, u, x)
      PROVE  BoardInv'
    BY <1>5, GetSteps, DestroySteps
<1>6. ASSUME ProjectProgress \/ AdminDashboard \/ \E u \in Team : MyDashboard(u),
             UNCHANGED <<thing, edit, knows, untold, excused>>
      PROVE  BoardInv'
    BY <1>6, CountSteps
<1> QED BY <1>2, <1>3, <1>4, <1>5, <1>6 DEF BoardNext

LEMMA BoardStutters ==
    ASSUME BoardInv, UNCHANGED boardVars
    PROVE  BoardInv'
<1>1. EditInv' /\ NoOrphans'
    BY DEF boardVars, BoardInv, EditInv, BoardTypeOK, EditShape, NoOrphans, HasHome, Stands
<1>2. DateShape' /\ ToldShape'
    BY DEF boardVars, BoardInv, DateShape, Stampers, Stands, Agrees, ToldShape, Hears, Named
<1>3. TallyShape'
    BY TallyStill DEF boardVars, BoardInv
<1> QED BY <1>1, <1>2, <1>3 DEF BoardInv

LEMMA BoardInvariant == BoardSpec => []BoardInv
<1>1. BoardInit => BoardInv
    BY BoardStarts
<1>2. BoardInv /\ [BoardNext]_boardVars => BoardInv'
    BY BoardMoves, BoardStutters
<1> QED BY <1>1, <1>2, PTL DEF BoardSpec

\* The rows, requests and counts of a board are what the model says (BoardTypeOK).
THEOREM BoardTypes == BoardSpec => []BoardTypeOK
<1>1. BoardInv => BoardTypeOK
    BY DEF BoardInv, EditInv
<1> QED BY <1>1, BoardInvariant, PTL

\* A board keeps its dates, has told whom its rows name, has no orphans and counts
\* what is there, whatever columns its requests send, wherever they file a row and
\* however their saves cross (BoardKept).
THEOREM BoardHolds == BoardSpec => []BoardKept
<1>1. BoardInv => DatesKept
    <2> SUFFICES ASSUME BoardInv, NEW x \in Things, Stands(x), ~Agrees(x, thing[x])
                 PROVE  x \notin Cards /\ (x \in excused \/ Stamping(x))
        BY DEF DatesKept
    <2>1. x \notin Cards
        BY DEF BoardInv, DateShape
    <2>2. x \in Ticks \cup Milestones
        BY <2>1 DEF Agrees
    <2>3. Stampers(x) # {} => Stamping(x)
        BY DEF Stampers, Stamping
    <2> QED BY <2>1, <2>2, <2>3 DEF BoardInv, DateShape
<1>2. BoardInv => PeopleTold
    <2> SUFFICES ASSUME BoardInv, NEW x \in Things, ~Telling(x), NEW u \in Named(x, thing[x])
                 PROVE  <<x, u>> \in knows \cup untold
        BY DEF PeopleTold
    <2>1. Hears(x, u)
        BY DEF BoardInv, ToldShape
    <2> QED BY <2>1 DEF Hears, Telling
<1>3. BoardInv => BoardKept
    BY <1>1, <1>2 DEF BoardInv, TallyShape, BoardKept
<1> QED BY <1>3, BoardInvariant, PTL
=============================================================================
