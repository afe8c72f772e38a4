------------------------------ MODULE Accounts ------------------------------
(***************************************************************************)
(* The team's accounts. A handler reads a row and saves it: some lock it   *)
(* (update, deactivate, activate, delete), the others save the whole row   *)
(* they once read (profile, passwords, registration), each statement in a  *)
(* transaction of its own. A request is used once: Requests bounds them.   *)
(***************************************************************************)
EXTENDS Naturals, FiniteSets

CONSTANTS
    Users, Requests, Links,
    NoUser, NoLink,
    Nobody          \* the password an account starts with was set by no request

ASSUME AccountConstants == NoUser \notin Users /\ NoLink \notin Links
                           /\ Nobody \notin Requests

VARIABLES
    account,        \* per user: the row; role "none" where there is none yet
    request,        \* per request: how far it is, and the rows it has read
    link,           \* per password reset link: whose, used, expired
    removed,        \* history: users a request removed
    overwritten,          \* history: users whose row was saved from an older reading
    demoted,        \* history: a superuser was demoted or disabled by an update
    raced,          \* history: two removals were in progress at once
    setBy,          \* history: the request that last set a user's password
    spent,          \* history: requests that set a password through a link
    crossed         \* history: links two requests were using at once, or one
                    \* used without marking it

accountVars == <<account, request, link, removed, overwritten, demoted, raced, setBy, spent, crossed>>
-----------------------------------------------------------------------------
\* "finance" has no right of its own: it stands for no more than "employee".
Roles == {"superuser", "admin", "employee"}
DashboardUser == [role : Roles \cup {"none"}, active : BOOLEAN, deleted : BOOLEAN,
                  team : BOOLEAN, pw : Requests \cup {Nobody}]
PasswordResetToken == [user : Users \cup {NoUser}, used : BOOLEAN, late : BOOLEAN]
Request == [pc : {"idle", "begun", "reset", "register", "deactivate", "delete",
                  "forgot", "confirm", "mark", "done"},
            me : DashboardUser, by : Users \cup {NoUser},
            to : Users \cup {NoUser}, row : DashboardUser, link : Links \cup {NoLink}]

Absent == [role |-> "none", active |-> FALSE, deleted |-> FALSE, team |-> FALSE, pw |-> Nobody]
Member(role, team) == [Absent EXCEPT !.role = role, !.active = TRUE, !.team = team]
NoRequest == [pc |-> "idle", me |-> Absent, by |-> NoUser, to |-> NoUser, row |-> Absent, link |-> NoLink]

IsManager(x) == x.role \in {"superuser", "admin"}
IsSuperuser(x) == x.role = "superuser"
CanManageTeam(x) == IsManager(x) \/ x.team
MayTouch(me, row) == IsSuperuser(row) => IsSuperuser(me)
Exists(u) == account[u].role # "none"

AccountInit ==
    /\ account \in [Users -> {Absent, Member("superuser", FALSE), Member("admin", FALSE),
                              Member("employee", TRUE),
                              [Member("superuser", FALSE) EXCEPT !.active = FALSE]}]
    /\ \E u \in Users : IsSuperuser(account[u]) /\ account[u].active
    /\ request = [r \in Requests |-> NoRequest]
    /\ link \in [Links -> {[user |-> u, used |-> FALSE, late |-> FALSE] : u \in Users \cup {NoUser}}]
    /\ \A l \in Links : link[l].user \in {u \in Users : account[u].active} \cup {NoUser}
    /\ removed = {} /\ overwritten = {} /\ demoted = FALSE /\ raced = FALSE
    /\ setBy = [u \in Users |-> Nobody]
    /\ spent = [l \in Links |-> {}] /\ crossed = {}
-----------------------------------------------------------------------------
\* Requests are alike: the next one is any that has not been sent.
Begins(r) == request[r].pc = "idle" /\ r = CHOOSE q \in Requests : request[q].pc = "idle"
Done(r) == request' = [request EXCEPT ![r] = [NoRequest EXCEPT !.pc = "done"]]
Goes(r, pc, t, row) == request' = [request EXCEPT ![r].pc = pc, ![r].to = t, ![r].row = row]
Locks(r, t) == request[r].pc \in {"deactivate", "delete"} /\ request[r].to = t
Unlocked(t) == \A q \in Requests : ~Locks(q, t)

\* save() writes every column, as it was when the row was read.
SaveRow(t, read, new) ==
    /\ Unlocked(t)
    /\ account' = [account EXCEPT ![t] = new]
    /\ overwritten' = IF read = account[t] THEN overwritten ELSE overwritten \cup {t}

\* The session's cookie names an account that is active when the request begins.
Authenticate(r, u) ==
    /\ Begins(r) /\ account[u].active
    /\ request' = [request EXCEPT ![r].pc = "begun", ![r].by = u, ![r].me = account[u]]
    /\ UNCHANGED <<account, link, removed, overwritten, demoted, raced, setBy, spent, crossed>>

Me(r) ==
    /\ request[r].pc = "begun"
    /\ SaveRow(request[r].by, request[r].me, request[r].me)
    /\ Done(r) /\ UNCHANGED <<link, removed, demoted, raced, setBy, spent, crossed>>

ChangePassword(r) ==
    LET u == request[r].by me == request[r].me IN
    /\ request[r].pc = "begun"
    /\ SaveRow(u, me, [me EXCEPT !.pw = r])
    /\ setBy' = [setBy EXCEPT ![u] = r]
    /\ Done(r) /\ UNCHANGED <<link, removed, demoted, raced, spent, crossed>>

\* A manager sets the password of any account, a removed one too.
ResetPassword(r, t) ==
    /\ request[r].pc = "begun" /\ IsManager(request[r].me)
    /\ Exists(t) /\ MayTouch(request[r].me, account[t])
    /\ Goes(r, "reset", t, account[t])
    /\ UNCHANGED <<account, link, removed, overwritten, demoted, raced, setBy, spent, crossed>>

SaveReset(r) ==
    LET q == request[r] IN
    /\ q.pc = "reset"
    /\ SaveRow(q.to, q.row, [q.row EXCEPT !.pw = r])
    /\ setBy' = [setBy EXCEPT ![q.to] = r]
    /\ Done(r) /\ UNCHANGED <<link, removed, demoted, raced, spent, crossed>>

\* The flags of a new superuser are set by a second save.
RegisterUser(r, t, role) ==
    LET row == [Member(role, FALSE) EXCEPT !.pw = r] IN
    /\ request[r].pc = "begun" /\ IsManager(request[r].me) /\ ~Exists(t)
    /\ role = "superuser" => IsSuperuser(request[r].me)
    /\ account' = [account EXCEPT ![t] = row]
    /\ setBy' = [setBy EXCEPT ![t] = r]
    /\ IF role = "superuser" THEN Goes(r, "register", t, row) ELSE Done(r)
    /\ UNCHANGED <<link, removed, overwritten, demoted, raced, spent, crossed>>

SaveFlags(r) ==
    /\ request[r].pc = "register"
    /\ SaveRow(request[r].to, request[r].row, request[r].row)
    /\ Done(r) /\ UNCHANGED <<link, removed, demoted, raced, setBy, spent, crossed>>
-----------------------------------------------------------------------------
\* select_for_update().get(id, deleted_at is null), once the row's lock is free.
InTeam(t) == Exists(t) /\ ~account[t].deleted /\ Unlocked(t)

\* The lock makes reading and saving the row one step.
UpdateUser(r, t, role, active, team) ==
    LET me == request[r].me
        new == [account[t] EXCEPT !.role = role, !.active = active,
                                  !.team = IF IsManager(me) THEN team ELSE @] IN
    /\ request[r].pc = "begun" /\ CanManageTeam(me)
    /\ InTeam(t) /\ MayTouch(me, account[t])
    /\ role = "superuser" /\ role # account[t].role => IsSuperuser(me)
    /\ account' = [account EXCEPT ![t] = new]
    /\ demoted' = (demoted \/ (IsSuperuser(account[t]) /\ ~(IsSuperuser(new) /\ new.active)))
    /\ Done(r) /\ UNCHANGED <<link, raced, removed, overwritten, setBy, spent, crossed>>

ActivateUser(r, t) ==
    /\ request[r].pc = "begun" /\ CanManageTeam(request[r].me)
    /\ InTeam(t) /\ MayTouch(request[r].me, account[t])
    /\ account' = [account EXCEPT ![t].active = TRUE]
    /\ Done(r) /\ UNCHANGED <<link, removed, overwritten, demoted, raced, setBy, spent, crossed>>

\* MUTANT of SuperusersLeft: removed and inactive superusers are counted too.
MutSuperusersLeft == Cardinality({u \in Users : IsSuperuser(account[u])})

\* The count reads what other requests have committed, without locking it.
SuperusersLeft == Cardinality({u \in Users : IsSuperuser(account[u]) /\ account[u].active})

Removing(r) == request[r].pc \in {"deactivate", "delete"}

Count(r, t, op) ==
    LET me == request[r].me IN
    /\ request[r].pc = "begun"
    /\ IF op = "delete" THEN IsManager(me) ELSE CanManageTeam(me)
    /\ t # request[r].by /\ InTeam(t) /\ MayTouch(me, account[t])
    /\ IsSuperuser(account[t]) => SuperusersLeft > 1
    /\ Goes(r, op, t, account[t])
    /\ raced' = (raced \/ \E q \in Requests : Removing(q))
    /\ UNCHANGED <<account, demoted, link, removed, overwritten, setBy, spent, crossed>>

DeactivateUser(r) ==
    /\ request[r].pc = "deactivate"
    /\ account' = [account EXCEPT ![request[r].to].active = FALSE]
    /\ Done(r) /\ UNCHANGED <<link, removed, overwritten, demoted, raced, setBy, spent, crossed>>

DeleteUser(r) ==
    LET t == request[r].to IN
    /\ request[r].pc = "delete"
    /\ account' = [account EXCEPT ![t].active = FALSE, ![t].deleted = TRUE]
    /\ removed' = removed \cup {t}
    /\ Done(r) /\ UNCHANGED <<link, overwritten, demoted, raced, setBy, spent, crossed>>
-----------------------------------------------------------------------------
\* MUTANT of Retires: a link is retired whosever it is.
MutRetires(l, t) == TRUE

Retires(l, t) == link[l].user = t

\* Asking for a link retires the ones before, then makes a new one.
ForgotPassword(r, t) ==
    /\ Begins(r) /\ account[t].active
    /\ link' = [l \in Links |-> IF Retires(l, t) THEN [link[l] EXCEPT !.used = TRUE] ELSE link[l]]
    /\ Goes(r, "forgot", t, Absent)
    /\ UNCHANGED <<account, removed, overwritten, demoted, raced, setBy, spent, crossed>>

CreateLink(r, l) ==
    /\ request[r].pc = "forgot" /\ link[l].user = NoUser
    /\ link' = [link EXCEPT ![l].user = request[r].to]
    /\ Done(r) /\ UNCHANGED <<account, removed, overwritten, demoted, raced, setBy, spent, crossed>>

LinkExpires(l) ==
    /\ link[l].user # NoUser /\ link' = [link EXCEPT ![l].late = TRUE]
    /\ UNCHANGED <<account, request, removed, overwritten, demoted, raced, setBy, spent, crossed>>

IsValid(l) == link[l].user # NoUser /\ ~link[l].used /\ ~link[l].late

ReadLink(r, l) ==
    /\ Begins(r) /\ IsValid(l)
    /\ request' = [request EXCEPT ![r] = [NoRequest EXCEPT !.pc = "confirm", !.to = link[l].user,
                                                      !.row = account[link[l].user], !.link = l]]
    /\ crossed' = IF \E q \in Requests : request[q].link = l THEN crossed \cup {l} ELSE crossed
    /\ UNCHANGED <<account, link, removed, overwritten, demoted, raced, setBy, spent>>

ResetPasswordConfirm(r) ==
    LET q == request[r] IN
    /\ q.pc = "confirm"
    /\ SaveRow(q.to, q.row, [q.row EXCEPT !.pw = r])
    /\ setBy' = [setBy EXCEPT ![q.to] = r]
    /\ spent' = [spent EXCEPT ![q.link] = @ \cup {r}]
    /\ request' = [request EXCEPT ![r].pc = "mark"]
    /\ UNCHANGED <<link, removed, demoted, raced, crossed>>

MarkUsed(r) ==
    /\ request[r].pc = "mark"
    /\ link' = [link EXCEPT ![request[r].link].used = TRUE]
    /\ Done(r) /\ UNCHANGED <<account, removed, overwritten, demoted, raced, setBy, spent, crossed>>

\* A request that ends early leaves what it has saved; a lock goes with it.
RequestFails(r) ==
    /\ request[r].pc \notin {"idle", "done"}
    /\ crossed' = IF request[r].pc = "mark" THEN crossed \cup {request[r].link} ELSE crossed
    /\ Done(r) /\ UNCHANGED <<account, link, removed, overwritten, demoted, raced, setBy, spent>>
-----------------------------------------------------------------------------
AccountNext ==
    \/ \E r \in Requests :
        \/ Me(r) \/ ChangePassword(r) \/ SaveReset(r) \/ SaveFlags(r)
        \/ DeactivateUser(r) \/ DeleteUser(r) \/ ResetPasswordConfirm(r) \/ MarkUsed(r)
        \/ RequestFails(r)
        \/ \E t \in Users :
            \/ Authenticate(r, t) \/ ResetPassword(r, t) \/ ActivateUser(r, t) \/ ForgotPassword(r, t)
            \/ \E op \in {"deactivate", "delete"} : Count(r, t, op)
            \/ \E role \in Roles : \/ RegisterUser(r, t, role)
                                   \/ \E on, team \in BOOLEAN : UpdateUser(r, t, role, on, team)
        \/ \E l \in Links : CreateLink(r, l) \/ ReadLink(r, l)
    \/ \E l \in Links : LinkExpires(l)

AccountSpec == AccountInit /\ [][AccountNext]_accountVars
-----------------------------------------------------------------------------
AccountTypeOK ==
    /\ account \in [Users -> DashboardUser] /\ request \in [Requests -> Request]
    /\ link \in [Links -> PasswordResetToken]
    /\ \A l \in Links : link[l].user = NoUser => ~link[l].used /\ ~link[l].late
    /\ removed \subseteq Users /\ overwritten \subseteq Users /\ demoted \in BOOLEAN /\ raced \in BOOLEAN
    /\ setBy \in [Users -> Requests \cup {Nobody}]
    /\ spent \in [Links -> SUBSET Requests] /\ crossed \subseteq Links

\* No sequence of removals leaves the team without an active superuser; what can
\* is an update that demotes or disables one (update_user() does not count), two
\* removals in progress at once, and the late save of an older row.
SuperuserLeft ==
    demoted \/ raced \/ overwritten # {} \/ \E u \in Users : IsSuperuser(account[u]) /\ account[u].active

\* Whoever was removed stays so, whatever is updated, activated, registered or
\* reset afterwards, unless the late save of an older row undid it.
RemovedStays == \A u \in removed \ overwritten : account[u].deleted /\ ~account[u].active

\* A password stays until somebody sets another, and a link sets one once, but
\* for late saves of an older row, for two requests that use a link at once, and
\* for one that ends before it has marked the link.
PasswordsKept == /\ \A u \in Users \ overwritten : account[u].pw = setBy[u]
                 /\ \A l \in Links \ crossed : Cardinality(spent[l]) <= 1
=============================================================================
