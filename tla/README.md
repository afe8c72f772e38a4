# Calari portal backend: TLA+ models and proofs

This directory models the parts of the Calari portal (Django backend, Celery
workers, Next.js front end) in which several actors work on the same rows:
staff requests, periodic workers that call slow remote services outside any
lock, webhooks, purges, and processes that die. TLC checks the models on small
instances; TLAPS proves their safety and action properties for every value of
the constants.

    tlc -workers 2 -config GhlChatSafety.cfg MCGhlChat      one run
    tlapm GhlChatProofs.tla                                 the proofs of a module

## 1. Inventory of the system

All state is in Postgres rows. There is no `ATOMIC_REQUESTS`, so a request is
several transactions unless the code opens one. Celery beat
(`config/settings.py:474-499`) starts the drains (chat every 5 s; Slack,
investigations and GHL checks every 15 s; the purge every hour; reminders of due
builds daily), and nothing stops two drains from running at once. The
components call each other directly, within one transaction or not; the
couplings are named below.

| component | state it keeps | operations | what is hard | what makes it correct |
|---|---|---|---|---|
| GHL chat (`ghl_chat/`) | `Run`, `Execution`, `Grant`, `Audit` | post, plan, propose, confirm, reject, execute, sweep, export | a mutation of a client's account that must never be repeated, workers that die or return late, two transactions for status and audit | a mutation happens at most once and only as approved; a run that says failed changed nothing |
| Slack intake (`onboarding/slack_intake.py`) | inbox events, channel leases, responsibilities, `SlackWorkItem`, `SlackTaskMessage`, notifications | webhook, drain, analyse, route, triage, retry, ignore, settings | the AI reads a message while it is edited or deleted; leases lapse; tasks are reassigned by people | staff read only interpretations of the present text; nobody is told twice; nothing stays pending |
| Task completion and GHL checks (`builds/ghl_verification.py`, `builds/ghl_acceptance.py`, `TaskViewSet`) | `Task` with status, revision and verdict, its `MeetingActionItem` | set status, PATCH, ask a check, set criteria, drain, verify | the account is read for up to a minute outside any lock; the task, its client or connection change | a verdict is about the present work and the own account; each is announced once; checks end |
| Client investigations (`onboarding/investigations.py`, `investigation_views.py`) | `ClientInvestigation`, evidence, `StaffBrief` drafts, `InvestigationPolicy` with its lease | request, claim, collect, interpret, publish, edit and approve a draft, withdraw, purge | evidence collected for 45 s outside any lock while messages and permissions change; two writers of one draft | shown evidence is current; nothing withdrawn comes back; human text is not replaced |
| Slack context grant (`onboarding/slack_context.py`) | `SlackContextGrant`, `SlackOAuthAttempt` | authorize, callback, refresh under a 30 s lease, revoke | late answers about a token that was replaced | only the grant an answer is about is torn down |
| Onboarding intelligence (`onboarding/tasks.py`, `integrations.py`, `services.py`) | `CallInsight`, `IntegrationEvent` per target, `IntegrationMap`, `AutomationSettings` | ingest a call, analyse, emit to Slack, Asana and Drive, retract | outbound actions before their status is saved, redelivery, partial failure | an action is done once per call and target; a retracted one stays retracted |
| Fathom meetings (`onboarding/fathom.py`) | `FathomMeeting`, rules | webhook, attach, ignore | redelivered and concurrent webhooks, a meeting attached twice | a meeting becomes at most one note |
| Connections, OAuth, MCP (`onboarding/oauth.py`, `mcp.py`) | one `Connection` per provider | connect, refresh, call | remote formats | a secret is used for its own provider |
| Meeting tasklist and progress (`builds/tasks.py`, `builds/views.py:559-905`) | `MeetingActionItem`, `Build.tasklist_status`, `ProgressReport` | generate, re-sync, edit, publish as tasks, analyse a report | LLM calls between reading and writing the list; locks set by people meanwhile; dead workers | no human edit is overwritten; generation ends |
| Build workflow (`builds/views.py:324-600`, 1115-1380) | `Build`, section reviews, change requests, approvals, documents, comments | assign, set status, approve, promote to library, review, convert to task | whole-row saves of stale copies | an approved build stays approved |
| Knowledge and vectors (`builds/signals.py`, `vectorstore/`) | `BuildKnowledge`, chunks in a second database | index, enrich, delete on commit | two databases without a common transaction | chunks are of the last saved text |
| AI services (`builds/services.py`) | `AiApiKey`, `AiConfig`, `AiGenerationLog` | complete, cap tokens, choose key | cap counted without a lock | spend stays near the cap |
| Stored secrets (`builds/services.py:31-79`, `reencrypt_secrets`) | encrypted tokens and keys | save, rotate, re-encrypt | rows saved while the command has them in hand | a rotation loses nothing |
| Notifications (`builds/views.py:141-184`, 1387-1430) | `Notification`, preferences | notify, read, clear, remind | told twice or never | once per event |
| Team invites and uploads (`builds/views.py:1560-1732`) | `TeamInvite`, objects in a store | invite, accept, presign, finalize | an invite accepted twice | one account per invite |
| Clients and GHL connections (`projects/views.py:127-280`, `projects/ghl*.py`) | `GhlConnection` with a random revision, cached evidence | onboard, save, test, read, remove | slow reads of GHL beside replaced connections; everything above compares the revision | what is shown was read with the present token |
| Projects board (`projects/`) | projects, members, tasks, checklists, blockers, milestones | CRUD, mails, dashboards | whole-row saves of stale copies, dates and mails after the save, counts in several statements | dates follow the marks; whom a row names was told |
| Auth (`Auth/`) | users, reset links, token cookies | log in, refresh, manage users, reset | counts outside locks, rows saved whole | one superuser remains; who was removed stays so |
| A2P (`a2p/`) | one row per submission | submit, list, PDF | nothing | |
| Front end (`frontend/`) | cookies, pages | proxy, render, poll | pages opened long ago send old versions | the backend must not trust them |
| Commands, configuration | | local workers, re-encryption, beat | | |

How they meet: the Slack intake creates tasks (`Task`), asks for investigations
(`queue_event`) and withdraws them when a message changes (`source_change`);
an invalidated investigation requeues the GHL check of its task; a GHL
connection saved or removed invalidates investigations, checks and chat
proposals; task status feeds the meeting checklist; the hourly purge cuts across
the intake and the investigations. Each module has the others' effects as
actions of its environment.

`PROJECT.json` lists every component with what is modelled of it, and the
hazards, each at its line, with the properties that cover it.

## 2. The modules

| module | of | checked in |
|---|---|---|
| `ChatLedger` | abstract: what the chat promises about mutations | with `GhlChat` |
| `GhlChat`, `MCGhlChat`, `GhlChatProofs` | the chat, its instances, its proofs | `chat_*` |
| `SlackIntake`, `MCSlackIntake`, `SlackIntakeProofs` | the intake, its instances, its proofs | `slack_*` |
| `TaskCompletion`, `MCTaskCompletion`, `TaskCompletionProofs` | task completion and GHL checks | `task_*` |
| `Investigations`, `MCInvestigations`, `InvestigationsProofs` | client investigations and drafts | `investigations` |
| `CallPipeline` | onboarding calls and their outbound posts | `onboarding` (`MCOnboarding`) |
| `Connections` | provider connections and their refresh | `onboarding` |
| `SlackGrant` | the Slack user grant, its attempts and lease | `onboarding` |
| `GhlAccounts` | clients and their GHL connections | `onboarding` |
| `Board`, `BoardProofs` | the project board, its proofs | `onboarding` |
| `MeetingTasklist` | a build's tasklist, its jobs and human edits | `meetings`, `meetings_locked` (`MCMeetings`) |
| `FathomInbox` | recorded meetings | `meetings` |
| `Accounts` | users, roles, passwords, reset links | `office` (`MCOffice`) |
| `Sessions` | token rotation, invitations, rate limits | `office` |
| `Builds` | a build on its way to delivery | `office` |
| `Library` | a library document and its chunks | `office` |
| `AiGateway` | the cap, the fallback and the keys | `office` |
| `Vault` | encryption secrets and their rotation | `office` |
| `OnboardingProofs` | proofs about `CallPipeline`, `Connections`, `SlackGrant`, `GhlAccounts` | `onboarding` |
| `MeetingsProofs` | proofs about `MeetingTasklist`, `FathomInbox` | `meetings` |
| `OfficeProofs` | proofs about `Accounts` to `Vault` | `office` |

`MCOnboarding`, `MCMeetings` and `MCOffice` set independent machines beside each
other. They share no variable, so a behaviour moves one "part" of them: what a
property says of one part is checked in all its behaviours, and nothing is lost
by leaving the interleavings with the others out.

Conventions. A step is one transaction, one autocommitted statement, or one
remote call. Between two steps anybody else may act. A row lock held across
steps of a model is a variable or a guard (`posting`, `PolicyFree`, the purge's
lock); a transaction whose steps nobody can observe is one step. A worker is a
program counter plus what it holds in memory; `WorkerDies` is enabled whenever
it is not idle, and what it committed stays. Random UUIDs and digests that the
code compares only for equality are numbers of the change that drew them. AI
answers are free choices from what validation lets through.

### GhlChat
Rows of `Run` (`status`, `conv`, `reqKey`, `proposal`), `Execution` (`claim`),
audit "approved" (`approved`) and the account as GHL sees it (`applied`).
`PostMessage`/`InsertRun` are `messages()` around its row lock, `Approve`,
`Reject`, `Expire` the two outcomes of `confirm()` and a proposal's timeout,
`Drain` the sweep and the choice of one run in `drain_chat`, `StartRun` the
compare-and-set that claims it, `AnswerRun`/`ProposeMutation` the outcomes of
`ask()`, and `CheckApproval` to `EndJob` the steps of `execute_confirmed()`:
access is checked, the fingerprint claimed, access checked again, the mutation
sent. `SendMutation` may apply the mutation and lose the answer.
`JobFails`/`AuditFails`, `JudgeFailure` and `SaveFailure` are the failure
handler of `process_run()`, which looks for an `Execution` and then saves a
status over whatever the row holds. `Tick` ages runs and workers: Celery kills
a task after 220 s, the sweep gives a run up after five minutes
(`KilledBeforeSwept`). The local worker commands ignore these limits, and refuse
production settings; they are outside this assumption.

`ChatLedger` says of each request that it may be authorised once, for one
mutation, and that a mutation is applied at most once and only for the request
authorised for it. `ImplementsLedger` maps `authorised` to `approved`.

### SlackIntake
`Deliver` and `SourceChange` are the webhook (new, edited, deleted and repeated
messages, out of order), `Drain`, `Claim`, `Commit`, `Abandon`, `Release` the
steps of `drain_slack_intake` and `process_channel`: a lease on the channel, the
AI's reading outside any lock, then `route()` or triage in one transaction if
lease and `source_revision` are still its own. `Deliveries` is `route()`: for
each category the newest usable task of the thread or a new one, its message and
notifications; `Collides` is the unique constraint on `SlackWorkItem` a new
task can violate. The text of a message is the number of its last edit, and
`source_revision` is `<<updated, redacted>>`, because the code renews it exactly
when one of these changes. `PurgeInterpretations`/`PurgeSources` are the two
parts of `purge_expired` in the order of their statements. A task is named by
the event and category of its `SlackWorkItem`. `Init` has every configuration
of the intake.

### TaskCompletion
`SetStatus` is the status action, `Patch` and `PatchItem` are the two
transactions of `perform_update` (task, then meeting item), `AskCheck` and
`QueueCheck` the read and the conditional update of `ghl_verification`,
`SetCriteria` the acceptance criteria. `Sweep`, `List`, `Read`, `Skip`, `Claim`,
`LookUp`, `Finish` are a drain: interrupted checks are given up, up to five
queued tasks are listed, each is read and claimed, its client and connection
looked up, the account read, and the verdict published if revision, client and
connection are still the same. `Remap`, `Connect`, `Disconnect`,
`ContextWithdrawn` are the other components. The three verdicts of a check
that read the account are one, "CHECKED", with a note of which texts, client and
connection it is about. Tasks exist from the start; guides written into a task
(`generate_task_sop`) and texts rewritten by the purge are not modelled, nor is
the limit of five per drain reached.

### Investigations
One client. The messages and owners of a thread, and the client's permissions
(policy, GHL connection, channel, Slack grant), are each the number of their
last change; a change back therefore counts as a change. `AskContext`/`SaveQueue`
are `queue()` under the policy's lock, `OpenPage`/`SaveDraft` a page and the
draft it saves, `SourceChange`, `HistoryChange`, `SetPolicy`, `SetChannel`,
`SetAccess`, `TokenRevoked` what changes or withdraws a source, `Withdraw` the
row updates of `invalidate()`. `Sweep`, `Take`, `Lease`, `Claim`, `Gate`,
`GatherLocal`, `GatherRemote`, `Publish`, `Fail`, `Release` are `drain()` and
`process()`; `Store` keeps an edited draft and replaces an untouched one.
`PurgeExpired`/`MarkExpired`/`PurgeDies` are the purge, whose last statement
names the rows it withdrew in the first. `Shown` is what `task_context` lets
staff see. The limit of 500 waiting investigations is a free choice of
`AskContext`; brief contents, notifications of several owners and the limit of
five per drain are left out.

### CallPipeline
A message of the queue (`run`) is one `ingest_fireflies_call()`. `Start` is the
guard on the call's status, `Fetched`, `Unattributed`, `Analyze` its three
stages, `Hold`, `Emit`, `DoPost`, `SaveEvent` the steps of `_fan_out()` and
`_emit()` per target: the event is read, the post is made, and its status saved
afterwards. `Retract`/`RetractSave` are the manager's. Maps and settings may be
any each time they are read. A worker may die between any two steps, and its
message is delivered again.

### Connections
`Deactivated` is the update that switches the provider's other rows off before
one is made active, `CreateConnection`, `OAuthCallback`/`Insert`,
`PatchConnection`/`PatchOther`/`SaveConnection` and `DeleteConnection` the
requests, `GetSecret`, `RefreshConnection`, `Refreshed` a provider call that
refreshes an expired token and saves only the columns of the token.

### SlackGrant
A grant is named by the attempt it came of, a token by its grant and the number
of its refreshes. `Claim`, `Recheck`, `Exchange`, `Store`, `Release` are
`grant_token()` under its 30 s lease; Slack takes each refresh token once.
`ReadThread` may revoke the grant when Slack disowns a token.

### GhlAccounts
A revision stands for one token at one location. What `ghl_connection` and
`onboard_ghl` do under the lock of a client is one step; the checks before it,
and every read of GHL, are steps of their own. A client's own edit is
`OpenClient`, `ValidateClient`, `SaveClient`: the check that a connected client
keeps its location lies between the reading and the save of the whole row.

### Board
One project with its tasks, checklist items, milestones, blockers and
co-assignments (`Seats`). A row is `done` (completed, checked, resolved), `dated`
(its completion date), `who` (assigned to or checked it), `by` (created or
reported it) and `of` (what it belongs to). The serializers make every column
writable, so a request may send any (`Sent`): a date, a creator, a reporter or
another parent too. What the code then does about it is `Saved` (a task's own
`save()`, which sets its date by its status), `Created` (who files a row) and
`Stamped`, the second save of a milestone or item. `GetThing` and
`PerformUpdate` are a request's reading and its save of all columns, which
inserts a row deleted meanwhile again; permissions are checked before, for the
old and the new parent. `Notify` are its mails, to whom `Assigned` and `Resolved`
name; `Unmailed` is whom an edit names and mails nobody. Mails and logs that
concern others than those a row names are left out, as nothing reads them. The
dashboards count in two or three statements (`ProjectProgress`,
`AdminDashboard`, `MyDashboard`).

### MeetingTasklist and FathomInbox
`item` are the `MeetingActionItem` rows, `job` the workers that extract the list,
apply a later note (`ApplyFull`, `ApplyDelta`), audit a report or add questions;
the model's answer is a free choice from what validation lets through. `edit` is
a request of staff between reading and saving. In the inbox a handler of the
webhook checks the signature, creates the meeting or finds it (`Webhook`), and
attaches it in a second transaction (`Ingest`).

### Accounts and Sessions
Four handlers of `Auth/views.py` lock the row they change, the rest save the
whole row that they once read. A request is a program counter with the rows it
has in hand; passwords are named by the request that set them. `Sessions` has
the rotation of refresh tokens, an invitation whose link is replaced when it is
sent again, and the counter of `_rate_limited()`.

### Builds and Library
`Builds` has the status of one build, its document, the section of its client
updates with its change requests, and the gold reference of a delivery; no
handler locks a row. `Library` has one document, the queue of index, removal and
summary jobs, and the chunks in the other database: `DropChunks` and
`IndexKnowledge` are two statements, and jobs come late, twice or never. A
document may be uploaded with a summary of its own. `tasklist_status`, which a
PATCH of a build may also set, is in `MeetingTasklist`.

### AiGateway and Vault
`Admit`, `Chat`, `Answered`, `CallFails` are `_chat()`: the cap is read, the
provider asked, its usage logged, and OpenAI asked if it fails, unless the words
are a client's. A key is a row with a provider; of the active rows of a provider
the newest (`later`) is used if it decrypts, and the environment's otherwise
(`HasKey`). `DeactivateOthers` and `SaveKey` are the two statements that create or
activate a key, `ReadKey` and `PatchKey` an edit, which saves the whole row and
may set provider and flag. `Vault` has rows encrypted with a primary secret or the fallback,
`Start`, `Decrypt`, `Encrypt` of `reencrypt_secrets`, and saves beside them.

## 3. The runs

| run | instance | shows |
|---|---|---|
| `chat_mutations` | 2 runs, 2 conversations, 2 workers, late failures | `AtMostOnceMutation`, `OnlyApprovedMutations`, `DoneMeansExecuted`, the ledger |
| `chat_lifecycle` | 2 runs of one conversation, 2 workers, no failure after a save | `FailedMeansUntouched`, `OneRunPerRequest`, `TerminalIsFinal`, `EveryJobSettles` |
| `chat_late_failure` | 1 run, 2 workers, late failures | **violated** `FailedMeansUntouched` |
| `slack_routing` | thread of 2 messages, 1 edit each, 2 workers; 1 change of settings, or retention and the purge | `InterpretationIsCurrent`, `NotifiedOnce`, `RoutedIsDelivered` |
| `slack_progress` | 1 message, 2 categories, purge, fairness | `TriageReachesEveryone`, `HandledUnlessConflicted` |
| `task_verdicts` | 1 task, 2 clients, 2 workers, 1 request, 2 changes | `VerdictIsCurrent`, `NotifiedOnce`, `CheckedOwnAccount` |
| `task_checks_end` | 1 Slack task, 1 worker, fairness | `ChecksEnd` |
| `investigations` | 1 thread, 1 worker, 1 request, 3 changes, fairness | `ShownIsCurrent`, `NothingWithdrawn`, `ReadyIsReviewed`, `EditedDraftKept`, `InvestigationsEnd` |
| `onboarding` | 1 call delivered twice; 2 connections, 2 requests; 2 grants, 2 readers; 2 clients, 2 locations, 3 requests; a project with 2 tasks, an item, a milestone, 2 blockers, a co-assignment, 2 people, 2 requests | `CallsKept`, `ConnectionsKept`, `OneLineage`, `BoardKept` |
| `meetings` | 2 items, 2 jobs, 1 edit; 1 recording, 2 builds | `PublishedKept`, `ProcessingHasJob`, `OneNotePerMeeting` |
| `meetings_locked` | the tasklist alone | **violated** `LockedKept` |
| `office` | 3 users, 2 requests, 1 link; 3 tokens; 3 handlers of a build; 3 jobs of a document; 3 calls (1 private), 2 keys (1 unreadable); 2 rows of secrets | `RecordsKept`, `LibraryKept`, `AiKept`, `KeysKept` |

The properties of the last rows are conjunctions over the parts:
`CallsKept` is `OnePostUnlessOverlap` (a target gets one post of a call, of the
client it is stored under, unless two runs of the call overlapped) and
`UnsettledHasRun`; `ConnectionsKept` is `SecondActiveNeedsARace`,
`LocationsAgree` and `ReadsAreCurrent` (a shown test, business details and cached
records are of the present token and location); `BoardKept` is `DatesKept`,
`PeopleTold`, `NoOrphans`, `TallyAddsUp`; `RecordsKept` is `TeamKept` and `BuildKept`; `TeamKept` is `SuperuserLeft`,
`RemovedStays`, `PasswordsKept`, `SessionsKept`; `BuildKept` is `StatusIsChosen`,
`GoldOnce`, `UpdatesResolved`; `LibraryKept` is `IndexFollows`, `SummaryKept`;
`AiKept` is `SpendBounded`, `PrivateStays`; `KeysKept` is `OneKeyInUse`,
`SecretsKept`.

Much of this code locks no row, so these hold but for named overlaps. A history
variable records each one (`overlap`, `lost`, `raced`, `overwritten`, `crossed`,
`stale`, `late`, `unsynced`, `overtaken`, `died`, `missed`, `excused`, `untold`,
`paired`), and is set only by the interleaving its comment names: the property
says that nothing else, in whatever order and however often, leads astray. It
says nothing of the overlap itself, which the code does allow; section 4 lists
what each of them does, with the line of the repository that denies it where one
does. The two violated runs state such a line without an exception.

Some exceptions end. `paired` names the providers that two requests at once, or
an edit, may have left with two keys in use, until a key of that provider is
created or activated with no other such request beside it. `excused` is a row
whose date was lost between two saves or crossed by another's, until its next
save. `crowd`, which bounds what a day may spend beyond the cap, is the most
calls that were in progress at once, and says nothing of calls one after the
other. `untold` pairs
one person with one row.

Each passing run also checks its module's type invariant where it is the
module's main run.

Bounds and why they suffice. Every interference in these components is between
one long step of a worker and one other actor, or between two workers on one
row: two workers, two runs or two messages of a thread show it, and a third adds
no new pair. `MaxRevision`, `MaxEdits`, `MaxChanges` count changes made by people
and outside systems: two are needed for "change, then change again while the
first is being read"; investigations need three, since a request, a change and
a withdrawal each take one. `HardLimit = SweepAfter = 1` is the least clock in
which a worker may be killed before, and must be killed by, the sweep's cutoff.
Where a bound hides a case, the proofs do not: they hold for every value. The
one worker of `investigations` is for the sake of liveness; its safety
properties are proved for any number. Symmetry sets are used only in runs
without liveness. Deadlock is not checked: when every bound is reached and the
queue is empty the models stop, as does the system when nobody does anything.

`MCOnboarding` runs the board in scenes: in a behaviour requests save only the rows
of one `scene` (a task, an item, a milestone with a project blocker, a task's
blocker, or the project with a co-assignment), though they may delete any row,
and what a row belongs to is there or not from the start. A dashboard counts
beside one request. Rows of different kinds meet only in their parents and in who
may change them, so two requests on one kind, with deletions of all, show what two
on several do, and one that moves rows is all a count can be wrong about. The
proofs have no scenes.

`MCSlackIntake` runs `slack_routing` as `MCSpec`: either people change settings,
mappings and tasks and no message is old, or messages grow old and are purged
beside edits, deliveries and one worker at a time, within its lease. `slack_progress` has the changes,
the purge and a worker together, for one message; the proofs have them all.

In `office` the calls have a part of their own in which one key comes and goes,
and the keys another, with all that is done to them and no calls: a call reads
only whether a provider has a key. A build takes five of its seven statuses, as
the code treats the other two like one of these (`Alike`).

The other modules use each request, job or handler once, so their number bounds
the overlaps: two, three where a case needs a third (a test or an edit in hand
while a connection is removed and made again). None of them states liveness.

Fairness. Beat starts drains for ever: weak fairness of `Drain` and of each
next worker step. A worker may die anywhere, but not at the same instant in
every attempt: strong fairness of the claims (`StartRun`, `Claim`, `List`,
`Read`, `Take`, `Lease`) and of `Commit`, `SaveQueue`. Without it, a system
whose workers all die on start would refute every promise of progress. Clocks
advance: weak fairness of `Tick`, `LeaseLapses`, `StartedLongAgo`. Open
transactions end. Nothing is assumed of people, of Slack, or of GHL, and in
`Investigations` nothing of any particular worker.

## 4. What the runs found

* `chat_late_failure`: `process_run` saves `failed` over whatever the row
  holds. `ask()` has shown the proposal to its owner before its last `audit()`;
  if that raises, the run may meanwhile be approved and executing.
* `meetings_locked`: a re-sync of the tasklist selects items that are not locked
  and saves the text it has read later, so an edit that locks an item in between
  is overwritten, against the docstring.

Met while modelling, and built into the models and their properties:

* The purge clears interpretations of expired messages before it marks their
  events, and locks neither (`investigations.py:308-310`): a message routed in
  between keeps its interpretation for good, since later purges skip it, against
  `docs/client-context-implementation.md:32`. `InterpretationIsCurrent` excepts
  exactly these messages (`missed`).
* `_emit()` reads that an event was not sent, posts and then saves that it was
  (`onboarding/tasks.py:84-101`): two deliveries that overlap post twice, against
  its docstring (line 78), and are excepted (`overlap`).
* The active superusers are counted without a lock (`Auth/views.py:453`): two of
  them may remove each other, although line 451 is there to prevent it (`raced`).
* A reset link, "single-use" by `Auth/views.py:615`, is marked used after the
  password is saved (`639-642`) and may set a second one in between (`crossed`).
* A report that read an assigned build puts it back to work after it was delivered
  meanwhile (`builds/views.py:190`), against the docstring, and two deliveries at
  once make two gold references (line 206), against "idempotent per build"
  (`stale`).
* A summary that a person wrote while the model answered is replaced
  (`builds/tasks.py:125-142`), against "never clobbers human edits" in the
  docstring (line 110); `late` excepts it.
* Active chat jobs are counted under the lock of one conversation, and
  confirming counts nothing: posts to two conversations pass the limit
  (`ghl_chat/views.py:152`). The limit of 500 waiting investigations is counted
  under one client's lock in the same way (`investigations.py:84`).
* A message whose own task was given to somebody else inserts a second
  `SlackWorkItem` for the same category (`slack_intake.py:258`); the exception
  ends the drain, and the message is pending at the next one, and the next.
  `HandledUnlessConflicted` has exactly this case taken out.
* PATCH of a task writes task and meeting item in two transactions
  (`builds/views.py:734`); a request that ends between them leaves them apart.
* A client's edit saves the location that it read over one that was connected
  meanwhile, though connections are to manage it (`projects/models.py:15`).
* PUT and PATCH of a co-assignment put another person on the project, and an edit
  of a resolved blocker names another reporter; neither mails anybody
  (`projects/views.py:565-600`, `537-551`).
* A milestone or checklist item is created as it is sent, also with a date and not
  completed; only an update sets its date (`projects/views.py:623`, `963`).
* An edit of an API key may move it to another provider or turn it on, and leaves
  the keys there on; two creations at once do so too (`builds/views.py:1545`).
  The newest is used.
* Slack's late answer about an old token revokes the grant stored by then
  (`onboarding/slack_context.py:196`); the purge's last statement overwrites a
  refresh queued since its first (`investigations.py:315`), and `InvestigationsEnd`
  counts that as its end.
* A worker that dies leaves a call at processing (`onboarding/tasks.py:114`) and a
  tasklist at processing (`builds/tasks.py:274`), and what is delivered or asked
  again takes it for one at work.
* `chat_lifecycle` is without failures after a save because of
  `chat_late_failure`, while `chat_mutations` has them.

## 5. The proofs

TLAPS proves every invariant and every action property that a passing run checks,
as a theorem about the specification of that run, or the one it restricts, for
every value of the constants. The assumptions are the named ones on constants:

* bounds are numbers, and `None`, `NoOne`, ... are outside the sets whose values
  they are compared with;
* what is counted is finite: the visitors of `Sessions`, the calls of
  `AiGateway`, the cards of `Board`;
* `FanOut` names no target twice (`_fan_out` lists each once), the kinds of rows
  of the board are disjoint (they are different tables), and there is a provider;
* `KilledBeforeSwept`: Celery kills a chat worker (220 s) before the sweep gives
  its run up (300 s). `OneRun` and `FinalStays` need it, the theorems about
  mutations do not.

Two theorems of the chat have a hypothesis, and the run that checks their
properties is an instance of it: `~LateFailures` (`FailedChangedNothing`,
`FinalStays`), no exception after a status was saved. With one, both properties
are false, which `chat_late_failure` shows. The theorems about the board are of
`BoardSpec`, without the scenes of `MCOnboarding`, and those about the intake hold
with and without retention.

No property is inductive as it stands. For each module the inductive invariant
says, besides the types, what a process has in hand between two steps.

* `GhlChatProofs`. `AtMostOnceMutation`: a worker past its claim may send
  whatever it holds, so `IndInv` adds that claims are unique by fingerprint,
  that a worker between claim and call has the claim for what it holds and
  nothing was applied yet, that two of them never share a run, that what is held
  is what was approved and under the same revision, and that a planning worker's
  run is its own until given up. `LedgerImplemented` follows from the same
  invariant: `Approve` is the ledger's authorisation, a send that arrives its
  application, every other step a stutter. `OneRun` adds that a planner is alone
  with its run (`PlannerInv`) and that what `messages()` found under its lock
  still holds (`PostingInv`); `FinalStays` and `FailedChangedNothing` that one
  worker decides about a run, which is as it left it (`DecideInv`), and that a
  run with a claim neither fails nor is rejected (`OutcomeInv`). Both rest on
  `ClockInv`: a run is no older than the task of the worker that has it, so the
  sweep never meets a run in a worker's hands.
* `SlackIntakeProofs`. `InterpretationKept` and `OneNotification` need no lease:
  a commit compares the `source_revision` it has read, an interpretation is
  always of the present text (`InterpretationsInv`), and whoever was told of the
  present text was told by the routing that settled it (`NotesInv`), so a second
  worker finds the message settled. Of a message past its retention period the
  purge has cleared the interpretation, or the message was routed since the purge
  began, which `missed` records. `TriageReaches` is an action property: each
  category is routed to whom it names, over the newest usable task or a new one.
* `TaskCompletionProofs`: `TypeCorrect`, `VerdictCurrent`, `AnnouncedOnce`,
  `OwnAccount`. The argument is the task's revision: numbers in use have been
  issued (`RevisionsIssued`), a busy worker that still sees its revision has
  seen the present texts (`SeenIsCurrent`), and a revision that waits for a
  verdict has not been announced (`NoticeDue`). Steps are either requeues, which
  draw a new revision, or work, which keeps texts and revision. `OwnAccount` is
  an action property: only `Finish` makes a verdict, and it compares the
  connection first.
* `InvestigationsProofs`: `TypeCorrect`, `EvidenceCurrent`, `WithdrawnStaysAway`,
  `ReadyReviewed`, `EditedKept`. The steps are sorted into a few kinds (a source
  is withdrawn, a change outside, a request, a request or purge that ends, a
  worker that lets go, and the steps that collect or write), and `Inv` is shown
  for each kind. Evidence is right because it is read in order (`ReadInOrder`:
  scope first, local messages, then remote ones, none older than the one
  before) and published only if the scope read first is still the scope: then
  everything between was current too (`EvidenceInScope`). Nothing withdrawn
  returns because each withdrawal draws a new revision, which publishing and
  saving compare under the policy's lock.
* `MeetingsProofs`. `PublishedStays`: a job keeps its hands off locked items, an
  item is locked when it is selected for publication, and remains so
  (`SelectionLocked`, `PublishedLocked`). `ProcessingEnds`: one job writes
  (`OneWriter`), and each mark is of a job at work or dead (`Marked`). `OneNote`:
  the attachment creates the note and settles the meeting in one transaction.
* `OnboardingProofs`. `GrantLineage`: of the workers with an unbroken grant one
  presents a token, and the stored one is Slack's next unless an answer is on its
  way (`OneRefresher`, `NextToken`). `CallsArePosted`: unless runs overlapped, one
  is past the guard, the call's row is as it left it, and each post is of a target
  it has passed (`OneAtWork`, `RunOwnsRow`, `PostsOfRun`). `ConnectionsHold`: of
  the rows that are active or about to be saved active there is one unless two
  requests raced (`OneEachUnlessRaced`), and a revision fixes its location
  (`SameLocation`), so that whoever compares revisions compares locations.
  `OnboardingTypes` has the types of all machines of `MCOnboarding`, the board's by
  `BoardBeside`: in whatever scenes, the board does what `Board` says.
* `BoardProofs`. `BoardTypes` needs that a second save is of a kind of row that
  has the columns (`EditShape`). `BoardHolds`: of a row that is not excused one
  request at a time is still to save the date, by the status that the row has, and
  where none is the row agrees (`DateShape`); whom a row names, as it is or as a
  request still at work has read it, knows, was left out by name, or is about to
  be told (`ToldShape`: what a late save brings back was told before); no row is
  saved without its parent (`NoOrphans`, inductive as it is); what a dashboard has
  counted is what is there unless the board moved (`TallyShape`).
* `OfficeProofs`: one invariant per machine, and `OfficeInv`, their conjunction,
  kept because the others stand still. `TeamInv`: a removal in progress leaves a
  superuser besides the one it removes (`LastInv`; `Count` saw two, and no other
  removal is in progress unless `raced`), and a link that nothing crossed serves
  one request, which finds it unspent (`LinkInv`). `VisitInv`: the good tokens of
  different chains are different, and a request that refreshes holds a good one
  alone (`RefreshInv`); an account or a mail is made by a visitor who then ends,
  so there are at most as many (`AcceptInv`, `MailInv`). `WorkInv`: who is about to
  make a reference is alone, and there is none (`GoldInv`). `StoreInv`: one worker
  indexes, has read the present row unless another job waits, and has dropped the
  chunks before it adds any (`IndexInv`). `SpendInv`: what is logged, with what the calls in progress may yet add, is less
  than the cap and one answer for each of the most calls that were in progress at
  once: a call that begins saw less than the cap, and either raises that number or
  takes the room of one that ended. `KeyInv`: of a provider that is not `paired`
  one key is in use or about to be (`Taken`), also across edits that move keys
  between providers and saves of rows deleted meanwhile. `RotationInv`: what the command has passed is under the primary
  secret (`PassInv`), so the fallback goes when nothing needs it.

The history variables of section 3 appear in these invariants as they do in the
properties: each clause is guarded by the one race that breaks it, and the proofs
show that nothing else does.

Only model-checked: `EveryJobSettles`, `HandledUnlessConflicted`, `ChecksEnd` and
`InvestigationsEnd`, which are liveness properties: the prover has no rules for
fairness and `ENABLED`. The violated properties are, of course, not theorems.
No recursion is used, so nothing is left out for that reason.

## 6. Not modelled, and the plan

Not modelled, for good: A2P submissions, the front end, file uploads, rendering,
prompts and retrieval, the websocket consumer, and the local worker commands.
They have one row per request or no state, and their effects on the rest are
free choices here. Of the modelled components the following stays out: the
deadlock between `source_change` (channel's investigations, then policy) and a
publishing worker (policy, then investigation), since a transaction takes its
locks in one step; limits that need more than twenty channels or five hundred
rows; guides that overwrite a task's text; and who may send a request to a build.
`PROJECT.json` says for each component what is left out of it.

Next: liveness of the tasklist and of the call pipeline, under the fairness of a
queue that delivers again, and the drains' limits over several tasks and clients.
