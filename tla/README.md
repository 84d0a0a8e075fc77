# Chief Site Engineer: TLA+ models and proofs

Chief Site Engineer keeps a site engineer's memory. On the phone (Dart) it is a
SQLite database and a directory of attachments, with encrypted backups, and
reminders that become notifications of the platform. The desktop application
(Python) keeps follow-ups, routines and observations with their photos in a data
root of its own. The repository also holds the tools that drive its own
development: an orchestrator with approvals and a ledger, a resumable workflow,
and two workers that let a model edit a worktree and publish a draft pull request.

This directory models the parts of that code where steps of several actors,
process deaths, failed calls and late answers meet. Paths below are relative to
`src/`; `mobile/lib/application/` is written `application/` where the phone is
meant.

    phone
    RestoreRecovery         the swap of the data root, its journal, its recovery
    AtomicRestore           what a restore promises: old memory or new, whole
    DataRoot                who touches database and files, in which order
    ReminderNotifications   from reminders in the database to platform alarms

    desktop
    FollowUps               a follow-up item, its history and its commands
    Routines                a template and its occurrences (extends FollowUps)
    Observations            an observation and its posts (extends FollowUps)
    Desk                    windows, pages and transactions over these three
    RevisedRecords          what a record promises: revised, never lost or rewritten
    DeskFiles               uploads, backups and restorations of the data root

    tools
    WorkflowContract        an authorization, its parser, which one is in force
    WorkflowLedger          what the replay of a ledger accepts and gives
    Workflow                processes that run a workflow over store and target
    ActionPolicy            which move of a work the policy admits
    ActionResult            what counts as a success of a command
    ActionLedger            processes that execute plans over a ledger
    SingleExecution         what a ledger promises of an action: done once, told once
    Orchestrator            one piece of work over policy, ledger, repository
    BridgeTasks             issues, branches and pull requests the workers share
    CodexLoop, ApiBridge    the two kinds of workers
    Bridge                  both of them over one repository

    for TLC     MCRestoreRecovery, MCDataRoot, MCDesk, MCWorkflow, MCOrchestrator
    for TLAPS   RestoreRecovery_proofs, DataRoot_proofs, Desk_proofs, DeskFiles_proofs,
                Workflow_proofs, Orchestrator_proofs, Bridge_proofs,
                ReminderNotifications_proofs

`PROJECT.json` lists components, runs, the lines each definition models, the
hazards of the code with the properties that cover them, and a mutant (a
plausible bug) that breaks each property. Some mutants are defined in the modules
themselves, next to the definition they stand in for, and say so.


## 1. The system

### Components, their state and their operations

| component | state | operations | what makes it correct |
|---|---|---|---|
| restore recovery (`application/restore_recovery_application.dart`) | `restore_journal.json`, its `.next`, `temp_staging/rollback-*` | `begin`, `advance`, `completeValidated`, `rollbackToOld`, `recoverBeforeBootstrap` | the active pair is the old one or the new one; the only copy of the old pair is never deleted or forgotten; the application starts again |
| backup and restore (`application/mobile_backup_application.dart`) | `exports/backups`, `temp_staging/restore-*` | `createBackup`, `restoreBackup`, list, share, delete | a package is one consistent state and can be restored; nothing acknowledged is lost |
| operation coordinator (`core/mobile_operation_coordinator.dart`) | the tail of one promise chain | `run`, `runExclusive` | one operation at a time, in order, none lost |
| managed attachment store (`platform/managed_attachment_store.dart`) | `attachments/managed`, `temp_staging/*.part` | `stage`, `cleanup`, `read` | a row has its file, a failed call leaves none |
| incoming packages, catalogue, reconciliation (`platform/mobile_backup_gateway.dart`, `application/attachment_*`) | `incoming_backups` | pick, clean up, report | retention never takes a package in use |
| bootstrap (`bootstrap/app_bootstrap.dart`) | the wired services | recovery, open, first reconciliation | recovery precedes every open |
| agenda (`application/agenda_application.dart`) | logs, photos, projects, parties, reminders | about sixty commands, each a transaction with a revision | events number revisions; attachments match rows |
| reminder notifications (agenda and `platform/notification_gateway.dart`) | bindings, request queue, attempt registry, the platform's lists | request, drain, run, time limits | alarms agree with rows; what is bound as set is verified and stays true; nothing waits for ever |
| concrete pours (`application/concrete_application.dart`) | pours, checks, trucks, samples, linked reminders | life cycle, evidence | reminders follow the steps of the package |
| attendance, inventory, living plan, material requests, project information | rows with revisions, events, command receipts | commands with an expected revision | a repeated command acts once; a stale one is refused |
| schedule engine (`application/construction_schedule_date_engine.dart`, graph builder) | none (pure) | dates from a dependency graph | dates respect every dependency; cycles are refused |
| schema (`storage/app_database.dart`) | schema version 28 | open, migrate | every older version opens |
| desktop follow-ups, routines, observations (`app/application`, `app/field_tracking.py`, `app/persistence`) | one SQLite database, rows with revisions and append-only events | some thirty commands, one transaction each; pages that are drawn | histories number revisions in the order of the clock and tell the row; what is due is on its page; a day that was seen is not closed as missed |
| desktop attachments and backups (`app/storage/attachments.py`, `app/operations/backups.py`) | `attachments/staging`, the final files, archives | upload, backup, restoration into a new root, reconciliation | a row has its file; a leftover is told; a backup restores |
| workflow (`tools/cse_orchestrator/workflow*.py`) | `contract-v1.json`, a hash-chained `workflow-v1.jsonl`, a cached projection; a target worktree; comments on an issue | run, append, verify, emit evidence, reuse, publish | the log is never forked; a stage runs as often as its budget says; evidence appears once; completed means published |
| orchestrator (`tools/cse_orchestrator/observer.py`, `policy.py`, `actions.py`, `runner.py`, `ledger.py`, `results.py`) | approvals on an issue, the state of one work, a ledger per run | observe, admit, plan, execute, judge | no gate is left out; nothing starts twice; what passed was approved and succeeded |
| bridge and loop (`tools/cse_codex_loop.py`, `cse_api_bridge.py`, `cse_bridge_local.py`, `cse_bridge_poll.py`) | worktrees, a lock file; branches, pull requests and comments on GitHub | select, edit, validate, review, publish, answer, clean up | what is published was checked; a PASS is true; work is not lost; tasks are taken up |

### How they interact

Phone. Every service opens the database for one call inside `coordinator.run`;
backups and restores use `runExclusive`, which is the same tail. Bootstrap gives
the coordinator to most services, not to the inventory and the living plan. A
restore holds the tail and calls a notification reconciler that lives on an agenda
with a coordinator of its own. Commits of reminders announce themselves to a drain
in the same process, which runs outside the queue and enters it only to read rows
and to write bindings; the notification plugin is called in between, with time
limits, and what it does after a limit is recorded in a registry shared by all
runs. Pour packages and attendance write reminders too. A process death ends
everything at any point; the next start recovers a restore first and then asks for
a reconciliation.

Desktop. A threaded server opens one connection and one `BEGIN IMMEDIATE`
transaction for each request. Some services read the clock before their
transaction begins. The page of the day writes: it makes the occurrences that are
missing. An upload finalizes its file inside its transaction; a backup copies the
database through SQLite and reads the files afterwards.

Tools. All of them meet on GitHub: authorizations are comments of the owner,
evidence and answers are comments of the tools. The orchestrator observes the
issue and the repository, asks the policy for every move, and executes a plan over
the ledger of its run. The workflow is a second driver over a stricter ledger. The
locks of both ledgers are locks of threads, so two processes interleave. The loop
and the bridge have worktrees of their own and share issues and branches.

### What is hard

* the swap of two directories by four renames, with a death between any two calls,
  also in the recovery itself, and exceptions in the swap, in its undoing and in
  its cleanup;
* journals and lock files that are made by several calls;
* calls that are, by intent or by omission, not in the queue;
* a retry under an id that is taken;
* a run over rows that change under it, whose platform calls fail, hang or land late;
* an instant that is read before the transaction, or before the call, it is used in;
* check, append, check again over a file two processes write;
* a comment that was posted though its call failed, or lands later;
* an approval for a source that changes before the start, and a result that is
  judged later still.

`PROJECT.json` lists each of these at its line ("hazards"), with the property that
covers it or why none does.


## 2. The modules

### RestoreRecovery

One action is one file-system call, or one read-only check, of
`_activatePreparedRestore`, `_write`, `_restoreAvailableOldComponents`,
`_cleanupOperation`, `_clearJournal` and `recoverBeforeBootstrap`. `pc` is the call
about to be made, `mode` says whose code it is (the restore, its catch block, or
bootstrap), and `op`, `phase` are the journal entry in memory. The disk is
`activeDb`, `activeAtts`, `staged`, `rollback` (with its `failed_new`), `journal` and
`next`, and survives a `Crash`. A copy of a database or of a directory is the
generation it belongs to, or `Torn`, `Blank`, `NoFile`. `Coherent` is what
`validateActiveState` accepts. `before` is a history variable: the active pair when
an operation was asked for.

`Throw` follows the code's catch blocks: in the restore to `rollbackToOld`, from
`rollbackToOld` to a running application with the journal left behind, in bootstrap to
`BootstrapFailure` (`blocked`), except that a failed validation of the new pair
goes to the rollback. `TearNext` and `FillNext` split the one write of `.next`;
`DropRollback` deletes the entries of the rollback area one by one, in any order, a
directory being torn before it is gone.

Abstracted: contents of the files, the time stamps and the sequence of an entry (it
is phase.index + 1), symbolic-link checks. The deletion of the prepared directory is
one step since nothing reads it again.

### AtomicRestore

`memory` (the pair in use), `pending` (restores under way) and `open`. A restore
takes effect or is undone in one step, and the application is open only when none is
pending. `SwapIsAtomic` is the refinement: `memory` is the active pair, or the old
pair while a journal entry says that renames have begun.

### DataRoot

A job is one call: photos of a log (`attachAgendaPhotos`), evidence
(`attachEvidenceBatch`), an asset photo (`addOrReplaceAssetPhoto`), `createBackup` or
`restoreBackup`. `Path` gives the steps of each kind in the order of its code,
"queued" being the entry into its queue: first for evidence, backups and restores;
after staging for photos of a log; a queue of their own for asset photos. `at` is the
step of each job, `queue` the tickets of each coordinator. The data are the sets of
photos with a row and with a file (`active`, and `old` in the rollback area), `.part`
files in `temp`, the snapshot and manifest of each package. `conn` follows a
connection whose file a restore moves away: a commit then lands in the moved file, is
refused, or goes nowhere.

`stage()` is four steps, as it awaits between them: `Look` (is the id taken?), `Stage`
(write the `.part`), `Verify` (look again), `Finalize` (rename). Two calls of a log under
one id can both pass the first look, write over each other's `.part` and delete it again.
At most two are under way (`Twins`): the form has one call at a time and keeps the ids of
its photos for the next, the page of a log draws ids for each.

The photos of logs and assets are not, or not wholly, in the queue of backups and
restores, and the code can lose them there. The history `met` has the pairs of a backup or
a restore and such a call that was under way beside it. `Overtaken`, the photos of those
beside a restore, and `AddedBeside`, the asset photos added beside a backup, are
read off it; the properties except them by name and hold for everything else.

`Fail` is the catch block of each kind: what was staged is cleaned up, inside the
queue or (for photos of a log) after leaving it. The rollback of a restore is one
action here and the process does not die inside the swap, since RestoreRecovery has
both. The behaviours of one run are about one of several `Workloads`, the sets of
calls that can meet.

Abstracted: a call adds one photo, and nothing but photos is in the database.
Exceptions of `close()` are left out.

### ReminderNotifications

`item` and `binding` are the rows of a reminder and of its notification; `native` and
`shown` are the platform's pending list and what is on show; `attempts` is the
`NotificationPlatformAttemptRegistry`; `notice` is a commit whose caller has not yet
gone on to ask for a reconciliation; `pending` and `run` are the request that waits and
the run in flight, with what it read (`source`), the calls it still has to make
(`todo`) and the verdicts it will write (`updates`). `run.current` stands for the
generation and epoch the code compares: a commit that invalidates the source makes it
false. `run.older` and `run.refused` are history and outlive the run: whether a call of
an older run was in flight when it began, and whether the database refused it.

A run prompts if asked to, reads rows and bindings in one query, asks for permission
and pending list, then cancels strays, sets alarms (cancel, schedule, verify), frees
those beyond the capacity, clears closed reminders, and writes its verdicts in one
transaction, skipping rows that are no longer what it read. A call can succeed, fail,
run out of time (`Timeout`, after which the run fails the rest at once) and still
land later (`Answer`), join one in flight, or conflict with one. The three calls of an
alarm are one entry of `todo`, which a call that succeeds replaces by the next of the three
(`AfterCall`, `Rest`). The dialog of a prompt has no time limit (`Prompt` may never
happen), and the database may throw at the query or at the write (`Refuse`): the drain
catches only that a run was overtaken (`agenda_application.dart:4790`), so it ends, and a
request behind it waits until the next one joins it. `Crash` lets any
call in flight land or not. `Tick` and `Land` are the platform, modelled from how
`notification_gateway.dart` uses the plugin (external).

Simplified: one-time reminders with a time, on Android; permission and pending list
are one step; the time budget of a run ends at a call's time limit; the query reads
the list when it answers; a run asks the platform also when it read no row; the
engineer does not swipe notifications away; one commit at a time waits to be announced. `disturbed` is a history variable: the last
run met a failure, a time limit or an older call.

### FollowUps, Routines, Observations and Desk

A record is the pair `[item, history]` that one transaction reads and writes. Each
command of `app/application/field_tracking.py`, `routines.py` and `observations.py`
is an operator that takes the record, the revision the caller's page showed and the
instant of the clock, and returns the record it leaves and its answer; refusals
(the constructor's rules, the CHECKs of the table, a revision that is behind) return
the record unchanged. `Routines` has which days a template is due and
`EnsureOccurrences`, the pass that makes the missing occurrences of a window and
closes past ones as missed. `InView` and `OccurrenceInView` are the lists of the pages
(`app/field_tracking.py:666-749`).

`Desk` is the server. A transaction is one step, because `unit_of_work.py` opens it
with `BEGIN IMMEDIATE` and rolls back on any exception. A request that reads something
first is two: the posts of an observation read the clock and then commit
(`Post`, `CommitObservation`), the page of the day reads its instant and is drawn later
(`OpenToday`, `DrawToday`); in between the clock moves and others commit. `seen` is a
history variable: the days whose page was drawn while they lasted, with the template
due. `scope` says which pages a behaviour is about, so that unrelated records are not
multiplied.

Abstracted: titles and notes, except one text of an observation; months have thirty
days; local time is the division of an instant by `PerDay`.

### RevisedRecords

An abstract specification of a kind of record, without pages, clocks or commands. A record
has a row, a log, a mark that it is sealed and something it is tied to. It may be made
where there was none (`Make`, several at once, as the page of the day does) or be revised
(`Revise`): one line more in the log, the tie kept, and not when it is sealed. `Desk`
instantiates it four times. An archived observation and an inactive template are sealed;
an item is tied to its observation and the project, once it has one, an observation to its
project and the time it was made, an occurrence to the instant it was due.
`RecordsAreRevised` is the conjunction of the four specifications, and of `TiesAgree`: what
an item is tied to is there and has its project.

### DeskFiles

An upload stands for one observation with one photo and goes through `StageStream`,
`InsertRows`, `Finalize`, `Commit` and the catch blocks of
`app/application/observations.py:180-240`. A backup copies the rows and then reads the files
one by one; `archive` is published when its own verification passes. A restoration
extracts into a directory of its own, verifies, and renames it to `target`, which may
be there already. Every step may fail, the process may die (`Crash`), and the disk may
damage a staging file, a final file or the archive (`Damage`, external). `Reconciled`
is what `reconcile_attachments` accepts, `Orphans` what it names as having no row.

### WorkflowContract, WorkflowLedger and Workflow

`WorkflowContract` is the parser of the authorization comments
(`workflow_authorization.py`) and `Select`, the one in force at a time.
`WorkflowLedger` is `project_workflow_events`: `Accepts` has a disjunct and `After` a
branch for each event; a ledger is modelled by its replay, and by `sound`, whether its
chain verifies. `Workflow` is `WorkflowCoordinator.run` over `WorkflowStore`: an append
is read, write and cache (`AppendRead`, `AppendWrite`, `AppendCache`), an emission of
evidence is check, look, post and record. A process holds nothing between two runs. The
`Act...` operators are `DefaultStageExecutor`: a call that fails may have done its work.
`Die`, `AppendTorn`, `LoseComment` and `Drift` are the faults, `CommentLands` a comment
whose call was given up. `executed`, `lost`, `overlapped` and `touched` are history.

### ActionPolicy, ActionResult, ActionLedger and Orchestrator

`ActionPolicy` is `policy.py`, a pure function of a request: documented successors, the
gates a move skips and what becomes of them, the authorization, the budget. `ActionResult`
is `results.py`: what a family of commands takes for a success. `ActionLedger` is
`runner.execute` over `RuntimeLedger`: `Verify`, `Write`, `Reverify`, `Command`,
`Verify`... for the admission and again for the result, by processes that share the file
and not a lock; `Write` may leave a torn line when the process dies. `Orchestrator`
composes them with the owner's approvals (`observer.py`), the repository and a host. The
host is outside `src/`: it records what it was told, never names a resume state it has
not reached, offers as evidence only gates that ran, and otherwise asks for whatever it
likes; the policy says what it gets.

Abstracted: a hash chain is its sequence numbers; the fingerprint of the source is the
commit and whether the file differs, as in `observer.py`; the repository is one file.

### SingleExecution

What that is for, without files, admissions or an order of verification and write: a
work is claimed by one process at a time, begun at most once, and answered by one result
that stands; a death may leave it without one. `ActionsRunOnce` is the refinement:
`claimed` are the processes between the second verification and the end of the command,
`begun` the commands started, `answers` the result lines of all files. That no process is
about to start what was started before, `NothingStartsTwice`, follows from it.

### BridgeTasks, CodexLoop, ApiBridge and Bridge

`BridgeTasks` is what GitHub shows: the newest approval or start on an issue, final
answers, branch, pull request. `CodexLoop` and `ApiBridge` have one operator for each
call of an invocation, in the order of `cse_codex_loop.py` and `cse_bridge_local.py` with
`cse_api_bridge.py`. Every call may fail, and a call to GitHub that fails may have been
carried out, a comment, a push and a pull request alike; a worker may die anywhere.
`ApiBridge` has the lock file, which is empty between its creation and the write of the
process number. The number goes into the file the worker made, also when another worker has
removed that file by then; on Windows a file that somebody has open is not removed. A
worktree is `base`, changed `inside` the allowed paths, or `outside` as well.


## 3. The runs

Passing runs:

| run | question | bounds |
|---|---|---|
| `restore_crashes` | does the pair stay whole, with the journal over it, whatever dies when, and does the application come back? Is the restore atomic (the refinement of `AtomicRestore`)? | 2 restores, 3 deaths at any call of restore, catch block and recovery, 2 exceptions from the first journal write to the last check, or at the start after a death |
| `restore_failed_rollback` | when the rollback throws too and the application runs on, is a complete generation still where recovery looks? | 2 restores, 2 deaths, 2 exceptions in swap and catch block |
| `dataroot` | rows with files, packages that restore, nothing acknowledged lost, nothing left by a failed call, every call answered | six workloads: evidence, its retry under the same id, a backup and a restore; photos of a log tapped twice beside a backup, or beside a restore; a log photo, evidence and a restore; an asset photo, a backup and a restore; photos of a log and an asset photo. 3 photos, 1 exception at any step, 1 death |
| `notify_runs` | do alarms and bindings agree once a run met no failure; is what a binding says of an alarm verified, and true after a run that met failures too; does every run end and leave no request behind it? | 2 reminders, one of a pour package, room for 1 alarm, 3 commits or deaths (1 death), times 0..2, a permission that is granted, denied or fails; calls that fail, hang or land late, a prompt left open and a database that refuses, at any time |
| `desk` | do histories number and tell their records, is a record only ever revised (the refinement of `RevisedRecords`), do items agree with their observations, are seen days never missed, is due work on its page? | a follow-up with an observation, an observation edited from two windows, or a template with its occurrences; instants 0..3 over two days; 3 revisions of a record, 6 of a template with its occurrences; three plans (daily with an end, weekly, refused) |
| `desk_files` | do rows have their files, are leftovers told, do backups restore? | 2 uploads, a backup, 2 restorations into one target, any step failing, 1 death, 2 damaged files |
| `workflow_runs` | budgets, retries, evidence comments, what completed means; does every run end? | 3 runs of one process over the six kinds of stages, 1 fault: a death at any step, a torn line, a comment that lands late, a touched target or artifact |
| `workflow_races` | can two processes act at once, act uncounted, or act again on what passed? | 2 processes, 2 runs, a stage with evidence to reuse and one on the device that may be tried again, authorizations that expire |
| `orchestrator` | is an action carried out and answered at most once under a run (the refinement of `SingleExecution`), is a gate left out, does anything pass unearned? | 2 processes, 3 observations, 3 approvals, 2 versions of the file, 1 death or overlap, a budget of one start of each kind, validation, build and device not required |
| `bridge` | is what is published checked, a PASS true, no work lost, every handed task taken up? | 2 tasks, a loop and a bridge, 2 approvals, 1 call that fails (perhaps only its reply) or worker that dies |

Why the bounds are enough. A second restore is the only way to meet what the first
left behind, and a third meets nothing new; three deaths allow one in the swap, one in
the recovery and one in the recovery of that. Two calls over one photo make every
collision of ids that the forms allow, a third party and a backup every overtaking in a queue. Two
reminders make the order by time and the capacity matter; three commits allow create,
edit and undo around one run, or one commit overtaking each of two runs. Two windows
make every stale form and every late clock; two days have one midnight, which is what
the page of the day can be late for. Two uploads are one that a backup copied and one
it did not, or one committed and one under way; two restorations race for the target.
Three runs of a workflow are one that fails, one that takes up what it left and one
that finds it done. Two processes are every race for one ledger, since a third finds
the chain as the second does. Three approvals take one work through a change, a commit
and one more action, with waivers for the rest, so that each kind of gate is reached
in some behaviour and none in all. Two tasks are one that is selected and one that
waits. Each property is broken, within the same bounds, by its mutant.

Exceptions are bounded by place as well. `restore_crashes` has them where the catch
block of `_activatePreparedRestore` is meant to deal with them, and in the recovery at
start; exceptions of the undoing are the subject of `restore_failed_rollback`, those of
the cleanup are in section 6. `RestoreSettles` names the two states in which a start is
refused for ever: the first entry of a journal was torn, or recovery asks for both halves
of the old pair and one is no longer in the rollback area, because a death fell between
the two that are put back, or because cleanup had begun and the check of the new pair
threw at start. `BudgetsHold` and `EvidenceOnce` say of the comments what two runs at once
(`overlapped`) and calls that were given up (`lost`) can add; `CompletedIsPublished`
holds unless the target was touched between the look before a stage and the one after
(`touched`), which the code cannot tell from the work of the stage.

Deadlock is not checked (`CHECK_DEADLOCK FALSE`): with the bounds used up the systems
rest.

Runs that end in a violation, each of something the repository says of itself:

| run | what it shows |
|---|---|
| `restore_first_journal` | `docs/191:50` says the journal is written atomically. The first entry has no older slot: a death while `.next` is written leaves an unreadable journal, and every later start is refused over untouched data. |
| `bridge_lock` | `docs/314:81-82` says that a lock left by a dead process is recovered automatically. The file is created before the number of the process is written into it; a worker that dies in between leaves a file without a number, and every later worker is refused. |


## 4. Fairness

`restore_crashes` assumes weak fairness of `Step` (a process that lives runs on) and
of `Restart` (an engineer whose application is blocked starts it again;
`BootstrapFailure` offers nothing else). Nothing obliges a restore, an exception or
a death; those are bounded.

`dataroot` assumes weak fairness of each call's steps: Dart's event loop
runs every continuation that is ready, and file-system and SQLite calls return. Waiting
for the head of a queue is in the guard of `Begin`, so fairness assumes nothing about
the queue. No fairness is assumed of asking, of throwing or of dying.

`notify_runs` assumes weak fairness of `Drain`, the steps that the process of a run
takes: queries and transactions return or throw (`Refuse` is one of the steps), and a
platform call has a time limit (`awaitPlatform`). It is one fairness of their
disjunction: a process that lives goes on. Not fair are the platform, which may never answer, the engineer
before the dialog of the permission, which has no limit
(`runWithoutNotificationExecution`), and whoever would ask for a reconciliation.
`RequestsMoveOn` therefore lets a request wait behind an open dialog, and one that was left
by a run the database refused. It says that the drain comes to rest again and again, which
needs the commits to stop for a while, as they do at their bound. The other properties of
the run need no fairness.

`workflow_runs` assumes weak fairness of each process's `Step`, for `RunsEnd`: every
external call of the executor and of `gh` has a time limit. Nobody has to start a run.

`bridge` and `bridge_lock` assume weak fairness of `LoopRuns` and `BridgeRuns` for each
worker: a scheduler starts workers again and again
(`docs/314_minimal_chatgpt_openai_api_bridge.md`), and their calls have time limits. The
owner's approvals and the failures are not fair.


## 5. The proofs

### RestoreRecovery

`RestoreRecovery_proofs` proves, for any set of operations and any `MaxCrashes` and
`MaxFaults`:

* `TypeCorrect`: `Spec => []TypeOK`;
* `SwapIsJournaled`: `Spec => []JournalCoversSwap`: a half of the old pair in a
  rollback area is always named by a readable journal slot;
* `Inductive`: `Spec => []IInv`, on which `SwapIsJournaled` rests.

`TypeCorrect` holds wherever exceptions fall. The other two assume
`FaultSites \subseteq ForwardSites`: exceptions fall before and during the swap and
in bootstrap, not in the catch block or in cleanup; deaths fall anywhere. The
assumptions on the constants are those of the module: the special values are
distinct, the validators accept whole generations and nothing with a missing or torn
half (`CoherentPairs`).

`JournalCoversSwap` is not inductive: that the old journal may be deleted depends on
`.next` holding the entry, that the journal may be cleared on the rollback area being
empty, and that the area is empty on what the undoing finds. `IInv` adds

* `PhaseByPlace`: which phase and which mode go with each call;
* `JournalInStep`: what the two slots hold at each call of `_write` and between two of
  them;
* `OneOperation`: only the operation in hand has anything of the old pair in its area;
* `NothingMoved`: at rest, before the first entry and once the journal may go, nothing is
  moved;
* `OldPairTracked`: where each half of the old pair is at each call of the swap and of
  its undoing, from which `UndoSucceeds` concludes that `rollbackToOld` never has to
  refuse. Without it a run could end with the pair moved and a next restore could
  overwrite its journal.

There is one lemma for each conjunct (`StepPhase`, `StepJournalInStep`, ...), with one
step per action.

### What the disk holds

The second part of `RestoreRecovery_proofs` goes on from `IInv` to three more properties
that the run `restore_crashes` checks on two restores:

* `ServedIsWhole`: `Spec => []ServesWholeGeneration`;
* `OldPairGoesLast`: `Spec => OldPairDeletedLast`;
* `RestoreIsAtomic`: `Spec => SwapIsAtomic`, the refinement of `AtomicRestore`.

They assume `OnlyWholePairs` (what validates is one generation, or the empty pair) and
`FaultSites \subseteq ForwardSites`, as `SwapIsJournaled` does: exceptions fall before and
during the swap and in the recovery at start. Deaths fall anywhere and without bound. The
invariant `DInv` adds to `IInv`

* `SlotsAgree`: when both slots can be read, `.next` is the entry after the journal, of
  the same operation; a journal left by a failed start names a phase in which nothing was
  moved;
* `BeforeKnown`: behind every entry there was a whole generation, not that of the entry;
* `DiskSafe`: behind `Top`, the entry recovery goes by, each half of the old pair is in
  the rollback area with at most the new half in its place, or is in its place; or the
  phase is at least `new_state_activated` and the new pair is active; or, in such a phase,
  the old database goes back with a torn attachments directory (`HalfTorn`). The last is
  what an exception of the check of an activated pair leaves when cleanup had begun: it
  never validates, so it is never served. Without an entry the active pair is whole.
  `DiskSafe` holds whatever the process is doing, so it is what a death at any call leaves;
* `StagedKept`, `ActiveAt`: what the process knows at each call of the swap, the undoing
  and the recovery, from which the next disk follows.

For the refinement `StepIsAbstract` shows of every call that the set of operations that
are on their way stays, begins (`MoveOldDb` commits) or ends (the last rename of the undoing
in phase `prepared`, or the deletion of a journal slot), with the memory of the engineer
being the old pair in between (`AbstractSteps`).

`GenerationSurvives` proves `AGenerationSurvives`, the property of
`restore_failed_rollback`, and has an invariant of its own, since the application runs on
after an undoing that threw: the next restore is asked for, or recovery starts, over a
journal and a rollback area that were left behind. It assumes `OnlyWholePairs` and
`FaultSites \subseteq CatchSites`: exceptions fall in the first write of the journal, in the
swap and in its undoing. The invariant `KInv` has

* `Journals`: whose entries the two slots hold at each call. Entries of two operations may
  be there at once; recovery then refuses, and touches neither;
* `Halves`: where the halves of both pairs are at each call;
* `Survives`: behind each readable entry the old pair is `Kept`: each half is in the
  rollback area or, when it is not, in its place, and past the activation the database is
  put back first, so that the new attachments stay until it is. Or cleanup has begun: then
  one of the two pairs is active (`Chosen`) and an entry that can be read names a phase
  from `new_state_activated` on (`Activated`).

`CatchSites` cannot be larger: TLC finds a state without either generation when an
exception of the cleanup, or one at start after cleanup began, is added.

### DataRoot

`DataRoot_proofs` proves `RowsKeepFiles`, `AcknowledgedAlwaysKept`,
`PackagesAlwaysRestorable` and `CleanAtRest`, four properties of the run `dataroot`, and
`TypeCorrect`: for any number of calls and photos, any calls beside any others, exceptions
and process deaths without bound. They assume `CloseReturns`: no `close()` throws (after a
commit it would break `RowsHaveFiles`; section 6). What the code does not keep is excepted
in the properties themselves, no more than that: the photos of logs and assets that were
being added while a restore ran (`Overtaken`), and in the manifest of a backup the asset
photos that were being added while it ran (`AddedBeside`). Each exception is needed: with
it dropped TLC finds a log photo whose file goes to one generation and its row to the
other, and an asset photo that commits between two reads. `PackagesAlwaysRestorable` says
that such a photo is all a manifest can lack.

The inductive invariant `Inv` is `IInv(X, B)` with the photos `X` of the calls that were
overtaken and, for each backup, the photos `B` added beside it. A step keeps it for the
sets before the step (`DataStep`, `StageStep`), and what holds but for some photos holds but
for more (`MoreMet`). Its parts:

* `PathInv`: a call is at a step of its path; one that is past "queued" is the head of its
  queue. `MeetInv`: who is under way beside a restore or a backup is in the history. It
  follows that no call outside `X` moves while a restore is between its renames (`CalmAt`);
* `TwoInv`, `StageInv`: two calls of a log share an id at most, and a rename that can
  still succeed, or could once a `.part` is written again, finds its name free. This is
  what the second look is for: of two calls that passed the first, one reaches the rename
  with a `.part`, the other is refused;
* `DataInv`: a file without a row belongs to exactly one call, which has still to commit or
  to clean up (`OwnInv`); what a rollback would leave in place is whole at every moment
  (`KeptInv`, `SwapInv`), and what is activated is what was prepared; a package has its
  rows and its manifest from one state (`PackInv`); the safety package of a restore has the
  rows the swap moves aside (`AckInv`); a file that is left over still has its call
  (`LeftInv`).

`OwnInv` is why a clean-up is safe: a second call under the same id finds the name taken
and never becomes an owner, so nobody deletes a file another call has committed.

`SnapshotsAtTheirTurn` proves `SnapshotAtItsTurn`, which speaks of the order in which calls
entered the shared queue, under the same assumption, as long as no restore was asked for. It
takes two more invariants:

* `TurnInv`: the queue is the end of the history of entries. The calls before the queue's
  head are over, the head runs, those behind it wait (`PlaceAt`), and no call enters twice;
* `SnapInv`: while no restore was asked for, a snapshot has the photos of the calls that
  entered before it and came back, and none of a call behind it (`SnapAt`): rows are
  only added, and a call commits only at the head.

### ReminderNotifications

`ReminderNotifications_proofs` proves `AlarmsAreThoseOfTheRows` (`AlarmsAgree`),
`SetIsVerified` (`SetMeansVerified`), `SetIsHeld` (`SetMeansHeld`),
`NoChangeIsLost` and `TypeCorrect`: for any number of reminders, any capacity of the
platform, any number of commits and deaths, calls that fail, hang or land late, and a
database that throws, at any moment. Nothing is assumed but what the module says of its constants: ids are numbers, the reminders are
finitely many, the platform has room for one alarm at least.

The alarms are right only when a run is over, and nothing says so while it is on its way.
The invariant `Inv` adds to the type invariant what is right meanwhile:

* `AimInv`: while a run has met nothing amiss, each alarm of the platform is wanted or is
  about to be removed, and each reminder that is wanted has its calls to come, or was
  looked for and found set. Once the list is empty nothing is left to come, and what the
  run writes is true of the platform; `RestInv` says it of the rows from then on;
* `QuietInv`: such a run has no call in flight but the one it waits for, so no older call
  can land on what it did;
* `ReadInv`: the rows are those the run read unless a request waits or the notice of a
  commit does. It is why a run that is not overtaken has not read too early;
* `ListInv`: a reminder has one job and perhaps the removal of a stray before it
  (`Ordered`); "scheduled" is among the verdicts only where the alarm was looked for and
  was there, or has fired since (`Settled`, `Held`), or where the binding said so before
  and a call of an older run was in flight when this one began (`Recalled`). A call
  that is given up and lands later cannot undo this: nothing is verified while one of
  the same reminder is in flight;
* `FreshInv`: a run that began with no call in flight has none until it makes one;
* `CallInv`, `TimeInv`, `RowsInv`: the call that is waited for is that of the first job,
  alarms are of the future, an open reminder has a row.

Two lemmas about what the proofs compute with carry most of the weight. `FullOfEarlier`
counts: a reminder without a place finds as many before it in the order of the query as
the platform has room for, which is the excuse `AlarmsAgree` asks for. `Ordered` says how
the list of jobs shrinks, and that the first job is the only one of its reminder once
strays are gone. TLC checked `Inv` on the instance of `notify_runs` before it was proved.

`SetIsHeld` is about runs that met failures, of which `AimInv` says nothing. It rests on
two more invariants: `ToldInv`, a run has written or will write its verdict on every
alarm it wants, whichever call fails or is given up (`CallTells`); and `HeldInv`, behind
a run that the database took no call is in flight to an alarm that is bound as set
(`WriteHolds`). So neither a failed alarm is left bound as set by an older verdict, nor
can a call that was given up take one away. `NoChangeIsLost` needs `Followed`: a request
waits behind a run, or the database refused the one before it.

### ActionLedger and Orchestrator

The first part of `Orchestrator_proofs` proves `NothingIsStartedTwice`,
`LedgerSpec => []NothingStartsTwice`: for any number of processes, runs and deaths, no
process is about to start a command that was started under its run, although nothing but
two verifications of the file stands between two processes. `LedgerSpec` lets a process
execute any plan at any time, which is more than the orchestrator does. The inductive
invariant is the type invariant and

* `HoldersOwn`: a process that verified its admission behind the write (`reverify` to
  `command`) has its line in the file, at the place it remembers;
* `HoldersDiffer`: two processes that wrote an admission own different lines;
* `CommandsAreFirst`: the line of a process that is about to start is the first
  admission of its action, since the file was verified after the write;
* `StartedIsSpent`: for a command that was started, the first admission of its action is
  in the file and belongs to nobody who has still to start it.

So two processes about to start one plan would own one line, and one that comes after a
start would own a spent one. `AppendKeeps` is why appends do not disturb this: a first
line stays first.

`ActionsAreRunOnce` says the same and more as a refinement of `SingleExecution`: also
the result of an action is recorded once, by the one process that carried it out. The
invariant `ExecInv` adds to the above that a process owns its line until its result is
recorded (`OwnersDiffer`, `RecordersAreFirst`), that a result was recorded by the owner
of a first admission, which nobody owns since (`ResultsAreSpent`), and that a success in
hand was started (`SuccessWasStarted`). A process that verified its admission a second
time is then alone with its work (`OwnersAreAlone`), which is what the abstract `Claim`
and `Answer` ask for; there is one lemma for each action of a process (`ReverifyRefines`
is the claim, `CommandRefines` the start, `WriteRefines` the answer; a death in the
command gives the claim up, every other step is none).

The second part proves `OrchestratorRunsLedgers`, `Spec => LedgerSpec`: the
orchestrator with its owner, host, policy and repository takes steps of `ActionLedger`
or leaves its variables alone. `NoWorkStartsTwice` follows: the property the run
`orchestrator` checks with two processes holds for every number of them. So does
`WorkIsRunOnce`, the two refinements one after the other.

The third proves the other two properties of that run, about the work itself, for every
number of processes, observations and deaths, every budget and every choice of the
host: `GatesAreInOrder` and `PassesWereEarned`. There is one host and one piece of work;
its branch, task and policy do not change under it, and the host names only resume states
it has reached (`resume`). The invariant `WorkInv` has two halves:

* `GatesBehind`: the gates that are behind each state (`Behind`, read off the policy) are
  settled; a work that waits or runs has them from the state it will resume in, and the
  plan in hand is the one that starts from there. AWAITING_APPROVAL does not say which gate
  it was entered from, so this is the part that is not in the state's name;
* `OnePlan`, `PlanApproved`, `ResultIsTold`, `PassesApproved`: every process that is under
  way works on the plan of the work, which a comment approved by name on its source; a
  good result in hand is a line of its ledger; and a gate that passed has such a line
  (`Earned`). Comments are only added or expire, lines are only added, so neither is
  lost. `ResultsWritten` says of a process what it has still to write.

### Bridge

`Bridge_proofs` proves `PublishedIsChecked`, `PassIsPublished` and `WorkIsKept`, which
are the properties `PublishedWasChecked`, `PassMeansPublished` and `NoWorkIsLost` of the
run `bridge`: for any number of loops, bridges and tasks, any number of approvals, and
calls that fail and workers that die without bound. It assumes that no worker is both a
loop and a bridge and that the special value is not a branch (`WorkersAssumption`).

A worker reads origin at some steps and relies on it at later ones, while others go on.
The inductive invariant `IInv` is the type invariant and

* `HaveTasks`: a worker that is under way has a task;
* `LoopKnows`, `BridgeKnows`: what a place in the program means. Before the push the
  validations (and the review) have passed over the last change by a model; from the push
  to the answer the branch holds what the worktree holds, under this worker; with a PASS
  in hand the pull request is open; a bridge removes a worktree only unused or pushed;
* the two properties themselves.

`Grows` (a branch is never replaced, a pull request never closed by a worker) is why a
worker that waits still knows what it knew (`WaitingKnows`). It rests on `PushAdds`: an
unforced push makes one branch and replaces none. `LoopRunsOn` and `BridgeRunsOn` go
through the actions. The lock file plays no part: the proofs hold with any number of
bridges inside it.

### DeskFiles

`DeskFiles_proofs` proves `RowsAlwaysHaveFiles`, `LeftoversAreNamed` and
`BackupsAlwaysRestore`: the three properties of the run `desk_files`, for any number of
uploads, restorations, deaths and damaged files. Nothing is assumed but that the special
value is none of the others. The inductive invariant `FilesInv` has two parts:

* `UploadInv`: where a request stands and what it answered fix what its two files hold
  (`Stands`). `OwnStep` shows it for the request that steps, `OthersUntouched` for the
  others; in particular an answer "saved" comes with the row and the final file;
* `CopiesInv`: a backup names committed rows only, and once written its files are those of
  the rows, whole where the disk has not damaged the final file; a published archive that
  was not damaged is reconciled; a restoration that is past its last check holds a
  reconciled directory.

The write transaction plays no part in either: the argument needs the order of rename and
commit, and that a row is only ever added.

### Desk

`Desk_proofs` proves the five properties of the run `desk`, for any number of records,
windows and days: `HistoriesStayInOrder` (`HistoryInOrder`), `HistoriesTellItems`
(`HistoryTellsItem`), `SeenDaysKeepTheirEntry` (`SeenDaysAreNotMissed`), `DueWorkIsListed`
(`DueWorkIsShown`) and `RecordsAreOnlyRevised` (`RecordsAreRevised`), the refinement of
`RevisedRecords` with `TiesStayTrue` (`TiesAgree`), which it contains; and `TypeCorrect`.
Nothing is assumed but that days have instants and that the special value is not a record. `IInv` is the type invariant and

* `ItemsSound`, `ObservationsDated`, `TemplatesKept`, `EntriesInTime`: each record's events
  number its revisions, in the order of the clock and not ahead of it; the history of an
  item tells it; an open occurrence was not closed, and none was called missed before its
  day was over;
* `PostsInTime`: a post that has read its clock and waits still finds a record no older
  than its page showed; if nothing was recorded since, its instant is not behind the last
  event. This is what lets a late post in without putting the history out of order;
* `SeenIsKept`: a day that was shown has its entry, and that is not missed.

`HistoryTellsItem` is stated without replaying: for every field, the last event that tells
it (`Tells`) tells its value (`Leaves`). That is the same as a replay and can be reasoned
about by appending one event (`Revises`). One lemma for each command says what it makes of
one record whatever the caller showed; the steps then only place it among the others.

For the refinement each command is taken once more, for what it leaves as it was
(`Follows`, `Holds`, `Renews`, `Remains`), and `StepMoves` shows that a step moves one record
in such a way, makes entries where there were none, or touches no record. Two invariants
carry it beside `IInv`: `Begun`, that a record there is has a line of history, which tells
a revision from a creation; and `TiesAgree`. The latter needs both sides: a command that
ties takes the project its transaction reads and `SetProject` refuses an item that is tied
(`Ties`), and a post leaves the project of its observation alone (`Stays`), also one that
read its page before the tie was made.

### Workflow

`Workflow_proofs` proves `OneActsAtATime`, `EveryAttemptCounts` and `StagesInTurn`: the
three properties the run `workflow_races` checks with two processes, for any contract, any
number of processes and runs, and deaths, torn lines and drift without bound. The lock of
the store is one of threads, so nothing keeps processes from interleaving their appends.
The argument is in the inductive invariant `IInv`:

* `WriteAccepted`: an event that is about to be written was accepted behind the events its
  writer has read, so it still fits when no line came between;
* `LinesDiffer`: while the chain verifies, two processes that wrote a line wrote different
  ones. So at most one process will find that its admission is the last word (`Claims`);
* `HeldIsClosed`: while a process is in an action, or has its result still to write
  (`Holding`), the stage is open in the ledger, which then accepts no second admission and
  no evidence in place of a result, or the workflow is stopped for good (`AfterHeld`);
* `ClaimIsFree`, `OneHolder`: who claims finds nobody holding; so one holds at most;
* `AdmittedToAct`: the stage of a process that acts is the one whose turn it is, and the
  ledger counts one attempt more than were carried out.

Most steps of a run touch none of this: `CoordinatorQuiet` shows it once for the twenty-two
of them.

The five properties of `workflow_runs` follow, with no bound on runs, processes or faults.
`BudgetsAreKept`, `RetriesAreBounded`, `EvidenceIsToldOnce` and `WhatIsRecordedIsShown` rest
on `CountInv`, which counts what is spent and what is told:

* `RoomToAct`: an admission that is still to be written and can still be accepted finds
  the budget it was checked for; what was spent since was spent on its own stage, and took
  its attempt;
* `AttemptsLeft`: a stage whose turn it is, or that is still to come, has an attempt left;
* `CommentsAccounted`, `NotYetTold`, `ShownFirst`: a comment of a run that is alone is on
  the issue once, and once more for each call that was given up; one about to be sent was
  not found there; one that is recorded was seen;
* `RoomToTell`: two runs at once may both have seen room for a comment, which is the one
  exception (`overlapped`) that `BudgetsHold` makes.

`CompletedWorkIsPublished` rests on `PublishInv`: what the ledger says was published is on
origin and is the work in the target (`PublishedIsThere`, `OwnWork`), and a process in an
action knows the target it was admitted on (`KnowsTarget`). It assumes `CommitsFirst`: the
commit stages of the contract come before its push stages. The parser does not ask for
that, and a contract that pushes first completes with work on origin that is not its own
commit.

Three statements were made exact by the proofs. `RetriesBounded` speaks of stages whose
failures cannot pause: a pause leaves the attempt open for another, also for the missing
artifact of a resumable verification (`workflow.py:442`). A stale observation of the
target may be appended at any time. And what a run overlapping with others or a target
touched in between does to comments and commits is let off, as in section 3.

### What is only model-checked

Every other safety property and every action property of a passing run is stated by one of
the theorems above. TLC alone checks

* the liveness properties `RestoreSettles`, `EveryCallAnswered`, `RequestsMoveOn`, `RunsEnd`
  and `HandoffsAreTakenUp`: they rest on fairness, of which this prover knows nothing. The
  safety behind `RequestsMoveOn`, that a request has a run in front of it, is part of
  `NoChangeIsLost`;
* the runs that end in a violation.

Some theorems have conditions the models allow to fail: `FaultSites \subseteq ForwardSites`
or `CatchSites` and `OnlyWholePairs` (RestoreRecovery), `CloseReturns` (DataRoot) and
`CommitsFirst` (Workflow). Each is met by the instance of the run that checks the property.
Each is also needed, as TLC shows when it is dropped. An exception of the undoing or of the
cleanup (not in `ForwardSites`) breaks all four properties of `restore_crashes` that the
theorems with it are about; one of the cleanup or at start (not in `CatchSites`) breaks
`AGenerationSurvives`; and when pairs of two generations validate, `ServesWholeGeneration`,
`AGenerationSurvives`, `OldPairDeletedLast` and `SwapIsAtomic` fail. `JournalCoversSwap`
does not assume it. For the other two see DataRoot and Workflow above; section 6 has the
cases.


## 6. What is not modelled, and known disagreements

Not modelled: the package format and its encryption, the 28 migrations, widgets, read
models, exports and process launchers are parsing, SQL text or I/O without state of
their own. `workflow_bootstrap.py` builds the authorization of one pilot (issue 284)
and hands its paused workflow on to a new revision of the controller, whose ledger it
seeds; the models start with an authorization that is in force. `device_smoke.py` is a
sequence of adb commands; it reaches the models as the success or failure of a stage on
the device. The services named in the plan below are left for their
turn.

Simplifications inside modelled parts that hide something: exceptions of `close()` after a
commit (the caller is told of a failure that did not happen); a `gh` listing of more than
one page of comments (`per_page=100`); output that is cut off before it is searched for
failure signals; the source fingerprint of the observer, which knows the names of
modified files and not their content (the model has it so).

Where the code does something else than a doc or a name says, besides the two violation
runs; each can be seen by changing the constants as described:

* An exception while the rollback area is deleted rolls a validated new pair back to
  a partly deleted old one (`docs/191:65-67`: an activated pair is completed or the old
  one comes back). `ActivatedPairSettles`, with "settle" among the `FaultSites`.
* An exception of the check of an activated pair at start is taken for a bad pair
  (`restore_recovery_application.dart:196`, `on Object`), and the old pair is asked for. When
  cleanup had begun that one is no longer whole: the start is refused, or a torn half is put
  back and every later start is refused. `restore_crashes` reaches it; `RestoreSettles`
  names it (`HalfPutBack`) and the theorems show that no torn half is served.
* The inventory is not on the shared queue (`bootstrap/app_bootstrap.dart:296`), although
  the coordinator's comment says that every operation on the data root is serialized. Its
  row can commit between the two reads of a backup, whose package can then never be
  restored (`PackagesRestorable` names what the manifest lacks), or between the safety
  backup and the swap of a restore, after which it is nowhere (`Overtaken` in
  `AcknowledgedKept`).
* The comment of `mobile_operation_coordinator.dart:3-7` says that operations wait while an
  exclusive task runs, and names the agenda. The photo of a log is staged before its call
  is queued (`agenda_application.dart:3013`): it gets its `.part` and its file while a
  backup runs, which breaks `ExclusiveTasksAlone`; a restore in between swaps the directories, and the row commits without a file
  (`Overtaken` in `RowsHaveFiles`).
* `stage()` checks names and renames in separate steps. Two calls under one id do no harm,
  three would: two pass the second look, one of them renames, the third writes a new
  `.part`, and the other renames that. Both take the file for theirs, and the one whose
  row is refused deletes it under the row of the other. TLC shows it when `Twins` is dropped from `Ask`. The forms do not get there.
* `docs/272:22-24` says a delivered reminder is not cancelled. A run asked for before the
  reminder fell due cancels it (`DeliveredStays`).
* A query or a transaction of a run that throws ends the drain with a request still
  waiting, since only `_NotificationSourceChanged` is caught
  (`agenda_application.dart:4779-4793`). The comment at `concrete_application.dart:3509`
  counts on the bootstrap and the next mutation, and they do take the request up; nothing
  else does. `run.refused` in `RequestsMoveOn` and in `NoChangeIsLost` is this case.
* A run that is overtaken leaves its call in flight. When the next run finds the alarm in
  the list and bound as set, it calls nothing for it; a "cancel" of the older run that
  lands after that takes the alarm away, and the binding says "scheduled" until another
  run. `SetMeansHeld` without `~run.older` shows it.
* `docs/270:120` says a completed reminder's notification is closed. A pour package writes
  the binding clean itself, and nothing cancels what is on show (`ClosedIsQuiet`).
* `docs/orchestrator/CSE_ORCHESTRATOR_STATE_MACHINE.md:125` lets every state that is not
  terminal be cancelled. The policy denies it from AWAITING_APPROVAL and from
  DETERMINISTIC_VALIDATION, since both ask for things that a cancellation does not have.
* `FULL_PASS` to `SOURCE_VALIDATED` does not compare the source with the one that was
  validated; what follows does.
* The scope check of the loop is `git status` against `HEAD`
  (`cse_codex_loop.py`). A validation command that commits in the worktree would hide its
  files from it; the model's commands leave files, not commits.
* `LeftoversAreTold` counts every error that says a removal failed. One raised while the
  upload is being staged (`StagingCleanupError`, `app/storage/attachments.py:209`) says so
  without the path and without asking for a reconciliation. The reconciliation that looks
  for the staged file (`app/application/observations.py:215`, `446`) may itself throw an
  `OSError`, which then stands in place of the error that would name the file; the model's
  look does not fail.
* `docs/183:137-139` describes the reminder life cycle a little differently from the code
  (completing keeps `next_attention_at`, reopening makes a reminder active); the model
  follows the code.


## 7. The plan

Built: RestoreRecovery with AtomicRestore, DataRoot, ReminderNotifications; Desk with
follow-ups, routines and observations and the records they revise, DeskFiles; Workflow; Orchestrator with SingleExecution;
Bridge; the proofs of section 5. In this order next:

1. mixed pairs and a second restore after a failed cleanup, as further values of the
   constants of RestoreRecovery; incoming packages and the attachment reconciliation,
   composed with DataRoot;
2. `ReminderLifecycle`: all transitions of a reminder with revision and events, and
   the pour life cycle that writes linked reminders; both as `RevisedRecords`, which the
   records of the desktop application already implement;
3. attendance: rolling occurrences against edits of the settings and of the day;
4. `CommandReceipts`: inventory, living plan and material requests as instances of one
   abstract "a repeated command acts once" specification; sketch revisions;
5. the schedule date engine as operators, checked against a declarative definition of
   the dates over all small graphs.

Theorems worth proving next: for the services to come, that they implement
`RevisedRecords` and the abstract command of point 4.
