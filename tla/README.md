# A specification of key-writer

The repository is a FastAPI application with which an operator keeps the books
of physical access keys (RFID tags): who has a key, at which address, and on
which entrance panels it is programmed. Panels are programmed by calls to a
central CRM (crm.dtel.ru), which alone decides what a key opens. The program's
own state is a PostgreSQL database; several worker processes, each with a
thread per request, work on it at the same time.

What can go wrong is that the two disagree: a key still opens a door the books
do not know of, a key that was taken away is back on the books, an operation
that stopped half way is forgotten or done twice. Around the keys are the
register of their numbers, the companies and employees who hold them, the panels
with their monitor, and the accounts of those who may change all this. This
project models the transactions of the database, the calls of the CRM and their
order, checks them on small instances with TLC and proves the central results
for every instance with TLAPS.

## 1. Inventory

| part of the system | code (under `src/app`) | state | operations | modelled |
|---|---|---|---|---|
| key lifecycle | `services/key_lifecycle.py`, `repositories/key_lifecycle_repository.py` | `key_lifecycle_operations`, `key_lifecycle_steps`, `key_panel_states` | `release_key`, `reassign_key`, `replace_key`, `create_or_resume_operation`, `finalize_release` | `KeyLifecycle` |
| panel writer | `services/writer.py` | the advisory lock of a key; a semaphore per worker | `write_key_to_panels` | partly: `KeyLifecycle`, `CrmSession` |
| key assignments | `repositories/key_repository.py` | `keys`, `key_assignments` | `set_key_assignment`, `update_key_assignment`, `get_key_write_contexts` | partly: `KeyStore`, `KeyLifecycle` |
| key accesses | `repositories/key_access_repository.py` | `key_accesses` | `ensure_access`, `sync_primary_access`, `clone_snapshot_accesses` | partly: the primary access |
| routes of keys | `routers/keys.py`, `routers/message.py`, `routers/manual_write.py`, `services/key_write_context.py` | none of their own: what they have read and pass on | what they admit, refuse and hand to the services | partly |
| CRM client | `services/crm.py` | one HTTP session per process under a lock | `crm_add_key`, `crm_remove_key`, login, connection check | `CrmSession` |
| company keys | `services/uk_keys.py`, `repositories/uk_repository.py` | `uk_groups`, `uk_panel_links`, `uk_key_issues`, `uk_key_programmings` | issue, add a panel, retry, remove, unlink; save and archive a company, link panels | partly: `UkKeys`, `UkLifecycle`, `Premises` |
| employee keys | `repositories/employee_repository.py`, `routers/employees.py` | `employees`, `employee_keys` | issue, add, exchange, close, dismiss, restore | partly: `EmployeeKeys` |
| panel monitor | `services/panel_monitor.py`, `repositories/panel_monitor_repository.py` | `panel_monitor_state`, a session advisory lock | election, recovery, claim, probes, progress, end; requests and checks by hand | `PanelMonitor` |
| users and roles | `middleware.py`, `routers/users.py`, `repositories/user_repository.py`, `role_repository.py` | `users`, `roles`, `role_permissions`, sessions | admission, change of role, switch, delete, permissions | partly: `Accounts` |
| register of keys | `key_numbers.py`, `repositories/key_repository.py` | `keys`, `key_types` | scan, edit, missing numbers, preparing a range | `KeyRegistry` |
| import, legacy keys | `services/importer.py`, `services/legacy_issued_keys.py` | a picture of the register while it runs | import of keys and of panels, the two migrations | partly: `KeyImport`, `Premises` |
| panels registry | `repositories/panel_repository.py`, `routers/panels.py` | `panels` | save, edit, switch, delete | partly: `Premises`, `PanelMonitor` |
| parsing, search | `services/parser.py`, `services/search.py`, `key_search.py`, `panel_search.py`, `search_utils.py` | none | recognition of text, ranking | no: functions of wording |
| reports | audit log, dashboard, settings, diagnostics | append-only rows | listing | no: nothing decides by them |
| web shell | templates, static files, units, migrations of the schema | none | start of the processes | no: wiring |

How they interact:

* A **route** reads a snapshot of a key in one transaction, decides, and calls a
  service. The service runs a sequence of `db()` blocks, each one transaction,
  with calls to the CRM between them. Nothing is locked between two blocks,
  except in the writer.
* `release_key` persists an **operation** with one step per panel, marks the
  rows `pending_delete`, deletes the key panel by panel in the CRM and records
  each result twice: first in `key_panel_states`, then in the step. When every
  step is successful it releases the key locally. `reassign_key` goes on by
  calling back the route, which calls the **writer**; `replace_key` writes the
  *new* key to the panels of the old one and lets it inherit its assignment.
* A repeated request looks for an unfinished operation of its kind and resumes
  it if it still fits the state (`_can_resume_operation`); otherwise it closes
  it and makes a new one.
* The **company pages** issue a free key to the panels of a company and keep a
  *programming* per panel. They do not use the writer or its lock: each CRM call
  is followed by two transactions, one for the programming, the issue and the
  assignment, one for the row of `key_panel_states`. The lifecycle, which
  deletes by the rows, closes the issue when the key is released on its card.
* The **employee pages** call the writer, then issue the key in a transaction of
  its own; to take keys away they call `release_key` key by key, and a dismissal
  closes what is left without asking the CRM.
* The **writer** holds a PostgreSQL advisory lock of the key over all its calls;
  having got it, it reads the known panels again. Before the lock it takes one
  of two slots of its worker.
* All calls for keys of a worker go through the **CRM client** one at a time;
  lock, login, request and repetition share one time limit. Calls for a company
  log in with its own credentials and share nothing.
* The **monitor** runs as a thread of every worker. An advisory lock elects a
  leader, a row with a heartbeat holds the cycle; pages queue a cycle in the
  row, and look at it before they check a panel by hand.
* The **desks** of the office (accounts, register and imports, panels and
  companies) share no decisions: each reads its own tables, decides, and writes
  by later statements.

Hard behaviours: the loss of a worker between two transactions; CRM calls that
are carried out although their answer is lost; a partial success followed by a
retry; two requests for one key; a snapshot read before a wait and used after
it; an import that writes by a picture of the register taken at its start; a
leader that has lost its lock without knowing. `PROJECT.json` lists every hazard
with its line.

What makes the components right:

* lifecycle: nothing the CRM lets a key open is forgotten; the local release
  comes after the last confirmed deletion; writing comes after deleting; done
  steps stay done; a success means that the whole work is done; a partial
  operation can be finished;
* writer: one writer per key, no panel asked twice for what is known;
* CRM client: a call ends, in its time, and has its effect once; nobody's
  session is pulled from under a request;
* company keys: what the company opens with a key is on the books; an active
  issue has its key, a closed one no panel; no removal frees a key that is still
  programmed; however panels are taken off, no issue has two primary ones, and
  one that has lost them all is closed;
* employee keys: the rows and the assignments tell one story; a dismissed
  employee holds no key; no key is released locally that a panel still opens;
  keys are exchanged only for one that works;
* panel monitor: it is a queue with one cycle at a time; a requested cycle ends;
  an interrupted one is taken over, one that is under way is not;
* accounts: an active administrator who may manage users and settings is left;
* register and imports: nothing is replaced unasked; reports tell what was done;
  a migration can be repeated and a dry run foretells it;
* panels and companies: a panel belongs to one company at most, archived
  companies reserve nothing.

## 2. Modules

```
KeyStore            tables and transactions (operators, no behaviour)
  KeyLifecycle      requests, CRM, lock, crashes; Spec, FairSpec, properties
    MCKeyLifecycle        instances for TLC: symmetry
    KeyLifecycleProofs    proofs of types, of exclusion and of the books
      KeyLifecyclePlans   proofs about plans, pending deletions, replacements
    EmployeeKeys    KeyLifecycle (EXTENDS) and the pages of the employees
      MCEmployeeKeys      instances for TLC
      EmployeeKeysProofs  proofs of its properties, on KeyLifecycleProofs too
  UkKeys            issues and programmings of a company, on the same store
    MCUkKeys              instances for TLC
  UkLifecycle       KeyLifecycle (EXTENDS) and UkKeys (INSTANCE) together
    MCUkLifecycle         instances for TLC
    UkProofs              proofs of its properties, on KeyLifecycleProofs too

CycleQueue          abstract specification: what the monitor promises
PanelMonitor        the monitor; implements CycleQueue (INSTANCE ... WITH)
  PanelMonitorProofs      proofs of the refinement and of the count of a cycle
CrmSession          sessions, locks and time limits of the CRM client
  CrmSessionProofs        proofs of its safety properties
Services            PanelMonitor and CrmSession side by side
  MCServices              instance for TLC

Accounts            users, roles and the middleware
KeyRegistry         numbers and HEX codes of the keys
  KeyImport         files of keys: the import and the migrations
    KeyImportProofs       proofs about both modules
Premises            panels, companies and links
  OfficeProofs            proofs about Accounts and Premises (EXTENDS
                          KeyImportProofs for its lemmas on folds)
Office              Accounts, KeyImport and Premises side by side
  MCOffice                instance for TLC
```

`Services` and `Office` compose components that do not touch each other's state:
a behaviour is about one of them (`subject`, `desk`), chosen at the start.
Interleaving them would multiply the states and add no behaviour of either.

### KeyStore: the database

| variable | table |
|---|---|
| `keyStatus[k]` | `keys.status`: `free`, `issued`, or `retired` for the five statuses the writer refuses |
| `assignment[k]` | the active row of `key_assignments`, as its serial number; 0 for none |
| `place[k]` | address and apartment of the primary active row of `key_accesses` |
| `row[k][p]` | `key_panel_states`: `state`, and for `error` the `last_operation` (`delete_error`, `write_error`) |
| `ops` | `key_lifecycle_operations` with their steps of both phases |

`Live(k)` is the predicate all readers of `key_panel_states` share: `active`,
`pending_delete`, or `error` of a deletion. `pending`, `running` and `error`
steps are one state, `unfinished`: each reader asks only for `success`. An
operation keeps the snapshot it was made from: the panels, the assignment row
(`signature`), the place, and for a reassignment the target of the key card.

### KeyLifecycle: the requests

A request is at a control point `pc[r]` with its local variables in `req[r]`.
One action is one `db()` block or one CRM call:

| actions | code |
|---|---|
| `StartRelease`, `StartReassign`, `StartReplace`, `StartWrite`, `StartAdd` | routes in `keys.py`, `message.py`, `manual_write.py`, and the snapshot |
| `FindOperation`, `ResumeOperation`, `CreateOperation` | `create_or_resume_operation` |
| `MarkPending`, `BeginDelete`, `SendRemove`, `RecordRow`, `RecordStep`, `FailDelete`, `EndDelete` | the delete phase, `key_lifecycle.py:48-187` |
| `Finalize`, `FinalizeRefused`, `SkipFinalize`, `CloseRelease` | the local release |
| `EnsureWrite`, `RecordWritten`, `FinishReassign`, `FinishReplace` | the write phase and its results |
| `AcquireLock`, `SkipKnown`, `RefuseWrite`, `SendAdd`, `RecordAdd`, `ReturnFromWriter` | `write_key_to_panels` |
| `AssignNew`, `CloneAccesses`, `CompleteReplace` | the end of `replace_key` |
| `AssignLocally` | assignments edited without any panel |
| `Answer`, `Crash` | the response of the route; the loss of the worker |

The CRM (`crm[k]`, the panels key `k` opens) is modelled from the way `crm.py`
classifies its answers: a call is carried out and confirmed, carried out and not
confirmed (time-out, lost answer, an answer that is not understood), or not
carried out. A success that changes nothing does not occur: `DRY_RUN` is no
success of a deletion (`key_lifecycle.py:99`), and a 404 counts as deleted only
when the CRM says the key is absent.

`unconfirmed[k]` is a history variable: panels for which a create was sent and
its success never stored. No program can know whether they are programmed, so
the properties of the books hold up to them.

Abstractions, and what they leave out:

* A step of a database block and the reads before it are one action where no
  other action can tell. `find` and `persist` are two, because two requests can
  search before either inserts.
* A call that times out is applied at once or never, not later.
* The writer's own transactions succeed. The code catches a failure and answers
  `persisted = False`; this is on the plan (hazard `writer.py:310`).
* `replace_key` writes the panels address by address, each under the lock; the
  model takes the lock once for all of them.
* Secondary accesses of a key are left out; `place` is the primary one.
* The slots of a worker are in `CrmSession`, the bookkeeping of companies in
  `finalize_release` in `UkLifecycle`, that of employees in `EmployeeKeys`.

### UkKeys: keys of a company

`issues` and `programmings` are the tables `uk_key_issues` and
`uk_key_programmings`, in the order of their ids. An operator is a thread that
serves a company page: `upc[o]` is its control point, `ureq[o]` what it has read
and what it has left to do.

| actions | code |
|---|---|
| `StartIssue`, `StartPanel`, `StartRetry`, `StartRemove`, `StartUnlink` | the forms of `uk_detail.html` and their handlers in `routers/uk.py` |
| `CreateIssue`, `CreateProgramming`, `CreateRefused` | `create_key_issue`, `create_programming` |
| `Call` | `_run_programming` up to the answer of the CRM |
| `RecordAdded`, `RecordFailed`, `RecordConflict` | `record_crm_result` for a create or a failure, and its failure on the unique index of open issues |
| `Deactivate`, `SeekPrimary`, `PickOldest`, `PromotePrimary`, `SeekActive`, `Commit` | the statements of `unlink_programming` and of `record_crm_result` for a confirmed removal, with `_promote_primary_on_connection` and `_release_empty_issue_on_connection` |
| `RecordPanel` | `record_write_result`, `record_lifecycle_remove_result` |
| `Lose` | the loss of the worker, or of its transaction by a deadlock |

What a page shows is no guard of the server: `retry` and `remove-crm` take the
id of any programming, and `record_crm_result` looks neither at the issue nor at
the programming before it changes them. So `StartOn` asks for the button
(`Offered`) only of a schedule in which tasks follow each other on pages loaded
since (`alone`); in the others a page may be stale and a button clicked twice.
Unlinking asks for an active programming itself.

The transactions that take a panel off the books read between their statements
and lock nothing but the rows they update, so each statement is a step. The
tables change with the commit; until then the transaction alone sees its row as
inactive, and who wants to update a row another transaction has updated waits
(`Held`, `IsFree`). What a SELECT has found (`chosen`, `emptied`) is written
whatever has changed since. The other transactions write without reading what
they decide by, or lock it, and are one step.

The code orders the panels of an issue by `created_at`, the beginning of the
transaction that has added them; the model by the order in which these commit.
Two additions to one issue that overlap could commit in the other order, and a
promotion that has read between them prefer another panel than a later one.
`CompanyOnePrimary` is shown without this: that two additions overlap, in the
moment in which two more transactions take panels off, is left out.

`dry_run` and `error` are one status, as both change nothing and can be
repeated. `unconfirmed` has the meaning it has in `KeyLifecycle`. There is one
company and all its panels stay linked to it; `Premises` has the companies and
the links. A *schedule*, fixed for a behaviour, says which tasks there are, how
many, with how many lost workers and releases, and whether it is `alone`.

### UkLifecycle: the two together

`UkLifecycle` extends `KeyLifecycle` by the variables of `UkKeys`, instantiated
over the same store and the same CRM. A step is one of either side; the local
release (`Finalize`) also closes the issues of its key (`CloseIssues`), which is
one transaction in the code. `Overlap = FALSE` keeps requests of the two sides
apart, the way one operator at a time would make them.

### EmployeeKeys

A task of the employee pages is a thread of `KeyLifecycle`; its local variables
are in `task[r]`. Where the code calls the writer or `release_key`, the thread
goes through the actions of `KeyLifecycle` and comes back at the control point
`reply`, from which the page goes on.

| actions | code |
|---|---|
| `IssueRoute`, `CreateAndIssueRoute`, `AddKeysRoute`, `WriteRoute` | `/keys/issue`, `/keys/create-and-issue`, `/keys/add`, `/employees/write` |
| `Written`, `NotWritten` | the result of `_employee_write_result` |
| `ReadOldKeys`, `ReleaseOld`, `OldReleased`, `ReleaseStopped` | `_release_replaced_employee_keys`; the same loop of the dismissal |
| `CheckEmployee`, `InsertRow` | `issue_key_to_employee`, in the two statements others can come between |
| `StartClose` | `/keys/close`, `/keys/remove` |
| `StartDismiss`, `ReadDismissed`, `Dismiss` | the dismissal and `dismiss_employee` |
| `Restore` | `restore_employee` |
| `StartMove` | another page moves the key to an address |
| `ServiceStep`, `LoseTask` | the steps of `KeyLifecycle`; the loss of the worker |

A local release and an assignment to an address close the rows of the key
(`StaffFollows`), in the transaction that makes them. The access of every
employee key is one place, `Service`; a closed row is one state whatever the
reason. `close_employee_key` and `remove_employee_key`
(`employee_repository.py:767`, `998`) are called by no route and not modelled. A
schedule is *careful* (a task is finished, or lost, before the next) or lets
tasks and moves interleave.

### PanelMonitor and CycleQueue

`cycle` is the row of `panel_monitor_state`, `leader` the holder of the advisory
lock, `wpc[w]` and `work[w]` a worker and its local variables, `registry` what
the monitor reads and writes of `panels`, `probe` the checks made by hand.

| actions | code |
|---|---|
| `Elect`, `Recover`, `BeginCycle` | `_run`, `_leader_loop`, `recover_interrupted_cycle`, `begin_cycle_if_due` |
| `ReadPanels`, `ReadFails`, `SetTotal`, `Submit`, `ProbeDone`, `TellProgress`, `FinishCycle` | `run_monitor_cycle` and the transactions it calls |
| `CycleFails`, `FinishFailed` | its error path, with the probes under way lost |
| `RequestCycle`, `StartCheck`, `EndCheck` | `request_monitor_cycle`, `panel_check` |
| `EditRegistry`, `SwitchMonitor` | saving, switching and deleting a panel; the setting |
| `LoseConnection`, `LoseWorker`, `RestartWorker` | PostgreSQL drops the idle lock connection, the leader goes on; the loss and restart of a process |
| `IntervalPasses`, `HeartbeatGrowsStale` | time |

Time is two steps. The interval makes a cycle due and the results of the panels
old. A heartbeat grows stale only when no worker is in a cycle: the monitor
allows max(60 s, six time-outs) between two heartbeats, and a probe makes two
attempts of three requests each within its own time-outs, so that a worker at
work writes in time. This is an assumption about the speed of the process, not
a result.

`CycleQueue` says what users see: a cycle rests, is queued, or runs; one worker
owns it and alone ends it; a request joins what is queued or running; an
abandoned cycle is queued again. `Promised` maps the status of the row to the
phase and the worker in a cycle to the owner.

### CrmSession

| actions | code |
|---|---|
| `TakeSession`, `LockTimesOut` | `_crm_lock` with its time-out, `_get_session`, `_reset_session` |
| `LoginPage`, `LoggedIn`, `LoginRefused` | `_login` |
| `CrmHandles`, `Receive`, `LogInAgain`, `Unanswered` | the request, its classification, the repetition after `AUTH_REQUIRED` |
| `StartWriter`, `TakeSlot`, `TakeKey`, `WriterCalls`, `WriterLeaves` | the semaphore and the advisory lock of `write_key_to_panels` |
| `CallDirectly` | deletions, the check of the settings page, company calls |
| `SessionExpires`, `CookieExpires`, `Tick` | the CRM; the clock |

Time is counted in ticks. That a request ends when its time-out is over is an
assumption about the HTTP library (in truth its limit is per socket operation);
a wait with no time left (`max(0.1, ...)`) is rounded to none. The check of the
connection waits for the lock without a limit, as in the code. Calls for a
company have a session of their own and no deadline over all requests.

### Accounts

A visitor is a browser session with one request at a time; `form[v]` is what it
asks for, `seen[v]` the rows a statement has found or deleted, `held[v]` the row
locks of users.

| actions | code |
|---|---|
| `Dispatch`, `SessionCleared`, `Login`, `Logout`, `ToggleTraining` | `AuthMiddleware.dispatch`, `routers/auth.py`, `training_mode_toggle` |
| `Admit`, `Refuse` | what the user pages and role pages look at before they write |
| `SelectAdmins`, `LockAdmins`, `ChangeUser` | `SELECT ... FOR UPDATE OF u`, its wait, and `update_user`, `set_user_active`, `delete_user` |
| `InsertUser`, `InsertRole`, `FindRows`, `DeleteRows`, `InsertRows`, `DropRole`, `SeedRoles` | `create_user`, `create_role`, `set_role_permissions`, `delete_role`, `ensure_system_roles` |
| `LoseRequest` | the loss of the worker: a rollback |

READ COMMITTED is modelled where it matters: the SELECT finds its rows in one
step and gets their locks in another, which reads each row again. The DELETE of
`set_role_permissions` finds its rows (`FindRows`), waits for those another
request has deleted and not committed, skips them when they are gone
(`DeleteRows`) and does not see the rows inserted in their place (`Commit`); the
INSERT then adds to what is there (`Kept`), and a row that is there already
makes the request fail on the primary key.

### KeyRegistry and KeyImport

`keys` is the table as a sequence, a number the pair of its value and its length
(`007` is `<<7, 3>>`). `ScanRead` and `ScanWrite` are `save_prepared_key`, which
reads without a lock; `SaveHex` is `save_key_hex`, `EditKey` is `update_key`,
`CreateType` and `SwitchType` are the pages of types. `Missing`, `WidthOf`,
`Padded` and `Prepared` are the reports of missing numbers and of a range as
operators; `MissingIsComplement` is their reference definition.

`StartImport` and `StartMigration` read the register into `snap[k]`;
`ImportCommit` and `MigrationCommit` work the file off against that picture
(`ImportRow`, `IssuedRow`, `FreeRow`) and write the differences into the table
as it is by then (`Merged`, `Migrated`), which an index can refuse. A file is a
sequence of rows after the recognition of its cells; the search for an address
is in the row (`Nowhere`). The register page creates a type for a name it does
not know, so the name in such a row is a type (`RegisterRow`); a legacy file may
use another name of a type (`Named`).

### Premises

`panels`, `companies` and `links` are `panels`, `uk_groups` and
`uk_panel_links`. A manager is a request (`errand[m]`). Saving, editing,
switching and deleting a panel and saving, updating and archiving a company are
one step each; `ReadForAdd` and `WriteLink` (`add_panel`), `ReadForDetach` and
`WriteDetached` (`remove_panel`), `ReadForProgramming` and `WriteProgramming`
(`create_key_issue`, `create_programming`) and `ReadPanelFile` and `WritePanels`
(`import_panels_excel`) are two, as nothing is locked between them. Of a panel
the model keeps its MAC, its switch and one more cell, of the keys of a link
whether any is programmed. `apart`, fixed for a behaviour, lets requests only
follow each other.

## 3. Runs

Bounds are the constants: `MaxJobs` requests are made in a behaviour, by at most
`Cardinality(Requests)` threads at a time, and `MaxCrashes` workers are lost;
`MaxTasks`, `MaxCalls`, `MaxEvents`, `MaxErrands` and the schedules bound the
other modules in the same way. `Overlap = FALSE`, a careful schedule, `alone` and
`apart` let requests only follow each other, the case the program is written
for; otherwise they interleave. Deadlock is not checked: the system rests when
nobody asks for anything and the bound is used up.

| run | instance | shows |
|---|---|---|
| `Lifecycle` | 1 key, 2 panels, 2 places, 3 requests one after the other, 1 crash | with release, reassignment, writing, adding and local edits the books cover the CRM (`Tracked`), the key is released when gone (`ReleasedMeansGone`), written after it was deleted (`WritesAfterDelete`), rows come to life only for keys that are there (`NoResurrection`), done steps stay done (`DoneStaysDone`), and everything is well typed |
| `Replacement` | 3 keys, 2 panels, 3 requests to replace or write, 1 crash | no row is left waiting for a deletion nobody is going to make (`PendingDeleteIsOwned`); a replacement that reports success and was only ever resumed has carried over every panel (`ResumedCarriesOver`) |
| `Writers` | 1 key, 2 panels, 3 overlapping writers, 1 crash | exclusion (`WriterExclusive`), no redundant create (`NoRedundantCreate`) |
| `Progress` | 2 overlapping requests for one key, 1 crash, `FairSpec` | every request ends (`RequestsEnd`) |
| `Company` | 1 key. Of 2 panels: 5 tasks one after the other with 1 lost worker; 3 tasks in turn with a release of the key, 2 tasks with two; 3 tasks of two operators at a time, of any kind, on pages that may be stale. Of 3 panels: 4 issues and unlinkings at a time | one after the other: what the company opens is on its books and, while no worker is lost, among the panel rows the lifecycle deletes by (`CompanyOnBooks`); an active issue has its key, a closed one no panel (`CompanyHoldsKey`); a release sees all of it (`CompanyKeyGone`); no removal frees a programmed key (`CompanyFreedWhenEmpty`). At a time, too: no issue gets two primaries, so no promotion is refused (`CompanyOnePrimary`); an issue that has lost its last panels to removals is closed (`CompanyEmptied`) |
| `Employees` | 2 keys, 1 panel, 2 employees, 2 tasks: one after the other with 1 lost worker, or at the same time and with moves of a key | rows and assignments agree whatever interleaves (`HolderIsAssigned`); dismissed employees hold nothing (`DismissedHoldNothing`); nothing is let go that a panel opens (`FreedMeansGone`); an exchange leaves the new key alone (`ExchangeLeavesOne`), which is written before the old ones go (`ExchangeAfterWrite`) |
| `Services` | monitor: 2 workers, 2 panels, 1 probe at a time, 2 faults, requests or edits; CRM client: 2 callers in one process or two, 1 slot, 2 ticks, 2 calls | the monitor implements `CycleQueue` (`MonitorIsQueue`), a cycle ends (`CycleEnds`) and has counted all it read (`CycleIsComplete`); a call has its effect once (`AppliedAtMostOnce`), in its time (`WithinDeadline`), on a session nobody replaces (`SessionNotReplaced`), is told to authenticate only after a login of its own or with an expired cookie (`RefusedForCause`), and ends with its writer (`CallEnds`) |
| `Office` | accounts: 2 users, 2 sessions, 3 requests; register: 2 clerks, 3 tasks, 3 numbers, 2 HEX, files of up to 2 rows; panels: 3 ids, 2 MAC, 2 companies, 2 managers, 3 requests | an administrator stays (`AdministratorStays`); missing numbers are the missing ones (`MissingNumbers`); an import replaces no HEX (`ImportNeverReplaces`); imports and migrations report what they did (`ImportReported`, `PanelImportReported`), can be repeated (`MigrationRepeatable`) and foretold (`DryRunForetells`); links, panels and companies fit each other (`OwnersAreSound`) |

Why these bounds: two panels are what partial success needs; three requests are
an attempt, its retry and one thing in between or after; one crash at every
point covers each window of the code once, and a retry may meet the state a
crash has left. Two places are the old and the new one. Five tasks of a company
are enough to issue a key, lose a panel, close the issue, issue the key again and
touch the old issue. Three panels and two operators are a panel that is left
while two others are unlinked; an issue and two removals at a time are its last
panels, and an issue, a removal and a second issue a late success that finds the
key issued again.
Two employees and two keys are an exchange and somebody else who has the key.
Two workers and two faults are a leader that loses its lock or its process and a
successor that may lose it again; one probe at a time with two panels makes the
executor refill. Two ticks let a call wait for the lock and still log in and
send, or run out of time at each of these points; one slot makes a second writer
of a process wait in front of it. Two users and three requests are two
administrators who change each other, and a third change in between; logging in
again makes a session change its user. The files hold each pair of rows the code
distinguishes: twice the same, one number with two HEX, one HEX with two
numbers, two names of a type, bad and empty cells. Keys, panels, places,
employees, users, visitors and requests are interchangeable and symmetric in the
safety runs; `Progress` and `Services`, which check liveness, use no symmetry.

Fairness. A thread that can go on goes on: every CRM call ends with its deadline
and every transaction with its statement (`WF` of `Progress(r)`, of
`WorkerStep(w)`, `CallStep(c)` and `WriterStep(c)`). A waiter of an advisory lock
is granted it in turn by PostgreSQL, so it does not starve while others come and
go (`SF` of `AcquireLock(r)`); in `Services` calls are bounded and weak fairness
is enough. A lost process is restarted (`Restart=` of the systemd unit), a free
leader's lock is taken (`WF` of `Elect(w)`), and a heartbeat nobody writes grows
stale (`WF` of `HeartbeatGrowsStale`), since time passes. Requests need not
arrive, faults need not happen, and the interval need not pass.

### Disagreements with the documentation

Each of these runs stops at a behaviour in which the code does something else
than a comment, a message to the user or a document says; `PROJECT.json` quotes
both.

| run | behaviour |
|---|---|
| `MessageReassign` | A reassignment from a message or the manual page passes no target, so the key is deleted and released and never written (`ReassignReachesWrite`). |
| `ReplaceAfterCrash` | A worker is lost between the row and the step of a deleted panel (or between the release and the status `writing`); the retry finds a state that does not fit, starts over with fewer panels and reports success (`ReplacementCarriesOver`). |
| `ReplaceRetry` | A replacement that wrote some panels is refused when repeated, because its new key is now occupied (`PartialReplaceCanBeRetried`). |
| `UkRemoveOld` | A panel unlinked from a closed issue is removed from the CRM after the key was issued again: the key becomes free while its new issue is programmed (`FreedOnlyWhenEmpty`). |

The first three lose access of the user, never give too much: `Tracked` holds in
these instances.

Two more behaviours of the models contradict a sentence of the documentation; no
run is kept for them.

* A message adds a panel the key is on while the key is being released. The
  writer reads the known panels again under the lock, but adds them to those the
  route has read before it waited (`writer.py:562-565`, `KnownPanels`), so the
  released panel is taken for programmed, nothing is sent, and the answer is
  `ALREADY_ON_PANEL` (`writer.py:117`). `docs/production-audit.md:14-16`: "После
  ожидания повторно читается список известных панелей".
* Two scans of one number overlap: the second one has read the row before the
  first has stored its HEX, and its UPDATE asks for the id alone
  (`key_repository.py:1190-1240`, `ScanRead`, `ScanWrite`), so it replaces that
  HEX although nobody has asked for it. `key_repository.py:1205`: "У этого номера
  уже сохранён HEX. Нажмите «Исправить», чтобы заменить его осознанно", and
  `docs/production-audit.md:36-37`: "Операции с ключом сериализованы". A
  migration does the same to a scan (`legacy_issued_keys.py:401-406`).

Where a property holds only for the instance of its run, or with an exception it
names, the following change shows why; no run is kept for it.

| change | behaviour |
|---|---|
| `Lifecycle.cfg` with two requests and `Overlap = TRUE`: `NoResurrection` fails | Two releases of one key: the failure of one is recorded over the confirmed deletion of the other. |
| `UkTracked` without its conditions, a schedule with `"unlink"` | A panel is unlinked and added again, and the call fails: the error is written over the live row, and nothing on the books names a panel the CRM has (`uk_keys.py:107`). |
| a schedule with a release and a lost worker: `CompanyKeyGone` fails | A worker is lost between the two transactions of a success (`uk_keys.py:69`, `107`); the release of the key finds no row, deletes nothing and frees it. |
| `FreedWhenEmpty`, `IssueHoldsKey` without `Bookkept`, two operators | A late success reopens an issue that was closed in the meantime and assigns its key again, or leaves an active issue without it: `record_crm_result` does not ask for the status of the issue (`uk_repository.py:911-1011`). |
| `UkTracked` without `alone`, two operators | «Повторить» is clicked twice: the first call succeeds, the second one fails and its error is recorded over the success, in the programming and in the panel row, while the CRM has the key (`uk_keys.py:257-272`). |
| `AdministratorStays` without `FoundNone` | A change waits for the row of the only administrator it has seen; while it waits somebody is promoted and that administrator demoted. Its SELECT returns nobody, the guard compares with nobody, and the change takes the one administrator left. `docs/database.md:119-120` says that the last active administrator cannot be disabled or demoted; the window is the wait for the lock of one row. |
| `DryRunForetells` without `OneNameEach` | Conflicts are looked for by the names in the file, so two names of one type reach the register one after the other; the dry run does not store the HEX the first would have given. |
| `ResumedCarriesOver` without `OnlyResumed` | With three keys: a replacement has deleted the old key, and its writing fails; the operator repeats it with another new key. The operation does not fit, a new one finds no panel left, and the answer is `SUCCESS` ("Физический ключ заменён; активные доступы перенесены", `keys.py:956`) though the new key opens nothing. The same happens without a second new key when a panel is added to the old one between the attempts. |
| `OwnersAreSound` without `apart` | An archived company keeps a panel that was being linked while it was archived (`uk_repository.py:377-379` says it must not); a key is programmed on a link that was detached meanwhile. |
| the careful parts of `Employees`, without `careful` | A key is issued while its employee is being dismissed: the row stays, or the dismissal closes it without a call to the CRM. |

A reassignment that stopped in its write phase has the difficulty of
`ReplaceRetry` too: its access already names the new place (or there is none
left), so the repeated form is no physical change any more (`keys.py:653-657`)
and the operation is not resumed.

`PendingDeleteIsOwned` is checked for replacement and writing, and proved for
every kind of request but reassignment. With local edits between two attempts of
a reassignment, the resumed write phase
marks panels `pending_delete` that it has already rewritten
(`key_lifecycle.py:158`) and, as their steps are done, nobody deletes them; a
pending row is live, so the books stay right and the next release repairs it.

Things a reader of the models should know of the code, which no property
contradicts:

* `finish_cycle` and `set_cycle_total` do not ask whose cycle it is. It is safe
  because a heartbeat is written in time; the assumption carries the result.
* A check by hand that starts just before a cycle does probes its panel twice.
* `set_role_permissions` of two requests leaves the union of both, or fails where
  they have a permission in common (`role_repository.py:184`); `create_role`
  commits before its permissions are written; `ensure_system_roles` fills a
  system role that was emptied on purpose when the next process starts.
* Of two operators who unlink two of three panels of an issue at a time, one may
  promote the panel the other has just taken off (`uk_repository.py:1083-1095`):
  the third panel stays without a primary until the next one is taken off. Two
  transactions that each want to promote the other's panel end in a deadlock, of
  which PostgreSQL rolls one back.
* Where `CRM_COOKIE` is configured besides the password and has expired, no call
  ever tries the password: `_reset_session` and `_get_session` put the same
  cookie back (`crm.py:280-281`, `761-770`) and the caller is told that
  authentication is required.
* A session in training mode can not log out (the middleware blocks the POST).
* Archiving a company with programmed keys clears the credentials their removal
  needs; its programmings stay.
* Adding a panel whose MAC is known enables it again, also when it was disabled;
  the import of panels does not. The import writes the cells of its picture, so
  that one saved meanwhile may return to its old value.
* `007` and `7` are two numbers of the register and one of the report.
* Of two imports that create the same type the second one ends with an error.
* The migration replaces any current assignment of a key it finds.

## 4. Proofs

TLAPS checks all of the following for any values of the constants, from the
assumptions named in the modules: the `No...` constants are outside the sets they
complete, `Overlap` is a Boolean and the bounds are natural numbers. A theorem
with a further hypothesis says so, and so does this section.

### One key, its requests and the CRM

`KeyLifecycleProofs` proves `TypeCorrect`, `Spec => []TypeOK`. `TypeOK` alone is
not inductive, as an action indexes `ops` with a local variable and `crm` with
`WriteKey(r)`. `RequestOK(r)` says which fields are set at which control point (a
request at work has an operation of the table, a replacement has a new key, a
call in flight has a panel). `HandInv` is both; `TypeInv` adds `Served`, that a
thread at work has a request. The two are apart because the pages of the
employees put a thread at `reply` without a request when they dismiss somebody:
`HandInv` is kept under them, `Served` is not.

Its other theorems:

* `OneWriterPerKey`: `Spec => []WriterExclusive`, overlap and crashes included.
  The invariant is `LockHeld`: who is between `AcquireLock` and
  `ReturnFromWriter` is the holder of the lock of the key it writes.
* `NothingForgotten`: `~Overlap` implies `Spec => []Tracked`. The invariant
  `Books` has three parts: `Disjoint` (requests at work touch different keys),
  `InHand` (a confirmed deletion that is about to be recorded is true of the
  CRM; the live panels a writer has left to do are among those it knows, so
  that a failed write never overwrites a live row) and `KeyTracked` per key. A
  step changes the rows and the CRM only of the keys it touches (`BooksFrame`),
  and most steps change neither (`Quiet`).
* `ReleasedOnlyWhenGone`: `~Overlap` implies `Spec => ReleasedMeansGone`, from
  `Tracked` and the guard `CanFinalize`.

`KeyLifecyclePlans` is about operations that several attempts, lost workers and
users leave behind.

* `WritesComeAfterDeletes`, `ConfirmedStaysConfirmed`, `NoRowRevived` and
  `WrittenOnce` prove `WritesAfterDelete`, `DoneStaysDone`, `NoResurrection` and
  `NoRedundantCreate` from `~Overlap`. Their invariant `Plans` ties what a
  request means to do to the operation, the books and the CRM: the steps of an
  operation are on panels of its snapshot, and written only when all of them
  have been deleted (`OpFits`); what is left to delete is live (`DeleteFits`);
  a request past its deletions works on a key the CRM has let go of (`LetGo`);
  a resumed reassignment finds on the books just what it has written
  (`ResumeFits`); an acknowledged create that is not stored yet is true of the
  CRM (`WriteFits`). `ReadFits` carries it over the gap between the search for an
  operation and its insertion.
* `SecondLookSuffices` proves `NoRedundantCreate` with any overlap, where requests
  only write and add (`Kinds \cap OpTypes = {}`): the second look at the books
  under the lock is enough against other writers. Against a release it is not
  (section 3).
* `DeletionsAreAhead` proves `PendingDeleteIsOwned` from `~Overlap` and
  `"reassign" \notin Kinds`; a reassignment breaks it, as section 3 tells. The
  invariant `Ahead` says more than the property: an open operation, and not just
  a request at work, has the deletion still to make, so a lost worker changes
  nothing.
* `RepetitionCarriesOver` proves `ResumedCarriesOver` from `~Overlap`. The
  invariant `Carried` has three parts: every row that was taken off a panel is
  in the snapshot of some operation (`OnFile`); what a replacement has written
  stays on its new key until that key has an operation of its own
  (`WrittenStays`); a replacement gets to its end only with every panel of its
  snapshot confirmed (`Carries`).

`~Overlap` is needed: with two requests on one key the writer's `known` and the
answer of a deletion can be stale when they are recorded. The
table of changed instances in section 3 shows the consequences.

### Keys of employees

`EmployeeKeysProofs` proves all safety properties of `EmployeeKeys`, whose
threads go through the services of `KeyLifecycle` in between.

* `RowsNameTheAssignee`: `StaffSpec => []HolderIsAssigned`, for careful and for
  interleaving schedules. `StaffInv` is `HandInv` with what a page has in hand
  at each of its steps, and `BooksAgree` the agreement of `employee_keys` with
  `key_assignments` in both directions.
* `DismissedEmployees` (`DismissedHoldNothing`): who is about to insert a row
  has found its employee enabled, and in a careful schedule nobody else has been
  at work since (`Checked`).
* `ExchangedAfterWrite` (`ExchangeAfterWrite`) and `ExchangedKeysGo`
  (`ExchangeLeavesOne`): a page that exchanges keys has panels in hand that have
  the new key, and never releases it (`Writes`, `Exchanges`); the active keys of
  its employee are always among the new one and those it has still to release
  (`TakesAway`).
* `FreedAfterReleases` (`FreedMeansGone`): the invariant `Books` of the
  lifecycle is kept under the pages of a careful schedule, so that a release
  that succeeds leaves nothing in the CRM; a dismissal, which closes rows
  without asking, finds by `TakesAway` none left to close.

### Keys of companies

`UkProofs` proves all properties of `UkLifecycle`, the company pages and the key
card on one store. `KindsAssumption` says that the key card releases here and
does nothing else.

* `CompanyTables` and `OnePrimaryHolds` (`CompanyOnePrimary`) hold under every
  schedule: any number of operators at a time, on stale pages, unlinking, lost
  workers, releases. `Typed` adds to the types what an operator has in hand at each
  control point (`OperatorOK`); `TablesFit` is one open issue per key and one
  active programming per panel of an issue. The guard of `RecordAdded`, the
  unique index, is what keeps the first of them when a late success activates an
  issue.
* `OnePrimaryHolds` is about transactions whose statements take turns. Its
  invariant is `PrimariesFit`, the property and what each transaction has read
  (`PromotionFits`). Once a transaction has found no primary besides its own
  panel, one that appears since is the oldest panel of those left
  (`PrimaryFirst`), and the panel it chooses is the oldest, too (`ChosenFirst`):
  so two transactions never promote different panels that stay. New panels are
  younger, and panels taken off do not come back (`RowsKept`). Steps that promote
  nothing keep all this (`QuietRows`); a commit is the case to look at
  (`CommitKeeps`, `OthersChose`). That panels are numbered as they are committed
  is used here.
* The others need `~Overlap` and `Orderly`: tasks that follow each other do not
  unlink, and the key card is used where tasks follow each other and no worker is
  lost (tasks may interleave and unlink in other schedules of the same
  specification; the properties are silent there). TLC evaluates that
  the instance of `Company` is one of these (`MixedIsOrderly`). Section 3 has the
  behaviour behind each condition: without it a call that fails on a panel
  unlinked and added again, a release after a lost worker, a late success of a
  second operator or a second click. None of these theorems says anything of
  those.
* Their invariant is `CompanyInv` (`CompanyInvariance`). `Turns` says who can be
  at work: the key card or the operators, and one of these. `IssuesFit` ties
  status and activity of a programming to its issue and the issue to its key, and
  says that what an operator has still to ask the CRM is on the books and, for a
  create, not successful yet (`WaitingFits`): so a success always finds its issue
  open, and the unique index never refuses it (`NoConflict`). `CrmFits` ties the
  books to the CRM: every panel a key opens is a successful programming
  (`OnProgrammings`) and, with no worker lost, a panel row (`OnRows`), except for
  the confirmation an operator has in hand between the CRM and its two
  transactions (`Adding`, `AnswerFits`).
* While the key card works no operator does, so the panel rows alone are the
  `Books` of `KeyLifecycleProofs` and their lemmas apply (`CardBooks`): a release
  deletes by rows alone and yet closes the issue only of a key the CRM has let go
  of (`ReleasedKeyIsGone`, for `CompanyKeyGone`).
* `BooksKnowTheCrm` (`CompanyOnBooks`) and `CompanyHoldsItsKeys`
  (`CompanyHoldsKey`) follow from the invariant; `FreedKeysAreEmpty`
  (`CompanyFreedWhenEmpty`) from it and `Closes`, which every step satisfies: of
  the key a step frees no issue is open afterwards.

### The monitor, the CRM client and the office

* `MonitorImplementsQueue` (`PanelMonitorProofs`):
  `MonitorSpec => MonitorIsQueue`, for any number of workers, panels and faults.
  The invariant `CycleOwned` says that while a worker is in a cycle the row is
  running with a fresh heartbeat and no other worker is in one; without the
  first half a second worker could claim, and the unconditional `finish_cycle`
  would be a step of the wrong owner. Each step then has one of four shapes: it
  stays outside all cycles, claims, stays inside, or leaves. No advisory lock
  occurs in the argument: exclusion rests on the row and its heartbeat.
  `OneCycleAtATime` is the same invariant as a theorem of its own.
* `CyclesAreComplete` (`PanelMonitorProofs`): `MonitorSpec => CycleIsComplete`,
  for a finite set of panels. The invariant `Counted` adds up: what a worker has
  completed, is probing and has still to do is the total of the row, which
  nobody else writes while it is in its cycle (`CycleOwned`); it never waits with
  nothing under way and panels left (`SubmittedFits`).
* `CrmSessionProofs`, for any processes, threads, calls and time-outs:
  `CalledAtMostOnce` (`AppliedAtMostOnce`), `CallsKeepTheirDeadline`
  (`WithinDeadline`), `SessionStays` (`SessionNotReplaced`) and
  `RefusalsHaveCause` (`RefusedForCause`, in every configuration, the cookie
  besides the password included). The invariant `CrmInv` says
  what the variables of a call tell at each control point: the time it has
  spent and the time it has left make up the time-out, its request has been
  carried out only where the CRM has just said so, a repeated call without a
  cookie has logged in before it sends again; and a call on the shared session
  holds the lock of its process. `WritersQueue` is about the writers around the
  calls (`QueueInv`): never more of them at the advisory locks than a worker has
  slots, and never two in one key.
* `LastAdministratorStays` (`OfficeProofs`):
  `AccountsSpec => AdministratorStays`. The invariant `AccountsInv` has the
  types, `AdminRoleKept` (the role of the administrators keeps its critical
  permissions through every edit), `HeldAreAdmins` (a change that has its locks
  has seen active administrators, whose rows it holds, so that nobody else can
  demote them before it writes) and `FormFits`. A change that has seen someone
  other than its victim leaves that one; a change that has seen its victim alone
  is refused; one that has seen nobody is the exception the property names.
* `PremisesOwners` (`OfficeProofs`): `PremisesSpec => []OwnersAreSound`. The
  invariant `PremisesInv` adds what a request has read (`ErrandFits`): its link
  exists, an old link is one of its company and its panel, and, as long as
  requests follow each other, nothing has changed since. The first rows of a
  behaviour are assumed to satisfy the unique index of the links
  (`FirstLinksAssumption`).

### The register and its files

`KeyImportProofs` is about `ImportSpec`: any clerks, any register, files of any
length.

* `RegistrySafe`: `ImportSpec => []RegistryInv`. The register keeps to its two
  indexes, and a request at work has read a table that did, and that has only
  grown since (`AtWork`): rows are never deleted, so an id that was read still
  names a row. A scan has the HEX of the row it has read, or was told to replace
  it.
* `ImportLeavesKeys` (`ImportNeverReplaces`): what a commit writes into the table
  as it is by then (`ImportCommitRows`). That a scan keeps what others have stored
  is false (section 3).
* `ImportReportIsTrue` (`ImportReported`), `MigrationIsIdempotent`
  (`MigrationRepeatable`) and `DryRunIsTrue` (`DryRunForetells`): what a file
  comes to.

The last three are about folds over the rows of a file. No theorem of the
library about recursion can be used, as they take operators, but a set of natural
numbers can be shown to be all of them (`Climb`, from the well-foundedness of
the numbers), and that is enough: a function that folds the rows exists
(`FoldExists`), so a plan is the last of a chain of plans, each made of the one
before it and of one row (`ImportFold`, `IssuedFold`, `FreeFold`). A property of
a plan is then an invariant of the chain:

* `ImportTold`: after n rows the counters add up to n; the table is the one read
  with `updated` of its empty HEX codes filled and `added` rows behind it; and
  every row that was no error has its HEX in it.
* `IssuedTold`: every row seen so far is settled (`Settled`): its key has its HEX
  and its address, or the row disagrees with the register and always will, since
  the conflicts inside the file are refused beforehand (`DisagreeKept`,
  `HeldKept` rest on this). Read again, such a row changes nothing. `FreeTold` is
  the same of free keys: a key that is found is found again.
* `Foretold`: the dry run and the run that applies the migration agree row by row
  on the counters, and their tables differ by the HEX codes the dry run leaves
  empty in keys it finds, each of which is that of a row already seen
  (`RowsAlike`). That no type has two names in the file is used where a later
  row looks for such a key by its HEX.

`PanelReportIsTrue` (`OfficeProofs`): `PremisesSpec => PanelImportReported`, the
same of the import of panels, for any workbook and any finite table of panels.
`PanelTold` is the invariant of its chain of plans: after n rows the counters add
up to n, the MAC addresses upserted are those of the rows, those among them that
no panel had are the added ones, and the last upsert of each has the cell the
rows tell of it (`CellLearned`, beside the fold `Told` of the property). What the
upserts make of the table needs counting: the new panels are the free ids of the
lowest ranks, as many as there are first rows of a missing MAC (`FirstRanks`,
`FreshCounted`, `UpsertedCount`). The invariant is `PanelsSound`: a MAC has one
panel, in the table and in what an import has read. The first table of a
behaviour is assumed to have it (`FirstPanelsAssumption`: `panels.mac` is
unique), and the ids to be finitely many. The reported number of new panels and
the cells are promised of an import nobody disturbed, the count of rows, the
switches and the panels outside the file of every one.

The layout of a proof is the same throughout: one lemma per action or per part
of the invariant, a lemma that collects them for the next-state relation, and the
temporal step. The lemmas about the latest operation rest on the
well-foundedness of the natural numbers.

What the proofs taught about the model: that a replacement carries everything
over unless a worker is lost is false, which the attempt to prove it showed and
an instance with a third key confirmed (the change of `ResumedCarriesOver` in
section 3); and that a deletion can be left without an owner after a
reassignment is the reason for the hypothesis of `DeletionsAreAhead`.

Only model-checked, not proved: liveness (`RequestsEnd`, `CycleEnds`,
`CallEnds`), which the prover does not treat; `MissingNumbers` of
`KeyRegistry`, whose report sorts and selects by operators the prover cannot
expand; and `CompanyEmptied` of `UkLifecycle`.

## 5. Plan

Done: all modules of section 2 and the proofs of section 4. Left, in this order:

1. The writer whose transaction fails after a confirmed call
   (`persisted = False`, `writer.py:310`), and the HEX of a programmed key that
   is edited on its card (`key_repository.py:1342`): both need a book of HEX
   codes in the CRM.
2. An assignment made after the snapshot of a release, which `finalize_release`
   closes (`key_lifecycle.py:143`).

Not modelled:

* parsing and search: stateless functions of wording and ranking; a
  specification would repeat them word by word;
* audit log, dashboard, settings pages, diagnostics: rows that are only appended
  and lists that are only shown;
* the reading of files (workbooks, CSV, headers, encodings) and
  `import_panels_csv`, which no route calls;
* passwords, CSRF tokens, templates, static files, units and migrations;
* the second copy of the employee repository under `src/backups`.
