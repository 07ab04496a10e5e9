---------------------------- MODULE EmployeeKeys ----------------------------
(***************************************************************************)
(* Keys of employees: routers/employees.py and employee_repository.py on   *)
(* top of the key lifecycle.  A task of the employee pages runs in a       *)
(* thread of KeyLifecycle; it calls the writer and release_key as requests *)
(* of that module and goes on where they have replied.                     *)
(*                                                                         *)
(* The access of an employee's key is one place, Service, and a closed row *)
(* of employee_keys is one state whatever the reason.                      *)
(***************************************************************************)
EXTENDS KeyLifecycle, FiniteSets

CONSTANTS Employees, NoEmployee,
          Service,    \* the access of a key an employee has
          Schedules   \* [careful, tasks, losses]: who may get in whose way

ASSUME EmployeesAssumption == NoEmployee \notin Employees
ASSUME ServiceAssumption == Service \in Places
ASSUME SchedulesAssumption ==
  Schedules \subseteq [careful : BOOLEAN, tasks : Nat, losses : Nat]

VARIABLES enabled,   \* employees.enabled
          rows,      \* employee_keys: one row per employee and key
          assignee,  \* key_assignments.employee_id of the active row
          task,      \* the employee page a thread serves
          schedule   \* fixed for a behaviour

staff == <<enabled, rows, assignee>>
staffVars == <<vars, staff, task, schedule>>

NoTask == [kind |-> "none", step |-> "none", who |-> NoEmployee, key |-> NoKey,
           panels |-> {}, rest |-> {}]

EmployeeRows == {"none", "active", "closed"}

ActiveKeys(e) == {k \in Keys : rows[e][k] = "active"}
Holders(k) == {e \in Employees : rows[e][k] = "active"}

\* Stock, or a key some employee has had issued.
StaffInit ==
  /\ schedule \in Schedules
  /\ enabled \in [Employees -> IF schedule.careful THEN BOOLEAN ELSE {TRUE}]
  /\ assignee \in [Keys -> Employees \cup {NoEmployee}]
  /\ \A k \in Keys : assignee[k] # NoEmployee => enabled[assignee[k]]
  /\ rows = [e \in Employees |-> [k \in Keys |->
                IF assignee[k] = e THEN "active" ELSE "none"]]
  /\ task = [r \in Requests |-> NoTask]
  /\ \E programmed \in [Keys -> SUBSET Panels] :
        /\ \A k \in Keys : programmed[k] # {} <=> assignee[k] # NoEmployee
        /\ StoreInit(programmed, Service)
        /\ crm = programmed
  /\ lock = [k \in Keys |-> NoRequester]
  /\ pc = [r \in Requests |-> "idle"]
  /\ req = [r \in Requests |-> NoRequest]
  /\ unconfirmed = [k \in Keys |-> {}]
  /\ jobs = 0
  /\ crashes = 0

SetTask(r, t) == task' = [task EXCEPT ![r] = t]

\* The route is in charge: its thread has just read, or a service has replied.
AtStep(r, step) == pc[r] = "reply" /\ task[r].step = step
Turn(r, step) == SetTask(r, [task[r] EXCEPT !.step = step])
Respond(r) ==
  /\ Go(r, "idle") /\ Update(r, NoRequest) /\ SetTask(r, NoTask)

-----------------------------------------------------------------------------
(* Writing a key for an employee.                                          *)

\* _employee_write_result: any key that can be found, whoever has it; the
\* writer gets the known panels and leaves the assignment alone.
WriteRequest(k, panels) ==
  [Snapshot("add", k) EXCEPT !.where = Service, !.todo = panels,
                             !.pending = panels, !.known = Live(k)]

\* A writing page begins with key k; rest are the keys it will write after it.
StartWriting(r, kind, e, k, panels, rest) ==
  /\ enabled[e]
  /\ Start(r, {k} \cup rest, "lock", WriteRequest(k, panels))
  /\ SetTask(r, [NoTask EXCEPT !.kind = kind, !.step = "written", !.who = e,
                               !.key = k, !.panels = panels, !.rest = rest])
  /\ UNCHANGED staff

\* /keys/issue
IssueRoute(r, e, panels) == \E k \in Keys :
  StartWriting(r, "issue", e, k, panels, {})

\* /keys/create-and-issue: a key nobody has used stands for the created one.
CreateAndIssueRoute(r, e, panels) == \E k \in Keys :
  /\ ~Occupied(k)
  /\ \A f \in Employees : rows[f][k] = "none"
  /\ StartWriting(r, "issue", e, k, panels, {})

\* /keys/add: several keys, each written and issued before the next one.
AddKeysRoute(r, e, panels) == \E keys \in SUBSET Keys, k \in Keys :
  /\ k \in keys
  /\ StartWriting(r, "add", e, k, panels, keys \ {k})

\* /employees/write, in exchange for the keys the employee has.
WriteRoute(r, e, panels) == \E k \in Keys :
  StartWriting(r, "write", e, k, panels, {})

WritingPage(r) == \E e \in Employees, panels \in (SUBSET Panels) \ {{}} :
  \/ IssueRoute(r, e, panels) \/ CreateAndIssueRoute(r, e, panels)
  \/ AddKeysRoute(r, e, panels) \/ WriteRoute(r, e, panels)

\* The key in hand is done with: the next one, or the answer to the user.
NextKey(r) ==
  LET t == task[r]
  IN IF t.kind # "add" \/ t.rest = {} THEN Respond(r)
     ELSE \E k \in t.rest :
            /\ Go(r, "lock")
            /\ Update(r, WriteRequest(k, t.panels))
            /\ SetTask(r, [t EXCEPT !.step = "written", !.key = k,
                                    !.rest = @ \ {k}])

\* Mutant of Confirmed: the answers of the panels are not looked at.
WriterReplied(r) == req[r].outcome # "none"

\* Some panel has the key, by this writer or an earlier one.
Confirmed(r) == req[r].wrote # {}

NotWritten(r) ==
  /\ AtStep(r, "written")
  /\ ~Confirmed(r)
  /\ NextKey(r)
  /\ UNCHANGED <<store, crm, lock, unconfirmed, bounds, staff>>

Written(r) ==
  /\ AtStep(r, "written")
  /\ Confirmed(r)
  /\ Turn(r, IF task[r].kind = "write" THEN "readOld" ELSE "check")
  /\ UNCHANGED <<vars, staff>>

-----------------------------------------------------------------------------
(* Releasing the keys an employee has: one lifecycle release after the     *)
(* other, until one of them fails.                                         *)

\* Mutant of KeysToRelease: the list is empty.
NothingToRelease(t) == {k \in Keys : t.kind = "none"}

\* _release_replaced_employee_keys leaves out the new key.
KeysToRelease(t) == ActiveKeys(t.who) \ {t.key}

AfterReleases(t) == IF t.kind = "write" THEN "check" ELSE "dismiss"

WithRest(t, rest) ==
  [t EXCEPT !.rest = rest,
            !.step = IF rest = {} THEN AfterReleases(t) ELSE "release"]

ReadOldKeys(r) ==
  /\ AtStep(r, "readOld")
  /\ SetTask(r, WithRest(task[r], KeysToRelease(task[r])))
  /\ UNCHANGED <<vars, staff>>

\* Mutant of StartDismiss: the employee is disabled before the releases.
StartDismissDisabled(r) == \E e \in Employees :
  LET t == [NoTask EXCEPT !.kind = "dismiss", !.who = e]
  IN /\ pc[r] = "idle"
     /\ Admit({})
     /\ Go(r, "reply")
     /\ SetTask(r, WithRest(t, KeysToRelease(t)))
     /\ enabled' = [enabled EXCEPT ![e] = FALSE]
     /\ UNCHANGED <<store, crm, lock, req, unconfirmed, crashes, rows, assignee>>

\* A dismissal starts from any card; dismiss_employee looks at enabled itself.
StartDismiss(r) == \E e \in Employees :
  LET t == [NoTask EXCEPT !.kind = "dismiss", !.who = e]
  IN /\ pc[r] = "idle"
     /\ Admit({})
     /\ Go(r, "reply")
     /\ SetTask(r, WithRest(t, KeysToRelease(t)))
     /\ UNCHANGED <<store, crm, lock, req, unconfirmed, crashes, staff>>

ReleaseOld(r, k) ==
  /\ AtStep(r, "release")
  /\ k \in task[r].rest
  /\ Update(r, Snapshot("release", k))
  /\ Go(r, "find")
  /\ Turn(r, "released")
  /\ UNCHANGED <<store, crm, lock, unconfirmed, bounds, staff>>

\* Mutant of ReleaseOk: the result of the release is not looked at.
ReleaseAny(r) == req[r].kind = "release"

ReleaseOk(r) == req[r].outcome = "SUCCESS"

OldReleased(r) ==
  /\ AtStep(r, "released")
  /\ ReleaseOk(r)
  /\ SetTask(r, WithRest(task[r], task[r].rest \ {req[r].key}))
  /\ UNCHANGED <<vars, staff>>

ReleaseStopped(r) ==
  /\ AtStep(r, "released")
  /\ ~ReleaseOk(r)
  /\ Respond(r)
  /\ UNCHANGED <<store, crm, lock, unconfirmed, bounds, staff>>

-----------------------------------------------------------------------------
(* issue_key_to_employee.  READ COMMITTED: the employee is read without a  *)
(* lock, so others may commit before the locked key is looked at.          *)

CheckEmployee(r) ==
  /\ AtStep(r, "check")
  /\ IF enabled[task[r].who] THEN Turn(r, "insert") /\ UNCHANGED vars
     ELSE /\ NextKey(r)
          /\ UNCHANGED <<store, crm, lock, unconfirmed, bounds>>
  /\ UNCHANGED staff

OthersHold(e, k) == Holders(k) \ {e} # {}

\* Mutant of AssignEmployee: an active assignment is kept whoever it names.
AssignUnlessAssigned(e, k) ==
  /\ IF assignment[k] # 0
       THEN UNCHANGED <<keyStatus, place, assignment, serial, assignee>>
       ELSE /\ NewAssignment(k, Service)
            /\ assignee' = [assignee EXCEPT ![k] = e]

AssignEmployee(e, k) ==
  /\ IF assignee[k] = e
       THEN /\ keyStatus' = [keyStatus EXCEPT ![k] = "issued"]
            /\ place' = [place EXCEPT ![k] = Service]
            /\ UNCHANGED <<assignment, serial>>
       ELSE NewAssignment(k, Service)
  /\ assignee' = [assignee EXCEPT ![k] = e]

InsertRow(r) ==
  LET e == task[r].who k == task[r].key
  IN /\ AtStep(r, "insert")
     /\ IF OthersHold(e, k) \/ k \in ActiveKeys(e)
          THEN UNCHANGED <<keyStatus, assignment, place, serial, staff>>
          ELSE /\ rows' = [rows EXCEPT ![e][k] = "active"]
               /\ AssignEmployee(e, k)
               /\ UNCHANGED enabled
     /\ NextKey(r)
     /\ UNCHANGED <<row, ops, crm, lock, unconfirmed, bounds>>

-----------------------------------------------------------------------------
(* Closing, dismissing, restoring.                                         *)

\* /keys/close and /keys/remove: the row may have been closed since the page
\* was read, the lifecycle releases its key all the same.
StartClose(r) ==
  \E e \in Employees, k \in Keys, final \in {"free", "retired"} :
    /\ rows[e][k] # "none"
    /\ Start(r, {k}, "find", [Snapshot("release", k) EXCEPT !.final = final])
    /\ UNCHANGED <<staff, task>>

\* The transaction of dismiss_employee has read its keys ...
ReadDismissed(r) ==
  LET t == task[r]
  IN /\ AtStep(r, "dismiss")
     /\ IF enabled[t.who]
          THEN /\ SetTask(r, [t EXCEPT !.step = "commit",
                                       !.rest = ActiveKeys(t.who)])
               /\ UNCHANGED vars
          ELSE /\ Respond(r)
               /\ UNCHANGED <<store, crm, lock, unconfirmed, bounds>>
     /\ UNCHANGED staff

\* Every active row of the employee, and every row of the released keys.
CloseRowsOf(e, keys) ==
  [f \in Employees |-> [k \in Keys |->
     IF rows[f][k] = "active" /\ (f = e \/ k \in keys) THEN "closed"
                                                       ELSE rows[f][k]]]

\* ... and closes them: release_key_on_connection asks neither CRM nor panels.
Dismiss(r) ==
  LET e == task[r].who keys == task[r].rest
  IN /\ AtStep(r, "commit")
     /\ rows' = CloseRowsOf(e, keys)
     /\ assignee' = [k \in Keys |-> IF k \in keys THEN NoEmployee
                                                  ELSE assignee[k]]
     /\ assignment' = [k \in Keys |-> IF k \in keys THEN 0 ELSE assignment[k]]
     /\ place' = [k \in Keys |-> IF k \in keys THEN NoPlace ELSE place[k]]
     /\ keyStatus' = [k \in Keys |-> IF k \in keys THEN "free"
                                                   ELSE keyStatus[k]]
     /\ enabled' = [enabled EXCEPT ![e] = FALSE]
     /\ Respond(r)
     /\ UNCHANGED <<serial, row, ops, crm, lock, unconfirmed, bounds>>

Restore(e) ==
  /\ ~enabled[e]
  /\ Admit({})
  /\ enabled' = [enabled EXCEPT ![e] = TRUE]
  /\ UNCHANGED <<store, crm, lock, pc, req, unconfirmed, crashes, rows,
                 assignee, task>>

-----------------------------------------------------------------------------
(* The services called, and what they do to the books of the employees.    *)

\* r has made the local release, finalize_release.
Released(r) == pc[r] = "finalize" /\ pc'[r] \in {"close", "ensure"}
               /\ ~ResumedWritePhase(r)

\* The release closes the row of the key, and so does an assignment to anything
\* but an employee (set_key_assignment_on_connection).
RowsClosedBy(r) ==
  \/ Released(r)
  \/ /\ pc[r] = "write" /\ pc'[r] = "recordSteps"
     /\ req[r].kind = "reassign" /\ req[r].wrote # {}

StaffFollows(r) ==
  LET k == req[r].key
  IN IF RowsClosedBy(r)
       THEN /\ rows' = [e \in Employees |->
                 [rows[e] EXCEPT ![k] = IF @ = "active" THEN "closed" ELSE @]]
            /\ assignee' = [assignee EXCEPT ![k] = NoEmployee]
            /\ UNCHANGED enabled
       ELSE UNCHANGED staff

ServiceStep(r) ==
  /\ Progress(r) \/ AcquireLock(r)
  /\ pc[r] = "reply" => task[r] = NoTask
  /\ StaffFollows(r)
  /\ UNCHANGED task

\* Another page moves the key to an address.
StartMove(r) == StartReassign(r) /\ UNCHANGED <<staff, task>>

LoseTask(r) == Crash(r) /\ SetTask(r, NoTask) /\ UNCHANGED staff

EmployeePage(r) ==
  \/ WritingPage(r) \/ NotWritten(r) \/ Written(r)
  \/ ReadOldKeys(r) \/ OldReleased(r) \/ ReleaseStopped(r)
  \/ \E k \in Keys : ReleaseOld(r, k)
  \/ CheckEmployee(r) \/ InsertRow(r)
  \/ StartClose(r) \/ StartDismiss(r) \/ ReadDismissed(r) \/ Dismiss(r)

\* Under a careful schedule a task is finished, or lost, before the next one.
OneAtATime == \A q, r \in Requests : q # r => pc[q] = "idle" \/ pc[r] = "idle"

Bounded ==
  /\ jobs <= schedule.tasks
  /\ crashes <= schedule.losses
  /\ schedule.careful => OneAtATime

StaffNext ==
  /\ \/ \E r \in Requests :
          EmployeePage(r) \/ ServiceStep(r) \/ StartMove(r) \/ LoseTask(r)
     \/ \E e \in Employees : Restore(e)
  /\ UNCHANGED schedule
  /\ Bounded'

StaffSpec == StaffInit /\ [][StaffNext]_staffVars

-----------------------------------------------------------------------------
(* Properties.                                                             *)

Tasks ==
  [kind : {"none", "issue", "add", "write", "dismiss"},
   step : {"none", "written", "readOld", "release", "released", "check",
           "insert", "dismiss", "commit"},
   who : Employees \cup {NoEmployee}, key : Keys \cup {NoKey},
   panels : SUBSET Panels, rest : SUBSET Keys]

\* The tables of models.py and what a task has in hand.
StaffTypeOK ==
  /\ TypeOK
  /\ enabled \in [Employees -> BOOLEAN]
  /\ rows \in [Employees -> [Keys -> EmployeeRows]]
  /\ assignee \in [Keys -> Employees \cup {NoEmployee}]
  /\ task \in [Requests -> Tasks]

\* employee_keys and key_assignments tell the same story: an active row means
\* that the active assignment names this employee, and so no other one, and that
\* the key is not in stock,
\* through issues, releases, moves and dismissals that interleave
\* (employee_repository.py:599-757, key_lifecycle_repository.py:419-496).
HolderIsAssigned ==
  /\ StaffTypeOK
  /\ \A e \in Employees, k \in Keys : rows[e][k] = "active" =>
       assignee[k] = e /\ assignment[k] # 0 /\ keyStatus[k] = "issued"

\* When tasks follow each other, dismissed employees hold no key: "Сотрудник
\* увольняется мягко: enabled = 0, активные выдачи закрываются",
\* docs/database.md:430.
DismissedHoldNothing == schedule.careful =>
  \A e \in Employees : ~enabled[e] => ActiveKeys(e) = {}

\* No page lets go of a key locally that the CRM still has on a panel:
\* the dismissal, which asks nobody, comes after the releases.
FreedMeansGone ==
  [][schedule.careful => \A k \in Keys :
       assignment[k] # 0 /\ assignment'[k] = 0 =>
         crm[k] \subseteq unconfirmed[k]]_staffVars

\* An employee who gets a key in exchange for the others has that one only,
\* in however many attempts ("Remove every previous employee key before closing
\* its local history", employees.py:103).
ExchangeLeavesOne ==
  [][schedule.careful => \A r \in Requests :
       /\ AtStep(r, "insert") /\ task[r].kind = "write"
       /\ pc'[r] = "idle" /\ crashes' = crashes
       => \A k \in Keys : rows'[task[r].who][k] = "active"
                            => k = task[r].key]_staffVars

\* The old keys are taken away only when some panel has the new one.
ExchangeAfterWrite == schedule.careful => \A r \in Requests :
  task[r].kind = "write" /\ task[r].step \in {"released", "check", "insert"} =>
    Live(task[r].key) # {}
=============================================================================
