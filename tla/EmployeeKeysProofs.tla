------------------------- MODULE EmployeeKeysProofs -------------------------
(***************************************************************************)
(* Safety of EmployeeKeys for any employees, keys, panels, requests and    *)
(* schedules: employee_keys and key_assignments agree however the pages    *)
(* interleave; when tasks follow each other a dismissed employee holds no  *)
(* key, nothing is let go that a panel opens, and an exchange of keys      *)
(* writes the new one first and leaves no other.                           *)
(*                                                                         *)
(* The services are those of KeyLifecycle, whose own invariant HandInv     *)
(* (KeyLifecycleProofs) they keep here too; a page takes its thread only   *)
(* where a service has replied.                                            *)
(***************************************************************************)
EXTENDS EmployeeKeys, KeyLifecycleProofs

PageKinds == {"issue", "add", "write"}

\* What a thread of the employee pages has in hand at each of its steps.
TaskFits(r) ==
  /\ pc[r] = "idle" => task[r] = NoTask
  /\ task[r].kind # "none" => task[r].who \in Employees
  /\ task[r].kind \in PageKinds => task[r].key \in Keys
  /\ task[r].step \in {"written", "check", "insert"} => task[r].kind \in PageKinds
  /\ task[r].step = "readOld" => task[r].kind = "write"
  /\ task[r].step \in {"release", "released"} => task[r].kind \in {"write", "dismiss"}
  /\ task[r].step \in {"dismiss", "commit"} => task[r].kind = "dismiss"

\* The pages call no replacement, and nobody writes a key for an address.
Page(r) == req[r].kind \in {"none", "release", "reassign", "add"} /\ TaskFits(r)

StaffTables ==
  /\ enabled \in [Employees -> BOOLEAN]
  /\ rows \in [Employees -> [Keys -> EmployeeRows]]
  /\ assignee \in [Keys -> Employees \cup {NoEmployee}]

StaffInv ==
  /\ HandInv
  /\ StaffTables
  /\ task \in [Requests -> Tasks]
  /\ \A r \in Requests : Page(r)

\* employee_keys and the active key_assignments agree.
BooksAgree ==
  /\ \A k \in Keys : assignee[k] # NoEmployee => assignment[k] # 0
  /\ \A e \in Employees, k \in Keys : rows[e][k] = "active" =>
       assignee[k] = e /\ assignment[k] # 0 /\ keyStatus[k] = "issued"

-----------------------------------------------------------------------------
(* Frames.                                                                 *)

\* A step of thread r leaves the pages of the other threads as they are.
LEMMA PagesKept ==
  ASSUME StaffInv, NEW r \in Requests, OnlyMoves(r), NEW t \in Tasks,
         SetTask(r, t), task'[r] = t => Page(r)'
  PROVE  task' \in [Requests -> Tasks] /\ \A s \in Requests : Page(s)'
<1>1. task' \in [Requests -> Tasks] /\ task'[r] = t
      /\ \A s \in Requests \ {r} : task'[s] = task[s]
  BY DEF StaffInv, SetTask
<1>2. ASSUME NEW s \in Requests \ {r} PROVE Page(s)'
  BY <1>1 DEF StaffInv, OnlyMoves, Page, TaskFits
<1> QED BY <1>1, <1>2

\* The same for a step of a service, which leaves the task alone.
LEMMA PagesKeptByService ==
  ASSUME StaffInv, NEW r \in Requests, OnlyMoves(r), UNCHANGED task, Page(r)'
  PROVE  task' \in [Requests -> Tasks] /\ \A s \in Requests : Page(s)'
<1>1. ASSUME NEW s \in Requests \ {r} PROVE Page(s)'
  BY DEF StaffInv, OnlyMoves, Page, TaskFits
<1> QED BY <1>1 DEF StaffInv

\* Who changes neither the rows nor the assignments keeps them in agreement.
LEMMA AgreeFrame ==
  ASSUME BooksAgree, UNCHANGED <<assignee, rows, assignment, keyStatus>>
  PROVE  BooksAgree'
BY DEF BooksAgree

\* A thread that serves nobody, and the task of one, are well typed.
LEMMA NoTaskTyped == NoTask \in Tasks
BY DEF NoTask, Tasks

\* The request to write an employee's key is well typed.
LEMMA WriteRequestTyped ==
  ASSUME TypeOK, NEW k \in Keys, NEW panels \in SUBSET Panels
  PROVE  /\ WriteRequest(k, panels) \in RequestRecords
         /\ WriteRequest(k, panels).kind = "add"
         /\ WriteRequest(k, panels).key = k
<1>1. Snapshot("add", k) \in RequestRecords /\ Snapshot("add", k).kind = "add"
      /\ Snapshot("add", k).key = k
  BY SnapshotTyped
<1>2. Live(k) \subseteq Panels /\ Service \in Places
  BY ServiceAssumption DEF Live
<1> QED BY <1>1, <1>2 DEF WriteRequest, RequestRecords

\* Who leaves the tables of the keys, the CRM and the lock alone keeps them typed.
LEMMA RestFrame ==
  ASSUME HandInv, UNCHANGED <<store, crm, lock, unconfirmed>>,
         jobs' \in Nat, crashes' \in Nat
  PROVE  RestTyped' /\ ops' = ops
BY DEF HandInv, TypeOK, StoreTypeOK, RestTyped, store

\* What a step of thread r, whatever it serves, has to establish.
LEMMA PageStep ==
  ASSUME StaffInv, HandInv', StaffTables', NEW r \in Requests, OnlyMoves(r),
         NEW t \in Tasks, SetTask(r, t), task'[r] = t => Page(r)'
  PROVE  StaffInv'
BY PagesKept DEF StaffInv

\* A page that hands a request to a service, or is over, leaves the rest of
\* what the threads have in hand.
LEMMA HandStep ==
  ASSUME StaffInv, NEW r \in Requests, NEW q \in RequestRecords, Update(r, q),
         NEW label \in {"idle", "find", "lock"}, Go(r, label),
         label = "idle" => q.kind = "none",
         label = "find" => q.kind = "release",
         label = "lock" => q.kind = "add",
         label # "idle" => q.key \in Keys,
         RestTyped', ops' = ops
  PROVE  HandInv' /\ OnlyMoves(r) /\ pc'[r] = label /\ req'[r] = q
<1>0. HandInv /\ TypeOK /\ label \in Labels
  BY DEF StaffInv, HandInv, Labels
<1>1. OnlyMoves(r) /\ pc'[r] = label /\ req'[r] = q
  BY <1>0, GoMoves, GoTyped, UpdateTyped
<1>2. RequestOK(r)'
  BY <1>1
  DEF RequestOK, DeleteLabels, ReplaceLabels, WriterLabels, CallLabels, OpTypes
<1> QED BY <1>0, <1>1, <1>2, StepTyped

\* The thread of a page that is over.
LEMMA RespondKeeps ==
  ASSUME StaffInv, StaffTables', NEW r \in Requests, Respond(r),
         RestTyped', ops' = ops
  PROVE  StaffInv'
<1>1. Go(r, "idle") /\ Update(r, NoRequest) /\ SetTask(r, NoTask)
  BY DEF Respond
<1>2. HandInv' /\ OnlyMoves(r) /\ pc'[r] = "idle" /\ req'[r] = NoRequest
  BY <1>1, NoRequestTyped, HandStep
<1>3. task'[r] = NoTask => Page(r)'
  BY <1>2, NoRequestTyped DEF Page, TaskFits, NoTask, PageKinds
<1> QED BY <1>1, <1>2, <1>3, NoTaskTyped, PageStep

\* The thread of a page that has done with a key: the next one, or the answer.
LEMMA NextKeyKeeps ==
  ASSUME StaffInv, StaffTables', NEW r \in Requests, NextKey(r),
         RestTyped', ops' = ops
  PROVE  StaffInv'
<1>1. CASE Respond(r)
  BY <1>1, RespondKeeps
<1>2. CASE ~Respond(r)
  <2> DEFINE t == task[r]
  <2>0. TypeOK /\ t \in Tasks /\ Page(r)
    BY DEF StaffInv, HandInv
  <2>1. PICK k \in t.rest :
          /\ t.kind = "add"
          /\ Go(r, "lock") /\ Update(r, WriteRequest(k, t.panels))
          /\ SetTask(r, [t EXCEPT !.step = "written", !.key = k,
                                  !.rest = @ \ {k}])
    BY <1>2 DEF NextKey
  <2> DEFINE u == [t EXCEPT !.step = "written", !.key = k, !.rest = @ \ {k}]
             q == WriteRequest(k, t.panels)
  <2>2. k \in Keys /\ t.panels \in SUBSET Panels
    BY <2>0, <2>1 DEF Tasks
  <2>3. u \in Tasks /\ u.kind = "add" /\ u.step = "written" /\ u.key = k
        /\ u.who = t.who
    BY <2>0, <2>1, <2>2 DEF Tasks
  <2>4. q \in RequestRecords /\ q.kind = "add" /\ q.key = k
    BY <2>0, <2>2, WriteRequestTyped
  <2>5. Update(r, q) /\ SetTask(r, u)
    BY <2>1
  <2>6. t.who \in Employees
    BY <2>0, <2>1 DEF Page, TaskFits
  <2> HIDE DEF q, u, t
  <2>7. HandInv' /\ OnlyMoves(r) /\ pc'[r] = "lock" /\ req'[r] = q
    BY <2>1, <2>2, <2>4, <2>5, HandStep
  <2>8. task'[r] = u => Page(r)'
    BY <2>2, <2>3, <2>4, <2>6, <2>7 DEF Page, TaskFits, PageKinds
  <2> QED BY <2>3, <2>5, <2>7, <2>8, PageStep
<1> QED BY <1>1, <1>2

\* A page that only turns to its next step.
LEMMA TurnKeeps ==
  ASSUME StaffInv, NEW r \in Requests, UNCHANGED <<vars, staff>>,
         pc[r] # "idle", NEW t \in Tasks, SetTask(r, t),
         t.kind = task[r].kind, t.who = task[r].who, t.key = task[r].key,
         t.step \in {"written", "check", "insert"} => t.kind \in PageKinds,
         t.step = "readOld" => t.kind = "write",
         t.step \in {"release", "released"} => t.kind \in {"write", "dismiss"},
         t.step \in {"dismiss", "commit"} => t.kind = "dismiss"
  PROVE  StaffInv'
<1>1. HandInv'
  BY NextTyped DEF StaffInv
<1>2. StaffTables' /\ OnlyMoves(r) /\ pc'[r] = pc[r] /\ req'[r] = req[r]
  BY DEF StaffInv, StaffTables, staff, vars, OnlyMoves
<1>3. task'[r] = t => Page(r)'
  BY <1>2 DEF StaffInv, Page, TaskFits
<1> QED BY <1>1, <1>2, <1>3, PageStep

-----------------------------------------------------------------------------
(* The pages.                                                              *)

\* A page begins to write keys.
LEMMA StartWritingKeeps ==
  ASSUME StaffInv, NEW r \in Requests, NEW kind \in PageKinds,
         NEW e \in Employees, NEW k \in Keys, NEW panels \in SUBSET Panels,
         NEW rest \in SUBSET Keys, StartWriting(r, kind, e, k, panels, rest)
  PROVE  StaffInv'
<1> DEFINE t == [NoTask EXCEPT !.kind = kind, !.step = "written", !.who = e,
                               !.key = k, !.panels = panels, !.rest = rest]
           q == WriteRequest(k, panels)
<1>0. HandInv /\ TypeOK
  BY DEF StaffInv, HandInv
<1>1. t \in Tasks /\ t.kind = kind /\ t.step = "written" /\ t.who = e /\ t.key = k
  BY DEF NoTask, Tasks, PageKinds
<1>2. q \in RequestRecords /\ q.kind = "add" /\ q.key = k
  BY <1>0, WriteRequestTyped
<1>3. /\ SetTask(r, t) /\ Go(r, "lock") /\ Update(r, q)
      /\ UNCHANGED <<store, crm, lock, unconfirmed, crashes, staff>>
      /\ jobs' = jobs + 1
  BY DEF StartWriting, Start, Admit
<1> HIDE DEF t, q
<1>4. RestTyped' /\ ops' = ops
  BY <1>0, <1>3, RestFrame DEF TypeOK
<1>5. HandInv' /\ OnlyMoves(r) /\ pc'[r] = "lock" /\ req'[r] = q
  BY <1>2, <1>3, <1>4, HandStep
<1>6. task'[r] = t => Page(r)'
  BY <1>1, <1>2, <1>5 DEF Page, TaskFits, PageKinds
<1>7. StaffTables'
  BY <1>3 DEF StaffInv, StaffTables, staff
<1> QED BY <1>1, <1>3, <1>5, <1>6, <1>7, PageStep

\* The four writing pages.
LEMMA WritingPageKeeps ==
  ASSUME StaffInv, BooksAgree, NEW r \in Requests, WritingPage(r)
  PROVE  StaffInv' /\ BooksAgree'
<1>1. PICK e \in Employees, panels \in SUBSET Panels, k \in Keys,
           rest \in SUBSET Keys, kind \in PageKinds :
        StartWriting(r, kind, e, k, panels, rest)
  BY DEF WritingPage, IssueRoute, CreateAndIssueRoute, AddKeysRoute, WriteRoute,
         PageKinds
<1>2. UNCHANGED <<assignee, rows, assignment, keyStatus>>
  BY <1>1 DEF StartWriting, Start, store, staff
<1> QED BY <1>1, <1>2, StartWritingKeeps, AgreeFrame

\* The writer has replied: nothing written, or some panel has the key.
LEMMA WrittenKeeps ==
  ASSUME StaffInv, BooksAgree, NEW r \in Requests, NotWritten(r) \/ Written(r)
  PROVE  StaffInv' /\ BooksAgree'
<1>0. HandInv /\ TypeOK /\ task[r] \in Tasks /\ Page(r)
  BY DEF StaffInv, HandInv
<1>1. CASE NotWritten(r)
  <2>1. RestTyped' /\ ops' = ops
    BY <1>0, <1>1, RestFrame DEF NotWritten, bounds, TypeOK
  <2>2. StaffTables'
    BY <1>1 DEF NotWritten, StaffInv, StaffTables, staff
  <2> QED BY <1>1, <2>1, <2>2, NextKeyKeeps, AgreeFrame DEF NotWritten, store, staff
<1>2. CASE Written(r)
  <2> DEFINE step == IF task[r].kind = "write" THEN "readOld" ELSE "check"
             t == [task[r] EXCEPT !.step = step]
  <2>1. t \in Tasks /\ t.kind = task[r].kind /\ t.who = task[r].who
        /\ t.key = task[r].key /\ t.step = step
    BY <1>0 DEF Tasks
  <2>2. SetTask(r, t) /\ UNCHANGED <<vars, staff>> /\ pc[r] # "idle"
        /\ task[r].kind \in PageKinds
    BY <1>0, <1>2 DEF Written, Turn, AtStep, Page, TaskFits
  <2> HIDE DEF t
  <2>3. StaffInv'
    BY <2>1, <2>2, TurnKeeps
  <2> QED BY <2>2, <2>3, AgreeFrame DEF vars, store, staff
<1> QED BY <1>1, <1>2

\* A list of keys to release, whoever reads it.
LEMMA WithRestTyped ==
  ASSUME NEW t \in Tasks, NEW rest \in SUBSET Keys
  PROVE  /\ WithRest(t, rest) \in Tasks
         /\ WithRest(t, rest).kind = t.kind /\ WithRest(t, rest).who = t.who
         /\ WithRest(t, rest).key = t.key
         /\ WithRest(t, rest).step =
              IF rest = {} THEN (IF t.kind = "write" THEN "check" ELSE "dismiss")
                           ELSE "release"
BY DEF WithRest, AfterReleases, Tasks

\* The keys to release have been read, or one of them is released.
LEMMA ReadKeeps ==
  ASSUME StaffInv, BooksAgree, NEW r \in Requests, ReadOldKeys(r) \/ OldReleased(r)
  PROVE  StaffInv' /\ BooksAgree'
<1>0. task[r] \in Tasks /\ Page(r)
  BY DEF StaffInv
<1>1. PICK rest \in SUBSET Keys :
        SetTask(r, WithRest(task[r], rest)) /\ UNCHANGED <<vars, staff>>
  <2>1. KeysToRelease(task[r]) \in SUBSET Keys /\ task[r].rest \in SUBSET Keys
    BY <1>0 DEF KeysToRelease, ActiveKeys, Tasks
  <2> QED BY <2>1 DEF ReadOldKeys, OldReleased
<1>2. pc[r] # "idle" /\ task[r].kind \in {"write", "dismiss"}
  BY <1>0 DEF ReadOldKeys, OldReleased, AtStep, Page, TaskFits
<1> DEFINE t == WithRest(task[r], rest)
<1>3. t \in Tasks /\ t.kind = task[r].kind /\ t.who = task[r].who
      /\ t.key = task[r].key
      /\ t.step = IF rest = {} THEN (IF task[r].kind = "write" THEN "check"
                                                               ELSE "dismiss")
                               ELSE "release"
  BY <1>0, WithRestTyped
<1> HIDE DEF t
<1>4. StaffInv'
  BY <1>1, <1>2, <1>3, TurnKeeps DEF t, PageKinds
<1> QED BY <1>1, <1>4, AgreeFrame DEF vars, store, staff

\* The page of a dismissal is opened.
LEMMA StartDismissKeeps ==
  ASSUME StaffInv, BooksAgree, NEW r \in Requests, StartDismiss(r)
  PROVE  StaffInv' /\ BooksAgree'
<1>0. HandInv /\ TypeOK /\ Page(r)
  BY DEF StaffInv, HandInv
<1>1. PICK e \in Employees :
        LET t == [NoTask EXCEPT !.kind = "dismiss", !.who = e]
        IN /\ SetTask(r, WithRest(t, KeysToRelease(t)))
           /\ pc[r] = "idle" /\ Admit({}) /\ Go(r, "reply")
           /\ UNCHANGED <<store, crm, lock, req, unconfirmed, crashes, staff>>
  BY DEF StartDismiss
<1> DEFINE t == [NoTask EXCEPT !.kind = "dismiss", !.who = e]
           u == WithRest(t, KeysToRelease(t))
<1>2. t \in Tasks /\ t.kind = "dismiss" /\ t.who = e
  BY DEF NoTask, Tasks
<1>3. KeysToRelease(t) \in SUBSET Keys
  BY DEF KeysToRelease, ActiveKeys
<1>4. SetTask(r, u)
  BY <1>1
<1>5. u \in Tasks /\ u.kind = "dismiss" /\ u.who = e
      /\ u.step \in {"dismiss", "release"}
  BY <1>2, <1>3, WithRestTyped
<1> HIDE DEF t, u
<1>6. RestTyped' /\ ops' = ops
  BY <1>0, <1>1, RestFrame DEF Admit, TypeOK
<1>7. "reply" \in Labels /\ pc'[r] = "reply" /\ OnlyMoves(r)
  BY <1>0, <1>1, GoMoves, GoTyped DEF Labels
<1>8. RequestOK(r)'
  BY <1>0, <1>1, <1>6, <1>7
  DEF HandInv, RequestOK, DeleteLabels, ReplaceLabels, WriterLabels, CallLabels
<1>9. HandInv'
  BY <1>0, <1>1, <1>6, <1>7, <1>8, GoStepTyped
<1>10. task'[r] = u => Page(r)'
  BY <1>0, <1>1, <1>5, <1>7 DEF Page, TaskFits, PageKinds
<1>11. StaffTables'
  BY <1>1 DEF StaffInv, StaffTables, staff
<1> QED BY <1>1, <1>4, <1>5, <1>7, <1>9, <1>10, <1>11, PageStep, AgreeFrame
        DEF store, staff

\* A key the employee has is handed to release_key.
LEMMA ReleaseOldKeeps ==
  ASSUME StaffInv, BooksAgree, NEW r \in Requests, NEW k \in Keys, ReleaseOld(r, k)
  PROVE  StaffInv' /\ BooksAgree'
<1>0. HandInv /\ TypeOK /\ task[r] \in Tasks /\ Page(r)
  BY DEF StaffInv, HandInv
<1> DEFINE t == [task[r] EXCEPT !.step = "released"]
           q == Snapshot("release", k)
<1>1. t \in Tasks /\ t.kind = task[r].kind /\ t.who = task[r].who
      /\ t.key = task[r].key /\ t.step = "released"
  BY <1>0 DEF Tasks
<1>2. q \in RequestRecords /\ q.kind = "release" /\ q.key = k
  BY <1>0, SnapshotTyped DEF OpTypes
<1>3. /\ SetTask(r, t) /\ Update(r, q) /\ Go(r, "find")
      /\ UNCHANGED <<store, crm, lock, unconfirmed, bounds, staff>>
      /\ task[r].kind \in {"write", "dismiss"}
  BY <1>0 DEF ReleaseOld, Turn, AtStep, Page, TaskFits
<1> HIDE DEF t, q
<1>4. RestTyped' /\ ops' = ops
  BY <1>0, <1>3, RestFrame DEF bounds, TypeOK
<1>5. HandInv' /\ OnlyMoves(r) /\ pc'[r] = "find" /\ req'[r] = q
  BY <1>2, <1>3, <1>4, HandStep
<1>6. task'[r] = t => Page(r)'
  BY <1>0, <1>1, <1>2, <1>3, <1>5 DEF Page, TaskFits, PageKinds
<1>7. StaffTables'
  BY <1>3 DEF StaffInv, StaffTables, staff
<1> QED BY <1>1, <1>3, <1>5, <1>6, <1>7, PageStep, AgreeFrame DEF store, staff

\* A release has failed and the page stops.
LEMMA ReleaseStoppedKeeps ==
  ASSUME StaffInv, BooksAgree, NEW r \in Requests, ReleaseStopped(r)
  PROVE  StaffInv' /\ BooksAgree'
<1>1. RestTyped' /\ ops' = ops
  BY RestFrame DEF ReleaseStopped, bounds, StaffInv, HandInv, TypeOK
<1>2. StaffTables'
  BY DEF ReleaseStopped, StaffInv, StaffTables, staff
<1> QED BY <1>1, <1>2, RespondKeeps, AgreeFrame DEF ReleaseStopped, store, staff

\* The employee is read before the row is inserted.
LEMMA CheckEmployeeKeeps ==
  ASSUME StaffInv, BooksAgree, NEW r \in Requests, CheckEmployee(r)
  PROVE  StaffInv' /\ BooksAgree'
<1>0. HandInv /\ TypeOK /\ task[r] \in Tasks /\ Page(r)
  BY DEF StaffInv, HandInv
<1>1. CASE enabled[task[r].who]
  <2> DEFINE t == [task[r] EXCEPT !.step = "insert"]
  <2>1. t \in Tasks /\ t.kind = task[r].kind /\ t.who = task[r].who
        /\ t.key = task[r].key /\ t.step = "insert"
    BY <1>0 DEF Tasks
  <2>2. SetTask(r, t) /\ UNCHANGED <<vars, staff>> /\ pc[r] # "idle"
        /\ task[r].kind \in PageKinds
    BY <1>0, <1>1 DEF CheckEmployee, Turn, AtStep, Page, TaskFits
  <2> HIDE DEF t
  <2>3. StaffInv'
    BY <2>1, <2>2, TurnKeeps
  <2> QED BY <2>2, <2>3, AgreeFrame DEF vars, store, staff
<1>2. CASE ~enabled[task[r].who]
  <2>1. NextKey(r) /\ UNCHANGED <<store, crm, lock, unconfirmed, bounds, staff>>
    BY <1>2 DEF CheckEmployee
  <2>2. RestTyped' /\ ops' = ops
    BY <1>0, <2>1, RestFrame DEF bounds, TypeOK
  <2>3. StaffTables'
    BY <2>1 DEF StaffInv, StaffTables, staff
  <2> QED BY <2>1, <2>2, <2>3, NextKeyKeeps, AgreeFrame DEF store, staff
<1> QED BY <1>1, <1>2

\* An assignment made for an employee keeps the tables of the keys typed.
LEMMA AssignEmployeeTyped ==
  ASSUME TypeOK, StaffTables, NEW e \in Employees, NEW k \in Keys,
         AssignEmployee(e, k)
  PROVE  /\ keyStatus' \in [Keys -> KeyStatuses] /\ assignment' \in [Keys -> Nat]
         /\ place' \in [Keys -> Places \cup {NoPlace}] /\ serial' \in Nat
         /\ assignee' \in [Keys -> Employees \cup {NoEmployee}]
<1>1. assignee' \in [Keys -> Employees \cup {NoEmployee}]
  BY DEF AssignEmployee, StaffTables
<1>2. CASE assignee[k] = e
  BY ZenonT(60), <1>1, <1>2, ServiceAssumption
  DEF AssignEmployee, TypeOK, StoreTypeOK, KeyStatuses
<1>3. CASE assignee[k] # e
  <2>1. NewAssignment(k, Service)
    BY <1>3 DEF AssignEmployee
  <2> QED BY <1>1, <2>1, AssignmentTyped, ServiceAssumption
<1> QED BY <1>2, <1>3

\* The employee gets the assignment and the row in one transaction.
LEMMA AssignEmployeeAgrees ==
  ASSUME TypeOK, StaffTables, BooksAgree, NEW e \in Employees, NEW k \in Keys,
         AssignEmployee(e, k), ~OthersHold(e, k),
         rows' = [rows EXCEPT ![e][k] = "active"]
  PROVE  BooksAgree'
<1>1. /\ assignee'[k] = e /\ assignment'[k] # 0 /\ keyStatus'[k] = "issued"
      /\ \A l \in Keys \ {k} : /\ assignee'[l] = assignee[l]
                               /\ assignment'[l] = assignment[l]
                               /\ keyStatus'[l] = keyStatus[l]
  <2>1. CASE assignee[k] = e
    BY <2>1, EmployeesAssumption
    DEF AssignEmployee, BooksAgree, StaffTables, TypeOK, StoreTypeOK
  <2>2. CASE assignee[k] # e
    BY <2>2 DEF AssignEmployee, NewAssignment, StaffTables, TypeOK, StoreTypeOK
  <2> QED BY <2>1, <2>2
<1>2. ASSUME NEW f \in Employees, NEW l \in Keys, rows'[f][l] = "active"
      PROVE  (f = e /\ l = k) \/ (l # k /\ rows[f][l] = "active")
  BY <1>2 DEF OthersHold, Holders, StaffTables
<1> QED BY <1>1, <1>2 DEF BooksAgree

\* issue_key_to_employee: its checks, its row, its assignment, its commit.
LEMMA InsertRowKeeps ==
  ASSUME StaffInv, BooksAgree, NEW r \in Requests, InsertRow(r)
  PROVE  StaffInv' /\ BooksAgree'
<1> DEFINE e == task[r].who
           k == task[r].key
<1>0. HandInv /\ TypeOK /\ StaffTables /\ e \in Employees /\ k \in Keys
  BY DEF StaffInv, HandInv, Page, TaskFits, InsertRow, AtStep, PageKinds
<1>1. NextKey(r) /\ UNCHANGED <<row, ops, crm, lock, unconfirmed, bounds>>
  BY DEF InsertRow
<1>2. CASE OthersHold(e, k) \/ k \in ActiveKeys(e)
  <2>1. UNCHANGED <<keyStatus, assignment, place, serial, staff>>
    BY <1>2 DEF InsertRow
  <2>2. RestTyped' /\ ops' = ops
    BY <1>0, <1>1, <2>1, RestFrame DEF bounds, TypeOK, store
  <2>3. StaffTables'
    BY <2>1 DEF StaffInv, StaffTables, staff
  <2> QED BY <1>1, <2>1, <2>2, <2>3, NextKeyKeeps, AgreeFrame DEF staff
<1>3. CASE ~(OthersHold(e, k) \/ k \in ActiveKeys(e))
  <2>1. /\ rows' = [rows EXCEPT ![e][k] = "active"]
        /\ AssignEmployee(e, k)
        /\ UNCHANGED enabled
    BY <1>3 DEF InsertRow
  <2> HIDE DEF e, k
  <2>2. /\ keyStatus' \in [Keys -> KeyStatuses] /\ assignment' \in [Keys -> Nat]
        /\ place' \in [Keys -> Places \cup {NoPlace}] /\ serial' \in Nat
        /\ assignee' \in [Keys -> Employees \cup {NoEmployee}]
    BY <1>0, <2>1, AssignEmployeeTyped
  <2>3. RestTyped' /\ ops' = ops
    BY <1>0, <1>1, <2>2 DEF RestTyped, TypeOK, StoreTypeOK, bounds
  <2>4. StaffTables'
    BY <1>0, <2>1, <2>2 DEF StaffTables, EmployeeRows
  <2>5. StaffInv'
    BY <1>1, <2>3, <2>4, NextKeyKeeps
  <2>6. BooksAgree'
    BY <1>0, <1>3, <2>1, AssignEmployeeAgrees
  <2> QED BY <2>5, <2>6
<1> QED BY <1>2, <1>3

\* The dismissal reads the keys of the employee in its transaction.
LEMMA ReadDismissedKeeps ==
  ASSUME StaffInv, BooksAgree, NEW r \in Requests, ReadDismissed(r)
  PROVE  StaffInv' /\ BooksAgree'
<1>0. HandInv /\ TypeOK /\ task[r] \in Tasks /\ Page(r)
  BY DEF StaffInv, HandInv
<1>1. CASE enabled[task[r].who]
  <2> DEFINE t == [task[r] EXCEPT !.step = "commit",
                                  !.rest = ActiveKeys(task[r].who)]
  <2>1. ActiveKeys(task[r].who) \in SUBSET Keys
    BY DEF ActiveKeys
  <2>2. t \in Tasks /\ t.kind = task[r].kind /\ t.who = task[r].who
        /\ t.key = task[r].key /\ t.step = "commit"
    BY <1>0, <2>1 DEF Tasks
  <2>3. SetTask(r, t) /\ UNCHANGED <<vars, staff>> /\ pc[r] # "idle"
        /\ task[r].kind = "dismiss"
    BY <1>0, <1>1 DEF ReadDismissed, AtStep, Page, TaskFits
  <2> HIDE DEF t
  <2>4. StaffInv'
    BY <2>2, <2>3, TurnKeeps DEF PageKinds
  <2> QED BY <2>3, <2>4, AgreeFrame DEF vars, store, staff
<1>2. CASE ~enabled[task[r].who]
  <2>1. Respond(r) /\ UNCHANGED <<store, crm, lock, unconfirmed, bounds, staff>>
    BY <1>2 DEF ReadDismissed
  <2>2. RestTyped' /\ ops' = ops
    BY <1>0, <2>1, RestFrame DEF bounds, TypeOK
  <2>3. StaffTables'
    BY <2>1 DEF StaffInv, StaffTables, staff
  <2> QED BY <2>1, <2>2, <2>3, RespondKeeps, AgreeFrame DEF store, staff
<1> QED BY <1>1, <1>2

\* ... and closes them, in the books only.
LEMMA DismissKeeps ==
  ASSUME StaffInv, BooksAgree, NEW r \in Requests, Dismiss(r)
  PROVE  StaffInv' /\ BooksAgree'
<1> DEFINE e == task[r].who
           keys == task[r].rest
<1>0. HandInv /\ TypeOK /\ StaffTables /\ e \in Employees /\ keys \subseteq Keys
  BY DEF StaffInv, HandInv, Page, TaskFits, Dismiss, AtStep, Tasks
<1>1. /\ rows' = CloseRowsOf(e, keys)
      /\ assignee' = [k \in Keys |-> IF k \in keys THEN NoEmployee
                                                   ELSE assignee[k]]
      /\ assignment' = [k \in Keys |-> IF k \in keys THEN 0 ELSE assignment[k]]
      /\ place' = [k \in Keys |-> IF k \in keys THEN NoPlace ELSE place[k]]
      /\ keyStatus' = [k \in Keys |-> IF k \in keys THEN "free"
                                                    ELSE keyStatus[k]]
      /\ enabled' = [enabled EXCEPT ![e] = FALSE]
      /\ Respond(r)
      /\ UNCHANGED <<serial, row, ops, crm, lock, unconfirmed, bounds>>
  BY DEF Dismiss
<1> HIDE DEF e, keys
<1>2. RestTyped' /\ ops' = ops
  <2>1. keyStatus' \in [Keys -> KeyStatuses]
    BY <1>0, <1>1 DEF TypeOK, StoreTypeOK, KeyStatuses
  <2>2. assignment' \in [Keys -> Nat] /\ place' \in [Keys -> Places \cup {NoPlace}]
    BY <1>0, <1>1 DEF TypeOK, StoreTypeOK
  <2> QED BY <1>0, <1>1, <2>1, <2>2 DEF RestTyped, TypeOK, StoreTypeOK, bounds
<1>3. StaffTables'
  BY <1>0, <1>1 DEF StaffTables, CloseRowsOf, EmployeeRows
<1>4. StaffInv'
  BY <1>1, <1>2, <1>3, RespondKeeps
<1>5. ASSUME NEW f \in Employees, NEW k \in Keys, rows'[f][k] = "active"
      PROVE  rows[f][k] = "active" /\ k \notin keys
  BY <1>1, <1>5 DEF CloseRowsOf
<1>6. BooksAgree'
  BY <1>0, <1>1, <1>5 DEF BooksAgree
<1> QED BY <1>4, <1>6

\* A dismissed employee is taken back.
LEMMA RestoreKeeps ==
  ASSUME StaffInv, BooksAgree, NEW e \in Employees, Restore(e)
  PROVE  StaffInv' /\ BooksAgree'
<1>1. HandInv'
  <2>1. HandInv /\ TypeOK /\ RestTyped' /\ ops' = ops /\ pc' = pc /\ req' = req
    BY RestFrame DEF StaffInv, HandInv, TypeOK, Restore, Admit, store
  <2> QED BY <2>1, OthersOK DEF HandInv, TypeOK, RestTyped
<1>2. StaffTables'
  BY DEF Restore, StaffInv, StaffTables
<1>3. \A s \in Requests : Page(s)'
  BY DEF Restore, StaffInv, Page, TaskFits
<1> QED BY <1>1, <1>2, <1>3, AgreeFrame DEF Restore, StaffInv, store

-----------------------------------------------------------------------------
(* The services.                                                           *)

\* A page that hands its thread to the lifecycle at once.
LEMMA StartServiceKeeps ==
  ASSUME StaffInv, BooksAgree, NEW r \in Requests, NEW ks,
         NEW request \in RequestRecords, Start(r, ks, "find", request),
         request.kind \in {"release", "reassign"}, request.key \in Keys,
         UNCHANGED <<staff, task>>
  PROVE  StaffInv' /\ BooksAgree'
<1>0. HandInv /\ TypeOK /\ Page(r)
  BY DEF StaffInv, HandInv
<1>1. HandInv'
  BY <1>0, StartTyped DEF OpTypes
<1>2. OnlyMoves(r) /\ pc'[r] = "find" /\ req'[r] = request /\ pc[r] = "idle"
  BY <1>0, GoMoves, GoTyped, UpdateTyped DEF Start, Labels
<1>3. Page(r)'
  BY <1>0, <1>2 DEF Page, TaskFits
<1>4. StaffTables' /\ UNCHANGED <<assignee, rows, assignment, keyStatus>>
  BY DEF StaffInv, StaffTables, staff, Start, store
<1> QED BY <1>1, <1>2, <1>3, <1>4, PagesKeptByService, AgreeFrame DEF StaffInv

\* A key of an employee is released from its card or from the list.
LEMMA StartCloseKeeps ==
  ASSUME StaffInv, BooksAgree, NEW r \in Requests, StartClose(r)
  PROVE  StaffInv' /\ BooksAgree'
<1>0. TypeOK
  BY DEF StaffInv, HandInv
<1>1. PICK k \in Keys, final \in {"free", "retired"} :
        /\ Start(r, {k}, "find", [Snapshot("release", k) EXCEPT !.final = final])
        /\ UNCHANGED <<staff, task>>
  BY DEF StartClose
<1> DEFINE request == [Snapshot("release", k) EXCEPT !.final = final]
<1>2. Snapshot("release", k) \in RequestRecords
      /\ Snapshot("release", k).kind = "release" /\ Snapshot("release", k).key = k
  BY <1>0, SnapshotTyped DEF OpTypes
<1>3. request \in RequestRecords /\ request.kind = "release" /\ request.key = k
  BY <1>2 DEF RequestRecords, KeyStatuses
<1>4. Start(r, {k}, "find", request)
  BY <1>1
<1> HIDE DEF request
<1> QED BY <1>1, <1>3, <1>4, StartServiceKeeps

\* A key is moved to an address from its card.
LEMMA StartMoveKeeps ==
  ASSUME StaffInv, BooksAgree, NEW r \in Requests, StartMove(r)
  PROVE  StaffInv' /\ BooksAgree'
<1>0. TypeOK
  BY DEF StaffInv, HandInv
<1>1. PICK k \in Keys, where \in Places, wanted \in (SUBSET Panels) \ {{}} :
        \E request \in
            {[Snapshot("reassign", k) EXCEPT !.where = where, !.wanted = wanted],
             [[Snapshot("reassign", k) EXCEPT !.where = where, !.wanted = wanted]
               EXCEPT !.target = wanted, !.to = where]} :
          Start(r, {k}, "find", request)
  BY DEF StartMove, StartReassign
<1> DEFINE short == [Snapshot("reassign", k) EXCEPT !.where = where,
                                                    !.wanted = wanted]
           long == [short EXCEPT !.target = wanted, !.to = where]
<1>2. Snapshot("reassign", k) \in RequestRecords
      /\ Snapshot("reassign", k).kind = "reassign" /\ Snapshot("reassign", k).key = k
  BY <1>0, SnapshotTyped DEF OpTypes
<1>3. short \in RequestRecords /\ short.kind = "reassign" /\ short.key = k
  BY <1>2 DEF RequestRecords
<1>4. long \in RequestRecords /\ long.kind = "reassign" /\ long.key = k
  BY <1>3 DEF RequestRecords
<1>5. PICK request \in {short, long} : Start(r, {k}, "find", request)
  BY <1>1
<1>6. UNCHANGED <<staff, task>>
  BY DEF StartMove
<1> HIDE DEF short, long
<1> QED BY SMTT(60), <1>3, <1>4, <1>5, <1>6, StartServiceKeeps

\* The worker of a thread is lost.
LEMMA LoseTaskKeeps ==
  ASSUME StaffInv, BooksAgree, NEW r \in Requests, LoseTask(r)
  PROVE  StaffInv' /\ BooksAgree'
<1>0. HandInv /\ TypeOK
  BY DEF StaffInv, HandInv
<1>1. HandInv' /\ OnlyMoves(r)
  BY <1>0, CrashTyped, StepMoves DEF LoseTask, Acts
<1>2. pc'[r] = "idle" /\ req'[r] = NoRequest
  BY <1>0, GoTyped, UpdateTyped, NoRequestTyped DEF LoseTask, Crash, Labels
<1>3. task'[r] = NoTask => Page(r)'
  BY <1>2, NoRequestTyped DEF Page, TaskFits, NoTask, PageKinds
<1>4. StaffTables' /\ UNCHANGED <<assignee, rows, assignment, keyStatus>>
  BY DEF LoseTask, Crash, StaffInv, StaffTables, staff, store
<1> QED BY <1>1, <1>3, <1>4, NoTaskTyped, PageStep, AgreeFrame DEF LoseTask

\* A service changes the assignment of its own key only, and then the rows of
\* that key are closed with it.
LEMMA ServiceAssigns ==
  ASSUME StaffInv, NEW r \in Requests, Progress(r) \/ AcquireLock(r)
  PROVE  /\ ~RowsClosedBy(r) => UNCHANGED <<assignment, keyStatus>>
         /\ \A l \in Keys \ {req[r].key} : /\ assignment'[l] = assignment[l]
                                           /\ keyStatus'[l] = keyStatus[l]
<1>0. HandInv /\ TypeOK /\ RequestOK(r) /\ Page(r)
  BY DEF StaffInv, HandInv
<1>1. CASE Finalize(r)
  <2>1. pc'[r] \in {"close", "ensure"} /\ pc[r] = "finalize" /\ ~ResumedWritePhase(r)
    BY <1>0, <1>1, GoTyped DEF Finalize, Labels
  <2>2. RowsClosedBy(r)
    BY <2>1 DEF RowsClosedBy, Released
  <2> QED BY <1>0, <1>1, <2>2
          DEF Finalize, FinalizeRelease, TypeOK, StoreTypeOK
<1>2. CASE ReturnFromWriter(r)
  <2>1. CASE req[r].wrote # {} /\ req[r].kind = "reassign"
    <3>1. pc[r] = "write" /\ pc'[r] = "recordSteps"
      BY <1>0, <1>2, <2>1, GoTyped DEF ReturnFromWriter, Labels
    <3>2. RowsClosedBy(r)
      BY <2>1, <3>1 DEF RowsClosedBy
    <3> QED BY <1>0, <1>2, <2>1, <3>2
            DEF ReturnFromWriter, Attach, SetKeyAssignment, KeepAssignment,
                NewAssignment, TypeOK, StoreTypeOK
  <2>2. CASE ~(req[r].wrote # {} /\ req[r].kind = "reassign")
    BY <1>0, <1>2, <2>2 DEF ReturnFromWriter, Attach, Page
  <2> QED BY <2>1, <2>2
<1>3. ~AssignNew(r)
  BY SMTT(60), <1>0 DEF AssignNew, RequestOK, ReplaceLabels, Page
<1>4. CASE ~Finalize(r) /\ ~ReturnFromWriter(r)
  BY <1>3, <1>4
  DEF Progress, SendRemove, SkipKnown, RefuseWrite, SendAdd, RecordWritten,
      FindOperation, ResumeOperation, CreateOperation, MarkPending,
      BeginDelete, RecordRow, RecordStep, FailDelete, EndDelete,
      FinalizeRefused, SkipFinalize, CloseRelease, EnsureWrite, RecordAdd,
      FinishReassign, FinishReplace, CloneAccesses, CompleteReplace, Answer,
      AcquireLock, store
<1> QED BY <1>1, <1>2, <1>4

\* A service keeps its thread until it has replied.
LEMMA GoesOn ==
  ASSUME TypeOK, NEW r \in Requests, Progress(r) \/ AcquireLock(r), ~Answer(r)
  PROVE  pc'[r] # "idle"
<1>0. pc \in [Requests -> Labels]
  BY SMTT(60) DEF TypeOK
<1>1. ASSUME NEW p \in Panels, \/ SendRemove(r, p) \/ SkipKnown(r, p)
                               \/ RefuseWrite(r, p) \/ SendAdd(r, p)
                               \/ RecordWritten(r, p)
      PROVE  pc'[r] # "idle"
  BY <1>0, <1>1
  DEF SendRemove, SkipKnown, RefuseWrite, SendAdd, RecordWritten, Go
<1>2. CASE \/ FindOperation(r) \/ ResumeOperation(r) \/ CreateOperation(r)
           \/ MarkPending(r) \/ BeginDelete(r) \/ RecordRow(r) \/ RecordStep(r)
           \/ EndDelete(r) \/ Finalize(r) \/ SkipFinalize(r) \/ AcquireLock(r)
  BY <1>0, <1>2
  DEF FindOperation, ResumeOperation, CreateOperation, MarkPending, BeginDelete,
      RecordRow, RecordStep, EndDelete, Finalize, SkipFinalize, AcquireLock, Go
<1>3. CASE \/ FailDelete(r) \/ FinalizeRefused(r) \/ CloseRelease(r)
           \/ EnsureWrite(r) \/ RecordAdd(r) \/ ReturnFromWriter(r)
           \/ FinishReassign(r) \/ FinishReplace(r) \/ AssignNew(r)
           \/ CloneAccesses(r) \/ CompleteReplace(r)
  BY <1>0, <1>3
  DEF FailDelete, FinalizeRefused, CloseRelease, EnsureWrite, RecordAdd,
      ReturnFromWriter, FinishReassign, FinishReplace, AssignNew, CloneAccesses,
      CompleteReplace, Reply, Go
<1> QED BY <1>1, <1>2, <1>3 DEF Progress

\* What becomes of the page of a thread that makes a step of a service.
LEMMA ServicePage ==
  ASSUME StaffInv, NEW r \in Requests, ServiceStep(r)
  PROVE  Page(r)'
<1>0. HandInv /\ TypeOK /\ Page(r)
  BY DEF StaffInv, HandInv
<1>1. Progress(r) \/ AcquireLock(r)
  BY DEF ServiceStep
<1>2. CASE Answer(r)
  <2>1. pc'[r] = "idle" /\ req'[r] = NoRequest /\ task'[r] = NoTask
    BY <1>0, <1>2, GoTyped, UpdateTyped, NoRequestTyped
    DEF Answer, ServiceStep, Labels
  <2> QED BY <2>1, NoRequestTyped DEF Page, TaskFits, NoTask, PageKinds
<1>3. CASE ~Answer(r)
  <2>1. pc'[r] # "idle"
    BY <1>0, <1>1, <1>3, GoesOn
  <2>2. SameKeys(r) /\ pc[r] # "idle"
    BY <1>0, <1>1, <2>1, StepKeepsKeys, ActsBusy
  <2> QED BY <1>0, <2>1, <2>2 DEF SameKeys, Page, TaskFits, ServiceStep
<1> QED BY <1>2, <1>3

\* A step of a service, with what it does to the books of the employees.
LEMMA ServiceKeeps ==
  ASSUME StaffInv, BooksAgree, NEW r \in Requests, ServiceStep(r)
  PROVE  StaffInv' /\ BooksAgree'
<1>0. HandInv /\ TypeOK /\ RequestOK(r) /\ Page(r) /\ StaffTables
  BY DEF StaffInv, HandInv
<1>1. Progress(r) \/ AcquireLock(r)
  BY DEF ServiceStep
<1>2. HandInv' /\ OnlyMoves(r)
  BY <1>0, <1>1, ProgressTyped, AcquireTyped, StepMoves DEF Acts
<1>3. CASE RowsClosedBy(r)
  <2>1. req[r].key \in Keys
    BY <1>0, <1>3 DEF RowsClosedBy, Released, RequestOK
  <2>2. /\ rows' = [e \in Employees |->
              [rows[e] EXCEPT ![req[r].key] = IF @ = "active" THEN "closed" ELSE @]]
        /\ assignee' = [assignee EXCEPT ![req[r].key] = NoEmployee]
        /\ UNCHANGED enabled
    BY <1>3 DEF ServiceStep, StaffFollows
  <2>3. StaffTables'
    BY <1>0, <2>1, <2>2 DEF StaffTables, EmployeeRows
  <2>4. ASSUME NEW e \in Employees, NEW k \in Keys, rows'[e][k] = "active"
        PROVE  rows[e][k] = "active" /\ k # req[r].key
    BY <1>0, <2>2, <2>4 DEF StaffTables
  <2>5. BooksAgree'
    BY <1>0, <1>1, <2>1, <2>2, <2>4, ServiceAssigns, EmployeesAssumption
    DEF BooksAgree, StaffTables
  <2> QED BY <1>2, <2>3, <2>5, ServicePage, PagesKeptByService
          DEF StaffInv, ServiceStep
<1>4. CASE ~RowsClosedBy(r)
  <2>1. UNCHANGED staff
    BY <1>4 DEF ServiceStep, StaffFollows
  <2>2. StaffTables' /\ UNCHANGED <<assignee, rows, assignment, keyStatus>>
    BY <1>0, <1>1, <1>4, <2>1, ServiceAssigns DEF StaffTables, staff
  <2> QED BY <1>2, <2>2, ServicePage, PagesKeptByService, AgreeFrame
          DEF StaffInv, ServiceStep
<1> QED BY <1>3, <1>4

-----------------------------------------------------------------------------
(* The books of the employees.                                             *)

\* Keys in stock and keys issued agree with the rows.
LEMMA StaffInitFits == StaffInit => StaffInv /\ BooksAgree
<1> SUFFICES ASSUME StaffInit PROVE StaffInv /\ BooksAgree
  OBVIOUS
<1>1. Init
  BY ServiceAssumption DEF StaffInit, Init
<1>2. StaffTables /\ task \in [Requests -> Tasks]
  BY NoTaskTyped DEF StaffInit, StaffTables, EmployeeRows
<1>3. \A r \in Requests : Page(r)
  BY DEF StaffInit, Page, TaskFits, NoTask, NoRequest, PageKinds
<1>4. BooksAgree
  BY EmployeesAssumption DEF StaffInit, StoreInit, BooksAgree
<1> QED BY <1>1, <1>2, <1>3, <1>4, InitTyped DEF StaffInv

\* Every step of a page, a service or a lost worker keeps rows and assignments
\* in agreement.
LEMMA StaffStep ==
  ASSUME StaffInv, BooksAgree, [StaffNext]_staffVars
  PROVE  StaffInv' /\ BooksAgree'
<1>1. ASSUME NEW r \in Requests,
             EmployeePage(r) \/ ServiceStep(r) \/ StartMove(r) \/ LoseTask(r)
      PROVE  StaffInv' /\ BooksAgree'
  BY <1>1, WritingPageKeeps, WrittenKeeps, ReadKeeps, ReleaseStoppedKeeps,
     ReleaseOldKeeps, CheckEmployeeKeeps, InsertRowKeeps, StartCloseKeeps,
     StartDismissKeeps, ReadDismissedKeeps, DismissKeeps, ServiceKeeps,
     StartMoveKeeps, LoseTaskKeeps DEF EmployeePage
<1>2. CASE UNCHANGED staffVars
  <2>1. HandInv'
    BY <1>2, NextTyped DEF StaffInv, staffVars
  <2>2. StaffTables' /\ task' = task
        /\ UNCHANGED <<assignee, rows, assignment, keyStatus, pc, req>>
    BY <1>2 DEF StaffInv, StaffTables, staffVars, staff, vars, store
  <2> QED BY <2>1, <2>2, AgreeFrame DEF StaffInv, Page, TaskFits
<1> QED BY <1>1, <1>2, RestoreKeeps DEF StaffNext

\* Every reachable state of the employee pages is well typed, with every thread
\* at a step its page has, and the rows agree with the assignments.
THEOREM StaffInvariance == StaffSpec => [](StaffInv /\ BooksAgree)
<1>1. StaffInv /\ BooksAgree /\ [StaffNext]_staffVars => (StaffInv /\ BooksAgree)'
  BY StaffStep
<1> QED BY <1>1, StaffInitFits, PTL DEF StaffSpec

\* An active row of employee_keys always names the employee the active
\* assignment names, and no one else has one for that key: issues, exchanges,
\* releases, moves and dismissals may interleave, and workers be lost, anywhere
\* (employee_repository.py:599-757, key_lifecycle_repository.py:419-496).
THEOREM RowsNameTheAssignee == StaffSpec => []HolderIsAssigned
<1>1. StaffInv /\ BooksAgree => HolderIsAssigned
  BY DEF StaffInv, HandInv, StaffTables, BooksAgree, HolderIsAssigned, StaffTypeOK
<1> QED BY <1>1, StaffInvariance, PTL

-----------------------------------------------------------------------------
(* One task at a time.                                                     *)

\* Who is about to insert a row has found its employee enabled, and nobody else
\* has been at work since.
Checked ==
  /\ schedule.careful => OneAtATime
  /\ schedule.careful =>
       \A r \in Requests : task[r].step = "insert" => enabled[task[r].who]

\* A page comes to the insertion from the check only.
LEMMA InsertIsChecked ==
  ASSUME StaffInv, NEW r \in Requests, EmployeePage(r) \/ LoseTask(r)
  PROVE  /\ \A s \in Requests \ {r} : task'[s] = task[s]
         /\ task'[r].step = "insert" => enabled[task'[r].who] /\ UNCHANGED enabled
<1>0. task \in [Requests -> Tasks] /\ task[r] \in Tasks
  BY DEF StaffInv
<1>1. NoTask.step = "none"
  BY DEF NoTask
<1>2. ASSUME NextKey(r) PROVE /\ \A s \in Requests \ {r} : task'[s] = task[s]
                              /\ task'[r].step # "insert"
  <2>1. \A k \in Keys : [task[r] EXCEPT !.step = "written", !.key = k,
                                        !.rest = @ \ {k}].step = "written"
    BY <1>0 DEF Tasks
  <2>2. task[r].rest \subseteq Keys
    BY <1>0 DEF Tasks
  <2> QED BY <1>0, <1>1, <1>2, <2>1, <2>2 DEF NextKey, Respond, SetTask
<1>3. CASE WritingPage(r)
  <2>1. PICK kind, e, k, panels, rest :
          SetTask(r, [NoTask EXCEPT !.kind = kind, !.step = "written", !.who = e,
                                    !.key = k, !.panels = panels, !.rest = rest])
    BY ZenonT(60), <1>3 DEF WritingPage, IssueRoute, CreateAndIssueRoute, AddKeysRoute,
                WriteRoute, StartWriting
  <2>2. [NoTask EXCEPT !.kind = kind, !.step = "written", !.who = e, !.key = k,
                       !.panels = panels, !.rest = rest].step = "written"
    BY DEF NoTask
  <2> QED BY <1>0, <2>1, <2>2 DEF SetTask
<1>4. CASE NotWritten(r) \/ InsertRow(r)
  BY <1>2, <1>4 DEF NotWritten, InsertRow
<1>5. CASE Written(r) \/ ReadDismissed(r)
  <2>1. \A x \in {"readOld", "check"} : [task[r] EXCEPT !.step = x].step = x
    BY <1>0 DEF Tasks
  <2>2. \A y : [task[r] EXCEPT !.step = "commit", !.rest = y].step = "commit"
    BY <1>0 DEF Tasks
  <2>3. PICK t : SetTask(r, t) /\ t.step # "insert"
    BY <1>1, <1>5, <2>1, <2>2 DEF Written, ReadDismissed, Turn, Respond
  <2> QED BY <1>0, <2>3 DEF SetTask
<1>6. ASSUME NEW t \in Tasks, NEW rest \in SUBSET Keys, SetTask(r, WithRest(t, rest))
      PROVE  /\ \A s \in Requests \ {r} : task'[s] = task[s]
             /\ task'[r].step # "insert"
  <2>1. WithRest(t, rest).step # "insert"
    BY WithRestTyped
  <2> QED BY <1>0, <1>6, <2>1 DEF SetTask
<1>7. CASE ReadOldKeys(r) \/ OldReleased(r)
  <2>1. KeysToRelease(task[r]) \in SUBSET Keys
        /\ task[r].rest \ {req[r].key} \in SUBSET Keys
    BY <1>0 DEF KeysToRelease, ActiveKeys, Tasks
  <2> QED BY <1>0, <1>6, <1>7, <2>1 DEF ReadOldKeys, OldReleased
<1>8. CASE StartDismiss(r)
  <2>1. PICK e \in Employees :
          LET t == [NoTask EXCEPT !.kind = "dismiss", !.who = e]
          IN SetTask(r, WithRest(t, KeysToRelease(t)))
    BY <1>8 DEF StartDismiss
  <2>2. [NoTask EXCEPT !.kind = "dismiss", !.who = e] \in Tasks
    BY DEF NoTask, Tasks
  <2>3. \A t \in Tasks : KeysToRelease(t) \in SUBSET Keys
    BY DEF KeysToRelease, ActiveKeys
  <2> QED BY <1>6, <2>1, <2>2, <2>3
<1>9. CASE ReleaseStopped(r) \/ Dismiss(r) \/ LoseTask(r)
  BY <1>0, <1>1, <1>9 DEF ReleaseStopped, Dismiss, LoseTask, Respond, SetTask
<1>10. CASE \E k \in Keys : ReleaseOld(r, k)
  <2>1. [task[r] EXCEPT !.step = "released"].step = "released"
    BY <1>0 DEF Tasks
  <2> QED BY <1>0, <1>10, <2>1 DEF ReleaseOld, Turn, SetTask
<1>11. CASE CheckEmployee(r)
  <2>1. CASE enabled[task[r].who]
    <3>1. [task[r] EXCEPT !.step = "insert"].who = task[r].who
      BY <1>0 DEF Tasks
    <3> QED BY <1>0, <1>11, <2>1, <3>1 DEF CheckEmployee, Turn, SetTask, staff
  <2>2. CASE ~enabled[task[r].who]
    BY <1>2, <1>11, <2>2 DEF CheckEmployee
  <2> QED BY <2>1, <2>2
<1>12. CASE StartClose(r)
  BY <1>1, <1>12 DEF StartClose, Start, StaffInv, Page, TaskFits
<1> QED BY <1>3, <1>4, <1>5, <1>7, <1>8, <1>9, <1>10, <1>11, <1>12 DEF EmployeePage

\* Of the steps of the pages, the insertion and the dismissal write the books.
LEMMA PagesRead ==
  ASSUME NEW r \in Requests, EmployeePage(r), ~InsertRow(r), ~Dismiss(r)
  PROVE  UNCHANGED <<staff, assignment>>
<1>1. CASE WritingPage(r)
  <2>1. PICK kind, e, k, panels, rest : StartWriting(r, kind, e, k, panels, rest)
    BY <1>1 DEF WritingPage, IssueRoute, CreateAndIssueRoute, AddKeysRoute, WriteRoute
  <2> QED BY <2>1 DEF StartWriting, Start, store
<1>2. CASE StartClose(r) \/ StartDismiss(r) \/ \E k \in Keys : ReleaseOld(r, k)
  BY <1>2 DEF StartClose, StartDismiss, ReleaseOld, Start, store
<1>3. CASE \/ NotWritten(r) \/ Written(r) \/ ReadOldKeys(r) \/ OldReleased(r)
           \/ ReleaseStopped(r) \/ CheckEmployee(r) \/ ReadDismissed(r)
  BY <1>3 DEF NotWritten, Written, ReadOldKeys, OldReleased, ReleaseStopped,
              CheckEmployee, ReadDismissed, vars, store
<1> QED BY <1>1, <1>2, <1>3 DEF EmployeePage

\* Employees are enabled by a restoration and disabled by a dismissal only, and
\* a row is made active by an insertion only.
LEMMA RowsGrow ==
  ASSUME StaffInv, NEW r \in Requests,
         EmployeePage(r) \/ ServiceStep(r) \/ StartMove(r) \/ LoseTask(r)
  PROVE  /\ ~Dismiss(r) => UNCHANGED enabled
         /\ \A e \in Employees, k \in Keys : rows'[e][k] = "active" =>
              rows[e][k] = "active" \/ (e = task[r].who /\ task[r].step = "insert"
                                        /\ UNCHANGED enabled)
<1>0. StaffTables
  BY DEF StaffInv
<1>1. CASE InsertRow(r)
  <2>1. UNCHANGED enabled /\ task[r].step = "insert"
    BY <1>1 DEF InsertRow, AtStep, staff
  <2>2. UNCHANGED rows
        \/ rows' = [rows EXCEPT ![task[r].who][task[r].key] = "active"]
    BY <1>1 DEF InsertRow, staff
  <2> QED BY <1>0, <2>1, <2>2 DEF StaffTables
<1>2. CASE Dismiss(r)
  BY <1>0, <1>2 DEF Dismiss, CloseRowsOf, StaffTables
<1>3. CASE ServiceStep(r)
  <2>1. UNCHANGED staff \/
        (UNCHANGED enabled /\ rows' = [e \in Employees |->
           [rows[e] EXCEPT ![req[r].key] = IF @ = "active" THEN "closed" ELSE @]])
    BY <1>3 DEF ServiceStep, StaffFollows
  <2> QED BY <1>0, <2>1 DEF staff, StaffTables
<1>4. CASE StartMove(r) \/ LoseTask(r)
  BY <1>4 DEF StartMove, LoseTask, staff
<1>5. CASE EmployeePage(r) /\ ~InsertRow(r) /\ ~Dismiss(r)
  BY <1>5, PagesRead DEF staff
<1> QED BY <1>1, <1>2, <1>3, <1>4, <1>5

\* A step that is followed by no other task at work keeps the check current.
LEMMA CheckedStep ==
  ASSUME StaffInv, StaffInv', Checked, [StaffNext]_staffVars PROVE Checked'
<1>0. CASE UNCHANGED staffVars
  BY <1>0 DEF staffVars, staff, vars, Checked, OneAtATime
<1> SUFFICES ASSUME StaffNext, schedule.careful PROVE Checked'
  BY <1>0 DEF Checked, StaffNext
<1>1. OneAtATime /\ OneAtATime'
  BY DEF StaffNext, Bounded, Checked
<1> SUFFICES ASSUME NEW s \in Requests, task'[s].step = "insert"
             PROVE  enabled'[task'[s].who]
  BY <1>1 DEF Checked
<1>2. ASSUME NEW r \in Requests,
             EmployeePage(r) \/ ServiceStep(r) \/ StartMove(r) \/ LoseTask(r)
      PROVE  enabled'[task'[s].who]
  <2>1. CASE s = r /\ (EmployeePage(r) \/ LoseTask(r))
    BY <2>1, InsertIsChecked
  <2>2. CASE s = r /\ (ServiceStep(r) \/ StartMove(r))
    <3>1. UNCHANGED <<task, enabled>>
      BY <2>2 DEF ServiceStep, StaffFollows, StartMove, staff
    <3> QED BY <3>1 DEF Checked
  <2>3. CASE s # r
    <3>1. task'[s] = task[s] /\ enabled[task[s].who]
      BY <1>2, <2>3, InsertIsChecked DEF ServiceStep, StartMove, Checked
    <3>2. pc[s] # "idle"
      BY <3>1 DEF StaffInv, Page, TaskFits, NoTask
    <3>3. pc[r] = "idle"
      BY <1>1, <2>3, <3>2 DEF OneAtATime
    <3>4. ~Dismiss(r)
      BY <3>3 DEF Dismiss, AtStep
    <3> QED BY <1>2, <3>1, <3>4, RowsGrow
  <2> QED BY <1>2, <2>1, <2>2, <2>3
<1>3. ASSUME NEW e \in Employees, Restore(e) PROVE enabled'[task'[s].who]
  <2>1. task' = task /\ enabled' = [enabled EXCEPT ![e] = TRUE]
        /\ enabled[task[s].who]
    BY <1>3 DEF Restore, Checked
  <2>2. enabled \in [Employees -> BOOLEAN] /\ task[s].who \in Employees
    BY <2>1 DEF StaffInv, StaffTables, Page, TaskFits, PageKinds
  <2> QED BY <2>1, <2>2
<1> QED BY <1>2, <1>3 DEF StaffNext

\* No step leaves a dismissed employee with an active row.
LEMMA DismissedStep ==
  ASSUME StaffInv, Checked, DismissedHoldNothing, [StaffNext]_staffVars
  PROVE  DismissedHoldNothing'
<1>0. CASE UNCHANGED staffVars
  BY <1>0 DEF staffVars, staff, DismissedHoldNothing, ActiveKeys
<1> SUFFICES ASSUME StaffNext, schedule.careful, NEW e \in Employees, ~enabled'[e],
                    NEW k \in Keys, rows'[e][k] = "active"
             PROVE  FALSE
  BY <1>0 DEF StaffNext, DismissedHoldNothing, ActiveKeys
<1>1. ~enabled[e] => rows[e][k] # "active"
  BY DEF DismissedHoldNothing, ActiveKeys
<1>2. ASSUME NEW r \in Requests,
             EmployeePage(r) \/ ServiceStep(r) \/ StartMove(r) \/ LoseTask(r)
      PROVE  FALSE
  <2>1. CASE Dismiss(r)
    <3>1. /\ enabled' = [enabled EXCEPT ![task[r].who] = FALSE]
          /\ rows' = CloseRowsOf(task[r].who, task[r].rest)
      BY <2>1 DEF Dismiss
    <3>2. e # task[r].who /\ rows[e][k] = "active"
      BY <3>1 DEF CloseRowsOf
    <3> QED BY <1>1, <3>1, <3>2 DEF StaffInv, StaffTables
  <2>2. CASE ~Dismiss(r)
    <3>1. enabled' = enabled
      BY <1>2, <2>2, RowsGrow
    <3>2. e = task[r].who /\ task[r].step = "insert"
      BY <1>1, <1>2, <3>1, RowsGrow
    <3> QED BY <3>1, <3>2 DEF Checked
  <2> QED BY <2>1, <2>2
<1>3. ASSUME NEW f \in Employees, Restore(f) PROVE FALSE
  BY <1>1, <1>3 DEF Restore, StaffInv, StaffTables
<1> QED BY <1>2, <1>3 DEF StaffNext

\* When tasks follow each other, and whatever workers are lost between, an
\* employee who is dismissed has no active row ("Сотрудник увольняется мягко:
\* enabled = 0, активные выдачи закрываются", docs/database.md:430): the check of
\* issue_key_to_employee is still current when its row is inserted.
THEOREM DismissedEmployees == StaffSpec => []DismissedHoldNothing
<1>1. StaffInit => Checked /\ DismissedHoldNothing
  <2> SUFFICES ASSUME StaffInit PROVE Checked /\ DismissedHoldNothing
    OBVIOUS
  <2>1. Checked
    BY DEF StaffInit, Checked, OneAtATime, NoTask
  <2>2. DismissedHoldNothing
    BY ZenonT(60), EmployeesAssumption DEF StaffInit, DismissedHoldNothing, ActiveKeys
  <2> QED BY <2>1, <2>2
<1>2. StaffInv /\ StaffInv' /\ Checked /\ DismissedHoldNothing
        /\ [StaffNext]_staffVars => Checked' /\ DismissedHoldNothing'
  BY CheckedStep, DismissedStep
<1>3. StaffInv /\ BooksAgree /\ [StaffNext]_staffVars => StaffInv'
  BY StaffStep
<1> QED BY <1>1, <1>2, <1>3, StaffInvariance, PTL DEF StaffSpec

-----------------------------------------------------------------------------
(* Keys given in exchange for others.                                      *)

\* A page that writes a key has only panels in hand that have it.
Writes(r) == task[r].step = "written" =>
  /\ req[r].kind = "add" /\ req[r].key = task[r].key
  /\ pc[r] \in {"lock", "write", "recordAdd", "reply"}
  /\ req[r].wrote \subseteq Live(req[r].key)
  /\ pc[r] # "reply" => /\ req[r].known \subseteq Live(req[r].key)
                        /\ req[r].wrote \cap req[r].todo = {}
  /\ pc[r] = "recordAdd" => req[r].panel \in req[r].todo \ req[r].known

\* A page that exchanges keys releases none but the others, and its thread is in
\* the lifecycle for such a release only.
Exchanges(r) == task[r].kind = "write" =>
  /\ task[r].step \in {"readOld", "release", "released", "check", "insert"} =>
       Live(task[r].key) # {}
  /\ task[r].step \in {"release", "released"} => task[r].key \notin task[r].rest
  /\ task[r].step = "released" => req[r].key # task[r].key
  /\ task[r].step \in {"readOld", "release", "check", "insert"} => pc[r] = "reply"

ExchangeFits ==
  schedule.careful => \A r \in Requests : Writes(r) /\ Exchanges(r)

\* A service changes the rows of its own key only.
LEMMA ServiceRows ==
  ASSUME StaffInv, NEW r \in Requests, Progress(r) \/ AcquireLock(r)
  PROVE  \A k \in Keys \ {req[r].key} : row'[k] = row[k]
<1>0. row \in [Keys -> [Panels -> RowStates]] /\ WriteKey(r) = req[r].key
  BY DEF StaffInv, HandInv, TypeOK, StoreTypeOK, Page, WriteKey
<1>1. CASE MarkPending(r) \/ RecordRow(r) \/ RecordAdd(r)
           \/ \E p \in Panels : RefuseWrite(r, p)
  BY <1>0, <1>1
  DEF MarkPending, MarkPanelsPendingDelete, RecordRow, RecordPanelDelete,
      RecordAdd, RefuseWrite, RecordPanelWrite
<1>2. CASE ~(MarkPending(r) \/ RecordRow(r) \/ RecordAdd(r)
             \/ \E p \in Panels : RefuseWrite(r, p))
  BY <1>2
  DEF Progress, SendRemove, SkipKnown, SendAdd, RecordWritten, FindOperation,
      ResumeOperation, CreateOperation, BeginDelete, RecordStep, FailDelete,
      EndDelete, Finalize, FinalizeRefused, SkipFinalize, CloseRelease,
      EnsureWrite, ReturnFromWriter, FinishReassign, FinishReplace, AssignNew,
      CloneAccesses, CompleteReplace, Answer, AcquireLock, store
<1> QED BY <1>1, <1>2

\* The thread of a writing page is in the writer, or has its reply.
LEMMA WriterStep ==
  ASSUME StaffInv, NEW r \in Requests, ServiceStep(r), Writes(r),
         task[r].step = "written"
  PROVE  Writes(r)'
<1>0. /\ TypeOK /\ RequestOK(r) /\ req[r] \in RequestRecords
      /\ pc \in [Requests -> Labels] /\ req \in [Requests -> RequestRecords]
      /\ row \in [Keys -> [Panels -> RowStates]]
  BY RequestTyped DEF StaffInv, HandInv, TypeOK, StoreTypeOK
<1>key. PICK k \in Keys : k = req[r].key
  BY <1>0 DEF Writes, RequestOK
<1>1. /\ req[r].kind = "add" /\ k = req[r].key /\ WriteKey(r) = k /\ k = task[r].key /\ task' = task
      /\ pc[r] \in {"lock", "write", "recordAdd"} /\ k \in Keys
      /\ req[r].wrote \subseteq Live(k) /\ req[r].known \subseteq Live(k)
      /\ req[r].wrote \cap req[r].todo = {}
  BY SMTT(60), <1>0, <1>key DEF Writes, ServiceStep, WriteKey, NoTask
<1>2. \/ AcquireLock(r) \/ RecordAdd(r) \/ ReturnFromWriter(r)
      \/ \E p \in Panels : SkipKnown(r, p) \/ RefuseWrite(r, p) \/ SendAdd(r, p)
  BY <1>1
  DEF ServiceStep, Progress, SendRemove, RecordWritten, FindOperation,
      ResumeOperation, CreateOperation, MarkPending, BeginDelete, RecordRow,
      RecordStep, FailDelete, EndDelete, Finalize, FinalizeRefused,
      SkipFinalize, CloseRelease, EnsureWrite, FinishReassign, FinishReplace,
      AssignNew, CloneAccesses, CompleteReplace, Answer
<1>3. ASSUME NEW q \in RequestRecords, Update(r, q), q.kind = "add", q.key = k,
             NEW label \in {"write", "recordAdd", "reply"},
             Go(r, label) \/ (UNCHANGED pc /\ pc[r] = label),
             q.wrote \subseteq Live(k)',
             label # "reply" => /\ q.known \subseteq Live(k)'
                                /\ q.wrote \cap q.todo = {},
             label = "recordAdd" => q.panel \in q.todo \ q.known
      PROVE  Writes(r)'
  <2>1. req'[r] = q /\ pc'[r] = label
    BY <1>0, <1>3 DEF Update, Go
  <2> QED BY <1>1, <1>3, <2>1 DEF Writes, Live
<1>4. CASE AcquireLock(r)
  <2> DEFINE q == [req[r] EXCEPT !.known = KnownPanels(r)]
  <2>1. KnownPanels(r) = Live(k) /\ row' = row
    BY <1>1, <1>4 DEF KnownPanels, AcquireLock, store
  <2>2. /\ q \in RequestRecords /\ q.kind = req[r].kind /\ q.key = req[r].key
        /\ q.wrote = req[r].wrote /\ q.known = Live(k) /\ q.todo = req[r].todo
    BY ZenonT(60), <1>0, <2>1 DEF RequestRecords, Live
  <2>3. Update(r, q) /\ Go(r, "write") /\ Live(k)' = Live(k)
    BY <1>4, <2>1 DEF AcquireLock, Live
  <2> HIDE DEF q
  <2> QED BY <1>1, <1>3, <2>2, <2>3
<1>5. CASE \E p \in Panels : SkipKnown(r, p)
  <2>1. PICK p \in Panels : SkipKnown(r, p)
    BY <1>5
  <2> DEFINE q == [req[r] EXCEPT !.todo = @ \ {p}, !.wrote = @ \cup {p}]
  <2>2. /\ q \in RequestRecords /\ q.kind = req[r].kind /\ q.key = req[r].key
        /\ q.wrote = req[r].wrote \cup {p} /\ q.known = req[r].known
        /\ q.todo = req[r].todo \ {p}
    BY ZenonT(60), <1>0 DEF RequestRecords
  <2>3. Update(r, q) /\ UNCHANGED pc /\ pc[r] = "write" /\ Live(k)' = Live(k)
        /\ p \in req[r].known
    BY <2>1 DEF SkipKnown, Live, store
  <2> HIDE DEF q
  <2> QED BY <1>1, <1>3, <2>2, <2>3
<1>6. CASE \E p \in Panels : RefuseWrite(r, p)
  <2>1. PICK p \in Panels : RefuseWrite(r, p)
    BY <1>6
  <2> DEFINE q == [req[r] EXCEPT !.todo = @ \ {p}]
  <2>2. /\ q \in RequestRecords /\ q.kind = req[r].kind /\ q.key = req[r].key
        /\ q.wrote = req[r].wrote /\ q.known = req[r].known
        /\ q.todo = req[r].todo \ {p}
    BY ZenonT(60), <1>0 DEF RequestRecords
  <2>3. Update(r, q) /\ UNCHANGED pc /\ pc[r] = "write" /\ p \notin req[r].known
        /\ p \in req[r].todo
    BY <2>1 DEF RefuseWrite
  <2>4. Live(k) \ {p} \subseteq Live(k)'
    BY <1>0, <1>1, <2>1 DEF RefuseWrite, RecordPanelWrite, Live
  <2> HIDE DEF q
  <2> QED BY <1>1, <1>3, <2>2, <2>3, <2>4
<1>7. CASE \E p \in Panels : SendAdd(r, p)
  <2>1. PICK p \in Panels, a \in CrmAnswers :
          /\ p \in req[r].todo \ req[r].known /\ row' = row /\ Go(r, "recordAdd")
          /\ Update(r, [req[r] EXCEPT !.panel = p, !.answer = a.confirmed])
    BY <1>7 DEF SendAdd, store
  <2> DEFINE q == [req[r] EXCEPT !.panel = p, !.answer = a.confirmed]
  <2>2. a.confirmed \in BOOLEAN
    BY DEF CrmAnswers
  <2>3. /\ q \in RequestRecords /\ q.kind = req[r].kind /\ q.key = req[r].key
        /\ q.wrote = req[r].wrote /\ q.known = req[r].known
        /\ q.todo = req[r].todo /\ q.panel = p
    BY ZenonT(60), <1>0, <2>2 DEF RequestRecords
  <2>4. Update(r, q) /\ Live(k)' = Live(k)
    BY <2>1 DEF Live
  <2> HIDE DEF q
  <2> QED BY <1>1, <1>3, <2>1, <2>3, <2>4
<1>8. CASE RecordAdd(r)
  <2> DEFINE p == req[r].panel
             w == IF req[r].answer THEN req[r].wrote \cup {p} ELSE req[r].wrote
             q == [req[r] EXCEPT !.todo = @ \ {p}, !.panel = NoPanel, !.wrote = w]
  <2>1. p \in req[r].todo \ req[r].known /\ p \in Panels
    BY <1>0, <1>1, <1>8 DEF RecordAdd, Writes, RequestRecords
  <2>2. /\ q \in RequestRecords /\ q.kind = req[r].kind /\ q.key = req[r].key
        /\ q.wrote = w /\ q.known = req[r].known /\ q.todo = req[r].todo \ {p}
    BY ZenonT(60), <1>0, <2>1 DEF RequestRecords
  <2>3. Update(r, q) /\ Go(r, "write")
    BY <1>8 DEF RecordAdd
  <2>4. /\ Live(k) \ {p} \subseteq Live(k)'
        /\ req[r].answer => p \in Live(k)'
    BY ZenonT(60), <1>0, <1>1, <1>8, <2>1 DEF RecordAdd, RecordPanelWrite, Live, LiveStates
  <2>5. w \subseteq Live(k)' /\ w \cap (req[r].todo \ {p}) = {}
    BY <1>1, <2>1, <2>4
  <2> HIDE DEF q, w, p
  <2> QED BY <1>1, <1>3, <2>1, <2>2, <2>3, <2>4, <2>5
<1>9. CASE ReturnFromWriter(r)
  <2> DEFINE q == [req[r] EXCEPT !.outcome = WriterOutcome(r)]
  <2>1. WriterOutcome(r) \in Outcomes
    BY DEF WriterOutcome, Outcomes
  <2>2. /\ q \in RequestRecords /\ q.kind = req[r].kind /\ q.key = req[r].key
        /\ q.wrote = req[r].wrote
    BY ZenonT(60), <1>0, <2>1 DEF RequestRecords
  <2>3. Update(r, q) /\ Go(r, "reply") /\ Live(k)' = Live(k)
    BY <1>1, <1>9 DEF ReturnFromWriter, Reply, Live
  <2> HIDE DEF q
  <2> QED BY <1>1, <1>3, <2>2, <2>3
<1> QED BY <1>2, <1>4, <1>5, <1>6, <1>7, <1>8, <1>9

\* A request to write a key starts with what the key opens, and nothing written.
LEMMA WriteBegins ==
  ASSUME StaffInv, NEW r \in Requests, NEW k \in Keys, NEW panels \in SUBSET Panels,
         Update(r, WriteRequest(k, panels)), Go(r, "lock"), UNCHANGED row,
         task'[r].key = k
  PROVE  Writes(r)'
<1> DEFINE q == WriteRequest(k, panels)
<1>0. TypeOK
  BY DEF StaffInv, HandInv
<1>1. Snapshot("add", k) \in RequestRecords /\ Snapshot("add", k).wrote = {}
  BY ZenonT(60), <1>0, SnapshotTyped DEF Snapshot, NoRequest
<1>2. q.known = Live(k) /\ q.wrote = {}
  BY <1>1 DEF WriteRequest, RequestRecords
<1>3. q \in RequestRecords /\ q.kind = "add" /\ q.key = k
  BY <1>0, WriteRequestTyped
<1> HIDE DEF q
<1>4. Update(r, q)
  BY DEF q
<1>5. pc'[r] = "lock" /\ req'[r] = q
  BY <1>0, <1>3, <1>4, GoTyped, UpdateTyped DEF Labels
<1>6. \A p \in Live(k) : p \in Live(k)'
  BY DEF Live
<1> QED BY <1>2, <1>3, <1>5, <1>6 DEF Writes, Live

\* The page of a thread that comes to the end of a key begins the next one.
LEMMA NextKeyExchanges ==
  ASSUME StaffInv, NEW r \in Requests, NextKey(r), UNCHANGED row
  PROVE  Writes(r)' /\ Exchanges(r)'
<1>0. task \in [Requests -> Tasks] /\ task[r] \in Tasks
  BY DEF StaffInv
<1>1. CASE Respond(r)
  <2>1. task'[r] = NoTask
    BY <1>0, <1>1 DEF Respond, SetTask
  <2> QED BY <2>1 DEF NoTask, Writes, Exchanges
<1>2. CASE ~Respond(r)
  <2>1. PICK k \in task[r].rest :
          /\ task[r].kind = "add"
          /\ Go(r, "lock") /\ Update(r, WriteRequest(k, task[r].panels))
          /\ SetTask(r, [task[r] EXCEPT !.step = "written", !.key = k,
                                        !.rest = @ \ {k}])
    BY <1>2 DEF NextKey
  <2>2. k \in Keys /\ task[r].panels \in SUBSET Panels
    BY <1>0, <2>1 DEF Tasks
  <2>3. task'[r].kind = "add" /\ task'[r].key = k
    <3>1. task'[r] = [task[r] EXCEPT !.step = "written", !.key = k, !.rest = @ \ {k}]
      BY <1>0, <2>1 DEF SetTask
    <3> QED BY <1>0, <2>1, <3>1 DEF Tasks
  <2>4. Exchanges(r)'
    BY <2>3 DEF Exchanges
  <2> QED BY <2>1, <2>2, <2>3, <2>4, WriteBegins
<1> QED BY <1>1, <1>2

\* The pages keep to it: the old keys are read when the new one is written, and
\* the new one is not among them.
LEMMA PageExchanges ==
  ASSUME StaffInv, NEW r \in Requests, EmployeePage(r), Writes(r), Exchanges(r)
  PROVE  Writes(r)' /\ Exchanges(r)'
<1>0. task \in [Requests -> Tasks] /\ task[r] \in Tasks /\ Page(r)
      /\ NoTask.kind = "none" /\ NoTask.step = "none"
  BY DEF StaffInv, NoTask
<1>1. CASE WritingPage(r)
  <2>0. PICK e \in Employees, panels \in SUBSET Panels, k \in Keys,
             rest \in SUBSET Keys, kind \in PageKinds :
          StartWriting(r, kind, e, k, panels, rest)
    BY <1>1 DEF WritingPage, IssueRoute, CreateAndIssueRoute, AddKeysRoute,
                WriteRoute, PageKinds
  <2>1. /\ SetTask(r, [NoTask EXCEPT !.kind = kind, !.step = "written", !.who = e,
                         !.key = k, !.panels = panels, !.rest = rest])
        /\ Update(r, WriteRequest(k, panels)) /\ Go(r, "lock") /\ UNCHANGED row
    BY <2>0 DEF StartWriting, Start, store
  <2>2. task'[r] = [NoTask EXCEPT !.kind = kind, !.step = "written", !.who = e,
                           !.key = k, !.panels = panels, !.rest = rest]
    BY <1>0, <2>1 DEF SetTask
  <2>3. task'[r].step = "written" /\ task'[r].key = k
    BY <2>2 DEF NoTask
  <2> QED BY <2>1, <2>3, WriteBegins DEF Exchanges
<1>2. CASE NotWritten(r) \/ InsertRow(r)
  BY <1>2, NextKeyExchanges DEF NotWritten, InsertRow, store
<1>3. CASE Written(r)
  <2>1. /\ pc' = pc /\ req' = req /\ row' = row /\ pc[r] = "reply"
        /\ task[r].step = "written" /\ req[r].wrote # {}
        /\ SetTask(r, [task[r] EXCEPT !.step = IF task[r].kind = "write"
                                                 THEN "readOld" ELSE "check"])
    BY <1>3 DEF Written, AtStep, Turn, Confirmed, vars, store
  <2>2. Live(task[r].key) # {}
    BY <2>1 DEF Writes
  <2>3. task'[r] = [task[r] EXCEPT !.step = IF task[r].kind = "write"
                                              THEN "readOld" ELSE "check"]
    BY <1>0, <2>1 DEF SetTask
  <2>4. task'[r].key = task[r].key /\ task'[r].kind = task[r].kind
        /\ task'[r].step \in {"readOld", "check"}
    BY <1>0, <2>3 DEF Tasks
  <2> QED BY <2>1, <2>2, <2>4 DEF Writes, Exchanges, Live
<1>4. CASE ReadOldKeys(r) \/ OldReleased(r)
  <2>1. PICK rest \in SUBSET Keys :
          /\ SetTask(r, WithRest(task[r], rest)) /\ UNCHANGED vars
          /\ task[r].kind = "write" => task[r].key \notin rest
    <3>1. KeysToRelease(task[r]) \in SUBSET Keys
          /\ task[r].rest \ {req[r].key} \in SUBSET Keys
      BY <1>0 DEF KeysToRelease, ActiveKeys, Tasks
    <3>2. task[r].key \notin KeysToRelease(task[r])
      BY DEF KeysToRelease
    <3> QED BY <1>4, <3>1, <3>2 DEF ReadOldKeys, OldReleased, AtStep, Exchanges
  <2>2. /\ task'[r].kind = task[r].kind /\ task'[r].key = task[r].key
        /\ task'[r].step \in {"check", "dismiss", "release"}
        /\ task'[r].rest = rest
    <3>1. task'[r] = WithRest(task[r], rest)
      BY <1>0, <2>1 DEF SetTask
    <3>2. WithRest(task[r], rest).rest = rest
      BY <1>0 DEF WithRest, Tasks
    <3> QED BY <1>0, <3>1, <3>2, WithRestTyped
  <2>3. pc[r] = "reply" /\ task[r].step \in {"readOld", "released"}
    BY <1>4 DEF ReadOldKeys, OldReleased, AtStep
  <2>4. pc' = pc /\ row' = row
    BY <2>1 DEF vars, store
  <2> QED BY <2>1, <2>2, <2>3, <2>4 DEF Writes, Exchanges, Live
<1>5. CASE \E k \in Keys : ReleaseOld(r, k)
  <2>1. PICK k \in task[r].rest :
          /\ k \in Keys /\ task[r].step = "release" /\ row' = row
          /\ Update(r, Snapshot("release", k))
          /\ SetTask(r, [task[r] EXCEPT !.step = "released"])
    BY <1>5 DEF ReleaseOld, AtStep, Turn, store
  <2>2. task'[r] = [task[r] EXCEPT !.step = "released"]
    BY <1>0, <2>1 DEF SetTask
  <2>3. task'[r].kind = task[r].kind /\ task'[r].key = task[r].key
        /\ task'[r].rest = task[r].rest /\ task'[r].step = "released"
    BY <1>0, <2>2 DEF Tasks
  <2>4. req'[r].key = k
    BY <2>1, SnapshotTyped, UpdateTyped DEF StaffInv, HandInv, OpTypes
  <2> QED BY <2>1, <2>3, <2>4 DEF Writes, Exchanges, Live
<1>6. CASE CheckEmployee(r)
  <2>1. CASE enabled[task[r].who]
    <3>1. /\ pc' = pc /\ row' = row /\ pc[r] = "reply" /\ task[r].step = "check"
          /\ task'[r] = [task[r] EXCEPT !.step = "insert"]
      BY <1>0, <1>6, <2>1 DEF CheckEmployee, Turn, SetTask, AtStep, vars, store
    <3>2. task'[r].kind = task[r].kind /\ task'[r].key = task[r].key
          /\ task'[r].step = "insert"
      BY <1>0, <3>1 DEF Tasks
    <3> QED BY <3>1, <3>2 DEF Writes, Exchanges, Live
  <2>2. CASE ~enabled[task[r].who]
    BY <1>6, <2>2, NextKeyExchanges DEF CheckEmployee, store
  <2> QED BY <2>1, <2>2
<1>7. CASE StartDismiss(r)
  <2>1. PICK e \in Employees :
          LET t == [NoTask EXCEPT !.kind = "dismiss", !.who = e]
          IN SetTask(r, WithRest(t, KeysToRelease(t)))
    BY <1>7 DEF StartDismiss
  <2> DEFINE t == [NoTask EXCEPT !.kind = "dismiss", !.who = e]
  <2>2. t \in Tasks /\ t.kind = "dismiss" /\ KeysToRelease(t) \in SUBSET Keys
    BY DEF NoTask, Tasks, KeysToRelease, ActiveKeys
  <2>3. task'[r] = WithRest(t, KeysToRelease(t))
    BY <1>0, <2>1 DEF SetTask
  <2> HIDE DEF t
  <2>4. task'[r].kind = "dismiss" /\ task'[r].step # "written"
    BY <2>2, <2>3, WithRestTyped
  <2> QED BY <2>4 DEF Writes, Exchanges
<1>8. CASE ReadDismissed(r) /\ enabled[task[r].who]
  <2>1. task[r].kind = "dismiss"
        /\ task'[r] = [task[r] EXCEPT !.step = "commit",
                                      !.rest = ActiveKeys(task[r].who)]
    BY <1>0, <1>8 DEF ReadDismissed, SetTask, AtStep, Page, TaskFits
  <2>2. task'[r].kind = "dismiss" /\ task'[r].step = "commit"
    BY <1>0, <2>1 DEF Tasks
  <2> QED BY <2>2 DEF Writes, Exchanges
<1>9. CASE ReleaseStopped(r) \/ Dismiss(r) \/ (ReadDismissed(r) /\ ~enabled[task[r].who])
  <2>1. task'[r] = NoTask
    BY <1>0, <1>9 DEF ReleaseStopped, Dismiss, ReadDismissed, Respond, SetTask
  <2> QED BY <1>0, <2>1 DEF Writes, Exchanges
<1>10. CASE StartClose(r)
  <2>1. task'[r] = NoTask
    BY <1>0, <1>10 DEF StartClose, Start, Page, TaskFits
  <2> QED BY <1>0, <2>1 DEF Writes, Exchanges
<1> QED BY <1>1, <1>2, <1>3, <1>4, <1>5, <1>6, <1>7, <1>8, <1>9, <1>10
        DEF EmployeePage

\* A thread of the services keeps to it: a writing page is in the writer, an
\* exchange is in the release of another key.
LEMMA ServiceExchanges ==
  ASSUME StaffInv, NEW r \in Requests, ServiceStep(r), Writes(r), Exchanges(r)
  PROVE  Writes(r)' /\ Exchanges(r)'
<1>0. task' = task /\ (Progress(r) \/ AcquireLock(r)) /\ TypeOK /\ RequestOK(r)
      /\ Page(r)
  BY DEF ServiceStep, StaffInv, HandInv
<1>1. Writes(r)'
  <2>1. CASE task[r].step = "written"
    BY <2>1, WriterStep
  <2>2. CASE task[r].step # "written"
    BY <1>0, <2>2 DEF Writes
  <2> QED BY <2>1, <2>2
<1>2. Exchanges(r)'
  <2> SUFFICES ASSUME task[r].kind = "write" PROVE Exchanges(r)'
    BY <1>0 DEF Exchanges
  <2>1. pc[r] # "reply"
    BY DEF ServiceStep, NoTask
  <2>2. task[r].step \notin {"readOld", "release", "check", "insert"}
    BY <2>1 DEF Exchanges
  <2>3. CASE task[r].step = "released"
    <3>1. task[r].key \in Keys \ {req[r].key}
      BY <1>0, <2>3 DEF Exchanges, Page, TaskFits, PageKinds
    <3>2. row'[task[r].key] = row[task[r].key]
      BY <1>0, <3>1, ServiceRows
    <3>3. req'[r].key = req[r].key
      <4>1. ~Answer(r)
        BY <2>1 DEF Answer
      <4> QED BY <1>0, <4>1, GoesOn, StepKeepsKeys DEF SameKeys
    <3> QED BY <1>0, <2>3, <3>2, <3>3 DEF Exchanges, Live
  <2>4. CASE task[r].step # "released"
    BY <1>0, <2>2, <2>4 DEF Exchanges
  <2> QED BY <2>3, <2>4
<1> QED BY <1>1, <1>2

\* A step of one thread moves no other, whatever it serves.
LEMMA PageMoves ==
  ASSUME TypeOK, NEW r \in Requests,
         EmployeePage(r) \/ ServiceStep(r) \/ StartMove(r) \/ LoseTask(r)
  PROVE  OnlyMoves(r)
<1>1. CASE ServiceStep(r) \/ StartMove(r) \/ LoseTask(r)
  BY SMTT(60), <1>1, StepMoves DEF ServiceStep, StartMove, LoseTask, Acts, Begin
<1>2. CASE WritingPage(r) \/ StartClose(r) \/ StartDismiss(r)
           \/ \E k \in Keys : ReleaseOld(r, k)
  BY ZenonT(60), <1>2, GoMoves
  DEF WritingPage, IssueRoute, CreateAndIssueRoute, AddKeysRoute, WriteRoute,
      StartWriting, StartClose, StartDismiss, ReleaseOld, Start
<1>3. CASE Written(r) \/ ReadOldKeys(r) \/ OldReleased(r)
  BY <1>3 DEF Written, ReadOldKeys, OldReleased, vars, OnlyMoves
<1>4. CASE \/ NotWritten(r) \/ ReleaseStopped(r) \/ CheckEmployee(r)
           \/ InsertRow(r) \/ ReadDismissed(r) \/ Dismiss(r)
  BY <1>4, GoMoves
  DEF NotWritten, ReleaseStopped, CheckEmployee, InsertRow, ReadDismissed,
      Dismiss, NextKey, Respond, vars
<1> QED BY <1>1, <1>2, <1>3, <1>4 DEF EmployeePage

\* Another thread can only begin when one is at work.
LEMMA OthersBegin ==
  ASSUME StaffInv, OneAtATime, NEW r \in Requests, NEW s \in Requests \ {r},
         EmployeePage(r) \/ ServiceStep(r) \/ StartMove(r) \/ LoseTask(r),
         pc[s] # "idle"
  PROVE  WritingPage(r) \/ StartClose(r) \/ StartDismiss(r) \/ StartMove(r)
<1>1. pc[r] = "idle"
  BY DEF OneAtATime
<1>2. ~ServiceStep(r) /\ ~LoseTask(r)
  BY <1>1, ActsBusy DEF ServiceStep, LoseTask
<1> QED
  BY <1>1, <1>2
  DEF EmployeePage, NotWritten, Written, ReadOldKeys, OldReleased,
      ReleaseStopped, ReleaseOld, CheckEmployee, InsertRow, ReadDismissed,
      Dismiss, AtStep

\* A step of another thread, when only one is at work, leaves an exchange alone.
LEMMA OthersExchange ==
  ASSUME StaffInv, OneAtATime, NEW r \in Requests, NEW s \in Requests \ {r},
         EmployeePage(r) \/ ServiceStep(r) \/ StartMove(r) \/ LoseTask(r),
         OnlyMoves(r), Writes(s), Exchanges(s)
  PROVE  Writes(s)' /\ Exchanges(s)'
<1>1. task'[s] = task[s] /\ pc'[s] = pc[s] /\ req'[s] = req[s]
  BY InsertIsChecked DEF ServiceStep, StartMove, OnlyMoves
<1>2. CASE pc[s] = "idle"
  BY <1>1, <1>2 DEF StaffInv, Page, TaskFits, NoTask, Writes, Exchanges
<1>3. CASE pc[s] # "idle"
  <2>1. WritingPage(r) \/ StartClose(r) \/ StartDismiss(r) \/ StartMove(r)
    BY <1>3, OthersBegin
  <2>2. row' = row
    <3>1. CASE WritingPage(r)
      <4>1. \E kind, e, k, panels, rest : StartWriting(r, kind, e, k, panels, rest)
        BY ZenonT(60), <3>1 DEF WritingPage, IssueRoute, CreateAndIssueRoute,
                                AddKeysRoute, WriteRoute
      <4> QED BY <4>1 DEF StartWriting, Start, store
    <3>2. CASE StartClose(r) \/ StartDismiss(r) \/ StartMove(r)
      BY ZenonT(60), <3>2 DEF StartClose, StartDismiss, StartMove, StartReassign, Start, store
    <3> QED BY <2>1, <3>1, <3>2
  <2> QED BY <1>1, <2>2 DEF Writes, Exchanges, Live
<1> QED BY <1>2, <1>3

\* Every step keeps to the order of an exchange.
LEMMA ExchangeStep ==
  ASSUME StaffInv, Checked, ExchangeFits, [StaffNext]_staffVars
  PROVE  ExchangeFits'
<1>0. CASE UNCHANGED staffVars
  BY <1>0 DEF staffVars, vars, store, ExchangeFits, Writes, Exchanges, Live
<1> SUFFICES ASSUME StaffNext, schedule.careful, NEW s \in Requests
             PROVE  Writes(s)' /\ Exchanges(s)'
  BY <1>0 DEF StaffNext, ExchangeFits
<1>1. OneAtATime /\ Writes(s) /\ Exchanges(s) /\ TypeOK
  BY DEF Checked, ExchangeFits, StaffInv, HandInv
<1>2. ASSUME NEW r \in Requests,
             EmployeePage(r) \/ ServiceStep(r) \/ StartMove(r) \/ LoseTask(r)
      PROVE  Writes(s)' /\ Exchanges(s)'
  <2>1. CASE s # r
    <3>1. OnlyMoves(r)
      BY <1>1, <1>2, PageMoves
    <3> QED BY <1>1, <1>2, <2>1, <3>1, OthersExchange
  <2>2. CASE s = r /\ EmployeePage(r)
    BY <1>1, <2>2, PageExchanges
  <2>3. CASE s = r /\ ServiceStep(r)
    BY <1>1, <2>3, ServiceExchanges
  <2>4. CASE s = r /\ (StartMove(r) \/ LoseTask(r))
    <3>1. task'[r] = NoTask
      BY ZenonT(60), <2>4 DEF StartMove, StartReassign, Start, LoseTask, SetTask, StaffInv,
                  Page, TaskFits
    <3> QED BY SMTT(60), <2>4, <3>1 DEF NoTask, Writes, Exchanges
  <2> QED BY <1>2, <2>1, <2>2, <2>3, <2>4
<1>3. ASSUME NEW e \in Employees, Restore(e) PROVE Writes(s)' /\ Exchanges(s)'
  BY <1>1, <1>3 DEF Restore, store, Writes, Exchanges, Live
<1> QED BY <1>2, <1>3 DEF StaffNext

\* The keys an employee has are taken away only when some panel has the one they
\* are exchanged for, when tasks follow each other and whatever workers are lost
\* ("Remove every previous employee key before closing its local history",
\* employees.py:103): what the writer reports is on the panel, and none of the
\* releases touches that key.
THEOREM ExchangedAfterWrite == StaffSpec => []ExchangeAfterWrite
<1>1. StaffInit => Checked /\ ExchangeFits
  BY DEF StaffInit, Checked, OneAtATime, ExchangeFits, Writes, Exchanges, NoTask
<1>2. StaffInv /\ StaffInv' /\ Checked /\ ExchangeFits
        /\ [StaffNext]_staffVars => Checked' /\ ExchangeFits'
  BY CheckedStep, ExchangeStep
<1>3. StaffInv /\ BooksAgree /\ [StaffNext]_staffVars => StaffInv'
  BY StaffStep
<1>4. ExchangeFits => ExchangeAfterWrite
  BY DEF ExchangeFits, Exchanges, ExchangeAfterWrite
<1> QED BY <1>1, <1>2, <1>3, <1>4, StaffInvariance, PTL DEF StaffSpec
-----------------------------------------------------------------------------
(* Keys taken away.                                                        *)

\* A page that takes keys away has read all keys of its employee, and has
\* released, or has still in its list, all but the one it gives in exchange.
TakesAway(r) == task[r].kind \in {"write", "dismiss"} =>
  /\ task[r].kind = "dismiss" => task[r].key = NoKey
  /\ task[r].step \in {"release", "released"} =>
       ActiveKeys(task[r].who) \subseteq task[r].rest \cup {task[r].key}
  /\ task[r].step \in {"check", "insert", "dismiss"} =>
       ActiveKeys(task[r].who) \subseteq {task[r].key}
  /\ task[r].step = "commit" => task[r].rest = {}
  /\ task[r].step = "released" =>
       /\ req[r].kind = "release"
       /\ pc[r] = "close" \/ (pc[r] = "reply" /\ ReleaseOk(r)) =>
            req[r].key \notin ActiveKeys(task[r].who)

TakesFits == schedule.careful => \A r \in Requests : TakesAway(r)

\* After a key that was written in exchange, or a dismissal, no other follows.
LEMMA NextKeyEnds ==
  ASSUME StaffInv, NEW r \in Requests, NextKey(r)
  PROVE  task'[r].kind \notin {"write", "dismiss"}
<1>0. task \in [Requests -> Tasks] /\ task[r] \in Tasks
  BY DEF StaffInv
<1>1. CASE Respond(r)
  BY <1>0, <1>1 DEF Respond, SetTask, NoTask
<1>2. CASE ~Respond(r)
  <2>1. PICK k \in task[r].rest :
          /\ task[r].kind = "add"
          /\ Go(r, "lock") /\ Update(r, WriteRequest(k, task[r].panels))
          /\ SetTask(r, [task[r] EXCEPT !.step = "written", !.key = k,
                                        !.rest = @ \ {k}])
    BY <1>2 DEF NextKey
  <2>2. task'[r] = [task[r] EXCEPT !.step = "written", !.key = k, !.rest = @ \ {k}]
    BY <1>0, <2>1 DEF SetTask
  <2> QED BY <1>0, <2>1, <2>2 DEF Tasks
<1> QED BY <1>1, <1>2

\* The pages take keys off their list only when they are released.
LEMMA PageTakes ==
  ASSUME StaffInv, NEW r \in Requests, EmployeePage(r), TakesAway(r)
  PROVE  TakesAway(r)'
<1>0. task \in [Requests -> Tasks] /\ task[r] \in Tasks /\ Page(r) /\ TypeOK
      /\ NoTask.kind = "none" /\ NoTask.step = "none"
  BY DEF StaffInv, HandInv, NoTask
<1>1. CASE WritingPage(r)
  <2>0. PICK e \in Employees, panels \in SUBSET Panels, k \in Keys,
             rest \in SUBSET Keys, kind \in PageKinds :
          StartWriting(r, kind, e, k, panels, rest)
    BY <1>1 DEF WritingPage, IssueRoute, CreateAndIssueRoute, AddKeysRoute,
                WriteRoute, PageKinds
  <2>1. task'[r] = [NoTask EXCEPT !.kind = kind, !.step = "written", !.who = e,
                           !.key = k, !.panels = panels, !.rest = rest]
    BY <1>0, <2>0 DEF StartWriting, SetTask
  <2>2. task'[r].step = "written" /\ task'[r].kind = kind
    BY <2>1 DEF NoTask
  <2> QED BY <2>2 DEF TakesAway, PageKinds
<1>2. CASE NotWritten(r) \/ InsertRow(r)
  BY <1>2, NextKeyEnds DEF NotWritten, InsertRow, TakesAway
<1>3. CASE Written(r)
  <2>1. task'[r] = [task[r] EXCEPT !.step = IF task[r].kind = "write"
                                              THEN "readOld" ELSE "check"]
    BY <1>0, <1>3 DEF Written, Turn, SetTask
  <2>2. /\ task'[r].kind = task[r].kind /\ task[r].kind \in PageKinds
        /\ task[r].kind = "write" => task'[r].step = "readOld"
    BY <1>0, <1>3, <2>1 DEF Tasks, Written, AtStep, Page, TaskFits
  <2>3. CASE task[r].kind = "write"
    BY <2>2, <2>3 DEF TakesAway
  <2>4. CASE task[r].kind # "write"
    BY <2>2, <2>4 DEF TakesAway, PageKinds
  <2> QED BY <2>3, <2>4
<1>4. ASSUME NEW rest \in SUBSET Keys, NEW t \in Tasks, SetTask(r, WithRest(t, rest)),
             UNCHANGED rows, t.kind = "dismiss" => t.key = NoKey,
             ActiveKeys(t.who) \subseteq rest \cup {t.key}
      PROVE  TakesAway(r)'
  <2>1. /\ task'[r].kind = t.kind /\ task'[r].who = t.who
        /\ task'[r].key = t.key /\ task'[r].rest = rest
        /\ task'[r].step \in {"check", "dismiss", "release"}
        /\ task'[r].step # "release" => rest = {}
    <3>1. task'[r] = WithRest(t, rest)
      BY <1>0, <1>4 DEF SetTask
    <3>2. WithRest(t, rest).rest = rest
      BY DEF WithRest, Tasks
    <3> QED BY <3>1, <3>2, WithRestTyped
  <2> QED BY <1>4, <2>1 DEF TakesAway, ActiveKeys
<1>5. CASE ReadOldKeys(r)
  <2>1. task[r].kind = "write"
    BY <1>0, <1>5 DEF ReadOldKeys, AtStep, Page, TaskFits
  <2>2. KeysToRelease(task[r]) \in SUBSET Keys
        /\ ActiveKeys(task[r].who) \subseteq KeysToRelease(task[r]) \cup {task[r].key}
    BY DEF KeysToRelease, ActiveKeys
  <2> QED BY <1>0, <1>4, <1>5, <2>1, <2>2 DEF ReadOldKeys, staff
<1>6. CASE OldReleased(r)
  <2>1. task[r].kind \in {"write", "dismiss"} /\ task[r].step = "released"
        /\ pc[r] = "reply" /\ ReleaseOk(r)
    BY <1>0, <1>6 DEF OldReleased, AtStep, Page, TaskFits
  <2> DEFINE rest == task[r].rest \ {req[r].key}
  <2>2. /\ rest \in SUBSET Keys
        /\ ActiveKeys(task[r].who) \subseteq rest \cup {task[r].key}
        /\ task[r].kind = "dismiss" => task[r].key = NoKey
    BY <1>0, <2>1 DEF TakesAway, Tasks
  <2>3. SetTask(r, WithRest(task[r], rest)) /\ UNCHANGED rows
    BY <1>6 DEF OldReleased, staff
  <2> HIDE DEF rest
  <2> QED BY <1>0, <1>4, <2>2, <2>3
<1>7. CASE \E k \in Keys : ReleaseOld(r, k)
  <2>1. PICK k \in Keys :
          /\ task[r].step = "release" /\ UNCHANGED rows
          /\ Update(r, Snapshot("release", k)) /\ Go(r, "find")
          /\ SetTask(r, [task[r] EXCEPT !.step = "released"])
    BY <1>7 DEF ReleaseOld, AtStep, Turn, staff
  <2>2. task'[r] = [task[r] EXCEPT !.step = "released"]
    BY <1>0, <2>1 DEF SetTask
  <2>3. /\ task'[r].kind = task[r].kind /\ task'[r].key = task[r].key
        /\ task'[r].who = task[r].who /\ task'[r].rest = task[r].rest
        /\ task'[r].step = "released"
    BY <1>0, <2>2 DEF Tasks
  <2>4. req'[r].kind = "release" /\ pc'[r] = "find"
    BY <1>0, <2>1, SnapshotTyped, UpdateTyped, GoTyped DEF OpTypes, Labels
  <2> QED BY <2>1, <2>3, <2>4 DEF TakesAway, ActiveKeys
<1>8. CASE CheckEmployee(r)
  <2>1. CASE enabled[task[r].who]
    <3>1. task'[r] = [task[r] EXCEPT !.step = "insert"] /\ rows' = rows
          /\ task[r].step = "check"
      BY <1>0, <1>8, <2>1 DEF CheckEmployee, Turn, SetTask, AtStep, staff
    <3>2. /\ task'[r].kind = task[r].kind /\ task'[r].key = task[r].key
          /\ task'[r].who = task[r].who /\ task'[r].step = "insert"
      BY <1>0, <3>1 DEF Tasks
    <3> QED BY <3>1, <3>2 DEF TakesAway, ActiveKeys
  <2>2. CASE ~enabled[task[r].who]
    BY <1>8, <2>2, NextKeyEnds DEF CheckEmployee, TakesAway
  <2> QED BY <2>1, <2>2
<1>9. CASE StartDismiss(r)
  <2>1. PICK e \in Employees :
          LET t == [NoTask EXCEPT !.kind = "dismiss", !.who = e]
          IN SetTask(r, WithRest(t, KeysToRelease(t)))
    BY <1>9 DEF StartDismiss
  <2> DEFINE t == [NoTask EXCEPT !.kind = "dismiss", !.who = e]
  <2>2. t \in Tasks /\ t.key = NoKey
    BY DEF NoTask, Tasks
  <2>3. SetTask(r, WithRest(t, KeysToRelease(t))) /\ UNCHANGED rows
    BY <1>9, <2>1 DEF StartDismiss, staff
  <2> HIDE DEF t
  <2>4. KeysToRelease(t) \in SUBSET Keys
        /\ ActiveKeys(t.who) \subseteq KeysToRelease(t) \cup {t.key}
    BY DEF KeysToRelease, ActiveKeys
  <2> QED BY <1>4, <2>2, <2>3, <2>4
<1>10. CASE ReadDismissed(r) /\ enabled[task[r].who]
  <2>1. /\ task[r].kind = "dismiss" /\ task[r].step = "dismiss"
        /\ task'[r] = [task[r] EXCEPT !.step = "commit",
                                      !.rest = ActiveKeys(task[r].who)]
    BY <1>0, <1>10 DEF ReadDismissed, SetTask, AtStep, Page, TaskFits
  <2>2. ActiveKeys(task[r].who) = {} /\ task[r].key = NoKey
    BY <2>1, NoKeyAssumption DEF TakesAway, ActiveKeys
  <2>3. /\ task'[r].kind = "dismiss" /\ task'[r].step = "commit"
        /\ task'[r].rest = {} /\ task'[r].key = NoKey
    BY <1>0, <2>1, <2>2 DEF Tasks
  <2> QED BY <2>3 DEF TakesAway
<1>11. CASE ReleaseStopped(r) \/ Dismiss(r) \/ (ReadDismissed(r) /\ ~enabled[task[r].who])
  <2>1. task'[r] = NoTask
    BY <1>0, <1>11 DEF ReleaseStopped, Dismiss, ReadDismissed, Respond, SetTask
  <2> QED BY <1>0, <2>1 DEF TakesAway
<1>12. CASE StartClose(r)
  <2>1. task'[r] = NoTask
    BY <1>0, <1>12 DEF StartClose, Start, Page, TaskFits
  <2> QED BY <1>0, <2>1 DEF TakesAway
<1> QED BY <1>1, <1>2, <1>3, <1>5, <1>6, <1>7, <1>8, <1>9, <1>10, <1>11, <1>12
        DEF EmployeePage

\* A release reaches its end through the local release only.
LEMMA ReleaseEnds ==
  ASSUME TypeOK, NEW r \in Requests, RequestOK(r), req[r].kind = "release",
         Progress(r) \/ AcquireLock(r), ~Answer(r)
  PROVE  /\ pc'[r] = "close" => Released(r)
         /\ pc'[r] = "reply" /\ ReleaseOk(r)' => pc[r] = "close"
<1>0. /\ pc \in [Requests -> Labels] /\ req[r] \in RequestRecords
      /\ req \in [Requests -> RequestRecords]
  BY RequestTyped DEF TypeOK
<1>1. ASSUME NEW p \in Panels, SendRemove(r, p) \/ SendAdd(r, p)
      PROVE  pc'[r] # "close" /\ pc'[r] # "reply"
  <2>1. Go(r, "recordRow") \/ Go(r, "recordAdd")
    BY <1>1 DEF SendRemove, SendAdd
  <2> QED BY SMTT(60), <1>0, <2>1 DEF Go
<1>2. ASSUME NEW p \in Panels,
             SkipKnown(r, p) \/ RefuseWrite(r, p) \/ RecordWritten(r, p)
      PROVE  pc'[r] # "close" /\ pc'[r] # "reply"
  BY <1>0, <1>2 DEF SkipKnown, RefuseWrite, RecordWritten
<1>3. CASE \/ FindOperation(r) \/ ResumeOperation(r) \/ CreateOperation(r)
           \/ MarkPending(r) \/ BeginDelete(r) \/ RecordRow(r) \/ RecordStep(r)
           \/ EndDelete(r) \/ AcquireLock(r)
  BY <1>0, <1>3
  DEF FindOperation, ResumeOperation, CreateOperation, MarkPending, BeginDelete,
      RecordRow, RecordStep, EndDelete, AcquireLock, Go
<1>4. CASE Finalize(r) \/ SkipFinalize(r)
  BY <1>0, <1>4 DEF Finalize, SkipFinalize, ResumedWritePhase, Released, Go
<1>5. ASSUME NEW outcome \in Outcomes, Reply(r, outcome), outcome # "SUCCESS"
      PROVE  pc'[r] = "reply" /\ ~ReleaseOk(r)'
  <2> DEFINE q == [req[r] EXCEPT !.outcome = outcome]
  <2>1. q \in RequestRecords /\ q.outcome = outcome
    BY <1>0 DEF RequestRecords
  <2>2. Update(r, q) /\ Go(r, "reply")
    BY <1>5 DEF Reply
  <2> HIDE DEF q
  <2>3. req'[r] = q /\ pc'[r] = "reply"
    BY <1>0, <2>2 DEF Update, Go
  <2> QED BY <1>5, <2>1, <2>3 DEF ReleaseOk
<1>6. CASE FailDelete(r) \/ FinalizeRefused(r)
  <2>1. PICK outcome \in {"PARTIAL", "ERROR", "EXCEPTION"} : Reply(r, outcome)
    BY <1>6 DEF FailDelete, FinalizeRefused
  <2> QED BY <1>5, <2>1 DEF Outcomes
<1>7. CASE CloseRelease(r)
  BY <1>0, <1>7 DEF CloseRelease, Reply, Go
<1>8. CASE EnsureWrite(r) \/ RecordAdd(r)
  BY <1>0, <1>8 DEF EnsureWrite, RecordAdd, Go
<1>9. CASE ReturnFromWriter(r)
  BY <1>0, <1>9 DEF ReturnFromWriter, Go
<1>10. CASE \/ FinishReassign(r) \/ FinishReplace(r) \/ AssignNew(r)
            \/ CloneAccesses(r) \/ CompleteReplace(r)
  BY <1>10 DEF FinishReassign, FinishReplace, AssignNew, CloneAccesses,
               CompleteReplace, RequestOK, ReplaceLabels
<1> QED BY <1>1, <1>2, <1>3, <1>4, <1>6, <1>7, <1>8, <1>9, <1>10 DEF Progress

\* A service closes rows, those of the key it releases.
LEMMA ServiceCloses ==
  ASSUME StaffInv, NEW r \in Requests, ServiceStep(r)
  PROVE  /\ \A e \in Employees : ActiveKeys(e)' \subseteq ActiveKeys(e)
         /\ Released(r) => \A e \in Employees : req[r].key \notin ActiveKeys(e)'
<1>0. rows \in [Employees -> [Keys -> EmployeeRows]]
  BY DEF StaffInv, StaffTables
<1>1. CASE RowsClosedBy(r)
  <2>1. PICK k : k = req[r].key
    OBVIOUS
  <2>2. rows' = [e \in Employees |->
                   [rows[e] EXCEPT ![k] = IF @ = "active" THEN "closed" ELSE @]]
    BY <1>1, <2>1 DEF ServiceStep, StaffFollows
  <2>3. \A e \in Employees, l \in Keys : rows'[e][l] = "active" =>
          rows[e][l] = "active" /\ l # k
    BY <1>0, <2>2
  <2> QED BY <2>1, <2>3 DEF ActiveKeys
<1>2. CASE ~RowsClosedBy(r)
  BY <1>2 DEF ServiceStep, StaffFollows, staff, ActiveKeys, RowsClosedBy
<1> QED BY <1>1, <1>2

\* While a service works for a page, it can only bring it nearer to its end.
LEMMA ServiceTakes ==
  ASSUME StaffInv, NEW r \in Requests, ServiceStep(r), TakesAway(r)
  PROVE  TakesAway(r)'
<1> SUFFICES ASSUME task[r].kind \in {"write", "dismiss"} PROVE TakesAway(r)'
  BY DEF ServiceStep, TakesAway
<1>0. /\ task' = task /\ (Progress(r) \/ AcquireLock(r)) /\ TypeOK /\ RequestOK(r)
      /\ task[r].who \in Employees /\ pc[r] # "reply"
  BY DEF ServiceStep, StaffInv, HandInv, Page, TaskFits, NoTask
<1>1. ActiveKeys(task[r].who)' \subseteq ActiveKeys(task[r].who)
  <2>1. PICK e \in Employees : e = task[r].who /\ e = task'[r].who
    BY <1>0
  <2>2. ActiveKeys(e)' \subseteq ActiveKeys(e)
    BY ServiceCloses
  <2> QED BY <2>1, <2>2 DEF ActiveKeys
<1>2. CASE task[r].step = "released"
  <2>1. req[r].kind = "release" /\ ~Answer(r)
    BY <1>0, <1>2 DEF TakesAway, Answer
  <2>2. req'[r].kind = "release" /\ req'[r].key = req[r].key
    BY <1>0, <2>1, GoesOn, StepKeepsKeys DEF SameKeys
  <2>3. pc'[r] = "close" => req[r].key \notin ActiveKeys(task[r].who)'
    <3>1. PICK e \in Employees : e = task[r].who /\ e = task'[r].who
      BY <1>0
    <3>2. pc'[r] = "close" => req[r].key \notin ActiveKeys(e)'
      BY <1>0, <2>1, ReleaseEnds, ServiceCloses
    <3> QED BY <3>1, <3>2 DEF ActiveKeys
  <2>4. pc'[r] = "reply" /\ ReleaseOk(r)' =>
          req[r].key \notin ActiveKeys(task[r].who)'
    <3>1. pc'[r] = "reply" /\ ReleaseOk(r)' => pc[r] = "close"
      BY <1>0, <2>1, ReleaseEnds
    <3> QED BY <1>1, <1>2, <3>1 DEF TakesAway
  <2> QED BY <1>0, <1>1, <1>2, <2>2, <2>3, <2>4 DEF TakesAway
<1>3. CASE task[r].step # "released"
  BY <1>0, <1>1, <1>3 DEF TakesAway
<1> QED BY <1>2, <1>3

\* Nobody gives the employee of a page at work another key.
LEMMA OthersTake ==
  ASSUME StaffInv, OneAtATime, NEW r \in Requests, NEW s \in Requests \ {r},
         EmployeePage(r) \/ ServiceStep(r) \/ StartMove(r) \/ LoseTask(r),
         OnlyMoves(r), TakesAway(s)
  PROVE  TakesAway(s)'
<1>1. task'[s] = task[s] /\ pc'[s] = pc[s] /\ req'[s] = req[s]
  BY InsertIsChecked DEF ServiceStep, StartMove, OnlyMoves
<1>2. CASE pc[s] = "idle"
  BY <1>1, <1>2 DEF StaffInv, Page, TaskFits, NoTask, TakesAway
<1>3. CASE pc[s] # "idle"
  <2>1. UNCHANGED staff
    BY <1>3, OthersBegin, PagesRead
    DEF EmployeePage, InsertRow, Dismiss, AtStep, OneAtATime, StartMove
  <2> QED BY <1>1, <2>1 DEF staff, TakesAway, ActiveKeys, ReleaseOk
<1> QED BY <1>2, <1>3

\* Every step keeps the lists of the keys to take away complete.
LEMMA TakesStep ==
  ASSUME StaffInv, Checked, TakesFits, [StaffNext]_staffVars
  PROVE  TakesFits'
<1>0. CASE UNCHANGED staffVars
  BY <1>0 DEF staffVars, vars, staff, TakesFits, TakesAway, ActiveKeys, ReleaseOk
<1> SUFFICES ASSUME StaffNext, schedule.careful, NEW s \in Requests
             PROVE  TakesAway(s)'
  BY <1>0 DEF StaffNext, TakesFits
<1>1. OneAtATime /\ TakesAway(s) /\ TypeOK
  BY DEF Checked, TakesFits, StaffInv, HandInv
<1>2. ASSUME NEW r \in Requests,
             EmployeePage(r) \/ ServiceStep(r) \/ StartMove(r) \/ LoseTask(r)
      PROVE  TakesAway(s)'
  <2>1. CASE s # r
    <3>1. OnlyMoves(r)
      BY <1>1, <1>2, PageMoves
    <3> QED BY <1>1, <1>2, <2>1, <3>1, OthersTake
  <2>2. CASE s = r /\ EmployeePage(r)
    BY <1>1, <2>2, PageTakes
  <2>3. CASE s = r /\ ServiceStep(r)
    BY <1>1, <2>3, ServiceTakes
  <2>4. CASE s = r /\ (StartMove(r) \/ LoseTask(r))
    <3>1. task'[r] = NoTask
      BY <2>4 DEF StartMove, StartReassign, Start, LoseTask, SetTask, StaffInv,
                  Page, TaskFits
    <3> QED BY <2>4, <3>1 DEF NoTask, TakesAway
  <2> QED BY <1>2, <2>1, <2>2, <2>3, <2>4
<1>3. ASSUME NEW e \in Employees, Restore(e) PROVE TakesAway(s)'
  BY <1>1, <1>3 DEF Restore, TakesAway, ActiveKeys, ReleaseOk
<1> QED BY <1>2, <1>3 DEF StaffNext

\* At the start nobody takes keys away.
LEMMA TakesInit == StaffInit => Checked /\ TakesFits
BY DEF StaffInit, Checked, OneAtATime, TakesFits, TakesAway, NoTask

\* An insertion in exchange leaves its employee with the new key only.
LEMMA ExchangeEnds ==
  ASSUME StaffInv, TakesFits, StaffNext, schedule.careful, NEW r \in Requests,
         AtStep(r, "insert"), task[r].kind = "write", pc'[r] = "idle",
         crashes' = crashes, NEW k \in Keys, rows'[task[r].who][k] = "active"
  PROVE  k = task[r].key
<1>0. /\ TypeOK /\ pc[r] = "reply" /\ task[r].step = "insert" /\ crashes \in Nat
      /\ rows \in [Employees -> [Keys -> EmployeeRows]] /\ task[r].who \in Employees
      /\ ActiveKeys(task[r].who) \subseteq {task[r].key}
  BY DEF StaffInv, HandInv, TypeOK, StaffTables, Page, TaskFits, AtStep,
         TakesFits, TakesAway
<1>1. PICK q \in Requests :
        EmployeePage(q) \/ ServiceStep(q) \/ StartMove(q) \/ LoseTask(q)
  BY <1>0 DEF StaffNext, Restore
<1>2. q = r
  BY <1>0, <1>1, PageMoves DEF OnlyMoves
<1>3. InsertRow(r)
  <2>1. ~ServiceStep(r)
    BY <1>0 DEF ServiceStep, NoTask
  <2>2. ~StartMove(r) /\ ~LoseTask(r)
    BY <1>0 DEF StartMove, StartReassign, Start, LoseTask, Crash
  <2>3. ~WritingPage(r) /\ ~StartClose(r) /\ ~StartDismiss(r)
    BY <1>0 DEF WritingPage, IssueRoute, CreateAndIssueRoute, AddKeysRoute,
                WriteRoute, StartWriting, StartClose, StartDismiss, Start
  <2> QED BY <1>0, <1>1, <1>2, <2>1, <2>2, <2>3
          DEF EmployeePage, NotWritten, Written, ReadOldKeys, OldReleased,
              ReleaseStopped, ReleaseOld, CheckEmployee, ReadDismissed,
              Dismiss, AtStep
<1>4. UNCHANGED rows \/ rows' = [rows EXCEPT ![task[r].who][task[r].key] = "active"]
  BY <1>3 DEF InsertRow, staff
<1> QED BY <1>0, <1>4 DEF ActiveKeys

\* An employee who gets a key in exchange for the others is left with that one
\* only, in however many attempts and whatever workers were lost before, when
\* tasks follow each other ("Remove every previous employee key before closing
\* its local history", employees.py:103).
THEOREM ExchangedKeysGo == StaffSpec => ExchangeLeavesOne
<1>1. StaffInv /\ TakesFits /\ [StaffNext]_staffVars =>
        [schedule.careful => \A r \in Requests :
           /\ AtStep(r, "insert") /\ task[r].kind = "write"
           /\ pc'[r] = "idle" /\ crashes' = crashes
           => \A k \in Keys : rows'[task[r].who][k] = "active"
                                => k = task[r].key]_staffVars
  BY ExchangeEnds
<1>2. StaffInv /\ StaffInv' /\ Checked /\ TakesFits
        /\ [StaffNext]_staffVars => Checked' /\ TakesFits'
  BY CheckedStep, TakesStep
<1>3. StaffInv /\ BooksAgree /\ [StaffNext]_staffVars => StaffInv'
  BY StaffStep
<1> QED BY <1>1, <1>2, <1>3, TakesInit, StaffInvariance, PTL
        DEF StaffSpec, ExchangeLeavesOne

-----------------------------------------------------------------------------
(* The books of the lifecycle, under the pages.                            *)

\* A page makes no step of the writer and of the deletions itself.
LEMMA PageQuiet ==
  ASSUME StaffInv, NEW r \in Requests, EmployeePage(r) \/ StartMove(r)
  PROVE  Quiet(r)
<1>0. TypeOK
  BY DEF StaffInv, HandInv
<1>1. ASSUME NEW label \in {"find", "lock", "idle", "reply"}, Go(r, label),
             UNCHANGED <<crm, row, unconfirmed>>, pc[r] \in {"idle", "reply"}
      PROVE  Quiet(r)
  BY <1>0, <1>1, GoTyped DEF Quiet, Labels
<1>2. CASE WritingPage(r)
  <2>1. PICK kind, e, k, panels, rest : StartWriting(r, kind, e, k, panels, rest)
    BY <1>2 DEF WritingPage, IssueRoute, CreateAndIssueRoute, AddKeysRoute, WriteRoute
  <2> QED BY <1>1, <2>1 DEF StartWriting, Start, store
<1>3. CASE StartClose(r) \/ StartMove(r)
  BY ZenonT(60), <1>1, <1>3 DEF StartClose, StartMove, StartReassign, Start, store
<1>4. CASE StartDismiss(r) \/ \E k \in Keys : ReleaseOld(r, k)
  BY <1>1, <1>4 DEF StartDismiss, ReleaseOld, AtStep, store
<1>5. CASE Written(r) \/ ReadOldKeys(r) \/ OldReleased(r)
  BY <1>5 DEF Written, ReadOldKeys, OldReleased, AtStep, vars, store, Quiet
<1>6. ASSUME NextKey(r), pc[r] = "reply", UNCHANGED <<crm, row, unconfirmed>>
      PROVE  Quiet(r)
  BY <1>1, <1>6 DEF NextKey, Respond
<1>7. CASE NotWritten(r) \/ InsertRow(r)
  BY <1>6, <1>7 DEF NotWritten, InsertRow, AtStep, store
<1>8. CASE ReleaseStopped(r) \/ Dismiss(r)
  BY <1>1, <1>8 DEF ReleaseStopped, Dismiss, Respond, AtStep, store
<1>9. CASE CheckEmployee(r)
  <2>1. CASE enabled[task[r].who]
    BY <1>9, <2>1 DEF CheckEmployee, AtStep, vars, store, Quiet
  <2>2. CASE ~enabled[task[r].who]
    BY <1>6, <1>9, <2>2 DEF CheckEmployee, AtStep, store
  <2> QED BY <2>1, <2>2
<1>10. CASE ReadDismissed(r)
  <2>1. CASE enabled[task[r].who]
    BY <1>10, <2>1 DEF ReadDismissed, AtStep, vars, store, Quiet
  <2>2. CASE ~enabled[task[r].who]
    BY <1>1, <1>10, <2>2 DEF ReadDismissed, Respond, AtStep, store
  <2> QED BY <2>1, <2>2
<1> QED BY <1>2, <1>3, <1>4, <1>5, <1>7, <1>8, <1>9, <1>10 DEF EmployeePage

\* With one thread at work, a service under a page finds what it finds in
\* KeyLifecycle: a request to serve.
LEMMA ServedHere ==
  ASSUME StaffInv, OneAtATime, NEW r \in Requests, pc[r] \notin {"idle", "reply"}
  PROVE  TypeInv
<1>1. ASSUME NEW s \in Requests, pc[s] # "idle" PROVE req[s].kind # "none"
  BY <1>1 DEF StaffInv, HandInv, RequestOK, OneAtATime
<1> QED BY <1>1 DEF StaffInv, HandInv, TypeInv, Served

\* The pages keep the books of the lifecycle, one task at a time.
LEMMA StaffBooks ==
  ASSUME StaffInv, OneAtATime, OneAtATime', Books, [StaffNext]_staffVars
  PROVE  Books'
<1>0. TypeOK
  BY DEF StaffInv, HandInv
<1>1. Disjoint'
  BY DEF OneAtATime, Disjoint
<1>2. CASE UNCHANGED staffVars
  BY <1>1, <1>2 DEF staffVars, vars, store, Books, InHand, RemovedIsGone,
                    KnownCovers, Writing, WriteKey, Live, KeyTracked, InFlight
<1>3. CASE \E e \in Employees : Restore(e)
  BY <1>1, <1>3 DEF Restore, store, Books, InHand, RemovedIsGone, KnownCovers,
                    Writing, WriteKey, Live, KeyTracked, InFlight
<1>4. ASSUME NEW r \in Requests,
             EmployeePage(r) \/ ServiceStep(r) \/ StartMove(r) \/ LoseTask(r)
      PROVE  Books'
  <2>1. OnlyMoves(r)
    BY <1>0, <1>4, PageMoves
  <2>2. CASE Quiet(r)
    BY <1>0, <1>1, <2>1, <2>2, QuietBooks
  <2>3. CASE ~Quiet(r)
    <3>1. ServiceStep(r) \/ LoseTask(r)
      BY <1>4, <2>3, PageQuiet
    <3>2. Progress(r) \/ AcquireLock(r) \/ Crash(r)
      BY <3>1 DEF ServiceStep, LoseTask
    <3>3. pc[r] # "reply"
      <4>1. CASE Crash(r)
        BY SMTT(60), <1>0, <2>3, <4>1, GoTyped DEF Crash, Quiet, Labels, store
      <4>2. CASE ~Crash(r)
        BY <1>0, <2>3, <3>2, <4>2, QuietWork
        DEF MarkPending, RecordRow, RecordAdd, AcquireLock, SendRemove,
            SkipKnown, RefuseWrite, SendAdd
      <4> QED BY <4>1, <4>2
    <3>4. TypeInv
      BY <3>2, <3>3, ActsBusy, ServedHere
    <3> QED BY <1>1, <3>2, <3>4, WorkBooks
  <2> QED BY <2>2, <2>3
<1> QED BY <1>2, <1>3, <1>4 DEF StaffNext

StaffBooksFit == schedule.careful => Books

\* An assignment ends with a local release that has found no live row, or is
\* closed by a dismissal that has no key left to close.
LEMMA FreedStep ==
  ASSUME StaffInv, OneAtATime, Books, TakesFits, StaffNext, schedule.careful,
         NEW k \in Keys, assignment[k] # 0, assignment'[k] = 0
  PROVE  crm[k] \subseteq unconfirmed[k]
<1>0. /\ TypeOK /\ pc \in [Requests -> Labels] /\ serial \in Nat
      /\ assignment \in [Keys -> Nat]
  BY DEF StaffInv, HandInv, TypeOK, StoreTypeOK
<1>1. PICK r \in Requests :
        EmployeePage(r) \/ ServiceStep(r) \/ StartMove(r) \/ LoseTask(r)
  BY DEF StaffNext, Restore, store
<1>2. ~InsertRow(r)
  BY <1>0 DEF InsertRow, AssignEmployee, NewAssignment
<1>3. ~Dismiss(r)
  <2> SUFFICES ASSUME Dismiss(r) PROVE FALSE
    OBVIOUS
  <2>1. task[r].rest = {}
    BY DEF Dismiss, AtStep, StaffInv, Page, TaskFits, TakesFits, TakesAway
  <2> QED BY <2>1 DEF Dismiss
<1>4. ~(EmployeePage(r) \/ StartMove(r) \/ LoseTask(r))
  <2>1. ~EmployeePage(r)
    BY SMTT(60), <1>2, <1>3, PagesRead
  <2>2. ~StartMove(r) /\ ~LoseTask(r)
    BY ZenonT(60) DEF StartMove, StartReassign, Start, LoseTask, Crash, store
  <2> QED BY <2>1, <2>2
<1>5. ServiceStep(r) /\ (Progress(r) \/ AcquireLock(r))
  BY <1>1, <1>4 DEF ServiceStep
<1>6. k = req[r].key /\ RowsClosedBy(r)
  BY <1>5, ServiceAssigns
<1>7. CASE Released(r)
  <2>1. pc[r] = "finalize" /\ pc'[r] \in {"close", "ensure"} /\ ~ResumedWritePhase(r)
    BY <1>7 DEF Released
  <2>2. Finalize(r)
    <3>1. ~FinalizeRefused(r)
      BY <1>0, <2>1 DEF FinalizeRefused, Reply, Go
    <3> QED
      BY <1>5, <2>1, <3>1
      DEF Progress, SendRemove, SkipKnown, RefuseWrite, SendAdd, RecordWritten,
          FindOperation, ResumeOperation, CreateOperation, MarkPending,
          BeginDelete, RecordRow, RecordStep, FailDelete, EndDelete,
          SkipFinalize, CloseRelease, EnsureWrite, RecordAdd, ReturnFromWriter,
          FinishReassign, FinishReplace, AssignNew, CloneAccesses,
          CompleteReplace, Answer, AcquireLock
  <2>3. Live(k) = {}
    BY <1>6, <2>2 DEF Finalize, CanFinalize
  <2>4. ASSUME NEW p \in crm[k] PROVE ~InFlight(k, p)
    BY <2>1 DEF InFlight, OneAtATime
  <2> QED BY <2>3, <2>4 DEF Books, KeyTracked
<1>8. CASE ~Released(r)
  <2>1. pc[r] = "write" /\ pc'[r] = "recordSteps" /\ req[r].kind = "reassign"
        /\ req[r].wrote # {}
    BY <1>6, <1>8 DEF RowsClosedBy
  <2>2. ReturnFromWriter(r)
    BY <1>0, <1>5, <2>1
    DEF Progress, SendRemove, SkipKnown, RefuseWrite, SendAdd, RecordWritten,
        FindOperation, ResumeOperation, CreateOperation, MarkPending,
        BeginDelete, RecordRow, RecordStep, FailDelete, EndDelete, Finalize,
        FinalizeRefused, SkipFinalize, CloseRelease, EnsureWrite, RecordAdd,
        FinishReassign, FinishReplace, AssignNew, CloneAccesses,
        CompleteReplace, Answer, AcquireLock, Go
  <2>3. SetKeyAssignment(k, req[r].where)
    BY <1>6, <2>1, <2>2 DEF ReturnFromWriter, Attach
  <2> QED BY <1>0, <2>3 DEF SetKeyAssignment, KeepAssignment, NewAssignment
<1> QED BY <1>7, <1>8

\* No page lets go of a key that the CRM still has on a panel, up to creates that
\* were never confirmed, when tasks follow each other: the dismissal, which asks
\* neither the CRM nor the panels (employee_repository.py:968), finds no key left,
\* because its releases are over and have closed the rows of their keys.
THEOREM FreedAfterReleases == StaffSpec => FreedMeansGone
<1>1. StaffInit => StaffBooksFit
  <2> SUFFICES ASSUME StaffInit PROVE Books
    BY DEF StaffBooksFit
  <2>1. \A r \in Requests : pc[r] = "idle"
    BY DEF StaffInit
  <2>2. Disjoint /\ \A r \in Requests : InHand(r)
    BY <2>1 DEF Disjoint, InHand, RemovedIsGone, KnownCovers, Writing
  <2>3. \A k \in Keys : KeyTracked(k)
    BY DEF StaffInit, StoreInit, KeyTracked, Live, LiveStates
  <2> QED BY <2>2, <2>3 DEF Books
<1>2. StaffInv /\ Checked /\ Checked' /\ StaffBooksFit
        /\ [StaffNext]_staffVars => StaffBooksFit'
  <2> SUFFICES ASSUME StaffInv, Checked, Checked', StaffBooksFit,
                      [StaffNext]_staffVars, schedule'.careful
               PROVE  Books'
    BY DEF StaffBooksFit
  <2>1. schedule' = schedule
    BY DEF StaffNext, staffVars
  <2> QED BY <2>1, StaffBooks DEF Checked, StaffBooksFit
<1>3. StaffInv /\ Checked /\ StaffBooksFit /\ TakesFits /\ [StaffNext]_staffVars =>
        [schedule.careful => \A k \in Keys :
           assignment[k] # 0 /\ assignment'[k] = 0 =>
             crm[k] \subseteq unconfirmed[k]]_staffVars
  BY FreedStep DEF Checked, StaffBooksFit
<1>4. StaffInv /\ StaffInv' /\ Checked /\ TakesFits
        /\ [StaffNext]_staffVars => Checked' /\ TakesFits'
  BY CheckedStep, TakesStep
<1>5. StaffInv /\ BooksAgree /\ [StaffNext]_staffVars => StaffInv'
  BY StaffStep
<1> QED BY <1>1, <1>2, <1>3, <1>4, <1>5, TakesInit, StaffInvariance, PTL
        DEF StaffSpec, FreedMeansGone
=============================================================================
