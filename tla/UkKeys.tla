------------------------------- MODULE UkKeys -------------------------------
(***************************************************************************)
(* Keys issued to a management company: services/uk_keys.py over the       *)
(* issues, programmings and CRM results of uk_repository.py.  An issue is  *)
(* one key given to the company; a programming is that key on one panel.   *)
(* The company has one account in the CRM and its panels stay linked.      *)
(*                                                                         *)
(* Nothing here takes the advisory lock of the writer.  The result of a    *)
(* CRM call is stored by two transactions: record_crm_result, then the     *)
(* panel row of KeyStore.  A transaction that takes a panel off the books  *)
(* reads in between, without locks: each of its statements is a step.      *)
(***************************************************************************)
EXTENDS KeyStore

CONSTANTS Operators,   \* threads that serve the company pages
          Company,     \* the place "УК: <id>" of a company's keys
          Schedules    \* who may get in whose way, with the bounds

TaskKinds == {"issue", "panel", "retry", "remove", "unlink"}

\* alone: each task is finished (or lost) before the next click, on a page that
\* has been loaded since; kinds: the work asked for; panels: those of the company;
\* tasks, losses: bounds on the tasks started and the workers lost; releases: how
\* often a key card is used (UkLifecycle).
ScheduleRecords ==
  [alone : BOOLEAN, kinds : SUBSET TaskKinds, panels : SUBSET Panels, tasks : Nat,
   losses : Nat, releases : Nat]

VARIABLES crm,          \* the panels each key opens, in the central CRM
          unconfirmed,  \* history: creates whose success was never stored
          issues,       \* uk_key_issues
          programmings, \* uk_key_programmings
          upc, ureq,    \* control point and local variables of an operator
          tasks, losses,
          schedule      \* fixed for a behaviour

company == <<issues, programmings>>
thread == <<upc, ureq>>
ukVars == <<keyStatus, assignment, place, serial, row, ops, crm, unconfirmed,
            company, thread, tasks, losses, schedule>>

IssueStatuses == {"pending", "active", "released"}
OpenStatuses == {"pending", "active"}

\* dry_run is an error that changed nothing.
ProgrammingStatuses == {"pending", "success", "error", "unlinked", "removed"}

Issues == [key : Keys, status : IssueStatuses]
Programmings ==
  [issue : Nat, panel : Panels, primary : BOOLEAN, active : BOOLEAN,
   status : ProgrammingStatuses]

KeyOf(g) == issues[programmings[g].issue].key

OpenIssues(k) ==
  {i \in DOMAIN issues : issues[i].key = k /\ issues[i].status \in OpenStatuses}

ActiveOf(table, i) ==
  {g \in DOMAIN table : table[g].issue = i /\ table[g].active}

Idle == [kind |-> "none", issue |-> 0, key |-> NoKey, more |-> {}, queue |-> {},
         current |-> 0, answer |-> FALSE, chosen |-> 0, emptied |-> FALSE]

UkInit ==
  /\ StoreInit([k \in Keys |-> {}], Company)
  /\ crm = [k \in Keys |-> {}]
  /\ unconfirmed = [k \in Keys |-> {}]
  /\ issues = <<>>
  /\ programmings = <<>>
  /\ upc = [o \in Operators |-> "idle"]
  /\ ureq = [o \in Operators |-> Idle]
  /\ tasks = 0
  /\ losses = 0
  /\ schedule \in Schedules

At(o, label) == upc' = [upc EXCEPT ![o] = label]
Note(o, request) == ureq' = [ureq EXCEPT ![o] = request]
Finish(o) == At(o, "idle") /\ Note(o, Idle)

-----------------------------------------------------------------------------
(* The clicks.  The server looks at little of what a page has shown.       *)

Click(kind) ==
  /\ kind \in schedule.kinds
  /\ tasks < schedule.tasks
  /\ tasks' = tasks + 1
  /\ schedule.alone => \A q \in Operators : upc[q] = "idle"

StartTask(o, kind, label, request) ==
  /\ upc[o] = "idle"
  /\ Click(kind)
  /\ At(o, label)
  /\ Note(o, [request EXCEPT !.kind = kind])
  /\ UNCHANGED <<keyStatus, assignment, place, serial, row, ops, crm,
                 unconfirmed, company, losses>>

\* The key picker offers free keys, an issue that is closed takes no panel: any
\* other click is refused by CanIssue and CanProgram.
StartIssue(o) == \E k \in Keys, panels \in (SUBSET Panels) \ {{}} :
  /\ keyStatus[k] = "free" /\ panels \subseteq schedule.panels
  /\ StartTask(o, "issue", "create", [Idle EXCEPT !.key = k, !.more = panels])

StartPanel(o) == \E i \in DOMAIN issues, p \in Panels :
  /\ issues[i].status \in OpenStatuses /\ p \in schedule.panels
  /\ StartTask(o, "panel", "more",
               [Idle EXCEPT !.issue = i, !.key = issues[i].key, !.more = {p}])

\* What a page offers for a programming, those of closed issues included.
Offered(kind, g) ==
  CASE kind = "retry"  -> /\ programmings[g].active
                          /\ programmings[g].status \in {"pending", "error"}
    [] kind = "remove" -> programmings[g].status \in {"success", "error", "unlinked"}
    [] kind = "unlink" -> programmings[g].active

\* The buttons of a page; one that is stale or clicked twice is served, too.
StartOn(o, kind, label, g) ==
  /\ schedule.alone => Offered(kind, g)
  /\ StartTask(o, kind, label,
               [Idle EXCEPT !.issue = programmings[g].issue, !.key = KeyOf(g),
                            !.queue = {g}, !.current = g])

StartRetry(o) == \E g \in DOMAIN programmings : StartOn(o, "retry", "call", g)

StartRemove(o) == \E g \in DOMAIN programmings : StartOn(o, "remove", "call", g)

\* unlink_programming looks for the active programming; otherwise ValueError.
StartUnlink(o) == \E g \in DOMAIN programmings :
  programmings[g].active /\ StartOn(o, "unlink", "deactivate", g)

-----------------------------------------------------------------------------
(* Row locks of uk_key_programmings: what a transaction has updated and not *)
(* committed is waited for.                                                 *)

Held(o) ==
  CASE upc[o] \in {"promote", "pick", "crown"} -> {ureq[o].current}
    [] upc[o] \in {"empty", "commit"} -> {ureq[o].current, ureq[o].chosen}
    [] OTHER -> {}

IsFree(g, o) == \A q \in Operators \ {o} : g \notin Held(q)

-----------------------------------------------------------------------------
(* create_key_issue and create_programming.                                *)

NewProgramming(i, p, primary) ==
  [issue |-> i, panel |-> p, primary |-> primary, active |-> TRUE,
   status |-> "pending"]

\* The key is locked and must be free; one open issue per key (unique index).
CanIssue(k) == keyStatus[k] = "free" /\ OpenIssues(k) = {}

CanProgram(i, p) ==
  /\ issues[i].status \in OpenStatuses
  /\ \A g \in ActiveOf(programmings, i) : programmings[g].panel # p

\* Adds a programming of issue i and goes on with the panels still missing.
AddProgramming(o, i, p, primary) ==
  /\ programmings' = Append(programmings, NewProgramming(i, p, primary))
  /\ Note(o, [ureq[o] EXCEPT !.issue = i, !.more = @ \ {p},
                             !.queue = @ \cup {Len(programmings) + 1}])
  /\ At(o, IF ureq[o].more = {p} THEN "call" ELSE "more")
  /\ UNCHANGED <<keyStatus, assignment, place, serial, row, ops, crm,
                 unconfirmed, tasks, losses>>

CreateIssue(o, p) ==
  /\ upc[o] = "create"
  /\ p \in ureq[o].more
  /\ CanIssue(ureq[o].key)
  /\ issues' = Append(issues, [key |-> ureq[o].key, status |-> "pending"])
  /\ AddProgramming(o, Len(issues) + 1, p, TRUE)

\* Mutant of CreateProgramming: every panel is a primary one.
CreatePrimary(o, p) ==
  /\ upc[o] = "more"
  /\ p \in ureq[o].more
  /\ CanProgram(ureq[o].issue, p)
  /\ AddProgramming(o, ureq[o].issue, p, TRUE)
  /\ UNCHANGED issues

CreateProgramming(o, p) ==
  /\ upc[o] = "more"
  /\ p \in ureq[o].more
  /\ CanProgram(ureq[o].issue, p)
  /\ AddProgramming(o, ureq[o].issue, p, FALSE)
  /\ UNCHANGED issues

\* A panel that is on the books already, by a row nobody is taking off them.
Taken(o, p) == \E g \in ActiveOf(programmings, ureq[o].issue) :
  programmings[g].panel = p /\ IsFree(g, o)

\* ValueError: the task ends and leaves what it has created so far pending.
CreateRefused(o) ==
  /\ \/ upc[o] = "create" /\ ~CanIssue(ureq[o].key)
     \/ /\ upc[o] = "more"
        /\ \/ issues[ureq[o].issue].status \notin OpenStatuses
           \/ \E p \in ureq[o].more : Taken(o, p)
  /\ Finish(o)
  /\ UNCHANGED <<keyStatus, assignment, place, serial, row, ops, crm,
                 unconfirmed, company, tasks, losses>>

-----------------------------------------------------------------------------
(* _run_programming: the CRM, then record_crm_result, then the panel row.  *)

Adds(o) == ureq[o].kind # "remove"

\* Mutant of UkAnswers: a success is believed that changed nothing.
BelievedUkAnswers == [applied : BOOLEAN, confirmed : BOOLEAN]

UkAnswers == {a \in [applied : BOOLEAN, confirmed : BOOLEAN] :
                a.confirmed => a.applied}

Call(o, g) ==
  LET k == KeyOf(g) p == programmings[g].panel
  IN /\ upc[o] = "call"
     /\ g \in ureq[o].queue
     /\ \E a \in UkAnswers :
          /\ crm' = IF ~a.applied THEN crm
                    ELSE [crm EXCEPT ![k] = IF Adds(o) THEN @ \cup {p}
                                                       ELSE @ \ {p}]
          /\ unconfirmed' =
               [unconfirmed EXCEPT ![k] =
                  IF a.confirmed \/ p \in crm[k] THEN @ \cap crm'[k]
                                                ELSE @ \cup ({p} \cap crm'[k])]
          /\ Note(o, [ureq[o] EXCEPT !.current = g, !.answer = a.confirmed])
     /\ At(o, "record")
     /\ UNCHANGED <<keyStatus, assignment, place, serial, row, ops, company,
                    tasks, losses>>

SetStatus(g, status) ==
  programmings' = [programmings EXCEPT ![g].status = status]

\* A second open issue of the key is refused by the unique index.
Conflict(i) == OpenIssues(issues[i].key) \ {i} # {}

\* The issue is activated whatever has become of it, and the key is assigned.
RecordAdded(o) ==
  LET g == ureq[o].current i == programmings[g].issue
  IN /\ upc[o] = "record" /\ Adds(o) /\ ureq[o].answer
     /\ IsFree(g, o) /\ ~Conflict(i)
     /\ SetStatus(g, "success")
     /\ SetKeyAssignment(issues[i].key, Company)
     /\ issues' = [issues EXCEPT ![i].status = "active"]
     /\ unconfirmed' = [unconfirmed EXCEPT ![issues[i].key] =
                                       @ \ {programmings[g].panel}]
     /\ At(o, "row")
     /\ UNCHANGED <<row, ops, crm, ureq, tasks, losses>>

\* The transaction of RecordAdded is rolled back.  issue_key notes an error and
\* goes on with its next panel; the other pages end.
RecordConflict(o) ==
  LET g == ureq[o].current
      rest == ureq[o].queue \ {g}
  IN /\ upc[o] = "record" /\ Adds(o) /\ ureq[o].answer
     /\ IsFree(g, o) /\ Conflict(programmings[g].issue)
     /\ unconfirmed' = [unconfirmed EXCEPT ![KeyOf(g)] =
                          @ \cup {programmings[g].panel}]
     /\ IF ureq[o].kind = "issue"
          THEN SetStatus(g, "error") ELSE UNCHANGED programmings
     /\ IF rest = {} THEN Finish(o)
        ELSE At(o, "call") /\ Note(o, [ureq[o] EXCEPT !.queue = rest])
     /\ UNCHANGED <<keyStatus, assignment, place, serial, row, ops, crm,
                    issues, tasks, losses>>

\* A failed removal changes no status.
RecordFailed(o) ==
  /\ upc[o] = "record" /\ ~ureq[o].answer
  /\ IsFree(ureq[o].current, o)
  /\ IF Adds(o) THEN SetStatus(ureq[o].current, "error")
                ELSE UNCHANGED programmings
  /\ At(o, "row")
  /\ UNCHANGED <<keyStatus, assignment, place, serial, row, ops, crm,
                 unconfirmed, issues, ureq, tasks, losses>>

-----------------------------------------------------------------------------
(* unlink_programming and the removal of record_crm_result take a panel off *)
(* the books.  The tables change with the commit; READ COMMITTED shows each *)
(* statement the tables by then and the transaction's own row as inactive.  *)

\* The active programmings of the issue that are left, as o sees them.
Left(o) ==
  ActiveOf(programmings, programmings[ureq[o].current].issue) \ {ureq[o].current}

Go(o, label) ==
  /\ At(o, label)
  /\ UNCHANGED <<keyStatus, assignment, place, serial, row, ops, crm,
                 unconfirmed, company, tasks, losses>>

\* The UPDATE waits for its row; unlinking begins with it, a removal when the
\* CRM has confirmed it.
Deactivate(o) ==
  /\ \/ upc[o] = "deactivate"
     \/ upc[o] = "record" /\ ~Adds(o) /\ ureq[o].answer
  /\ IsFree(ureq[o].current, o)
  /\ Go(o, "promote")
  /\ UNCHANGED ureq

\* What follows the promotion: _release_empty_issue_on_connection, or nothing.
Promoted(o) == IF ureq[o].kind = "remove" THEN "empty" ELSE "commit"

\* _promote_primary_on_connection looks for a primary ...
SeekPrimary(o) ==
  /\ upc[o] = "promote"
  /\ Go(o, IF \E g \in Left(o) : programmings[g].primary THEN Promoted(o)
                                                          ELSE "pick")
  /\ UNCHANGED ureq

\* ... and for the oldest panel otherwise: created_at is taken to order the
\* programmings as they were committed (README.md says what this leaves out) ...
PickOldest(o) ==
  /\ upc[o] = "pick"
  /\ IF Left(o) = {} THEN Go(o, Promoted(o)) /\ UNCHANGED ureq
     ELSE /\ Go(o, "crown")
          /\ Note(o, [ureq[o] EXCEPT !.chosen =
                        CHOOSE g \in Left(o) : \A h \in Left(o) : g <= h])

\* ... whose row it waits for, and updates whatever has become of it.
PromotePrimary(o) ==
  /\ upc[o] = "crown"
  /\ IsFree(ureq[o].chosen, o)
  /\ Go(o, Promoted(o))
  /\ UNCHANGED ureq

\* Mutant of IssueEmpty: the issue is closed with its first panel.
IssueEmptied(o) == Left(o) \subseteq DOMAIN programmings

\* Mutant of IssueEmpty: asked before the panel is taken off.
IssueEmptyBefore(o) ==
  ActiveOf(programmings, programmings[ureq[o].current].issue) = {}

IssueEmpty(o) == Left(o) = {}

SeekActive(o) ==
  /\ upc[o] = "empty"
  /\ Go(o, "commit")
  /\ Note(o, [ureq[o] EXCEPT !.emptied = IssueEmpty(o)])

\* What the statements have found is written, whatever has changed since.  The
\* key is released with the last panel of the issue.
Commit(o) ==
  LET g == ureq[o].current
      i == programmings[g].issue
      removes == ureq[o].kind = "remove"
  IN /\ upc[o] = "commit"
     /\ programmings' = [h \in DOMAIN programmings |->
          [programmings[h] EXCEPT
             !.active  = @ /\ h # g,
             !.primary = @ \/ h = ureq[o].chosen,
             !.status  = IF h # g THEN @
                         ELSE IF removes THEN "removed" ELSE "unlinked"]]
     /\ IF ureq[o].emptied
          THEN /\ issues' = [issues EXCEPT ![i].status = "released"]
               /\ FinalizeRelease(issues[i].key, "free")
          ELSE UNCHANGED <<issues, keyStatus, assignment, place>>
     /\ IF ~removes THEN Finish(o)
        ELSE /\ At(o, "row")
             /\ Note(o, [ureq[o] EXCEPT !.chosen = 0, !.emptied = FALSE])
     /\ UNCHANGED <<serial, row, ops, crm, unconfirmed, tasks, losses>>

-----------------------------------------------------------------------------
RecordPanel(o) ==
  LET g == ureq[o].current
      k == KeyOf(g)
      p == programmings[g].panel
      rest == ureq[o].queue \ {g}
  IN /\ upc[o] = "row"
     /\ IF Adds(o) THEN RecordPanelWrite(k, p, ureq[o].answer)
                   ELSE RecordPanelDelete(k, p, ureq[o].answer)
     /\ IF rest = {} THEN Finish(o)
        ELSE At(o, "call") /\ Note(o, [ureq[o] EXCEPT !.queue = rest])
     /\ UNCHANGED <<keyStatus, assignment, place, serial, ops, crm, unconfirmed,
                    company, tasks, losses>>

\* finalize_release of the key lifecycle, as far as the company is concerned.
CloseIssues(k) ==
  /\ \A g \in DOMAIN programmings : KeyOf(g) = k =>
       \A o \in Operators : g \notin Held(o)
  /\ issues' = [i \in DOMAIN issues |->
                  IF i \in OpenIssues(k)
                    THEN [issues[i] EXCEPT !.status = "released"] ELSE issues[i]]
  /\ programmings' = [g \in DOMAIN programmings |->
                  IF KeyOf(g) = k /\ programmings[g].active
                    THEN [programmings[g] EXCEPT !.active = FALSE,
                                                 !.status = "removed"]
                    ELSE programmings[g]]

\* The worker is lost, or PostgreSQL ends the transaction of an unlinking or a
\* removal for a deadlock: it is rolled back.  The confirmation of a create may
\* be lost with the worker.
Lose(o) ==
  /\ upc[o] # "idle"
  /\ losses < schedule.losses
  /\ losses' = losses + 1
  /\ Finish(o)
  /\ LET g == ureq[o].current
     IN unconfirmed' = IF upc[o] = "record" /\ Adds(o) /\ ureq[o].answer
                         THEN [unconfirmed EXCEPT ![KeyOf(g)] =
                                 @ \cup {programmings[g].panel}]
                         ELSE unconfirmed
  /\ UNCHANGED <<keyStatus, assignment, place, serial, row, ops, crm, company,
                 tasks>>

Operate(o) ==
  \/ StartIssue(o) \/ StartPanel(o) \/ StartRetry(o) \/ StartRemove(o)
  \/ StartUnlink(o)
  \/ \E p \in Panels : CreateIssue(o, p) \/ CreateProgramming(o, p)
  \/ CreateRefused(o)
  \/ \E g \in DOMAIN programmings : Call(o, g)
  \/ RecordAdded(o) \/ RecordConflict(o) \/ RecordFailed(o)
  \/ Deactivate(o) \/ SeekPrimary(o) \/ PickOldest(o) \/ PromotePrimary(o)
  \/ SeekActive(o) \/ Commit(o)
  \/ RecordPanel(o) \/ Lose(o)

UkNext == (\E o \in Operators : Operate(o)) /\ UNCHANGED schedule

UkSpec == UkInit /\ [][UkNext]_ukVars

-----------------------------------------------------------------------------
(* Properties.                                                             *)

UkRequests ==
  [kind : TaskKinds \cup {"none"}, issue : Nat,
   key : Keys \cup {NoKey}, more : SUBSET Panels,
   queue : SUBSET (DOMAIN programmings),
   current : DOMAIN programmings \cup {0}, answer : BOOLEAN,
   chosen : DOMAIN programmings \cup {0}, emptied : BOOLEAN]

UkLabels == {"idle", "create", "more", "call", "record", "row", "deactivate",
             "promote", "pick", "crown", "empty", "commit"}

\* The tables hold what models.py:290-374 allows, every programming has its
\* issue, and an operator works on issues and programmings that exist.
UkTypeOK ==
  /\ StoreTypeOK
  /\ crm \in [Keys -> SUBSET Panels]
  /\ unconfirmed \in [Keys -> SUBSET Panels]
  /\ issues \in Seq(Issues)
  /\ programmings \in Seq(Programmings)
  /\ \A g \in DOMAIN programmings : programmings[g].issue \in DOMAIN issues
  /\ upc \in [Operators -> UkLabels]
  /\ ureq \in [Operators -> UkRequests]
  /\ tasks \in Nat
  /\ losses \in Nat

Handling(k, p) == \E o \in Operators :
  /\ upc[o] \in {"record", "row"}
  /\ KeyOf(ureq[o].current) = k /\ programmings[ureq[o].current].panel = p

Accounted(k) == {programmings[g].panel :
  g \in {h \in DOMAIN programmings :
           KeyOf(h) = k /\ programmings[h].active
             /\ programmings[h].status = "success"}}

\* What the CRM lets a key of the company open is on the books, as a live row
\* or as a successful programming, unless the success of the create was never
\* stored: uk_keys.py:58-66 and 106-124.
UkTracked == schedule.alone => \A k \in Keys : \A p \in crm[k] :
  p \in Live(k) \/ p \in Accounted(k) \/ p \in unconfirmed[k] \/ Handling(k, p)

\* The same by the panel rows alone, which are all that the key lifecycle
\* deletes by: key_lifecycle_repository.py:295-314.
RowsTracked == schedule.alone /\ schedule.losses = 0 => \A k \in Keys : \A p \in crm[k] :
  p \in Live(k) \/ p \in unconfirmed[k] \/ Handling(k, p)

\* A key comes free in a step that leaves no issue of it with an active panel.
FreesEmptyKeys ==
  \A k \in Keys : keyStatus[k] = "issued" /\ keyStatus'[k] = "free" =>
    \A i \in DOMAIN issues' :
      issues'[i].key = k => ActiveOf(programmings', i) = {}

\* Nothing is taken off the books behind the back of the CRM.
Bookkept == schedule.alone /\ "unlink" \notin schedule.kinds

\* No removal frees a key that some issue still has on a panel, while the tasks
\* follow each other and nothing is unlinked: uk_repository.py:1098-1127.
FreedWhenEmpty == [][Bookkept => FreesEmptyKeys]_ukVars

\* The same of every schedule: "ключ становится free, только когда после
\* успешных CRM-удалений не осталось активных программирований",
\* docs/database.md.
FreedOnlyWhenEmpty == [][FreesEmptyKeys]_ukVars

\* An active issue has its key: assigned to the company and not in stock.
IssueHoldsKey == Bookkept => \A i \in DOMAIN issues :
  issues[i].status = "active" =>
    keyStatus[issues[i].key] = "issued" /\ place[issues[i].key] = Company

\* However panels are unlinked and removed at a time, no issue ends up with two
\* active primaries, as long as panels are added one after the other: the unique
\* index, docs/database.md:317-319, never refuses a promotion, and so never undoes
\* the record of a removal the CRM has confirmed (uk_repository.py:1012-1030,
\* 1071-1095).
OnePrimary == \A g, h \in DOMAIN programmings :
  /\ programmings[g].active /\ programmings[g].primary
  /\ programmings[h].active /\ programmings[h].primary
  /\ programmings[g].issue = programmings[h].issue
  => g = h

\* An issue that has lost its last panels by removals is closed, also when they
\* overlap.  Each looks for a panel that is left and does not see what the others
\* have not committed: it is the promotion, which waits for the row of the next
\* panel, that makes one of them the last (uk_repository.py:1083-1107).
EmptiedIsReleased == (\A o \in Operators : upc[o] = "idle") =>
  \A i \in DOMAIN issues :
    (\A g \in DOMAIN programmings :
       programmings[g].issue = i => programmings[g].status = "removed")
    => issues[i].status = "released"

=============================================================================
