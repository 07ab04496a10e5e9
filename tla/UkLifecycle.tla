----------------------------- MODULE UkLifecycle -----------------------------
(***************************************************************************)
(* The company pages and the key lifecycle on one database and one CRM.    *)
(* A key of the company can be released (or retired) on its card like any  *)
(* other: release_key deletes it from the panels its rows name and         *)
(* finalize_release closes its issue.  Neither side takes a lock the other *)
(* one looks at.                                                           *)
(***************************************************************************)
EXTENDS KeyLifecycle

CONSTANTS Operators, Company, Schedules

VARIABLES issues, programmings, upc, ureq, tasks, losses, schedule

Uk == INSTANCE UkKeys

ASSUME CompanyAssumption == Company \in Places
\* The key card releases a key; it does not reassign or replace it.
ASSUME KindsAssumption == Kinds \subseteq {"release"}
ASSUME SchedulesAssumption == Schedules \subseteq Uk!ScheduleRecords

allVars == <<vars, issues, programmings, upc, ureq, tasks, losses, schedule>>

BothInit ==
  /\ Uk!UkInit
  /\ lock = [k \in Keys |-> NoRequester]
  /\ pc = [r \in Requests |-> "idle"]
  /\ req = [r \in Requests |-> NoRequest]
  /\ jobs = 0
  /\ crashes = 0

\* Mutant of Released: the issues are forgotten.
ReleasedBefore(r) == r \in {}

\* r has just made the local release, finalize_release.
Released(r) == pc[r] = "finalize" /\ pc'[r] = "close"

\* The release closes the issues of the key in its own transaction.
LifecycleStep(r) ==
  /\ Begin(r) \/ Progress(r) \/ Crash(r)
  /\ IF Released(r) THEN Uk!CloseIssues(req[r].key)
                    ELSE UNCHANGED <<issues, programmings>>
  /\ UNCHANGED <<upc, ureq, tasks, losses, schedule>>

CompanyStep ==
  /\ Uk!UkNext
  /\ UNCHANGED <<lock, pc, req, bounds>>

\* Without overlap nobody works on the company's side during a request.
Apart == \A r \in Requests, o \in Operators : pc[r] = "idle" \/ upc[o] = "idle"

BothNext ==
  /\ CompanyStep \/ \E r \in Requests : LifecycleStep(r)
  /\ Overlap \/ Apart'
  /\ jobs' <= schedule.releases

BothSpec == BothInit /\ [][BothNext]_allVars

-----------------------------------------------------------------------------
(* Properties: those of UkKeys, now with the releases of a key card.       *)

\* Where the books can follow the CRM: a schedule that lets one task follow the
\* other never takes a panel off the books, and the key card is used only with
\* such a schedule, and no worker lost.
Orderly == \A s \in Schedules :
  /\ s.alone => "unlink" \notin s.kinds
  /\ s.releases > 0 => s.alone /\ s.losses = 0

\* The books of the company are well formed, and what the CRM lets one of its
\* keys open is on them, as a panel row or as a successful programming.  The
\* panel rows alone, by which a release deletes, know it too, up to lost
\* workers: uk_keys.py:58-66 and 106-124.
CompanyOnBooks == Uk!UkTypeOK /\ Uk!UkTracked /\ Uk!RowsTracked

\* A key is released on its card only when the CRM has let go of it, although
\* another part of the program has programmed it: key_lifecycle.py:162-198,
\* uk_keys.py:58-124.
CompanyKeyGone ==
  [][\A r \in Requests : Released(r) =>
       crm[req[r].key] \subseteq unconfirmed[req[r].key]]_allVars

\* While an issue is active its key is with the company, whoever releases it,
\* and a closed issue has no active panel: key_lifecycle_repository.py:467-496.
CompanyHoldsKey ==
  /\ Uk!IssueHoldsKey
  /\ schedule.alone => \A i \in DOMAIN issues :
       issues[i].status = "released" => Uk!ActiveOf(programmings, i) = {}

\* No removal frees a key that has panels left, uk_repository.py:1098-1127.
CompanyFreedWhenEmpty == Uk!FreedWhenEmpty

\* No issue ends up with two active primaries, however many operators unlink and
\* remove its panels at a time, on pages that may be stale, as long as panels are
\* added one after the other: the unique index of uk_key_programmings never
\* refuses a promotion (uk_repository.py:1012-1095).
CompanyOnePrimary == Uk!OnePrimary

\* An issue that has lost its last panels by removals is closed, also when they
\* overlap and neither sees what the other has not committed:
\* uk_repository.py:1083-1127.
CompanyEmptied == Uk!EmptiedIsReleased

=============================================================================
