---------------------------- MODULE KeyLifecycle ----------------------------
(***************************************************************************)
(* Releasing, reassigning, replacing and programming physical keys:        *)
(* services/key_lifecycle.py and the panel writer of services/writer.py    *)
(* over the store of KeyStore, run by HTTP requests against the central    *)
(* CRM, which alone decides whether a key opens a panel.                   *)
(*                                                                         *)
(* A request is a thread of some worker.  It makes one step per db() block *)
(* and one per CRM call, so another request or the loss of the worker can  *)
(* come between any two of them.  Blocks that follow each other with only  *)
(* reads between are merged where their effects cannot be told apart       *)
(* (pending, running and failed steps are one state in KeyStore).          *)
(***************************************************************************)
EXTENDS KeyStore

CONSTANTS Requests,    \* threads that may serve a request
          NoPanel,     \* no CRM call in flight
          NoRequester, \* nobody holds the advisory lock
          Kinds,       \* the kinds of work the users ask for
          Contexts,    \* "card": keys.py passes target_context, "message": not
          Overlap,     \* may two requests work on one key at a time?
          MaxJobs,     \* bound on the requests ever made
          MaxCrashes   \* bound on the workers lost

ASSUME RequestsAssumption == NoRequester \notin Requests
ASSUME PanelsAssumption == NoPanel \notin Panels
ASSUME OverlapAssumption == Overlap \in BOOLEAN
ASSUME BoundsAssumption == MaxJobs \in Nat /\ MaxCrashes \in Nat

VARIABLES crm,         \* the panels each key opens, in the central CRM
          lock,        \* PostgreSQL advisory lock of the writer, per key
          pc, req,     \* control point and local variables of a request
          unconfirmed, \* history: creates whose success was never stored
          jobs, crashes

store == <<keyStatus, assignment, place, serial, row, ops>>
bounds == <<jobs, crashes>>
vars == <<store, crm, lock, pc, req, unconfirmed, bounds>>

Labels ==
  {"idle", "find", "persist", "mark", "begin", "delete", "recordRow",
   "recordStep", "finalize", "close", "ensure", "lock", "write", "recordAdd",
   "recordSteps", "assignNew", "clone", "complete", "reply"}

Outcomes == {"none", "SUCCESS", "PARTIAL", "ERROR", "EXCEPTION"}

NoRequest ==
  [kind |-> "none", key |-> NoKey, new |-> NoKey, final |-> "free",
   where |-> NoPlace, wanted |-> {}, target |-> {}, to |-> NoPlace,
   seen |-> "free", panels |-> {}, signature |-> 0, place |-> NoPlace, op |-> 0, resume |-> FALSE, loaded |-> "pending",
   todo |-> {}, pending |-> {}, panel |-> NoPanel, answer |-> FALSE,
   known |-> {}, wrote |-> {}, outcome |-> "none"]

Op(r) == ops[req[r].op]

\* The key the writer programs, and the keys a request works on.
WriteKey(r) == IF req[r].kind = "replace" THEN req[r].new ELSE req[r].key
Touches(r) == {req[r].key, req[r].new} \ {NoKey}

Init ==
  /\ \E programmed \in [Keys -> SUBSET Panels] :
        /\ \E home \in Places : StoreInit(programmed, home)
        /\ crm = programmed
  /\ lock = [k \in Keys |-> NoRequester]
  /\ pc = [r \in Requests |-> "idle"]
  /\ req = [r \in Requests |-> NoRequest]
  /\ unconfirmed = [k \in Keys |-> {}]
  /\ jobs = 0
  /\ crashes = 0

Go(r, label) == pc' = [pc EXCEPT ![r] = label]
Update(r, request) == req' = [req EXCEPT ![r] = request]
Reply(r, outcome) ==
  /\ Go(r, "reply")
  /\ Update(r, [req[r] EXCEPT !.outcome = outcome])

-----------------------------------------------------------------------------
(* A request arrives: what the route and the first lines of the service    *)
(* read of the key.                                                        *)

Admit(ks) ==
  /\ jobs < MaxJobs
  /\ jobs' = jobs + 1
  /\ Overlap \/ \A q \in Requests : pc[q] # "idle" => Touches(q) \cap ks = {}

Snapshot(kind, k) ==
  [NoRequest EXCEPT !.kind = kind, !.key = k, !.seen = keyStatus[k],
                    !.panels = Live(k), !.signature = assignment[k],
                    !.place = place[k]]

Start(r, ks, label, request) ==
  /\ pc[r] = "idle"
  /\ request.kind \in Kinds
  /\ Admit(ks)
  /\ Go(r, label)
  /\ Update(r, request)
  /\ UNCHANGED <<store, crm, lock, unconfirmed, crashes>>

StartRelease(r) == \E k \in Keys, final \in {"free", "retired"} :
  Start(r, {k}, "find", [Snapshot("release", k) EXCEPT !.final = final])

\* The card moves a key whose present place differs from the chosen one; any
\* other submission only edits the assignment (AssignLocally) or is refused.
MayReassign(k, where) == place[k] # NoPlace /\ place[k] # where

\* Only the key card hands the chosen panels on as target_context.
StartReassign(r) ==
  \E k \in Keys, where \in Places, wanted \in (SUBSET Panels) \ {{}},
     context \in Contexts :
    LET request == [Snapshot("reassign", k) EXCEPT !.where = where,
                                                   !.wanted = wanted]
    IN \/ /\ context = "card"
          /\ MayReassign(k, where)
          /\ Start(r, {k}, "find",
                   [request EXCEPT !.target = wanted, !.to = where])
       \/ /\ context = "message"
          /\ Occupied(k)
          /\ Start(r, {k}, "find", request)

\* The route lets the replacement start only with an unoccupied new key.
MayReplace(old, new) == old # new /\ ~Occupied(new)

StartReplace(r) == \E old, new \in Keys :
  /\ MayReplace(old, new)
  /\ Start(r, {old, new}, "find",
           [Snapshot("replace", old) EXCEPT
              !.new = new, !.final = "retired", !.seen = keyStatus[new]])

\* A key nobody uses is written and assigned.
StartWrite(r) ==
  \E k \in Keys, where \in Places, panels \in (SUBSET Panels) \ {{}} :
    /\ ~Occupied(k)
    /\ Start(r, {k}, "lock",
             [Snapshot("write", k) EXCEPT !.where = where,
                                          !.todo = panels, !.pending = panels])

\* A used key gets more panels; the message passes on the panels it has read.
StartAdd(r) ==
  \E k \in Keys, where \in Places, panels \in (SUBSET Panels) \ {{}},
     context \in Contexts :
    /\ context = "message" => Occupied(k)
    /\ Start(r, {k}, "lock",
             [Snapshot("add", k) EXCEPT
                !.where = where, !.todo = panels, !.pending = panels,
                !.known = IF context = "message" THEN Live(k) ELSE {}])

\* Assignments made without any panel: employee issue, edited key card.
AssignLocally(k, where) ==
  /\ "local" \in Kinds
  /\ Admit({k})
  /\ NewAssignment(k, where)
  /\ UNCHANGED <<row, ops, crm, lock, pc, req, unconfirmed, crashes>>

-----------------------------------------------------------------------------
(* create_or_resume_operation.                                             *)

FindOperation(r) ==
  /\ pc[r] = "find"
  /\ LET i == LatestOperation(req[r].kind, req[r].key, req[r].new)
         resume == i # 0 /\ CanResume(ops[i], req[r])
     IN Update(r, [req[r] EXCEPT
                     !.op = i, !.resume = resume,
                     !.loaded = IF resume THEN ops[i].status ELSE "pending"])
  /\ Go(r, "persist")
  /\ UNCHANGED <<store, crm, lock, unconfirmed, bounds>>

ResumeOperation(r) ==
  /\ pc[r] = "persist"
  /\ req[r].resume
  /\ Go(r, "mark")
  /\ UNCHANGED <<store, crm, lock, req, unconfirmed, bounds>>

\* A row that no longer fits is closed in the transaction of the new one.
CreateOperation(r) ==
  /\ pc[r] = "persist"
  /\ ~req[r].resume
  /\ LET kept == IF req[r].op = 0 THEN ops
                 ELSE [ops EXCEPT ![req[r].op].status = "completed"]
     IN ops' = Append(kept, NewOperation(req[r]))
  /\ Update(r, [req[r] EXCEPT !.op = Len(ops) + 1])
  /\ Go(r, "mark")
  /\ UNCHANGED <<keyStatus, assignment, place, serial, row, crm, lock,
                 unconfirmed, bounds>>

-----------------------------------------------------------------------------
(* The delete phase.                                                       *)

MarkPending(r) ==
  /\ pc[r] = "mark"
  /\ MarkPanelsPendingDelete(req[r].key, Op(r).source)
  /\ Go(r, "begin")
  /\ UNCHANGED <<keyStatus, assignment, place, serial, ops, crm, lock, req,
                 unconfirmed, bounds>>

\* Mutant of DeleteTodo: confirmed steps are not skipped.
DeleteAll(r) == Op(r).source

DeleteTodo(r) == Op(r).source \ Done(Op(r).delete)

BeginDelete(r) ==
  /\ pc[r] = "begin"
  /\ ChangeOperation(req[r].op,
       [Op(r) EXCEPT !.status = "deleting",
                     !.delete = EnsureSteps(@, Op(r).source)])
  /\ Update(r, [req[r] EXCEPT !.todo = DeleteTodo(r)])
  /\ Go(r, "delete")
  /\ UNCHANGED <<keyStatus, assignment, place, serial, row, crm, lock,
                 unconfirmed, bounds>>

\* Mutant of CrmAnswers: a success is believed that changed nothing (dry run).
BelievedAnswers == [applied : BOOLEAN, confirmed : BOOLEAN]

\* The CRM does what it is asked and says so, does it and the answer is lost,
\* or does nothing (refusal, time-out, no credentials, dry run).
CrmAnswers == {a \in [applied : BOOLEAN, confirmed : BOOLEAN] :
                 a.confirmed => a.applied}

SendRemove(r, p) ==
  /\ pc[r] = "delete"
  /\ p \in req[r].todo
  /\ \E a \in CrmAnswers :
        /\ crm' = IF a.applied THEN [crm EXCEPT ![req[r].key] = @ \ {p}]
                               ELSE crm
        /\ Update(r, [req[r] EXCEPT !.panel = p, !.answer = a.confirmed])
  /\ Go(r, "recordRow")
  /\ UNCHANGED <<store, lock, unconfirmed, bounds>>

RecordRow(r) ==
  /\ pc[r] = "recordRow"
  /\ RecordPanelDelete(req[r].key, req[r].panel, req[r].answer)
  /\ Go(r, "recordStep")
  /\ UNCHANGED <<keyStatus, assignment, place, serial, ops, crm, lock, req,
                 unconfirmed, bounds>>

RecordStep(r) ==
  /\ pc[r] = "recordStep"
  /\ RecordDeleteStep(req[r].op, req[r].panel, req[r].answer)
  /\ Update(r, [req[r] EXCEPT !.todo = @ \ {req[r].panel}, !.panel = NoPanel])
  /\ Go(r, "delete")
  /\ UNCHANGED <<keyStatus, assignment, place, serial, row, crm, lock,
                 unconfirmed, bounds>>

DeletePhaseComplete(r) == Unfinished(Op(r).delete) = {}

FailDelete(r) ==
  /\ pc[r] = "delete"
  /\ req[r].todo = {}
  /\ ~DeletePhaseComplete(r)
  /\ IF req[r].kind = "replace" \/ Done(Op(r).delete) # {}
       THEN SetOperationStatus(req[r].op, "partial") /\ Reply(r, "PARTIAL")
       ELSE SetOperationStatus(req[r].op, "error") /\ Reply(r, "ERROR")
  /\ UNCHANGED <<keyStatus, assignment, place, serial, row, crm, lock,
                 unconfirmed, bounds>>

EndDelete(r) ==
  /\ pc[r] = "delete"
  /\ req[r].todo = {}
  /\ DeletePhaseComplete(r)
  /\ Go(r, "finalize")
  /\ UNCHANGED <<store, crm, lock, req, unconfirmed, bounds>>

-----------------------------------------------------------------------------
(* The local release.                                                      *)

ResumedWritePhase(r) ==
  /\ req[r].kind = "reassign"
  /\ req[r].loaded \in {"writing", "partial", "error"}
  /\ Op(r).write # NoSteps

Finalize(r) ==
  /\ pc[r] = "finalize"
  /\ ~ResumedWritePhase(r)
  /\ CanFinalize(req[r].key)
  /\ FinalizeRelease(req[r].key, Op(r).final)
  /\ Go(r, IF req[r].kind = "replace" THEN "ensure" ELSE "close")
  /\ UNCHANGED <<serial, row, ops, crm, lock, req, unconfirmed, bounds>>

FinalizeRefused(r) ==
  /\ pc[r] = "finalize"
  /\ ~ResumedWritePhase(r)
  /\ ~CanFinalize(req[r].key)
  /\ Reply(r, "EXCEPTION")
  /\ UNCHANGED <<store, crm, lock, unconfirmed, bounds>>

SkipFinalize(r) ==
  /\ pc[r] = "finalize"
  /\ ResumedWritePhase(r)
  /\ Go(r, "close")
  /\ UNCHANGED <<store, crm, lock, req, unconfirmed, bounds>>

CloseRelease(r) ==
  /\ pc[r] = "close"
  /\ IF req[r].kind = "reassign"
       THEN /\ SetOperationStatus(req[r].op, "writing")
            /\ Go(r, "ensure")
            /\ UNCHANGED req
       ELSE SetOperationStatus(req[r].op, "completed") /\ Reply(r, "SUCCESS")
  /\ UNCHANGED <<keyStatus, assignment, place, serial, row, crm, lock,
                 unconfirmed, bounds>>

-----------------------------------------------------------------------------
(* The write phase of reassign and replace: its steps, then the callback.  *)

WriteTargets(r) ==
  IF req[r].kind = "replace" THEN Op(r).source ELSE req[r].target

EnsureWrite(r) ==
  /\ pc[r] = "ensure"
  /\ LET steps == EnsureSteps(Op(r).write, WriteTargets(r))
     IN /\ ChangeOperation(req[r].op,
             [Op(r) EXCEPT !.write = steps,
                           !.status = IF req[r].kind = "replace" THEN "writing"
                                                                 ELSE @])
        /\ Update(r, [req[r] EXCEPT !.todo = Unfinished(steps),
                                    !.pending = Unfinished(steps)])
        /\ Go(r, IF Unfinished(steps) = {} THEN "recordSteps" ELSE "lock")
  /\ UNCHANGED <<keyStatus, assignment, place, serial, row, crm, lock,
                 unconfirmed, bounds>>

-----------------------------------------------------------------------------
(* write_key_to_panels, under the advisory lock of the key.                *)

\* Mutant of LockFree: the lock admits anybody.
LockOpen(k) == k \in Keys

LockFree(k) == lock[k] = NoRequester

\* Mutant of Unlock: the lock is kept.
StayLocked(r) == lock

Unlock(r) == [lock EXCEPT ![WriteKey(r)] = NoRequester]

\* Mutant of KnownPanels: no second look.
KnownBefore(r) == req[r].known

KnownPanels(r) == req[r].known \cup Live(WriteKey(r))

AcquireLock(r) ==
  /\ pc[r] = "lock"
  /\ LockFree(WriteKey(r))
  /\ lock' = [lock EXCEPT ![WriteKey(r)] = r]
  /\ Update(r, [req[r] EXCEPT !.known = KnownPanels(r)])
  /\ Go(r, "write")
  /\ UNCHANGED <<store, crm, unconfirmed, bounds>>

\* ALREADY_ON_PANEL: no request is sent.
SkipKnown(r, p) ==
  /\ pc[r] = "write"
  /\ p \in req[r].todo \cap req[r].known
  /\ Update(r, [req[r] EXCEPT !.todo = @ \ {p}, !.wrote = @ \cup {p}])
  /\ UNCHANGED <<store, crm, lock, pc, unconfirmed, bounds>>

\* KEY_UNAVAILABLE, by the status the route read before the lock was taken.
RefuseWrite(r, p) ==
  /\ pc[r] = "write"
  /\ p \in req[r].todo \ req[r].known
  /\ Unavailable(req[r].seen)
  /\ RecordPanelWrite(WriteKey(r), p, FALSE)
  /\ Update(r, [req[r] EXCEPT !.todo = @ \ {p}])
  /\ UNCHANGED <<keyStatus, assignment, place, serial, ops, crm, lock, pc,
                 unconfirmed, bounds>>

SendAdd(r, p) ==
  /\ pc[r] = "write"
  /\ p \in req[r].todo \ req[r].known
  /\ ~Unavailable(req[r].seen)
  /\ \E a \in CrmAnswers :
        /\ crm' = IF a.applied THEN [crm EXCEPT ![WriteKey(r)] = @ \cup {p}]
                               ELSE crm
        /\ Update(r, [req[r] EXCEPT !.panel = p, !.answer = a.confirmed])
  /\ Go(r, "recordAdd")
  /\ UNCHANGED <<store, lock, unconfirmed, bounds>>

RecordAdd(r) ==
  /\ pc[r] = "recordAdd"
  /\ RecordPanelWrite(WriteKey(r), req[r].panel, req[r].answer)
  /\ unconfirmed' = [unconfirmed EXCEPT ![WriteKey(r)] =
                       IF req[r].answer THEN @ \ {req[r].panel}
                                        ELSE @ \cup {req[r].panel}]
  /\ Update(r, [req[r] EXCEPT
                  !.todo = @ \ {req[r].panel}, !.panel = NoPanel,
                  !.wrote = IF req[r].answer THEN @ \cup {req[r].panel} ELSE @])
  /\ Go(r, "write")
  /\ UNCHANGED <<keyStatus, assignment, place, serial, ops, crm, lock, bounds>>

\* With the first success, assignment_policy "replace" moves the assignment
\* and "preserve" leaves it as it is.
Attach(r) ==
  IF req[r].wrote # {} /\ req[r].kind \in {"write", "reassign"}
    THEN SetKeyAssignment(req[r].key, req[r].where)
  ELSE IF req[r].wrote # {} /\ req[r].kind = "add" /\ place[req[r].key] = NoPlace
    THEN /\ place' = [place EXCEPT ![req[r].key] = req[r].where]
         /\ UNCHANGED <<keyStatus, assignment, serial>>
  ELSE UNCHANGED <<keyStatus, assignment, place, serial>>

WriterOutcome(r) ==
  CASE req[r].wrote = req[r].pending -> "SUCCESS"
    [] req[r].wrote = {} -> "ERROR"
    [] OTHER -> "PARTIAL"

ReturnFromWriter(r) ==
  /\ pc[r] = "write"
  /\ req[r].todo = {}
  /\ Attach(r)
  /\ lock' = Unlock(r)
  /\ IF req[r].kind \in {"write", "add"}
       THEN Reply(r, WriterOutcome(r))
       ELSE /\ Update(r, [req[r] EXCEPT !.todo = req[r].pending])
            /\ Go(r, "recordSteps")
  /\ UNCHANGED <<row, ops, crm, unconfirmed, bounds>>

-----------------------------------------------------------------------------
(* Results of the write phase.                                             *)

RecordWritten(r, p) ==
  /\ pc[r] = "recordSteps"
  /\ p \in req[r].todo
  /\ RecordWriteStep(req[r].op, p, p \in req[r].wrote)
  /\ Update(r, [req[r] EXCEPT !.todo = @ \ {p}])
  /\ UNCHANGED <<keyStatus, assignment, place, serial, row, crm, lock, pc,
                 unconfirmed, bounds>>

FinishReassign(r) ==
  /\ pc[r] = "recordSteps"
  /\ req[r].todo = {}
  /\ req[r].kind = "reassign"
  /\ IF req[r].target # {} /\ Unfinished(Op(r).write) = {}
       THEN SetOperationStatus(req[r].op, "completed") /\ Reply(r, "SUCCESS")
       ELSE IF Done(Op(r).write) # {}
       THEN SetOperationStatus(req[r].op, "partial") /\ Reply(r, "PARTIAL")
       ELSE SetOperationStatus(req[r].op, "error") /\ Reply(r, "ERROR")
  /\ UNCHANGED <<keyStatus, assignment, place, serial, row, crm, lock,
                 unconfirmed, bounds>>

\* Mutant of WriteIncomplete: one written panel is taken for all of them.
NothingWritten(r) == Unfinished(Op(r).write) # {} /\ Done(Op(r).write) = {}

WriteIncomplete(r) == Unfinished(Op(r).write) # {}

FinishReplace(r) ==
  /\ pc[r] = "recordSteps"
  /\ req[r].todo = {}
  /\ req[r].kind = "replace"
  /\ IF WriteIncomplete(r)
       THEN SetOperationStatus(req[r].op, "partial") /\ Reply(r, "PARTIAL")
       ELSE Go(r, "assignNew") /\ UNCHANGED <<ops, req>>
  /\ UNCHANGED <<keyStatus, assignment, place, serial, row, crm, lock,
                 unconfirmed, bounds>>

\* The new key inherits the assignment of the persisted snapshot ...
AssignNew(r) ==
  /\ pc[r] = "assignNew"
  /\ IF Op(r).signature # 0 /\ assignment[req[r].new] = 0
       THEN NewAssignment(req[r].new, Op(r).place)
       ELSE UNCHANGED <<keyStatus, assignment, place, serial>>
  /\ Go(r, "clone")
  /\ UNCHANGED <<row, ops, crm, lock, req, unconfirmed, bounds>>

\* ... and then its accesses.
CloneAccesses(r) ==
  /\ pc[r] = "clone"
  /\ place' = IF Op(r).place = NoPlace
                THEN place ELSE [place EXCEPT ![req[r].new] = Op(r).place]
  /\ Go(r, "complete")
  /\ UNCHANGED <<keyStatus, assignment, serial, row, ops, crm, lock, req,
                 unconfirmed, bounds>>

CompleteReplace(r) ==
  /\ pc[r] = "complete"
  /\ SetOperationStatus(req[r].op, "completed")
  /\ Reply(r, "SUCCESS")
  /\ UNCHANGED <<keyStatus, assignment, place, serial, row, crm, lock,
                 unconfirmed, bounds>>

-----------------------------------------------------------------------------
Answer(r) ==
  /\ pc[r] = "reply"
  /\ Go(r, "idle")
  /\ Update(r, NoRequest)
  /\ UNCHANGED <<store, crm, lock, unconfirmed, bounds>>

\* The worker is lost: its database sessions end, and with them the lock.
Crash(r) ==
  /\ pc[r] # "idle"
  /\ crashes < MaxCrashes
  /\ crashes' = crashes + 1
  /\ Go(r, "idle")
  /\ Update(r, NoRequest)
  /\ lock' = [k \in Keys |-> IF lock[k] = r THEN NoRequester ELSE lock[k]]
  /\ unconfirmed' = IF pc[r] = "recordAdd"
                      THEN [unconfirmed EXCEPT ![WriteKey(r)] =
                              @ \cup {req[r].panel}]
                      ELSE unconfirmed
  /\ UNCHANGED <<store, crm, jobs>>

Begin(r) ==
  \/ StartRelease(r) \/ StartReassign(r) \/ StartReplace(r)
  \/ StartWrite(r) \/ StartAdd(r)

Progress(r) ==
  \/ FindOperation(r) \/ ResumeOperation(r) \/ CreateOperation(r)
  \/ MarkPending(r) \/ BeginDelete(r)
  \/ \E p \in Panels : SendRemove(r, p)
  \/ RecordRow(r) \/ RecordStep(r) \/ FailDelete(r) \/ EndDelete(r)
  \/ Finalize(r) \/ FinalizeRefused(r) \/ SkipFinalize(r) \/ CloseRelease(r)
  \/ EnsureWrite(r)
  \/ \E p \in Panels : \/ SkipKnown(r, p) \/ RefuseWrite(r, p)
                       \/ SendAdd(r, p) \/ RecordWritten(r, p)
  \/ RecordAdd(r) \/ ReturnFromWriter(r)
  \/ FinishReassign(r) \/ FinishReplace(r)
  \/ AssignNew(r) \/ CloneAccesses(r) \/ CompleteReplace(r)
  \/ Answer(r)

Next ==
  \/ \E r \in Requests : Begin(r) \/ Progress(r) \/ AcquireLock(r) \/ Crash(r)
  \/ \E k \in Keys, where \in Places : AssignLocally(k, where)

Spec == Init /\ [][Next]_vars

\* A thread runs on (every CRM call ends within its deadline) and PostgreSQL
\* grants an advisory lock to its waiters in turn.
FairSpec ==
  /\ Spec
  /\ \A r \in Requests : WF_vars(Progress(r)) /\ SF_vars(AcquireLock(r))

-----------------------------------------------------------------------------
(* Properties.                                                             *)

RequestRecords ==
  [kind : {"none", "write", "add"} \cup OpTypes,
   key : Keys \cup {NoKey}, new : Keys \cup {NoKey}, final : KeyStatuses,
   where : Places \cup {NoPlace}, wanted : SUBSET Panels,
   target : SUBSET Panels, to : Places \cup {NoPlace}, seen : KeyStatuses,
   panels : SUBSET Panels, signature : Nat, place : Places \cup {NoPlace},
   op : Nat, resume : BOOLEAN,
   loaded : OpStatuses, todo : SUBSET Panels, pending : SUBSET Panels,
   panel : Panels \cup {NoPanel}, answer : BOOLEAN, known : SUBSET Panels,
   wrote : SUBSET Panels, outcome : Outcomes]

TypeOK ==
  /\ StoreTypeOK
  /\ crm \in [Keys -> SUBSET Panels]
  /\ lock \in [Keys -> Requests \cup {NoRequester}]
  /\ pc \in [Requests -> Labels]
  /\ req \in [Requests -> RequestRecords]
  /\ unconfirmed \in [Keys -> SUBSET Panels]
  /\ jobs \in Nat
  /\ crashes \in Nat

\* A create has been answered by the CRM and is not stored yet.
InFlight(k, p) == \E r \in Requests :
  pc[r] = "recordAdd" /\ WriteKey(r) = k /\ req[r].panel = p

\* Nothing the CRM lets a key open is forgotten: the local row still counts
\* as "on the panel", unless the success of the create itself never reached
\* the database (answer lost, worker lost).  The delete phase may stop or be
\* lost anywhere without breaking this: key_lifecycle.py:48-124, 158, 194.
Tracked == \A k \in Keys : \A p \in crm[k] :
  p \in Live(k) \/ p \in unconfirmed[k] \/ InFlight(k, p)

\* The local release happens only when the CRM has let go of the key, again
\* up to creates that were never confirmed: key_lifecycle.py:162-198 and the
\* check for remaining rows in finalize_release.
ReleasedStep(r) == pc[r] = "finalize" /\ pc'[r] \in {"close", "ensure"}
                   /\ ~ResumedWritePhase(r)
ReleasedMeansGone ==
  [][\A r \in Requests : ReleasedStep(r) =>
       crm[req[r].key] \subseteq unconfirmed[req[r].key]]_vars

\* A row comes (back) to life only for a key the CRM has on the panel: no late
\* answer of a delete and no resumed operation revives a removed row.
NoResurrection ==
  [][\A k \in Keys, p \in Panels :
       p \notin Live(k) /\ p \in Live(k)' => p \in crm[k]]_vars

\* A panel that was confirmed done is never worked on again, whatever restarts
\* and retries follow (get_operation_steps skips 'success').
DoneStaysDone ==
  [][\A i \in DOMAIN ops : /\ Done(ops[i].delete) \subseteq Done(ops'[i].delete)
                           /\ Done(ops[i].write) \subseteq Done(ops'[i].write)]_vars

\* reassign_key and replace_key reach the writer only when the CRM has let the
\* old access go: "Delete the old external access before writing a new
\* assignment", key_lifecycle.py:223.  What an earlier attempt of the same
\* reassignment has written already may of course be there.
WritesAfterDelete == \A r \in Requests :
  pc[r] = "lock" /\ req[r].kind \in {"reassign", "replace"} =>
    crm[req[r].key] \cap Op(r).source \subseteq
      unconfirmed[req[r].key] \cup
        (IF req[r].kind = "reassign" THEN Done(Op(r).write) ELSE {})

\* Every panel the operator chose becomes a step of the write phase, so a
\* reassignment cannot end with the key taken away and the new place untouched.
ReassignReachesWrite == \A r \in Requests :
  pc[r] \in {"lock", "recordSteps"} /\ req[r].kind = "reassign" =>
    \A p \in req[r].wanted : Op(r).write[p] # "absent"

Replaced(r) ==
  pc[r] = "reply" /\ req[r].kind = "replace" /\ req[r].outcome = "SUCCESS"

CarriedOver(r) == \A p \in Panels :
  row[req[r].key][p] = "removed" => p \in Live(req[r].new)

\* When a replacement reports success, the new key opens what the old one was
\* taken off, over all attempts: key_lifecycle.py:318-382.
ReplacementCarriesOver == \A r \in Requests : Replaced(r) => CarriedOver(r)

\* The same for a replacement that was only ever resumed: no attempt, with this
\* or another new key, has found the persisted job unfit and started over, and
\* neither key was released in between (key_lifecycle_repository.py:43).
OnlyResumed(r) == \A i \in DOMAIN ops :
  ops[i].old \in {req[r].key, req[r].new} => i = req[r].op

ResumedCarriesOver == \A r \in Requests :
  Replaced(r) /\ OnlyResumed(r) => CarriedOver(r)

\* A partial replacement whose route has answered can be started again.
PartialReplaceCanBeRetried == \A i \in DOMAIN ops :
  /\ ops[i].type = "replace" /\ ops[i].status = "partial"
  /\ \A r \in Requests : pc[r] = "idle"
  => MayReplace(ops[i].old, ops[i].new)

\* A row waits for its deletion only while an unfinished operation, or a
\* request at work, is going to delete it.
PendingDeleteIsOwned == \A k \in Keys, p \in Panels :
  row[k][p] = "pending_delete" =>
    \/ \E i \in DOMAIN ops : /\ ops[i].old = k /\ ops[i].status # "completed"
                             /\ p \in ops[i].source \ Done(ops[i].delete)
    \/ \E r \in Requests : pc[r] # "idle" /\ k \in Touches(r)

\* The advisory lock admits one writer per key ...
WriterExclusive == \A q, r \in Requests :
  /\ q # r
  /\ pc[q] \in {"write", "recordAdd"} /\ pc[r] \in {"write", "recordAdd"}
  => WriteKey(q) # WriteKey(r)

\* ... and the panels read under it are not written twice: "разные worker не
\* отправляют один и тот же запрос одновременно", docs/production-audit.md:14.
NoRedundantCreate ==
  [][\A r \in Requests : pc[r] = "write" /\ pc'[r] = "recordAdd" =>
       req'[r].panel \notin Live(WriteKey(r))]_vars

\* Whatever the CRM answers and whoever holds the lock, a request ends.
RequestsEnd == \A r \in Requests : pc[r] # "idle" ~> pc[r] = "idle"

=============================================================================
