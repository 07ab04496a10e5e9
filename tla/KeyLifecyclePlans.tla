------------------------- MODULE KeyLifecyclePlans -------------------------
(***************************************************************************)
(* What a request of KeyLifecycle plans to do agrees with the operation it *)
(* works on, with the books and with the CRM, as long as no two requests   *)
(* work on one key at a time: a confirmed step is never repeated, a new    *)
(* place is written only when the CRM has let go of the old one, no row    *)
(* comes back to life by itself, and a row waits for its deletion only if  *)
(* somebody is going to do it.  The invariant that shows it (Plans) is     *)
(* about operations that several attempts, crashes and users leave behind. *)
(***************************************************************************)
EXTENDS KeyLifecycleProofs

\* Where a request has an operation, and where it has deleted all it has to.
HasOp(r) ==
  \/ pc[r] \in DeleteLabels \cup ReplaceLabels
  \/ pc[r] \in WriterLabels /\ req[r].kind \in OpTypes
  \/ pc[r] = "persist" /\ req[r].op # 0

Deleted(r) ==
  \/ pc[r] \in {"finalize", "close", "ensure", "recordSteps"} \cup ReplaceLabels
  \/ pc[r] \in WriterLabels /\ req[r].kind \in OpTypes

\* The steps of an operation: panels are deleted only if they were read from
\* the books, and written only when all of them have been deleted.
OpFits(o) ==
  /\ \A p \in Panels : o.delete[p] # "absent" => p \in o.source
  /\ (\E p \in Panels : o.write[p] # "absent") => o.source \subseteq Done(o.delete)

\* The operation a request works on is one for its key.
Owns(r) == HasOp(r) => Op(r).old = req[r].key /\ Op(r).type = req[r].kind

\* What the request has read is what the books say, and it goes on with an
\* operation only if that fits.
ReadFits(r) ==
  /\ pc[r] \in {"find", "persist"} => req[r].panels = Live(req[r].key)
  /\ pc[r] = "persist" =>
       IF req[r].resume
         THEN CanResume(Op(r), req[r]) /\ req[r].loaded = Op(r).status
         ELSE req[r].loaded = "pending"

\* What is left to delete is on the books, and once there is nothing left the
\* request may go on.
DeleteFits(r) ==
  /\ pc[r] \in {"mark", "begin"} => DeleteTodo(r) \subseteq Live(req[r].key)
  /\ pc[r] \in {"delete", "recordRow", "recordStep"} =>
       /\ req[r].todo \subseteq DeleteTodo(r)
       /\ \A p \in Op(r).source : Op(r).delete[p] # "absent"
  /\ pc[r] \in {"delete", "recordRow"} => req[r].todo \subseteq Live(req[r].key)
  /\ pc[r] = "recordStep" => req[r].todo \ {req[r].panel} \subseteq Live(req[r].key)
  /\ pc[r] \in {"recordRow", "recordStep"} => req[r].panel \in req[r].todo
  /\ Deleted(r) => DeleteTodo(r) = {}

\* A reassignment that has been in its write phase before: the books name the
\* panels it has written, and no others.
ResumeFits(r) ==
  pc[r] \in {"mark", "begin", "delete", "recordRow", "recordStep", "finalize"}
    /\ ResumedWritePhase(r) => Live(req[r].key) = Done(Op(r).write)

\* What is left to write has not been written; an acknowledged create that is
\* not stored yet has put the key on the panel.
WriteFits(r) ==
  /\ pc[r] \in WriterLabels /\ req[r].kind \in OpTypes =>
       req[r].todo \subseteq req[r].pending
         /\ req[r].pending \cap Done(Op(r).write) = {}
  /\ pc[r] = "recordSteps" => req[r].todo \cap Done(Op(r).write) = {}
  /\ pc[r] = "recordAdd" /\ req[r].answer => req[r].panel \in crm[WriteKey(r)]

\* On the way from the delete phase to the writer the CRM has let go of the old
\* access.
LetGo(r) ==
  pc[r] \in {"close", "ensure", "lock"} /\ req[r].kind \in {"reassign", "replace"} =>
    crm[req[r].key] \subseteq
      unconfirmed[req[r].key] \cup
        (IF req[r].kind = "reassign" THEN Done(Op(r).write) ELSE {})

Plan(r) ==
  /\ Owns(r) /\ ReadFits(r) /\ DeleteFits(r)
  /\ ResumeFits(r) /\ WriteFits(r) /\ LetGo(r)

Plans == /\ \A i \in DOMAIN ops : OpFits(ops[i])
         /\ \A r \in Requests : Plan(r)

-----------------------------------------------------------------------------
(* Steps of operations.                                                    *)

\* ensure_operation_steps adds steps and confirms none.
LEMMA EnsuredSteps ==
  ASSUME NEW steps \in [Panels -> StepStates], NEW panels
  PROVE  /\ Done(EnsureSteps(steps, panels)) = Done(steps)
         /\ \A p \in Panels : p \in panels => EnsureSteps(steps, panels)[p] # "absent"
         /\ \A p \in Panels : EnsureSteps(steps, panels)[p] # "absent" =>
              steps[p] # "absent" \/ p \in panels
         /\ Unfinished(EnsureSteps(steps, panels)) \cap Done(steps) = {}
BY DEF EnsureSteps, Done, Unfinished

\* Once every step of the sources is confirmed there is nothing left to delete.
LEMMA NothingLeft ==
  ASSUME NEW o \in Operations, Unfinished(o.delete) = {},
         \A p \in o.source : o.delete[p] # "absent"
  PROVE  o.source \subseteq Done(o.delete)
BY DEF Operations, Unfinished, Done, StepStates

\* An operation whose steps stay as they were still fits.
LEMMA StillFits ==
  ASSUME NEW o, NEW u, OpFits(o), u.source = o.source, u.delete = o.delete,
         u.write = o.write
  PROVE  OpFits(u)
BY DEF OpFits

\* What holds of a request and its operation before each step.
LEMMA PlanFacts ==
  ASSUME TypeInv, Plans, NEW r \in Requests
  PROVE  /\ TypeOK /\ RequestOK(r) /\ Plan(r)
         /\ pc \in [Requests -> Labels]
         /\ req \in [Requests -> RequestRecords]
         /\ req[r] \in RequestRecords
         /\ ops \in Seq(Operations)
         /\ HasOp(r) => /\ req[r].op \in DOMAIN ops
                        /\ Op(r) \in Operations
                        /\ OpFits(Op(r))
<1>1. TypeOK /\ RequestOK(r) /\ req[r] \in RequestRecords
  BY RequestTyped DEF TypeInv
<1>2. HasOp(r) => req[r].op \in DOMAIN ops
  BY <1>1 DEF HasOp, RequestOK
<1> QED BY <1>1, <1>2, OperationTyped DEF Plans, TypeOK, StoreTypeOK, Op

\* Rewriting the operation of a request leaves the others fit.
LEMMA ChangeFits ==
  ASSUME TypeInv, Plans, NEW i \in DOMAIN ops, NEW o \in Operations,
         ChangeOperation(i, o), OpFits(o)
  PROVE  /\ \A j \in DOMAIN ops' : OpFits(ops'[j])
         /\ ops'[i] = o
<1>1. /\ DOMAIN ops' = DOMAIN ops /\ ops'[i] = o
      /\ \A j \in DOMAIN ops \ {i} : ops'[j] = ops[j]
  BY ChangeTyped DEF TypeInv
<1>2. ASSUME NEW j \in DOMAIN ops' PROVE OpFits(ops'[j])
  <2>1. CASE j = i
    BY <1>1, <2>1 DEF OpFits
  <2>2. CASE j # i
    <3>1. OpFits(ops[j]) /\ ops'[j] = ops[j]
      BY <1>1, <1>2, <2>2 DEF Plans
    <3> QED BY <3>1 DEF OpFits
  <2> QED BY <2>1, <2>2
<1> QED BY <1>1, <1>2

\* A new status changes nothing that is planned.
LEMMA StatusFits ==
  ASSUME TypeInv, Plans, NEW i \in DOMAIN ops, NEW status \in OpStatuses,
         SetOperationStatus(i, status)
  PROVE  /\ \A j \in DOMAIN ops' : OpFits(ops'[j])
         /\ ops'[i].old = ops[i].old /\ ops'[i].type = ops[i].type
         /\ ops'[i].source = ops[i].source /\ ops'[i].delete = ops[i].delete
         /\ ops'[i].write = ops[i].write /\ ops'[i].status = status
<1> DEFINE u == [ops[i] EXCEPT !.status = status]
<1>1. ops[i] \in Operations /\ OpFits(ops[i])
  BY OperationTyped DEF TypeInv, Plans
<1>2. /\ u \in Operations /\ u.status = status
      /\ u.old = ops[i].old /\ u.type = ops[i].type /\ u.source = ops[i].source
      /\ u.delete = ops[i].delete /\ u.write = ops[i].write
  BY <1>1 DEF Operations
<1>3. ChangeOperation(i, u)
  BY DEF SetOperationStatus
<1> HIDE DEF u
<1>4. OpFits(u)
  BY <1>1, <1>2, StillFits
<1>5. (\A j \in DOMAIN ops' : OpFits(ops'[j])) /\ ops'[i] = u
  BY <1>2, <1>3, <1>4, ChangeFits
<1> QED BY <1>2, <1>5

-----------------------------------------------------------------------------
(* The frame: a step of r leaves the plans of the others alone.            *)

\* A request that is over plans nothing.
LEMMA AtRest ==
  ASSUME NEW s \in Requests, pc'[s] \in {"idle", "reply"}
  PROVE  Plan(s)'
BY DEF Plan, Owns, HasOp, ReadFits, DeleteFits, Deleted, ResumeFits, WriteFits,
       LetGo, DeleteLabels, ReplaceLabels, WriterLabels

\* A plan depends on the request, its operation and its keys only.
LEMMA PlanKept ==
  ASSUME NEW s \in Requests, RequestOK(s), Plan(s), pc[s] # "idle",
         pc'[s] = pc[s], req'[s] = req[s], HasOp(s) => Op(s)' = Op(s),
         row'[req[s].key] = row[req[s].key], crm'[req[s].key] = crm[req[s].key],
         unconfirmed'[req[s].key] = unconfirmed[req[s].key],
         crm'[WriteKey(s)] = crm[WriteKey(s)]
  PROVE  Plan(s)'
<1>1. Owns(s)'
  BY DEF Plan, Owns, HasOp
<1>2. Live(req[s].key)' = Live(req[s].key)
  BY DEF Live
<1>3. ReadFits(s)'
  <2>1. ReadFits(s)
    BY DEF Plan
  <2>3. pc[s] \in {"find", "persist"} => req'[s].panels = Live(req[s].key)'
    BY <1>2, <2>1 DEF ReadFits
  <2>4. ASSUME pc[s] = "persist", req[s].resume
        PROVE  /\ CanResume(Op(s), req[s])'
               /\ (req[s].loaded)' = (Op(s).status)'
    <3>1. Op(s)' = Op(s)
      BY <2>4 DEF RequestOK, HasOp
    <3>2. CanResume(Op(s), req[s]) /\ req[s].loaded = Op(s).status
      BY <2>1, <2>4 DEF ReadFits
    <3> QED BY <3>1, <3>2 DEF CanResume, Done
  <2> QED BY <2>1, <2>3, <2>4 DEF ReadFits
<1>4. DeleteFits(s)'
  <2>1. /\ pc[s] \in {"mark", "begin", "delete", "recordRow", "recordStep"} => HasOp(s)
        /\ Deleted(s) => HasOp(s)
    BY DEF HasOp, Deleted, DeleteLabels
  <2>2. HasOp(s) => DeleteTodo(s)' = DeleteTodo(s)
    BY DEF DeleteTodo, Done
  <2>3. Deleted(s)' = Deleted(s)
    BY DEF Deleted
  <2> QED BY <1>2, <2>1, <2>2, <2>3 DEF Plan, DeleteFits, Live
<1>5. ResumeFits(s)'
  <2>1. pc[s] \in {"mark", "begin", "delete", "recordRow", "recordStep", "finalize"}
          => HasOp(s)
    BY DEF HasOp, DeleteLabels
  <2> QED BY <1>2, <2>1 DEF Plan, ResumeFits, ResumedWritePhase, Done, Live
<1>6. WriteFits(s)'
  <2>1. WriteFits(s)
    BY DEF Plan
  <2>2. pc[s] = "recordSteps" => HasOp(s)
    BY DEF HasOp, DeleteLabels
  <2>3. pc[s] \in WriterLabels /\ req[s].kind \in OpTypes => HasOp(s)
    BY DEF HasOp
  <2>4. WriteKey(s)' = WriteKey(s)
    BY DEF WriteKey
  <2>5. HasOp(s) => Done(Op(s).write)' = Done(Op(s).write)
    BY DEF Done
  <2> QED BY <2>1, <2>2, <2>3, <2>4, <2>5 DEF WriteFits
<1>7. LetGo(s)'
  <2>1. pc[s] \in {"close", "ensure", "lock"} /\ req[s].kind \in {"reassign", "replace"}
          => HasOp(s)
    BY DEF HasOp, DeleteLabels, WriterLabels, OpTypes
  <2> QED BY <2>1 DEF Plan, LetGo, Done
<1> QED BY <1>1, <1>3, <1>4, <1>5, <1>6, <1>7 DEF Plan

\* Whatever a request does it does to its own keys.
LEMMA ElsewhereKept ==
  ASSUME TypeInv, ~Overlap, NEW r \in Requests, Acts(r) PROVE SameElsewhere(r)
<1>1. CASE Quiet(r)
  BY <1>1 DEF Quiet, SameElsewhere
<1>2. CASE AcquireLock(r) \/ \E p \in Panels : SkipKnown(r, p)
  BY <1>2 DEF AcquireLock, SkipKnown, SameElsewhere, store
<1>3. ASSUME pc[r] # "idle"
      PROVE  /\ req[r].key \in Touches(r) /\ WriteKey(r) \in Touches(r)
             /\ crm \in [Keys -> SUBSET Panels]
             /\ unconfirmed \in [Keys -> SUBSET Panels]
             /\ row \in [Keys -> [Panels -> RowStates]]
  BY <1>3, OwnKeys DEF TypeInv, TypeOK, StoreTypeOK
<1>4. CASE MarkPending(r) \/ RecordRow(r)
  BY <1>3, <1>4 DEF MarkPending, RecordRow, MarkPanelsPendingDelete,
                    RecordPanelDelete, SameElsewhere
<1>5. CASE RecordAdd(r) \/ Crash(r)
  BY SMTT(60), <1>3, <1>5 DEF RecordAdd, RecordPanelWrite, Crash, SameElsewhere, store
<1>6. ASSUME NEW p \in Panels, SendRemove(r, p) \/ RefuseWrite(r, p) \/ SendAdd(r, p)
      PROVE  SameElsewhere(r)
  BY <1>3, <1>6 DEF SendRemove, RefuseWrite, SendAdd, RecordPanelWrite,
                    SameElsewhere, store
<1> QED BY <1>1, <1>2, <1>4, <1>5, <1>6, QuietActions

\* The insert of create_or_resume_operation, after it has closed the row that no
\* longer fits.
LEMMA Created ==
  ASSUME TypeInv, NEW r \in Requests, CreateOperation(r)
  PROVE  /\ Len(ops) + 1 \notin DOMAIN ops
         /\ DOMAIN ops' = DOMAIN ops \cup {Len(ops) + 1}
         /\ ops'[Len(ops) + 1] = NewOperation(req[r])
         /\ NewOperation(req[r]) \in Operations
         /\ \A i \in DOMAIN ops : ops'[i] =
              IF i = req[r].op THEN [ops[i] EXCEPT !.status = "completed"] ELSE ops[i]
<1> DEFINE kept == IF req[r].op = 0 THEN ops
                   ELSE [ops EXCEPT ![req[r].op].status = "completed"]
<1>1. /\ TypeOK /\ ops \in Seq(Operations)
      /\ req[r] \in RequestRecords /\ req[r].key \in Keys /\ req[r].kind \in OpTypes
      /\ req[r].op \in DOMAIN ops \cup {0}
  BY RequestTyped DEF TypeInv, TypeOK, StoreTypeOK, RequestOK, CreateOperation
<1>2. Len(ops) \in Nat /\ DOMAIN ops = 1 .. Len(ops)
  BY <1>1, LenProperties
<1>3. DOMAIN kept = DOMAIN ops
  OBVIOUS
<1>4. \A i \in DOMAIN ops : kept[i] =
        IF i = req[r].op THEN [ops[i] EXCEPT !.status = "completed"] ELSE ops[i]
  BY <1>1, <1>2
<1>5. kept \in Seq(Operations)
  <2>1. \A i \in DOMAIN ops : kept[i] \in Operations
    <3>1. ASSUME NEW i \in DOMAIN ops
          PROVE  ops[i] \in Operations
                 /\ [ops[i] EXCEPT !.status = "completed"] \in Operations
      BY ZenonT(60), <1>1, OperationTyped DEF Operations, OpStatuses
    <3> QED BY <1>4, <3>1
  <2> HIDE DEF kept
  <2>2. kept = [i \in 1 .. Len(ops) |-> kept[i]]
    <3>1. kept = [i \in DOMAIN ops |-> kept[i]]
      BY <1>1, <1>3 DEF kept
    <3> QED BY <1>2, <3>1
  <2>3. [i \in 1 .. Len(ops) |-> kept[i]] \in Seq(Operations)
    BY <1>2, <2>1
  <2> QED BY <2>2, <2>3
<1>6. ops' = Append(kept, NewOperation(req[r])) /\ NewOperation(req[r]) \in Operations
  BY <1>1, NewOperationTyped DEF CreateOperation
<1> HIDE DEF kept
<1>7. Len(kept) = Len(ops)
  BY <1>2, <1>3, <1>5, LenProperties
<1>8. /\ Len(ops') = Len(ops) + 1 /\ ops' \in Seq(Operations)
      /\ ops'[Len(ops) + 1] = NewOperation(req[r])
      /\ \A i \in DOMAIN ops : ops'[i] = kept[i]
  BY <1>2, <1>5, <1>6, <1>7, AppendProperties
<1>9. DOMAIN ops' = 1 .. Len(ops) + 1
  BY <1>2, <1>8, LenProperties
<1> QED BY <1>2, <1>4, <1>6, <1>8, <1>9

\* A step of r changes no operation but the one r works on.
LEMMA OpsFrame ==
  ASSUME TypeInv, NEW r \in Requests, Acts(r), NEW i \in DOMAIN ops,
         ~(HasOp(r) /\ req[r].op = i)
  PROVE  i \in DOMAIN ops' /\ ops'[i] = ops[i]
<1>1. CASE ops' = ops
  BY <1>1
<1>2. ASSUME NEW j \in DOMAIN ops \ {i}, NEW o, ChangeOperation(j, o)
      PROVE  i \in DOMAIN ops' /\ ops'[i] = ops[i]
  BY <1>2 DEF ChangeOperation, TypeInv, TypeOK, StoreTypeOK
<1>3. pc[r] \in DeleteLabels \cup ReplaceLabels => req[r].op \in DOMAIN ops \ {i}
  BY DEF TypeInv, RequestOK, HasOp
<1>4. CASE CreateOperation(r)
  BY SMTT(60), <1>4, Created DEF CreateOperation, TypeInv, RequestOK, HasOp
<1>5. CASE Begin(r) \/ AcquireLock(r) \/ Crash(r)
  BY ZenonT(60), <1>1, <1>5 DEF Begin, StartRelease, StartReassign, StartReplace,
                    StartWrite, StartAdd, Start, AcquireLock, Crash, store
<1>6. CASE \/ \E p \in Panels : \/ SendRemove(r, p) \/ SkipKnown(r, p)
                                \/ RefuseWrite(r, p) \/ SendAdd(r, p)
           \/ FindOperation(r) \/ ResumeOperation(r) \/ MarkPending(r)
           \/ RecordRow(r) \/ EndDelete(r) \/ Finalize(r)
           \/ FinalizeRefused(r) \/ SkipFinalize(r) \/ RecordAdd(r)
           \/ ReturnFromWriter(r) \/ AssignNew(r) \/ CloneAccesses(r) \/ Answer(r)
  BY <1>1, <1>6 DEF SendRemove, SkipKnown, RefuseWrite, SendAdd, FindOperation,
    ResumeOperation, MarkPending, RecordRow, EndDelete, Finalize,
    FinalizeRefused, SkipFinalize, RecordAdd, ReturnFromWriter, AssignNew,
    CloneAccesses, Answer, store
<1>7. CASE \/ BeginDelete(r) \/ RecordStep(r) \/ FailDelete(r) \/ CloseRelease(r)
           \/ EnsureWrite(r) \/ (\E p \in Panels : RecordWritten(r, p))
           \/ FinishReassign(r) \/ FinishReplace(r) \/ CompleteReplace(r)
  <2>1. pc[r] \in DeleteLabels \cup ReplaceLabels
    BY <1>7 DEF BeginDelete, RecordStep, FailDelete, CloseRelease, EnsureWrite,
      RecordWritten, FinishReassign, FinishReplace, CompleteReplace,
      DeleteLabels, ReplaceLabels
  <2>2. ops' = ops \/ \E o : ChangeOperation(req[r].op, o)
    BY <1>7 DEF BeginDelete, RecordStep, FailDelete, CloseRelease, EnsureWrite,
      RecordWritten, FinishReassign, FinishReplace, CompleteReplace,
      RecordDeleteStep, RecordWriteStep, SetOperationStatus
  <2> QED BY <1>1, <1>2, <1>3, <2>1, <2>2
<1> QED BY <1>4, <1>5, <1>6, <1>7 DEF Acts, Progress

\* A step of r leaves what another request works on alone: they have different
\* keys, and so different operations.
LEMMA OthersFrame ==
  ASSUME TypeInv, ~Overlap, Disjoint, Plans, NEW r \in Requests, Acts(r),
         NEW s \in Requests \ {r}, pc[s] # "idle"
  PROVE  /\ pc'[s] = pc[s] /\ req'[s] = req[s]
         /\ HasOp(s) => Op(s)' = Op(s)
         /\ row'[req[s].key] = row[req[s].key]
         /\ crm'[req[s].key] = crm[req[s].key]
         /\ unconfirmed'[req[s].key] = unconfirmed[req[s].key]
         /\ crm'[WriteKey(s)] = crm[WriteKey(s)]
<1>1. pc'[s] = pc[s] /\ req'[s] = req[s]
  BY ActsMove DEF OnlyMoves
<1>2. RequestOK(s) /\ Plan(s) /\ Plan(r)
  BY PlanFacts
<1>3. CASE Begin(r)
  <2>1. UNCHANGED <<row, crm, unconfirmed, ops>>
    BY ZenonT(60), <1>3, Began DEF Begin, StartRelease, StartReassign, StartReplace,
                       StartWrite, StartAdd, Start, store
  <2> QED BY <1>1, <2>1 DEF Op
<1>4. CASE ~Begin(r)
  <2>1. pc[r] # "idle"
    BY <1>4 DEF Acts, Progress, AcquireLock, Crash, SendRemove,
      SkipKnown, RefuseWrite, SendAdd, RecordWritten, FindOperation,
      ResumeOperation, CreateOperation, MarkPending, BeginDelete, RecordRow,
      RecordStep, FailDelete, EndDelete, Finalize, FinalizeRefused,
      SkipFinalize, CloseRelease, EnsureWrite, RecordAdd, ReturnFromWriter,
      FinishReassign, FinishReplace, AssignNew, CloneAccesses,
      CompleteReplace, Answer
  <2>2. req[s].key \in Keys \ Touches(r) /\ WriteKey(s) \in Keys \ Touches(r)
    BY <2>1, OwnKeys DEF Disjoint
  <2>3. HasOp(s) => Op(s)' = Op(s)
    <3> SUFFICES ASSUME HasOp(s) PROVE Op(s)' = Op(s)
      OBVIOUS
    <3>1. req[s].op \in DOMAIN ops
      BY PlanFacts
    <3>2. ~(HasOp(r) /\ req[r].op = req[s].op)
      BY <1>2, <2>1, <2>2, OwnKeys DEF Plan, Owns, Op
    <3> QED BY <1>1, <3>1, <3>2, OpsFrame DEF Op
  <2> QED BY <1>1, <2>2, <2>3, ElsewhereKept DEF SameElsewhere
<1> QED BY <1>3, <1>4

\* So it leaves the plans of the others alone.
LEMMA PlanFrame ==
  ASSUME TypeInv, ~Overlap, Disjoint, Plans, NEW r \in Requests, Acts(r),
         NEW s \in Requests \ {r}
  PROVE  Plan(s)'
<1>1. CASE pc[s] = "idle"
  <2>1. pc'[s] = "idle"
    BY <1>1, ActsMove DEF OnlyMoves
  <2> QED BY <2>1, AtRest
<1>2. CASE pc[s] # "idle"
  <2>1. RequestOK(s) /\ Plan(s)
    BY PlanFacts
  <2> QED BY <1>2, <2>1, OthersFrame, PlanKept
<1> QED BY <1>1, <1>2

-----------------------------------------------------------------------------
(* One lemma per action: what a step of r leaves planned.                  *)

Planned(r) == (\A j \in DOMAIN ops' : OpFits(ops'[j])) /\ Plan(r)'

\* What a request has read when it begins.
LEMMA BeganWith ==
  ASSUME TypeInv, NEW r \in Requests, Begin(r)
  PROVE  /\ \/ /\ pc'[r] = "find" /\ req'[r].kind \in OpTypes
               /\ req'[r].panels = Live(req'[r].key)
            \/ /\ pc'[r] = "lock" /\ req'[r].kind \in {"write", "add"}
               /\ req'[r].known \subseteq Live(req'[r].key)
         /\ req'[r].kind \in Kinds /\ req'[r].wrote = {}
         /\ pc'[r] = "find" => req'[r].known = {}
         /\ req'[r].kind = "replace" => req'[r].key # req'[r].new
         /\ UNCHANGED <<store, crm, lock, unconfirmed>>
<1>0. TypeOK /\ pc \in [Requests -> Labels]
  BY DEF TypeInv, TypeOK
<1>1. PICK ks, label, request :
        /\ Start(r, ks, label, request)
        /\ \/ /\ label = "find" /\ request.kind \in OpTypes
              /\ request.panels = Live(request.key)
           \/ /\ label = "lock" /\ request.kind \in {"write", "add"}
              /\ request.known \subseteq Live(request.key)
        /\ request.wrote = {} /\ (label = "find" => request.known = {})
        /\ request.kind = "replace" => request.key # request.new
  <2>1. ASSUME NEW kind \in {"write", "add"} \cup OpTypes, NEW k \in Keys
        PROVE  /\ Snapshot(kind, k) \in RequestRecords
               /\ Snapshot(kind, k).key = k /\ Snapshot(kind, k).kind = kind
               /\ Snapshot(kind, k).panels = Live(k)
               /\ Snapshot(kind, k).known = {} /\ Snapshot(kind, k).wrote = {}
    BY ZenonT(60), <1>0, SnapshotTyped DEF Snapshot, NoRequest
  <2>2. CASE StartRelease(r)
    <3>1. PICK k \in Keys, final \in {"free", "retired"} :
            Start(r, {k}, "find", [Snapshot("release", k) EXCEPT !.final = final])
      BY <2>2 DEF StartRelease
    <3> DEFINE q == [Snapshot("release", k) EXCEPT !.final = final]
    <3>2. /\ q.key = k /\ q.kind = "release" /\ q.panels = Live(k)
          /\ q.wrote = {} /\ q.known = {}
      BY <2>1 DEF RequestRecords, OpTypes
    <3> HIDE DEF q
    <3>3. Start(r, {k}, "find", q)
      BY <3>1 DEF q
    <3> QED BY <3>2, <3>3 DEF OpTypes
  <2>3. CASE StartReassign(r)
    <3>1. PICK k \in Keys, where \in Places, wanted \in (SUBSET Panels) \ {{}} :
            \E request \in
              {[Snapshot("reassign", k) EXCEPT !.where = where, !.wanted = wanted],
               [[Snapshot("reassign", k) EXCEPT !.where = where, !.wanted = wanted]
                 EXCEPT !.target = wanted, !.to = where]} :
            Start(r, {k}, "find", request)
      BY <2>3 DEF StartReassign
    <3> DEFINE short == [Snapshot("reassign", k) EXCEPT !.where = where,
                                                        !.wanted = wanted]
               long == [short EXCEPT !.target = wanted, !.to = where]
    <3>2. /\ short \in RequestRecords
          /\ short.key = k /\ short.kind = "reassign" /\ short.panels = Live(k)
          /\ short.wrote = {} /\ short.known = {}
      <4>1. LET snapshot == Snapshot("reassign", k)
            IN  /\ snapshot \in RequestRecords /\ snapshot.key = k
                /\ snapshot.kind = "reassign" /\ snapshot.panels = Live(k)
                /\ snapshot.wrote = {} /\ snapshot.known = {}
        BY <2>1 DEF OpTypes
      <4> QED BY <4>1 DEF RequestRecords
    <3>3. PICK request \in {short, long} : Start(r, {k}, "find", request)
      BY <3>1
    <3> HIDE DEF short
    <3>4. /\ request.key = k /\ request.kind = "reassign" /\ request.panels = Live(k)
          /\ request.wrote = {} /\ request.known = {}
      <4>1. long.key = short.key /\ long.kind = short.kind
            /\ long.panels = short.panels
            /\ long.wrote = short.wrote /\ long.known = short.known
        BY <3>2 DEF RequestRecords
      <4> QED BY <3>2, <3>3, <4>1
    <3> QED BY <3>3, <3>4 DEF OpTypes
  <2>4. CASE StartReplace(r)
    <3>1. PICK old, new \in Keys :
            old # new /\ Start(r, {old, new}, "find",
              [Snapshot("replace", old) EXCEPT
                 !.new = new, !.final = "retired", !.seen = keyStatus[new]])
      BY <2>4 DEF StartReplace, MayReplace
    <3> DEFINE q == [Snapshot("replace", old) EXCEPT
                       !.new = new, !.final = "retired", !.seen = keyStatus[new]]
    <3>2. /\ q.key = old /\ q.kind = "replace" /\ q.panels = Live(old)
          /\ q.wrote = {} /\ q.known = {} /\ q.new = new
      BY <2>1 DEF RequestRecords, OpTypes
    <3> HIDE DEF q
    <3>3. Start(r, {old, new}, "find", q)
      BY <3>1 DEF q
    <3> QED BY <3>1, <3>2, <3>3 DEF OpTypes
  <2>5. CASE StartWrite(r)
    <3>1. PICK k \in Keys, where \in Places, panels \in (SUBSET Panels) \ {{}} :
            Start(r, {k}, "lock",
              [Snapshot("write", k) EXCEPT
                 !.where = where, !.todo = panels, !.pending = panels])
      BY <2>5 DEF StartWrite
    <3> DEFINE q == [Snapshot("write", k) EXCEPT
                       !.where = where, !.todo = panels, !.pending = panels]
    <3>2. q.key = k /\ q.kind = "write" /\ q.known = {} /\ q.wrote = {}
      BY <2>1 DEF RequestRecords, OpTypes
    <3> HIDE DEF q
    <3>3. Start(r, {k}, "lock", q)
      BY <3>1 DEF q
    <3> QED BY <3>2, <3>3
  <2>6. CASE StartAdd(r)
    <3>1. PICK k \in Keys, where \in Places, panels \in (SUBSET Panels) \ {{}},
               known \in SUBSET Panels :
            /\ known \subseteq Live(k)
            /\ Start(r, {k}, "lock",
                 [Snapshot("add", k) EXCEPT !.where = where,
                    !.todo = panels, !.pending = panels, !.known = known])
      BY <2>6 DEF StartAdd, Live
    <3> DEFINE q == [Snapshot("add", k) EXCEPT !.where = where,
                       !.todo = panels, !.pending = panels, !.known = known]
    <3>2. q.key = k /\ q.kind = "add" /\ q.known = known /\ q.wrote = {}
      BY <2>1 DEF RequestRecords, OpTypes
    <3> HIDE DEF q
    <3>3. Start(r, {k}, "lock", q)
      BY <3>1 DEF q
    <3> QED BY <3>1, <3>2, <3>3
  <2> QED BY <2>2, <2>3, <2>4, <2>5, <2>6 DEF Begin
<1>2. req'[r] = request /\ pc'[r] = label
  BY <1>0, <1>1 DEF Start, Go, Update, TypeOK
<1> QED BY <1>1, <1>2 DEF Start

\* A request that begins has read the books.
LEMMA BeginPlans ==
  ASSUME TypeInv, Plans, NEW r \in Requests, Begin(r) PROVE Planned(r)
<1>1. /\ pc'[r] = "find" => req'[r].panels = Live(req[r].key)'
      /\ pc'[r] = "find" \/ (pc'[r] = "lock" /\ req'[r].kind \in {"write", "add"})
      /\ ops' = ops
  BY BeganWith DEF store, Live
<1> QED BY <1>1 DEF Planned, Plans, Plan, Owns, HasOp, ReadFits, DeleteFits,
  Deleted, ResumeFits, WriteFits, LetGo, DeleteLabels, ReplaceLabels,
  WriterLabels, OpTypes

\* What the search of create_or_resume_operation finds.
LEMMA LatestFits ==
  ASSUME TypeInv, NEW type, NEW old, NEW new,
         NEW i, i = LatestOperation(type, old, new), i # 0
  PROVE  /\ i \in DOMAIN ops /\ ops[i].type = type /\ ops[i].old = old
         /\ ops[i].new = new /\ ops[i].status # "completed"
<1> DEFINE open == {j \in DOMAIN ops : /\ ops[j].type = type
                                       /\ ops[j].old = old
                                       /\ ops[j].new = new
                                       /\ ops[j].status # "completed"}
<1>1. ops \in Seq(Operations) /\ DOMAIN ops = 1 .. Len(ops) /\ Len(ops) \in Nat
  BY LenProperties DEF TypeInv, TypeOK, StoreTypeOK
<1>2. open # {}
  BY DEF LatestOperation
<1>3. \E j \in open : \A m \in open : m <= j
  BY <1>1, <1>2, LatestExists
<1>4. i = CHOOSE j \in open : \A m \in open : m <= j
  BY <1>2 DEF LatestOperation
<1>5. i \in open
  <2> HIDE DEF open
  <2> QED BY <1>3, <1>4
<1> QED BY <1>5

\* create_or_resume_operation takes an operation of the request's own work and
\* key, and notes what it has found.
LEMMA FindPlans ==
  ASSUME TypeInv, Plans, NEW r \in Requests, FindOperation(r) PROVE Planned(r)
<1> DEFINE i == LatestOperation(req[r].kind, req[r].key, req[r].new)
           resume == i # 0 /\ CanResume(ops[i], req[r])
           loaded == IF resume THEN ops[i].status ELSE "pending"
           q == [req[r] EXCEPT !.op = i, !.resume = resume, !.loaded = loaded]
<1>1. Update(r, q) /\ pc[r] = "find" /\ pc'[r] = "persist"
      /\ UNCHANGED <<ops, row>>
  BY PlanFacts DEF FindOperation, Go, store
<1>2. i # 0 => ops[i].type = req[r].kind /\ ops[i].old = req[r].key
  BY LatestFits
<1>3. resume \in BOOLEAN
  OBVIOUS
<1> HIDE DEF i, resume, loaded
<1>4. /\ req'[r].op = i /\ req'[r].resume = resume /\ req'[r].loaded = loaded
      /\ req'[r].key = req[r].key /\ req'[r].kind = req[r].kind
      /\ req'[r].panels = req[r].panels /\ req'[r].signature = req[r].signature
      /\ req'[r].target = req[r].target /\ req'[r].to = req[r].to
  <2>1. req'[r] = q
    BY <1>1, PlanFacts DEF Update
  <2>2. req[r] \in RequestRecords
    BY PlanFacts
  <2> QED BY <2>1, <2>2, SMTT(60) DEF RequestRecords
<1>5. Owns(r)'
  BY <1>1, <1>2, <1>4 DEF Owns, HasOp, Op, DeleteLabels, ReplaceLabels, WriterLabels
<1>6. ReadFits(r)'
  <2>1. req[r].panels = Live(req[r].key)
    BY <1>1, PlanFacts DEF Plan, ReadFits
  <2>2. req'[r].panels = Live(req[r].key)'
    BY <1>1, <1>4, <2>1 DEF Live
  <2>3. Op(r)' = ops[i]
    BY <1>1, <1>4 DEF Op
  <2>4. resume => CanResume(Op(r), req[r])'
    <3>1. resume => CanResume(ops[i], req[r])
      BY DEF resume
    <3> QED BY <1>4, <2>3, <3>1 DEF CanResume
  <2>5. IF resume THEN loaded = ops[i].status ELSE loaded = "pending"
    BY <1>3 DEF loaded
  <2> QED BY <1>1, <1>3, <1>4, <2>2, <2>3, <2>4, <2>5 DEF ReadFits
<1>7. (DeleteFits(r) /\ ResumeFits(r) /\ WriteFits(r) /\ LetGo(r))'
  BY <1>1 DEF DeleteFits, Deleted, ResumeFits, WriteFits, LetGo, ReplaceLabels,
              WriterLabels
<1> QED BY <1>1, <1>5, <1>6, <1>7 DEF Planned, Plan, Plans

\* A resumed operation still describes the key: what it has not deleted is on
\* the books, and what it has written when nothing is left to delete.
LEMMA ResumePlans ==
  ASSUME TypeInv, Plans, NEW r \in Requests, ResumeOperation(r) PROVE Planned(r)
<1> DEFINE o == Op(r)
<1>1. /\ pc[r] = "persist" /\ pc'[r] = "mark" /\ req[r].resume
      /\ UNCHANGED <<ops, row, req>>
  BY PlanFacts DEF ResumeOperation, Go, store
<1>2. /\ HasOp(r) /\ o \in Operations /\ OpFits(o)
      /\ o.old = req[r].key /\ o.type = req[r].kind
  BY <1>1, PlanFacts DEF HasOp, RequestOK, Plan, Owns
<1>3. /\ CanResume(o, req[r]) /\ req[r].loaded = o.status
      /\ req[r].panels = Live(req[r].key)
  BY <1>1, PlanFacts DEF Plan, ReadFits
<1>4. DeleteTodo(r) \subseteq Live(req[r].key)
  BY <1>3 DEF CanResume, DeleteTodo
<1>5. ResumedWritePhase(r) => Live(req[r].key) = Done(o.write)
  <2> SUFFICES ASSUME ResumedWritePhase(r) PROVE Live(req[r].key) = Done(o.write)
    OBVIOUS
  <2>1. \E p \in Panels : o.write[p] # "absent"
    BY <1>2 DEF ResumedWritePhase, NoSteps, Operations
  <2>2. o.source = Done(o.delete)
    BY <1>2, <2>1 DEF OpFits, Done
  <2> QED BY <1>2, <1>3, <2>2 DEF ResumedWritePhase, CanResume
<1>6. Op(r)' = Op(r) /\ Live(req[r].key)' = Live(req[r].key)
  BY <1>1 DEF Op, Live
<1>7. Owns(r)'
  BY <1>1, <1>2, <1>6 DEF Owns
<1>8. DeleteFits(r)' /\ ResumeFits(r)'
  BY <1>1, <1>4, <1>5, <1>6
  DEF DeleteFits, Deleted, DeleteTodo, ResumeFits, ResumedWritePhase, Done,
      ReplaceLabels, WriterLabels
<1>9. (ReadFits(r) /\ WriteFits(r) /\ LetGo(r))'
  BY <1>1 DEF ReadFits, WriteFits, LetGo, WriterLabels
<1> QED BY <1>1, <1>7, <1>8, <1>9 DEF Planned, Plan, Plans

\* A new operation is about all the panels the books name.
LEMMA CreatePlans ==
  ASSUME TypeInv, Plans, NEW r \in Requests, CreateOperation(r) PROVE Planned(r)
<1> DEFINE n == Len(ops) + 1
           q == [req[r] EXCEPT !.op = n]
<1>1. /\ pc[r] = "persist" /\ pc'[r] = "mark" /\ ~req[r].resume
      /\ row' = row /\ Update(r, q)
  BY PlanFacts DEF CreateOperation, Go
<1>2. /\ req'[r].op = n /\ req'[r].key = req[r].key /\ req'[r].kind = req[r].kind
      /\ req'[r].loaded = req[r].loaded
  <2> HIDE DEF n
  <2>1. req'[r] = q /\ req[r] \in RequestRecords
    BY <1>1, PlanFacts DEF Update
  <2> QED BY <2>1, SMTT(60) DEF RequestRecords
<1>3. req[r].panels = Live(req[r].key) /\ req[r].loaded = "pending"
  BY <1>1, PlanFacts DEF Plan, ReadFits
<1>4. Op(r)' = NewOperation(req[r])
  BY <1>2, Created DEF Op
<1>5. Owns(r)'
  BY <1>2, <1>4 DEF Owns, NewOperation
<1>6. (DeleteFits(r) /\ ResumeFits(r))'
  <2>1. (DeleteTodo(r))' = Live(req[r].key)'
    BY <1>1, <1>2, <1>3, <1>4 DEF DeleteTodo, NewOperation, NoSteps, Done, Live
  <2>2. ~ResumedWritePhase(r)'
    BY <1>2, <1>3 DEF ResumedWritePhase
  <2> QED BY <1>1, <2>1, <2>2
      DEF DeleteFits, Deleted, ResumeFits, ReplaceLabels, WriterLabels
<1>7. (ReadFits(r) /\ WriteFits(r) /\ LetGo(r))'
  BY <1>1 DEF ReadFits, WriteFits, LetGo, WriterLabels
<1>8. ASSUME NEW j \in DOMAIN ops' PROVE OpFits(ops'[j])
  <2>1. CASE j = n
    <3>1. OpFits(NewOperation(req[r]))
      BY DEF OpFits, NewOperation, NoSteps
    <3> QED BY <2>1, <3>1, Created
  <2>2. CASE j # n
    <3>1. j \in DOMAIN ops /\ OpFits(ops[j]) /\ ops[j] \in Operations
      BY <1>8, <2>2, Created, OperationTyped DEF TypeInv, Plans
    <3>2. /\ ops'[j].source = ops[j].source /\ ops'[j].delete = ops[j].delete
          /\ ops'[j].write = ops[j].write
      <4>1. ops'[j] = IF j = req[r].op THEN [ops[j] EXCEPT !.status = "completed"]
                                       ELSE ops[j]
        BY <3>1, Created
      <4> QED BY <3>1, <4>1 DEF Operations
    <3> QED BY <3>1, <3>2, StillFits
  <2> QED BY <2>1, <2>2
<1> QED BY <1>5, <1>6, <1>7, <1>8 DEF Planned, Plan

\* mark_panels_pending_delete leaves the same panels on the books.
LEMMA MarkPlans ==
  ASSUME TypeInv, Plans, NEW r \in Requests, MarkPending(r) PROVE Planned(r)
<1>1. /\ pc[r] = "mark" /\ pc'[r] = "begin" /\ UNCHANGED <<ops, req>>
  BY PlanFacts DEF MarkPending, Go
<1>2. Live(req[r].key)' = Live(req[r].key)
  <2>1. req[r].key \in Keys /\ row \in [Keys -> [Panels -> RowStates]]
    BY <1>1, OwnKeys DEF TypeInv, TypeOK, StoreTypeOK
  <2> QED BY <1>1, <2>1
      DEF MarkPending, MarkPanelsPendingDelete, Live, LiveStates
<1>3. Op(r)' = Op(r)
  BY <1>1 DEF Op
<1>4. HasOp(r)
  BY <1>1 DEF HasOp, DeleteLabels
<1>5. Owns(r)'
  BY <1>1, <1>3, <1>4, PlanFacts DEF Plan, Owns
<1>6. (DeleteFits(r) /\ ResumeFits(r))'
  BY <1>1, <1>2, <1>3, PlanFacts DEF Plan, DeleteFits, Deleted, DeleteTodo,
     ResumeFits, ResumedWritePhase, Done, Live, ReplaceLabels, WriterLabels
<1>7. (ReadFits(r) /\ WriteFits(r) /\ LetGo(r))'
  BY <1>1 DEF ReadFits, WriteFits, LetGo, WriterLabels
<1> QED BY <1>1, <1>5, <1>6, <1>7 DEF Planned, Plan, Plans

\* The delete phase begins with the steps that have not been confirmed.
LEMMA BeginDeletePlans ==
  ASSUME TypeInv, Plans, NEW r \in Requests, BeginDelete(r) PROVE Planned(r)
<1> DEFINE o == Op(r)
           delete == EnsureSteps(o.delete, o.source)
           u == [o EXCEPT !.status = "deleting", !.delete = delete]
           todo == DeleteTodo(r)
           q == [req[r] EXCEPT !.todo = todo]
<1>1. /\ pc[r] = "begin" /\ pc'[r] = "delete" /\ row' = row
      /\ ChangeOperation(req[r].op, u) /\ Update(r, q)
  BY PlanFacts DEF BeginDelete, Go
<1>2. /\ o \in Operations /\ OpFits(o) /\ req[r].op \in DOMAIN ops
      /\ o.old = req[r].key /\ o.type = req[r].kind
  BY <1>1, PlanFacts DEF HasOp, DeleteLabels, Plan, Owns
<1>3. delete \in [Panels -> StepStates] /\ Done(delete) = Done(o.delete)
      /\ (\A p \in Panels : p \in o.source => delete[p] # "absent")
      /\ (\A p \in Panels : delete[p] # "absent" =>
            o.delete[p] # "absent" \/ p \in o.source)
  BY <1>2, EnsuredSteps, StepsTyped DEF Operations
<1> HIDE DEF delete
<1>4. /\ u \in Operations /\ u.delete = delete /\ u.source = o.source
      /\ u.write = o.write /\ u.old = o.old /\ u.type = o.type
  BY <1>2, <1>3 DEF Operations, OpStatuses
<1> HIDE DEF u
<1>5. OpFits(u)
  BY <1>2, <1>3, <1>4 DEF OpFits
<1>6. (\A j \in DOMAIN ops' : OpFits(ops'[j])) /\ ops'[req[r].op] = u
  BY <1>1, <1>2, <1>4, <1>5, ChangeFits
<1> HIDE DEF todo
<1>7. /\ req'[r].todo = todo /\ req'[r].key = req[r].key
      /\ req'[r].kind = req[r].kind /\ req'[r].op = req[r].op
      /\ req'[r].loaded = req[r].loaded
  <2>1. req'[r] = q /\ req[r] \in RequestRecords
    BY <1>1, PlanFacts DEF Update
  <2> QED BY <2>1, SMTT(60) DEF RequestRecords
<1>8. Op(r)' = u
  BY <1>6, <1>7 DEF Op
<1>9. Owns(r)'
  BY <1>2, <1>4, <1>7, <1>8 DEF Owns
<1>10. DeleteFits(r)'
  <2>1. DeleteTodo(r)' = todo
    BY <1>3, <1>4, <1>8 DEF DeleteTodo, Done, todo
  <2>2. todo \subseteq Live(req[r].key)
    BY <1>1, PlanFacts DEF Plan, DeleteFits, todo
  <2>3. \A p \in u.source : u.delete[p] # "absent"
    BY <1>2, <1>3, <1>4 DEF Operations
  <2> QED BY <1>1, <1>7, <1>8, <2>1, <2>2, <2>3
      DEF DeleteFits, Deleted, Live, ReplaceLabels, WriterLabels
<1>11. ResumeFits(r)'
  BY ZenonT(60), <1>1, <1>4, <1>7, <1>8, PlanFacts
  DEF Plan, ResumeFits, ResumedWritePhase, Done, Live
<1>12. (ReadFits(r) /\ WriteFits(r) /\ LetGo(r))'
  BY <1>1 DEF ReadFits, WriteFits, LetGo, WriterLabels
<1> QED BY <1>6, <1>9, <1>10, <1>11, <1>12 DEF Planned, Plan

\* A delete call is about a panel that is left to delete.
LEMMA SendRemovePlans ==
  ASSUME TypeInv, Plans, NEW r \in Requests, NEW p \in Panels, SendRemove(r, p)
  PROVE  Planned(r)
<1>1. /\ pc[r] = "delete" /\ pc'[r] = "recordRow" /\ UNCHANGED <<ops, row>>
      /\ p \in req[r].todo
      /\ \E x : Update(r, [req[r] EXCEPT !.panel = p, !.answer = x])
  BY PlanFacts DEF SendRemove, Go, store
<1>2. /\ req'[r].panel = p /\ req'[r].key = req[r].key /\ req'[r].kind = req[r].kind
      /\ req'[r].op = req[r].op /\ req'[r].loaded = req[r].loaded
      /\ req'[r].todo = req[r].todo
  <2>1. PICK x : Update(r, [req[r] EXCEPT !.panel = p, !.answer = x])
    BY <1>1
  <2>2. req'[r] = [req[r] EXCEPT !.panel = p, !.answer = x] /\ req[r] \in RequestRecords
    BY <2>1, PlanFacts DEF Update
  <2> QED BY <2>2, SMTT(60) DEF RequestRecords
<1>3. Op(r)' = Op(r)
  BY <1>1, <1>2 DEF Op
<1>4. Owns(r)'
  BY <1>1, <1>2, <1>3, PlanFacts DEF Plan, Owns, HasOp, DeleteLabels
<1>5. (DeleteFits(r) /\ ResumeFits(r))'
  BY <1>1, <1>2, <1>3, PlanFacts DEF Plan, DeleteFits, Deleted, DeleteTodo,
     ResumeFits, ResumedWritePhase, Done, Live, ReplaceLabels, WriterLabels
<1>6. (ReadFits(r) /\ WriteFits(r) /\ LetGo(r))'
  BY <1>1 DEF ReadFits, WriteFits, LetGo, WriterLabels
<1> QED BY <1>1, <1>4, <1>5, <1>6 DEF Planned, Plan, Plans

\* As long as something is left to delete the operation has written nothing.
LEMMA NothingWrittenYet ==
  ASSUME TypeInv, Plans, NEW r \in Requests, pc[r] \in {"recordRow", "recordStep"}
  PROVE  /\ req[r].panel \in DeleteTodo(r) /\ req[r].panel \in Panels
         /\ \A p \in Panels : Op(r).write[p] = "absent"
         /\ ~ResumedWritePhase(r)
<1>1. /\ req[r].panel \in DeleteTodo(r) /\ req[r].panel \in Panels
      /\ Op(r) \in Operations /\ OpFits(Op(r))
  BY PlanFacts DEF HasOp, DeleteLabels, Plan, DeleteFits, RequestOK, CallLabels
<1>2. \A p \in Panels : Op(r).write[p] = "absent"
  BY <1>1 DEF OpFits, DeleteTodo
<1>3. Op(r).write = NoSteps
  BY <1>1, <1>2 DEF NoSteps, Operations
<1> QED BY <1>1, <1>2, <1>3 DEF ResumedWritePhase

\* record_panel_result drops no row but the one the call was about.
LEMMA RecordRowPlans ==
  ASSUME TypeInv, Plans, NEW r \in Requests, RecordRow(r) PROVE Planned(r)
<1>1. /\ pc[r] = "recordRow" /\ pc'[r] = "recordStep" /\ UNCHANGED <<ops, req>>
  BY PlanFacts DEF RecordRow, Go
<1>2. Live(req[r].key) \ {req[r].panel} \subseteq Live(req[r].key)'
  <2>1. req[r].key \in Keys /\ row \in [Keys -> [Panels -> RowStates]]
    BY <1>1, OwnKeys DEF TypeInv, TypeOK, StoreTypeOK
  <2> QED BY <1>1, <2>1 DEF RecordRow, RecordPanelDelete, Live
<1>3. Op(r)' = Op(r)
  BY <1>1 DEF Op
<1>4. Owns(r)'
  BY <1>1, <1>3, PlanFacts DEF Plan, Owns, HasOp, DeleteLabels
<1>5. DeleteFits(r)'
  BY <1>1, <1>2, <1>3, PlanFacts DEF Plan, DeleteFits, Deleted, DeleteTodo,
     Done, Live, ReplaceLabels, WriterLabels
<1>6. ResumeFits(r)'
  BY <1>1, <1>3, NothingWrittenYet DEF ResumeFits, ResumedWritePhase, NoSteps
<1>7. (ReadFits(r) /\ WriteFits(r) /\ LetGo(r))'
  BY <1>1 DEF ReadFits, WriteFits, LetGo, WriterLabels
<1> QED BY <1>1, <1>4, <1>5, <1>6, <1>7 DEF Planned, Plan, Plans

\* record_step_result of the delete phase: one panel less to delete, at most.
LEMMA RecordStepPlans ==
  ASSUME TypeInv, Plans, NEW r \in Requests, RecordStep(r) PROVE Planned(r)
<1> DEFINE o == Op(r)
           P == req[r].panel
           delete == [o.delete EXCEPT ![P] = StepResult(req[r].answer)]
           u == [o EXCEPT !.delete = delete]
           q == [req[r] EXCEPT !.todo = @ \ {req[r].panel}, !.panel = NoPanel]
<1>1. /\ pc[r] = "recordStep" /\ pc'[r] = "delete" /\ row' = row
      /\ Update(r, q)
  BY PlanFacts DEF RecordStep, Go
<1>2. /\ o \in Operations /\ OpFits(o) /\ req[r].op \in DOMAIN ops
      /\ o.old = req[r].key /\ o.type = req[r].kind /\ P \in Panels
      /\ req[r].answer \in BOOLEAN
  BY <1>1, PlanFacts DEF HasOp, DeleteLabels, Plan, Owns, RequestOK, CallLabels,
     RequestRecords
<1>3. /\ Done(delete) \subseteq Done(o.delete) \cup {P}
      /\ \A p \in Panels : delete[p] # "absent" => o.delete[p] # "absent" \/ p = P
      /\ \A p \in Panels : o.delete[p] # "absent" => delete[p] # "absent"
      /\ delete \in [Panels -> StepStates]
  <2>1. o.delete \in [Panels -> StepStates]
    BY <1>2 DEF Operations
  <2>2. delete \in [Panels -> StepStates]
    BY <1>2, <2>1 DEF StepResult, StepStates
  <2> QED BY <1>2, <2>1, <2>2 DEF Done, StepResult
<1>4. ChangeOperation(req[r].op, u)
  BY DEF RecordStep, RecordDeleteStep, Op
<1> HIDE DEF delete
<1>5. /\ u \in Operations /\ u.delete = delete /\ u.source = o.source
      /\ u.write = o.write /\ u.old = o.old /\ u.type = o.type
  BY <1>2, <1>3 DEF Operations
<1> HIDE DEF u
<1>6. /\ P \in DeleteTodo(r) /\ (\A p \in Panels : o.write[p] = "absent")
      /\ ~ResumedWritePhase(r)
  BY <1>1, NothingWrittenYet
<1>7. OpFits(u)
  BY <1>2, <1>3, <1>5, <1>6 DEF OpFits, DeleteTodo
<1>8. (\A j \in DOMAIN ops' : OpFits(ops'[j])) /\ ops'[req[r].op] = u
  BY <1>2, <1>4, <1>5, <1>7, ChangeFits
<1>9. /\ req'[r].todo = req[r].todo \ {P} /\ req'[r].key = req[r].key
      /\ req'[r].kind = req[r].kind /\ req'[r].op = req[r].op
      /\ req'[r].loaded = req[r].loaded
  <2>1. req'[r] = q /\ req[r] \in RequestRecords
    BY <1>1, PlanFacts DEF Update
  <2> QED BY <2>1, SMTT(60) DEF RequestRecords
<1>10. Op(r)' = u
  BY <1>8, <1>9 DEF Op
<1>11. Owns(r)'
  BY <1>2, <1>5, <1>9, <1>10 DEF Owns
<1>12. DeleteFits(r)'
  <2>1. /\ req[r].todo \subseteq DeleteTodo(r)
        /\ req[r].todo \ {P} \subseteq Live(req[r].key)
        /\ \A p \in o.source : o.delete[p] # "absent"
    BY <1>1, PlanFacts DEF Plan, DeleteFits
  <2>2. req'[r].todo \subseteq DeleteTodo(r)'
    BY <1>3, <1>5, <1>9, <1>10, <2>1 DEF DeleteTodo
  <2>3. \A p \in u.source : u.delete[p] # "absent"
    BY <1>2, <1>3, <1>5, <2>1 DEF Operations
  <2> QED BY <1>1, <1>9, <1>10, <2>1, <2>2, <2>3
      DEF DeleteFits, Deleted, Live, ReplaceLabels, WriterLabels
<1>13. ResumeFits(r)'
  BY <1>5, <1>6, <1>9, <1>10 DEF ResumeFits, ResumedWritePhase
<1>14. (ReadFits(r) /\ WriteFits(r) /\ LetGo(r))'
  BY <1>1 DEF ReadFits, WriteFits, LetGo, WriterLabels
<1> QED BY <1>8, <1>11, <1>12, <1>13, <1>14 DEF Planned, Plan

\* A request that answers leaves its operation with a status.
LEMMA EndPlans ==
  ASSUME TypeInv, Plans, NEW r \in Requests, HasOp(r),
         NEW status \in OpStatuses, SetOperationStatus(req[r].op, status),
         NEW outcome, Reply(r, outcome)
  PROVE  Planned(r)
<1>1. pc'[r] = "reply"
  BY ReplyMoves DEF TypeInv
<1> QED BY <1>1, PlanFacts, StatusFits, AtRest DEF Planned

\* A step after which the request is over, with the operations as they were.
LEMMA RestPlans ==
  ASSUME TypeInv, Plans, NEW r \in Requests, pc'[r] \in {"idle", "reply"}, ops' = ops
  PROVE  Planned(r)
BY AtRest DEF Planned, Plans

\* The ends of a request: a reply, the idle thread, the loss of the worker.
LEMMA OverPlans ==
  ASSUME TypeInv, Plans, NEW r \in Requests,
         \/ FailDelete(r) \/ FinalizeRefused(r) \/ FinishReassign(r)
         \/ CompleteReplace(r) \/ Answer(r) \/ Crash(r)
  PROVE  Planned(r)
<1>0. pc \in [Requests -> Labels]
  BY PlanFacts
<1>1. CASE FinalizeRefused(r) \/ Answer(r) \/ Crash(r)
  BY <1>0, <1>1, RestPlans DEF FinalizeRefused, Answer, Crash, Reply, Go, store
<1>2. CASE FailDelete(r) \/ FinishReassign(r) \/ CompleteReplace(r)
  <2>1. HasOp(r)
    BY <1>2 DEF FailDelete, FinishReassign, CompleteReplace, HasOp, DeleteLabels,
                ReplaceLabels
  <2>2. \E status \in OpStatuses : \E outcome :
          SetOperationStatus(req[r].op, status) /\ Reply(r, outcome)
    BY <1>2 DEF FailDelete, FinishReassign, CompleteReplace, OpStatuses
  <2> QED BY <2>1, <2>2, EndPlans
<1> QED BY <1>1, <1>2

\* A delete phase that is complete has deleted everything.
LEMMA EndDeletePlans ==
  ASSUME TypeInv, Plans, NEW r \in Requests, EndDelete(r) PROVE Planned(r)
<1>1. /\ pc[r] = "delete" /\ pc'[r] = "finalize" /\ UNCHANGED <<ops, req, row>>
      /\ DeletePhaseComplete(r)
  BY PlanFacts DEF EndDelete, Go, store
<1>2. Op(r)' = Op(r)
  BY <1>1 DEF Op
<1>3. HasOp(r)
  BY <1>1 DEF HasOp, DeleteLabels
<1>4. DeleteTodo(r) = {}
  <2>1. \A p \in Op(r).source : Op(r).delete[p] # "absent"
    BY <1>1, PlanFacts DEF Plan, DeleteFits
  <2> QED BY <1>1, <1>3, <2>1, PlanFacts, NothingLeft
      DEF DeletePhaseComplete, DeleteTodo
<1>5. Owns(r)'
  BY <1>1, <1>2, <1>3, PlanFacts DEF Plan, Owns
<1>6. (DeleteFits(r) /\ ResumeFits(r))'
  BY <1>1, <1>2, <1>4, PlanFacts DEF Plan, DeleteFits, DeleteTodo, ResumeFits,
     ResumedWritePhase, Done, Live
<1>7. (ReadFits(r) /\ WriteFits(r) /\ LetGo(r))'
  BY <1>1 DEF ReadFits, WriteFits, LetGo, WriterLabels
<1> QED BY <1>1, <1>5, <1>6, <1>7 DEF Planned, Plan, Plans

\* What the CRM lets the key of a request open is on the books, unless a create
\* of it was never confirmed.
LEMMA OnBooks ==
  ASSUME TypeInv, Books, NEW r \in Requests, pc[r] \notin {"idle", "recordAdd"}
  PROVE  crm[req[r].key] \subseteq Live(req[r].key) \cup unconfirmed[req[r].key]
<1> DEFINE K == req[r].key
<1>1. K \in Keys /\ K \in Touches(r)
  BY OwnKeys
<1>2. ASSUME NEW p \in crm[K] PROVE p \in Live(K) \cup unconfirmed[K]
  <2>1. p \in Live(K) \/ p \in unconfirmed[K] \/ InFlight(K, p)
    BY <1>1 DEF Books, KeyTracked
  <2>2. ~InFlight(K, p)
    <3> SUFFICES ASSUME NEW s \in Requests, pc[s] = "recordAdd", WriteKey(s) = K
                 PROVE  FALSE
      BY DEF InFlight
    <3>1. K \in Touches(s) /\ s # r
      BY OwnKeys
    <3> QED BY <1>1, <3>1 DEF Books, Disjoint
  <2> QED BY <2>1, <2>2
<1> QED BY <1>2

\* A step of the local release: nothing left to delete, and the CRM has let go.
LEMMA ReleasePlans ==
  ASSUME TypeInv, Plans, NEW r \in Requests, pc[r] = "finalize",
         Go(r, IF req[r].kind = "replace" THEN "ensure" ELSE "close"),
         UNCHANGED <<ops, req, crm, unconfirmed>>,
         req[r].kind \in {"reassign", "replace"} =>
           crm[req[r].key] \subseteq unconfirmed[req[r].key] \cup
             (IF req[r].kind = "reassign" THEN Done(Op(r).write) ELSE {})
  PROVE  Planned(r)
<1>1. pc'[r] \in {"ensure", "close"}
  BY PlanFacts DEF Go
<1>2. Op(r)' = Op(r)
  BY DEF Op
<1>3. Owns(r)'
  BY <1>2, PlanFacts DEF Plan, Owns, HasOp, DeleteLabels
<1>4. DeleteFits(r)'
  BY <1>1, <1>2, PlanFacts DEF Plan, DeleteFits, Deleted, DeleteTodo, Done
<1>5. LetGo(r)'
  BY <1>2 DEF LetGo, Done
<1>6. (ReadFits(r) /\ ResumeFits(r) /\ WriteFits(r))'
  BY <1>1 DEF ReadFits, ResumeFits, WriteFits, WriterLabels
<1> QED BY <1>3, <1>4, <1>5, <1>6 DEF Planned, Plan, Plans

\* finalize_release refuses while a row is left, so the CRM has let go.
LEMMA FinalizePlans ==
  ASSUME TypeInv, Books, Plans, NEW r \in Requests, Finalize(r) PROVE Planned(r)
<1>1. pc[r] = "finalize" /\ Live(req[r].key) = {}
  BY DEF Finalize, CanFinalize
<1>2. crm[req[r].key] \subseteq unconfirmed[req[r].key]
  BY <1>1, OnBooks
<1> QED BY <1>1, <1>2, ReleasePlans DEF Finalize

\* A reassignment in its write phase skips the local release: what is left on
\* the books is what it has written itself.
LEMMA SkipFinalizePlans ==
  ASSUME TypeInv, Books, Plans, NEW r \in Requests, SkipFinalize(r)
  PROVE  Planned(r)
<1>1. pc[r] = "finalize" /\ req[r].kind = "reassign"
  BY DEF SkipFinalize, ResumedWritePhase
<1>2. Live(req[r].key) = Done(Op(r).write)
  BY <1>1, PlanFacts DEF SkipFinalize, Plan, ResumeFits
<1>3. crm[req[r].key] \subseteq unconfirmed[req[r].key] \cup Done(Op(r).write)
  BY <1>1, <1>2, OnBooks
<1>4. UNCHANGED <<ops, req, crm, unconfirmed>> /\ Go(r, "close")
  BY DEF SkipFinalize, store
<1> QED BY <1>1, <1>3, <1>4, ReleasePlans

\* The close of the release phase changes a status and nothing else.
LEMMA CloseReleasePlans ==
  ASSUME TypeInv, Plans, NEW r \in Requests, CloseRelease(r) PROVE Planned(r)
<1>0. pc[r] = "close" /\ HasOp(r)
  BY DEF CloseRelease, HasOp, DeleteLabels
<1>1. CASE req[r].kind # "reassign"
  BY <1>0, <1>1, EndPlans DEF CloseRelease, OpStatuses
<1>2. CASE req[r].kind = "reassign"
  <2>1. /\ SetOperationStatus(req[r].op, "writing") /\ pc'[r] = "ensure"
        /\ UNCHANGED <<req, crm, unconfirmed>>
    BY <1>2, PlanFacts DEF CloseRelease, Go
  <2>2. /\ \A j \in DOMAIN ops' : OpFits(ops'[j])
        /\ Op(r)'.old = Op(r).old /\ Op(r)'.type = Op(r).type
        /\ Op(r)'.source = Op(r).source /\ Op(r)'.delete = Op(r).delete
        /\ Op(r)'.write = Op(r).write
    BY <1>0, <2>1, PlanFacts, StatusFits DEF Op, OpStatuses
  <2>3. Owns(r)'
    BY <1>0, <2>1, <2>2, PlanFacts DEF Plan, Owns
  <2>4. DeleteFits(r)'
    BY <1>0, <2>1, <2>2, PlanFacts DEF Plan, DeleteFits, Deleted, DeleteTodo, Done
  <2>5. LetGo(r)'
    BY <1>0, <2>1, <2>2, PlanFacts DEF Plan, LetGo, Done
  <2>6. (ReadFits(r) /\ ResumeFits(r) /\ WriteFits(r))'
    BY <2>1 DEF ReadFits, ResumeFits, WriteFits, WriterLabels
  <2> QED BY <2>2, <2>3, <2>4, <2>5, <2>6 DEF Planned, Plan
<1> QED BY <1>1, <1>2

\* The write phase begins with the steps that have not been confirmed.
LEMMA EnsurePlans ==
  ASSUME TypeInv, Plans, NEW r \in Requests, EnsureWrite(r) PROVE Planned(r)
<1> DEFINE o == Op(r)
           write == EnsureSteps(o.write, WriteTargets(r))
           status == IF req[r].kind = "replace" THEN "writing" ELSE o.status
           u == [o EXCEPT !.write = write, !.status = status]
           left == Unfinished(write)
           q == [req[r] EXCEPT !.todo = left, !.pending = left]
<1>1. /\ pc[r] = "ensure" /\ pc'[r] \in {"lock", "recordSteps"}
      /\ ChangeOperation(req[r].op, u) /\ Update(r, q)
      /\ UNCHANGED <<crm, unconfirmed>>
  BY PlanFacts DEF EnsureWrite, Go
<1>2. /\ HasOp(r) /\ o \in Operations /\ OpFits(o) /\ req[r].op \in DOMAIN ops
      /\ o.old = req[r].key /\ o.type = req[r].kind /\ DeleteTodo(r) = {}
  BY <1>1, PlanFacts DEF HasOp, DeleteLabels, Plan, Owns, DeleteFits, Deleted
<1>3. /\ write \in [Panels -> StepStates] /\ Done(write) = Done(o.write)
      /\ left \cap Done(write) = {}
  BY <1>2, EnsuredSteps, StepsTyped DEF Operations
<1>4. status \in OpStatuses
  BY <1>2 DEF Operations, OpStatuses
<1> HIDE DEF write, status
<1>5. /\ u \in Operations /\ u.write = write /\ u.source = o.source
      /\ u.delete = o.delete /\ u.old = o.old /\ u.type = o.type
  BY <1>2, <1>3, <1>4 DEF Operations
<1> HIDE DEF u, left
<1>6. OpFits(u)
  BY <1>2, <1>5 DEF OpFits, DeleteTodo
<1>7. (\A j \in DOMAIN ops' : OpFits(ops'[j])) /\ ops'[req[r].op] = u
  BY <1>1, <1>2, <1>5, <1>6, ChangeFits
<1>8. /\ req'[r].todo = left /\ req'[r].pending = left /\ req'[r].key = req[r].key
      /\ req'[r].kind = req[r].kind /\ req'[r].op = req[r].op
  <2>1. req'[r] = q /\ req[r] \in RequestRecords
    BY <1>1, PlanFacts DEF Update
  <2> QED BY <2>1, SMTT(60) DEF RequestRecords
<1>9. Op(r)' = u
  BY <1>7, <1>8 DEF Op
<1>10. Owns(r)'
  BY <1>2, <1>5, <1>8, <1>9 DEF Owns
<1>11. DeleteFits(r)'
  BY <1>1, <1>2, <1>5, <1>9 DEF DeleteFits, Deleted, DeleteTodo, Done
<1>12. WriteFits(r)'
  BY <1>1, <1>3, <1>5, <1>8, <1>9 DEF WriteFits, Done
<1>13. LetGo(r)'
  BY <1>1, <1>3, <1>5, <1>8, <1>9, PlanFacts DEF Plan, LetGo, Done
<1>14. (ReadFits(r) /\ ResumeFits(r))'
  BY <1>1 DEF ReadFits, ResumeFits
<1> QED BY <1>7, <1>10, <1>11, <1>12, <1>13, <1>14 DEF Planned, Plan

\* A step inside the writer leaves the operation alone.
LEMMA WriterPlans ==
  ASSUME TypeInv, Plans, NEW r \in Requests, pc[r] \in WriterLabels,
         pc'[r] \in {"write", "recordAdd"}, ops' = ops,
         req'[r].key = req[r].key, req'[r].kind = req[r].kind,
         req'[r].op = req[r].op, req'[r].pending = req[r].pending,
         req'[r].todo \subseteq req[r].todo,
         pc'[r] = "recordAdd" /\ req'[r].answer => req'[r].panel \in crm'[WriteKey(r)'],
         pc[r] = "lock" => req'[r].todo = req[r].todo
  PROVE  Planned(r)
<1>1. Op(r)' = Op(r) /\ HasOp(r)' = HasOp(r)
  BY DEF Op, HasOp, DeleteLabels, ReplaceLabels, WriterLabels
<1>2. Owns(r)'
  BY <1>1, PlanFacts DEF Plan, Owns
<1>3. DeleteFits(r)'
  BY <1>1, PlanFacts DEF Plan, DeleteFits, Deleted, DeleteTodo, Done,
     ReplaceLabels, WriterLabels
<1>4. WriteFits(r)'
  BY <1>1, PlanFacts DEF Plan, WriteFits, Done, WriterLabels
<1>5. (ReadFits(r) /\ ResumeFits(r) /\ LetGo(r))'
  BY DEF ReadFits, ResumeFits, LetGo
<1> QED BY <1>2, <1>3, <1>4, <1>5 DEF Planned, Plan, Plans

\* The steps of write_key_to_panels.
LEMMA WriteStepPlans ==
  ASSUME TypeInv, Plans, NEW r \in Requests,
         \/ AcquireLock(r) \/ RecordAdd(r)
         \/ \E p \in Panels : SkipKnown(r, p) \/ RefuseWrite(r, p) \/ SendAdd(r, p)
  PROVE  Planned(r)
<1>0. pc \in [Requests -> Labels] /\ req[r] \in RequestRecords
  BY PlanFacts
<1>1. CASE AcquireLock(r)
  <2>1. /\ pc[r] = "lock" /\ pc'[r] = "write" /\ ops' = ops
        /\ \E x : req'[r] = [req[r] EXCEPT !.known = x]
    BY <1>0, <1>1, PlanFacts DEF AcquireLock, Go, Update, store
  <2>2. /\ req'[r].key = req[r].key /\ req'[r].kind = req[r].kind
        /\ req'[r].op = req[r].op /\ req'[r].pending = req[r].pending
        /\ req'[r].todo = req[r].todo
    BY <1>0, <2>1, SMTT(60) DEF RequestRecords
  <2> QED BY <2>1, <2>2, WriterPlans DEF WriterLabels
<1>2. CASE RecordAdd(r)
  <2>1. /\ pc[r] = "recordAdd" /\ pc'[r] = "write" /\ ops' = ops
        /\ \E x, y : req'[r] = [req[r] EXCEPT !.todo = @ \ {req[r].panel},
                                             !.panel = x, !.wrote = y]
    BY <1>0, <1>2, PlanFacts DEF RecordAdd, Go, Update
  <2>2. /\ req'[r].key = req[r].key /\ req'[r].kind = req[r].kind
        /\ req'[r].op = req[r].op /\ req'[r].pending = req[r].pending
        /\ req'[r].todo = req[r].todo \ {req[r].panel}
    BY <1>0, <2>1, SMTT(60) DEF RequestRecords
  <2> QED BY <2>1, <2>2, WriterPlans DEF WriterLabels
<1>3. ASSUME NEW p \in Panels, SkipKnown(r, p) \/ RefuseWrite(r, p)
      PROVE  Planned(r)
  <2>1. /\ pc[r] = "write" /\ pc'[r] = "write" /\ ops' = ops
        /\ \E x : req'[r] = [req[r] EXCEPT !.todo = @ \ {p}, !.wrote = x]
    <3>1. [req[r] EXCEPT !.todo = @ \ {p}, !.wrote = req[r].wrote]
            = [req[r] EXCEPT !.todo = @ \ {p}]
      BY <1>0 DEF RequestRecords
    <3> QED BY <1>0, <1>3, <3>1, PlanFacts DEF SkipKnown, RefuseWrite, Update, store
  <2>2. /\ req'[r].key = req[r].key /\ req'[r].kind = req[r].kind
        /\ req'[r].op = req[r].op /\ req'[r].pending = req[r].pending
        /\ req'[r].todo = req[r].todo \ {p}
    BY <1>0, <2>1, SMTT(60) DEF RequestRecords
  <2> QED BY <2>1, <2>2, WriterPlans DEF WriterLabels
<1>4. ASSUME NEW p \in Panels, SendAdd(r, p) PROVE Planned(r)
  <2>1. PICK a \in CrmAnswers :
          /\ crm' = IF a.applied THEN [crm EXCEPT ![WriteKey(r)] = @ \cup {p}]
                                 ELSE crm
          /\ req'[r] = [req[r] EXCEPT !.panel = p, !.answer = a.confirmed]
    BY <1>4, PlanFacts DEF SendAdd, Update
  <2>2. pc[r] = "write" /\ pc'[r] = "recordAdd" /\ ops' = ops
    BY <1>0, <1>4 DEF SendAdd, Go, store
  <2>3. /\ req'[r].key = req[r].key /\ req'[r].kind = req[r].kind
        /\ req'[r].op = req[r].op /\ req'[r].pending = req[r].pending
        /\ req'[r].todo = req[r].todo /\ req'[r].new = req[r].new
    BY <1>0, <2>1, SMTT(60) DEF RequestRecords
  <2>4. req'[r].panel = p /\ req'[r].answer = a.confirmed
    BY <1>0, <2>1, SMTT(60) DEF RequestRecords
  <2>5. a.confirmed => p \in crm'[WriteKey(r)]
    BY <2>1, <2>2, OwnKeys DEF CrmAnswers, TypeInv, TypeOK
  <2>6. WriteKey(r)' = WriteKey(r)
    BY <2>3 DEF WriteKey
  <2> QED BY <2>2, <2>3, <2>4, <2>5, <2>6, WriterPlans DEF WriterLabels
<1> QED BY <1>1, <1>2, <1>3, <1>4

\* The writer returns what it was asked to write: nothing of it was confirmed
\* before.
LEMMA ReturnPlans ==
  ASSUME TypeInv, Plans, NEW r \in Requests, ReturnFromWriter(r) PROVE Planned(r)
<1>1. pc[r] = "write" /\ ops' = ops
  BY DEF ReturnFromWriter
<1>2. CASE req[r].kind \in {"write", "add"}
  <2>1. pc'[r] = "reply"
    BY <1>2, PlanFacts DEF ReturnFromWriter, Reply, Go
  <2> QED BY <1>1, <2>1, RestPlans
<1>3. CASE req[r].kind \notin {"write", "add"}
  <2>1. /\ pc'[r] = "recordSteps"
        /\ req'[r] = [req[r] EXCEPT !.todo = req[r].pending]
    BY <1>3, PlanFacts DEF ReturnFromWriter, Go, Update
  <2>2. /\ req'[r].key = req[r].key /\ req'[r].kind = req[r].kind
        /\ req'[r].op = req[r].op /\ req'[r].todo = req[r].pending
    <3>1. req[r] \in RequestRecords
      BY PlanFacts
    <3> QED BY <2>1, <3>1, SMTT(60) DEF RequestRecords
  <2>3. Op(r)' = Op(r)
    BY <1>1, <2>2 DEF Op
  <2>4. HasOp(r) /\ req[r].kind \in OpTypes
    BY <1>1, <1>3, PlanFacts DEF HasOp, WriterLabels, RequestOK, RequestRecords
  <2>5. Owns(r)'
    BY <2>2, <2>3, <2>4, PlanFacts DEF Plan, Owns
  <2>6. (DeleteFits(r) /\ WriteFits(r))'
    BY <1>1, <2>1, <2>2, <2>3, <2>4, PlanFacts DEF Plan, DeleteFits, Deleted,
       DeleteTodo, WriteFits, Done, WriterLabels
  <2>7. (ReadFits(r) /\ ResumeFits(r) /\ LetGo(r))'
    BY <2>1 DEF ReadFits, ResumeFits, LetGo
  <2> QED BY <1>1, <2>5, <2>6, <2>7 DEF Planned, Plan, Plans
<1> QED BY <1>2, <1>3

\* record_step_result of the write phase is about a panel not confirmed yet.
LEMMA RecordWrittenPlans ==
  ASSUME TypeInv, Plans, NEW r \in Requests, NEW p \in Panels, RecordWritten(r, p)
  PROVE  Planned(r)
<1> DEFINE o == Op(r)
           write == [o.write EXCEPT ![p] = StepResult(p \in req[r].wrote)]
           u == [o EXCEPT !.write = write]
           q == [req[r] EXCEPT !.todo = @ \ {p}]
<1>1. /\ pc[r] = "recordSteps" /\ pc'[r] = "recordSteps" /\ Update(r, q)
      /\ ChangeOperation(req[r].op, u)
  BY DEF RecordWritten, RecordWriteStep, Op
<1>2. /\ HasOp(r) /\ o \in Operations /\ OpFits(o) /\ req[r].op \in DOMAIN ops
      /\ o.old = req[r].key /\ o.type = req[r].kind /\ DeleteTodo(r) = {}
      /\ req[r].todo \cap Done(o.write) = {}
  BY <1>1, PlanFacts DEF HasOp, DeleteLabels, Plan, Owns, DeleteFits, Deleted,
     WriteFits
<1>3. write \in [Panels -> StepStates] /\ Done(write) \subseteq Done(o.write) \cup {p}
  <2>1. o.write \in [Panels -> StepStates]
    BY <1>2 DEF Operations
  <2> QED BY <2>1 DEF StepResult, StepStates, Done
<1> HIDE DEF write
<1>4. /\ u \in Operations /\ u.write = write /\ u.source = o.source
      /\ u.delete = o.delete /\ u.old = o.old /\ u.type = o.type
  BY <1>2, <1>3 DEF Operations
<1> HIDE DEF u
<1>5. OpFits(u)
  BY <1>2, <1>4 DEF OpFits, DeleteTodo
<1>6. (\A j \in DOMAIN ops' : OpFits(ops'[j])) /\ ops'[req[r].op] = u
  BY <1>1, <1>2, <1>4, <1>5, ChangeFits
<1>7. /\ req'[r].todo = req[r].todo \ {p} /\ req'[r].key = req[r].key
      /\ req'[r].kind = req[r].kind /\ req'[r].op = req[r].op
  <2>1. req'[r] = q /\ req[r] \in RequestRecords
    BY <1>1, PlanFacts DEF Update
  <2> QED BY <2>1, SMTT(60) DEF RequestRecords
<1>8. Op(r)' = u
  BY <1>6, <1>7 DEF Op
<1>9. Owns(r)'
  BY <1>2, <1>4, <1>7, <1>8 DEF Owns
<1>10. DeleteFits(r)'
  BY <1>1, <1>2, <1>4, <1>8 DEF DeleteFits, Deleted, DeleteTodo, Done
<1>11. WriteFits(r)'
  BY <1>1, <1>2, <1>3, <1>4, <1>7, <1>8 DEF WriteFits, Done, WriterLabels
<1>12. (ReadFits(r) /\ ResumeFits(r) /\ LetGo(r))'
  BY <1>1 DEF ReadFits, ResumeFits, LetGo
<1> QED BY <1>6, <1>9, <1>10, <1>11, <1>12 DEF Planned, Plan

\* The last steps of a replacement plan nothing new.
LEMMA ReplaceEndPlans ==
  ASSUME TypeInv, Plans, NEW r \in Requests,
         FinishReplace(r) \/ AssignNew(r) \/ CloneAccesses(r)
  PROVE  Planned(r)
<1>0. pc \in [Requests -> Labels]
  BY PlanFacts
<1>1. CASE FinishReplace(r) /\ WriteIncomplete(r)
  <2>1. HasOp(r)
    BY <1>1 DEF FinishReplace, HasOp, DeleteLabels
  <2> QED BY <1>1, <2>1, EndPlans DEF FinishReplace, OpStatuses
<1>2. CASE (FinishReplace(r) /\ ~WriteIncomplete(r)) \/ AssignNew(r)
             \/ CloneAccesses(r)
  <2>1. /\ pc[r] \in {"recordSteps", "assignNew", "clone"}
        /\ pc'[r] \in ReplaceLabels /\ UNCHANGED <<ops, req>>
    BY <1>0, <1>2 DEF FinishReplace, AssignNew, CloneAccesses, Go, ReplaceLabels
  <2>2. Op(r)' = Op(r)
    BY <2>1 DEF Op
  <2>3. Owns(r)'
    BY <2>1, <2>2, PlanFacts DEF Plan, Owns, HasOp, DeleteLabels, ReplaceLabels
  <2>4. DeleteFits(r)'
    BY <2>1, <2>2, PlanFacts DEF Plan, DeleteFits, Deleted, DeleteTodo, Done,
       ReplaceLabels
  <2>5. (ReadFits(r) /\ ResumeFits(r) /\ WriteFits(r) /\ LetGo(r))'
    BY <2>1 DEF ReadFits, ResumeFits, WriteFits, LetGo, ReplaceLabels, WriterLabels
  <2> QED BY <2>1, <2>3, <2>4, <2>5 DEF Planned, Plan, Plans
<1> QED BY <1>1, <1>2

\* Every step of a request keeps the plans.
LEMMA PlansStep ==
  ASSUME TypeInv, ~Overlap, Books, Plans, NEW r \in Requests, Acts(r)
  PROVE  Plans'
<1>1. Planned(r)
  BY BeginPlans, FindPlans, ResumePlans, CreatePlans, MarkPlans, BeginDeletePlans,
     SendRemovePlans, RecordRowPlans, RecordStepPlans, OverPlans, EndDeletePlans,
     FinalizePlans, SkipFinalizePlans, CloseReleasePlans, EnsurePlans,
     WriteStepPlans, ReturnPlans, RecordWrittenPlans, ReplaceEndPlans
  DEF Acts, Progress
<1>2. ASSUME NEW s \in Requests \ {r} PROVE Plan(s)'
  BY PlanFrame DEF Books
<1> QED BY <1>1, <1>2 DEF Planned, Plans

\* Without overlap every request in flight has a plan that agrees with its
\* operation, with the rows and with the CRM, whatever crashes and repetitions
\* have left behind.
THEOREM PlansInvariance == ASSUME ~Overlap PROVE Spec => [](TypeInv /\ Books /\ Plans)
<1>1. Init => Plans
  <2> SUFFICES ASSUME Init PROVE Plans
    OBVIOUS
  <2>1. ops = <<>> /\ \A r \in Requests : pc[r] = "idle"
    BY DEF Init, StoreInit
  <2>2. ASSUME NEW r \in Requests PROVE Plan(r)
    BY <2>1 DEF Plan, Owns, HasOp, ReadFits, DeleteFits, Deleted, ResumeFits,
                WriteFits, LetGo, DeleteLabels, ReplaceLabels, WriterLabels
  <2> QED BY <2>1, <2>2 DEF Plans
<1>2. TypeInv /\ Books /\ Plans /\ [Next]_vars => Plans'
  <2> SUFFICES ASSUME TypeInv, Books, Plans, [Next]_vars PROVE Plans'
    OBVIOUS
  <2>1. CASE \E r \in Requests : Acts(r)
    BY <2>1, PlansStep
  <2>2. CASE UNCHANGED <<crm, row, pc, req, unconfirmed, ops>>
    <3>1. ASSUME NEW s \in Requests PROVE Plan(s)'
      <4>1. Plan(s) /\ RequestOK(s) /\ Op(s)' = Op(s)
        BY <2>2, PlanFacts DEF Op
      <4> QED BY <2>2, <4>1, PlanKept, AtRest
    <3> QED BY <2>2, <3>1 DEF Plans
  <2>3. (\E k \in Keys, where \in Places : AssignLocally(k, where))
          \/ UNCHANGED vars => UNCHANGED <<crm, row, pc, req, unconfirmed, ops>>
    BY DEF AssignLocally, vars, store
  <2> QED BY <2>1, <2>2, <2>3, NextActs
<1> QED BY <1>1, <1>2, BooksInvariance, PTL DEF Spec

-----------------------------------------------------------------------------
(* What follows for the properties of KeyLifecycle.                        *)

\* "Delete the old external access before writing a new assignment": without
\* overlap a reassignment or replacement comes to the writer only when the CRM
\* has let go of what the key opened before, up to creates never confirmed and
\* to what an earlier attempt of the reassignment has written.
THEOREM WritesComeAfterDeletes == ASSUME ~Overlap PROVE Spec => []WritesAfterDelete
<1>1. TypeInv /\ Books /\ Plans => WritesAfterDelete
  BY DEF Plans, Plan, LetGo, WritesAfterDelete
<1> QED BY <1>1, PlansInvariance, PTL

\* What a step of r does to an operation: confirmed steps stay confirmed, a
\* panel is confirmed deleted only by record_step_result, and an operation is
\* closed only when it has deleted everything or another one takes its place.
OpMoves(r, i) ==
  /\ ops'[i].old = ops[i].old /\ ops'[i].source = ops[i].source
  /\ ops'[i].new = ops[i].new /\ ops'[i].type = ops[i].type
  /\ Done(ops[i].delete) \subseteq Done(ops'[i].delete)
  /\ Done(ops[i].write) \subseteq Done(ops'[i].write)
  /\ Done(ops'[i].delete) \subseteq Done(ops[i].delete) \cup
       (IF RecordStep(r) /\ i = req[r].op /\ req[r].answer THEN {req[r].panel}
                                                         ELSE {})
  /\ Done(ops'[i].write) \subseteq Done(ops[i].write) \cup
       (IF pc[r] = "recordSteps" /\ i = req[r].op THEN req[r].wrote ELSE {})
  /\ ops'[i].status = "completed" =>
       \/ ops[i].status = "completed"
       \/ i = req[r].op /\ (CreateOperation(r) \/ DeleteTodo(r) = {})

\* Every step of a request does no more than that.
LEMMA OpsMove ==
  ASSUME TypeInv, Plans, NEW r \in Requests, Acts(r), NEW i \in DOMAIN ops
  PROVE  OpMoves(r, i)
<1>1. CASE ops'[i] = ops[i]
  BY <1>1 DEF OpMoves
<1>2. CASE HasOp(r) /\ req[r].op = i
  <2> DEFINE o == ops[i]
  <2>1. o \in Operations /\ Op(r) = o /\ TypeOK
    BY <1>2, OperationTyped DEF Op, TypeInv
  <2>2. /\ o.delete \in [Panels -> StepStates] /\ o.write \in [Panels -> StepStates]
    BY <2>1 DEF Operations
  <2>3. CASE CreateOperation(r)
    <3>1. ops'[i] = [o EXCEPT !.status = "completed"]
      BY <1>2, <2>3, Created
    <3> QED BY <1>2, <2>1, <2>3, <3>1 DEF Operations, OpMoves
  <2>4. ASSUME NEW u, ChangeOperation(i, u) PROVE ops'[i] = u
    BY <2>4, <2>1 DEF ChangeOperation, TypeOK, StoreTypeOK
  <2>5. CASE BeginDelete(r)
    <3> DEFINE delete == EnsureSteps(o.delete, o.source)
               u == [o EXCEPT !.status = "deleting", !.delete = delete]
    <3>1. ops'[i] = u
      BY <1>2, <2>1, <2>4, <2>5 DEF BeginDelete
    <3>2. Done(delete) = Done(o.delete)
      BY <2>2, EnsuredSteps
    <3> HIDE DEF delete
    <3>3. /\ u.delete = delete /\ u.write = o.write /\ u.old = o.old
          /\ u.source = o.source /\ u.new = o.new /\ u.type = o.type
          /\ u.status = "deleting"
      BY <2>1 DEF Operations
    <3> QED BY <3>1, <3>2, <3>3 DEF OpMoves
  <2>6. CASE EnsureWrite(r)
    <3> DEFINE write == EnsureSteps(o.write, WriteTargets(r))
               status == IF req[r].kind = "replace" THEN "writing" ELSE o.status
               u == [o EXCEPT !.write = write, !.status = status]
    <3>1. ops'[i] = u
      BY <1>2, <2>1, <2>4, <2>6 DEF EnsureWrite
    <3>2. Done(write) = Done(o.write)
      BY <2>2, EnsuredSteps
    <3> HIDE DEF write, status
    <3>3. /\ u.delete = o.delete /\ u.write = write /\ u.old = o.old
          /\ u.source = o.source /\ u.new = o.new /\ u.type = o.type
          /\ u.status = status
      BY <2>1 DEF Operations
    <3>4. status = "completed" => o.status = "completed"
      BY DEF status
    <3> QED BY <3>1, <3>2, <3>3, <3>4 DEF OpMoves
  <2>7. CASE RecordStep(r)
    <3> DEFINE P == req[r].panel
               delete == [o.delete EXCEPT ![P] = StepResult(req[r].answer)]
               u == [o EXCEPT !.delete = delete]
    <3>1. ops'[i] = u
      BY <1>2, <2>1, <2>4, <2>7 DEF RecordStep, RecordDeleteStep
    <3>2. P \notin Done(o.delete)
      BY <2>1, <2>7, NothingWrittenYet DEF RecordStep, DeleteTodo
    <3>3. /\ Done(o.delete) \subseteq Done(delete)
          /\ Done(delete) \subseteq Done(o.delete) \cup
                                  (IF req[r].answer THEN {P} ELSE {})
      BY <2>2, <3>2 DEF Done, StepResult
    <3> HIDE DEF delete
    <3>4. /\ u.delete = delete /\ u.write = o.write /\ u.old = o.old
          /\ u.source = o.source /\ u.new = o.new /\ u.type = o.type
          /\ u.status = o.status
      BY <2>1 DEF Operations
    <3> QED BY <1>2, <2>7, <3>1, <3>3, <3>4 DEF OpMoves
  <2>8. ASSUME NEW p \in Panels, RecordWritten(r, p)
        PROVE  OpMoves(r, i)
    <3> DEFINE write == [o.write EXCEPT ![p] = StepResult(p \in req[r].wrote)]
               u == [o EXCEPT !.write = write]
    <3>1. ops'[i] = u
      BY <1>2, <2>1, <2>4, <2>8 DEF RecordWritten, RecordWriteStep
    <3>2. p \notin Done(o.write)
      BY <2>1, <2>8, PlanFacts DEF RecordWritten, Plan, WriteFits
    <3>3. /\ Done(o.write) \subseteq Done(write)
          /\ Done(write) \subseteq Done(o.write) \cup req[r].wrote
      BY <2>2, <3>2 DEF Done, StepResult
    <3> HIDE DEF write
    <3>4. /\ u.delete = o.delete /\ u.write = write /\ u.old = o.old
          /\ u.source = o.source /\ u.new = o.new /\ u.type = o.type
          /\ u.status = o.status
      BY <2>1 DEF Operations
    <3> QED BY <1>2, <2>8, <3>1, <3>3, <3>4 DEF OpMoves, RecordWritten
  <2>9. ASSUME NEW status, SetOperationStatus(i, status),
               status = "completed" => DeleteTodo(r) = {}
        PROVE  OpMoves(r, i)
    <3>1. ops'[i] = [o EXCEPT !.status = status]
      BY <2>4, <2>9 DEF SetOperationStatus
    <3>2. /\ ops'[i].delete = o.delete /\ ops'[i].write = o.write
          /\ ops'[i].old = o.old /\ ops'[i].source = o.source
          /\ ops'[i].new = o.new /\ ops'[i].type = o.type
          /\ ops'[i].status = status
      BY <2>1, <3>1 DEF Operations
    <3> QED BY <1>2, <2>9, <3>2 DEF OpMoves
  <2>10. CASE \/ FailDelete(r) \/ CloseRelease(r) \/ FinishReassign(r)
              \/ FinishReplace(r) \/ CompleteReplace(r)
    <3>1. FailDelete(r) \/ DeleteTodo(r) = {}
      BY <2>10, PlanFacts DEF CloseRelease, FinishReassign, FinishReplace,
         CompleteReplace, Plan, DeleteFits, Deleted, ReplaceLabels
    <3>2. FailDelete(r) => \E status \in {"partial", "error"} : SetOperationStatus(i, status)
      BY <1>2 DEF FailDelete
    <3>3. ops' = ops \/ \E status : SetOperationStatus(i, status)
      BY <1>2, <2>10 DEF FailDelete, CloseRelease, FinishReassign, FinishReplace,
                         CompleteReplace
    <3> QED BY <1>1, <2>9, <3>1, <3>2, <3>3
  <2>11. CASE \/ Begin(r) \/ AcquireLock(r) \/ Crash(r)
              \/ \E p \in Panels : \/ SendRemove(r, p) \/ SkipKnown(r, p)
                                   \/ RefuseWrite(r, p) \/ SendAdd(r, p)
              \/ FindOperation(r) \/ ResumeOperation(r) \/ MarkPending(r)
              \/ RecordRow(r) \/ EndDelete(r) \/ Finalize(r)
              \/ FinalizeRefused(r) \/ SkipFinalize(r) \/ RecordAdd(r)
              \/ ReturnFromWriter(r) \/ AssignNew(r) \/ CloneAccesses(r) \/ Answer(r)
    <3>1. ops' = ops
      BY <2>11, BeganWith DEF AcquireLock, Crash, SendRemove, SkipKnown, RefuseWrite,
        SendAdd, FindOperation, ResumeOperation, MarkPending, RecordRow, EndDelete,
        Finalize, FinalizeRefused, SkipFinalize, RecordAdd, ReturnFromWriter,
        AssignNew, CloneAccesses, Answer, store
    <3> QED BY SMTT(60), <1>1, <3>1
  <2> QED BY <2>3, <2>5, <2>6, <2>7, <2>8, <2>10, <2>11 DEF Acts, Progress
<1> QED BY <1>1, <1>2, OpsFrame

\* get_operation_steps skips 'success': without overlap a panel that was
\* confirmed done is never worked on again, whatever restarts and repetitions
\* follow.
THEOREM ConfirmedStaysConfirmed == ASSUME ~Overlap PROVE Spec => DoneStaysDone
<1>1. TypeInv /\ Books /\ Plans /\ [Next]_vars =>
        [\A i \in DOMAIN ops : /\ Done(ops[i].delete) \subseteq Done(ops'[i].delete)
                               /\ Done(ops[i].write) \subseteq Done(ops'[i].write)]_vars
  <2> SUFFICES ASSUME TypeInv, Plans, Next, NEW i \in DOMAIN ops
               PROVE  /\ Done(ops[i].delete) \subseteq Done(ops'[i].delete)
                      /\ Done(ops[i].write) \subseteq Done(ops'[i].write)
    OBVIOUS
  <2>1. CASE \E r \in Requests : Acts(r)
    BY <2>1, OpsMove DEF OpMoves
  <2>2. CASE \E k \in Keys, where \in Places : AssignLocally(k, where)
    BY <2>2 DEF AssignLocally
  <2> QED BY <2>1, <2>2, NextActs
<1> QED BY <1>1, PlansInvariance, PTL DEF Spec, DoneStaysDone

\* A step of a request brings a row to life only for a key the CRM has on the
\* panel.
LEMMA NothingRevived ==
  ASSUME TypeInv, Plans, NEW r \in Requests, Acts(r),
         NEW k \in Keys, NEW p \in Panels, p \notin Live(k), p \in Live(k)'
  PROVE  p \in crm[k]
<1>0. row \in [Keys -> [Panels -> RowStates]]
  BY DEF TypeInv, TypeOK, StoreTypeOK
<1>1. CASE RecordAdd(r)
  <2>1. /\ WriteKey(r) \in Keys /\ req[r].panel \in Panels
        /\ req[r].answer => req[r].panel \in crm[WriteKey(r)]
    BY <1>1, OwnKeys, PlanFacts DEF RecordAdd, RequestOK, CallLabels, Plan, WriteFits
  <2>2. k = WriteKey(r) /\ p = req[r].panel /\ req[r].answer
    BY <1>0, <1>1, <2>1 DEF RecordAdd, RecordPanelWrite, Live, LiveStates
  <2> QED BY <2>1, <2>2
<1>2. CASE RecordRow(r)
  <2>1. req[r].key \in Keys /\ req[r].panel \in Live(req[r].key)
    BY <1>2, OwnKeys, PlanFacts DEF RecordRow, Plan, DeleteFits
  <2> QED BY <1>0, <1>2, <2>1 DEF RecordRow, RecordPanelDelete, Live
<1>3. CASE MarkPending(r)
  <2>1. req[r].key \in Keys
    BY <1>3, OwnKeys DEF MarkPending
  <2> QED BY <1>0, <1>3, <2>1 DEF MarkPending, MarkPanelsPendingDelete, Live
<1>4. ASSUME NEW q \in Panels, RefuseWrite(r, q) PROVE p \in crm[k]
  <2>1. WriteKey(r) \in Keys
    BY <1>4, OwnKeys DEF RefuseWrite
  <2> QED BY <1>0, <1>4, <2>1 DEF RefuseWrite, RecordPanelWrite, Live, LiveStates
<1>5. CASE UNCHANGED row
  BY <1>5 DEF Live
<1>6. CASE \/ Begin(r) \/ AcquireLock(r) \/ Crash(r)
           \/ \E q \in Panels : \/ SendRemove(r, q) \/ SkipKnown(r, q)
                                \/ SendAdd(r, q) \/ RecordWritten(r, q)
           \/ FindOperation(r) \/ ResumeOperation(r) \/ CreateOperation(r)
           \/ BeginDelete(r) \/ RecordStep(r) \/ FailDelete(r) \/ EndDelete(r)
           \/ Finalize(r) \/ FinalizeRefused(r) \/ SkipFinalize(r)
           \/ CloseRelease(r) \/ EnsureWrite(r) \/ ReturnFromWriter(r)
           \/ FinishReassign(r) \/ FinishReplace(r) \/ AssignNew(r)
           \/ CloneAccesses(r) \/ CompleteReplace(r) \/ Answer(r)
  <2>1. UNCHANGED row
    BY <1>6, BeganWith DEF AcquireLock, Crash, SendRemove, SkipKnown, SendAdd,
      RecordWritten, FindOperation, ResumeOperation, CreateOperation, BeginDelete,
      RecordStep, FailDelete, EndDelete, Finalize, FinalizeRefused, SkipFinalize,
      CloseRelease, EnsureWrite, ReturnFromWriter, FinishReassign, FinishReplace,
      AssignNew, CloneAccesses, CompleteReplace, Answer, store
  <2> QED BY SMTT(60), <1>5, <2>1
<1> QED BY <1>1, <1>2, <1>3, <1>4, <1>6 DEF Acts, Progress

\* Without overlap no late answer of a delete and no resumed operation revives a
\* removed row of key_panel_states.
THEOREM NoRowRevived == ASSUME ~Overlap PROVE Spec => NoResurrection
<1>1. TypeInv /\ Books /\ Plans /\ [Next]_vars =>
        [\A k \in Keys, p \in Panels :
           p \notin Live(k) /\ p \in Live(k)' => p \in crm[k]]_vars
  <2> SUFFICES ASSUME TypeInv, Plans, Next, NEW k \in Keys, NEW p \in Panels,
                      p \notin Live(k), p \in Live(k)'
               PROVE  p \in crm[k]
    OBVIOUS
  <2>1. CASE \E r \in Requests : Acts(r)
    BY <2>1, NothingRevived
  <2>2. CASE \E q \in Keys, where \in Places : AssignLocally(q, where)
    BY <2>2 DEF AssignLocally, Live
  <2> QED BY <2>1, <2>2, NextActs
<1> QED BY <1>1, PlansInvariance, PTL DEF Spec, NoResurrection

-----------------------------------------------------------------------------
(* The second look under the lock.                                         *)

\* The steps into a create call and under the lock.
LEMMA IntoWriter ==
  ASSUME TypeInv, NEW r \in Requests, Acts(r)
  PROVE  /\ pc[r] = "write" /\ pc'[r] = "recordAdd" => \E p \in Panels : SendAdd(r, p)
         /\ pc[r] = "lock" /\ pc'[r] = "write" => AcquireLock(r)
<1>0. pc \in [Requests -> Labels]
  BY DEF TypeInv, TypeOK
<1>1. CASE Begin(r)
  BY <1>0, <1>1, BeganWith
<1>2. CASE Progress(r)
  <2>1. pc[r] \in {"write", "lock"} =>
          \/ \E p \in Panels : SkipKnown(r, p) \/ RefuseWrite(r, p) \/ SendAdd(r, p)
          \/ ReturnFromWriter(r)
    BY <1>2 DEF Progress, SendRemove, RecordWritten, FindOperation,
      ResumeOperation, CreateOperation, MarkPending, BeginDelete, RecordRow,
      RecordStep, FailDelete, EndDelete, Finalize, FinalizeRefused, SkipFinalize,
      CloseRelease, EnsureWrite, RecordAdd, FinishReassign, FinishReplace,
      AssignNew, CloneAccesses, CompleteReplace, Answer
  <2>2. CASE \E p \in Panels : SkipKnown(r, p) \/ RefuseWrite(r, p)
    BY <2>2 DEF SkipKnown, RefuseWrite
  <2>3. CASE \E p \in Panels : SendAdd(r, p)
    BY <2>3 DEF SendAdd
  <2>4. CASE ReturnFromWriter(r)
    BY <1>0, <2>4 DEF ReturnFromWriter, Reply, Go
  <2> QED BY SMTT(60), <2>1, <2>2, <2>3, <2>4
<1>3. CASE AcquireLock(r)
  BY <1>3 DEF AcquireLock
<1>4. CASE Crash(r)
  BY <1>0, <1>4 DEF Crash, Go
<1> QED BY <1>1, <1>2, <1>3, <1>4 DEF Acts

\* A create is sent for a panel the writer does not know of.
LEMMA SentUnknown ==
  ASSUME TypeInv, NEW r \in Requests, NEW p \in Panels, SendAdd(r, p), KnownCovers(r)
  PROVE  req'[r].panel = p /\ p \notin Live(WriteKey(r))
<1>1. req[r] \in RequestRecords /\ \E x :
        req'[r] = [req[r] EXCEPT !.panel = p, !.answer = x]
  BY RequestTyped DEF SendAdd, Update, TypeInv, TypeOK
<1>2. req'[r].panel = p
  BY <1>1, SMTT(60) DEF RequestRecords
<1> QED BY <1>2 DEF SendAdd, KnownCovers, Writing

\* Without overlap no request writes a key to a panel the books name already.
THEOREM WrittenOnce == ASSUME ~Overlap PROVE Spec => NoRedundantCreate
<1>1. TypeInv /\ Books /\ [Next]_vars =>
        [\A r \in Requests : pc[r] = "write" /\ pc'[r] = "recordAdd" =>
           req'[r].panel \notin Live(WriteKey(r))]_vars
  <2> SUFFICES ASSUME TypeInv, Books, Next, NEW r \in Requests,
                      pc[r] = "write", pc'[r] = "recordAdd"
               PROVE  req'[r].panel \notin Live(WriteKey(r))
    OBVIOUS
  <2>1. PICK s \in Requests : Acts(s)
    BY NextActs DEF AssignLocally
  <2>2. s = r
    BY <2>1, ActsMove DEF OnlyMoves
  <2> QED BY <2>1, <2>2, IntoWriter, SentUnknown DEF Books, InHand
<1> QED BY <1>1, BooksInvariance, PTL DEF Spec, NoRedundantCreate

\* Where only writers are at work: what a writer knows is on the books, and it
\* knows of every panel it has left to write that is there.
LookFits(r) ==
  /\ pc[r] # "idle" =>
       pc[r] \in WriterLabels \cup {"reply"} /\ req[r].kind \notin OpTypes
  /\ pc[r] = "lock" => req[r].known \subseteq Live(WriteKey(r))
  /\ KnownCovers(r)
  /\ pc[r] = "recordAdd" => req[r].panel \in req[r].todo \ req[r].known

Looks == \A r \in Requests : LookFits(r)

\* The steps of a writer.
LEMMA WriterActs ==
  ASSUME TypeInv, NEW r \in Requests, LookFits(r), Acts(r)
  PROVE  \/ Begin(r) \/ AcquireLock(r) \/ RecordAdd(r)
         \/ \E p \in Panels : SkipKnown(r, p) \/ RefuseWrite(r, p) \/ SendAdd(r, p)
         \/ ReturnFromWriter(r) \/ Answer(r) \/ Crash(r)
BY DEF LookFits, WriterLabels, Acts, Progress, SendRemove, RecordWritten,
  FindOperation, ResumeOperation, CreateOperation, MarkPending, BeginDelete,
  RecordRow, RecordStep, FailDelete, EndDelete, Finalize, FinalizeRefused,
  SkipFinalize, CloseRelease, EnsureWrite, FinishReassign, FinishReplace,
  AssignNew, CloneAccesses, CompleteReplace

\* Writers only add to the books, each to those of the key it has locked.
LEMMA BooksGrow ==
  ASSUME TypeInv, NEW r \in Requests, LookFits(r), Acts(r), NEW k \in Keys
  PROVE  /\ Live(k) \subseteq Live(k)'
         /\ Live(k)' \subseteq Live(k) \/ (RecordAdd(r) /\ k = WriteKey(r))
         /\ RecordAdd(r) => Live(k)' \subseteq Live(k) \cup {req[r].panel}
<1>0. row \in [Keys -> [Panels -> RowStates]]
  BY DEF TypeInv, TypeOK, StoreTypeOK
<1>1. CASE RecordAdd(r)
  <2>1. /\ WriteKey(r) \in Keys /\ req[r].panel \in Panels
        /\ req[r].panel \notin Live(WriteKey(r))
    BY <1>1, OwnKeys DEF RecordAdd, LookFits, KnownCovers, Writing, TypeInv,
                         RequestOK, CallLabels
  <2> QED BY <1>0, <1>1, <2>1 DEF RecordAdd, RecordPanelWrite, Live
<1>2. ASSUME NEW p \in Panels, RefuseWrite(r, p)
      PROVE  Live(k)' = Live(k)
  <2>1. WriteKey(r) \in Keys /\ p \notin Live(WriteKey(r))
    BY SMTT(60), <1>2, OwnKeys DEF RefuseWrite, LookFits, KnownCovers, Writing
  <2> QED BY <1>0, <1>2, <2>1 DEF RefuseWrite, RecordPanelWrite, Live, LiveStates
<1>3. CASE \/ Begin(r) \/ AcquireLock(r)
           \/ \E p \in Panels : SkipKnown(r, p) \/ SendAdd(r, p)
           \/ ReturnFromWriter(r) \/ Answer(r) \/ Crash(r)
  BY <1>3, BeganWith DEF AcquireLock, SkipKnown, SendAdd, ReturnFromWriter, Answer,
                         Crash, Live, store
<1>4. RecordAdd(r) => pc[r] = "recordAdd"
  BY DEF RecordAdd
<1>5. \/ Begin(r) \/ AcquireLock(r) \/ ReturnFromWriter(r) \/ Answer(r) \/ Crash(r)
      \/ (\E p \in Panels : SkipKnown(r, p) \/ SendAdd(r, p) \/ RefuseWrite(r, p))
      \/ RecordAdd(r)
  BY WriterActs
<1>6. CASE ~RecordAdd(r)
  BY <1>2, <1>3, <1>5, <1>6
<1> QED BY <1>1, <1>6

\* A step of a writer leaves it knowing what it has to know.
LEMMA LookStep ==
  ASSUME TypeInv, Kinds \cap OpTypes = {}, NEW r \in Requests, LookFits(r), Acts(r)
  PROVE  LookFits(r)'
<1>0. pc \in [Requests -> Labels] /\ req[r] \in RequestRecords
      /\ req \in [Requests -> RequestRecords]
  BY RequestTyped DEF TypeInv, TypeOK
<1>1. CASE Begin(r)
  <2>1. /\ pc'[r] = "lock" /\ req'[r].kind \in {"write", "add"}
        /\ req'[r].known \subseteq Live(req[r].key)'
    BY <1>1, BeganWith DEF store, Live
  <2> QED BY <2>1 DEF LookFits, WriterLabels, OpTypes, WriteKey, KnownCovers, Writing
<1>2. CASE AcquireLock(r)
  <2>1. /\ pc[r] = "lock" /\ pc'[r] = "write" /\ row' = row
        /\ req'[r] = [req[r] EXCEPT !.known = KnownPanels(r)]
    BY <1>0, <1>2 DEF AcquireLock, Go, Update, store
  <2>2. /\ req'[r].known = KnownPanels(r) /\ req'[r].kind = req[r].kind
        /\ req'[r].key = req[r].key /\ req'[r].new = req[r].new
    BY <1>0, <2>1, SMTT(60) DEF RequestRecords
  <2>3. (Live(WriteKey(r)))' = Live(WriteKey(r))
    BY <2>1, <2>2 DEF Live, WriteKey
  <2> QED BY <2>1, <2>2, <2>3 DEF LookFits, WriterLabels, KnownCovers, KnownPanels
<1>3. CASE RecordAdd(r)
  <2>1. /\ pc[r] = "recordAdd" /\ pc'[r] = "write"
        /\ \E x, y : req'[r] = [req[r] EXCEPT !.todo = @ \ {req[r].panel},
                                             !.panel = x, !.wrote = y]
    BY <1>0, <1>3 DEF RecordAdd, Go, Update
  <2>2. /\ req'[r].known = req[r].known /\ req'[r].kind = req[r].kind
        /\ req'[r].key = req[r].key /\ req'[r].new = req[r].new
        /\ req'[r].todo = req[r].todo \ {req[r].panel}
    BY <1>0, <2>1, SMTT(60) DEF RequestRecords
  <2>3. Live(WriteKey(r))' \subseteq Live(WriteKey(r)) \cup {req[r].panel}
    <3>1. PICK K \in Keys : K = WriteKey(r)
      BY <2>1, OwnKeys
    <3>2. WriteKey(r)' = K
      BY <2>2, <3>1 DEF WriteKey
    <3>3. Live(K)' \subseteq Live(K) \cup {req[r].panel}
      BY <1>3, BooksGrow
    <3> QED BY <3>1, <3>2, <3>3 DEF Live
  <2>4. req[r].todo \cap Live(WriteKey(r)) \subseteq req[r].known
    BY <2>1 DEF LookFits, KnownCovers, Writing
  <2> QED BY <2>1, <2>2, <2>3, <2>4 DEF LookFits, WriterLabels, KnownCovers
<1>4. ASSUME NEW p \in Panels, SkipKnown(r, p) \/ RefuseWrite(r, p)
      PROVE  LookFits(r)'
  <2>1. pc[r] = "write" /\ pc'[r] = "write" /\ ~RecordAdd(r)
    BY <1>4 DEF SkipKnown, RefuseWrite, RecordAdd
  <2>2. \E x : req'[r] = [req[r] EXCEPT !.todo = @ \ {p}, !.wrote = x]
    <3>1. [req[r] EXCEPT !.todo = @ \ {p}, !.wrote = req[r].wrote]
            = [req[r] EXCEPT !.todo = @ \ {p}]
      BY <1>0 DEF RequestRecords
    <3> QED BY <1>0, <1>4, <3>1 DEF SkipKnown, RefuseWrite, Update
  <2>3. /\ req'[r].known = req[r].known /\ req'[r].kind = req[r].kind
        /\ req'[r].key = req[r].key /\ req'[r].new = req[r].new
        /\ req'[r].todo = req[r].todo \ {p}
    BY <1>0, <2>2, SMTT(60) DEF RequestRecords
  <2>4. Live(WriteKey(r))' \subseteq Live(WriteKey(r))
    <3>1. PICK K \in Keys : K = WriteKey(r)
      BY <2>1, OwnKeys
    <3>2. WriteKey(r)' = K
      BY <2>3, <3>1 DEF WriteKey
    <3>3. Live(K)' \subseteq Live(K)
      BY <2>1, BooksGrow
    <3> QED BY <3>1, <3>2, <3>3 DEF Live
  <2>5. req[r].todo \cap Live(WriteKey(r)) \subseteq req[r].known
    BY <2>1 DEF LookFits, KnownCovers, Writing
  <2> QED BY <2>1, <2>3, <2>4, <2>5 DEF LookFits, WriterLabels, KnownCovers
<1>5. ASSUME NEW p \in Panels, SendAdd(r, p) PROVE LookFits(r)'
  <2>1. /\ pc[r] = "write" /\ pc'[r] = "recordAdd" /\ row' = row
        /\ p \in req[r].todo \ req[r].known
        /\ \E x : req'[r] = [req[r] EXCEPT !.panel = p, !.answer = x]
    BY <1>0, <1>5 DEF SendAdd, Go, Update, store
  <2>2. /\ req'[r].known = req[r].known /\ req'[r].kind = req[r].kind
        /\ req'[r].key = req[r].key /\ req'[r].new = req[r].new
        /\ req'[r].todo = req[r].todo
    BY <1>0, <2>1, SMTT(60) DEF RequestRecords
  <2>3. req'[r].panel = p
    BY <1>0, <2>1, SMTT(60) DEF RequestRecords
  <2>4. (Live(WriteKey(r)))' = Live(WriteKey(r))
    BY <2>1, <2>2 DEF Live, WriteKey
  <2>5. req[r].todo \cap Live(WriteKey(r)) \subseteq req[r].known
    BY <2>1 DEF LookFits, KnownCovers, Writing
  <2> QED BY <2>1, <2>2, <2>3, <2>4, <2>5 DEF LookFits, WriterLabels, KnownCovers
<1>6. CASE ReturnFromWriter(r)
  <2>1. pc[r] = "write" /\ req[r].kind \in {"write", "add"}
    BY <1>0, <1>6 DEF ReturnFromWriter, LookFits, RequestRecords, TypeInv, RequestOK
  <2>2. pc'[r] = "reply" /\ \E x : req'[r] = [req[r] EXCEPT !.outcome = x]
    BY <1>0, <1>6, <2>1 DEF ReturnFromWriter, Reply, Go, Update
  <2>3. req'[r].kind = req[r].kind
    BY <1>0, <2>2, SMTT(60) DEF RequestRecords
  <2> QED BY <2>1, <2>2, <2>3 DEF LookFits, OpTypes, KnownCovers, Writing
<1>7. CASE Answer(r) \/ Crash(r)
  <2>1. pc'[r] = "idle"
    BY <1>0, <1>7 DEF Answer, Crash, Go
  <2> QED BY <2>1 DEF LookFits, KnownCovers, Writing
<1> QED BY <1>1, <1>2, <1>3, <1>4, <1>5, <1>6, <1>7, WriterActs

\* A writer's step leaves the others knowing what they have to know: only the
\* holder of the lock of a key adds to its books.
LEMMA LookFrame ==
  ASSUME TypeInv, LockHeld, Looks, NEW r \in Requests, Acts(r),
         NEW s \in Requests \ {r}
  PROVE  LookFits(s)'
<1>1. pc'[s] = pc[s] /\ req'[s] = req[s] /\ LookFits(s) /\ LookFits(r)
  BY ActsMove DEF OnlyMoves, Looks
<1>2. CASE pc[s] = "idle"
  BY <1>1, <1>2 DEF LookFits, KnownCovers, Writing
<1>3. CASE pc[s] # "idle"
  <2>1. PICK K \in Keys : K = WriteKey(s)
    BY <1>3, OwnKeys
  <2>2. WriteKey(s)' = K
    BY <1>1, <2>1 DEF WriteKey
  <2>3. Live(K) \subseteq Live(K)'
    BY <1>1, BooksGrow
  <2>4. Writing(s) => Live(K)' \subseteq Live(K)
    <3>1. RecordAdd(r) => Writing(r)
      BY DEF RecordAdd, Writing
    <3>2. Writing(s) /\ RecordAdd(r) => K # WriteKey(r)
      BY <2>1, <3>1 DEF LockHeld
    <3> QED BY <1>1, <3>2, BooksGrow
  <2>5. KnownCovers(s)'
    BY <1>1, <2>1, <2>2, <2>4 DEF LookFits, KnownCovers, Writing, Live
  <2>6. pc[s] = "lock" => req[s].known \subseteq Live(WriteKey(s))'
    BY <1>1, <2>1, <2>2, <2>3 DEF LookFits, Live
  <2> QED BY <1>1, <2>5, <2>6 DEF LookFits
<1> QED BY <1>2, <1>3

\* Writers alone, as many as there are of one key and wherever they are lost:
\* what each takes for "on the panel" is there.
LEMMA LooksInvariance ==
  ASSUME Kinds \cap OpTypes = {} PROVE Spec => [](TypeInv /\ LockHeld /\ Looks)
<1>1. Init => Looks
  BY DEF Init, Looks, LookFits, KnownCovers, Writing
<1>2. TypeInv /\ LockHeld /\ Looks /\ [Next]_vars => Looks'
  <2> SUFFICES ASSUME TypeInv, LockHeld, Looks, [Next]_vars PROVE Looks'
    OBVIOUS
  <2>1. CASE \E r \in Requests : Acts(r)
    <3>1. PICK r \in Requests : Acts(r)
      BY <2>1
    <3>2. LookFits(r)'
      BY <3>1, LookStep DEF Looks
    <3>3. ASSUME NEW s \in Requests \ {r} PROVE LookFits(s)'
      BY <3>1, LookFrame
    <3> QED BY <3>2, <3>3 DEF Looks
  <2>2. CASE UNCHANGED <<row, pc, req>>
    BY <2>2 DEF Looks, LookFits, KnownCovers, Writing, WriteKey, Live
  <2>3. (\E k \in Keys, where \in Places : AssignLocally(k, where))
          \/ UNCHANGED vars => UNCHANGED <<row, pc, req>>
    BY DEF AssignLocally, vars, store
  <2> QED BY <2>1, <2>2, <2>3, NextActs
<1> QED BY <1>1, <1>2, LockInvariance, PTL DEF Spec

\* "Разные worker не отправляют один и тот же запрос одновременно": the second
\* look under the advisory lock keeps any number of writers of one key from
\* writing it to a panel it is on.
THEOREM SecondLookSuffices == ASSUME Kinds \cap OpTypes = {} PROVE Spec => NoRedundantCreate
<1>1. TypeInv /\ Looks /\ [Next]_vars =>
        [\A r \in Requests : pc[r] = "write" /\ pc'[r] = "recordAdd" =>
           req'[r].panel \notin Live(WriteKey(r))]_vars
  <2> SUFFICES ASSUME TypeInv, Looks, Next, NEW r \in Requests,
                      pc[r] = "write", pc'[r] = "recordAdd"
               PROVE  req'[r].panel \notin Live(WriteKey(r))
    OBVIOUS
  <2>1. PICK s \in Requests : Acts(s)
    BY NextActs DEF AssignLocally
  <2>2. s = r
    BY <2>1, ActsMove DEF OnlyMoves
  <2> QED BY <2>1, <2>2, IntoWriter, SentUnknown DEF Looks, LookFits
<1> QED BY <1>1, LooksInvariance, PTL DEF Spec, NoRedundantCreate

-----------------------------------------------------------------------------
(* The deletions ahead.                                                    *)

\* An operation that is not over is still going to delete k from p.
Owned(k, p) == \E i \in DOMAIN ops :
  /\ ops[i].old = k /\ ops[i].status # "completed"
  /\ p \in ops[i].source \ Done(ops[i].delete)

\* A request works on an open operation, it asks for the deletion only of what
\* that has still to delete, and a confirmed deletion is stored in the row first.
OpenOp(r) ==
  /\ pc[r] # "idle" => req[r].kind \in Kinds
  /\ HasOp(r) /\ (pc[r] = "persist" => req[r].resume) => Op(r).status # "completed"
  /\ pc[r] = "mark" => Op(r).source \cap Live(req[r].key) \subseteq DeleteTodo(r)
  /\ pc[r] = "recordStep" /\ req[r].answer =>
       row[req[r].key][req[r].panel] # "pending_delete"

Ahead ==
  /\ \A r \in Requests : OpenOp(r)
  /\ \A k \in Keys, p \in Panels : row[k][p] = "pending_delete" => Owned(k, p)

\* The kind of a request is one the users ask for.
LEMMA KindKept ==
  ASSUME TypeInv, NEW r \in Requests, Acts(r), pc'[r] # "idle",
         pc[r] # "idle" => req[r].kind \in Kinds
  PROVE  req'[r].kind \in Kinds
<1>1. CASE Begin(r)
  BY <1>1, BeganWith
<1>2. CASE ~Begin(r)
  <2>1. pc[r] # "idle"
    BY <1>2 DEF Acts, Progress, AcquireLock, Crash, SendRemove,
      SkipKnown, RefuseWrite, SendAdd, RecordWritten, FindOperation,
      ResumeOperation, CreateOperation, MarkPending, BeginDelete, RecordRow,
      RecordStep, FailDelete, EndDelete, Finalize, FinalizeRefused,
      SkipFinalize, CloseRelease, EnsureWrite, RecordAdd, ReturnFromWriter,
      FinishReassign, FinishReplace, AssignNew, CloneAccesses,
      CompleteReplace, Answer
  <2> QED BY SMTT(60), <1>2, <2>1, KeysKept DEF Acts, SameKeys
<1> QED BY <1>1, <1>2

\* Another request's step leaves a request its open operation.
LEMMA OpenFrame ==
  ASSUME TypeInv, ~Overlap, Disjoint, Plans, NEW r \in Requests, Acts(r),
         NEW s \in Requests \ {r}, OpenOp(s)
  PROVE  OpenOp(s)'
<1>1. CASE pc[s] = "idle"
  <2>1. pc'[s] = "idle"
    BY <1>1, ActsMove DEF OnlyMoves
  <2> QED BY <2>1 DEF OpenOp, HasOp, DeleteLabels, ReplaceLabels, WriterLabels
<1>2. CASE pc[s] # "idle"
  <2>1. /\ pc'[s] = pc[s] /\ req'[s] = req[s]
        /\ row'[req[s].key] = row[req[s].key]
        /\ (HasOp(s) => Op(s)' = Op(s))
    BY <1>2, OthersFrame
  <2>2. (HasOp(s)' <=> HasOp(s)) /\ Live(req[s].key)' = Live(req[s].key)
    BY <2>1 DEF HasOp, Live
  <2>3. pc[s] = "mark" => HasOp(s)
    BY DEF HasOp, DeleteLabels
  <2> QED BY <1>2, <2>1, <2>2, <2>3 DEF OpenOp, DeleteTodo, Done
<1> QED BY <1>1, <1>2

\* create_or_resume_operation never hands out a closed operation, and what it
\* hands out has still to delete what is on the books.
LEMMA OpenedStep ==
  ASSUME TypeInv, "reassign" \notin Kinds, Plans, NEW r \in Requests, Acts(r),
         OpenOp(r), FindOperation(r) \/ ResumeOperation(r) \/ CreateOperation(r)
  PROVE  OpenOp(r)'
<1>0. pc \in [Requests -> Labels] /\ req[r] \in RequestRecords
      /\ req \in [Requests -> RequestRecords]
  BY PlanFacts
<1>1. CASE FindOperation(r)
  <2> DEFINE i == LatestOperation(req[r].kind, req[r].key, req[r].new)
             resume == i # 0 /\ CanResume(ops[i], req[r])
             loaded == IF resume THEN ops[i].status ELSE "pending"
             q == [req[r] EXCEPT !.op = i, !.resume = resume, !.loaded = loaded]
  <2>1. req'[r] = q /\ pc'[r] = "persist" /\ pc[r] = "find" /\ ops' = ops
    BY <1>0, <1>1 DEF FindOperation, Go, Update, store
  <2>2. i # 0 => ops[i].status # "completed"
    BY LatestFits
  <2> HIDE DEF i, resume, loaded
  <2>3. req'[r].op = i
    BY <1>0, <2>1, SMTT(60) DEF RequestRecords
  <2>4. req'[r].kind \in Kinds
    BY <2>1, KindKept DEF OpenOp
  <2>5. HasOp(r)' => Op(r)' = ops[i] /\ i # 0
    BY <2>1, <2>3 DEF HasOp, Op, DeleteLabels, ReplaceLabels, WriterLabels
  <2> QED BY <2>1, <2>2, <2>4, <2>5 DEF OpenOp
<1>2. CASE ResumeOperation(r)
  <2>1. /\ pc[r] = "persist" /\ pc'[r] = "mark" /\ req[r].resume
        /\ UNCHANGED <<ops, row, req>>
    BY <1>0, <1>2 DEF ResumeOperation, Go, store
  <2>2. HasOp(r) /\ Op(r)' = Op(r)
    BY <2>1, PlanFacts DEF HasOp, RequestOK, Op
  <2>3. /\ CanResume(Op(r), req[r]) /\ req[r].panels = Live(req[r].key)
        /\ Op(r).type = req[r].kind /\ req[r].kind # "reassign"
    BY <2>1, <2>2, PlanFacts DEF Plan, ReadFits, Owns, OpenOp
  <2>4. Op(r).source \cap Live(req[r].key) \subseteq DeleteTodo(r)
    BY <2>3 DEF CanResume, DeleteTodo
  <2> QED BY <2>1, <2>2, <2>4 DEF OpenOp, DeleteTodo, Done, Live
<1>3. CASE CreateOperation(r)
  <2> DEFINE n == Len(ops) + 1
  <2>1. /\ pc[r] = "persist" /\ pc'[r] = "mark"
        /\ req'[r] = [req[r] EXCEPT !.op = n]
    BY <1>0, <1>3 DEF CreateOperation, Go, Update
  <2>2. req'[r].op = n
    <3> HIDE DEF n
    <3> QED BY <1>0, <2>1, SMTT(60) DEF RequestRecords
  <2>3. Op(r)' = NewOperation(req[r])
    BY <1>3, <2>2, Created DEF Op
  <2>4. (Op(r).status)' = "pending" /\ (Op(r).delete)' = NoSteps
    BY <2>3 DEF NewOperation
  <2>5. (DeleteTodo(r))' = (Op(r).source)'
    BY <2>3, <2>4 DEF DeleteTodo, NoSteps, Done
  <2>6. req'[r].kind \in Kinds
    BY <2>1, KindKept DEF OpenOp
  <2> QED BY <2>1, <2>4, <2>5, <2>6 DEF OpenOp
<1> QED BY <1>1, <1>2, <1>3

\* Only create_or_resume_operation gives a request its operation.
LEMMA OpKept ==
  ASSUME TypeInv, NEW r \in Requests, Progress(r) \/ AcquireLock(r),
         ~FindOperation(r), ~CreateOperation(r), pc'[r] # "idle"
  PROVE  req'[r].op = req[r].op
<1>0. /\ pc \in [Requests -> Labels] /\ req[r] \in RequestRecords
      /\ req \in [Requests -> RequestRecords]
  BY RequestTyped DEF TypeInv, TypeOK
<1> DEFINE One(q) ==
             \E x : \/ q = [req[r] EXCEPT !.outcome = x]
                   \/ q = [req[r] EXCEPT !.todo = x] \/ q = [req[r] EXCEPT !.known = x]
           Two(q) ==
             \E x, y : \/ q = [req[r] EXCEPT !.panel = x, !.answer = y]
                      \/ q = [req[r] EXCEPT !.todo = x, !.panel = y]
                      \/ q = [req[r] EXCEPT !.todo = x, !.pending = y]
                      \/ q = [req[r] EXCEPT !.todo = x, !.wrote = y]
           Three(q) ==
             \E x, y, z : q = [req[r] EXCEPT !.todo = x, !.panel = y, !.wrote = z]
<1>1. ASSUME NEW q, One(q) PROVE q.op = req[r].op
  BY <1>0, <1>1 DEF RequestRecords
<1>2. ASSUME NEW q, Two(q) PROVE q.op = req[r].op
  <2>1. ASSUME NEW x, NEW y, q = [req[r] EXCEPT !.panel = x, !.answer = y]
        PROVE  q.op = req[r].op
    BY <1>0, <2>1 DEF RequestRecords
  <2>2. ASSUME NEW x, NEW y, q = [req[r] EXCEPT !.todo = x, !.panel = y]
        PROVE  q.op = req[r].op
    BY <1>0, <2>2 DEF RequestRecords
  <2>3. ASSUME NEW x, NEW y, q = [req[r] EXCEPT !.todo = x, !.pending = y]
        PROVE  q.op = req[r].op
    BY <1>0, <2>3 DEF RequestRecords
  <2>4. ASSUME NEW x, NEW y, q = [req[r] EXCEPT !.todo = x, !.wrote = y]
        PROVE  q.op = req[r].op
    BY <1>0, <2>4 DEF RequestRecords
  <2> QED BY <1>2, <2>1, <2>2, <2>3, <2>4
<1>3. ASSUME NEW q, Three(q) PROVE q.op = req[r].op
  BY <1>0, <1>3 DEF RequestRecords
<1>4. CASE \E p \in Panels : \/ SendRemove(r, p) \/ SkipKnown(r, p)
                             \/ RefuseWrite(r, p) \/ SendAdd(r, p)
                             \/ RecordWritten(r, p)
  <2>1. ASSUME NEW p \in Panels, SendRemove(r, p) \/ SendAdd(r, p)
        PROVE  Two(req'[r])
    <3>1. \E a \in CrmAnswers :
            req' = [req EXCEPT ![r] = [req[r] EXCEPT !.panel = p,
                                                     !.answer = a.confirmed]]
      BY <2>1 DEF SendRemove, SendAdd, Update
    <3>2. PICK a \in CrmAnswers :
            req'[r] = [req[r] EXCEPT !.panel = p, !.answer = a.confirmed]
      BY <1>0, <3>1
    <3> QED BY ZenonT(60), <3>2
  <2>2. ASSUME NEW p \in Panels, SkipKnown(r, p) PROVE Two(req'[r])
    BY <1>0, <2>2 DEF SkipKnown, Update
  <2>3. ASSUME NEW p \in Panels, RefuseWrite(r, p) \/ RecordWritten(r, p)
        PROVE  One(req'[r])
    BY <1>0, <2>3 DEF RefuseWrite, RecordWritten, Update
  <2> HIDE DEF One, Two
  <2> QED BY <1>1, <1>2, <1>4, <2>1, <2>2, <2>3
<1>5. CASE \/ ResumeOperation(r) \/ MarkPending(r) \/ RecordRow(r)
           \/ EndDelete(r) \/ Finalize(r) \/ SkipFinalize(r) \/ AssignNew(r)
           \/ CloneAccesses(r) \/ Answer(r)
  BY <1>0, <1>5 DEF ResumeOperation, MarkPending, RecordRow, EndDelete, Finalize,
    SkipFinalize, AssignNew, CloneAccesses, Answer, Go
<1>6. CASE \/ FailDelete(r) \/ FinalizeRefused(r) \/ FinishReassign(r)
           \/ CompleteReplace(r) \/ CloseRelease(r) \/ FinishReplace(r)
           \/ ReturnFromWriter(r) \/ BeginDelete(r) \/ AcquireLock(r)
  <2>1. req' = req \/ One(req'[r])
    BY <1>0, <1>6 DEF FailDelete, FinalizeRefused, FinishReassign, CompleteReplace,
      CloseRelease, FinishReplace, ReturnFromWriter, BeginDelete, AcquireLock,
      Reply, Update
  <2> HIDE DEF One
  <2> QED BY <1>1, <2>1
<1>7. CASE RecordStep(r) \/ EnsureWrite(r)
  <2>1. Two(req'[r])
    <3>1. CASE RecordStep(r)
      BY <1>0, <3>1 DEF RecordStep, Update
    <3>2. CASE EnsureWrite(r)
      <4> DEFINE rest == Unfinished(EnsureSteps(Op(r).write, WriteTargets(r)))
      <4>1. req'[r] = [req[r] EXCEPT !.todo = rest, !.pending = rest]
        BY <1>0, <3>2 DEF EnsureWrite, Update
      <4> QED BY <4>1
    <3> QED BY <1>7, <3>1, <3>2
  <2> HIDE DEF Two
  <2> QED BY <1>2, <2>1
<1>8. CASE RecordAdd(r)
  <2>1. Three(req'[r])
    BY <1>0, <1>8 DEF RecordAdd, Update
  <2> HIDE DEF Three
  <2> QED BY <1>3, <2>1
<1> HIDE DEF One, Two, Three
<1> QED BY <1>4, <1>5, <1>6, <1>7, <1>8 DEF Progress

\* A request that goes on keeps its operation open until its reply.
LEMMA StaysOpen ==
  ASSUME TypeInv, Plans, NEW r \in Requests, Acts(r), OpenOp(r),
         Progress(r) \/ AcquireLock(r), HasOp(r)' => HasOp(r),
         pc'[r] \notin {"idle", "persist", "mark", "recordStep"},
         pc[r] \notin {"find", "persist"},
         HasOp(r) => \/ UNCHANGED ops \/ DeleteTodo(r) # {}
                    \/ (Op(r).status)' # "completed"
  PROVE  OpenOp(r)'
<1>1. req'[r].kind \in Kinds
  BY KindKept DEF OpenOp
<1>2. HasOp(r)' => (Op(r).status)' # "completed"
  <2> SUFFICES ASSUME HasOp(r) PROVE (Op(r).status)' # "completed"
    OBVIOUS
  <2>1. ~FindOperation(r) /\ ~CreateOperation(r)
    BY DEF FindOperation, CreateOperation
  <2>2. req[r].op \in DOMAIN ops /\ Op(r)' = ops'[req[r].op]
    BY <2>1, PlanFacts, OpKept DEF Op
  <2>3. Op(r).status # "completed"
    BY DEF OpenOp
  <2> QED BY <2>1, <2>2, <2>3, OpsMove DEF OpMoves, Op
<1> QED BY <1>1, <1>2 DEF OpenOp

\* A step that stores a status or some steps, and what it leaves of the operation.
LEMMA OpRewritten ==
  ASSUME TypeInv, Plans, NEW r \in Requests, HasOp(r), Progress(r),
         pc[r] \notin {"find", "persist"}, pc'[r] # "idle",
         NEW u, ChangeOperation(req[r].op, u)
  PROVE  Op(r)' = u
<1>1. req'[r].op = req[r].op
  BY OpKept DEF FindOperation, CreateOperation
<1> QED BY SMTT(60), <1>1, PlanFacts DEF ChangeOperation, Op, TypeInv, TypeOK, StoreTypeOK

\* Every step of a request leaves it with an open operation, or none.
LEMMA OpenStep ==
  ASSUME TypeInv, "reassign" \notin Kinds, Plans, NEW r \in Requests, Acts(r),
         OpenOp(r)
  PROVE  OpenOp(r)'
<1>0. /\ pc \in [Requests -> Labels] /\ req[r] \in RequestRecords
      /\ req \in [Requests -> RequestRecords]
  BY PlanFacts
<1> USE DEF DeleteLabels, ReplaceLabels, WriterLabels
<1>1. CASE Begin(r)
  <2>1. /\ pc'[r] = "find" \/ (pc'[r] = "lock" /\ req'[r].kind \in {"write", "add"})
        /\ req'[r].kind \in Kinds
    BY <1>1, BeganWith
  <2> QED BY <2>1 DEF OpenOp, HasOp, OpTypes
<1>2. CASE FindOperation(r) \/ ResumeOperation(r) \/ CreateOperation(r)
  BY <1>2, OpenedStep
<1>3. CASE RecordRow(r)
  <2>1. /\ pc[r] = "recordRow" /\ pc'[r] = "recordStep" /\ UNCHANGED <<ops, req>>
    BY <1>0, <1>3 DEF RecordRow, Go
  <2>2. req[r].answer => row'[req[r].key][req[r].panel] = "removed"
    <3>1. req[r].key \in Keys /\ req[r].panel \in Panels
      BY <2>1, OwnKeys DEF TypeInv, RequestOK, CallLabels
    <3> QED BY <1>3, <3>1 DEF RecordRow, RecordPanelDelete, TypeInv, TypeOK,
                              StoreTypeOK
  <2>3. HasOp(r) /\ Op(r)' = Op(r)
    BY <2>1 DEF HasOp, Op
  <2> QED BY <2>1, <2>2, <2>3 DEF OpenOp
<1>4. CASE \/ FailDelete(r) \/ FinalizeRefused(r) \/ FinishReassign(r)
           \/ CompleteReplace(r) \/ Answer(r) \/ Crash(r)
           \/ pc'[r] \in {"idle", "reply"}
  <2>1. pc'[r] \in {"idle", "reply"}
    BY <1>0, <1>4 DEF FailDelete, FinalizeRefused, FinishReassign, CompleteReplace,
                      Answer, Crash, Reply, Go
  <2>2. pc'[r] # "idle" => req'[r].kind \in Kinds
    BY KindKept DEF OpenOp
  <2> QED BY <2>1, <2>2 DEF OpenOp, HasOp
<1>5. CASE \/ MarkPending(r) \/ EndDelete(r) \/ Finalize(r) \/ SkipFinalize(r)
           \/ (FinishReplace(r) /\ ~WriteIncomplete(r)) \/ AssignNew(r)
           \/ CloneAccesses(r)
  <2>1. /\ pc'[r] \in {"begin", "finalize", "ensure", "close", "assignNew", "clone",
                       "complete"}
        /\ pc[r] \in {"mark", "delete", "finalize", "recordSteps", "assignNew", "clone"}
        /\ UNCHANGED <<ops, req>>
    BY <1>0, <1>5 DEF MarkPending, EndDelete, Finalize, SkipFinalize, FinishReplace,
                      AssignNew, CloneAccesses, Go, store
  <2>2. HasOp(r)
    BY <2>1 DEF HasOp
  <2> QED BY <1>5, <2>1, <2>2, StaysOpen DEF Progress
<1>6. CASE BeginDelete(r)
  <2> DEFINE delete == EnsureSteps(Op(r).delete, Op(r).source)
             u == [Op(r) EXCEPT !.status = "deleting", !.delete = delete]
  <2>1. /\ pc[r] = "begin" /\ pc'[r] = "delete" /\ ChangeOperation(req[r].op, u)
    BY <1>0, <1>6 DEF BeginDelete, Go, Update
  <2>3. HasOp(r) /\ Op(r) \in Operations
    BY <2>1, PlanFacts DEF HasOp
  <2> HIDE DEF delete
  <2>4. u.status = "deleting"
    BY <2>3 DEF Operations
  <2> HIDE DEF u
  <2>5. Op(r)' = u
    BY <1>6, <2>1, <2>3, OpRewritten DEF Progress
  <2> QED BY <1>6, <2>1, <2>3, <2>4, <2>5, StaysOpen DEF Progress
<1>7. ASSUME NEW p \in Panels, SendRemove(r, p) PROVE OpenOp(r)'
  <2>1. /\ pc[r] = "delete" /\ pc'[r] = "recordRow" /\ ops' = ops
    BY <1>0, <1>7 DEF SendRemove, Go, Update, store
  <2>3. HasOp(r)
    BY <2>1 DEF HasOp
  <2> QED BY <1>7, <2>1, <2>3, StaysOpen DEF Progress
<1>8. CASE RecordStep(r)
  <2>1. /\ pc[r] = "recordStep" /\ pc'[r] = "delete"
    BY <1>0, <1>8 DEF RecordStep, Go, Update
  <2>3. HasOp(r) /\ DeleteTodo(r) # {}
    BY <2>1, NothingWrittenYet DEF HasOp
  <2> QED BY <1>8, <2>1, <2>3, StaysOpen DEF Progress
<1>9. CASE CloseRelease(r) /\ pc'[r] # "reply"
  <2> DEFINE u == [Op(r) EXCEPT !.status = "writing"]
  <2>1. /\ pc[r] = "close" /\ pc'[r] = "ensure" /\ req' = req
        /\ ChangeOperation(req[r].op, u)
    BY <1>0, <1>9 DEF CloseRelease, SetOperationStatus, Reply, Go, Op
  <2>2. HasOp(r) /\ Op(r) \in Operations
    BY <2>1, PlanFacts DEF HasOp
  <2>3. u.status = "writing"
    BY <2>2 DEF Operations
  <2> HIDE DEF u
  <2>4. Op(r)' = u
    BY <1>9, <2>1, <2>2, OpRewritten DEF Progress
  <2> QED BY <1>9, <2>1, <2>2, <2>3, <2>4, StaysOpen DEF Progress
<1>10. CASE EnsureWrite(r)
  <2> DEFINE write == EnsureSteps(Op(r).write, WriteTargets(r))
             status == IF req[r].kind = "replace" THEN "writing" ELSE Op(r).status
             u == [Op(r) EXCEPT !.write = write, !.status = status]
  <2>1. /\ pc[r] = "ensure" /\ pc'[r] \in {"lock", "recordSteps"}
        /\ ChangeOperation(req[r].op, u)
    BY <1>0, <1>10 DEF EnsureWrite, Go, Update
  <2>3. HasOp(r) /\ Op(r) \in Operations
    BY <2>1, PlanFacts DEF HasOp
  <2>4. status # "completed"
    BY <2>1, <2>3 DEF OpenOp
  <2> HIDE DEF write, status
  <2>5. u.status = status
    BY <2>3 DEF Operations
  <2> HIDE DEF u
  <2>6. Op(r)' = u
    BY <1>10, <2>1, <2>3, OpRewritten DEF Progress
  <2> QED BY <1>10, <2>1, <2>3, <2>4, <2>5, <2>6, StaysOpen DEF Progress
<1>11. ASSUME NEW p \in Panels, RecordWritten(r, p) PROVE OpenOp(r)'
  <2> DEFINE write == [Op(r).write EXCEPT ![p] = StepResult(p \in req[r].wrote)]
             u == [Op(r) EXCEPT !.write = write]
  <2>1. /\ pc[r] = "recordSteps" /\ pc'[r] = "recordSteps"
        /\ ChangeOperation(req[r].op, u)
    BY <1>0, <1>11 DEF RecordWritten, RecordWriteStep, Update, Op
  <2>3. HasOp(r) /\ Op(r) \in Operations
    BY <2>1, PlanFacts DEF HasOp
  <2> HIDE DEF write
  <2>4. u.status = Op(r).status /\ Op(r).status # "completed"
    BY <2>1, <2>3 DEF Operations, OpenOp
  <2> HIDE DEF u
  <2>5. Op(r)' = u
    BY <1>11, <2>1, <2>3, OpRewritten DEF Progress
  <2> QED BY <1>11, <2>1, <2>3, <2>4, <2>5, StaysOpen DEF Progress
<1>12. CASE \/ AcquireLock(r) \/ RecordAdd(r)
            \/ \E p \in Panels : SkipKnown(r, p) \/ RefuseWrite(r, p) \/ SendAdd(r, p)
            \/ (ReturnFromWriter(r) /\ pc'[r] # "reply")
  <2>1. /\ pc[r] \in WriterLabels /\ pc'[r] \in {"write", "recordAdd", "recordSteps"}
        /\ ops' = ops
    BY ZenonT(60), <1>0, <1>12 DEF AcquireLock, RecordAdd, SkipKnown, RefuseWrite, SendAdd,
                       ReturnFromWriter, Reply, Go, store
  <2>2. pc'[r] = "recordSteps" => req[r].kind \notin {"write", "add"}
    BY <1>0, <1>12 DEF AcquireLock, RecordAdd, SkipKnown, RefuseWrite, SendAdd,
                       ReturnFromWriter, Reply, Go, store
  <2>3. HasOp(r)' => HasOp(r)
    <3>1. req'[r].kind = req[r].kind
      BY <1>12, <2>1, KeysKept DEF SameKeys, Progress
    <3> QED BY <2>1, <2>2, <3>1, PlanFacts DEF HasOp, RequestOK, RequestRecords
  <2> QED BY <1>12, <2>1, <2>3, StaysOpen DEF Progress
<1>13. CASE FinishReplace(r) /\ WriteIncomplete(r)
  BY <1>0, <1>4, <1>13 DEF FinishReplace, Reply, Go
<1> QED
  BY <1>1, <1>2, <1>3, <1>4, <1>5, <1>6, <1>7, <1>8, <1>9, <1>10, <1>11, <1>12, <1>13
  DEF Acts, Progress

\* Only create_or_resume_operation puts an operation on the books.
LEMMA OpsChange ==
  ASSUME TypeInv, NEW r \in Requests, Acts(r), ~CreateOperation(r)
  PROVE  DOMAIN ops' = DOMAIN ops
<1>1. CASE Begin(r)
  BY <1>1, BeganWith DEF store
<1>2. CASE \/ BeginDelete(r) \/ RecordStep(r) \/ FailDelete(r)
           \/ CloseRelease(r) \/ EnsureWrite(r) \/ FinishReassign(r)
           \/ FinishReplace(r) \/ CompleteReplace(r)
           \/ \E p \in Panels : RecordWritten(r, p)
  <2>1. UNCHANGED ops \/ \E u : ChangeOperation(req[r].op, u)
    BY <1>2 DEF BeginDelete, RecordStep, FailDelete, CloseRelease, EnsureWrite,
      FinishReassign, FinishReplace, CompleteReplace, RecordWritten,
      SetOperationStatus, RecordDeleteStep, RecordWriteStep
  <2> QED BY SMTT(60), <2>1 DEF ChangeOperation
<1>3. CASE \/ AcquireLock(r) \/ Crash(r) \/ FindOperation(r)
           \/ ResumeOperation(r) \/ MarkPending(r) \/ RecordRow(r)
           \/ EndDelete(r) \/ Finalize(r) \/ FinalizeRefused(r)
           \/ SkipFinalize(r) \/ RecordAdd(r) \/ ReturnFromWriter(r)
           \/ AssignNew(r) \/ CloneAccesses(r) \/ Answer(r)
           \/ \E p \in Panels : \/ SendRemove(r, p) \/ SkipKnown(r, p)
                                \/ RefuseWrite(r, p) \/ SendAdd(r, p)
  BY <1>3 DEF AcquireLock, Crash, FindOperation, ResumeOperation, MarkPending,
    RecordRow, EndDelete, Finalize, FinalizeRefused, SkipFinalize, RecordAdd,
    ReturnFromWriter, AssignNew, CloneAccesses, Answer, SendRemove, SkipKnown,
    RefuseWrite, SendAdd, store
<1> QED BY <1>1, <1>2, <1>3 DEF Acts, Progress

\* No operation is ever taken off the books.
LEMMA OpsStay ==
  ASSUME TypeInv, NEW r \in Requests, Acts(r)
  PROVE  DOMAIN ops \subseteq DOMAIN ops'
BY OpsChange, Created

\* A row that waits for its deletion, and still does after the step, is on an
\* operation after the step: a confirmed deletion reaches the row before the
\* operation, an operation is closed when it has nothing left to delete, and one
\* that no longer fits hands what is on the books to the one that replaces it.
LEMMA OwnedKept ==
  ASSUME TypeInv, Plans, NEW r \in Requests, Acts(r), OpenOp(r),
         NEW k \in Keys, NEW p \in Panels, Owned(k, p),
         row[k][p] = "pending_delete", row'[k][p] = "pending_delete"
  PROVE  Owned(k, p)'
<1>1. PICK i \in DOMAIN ops : /\ ops[i].old = k /\ ops[i].status # "completed"
                              /\ p \in ops[i].source \ Done(ops[i].delete)
  BY DEF Owned
<1>2. OpMoves(r, i) /\ i \in DOMAIN ops'
  BY OpsMove, OpsStay
<1>3. CASE CreateOperation(r) /\ i = req[r].op
  <2> DEFINE n == Len(ops) + 1
  <2>1. req[r].op # 0 /\ pc[r] = "persist"
    BY <1>3, PlanFacts DEF CreateOperation, HasOp, TypeInv, TypeOK, StoreTypeOK
  <2>2. req[r].key = k /\ req[r].panels = Live(k)
    BY <1>1, <1>3, <2>1, PlanFacts DEF Plan, Owns, ReadFits, HasOp, Op
  <2>3. n \in DOMAIN ops' /\ ops'[n] = NewOperation(req[r])
    BY <1>3, Created
  <2>4. /\ ops'[n].old = k /\ ops'[n].status = "pending"
        /\ ops'[n].source = Live(k) /\ ops'[n].delete = NoSteps
    BY <2>2, <2>3 DEF NewOperation
  <2>5. p \in Live(k) /\ Done(NoSteps) = {}
    BY DEF Live, LiveStates, Done, NoSteps
  <2> QED BY <2>3, <2>4, <2>5 DEF Owned, Done
<1>4. CASE ~(CreateOperation(r) /\ i = req[r].op)
  <2>1. ops'[i].status # "completed"
    BY <1>1, <1>2, <1>4 DEF OpMoves, DeleteTodo, Op
  <2>2. ASSUME RecordStep(r), i = req[r].op, req[r].answer PROVE p # req[r].panel
    <3>1. pc[r] = "recordStep" /\ HasOp(r)
      BY <2>2 DEF RecordStep, HasOp, DeleteLabels
    <3>2. req[r].key = k
      BY <1>1, <2>2, <3>1, PlanFacts DEF Plan, Owns, Op
    <3> QED BY <2>2, <3>1, <3>2 DEF OpenOp
  <2>3. p \notin Done(ops'[i].delete)
    BY <1>1, <1>2, <2>2 DEF OpMoves
  <2> QED BY <1>1, <1>2, <2>1, <2>3 DEF Owned, OpMoves, Done
<1> QED BY <1>3, <1>4

\* Only mark_panels_pending_delete sets a row waiting, for an operation that is
\* going to delete it.
LEMMA NewlyOwned ==
  ASSUME TypeInv, Plans, NEW r \in Requests, Acts(r), OpenOp(r),
         NEW k \in Keys, NEW p \in Panels,
         row[k][p] # "pending_delete", row'[k][p] = "pending_delete"
  PROVE  Owned(k, p)'
<1>0. row \in [Keys -> [Panels -> RowStates]]
  BY DEF TypeInv, TypeOK, StoreTypeOK
<1>1. CASE MarkPending(r)
  <2>1. /\ pc[r] = "mark" /\ HasOp(r) /\ ops' = ops
        /\ req[r].key \in Keys
    BY <1>1, OwnKeys DEF MarkPending, HasOp, DeleteLabels
  <2>2. k = req[r].key /\ p \in Op(r).source \cap Live(k)
    BY <1>0, <1>1, <2>1 DEF MarkPending, MarkPanelsPendingDelete
  <2>3. p \in DeleteTodo(r) /\ Op(r).status # "completed"
    BY <2>1, <2>2 DEF OpenOp
  <2>4. req[r].op \in DOMAIN ops /\ Op(r).old = k
    BY <2>1, <2>2, PlanFacts DEF Plan, Owns
  <2> QED BY <2>1, <2>3, <2>4 DEF Owned, Op, DeleteTodo, Done
<1>2. CASE RecordRow(r)
  <2>1. req[r].key \in Keys
    BY <1>2, OwnKeys DEF RecordRow
  <2> QED BY <1>0, <1>2, <2>1 DEF RecordRow, RecordPanelDelete
<1>3. CASE RecordAdd(r) \/ \E q \in Panels : RefuseWrite(r, q)
  <2>1. WriteKey(r) \in Keys
    BY <1>3, OwnKeys DEF RecordAdd, RefuseWrite
  <2>2. PICK q, success : RecordPanelWrite(WriteKey(r), q, success)
    <3>1. CASE RecordAdd(r)
      BY <3>1 DEF RecordAdd
    <3>2. CASE \E q \in Panels : RefuseWrite(r, q)
      BY <3>2 DEF RefuseWrite
    <3> QED BY <1>3, <3>1, <3>2
  <2> QED BY <1>0, <2>1, <2>2 DEF RecordPanelWrite
<1>4. CASE \/ Begin(r) \/ AcquireLock(r) \/ Crash(r)
           \/ \E q \in Panels : \/ SendRemove(r, q) \/ SkipKnown(r, q)
                                \/ SendAdd(r, q) \/ RecordWritten(r, q)
           \/ FindOperation(r) \/ ResumeOperation(r) \/ CreateOperation(r)
           \/ BeginDelete(r) \/ RecordStep(r) \/ FailDelete(r) \/ EndDelete(r)
           \/ Finalize(r) \/ FinalizeRefused(r) \/ SkipFinalize(r)
           \/ CloseRelease(r) \/ EnsureWrite(r) \/ ReturnFromWriter(r)
           \/ FinishReassign(r) \/ FinishReplace(r) \/ AssignNew(r)
           \/ CloneAccesses(r) \/ CompleteReplace(r) \/ Answer(r)
  <2>1. UNCHANGED row
    BY <1>4, BeganWith DEF AcquireLock, Crash, SendRemove, SkipKnown, SendAdd,
      RecordWritten, FindOperation, ResumeOperation, CreateOperation, BeginDelete,
      RecordStep, FailDelete, EndDelete, Finalize, FinalizeRefused, SkipFinalize,
      CloseRelease, EnsureWrite, ReturnFromWriter, FinishReassign, FinishReplace,
      AssignNew, CloneAccesses, CompleteReplace, Answer, store
  <2> QED BY <2>1
<1> QED BY <1>1, <1>2, <1>3, <1>4 DEF Acts, Progress

\* Without overlap, and as long as nobody resumes a reassignment, every row that
\* waits for its deletion is on an open operation that has still to delete it.
THEOREM AheadInvariance ==
  ASSUME ~Overlap, "reassign" \notin Kinds
  PROVE  Spec => [](TypeInv /\ Books /\ Plans /\ Ahead)
<1>1. Init => Ahead
  <2> SUFFICES ASSUME Init PROVE Ahead
    OBVIOUS
  <2>1. ASSUME NEW r \in Requests PROVE OpenOp(r)
    BY DEF Init, OpenOp, HasOp, DeleteLabels, ReplaceLabels, WriterLabels
  <2>2. ASSUME NEW k \in Keys, NEW p \in Panels PROVE row[k][p] # "pending_delete"
    BY DEF Init, StoreInit
  <2> QED BY <2>1, <2>2 DEF Ahead
<1>2. TypeInv /\ Books /\ Plans /\ Ahead /\ [Next]_vars => Ahead'
  <2> SUFFICES ASSUME TypeInv, Books, Plans, Ahead, [Next]_vars PROVE Ahead'
    OBVIOUS
  <2>1. ASSUME NEW r \in Requests, Acts(r) PROVE Ahead'
    <3>1. \A s \in Requests : OpenOp(s)
      BY DEF Ahead
    <3>2. ASSUME NEW s \in Requests PROVE OpenOp(s)'
      BY <2>1, <3>1, OpenStep, OpenFrame DEF Books
    <3>3. ASSUME NEW k \in Keys, NEW p \in Panels, row'[k][p] = "pending_delete"
          PROVE  Owned(k, p)'
      BY <2>1, <3>1, <3>3, OwnedKept, NewlyOwned DEF Ahead
    <3> QED BY <3>2, <3>3 DEF Ahead
  <2>2. CASE UNCHANGED <<row, pc, req, ops>>
    BY <2>2 DEF Ahead, OpenOp, Owned, HasOp, Op, DeleteTodo, Done, Live
  <2>3. (\E k \in Keys, where \in Places : AssignLocally(k, where))
          \/ UNCHANGED vars => UNCHANGED <<row, pc, req, ops>>
    BY DEF AssignLocally, vars, store
  <2> QED BY <2>1, <2>2, <2>3, NextActs
<1> QED BY <1>1, <1>2, PlansInvariance, PTL DEF Spec

\* A row of key_panel_states left "pending_delete", by a crash, by a failure or
\* by a delete at work, is never an orphan: somebody is going to delete it.
THEOREM DeletionsAreAhead ==
  ASSUME ~Overlap, "reassign" \notin Kinds PROVE Spec => []PendingDeleteIsOwned
<1>1. Ahead => PendingDeleteIsOwned
  BY DEF Ahead, Owned, PendingDeleteIsOwned
<1> QED BY <1>1, AheadInvariance, PTL
-----------------------------------------------------------------------------
(* What a replacement carries over.                                        *)

\* The labels before a request has looked at the panels of the key it writes.
Early == {"find", "persist"} \cup (DeleteLabels \ {"recordSteps"})

\* The writer counts what is on the books, an attempt that goes on has its own
\* pair of keys, and a replacement gets to its end only when everything it was
\* to write is confirmed.
Carries(r) ==
  /\ pc[r] \in Early => req[r].wrote = {} /\ req[r].known = {}
  /\ pc[r] = "lock" => req[r].wrote = {}
  /\ pc[r] \in WriterLabels \cup {"recordSteps"} =>
       req[r].known \cup req[r].wrote \subseteq Live(WriteKey(r))
  /\ pc[r] = "recordAdd" => req[r].panel \notin Live(WriteKey(r))
  /\ pc[r] # "idle" /\ req[r].kind = "replace" => req[r].key # req[r].new
  /\ pc[r] = "close" => req[r].kind # "replace"
  /\ HasOp(r) => Op(r).new = req[r].new
  /\ pc[r] \in WriterLabels \cup {"recordSteps"} /\ req[r].kind = "replace" =>
       \A p \in Op(r).source : Op(r).write[p] # "absent"
  /\ pc[r] \in ReplaceLabels \/ Replaced(r) =>
       /\ req[r].op \in DOMAIN ops /\ Op(r).type = "replace"
       /\ Op(r).old = req[r].key /\ Op(r).new = req[r].new
       /\ Op(r).source \subseteq Done(Op(r).write)

\* The operation that took a row off its panel is on file.
OnFile == \A k \in Keys, p \in Panels : row[k][p] = "removed" =>
  \E i \in DOMAIN ops : ops[i].old = k /\ p \in ops[i].source

\* What a replacement has written stays on its new key as long as that key has
\* no operation of its own.
WrittenStays == \A i \in DOMAIN ops : ops[i].type = "replace" =>
  /\ ops[i].new \in Keys
  /\ (\A j \in DOMAIN ops : ops[j].old # ops[i].new) =>
       Done(ops[i].write) \subseteq Live(ops[i].new)

Carried == OnFile /\ WrittenStays /\ \A r \in Requests : Carries(r)

\* Only the writer changes what a request knows and has written.
LEMMA ReadingKept ==
  ASSUME TypeInv, NEW r \in Requests, Progress(r) \/ AcquireLock(r),
         pc'[r] # "idle"
  PROVE  /\ req'[r].wrote = req[r].wrote
              \/ RecordAdd(r) \/ \E p \in Panels : SkipKnown(r, p)
         /\ req'[r].known = req[r].known \/ AcquireLock(r)
<1>0. /\ pc \in [Requests -> Labels] /\ req[r] \in RequestRecords
      /\ req \in [Requests -> RequestRecords]
  BY RequestTyped DEF TypeInv, TypeOK
<1> DEFINE Keeps(q) == q.wrote = req[r].wrote /\ q.known = req[r].known
           One(q) ==
             \E x : \/ q = [req[r] EXCEPT !.outcome = x]
                   \/ q = [req[r] EXCEPT !.todo = x] \/ q = [req[r] EXCEPT !.op = x]
           Two(q) ==
             \E x, y : \/ q = [req[r] EXCEPT !.panel = x, !.answer = y]
                      \/ q = [req[r] EXCEPT !.todo = x, !.panel = y]
                      \/ q = [req[r] EXCEPT !.todo = x, !.pending = y]
           Three(q) ==
             \E x, y, z : q = [req[r] EXCEPT !.op = x, !.resume = y, !.loaded = z]
<1>1. ASSUME NEW q, One(q) PROVE Keeps(q)
  BY <1>0, <1>1 DEF RequestRecords
<1>2. ASSUME NEW q, Two(q) PROVE Keeps(q)
  <2>1. ASSUME NEW x, NEW y, q = [req[r] EXCEPT !.panel = x, !.answer = y]
        PROVE  Keeps(q)
    BY <1>0, <2>1 DEF RequestRecords
  <2>2. ASSUME NEW x, NEW y, q = [req[r] EXCEPT !.todo = x, !.panel = y]
        PROVE  Keeps(q)
    BY <1>0, <2>2 DEF RequestRecords
  <2>3. ASSUME NEW x, NEW y, q = [req[r] EXCEPT !.todo = x, !.pending = y]
        PROVE  Keeps(q)
    BY <1>0, <2>3 DEF RequestRecords
  <2> QED BY <1>2, <2>1, <2>2, <2>3
<1>3. ASSUME NEW q, Three(q) PROVE Keeps(q)
  BY <1>0, <1>3 DEF RequestRecords
<1>4. CASE \E p \in Panels : SendRemove(r, p) \/ SendAdd(r, p)
  <2>1. PICK p \in Panels, a \in CrmAnswers :
          req' = [req EXCEPT ![r] = [req[r] EXCEPT !.panel = p,
                                                   !.answer = a.confirmed]]
    BY <1>4 DEF SendRemove, SendAdd, Update
  <2>2. req'[r] = [req[r] EXCEPT !.panel = p, !.answer = a.confirmed]
    BY <1>0, <2>1
  <2>3. Two(req'[r])
    BY <2>2
  <2> HIDE DEF Two
  <2> QED BY SMTT(60), <1>2, <2>3
<1>5. CASE \E p \in Panels : RefuseWrite(r, p) \/ RecordWritten(r, p)
  <2>1. One(req'[r])
    BY <1>0, <1>5 DEF RefuseWrite, RecordWritten, Update
  <2> HIDE DEF One
  <2> QED BY <1>1, <2>1
<1>6. CASE \/ ResumeOperation(r) \/ MarkPending(r) \/ RecordRow(r)
           \/ EndDelete(r) \/ Finalize(r) \/ SkipFinalize(r) \/ AssignNew(r)
           \/ CloneAccesses(r) \/ Answer(r)
  BY <1>0, <1>6 DEF ResumeOperation, MarkPending, RecordRow, EndDelete, Finalize,
    SkipFinalize, AssignNew, CloneAccesses, Answer, Go
<1>7. CASE \/ FailDelete(r) \/ FinalizeRefused(r) \/ FinishReassign(r)
           \/ CompleteReplace(r) \/ CloseRelease(r) \/ FinishReplace(r)
           \/ ReturnFromWriter(r) \/ BeginDelete(r) \/ CreateOperation(r)
  <2>1. req' = req \/ One(req'[r])
    BY <1>0, <1>7 DEF FailDelete, FinalizeRefused, FinishReassign, CompleteReplace,
      CloseRelease, FinishReplace, ReturnFromWriter, BeginDelete, CreateOperation,
      Reply, Update
  <2> HIDE DEF One
  <2> QED BY <1>1, <2>1
<1>8. CASE RecordStep(r)
  <2>1. Two(req'[r])
    BY <1>0, <1>8 DEF RecordStep, Update
  <2> HIDE DEF Two
  <2> QED BY <1>2, <2>1
<1>9. CASE EnsureWrite(r)
  <2> DEFINE rest == Unfinished(EnsureSteps(Op(r).write, WriteTargets(r)))
  <2>1. req'[r] = [req[r] EXCEPT !.todo = rest, !.pending = rest]
    BY <1>0, <1>9 DEF EnsureWrite, Update
  <2>2. Two(req'[r])
    BY <2>1
  <2> HIDE DEF Two
  <2> QED BY <1>2, <2>2
<1>10. CASE FindOperation(r)
  <2>1. Three(req'[r])
    BY <1>0, <1>10 DEF FindOperation, Update
  <2> HIDE DEF Three
  <2> QED BY <1>3, <2>1
<1>11. CASE RecordAdd(r)
  <2>1. \E x, y, z : req'[r] = [req[r] EXCEPT !.todo = x, !.panel = y, !.wrote = z]
    BY <1>0, <1>11 DEF RecordAdd, Update
  <2> QED BY <1>0, <1>11, <2>1 DEF RequestRecords
<1>12. CASE \E p \in Panels : SkipKnown(r, p)
  <2>1. \E x, y : req'[r] = [req[r] EXCEPT !.todo = x, !.wrote = y]
    <3>1. PICK p \in Panels : SkipKnown(r, p)
      BY <1>12
    <3> DEFINE after == [req[r] EXCEPT !.todo = @ \ {p}, !.wrote = @ \cup {p}]
    <3>2. after = [req[r] EXCEPT !.todo = req[r].todo \ {p}, !.wrote = req[r].wrote \cup {p}]
      OBVIOUS
    <3>3. \E x, y : after = [req[r] EXCEPT !.todo = x, !.wrote = y]
      BY <3>2
    <3>4. req' = [req EXCEPT ![r] = after]
      BY <3>1 DEF SkipKnown, Update
    <3> HIDE DEF after
    <3>5. req'[r] = after
      BY <1>0, <3>4
    <3> QED BY <3>3, <3>5
  <2> QED BY <1>0, <1>12, <2>1 DEF RequestRecords
<1>13. CASE AcquireLock(r)
  <2>1. \E x : req'[r] = [req[r] EXCEPT !.known = x]
    BY <1>0, <1>13 DEF AcquireLock, Update
  <2> QED BY <1>0, <1>13, <2>1 DEF RequestRecords
<1> HIDE DEF One, Two, Three
<1> QED BY <1>4, <1>5, <1>6, <1>7, <1>8, <1>9, <1>10, <1>11, <1>12, <1>13 DEF Progress

\* The books lose a row only to a confirmed deletion.
LEMMA RowsStay ==
  ASSUME TypeInv, Books, NEW r \in Requests, Carries(r), Acts(r), NEW k \in Keys,
         ~(RecordRow(r) /\ k = req[r].key)
  PROVE  Live(k) \subseteq Live(k)'
<1>0. row \in [Keys -> [Panels -> RowStates]]
  BY DEF TypeInv, TypeOK, StoreTypeOK
<1>1. CASE RecordAdd(r)
  <2>1. /\ WriteKey(r) \in Keys /\ req[r].panel \in Panels
        /\ req[r].panel \notin Live(WriteKey(r))
    BY <1>1, OwnKeys DEF RecordAdd, Carries, TypeInv, RequestOK, CallLabels
  <2> QED BY <1>0, <1>1, <2>1 DEF RecordAdd, RecordPanelWrite, Live
<1>2. ASSUME NEW p \in Panels, RefuseWrite(r, p) PROVE Live(k) \subseteq Live(k)'
  <2>1. WriteKey(r) \in Keys /\ p \notin Live(WriteKey(r))
    BY <1>2, OwnKeys DEF RefuseWrite, Books, InHand, KnownCovers, Writing
  <2> QED BY <1>0, <1>2, <2>1 DEF RefuseWrite, RecordPanelWrite, Live, LiveStates
<1>3. CASE MarkPending(r)
  <2>1. req[r].key \in Keys
    BY <1>3, OwnKeys DEF MarkPending
  <2> QED BY <1>0, <1>3, <2>1 DEF MarkPending, MarkPanelsPendingDelete, Live,
                                 LiveStates
<1>4. CASE RecordRow(r)
  <2>1. req[r].key \in Keys /\ k # req[r].key
    BY <1>4, OwnKeys DEF RecordRow
  <2> QED BY <1>0, <1>4, <2>1 DEF RecordRow, RecordPanelDelete, Live
<1>5. CASE \/ Begin(r) \/ AcquireLock(r) \/ Crash(r)
           \/ \E q \in Panels : \/ SendRemove(r, q) \/ SkipKnown(r, q)
                                \/ SendAdd(r, q) \/ RecordWritten(r, q)
           \/ FindOperation(r) \/ ResumeOperation(r) \/ CreateOperation(r)
           \/ BeginDelete(r) \/ RecordStep(r) \/ FailDelete(r) \/ EndDelete(r)
           \/ Finalize(r) \/ FinalizeRefused(r) \/ SkipFinalize(r)
           \/ CloseRelease(r) \/ EnsureWrite(r) \/ ReturnFromWriter(r)
           \/ FinishReassign(r) \/ FinishReplace(r) \/ AssignNew(r)
           \/ CloneAccesses(r) \/ CompleteReplace(r) \/ Answer(r)
  <2>1. UNCHANGED row
    BY <1>5, BeganWith DEF AcquireLock, Crash, SendRemove, SkipKnown, SendAdd,
      RecordWritten, FindOperation, ResumeOperation, CreateOperation, BeginDelete,
      RecordStep, FailDelete, EndDelete, Finalize, FinalizeRefused, SkipFinalize,
      CloseRelease, EnsureWrite, ReturnFromWriter, FinishReassign, FinishReplace,
      AssignNew, CloneAccesses, CompleteReplace, Answer, store
  <2> QED BY <2>1 DEF Live
<1> QED BY <1>1, <1>2, <1>3, <1>4, <1>5 DEF Acts, Progress
\* A request that has its reply, or is over, and is not a replacement done.
LEMMA RestCarries ==
  ASSUME NEW r \in Requests, pc'[r] \in {"idle", "reply"}, ~Replaced(r)',
         pc'[r] = "reply" /\ req'[r].kind = "replace" => req'[r].key # req'[r].new
  PROVE  Carries(r)'
BY DEF Carries, Early, HasOp, DeleteLabels, ReplaceLabels, WriterLabels

\* The steps before the writer leave it nothing to count.
LEMMA EarlyCarries ==
  ASSUME TypeInv, Plans, NEW r \in Requests, Carries(r), Progress(r),
         pc[r] \in Early, pc'[r] \in Early \ {"find", "persist"}, HasOp(r),
         ~FindOperation(r), ~CreateOperation(r),
         pc'[r] = "close" => req[r].kind # "replace"
  PROVE  Carries(r)'
<1>1. pc[r] # "idle" /\ pc'[r] # "idle"
  BY DEF Early, DeleteLabels
<1>2. req'[r].wrote = {} /\ req'[r].known = {}
  <2>1. ~RecordAdd(r) /\ ~AcquireLock(r) /\ ~\E p \in Panels : SkipKnown(r, p)
    BY DEF RecordAdd, AcquireLock, SkipKnown, Early, DeleteLabels
  <2> QED BY <1>1, <2>1, ReadingKept DEF Carries
<1>3. SameKeys(r)
  BY <1>1, KeysKept
<1>4. (Op(r).new)' = req[r].new
  BY <1>1, OpKept, OpsMove, PlanFacts DEF Acts, OpMoves, Op, Carries
<1>5. pc'[r] \notin WriterLabels \cup ReplaceLabels \cup {"recordSteps", "reply"}
  BY DEF Early, DeleteLabels, WriterLabels, ReplaceLabels
<1> QED BY <1>1, <1>2, <1>3, <1>4, <1>5 DEF Carries, SameKeys, Replaced, WriterLabels

\* create_or_resume_operation hands out an operation for this pair of keys.
LEMMA OpenCarries ==
  ASSUME TypeInv, Plans, NEW r \in Requests, Carries(r),
         FindOperation(r) \/ ResumeOperation(r) \/ CreateOperation(r)
  PROVE  Carries(r)'
<1>0. /\ pc \in [Requests -> Labels] /\ req[r] \in RequestRecords
      /\ req \in [Requests -> RequestRecords]
  BY PlanFacts
<1>1. CASE ResumeOperation(r)
  <2>1. pc[r] = "persist" /\ pc'[r] = "mark" /\ req[r].op # 0
    BY <1>0, <1>1, PlanFacts DEF ResumeOperation, Go, RequestOK
  <2>2. ~FindOperation(r) /\ ~CreateOperation(r) /\ HasOp(r)
    BY <1>1, <2>1 DEF ResumeOperation, FindOperation, CreateOperation, HasOp
  <2> QED BY <1>1, <2>1, <2>2, EarlyCarries DEF Progress, Early, DeleteLabels
<1>2. CASE FindOperation(r) \/ CreateOperation(r)
  <2>1. /\ pc[r] \in {"find", "persist"} /\ pc'[r] \in {"persist", "mark"}
    BY <1>0, <1>2 DEF FindOperation, CreateOperation, Go
  <2>2. req'[r].wrote = {} /\ req'[r].known = {} /\ SameKeys(r)
    <3>1. ~RecordAdd(r) /\ ~AcquireLock(r) /\ ~\E p \in Panels : SkipKnown(r, p)
      BY <2>1 DEF RecordAdd, AcquireLock, SkipKnown
    <3> QED BY <1>2, <2>1, <3>1, ReadingKept, KeysKept DEF Carries, Early, Progress
  <2>3. HasOp(r)' => (Op(r).new)' = req[r].new
    <3>1. CASE CreateOperation(r)
      <4>1. req'[r] = [req[r] EXCEPT !.op = Len(ops) + 1]
        BY <1>0, <3>1 DEF CreateOperation, Update
      <4>2. req'[r].op = Len(ops) + 1
        BY <1>0, <4>1, SMTT(60) DEF RequestRecords
      <4>3. Op(r)' = NewOperation(req[r])
        BY <3>1, <4>2, Created DEF Op
      <4>4. (Op(r).new)' = req[r].new
        BY <4>3 DEF NewOperation
      <4> QED BY <4>4
    <3>2. CASE FindOperation(r)
      <4> DEFINE j == LatestOperation(req[r].kind, req[r].key, req[r].new)
                 resume == j # 0 /\ CanResume(ops[j], req[r])
                 loaded == IF resume THEN ops[j].status ELSE "pending"
      <4>1. /\ req'[r] = [req[r] EXCEPT !.op = j, !.resume = resume,
                                        !.loaded = loaded]
            /\ pc'[r] = "persist" /\ ops' = ops
        BY <1>0, <3>2 DEF FindOperation, Go, Update, store
      <4>2. j # 0 => ops[j].new = req[r].new
        BY LatestFits
      <4> HIDE DEF j, resume, loaded
      <4>3. req'[r].op = j
        BY <1>0, <4>1, SMTT(60) DEF RequestRecords
      <4>4. (Op(r).new)' = ops[j].new
        BY <4>1, <4>3 DEF Op
      <4>5. HasOp(r)' => j # 0
        BY <4>1, <4>3 DEF HasOp, DeleteLabels, ReplaceLabels, WriterLabels
      <4> QED BY <4>2, <4>4, <4>5
    <3> QED BY <1>2, <3>1, <3>2
  <2> QED BY <2>1, <2>2, <2>3 DEF Carries, SameKeys, Replaced, Early, DeleteLabels,
                                  ReplaceLabels, WriterLabels
<1> QED BY <1>1, <1>2

\* The write phase has a step for every panel of a replacement.
LEMMA EnsureCarries ==
  ASSUME TypeInv, Plans, NEW r \in Requests, Carries(r), EnsureWrite(r)
  PROVE  Carries(r)'
<1> DEFINE write == EnsureSteps(Op(r).write, WriteTargets(r))
           status == IF req[r].kind = "replace" THEN "writing" ELSE Op(r).status
           u == [Op(r) EXCEPT !.write = write, !.status = status]
<1>1. /\ pc[r] = "ensure" /\ pc'[r] \in {"lock", "recordSteps"}
      /\ ChangeOperation(req[r].op, u)
  BY PlanFacts DEF EnsureWrite, Go
<1>2. HasOp(r) /\ Op(r) \in Operations
  BY <1>1, PlanFacts DEF HasOp, DeleteLabels
<1>3. req[r].kind = "replace" => \A p \in Op(r).source : write[p] # "absent"
  <2>1. Op(r).write \in [Panels -> StepStates] /\ Op(r).source \subseteq Panels
    BY <1>2 DEF Operations
  <2> QED BY <2>1, EnsuredSteps DEF WriteTargets
<1> HIDE DEF write, status
<1>4. u.write = write /\ u.source = Op(r).source /\ u.new = Op(r).new
  BY <1>2 DEF Operations
<1> HIDE DEF u
<1>5. Op(r)' = u
  BY <1>1, <1>2, OpRewritten DEF Progress
<1>6. req'[r].wrote = {} /\ req'[r].known = {} /\ SameKeys(r)
  <2>1. ~RecordAdd(r) /\ ~AcquireLock(r) /\ ~\E p \in Panels : SkipKnown(r, p)
    BY <1>1 DEF RecordAdd, AcquireLock, SkipKnown
  <2> QED BY <1>1, <2>1, ReadingKept, KeysKept DEF Carries, Early, DeleteLabels,
                                                   Progress
<1> QED BY <1>1, <1>2, <1>3, <1>4, <1>5, <1>6 DEF Carries, SameKeys, Replaced, Early,
                                                  DeleteLabels, ReplaceLabels,
                                                  WriterLabels

\* A step of the writer leaves a count that is on the books.
LEMMA CountCarries ==
  ASSUME TypeInv, Plans, NEW r \in Requests, Carries(r), SameKeys(r),
         pc[r] \in WriterLabels, pc'[r] \in {"write", "recordAdd", "recordSteps"},
         ops' = ops, req'[r].op = req[r].op, HasOp(r)' => HasOp(r),
         req'[r].known \cup req'[r].wrote \subseteq Live(WriteKey(r))',
         pc'[r] = "recordAdd" => req'[r].panel \notin Live(WriteKey(r))'
  PROVE  Carries(r)'
<1>1. Op(r)' = Op(r)
  BY DEF Op
<1>2. pc[r] # "idle"
  BY DEF WriterLabels
<1> QED BY <1>1, <1>2 DEF Carries, SameKeys, Replaced, Early, DeleteLabels,
                          ReplaceLabels, WriterLabels

\* The steps of the writer.
LEMMA WriterCarries ==
  ASSUME TypeInv, Books, Plans, NEW r \in Requests, Carries(r), Acts(r),
         \/ AcquireLock(r) \/ RecordAdd(r) \/ (ReturnFromWriter(r) /\ pc'[r] # "reply")
         \/ \E p \in Panels : SkipKnown(r, p) \/ RefuseWrite(r, p) \/ SendAdd(r, p)
  PROVE  Carries(r)'
<1> DEFINE K == WriteKey(r)
<1>0. /\ pc \in [Requests -> Labels] /\ req[r] \in RequestRecords
      /\ req \in [Requests -> RequestRecords]
  BY SMTT(60), PlanFacts
<1>1. /\ pc[r] \in WriterLabels /\ pc'[r] \in {"write", "recordAdd", "recordSteps"}
      /\ ops' = ops
      /\ pc'[r] = "recordSteps" => req[r].kind \notin {"write", "add"}
  BY <1>0 DEF AcquireLock, RecordAdd, SkipKnown, RefuseWrite, SendAdd,
              ReturnFromWriter, Reply, Go, store, WriterLabels
<1>2. SameKeys(r) /\ req'[r].op = req[r].op /\ K' = K /\ K \in Keys
  <2>1. ~FindOperation(r) /\ ~CreateOperation(r)
    BY <1>1 DEF FindOperation, CreateOperation, WriterLabels
  <2>2. SameKeys(r) /\ req'[r].op = req[r].op
    BY <1>1, <2>1, KeysKept, OpKept DEF Progress
  <2> QED BY <1>1, <2>2, OwnKeys DEF SameKeys, WriteKey, WriterLabels
<1>3. HasOp(r)' => HasOp(r)
  BY <1>1, <1>2, PlanFacts DEF HasOp, SameKeys, RequestOK, RequestRecords,
    WriterLabels, DeleteLabels, ReplaceLabels
<1>4. Live(K) \subseteq Live(K)'
  <2>1. ~RecordRow(r)
    BY <1>1 DEF RecordRow, WriterLabels
  <2> QED BY <1>2, <2>1, RowsStay
<1>5. req[r].known \cup req[r].wrote \subseteq Live(K)
  BY <1>1 DEF Carries
<1>6. (\E p \in Panels : SendAdd(r, p)) \/ pc'[r] # "recordAdd"
  BY <1>0 DEF AcquireLock, RecordAdd, SkipKnown, RefuseWrite, ReturnFromWriter,
              Reply, Go
<1>7. CASE AcquireLock(r)
  <2>1. /\ req'[r].known = req[r].known \cup Live(K) /\ req'[r].wrote = req[r].wrote
        /\ row' = row
    <3>1. req'[r] = [req[r] EXCEPT !.known = KnownPanels(r)] /\ row' = row
      BY <1>0, <1>7 DEF AcquireLock, Update, store
    <3> QED BY <1>0, <3>1 DEF RequestRecords, KnownPanels
  <2> QED BY <1>1, <1>2, <1>3, <1>4, <1>5, <1>6, <1>7, <2>1, CountCarries
          DEF AcquireLock, SendAdd
<1>8. CASE RecordAdd(r)
  <2>1. /\ req'[r].known = req[r].known
        /\ req'[r].wrote = IF req[r].answer THEN req[r].wrote \cup {req[r].panel}
                                            ELSE req[r].wrote
    <3>1. PICK x, y :
            req'[r] = [req[r] EXCEPT !.todo = x, !.panel = y,
                         !.wrote = IF req[r].answer THEN @ \cup {req[r].panel} ELSE @]
      BY <1>0, <1>8 DEF RecordAdd, Update
    <3> QED BY <1>0, <3>1, SMTT(60) DEF RequestRecords
  <2>2. req[r].answer => req[r].panel \in Live(K)'
    <3>1. req[r].panel \in Panels
      BY <1>8, PlanFacts DEF RecordAdd, RequestOK, CallLabels
    <3> QED BY <1>2, <1>8, <3>1 DEF RecordAdd, RecordPanelWrite, Live, LiveStates,
                                    TypeInv, TypeOK, StoreTypeOK
  <2> QED BY <1>1, <1>2, <1>3, <1>4, <1>5, <1>6, <1>8, <2>1, <2>2, CountCarries
          DEF RecordAdd, SendAdd
<1>9. ASSUME NEW p \in Panels, SkipKnown(r, p) PROVE Carries(r)'
  <2>1. req'[r].known = req[r].known /\ req'[r].wrote = req[r].wrote \cup {p}
    <3>1. \E x : req'[r] = [req[r] EXCEPT !.todo = x, !.wrote = @ \cup {p}]
      BY <1>0, <1>9 DEF SkipKnown, Update
    <3> QED BY <1>0, <3>1, SMTT(60) DEF RequestRecords
  <2>2. p \in req[r].known /\ pc'[r] = "write"
    BY <1>9 DEF SkipKnown
  <2> QED BY <1>1, <1>2, <1>3, <1>4, <1>5, <2>1, <2>2, CountCarries
<1>10. CASE ReturnFromWriter(r) \/ \E p \in Panels : RefuseWrite(r, p) \/ SendAdd(r, p)
  <2>1. req'[r].known = req[r].known /\ req'[r].wrote = req[r].wrote
    <3>1. CASE ReturnFromWriter(r)
      <4>1. req'[r] = [req[r] EXCEPT !.todo = req[r].pending]
        BY <1>0, <1>1, <3>1 DEF ReturnFromWriter, Update, Reply, Go
      <4> QED BY <1>0, <4>1 DEF RequestRecords
    <3>2. ASSUME NEW p \in Panels, RefuseWrite(r, p)
          PROVE  req'[r].known = req[r].known /\ req'[r].wrote = req[r].wrote
      <4>1. \E x : req'[r] = [req[r] EXCEPT !.todo = x]
        BY <1>0, <3>2 DEF RefuseWrite, Update
      <4> QED BY <1>0, <4>1 DEF RequestRecords
    <3>3. ASSUME NEW p \in Panels, SendAdd(r, p)
          PROVE  req'[r].known = req[r].known /\ req'[r].wrote = req[r].wrote
      <4>1. \E x : req'[r] = [req[r] EXCEPT !.panel = p, !.answer = x]
        BY <1>0, <3>3 DEF SendAdd, Update
      <4> QED BY <1>0, <4>1 DEF RequestRecords
    <3> QED BY <1>10, <3>1, <3>2, <3>3
  <2>2. pc'[r] = "recordAdd" => req'[r].panel \notin Live(K)'
    <3>1. ASSUME NEW p \in Panels, SendAdd(r, p)
          PROVE  req'[r].panel \notin Live(K) /\ row' = row
      BY <3>1, SentUnknown DEF SendAdd, Books, InHand, store
    <3> QED BY <1>2, <1>6, <3>1 DEF Live
  <2> QED BY <1>1, <1>2, <1>3, <1>4, <1>5, <2>1, <2>2, CountCarries
<1> QED BY <1>7, <1>8, <1>9, <1>10
\* record_step_result of the write phase does not take a step away.
LEMMA RecordWrittenCarries ==
  ASSUME TypeInv, Plans, NEW r \in Requests, Carries(r), NEW p \in Panels,
         RecordWritten(r, p)
  PROVE  Carries(r)'
<1> DEFINE write == [Op(r).write EXCEPT ![p] = StepResult(p \in req[r].wrote)]
           u == [Op(r) EXCEPT !.write = write]
<1>1. /\ pc[r] = "recordSteps" /\ pc' = pc /\ row' = row
      /\ ChangeOperation(req[r].op, u)
  BY DEF RecordWritten, RecordWriteStep, Op
<1>2. HasOp(r) /\ Op(r) \in Operations
  BY <1>1, PlanFacts DEF HasOp, DeleteLabels
<1>3. \A q \in Op(r).source : Op(r).write[q] # "absent" => write[q] # "absent"
  BY <1>2 DEF Operations, StepResult
<1> HIDE DEF write
<1>4. u.write = write /\ u.source = Op(r).source /\ u.new = Op(r).new
  BY <1>2 DEF Operations
<1> HIDE DEF u
<1>5. Op(r)' = u
  BY <1>1, <1>2, OpRewritten DEF Progress
<1>6. /\ req'[r].wrote = req[r].wrote /\ req'[r].known = req[r].known /\ SameKeys(r)
  <2>1. ~RecordAdd(r) /\ ~AcquireLock(r) /\ ~\E q \in Panels : SkipKnown(r, q)
    BY <1>1 DEF RecordAdd, AcquireLock, SkipKnown
  <2> QED BY <1>1, <2>1, ReadingKept, KeysKept DEF Progress
<1>7. WriteKey(r)' = WriteKey(r) /\ Live(WriteKey(r))' = Live(WriteKey(r))
  BY <1>1, <1>6 DEF SameKeys, WriteKey, Live
<1> QED BY <1>1, <1>2, <1>3, <1>4, <1>5, <1>6, <1>7 DEF Carries, SameKeys, Replaced,
           Early, DeleteLabels, ReplaceLabels, WriterLabels

\* A replacement comes to its end with everything written, and stays there.
LEMMA EndCarries ==
  ASSUME TypeInv, Plans, NEW r \in Requests, Carries(r),
         \/ FinishReplace(r) /\ ~WriteIncomplete(r)
         \/ AssignNew(r) \/ CloneAccesses(r) \/ CompleteReplace(r)
  PROVE  Carries(r)'
<1>0. /\ pc \in [Requests -> Labels] /\ req[r] \in RequestRecords
      /\ req \in [Requests -> RequestRecords]
  BY PlanFacts
<1>1. /\ pc[r] \in ReplaceLabels \/ (pc[r] = "recordSteps" /\ FinishReplace(r))
      /\ pc'[r] \in ReplaceLabels \cup {"reply"}
  BY <1>0 DEF FinishReplace, AssignNew, CloneAccesses, CompleteReplace, Go, Reply,
              ReplaceLabels
<1>2. HasOp(r) /\ Op(r) \in Operations /\ req[r].op \in DOMAIN ops /\ Plan(r)
  BY <1>1, PlanFacts DEF HasOp, DeleteLabels
<1>3. req[r].kind = "replace"
  BY <1>1, PlanFacts DEF RequestOK, FinishReplace
<1>4. /\ Op(r).old = req[r].key /\ Op(r).new = req[r].new
      /\ Op(r).type = "replace" /\ Op(r).source \subseteq Done(Op(r).write)
  <2>1. ASSUME pc[r] = "recordSteps", FinishReplace(r)
        PROVE  Op(r).source \subseteq Done(Op(r).write)
    <3>1. Unfinished(Op(r).write) = {} /\ \A p \in Op(r).source : Op(r).write[p] # "absent"
      BY <1>3, <2>1 DEF Carries, WriteIncomplete, FinishReplace, AssignNew,
                        CloneAccesses, CompleteReplace
    <3> QED BY <1>2, <3>1 DEF Operations, Unfinished, Done, StepStates
  <2> QED BY <1>1, <1>2, <1>3, <2>1 DEF Carries, Plan, Owns
<1>5. SameKeys(r) /\ req'[r].op = req[r].op
  <2>1. ~FindOperation(r) /\ ~CreateOperation(r) /\ pc'[r] # "idle"
    BY <1>1 DEF FindOperation, CreateOperation, ReplaceLabels
  <2> QED BY <2>1, KeysKept, OpKept DEF Progress
<1>6. /\ req'[r].op \in DOMAIN ops' /\ (Op(r).old)' = Op(r).old
      /\ (Op(r).new)' = Op(r).new /\ (Op(r).source)' = Op(r).source
      /\ (Op(r).type)' = Op(r).type
      /\ Done(Op(r).write) \subseteq Done(Op(r).write)'
  <2>1. Acts(r)
    BY DEF Acts, Progress
  <2>2. OpMoves(r, req[r].op) /\ req[r].op \in DOMAIN ops'
    BY <1>2, <2>1, OpsMove, OpsStay
  <2> QED BY <1>5, <2>2 DEF OpMoves, Op, Done
<1> QED BY <1>1, <1>2, <1>3, <1>4, <1>5, <1>6 DEF Carries, SameKeys, Early, HasOp,
           DeleteLabels, ReplaceLabels, WriterLabels

\* Every step of a request keeps what it is to carry over.
LEMMA CarriesStep ==
  ASSUME TypeInv, Books, Plans, NEW r \in Requests, Carries(r), Acts(r)
  PROVE  Carries(r)'
<1>0. /\ pc \in [Requests -> Labels] /\ req[r] \in RequestRecords
      /\ req \in [Requests -> RequestRecords]
  BY PlanFacts
<1>1. CASE Begin(r)
  <2>1. row' = row
    BY <1>1, BeganWith DEF store
  <2> QED BY <1>1, <2>1, BeganWith DEF Carries, Early, HasOp, Replaced, WriteKey, Live,
             OpTypes, DeleteLabels, ReplaceLabels, WriterLabels
<1>2. CASE FindOperation(r) \/ ResumeOperation(r) \/ CreateOperation(r)
  BY <1>2, OpenCarries
<1>3. CASE EnsureWrite(r)
  BY <1>3, EnsureCarries
<1>4. CASE \/ AcquireLock(r) \/ RecordAdd(r)
           \/ (ReturnFromWriter(r) /\ pc'[r] # "reply")
           \/ \E p \in Panels : SkipKnown(r, p) \/ RefuseWrite(r, p) \/ SendAdd(r, p)
  BY <1>4, WriterCarries
<1>5. CASE \E p \in Panels : RecordWritten(r, p)
  BY <1>5, RecordWrittenCarries
<1>6. CASE \/ FinishReplace(r) /\ ~WriteIncomplete(r)
           \/ AssignNew(r) \/ CloneAccesses(r) \/ CompleteReplace(r)
  BY <1>6, EndCarries
<1>7. CASE \/ MarkPending(r) \/ BeginDelete(r) \/ RecordRow(r) \/ RecordStep(r)
           \/ EndDelete(r) \/ Finalize(r) \/ SkipFinalize(r)
           \/ (CloseRelease(r) /\ pc'[r] # "reply")
           \/ \E p \in Panels : SendRemove(r, p)
  <2>1. /\ pc[r] \in DeleteLabels \ {"recordSteps"}
        /\ pc'[r] \in DeleteLabels \ {"recordSteps"}
        /\ pc'[r] = "close" => req[r].kind # "replace"
    BY <1>0, <1>7 DEF MarkPending, BeginDelete, RecordRow, RecordStep, EndDelete,
      Finalize, SkipFinalize, CloseRelease, SendRemove, Reply, Go, DeleteLabels,
      ResumedWritePhase
  <2>2. ~FindOperation(r) /\ ~CreateOperation(r) /\ HasOp(r)
    BY <2>1 DEF FindOperation, CreateOperation, HasOp, DeleteLabels
  <2>3. pc[r] \in Early /\ pc'[r] \in Early \ {"find", "persist"}
    BY <2>1 DEF Early, DeleteLabels
  <2> QED BY <1>7, <2>1, <2>2, <2>3, EarlyCarries DEF Progress
<1>8. CASE \/ FailDelete(r) \/ FinalizeRefused(r) \/ FinishReassign(r)
           \/ (FinishReplace(r) /\ WriteIncomplete(r))
           \/ ((CloseRelease(r) \/ ReturnFromWriter(r)) /\ pc'[r] = "reply")
  <2>1. pc'[r] = "reply" /\ pc[r] # "idle"
    BY <1>0, <1>8 DEF FailDelete, FinalizeRefused, FinishReassign, FinishReplace,
      CloseRelease, ReturnFromWriter, Reply, Go
  <2>2. SameKeys(r)
    BY <1>8, <2>1, KeysKept DEF Progress
  <2>3. ~Replaced(r)'
    <3>1. CASE FinishReassign(r) \/ CloseRelease(r) \/ ReturnFromWriter(r)
      <4>1. req[r].kind # "replace"
        BY <1>0, <1>8, <2>1, <3>1 DEF FinishReassign, CloseRelease, Carries,
          ReturnFromWriter, Reply, Go
      <4> QED BY <2>2, <4>1 DEF Replaced, SameKeys
    <3>2. CASE \/ FailDelete(r) \/ FinalizeRefused(r)
               \/ (FinishReplace(r) /\ WriteIncomplete(r))
      <4>1. \E x \in {"PARTIAL", "ERROR", "EXCEPTION"} :
              req'[r] = [req[r] EXCEPT !.outcome = x]
        BY <1>0, <3>2 DEF FailDelete, FinalizeRefused, FinishReplace, Reply, Update
      <4> QED BY <1>0, <4>1 DEF RequestRecords, Replaced
    <3> QED BY <1>8, <3>1, <3>2
  <2> QED BY <2>1, <2>2, <2>3, RestCarries DEF Carries, SameKeys
<1>9. CASE Answer(r) \/ Crash(r)
  <2>1. pc'[r] = "idle"
    BY <1>0, <1>9 DEF Answer, Crash, Go
  <2> QED BY <2>1, RestCarries DEF Replaced
<1> QED BY <1>1, <1>2, <1>3, <1>4, <1>5, <1>6, <1>7, <1>8, <1>9 DEF Acts, Progress

\* Another request's step leaves them alone: it works on other keys.
LEMMA CarriesFrame ==
  ASSUME TypeInv, ~Overlap, Books, Plans, NEW r \in Requests, Acts(r),
         NEW s \in Requests \ {r}, Carries(s)
  PROVE  Carries(s)'
<1>1. CASE pc[s] = "idle"
  <2>1. pc'[s] = "idle"
    BY <1>1, ActsMove DEF OnlyMoves
  <2> QED BY <2>1, RestCarries DEF Replaced
<1>2. CASE pc[s] # "idle"
  <2>1. /\ pc'[s] = pc[s] /\ req'[s] = req[s]
        /\ HasOp(s) => Op(s)' = Op(s)
    BY <1>2, OthersFrame DEF Books
  <2>2. Live(WriteKey(s))' = Live(WriteKey(s)) /\ WriteKey(s)' = WriteKey(s)
    <3>1. WriteKey(s) \in Keys /\ WriteKey(s) \in Touches(s)
      BY <1>2, OwnKeys
    <3>2. row'[WriteKey(s)] = row[WriteKey(s)]
      <4>1. CASE Begin(r)
        BY <4>1, BeganWith DEF store
      <4>2. CASE ~Begin(r)
        <5>1. pc[r] # "idle"
          BY <4>2 DEF Acts, Progress, AcquireLock, Crash, SendRemove,
            SkipKnown, RefuseWrite, SendAdd, RecordWritten, FindOperation,
            ResumeOperation, CreateOperation, MarkPending, BeginDelete, RecordRow,
            RecordStep, FailDelete, EndDelete, Finalize, FinalizeRefused,
            SkipFinalize, CloseRelease, EnsureWrite, RecordAdd, ReturnFromWriter,
            FinishReassign, FinishReplace, AssignNew, CloneAccesses,
            CompleteReplace, Answer
        <5>2. WriteKey(s) \notin Touches(r)
          BY <1>2, <3>1, <5>1 DEF Books, Disjoint
        <5> QED BY SMTT(60), <3>1, <5>2, ElsewhereKept DEF SameElsewhere
      <4> QED BY <4>1, <4>2
    <3> QED BY <2>1, <3>2 DEF Live, WriteKey
  <2>3. ASSUME pc[s] \in ReplaceLabels \/ Replaced(s)
        PROVE  req[s].op \in DOMAIN ops' /\ Op(s)' = Op(s)
    <3>1. req[s].op \in DOMAIN ops /\ Op(s).old = req[s].key
      BY <2>3 DEF Carries
    <3>2. ~(HasOp(r) /\ req[r].op = req[s].op)
      <4> SUFFICES ASSUME HasOp(r), req[r].op = req[s].op PROVE FALSE
        OBVIOUS
      <4>1. req[r].key = req[s].key /\ pc[r] # "idle"
        BY <3>1, PlanFacts DEF Plan, Owns, Op, HasOp, DeleteLabels, ReplaceLabels,
                               WriterLabels
      <4> QED BY <1>2, <4>1, OwnKeys DEF Books, Disjoint
    <3> QED BY <2>1, <3>1, <3>2, OpsFrame DEF Op
  <2>4. (HasOp(s)' <=> HasOp(s)) /\ (Replaced(s)' <=> Replaced(s))
    BY <2>1 DEF HasOp, Replaced
  <2>5. pc[s] \in WriterLabels \cup {"recordSteps"} /\ req[s].kind = "replace" =>
          HasOp(s)
    BY DEF HasOp, OpTypes, DeleteLabels
  <2>6. \/ ~HasOp(s) /\ ~(pc[s] \in ReplaceLabels \/ Replaced(s))
        \/ Op(s)' = Op(s) /\ Done(Op(s).write)' = Done(Op(s).write)
    BY <2>1, <2>3 DEF Done
  <2> QED BY <1>2, <2>1, <2>2, <2>3, <2>4, <2>5, <2>6, SMTT(30) DEF Carries
<1> QED BY <1>1, <1>2

\* Only record_panel_operation takes a panel off, after the deletion that the
\* operation of the request had to do.
LEMMA OnFileStep ==
  ASSUME TypeInv, Plans, OnFile, NEW r \in Requests, Acts(r)
  PROVE  OnFile'
<1> SUFFICES ASSUME NEW k \in Keys, NEW p \in Panels, row'[k][p] = "removed"
             PROVE  \E i \in DOMAIN ops' : ops'[i].old = k /\ p \in ops'[i].source
  BY DEF OnFile
<1>0. row \in [Keys -> [Panels -> RowStates]]
  BY DEF TypeInv, TypeOK, StoreTypeOK
<1>1. CASE row[k][p] = "removed"
  <2>1. PICK i \in DOMAIN ops : ops[i].old = k /\ p \in ops[i].source
    BY <1>1 DEF OnFile
  <2> QED BY <2>1, OpsMove, OpsStay DEF OpMoves
<1>2. CASE RecordRow(r)
  <2>1. pc[r] = "recordRow" /\ HasOp(r) /\ ops' = ops /\ req[r].key \in Keys
    BY <1>2, OwnKeys DEF RecordRow, HasOp, DeleteLabels
  <2>2. /\ req[r].op \in DOMAIN ops /\ Op(r).old = req[r].key
        /\ req[r].panel \in Op(r).source
    BY <2>1, PlanFacts DEF Plan, Owns, DeleteFits, DeleteTodo
  <2>3. row[k][p] = "removed" \/ (k = req[r].key /\ p = req[r].panel)
    BY <1>0, <1>2, <2>1 DEF RecordRow, RecordPanelDelete
  <2> QED BY <1>1, <2>1, <2>2, <2>3 DEF Op
<1>3. CASE RecordAdd(r) \/ \E q \in Panels : RefuseWrite(r, q)
  <2>1. WriteKey(r) \in Keys
    BY <1>3, OwnKeys DEF RecordAdd, RefuseWrite
  <2>2. PICK q, success : RecordPanelWrite(WriteKey(r), q, success)
    <3>1. CASE RecordAdd(r)
      BY <3>1 DEF RecordAdd
    <3>2. CASE \E q \in Panels : RefuseWrite(r, q)
      BY <3>2 DEF RefuseWrite
    <3> QED BY <1>3, <3>1, <3>2
  <2>3. row[k][p] = "removed"
    BY <1>0, <2>1, <2>2 DEF RecordPanelWrite
  <2> QED BY <1>1, <2>3
<1>4. CASE MarkPending(r)
  <2>1. req[r].key \in Keys
    BY <1>4, OwnKeys DEF MarkPending
  <2>2. row[k][p] = "removed"
    BY <1>0, <1>4, <2>1 DEF MarkPending, MarkPanelsPendingDelete
  <2> QED BY <1>1, <2>2
<1>5. CASE \/ Begin(r) \/ AcquireLock(r) \/ Crash(r)
           \/ \E q \in Panels : \/ SendRemove(r, q) \/ SkipKnown(r, q)
                                \/ SendAdd(r, q) \/ RecordWritten(r, q)
           \/ FindOperation(r) \/ ResumeOperation(r) \/ CreateOperation(r)
           \/ BeginDelete(r) \/ RecordStep(r) \/ FailDelete(r) \/ EndDelete(r)
           \/ Finalize(r) \/ FinalizeRefused(r) \/ SkipFinalize(r)
           \/ CloseRelease(r) \/ EnsureWrite(r) \/ ReturnFromWriter(r)
           \/ FinishReassign(r) \/ FinishReplace(r) \/ AssignNew(r)
           \/ CloneAccesses(r) \/ CompleteReplace(r) \/ Answer(r)
  <2>1. UNCHANGED row
    BY <1>5, BeganWith DEF AcquireLock, Crash, SendRemove, SkipKnown, SendAdd,
      RecordWritten, FindOperation, ResumeOperation, CreateOperation, BeginDelete,
      RecordStep, FailDelete, EndDelete, Finalize, FinalizeRefused, SkipFinalize,
      CloseRelease, EnsureWrite, ReturnFromWriter, FinishReassign, FinishReplace,
      AssignNew, CloneAccesses, CompleteReplace, Answer, store
  <2> QED BY SMTT(60), <1>1, <2>1
<1> QED BY <1>2, <1>3, <1>4, <1>5 DEF Acts, Progress

\* Nothing but an operation of the new key itself takes a written panel off it.
LEMMA WrittenStep ==
  ASSUME TypeInv, Books, Plans, WrittenStays, NEW r \in Requests, Carries(r), Acts(r)
  PROVE  WrittenStays'
<1> SUFFICES ASSUME NEW i \in DOMAIN ops', ops'[i].type = "replace",
                    NEW n, n = ops'[i].new
             PROVE  /\ n \in Keys
                    /\ (\A j \in DOMAIN ops' : ops'[j].old # n) =>
                         Done(ops'[i].write) \subseteq Live(n)'
  BY DEF WrittenStays, Done, Live
<1>1. CASE i \notin DOMAIN ops
  <2>1. CreateOperation(r) /\ i = Len(ops) + 1
    BY <1>1, OpsChange, Created
  <2>2. ops'[i] = NewOperation(req[r])
    BY <2>1, Created
  <2>3. n = req[r].new /\ req[r].kind = "replace" /\ ops'[i].write = NoSteps
    BY <2>2 DEF NewOperation
  <2>4. n \in Keys
    BY <2>3, PlanFacts DEF RequestOK
  <2>5. Done(NoSteps) = {}
    BY DEF Done, NoSteps
  <2> QED BY <2>3, <2>4, <2>5
<1>2. CASE i \in DOMAIN ops
  <2>1. OpMoves(r, i)
    BY <1>2, OpsMove
  <2>2. ops[i].new = n /\ ops[i].type = "replace" /\ n \in Keys
    BY <1>2, <2>1 DEF OpMoves, WrittenStays
  <2> SUFFICES ASSUME \A j \in DOMAIN ops' : ops'[j].old # n
               PROVE  Done(ops'[i].write) \subseteq Live(n)'
    BY <2>2
  <2>3. \A j \in DOMAIN ops : ops[j].old # n
    BY OpsMove, OpsStay DEF OpMoves
  <2>4. Done(ops[i].write) \subseteq Live(n)
    BY <1>2, <2>2, <2>3 DEF WrittenStays
  <2>5. RecordRow(r) => n # req[r].key
    BY <2>3, PlanFacts DEF RecordRow, HasOp, DeleteLabels, Plan, Owns, Op
  <2>6. Live(n) \subseteq Live(n)'
    BY <2>2, <2>5, RowsStay
  <2>7. ASSUME pc[r] = "recordSteps", i = req[r].op
        PROVE  req[r].wrote \subseteq Live(n)
    <3>1. HasOp(r) /\ Op(r) = ops[i]
      BY <2>7 DEF HasOp, DeleteLabels, Op
    <3>2. req[r].kind = "replace" /\ req[r].new = n
      BY <2>2, <3>1, PlanFacts DEF Plan, Owns, Carries
    <3> QED BY <2>7, <3>2 DEF Carries, WriteKey
  <2> QED BY <2>1, <2>4, <2>6, <2>7 DEF OpMoves
<1> QED BY <1>1, <1>2

\* Without overlap a request carries over what it promises to.
THEOREM CarriedInvariance ==
  ASSUME ~Overlap PROVE Spec => [](TypeInv /\ Books /\ Plans /\ Carried)
<1>1. Init => Carried
  <2> SUFFICES ASSUME Init PROVE Carried
    OBVIOUS
  <2>1. ASSUME NEW r \in Requests PROVE Carries(r)
    BY DEF Init, Carries, Early, HasOp, Replaced, DeleteLabels, ReplaceLabels,
           WriterLabels
  <2>2. OnFile
    BY DEF Init, StoreInit, OnFile
  <2>3. WrittenStays
    BY DEF Init, StoreInit, WrittenStays
  <2> QED BY <2>1, <2>2, <2>3 DEF Carried
<1>2. TypeInv /\ Books /\ Plans /\ Carried /\ [Next]_vars => Carried'
  <2> SUFFICES ASSUME TypeInv, Books, Plans, Carried, [Next]_vars PROVE Carried'
    OBVIOUS
  <2>1. ASSUME NEW r \in Requests, Acts(r) PROVE Carried'
    <3>1. OnFile /\ WrittenStays /\ \A s \in Requests : Carries(s)
      BY DEF Carried
    <3>2. ASSUME NEW s \in Requests PROVE Carries(s)'
      BY <2>1, <3>1, CarriesStep, CarriesFrame
    <3> QED BY <2>1, <3>1, <3>2, OnFileStep, WrittenStep DEF Carried
  <2>2. CASE UNCHANGED <<row, pc, req, ops>>
    <3>1. OnFile' /\ WrittenStays'
      BY <2>2 DEF Carried, OnFile, WrittenStays, Done, Live
    <3>2. ASSUME NEW s \in Requests PROVE Carries(s)'
      BY <2>2 DEF Carried, Carries, HasOp, Op, Done, Live, WriteKey, Replaced
    <3> QED BY <3>1, <3>2 DEF Carried
  <2>3. (\E k \in Keys, where \in Places : AssignLocally(k, where))
          \/ UNCHANGED vars => UNCHANGED <<row, pc, req, ops>>
    BY DEF AssignLocally, vars, store
  <2> QED BY <2>1, <2>2, <2>3, NextActs
<1> QED BY <1>1, <1>2, PlansInvariance, PTL DEF Spec

\* replace_key reports success only when the new key opens every panel the old
\* one was taken off, whatever failed, restarted and was repeated before, as
\* long as the repetitions resume the one persisted operation.
THEOREM RepetitionCarriesOver == ASSUME ~Overlap PROVE Spec => []ResumedCarriesOver
<1>1. TypeInv /\ Carried => ResumedCarriesOver
  <2> SUFFICES ASSUME TypeInv, Carried, NEW r \in Requests, Replaced(r),
                      OnlyResumed(r), NEW p \in Panels, row[req[r].key][p] = "removed"
               PROVE  p \in Live(req[r].new)
    BY DEF ResumedCarriesOver, CarriedOver
  <2> DEFINE n == req[r].new
  <2>1. req[r].key \in Keys /\ pc[r] # "idle" /\ req[r].kind = "replace"
    BY DEF Replaced, TypeInv, RequestOK
  <2>2. /\ Op(r).type = "replace" /\ Op(r).old = req[r].key /\ Op(r).new = n
        /\ Op(r).source \subseteq Done(Op(r).write) /\ req[r].key # n
        /\ req[r].op \in DOMAIN ops
    BY <2>1 DEF Carried, Carries
  <2>3. \E i \in DOMAIN ops : ops[i].old = req[r].key /\ p \in ops[i].source
    BY <2>1 DEF Carried, OnFile
  <2>4. p \in Op(r).source
    BY <2>3 DEF OnlyResumed, Op
  <2>5. \A j \in DOMAIN ops : ops[j].old # n
    BY <2>2 DEF OnlyResumed, Op
  <2>6. Done(Op(r).write) \subseteq Live(n)
    BY <2>2, <2>5 DEF Carried, WrittenStays, Op
  <2> QED BY <2>2, <2>4, <2>6
<1> QED BY <1>1, CarriedInvariance, PTL
=============================================================================
