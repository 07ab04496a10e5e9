------------------------ MODULE KeyLifecycleProofs ------------------------
(***************************************************************************)
(* Safety of KeyLifecycle for any keys, panels, places, requests and       *)
(* bounds: its state is well typed and the advisory lock excludes, always; *)
(* and, as long as no two requests work on one key at a time, nothing the  *)
(* CRM lets a key open is forgotten by the local store.                    *)
(*                                                                         *)
(* TypeOK alone is not inductive: what a step stores comes from the        *)
(* operation and the panel its request has in hand, so the invariant also  *)
(* says what each control point has in hand (RequestOK).  HandInv is what  *)
(* the steps of the services keep on their own, whoever calls them:        *)
(* EmployeeKeysProofs builds on it too.                                    *)
(***************************************************************************)
EXTENDS KeyLifecycle, SequenceTheorems, WellFoundedInduction, TLAPS

-----------------------------------------------------------------------------
(* Type correctness.                                                       *)

DeleteLabels == {"mark", "begin", "delete", "recordRow", "recordStep",
                 "finalize", "close", "ensure", "recordSteps"}
ReplaceLabels == {"assignNew", "clone", "complete"}
WriterLabels == {"lock", "write", "recordAdd"}
CallLabels == {"recordRow", "recordStep", "recordAdd"}

\* What a request has in hand at each control point.
RequestOK(r) ==
  /\ req[r].kind # "none" => req[r].key \in Keys
  /\ pc[r] \notin {"idle", "reply"} => req[r].kind # "none"
  /\ req[r].kind = "replace" => req[r].new \in Keys
  /\ pc[r] \in {"find", "persist"} \cup DeleteLabels => req[r].kind \in OpTypes
  /\ pc[r] \in ReplaceLabels => req[r].kind = "replace"
  /\ pc[r] = "persist" => req[r].op \in DOMAIN ops \cup {0}
  /\ pc[r] = "persist" /\ req[r].resume => req[r].op # 0
  /\ pc[r] \in DeleteLabels \cup ReplaceLabels => req[r].op \in DOMAIN ops
  /\ pc[r] \in WriterLabels /\ req[r].kind \in OpTypes => req[r].op \in DOMAIN ops
  /\ pc[r] \in CallLabels => req[r].panel \in Panels

HandInv == TypeOK /\ \A r \in Requests : RequestOK(r)

\* A thread that is not idle serves a request: the pages of the employees, which
\* have control of a thread between two services, are a module of their own.
Served == \A r \in Requests : pc[r] # "idle" => req[r].kind # "none"

TypeInv == TypeOK /\ (\A r \in Requests : RequestOK(r)) /\ Served

\* The part of TypeOK that is not about control points and local variables.
RestTyped ==
  /\ StoreTypeOK
  /\ crm \in [Keys -> SUBSET Panels]
  /\ lock \in [Keys -> Requests \cup {NoRequester}]
  /\ unconfirmed \in [Keys -> SUBSET Panels]
  /\ jobs \in Nat
  /\ crashes \in Nat

-----------------------------------------------------------------------------
(* Records, sequences and control points.                                  *)

\* Moving to a label keeps the control points typed.
LEMMA GoTyped ==
  ASSUME TypeOK, NEW r \in Requests, NEW label \in Labels, Go(r, label)
  PROVE  /\ pc' \in [Requests -> Labels]
         /\ pc'[r] = label
         /\ \A s \in Requests \ {r} : pc'[s] = pc[s]
BY DEF TypeOK, Go

\* Storing a request record keeps the local variables typed.
LEMMA UpdateTyped ==
  ASSUME TypeOK, NEW r \in Requests, NEW q \in RequestRecords, Update(r, q)
  PROVE  /\ req' \in [Requests -> RequestRecords]
         /\ req'[r] = q
         /\ \A s \in Requests \ {r} : req'[s] = req[s]
BY DEF TypeOK, Update

\* The fields of the local variables of a request have their types.
LEMMA RequestTyped ==
  ASSUME TypeOK, NEW r \in Requests PROVE req[r] \in RequestRecords
BY DEF TypeOK

\* A bounded set of positive numbers has a largest element, so the latest open
\* operation exists.
LEMMA LatestExists ==
  ASSUME NEW n \in Nat, NEW T \in SUBSET (1 .. n), T # {}
  PROVE  \E i \in T : \A j \in T : j <= i
<1> DEFINE U == {n - i : i \in T}
<1>1. U \subseteq Nat /\ U # {}
  <2>1. \A i \in T : n - i \in Nat
    OBVIOUS
  <2>2. PICK i \in T : TRUE
    OBVIOUS
  <2>3. n - i \in U
    OBVIOUS
  <2> QED BY <2>1, <2>3
<1>2. PICK x \in U : \A y \in U : ~ (<<y, x>> \in OpToRel(<, Nat))
  <2>1. IsWellFoundedOn(OpToRel(<, Nat), Nat)
    BY NatLessThanWellFounded
  <2> QED BY <1>1, <2>1, WFMin
<1>3. PICK i \in T : x = n - i
  OBVIOUS
<1>4. ASSUME NEW j \in T PROVE j <= i
  <2>1. n - j \in U
    OBVIOUS
  <2>2. ~ (n - j < x)
    BY <1>1, <1>2, <2>1 DEF OpToRel
  <2> QED BY <1>3, <2>2
<1> QED BY <1>4

\* The operation a request finds is none or an existing row of its own
\* kind (create_or_resume_operation selects by type and key).
LEMMA LatestTyped ==
  ASSUME TypeOK, NEW type, NEW old, NEW new
  PROVE  LatestOperation(type, old, new) \in DOMAIN ops \cup {0}
<1> DEFINE open == {i \in DOMAIN ops : /\ ops[i].type = type
                                       /\ ops[i].old = old
                                       /\ ops[i].new = new
                                       /\ ops[i].status # "completed"}
<1>1. open \subseteq 1 .. Len(ops) /\ DOMAIN ops = 1 .. Len(ops) /\ Len(ops) \in Nat
  BY LenProperties DEF TypeOK, StoreTypeOK
<1>2. open # {} => \E i \in open : \A j \in open : j <= i
  BY <1>1, LatestExists
<1> QED BY <1>1, <1>2 DEF LatestOperation

\* An existing row of key_lifecycle_operations is an operation.
LEMMA OperationTyped ==
  ASSUME TypeOK, NEW i \in DOMAIN ops PROVE ops[i] \in Operations
BY ElementOfSeq, LenProperties DEF TypeOK, StoreTypeOK

\* Rewriting one row keeps the table typed and as long as it was.
LEMMA ChangeTyped ==
  ASSUME TypeOK, NEW i \in DOMAIN ops, NEW operation \in Operations,
         ChangeOperation(i, operation)
  PROVE  /\ ops' \in Seq(Operations)
         /\ DOMAIN ops' = DOMAIN ops
         /\ ops'[i] = operation
         /\ \A j \in DOMAIN ops \ {i} : ops'[j] = ops[j]
<1>1. ops \in Seq(Operations) /\ i \in 1 .. Len(ops)
  BY LenProperties DEF TypeOK, StoreTypeOK
<1> QED BY <1>1, ExceptSeq, LenProperties DEF ChangeOperation

\* set_operation_status keeps the table typed.
LEMMA StatusTyped ==
  ASSUME TypeOK, NEW i \in DOMAIN ops, NEW status \in OpStatuses,
         SetOperationStatus(i, status)
  PROVE  ops' \in Seq(Operations) /\ DOMAIN ops' = DOMAIN ops
<1>1. [ops[i] EXCEPT !.status = status] \in Operations
  BY OperationTyped DEF Operations
<1> QED BY <1>1, ChangeTyped DEF SetOperationStatus

\* ensure_operation_steps and record_step_result keep steps steps.
LEMMA StepsTyped ==
  ASSUME NEW steps \in [Panels -> StepStates], NEW panels
  PROVE  EnsureSteps(steps, panels) \in [Panels -> StepStates]
BY DEF EnsureSteps, StepStates

\* Another request keeps what it has in hand: operations are only added.
LEMMA OthersOK ==
  ASSUME HandInv, NEW s \in Requests, pc'[s] = pc[s], req'[s] = req[s],
         DOMAIN ops \subseteq DOMAIN ops'
  PROVE  RequestOK(s)'
BY DEF HandInv, RequestOK

\* What a step of r has to establish.
LEMMA StepTyped ==
  ASSUME HandInv, NEW r \in Requests,
         NEW q \in RequestRecords, Update(r, q),
         NEW label \in Labels, Go(r, label),
         RestTyped', DOMAIN ops \subseteq DOMAIN ops',
         req'[r] = q /\ pc'[r] = label => RequestOK(r)'
  PROVE  HandInv'
<1>1. TypeOK
  BY DEF HandInv
<1>2. TypeOK'
  BY <1>1, GoTyped, UpdateTyped DEF TypeOK, RestTyped
<1>3. RequestOK(r)'
  BY <1>1, GoTyped, UpdateTyped
<1>4. ASSUME NEW s \in Requests \ {r} PROVE RequestOK(s)'
  BY <1>1, OthersOK, GoTyped, UpdateTyped
<1> QED BY <1>2, <1>3, <1>4 DEF HandInv

\* A step that only moves on, with its operation untouched, keeps the types.
LEMMA GoStepTyped ==
  ASSUME HandInv, NEW r \in Requests, UNCHANGED req,
         NEW label \in Labels, Go(r, label),
         RestTyped', DOMAIN ops \subseteq DOMAIN ops',
         pc'[r] = label => RequestOK(r)'
  PROVE  HandInv'
<1>1. Update(r, req[r]) /\ req[r] \in RequestRecords
  BY DEF HandInv, TypeOK, Update
<1> QED BY <1>1, StepTyped

\* A step that changes local variables only keeps the types.
LEMMA LocalStepTyped ==
  ASSUME HandInv, NEW r \in Requests, UNCHANGED pc,
         NEW q \in RequestRecords, Update(r, q),
         RestTyped', DOMAIN ops \subseteq DOMAIN ops',
         req'[r] = q /\ pc'[r] = pc[r] => RequestOK(r)'
  PROVE  HandInv'
<1>1. Go(r, pc[r]) /\ pc[r] \in Labels
  BY DEF HandInv, TypeOK, Go
<1> QED BY <1>1, StepTyped

\* Answering with an outcome keeps the types, in whatever action it occurs.
LEMMA ReplyTyped ==
  ASSUME HandInv, NEW r \in Requests, pc[r] # "idle",
         NEW outcome \in Outcomes, Reply(r, outcome),
         RestTyped', DOMAIN ops \subseteq DOMAIN ops'
  PROVE  HandInv'
<1> DEFINE q == [req[r] EXCEPT !.outcome = outcome]
<1>1. RequestOK(r) /\ req[r] \in RequestRecords
  BY DEF HandInv, TypeOK
<1>2. q \in RequestRecords
  BY <1>1 DEF RequestRecords
<1>3. Go(r, "reply") /\ Update(r, q) /\ "reply" \in Labels
  BY DEF Reply, Labels
<1>4. req'[r] = q /\ pc'[r] = "reply" => RequestOK(r)'
  BY <1>1 DEF RequestOK, RequestRecords, DeleteLabels, ReplaceLabels,
              WriterLabels, CallLabels
<1> HIDE DEF q
<1> QED BY <1>2, <1>3, <1>4, StepTyped

\* A request that arrives with a well-typed snapshot keeps the types.
LEMMA StartTyped ==
  ASSUME HandInv, NEW r \in Requests, NEW ks, NEW label \in {"find", "lock"},
         NEW request \in RequestRecords, Start(r, ks, label, request),
         request.key \in Keys, request.kind = "replace" => request.new \in Keys,
         label = "find" => request.kind \in OpTypes,
         label = "lock" => request.kind \in {"write", "add"}
  PROVE  HandInv'
<1>1. Go(r, label) /\ Update(r, request) /\ label \in Labels
  BY DEF Start, Labels
<1>2. RestTyped' /\ DOMAIN ops \subseteq DOMAIN ops'
  BY DEF HandInv, TypeOK, StoreTypeOK, RestTyped, Start, Admit, store
<1>3. req'[r] = request /\ pc'[r] = label => RequestOK(r)'
  BY DEF RequestOK, DeleteLabels, ReplaceLabels, WriterLabels, CallLabels, OpTypes
<1> QED BY <1>1, <1>2, <1>3, StepTyped

\* What get_key_snapshot hands a route is a well-typed request.
LEMMA SnapshotTyped ==
  ASSUME TypeOK, NEW kind \in {"write", "add"} \cup OpTypes, NEW k \in Keys
  PROVE  /\ Snapshot(kind, k) \in RequestRecords
         /\ Snapshot(kind, k).kind = kind
         /\ Snapshot(kind, k).key = k
BY ZenonT(60) DEF TypeOK, StoreTypeOK, Snapshot, NoRequest, RequestRecords, Live,
       KeyStatuses, OpTypes, OpStatuses, Outcomes

-----------------------------------------------------------------------------
(* One lemma per action.                                                   *)

\* The initial states, keys in stock or issued, are well typed.
LEMMA InitTyped == Init => HandInv
BY NoKeyAssumption, NoPlaceAssumption, EmptySeq
DEF Init, HandInv, TypeOK, StoreInit, StoreTypeOK, NoRequest, RequestOK, Labels,
    DeleteLabels, ReplaceLabels, WriterLabels, CallLabels, KeyStatuses,
    RowStates, RequestRecords, OpTypes, OpStatuses, Outcomes

\* The routes hand well-typed requests to the services.
LEMMA BeginTyped ==
  ASSUME HandInv, NEW r \in Requests, Begin(r) PROVE HandInv'
<1> USE DEF OpTypes
<1>0. TypeOK
  BY DEF HandInv
<1>1. CASE StartRelease(r)
  <2>1. PICK k \in Keys, final \in {"free", "retired"} :
          Start(r, {k}, "find", [Snapshot("release", k) EXCEPT !.final = final])
    BY <1>1 DEF StartRelease
  <2> DEFINE request == [Snapshot("release", k) EXCEPT !.final = final]
  <2>2. request \in RequestRecords /\ request.kind = "release" /\ request.key = k
    BY <1>0, SnapshotTyped DEF RequestRecords, KeyStatuses
  <2> HIDE DEF request
  <2> QED BY <2>1, <2>2, StartTyped DEF request
<1>2. CASE StartReassign(r)
  <2>1. PICK k \in Keys, where \in Places, wanted \in (SUBSET Panels) \ {{}} :
          \E request \in
              {[Snapshot("reassign", k) EXCEPT !.where = where, !.wanted = wanted],
               [[Snapshot("reassign", k) EXCEPT !.where = where, !.wanted = wanted]
                 EXCEPT !.target = wanted, !.to = where]} :
            Start(r, {k}, "find", request)
    BY <1>2 DEF StartReassign
  <2> DEFINE short == [Snapshot("reassign", k) EXCEPT !.where = where,
                                                      !.wanted = wanted]
             long == [short EXCEPT !.target = wanted, !.to = where]
  <2>2. short \in RequestRecords /\ short.kind = "reassign" /\ short.key = k
    <3>1. Snapshot("reassign", k) \in RequestRecords
          /\ Snapshot("reassign", k).kind = "reassign" /\ Snapshot("reassign", k).key = k
      BY <1>0, SnapshotTyped
    <3> QED BY <3>1 DEF RequestRecords
  <2>3. long \in RequestRecords /\ long.kind = "reassign" /\ long.key = k
    BY ZenonT(60), <2>2 DEF RequestRecords
  <2>4. PICK request \in {short, long} : Start(r, {k}, "find", request)
    BY <2>1
  <2> HIDE DEF short, long
  <2> QED BY <2>2, <2>3, <2>4, StartTyped
<1>3. CASE StartReplace(r)
  <2>1. PICK old, new \in Keys : Start(r, {old, new}, "find",
           [Snapshot("replace", old) EXCEPT
              !.new = new, !.final = "retired", !.seen = keyStatus[new]])
    BY <1>3 DEF StartReplace
  <2> DEFINE request == [Snapshot("replace", old) EXCEPT
              !.new = new, !.final = "retired", !.seen = keyStatus[new]]
  <2>2. Snapshot("replace", old) \in RequestRecords
        /\ Snapshot("replace", old).kind = "replace"
        /\ Snapshot("replace", old).key = old
    BY <1>0, SnapshotTyped
  <2>3. keyStatus[new] \in KeyStatuses /\ "retired" \in KeyStatuses
    BY <1>0 DEF TypeOK, StoreTypeOK, KeyStatuses
  <2>4. request \in RequestRecords /\ request.kind = "replace"
        /\ request.key = old /\ request.new = new
    BY ZenonT(60), <2>2, <2>3 DEF RequestRecords
  <2> HIDE DEF request
  <2> QED BY <2>1, <2>4, StartTyped DEF request
<1>4. CASE StartWrite(r)
  <2>1. PICK k \in Keys, where \in Places, panels \in (SUBSET Panels) \ {{}} :
          Start(r, {k}, "lock", [Snapshot("write", k) EXCEPT
                  !.where = where, !.todo = panels, !.pending = panels])
    BY <1>4 DEF StartWrite
  <2> DEFINE request == [Snapshot("write", k) EXCEPT
                  !.where = where, !.todo = panels, !.pending = panels]
  <2>2. request \in RequestRecords /\ request.kind = "write" /\ request.key = k
    <3>1. Snapshot("write", k) \in RequestRecords
          /\ Snapshot("write", k).kind = "write" /\ Snapshot("write", k).key = k
      BY <1>0, SnapshotTyped
    <3> QED BY <3>1 DEF RequestRecords
  <2> HIDE DEF request
  <2> QED BY <2>1, <2>2, StartTyped DEF request
<1>5. CASE StartAdd(r)
  <2>1. PICK k \in Keys, where \in Places, panels \in (SUBSET Panels) \ {{}},
             known \in SUBSET Panels :
          Start(r, {k}, "lock", [Snapshot("add", k) EXCEPT
            !.where = where, !.todo = panels, !.pending = panels, !.known = known])
    BY <1>5 DEF StartAdd, Live
  <2> DEFINE request == [Snapshot("add", k) EXCEPT
            !.where = where, !.todo = panels, !.pending = panels, !.known = known]
  <2>2. request \in RequestRecords /\ request.kind = "add" /\ request.key = k
    <3>1. Snapshot("add", k) \in RequestRecords
          /\ Snapshot("add", k).kind = "add" /\ Snapshot("add", k).key = k
      BY <1>0, SnapshotTyped
    <3> QED BY <3>1 DEF RequestRecords
  <2> HIDE DEF request
  <2> QED BY <2>1, <2>2, StartTyped DEF request
<1> QED BY <1>1, <1>2, <1>3, <1>4, <1>5 DEF Begin

\* The search of create_or_resume_operation keeps the types.
LEMMA FindTyped ==
  ASSUME HandInv, NEW r \in Requests, FindOperation(r) PROVE HandInv'
<1> DEFINE i == LatestOperation(req[r].kind, req[r].key, req[r].new)
           resume == i # 0 /\ CanResume(ops[i], req[r])
           loaded == IF resume THEN ops[i].status ELSE "pending"
           q == [req[r] EXCEPT !.op = i, !.resume = resume, !.loaded = loaded]
<1>1. TypeOK /\ RequestOK(r) /\ req[r] \in RequestRecords
  BY RequestTyped DEF HandInv
<1>2. i \in DOMAIN ops \cup {0} /\ DOMAIN ops \subseteq Nat
  BY <1>1, LatestTyped, LenProperties DEF TypeOK, StoreTypeOK
<1>3. resume \in BOOLEAN /\ (resume => i # 0)
  OBVIOUS
<1>4. loaded \in OpStatuses
  <2>1. CASE resume
    <3>1. i \in DOMAIN ops
      BY <1>2, <1>3, <2>1
    <3> QED BY <1>1, <2>1, <3>1, OperationTyped DEF Operations
  <2>2. CASE ~resume
    BY <2>2 DEF OpStatuses
  <2> QED BY <2>1, <2>2
<1>5. Update(r, q) /\ Go(r, "persist") /\ pc[r] = "find"
  BY DEF FindOperation
<1>6. RestTyped' /\ DOMAIN ops \subseteq DOMAIN ops'
  BY <1>1 DEF FindOperation, RestTyped, TypeOK, StoreTypeOK, store, bounds
<1> HIDE DEF i, resume, loaded
<1>7. q \in RequestRecords /\ q.op = i /\ (q.resume => i # 0)
      /\ q.key = req[r].key /\ q.kind = req[r].kind /\ q.new = req[r].new
  <2>1. i \in Nat
    BY <1>2
  <2>2. q \in RequestRecords
    BY ZenonT(60), <1>1, <1>3, <1>4, <2>1 DEF RequestRecords
  <2>3. q.op = i /\ (q.resume => i # 0)
    BY <1>1, <1>3 DEF RequestRecords
  <2>4. q.key = req[r].key /\ q.kind = req[r].kind /\ q.new = req[r].new
    BY <1>1 DEF RequestRecords
  <2> QED BY <2>2, <2>3, <2>4
<1> HIDE DEF q
<1>8. req'[r] = q /\ pc'[r] = "persist" => RequestOK(r)'
  BY <1>1, <1>2, <1>3, <1>5, <1>6, <1>7
  DEF RequestOK, DeleteLabels, ReplaceLabels, WriterLabels, CallLabels, OpTypes
<1> QED BY <1>5, <1>6, <1>7, <1>8, StepTyped DEF Labels

\* Resuming a persisted operation keeps the types.
LEMMA ResumeTyped ==
  ASSUME HandInv, NEW r \in Requests, ResumeOperation(r) PROVE HandInv'
<1>1. TypeOK /\ RequestOK(r) /\ req[r] \in RequestRecords
  BY RequestTyped DEF HandInv
<1>2. RestTyped' /\ ops' = ops /\ req' = req
  BY <1>1 DEF ResumeOperation, RestTyped, TypeOK, StoreTypeOK, store, bounds
<1>3. pc'[r] = "mark" => RequestOK(r)'
  BY <1>1, <1>2 DEF ResumeOperation, RequestOK, DeleteLabels, ReplaceLabels,
                    WriterLabels, CallLabels
<1> QED BY <1>2, <1>3, GoStepTyped DEF ResumeOperation, Labels

\* The row create_or_resume_operation inserts is an operation.
LEMMA NewOperationTyped ==
  ASSUME NEW request \in RequestRecords, request.key \in Keys,
         request.kind \in OpTypes
  PROVE  NewOperation(request) \in Operations
BY DEF NewOperation, Operations, RequestRecords, NoSteps, OpStatuses, StepStates

\* Inserting a new operation keeps the types, and the request points at it.
LEMMA CreateTyped ==
  ASSUME HandInv, NEW r \in Requests, CreateOperation(r) PROVE HandInv'
<1> DEFINE kept == IF req[r].op = 0 THEN ops
                   ELSE [ops EXCEPT ![req[r].op].status = "completed"]
           q == [req[r] EXCEPT !.op = Len(ops) + 1]
<1>1. TypeOK /\ RequestOK(r) /\ req[r] \in RequestRecords /\ ops \in Seq(Operations)
  BY RequestTyped DEF HandInv, TypeOK, StoreTypeOK
<1>2. pc[r] = "persist" /\ req[r].op \in DOMAIN ops \cup {0}
      /\ req[r].key \in Keys /\ req[r].kind \in OpTypes
  BY <1>1 DEF CreateOperation, RequestOK
<1>3. kept \in Seq(Operations) /\ Len(kept) = Len(ops)
  <2>1. CASE req[r].op = 0
    BY <1>1, <2>1
  <2>2. CASE req[r].op # 0
    <3> DEFINE closed == [ops[req[r].op] EXCEPT !.status = "completed"]
    <3>1. req[r].op \in 1 .. Len(ops)
      BY <1>1, <1>2, <2>2, LenProperties
    <3>2. closed \in Operations
      <4>1. ops[req[r].op] \in Operations
        BY <1>1, <3>1, ElementOfSeq
      <4> QED BY <4>1 DEF Operations, OpStatuses
    <3>3. kept = [ops EXCEPT ![req[r].op] = closed]
      BY <2>2
    <3> HIDE DEF kept, closed
    <3> QED BY <1>1, <3>1, <3>2, <3>3, ExceptSeq
  <2> QED BY <2>1, <2>2
<1>4. NewOperation(req[r]) \in Operations /\ ops' = Append(kept, NewOperation(req[r]))
  BY <1>1, <1>2, NewOperationTyped DEF CreateOperation
<1> HIDE DEF kept
<1>5. ops' \in Seq(Operations) /\ Len(ops') = Len(ops) + 1
  BY <1>3, <1>4, AppendProperties
<1>6. Len(ops) \in Nat /\ DOMAIN ops = 1 .. Len(ops) /\ DOMAIN ops' = 1 .. Len(ops')
  BY <1>1, <1>5, LenProperties
<1>7. DOMAIN ops \subseteq DOMAIN ops' /\ Len(ops) + 1 \in DOMAIN ops'
  BY <1>5, <1>6
<1>8. RestTyped'
  BY <1>1, <1>5 DEF CreateOperation, RestTyped, TypeOK, StoreTypeOK, bounds
<1>9. q \in RequestRecords /\ q.op = Len(ops) + 1
      /\ q.key = req[r].key /\ q.kind = req[r].kind /\ q.new = req[r].new
  <2>1. req[r] \in RequestRecords /\ Len(ops) + 1 \in Nat
    BY <1>1, <1>6
  <2> QED BY <2>1, SMTT(60) DEF RequestRecords
<1>10. Update(r, q) /\ Go(r, "mark")
  BY DEF CreateOperation
<1> HIDE DEF q
<1>11. req'[r] = q /\ pc'[r] = "mark" => RequestOK(r)'
  BY <1>1, <1>2, <1>7, <1>9
  DEF RequestOK, DeleteLabels, ReplaceLabels, WriterLabels, CallLabels
<1> QED BY <1>7, <1>8, <1>9, <1>10, <1>11, StepTyped DEF Labels

\* mark_panels_pending_delete keeps the types.
LEMMA MarkTyped ==
  ASSUME HandInv, NEW r \in Requests, MarkPending(r) PROVE HandInv'
<1>1. TypeOK /\ RequestOK(r) /\ req[r] \in RequestRecords
  BY RequestTyped DEF HandInv
<1>2. row' \in [Keys -> [Panels -> RowStates]]
  BY <1>1 DEF MarkPending, MarkPanelsPendingDelete, TypeOK, StoreTypeOK, RowStates
<1>3. RestTyped' /\ ops' = ops /\ req' = req /\ pc[r] = "mark"
  BY <1>1, <1>2 DEF MarkPending, RestTyped, TypeOK, StoreTypeOK, bounds
<1>4. pc'[r] = "begin" => RequestOK(r)'
  BY <1>1, <1>3 DEF RequestOK, DeleteLabels, ReplaceLabels, WriterLabels, CallLabels
<1> QED BY <1>3, <1>4, GoStepTyped DEF MarkPending, Labels

\* The start of _execute_delete_phase keeps the types.
LEMMA BeginDeleteTyped ==
  ASSUME HandInv, NEW r \in Requests, BeginDelete(r) PROVE HandInv'
<1> DEFINE q == [req[r] EXCEPT !.todo = DeleteTodo(r)]
           operation == [Op(r) EXCEPT !.status = "deleting",
                                      !.delete = EnsureSteps(@, Op(r).source)]
<1>1. TypeOK /\ RequestOK(r) /\ req[r] \in RequestRecords
  BY RequestTyped DEF HandInv
<1>2. req[r].op \in DOMAIN ops /\ Op(r) \in Operations
  BY <1>1, OperationTyped DEF BeginDelete, RequestOK, DeleteLabels, Op
<1>3. operation \in Operations
  BY <1>2, StepsTyped DEF Operations, OpStatuses
<1>4. DeleteTodo(r) \subseteq Panels
  BY <1>2 DEF DeleteTodo, Operations
<1>5. ops' \in Seq(Operations) /\ DOMAIN ops' = DOMAIN ops
  BY <1>1, <1>2, <1>3, ChangeTyped DEF BeginDelete
<1>6. RestTyped'
  BY <1>1, <1>5 DEF BeginDelete, RestTyped, TypeOK, StoreTypeOK, bounds
<1>7. q \in RequestRecords /\ q.op = req[r].op
      /\ q.key = req[r].key /\ q.kind = req[r].kind /\ q.new = req[r].new
  BY <1>1, <1>4 DEF RequestRecords
<1>8. Update(r, q) /\ Go(r, "delete") /\ pc[r] = "begin"
  BY DEF BeginDelete
<1> HIDE DEF q
<1>9. req'[r] = q /\ pc'[r] = "delete" => RequestOK(r)'
  BY <1>1, <1>5, <1>7, <1>8
  DEF RequestOK, DeleteLabels, ReplaceLabels, WriterLabels, CallLabels
<1> QED BY <1>5, <1>6, <1>7, <1>8, <1>9, StepTyped DEF Labels

\* A delete call of the CRM keeps the types, whatever it answers.
LEMMA SendRemoveTyped ==
  ASSUME HandInv, NEW r \in Requests, NEW p \in Panels, SendRemove(r, p)
  PROVE  HandInv'
<1>1. TypeOK /\ RequestOK(r) /\ req[r] \in RequestRecords
  BY RequestTyped DEF HandInv
<1>2. PICK a \in CrmAnswers :
        /\ crm' = IF a.applied THEN [crm EXCEPT ![req[r].key] = @ \ {p}] ELSE crm
        /\ Update(r, [req[r] EXCEPT !.panel = p, !.answer = a.confirmed])
  BY DEF SendRemove
<1> DEFINE q == [req[r] EXCEPT !.panel = p, !.answer = a.confirmed]
<1>3. RestTyped' /\ ops' = ops
  BY <1>1, <1>2 DEF SendRemove, RestTyped, TypeOK, StoreTypeOK, store, bounds
<1>4. a.confirmed \in BOOLEAN
  BY DEF CrmAnswers
<1>5. q \in RequestRecords /\ q.op = req[r].op /\ q.panel = p
      /\ q.key = req[r].key /\ q.kind = req[r].kind /\ q.new = req[r].new
  BY ZenonT(60), <1>1, <1>4 DEF RequestRecords
<1>6. Update(r, q) /\ Go(r, "recordRow") /\ pc[r] = "delete"
  BY <1>2 DEF SendRemove
<1> HIDE DEF q
<1>7. req'[r] = q /\ pc'[r] = "recordRow" => RequestOK(r)'
  BY <1>1, <1>3, <1>5, <1>6
  DEF RequestOK, DeleteLabels, ReplaceLabels, WriterLabels, CallLabels
<1> QED BY <1>3, <1>5, <1>6, <1>7, StepTyped DEF Labels

\* record_panel_result keeps the types.
LEMMA RecordRowTyped ==
  ASSUME HandInv, NEW r \in Requests, RecordRow(r) PROVE HandInv'
<1>1. TypeOK /\ RequestOK(r) /\ req[r] \in RequestRecords
  BY RequestTyped DEF HandInv
<1>2. row' \in [Keys -> [Panels -> RowStates]]
  BY <1>1 DEF RecordRow, RecordPanelDelete, TypeOK, StoreTypeOK, RowStates
<1>3. RestTyped' /\ ops' = ops /\ req' = req /\ pc[r] = "recordRow"
  BY <1>1, <1>2 DEF RecordRow, RestTyped, TypeOK, StoreTypeOK, bounds
<1>4. pc'[r] = "recordStep" => RequestOK(r)'
  BY <1>1, <1>3 DEF RequestOK, DeleteLabels, ReplaceLabels, WriterLabels, CallLabels
<1> QED BY <1>3, <1>4, GoStepTyped DEF RecordRow, Labels

\* record_step_result keeps the types.
LEMMA RecordStepTyped ==
  ASSUME HandInv, NEW r \in Requests, RecordStep(r) PROVE HandInv'
<1> DEFINE q == [req[r] EXCEPT !.todo = @ \ {req[r].panel}, !.panel = NoPanel]
           step == StepResult(req[r].answer)
<1>1. TypeOK /\ RequestOK(r) /\ req[r] \in RequestRecords
  BY RequestTyped DEF HandInv
<1>2. req[r].op \in DOMAIN ops /\ Op(r) \in Operations
  BY <1>1, OperationTyped DEF RecordStep, RequestOK, DeleteLabels, Op
<1>3. [Op(r) EXCEPT !.delete[req[r].panel] = step] \in Operations
  BY <1>2 DEF Operations, StepResult, StepStates
<1>4. ops' \in Seq(Operations) /\ DOMAIN ops' = DOMAIN ops
  BY <1>1, <1>2, <1>3, ChangeTyped DEF RecordStep, RecordDeleteStep, Op
<1>5. RestTyped'
  BY <1>1, <1>4 DEF RecordStep, RestTyped, TypeOK, StoreTypeOK, bounds
<1>6. q \in RequestRecords /\ q.op = req[r].op
      /\ q.key = req[r].key /\ q.kind = req[r].kind /\ q.new = req[r].new
  BY ZenonT(60), <1>1 DEF RequestRecords
<1>7. Update(r, q) /\ Go(r, "delete") /\ pc[r] = "recordStep"
  BY DEF RecordStep
<1> HIDE DEF q
<1>8. req'[r] = q /\ pc'[r] = "delete" => RequestOK(r)'
  BY <1>1, <1>4, <1>6, <1>7
  DEF RequestOK, DeleteLabels, ReplaceLabels, WriterLabels, CallLabels
<1> QED BY <1>4, <1>5, <1>6, <1>7, <1>8, StepTyped DEF Labels

\* A request that closes its operation and answers.
LEMMA EndTyped ==
  ASSUME HandInv, NEW r \in Requests, pc[r] \in DeleteLabels \cup ReplaceLabels,
         NEW status \in OpStatuses, SetOperationStatus(req[r].op, status),
         NEW outcome \in Outcomes, Reply(r, outcome),
         UNCHANGED <<keyStatus, assignment, place, serial, row, crm, lock,
                     unconfirmed, bounds>>
  PROVE  HandInv'
<1>1. TypeOK /\ RequestOK(r)
  BY DEF HandInv
<1>2. req[r].op \in DOMAIN ops
  BY <1>1 DEF RequestOK
<1>3. ops' \in Seq(Operations) /\ DOMAIN ops' = DOMAIN ops
  BY <1>1, <1>2, StatusTyped
<1>4. RestTyped'
  BY <1>1, <1>3 DEF RestTyped, TypeOK, StoreTypeOK, bounds
<1>5. pc[r] # "idle"
  BY DEF DeleteLabels, ReplaceLabels
<1> QED BY <1>3, <1>4, <1>5, ReplyTyped

\* The early return after an incomplete delete phase keeps the types.
LEMMA FailDeleteTyped ==
  ASSUME HandInv, NEW r \in Requests, FailDelete(r) PROVE HandInv'
<1>1. PICK status \in OpStatuses, outcome \in Outcomes :
        SetOperationStatus(req[r].op, status) /\ Reply(r, outcome)
  BY DEF FailDelete, OpStatuses, Outcomes
<1> QED BY <1>1, EndTyped DEF FailDelete, DeleteLabels

\* The end of a complete delete phase keeps the types.
LEMMA EndDeleteTyped ==
  ASSUME HandInv, NEW r \in Requests, EndDelete(r) PROVE HandInv'
<1>1. TypeOK /\ RequestOK(r)
  BY DEF HandInv
<1>2. RestTyped' /\ ops' = ops /\ req' = req /\ pc[r] = "delete"
  BY <1>1 DEF EndDelete, RestTyped, TypeOK, StoreTypeOK, store, bounds
<1>3. pc'[r] = "finalize" => RequestOK(r)'
  BY <1>1, <1>2 DEF RequestOK, DeleteLabels, ReplaceLabels, WriterLabels, CallLabels
<1> QED BY <1>2, <1>3, GoStepTyped DEF EndDelete, Labels

\* finalize_release keeps the types.
LEMMA FinalizeTyped ==
  ASSUME HandInv, NEW r \in Requests, Finalize(r) PROVE HandInv'
<1>1. TypeOK /\ RequestOK(r)
  BY DEF HandInv
<1>2. req[r].op \in DOMAIN ops /\ Op(r) \in Operations
  BY <1>1, OperationTyped DEF Finalize, RequestOK, DeleteLabels, Op
<1>3. Op(r).final \in KeyStatuses
  BY <1>2 DEF Operations
<1>4. /\ keyStatus' \in [Keys -> KeyStatuses]
      /\ assignment' \in [Keys -> Nat]
      /\ place' \in [Keys -> Places \cup {NoPlace}]
  BY <1>1, <1>3 DEF Finalize, FinalizeRelease, TypeOK, StoreTypeOK
<1>5. RestTyped' /\ ops' = ops /\ req' = req /\ pc[r] = "finalize"
  BY <1>1, <1>4 DEF Finalize, RestTyped, TypeOK, StoreTypeOK, bounds
<1>6. PICK label \in {"ensure", "close"} : Go(r, label)
  BY DEF Finalize
<1>7. pc'[r] = label => RequestOK(r)'
  BY <1>1, <1>5 DEF RequestOK, DeleteLabels, ReplaceLabels, WriterLabels, CallLabels
<1> QED BY <1>5, <1>6, <1>7, GoStepTyped DEF Labels

\* The ValueError of finalize_release keeps the types.
LEMMA FinalizeRefusedTyped ==
  ASSUME HandInv, NEW r \in Requests, FinalizeRefused(r) PROVE HandInv'
<1>1. RestTyped' /\ ops' = ops
  BY DEF FinalizeRefused, HandInv, RestTyped, TypeOK, StoreTypeOK, store, bounds
<1> QED BY <1>1, ReplyTyped DEF FinalizeRefused, Outcomes

\* A resumed write phase, which skips the release, keeps the types.
LEMMA SkipFinalizeTyped ==
  ASSUME HandInv, NEW r \in Requests, SkipFinalize(r) PROVE HandInv'
<1>1. TypeOK /\ RequestOK(r)
  BY DEF HandInv
<1>2. RestTyped' /\ ops' = ops /\ req' = req /\ pc[r] = "finalize"
  BY <1>1 DEF SkipFinalize, RestTyped, TypeOK, StoreTypeOK, store, bounds
<1>3. pc'[r] = "close" => RequestOK(r)'
  BY <1>1, <1>2 DEF RequestOK, DeleteLabels, ReplaceLabels, WriterLabels, CallLabels
<1> QED BY <1>2, <1>3, GoStepTyped DEF SkipFinalize, Labels

\* The status after the release keeps the types.
LEMMA CloseReleaseTyped ==
  ASSUME HandInv, NEW r \in Requests, CloseRelease(r) PROVE HandInv'
<1>1. TypeOK /\ RequestOK(r) /\ pc[r] = "close"
  BY DEF HandInv, CloseRelease
<1>2. CASE req[r].kind = "reassign"
  <2>1. req[r].op \in DOMAIN ops
    BY <1>1 DEF RequestOK, DeleteLabels
  <2>2. ops' \in Seq(Operations) /\ DOMAIN ops' = DOMAIN ops
    BY <1>1, <1>2, <2>1, StatusTyped DEF CloseRelease, OpStatuses
  <2>3. RestTyped' /\ req' = req
    BY <1>1, <1>2, <2>2 DEF CloseRelease, RestTyped, TypeOK, StoreTypeOK, bounds
  <2>4. pc'[r] = "ensure" => RequestOK(r)'
    BY <1>1, <2>2, <2>3
    DEF RequestOK, DeleteLabels, ReplaceLabels, WriterLabels, CallLabels
  <2> QED BY <1>2, <2>2, <2>3, <2>4, GoStepTyped DEF CloseRelease, Labels
<1>3. CASE req[r].kind # "reassign"
  BY <1>3, EndTyped DEF CloseRelease, DeleteLabels, OpStatuses, Outcomes
<1> QED BY <1>2, <1>3

\* Creating the steps of the write phase keeps the types.
LEMMA EnsureTyped ==
  ASSUME HandInv, NEW r \in Requests, EnsureWrite(r) PROVE HandInv'
<1> DEFINE steps == EnsureSteps(Op(r).write, WriteTargets(r))
           status == IF req[r].kind = "replace" THEN "writing" ELSE Op(r).status
           operation == [Op(r) EXCEPT !.write = steps, !.status = status]
           q == [req[r] EXCEPT !.todo = Unfinished(steps),
                               !.pending = Unfinished(steps)]
<1>1. TypeOK /\ RequestOK(r) /\ req[r] \in RequestRecords /\ pc[r] = "ensure"
  BY RequestTyped DEF HandInv, EnsureWrite
<1>2. req[r].op \in DOMAIN ops /\ Op(r) \in Operations
  BY <1>1, OperationTyped DEF RequestOK, DeleteLabels, Op
<1>3. steps \in [Panels -> StepStates] /\ status \in OpStatuses
  BY <1>2, StepsTyped DEF Operations, OpStatuses
<1>4. Unfinished(steps) \subseteq Panels
  BY DEF Unfinished
<1>5. ChangeOperation(req[r].op, operation) /\ Update(r, q)
  BY DEF EnsureWrite
<1>6. PICK label \in {"recordSteps", "lock"} : Go(r, label)
  BY DEF EnsureWrite
<1> HIDE DEF steps, status
<1>7. operation \in Operations
  BY <1>2, <1>3 DEF Operations
<1> HIDE DEF operation
<1>8. ops' \in Seq(Operations) /\ DOMAIN ops' = DOMAIN ops
  BY <1>1, <1>2, <1>5, <1>7, ChangeTyped
<1>9. RestTyped'
  BY <1>1, <1>8 DEF EnsureWrite, RestTyped, TypeOK, StoreTypeOK, bounds
<1>10. q \in RequestRecords /\ q.op = req[r].op
      /\ q.key = req[r].key /\ q.kind = req[r].kind /\ q.new = req[r].new
  BY ZenonT(60), <1>1, <1>4 DEF RequestRecords
<1> HIDE DEF q
<1>11. req'[r] = q /\ pc'[r] = label => RequestOK(r)'
  BY <1>1, <1>8, <1>10
  DEF RequestOK, DeleteLabels, ReplaceLabels, WriterLabels, CallLabels
<1> QED BY <1>5, <1>6, <1>8, <1>9, <1>10, <1>11, StepTyped DEF Labels

\* Getting the advisory lock and the second look keep the types.
LEMMA AcquireTyped ==
  ASSUME HandInv, NEW r \in Requests, AcquireLock(r) PROVE HandInv'
<1> DEFINE q == [req[r] EXCEPT !.known = KnownPanels(r)]
<1>1. TypeOK /\ RequestOK(r) /\ req[r] \in RequestRecords /\ pc[r] = "lock"
  BY RequestTyped DEF HandInv, AcquireLock
<1>2. lock' \in [Keys -> Requests \cup {NoRequester}]
  BY <1>1 DEF AcquireLock, TypeOK
<1>3. RestTyped' /\ ops' = ops
  BY <1>1, <1>2 DEF AcquireLock, RestTyped, TypeOK, StoreTypeOK, store, bounds
<1>4. KnownPanels(r) \subseteq Panels
  BY <1>1 DEF KnownPanels, Live, RequestRecords
<1>5. q \in RequestRecords /\ q.op = req[r].op
      /\ q.key = req[r].key /\ q.kind = req[r].kind /\ q.new = req[r].new
  BY <1>1, <1>4 DEF RequestRecords
<1>6. Update(r, q) /\ Go(r, "write")
  BY DEF AcquireLock
<1> HIDE DEF q
<1>7. req'[r] = q /\ pc'[r] = "write" => RequestOK(r)'
  BY <1>1, <1>3, <1>5
  DEF RequestOK, DeleteLabels, ReplaceLabels, WriterLabels, CallLabels
<1> QED BY <1>3, <1>5, <1>6, <1>7, StepTyped DEF Labels

\* ALREADY_ON_PANEL keeps the types.
LEMMA SkipKnownTyped ==
  ASSUME HandInv, NEW r \in Requests, NEW p \in Panels, SkipKnown(r, p)
  PROVE  HandInv'
<1> DEFINE q == [req[r] EXCEPT !.todo = @ \ {p}, !.wrote = @ \cup {p}]
<1>1. TypeOK /\ RequestOK(r) /\ req[r] \in RequestRecords /\ pc[r] = "write"
  BY RequestTyped DEF HandInv, SkipKnown
<1>2. RestTyped' /\ ops' = ops
  BY <1>1 DEF SkipKnown, RestTyped, TypeOK, StoreTypeOK, store, bounds
<1>3. q \in RequestRecords /\ q.op = req[r].op
      /\ q.key = req[r].key /\ q.kind = req[r].kind /\ q.new = req[r].new
  BY ZenonT(60), <1>1 DEF RequestRecords
<1>4. Update(r, q) /\ UNCHANGED pc
  BY DEF SkipKnown
<1> HIDE DEF q
<1>5. req'[r] = q /\ pc'[r] = pc[r] => RequestOK(r)'
  BY <1>1, <1>2, <1>3
  DEF RequestOK, DeleteLabels, ReplaceLabels, WriterLabels, CallLabels
<1> QED BY <1>2, <1>3, <1>4, <1>5, LocalStepTyped

\* KEY_UNAVAILABLE keeps the types.
LEMMA RefuseWriteTyped ==
  ASSUME HandInv, NEW r \in Requests, NEW p \in Panels, RefuseWrite(r, p)
  PROVE  HandInv'
<1> DEFINE q == [req[r] EXCEPT !.todo = @ \ {p}]
<1>1. TypeOK /\ RequestOK(r) /\ req[r] \in RequestRecords /\ pc[r] = "write"
  BY RequestTyped DEF HandInv, RefuseWrite
<1>2. row' \in [Keys -> [Panels -> RowStates]]
  BY <1>1 DEF RefuseWrite, RecordPanelWrite, TypeOK, StoreTypeOK, RowStates
<1>3. RestTyped' /\ ops' = ops
  BY <1>1, <1>2 DEF RefuseWrite, RestTyped, TypeOK, StoreTypeOK, bounds
<1>4. q \in RequestRecords /\ q.op = req[r].op
      /\ q.key = req[r].key /\ q.kind = req[r].kind /\ q.new = req[r].new
  BY <1>1 DEF RequestRecords
<1>5. Update(r, q) /\ UNCHANGED pc
  BY DEF RefuseWrite
<1> HIDE DEF q
<1>6. req'[r] = q /\ pc'[r] = pc[r] => RequestOK(r)'
  BY <1>1, <1>3, <1>4
  DEF RequestOK, DeleteLabels, ReplaceLabels, WriterLabels, CallLabels
<1> QED BY <1>3, <1>4, <1>5, <1>6, LocalStepTyped

\* A create call of the CRM keeps the types, whatever it answers.
LEMMA SendAddTyped ==
  ASSUME HandInv, NEW r \in Requests, NEW p \in Panels, SendAdd(r, p)
  PROVE  HandInv'
<1>1. TypeOK /\ RequestOK(r) /\ req[r] \in RequestRecords /\ pc[r] = "write"
  BY RequestTyped DEF HandInv, SendAdd
<1>2. PICK a \in CrmAnswers :
        /\ crm' = IF a.applied THEN [crm EXCEPT ![WriteKey(r)] = @ \cup {p}]
                               ELSE crm
        /\ Update(r, [req[r] EXCEPT !.panel = p, !.answer = a.confirmed])
  BY DEF SendAdd
<1> DEFINE q == [req[r] EXCEPT !.panel = p, !.answer = a.confirmed]
<1>3. RestTyped' /\ ops' = ops
  BY <1>1, <1>2 DEF SendAdd, RestTyped, TypeOK, StoreTypeOK, store, bounds
<1>4. a.confirmed \in BOOLEAN
  BY DEF CrmAnswers
<1>5. q \in RequestRecords /\ q.op = req[r].op /\ q.panel = p
      /\ q.key = req[r].key /\ q.kind = req[r].kind /\ q.new = req[r].new
  BY ZenonT(60), <1>1, <1>4 DEF RequestRecords
<1>6. Update(r, q) /\ Go(r, "recordAdd")
  BY <1>2 DEF SendAdd
<1> HIDE DEF q
<1>7. req'[r] = q /\ pc'[r] = "recordAdd" => RequestOK(r)'
  BY <1>1, <1>3, <1>5
  DEF RequestOK, DeleteLabels, ReplaceLabels, WriterLabels, CallLabels
<1> QED BY <1>3, <1>5, <1>6, <1>7, StepTyped DEF Labels

\* record_write_result keeps the types.
LEMMA RecordAddTyped ==
  ASSUME HandInv, NEW r \in Requests, RecordAdd(r) PROVE HandInv'
<1> DEFINE wrote == IF req[r].answer THEN req[r].wrote \cup {req[r].panel}
                                     ELSE req[r].wrote
           q == [req[r] EXCEPT !.todo = @ \ {req[r].panel}, !.panel = NoPanel,
                               !.wrote = wrote]
<1>1. TypeOK /\ RequestOK(r) /\ req[r] \in RequestRecords /\ pc[r] = "recordAdd"
  BY RequestTyped DEF HandInv, RecordAdd
<1>2. req[r].panel \in Panels
  BY <1>1 DEF RequestOK, CallLabels
<1>3. row' \in [Keys -> [Panels -> RowStates]]
  BY <1>1 DEF RecordAdd, RecordPanelWrite, TypeOK, StoreTypeOK, RowStates
<1>4. unconfirmed' \in [Keys -> SUBSET Panels]
  BY <1>1, <1>2 DEF RecordAdd, TypeOK
<1>5. RestTyped' /\ ops' = ops
  BY <1>1, <1>3, <1>4 DEF RecordAdd, RestTyped, TypeOK, StoreTypeOK, bounds
<1>6. wrote \subseteq Panels
  BY <1>1, <1>2 DEF RequestRecords
<1>7. Update(r, q) /\ Go(r, "write")
  BY DEF RecordAdd
<1> HIDE DEF wrote
<1>8. q \in RequestRecords /\ q.op = req[r].op
      /\ q.key = req[r].key /\ q.kind = req[r].kind /\ q.new = req[r].new
  BY ZenonT(60), <1>1, <1>6 DEF RequestRecords
<1> HIDE DEF q
<1>9. req'[r] = q /\ pc'[r] = "write" => RequestOK(r)'
  BY <1>1, <1>5, <1>8
  DEF RequestOK, DeleteLabels, ReplaceLabels, WriterLabels, CallLabels
<1> QED BY <1>5, <1>7, <1>8, <1>9, StepTyped DEF Labels

\* A new row, an edited one or none: the assignment keeps its type.
LEMMA AssignmentTyped ==
  ASSUME TypeOK, NEW k \in Keys, NEW where \in Places \cup {NoPlace},
         SetKeyAssignment(k, where) \/ NewAssignment(k, where)
  PROVE  /\ keyStatus' \in [Keys -> KeyStatuses]
         /\ assignment' \in [Keys -> Nat]
         /\ place' \in [Keys -> Places \cup {NoPlace}]
         /\ serial' \in Nat
<1>1. TypeOK /\ "issued" \in KeyStatuses
  BY DEF KeyStatuses
<1>2. CASE NewAssignment(k, where)
  BY <1>1, <1>2 DEF NewAssignment, TypeOK, StoreTypeOK
<1>3. CASE KeepAssignment(k, where)
  BY <1>1, <1>3 DEF KeepAssignment, TypeOK, StoreTypeOK
<1> QED BY <1>2, <1>3 DEF SetKeyAssignment

\* The assignment and the access the writer leaves behind are well typed.
LEMMA AttachTyped ==
  ASSUME TypeOK, NEW r \in Requests, req[r].key \in Keys, Attach(r)
  PROVE  /\ keyStatus' \in [Keys -> KeyStatuses]
         /\ assignment' \in [Keys -> Nat]
         /\ place' \in [Keys -> Places \cup {NoPlace}]
         /\ serial' \in Nat
<1>1. req[r].where \in Places \cup {NoPlace}
  BY RequestTyped DEF RequestRecords
<1>2. CASE SetKeyAssignment(req[r].key, req[r].where)
  BY <1>1, <1>2, AssignmentTyped
<1>3. CASE place' = [place EXCEPT ![req[r].key] = req[r].where]
           /\ UNCHANGED <<keyStatus, assignment, serial>>
  BY <1>1, <1>3 DEF TypeOK, StoreTypeOK
<1>4. CASE UNCHANGED <<keyStatus, assignment, place, serial>>
  BY <1>4 DEF TypeOK, StoreTypeOK
<1> QED BY <1>2, <1>3, <1>4 DEF Attach

\* The return from the writer, with the lock released, keeps the types.
LEMMA ReturnTyped ==
  ASSUME HandInv, NEW r \in Requests, ReturnFromWriter(r) PROVE HandInv'
<1>1. TypeOK /\ RequestOK(r) /\ req[r] \in RequestRecords /\ pc[r] = "write"
  BY RequestTyped DEF HandInv, ReturnFromWriter
<1>2. req[r].key \in Keys
  BY <1>1 DEF RequestOK
<1>3. lock' \in [Keys -> Requests \cup {NoRequester}]
  BY <1>1 DEF ReturnFromWriter, Unlock, TypeOK
<1>4. /\ keyStatus' \in [Keys -> KeyStatuses]
      /\ assignment' \in [Keys -> Nat]
      /\ place' \in [Keys -> Places \cup {NoPlace}]
      /\ serial' \in Nat
  BY <1>1, <1>2, AttachTyped DEF ReturnFromWriter
<1>5. RestTyped' /\ ops' = ops
  BY <1>1, <1>3, <1>4 DEF ReturnFromWriter, RestTyped, TypeOK, StoreTypeOK, bounds
<1>6. CASE req[r].kind \in {"write", "add"}
  <2>1. WriterOutcome(r) \in Outcomes
    BY DEF WriterOutcome, Outcomes
  <2> QED BY <1>1, <1>5, <1>6, <2>1, ReplyTyped DEF ReturnFromWriter
<1>7. CASE req[r].kind \notin {"write", "add"}
  <2> DEFINE q == [req[r] EXCEPT !.todo = req[r].pending]
  <2>1. q \in RequestRecords /\ q.op = req[r].op
        /\ q.key = req[r].key /\ q.kind = req[r].kind /\ q.new = req[r].new
    BY <1>1 DEF RequestRecords
  <2>2. Update(r, q) /\ Go(r, "recordSteps")
    BY <1>7 DEF ReturnFromWriter
  <2>3. req[r].kind \in OpTypes
    <3>1. req[r].kind # "none"
      BY <1>1 DEF RequestOK, WriterLabels
    <3> QED BY <1>1, <1>7, <3>1 DEF RequestRecords
  <2> HIDE DEF q
  <2>4. req'[r] = q /\ pc'[r] = "recordSteps" => RequestOK(r)'
    BY <1>1, <1>5, <2>1, <2>3
    DEF RequestOK, DeleteLabels, ReplaceLabels, WriterLabels, CallLabels
  <2> QED BY <1>5, <2>1, <2>2, <2>4, StepTyped DEF Labels
<1> QED BY <1>6, <1>7

\* The result of one step of the write phase keeps the types.
LEMMA RecordWrittenTyped ==
  ASSUME HandInv, NEW r \in Requests, NEW p \in Panels, RecordWritten(r, p)
  PROVE  HandInv'
<1> DEFINE q == [req[r] EXCEPT !.todo = @ \ {p}]
           step == StepResult(p \in req[r].wrote)
<1>1. TypeOK /\ RequestOK(r) /\ req[r] \in RequestRecords /\ pc[r] = "recordSteps"
  BY RequestTyped DEF HandInv, RecordWritten
<1>2. req[r].op \in DOMAIN ops /\ Op(r) \in Operations
  BY <1>1, OperationTyped DEF RequestOK, DeleteLabels, Op
<1>3. [Op(r) EXCEPT !.write[p] = step] \in Operations
  BY <1>2 DEF Operations, StepResult, StepStates
<1>4. ops' \in Seq(Operations) /\ DOMAIN ops' = DOMAIN ops
  BY <1>1, <1>2, <1>3, ChangeTyped DEF RecordWritten, RecordWriteStep, Op
<1>5. RestTyped'
  BY <1>1, <1>4 DEF RecordWritten, RestTyped, TypeOK, StoreTypeOK, bounds
<1>6. q \in RequestRecords /\ q.op = req[r].op
      /\ q.key = req[r].key /\ q.kind = req[r].kind /\ q.new = req[r].new
  BY <1>1 DEF RequestRecords
<1>7. Update(r, q) /\ UNCHANGED pc
  BY DEF RecordWritten
<1> HIDE DEF q
<1>8. req'[r] = q /\ pc'[r] = pc[r] => RequestOK(r)'
  BY <1>1, <1>4, <1>6
  DEF RequestOK, DeleteLabels, ReplaceLabels, WriterLabels, CallLabels
<1> QED BY <1>4, <1>5, <1>6, <1>7, <1>8, LocalStepTyped

\* The last status of a reassignment keeps the types.
LEMMA FinishReassignTyped ==
  ASSUME HandInv, NEW r \in Requests, FinishReassign(r) PROVE HandInv'
<1>1. PICK status \in OpStatuses, outcome \in Outcomes :
        SetOperationStatus(req[r].op, status) /\ Reply(r, outcome)
  BY DEF FinishReassign, OpStatuses, Outcomes
<1> QED BY <1>1, EndTyped DEF FinishReassign, DeleteLabels

\* The check for unfinished writes of a replacement keeps the types.
LEMMA FinishReplaceTyped ==
  ASSUME HandInv, NEW r \in Requests, FinishReplace(r) PROVE HandInv'
<1>1. TypeOK /\ RequestOK(r) /\ req[r].kind = "replace" /\ pc[r] = "recordSteps"
  BY DEF HandInv, FinishReplace
<1>2. CASE WriteIncomplete(r)
  <2>1. SetOperationStatus(req[r].op, "partial") /\ Reply(r, "PARTIAL")
        /\ UNCHANGED <<keyStatus, assignment, place, serial, row, crm, lock,
                       unconfirmed, bounds>>
    BY <1>2 DEF FinishReplace
  <2>2. "partial" \in OpStatuses /\ "PARTIAL" \in Outcomes /\ pc[r] \in DeleteLabels
    BY <1>1 DEF OpStatuses, Outcomes, DeleteLabels
  <2> QED BY <2>1, <2>2, EndTyped
<1>3. CASE ~WriteIncomplete(r)
  <2>1. Go(r, "assignNew") /\ UNCHANGED <<ops, req>>
    BY <1>3 DEF FinishReplace
  <2>2. RestTyped'
    BY <1>1, <2>1 DEF FinishReplace, RestTyped, TypeOK, StoreTypeOK, bounds
  <2>3. pc'[r] = "assignNew" => RequestOK(r)'
    BY <1>1, <2>1
    DEF RequestOK, DeleteLabels, ReplaceLabels, WriterLabels, CallLabels
  <2> QED BY <2>1, <2>2, <2>3, GoStepTyped DEF Labels
<1> QED BY <1>2, <1>3

\* The assignment of the new key keeps the types.
LEMMA AssignNewTyped ==
  ASSUME HandInv, NEW r \in Requests, AssignNew(r) PROVE HandInv'
<1>1. TypeOK /\ RequestOK(r) /\ pc[r] = "assignNew"
  BY DEF HandInv, AssignNew
<1>2. req[r].op \in DOMAIN ops /\ Op(r) \in Operations /\ req[r].new \in Keys
  BY <1>1, OperationTyped DEF RequestOK, ReplaceLabels, Op
<1>3. /\ keyStatus' \in [Keys -> KeyStatuses]
      /\ assignment' \in [Keys -> Nat]
      /\ place' \in [Keys -> Places \cup {NoPlace}]
      /\ serial' \in Nat
  <2>1. Op(r).place \in Places \cup {NoPlace}
    BY <1>2 DEF Operations
  <2>2. CASE NewAssignment(req[r].new, Op(r).place)
    BY <1>1, <1>2, <2>1, <2>2, AssignmentTyped
  <2>3. CASE UNCHANGED <<keyStatus, assignment, place, serial>>
    BY <1>1, <2>3 DEF TypeOK, StoreTypeOK
  <2> QED BY <2>2, <2>3 DEF AssignNew
<1>4. RestTyped' /\ ops' = ops /\ req' = req
  BY <1>1, <1>3 DEF AssignNew, RestTyped, TypeOK, StoreTypeOK, bounds
<1>5. pc'[r] = "clone" => RequestOK(r)'
  BY <1>1, <1>4 DEF RequestOK, DeleteLabels, ReplaceLabels, WriterLabels, CallLabels
<1> QED BY <1>4, <1>5, GoStepTyped DEF AssignNew, Labels

\* clone_snapshot_accesses keeps the types.
LEMMA CloneTyped ==
  ASSUME HandInv, NEW r \in Requests, CloneAccesses(r) PROVE HandInv'
<1>1. TypeOK /\ RequestOK(r) /\ pc[r] = "clone"
  BY DEF HandInv, CloneAccesses
<1>2. req[r].op \in DOMAIN ops /\ Op(r) \in Operations
  BY <1>1, OperationTyped DEF RequestOK, ReplaceLabels, Op
<1>3. place' \in [Keys -> Places \cup {NoPlace}]
  <2>1. Op(r).place \in Places \cup {NoPlace}
    BY <1>2 DEF Operations
  <2> QED BY <1>1, <2>1 DEF CloneAccesses, TypeOK, StoreTypeOK
<1>4. RestTyped' /\ ops' = ops /\ req' = req
  BY <1>1, <1>3 DEF CloneAccesses, RestTyped, TypeOK, StoreTypeOK, bounds
<1>5. pc'[r] = "complete" => RequestOK(r)'
  BY <1>1, <1>4 DEF RequestOK, DeleteLabels, ReplaceLabels, WriterLabels, CallLabels
<1> QED BY <1>4, <1>5, GoStepTyped DEF CloneAccesses, Labels

\* Completing a replacement keeps the types.
LEMMA CompleteTyped ==
  ASSUME HandInv, NEW r \in Requests, CompleteReplace(r) PROVE HandInv'
BY EndTyped DEF CompleteReplace, ReplaceLabels, OpStatuses, Outcomes

\* The record of a thread that serves nobody is a request record.
LEMMA NoRequestTyped == NoRequest \in RequestRecords /\ NoRequest.kind = "none"
BY DEF NoRequest, RequestRecords, KeyStatuses, OpStatuses, Outcomes

\* A request that is over has nothing in hand.
LEMMA IdleTyped ==
  ASSUME HandInv, NEW r \in Requests, Go(r, "idle"), Update(r, NoRequest),
         RestTyped', ops' = ops
  PROVE  HandInv'
<1>1. req'[r] = NoRequest /\ pc'[r] = "idle" => RequestOK(r)'
  BY NoRequestTyped
  DEF RequestOK, DeleteLabels, ReplaceLabels, WriterLabels, CallLabels, OpTypes
<1> QED BY <1>1, NoRequestTyped, StepTyped DEF Labels

\* The answer of a route keeps the types.
LEMMA AnswerTyped ==
  ASSUME HandInv, NEW r \in Requests, Answer(r) PROVE HandInv'
<1>1. RestTyped' /\ ops' = ops
  BY DEF Answer, HandInv, RestTyped, TypeOK, StoreTypeOK, store, bounds
<1> QED BY <1>1, IdleTyped DEF Answer

\* The loss of a worker keeps the types.
LEMMA CrashTyped ==
  ASSUME HandInv, NEW r \in Requests, Crash(r) PROVE HandInv'
<1>1. TypeOK /\ RequestOK(r)
  BY DEF HandInv
<1>2. lock' \in [Keys -> Requests \cup {NoRequester}]
  BY <1>1 DEF Crash, TypeOK
<1>3. unconfirmed' \in [Keys -> SUBSET Panels]
  <2>1. CASE pc[r] = "recordAdd"
    <3>1. req[r].panel \in Panels
      BY <1>1, <2>1 DEF RequestOK, CallLabels
    <3> QED BY <1>1, <2>1, <3>1 DEF Crash, TypeOK
  <2>2. CASE pc[r] # "recordAdd"
    BY <1>1, <2>2 DEF Crash, TypeOK
  <2> QED BY <2>1, <2>2
<1>4. RestTyped' /\ ops' = ops
  BY <1>1, <1>2, <1>3 DEF Crash, RestTyped, TypeOK, StoreTypeOK, store
<1> QED BY <1>4, IdleTyped DEF Crash

\* An assignment edited without any panel keeps the types.
LEMMA AssignLocallyTyped ==
  ASSUME HandInv, NEW k \in Keys, NEW where \in Places, AssignLocally(k, where)
  PROVE  HandInv'
<1>1. TypeOK
  BY DEF HandInv
<1>2. RestTyped' /\ ops' = ops /\ pc' = pc /\ req' = req
  BY <1>1, AssignmentTyped
  DEF AssignLocally, Admit, RestTyped, TypeOK, StoreTypeOK
<1>3. TypeOK'
  BY <1>1, <1>2 DEF TypeOK, RestTyped
<1>4. \A s \in Requests : RequestOK(s)'
  BY <1>2, OthersOK
<1> QED BY <1>3, <1>4 DEF HandInv

\* Every step of a running request keeps the types.
LEMMA ProgressTyped ==
  ASSUME HandInv, NEW r \in Requests, Progress(r) PROVE HandInv'
<1>1. CASE \E p \in Panels : \/ SendRemove(r, p) \/ SkipKnown(r, p)
                             \/ RefuseWrite(r, p) \/ SendAdd(r, p)
                             \/ RecordWritten(r, p)
  BY <1>1, SendRemoveTyped, SkipKnownTyped, RefuseWriteTyped, SendAddTyped,
     RecordWrittenTyped
<1>2. CASE \/ FindOperation(r) \/ ResumeOperation(r) \/ CreateOperation(r)
           \/ MarkPending(r) \/ BeginDelete(r) \/ RecordRow(r) \/ RecordStep(r)
           \/ FailDelete(r) \/ EndDelete(r)
  BY <1>2, FindTyped, ResumeTyped, CreateTyped, MarkTyped, BeginDeleteTyped,
     RecordRowTyped, RecordStepTyped, FailDeleteTyped, EndDeleteTyped
<1>3. CASE \/ Finalize(r) \/ FinalizeRefused(r) \/ SkipFinalize(r)
           \/ CloseRelease(r) \/ EnsureWrite(r) \/ RecordAdd(r)
           \/ ReturnFromWriter(r)
  BY <1>3, FinalizeTyped, FinalizeRefusedTyped, SkipFinalizeTyped,
     CloseReleaseTyped, EnsureTyped, RecordAddTyped, ReturnTyped
<1>4. CASE \/ FinishReassign(r) \/ FinishReplace(r) \/ AssignNew(r)
           \/ CloneAccesses(r) \/ CompleteReplace(r) \/ Answer(r)
  BY <1>4, FinishReassignTyped, FinishReplaceTyped, AssignNewTyped, CloneTyped,
     CompleteTyped, AnswerTyped
<1> QED BY <1>1, <1>2, <1>3, <1>4 DEF Progress

\* Every step of the system keeps the types.
LEMMA NextTyped ==
  ASSUME HandInv, [Next]_vars PROVE HandInv'
<1>1. CASE Next
  BY <1>1, BeginTyped, ProgressTyped, AcquireTyped, CrashTyped,
     AssignLocallyTyped DEF Next
<1>2. CASE UNCHANGED vars
  BY <1>2 DEF vars, store, bounds, HandInv, TypeOK, StoreTypeOK, RequestOK
<1> QED BY <1>1, <1>2

-----------------------------------------------------------------------------
(* Who a step moves, and what it leaves in hand.                           *)

\* A step of r leaves the other requests where they are.
OnlyMoves(r) ==
  \A s \in Requests \ {r} : pc'[s] = pc[s] /\ req'[s] = req[s]

Acts(r) == Begin(r) \/ Progress(r) \/ AcquireLock(r) \/ Crash(r)

\* An action that moves r with Go and Update moves nobody else.
LEMMA GoMoves ==
  ASSUME TypeOK, NEW r \in Requests, NEW label,
         Go(r, label) \/ UNCHANGED pc, NEW q, Update(r, q) \/ UNCHANGED req
  PROVE  OnlyMoves(r)
BY DEF TypeOK, Go, Update, OnlyMoves

\* An action that answers for r moves nobody else.
LEMMA ReplyMoves ==
  ASSUME TypeOK, NEW r \in Requests, NEW outcome, Reply(r, outcome)
  PROVE  OnlyMoves(r) /\ pc'[r] = "reply"
BY GoMoves DEF Reply, Go, TypeOK

\* The two shapes every action of a request has.
LEMMA StepMoves ==
  ASSUME TypeOK, NEW r \in Requests, Acts(r) PROVE OnlyMoves(r)
<1>1. CASE Begin(r)
  BY ZenonT(60), <1>1, GoMoves DEF Begin, StartRelease, StartReassign, StartReplace,
                             StartWrite, StartAdd, Start
<1>2. CASE \E p \in Panels : \/ SendRemove(r, p) \/ SkipKnown(r, p)
                             \/ RefuseWrite(r, p) \/ SendAdd(r, p)
                             \/ RecordWritten(r, p)
  BY <1>2, GoMoves
  DEF SendRemove, SkipKnown, RefuseWrite, SendAdd, RecordWritten
<1>3. CASE \/ FindOperation(r) \/ ResumeOperation(r) \/ CreateOperation(r)
           \/ MarkPending(r) \/ BeginDelete(r) \/ RecordRow(r) \/ RecordStep(r)
           \/ EndDelete(r) \/ Finalize(r) \/ SkipFinalize(r)
  BY <1>3, GoMoves
  DEF FindOperation, ResumeOperation, CreateOperation, MarkPending, BeginDelete,
      RecordRow, RecordStep, EndDelete, Finalize, SkipFinalize
<1>4. CASE \/ FailDelete(r) \/ FinalizeRefused(r) \/ FinishReassign(r)
           \/ CompleteReplace(r)
  BY <1>4, ReplyMoves
  DEF FailDelete, FinalizeRefused, FinishReassign, CompleteReplace
<1>5. CASE CloseRelease(r) \/ ReturnFromWriter(r) \/ FinishReplace(r)
  BY <1>5, GoMoves, ReplyMoves
  DEF CloseRelease, ReturnFromWriter, FinishReplace
<1>6. CASE \/ EnsureWrite(r) \/ RecordAdd(r) \/ AssignNew(r) \/ CloneAccesses(r)
           \/ Answer(r) \/ AcquireLock(r) \/ Crash(r)
  BY <1>6, GoMoves
  DEF EnsureWrite, RecordAdd, AssignNew, CloneAccesses, Answer, AcquireLock, Crash
<1> QED BY <1>1, <1>2, <1>3, <1>4, <1>5, <1>6 DEF Acts, Progress

SameKeys(r) == /\ req'[r].key = req[r].key
               /\ req'[r].new = req[r].new
               /\ req'[r].kind = req[r].kind

\* The local changes that leave the keys alone.
Edits(request, x, y, z) ==
  {[request EXCEPT !.outcome = x], [request EXCEPT !.todo = x],
   [request EXCEPT !.known = x], [request EXCEPT !.op = x],
   [request EXCEPT !.panel = x, !.answer = y],
   [request EXCEPT !.todo = x, !.panel = y],
   [request EXCEPT !.todo = x, !.pending = y],
   [request EXCEPT !.todo = x, !.wrote = y],
   [request EXCEPT !.op = x, !.resume = y, !.loaded = z],
   [request EXCEPT !.todo = x, !.panel = y, !.wrote = z]}

\* The local changes of the actions leave the kind and the keys of a request.
LEMMA EditKeeps ==
  ASSUME NEW request \in RequestRecords, NEW x, NEW y, NEW z,
         NEW q \in Edits(request, x, y, z)
  PROVE  q.key = request.key /\ q.new = request.new /\ q.kind = request.kind
<1>1. CASE q = [request EXCEPT !.panel = x, !.answer = y]
  BY <1>1 DEF RequestRecords
<1>2. CASE q = [request EXCEPT !.todo = x, !.panel = y]
  BY <1>2 DEF RequestRecords
<1>3. CASE q = [request EXCEPT !.todo = x, !.pending = y]
  BY <1>3 DEF RequestRecords
<1>4. CASE q = [request EXCEPT !.todo = x, !.wrote = y]
  BY <1>4 DEF RequestRecords
<1>5. CASE q = [request EXCEPT !.op = x, !.resume = y, !.loaded = z]
  BY <1>5 DEF RequestRecords
<1>6. CASE q = [request EXCEPT !.todo = x, !.panel = y, !.wrote = z]
  BY <1>6 DEF RequestRecords
<1>7. CASE \/ q = [request EXCEPT !.outcome = x] \/ q = [request EXCEPT !.todo = x]
           \/ q = [request EXCEPT !.known = x] \/ q = [request EXCEPT !.op = x]
  BY <1>7 DEF RequestRecords
<1> QED BY <1>1, <1>2, <1>3, <1>4, <1>5, <1>6, <1>7 DEF Edits

\* A request keeps its keys until it is over.
LEMMA StepKeepsKeys ==
  ASSUME TypeOK, NEW r \in Requests, Progress(r) \/ AcquireLock(r) \/ Crash(r)
  PROVE  pc'[r] = "idle" \/ SameKeys(r)
<1>0. /\ pc \in [Requests -> Labels]
      /\ req \in [Requests -> RequestRecords]
      /\ req[r] \in RequestRecords
  BY RequestTyped DEF TypeOK
<1>1. CASE UNCHANGED req
  BY <1>1 DEF SameKeys
<1>2. ASSUME NEW x, NEW y, NEW z, NEW q \in Edits(req[r], x, y, z), Update(r, q)
      PROVE  SameKeys(r)
  <2>1. q.key = req[r].key /\ q.new = req[r].new /\ q.kind = req[r].kind
    BY <1>0, <1>2, EditKeeps
  <2> QED BY <1>0, <1>2, <2>1 DEF Update, SameKeys
<1>3. CASE \E x, y, z : \E q \in Edits(req[r], x, y, z) : Update(r, q)
  BY <1>2, <1>3
<1>5. CASE Go(r, "idle")
  BY <1>0, <1>5 DEF Go
<1>6. CASE \E p \in Panels : \/ SendRemove(r, p) \/ SkipKnown(r, p)
                             \/ RefuseWrite(r, p) \/ SendAdd(r, p)
                             \/ RecordWritten(r, p)
  <2>1. \E x, y, z : \E q \in Edits(req[r], x, y, z) : Update(r, q)
    BY ZenonT(60), <1>6
    DEF SendRemove, SkipKnown, RefuseWrite, SendAdd, RecordWritten, Edits
  <2> QED BY SMTT(60), <1>3, <2>1
<1>7. CASE \/ ResumeOperation(r) \/ MarkPending(r) \/ RecordRow(r)
           \/ EndDelete(r) \/ Finalize(r) \/ SkipFinalize(r) \/ AssignNew(r)
           \/ CloneAccesses(r) \/ Answer(r) \/ Crash(r)
  BY <1>1, <1>5, <1>7
  DEF ResumeOperation, MarkPending, RecordRow, EndDelete, Finalize,
      SkipFinalize, AssignNew, CloneAccesses, Answer, Crash
<1>8. CASE \/ FailDelete(r) \/ FinalizeRefused(r) \/ FinishReassign(r)
           \/ CompleteReplace(r) \/ CloseRelease(r) \/ FinishReplace(r)
           \/ ReturnFromWriter(r)
  <2>1. UNCHANGED req \/ \E x, y, z : \E q \in Edits(req[r], x, y, z) : Update(r, q)
    BY ZenonT(60), <1>8
    DEF FailDelete, FinalizeRefused, FinishReassign, CompleteReplace,
        CloseRelease, FinishReplace, ReturnFromWriter, Reply, Edits
  <2> QED BY <1>1, <1>3, <2>1
<1>9. CASE \/ RecordStep(r) \/ EnsureWrite(r) \/ FindOperation(r) \/ RecordAdd(r)
           \/ BeginDelete(r) \/ CreateOperation(r) \/ AcquireLock(r)
  <2>1. \E x, y, z : \E q \in Edits(req[r], x, y, z) : Update(r, q)
    BY ZenonT(60), <1>9
    DEF RecordStep, EnsureWrite, FindOperation, RecordAdd, BeginDelete,
        CreateOperation, AcquireLock, Edits
  <2> QED BY <1>3, <2>1
<1> QED BY <1>6, <1>7, <1>8, <1>9 DEF Progress

\* Only a thread that serves a request makes a step of a service.
LEMMA ActsBusy ==
  ASSUME NEW r \in Requests, Progress(r) \/ AcquireLock(r) \/ Crash(r)
  PROVE  pc[r] # "idle"
BY DEF Progress, SendRemove, SkipKnown, RefuseWrite, SendAdd, RecordWritten,
       FindOperation, ResumeOperation, CreateOperation, MarkPending,
       BeginDelete, RecordRow, RecordStep, FailDelete, EndDelete, Finalize,
       FinalizeRefused, SkipFinalize, CloseRelease, EnsureWrite, RecordAdd,
       ReturnFromWriter, FinishReassign, FinishReplace, AssignNew,
       CloneAccesses, CompleteReplace, Answer, AcquireLock, Crash

\* The request a route hands to a service is of some kind.
LEMMA BegunKind ==
  ASSUME TypeOK, NEW r \in Requests, Begin(r) PROVE req'[r].kind # "none"
<1>1. ASSUME NEW kind \in {"write", "add"} \cup OpTypes, NEW k \in Keys,
             NEW v, NEW w, NEW x, NEW y
      PROVE  LET s == Snapshot(kind, k)
             IN /\ [s EXCEPT !.final = v].kind # "none"
                /\ [s EXCEPT !.where = v, !.wanted = w].kind # "none"
                /\ [[s EXCEPT !.where = v, !.wanted = w]
                       EXCEPT !.target = x, !.to = y].kind # "none"
                /\ [s EXCEPT !.new = v, !.final = w, !.seen = x].kind # "none"
                /\ [s EXCEPT !.where = v, !.todo = w, !.pending = x].kind # "none"
                /\ [s EXCEPT !.where = v, !.todo = w, !.pending = x,
                             !.known = y].kind # "none"
  <2>1. Snapshot(kind, k) \in RequestRecords /\ Snapshot(kind, k).kind = kind
    BY SnapshotTyped
  <2>2. kind # "none"
    BY DEF OpTypes
  <2> QED BY <2>1, <2>2 DEF RequestRecords
<1>2. \E ks, label, request :
        Start(r, ks, label, request) /\ request.kind # "none"
  <2>1. CASE StartRelease(r)
    <3>1. PICK k \in Keys, final \in {"free", "retired"} :
            Start(r, {k}, "find",
                  [Snapshot("release", k) EXCEPT !.final = final])
      BY <2>1 DEF StartRelease
    <3>2. ([Snapshot("release", k) EXCEPT !.final = final]).kind # "none"
      BY <1>1 DEF OpTypes
    <3> QED BY <3>1, <3>2
  <2>2. CASE StartReassign(r)
    <3>1. PICK k \in Keys, where \in Places, wanted \in (SUBSET Panels) \ {{}} :
            \E request \in
              {[Snapshot("reassign", k) EXCEPT !.where = where, !.wanted = wanted],
               [[Snapshot("reassign", k) EXCEPT !.where = where, !.wanted = wanted]
                 EXCEPT !.target = wanted, !.to = where]} :
              Start(r, {k}, "find", request)
      BY <2>2 DEF StartReassign
    <3>2. [Snapshot("reassign", k) EXCEPT !.where = where,
                                          !.wanted = wanted].kind # "none"
      BY <1>1 DEF OpTypes
    <3>3. [[Snapshot("reassign", k) EXCEPT !.where = where, !.wanted = wanted]
             EXCEPT !.target = wanted, !.to = where].kind # "none"
      BY <1>1 DEF OpTypes
    <3> QED BY <3>1, <3>2, <3>3
  <2>3. CASE StartReplace(r)
    <3>1. PICK old, new \in Keys :
            Start(r, {old, new}, "find",
                  [Snapshot("replace", old) EXCEPT
                     !.new = new, !.final = "retired", !.seen = keyStatus[new]])
      BY <2>3 DEF StartReplace
    <3>2. ([Snapshot("replace", old) EXCEPT
                     !.new = new, !.final = "retired", !.seen = keyStatus[new]]).kind # "none"
      BY <1>1 DEF OpTypes
    <3> QED BY <3>1, <3>2
  <2>4. CASE StartWrite(r)
    <3>1. PICK k \in Keys, where \in Places,
               panels \in (SUBSET Panels) \ {{}} :
            Start(r, {k}, "lock",
                  [Snapshot("write", k) EXCEPT
                     !.where = where, !.todo = panels, !.pending = panels])
      BY <2>4 DEF StartWrite
    <3>2. ([Snapshot("write", k) EXCEPT
                     !.where = where, !.todo = panels, !.pending = panels]).kind # "none"
      BY <1>1 DEF OpTypes
    <3> QED BY <3>1, <3>2
  <2>5. CASE StartAdd(r)
    <3>1. PICK k \in Keys, where \in Places,
               panels \in (SUBSET Panels) \ {{}}, known \in SUBSET Panels :
            Start(r, {k}, "lock",
                  [Snapshot("add", k) EXCEPT !.where = where,
                     !.todo = panels, !.pending = panels, !.known = known])
      BY <2>5 DEF StartAdd, Live
    <3>2. ([Snapshot("add", k) EXCEPT !.where = where,
                     !.todo = panels, !.pending = panels, !.known = known]).kind # "none"
      BY <1>1 DEF OpTypes
    <3> QED BY <3>1, <3>2
  <2> QED BY <2>1, <2>2, <2>3, <2>4, <2>5 DEF Begin
<1> QED BY <1>2 DEF Start, Update, TypeOK

\* Every thread that is not idle goes on serving somebody.
LEMMA ServedStep ==
  ASSUME TypeInv, [Next]_vars PROVE Served'
<1>0. TypeOK /\ Served
  BY DEF TypeInv
<1>1. ASSUME NEW r \in Requests, Acts(r) PROVE Served'
  <2>1. \A s \in Requests \ {r} : pc'[s] = pc[s] /\ req'[s] = req[s]
    BY <1>0, <1>1, StepMoves DEF OnlyMoves
  <2>2. pc'[r] # "idle" => req'[r].kind # "none"
    <3>1. CASE Begin(r)
      BY <1>0, <3>1, BegunKind
    <3>2. CASE Progress(r) \/ AcquireLock(r) \/ Crash(r)
      BY <1>0, <3>2, StepKeepsKeys, ActsBusy DEF SameKeys, Served
    <3> QED BY <1>1, <3>1, <3>2 DEF Acts
  <2> QED BY <1>0, <2>1, <2>2 DEF Served
<1>2. CASE UNCHANGED <<pc, req>>
  BY <1>0, <1>2 DEF Served
<1>3. \/ \E r \in Requests : Acts(r)
      \/ UNCHANGED <<pc, req>>
  BY DEF Next, Acts, AssignLocally, vars
<1> QED BY <1>1, <1>2, <1>3

\* Every reachable state is well typed, and every running request points at
\* an operation of its own kind and keys: release_key, reassign_key and
\* replace_key pass the row of create_or_resume_operation on unchanged.
THEOREM TypeInvariance == Spec => []TypeInv
<1>1. Init => TypeInv
  BY InitTyped DEF TypeInv, HandInv, Init, Served
<1>2. TypeInv /\ [Next]_vars => TypeInv'
  BY NextTyped, ServedStep DEF TypeInv, HandInv
<1> QED BY <1>1, <1>2, PTL DEF Spec

\* Every variable keeps its type, in every reachable state, and so does every
\* row the store holds: what TypeOK says, for any number of keys and panels.
THEOREM TypeCorrect == Spec => []TypeOK
<1>1. TypeInv => TypeOK
  BY DEF TypeInv
<1> QED BY <1>1, TypeInvariance, PTL

-----------------------------------------------------------------------------
(* What a step of one request leaves to the others.                        *)

\* A step of one request moves no other.
LEMMA ActsMove ==
  ASSUME TypeInv, NEW r \in Requests, Acts(r) PROVE OnlyMoves(r)
BY StepMoves DEF TypeInv

\* A request keeps its keys until it is over.
LEMMA KeysKept ==
  ASSUME TypeInv, NEW r \in Requests, Progress(r) \/ AcquireLock(r) \/ Crash(r)
  PROVE  pc'[r] = "idle" \/ SameKeys(r)
BY StepKeepsKeys DEF TypeInv

-----------------------------------------------------------------------------
(* The advisory lock.                                                      *)

Writing(r) == pc[r] \in {"write", "recordAdd"}

\* Who writes holds the lock of the key.
LockHeld == \A r \in Requests : Writing(r) => lock[WriteKey(r)] = r

\* The key a running request programs is a key.
LEMMA WriteKeyTyped ==
  ASSUME TypeInv, NEW r \in Requests, pc[r] # "idle" PROVE WriteKey(r) \in Keys
BY DEF TypeInv, RequestOK, Served, WriteKey

\* A request that keeps its kind and its keys programs the same key.
LEMMA SameWriteKey ==
  ASSUME TypeOK, NEW r \in Requests, NEW q, Update(r, q),
         q.kind = req[r].kind, q.key = req[r].key, q.new = req[r].new
  PROVE  WriteKey(r)' = WriteKey(r)
BY DEF TypeOK, Update, WriteKey

\* Steps outside the writer leave the lock alone.
LEMMA LockUnchanged ==
  ASSUME TypeInv, NEW r \in Requests, Acts(r), lock' # lock
  PROVE  AcquireLock(r) \/ ReturnFromWriter(r) \/ Crash(r)
<1>1. CASE Begin(r)
  BY ZenonT(60), <1>1 DEF Begin, StartRelease, StartReassign, StartReplace, StartWrite,
              StartAdd, Start
<1>2. CASE Progress(r)
  BY <1>2 DEF Progress, SendRemove, SkipKnown, RefuseWrite, SendAdd,
    RecordWritten, FindOperation, ResumeOperation, CreateOperation, MarkPending,
    BeginDelete, RecordRow, RecordStep, FailDelete, EndDelete, Finalize,
    FinalizeRefused, SkipFinalize, CloseRelease, EnsureWrite, RecordAdd,
    FinishReassign, FinishReplace, AssignNew, CloneAccesses, CompleteReplace,
    Answer
<1> QED BY SMTT(60), <1>1, <1>2 DEF Acts

\* Only AcquireLock enters the writer, and there the key does not change.
LEMMA WriterEntered ==
  ASSUME TypeInv, NEW r \in Requests, Acts(r), Writing(r)'
  PROVE  \/ AcquireLock(r) /\ WriteKey(r)' = WriteKey(r)
         \/ Writing(r) /\ lock' = lock /\ WriteKey(r)' = WriteKey(r)
<1>0. TypeOK /\ pc \in [Requests -> Labels] /\ req \in [Requests -> RequestRecords]
      /\ req[r] \in RequestRecords
  BY RequestTyped DEF TypeInv, TypeOK
<1>1. CASE AcquireLock(r)
  BY <1>0, <1>1 DEF AcquireLock, Update, WriteKey, RequestRecords
<1>2. CASE \E p \in Panels : SkipKnown(r, p) \/ RefuseWrite(r, p) \/ SendAdd(r, p)
  <2>1. PICK p \in Panels : SkipKnown(r, p) \/ RefuseWrite(r, p) \/ SendAdd(r, p)
    BY <1>2
  <2>2. Writing(r) /\ lock' = lock
    BY <2>1 DEF SkipKnown, RefuseWrite, SendAdd, Writing
  <2>3. ASSUME SkipKnown(r, p) PROVE WriteKey(r)' = WriteKey(r)
    <3> DEFINE q == [req[r] EXCEPT !.todo = @ \ {p}, !.wrote = @ \cup {p}]
    <3>1. q.kind = req[r].kind /\ q.key = req[r].key /\ q.new = req[r].new
      BY <1>0 DEF RequestRecords
    <3>2. Update(r, q)
      BY <2>3 DEF SkipKnown
    <3> HIDE DEF q
    <3> QED BY <1>0, <3>1, <3>2, SameWriteKey
  <2>4. ASSUME RefuseWrite(r, p) PROVE WriteKey(r)' = WriteKey(r)
    <3> DEFINE q == [req[r] EXCEPT !.todo = @ \ {p}]
    <3>1. q.kind = req[r].kind /\ q.key = req[r].key /\ q.new = req[r].new
      BY <1>0 DEF RequestRecords
    <3>2. Update(r, q)
      BY <2>4 DEF RefuseWrite
    <3> HIDE DEF q
    <3> QED BY <1>0, <3>1, <3>2, SameWriteKey
  <2>5. ASSUME SendAdd(r, p) PROVE WriteKey(r)' = WriteKey(r)
    <3>1. PICK a \in CrmAnswers :
            Update(r, [req[r] EXCEPT !.panel = p, !.answer = a.confirmed])
      BY <2>5 DEF SendAdd
    <3> DEFINE q == [req[r] EXCEPT !.panel = p, !.answer = a.confirmed]
    <3>2. q.kind = req[r].kind /\ q.key = req[r].key /\ q.new = req[r].new
      BY <1>0 DEF RequestRecords
    <3>3. Update(r, q)
      BY <3>1
    <3> HIDE DEF q
    <3> QED BY <1>0, <3>2, <3>3, SameWriteKey
  <2>6. WriteKey(r)' = WriteKey(r)
    BY <2>1, <2>3, <2>4, <2>5
  <2> QED BY <2>2, <2>6
<1>3. CASE RecordAdd(r)
  BY SMTT(60), <1>0, <1>3 DEF RecordAdd, Go, Update, WriteKey, Writing, RequestRecords
<1>4. CASE Begin(r)
  BY ZenonT(60), <1>0, <1>4 DEF Begin, StartRelease, StartReassign, StartReplace, StartWrite,
                    StartAdd, Start, Go, Writing
<1>5. CASE \/ \E p \in Panels : SendRemove(r, p) \/ RecordWritten(r, p)
           \/ FindOperation(r) \/ ResumeOperation(r) \/ CreateOperation(r)
           \/ MarkPending(r) \/ BeginDelete(r) \/ RecordRow(r) \/ RecordStep(r)
           \/ EndDelete(r) \/ Finalize(r) \/ SkipFinalize(r)
  BY <1>0, <1>5
  DEF SendRemove, RecordWritten, FindOperation, ResumeOperation,
      CreateOperation, MarkPending, BeginDelete, RecordRow, RecordStep,
      EndDelete, Finalize, SkipFinalize, Go, Writing
<1>6. CASE \/ FailDelete(r) \/ FinalizeRefused(r) \/ CloseRelease(r)
           \/ EnsureWrite(r) \/ ReturnFromWriter(r) \/ FinishReassign(r)
           \/ FinishReplace(r) \/ AssignNew(r) \/ CloneAccesses(r)
           \/ CompleteReplace(r) \/ Answer(r) \/ Crash(r)
  BY <1>0, <1>6
  DEF FailDelete, FinalizeRefused, CloseRelease, EnsureWrite, ReturnFromWriter,
      FinishReassign, FinishReplace, AssignNew, CloneAccesses, CompleteReplace,
      Answer, Crash, Reply, Go, Writing
<1> QED BY <1>1, <1>2, <1>3, <1>4, <1>5, <1>6 DEF Acts, Progress

\* Every step keeps the advisory lock with those who write.
LEMMA LockStep ==
  ASSUME TypeInv, LockHeld, NEW r \in Requests, Acts(r) PROVE LockHeld'
<1>0. TypeOK /\ lock \in [Keys -> Requests \cup {NoRequester}]
  BY DEF TypeInv, TypeOK
<1>1. Writing(r)' => lock'[WriteKey(r)'] = r
  <2>1. CASE AcquireLock(r) /\ WriteKey(r)' = WriteKey(r)
    <3>1. WriteKey(r) \in Keys
      BY <2>1, WriteKeyTyped DEF AcquireLock
    <3> QED BY <1>0, <2>1, <3>1 DEF AcquireLock
  <2>2. CASE Writing(r) /\ lock' = lock /\ WriteKey(r)' = WriteKey(r)
    BY <2>2 DEF LockHeld
  <2> QED BY <2>1, <2>2, WriterEntered
<1>2. ASSUME NEW s \in Requests \ {r}, Writing(s)' PROVE lock'[WriteKey(s)'] = s
  <2>1. Writing(s) /\ WriteKey(s)' = WriteKey(s)
    BY <1>2, ActsMove DEF OnlyMoves, Writing, WriteKey
  <2>2. lock[WriteKey(s)] = s /\ WriteKey(s) \in Keys /\ s # NoRequester
    BY <2>1, WriteKeyTyped, RequestsAssumption DEF LockHeld, Writing
  <2>3. CASE lock' = lock
    BY <2>1, <2>2, <2>3
  <2>4. CASE AcquireLock(r)
    BY <1>0, <2>1, <2>2, <2>4 DEF AcquireLock, LockFree
  <2>5. CASE ReturnFromWriter(r)
    <3>1. lock[WriteKey(r)] = r /\ WriteKey(r) # WriteKey(s)
      BY <2>2, <2>5 DEF LockHeld, Writing, ReturnFromWriter
    <3> QED BY <1>0, <2>1, <2>2, <2>5, <3>1 DEF ReturnFromWriter, Unlock
  <2>6. CASE Crash(r)
    BY <1>0, <2>1, <2>2, <2>6 DEF Crash
  <2> QED BY <2>3, <2>4, <2>5, <2>6, LockUnchanged
<1> QED BY <1>1, <1>2 DEF LockHeld

\* A step of the system is a step of a request or a local assignment.
LEMMA NextActs ==
  ASSUME Next
  PROVE  \/ \E r \in Requests : Acts(r)
         \/ \E k \in Keys, where \in Places : AssignLocally(k, where)
BY DEF Next, Acts

\* Whoever is in the writer holds the advisory lock of the key it programs
\* (_serialized_key_write), in every reachable state.
THEOREM LockInvariance == Spec => [](TypeInv /\ LockHeld)
<1>1. Init => LockHeld
  BY DEF Init, LockHeld, Writing
<1>2. TypeInv /\ LockHeld /\ [Next]_vars => LockHeld'
  <2> SUFFICES ASSUME TypeInv, LockHeld, [Next]_vars PROVE LockHeld'
    OBVIOUS
  <2>1. CASE \E r \in Requests : Acts(r)
    BY <2>1, LockStep
  <2>2. CASE \E k \in Keys, where \in Places : AssignLocally(k, where)
    BY <2>2 DEF AssignLocally, LockHeld, Writing, WriteKey
  <2>3. CASE UNCHANGED vars
    BY <2>3 DEF vars, LockHeld, Writing, WriteKey
  <2> QED BY <2>1, <2>2, <2>3, NextActs
<1> QED BY <1>1, <1>2, TypeInvariance, PTL DEF Spec

\* One writer per key: pg_advisory_lock in _serialized_key_write keeps two
\* requests, of whatever workers, from programming one key at the same time.
THEOREM OneWriterPerKey == Spec => []WriterExclusive
<1>1. TypeInv /\ LockHeld => WriterExclusive
  BY DEF LockHeld, Writing, WriterExclusive
<1> QED BY <1>1, LockInvariance, PTL

-----------------------------------------------------------------------------
(* One request per key.                                                    *)

\* Requests at work do not share keys.
Disjoint == \A q, r \in Requests :
  q # r /\ pc[q] # "idle" /\ pc[r] # "idle" => Touches(q) \cap Touches(r) = {}

\* What a request has in hand when it has just begun.
LEMMA Began ==
  ASSUME TypeInv, ~Overlap, NEW r \in Requests, Begin(r)
  PROVE  /\ pc[r] = "idle" /\ pc'[r] \in {"find", "lock"}
         /\ UNCHANGED <<crm, row, unconfirmed>>
         /\ \A s \in Requests \ {r} :
              pc[s] # "idle" => Touches(s) \cap Touches(r)' = {}
<1>0. TypeOK /\ pc \in [Requests -> Labels]
  BY DEF TypeInv, TypeOK
<1>1. PICK ks, label, request :
        /\ Start(r, ks, label, request)
        /\ label \in {"find", "lock"}
        /\ {request.key, request.new} \ {NoKey} \subseteq ks
  <2>1. ASSUME NEW kind \in {"write", "add"} \cup OpTypes, NEW k \in Keys
        PROVE  /\ Snapshot(kind, k) \in RequestRecords
               /\ Snapshot(kind, k).key = k /\ Snapshot(kind, k).new = NoKey
    BY <1>0, SnapshotTyped DEF Snapshot, NoRequest
  <2>2. CASE StartRelease(r)
    <3>1. PICK k \in Keys, final \in {"free", "retired"} :
            Start(r, {k}, "find",
              [Snapshot("release", k) EXCEPT !.final = final])
      BY <2>2 DEF StartRelease
    <3> DEFINE q ==
              [Snapshot("release", k) EXCEPT !.final = final]
    <3>2. q.key = k /\ q.new = NoKey
      BY <2>1 DEF RequestRecords, OpTypes
    <3> HIDE DEF q
    <3>3. Start(r, {k}, "find", q)
      BY <3>1 DEF q
    <3> QED BY <3>2, <3>3
  <2>3. CASE StartReassign(r)
    <3>1. PICK k \in Keys, where \in Places, wanted \in (SUBSET Panels) \ {{}} :
            \E request \in
              {[Snapshot("reassign", k) EXCEPT !.where = where, !.wanted = wanted],
               [[Snapshot("reassign", k) EXCEPT !.where = where, !.wanted = wanted]
                 EXCEPT !.target = wanted, !.to = where]} :
            Start(r, {k}, "find", request)
      BY <2>3 DEF StartReassign
    <3> DEFINE short == [Snapshot("reassign", k) EXCEPT !.where = where,
                                                        !.wanted = wanted]
               long == [short EXCEPT !.target = wanted, !.to = where]
    <3>2. short \in RequestRecords /\ short.key = k /\ short.new = NoKey
      <4>1. LET snapshot == Snapshot("reassign", k)
            IN  snapshot \in RequestRecords /\ snapshot.key = k /\ snapshot.new = NoKey
        BY <2>1 DEF OpTypes
      <4> QED BY ZenonT(60), <4>1 DEF RequestRecords
    <3>3. PICK request \in {short, long} : Start(r, {k}, "find", request)
      BY <3>1
    <3> HIDE DEF short
    <3>4. request.key = k /\ request.new = NoKey
      <4>1. long.key = short.key /\ long.new = short.new
        BY <3>2 DEF RequestRecords
      <4> QED BY <3>2, <3>3, <4>1
    <3> QED BY SMTT(60), <3>3, <3>4
  <2>4. CASE StartReplace(r)
    <3>1. PICK old, new \in Keys :
            Start(r, {old, new}, "find",
              [Snapshot("replace", old) EXCEPT
                 !.new = new, !.final = "retired", !.seen = keyStatus[new]])
      BY <2>4 DEF StartReplace
    <3> DEFINE q ==
              [Snapshot("replace", old) EXCEPT
                 !.new = new, !.final = "retired", !.seen = keyStatus[new]]
    <3>2. q.key = old /\ q.new = new
      BY <2>1 DEF RequestRecords, OpTypes
    <3> HIDE DEF q
    <3>3. Start(r, {old, new}, "find", q)
      BY <3>1 DEF q
    <3> QED BY <3>2, <3>3
  <2>5. CASE StartWrite(r)
    <3>1. PICK k \in Keys, where \in Places, panels \in (SUBSET Panels) \ {{}} :
            Start(r, {k}, "lock",
              [Snapshot("write", k) EXCEPT
                 !.where = where, !.todo = panels, !.pending = panels])
      BY <2>5 DEF StartWrite
    <3> DEFINE q ==
              [Snapshot("write", k) EXCEPT
                 !.where = where, !.todo = panels, !.pending = panels]
    <3>2. q.key = k /\ q.new = NoKey
      BY <2>1 DEF RequestRecords, OpTypes
    <3> HIDE DEF q
    <3>3. Start(r, {k}, "lock", q)
      BY <3>1 DEF q
    <3> QED BY <3>2, <3>3
  <2>6. CASE StartAdd(r)
    <3>1. PICK k \in Keys, where \in Places, panels \in (SUBSET Panels) \ {{}},
               known \in SUBSET Panels :
            Start(r, {k}, "lock",
              [Snapshot("add", k) EXCEPT !.where = where,
                 !.todo = panels, !.pending = panels, !.known = known])
      BY <2>6 DEF StartAdd, Live
    <3> DEFINE q ==
              [Snapshot("add", k) EXCEPT !.where = where,
                 !.todo = panels, !.pending = panels, !.known = known]
    <3>2. q.key = k /\ q.new = NoKey
      BY <2>1 DEF RequestRecords, OpTypes
    <3> HIDE DEF q
    <3>3. Start(r, {k}, "lock", q)
      BY <3>1 DEF q
    <3> QED BY <3>2, <3>3
  <2> QED BY <2>2, <2>3, <2>4, <2>5, <2>6 DEF Begin
<1>2. req'[r] = request /\ pc'[r] = label
  BY <1>0, <1>1 DEF Start, Go, Update, TypeOK
<1>3. Touches(r)' \subseteq ks
  BY <1>1, <1>2 DEF Touches
<1> QED BY <1>1, <1>2, <1>3 DEF Start, Admit, store

\* Without overlap, requests at work keep to keys of their own.
LEMMA DisjointStep ==
  ASSUME TypeInv, ~Overlap, Disjoint, NEW r \in Requests, Acts(r)
  PROVE  Disjoint'
<1>1. ASSUME NEW s \in Requests \ {r}, pc'[s] # "idle", pc'[r] # "idle"
      PROVE  (Touches(s) \cap Touches(r) = {})'
  <2>1. pc'[s] = pc[s] /\ Touches(s)' = Touches(s)
    BY <1>1, ActsMove DEF OnlyMoves, Touches
  <2>2. CASE Begin(r)
    BY <1>1, <2>1, <2>2, Began
  <2>3. CASE ~Begin(r)
    <3>1. Touches(r)' = Touches(r)
      BY SMTT(60), <1>1, <2>3, KeysKept DEF Acts, SameKeys, Touches
    <3>2. pc[r] # "idle"
      BY <2>3, <1>1 DEF Acts, Progress, AcquireLock, Crash, SendRemove,
        SkipKnown, RefuseWrite, SendAdd, RecordWritten, FindOperation,
        ResumeOperation, CreateOperation, MarkPending, BeginDelete, RecordRow,
        RecordStep, FailDelete, EndDelete, Finalize, FinalizeRefused,
        SkipFinalize, CloseRelease, EnsureWrite, RecordAdd, ReturnFromWriter,
        FinishReassign, FinishReplace, AssignNew, CloneAccesses,
        CompleteReplace, Answer
    <3> QED BY <1>1, <2>1, <3>1, <3>2 DEF Disjoint
  <2> QED BY <2>2, <2>3
<1>2. ASSUME NEW s \in Requests \ {r}, NEW q \in Requests \ {r}
      PROVE  /\ pc'[s] = pc[s] /\ Touches(s)' = Touches(s)
             /\ pc'[q] = pc[q] /\ Touches(q)' = Touches(q)
  BY ActsMove DEF OnlyMoves, Touches
<1> QED BY <1>1, <1>2 DEF Disjoint

-----------------------------------------------------------------------------
(* The books and the CRM.                                                  *)

\* An acknowledged delete that is not stored yet: the panel is free of the key.
RemovedIsGone(r) ==
  pc[r] = "recordRow" /\ req[r].answer => req[r].panel \notin crm[req[r].key]

\* The writer knows of every live row among the panels it has left to do.
KnownCovers(r) ==
  Writing(r) => req[r].todo \cap Live(WriteKey(r)) \subseteq req[r].known

InHand(r) == RemovedIsGone(r) /\ KnownCovers(r)

KeyTracked(k) == \A p \in crm[k] :
  p \in Live(k) \/ p \in unconfirmed[k] \/ InFlight(k, p)

Books ==
  /\ Disjoint
  /\ \A r \in Requests : InHand(r)
  /\ \A k \in Keys : KeyTracked(k)

\* Where a step of r may leave a trace.
SameElsewhere(r) == \A k \in Keys \ Touches(r) :
  crm'[k] = crm[k] /\ row'[k] = row[k] /\ unconfirmed'[k] = unconfirmed[k]

\* The key a running request works on and the key it programs are its own.
LEMMA OwnKeys ==
  ASSUME TypeInv, NEW r \in Requests, pc[r] # "idle"
  PROVE  /\ req[r].key \in Keys /\ req[r].key \in Touches(r)
         /\ WriteKey(r) \in Keys /\ WriteKey(r) \in Touches(r)
         /\ Touches(r) \subseteq Keys
<1>1. RequestOK(r) /\ req[r] \in RequestRecords /\ req[r].kind # "none"
  BY RequestTyped DEF TypeInv, Served
<1> QED BY <1>1, NoKeyAssumption DEF RequestOK, Touches, WriteKey, RequestRecords

\* A step of r need only look after r and its own keys.
LEMMA BooksFrame ==
  ASSUME TypeInv, Books, NEW r \in Requests, Acts(r), pc[r] # "idle",
         SameElsewhere(r), Disjoint', InHand(r)',
         \A k \in Touches(r) : KeyTracked(k)'
  PROVE  Books'
<1>1. ASSUME NEW s \in Requests \ {r} PROVE InHand(s)'
  <2>1. pc'[s] = pc[s] /\ req'[s] = req[s]
    BY ActsMove DEF OnlyMoves
  <2>2. CASE pc[s] = "idle"
    BY <2>1, <2>2 DEF InHand, RemovedIsGone, KnownCovers, Writing
  <2>3. CASE pc[s] # "idle"
    <3>1. Touches(s) \cap Touches(r) = {}
      BY <2>3 DEF Books, Disjoint
    <3>2. /\ crm'[req[s].key] = crm[req[s].key]
          /\ row'[WriteKey(s)] = row[WriteKey(s)]
      BY <2>3, <3>1, OwnKeys DEF SameElsewhere
    <3>3. RemovedIsGone(s)'
      BY <2>1, <3>2 DEF Books, InHand, RemovedIsGone
    <3>4. KnownCovers(s)'
      BY <2>1, <3>2 DEF Books, InHand, KnownCovers, Writing, WriteKey, Live
    <3> QED BY <3>3, <3>4 DEF InHand
  <2> QED BY <2>2, <2>3
<1>2. ASSUME NEW k \in Keys \ Touches(r) PROVE KeyTracked(k)'
  <2>1. crm'[k] = crm[k] /\ row'[k] = row[k] /\ unconfirmed'[k] = unconfirmed[k]
    BY DEF SameElsewhere
  <2>2. ASSUME NEW p \in Panels, InFlight(k, p) PROVE InFlight(k, p)'
    <3>1. PICK s \in Requests :
            pc[s] = "recordAdd" /\ WriteKey(s) = k /\ req[s].panel = p
      BY <2>2 DEF InFlight
    <3>2. s # r
      BY <3>1, OwnKeys
    <3>3. pc'[s] = pc[s] /\ req'[s] = req[s]
      BY <3>2, ActsMove DEF OnlyMoves
    <3> QED BY <3>1, <3>3 DEF InFlight, WriteKey
  <2>3. KeyTracked(k) /\ crm[k] \subseteq Panels
    BY DEF Books, TypeInv, TypeOK
  <2> QED BY <2>1, <2>2, <2>3 DEF KeyTracked, Live
<1> QED BY <1>1, <1>2 DEF Books

\* Steps that touch neither the CRM nor the panel rows, and are not the writer's.
Quiet(r) ==
  /\ UNCHANGED <<crm, row, unconfirmed>>
  /\ pc[r] # "recordAdd"
  /\ pc'[r] \notin {"recordRow", "write", "recordAdd"}

\* A step that touches neither the CRM nor the rows keeps the books.
LEMMA QuietBooks ==
  ASSUME TypeOK, Books, NEW r \in Requests, OnlyMoves(r), Quiet(r), Disjoint'
  PROVE  Books'
<1>1. InHand(r)'
  BY DEF Quiet, InHand, RemovedIsGone, KnownCovers, Writing
<1>2. ASSUME NEW s \in Requests \ {r} PROVE InHand(s)'
  <2>1. pc'[s] = pc[s] /\ req'[s] = req[s]
    BY DEF OnlyMoves
  <2> QED BY <2>1 DEF Quiet, Books, InHand, RemovedIsGone, KnownCovers, Writing,
                      WriteKey, Live
<1>3. ASSUME NEW k \in Keys, NEW p \in Panels, InFlight(k, p)
      PROVE  InFlight(k, p)'
  <2>1. PICK s \in Requests :
          pc[s] = "recordAdd" /\ WriteKey(s) = k /\ req[s].panel = p
    BY <1>3 DEF InFlight
  <2>2. pc'[s] = pc[s] /\ req'[s] = req[s]
    BY <2>1 DEF OnlyMoves, Quiet
  <2> QED BY <2>1, <2>2 DEF InFlight, WriteKey
<1>4. ASSUME NEW k \in Keys PROVE KeyTracked(k)'
  <2>1. KeyTracked(k) /\ crm[k] \subseteq Panels
    BY DEF Books, TypeOK
  <2> QED BY <1>3, <2>1 DEF Quiet, KeyTracked, Live
<1> QED BY <1>1, <1>2, <1>4 DEF Books

\* The steps that touch neither the CRM nor the rows.
LEMMA QuietWork ==
  ASSUME TypeOK, NEW r \in Requests, Progress(r) \/ AcquireLock(r) \/ Crash(r)
  PROVE  \/ Quiet(r)
         \/ MarkPending(r) \/ RecordRow(r) \/ RecordAdd(r) \/ AcquireLock(r)
         \/ \E p \in Panels : SendRemove(r, p) \/ SkipKnown(r, p)
                              \/ RefuseWrite(r, p) \/ SendAdd(r, p)
         \/ Crash(r)
<1>0. pc \in [Requests -> Labels]
  BY DEF TypeOK
<1>1. CASE \/ \E p \in Panels : RecordWritten(r, p)
           \/ FindOperation(r) \/ ResumeOperation(r) \/ CreateOperation(r)
           \/ BeginDelete(r) \/ RecordStep(r) \/ EndDelete(r) \/ Finalize(r)
           \/ SkipFinalize(r)
  BY <1>0, <1>1 DEF Quiet, RecordWritten, FindOperation, ResumeOperation,
    CreateOperation, BeginDelete, RecordStep, EndDelete, Finalize, SkipFinalize,
    Go, store
<1>2. CASE \/ FailDelete(r) \/ FinalizeRefused(r) \/ CloseRelease(r)
           \/ EnsureWrite(r) \/ ReturnFromWriter(r) \/ FinishReassign(r)
           \/ FinishReplace(r) \/ AssignNew(r) \/ CloneAccesses(r)
           \/ CompleteReplace(r) \/ Answer(r)
  BY <1>0, <1>2 DEF Quiet, FailDelete, FinalizeRefused, CloseRelease,
    EnsureWrite, ReturnFromWriter, FinishReassign, FinishReplace, AssignNew,
    CloneAccesses, CompleteReplace, Answer, Reply, Go, store
<1> QED BY <1>1, <1>2 DEF Progress

\* The same for any step of a request, if a new one finds its keys untouched.
LEMMA QuietActions ==
  ASSUME TypeInv, ~Overlap, NEW r \in Requests, Acts(r)
  PROVE  \/ Quiet(r)
         \/ MarkPending(r) \/ RecordRow(r) \/ RecordAdd(r) \/ AcquireLock(r)
         \/ \E p \in Panels : SendRemove(r, p) \/ SkipKnown(r, p)
                              \/ RefuseWrite(r, p) \/ SendAdd(r, p)
         \/ Crash(r)
<1>1. CASE Begin(r)
  BY <1>1, Began DEF Quiet
<1> QED BY <1>1, QuietWork DEF Acts, TypeInv

\* A create stays in flight unless it is r's own.
LEMMA FlightKept ==
  ASSUME TypeInv, NEW r \in Requests, Acts(r), NEW k \in Keys, NEW p \in Panels,
         InFlight(k, p),
         ~(pc[r] = "recordAdd" /\ WriteKey(r) = k /\ req[r].panel = p)
  PROVE  InFlight(k, p)'
<1>1. PICK s \in Requests :
        pc[s] = "recordAdd" /\ WriteKey(s) = k /\ req[s].panel = p
  BY DEF InFlight
<1>2. pc'[s] = pc[s] /\ req'[s] = req[s]
  BY <1>1, ActsMove DEF OnlyMoves
<1> QED BY <1>1, <1>2 DEF InFlight, WriteKey

\* The facts every step of a busy request starts from.
LEMMA BooksFacts ==
  ASSUME TypeInv, Books, NEW r \in Requests
  PROVE  /\ pc \in [Requests -> Labels]
         /\ req \in [Requests -> RequestRecords]
         /\ req[r] \in RequestRecords
         /\ crm \in [Keys -> SUBSET Panels]
         /\ unconfirmed \in [Keys -> SUBSET Panels]
         /\ row \in [Keys -> [Panels -> RowStates]]
         /\ InHand(r)
         /\ \A k \in Keys : KeyTracked(k)
BY RequestTyped DEF TypeInv, TypeOK, StoreTypeOK, Books

\* mark_panels_pending_delete keeps the books: a pending row is live.
LEMMA MarkBooks ==
  ASSUME TypeInv, Books, NEW r \in Requests, Acts(r), MarkPending(r), Disjoint'
  PROVE  Books'
<1>1. ASSUME NEW k \in Keys PROVE Live(k)' = Live(k)
  BY BooksFacts DEF MarkPending, MarkPanelsPendingDelete, Live, LiveStates
<1>2. pc'[r] = "begin" /\ pc[r] = "mark" /\ crm' = crm /\ unconfirmed' = unconfirmed
  BY BooksFacts DEF MarkPending, Go
<1>3. InHand(r)'
  BY <1>2 DEF InHand, RemovedIsGone, KnownCovers, Writing
<1>4. SameElsewhere(r)
  BY <1>2, BooksFacts, OwnKeys DEF SameElsewhere, MarkPending, MarkPanelsPendingDelete
<1>5. ASSUME NEW k \in Keys PROVE KeyTracked(k)'
  BY <1>1, <1>2, BooksFacts, FlightKept DEF KeyTracked
<1> QED BY <1>2, <1>3, <1>4, <1>5, BooksFrame, OwnKeys

\* A delete call keeps the books: a row is dropped only after the answer.
LEMMA SendRemoveBooks ==
  ASSUME TypeInv, Books, NEW r \in Requests, Acts(r), NEW p \in Panels,
         SendRemove(r, p), Disjoint'
  PROVE  Books'
<1> DEFINE K == req[r].key
<1>1. PICK a \in CrmAnswers :
        /\ crm' = IF a.applied THEN [crm EXCEPT ![K] = @ \ {p}] ELSE crm
        /\ Update(r, [req[r] EXCEPT !.panel = p, !.answer = a.confirmed])
  BY DEF SendRemove
<1>2. /\ pc'[r] = "recordRow" /\ pc[r] = "delete"
      /\ row' = row /\ unconfirmed' = unconfirmed
  BY BooksFacts DEF SendRemove, Go, store
<1>3. req'[r].panel = p /\ req'[r].answer = a.confirmed /\ req'[r].key = K
  BY <1>1, BooksFacts DEF Update, RequestRecords
<1>4. a.confirmed => a.applied
  BY DEF CrmAnswers
<1>5. K \in Keys /\ K \in Touches(r)
  BY <1>2, OwnKeys
<1>6. InHand(r)'
  BY <1>1, <1>2, <1>3, <1>4, <1>5, BooksFacts
  DEF InHand, RemovedIsGone, KnownCovers, Writing
<1>7. SameElsewhere(r)
  BY <1>1, <1>2, <1>5, BooksFacts DEF SameElsewhere
<1>8. ASSUME NEW k \in Keys PROVE KeyTracked(k)'
  <2>1. crm'[k] \subseteq crm[k] /\ crm[k] \subseteq Panels /\ Live(k)' = Live(k)
    BY <1>1, <1>2, <1>5, BooksFacts DEF Live
  <2> QED BY <1>2, <2>1, BooksFacts, FlightKept DEF KeyTracked
<1> QED BY <1>2, <1>6, <1>7, <1>8, BooksFrame, OwnKeys

\* record_panel_result keeps the books: only a confirmed row is dropped.
LEMMA RecordRowBooks ==
  ASSUME TypeInv, Books, NEW r \in Requests, Acts(r), RecordRow(r), Disjoint'
  PROVE  Books'
<1> DEFINE K == req[r].key
           P == req[r].panel
<1>1. /\ pc'[r] = "recordStep" /\ pc[r] = "recordRow"
      /\ crm' = crm /\ unconfirmed' = unconfirmed
  BY BooksFacts DEF RecordRow, Go
<1>2. K \in Keys /\ K \in Touches(r) /\ P \in Panels
  BY <1>1, OwnKeys DEF TypeInv, RequestOK, CallLabels
<1>3. row' = [row EXCEPT ![K][P] =
                IF req[r].answer THEN "removed" ELSE "delete_error"]
  BY DEF RecordRow, RecordPanelDelete
<1>4. InHand(r)'
  BY <1>1 DEF InHand, RemovedIsGone, KnownCovers, Writing
<1>5. SameElsewhere(r)
  BY <1>1, <1>2, <1>3, BooksFacts DEF SameElsewhere
<1>6. ASSUME NEW k \in Keys PROVE KeyTracked(k)'
  <2>1. ASSUME NEW p \in Panels, p \in crm[k], p \in Live(k)
        PROVE  p \in Live(k)'
    <3>1. CASE k = K /\ p = P
      <4>1. ~req[r].answer
        BY <1>1, <2>1, <3>1, BooksFacts DEF InHand, RemovedIsGone
      <4> QED BY <1>2, <1>3, <3>1, <4>1, BooksFacts DEF Live, LiveStates
    <3>2. CASE ~(k = K /\ p = P)
      BY <1>2, <1>3, <2>1, <3>2, BooksFacts DEF Live
    <3> QED BY <3>1, <3>2
  <2> QED BY <1>1, <2>1, BooksFacts, FlightKept DEF KeyTracked
<1> QED BY <1>1, <1>4, <1>5, <1>6, BooksFrame, OwnKeys

\* The second look under the lock keeps the books.
LEMMA AcquireBooks ==
  ASSUME TypeInv, Books, NEW r \in Requests, Acts(r), AcquireLock(r), Disjoint'
  PROVE  Books'
<1>1. /\ pc'[r] = "write" /\ pc[r] = "lock"
      /\ crm' = crm /\ row' = row /\ unconfirmed' = unconfirmed
  BY BooksFacts DEF AcquireLock, Go, store
<1>2. /\ req'[r].known = KnownPanels(r)
      /\ req'[r].key = req[r].key /\ req'[r].new = req[r].new
      /\ req'[r].kind = req[r].kind
  BY BooksFacts DEF AcquireLock, Update, RequestRecords
<1>3. InHand(r)'
  BY <1>1, <1>2
  DEF InHand, RemovedIsGone, KnownCovers, KnownPanels, WriteKey, Live
<1>4. SameElsewhere(r)
  BY <1>1 DEF SameElsewhere
<1>5. ASSUME NEW k \in Keys PROVE KeyTracked(k)'
  BY <1>1, BooksFacts, FlightKept DEF KeyTracked, Live
<1> QED BY <1>1, <1>3, <1>4, <1>5, BooksFrame, OwnKeys

\* Skipping a known panel keeps the books.
LEMMA SkipKnownBooks ==
  ASSUME TypeInv, Books, NEW r \in Requests, Acts(r), NEW p \in Panels,
         SkipKnown(r, p), Disjoint'
  PROVE  Books'
<1>1. /\ pc' = pc /\ pc[r] = "write"
      /\ crm' = crm /\ row' = row /\ unconfirmed' = unconfirmed
  BY DEF SkipKnown, store
<1>2. /\ req'[r].known = req[r].known /\ req'[r].todo = req[r].todo \ {p}
      /\ req'[r].key = req[r].key /\ req'[r].new = req[r].new
      /\ req'[r].kind = req[r].kind
  BY BooksFacts DEF SkipKnown, Update, RequestRecords
<1>3. InHand(r)'
  BY <1>1, <1>2, BooksFacts
  DEF InHand, RemovedIsGone, KnownCovers, Writing, WriteKey, Live
<1>4. SameElsewhere(r)
  BY <1>1 DEF SameElsewhere
<1>5. ASSUME NEW k \in Keys PROVE KeyTracked(k)'
  BY <1>1, BooksFacts, FlightKept DEF KeyTracked, Live
<1> QED BY <1>1, <1>3, <1>4, <1>5, BooksFrame, OwnKeys

\* KEY_UNAVAILABLE keeps the books: the panel is not a live one.
LEMMA RefuseWriteBooks ==
  ASSUME TypeInv, Books, NEW r \in Requests, Acts(r), NEW p \in Panels,
         RefuseWrite(r, p), Disjoint'
  PROVE  Books'
<1>0. PICK K \in Keys : K = WriteKey(r)
  BY OwnKeys DEF RefuseWrite
<1>1. /\ pc' = pc /\ pc[r] = "write" /\ crm' = crm /\ unconfirmed' = unconfirmed
      /\ p \in req[r].todo \ req[r].known
      /\ row' = [row EXCEPT ![K][p] = "write_error"]
  BY <1>0 DEF RefuseWrite, RecordPanelWrite
<1>2. /\ req'[r].known = req[r].known /\ req'[r].todo = req[r].todo \ {p}
      /\ req'[r].key = req[r].key /\ req'[r].new = req[r].new
      /\ req'[r].kind = req[r].kind
  BY BooksFacts DEF RefuseWrite, Update, RequestRecords
<1>3. K \in Keys /\ K \in Touches(r)
  BY <1>0, <1>1, OwnKeys
<1>4. p \notin Live(K)
  BY <1>0, <1>1, BooksFacts DEF InHand, KnownCovers, Writing
<1>5. ASSUME NEW k \in Keys, NEW q \in Panels, q # p \/ k # K
      PROVE  q \in Live(k)' <=> q \in Live(k)
  BY <1>1, <1>3, <1>5, BooksFacts DEF Live
<1>6. p \notin Live(K)'
  <2>1. row'[K][p] = "write_error"
    BY <1>1, <1>3, BooksFacts
  <2> QED BY <2>1 DEF Live, LiveStates
<1>7. InHand(r)'
  <2>1. WriteKey(r)' = K
    BY <1>0, <1>2 DEF WriteKey
  <2>2. Live(K)' \subseteq Live(K)
    <3>1. Live(K)' \subseteq Panels
      BY DEF Live
    <3> QED BY <1>3, <1>5, <1>6, <3>1
  <2>3. req[r].todo \cap Live(K) \subseteq req[r].known
    BY <1>0, <1>1, BooksFacts DEF InHand, KnownCovers, Writing
  <2>4. req'[r].todo \cap Live(WriteKey(r))' \subseteq req'[r].known
    BY <1>2, <2>1, <2>2, <2>3 DEF Live
  <2> QED BY <1>0, <1>1, <2>4 DEF InHand, RemovedIsGone, KnownCovers
<1>8. SameElsewhere(r)
  BY <1>1, <1>3, BooksFacts DEF SameElsewhere
<1>9. ASSUME NEW k \in Keys PROVE KeyTracked(k)'
  BY <1>1, <1>3, <1>4, <1>5, BooksFacts, FlightKept DEF KeyTracked
<1> QED BY <1>1, <1>7, <1>8, <1>9, BooksFrame, OwnKeys

\* A create call keeps the books: until its result is stored it is in flight.
LEMMA SendAddBooks ==
  ASSUME TypeInv, Books, NEW r \in Requests, Acts(r), NEW p \in Panels,
         SendAdd(r, p), Disjoint'
  PROVE  Books'
<1>0. PICK K \in Keys : K = WriteKey(r)
  BY OwnKeys DEF SendAdd
<1>1. PICK a \in CrmAnswers :
        /\ crm' = IF a.applied THEN [crm EXCEPT ![K] = @ \cup {p}] ELSE crm
        /\ Update(r, [req[r] EXCEPT !.panel = p, !.answer = a.confirmed])
  BY <1>0 DEF SendAdd
<1>2. /\ pc'[r] = "recordAdd" /\ pc[r] = "write"
      /\ row' = row /\ unconfirmed' = unconfirmed
  BY BooksFacts DEF SendAdd, Go, store
<1>3. /\ req'[r].known = req[r].known /\ req'[r].todo = req[r].todo
      /\ req'[r].key = req[r].key /\ req'[r].new = req[r].new
      /\ req'[r].kind = req[r].kind /\ req'[r].panel = p
  BY <1>0, <1>1, BooksFacts DEF Update, RequestRecords
<1>4. K \in Keys /\ K \in Touches(r) /\ WriteKey(r)' = K
  BY <1>0, <1>2, <1>3, OwnKeys DEF WriteKey
<1>5. InHand(r)'
  BY <1>0, <1>2, <1>3, <1>4, BooksFacts
  DEF InHand, RemovedIsGone, KnownCovers, Writing, Live
<1>6. SameElsewhere(r)
  BY <1>1, <1>2, <1>4, BooksFacts DEF SameElsewhere
<1>7. InFlight(K, p)'
  BY <1>0, <1>2, <1>3, <1>4 DEF InFlight, WriteKey
<1>8. ASSUME NEW k \in Keys PROVE KeyTracked(k)'
  <2>1. crm'[k] \subseteq crm[k] \cup (IF k = K THEN {p} ELSE {})
    BY <1>1, <1>4, BooksFacts
  <2>2. crm[k] \subseteq Panels /\ Live(k)' = Live(k)
    BY <1>2, BooksFacts DEF Live
  <2>3. ASSUME NEW q \in crm[k]
        PROVE  q \in Live(k)' \/ q \in unconfirmed'[k] \/ InFlight(k, q)'
    BY <1>2, <2>2, BooksFacts, FlightKept DEF KeyTracked
  <2>4. ASSUME NEW q \in crm'[k]
        PROVE  q \in Live(k)' \/ q \in unconfirmed'[k] \/ InFlight(k, q)'
    <3>1. q \in crm[k] \/ (k = K /\ q = p)
      BY <2>1
    <3>2. CASE k = K /\ q = p
      BY <1>7, <3>2
    <3> QED BY <2>3, <3>1, <3>2
  <2> QED BY <2>4 DEF KeyTracked
<1> QED BY <1>2, <1>5, <1>6, <1>8, BooksFrame, OwnKeys

\* record_write_result keeps the books.
LEMMA RecordAddBooks ==
  ASSUME TypeInv, Books, NEW r \in Requests, Acts(r), RecordAdd(r), Disjoint'
  PROVE  Books'
<1>0. PICK K \in Keys, P \in Panels : K = WriteKey(r) /\ P = req[r].panel
  BY OwnKeys DEF RecordAdd, TypeInv, RequestOK, CallLabels
<1>1. /\ pc'[r] = "write" /\ pc[r] = "recordAdd" /\ crm' = crm
      /\ row' = [row EXCEPT ![K][P] =
                   IF req[r].answer THEN "active" ELSE "write_error"]
      /\ unconfirmed' = [unconfirmed EXCEPT ![K] =
                           IF req[r].answer THEN @ \ {P} ELSE @ \cup {P}]
  BY <1>0, BooksFacts DEF RecordAdd, RecordPanelWrite, Go
<1>2. /\ req'[r].known = req[r].known /\ req'[r].todo = req[r].todo \ {P}
      /\ req'[r].key = req[r].key /\ req'[r].new = req[r].new
      /\ req'[r].kind = req[r].kind
  BY <1>0, BooksFacts DEF RecordAdd, Update, RequestRecords
<1>3. K \in Keys /\ K \in Touches(r) /\ P \in Panels /\ WriteKey(r)' = K
  BY <1>0, <1>1, <1>2, OwnKeys DEF WriteKey, TypeInv, RequestOK, CallLabels
<1>4. ASSUME NEW k \in Keys, NEW q \in Panels, q # P \/ k # K
      PROVE  /\ q \in Live(k)' <=> q \in Live(k)
             /\ q \in unconfirmed[k] => q \in unconfirmed'[k]
  BY <1>1, <1>3, <1>4, BooksFacts DEF Live
<1>5. P \in Live(K)' \/ P \in unconfirmed'[K]
  BY <1>1, <1>3, BooksFacts DEF Live, LiveStates
<1>6. InHand(r)'
  <2>1. req[r].todo \cap Live(K) \subseteq req[r].known
    BY <1>0, <1>1, BooksFacts DEF InHand, KnownCovers, Writing
  <2>2. Live(K)' \ {P} \subseteq Live(K)
    BY <1>0, <1>3, <1>4 DEF Live
  <2>3. req'[r].todo \cap Live(WriteKey(r))' \subseteq req'[r].known
    BY <1>2, <1>3, <2>1, <2>2 DEF Live
  <2> QED BY <1>0, <1>1, <2>3 DEF InHand, RemovedIsGone, KnownCovers
<1>7. SameElsewhere(r)
  BY <1>1, <1>3, BooksFacts DEF SameElsewhere
<1>8. ASSUME NEW k \in Keys PROVE KeyTracked(k)'
  BY <1>0, <1>1, <1>3, <1>4, <1>5, BooksFacts, FlightKept DEF KeyTracked
<1> QED BY <1>1, <1>6, <1>7, <1>8, BooksFrame, OwnKeys

\* The loss of a worker keeps the books.
LEMMA CrashBooks ==
  ASSUME TypeInv, Books, NEW r \in Requests, Acts(r), Crash(r), Disjoint'
  PROVE  Books'
<1>1. pc'[r] = "idle" /\ pc[r] # "idle" /\ crm' = crm /\ row' = row
  BY BooksFacts DEF Crash, Go, store
<1>2. WriteKey(r) \in Keys /\ WriteKey(r) \in Touches(r)
  BY <1>1, OwnKeys
<1>3. pc[r] = "recordAdd" => req[r].panel \in unconfirmed'[WriteKey(r)]
  BY <1>2, BooksFacts DEF Crash
<1>4. ASSUME NEW k \in Keys PROVE unconfirmed[k] \subseteq unconfirmed'[k]
  BY <1>2, BooksFacts DEF Crash
<1>5. InHand(r)'
  BY <1>1 DEF InHand, RemovedIsGone, KnownCovers, Writing
<1>6. SameElsewhere(r)
  BY <1>1, <1>2, BooksFacts DEF SameElsewhere, Crash
<1>7. ASSUME NEW k \in Keys PROVE KeyTracked(k)'
  <2>1. Live(k)' = Live(k)
    BY <1>1 DEF Live
  <2>2. ASSUME NEW p \in Panels, InFlight(k, p)
        PROVE  InFlight(k, p)' \/ p \in unconfirmed'[k]
    BY <1>3, <2>2, FlightKept
  <2>3. KeyTracked(k) /\ crm[k] \subseteq Panels
    BY BooksFacts
  <2> QED BY <1>1, <1>4, <2>1, <2>2, <2>3 DEF KeyTracked
<1> QED BY <1>1, <1>5, <1>6, <1>7, BooksFrame, OwnKeys

\* Every step of a request at work keeps the books.
LEMMA WorkBooks ==
  ASSUME TypeInv, Books, NEW r \in Requests, Disjoint',
         Progress(r) \/ AcquireLock(r) \/ Crash(r)
  PROVE  Books'
<1>1. Acts(r) /\ OnlyMoves(r) /\ TypeOK
  BY ActsMove DEF Acts, TypeInv
<1> QED BY <1>1, QuietWork, QuietBooks, MarkBooks, SendRemoveBooks,
           RecordRowBooks, AcquireBooks, SkipKnownBooks, RefuseWriteBooks,
           SendAddBooks, RecordAddBooks, CrashBooks

\* Every step keeps the books.
LEMMA BooksStep ==
  ASSUME TypeInv, ~Overlap, Books, NEW r \in Requests, Acts(r) PROVE Books'
<1>1. Disjoint'
  BY DisjointStep DEF Books
<1>2. CASE Begin(r)
  <2>1. Quiet(r) /\ OnlyMoves(r) /\ TypeOK
    BY <1>2, Began, ActsMove DEF Quiet, TypeInv
  <2> QED BY <1>1, <2>1, QuietBooks
<1> QED BY <1>1, <1>2, WorkBooks DEF Acts

\* Without overlap the books cover the CRM in every reachable state, and every
\* request in flight agrees with the rows it is about to record.
THEOREM BooksInvariance == ASSUME ~Overlap PROVE Spec => [](TypeInv /\ Books)
<1>1. Init => Books
  <2> SUFFICES ASSUME Init PROVE Books
    OBVIOUS
  <2>1. \A r \in Requests : pc[r] = "idle"
    BY DEF Init
  <2>2. \A r \in Requests : InHand(r)
    BY <2>1 DEF InHand, RemovedIsGone, KnownCovers, Writing
  <2>3. \A k \in Keys : KeyTracked(k)
    BY DEF Init, StoreInit, KeyTracked, Live, LiveStates
  <2> QED BY <2>1, <2>2, <2>3 DEF Books, Disjoint
<1>2. TypeInv /\ Books /\ [Next]_vars => Books'
  <2> SUFFICES ASSUME TypeInv, Books, [Next]_vars PROVE Books'
    OBVIOUS
  <2>1. CASE \E r \in Requests : Acts(r)
    BY <2>1, BooksStep
  <2>2. CASE UNCHANGED <<crm, row, pc, req, unconfirmed>>
    BY <2>2 DEF Books, Disjoint, InHand, RemovedIsGone, KnownCovers, Writing,
                WriteKey, KeyTracked, InFlight, Live, Touches
  <2>3. (\E k \in Keys, where \in Places : AssignLocally(k, where))
          \/ UNCHANGED vars => UNCHANGED <<crm, row, pc, req, unconfirmed>>
    BY DEF AssignLocally, vars, store
  <2> QED BY <2>1, <2>2, <2>3, NextActs
<1> QED BY <1>1, <1>2, TypeInvariance, PTL DEF Spec

\* As long as two requests do not work on one key at a time, whatever the CRM
\* does and wherever workers are lost, every panel a key opens is on the books
\* or was never confirmed to them: _execute_delete_phase, finalize_release and
\* the writer together.
THEOREM NothingForgotten == ASSUME ~Overlap PROVE Spec => []Tracked
<1>1. TypeInv /\ Books => Tracked
  BY DEF Books, KeyTracked, Tracked
<1> QED BY <1>1, BooksInvariance, PTL

\* Under the same condition the local release of a key (finalize_release) finds
\* it off every panel, up to creates that were never confirmed.
THEOREM ReleasedOnlyWhenGone == ASSUME ~Overlap PROVE Spec => ReleasedMeansGone
<1>1. TypeInv /\ Books /\ [Next]_vars =>
        [\A r \in Requests : ReleasedStep(r) =>
           crm[req[r].key] \subseteq unconfirmed[req[r].key]]_vars
  <2> SUFFICES ASSUME TypeInv, Books, Next, NEW r \in Requests, ReleasedStep(r)
               PROVE  crm[req[r].key] \subseteq unconfirmed[req[r].key]
    OBVIOUS
  <2> DEFINE K == req[r].key
  <2>1. pc[r] = "finalize" /\ pc'[r] \in {"close", "ensure"} /\ ~ResumedWritePhase(r)
    BY DEF ReleasedStep
  <2>2. Live(K) = {}
    <3>1. PICK s \in Requests : Acts(s)
      BY <2>1, NextActs DEF AssignLocally
    <3>2. s = r
      BY <2>1, <3>1, ActsMove DEF OnlyMoves
    <3> QED BY ZenonT(60), <2>1, <3>1, <3>2, BooksFacts
        DEF Acts, Begin, Progress, AcquireLock, Crash, StartRelease,
        StartReassign, StartReplace, StartWrite, StartAdd, Start, SendRemove,
        SkipKnown, RefuseWrite, SendAdd, RecordWritten, FindOperation,
        ResumeOperation, CreateOperation, MarkPending, BeginDelete, RecordRow,
        RecordStep, FailDelete, EndDelete, Finalize, FinalizeRefused,
        SkipFinalize, CloseRelease, EnsureWrite, RecordAdd, ReturnFromWriter,
        FinishReassign, FinishReplace, AssignNew, CloneAccesses,
        CompleteReplace, Answer, Reply, Go, CanFinalize
  <2>3. ASSUME NEW p \in crm[K] PROVE p \in unconfirmed[K]
    <3>1. K \in Keys /\ K \in Touches(r)
      BY <2>1, OwnKeys
    <3>2. p \in unconfirmed[K] \/ InFlight(K, p)
      BY <2>2, <3>1, BooksFacts DEF KeyTracked
    <3>3. ~InFlight(K, p)
      <4> SUFFICES ASSUME NEW s \in Requests, pc[s] = "recordAdd", WriteKey(s) = K
                   PROVE  FALSE
        BY DEF InFlight
      <4>1. K \in Touches(s) /\ s # r
        BY <2>1, OwnKeys
      <4> QED BY <2>1, <3>1, <4>1 DEF Books, Disjoint
    <3> QED BY <3>2, <3>3
  <2> QED BY <2>3
<1> QED BY <1>1, BooksInvariance, PTL DEF Spec, ReleasedMeansGone
=============================================================================
