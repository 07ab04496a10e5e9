------------------------------ MODULE KeyStore ------------------------------
(***************************************************************************)
(* The part of the PostgreSQL schema that remembers where a physical key   *)
(* is programmed, and the transactions of key_lifecycle_repository.py and  *)
(* key_repository.py that change it.  Each operator below that primes a    *)
(* variable is one db() block: it commits as a whole or not at all.        *)
(*                                                                         *)
(* An assignment (the active row of key_assignments) is kept as the serial *)
(* number of the row, 0 when there is none: the resume check compares      *)
(* rows, never their wording.  An address with an apartment is a "place";  *)
(* place[k] is that of the primary active row of key_accesses.             *)
(* keys.status is kept as the three classes the code distinguishes.        *)
(***************************************************************************)
EXTENDS Naturals, Sequences

CONSTANTS Keys,      \* physical keys
          Panels,    \* entrance panels
          Places,    \* addresses with an apartment
          NoKey,     \* NULL in key_lifecycle_operations.new_key_id
          NoPlace    \* no active access, no target context

ASSUME NoKeyAssumption == NoKey \notin Keys
ASSUME NoPlaceAssumption == NoPlace \notin Places

VARIABLES keyStatus,   \* keys.status
          assignment,  \* active key_assignments row of a key, 0 for none
          place,       \* where the primary access of a key is
          serial,      \* last key_assignments.id handed out
          row,         \* key_panel_states: state and last_operation
          ops          \* key_lifecycle_operations with their steps

KeyStatuses == {"free", "issued", "retired"}

\* lost, defective, blocked, archived and replaced keys are all "retired".
Unavailable(status) == status = "retired"

RowStates ==
  {"none", "active", "pending_delete", "delete_error", "write_error", "removed"}

\* The rows every reader of key_panel_states takes for "still on the panel".
LiveStates == {"active", "pending_delete", "delete_error"}

Live(k) == {p \in Panels : row[k][p] \in LiveStates}

\* get_key_snapshot(...)["occupied"]
Occupied(k) ==
  assignment[k] # 0 \/ place[k] # NoPlace \/ Live(k) # {} \/ keyStatus[k] # "free"

-----------------------------------------------------------------------------
(* Lifecycle operations and their per-panel steps.                         *)

OpTypes == {"release", "reassign", "replace"}

OpStatuses == {"pending", "deleting", "writing", "partial", "error", "completed"}

\* Every state of a step but 'success' is treated alike by every reader.
StepStates == {"absent", "unfinished", "success"}

Operations ==
  [type : OpTypes, status : OpStatuses, old : Keys, new : Keys \cup {NoKey},
   final : KeyStatuses, source : SUBSET Panels, signature : Nat,
   place : Places \cup {NoPlace},
   target : SUBSET Panels, to : Places \cup {NoPlace},
   delete : [Panels -> StepStates], write : [Panels -> StepStates]]

NoSteps == [p \in Panels |-> "absent"]

Done(steps) == {p \in Panels : steps[p] = "success"}
Unfinished(steps) == {p \in Panels : steps[p] = "unfinished"}

EnsureSteps(steps, panels) ==
  [p \in Panels |-> IF p \in panels /\ steps[p] = "absent" THEN "unfinished"
                                                           ELSE steps[p]]

StepResult(success) == IF success THEN "success" ELSE "unfinished"

\* The latest row a request for this work finds, 0 for none.
LatestOperation(type, old, new) ==
  LET open == {i \in DOMAIN ops : /\ ops[i].type = type
                                  /\ ops[i].old = old
                                  /\ ops[i].new = new
                                  /\ ops[i].status # "completed"}
  IN IF open = {} THEN 0 ELSE CHOOSE i \in open : \A j \in open : j <= i

\* Does the persisted job still describe the state the request has read?
CanResume(op, request) ==
  LET done == Done(op.delete)
      writeAfterRelease == /\ op.type \in {"replace", "reassign"}
                           /\ op.source = done
                           /\ op.status \in {"writing", "partial", "error"}
  IN /\ op.target = request.target /\ op.to = request.to
     /\ writeAfterRelease \/ op.signature = request.signature
     /\ request.panels = IF writeAfterRelease /\ op.type = "reassign"
                           THEN Done(op.write)
                           ELSE op.source \ done

NewOperation(request) ==
  [type |-> request.kind, status |-> "pending",
   old |-> request.key, new |-> request.new, final |-> request.final,
   source |-> request.panels, signature |-> request.signature,
   place |-> request.place, target |-> request.target, to |-> request.to,
   delete |-> NoSteps, write |-> NoSteps]

ChangeOperation(i, operation) == ops' = [ops EXCEPT ![i] = operation]

SetOperationStatus(i, status) ==
  ChangeOperation(i, [ops[i] EXCEPT !.status = status])

RecordDeleteStep(i, p, success) ==
  ChangeOperation(i, [ops[i] EXCEPT !.delete[p] = StepResult(success)])

RecordWriteStep(i, p, success) ==
  ChangeOperation(i, [ops[i] EXCEPT !.write[p] = StepResult(success)])

-----------------------------------------------------------------------------
(* key_panel_states.                                                       *)

RecordPanelWrite(k, p, success) ==
  row' = [row EXCEPT ![k][p] = IF success THEN "active" ELSE "write_error"]

\* Mutant of RecordPanelDelete: a failure forgets which operation failed.
RecordPanelDeleteUntyped(k, p, success) ==
  row' = [row EXCEPT ![k][p] = IF success THEN "removed" ELSE "error"]

RecordPanelDelete(k, p, success) ==
  row' = [row EXCEPT ![k][p] = IF success THEN "removed" ELSE "delete_error"]

\* Mutant of MarkPanelsPendingDelete: without the condition on the state.
MarkAllPendingDelete(k, panels) ==
  row' = [row EXCEPT ![k] =
            [p \in Panels |-> IF p \in panels THEN "pending_delete"
                                              ELSE row[k][p]]]

MarkPanelsPendingDelete(k, panels) ==
  row' = [row EXCEPT ![k] =
            [p \in Panels |-> IF p \in panels \cap Live(k) THEN "pending_delete"
                                                           ELSE row[k][p]]]

-----------------------------------------------------------------------------
(* keys and key_assignments.                                               *)

\* Refused with ValueError while a panel has not confirmed the deletion.
CanFinalize(k) == Live(k) = {}

FinalizeRelease(k, final) ==
  /\ assignment' = [assignment EXCEPT ![k] = 0]
  /\ place' = [place EXCEPT ![k] = NoPlace]
  /\ keyStatus' = [keyStatus EXCEPT ![k] = final]

\* A new active row takes the place of the old one.
NewAssignment(k, where) ==
  /\ serial' = serial + 1
  /\ assignment' = [assignment EXCEPT ![k] = serial + 1]
  /\ place' = [place EXCEPT ![k] = where]
  /\ keyStatus' = [keyStatus EXCEPT ![k] = "issued"]

\* The row stays when it names this place already.
KeepAssignment(k, where) ==
  /\ assignment[k] # 0
  /\ place[k] = where
  /\ keyStatus' = [keyStatus EXCEPT ![k] = "issued"]
  /\ UNCHANGED <<assignment, serial, place>>

SetKeyAssignment(k, where) ==
  \/ KeepAssignment(k, where)
  \/ ~(assignment[k] # 0 /\ place[k] = where) /\ NewAssignment(k, where)

-----------------------------------------------------------------------------
(* Every key is either in stock or issued with some panels programmed.     *)

StoreInit(programmed, home) ==
  /\ keyStatus = [k \in Keys |-> IF programmed[k] = {} THEN "free" ELSE "issued"]
  /\ assignment = [k \in Keys |-> IF programmed[k] = {} THEN 0 ELSE 1]
  /\ place = [k \in Keys |-> IF programmed[k] = {} THEN NoPlace ELSE home]
  /\ serial = 1
  /\ row = [k \in Keys |-> [p \in Panels |->
               IF p \in programmed[k] THEN "active" ELSE "none"]]
  /\ ops = <<>>

StoreTypeOK ==
  /\ keyStatus \in [Keys -> KeyStatuses]
  /\ assignment \in [Keys -> Nat]
  /\ place \in [Keys -> Places \cup {NoPlace}]
  /\ serial \in Nat
  /\ row \in [Keys -> [Panels -> RowStates]]
  /\ ops \in Seq(Operations)
=============================================================================
