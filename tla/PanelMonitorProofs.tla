------------------------- MODULE PanelMonitorProofs -------------------------
(***************************************************************************)
(* The monitor implements the queue CycleQueue promises, for any number of *)
(* workers, panels and events.  Who holds the advisory lock plays no part: *)
(* a cycle is claimed only from a row that is not running, and the row of  *)
(* a worker at work is running and fresh.                                  *)
(***************************************************************************)
EXTENDS PanelMonitor, FiniteSetTheorems, TLAPS

\* The columns of the row the steps of the queue read.
RowOK == {"status", "fresh"} \subseteq DOMAIN cycle

\* A worker at work has the running row to itself.
CycleOwned ==
  /\ RowOK
  /\ cycle.status \in {"idle", "queued", "running", "completed", "failed"}
  /\ DOMAIN wpc = Workers
  /\ \A w \in Workers : InCycle(w) => cycle.status = "running" /\ cycle.fresh
  /\ \A v, w \in Workers : InCycle(v) /\ InCycle(w) => v = w

Phase == IF cycle.status \in {"queued", "running"} THEN cycle.status ELSE "rest"
Owner == IF \E w \in Workers : InCycle(w)
           THEN CHOOSE w \in Workers : InCycle(w) ELSE Nobody

\* What a step of the monitor may do, seen from outside, and what it keeps.
QueueStep == Promised!QueueNext \/ UNCHANGED <<Phase, Owner>>
Fine == CycleOwned' /\ QueueStep

\* The row stays as it was for everybody at work.
RowKept ==
  /\ RowOK' /\ cycle'.status = cycle.status
  /\ cycle'.fresh \/ cycle'.fresh = cycle.fresh \/ \A v \in Workers : ~InCycle(v)

WorkKept == DOMAIN wpc' = Workers /\ \A v \in Workers : InCycle(v)' = InCycle(v)

OthersKept(w) ==
  /\ DOMAIN wpc' = Workers
  /\ \A v \in Workers \ {w} : InCycle(v)' = InCycle(v)

-----------------------------------------------------------------------------
(* The shapes of a step.                                                   *)

\* A worker in a cycle is its owner, and the queue is in its running phase.
LEMMA OwnerIs ==
  ASSUME CycleOwned, NEW w \in Workers, InCycle(w)
  PROVE  Owner = w /\ Phase = "running"
BY DEF CycleOwned, Owner, Phase

\* A step that leaves the row and the workers in a cycle alone is a stutter of
\* the queue.
LEMMA StepInside ==
  ASSUME CycleOwned, RowKept, WorkKept
  PROVE  Fine
<1>1. CycleOwned' /\ Phase' = Phase
  BY DEF CycleOwned, RowKept, WorkKept, Phase
<1>2. Owner' = Owner
  BY DEF WorkKept, Owner
<1> QED BY <1>1, <1>2 DEF Fine, QueueStep

\* A worker that begins a due cycle, when nobody is in one, claims it.
LEMMA StepClaims ==
  ASSUME CycleOwned, NEW w \in Workers, Due, RowOK', cycle'.status = "running",
         cycle'.fresh, OthersKept(w), InCycle(w)'
  PROVE  Fine
<1>1. \A v \in Workers : ~InCycle(v)
  BY DEF CycleOwned, Due
<1>2. CycleOwned'
  BY <1>1 DEF CycleOwned, OthersKept
<1>3. Owner = Nobody /\ Phase \in {"rest", "queued"}
  BY <1>1 DEF Owner, Phase, Due
<1>4. Owner' = w /\ Phase' = "running"
  BY <1>1, <1>2, OwnerIs DEF OthersKept, Owner, Phase
<1> QED
  BY <1>2, <1>3, <1>4 DEF Fine, QueueStep, Owner, Phase, Promised!QueueNext,
     Promised!Claim

\* A worker that leaves its cycle ends it, or abandons it with the row running.
LEMMA StepLeaves ==
  ASSUME CycleOwned, NEW w \in Workers, InCycle(w), OthersKept(w), ~InCycle(w)',
         RowOK', cycle'.status \in {"completed", "failed"} \/ UNCHANGED cycle
  PROVE  Fine
<1>1. \A v \in Workers : ~InCycle(v)'
  BY DEF CycleOwned, OthersKept
<1>2. CycleOwned'
  BY <1>1 DEF CycleOwned, OthersKept
<1>3. Owner = w /\ Phase = "running"
  BY OwnerIs
<1>4. Owner' = Nobody
  BY <1>1 DEF Owner
<1>5. Phase' = "rest" \/ Phase' = Phase
  BY DEF Phase
<1> QED
  BY <1>2, <1>3, <1>4, <1>5 DEF Fine, QueueStep, Owner, Phase,
     Promised!QueueNext, Promised!Complete, Promised!Abandon

\* A new status of a row nobody is at work on.
LEMMA StepOutside ==
  ASSUME CycleOwned, WorkKept, RowOK', cycle'.status = "queued",
         Abandoned \/ cycle.status \notin {"queued", "running"}
  PROVE  Fine
<1>1. \A v \in Workers : ~InCycle(v)
  BY DEF CycleOwned, Abandoned
<1>2. CycleOwned'
  BY <1>1 DEF CycleOwned, WorkKept
<1>3. Owner = Nobody /\ Owner' = Nobody
  BY <1>1 DEF Owner, WorkKept
<1>4. Phase' = "queued" /\ Phase \in {"rest", "running"}
  BY DEF Phase, Abandoned
<1> QED
  BY <1>2, <1>3, <1>4 DEF Fine, QueueStep, Owner, Phase, Promised!QueueNext,
     Promised!Ask, Promised!Requeue

-----------------------------------------------------------------------------
(* The actions.                                                            *)

\* A label that a worker's control point takes at a step.
LEMMA Moves ==
  ASSUME CycleOwned, NEW w \in Workers, NEW label, WorkerAt(w, label)
  PROVE  OthersKept(w) /\ wpc'[w] = label
BY DEF CycleOwned, WorkerAt, OthersKept, InCycle

\* A worker that is at work on a cycle before and after, or neither.
LEMMA MovesInside ==
  ASSUME CycleOwned, NEW w \in Workers, NEW label, WorkerAt(w, label),
         InCycle(w) <=> label \in {"read", "total", "submit", "wait", "finish",
                                   "failed"}
  PROVE  WorkKept
<1>1. OthersKept(w) /\ wpc'[w] = label
  BY Moves
<1>2. InCycle(w)' = InCycle(w)
  BY <1>1 DEF InCycle
<1> QED BY <1>1, <1>2 DEF OthersKept, WorkKept

\* A step that does not write the row keeps it.
LEMMA SameRow ==
  ASSUME CycleOwned, UNCHANGED cycle
  PROVE  RowKept
BY DEF CycleOwned, RowKept, RowOK

\* A step that moves no worker keeps who is in a cycle.
LEMMA SameWork ==
  ASSUME CycleOwned, UNCHANGED wpc
  PROVE  WorkKept
BY DEF CycleOwned, WorkKept, InCycle

\* Election, and the steps of a cycle.
LEMMA WorkerSteps ==
  ASSUME CycleOwned, NEW w \in Workers, Elect(w) \/ WorkerStep(w)
  PROVE  Fine
<1>1. CASE Elect(w) \/ RestartWorker(w)
  <2>1. WorkKept
    BY <1>1, MovesInside DEF Elect, RestartWorker, InCycle
  <2> QED BY <1>1, <2>1, SameRow, StepInside DEF Elect, RestartWorker
<1>2. CASE Recover(w)
  <2>1. WorkKept
    BY <1>2, MovesInside DEF Recover, InCycle
  <2>2. CASE Abandoned
    <3>1. RowOK' /\ cycle'.status = "queued"
      BY <1>2, <2>2 DEF Recover, RowOK, CycleOwned
    <3> QED BY <2>1, <2>2, <3>1, StepOutside
  <2>3. CASE ~Abandoned
    BY <1>2, <2>1, <2>3, SameRow, StepInside DEF Recover
  <2> QED BY <2>2, <2>3
<1>3. CASE BeginCycle(w)
  <2>1. CASE Due
    <3>1. RowOK' /\ cycle'.status = "running" /\ cycle'.fresh
      BY <1>3, <2>1 DEF BeginCycle, Claimed, RowOK, CycleOwned
    <3>2. OthersKept(w) /\ InCycle(w)'
      BY <1>3, <2>1, Moves DEF BeginCycle, InCycle
    <3> QED BY <2>1, <3>1, <3>2, StepClaims
  <2>2. CASE ~Due
    <3>1. WorkKept
      BY <1>3, <2>2, MovesInside DEF BeginCycle, InCycle
    <3> QED BY <1>3, <2>2, <3>1, SameRow, StepInside DEF BeginCycle
  <2> QED BY <2>1, <2>2
<1>4. CASE ReadPanels(w) \/ Submit(w)
  <2>1. WorkKept
    BY <1>4, MovesInside DEF ReadPanels, Submit, InCycle
  <2> QED BY <1>4, <2>1, SameRow, StepInside DEF ReadPanels, Submit
<1>5. CASE SetTotal(w)
  <2>1. WorkKept
    BY <1>5, MovesInside DEF SetTotal, InCycle
  <2>2. RowKept
    BY <1>5 DEF SetTotal, RowKept, RowOK, CycleOwned
  <2> QED BY <2>1, <2>2, StepInside
<1>6. CASE \E p \in PanelIds : ProbeDone(w, p)
  BY <1>6, SameRow, SameWork, StepInside DEF ProbeDone
<1>7. CASE TellProgress(w)
  <2>1. WorkKept
    BY <1>7, MovesInside DEF TellProgress, InCycle
  <2>2. RowKept
    BY <1>7 DEF TellProgress, Progressed, RowKept, RowOK, CycleOwned
  <2> QED BY <2>1, <2>2, StepInside
<1>8. CASE FinishCycle(w) \/ FinishFailed(w)
  <2>1. InCycle(w) /\ OthersKept(w) /\ ~InCycle(w)'
    BY <1>8, Moves DEF FinishCycle, FinishFailed, InCycle
  <2>2. RowOK' /\ cycle'.status \in {"completed", "failed"}
    BY <1>8 DEF FinishCycle, FinishFailed, Finished, RowOK, CycleOwned
  <2> QED BY <2>1, <2>2, StepLeaves
<1> QED
  BY <1>1, <1>2, <1>3, <1>4, <1>5, <1>6, <1>7, <1>8 DEF WorkerStep

\* Errors, lost connections and lost workers.
LEMMA FaultSteps ==
  ASSUME CycleOwned, NEW w \in Workers, MonitorFaults(w)
  PROVE  Fine
<1>1. CASE ReadFails(w)
  <2>1. InCycle(w) /\ OthersKept(w) /\ ~InCycle(w)'
    BY <1>1, Moves DEF ReadFails, InCycle
  <2> QED BY <1>1, <2>1, StepLeaves DEF ReadFails, RowOK, CycleOwned
<1>2. CASE CycleFails(w)
  <2>1. WorkKept
    BY <1>2, MovesInside DEF CycleFails, InCycle
  <2> QED BY <1>2, <2>1, SameRow, StepInside DEF CycleFails
<1>3. CASE LoseConnection(w)
  BY <1>3, SameRow, SameWork, StepInside DEF LoseConnection
<1>4. CASE LoseWorker(w)
  <2>1. CASE InCycle(w)
    <3>1. OthersKept(w) /\ ~InCycle(w)'
      BY <1>4, Moves DEF LoseWorker, InCycle
    <3> QED BY <1>4, <2>1, <3>1, StepLeaves DEF LoseWorker, RowOK, CycleOwned
  <2>2. CASE ~InCycle(w)
    <3>1. WorkKept
      BY <1>4, <2>2, MovesInside DEF LoseWorker
    <3> QED BY <1>4, <3>1, SameRow, StepInside DEF LoseWorker
  <2> QED BY <2>1, <2>2
<1> QED BY <1>1, <1>2, <1>3, <1>4 DEF MonitorFaults

\* What pages and time do: none of it is a step of a cycle.
LEMMA OtherSteps ==
  ASSUME CycleOwned,
         \/ \E c \in Checkers : EndCheck(c) \/ \E p \in PanelIds : StartCheck(c, p)
         \/ \E p \in PanelIds : EditRegistry(p)
         \/ RequestCycle \/ SwitchMonitor \/ IntervalPasses \/ HeartbeatGrowsStale
  PROVE  Fine
<1>1. CASE \E c \in Checkers : EndCheck(c) \/ \E p \in PanelIds : StartCheck(c, p)
  BY <1>1, SameRow, SameWork, StepInside DEF EndCheck, StartCheck
<1>2. CASE \E p \in PanelIds : EditRegistry(p)
  BY <1>2, SameRow, SameWork, StepInside DEF EditRegistry
<1>3. CASE SwitchMonitor
  BY <1>3, SameRow, SameWork, StepInside DEF SwitchMonitor
<1>4. CASE RequestCycle
  <2>1. CASE cycle.status \in {"queued", "running"}
    BY <1>4, <2>1, SameRow, SameWork, StepInside DEF RequestCycle
  <2>2. CASE cycle.status \notin {"queued", "running"}
    <3>1. RowOK' /\ cycle'.status = "queued"
      BY <1>4, <2>2 DEF RequestCycle, RowOK, CycleOwned
    <3> QED BY <1>4, <2>2, <3>1, SameWork, StepOutside DEF RequestCycle
  <2> QED BY <2>1, <2>2
<1>5. CASE IntervalPasses
  <2>1. RowKept
    BY <1>5 DEF IntervalPasses, RowKept, RowOK, CycleOwned
  <2> QED BY <1>5, <2>1, SameWork, StepInside DEF IntervalPasses
<1>6. CASE HeartbeatGrowsStale
  <2>1. RowKept
    BY <1>6 DEF HeartbeatGrowsStale, RowKept, RowOK, CycleOwned
  <2> QED BY <1>6, <2>1, SameWork, StepInside DEF HeartbeatGrowsStale
<1> QED BY <1>1, <1>2, <1>3, <1>4, <1>5, <1>6

-----------------------------------------------------------------------------
\* A worker at work has the row to itself: services/panel_monitor.py and
\* begin_cycle_if_due, whoever believes to be the leader.
THEOREM OneCycleAtATime == MonitorSpec => []CycleOwned
<1>1. MonitorInit => CycleOwned
  BY DEF MonitorInit, CycleOwned, RowOK, InCycle
<1>2. CycleOwned /\ [MonitorNext]_monitorVars => CycleOwned'
  <2> SUFFICES ASSUME CycleOwned, [MonitorNext]_monitorVars
               PROVE  CycleOwned'
    OBVIOUS
  <2>1. CASE UNCHANGED monitorVars
    BY <2>1, SameRow, SameWork, StepInside DEF monitorVars, Fine
  <2>2. CASE MonitorNext
    BY <2>2, WorkerSteps, FaultSteps, OtherSteps DEF MonitorNext, Fine
  <2> QED BY <2>1, <2>2
<1> QED BY <1>1, <1>2, PTL DEF MonitorSpec

\* The monitor implements the promised queue: two workers never run a cycle at
\* a time, nobody ends the cycle of another, and a cycle under way is not
\* claimed again until its worker is gone.
THEOREM MonitorImplementsQueue == MonitorSpec => MonitorIsQueue
<1>1. MonitorInit => Promised!QueueInit
  BY DEF MonitorInit, InCycle, Promised!QueueInit
<1>2. CycleOwned /\ [MonitorNext]_monitorVars
        => [Promised!QueueNext]_(Promised!queueVars)
  <2> SUFFICES ASSUME CycleOwned, [MonitorNext]_monitorVars
               PROVE  [Promised!QueueNext]_(Promised!queueVars)
    OBVIOUS
  <2>1. CASE UNCHANGED monitorVars
    BY <2>1, SameRow, SameWork, StepInside
       DEF monitorVars, Fine, QueueStep, Phase, Owner, Promised!queueVars
  <2>2. CASE MonitorNext
    <3>1. QueueStep
      BY <2>2, WorkerSteps, FaultSteps, OtherSteps DEF MonitorNext, Fine
    <3> QED BY <3>1 DEF QueueStep, Phase, Owner, Promised!queueVars
  <2> QED BY <2>1, <2>2
<1> QED
  BY <1>1, <1>2, OneCycleAtATime, PTL
     DEF MonitorSpec, MonitorIsQueue, Promised!QueueSpec
-----------------------------------------------------------------------------
(* The count of a cycle.                                                   *)

CycleRecords ==
  [status : {"idle", "queued", "running", "completed", "failed"}, total : Nat,
   completed : Nat, online : Nat, failed : Nat, active : SUBSET PanelIds,
   fresh : BOOLEAN, due : BOOLEAN]
WorkRecords ==
  [todo : SUBSET PanelIds, probing : SUBSET PanelIds, completed : Nat,
   online : Nat, failed : Nat, told : BOOLEAN]

\* What a worker has completed, what it is probing and what it has still to do
\* make up the panels it has read; it waits only with a probe under way, or
\* when there is nothing left.
Counts(w) ==
  /\ work[w] \in WorkRecords
  /\ wpc[w] = "total" => work[w].completed = 0
  /\ wpc[w] \in {"total", "submit"} => work[w].probing = {}
  /\ wpc[w] = "submit" => work[w].todo # {}
  /\ wpc[w] \in {"submit", "wait"} =>
       /\ work[w].todo \cap work[w].probing = {}
       /\ cycle.total = work[w].completed + Cardinality(work[w].todo)
                          + Cardinality(work[w].probing)
  /\ wpc[w] = "wait" /\ work[w].todo # {} => work[w].probing # {}
  /\ wpc[w] = "finish" => cycle.total = work[w].completed

Counted ==
  /\ DOMAIN wpc = Workers /\ DOMAIN work = Workers
  /\ cycle \in CycleRecords
  /\ \A w \in Workers : Counts(w)

\* The panels of a set have a number.
LEMMA PanelsCounted ==
  ASSUME NEW S \in SUBSET PanelIds
  PROVE  IsFiniteSet(S) /\ Cardinality(S) \in Nat /\ (Cardinality(S) = 0 <=> S = {})
BY MonitorPanelsAssumption, FS_Subset, FS_CardinalityType, FS_EmptySet

\* Panels that go from one set to another are counted once.
LEMMA MovedOver ==
  ASSUME NEW todo \in SUBSET PanelIds, NEW probing \in SUBSET PanelIds,
         todo \cap probing = {}, NEW more \in SUBSET todo
  PROVE  /\ (todo \ more) \cap (probing \cup more) = {}
         /\ Cardinality(todo \ more) + Cardinality(probing \cup more)
              = Cardinality(todo) + Cardinality(probing)
<1>1. /\ IsFiniteSet(more) /\ IsFiniteSet(probing) /\ IsFiniteSet(todo \ more)
      /\ Cardinality(more) \in Nat /\ Cardinality(probing) \in Nat
      /\ Cardinality(todo \ more) \in Nat
  BY PanelsCounted
<1>2. Cardinality(probing \cup more) = Cardinality(probing) + Cardinality(more)
  <2>1. probing \cap more = {}
    OBVIOUS
  <2>2. Cardinality(probing \cup more)
          = Cardinality(probing) + Cardinality(more) - Cardinality(probing \cap more)
    BY <1>1, FS_Union
  <2>3. Cardinality(probing \cap more) = 0
    BY <2>1, FS_EmptySet
  <2> QED BY <1>1, <2>2, <2>3
<1>3. Cardinality(todo) = Cardinality(todo \ more) + Cardinality(more)
  <2>1. (todo \ more) \cap more = {} /\ (todo \ more) \cup more = todo
    OBVIOUS
  <2>2. PICK left : left = todo \ more
    OBVIOUS
  <2>3. Cardinality(left \cup more)
          = Cardinality(left) + Cardinality(more) - Cardinality(left \cap more)
    BY <1>1, <2>2, FS_Union
  <2>4. Cardinality(left \cap more) = 0 /\ Cardinality(left \cup more) = Cardinality(todo)
    BY <2>1, <2>2, FS_EmptySet
  <2> QED BY <1>1, <2>2, <2>3, <2>4
<1> QED BY <1>1, <1>2, <1>3

\* The executor is never left empty with panels to do.
LEMMA SubmittedFits ==
  ASSUME NEW t \in WorkRecords, t.todo \cap t.probing = {},
         NEW more \in Submitted(t)
  PROVE  /\ more \in SUBSET t.todo
         /\ t.todo \ more # {} => t.probing \cup more # {}
<1>1. more \in SUBSET t.todo
  BY DEF Submitted
<1>2. ASSUME t.todo \ more # {}, t.probing = {}, more = {} PROVE FALSE
  <2>1. t.todo \in SUBSET PanelIds
    BY DEF WorkRecords
  <2>2. Cardinality(t.todo) \in Nat /\ Cardinality(t.todo) # 0
    BY <1>2, <2>1, PanelsCounted
  <2>3. Cardinality({}) = 0
    BY FS_EmptySet
  <2> QED BY <1>2, <2>2, <2>3, MonitorBoundsAssumption DEF Submitted
<1> QED BY <1>1, <1>2

\* A step of a worker at work keeps what the others count.
LEMMA CountsKept ==
  ASSUME Counted, NEW w \in Workers, NEW label, WorkerAt(w, label),
         \A v \in Workers \ {w} : work'[v] = work[v],
         \A v \in Workers \ {w} : InCycle(v) => cycle'.total = cycle.total
  PROVE  \A v \in Workers \ {w} : Counts(v)'
BY DEF Counted, Counts, WorkerAt, InCycle

\* The row loses its count only when nobody is at work.
TotalKept == \A v \in Workers : InCycle(v) => cycle'.total = cycle.total

\* A step that moves no worker.
LEMMA CountedFrame ==
  ASSUME Counted, UNCHANGED <<wpc, work>>, cycle' \in CycleRecords, TotalKept
  PROVE  Counted'
BY DEF Counted, Counts, InCycle, TotalKept

\* A worker outside all cycles has nothing to count.
LEMMA CountsOutside ==
  ASSUME Counted, NEW w \in Workers, NEW label \in WorkerLabels,
         WorkerAt(w, label), work'[w] \in WorkRecords,
         label \notin {"total", "submit", "wait", "finish"}
  PROVE  Counts(w)'
<1>1. wpc'[w] = label
  BY DEF Counted, WorkerAt
<1> QED BY <1>1 DEF Counts

\* The result of a probe moves its panel from those under way to those done.
LEMMA CountedProbe ==
  ASSUME Counted, NEW w \in Workers, NEW p \in PanelIds, ProbeDone(w, p)
  PROVE  Counted'
<1>0. work[w] \in WorkRecords /\ Counts(w)
  BY DEF Counted, Counts
<1>1. wpc[w] = "wait" /\ p \in work[w].probing /\ UNCHANGED <<cycle, wpc>>
  BY DEF ProbeDone
<1>2. /\ work[w].todo \in SUBSET PanelIds /\ work[w].probing \in SUBSET PanelIds
      /\ work[w].completed \in Nat
      /\ work[w].todo \cap work[w].probing = {}
      /\ cycle.total = work[w].completed + Cardinality(work[w].todo)
                         + Cardinality(work[w].probing)
  BY <1>0, <1>1 DEF Counts, WorkRecords
<1>3. PICK reachable \in BOOLEAN :
        LET t == [work[w] EXCEPT !.probing = @ \ {p}, !.completed = @ + 1,
                    !.online = IF reachable THEN @ + 1 ELSE @,
                    !.failed = IF reachable THEN @ ELSE @ + 1, !.told = FALSE]
        IN \E more \in Submitted(t) :
             work' = [work EXCEPT ![w] = [t EXCEPT !.todo = @ \ more,
                                                   !.probing = @ \cup more]]
  BY DEF ProbeDone
<1> DEFINE t == [work[w] EXCEPT !.probing = @ \ {p}, !.completed = @ + 1,
                    !.online = IF reachable THEN @ + 1 ELSE @,
                    !.failed = IF reachable THEN @ ELSE @ + 1, !.told = FALSE]
<1>4. /\ t \in WorkRecords /\ t.todo = work[w].todo
      /\ t.probing = work[w].probing \ {p} /\ t.completed = work[w].completed + 1
  <2>1. work[w].completed + 1 \in Nat /\ work[w].online + 1 \in Nat
        /\ work[w].failed + 1 \in Nat /\ work[w].probing \ {p} \in SUBSET PanelIds
    BY <1>0, <1>2 DEF WorkRecords
  <2>2. (IF reachable THEN work[w].online + 1 ELSE work[w].online) \in Nat
        /\ (IF reachable THEN work[w].failed ELSE work[w].failed + 1) \in Nat
    BY <1>0 DEF WorkRecords
  <2> QED BY <1>0, <2>1, <2>2 DEF WorkRecords
<1>5. PICK more \in Submitted(t) :
        work' = [work EXCEPT ![w] = [t EXCEPT !.todo = @ \ more,
                                              !.probing = @ \cup more]]
  BY <1>3
<1> HIDE DEF t
<1>6. /\ t.todo \in SUBSET PanelIds /\ t.probing \in SUBSET PanelIds
      /\ t.todo \cap t.probing = {}
  BY <1>2, <1>4
<1>7. more \in SUBSET t.todo /\ (t.todo \ more # {} => t.probing \cup more # {})
  BY <1>4, <1>6, SubmittedFits
<1>8. /\ DOMAIN work' = Workers /\ \A v \in Workers \ {w} : work'[v] = work[v]
      /\ work'[w] = [t EXCEPT !.todo = @ \ more, !.probing = @ \cup more]
  BY <1>5 DEF Counted
<1>9. /\ work'[w] \in WorkRecords
      /\ work'[w].todo = t.todo \ more /\ work'[w].probing = t.probing \cup more
      /\ work'[w].completed = t.completed
  BY <1>4, <1>6, <1>7, <1>8 DEF WorkRecords
<1>10. /\ work'[w].todo \cap work'[w].probing = {}
       /\ Cardinality(work'[w].todo) + Cardinality(work'[w].probing)
            = Cardinality(t.todo) + Cardinality(t.probing)
  BY SMTT(60), <1>6, <1>7, <1>9, MovedOver
<1>11. Cardinality(t.probing) = Cardinality(work[w].probing) - 1
  BY <1>1, <1>2, <1>4, PanelsCounted, FS_RemoveElement
<1>12. /\ Cardinality(work'[w].todo) \in Nat /\ Cardinality(work[w].todo) \in Nat
       /\ Cardinality(work'[w].probing) \in Nat
       /\ Cardinality(work[w].probing) \in Nat
       /\ Cardinality(t.probing) \in Nat
  BY <1>2, <1>6, <1>9, PanelsCounted DEF WorkRecords
<1>13. cycle.total = work'[w].completed + Cardinality(work'[w].todo)
                       + Cardinality(work'[w].probing)
  BY <1>2, <1>4, <1>9, <1>10, <1>11, <1>12
<1>14. Counts(w)'
  BY <1>1, <1>7, <1>9, <1>10, <1>13 DEF Counts
<1>15. \A v \in Workers \ {w} : Counts(v)'
  BY <1>1, <1>8 DEF Counted, Counts
<1> QED BY <1>1, <1>8, <1>14, <1>15 DEF Counted

\* The count of a step of a worker.
LEMMA CountedStep ==
  ASSUME CycleOwned, Counted, NEW w \in Workers, WorkerStep(w)
  PROVE  Counted'
<1>0. work[w] \in WorkRecords /\ NoWork \in WorkRecords /\ Counts(w)
  BY DEF Counted, Counts, NoWork, WorkRecords
<1>1. CASE Recover(w)
  <2>1. cycle' \in CycleRecords /\ TotalKept
    BY <1>1 DEF Recover, Counted, CycleRecords, TotalKept
  <2>2. Counts(w)'
    BY <1>0, <1>1, CountsOutside DEF Recover, WorkerLabels
  <2>3. \A v \in Workers \ {w} : Counts(v)'
    BY <1>1, <2>1, CountsKept DEF Recover, TotalKept
  <2>4. DOMAIN wpc' = Workers /\ DOMAIN work' = Workers
    BY <1>1 DEF Recover, WorkerAt, Counted
  <2> QED BY <2>1, <2>2, <2>3, <2>4 DEF Counted
<1>2. CASE BeginCycle(w)
  <2>1. cycle' \in CycleRecords
    <3>1. Claimed \in CycleRecords
      BY DEF Claimed, Counted, CycleRecords
    <3> QED BY <1>2, <3>1 DEF BeginCycle, Counted
  <2>2. TotalKept
    BY <1>2 DEF BeginCycle, TotalKept, CycleOwned, Due
  <2>3. Counts(w)'
    BY <1>0, <1>2, CountsOutside DEF BeginCycle, WorkerLabels
  <2>4. \A v \in Workers \ {w} : Counts(v)'
    BY <1>2, <2>2, CountsKept DEF BeginCycle, TotalKept
  <2>5. DOMAIN wpc' = Workers /\ DOMAIN work' = Workers
    BY <1>2 DEF BeginCycle, WorkerAt, Counted
  <2> QED BY <2>1, <2>3, <2>4, <2>5 DEF Counted
<1>3. CASE ReadPanels(w)
  <2>1. wpc' = [wpc EXCEPT ![w] = "total"] /\ UNCHANGED cycle
        /\ work' = [work EXCEPT ![w] = [NoWork EXCEPT !.todo = PanelsToProbe]]
    BY <1>3 DEF ReadPanels, WorkerAt
  <2>2. PanelsToProbe \in SUBSET PanelIds
    BY DEF PanelsToProbe
  <2>3. Counts(w)'
    BY <1>0, <2>1, <2>2 DEF Counted, Counts, NoWork, WorkRecords
  <2>4. \A v \in Workers \ {w} : Counts(v)'
    BY <1>3, <2>1, CountsKept DEF ReadPanels
  <2> QED BY <2>1, <2>3, <2>4 DEF Counted
<1>4. CASE SetTotal(w)
  <2>1. /\ wpc[w] = "total"
        /\ wpc' = [wpc EXCEPT ![w] = IF work[w].todo = {} THEN "finish" ELSE "submit"]
        /\ cycle' = [cycle EXCEPT !.total = Cardinality(work[w].todo), !.fresh = TRUE]
        /\ UNCHANGED work
    BY <1>4 DEF SetTotal, WorkerAt, Total
  <2>2. /\ Cardinality(work[w].todo) \in Nat
        /\ Cardinality(work[w].todo) = 0 <=> work[w].todo = {}
    BY <1>0, PanelsCounted DEF WorkRecords
  <2>3. cycle' \in CycleRecords /\ cycle'.total = Cardinality(work[w].todo)
    BY <2>1, <2>2 DEF Counted, CycleRecords
  <2>4. Counts(w)'
    <3>1. work[w].completed = 0 /\ work[w].probing = {}
      BY <1>0, <2>1 DEF Counts
    <3>2. Cardinality({}) = 0
      BY FS_EmptySet
    <3> QED BY <1>0, <2>1, <2>2, <2>3, <3>1, <3>2 DEF Counted, Counts
  <2>5. \A v \in Workers \ {w} : ~InCycle(v)
    BY <2>1 DEF CycleOwned, InCycle
  <2>6. \A v \in Workers \ {w} : Counts(v)'
    BY <1>4, <2>1, <2>5, CountsKept DEF SetTotal
  <2> QED BY <2>1, <2>3, <2>4, <2>6 DEF Counted
<1>5. CASE Submit(w)
  <2>1. PICK more \in Submitted(work[w]) :
          work' = [work EXCEPT ![w].todo = @ \ more, ![w].probing = @ \cup more,
                               ![w].told = FALSE]
    BY <1>5 DEF Submit
  <2>2. /\ wpc[w] = "submit" /\ wpc' = [wpc EXCEPT ![w] = "wait"]
        /\ UNCHANGED cycle
    BY <1>5 DEF Submit, WorkerAt
  <2>3. /\ work[w].todo \in SUBSET PanelIds /\ work[w].probing \in SUBSET PanelIds
        /\ work[w].completed \in Nat
        /\ work[w].todo \cap work[w].probing = {}
        /\ cycle.total = work[w].completed + Cardinality(work[w].todo)
                           + Cardinality(work[w].probing)
    BY <1>0, <2>2 DEF Counts, WorkRecords
  <2>4. /\ work'[w] \in WorkRecords
        /\ work'[w].todo = work[w].todo \ more
        /\ work'[w].probing = work[w].probing \cup more
        /\ work'[w].completed = work[w].completed
    BY <1>0, <2>1, <2>3, SubmittedFits DEF Counted, WorkRecords
  <2>5. Counts(w)'
    <3>1. more \in SUBSET work[w].todo
          /\ (work'[w].todo # {} => work'[w].probing # {})
      BY <1>0, <2>3, <2>4, SubmittedFits
    <3>2. /\ work'[w].todo \cap work'[w].probing = {}
          /\ Cardinality(work'[w].todo) + Cardinality(work'[w].probing)
               = Cardinality(work[w].todo) + Cardinality(work[w].probing)
      BY SMTT(60), <2>3, <2>4, <3>1, MovedOver
    <3>3. /\ Cardinality(work'[w].todo) \in Nat /\ Cardinality(work[w].todo) \in Nat
          /\ Cardinality(work'[w].probing) \in Nat
          /\ Cardinality(work[w].probing) \in Nat
      BY <2>3, <2>4, PanelsCounted DEF WorkRecords
    <3>4. wpc'[w] = "wait"
      BY <2>2 DEF Counted
    <3> QED BY <2>2, <2>3, <2>4, <3>1, <3>2, <3>3, <3>4 DEF Counts
  <2>6. \A v \in Workers \ {w} : Counts(v)'
    <3>1. \A v \in Workers \ {w} : work'[v] = work[v]
      BY <2>1 DEF Counted
    <3> QED BY <1>5, <2>2, <3>1, CountsKept DEF Submit
  <2> QED BY <2>1, <2>2, <2>5, <2>6 DEF Counted
<1>6. CASE \E p \in PanelIds : ProbeDone(w, p)
  BY <1>6, CountedProbe
<1>7. CASE TellProgress(w)
  <2>1. /\ wpc[w] = "wait" /\ cycle' = Progressed(work[w])
        /\ work' = [work EXCEPT ![w].told = TRUE]
        /\ wpc' = [wpc EXCEPT ![w] = IF work[w].probing = {} THEN "finish" ELSE "wait"]
    BY <1>7 DEF TellProgress, WorkerAt
  <2>2. cycle' \in CycleRecords /\ cycle'.total = cycle.total
    BY <1>0, <2>1 DEF Progressed, Counted, CycleRecords, WorkRecords
  <2>3. /\ work'[w] \in WorkRecords
        /\ work'[w].todo = work[w].todo /\ work'[w].probing = work[w].probing
        /\ work'[w].completed = work[w].completed
        /\ \A v \in Workers \ {w} : work'[v] = work[v]
    BY <1>0, <2>1 DEF Counted, WorkRecords
  <2>4. Counts(w)'
    <3>1. CASE work[w].probing = {}
      <4>1. work[w].todo = {} /\ Cardinality({}) = 0 /\ work[w].completed \in Nat
        BY <1>0, <2>1, <3>1, FS_EmptySet DEF Counts, WorkRecords
      <4>2. cycle.total = work[w].completed
        BY <1>0, <2>1, <3>1, <4>1 DEF Counts
      <4>3. wpc'[w] = "finish"
        BY <2>1, <3>1 DEF Counted
      <4> QED BY <2>2, <2>3, <4>2, <4>3 DEF Counts
    <3>2. CASE work[w].probing # {}
      <4>1. wpc'[w] = "wait"
        BY <2>1, <3>2 DEF Counted
      <4> QED BY <1>0, <2>1, <2>2, <2>3, <4>1 DEF Counts
    <3> QED BY <3>1, <3>2
  <2>5. \A v \in Workers \ {w} : Counts(v)'
    BY <1>7, <2>2, <2>3, CountsKept DEF TellProgress
  <2> QED BY <2>1, <2>2, <2>4, <2>5 DEF Counted
<1>8. CASE FinishCycle(w) \/ FinishFailed(w)
  <2>1. InCycle(w) /\ WorkerAt(w, "loop") /\ work' = [work EXCEPT ![w] = NoWork]
    BY <1>8 DEF FinishCycle, FinishFailed, InCycle
  <2>2. cycle' \in CycleRecords
    <3>1. /\ work[w].completed \in Nat /\ work[w].online \in Nat
          /\ work[w].failed \in Nat
          /\ Cardinality(work[w].todo) + Cardinality(work[w].probing) \in Nat
      BY <1>0, PanelsCounted DEF WorkRecords
    <3>2. ASSUME NEW status \in {"completed", "failed"}, NEW failed \in Nat
          PROVE  Finished(status, work[w], failed) \in CycleRecords
      BY <3>1 DEF Finished, Counted, CycleRecords
    <3> QED BY <1>8, <3>1, <3>2 DEF FinishCycle, FinishFailed
  <2>3. Counts(w)'
    <3>1. work'[w] = NoWork
      BY <2>1 DEF Counted
    <3> QED BY <1>0, <2>1, <3>1, CountsOutside DEF WorkerLabels
  <2>4. \A v \in Workers \ {w} : ~InCycle(v)
    BY <2>1 DEF CycleOwned
  <2>5. \A v \in Workers \ {w} : Counts(v)'
    BY <2>1, <2>4, CountsKept
  <2> QED BY <2>1, <2>2, <2>3, <2>5 DEF Counted, WorkerAt
<1>9. CASE RestartWorker(w)
  <2>1. WorkerAt(w, "elect") /\ UNCHANGED <<cycle, work>>
    BY <1>9 DEF RestartWorker
  <2>2. Counts(w)'
    BY <1>0, <2>1, CountsOutside DEF WorkerLabels
  <2> QED BY <2>1, <2>2, CountsKept DEF Counted, WorkerAt
<1> QED
  BY <1>1, <1>2, <1>3, <1>4, <1>5, <1>6, <1>7, <1>8, <1>9 DEF WorkerStep

\* Election, errors, lost connections and lost workers count nothing.
LEMMA CountedFaults ==
  ASSUME Counted, NEW w \in Workers, Elect(w) \/ MonitorFaults(w)
  PROVE  Counted'
<1>0. work[w] \in WorkRecords /\ NoWork \in WorkRecords
  BY DEF Counted, Counts, NoWork, WorkRecords
<1>1. CASE LoseConnection(w)
  BY <1>1, CountedFrame DEF LoseConnection, Counted, TotalKept
<1>2. CASE Elect(w) \/ ReadFails(w) \/ CycleFails(w) \/ LoseWorker(w)
  <2>1. PICK label \in {"elect", "loop", "failed", "down"} : WorkerAt(w, label)
    BY <1>2 DEF Elect, ReadFails, CycleFails, LoseWorker
  <2>2. UNCHANGED cycle /\ (UNCHANGED work \/ work' = [work EXCEPT ![w] = NoWork])
    BY <1>2 DEF Elect, ReadFails, CycleFails, LoseWorker
  <2>3. work'[w] \in WorkRecords /\ \A v \in Workers \ {w} : work'[v] = work[v]
    BY <1>0, <2>2 DEF Counted
  <2>4. Counts(w)'
    BY <2>1, <2>3, CountsOutside DEF WorkerLabels
  <2>5. \A v \in Workers \ {w} : Counts(v)'
    BY <2>1, <2>2, <2>3, CountsKept
  <2> QED BY <2>1, <2>2, <2>4, <2>5 DEF Counted, WorkerAt
<1> QED BY <1>1, <1>2 DEF MonitorFaults

\* Pages and time leave the count alone.
LEMMA CountedOther ==
  ASSUME Counted,
         \/ \E c \in Checkers : EndCheck(c) \/ \E p \in PanelIds : StartCheck(c, p)
         \/ \E p \in PanelIds : EditRegistry(p)
         \/ RequestCycle \/ SwitchMonitor \/ IntervalPasses \/ HeartbeatGrowsStale
  PROVE  Counted'
<1>1. UNCHANGED <<wpc, work>>
  BY DEF EndCheck, StartCheck, EditRegistry, RequestCycle, SwitchMonitor,
     IntervalPasses, HeartbeatGrowsStale
<1>2. UNCHANGED cycle \/ (\E status \in {"queued"} : cycle' = [cycle EXCEPT !.status = status])
      \/ cycle' = [cycle EXCEPT !.due = TRUE] \/ cycle' = [cycle EXCEPT !.fresh = FALSE]
  BY DEF EndCheck, StartCheck, EditRegistry, RequestCycle, SwitchMonitor,
     IntervalPasses, HeartbeatGrowsStale
<1>3. cycle' \in CycleRecords /\ cycle'.total = cycle.total
  BY <1>2 DEF Counted, CycleRecords
<1> QED BY <1>1, <1>3, CountedFrame DEF TotalKept

\* Whatever happens meanwhile, the numbers of a worker add up.
LEMMA CountInvariance == MonitorSpec => [](CycleOwned /\ Counted)
<1>1. MonitorInit => Counted
  BY DEF MonitorInit, Counted, Counts, CycleRecords, WorkRecords, NoWork
<1>2. CycleOwned /\ Counted /\ [MonitorNext]_monitorVars => Counted'
  <2> SUFFICES ASSUME CycleOwned, Counted, [MonitorNext]_monitorVars
               PROVE  Counted'
    OBVIOUS
  <2>1. CASE UNCHANGED monitorVars
    BY <2>1, CountedFrame DEF monitorVars, Counted, TotalKept
  <2>2. CASE MonitorNext
    BY <2>2, CountedStep, CountedFaults, CountedOther DEF MonitorNext
  <2> QED BY <2>1, <2>2
<1> QED BY <1>1, <1>2, OneCycleAtATime, PTL DEF MonitorSpec

\* A cycle that ends by itself reports a result of every panel it has read,
\* while panels are added, switched and deleted and other workers come and go:
\* run_monitor_cycle and finish_cycle.
THEOREM CyclesAreComplete == MonitorSpec => CycleIsComplete
<1>1. ASSUME CycleOwned, Counted, [MonitorNext]_monitorVars,
             NEW w \in Workers, wpc[w] = "finish", wpc'[w] = "loop"
      PROVE  cycle'.status = "completed" /\ cycle'.completed = cycle'.total
  <2>1. FinishCycle(w)
    <3>1. MonitorNext
      BY <1>1 DEF monitorVars
    <3>2. PICK v \in Workers : Elect(v) \/ WorkerStep(v) \/ MonitorFaults(v)
      BY <1>1, <3>1 DEF MonitorNext, EndCheck, StartCheck, EditRegistry,
         RequestCycle, SwitchMonitor, IntervalPasses, HeartbeatGrowsStale
    <3>3. ASSUME v # w PROVE FALSE
      <4>1. ASSUME NEW label, WorkerAt(v, label) PROVE wpc'[w] = wpc[w]
        BY SMTT(60), <3>3, <4>1 DEF WorkerAt, Counted
      <4>2. UNCHANGED wpc \/ \E label \in WorkerLabels : WorkerAt(v, label)
        BY <3>2 DEF Elect, WorkerStep, MonitorFaults, Recover, BeginCycle,
           ReadPanels, SetTotal, Submit, ProbeDone, TellProgress, FinishCycle,
           FinishFailed, RestartWorker, ReadFails, CycleFails, LoseConnection,
           LoseWorker, WorkerLabels
      <4> QED BY <1>1, <4>1, <4>2
    <3>4. v = w
      BY <3>3
    <3>5. ASSUME NEW label, WorkerAt(w, label) PROVE wpc'[w] = label
      BY <1>1, <3>5 DEF WorkerAt, Counted
    <3> QED
      BY <1>1, <3>2, <3>4, <3>5 DEF Elect, WorkerStep, MonitorFaults, Recover,
         BeginCycle, ReadPanels, SetTotal, Submit, ProbeDone, TellProgress,
         FinishFailed, RestartWorker, ReadFails, CycleFails, LoseConnection,
         LoseWorker
  <2>2. cycle.total = work[w].completed
    BY <1>1 DEF Counted, Counts
  <2>3. cycle' = Finished("completed", work[w], work[w].failed)
    BY <2>1 DEF FinishCycle
  <2> QED BY SMTT(60), <1>1, <2>2, <2>3 DEF Finished, Counted, CycleRecords
<1>2. CycleOwned /\ Counted /\ [MonitorNext]_monitorVars
        => [\A w \in Workers : wpc[w] = "finish" /\ wpc'[w] = "loop" =>
              cycle'.status = "completed" /\ cycle'.completed = cycle'.total]_monitorVars
  BY <1>1
<1> QED BY <1>2, CountInvariance, PTL DEF MonitorSpec, CycleIsComplete
=============================================================================
