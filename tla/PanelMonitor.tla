---------------------------- MODULE PanelMonitor ----------------------------
(***************************************************************************)
(* The central panel monitor: services/panel_monitor.py over the one row   *)
(* of panel_monitor_state, with the registry of panels and the checks made *)
(* by hand.  Every worker process runs the scheduler; an advisory lock     *)
(* elects the leader, and a row lock lets one of them claim a cycle.       *)
(*                                                                         *)
(* Time passes by two steps: the interval since the last cycle is over,    *)
(* and the heartbeat of a cycle nobody runs grows stale.  A worker at work *)
(* writes its heartbeat in time: a panel is probed at most twice with      *)
(* three requests each, within the 60 s and six time-outs it has for it.   *)
(***************************************************************************)
EXTENDS Naturals, FiniteSets

CONSTANTS Workers,      \* application processes
          Nobody,       \* the advisory lock is free
          PanelIds,     \* rows of panels
          Checkers,     \* threads that check a panel by hand
          NoPanelId,    \* no check under way
          Concurrency,  \* probes of a cycle at a time
          MaxEvents     \* bound on requests, edits, lost connections and workers

ASSUME MonitorNobodyAssumption == Nobody \notin Workers
ASSUME NoPanelIdAssumption == NoPanelId \notin PanelIds
ASSUME MonitorPanelsAssumption == IsFiniteSet(PanelIds)
ASSUME MonitorBoundsAssumption == Concurrency \in Nat \ {0} /\ MaxEvents \in Nat

VARIABLES cycle,     \* the row of panel_monitor_state
          leader,    \* holder of the advisory lock
          wpc, work, \* control point and local variables of a worker
          registry,  \* panels: registered, result and age of the last check
          probe,     \* the panel a thread checks by hand
          scheduled, \* the setting panel_monitor_enabled
          events

monitorVars ==
  <<cycle, leader, wpc, work, registry, probe, scheduled, events>>

WorkerLabels ==
  {"down", "elect", "loop", "claim", "read", "total", "submit", "wait",
   "finish", "failed"}

\* At work on a cycle, from the claim to the result.
InCycle(w) == wpc[w] \in {"read", "total", "submit", "wait", "finish", "failed"}

NoWork == [todo |-> {}, probing |-> {}, completed |-> 0, online |-> 0,
           failed |-> 0, told |-> TRUE]

MonitorInit ==
  /\ cycle = [status |-> "idle", total |-> 0, completed |-> 0, online |-> 0,
              failed |-> 0, active |-> {}, fresh |-> TRUE, due |-> TRUE]
  /\ leader = Nobody
  /\ wpc = [w \in Workers |-> "elect"]
  /\ work = [w \in Workers |-> NoWork]
  /\ registry = [p \in PanelIds |->
                   [known |-> "enabled", health |-> "unknown", recent |-> FALSE]]
  /\ probe = [c \in Checkers |-> NoPanelId]
  /\ scheduled = TRUE
  /\ events = 0

WorkerAt(w, label) == wpc' = [wpc EXCEPT ![w] = label]
Occur == events < MaxEvents /\ events' = events + 1

-----------------------------------------------------------------------------
(* The leader: _run and _leader_loop.                                      *)

Elect(w) ==
  /\ wpc[w] = "elect" /\ leader = Nobody
  /\ leader' = w
  /\ WorkerAt(w, "loop")
  /\ UNCHANGED <<cycle, work, registry, probe, scheduled, events>>

\* Mutant of Abandoned: only a cycle that was checking panels is abandoned.
AbandonedProbing == cycle.status = "running" /\ ~cycle.fresh /\ cycle.active # {}

Abandoned == cycle.status = "running" /\ ~cycle.fresh

\* recover_interrupted_cycle.
Recover(w) ==
  /\ wpc[w] = "loop" /\ scheduled
  /\ cycle' = IF Abandoned THEN [cycle EXCEPT !.status = "queued", !.active = {}]
                           ELSE cycle
  /\ WorkerAt(w, "claim")
  /\ UNCHANGED <<leader, work, registry, probe, scheduled, events>>

\* Mutant of Due: a running cycle does not keep the next one waiting.
DueAnyway == cycle.status = "queued" \/ cycle.due

Due == \/ cycle.status = "queued"
       \/ cycle.status \in {"idle", "completed", "failed"} /\ cycle.due

Claimed ==
  [cycle EXCEPT !.status = "running", !.total = 0, !.completed = 0, !.online = 0,
                !.failed = 0, !.active = {}, !.fresh = TRUE]

\* begin_cycle_if_due, the row locked.
BeginCycle(w) ==
  /\ wpc[w] = "claim"
  /\ IF Due
       THEN cycle' = Claimed /\ WorkerAt(w, "read")
       ELSE WorkerAt(w, "loop") /\ UNCHANGED cycle
  /\ UNCHANGED <<leader, work, registry, probe, scheduled, events>>

-----------------------------------------------------------------------------
(* run_monitor_cycle.                                                      *)

\* get_enabled_panels leaves out what has been checked a moment ago.
PanelsToProbe ==
  {p \in PanelIds : registry[p].known = "enabled" /\ ~registry[p].recent}

ReadPanels(w) ==
  /\ wpc[w] = "read"
  /\ work' = [work EXCEPT ![w] = [NoWork EXCEPT !.todo = PanelsToProbe]]
  /\ WorkerAt(w, "total")
  /\ UNCHANGED <<cycle, leader, registry, probe, scheduled, events>>

\* Reading fails before the cycle has begun: the worker goes back to the
\* election and leaves the row as it is.
ReadFails(w) ==
  /\ wpc[w] = "read"
  /\ Occur
  /\ leader' = IF leader = w THEN Nobody ELSE leader
  /\ WorkerAt(w, "elect")
  /\ UNCHANGED <<cycle, work, registry, probe, scheduled>>

\* Mutant of Total: panels left out of the cycle are counted.
TotalEnabled(t) == Cardinality({p \in PanelIds : registry[p].known = "enabled"})

Total(t) == Cardinality(t.todo)

SetTotal(w) ==
  /\ wpc[w] = "total"
  /\ cycle' = [cycle EXCEPT !.total = Total(work[w]), !.fresh = TRUE]
  /\ WorkerAt(w, IF work[w].todo = {} THEN "finish" ELSE "submit")
  /\ UNCHANGED <<leader, work, registry, probe, scheduled, events>>

\* The executor is filled up to the limit.
Submitted(t) ==
  LET free == Concurrency - Cardinality(t.probing)
  IN {more \in SUBSET t.todo :
        Cardinality(more) = IF Cardinality(t.todo) < free
                              THEN Cardinality(t.todo) ELSE free}

Submit(w) ==
  /\ wpc[w] = "submit"
  /\ \E more \in Submitted(work[w]) :
       work' = [work EXCEPT ![w].todo = @ \ more, ![w].probing = @ \cup more,
                            ![w].told = FALSE]
  /\ WorkerAt(w, "wait")
  /\ UNCHANGED <<cycle, leader, registry, probe, scheduled, events>>

\* update_panel_api_status; a deleted panel is not found.
Checked(p, reachable) ==
  registry' = [registry EXCEPT ![p] =
    IF @.known = "absent" THEN @
    ELSE [@ EXCEPT !.health = IF reachable THEN "reachable" ELSE "failed",
                   !.recent = TRUE]]

\* A probe has ended; its place goes to the next panel.
ProbeDone(w, p) ==
  /\ wpc[w] = "wait" /\ p \in work[w].probing
  /\ \E reachable \in BOOLEAN :
       /\ Checked(p, reachable)
       /\ LET t == [work[w] EXCEPT !.probing = @ \ {p}, !.completed = @ + 1,
                      !.online = IF reachable THEN @ + 1 ELSE @,
                      !.failed = IF reachable THEN @ ELSE @ + 1, !.told = FALSE]
          IN \E more \in Submitted(t) :
               work' = [work EXCEPT ![w] = [t EXCEPT !.todo = @ \ more,
                                                     !.probing = @ \cup more]]
  /\ UNCHANGED <<cycle, leader, wpc, probe, scheduled, events>>

Progressed(t) ==
  IF cycle.status # "running" THEN cycle
  ELSE [cycle EXCEPT !.completed = t.completed, !.online = t.online,
                     !.failed = t.failed, !.active = t.probing, !.fresh = TRUE]

\* update_cycle_progress, after the results that have come in together.
TellProgress(w) ==
  /\ wpc[w] = "wait" /\ ~work[w].told
  /\ cycle' = Progressed(work[w])
  /\ work' = [work EXCEPT ![w].told = TRUE]
  /\ WorkerAt(w, IF work[w].probing = {} THEN "finish" ELSE "wait")
  /\ UNCHANGED <<leader, registry, probe, scheduled, events>>

\* A database error while results are recorded.
CycleFails(w) ==
  /\ wpc[w] \in {"submit", "wait"}
  /\ Occur
  /\ WorkerAt(w, "failed")
  /\ UNCHANGED <<cycle, leader, work, registry, probe, scheduled>>

Finished(status, t, failed) ==
  [cycle EXCEPT !.status = status, !.completed = t.completed,
                !.online = t.online, !.failed = failed, !.active = {},
                !.fresh = TRUE, !.due = FALSE]

\* finish_cycle does not ask whose cycle it is.
FinishCycle(w) ==
  /\ wpc[w] = "finish"
  /\ cycle' = Finished("completed", work[w], work[w].failed)
  /\ WorkerAt(w, "loop")
  /\ work' = [work EXCEPT ![w] = NoWork]
  /\ UNCHANGED <<leader, registry, probe, scheduled, events>>

\* The executor lets the probes under way end, their results are dropped.
FinishFailed(w) ==
  LET t == work[w]
      left == Cardinality(t.todo) + Cardinality(t.probing)
  IN /\ wpc[w] = "failed"
     /\ cycle' = Finished(IF t.completed = 0 THEN "failed" ELSE "completed", t,
                          IF t.failed > left THEN t.failed ELSE left)
     /\ WorkerAt(w, "loop")
     /\ work' = [work EXCEPT ![w] = NoWork]
     /\ UNCHANGED <<leader, registry, probe, scheduled, events>>

-----------------------------------------------------------------------------
(* Requests, checks by hand, the registry.                                 *)

\* request_monitor_cycle
RequestCycle ==
  /\ Occur
  /\ cycle' = IF cycle.status \in {"queued", "running"} THEN cycle
              ELSE [cycle EXCEPT !.status = "queued"]
  /\ UNCHANGED <<leader, wpc, work, registry, probe, scheduled>>

\* panel_check looks at the row, at the cycle and at the age of the result.
StartCheck(c, p) ==
  /\ Occur
  /\ probe[c] = NoPanelId
  /\ registry[p].known = "enabled" /\ ~registry[p].recent
  /\ cycle.status \notin {"queued", "running"}
  /\ probe' = [probe EXCEPT ![c] = p]
  /\ UNCHANGED <<cycle, leader, wpc, work, registry, scheduled>>

EndCheck(c) ==
  /\ probe[c] # NoPanelId
  /\ \E reachable \in BOOLEAN : Checked(probe[c], reachable)
  /\ probe' = [probe EXCEPT ![c] = NoPanelId]
  /\ UNCHANGED <<cycle, leader, wpc, work, scheduled, events>>

\* create_or_update_panel: a known MAC is enabled again, its results stay.
SavePanel(p) ==
  registry' = [registry EXCEPT ![p] =
    IF @.known = "absent"
      THEN [known |-> "enabled", health |-> "unknown", recent |-> FALSE]
      ELSE [@ EXCEPT !.known = "enabled"]]

TogglePanel(p) ==
  /\ registry[p].known # "absent"
  /\ registry' = [registry EXCEPT ![p].known =
                    IF @ = "enabled" THEN "disabled" ELSE "enabled"]

\* Only panels no key and no company refers to.
DeletePanel(p) ==
  registry' = [registry EXCEPT ![p] =
                 [known |-> "absent", health |-> "unknown", recent |-> FALSE]]

EditRegistry(p) ==
  /\ Occur
  /\ SavePanel(p) \/ TogglePanel(p) \/ DeletePanel(p)
  /\ UNCHANGED <<cycle, leader, wpc, work, probe, scheduled>>

SwitchMonitor ==
  /\ Occur
  /\ scheduled' = ~scheduled
  /\ UNCHANGED <<cycle, leader, wpc, work, registry, probe>>

-----------------------------------------------------------------------------
(* Faults, and the passing of time.                                        *)

\* PostgreSQL drops the idle connection of the lock; the leader goes on.
LoseConnection(w) ==
  /\ Occur
  /\ leader = w
  /\ leader' = Nobody
  /\ UNCHANGED <<cycle, wpc, work, registry, probe, scheduled>>

LoseWorker(w) ==
  /\ Occur
  /\ wpc[w] # "down"
  /\ leader' = IF leader = w THEN Nobody ELSE leader
  /\ WorkerAt(w, "down")
  /\ work' = [work EXCEPT ![w] = NoWork]
  /\ UNCHANGED <<cycle, registry, probe, scheduled>>

RestartWorker(w) ==
  /\ wpc[w] = "down"
  /\ WorkerAt(w, "elect")
  /\ UNCHANGED <<cycle, leader, work, registry, probe, scheduled, events>>

IntervalPasses ==
  /\ ~cycle.due
  /\ cycle' = [cycle EXCEPT !.due = TRUE]
  /\ registry' = [p \in PanelIds |-> [registry[p] EXCEPT !.recent = FALSE]]
  /\ UNCHANGED <<leader, wpc, work, probe, scheduled, events>>

HeartbeatGrowsStale ==
  /\ cycle.status = "running" /\ cycle.fresh
  /\ \A w \in Workers : ~InCycle(w)
  /\ cycle' = [cycle EXCEPT !.fresh = FALSE]
  /\ UNCHANGED <<leader, wpc, work, registry, probe, scheduled, events>>

-----------------------------------------------------------------------------
WorkerStep(w) ==
  \/ Recover(w) \/ BeginCycle(w) \/ ReadPanels(w) \/ SetTotal(w) \/ Submit(w)
  \/ \E p \in PanelIds : ProbeDone(w, p)
  \/ TellProgress(w) \/ FinishCycle(w) \/ FinishFailed(w) \/ RestartWorker(w)

MonitorFaults(w) ==
  ReadFails(w) \/ CycleFails(w) \/ LoseConnection(w) \/ LoseWorker(w)

MonitorNext ==
  \/ \E w \in Workers : Elect(w) \/ WorkerStep(w) \/ MonitorFaults(w)
  \/ \E c \in Checkers : EndCheck(c) \/ \E p \in PanelIds : StartCheck(c, p)
  \/ \E p \in PanelIds : EditRegistry(p)
  \/ RequestCycle \/ SwitchMonitor \/ IntervalPasses \/ HeartbeatGrowsStale

\* Threads run on, a lost worker is restarted by systemd, and a heartbeat
\* nobody writes grows stale.
MonitorFairness ==
  /\ \A w \in Workers : WF_monitorVars(Elect(w)) /\ WF_monitorVars(WorkerStep(w))
  /\ WF_monitorVars(HeartbeatGrowsStale)

MonitorSpec == MonitorInit /\ [][MonitorNext]_monitorVars /\ MonitorFairness

-----------------------------------------------------------------------------
(* Properties.                                                             *)

\* A cycle that ends by itself has a result of every panel it has read.
CycleIsComplete ==
  [][\A w \in Workers : wpc[w] = "finish" /\ wpc'[w] = "loop" =>
       cycle'.status = "completed" /\ cycle'.completed = cycle'.total]_monitorVars

\* A cycle that was asked for comes to its end, through lost leaders, dropped
\* connections and errors, unless the monitor is switched off: a request is
\* served, and a cycle does not stay for ever after its worker was lost,
\* panel_monitor_repository.py:127-147.
CycleEnds ==
  cycle.status \in {"queued", "running"}
    ~> (cycle.status \notin {"queued", "running"} \/ ~scheduled)

\* The detailed monitor implements the promised queue:
\* "One database-coordinated background monitor", panel_monitor.py:1.
Promised == INSTANCE CycleQueue WITH
  phase <- IF cycle.status \in {"queued", "running"} THEN cycle.status ELSE "rest",
  owner <- IF \E w \in Workers : InCycle(w)
             THEN CHOOSE w \in Workers : InCycle(w) ELSE Nobody

\* Seen from outside the monitor is the promised queue: two workers never run a
\* cycle at a time, not even when the lock connection of a leader was dropped
\* and two of them believe they lead, nobody ends a cycle of another worker,
\* and one that is under way is not claimed again.
MonitorIsQueue == Promised!QueueSpec
=============================================================================
