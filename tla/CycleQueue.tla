----------------------------- MODULE CycleQueue -----------------------------
(***************************************************************************)
(* What the users of the panel monitor are promised: one cycle at a time,  *)
(* run by one worker, who alone ends it; a cycle whose worker has gone is  *)
(* queued again; a request joins a cycle that is queued or running.        *)
(***************************************************************************)
CONSTANTS Workers, Nobody

VARIABLES phase,  \* "rest", "queued" or "running"
          owner   \* the worker at work on the cycle

queueVars == <<phase, owner>>

QueueInit == phase = "rest" /\ owner = Nobody

Ask == phase = "rest" /\ phase' = "queued" /\ UNCHANGED owner

\* By request, or because the interval has passed.
Claim(w) ==
  /\ phase \in {"rest", "queued"} /\ owner = Nobody
  /\ phase' = "running" /\ owner' = w

Complete(w) ==
  /\ phase = "running" /\ owner = w
  /\ phase' = "rest" /\ owner' = Nobody

\* The worker gives the cycle up, or is lost.
Abandon(w) == owner = w /\ owner' = Nobody /\ UNCHANGED phase

Requeue ==
  /\ phase = "running" /\ owner = Nobody
  /\ phase' = "queued" /\ UNCHANGED owner

QueueNext ==
  \/ Ask \/ Requeue
  \/ \E w \in Workers : Claim(w) \/ Complete(w) \/ Abandon(w)

QueueSpec == QueueInit /\ [][QueueNext]_queueVars
=============================================================================
