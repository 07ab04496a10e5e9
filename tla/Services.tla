------------------------------ MODULE Services ------------------------------
(***************************************************************************)
(* The two services of a worker process that wait for others: the panel    *)
(* monitor and the CRM client.  Neither calls the other, so a behaviour is *)
(* about one of them and leaves the variables of the other alone.          *)
(***************************************************************************)
EXTENDS PanelMonitor, CrmSession

VARIABLE subject

servicesVars == <<subject, monitorVars, crmVars>>

ServicesInit ==
  /\ subject \in {"monitor", "crm"}
  /\ MonitorInit
  /\ CrmInit
  /\ subject = "monitor" =>
       /\ home = CHOOSE placement \in Homes : TRUE
       /\ configured = CHOOSE set \in Credentials : TRUE

OfMonitor(step) == subject = "monitor" /\ step /\ UNCHANGED <<subject, crmVars>>
OfCrm(step) == subject = "crm" /\ step /\ UNCHANGED <<subject, monitorVars>>

ServicesNext == OfMonitor(MonitorNext) \/ OfCrm(CrmNext)

\* The fairness of both services.
ServicesFairness ==
  /\ \A w \in Workers : /\ WF_servicesVars(OfMonitor(Elect(w)))
                        /\ WF_servicesVars(OfMonitor(WorkerStep(w)))
  /\ WF_servicesVars(OfMonitor(HeartbeatGrowsStale))
  /\ \A c \in Callers : /\ WF_servicesVars(OfCrm(CallStep(c)))
                        /\ WF_servicesVars(OfCrm(WriterStep(c)))

ServicesSpec == ServicesInit /\ [][ServicesNext]_servicesVars /\ ServicesFairness
=============================================================================
