------------------------------- MODULE Office -------------------------------
(***************************************************************************)
(* What the office keeps besides the life of the keys: the accounts of its *)
(* users, the register of keys, the panels and the companies they belong   *)
(* to.  None reads the other, so a behaviour is about one of them and      *)
(* leaves the variables of the others.                                     *)
(***************************************************************************)
EXTENDS Accounts, KeyImport, Premises

VARIABLE desk

officeVars == <<desk, accountsVars, registryVars, premisesVars>>

OfficeInit ==
  /\ desk \in {"accounts", "keys", "panels"}
  /\ AccountsInit
  /\ RegistryInit
  /\ PremisesInit
  /\ desk # "accounts" =>
       /\ users = [u \in Users |-> [there |-> TRUE, active |-> TRUE,
                                    role |-> "admin"]]
       /\ \E u \in Users : visit = [v \in Visitors |-> [user     |-> u,
                                                        training |-> FALSE]]
  /\ desk # "keys" => keys = <<>> /\ types = [t \in KeyTypes |-> "absent"]
  /\ desk # "panels" => /\ panels = [p \in PanelIds |-> UnusedPanel]
                        /\ companies = [g \in Firms |->
                                          [state |-> "absent", login |-> FALSE]]
                        /\ apart

AtAccounts(step) ==
  desk = "accounts" /\ step /\ UNCHANGED <<desk, registryVars, premisesVars>>
AtKeys(step) ==
  desk = "keys" /\ step /\ UNCHANGED <<desk, accountsVars, premisesVars>>
AtPanels(step) ==
  desk = "panels" /\ step /\ UNCHANGED <<desk, accountsVars, registryVars>>

OfficeNext ==
  AtAccounts(AccountsNext) \/ AtKeys(ImportNext) \/ AtPanels(PremisesNext)

OfficeSpec == OfficeInit /\ [][OfficeNext]_officeVars
=============================================================================
