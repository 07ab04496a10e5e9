---------------------------- MODULE OfficeProofs ----------------------------
(***************************************************************************)
(* Safety of two desks of the office, for any number of users, sessions,   *)
(* panels, companies, managers and requests.                               *)
(*                                                                         *)
(* Accounts: what a change of a user looks at are administrators whose     *)
(* rows it has locked; they stay administrators until it commits, so that  *)
(* one of them is left when it takes another away.                         *)
(*                                                                         *)
(* Premises: the foreign key and the unique index of the links keep panels *)
(* and companies consistent whatever interleaves; that an archived company *)
(* has let go of its panels, and that keys are programmed on links in use, *)
(* rests on requests that follow each other.                               *)
(*                                                                         *)
(* The import of panels: its plan is a fold over the rows of the file, as  *)
(* in KeyImportProofs; what the plan says of a MAC after some rows is what *)
(* the rows say, and the upserts of the whole file bring the table there.  *)
(***************************************************************************)
EXTENDS Accounts, Premises, KeyImportProofs

Labels == {"idle", "route", "lock", "wait", "change", "insertUser", "insertRole",
           "rows", "locks", "permissions", "dropRole"}

AccountsTypes ==
  /\ users \in [Users -> [there : BOOLEAN, active : BOOLEAN, role : Roles]]
  /\ roles \in [Roles -> [there : BOOLEAN, permissions : SUBSET Permissions]]
  /\ apc \in [Visitors -> Labels]
  /\ form \in [Visitors -> Forms \cup {NoForm}]
  /\ seen \in [Visitors -> SUBSET (Users \cup Permissions)]
  /\ held \in [Visitors -> SUBSET Users]

\* The role "admin" keeps what set_role_permissions adds to every choice.
AdminRoleKept == {"users", "settings"} \subseteq roles["admin"].permissions

\* A request at its last look holds the rows it has seen, all of administrators,
\* and no two hold the same row.
HeldAreAdmins ==
  /\ \A v \in Visitors : IF apc[v] = "change"
                           THEN held[v] = seen[v] /\ seen[v] \subseteq ActiveAdmins
                           ELSE held[v] = {}
  /\ \A v, w \in Visitors : v # w => held[v] \cap held[w] = {}

\* What the steps of a request know of its form.
FormFits ==
  \A v \in Visitors :
    /\ apc[v] # "idle" => form[v] \in Forms
    /\ apc[v] \in {"lock", "wait", "change"}
         => form[v].op \in {"update", "switch", "delete"}
    /\ apc[v] = "insertUser" => form[v].op = "add"
    /\ apc[v] = "insertRole" => form[v].op = "addRole"
    /\ apc[v] \in {"rows", "locks", "permissions"} => form[v].op \in {"permit", "addRole"}
    /\ apc[v] = "dropRole" => form[v].op = "dropRole" /\ form[v].role \notin SystemRoles

AccountsInv == AccountsTypes /\ AdminRoleKept /\ HeldAreAdmins /\ FormFits

-----------------------------------------------------------------------------
\* The fields of a form by the page it comes from.
LEMMA FormFields ==
  ASSUME NEW f \in Forms
  PROVE  /\ f.op \in {"add", "update", "switch", "delete", "permit", "addRole",
                      "dropRole"}
         /\ f.op \in {"add", "update", "switch", "delete"} => f.who \in Users
         /\ f.role \in Roles
         /\ f.active \in BOOLEAN
         /\ f.chosen \in SUBSET Permissions
BY DEF Forms, Roles, SystemRoles, Permissions

\* A request that ends lets go of its rows and leaves the others theirs.
LEMMA DoneKeeps ==
  ASSUME AccountsInv, NEW v \in Visitors, Done(v)
  PROVE  /\ apc' \in [Visitors -> Labels] /\ form' \in [Visitors -> Forms \cup {NoForm}]
         /\ seen' \in [Visitors -> SUBSET (Users \cup Permissions)]
         /\ held' \in [Visitors -> SUBSET Users]
         /\ FormFits'
         /\ apc'[v] = "idle" /\ held'[v] = {}
         /\ \A w \in Visitors \ {v} : /\ apc'[w] = apc[w] /\ held'[w] = held[w]
                                      /\ seen'[w] = seen[w]
BY DEF AccountsInv, AccountsTypes, FormFits, Done, Depart, Continue, Labels

\* So does one that has deleted rows, which those who wait for them then skip.
LEMMA CommitKeeps ==
  ASSUME AccountsInv, NEW v \in Visitors, NEW deleted, Commit(v, deleted)
  PROVE  /\ apc' \in [Visitors -> Labels] /\ form' \in [Visitors -> Forms \cup {NoForm}]
         /\ seen' \in [Visitors -> SUBSET (Users \cup Permissions)]
         /\ held' \in [Visitors -> SUBSET Users]
         /\ FormFits'
         /\ apc'[v] = "idle" /\ held'[v] = {}
         /\ \A w \in Visitors \ {v} : /\ apc'[w] = apc[w] /\ held'[w] = held[w]
                                      /\ apc[w] # "locks" => seen'[w] = seen[w]
<1>1. seen' \in [Visitors -> SUBSET (Users \cup Permissions)]
  BY DEF AccountsInv, AccountsTypes, Commit
<1>2. /\ apc' = [apc EXCEPT ![v] = "idle"] /\ form' = [form EXCEPT ![v] = NoForm]
      /\ held' = [held EXCEPT ![v] = {}]
  BY DEF Commit, Depart, Continue
<1>3. FormFits'
  BY <1>2 DEF AccountsInv, AccountsTypes, FormFits
<1>4. \A w \in Visitors \ {v} : apc[w] # "locks" => seen'[w] = seen[w]
  BY DEF Commit
<1> QED
  BY <1>1, <1>2, <1>3, <1>4 DEF AccountsInv, AccountsTypes, Labels

\* A request moves on and keeps its form, its rows and what it has seen.
LEMMA ContinueKeeps ==
  ASSUME AccountsInv, NEW v \in Visitors, NEW label \in Labels, Continue(v, label)
  PROVE  /\ apc' \in [Visitors -> Labels] /\ apc'[v] = label
         /\ \A w \in Visitors \ {v} : apc'[w] = apc[w]
BY DEF AccountsInv, AccountsTypes, Continue

-----------------------------------------------------------------------------
(* The actions, by what they change.                                       *)

\* Sessions only.
LEMMA SessionSteps ==
  ASSUME AccountsInv, NEW v \in Visitors,
         \/ SessionCleared(v) \/ Logout(v) \/ ToggleTraining(v)
         \/ \E u \in Users : Login(v, u)
  PROVE  AccountsInv' /\ UNCHANGED <<users, roles>>
<1>1. UNCHANGED <<users, roles, apc, form, seen, held>>
  BY DEF SessionCleared, Logout, ToggleTraining, Login
<1> QED
  BY <1>1 DEF AccountsInv, AccountsTypes, AdminRoleKept, HeldAreAdmins, FormFits,
     ActiveAdmins

\* The middleware writes down what is asked, and looks at nothing yet.
LEMMA DispatchStep ==
  ASSUME AccountsInv, NEW v \in Visitors, Dispatch(v)
  PROVE  AccountsInv' /\ UNCHANGED <<users, roles>>
<1>1. PICK f \in Forms : form' = [form EXCEPT ![v] = f]
  BY DEF Dispatch
<1>2. apc' = [apc EXCEPT ![v] = "route"] /\ apc[v] = "idle"
      /\ UNCHANGED <<users, roles, seen, held>>
  BY DEF Dispatch, Continue
<1> QED
  BY <1>1, <1>2 DEF AccountsInv, AccountsTypes, AdminRoleKept, HeldAreAdmins,
     FormFits, ActiveAdmins, Labels

\* The page is admitted or refused: only the control point moves, to one the
\* request's form fits.
LEMMA AdmitStep ==
  ASSUME AccountsInv, NEW v \in Visitors, Admit(v)
  PROVE  AccountsInv' /\ UNCHANGED <<users, roles>>
<1>1. UNCHANGED <<users, roles, form, seen, held>> /\ apc[v] = "route"
  BY DEF Admit
<1>2. PermissionFor(form[v].op) \in {"users", "settings"}
      /\ form[v].op \in {"add", "update", "switch", "delete", "permit",
                         "addRole", "dropRole"}
  <2>1. form[v] \in Forms
    BY <1>1 DEF AccountsInv, FormFits
  <2> QED BY <2>1, FormFields DEF PermissionFor
<1> QED
  BY <1>1, <1>2 DEF Admit, Continue, FirstStep, Admitted, RolePageAdmits,
     AccountsInv, AccountsTypes, AdminRoleKept, HeldAreAdmins, FormFits,
     ActiveAdmins, Labels, PermissionFor

\* A request that ends and has changed nothing.
LEMMA DoneOnly ==
  ASSUME AccountsInv, NEW v \in Visitors, Done(v), UNCHANGED <<users, roles>>
  PROVE  AccountsInv'
<1>1. AccountsTypes' /\ FormFits'
  BY DoneKeeps DEF AccountsInv, AccountsTypes
<1>2. AdminRoleKept' /\ ActiveAdmins' = ActiveAdmins
  BY DEF AccountsInv, AdminRoleKept, ActiveAdmins
<1>3. HeldAreAdmins'
  BY <1>2, DoneKeeps DEF AccountsInv, HeldAreAdmins
<1> QED BY <1>1, <1>2, <1>3 DEF AccountsInv

\* A refusal and the loss of a worker leave the tables as they are.
LEMMA EndSteps ==
  ASSUME AccountsInv, NEW v \in Visitors, Refuse(v) \/ LoseRequest(v)
  PROVE  AccountsInv' /\ UNCHANGED <<users, roles>>
BY DoneOnly DEF Refuse, LoseRequest

\* SELECT ... FOR UPDATE has found rows: they are the active administrators.
LEMMA SelectStep ==
  ASSUME AccountsInv, NEW v \in Visitors, SelectAdmins(v)
  PROVE  AccountsInv' /\ UNCHANGED <<users, roles>>
<1> DEFINE rows == ActiveAdmins
<1>1. rows \in SUBSET Users
  BY DEF ActiveAdmins
<1>2. /\ UNCHANGED <<users, roles, form, held>> /\ apc[v] = "lock"
      /\ apc' = [apc EXCEPT ![v] = "wait"] /\ seen' = [seen EXCEPT ![v] = rows]
  BY DEF SelectAdmins, Continue
<1> HIDE DEF rows
<1>3. AccountsTypes' /\ AdminRoleKept' /\ ActiveAdmins' = ActiveAdmins
  BY <1>1, <1>2 DEF AccountsInv, AccountsTypes, AdminRoleKept, ActiveAdmins, Labels
<1>4. HeldAreAdmins'
  BY <1>2, <1>3 DEF AccountsInv, AccountsTypes, HeldAreAdmins
<1>5. FormFits'
  BY <1>2 DEF AccountsInv, AccountsTypes, FormFits
<1> QED BY <1>2, <1>3, <1>4, <1>5 DEF AccountsInv

\* The rows a request locks are nobody else's, and of administrators.
LEMMA LockStep ==
  ASSUME AccountsInv, NEW v \in Visitors, LockAdmins(v)
  PROVE  AccountsInv' /\ UNCHANGED <<users, roles>>
<1> DEFINE rows == StillAdmins(v)
<1>1. rows \subseteq ActiveAdmins /\ rows \in SUBSET Users
      /\ \A w \in Visitors \ {v} : rows \cap held[w] = {}
  BY DEF LockAdmins, StillAdmins, LockedByOthers, ActiveAdmins
<1>2. /\ UNCHANGED <<users, roles, form>> /\ apc[v] = "wait"
      /\ apc' = [apc EXCEPT ![v] = "change"]
      /\ seen' = [seen EXCEPT ![v] = rows] /\ held' = [held EXCEPT ![v] = rows]
  BY DEF LockAdmins, Continue
<1> HIDE DEF rows
<1>3. AccountsTypes' /\ AdminRoleKept' /\ ActiveAdmins' = ActiveAdmins
  BY <1>1, <1>2 DEF AccountsInv, AccountsTypes, AdminRoleKept, ActiveAdmins, Labels
<1>4. HeldAreAdmins'
  BY <1>1, <1>2, <1>3 DEF AccountsInv, AccountsTypes, HeldAreAdmins
<1>5. FormFits'
  BY <1>2 DEF AccountsInv, AccountsTypes, FormFits
<1> QED BY <1>2, <1>3, <1>4, <1>5 DEF AccountsInv

\* The DELETE of set_role_permissions has found rows; nothing is written yet.
LEMMA RowsStep ==
  ASSUME AccountsInv, NEW v \in Visitors, FindRows(v)
  PROVE  AccountsInv' /\ UNCHANGED <<users, roles>>
<1> DEFINE rows == roles[form[v].role].permissions
<1>1. CASE ~roles[form[v].role].there
  BY <1>1, DoneOnly DEF FindRows
<1>2. CASE roles[form[v].role].there
  <2>1. rows \in SUBSET Permissions
    BY FormFields DEF FindRows, AccountsInv, AccountsTypes, FormFits
  <2>2. /\ UNCHANGED <<users, roles, form, held>> /\ apc[v] = "rows"
        /\ apc' = [apc EXCEPT ![v] = "locks"]
        /\ seen' = [seen EXCEPT ![v] = rows]
    BY <1>2 DEF FindRows, Continue
  <2> HIDE DEF rows
  <2>3. AccountsTypes' /\ AdminRoleKept' /\ ActiveAdmins' = ActiveAdmins
    BY <2>1, <2>2 DEF AccountsInv, AccountsTypes, AdminRoleKept, ActiveAdmins, Labels
  <2>4. HeldAreAdmins'
    BY <2>2, <2>3 DEF AccountsInv, AccountsTypes, HeldAreAdmins
  <2>5. FormFits'
    BY <2>2 DEF AccountsInv, AccountsTypes, FormFits
  <2> QED BY <2>2, <2>3, <2>4, <2>5 DEF AccountsInv
<1> QED BY <1>1, <1>2

\* It has their locks.
LEMMA DeleteStep ==
  ASSUME AccountsInv, NEW v \in Visitors, DeleteRows(v)
  PROVE  AccountsInv' /\ UNCHANGED <<users, roles>>
<1>1. /\ UNCHANGED <<users, roles, form, held, seen>> /\ apc[v] = "locks"
      /\ apc' = [apc EXCEPT ![v] = "permissions"]
  BY DEF DeleteRows, Continue
<1>2. AccountsTypes' /\ AdminRoleKept' /\ ActiveAdmins' = ActiveAdmins
  BY <1>1 DEF AccountsInv, AccountsTypes, AdminRoleKept, ActiveAdmins, Labels
<1>3. HeldAreAdmins'
  BY <1>1, <1>2 DEF AccountsInv, AccountsTypes, HeldAreAdmins
<1>4. FormFits'
  BY <1>1 DEF AccountsInv, AccountsTypes, FormFits
<1> QED BY <1>1, <1>2, <1>3, <1>4 DEF AccountsInv

-----------------------------------------------------------------------------
(* What changes the accounts and the roles.                                *)

\* A new user is added to the active administrators or changes nothing there.
LEMMA InsertUserStep ==
  ASSUME AccountsInv, NEW v \in Visitors, InsertUser(v)
  PROVE  /\ AccountsInv' /\ UNCHANGED roles
         /\ ActiveAdmins \subseteq ActiveAdmins'
<1>1. form[v].who \in Users /\ form[v].role \in Roles
  BY FormFields DEF InsertUser, AccountsInv, FormFits
<1>2. Done(v) /\ UNCHANGED roles
  BY DEF InsertUser
<1>3. users' \in [Users -> [there : BOOLEAN, active : BOOLEAN, role : Roles]]
  BY <1>1 DEF InsertUser, AccountsInv, AccountsTypes
<1>4. ActiveAdmins \subseteq ActiveAdmins'
  BY <1>1 DEF InsertUser, ActiveAdmins, AccountsInv, AccountsTypes
<1> QED
  BY ZenonT(60), <1>2, <1>3, <1>4, DoneKeeps DEF AccountsInv, AccountsTypes, AdminRoleKept,
     HeldAreAdmins

\* A change takes the last administrator only if it has found none to look at:
\* one it has seen is still there, or is the one it spares.
LEMMA ChangeUserStep ==
  ASSUME AccountsInv, NEW v \in Visitors, ChangeUser(v)
  PROVE  /\ AccountsInv' /\ UNCHANGED roles
         /\ ActiveAdmins # {} /\ ~FoundNone(v) => ActiveAdmins' # {}
<1> DEFINE f == form[v]
<1>1. f \in Forms /\ f.who \in Users /\ f.role \in Roles /\ f.active \in BOOLEAN
      /\ f.op \in {"update", "switch", "delete"}
  BY FormFields DEF ChangeUser, AccountsInv, FormFits
<1>2. Done(v) /\ UNCHANGED roles /\ apc[v] = "change"
      /\ f.who \notin LockedByOthers(v)
  BY DEF ChangeUser
<1>3. \/ users' = users
      \/ ~TakesLastAdmin(v) /\ users[f.who].there /\ users' = Changed(f)
  BY DEF ChangeUser
<1>4. Changed(f) \in [Users -> [there : BOOLEAN, active : BOOLEAN, role : Roles]]
      /\ \A u \in Users \ {f.who} : Changed(f)[u] = users[u]
  <2> HIDE DEF f
  <2> QED BY <1>1 DEF Changed, AccountsInv, AccountsTypes, Roles, SystemRoles
<1>5. \A u \in Users \ {f.who} : u \in ActiveAdmins <=> u \in ActiveAdmins'
  BY <1>3, <1>4 DEF ActiveAdmins
<1>6. AccountsTypes' /\ AdminRoleKept' /\ FormFits'
  BY <1>2, <1>3, <1>4, DoneKeeps DEF AccountsInv, AccountsTypes, AdminRoleKept
<1>7. \A w \in Visitors \ {v} : f.who \notin held[w]
  BY <1>2 DEF LockedByOthers
<1>8. HeldAreAdmins'
  <2>1. \A w \in Visitors \ {v} : apc[w] = "change" => seen[w] \subseteq ActiveAdmins'
    BY <1>5, <1>7 DEF AccountsInv, HeldAreAdmins, ActiveAdmins
  <2> QED BY <1>2, <2>1, DoneKeeps DEF AccountsInv, HeldAreAdmins
<1>9. ASSUME ActiveAdmins # {}, ~FoundNone(v)
      PROVE  ActiveAdmins' # {}
  <2>1. seen[v] # {} /\ seen[v] \subseteq ActiveAdmins
    BY <1>2, <1>9 DEF FoundNone, AccountsInv, HeldAreAdmins
  <2>2. CASE seen[v] # {f.who}
    <3>1. PICK u \in seen[v] : u # f.who
      BY <2>1, <2>2
    <3> QED BY <2>1, <3>1, <1>5 DEF ActiveAdmins
  <2>3. CASE seen[v] = {f.who}
    <3>1. f.who \in ActiveAdmins
      BY <2>1, <2>3
    <3>2. CASE users' = users
      BY <3>1, <3>2 DEF ActiveAdmins
    <3>3. CASE ~TakesLastAdmin(v) /\ users' = Changed(f)
      <4>1. \/ f.op = "update" /\ f.role = "admin"
            \/ f.op = "switch" /\ f.active
        BY <1>1, <2>3, <3>1, <3>3 DEF TakesLastAdmin, ActiveAdmins
      <4>2. f.who \in ActiveAdmins'
        <5> HIDE DEF f
        <5> QED BY <1>1, <3>1, <3>3, <4>1 DEF Changed, ActiveAdmins, AccountsInv,
                   AccountsTypes
      <4> QED BY <4>2
    <3> QED BY <1>3, <3>2, <3>3
  <2> QED BY <2>2, <2>3
<1> QED BY <1>2, <1>6, <1>8, <1>9 DEF AccountsInv

\* The critical permissions are added to every choice for administrators.
LEMMA RoleSteps ==
  ASSUME AccountsInv, NEW v \in Visitors,
         InsertRole(v) \/ InsertRows(v) \/ DropRole(v)
  PROVE  AccountsInv' /\ UNCHANGED users
<1>1. form[v] \in Forms /\ form[v].role \in Roles
      /\ form[v].chosen \in SUBSET Permissions
  BY FormFields DEF InsertRole, InsertRows, DropRole, AccountsInv, FormFits
<1>2. UNCHANGED users /\ ActiveAdmins' = ActiveAdmins
  BY DEF InsertRole, InsertRows, DropRole, ActiveAdmins
<1>3. CASE InsertRole(v)
  <2>1. roles' \in [Roles -> [there : BOOLEAN, permissions : SUBSET Permissions]]
        /\ AdminRoleKept'
    BY ZenonT(60), <1>1, <1>3 DEF InsertRole, AccountsInv, AccountsTypes, AdminRoleKept, Roles,
       SystemRoles
  <2>2. AccountsTypes' /\ HeldAreAdmins'
    BY <1>2, <1>3, <2>1, ContinueKeeps DEF InsertRole, AccountsInv, AccountsTypes,
       HeldAreAdmins, Labels
  <2>3. FormFits'
    BY <1>3 DEF InsertRole, Continue, AccountsInv, AccountsTypes, FormFits
  <2> QED BY <1>2, <2>1, <2>2, <2>3 DEF AccountsInv
<1>4. CASE InsertRows(v) \/ DropRole(v)
  <2>1. /\ Selected(form[v].role, form[v].chosen) \in SUBSET Permissions
        /\ form[v].role = "admin"
             => {"users", "settings"} \subseteq Selected(form[v].role, form[v].chosen)
    BY <1>1 DEF Selected, Critical, Permissions
  <2>2. Kept(v) \in SUBSET Permissions
    BY <1>1 DEF Kept, AccountsInv, AccountsTypes
  <2>3. roles' \in [Roles -> [there : BOOLEAN, permissions : SUBSET Permissions]]
        /\ AdminRoleKept'
    <3>1. CASE InsertRows(v)
      <4> DEFINE r == form[v].role
                 rows == Kept(v) \cup Selected(r, form[v].chosen)
      <4>1. \/ roles' = roles
            \/ roles' = [roles EXCEPT ![r].permissions = rows]
        BY <3>1 DEF InsertRows
      <4>2. rows \subseteq Permissions
        BY <2>1, <2>2
      <4>3. r \in Roles /\ (r = "admin" => {"users", "settings"} \subseteq rows)
        BY <1>1, <2>1
      <4> HIDE DEF r, rows
      <4> QED BY <4>1, <4>2, <4>3 DEF AccountsInv, AccountsTypes, AdminRoleKept,
                 Roles, SystemRoles
    <3>2. CASE DropRole(v)
      <4> DEFINE r == form[v].role
      <4>1. \/ roles' = roles
            \/ roles' = [roles EXCEPT ![r] = [there |-> FALSE, permissions |-> {}]]
        BY <3>2 DEF DropRole
      <4>2. r \in Roles \ {"admin"}
        BY <1>1, <3>2 DEF DropRole, AccountsInv, FormFits, SystemRoles
      <4> HIDE DEF r
      <4>3. roles' \in [Roles -> [there : BOOLEAN, permissions : SUBSET Permissions]]
        <5> DEFINE gone == [there |-> FALSE, permissions |-> {}]
                   R == [there : BOOLEAN, permissions : SUBSET Permissions]
        <5>1. gone \in R
          OBVIOUS
        <5>2. roles \in [Roles -> R]
          BY DEF AccountsInv, AccountsTypes
        <5>3. roles' = roles \/ roles' = [roles EXCEPT ![r] = gone]
          BY <4>1
        <5> HIDE DEF gone, R
        <5>4. roles' \in [Roles -> R]
          BY <5>1, <5>2, <5>3, <4>2
        <5> QED BY <5>4 DEF R
      <4>4. "admin" \in Roles
        BY DEF Roles, SystemRoles
      <4>5. roles'["admin"] = roles["admin"]
        BY <4>1, <4>2, <4>4 DEF AccountsInv, AccountsTypes
      <4> QED BY <4>3, <4>5 DEF AccountsInv, AdminRoleKept
    <3> QED BY <1>4, <3>1, <3>2
  <2>4. Done(v) \/ \E deleted : Commit(v, deleted)
    BY <1>4 DEF InsertRows, DropRole
  <2>5. /\ apc' \in [Visitors -> Labels] /\ form' \in [Visitors -> Forms \cup {NoForm}]
        /\ seen' \in [Visitors -> SUBSET (Users \cup Permissions)]
        /\ held' \in [Visitors -> SUBSET Users]
        /\ FormFits'
        /\ apc'[v] = "idle" /\ held'[v] = {}
        /\ \A w \in Visitors \ {v} : /\ apc'[w] = apc[w] /\ held'[w] = held[w]
                                     /\ apc[w] # "locks" => seen'[w] = seen[w]
    <3>1. CASE Done(v)
      BY <3>1, DoneKeeps
    <3>2. ASSUME NEW deleted, Commit(v, deleted)
          PROVE  /\ apc' \in [Visitors -> Labels] /\ form' \in [Visitors -> Forms \cup {NoForm}]
                 /\ seen' \in [Visitors -> SUBSET (Users \cup Permissions)]
                 /\ held' \in [Visitors -> SUBSET Users]
                 /\ FormFits'
                 /\ apc'[v] = "idle" /\ held'[v] = {}
                 /\ \A w \in Visitors \ {v} : /\ apc'[w] = apc[w] /\ held'[w] = held[w]
                                              /\ apc[w] # "locks" => seen'[w] = seen[w]
      BY <3>2, CommitKeeps
    <3> QED BY <2>4, <3>1, <3>2
  <2>6. AccountsTypes'
    BY <1>2, <2>3, <2>5 DEF AccountsInv, AccountsTypes
  <2>7. HeldAreAdmins'
    BY <1>2, <2>5 DEF AccountsInv, AccountsTypes, HeldAreAdmins
  <2> QED
    BY <1>2, <2>3, <2>5, <2>6, <2>7 DEF AccountsInv
<1> QED BY <1>2, <1>3, <1>4

\* ensure_system_roles gives a role its defaults; those of the administrators
\* have the critical permissions.
LEMMA SeedStep ==
  ASSUME AccountsInv, SeedRoles
  PROVE  AccountsInv' /\ UNCHANGED users
<1>1. \A r \in Roles : Defaults(r) \in SUBSET Permissions
  BY DEF Defaults, Permissions
<1>2. UNCHANGED <<users, apc, form, seen, held>>
  BY DEF SeedRoles
<1>3. roles' \in [Roles -> [there : BOOLEAN, permissions : SUBSET Permissions]]
      /\ AdminRoleKept'
  BY <1>1 DEF SeedRoles, AccountsInv, AccountsTypes, AdminRoleKept, Roles, SystemRoles
<1> QED
  BY <1>2, <1>3 DEF AccountsInv, AccountsTypes, HeldAreAdmins, FormFits, ActiveAdmins

-----------------------------------------------------------------------------
\* Every step keeps the invariant and, unless a change has found none to look at,
\* leaves an administrator.
LEMMA AccountsStep ==
  ASSUME AccountsInv, AccountsNext
  PROVE  /\ AccountsInv'
         /\ ActiveAdmins # {} /\ ActiveAdmins' = {}
              => \E v \in Visitors : FoundNone(v) /\ apc'[v] = "idle"
<1>1. CASE SeedRoles
  BY <1>1, SeedStep DEF ActiveAdmins
<1>2. ASSUME NEW v \in Visitors,
             \/ Dispatch(v) \/ SessionCleared(v) \/ Logout(v) \/ ToggleTraining(v)
             \/ LoseRequest(v)
             \/ \E u \in Users : Login(v, u)
             \/ Refuse(v) \/ Admit(v)
             \/ SelectAdmins(v) \/ LockAdmins(v) \/ FindRows(v) \/ DeleteRows(v)
      PROVE  AccountsInv' /\ ActiveAdmins' = ActiveAdmins
  <2>1. AccountsInv' /\ UNCHANGED <<users, roles>>
    BY <1>2, SessionSteps, DispatchStep, AdmitStep, EndSteps, SelectStep, LockStep,
       RowsStep, DeleteStep
  <2> QED BY <2>1 DEF ActiveAdmins
<1>3. ASSUME NEW v \in Visitors, InsertUser(v)
      PROVE  AccountsInv' /\ ActiveAdmins \subseteq ActiveAdmins'
  BY <1>3, InsertUserStep
<1>4. ASSUME NEW v \in Visitors, InsertRole(v) \/ InsertRows(v) \/ DropRole(v)
      PROVE  AccountsInv' /\ ActiveAdmins' = ActiveAdmins
  BY <1>4, RoleSteps DEF ActiveAdmins
<1>5. ASSUME NEW v \in Visitors, ChangeUser(v)
      PROVE  /\ AccountsInv' /\ apc'[v] = "idle"
             /\ ActiveAdmins # {} /\ ~FoundNone(v) => ActiveAdmins' # {}
  BY <1>5, ChangeUserStep, DoneKeeps DEF ChangeUser
<1> QED BY <1>1, <1>2, <1>3, <1>4, <1>5 DEF AccountsNext

\* At the start the roles have their defaults and an administrator is active.
LEMMA AccountsStart == AccountsInit => AccountsInv /\ AdministratorLeft
<1> SUFFICES ASSUME AccountsInit PROVE AccountsInv /\ AdministratorLeft
  OBVIOUS
<1>1. \A r \in Roles : Defaults(r) \in SUBSET Permissions
  BY DEF Defaults, Permissions
<1>2. roles["admin"].permissions = Permissions
  BY DEF AccountsInit, Defaults, Roles, SystemRoles
<1>3. AdminRoleKept
  BY <1>2 DEF AdminRoleKept, Permissions
<1>4. users \in [Users -> [there : BOOLEAN, active : BOOLEAN, role : Roles]]
  BY DEF AccountsInit, Roles, SystemRoles
<1>5. AccountsTypes
  BY <1>1, <1>4 DEF AccountsInit, AccountsTypes, Labels
<1>6. HeldAreAdmins /\ FormFits
  BY DEF AccountsInit, HeldAreAdmins, FormFits
<1> QED BY <1>3, <1>5, <1>6 DEF AccountsInv, AdministratorLeft, AdminRoleKept,
           AccountsInit

\* What a change looks at it has locked, and the role of the administrators
\* keeps its critical permissions.
THEOREM AccountsSound == AccountsSpec => []AccountsInv
<1>1. AccountsInv /\ UNCHANGED accountsVars => AccountsInv'
  BY DEF accountsVars, AccountsInv, AccountsTypes, AdminRoleKept, HeldAreAdmins,
     FormFits, ActiveAdmins
<1>2. AccountsInv /\ [AccountsNext]_accountsVars => AccountsInv'
  BY <1>1, AccountsStep
<1> QED BY <1>2, AccountsStart, PTL DEF AccountsSpec

\* Nobody takes the last administrator away, however many users and requests
\* there are, unless a change has found no administrator to look at.
THEOREM LastAdministratorStays == AccountsSpec => AdministratorStays
<1>1. AccountsInv /\ AccountsInv' /\ [AccountsNext]_accountsVars
        => [AdministratorLeft /\ ~AdministratorLeft'
              => \E v \in Visitors : FoundNone(v) /\ apc'[v] = "idle"]_accountsVars
  <2> SUFFICES ASSUME AccountsInv, AccountsInv', AccountsNext, AdministratorLeft,
                      ~AdministratorLeft'
               PROVE  \E v \in Visitors : FoundNone(v) /\ apc'[v] = "idle"
    OBVIOUS
  <2>1. ActiveAdmins # {} /\ ActiveAdmins' = {}
    BY DEF AccountsInv, AdminRoleKept, AdministratorLeft
  <2> QED BY <2>1, AccountsStep
<1> QED BY <1>1, AccountsSound, PTL DEF AccountsSpec, AdministratorStays

-----------------------------------------------------------------------------
(* Panels, companies and links.                                            *)

PanelsKnown ==
  /\ DOMAIN panels = PanelIds
  /\ \A p \in PanelIds : "state" \in DOMAIN panels[p]

PremisesTypes ==
  /\ PanelsKnown
  /\ companies \in [Firms -> [state : {"absent", "open", "archived"}, login : BOOLEAN]]
  /\ links \in Seq(LinkRows)
  /\ DOMAIN errand = Managers
  /\ epc \in [Managers -> {"idle", "import", "add", "detach", "program"}]

\* A panel with a link is there, and in use by one company at most.
LinksSound ==
  \A i \in DOMAIN links :
    /\ IsThere(links[i].panel)
    /\ links[i].active => ~Reserved(links[i].panel, i)

CompaniesSound == \A g \in Firms : companies[g].state = "archived" => ~companies[g].login

\* What a request has read, as long as nobody else has written since.
ErrandFits(m) ==
  /\ epc[m] = "add" =>
       /\ errand[m].firm \in Firms /\ errand[m].panel \in PanelIds
       /\ errand[m].old \in DOMAIN links \cup {0}
       /\ errand[m].old # 0 => links[errand[m].old].firm = errand[m].firm
                               /\ links[errand[m].old].panel = errand[m].panel
       /\ apart => GroupIsOpen(errand[m].firm)
  /\ epc[m] = "detach" =>
       /\ errand[m].link \in DOMAIN links
       /\ apart => ~links[errand[m].link].programmed
  /\ epc[m] = "program" =>
       /\ errand[m].link \in DOMAIN links
       /\ apart => links[errand[m].link].active

\* The links of a company that is open, when requests follow each other.
LinksInUse ==
  \A i \in DOMAIN links :
    /\ links[i].active => GroupIsOpen(links[i].firm)
    /\ links[i].programmed /\ ~links[i].active
         => companies[links[i].firm].state = "archived"

PremisesInv ==
  /\ PremisesTypes
  /\ LinksSound
  /\ CompaniesSound
  /\ \A m \in Managers : ErrandFits(m)
  /\ apart => /\ LinksInUse
              /\ \A m, n \in Managers : epc[m] # "idle" /\ epc[n] # "idle" => m = n

\* The same link with its columns, in each of its rows.
LEMMA LinkIs ==
  ASSUME PremisesTypes, NEW i \in DOMAIN links
  PROVE  /\ links[i] \in LinkRows /\ links[i].firm \in Firms
         /\ links[i].panel \in PanelIds
         /\ links[i].active \in BOOLEAN /\ links[i].programmed \in BOOLEAN
<1>1. links[i] \in LinkRows
  BY DEF PremisesTypes
<1> QED BY <1>1 DEF LinkRows

-----------------------------------------------------------------------------
\* A step that leaves companies and links alone, and takes no panel away that
\* has a link.
LEMMA PanelsStep ==
  ASSUME PremisesInv, UNCHANGED <<companies, links, apart>>, PanelsKnown',
         \A i \in DOMAIN links : IsThere(links[i].panel)',
         UNCHANGED <<epc, errand>> \/ \E m \in Managers : Go(m, "idle", NoErrand)
  PROVE  PremisesInv'
<1>1. /\ DOMAIN errand' = Managers
      /\ epc' \in [Managers -> {"idle", "import", "add", "detach", "program"}]
      /\ \A m \in Managers : epc'[m] = "idle"
                             \/ (epc'[m] = epc[m] /\ errand'[m] = errand[m])
  BY DEF PremisesInv, PremisesTypes, Go
<1>2. PremisesTypes'
  BY <1>1 DEF PremisesInv, PremisesTypes
<1>3. LinksSound'
  BY DEF PremisesInv, LinksSound, Reserved
<1>4. CompaniesSound'
  BY DEF PremisesInv, CompaniesSound
<1>5. \A m \in Managers : ErrandFits(m)'
  BY <1>1 DEF PremisesInv, ErrandFits, GroupIsOpen
<1>6. apart' => /\ LinksInUse'
                /\ \A m, n \in Managers : epc'[m] # "idle" /\ epc'[n] # "idle" => m = n
  BY <1>1 DEF PremisesInv, LinksInUse, GroupIsOpen
<1> QED BY <1>2, <1>3, <1>4, <1>5, <1>6 DEF PremisesInv

\* Rows are only added or changed in place.
LEMMA UpsertKeeps ==
  ASSUME PanelsKnown, NEW rows, NEW enable, panels' = Upserted(panels, rows, enable)
  PROVE  PanelsKnown' /\ \A p \in PanelIds : IsThere(p) => IsThere(p)'
<1>1. DOMAIN panels' = PanelIds
  BY DEF Upserted
<1>2. ASSUME NEW p \in PanelIds
      PROVE  "state" \in DOMAIN panels'[p] /\ (IsThere(p) => IsThere(p)')
  <2>1. \/ panels'[p] = panels[p]
        \/ \E cell, enabled : panels'[p] = [panels[p] EXCEPT !.cell = cell, !.enabled = enabled]
        \/ ~IsThere(p) /\ \E mac, cell : panels'[p] = NewPanel(mac, cell)
    BY DEF Upserted, IsThere
  <2>2. CASE \E cell, enabled :
               panels'[p] = [panels[p] EXCEPT !.cell = cell, !.enabled = enabled]
    <3>1. PICK cell, enabled :
            panels'[p] = [panels[p] EXCEPT !.cell = cell, !.enabled = enabled]
      BY <2>2
    <3>2. "state" \in DOMAIN panels[p]
      BY DEF PanelsKnown
    <3> QED BY <3>1, <3>2 DEF IsThere
  <2>3. CASE \E mac, cell : panels'[p] = NewPanel(mac, cell)
    BY <2>3 DEF IsThere, NewPanel
  <2> QED BY ZenonT(60), <2>1, <2>2, <2>3 DEF PanelsKnown, IsThere
<1> QED BY SMTT(60), <1>1, <1>2 DEF PanelsKnown

\* What the register of panels does to its rows.
LEMMA PanelSteps ==
  ASSUME PremisesInv,
         \/ \E mac \in Macs, cell \in Cells \cup {NoCell} :
              SavePanel(mac, cell) \/ \E p \in PanelIds : EditPanel(p, mac, cell)
         \/ \E p \in PanelIds : TogglePanel(p) \/ DeletePanel(p)
         \/ \E m \in Managers : WritePanels(m) \/ LoseErrand(m)
  PROVE  PremisesInv'
<1>0. PanelsKnown /\ \A i \in DOMAIN links : links[i].panel \in PanelIds
                                               /\ IsThere(links[i].panel)
  BY LinkIs DEF PremisesInv, PremisesTypes, LinksSound
<1>1. CASE \E mac \in Macs, cell \in Cells \cup {NoCell} : SavePanel(mac, cell)
  BY <1>0, <1>1, UpsertKeeps, PanelsStep DEF SavePanel
<1>2. CASE \E mac \in Macs, cell \in Cells \cup {NoCell}, p \in PanelIds :
             EditPanel(p, mac, cell)
  <2>1. PanelsKnown' /\ \A q \in PanelIds : IsThere(q) => IsThere(q)'
    BY <1>0, <1>2 DEF EditPanel, PanelsKnown, IsThere
  <2> QED BY <1>0, <1>2, <2>1, PanelsStep DEF EditPanel
<1>3. CASE \E p \in PanelIds : TogglePanel(p)
  <2>1. PanelsKnown' /\ \A q \in PanelIds : IsThere(q) => IsThere(q)'
    BY <1>0, <1>3 DEF TogglePanel, PanelsKnown, IsThere
  <2> QED BY <1>0, <1>3, <2>1, PanelsStep DEF TogglePanel
<1>4. CASE \E p \in PanelIds : DeletePanel(p)
  <2>1. PICK p \in PanelIds : DeletePanel(p)
    BY <1>4
  <2>2. PanelsKnown' /\ \A q \in PanelIds \ {p} : IsThere(q) => IsThere(q)'
    BY <1>0, <2>1 DEF DeletePanel, PanelsKnown, IsThere, DeletedPanel, UnusedPanel
  <2> QED BY <1>0, <2>1, <2>2, PanelsStep DEF DeletePanel
<1>5. CASE \E m \in Managers : WritePanels(m)
  <2>1. PICK m \in Managers : WritePanels(m)
    BY <1>5
  <2>2. PanelsKnown' /\ \A p \in PanelIds : IsThere(p) => IsThere(p)'
    BY <1>0, <2>1, UpsertKeeps DEF WritePanels
  <2> QED BY <1>0, <2>1, <2>2, PanelsStep DEF WritePanels, Leave
<1>6. CASE \E m \in Managers : LoseErrand(m)
  BY <1>0, <1>6, PanelsStep DEF LoseErrand, Leave, PanelsKnown, IsThere
<1> QED BY <1>1, <1>2, <1>3, <1>4, <1>5, <1>6

\* Companies are saved, updated and archived.
LEMMA CompanySteps ==
  ASSUME PremisesInv, NEW g \in Firms,
         (\E login \in BOOLEAN : SaveGroup(g, login)) \/ UpdateGroup(g) \/ ArchiveGroup(g)
  PROVE  PremisesInv'
<1>0. /\ companies[g] \in [state : {"absent", "open", "archived"}, login : BOOLEAN]
      /\ UNCHANGED <<panels, epc, errand, apart>>
      /\ apart => \A m \in Managers : epc[m] = "idle"
  BY DEF PremisesInv, PremisesTypes, SaveGroup, UpdateGroup, ArchiveGroup, Arrive
<1>1. CASE (\E login \in BOOLEAN : SaveGroup(g, login)) \/ UpdateGroup(g)
  <2>1. /\ UNCHANGED links
        /\ companies' \in [Firms -> [state : {"absent", "open", "archived"}, login : BOOLEAN]]
        /\ \A h \in Firms : /\ companies[h].state # "absent"
                                 => companies'[h].state = companies[h].state
                            /\ companies'[h].state = "archived"
                                 => companies'[h] = companies[h]
    <3>1. CASE \E login \in BOOLEAN : SaveGroup(g, login)
      BY <1>0, <3>1 DEF PremisesInv, PremisesTypes, SaveGroup
    <3>2. CASE UpdateGroup(g)
      BY <1>0, <3>2 DEF PremisesInv, PremisesTypes, UpdateGroup, GroupIsOpen
    <3> QED BY <1>1, <3>1, <3>2
  <2>2. PremisesTypes' /\ LinksSound'
    BY <1>0, <2>1 DEF PremisesInv, PremisesTypes, PanelsKnown, LinksSound, IsThere, Reserved
  <2>3. CompaniesSound'
    BY <2>1 DEF PremisesInv, CompaniesSound
  <2>4. \A m \in Managers : ErrandFits(m)'
    BY <1>0, <2>1 DEF PremisesInv, ErrandFits, GroupIsOpen
  <2>5. apart' => LinksInUse'
    BY <1>0, <2>1, LinkIs DEF PremisesInv, LinksInUse, GroupIsOpen
  <2> QED BY <1>0, <2>2, <2>3, <2>4, <2>5 DEF PremisesInv
<1>2. CASE ArchiveGroup(g)
  <2>1. /\ DOMAIN links' = DOMAIN links
        /\ \A i \in DOMAIN links :
             links'[i] = IF links[i].firm = g THEN [links[i] EXCEPT !.active = FALSE]
                                              ELSE links[i]
    BY <1>2 DEF ArchiveGroup
  <2>2. \A i \in DOMAIN links : /\ links'[i] \in LinkRows
                                /\ links'[i].firm = links[i].firm
                                /\ links'[i].panel = links[i].panel
                                /\ links'[i].programmed = links[i].programmed
                                /\ links'[i].active
                                     <=> links[i].active /\ links[i].firm # g
    BY <2>1, LinkIs DEF PremisesInv, LinkRows
  <2>3. links' \in Seq(LinkRows)
    BY <1>2, <2>1, <2>2 DEF PremisesInv, PremisesTypes, ArchiveGroup
  <2>4. /\ companies' \in [Firms -> [state : {"absent", "open", "archived"}, login : BOOLEAN]]
        /\ companies'[g].state = "archived" /\ ~companies'[g].login
        /\ \A h \in Firms \ {g} : companies'[h] = companies[h]
    BY <1>2 DEF ArchiveGroup, PremisesInv, PremisesTypes
  <2>5. PremisesTypes'
    BY <1>0, <2>3, <2>4 DEF PremisesInv, PremisesTypes, PanelsKnown
  <2>6. LinksSound'
    BY <1>0, <2>1, <2>2 DEF PremisesInv, LinksSound, IsThere, Reserved
  <2>7. CompaniesSound'
    BY <2>4 DEF PremisesInv, CompaniesSound
  <2>8. \A m \in Managers : ErrandFits(m)'
    BY <1>0, <2>1, <2>2 DEF PremisesInv, ErrandFits
  <2>9. apart' => LinksInUse'
    BY <1>0, <2>1, <2>2, <2>4, LinkIs DEF PremisesInv, LinksInUse, GroupIsOpen
  <2> QED BY <1>0, <2>5, <2>6, <2>7, <2>8, <2>9 DEF PremisesInv
<1> QED BY <1>1, <1>2

\* Requests that read the links first.
LEMMA ReadingSteps ==
  ASSUME PremisesInv, NEW m \in Managers,
         \/ \E file \in PanelFiles : ReadPanelFile(m, file)
         \/ \E g \in Firms, p \in PanelIds : ReadForAdd(m, g, p)
         \/ \E i \in DOMAIN links : ReadForDetach(m, i) \/ ReadForProgramming(m, i)
  PROVE  PremisesInv'
<1>1. /\ UNCHANGED <<panels, companies, links, apart>>
      /\ apart => \A n \in Managers : epc[n] = "idle"
      /\ \E label \in {"import", "add", "detach", "program"} :
           \E record : Go(m, label, record)
  BY DEF ReadPanelFile, ReadForAdd, ReadForDetach, ReadForProgramming, Arrive
<1>2. /\ DOMAIN errand' = Managers
      /\ epc' \in [Managers -> {"idle", "import", "add", "detach", "program"}]
      /\ \A n \in Managers \ {m} : epc'[n] = epc[n] /\ errand'[n] = errand[n]
  BY <1>1 DEF PremisesInv, PremisesTypes, Go
<1>3. PremisesTypes' /\ LinksSound' /\ CompaniesSound'
  BY <1>1, <1>2 DEF PremisesInv, PremisesTypes, PanelsKnown, LinksSound, IsThere,
     Reserved, CompaniesSound
<1>4. \A n \in Managers \ {m} : ErrandFits(n)'
  BY <1>1, <1>2 DEF PremisesInv, ErrandFits, GroupIsOpen
<1>5. ErrandFits(m)'
  <2>1. CASE \E file \in PanelFiles : ReadPanelFile(m, file)
    BY <2>1 DEF ReadPanelFile, Go, PremisesInv, PremisesTypes, ErrandFits
  <2>2. CASE \E g \in Firms, p \in PanelIds : ReadForAdd(m, g, p)
    <3>1. PICK g \in Firms, p \in PanelIds : ReadForAdd(m, g, p)
      BY <2>2
    <3>2. OldLink(g, p) = 0 \/ /\ OldLink(g, p) \in DOMAIN links
                               /\ links[OldLink(g, p)].firm = g
                               /\ links[OldLink(g, p)].panel = p
      BY DEF OldLink
    <3> QED BY <1>1, <3>1, <3>2 DEF ReadForAdd, Go, PremisesInv, PremisesTypes, ErrandFits,
               GroupIsOpen
  <2>3. CASE \E i \in DOMAIN links : ReadForDetach(m, i) \/ ReadForProgramming(m, i)
    BY <1>1, <2>3 DEF ReadForDetach, ReadForProgramming, MayDetach, Go, PremisesInv,
       PremisesTypes, ErrandFits
  <2> QED BY <2>1, <2>2, <2>3
<1>6. apart' => /\ LinksInUse'
                /\ \A v, n \in Managers : epc'[v] # "idle" /\ epc'[n] # "idle" => v = n
  BY <1>1, <1>2 DEF PremisesInv, LinksInUse, GroupIsOpen
<1> QED BY <1>3, <1>4, <1>5, <1>6 DEF PremisesInv
\* A request that ends, or has no steps of its own.
LEMMA OthersIdle ==
  ASSUME PremisesInv, UNCHANGED apart,
         UNCHANGED <<epc, errand>> \/ \E m \in Managers : Go(m, "idle", NoErrand)
  PROVE  /\ DOMAIN errand' = Managers
         /\ epc' \in [Managers -> {"idle", "import", "add", "detach", "program"}]
         /\ \A m \in Managers : epc'[m] = "idle"
                                \/ (epc'[m] = epc[m] /\ errand'[m] = errand[m])
         /\ apart => \A m, n \in Managers :
                       epc'[m] # "idle" /\ epc'[n] # "idle" => m = n
BY DEF PremisesInv, PremisesTypes, Go

\* One link is changed, and its company and its panel stay.
LEMMA LinkChanged ==
  ASSUME PremisesInv, NEW i \in DOMAIN links, NEW link \in LinkRows,
         links' = [links EXCEPT ![i] = link],
         link.firm = links[i].firm, link.panel = links[i].panel,
         link.active => links[i].active \/ ~Reserved(link.panel, i),
         apart /\ link.active => GroupIsOpen(link.firm),
         apart /\ link.programmed /\ ~link.active =>
           companies[link.firm].state = "archived",
         UNCHANGED <<panels, companies, apart>>,
         \/ UNCHANGED <<epc, errand>> /\ (apart => \A m \in Managers : epc[m] = "idle")
         \/ \E m \in Managers : epc[m] # "idle" /\ Go(m, "idle", NoErrand)
  PROVE  PremisesInv'
<1>1. /\ DOMAIN errand' = Managers
      /\ epc' \in [Managers -> {"idle", "import", "add", "detach", "program"}]
      /\ \A m \in Managers : epc'[m] = "idle"
                             \/ (epc'[m] = epc[m] /\ errand'[m] = errand[m])
      /\ apart => \A m, n \in Managers :
                    epc'[m] # "idle" /\ epc'[n] # "idle" => m = n
  BY OthersIdle
<1>2. /\ links' \in Seq(LinkRows) /\ DOMAIN links' = DOMAIN links /\ links'[i] = link
      /\ \A j \in DOMAIN links \ {i} : links'[j] = links[j]
  BY DEF PremisesInv, PremisesTypes
<1>3. PremisesTypes'
  BY <1>1, <1>2 DEF PremisesInv, PremisesTypes, PanelsKnown
<1>4. LinksSound'
  <2>1. \A j \in DOMAIN links : panels'[links'[j].panel].state = "there"
    BY <1>2 DEF PremisesInv, LinksSound, IsThere
  <2>2. ASSUME NEW j \in DOMAIN links, NEW k \in DOMAIN links, j # k,
               links'[j].active, links'[k].active, links'[j].panel = links'[k].panel
        PROVE  FALSE
    <3>1. \A u, v \in DOMAIN links :
            ~(links[u].active /\ links[v].active /\ u # v
                /\ links[u].panel = links[v].panel)
      BY DEF PremisesInv, LinksSound, Reserved
    <3>2. CASE j = i
      BY <1>2, <2>2, <3>1, <3>2 DEF Reserved
    <3>3. CASE k = i
      BY <1>2, <2>2, <3>1, <3>3 DEF Reserved
    <3> QED BY <1>2, <2>2, <3>1, <3>2, <3>3
  <2> QED BY <1>2, <2>1, <2>2 DEF LinksSound, Reserved, IsThere
<1>5. CompaniesSound'
  BY DEF PremisesInv, CompaniesSound
<1>6. ASSUME NEW m \in Managers PROVE ErrandFits(m)'
  <2>1. CASE epc'[m] = "idle"
    BY <2>1 DEF ErrandFits
  <2>2. CASE epc'[m] # "idle"
    <3>1. epc'[m] = epc[m] /\ errand'[m] = errand[m] /\ ~apart
      BY <1>1, <2>2 DEF PremisesInv, PremisesTypes, Go
    <3> QED BY <1>2, <3>1 DEF PremisesInv, ErrandFits
  <2> QED BY <2>1, <2>2
<1>7. apart' => LinksInUse'
  BY <1>2 DEF PremisesInv, LinksInUse, GroupIsOpen
<1> QED BY <1>1, <1>3, <1>4, <1>5, <1>6, <1>7 DEF PremisesInv

\* A link is taken up again or made, detached, programmed or emptied.
LEMMA LinkSteps ==
  ASSUME PremisesInv,
         \/ \E m \in Managers : WriteLink(m) \/ WriteDetached(m) \/ WriteProgramming(m)
         \/ \E i \in DOMAIN links : EndProgramming(i)
  PROVE  PremisesInv'
<1>1. CASE \E m \in Managers : WriteLink(m)
  <2>1. PICK m \in Managers : WriteLink(m)
    BY <1>1
  <2> DEFINE e == errand[m]
  <2>2. /\ epc[m] = "add" /\ Go(m, "idle", NoErrand)
        /\ UNCHANGED <<panels, companies, apart>>
        /\ links' = IF Reserved(e.panel, e.old) \/ ~IsThere(e.panel) THEN links
                    ELSE IF e.old = 0 THEN Append(links, NewLink(e.firm, e.panel))
                    ELSE [links EXCEPT ![e.old].active = TRUE]
    BY <2>1 DEF WriteLink, Leave
  <2>3. /\ e.firm \in Firms /\ e.panel \in PanelIds /\ e.old \in DOMAIN links \cup {0}
        /\ e.old # 0 => links[e.old].firm = e.firm /\ links[e.old].panel = e.panel
        /\ apart => GroupIsOpen(e.firm)
    BY <2>2 DEF PremisesInv, ErrandFits
  <2> HIDE DEF e
  <2>4. CASE UNCHANGED links
    <3>1. \A i \in DOMAIN links : IsThere(links[i].panel)'
      BY <2>2 DEF PremisesInv, LinksSound, IsThere
    <3> QED BY <2>2, <2>4, <3>1, PanelsStep DEF PremisesInv, PremisesTypes, PanelsKnown
  <2>5. CASE /\ ~Reserved(e.panel, e.old) /\ IsThere(e.panel) /\ e.old # 0
             /\ links' = [links EXCEPT ![e.old].active = TRUE]
    <3>1. e.old \in DOMAIN links
      BY <2>3, <2>5
    <3>2. PICK link : link = [links[e.old] EXCEPT !.active = TRUE]
      OBVIOUS
    <3>3. /\ link \in LinkRows /\ link.firm = e.firm /\ link.panel = e.panel
          /\ link.active /\ links' = [links EXCEPT ![e.old] = link]
      BY <2>3, <2>5, <3>1, <3>2, LinkIs DEF PremisesInv, LinkRows
    <3>4. /\ link.firm = links[e.old].firm /\ link.panel = links[e.old].panel
          /\ ~Reserved(link.panel, e.old) /\ (apart => GroupIsOpen(link.firm))
          /\ \E v \in Managers : epc[v] # "idle" /\ Go(v, "idle", NoErrand)
      BY <2>2, <2>3, <2>5, <3>1, <3>3
    <3> QED BY <2>2, <3>1, <3>3, <3>4, LinkChanged
  <2>6. CASE /\ ~Reserved(e.panel, 0) /\ IsThere(e.panel)
             /\ links' = Append(links, NewLink(e.firm, e.panel))
    <3>1. links \in Seq(LinkRows) /\ NewLink(e.firm, e.panel) \in LinkRows
      BY <2>3 DEF PremisesInv, PremisesTypes, NewLink, LinkRows
    <3>2. PICK n \in Nat : /\ n = Len(links) + 1 /\ DOMAIN links = 1 .. n - 1
                           /\ DOMAIN links' = 1 .. n
                           /\ links' \in Seq(LinkRows)
                           /\ links'[n] = NewLink(e.firm, e.panel)
                           /\ \A j \in DOMAIN links : links'[j] = links[j]
      BY <2>6, <3>1
    <3>3. \A j \in DOMAIN links' : j = n \/ j \in DOMAIN links
      BY <3>2
    <3>4. /\ links'[n].firm = e.firm /\ links'[n].panel = e.panel
          /\ links'[n].active /\ ~links'[n].programmed
      BY <3>2 DEF NewLink
    <3>5. /\ DOMAIN errand' = Managers
          /\ epc' \in [Managers -> {"idle", "import", "add", "detach", "program"}]
          /\ \A v \in Managers : epc'[v] = "idle"
                                 \/ (epc'[v] = epc[v] /\ errand'[v] = errand[v])
          /\ apart => \A v, w \in Managers :
                        epc'[v] # "idle" /\ epc'[w] # "idle" => v = w
      BY <2>2, OthersIdle
    <3>6. PremisesTypes'
      BY <2>2, <3>2, <3>5 DEF PremisesInv, PremisesTypes, PanelsKnown
    <3>7. LinksSound'
      <4>1. \A j \in DOMAIN links' : panels'[links'[j].panel].state = "there"
        BY ZenonT(60), <2>2, <2>6, <3>2, <3>3, <3>4 DEF PremisesInv, LinksSound, IsThere
      <4>2. ~Reserved(e.panel, 0) /\ 0 \notin DOMAIN links
        BY <2>6, <3>2
      <4>3. \A j \in DOMAIN links : ~(links[j].active /\ links[j].panel = e.panel)
        BY <4>2 DEF Reserved
      <4>4. \A j, k \in DOMAIN links : j # k /\ links[j].active /\ links[k].active
              => links[j].panel # links[k].panel
        BY DEF PremisesInv, LinksSound, Reserved
      <4>5. \A j, k \in DOMAIN links' : j # k /\ links'[j].active /\ links'[k].active
              => links'[j].panel # links'[k].panel
        BY <3>2, <3>3, <3>4, <4>3, <4>4
      <4> QED BY SMTT(60), <4>1, <4>5 DEF LinksSound, Reserved, IsThere
    <3>8. CompaniesSound'
      BY <2>2 DEF PremisesInv, CompaniesSound
    <3>9. \A v \in Managers : ErrandFits(v)'
      BY <2>2, <3>2, <3>5 DEF PremisesInv, ErrandFits, GroupIsOpen
    <3>10. apart' => LinksInUse'
      BY <2>2, <2>3, <3>2, <3>3, <3>4 DEF PremisesInv, LinksInUse, GroupIsOpen
    <3> QED BY <2>2, <3>5, <3>6, <3>7, <3>8, <3>9, <3>10 DEF PremisesInv
  <2> QED BY <2>2, <2>4, <2>5, <2>6
<1>2. CASE \E m \in Managers : WriteDetached(m)
  <2>1. PICK m \in Managers : WriteDetached(m)
    BY <1>2
  <2>2. PICK i : i = errand[m].link
    OBVIOUS
  <2>3. /\ epc[m] = "detach" /\ Go(m, "idle", NoErrand)
        /\ UNCHANGED <<panels, companies, apart>>
        /\ links' = [links EXCEPT ![i].active = FALSE]
        /\ i \in DOMAIN links /\ (apart => ~links[i].programmed)
    BY <2>1, <2>2 DEF WriteDetached, Leave, PremisesInv, ErrandFits
  <2>4. PICK link : link = [links[i] EXCEPT !.active = FALSE]
    OBVIOUS
  <2>5. /\ link \in LinkRows /\ link.firm = links[i].firm /\ link.panel = links[i].panel
        /\ ~link.active /\ link.programmed = links[i].programmed
        /\ links' = [links EXCEPT ![i] = link]
    BY <2>3, <2>4, LinkIs DEF PremisesInv, LinkRows
  <2> QED BY <2>3, <2>5, LinkChanged
<1>3. CASE \E m \in Managers : WriteProgramming(m)
  <2>1. PICK m \in Managers : WriteProgramming(m)
    BY <1>3
  <2>2. PICK i : i = errand[m].link
    OBVIOUS
  <2>3. /\ epc[m] = "program" /\ Go(m, "idle", NoErrand)
        /\ UNCHANGED <<panels, companies, apart>>
        /\ links' = [links EXCEPT ![i].programmed = TRUE]
        /\ i \in DOMAIN links /\ (apart => links[i].active)
    BY <2>1, <2>2 DEF WriteProgramming, Leave, PremisesInv, ErrandFits
  <2>4. PICK link : link = [links[i] EXCEPT !.programmed = TRUE]
    OBVIOUS
  <2>5. /\ link \in LinkRows /\ link.firm = links[i].firm /\ link.panel = links[i].panel
        /\ link.active = links[i].active
        /\ links' = [links EXCEPT ![i] = link]
    BY <2>3, <2>4, LinkIs DEF PremisesInv, LinkRows
  <2>6. apart /\ links[i].active => GroupIsOpen(link.firm)
    BY <2>3, <2>5 DEF PremisesInv, LinksInUse
  <2> QED BY <2>3, <2>5, <2>6, LinkChanged
<1>4. CASE \E i \in DOMAIN links : EndProgramming(i)
  <2>1. PICK i \in DOMAIN links : EndProgramming(i)
    BY <1>4
  <2>2. PICK link : link = [links[i] EXCEPT !.programmed = FALSE]
    OBVIOUS
  <2>3. /\ link \in LinkRows /\ link.firm = links[i].firm /\ link.panel = links[i].panel
        /\ link.active = links[i].active /\ ~link.programmed
        /\ links' = [links EXCEPT ![i] = link]
    BY <2>1, <2>2, LinkIs DEF PremisesInv, LinkRows, EndProgramming
  <2>4. /\ UNCHANGED <<panels, companies, apart, epc, errand>>
        /\ apart => \A m \in Managers : epc[m] = "idle"
    BY <2>1 DEF EndProgramming, Arrive
  <2>5. apart /\ links[i].active => GroupIsOpen(link.firm)
    BY <2>3 DEF PremisesInv, LinksInUse
  <2> QED BY <2>3, <2>4, <2>5, LinkChanged
<1> QED BY <1>1, <1>2, <1>3, <1>4

-----------------------------------------------------------------------------
\* What the database and the pages keep true of panels, links and companies.
THEOREM PremisesSound == PremisesSpec => []PremisesInv
<1>1. PremisesInit => PremisesInv
  <2> SUFFICES ASSUME PremisesInit PROVE PremisesInv
    OBVIOUS
  <2>1. PremisesTypes
    BY FirstPanelsAssumption, FirstLinksAssumption
    DEF PremisesInit, PremisesTypes, PanelsKnown, PanelRows
  <2>2. LinksSound
    BY FirstLinksAssumption DEF PremisesInit, LinksSound, Reserved
  <2>3. \A g \in Firms : companies[g].state # "archived"
    BY DEF PremisesInit
  <2>4. LinksInUse
    <3>1. PICK open \in SUBSET Firms :
            /\ \A i \in DOMAIN links : links[i].firm \in open
            /\ companies = [g \in Firms |->
                              IF g \in open THEN [state |-> "open", login |-> TRUE]
                              ELSE [state |-> "absent", login |-> FALSE]]
      BY DEF PremisesInit
    <3>2. \A i \in DOMAIN links : GroupIsOpen(links[i].firm)
      BY <3>1 DEF GroupIsOpen
    <3>3. \A i \in DOMAIN links : links[i].programmed => links[i].active
      BY FirstLinksAssumption DEF PremisesInit
    <3> QED BY <3>2, <3>3 DEF LinksInUse
  <2>5. \A m \in Managers : epc[m] = "idle"
    BY DEF PremisesInit
  <2> QED BY <2>1, <2>2, <2>3, <2>4, <2>5 DEF PremisesInv, CompaniesSound, ErrandFits
<1>2. PremisesInv /\ [PremisesNext]_premisesVars => PremisesInv'
  <2> SUFFICES ASSUME PremisesInv, [PremisesNext]_premisesVars PROVE PremisesInv'
    OBVIOUS
  <2>1. CASE UNCHANGED premisesVars
    <3>1. \A i \in DOMAIN links : IsThere(links[i].panel)'
      BY <2>1 DEF PremisesInv, LinksSound, IsThere, premisesVars
    <3> QED BY <2>1, <3>1, PanelsStep DEF PremisesInv, PremisesTypes, PanelsKnown, premisesVars
  <2>2. CASE PremisesNext
    BY <2>2, PanelSteps, CompanySteps, ReadingSteps, LinkSteps DEF PremisesNext
  <2> QED BY <2>1, <2>2
<1> QED BY <1>1, <1>2, PTL DEF PremisesSpec

\* No panel serves two companies, no link outlives its panel, an archived
\* company keeps no login; and when requests follow each other an archived
\* company reserves no panel, and no key is programmed on a detached one.
THEOREM PremisesOwners == PremisesSpec => []OwnersAreSound
<1>1. PremisesInv => OwnersAreSound
  BY DEF PremisesInv, LinksSound, CompaniesSound, LinksInUse, OwnersAreSound
<1> QED BY <1>1, PremisesSound, PTL

-----------------------------------------------------------------------------
(* The import of panels: new panels get the free numbers in their order.   *)

\* The rank of a number in a finite set of numbers: how many are before it.
Rank(S, x) == Cardinality({y \in S : y < x})

\* Different numbers have different ranks, the ranks are those below the size.
LEMMA RankBetween ==
  ASSUME NEW S \in SUBSET Nat, IsFiniteSet(S), NEW x \in S
  PROVE  /\ Rank(S, x) \in 0 .. Cardinality(S) - 1
         /\ \A y \in S : x < y => Rank(S, x) < Rank(S, y)
<1>1. ASSUME NEW z \in S, NEW A, A = {y \in S : y < z}
      PROVE  /\ IsFiniteSet(A \cup {z})
             /\ Rank(S, z) \in Nat /\ Cardinality(A \cup {z}) = Rank(S, z) + 1
  <2>1. A \in SUBSET S /\ z \notin A
    BY <1>1
  <2>2. IsFiniteSet(A) /\ Cardinality(A) \in Nat
    BY <2>1, FS_Subset, FS_CardinalityType
  <2>3. Cardinality(A) = Rank(S, z)
    BY <1>1 DEF Rank
  <2> QED BY <2>1, <2>2, <2>3, FS_AddElement
<1>2. Cardinality(S) \in Nat
  BY FS_CardinalityType
<1>3. PICK A : A = {y \in S : y < x}
  OBVIOUS
<1>4. Rank(S, x) + 1 <= Cardinality(S)
  <2>1. PICK B : B = A \cup {x}
    OBVIOUS
  <2>2. B \in SUBSET S
    BY <1>3, <2>1
  <2>3. Cardinality(B) <= Cardinality(S)
    BY <2>2, FS_Subset
  <2> QED BY <1>1, <1>3, <2>1, <2>3
<1>5. ASSUME NEW y \in S, x < y PROVE Rank(S, x) + 1 <= Rank(S, y)
  <2>1. PICK B, C : B = A \cup {x} /\ C = {z \in S : z < y}
    OBVIOUS
  <2>2. B \in SUBSET C
    <3>1. \A z \in A : z \in S /\ z < x
      BY <1>3
    <3>2. ASSUME NEW z \in A PROVE z < y
      <4>1. z \in Nat /\ x \in Nat /\ y \in Nat /\ z < x
        BY <3>1
      <4> QED BY <1>5, <4>1
    <3> QED BY <1>5, <2>1, <3>1, <3>2
  <2>3. C \in SUBSET S
    BY <2>1
  <2>4. IsFiniteSet(C) /\ Cardinality(C) = Rank(S, y)
    BY <2>1, <2>3, FS_Subset DEF Rank
  <2>5. Cardinality(B) <= Cardinality(C)
    BY <2>2, <2>4, FS_Subset
  <2> QED BY <1>1, <1>3, <2>1, <2>4, <2>5
<1>6. Rank(S, x) \in Nat /\ \A y \in S : Rank(S, y) \in Nat
  BY <1>1
<1>7. \A y \in S : x < y => Rank(S, x) < Rank(S, y)
  BY <1>5, <1>6
<1> QED BY <1>2, <1>4, <1>6, <1>7

\* A number is known by its rank.
LEMMA RankIsInjection ==
  ASSUME NEW S \in SUBSET Nat, IsFiniteSet(S), NEW x \in S, NEW y \in S,
         Rank(S, x) = Rank(S, y)
  PROVE  x = y
<1>1. Rank(S, x) \in Int /\ Rank(S, y) \in Int
  BY RankBetween
<1>2. ~ (x < y) /\ ~ (y < x)
  BY <1>1, RankBetween
<1> QED BY <1>2

\* Every rank below the size is taken.
LEMMA RankIsTaken ==
  ASSUME NEW S \in SUBSET Nat, IsFiniteSet(S), NEW n \in 0 .. Cardinality(S) - 1
  PROVE  \E x \in S : Rank(S, x) = n
<1> DEFINE T == 0 .. Cardinality(S) - 1
           f == [x \in S |-> Rank(S, x)]
<1>1. Cardinality(S) \in Nat
  BY FS_CardinalityType
<1>2. IsFiniteSet(T) /\ Cardinality(T) = Cardinality(S)
  BY <1>1, FS_Interval
<1>3. f \in [S -> T]
  BY RankBetween
<1>4. f \in Injection(S, T)
  BY <1>3, RankIsInjection DEF Injection, IsInjective
<1> HIDE DEF T
<1>5. f \in Surjection(S, T)
  <2> HIDE DEF f
  <2> QED BY <1>2, <1>4, FS_Injection
<1>6. n \in T
  BY DEF T
<1>7. \E x \in S : f[x] = n
  <2> HIDE DEF f
  <2> QED BY <1>5, <1>6 DEF Surjection
<1> QED BY <1>7

\* The first of the free numbers: as many as are asked for, when there are as many.
LEMMA FirstRanks ==
  ASSUME NEW S \in SUBSET Nat, IsFiniteSet(S), NEW n \in Nat, n <= Cardinality(S)
  PROVE  LET first == {x \in S : Rank(S, x) < n}
         IN IsFiniteSet(first) /\ Cardinality(first) = n
<1> DEFINE first == {x \in S : Rank(S, x) < n}
           T == 0 .. n - 1
           f == [x \in first |-> Rank(S, x)]
<1>0. Cardinality(S) \in Nat
  BY FS_CardinalityType
<1>1. IsFiniteSet(T) /\ Cardinality(T) = n
  <2>1. 0 \in Int /\ n - 1 \in Int
    OBVIOUS
  <2>2. IsFiniteSet(T) /\ Cardinality(T) = IF 0 > n - 1 THEN 0 ELSE n - 1 - 0 + 1
    BY <2>1, FS_Interval
  <2> HIDE DEF T
  <2> QED BY <2>2
<1>2. f \in [first -> T]
  <2>1. ASSUME NEW x \in first PROVE Rank(S, x) \in T
    <3>1. Rank(S, x) \in 0 .. Cardinality(S) - 1 /\ Rank(S, x) < n
      BY RankBetween
    <3> QED BY <3>1
  <2> QED BY <2>1
<1>3. f \in Injection(first, T)
  BY <1>2, RankIsInjection DEF Injection, IsInjective
<1>4. \A i \in T : \E x \in first : f[x] = i
  <2> SUFFICES ASSUME NEW i \in T PROVE \E x \in first : f[x] = i
    OBVIOUS
  <2>1. i \in 0 .. Cardinality(S) - 1 /\ i < n
    BY <1>0
  <2>2. PICK x \in S : Rank(S, x) = i
    BY <2>1, RankIsTaken
  <2> QED BY <2>1, <2>2
<1> HIDE DEF f, T
<1>5. f \in Surjection(first, T)
  BY <1>2, <1>4 DEF Surjection
<1>6. IsFiniteSet(first)
  <2> HIDE DEF first
  <2> QED BY <1>1, <1>3, FS_Injection
<1>7. Cardinality(first) = n
  <2> HIDE DEF first
  <2> QED BY <1>1, <1>3, <1>5, FS_Injection
<1> QED BY <1>6, <1>7

-----------------------------------------------------------------------------
(* The folds of import_panels_excel.                                        *)

NoPanelRead(table) ==
  [known |-> CellsByMac(table), upserts |-> <<>>, added |-> 0,
   updated |-> 0, skipped |-> 0, errors |-> 0]

\* A plan for each number of rows, and the plan of the whole file.
PanelChain(table, file, plans) ==
  /\ plans[0] = NoPanelRead(table)
  /\ \A n \in 1 .. Len(file) : plans[n] = PlanPanel(plans[n - 1], file[n])
  /\ PanelPlan(table, file) = plans[Len(file)]

\* An import of panels keeps plans of a kind that every row keeps.
LEMMA PanelFold ==
  ASSUME NEW R, NEW file \in Seq(R), NEW table, NEW X,
         NoPanelRead(table) \in X,
         \A plan \in X, row \in R : PlanPanel(plan, row) \in X
  PROVE  \E plans \in [0 .. Len(file) -> X] : PanelChain(table, file, plans)
<1>0. /\ Len(file) \in Nat /\ DOMAIN file = 1 .. Len(file)
      /\ \A i \in 1 .. Len(file) : file[i] \in R
  BY LenProperties, ElementOfSeq
<1> DEFINE F == [x \in X \X R |-> PlanPanel(x[1], x[2])]
           Rec(f) == f = [s \in SUBSET (DOMAIN file) |->
                            IF s = {} THEN NoPanelRead(table)
                            ELSE PlanPanel(f[s \ {Max(s)}], file[Max(s)])]
           iter == CHOOSE f : Rec(f)
<1>1. F \in [X \X R -> X]
  OBVIOUS
<1>2. PICK f \in [SUBSET (1 .. Len(file)) -> X] :
        IsFold(f, F, X, NoPanelRead(table), file, Len(file))
  <2> HIDE DEF F
  <2> QED BY <1>1, FoldExists DEF Foldable
<1>3. ASSUME NEW s \in SUBSET (1 .. Len(file)), s # {}
      PROVE  /\ Max(s) \in 1 .. Len(file) /\ s \ {Max(s)} \in SUBSET (1 .. Len(file))
             /\ f[s] = PlanPanel(f[s \ {Max(s)}], file[Max(s)])
  <2>1. Max(s) \in s
    BY <1>0, <1>3, LastPosition
  <2>2. f[s] = F[<<f[s \ {Max(s)}], file[Max(s)]>>]
    BY <1>2, <1>3 DEF IsFold
  <2>3. f[s \ {Max(s)}] \in X /\ file[Max(s)] \in R
    BY <1>0, <2>1
  <2> QED BY <2>1, <2>2, <2>3
<1>4. Rec(f)
  BY <1>0, <1>2, <1>3 DEF IsFold
<1>5. Rec(iter)
  BY <1>4
<1>6. PanelPlan(table, file) = iter[DOMAIN file]
  BY DEF PanelPlan, NoPanelRead, FoldLeft, MapThenFoldSet
<1>7. IsFold(iter, F, X, NoPanelRead(table), file, Len(file))
  <2>1. \A s \in SUBSET (DOMAIN file) :
          iter[s] = IF s = {} THEN NoPanelRead(table)
                    ELSE PlanPanel(iter[s \ {Max(s)}], file[Max(s)])
    <3> HIDE DEF iter
    <3> QED BY <1>5
  <2> HIDE DEF iter, Rec
  <2>2. ASSUME NEW s \in SUBSET (1 .. Len(file)), s # {}, iter[s \ {Max(s)}] \in X
        PROVE  iter[s] = F[<<iter[s \ {Max(s)}], file[Max(s)]>>]
    <3>1. file[Max(s)] \in R
      BY <1>0, <1>3, <2>2
    <3> QED BY <1>0, <2>1, <2>2, <3>1
  <2> HIDE DEF F
  <2> QED BY <1>0, <2>1, <2>2 DEF IsFold
<1> DEFINE plans == [n \in 0 .. Len(file) |-> iter[1 .. n]]
<1>8. plans \in [0 .. Len(file) -> X] /\ FoldSteps(plans, F, NoPanelRead(table), file)
  <2> HIDE DEF F, iter
  <2>1. NoPanelRead(table) \in X
    OBVIOUS
  <2>2. Stepwise(iter, F, X, NoPanelRead(table), file)
    BY <1>1, <1>7, <2>1, FoldByStep
  <2> QED BY <2>2 DEF Stepwise
<1>9. PanelChain(table, file, plans)
  <2> HIDE DEF iter
  <2>1. plans[0] = NoPanelRead(table)
    BY <1>8 DEF FoldSteps
  <2>2. ASSUME NEW n \in 1 .. Len(file)
        PROVE  plans[n] = PlanPanel(plans[n - 1], file[n])
    <3>1. plans[n - 1] \in X /\ file[n] \in R
      <4>1. n - 1 \in 0 .. Len(file)
        BY <1>0
      <4> HIDE DEF plans
      <4> QED BY <1>0, <1>8, <4>1
    <3>2. plans[n] = F[<<plans[n - 1], file[n]>>]
      BY <1>8 DEF FoldSteps
    <3> HIDE DEF plans
    <3> QED BY <3>1, <3>2
  <2>3. PanelPlan(table, file) = plans[Len(file)]
    BY <1>0, <1>6
  <2> QED BY <2>1, <2>2, <2>3 DEF PanelChain
<1> QED BY <1>8, <1>9


\* What a row says of the cell of a panel.
ToldBy(mac, cell, row) == IF row.mac = mac /\ row.cell # NoCell THEN row.cell ELSE cell

\* What is told of it by each number of rows, and by the whole file.
ToldChain(file, mac, stored, cells) ==
  /\ cells[0] = stored
  /\ \A n \in 1 .. Len(file) : cells[n] = ToldBy(mac, cells[n - 1], file[n])
  /\ Told(file, mac, stored) = cells[Len(file)]

\* It is of the kind that every row keeps.
LEMMA ToldFold ==
  ASSUME NEW R, NEW file \in Seq(R), NEW mac, NEW stored, NEW X,
         stored \in X,
         \A cell \in X, row \in R : ToldBy(mac, cell, row) \in X
  PROVE  \E cells \in [0 .. Len(file) -> X] : ToldChain(file, mac, stored, cells)
<1>0. /\ Len(file) \in Nat /\ DOMAIN file = 1 .. Len(file)
      /\ \A i \in 1 .. Len(file) : file[i] \in R
  BY LenProperties, ElementOfSeq
<1> DEFINE F == [x \in X \X R |-> ToldBy(mac, x[1], x[2])]
           Rec(f) == f = [s \in SUBSET (DOMAIN file) |->
                            IF s = {} THEN stored
                            ELSE ToldBy(mac, f[s \ {Max(s)}], file[Max(s)])]
           iter == CHOOSE f : Rec(f)
<1>1. F \in [X \X R -> X]
  OBVIOUS
<1>2. PICK f \in [SUBSET (1 .. Len(file)) -> X] :
        IsFold(f, F, X, stored, file, Len(file))
  <2> HIDE DEF F
  <2> QED BY <1>1, FoldExists DEF Foldable
<1>3. ASSUME NEW s \in SUBSET (1 .. Len(file)), s # {}
      PROVE  /\ Max(s) \in 1 .. Len(file) /\ s \ {Max(s)} \in SUBSET (1 .. Len(file))
             /\ f[s] = ToldBy(mac, f[s \ {Max(s)}], file[Max(s)])
  <2>1. Max(s) \in s
    BY <1>0, <1>3, LastPosition
  <2>2. f[s] = F[<<f[s \ {Max(s)}], file[Max(s)]>>]
    BY <1>2, <1>3 DEF IsFold
  <2>3. f[s \ {Max(s)}] \in X /\ file[Max(s)] \in R
    BY <1>0, <2>1
  <2> QED BY <2>1, <2>2, <2>3
<1>4. Rec(f)
  BY <1>0, <1>2, <1>3 DEF IsFold
<1>5. Rec(iter)
  BY <1>4
<1>6. Told(file, mac, stored) = iter[DOMAIN file]
  BY DEF Told, ToldBy, FoldLeft, MapThenFoldSet
<1>7. IsFold(iter, F, X, stored, file, Len(file))
  <2>1. \A s \in SUBSET (DOMAIN file) :
          iter[s] = IF s = {} THEN stored
                    ELSE ToldBy(mac, iter[s \ {Max(s)}], file[Max(s)])
    <3> HIDE DEF iter
    <3> QED BY <1>5
  <2> HIDE DEF iter, Rec
  <2>2. ASSUME NEW s \in SUBSET (1 .. Len(file)), s # {}, iter[s \ {Max(s)}] \in X
        PROVE  iter[s] = F[<<iter[s \ {Max(s)}], file[Max(s)]>>]
    <3>1. file[Max(s)] \in R
      BY <1>0, <1>3, <2>2
    <3> QED BY <1>0, <2>1, <2>2, <3>1
  <2> HIDE DEF F
  <2> QED BY <1>0, <2>1, <2>2 DEF IsFold
<1> DEFINE cells == [n \in 0 .. Len(file) |-> iter[1 .. n]]
<1>8. cells \in [0 .. Len(file) -> X] /\ FoldSteps(cells, F, stored, file)
  <2> HIDE DEF F, iter
  <2>1. stored \in X
    OBVIOUS
  <2>2. Stepwise(iter, F, X, stored, file)
    BY <1>1, <1>7, <2>1, FoldByStep
  <2> QED BY <2>2 DEF Stepwise
<1>9. ToldChain(file, mac, stored, cells)
  <2> HIDE DEF iter
  <2>1. cells[0] = stored
    BY <1>8 DEF FoldSteps
  <2>2. ASSUME NEW n \in 1 .. Len(file)
        PROVE  cells[n] = ToldBy(mac, cells[n - 1], file[n])
    <3>1. cells[n - 1] \in X /\ file[n] \in R
      <4>1. n - 1 \in 0 .. Len(file)
        BY <1>0
      <4> HIDE DEF cells
      <4> QED BY <1>0, <1>8, <4>1
    <3>2. cells[n] = F[<<cells[n - 1], file[n]>>]
      BY <1>8 DEF FoldSteps
    <3> HIDE DEF cells
    <3> QED BY <3>1, <3>2
  <2>3. Told(file, mac, stored) = cells[Len(file)]
    BY <1>0, <1>6
  <2> QED BY <2>1, <2>2, <2>3 DEF ToldChain
<1> QED BY <1>8, <1>9

-----------------------------------------------------------------------------
(* What a row of the file comes to.                                        *)

FilePanel == [mac : Macs \cup {BadMac, NoMac}, cell : Cells \cup {NoCell}]
Upserts == [mac : Macs, cell : Cells \cup {NoCell}]
KnownCells == UNION {[S -> Cells \cup {NoCell}] : S \in SUBSET (Macs \cup {NoMac})}

PanelPlans == [known : KnownCells, upserts : Seq(Upserts), added : Nat,
               updated : Nat, skipped : Nat, errors : Nat]

RowCount(plan) == plan.added + plan.updated + plan.skipped + plan.errors

\* A row without a MAC is counted, the others are upserted as well; a MAC that is
\* not known yet is added.
RowPlanned(plan, row, next) ==
  LET cell == CellFor(plan.known, row)
  IN /\ row.mac \in Macs
     /\ next.known = Remembered(plan.known, row.mac, cell)
     /\ next.upserts = Append(plan.upserts, [mac |-> row.mac, cell |-> cell])
     /\ next.added = IF row.mac \in DOMAIN plan.known THEN plan.added
                                                      ELSE plan.added + 1
RowCounted(plan, row, next) ==
  /\ row.mac \notin Macs
  /\ next.known = plan.known /\ next.upserts = plan.upserts
  /\ next.added = plan.added

\* The fields of a plan have their types.
LEMMA PlanIs ==
  ASSUME NEW plan \in PanelPlans
  PROVE  /\ plan.known \in KnownCells /\ plan.upserts \in Seq(Upserts)
         /\ plan.added \in Nat /\ plan.updated \in Nat
         /\ plan.skipped \in Nat /\ plan.errors \in Nat
BY DEF PanelPlans

\* What is known of the cells of MAC addresses is known of more of them.
LEMMA KnownMore ==
  ASSUME NEW known \in KnownCells, NEW row \in FilePanel, row.mac \in Macs
  PROVE  LET cell == CellFor(known, row)
         IN /\ cell \in Cells \cup {NoCell}
            /\ Remembered(known, row.mac, cell) \in KnownCells
            /\ DOMAIN Remembered(known, row.mac, cell) = DOMAIN known \cup {row.mac}
<1>1. PICK S \in SUBSET (Macs \cup {NoMac}) : known \in [S -> Cells \cup {NoCell}]
  BY DEF KnownCells
<1>2. row.cell \in Cells \cup {NoCell}
  BY DEF FilePanel
<1> DEFINE cell == CellFor(known, row)
           more == Remembered(known, row.mac, cell)
<1>3. cell \in Cells \cup {NoCell}
  BY <1>1, <1>2 DEF CellFor
<1> HIDE DEF cell
<1>4. more \in [S \cup {row.mac} -> Cells \cup {NoCell}]
  BY <1>1, <1>3 DEF Remembered
<1>5. S \cup {row.mac} \in SUBSET (Macs \cup {NoMac})
  OBVIOUS
<1> HIDE DEF more
<1>6. more \in KnownCells /\ DOMAIN more = S \cup {row.mac}
  BY <1>4, <1>5 DEF KnownCells
<1> QED BY <1>1, <1>3, <1>6 DEF more, cell

\* A plan stays a plan when a counter is raised, or an upsert is made.
LEMMA PlanPut ==
  ASSUME NEW plan \in PanelPlans, NEW k \in KnownCells, NEW u \in Seq(Upserts),
         NEW n \in Nat
  PROVE  /\ [plan EXCEPT !.skipped = n] \in PanelPlans
         /\ [plan EXCEPT !.errors = n] \in PanelPlans
         /\ [plan EXCEPT !.updated = n] \in PanelPlans
         /\ [plan EXCEPT !.added = n] \in PanelPlans
         /\ [plan EXCEPT !.known = k, !.upserts = u] \in PanelPlans
<1>1. [plan EXCEPT !.skipped = n] \in PanelPlans
  BY SMTT(60) DEF PanelPlans
<1>2. [plan EXCEPT !.errors = n] \in PanelPlans
  BY SMTT(60) DEF PanelPlans
<1>3. [plan EXCEPT !.updated = n] \in PanelPlans
  BY SMTT(60) DEF PanelPlans
<1>4. [plan EXCEPT !.added = n] \in PanelPlans
  BY SMTT(60) DEF PanelPlans
<1>5. [plan EXCEPT !.known = k, !.upserts = u] \in PanelPlans
  <2>1. [plan EXCEPT !.known = k] \in PanelPlans
    BY SMTT(60) DEF PanelPlans
  <2>2. ASSUME NEW q \in PanelPlans PROVE [q EXCEPT !.upserts = u] \in PanelPlans
    BY SMTT(60) DEF PanelPlans
  <2>3. PICK q : q = [plan EXCEPT !.known = k]
    OBVIOUS
  <2>4. [q EXCEPT !.upserts = u] \in PanelPlans
    BY <2>1, <2>2, <2>3
  <2> QED BY <2>3, <2>4, Zenon
<1> QED BY <1>1, <1>2, <1>3, <1>4, <1>5

\* A raised counter counts the row and changes nothing else.
LEMMA PlanCounts ==
  ASSUME NEW plan \in PanelPlans
  PROVE  /\ LET next == [plan EXCEPT !.skipped = @ + 1]
            IN /\ next \in PanelPlans /\ RowCount(next) = RowCount(plan) + 1
               /\ next.known = plan.known /\ next.upserts = plan.upserts
               /\ next.added = plan.added
         /\ LET next == [plan EXCEPT !.errors = @ + 1]
            IN /\ next \in PanelPlans /\ RowCount(next) = RowCount(plan) + 1
               /\ next.known = plan.known /\ next.upserts = plan.upserts
               /\ next.added = plan.added
         /\ LET next == [plan EXCEPT !.updated = @ + 1]
            IN /\ next \in PanelPlans /\ RowCount(next) = RowCount(plan) + 1
               /\ next.known = plan.known /\ next.upserts = plan.upserts
               /\ next.added = plan.added
         /\ LET next == [plan EXCEPT !.added = @ + 1]
            IN /\ next \in PanelPlans /\ RowCount(next) = RowCount(plan) + 1
               /\ next.known = plan.known /\ next.upserts = plan.upserts
               /\ next.added = plan.added + 1
<1>0. /\ plan.added + 1 \in Nat /\ plan.updated + 1 \in Nat
      /\ plan.skipped + 1 \in Nat /\ plan.errors + 1 \in Nat
      /\ plan.added \in Nat /\ plan.updated \in Nat
      /\ plan.skipped \in Nat /\ plan.errors \in Nat
      /\ plan.known \in KnownCells /\ plan.upserts \in Seq(Upserts)
  BY PlanIs
<1>1. [plan EXCEPT !.skipped = @ + 1] \in PanelPlans
  BY <1>0, PlanPut
<1>2. [plan EXCEPT !.errors = @ + 1] \in PanelPlans
  BY <1>0, PlanPut
<1>3. [plan EXCEPT !.updated = @ + 1] \in PanelPlans
  BY <1>0, PlanPut
<1>4. [plan EXCEPT !.added = @ + 1] \in PanelPlans
  BY <1>0, PlanPut
<1>5. /\ RowCount([plan EXCEPT !.skipped = @ + 1]) = RowCount(plan) + 1
      /\ [plan EXCEPT !.skipped = @ + 1].known = plan.known
      /\ [plan EXCEPT !.skipped = @ + 1].upserts = plan.upserts
      /\ [plan EXCEPT !.skipped = @ + 1].added = plan.added
  BY SMTT(60), <1>0, SMTT(60) DEF PanelPlans, RowCount
<1>6. /\ RowCount([plan EXCEPT !.errors = @ + 1]) = RowCount(plan) + 1
      /\ [plan EXCEPT !.errors = @ + 1].known = plan.known
      /\ [plan EXCEPT !.errors = @ + 1].upserts = plan.upserts
      /\ [plan EXCEPT !.errors = @ + 1].added = plan.added
  BY SMTT(60), <1>0, SMTT(60) DEF PanelPlans, RowCount
<1>7. /\ RowCount([plan EXCEPT !.updated = @ + 1]) = RowCount(plan) + 1
      /\ [plan EXCEPT !.updated = @ + 1].known = plan.known
      /\ [plan EXCEPT !.updated = @ + 1].upserts = plan.upserts
      /\ [plan EXCEPT !.updated = @ + 1].added = plan.added
  BY SMTT(60), <1>0, SMTT(60) DEF PanelPlans, RowCount
<1>8. /\ RowCount([plan EXCEPT !.added = @ + 1]) = RowCount(plan) + 1
      /\ [plan EXCEPT !.added = @ + 1].known = plan.known
      /\ [plan EXCEPT !.added = @ + 1].upserts = plan.upserts
      /\ [plan EXCEPT !.added = @ + 1].added = plan.added + 1
  BY SMTT(60), <1>0, SMTT(60) DEF PanelPlans, RowCount
<1> QED BY <1>1, <1>2, <1>3, <1>4, <1>5, <1>6, <1>7, <1>8

\* A row is counted once, as one of the two.
LEMMA RowOutcome ==
  ASSUME NEW plan \in PanelPlans, NEW row \in FilePanel
  PROVE  LET next == PlanPanel(plan, row)
         IN /\ next \in PanelPlans /\ RowCount(next) = RowCount(plan) + 1
            /\ RowPlanned(plan, row, next) \/ RowCounted(plan, row, next)
<1> DEFINE next == PlanPanel(plan, row)
           cell == CellFor(plan.known, row)
           known == Remembered(plan.known, row.mac, cell)
           upserts == Append(plan.upserts, [mac |-> row.mac, cell |-> cell])
           met == [plan EXCEPT !.known = known, !.upserts = upserts]
<1>1. CASE row.mac \notin Macs
  <2>1. \/ next = [plan EXCEPT !.skipped = @ + 1]
        \/ next = [plan EXCEPT !.errors = @ + 1]
    BY <1>1 DEF PlanPanel, FilePanel
  <2> HIDE DEF next
  <2> QED BY ZenonT(60), <1>1, <2>1, PlanCounts DEF RowCounted, next
<1>2. CASE row.mac \in Macs
  <2>1. plan.known \in KnownCells /\ plan.upserts \in Seq(Upserts)
    BY PlanIs
  <2>2. cell \in Cells \cup {NoCell} /\ known \in KnownCells
    BY <1>2, <2>1, KnownMore
  <2>3. \/ row.mac \notin DOMAIN plan.known /\ next = [met EXCEPT !.added = @ + 1]
        \/ /\ row.mac \in DOMAIN plan.known
           /\ \/ next = [met EXCEPT !.updated = @ + 1]
              \/ next = [met EXCEPT !.skipped = @ + 1]
    BY <1>2, MacsAssumption DEF PlanPanel
  <2> HIDE DEF next, cell, known
  <2>4. upserts \in Seq(Upserts)
    <3>1. [mac |-> row.mac, cell |-> cell] \in Upserts
      BY <1>2, <2>2 DEF Upserts
    <3> QED BY <2>1, <3>1, AppendProperties
  <2> HIDE DEF upserts
  <2>5. met \in PanelPlans
    BY <2>2, <2>4, PlanPut
  <2>6. /\ met.known = known /\ met.upserts = upserts /\ met.added = plan.added
        /\ RowCount(met) = RowCount(plan)
    BY SMTT(60) DEF PanelPlans, RowCount
  <2> HIDE DEF met
  <2>7. /\ next \in PanelPlans /\ RowCount(next) = RowCount(plan) + 1
        /\ next.known = known /\ next.upserts = upserts
        /\ next.added = IF row.mac \in DOMAIN plan.known THEN plan.added
                                                         ELSE plan.added + 1
    BY ZenonT(60), <2>3, <2>5, <2>6, PlanCounts
  <2>8. RowPlanned(plan, row, next)
    BY <1>2, <2>7 DEF RowPlanned, known, upserts, cell
  <2> QED BY <2>7, <2>8 DEF next
<1> QED BY <1>1, <1>2

-----------------------------------------------------------------------------
(* What the plan of the whole file comes to.                               *)

MacsOf(rows) == {rows[i].mac : i \in DOMAIN rows}

\* The last row of a MAC.
IsLast(rows, i) == \A j \in DOMAIN rows : rows[j].mac = rows[i].mac => j <= i

\* After n rows, that started with what was known of the stored panels: every row
\* is counted; the MAC addresses of the rows are upserted and known, those that
\* were not stored are the added ones; the last upsert of each has what is known.
PanelTold(stored, file, n, plan) ==
  /\ RowCount(plan) = n
  /\ MacsOf(plan.upserts) = {file[j].mac : j \in 1 .. n} \cap Macs
  /\ DOMAIN plan.known = DOMAIN stored \cup MacsOf(plan.upserts)
  /\ IsFiniteSet(MacsOf(plan.upserts) \ DOMAIN stored)
  /\ plan.added = Cardinality(MacsOf(plan.upserts) \ DOMAIN stored)
  /\ \A i \in DOMAIN plan.upserts : IsLast(plan.upserts, i) =>
       plan.upserts[i].cell = plan.known[plan.upserts[i].mac]

\* One more upsert.
OneUpsertMore(rows, row, next) ==
  /\ Len(rows) \in Nat /\ DOMAIN rows = 1 .. Len(rows)
  /\ DOMAIN next = 1 .. Len(rows) + 1 /\ next[Len(rows) + 1] = row
  /\ \A i \in DOMAIN rows : next[i] = rows[i]
  /\ MacsOf(next) = MacsOf(rows) \cup {row.mac}

\* An upsert that is appended is one more.
LEMMA UpsertAdded ==
  ASSUME NEW rows \in Seq(Upserts), NEW row \in Upserts
  PROVE  OneUpsertMore(rows, row, Append(rows, row))
<1> DEFINE next == Append(rows, row)
<1>1. Len(rows) \in Nat /\ DOMAIN rows = 1 .. Len(rows)
  BY LenProperties
<1>2. /\ DOMAIN next = 1 .. Len(rows) + 1 /\ next[Len(rows) + 1] = row
      /\ \A i \in DOMAIN rows : next[i] = rows[i]
  BY <1>1, AppendProperties
<1> HIDE DEF next
<1>3. DOMAIN next = DOMAIN rows \cup {Len(rows) + 1}
  BY <1>1, <1>2
<1>4. MacsOf(next) = MacsOf(rows) \cup {row.mac}
  BY <1>2, <1>3 DEF MacsOf
<1>5. OneUpsertMore(rows, row, next)
  BY <1>1, <1>2, <1>4 DEF OneUpsertMore
<1> QED BY <1>5 DEF next

\* One row more of the file.
LEMMA MacsSoFar ==
  ASSUME NEW file, NEW n \in Nat, n # 0
  PROVE  {file[j].mac : j \in 1 .. n} = {file[j].mac : j \in 1 .. n - 1} \cup {file[n].mac}
<1>1. 1 .. n = (1 .. n - 1) \cup {n}
  OBVIOUS
<1> QED BY <1>1

\* A row keeps true what a plan tells of the rows before it.
LEMMA PanelToldKept ==
  ASSUME NEW stored, NEW file \in Seq(FilePanel), NEW n \in 1 .. Len(file),
         NEW plan \in PanelPlans, PanelTold(stored, file, n - 1, plan)
  PROVE  PanelTold(stored, file, n, PlanPanel(plan, file[n]))
<1> DEFINE row == file[n]
           next == PlanPanel(plan, row)
<1>0. n \in Nat /\ n # 0 /\ row \in FilePanel
  <2>1. Len(file) \in Nat /\ \A i \in 1 .. Len(file) : file[i] \in FilePanel
    BY LenProperties, ElementOfSeq
  <2> QED BY <2>1
<1>1. /\ RowCount(next) = RowCount(plan) + 1
      /\ RowPlanned(plan, row, next) \/ RowCounted(plan, row, next)
  BY <1>0, RowOutcome
<1>2. {file[j].mac : j \in 1 .. n} = {file[j].mac : j \in 1 .. n - 1} \cup {row.mac}
  BY <1>0, MacsSoFar
<1> HIDE DEF next, row
<1>3. RowCount(next) = n
  BY <1>0, <1>1 DEF PanelTold
<1>4. CASE RowCounted(plan, row, next)
  BY <1>2, <1>3, <1>4 DEF RowCounted, PanelTold, next, row
<1>5. CASE RowPlanned(plan, row, next)
  <2> DEFINE cell == CellFor(plan.known, row)
             up == [mac |-> row.mac, cell |-> cell]
             at == Len(plan.upserts) + 1
             new == MacsOf(plan.upserts) \ DOMAIN stored
  <2>1. /\ row.mac \in Macs /\ plan.known \in KnownCells /\ plan.upserts \in Seq(Upserts)
        /\ next.known = Remembered(plan.known, row.mac, cell)
        /\ next.upserts = Append(plan.upserts, up)
        /\ next.added = IF row.mac \in DOMAIN plan.known THEN plan.added
                                                         ELSE plan.added + 1
    BY <1>5, PlanIs DEF RowPlanned
  <2>2. /\ cell \in Cells \cup {NoCell}
        /\ DOMAIN next.known = DOMAIN plan.known \cup {row.mac}
        /\ next.known[row.mac] = cell
        /\ \A m \in DOMAIN plan.known : m # row.mac => next.known[m] = plan.known[m]
    <3>1. cell \in Cells \cup {NoCell}
      BY <1>0, <2>1, KnownMore
    <3> HIDE DEF cell
    <3> QED BY <2>1, <3>1 DEF Remembered
  <2> HIDE DEF cell
  <2>3. up \in Upserts /\ up.mac = row.mac /\ up.cell = cell
    BY <2>1, <2>2 DEF Upserts
  <2> HIDE DEF up
  <2>4. /\ Len(plan.upserts) \in Nat /\ DOMAIN plan.upserts = 1 .. Len(plan.upserts)
        /\ DOMAIN next.upserts = 1 .. at /\ next.upserts[at] = up
        /\ \A i \in DOMAIN plan.upserts : next.upserts[i] = plan.upserts[i]
        /\ MacsOf(next.upserts) = MacsOf(plan.upserts) \cup {row.mac}
    <3>1. OneUpsertMore(plan.upserts, up, next.upserts)
      BY <2>1, <2>3, UpsertAdded
    <3> QED BY <2>3, <3>1 DEF OneUpsertMore
  <2>5. MacsOf(next.upserts) = {file[j].mac : j \in 1 .. n} \cap Macs
    BY <1>2, <2>1, <2>4 DEF PanelTold
  <2>6. DOMAIN next.known = DOMAIN stored \cup MacsOf(next.upserts)
    BY <2>2, <2>4 DEF PanelTold
  <2>7. /\ IsFiniteSet(MacsOf(next.upserts) \ DOMAIN stored)
        /\ next.added = Cardinality(MacsOf(next.upserts) \ DOMAIN stored)
    <3>1. IsFiniteSet(new) /\ plan.added = Cardinality(new)
          /\ DOMAIN plan.known = DOMAIN stored \cup MacsOf(plan.upserts)
      BY DEF PanelTold
    <3>2. CASE row.mac \in DOMAIN plan.known
      <4>1. MacsOf(next.upserts) \ DOMAIN stored = new
        BY <2>4, <3>1, <3>2
      <4> QED BY <2>1, <3>1, <3>2, <4>1
    <3>3. CASE row.mac \notin DOMAIN plan.known
      <4>1. MacsOf(next.upserts) \ DOMAIN stored = new \cup {row.mac} /\ row.mac \notin new
        BY <2>4, <3>1, <3>3
      <4> HIDE DEF new
      <4>2. /\ IsFiniteSet(new \cup {row.mac})
            /\ Cardinality(new \cup {row.mac}) = Cardinality(new) + 1
        BY <3>1, <4>1, FS_AddElement
      <4> QED BY <2>1, <3>1, <3>3, <4>1, <4>2
    <3> QED BY <3>2, <3>3
  <2>8. ASSUME NEW i \in DOMAIN next.upserts, IsLast(next.upserts, i)
        PROVE  next.upserts[i].cell = next.known[next.upserts[i].mac]
    <3>1. CASE i = at
      BY <2>2, <2>3, <2>4, <3>1
    <3>2. CASE i # at
      <4>1. i \in DOMAIN plan.upserts /\ next.upserts[i] = plan.upserts[i] /\ i < at
            /\ at \in DOMAIN next.upserts
        BY <2>4, <3>2
      <4>2. plan.upserts[i].mac # row.mac
        BY SMTT(60), <2>3, <2>4, <2>8, <4>1 DEF IsLast
      <4>3. IsLast(plan.upserts, i)
        <5>1. \A j \in DOMAIN plan.upserts : j \in DOMAIN next.upserts
          BY <2>4
        <5> QED BY <2>4, <2>8, <4>1, <5>1 DEF IsLast
      <4>4. plan.upserts[i].cell = plan.known[plan.upserts[i].mac]
        BY <4>1, <4>3 DEF PanelTold
      <4>5. plan.upserts[i].mac \in DOMAIN plan.known
        BY <4>1 DEF PanelTold, MacsOf
      <4> QED BY <2>2, <4>1, <4>2, <4>4, <4>5
    <3> QED BY <3>1, <3>2
  <2>9. PanelTold(stored, file, n, next)
    BY <1>3, <2>5, <2>6, <2>7, <2>8 DEF PanelTold
  <2> QED BY <2>9 DEF next, row
<1> QED BY <1>1, <1>4, <1>5

\* The cell that is known for a MAC.
CellKnown(known, mac) == IF mac \in DOMAIN known THEN known[mac] ELSE NoCell

\* A row changes what is known of a MAC as it changes what is told of it.
LEMMA CellLearned ==
  ASSUME NEW plan \in PanelPlans, NEW row \in FilePanel, NEW mac \in Macs
  PROVE  CellKnown(PlanPanel(plan, row).known, mac)
           = ToldBy(mac, CellKnown(plan.known, mac), row)
<1> DEFINE next == PlanPanel(plan, row)
           cell == CellFor(plan.known, row)
<1> SUFFICES CellKnown(next.known, mac) = ToldBy(mac, CellKnown(plan.known, mac), row)
  OBVIOUS
<1>1. RowPlanned(plan, row, next) \/ RowCounted(plan, row, next)
  BY RowOutcome
<1> HIDE DEF next
<1>2. CASE RowCounted(plan, row, next)
  BY <1>2 DEF RowCounted, CellKnown, ToldBy
<1>3. CASE RowPlanned(plan, row, next)
  <2>1. next.known = Remembered(plan.known, row.mac, cell)
    BY <1>3 DEF RowPlanned
  <2>2. CASE row.mac # mac
    <3> HIDE DEF cell
    <3>1. \/ mac \in DOMAIN plan.known /\ mac \in DOMAIN next.known
             /\ next.known[mac] = plan.known[mac]
          \/ mac \notin DOMAIN plan.known /\ mac \notin DOMAIN next.known
      BY <2>1, <2>2 DEF Remembered
    <3> QED BY <2>2, <3>1 DEF CellKnown, ToldBy
  <2>3. CASE row.mac = mac
    <3>1. mac \in DOMAIN next.known /\ next.known[mac] = cell
      <4> HIDE DEF cell
      <4> QED BY <2>1, <2>3 DEF Remembered
    <3>2. CellKnown(next.known, mac) = cell
      BY <3>1 DEF CellKnown
    <3>3. ToldBy(mac, CellKnown(plan.known, mac), row) = cell
      BY <2>3 DEF ToldBy, CellFor, CellKnown
    <3> QED BY <3>2, <3>3
  <2> QED BY <2>2, <2>3
<1> QED BY <1>1, <1>2, <1>3 DEF next

\* The plan of a file tells what the file does, of its rows and of each MAC.
LEMMA FilePlanTold ==
  ASSUME NEW table, CellsByMac(table) \in KnownCells, NEW file \in Seq(FilePanel)
  PROVE  LET plan == PanelPlan(table, file)
         IN /\ plan \in PanelPlans
            /\ PanelTold(CellsByMac(table), file, Len(file), plan)
            /\ \A mac \in Macs : CellKnown(plan.known, mac)
                                   = Told(file, mac, CellKnown(CellsByMac(table), mac))
<1> DEFINE stored == CellsByMac(table)
<1>0. /\ Len(file) \in Nat /\ \A i \in 1 .. Len(file) : file[i] \in FilePanel
  BY LenProperties, ElementOfSeq
<1>1. NoPanelRead(table) \in PanelPlans
  <2>1. <<>> \in Seq(Upserts) /\ 0 \in Nat
    BY EmptySeq
  <2> QED BY <2>1 DEF NoPanelRead, PanelPlans
<1>2. \A plan \in PanelPlans, row \in FilePanel : PlanPanel(plan, row) \in PanelPlans
  BY RowOutcome
<1>3. PICK plans \in [0 .. Len(file) -> PanelPlans] : PanelChain(table, file, plans)
  BY <1>1, <1>2, PanelFold
<1>4. /\ plans[0] = NoPanelRead(table)
      /\ \A n \in 1 .. Len(file) : plans[n] = PlanPanel(plans[n - 1], file[n])
      /\ PanelPlan(table, file) = plans[Len(file)]
  BY <1>3 DEF PanelChain
<1>5. /\ Len(file) \in 0 .. Len(file)
      /\ \A n \in Nat : n + 1 <= Len(file) =>
           /\ n <= Len(file) /\ n \in 0 .. Len(file) /\ n + 1 \in 1 .. Len(file)
           /\ n + 1 - 1 = n
  BY <1>0
<1> HIDE DEF stored
<1>6. PanelTold(stored, file, Len(file), plans[Len(file)])
  <2> DEFINE S == {n \in Nat : n <= Len(file) => PanelTold(stored, file, n, plans[n])}
  <2>1. 0 \in S
    <3>1. /\ plans[0].upserts = <<>> /\ plans[0].known = stored /\ plans[0].added = 0
          /\ RowCount(plans[0]) = 0
      BY <1>4 DEF NoPanelRead, RowCount, stored
    <3>2. MacsOf(<<>>) = {} /\ DOMAIN <<>> = {}
      BY DEF MacsOf
    <3>3. {file[j].mac : j \in 1 .. 0} = {} /\ {} \ DOMAIN stored = {}
      OBVIOUS
    <3>4. IsFiniteSet({}) /\ Cardinality({}) = 0
      BY FS_EmptySet
    <3>5. PanelTold(stored, file, 0, plans[0])
      BY <3>1, <3>2, <3>3, <3>4 DEF PanelTold
    <3> QED BY <3>5
  <2>2. ASSUME NEW n \in Nat, n \in S PROVE n + 1 \in S
    <3> SUFFICES ASSUME n + 1 <= Len(file) PROVE PanelTold(stored, file, n + 1, plans[n + 1])
      OBVIOUS
    <3>1. PICK before, next : before = plans[n] /\ next = n + 1
      OBVIOUS
    <3>2. before \in PanelPlans /\ next \in 1 .. Len(file) /\ next - 1 = n
          /\ PanelTold(stored, file, next - 1, before)
      BY SMTT(60), <1>5, <2>2, <3>1
    <3>3. PanelTold(stored, file, next, PlanPanel(before, file[next]))
      BY <3>2, PanelToldKept
    <3> QED BY <1>4, <3>1, <3>2, <3>3
  <2> HIDE DEF S
  <2>3. Len(file) \in S
    BY <1>0, <2>1, <2>2, Climb
  <2> QED BY <1>0, <2>3 DEF S
<1>7. ASSUME NEW mac \in Macs
      PROVE  CellKnown(plans[Len(file)].known, mac) = Told(file, mac, CellKnown(stored, mac))
  <2> DEFINE first == CellKnown(stored, mac)
             X == Cells \cup {NoCell}
  <2>1. first \in X
    BY DEF CellKnown, KnownCells, stored
  <2>2. \A cell \in X, row \in FilePanel : ToldBy(mac, cell, row) \in X
    BY DEF ToldBy, FilePanel
  <2> HIDE DEF first, X
  <2>3. PICK cells \in [0 .. Len(file) -> X] : ToldChain(file, mac, first, cells)
    BY <2>1, <2>2, ToldFold
  <2>4. /\ cells[0] = first
        /\ \A n \in 1 .. Len(file) : cells[n] = ToldBy(mac, cells[n - 1], file[n])
        /\ Told(file, mac, first) = cells[Len(file)]
    BY <2>3 DEF ToldChain
  <2> DEFINE S == {n \in Nat : n <= Len(file) => CellKnown(plans[n].known, mac) = cells[n]}
  <2>5. 0 \in S
    <3>1. plans[0].known = stored
      BY <1>4 DEF NoPanelRead, stored
    <3> QED BY <2>4, <3>1 DEF first
  <2>6. ASSUME NEW n \in Nat, n \in S PROVE n + 1 \in S
    <3> SUFFICES ASSUME n + 1 <= Len(file)
                 PROVE  CellKnown(plans[n + 1].known, mac) = cells[n + 1]
      OBVIOUS
    <3>1. PICK before, row, next : before = plans[n] /\ next = n + 1 /\ row = file[next]
      OBVIOUS
    <3>2. before \in PanelPlans /\ row \in FilePanel /\ next \in 1 .. Len(file)
          /\ next - 1 = n /\ CellKnown(before.known, mac) = cells[n]
      <4>1. /\ n <= Len(file) /\ n \in 0 .. Len(file) /\ next \in 1 .. Len(file)
            /\ next - 1 = n
        BY <1>5, <3>1
      <4>2. CellKnown(plans[n].known, mac) = cells[n]
        BY <2>6, <4>1
      <4> QED BY <1>0, <1>3, <3>1, <4>1, <4>2
    <3>3. CellKnown(PlanPanel(before, row).known, mac) = ToldBy(mac, cells[n], row)
      BY <3>2, CellLearned
    <3>4. plans[next] = PlanPanel(before, row) /\ cells[next] = ToldBy(mac, cells[n], row)
      BY <1>4, <2>4, <3>1, <3>2
    <3> QED BY <3>1, <3>3, <3>4
  <2> HIDE DEF S
  <2>7. Len(file) \in S
    BY <1>0, <2>5, <2>6, Climb
  <2>8. CellKnown(plans[Len(file)].known, mac) = cells[Len(file)]
    BY <1>0, <2>7 DEF S
  <2> QED BY <2>4, <2>8 DEF first
<1> QED BY <1>3, <1>4, <1>5, <1>6, <1>7 DEF stored

-----------------------------------------------------------------------------
(* What the upserts make of the table.                                     *)

\* The panels as the table may have them: panels.mac is unique.
PanelTables ==
  {table \in [PanelIds -> PanelRows] : \A p, q \in PanelIds :
     /\ table[p].state = "there" /\ table[q].state = "there"
          /\ table[p].mac = table[q].mac => p = q
     /\ table[p].state = "unused" => table[p].cell = NoCell}

\* The first rows of the MAC addresses that no panel has.
FreshRows(table, rows) ==
  {i \in DOMAIN rows : /\ PanelOf(table, rows[i].mac) = {}
                       /\ \A j \in {k \in DOMAIN rows : rows[k].mac = rows[i].mac} : i <= j}

MissingMacs(table, macs) == {mac \in macs : PanelOf(table, mac) = {}}

\* An upsert that a new panel is made of.
MadeOf(table, rows, p, i) ==
  i \in FreshRows(table, rows) /\ Rank(FreshRows(table, rows), i) = Rank(FreeIds(table), p)

LastCell(rows, mac) ==
  rows[CHOOSE i \in {k \in DOMAIN rows : rows[k].mac = mac} :
         \A j \in {k \in DOMAIN rows : rows[k].mac = mac} : j <= i].cell

\* A MAC of the rows has a first row and a last one.
LEMMA FirstAndLast ==
  ASSUME NEW rows \in Seq(Upserts), NEW mac \in MacsOf(rows)
  PROVE  /\ mac \in Macs
         /\ \E i \in DOMAIN rows : /\ rows[i].mac = mac
                                   /\ \A j \in {k \in DOMAIN rows : rows[k].mac = mac} : i <= j
         /\ \E i \in DOMAIN rows : /\ rows[i].mac = mac /\ IsLast(rows, i)
                                   /\ LastCell(rows, mac) = rows[i].cell
                                   /\ rows[i].cell \in Cells \cup {NoCell}
<1>1. /\ Len(rows) \in Nat /\ DOMAIN rows = 1 .. Len(rows)
      /\ \A i \in 1 .. Len(rows) : rows[i] \in Upserts
  BY LenProperties, ElementOfSeq
<1> DEFINE its == {k \in DOMAIN rows : rows[k].mac = mac}
<1>2. its \in SUBSET (1 .. Len(rows)) /\ its \in SUBSET Nat
  BY <1>1
<1>3. its # {}
  BY DEF MacsOf
<1>4. mac \in Macs
  <2>1. PICK i \in DOMAIN rows : rows[i].mac = mac
    BY DEF MacsOf
  <2> QED BY <1>1, <2>1 DEF Upserts
<1>5. \A i \in its : i \in DOMAIN rows /\ rows[i].mac = mac
                     /\ rows[i].cell \in Cells \cup {NoCell}
  BY <1>1 DEF Upserts
<1>6. \A i \in DOMAIN rows : rows[i].mac = mac => i \in its
  OBVIOUS
<1>7. LastCell(rows, mac) = rows[CHOOSE i \in its : \A j \in its : j <= i].cell
  BY DEF LastCell
<1> SUFFICES /\ \E i \in its : \A j \in its : i <= j
             /\ \E i \in its : IsLast(rows, i) /\ LastCell(rows, mac) = rows[i].cell
  <2> HIDE DEF its
  <2>0. its = {k \in DOMAIN rows : rows[k].mac = mac}
    BY DEF its
  <2> QED BY <1>4, <1>5, <2>0
<1> HIDE DEF its
<1>8. \E i \in its : \A j \in its : i <= j
  BY <1>2, <1>3, LeastExists
<1>9. \E i \in its : \A j \in its : j <= i
  BY <1>1, <1>2, <1>3, LastPosition
<1>10. PICK last : last = (CHOOSE i \in its : \A j \in its : j <= i)
  OBVIOUS
<1>11. last \in its /\ \A j \in its : j <= last
  BY <1>9, <1>10
<1>12. IsLast(rows, last)
  BY <1>5, <1>6, <1>11 DEF IsLast
<1> QED BY <1>7, <1>8, <1>10, <1>11, <1>12

\* There are as many fresh rows as MAC addresses without a panel.
LEMMA FreshCounted ==
  ASSUME NEW table, NEW rows \in Seq(Upserts)
  PROVE  /\ FreshRows(table, rows) \in SUBSET Nat /\ IsFiniteSet(FreshRows(table, rows))
         /\ Cardinality(FreshRows(table, rows)) = Cardinality(MissingMacs(table, MacsOf(rows)))
         /\ \A i, j \in FreshRows(table, rows) : rows[i].mac = rows[j].mac => i = j
         /\ \A i \in FreshRows(table, rows) :
              rows[i].mac \in MacsOf(rows) /\ PanelOf(table, rows[i].mac) = {}
<1> DEFINE fresh == FreshRows(table, rows)
           macs == MissingMacs(table, MacsOf(rows))
           f == [i \in fresh |-> rows[i].mac]
<1>1. Len(rows) \in Nat /\ DOMAIN rows = 1 .. Len(rows)
  BY LenProperties
<1>2. /\ fresh \in SUBSET (1 .. Len(rows)) /\ fresh \in SUBSET Nat
      /\ \A i \in fresh : rows[i].mac \in MacsOf(rows) /\ PanelOf(table, rows[i].mac) = {}
  BY <1>1 DEF FreshRows, MacsOf
<1>3. IsFiniteSet(fresh)
  <2>1. IsFiniteSet(1 .. Len(rows))
    BY <1>1, FS_Interval
  <2> HIDE DEF fresh
  <2> QED BY <1>2, <2>1, FS_Subset
<1>4. ASSUME NEW i \in fresh, NEW j \in fresh, rows[i].mac = rows[j].mac PROVE i = j
  <2>1. i <= j /\ j <= i /\ i \in Nat /\ j \in Nat
    BY <1>2, <1>4 DEF FreshRows
  <2> QED BY <2>1
<1>5. \A mac \in macs : \E i \in fresh : rows[i].mac = mac
  <2> SUFFICES ASSUME NEW mac \in macs PROVE \E i \in fresh : rows[i].mac = mac
    OBVIOUS
  <2>1. mac \in MacsOf(rows) /\ PanelOf(table, mac) = {}
    BY DEF MissingMacs
  <2>2. PICK i \in DOMAIN rows : /\ rows[i].mac = mac
                                 /\ \A j \in {k \in DOMAIN rows : rows[k].mac = mac} : i <= j
    BY <2>1, FirstAndLast
  <2>3. i \in fresh
    BY <2>1, <2>2 DEF FreshRows
  <2> QED BY <2>2, <2>3
<1>6. \A i \in fresh : rows[i].mac \in macs
  BY <1>2 DEF MissingMacs
<1> HIDE DEF fresh, macs
<1>7. f \in Bijection(fresh, macs)
  BY <1>4, <1>5, <1>6 DEF Bijection, Injection, Surjection, IsInjective
<1> HIDE DEF f
<1>8. Cardinality(fresh) = Cardinality(macs)
  BY <1>3, <1>7, FS_Bijection DEF ExistsBijection
<1> QED BY <1>2, <1>3, <1>4, <1>8 DEF fresh, macs

\* A panel that is there has the last cell of its MAC afterwards, a new one is made
\* of a fresh row, the others stay.
UpsertedOn(table, rows, enable, after, p) ==
  /\ table[p].state = "there" =>
       /\ table[p].mac \in MacsOf(rows) =>
            after = [table[p] EXCEPT !.cell = LastCell(rows, table[p].mac),
                                     !.enabled = @ \/ enable]
       /\ table[p].mac \notin MacsOf(rows) => after = table[p]
  /\ table[p].state = "unused" =>
       \/ /\ \A i \in DOMAIN rows : ~MadeOf(table, rows, p, i)
          /\ after = table[p]
       \/ \E i \in DOMAIN rows :
            /\ MadeOf(table, rows, p, i)
            /\ after = NewPanel(rows[i].mac, LastCell(rows, rows[i].mac))
  /\ table[p].state = "deleted" => after = table[p]

\* That is what Upserted does.
LEMMA UpsertOutcome ==
  ASSUME NEW table, NEW rows \in Seq(Upserts), NEW enable, NEW p \in PanelIds
  PROVE  UpsertedOn(table, rows, enable, Upserted(table, rows, enable)[p], p)
<1> DEFINE after == Upserted(table, rows, enable)[p]
           RowsOf(mac) == {i \in DOMAIN rows : rows[i].mac = mac}
           fresh == FreshRows(table, rows)
           NewOn == {rows[i].mac : i \in {j \in fresh :
                       Cardinality({k \in fresh : k < j})
                         = Cardinality({q \in FreeIds(table) : q < p})}}
<1>1. after = IF table[p].state = "there" /\ RowsOf(table[p].mac) # {}
                THEN [table[p] EXCEPT !.cell = LastCell(rows, table[p].mac),
                                      !.enabled = @ \/ enable]
              ELSE IF table[p].state = "unused" /\ NewOn # {}
                THEN LET mac == CHOOSE m \in NewOn : TRUE
                     IN NewPanel(mac, LastCell(rows, mac))
              ELSE table[p]
  BY DEF Upserted, FreshRows, LastCell
<1>2. \A mac : RowsOf(mac) # {} <=> mac \in MacsOf(rows)
  BY DEF MacsOf
<1>3. NewOn = {rows[i].mac : i \in {j \in fresh : MadeOf(table, rows, p, j)}}
  BY DEF MadeOf, Rank
<1>4. \A i : MadeOf(table, rows, p, i) => i \in fresh /\ i \in DOMAIN rows
  BY DEF MadeOf, FreshRows
<1> HIDE DEF after, fresh, NewOn, RowsOf
<1>5. \A i \in DOMAIN rows : MadeOf(table, rows, p, i) => rows[i].mac \in NewOn
  BY <1>3, <1>4
<1>6. \A mac \in NewOn : \E i \in DOMAIN rows :
        MadeOf(table, rows, p, i) /\ rows[i].mac = mac
  BY <1>3, <1>4
<1>7. CASE table[p].state = "there"
  BY <1>1, <1>2, <1>7 DEF UpsertedOn, after
<1>8. CASE table[p].state = "unused"
  <2>1. CASE NewOn = {}
    BY <1>1, <1>5, <1>8, <2>1 DEF UpsertedOn, after
  <2>2. CASE NewOn # {}
    <3>1. PICK mac : mac = (CHOOSE m \in NewOn : TRUE)
      OBVIOUS
    <3>2. mac \in NewOn
      BY <2>2, <3>1
    <3>3. after = NewPanel(mac, LastCell(rows, mac))
      BY <1>1, <1>8, <2>2, <3>1
    <3>4. PICK i \in DOMAIN rows : MadeOf(table, rows, p, i) /\ rows[i].mac = mac
      BY <1>6, <3>2
    <3> QED BY <1>8, <3>3, <3>4 DEF UpsertedOn, after
  <2> QED BY <2>1, <2>2
<1>9. CASE table[p].state \notin {"there", "unused"}
  BY <1>1, <1>9 DEF UpsertedOn, after
<1> QED BY SMTT(60), <1>7, <1>8, <1>9

\* The same of a table that is sound, column by column.
ColumnsUpserted(table, rows, enable, after, p) ==
  /\ after \in PanelRows
  /\ table[p].state = "there" =>
       /\ after.state = "there" /\ after.mac = table[p].mac
       /\ table[p].mac \in MacsOf(rows) =>
            /\ after.cell = LastCell(rows, table[p].mac)
            /\ after.enabled = (table[p].enabled \/ enable)
       /\ table[p].mac \notin MacsOf(rows) => after = table[p]
  /\ table[p].state = "deleted" => after.state = "deleted"
  /\ table[p].state = "unused" =>
       \/ /\ \A i \in DOMAIN rows : ~MadeOf(table, rows, p, i)
          /\ after.state = "unused" /\ after.cell = NoCell
       \/ \E i \in DOMAIN rows :
            /\ MadeOf(table, rows, p, i)
            /\ after.state = "there" /\ after.mac = rows[i].mac
            /\ after.cell = LastCell(rows, rows[i].mac)

\* That is what Upserted does to it.
LEMMA UpsertColumns ==
  ASSUME NEW table \in PanelTables, NEW rows \in Seq(Upserts), NEW enable \in BOOLEAN,
         NEW p \in PanelIds
  PROVE  ColumnsUpserted(table, rows, enable, Upserted(table, rows, enable)[p], p)
<1> DEFINE after == Upserted(table, rows, enable)[p]
<1>1. UpsertedOn(table, rows, enable, after, p)
  BY UpsertOutcome
<1>2. /\ table[p] \in PanelRows
      /\ table[p].state \in {"unused", "there", "deleted"}
      /\ table[p].state = "unused" => table[p].cell = NoCell
  BY DEF PanelTables, PanelRows
<1>3. \A mac \in MacsOf(rows) : mac \in Macs /\ LastCell(rows, mac) \in Cells \cup {NoCell}
  BY FirstAndLast
<1>4. ASSUME NEW row \in PanelRows, NEW cell \in Cells \cup {NoCell}
      PROVE  LET to == [row EXCEPT !.cell = cell, !.enabled = @ \/ enable]
             IN /\ to \in PanelRows /\ to.state = row.state /\ to.mac = row.mac
                /\ to.cell = cell /\ to.enabled = (row.enabled \/ enable)
  <2>1. PICK on \in BOOLEAN : on = (row.enabled \/ enable)
    OBVIOUS
  <2>2. PICK one : one = [row EXCEPT !.cell = cell]
    OBVIOUS
  <2>3. /\ one \in PanelRows /\ one.state = row.state /\ one.mac = row.mac
        /\ one.cell = cell /\ one.enabled = row.enabled
    BY <2>2, SMTT(60) DEF PanelRows
  <2>4. PICK two : two = [one EXCEPT !.enabled = on]
    OBVIOUS
  <2>5. /\ two \in PanelRows /\ two.state = one.state /\ two.mac = one.mac
        /\ two.cell = one.cell /\ two.enabled = on
    BY <2>3, <2>4, SMTT(60) DEF PanelRows
  <2>6. [row EXCEPT !.cell = cell, !.enabled = @ \/ enable] = two
    BY <2>1, <2>2, <2>4, Zenon
  <2> QED BY <2>1, <2>3, <2>5, <2>6
<1>5. ASSUME NEW mac \in Macs, NEW cell \in Cells \cup {NoCell}
      PROVE  /\ NewPanel(mac, cell) \in PanelRows /\ NewPanel(mac, cell).state = "there"
             /\ NewPanel(mac, cell).mac = mac /\ NewPanel(mac, cell).cell = cell
  BY DEF NewPanel, PanelRows
<1> HIDE DEF after
<1> SUFFICES ColumnsUpserted(table, rows, enable, after, p)
  BY DEF after
<1>6. CASE table[p].state = "there"
  <2>1. CASE table[p].mac \in MacsOf(rows)
    <3>1. PICK cell \in Cells \cup {NoCell} : cell = LastCell(rows, table[p].mac)
      BY <1>3, <2>1
    <3>2. after = [table[p] EXCEPT !.cell = cell, !.enabled = @ \/ enable]
      BY <1>1, <1>6, <2>1, <3>1 DEF UpsertedOn
    <3>3. PICK row \in PanelRows : row = table[p]
      BY <1>2
    <3>4. /\ after \in PanelRows /\ after.state = row.state /\ after.mac = row.mac
          /\ after.cell = cell /\ after.enabled = (row.enabled \/ enable)
      <4>1. after = [row EXCEPT !.cell = cell, !.enabled = @ \/ enable]
        BY <3>2, <3>3
      <4> QED BY <1>4, <4>1
    <3> QED BY <1>6, <2>1, <3>1, <3>3, <3>4 DEF ColumnsUpserted
  <2>2. CASE table[p].mac \notin MacsOf(rows)
    BY <1>1, <1>2, <1>6, <2>2 DEF UpsertedOn, ColumnsUpserted
  <2> QED BY <2>1, <2>2
<1>7. CASE table[p].state = "unused"
  <2>1. CASE (\A i \in DOMAIN rows : ~MadeOf(table, rows, p, i)) /\ after = table[p]
    BY <1>2, <1>7, <2>1 DEF ColumnsUpserted
  <2>2. CASE \E i \in DOMAIN rows :
               /\ MadeOf(table, rows, p, i)
               /\ after = NewPanel(rows[i].mac, LastCell(rows, rows[i].mac))
    <3>1. PICK i \in DOMAIN rows :
               /\ MadeOf(table, rows, p, i)
               /\ after = NewPanel(rows[i].mac, LastCell(rows, rows[i].mac))
      BY <2>2
    <3>2. rows[i].mac \in MacsOf(rows)
      BY DEF MacsOf
    <3>3. rows[i].mac \in Macs /\ LastCell(rows, rows[i].mac) \in Cells \cup {NoCell}
      BY <1>3, <3>2
    <3>4. /\ after \in PanelRows /\ after.state = "there" /\ after.mac = rows[i].mac
          /\ after.cell = LastCell(rows, rows[i].mac)
      BY <1>5, <3>1, <3>3
    <3> QED BY <1>7, <3>1, <3>4 DEF ColumnsUpserted
  <2> QED BY <1>1, <1>7, <2>1, <2>2 DEF UpsertedOn
<1>8. CASE table[p].state = "deleted"
  BY <1>1, <1>2, <1>8 DEF UpsertedOn, ColumnsUpserted
<1> QED BY <1>2, <1>6, <1>7, <1>8

\* The table stays one in which a MAC has one panel.
LEMMA UpsertedSound ==
  ASSUME NEW table \in PanelTables, NEW rows \in Seq(Upserts), NEW enable \in BOOLEAN,
         PanelIds \in SUBSET Nat, IsFiniteSet(PanelIds)
  PROVE  Upserted(table, rows, enable) \in PanelTables
<1> DEFINE after == Upserted(table, rows, enable)
<1>0. DOMAIN after = PanelIds /\ after = [p \in PanelIds |-> after[p]]
  BY DEF Upserted
<1>1. ASSUME NEW p \in PanelIds
      PROVE  /\ after[p] \in PanelRows
             /\ after[p].state = "unused" => after[p].cell = NoCell
             /\ after[p].state = "there" =>
                  \/ table[p].state = "there" /\ after[p].mac = table[p].mac
                  \/ table[p].state = "unused" /\ \E i \in DOMAIN rows :
                       MadeOf(table, rows, p, i) /\ after[p].mac = rows[i].mac
  <2>1. table[p].state \in {"unused", "there", "deleted"}
    BY DEF PanelTables, PanelRows
  <2>2. ColumnsUpserted(table, rows, enable, after[p], p)
    BY UpsertColumns
  <2> HIDE DEF after
  <2> QED BY <2>1, <2>2 DEF ColumnsUpserted
<1> HIDE DEF after
<1>2. after \in [PanelIds -> PanelRows]
  BY <1>0, <1>1
<1>3. /\ FreshRows(table, rows) \in SUBSET Nat /\ IsFiniteSet(FreshRows(table, rows))
      /\ \A i, j \in FreshRows(table, rows) : rows[i].mac = rows[j].mac => i = j
      /\ \A i \in FreshRows(table, rows) :
           rows[i].mac \in MacsOf(rows) /\ PanelOf(table, rows[i].mac) = {}
  BY FreshCounted
<1>4. FreeIds(table) \in SUBSET Nat /\ IsFiniteSet(FreeIds(table))
  <2>1. FreeIds(table) \in SUBSET PanelIds
    BY DEF FreeIds
  <2> QED BY <2>1, FS_Subset
<1>5. ASSUME NEW p \in PanelIds, NEW i \in DOMAIN rows, table[p].state = "unused",
             MadeOf(table, rows, p, i), NEW q \in PanelIds, table[q].state = "there",
             table[q].mac = rows[i].mac
      PROVE  FALSE
  <2>1. PanelOf(table, rows[i].mac) = {}
    BY <1>3, <1>5 DEF MadeOf
  <2> QED BY <1>5, <2>1 DEF PanelOf
<1>6. ASSUME NEW p \in PanelIds, NEW i \in DOMAIN rows, table[p].state = "unused",
             MadeOf(table, rows, p, i), NEW q \in PanelIds, NEW j \in DOMAIN rows,
             table[q].state = "unused", MadeOf(table, rows, q, j), rows[i].mac = rows[j].mac
      PROVE  p = q
  <2>1. i \in FreshRows(table, rows) /\ j \in FreshRows(table, rows)
    BY <1>6 DEF MadeOf
  <2>2. i = j
    BY <1>3, <1>6, <2>1
  <2>3. Rank(FreeIds(table), p) = Rank(FreeIds(table), q)
    BY <1>6, <2>2 DEF MadeOf
  <2>4. p \in FreeIds(table) /\ q \in FreeIds(table)
    BY <1>6 DEF FreeIds
  <2>5. PICK free : free = FreeIds(table)
    OBVIOUS
  <2> QED BY <1>4, <2>3, <2>4, <2>5, RankIsInjection
<1>7. ASSUME NEW p \in PanelIds, NEW q \in PanelIds, after[p].state = "there",
             after[q].state = "there", after[p].mac = after[q].mac
      PROVE  p = q
  <2>1. CASE table[p].state = "there" /\ table[q].state = "there"
    BY <1>1, <1>7, <2>1 DEF PanelTables
  <2>2. CASE table[p].state = "unused" /\ table[q].state = "there"
    <3>1. PICK i \in DOMAIN rows : MadeOf(table, rows, p, i) /\ after[p].mac = rows[i].mac
      BY <1>1, <1>7, <2>2
    <3> QED BY <1>1, <1>5, <1>7, <2>2, <3>1
  <2>3. CASE table[p].state = "there" /\ table[q].state = "unused"
    <3>1. PICK i \in DOMAIN rows : MadeOf(table, rows, q, i) /\ after[q].mac = rows[i].mac
      BY <1>1, <1>7, <2>3
    <3> QED BY <1>1, <1>5, <1>7, <2>3, <3>1
  <2>4. CASE table[p].state = "unused" /\ table[q].state = "unused"
    <3>1. PICK i \in DOMAIN rows : MadeOf(table, rows, p, i) /\ after[p].mac = rows[i].mac
      BY <1>1, <1>7, <2>4
    <3>2. PICK j \in DOMAIN rows : MadeOf(table, rows, q, j) /\ after[q].mac = rows[j].mac
      BY <1>1, <1>7, <2>4
    <3> QED BY <1>6, <1>7, <2>4, <3>1, <3>2
  <2> QED BY <1>1, <1>7, <2>1, <2>2, <2>3, <2>4
<1>8. after \in PanelTables
  BY <1>1, <1>2, <1>7 DEF PanelTables
<1> QED BY SMTT(60), <1>8 DEF after

PanelsThere(table) == {p \in PanelIds : table[p].state = "there"}

\* A table with room has as many panels more as there were MAC addresses missing.
LEMMA UpsertedCount ==
  ASSUME NEW table \in PanelTables, NEW rows \in Seq(Upserts), NEW enable \in BOOLEAN,
         PanelIds \in SUBSET Nat, IsFiniteSet(PanelIds), RoomFor(table, MacsOf(rows))
  PROVE  Cardinality(PanelsThere(Upserted(table, rows, enable)))
           - Cardinality(PanelsThere(table))
           = Cardinality(MissingMacs(table, MacsOf(rows)))
<1> DEFINE after == Upserted(table, rows, enable)
           fresh == FreshRows(table, rows)
           free == FreeIds(table)
           there == PanelsThere(table)
<1>1. /\ fresh \in SUBSET Nat /\ IsFiniteSet(fresh)
      /\ Cardinality(fresh) = Cardinality(MissingMacs(table, MacsOf(rows)))
  BY FreshCounted
<1>2. free \in SUBSET PanelIds /\ there \in SUBSET PanelIds
  BY DEF FreeIds, PanelsThere
<1>3. Cardinality(fresh) <= Cardinality(free)
  BY <1>1 DEF RoomFor, MissingMacs
<1>4. ASSUME NEW p \in PanelIds
      PROVE  after[p].state = "there" <=>
               \/ p \in there
               \/ p \in free /\ \E i \in DOMAIN rows : MadeOf(table, rows, p, i)
  <2>1. table[p].state \in {"unused", "there", "deleted"}
    BY DEF PanelTables, PanelRows
  <2>2. /\ table[p].state = "there" => after[p].state = "there"
        /\ table[p].state = "deleted" => after[p].state = "deleted"
        /\ table[p].state = "unused" =>
             \/ /\ \A i \in DOMAIN rows : ~MadeOf(table, rows, p, i)
                /\ after[p].state = "unused"
             \/ /\ \E i \in DOMAIN rows : MadeOf(table, rows, p, i)
                /\ after[p].state = "there"
    <3>1. ColumnsUpserted(table, rows, enable, after[p], p)
      BY UpsertColumns
    <3> HIDE DEF after
    <3> QED BY <3>1 DEF ColumnsUpserted
  <2> HIDE DEF after
  <2> QED BY <2>1, <2>2 DEF FreeIds, PanelsThere
<1>5. \A i : i \in fresh => i \in DOMAIN rows
  BY DEF FreshRows
<1>6. \A p, i : MadeOf(table, rows, p, i) <=> i \in fresh /\ Rank(fresh, i) = Rank(free, p)
  BY DEF MadeOf
<1>7. PanelsThere(after) = {p \in PanelIds : after[p].state = "there"}
  BY DEF PanelsThere
<1>8. there \cap free = {}
  BY DEF PanelsThere, FreeIds
<1> HIDE DEF after, fresh, free, there
<1>9. IsFiniteSet(free) /\ free \in SUBSET Nat /\ IsFiniteSet(there)
  BY <1>2, FS_Subset
<1> DEFINE n == Cardinality(fresh)
           first == {p \in free : Rank(free, p) < n}
<1>10. n \in Nat
  BY <1>1, FS_CardinalityType
<1>11. IsFiniteSet(first) /\ Cardinality(first) = n
  BY <1>3, <1>9, <1>10, FirstRanks
<1>12. ASSUME NEW p \in free
       PROVE  (\E i \in DOMAIN rows : MadeOf(table, rows, p, i)) <=> Rank(free, p) < n
  <2>1. ASSUME NEW i \in fresh PROVE Rank(fresh, i) < n /\ Rank(fresh, i) \in Int
    <3>1. Rank(fresh, i) \in 0 .. n - 1
      BY <1>1, RankBetween
    <3> QED BY <1>10, <3>1
  <2>2. Rank(free, p) \in Nat
    <3>1. Rank(free, p) \in 0 .. Cardinality(free) - 1
      BY <1>9, RankBetween
    <3> QED BY <3>1
  <2>3. ASSUME Rank(free, p) < n PROVE \E i \in fresh : Rank(fresh, i) = Rank(free, p)
    <3>1. PICK r : r = Rank(free, p)
      OBVIOUS
    <3>2. r \in 0 .. Cardinality(fresh) - 1
      BY <1>10, <2>2, <2>3, <3>1
    <3> QED BY <1>1, <3>1, <3>2, RankIsTaken
  <2> QED BY <1>5, <1>6, <2>1, <2>3
<1>13. PanelsThere(after) = there \cup first
  BY <1>2, <1>4, <1>7, <1>12
<1>14. there \cap first = {}
  BY <1>8
<1> HIDE DEF first, n
<1>15. Cardinality(there \cup first) = Cardinality(there) + Cardinality(first)
  <2>1. /\ Cardinality(there \cup first)
             = Cardinality(there) + Cardinality(first) - Cardinality(there \cap first)
    BY <1>9, <1>11, FS_Union
  <2>2. Cardinality(there \cap first) = 0
    BY <1>14, FS_EmptySet
  <2>3. Cardinality(there) \in Nat /\ Cardinality(first) \in Nat
    BY <1>9, <1>11, FS_CardinalityType
  <2> QED BY <2>1, <2>2, <2>3
<1>16. Cardinality(there) \in Nat
  BY <1>9, FS_CardinalityType
<1> QED BY <1>1, <1>10, <1>11, <1>13, <1>15, <1>16 DEF n, after, there

-----------------------------------------------------------------------------
(* The steps.                                                              *)

\* existing_by_mac has the cell of each panel that is there, and of no other MAC.
LEMMA CellsStored ==
  ASSUME NEW table \in PanelTables
  PROVE  /\ CellsByMac(table) \in KnownCells
         /\ \A p \in PanelsThere(table) : CellKnown(CellsByMac(table), table[p].mac) = table[p].cell
         /\ \A mac : mac \in DOMAIN CellsByMac(table) <=> PanelOf(table, mac) # {}
<1> DEFINE stored == CellsByMac(table)
           macs == {table[p].mac : p \in {q \in PanelIds : table[q].state = "there"}}
<1>1. stored = [mac \in macs |-> table[CHOOSE p \in PanelOf(table, mac) : TRUE].cell]
  BY DEF CellsByMac
<1>2. \A p \in PanelIds : /\ table[p].mac \in Macs \cup {NoMac}
                          /\ table[p].cell \in Cells \cup {NoCell}
  BY DEF PanelTables, PanelRows
<1>3. macs \in SUBSET (Macs \cup {NoMac})
  BY <1>2
<1>4. \A mac : mac \in macs <=> PanelOf(table, mac) # {}
  BY DEF PanelOf
<1>5. \A p \in PanelsThere(table) : PanelOf(table, table[p].mac) = {p} /\ table[p].mac \in macs
  BY DEF PanelOf, PanelTables, PanelsThere
<1>6. \A mac : PanelOf(table, mac) \in SUBSET PanelIds
  BY DEF PanelOf
<1> HIDE DEF macs, stored
<1>7. stored \in [macs -> Cells \cup {NoCell}]
  <2>1. ASSUME NEW mac \in macs
        PROVE  table[CHOOSE p \in PanelOf(table, mac) : TRUE].cell \in Cells \cup {NoCell}
    <3>1. (CHOOSE p \in PanelOf(table, mac) : TRUE) \in PanelOf(table, mac)
      BY <1>4
    <3> QED BY <1>2, <1>6, <3>1
  <2> QED BY <1>1, <2>1
<1>8. ASSUME NEW p \in PanelsThere(table) PROVE CellKnown(stored, table[p].mac) = table[p].cell
  <2>1. (CHOOSE q \in PanelOf(table, table[p].mac) : TRUE) = p
    BY <1>5
  <2>2. stored[table[p].mac] = table[p].cell /\ table[p].mac \in DOMAIN stored
    BY <1>1, <1>5, <2>1
  <2> QED BY <2>2 DEF CellKnown
<1>9. stored \in KnownCells /\ DOMAIN stored = macs
  BY <1>3, <1>7 DEF KnownCells
<1> QED BY <1>4, <1>8, <1>9 DEF stored

\* The panels, and those an import has read, are sound.
PanelsSound ==
  /\ panels \in PanelTables
  /\ \A m \in Managers : epc[m] = "import" =>
       errand[m].file \in PanelFiles /\ errand[m].seen \in PanelTables

\* What an import has read makes a plan.
LEMMA ErrandPlan ==
  ASSUME PanelsSound, NEW m \in Managers, epc[m] = "import"
  PROVE  LET plan == PlanOfErrand(m)
             stored == CellsByMac(errand[m].seen)
         IN /\ errand[m].file \in Seq(FilePanel) /\ errand[m].seen \in PanelTables
            /\ plan.upserts \in Seq(Upserts)
            /\ PanelTold(stored, errand[m].file, Len(errand[m].file), plan)
            /\ \A mac \in Macs : CellKnown(plan.known, mac)
                                   = Told(errand[m].file, mac, CellKnown(stored, mac))
<1>1. PICK file, table : file = errand[m].file /\ table = errand[m].seen
  OBVIOUS
<1>2. table \in PanelTables /\ file \in Seq(FilePanel)
  BY <1>1, PanelFilesAssumption DEF PanelsSound, FilePanel
<1>3. CellsByMac(table) \in KnownCells
  BY <1>2, CellsStored
<1>4. /\ PanelPlan(table, file) \in PanelPlans
      /\ PanelTold(CellsByMac(table), file, Len(file), PanelPlan(table, file))
      /\ \A mac \in Macs : CellKnown(PanelPlan(table, file).known, mac)
                             = Told(file, mac, CellKnown(CellsByMac(table), mac))
  BY <1>2, <1>3, FilePlanTold
<1>5. PanelPlan(table, file).upserts \in Seq(Upserts)
  BY <1>4, PlanIs
<1> QED BY <1>1, <1>2, <1>4, <1>5 DEF PlanOfErrand

\* The register of panels stays sound.
LEMMA PanelsSoundSteps ==
  ASSUME PremisesInv, PanelsSound, [PremisesNext]_premisesVars
  PROVE  PanelsSound'
<1>0. /\ DOMAIN errand = Managers /\ DOMAIN epc = Managers
      /\ DOMAIN panels = PanelIds
  BY DEF PremisesInv, PremisesTypes, PanelsSound, PanelTables
<1>1. ASSUME NEW enable \in BOOLEAN, NEW rows \in Seq(Upserts)
      PROVE  Upserted(panels, rows, enable) \in PanelTables
  BY PanelIdsAssumption, UpsertedSound DEF PanelsSound
<1>2. ASSUME panels' \in PanelTables,
             \/ UNCHANGED <<epc, errand>>
             \/ \E m \in Managers, label \in {"idle", "add", "detach", "program"} :
                  \E record : Go(m, label, record)
      PROVE  PanelsSound'
  <2>1. ASSUME NEW m \in Managers, epc'[m] = "import"
        PROVE  epc[m] = "import" /\ errand'[m] = errand[m]
    BY <1>0, <1>2, <2>1 DEF Go
  <2> QED BY <1>2, <2>1 DEF PanelsSound
<1>3. ASSUME NEW m \in Managers PROVE Leave(m) => Go(m, "idle", NoErrand)
  BY DEF Leave
<1>4. panels \in PanelTables /\ panels \in [PanelIds -> PanelRows]
  BY DEF PanelsSound, PanelTables
<1>5. CASE UNCHANGED premisesVars
  BY <1>2, <1>4, <1>5 DEF premisesVars
<1>6. CASE \E mac \in Macs, cell \in Cells \cup {NoCell} : SavePanel(mac, cell)
  <2>1. PICK mac \in Macs, cell \in Cells \cup {NoCell} : SavePanel(mac, cell)
    BY <1>6
  <2>2. <<[mac |-> mac, cell |-> cell]>> \in Seq(Upserts)
    BY DEF Upserts
  <2>3. panels' \in PanelTables /\ UNCHANGED <<epc, errand>>
    BY <1>1, <2>1, <2>2 DEF SavePanel
  <2> QED BY <1>2, <2>3
<1>7. CASE \E p \in PanelIds, mac \in Macs, cell \in Cells \cup {NoCell} :
             EditPanel(p, mac, cell)
  <2>1. PICK p \in PanelIds, mac \in Macs, cell \in Cells \cup {NoCell} :
               EditPanel(p, mac, cell)
    BY <1>7
  <2>2. PICK row : row = [panels[p] EXCEPT !.mac = mac, !.cell = cell]
    OBVIOUS
  <2>3. panels' = [panels EXCEPT ![p] = row] /\ panels[p].state = "there"
        /\ UNCHANGED <<epc, errand>> /\ PanelOf(panels, mac) \in SUBSET {p}
    BY <2>1, <2>2 DEF EditPanel, IsThere
  <2>4. row \in PanelRows /\ row.state = "there" /\ row.mac = mac
    <3>1. ASSUME NEW old \in PanelRows, NEW new, new = [old EXCEPT !.mac = mac]
          PROVE  new \in PanelRows /\ new.state = old.state /\ new.mac = mac
      BY <3>1, SMTT(60) DEF PanelRows
    <3>2. ASSUME NEW old \in PanelRows, NEW new, new = [old EXCEPT !.cell = cell]
          PROVE  new \in PanelRows /\ new.state = old.state /\ new.mac = old.mac
      BY <3>2, SMTT(60) DEF PanelRows
    <3>3. PICK old, new : old = panels[p] /\ new = [old EXCEPT !.mac = mac]
      OBVIOUS
    <3>4. old \in PanelRows /\ row = [new EXCEPT !.cell = cell]
      BY <1>4, <2>2, <3>3, Zenon
    <3>5. new \in PanelRows /\ new.state = old.state /\ new.mac = mac
      BY <3>1, <3>3, <3>4
    <3>6. row \in PanelRows /\ row.state = new.state /\ row.mac = new.mac
      BY <3>2, <3>4, <3>5
    <3> QED BY <2>3, <3>3, <3>5, <3>6
  <2>5. \A q \in PanelIds : q # p /\ panels[q].state = "there" => panels[q].mac # mac
    BY <2>3 DEF PanelOf
  <2>6. panels' \in PanelTables
    <3>1. panels' \in [PanelIds -> PanelRows]
      BY <1>4, <2>3, <2>4
    <3>2. /\ panels'[p].state = "there" /\ panels'[p].mac = mac
          /\ \A q \in PanelIds : q # p => panels'[q] = panels[q]
      BY <1>0, <2>3, <2>4
    <3> QED BY <1>4, <2>5, <3>1, <3>2 DEF PanelTables
  <2> QED BY <1>2, <2>3, <2>6
<1>8. CASE \E p \in PanelIds : TogglePanel(p)
  <2>1. PICK p \in PanelIds : TogglePanel(p)
    BY <1>8
  <2>2. PICK row : row = [panels[p] EXCEPT !.enabled = ~@]
    OBVIOUS
  <2>3. panels' = [panels EXCEPT ![p] = row] /\ UNCHANGED <<epc, errand>>
    BY <2>1, <2>2 DEF TogglePanel
  <2>4. row \in PanelRows /\ row.state = panels[p].state /\ row.mac = panels[p].mac
        /\ row.cell = panels[p].cell
    <3>1. PICK old, on : old = panels[p] /\ on = ~old.enabled
      OBVIOUS
    <3>2. old \in PanelRows /\ on \in BOOLEAN /\ row = [old EXCEPT !.enabled = on]
      BY <1>4, <2>2, <3>1, Zenon
    <3>3. row \in PanelRows /\ row.state = old.state /\ row.mac = old.mac
          /\ row.cell = old.cell
      BY <3>2, SMTT(60) DEF PanelRows
    <3> QED BY <3>1, <3>3
  <2>5. panels' \in PanelTables
    <3>1. panels' \in [PanelIds -> PanelRows]
      BY <1>4, <2>3, <2>4
    <3>2. \A q \in PanelIds : /\ panels'[q].state = panels[q].state
                              /\ panels'[q].mac = panels[q].mac
                              /\ panels'[q].cell = panels[q].cell
      BY <1>0, <2>3, <2>4
    <3> QED BY <1>4, <3>1, <3>2 DEF PanelTables
  <2> QED BY <1>2, <2>3, <2>5
<1>9. CASE \E p \in PanelIds : DeletePanel(p)
  <2>1. PICK p \in PanelIds : DeletePanel(p)
    BY <1>9
  <2>2. panels' = [panels EXCEPT ![p] = DeletedPanel] /\ UNCHANGED <<epc, errand>>
    BY <2>1 DEF DeletePanel
  <2>3. DeletedPanel \in PanelRows /\ DeletedPanel.state = "deleted"
    BY DEF DeletedPanel, UnusedPanel, PanelRows
  <2>4. panels' \in PanelTables
    <3>1. panels' \in [PanelIds -> PanelRows]
      BY <1>4, <2>2, <2>3
    <3>2. /\ panels'[p].state = "deleted"
          /\ \A q \in PanelIds : q # p => panels'[q] = panels[q]
      BY <1>0, <2>2, <2>3
    <3> QED BY <1>4, <3>1, <3>2 DEF PanelTables
  <2> QED BY <1>2, <2>2, <2>4
<1>10. CASE \E m \in Managers : WritePanels(m)
  <2>1. PICK m \in Managers : WritePanels(m)
    BY <1>10
  <2>2. /\ epc[m] = "import" /\ Leave(m)
        /\ panels' = Upserted(panels, PlanOfErrand(m).upserts, FALSE)
    BY <2>1 DEF WritePanels
  <2>3. PlanOfErrand(m).upserts \in Seq(Upserts)
    BY <2>2, ErrandPlan
  <2>4. panels' \in PanelTables
    BY <1>1, <2>2, <2>3
  <2> QED BY <1>2, <1>3, <2>2, <2>4
<1>11. CASE \E m \in Managers, file \in PanelFiles : ReadPanelFile(m, file)
  <2>1. PICK m \in Managers, file \in PanelFiles : ReadPanelFile(m, file)
    BY <1>11
  <2>2. PICK record : record = [op |-> "import", file |-> file, seen |-> panels]
    OBVIOUS
  <2>3. /\ epc' = [epc EXCEPT ![m] = "import"] /\ errand' = [errand EXCEPT ![m] = record]
        /\ panels' = panels /\ record.file = file /\ record.seen = panels
    BY <2>1, <2>2 DEF ReadPanelFile, Go
  <2>4. ASSUME NEW n \in Managers, epc'[n] = "import"
        PROVE  errand'[n].file \in PanelFiles /\ errand'[n].seen \in PanelTables
    BY <1>0, <1>4, <2>3, <2>4 DEF PanelsSound
  <2> QED BY <1>4, <2>3, <2>4 DEF PanelsSound
<1>12. CASE \E m \in Managers :
              \/ \E g \in Firms, p \in PanelIds : ReadForAdd(m, g, p)
              \/ \E i \in DOMAIN links : ReadForDetach(m, i) \/ ReadForProgramming(m, i)
              \/ WriteLink(m) \/ WriteDetached(m) \/ WriteProgramming(m) \/ LoseErrand(m)
  <2>1. PICK m \in Managers :
              \/ \E g \in Firms, p \in PanelIds : ReadForAdd(m, g, p)
              \/ \E i \in DOMAIN links : ReadForDetach(m, i) \/ ReadForProgramming(m, i)
              \/ WriteLink(m) \/ WriteDetached(m) \/ WriteProgramming(m) \/ LoseErrand(m)
    BY <1>12
  <2>2. /\ panels' = panels
        /\ \E label \in {"idle", "add", "detach", "program"} : \E record : Go(m, label, record)
    BY <1>3, <2>1 DEF ReadForAdd, ReadForDetach, ReadForProgramming, WriteLink, WriteDetached,
       WriteProgramming, LoseErrand
  <2> QED BY <1>2, <1>4, <2>2
<1>13. CASE \/ \E g \in Firms : \/ \E login \in BOOLEAN : SaveGroup(g, login)
                                \/ UpdateGroup(g) \/ ArchiveGroup(g)
            \/ \E i \in DOMAIN links : EndProgramming(i)
  <2>1. panels' = panels /\ UNCHANGED <<epc, errand>>
    BY <1>13 DEF SaveGroup, UpdateGroup, ArchiveGroup, EndProgramming
  <2> QED BY <1>2, <1>4, <2>1
<1> QED BY <1>5, <1>6, <1>7, <1>8, <1>9, <1>10, <1>11, <1>12, <1>13, Zenon DEF PremisesNext

\* What an import reports is what it does.
LEMMA WrittenAsReported ==
  ASSUME PanelsSound, NEW m \in Managers, WritePanels(m)
  PROVE  LET plan == PlanOfErrand(m)
             file == errand[m].file
             named == {r.mac : r \in ToSet(file)} \cap Macs
             there == {p \in PanelIds : IsThere(p)}
         IN /\ plan.added + plan.updated + plan.skipped + plan.errors = Len(file)
            /\ \A p \in there :
                 /\ panels'[p].enabled = panels[p].enabled
                 /\ panels[p].mac \notin named => panels'[p] = panels[p]
            /\ errand[m].seen = panels =>
                 /\ plan.added = Cardinality({p \in PanelIds : IsThere(p)'})
                                   - Cardinality(there)
                 /\ \A mac \in named : \A p \in PanelOf(panels', mac) :
                      panels'[p].cell = Told(file, mac, panels[p].cell)
<1> DEFINE plan == PlanOfErrand(m)
           file == errand[m].file
           rows == plan.upserts
           named == {r.mac : r \in ToSet(file)} \cap Macs
           stored == CellsByMac(errand[m].seen)
<1>1. /\ epc[m] = "import" /\ RoomFor(panels, {u.mac : u \in ToSet(rows)})
      /\ panels' = Upserted(panels, rows, FALSE)
  BY DEF WritePanels
<1>2. panels \in PanelTables
  BY DEF PanelsSound
<1>3. /\ file \in Seq(FilePanel) /\ rows \in Seq(Upserts)
      /\ PanelTold(stored, file, Len(file), plan)
      /\ \A mac \in Macs : CellKnown(plan.known, mac) = Told(file, mac, CellKnown(stored, mac))
  BY <1>1, ErrandPlan
<1> HIDE DEF plan, file, stored
<1>4. /\ RowCount(plan) = Len(file)
      /\ MacsOf(rows) = {file[j].mac : j \in 1 .. Len(file)} \cap Macs
      /\ DOMAIN plan.known = DOMAIN stored \cup MacsOf(rows)
      /\ plan.added = Cardinality(MacsOf(rows) \ DOMAIN stored)
      /\ \A i \in DOMAIN rows : IsLast(rows, i) => rows[i].cell = plan.known[rows[i].mac]
  BY <1>3 DEF PanelTold
<1>5. MacsOf(rows) = named
  <2>1. DOMAIN file = 1 .. Len(file)
    BY <1>3, LenProperties
  <2>2. ToSet(file) = {file[j] : j \in DOMAIN file}
    BY DEF ToSet
  <2> QED BY <1>4, <2>1, <2>2
<1>6. {u.mac : u \in ToSet(rows)} = MacsOf(rows)
  BY DEF ToSet, MacsOf
<1> HIDE DEF rows, named
<1>7. ASSUME NEW p \in PanelIds
      PROVE  ColumnsUpserted(panels, rows, FALSE, panels'[p], p)
  <2>1. FALSE \in BOOLEAN
    OBVIOUS
  <2> QED BY <1>1, <1>2, <1>3, <2>1, UpsertColumns
<1>8. ASSUME NEW p \in PanelIds, IsThere(p)
      PROVE  /\ panels'[p].enabled = panels[p].enabled
             /\ panels[p].mac \notin named => panels'[p] = panels[p]
  <2>1. panels[p].enabled \in BOOLEAN
    BY <1>2 DEF PanelTables, PanelRows
  <2> QED BY <1>5, <1>7, <1>8, <2>1 DEF ColumnsUpserted, IsThere
<1>9. ASSUME errand[m].seen = panels
      PROVE  plan.added = Cardinality({p \in PanelIds : IsThere(p)'})
                            - Cardinality({p \in PanelIds : IsThere(p)})
  <2>1. /\ {p \in PanelIds : IsThere(p)'} = PanelsThere(panels')
        /\ {p \in PanelIds : IsThere(p)} = PanelsThere(panels)
    BY DEF IsThere, PanelsThere
  <2>2. MissingMacs(panels, MacsOf(rows)) = MacsOf(rows) \ DOMAIN stored
    <3>1. \A mac : mac \in DOMAIN stored <=> PanelOf(panels, mac) # {}
      BY <1>2, <1>9, CellsStored DEF stored
    <3> QED BY <3>1 DEF MissingMacs
  <2>3. Cardinality(PanelsThere(panels')) - Cardinality(PanelsThere(panels))
          = Cardinality(MissingMacs(panels, MacsOf(rows)))
    <3>1. RoomFor(panels, MacsOf(rows)) /\ FALSE \in BOOLEAN
      BY <1>1, <1>6
    <3> QED BY <1>1, <1>2, <1>3, <3>1, PanelIdsAssumption, UpsertedCount
  <2> QED BY <1>4, <2>1, <2>2, <2>3
<1>10. ASSUME errand[m].seen = panels, NEW mac \in named, NEW p \in PanelOf(panels', mac)
       PROVE  panels'[p].cell = Told(file, mac, panels[p].cell)
  <2>1. /\ p \in PanelIds /\ panels'[p].state = "there" /\ panels'[p].mac = mac
        /\ mac \in Macs /\ mac \in MacsOf(rows) /\ mac \in DOMAIN plan.known
    <3>1. mac \in Macs
      BY DEF named
    <3> QED BY <1>4, <1>5, <1>10, <3>1 DEF PanelOf
  <2>2. LastCell(rows, mac) = CellKnown(plan.known, mac)
    <3>1. PICK i \in DOMAIN rows : /\ rows[i].mac = mac /\ IsLast(rows, i)
                                   /\ LastCell(rows, mac) = rows[i].cell
      BY <1>3, <2>1, FirstAndLast
    <3>2. rows[i].cell = plan.known[mac]
      BY <1>4, <3>1
    <3> QED BY <2>1, <3>1, <3>2 DEF CellKnown
  <2>3. LastCell(rows, mac) = Told(file, mac, CellKnown(stored, mac))
    BY <1>3, <2>1, <2>2
  <2>4. ColumnsUpserted(panels, rows, FALSE, panels'[p], p)
    BY <1>7, <2>1
  <2>5. panels[p].state \in {"unused", "there", "deleted"}
        /\ (panels[p].state = "unused" => panels[p].cell = NoCell)
    BY <1>2, <2>1 DEF PanelTables, PanelRows
  <2>6. CASE panels[p].state = "there"
    <3>1. panels[p].mac = mac /\ panels'[p].cell = LastCell(rows, mac)
      BY <2>1, <2>4, <2>6 DEF ColumnsUpserted
    <3>2. CellKnown(stored, mac) = panels[p].cell
      <4>1. p \in PanelsThere(panels)
        BY <2>1, <2>6 DEF PanelsThere
      <4> QED BY <1>2, <1>10, <3>1, <4>1, CellsStored DEF stored
    <3> QED BY <2>3, <3>1, <3>2
  <2>7. CASE panels[p].state = "unused"
    <3>1. PICK i \in DOMAIN rows : /\ MadeOf(panels, rows, p, i)
                                   /\ panels'[p].mac = rows[i].mac
                                   /\ panels'[p].cell = LastCell(rows, rows[i].mac)
      BY <2>1, <2>4, <2>7 DEF ColumnsUpserted
    <3>2. PanelOf(panels, mac) = {}
      <4>1. i \in FreshRows(panels, rows) /\ rows[i].mac = mac
        BY <2>1, <3>1 DEF MadeOf
      <4> QED BY <1>3, <4>1, FreshCounted
    <3>3. CellKnown(stored, mac) = NoCell
      <4>1. mac \notin DOMAIN stored
        BY <1>2, <1>10, <3>2, CellsStored DEF stored
      <4> QED BY <4>1 DEF CellKnown
    <3> QED BY <2>1, <2>3, <2>5, <2>7, <3>1, <3>3
  <2>8. CASE panels[p].state = "deleted"
    BY SMTT(60), <2>1, <2>4, <2>8 DEF ColumnsUpserted
  <2> QED BY <2>5, <2>6, <2>7, <2>8
<1>11. plan.added + plan.updated + plan.skipped + plan.errors = Len(file)
  BY <1>4 DEF RowCount
<1> QED BY <1>8, <1>9, <1>10, <1>11 DEF plan, file, named

\* An import of panels counts each row once and, when nobody has written since it
\* read, adds the panels it reports and leaves those of the file as the file says,
\* whatever the file and the table; it never touches another panel, nor a switch.
THEOREM PanelReportIsTrue == PremisesSpec => PanelImportReported
<1>1. PremisesInit => PanelsSound
  <2> SUFFICES ASSUME PremisesInit PROVE PanelsSound
    OBVIOUS
  <2>1. panels \in PanelTables
    BY FirstPanelsAssumption DEF PremisesInit, PanelTables
  <2>2. \A m \in Managers : epc[m] = "idle"
    BY DEF PremisesInit
  <2> QED BY <2>1, <2>2 DEF PanelsSound
<1>2. PremisesInv /\ PanelsSound /\ [PremisesNext]_premisesVars => PanelsSound'
  BY PanelsSoundSteps
<1>3. PanelsSound /\ [PremisesNext]_premisesVars =>
        [\A m \in Managers : WritePanels(m) =>
           LET plan == PlanOfErrand(m)
               file == errand[m].file
               named == {r.mac : r \in ToSet(file)} \cap Macs
               there == {p \in PanelIds : IsThere(p)}
           IN /\ plan.added + plan.updated + plan.skipped + plan.errors = Len(file)
              /\ \A p \in there :
                   /\ panels'[p].enabled = panels[p].enabled
                   /\ panels[p].mac \notin named => panels'[p] = panels[p]
              /\ errand[m].seen = panels =>
                   /\ plan.added = Cardinality({p \in PanelIds : IsThere(p)'})
                                     - Cardinality(there)
                   /\ \A mac \in named : \A p \in PanelOf(panels', mac) :
                        panels'[p].cell = Told(file, mac, panels[p].cell)]_premisesVars
  BY WrittenAsReported
<1> QED BY <1>1, <1>2, <1>3, PremisesSound, PTL DEF PremisesSpec, PanelImportReported
=============================================================================
