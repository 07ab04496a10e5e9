------------------------------ MODULE Accounts ------------------------------
(***************************************************************************)
(* Users, roles and who may do what: middleware.py, routers/users.py, the  *)
(* role pages of routers/settings.py, user_repository.py and               *)
(* role_repository.py.                                                     *)
(*                                                                         *)
(* A visitor is a browser session; each has one request at a time.  The    *)
(* reads a route makes are one step, the transactions that change accounts *)
(* take the row locks they take.  Passwords, names and descriptions are    *)
(* left out: nothing is decided by them.                                   *)
(***************************************************************************)
EXTENDS Naturals, FiniteSets

CONSTANTS Users, NoUser, Visitors,
          CustomRoles,   \* rows of roles a role page may create
          MaxRequests    \* bound on requests

ASSUME NoUserAssumption == NoUser \notin Users
ASSUME CustomRolesAssumption ==
  {"admin", "operator", "lookup"} \cap CustomRoles = {}
ASSUME MaxRequestsAssumption == MaxRequests \in Nat

VARIABLES users,    \* users: there, active, role
          roles,    \* roles: there, permissions (role_permissions)
          visit,    \* the session of a visitor: user_id, training_mode
          apc,      \* control point of a visitor's request
          form,     \* what the request asks for
          seen,     \* rows a statement of the request has seen
          held,     \* users whose rows the request has locked
          requests

accountsVars == <<users, roles, visit, apc, form, seen, held, requests>>

\* SYSTEM_ROLES; "viewer" is one more like "operator" and left out.
SystemRoles == {"admin", "operator", "lookup"}
Roles == SystemRoles \cup CustomRoles

\* The permissions the model tells apart, and ADMIN_CRITICAL_PERMISSIONS.
Permissions == {"search", "view", "users", "settings", "keys"}
Critical == {"search", "view", "users", "settings"}

\* What a system role may do when it is created.
Defaults(role) ==
  CASE role = "admin"    -> Permissions
    [] role = "operator" -> {"search", "view", "keys"}
    [] OTHER             -> {"search"}

NoForm == [op |-> "none", who |-> NoUser, role |-> "lookup", active |-> FALSE,
           chosen |-> {}]

ActiveAdmins == {u \in Users : users[u].there /\ users[u].active
                                              /\ users[u].role = "admin"}

AccountsInit ==
  /\ users \in [Users -> [there : {TRUE}, active : {TRUE},
                          role : {"admin", "operator"}]]
  /\ ActiveAdmins # {}
  /\ roles = [r \in Roles |->
                [there       |-> r \in SystemRoles,
                 permissions |-> IF r \in SystemRoles THEN Defaults(r) ELSE {}]]
  /\ visit \in [Visitors -> [user : Users, training : {FALSE}]]
  /\ apc = [v \in Visitors |-> "idle"]
  /\ form = [v \in Visitors |-> NoForm]
  /\ seen = [v \in Visitors |-> {}]
  /\ held = [v \in Visitors |-> {}]
  /\ requests = 0

-----------------------------------------------------------------------------
(* The middleware.                                                         *)

Known(v) == visit[v].user # NoUser
            /\ users[visit[v].user].there /\ users[visit[v].user].active

\* has_permission, with the permissions read for this request.
May(v, permission) ==
  Known(v) /\ permission \in roles[users[visit[v].user].role].permissions

PermissionFor(op) ==
  IF op \in {"add", "update", "switch", "delete"} THEN "users" ELSE "settings"

Continue(v, label) == apc' = [apc EXCEPT ![v] = label]

Depart(v) ==
  /\ Continue(v, "idle")
  /\ form' = [form EXCEPT ![v] = NoForm]
  /\ held' = [held EXCEPT ![v] = {}]

Done(v) == Depart(v) /\ seen' = [seen EXCEPT ![v] = {}]

\* The forms of the user pages and of the role pages.
Forms ==
  [op : {"add", "update"}, who : Users, role : Roles, active : {TRUE},
   chosen : {{}}]
  \cup [op : {"switch"}, who : Users, role : {"lookup"}, active : BOOLEAN,
        chosen : {{}}]
  \cup [op : {"delete"}, who : Users, role : {"lookup"}, active : {FALSE},
        chosen : {{}}]
  \cup [op : {"permit"}, who : {NoUser}, role : Roles, active : {FALSE},
        chosen : {{}, {"search", "users"}, {"view", "settings"}}]
  \cup [op : {"addRole"}, who : {NoUser}, role : CustomRoles, active : {FALSE},
        chosen : {{"view", "users"}}]
  \cup [op : {"dropRole"}, who : {NoUser}, role : Roles, active : {FALSE},
        chosen : {{}}]

\* AuthMiddleware.dispatch lets a request for a changing page pass.
Dispatch(v) ==
  /\ requests < MaxRequests /\ requests' = requests + 1
  /\ apc[v] = "idle" /\ Known(v)
  /\ users[visit[v].user].role # "lookup" /\ ~visit[v].training
  /\ \E f \in Forms :
       /\ May(v, PermissionFor(f.op))
       /\ form' = [form EXCEPT ![v] = f]
  /\ Continue(v, "route")
  /\ UNCHANGED <<users, roles, visit, seen, held>>

\* A user that is gone or disabled loses the session with the next request.
SessionCleared(v) ==
  /\ apc[v] = "idle" /\ visit[v].user # NoUser /\ ~Known(v)
  /\ visit' = [visit EXCEPT ![v] = [user |-> NoUser, training |-> FALSE]]
  /\ UNCHANGED <<users, roles, apc, form, seen, held, requests>>

\* login; training_mode of the session stays as it is.
Login(v, u) ==
  /\ apc[v] = "idle" /\ visit[v].user = NoUser
  /\ users[u].there /\ users[u].active
  /\ visit' = [visit EXCEPT ![v].user = u]
  /\ UNCHANGED <<users, roles, apc, form, seen, held, requests>>

\* The middleware lets /logout pass like any page one may view: a session in
\* training mode cannot be left.
Logout(v) ==
  /\ apc[v] = "idle" /\ Known(v)
  /\ \/ users[visit[v].user].role = "lookup"
     \/ May(v, "view") /\ ~visit[v].training
  /\ visit' = [visit EXCEPT ![v] = [user |-> NoUser, training |-> FALSE]]
  /\ UNCHANGED <<users, roles, apc, form, seen, held, requests>>

\* training_mode_toggle, which training mode itself lets pass.
ToggleTraining(v) ==
  /\ apc[v] = "idle"
  /\ May(v, "settings") /\ users[visit[v].user].role # "lookup"
  /\ visit' = [visit EXCEPT ![v].training = ~@]
  /\ UNCHANGED <<users, roles, apc, form, seen, held, requests>>

\* The worker is lost with a request, or PostgreSQL ends it for a deadlock: its
\* transaction is rolled back.
LoseRequest(v) ==
  /\ apc[v] # "idle"
  /\ Done(v)
  /\ UNCHANGED <<users, roles, visit, requests>>

-----------------------------------------------------------------------------
(* The routes: what they read before they call the repository.             *)

LastAdmin(u) == ActiveAdmins = {u}

UserPageAdmits(v) ==
  LET f == form[v]
      me == visit[v].user
  IN CASE f.op = "add"    -> roles[f.role].there /\ ~users[f.who].there
       [] f.op = "update" -> /\ users[f.who].there /\ roles[f.role].there
                             /\ f.who = me => f.role = users[me].role
                             /\ f.role # "admin" => ~LastAdmin(f.who)
       [] f.op = "switch" -> /\ users[f.who].there
                             /\ ~f.active => f.who # me /\ ~LastAdmin(f.who)
       [] OTHER           -> /\ users[f.who].there
                             /\ f.who # me /\ ~LastAdmin(f.who)

\* delete_role looks at is_system and at the users of the role.
RolePageAdmits(v) ==
  LET f == form[v]
  IN CASE f.op = "permit"  -> roles[f.role].there
       [] f.op = "addRole" -> ~roles[f.role].there
       [] OTHER -> /\ roles[f.role].there /\ f.role \notin SystemRoles
                   /\ \A u \in Users : users[u].there => users[u].role # f.role

Admitted(v) ==
  /\ May(v, PermissionFor(form[v].op))
  /\ IF PermissionFor(form[v].op) = "users" THEN UserPageAdmits(v)
                                            ELSE RolePageAdmits(v)

Refuse(v) ==
  /\ apc[v] = "route" /\ ~Admitted(v)
  /\ Done(v)
  /\ UNCHANGED <<users, roles, visit, requests>>

FirstStep(op) ==
  CASE op \in {"update", "switch", "delete"} -> "lock"
    [] op = "add"                            -> "insertUser"
    [] op = "permit"                         -> "rows"
    [] op = "addRole"                        -> "insertRole"
    [] OTHER                                 -> "dropRole"

Admit(v) ==
  /\ apc[v] = "route" /\ Admitted(v)
  /\ Continue(v, FirstStep(form[v].op))
  /\ UNCHANGED <<users, roles, visit, form, seen, held, requests>>

-----------------------------------------------------------------------------
(* Changing accounts: the rows of the active administrators are locked     *)
(* before the last one is looked for.                                      *)

LockedByOthers(v) == UNION {held[w] : w \in Visitors \ {v}}

\* Mutant of StillAdmins: the rows are taken as they were before the wait.
AdminsSeen(v) == seen[v]

\* READ COMMITTED: a row that was waited for is read again.
StillAdmins(v) == seen[v] \cap ActiveAdmins

\* SELECT ... FOR UPDATE OF u finds its rows, then waits for their locks.
SelectAdmins(v) ==
  /\ apc[v] = "lock"
  /\ seen' = [seen EXCEPT ![v] = ActiveAdmins]
  /\ Continue(v, "wait")
  /\ UNCHANGED <<users, roles, visit, form, held, requests>>

LockAdmins(v) ==
  /\ apc[v] = "wait"
  /\ seen[v] \cap LockedByOthers(v) = {}
  /\ seen' = [seen EXCEPT ![v] = StillAdmins(v)]
  /\ held' = [held EXCEPT ![v] = StillAdmins(v)]
  /\ Continue(v, "change")
  /\ UNCHANGED <<users, roles, visit, form, requests>>

\* The last active administrator is not demoted, disabled or deleted.
TakesLastAdmin(v) ==
  LET f == form[v]
  IN /\ users[f.who].there /\ users[f.who].role = "admin" /\ users[f.who].active
     /\ seen[v] = {f.who}
     /\ CASE f.op = "update" -> f.role # "admin"
          [] f.op = "switch" -> ~f.active
          [] OTHER           -> TRUE

Changed(f) ==
  CASE f.op = "update" -> [users EXCEPT ![f.who].role = f.role]
    [] f.op = "switch" -> [users EXCEPT ![f.who].active = f.active]
    [] OTHER           -> [users EXCEPT ![f.who] = [there |-> FALSE,
                                          active |-> FALSE, role |-> "lookup"]]

\* update_user, set_user_active, delete_user; a role that has been deleted or a
\* user who is gone ends the transaction.
ChangeUser(v) ==
  LET f == form[v]
  IN /\ apc[v] = "change"
     /\ f.who \notin LockedByOthers(v)
     /\ users' = IF \/ ~users[f.who].there \/ TakesLastAdmin(v)
                    \/ f.op = "update" /\ ~roles[f.role].there
                 THEN users ELSE Changed(f)
     /\ Done(v)
     /\ UNCHANGED <<roles, visit, requests>>

\* create_user
InsertUser(v) ==
  LET f == form[v]
  IN /\ apc[v] = "insertUser"
     /\ users' = IF users[f.who].there \/ ~roles[f.role].there THEN users
                 ELSE [users EXCEPT ![f.who] =
                         [there |-> TRUE, active |-> TRUE, role |-> f.role]]
     /\ Done(v)
     /\ UNCHANGED <<roles, visit, requests>>

-----------------------------------------------------------------------------
(* Changing roles.                                                         *)

\* set_role_permissions keeps the administrators in charge.
Selected(role, chosen) ==
  CASE role = "admin"  -> chosen \cup Critical
    [] role = "lookup" -> {"search"}
    [] OTHER           -> chosen

\* create_role commits the role before its permissions.
InsertRole(v) ==
  LET r == form[v].role
  IN /\ apc[v] = "insertRole"
     /\ roles' = [roles EXCEPT ![r].there = TRUE]
     /\ Continue(v, "rows")
     /\ UNCHANGED <<users, visit, form, seen, held, requests>>

\* DELETE FROM role_permissions finds the rows of the role ...
FindRows(v) ==
  /\ apc[v] = "rows"
  /\ IF roles[form[v].role].there
       THEN /\ seen' = [seen EXCEPT ![v] = roles[form[v].role].permissions]
            /\ Continue(v, "locks")
            /\ UNCHANGED <<form, held>>
       ELSE Done(v)
  /\ UNCHANGED <<users, roles, visit, requests>>

\* Rows others have deleted and not committed yet.
DeletedByOthers(v) ==
  UNION {seen[w] : w \in {x \in Visitors \ {v} :
           apc[x] = "permissions" /\ form[x].role = form[v].role}}

\* ... waits for their locks and deletes those that are left.
DeleteRows(v) ==
  /\ apc[v] = "locks"
  /\ seen[v] \cap DeletedByOthers(v) = {}
  /\ Continue(v, "permissions")
  /\ UNCHANGED <<users, roles, visit, form, seen, held, requests>>

\* The rows v has deleted are gone for good: who waits for them skips them, and
\* does not see the rows that v has inserted in their place.
Commit(v, deleted) ==
  /\ Depart(v)
  /\ seen' = [w \in Visitors |->
       IF w = v THEN {}
       ELSE IF apc[w] = "locks" /\ form[w].role = form[v].role
              THEN seen[w] \ deleted ELSE seen[w]]

\* Rows the DELETE has not found are still there.
Kept(v) == roles[form[v].role].permissions \ seen[v]

\* The primary key of role_permissions refuses a row that is there already, the
\* foreign key a role that has been deleted.
InsertRows(v) ==
  LET r == form[v].role
      chosen == Selected(r, form[v].chosen)
  IN /\ apc[v] = "permissions"
     /\ IF roles[r].there /\ Kept(v) \cap chosen = {}
          THEN /\ roles' = [roles EXCEPT ![r].permissions = Kept(v) \cup chosen]
               /\ Commit(v, seen[v])
          ELSE Done(v) /\ UNCHANGED roles
     /\ UNCHANGED <<users, visit, requests>>

\* The foreign key of users refuses to lose a role that is in use; the rows of
\* its permissions go with it, when nobody else is deleting them.
DropRole(v) ==
  LET r == form[v].role
  IN /\ apc[v] = "dropRole"
     /\ DeletedByOthers(v) = {}
     /\ IF \E u \in Users : users[u].there /\ users[u].role = r
          THEN Done(v) /\ UNCHANGED roles
          ELSE /\ roles' = [roles EXCEPT ![r] = [there |-> FALSE, permissions |-> {}]]
               /\ Commit(v, Permissions)
     /\ UNCHANGED <<users, visit, requests>>

\* ensure_system_roles at the start of a process fills what is empty.
SeedRoles ==
  /\ roles' = [r \in Roles |->
                 IF r \in SystemRoles /\ roles[r].permissions = {}
                   THEN [there |-> TRUE, permissions |-> Defaults(r)]
                   ELSE roles[r]]
  /\ UNCHANGED <<users, visit, apc, form, seen, held, requests>>

-----------------------------------------------------------------------------
AccountsNext ==
  \/ \E v \in Visitors :
       \/ Dispatch(v) \/ SessionCleared(v) \/ Logout(v) \/ ToggleTraining(v)
       \/ LoseRequest(v)
       \/ \E u \in Users : Login(v, u)
       \/ Refuse(v) \/ Admit(v)
       \/ SelectAdmins(v) \/ LockAdmins(v) \/ ChangeUser(v) \/ InsertUser(v)
       \/ InsertRole(v) \/ FindRows(v) \/ DeleteRows(v) \/ InsertRows(v) \/ DropRole(v)
  \/ SeedRoles

AccountsSpec == AccountsInit /\ [][AccountsNext]_accountsVars

-----------------------------------------------------------------------------
(* Properties.                                                             *)

\* An active administrator who may manage the users and the settings.
AdministratorLeft ==
  ActiveAdmins # {} /\ {"users", "settings"} \subseteq roles["admin"].permissions

\* The guard looks at the administrators its SELECT ... FOR UPDATE returns; a
\* statement whose rows all ceased to be administrators before it locked them
\* returns none, and who became one meanwhile is not among them.
FoundNone(v) == apc[v] = "change" /\ seen[v] = {}

\* However requests interleave, nobody takes the last administrator who may
\* manage users and settings away (user_repository.py:86-102, docs/database.md:
\* 119-120), unless a change has found no administrator at all to look at.
AdministratorStays ==
  [][AdministratorLeft /\ ~AdministratorLeft'
       => \E v \in Visitors : FoundNone(v) /\ apc'[v] = "idle"]_accountsVars
=============================================================================
