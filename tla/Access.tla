------------------------------- MODULE Access -------------------------------
(***************************************************************************)
(* Who may use the gateway: roles with their access scopes, employees, the *)
(* accounts (table admins) they log in with, and the middleware that reads *)
(* an account's role and then the role's scopes before the handler runs.   *)
(***************************************************************************)
EXTENDS Requests, Sequences, FiniteSetsExt, SequencesExt

CONSTANTS
  Role,         \* role ids
  User,         \* user names, of employees and of accounts
  Staff,        \* the role of each user's account at first, or NoRole
  Admin,        \* the one of them who is no employee
  ScopeSets,    \* bound: the sets of scopes that roles are given
  NoRole,       \* the role of an employee, or account, that is not there
  Nobody

ASSUME NoneAssumption  == NoRole \notin Role /\ Nobody \notin User
ASSUME StaffAssumption == Staff \in [User -> Role \cup {NoRole}] /\ Admin \in User

VARIABLES
  roles,      \* the roles that exist
  scopes,     \* scopes[k]: the rows of role_access_scopes for role k
  employees,  \* employees[u]: the role of the employee named u, or NoRole
  accounts,   \* accounts[u]: the role of the account named u, or NoRole
  hired,      \* history: employees that were created under their name
  visit       \* visit[r]: who sent request r, what it asks for, the role in
              \* its token, and the role that the middleware read

accessVars == <<roles, scopes, employees, accounts, hired, visit>>

\* The scopes, and the order in which the middleware looks for a resource in
\* the path.
Resources == <<"product", "category", "file", "role", "employee", "client",
               "order", "courier">>

Scope == Range(Resources) \X {"read", "write"}

NoScope == <<"", "">>

ASSUME ScopeSetsAssumption == ScopeSets \subseteq SUBSET Scope

\* The routes that change state.  Those of the group "out" have no
\* middleware.
Route ==
  [sync_product    |-> [path |-> {"product", "sync"},  method |-> "POST"],
   sync_category   |-> [path |-> {"category", "sync"}, method |-> "POST"],
   patch_item      |-> [path |-> {"product"},          method |-> "PATCH"],
   delete_item     |-> [path |-> {"product"},          method |-> "DELETE"],
   create_role     |-> [path |-> {"role"},             method |-> "POST"],
   patch_role      |-> [path |-> {"role"},             method |-> "PATCH"],
   delete_role     |-> [path |-> {"role"},             method |-> "DELETE"],
   create_employee |-> [path |-> {"employee"},         method |-> "POST"],
   patch_employee  |-> [path |-> {"employee"},         method |-> "PATCH"],
   delete_employee |-> [path |-> {"employee"},         method |-> "DELETE"],
   send_order      |-> [path |-> {"order"},            method |-> "PUT"]]

Out == {"create_order", "pay_order"}

Op == DOMAIN Route \cup Out

AdminPC == {"create_role", "patch_role", "delete_role", "create_employee",
            "patch_employee", "delete_employee"}
AccessPC == {"read_account", "read_scopes"} \cup AdminPC

\* getRequiredPermission: the first resource that the path has.
RequiredPermission(path, method) ==
  LET hits == {k \in 1 .. Len(Resources) : Resources[k] \in path}
  IN IF hits = {} THEN NoScope
     ELSE CASE method = "GET" -> <<Resources[Min(hits)], "read">>
            [] method \in {"POST", "PUT", "PATCH", "DELETE"} ->
                 <<Resources[Min(hits)], "write">>
            [] OTHER -> NoScope

NoVisit == [user |-> Nobody, op |-> "", signed |-> NoRole, role |-> NoRole]

AccessInit ==
  /\ roles = Role \cap Range(Staff)
  /\ scopes = [k \in Role |-> IF k \in roles THEN Scope ELSE {}]
  /\ accounts = Staff
  /\ employees = [Staff EXCEPT ![Admin] = NoRole]
  /\ hired = {}
  /\ visit = [r \in Req |-> NoVisit]

tables == <<roles, scopes, employees, accounts, hired>>

----------------------------------------------------------------------------
(* The middleware                                                          *)

\* LoginAdmin gives whoever has an account a token, and accounts stay.
CanLogIn(u) == accounts[u] # NoRole

\* The request carries what GenerateJWT wrote into the token at the login.
Signed(u, op) ==
  [user |-> u, op |-> op, signed |-> accounts[u], role |-> NoRole]

\* GetUserPermissions: what the pages take for the permissions of whoever
\* carries the token.
PermissionsShown(r) == scopes[visit[r].signed]

\* A request with a token that was signed for an account arrives, or
\* one that needs no token.  Every other request is refused and is no step.
Arrive(r, op) ==
  /\ At(r, "idle")
  /\ \/ /\ op \in Out
        /\ Goto(r, op)
        /\ UNCHANGED visit
     \/ /\ op \in DOMAIN Route
        /\ \E u \in User :
             /\ CanLogIn(u)
             /\ visit' = [visit EXCEPT ![r] = Signed(u, op)]
        /\ Goto(r, "read_account")
  /\ UNCHANGED tables

Forget(r) == visit' = [visit EXCEPT ![r] = NoVisit]

Leave(r) == Goto(r, "idle") /\ Forget(r)

\* GetMe, the first query: the account joined with its role.
ReadAccount(r) ==
  /\ At(r, "read_account")
  /\ LET k == accounts[visit[r].user]
     IN \/ /\ k \in roles
           /\ visit' = [visit EXCEPT ![r].role = k]
           /\ Goto(r, "read_scopes")
        \/ (k \notin roles \/ MayFail("db")) /\ Leave(r)
  /\ UNCHANGED tables

\* A path that names no resource needs no scope.
Permitted(r) ==
  RequiredPermission(Route[visit[r].op].path, Route[visit[r].op].method)
    \in scopes[visit[r].role] \cup {NoScope}

\* GetMe, the second query; then the handler runs, or 403.
ReadScopes(r) ==
  /\ At(r, "read_scopes")
  /\ \/ Permitted(r) /\ Goto(r, visit[r].op) /\ UNCHANGED visit
     \/ (~Permitted(r) \/ MayFail("db")) /\ Leave(r)
  /\ UNCHANGED tables

----------------------------------------------------------------------------
(* Roles and employees: each request is one transaction                    *)

\* A transaction that fails is rolled back.
RollBack == UNCHANGED tables

CreateRole(r) ==
  /\ At(r, "create_role")
  /\ \/ \E k \in Role \ roles, s \in ScopeSets :
          /\ roles' = roles \cup {k}
          /\ scopes' = [scopes EXCEPT ![k] = s]
          /\ UNCHANGED <<employees, accounts, hired>>
     \/ RollBack
  /\ Leave(r)

\* The scopes are deleted and inserted again.
PatchRole(r) ==
  /\ At(r, "patch_role")
  /\ \/ \E k \in roles, s \in ScopeSets :
          /\ scopes' = [scopes EXCEPT ![k] = s]
          /\ UNCHANGED <<roles, employees, accounts, hired>>
     \/ RollBack
  /\ Leave(r)

UnusedByEmployees(k) == \A u \in User : employees[u] # k

\* The foreign keys of employees and admins.
Unused(k) == \A u \in User : employees[u] # k /\ accounts[u] # k

DeleteRole(r) ==
  /\ At(r, "delete_role")
  /\ \/ \E k \in roles :
          /\ Unused(k)
          /\ roles' = roles \ {k}
          /\ scopes' = [scopes EXCEPT ![k] = {}]
          /\ UNCHANGED <<employees, accounts, hired>>
     \/ RollBack
  /\ Leave(r)

HireUnlessNamed(u, k) ==
  /\ employees[u] = NoRole
  /\ employees' = [employees EXCEPT ![u] = k]
  /\ accounts' = IF accounts[u] = NoRole /\ ~MayFail("db")
                   THEN [accounts EXCEPT ![u] = k] ELSE accounts

\* Both rows are inserted, or none: the names are unique in both tables, and
\* an account outlives its employee.
Hire(u, k) ==
  /\ employees[u] = NoRole /\ accounts[u] = NoRole
  /\ employees' = [employees EXCEPT ![u] = k]
  /\ accounts' = [accounts EXCEPT ![u] = k]

CreateEmployee(r) ==
  /\ At(r, "create_employee")
  /\ \/ \E u \in User, k \in roles :
          /\ Hire(u, k)
          /\ hired' = hired \cup {u}
          /\ UNCHANGED <<roles, scopes>>
     \/ RollBack
  /\ Leave(r)

\* An employee gets another role or another name; the account keeps its own.
PatchEmployee(r) ==
  /\ At(r, "patch_employee")
  /\ \/ \E u \in User :
          /\ employees[u] # NoRole
          /\ \/ \E k \in roles :
                  employees' = [employees EXCEPT ![u] = k] /\ UNCHANGED hired
             \/ \E w \in User :
                  /\ employees[w] = NoRole
                  /\ employees' = [employees EXCEPT ![w] = employees[u],
                                                    ![u] = NoRole]
                  /\ hired' = hired \ {u, w}
          /\ UNCHANGED <<roles, scopes, accounts>>
     \/ RollBack
  /\ Leave(r)

\* The account stays.
DeleteEmployee(r) ==
  /\ At(r, "delete_employee")
  /\ \/ \E u \in User :
          /\ employees' = [employees EXCEPT ![u] = NoRole]
          /\ hired' = hired \ {u}
          /\ UNCHANGED <<roles, scopes, accounts>>
     \/ RollBack
  /\ Leave(r)

AccessStep(r) ==
  \/ ReadAccount(r) \/ ReadScopes(r)
  \/ CreateRole(r) \/ PatchRole(r) \/ DeleteRole(r)
  \/ CreateEmployee(r) \/ PatchEmployee(r) \/ DeleteEmployee(r)

----------------------------------------------------------------------------
AccessTypeOK ==
  /\ roles \subseteq Role
  /\ scopes \in [Role -> SUBSET Scope]
  /\ employees \in [User -> Role \cup {NoRole}]
  /\ accounts \in [User -> Role \cup {NoRole}]
  /\ hired \subseteq User
  /\ visit \in [Req -> [user : User \cup {Nobody}, op : Op \cup {""},
                        signed : Role \cup {NoRole}, role : Role \cup {NoRole}]]

\* The scopes that a request was checked against are those of the role that
\* its account has, that role is still there, and they are the permissions
\* that the pages show, although the middleware reads role and scopes in
\* separate queries, and the pages go by a token that may be old, while roles
\* and employees are edited and deleted (Perm, GetMe, GetUserPermissions, the
\* foreign keys of the tables).
ServedUnderOwnRole ==
  \A r \in Req :
    visit[r].role # NoRole =>
      /\ visit[r].role \in roles /\ accounts[visit[r].user] = visit[r].role
      /\ PermissionsShown(r) = scopes[visit[r].role]

\* Who was hired can log in, until the employee is given another name
\* (employee_repo.Create: one transaction over two tables).
HiredHaveAccounts ==
  \A u \in hired : employees[u] # NoRole /\ CanLogIn(u)
=============================================================================
