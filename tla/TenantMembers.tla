---------------------------- MODULE TenantMembers ----------------------------
(***************************************************************************)
(* One tenant, from its creation on: its row in the main database, its own *)
(* database, the roles of its members (user_tenant_associations), and the  *)
(* workers that execute the handlers of routes/tenants.py.                 *)
(*                                                                         *)
(* A handler reads with several SELECTs and then commits one change; other *)
(* workers may commit in between (READ COMMITTED, no row is locked by a    *)
(* read).  CREATE DATABASE and the creation of the tables are committed at *)
(* once, on connections of their own: rolling back the tenant's row does   *)
(* not undo them.                                                          *)
(***************************************************************************)
EXTENDS Naturals, FiniteSets

CONSTANTS
  User,    \* active users of the platform
  Worker,  \* request handlers there may be
  NoUser   \* the user of a request that is about none

ASSUME NoUserIsNoUser == NoUser \notin User

VARIABLES
  up,        \* the workers the server was started with
  row,       \* the tenant's row: "absent", "active" or "inactive"
  database,  \* its database: "none", "empty" (tables missing) or "ready"
  role,      \* role[u]: the role of user u in the tenant, or "none"
  req        \* req[w]: the request worker w executes

vars == <<up, row, database, role, req>>

Role == {"admin", "user", "viewer"}

Idle == [pc |-> "idle", user |-> NoUser, role |-> "none"]

(* The fields are those the rest of the handler uses. *)
Request ==
  {Idle}
  \cup [pc : {"createDatabase", "createTables", "commitTenant", "checkRemoval",
              "countAdmins", "delete"},
        user : User, role : {"none"}]
  \cup [pc : {"checkAddition", "insert"}, user : User, role : Role]
  \cup [pc : {"rename", "deactivate"}, user : {NoUser}, role : {"none"}]

(* Worker w starts a request, goes on with it, or has ended it. *)
Start(w, at, u, r) ==
  /\ req[w] = Idle
  /\ req' = [req EXCEPT ![w] = [pc |-> at, user |-> u, role |-> r]]

Goto(w, to) == req' = [req EXCEPT ![w].pc = to]

Finish(w) == req' = [req EXCEPT ![w] = Idle]

Admins == {u \in User : role[u] = "admin"}

-----------------------------------------------------------------------------
(***************************************************************************)
(* POST /tenants: create_tenant                                            *)
(***************************************************************************)

(* The row is inserted and flushed; nobody else sees it. *)
CreateTenant(w, u) ==
  /\ row = "absent"
  /\ database = "none"
  /\ \A v \in Worker : req[v].pc # "createDatabase"
  /\ Start(w, "createDatabase", u, "none")
  /\ UNCHANGED <<row, database, role>>

CreateDatabase(w) ==
  /\ req[w].pc = "createDatabase"
  /\ database' = "empty"
  /\ Goto(w, "createTables")
  /\ UNCHANGED <<row, role>>

CreateTables(w) ==
  /\ req[w].pc = "createTables"
  /\ database' = "ready"
  /\ Goto(w, "commitTenant")
  /\ UNCHANGED <<row, role>>

(* A bug: the error is logged, and the tenant is committed all the same. *)
CreationErrorIgnored(w) ==
  /\ req[w].pc \in {"createDatabase", "createTables"}
  /\ Goto(w, "commitTenant")
  /\ UNCHANGED <<row, database, role>>

(* Either raises: the row is rolled back, what was created stays. *)
CreationFails(w) ==
  /\ req[w].pc \in {"createDatabase", "createTables"}
  /\ Finish(w)
  /\ UNCHANGED <<row, database, role>>

(* The row and its first member, the creator, become visible together. *)
CommitTenant(w) ==
  /\ req[w].pc = "commitTenant"
  /\ row' = "active"
  /\ role' = [role EXCEPT ![req[w].user] = "admin"]
  /\ Finish(w)
  /\ UNCHANGED database

-----------------------------------------------------------------------------
(***************************************************************************)
(* POST /tenants/<id>/users: add_user_to_tenant                            *)
(***************************************************************************)

(* require_tenant_admin has found the caller u to be an admin. *)
AddUser(w, u, v, r) ==
  /\ role[u] = "admin"
  /\ Start(w, "checkAddition", v, r)
  /\ UNCHANGED <<row, database, role>>

(* The tenant has to be active, and v no member yet. *)
CheckAddition(w) ==
  /\ req[w].pc = "checkAddition"
  /\ IF row = "active" /\ role[req[w].user] = "none"
     THEN Goto(w, "insert")
     ELSE Finish(w)
  /\ UNCHANGED <<row, database, role>>

(* A bug: the association is merged, and replaces one that is there. *)
InsertOrReplaceMember(w) ==
  /\ req[w].pc = "insert"
  /\ role' = [role EXCEPT ![req[w].user] = req[w].role]
  /\ Finish(w)
  /\ UNCHANGED <<row, database>>

(* The primary key refuses a second association: rollback, response 500. *)
InsertMember(w) ==
  /\ req[w].pc = "insert"
  /\ role' = IF role[req[w].user] = "none"
             THEN [role EXCEPT ![req[w].user] = req[w].role]
             ELSE role
  /\ Finish(w)
  /\ UNCHANGED <<row, database>>

(* process_sso_login, for a user without access to the tenant, if the      *)
(* tenant's SSO configuration provisions users.                            *)
ProvisionMember(u, r) ==
  /\ row # "absent"
  /\ role[u] = "none"
  /\ role' = [role EXCEPT ![u] = r]
  /\ UNCHANGED <<row, database, req>>

-----------------------------------------------------------------------------
(***************************************************************************)
(* DELETE /tenants/<id>/users/<user>: remove_user_from_tenant              *)
(***************************************************************************)

RemoveUser(w, u, v) ==
  /\ role[u] = "admin"
  /\ Start(w, "checkRemoval", v, "none")
  /\ UNCHANGED <<row, database, role>>

(* The association is loaded; only an admin's removal is counted. *)
CheckRemoval(w) ==
  /\ req[w].pc = "checkRemoval"
  /\ IF row = "active" /\ role[req[w].user] # "none"
     THEN Goto(w, IF role[req[w].user] = "admin" THEN "countAdmins"
                  ELSE "delete")
     ELSE Finish(w)
  /\ UNCHANGED <<row, database, role>>

(* A bug: the count admits the removal of the only admin. *)
CountAdminsOffByOne(w) ==
  /\ req[w].pc = "countAdmins"
  /\ IF Cardinality(Admins) < 1 THEN Finish(w) ELSE Goto(w, "delete")
  /\ UNCHANGED <<row, database, role>>

CountAdmins(w) ==
  /\ req[w].pc = "countAdmins"
  /\ IF Cardinality(Admins) <= 1 THEN Finish(w) ELSE Goto(w, "delete")
  /\ UNCHANGED <<row, database, role>>

(* DELETE by primary key, whatever the role is by now; a row that is gone  *)
(* only warns.                                                             *)
DeleteMember(w) ==
  /\ req[w].pc = "delete"
  /\ role' = [role EXCEPT ![req[w].user] = "none"]
  /\ Finish(w)
  /\ UNCHANGED <<row, database>>

-----------------------------------------------------------------------------
(***************************************************************************)
(* PUT /tenants/<id>: update_tenant                                        *)
(***************************************************************************)

UpdateTenant(w, u) ==
  /\ role[u] = "admin"
  /\ Start(w, "rename", NoUser, "none")
  /\ UNCHANGED <<row, database, role>>

(* An active tenant gets another name, which nothing depends on: the name  *)
(* of the database stays as it was made from the first one.                *)
Rename(w) ==
  /\ req[w].pc = "rename"
  /\ Finish(w)
  /\ UNCHANGED <<row, database, role>>

-----------------------------------------------------------------------------
(***************************************************************************)
(* DELETE /tenants/<id>: delete_tenant                                     *)
(***************************************************************************)

DeleteTenant(w, u) ==
  /\ role[u] = "admin"
  /\ Start(w, "deactivate", NoUser, "none")
  /\ UNCHANGED <<row, database, role>>

(* A soft delete: members and database stay. *)
Deactivate(w) ==
  /\ req[w].pc = "deactivate"
  /\ row' = IF row = "active" THEN "inactive" ELSE row
  /\ Finish(w)
  /\ UNCHANGED <<database, role>>

-----------------------------------------------------------------------------
(* A statement fails, or the worker process dies: nothing is committed. *)
Abort(w) ==
  /\ req[w].pc # "idle"
  /\ Finish(w)
  /\ UNCHANGED <<row, database, role>>

(* The server starts with a number of workers that stays.                  *)
Init ==
  /\ up \in SUBSET Worker
  /\ row = "absent"
  /\ database = "none"
  /\ role = [u \in User |-> "none"]
  /\ req = [w \in Worker |-> Idle]

Begin(w) ==
  \/ \E u \in User :
       CreateTenant(w, u) \/ UpdateTenant(w, u) \/ DeleteTenant(w, u)
  \/ \E u, v \in User, r \in Role : AddUser(w, u, v, r)
  \/ \E u, v \in User : RemoveUser(w, u, v)

Step(w) ==
  \/ CreateDatabase(w)
  \/ CreateTables(w)
  \/ CreationFails(w)
  \/ CommitTenant(w)
  \/ CheckAddition(w)
  \/ InsertMember(w)
  \/ CheckRemoval(w)
  \/ CountAdmins(w)
  \/ DeleteMember(w)
  \/ Rename(w)
  \/ Deactivate(w)
  \/ Abort(w)

Next ==
  /\ UNCHANGED up
  /\ \/ \E w \in up : Begin(w) \/ Step(w)
     \/ \E u \in User, r \in Role : ProvisionMember(u, r)

Spec == Init /\ [][Next]_vars

-----------------------------------------------------------------------------
(***************************************************************************)
(* Properties                                                              *)
(***************************************************************************)

TypeOK ==
  /\ up \subseteq Worker
  /\ row \in {"absent", "active", "inactive"}
  /\ database \in {"none", "empty", "ready"}
  /\ role \in [User -> Role \cup {"none"}]
  /\ req \in [Worker -> Request]

(* A tenant that can be seen has its database with all its tables, however *)
(* its creation fails or crashes half way: the work that cannot be rolled  *)
(* back comes first, the commit of the row last.                           *)
TenantHasDatabase == row # "absent" => database = "ready"

(* remove_user_from_tenant: "Admins cannot remove themselves if they are   *)
(* the last admin", and no other admin can: a tenant always has an admin.  *)
TenantHasAdmin == row # "absent" => Admins # {}

OneWorker == \A v, w \in up : v = w

(* It is so as long as one worker executes the requests, whatever the SSO  *)
(* logins beside it provision, and wherever a request fails.               *)
OneWorkerKeepsAdmin == OneWorker => TenantHasAdmin

(* A role is never changed in place: whatever additions, removals and SSO  *)
(* logins overlap, a member gets another role only by being removed first. *)
RoleIsFixed ==
  [][\A u \in User :
       role[u] # "none" => role'[u] \in {role[u], "none"}]_vars
=============================================================================
