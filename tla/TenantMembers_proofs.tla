------------------------- MODULE TenantMembers_proofs -------------------------
(***************************************************************************)
(* Proofs about TenantMembers, for any sets of users and workers.          *)
(***************************************************************************)
EXTENDS TenantMembers, FiniteSetTheorems, TLAPS

-----------------------------------------------------------------------------
(* Type correctness *)

LEMMA InitType == Init => TypeOK
  BY DEF Init, TypeOK, Request, Idle, Role

(* A request that goes on remains a request. *)
LEMMA GotoType ==
  ASSUME TypeOK, NEW w \in Worker,
         \/ req[w].pc = "createDatabase" /\ Goto(w, "createTables")
         \/ req[w].pc = "createTables" /\ Goto(w, "commitTenant")
         \/ req[w].pc = "checkAddition" /\ Goto(w, "insert")
         \/ req[w].pc = "checkRemoval" /\ Goto(w, "countAdmins")
         \/ req[w].pc \in {"checkRemoval", "countAdmins"} /\ Goto(w, "delete")
  PROVE  req' \in [Worker -> Request]
  BY DEF TypeOK, Goto, Request, Idle

LEMMA FinishType ==
  ASSUME TypeOK, NEW w \in Worker, Finish(w)
  PROVE  req' \in [Worker -> Request]
  BY DEF TypeOK, Finish, Request

LEMMA BeginType ==
  ASSUME TypeOK, NEW w \in Worker, UNCHANGED up, Begin(w)
  PROVE  TypeOK'
  <1>1. ASSUME NEW u \in User, CreateTenant(w, u)
        PROVE  TypeOK'
    BY <1>1 DEF CreateTenant, Start, TypeOK, Request
  <1>2. ASSUME NEW u \in User, DeleteTenant(w, u)
        PROVE  TypeOK'
    BY <1>2 DEF DeleteTenant, Start, TypeOK, Request
  <1>2a. ASSUME NEW u \in User, UpdateTenant(w, u)
         PROVE  TypeOK'
    BY <1>2a DEF UpdateTenant, Start, TypeOK, Request
  <1>3. ASSUME NEW u \in User, NEW v \in User, NEW r \in Role,
               AddUser(w, u, v, r)
        PROVE  TypeOK'
    BY <1>3 DEF AddUser, Start, TypeOK, Request
  <1>4. ASSUME NEW u \in User, NEW v \in User, RemoveUser(w, u, v)
        PROVE  TypeOK'
    BY <1>4 DEF RemoveUser, Start, TypeOK, Request
  <1>5. QED
    BY <1>1, <1>2, <1>2a, <1>3, <1>4 DEF Begin

LEMMA StepType ==
  ASSUME TypeOK, NEW w \in Worker, UNCHANGED up, Step(w)
  PROVE  TypeOK'
  <1>1. CASE CreateDatabase(w) \/ CreateTables(w)
    BY <1>1, GotoType DEF CreateDatabase, CreateTables, TypeOK
  <1>2. CASE CheckAddition(w) \/ CheckRemoval(w) \/ CountAdmins(w)
    BY <1>2, GotoType, FinishType
    DEF CheckAddition, CheckRemoval, CountAdmins, TypeOK
  <1>3. CASE CreationFails(w) \/ Rename(w) \/ Abort(w) \/ Deactivate(w)
    BY <1>3, FinishType DEF CreationFails, Rename, Abort, Deactivate, TypeOK
  <1>4. CASE CommitTenant(w)
    BY <1>4, FinishType DEF CommitTenant, TypeOK, Role
  <1>5. CASE InsertMember(w)
    <2>1. req[w].role \in Role
      BY <1>5 DEF InsertMember, TypeOK, Request, Idle
    <2>2. QED
      BY <1>5, <2>1, FinishType DEF InsertMember, TypeOK
  <1>6. CASE DeleteMember(w)
    BY <1>6, FinishType DEF DeleteMember, TypeOK
  <1>7. QED
    BY <1>1, <1>2, <1>3, <1>4, <1>5, <1>6 DEF Step

LEMMA NextType == TypeOK /\ [Next]_vars => TypeOK'
  <1>1. ASSUME TypeOK, UNCHANGED vars
        PROVE  TypeOK'
    BY <1>1 DEF TypeOK, vars
  <1>2. ASSUME TypeOK, UNCHANGED up,
               NEW u \in User, NEW r \in Role, ProvisionMember(u, r)
        PROVE  TypeOK'
    BY <1>2 DEF ProvisionMember, TypeOK
  <1>3. TypeOK => up \subseteq Worker
    BY DEF TypeOK
  <1>4. QED
    BY <1>1, <1>2, <1>3, BeginType, StepType DEF Next

(* Every variable has its type, and every request has the fields that the  *)
(* rest of its handler uses.                                               *)
THEOREM TypeCorrect == Spec => []TypeOK
  <1>1. QED
    BY InitType, NextType, PTL DEF Spec

-----------------------------------------------------------------------------
(* The tenant's database *)

Creating(w) == req[w].pc \in {"createDatabase", "createTables", "commitTenant"}

(* At most one request creates the tenant, and the database is as far as   *)
(* that request is.                                                        *)
CreationInv ==
  /\ TypeOK
  /\ row # "absent" => database = "ready"
  /\ \A w \in Worker :
       Creating(w) =>
         /\ row = "absent"
         /\ database = CASE req[w].pc = "createDatabase" -> "none"
                         [] req[w].pc = "createTables" -> "empty"
                         [] req[w].pc = "commitTenant" -> "ready"
         /\ \A v \in Worker \ {w} : ~Creating(v)

LEMMA InitCreation == Init => CreationInv
  BY InitType DEF Init, CreationInv, Creating, Idle

(* Nobody is a member before the tenant is committed, so requests other    *)
(* than its creation leave it alone.                                       *)
LEMMA NextCreation == CreationInv /\ [Next]_vars => CreationInv'
  <1> SUFFICES ASSUME CreationInv, [Next]_vars
               PROVE  CreationInv'
    OBVIOUS
  <1>1. TypeOK'
    BY NextType DEF CreationInv
  <1>2. CASE UNCHANGED vars
    BY <1>1, <1>2 DEF CreationInv, Creating, vars
  <1>3. ASSUME NEW w \in Worker, NEW u \in User, CreateTenant(w, u)
        PROVE  CreationInv'
    BY <1>1, <1>3
    DEF CreationInv, Creating, CreateTenant, Start, Idle, TypeOK
  <1>4. ASSUME NEW w \in Worker, UNCHANGED <<row, database>>,
               ~Creating(w)', \A v \in Worker \ {w} : req'[v] = req[v]
        PROVE  CreationInv'
    BY <1>1, <1>4 DEF CreationInv, Creating
  <1>5. ASSUME NEW w \in Worker, CreateDatabase(w)
        PROVE  CreationInv'
    BY <1>1, <1>5 DEF CreationInv, Creating, CreateDatabase, Goto, TypeOK,
       Request, Idle
  <1>6. ASSUME NEW w \in Worker, CreateTables(w)
        PROVE  CreationInv'
    BY <1>1, <1>6 DEF CreationInv, Creating, CreateTables, Goto, TypeOK,
       Request, Idle
  <1>7. ASSUME NEW w \in Worker, CommitTenant(w)
        PROVE  CreationInv'
    BY <1>1, <1>7 DEF CreationInv, Creating, CommitTenant, Finish, TypeOK,
       Idle
  <1>8. ASSUME NEW w \in Worker, Deactivate(w)
        PROVE  CreationInv'
    BY <1>1, <1>8 DEF CreationInv, Creating, Deactivate, Finish, TypeOK, Idle
  <1>9. ASSUME NEW w \in Worker,
               \/ Begin(w) /\ \A u \in User : ~CreateTenant(w, u)
               \/ CreationFails(w) \/ CheckAddition(w) \/ InsertMember(w)
               \/ CheckRemoval(w) \/ CountAdmins(w) \/ DeleteMember(w)
               \/ Rename(w) \/ Abort(w)
        PROVE  /\ UNCHANGED <<row, database>>
               /\ ~Creating(w)'
               /\ \A v \in Worker \ {w} : req'[v] = req[v]
    <2>1. CASE Begin(w) /\ \A u \in User : ~CreateTenant(w, u)
      BY <2>1 DEF Begin, DeleteTenant, UpdateTenant, AddUser, RemoveUser,
         Start, Creating, CreationInv, TypeOK
    <2>2. CASE CreationFails(w) \/ InsertMember(w) \/ DeleteMember(w)
                 \/ Rename(w) \/ Abort(w)
      BY <2>2 DEF CreationFails, InsertMember, DeleteMember, Rename, Abort,
         Finish, Idle, Creating, CreationInv, TypeOK
    <2>3. CASE CheckAddition(w) \/ CheckRemoval(w) \/ CountAdmins(w)
      BY <2>3 DEF CheckAddition, CheckRemoval, CountAdmins, Finish, Goto,
         Idle, Creating, CreationInv, TypeOK, Request
    <2>4. QED
      BY <1>9, <2>1, <2>2, <2>3
  <1>10. ASSUME NEW u \in User, NEW r \in Role, ProvisionMember(u, r)
         PROVE  CreationInv'
    BY <1>1, <1>10 DEF CreationInv, Creating, ProvisionMember
  <1>11. up \subseteq Worker
    BY DEF CreationInv, TypeOK
  <1>12. QED
    BY <1>2, <1>3, <1>4, <1>5, <1>6, <1>7, <1>8, <1>9, <1>10, <1>11
    DEF Next, Begin, Step

(* A tenant that can be seen has its database with all its tables.         *)
THEOREM TenantsHaveDatabases == Spec => []TenantHasDatabase
  <1>1. CreationInv => TenantHasDatabase
    BY DEF CreationInv, TenantHasDatabase
  <1>2. QED
    BY <1>1, InitCreation, NextCreation, PTL DEF Spec

-----------------------------------------------------------------------------
(* Roles do not change in place *)

(* Before its commit, a tenant has no members: nobody could be an admin    *)
(* who adds one, and no SSO login finds the tenant.                        *)
MemberInv ==
  /\ CreationInv
  /\ row = "absent" => \A u \in User : role[u] = "none"

(* Additions that pass their check find the tenant active.                 *)
AdditionInv ==
  /\ MemberInv
  /\ row = "absent" => \A w \in Worker : req[w].pc # "insert"

LEMMA NextAddition == AdditionInv /\ [Next]_vars => AdditionInv'
  <1> SUFFICES ASSUME AdditionInv, [Next]_vars
               PROVE  AdditionInv'
    OBVIOUS
  <1>1. CreationInv' /\ TypeOK /\ up \subseteq Worker
    BY NextCreation DEF AdditionInv, MemberInv, CreationInv, TypeOK
  <1>2. CASE UNCHANGED vars
    BY <1>1, <1>2 DEF AdditionInv, MemberInv, vars
  <1>3. ASSUME NEW w \in Worker, Begin(w)
        PROVE  AdditionInv'
    <2>1. /\ UNCHANGED <<row, role>>
          /\ req'[w].pc # "insert"
          /\ \A v \in Worker \ {w} : req'[v] = req[v]
      BY <1>1, <1>3 DEF Begin, CreateTenant, DeleteTenant, UpdateTenant,
         AddUser, RemoveUser, Start, TypeOK
    <2>2. QED
      BY <1>1, <2>1 DEF AdditionInv, MemberInv
  <1>4. ASSUME NEW w \in Worker,
               \/ CreateDatabase(w) \/ CreateTables(w) \/ CreationFails(w)
               \/ CheckRemoval(w) \/ CountAdmins(w) \/ Rename(w) \/ Abort(w)
        PROVE  AdditionInv'
    <2>1. /\ UNCHANGED <<row, role>>
          /\ req'[w].pc # "insert"
          /\ \A v \in Worker \ {w} : req'[v] = req[v]
      BY <1>1, <1>4 DEF CreateDatabase, CreateTables, CreationFails,
         CheckRemoval, CountAdmins, Rename, Abort, Goto, Finish, Idle, TypeOK,
         Request
    <2>2. QED
      BY <1>1, <2>1 DEF AdditionInv, MemberInv
  <1>5. ASSUME NEW w \in Worker, CommitTenant(w)
        PROVE  AdditionInv'
    BY <1>1, <1>5 DEF CommitTenant, AdditionInv, MemberInv
  <1>6. ASSUME NEW w \in Worker, CheckAddition(w)
        PROVE  AdditionInv'
    <2>1. /\ UNCHANGED <<row, role>>
          /\ row = "absent" => req'[w].pc # "insert"
          /\ \A v \in Worker \ {w} : req'[v] = req[v]
      BY <1>1, <1>6 DEF CheckAddition, Goto, Finish, Idle, TypeOK
    <2>2. QED
      BY <1>1, <2>1 DEF AdditionInv, MemberInv
  <1>7. ASSUME NEW w \in Worker,
               InsertMember(w) \/ DeleteMember(w) \/ Deactivate(w)
        PROVE  AdditionInv'
    <2>1. /\ row' = "absent" => row = "absent"
          /\ req'[w].pc # "insert"
          /\ \A v \in Worker \ {w} : req'[v] = req[v]
      BY <1>1, <1>7 DEF InsertMember, DeleteMember, Deactivate, Finish, Idle,
         TypeOK
    <2>2. ASSUME row = "absent", NEW u \in User
          PROVE  role'[u] = "none"
      BY <1>1, <1>7, <2>2
      DEF InsertMember, DeleteMember, Deactivate, AdditionInv, MemberInv,
          TypeOK
    <2>3. QED
      BY <1>1, <2>1, <2>2 DEF AdditionInv, MemberInv
  <1>8. ASSUME NEW u \in User, NEW r \in Role, ProvisionMember(u, r)
        PROVE  AdditionInv'
    BY <1>1, <1>8 DEF ProvisionMember, AdditionInv, MemberInv
  <1>9. QED
    BY <1>1, <1>2, <1>3, <1>4, <1>5, <1>6, <1>7, <1>8 DEF Next, Step

(* A member gets another role only by being removed first.                 *)
THEOREM RolesAreFixed == Spec => RoleIsFixed
  <1>1. Init => AdditionInv
    BY InitCreation DEF Init, AdditionInv, MemberInv, Idle
  <1>2. ASSUME AdditionInv, [Next]_vars
        PROVE  [\A u \in User :
                  role[u] # "none" => role'[u] \in {role[u], "none"}]_vars
    <2>1. TypeOK /\ up \subseteq Worker
      BY <1>2 DEF AdditionInv, MemberInv, CreationInv, TypeOK
    <2>2. ASSUME NEW w \in Worker, CommitTenant(w)
          PROVE  \A u \in User : role[u] = "none"
      BY <1>2, <2>2 DEF CommitTenant, AdditionInv, MemberInv, CreationInv,
         Creating
    <2>3. ASSUME NEW w \in Worker, Begin(w) \/ Step(w), ~CommitTenant(w)
          PROVE  \A u \in User :
                   role[u] # "none" => role'[u] \in {role[u], "none"}
      BY <2>1, <2>3 DEF Begin, CreateTenant, DeleteTenant, UpdateTenant,
         AddUser, RemoveUser, Step, CreateDatabase, CreateTables, CreationFails,
         CheckAddition, InsertMember, CheckRemoval, CountAdmins,
         DeleteMember, Deactivate, Rename, Abort, TypeOK
    <2>4. ASSUME NEW v \in User, NEW r \in Role, ProvisionMember(v, r)
          PROVE  \A u \in User :
                   role[u] # "none" => role'[u] \in {role[u], "none"}
      BY <2>1, <2>4 DEF ProvisionMember, TypeOK
    <2>5. QED
      BY <1>2, <2>1, <2>2, <2>3, <2>4 DEF Next
  <1>3. QED
    BY <1>1, <1>2, NextAddition, PTL DEF Spec, RoleIsFixed

-----------------------------------------------------------------------------
(* The last admin *)

(* Who is deleted next leaves an admin behind. *)
AdminInv ==
  /\ TypeOK
  /\ TenantHasAdmin
  /\ \A w \in Worker :
       req[w].pc = "delete" /\ row # "absent" =>
         \E u \in Admins : u # req[w].user

(* A worker that was not started stays idle. *)
OneWorkerInv ==
  /\ TypeOK
  /\ \A w \in Worker \ up : req[w] = Idle
  /\ OneWorker => AdminInv

LEMMA InitAdmin == Init => OneWorkerInv
  BY InitType DEF Init, OneWorkerInv, AdminInv, TenantHasAdmin, Idle

(* A step changes the request of one worker, which was started. *)
LEMMA OthersStay ==
  ASSUME TypeOK, NEW w \in Worker, Begin(w) \/ Step(w)
  PROVE  \A v \in Worker \ {w} : req'[v] = req[v]
  <1>1. \E r : req' = [req EXCEPT ![w] = r]
    BY DEF Begin, CreateTenant, DeleteTenant, UpdateTenant, AddUser,
       RemoveUser, Start, Step, CreateDatabase, CreateTables, CreationFails, CommitTenant,
       CheckAddition, InsertMember, CheckRemoval, CountAdmins, DeleteMember,
       Deactivate, Rename, Abort, Goto, Finish
  <1>2. QED
    BY <1>1 DEF TypeOK

LEMMA NextIdle ==
  ASSUME OneWorkerInv, [Next]_vars
  PROVE  /\ UNCHANGED up
         /\ \A w \in Worker \ up : req'[w] = Idle
  <1>1. UNCHANGED up
    BY DEF Next, vars
  <1>2. CASE UNCHANGED vars
    BY <1>1, <1>2 DEF OneWorkerInv, vars
  <1>3. ASSUME NEW w \in up, Begin(w) \/ Step(w)
        PROVE  \A v \in Worker \ up : req'[v] = Idle
    BY <1>3, OthersStay DEF OneWorkerInv, TypeOK
  <1>4. ASSUME NEW u \in User, NEW r \in Role, ProvisionMember(u, r)
        PROVE  \A v \in Worker \ up : req'[v] = Idle
    BY <1>4 DEF ProvisionMember, OneWorkerInv
  <1>5. QED
    BY <1>1, <1>2, <1>3, <1>4 DEF Next

(* A count above one finds an admin besides any given user. *)
LEMMA AnotherAdmin ==
  ASSUME ~(Cardinality(Admins) <= 1), NEW x
  PROVE  \E u \in Admins : u # x
  <1>1. SUFFICES ASSUME \A u \in Admins : u = x
                 PROVE  FALSE
    OBVIOUS
  <1>2. Admins = {} \/ Admins = {x}
    BY <1>1
  <1>3. QED
    BY <1>2, FS_EmptySet, FS_Singleton

LEMMA NextAdmin ==
  ASSUME OneWorkerInv, [Next]_vars, OneWorker
  PROVE  AdminInv'
  <1>a. AdminInv /\ up \subseteq Worker
    BY DEF OneWorkerInv, TypeOK
  <1>1. TypeOK'
    BY NextType DEF OneWorkerInv
  <1>2. ASSUME NEW w \in up, NEW v \in Worker \ {w}
        PROVE  req'[v].pc # "delete"
    BY <1>2, NextIdle DEF OneWorker, Idle
  <1>0. CASE UNCHANGED vars
    BY <1>a, <1>0 DEF AdminInv, TypeOK, TenantHasAdmin, Admins, vars
  <1> USE <1>a
  <1>3. ASSUME NEW w \in up, Begin(w)
        PROVE  AdminInv'
    <2>1. UNCHANGED <<row, role>> /\ req'[w].pc # "delete"
      BY <1>3 DEF Begin, CreateTenant, DeleteTenant, UpdateTenant, AddUser,
         RemoveUser, Start, AdminInv, TypeOK
    <2>2. QED
      BY <1>1, <1>2, <2>1 DEF AdminInv, TenantHasAdmin, Admins
  <1>4. ASSUME NEW w \in up,
               \/ CreateDatabase(w) \/ CreateTables(w) \/ CreationFails(w)
               \/ CheckAddition(w) \/ Deactivate(w) \/ Rename(w) \/ Abort(w)
        PROVE  AdminInv'
    <2>1. /\ role' = role
          /\ row' # "absent" => row # "absent"
          /\ req'[w].pc # "delete"
      BY <1>4 DEF CreateDatabase, CreateTables, CreationFails, CheckAddition,
         Deactivate, Rename, Abort, Goto, Finish, Idle, AdminInv, TypeOK,
         Request
    <2>2. QED
      BY <1>1, <1>2, <2>1 DEF AdminInv, TenantHasAdmin, Admins
  <1>5. ASSUME NEW w \in up, CommitTenant(w)
        PROVE  AdminInv'
    <2>1. req[w].user \in User /\ req'[w].pc # "delete"
      BY <1>5 DEF CommitTenant, Finish, AdminInv, TypeOK, Request, Idle
    <2>2. req[w].user \in Admins'
      BY <1>5, <2>1 DEF CommitTenant, Admins, AdminInv, TypeOK
    <2>3. QED
      BY <1>1, <1>2, <2>1, <2>2 DEF AdminInv, TenantHasAdmin
  <1>6. ASSUME NEW w \in up, InsertMember(w)
        PROVE  AdminInv'
    <2>1. row' = row /\ Admins \subseteq Admins' /\ req'[w].pc # "delete"
      BY <1>6 DEF InsertMember, Finish, Idle, Admins, AdminInv, TypeOK
    <2>2. QED
      BY <1>1, <1>2, <2>1 DEF AdminInv, TenantHasAdmin
  <1>7. ASSUME NEW w \in up, CheckRemoval(w)
        PROVE  AdminInv'
    <2>1. UNCHANGED <<row, role>>
      BY <1>7 DEF CheckRemoval
    <2>2. ASSUME req'[w].pc = "delete", row # "absent"
          PROVE  \E u \in Admins : u # req'[w].user
      BY <1>7, <2>2 DEF CheckRemoval, Goto, Finish, Idle, AdminInv, TypeOK,
         TenantHasAdmin, Admins, Request
    <2>3. QED
      BY <1>1, <1>2, <2>1, <2>2 DEF AdminInv, TenantHasAdmin, Admins
  <1>8. ASSUME NEW w \in up, CountAdmins(w)
        PROVE  AdminInv'
    <2>1. UNCHANGED <<row, role>>
      BY <1>8 DEF CountAdmins
    <2>2. ASSUME req'[w].pc = "delete"
          PROVE  \E u \in Admins : u # req'[w].user
      BY <1>8, <2>2, AnotherAdmin
      DEF CountAdmins, Finish, Idle, AdminInv, TypeOK
    <2>3. QED
      BY <1>1, <1>2, <2>1, <2>2 DEF AdminInv, TenantHasAdmin, Admins
  <1>9. ASSUME NEW w \in up, DeleteMember(w)
        PROVE  AdminInv'
    <2>1. /\ row' = row
          /\ role' = [role EXCEPT ![req[w].user] = "none"]
          /\ req'[w].pc # "delete"
      BY <1>9 DEF DeleteMember, Finish, Idle, AdminInv, TypeOK
    <2>2. ASSUME NEW u \in Admins, u # req[w].user
          PROVE  u \in Admins'
      BY <2>1, <2>2 DEF Admins, AdminInv, TypeOK
    <2>3. QED
      BY <1>1, <1>2, <1>9, <2>1, <2>2
      DEF AdminInv, TenantHasAdmin, DeleteMember
  <1>10. ASSUME NEW u \in User, NEW r \in Role, ProvisionMember(u, r)
         PROVE  AdminInv'
    <2>1. UNCHANGED <<row, req>> /\ Admins \subseteq Admins'
      BY <1>10 DEF ProvisionMember, Admins, AdminInv, TypeOK
    <2>2. QED
      BY <1>1, <1>2, <2>1 DEF AdminInv, TenantHasAdmin
  <1>11. QED
    BY <1>0, <1>3, <1>4, <1>5, <1>6, <1>7, <1>8, <1>9, <1>10 DEF Next, Step

(* With one worker, a tenant never loses its last admin.                   *)
THEOREM LastAdminStays == Spec => []OneWorkerKeepsAdmin
  <1>1. OneWorkerInv => OneWorkerKeepsAdmin
    BY DEF OneWorkerInv, AdminInv, OneWorkerKeepsAdmin
  <1>2. ASSUME OneWorkerInv, [Next]_vars
        PROVE  OneWorkerInv'
    <2>1. TypeOK'
      BY <1>2, NextType DEF OneWorkerInv
    <2>2. OneWorker' => OneWorker
      BY <1>2, NextIdle DEF OneWorker
    <2>3. QED
      BY <1>2, <2>1, <2>2, NextIdle, NextAdmin DEF OneWorkerInv
  <1>3. QED
    BY <1>1, <1>2, InitAdmin, PTL DEF Spec
=============================================================================
