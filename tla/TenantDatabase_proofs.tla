------------------------ MODULE TenantDatabase_proofs -------------------------
(***************************************************************************)
(* Proofs about the database of a tenant.  TenantMigrations: its row and   *)
(* database go together, and the history of its schema tells the truth,    *)
(* for any number of processes and migrations.  FileService: documents keep*)
(* their files, the cleanup deletes no document, and it misses few files,  *)
(* for any sets of files, documents and clients.                           *)
(*                                                                         *)
(* The two modules share neither a variable nor a step: each has its own   *)
(* half of this one.                                                       *)
(***************************************************************************)
EXTENDS TenantMigrations, FileService, FiniteSetTheorems, FunctionTheorems,
        WellFoundedInduction, TLAPS

-----------------------------------------------------------------------------
(***************************************************************************)
(* TenantMigrations                                                        *)
(***************************************************************************)

-----------------------------------------------------------------------------
(***************************************************************************)
(* The inductive invariant                                                 *)
(***************************************************************************)

(* What is recorded is a beginning of the versions. *)
Contiguous == rows = {} \/ \E k \in 0..Target : rows = 0..k

(* A run is at a version only after the one before it was recorded. *)
InOrder ==
  \A m \in Process :
    migr[m].pc \in {"run", "insert", "commit"}
      => migr[m].version = 1 \/ migr[m].version - 1 \in rows

(* A version that is inserted and not committed is not recorded, and no    *)
(* other run has inserted it: the primary key sees to both.                *)
InsertedOnce ==
  \A m \in Process : migr[m].pc = "commit"
    => /\ rows # {}
       /\ migr[m].version \notin rows
       /\ \A n \in Process :
            migr[n].pc = "commit" /\ migr[n].version = migr[m].version => n = m

(* A run that has ended well has seen the last version. *)
DoneAtTarget ==
  \A m \in Process :
    migr[m].pc = "done" /\ database # "none" => Target \in rows

(* The versions are rows of the database. *)
RowsInDatabase == database = "none" => rows = {}

(* Who creates the tenant is alone with it: nobody else can read its row.  *)
AloneWhileCreating ==
  \A p \in Process :
    call[p] \in {"database", "tables", "migrate"}
      => row = "none" /\ \A q \in Process \ {p} : call[q] = "idle"

(* What a call has found or done by the statement it is at. *)
Stages ==
  \A p \in Process :
    /\ call[p] = "database" => database = "none"
    /\ call[p] = "tables" => database = "empty"
    /\ call[p] = "migrate" => database = "tables"
    /\ call[p] = "delete" => database = "none"
    /\ call[p] \in {"activate", "deactivate", "drop", "delete"}
         => row # "none"

(* Nothing is migrated before there are tables. *)
Untouched ==
  row = "none" /\ database # "tables"
    => \A m \in Process : migr[m].pc = "idle"

History ==
  /\ Contiguous
  /\ InOrder
  /\ InsertedOnce
  /\ DoneAtTarget
  /\ RecordedOnce
  /\ RowsInDatabase

Tenant ==
  /\ AloneWhileCreating
  /\ Stages
  /\ RowMatchesDatabase
  /\ Untouched

IInv == TypeOK /\ History /\ Tenant

-----------------------------------------------------------------------------

(* The last version of a history without gaps. *)
LEMMA CurrentIsLast ==
  ASSUME TypeOK, Contiguous, rows # {}
  PROVE  /\ Current \in rows
         /\ Current \in 0..Target
         /\ rows = 0..Current
PROOF
  <1>1. PICK k \in 0..Target : rows = 0..k
    BY DEF Contiguous
  <1>2. k \in rows /\ \A u \in rows : u <= k
    BY <1>1, TargetAssumption
  <1>3. Current \in rows /\ \A u \in rows : u <= Current
    BY <1>2 DEF Current
  <1>4. Current = k
    BY <1>1, <1>2, <1>3, TargetAssumption
  <1> QED
    BY <1>1, <1>2, <1>4

(* A step of the migrations leaves the tenant as it is. *)
LEMMA TenantKept ==
  ASSUME IInv, NEW m \in Process, UNCHANGED tenantVars,
         \A n \in Process \ {m} : migr'[n] = migr[n],
         migr[m].pc # "idle" \/ row # "none"
  PROVE  Tenant'
PROOF
  <1>1. AloneWhileCreating' /\ Stages' /\ RowMatchesDatabase'
    BY DEF IInv, Tenant, AloneWhileCreating, Stages, RowMatchesDatabase,
           tenantVars
  <1>2. Untouched'
    BY DEF IInv, Tenant, Untouched, tenantVars
  <1> QED
    BY <1>1, <1>2 DEF Tenant

(* A step that only moves a run, and inserts no version.                   *)
LEMMA MoveKeeps ==
  ASSUME IInv, NEW m \in Process, NEW to \in State, NEW v \in Version,
         \/ Goto(m, to) /\ v = migr[m].version
         \/ GotoVersion(m, to, v),
         rows' = rows, applied' = applied, UNCHANGED tenantVars,
         migr[m].pc # "idle" \/ row # "none",
         to \in {"run", "insert"} => v = 1 \/ v - 1 \in rows,
         to # "commit",
         to = "done" => Target \in rows
  PROVE  IInv'
PROOF
  <1>1. TypeOK'
    BY DEF IInv, TypeOK, Goto, GotoVersion, tenantVars
  <1>2. Contiguous' /\ RecordedOnce'
    BY DEF IInv, History, Contiguous, RecordedOnce, Recorded
  <1>3. \A n \in Process :
          IF n = m THEN migr'[n].pc = to /\ migr'[n].version = v
                   ELSE migr'[n] = migr[n]
    BY DEF IInv, History, TypeOK, Goto, GotoVersion
  <1>4. InOrder'
    BY <1>3 DEF IInv, History, InOrder
  <1>5. InsertedOnce'
    BY <1>3 DEF IInv, History, InsertedOnce
  <1>6. DoneAtTarget' /\ RowsInDatabase'
    BY <1>3 DEF IInv, History, DoneAtTarget, RowsInDatabase, tenantVars
  <1>7. Tenant'
    BY <1>3, TenantKept
  <1> QED
    BY <1>1, <1>2, <1>4, <1>5, <1>6, <1>7 DEF IInv, History

(* The first row of the table changes nothing for the versions after it.   *)
LEMMA CreateVersionTableKeeps ==
  ASSUME IInv, NEW m \in Process, CreateVersionTable(m)
  PROVE  IInv'
PROOF
  <1>1. rows' = rows \/ (rows = {} /\ database # "none" /\ rows' = {0})
    BY DEF CreateVersionTable
  <1>2. applied' = applied /\ UNCHANGED tenantVars
    BY DEF CreateVersionTable
  <1>3. PICK to \in {"read", "idle", "run"}, v \in Version :
          /\ \A n \in Process :
               IF n = m THEN migr'[n].pc = to /\ migr'[n].version = v
                        ELSE migr'[n] = migr[n]
          /\ to = "run" => v = 1
          /\ migr' \in [Process -> [pc : State, version : Version]]
    <2>1. migr[m].version \in Version /\ 1 \in Version
      BY TargetAssumption DEF IInv, History, TypeOK, Version
    <2>2. CASE Goto(m, "read")
      BY <2>1, <2>2 DEF IInv, History, TypeOK, Goto, State
    <2>3. CASE Goto(m, "idle")
      BY <2>1, <2>3 DEF IInv, History, TypeOK, Goto, State
    <2>4. CASE GotoVersion(m, "run", 1)
      BY <2>1, <2>4 DEF IInv, History, TypeOK, GotoVersion, State
    <2> QED
      BY <2>2, <2>3, <2>4 DEF CreateVersionTable
  <1>4. TypeOK'
    <2>1. 0 \in 0..Target
      BY TargetAssumption
    <2>2. rows' \subseteq 0..Target
      BY <1>1, <2>1 DEF IInv, History, TypeOK
    <2> QED
      BY <1>2, <1>3, <2>2 DEF IInv, TypeOK, tenantVars
  <1>5. Contiguous'
    <2>1. CASE rows' = {0}
      <3>1. 0 \in 0..Target /\ rows' = 0..0
        BY <2>1, TargetAssumption
      <3> QED
        BY <3>1 DEF Contiguous
    <2>2. CASE rows' = rows
      BY <2>2 DEF IInv, History, Contiguous
    <2> QED
      BY <1>1, <2>1, <2>2
  <1>6. RecordedOnce'
    BY <1>1, <1>2 DEF IInv, History, RecordedOnce, Recorded, Version
  <1>7. InOrder'
    BY <1>1, <1>3 DEF IInv, History, InOrder
  <1>8. InsertedOnce'
    BY <1>1, <1>3 DEF IInv, History, InsertedOnce
  <1>9. DoneAtTarget' /\ RowsInDatabase'
    BY <1>1, <1>2, <1>3
    DEF IInv, History, DoneAtTarget, RowsInDatabase, tenantVars
  <1>10. Tenant'
    <2>1. migr[m].pc # "idle"
      BY DEF CreateVersionTable
    <2> QED
      BY <1>2, <1>3, <2>1, TenantKept
  <1> QED
    BY <1>4, <1>5, <1>6, <1>7, <1>8, <1>9, <1>10 DEF IInv, History

(* The primary key refuses a version that is recorded; who has inserted it *)
(* and not committed is waited for.                                        *)
LEMMA InsertVersionKeeps ==
  ASSUME IInv, NEW m \in Process, InsertVersion(m)
  PROVE  IInv'
PROOF
  <1>1. CASE Goto(m, "error")
    BY <1>1, MoveKeeps DEF InsertVersion, IInv, History, TypeOK, State
  <1>2. CASE Goto(m, "commit") /\ rows # {} /\ migr[m].version \notin rows
    <2>1. UNCHANGED <<tenantVars, rows, applied>> /\ migr[m].pc = "insert"
      BY DEF InsertVersion
    <2>2. \A n \in Process :
            IF n = m THEN migr'[n].pc = "commit"
                            /\ migr'[n].version = migr[n].version
                     ELSE migr'[n] = migr[n]
      BY <1>2 DEF IInv, History, TypeOK, Goto
    <2>3. TypeOK'
      BY <1>2, <2>1 DEF IInv, TypeOK, Goto, State, tenantVars
    <2>4. Contiguous' /\ RecordedOnce'
      BY <2>1 DEF IInv, History, Contiguous, RecordedOnce, Recorded
    <2>5. InOrder'
      BY <2>1, <2>2 DEF IInv, History, InOrder
    <2>6. \A n \in Process :
            ~(migr[n].pc = "commit" /\ migr[n].version = migr[m].version)
      BY DEF InsertVersion, VersionInsertedBy
    <2>7. InsertedOnce'
      BY <1>2, <2>1, <2>2, <2>6 DEF IInv, History, InsertedOnce
    <2>8. DoneAtTarget' /\ RowsInDatabase'
      BY <2>1, <2>2 DEF IInv, History, DoneAtTarget, RowsInDatabase, tenantVars
    <2>9. Tenant'
      BY <2>1, <2>2, TenantKept
    <2> QED
      BY <2>3, <2>4, <2>5, <2>7, <2>8, <2>9 DEF IInv, History
  <1> QED
    BY <1>1, <1>2 DEF InsertVersion

(* A commit records the version that follows the last one.                 *)
LEMMA CommitMigrationKeeps ==
  ASSUME IInv, NEW m \in Process, CommitMigration(m)
  PROVE  IInv'
PROOF
  <1> DEFINE v == migr[m].version
  <1>1. /\ v \in Version /\ v \notin rows /\ rows # {}
        /\ v = 1 \/ v - 1 \in rows
        /\ rows' = rows \cup {v}
        /\ applied' = [applied EXCEPT ![v] = @ + 1]
        /\ UNCHANGED tenantVars
    BY DEF CommitMigration, IInv, History, TypeOK, InOrder, InsertedOnce
  <1>2. PICK k \in 0..Target : rows = 0..k
    BY <1>1 DEF IInv, History, Contiguous
  <1>3. v = k + 1
    BY <1>1, <1>2, TargetAssumption DEF Version
  <1>4. rows' = 0..v /\ v \in 0..Target
    BY <1>1, <1>2, <1>3, TargetAssumption DEF Version
  <1>5. PICK to \in {"done", "run"}, u \in Version :
          /\ \A n \in Process :
               IF n = m THEN migr'[n].pc = to /\ migr'[n].version = u
                        ELSE migr'[n] = migr[n]
          /\ to = "run" => u = v + 1
          /\ to = "done" => v = Target
          /\ migr' \in [Process -> [pc : State, version : Version]]
    <2>1. CASE v = Target
      BY <1>1, <2>1, SMTT(30)
      DEF CommitMigration, IInv, History, TypeOK, Goto, State
    <2>2. CASE v # Target
      <3>1. v + 1 \in Version
        BY <1>1, <2>2, TargetAssumption DEF Version
      <3> QED
        BY <1>1, <2>2, <3>1
        DEF CommitMigration, IInv, History, TypeOK, GotoVersion, State
    <2> QED
      BY <2>1, <2>2
  <1>6. TypeOK'
    BY <1>1, <1>4, <1>5, TargetAssumption DEF IInv, TypeOK, tenantVars
  <1>7. Contiguous'
    BY <1>4 DEF Contiguous
  <1>8. InOrder'
    BY <1>1, <1>5 DEF IInv, History, InOrder, TypeOK, Version
  <1>9. InsertedOnce'
    <2>1. \A n \in Process \ {m} :
            migr[n].pc = "commit" => migr[n].version # v
      BY DEF IInv, History, InsertedOnce, CommitMigration
    <2> QED
      BY <1>1, <1>5, <2>1 DEF IInv, History, InsertedOnce
  <1>10. DoneAtTarget' /\ RowsInDatabase'
    BY <1>1, <1>5
    DEF IInv, History, DoneAtTarget, RowsInDatabase, tenantVars
  <1>11. RecordedOnce'
    BY <1>1 DEF IInv, History, TypeOK, RecordedOnce, Recorded
  <1>12. Tenant'
    <2>1. migr[m].pc # "idle"
      BY DEF CommitMigration
    <2> QED
      BY <1>1, <1>5, <2>1, TenantKept
  <1> QED
    BY <1>6, <1>7, <1>8, <1>9, <1>10, <1>11, <1>12 DEF IInv, History

-----------------------------------------------------------------------------

LEMMA InitIInv == Init => IInv
PROOF
  <1> SUFFICES ASSUME Init PROVE IInv
    OBVIOUS
  <1>1. TypeOK
    <2>1. 1 \in Version
      BY TargetAssumption DEF Version
    <2>2. migr \in [Process -> [pc : State, version : Version]]
      BY <2>1 DEF Init, State
    <2> QED
      BY <2>2 DEF Init, TypeOK, Call, Existing
  <1>2. History
    BY DEF Init, History, Contiguous, InOrder, InsertedOnce, DoneAtTarget,
           RecordedOnce, Recorded, RowsInDatabase
  <1>3. Tenant
    BY DEF Init, Tenant, AloneWhileCreating, Stages, RowMatchesDatabase,
           Untouched, Existing
  <1> QED
    BY <1>1, <1>2, <1>3 DEF IInv

LEMMA StepKeeps ==
  ASSUME IInv, NEW m \in Process, Start(m) \/ Step(m)
  PROVE  IInv'
PROOF
  <1>1. migr[m].version \in Version /\ 1 \in Version
    BY TargetAssumption DEF IInv, History, TypeOK, Version
  <1>2. CASE Start(m)
    BY <1>1, <1>2, MoveKeeps DEF Start, State, Existing
  <1>4. CASE ReadFails(m)
    <2>1. \E to \in {"planTable", "table"} : Goto(m, to)
      BY <1>4 DEF ReadFails
    <2> QED
      BY <1>1, <1>4, <2>1, MoveKeeps DEF ReadFails, State
  <1>5. CASE Plan(m)
    <2>1. rows # {} /\ Current \in rows /\ Current \in 0..Target
      BY <1>5, CurrentIsLast DEF Plan, IInv, History
    <2>2. CASE Current >= Target /\ Goto(m, "done")
      <3>1. Target \in rows
        BY <2>1, <2>2, TargetAssumption
      <3> QED
        BY <1>1, <1>5, <2>2, <3>1, MoveKeeps DEF Plan, State
    <2>3. CASE Goto(m, "read") \/ Goto(m, "idle")
      BY <1>1, <1>5, <2>3, MoveKeeps DEF Plan, State
    <2> QED
      BY <1>5, <2>2, <2>3 DEF Plan
  <1>6. CASE Read(m)
    <2>1. rows # {} /\ Current \in rows /\ Current \in 0..Target
      BY <1>6, CurrentIsLast DEF Read, IInv, History
    <2>2. CASE Current >= Target
      <3>1. Target \in rows /\ Goto(m, "done")
        BY <1>6, <2>1, <2>2, TargetAssumption DEF Read
      <3> QED
        BY <1>1, <1>6, <3>1, MoveKeeps DEF Read, State
    <2>3. CASE ~(Current >= Target)
      <3>1. /\ GotoVersion(m, "run", Current + 1)
            /\ Current + 1 \in Version
            /\ (Current + 1) - 1 \in rows
        BY <1>6, <2>1, <2>3, TargetAssumption DEF Read, Version
      <3> QED
        BY <1>6, <3>1, MoveKeeps DEF Read, State
    <2> QED
      BY <2>2, <2>3
  <1>7. CASE RunMigration(m)
    BY <1>1, <1>7, MoveKeeps DEF RunMigration, State, IInv, History, InOrder
  <1>8. CASE MigrationFails(m)
    BY <1>1, <1>8, MoveKeeps DEF MigrationFails, State
  <1> QED
    BY <1>2, <1>4, <1>5, <1>6, <1>7, <1>8, CreateVersionTableKeeps,
       InsertVersionKeeps, CommitMigrationKeeps DEF Step

(* A call that leaves the versions and the runs alone keeps the history, as *)
(* long as the database does not come or go.                               *)
LEMMA HistoryKept ==
  ASSUME IInv, UNCHANGED <<rows, applied, migr>>,
         database' = "none" => rows = {},
         database = "none" /\ database' # "none"
           => \A m \in Process : migr[m].pc # "done"
  PROVE  History'
PROOF
  <1>1. Contiguous' /\ InOrder' /\ InsertedOnce' /\ RecordedOnce'
    BY DEF IInv, History, Contiguous, InOrder, InsertedOnce, RecordedOnce,
           Recorded
  <1>2. DoneAtTarget' /\ RowsInDatabase'
    BY DEF IInv, History, DoneAtTarget, RowsInDatabase
  <1> QED
    BY <1>1, <1>2 DEF History

(* The steps of the creation: its caller is alone.                         *)
LEMMA CreationKeeps ==
  ASSUME IInv, NEW p \in Process,
         CreateTenant(p) \/ CreateDatabase(p) \/ CreationFails(p)
           \/ CommitCreation(p)
  PROVE  IInv'
PROOF
  <1> USE DEF Continue
  <1>1. UNCHANGED <<pool, dropped, rows, applied, migr>>
    BY DEF CreateTenant, CreateDatabase, CreationFails, CommitCreation
  <1>2. call[p] # "idle" => \A q \in Process \ {p} : call[q] = "idle"
    BY DEF IInv, Tenant, AloneWhileCreating, CreateTenant, CreateDatabase,
           CreationFails, CommitCreation
  <1>3. TypeOK'
    BY <1>1 DEF IInv, TypeOK, Call, Existing, CreateTenant, CreateDatabase,
                CreationFails, CommitCreation
  <1>4. History'
    BY <1>1, HistoryKept
    DEF IInv, History, RowsInDatabase, Tenant, Untouched, Stages,
        AloneWhileCreating, CreateTenant, CreateDatabase, CreationFails,
        CommitCreation
  <1>5. Tenant'
    <2>1. CASE CreateTenant(p)
      BY <1>1, <2>1
      DEF CreateTenant, IInv, TypeOK, Tenant, AloneWhileCreating, Stages,
          RowMatchesDatabase, Untouched, Existing
    <2>2. CASE CreateDatabase(p)
      BY <1>1, <1>2, <2>2
      DEF CreateDatabase, IInv, TypeOK, Tenant, AloneWhileCreating, Stages,
          RowMatchesDatabase, Untouched, Existing
    <2>3. CASE CreationFails(p)
      BY <1>1, <1>2, <2>3
      DEF CreationFails, IInv, TypeOK, Tenant, AloneWhileCreating, Stages,
          RowMatchesDatabase, Untouched, Existing
    <2>4. CASE CommitCreation(p)
      BY <1>1, <1>2, <2>4
      DEF CommitCreation, IInv, TypeOK, Tenant, AloneWhileCreating, Stages,
          RowMatchesDatabase, Untouched, Existing
    <2> QED
      BY <2>1, <2>2, <2>3, <2>4
  <1> QED
    BY <1>3, <1>4, <1>5 DEF IInv

(* The tables are there, and the first run may begin. *)
LEMMA CreateTablesKeeps ==
  ASSUME IInv, NEW p \in Process, CreateTables(p)
  PROVE  IInv'
PROOF
  <1> USE DEF Continue, GotoVersion
  <1>1. /\ call[p] = "tables" /\ row = "none" /\ database = "empty"
        /\ \A q \in Process \ {p} : call[q] = "idle"
        /\ \A m \in Process : migr[m].pc = "idle"
    BY DEF CreateTables, IInv, Tenant, AloneWhileCreating, Stages, Untouched
  <1>2. TypeOK'
    <2>1. 1 \in Version /\ "read" \in State /\ "migrate" \in Call
      BY TargetAssumption DEF Version, State, Call
    <2>2. migr' \in [Process -> [pc : State, version : Version]]
      BY <2>1 DEF CreateTables, IInv, TypeOK
    <2>3. call' \in [Process -> Call]
      BY <2>1 DEF CreateTables, IInv, TypeOK
    <2> QED
      BY <2>2, <2>3 DEF CreateTables, IInv, TypeOK
  <1>3. History'
    BY <1>1
    DEF CreateTables, IInv, TypeOK, History, Contiguous, InOrder,
        InsertedOnce, DoneAtTarget, RecordedOnce, Recorded, RowsInDatabase
  <1>4. Tenant'
    BY <1>1
    DEF CreateTables, IInv, TypeOK, Tenant, AloneWhileCreating, Stages,
        RowMatchesDatabase, Untouched, Existing
  <1> QED
    BY <1>2, <1>3, <1>4 DEF IInv

(* Calls on a tenant that exists, but for the drop, and its requests. *)
LEMMA UpdateKeeps ==
  ASSUME IInv, NEW p \in Process,
         FindTenant(p) \/ CommitUpdate(p) \/ DeleteFails(p) \/ DeleteRow(p)
           \/ Serve(p)
  PROVE  IInv'
PROOF
  <1> USE DEF Continue
  <1>1. UNCHANGED <<database, dropped, rows, applied, migr>>
    BY DEF FindTenant, CommitUpdate, DeleteFails, DeleteRow, Serve
  <1>2. row # "none" /\ row' # "none" /\ (row = "deleted" => row' = "deleted")
    <2>1. call[p] \in {"activate", "deactivate", "drop", "delete"}
            => row # "none"
      BY DEF IInv, Tenant, Stages
    <2>2. CASE FindTenant(p) \/ Serve(p)
      BY <2>2 DEF Existing, FindTenant, Serve
    <2>3. CASE CommitUpdate(p)
      <3>1. row # "none"
        BY <2>1, <2>3 DEF CommitUpdate
      <3>2. IF row = "deleted" THEN row' = row
                               ELSE row' \in {"active", "inactive"}
        BY <2>3 DEF CommitUpdate
      <3> QED
        BY <3>1, <3>2
    <2>4. CASE DeleteFails(p) \/ DeleteRow(p)
      BY <2>1, <2>4 DEF DeleteFails, DeleteRow
    <2> QED
      BY <2>2, <2>3, <2>4
  <1>3. TypeOK'
    BY <1>1 DEF IInv, TypeOK, Call, Existing, FindTenant, CommitUpdate,
                DeleteFails, DeleteRow, Serve
  <1>4. History'
    BY <1>1, HistoryKept DEF IInv, History, RowsInDatabase
  <1>5. Tenant'
    <2>1. \A q \in Process :
            call'[q] \notin {"database", "tables", "migrate"}
      BY <1>2
      DEF IInv, TypeOK, Tenant, AloneWhileCreating, FindTenant, CommitUpdate,
          DeleteFails, DeleteRow, Serve
    <2>2. \A q \in Process : call'[q] = "delete" => database = "none"
      BY DEF IInv, TypeOK, Tenant, Stages, FindTenant, CommitUpdate,
             DeleteFails, DeleteRow, Serve
    <2>3. RowMatchesDatabase'
      BY <1>1, <1>2
      DEF IInv, TypeOK, Tenant, Stages, RowMatchesDatabase, Existing,
          FindTenant, CommitUpdate, DeleteFails, DeleteRow, Serve
    <2> QED
      BY <1>1, <1>2, <2>1, <2>2, <2>3
      DEF Tenant, AloneWhileCreating, Stages, Untouched
  <1> QED
    BY <1>3, <1>4, <1>5 DEF IInv

(* The database is dropped while no run is connected to it. *)
LEMMA DropDatabaseKeeps ==
  ASSUME IInv, NEW p \in Process, DropDatabase(p)
  PROVE  IInv'
PROOF
  <1> USE DEF Continue
  <1>1. call[p] = "drop" /\ row # "none"
    BY DEF DropDatabase, IInv, Tenant, Stages
  <1>2. TypeOK'
    BY DEF DropDatabase, IInv, TypeOK, Call
  <1>3. \A m \in Process :
          /\ migr[m].pc # "commit"
          /\ migr[m].pc \in {"run", "insert"} => migr[m].version = 1
    <2>1. CASE database = "none"
      BY <2>1 DEF IInv, History, InOrder, InsertedOnce, RowsInDatabase
    <2>2. CASE database # "none"
      BY <2>2 DEF DropDatabase, InUse, Connected, Ended
    <2> QED
      BY <2>1, <2>2
  <1>4. History'
    BY <1>3, TargetAssumption
    DEF DropDatabase, History, Contiguous, InOrder, InsertedOnce,
        DoneAtTarget, RecordedOnce, Recorded, RowsInDatabase
  <1>5. Tenant'
    BY <1>1
    DEF DropDatabase, IInv, TypeOK, Tenant, AloneWhileCreating, Stages,
        RowMatchesDatabase, Untouched
  <1> QED
    BY <1>2, <1>4, <1>5 DEF IInv

(* A crash ends the call and the run of a process. *)
LEMMA CrashKeeps ==
  ASSUME IInv, NEW p \in Process, Crash(p)
  PROVE  IInv'
PROOF
  <1> USE DEF Continue, Goto
  <1>1. UNCHANGED <<row, database, dropped, rows, applied>>
    BY DEF Crash
  <1>2. \A m \in Process :
          IF m = p THEN migr'[m].pc = "idle" /\ call'[m] = "idle"
                   ELSE migr'[m] = migr[m] /\ call'[m] = call[m]
    BY DEF Crash, IInv, TypeOK
  <1>3. TypeOK'
    BY DEF Crash, IInv, TypeOK, Call, State
  <1>4. History'
    BY <1>1, <1>2
    DEF IInv, History, Contiguous, InOrder, InsertedOnce, DoneAtTarget,
        RecordedOnce, Recorded, RowsInDatabase
  <1>5. Tenant'
    BY <1>1, <1>2
    DEF IInv, Tenant, AloneWhileCreating, Stages, RowMatchesDatabase,
        Untouched
  <1> QED
    BY <1>3, <1>4, <1>5 DEF IInv

LEMMA NextIInv == IInv /\ [Next]_vars => IInv'
PROOF
  <1> SUFFICES ASSUME IInv, [Next]_vars PROVE IInv'
    OBVIOUS
  <1>1. CASE Next
    BY <1>1, StepKeeps, CreationKeeps, CreateTablesKeeps, UpdateKeeps,
       DropDatabaseKeeps, CrashKeeps DEF Next, Service
  <1>2. CASE UNCHANGED vars
    BY <1>2
    DEF vars, tenantVars, IInv, TypeOK, History, Contiguous, InOrder,
        InsertedOnce, DoneAtTarget, RecordedOnce, Recorded, RowsInDatabase,
        Tenant, AloneWhileCreating, Stages, RowMatchesDatabase, Untouched
  <1> QED
    BY <1>1, <1>2

(* The inductive invariant of the calls and the runs.                      *)
THEOREM Invariant == Spec => []IInv
PROOF
  BY InitIInv, NextIInv, PTL DEF Spec

(* Every reachable state is well typed: the loop over the versions never   *)
(* leaves their range.                                                     *)
THEOREM TypeCorrect == Spec => []TypeOK
PROOF
  <1>1. IInv => TypeOK
    BY DEF IInv, History
  <1> QED
    BY <1>1, Invariant, PTL

(* A migration is committed exactly once if its version is recorded, and   *)
(* never otherwise (migrate_to_latest, however many runs meet and crash).  *)
THEOREM HistoryIsTrue == Spec => []RecordedOnce
PROOF
  <1>1. IInv => RecordedOnce
    BY DEF IInv, History
  <1> QED
    BY <1>1, Invariant, PTL

(* The recorded versions have no gaps, so that get_current_version stands  *)
(* for all versions before it.                                             *)
THEOREM HistoryHasNoGaps == Spec => []NoGaps
PROOF
  <1>1. IInv => NoGaps
    BY TargetAssumption DEF IInv, History, Contiguous, NoGaps, Recorded, Version
  <1> QED
    BY <1>1, Invariant, PTL

(* A run that ends without an error leaves every migration committed in a  *)
(* database that is still there.                                           *)
THEOREM DoneMeansComplete == Spec => []DoneIsComplete
PROOF
  <1>1. IInv => DoneIsComplete
    BY TargetAssumption
    DEF IInv, History, Contiguous, DoneAtTarget, RecordedOnce, Recorded,
        DoneIsComplete, Version
  <1> QED
    BY <1>1, Invariant, PTL

(* A tenant that can be read has its database and tables unless a hard     *)
(* delete has dropped it, and a deleted one leaves none behind             *)
(* (TenantService.create_tenant and delete_tenant, whatever fails).        *)
THEOREM RowAndDatabase == Spec => []RowMatchesDatabase
PROOF
  <1>1. IInv => RowMatchesDatabase
    BY DEF IInv, Tenant
  <1> QED
    BY <1>1, Invariant, PTL

-----------------------------------------------------------------------------
(***************************************************************************)
(* FileService                                                             *)
(***************************************************************************)

-----------------------------------------------------------------------------
(***************************************************************************)
(* Induction: a set of numbers with 0 and with the successor of each of    *)
(* its elements has them all.  The library's theorems on induction take an *)
(* operator, which the provers do not instantiate; this one takes a set.   *)
(***************************************************************************)

LEMMA LeastNumber ==
  ASSUME NEW T \in SUBSET Nat, T # {}
  PROVE  \E x \in T : \A y \in T : x =< y
<1>1. IsWellFoundedOn({ss \in Nat \X Nat : ss[1] < ss[2]}, Nat)
  BY NatLessThanWellFounded DEF OpToRel
<1>2. PICK x \in T :
        \A y \in T : ~ (<<y, x>> \in {ss \in Nat \X Nat : ss[1] < ss[2]})
  <2> QED
    BY <1>1, WFMin
<1>3. ASSUME NEW y \in T PROVE x =< y
  <2>1. <<y, x>> \in Nat \X Nat /\ <<y, x>>[1] = y /\ <<y, x>>[2] = x
    OBVIOUS
  <2>2. ~ (y < x)
    BY <1>2, <2>1, Zenon
  <2> QED
    BY <2>2
<1> QED
  BY <1>3

LEMMA SetInduction ==
  ASSUME NEW S \in SUBSET Nat, 0 \in S, \A n \in S : n + 1 \in S
  PROVE  S = Nat
<1> SUFFICES ASSUME Nat \ S # {} PROVE FALSE
  OBVIOUS
<1>1. PICK x \in Nat \ S : \A y \in Nat \ S : x =< y
  BY LeastNumber
<1>2. x # 0 /\ x - 1 \in Nat /\ ~(x =< x - 1)
  BY <1>1
<1>3. x - 1 \in S
  BY <1>1, <1>2
<1> QED
  BY <1>1, <1>2, <1>3

(* g keeps the rows of s up to each n <= k, without those in D.            *)
Keeps(g, s, D, k) ==
  g = [n \in 0..k |-> IF n = 0 THEN <<>>
                      ELSE IF s[n] \in D THEN g[n - 1]
                      ELSE Append(g[n - 1], s[n])]

LEMMA KeptDefined ==
  ASSUME NEW s, NEW D, NEW k \in Nat
  PROVE  \E g : Keeps(g, s, D, k)
<1> DEFINE S == {m \in Nat : \E g : Keeps(g, s, D, m)}
<1>1. 0 \in S
  <2>1. Keeps([n \in 0..0 |-> <<>>], s, D, 0)
    BY DEF Keeps
  <2> QED
    BY <2>1
<1>2. ASSUME NEW m \in S PROVE m + 1 \in S
  <2>1. PICK g : Keeps(g, s, D, m)
    OBVIOUS
  <2> DEFINE last == IF s[m + 1] \in D THEN g[m] ELSE Append(g[m], s[m + 1])
             h == [n \in 0..(m + 1) |-> IF n \in 0..m THEN g[n] ELSE last]
             Row(n) == IF n = 0 THEN <<>>
                        ELSE IF s[n] \in D THEN h[n - 1]
                        ELSE Append(h[n - 1], s[n])
  <2>2. ASSUME NEW n \in 0..(m + 1) PROVE h[n] = Row(n)
    <3>1. CASE n = 0
      BY <2>1, <3>1 DEF Keeps
    <3>2. CASE n \in 1..m
      <4>1. n - 1 \in 0..m /\ n - 1 \in 0..(m + 1) /\ n \in 0..m
        BY <3>2
      <4>2. h[n - 1] = g[n - 1] /\ h[n] = g[n]
        BY <4>1
      <4> QED
        BY <2>1, <4>1, <4>2, <3>2 DEF Keeps
    <3>3. CASE n = m + 1
      <4>1. n - 1 = m /\ n \notin 0..m /\ m \in 0..m /\ n # 0
        BY <3>3
      <4>2. h[n - 1] = g[m] /\ h[n] = last
        BY <4>1, <3>3
      <4> QED
        BY <4>1, <4>2, <3>3
    <3> QED
      BY <3>1, <3>2, <3>3
  <2>3. h = [n \in 0..(m + 1) |-> Row(n)]
    <3> HIDE DEF Row
    <3> QED
      BY <2>2
  <2>4. Keeps(h, s, D, m + 1)
    <3> HIDE DEF h
    <3> QED
      BY <2>3 DEF Keeps
  <2> QED
    BY <2>4
<1> HIDE DEF S
<1>3. S = Nat
  BY <1>1, <1>2, SetInduction DEF S
<1> QED
  BY <1>3 DEF S

LEMMA WithoutKeeps ==
  ASSUME NEW D, Len(files) \in Nat
  PROVE  \E g : Keeps(g, files, D, Len(files)) /\ Without(D) = g[Len(files)]
<1> DEFINE kept == CHOOSE g : Keeps(g, files, D, Len(files))
<1>1. \E g : Keeps(g, files, D, Len(files))
  BY KeptDefined
<1>2. Without(D) = kept[Len(files)]
  BY DEF Without, Keeps
<1>3. Keeps(kept, files, D, Len(files))
  BY <1>1
<1> QED
  BY <1>2, <1>3

-----------------------------------------------------------------------------
(***************************************************************************)
(* The inductive invariant                                                 *)
(***************************************************************************)

DistinctRows ==
  \A i, j \in 1..Len(files) : files[i] = files[j] => i = j

OnlyWhileChecking ==
  scan.pc # "check" =>
    scan.batch = <<>> /\ scan.pending = {} /\ scan.flushed = {}

(* What was flushed is locked: no document comes to refer to it.           *)
FlushedOrphaned == \A f \in scan.flushed : IsOrphaned(f)

OrphansOrphaned == \A f \in orphans : IsOrphaned(f)

(* The rows the cleanup has read end here. *)
Reached == IF scan.pc = "check" THEN scan.offset + BatchSize ELSE scan.offset

Batch == {scan.batch[i] : i \in 1..Len(scan.batch)}

InHand == Batch \cup scan.pending \cup scan.flushed

(* The orphans in rows the cleanup has passed and is not about to delete.  *)
PassedOver ==
  {files[i] : i \in {j \in 1..Len(files) :
     j <= Reached /\ files[j] \in orphans \ InHand}}

MissedInv ==
  /\ scan.pc \in {"fetch", "check"} => Cardinality(PassedOver) <= shifts
  /\ scan.pc = "done" => Cardinality(orphans \cap Stored) <= shifts

RowsInv ==
  /\ FilesTypeOK
  /\ DistinctRows
  /\ DocumentsHaveFiles
  /\ OnlyWhileChecking
  /\ FlushedOrphaned
  /\ OrphansOrphaned

CleanupInv == RowsInv /\ MissedInv

-----------------------------------------------------------------------------
(***************************************************************************)
(* The rows without those in D                                             *)
(***************************************************************************)

LEMMA FiniteRange ==
  ASSUME NEW S, IsFiniteSet(S), NEW f, DOMAIN f = S, f = [x \in S |-> f[x]]
  PROVE  /\ IsFiniteSet({f[x] : x \in S})
         /\ Cardinality({f[x] : x \in S}) <= Cardinality(S)
<1>1. f \in Surjection(S, {f[x] : x \in S})
  BY DEF Surjection
<1> QED
  BY <1>1, FS_Surjection

LEMMA StoredIsFinite ==
  ASSUME files \in Seq(File)
  PROVE  IsFiniteSet(Stored) /\ Stored \subseteq File
<1>1. Len(files) \in Nat /\ files \in [1..Len(files) -> File]
  OBVIOUS
<1>2. IsFiniteSet(1..Len(files))
  BY <1>1, FS_Interval
<1> QED
  BY <1>1, <1>2, FiniteRange DEF Stored

(* Those among the first n rows that are in D.                             *)
Dropped(D, n) == D \cap {files[i] : i \in 1..n}

(* What is known of w, the first n rows without those in D.                *)
KeptRows(w, D, n) ==
  /\ w \in Seq(File)
  /\ IsFiniteSet(Dropped(D, n))
  /\ Len(w) + Cardinality(Dropped(D, n)) = n
  /\ \A i \in 1..Len(w) :
       /\ w[i] \notin D
       /\ \E j \in 1..n : /\ files[j] = w[i]
                          /\ j <= i + Cardinality(Dropped(D, n))
  /\ \A j \in 1..n : files[j] \notin D => \E i \in 1..Len(w) : w[i] = files[j]
  /\ \A i, j \in 1..Len(w) : w[i] = w[j] => i = j

LEMMA NoRowsKept ==
  ASSUME NEW D
  PROVE  KeptRows(<<>>, D, 0)
<1>1. Dropped(D, 0) = {}
  BY DEF Dropped
<1>2. <<>> \in Seq(File) /\ Len(<<>>) = 0
  OBVIOUS
<1> QED
  BY <1>1, <1>2, FS_EmptySet DEF KeptRows

LEMMA RowDropped ==
  ASSUME files \in Seq(File), DistinctRows, NEW D, NEW w,
         NEW n \in Nat, n < Len(files), KeptRows(w, D, n), files[n + 1] \in D
  PROVE  KeptRows(w, D, n + 1)
<1>1. Len(files) \in Nat /\ Len(w) \in Nat
  BY DEF KeptRows
<1>2. Dropped(D, n + 1) = Dropped(D, n) \cup {files[n + 1]}
  <2>1. 1..(n + 1) = (1..n) \cup {n + 1}
    OBVIOUS
  <2> QED
    BY <2>1 DEF Dropped
<1>3. files[n + 1] \notin Dropped(D, n)
  BY <1>1 DEF Dropped, DistinctRows
<1>4. /\ IsFiniteSet(Dropped(D, n + 1))
      /\ Cardinality(Dropped(D, n)) \in Nat
      /\ Cardinality(Dropped(D, n + 1)) = Cardinality(Dropped(D, n)) + 1
  <2>1. IsFiniteSet(Dropped(D, n))
    BY DEF KeptRows
  <2> QED
    BY <2>1, <1>2, <1>3, FS_AddElement, FS_CardinalityType
<1>5. ASSUME NEW i \in 1..Len(w)
      PROVE  /\ w[i] \notin D
             /\ \E j \in 1..(n + 1) :
                  /\ files[j] = w[i]
                  /\ j <= i + Cardinality(Dropped(D, n + 1))
  <2>1. PICK j \in 1..n : /\ files[j] = w[i]
                          /\ j <= i + Cardinality(Dropped(D, n))
    BY DEF KeptRows
  <2>2. w[i] \notin D /\ j \in 1..(n + 1)
    BY DEF KeptRows
  <2>3. j <= i + Cardinality(Dropped(D, n + 1))
    BY <2>1, <1>1, <1>4
  <2> QED
    BY <2>1, <2>2, <2>3
<1>6. ASSUME NEW j \in 1..(n + 1), files[j] \notin D
      PROVE  \E i \in 1..Len(w) : w[i] = files[j]
  <2>1. j \in 1..n
    BY <1>6
  <2> QED
    BY <2>1, <1>6 DEF KeptRows
<1> QED
  BY <1>1, <1>4, <1>5, <1>6 DEF KeptRows

LEMMA RowKept ==
  ASSUME files \in Seq(File), DistinctRows, NEW D, NEW w,
         NEW n \in Nat, n < Len(files), KeptRows(w, D, n), files[n + 1] \notin D
  PROVE  KeptRows(Append(w, files[n + 1]), D, n + 1)
<1> DEFINE v == Append(w, files[n + 1])
<1>1. /\ Len(files) \in Nat /\ Len(w) \in Nat /\ files[n + 1] \in File
      /\ w \in Seq(File)
  BY DEF KeptRows
<1>2. Dropped(D, n + 1) = Dropped(D, n)
  <2>1. 1..(n + 1) = (1..n) \cup {n + 1}
    OBVIOUS
  <2> QED
    BY <2>1 DEF Dropped
<1>3. /\ v \in Seq(File) /\ Len(v) = Len(w) + 1
      /\ \A i \in 1..Len(w) : v[i] = w[i]
      /\ v[Len(w) + 1] = files[n + 1]
  BY <1>1
<1>4. Cardinality(Dropped(D, n)) \in Nat
  BY FS_CardinalityType DEF KeptRows
<1>5. ASSUME NEW i \in 1..Len(v)
      PROVE  /\ v[i] \notin D
             /\ \E j \in 1..(n + 1) :
                  /\ files[j] = v[i]
                  /\ j <= i + Cardinality(Dropped(D, n))
  <2>1. CASE i \in 1..Len(w)
    <3>1. PICK j \in 1..n : /\ files[j] = w[i]
                            /\ j <= i + Cardinality(Dropped(D, n))
      BY <2>1 DEF KeptRows
    <3> QED
      BY <3>1, <2>1, <1>3 DEF KeptRows
  <2>2. CASE i = Len(w) + 1
    <3>1. n + 1 <= i + Cardinality(Dropped(D, n))
      BY <2>2, <1>1, <1>4 DEF KeptRows
    <3> QED
      BY <2>2, <3>1, <1>3
  <2> QED
    BY <2>1, <2>2, <1>1, <1>3
<1>6. ASSUME NEW j \in 1..(n + 1), files[j] \notin D
      PROVE  \E i \in 1..Len(v) : v[i] = files[j]
  <2>1. CASE j \in 1..n
    <3>1. PICK i \in 1..Len(w) : w[i] = files[j]
      BY <2>1, <1>6 DEF KeptRows
    <3> QED
      BY <3>1, <1>1, <1>3
  <2>2. CASE j = n + 1
    BY <2>2, <1>1, <1>3
  <2> QED
    BY <2>1, <2>2
<1>7. ASSUME NEW i \in 1..Len(v), NEW j \in 1..Len(v), v[i] = v[j]
      PROVE  i = j
  <2>1. ASSUME NEW k \in 1..Len(w) PROVE w[k] # files[n + 1]
    <3>1. PICK m \in 1..n : files[m] = w[k]
      BY DEF KeptRows
    <3> QED
      BY <3>1, <1>1 DEF DistinctRows
  <2>2. i \in 1..Len(w) /\ j \in 1..Len(w) => i = j
    BY <1>7, <1>3 DEF KeptRows
  <2> QED
    BY <1>1, <1>3, <1>7, <2>1, <2>2
<1>8. Len(v) + Cardinality(Dropped(D, n + 1)) = n + 1
  BY <1>1, <1>2, <1>3, <1>4 DEF KeptRows
<1> HIDE DEF v
<1>9. KeptRows(v, D, n + 1)
  BY <1>2, <1>3, <1>5, <1>6, <1>7, <1>8 DEF KeptRows
<1> QED
  BY <1>9 DEF v

(* By induction over n, for all rows.                                      *)
LEMMA WithoutRows ==
  ASSUME files \in Seq(File), DistinctRows, NEW D
  PROVE  KeptRows(Without(D), D, Len(files))
<1>1. Len(files) \in Nat
  OBVIOUS
<1>2. PICK g : Keeps(g, files, D, Len(files)) /\ Without(D) = g[Len(files)]
  BY <1>1, WithoutKeeps
<1> DEFINE S == {n \in Nat : n <= Len(files) => KeptRows(g[n], D, n)}
<1>3. 0 \in S
  <2>1. g[0] = <<>>
    BY <1>1, <1>2 DEF Keeps
  <2> QED
    BY <2>1, NoRowsKept
<1>4. ASSUME NEW n \in S PROVE n + 1 \in S
  <2>1. SUFFICES ASSUME n < Len(files) PROVE KeptRows(g[n + 1], D, n + 1)
    BY <1>1
  <2>2. KeptRows(g[n], D, n)
    BY <1>1, <2>1
  <2>3. g[n + 1] = IF files[n + 1] \in D THEN g[n]
                   ELSE Append(g[n], files[n + 1])
    <3>1. n + 1 \in 0..Len(files) /\ n + 1 # 0 /\ (n + 1) - 1 = n
      BY <1>1, <2>1
    <3> QED
      BY <1>2, <3>1 DEF Keeps
  <2> QED
    BY <2>1, <2>2, <2>3, RowDropped, RowKept
<1> HIDE DEF S
<1>5. S = Nat
  BY <1>3, <1>4, SetInduction DEF S
<1> QED
  BY <1>1, <1>2, <1>5 DEF S

(* Deleting rows leaves the others, each at most so many places further    *)
(* ahead.                                                                  *)
LEMMA DeletedRows ==
  ASSUME files \in Seq(File), DistinctRows, NEW D
  PROVE  /\ Without(D) \in Seq(File)
         /\ \A i \in 1..Len(Without(D)) :
              \E j \in 1..Len(files) :
                /\ files[j] = Without(D)[i]
                /\ j <= i + Cardinality(D \cap Stored)
         /\ \A i, j \in 1..Len(Without(D)) :
              Without(D)[i] = Without(D)[j] => i = j
         /\ {Without(D)[i] : i \in 1..Len(Without(D))} = Stored \ D
         /\ Cardinality(D \cap Stored) \in Nat
<1>1. KeptRows(Without(D), D, Len(files))
  BY WithoutRows
<1>2. Dropped(D, Len(files)) = D \cap Stored
  BY DEF Dropped, Stored
<1>3. Cardinality(D \cap Stored) \in Nat
  BY <1>1, <1>2, FS_CardinalityType DEF KeptRows
<1>4. {Without(D)[i] : i \in 1..Len(Without(D))} = Stored \ D
  <2>1. ASSUME NEW i \in 1..Len(Without(D)) PROVE Without(D)[i] \in Stored \ D
    BY <1>1 DEF KeptRows, Stored
  <2>2. ASSUME NEW f \in Stored \ D
        PROVE  \E i \in 1..Len(Without(D)) : Without(D)[i] = f
    <3>1. PICK j \in 1..Len(files) : files[j] = f
      BY DEF Stored
    <3>2. files[j] \notin D
      BY <3>1
    <3>3. \A k \in 1..Len(files) :
            files[k] \notin D =>
              \E i \in 1..Len(Without(D)) : Without(D)[i] = files[k]
      BY <1>1 DEF KeptRows
    <3> QED
      BY <3>1, <3>2, <3>3
  <2> QED
    BY <2>1, <2>2
<1> QED
  BY <1>1, <1>2, <1>3, <1>4 DEF KeptRows

LEMMA RowsDeleted ==
  ASSUME files \in Seq(File), DistinctRows, NEW D, files' = Without(D)
  PROVE  files' \in Seq(File) /\ DistinctRows' /\ Stored' = Stored \ D
<1> DEFINE newRows == Without(D)
<1>1. /\ newRows \in Seq(File)
      /\ \A i, j \in 1..Len(newRows) : newRows[i] = newRows[j] => i = j
      /\ {newRows[i] : i \in 1..Len(newRows)} = Stored \ D
  BY DeletedRows
<1>2. files' = newRows
  OBVIOUS
<1> HIDE DEF newRows
<1>3. Stored' = Stored \ D
  BY <1>1, <1>2 DEF Stored
<1> QED
  BY <1>1, <1>2, <1>3 DEF DistinctRows

LEMMA RowAppended ==
  ASSUME NEW s \in Seq(File), \A i, j \in 1..Len(s) : s[i] = s[j] => i = j,
         NEW f \in File, f \notin {s[i] : i \in 1..Len(s)},
         files' = Append(s, f)
  PROVE  /\ files' \in Seq(File)
         /\ DistinctRows'
         /\ Stored' = {s[i] : i \in 1..Len(s)} \cup {f}
<1>1. /\ Len(s) \in Nat /\ files' \in Seq(File) /\ Len(files') = Len(s) + 1
      /\ \A i \in 1..Len(s) : files'[i] = s[i]
      /\ files'[Len(s) + 1] = f
  OBVIOUS
<1>2. 1..(Len(s) + 1) = (1..Len(s)) \cup {Len(s) + 1}
  BY <1>1
<1>3. Stored' = {s[i] : i \in 1..Len(s)} \cup {f}
  BY <1>1, <1>2 DEF Stored
<1>4. ASSUME NEW i \in 1..Len(files'), NEW j \in 1..Len(files'),
             files'[i] = files'[j]
      PROVE  i = j
  <2>1. \A k \in 1..Len(s) : files'[k] # f
    BY <1>1
  <2> QED
    BY <1>1, <1>2, <1>4, <2>1
<1> QED
  BY <1>1, <1>3, <1>4 DEF DistinctRows

-----------------------------------------------------------------------------
(***************************************************************************)
(* Every step keeps the rows in order                                      *)
(***************************************************************************)

LEMMA InitRows == FilesInit => RowsInv
<1> SUFFICES ASSUME FilesInit PROVE RowsInv
  OBVIOUS
<1>1. files = <<>> /\ Len(files) = 0 /\ Stored = {}
  BY DEF FilesInit, Stored
<1>2. \A d \in Doc : docs[d] \notin File
  BY NoFileAssumption DEF FilesInit
<1>3. FilesTypeOK
  BY <1>1 DEF FilesInit, FilesTypeOK, NewScan, Idle
<1> QED
  BY <1>1, <1>2, <1>3 DEF FilesInit, RowsInv, DistinctRows, DocumentsHaveFiles,
     OnlyWhileChecking, FlushedOrphaned, OrphansOrphaned, NewScan

LEMMA FreshIsNew ==
  ASSUME NEW f \in FreshFile
  PROVE  /\ f \in File \ Stored
         /\ f \notin orphans /\ f \notin scan.flushed
         /\ \A d \in Doc : docs[d] # f
BY DEF FreshFile

LEMMA UploadFileKeeps ==
  ASSUME RowsInv, NEW c \in Client, UploadFile(c)
  PROVE  RowsInv'
<1>1. PICK f \in FreshFile : files' = Append(files, f)
  BY DEF UploadFile
<1>2. files' \in Seq(File) /\ DistinctRows' /\ Stored' = Stored \cup {f}
  BY <1>1, FreshIsNew, RowAppended
     DEF RowsInv, FilesTypeOK, DistinctRows, Stored
<1> QED
  BY <1>2 DEF UploadFile, RowsInv, FilesTypeOK, DocumentsHaveFiles, IsOrphaned,
     OnlyWhileChecking, FlushedOrphaned, OrphansOrphaned, Documents

LEMMA CreateDocumentWithFileKeeps ==
  ASSUME RowsInv, NEW c \in Client, CreateDocumentWithFile(c)
  PROVE  RowsInv'
<1>1. PICK f \in FreshFile, d \in Doc :
        files' = Append(files, f) /\ docs' = [docs EXCEPT ![d] = f]
  BY DEF CreateDocumentWithFile
<1>2. files' \in Seq(File) /\ DistinctRows' /\ Stored' = Stored \cup {f}
  BY <1>1, FreshIsNew, RowAppended
     DEF RowsInv, FilesTypeOK, DistinctRows, Stored
<1>3. f \in File /\ f \notin orphans /\ f \notin scan.flushed
  BY FreshIsNew
<1>4. FilesTypeOK'
  BY <1>1, <1>2, <1>3 DEF CreateDocumentWithFile, RowsInv, FilesTypeOK
<1>5. DocumentsHaveFiles'
  BY <1>1, <1>2 DEF RowsInv, FilesTypeOK, DocumentsHaveFiles
<1>6. ASSUME NEW g, g # f, IsOrphaned(g) PROVE IsOrphaned(g)'
  BY <1>1, <1>6 DEF RowsInv, FilesTypeOK, IsOrphaned, Documents
<1>7. FlushedOrphaned' /\ OrphansOrphaned' /\ OnlyWhileChecking'
  BY <1>3, <1>6 DEF CreateDocumentWithFile, RowsInv, FlushedOrphaned,
     OrphansOrphaned, OnlyWhileChecking
<1> QED
  BY <1>2, <1>4, <1>5, <1>7 DEF RowsInv

(* A step that leaves rows and documents alone.                            *)
LEMMA RequestKeeps ==
  ASSUME RowsInv, UNCHANGED <<files, docs, scan, orphans, shifts>>,
         req' \in [Client -> Request \cup {Idle}]
  PROVE  RowsInv'
BY DEF RowsInv, FilesTypeOK, DistinctRows, Stored, DocumentsHaveFiles,
       IsOrphaned,
   OnlyWhileChecking, FlushedOrphaned, OrphansOrphaned, Documents

LEMMA CreateDocumentKeeps ==
  ASSUME RowsInv, NEW c \in Client, NEW f \in File, CreateDocument(c, f)
  PROVE  RowsInv'
<1>1. req' \in [Client -> Request \cup {Idle}]
  BY DEF CreateDocument, RowsInv, FilesTypeOK, Request
<1> QED
  BY <1>1, RequestKeeps DEF CreateDocument

LEMMA DeleteFileKeeps ==
  ASSUME RowsInv, NEW c \in Client, NEW f \in File, NEW force \in BOOLEAN,
         DeleteFile(c, f, force)
  PROVE  RowsInv'
<1>1. req' \in [Client -> Request \cup {Idle}]
  BY DEF DeleteFile, RowsInv, FilesTypeOK, Request, Documents
<1> QED
  BY <1>1, RequestKeeps DEF DeleteFile

LEMMA FinishType ==
  ASSUME FilesTypeOK, NEW c \in Client, Finish(c)
  PROVE  req' \in [Client -> Request \cup {Idle}]
BY DEF FilesTypeOK, Finish

LEMMA InsertDocumentKeeps ==
  ASSUME RowsInv, NEW c \in Client, InsertDocument(c)
  PROVE  RowsInv'
<1> DEFINE f == req[c].file
<1>1. req' \in [Client -> Request \cup {Idle}]
  BY FinishType DEF InsertDocument, RowsInv
<1>2. CASE f \notin Stored
  <2>1. UNCHANGED <<files, docs, scan, orphans, shifts>>
    BY <1>2 DEF InsertDocument
  <2> QED
    BY <1>1, <2>1, RequestKeeps
<1>3. CASE f \in Stored
  <2>1. PICK d \in Doc : docs' = [docs EXCEPT ![d] = f]
    BY <1>3 DEF InsertDocument
  <2>2. /\ orphans' = orphans \ {f} /\ f \notin scan.flushed
        /\ UNCHANGED <<files, scan, shifts>>
    BY <1>3 DEF InsertDocument, Locked
  <2>3. f \in File
    BY <1>3, StoredIsFinite DEF RowsInv, FilesTypeOK
  <2>4. FilesTypeOK'
    BY <1>1, <2>1, <2>2, <2>3 DEF RowsInv, FilesTypeOK
  <2>5. DocumentsHaveFiles' /\ DistinctRows'
    BY <1>3, <2>1, <2>2
       DEF RowsInv, FilesTypeOK, DocumentsHaveFiles, DistinctRows, Stored
  <2>6. ASSUME NEW g, g # f, IsOrphaned(g) PROVE IsOrphaned(g)'
    BY <2>1, <2>6 DEF RowsInv, FilesTypeOK, IsOrphaned, Documents
  <2>7. FlushedOrphaned' /\ OrphansOrphaned' /\ OnlyWhileChecking'
    BY <2>2, <2>6 DEF RowsInv, FlushedOrphaned, OrphansOrphaned,
       OnlyWhileChecking
  <2> QED
    BY <2>4, <2>5, <2>7 DEF RowsInv
<1> QED
  BY <1>2, <1>3

LEMMA DeleteDocumentKeeps ==
  ASSUME RowsInv, NEW c \in Client, NEW d \in Doc, DeleteDocument(c, d)
  PROVE  RowsInv'
<1>1. /\ docs' = [docs EXCEPT ![d] = Gone]
      /\ UNCHANGED <<files, scan, req, orphans, shifts>>
  BY DEF DeleteDocument
<1>2. FilesTypeOK'
  BY <1>1 DEF RowsInv, FilesTypeOK
<1>3. DocumentsHaveFiles' /\ DistinctRows'
  BY <1>1, NoFileAssumption
     DEF RowsInv, FilesTypeOK, DocumentsHaveFiles, DistinctRows, Stored
<1>4. ASSUME NEW g \in File, IsOrphaned(g) PROVE IsOrphaned(g)'
  BY <1>1, <1>4, NoFileAssumption
  DEF RowsInv, FilesTypeOK, IsOrphaned, Documents
<1>5. FlushedOrphaned' /\ OrphansOrphaned' /\ OnlyWhileChecking'
  BY <1>1, <1>4 DEF RowsInv, FilesTypeOK, FlushedOrphaned, OrphansOrphaned,
     OnlyWhileChecking
<1> QED
  BY <1>2, <1>3, <1>5 DEF RowsInv

LEMMA ShiftType ==
  ASSUME FilesTypeOK, NEW n \in Nat, Shift(n)
  PROVE  shifts' \in Nat
BY DEF FilesTypeOK, Shift

LEMMA CommitDeleteFileKeeps ==
  ASSUME RowsInv, NEW c \in Client, CommitDeleteFile(c)
  PROVE  RowsInv'
<1> DEFINE f == req[c].file
<1>1. req' \in [Client -> Request \cup {Idle}]
  BY FinishType DEF CommitDeleteFile, RowsInv
<1>2. CASE ~ (f \in Stored /\ Documents(f) \subseteq req[c].loaded)
  <2>1. UNCHANGED <<files, docs, scan, orphans, shifts>>
    BY <1>2 DEF CommitDeleteFile
  <2> QED
    BY <1>1, <2>1, RequestKeeps
<1>3. CASE f \in Stored /\ Documents(f) \subseteq req[c].loaded
  <2>1. /\ files' = Without({f}) /\ Shift(1)
        /\ docs' = [d \in Doc |-> IF docs[d] = f THEN Gone ELSE docs[d]]
        /\ UNCHANGED <<scan, orphans>>
    BY <1>3 DEF CommitDeleteFile
  <2>2. files' \in Seq(File) /\ DistinctRows' /\ Stored' = Stored \ {f}
    BY <2>1, RowsDeleted DEF RowsInv, FilesTypeOK
  <2>3. FilesTypeOK'
    BY <1>1, <2>1, <2>2, ShiftType DEF RowsInv, FilesTypeOK
  <2>4. DocumentsHaveFiles'
    BY <2>1, <2>2, NoFileAssumption DEF RowsInv, FilesTypeOK, DocumentsHaveFiles
  <2>5. ASSUME NEW g \in File, IsOrphaned(g) PROVE IsOrphaned(g)'
    BY <2>1, <2>5, NoFileAssumption
    DEF RowsInv, FilesTypeOK, IsOrphaned, Documents
  <2>6. FlushedOrphaned' /\ OrphansOrphaned' /\ OnlyWhileChecking'
    BY <2>1, <2>5 DEF RowsInv, FilesTypeOK, FlushedOrphaned, OrphansOrphaned,
       OnlyWhileChecking
  <2> QED
    BY <2>2, <2>3, <2>4, <2>6 DEF RowsInv
<1> QED
  BY <1>2, <1>3

LEMMA UpdateFileKeeps ==
  ASSUME RowsInv, NEW f \in File, UpdateFile(f)
  PROVE  RowsInv'
<1>1. /\ files' = Append(Without({f}), f) /\ Shift(1) /\ f \in Stored
      /\ UNCHANGED <<docs, scan, req, orphans>>
  BY DEF UpdateFile
<1>2. files \in Seq(File) /\ DistinctRows
  BY DEF RowsInv, FilesTypeOK
<1>3. files' \in Seq(File) /\ DistinctRows' /\ Stored' = Stored
  <2> DEFINE newRows == Without({f})
  <2>1. /\ newRows \in Seq(File)
        /\ \A i, j \in 1..Len(newRows) : newRows[i] = newRows[j] => i = j
        /\ {newRows[i] : i \in 1..Len(newRows)} = Stored \ {f}
    BY <1>2, DeletedRows
  <2>2. files' = Append(newRows, f) /\ f \notin Stored \ {f}
    BY <1>1
  <2> HIDE DEF newRows
  <2>3. /\ files' \in Seq(File) /\ DistinctRows'
        /\ Stored' = {newRows[i] : i \in 1..Len(newRows)} \cup {f}
    BY <2>1, <2>2, RowAppended
  <2> QED
    BY <1>1, <2>1, <2>3
<1> QED
  BY <1>1, <1>3, ShiftType
  DEF RowsInv, FilesTypeOK, DocumentsHaveFiles, IsOrphaned,
     OnlyWhileChecking, FlushedOrphaned, OrphansOrphaned, Documents

(* A step of the cleanup that leaves the rows alone.                       *)
LEMMA ScanKeeps ==
  ASSUME RowsInv, UNCHANGED <<files, docs, req, orphans, shifts>>,
         scan' \in [pc : {"idle", "fetch", "check", "done", "failed"},
                    offset : Nat, batch : Seq(File), pending : SUBSET File,
                    flushed : SUBSET File],
         OnlyWhileChecking',
         \A f \in scan'.flushed : IsOrphaned(f)
  PROVE  RowsInv'
BY DEF RowsInv, FilesTypeOK, DistinctRows, Stored, DocumentsHaveFiles,
       IsOrphaned,
   FlushedOrphaned, OrphansOrphaned, Documents

LEMMA NewScanKeeps ==
  ASSUME RowsInv, UNCHANGED <<files, docs, req, orphans, shifts>>,
         NEW at \in {"fetch", "done", "failed"}, scan' = NewScan(at)
  PROVE  RowsInv'
BY ScanKeeps DEF NewScan, OnlyWhileChecking

LEMMA StartCleanupKeeps ==
  ASSUME RowsInv, StartCleanup
  PROVE  RowsInv'
<1>1. /\ scan' = NewScan("fetch") /\ shifts' = 0
      /\ orphans' = {f \in Stored : IsOrphaned(f)}
      /\ UNCHANGED <<files, docs, req>>
  BY DEF StartCleanup
<1>2. Stored \subseteq File
  BY StoredIsFinite DEF RowsInv, FilesTypeOK
<1>3. FilesTypeOK'
  BY <1>1, <1>2 DEF RowsInv, FilesTypeOK, NewScan
<1> QED
  BY <1>1, <1>3 DEF RowsInv, DistinctRows, Stored, DocumentsHaveFiles,
     IsOrphaned, OnlyWhileChecking, FlushedOrphaned, OrphansOrphaned,
     Documents, NewScan

LEMMA FetchBatchKeeps ==
  ASSUME RowsInv, FetchBatch
  PROVE  RowsInv'
<1> DEFINE last == IF scan.offset + BatchSize < Len(files)
                   THEN scan.offset + BatchSize ELSE Len(files)
           batch == SubSeq(files, scan.offset + 1, last)
<1>1. CASE batch = <<>>
  BY <1>1, NewScanKeeps DEF FetchBatch
<1>2. CASE batch # <<>>
  <2>1. /\ scan' = [scan EXCEPT !.pc = "check", !.batch = batch]
        /\ UNCHANGED <<files, docs, req, orphans, shifts>>
    BY <1>2 DEF FetchBatch
  <2>2. batch \in Seq(File)
    <3>1. /\ files \in Seq(File) /\ Len(files) \in Nat
          /\ scan.offset \in Nat /\ BatchSize \in Nat
      BY BatchAssumption DEF RowsInv, FilesTypeOK
    <3>2. last \in Nat /\ last <= Len(files)
      BY <3>1
    <3> QED
      BY <3>1, <3>2
  <2>3. scan'.flushed = scan.flushed /\ scan'.pc = "check"
    BY <2>1 DEF RowsInv, FilesTypeOK
  <2> HIDE DEF batch
  <2> QED
    BY <2>1, <2>2, <2>3, ScanKeeps
       DEF RowsInv, FilesTypeOK, OnlyWhileChecking, FlushedOrphaned
<1> QED
  BY <1>1, <1>2

LEMMA CheckFileKeeps ==
  ASSUME RowsInv, CheckFile
  PROVE  RowsInv'
<1> DEFINE f == Head(scan.batch)
<1>1. /\ scan' = [scan EXCEPT !.batch = Tail(@),
                              !.flushed = @ \cup scan.pending,
                              !.pending = IF IsOrphaned(f) THEN {f} ELSE {}]
      /\ UNCHANGED <<files, docs, req, orphans, shifts>>
      /\ scan.pc = "check" /\ scan.batch # <<>>
      /\ \A g \in scan.pending : IsOrphaned(g)
  BY DEF CheckFile, FlushPasses
<1>2. f \in File /\ Tail(scan.batch) \in Seq(File)
  BY <1>1 DEF RowsInv, FilesTypeOK
<1>3. scan' \in [pc : {"idle", "fetch", "check", "done", "failed"},
                 offset : Nat, batch : Seq(File), pending : SUBSET File,
                 flushed : SUBSET File]
  BY <1>1, <1>2 DEF RowsInv, FilesTypeOK
<1>4. /\ scan'.flushed = scan.flushed \cup scan.pending
      /\ scan'.pc = "check"
  BY <1>1 DEF RowsInv, FilesTypeOK
<1> QED
  BY <1>1, <1>3, <1>4, ScanKeeps DEF RowsInv, OnlyWhileChecking, FlushedOrphaned

(* What is deleted has no documents.                                       *)
LEMMA CommitBatchKeeps ==
  ASSUME RowsInv, CommitBatch
  PROVE  RowsInv'
<1> DEFINE deleted == scan.flushed \cup scan.pending
<1>1. /\ files' = Without(deleted) /\ Shift(Cardinality(deleted \cap Stored))
      /\ scan' = [NewScan("fetch") EXCEPT !.offset = scan.offset + BatchSize]
      /\ UNCHANGED <<docs, req, orphans>>
      /\ \A g \in scan.pending : IsOrphaned(g)
  BY DEF CommitBatch, FlushPasses
<1>2. files \in Seq(File) /\ DistinctRows
  BY DEF RowsInv, FilesTypeOK
<1>3. files' \in Seq(File) /\ DistinctRows' /\ Stored' = Stored \ deleted
  BY <1>1, <1>2, RowsDeleted
<1>4. FilesTypeOK'
  <2>1. shifts' \in Nat
    <3>1. Cardinality(deleted \cap Stored) \in Nat
      BY <1>2, DeletedRows
    <3> QED
      BY <1>1, <3>1 DEF RowsInv, FilesTypeOK, Shift
  <2>2. scan' = [pc |-> "fetch", offset |-> scan.offset + BatchSize,
                 batch |-> <<>>, pending |-> {}, flushed |-> {}]
    BY <1>1 DEF NewScan
  <2>3. scan.offset + BatchSize \in Nat
    BY BatchAssumption DEF RowsInv, FilesTypeOK
  <2>4. scan' \in [pc : {"idle", "fetch", "check", "done", "failed"},
                   offset : Nat, batch : Seq(File), pending : SUBSET File,
                   flushed : SUBSET File]
    BY <2>2, <2>3
  <2> QED
    BY <1>1, <1>3, <2>1, <2>4 DEF RowsInv, FilesTypeOK
<1>5. DocumentsHaveFiles'
  <2>1. ASSUME NEW d \in Doc PROVE docs[d] \notin deleted
    BY <1>1 DEF RowsInv, FlushedOrphaned, IsOrphaned, Documents
  <2> QED
    BY <1>1, <1>3, <2>1 DEF RowsInv, DocumentsHaveFiles
<1> QED
  BY <1>1, <1>3, <1>4, <1>5 DEF RowsInv, IsOrphaned, OnlyWhileChecking,
     FlushedOrphaned, OrphansOrphaned, Documents, NewScan

LEMMA NextRows == RowsInv /\ [FilesNext]_fileVars => RowsInv'
<1> SUFFICES ASSUME RowsInv, [FilesNext]_fileVars PROVE RowsInv'
  OBVIOUS
<1>1. ASSUME NEW c \in Client, ClientStep(c) PROVE RowsInv'
  BY <1>1, UploadFileKeeps, CreateDocumentWithFileKeeps, CreateDocumentKeeps,
     InsertDocumentKeeps, DeleteDocumentKeeps, DeleteFileKeeps,
     CommitDeleteFileKeeps DEF ClientStep
<1>2. ASSUME NEW f \in File, UpdateFile(f) PROVE RowsInv'
  BY <1>2, UpdateFileKeeps
<1>3. CASE StartCleanup
  BY <1>3, StartCleanupKeeps
<1>4. CASE CleanupStep
  <2>1. CASE FlushFails
    BY <2>1, NewScanKeeps DEF FlushFails
  <2> QED
    BY <1>4, <2>1, FetchBatchKeeps, CheckFileKeeps, CommitBatchKeeps
       DEF CleanupStep
<1>5. CASE CleanupFails
  BY <1>5, NewScanKeeps DEF CleanupFails
<1>6. CASE UNCHANGED fileVars
  BY <1>6, RequestKeeps DEF fileVars, RowsInv, FilesTypeOK
<1> QED
  BY <1>1, <1>2, <1>3, <1>4, <1>5, <1>6 DEF FilesNext

-----------------------------------------------------------------------------
(***************************************************************************)
(* What the cleanup misses                                                 *)
(***************************************************************************)

LEMMA ReachedType ==
  ASSUME RowsInv
  PROVE  Reached \in Nat /\ BatchSize \in Nat \ {0}
BY BatchAssumption DEF RowsInv, FilesTypeOK, Reached

LEMMA PassedOverIsFinite ==
  ASSUME RowsInv
  PROVE  /\ PassedOver \subseteq Stored
         /\ IsFiniteSet(PassedOver)
         /\ Cardinality(PassedOver) \in Nat
<1>1. PassedOver \subseteq Stored
  BY DEF PassedOver, Stored
<1> QED
  BY <1>1, StoredIsFinite, FS_Subset, FS_CardinalityType
  DEF RowsInv, FilesTypeOK

LEMMA MissedIsFinite ==
  ASSUME RowsInv
  PROVE  /\ IsFiniteSet(orphans \cap Stored)
         /\ Cardinality(orphans \cap Stored) \in Nat
BY StoredIsFinite, FS_Intersection, FS_CardinalityType DEF RowsInv, FilesTypeOK

(* The part of MissedInv that a step of another than the cleanup disturbs. *)
LEMMA FewerMissed ==
  ASSUME RowsInv, MissedInv, UNCHANGED <<scan, shifts>>,
         PassedOver' \subseteq PassedOver,
         orphans' \cap Stored' \subseteq orphans \cap Stored
  PROVE  MissedInv'
<1>1. Cardinality(PassedOver)' <= Cardinality(PassedOver)
  BY PassedOverIsFinite, FS_Subset
<1>2. Cardinality(orphans \cap Stored)' <= Cardinality(orphans \cap Stored)
  BY MissedIsFinite, FS_Subset
<1>3. /\ Cardinality(PassedOver) \in Nat
      /\ Cardinality(PassedOver)' \in Nat
      /\ Cardinality(orphans \cap Stored) \in Nat
      /\ Cardinality(orphans \cap Stored)' \in Nat
  <2>1. /\ IsFiniteSet(PassedOver)'
        /\ IsFiniteSet(orphans \cap Stored)'
    BY PassedOverIsFinite, MissedIsFinite, FS_Subset
  <2> QED
    BY <2>1, PassedOverIsFinite, MissedIsFinite, FS_CardinalityType
<1>4. shifts \in Nat
  BY DEF RowsInv, FilesTypeOK
<1> QED
  BY <1>1, <1>2, <1>3, <1>4 DEF MissedInv

(* So many rows follow the ones that were read.                            *)
Following(n) ==
  {files[j] : j \in {k \in 1..Len(files) : k \in (Reached + 1)..(Reached + n)}}

LEMMA FollowingIsFew ==
  ASSUME RowsInv, NEW n \in Nat
  PROVE  IsFiniteSet(Following(n)) /\ Cardinality(Following(n)) <= n
<1> DEFINE places == {k \in 1..Len(files) : k \in (Reached + 1)..(Reached + n)}
           here == [k \in places |-> files[k]]
<1>1. Reached \in Nat
  BY ReachedType
<1>2. /\ IsFiniteSet((Reached + 1)..(Reached + n))
      /\ Cardinality((Reached + 1)..(Reached + n)) = n
  BY <1>1, FS_Interval
<1>3. /\ IsFiniteSet(places) /\ Cardinality(places) <= n
  BY <1>2, FS_Subset
<1>4. Following(n) = {here[k] : k \in places}
  BY DEF Following
<1>5. DOMAIN here = places /\ here = [k \in places |-> here[k]]
  OBVIOUS
<1> HIDE DEF here, places
<1>6. /\ IsFiniteSet(Following(n))
      /\ Cardinality(Following(n)) <= Cardinality(places)
  BY <1>3, <1>4, <1>5, FiniteRange
<1> QED
  BY <1>3, <1>6, FS_CardinalityType

(* When n rows are deleted or moved, as many of those that follow may slip *)
(* in among the rows that were read.                                       *)
LEMMA RowsSlip ==
  ASSUME RowsInv, NEW n \in Nat, Cardinality(PassedOver) <= shifts,
         PassedOver' \subseteq PassedOver \cup Following(n)
  PROVE  Cardinality(PassedOver)' <= shifts + n
<1>1. /\ IsFiniteSet(PassedOver) /\ Cardinality(PassedOver) \in Nat
      /\ IsFiniteSet(Following(n)) /\ Cardinality(Following(n)) \in Nat
      /\ Cardinality(Following(n)) <= n
  BY PassedOverIsFinite, FollowingIsFew, FS_CardinalityType
<1>2. /\ IsFiniteSet(PassedOver \cup Following(n))
      /\ Cardinality(PassedOver \cup Following(n))
           <= Cardinality(PassedOver) + Cardinality(Following(n))
  <2>1. Cardinality(PassedOver \cap Following(n)) \in Nat
    BY <1>1, FS_Intersection, FS_CardinalityType
  <2>2. /\ IsFiniteSet(PassedOver \cup Following(n))
        /\ Cardinality(PassedOver \cup Following(n))
             = Cardinality(PassedOver) + Cardinality(Following(n))
               - Cardinality(PassedOver \cap Following(n))
    BY <1>1, FS_Union
  <2> QED
    BY <1>1, <2>1, <2>2
<1>3. /\ Cardinality(PassedOver)' <= Cardinality(PassedOver \cup Following(n))
      /\ Cardinality(PassedOver)' \in Nat
      /\ Cardinality(PassedOver \cup Following(n)) \in Nat
  BY <1>2, FS_Subset, FS_CardinalityType
<1>4. shifts \in Nat
  BY DEF RowsInv, FilesTypeOK
<1> QED
  BY <1>1, <1>2, <1>3, <1>4

LEMMA SlideBound ==
  ASSUME RowsInv, NEW D, NEW i \in 1..Len(Without(D)), i <= Reached
  PROVE  \/ \E j \in 1..Len(files) :
              j <= Reached /\ files[j] = Without(D)[i]
         \/ Without(D)[i] \in Following(Cardinality(D \cap Stored))
<1>1. PICK j \in 1..Len(files) : /\ files[j] = Without(D)[i]
                                 /\ j <= i + Cardinality(D \cap Stored)
  BY DeletedRows DEF RowsInv, FilesTypeOK
<1>2. /\ Cardinality(D \cap Stored) \in Nat /\ Reached \in Nat
      /\ Len(files) \in Nat /\ i \in Nat
  <2>1. Len(Without(D)) \in Nat
    BY DeletedRows DEF RowsInv, FilesTypeOK
  <2> QED
    BY <2>1, DeletedRows, ReachedType DEF RowsInv, FilesTypeOK
<1>3. CASE j <= Reached
  BY <1>1, <1>3
<1>4. CASE ~ (j <= Reached)
  <2>1. j \in (Reached + 1)..(Reached + Cardinality(D \cap Stored))
    BY <1>1, <1>2, <1>4
  <2> QED
    BY <1>1, <2>1 DEF Following
<1> QED
  BY <1>3, <1>4

(* A new row is not an orphan of this cleanup.                             *)
LEMMA AppendMissesNone ==
  ASSUME RowsInv, MissedInv, UNCHANGED <<scan, shifts, orphans>>,
         NEW f, f \notin orphans, files' = Append(files, f)
  PROVE  MissedInv'
<1>1. /\ Len(files) \in Nat /\ Len(files') = Len(files) + 1
      /\ \A i \in 1..Len(files) : files'[i] = files[i]
      /\ files'[Len(files) + 1] = f
  BY DEF RowsInv, FilesTypeOK
<1>2. 1..Len(files') = (1..Len(files)) \cup {Len(files) + 1}
  BY <1>1
<1>3. PassedOver' \subseteq PassedOver
  BY <1>1, <1>2 DEF PassedOver, Reached, InHand, Batch
<1>4. orphans' \cap Stored' \subseteq orphans \cap Stored
  BY <1>1, <1>2 DEF Stored
<1> QED
  BY <1>3, <1>4, FewerMissed

LEMMA FewerOrphans ==
  ASSUME RowsInv, MissedInv, UNCHANGED <<scan, shifts, files>>,
         orphans' \subseteq orphans
  PROVE  MissedInv'
<1>1. PassedOver' \subseteq PassedOver
  BY DEF PassedOver, Reached, InHand, Batch
<1>2. orphans' \cap Stored' \subseteq orphans \cap Stored
  BY DEF Stored
<1> QED
  BY <1>1, <1>2, FewerMissed

LEMMA ShiftOne ==
  ASSUME RowsInv, MissedInv, Shift(1), UNCHANGED <<scan, orphans>>,
         Stored' \subseteq Stored,
         scan.pc \in {"fetch", "check"} =>
           PassedOver' \subseteq PassedOver \cup Following(1)
  PROVE  MissedInv'
<1>1. CASE scan.pc \in {"fetch", "check"}
  <2>1. shifts' = shifts + 1
    BY <1>1 DEF Shift
  <2>2. Cardinality(PassedOver)' <= shifts + 1
    BY <1>1, RowsSlip DEF MissedInv
  <2> QED
    BY <1>1, <2>1, <2>2 DEF MissedInv
<1>2. CASE scan.pc \notin {"fetch", "check"}
  <2>1. shifts' = shifts
    BY <1>2 DEF Shift
  <2>2. /\ Cardinality(orphans \cap Stored)' <= Cardinality(orphans \cap Stored)
        /\ IsFiniteSet(orphans' \cap Stored')
    BY MissedIsFinite, FS_Subset
  <2>3. Cardinality(orphans \cap Stored)' \in Nat
    BY <2>2, FS_CardinalityType
  <2>4. shifts \in Nat /\ Cardinality(orphans \cap Stored) \in Nat
    BY MissedIsFinite DEF RowsInv, FilesTypeOK
  <2> QED
    BY <1>2, <2>1, <2>2, <2>3, <2>4 DEF MissedInv
<1> QED
  BY <1>1, <1>2

LEMMA OneDropped ==
  ASSUME RowsInv, NEW f \in Stored
  PROVE  Cardinality({f} \cap Stored) = 1
<1>1. {f} \cap Stored = {f}
  OBVIOUS
<1> QED
  BY <1>1, FS_Singleton

LEMMA CommitDeleteFileMisses ==
  ASSUME RowsInv, MissedInv, NEW c \in Client, CommitDeleteFile(c)
  PROVE  MissedInv'
<1> DEFINE f == req[c].file
<1>1. CASE ~ (f \in Stored /\ Documents(f) \subseteq req[c].loaded)
  BY <1>1, FewerOrphans DEF CommitDeleteFile
<1>2. CASE f \in Stored /\ Documents(f) \subseteq req[c].loaded
  <2> DEFINE newRows == Without({f})
  <2>1. /\ files' = newRows /\ Shift(1) /\ UNCHANGED <<scan, orphans>>
    BY <1>2 DEF CommitDeleteFile
  <2>2. Stored' \subseteq Stored
    BY <2>1, RowsDeleted DEF RowsInv, FilesTypeOK
  <2>3. ASSUME NEW i \in 1..Len(newRows), i <= Reached
        PROVE  \/ \E j \in 1..Len(files) : j <= Reached /\ files[j] = newRows[i]
               \/ newRows[i] \in Following(1)
    <3>1. \/ \E j \in 1..Len(files) : j <= Reached /\ files[j] = newRows[i]
          \/ newRows[i] \in Following(Cardinality({f} \cap Stored))
      BY <2>3, SlideBound
    <3>2. Cardinality({f} \cap Stored) = 1
      BY <1>2, OneDropped
    <3> QED
      BY <3>1, <3>2
  <2> HIDE DEF newRows
  <2>4. PassedOver' \subseteq PassedOver \cup Following(1)
    BY <2>1, <2>3 DEF PassedOver, Reached, InHand, Batch
  <2> QED
    BY <2>1, <2>2, <2>4, ShiftOne
<1> QED
  BY <1>1, <1>2

(* The row that moves to the end stays where it was, or comes out of the   *)
(* rows that were read.                                                    *)
LEMMA UpdateFileMisses ==
  ASSUME RowsInv, MissedInv, NEW f \in File, UpdateFile(f)
  PROVE  MissedInv'
<1> DEFINE newRows == Without({f})
<1>1. /\ files' = Append(newRows, f) /\ Shift(1) /\ f \in Stored
      /\ UNCHANGED <<scan, orphans>>
  BY DEF UpdateFile
<1>2. /\ files \in Seq(File) /\ DistinctRows /\ Len(files) \in Nat
  BY DEF RowsInv, FilesTypeOK
<1>3. newRows \in Seq(File)
      /\ {newRows[i] : i \in 1..Len(newRows)} = Stored \ {f}
  BY <1>2, DeletedRows
<1>4. Len(newRows) + 1 = Len(files)
  <2>1. Dropped({f}, Len(files)) = {f} \cap Stored
    BY DEF Dropped, Stored
  <2>2. Cardinality(Dropped({f}, Len(files))) = 1
    BY <1>1, <2>1, OneDropped
  <2> QED
    BY <1>2, <1>3, <2>2, WithoutRows DEF KeptRows
<1>5. \A i \in 1..Len(newRows) : i <= Reached =>
        \/ \E j \in 1..Len(files) : j <= Reached /\ files[j] = newRows[i]
        \/ newRows[i] \in Following(1)
  BY <1>1, SlideBound, OneDropped
<1> HIDE DEF newRows
<1>6. /\ Len(newRows) \in Nat /\ Len(files') = Len(newRows) + 1
      /\ \A i \in 1..Len(newRows) : files'[i] = newRows[i]
      /\ files'[Len(newRows) + 1] = f
  BY <1>1, <1>3
<1>7. 1..Len(files') = (1..Len(newRows)) \cup {Len(newRows) + 1}
  BY <1>6
<1>8. Stored' \subseteq Stored
  <2>1. ASSUME NEW i \in 1..Len(newRows) PROVE newRows[i] \in Stored
    BY <1>3
  <2>2. ASSUME NEW i \in 1..Len(files') PROVE files'[i] \in Stored
    BY <1>1, <1>6, <1>7, <2>1
  <2> QED
    BY <2>2 DEF Stored
<1>9. ASSUME NEW i \in 1..Len(files'), i <= Reached,
             files'[i] \in orphans \ InHand
      PROVE  files'[i] \in PassedOver \cup Following(1)
  <2>1. CASE i \in 1..Len(newRows)
    <3>1. files'[i] = newRows[i]
      BY <2>1, <1>6
    <3> QED
      BY <1>5, <1>9, <2>1, <3>1 DEF PassedOver
  <2>2. CASE i = Len(newRows) + 1
    <3>1. PICK j \in 1..Len(files) : files[j] = f
      BY <1>1 DEF Stored
    <3>2. j <= Reached
      BY <1>2, <1>4, <1>6, <1>9, <2>2, ReachedType
    <3> QED
      BY <1>6, <1>9, <2>2, <3>1, <3>2 DEF PassedOver
  <2> QED
    BY <1>7, <2>1, <2>2
<1>10. PassedOver' \subseteq PassedOver \cup Following(1)
  <2>1. UNCHANGED <<Reached, InHand, orphans>>
    BY <1>1 DEF Reached, InHand, Batch
  <2> QED
    BY <1>9, <2>1 DEF PassedOver
<1> QED
  BY <1>1, <1>8, <1>10, ShiftOne

LEMMA StartCleanupMisses ==
  ASSUME RowsInv, StartCleanup
  PROVE  MissedInv'
<1>1. scan'.pc = "fetch" /\ scan'.offset = 0 /\ shifts' = 0
  BY DEF StartCleanup, NewScan
<1>2. Reached' = 0
  BY <1>1 DEF Reached
<1>3. PassedOver' = {}
  BY <1>2 DEF PassedOver
<1> QED
  BY <1>1, <1>3, FS_EmptySet DEF MissedInv

LEMMA RowsBetween ==
  ASSUME NEW s \in Seq(File), NEW a \in Nat, NEW b \in Nat,
         a + 1 <= b, b <= Len(s)
  PROVE  /\ Len(SubSeq(s, a + 1, b)) = b - a
         /\ \A i \in 1..(b - a) : SubSeq(s, a + 1, b)[i] = s[a + i]
OBVIOUS

(* The batch holds the rows from the offset on.  When there are none, all  *)
(* the rows have been passed.                                              *)
LEMMA FetchBatchMisses ==
  ASSUME RowsInv, MissedInv, FetchBatch
  PROVE  MissedInv'
<1> DEFINE last == IF scan.offset + BatchSize < Len(files)
                   THEN scan.offset + BatchSize ELSE Len(files)
           batch == SubSeq(files, scan.offset + 1, last)
<1>1. /\ files \in Seq(File) /\ Len(files) \in Nat
      /\ scan.offset \in Nat /\ BatchSize \in Nat \ {0}
      /\ scan.pc = "fetch"
      /\ scan.pending = {} /\ scan.flushed = {} /\ scan.batch = <<>>
  BY BatchAssumption DEF RowsInv, FilesTypeOK, OnlyWhileChecking, FetchBatch
<1>2. Reached = scan.offset /\ InHand = {}
  BY <1>1 DEF Reached, InHand, Batch
<1>3. Cardinality(PassedOver) <= shifts
  BY <1>1 DEF MissedInv
<1>4. CASE batch = <<>>
  <2>1. /\ scan' = NewScan("done") /\ UNCHANGED <<files, orphans, shifts>>
    BY <1>4 DEF FetchBatch
  <2>2. Len(files) <= scan.offset
    <3>1. SUFFICES ASSUME scan.offset < Len(files) PROVE FALSE
      BY <1>1
    <3>2. last \in Nat /\ last <= Len(files) /\ scan.offset + 1 <= last
      BY <1>1, <3>1
    <3>3. Len(batch) = last - scan.offset
      <4> HIDE DEF last
      <4> QED
        BY <1>1, <3>2, RowsBetween
    <3>4. Len(batch) = 0
      BY <1>4
    <3> HIDE DEF last, batch
    <3> QED
      BY <1>1, <3>2, <3>3, <3>4
  <2>3. orphans \cap Stored \subseteq PassedOver
    BY <1>1, <1>2, <2>2 DEF Stored, PassedOver
  <2>4. Cardinality(orphans \cap Stored) <= Cardinality(PassedOver)
    BY <2>3, PassedOverIsFinite, FS_Subset
  <2>5. /\ Cardinality(orphans \cap Stored) \in Nat
        /\ Cardinality(PassedOver) \in Nat /\ shifts \in Nat
    BY MissedIsFinite, PassedOverIsFinite DEF RowsInv, FilesTypeOK
  <2>6. Cardinality(orphans \cap Stored)' = Cardinality(orphans \cap Stored)
    BY <2>1 DEF Stored
  <2>7. scan'.pc = "done" /\ shifts' = shifts
    BY <2>1 DEF NewScan
  <2> QED
    BY <1>3, <2>4, <2>5, <2>6, <2>7 DEF MissedInv
<1>5. CASE batch # <<>>
  <2>1. /\ scan' = [scan EXCEPT !.pc = "check", !.batch = batch]
        /\ UNCHANGED <<files, orphans, shifts>>
    BY <1>5 DEF FetchBatch
  <2>2. /\ scan'.pc = "check" /\ scan'.offset = scan.offset
        /\ scan'.batch = batch
    BY <2>1 DEF RowsInv, FilesTypeOK
  <2>3. ASSUME NEW j \in 1..Len(files), j <= scan.offset + BatchSize,
               ~ (j <= scan.offset)
        PROVE  files[j] \in Batch'
    <3>1. last \in Nat /\ last <= Len(files) /\ j <= last
          /\ scan.offset + 1 <= last
      BY <1>1, <2>3
    <3>2. /\ Len(batch) = last - scan.offset
          /\ \A i \in 1..Len(batch) : batch[i] = files[scan.offset + i]
      <4> HIDE DEF last
      <4>1. /\ Len(batch) = last - scan.offset
            /\ \A i \in 1..(last - scan.offset) :
                 batch[i] = files[scan.offset + i]
        BY <1>1, <3>1, RowsBetween
      <4> HIDE DEF batch
      <4> QED
        BY <4>1
    <3> HIDE DEF last, batch
    <3>3. /\ j - scan.offset \in 1..Len(batch)
          /\ scan.offset + (j - scan.offset) = j
      BY <1>1, <2>3, <3>1, <3>2
    <3> QED
      BY <2>2, <3>2, <3>3 DEF Batch
  <2>4. PassedOver' \subseteq PassedOver
    <3>1. Reached' = scan.offset + BatchSize
      BY <2>2 DEF Reached
    <3> HIDE DEF batch
    <3> QED
      BY <1>2, <2>1, <2>3, <3>1 DEF PassedOver, InHand
  <2>5. Cardinality(PassedOver)' <= Cardinality(PassedOver)
        /\ Cardinality(PassedOver)' \in Nat
    BY <2>4, PassedOverIsFinite, FS_Subset, FS_CardinalityType
  <2>6. Cardinality(PassedOver) \in Nat /\ shifts \in Nat
    BY PassedOverIsFinite DEF RowsInv, FilesTypeOK
  <2> QED
    BY <1>3, <2>1, <2>2, <2>5, <2>6 DEF MissedInv
<1> QED
  BY <1>4, <1>5

(* A file that is looked at is to be deleted, or it has documents and is   *)
(* no orphan.                                                              *)
LEMMA CheckFileMisses ==
  ASSUME RowsInv, MissedInv, CheckFile
  PROVE  MissedInv'
<1> DEFINE f == Head(scan.batch)
<1>1. /\ scan' = [scan EXCEPT !.batch = Tail(@),
                              !.flushed = @ \cup scan.pending,
                              !.pending = IF IsOrphaned(f) THEN {f} ELSE {}]
      /\ UNCHANGED <<files, orphans, shifts>>
      /\ scan.pc = "check" /\ scan.batch # <<>>
  BY DEF CheckFile
<1>2. /\ scan'.pc = "check" /\ scan'.offset = scan.offset
      /\ scan'.batch = Tail(scan.batch)
      /\ scan'.flushed = scan.flushed \cup scan.pending
      /\ scan'.pending = IF IsOrphaned(f) THEN {f} ELSE {}
  BY <1>1 DEF RowsInv, FilesTypeOK
<1>3. Batch \subseteq Batch' \cup {f}
  <2>1. /\ scan.batch \in Seq(File) /\ Len(scan.batch) \in Nat
        /\ Len(Tail(scan.batch)) = Len(scan.batch) - 1
        /\ f = scan.batch[1]
        /\ \A i \in 1..Len(Tail(scan.batch)) :
             Tail(scan.batch)[i] = scan.batch[i + 1]
    BY <1>1 DEF RowsInv, FilesTypeOK
  <2>2. ASSUME NEW i \in 1..Len(scan.batch), i # 1
        PROVE  /\ i - 1 \in 1..Len(scan'.batch)
               /\ scan'.batch[i - 1] = scan.batch[i]
    BY <1>2, <2>1, <2>2
  <2>3. \A i \in 1..Len(scan.batch) :
          i # 1 =>
            scan.batch[i] \in {scan'.batch[k] : k \in 1..Len(scan'.batch)}
    BY <2>2
  <2>4. Batch' = {scan'.batch[k] : k \in 1..Len(scan'.batch)}
    BY DEF Batch
  <2>5. \A i \in 1..Len(scan.batch) : scan.batch[i] \in Batch' \cup {f}
    BY <2>1, <2>3, <2>4
  <2> QED
    BY <2>5 DEF Batch
<1>4. f \in orphans => IsOrphaned(f)
  BY DEF RowsInv, OrphansOrphaned
<1>5. InHand \cap orphans \subseteq InHand'
  BY <1>2, <1>3, <1>4 DEF InHand
<1>6. Reached' = Reached
  BY <1>1, <1>2 DEF Reached
<1>7. PassedOver' \subseteq PassedOver
  BY <1>1, <1>5, <1>6 DEF PassedOver
<1>8. Cardinality(PassedOver)' <= Cardinality(PassedOver)
      /\ Cardinality(PassedOver)' \in Nat
  BY <1>7, PassedOverIsFinite, FS_Subset, FS_CardinalityType
<1>9. Cardinality(PassedOver) \in Nat /\ shifts \in Nat
  BY PassedOverIsFinite DEF RowsInv, FilesTypeOK
<1> QED
  BY <1>1, <1>2, <1>8, <1>9 DEF MissedInv

LEMMA CommitBatchMisses ==
  ASSUME RowsInv, MissedInv, CommitBatch
  PROVE  MissedInv'
<1> DEFINE deleted == scan.flushed \cup scan.pending
           newRows == Without(deleted)
           n == Cardinality(deleted \cap Stored)
<1>1. /\ files' = newRows /\ Shift(n)
      /\ scan' = [NewScan("fetch") EXCEPT !.offset = scan.offset + BatchSize]
      /\ UNCHANGED orphans
      /\ scan.pc = "check" /\ scan.batch = <<>>
  BY DEF CommitBatch
<1>2. scan'.pc = "fetch" /\ scan'.offset = scan.offset + BatchSize
  BY <1>1 DEF NewScan
<1>3. Reached' = Reached /\ InHand = deleted
  BY <1>1, <1>2 DEF Reached, InHand, Batch
<1>4. /\ {newRows[i] : i \in 1..Len(newRows)} = Stored \ deleted
      /\ n \in Nat
  BY DeletedRows DEF RowsInv, FilesTypeOK
<1>5. \A i \in 1..Len(newRows) : i <= Reached =>
        \/ \E j \in 1..Len(files) : j <= Reached /\ files[j] = newRows[i]
        \/ newRows[i] \in Following(n)
  BY SlideBound
<1> HIDE DEF newRows, n
<1>6. PassedOver' \subseteq PassedOver \cup Following(n)
  <2>1. ASSUME NEW i \in 1..Len(newRows), i <= Reached, newRows[i] \in orphans
        PROVE  newRows[i] \in PassedOver \cup Following(n)
    <3>1. newRows[i] \notin InHand
      BY <1>3, <1>4
    <3> QED
      BY <1>5, <2>1, <3>1 DEF PassedOver
  <2> QED
    BY <1>1, <1>3, <2>1 DEF PassedOver
<1>7. Cardinality(PassedOver)' <= shifts + n
  BY <1>1, <1>4, <1>6, RowsSlip DEF MissedInv
<1>8. shifts' = shifts + n
  BY <1>1 DEF Shift
<1> QED
  BY <1>2, <1>7, <1>8 DEF MissedInv

LEMMA NextMisses == CleanupInv /\ [FilesNext]_fileVars => MissedInv'
<1> SUFFICES ASSUME RowsInv, MissedInv, [FilesNext]_fileVars PROVE MissedInv'
  BY DEF CleanupInv
<1>1. ASSUME NEW c \in Client, ClientStep(c) PROVE MissedInv'
  <2>1. CASE UploadFile(c)
    <3>1. PICK f \in FreshFile : files' = Append(files, f)
      BY <2>1 DEF UploadFile
    <3> QED
      BY <2>1, <3>1, FreshIsNew, AppendMissesNone DEF UploadFile
  <2>2. CASE CreateDocumentWithFile(c)
    <3>1. PICK f \in FreshFile : files' = Append(files, f)
      BY <2>2 DEF CreateDocumentWithFile
    <3> QED
      BY <2>2, <3>1, FreshIsNew, AppendMissesNone DEF CreateDocumentWithFile
  <2>3. CASE InsertDocument(c)
    <3>1. orphans' \subseteq orphans /\ UNCHANGED <<scan, shifts, files>>
      BY <2>3 DEF InsertDocument
    <3> QED
      BY <3>1, FewerOrphans
  <2>4. CASE \E f \in File : CreateDocument(c, f)
    BY <2>4, FewerOrphans DEF CreateDocument
  <2>5. CASE \E d \in Doc : DeleteDocument(c, d)
    BY <2>5, FewerOrphans DEF DeleteDocument
  <2>6. CASE \E f \in File, force \in BOOLEAN : DeleteFile(c, f, force)
    BY <2>6, FewerOrphans DEF DeleteFile
  <2> QED
    BY <1>1, <2>1, <2>2, <2>3, <2>4, <2>5, <2>6, CommitDeleteFileMisses
       DEF ClientStep
<1>2. ASSUME NEW f \in File, UpdateFile(f) PROVE MissedInv'
  BY <1>2, UpdateFileMisses
<1>3. CASE StartCleanup
  BY <1>3, StartCleanupMisses
<1>4. ASSUME scan' = NewScan("failed") PROVE MissedInv'
  BY <1>4 DEF MissedInv, NewScan
<1>5. CASE CleanupStep
  BY <1>4, <1>5, FetchBatchMisses, CheckFileMisses, CommitBatchMisses
     DEF CleanupStep, FlushFails
<1>6. CASE CleanupFails
  BY <1>4, <1>6 DEF CleanupFails
<1>7. CASE UNCHANGED fileVars
  BY <1>7, FewerOrphans DEF fileVars
<1> QED
  BY <1>1, <1>2, <1>3, <1>5, <1>6, <1>7 DEF FilesNext

-----------------------------------------------------------------------------
(***************************************************************************)
(* The theorems                                                            *)
(***************************************************************************)

(* The rows keep their order through clients, cleanups and failures: the   *)
(* invariant that everything below rests on (file_service.py).             *)
THEOREM RowsCorrect == FilesSpec => []RowsInv
<1> QED
  BY InitRows, NextRows, PTL DEF FilesSpec

(* Every variable has its type. *)
THEOREM FilesTypeCorrect == FilesSpec => []FilesTypeOK
<1>1. RowsInv => FilesTypeOK
  BY DEF RowsInv
<1> QED
  BY <1>1, RowsCorrect, PTL

(* No document loses its file, whoever deletes files while it is created.  *)
THEOREM DocumentsKeepFiles == FilesSpec => []DocumentsHaveFiles
<1>1. RowsInv => DocumentsHaveFiles
  BY DEF RowsInv
<1> QED
  BY <1>1, RowsCorrect, PTL

(* A cleanup that ends well leaves no more orphans than rows were deleted  *)
(* or moved while it ran, whatever the table, the batch and the others.    *)
THEOREM FewAreMissed == FilesSpec => []MissedIsBounded
<1>1. FilesInit => CleanupInv
  BY InitRows DEF CleanupInv, FilesInit, MissedInv, NewScan
<1>2. CleanupInv /\ [FilesNext]_fileVars => CleanupInv'
  BY NextRows, NextMisses DEF CleanupInv
<1>3. CleanupInv => MissedIsBounded
  <2> SUFFICES ASSUME CleanupInv PROVE Cardinality(Missed) <= shifts
    BY DEF MissedIsBounded
  <2>1. CASE scan.pc = "done"
    <3>1. Missed = orphans \cap Stored
      BY <2>1 DEF Missed
    <3> QED
      BY <2>1, <3>1 DEF CleanupInv, MissedInv
  <2>2. CASE scan.pc # "done"
    <3>1. Missed = {}
      BY <2>2 DEF Missed
    <3> QED
      BY <3>1, FS_EmptySet DEF CleanupInv, RowsInv, FilesTypeOK
  <2> QED
    BY <2>1, <2>2
<1> QED
  BY <1>1, <1>2, <1>3, PTL DEF FilesSpec
===============================================================================
