--------------------------- MODULE TenantMigrations ---------------------------
(***************************************************************************)
(* The database of one tenant: TenantService creates it with the tenant    *)
(* and drops it with a hard delete, and migrations change its schema       *)
(* (tenant_db/tenant_migrations.py), run by the creation and by            *)
(* scripts/migrate_all_tenants.py.  Several processes may meet, and each   *)
(* may crash.                                                              *)
(*                                                                         *)
(* Each migration and its row in tenant_schema_version are one             *)
(* transaction.  All but the first migration alter the table of files,     *)
(* and hold its lock until they commit; an INSERT of a version waits for   *)
(* the transaction that has inserted the same version.                     *)
(*                                                                         *)
(* CREATE DATABASE and DROP DATABASE take effect at once, beside the       *)
(* transaction on the tenant's row in the main database.                   *)
(***************************************************************************)
EXTENDS Naturals

CONSTANTS
  Process,   \* processes that run the script, or call TenantService
  Target     \* the last registered migration

ASSUME TargetAssumption == Target \in Nat \ {0}

Version == 1..Target

VARIABLES
  row,       \* the committed row of the tenant: "none" before, "deleted" after
  database,  \* the tenant's database: "none", "empty" or with its "tables"
  dropped,   \* whether a hard delete has dropped the database
  call,      \* call[p]: where the call of TenantService in process p is
  pool,      \* processes whose engine keeps a connection to the database
  rows,      \* the committed rows of tenant_schema_version; {}: no table
  applied,   \* applied[v]: how often migration v was executed and committed
  migr       \* migr[m]: where the migrations in process m are, at which version

tenantVars == <<row, database, dropped, call, pool>>

vars == <<tenantVars, rows, applied, migr>>

Existing == {"active", "inactive"}

Call == {"idle", "database", "tables", "migrate", "activate", "deactivate",
         "drop", "delete"}

State == {"idle", "plan", "planTable", "read", "table", "run", "insert",
          "commit", "done", "error"}

Ended == {"idle", "done", "error"}

Free(p) == call[p] = "idle" /\ migr[p].pc \in Ended

Continue(p, at) == call' = [call EXCEPT ![p] = at]

Goto(m, to) == migr' = [migr EXCEPT ![m].pc = to]

GotoVersion(m, to, v) ==
  migr' = [migr EXCEPT ![m].pc = to, ![m].version = v]

(* The last version of the history. *)
Current == CHOOSE v \in rows : \A u \in rows : u <= v

(* A bug: the session of a run that fails stays open. *)
LocksFilesOnError(m) ==
  migr[m].pc \in {"insert", "commit", "error"} /\ migr[m].version > 1

(* ALTER TABLE files, not yet committed. *)
LocksFiles(m) ==
  migr[m].pc \in {"insert", "commit"} /\ migr[m].version > 1

-----------------------------------------------------------------------------
(***************************************************************************)
(* TenantService                                                           *)
(***************************************************************************)

(* The row of a new tenant is flushed.  Its database has a name of its     *)
(* own: no other creation meets this one.                                  *)
CreateTenant(p) ==
  /\ Free(p)
  /\ row = "none" /\ database = "none"
  /\ \A q \in Process : call[q] = "idle"
  /\ Continue(p, "database")
  /\ UNCHANGED <<row, database, dropped, pool, rows, applied, migr>>

CreateDatabase(p) ==
  /\ call[p] = "database"
  /\ database' = "empty"
  /\ Continue(p, "tables")
  /\ UNCHANGED <<row, dropped, pool, rows, applied, migr>>

(* The tables, through the cached engine of the process, which then runs   *)
(* the migrations.                                                         *)
CreateTables(p) ==
  /\ call[p] = "tables"
  /\ database' = "tables"
  /\ pool' = pool \cup {p}
  /\ Continue(p, "migrate")
  /\ GotoVersion(p, "read", 1)
  /\ UNCHANGED <<row, dropped, rows, applied>>

(* The row is rolled back; a database that was created stays. *)
CreationFails(p) ==
  /\ \/ call[p] \in {"database", "tables"}
     \/ call[p] = "migrate" /\ migr[p].pc \in Ended
  /\ Continue(p, "idle")
  /\ UNCHANGED <<row, database, dropped, pool, rows, applied, migr>>

(* Whether the migrations have failed or not. *)
CommitCreation(p) ==
  /\ call[p] = "migrate" /\ migr[p].pc \in Ended
  /\ row' \in Existing
  /\ Continue(p, "idle")
  /\ UNCHANGED <<database, dropped, pool, rows, applied, migr>>

(* update_tenant and delete_tenant read the row first.  The update, and    *)
(* the soft delete, write it when is_active is to change.                  *)
FindTenant(p) ==
  /\ Free(p)
  /\ \/ row = "active" /\ Continue(p, "deactivate")
     \/ row = "inactive" /\ Continue(p, "activate")
     \/ row \in Existing /\ Continue(p, "drop")
  /\ UNCHANGED <<row, database, dropped, pool, rows, applied, migr>>

(* The row may be gone by now (StaleDataError). *)
CommitUpdate(p) ==
  /\ call[p] \in {"activate", "deactivate"}
  /\ row' = IF row = "deleted" THEN row
            ELSE IF call[p] = "activate" THEN "active" ELSE "inactive"
  /\ Continue(p, "idle")
  /\ UNCHANGED <<database, dropped, pool, rows, applied, migr>>

(* Migrations run on a connection since their first query. *)
Connected(p) == migr[p].pc \notin Ended \cup {"plan"} /\ database # "none"

InUse == pool # {} \/ \E p \in Process : Connected(p)

(* A bug: the row is deleted although the database could not be dropped. *)
DropErrorIgnored(p) ==
  /\ call[p] = "drop"
  /\ Continue(p, "delete")
  /\ UNCHANGED <<row, database, dropped, pool, rows, applied, migr>>

(* The hard delete drops the database first.  PostgreSQL refuses while     *)
(* anyone is connected, an idle connection of a pool included (force is    *)
(* off), and the call ends with an error, as it does for any other.        *)
DropDatabase(p) ==
  /\ call[p] = "drop"
  /\ ~InUse
  /\ database' = "none"
  /\ dropped' = TRUE
  /\ rows' = {}
  /\ applied' = [v \in Version |-> 0]
  /\ Continue(p, "delete")
  /\ UNCHANGED <<row, pool, migr>>

(* A hard delete that fails before the drop, or after it. *)
DeleteFails(p) ==
  /\ call[p] \in {"drop", "delete"}
  /\ Continue(p, "idle")
  /\ UNCHANGED <<row, database, dropped, pool, rows, applied, migr>>

(* Another hard delete may have been faster (StaleDataError). *)
DeleteRow(p) ==
  /\ call[p] = "delete"
  /\ row' = "deleted"
  /\ Continue(p, "idle")
  /\ UNCHANGED <<database, dropped, pool, rows, applied, migr>>

(* Any request for the tenant's documents: the engine of the process keeps *)
(* its connection.                                                         *)
Serve(p) ==
  /\ Free(p)
  /\ row = "active" /\ database # "none"
  /\ pool' = pool \cup {p}
  /\ UNCHANGED <<row, database, dropped, call, rows, applied, migr>>

-----------------------------------------------------------------------------
(***************************************************************************)
(* migrate_tenant                                                          *)
(***************************************************************************)

(* The script takes every committed tenant, active or not. *)
Start(m) ==
  /\ Free(m)
  /\ row \in Existing
  /\ GotoVersion(m, "plan", 1)
  /\ UNCHANGED <<tenantVars, rows, applied>>

(* The version is read a first time.  A dry run ends here.                 *)
Plan(m) ==
  /\ migr[m].pc = "plan"
  /\ rows # {}
  /\ \/ Current >= Target /\ Goto(m, "done")
     \/ Current < Target /\ Goto(m, "read")
     \/ Current < Target /\ Goto(m, "idle")
  /\ UNCHANGED <<tenantVars, rows, applied>>

(* migrate_to_latest reads it again. *)
Read(m) ==
  /\ migr[m].pc = "read"
  /\ rows # {}
  /\ IF Current >= Target THEN Goto(m, "done")
     ELSE GotoVersion(m, "run", Current + 1)
  /\ UNCHANGED <<tenantVars, rows, applied>>

(* Any error of the query, a missing table or another, counts as a         *)
(* database without versions.                                              *)
ReadFails(m) ==
  /\ \/ migr[m].pc = "plan" /\ Goto(m, "planTable")
     \/ migr[m].pc = "read" /\ Goto(m, "table")
  /\ UNCHANGED <<tenantVars, rows, applied>>

(* _create_version_table: the table and its row 0 are one transaction. The *)
(* row is there already, or the transaction fails, as it does without a    *)
(* database: the error is ignored.                                         *)
CreateVersionTable(m) ==
  /\ \/ migr[m].pc = "planTable" /\ (Goto(m, "read") \/ Goto(m, "idle"))
     \/ migr[m].pc = "table" /\ GotoVersion(m, "run", 1)
  /\ \/ UNCHANGED rows
     \/ rows = {} /\ database # "none" /\ rows' = {0}
  /\ UNCHANGED <<tenantVars, applied>>

-----------------------------------------------------------------------------
(***************************************************************************)
(* migrate_to_latest: one migration after the other                        *)
(***************************************************************************)

RunMigration(m) ==
  /\ migr[m].pc = "run"
  /\ migr[m].version > 1 => \A n \in Process : ~LocksFiles(n)
  /\ Goto(m, "insert")
  /\ UNCHANGED <<tenantVars, rows, applied>>

(* A bug: a migration that fails is skipped. *)
SkipMigration(m) ==
  /\ migr[m].pc = "run"
  /\ IF migr[m].version < Target
     THEN GotoVersion(m, "run", migr[m].version + 1)
     ELSE Goto(m, "error")
  /\ UNCHANGED <<tenantVars, rows, applied>>

(* An error ends the run: the rest is left to another. *)
MigrationFails(m) ==
  /\ migr[m].pc = "run"
  /\ Goto(m, "error")
  /\ UNCHANGED <<tenantVars, rows, applied>>

VersionInsertedBy(n, v) == migr[n].pc = "commit" /\ migr[n].version = v

(* A bug: ON CONFLICT DO NOTHING. *)
InsertIfAbsent(m) ==
  /\ migr[m].pc = "insert"
  /\ \A n \in Process : ~VersionInsertedBy(n, migr[m].version)
  /\ IF rows = {} THEN Goto(m, "error") ELSE Goto(m, "commit")
  /\ UNCHANGED <<tenantVars, rows, applied>>

(* Another run has committed the version in between: the primary key makes *)
(* this one fail, and what it has migrated is rolled back.                 *)
InsertVersion(m) ==
  /\ migr[m].pc = "insert"
  /\ \A n \in Process : ~VersionInsertedBy(n, migr[m].version)
  /\ IF rows = {} \/ migr[m].version \in rows
     THEN Goto(m, "error")
     ELSE Goto(m, "commit")
  /\ UNCHANGED <<tenantVars, rows, applied>>

(* A bug: the list of what was applied is returned after each. *)
CommitAndReturn(m) ==
  /\ migr[m].pc = "commit"
  /\ LET v == migr[m].version IN
     /\ rows' = rows \cup {v}
     /\ applied' = [applied EXCEPT ![v] = @ + 1]
     /\ Goto(m, "done")
  /\ UNCHANGED tenantVars

CommitMigration(m) ==
  /\ migr[m].pc = "commit"
  /\ LET v == migr[m].version IN
     /\ rows' = rows \cup {v}
     /\ applied' = [applied EXCEPT ![v] = @ + 1]
     /\ IF v = Target THEN Goto(m, "done") ELSE GotoVersion(m, "run", v + 1)
  /\ UNCHANGED tenantVars

(* The process is killed: PostgreSQL rolls its transactions back. *)
Crash(m) ==
  /\ ~Free(m) \/ m \in pool
  /\ Goto(m, "idle")
  /\ Continue(m, "idle")
  /\ pool' = pool \ {m}
  /\ UNCHANGED <<row, database, dropped, rows, applied>>

Init ==
  /\ row = "none"
  /\ database = "none"
  /\ dropped = FALSE
  /\ call = [p \in Process |-> "idle"]
  /\ pool = {}
  /\ rows = {}
  /\ applied = [v \in Version |-> 0]
  /\ migr = [m \in Process |-> [pc |-> "idle", version |-> 1]]

Service(p) ==
  \/ CreateTenant(p)
  \/ CreateDatabase(p)
  \/ CreateTables(p)
  \/ CreationFails(p)
  \/ CommitCreation(p)
  \/ FindTenant(p)
  \/ CommitUpdate(p)
  \/ DropDatabase(p)
  \/ DeleteFails(p)
  \/ DeleteRow(p)
  \/ Serve(p)

Step(m) ==
  \/ Plan(m)
  \/ Read(m)
  \/ ReadFails(m)
  \/ CreateVersionTable(m)
  \/ RunMigration(m)
  \/ MigrationFails(m)
  \/ InsertVersion(m)
  \/ CommitMigration(m)

Next == \E m \in Process : Service(m) \/ Start(m) \/ Step(m) \/ Crash(m)

Spec == Init /\ [][Next]_vars

(* What a call and a run do when nothing fails. *)
Progress(m) ==
  \/ CreateDatabase(m)
  \/ CreateTables(m)
  \/ CommitCreation(m)
  \/ CommitUpdate(m)
  \/ DropDatabase(m)
  \/ InUse /\ DeleteFails(m)
  \/ DeleteRow(m)
  \/ Plan(m)
  \/ Read(m)
  \/ rows = {} /\ ReadFails(m)
  \/ CreateVersionTable(m)
  \/ RunMigration(m)
  \/ InsertVersion(m)
  \/ CommitMigration(m)

(* PostgreSQL grants a lock in the order of the requests: a run that waits *)
(* while others take turns gets it.                                        *)
FairSpec == Spec /\ \A m \in Process : SF_vars(Progress(m))

-----------------------------------------------------------------------------
(***************************************************************************)
(* Properties                                                              *)
(***************************************************************************)

TypeOK ==
  /\ row \in Existing \cup {"none", "deleted"}
  /\ database \in {"none", "empty", "tables"}
  /\ dropped \in BOOLEAN
  /\ call \in [Process -> Call]
  /\ pool \in SUBSET Process
  /\ rows \in SUBSET (0..Target)
  /\ applied \in [Version -> Nat]
  /\ migr \in [Process -> [pc : State, version : Version]]

Recorded(v) == v \in rows

(* The history tells the truth: a migration was committed exactly once if  *)
(* its version is recorded and never otherwise, whichever runs meet and    *)
(* whichever crash.                                                        *)
RecordedOnce ==
  \A v \in Version : applied[v] = IF Recorded(v) THEN 1 ELSE 0

(* Migrations are applied in order: what is recorded has no gaps, so that  *)
(* the last version stands for all before it (get_current_version).        *)
NoGaps ==
  \A v \in Version : Recorded(v) => \A u \in 0..v : Recorded(u)

(* A run that ends without an error leaves the schema complete, for as     *)
(* long as there is a database.                                            *)
DoneIsComplete ==
  \A m \in Process :
    migr[m].pc = "done" /\ database # "none"
      => \A v \in Version : applied[v] = 1

(* The tenant's row and its database go together, although no transaction  *)
(* spans them: a row that others can read has a database with its tables,  *)
(* unless a hard delete was interrupted after it dropped it; and no        *)
(* database is left behind by a row that was deleted.                      *)
RowMatchesDatabase ==
  /\ row \in Existing => database = "tables" \/ dropped
  /\ row = "deleted" => database = "none"

(* Every run and every call of the service ends, whatever it meets: none   *)
(* waits forever for a lock, the loop over the versions comes to its end,  *)
(* also when the database is gone.                                         *)
RunEnds ==
  \A m \in Process : ~Free(m) ~> Free(m)
=============================================================================
