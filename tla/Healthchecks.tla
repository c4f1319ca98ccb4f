----------------------------- MODULE Healthchecks -----------------------------
(***************************************************************************)
(* The checks registered at Healthchecks.io and the scripts that keep them *)
(* in step with the ids in .env.healthchecks.                              *)
(*                                                                         *)
(* The file exists twice.  Containers get CHECK_IDS from the one in the    *)
(* root of the repository when they are created; the scripts that run in   *)
(* the container of the API read and write the one in backend/, and what   *)
(* is in the environment of the container wins over the file.  The start   *)
(* script copies the first over the second.  A file may have several lines *)
(* for one check: the last one counts.                                     *)
(*                                                                         *)
(* Outside: Healthchecks.io, which gives a check that is created through   *)
(* its API a new id; the operator, who copies ids from backend/ into the   *)
(* root, recreates containers and may lose the database of Healthchecks;   *)
(* the shell and the network, by which any script may end at any point.    *)
(* Left out: tags, schedules and descriptions of checks.                   *)
(***************************************************************************)
EXTENDS Naturals, FiniteSets, Sequences, SequencesExt

CONSTANTS
  Service,    \* what is checked: the keys of CHECKS_CONFIG
  Uuid,       \* bound: ids of checks
  Admin,      \* people and shells that run scripts
  Process,    \* of the worker, each with a client that creates checks itself
  MaxRuns,    \* bound: scripts started
  MaxEvents,  \* bound: lost databases, edits of the root file, failed saves
              \* and recreations
  NoId,       \* a variable HC_CHECK_... that is not set
  NoCheck     \* no check has the id

ASSUME NoIdAssumption == NoId \notin Uuid

ASSUME NoCheckAssumption == NoCheck \notin Service

ASSUME BoundsAssumption == MaxRuns \in Nat /\ MaxEvents \in Nat

VARIABLES
  checks,   \* checks[u]: the service whose name the check with id u has
  root,     \* root[s]: the ids of s in .env.healthchecks, line by line
  backend,  \* backend[s]: the ids of s in backend/.env.healthchecks
  ids,      \* ids[c][s]: the id of s in the environment of container c
  script,   \* script[a]: the script that a runs
  edit,     \* edit[e]: the rewriting of the file in backend/ by e
  tried,    \* tried[p]: ids p has looked up (_provisioned_checks)
  runs,     \* scripts started so far
  events    \* lost databases, edits and failures so far

vars == <<checks, root, backend, edit, ids, script, tried, runs, events>>

Container == {"api", "worker"}

Id == Uuid \cup {NoId}

Idle == [kind |-> "none"]

(* `known` are the ids the script has read or found, `todo` the services   *)
(* that are left, `at` the one it is creating a check for, `made` the check*)
(* a sync has created, `failed` if a check could not be saved, `listed`    *)
(* what a cleanup is going to delete, and `stage` how far the start script *)
(* is, if the script is part of it; it is `stale` if it could not recreate *)
(* the worker.                                                             *)
Run ==
  [kind : {"ensure", "sync", "setup", "orm", "cleanup"},
   stage : {"none", "orm", "copy", "worker", "cleanup"},
   known : [Service -> Id], todo : SUBSET Service,
   at : Service \cup {NoCheck}, made : Id, failed : BOOLEAN,
   listed : SUBSET Uuid, stale : BOOLEAN]

(* The lines that were read, and the id that the first one of `at` gets.   *)
Edit == [at : Service, id : Uuid, lines : [Service -> Seq(Uuid)]]

Editor == Admin \cup Process

LastLine(lines) == IF lines = <<>> THEN NoId ELSE Last(lines)

Effective(file) == [s \in Service |-> LastLine(file[s])]

IdsIn(file) == UNION {ToSet(file[s]) : s \in Service}

Registered == {u \in Uuid : checks[u] # NoCheck}

Remembered(run) ==
  {run.known[s] : s \in Service} \cup run.listed \cup {run.made}

Edited(change) == {change.id} \cup IdsIn(change.lines)

InUse ==
  Registered \cup IdsIn(root) \cup IdsIn(backend)
  \cup {ids[c][s] : c \in Container, s \in Service}
  \cup (UNION {Remembered(script[a]) : a \in {b \in Admin : script[b] # Idle}})
  \cup (UNION {Edited(edit[e]) : e \in {d \in Editor : edit[d] # Idle}})

NewRun(kind, stage, known, todo) ==
  [kind |-> kind, stage |-> stage, known |-> known, todo |-> todo,
   at |-> NoCheck, made |-> NoId, failed |-> FALSE, listed |-> {},
   stale |-> FALSE]

Start(a, run) ==
  /\ script[a] = Idle
  /\ runs < MaxRuns
  /\ runs' = runs + 1
  /\ script' = [script EXCEPT ![a] = run]

Runs(a, kind) == script[a] # Idle /\ script[a].kind = kind

(* Script a comes to service s. *)
Takes(a, kind, s) ==
  Runs(a, kind) /\ s \in script[a].todo /\ script[a].at = NoCheck

(* It is done with s, and ends with the last one. *)
Done(a, s) ==
  LET run == script[a] IN
  script' = [script EXCEPT
    ![a] = IF run.todo = {s} THEN Idle
           ELSE [run EXCEPT !.todo = @ \ {s}, !.at = NoCheck, !.made = NoId]]

Happens == events < MaxEvents /\ events' = events + 1

-----------------------------------------------------------------------------
(***************************************************************************)
(* What the scripts have in common                                         *)
(***************************************************************************)

(* load_dotenv does not override what the container has already.           *)
KnownInContainer ==
  [s \in Service |-> IF ids["api"][s] # NoId THEN ids["api"][s]
                                             ELSE LastLine(backend[s])]

(* POST /checks/: the new check has a new id.                              *)
CreateCheck(u, s) ==
  /\ u \in Uuid \ InUse
  /\ checks' = [checks EXCEPT ![u] = s]

(* update_env_file reads all lines...                                      *)
ReadEnvFile(e, s, u) ==
  edit' = [edit EXCEPT ![e] = [at |-> s, id |-> u, lines |-> backend]]

(* ... and writes the file anew: the first line of s has the new id.       *)
WriteEnvFile(e) ==
  LET s == edit[e].at IN
  /\ backend' = [edit[e].lines EXCEPT
                   ![s] = IF @ = <<>> THEN <<edit[e].id>>
                          ELSE [@ EXCEPT ![1] = edit[e].id]]
  /\ edit' = [edit EXCEPT ![e] = Idle]

(* Those in E end: a file that is open for writing may be left empty.      *)
EditsEnd(E) ==
  /\ edit' = [e \in Editor |-> IF e \in E THEN Idle ELSE edit[e]]
  /\ \/ backend' = backend
     \/ /\ \E e \in E : edit[e] # Idle
        /\ backend' = [s \in Service |-> <<>>]

-----------------------------------------------------------------------------
(***************************************************************************)
(* ensure_healthchecks.py                                                  *)
(***************************************************************************)

StartEnsure(a) ==
  /\ Start(a, NewRun("ensure", "none", KnownInContainer, Service))
  /\ UNCHANGED <<checks, root, backend, edit, ids, tried, events>>

(* The check exists, and gets its name, unless the request fails.          *)
EnsureFinds(a, s) ==
  /\ Takes(a, "ensure", s)
  /\ LET u == script[a].known[s] IN
       /\ u \in Registered
       /\ checks' \in {checks, [checks EXCEPT ![u] = s]}
  /\ Done(a, s)
  /\ UNCHANGED <<root, backend, edit, ids, tried, runs, events>>

(* It does not exist, has no id yet, or could not be looked up.            *)
EnsureMisses(a, s) ==
  /\ Takes(a, "ensure", s)
  /\ script' = [script EXCEPT ![a].at = s]
  /\ UNCHANGED <<checks, root, backend, edit, ids, tried, runs, events>>

EnsureCreates(a, s) ==
  /\ Runs(a, "ensure") /\ script[a].at = s /\ edit[a] = Idle
  /\ \E u \in Uuid : CreateCheck(u, s) /\ ReadEnvFile(a, s, u)
  /\ UNCHANGED <<root, backend, ids, script, tried, runs, events>>

EnsureRecords(a, s) ==
  /\ Runs(a, "ensure") /\ edit[a] # Idle /\ edit[a].at = s
  /\ WriteEnvFile(a)
  /\ Done(a, s)
  /\ UNCHANGED <<checks, root, ids, tried, runs, events>>

-----------------------------------------------------------------------------
(***************************************************************************)
(* sync_healthchecks_uuids.py                                              *)
(***************************************************************************)

StartSync(a) ==
  /\ \E s \in Service : KnownInContainer[s] # NoId
  /\ Start(a, NewRun("sync", "none", KnownInContainer,
                     {s \in Service : KnownInContainer[s] # NoId}))
  /\ UNCHANGED <<checks, root, backend, edit, ids, tried, events>>

SyncFinds(a, s) ==
  /\ Takes(a, "sync", s)
  /\ LET u == script[a].known[s] IN
       /\ u \in Registered
       /\ checks' = [checks EXCEPT ![u] = s]
  /\ Done(a, s)
  /\ UNCHANGED <<root, backend, edit, ids, tried, runs, events>>

(* A check with another id than the wanted one...                          *)
SyncCreates(a, s) ==
  /\ Takes(a, "sync", s)
  /\ script[a].known[s] \notin Registered
  /\ \E u \in Uuid :
       /\ CreateCheck(u, s)
       /\ script' = [script EXCEPT ![a].at = s, ![a].made = u]
  /\ UNCHANGED <<root, backend, edit, ids, tried, runs, events>>

(* ... is deleted again, and there it ends.                                *)
SyncDeletes(a, s) ==
  /\ Runs(a, "sync") /\ script[a].at = s
  /\ checks' = [checks EXCEPT ![script[a].made] = NoCheck]
  /\ Done(a, s)
  /\ UNCHANGED <<root, backend, edit, ids, tried, runs, events>>

-----------------------------------------------------------------------------
(***************************************************************************)
(* setup_healthchecks.py                                                   *)
(***************************************************************************)

(* The checks there are, found by name; none if they cannot be listed.     *)
StartSetup(a) ==
  /\ \E known \in [Service -> Id] :
       /\ \/ \A s \in Service :
               IF \E u \in Uuid : checks[u] = s
               THEN known[s] # NoId /\ checks[known[s]] = s
               ELSE known[s] = NoId
          \/ known = [s \in Service |-> NoId]
       /\ Start(a, NewRun("setup", "none", known, Service))
  /\ UNCHANGED <<checks, root, backend, edit, ids, tried, events>>

SetupSkips(a, s) ==
  /\ Takes(a, "setup", s)
  /\ script[a].known[s] # NoId
  /\ script' = [script EXCEPT ![a].todo = @ \ {s}]
  /\ UNCHANGED <<checks, root, backend, edit, ids, tried, runs, events>>

SetupCreates(a, s) ==
  /\ Takes(a, "setup", s)
  /\ script[a].known[s] = NoId
  /\ \E u \in Uuid :
       /\ CreateCheck(u, s)
       /\ script' = [script EXCEPT ![a].todo = @ \ {s}, ![a].known[s] = u]
  /\ UNCHANGED <<root, backend, edit, ids, tried, runs, events>>

(* create_check returns None. *)
SetupFails(a, s) ==
  /\ Takes(a, "setup", s)
  /\ script[a].known[s] = NoId
  /\ script' = [script EXCEPT ![a].todo = @ \ {s}]
  /\ UNCHANGED <<checks, root, backend, edit, ids, tried, runs, events>>

(* A bug: a line is appended for what could not be created, too. *)
SetupRecordsAll(a) ==
  /\ Runs(a, "setup") /\ script[a].todo = {}
  /\ backend' = [s \in Service |-> Append(backend[s], script[a].known[s])]
  /\ script' = [script EXCEPT ![a] = Idle]
  /\ UNCHANGED <<checks, root, edit, ids, tried, runs, events>>

(* All ids, found and created, are appended to the file.                   *)
SetupRecords(a) ==
  /\ Runs(a, "setup") /\ script[a].todo = {}
  /\ backend' = [s \in Service |->
                   IF script[a].known[s] = NoId THEN backend[s]
                   ELSE Append(backend[s], script[a].known[s])]
  /\ script' = [script EXCEPT ![a] = Idle]
  /\ UNCHANGED <<checks, root, edit, ids, tried, runs, events>>

-----------------------------------------------------------------------------
(***************************************************************************)
(* start-healthchecks-enhanced.sh, and the two scripts it runs, which may  *)
(* also be run alone: sync-healthchecks-uuids.sh, which writes to the      *)
(* database of Healthchecks, and cleanup-duplicate-checks.sh               *)
(***************************************************************************)

Named(file) == {s \in Service : LastLine(file[s]) # NoId}

StartOrm(a) ==
  /\ Named(root) # {}
  /\ Start(a, NewRun("orm", "none", Effective(root), Named(root)))
  /\ UNCHANGED <<checks, root, backend, edit, ids, tried, events>>

Recreate(cs) ==
  /\ ids' = [c \in Container |-> IF c \in cs THEN Effective(root) ELSE ids[c]]
  /\ tried' = [p \in Process |-> IF "worker" \in cs THEN {} ELSE tried[p]]
  /\ EditsEnd(IF "worker" \in cs THEN Process ELSE {})

(* Both containers are recreated (if one cannot be, the script goes on),   *)
(* and the ids of the root file copied.                                    *)
StartAll(a) ==
  /\ Start(a, NewRun("orm", IF Named(root) = {} THEN "copy" ELSE "orm",
                     Effective(root), Named(root)))
  /\ \/ Recreate(Container) /\ UNCHANGED events
     \/ Happens /\ \E cs \in SUBSET Container : Recreate(cs)
  /\ UNCHANGED <<checks, root>>

(* A bug: the start script goes on with checks that were not saved. *)
OrmGoesOnRegardless(a, s, fails) ==
  LET run == script[a] IN
  script' = [script EXCEPT
    ![a] = IF run.todo = {s} /\ run.stage = "none" THEN Idle
           ELSE [run EXCEPT !.todo = @ \ {s},
                   !.stage = IF run.todo = {s} THEN "copy" ELSE @]]

(* With the last check the script ends if one could not be saved, and the  *)
(* start script with it.                                                   *)
OrmGoesOn(a, s, fails) ==
  LET run == script[a]
      failed == run.failed \/ fails
  IN script' = [script EXCEPT
       ![a] = IF run.todo = {s} /\ (run.stage = "none" \/ failed) THEN Idle
              ELSE [run EXCEPT !.todo = @ \ {s}, !.failed = failed,
                      !.stage = IF run.todo = {s} THEN "copy" ELSE @]]

(* The check is created with the id of the file, or gets its name.         *)
OrmEnsures(a, s) ==
  /\ Takes(a, "orm", s)
  /\ checks' = [checks EXCEPT ![script[a].known[s]] = s]
  /\ OrmGoesOn(a, s, FALSE)
  /\ UNCHANGED <<root, backend, edit, ids, tried, runs, events>>

(* It cannot be saved: the script goes on with the next.                   *)
OrmFails(a, s) ==
  /\ Takes(a, "orm", s)
  /\ Happens
  /\ OrmGoesOn(a, s, TRUE)
  /\ UNCHANGED <<checks, root, backend, edit, ids, tried, runs>>

At(a, stage) == script[a] # Idle /\ script[a].stage = stage

CopyToBackend(a) ==
  /\ At(a, "copy")
  /\ backend' = root
  /\ script' = [script EXCEPT ![a].stage = "worker"]
  /\ UNCHANGED <<checks, root, edit, ids, tried, runs, events>>

(* `up ... && echo`: set -e does not apply, should it fail.                *)
RecreateWorker(a) ==
  /\ At(a, "worker")
  /\ \/ /\ Recreate({"worker"})
        /\ script' = [script EXCEPT ![a].stage = "cleanup"]
        /\ UNCHANGED events
     \/ /\ Happens
        /\ script' = [script EXCEPT ![a].stage = "cleanup", ![a].stale = TRUE]
        /\ UNCHANGED <<backend, edit, ids, tried>>
  /\ UNCHANGED <<checks, root, runs>>

(* A bug: only the last line of each check is read from the file. *)
UnnamedByLast == Registered \ {LastLine(root[s]) : s \in Service}

(* A bug: the ids are read from the file in backend/. *)
UnnamedInBackend == Registered \ IdsIn(backend)

(* The checks that are listed and not in the file, on whatever line.       *)
Unnamed == Registered \ IdsIn(root)

Cleanup(stage, stale) ==
  [NewRun("cleanup", stage, [s \in Service |-> NoId], {})
     EXCEPT !.listed = Unnamed, !.stale = stale]

StartCleanup(a) ==
  /\ Unnamed # {}
  /\ Start(a, Cleanup("none", FALSE))
  /\ UNCHANGED <<checks, root, backend, edit, ids, tried, events>>

BeginCleanup(a) ==
  /\ At(a, "cleanup") /\ Runs(a, "orm")
  /\ script' = [script EXCEPT ![a] = IF Unnamed = {} THEN Idle
                                     ELSE Cleanup("cleanup", @.stale)]
  /\ UNCHANGED <<checks, root, backend, edit, ids, tried, runs, events>>

(* One after the other is deleted, unless the request fails.               *)
CleanupDeletes(a, u) ==
  /\ Runs(a, "cleanup")
  /\ u \in script[a].listed
  /\ checks' \in {checks, [checks EXCEPT ![u] = NoCheck]}
  /\ LET run == script[a] IN
       script' = [script EXCEPT
         ![a] = IF run.listed = {u} THEN Idle
                ELSE [run EXCEPT !.listed = @ \ {u}]]
  /\ UNCHANGED <<root, backend, edit, ids, tried, runs, events>>

-----------------------------------------------------------------------------
(***************************************************************************)
(* EnhancedHealthchecksClient, the operator, and failures                  *)
(***************************************************************************)

(* The first ping of an id looks the check up, which may fail.             *)
LookUp(p, s) ==
  /\ edit[p] = Idle
  /\ ids["worker"][s] \notin tried[p] \cup {NoId}
  /\ tried' = [tried EXCEPT ![p] = @ \cup {ids["worker"][s]}]

FirstPing(p, s) ==
  /\ LookUp(p, s)
  /\ UNCHANGED <<checks, root, backend, edit, ids, script, runs, events>>

(* What does not exist is created, with another id...                      *)
FirstPingCreates(p, s) ==
  /\ LookUp(p, s)
  /\ ids["worker"][s] \notin Registered
  /\ \E u \in Uuid : CreateCheck(u, s) /\ ReadEnvFile(p, s, u)
  /\ UNCHANGED <<root, backend, ids, script, runs, events>>

(* ... which the file gets (at its end, if it has no line of s).           *)
FirstPingRecords(p) ==
  /\ edit[p] # Idle
  /\ LET s == edit[p].at IN
     IF edit[p].lines[s] # <<>> THEN WriteEnvFile(p)
     ELSE /\ backend' = [backend EXCEPT ![s] = Append(@, edit[p].id)]
          /\ edit' = [edit EXCEPT ![p] = Idle]
  /\ UNCHANGED <<checks, root, ids, script, tried, runs, events>>

(* A request is refused or fails for good: the script goes on.             *)
RequestFails(a, s) ==
  /\ \/ Runs(a, "ensure") /\ script[a].at = s /\ edit[a] = Idle
     \/ Takes(a, "sync", s)
     \/ Runs(a, "sync") /\ script[a].at = s
  /\ Done(a, s)
  /\ UNCHANGED <<checks, root, backend, edit, ids, tried, runs, events>>

(* A script is interrupted. *)
Interrupt(a) ==
  /\ script[a] # Idle
  /\ script' = [script EXCEPT ![a] = Idle]
  /\ EditsEnd({a})
  /\ UNCHANGED <<checks, root, ids, tried, runs, events>>

Quiet == \A a \in Admin : script[a] = Idle

(* Between scripts (a cleanup that runs would not see the new ids), the    *)
(* operator takes the ids of backend/ over...                              *)
Publish ==
  /\ Quiet
  /\ Happens
  /\ root' = backend
  /\ UNCHANGED <<checks, backend, edit, ids, script, tried, runs>>

(* ... recreates the containers...                                         *)
RecreateContainers ==
  /\ Quiet
  /\ Recreate(Container)
  /\ UNCHANGED <<checks, root, script, runs, events>>

(* ... or loses the database of Healthchecks.                              *)
LoseDatabase ==
  /\ Quiet
  /\ Happens
  /\ checks' = [u \in Uuid |-> NoCheck]
  /\ UNCHANGED <<root, backend, edit, ids, script, tried, runs>>

(* A file with ids from another machine, or none; nothing is registered.   *)
Init ==
  /\ checks = [u \in Uuid |-> NoCheck]
  /\ root \in [Service -> {<<>>} \cup {<<u>> : u \in Uuid}]
  /\ \A s, t \in Service : root[s] = root[t] => s = t \/ root[s] = <<>>
  /\ backend = root
  /\ ids = [c \in Container |-> Effective(root)]
  /\ script = [a \in Admin |-> Idle]
  /\ edit = [e \in Editor |-> Idle]
  /\ tried = [p \in Process |-> {}]
  /\ runs = 0
  /\ events = 0

Command(a) ==
  \/ StartEnsure(a)
  \/ StartSync(a)
  \/ StartSetup(a)
  \/ StartOrm(a)
  \/ StartAll(a)
  \/ StartCleanup(a)

Step(a) ==
  \/ \E s \in Service :
       \/ EnsureFinds(a, s) \/ EnsureMisses(a, s)
       \/ EnsureCreates(a, s) \/ EnsureRecords(a, s)
       \/ SyncFinds(a, s) \/ SyncCreates(a, s) \/ SyncDeletes(a, s)
       \/ SetupSkips(a, s) \/ SetupCreates(a, s) \/ SetupFails(a, s)
       \/ OrmEnsures(a, s) \/ OrmFails(a, s)
       \/ RequestFails(a, s)
  \/ SetupRecords(a)
  \/ CopyToBackend(a)
  \/ RecreateWorker(a)
  \/ BeginCleanup(a)
  \/ \E u \in Uuid : CleanupDeletes(a, u)

Next ==
  \/ \E a \in Admin : Command(a) \/ Step(a) \/ Interrupt(a)
  \/ \E p \in Process :
       \/ \E s \in Service : FirstPing(p, s) \/ FirstPingCreates(p, s)
       \/ FirstPingRecords(p)
  \/ Publish
  \/ RecreateContainers
  \/ LoseDatabase

Spec == Init /\ [][Next]_vars

-----------------------------------------------------------------------------
(***************************************************************************)
(* Properties                                                              *)
(***************************************************************************)

TypeOK ==
  /\ checks \in [Uuid -> Service \cup {NoCheck}]
  /\ root \in [Service -> Seq(Uuid)]
  /\ backend \in [Service -> Seq(Uuid)]
  /\ ids \in [Container -> [Service -> Id]]
  /\ script \in [Admin -> Run \cup {Idle}]
  /\ edit \in [Editor -> Edit \cup {Idle}]
  /\ tried \in [Process -> SUBSET Uuid]
  /\ runs \in 0..MaxRuns
  /\ events \in 0..MaxEvents

(* Whoever runs which scripts at once, none deletes a check whose id is in *)
(* the root file, on any of its lines: another container may still ping    *)
(* it.  A script that makes up for a wrong id deletes its own check only.  *)
NamedCheckIsKept ==
  [][\A u \in Uuid :
       checks[u] # NoCheck /\ checks'[u] = NoCheck /\ script # script'
         => u \notin IdsIn(root)]_vars

(* When the start script comes to its end, the check that the root file    *)
(* has for a service exists under the right name, whatever had been lost   *)
(* or created with other ids, whatever another admin does beside it; and   *)
(* the worker pings it, unless it could not be recreated.                  *)
EndsReconciled ==
  [][\A a \in Admin :
       (\/ BeginCleanup(a)
        \/ At(a, "cleanup") /\ \E u \in Uuid : CleanupDeletes(a, u))
       /\ script'[a] = Idle
         => \A s \in Named(root) :
              /\ checks'[LastLine(root[s])] = s
              /\ script[a].stale
                 \/ ids'["worker"][s] = LastLine(root[s])]_vars
===============================================================================
