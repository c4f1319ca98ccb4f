# Formal models of the SaaS platform backend

TLA+ specifications of the backend under `src/backend`: a multi-tenant document
platform in Flask, with one PostgreSQL database per tenant beside a main
database, S3 for file contents, and Celery workers on Redis for timestamping,
SSO maintenance and monitoring. The scripts that keep the monitoring's checks
registered are part of it. The specifications are model-checked with TLC on small
instances, and their main safety properties are proved with TLAPS for every
value of the constants.

Contents: [1 The system](#1-the-system) · [2 The modules](#2-the-modules) ·
[3 The runs](#3-the-runs) · [4 The proofs](#4-the-proofs) ·
[5 Disagreements](#5-disagreements-between-code-and-documentation) ·
[6 What is left out](#6-what-is-left-out) · [7 Next](#7-next)

## 1 The system

### Parts and their state

| part | code (`src/backend/app/`) | state | operations | status |
|---|---|---|---|---|
| Document and file API | `routes/documents.py`, `routes/files.py`, `models/file.py`, `models/document.py`, `utils/s3_client.py` | rows of `files` and `documents` in the tenant's database, objects in S3 | upload with deduplication by MD5, details, download, presigned URL, update, delete document, delete orphaned file, lists | modelled but for the lists: `DocumentStore` |
| TSA timestamping | `tasks/tsa_tasks.py`, `services/digicert_tsa_service.py`, `celery_app.py`, the three scheduling places of `routes/documents.py` | `file_metadata['tsa_timestamp']`, messages of the queue `tsa_timestamping` | schedule (upload, create, bulk route and task), execute, post, parse, record, retry | modelled: `TsaTimestamp` |
| Tenants and members | `routes/tenants.py`, `models/tenant.py`, `models/user_tenant_association.py`, `utils/database.py` | row of `tenants`, the tenant's database, rows of `user_tenant_associations` | create, soft delete, rename, add and remove members; SSO logins add members too | modelled: `TenantMembers` |
| SSO configuration | `services/tenant_sso_config_service.py`, `routes/sso_config.py` | row of `tenant_sso_configs`, `auth_method` and `sso_auto_provisioning` of the tenant | create, update, delete, enable, disable, auto-provisioning | modelled: `SsoConfig` |
| SSO login | `services/azure_ad_service.py`, `routes/sso_auth.py` | state and verifier in Redis or the session cookie; users, members, identities | initiate, callback, provisioning | modelled: `SsoLogin`, and `SsoConfig` for the provisioning |
| SSO tokens | `tasks/sso_tasks.py`, `models/user_azure_identity.py`, `routes/sso_auth.py` | encrypted refresh tokens with expiry dates, messages of the queue `sso` | refresh in batches, refresh on demand (route and task), login, logout, cleanup, key rotation | modelled but for the rotation: `SsoTokens` |
| Local authentication | `services/auth_service.py`, `routes/auth.py`, `__init__.py`, `extensions.py` | accounts, issued JWTs, the blacklist in Redis or in a process | register, login, refresh, logout, check | modelled: `AuthSession` |
| Tenant databases | `services/tenant_service.py`, `utils/database.py`, `tenant_db/tenant_migrations.py`, `../scripts/migrate_all_tenants.py` | row and database of a tenant, `tenant_schema_version`, the pools of the processes | create, update, soft and hard delete, migrate to latest, dry run, history | modelled: `TenantMigrations` |
| File and document services | `services/file_service.py`, `services/document_service.py` | rows of `files` and `documents` | upload, create, delete, clean up orphans in batches | modelled: `FileService` |
| Monitoring | `tasks/monitoring_tasks.py`, `monitoring/healthchecks_client.py`, `celery_app.py` | messages of the queue `monitoring`, what Healthchecks.io shows | probe, ping, comprehensive check | modelled: `Monitoring` |
| Checks at Healthchecks.io | `../scripts/*healthcheck*.py`, `scripts/healthcheck/*.sh`, `monitoring/enhanced_healthchecks_client.py` | registered checks, `.env.healthchecks` in the root and in `backend/`, the environments of containers | ensure, sync, set up, start, clean up | modelled: `Healthchecks` |
| Users | `routes/users.py`, `services/user_service.py` | rows of `users` | read, update | left out; unlinking an identity is in `SsoConfig` |
| Kafka | `services/kafka_service.py`, `worker/` | none (placeholders) | produce, consume | left out, section 6 |
| Vault and Graph clients | `utils/vault_client.py`, `services/vault_encryption_service.py`, `services/microsoft_graph_service.py` | none of their own | calls of other systems | left out; outcomes are choices |
| Schemas, responses, Swagger, other scripts | `schemas/`, `utils/responses.py`, `routes/swagger.py`, `../scripts/` | none | validation, formatting, manual jobs | left out |

### How the parts interact

* Gunicorn runs several workers. A handler on tenant data runs inside
  `tenant_db_session`, one transaction of the tenant's database that commits at
  the end of the `with` block or rolls back. A handler on platform data uses
  `db.session`, with one explicit commit. PostgreSQL's default, READ COMMITTED,
  is never changed, and no handler locks what it reads.
* An upload calls S3 in the middle of its transaction, and queues a
  `timestamp_file` task after the commit. The task and the handlers meet in the
  row of the file and nowhere else.
* Creating a tenant commits DDL on two other connections (`CREATE DATABASE`, the
  tables) while the transaction with the tenant's row is open.
* An SSO callback may insert members of a tenant beside the tenant handlers, and
  reads the configuration that admins change meanwhile. The tokens it stores are
  those the batch refresh, the refresh on demand and the logout work on.
* The processes of the API server share the blacklist of JWTs and the state of
  SSO logins through Redis, if they reached it when they started, and nothing
  otherwise: the blacklist is then a set in the process, the login's state a cookie.
* Each process keeps an engine, and so a connection, for every tenant database it has
  used. PostgreSQL refuses to drop a database that anyone is connected to.
* Beat, the queue and the workers of the monitoring are themselves among what it
  watches: when they stop, only missing pings tell.
* The ids of the checks reach the workers through two files and the environment a
  container got when it was created. Several scripts edit them, at any time.

### What is hard here, and what makes each part correct

* **Documents.** Checks and writes are different statements: the deduplication
  query against the insert, the count of a file's documents against the file's
  delete, a document's row against its file's row against the object. Only
  foreign keys, row locks and one unique path protect them. Correct means: a
  committed document has its row and its object; users see a library in which a
  document appears with its content and keeps it; no lock is waited for forever;
  a content is stored once, up to overlap.
* **Timestamps.** `task_acks_late` and Redis' visibility timeout deliver a message
  more than once, processes die anywhere, and two time limits end executions.
  Correct means: no file stays in progress with nothing working on it, requests
  of a limited quota stay bounded, and a stamped file is not stamped again.
* **Members.** Check-then-act on counts and on rows, and a creation of which half
  cannot be rolled back. Correct means: a visible tenant has its database, keeps
  an admin, and no role is changed by a race.
* **SSO configuration.** A handler reads the configuration and the tenant in two
  statements, and SQLAlchemy writes the columns that changed: two admins may each
  write half. Correct means: the tenant's login method and its configuration
  agree, a late request does not touch a configuration made after the one it has
  read, and nobody is provisioned against the configuration.
* **SSO login.** One cookie serves all tabs of a browser, and the verifier is in
  Redis or in the cookie depending on the process. Correct means: a login ends in
  the tenant it was begun for, or is refused for a reason.
* **SSO tokens.** A refresh token that is used may be invalid afterwards, and its
  successor is committed later. Correct means: what is stored can be used, a
  batch is retried a bounded number of times, and one failing identity does not
  starve the others.
* **Sessions.** A revoked token is refused until it expires, by every process.
* **Tenant databases.** Databases are created and dropped beside the transaction of
  the tenant's row; runs of the migrations meet, crash, and lose their database.
  Correct means: row and database go together, and the history tells what was
  applied, in order and once.
* **Cleanup.** Files are checked, flushed and committed at different times while
  documents come. Correct means: no document loses its file, and few orphans stay.
* **Monitoring.** What a probe saw is old when its ping arrives; pings are repeated,
  lost, and overtake each other. Correct means: an outage that lasts is shown, and
  so is its end.
* **Checks.** A script lists, decides, and acts service by service, while another
  changes what it has listed. Correct means: no check in use is deleted, and the
  workers' ids are those of existing checks of the right service.

## 2 The modules

| module | models |
|---|---|
| `DocumentLibrary` | what the document API promises: a map from documents to contents |
| `DocumentStore` | the store of one tenant, statement by statement; implements `DocumentLibrary` |
| `TsaTimestamp` | queue, worker slots and statuses of timestamping |
| `TenantMembers` | one tenant from its creation by the routes: row, database, roles |
| `SsoConfig` | the SSO configuration of one tenant, and the logins that read it |
| `SsoLogin` | the SSO logins of one browser: cookie, Redis, callback |
| `SsoTokens` | refresh tokens between the database, the batches and Azure AD |
| `AuthSession` | registration, JWTs and their blacklist, with and without Redis |
| `TenantMigrations` | the database of one tenant from creation to drop, and runs of the migrations on it |
| `FileService` | the cleanup of orphaned files among the other services |
| `Monitoring` | probes, pings and what Healthchecks.io shows |
| `Healthchecks` | the registered checks, the files with their ids, and the scripts |
| `MC*` | instances for TLC, with symmetry sets |
| `DocumentStore_proofs`, `TsaTimestamp_proofs`, `TenantMembers_proofs`, `SsoLogin_proofs`, `AuthSession_proofs` | theorems about the module of that name |
| `TenantDatabase_proofs` | theorems about `TenantMigrations` and `FileService` |
| `Sso_proofs` | theorems about `SsoConfig` and `SsoTokens` |
| `Healthchecks_proofs` | theorems about `Healthchecks` and `Monitoring` |

Each module also holds a few operators introduced by "A bug:". They are variants of
the definition that follows them, changed the way a mistake in the code would
change it, and are used to confirm that the properties notice; no
specification uses them.

### DocumentStore

`file`, `doc` and `s3` hold what everyone sees: committed rows and stored objects.
`tx[w]` is the request of worker `w`: its point (`pc`), and what it has read and
written. Uncommitted writes are not in `file` or `doc`; the operators `InsertsFile`,
`References`, `DeletesDoc`, `UpdatesDoc` and `DeletesFile` read from `tx` which locks a transaction
holds, and the guards of `InsertFile`, `InsertDocument`, `FlushDocDelete` and
`FlushFileDelete` are PostgreSQL's waiting.

* *Upload* (`documents.py:215-407`): `UploadReusingFile` or `UploadNewFile` (the query
  at 326), `InsertFile` (two flushes: the row is inserted under `{md5}_temp`, and
  `s3_path` is unique, so a second upload of the content waits here for the end
  of the first, then inserts its own row), `PutObject`, `InsertDocument`,
  `CommitUpload`, `ScheduleTsa`, each with its failure.
* *Delete document* (1410-1450): `DeleteDocument`, `FlushDocDelete`, `CommitDocDelete`.
* *Delete file* (`files.py:375-438`): `DeleteFile` counts the documents;
  `FlushFileDelete` is the `DELETE`, refused by the foreign key when a document has
  arrived since. The ORM cascade deletes only documents it loaded, and it
  loaded none. The object stays in S3: the handler logs that its deletion is not
  implemented.
* *Update* (1269-1372): `UpdateDocument`, `FlushDocUpdate` (the `UPDATE` waits for the
  row's lock; without the row it raises, `FlushDocUpdateFails`), `CommitDocUpdate`. If
  the request sets what the row has already, SQLAlchemy writes and locks nothing, and
  `AnswerDocUpdate` answers 200 with the row as it was read, even if it is gone by then.
* *Details, download, presigned URL* (414-488, 491-662, 1100-1267): `ReadDocument`, `LoadFile` (a lazy
  load: a statement of its own, `LoadFileFails` if the row is gone), then
  `ShowDocument`, `GetObject` or `SignUrl`.
* `Abort`: any failure or the death of the worker, at any point.

Abstractions: a content is its MD5 hash; an object is its path, which contains
the hash and the row's identifier; names, sizes, MIME types, permissions and
the `sha256` are left out. Identifiers are never reused (UUIDs), which
`FreshFileId` and `FreshDocId` ensure.

### TsaTimestamp

`status[f]` is the status in the metadata of file `f` (or `"gone"`, no row); `pending`
is the bag of messages that wait; `exec[s]` is what slot `s` executes. A message is a
file and a retry count, as `self.request` sees it. The points of an execution follow
`timestamp_file` (`tsa_tasks.py:86-234`): `CheckStatus` → `MarkInProgress` → the
request → `StoreTimestamp`, or an exception to `RecordError` → `Retry` or
`Acknowledge`. The request is the DigiCert client's: `EncodeFails`, or `PostRequest`,
which the client repeats by itself while there is no answer, up to `MaxPosts` times,
then `GiveUp` or `ParseResponse`. An answer is taken without comparing its nonce and
its hash with those that were sent, and without certificates if it has none:
`ParseResponse` either accepts or fails. `FailUnexpectedly` is the soft time limit and
every other exception inside the `try`. `lost` remembers files with an execution that
left no record (its `_store_error_metadata` failed, or the hard limit killed it).
`scheduled`, `redelivered` and `requests` are counters: history variables with a
bound. `up` is the set of slots the worker was started with; it never changes, so one
run covers a queue with one slot and one with two.

Faults: `Crash` (the message is requeued, `task_reject_on_worker_lost`), `Redeliver`
(the visibility timeout; the bulk route uses countdowns beyond it),
`HardTimeLimit` (Celery acknowledges the message of a task it kills for time).
The times themselves, the rate limit and the delay between retries are left
out: any order they could impose is among the interleavings.

### TenantMembers

`row`, `database` and `role` are committed state, `req[w]` the request of a worker
between two of its statements. `CreateTenant` → `CreateDatabase` → `CreateTables` →
`CommitTenant`, with `CreationFails`. `AddUser` → `CheckAddition` → `InsertMember`,
`RemoveUser` → `CheckRemoval` → `CountAdmins` → `DeleteMember`, `DeleteTenant` →
`Deactivate`, `UpdateTenant` → `Rename`. The first action of each is
`require_tenant_admin`. `ProvisionMember` is the insertion in `process_sso_login`.
`up` is the set of Gunicorn workers the server was started with, one or more. One
tenant is enough: a handler touches the rows of one tenant only.

### SsoConfig

`config` and `tenant` are the committed rows, `account` and `identities` what logins
have made, `req[w]` a request with the rows it has read. An admin's request is
`CreateConfig` → `CheckNoConfig` → `CommitCreate`, or one of `UpdateConfig`,
`EnableSso`, `DisableSso`, `UpdateAutoProvisioning` (→ `FlushConfig` → `LoadTenant` →
`CommitChange`) and `DeleteConfig` (→ `FindIdentities` → `LoadTenant` →
`CommitDelete`). `FlushConfig` is SQLAlchemy's autoflush: the query for the tenant
first writes the changed configuration, and its row stays locked. If nothing changed
there is nothing to write or lock. `TenantAfter` is what the handlers set, `Write`
and `WriteEnabled` that only columns with another value than was read are written. A
login is `BeginLogin` → `FindUser` → `CommitLogin`: it decides by the configuration and
the account it has read, and inserts what it has found missing. `RefuseInvalid` is
`validate_configuration`, `RefuseDomain` the list of e-mail domains; which values they
refuse is a choice.

`config_metadata` is changed in place, which SQLAlchemy does not see: what a
configuration says about provisioning is fixed when it is created. Left out: group to
role mappings, and the tokens that `disable_sso` clears with
`keep_azure_identities=False`.

### SsoLogin

`cookie` is the session in the browser, `redis` the entries `sso_session:<state>`,
`login[l]` how far a login is, `req[s]` one of the requests that may be in flight at
once. A request carries the cookie of the moment it is sent, and its answer replaces
the cookie of the moment it arrives. `Begin` and `Receive` are the redirection,
`SignIn` is Azure AD, which the user may `Decline`, `Callback` → `Retrieve` → `Delete`
(or `RetrieveFromSession`, `RetrieveFails`) → `Exchange` → `ProcessLogin` or
`RefuseClaims` → `Receive` the callback. The callback's two SELECTs of the configuration
are one step, and the exchange uses the row they have loaded (`InFlight` carries its
`mode`). A login stands for its state token, its
verifier and its code at once. `completed`, `refused` and `upset` are history: `upset`
are the logins that something outside interfered with (another login's answer, a
reload, an expired entry, a changed configuration, a failing Redis).

### SsoTokens

`stored[i]` is the refresh token in the row of identity `i`, `valid[i]` what Azure AD
accepts, `due` the identities whose access token expires soon, `queue[r]` the number of
messages with `r` retries, `exec[w]` a batch, `user[i]` a refresh on demand: the route
(`StartRefresh`) or the task `refresh_user_token` (`StartTask`, `RetryTask`), which nothing
queues. `CleanUp` → `CommitCleanUp` loads the identities that are too old and clears
them later, those refreshed meanwhile as well. `Receive` loads the
expiring identities; for each, `Skip`, `Exchange`, `ExchangeRefused` or `ExchangeFails`;
`Flush` is the autoflush that the next identity's query causes; `CommitBatch` ends it.
`FailIdentity` puts two messages into the queue, as the code does: `self.retry` raises
`Retry`, which the outer `except Exception` catches, and it retries once more. An answer without a new
refresh token (`ExchangeKept`, `KeepForUser`) leaves the column as it is, because the tasks
and the route pass the old token in its place. A login has none to pass:
`LoginWithoutToken` stores the text `None` (`NoneToken`; `azure_ad_service.py:523` returns
`None`, `user_azure_identity.py:219-221` formats it), which the batches count as failed
(`FailWithoutToken`) and the route sends to Azure AD. Tokens
are renamed when nobody has them any more (`ForgetUnused`). `cut` is history: the
identities that lost an exchanged token to a rollback or to a revocation.

### AuthSession

`token[t]` is an issued JWT, `blacklist[t]` the time until which Redis has its key,
`memory[p]` the fallback set of process `p`, `client[p]` whether `p` reached Redis
when it started (`RedisManager.init_app` tries once). A request is one or two steps:
`Register` → `InsertUser`, `Login` → `IssueTokens`, `Refresh` → `IssueAccessToken`,
`Logout` → `Revoke`. `Restart` is Gunicorn replacing a process, `RedisChanges` an
outage or its end, `Evict` the `allkeys-lru` policy of `docker-compose.yml:354`.
`steady` is history: no process has lost sight of a blacklist.

### TenantMigrations

`row` and `database` are the tenant's, `pool` the processes whose engine keeps a
connection to the database, `rows` the recorded versions; `applied[v]` counts the
commits of migration `v`. `call[p]` is a call of `TenantService`: `CreateTenant` →
`CreateDatabase` → `CreateTables` → migrations → `CommitCreation`, or `CreationFails`
at any of them; `FindTenant` → `CommitUpdate` (activation, deactivation, the soft
delete), or, for the hard delete, → `DropDatabase` → `DeleteRow`. `DropDatabase` is
refused while a pool or a run of the migrations is connected (`force` is off). `Serve`
is any request that opens the tenant's database.

`migr[m]` is the migrations in a process, run by the creation or by the script:
`Start` → `Plan` → `Read` → (`RunMigration` → `InsertVersion` → `CommitMigration`)\*.
`ReadFails` and `CreateVersionTable` are the bare `except` of `get_current_version`.
From the second migration on, a run holds the lock of the table of files;
`InsertVersion` waits for an open transaction that has inserted the same version, and
fails after its commit. The members that `TenantService` adds and removes are left out
(`TenantMembers` has those of the routes).

### FileService

`files` is the sequence of rows in the order PostgreSQL scans them, `docs[d]` the file of
a document, `scan` the cleanup: `StartCleanup` → (`FetchBatch` → `CheckFile`\* →
`CommitBatch`)\*. A file found without documents is `pending` until the next query
flushes it (`flushed`, its row is locked from then on). `FlushFails`: the flush meets the
foreign key of a document that was added; it raises where `is_orphaned` is called,
outside the `try` around one file, so the cleanup ends. Clients upload, create and
delete documents, and delete files; `UpdateFile` is a timestamp stored meanwhile.
`orphans` and `shifts` are history variables for `MissedIsBounded`. Two simplifications:
the cleanup asks for the documents of a file each time it comes to it, although a
session that does not expire its objects (`database.py:113`) may answer for a file it meets
again in a later batch from memory; and names, which `update_document` changes, are left out.

### Monitoring

`alive` are the services, Redis, the workers and beat that work; `queue` the tasks
that wait; `exec[e]` what a process of the monitoring worker does; `up` what
Healthchecks.io shows. `Schedule` → `Receive` → `Probe` → one ping after the other:
`PingArrives`, `PingUnanswered` (it arrives, the answer does not, and it is sent
again) or `PingLost`, up to `RetryCount` times. `NextPing` goes on to the next service
of the comprehensive check, or acknowledges the task. `Crash` kills a process, `Fail`,
`StopWorkers` and `Recover` are the services', `Tick` is the timeout and grace of a
check.

`ProbeKafka` and `ProbeCelery` say what the probes really find: `pgrep` looks for the
consumer in the container of the worker, and beat is taken to be well because some
worker answers. The checks of the consumer and of beat are therefore pinged and not
tracked in `up`. The routes are left out: they refuse every request (section 5).

### Healthchecks

`checks[u]` is the service of the check with id `u` at Healthchecks.io, `root` and
`backend` the two files `.env.healthchecks`, with the ids of a service line by line,
`ids[c]` the environment of container `c`, `script[a]` the script that admin `a` runs.
`edit[e]` is a rewriting of the file in `backend/`: all lines are read (`ReadEnvFile`), and
the whole file is written later (`WriteEnvFile`), so that two of them lose an update; one
that is interrupted may leave the file empty (`EditsEnd`).

There is one action per request or write of a script: `ensure_healthchecks.py`
(`EnsureFinds`, `EnsureMisses` → `EnsureCreates` → `EnsureRecords`),
`sync_healthchecks_uuids.py` (`SyncFinds`, `SyncCreates` → `SyncDeletes`),
`setup_healthchecks.py` (`SetupSkips`, `SetupCreates`, `SetupFails`, and `SetupRecords`,
which appends), the start script (`StartAll` → `OrmEnsures`\* → `CopyToBackend` →
`RecreateWorker` → `BeginCleanup`) and its two parts alone (`StartOrm`, `StartCleanup` →
`CleanupDeletes`\*). `RequestFails` passes over a service, `Interrupt` ends a script. The
start script runs under `set -e`: a check that cannot be saved (`OrmFails`) makes
`ensure_healthchecks_with_uuid.py` exit with 1 after the last one, which ends the start
script (`OrmGoesOn`). A container that cannot be recreated does not end it, since
`up ... && echo ...` is exempt from `set -e` (lines 41, 43 and 183): it goes on to the
cleanup and says that all is ready (`stale`).

`FirstPing`, `FirstPingCreates` and `FirstPingRecords` are
`EnhancedHealthchecksClient`, in the processes `Process` of the worker, each with its own
`_provisioned_checks` (`tried`): two of them may both create a check. The program imports
the plain client, and the documentation describes the other. The operator publishes
ids (`Publish`), recreates containers and may lose the database of Healthchecks.io.

## 3 The runs

Deadlock is checked where the modelled system never stops: `auth_session`,
`sso_tokens`, `file_service`, `healthchecks` and `monitoring`. The other runs say
`CHECK_DEADLOCK FALSE`: the instances really stop, when the identifiers are used up, when
all messages are done and the bounds reached, when the creation of the tenant failed
half way or the tenant was deleted. That no *request* gets stuck is the liveness
properties `RequestsFinish` and `RunEnds`.

| run | instance | what it shows |
|---|---|---|
| `store` | 2 workers, 1 hash, 3 files, 2 documents | `NoDanglingDocument`, `FileHasObject`, `DownloadFindsObject`, `TsaQueuedAfterCommit`, the refinement `ImplementsLibrary`; `RequestsFinish`: no circular or endless waiting for locks; `DuplicatesBounded`: rows with one content never outnumber the workers |
| `tsa_safety` | 1 file, 0 to 2 slots, 1 retry, 2 posts, 2 schedulings, 2 redeliveries | `InProgressIsOutstanding`, `RequestsBounded`, `NoRequestOnceStamped` (one slot), `InProgressEnds` |
| `tsa_kept` | 1 file, 1 slot, 3 retries | violates `TimestampKept`: section 5 |
| `members_safety` | 3 users, 0 to 2 workers | `TenantHasDatabase`, `RoleIsFixed`, `OneWorkerKeepsAdmin` |
| `sso_config` | 0 to 2 workers, 1 user, 3 configurations | `ChangesOwnConfig`, `LoginProvisions`; with one worker `OneWorkerAuthMatches` and `OneWorkerNoStrayIdentity` |
| `sso_login` | 2 logins, 2 tenants, 2 processes, 2 requests at once, 1 change | `CompletedWhereBegun`, and where every process has Redis `RefusedForAReason` and `VerifierIsConsumed` |
| `sso_tokens` | 2 identities of which one or both are enabled, 2 workers, 1 retry, with and without rotation and answers without a refresh token, 2 events, 5 token names; one of the users acts | `StoredIsValid`, `AttemptsBounded`; without rotation `RefreshedDespiteOthers` |
| `auth_session` | 2 processes, 1 user, 3 tokens, 4 ticks | `RevokedIsRefused`, `AccountKeepsOwner` |
| `tenant_migrations` | 2 processes, 3 migrations | `RecordedOnce`, `NoGaps`, `DoneIsComplete`, `RowMatchesDatabase`, `RunEnds` |
| `file_service` | 4 files, 2 documents, 1 client, batches of 2 | `DocumentsHaveFiles`, `MissedIsBounded` |
| `healthchecks` | 2 services, 3 ids, 2 admins, 2 scripts, 2 events, the enhanced client in 2 processes of the worker | `NamedCheckIsKept`, `EndsReconciled`, `TypeOK` |
| `monitoring` | Kafka and Celery (and Redis and beat), 2 processes, 2 tries | `OutageIsReported`, `RecoveryIsReported`, `ProbesTypeOK` |

The largest are `sso_config` and `sso_login` (2.1 million states each), `tsa_safety` and
`healthchecks` (0.6 million each) and `sso_tokens` (0.55 million).

The type invariants of all components are proved (section 4); those of
`Healthchecks` and `Monitoring` are checked by their runs, too.

### Why these bounds

* *Store.* The races are of two requests over one row (upload against file delete,
  upload against upload, download or update against the deletes). Three file
  identifiers exceed the two workers, so that `DuplicatesBounded` could fail, and allow
  a row that is deleted and uploaded again. With one hash no contents can be mixed up;
  that, and any number of workers, is left to the proofs (section 4).
* *TSA.* `MaxRetries` is 3 in the code and 1 in `tsa_safety`: the code treats
  "one more" and "the last" alike for every other count; `MaxPosts` is 3 in the client
  and 2 here for the same reason. Two schedulings and
  two redeliveries give two messages of one file and copies of both; executions
  of two files meet in nothing but the slots.
* *Members.* Two admins that remove each other need two workers; the third user
  is one added in between.
* *SSO configuration.* A late request, the deletion and the creation that overtake
  it need two workers, and three identifiers give a successor and one more. One
  user suffices: logins of two users touch different rows, and the two workers
  may log in the same user.
* *SSO login.* Two tabs; a process with Redis beside one without; a tenant to be
  confused with. The one change is a reconfiguration or a failure of Redis.
* *SSO tokens.* `MaxRetries` is 3 in the code: one retry gives an attempt that is
  retried and a last one. Two identities give one that fails beside one that has
  been exchanged, two workers the doubled retries at once. An event is a
  login, a logout, a refresh on demand, a cleanup, a crash, a revocation or a failed
  exchange, or an answer or a login without a refresh token; two of them give, say, a
  refresh in flight and a logout. The user of the
  other identity does nothing, what befalls it comes from the batches and the cleanup.
  Five names of
  tokens suffice for what two batches and a user hold (`CanIssue` never stops an
  exchange for long).
* *Sessions.* Access tokens live 1 tick, blacklist entries 2, refresh tokens 3:
  the order of 15 minutes, 1 day and 7 days. Three tokens are the pair of one
  login and one refreshed.
* *Tenant databases.* Three migrations, as in the code; the second process gives a run
  beside the creation, a run that meets one which is ahead, a request that keeps the
  database from being dropped, and a second hard delete.
* *Cleanup.* Two batches of two files, so that deletions in the first shift the
  second; the client's deletions and updates add shifts of their own.
* *Monitoring.* Two processes let an old success arrive after a new failure. Kafka and
  Celery are the probes with a second ping; the others are simpler. Two tries give
  a ping that is repeated and one that is given up (the code has 3).
* *Checks.* Two scripts at once, each of six kinds; two services give a list of which a
  part is done, three ids an id per service and one in place of another (an id that nobody has any
  more is used again), two processes of the worker a check that both create. An event is a
  lost database, a publication, a check that could not be saved or a container that could
  not be recreated; two of them give a loss and a start script that fails afterwards.

### Fairness

`FairSpec` of the store: weak fairness of a worker's statements that wait for nobody,
strong fairness of those that may wait for a lock. A running handler is
executed by its process, and PostgreSQL wakes the waiters of a lock in turn, so a
waiter that finds the lock free again and again gets it. `Abort` has no fairness:
requests must finish without being killed. `FairSpec` of timestamping: weak
fairness of each slot, a Celery process that takes messages while there are any
and goes on with its task. Scheduling, deletion and faults have none.
`tsa_kept` states `FairSpec` too. Tenant databases: strong fairness of
a process's progress through its call or its run, since PostgreSQL grants locks in
turn; crashes, failing migrations and failing calls have none. Monitoring: beat
schedules each probe for ever and time passes (weak), a worker takes each task in its
turn (strong, it competes with others) and goes on with what it has begun (weak: a probe
returns, though those of Redis and PostgreSQL set no timeout of their own, and monitoring tasks
have no time limit), and
of the pings for a check that are sent for ever some arrive (strong). Nothing is
assumed of the comprehensive check, of failures or of recoveries. `RecoveryIsReported`
has as a premise that processes stop crashing: a process that is killed before every
ping never reports. SSO tokens: weak fairness of beat and of a worker's `Receive`,
strong fairness of a worker's steps in a batch, which may wait for a row lock.

## 4 The proofs

Checked by TLAPS, for any number of workers, slots, users, files and contents: every
invariant and every action property of every run that passes, each type invariant, and
the refinement of `DocumentLibrary`. Assumptions on constants are the named `ASSUME`s of
each module, which TLC evaluates on every run: a null value is not a proper value
(`NoneIsNoValue`, `NoConfigIsNoRow`, `NoneAssumption`, `NoTokenAssumption`,
`NoFileAssumption`, `NoIdAssumption`, `NoCheckAssumption`), bounds are natural numbers
(`MaxChangesAssumption`, `BoundsAssumption` and the like), the comprehensive check goes
through at least one service (`OrderAssumption`), and a server has finitely many workers
(`WorkersAreFinite`, which only `DuplicatesBounded` needs, to count them).

Three modules of proofs extend two specifications each, which share no variable and no
step. For that, `FileService`, `SsoTokens` and `Monitoring` have a prefix where the others
say `Init`, `Next`, `Spec` and `TypeOK` (`FilesSpec`, `TokensSpec`, `ProbesSpec`).

The inductive invariants of the three SSO modules, of `FileService` and of
`Healthchecks`, `DuplicatesInv` and `PostsInv` hold on the instances of section 3, too,
as TLC confirms (`ConsumedInv` and `CalmInv` are read together with `SoundInv`). Three
things come back in several proofs:

* *Steps by what they leave alone.* Most steps of a module touch little that its
  invariant is about. An action-level definition says how little (`StoresNothing` in
  `Sso_proofs`, the lemmas `*Kept` and `Same*`); one lemma proves that such a step
  keeps the invariant, and each action is shown to be one.
* *Sums as cardinalities.* `Units(S, n)` is a set with `n[s]` elements for each `s`; its
  cardinality is the sum of them, and `UnitsChange` says what it becomes when one `n[s]`
  changes. That follows from the library's facts on unions and products of finite sets,
  without the recursion a sum would be defined by.
* *Induction over a set.* The library's theorems on induction have an operator as
  parameter, which the provers do not instantiate. `SetInduction` (`TenantDatabase_proofs`) says
  the same of a set of numbers, and follows from the least element of a set that is not
  empty (`WFMin`). It gives what a recursive function is for every argument
  (`KeptDefined`, `WithoutRows`).

**DocumentStore_proofs.** `TypeCorrect`: `Spec => []TypeOK`. `Invariant`:
`Spec => []IInv`. The safety properties are not inductive, and `IInv` adds what the
code relies on without saying so:

* `NewFileIsPrivate`, `NewDocIsPrivate`: fresh identifiers are known to one open
  transaction only, so nobody references or deletes the row before its commit;
* `NewFileStored`: past `PutObject`, an uncommitted row has its object, which gives
  `FileHasObject` at the commit;
* `ReusedFileHeld`: the row an upload reuses may vanish until its foreign key
  check, and not afterwards;
* `DeletedFileUnreferenced`: once the `DELETE` of a file went through, no document
  and no open insert references it, which gives `NoDanglingDocument`;
* `QueuedFileStored`: identifiers of queued tasks have been used.

`UpdatesHitRows` is proved beside it: a document whose `UPDATE` went through stays until its
commit (`UpdatedDocHeld`, inductive with `TypeOK`). It says nothing of a request that
changes nothing, which has no `UPDATE`.

There is one lemma per kind of step (`InsertFileKeeps`, `CommitNewFileKeeps`, ...) and
one sub-step per conjunct it can disturb; steps that write nothing shared go through
`SameRows`. `DocumentsKeepTheirFile`, `FilesAreStored`, `DownloadsSucceed` and
`TsaAfterCommit` follow. `StoreImplementsLibrary` proves the refinement: under `IInv`,
`CommitUpload` is `Add`, `CommitDocDelete` is `Remove` (or a stutter, when the row is
gone already), and every other step leaves each `ContentOf(d)` as it is.
`DuplicatesAreBounded`: `DuplicatesBounded` counts, beside the rows, the uploads about to
commit one (`CreatesFileWith`); under `IInv` it is inductive, with the sets it counts
finite (`DuplicatesInv`). The step that matters is `UploadNewFile`: it found no row with
the content, so only other workers are counted yet.

**TsaTimestamp_proofs.** `TypeCorrect`. `NothingDropped`: `InProgressIsOutstanding`, from
`ProgressInv`, which strengthens "an execution exists" to "an execution that still has a
record to write exists": an execution past its record would leave the file
behind when it is acknowledged. `OneSlotIsIdempotent`: with `OneSlot`, nothing can
stamp a file between a check and the request; with `TypeOK` that is inductive.
`PostsAreBounded`: `RequestsBounded`, from `PostsInv`, which adds to the requests made
those that can still be made: a message with `r` retries behind it stands for `Posts(r)`
of them, an execution for what it has left (`Left`). A scheduling and a redelivery add
`Posts(0)` at most, a retry replaces an execution by a message that stands for as many,
and a request moves one from the second kind to the first.

**TenantMembers_proofs.** `TypeCorrect`. `TenantsHaveDatabases`, from `CreationInv`: at most
one request creates the tenant, and the database is as far as that request.
`LastAdminStays`: `OneWorkerKeepsAdmin`, from `AdminInv`: who is to be deleted next
leaves another admin behind; `AnotherAdmin` gets that admin from the count.
`RolesAreFixed`: `RoleIsFixed`, since an insertion conflicts with an existing row.

**TenantDatabase_proofs: TenantMigrations.** For any number of processes and migrations. `IInv` joins
`TypeOK` with two groups. `History`: the recorded versions have no gaps
(`Contiguous`), a run works at the next version (`InOrder`), a version that is
inserted and not committed is inserted by one run only (`InsertedOnce`), who is done
is at the target (`DoneAtTarget`), and there are rows only in a database
(`RowsInDatabase`). `Tenant`: nobody else touches a tenant that is being created
(`AloneWhileCreating`, `Untouched`), and each point of a call knows its database
(`Stages`). `HistoryIsTrue`, `HistoryHasNoGaps`, `DoneMeansComplete` and
`RowAndDatabase` follow.

**AuthSession_proofs.** For any number of clients, processes and tokens. `IInv` adds
to `TypeOK` that an access token expires before a blacklist entry made at the same
time would (`AccessExpires`, `KeyOutlives`: the assumption is `AccessLife` ≤
`BlacklistLife`), that logouts revoke access tokens (`RevokesAccess`), that in
`steady` times either all processes use Redis or none does (`ClientsAgree`), and that
a process without Redis keeps what it has revoked (`Remembers`). `RevokedStayRefused`
follows; `OwnersStay` is an action property.

**Sso_proofs: SsoConfig.** For any number of workers, users and configurations.
`RequestCorrect`: `RequestInv` gives each request what its operation has read by that
point (`AdminShape`, `LoginShape`), and says that a request between its flush and its
commit is alone and that the row it has written is there (`LockInv`). `TypeCorrect`,
`ChangesOwn` (`ChangesOwnConfig`) and `LoginsProvision` (`LoginProvisions`) follow: a
commit changes the row that is locked, or, without a lock, nothing of it. The second covers
every way of becoming a member by a login, that of a member who was removed and kept the
identity as well.
`OneWorkerCorrect`: with one worker, `Current` says that what its request has read is
what is committed, which makes `AuthMatchesConfig` and the identities of a deleted
configuration inductive (`OneWorkerInv`). `AuthMatches` and `NoStrayIdentity` follow.

**SsoLogin_proofs.** For any number of logins, tenants, processes and requests at once.
`SoundCorrect`: `SoundInv` follows the session through the cookie, the requests that
carry it and their answers: wherever it holds a state, its tenant is that login's
(`Sound`), and a request that has validated its state has that tenant (`RequestSound`).
`TypeCorrect` and `CompletedWhereItBegan` (`CompletedWhereBegun`) follow, with Redis or
without. `VerifierConsumed`: `VerifierIsConsumed`, from `ConsumedInv`: from the exchange
on, a login has no entry in Redis. `RefusedWithReason`: `RefusedForAReason`, from
`CalmInv`, which says what a login that nothing has upset finds at each of its points
(`CalmLogin`, `CalmRequest`): its entry, its cookie, a configuration that still fits, a
code nobody has redeemed. `Stray` is what makes it inductive: a callback that arrives
with the session of another login has upset that one, or it is over.

**Sso_proofs: SsoTokens.** For any number of identities, workers and retries.
`TokensTypeCorrect`.
`SoundCorrect`: the invariant `TokenInv` behind `StoredIsValid` is that a token which
somebody has exchanged and not stored is valid, or its identity is in `cut`
(`BatchSound`, `UserSound`), and that nobody else has it: not the row, not a user, not
another worker (`OnlyOf`). So no other exchange spends it before it is stored. `TodoInv`
keeps a batch from exchanging twice what it has saved; `StoredSound` strengthens
`StoredIsValid` by the rotation. The steps that neither exchange nor store a token are
one case (`StoresNothing`). The token in flight of a worker or a user is a *new* one
(`Exchanged`, `NewForUser`): an answer without a refresh token saves the identity and leaves
nothing to be stored. `StoredCorrect` follows. The text `None` is in none of these
statements, as it is no token: they hold although a login may store it at any time.
`AttemptsCorrect`: `AttemptsBounded`, from `AttemptsInv`. A batch with `r` retries behind
it has the weight 2^(MaxRetries − r); the weights in the queue and in execution never
add up to more than 2^MaxRetries, since a batch that fails is replaced by two of half its
weight, one that crashes by itself, and beat schedules when there is none. `PowerOfSum`
gets 2^(a + b) = 2^a · 2^b from a bijection between sets of subsets.

**TenantDatabase_proofs: FileService.** For any number of files, documents and clients, and any size of a
batch. `RowsCorrect`: `RowsInv` adds to `FilesTypeOK` that no row occurs twice
(`DistinctRows`), that what the cleanup has flushed, and what `orphans` remembers, is
referenced by no document (`FlushedOrphaned`, `OrphansOrphaned`), and that between two
batches nothing is in hand (`OnlyWhileChecking`). `FilesTypeCorrect` and `DocumentsKeepFiles`
(`DocumentsHaveFiles`) follow: a row goes only when it is flushed or when nothing refers
to it. `FewAreMissed` (`MissedIsBounded`) needs `MissedInv`: of the rows up to where the cleanup has read (`Reached`), no more
orphans than `shifts` are neither in hand nor gone (`PassedOver`). The steps that take rows
away are what it is about: when a set `D` of rows goes, each row that stays moves
forward by at most the size of `D`, so at most that many come to be passed, and `shifts` grows
by as many. `WithoutRows` says that of `Without(D)`, by induction over the rows. A row
that moves to the end (`UpdateFile`) lets at most one be passed.

**Healthchecks_proofs: Healthchecks.** For any number of services, ids, admins and runs.
`OneOwnerAlways`: `OneOwner` says that an id belongs to one service for ever, whoever has
it: Healthchecks.io, a line of a file, an environment, a script that is under way. So an
id that a file has for a service is, if anything, that service's check. `TypeCorrect`
comes with it. `DeletesUnnamed` says that what a script may delete is on no line of the
root file: the cleanup lists only what the file does not name, a check that a script has
made has a fresh id, and no script writes the root file (the operator publishes it
while none runs). `NamedCheckStays` (`NamedCheckIsKept`) follows. `Reconciles` and
`StageShape` follow the start script: what it is through with, without a check that
could not be saved, exists under its name, its view is the root file's, and past the
recreation of the worker the worker's environment is, too, unless the script is `stale`. `StartEndsReconciled` (`EndsReconciled`) is that at its last step.

**Healthchecks_proofs: Monitoring.** `ProbesTypeCorrect`: `ProbesTypeOK`, for any services in any
order, any number of processes and tries. It is inductive together with the place of
a process being one within what its task probes (`WithinTask`): a task of one service
has one place, the comprehensive check as many as there are services.

`OneSlot` and `OneWorker` are hypotheses within `NoRequestOnceStamped`,
`OneWorkerKeepsAdmin`, `OneWorkerAuthMatches` and `OneWorkerNoStrayIdentity`, and
`AllHaveRedis` is one within `RefusedForAReason` and `VerifierIsConsumed`, because the
statements fail without them (section 5).

**Only model-checked:** the liveness properties `RequestsFinish`, `InProgressEnds`,
`RunEnds`, `RefreshedDespiteOthers`, `OutageIsReported` and `RecoveryIsReported`. They rest
on fairness, and with it on `ENABLED`, which the prover does not reason about.
`TimestampKept` is violated and has no theorem.

## 5 Disagreements between code and documentation

One is a run:

* `TimestampKept` — `tsa_tasks.py:8`: "Idempotent task execution". A second delivery whose
  first SELECT fails, or a soft limit after the commit, writes an error over
  a stored token.

The others are visible in the modules; the properties above say what holds instead.

* `models/file.py:62`: "If a user uploads the same file twice, only one File record is
  created." Two uploads that overlap both find none; the second waits at the unique
  temporary path until the first has committed, and inserts its own row. `md5_hash`
  has a plain index. `DuplicatesBounded` is what holds.
* `tsa_tasks.py:51`: "This task is idempotent". It is with one slot
  (`NoRequestOnceStamped`); `docker-compose.yml:424` starts the queue with two.
* `documents.py:813`: `"force": false  // If true, replaces existing timestamp`. The queued
  task does not know of `force` and skips the file.
* `tenants.py:640`: "Admins cannot remove themselves if they are the last admin." Two
  removals at once can. One worker keeps an admin.
* `tenant_sso_config_service.py:454` and `:148` change `config_metadata` in place. The
  column has no mutable type, so the change is not stored: the answer shows a setting
  that the next request does not find, and logins go on with the old one.
* Enabling an enabled configuration writes no column of it and locks nothing: it
  overtakes a deletion or a disabling by another admin, and the tenant is left with
  `auth_method` `sso` and no usable configuration. `OneWorkerAuthMatches` holds with
  one worker only.
* A member who is removed keeps the Azure identity, which then keeps the
  configuration from being deleted without `force`.
* `routes/auth.py` does not look at `auth_method`: a tenant with `sso` only still accepts
  passwords.
* A confidential client's login (`client_secret`, which `create_sso_config` demands) needs
  no verifier, but a process without Redis refuses a login that has none
  (`azure_ad_service.py:680`). A stale verifier in the cookie lets it pass that check.
* `azure_ad_service.py:606` says 10 minutes, `config.py:96` makes it an hour.
* A second tab that begins a login overwrites the first one's state; the callback
  of the first is refused. A callback ends in the tenant it was begun for all the
  same (`CompletedWhereBegun`).
* With tokens that rotate, one identity that fails rolls back the others that were
  exchanged in its batch: their stored tokens are spent. This is `cut` in
  `StoredIsValid`. A batch that fails is retried twice at each attempt.
* A refresh in flight writes tokens back after a logout has cleared them, and the
  cleanup clears a token that was refreshed since it has loaded the row.
* `rotate_encryption_keys` has no effect on the tokens that `save_tokens` stores with the
  prefix `dev:`: rewrapping fails, and the original is kept. `refresh_user_token` is queued
  by nobody.
* `process_sso_login` trusts an ID token whose signature is not verified; that its tenant
  is another one is only logged.
* `decorators.py:148`: `tenant_required` gives everyone the role `admin`, with a TODO.
* The blacklist does not span processes without Redis, and forgets what Redis
  evicts. A logout revokes the access token only.
* `file_service.py:540`: "Continues processing even if individual deletions fail". The
  deletion fails at a later flush, outside the `try`, and ends the cleanup.
* The cleanup moves its OFFSET by a full batch although rows before it are gone, and
  skips as many (`MissedIsBounded`).
* `--dry-run`, "no changes will be made" (`migrate_all_tenants.py:217`), creates the version
  table of a tenant that has none.
* `tenant_service.py:384`: "Hard delete terminates all active connections to database".
  `force` is off, and the drop is refused while any process keeps a connection in its
  pool, the one that deletes included.
* `create_tenant` swallows the errors of the migrations, and leaves the database of a
  creation that failed behind.
* `models/base.py:211`: `before_insert` is "called automatically by SQLAlchemy event
  listeners". `register_base_model_events` is never called.
* `monitoring_tasks.py:388` looks for the Kafka consumer with `pgrep` in its own
  container, and finds none; `:304` takes beat to be healthy because some worker answers.
  `celery_app.py:201` schedules `monitoring.check_kafka_consumer`, which no task has as its
  name.
* The routes of `routes/monitoring.py` answer every request with 403: `role_required` needs
  a role that only `tenant_required` sets (`decorators.py:190`).
* `setup_healthchecks.py` appends ids to the file, and the other scripts rewrite the first
  line of a check, while readers take the last: the check that a script has made is
  not the one that is pinged.
* A check that `ensure_healthchecks.py` cannot look up counts as missing and gets a
  second id.
* The start script says "Healthchecks.io is ready!" although it could not recreate a
  container (`up ... && echo`, lines 41, 43 and 183): the worker goes on with the ids it
  had, and the cleanup that follows may delete their checks. `EndsReconciled` excepts this
  (`stale`). A check that could not be saved does end the script:
  `ensure_healthchecks_with_uuid.py` exits with 1, to which `set -e` applies.
* `ensure_healthchecks.py` rewrites the whole file from what it has read: two runs at once lose
  an id, and an interrupted one may leave the file in `backend/` empty.
* A login that is given no refresh token stores the text `None` as if it were one
  (`user_azure_identity.py:220`); every batch then counts the identity as failed
  (`sso_tasks.py:80-83`), until its next login.
* `cleanup_duplicate_healthchecks.py` looks for the tag `auto-created`, which nothing
  sets any more.

## 6 What is left out

* Lists and other routes that only read (`get_file`, the download of a timestamp, statistics
  of the SSO configurations, health routes); formatting and logging; which values a
  validation refuses; the content of tokens, certificates and ciphertexts; passwords.
* `services/user_service.py` and the members of `TenantService` repeat the routes;
  only tests call them. The profile routes of `routes/users.py` read and write one
  row.
* *Kafka.* `run_consumer` sleeps until it is stopped, its loop is a comment; the handlers
  log what they would do; no component calls the producer but the demonstration
  routes. There is no behaviour to model.
* *Vault and Microsoft Graph clients* are calls of other systems: their outcomes appear
  as choices.
* `rotate_encryption_keys` commits once, and changes no token that is stored.
  `disable_sso` with `keep_azure_identities=False` clears the tokens of a tenant:
  `SsoConfig` has no tokens, and `SsoTokens` fixes which configurations are enabled.
* What the probes measure beside success; `monitoring/decorators.py`, which nothing
  uses; tags, schedules and descriptions of checks.
* Hazards that happen, and which the properties except by name or by a hypothesis: a
  status left in progress by the hard time limit (`lost`), tokens rolled back with a
  batch (`cut`), a hard delete interrupted after the drop (`dropped`), races of two
  workers that `OneWorker...` and `NoRequestOnceStamped` exclude, a blacklist that is not
  steady, logins where only some processes have Redis, a worker that the start
  script could not recreate (`stale`). `PROJECT.json` lists them with their lines.
* Scripts that set up, test or print (`init_db.py`, `setup_migrations.py` and the like).

## 7 Next

Every safety property of the runs has its theorem; what is left is to say more. Two
statements would be worth a property and a proof: that an identity of a tenant whose
`disable_sso` clears the tokens is not given any back by a batch in flight (it joins
`SsoConfig` and `SsoTokens`), and that the members of a tenant go with it when
`TenantService` drops it (it joins `TenantMembers` and `TenantMigrations`).
