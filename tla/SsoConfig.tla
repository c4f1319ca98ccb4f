------------------------------ MODULE SsoConfig ------------------------------
(***************************************************************************)
(* The SSO configuration of one tenant (tenant_sso_configs), the columns   *)
(* of the tenant's own row that follow it (auth_method and                 *)
(* sso_auto_provisioning), the admins who change both through              *)
(* routes/sso_config.py, and the SSO logins that read them and add users,  *)
(* members and Azure identities.                                           *)
(*                                                                         *)
(* A handler reads the configuration, then the tenant, and commits once.   *)
(* Nothing locks what it has read.  SQLAlchemy writes a column only when   *)
(* the handler gives it a value other than the one it has read; a changed  *)
(* configuration is flushed by the SELECT of the tenant (autoflush), and   *)
(* its row is locked from then on.  An UPDATE that finds no row fails      *)
(* (StaleDataError), a DELETE that finds none only warns.                  *)
(*                                                                         *)
(* config_metadata is changed in place, which SQLAlchemy does not notice:  *)
(* what a configuration says about provisioning stays as it was created.   *)
(***************************************************************************)
EXTENDS Naturals, FiniteSets

CONSTANTS
  Worker,    \* request handlers there may be
  User,      \* people with an account at Azure AD
  ConfigId,  \* primary keys of configurations
  NoConfig   \* the configuration of a tenant without one

VARIABLES
  up,          \* the workers the server was started with
  config,      \* the configuration, or NoConfig
  tenant,      \* auth_method and sso_auto_provisioning of the tenant
  account,     \* account[u]: "absent", "outsider" or "member" of the tenant
  identities,  \* users with an Azure identity in the tenant
  req          \* req[w]: the request worker w executes

vars == <<up, config, tenant, account, identities, req>>

AuthMethod == {"local", "sso", "both"}

Config == [id : ConfigId, enabled : BOOLEAN, provision : BOOLEAN]

ASSUME NoConfigIsNoRow == NoConfig \notin Config

Tenant == [auth : AuthMethod, provision : BOOLEAN]

NewTenant == [auth |-> "local", provision |-> FALSE]

(* What an admin asks for. *)
Operation ==
  [kind : {"create"}, enable : BOOLEAN, provision : BOOLEAN]
  \cup [kind : {"update"}, enabled : {"on", "off", "kept"}, other : BOOLEAN]
  \cup [kind : {"enable"}, method : {"sso", "both"}]
  \cup [kind : {"disable"}]
  \cup [kind : {"delete"}, force : BOOLEAN]
  \cup [kind : {"provisioning"}, on : BOOLEAN]

Idle == [pc |-> "idle"]

(* `cfg` and `read` are the configuration and (from LoadTenant on) the      *)
(* tenant as read in this session, `found` the rows of identities that     *)
(* were found and are still there; `wrote` says that the row of the        *)
(* configuration is written, and locked.                                   *)
AdminRequest ==
  [pc : {"exists", "identities", "flush", "tenant", "commit"},
   op : Operation, cfg : Config \cup {NoConfig}, read : Tenant,
   found : SUBSET User, wrote : BOOLEAN]

(* `seen` and `had` are the user's account and identity as the login has   *)
(* read them; the identity may be deleted since.                           *)
LoginRequest ==
  [pc : {"exchange", "login"}, user : User, cfg : Config,
   seen : {"absent", "outsider", "member"},
   had : {"none", "there", "deleted"}]

Finish(w) == req' = [req EXCEPT ![w] = Idle]

(* Request r after the rows of identities `gone` are deleted. *)
Without(r, gone) ==
  CASE r.pc = "login" ->
         IF r.user \in gone /\ r.had = "there"
         THEN [r EXCEPT !.had = "deleted"] ELSE r
    [] r.pc \in {"tenant", "commit"} -> [r EXCEPT !.found = @ \ gone]
    [] OTHER -> r

Goto(w, to) == req' = [req EXCEPT ![w].pc = to]

(* A bug: the row is taken by its tenant_id. *)
RowOfTenant(c) == config # NoConfig

(* The row that was read is still there. *)
RowIs(c) == config # NoConfig /\ config.id = c.id

(* An UPDATE of the configuration has been flushed and not committed. *)
ConfigLocked == \E w \in Worker : req[w].pc \in {"tenant", "commit"}
                                    /\ req[w].wrote

FreshId ==
  {i \in ConfigId :
     /\ config # NoConfig => config.id # i
     /\ \A w \in Worker :
          \/ req[w] = Idle
          \/ req[w].cfg = NoConfig
          \/ req[w].cfg.id # i}

-----------------------------------------------------------------------------
(***************************************************************************)
(* What the handlers write                                                 *)
(***************************************************************************)

(* is_enabled, as the handler sets it on the configuration it has read. *)
Enabled(o, c) ==
  CASE o.kind = "enable" -> TRUE
    [] o.kind = "disable" -> FALSE
    [] o.kind = "update" /\ o.enabled # "kept" -> o.enabled = "on"
    [] OTHER -> c.enabled

(* Something is left to flush: a value other than the one that was read. *)
Dirty(o, c) ==
  \/ Enabled(o, c) # c.enabled
  \/ o.kind = "update" /\ o.other

(* The columns of the tenant, as the handler sets them on what it read. *)
TenantAfter(o, c, t) ==
  CASE o.kind = "create" ->
         IF ~o.enable THEN t
         ELSE [auth |-> IF t.auth = "local" THEN "both" ELSE t.auth,
               provision |-> t.provision \/ o.provision]
    [] o.kind = "update" ->
         IF Enabled(o, c) /\ t.auth = "local" THEN [t EXCEPT !.auth = "both"]
         ELSE IF ~Enabled(o, c) /\ t.auth = "sso"
         THEN [t EXCEPT !.auth = "local"]
         ELSE t
    [] o.kind = "enable" -> [t EXCEPT !.auth = o.method]
    [] o.kind = "disable" -> [auth |-> "local", provision |-> FALSE]
    [] o.kind = "delete" ->
         IF t.auth = "local" THEN t
         ELSE [auth |-> "local", provision |-> FALSE]
    [] o.kind = "provisioning" -> [t EXCEPT !.provision = o.on]

(* is_enabled is written only if the handler set it to another value; the  *)
(* UPDATE of the other columns leaves it as it is.                         *)
WriteEnabled(o, c) ==
  config' = IF Enabled(o, c) = c.enabled THEN config
            ELSE [config EXCEPT !.enabled = Enabled(o, c)]

(* Nor is a column of the tenant written that does not differ.             *)
Write(o, c, t) ==
  LET new == TenantAfter(o, c, t) IN
  tenant' = [auth |-> IF new.auth # t.auth THEN new.auth ELSE tenant.auth,
             provision |-> IF new.provision # t.provision
                           THEN new.provision ELSE tenant.provision]

-----------------------------------------------------------------------------
(***************************************************************************)
(* POST .../sso/config: create_sso_config                                  *)
(***************************************************************************)

(* The tenant is read first. *)
CreateConfig(w, enable, provision) ==
  /\ req[w] = Idle
  /\ req' = [req EXCEPT ![w] =
       [pc |-> "exists", cfg |-> NoConfig, read |-> tenant, found |-> {},
        wrote |-> FALSE,
        op |-> [kind |-> "create", enable |-> enable,
                provision |-> provision]]]
  /\ UNCHANGED <<config, tenant, account, identities>>

CheckNoConfig(w) ==
  /\ req[w].pc = "exists"
  /\ IF config = NoConfig THEN Goto(w, "commit") ELSE Finish(w)
  /\ UNCHANGED <<config, tenant, account, identities>>

(* tenant_id is unique: a configuration that was created in between fails  *)
(* the commit, and the change of the tenant is rolled back with it.        *)
CommitCreate(w) ==
  /\ req[w].pc = "commit"
  /\ req[w].op.kind = "create"
  /\ IF config = NoConfig
     THEN /\ \E i \in FreshId :
               config' = [id |-> i, enabled |-> req[w].op.enable,
                          provision |-> req[w].op.provision]
          /\ Write(req[w].op, NoConfig, req[w].read)
     ELSE UNCHANGED <<config, tenant>>
  /\ Finish(w)
  /\ UNCHANGED <<account, identities>>

-----------------------------------------------------------------------------
(***************************************************************************)
(* PUT, POST enable, POST disable, DELETE, PUT auto-provisioning           *)
(***************************************************************************)

(* find_by_tenant_id finds the configuration; without one the handler ends *)
(* here.                                                                   *)
ChangeConfig(w, op, at) ==
  /\ req[w] = Idle
  /\ config # NoConfig
  /\ req' = [req EXCEPT ![w] =
       [pc |-> at, op |-> op, cfg |-> config, read |-> NewTenant,
        found |-> {}, wrote |-> FALSE]]
  /\ UNCHANGED <<config, tenant, account, identities>>

UpdateConfig(w) ==
  \E enabled \in {"on", "off", "kept"}, other \in BOOLEAN :
    ChangeConfig(w, [kind |-> "update", enabled |-> enabled,
                     other |-> other], "flush")

EnableSso(w) ==
  \E method \in {"sso", "both"} :
    ChangeConfig(w, [kind |-> "enable", method |-> method], "flush")

DisableSso(w) == ChangeConfig(w, [kind |-> "disable"], "flush")

DeleteConfig(w) ==
  \E force \in BOOLEAN :
    ChangeConfig(w, [kind |-> "delete", force |-> force], "identities")

UpdateAutoProvisioning(w) ==
  \E on \in BOOLEAN :
    ChangeConfig(w, [kind |-> "provisioning", on |-> on], "tenant")

(* A bug: the deletion does not ask who still has an identity. *)
FindNoIdentities(w) ==
  /\ req[w].pc = "identities"
  /\ Goto(w, "tenant")
  /\ UNCHANGED <<config, tenant, account, identities>>

(* delete_sso_config refuses while users have identities, unless forced. *)
FindIdentities(w) ==
  /\ req[w].pc = "identities"
  /\ IF identities # {} /\ ~req[w].op.force
     THEN Finish(w)
     ELSE req' = [req EXCEPT ![w].pc = "tenant", ![w].found = identities]
  /\ UNCHANGED <<config, tenant, account, identities>>

(* The autoflush before the SELECT of the tenant: the UPDATE waits for the *)
(* lock of another, and fails if the row is gone.                          *)
FlushConfig(w) ==
  /\ req[w].pc = "flush"
  /\ IF ~Dirty(req[w].op, req[w].cfg)
     THEN Goto(w, "tenant")
     ELSE /\ ~ConfigLocked
          /\ IF RowIs(req[w].cfg)
             THEN req' = [req EXCEPT ![w].pc = "tenant", ![w].wrote = TRUE]
             ELSE Finish(w)
  /\ UNCHANGED <<config, tenant, account, identities>>

LoadTenant(w) ==
  /\ req[w].pc = "tenant"
  /\ req' = [req EXCEPT ![w].pc = "commit", ![w].read = tenant]
  /\ UNCHANGED <<config, tenant, account, identities>>

(* A bug: the update leaves a tenant that only had SSO without a login. *)
CommitEnabledOnly(w) ==
  /\ req[w].pc = "commit"
  /\ req[w].op.kind \in {"update", "enable", "disable", "provisioning"}
  /\ WriteEnabled(req[w].op, req[w].cfg)
  /\ IF req[w].op.kind = "update"
     THEN UNCHANGED tenant
     ELSE Write(req[w].op, req[w].cfg, req[w].read)
  /\ Finish(w)
  /\ UNCHANGED <<account, identities>>

(* The flushed change of the configuration becomes visible, together with  *)
(* that of the tenant.                                                     *)
CommitChange(w) ==
  /\ req[w].pc = "commit"
  /\ req[w].op.kind \in {"update", "enable", "disable", "provisioning"}
  /\ WriteEnabled(req[w].op, req[w].cfg)
  /\ Write(req[w].op, req[w].cfg, req[w].read)
  /\ Finish(w)
  /\ UNCHANGED <<account, identities>>

(* validate_configuration refuses what was asked for, or what the          *)
(* configuration has been changed to: nothing has been flushed yet.        *)
RefuseInvalid(w) ==
  /\ \/ req[w].pc = "commit" /\ req[w].op.kind = "create"
     \/ req[w].pc = "flush" /\ req[w].op.kind \in {"update", "enable"}
  /\ Finish(w)
  /\ UNCHANGED <<config, tenant, account, identities>>

(* The identities that were found and the row that was read are deleted,   *)
(* as far as they are still there; the tenant is written in any case.      *)
CommitDelete(w) ==
  /\ req[w].pc = "commit"
  /\ req[w].op.kind = "delete"
  /\ ~ConfigLocked
  /\ config' = IF RowIs(req[w].cfg) THEN NoConfig ELSE config
  /\ identities' = identities \ req[w].found
  /\ Write(req[w].op, req[w].cfg, req[w].read)
  /\ req' = [v \in Worker |-> IF v = w THEN Idle
                              ELSE Without(req[v], req[w].found)]
  /\ UNCHANGED account

-----------------------------------------------------------------------------
(***************************************************************************)
(* GET .../azure/callback: an SSO login                                    *)
(***************************************************************************)

(* The enabled configuration is read; auth_method is not looked at again.  *)
(* Then Azure AD exchanges the code, which takes its time.                 *)
BeginLogin(w, u) ==
  /\ req[w] = Idle
  /\ config # NoConfig /\ config.enabled
  /\ req' = [req EXCEPT ![w] =
       [pc |-> "exchange", user |-> u, cfg |-> config, seen |-> "absent",
        had |-> "none"]]
  /\ UNCHANGED <<config, tenant, account, identities>>

(* process_sso_login: who is no member yet needs a configuration, as it    *)
(* was read, that provisions.                                              *)
FindUser(w) ==
  /\ req[w].pc = "exchange"
  /\ LET u == req[w].user IN
     IF account[u] # "member" /\ ~req[w].cfg.provision
     THEN Finish(w)
     ELSE req' = [req EXCEPT ![w].pc = "login", ![w].seen = account[u],
                             ![w].had = IF u \in identities
                                        THEN "there" ELSE "none"]
  /\ UNCHANGED <<config, tenant, account, identities>>

(* allowed_email_domains of the configuration, as it was read, may leave   *)
(* the user's domain out.                                                  *)
RefuseDomain(w) ==
  /\ req[w].pc = "exchange"
  /\ Finish(w)
  /\ UNCHANGED <<config, tenant, account, identities>>

(* Someone else has inserted the user, the association or the identity in  *)
(* between, or deleted the identity that is updated.                       *)
Conflict(w) ==
  LET u == req[w].user IN
  \/ req[w].seen = "absent" /\ account[u] # "absent"
  \/ req[w].seen = "outsider" /\ account[u] = "member"
  \/ req[w].had = "none" /\ u \in identities
  \/ req[w].had = "deleted"

(* A bug: the association is written whatever has become of it.            *)
CommitLoginAnyway(w) ==
  /\ req[w].pc = "login"
  /\ IF Conflict(w)
     THEN UNCHANGED <<account, identities>>
     ELSE /\ account' = [account EXCEPT ![req[w].user] = "member"]
          /\ identities' = identities \cup {req[w].user}
  /\ Finish(w)
  /\ UNCHANGED <<config, tenant>>

(* One commit of the user, the association and the identity: the unique    *)
(* keys let one of two first logins through.                               *)
CommitLogin(w) ==
  /\ req[w].pc = "login"
  /\ IF Conflict(w)
     THEN UNCHANGED <<account, identities>>
     ELSE /\ account' = IF req[w].seen = "member" THEN account
                        ELSE [account EXCEPT ![req[w].user] = "member"]
          /\ identities' = identities \cup {req[w].user}
  /\ Finish(w)
  /\ UNCHANGED <<config, tenant>>

-----------------------------------------------------------------------------
(***************************************************************************)
(* Everything else                                                         *)
(***************************************************************************)

(* Registration, and the admin who removes a member (TenantMembers): the   *)
(* identity stays.                                                         *)
Register(u) ==
  /\ account[u] = "absent"
  /\ account' = [account EXCEPT ![u] = "outsider"]
  /\ UNCHANGED <<config, tenant, identities, req>>

RemoveMember(u) ==
  /\ account[u] = "member"
  /\ account' = [account EXCEPT ![u] = "outsider"]
  /\ UNCHANGED <<config, tenant, identities, req>>

(* DELETE /users/me/sso-identities: users delete their own identity.       *)
DeleteUserSsoIdentity(u) ==
  /\ u \in identities
  /\ identities' = identities \ {u}
  /\ req' = [w \in Worker |-> Without(req[w], {u})]
  /\ UNCHANGED <<config, tenant, account>>

(* An error of Azure AD or of the database (PostgreSQL also ends a         *)
(* deadlock of a DELETE with an UPDATE this way), or the end of the        *)
(* process: everything is rolled back.                                     *)
Abort(w) ==
  /\ req[w] # Idle
  /\ Finish(w)
  /\ UNCHANGED <<config, tenant, account, identities>>

Init ==
  /\ up \in SUBSET Worker
  /\ config = NoConfig
  /\ tenant = NewTenant
  /\ account = [u \in User |-> "absent"]
  /\ identities = {}
  /\ req = [w \in Worker |-> Idle]

(* Any user may: tenant_required gives the role of an admin to whoever is  *)
(* logged in, whatever the tenant, and role_required is content with it.   *)
Begin(w) ==
  \/ \E enable, provision \in BOOLEAN : CreateConfig(w, enable, provision)
  \/ UpdateConfig(w)
  \/ EnableSso(w)
  \/ DisableSso(w)
  \/ DeleteConfig(w)
  \/ UpdateAutoProvisioning(w)
  \/ \E u \in User : BeginLogin(w, u)

Step(w) ==
  \/ CheckNoConfig(w)
  \/ CommitCreate(w)
  \/ RefuseInvalid(w)
  \/ FindIdentities(w)
  \/ FlushConfig(w)
  \/ LoadTenant(w)
  \/ CommitChange(w)
  \/ CommitDelete(w)
  \/ RefuseDomain(w)
  \/ FindUser(w)
  \/ CommitLogin(w)

Next ==
  /\ UNCHANGED up
  /\ \/ \E w \in up : Begin(w) \/ Step(w) \/ Abort(w)
     \/ \E u \in User : Register(u) \/ RemoveMember(u)
                      \/ DeleteUserSsoIdentity(u)

Spec == Init /\ [][Next]_vars

-----------------------------------------------------------------------------
(***************************************************************************)
(* Properties                                                              *)
(***************************************************************************)

TypeOK ==
  /\ up \subseteq Worker
  /\ config \in Config \cup {NoConfig}
  /\ tenant \in Tenant
  /\ account \in [User -> {"absent", "outsider", "member"}]
  /\ identities \subseteq User
  /\ req \in [Worker -> {Idle} \cup AdminRequest \cup LoginRequest]

OneWorker == \A v, w \in up : v = w

SsoEnabled == config # NoConfig /\ config.enabled

(* A login by SSO needs both the enabled configuration and the auth_method *)
(* of the tenant (initiate_azure_login): they agree, so that no enabled    *)
(* configuration is out of reach, and no tenant that only has SSO is       *)
(* without it.                                                             *)
AuthMatchesConfig ==
  /\ SsoEnabled => tenant.auth # "local"
  /\ tenant.auth = "sso" => SsoEnabled

(* As long as one worker executes the requests, whatever fails half way.   *)
(* With two it is not: enabling what is enabled already writes no column   *)
(* of the configuration, locks nothing, and overtakes a deletion.          *)
OneWorkerAuthMatches == OneWorker => AuthMatchesConfig

(* delete_sso_config: no configuration goes while users have identities,   *)
(* unless these go with it.  With two workers a login that has read the    *)
(* configuration before adds an identity to a tenant without one.          *)
OneWorkerNoStrayIdentity ==
  OneWorker => (config = NoConfig => identities = {})

(* An admin only changes the configuration that was read: a request that   *)
(* is late never enables, disables or deletes its successor.               *)
ChangesOwnConfig ==
  [][\A w \in Worker :
       /\ req[w] # Idle /\ req'[w] = Idle
       /\ config # NoConfig /\ config' # config
       => req[w].cfg # NoConfig /\ req[w].cfg.id = config.id]_vars

(* Nobody becomes a member, or gets an identity, by SSO against the        *)
(* configuration or against an admin.  Both come only with the commit of   *)
(* the user's own login.  The login makes a member only of whom the        *)
(* configuration it has read provisions and only of the account it has     *)
(* read: who was registered, added or removed while Azure AD answered is   *)
(* not added (a member who is removed during the login stays removed).  An *)
(* identity it gives to who is provisioned or was a member.                *)
LoginProvisions ==
  [][\A u \in User :
       LET joins == account[u] # "member" /\ account'[u] = "member" IN
       joins \/ u \in identities' \ identities
       => \E w \in Worker :
            /\ req[w].pc = "login" /\ req[w].user = u
            /\ req'[w] = Idle
            /\ req[w].cfg.provision \/ (req[w].seen = "member" /\ ~joins)
            /\ joins => req[w].seen = account[u]]_vars
=============================================================================
