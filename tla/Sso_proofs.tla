------------------------------ MODULE Sso_proofs ------------------------------
(***************************************************************************)
(* Proofs about single sign-on.  SsoConfig: what the configuration and the *)
(* tenant have in common, for any sets of workers, users and primary keys. *)
(* SsoTokens: which tokens are stored and how often batches are retried,   *)
(* for any sets of identities and workers and any bounds.                  *)
(*                                                                         *)
(* The two modules share neither a variable nor a step: each has its own   *)
(* half of this one.                                                       *)
(***************************************************************************)
EXTENDS SsoConfig, SsoTokens, FiniteSetTheorems, FunctionTheorems, TLAPS

-----------------------------------------------------------------------------
(***************************************************************************)
(* SsoConfig                                                               *)
(***************************************************************************)

-----------------------------------------------------------------------------
(* What a request knows *)

(* The operations whose handler sets is_enabled. *)
Enabling == {"update", "enable", "disable"}

(* A request of an admin is where its operation takes it: only a creation  *)
(* has no configuration, and the row is written by who sets is_enabled to  *)
(* another value, once the autoflush is over.                              *)
AdminShape(r) ==
  /\ r.pc = "exists" => r.op.kind = "create"
  /\ r.pc = "identities" => r.op.kind = "delete"
  /\ r.pc = "flush" => r.op.kind \in Enabling
  /\ IF r.op.kind = "create"
     THEN r.pc \in {"exists", "commit"} /\ r.cfg = NoConfig
     ELSE r.cfg \in Config
  /\ r.wrote <=> /\ r.pc \in {"tenant", "commit"}
                 /\ r.op.kind \in Enabling
                 /\ Dirty(r.op, r.cfg)

(* A login that goes on is one of a member, or provisions. *)
LoginShape(r) ==
  r.pc = "login" => r.cfg.provision \/ r.seen = "member"

ConfigRequest ==
  {Idle} \cup {r \in AdminRequest : AdminShape(r)}
         \cup {r \in LoginRequest : LoginShape(r)}

Wrote(w) == req[w].pc \in {"tenant", "commit"} /\ req[w].wrote

(* The written row is the one that was read, and nobody else has written.  *)
LockInv ==
  \A w \in Worker : Wrote(w) => /\ RowIs(req[w].cfg)
                                /\ \A v \in Worker : Wrote(v) => v = w

RequestInv ==
  /\ TypeOK
  /\ req \in [Worker -> ConfigRequest]
  /\ LockInv

LEMMA InitRequest == Init => RequestInv
  BY DEF Init, RequestInv, TypeOK, LockInv, Wrote, ConfigRequest, Idle,
         NewTenant,
     Tenant, AuthMethod

(* The three forms of a request are told apart by where it is. *)
LEMMA Forms ==
  ASSUME NEW r \in ConfigRequest
  PROVE  /\ r.pc = "idle" => r = Idle
         /\ r.pc \in {"exists", "identities", "flush", "tenant", "commit"} =>
              r \in AdminRequest /\ AdminShape(r)
         /\ r.pc \in {"exchange", "login"} =>
              r \in LoginRequest /\ LoginShape(r)
         /\ \/ r = Idle
            \/ r \in AdminRequest /\ AdminShape(r)
            \/ r \in LoginRequest /\ LoginShape(r)
  BY DEF ConfigRequest, Idle, AdminRequest, LoginRequest

(* What the handlers set are values of their columns. *)
LEMMA EnabledType ==
  ASSUME NEW o \in Operation, NEW c \in Config
  PROVE  Enabled(o, c) \in BOOLEAN
  BY DEF Operation, Config, Enabled

LEMMA TenantAfterType ==
  ASSUME NEW o \in Operation, NEW c, NEW t \in Tenant
  PROVE  TenantAfter(o, c, t) \in Tenant
  <1>1. o.kind \in {"create", "update", "enable", "disable", "delete",
                    "provisioning"}
    BY DEF Operation
  <1>2. CASE o.kind = "create"
    BY <1>2 DEF Operation, Tenant, AuthMethod, TenantAfter
  <1>3. CASE o.kind = "update"
    BY <1>3 DEF Operation, Tenant, AuthMethod, TenantAfter
  <1>4. CASE o.kind \in {"enable", "disable"}
    BY <1>4 DEF Operation, Tenant, AuthMethod, TenantAfter
  <1>5. CASE o.kind \in {"delete", "provisioning"}
    BY <1>5 DEF Operation, Tenant, AuthMethod, TenantAfter
  <1>6. QED
    BY <1>1, <1>2, <1>3, <1>4, <1>5

LEMMA WriteType ==
  ASSUME NEW o \in Operation, NEW c, NEW t \in Tenant, tenant \in Tenant,
         Write(o, c, t)
  PROVE  tenant' \in Tenant
  <1>1. TenantAfter(o, c, t) \in Tenant
    BY TenantAfterType
  <1>2. QED
    BY <1>1 DEF Write, Tenant

(* A step that puts one request of its own in a worker's place leaves the  *)
(* others alone.                                                           *)
LEMMA Replace ==
  ASSUME RequestInv, NEW w \in Worker, NEW r \in ConfigRequest,
         req' = [req EXCEPT ![w] = r]
  PROVE  /\ req' \in [Worker -> ConfigRequest]
         /\ req' \in [Worker -> {Idle} \cup AdminRequest \cup LoginRequest]
         /\ req'[w] = r
         /\ \A v \in Worker \ {w} : req'[v] = req[v]
  BY DEF RequestInv, TypeOK, ConfigRequest

(* Such a step keeps the lock, if it leaves the configuration alone and    *)
(* does not write it.                                                      *)
LEMMA ReplaceKeeps ==
  ASSUME RequestInv, NEW w \in Worker, NEW r \in ConfigRequest,
         req' = [req EXCEPT ![w] = r],
         r.pc \in {"tenant", "commit"} /\ r.wrote
           => Wrote(w) /\ r.cfg = req[w].cfg,
         UNCHANGED <<up, config>>,
         tenant' \in Tenant, identities' \subseteq User,
         account' \in [User -> {"absent", "outsider", "member"}]
  PROVE  RequestInv'
  <1>1. LockInv'
    BY Replace DEF RequestInv, LockInv, Wrote, RowIs
  <1>2. QED
    BY <1>1, Replace DEF RequestInv, TypeOK

LEMMA FinishKeeps ==
  ASSUME RequestInv, NEW w \in Worker, Finish(w),
         UNCHANGED <<up, config>>,
         tenant' \in Tenant, identities' \subseteq User,
         account' \in [User -> {"absent", "outsider", "member"}]
  PROVE  RequestInv'
  BY ReplaceKeeps, Idle \in ConfigRequest DEF Finish, ConfigRequest, Idle

LEMMA BeginKeeps ==
  ASSUME RequestInv, UNCHANGED up, NEW w \in Worker, Begin(w)
  PROVE  RequestInv'
  <1> USE DEF RequestInv, TypeOK
  <1>1. ASSUME NEW enable \in BOOLEAN, NEW provision \in BOOLEAN,
               CreateConfig(w, enable, provision)
        PROVE  RequestInv'
    <2> DEFINE r == [pc |-> "exists", cfg |-> NoConfig, read |-> tenant,
                     found |-> {}, wrote |-> FALSE,
                     op |-> [kind |-> "create", enable |-> enable,
                             provision |-> provision]]
    <2>1. r \in ConfigRequest
      BY DEF ConfigRequest, AdminRequest, AdminShape, Operation
    <2>2. QED
      BY <1>1, <2>1, ReplaceKeeps DEF CreateConfig
  <1>2. ASSUME NEW op \in Operation, NEW at,
               ChangeConfig(w, op, at),
               \/ at = "flush" /\ op.kind \in Enabling
               \/ at = "identities" /\ op.kind = "delete"
               \/ at = "tenant" /\ op.kind = "provisioning"
        PROVE  RequestInv'
    <2> DEFINE r == [pc |-> at, op |-> op, cfg |-> config,
                     read |-> NewTenant, found |-> {}, wrote |-> FALSE]
    <2>1. r \in ConfigRequest
      BY <1>2
      DEF ChangeConfig, ConfigRequest, AdminRequest, AdminShape, Enabling,
         NewTenant, Tenant, AuthMethod
    <2>2. QED
      BY <1>2, <2>1, ReplaceKeeps DEF ChangeConfig
  <1>3. ASSUME NEW u \in User, BeginLogin(w, u)
        PROVE  RequestInv'
    <2> DEFINE r == [pc |-> "exchange", user |-> u, cfg |-> config,
                     seen |-> "absent", had |-> "none"]
    <2>1. r \in ConfigRequest
      BY <1>3 DEF BeginLogin, ConfigRequest, LoginRequest, LoginShape
    <2>2. QED
      BY <1>3, <2>1, ReplaceKeeps DEF BeginLogin
  <1>4. QED
    BY <1>1, <1>2, <1>3
    DEF Begin, UpdateConfig, EnableSso, DisableSso, DeleteConfig,
        UpdateAutoProvisioning, Operation, Enabling

(* A handler that goes on and has written nothing keeps what it knows.     *)
LEMMA GotoKeeps ==
  ASSUME RequestInv, NEW w \in Worker, NEW to,
         \/ req[w].pc = "exists" /\ to = "commit"
         \/ req[w].pc = "flush" /\ ~Dirty(req[w].op, req[w].cfg)
                               /\ to = "tenant",
         Goto(w, to), UNCHANGED <<up, config, tenant, account, identities>>
  PROVE  RequestInv'
  <1> DEFINE r == [req[w] EXCEPT !.pc = to]
  <1>1. req[w] \in AdminRequest /\ AdminShape(req[w])
    BY Forms DEF RequestInv
  <1>2. /\ r.pc = to /\ r.op = req[w].op /\ r.cfg = req[w].cfg
        /\ r.wrote = req[w].wrote
        /\ r \in AdminRequest
    BY <1>1 DEF AdminRequest
  <1>3. AdminShape(r) /\ ~r.wrote
    BY <1>1, <1>2 DEF AdminShape, Enabling, AdminRequest
  <1>4. r \in ConfigRequest
    BY <1>2, <1>3 DEF ConfigRequest
  <1>5. QED
    BY <1>2, <1>3, <1>4, ReplaceKeeps DEF Goto, RequestInv, TypeOK

LEMMA FindIdentitiesKeeps ==
  ASSUME RequestInv, UNCHANGED up, NEW w \in Worker, FindIdentities(w)
  PROVE  RequestInv'
  <1>1. CASE Finish(w)
    BY <1>1, FinishKeeps DEF FindIdentities, RequestInv, TypeOK
  <1>2. CASE ~Finish(w)
    <2> DEFINE r == [req[w] EXCEPT !.pc = "tenant", !.found = identities]
    <2>1. req[w] \in AdminRequest /\ AdminShape(req[w])
      BY Forms DEF FindIdentities, RequestInv
    <2>2. /\ r.pc = "tenant" /\ r.op = req[w].op /\ r.cfg = req[w].cfg
          /\ r.wrote = req[w].wrote
          /\ r \in AdminRequest
      BY <2>1 DEF AdminRequest, RequestInv, TypeOK
    <2>3. AdminShape(r) /\ ~r.wrote
      BY <2>1, <2>2 DEF AdminShape, Enabling, AdminRequest, FindIdentities
    <2>4. req' = [req EXCEPT ![w] = r]
      BY <1>2 DEF FindIdentities, RequestInv, TypeOK
    <2>5. QED
      BY <2>2, <2>3, <2>4, ReplaceKeeps
      DEF FindIdentities, RequestInv, TypeOK, ConfigRequest
  <1>3. QED
    BY <1>1, <1>2

(* The autoflush waits until nobody else has written.                      *)
LEMMA FlushKeeps ==
  ASSUME RequestInv, UNCHANGED up, NEW w \in Worker, FlushConfig(w)
  PROVE  RequestInv'
  <1>1. CASE Finish(w)
    BY <1>1, FinishKeeps DEF FlushConfig, RequestInv, TypeOK
  <1>2. CASE ~Dirty(req[w].op, req[w].cfg)
    BY <1>2, GotoKeeps DEF FlushConfig
  <1>3. CASE /\ Dirty(req[w].op, req[w].cfg)
             /\ ~Finish(w)
    <2> DEFINE r == [req[w] EXCEPT !.pc = "tenant", !.wrote = TRUE]
    <2>1. req[w] \in AdminRequest /\ AdminShape(req[w])
      BY Forms DEF FlushConfig, RequestInv
    <2>2. /\ r.pc = "tenant" /\ r.op = req[w].op /\ r.cfg = req[w].cfg
          /\ r.wrote
          /\ r \in AdminRequest
      BY <2>1 DEF AdminRequest, RequestInv, TypeOK
    <2>3. AdminShape(r)
      BY <1>3, <2>1, <2>2 DEF AdminShape, Enabling, AdminRequest, FlushConfig
    <2>4. /\ req' = [req EXCEPT ![w] = r]
          /\ RowIs(req[w].cfg)
          /\ \A v \in Worker : ~Wrote(v)
      BY <1>3 DEF FlushConfig, ConfigLocked, Wrote, RequestInv, TypeOK
    <2>5. r \in ConfigRequest
      BY <2>2, <2>3 DEF ConfigRequest
    <2>6. LockInv'
      BY <2>2, <2>4, <2>5, Replace DEF LockInv, Wrote, RowIs, FlushConfig
    <2>7. QED
      BY <2>4, <2>5, <2>6, Replace DEF FlushConfig, RequestInv, TypeOK
  <1>4. QED
    BY <1>1, <1>2, <1>3

LEMMA LoadTenantKeeps ==
  ASSUME RequestInv, UNCHANGED up, NEW w \in Worker, LoadTenant(w)
  PROVE  RequestInv'
  <1> DEFINE r == [req[w] EXCEPT !.pc = "commit", !.read = tenant]
  <1>1. req[w] \in AdminRequest /\ AdminShape(req[w])
    BY Forms DEF LoadTenant, RequestInv
  <1>2. /\ r.pc = "commit" /\ r.op = req[w].op /\ r.cfg = req[w].cfg
        /\ r.wrote = req[w].wrote
        /\ r \in AdminRequest
    BY <1>1 DEF AdminRequest, RequestInv, TypeOK
  <1>3. AdminShape(r)
    BY <1>1, <1>2 DEF AdminShape, Enabling, AdminRequest, LoadTenant
  <1>4. req' = [req EXCEPT ![w] = r]
    BY DEF LoadTenant, RequestInv, TypeOK
  <1>5. r.wrote => Wrote(w)
    BY <1>2 DEF Wrote, LoadTenant
  <1>6. QED
    BY <1>2, <1>3, <1>4, <1>5, ReplaceKeeps
    DEF LoadTenant, RequestInv, TypeOK, ConfigRequest

LEMMA FindUserKeeps ==
  ASSUME RequestInv, UNCHANGED up, NEW w \in Worker, FindUser(w)
  PROVE  RequestInv'
  <1>1. CASE Finish(w)
    BY <1>1, FinishKeeps DEF FindUser, RequestInv, TypeOK
  <1>2. CASE ~Finish(w)
    <2> DEFINE u == req[w].user
               r == [req[w] EXCEPT !.pc = "login", !.seen = account[u],
                                   !.had = IF u \in identities
                                           THEN "there" ELSE "none"]
    <2>1. req[w] \in LoginRequest
      BY Forms DEF FindUser, RequestInv
    <2>2. /\ r.pc = "login" /\ r.cfg = req[w].cfg /\ r.seen = account[u]
          /\ r \in LoginRequest
      BY <2>1 DEF LoginRequest, RequestInv, TypeOK
    <2>3. LoginShape(r)
      BY <1>2, <2>2 DEF LoginShape, FindUser
    <2>4. req' = [req EXCEPT ![w] = r]
      BY <1>2 DEF FindUser, RequestInv, TypeOK
    <2>5. QED
      BY <2>2, <2>3, <2>4, ReplaceKeeps
      DEF FindUser, RequestInv, TypeOK, ConfigRequest
  <1>3. QED
    BY <1>1, <1>2

(* A configuration is created where none is: nobody has written one.       *)
LEMMA CommitCreateKeeps ==
  ASSUME RequestInv, UNCHANGED up, NEW w \in Worker, CommitCreate(w)
  PROVE  RequestInv'
  <1>1. req[w] \in AdminRequest /\ Idle \in ConfigRequest
    BY Forms DEF CommitCreate, RequestInv, ConfigRequest
  <1>2. CASE config # NoConfig
    BY <1>2, FinishKeeps DEF CommitCreate, RequestInv, TypeOK
  <1>3. CASE config = NoConfig
    <2>1. \A v \in Worker : ~Wrote(v)
      BY <1>3 DEF RequestInv, LockInv, RowIs
    <2>2. \A v \in Worker : ~Wrote(v)'
      BY <1>1, <2>1, Replace DEF Wrote, CommitCreate, Finish, Idle
    <2>3. req[w].op \in Operation /\ req[w].read \in Tenant
      BY <1>1 DEF AdminRequest
    <2>4. tenant' \in Tenant
      BY <1>3, <2>3, WriteType DEF CommitCreate, RequestInv, TypeOK
    <2>5. config' \in Config
      BY <1>3, <2>3 DEF CommitCreate, FreshId, Config, Operation
    <2>6. QED
      BY <1>1, <2>2, <2>4, <2>5, Replace
      DEF CommitCreate, Finish, RequestInv, TypeOK, LockInv
  <1>4. QED
    BY <1>2, <1>3

(* Who writes is_enabled has flushed the row.                              *)
LEMMA EnabledWritten ==
  ASSUME NEW r \in AdminRequest, AdminShape(r),
         r.pc = "commit", WriteEnabled(r.op, r.cfg), config' # config
  PROVE  r.wrote
  <1>1. Enabled(r.op, r.cfg) # r.cfg.enabled
    BY DEF WriteEnabled
  <1>2. r.op.kind \in Enabling
    BY <1>1 DEF Enabled, Enabling
  <1>3. QED
    BY <1>1, <1>2 DEF AdminShape, Dirty

LEMMA CommitChangeKeeps ==
  ASSUME RequestInv, UNCHANGED up, NEW w \in Worker, CommitChange(w)
  PROVE  RequestInv'
  <1>1. /\ req[w] \in AdminRequest /\ AdminShape(req[w])
        /\ Idle \in ConfigRequest
    BY Forms DEF CommitChange, RequestInv, ConfigRequest
  <1>2. req[w].op \in Operation /\ req[w].read \in Tenant
    BY <1>1 DEF AdminRequest
  <1>3. tenant' \in Tenant
    BY <1>2, WriteType DEF CommitChange, RequestInv, TypeOK
  <1>4. CASE config' = config
    BY <1>3, <1>4, FinishKeeps DEF CommitChange, RequestInv, TypeOK
  <1>5. CASE config' # config
    <2>0. req[w].wrote
      BY <1>1, <1>5, EnabledWritten DEF CommitChange
    <2>1. /\ Wrote(w)
          /\ config \in Config
          /\ \A v \in Worker : Wrote(v) => v = w
      BY <2>0 DEF CommitChange, Wrote, RequestInv, LockInv, RowIs, TypeOK
    <2>2. \A v \in Worker : ~Wrote(v)'
      BY <1>1, <2>1, Replace DEF Wrote, CommitChange, Finish, Idle
    <2>3. req[w].cfg \in Config
      BY <1>1 DEF AdminShape, CommitChange
    <2>4. Enabled(req[w].op, req[w].cfg) \in BOOLEAN
      BY <1>2, <2>3, EnabledType
    <2>5. config' \in Config
      BY <1>5, <2>1, <2>4 DEF CommitChange, WriteEnabled, Config
    <2>6. QED
      BY <1>1, <1>3, <2>2, <2>5, Replace
      DEF CommitChange, Finish, RequestInv, TypeOK, LockInv
  <1>6. QED
    BY <1>4, <1>5

(* What a request has found shrinks with the identities, nothing else.     *)
LEMMA WithoutType ==
  ASSUME NEW r \in ConfigRequest, NEW gone \in SUBSET User
  PROVE  /\ Without(r, gone) \in ConfigRequest
         /\ Without(r, gone).pc = r.pc
         /\ r # Idle => /\ Without(r, gone) # Idle
                        /\ Without(r, gone).cfg = r.cfg
         /\ r.pc \in {"tenant", "commit"} =>
              Without(r, gone).wrote = r.wrote
  <1>1. CASE r.pc = "login"
    <2>1. r \in LoginRequest /\ LoginShape(r)
      BY <1>1, Forms
    <2>2. Without(r, gone) \in {r, [r EXCEPT !.had = "deleted"]}
      BY <1>1 DEF Without
    <2>3. QED
      BY <1>1, <2>1, <2>2 DEF LoginRequest, LoginShape, ConfigRequest, Idle
  <1>2. CASE r.pc \in {"tenant", "commit"}
    <2>1. r \in AdminRequest /\ AdminShape(r)
      BY <1>2, Forms
    <2>2. Without(r, gone) = [r EXCEPT !.found = @ \ gone]
      BY <1>2 DEF Without
    <2>3. /\ Without(r, gone) \in AdminRequest
          /\ \A f \in {"pc", "op", "cfg", "read", "wrote"} :
               Without(r, gone)[f] = r[f]
      BY <2>1, <2>2 DEF AdminRequest
    <2>4. AdminShape(Without(r, gone))
      BY <2>1, <2>3 DEF AdminShape
    <2>5. QED
      BY <1>2, <2>3, <2>4 DEF ConfigRequest, Idle
  <1>3. CASE r.pc \notin {"login", "tenant", "commit"}
    BY <1>3 DEF Without
  <1>4. QED
    BY <1>1, <1>2, <1>3

(* A deletion waits for the lock as well, so nobody's row goes.            *)
LEMMA CommitDeleteKeeps ==
  ASSUME RequestInv, UNCHANGED up, NEW w \in Worker, CommitDelete(w)
  PROVE  RequestInv'
  <1>1. req[w] \in AdminRequest /\ Idle \in ConfigRequest
    BY Forms DEF CommitDelete, RequestInv, ConfigRequest
  <1>2. /\ req[w].op \in Operation /\ req[w].read \in Tenant
        /\ req[w].found \in SUBSET User
    BY <1>1 DEF AdminRequest
  <1>3. tenant' \in Tenant
    BY <1>2, WriteType DEF CommitDelete, RequestInv, TypeOK
  <1>4. ASSUME NEW v \in Worker
        PROVE  req'[v] \in ConfigRequest /\ ~Wrote(v)'
    <2>1. ~Wrote(v) /\ req[v] \in ConfigRequest
      BY DEF CommitDelete, ConfigLocked, Wrote, RequestInv
    <2>2. req'[v] = IF v = w THEN Idle ELSE Without(req[v], req[w].found)
      BY DEF CommitDelete
    <2>3. QED
      BY <1>1, <1>2, <2>1, <2>2, WithoutType DEF Wrote, Idle
  <1>5. req' \in [Worker -> ConfigRequest]
    BY <1>4 DEF CommitDelete
  <1>6. QED
    BY <1>3, <1>4, <1>5
    DEF CommitDelete, RequestInv, TypeOK, LockInv, ConfigRequest

LEMMA DeleteUserSsoIdentityKeeps ==
  ASSUME RequestInv, UNCHANGED up, NEW u \in User, DeleteUserSsoIdentity(u)
  PROVE  RequestInv'
  <1>1. ASSUME NEW v \in Worker
        PROVE  /\ req'[v] \in ConfigRequest
               /\ Wrote(v)' => Wrote(v) /\ req'[v].cfg = req[v].cfg
    <2>1. req'[v] = Without(req[v], {u}) /\ req[v] \in ConfigRequest
      BY DEF DeleteUserSsoIdentity, RequestInv
    <2>2. QED
      BY <2>1, WithoutType DEF Wrote, Idle
  <1>2. req' \in [Worker -> ConfigRequest]
    BY <1>1 DEF DeleteUserSsoIdentity
  <1>3. LockInv'
    BY <1>1 DEF LockInv, RequestInv, DeleteUserSsoIdentity, RowIs
  <1>4. QED
    BY <1>2, <1>3 DEF DeleteUserSsoIdentity, RequestInv, TypeOK, ConfigRequest

LEMMA CommitLoginKeeps ==
  ASSUME RequestInv, UNCHANGED up, NEW w \in Worker, CommitLogin(w)
  PROVE  RequestInv'
  <1>1. req[w].user \in User
    BY Forms DEF CommitLogin, RequestInv, LoginRequest
  <1>2. /\ account' \in [User -> {"absent", "outsider", "member"}]
        /\ identities' \subseteq User
    BY <1>1 DEF CommitLogin, RequestInv, TypeOK
  <1>3. QED
    BY <1>2, FinishKeeps DEF CommitLogin, RequestInv, TypeOK

LEMMA NextRequest == RequestInv /\ [Next]_vars => RequestInv'
  <1> SUFFICES ASSUME RequestInv, [Next]_vars
               PROVE  RequestInv'
    OBVIOUS
  <1>1. CASE UNCHANGED vars
    BY <1>1 DEF vars, RequestInv, TypeOK, LockInv, Wrote, RowIs
  <1>2. ASSUME NEW w \in Worker, UNCHANGED up, Step(w)
        PROVE  RequestInv'
    <2>1. CASE CheckNoConfig(w)
      BY <1>2, <2>1, GotoKeeps, FinishKeeps
      DEF CheckNoConfig, RequestInv, TypeOK
    <2>2. CASE RefuseInvalid(w) \/ RefuseDomain(w)
      BY <1>2, <2>2, FinishKeeps
      DEF RefuseInvalid, RefuseDomain, RequestInv, TypeOK
    <2>3. QED
      BY <1>2, <2>1, <2>2, CommitCreateKeeps, FindIdentitiesKeeps,
         FlushKeeps, LoadTenantKeeps, CommitChangeKeeps, CommitDeleteKeeps,
         FindUserKeeps, CommitLoginKeeps
      DEF Step
  <1>3. ASSUME NEW w \in Worker, UNCHANGED up, Abort(w)
        PROVE  RequestInv'
    BY <1>3, FinishKeeps DEF Abort, RequestInv, TypeOK
  <1>4. ASSUME NEW u \in User, UNCHANGED up, Register(u) \/ RemoveMember(u)
        PROVE  RequestInv'
    BY <1>4 DEF Register, RemoveMember, RequestInv, TypeOK, LockInv, Wrote,
       RowIs
  <1>5. up \subseteq Worker
    BY DEF RequestInv, TypeOK
  <1>6. QED
    BY <1>1, <1>2, <1>3, <1>4, <1>5, BeginKeeps, DeleteUserSsoIdentityKeeps
    DEF Next

(* The inductive invariant about requests and their locks holds in every   *)
(* reachable state, however many workers there are.                        *)
THEOREM RequestCorrect == Spec => []RequestInv
  BY InitRequest, NextRequest, PTL DEF Spec

(* Every variable has its type: an UPDATE never meets a tenant without a   *)
(* configuration, and no handler uses a configuration it has not read.     *)
THEOREM TypeCorrect == Spec => []TypeOK
  <1>1. RequestInv => TypeOK
    BY DEF RequestInv
  <1>2. QED
    BY <1>1, RequestCorrect, PTL

-----------------------------------------------------------------------------
(* Who may write what                                                      *)

(* A step ends the request of one worker at most.                          *)
LEMMA OneEnds ==
  ASSUME RequestInv, NEW w \in Worker, NEW v \in Worker,
         Finish(w) \/ CommitDelete(w), req[v] # Idle, req'[v] = Idle
  PROVE  v = w
  <1>1. CASE Finish(w)
    BY <1>1 DEF Finish, RequestInv, TypeOK
  <1>2. CASE CommitDelete(w)
    <2>1. req[w].found \in SUBSET User
      BY <1>2, Forms DEF CommitDelete, RequestInv, AdminRequest
    <2>2. Without(req[v], req[w].found) # Idle
      BY <2>1, WithoutType DEF RequestInv
    <2>3. QED
      BY <1>2, <2>2 DEF CommitDelete
  <1>3. QED
    BY <1>1, <1>2

(* Only three steps write a configuration.                                 *)
LEMMA ConfigWriters ==
  ASSUME [Next]_vars, config' # config
  PROVE  \E w \in up : CommitCreate(w) \/ CommitChange(w) \/ CommitDelete(w)
  <1>1. ~UNCHANGED vars
    BY DEF vars
  <1>2. ASSUME NEW w \in up, Begin(w) \/ Abort(w)
        PROVE  FALSE
    BY <1>2
    DEF Begin, CreateConfig, UpdateConfig, EnableSso, DisableSso,
        DeleteConfig, UpdateAutoProvisioning, ChangeConfig, BeginLogin, Abort
  <1>3. ASSUME NEW w \in up, Step(w)
        PROVE  CommitCreate(w) \/ CommitChange(w) \/ CommitDelete(w)
    BY <1>3
    DEF Step, CheckNoConfig, RefuseInvalid, FindIdentities, FlushConfig,
        LoadTenant, RefuseDomain, FindUser, CommitLogin
  <1>4. ASSUME NEW u \in User,
               Register(u) \/ RemoveMember(u) \/ DeleteUserSsoIdentity(u)
        PROVE  FALSE
    BY <1>4 DEF Register, RemoveMember, DeleteUserSsoIdentity
  <1>5. QED
    BY <1>1, <1>2, <1>3, <1>4 DEF Next

(* An admin only changes the configuration that was read, however many     *)
(* workers there are: from the flush to the commit the row is locked, and  *)
(* a deletion names its row.                                               *)
THEOREM ChangesOwn == Spec => ChangesOwnConfig
  <1> DEFINE Own ==
        \A w \in Worker :
          /\ req[w] # Idle /\ req'[w] = Idle
          /\ config # NoConfig /\ config' # config
          => req[w].cfg # NoConfig /\ req[w].cfg.id = config.id
  <1>1. RequestInv /\ [Next]_vars => Own
    <2> SUFFICES ASSUME RequestInv, [Next]_vars, NEW v \in Worker,
                        req[v] # Idle, req'[v] = Idle,
                        config # NoConfig, config' # config
                 PROVE  req[v].cfg # NoConfig /\ req[v].cfg.id = config.id
      OBVIOUS
    <2>1. PICK w \in up :
            CommitCreate(w) \/ CommitChange(w) \/ CommitDelete(w)
      BY ConfigWriters
    <2>2. w \in Worker
      BY DEF RequestInv, TypeOK
    <2>3. v = w
      BY <2>1, <2>2, OneEnds DEF CommitCreate, CommitChange
    <2>4. /\ req[w].pc = "commit" /\ req[w].op.kind # "create"
          /\ RowIs(req[w].cfg)
      <3>1. ~CommitCreate(w)
        BY DEF CommitCreate
      <3>2. CASE CommitDelete(w)
        BY <3>2 DEF CommitDelete
      <3>3. CASE CommitChange(w)
        <4>1. req[w] \in AdminRequest /\ AdminShape(req[w])
          BY <2>2, <3>3, Forms DEF CommitChange, RequestInv
        <4>2. Wrote(w)
          BY <3>3, <4>1, EnabledWritten DEF CommitChange, Wrote
        <4>3. QED
          BY <2>2, <3>3, <4>2 DEF CommitChange, RequestInv, LockInv
      <3>4. QED
        BY <2>1, <3>1, <3>2, <3>3
    <2>5. req[w].cfg \in Config
      BY <2>2, <2>4, Forms DEF RequestInv, AdminShape
    <2>6. QED
      BY <2>3, <2>4, <2>5, NoConfigIsNoRow DEF RowIs
  <1>2. QED
    BY <1>1, RequestCorrect, PTL DEF Spec, ChangesOwnConfig

(* Only the commit of a login makes a member or gives an identity.         *)
LEMMA OnlyLoginsJoin ==
  ASSUME RequestInv, Next, NEW u \in User,
         \/ account[u] # "member" /\ account'[u] = "member"
         \/ u \in identities' \ identities
  PROVE  \E w \in up : CommitLogin(w)
  <1>1. ASSUME NEW w \in up, Begin(w) \/ Abort(w)
        PROVE  FALSE
    BY <1>1
    DEF Begin, CreateConfig, UpdateConfig, EnableSso, DisableSso,
        DeleteConfig, UpdateAutoProvisioning, ChangeConfig, BeginLogin,
        Abort
  <1>2. ASSUME NEW w \in up, Step(w)
        PROVE  CommitLogin(w)
    BY <1>2
    DEF Step, CheckNoConfig, CommitCreate, RefuseInvalid, FindIdentities,
        FlushConfig, LoadTenant, CommitChange, CommitDelete, RefuseDomain,
        FindUser
  <1>3. ASSUME NEW x \in User,
               Register(x) \/ RemoveMember(x) \/ DeleteUserSsoIdentity(x)
        PROVE  FALSE
    BY <1>3 DEF Register, RemoveMember, DeleteUserSsoIdentity, RequestInv,
       TypeOK
  <1>4. QED
    BY <1>1, <1>2, <1>3 DEF Next

(* Accounts are not deleted: one that a login has seen is still there.     *)
SeenInv ==
  \A w \in Worker :
    req[w].pc = "login" /\ req[w].seen # "absent"
      => account[req[w].user] # "absent"

LEMMA SeenStays ==
  ASSUME RequestInv, [Next]_vars, NEW w \in Worker, req'[w].pc = "login"
  PROVE  /\ req'[w].user = req[w].user /\ req[w].user \in User
         /\ \/ req[w].pc = "login" /\ req'[w].seen = req[w].seen
            \/ /\ req'[w].seen = account[req[w].user]
               /\ UNCHANGED account
  <1>0. /\ req[w].pc \in {"exchange", "login"} => req[w] \in LoginRequest
        /\ req \in [Worker -> ConfigRequest]
    BY Forms DEF RequestInv
  <1>1. ASSUME req'[w] = req[w]
        PROVE  req[w].pc = "login" /\ req[w].user \in User
    BY <1>0, <1>1 DEF LoginRequest
  <1>2. ASSUME NEW v \in up, Begin(v) \/ Abort(v)
        PROVE  req'[w] = req[w]
    BY <1>0, <1>2
    DEF Begin, CreateConfig, UpdateConfig, EnableSso, DisableSso,
        DeleteConfig, UpdateAutoProvisioning, ChangeConfig, BeginLogin,
        Abort, Finish, Idle
  <1>3. ASSUME NEW gone \in SUBSET User, req'[w] = Without(req[w], gone)
        PROVE  /\ req[w].pc = "login" /\ req[w].user \in User
               /\ req'[w].user = req[w].user /\ req'[w].seen = req[w].seen
    <2>1. req[w].pc = "login"
      BY <1>0, <1>3, WithoutType
    <2>2. req'[w] \in {req[w], [req[w] EXCEPT !.had = "deleted"]}
      BY <1>3, <2>1 DEF Without
    <2>3. QED
      BY <1>0, <2>1, <2>2 DEF LoginRequest
  <1>4. ASSUME NEW v \in up, FindUser(v)
        PROVE  \/ req'[w] = req[w]
               \/ /\ req'[w].user = req[w].user /\ req[w].user \in User
                  /\ req'[w].seen = account[req[w].user]
                  /\ UNCHANGED account
    <2>1. CASE v # w \/ Finish(v)
      BY <1>0, <1>4, <2>1 DEF FindUser, Finish, Idle
    <2>2. CASE v = w /\ ~Finish(v)
      <3>1. req[w] \in LoginRequest
        BY <1>0, <1>4, <2>2 DEF FindUser
      <3>2. req'[w] = [req[w] EXCEPT !.pc = "login",
                         !.seen = account[req[w].user],
                         !.had = IF req[w].user \in identities
                                 THEN "there" ELSE "none"]
        BY <1>0, <1>4, <2>2 DEF FindUser
      <3>3. QED
        BY <1>4, <3>1, <3>2 DEF FindUser, LoginRequest
    <2>3. QED
      BY <2>1, <2>2
  <1>5. ASSUME NEW v \in up, Step(v), ~FindUser(v), ~CommitDelete(v)
        PROVE  req'[w] = req[w]
    <2>1. CASE v # w
      BY <1>0, <1>5, <2>1
      DEF Step, CheckNoConfig, CommitCreate, RefuseInvalid, FindIdentities,
          FlushConfig, LoadTenant, CommitChange, RefuseDomain, CommitLogin,
          Goto, Finish
    <2>2. CASE v = w
      <3>1. CASE Finish(v)
        BY <1>0, <2>2, <3>1 DEF Finish, Idle
      <3>2. CASE ~Finish(v)
        <4>1. req[w] \in AdminRequest
          BY <1>0, <1>5, <2>2, <3>2, Forms
          DEF Step, CheckNoConfig, CommitCreate, RefuseInvalid,
              FindIdentities, FlushConfig, LoadTenant, CommitChange,
              RefuseDomain, CommitLogin
        <4>2. req'[w].pc \in {"commit", "tenant"}
          BY <1>0, <1>5, <2>2, <3>2, <4>1
          DEF Step, CheckNoConfig, CommitCreate, RefuseInvalid,
              FindIdentities, FlushConfig, LoadTenant, CommitChange,
              RefuseDomain, CommitLogin, Goto, AdminRequest
        <4>3. QED
          BY <4>2
      <3>3. QED
        BY <3>1, <3>2
    <2>3. QED
      BY <2>1, <2>2
  <1>6. ASSUME NEW v \in up, CommitDelete(v)
        PROVE  \E gone \in SUBSET User : req'[w] = Without(req[w], gone)
    <2>1. v \in Worker /\ v # w
      BY <1>6 DEF RequestInv, TypeOK, CommitDelete, Idle
    <2>2. req[v].found \in SUBSET User
      BY <1>6, <2>1, Forms DEF CommitDelete, RequestInv, AdminRequest
    <2>3. QED
      BY <1>6, <2>1, <2>2 DEF CommitDelete
  <1>7. ASSUME NEW x \in User,
               Register(x) \/ RemoveMember(x) \/ DeleteUserSsoIdentity(x)
        PROVE  \/ req'[w] = req[w]
               \/ \E gone \in SUBSET User : req'[w] = Without(req[w], gone)
    BY <1>7 DEF Register, RemoveMember, DeleteUserSsoIdentity
  <1>8. QED
    BY <1>1, <1>2, <1>3, <1>4, <1>5, <1>6, <1>7 DEF Next, vars

LEMMA AccountsStay ==
  ASSUME RequestInv, [Next]_vars, NEW u \in User, account[u] # "absent"
  PROVE  account'[u] # "absent"
  <1>1. ASSUME NEW w \in up, Begin(w) \/ Step(w) \/ Abort(w)
        PROVE  account'[u] # "absent"
    BY <1>1
    DEF Begin, CreateConfig, UpdateConfig, EnableSso, DisableSso,
        DeleteConfig, UpdateAutoProvisioning, ChangeConfig, BeginLogin,
        Abort, Step, CheckNoConfig, CommitCreate, RefuseInvalid,
        FindIdentities, FlushConfig, LoadTenant, CommitChange, CommitDelete,
        RefuseDomain, FindUser, CommitLogin, RequestInv, TypeOK
  <1>2. QED
    BY <1>1 DEF Next, vars, Register, RemoveMember, DeleteUserSsoIdentity,
       RequestInv, TypeOK

LEMMA SeenCorrect == Spec => []SeenInv
  <1>1. Init => SeenInv
    BY DEF Init, SeenInv, Idle
  <1>2. RequestInv /\ SeenInv /\ [Next]_vars => SeenInv'
    BY SeenStays, AccountsStay DEF SeenInv
  <1>3. QED
    BY <1>1, <1>2, RequestCorrect, PTL DEF Spec

(* Nobody joins but by the commit of a login that has read what is still   *)
(* so, for a member or for whom its configuration provisions.              *)
THEOREM LoginsProvision == Spec => LoginProvisions
  <1> DEFINE Joins(u) == account[u] # "member" /\ account'[u] = "member"
             Provisioned ==
        \A u \in User :
          Joins(u) \/ u \in identities' \ identities
          => \E w \in Worker :
               /\ req[w].pc = "login" /\ req[w].user = u
               /\ req'[w] = Idle
               /\ req[w].cfg.provision
                    \/ (req[w].seen = "member" /\ ~Joins(u))
               /\ Joins(u) => req[w].seen = account[u]
  <1>1. RequestInv /\ SeenInv /\ [Next]_vars => Provisioned
    <2> SUFFICES ASSUME RequestInv, SeenInv, [Next]_vars, NEW u \in User,
                        Joins(u) \/ u \in identities' \ identities
                 PROVE  \E w \in Worker :
                          /\ req[w].pc = "login" /\ req[w].user = u
                          /\ req'[w] = Idle
                          /\ req[w].cfg.provision
                               \/ (req[w].seen = "member" /\ ~Joins(u))
                          /\ Joins(u) => req[w].seen = account[u]
      OBVIOUS
    <2>1. PICK w \in up : CommitLogin(w)
      BY OnlyLoginsJoin DEF vars
    <2>2. w \in Worker
      BY DEF RequestInv, TypeOK
    <2>3. req[w] \in LoginRequest /\ LoginShape(req[w])
      BY <2>1, <2>2, Forms DEF CommitLogin, RequestInv
    <2>4. /\ req[w].pc = "login" /\ ~Conflict(w)
          /\ req[w].user = u /\ req'[w] = Idle
      BY <2>1, <2>2 DEF CommitLogin, Finish, RequestInv, TypeOK
    <2>5. req[w].seen = "member" => ~Joins(u)
      BY <2>1, <2>4 DEF CommitLogin
    <2>6. req[w].cfg.provision \/ req[w].seen = "member"
      BY <2>3, <2>4 DEF LoginShape
    <2>7. Joins(u) => req[w].seen = account[u]
      <3>1. /\ req[w].seen \in {"absent", "outsider", "member"}
            /\ account[u] \in {"absent", "outsider", "member"}
        BY <2>3 DEF LoginRequest, RequestInv, TypeOK
      <3>2. QED
        BY <2>2, <2>4, <2>5, <3>1 DEF Conflict, SeenInv
    <2>8. QED
      BY <2>2, <2>4, <2>5, <2>6, <2>7
  <1>2. QED
    BY <1>1, RequestCorrect, SeenCorrect, PTL DEF Spec, LoginProvisions

-----------------------------------------------------------------------------
(* One worker *)

(* What a request has read is still so: nobody else has written since, and *)
(* what a deletion has found are the identities there are.                 *)
Current(w) ==
  /\ req[w].pc \in {"exists", "commit"} => req[w].read = tenant
  /\ req[w].pc = "commit" /\ req[w].op.kind = "create" => config = NoConfig
  /\ req[w].pc \in {"identities", "flush", "tenant", "commit"}
     /\ req[w].op.kind # "create" => req[w].cfg = config
  /\ req[w].pc \in {"exchange", "login"} =>
       req[w].cfg = config /\ config # NoConfig
  /\ req[w].pc \in {"tenant", "commit"} /\ req[w].op.kind = "delete" =>
       req[w].found = identities

Consistent ==
  /\ AuthMatchesConfig
  /\ config = NoConfig => identities = {}

OneWorkerInv ==
  /\ RequestInv
  /\ \A w \in Worker \ up : req[w] = Idle
  /\ OneWorker => Consistent /\ \A w \in up : Current(w)

LEMMA InitOneWorker == Init => OneWorkerInv
  <1> SUFFICES ASSUME Init
               PROVE  OneWorkerInv
    OBVIOUS
  <1>1. \A w \in Worker : req[w] = Idle
    BY DEF Init
  <1>2. up \subseteq Worker
    BY DEF Init
  <1>3. Consistent
    BY DEF Init, Consistent, AuthMatchesConfig, SsoEnabled, NewTenant
  <1>4. \A w \in up : Current(w)
    BY <1>1, <1>2 DEF Current, Idle
  <1>5. QED
    BY <1>1, <1>3, <1>4, InitRequest DEF OneWorkerInv

(* A commit that has read the tenant as it is writes what it computed.     *)
LEMMA WriteCurrent ==
  ASSUME NEW o \in Operation, NEW c, tenant \in Tenant,
         Write(o, c, tenant)
  PROVE  tenant' = TenantAfter(o, c, tenant)
  <1>1. TenantAfter(o, c, tenant) \in Tenant
    BY TenantAfterType
  <1>2. QED
    BY <1>1 DEF Write, Tenant

(* The tenant's auth_method after each operation.                          *)
LEMMA AuthAfter ==
  ASSUME NEW o \in Operation, NEW c \in Config \cup {NoConfig},
         NEW t \in Tenant,
         o.kind # "create" => c \in Config
  PROVE  LET auth == TenantAfter(o, c, t).auth IN
         /\ o.kind = "create" =>
              auth = IF o.enable /\ t.auth = "local" THEN "both" ELSE t.auth
         /\ o.kind \in {"update", "enable", "disable"} =>
              /\ Enabled(o, c) => auth # "local"
              /\ ~Enabled(o, c) => auth # "sso"
         /\ o.kind = "delete" => auth = "local"
         /\ o.kind = "provisioning" => auth = t.auth
  <1>1. CASE o.kind = "create"
    <2>1. TenantAfter(o, c, t) =
            IF ~o.enable THEN t
            ELSE [auth |-> IF t.auth = "local" THEN "both" ELSE t.auth,
                  provision |-> t.provision \/ o.provision]
      BY <1>1 DEF TenantAfter
    <2>2. QED
      BY <1>1, <2>1
  <1>2. CASE o.kind = "update"
    <2>1. TenantAfter(o, c, t) =
            IF Enabled(o, c) /\ t.auth = "local"
            THEN [t EXCEPT !.auth = "both"]
            ELSE IF ~Enabled(o, c) /\ t.auth = "sso"
            THEN [t EXCEPT !.auth = "local"]
            ELSE t
      BY <1>2 DEF TenantAfter
    <2>2. Enabled(o, c) \in BOOLEAN
      BY <1>2, EnabledType
    <2>3. QED
      BY <1>2, <2>1, <2>2 DEF Tenant, AuthMethod
  <1>3. CASE o.kind = "enable"
    <2>1. Enabled(o, c) = TRUE
      BY <1>3 DEF Enabled
    <2>2. TenantAfter(o, c, t) = [t EXCEPT !.auth = o.method]
      BY <1>3 DEF TenantAfter
    <2>3. o.method \in {"sso", "both"}
      BY <1>3 DEF Operation
    <2>4. QED
      BY <1>3, <2>1, <2>2, <2>3 DEF Tenant
  <1>4. CASE o.kind = "disable"
    <2>1. Enabled(o, c) = FALSE
      BY <1>4 DEF Enabled
    <2>2. TenantAfter(o, c, t) = [auth |-> "local", provision |-> FALSE]
      BY <1>4 DEF TenantAfter
    <2>3. QED
      BY <1>4, <2>1, <2>2
  <1>5. CASE o.kind = "delete"
    <2>1. TenantAfter(o, c, t) =
            IF t.auth = "local" THEN t
            ELSE [auth |-> "local", provision |-> FALSE]
      BY <1>5 DEF TenantAfter
    <2>2. QED
      BY <1>5, <2>1
  <1>6. CASE o.kind = "provisioning"
    <2>1. TenantAfter(o, c, t) = [t EXCEPT !.provision = o.on]
      BY <1>6 DEF TenantAfter
    <2>2. QED
      BY <1>6, <2>1 DEF Tenant
  <1>7. QED
    BY <1>1, <1>2, <1>3, <1>4, <1>5, <1>6 DEF Operation

(* The commits keep the tenant and its configuration consistent.           *)
LEMMA CommitCreateConsistent ==
  ASSUME RequestInv, NEW w \in Worker, CommitCreate(w),
         Consistent, Current(w)
  PROVE  Consistent'
  <1>1. /\ req[w].op \in Operation /\ req[w].op.kind = "create"
        /\ req[w].op.enable \in BOOLEAN
    BY Forms DEF CommitCreate, RequestInv, AdminRequest, Operation
  <1>2. config = NoConfig /\ req[w].read = tenant
    BY DEF CommitCreate, Current
  <1>3. tenant' = TenantAfter(req[w].op, NoConfig, tenant)
    BY <1>1, <1>2, WriteCurrent DEF CommitCreate, RequestInv, TypeOK
  <1>4. tenant'.auth = IF req[w].op.enable /\ tenant.auth = "local"
                       THEN "both" ELSE tenant.auth
    BY <1>1, <1>3, AuthAfter DEF RequestInv, TypeOK
  <1>5. tenant.auth # "sso"
    BY <1>2 DEF Consistent, AuthMatchesConfig, SsoEnabled
  <1>6. config'.enabled = req[w].op.enable
    BY <1>2 DEF CommitCreate
  <1>7. tenant.auth \in AuthMethod
    BY DEF RequestInv, TypeOK, Tenant
  <1>8. AuthMatchesConfig'
    BY <1>1, <1>4, <1>5, <1>6, <1>7
    DEF AuthMatchesConfig, SsoEnabled, AuthMethod
  <1>9. QED
    BY <1>2, <1>8 DEF Consistent, CommitCreate

LEMMA CommitChangeConsistent ==
  ASSUME RequestInv, RequestInv', NEW w \in Worker, CommitChange(w),
         Consistent, Current(w)
  PROVE  Consistent'
  <1>1. /\ req[w].op \in Operation /\ AdminShape(req[w])
        /\ req[w].op.kind \in {"update", "enable", "disable", "provisioning"}
    BY Forms DEF CommitChange, RequestInv, AdminRequest
  <1>2. config = req[w].cfg /\ config \in Config /\ req[w].read = tenant
    BY <1>1 DEF CommitChange, Current, AdminShape
  <1>3. /\ tenant' = TenantAfter(req[w].op, config, tenant)
        /\ tenant \in Tenant
    BY <1>1, <1>2, WriteCurrent DEF CommitChange, RequestInv, TypeOK
  <1>4. /\ config' \in Config
        /\ req[w].op.kind \in Enabling =>
             config'.enabled = Enabled(req[w].op, config)
        /\ req[w].op.kind = "provisioning" => config' = config
    <2>1. config' = IF Enabled(req[w].op, config) = config.enabled
                    THEN config
                    ELSE [config EXCEPT !.enabled = Enabled(req[w].op, config)]
      BY <1>2 DEF CommitChange, WriteEnabled
    <2>2. Enabled(req[w].op, config) \in BOOLEAN
      BY <1>1, <1>2, EnabledType
    <2>3. req[w].op.kind = "provisioning" =>
            Enabled(req[w].op, config) = config.enabled
      BY DEF Enabled
    <2>4. QED
      BY <1>2, <2>1, <2>2, <2>3 DEF Config
  <1>5. CASE req[w].op.kind \in Enabling
    <2>1. /\ config'.enabled => tenant'.auth # "local"
          /\ ~config'.enabled => tenant'.auth # "sso"
      BY <1>1, <1>2, <1>3, <1>4, <1>5, AuthAfter DEF Enabling
    <2>2. QED
      BY <1>4, <2>1, NoConfigIsNoRow
      DEF Consistent, AuthMatchesConfig, SsoEnabled
  <1>6. CASE req[w].op.kind = "provisioning"
    <2>1. tenant'.auth = tenant.auth /\ config' = config
      BY <1>1, <1>2, <1>3, <1>4, <1>6, AuthAfter
    <2>2. QED
      BY <2>1 DEF Consistent, AuthMatchesConfig, SsoEnabled, CommitChange
  <1>7. QED
    BY <1>1, <1>5, <1>6 DEF Enabling

LEMMA CommitDeleteConsistent ==
  ASSUME RequestInv, NEW w \in Worker, CommitDelete(w),
         Consistent, Current(w)
  PROVE  Consistent'
  <1>1. req[w].op \in Operation /\ req[w].cfg \in Config
    BY Forms DEF CommitDelete, RequestInv, AdminRequest, AdminShape
  <1>2. /\ config = req[w].cfg /\ req[w].read = tenant
        /\ req[w].found = identities
    BY DEF CommitDelete, Current
  <1>3. tenant' = TenantAfter(req[w].op, config, tenant)
    BY <1>1, <1>2, WriteCurrent DEF CommitDelete, RequestInv, TypeOK
  <1>4. tenant'.auth = "local"
    BY <1>1, <1>2, <1>3, AuthAfter DEF CommitDelete, RequestInv, TypeOK
  <1>5. config' = NoConfig /\ identities' = {}
    BY <1>1, <1>2, NoConfigIsNoRow DEF CommitDelete, RowIs
  <1>6. QED
    BY <1>4, <1>5 DEF Consistent, AuthMatchesConfig, SsoEnabled

(* A step of the one worker there is leaves its own request current; there *)
(* is no other to disturb.                                                 *)
LEMMA StepCurrent ==
  ASSUME RequestInv, NEW w \in Worker, Step(w), Current(w)
  PROVE  Current(w)'
  <1> USE DEF Current
  <1>1. req[w] \in ConfigRequest /\ DOMAIN req = Worker
    BY DEF RequestInv
  <1>2. CASE Finish(w)
    BY <1>1, <1>2 DEF Finish, Idle
  <1>3. CASE CheckNoConfig(w) /\ ~Finish(w)
    <2>1. /\ req[w] \in AdminRequest /\ req[w].op.kind = "create"
      BY <1>1, <1>3, Forms DEF CheckNoConfig, AdminShape
    <2>2. /\ req'[w] = [req[w] EXCEPT !.pc = "commit"]
          /\ config = NoConfig
          /\ UNCHANGED <<config, tenant, identities>>
      BY <1>1, <1>3 DEF CheckNoConfig, Goto
    <2>3. /\ req'[w].read = req[w].read /\ req'[w].op = req[w].op
          /\ req'[w].pc = "commit"
      BY <2>1, <2>2 DEF AdminRequest
    <2>4. QED
      BY <1>3, <2>1, <2>2, <2>3 DEF CheckNoConfig
  <1>4. CASE FindIdentities(w) /\ ~Finish(w)
    <2>1. /\ req[w] \in AdminRequest /\ req[w].op.kind = "delete"
      BY <1>1, <1>4, Forms DEF FindIdentities, AdminShape
    <2>2. /\ req'[w] = [req[w] EXCEPT !.pc = "tenant", !.found = identities]
          /\ UNCHANGED <<config, tenant, identities>>
      BY <1>1, <1>4 DEF FindIdentities
    <2>3. /\ req'[w].cfg = req[w].cfg /\ req'[w].op = req[w].op
          /\ req'[w].pc = "tenant" /\ req'[w].found = identities
      BY <2>1, <2>2 DEF AdminRequest
    <2>4. QED
      BY <1>4, <2>1, <2>2, <2>3 DEF FindIdentities
  <1>5. CASE FlushConfig(w) /\ ~Finish(w)
    <2>1. /\ req[w] \in AdminRequest /\ req[w].op.kind \in Enabling
      BY <1>1, <1>5, Forms DEF FlushConfig, AdminShape
    <2>2. /\ \/ req'[w] = [req[w] EXCEPT !.pc = "tenant"]
             \/ req'[w] = [req[w] EXCEPT !.pc = "tenant", !.wrote = TRUE]
          /\ UNCHANGED <<config, tenant, identities>>
      BY <1>1, <1>5 DEF FlushConfig, Goto
    <2>3. /\ req'[w].cfg = req[w].cfg /\ req'[w].op = req[w].op
          /\ req'[w].pc = "tenant"
      BY <2>1, <2>2 DEF AdminRequest
    <2>4. QED
      BY <1>5, <2>1, <2>2, <2>3 DEF FlushConfig, Enabling
  <1>6. CASE LoadTenant(w)
    <2>1. /\ req[w] \in AdminRequest /\ req[w].op.kind # "create"
      BY <1>1, <1>6, Forms DEF LoadTenant, AdminShape
    <2>2. /\ req'[w] = [req[w] EXCEPT !.pc = "commit", !.read = tenant]
          /\ UNCHANGED <<config, tenant, identities>>
      BY <1>1, <1>6 DEF LoadTenant
    <2>3. /\ req'[w].cfg = req[w].cfg /\ req'[w].op = req[w].op
          /\ req'[w].pc = "commit" /\ req'[w].read = tenant
          /\ req'[w].found = req[w].found
      BY <2>1, <2>2 DEF AdminRequest
    <2>4. QED
      BY <1>6, <2>1, <2>2, <2>3 DEF LoadTenant
  <1>7. CASE FindUser(w) /\ ~Finish(w)
    <2>1. req[w] \in LoginRequest
      BY <1>1, <1>7, Forms DEF FindUser
    <2>2. /\ req'[w].cfg = req[w].cfg /\ req'[w].pc = "login"
          /\ UNCHANGED <<config, tenant, identities>>
      BY <1>1, <1>7, <2>1 DEF FindUser, LoginRequest
    <2>3. QED
      BY <1>7, <2>2 DEF FindUser
  <1>8. CASE CommitDelete(w)
    BY <1>1, <1>8 DEF CommitDelete, Idle
  <1>9. QED
    BY <1>2, <1>3, <1>4, <1>5, <1>6, <1>7, <1>8
    DEF Step, CommitCreate, RefuseInvalid, CommitChange, RefuseDomain,
        CommitLogin

LEMMA BeginCurrent ==
  ASSUME RequestInv, NEW w \in Worker, Begin(w)
  PROVE  Current(w)' /\ UNCHANGED <<config, tenant, identities>>
  <1>1. DOMAIN req = Worker
    BY DEF RequestInv
  <1>2. ASSUME NEW enable \in BOOLEAN, NEW provision \in BOOLEAN,
               CreateConfig(w, enable, provision)
        PROVE  Current(w)' /\ UNCHANGED <<config, tenant, identities>>
    BY <1>1, <1>2 DEF CreateConfig, Current
  <1>3. ASSUME NEW op, NEW at \in {"flush", "identities", "tenant"},
               at = "tenant" => op.kind = "provisioning",
               ChangeConfig(w, op, at)
        PROVE  Current(w)' /\ UNCHANGED <<config, tenant, identities>>
    BY <1>1, <1>3 DEF ChangeConfig, Current
  <1>4. ASSUME NEW u \in User, BeginLogin(w, u)
        PROVE  Current(w)' /\ UNCHANGED <<config, tenant, identities>>
    BY <1>1, <1>4 DEF BeginLogin, Current
  <1>5. QED
    BY <1>2, <1>3, <1>4
    DEF Begin, UpdateConfig, EnableSso, DisableSso, DeleteConfig,
        UpdateAutoProvisioning

(* Users who delete their identity take it out of what was found as well.  *)
LEMMA DeleteIdentityCurrent ==
  ASSUME RequestInv, NEW w \in Worker, NEW u \in User,
         DeleteUserSsoIdentity(u), Current(w)
  PROVE  Current(w)'
  <1>1. /\ req'[w] = Without(req[w], {u}) /\ req[w] \in ConfigRequest
        /\ UNCHANGED <<config, tenant>> /\ identities' = identities \ {u}
    BY DEF DeleteUserSsoIdentity, RequestInv
  <1>2. CASE req[w].pc = "login"
    <2>1. req[w] \in LoginRequest
      BY <1>1, <1>2, Forms
    <2>2. req'[w] \in {req[w], [req[w] EXCEPT !.had = "deleted"]}
      BY <1>1, <1>2 DEF Without
    <2>3. req'[w].pc = "login" /\ req'[w].cfg = req[w].cfg
      BY <1>2, <2>1, <2>2 DEF LoginRequest
    <2>4. QED
      BY <1>1, <1>2, <2>3 DEF Current
  <1>3. CASE req[w].pc \in {"tenant", "commit"}
    <2>1. req[w] \in AdminRequest
      BY <1>1, <1>3, Forms
    <2>2. req'[w] = [req[w] EXCEPT !.found = @ \ {u}]
      BY <1>1, <1>3 DEF Without
    <2>3. /\ req'[w].found = req[w].found \ {u}
          /\ req'[w].pc = req[w].pc /\ req'[w].op = req[w].op
          /\ req'[w].cfg = req[w].cfg /\ req'[w].read = req[w].read
      BY <2>1, <2>2 DEF AdminRequest
    <2>4. QED
      BY <1>1, <1>3, <2>3 DEF Current
  <1>4. CASE req[w].pc \notin {"login", "tenant", "commit"}
    <2>1. req'[w] = req[w]
      BY <1>1, <1>4 DEF Without
    <2>2. QED
      BY <1>1, <1>4, <2>1 DEF Current
  <1>5. QED
    BY <1>2, <1>3, <1>4

LEMMA StepConsistent ==
  ASSUME RequestInv, RequestInv', NEW w \in Worker, Step(w),
         Consistent, Current(w)
  PROVE  Consistent'
  <1>1. CASE UNCHANGED <<config, tenant, identities>>
    BY <1>1 DEF Consistent, AuthMatchesConfig, SsoEnabled
  <1>2. CASE CommitLogin(w)
    <2>1. config # NoConfig
      BY <1>2 DEF CommitLogin, Current
    <2>2. QED
      BY <1>2, <2>1
      DEF CommitLogin, Consistent, AuthMatchesConfig, SsoEnabled
  <1>3. QED
    BY <1>1, <1>2, CommitCreateConsistent, CommitChangeConsistent,
       CommitDeleteConsistent
    DEF Step, CheckNoConfig, RefuseInvalid, FindIdentities, FlushConfig,
        LoadTenant, RefuseDomain, FindUser

LEMMA NextOneWorker == OneWorkerInv /\ [Next]_vars => OneWorkerInv'
  <1> SUFFICES ASSUME OneWorkerInv, [Next]_vars
               PROVE  OneWorkerInv'
    OBVIOUS
  <1>1. RequestInv /\ RequestInv'
    BY NextRequest DEF OneWorkerInv
  <1>2. up' = up /\ up \subseteq Worker
    BY <1>1 DEF Next, vars, RequestInv, TypeOK
  <1>3. ASSUME NEW v \in Worker \ up
        PROVE  req'[v] = Idle
    <2>1. req[v] = Idle /\ DOMAIN req = Worker
      BY <1>1 DEF OneWorkerInv, RequestInv
    <2>2. \A gone : Without(Idle, gone) = Idle
      BY DEF Without, Idle
    <2>3. ASSUME NEW w \in up, Begin(w) \/ Abort(w)
          PROVE  req'[v] = Idle
      BY <2>1, <2>3
      DEF Begin, CreateConfig, UpdateConfig, EnableSso, DisableSso,
          DeleteConfig, UpdateAutoProvisioning, ChangeConfig, BeginLogin,
          Abort, Finish
    <2>4. ASSUME NEW w \in up, Step(w), ~CommitDelete(w)
          PROVE  req'[v] = Idle
      BY <2>1, <2>4
      DEF Step, CheckNoConfig, CommitCreate, RefuseInvalid, FindIdentities,
          FlushConfig, LoadTenant, CommitChange, RefuseDomain, FindUser,
          CommitLogin, Finish, Goto
    <2>5. ASSUME NEW w \in up, CommitDelete(w)
          PROVE  req'[v] = Idle
      BY <2>1, <2>2, <2>5 DEF CommitDelete
    <2>6. ASSUME NEW u \in User,
                 Register(u) \/ RemoveMember(u) \/ DeleteUserSsoIdentity(u)
          PROVE  req'[v] = Idle
      BY <2>1, <2>2, <2>6 DEF Register, RemoveMember, DeleteUserSsoIdentity
    <2>7. CASE UNCHANGED vars
      BY <2>1, <2>7 DEF vars
    <2>8. QED
      BY <2>3, <2>4, <2>5, <2>6, <2>7 DEF Next
  <1>4. ASSUME OneWorker
        PROVE  Consistent' /\ \A v \in up : Current(v)'
    <2> USE <1>1, <1>2, <1>4
    <2>1. Consistent /\ \A v \in up : Current(v)
      BY DEF OneWorkerInv
    <2>2. ASSUME NEW w \in up, Current(w)'
          PROVE  \A v \in up : Current(v)'
      BY <2>2 DEF OneWorker
    <2>3. ASSUME NEW w \in up, Begin(w)
          PROVE  Consistent' /\ Current(w)'
      BY <2>1, <2>3, BeginCurrent
      DEF Consistent, AuthMatchesConfig, SsoEnabled
    <2>4. ASSUME NEW w \in up, Step(w)
          PROVE  Consistent' /\ Current(w)'
      BY <2>1, <2>4, StepCurrent, StepConsistent
    <2>5. ASSUME NEW w \in up, Abort(w)
          PROVE  Consistent' /\ Current(w)'
      <3>1. req'[w] = Idle /\ UNCHANGED <<config, tenant, identities>>
        BY <2>5 DEF Abort, Finish, RequestInv
      <3>2. QED
        BY <2>1, <3>1
        DEF Current, Idle, Consistent, AuthMatchesConfig, SsoEnabled
    <2>6. ASSUME NEW u \in User, Register(u) \/ RemoveMember(u)
          PROVE  Consistent' /\ \A v \in up : Current(v)'
      BY <2>1, <2>6 DEF Register, RemoveMember, Current, Consistent,
         AuthMatchesConfig, SsoEnabled
    <2>7. ASSUME NEW u \in User, DeleteUserSsoIdentity(u)
          PROVE  Consistent' /\ \A v \in up : Current(v)'
      <3>1. \A v \in up : Current(v)'
        BY <2>1, <2>7, DeleteIdentityCurrent
      <3>2. QED
        BY <2>1, <2>7, <3>1
        DEF DeleteUserSsoIdentity, Consistent, AuthMatchesConfig, SsoEnabled
    <2>8. CASE UNCHANGED vars
      BY <2>1, <2>8
      DEF vars, Current, Consistent, AuthMatchesConfig, SsoEnabled
    <2>9. QED
      BY <2>2, <2>3, <2>4, <2>5, <2>6, <2>7, <2>8 DEF Next
  <1>5. OneWorker' <=> OneWorker
    BY <1>2 DEF OneWorker
  <1>6. QED
    BY <1>1, <1>2, <1>3, <1>4, <1>5 DEF OneWorkerInv

(* With one worker the rows, and what its request has read, are consistent *)
(* in every reachable state.                                               *)
THEOREM OneWorkerCorrect == Spec => []OneWorkerInv
  BY InitOneWorker, NextOneWorker, PTL DEF Spec

(* With one worker the tenant's auth_method and its configuration agree,   *)
(* whatever is aborted half way: what a request has read is what its       *)
(* commit changes.                                                         *)
THEOREM AuthMatches == Spec => []OneWorkerAuthMatches
  <1>1. OneWorkerInv => OneWorkerAuthMatches
    BY DEF OneWorkerInv, Consistent, OneWorkerAuthMatches
  <1>2. QED
    BY <1>1, OneWorkerCorrect, PTL

(* With one worker a configuration never goes without the identities it    *)
(* leaves behind: a deletion has found them all.                           *)
THEOREM NoStrayIdentity == Spec => []OneWorkerNoStrayIdentity
  <1>1. OneWorkerInv => OneWorkerNoStrayIdentity
    BY DEF OneWorkerInv, Consistent, OneWorkerNoStrayIdentity
  <1>2. QED
    BY <1>1, OneWorkerCorrect, PTL

-----------------------------------------------------------------------------
(***************************************************************************)
(* SsoTokens                                                               *)
(***************************************************************************)

-----------------------------------------------------------------------------
(* Type correctness *)

LEMMA InitType == TokensInit => TokensTypeOK
  BY BoundsAssumption, NoTokenAssumption
  DEF TokensInit, TokensTypeOK, Column, Token, Retries

(* A worker that is not idle executes a batch. *)
LEMMA BatchFields ==
  ASSUME TokensTypeOK, NEW w \in Celery, exec[w] # Free
  PROVE  /\ exec[w] \in Batch
         /\ exec[w].retries \in Retries
         /\ exec[w].todo \subseteq Identity
         /\ exec[w].copy \in [Identity -> Column]
         /\ exec[w].dirty \subseteq Identity
         /\ exec[w].flushed \subseteq Identity
  BY DEF TokensTypeOK, Batch

LEMMA BatchIsNotIdle ==
  ASSUME NEW b \in Batch
  PROVE  b # Free /\ b.pc = "batch"
  BY DEF Batch, Free

(* What of the requests of users is used. *)
LEMMA UserFields ==
  ASSUME TokensTypeOK, NEW i \in Identity
  PROVE  /\ user[i] \in UserRequest \cup {Free}
         /\ user[i].pc = "idle" => user[i] = Free
         /\ user[i].pc = "exchange" => user[i].copy \in Token \cup {NoneToken}
         /\ user[i].pc = "commit" => user[i].copy \in Token \cup {NoToken}
         /\ user[i] # Free =>
              /\ user[i].copy \in Column
              /\ user[i].left \in Retries
              /\ user[i].pc # "idle"
  BY DEF TokensTypeOK, UserRequest, Column, Free

(* The token that Azure AD issues is one that nobody has. *)
LEMMA FreshTokenType ==
  ASSUME NEW i \in Identity, CanIssue(i)
  PROVE  FreshToken(i) \in Token /\ FreshToken(i) \notin InUse(i)
  BY DEF CanIssue, FreshToken

LEMMA EnqueueType ==
  ASSUME TokensTypeOK, NEW r \in Retries, NEW n \in Nat, Enqueue(r, n)
  PROVE  queue' \in [Retries -> Nat]
  BY DEF TokensTypeOK, Enqueue

LEMMA ForgetType ==
  ASSUME TokensTypeOK, ForgetUnused
  PROVE  valid' \in [Identity -> SUBSET Token]
  BY DEF TokensTypeOK, ForgetUnused

LEMMA IssueType ==
  ASSUME TokensTypeOK, NEW i \in Identity, NEW used, NEW t \in Token,
         Issue(i, used, t)
  PROVE  valid' \in [Identity -> SUBSET Token]
  BY DEF TokensTypeOK, Issue

LEMMA LoseType ==
  ASSUME TokensTypeOK, NEW w \in Celery, Lose(w)
  PROVE  cut' \subseteq Identity
  BY BatchFields DEF TokensTypeOK, Lose, Exchanged, Saved

LEMMA HappensType ==
  ASSUME TokensTypeOK, Happens
  PROVE  events' \in 0..MaxEvents
  BY BoundsAssumption DEF TokensTypeOK, Happens

(* The worker ends, or its batch is another one. *)
LEMMA ExecType ==
  ASSUME TokensTypeOK, NEW w \in Celery, NEW b \in Batch \cup {Free},
         exec' = [exec EXCEPT ![w] = b]
  PROVE  exec' \in [Celery -> Batch \cup {Free}]
  BY DEF TokensTypeOK

(* What a batch passes over leaves it a batch. *)
LEMMA PassOverType ==
  ASSUME TokensTypeOK, NEW w \in Celery, NEW i \in Identity, exec[w] # Free,
         PassOver(w, i)
  PROVE  exec' \in [Celery -> Batch \cup {Free}]
  <1>1. exec[w] \in Batch
    BY BatchFields
  <1>2. [exec[w] EXCEPT !.todo = @ \ {i}, !.copy[i] = NoToken] \in Batch
    BY <1>1 DEF Batch, Column
  <1>3. QED
    BY <1>1, <1>2 DEF PassOver, TokensTypeOK

LEMMA FailIdentityType ==
  ASSUME TokensTypeOK, NEW w \in Celery, NEW i \in Identity, exec[w] # Free,
         FailIdentity(w, i)
  PROVE  /\ exec' \in [Celery -> Batch \cup {Free}]
         /\ queue' \in [Retries -> Nat]
         /\ cut' \subseteq Identity
  <1>1. exec[w].retries \in Retries
    BY BatchFields
  <1>2. CASE exec[w].retries < MaxRetries
    <2>1. exec[w].retries + 1 \in Retries
      BY <1>1, <1>2, BoundsAssumption DEF Retries
    <2>2. /\ exec' = [exec EXCEPT ![w] = Free]
          /\ Enqueue(exec[w].retries + 1, 2)
          /\ Lose(w)
      BY <1>2 DEF FailIdentity
    <2>3. QED
      BY <2>1, <2>2, ExecType, EnqueueType, LoseType
  <1>3. CASE ~(exec[w].retries < MaxRetries)
    <2>1. PassOver(w, i) /\ UNCHANGED <<queue, cut>>
      BY <1>3 DEF FailIdentity
    <2>2. exec' \in [Celery -> Batch \cup {Free}]
      BY <2>1, PassOverType
    <2>3. QED
      BY <2>1, <2>2 DEF TokensTypeOK
  <1>4. QED
    BY <1>2, <1>3

(* Where Azure AD keeps the token, the batch has one identity less to go   *)
(* through, and does not write its column.                                 *)
LEMMA KeptBatch ==
  ASSUME TokensTypeOK, NEW w \in Celery, NEW i \in Identity,
         ExchangeKept(w, i)
  PROVE  \E b \in Batch :
           /\ exec' = [exec EXCEPT ![w] = b]
           /\ b.retries = exec[w].retries
           /\ b.todo = exec[w].todo \ {i}
           /\ b.dirty = {i} /\ b.flushed = exec[w].flushed
           /\ \A j \in Identity \ {i} : b.copy[j] = exec[w].copy[j]
           /\ b.copy[i] = NoToken
  <1>1. exec[w] \in Batch /\ exec[w] # Free
    BY BatchFields DEF ExchangeKept, IsNext
  <1>2. PICK b \in Batch :
          b = [exec[w] EXCEPT !.todo = @ \ {i}, !.dirty = {i},
                              !.copy[i] = NoToken]
    BY <1>1 DEF Batch, Column
  <1>3. exec' = [exec EXCEPT ![w] = b]
    BY <1>1, <1>2 DEF ExchangeKept, TokensTypeOK
  <1>4. /\ b.retries = exec[w].retries
        /\ b.todo = exec[w].todo \ {i}
        /\ b.dirty = {i} /\ b.flushed = exec[w].flushed
        /\ \A j \in Identity \ {i} : b.copy[j] = exec[w].copy[j]
        /\ b.copy[i] = NoToken
    BY <1>1, <1>2 DEF Batch
  <1>5. QED
    BY <1>3, <1>4

LEMMA KeptFrame ==
  ASSUME NEW w \in Celery, NEW i \in Identity, ExchangeKept(w, i)
  PROVE  /\ IsNext(w, i) /\ ForgetUnused /\ Happens
         /\ UNCHANGED <<fixed, stored, due, queue, user, cleaning, cut>>
  BY DEF ExchangeKept

LEMMA KeptType ==
  ASSUME TokensTypeOK, NEW w \in Celery, NEW i \in Identity,
         ExchangeKept(w, i)
  PROVE  TokensTypeOK'
  <1>1. /\ IsNext(w, i) /\ ForgetUnused /\ Happens
        /\ UNCHANGED <<fixed, stored, due, queue, user, cleaning, cut>>
    BY KeptFrame
  <1>2. PICK b \in Batch : exec' = [exec EXCEPT ![w] = b]
    BY KeptBatch
  <1>3. exec' \in [Celery -> Batch \cup {Free}]
    BY <1>2, ExecType
  <1>4. valid' \in [Identity -> SUBSET Token]
    BY <1>1, ForgetType
  <1>5. events' \in 0..MaxEvents
    BY <1>1, HappensType
  <1>6. QED
    BY <1>1, <1>3, <1>4, <1>5 DEF TokensTypeOK, fixed

LEMMA BatchType ==
  ASSUME TokensTypeOK, NEW w \in Celery,
         \/ \E r \in Retries : Receive(w, r)
         \/ BatchStep(w)
         \/ \E i \in Identity : ExchangeKept(w, i) \/ ExchangeFails(w, i)
         \/ Crash(w)
  PROVE  TokensTypeOK'
  <1>1. ASSUME NEW r \in Retries, Receive(w, r)
        PROVE  TokensTypeOK'
    <2>1. queue' \in [Retries -> Nat]
      BY <1>1 DEF Receive, TokensTypeOK
    <2>2. exec' \in [Celery -> Batch \cup {Free}]
      <3> DEFINE copied == [i \in Identity |-> IF i \in Expiring
                                               THEN stored[i] ELSE NoToken]
      <3>1. copied \in [Identity -> Column]
        BY DEF TokensTypeOK, Column
      <3>2. Expiring \in SUBSET Identity
        BY DEF TokensTypeOK, Expiring
      <3> HIDE DEF copied
      <3>3. [pc |-> "batch", retries |-> r, todo |-> Expiring,
             copy |-> copied, dirty |-> {}, flushed |-> {}] \in Batch
        BY <3>1, <3>2 DEF Batch
      <3>4. exec' = [exec EXCEPT ![w] =
              [pc |-> "batch", retries |-> r, todo |-> Expiring,
               copy |-> copied, dirty |-> {}, flushed |-> {}]]
        BY <1>1 DEF Receive, copied
      <3>5. QED
        BY <3>3, <3>4, ExecType
    <2>3. QED
      BY <1>1, <2>1, <2>2 DEF Receive, TokensTypeOK, fixed
  <1>2. CASE Flush(w)
    <2>1. exec[w] \in Batch
      BY <1>2, BatchFields DEF Flush
    <2>2. [exec[w] EXCEPT !.dirty = {}, !.flushed = @ \cup exec[w].dirty]
            \in Batch
      BY <2>1 DEF Batch
    <2>3. exec' = [exec EXCEPT ![w] =
            [exec[w] EXCEPT !.dirty = {},
                            !.flushed = @ \cup exec[w].dirty]]
      BY <1>2, <2>1 DEF Flush, TokensTypeOK
    <2>4. exec' \in [Celery -> Batch \cup {Free}]
      BY <2>2, <2>3, ExecType
    <2>5. QED
      BY <1>2, <2>4 DEF Flush, TokensTypeOK, fixed
  <1>3. ASSUME NEW i \in Identity, Skip(w, i)
        PROVE  TokensTypeOK'
    <2>1. exec' \in [Celery -> Batch \cup {Free}]
      BY <1>3, PassOverType DEF Skip, IsNext
    <2>2. valid' \in [Identity -> SUBSET Token]
      BY <1>3, ForgetType DEF Skip
    <2>3. QED
      BY <1>3, <2>1, <2>2 DEF Skip, TokensTypeOK, fixed
  <1>4. ASSUME NEW i \in Identity, Exchange(w, i)
        PROVE  TokensTypeOK'
    <2>1. exec[w] \in Batch
      BY <1>4, BatchFields DEF Exchange, IsNext
    <2>2. PICK t \in Token : t = FreshToken(i)
      BY <1>4, FreshTokenType DEF Exchange
    <2>3. [exec[w] EXCEPT !.todo = @ \ {i}, !.dirty = {i}, !.copy[i] = t]
            \in Batch
      BY <2>1 DEF Batch, Column
    <2>4. exec' = [exec EXCEPT ![w] =
            [exec[w] EXCEPT !.todo = @ \ {i}, !.dirty = {i},
                            !.copy[i] = t]]
      BY <1>4, <2>1, <2>2 DEF Exchange, TokensTypeOK
    <2>5. exec' \in [Celery -> Batch \cup {Free}]
      BY <2>3, <2>4, ExecType
    <2>6. valid' \in [Identity -> SUBSET Token]
      BY <1>4, <2>2, IssueType DEF Exchange
    <2>7. QED
      BY <1>4, <2>5, <2>6 DEF Exchange, TokensTypeOK, fixed
  <1>5. ASSUME NEW i \in Identity, ExchangeRefused(w, i)
        PROVE  TokensTypeOK'
    <2>1. /\ exec' \in [Celery -> Batch \cup {Free}]
          /\ queue' \in [Retries -> Nat]
          /\ cut' \subseteq Identity
      BY <1>5, FailIdentityType DEF ExchangeRefused, IsNext
    <2>2. valid' \in [Identity -> SUBSET Token]
      BY <1>5, ForgetType DEF ExchangeRefused
    <2>3. QED
      BY <1>5, <2>1, <2>2 DEF ExchangeRefused, TokensTypeOK, fixed
  <1>6. ASSUME NEW i \in Identity, ExchangeFails(w, i)
        PROVE  TokensTypeOK'
    <2>1. /\ exec' \in [Celery -> Batch \cup {Free}]
          /\ queue' \in [Retries -> Nat]
          /\ cut' \subseteq Identity
      <3>1. CASE FailIdentity(w, i)
        BY <1>6, <3>1, FailIdentityType DEF ExchangeFails, IsNext
      <3>2. CASE PassOver(w, i) /\ UNCHANGED <<queue, cut>>
        <4>1. exec' \in [Celery -> Batch \cup {Free}]
          BY <1>6, <3>2, PassOverType DEF ExchangeFails, IsNext
        <4>2. QED
          BY <3>2, <4>1 DEF TokensTypeOK
      <3>3. QED
        BY <1>6, <3>1, <3>2 DEF ExchangeFails
    <2>2. valid' \in [Identity -> SUBSET Token]
      BY <1>6, ForgetType DEF ExchangeFails
    <2>3. events' \in 0..MaxEvents
      BY <1>6, HappensType DEF ExchangeFails
    <2>4. QED
      BY <1>6, <2>1, <2>2, <2>3 DEF ExchangeFails, TokensTypeOK, fixed
  <1>7. CASE Deadlock(w)
    <2>1. exec' \in [Celery -> Batch \cup {Free}]
      BY <1>7, ExecType DEF Deadlock
    <2>2. valid' \in [Identity -> SUBSET Token]
      BY <1>7, ForgetType DEF Deadlock
    <2>3. cut' \subseteq Identity
      BY <1>7, LoseType DEF Deadlock
    <2>4. exec[w].retries \in Retries
      BY <1>7, BatchFields DEF Deadlock
    <2>5. queue' \in [Retries -> Nat]
      <3>1. CASE exec[w].retries < MaxRetries
        <4>1. exec[w].retries + 1 \in Retries
          BY <2>4, <3>1, BoundsAssumption DEF Retries
        <4>2. PICK n \in Nat : Enqueue(exec[w].retries + 1, n)
          BY <1>7, <3>1 DEF Deadlock
        <4>3. QED
          BY <4>1, <4>2, EnqueueType
      <3>2. CASE ~(exec[w].retries < MaxRetries)
        BY <1>7, <3>2 DEF Deadlock, TokensTypeOK
      <3>3. QED
        BY <3>1, <3>2
    <2>6. QED
      BY <1>7, <2>1, <2>2, <2>3, <2>5 DEF Deadlock, TokensTypeOK, fixed
  <1>8. CASE CommitBatch(w)
    <2>1. exec' \in [Celery -> Batch \cup {Free}]
      BY <1>8, ExecType DEF CommitBatch
    <2>2. valid' \in [Identity -> SUBSET Token]
      BY <1>8, ForgetType DEF CommitBatch
    <2>3. stored' \in [Identity -> Column]
      BY <1>8, BatchFields DEF CommitBatch, TokensTypeOK
    <2>4. QED
      BY <1>8, <2>1, <2>2, <2>3 DEF CommitBatch, TokensTypeOK, fixed
  <1>9. CASE Crash(w)
    <2>1. exec' \in [Celery -> Batch \cup {Free}]
      BY <1>9, ExecType DEF Crash
    <2>2. valid' \in [Identity -> SUBSET Token]
      BY <1>9, ForgetType DEF Crash
    <2>3. cut' \subseteq Identity
      BY <1>9, LoseType DEF Crash
    <2>4. queue' \in [Retries -> Nat]
      BY <1>9, BatchFields, EnqueueType DEF Crash
    <2>5. events' \in 0..MaxEvents
      BY <1>9, HappensType DEF Crash
    <2>6. QED
      BY <1>9, <2>1, <2>2, <2>3, <2>4, <2>5 DEF Crash, TokensTypeOK, fixed
  <1>10. ASSUME NEW i \in Identity, FailWithoutToken(w, i)
         PROVE  TokensTypeOK'
    <2>1. exec' \in [Celery -> Batch \cup {Free}]
      BY <1>10, PassOverType DEF FailWithoutToken, IsNext
    <2>2. valid' \in [Identity -> SUBSET Token]
      BY <1>10, ForgetType DEF FailWithoutToken
    <2>3. QED
      BY <1>10, <2>1, <2>2 DEF FailWithoutToken, TokensTypeOK, fixed
  <1>11. ASSUME NEW i \in Identity, ExchangeKept(w, i)
         PROVE  TokensTypeOK'
    BY <1>11, KeptType
  <1>12. QED
    BY <1>1, <1>2, <1>3, <1>4, <1>5, <1>6, <1>7, <1>8, <1>9, <1>10, <1>11
    DEF BatchStep

LEMMA UserType ==
  ASSUME TokensTypeOK, NEW i \in Identity, UserStep(i)
  PROVE  TokensTypeOK'
  <1>1. MaxRetries \in Retries /\ 0 \in Retries
    BY BoundsAssumption DEF Retries
  <1>2. ASSUME NEW r \in UserRequest \cup {Free},
               user' = [user EXCEPT ![i] = r]
        PROVE  user' \in [Identity -> UserRequest \cup {Free}]
    BY <1>2 DEF TokensTypeOK
  <1>3. ASSUME stored[i] # NoToken
        PROVE  stored[i] \in Token \cup {NoneToken}
    BY <1>3 DEF TokensTypeOK, Column
  <1>4. CASE StartRefresh(i)
    <2>1. Request("exchange", stored[i], 0) \in UserRequest
      BY <1>1, <1>3, <1>4 DEF StartRefresh, Request, UserRequest
    <2>2. user' \in [Identity -> UserRequest \cup {Free}]
      BY <1>2, <1>4, <2>1 DEF StartRefresh
    <2>3. events' \in 0..MaxEvents
      BY <1>4, HappensType DEF StartRefresh
    <2>4. QED
      BY <1>4, <2>2, <2>3 DEF StartRefresh, TokensTypeOK, fixed
  <1>5. CASE StartTask(i)
    <2>1. Request("exchange", stored[i], MaxRetries) \in UserRequest
      BY <1>1, <1>3, <1>5
      DEF StartTask, Refreshable, Expiring, Request, UserRequest
    <2>2. user' \in [Identity -> UserRequest \cup {Free}]
      BY <1>2, <1>5, <2>1 DEF StartTask
    <2>3. events' \in 0..MaxEvents
      BY <1>5, HappensType DEF StartTask
    <2>4. QED
      BY <1>5, <2>2, <2>3 DEF StartTask, TokensTypeOK, fixed
  <1>6. CASE RetryTask(i)
    <2>1. user[i].left \in Retries
      BY <1>6, UserFields DEF RetryTask, Free
    <2>2. CASE user' = [user EXCEPT ![i] = Free]
      BY <1>2, <1>6, <2>2 DEF RetryTask, TokensTypeOK, fixed
    <2>3. CASE /\ Refreshable(i)
               /\ user' = [user EXCEPT ![i] =
                             Request("exchange", stored[i], user[i].left)]
      <3>1. Request("exchange", stored[i], user[i].left) \in UserRequest
        BY <1>3, <2>1, <2>3 DEF Refreshable, Expiring, Request, UserRequest
      <3>2. user' \in [Identity -> UserRequest \cup {Free}]
        BY <1>2, <2>3, <3>1
      <3>3. QED
        BY <1>6, <3>2 DEF RetryTask, TokensTypeOK, fixed
    <2>4. QED
      BY <1>6, <2>2, <2>3 DEF RetryTask
  <1>7. CASE ExchangeForUser(i)
    <2>1. PICK t \in Token : t = FreshToken(i)
      BY <1>7, FreshTokenType DEF ExchangeForUser
    <2>2. [user[i] EXCEPT !.pc = "commit", !.copy = t] \in UserRequest
      <3>1. user[i].pc = "exchange" /\ user[i] \in UserRequest
        BY <1>7, UserFields DEF ExchangeForUser, Free
      <3>2. user[i] \in [pc : {"exchange"}, copy : Token \cup {NoneToken},
                         left : Retries]
        BY <3>1 DEF UserRequest
      <3>3. [user[i] EXCEPT !.pc = "commit", !.copy = t]
              \in [pc : {"commit"}, copy : Token \cup {NoToken},
                   left : Retries]
        BY <3>2
      <3>4. QED
        BY <3>3 DEF UserRequest
    <2>3. user' = [user EXCEPT ![i] =
                     [user[i] EXCEPT !.pc = "commit", !.copy = t]]
      BY <1>7, <2>1 DEF ExchangeForUser, TokensTypeOK
    <2>4. user' \in [Identity -> UserRequest \cup {Free}]
      BY <1>2, <2>2, <2>3
    <2>5. valid' \in [Identity -> SUBSET Token]
      BY <1>7, <2>1, IssueType DEF ExchangeForUser
    <2>6. QED
      BY <1>7, <2>4, <2>5 DEF ExchangeForUser, TokensTypeOK, fixed
  <1>8. CASE RefreshFails(i)
    <2>1. PICK r \in UserRequest \cup {Free} : user' = [user EXCEPT ![i] = r]
      <3>1. CASE user[i].left = 0
        BY <1>8, <3>1 DEF RefreshFails
      <3>2. CASE user[i].left # 0
        <4>1. user[i].left - 1 \in Retries
          BY <1>8, <3>2, UserFields, BoundsAssumption
          DEF RefreshFails, Retries, Free
        <4>2. Request("retry", NoToken, user[i].left - 1) \in UserRequest
          BY <4>1 DEF Request, UserRequest
        <4>3. QED
          BY <1>8, <3>2, <4>2 DEF RefreshFails
      <3>3. QED
        BY <3>1, <3>2
    <2>2. user' \in [Identity -> UserRequest \cup {Free}]
      BY <1>2, <2>1
    <2>3. valid' \in [Identity -> SUBSET Token]
      BY <1>8, ForgetType DEF RefreshFails
    <2>4. events' \in 0..MaxEvents
      <3>1. CASE UNCHANGED events
        BY <3>1 DEF TokensTypeOK
      <3>2. CASE Happens
        BY <3>2, HappensType
      <3>3. QED
        BY <1>8, <3>1, <3>2 DEF RefreshFails
    <2>5. QED
      BY <1>8, <2>2, <2>3, <2>4 DEF RefreshFails, TokensTypeOK, fixed
  <1>9. CASE CommitRefresh(i)
    <2>1. user' \in [Identity -> UserRequest \cup {Free}]
      BY <1>2, <1>9 DEF CommitRefresh
    <2>2. valid' \in [Identity -> SUBSET Token]
      BY <1>9, ForgetType DEF CommitRefresh
    <2>3. user[i].copy \in Column
      BY <1>9, UserFields DEF CommitRefresh, Free
    <2>4. stored' \in [Identity -> Column]
      BY <1>9, <2>3 DEF CommitRefresh, TokensTypeOK
    <2>5. QED
      BY <1>9, <2>1, <2>2, <2>4 DEF CommitRefresh, TokensTypeOK, fixed
  <1>10. CASE Login(i)
    <2>1. PICK t \in Token : t = FreshToken(i)
      BY <1>10, FreshTokenType DEF Login
    <2>2. /\ valid' \in [Identity -> SUBSET Token]
          /\ stored' \in [Identity -> Column]
          /\ cut' \subseteq Identity
      BY <1>10, <2>1 DEF Login, TokensTypeOK, Column
    <2>3. events' \in 0..MaxEvents
      BY <1>10, HappensType DEF Login
    <2>4. QED
      BY <1>10, <2>2, <2>3 DEF Login, TokensTypeOK, fixed
  <1>11. CASE Logout(i)
    <2>1. valid' \in [Identity -> SUBSET Token]
      BY <1>11, ForgetType DEF Logout
    <2>2. stored' \in [Identity -> Column]
      BY <1>11 DEF Logout, TokensTypeOK, Column
    <2>3. events' \in 0..MaxEvents
      BY <1>11, HappensType DEF Logout
    <2>4. QED
      BY <1>11, <2>1, <2>2, <2>3 DEF Logout, TokensTypeOK, fixed
  <1>12. CASE KeepForUser(i)
    <2>1. [user[i] EXCEPT !.pc = "commit", !.copy = NoToken] \in UserRequest
      <3>1. user[i].pc = "exchange" /\ user[i] \in UserRequest
        BY <1>12, UserFields DEF KeepForUser, Free
      <3>2. user[i] \in [pc : {"exchange"}, copy : Token \cup {NoneToken},
                         left : Retries]
        BY <3>1 DEF UserRequest
      <3>3. [user[i] EXCEPT !.pc = "commit", !.copy = NoToken]
              \in [pc : {"commit"}, copy : Token \cup {NoToken},
                   left : Retries]
        BY <3>2
      <3>4. QED
        BY <3>3 DEF UserRequest
    <2>2. user' = [user EXCEPT ![i] =
                     [user[i] EXCEPT !.pc = "commit", !.copy = NoToken]]
      BY <1>12 DEF KeepForUser, TokensTypeOK
    <2>3. user' \in [Identity -> UserRequest \cup {Free}]
      BY <1>2, <2>1, <2>2
    <2>4. valid' \in [Identity -> SUBSET Token]
      BY <1>12, ForgetType DEF KeepForUser
    <2>5. events' \in 0..MaxEvents
      BY <1>12, HappensType DEF KeepForUser
    <2>6. QED
      BY <1>12, <2>3, <2>4, <2>5 DEF KeepForUser, TokensTypeOK, fixed
  <1>13. CASE LoginWithoutToken(i)
    <2>1. valid' \in [Identity -> SUBSET Token]
      BY <1>13, ForgetType DEF LoginWithoutToken
    <2>2. stored' \in [Identity -> Column]
      BY <1>13 DEF LoginWithoutToken, TokensTypeOK, Column
    <2>3. events' \in 0..MaxEvents
      BY <1>13, HappensType DEF LoginWithoutToken
    <2>4. QED
      BY <1>13, <2>1, <2>2, <2>3 DEF LoginWithoutToken, TokensTypeOK, fixed
  <1>14. QED
    BY <1>4, <1>5, <1>6, <1>7, <1>8, <1>9, <1>10, <1>11, <1>12, <1>13
    DEF UserStep

LEMMA OtherType ==
  ASSUME TokensTypeOK,
         \/ Schedule \/ CleanUp \/ CommitCleanUp \/ CleanUpFails
         \/ \E i \in Identity : Expire(i) \/ Revoke(i)
  PROVE  TokensTypeOK'
  <1>1. CASE Schedule
    <2>1. 0 \in Retries
      BY BoundsAssumption DEF Retries
    <2>2. queue' \in [Retries -> Nat]
      BY <1>1, <2>1, EnqueueType DEF Schedule
    <2>3. QED
      BY <1>1, <2>2 DEF Schedule, TokensTypeOK, fixed
  <1>2. CASE CleanUp
    <2>1. events' \in 0..MaxEvents
      BY <1>2, HappensType DEF CleanUp
    <2>2. cleaning' \subseteq Identity
      BY <1>2 DEF CleanUp, Expiring, TokensTypeOK
    <2>3. QED
      BY <1>2, <2>1, <2>2 DEF CleanUp, TokensTypeOK, fixed
  <1>3. CASE CommitCleanUp
    <2>1. valid' \in [Identity -> SUBSET Token]
      BY <1>3, ForgetType DEF CommitCleanUp
    <2>2. stored' \in [Identity -> Column]
      BY <1>3 DEF CommitCleanUp, TokensTypeOK, Column
    <2>3. QED
      BY <1>3, <2>1, <2>2 DEF CommitCleanUp, TokensTypeOK, fixed
  <1>4. CASE CleanUpFails
    BY <1>4 DEF CleanUpFails, TokensTypeOK, fixed
  <1>5. ASSUME NEW i \in Identity, Expire(i)
        PROVE  TokensTypeOK'
    BY <1>5 DEF Expire, TokensTypeOK, fixed
  <1>6. ASSUME NEW i \in Identity, Revoke(i)
        PROVE  TokensTypeOK'
    <2>1. events' \in 0..MaxEvents
      BY <1>6, HappensType DEF Revoke
    <2>2. valid' \in [Identity -> SUBSET Token] /\ cut' \subseteq Identity
      BY <1>6 DEF Revoke, TokensTypeOK
    <2>3. QED
      BY <1>6, <2>1, <2>2 DEF Revoke, TokensTypeOK, fixed
  <1>7. QED
    BY <1>1, <1>2, <1>3, <1>4, <1>5, <1>6

LEMMA NextType == TokensTypeOK /\ [TokensNext]_tokenVars => TokensTypeOK'
  <1>1. ASSUME TokensTypeOK, UNCHANGED tokenVars
        PROVE  TokensTypeOK'
    BY <1>1 DEF TokensTypeOK, tokenVars, fixed
  <1>2. ASSUME TokensTypeOK, TokensNext
        PROVE  TokensTypeOK'
    BY <1>2, BatchType, UserType, OtherType DEF TokensNext
  <1>3. QED
    BY <1>1, <1>2

(* Every variable has its type: Azure AD never issues a token that somebody *)
(* has, and no message has more retries behind it than the task allows.    *)
THEOREM TokensTypeCorrect == TokensSpec => []TokensTypeOK
  <1>1. QED
    BY InitType, NextType, PTL DEF TokensSpec

-----------------------------------------------------------------------------
(***************************************************************************)
(* What is stored can be used                                              *)
(*                                                                         *)
(* A token that somebody has exchanged is one that nobody else has: not    *)
(* the row, not another worker, not a user.  No exchange of theirs can     *)
(* invalidate it, then, before it is stored; and what is exchanged and not *)
(* stored is either in flight or, when it is lost, in `cut`.               *)
(***************************************************************************)

(* What a worker has saved is not exchanged by it again.                   *)
TodoInv ==
  \A w \in Celery : exec[w] # Free => Saved(w) \cap exec[w].todo = {}

(* Nobody but worker w has the token it has been given. *)
OnlyOf(w, i) ==
  /\ exec[w].copy[i] \in Token
  /\ stored[i] # exec[w].copy[i]
  /\ user[i] # Free => user[i].copy # exec[w].copy[i]
  /\ \A v \in Celery \ {w} :
       exec[v] # Free => exec[v].copy[i] # exec[w].copy[i]

BatchSound ==
  \A w \in Celery : \A i \in Exchanged(w) :
    /\ i \in cut \/ exec[w].copy[i] \in valid[i]
    /\ OnlyOf(w, i)

(* A request has a new token of i. *)
NewForUser(i) == user[i].pc = "commit" /\ user[i].copy # NoToken

UserSound ==
  \A i \in Identity :
    NewForUser(i) =>
      /\ i \in cut \/ user[i].copy \in valid[i]
      /\ stored[i] # user[i].copy
      /\ \A v \in Celery : exec[v] # Free => exec[v].copy[i] # user[i].copy

StoredSound ==
  \A i \in Identity \ cut :
    stored[i] \in Token =>
      stored[i] \in valid[i] \/ (rotates /\ InFlight(i))

Sound == TodoInv /\ BatchSound /\ UserSound /\ StoredSound

TokenInv == TokensTypeOK /\ Sound

LEMMA InitSound == TokensInit => Sound
  BY DEF TokensInit, Sound, TodoInv, BatchSound, UserSound, StoredSound,
         NewForUser, Exchanged, Saved, Free

LEMMA InUseOf ==
  ASSUME NEW i \in Identity
  PROVE  /\ stored[i] \in InUse(i)
         /\ \A w \in Celery : exec[w] # Free => exec[w].copy[i] \in InUse(i)
         /\ user[i] # Free => user[i].copy \in InUse(i)
  BY DEF InUse

(* What is valid and still held stays valid. *)
KeepsValid ==
  \A i \in Identity :
    /\ stored'[i] \in valid[i] => stored'[i] \in valid'[i]
    /\ user'[i] # Free /\ user'[i].copy \in valid[i]
         => user'[i].copy \in valid'[i]
    /\ \A w \in Celery :
         exec'[w] # Free /\ exec'[w].copy[i] \in valid[i]
           => exec'[w].copy[i] \in valid'[i]

LEMMA ForgetKeepsValid == ForgetUnused => KeepsValid
  BY DEF ForgetUnused, KeepsValid, InUse

(* The steps that neither exchange nor store a token. *)
BatchesKeep ==
  \A w \in Celery :
    /\ Exchanged(w)' \subseteq Exchanged(w)
    /\ \A i \in Exchanged(w) : rotates => i \in Exchanged(w)' \/ i \in cut'
    /\ exec'[w] # Free =>
         \/ Saved(w)' = {}
         \/ /\ exec[w] # Free /\ exec'[w].todo \subseteq exec[w].todo
            /\ Saved(w)' \subseteq Saved(w) \cup (exec[w].todo \ exec'[w].todo)
    /\ \A i \in Identity :
         exec'[w] # Free =>
           \/ exec[w] # Free /\ exec'[w].copy[i] = exec[w].copy[i]
           \/ /\ i \notin Exchanged(w)'
              /\ exec'[w].copy[i] \in {stored[i], NoToken}

UsersKeep ==
  \A i \in Identity :
    \/ user'[i] = user[i]
    \/ /\ ~NewForUser(i) /\ ~NewForUser(i)'
       /\ user'[i] # Free => user'[i].copy \in {stored[i], NoToken}

StoresNothing ==
  /\ rotates' = rotates
  /\ cut \subseteq cut'
  /\ \A i \in Identity : stored'[i] \in {stored[i], NoToken, NoneToken}
  /\ KeepsValid
  /\ BatchesKeep
  /\ UsersKeep

LEMMA StoresNothingSound ==
  ASSUME TokensTypeOK, Sound, StoresNothing
  PROVE  Sound'
  <1>1. TodoInv'
    BY DEF Sound, TodoInv, StoresNothing, BatchesKeep, Saved
  <1>2. ASSUME NEW w \in Celery, NEW i \in Exchanged(w)'
        PROVE  /\ i \in Identity /\ i \in Exchanged(w)
               /\ exec[w] # Free /\ exec'[w] # Free
               /\ exec'[w].copy[i] = exec[w].copy[i]
    <2>1. i \in Exchanged(w) /\ exec'[w] # Free /\ exec[w] # Free
      BY <1>2 DEF StoresNothing, BatchesKeep, Exchanged, Saved
    <2>2. i \in Identity
      BY <2>1, BatchFields DEF Exchanged, Saved
    <2>3. QED
      BY <1>2, <2>1, <2>2 DEF StoresNothing, BatchesKeep
  <1>3. ASSUME NEW w \in Celery, NEW i \in Exchanged(w)'
        PROVE  i \in cut' \/ exec'[w].copy[i] \in valid'[i]
    BY <1>2, <1>3 DEF Sound, BatchSound, StoresNothing, KeepsValid
  <1>4. ASSUME NEW w \in Celery, NEW i \in Exchanged(w)'
        PROVE  OnlyOf(w, i)'
    <2>1. OnlyOf(w, i)
      BY <1>2, <1>4 DEF Sound, BatchSound
    <2>2. /\ exec'[w].copy[i] \in Token
          /\ exec'[w].copy[i] \notin {NoToken, NoneToken}
          /\ exec'[w].copy[i] # stored[i]
          /\ stored'[i] # exec'[w].copy[i]
      BY <1>2, <1>4, <2>1, NoTokenAssumption
      DEF OnlyOf, StoresNothing, Token
    <2>3. user'[i] # Free => user'[i].copy # exec'[w].copy[i]
      BY <1>2, <1>4, <2>1, <2>2 DEF OnlyOf, StoresNothing, UsersKeep
    <2>4. ASSUME NEW v \in Celery \ {w}, exec'[v] # Free
          PROVE  exec'[v].copy[i] # exec'[w].copy[i]
      BY <1>2, <1>4, <2>1, <2>2, <2>4 DEF OnlyOf, StoresNothing, BatchesKeep
    <2>5. QED
      BY <2>2, <2>3, <2>4 DEF OnlyOf
  <1>5. BatchSound'
    BY <1>3, <1>4 DEF BatchSound
  <1>6. UserSound'
    <2> SUFFICES ASSUME NEW i \in Identity, NewForUser(i)'
                 PROVE  /\ i \in cut' \/ user'[i].copy \in valid'[i]
                        /\ stored'[i] # user'[i].copy
                        /\ \A v \in Celery : exec'[v] # Free =>
                             exec'[v].copy[i] # user'[i].copy
      BY DEF UserSound
    <2>1. user'[i] = user[i] /\ user[i] # Free /\ NewForUser(i)
      BY DEF StoresNothing, UsersKeep, NewForUser, Free
    <2>2. user[i].copy \in Token /\ user[i].copy # stored[i]
      BY <2>1, UserFields DEF Sound, UserSound, NewForUser
    <2>3. i \in cut' \/ user'[i].copy \in valid'[i]
      BY <2>1 DEF Sound, UserSound, StoresNothing, KeepsValid
    <2>4. ASSUME NEW v \in Celery, exec'[v] # Free
          PROVE  exec'[v].copy[i] # user'[i].copy
      <3>1. user[i].copy # NoToken
        BY <2>1 DEF NewForUser
      <3>2. QED
        BY <2>1, <2>2, <2>4, <3>1
        DEF Sound, UserSound, StoresNothing, BatchesKeep
    <2>5. stored'[i] # user'[i].copy
      BY <2>1, <2>2, NoTokenAssumption DEF StoresNothing, Token
    <2>6. QED
      BY <2>3, <2>4, <2>5
  <1>7. StoredSound'
    <2> SUFFICES ASSUME NEW i \in Identity, i \notin cut',
                        stored'[i] \in Token, stored'[i] \notin valid'[i]
                 PROVE  rotates' /\ InFlight(i)'
      BY DEF StoredSound, Token
    <2>1. stored'[i] = stored[i] /\ i \notin cut
      BY NoTokenAssumption DEF StoresNothing, Token
    <2>2. stored[i] \notin valid[i]
      BY <2>1 DEF StoresNothing, KeepsValid
    <2>3. rotates /\ InFlight(i)
      BY <2>1, <2>2 DEF Sound, StoredSound
    <2>4. CASE NewForUser(i)
      BY <2>3, <2>4 DEF InFlight, NewForUser, StoresNothing, UsersKeep
    <2>5. ASSUME NEW w \in Celery, i \in Exchanged(w)
          PROVE  rotates' /\ InFlight(i)'
      <3>1. i \in Exchanged(w)' /\ rotates'
        BY <2>3, <2>5 DEF StoresNothing, BatchesKeep
      <3>2. QED
        BY <3>1 DEF InFlight
    <2>6. QED
      BY <2>3, <2>4, <2>5 DEF InFlight, NewForUser
  <1>8. QED
    BY <1>1, <1>5, <1>6, <1>7 DEF Sound

(* The same batch for every worker but w. *)
LEMMA OtherBatches ==
  ASSUME TokensTypeOK, NEW w \in Celery, NEW b, exec' = [exec EXCEPT ![w] = b]
  PROVE  /\ exec'[w] = b
         /\ \A v \in Celery \ {w} :
             /\ exec'[v] = exec[v] /\ Saved(v)' = Saved(v)
             /\ Exchanged(v)' = Exchanged(v)
  BY DEF TokensTypeOK, Exchanged, Saved

(* What BatchesKeep says of the worker w that takes the step. *)
LEMMA OneBatchKeeps ==
  ASSUME NEW w \in Celery,
         \A v \in Celery \ {w} :
           /\ exec'[v] = exec[v] /\ Saved(v)' = Saved(v)
           /\ Exchanged(v)' = Exchanged(v),
         exec[w] # Free, Exchanged(w)' = Exchanged(w),
         exec'[w].todo \subseteq exec[w].todo,
         Saved(w)' \subseteq Saved(w) \cup (exec[w].todo \ exec'[w].todo),
         \A i \in Identity :
           \/ exec'[w].copy[i] = exec[w].copy[i]
           \/ i \notin Exchanged(w)' /\ exec'[w].copy[i] = NoToken
  PROVE  BatchesKeep
  BY DEF BatchesKeep

LEMMA SameBatchesKeep ==
  ASSUME exec' = exec
  PROVE  BatchesKeep
  BY DEF BatchesKeep, Exchanged, Saved

LEMMA SameUsersKeep ==
  ASSUME user' = user
  PROVE  UsersKeep
  BY DEF UsersKeep

LEMMA EndKeeps ==
  ASSUME TokensTypeOK, NEW w \in Celery, exec' = [exec EXCEPT ![w] = Free],
         Lose(w)
  PROVE  BatchesKeep /\ cut \subseteq cut'
  <1>1. /\ exec'[w] = Free
        /\ \A v \in Celery \ {w} :
             /\ exec'[v] = exec[v] /\ Saved(v)' = Saved(v)
             /\ Exchanged(v)' = Exchanged(v)
    BY OtherBatches
  <1>2. Saved(w)' = {} /\ Exchanged(w)' = {}
    BY <1>1 DEF Exchanged, Saved
  <1>3. rotates => Exchanged(w) \subseteq cut'
    BY DEF Lose
  <1>4. QED
    BY <1>1, <1>2, <1>3 DEF BatchesKeep, Lose, Exchanged, Saved

LEMMA PassOverKeeps ==
  ASSUME TokensTypeOK, Sound, NEW w \in Celery, NEW i \in Identity, IsNext(w,
         i),
         PassOver(w, i)
  PROVE  BatchesKeep
  <1>1. exec[w] \in Batch /\ exec[w] # Free /\ i \notin Saved(w)
    BY BatchFields DEF IsNext, Sound, TodoInv
  <1>2. PICK b \in Batch :
          b = [exec[w] EXCEPT !.todo = @ \ {i}, !.copy[i] = NoToken]
    BY <1>1 DEF Batch, Column
  <1>3. exec' = [exec EXCEPT ![w] = b]
    BY <1>1, <1>2 DEF PassOver, TokensTypeOK
  <1>4. /\ b.todo \subseteq exec[w].todo
        /\ b.dirty = exec[w].dirty /\ b.flushed = exec[w].flushed
        /\ \A j \in Identity \ {i} : b.copy[j] = exec[w].copy[j]
        /\ b.copy[i] = NoToken
    BY <1>1, <1>2 DEF Batch
  <1>5. /\ exec'[w] = b
        /\ \A v \in Celery \ {w} :
             /\ exec'[v] = exec[v] /\ Saved(v)' = Saved(v)
             /\ Exchanged(v)' = Exchanged(v)
    BY <1>3, OtherBatches
  <1>6. Saved(w)' = Saved(w) /\ exec'[w] # Free
    BY <1>1, <1>4, <1>5, BatchIsNotIdle DEF Saved
  <1>7. Exchanged(w)' = Exchanged(w)
    <2>1. Saved(w) \subseteq Identity \ {i}
      BY <1>1, BatchFields DEF Saved
    <2>2. QED
      BY <1>4, <1>5, <1>6, <2>1 DEF Exchanged
  <1>8. /\ exec'[w].todo \subseteq exec[w].todo
        /\ Saved(w)' \subseteq Saved(w) \cup (exec[w].todo \ exec'[w].todo)
    BY <1>1, <1>4, <1>5, <1>6
  <1>9. \A j \in Identity :
          \/ exec'[w].copy[j] = exec[w].copy[j]
          \/ j \notin Exchanged(w)' /\ exec'[w].copy[j] = NoToken
    BY <1>4, <1>5 DEF Exchanged
  <1>10. QED
    BY <1>1, <1>5, <1>7, <1>8, <1>9, OneBatchKeeps

LEMMA KeptKeeps ==
  ASSUME TokensTypeOK, Sound, NEW w \in Celery, NEW i \in Identity,
         IsNext(w, i), NEW b \in Batch,
         exec' = [exec EXCEPT ![w] = b],
         b.todo = exec[w].todo \ {i},
         b.dirty = {i}, b.flushed = exec[w].flushed,
         \A j \in Identity \ {i} : b.copy[j] = exec[w].copy[j],
         b.copy[i] = NoToken
  PROVE  BatchesKeep
  <1>1. exec[w] \in Batch /\ exec[w] # Free /\ i \notin Saved(w)
        /\ i \in exec[w].todo /\ exec[w].dirty = {}
    BY BatchFields DEF IsNext, Sound, TodoInv
  <1>2. /\ exec'[w] = b
        /\ \A v \in Celery \ {w} :
             /\ exec'[v] = exec[v] /\ Saved(v)' = Saved(v)
             /\ Exchanged(v)' = Exchanged(v)
    BY OtherBatches
  <1>3. Saved(w)' = Saved(w) \cup {i} /\ exec'[w] # Free
    BY <1>1, <1>2, BatchIsNotIdle DEF Saved
  <1>4. Exchanged(w)' = Exchanged(w)
    <2>1. Saved(w) \subseteq Identity \ {i}
      BY <1>1, BatchFields DEF Saved
    <2>2. QED
      BY <1>2, <1>3, <2>1 DEF Exchanged
  <1>5. /\ exec'[w].todo \subseteq exec[w].todo
        /\ Saved(w)' \subseteq Saved(w) \cup (exec[w].todo \ exec'[w].todo)
    BY <1>1, <1>2, <1>3
  <1>6. \A j \in Identity :
          \/ exec'[w].copy[j] = exec[w].copy[j]
          \/ j \notin Exchanged(w)' /\ exec'[w].copy[j] = NoToken
    BY <1>2 DEF Exchanged
  <1>7. QED
    BY <1>1, <1>2, <1>4, <1>5, <1>6, OneBatchKeeps

LEMMA FailIdentityKeeps ==
  ASSUME TokensTypeOK, Sound, NEW w \in Celery, NEW i \in Identity, IsNext(w,
         i),
         FailIdentity(w, i)
  PROVE  BatchesKeep /\ cut \subseteq cut'
  <1>1. CASE exec[w].retries < MaxRetries
    BY <1>1, EndKeeps DEF FailIdentity
  <1>2. CASE ~(exec[w].retries < MaxRetries)
    BY <1>2, PassOverKeeps DEF FailIdentity
  <1>3. QED
    BY <1>1, <1>2

LEMMA ReceiveKeeps ==
  ASSUME TokensTypeOK, NEW w \in Celery, NEW r \in Retries, Receive(w, r)
  PROVE  BatchesKeep
  <1> DEFINE copied == [i \in Identity |-> IF i \in Expiring
                                           THEN stored[i] ELSE NoToken]
  <1>1. PICK b : b = [pc |-> "batch", retries |-> r, todo |-> Expiring,
                      copy |-> copied, dirty |-> {}, flushed |-> {}]
    OBVIOUS
  <1>2. exec' = [exec EXCEPT ![w] = b]
    BY <1>1 DEF Receive
  <1>3. \A i \in Identity : b.copy[i] \in {stored[i], NoToken}
    BY <1>1
  <1>4. b.dirty = {} /\ b.flushed = {}
    BY <1>1
  <1>5. /\ exec'[w] = b
        /\ \A v \in Celery \ {w} :
             /\ exec'[v] = exec[v] /\ Saved(v)' = Saved(v)
             /\ Exchanged(v)' = Exchanged(v)
    BY <1>2, OtherBatches
  <1>6. /\ Saved(w)' = {} /\ Exchanged(w)' = {}
        /\ Saved(w) = {} /\ Exchanged(w) = {}
    <2>1. Saved(w)' = {} /\ Saved(w) = {}
      BY <1>4, <1>5 DEF Saved, Receive
    <2>2. QED
      BY <2>1 DEF Exchanged
  <1>7. QED
    BY <1>3, <1>5, <1>6 DEF BatchesKeep, Saved

LEMMA BatchFlushKeeps ==
  ASSUME TokensTypeOK, NEW w \in Celery, Flush(w)
  PROVE  BatchesKeep
  <1>1. exec[w] \in Batch /\ exec[w] # Free
    BY BatchFields DEF Flush
  <1>2. PICK b \in Batch :
          b = [exec[w] EXCEPT !.dirty = {}, !.flushed = @ \cup exec[w].dirty]
    BY <1>1 DEF Batch
  <1>3. exec' = [exec EXCEPT ![w] = b]
    BY <1>1, <1>2 DEF Flush, TokensTypeOK
  <1>4. /\ b.todo = exec[w].todo /\ b.copy = exec[w].copy
        /\ b.dirty \cup b.flushed = exec[w].dirty \cup exec[w].flushed
    BY <1>1, <1>2 DEF Batch
  <1>5. /\ exec'[w] = b
        /\ \A v \in Celery \ {w} :
             /\ exec'[v] = exec[v] /\ Saved(v)' = Saved(v)
             /\ Exchanged(v)' = Exchanged(v)
    BY <1>3, OtherBatches
  <1>6. Saved(w)' = Saved(w) /\ exec'[w] # Free
    BY <1>1, <1>4, <1>5, BatchIsNotIdle DEF Saved
  <1>7. Exchanged(w)' = Exchanged(w)
    BY <1>4, <1>5, <1>6 DEF Exchanged
  <1>8. QED
    BY <1>1, <1>4, <1>5, <1>6, <1>7 DEF BatchesKeep, Saved

LEMMA UsersKeepOne ==
  ASSUME TokensTypeOK, NEW i \in Identity, NEW r,
         user' = [user EXCEPT ![i] = r],
         ~NewForUser(i), r.pc # "commit" \/ r.copy = NoToken,
         r # Free => r.copy \in {stored[i], NoToken}
  PROVE  UsersKeep
  BY DEF TokensTypeOK, UsersKeep, NewForUser

LEMMA SameValid ==
  ASSUME valid' = valid
  PROVE  KeepsValid
  BY DEF KeepsValid

LEMMA BatchStoresNothing ==
  ASSUME TokensTypeOK, Sound, NEW w \in Celery,
         \/ \E r \in Retries : Receive(w, r)
         \/ Flush(w)
         \/ \E i \in Identity : \/ Skip(w, i) \/ FailWithoutToken(w, i)
                              \/ ExchangeRefused(w, i)
         \/ \E i \in Identity : ExchangeFails(w, i)
         \/ Deadlock(w)
         \/ Crash(w)
  PROVE  StoresNothing
  <1>1. ASSUME NEW r \in Retries, Receive(w, r)
        PROVE  StoresNothing
    BY <1>1, ReceiveKeeps, SameUsersKeep, SameValid
    DEF Receive, StoresNothing, fixed
  <1>2. CASE Flush(w)
    BY <1>2, BatchFlushKeeps, SameUsersKeep, SameValid
    DEF Flush, StoresNothing, fixed
  <1>3. ASSUME NEW i \in Identity, Skip(w, i)
        PROVE  StoresNothing
    BY <1>3, PassOverKeeps, SameUsersKeep, ForgetKeepsValid
    DEF Skip, StoresNothing, fixed
  <1>4. ASSUME NEW i \in Identity, ExchangeRefused(w, i)
        PROVE  StoresNothing
    BY <1>4, FailIdentityKeeps, SameUsersKeep, ForgetKeepsValid
    DEF ExchangeRefused, StoresNothing, fixed
  <1>5. ASSUME NEW i \in Identity, ExchangeFails(w, i)
        PROVE  StoresNothing
    <2>1. CASE FailIdentity(w, i)
      BY <1>5, <2>1, FailIdentityKeeps, SameUsersKeep, ForgetKeepsValid
      DEF ExchangeFails, StoresNothing, fixed
    <2>2. CASE PassOver(w, i) /\ UNCHANGED <<queue, cut>>
      BY <1>5, <2>2, PassOverKeeps, SameUsersKeep, ForgetKeepsValid
      DEF ExchangeFails, StoresNothing, fixed
    <2>3. QED
      BY <1>5, <2>1, <2>2 DEF ExchangeFails
  <1>6. CASE Deadlock(w)
    BY <1>6, EndKeeps, SameUsersKeep, ForgetKeepsValid
    DEF Deadlock, StoresNothing, fixed
  <1>7. CASE Crash(w)
    BY <1>7, EndKeeps, SameUsersKeep, ForgetKeepsValid
    DEF Crash, StoresNothing, fixed
  <1>8. ASSUME NEW i \in Identity, FailWithoutToken(w, i)
        PROVE  StoresNothing
    BY <1>8, PassOverKeeps, SameUsersKeep, ForgetKeepsValid
    DEF FailWithoutToken, StoresNothing, fixed
  <1>9. QED
    BY <1>1, <1>2, <1>3, <1>4, <1>5, <1>6, <1>7, <1>8

LEMMA KeptStoresNothing ==
  ASSUME TokensTypeOK, Sound, NEW w \in Celery, NEW i \in Identity,
         ExchangeKept(w, i)
  PROVE  StoresNothing
  <1>1. /\ IsNext(w, i) /\ ForgetUnused
        /\ UNCHANGED <<fixed, stored, user, cut>>
    BY KeptFrame
  <1>2. BatchesKeep
    BY <1>1, KeptBatch, KeptKeeps
  <1>3. QED
    BY <1>1, <1>2, SameUsersKeep, ForgetKeepsValid DEF StoresNothing, fixed

LEMMA UserStoresNothing ==
  ASSUME TokensTypeOK, NEW i \in Identity,
         \/ StartRefresh(i) \/ StartTask(i) \/ RetryTask(i)
         \/ KeepForUser(i) \/ RefreshFails(i)
         \/ CommitRefresh(i) /\ user[i].copy = NoToken
         \/ LoginWithoutToken(i) \/ Logout(i) \/ Expire(i)
  PROVE  StoresNothing
  <1>1. Free.pc # "commit"
    BY DEF Free
  <1>2. user[i].pc # "commit" => ~NewForUser(i)
    BY DEF NewForUser
  <1>3. CASE StartRefresh(i)
    <2>1. UsersKeep
      <3>1. PICK r : r = Request("exchange", stored[i], 0)
        OBVIOUS
      <3>2. r.pc = "exchange" /\ r.copy = stored[i]
        BY <3>1 DEF Request
      <3>3. user' = [user EXCEPT ![i] = r] /\ user[i] = Free
        BY <1>3, <3>1 DEF StartRefresh
      <3>4. QED
        BY <1>1, <1>2, <3>2, <3>3, UsersKeepOne
    <2>2. QED
      BY <1>3, <2>1, SameBatchesKeep, SameValid
      DEF StartRefresh, StoresNothing, fixed
  <1>4. CASE StartTask(i)
    <2>1. UsersKeep
      <3>1. PICK r : r = Request("exchange", stored[i], MaxRetries)
        OBVIOUS
      <3>2. r.pc = "exchange" /\ r.copy = stored[i]
        BY <3>1 DEF Request
      <3>3. user' = [user EXCEPT ![i] = r] /\ user[i] = Free
        BY <1>4, <3>1 DEF StartTask
      <3>4. QED
        BY <1>1, <1>2, <3>2, <3>3, UsersKeepOne
    <2>2. QED
      BY <1>4, <2>1, SameBatchesKeep, SameValid
      DEF StartTask, StoresNothing, fixed
  <1>5. CASE RetryTask(i)
    <2>1. UsersKeep
      <3>1. user[i].pc # "commit"
        BY <1>5 DEF RetryTask
      <3>2. CASE user' = [user EXCEPT ![i] = Free]
        BY <1>1, <1>2, <3>1, <3>2, UsersKeepOne
      <3>3. CASE user' = [user EXCEPT ![i] =
                            Request("exchange", stored[i], user[i].left)]
        <4>1. PICK r : r = Request("exchange", stored[i], user[i].left)
          OBVIOUS
        <4>2. r.pc = "exchange" /\ r.copy = stored[i]
          BY <4>1 DEF Request
        <4>3. user' = [user EXCEPT ![i] = r]
          BY <3>3, <4>1
        <4>4. QED
          BY <1>2, <3>1, <4>2, <4>3, UsersKeepOne
      <3>4. QED
        BY <1>5, <3>2, <3>3 DEF RetryTask
    <2>2. QED
      BY <1>5, <2>1, SameBatchesKeep, SameValid
      DEF RetryTask, StoresNothing, fixed
  <1>6. CASE RefreshFails(i)
    <2>1. UsersKeep
      <3>1. user[i].pc # "commit"
        BY <1>6 DEF RefreshFails
      <3>2. CASE user' = [user EXCEPT ![i] = Free]
        BY <1>1, <1>2, <3>1, <3>2, UsersKeepOne
      <3>3. CASE user' = [user EXCEPT ![i] =
                            Request("retry", NoToken, user[i].left - 1)]
        <4>1. PICK r : r = Request("retry", NoToken, user[i].left - 1)
          OBVIOUS
        <4>2. r.pc = "retry" /\ r.copy = NoToken
          BY <4>1 DEF Request
        <4>3. user' = [user EXCEPT ![i] = r]
          BY <3>3, <4>1
        <4>4. QED
          BY <1>2, <3>1, <4>2, <4>3, UsersKeepOne
      <3>4. QED
        BY <1>6, <3>2, <3>3 DEF RefreshFails
    <2>2. QED
      BY <1>6, <2>1, SameBatchesKeep, ForgetKeepsValid
      DEF RefreshFails, StoresNothing, fixed
  <1>7. CASE Logout(i)
    <2>1. \A j \in Identity : stored'[j] \in {stored[j], NoToken}
      BY <1>7 DEF Logout, TokensTypeOK
    <2>2. QED
      BY <1>7, <2>1, SameBatchesKeep, SameUsersKeep, ForgetKeepsValid
      DEF Logout, StoresNothing, fixed
  <1>8. CASE Expire(i)
    BY <1>8, SameBatchesKeep, SameUsersKeep, SameValid
    DEF Expire, StoresNothing, fixed
  <1>9. CASE KeepForUser(i)
    <2>1. /\ user'[i].pc = "commit" /\ user'[i].copy = NoToken
          /\ user' = [user EXCEPT ![i] = user'[i]]
      <3>1. user[i] \in UserRequest
        BY <1>9, UserFields DEF KeepForUser, Free
      <3>2. DOMAIN user[i] = {"pc", "copy", "left"}
        BY <3>1 DEF UserRequest
      <3>3. QED
        BY <1>9, <3>2 DEF KeepForUser, TokensTypeOK
    <2>2. UsersKeep
      BY <1>2, <1>9, <2>1 DEF KeepForUser, UsersKeep, NewForUser, TokensTypeOK
    <2>3. QED
      BY <1>9, <2>2, SameBatchesKeep, ForgetKeepsValid
      DEF KeepForUser, StoresNothing, fixed
  <1>10. CASE CommitRefresh(i) /\ user[i].copy = NoToken
    <2>1. UsersKeep
      BY <1>1, <1>10, UsersKeepOne DEF CommitRefresh, NewForUser
    <2>2. stored' = stored
      BY <1>10 DEF CommitRefresh, TokensTypeOK
    <2>3. QED
      BY <1>10, <2>1, <2>2, SameBatchesKeep, ForgetKeepsValid
      DEF CommitRefresh, StoresNothing, fixed
  <1>11. CASE LoginWithoutToken(i)
    <2>1. \A j \in Identity : stored'[j] \in {stored[j], NoneToken}
      BY <1>11 DEF LoginWithoutToken, TokensTypeOK
    <2>2. QED
      BY <1>11, <2>1, SameBatchesKeep, SameUsersKeep, ForgetKeepsValid
      DEF LoginWithoutToken, StoresNothing, fixed
  <1>12. QED
    BY <1>3, <1>4, <1>5, <1>6, <1>7, <1>8, <1>9, <1>10, <1>11

LEMMA OtherStoresNothing ==
  ASSUME TokensTypeOK,
         \/ Schedule \/ CleanUp \/ CommitCleanUp \/ CleanUpFails
         \/ UNCHANGED tokenVars
  PROVE  StoresNothing
  <1>1. CASE Schedule
    BY <1>1, SameBatchesKeep, SameUsersKeep, SameValid
    DEF Schedule, StoresNothing, fixed
  <1>2. CASE CleanUp
    BY <1>2, SameBatchesKeep, SameUsersKeep, SameValid
    DEF CleanUp, StoresNothing, fixed
  <1>3. CASE CommitCleanUp
    <2>1. \A j \in Identity : stored'[j] \in {stored[j], NoToken}
      BY <1>3 DEF CommitCleanUp
    <2>2. QED
      BY <1>3, <2>1, SameBatchesKeep, SameUsersKeep, ForgetKeepsValid
      DEF CommitCleanUp, StoresNothing, fixed
  <1>4. CASE CleanUpFails
    BY <1>4, SameBatchesKeep, SameUsersKeep, SameValid
    DEF CleanUpFails, StoresNothing, fixed
  <1>5. CASE UNCHANGED tokenVars
    BY <1>5, SameBatchesKeep, SameUsersKeep, SameValid
    DEF tokenVars, StoresNothing, fixed
  <1>6. QED
    BY <1>1, <1>2, <1>3, <1>4, <1>5

(* Azure AD revokes everything: nothing is promised of i any more. *)
LEMMA RevokeSound ==
  ASSUME TokensTypeOK, Sound, NEW i \in Identity, Revoke(i)
  PROVE  Sound'
  <1>1. /\ exec' = exec /\ user' = user /\ stored' = stored
        /\ rotates' = rotates
        /\ cut' = cut \cup {i}
        /\ \A j \in Identity \ {i} : valid'[j] = valid[j]
    BY DEF Revoke, fixed, TokensTypeOK
  <1>2. \A w \in Celery :
          /\ Saved(w)' = Saved(w)
          /\ Exchanged(w)' = Exchanged(w) /\ Exchanged(w) \subseteq Identity
    BY <1>1, BatchFields DEF Exchanged, Saved
  <1>3. TodoInv'
    BY <1>1, <1>2 DEF Sound, TodoInv
  <1>4. BatchSound'
    BY <1>1, <1>2 DEF Sound, BatchSound, OnlyOf
  <1>5. UserSound'
    BY <1>1 DEF Sound, UserSound, NewForUser
  <1>6. StoredSound'
    BY <1>1, <1>2 DEF Sound, StoredSound, InFlight
  <1>7. QED
    BY <1>3, <1>4, <1>5, <1>6 DEF Sound

(* What the new token displaces, of i, is only the one that was used. *)
LEMMA IssueKeeps ==
  ASSUME TokensTypeOK, NEW i \in Identity, NEW used, NEW t \in Token,
         Issue(i, used, t)
  PROVE  /\ t \in valid'[i]
         /\ \A s \in valid[i] : s = used \/ s \in valid'[i]
         /\ ~rotates => valid[i] \subseteq valid'[i]
         /\ \A j \in Identity \ {i} : valid'[j] = valid[j]
  BY DEF TokensTypeOK, Issue

LEMMA ExchangeSound ==
  ASSUME TokensTypeOK, Sound, NEW w \in Celery, NEW i \in Identity,
         Exchange(w, i)
  PROVE  Sound'
  <1>1. /\ exec[w] \in Batch /\ exec[w] # Free
        /\ exec[w].dirty = {} /\ i \in exec[w].todo /\ i \notin Saved(w)
    BY BatchFields DEF Exchange, IsNext, Sound, TodoInv
  <1>2. PICK t \in Token : t = FreshToken(i) /\ t \notin InUse(i)
    BY FreshTokenType DEF Exchange
  <1>3. PICK b \in Batch :
          b = [exec[w] EXCEPT !.todo = @ \ {i}, !.dirty = {i}, !.copy[i] = t]
    BY <1>1 DEF Batch, Column
  <1>4. exec' = [exec EXCEPT ![w] = b]
    <2>1. /\ exec' = [exec EXCEPT ![w].todo = @ \ {i}, ![w].dirty = {i},
                                  ![w].copy[i] = t]
          /\ exec \in [Celery -> Batch \cup {Free}]
      BY <1>2, Zenon DEF Exchange, TokensTypeOK
    <2>2. exec' = [exec EXCEPT ![w] =
            [exec[w] EXCEPT !.todo = @ \ {i}, !.dirty = {i}, !.copy[i] = t]]
      BY <1>1, <2>1
    <2>3. QED
      BY <1>3, <2>2, Zenon
  <1>5. /\ b.todo = exec[w].todo \ {i}
        /\ b.dirty = {i} /\ b.flushed = exec[w].flushed
        /\ \A j \in Identity \ {i} : b.copy[j] = exec[w].copy[j]
        /\ b.copy[i] = t
    BY <1>1, <1>3 DEF Batch
  <1>6. /\ exec'[w] = b
        /\ \A v \in Celery \ {w} :
             /\ exec'[v] = exec[v] /\ Saved(v)' = Saved(v)
             /\ Exchanged(v)' = Exchanged(v)
    BY <1>4, OtherBatches
  <1>7. /\ Saved(w)' = Saved(w) \cup {i} /\ exec'[w] # Free
        /\ Exchanged(w)' = Exchanged(w) \cup {i}
    <2>1. Saved(w)' = Saved(w) \cup {i} /\ exec'[w] # Free
      BY <1>1, <1>5, <1>6, BatchIsNotIdle DEF Saved
    <2>2. Saved(w) \subseteq Identity \ {i} /\ t # NoToken
      BY <1>1, BatchFields, NoTokenAssumption DEF Saved, Token
    <2>3. QED
      BY <1>5, <1>6, <2>1, <2>2 DEF Exchanged
  <1>8. /\ user' = user /\ stored' = stored /\ rotates' = rotates
        /\ cut' = cut
    BY DEF Exchange, fixed
  <1>9. /\ t \in valid'[i]
        /\ \A s \in valid[i] : s = exec[w].copy[i] \/ s \in valid'[i]
        /\ ~rotates => valid[i] \subseteq valid'[i]
        /\ \A j \in Identity \ {i} : valid'[j] = valid[j]
    BY <1>2, IssueKeeps DEF Exchange
  <1>10. /\ stored[i] # t
         /\ user[i] # Free => user[i].copy # t
         /\ \A v \in Celery : exec[v] # Free => exec[v].copy[i] # t
    BY <1>2, InUseOf
  <1>11. \A v \in Celery :
           Exchanged(v) \subseteq Identity /\ Exchanged(v) \subseteq Saved(v)
    BY BatchFields DEF Exchanged, Saved
  <1>12. TodoInv'
    BY <1>1, <1>5, <1>6, <1>7 DEF Sound, TodoInv
  <1>13. OnlyOf(w, i)'
    BY <1>2, <1>5, <1>6, <1>8, <1>10 DEF OnlyOf
  <1>14. ASSUME NEW v \in Celery, NEW j \in Exchanged(v), v # w \/ j # i
         PROVE  OnlyOf(v, j)' /\ (j \in cut' \/ exec'[v].copy[j] \in valid'[j])
    <2>1. /\ OnlyOf(v, j) /\ (j \in cut \/ exec[v].copy[j] \in valid[j])
          /\ exec[v] # Free /\ j \in Identity
      BY <1>11 DEF Sound, BatchSound, Saved
    <2>2. exec'[v].copy[j] = exec[v].copy[j]
      BY <1>5, <1>6, <1>14, <2>1
    <2>3. \A u \in Celery :
            /\ exec'[u] # Free => exec[u] # Free
            /\ exec'[u].copy[j] = exec[u].copy[j] \/ (j = i /\ u = w)
      BY <1>1, <1>5, <1>6, <2>1
    <2>4. j = i => v # w /\ exec[v].copy[j] # t
                   /\ exec[v].copy[j] # exec[w].copy[j]
      BY <1>1, <1>10, <1>14, <2>1 DEF OnlyOf
    <2>5. ASSUME NEW u \in Celery \ {v}, exec'[u] # Free
          PROVE  exec'[u].copy[j] # exec'[v].copy[j]
      <3>1. CASE exec'[u].copy[j] = exec[u].copy[j]
        BY <2>1, <2>2, <2>3, <2>5, <3>1 DEF OnlyOf
      <3>2. CASE j = i /\ u = w
        BY <1>5, <1>6, <2>2, <2>4, <3>2
      <3>3. QED
        BY <2>3, <3>1, <3>2
    <2>6. OnlyOf(v, j)'
      BY <1>8, <2>1, <2>2, <2>5 DEF OnlyOf
    <2>7. j \in cut' \/ exec'[v].copy[j] \in valid'[j]
      BY <1>8, <1>9, <2>1, <2>2, <2>4
    <2>8. QED
      BY <2>6, <2>7
  <1>15. BatchSound'
    BY <1>5, <1>6, <1>7, <1>9, <1>13, <1>14 DEF BatchSound
  <1>16. UserSound'
    <2> SUFFICES ASSUME NEW j \in Identity, NewForUser(j)'
                 PROVE  /\ j \in cut' \/ user'[j].copy \in valid'[j]
                        /\ stored'[j] # user'[j].copy
                        /\ \A v \in Celery : exec'[v] # Free =>
                             exec'[v].copy[j] # user'[j].copy
      BY DEF UserSound
    <2>1. /\ user[j] # Free
          /\ j \in cut \/ user[j].copy \in valid[j]
          /\ stored[j] # user[j].copy
          /\ \A v \in Celery : exec[v] # Free =>
               exec[v].copy[j] # user[j].copy
      BY <1>8 DEF Sound, UserSound, NewForUser, Free
    <2>2. j \in cut' \/ user'[j].copy \in valid'[j]
      BY <1>1, <1>8, <1>9, <2>1
    <2>3. ASSUME NEW v \in Celery, exec'[v] # Free
          PROVE  exec'[v].copy[j] # user'[j].copy
      BY <1>1, <1>5, <1>6, <1>8, <1>10, <2>1, <2>3
    <2>4. QED
      BY <1>8, <2>1, <2>2, <2>3
  <1>17. StoredSound'
    <2> SUFFICES ASSUME NEW j \in Identity, j \notin cut',
                        stored'[j] \in Token, stored'[j] \notin valid'[j]
                 PROVE  rotates' /\ InFlight(j)'
      BY DEF StoredSound, Token
    <2>1. CASE rotates /\ InFlight(j)
      BY <1>6, <1>7, <1>8, <2>1 DEF InFlight
    <2>2. CASE stored[j] \in valid[j]
      <3>1. j = i /\ rotates
        BY <1>8, <1>9, <2>2
      <3>2. QED
        BY <1>7, <1>8, <3>1 DEF InFlight
    <2>3. QED
      BY <1>8, <2>1, <2>2 DEF Sound, StoredSound
  <1>18. QED
    BY <1>12, <1>15, <1>16, <1>17 DEF Sound

LEMMA CommitBatchSound ==
  ASSUME TokensTypeOK, Sound, NEW w \in Celery, CommitBatch(w)
  PROVE  Sound'
  <1>1. /\ exec[w] \in Batch /\ exec[w] # Free
        /\ Exchanged(w) \subseteq Identity
    BY BatchFields DEF CommitBatch, Exchanged, Saved
  <1>2. /\ exec'[w] = Free
        /\ \A v \in Celery \ {w} :
             /\ exec'[v] = exec[v] /\ Saved(v)' = Saved(v)
             /\ Exchanged(v)' = Exchanged(v)
    BY OtherBatches DEF CommitBatch
  <1>3. Saved(w)' = {} /\ Exchanged(w)' = {}
    BY <1>2 DEF Exchanged, Saved
  <1>4. user' = user /\ cut' = cut /\ rotates' = rotates
    BY DEF CommitBatch, fixed
  <1>5. \A j \in Identity :
          /\ j \in Exchanged(w) => stored'[j] = exec[w].copy[j]
          /\ j \notin Exchanged(w) => stored'[j] = stored[j]
    BY <1>1 DEF CommitBatch
  <1>6. KeepsValid
    BY ForgetKeepsValid DEF CommitBatch
  <1>7. TodoInv'
    BY <1>2, <1>3 DEF Sound, TodoInv
  <1>8. ASSUME NEW v \in Celery, NEW j \in Exchanged(v)'
        PROVE  OnlyOf(v, j)' /\ (j \in cut' \/ exec'[v].copy[j] \in valid'[j])
    <2>1. v # w /\ exec'[v] = exec[v] /\ exec[v] # Free
      BY <1>2, <1>3, <1>8 DEF Exchanged, Saved
    <2>2. j \in Exchanged(v) /\ j \in Identity
      BY <1>2, <1>8, <2>1, BatchFields DEF Exchanged, Saved
    <2>3. OnlyOf(v, j) /\ (j \in cut \/ exec[v].copy[j] \in valid[j])
      BY <2>2 DEF Sound, BatchSound
    <2>4. stored'[j] # exec'[v].copy[j]
      BY <1>1, <1>5, <2>1, <2>2, <2>3 DEF OnlyOf
    <2>5. \A u \in Celery \ {v} :
            exec'[u] # Free => exec'[u].copy[j] # exec'[v].copy[j]
      BY <1>2, <2>1, <2>3 DEF OnlyOf
    <2>6. OnlyOf(v, j)'
      BY <1>4, <2>1, <2>3, <2>4, <2>5 DEF OnlyOf
    <2>7. QED
      BY <1>4, <1>6, <2>1, <2>2, <2>3, <2>6 DEF KeepsValid
  <1>9. BatchSound'
    BY <1>8 DEF BatchSound
  <1>10. UserSound'
    <2> SUFFICES ASSUME NEW j \in Identity, NewForUser(j)'
                 PROVE  /\ j \in cut' \/ user'[j].copy \in valid'[j]
                        /\ stored'[j] # user'[j].copy
                        /\ \A v \in Celery : exec'[v] # Free =>
                             exec'[v].copy[j] # user'[j].copy
      BY DEF UserSound
    <2>1. /\ user'[j] = user[j] /\ user[j] # Free
          /\ j \in cut \/ user[j].copy \in valid[j]
          /\ stored[j] # user[j].copy
          /\ \A v \in Celery : exec[v] # Free =>
               exec[v].copy[j] # user[j].copy
      BY <1>4 DEF Sound, UserSound, NewForUser, Free
    <2>2. QED
      BY <1>1, <1>2, <1>4, <1>5, <1>6, <2>1 DEF KeepsValid
  <1>11. StoredSound'
    <2> SUFFICES ASSUME NEW j \in Identity, j \notin cut',
                        stored'[j] \in Token, stored'[j] \notin valid'[j]
                 PROVE  rotates' /\ InFlight(j)'
      BY DEF StoredSound, Token
    <2>1. stored'[j] \notin valid[j]
      BY <1>6 DEF KeepsValid
    <2>2. j \notin Exchanged(w)
      BY <1>4, <1>5, <2>1 DEF Sound, BatchSound
    <2>3. rotates /\ InFlight(j)
      BY <1>4, <1>5, <2>1, <2>2 DEF Sound, StoredSound
    <2>4. QED
      BY <1>2, <1>4, <2>2, <2>3 DEF InFlight
  <1>12. QED
    BY <1>7, <1>9, <1>10, <1>11 DEF Sound

(* No batch takes part in what a user does. *)
LEMMA SameBatches ==
  ASSUME TokensTypeOK, Sound, exec' = exec
  PROVE  /\ TodoInv'
         /\ \A w \in Celery :
              /\ Exchanged(w)' = Exchanged(w)
              /\ Exchanged(w) \subseteq Identity
         /\ \A w \in Celery : \A i \in Exchanged(w) : exec[w] # Free
  BY BatchFields DEF Sound, TodoInv, Exchanged, Saved

LEMMA ExchangeForUserSound ==
  ASSUME TokensTypeOK, Sound, NEW i \in Identity, ExchangeForUser(i)
  PROVE  Sound'
  <1>1. PICK t \in Token : t = FreshToken(i) /\ t \notin InUse(i)
    BY FreshTokenType DEF ExchangeForUser
  <1>2. /\ user[i] # Free /\ user[i].pc = "exchange"
        /\ user[i] \in UserRequest
    BY UserFields DEF ExchangeForUser, Free
  <1>3. PICK r : r = [user[i] EXCEPT !.pc = "commit", !.copy = t]
    OBVIOUS
  <1>4. user' = [user EXCEPT ![i] = r]
    <2>1. user' = [user EXCEPT ![i] =
                     [user[i] EXCEPT !.pc = "commit", !.copy = t]]
      BY <1>1 DEF ExchangeForUser, TokensTypeOK
    <2>2. QED
      BY <1>3, <2>1
  <1>5. r.pc = "commit" /\ r.copy = t
    <2>1. user[i] \in [pc : {"exchange"}, copy : Token \cup {NoneToken},
                       left : Retries]
      BY <1>2 DEF UserRequest
    <2>2. QED
      BY <1>3, <2>1
  <1>6. /\ user'[i] = r
        /\ \A j \in Identity \ {i} : user'[j] = user[j]
    BY <1>4 DEF TokensTypeOK
  <1>7. /\ exec' = exec /\ stored' = stored /\ rotates' = rotates
        /\ cut' = cut
    BY DEF ExchangeForUser, fixed
  <1>8. /\ t \in valid'[i]
        /\ \A s \in valid[i] : s = user[i].copy \/ s \in valid'[i]
        /\ ~rotates => valid[i] \subseteq valid'[i]
        /\ \A j \in Identity \ {i} : valid'[j] = valid[j]
    BY <1>1, IssueKeeps DEF ExchangeForUser
  <1>9. /\ stored[i] # t
        /\ \A v \in Celery : exec[v] # Free => exec[v].copy[i] # t
    BY <1>1, InUseOf
  <1>10. /\ TodoInv'
         /\ \A w \in Celery :
              /\ Exchanged(w)' = Exchanged(w)
              /\ Exchanged(w) \subseteq Identity
         /\ \A w \in Celery : \A j \in Exchanged(w) : exec[w] # Free
    BY <1>7, SameBatches
  <1>11. ASSUME NEW v \in Celery, NEW j \in Exchanged(v)
         PROVE  OnlyOf(v, j)' /\ (j \in cut' \/ exec'[v].copy[j] \in valid'[j])
    <2>1. /\ OnlyOf(v, j) /\ (j \in cut \/ exec[v].copy[j] \in valid[j])
          /\ exec[v] # Free /\ j \in Identity
      BY <1>10 DEF Sound, BatchSound
    <2>2. user'[j] # Free => user'[j].copy # exec[v].copy[j]
      BY <1>5, <1>6, <1>9, <2>1 DEF OnlyOf
    <2>3. j = i => exec[v].copy[j] # user[i].copy
      BY <1>2, <2>1 DEF OnlyOf
    <2>4. OnlyOf(v, j)'
      BY <1>7, <2>1, <2>2 DEF OnlyOf
    <2>5. QED
      BY <1>7, <1>8, <2>1, <2>3, <2>4
  <1>12. BatchSound'
    BY <1>10, <1>11 DEF BatchSound
  <1>13. UserSound'
    <2> SUFFICES ASSUME NEW j \in Identity, NewForUser(j)'
                 PROVE  /\ j \in cut' \/ user'[j].copy \in valid'[j]
                        /\ stored'[j] # user'[j].copy
                        /\ \A v \in Celery : exec'[v] # Free =>
                             exec'[v].copy[j] # user'[j].copy
      BY DEF UserSound
    <2>1. CASE j = i
      BY <1>5, <1>6, <1>7, <1>8, <1>9, <2>1
    <2>2. CASE j # i
      BY <1>6, <1>7, <1>8, <2>2 DEF Sound, UserSound, NewForUser
    <2>3. QED
      BY <2>1, <2>2
  <1>14. StoredSound'
    <2> SUFFICES ASSUME NEW j \in Identity, j \notin cut',
                        stored'[j] \in Token, stored'[j] \notin valid'[j]
                 PROVE  rotates' /\ InFlight(j)'
      BY DEF StoredSound, Token
    <2>1. CASE j = i /\ rotates
      BY <1>5, <1>6, <1>7, <2>1, NoTokenAssumption DEF InFlight, Token
    <2>2. CASE j # i \/ ~rotates
      <3>1. stored[j] \notin valid[j]
        BY <1>7, <1>8, <2>2
      <3>2. rotates /\ InFlight(j) /\ j # i
        BY <1>7, <2>2, <3>1 DEF Sound, StoredSound
      <3>3. QED
        BY <1>6, <1>7, <1>10, <3>2 DEF InFlight
    <2>3. QED
      BY <2>1, <2>2
  <1>15. QED
    BY <1>10, <1>12, <1>13, <1>14 DEF Sound

LEMMA CommitRefreshSound ==
  ASSUME TokensTypeOK, Sound, NEW i \in Identity, CommitRefresh(i),
         user[i].copy # NoToken
  PROVE  Sound'
  <1>1. /\ user[i] # Free /\ NewForUser(i) /\ user[i].copy \in Token
    BY UserFields DEF CommitRefresh, NewForUser, Free
  <1>2. /\ user'[i] = Free
        /\ \A j \in Identity \ {i} :
             user'[j] = user[j] /\ stored'[j] = stored[j]
        /\ stored'[i] = user[i].copy
    BY DEF CommitRefresh, TokensTypeOK
  <1>3. exec' = exec /\ rotates' = rotates /\ cut' = cut
    BY DEF CommitRefresh, fixed
  <1>4. KeepsValid
    BY ForgetKeepsValid DEF CommitRefresh
  <1>5. /\ i \in cut \/ user[i].copy \in valid[i]
        /\ \A v \in Celery : exec[v] # Free => exec[v].copy[i] # user[i].copy
    BY <1>1 DEF Sound, UserSound
  <1>6. /\ TodoInv'
        /\ \A w \in Celery :
             /\ Exchanged(w)' = Exchanged(w)
             /\ Exchanged(w) \subseteq Identity
        /\ \A w \in Celery : \A j \in Exchanged(w) : exec[w] # Free
    BY <1>3, SameBatches
  <1>7. ASSUME NEW v \in Celery, NEW j \in Exchanged(v)
        PROVE  OnlyOf(v, j)' /\ (j \in cut' \/ exec'[v].copy[j] \in valid'[j])
    <2>1. /\ OnlyOf(v, j) /\ (j \in cut \/ exec[v].copy[j] \in valid[j])
          /\ exec[v] # Free /\ j \in Identity
      BY <1>6 DEF Sound, BatchSound
    <2>2. /\ user'[j] # Free => user'[j].copy # exec[v].copy[j]
          /\ stored'[j] # exec[v].copy[j]
      BY <1>2, <1>5, <2>1 DEF OnlyOf
    <2>3. OnlyOf(v, j)'
      BY <1>3, <2>1, <2>2 DEF OnlyOf
    <2>4. QED
      BY <1>3, <1>4, <2>1, <2>3 DEF KeepsValid
  <1>8. BatchSound'
    BY <1>6, <1>7 DEF BatchSound
  <1>9. UserSound'
    <2> SUFFICES ASSUME NEW j \in Identity, NewForUser(j)'
                 PROVE  /\ j \in cut' \/ user'[j].copy \in valid'[j]
                        /\ stored'[j] # user'[j].copy
                        /\ \A v \in Celery : exec'[v] # Free =>
                             exec'[v].copy[j] # user'[j].copy
      BY DEF UserSound
    <2>1. /\ j # i /\ user'[j] = user[j] /\ stored'[j] = stored[j]
          /\ user'[j] # Free
      BY <1>2 DEF NewForUser, Free
    <2>2. QED
      BY <1>3, <1>4, <2>1 DEF Sound, UserSound, NewForUser, KeepsValid
  <1>10. StoredSound'
    <2> SUFFICES ASSUME NEW j \in Identity, j \notin cut',
                        stored'[j] \in Token, stored'[j] \notin valid'[j]
                 PROVE  rotates' /\ InFlight(j)'
      BY DEF StoredSound, Token
    <2>1. stored'[j] \notin valid[j]
      BY <1>4 DEF KeepsValid
    <2>2. j # i /\ stored[j] \notin valid[j] /\ stored[j] \in Token
      BY <1>2, <1>3, <1>5, <2>1
    <2>3. rotates /\ InFlight(j)
      BY <1>3, <2>2 DEF Sound, StoredSound
    <2>4. QED
      BY <1>2, <1>3, <1>6, <2>2, <2>3 DEF InFlight
  <1>11. QED
    BY <1>6, <1>8, <1>9, <1>10 DEF Sound

(* A login may meet exchanges in flight; it takes i out of `cut` only when *)
(* there are none.                                                         *)
LEMMA LoginSound ==
  ASSUME TokensTypeOK, Sound, NEW i \in Identity, Login(i)
  PROVE  Sound'
  <1>1. PICK t \in Token : t = FreshToken(i) /\ t \notin InUse(i)
    BY FreshTokenType DEF Login
  <1>2. /\ stored'[i] = t
        /\ \A j \in Identity \ {i} : stored'[j] = stored[j]
        /\ valid'[i] = valid[i] \cup {t}
        /\ \A j \in Identity \ {i} : valid'[j] = valid[j]
    BY <1>1 DEF Login, TokensTypeOK
  <1>3. exec' = exec /\ user' = user /\ rotates' = rotates
    BY DEF Login, fixed
  <1>4. /\ cut' \subseteq cut
        /\ \A j \in cut : j \in cut' \/ (j = i /\ Unshared(i))
    BY DEF Login
  <1>5. /\ user[i] # Free => user[i].copy # t
        /\ \A v \in Celery : exec[v] # Free => exec[v].copy[i] # t
    BY <1>1, InUseOf
  <1>6. /\ TodoInv'
        /\ \A w \in Celery :
             /\ Exchanged(w)' = Exchanged(w)
             /\ Exchanged(w) \subseteq Identity
        /\ \A w \in Celery : \A j \in Exchanged(w) : exec[w] # Free
    BY <1>3, SameBatches
  <1>7. ASSUME NEW v \in Celery, NEW j \in Exchanged(v)
        PROVE  OnlyOf(v, j)' /\ (j \in cut' \/ exec'[v].copy[j] \in valid'[j])
    <2>1. /\ OnlyOf(v, j) /\ (j \in cut \/ exec[v].copy[j] \in valid[j])
          /\ exec[v] # Free /\ j \in Identity
      BY <1>6 DEF Sound, BatchSound
    <2>2. OnlyOf(v, j)'
      BY <1>2, <1>3, <1>5, <2>1 DEF OnlyOf
    <2>3. j \in cut' \/ exec'[v].copy[j] \in valid'[j]
      BY <1>2, <1>3, <1>4, <2>1 DEF Unshared
    <2>4. QED
      BY <2>2, <2>3
  <1>8. BatchSound'
    BY <1>6, <1>7 DEF BatchSound
  <1>9. UserSound'
    <2> SUFFICES ASSUME NEW j \in Identity, NewForUser(j)'
                 PROVE  /\ j \in cut' \/ user'[j].copy \in valid'[j]
                        /\ stored'[j] # user'[j].copy
                        /\ \A v \in Celery : exec'[v] # Free =>
                             exec'[v].copy[j] # user'[j].copy
      BY DEF UserSound
    <2>1. /\ user'[j] = user[j] /\ user[j] # Free
          /\ j \in cut \/ user[j].copy \in valid[j]
          /\ stored[j] # user[j].copy
          /\ \A v \in Celery : exec[v] # Free =>
               exec[v].copy[j] # user[j].copy
      BY <1>3 DEF Sound, UserSound, NewForUser, Free
    <2>2. QED
      BY <1>2, <1>3, <1>4, <1>5, <2>1 DEF Unshared
  <1>10. StoredSound'
    <2> SUFFICES ASSUME NEW j \in Identity, j \notin cut',
                        stored'[j] \in Token, stored'[j] \notin valid'[j]
                 PROVE  rotates' /\ InFlight(j)'
      BY DEF StoredSound, Token
    <2>1. j # i /\ j \notin cut /\ stored[j] \notin valid[j]
      BY <1>2, <1>4
    <2>2. rotates /\ InFlight(j)
      BY <1>2, <2>1 DEF Sound, StoredSound
    <2>3. QED
      BY <1>3, <1>6, <2>2 DEF InFlight
  <1>11. QED
    BY <1>6, <1>8, <1>9, <1>10 DEF Sound

LEMMA NextSound ==
  TokenInv /\ [TokensNext]_tokenVars => TokenInv'
  <1>1. ASSUME TokenInv, [TokensNext]_tokenVars
        PROVE  Sound'
    <2>1. TokensTypeOK /\ Sound
      BY <1>1 DEF TokenInv
    <2>2. ASSUME NEW w \in Celery, NEW r \in Retries, Receive(w, r)
          PROVE  Sound'
      BY <2>1, <2>2, BatchStoresNothing, StoresNothingSound
    <2>3. ASSUME NEW w \in Celery, BatchStep(w)
          PROVE  Sound'
      <3>1. CASE Flush(w) \/ Deadlock(w)
        BY <2>1, <3>1, BatchStoresNothing, StoresNothingSound
      <3>2. ASSUME NEW i \in Identity,
                   \/ Skip(w, i) \/ FailWithoutToken(w, i)
                   \/ ExchangeRefused(w, i)
            PROVE  Sound'
        BY <2>1, <3>2, BatchStoresNothing, StoresNothingSound
      <3>3. ASSUME NEW i \in Identity, Exchange(w, i)
            PROVE  Sound'
        BY <2>1, <3>3, ExchangeSound
      <3>4. CASE CommitBatch(w)
        BY <2>1, <3>4, CommitBatchSound
      <3>5. QED
        BY <2>3, <3>1, <3>2, <3>3, <3>4 DEF BatchStep
    <2>4. ASSUME NEW w \in Celery, NEW i \in Identity,
                 ExchangeKept(w, i) \/ ExchangeFails(w, i)
          PROVE  Sound'
      BY <2>1, <2>4, BatchStoresNothing, KeptStoresNothing,
         StoresNothingSound
    <2>5. ASSUME NEW w \in Celery, Crash(w)
          PROVE  Sound'
      BY <2>1, <2>5, BatchStoresNothing, StoresNothingSound
    <2>6. ASSUME NEW i \in Identity, UserStep(i)
          PROVE  Sound'
      <3>1. CASE \/ StartRefresh(i) \/ StartTask(i) \/ RetryTask(i)
                 \/ KeepForUser(i) \/ RefreshFails(i)
                 \/ CommitRefresh(i) /\ user[i].copy = NoToken
                 \/ LoginWithoutToken(i) \/ Logout(i)
        BY <2>1, <3>1, UserStoresNothing, StoresNothingSound
      <3>2. CASE ExchangeForUser(i)
        BY <2>1, <3>2, ExchangeForUserSound
      <3>3. CASE CommitRefresh(i) /\ user[i].copy # NoToken
        BY <2>1, <3>3, CommitRefreshSound
      <3>4. CASE Login(i)
        BY <2>1, <3>4, LoginSound
      <3>5. QED
        BY <2>6, <3>1, <3>2, <3>3, <3>4 DEF UserStep
    <2>7. ASSUME NEW i \in Identity, Expire(i)
          PROVE  Sound'
      BY <2>1, <2>7, UserStoresNothing, StoresNothingSound
    <2>8. ASSUME NEW i \in Identity, Revoke(i)
          PROVE  Sound'
      BY <2>1, <2>8, RevokeSound
    <2>9. CASE \/ Schedule \/ CleanUp \/ CommitCleanUp \/ CleanUpFails
               \/ UNCHANGED tokenVars
      BY <2>1, <2>9, OtherStoresNothing, StoresNothingSound
    <2>10. QED
      BY <1>1, <2>2, <2>3, <2>4, <2>5, <2>6, <2>7, <2>8, <2>9 DEF TokensNext
  <1>2. QED
    BY <1>1, NextType DEF TokenInv

(* The token of an identity and those that others hold of it never become  *)
(* unusable unnoticed: see TokenInv.                                       *)
THEOREM SoundCorrect == TokensSpec => []TokenInv
  <1>1. TokensInit => TokenInv
    BY InitType, InitSound DEF TokenInv
  <1>2. QED
    BY <1>1, NextSound, PTL DEF TokensSpec

(* Whatever refreshes, logins, logouts, cleanups, crashes and deadlocks    *)
(* meet, the token in a row (user_azure_identities.encrypted_refresh_token)*)
(* is one that Azure AD accepts, or is being exchanged, or was lost with a *)
(* batch that was rolled back, or revoked.                                 *)
THEOREM StoredCorrect == TokensSpec => []StoredIsValid
  <1>1. TokenInv => StoredIsValid
    BY DEF TokenInv, Sound, StoredSound, StoredIsValid
  <1>2. QED
    BY <1>1, SoundCorrect, PTL

-----------------------------------------------------------------------------
(***************************************************************************)
(* The attempts of a scheduled batch                                       *)
(*                                                                         *)
(* A batch with r retries behind it stands for 2^(MaxRetries - r) last     *)
(* attempts.  All batches together stand for 2^MaxRetries at most, which   *)
(* the scheduled one stands for: one that fails is replaced by two that    *)
(* stand for half as many each.  The sums are cardinalities.               *)
(***************************************************************************)

(* As many elements as the numbers n[s] have units together. *)
Units(S, n) == UNION {{s} \X (1..n[s]) : s \in S}

LEMMA UnitsOfOne ==
  ASSUME NEW s, NEW k \in Nat
  PROVE  IsFiniteSet({s} \X (1..k)) /\ Cardinality({s} \X (1..k)) = k
  <1>1. IsFiniteSet({s}) /\ Cardinality({s}) = 1
    BY FS_Singleton
  <1>2. IsFiniteSet(1..k) /\ Cardinality(1..k) = k
    BY FS_Interval
  <1>3. /\ IsFiniteSet({s} \X (1..k))
        /\ Cardinality({s} \X (1..k))
             = Cardinality({s}) * Cardinality(1..k)
    BY <1>1, <1>2, FS_Product, Zenon
  <1>4. QED
    BY <1>1, <1>2, <1>3

LEMMA UnitsChange ==
  ASSUME NEW S, NEW n \in [S -> Nat], NEW p \in [S -> Nat],
         NEW s \in S, \A t \in S \ {s} : p[t] = n[t],
         IsFiniteSet(Units(S, n))
  PROVE  /\ IsFiniteSet(Units(S, p))
         /\ Cardinality(Units(S, n)) \in Nat
         /\ Cardinality(Units(S, p)) \in Nat
         /\ Cardinality(Units(S, p)) + n[s] = Cardinality(Units(S, n)) + p[s]
  <1> DEFINE Rest == UNION {{t} \X (1..n[t]) : t \in S \ {s}}
  <1>1. /\ Units(S, n) = Rest \cup ({s} \X (1..n[s]))
        /\ Units(S, p) = Rest \cup ({s} \X (1..p[s]))
    BY DEF Units
  <1>2. /\ Rest \cap ({s} \X (1..n[s])) = {}
        /\ Rest \cap ({s} \X (1..p[s])) = {}
    OBVIOUS
  <1> HIDE DEF Rest
  <1>3. IsFiniteSet(Rest)
    <2>1. Rest \in SUBSET Units(S, n)
      BY <1>1
    <2>2. QED
      BY <2>1, FS_Subset
  <1>4. n[s] \in Nat /\ p[s] \in Nat
    OBVIOUS
  <1>5. /\ IsFiniteSet({s} \X (1..n[s]))
        /\ Cardinality({s} \X (1..n[s])) = n[s]
        /\ IsFiniteSet({s} \X (1..p[s]))
        /\ Cardinality({s} \X (1..p[s])) = p[s]
    BY <1>4, UnitsOfOne
  <1>6. /\ Cardinality(Units(S, n)) = Cardinality(Rest) + n[s] - 0
        /\ IsFiniteSet(Units(S, p))
        /\ Cardinality(Units(S, p)) = Cardinality(Rest) + p[s] - 0
    BY <1>1, <1>2, <1>3, <1>5, FS_Union, FS_EmptySet, SMTT(30)
  <1>7. Cardinality(Rest) \in Nat
    BY <1>3, FS_CardinalityType
  <1>8. QED
    BY <1>4, <1>6, <1>7

LEMMA UnitsOfNone ==
  ASSUME NEW S, NEW n \in [S -> Nat], \A s \in S : n[s] = 0
  PROVE  IsFiniteSet(Units(S, n)) /\ Cardinality(Units(S, n)) = 0
  <1>1. Units(S, n) = {}
    BY DEF Units
  <1>2. QED
    BY <1>1, FS_EmptySet

(* Powers of two, by counting sets. *)
LEMMA PowerIsCount ==
  ASSUME NEW a \in Nat
  PROVE  /\ IsFiniteSet(SUBSET (1..a))
         /\ Cardinality(SUBSET (1..a)) = 2 ^ a
         /\ 2 ^ a \in Nat \ {0}
  <1>1. IsFiniteSet(1..a) /\ Cardinality(1..a) = a
    BY FS_Interval
  <1>2. /\ IsFiniteSet(SUBSET (1..a))
        /\ Cardinality(SUBSET (1..a)) = 2 ^ Cardinality(1..a)
    BY <1>1, FS_SUBSET, Zenon
  <1>3. Cardinality(SUBSET (1..a)) = 2 ^ a
    BY <1>1, <1>2
  <1>4. Cardinality(SUBSET (1..a)) \in Nat
    BY <1>2, FS_CardinalityType
  <1>5. SUBSET (1..a) # {}
    OBVIOUS
  <1>6. Cardinality(SUBSET (1..a)) # 0
    BY <1>2, <1>5, FS_EmptySet, Zenon
  <1>7. QED
    BY <1>2, <1>3, <1>4, <1>6

LEMMA PowerOfSum ==
  ASSUME NEW a \in Nat, NEW b \in Nat
  PROVE  2 ^ (a + b) = 2 ^ a * 2 ^ b
  <1> DEFINE A == 1..a
             B == (a + 1)..(a + b)
             C == 1..(a + b)
             f == [p \in (SUBSET A) \X (SUBSET B) |-> p[1] \cup p[2]]
  <1>1. A \cup B = C /\ A \cap B = {}
    OBVIOUS
  <1>2. IsFiniteSet(B) /\ Cardinality(B) = b
    <2>1. a + 1 \in Int /\ a + b \in Int
      OBVIOUS
    <2>2. /\ IsFiniteSet(B)
          /\ Cardinality(B)
               = IF a + 1 > a + b THEN 0 ELSE (a + b) - (a + 1) + 1
      BY <2>1, FS_Interval, Zenon
    <2>3. QED
      BY <2>2
  <1>3. IsFiniteSet(SUBSET B) /\ Cardinality(SUBSET B) = 2 ^ b
    BY <1>2, FS_SUBSET, Zenon
  <1>4. /\ IsFiniteSet((SUBSET A) \X (SUBSET B))
        /\ Cardinality((SUBSET A) \X (SUBSET B))
             = Cardinality(SUBSET A) * Cardinality(SUBSET B)
    BY <1>3, PowerIsCount, FS_Product, Zenon
  <1>5. ExistsBijection((SUBSET A) \X (SUBSET B), SUBSET C)
    <2> HIDE DEF A, B, C
    <2>1. f \in [(SUBSET A) \X (SUBSET B) -> SUBSET C]
      BY <1>1
    <2>2. ASSUME NEW p \in (SUBSET A) \X (SUBSET B),
                 NEW q \in (SUBSET A) \X (SUBSET B), f[p] = f[q]
          PROVE  p = q
      <3>1. p[1] \cup p[2] = q[1] \cup q[2]
        BY <2>2
      <3>2. p[1] = q[1] /\ p[2] = q[2]
        BY <1>1, <3>1
      <3>3. QED
        BY <3>2
    <2>3. ASSUME NEW T \in SUBSET C
          PROVE  \E p \in (SUBSET A) \X (SUBSET B) : f[p] = T
      <3>1. <<T \cap A, T \cap B>> \in (SUBSET A) \X (SUBSET B)
        OBVIOUS
      <3>2. f[<<T \cap A, T \cap B>>] = T
        BY <1>1, <3>1
      <3>3. QED
        BY <3>1, <3>2
    <2> HIDE DEF f
    <2>4. f \in Bijection((SUBSET A) \X (SUBSET B), SUBSET C)
      BY <2>1, <2>2, <2>3, Fun_IsBij, Zenon
    <2>5. QED
      BY <2>4 DEF ExistsBijection
  <1>6. Cardinality(SUBSET C) = Cardinality((SUBSET A) \X (SUBSET B))
    BY <1>4, <1>5, FS_Bijection, Zenon
  <1>7. Cardinality(SUBSET C) = 2 ^ (a + b)
    BY PowerIsCount
  <1>8. Cardinality(SUBSET A) = 2 ^ a
    BY PowerIsCount
  <1>9. QED
    BY <1>3, <1>4, <1>6, <1>7, <1>8

(* The last attempts that a batch with r retries behind it stands for. *)
Weight(r) == 2 ^ (MaxRetries - r)

Waiting == [r \in Retries |-> queue[r] * Weight(r)]

WeightOf(b) == IF b = Free THEN 0 ELSE Weight(b.retries)

Running == [w \in Celery |-> WeightOf(exec[w])]

Queued == Cardinality(Units(Retries, Waiting))

Started == Cardinality(Units(Celery, Running))

AttemptsInv ==
  /\ TokensTypeOK
  /\ IsFiniteSet(Units(Retries, Waiting))
  /\ IsFiniteSet(Units(Celery, Running))
  /\ Queued + Started <= Weight(0)

LEMMA WeightType ==
  ASSUME NEW r \in Retries
  PROVE  /\ Weight(r) \in Nat \ {0}
         /\ Weight(0) = 2 ^ r * Weight(r)
         /\ 2 ^ r \in Nat
         /\ r < MaxRetries => Weight(r) = 2 * Weight(r + 1)
  <1>1. PICK k \in Nat : k = MaxRetries - r
    BY BoundsAssumption DEF Retries
  <1>2. r \in Nat /\ r + k = MaxRetries /\ MaxRetries - 0 = r + k
    BY <1>1, BoundsAssumption DEF Retries
  <1>3. Weight(r) = 2 ^ k /\ Weight(0) = 2 ^ (r + k)
    BY <1>1, <1>2, Zenon DEF Weight
  <1>4. 2 ^ (r + k) = 2 ^ r * 2 ^ k
    BY <1>1, <1>2, PowerOfSum
  <1>5. 2 ^ k \in Nat \ {0} /\ 2 ^ r \in Nat
    BY <1>1, <1>2, PowerIsCount
  <1>6. ASSUME r < MaxRetries
        PROVE  Weight(r) = 2 * Weight(r + 1)
    <2>1. PICK l \in Nat : k = 1 + l /\ MaxRetries - (r + 1) = l
      <3>1. k - 1 \in Nat /\ MaxRetries - (r + 1) = k - 1 /\ k = 1 + (k - 1)
        BY <1>1, <1>2, <1>6, BoundsAssumption
      <3>2. QED
        BY <3>1, Zenon
    <2>2. Weight(r + 1) = 2 ^ l
      BY <2>1, Zenon DEF Weight
    <2>3. 2 ^ (1 + l) = 2 ^ 1 * 2 ^ l
      BY <2>1, PowerOfSum
    <2>4. 2 ^ 1 = 2
      BY SMT
    <2>5. QED
      BY <1>3, <2>1, <2>2, <2>3, <2>4, Zenon
  <1>7. QED
    BY <1>3, <1>4, <1>5, <1>6, Zenon

LEMMA WeightOfType ==
  ASSUME NEW b \in Batch \cup {Free}
  PROVE  WeightOf(b) \in Nat
  BY WeightType DEF WeightOf, Batch

LEMMA SumTypes ==
  TokensTypeOK => Waiting \in [Retries -> Nat] /\ Running \in [Celery -> Nat]
  <1> SUFFICES ASSUME TokensTypeOK
               PROVE  /\ Waiting \in [Retries -> Nat]
                      /\ Running \in [Celery -> Nat]
    OBVIOUS
  <1>1. ASSUME NEW r \in Retries
        PROVE  queue[r] * Weight(r) \in Nat
    <2>1. queue[r] \in Nat /\ Weight(r) \in Nat
      BY WeightType DEF TokensTypeOK
    <2>2. QED
      BY <2>1
  <1>2. ASSUME NEW w \in Celery
        PROVE  WeightOf(exec[w]) \in Nat
    BY WeightOfType DEF TokensTypeOK
  <1>3. QED
    BY <1>1, <1>2 DEF Waiting, Running

LEMMA QueuedChanges ==
  ASSUME AttemptsInv, TokensTypeOK', NEW r \in Retries,
         \A q \in Retries \ {r} : queue'[q] = queue[q]
  PROVE  /\ IsFiniteSet(Units(Retries, Waiting))'
         /\ Queued \in Nat /\ Queued' \in Nat
         /\ Queued' + queue[r] * Weight(r) = Queued + queue'[r] * Weight(r)
  <1>1. Waiting \in [Retries -> Nat] /\ Waiting' \in [Retries -> Nat]
    <2>1. Waiting \in [Retries -> Nat]
      BY SumTypes DEF AttemptsInv
    <2>2. TokensTypeOK' => (/\ Waiting \in [Retries -> Nat]
                      /\ Running \in [Celery -> Nat])'
      BY SumTypes, PTL
    <2>3. QED
      BY <2>1, <2>2
  <1>2. \A q \in Retries \ {r} : Waiting'[q] = Waiting[q]
    BY DEF Waiting
  <1>3. /\ Waiting[r] = queue[r] * Weight(r)
        /\ Waiting'[r] = queue'[r] * Weight(r)
    BY DEF Waiting
  <1>4. Units(Retries, Waiting)' = Units(Retries, Waiting')
    BY DEF Units
  <1>5. /\ IsFiniteSet(Units(Retries, Waiting'))
        /\ Cardinality(Units(Retries, Waiting)) \in Nat
        /\ Cardinality(Units(Retries, Waiting')) \in Nat
        /\ Cardinality(Units(Retries, Waiting')) + Waiting[r]
             = Cardinality(Units(Retries, Waiting)) + Waiting'[r]
    BY <1>1, <1>2, UnitsChange DEF AttemptsInv
  <1>6. QED
    BY <1>3, <1>4, <1>5 DEF Queued

LEMMA StartedChanges ==
  ASSUME AttemptsInv, TokensTypeOK', NEW w \in Celery,
         \A v \in Celery \ {w} : exec'[v] = exec[v]
  PROVE  /\ IsFiniteSet(Units(Celery, Running))'
         /\ Started \in Nat /\ Started' \in Nat
         /\ Started' + WeightOf(exec[w]) = Started + WeightOf(exec'[w])
  <1>1. Running \in [Celery -> Nat] /\ Running' \in [Celery -> Nat]
    <2>1. Running \in [Celery -> Nat]
      BY SumTypes DEF AttemptsInv
    <2>2. TokensTypeOK' => (/\ Waiting \in [Retries -> Nat]
                      /\ Running \in [Celery -> Nat])'
      BY SumTypes, PTL
    <2>3. QED
      BY <2>1, <2>2
  <1>2. \A v \in Celery \ {w} : Running'[v] = Running[v]
    BY DEF Running
  <1>3. /\ Running[w] = WeightOf(exec[w])
        /\ Running'[w] = WeightOf(exec'[w])
    BY DEF Running
  <1>4. Units(Celery, Running)' = Units(Celery, Running')
    BY DEF Units
  <1>5. /\ IsFiniteSet(Units(Celery, Running'))
        /\ Cardinality(Units(Celery, Running)) \in Nat
        /\ Cardinality(Units(Celery, Running')) \in Nat
        /\ Cardinality(Units(Celery, Running')) + Running[w]
             = Cardinality(Units(Celery, Running)) + Running'[w]
    BY <1>1, <1>2, UnitsChange DEF AttemptsInv
  <1>6. QED
    BY <1>3, <1>4, <1>5 DEF Started

LEMMA QueuedSame ==
  ASSUME AttemptsInv, queue' = queue
  PROVE  /\ IsFiniteSet(Units(Retries, Waiting))'
         /\ Queued \in Nat /\ Queued' = Queued
  <1>1. Units(Retries, Waiting)' = Units(Retries, Waiting)
    BY DEF Units, Waiting
  <1>2. QED
    BY <1>1, FS_CardinalityType DEF AttemptsInv, Queued

LEMMA StartedSame ==
  ASSUME AttemptsInv,
         \A w \in Celery : WeightOf(exec'[w]) = WeightOf(exec[w])
  PROVE  /\ IsFiniteSet(Units(Celery, Running))'
         /\ Started \in Nat /\ Started' = Started
  <1>1. Running' = Running
    BY DEF Running
  <1>2. Units(Celery, Running)' = Units(Celery, Running)
    BY <1>1 DEF Units
  <1>3. QED
    BY <1>2, FS_CardinalityType DEF AttemptsInv, Started

(* Another n batches with r retries behind them. *)
LEMMA QueuedEnqueue ==
  ASSUME AttemptsInv, TokensTypeOK', NEW r \in Retries, NEW n \in Nat,
         Enqueue(r, n)
  PROVE  /\ IsFiniteSet(Units(Retries, Waiting))'
         /\ Queued \in Nat /\ Queued' \in Nat
         /\ Queued' = Queued + n * Weight(r)
  <1>1. /\ queue[r] \in Nat
        /\ queue'[r] = queue[r] + n
        /\ \A q \in Retries \ {r} : queue'[q] = queue[q]
    BY DEF AttemptsInv, TokensTypeOK, Enqueue
  <1>2. PICK k \in Nat : k = queue[r]
    BY <1>1
  <1>3. PICK p \in Nat : p = Weight(r)
    BY WeightType
  <1>4. k * p \in Nat /\ n * p \in Nat /\ (k + n) * p = k * p + n * p
    BY <1>2, <1>3
  <1>5. /\ IsFiniteSet(Units(Retries, Waiting))'
        /\ Queued \in Nat /\ Queued' \in Nat
        /\ Queued' + queue[r] * Weight(r) = Queued + queue'[r] * Weight(r)
    BY <1>1, QueuedChanges
  <1>6. PICK x \in Nat, y \in Nat : x = Queued /\ y = Queued'
    BY <1>5
  <1>7. y + k * p = x + (k + n) * p
    BY <1>1, <1>2, <1>3, <1>5, <1>6, Zenon
  <1>8. y = x + n * p
    <2>1. PICK c \in Nat, d \in Nat : c = k * p /\ d = n * p
      BY <1>4
    <2>2. y + c = x + (c + d)
      BY <1>4, <1>7, <2>1, Zenon
    <2>3. y = x + d
      BY <2>2
    <2>4. QED
      BY <2>1, <2>3
  <1>9. QED
    BY <1>3, <1>5, <1>6, <1>8, Zenon

LEMMA BoundTransitive ==
  ASSUME NEW x \in Nat, NEW y \in Nat, NEW a \in Nat, NEW b \in Nat,
         NEW z \in Nat
  PROVE  a + b <= x + y /\ x + y <= z => a + b <= z
  OBVIOUS

(* A batch that stands for less, or for nothing, and no more in the queue. *)
LEMMA WeightBounds ==
  ASSUME AttemptsInv, TokensTypeOK',
         /\ IsFiniteSet(Units(Retries, Waiting))'
         /\ IsFiniteSet(Units(Celery, Running))',
         NEW x \in Nat, NEW y \in Nat, NEW a \in Nat, NEW b \in Nat,
         x = Queued, y = Started, a = Queued', b = Started',
         a + b <= x + y
  PROVE  AttemptsInv'
  <1>1. PICK z \in Nat : z = Weight(0)
    BY WeightType, BoundsAssumption DEF Retries
  <1>2. Weight(0)' = Weight(0)
    BY DEF Weight
  <1>3. x + y <= z
    BY <1>1 DEF AttemptsInv
  <1>4. a + b <= z
    BY <1>3, BoundTransitive, Zenon
  <1>5. Queued' + Started' <= Weight(0)'
    BY <1>1, <1>2, <1>4, Zenon
  <1>6. QED
    BY <1>5 DEF AttemptsInv

(* Every batch keeps the retries behind it. *)
LEMMA AttemptsSame ==
  ASSUME AttemptsInv, TokensTypeOK', queue' = queue,
         \A w \in Celery : WeightOf(exec'[w]) = WeightOf(exec[w])
  PROVE  AttemptsInv'
  <1>1. /\ IsFiniteSet(Units(Retries, Waiting))'
        /\ Queued \in Nat /\ Queued' = Queued
    BY QueuedSame
  <1>2. /\ IsFiniteSet(Units(Celery, Running))'
        /\ Started \in Nat /\ Started' = Started
    BY StartedSame
  <1>3. Weight(0)' = Weight(0)
    BY DEF Weight
  <1>4. QED
    BY <1>1, <1>2, <1>3 DEF AttemptsInv

(* The batch of w ends, and n batches with r retries behind them replace   *)
(* it that stand for no more than it did.                                  *)
LEMMA AttemptsReplace ==
  ASSUME AttemptsInv, TokensTypeOK', NEW w \in Celery, NEW r \in Retries,
         NEW n \in Nat, exec[w] # Free,
         exec' = [exec EXCEPT ![w] = Free],
         Enqueue(r, n),
         n * Weight(r) <= Weight(exec[w].retries)
  PROVE  AttemptsInv'
  <1>1. /\ exec'[w] = Free
        /\ \A v \in Celery \ {w} : exec'[v] = exec[v]
    BY OtherBatches DEF AttemptsInv
  <1>2. /\ IsFiniteSet(Units(Celery, Running))'
        /\ Started \in Nat /\ Started' \in Nat
        /\ Started' + WeightOf(exec[w]) = Started + WeightOf(exec'[w])
    BY <1>1, StartedChanges
  <1>3. /\ IsFiniteSet(Units(Retries, Waiting))'
        /\ Queued \in Nat /\ Queued' \in Nat
        /\ Queued' = Queued + n * Weight(r)
    BY QueuedEnqueue
  <1>4. /\ WeightOf(exec[w]) = Weight(exec[w].retries)
        /\ WeightOf(exec'[w]) = 0
    BY <1>1 DEF WeightOf
  <1>5. PICK h \in Nat : h = Weight(exec[w].retries)
    BY WeightType, BatchFields DEF AttemptsInv
  <1>6. PICK p \in Nat : p = Weight(r)
    BY WeightType
  <1>7. PICK d \in Nat : d = n * Weight(r)
    BY <1>6
  <1>8. PICK x \in Nat, y \in Nat, a \in Nat, b \in Nat :
          x = Queued /\ y = Started /\ a = Queued' /\ b = Started'
    BY <1>2, <1>3
  <1>9. a = x + d /\ b + h = y + 0 /\ d <= h
    BY <1>2, <1>3, <1>4, <1>5, <1>7, <1>8, Zenon
  <1>10. a + b <= x + y
    BY <1>9
  <1>11. QED
    BY <1>2, <1>3, <1>8, <1>10, WeightBounds

(* The batch of w ends for good. *)
LEMMA AttemptsEnd ==
  ASSUME AttemptsInv, TokensTypeOK', NEW w \in Celery, exec[w] # Free,
         exec' = [exec EXCEPT ![w] = Free], queue' = queue
  PROVE  AttemptsInv'
  <1>1. /\ exec'[w] = Free
        /\ \A v \in Celery \ {w} : exec'[v] = exec[v]
    BY OtherBatches DEF AttemptsInv
  <1>2. /\ IsFiniteSet(Units(Celery, Running))'
        /\ Started \in Nat /\ Started' \in Nat
        /\ Started' + WeightOf(exec[w]) = Started + WeightOf(exec'[w])
    BY <1>1, StartedChanges
  <1>3. /\ IsFiniteSet(Units(Retries, Waiting))'
        /\ Queued \in Nat /\ Queued' = Queued
    BY QueuedSame
  <1>4. PICK h \in Nat : h = WeightOf(exec[w])
    BY WeightOfType DEF AttemptsInv, TokensTypeOK
  <1>5. WeightOf(exec'[w]) = 0
    BY <1>1 DEF WeightOf
  <1>6. PICK x \in Nat, y \in Nat, b \in Nat :
          x = Queued /\ y = Started /\ b = Started'
    BY <1>2, <1>3
  <1>7. b + h = y + 0
    BY <1>2, <1>4, <1>5, <1>6, Zenon
  <1>8. x + b <= x + y
    BY <1>7
  <1>9. x = Queued'
    BY <1>3, <1>6, Zenon
  <1>10. QED
    BY <1>2, <1>3, <1>6, <1>8, <1>9, WeightBounds

LEMMA ReceiveAttempts ==
  ASSUME AttemptsInv, TokensTypeOK', NEW w \in Celery, NEW r \in Retries,
         Receive(w, r)
  PROVE  AttemptsInv'
  <1>1. /\ \A v \in Celery \ {w} : exec'[v] = exec[v]
        /\ exec[w] = Free /\ exec'[w] # Free /\ exec'[w].retries = r
    <2>1. PICK c : c = [i \in Identity |-> IF i \in Expiring
                                           THEN stored[i] ELSE NoToken]
      OBVIOUS
    <2>2. PICK b : b = [pc |-> "batch", retries |-> r, todo |-> Expiring,
                        copy |-> c, dirty |-> {}, flushed |-> {}]
      OBVIOUS
    <2>3. b.retries = r /\ b # Free
      BY <2>2 DEF Free
    <2>4. exec' = [exec EXCEPT ![w] = b]
      BY <2>1, <2>2 DEF Receive
    <2>5. QED
      BY <2>3, <2>4 DEF Receive, AttemptsInv, TokensTypeOK
  <1>2. /\ queue[r] \in Nat /\ queue[r] > 0 /\ queue'[r] = queue[r] - 1
        /\ \A q \in Retries \ {r} : queue'[q] = queue[q]
    BY DEF Receive, AttemptsInv, TokensTypeOK
  <1>3. /\ IsFiniteSet(Units(Celery, Running))'
        /\ Started \in Nat /\ Started' \in Nat
        /\ Started' + WeightOf(exec[w]) = Started + WeightOf(exec'[w])
    BY <1>1, StartedChanges
  <1>4. /\ IsFiniteSet(Units(Retries, Waiting))'
        /\ Queued \in Nat /\ Queued' \in Nat
        /\ Queued' + queue[r] * Weight(r) = Queued + queue'[r] * Weight(r)
    BY <1>2, QueuedChanges
  <1>5. WeightOf(exec[w]) = 0 /\ WeightOf(exec'[w]) = Weight(r)
    BY <1>1 DEF WeightOf
  <1>6. PICK p \in Nat : p = Weight(r)
    BY WeightType
  <1>7. PICK k \in Nat : queue[r] = k + 1 /\ queue'[r] = k
    <2>1. queue[r] - 1 \in Nat /\ queue[r] = (queue[r] - 1) + 1
      BY <1>2
    <2>2. QED
      BY <1>2, <2>1, Zenon
  <1>8. PICK c \in Nat : c = k * p /\ (k + 1) * p = c + p
    BY <1>6, <1>7
  <1>9. PICK x \in Nat, y \in Nat, a \in Nat, b \in Nat :
          x = Queued /\ y = Started /\ a = Queued' /\ b = Started'
    BY <1>3, <1>4
  <1>10. a + (c + p) = x + c /\ b + 0 = y + p
    BY <1>3, <1>4, <1>5, <1>6, <1>7, <1>8, <1>9, Zenon
  <1>11. a + b <= x + y
    BY <1>10
  <1>12. QED
    BY <1>3, <1>4, <1>9, <1>11, WeightBounds

(* Nothing is queued or executed when beat schedules the next batch. *)
LEMMA ScheduleAttempts ==
  ASSUME AttemptsInv, TokensTypeOK', Schedule
  PROVE  AttemptsInv'
  <1>1. 0 \in Retries
    BY BoundsAssumption DEF Retries
  <1>2. Waiting \in [Retries -> Nat] /\ Running \in [Celery -> Nat]
    BY SumTypes DEF AttemptsInv
  <1>3. \A r \in Retries : Waiting[r] = 0
    <2>1. ASSUME NEW r \in Retries
          PROVE  0 * Weight(r) = 0
      <3>1. PICK p \in Nat : p = Weight(r)
        BY WeightType
      <3>2. 0 * p = 0
        OBVIOUS
      <3>3. QED
        BY <3>1, <3>2
    <2>2. QED
      BY <2>1 DEF Waiting, Schedule
  <1>4. \A w \in Celery : Running[w] = 0
    BY DEF Running, Schedule, WeightOf
  <1>5. Queued = 0 /\ Started = 0
    BY <1>2, <1>3, <1>4, UnitsOfNone DEF Queued, Started
  <1>6. /\ IsFiniteSet(Units(Retries, Waiting))'
        /\ Queued' \in Nat
        /\ Queued' = Queued + 1 * Weight(0)
    BY <1>1, QueuedEnqueue DEF Schedule
  <1>7. /\ IsFiniteSet(Units(Celery, Running))'
        /\ Started' = Started
    BY StartedSame DEF Schedule
  <1>8. PICK z \in Nat : z = Weight(0)
    BY <1>1, WeightType
  <1>9. Weight(0)' = Weight(0)
    BY DEF Weight
  <1>10. PICK a \in Nat, b \in Nat : a = Queued' /\ b = Started'
    BY <1>5, <1>6, <1>7
  <1>11. a = 0 + 1 * z /\ b = 0
    BY <1>5, <1>6, <1>7, <1>8, <1>10, Zenon
  <1>12. a + b <= z
    BY <1>11
  <1>13. Queued' + Started' <= Weight(0)'
    BY <1>8, <1>9, <1>10, <1>12, Zenon
  <1>14. QED
    BY <1>6, <1>7, <1>13 DEF AttemptsInv

LEMMA SameRetries ==
  ASSUME TokensTypeOK, NEW w \in Celery, NEW b \in Batch, exec[w] # Free,
         b.retries = exec[w].retries, exec' = [exec EXCEPT ![w] = b]
  PROVE  \A v \in Celery : WeightOf(exec'[v]) = WeightOf(exec[v])
  <1>1. /\ exec'[w] = b /\ b # Free
        /\ \A v \in Celery \ {w} : exec'[v] = exec[v]
    BY OtherBatches, BatchIsNotIdle
  <1>2. WeightOf(exec'[w]) = WeightOf(exec[w])
    BY <1>1 DEF WeightOf
  <1>3. QED
    BY <1>1, <1>2

LEMMA PassOverWeight ==
  ASSUME TokensTypeOK, NEW w \in Celery, NEW i \in Identity, exec[w] # Free,
         PassOver(w, i)
  PROVE  \A v \in Celery : WeightOf(exec'[v]) = WeightOf(exec[v])
  <1>1. exec[w] \in Batch
    BY BatchFields
  <1>2. PICK b \in Batch :
          b = [exec[w] EXCEPT !.todo = @ \ {i}, !.copy[i] = NoToken]
    BY <1>1 DEF Batch, Column
  <1>3. exec' = [exec EXCEPT ![w] = b]
    BY <1>1, <1>2 DEF PassOver, TokensTypeOK
  <1>4. b.retries = exec[w].retries
    BY <1>1, <1>2 DEF Batch
  <1>5. QED
    BY <1>3, <1>4, SameRetries

LEMMA FlushWeight ==
  ASSUME TokensTypeOK, NEW w \in Celery, Flush(w)
  PROVE  \A v \in Celery : WeightOf(exec'[v]) = WeightOf(exec[v])
  <1>1. exec[w] \in Batch /\ exec[w] # Free
    BY BatchFields DEF Flush
  <1>2. PICK b \in Batch :
          b = [exec[w] EXCEPT !.dirty = {}, !.flushed = @ \cup exec[w].dirty]
    BY <1>1 DEF Batch
  <1>3. exec' = [exec EXCEPT ![w] = b]
    BY <1>1, <1>2 DEF Flush, TokensTypeOK
  <1>4. b.retries = exec[w].retries
    BY <1>1, <1>2 DEF Batch
  <1>5. QED
    BY <1>1, <1>3, <1>4, SameRetries

LEMMA ExchangeWeight ==
  ASSUME TokensTypeOK, NEW w \in Celery, NEW i \in Identity, Exchange(w, i)
  PROVE  \A v \in Celery : WeightOf(exec'[v]) = WeightOf(exec[v])
  <1>1. exec[w] \in Batch /\ exec[w] # Free
    BY BatchFields DEF Exchange, IsNext
  <1>2. PICK t \in Token : t = FreshToken(i)
    BY FreshTokenType DEF Exchange
  <1>3. PICK b \in Batch :
          b = [exec[w] EXCEPT !.todo = @ \ {i}, !.dirty = {i}, !.copy[i] = t]
    BY <1>1 DEF Batch, Column
  <1>4. exec' = [exec EXCEPT ![w] = b]
    <2>1. exec' = [exec EXCEPT ![w] =
            [exec[w] EXCEPT !.todo = @ \ {i}, !.dirty = {i}, !.copy[i] = t]]
      BY <1>1, <1>2 DEF Exchange, TokensTypeOK
    <2>2. QED
      BY <1>3, <2>1
  <1>5. b.retries = exec[w].retries
    BY <1>1, <1>3 DEF Batch
  <1>6. QED
    BY <1>1, <1>4, <1>5, SameRetries

LEMMA KeptWeight ==
  ASSUME TokensTypeOK, NEW w \in Celery, NEW i \in Identity,
         ExchangeKept(w, i)
  PROVE  \A v \in Celery : WeightOf(exec'[v]) = WeightOf(exec[v])
  <1>1. exec[w] # Free
    BY KeptFrame DEF IsNext
  <1>2. PICK b \in Batch : /\ exec' = [exec EXCEPT ![w] = b]
                           /\ b.retries = exec[w].retries
    BY KeptBatch
  <1>3. QED
    BY <1>1, <1>2, SameRetries

LEMMA KeptAttempts ==
  ASSUME AttemptsInv, TokensTypeOK', NEW w \in Celery, NEW i \in Identity,
         ExchangeKept(w, i)
  PROVE  AttemptsInv'
  <1>1. TokensTypeOK
    BY DEF AttemptsInv
  <1>2. queue' = queue
    BY DEF ExchangeKept
  <1>3. QED
    BY <1>1, <1>2, KeptWeight, AttemptsSame

(* Two batches, or one, that were retried once more. *)
LEMMA RetryAttempts ==
  ASSUME AttemptsInv, TokensTypeOK', NEW w \in Celery, exec[w] # Free,
         exec[w].retries < MaxRetries,
         exec' = [exec EXCEPT ![w] = Free],
         NEW n \in 0..2, Enqueue(exec[w].retries + 1, n)
  PROVE  AttemptsInv'
  <1>1. exec[w].retries \in Retries
    BY BatchFields DEF AttemptsInv
  <1>2. PICK r \in Retries : r = exec[w].retries + 1
    <2>1. exec[w].retries + 1 \in Retries
      BY <1>1, BoundsAssumption DEF Retries
    <2>2. QED
      BY <2>1
  <1>3. Weight(exec[w].retries) = 2 * Weight(r)
    BY <1>1, <1>2, WeightType
  <1>4. PICK p \in Nat : p = Weight(r)
    BY WeightType
  <1>5. n * p <= 2 * p
    BY <1>4
  <1>6. n * Weight(r) <= Weight(exec[w].retries)
    BY <1>3, <1>4, <1>5
  <1>7. Enqueue(r, n) /\ n \in Nat
    BY <1>2
  <1>8. QED
    BY <1>6, <1>7, AttemptsReplace

LEMMA FailIdentityAttempts ==
  ASSUME AttemptsInv, TokensTypeOK', NEW w \in Celery, NEW i \in Identity,
         exec[w] # Free, FailIdentity(w, i)
  PROVE  AttemptsInv'
  <1>1. CASE exec[w].retries < MaxRetries
    BY <1>1, RetryAttempts DEF FailIdentity
  <1>2. CASE ~(exec[w].retries < MaxRetries)
    <2>1. PassOver(w, i) /\ queue' = queue
      BY <1>2 DEF FailIdentity
    <2>2. TokensTypeOK
      BY DEF AttemptsInv
    <2>3. QED
      BY <2>1, <2>2, PassOverWeight, AttemptsSame
  <1>3. QED
    BY <1>1, <1>2

LEMMA BatchAttempts ==
  ASSUME AttemptsInv, TokensTypeOK', NEW w \in Celery,
         \/ BatchStep(w)
         \/ \E i \in Identity : ExchangeFails(w, i)
         \/ Crash(w)
  PROVE  AttemptsInv'
  <1>1. TokensTypeOK
    BY DEF AttemptsInv
  <1>2. CASE Flush(w)
    <2>1. queue' = queue
      BY <1>2 DEF Flush
    <2>2. QED
      BY <1>1, <1>2, <2>1, FlushWeight, AttemptsSame
  <1>3. ASSUME NEW i \in Identity, Skip(w, i)
        PROVE  AttemptsInv'
    <2>1. exec[w] # Free /\ PassOver(w, i) /\ queue' = queue
      BY <1>3 DEF Skip, IsNext
    <2>2. QED
      BY <1>1, <2>1, PassOverWeight, AttemptsSame
  <1>4. ASSUME NEW i \in Identity, Exchange(w, i)
        PROVE  AttemptsInv'
    <2>1. queue' = queue
      BY <1>4 DEF Exchange
    <2>2. QED
      BY <1>1, <1>4, <2>1, ExchangeWeight, AttemptsSame
  <1>5. ASSUME NEW i \in Identity, ExchangeRefused(w, i)
        PROVE  AttemptsInv'
    BY <1>5, FailIdentityAttempts DEF ExchangeRefused, IsNext
  <1>6. ASSUME NEW i \in Identity, ExchangeFails(w, i)
        PROVE  AttemptsInv'
    <2>1. exec[w] # Free
      BY <1>6 DEF ExchangeFails, IsNext
    <2>2. CASE FailIdentity(w, i)
      BY <2>1, <2>2, FailIdentityAttempts
    <2>3. CASE PassOver(w, i) /\ UNCHANGED <<queue, cut>>
      BY <1>1, <2>1, <2>3, PassOverWeight, AttemptsSame
    <2>4. QED
      BY <1>6, <2>2, <2>3 DEF ExchangeFails
  <1>7. CASE Deadlock(w)
    <2>1. exec[w] # Free /\ exec' = [exec EXCEPT ![w] = Free]
      BY <1>7 DEF Deadlock
    <2>2. CASE exec[w].retries < MaxRetries
      <3>1. PICK n \in 0..2 : Enqueue(exec[w].retries + 1, n)
        BY <1>7, <2>2 DEF Deadlock
      <3>2. QED
        BY <2>1, <2>2, <3>1, RetryAttempts
    <2>3. CASE ~(exec[w].retries < MaxRetries)
      BY <1>7, <2>1, <2>3, AttemptsEnd DEF Deadlock
    <2>4. QED
      BY <2>2, <2>3
  <1>8. CASE CommitBatch(w)
    BY <1>8, AttemptsEnd DEF CommitBatch
  <1>9. CASE Crash(w)
    <2>1. PICK r \in Retries : r = exec[w].retries
      BY <1>1, <1>9, BatchFields DEF Crash
    <2>2. PICK p \in Nat : p = Weight(r)
      BY WeightType
    <2>3. 1 * p <= p
      OBVIOUS
    <2>4. 1 * Weight(r) <= Weight(exec[w].retries)
      BY <2>1, <2>2, <2>3, Zenon
    <2>5. /\ exec[w] # Free /\ exec' = [exec EXCEPT ![w] = Free]
          /\ Enqueue(r, 1)
      BY <1>9, <2>1 DEF Crash
    <2>6. QED
      BY <2>4, <2>5, AttemptsReplace
  <1>10. ASSUME NEW i \in Identity, FailWithoutToken(w, i)
         PROVE  AttemptsInv'
    <2>1. exec[w] # Free /\ PassOver(w, i) /\ queue' = queue
      BY <1>10 DEF FailWithoutToken, IsNext
    <2>2. QED
      BY <1>1, <2>1, PassOverWeight, AttemptsSame
  <1>11. QED
    BY <1>2, <1>3, <1>4, <1>5, <1>6, <1>7, <1>8, <1>9, <1>10 DEF BatchStep

LEMMA NextAttempts == AttemptsInv /\ [TokensNext]_tokenVars => AttemptsInv'
  <1>1. ASSUME AttemptsInv, [TokensNext]_tokenVars
        PROVE  AttemptsInv'
    <2>1. TokensTypeOK'
      BY <1>1, NextType DEF AttemptsInv
    <2>2. CASE queue' = queue /\ exec' = exec
      BY <1>1, <2>1, <2>2, AttemptsSame
    <2>3. CASE Schedule
      BY <1>1, <2>1, <2>3, ScheduleAttempts
    <2>4. ASSUME NEW w \in Celery, NEW r \in Retries, Receive(w, r)
          PROVE  AttemptsInv'
      BY <1>1, <2>1, <2>4, ReceiveAttempts
    <2>5. ASSUME NEW w \in Celery,
                 \/ BatchStep(w)
                 \/ \E i \in Identity : ExchangeFails(w, i)
                 \/ Crash(w)
          PROVE  AttemptsInv'
      BY <1>1, <2>1, <2>5, BatchAttempts
    <2>6. ASSUME NEW i \in Identity, UserStep(i) \/ Expire(i) \/ Revoke(i)
          PROVE  queue' = queue /\ exec' = exec
      BY <2>6 DEF UserStep, StartRefresh, StartTask, RetryTask,
                  ExchangeForUser, KeepForUser, RefreshFails,
                  CommitRefresh, Login, LoginWithoutToken, Logout, Expire,
                  Revoke
    <2>7. CASE CleanUp \/ CommitCleanUp \/ CleanUpFails
      BY <2>2, <2>7 DEF CleanUp, CommitCleanUp, CleanUpFails
    <2>8. CASE UNCHANGED tokenVars
      BY <2>2, <2>8 DEF tokenVars
    <2>9. ASSUME NEW w \in Celery, NEW i \in Identity, ExchangeKept(w, i)
          PROVE  AttemptsInv'
      BY <1>1, <2>1, <2>9, KeptAttempts
    <2>10. QED
      BY <1>1, <2>2, <2>3, <2>4, <2>5, <2>6, <2>7, <2>8, <2>9
      DEF TokensNext
  <1>2. QED
    BY <1>1

LEMMA InitAttempts == TokensInit => AttemptsInv
  <1> SUFFICES ASSUME TokensInit
               PROVE  AttemptsInv
    OBVIOUS
  <1>1. TokensTypeOK
    BY InitType
  <1>2. 0 \in Retries
    BY BoundsAssumption DEF Retries
  <1>3. Waiting \in [Retries -> Nat] /\ Running \in [Celery -> Nat]
    BY <1>1, SumTypes
  <1>4. \A r \in Retries : Waiting[r] = 0
    <2>1. ASSUME NEW r \in Retries
          PROVE  0 * Weight(r) = 0
      <3>1. PICK p \in Nat : p = Weight(r)
        BY WeightType
      <3>2. 0 * p = 0
        OBVIOUS
      <3>3. QED
        BY <3>1, <3>2
    <2>2. QED
      BY <2>1 DEF Waiting, TokensInit
  <1>5. \A w \in Celery : Running[w] = 0
    BY DEF Running, TokensInit, WeightOf
  <1>6. /\ IsFiniteSet(Units(Retries, Waiting)) /\ Queued = 0
        /\ IsFiniteSet(Units(Celery, Running)) /\ Started = 0
    BY <1>3, <1>4, <1>5, UnitsOfNone DEF Queued, Started
  <1>7. Weight(0) \in Nat
    BY <1>2, WeightType
  <1>8. Queued + Started <= Weight(0)
    BY <1>6, <1>7
  <1>9. QED
    BY <1>1, <1>6, <1>8 DEF AttemptsInv

(* What is multiplied alike was in the same order before. *)
LEMMA Cancel ==
  ASSUME NEW n \in Nat, NEW q \in Nat, NEW p \in Nat \ {0}, n * p <= q * p
  PROVE  n <= q
  <1>1. SUFFICES ASSUME ~(n <= q)
                 PROVE  FALSE
    OBVIOUS
  <1>2. PICK d \in Nat : n = q + 1 + d
    <2>1. n - (q + 1) \in Nat /\ n = q + 1 + (n - (q + 1))
      BY <1>1
    <2>2. QED
      BY <2>1, Zenon
  <1>3. n * p = q * p + p + d * p
    BY <1>2
  <1>4. d * p \in Nat /\ q * p \in Nat
    OBVIOUS
  <1>5. QED
    BY <1>3, <1>4

LEMMA SumOfProducts ==
  ASSUME NEW k \in Nat, NEW c \in Nat, NEW m \in Nat, NEW x \in Nat,
         NEW y \in Nat, NEW z
  PROVE  k * m <= x /\ c * m <= y /\ x + y <= z /\ z \in Nat
           => (k + c) * m <= z
  <1>1. k * m \in Nat /\ c * m \in Nat /\ (k + c) * m = k * m + c * m
    OBVIOUS
  <1>2. QED
    BY <1>1

LEMMA BoundFromWeights ==
  ASSUME AttemptsInv, NEW r \in Retries
  PROVE  queue[r] + Cardinality({w \in Celery : exec[w] # Free
                                            /\ exec[w].retries = r}) <= 2 ^ r
  <1> DEFINE W == {w \in Celery : exec[w] # Free /\ exec[w].retries = r}
             p == Weight(r)
             E == W \X (1..p)
  <1>1. p \in Nat \ {0} /\ Weight(0) = 2 ^ r * p /\ 2 ^ r \in Nat
    BY WeightType
  <1>2. E \in SUBSET Units(Celery, Running)
    BY DEF Units, Running, WeightOf
  <1>3. IsFiniteSet(E) /\ Cardinality(E) <= Started
    BY <1>2, FS_Subset DEF AttemptsInv, Started
  <1>4. IsFiniteSet(W)
    <2> DEFINE f == [w \in W |-> <<w, 1>>]
    <2>1. f \in [W -> E]
      BY <1>1
    <2>2. \A v, w \in W : f[v] = f[w] => v = w
      OBVIOUS
    <2> HIDE DEF f, E, W
    <2>3. f \in Injection(W, E)
      BY <2>1, <2>2, Fun_IsInj, Zenon
    <2>4. QED
      BY <1>3, <2>3, FS_Injection
  <1>5. IsFiniteSet(1..p) /\ Cardinality(1..p) = p
    <2> HIDE DEF p
    <2>1. QED
      BY <1>1, FS_Interval
  <1>6. Cardinality(E) = Cardinality(W) * p
    <2> HIDE DEF W, p
    <2>1. Cardinality(E) = Cardinality(W) * Cardinality(1..p)
      BY <1>4, <1>5, FS_Product, Zenon
    <2>2. QED
      BY <1>5, <2>1, Zenon
  <1>7. queue[r] \in Nat /\ queue[r] * p \in Nat
    BY <1>1 DEF AttemptsInv, TokensTypeOK
  <1>8. {r} \X (1..(queue[r] * p)) \in SUBSET Units(Retries, Waiting)
    BY DEF Units, Waiting
  <1>9. queue[r] * p <= Queued
    <2>1. Cardinality({r} \X (1..(queue[r] * p))) = queue[r] * p
      BY <1>7, UnitsOfOne, Zenon
    <2>2. Cardinality({r} \X (1..(queue[r] * p))) <= Queued
      BY <1>8, FS_Subset DEF AttemptsInv, Queued
    <2>3. QED
      BY <2>1, <2>2, Zenon
  <1>10. Queued \in Nat /\ Started \in Nat /\ Cardinality(W) \in Nat
    BY <1>4, FS_CardinalityType DEF AttemptsInv, Queued, Started
  <1> HIDE DEF W, p, E
  <1>11. PICK k \in Nat, c \in Nat, m \in Nat \ {0}, u \in Nat, x \in Nat,
              y \in Nat :
           /\ k = queue[r] /\ c = Cardinality(W) /\ m = p
           /\ u = 2 ^ r /\ x = Queued /\ y = Started
    BY <1>1, <1>7, <1>10, Zenon
  <1>12. k * m <= x /\ c * m <= y /\ x + y <= u * m
    BY <1>1, <1>3, <1>6, <1>9, <1>11, Zenon DEF AttemptsInv
  <1>13. (k + c) * m <= u * m
    <2>1. u * m \in Nat
      OBVIOUS
    <2>2. QED
      BY <1>12, <2>1, SumOfProducts, Zenon
  <1>14. k + c <= u
    <2>1. k + c \in Nat
      OBVIOUS
    <2>2. QED
      BY <1>13, <2>1, Cancel, Zenon
  <1>15. queue[r] + Cardinality(W) <= 2 ^ r
    BY <1>11, <1>14, Zenon
  <1>16. QED
    BY <1>15 DEF W

(* A scheduled batch is attempted 2^r times at most with r retries behind  *)
(* it, whatever fails, deadlocks and crashes on the way: the two retries   *)
(* that a failing batch queues for itself do not add up.                   *)
THEOREM AttemptsCorrect == TokensSpec => []AttemptsBounded
  <1>1. AttemptsInv => AttemptsBounded
    BY BoundFromWeights DEF AttemptsBounded
  <1>2. QED
    BY <1>1, InitAttempts, NextAttempts, PTL DEF TokensSpec
===============================================================================
