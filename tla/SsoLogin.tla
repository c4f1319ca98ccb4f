------------------------------- MODULE SsoLogin -------------------------------
(***************************************************************************)
(* The SSO login of one browser (routes/sso_auth.py): the redirection to   *)
(* Azure AD and the callback, with the PKCE verifier in between in Redis   *)
(* or in the session (services/azure_ad_service.py).                       *)
(*                                                                         *)
(* The session is a cookie: a request carries the one the browser has when *)
(* it is sent, and its answer replaces the one the browser has by then.    *)
(* Two tabs, or a page that is loaded again, overwrite each other's.       *)
(*                                                                         *)
(* A login stands for its state token, its verifier and its code.          *)
(*                                                                         *)
(* Outside: the browser; Azure AD, which redeems a code once, and with the *)
(* verifier of its challenge; Redis, which forgets an entry; the admins,   *)
(* who change the configuration (SsoConfig).                               *)
(***************************************************************************)
EXTENDS Naturals

CONSTANTS
  Login,      \* logins the browser may begin
  Tenant,     \* tenants
  Process,    \* processes of the server
  Slot,       \* bound: so many requests of the browser at once
  MaxChanges, \* bound: so often a configuration changes, or Redis fails
  None        \* no login, no tenant

ASSUME NoneAssumption == None \notin Login \cup Tenant
ASSUME MaxChangesAssumption == MaxChanges \in Nat

VARIABLES
  client,    \* client[p]: process p reached Redis when it started
  config,    \* config[t]: the enabled configuration of t, and its mode
  cookie,    \* the session the browser has
  redis,     \* the logins l with an entry sso_session:l in Redis
  login,     \* login[l]: how far login l is
  req,       \* req[s]: the request in slot s
  changes,   \* changes and failures so far
  redeemed,  \* the logins whose code Azure AD has redeemed
  completed, \* history: completed[l]: the tenant login l was processed for
  refused,   \* history: the logins whose callback was refused
  upset      \* history: the logins that something outside interfered with

outcome == <<redeemed, completed>>

vars == <<client, config, cookie, redis, login, req, changes, outcome,
          refused, upset>>

(* What a session holds: oauth_state, sso_tenant_id, oauth_code_verifier.  *)
Session ==
  [state : Login \cup {None}, tenant : Tenant \cup {None},
   verifier : Login \cup {None}]

NoSession == [state |-> None, tenant |-> None, verifier |-> None]

(* "none": disabled; "secret": a confidential client; "pkce": a public one *)
Mode == {"none", "secret", "pkce"}

(* `challenged`: Azure AD was given a challenge with the request.          *)
Begun ==
  [pc : {"redirect", "azure", "code", "called", "spent"}, tenant : Tenant,
   challenged : BOOLEAN]

NotBegun == [pc |-> "new"]

Free == [pc |-> "free"]

InFlight ==
  [pc : {"redirect", "retrieve", "delete", "answer"},
   login : Login, session : Session]
  \cup
  [pc : {"exchange", "process"}, login : Login, session : Session,
   tenant : Tenant, mode : Mode, verifier : Login \cup {None}]

(* The logins that wait for Azure AD or for the server. *)
Pending ==
  {l \in Login : login[l].pc \in {"redirect", "azure", "code", "called"}}

Changes == changes < MaxChanges /\ changes' = changes + 1

-----------------------------------------------------------------------------
(***************************************************************************)
(* GET /azure/login/<tenant>                                               *)
(***************************************************************************)

(* A bug: a session that has a tenant keeps it. *)
StoreKeepingTenant(p, l, t, v) ==
  [state |-> l,
   tenant |-> IF cookie.tenant = None THEN t ELSE cookie.tenant,
   verifier |-> IF client[p] THEN cookie.verifier ELSE v]

(* The session of the answer: store_pkce_in_session puts the verifier into *)
(* the session only without Redis, and leaves an older one there.          *)
Store(p, l, t, v) ==
  [state |-> l, tenant |-> t,
   verifier |-> IF client[p] THEN cookie.verifier ELSE v]

(* generate_pkce_pair, unless the configuration has a secret.              *)
Verifier(l, t) == IF config[t] = "pkce" THEN l ELSE None

(* The entry in Redis is made in any case (with the verifier, if any).     *)
Begin(s, p, l, t) ==
  /\ req[s] = Free
  /\ login[l] = NotBegun
  /\ config[t] # "none"
  /\ LET v == Verifier(l, t)
     IN /\ redis' = redis \cup (IF client[p] THEN {l} ELSE {})
        /\ req' = [req EXCEPT ![s] = [pc |-> "redirect", login |-> l,
                                      session |-> Store(p, l, t, v)]]
        /\ login' = [login EXCEPT ![l] = [pc |-> "redirect", tenant |-> t,
                                          challenged |-> v = l]]
  /\ UNCHANGED <<client, config, cookie, changes, outcome, refused, upset>>

(* The answer arrives, and the browser has its session instead of what it  *)
(* had: the state of any other login is gone.                              *)
Receive(s) ==
  /\ req[s].pc \in {"redirect", "answer"}
  /\ cookie' = req[s].session
  /\ req' = [req EXCEPT ![s] = Free]
  /\ login' = [login EXCEPT ![req[s].login].pc =
                 CASE req[s].pc = "redirect" -> "azure"
                   [] @ = "called" -> "spent"
                   [] OTHER -> @]
  /\ upset' = upset \cup (Pending \ {req[s].login})
  /\ UNCHANGED <<client, config, redis, changes, outcome, refused>>

(* The user signs in at Azure AD, which redirects to the callback.         *)
SignIn(l) ==
  /\ login[l].pc = "azure"
  /\ login' = [login EXCEPT ![l].pc = "code"]
  /\ UNCHANGED <<client, config, cookie, redis, req, changes, outcome,
                 refused, upset>>

-----------------------------------------------------------------------------
(***************************************************************************)
(* GET /azure/callback                                                     *)
(***************************************************************************)

(* The callback of slot s is refused, with session c in the answer.        *)
Refuse(s, c) ==
  /\ req' = [req EXCEPT ![s] = [pc |-> "answer", login |-> req[s].login,
                                session |-> c]]
  /\ refused' = refused \cup {req[s].login}

(* Azure AD reports an error, for example that the user declines: the      *)
(* session and the entry in Redis are left as they are.                    *)
Decline(s, l) ==
  /\ req[s] = Free
  /\ login[l].pc = "azure"
  /\ login' = [login EXCEPT ![l].pc = "called"]
  /\ req' = [req EXCEPT ![s] = [pc |-> "answer", login |-> l,
                                session |-> cookie]]
  /\ refused' = refused \cup {l}
  /\ upset' = upset \cup {l}
  /\ UNCHANGED <<client, config, cookie, redis, changes, outcome>>

(* Sent with the cookie of the moment; the page may be loaded again.       *)
Callback(s, l) ==
  /\ req[s] = Free
  /\ login[l].pc \in {"code", "called", "spent"}
  /\ login' = [login EXCEPT ![l].pc = "called"]
  /\ req' = [req EXCEPT ![s] = [pc |-> "retrieve", login |-> l,
                                session |-> cookie]]
  /\ upset' = upset \cup (IF login[l].pc = "code" THEN {} ELSE {l})
                    \cup ((Pending \cap {cookie.state}) \ {l})
  /\ UNCHANGED <<client, config, cookie, redis, changes, outcome, refused>>

StateMatches(s) == req[s].session.state = req[s].login

(* validate_state_token, then the configuration of the tenant is loaded    *)
(* (AzureADService), once for what follows.                                *)
Validate(s, c, v) ==
  LET l == req[s].login IN
  IF ~StateMatches(s) THEN Refuse(s, c)
  ELSE IF c.tenant = None \/ config[c.tenant] = "none"
  THEN Refuse(s, [c EXCEPT !.tenant = None])
  ELSE /\ req' = [req EXCEPT ![s] =
              [pc |-> "exchange", login |-> l, tenant |-> c.tenant,
               mode |-> config[c.tenant], verifier |-> v,
               session |-> [c EXCEPT !.tenant = None]]]
       /\ UNCHANGED refused

(* The session without its state, which retrieve_pkce_from_session pops.   *)
Popped(s) == [req[s].session EXCEPT !.state = None]

(* The entry is in Redis, and is deleted by a second call.                 *)
Retrieve(s, p) ==
  /\ req[s].pc = "retrieve"
  /\ client[p] /\ req[s].session.state # None
  /\ req[s].session.state \in redis
  /\ req' = [req EXCEPT ![s].pc = "delete"]
  /\ UNCHANGED <<client, config, cookie, redis, login, changes, outcome,
                 refused, upset>>

(* A bug: the entry is left to expire. *)
ValidateOnly(s) ==
  /\ req[s].pc = "delete"
  /\ LET k == req[s].session.state
     IN Validate(s, Popped(s), IF login[k].challenged THEN k ELSE None)
  /\ UNCHANGED <<client, config, cookie, redis, login, changes, outcome,
                 upset>>

Delete(s) ==
  /\ req[s].pc = "delete"
  /\ LET k == req[s].session.state
     IN /\ redis' = redis \ {k}
        /\ Validate(s, Popped(s), IF login[k].challenged THEN k ELSE None)
  /\ UNCHANGED <<client, config, cookie, login, changes, outcome, upset>>

(* No entry, or no Redis: the session must have a verifier, be it an older *)
(* one; without any, the state counts as missing.                          *)
RetrieveFromSession(s, p) ==
  /\ req[s].pc = "retrieve"
  /\ LET c == req[s].session IN
     /\ ~client[p] \/ c.state \notin redis
     /\ CASE c.state = None -> Refuse(s, c)
          [] c.state # None /\ c.verifier = None -> Refuse(s, Popped(s))
          [] OTHER -> Validate(s, [Popped(s) EXCEPT !.verifier = None],
                               c.verifier)
  /\ UNCHANGED <<client, config, cookie, redis, login, changes, outcome,
                 upset>>

(* Redis does not answer: the state is popped all the same. *)
RetrieveFails(s, p) ==
  /\ req[s].pc \in {"retrieve", "delete"}
  /\ client[p] /\ req[s].session.state # None
  /\ Changes
  /\ Refuse(s, Popped(s))
  /\ upset' = upset \cup {req[s].login}
  /\ UNCHANGED <<client, config, cookie, redis, login, outcome>>

(* A bug: the verifier is demanded of a confidential client, too. *)
RedeemableWithVerifier(s) ==
  LET l == req[s].login IN
  /\ l \notin redeemed
  /\ req[s].verifier = l

(* Azure AD redeems the code once.  With a secret no verifier is sent,     *)
(* which a code with a challenge demands.  What is sent follows the        *)
(* configuration as it was loaded, whatever has become of it.              *)
Redeemable(s) ==
  LET l == req[s].login IN
  /\ l \notin redeemed
  /\ IF login[l].challenged
     THEN req[s].mode = "pkce" /\ req[s].verifier = l
     ELSE req[s].mode = "secret"

(* exchange_code_for_tokens. *)
Exchange(s) ==
  /\ req[s].pc = "exchange"
  /\ IF Redeemable(s)
     THEN /\ redeemed' = redeemed \cup {req[s].login}
          /\ req' = [req EXCEPT ![s].pc = "process"]
          /\ UNCHANGED refused
     ELSE Refuse(s, req[s].session) /\ UNCHANGED redeemed
  /\ UNCHANGED <<client, config, cookie, redis, login, changes, completed,
                 upset>>

(* The ID token has no email, is expired, or is meant for another client;  *)
(* its signature is not verified, and that its tenant is another one is    *)
(* only logged.  The code is spent.                                        *)
RefuseClaims(s) ==
  /\ req[s].pc = "process"
  /\ Refuse(s, req[s].session)
  /\ upset' = upset \cup {req[s].login}
  /\ UNCHANGED <<client, config, cookie, redis, login, changes, outcome>>

(* process_sso_login for the tenant (which SsoConfig describes, with the   *)
(* users it refuses), and the tokens of the application.                   *)
ProcessLogin(s) ==
  /\ req[s].pc = "process"
  /\ completed' = [completed EXCEPT ![req[s].login] = req[s].tenant]
  /\ req' = [req EXCEPT ![s] = [pc |-> "answer", login |-> req[s].login,
                                session |-> req[s].session]]
  /\ UNCHANGED <<client, config, cookie, redis, login, changes, redeemed,
                 refused, upset>>

-----------------------------------------------------------------------------
(***************************************************************************)
(* Outside                                                                 *)
(***************************************************************************)

(* REDIS_SESSION_EXPIRE seconds have passed, or Redis needs the room.      *)
Expire(l) ==
  /\ l \in redis
  /\ redis' = redis \ {l}
  /\ upset' = upset \cup {l}
  /\ UNCHANGED <<client, config, cookie, login, req, changes, outcome,
                 refused>>

Configure(t, m) ==
  /\ config[t] # m
  /\ Changes
  /\ config' = [config EXCEPT ![t] = m]
  /\ upset' = upset \cup {l \in Pending : login[l].tenant = t}
  /\ UNCHANGED <<client, cookie, redis, login, req, outcome, refused>>

Init ==
  /\ client \in [Process -> BOOLEAN]
  /\ config \in [Tenant -> Mode]
  /\ cookie = NoSession
  /\ redis = {}
  /\ login = [l \in Login |-> NotBegun]
  /\ req = [s \in Slot |-> Free]
  /\ changes = 0
  /\ completed = [l \in Login |-> None]
  /\ redeemed = {}
  /\ refused = {} /\ upset = {}

Next ==
  \/ \E s \in Slot :
       \/ \E p \in Process, l \in Login, t \in Tenant : Begin(s, p, l, t)
       \/ \E l \in Login : Callback(s, l) \/ Decline(s, l)
       \/ \E p \in Process :
            Retrieve(s, p) \/ RetrieveFromSession(s, p) \/ RetrieveFails(s, p)
       \/ Delete(s)
       \/ Exchange(s)
       \/ RefuseClaims(s)
       \/ ProcessLogin(s)
       \/ Receive(s)
  \/ \E l \in Login : SignIn(l) \/ Expire(l)
  \/ \E t \in Tenant, m \in Mode : Configure(t, m)

Spec == Init /\ [][Next]_vars

-----------------------------------------------------------------------------
(***************************************************************************)
(* Properties                                                              *)
(***************************************************************************)

TypeOK ==
  /\ client \in [Process -> BOOLEAN]
  /\ config \in [Tenant -> Mode]
  /\ cookie \in Session
  /\ redis \subseteq Login
  /\ login \in [Login -> Begun \cup {NotBegun}]
  /\ req \in [Slot -> InFlight \cup {Free}]
  /\ changes \in 0..MaxChanges
  /\ completed \in [Login -> Tenant \cup {None}]
  /\ redeemed \subseteq Login
  /\ refused \subseteq Login /\ upset \subseteq Login

AllHaveRedis == \A p \in Process : client[p]

(* Whatever tabs a browser has open, and whatever order their answers come *)
(* in, a login is processed for the tenant it was begun for: this is the   *)
(* tenant the user joins, and the one in the tokens.                       *)
CompletedWhereBegun ==
  \A l \in Login :
    completed[l] # None => completed[l] = login[l].tenant

(* When every process has Redis, a login that is neither overtaken by      *)
(* another one in the same browser, nor loaded again, expired, declined or *)
(* reconfigured, nor gets an ID token it cannot use, is not refused.       *)
RefusedForAReason == AllHaveRedis => refused \subseteq upset

(* When every process has Redis, a verifier does not survive its login.    *)
VerifierIsConsumed ==
  AllHaveRedis => \A l \in Login : completed[l] # None => l \notin redis
=============================================================================
