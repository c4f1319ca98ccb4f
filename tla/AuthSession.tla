----------------------------- MODULE AuthSession ------------------------------
(***************************************************************************)
(* Local authentication (routes/auth.py): registration, login, refresh of  *)
(* the access token and logout, in the processes of the API server, and    *)
(* the blacklist of revoked tokens (services/auth_service.py).             *)
(*                                                                         *)
(* The blacklist is in Redis for the processes that reached Redis when     *)
(* they started, as long as it answers; otherwise each process has a set   *)
(* of its own.  Time is counted in ticks.                                  *)
(*                                                                         *)
(* No handler deactivates an account: an account is active.                *)
(*                                                                         *)
(* Outside: the clock, and a Redis that goes away, comes back with what it *)
(* had (appendonly), or evicts a key (allkeys-lru).                        *)
(***************************************************************************)
EXTENDS Naturals

CONSTANTS
  Process,       \* processes of the server there may be
  User,          \* e-mail addresses
  Token,         \* the tokens that may be issued, by jti
  Nobody,        \* the owner of an address without an account
  AccessLife,    \* JWT_ACCESS_TOKEN_EXPIRES
  RefreshLife,   \* JWT_REFRESH_TOKEN_EXPIRES
  BlacklistLife, \* REDIS_TOKEN_BLACKLIST_EXPIRE
  MaxTime        \* bound: the clock stops there

ASSUME LivesAssumption ==
  /\ AccessLife \in Nat /\ RefreshLife \in Nat /\ BlacklistLife \in Nat
  /\ AccessLife <= BlacklistLife

ASSUME NobodyAssumption == Nobody \notin Process

VARIABLES
  up,        \* the processes the server was started with
  now,       \* the time
  redisUp,   \* Redis answers
  client,    \* client[p]: process p reached Redis when it started
  blacklist, \* blacklist[t]: until when Redis has the key of t, or 0
  memory,    \* memory[p]: TOKEN_BLACKLIST of process p
  owner,     \* owner[u]: the process whose registration made the account
  token,     \* token[t]: kind, user and expiry of an issued token
  req,       \* req[p]: the request process p executes
  revoked,   \* history: the tokens whose logout was executed
  steady     \* history: no process has lost sight of a blacklist

redis == <<redisUp, client, blacklist, memory>>
vars == <<up, now, redis, owner, token, req, revoked, steady>>

Unused == [kind |-> "unused"]

Issued == [kind : {"access", "refresh"}, user : User, exp : Nat]

Idle == [pc |-> "idle"]

Request ==
  [pc : {"insert", "login", "refresh"}, user : User]
  \cup [pc : {"revoke"}, token : Token]

Finish(p) == req' = [req EXCEPT ![p] = Idle]

(* Flask-JWT-Extended accepts what has not expired. *)
Valid(t) == token[t] # Unused /\ now < token[t].exp

(* _is_token_blacklisted: Redis, or else the set of the process. *)
Blacklisted(p, t) ==
  IF client[p] /\ redisUp THEN now < blacklist[t] ELSE t \in memory[p]

Accepted(p, t) == Valid(t) /\ ~Blacklisted(p, t)

-----------------------------------------------------------------------------
(***************************************************************************)
(* POST /auth/register: register                                           *)
(***************************************************************************)

Register(p, u) ==
  /\ req[p] = Idle
  /\ owner[u] = Nobody
  /\ req' = [req EXCEPT ![p] = [pc |-> "insert", user |-> u]]
  /\ UNCHANGED <<now, redis, owner, token, revoked, steady>>

(* A bug: a second registration takes the account over. *)
ReplaceUser(p) ==
  /\ req[p].pc = "insert"
  /\ owner' = [owner EXCEPT ![req[p].user] = p]
  /\ Finish(p)
  /\ UNCHANGED <<now, redis, token, revoked, steady>>

(* The e-mail address is unique: the second insert fails. *)
InsertUser(p) ==
  /\ req[p].pc = "insert"
  /\ owner' = IF owner[req[p].user] = Nobody
              THEN [owner EXCEPT ![req[p].user] = p] ELSE owner
  /\ Finish(p)
  /\ UNCHANGED <<now, redis, token, revoked, steady>>

-----------------------------------------------------------------------------
(***************************************************************************)
(* POST /auth/login and /auth/refresh                                      *)
(***************************************************************************)

Login(p, u) ==
  /\ req[p] = Idle
  /\ owner[u] # Nobody
  /\ req' = [req EXCEPT ![p] = [pc |-> "login", user |-> u]]
  /\ UNCHANGED <<now, redis, owner, token, revoked, steady>>

IssueTokens(p) ==
  /\ req[p].pc = "login"
  /\ \E a, r \in Token :
       /\ a # r /\ token[a] = Unused /\ token[r] = Unused
       /\ token' = [token EXCEPT
            ![a] = [kind |-> "access", user |-> req[p].user,
                    exp |-> now + AccessLife],
            ![r] = [kind |-> "refresh", user |-> req[p].user,
                    exp |-> now + RefreshLife]]
  /\ Finish(p)
  /\ UNCHANGED <<now, redis, owner, revoked, steady>>

(* jwt_required(refresh=True), then the account is read. *)
Refresh(p, t) ==
  /\ req[p] = Idle
  /\ Accepted(p, t)
  /\ token[t].kind = "refresh"
  /\ req' = [req EXCEPT ![p] = [pc |-> "refresh", user |-> token[t].user]]
  /\ UNCHANGED <<now, redis, owner, token, revoked, steady>>

IssueAccessToken(p) ==
  /\ req[p].pc = "refresh"
  /\ \E a \in Token :
       /\ token[a] = Unused
       /\ token' = [token EXCEPT
            ![a] = [kind |-> "access", user |-> req[p].user,
                    exp |-> now + AccessLife]]
  /\ Finish(p)
  /\ UNCHANGED <<now, redis, owner, revoked, steady>>

-----------------------------------------------------------------------------
(***************************************************************************)
(* POST /auth/logout                                                       *)
(***************************************************************************)

(* A bug: a refresh token is revoked as well, for a day of its seven. *)
LogoutAny(p, t) ==
  /\ req[p] = Idle
  /\ Accepted(p, t)
  /\ req' = [req EXCEPT ![p] = [pc |-> "revoke", token |-> t]]
  /\ UNCHANGED <<now, redis, owner, token, revoked, steady>>

(* jwt_required(): only the access token is revoked, never the refresh     *)
(* token of the same login.                                                *)
Logout(p, t) ==
  /\ req[p] = Idle
  /\ Accepted(p, t)
  /\ token[t].kind = "access"
  /\ req' = [req EXCEPT ![p] = [pc |-> "revoke", token |-> t]]
  /\ UNCHANGED <<now, redis, owner, token, revoked, steady>>

(* SETEX in Redis.                                                         *)
BlacklistInRedis(t) ==
  blacklist' = [blacklist EXCEPT ![t] = now + BlacklistLife]

(* _add_to_blacklist: Redis, or else the set of the process; both when the *)
(* answer of Redis is lost.                                                *)
Revoke(p) ==
  /\ req[p].pc = "revoke"
  /\ LET t == req[p].token IN
     /\ \/ client[p] /\ redisUp /\ BlacklistInRedis(t) /\ UNCHANGED memory
        \/ client[p] /\ redisUp /\ BlacklistInRedis(t)
             /\ memory' = [memory EXCEPT ![p] = @ \cup {t}]
        \/ ~(client[p] /\ redisUp) /\ UNCHANGED blacklist
             /\ memory' = [memory EXCEPT ![p] = @ \cup {t}]
     /\ revoked' = revoked \cup {t}
  /\ Finish(p)
  /\ UNCHANGED <<now, redisUp, client, owner, token, steady>>

-----------------------------------------------------------------------------
(***************************************************************************)
(* The processes and their surroundings                                    *)
(***************************************************************************)

(* gunicorn replaces a process (also after 1000 requests): it looks for    *)
(* Redis once (RedisManager.init_app).                                     *)
Restart(p) ==
  /\ client' = [client EXCEPT ![p] = redisUp]
  /\ memory' = [memory EXCEPT ![p] = {}]
  /\ steady' = (steady /\ redisUp)
  /\ Finish(p)
  /\ UNCHANGED <<now, redisUp, blacklist, owner, token, revoked>>

(* Redis goes away, or comes back. *)
RedisChanges ==
  /\ redisUp' = ~redisUp
  /\ steady' = FALSE
  /\ UNCHANGED <<now, client, blacklist, memory, owner, token, req, revoked>>

Evict(t) ==
  /\ redisUp /\ blacklist[t] > now
  /\ blacklist' = [blacklist EXCEPT ![t] = 0]
  /\ steady' = FALSE
  /\ UNCHANGED <<now, redisUp, client, memory, owner, token, req, revoked>>

Tick ==
  /\ now < MaxTime
  /\ now' = now + 1
  /\ UNCHANGED <<redis, owner, token, req, revoked, steady>>

Init ==
  /\ up \in SUBSET Process
  /\ now = 0
  /\ redisUp \in BOOLEAN
  /\ client = [p \in Process |-> redisUp]
  /\ blacklist = [t \in Token |-> 0]
  /\ memory = [p \in Process |-> {}]
  /\ owner = [u \in User |-> Nobody]
  /\ token = [t \in Token |-> Unused]
  /\ req = [p \in Process |-> Idle]
  /\ revoked = {}
  /\ steady = TRUE

Begin(p) ==
  \/ \E u \in User : Register(p, u) \/ Login(p, u)
  \/ \E t \in Token : Refresh(p, t) \/ Logout(p, t)

Step(p) ==
  \/ InsertUser(p)
  \/ IssueTokens(p)
  \/ IssueAccessToken(p)
  \/ Revoke(p)

Next ==
  /\ UNCHANGED up
  /\ \/ \E p \in up : Begin(p) \/ Step(p) \/ Restart(p)
     \/ \E t \in Token : Evict(t)
     \/ RedisChanges
     \/ Tick

Spec == Init /\ [][Next]_vars

-----------------------------------------------------------------------------
(***************************************************************************)
(* Properties                                                              *)
(***************************************************************************)

TypeOK ==
  /\ up \subseteq Process
  /\ now \in Nat
  /\ redisUp \in BOOLEAN
  /\ client \in [Process -> BOOLEAN]
  /\ blacklist \in [Token -> Nat]
  /\ memory \in [Process -> SUBSET Token]
  /\ owner \in [User -> Process \cup {Nobody}]
  /\ token \in [Token -> Issued \cup {Unused}]
  /\ req \in [Process -> Request \cup {Idle}]
  /\ revoked \subseteq Token
  /\ steady \in BOOLEAN

OneProcess == \A p, q \in up : p = q

(* A token whose logout was executed is refused by every process until it  *)
(* expires: with Redis whatever the processes do, restart included, and    *)
(* without Redis as long as there is one process and it is not restarted.  *)
(* The entry in Redis must outlive the token.                              *)
RevokedIsRefused ==
  steady /\ (redisUp \/ OneProcess)
    => \A p \in up, t \in revoked : ~Accepted(p, t)

(* Two people who register the same address at the same time: whoever is   *)
(* first keeps the account.                                                *)
AccountKeepsOwner ==
  [][\A u \in User : owner[u] # Nobody => owner'[u] = owner[u]]_vars
=============================================================================
