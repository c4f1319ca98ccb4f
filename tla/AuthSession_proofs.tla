-------------------------- MODULE AuthSession_proofs --------------------------
(***************************************************************************)
(* Proofs about AuthSession, for any processes, users, tokens and          *)
(* lifetimes of which those of a blacklist entry are the longer ones.      *)
(***************************************************************************)
EXTENDS AuthSession, TLAPS

-----------------------------------------------------------------------------
(***************************************************************************)
(* The inductive invariant                                                 *)
(***************************************************************************)

(* An access token never lives longer than one that is issued now. *)
AccessExpires ==
  \A t \in Token :
    token[t].kind = "access" => token[t].exp <= now + AccessLife

(* Only access tokens are revoked (jwt_required without refresh). *)
RevokesAccess ==
  /\ \A p \in Process :
       req[p].pc = "revoke" => token[req[p].token].kind = "access"
  /\ \A t \in revoked : token[t].kind = "access"

(* As long as nobody loses sight of the blacklist, every process uses the  *)
(* one in Redis, or none does.                                             *)
ClientsAgree == steady => \A p \in Process : client[p] = redisUp

(* The key in Redis outlives the token. *)
KeyOutlives ==
  steady /\ redisUp => \A t \in revoked : token[t].exp <= blacklist[t]

(* Without Redis the only process remembers all. *)
Remembers ==
  steady /\ ~redisUp /\ OneProcess => \A p \in up : revoked \subseteq memory[p]

IInv ==
  /\ TypeOK
  /\ AccessExpires
  /\ RevokesAccess
  /\ ClientsAgree
  /\ KeyOutlives
  /\ Remembers

-----------------------------------------------------------------------------
(* Type correctness *)

LEMMA InitType == Init => TypeOK
PROOF
  BY DEF Init, TypeOK

LEMMA BeginType ==
  ASSUME TypeOK, NEW p \in Process, UNCHANGED up, Begin(p)
  PROVE  TypeOK'
PROOF
  <1>1. ASSUME NEW u \in User, Register(p, u)
        PROVE  TypeOK'
    BY <1>1 DEF Register, TypeOK, redis, Request
  <1>2. ASSUME NEW u \in User, Login(p, u)
        PROVE  TypeOK'
    BY <1>2 DEF Login, TypeOK, redis, Request
  <1>3. ASSUME NEW t \in Token, Refresh(p, t)
        PROVE  TypeOK'
    <2>1. token[t] \in Issued
      BY <1>3 DEF Refresh, Accepted, Valid, TypeOK
    <2> QED
      BY <1>3, <2>1 DEF Refresh, TypeOK, redis, Request, Issued
  <1>4. ASSUME NEW t \in Token, Logout(p, t)
        PROVE  TypeOK'
    BY <1>4 DEF Logout, TypeOK, redis, Request
  <1> QED
    BY <1>1, <1>2, <1>3, <1>4 DEF Begin

(* What a request that goes on has. *)
LEMMA RequestFields ==
  ASSUME TypeOK, NEW p \in Process
  PROVE  /\ req[p].pc \in {"insert", "login", "refresh"} => req[p].user \in User
         /\ req[p].pc = "revoke" => req[p].token \in Token
PROOF
  BY DEF TypeOK, Request, Idle

LEMMA StepType ==
  ASSUME TypeOK, NEW p \in Process, UNCHANGED up, Step(p)
  PROVE  TypeOK'
PROOF
  <1>1. CASE InsertUser(p)
    BY <1>1, RequestFields DEF InsertUser, Finish, TypeOK, redis
  <1>2. CASE IssueTokens(p)
    <2>1. PICK a, r \in Token :
            token' = [token EXCEPT
               ![a] = [kind |-> "access", user |-> req[p].user,
                       exp |-> now + AccessLife],
               ![r] = [kind |-> "refresh", user |-> req[p].user,
                       exp |-> now + RefreshLife]]
      BY <1>2 DEF IssueTokens
    <2>2. /\ req[p].user \in User
          /\ now + AccessLife \in Nat /\ now + RefreshLife \in Nat
      BY <1>2, RequestFields, LivesAssumption DEF IssueTokens, TypeOK
    <2>3. token' \in [Token -> Issued \cup {Unused}]
      BY <2>1, <2>2 DEF TypeOK, Issued
    <2> QED
      BY <1>2, <2>3 DEF IssueTokens, Finish, TypeOK, redis
  <1>3. CASE IssueAccessToken(p)
    <2>1. PICK a \in Token :
            token' = [token EXCEPT
               ![a] = [kind |-> "access", user |-> req[p].user,
                       exp |-> now + AccessLife]]
      BY <1>3 DEF IssueAccessToken
    <2>2. req[p].user \in User /\ now + AccessLife \in Nat
      BY <1>3, RequestFields, LivesAssumption DEF IssueAccessToken, TypeOK
    <2>3. token' \in [Token -> Issued \cup {Unused}]
      BY <2>1, <2>2 DEF TypeOK, Issued
    <2> QED
      BY <1>3, <2>3 DEF IssueAccessToken, Finish, TypeOK, redis
  <1>4. CASE Revoke(p)
    <2>1. req[p].token \in Token /\ now + BlacklistLife \in Nat
      BY <1>4, RequestFields, LivesAssumption DEF Revoke, TypeOK
    <2>2. blacklist' \in [Token -> Nat] /\ memory' \in [Process -> SUBSET Token]
      BY <1>4, <2>1 DEF Revoke, BlacklistInRedis, TypeOK
    <2>3. revoked' \subseteq Token
      BY <1>4, <2>1 DEF Revoke, TypeOK
    <2> QED
      BY <1>4, <2>2, <2>3 DEF Revoke, Finish, TypeOK
  <1> QED
    BY <1>1, <1>2, <1>3, <1>4 DEF Step

LEMMA NextType == TypeOK /\ [Next]_vars => TypeOK'
PROOF
  <1> SUFFICES ASSUME TypeOK, [Next]_vars PROVE TypeOK'
    OBVIOUS
  <1>1. ASSUME NEW p \in up, UNCHANGED up, Begin(p) \/ Step(p)
        PROVE  TypeOK'
    BY <1>1, BeginType, StepType DEF TypeOK
  <1>2. ASSUME NEW p \in up, UNCHANGED up, Restart(p)
        PROVE  TypeOK'
    BY <1>2 DEF Restart, Finish, TypeOK
  <1>3. ASSUME NEW t \in Token, UNCHANGED up, Evict(t)
        PROVE  TypeOK'
    BY <1>3 DEF Evict, TypeOK
  <1>4. ASSUME UNCHANGED up, RedisChanges
        PROVE  TypeOK'
    BY <1>4 DEF RedisChanges, TypeOK
  <1>5. ASSUME UNCHANGED up, Tick
        PROVE  TypeOK'
    BY <1>5 DEF Tick, TypeOK, redis
  <1>6. CASE UNCHANGED vars
    BY <1>6 DEF vars, redis, TypeOK
  <1> QED
    BY <1>1, <1>2, <1>3, <1>4, <1>5, <1>6 DEF Next

(* Every reachable state is well typed: a token always has its user.       *)
THEOREM TypeCorrect == Spec => []TypeOK
PROOF
  BY InitType, NextType, PTL DEF Spec

-----------------------------------------------------------------------------
(* Revocation *)

LEMMA InitIInv == Init => IInv
PROOF
  BY InitType
  DEF Init, IInv, AccessExpires, RevokesAccess, ClientsAgree, KeyOutlives,
      Remembers, Idle, Unused

(* Whoever begins a request changes nothing the invariant is about, but    *)
(* that a logout takes an access token.                                    *)
LEMMA BeginKeeps ==
  ASSUME IInv, NEW p \in Process, UNCHANGED up, Begin(p)
  PROVE  IInv'
PROOF
  <1>1. TypeOK'
    BY BeginType DEF IInv
  <1>2. UNCHANGED <<now, redis, token, revoked, steady>>
    BY DEF Begin, Register, Login, Refresh, Logout
  <1>3. AccessExpires' /\ ClientsAgree' /\ KeyOutlives' /\ Remembers'
    BY <1>2
    DEF IInv, AccessExpires, ClientsAgree, KeyOutlives, Remembers, redis,
        OneProcess
  <1>4. \A q \in Process : q # p => req'[q] = req[q]
    BY DEF Begin, Register, Login, Refresh, Logout, IInv, TypeOK
  <1>5. req'[p].pc = "revoke" => token[req'[p].token].kind = "access"
    <2>1. ASSUME NEW u \in User, Register(p, u) \/ Login(p, u)
          PROVE  req'[p].pc # "revoke"
      BY <2>1 DEF Register, Login, IInv, TypeOK
    <2>2. ASSUME NEW t \in Token, Refresh(p, t)
          PROVE  req'[p].pc # "revoke"
      BY <2>2 DEF Refresh, IInv, TypeOK
    <2>3. ASSUME NEW t \in Token, Logout(p, t)
          PROVE  token[req'[p].token].kind = "access"
      BY <2>3 DEF Logout, IInv, TypeOK
    <2> QED
      BY <2>1, <2>2, <2>3 DEF Begin
  <1>6. RevokesAccess'
    BY <1>2, <1>4, <1>5 DEF IInv, RevokesAccess
  <1> QED
    BY <1>1, <1>3, <1>6 DEF IInv

(* A token is issued under a jti that was not used: those that were        *)
(* revoked, or are about to be, stay as they are.                          *)
LEMMA IssueKeeps ==
  ASSUME IInv, NEW p \in Process, UNCHANGED up,
         IssueTokens(p) \/ IssueAccessToken(p)
  PROVE  IInv'
PROOF
  <1>1. TypeOK'
    BY StepType DEF IInv, Step
  <1>2. /\ UNCHANGED <<now, redis, revoked, steady>>
        /\ req' = [req EXCEPT ![p] = Idle]
    BY DEF IssueTokens, IssueAccessToken, Finish
  <1>3. \A t \in Token :
          \/ token'[t] = token[t]
          \/ token[t] = Unused /\ token'[t].kind = "refresh"
          \/ token[t] = Unused /\ token'[t].exp = now + AccessLife
    BY DEF IssueTokens, IssueAccessToken, IInv, TypeOK
  <1>4. AccessExpires'
    BY <1>2, <1>3, LivesAssumption DEF IInv, TypeOK, AccessExpires
  <1>5. RevokesAccess'
    <2>1. \A t \in Token : token[t].kind = "access" => token'[t] = token[t]
      BY <1>3 DEF Unused
    <2>2. \A q \in Process :
            req'[q].pc = "revoke" => q # p /\ req'[q] = req[q]
      BY <1>2 DEF IInv, TypeOK, Idle
    <2>3. \A q \in Process : req[q].pc = "revoke" => req[q].token \in Token
      BY RequestFields DEF IInv
    <2> QED
      BY <1>2, <2>1, <2>2, <2>3 DEF IInv, TypeOK, RevokesAccess
  <1>6. KeyOutlives'
    <2>1. \A t \in revoked : token'[t] = token[t]
      BY <1>3 DEF IInv, TypeOK, RevokesAccess, Unused
    <2> QED
      BY <1>2, <2>1 DEF IInv, KeyOutlives, redis
  <1>7. ClientsAgree' /\ Remembers'
    BY <1>2 DEF IInv, ClientsAgree, Remembers, redis, OneProcess
  <1> QED
    BY <1>1, <1>4, <1>5, <1>6, <1>7 DEF IInv

(* A logout leaves a key that outlives the token, or a note in the memory  *)
(* of the one process.                                                     *)
LEMMA RevokeKeeps ==
  ASSUME IInv, NEW p \in up, UNCHANGED up, Revoke(p)
  PROVE  IInv'
PROOF
  <1> DEFINE t == req[p].token
  <1>0. p \in Process
    BY DEF IInv, TypeOK
  <1>1. TypeOK'
    BY <1>0, StepType DEF IInv, Step
  <1>2. /\ UNCHANGED <<now, redisUp, client, token, steady>>
        /\ req' = [req EXCEPT ![p] = Idle]
        /\ revoked' = revoked \cup {t}
    BY DEF Revoke, Finish
  <1>3. t \in Token /\ token[t].kind = "access"
    BY <1>0, RequestFields DEF Revoke, IInv, RevokesAccess
  <1>4. AccessExpires' /\ ClientsAgree'
    BY <1>2 DEF IInv, AccessExpires, ClientsAgree
  <1>5. RevokesAccess'
    BY <1>0, <1>2, <1>3 DEF IInv, TypeOK, RevokesAccess, Idle
  <1>6. KeyOutlives'
    <2> SUFFICES ASSUME steady, redisUp
                 PROVE  \A u \in revoked' : token[u].exp <= blacklist'[u]
      BY <1>2 DEF KeyOutlives
    <2>1. client[p]
      BY <1>0 DEF IInv, TypeOK, ClientsAgree
    <2>2. blacklist' = [blacklist EXCEPT ![t] = now + BlacklistLife]
      BY <2>1 DEF Revoke, BlacklistInRedis
    <2>3. token[t] \in Issued
      BY <1>3 DEF IInv, TypeOK, Unused
    <2>4. token[t].exp <= now + BlacklistLife
      BY <1>3, <2>3, LivesAssumption DEF IInv, TypeOK, AccessExpires, Issued
    <2>5. \A u \in revoked : token[u].exp <= blacklist[u]
      BY DEF IInv, KeyOutlives
    <2> QED
      BY <1>2, <1>3, <2>2, <2>4, <2>5 DEF IInv, TypeOK
  <1>7. Remembers'
    <2> SUFFICES ASSUME steady, ~redisUp, OneProcess
                 PROVE  \A q \in up : revoked' \subseteq memory'[q]
      BY <1>2 DEF Remembers, OneProcess
    <2>1. memory' = [memory EXCEPT ![p] = @ \cup {t}]
      BY DEF Revoke
    <2>2. revoked \subseteq memory[p]
      BY DEF IInv, Remembers
    <2>3. revoked' \subseteq memory'[p]
      BY <1>0, <1>2, <2>1, <2>2 DEF IInv, TypeOK
    <2> QED
      BY <2>3 DEF OneProcess
  <1> QED
    BY <1>1, <1>4, <1>5, <1>6, <1>7 DEF IInv

LEMMA InsertUserKeeps ==
  ASSUME IInv, NEW p \in Process, UNCHANGED up, InsertUser(p)
  PROVE  IInv'
PROOF
  <1>1. TypeOK'
    BY StepType DEF IInv, Step
  <1>2. /\ UNCHANGED <<now, redis, token, revoked, steady>>
        /\ req' = [req EXCEPT ![p] = Idle]
    BY DEF InsertUser, Finish
  <1>3. RevokesAccess'
    BY <1>2 DEF IInv, TypeOK, RevokesAccess, Idle
  <1> QED
    BY <1>1, <1>2, <1>3
    DEF IInv, AccessExpires, ClientsAgree, KeyOutlives, Remembers, redis,
        OneProcess

(* A process that is replaced looks for Redis again, and forgets what it   *)
(* remembers: without Redis that is the end of `steady`.                   *)
LEMMA RestartKeeps ==
  ASSUME IInv, NEW p \in Process, UNCHANGED up, Restart(p)
  PROVE  IInv'
PROOF
  <1>1. /\ UNCHANGED <<now, redisUp, blacklist, token, revoked>>
        /\ req' = [req EXCEPT ![p] = Idle]
        /\ client' = [client EXCEPT ![p] = redisUp]
        /\ steady' = (steady /\ redisUp)
    BY DEF Restart, Finish
  <1>2. TypeOK'
    BY DEF Restart, Finish, IInv, TypeOK
  <1>3. RevokesAccess'
    BY <1>1 DEF IInv, TypeOK, RevokesAccess, Idle
  <1>4. AccessExpires'
    BY <1>1 DEF IInv, AccessExpires
  <1>5. ClientsAgree'
    BY <1>1 DEF IInv, TypeOK, ClientsAgree
  <1>6. KeyOutlives'
    BY <1>1 DEF IInv, KeyOutlives
  <1>7. Remembers'
    BY <1>1 DEF Remembers
  <1> QED
    BY <1>2, <1>3, <1>4, <1>5, <1>6, <1>7 DEF IInv

(* What happens to Redis ends `steady`; time only brings expiries closer.  *)
LEMMA SurroundingsKeep ==
  ASSUME IInv, UNCHANGED up,
         RedisChanges \/ Tick \/ \E t \in Token : Evict(t)
  PROVE  IInv'
PROOF
  <1>1. CASE RedisChanges
    BY <1>1
    DEF RedisChanges, IInv, TypeOK, AccessExpires, RevokesAccess,
        ClientsAgree, KeyOutlives, Remembers
  <1>2. ASSUME NEW t \in Token, Evict(t)
        PROVE  IInv'
    BY <1>2
    DEF Evict, IInv, TypeOK, AccessExpires, RevokesAccess, ClientsAgree,
        KeyOutlives, Remembers
  <1>3. CASE Tick
    <2>1. AccessExpires'
      <3>1. \A t \in Token : token[t].kind = "access" => token[t].exp \in Nat
        BY DEF IInv, TypeOK, Issued, Unused
      <3> QED
        BY <1>3, <3>1, LivesAssumption DEF Tick, IInv, TypeOK, AccessExpires
    <2> QED
      BY <1>3, <2>1
      DEF Tick, redis, IInv, TypeOK, RevokesAccess, ClientsAgree, KeyOutlives,
          Remembers, OneProcess
  <1> QED
    BY <1>1, <1>2, <1>3

LEMMA NextIInv == IInv /\ [Next]_vars => IInv'
PROOF
  <1> SUFFICES ASSUME IInv, [Next]_vars PROVE IInv'
    OBVIOUS
  <1>1. ASSUME NEW p \in up, UNCHANGED up,
               Begin(p) \/ Step(p) \/ Restart(p)
        PROVE  IInv'
    <2>1. p \in Process
      BY DEF IInv, TypeOK
    <2> QED
      BY <1>1, <2>1, BeginKeeps, InsertUserKeeps, IssueKeeps, RevokeKeeps,
         RestartKeeps DEF Step
  <1>2. CASE UNCHANGED vars
    BY <1>2
    DEF vars, redis, IInv, TypeOK, AccessExpires, RevokesAccess, ClientsAgree,
        KeyOutlives, Remembers, OneProcess
  <1> QED
    BY <1>1, <1>2, SurroundingsKeep DEF Next

(* A token whose logout was executed is refused until it expires, by all   *)
(* processes that share a Redis which neither went away nor evicted a key, *)
(* and by the only process without one (is_token_blacklisted).             *)
THEOREM RevokedStayRefused == Spec => []RevokedIsRefused
PROOF
  <1>1. IInv => RevokedIsRefused
    <2> SUFFICES ASSUME IInv, steady, redisUp \/ OneProcess,
                        NEW p \in up, NEW t \in revoked
                 PROVE  ~Accepted(p, t)
      BY DEF RevokedIsRefused
    <2>1. p \in Process /\ t \in Token /\ client[p] = redisUp
      BY DEF IInv, TypeOK, ClientsAgree
    <2>2. CASE redisUp
      <3>1. token[t] \in Issued
        BY <2>1 DEF IInv, TypeOK, RevokesAccess, Unused
      <3>2. token[t].exp <= blacklist[t]
        BY <2>2 DEF IInv, KeyOutlives
      <3> QED
        BY <2>1, <2>2, <3>1, <3>2
        DEF IInv, TypeOK, Issued, Accepted, Valid, Blacklisted
    <2>3. CASE ~redisUp
      BY <2>1, <2>3 DEF IInv, Remembers, Accepted, Blacklisted
    <2> QED
      BY <2>2, <2>3
  <1> QED
    BY <1>1, InitIInv, NextIInv, PTL DEF Spec

(* Whoever registers an address first keeps the account (the e-mail        *)
(* address is unique).                                                     *)
THEOREM OwnersStay == Spec => AccountKeepsOwner
PROOF
  <1>1. TypeOK /\ [Next]_vars
          => [\A u \in User : owner[u] # Nobody => owner'[u] = owner[u]]_vars
    <2> SUFFICES ASSUME TypeOK, Next, NEW u \in User, owner[u] # Nobody
                 PROVE  owner'[u] = owner[u]
      OBVIOUS
    <2>1. ASSUME NEW p \in up, Begin(p) \/ Step(p) \/ Restart(p)
          PROVE  owner'[u] = owner[u]
      <3>1. CASE InsertUser(p)
        <4>1. CASE owner[req[p].user] = Nobody
          <5>1. req[p].user # u
            BY <4>1
          <5> QED
            BY <3>1, <4>1, <5>1 DEF InsertUser, TypeOK
        <4>2. CASE owner[req[p].user] # Nobody
          BY <3>1, <4>2 DEF InsertUser
        <4> QED
          BY <4>1, <4>2
      <3> QED
        BY <2>1, <3>1
        DEF Begin, Register, Login, Refresh, Logout, Step, IssueTokens,
            IssueAccessToken, Revoke, Restart
    <2> QED
      BY <2>1 DEF Next, Evict, RedisChanges, Tick
  <1> QED
    BY <1>1, TypeCorrect, PTL DEF Spec, AccountKeepsOwner
===============================================================================
