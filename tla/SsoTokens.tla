------------------------------ MODULE SsoTokens -------------------------------
(***************************************************************************)
(* The refresh tokens of Azure AD identities: the task that refreshes the  *)
(* expiring ones in batches, the one that refreshes a single user's, and   *)
(* the one that removes those that are too old (tasks/sso_tasks.py), the   *)
(* users who refresh theirs, log in and log out (routes/sso_auth.py), and  *)
(* Azure AD.                                                               *)
(*                                                                         *)
(* An exchange at Azure AD and the commit of what it returned are two      *)
(* steps.  A batch commits once, at its end; what it has saved is flushed  *)
(* by the query for the next identity, and these rows are locked until     *)
(* then.  A batch that fails is put into the queue again, twice: by the    *)
(* handler of the identity, and by the handler of the exception that the   *)
(* first one raises.                                                       *)
(*                                                                         *)
(* Outside: Azure AD, which invalidates a token that is used when it       *)
(* rotates them, and may revoke tokens; the broker, which delivers the     *)
(* message of a crashed worker again (acks_late).                          *)
(***************************************************************************)
EXTENDS Naturals, FiniteSets

CONSTANTS
  Identity,    \* user_azure_identities
  Celery,      \* processes for the queue sso
  MaxRetries,  \* max_retries of the task
  MaxEvents,   \* bound: logins, logouts, refreshes that users ask for,
               \* cleanups, crashes, revocations, and exchanges that fail
               \* or are answered without a new refresh token
  Acting,      \* bound: of these the users ask for a refresh, log in or
               \* log out, and the tokens are revoked
  MinEnabled,  \* bound: of so many identities the configuration is enabled
  MaxToken,    \* bound: as many tokens of one identity are in use at once
  NoToken,     \* encrypted_refresh_token is NULL
  NoneToken    \* it is the text "None", which is no token of Azure AD

ASSUME BoundsAssumption ==
  MaxRetries \in Nat /\ MaxEvents \in Nat /\ MaxToken \in Nat \ {0}

ASSUME NoTokenAssumption ==
  NoToken \notin 1..MaxToken /\ NoneToken \notin 1..MaxToken \cup {NoToken}

ASSUME ActingAssumption == Acting \subseteq Identity

VARIABLES
  rotates,   \* Azure AD rotates refresh tokens
  enabled,   \* identities whose tenant has an enabled configuration
  stored,    \* stored[i]: the refresh token in the row of i
  valid,     \* valid[i]: the tokens of i that Azure AD accepts
  due,       \* identities whose access token expires within 30 minutes
  queue,     \* queue[r]: messages of the task with r retries behind them
  exec,      \* exec[w]: the batch worker w executes
  user,      \* user[i]: the request, or the task, that refreshes i's token
  cleaning,  \* the identities that the cleanup has loaded
  events,    \* logins, logouts and failures so far
  cut        \* history: identities whose exchanged token was lost or revoked

fixed == <<rotates, enabled>>

tokenVars ==
  <<fixed, stored, valid, due, queue, exec, user, cleaning, events, cut>>

Token == 1..MaxToken

Retries == 0..MaxRetries

Free == [pc |-> "idle"]

(* What the column may hold. *)
Column == Token \cup {NoToken, NoneToken}

(* `todo` are the identities that are left, `dirty` are exchanged and      *)
(* `flushed` also written; `copy` is the token of an identity that the     *)
(* session has in memory, to use it or to write it (NoToken: neither).     *)
Batch ==
  [pc : {"batch"}, retries : Retries, todo : SUBSET Identity,
   copy : [Identity -> Column],
   dirty : SUBSET Identity, flushed : SUBSET Identity]

(* It is made again `left` times if it fails. *)
Request(pc, copy, left) == [pc |-> pc, copy |-> copy, left |-> left]

UserRequest ==
  [pc : {"exchange"}, copy : Token \cup {NoneToken}, left : Retries]
  \cup [pc : {"commit"}, copy : Token \cup {NoToken}, left : Retries]
  \cup [pc : {"retry"}, copy : {NoToken}, left : Retries]

Saved(w) ==
  IF exec[w] = Free THEN {} ELSE exec[w].dirty \cup exec[w].flushed

LockedBy(w, i) == exec[w] # Free /\ i \in exec[w].flushed

Locked(i) == \E w \in Celery : LockedBy(w, i)

(* The identities for which w has a new token. *)
Exchanged(w) == {i \in Saved(w) : exec[w].copy[i] # NoToken}

(* Someone has exchanged the token of i and not committed the new one.     *)
InFlight(i) ==
  \/ user[i].pc = "commit" /\ user[i].copy # NoToken
  \/ \E w \in Celery : i \in Exchanged(w)

(* Nobody has a token of i in memory. *)
Unshared(i) == user[i] = Free /\ \A w \in Celery : exec[w] = Free

InUse(i) ==
  {stored[i]}
  \cup {exec[w].copy[i] : w \in {v \in Celery : exec[v] # Free}}
  \cup (IF user[i] = Free THEN {} ELSE {user[i].copy})

FreshToken(i) == CHOOSE t \in Token \ InUse(i) : TRUE

(* What nobody has any more does not matter. *)
ForgetUnused == valid' = [i \in Identity |-> valid[i] \cap InUse(i)']

CanIssue(i) == Token \ InUse(i) # {}

(* Azure AD answers with the new token t; the used one stays valid unless  *)
(* it rotates them.                                                        *)
Issue(i, used, t) ==
  valid' = [valid EXCEPT ![i] =
              (@ \ (IF rotates THEN {used} ELSE {})) \cup {t}]

(* The exchanges of worker w are rolled back. *)
Lose(w) == cut' = IF rotates THEN cut \cup Exchanged(w) ELSE cut

Happens == events < MaxEvents /\ events' = events + 1

Enqueue(r, n) == queue' = [queue EXCEPT ![r] = @ + n]

-----------------------------------------------------------------------------
(***************************************************************************)
(* refresh_expiring_tokens                                                 *)
(***************************************************************************)

(* Every 15 minutes: the batch before has ended by then.                   *)
Schedule ==
  /\ \A r \in Retries : queue[r] = 0
  /\ \A w \in Celery : exec[w] = Free
  /\ Enqueue(0, 1)
  /\ UNCHANGED <<fixed, stored, valid, due, exec, user, cleaning, events, cut>>

Expiring == {i \in due : stored[i] # NoToken}

(* The expiring identities are loaded, with their tokens.                  *)
Receive(w, r) ==
  /\ exec[w] = Free
  /\ queue[r] > 0
  /\ queue' = [queue EXCEPT ![r] = @ - 1]
  /\ exec' = [exec EXCEPT ![w] =
       [pc |-> "batch", retries |-> r, todo |-> Expiring,
        copy |-> [i \in Identity |-> IF i \in Expiring THEN stored[i]
                                                       ELSE NoToken],
        dirty |-> {}, flushed |-> {}]]
  /\ UNCHANGED <<fixed, stored, valid, due, user, cleaning, events, cut>>

(* The query for the configuration of the next identity, or the commit,    *)
(* writes what was saved before: it waits for the row.                     *)
Flush(w) ==
  /\ exec[w] # Free
  /\ exec[w].dirty # {}
  /\ \A i \in exec[w].dirty, v \in Celery \ {w} : ~LockedBy(v, i)
  /\ exec' = [exec EXCEPT ![w].dirty = {},
                          ![w].flushed = @ \cup exec[w].dirty]
  /\ UNCHANGED <<fixed, stored, valid, due, queue, user, cleaning, events, cut>>

IsNext(w, i) ==
  exec[w] # Free /\ exec[w].dirty = {} /\ i \in exec[w].todo

PassOver(w, i) ==
  exec' = [exec EXCEPT ![w].todo = @ \ {i}, ![w].copy[i] = NoToken]

(* No enabled configuration: the identity is skipped. *)
Skip(w, i) ==
  /\ IsNext(w, i)
  /\ i \notin enabled
  /\ PassOver(w, i)
  /\ UNCHANGED <<fixed, stored, due, queue, user, cleaning, events, cut>>
  /\ ForgetUnused

(* The login that stored the row was given no refresh token: the identity  *)
(* is counted as failed, and nothing is retried.                           *)
FailWithoutToken(w, i) ==
  /\ IsNext(w, i)
  /\ i \in enabled
  /\ exec[w].copy[i] = NoneToken
  /\ PassOver(w, i)
  /\ UNCHANGED <<fixed, stored, due, queue, user, cleaning, events, cut>>
  /\ ForgetUnused

(* A bug: save_tokens keeps the token that was used. *)
ExchangeKeepingToken(w, i) ==
  /\ IsNext(w, i)
  /\ i \in enabled
  /\ exec[w].copy[i] \in valid[i]
  /\ CanIssue(i)
  /\ Issue(i, exec[w].copy[i], FreshToken(i))
  /\ exec' = [exec EXCEPT ![w].todo = @ \ {i}, ![w].dirty = {i}]
  /\ UNCHANGED <<fixed, stored, due, queue, user, cleaning, events, cut>>

Exchange(w, i) ==
  /\ IsNext(w, i)
  /\ i \in enabled
  /\ exec[w].copy[i] \in valid[i]
  /\ CanIssue(i)
  /\ Issue(i, exec[w].copy[i], FreshToken(i))
  /\ exec' = [exec EXCEPT ![w].todo = @ \ {i}, ![w].dirty = {i},
                          ![w].copy[i] = FreshToken(i)]
  /\ UNCHANGED <<fixed, stored, due, queue, user, cleaning, events, cut>>

(* Azure AD answers with an access token only, and the used token stays    *)
(* good.  save_tokens is given the refresh token that was read, so the     *)
(* UPDATE of the row leaves the column out.                                *)
ExchangeKept(w, i) ==
  /\ IsNext(w, i)
  /\ i \in enabled
  /\ exec[w].copy[i] \in valid[i]
  /\ Happens
  /\ exec' = [exec EXCEPT ![w].todo = @ \ {i}, ![w].dirty = {i},
                          ![w].copy[i] = NoToken]
  /\ UNCHANGED <<fixed, stored, due, queue, user, cleaning, cut>>
  /\ ForgetUnused

(* A bug: the last attempt ends at the first identity that fails, too. *)
EndBatch(w, i) ==
  /\ exec' = [exec EXCEPT ![w] = Free]
  /\ Lose(w)
  /\ IF exec[w].retries < MaxRetries
     THEN Enqueue(exec[w].retries + 1, 2) ELSE UNCHANGED queue

(* A bug: the retry of a retry goes through all its identities again. *)
RetryThrice(w, i) ==
  IF exec[w].retries < MaxRetries
  THEN /\ exec' = [exec EXCEPT ![w] = Free]
       /\ Enqueue(exec[w].retries + 1, 3)
       /\ Lose(w)
  ELSE /\ PassOver(w, i)
       /\ UNCHANGED <<queue, cut>>

(* An identity that fails ends the batch and has it retried, except in the *)
(* last attempt, which goes on with the next identity.                     *)
FailIdentity(w, i) ==
  IF exec[w].retries < MaxRetries
  THEN /\ exec' = [exec EXCEPT ![w] = Free]
       /\ Enqueue(exec[w].retries + 1, 2)
       /\ Lose(w)
  ELSE /\ PassOver(w, i)
       /\ UNCHANGED <<queue, cut>>

(* Azure AD refuses the token. *)
ExchangeRefused(w, i) ==
  /\ IsNext(w, i)
  /\ i \in enabled
  /\ exec[w].copy[i] \notin valid[i] \cup {NoneToken}
  /\ FailIdentity(w, i)
  /\ UNCHANGED <<fixed, stored, due, user, cleaning, events>>
  /\ ForgetUnused

(* Azure AD cannot be reached, or its answer has no access token, which is *)
(* only counted.                                                           *)
ExchangeFails(w, i) ==
  /\ IsNext(w, i)
  /\ i \in enabled
  /\ exec[w].copy[i] \in valid[i]
  /\ Happens
  /\ FailIdentity(w, i) \/ (PassOver(w, i) /\ UNCHANGED <<queue, cut>>)
  /\ UNCHANGED <<fixed, stored, due, user, cleaning>>
  /\ ForgetUnused

(* PostgreSQL ends one of two batches that wait for each other: it fails   *)
(* at the next identity, or at the commit, which retries it only once; the *)
(* last attempt has nothing left to commit either.                         *)
Deadlock(w) ==
  /\ exec[w] # Free
  /\ \E v \in Celery \ {w}, i \in exec[w].dirty :
       /\ LockedBy(v, i)
       /\ \E j \in exec[v].dirty : LockedBy(w, j)
  /\ exec' = [exec EXCEPT ![w] = Free]
  /\ Lose(w)
  /\ IF exec[w].retries < MaxRetries
     THEN Enqueue(exec[w].retries + 1,
                  IF exec[w].todo = {} THEN 1 ELSE 2)
     ELSE UNCHANGED queue
  /\ UNCHANGED <<fixed, stored, due, user, cleaning, events>>
  /\ ForgetUnused

CommitBatch(w) ==
  /\ exec[w] # Free
  /\ exec[w].todo = {} /\ exec[w].dirty = {}
  /\ stored' = [i \in Identity |-> IF i \in Exchanged(w)
                                   THEN exec[w].copy[i] ELSE stored[i]]
  /\ due' = due \ exec[w].flushed
  /\ exec' = [exec EXCEPT ![w] = Free]
  /\ UNCHANGED <<fixed, queue, user, cleaning, events, cut>>
  /\ ForgetUnused

Crash(w) ==
  /\ exec[w] # Free
  /\ Happens
  /\ exec' = [exec EXCEPT ![w] = Free]
  /\ Enqueue(exec[w].retries, 1)
  /\ Lose(w)
  /\ UNCHANGED <<fixed, stored, due, user, cleaning>>
  /\ ForgetUnused

-----------------------------------------------------------------------------
(***************************************************************************)
(* The users                                                               *)
(***************************************************************************)

(* POST .../azure/refresh: the token is read, exchanged, and committed (it *)
(* is sent to Azure AD even if it is the text "None").                     *)
(* Bound: one such request at a time.                                      *)
StartRefresh(i) ==
  /\ \A j \in Identity : user[j] = Free
  /\ Happens
  /\ i \in Acting \cap enabled
  /\ stored[i] # NoToken
  /\ user' = [user EXCEPT ![i] = Request("exchange", stored[i], 0)]
  /\ UNCHANGED <<fixed, stored, valid, due, queue, exec, cleaning, cut>>

(* It may be used, and the task refreshes it.                              *)
Refreshable(i) == i \in Expiring \cap enabled /\ stored[i] # NoneToken

(* The task refresh_user_token, which nothing in the repository queues; it *)
(* ends at once if the access token is good yet, or without a token.       *)
StartTask(i) ==
  /\ \A j \in Identity : user[j] = Free
  /\ Happens
  /\ i \in Acting /\ Refreshable(i)
  /\ user' = [user EXCEPT ![i] = Request("exchange", stored[i], MaxRetries)]
  /\ UNCHANGED <<fixed, stored, valid, due, queue, exec, cleaning, cut>>

(* Its retry reads the row again: there may be nothing to refresh by now.  *)
RetryTask(i) ==
  /\ user[i].pc = "retry"
  /\ \/ user' = [user EXCEPT ![i] = Free]
     \/ /\ Refreshable(i)
        /\ user' = [user EXCEPT ![i] =
                      Request("exchange", stored[i], user[i].left)]
  /\ UNCHANGED <<fixed, stored, valid, due, queue, exec, cleaning, events, cut>>

ExchangeForUser(i) ==
  /\ user[i].pc = "exchange"
  /\ user[i].copy \in valid[i]
  /\ CanIssue(i)
  /\ Issue(i, user[i].copy, FreshToken(i))
  /\ user' = [user EXCEPT ![i].pc = "commit", ![i].copy = FreshToken(i)]
  /\ UNCHANGED <<fixed, stored, due, queue, exec, cleaning, events, cut>>

(* The answer has no new refresh token, and the column is left as it is.   *)
KeepForUser(i) ==
  /\ user[i].pc = "exchange"
  /\ user[i].copy \in valid[i]
  /\ Happens
  /\ user' = [user EXCEPT ![i].pc = "commit", ![i].copy = NoToken]
  /\ UNCHANGED <<fixed, stored, due, queue, exec, cleaning, cut>>
  /\ ForgetUnused

(* Azure AD refuses the token, or cannot be reached: the task is retried.  *)
RefreshFails(i) ==
  /\ user[i].pc = "exchange"
  /\ \/ user[i].copy \notin valid[i] /\ UNCHANGED events
     \/ user[i].copy \in valid[i] /\ Happens
  /\ user' = [user EXCEPT ![i] = IF user[i].left = 0 THEN Free
                        ELSE Request("retry", NoToken, user[i].left - 1)]
  /\ UNCHANGED <<fixed, stored, due, queue, exec, cleaning, cut>>
  /\ ForgetUnused

(* save_tokens writes back whatever happened to the row in between.        *)
CommitRefresh(i) ==
  /\ user[i].pc = "commit"
  /\ ~Locked(i)
  /\ stored' = [stored EXCEPT ![i] = IF user[i].copy = NoToken
                                     THEN @ ELSE user[i].copy]
  /\ due' = due \ {i}
  /\ user' = [user EXCEPT ![i] = Free]
  /\ UNCHANGED <<fixed, queue, exec, cleaning, events, cut>>
  /\ ForgetUnused

(* The login (SsoConfig) saves a token of its own. *)
Login(i) ==
  /\ Happens
  /\ i \in Acting \cap enabled
  /\ ~Locked(i)
  /\ CanIssue(i)
  /\ valid' = [valid EXCEPT ![i] = @ \cup {FreshToken(i)}]
  /\ stored' = [stored EXCEPT ![i] = FreshToken(i)]
  /\ due' = due \ {i}
  /\ cut' = IF Unshared(i) THEN cut \ {i} ELSE cut
  /\ UNCHANGED <<fixed, queue, exec, user, cleaning>>

(* Azure AD's answer has no refresh token: None is formatted into the      *)
(* column as a text.                                                       *)
LoginWithoutToken(i) ==
  /\ Happens
  /\ i \in Acting \cap enabled
  /\ ~Locked(i)
  /\ stored' = [stored EXCEPT ![i] = NoneToken]
  /\ due' = due \ {i}
  /\ UNCHANGED <<fixed, queue, exec, user, cleaning, cut>>
  /\ ForgetUnused

(* POST .../azure/logout: clear_tokens.                                    *)
Logout(i) ==
  /\ Happens
  /\ i \in Acting
  /\ stored[i] # NoToken
  /\ ~Locked(i)
  /\ stored' = [stored EXCEPT ![i] = NoToken]
  /\ due' = due \ {i}
  /\ UNCHANGED <<fixed, queue, exec, user, cleaning, cut>>
  /\ ForgetUnused

(* cleanup_expired_tokens: the identities saved more than 7 days ago are   *)
(* loaded, and their columns set to NULL, also those refreshed meanwhile.  *)
CleanUp ==
  /\ cleaning = {}
  /\ Happens
  /\ cleaning' \in SUBSET Expiring \ {{}}
  /\ UNCHANGED <<fixed, stored, valid, due, queue, exec, user, cut>>

CommitCleanUp ==
  /\ cleaning # {}
  /\ \A i \in cleaning : ~Locked(i)
  /\ stored' = [i \in Identity |-> IF i \in cleaning THEN NoToken
                                   ELSE stored[i]]
  /\ due' = due \ cleaning
  /\ cleaning' = {}
  /\ UNCHANGED <<fixed, queue, exec, user, events, cut>>
  /\ ForgetUnused

(* It stops, or PostgreSQL ends it when it and a batch wait for each other.*)
CleanUpFails ==
  /\ cleaning # {}
  /\ cleaning' = {}
  /\ UNCHANGED <<fixed, stored, valid, due, queue, exec, user, events, cut>>

(* Time passes. *)
Expire(i) ==
  /\ stored[i] # NoToken /\ i \notin due
  /\ due' = due \cup {i}
  /\ UNCHANGED <<fixed, stored, valid, queue, exec, user, cleaning>>
  /\ UNCHANGED <<events, cut>>

(* Azure AD revokes the tokens of a user (a new password, for example).    *)
Revoke(i) ==
  /\ i \in Acting
  /\ valid[i] # {}
  /\ Happens
  /\ valid' = [valid EXCEPT ![i] = {}]
  /\ cut' = cut \cup {i}
  /\ UNCHANGED <<fixed, stored, due, queue, exec, user, cleaning>>

TokensInit ==
  /\ rotates \in BOOLEAN
  /\ enabled \in {e \in SUBSET Identity : Cardinality(e) >= MinEnabled}
  /\ stored = [i \in Identity |-> 1]
  /\ valid = [i \in Identity |-> {1}]
  /\ due = {}
  /\ queue = [r \in Retries |-> 0]
  /\ exec = [w \in Celery |-> Free]
  /\ user = [i \in Identity |-> Free]
  /\ cleaning = {}
  /\ events = 0
  /\ cut = {}

BatchStep(w) ==
  \/ Flush(w)
  \/ \E i \in Identity : \/ Skip(w, i)
                       \/ FailWithoutToken(w, i)
                       \/ Exchange(w, i)
                       \/ ExchangeRefused(w, i)
  \/ Deadlock(w)
  \/ CommitBatch(w)

UserStep(i) ==
  \/ StartRefresh(i)
  \/ StartTask(i)
  \/ RetryTask(i)
  \/ ExchangeForUser(i)
  \/ KeepForUser(i)
  \/ RefreshFails(i)
  \/ CommitRefresh(i)
  \/ Login(i)
  \/ LoginWithoutToken(i)
  \/ Logout(i)

TokensNext ==
  \/ Schedule
  \/ \E w \in Celery :
       \/ \E r \in Retries : Receive(w, r)
       \/ BatchStep(w)
       \/ \E i \in Identity : ExchangeKept(w, i) \/ ExchangeFails(w, i)
       \/ Crash(w)
  \/ \E i \in Identity : UserStep(i) \/ Expire(i) \/ Revoke(i)
  \/ CleanUp \/ CommitCleanUp \/ CleanUpFails

TokensSpec == TokensInit /\ [][TokensNext]_tokenVars

(* Beat schedules, and the workers go on.                                  *)
FairSpec ==
  /\ TokensSpec
  /\ WF_tokenVars(Schedule)
  /\ \A w \in Celery : WF_tokenVars(\E r \in Retries : Receive(w, r))
  /\ \A w \in Celery : SF_tokenVars(BatchStep(w))

-----------------------------------------------------------------------------
(***************************************************************************)
(* Properties                                                              *)
(***************************************************************************)

TokensTypeOK ==
  /\ rotates \in BOOLEAN
  /\ enabled \subseteq Identity
  /\ stored \in [Identity -> Column]
  /\ valid \in [Identity -> SUBSET Token]
  /\ due \subseteq Identity
  /\ queue \in [Retries -> Nat]
  /\ exec \in [Celery -> Batch \cup {Free}]
  /\ user \in [Identity -> UserRequest \cup {Free}]
  /\ cleaning \subseteq Identity
  /\ events \in 0..MaxEvents
  /\ cut \subseteq Identity

(* A token that is stored can be used: whatever refreshes, logins and      *)
(* logouts of one identity meet, it is one that Azure AD accepts, unless   *)
(* an exchanged token was rolled back with its batch, or revoked.  (The    *)
(* text "None" that a login without a token stores is none.)               *)
StoredIsValid ==
  \A i \in Identity \ cut :
    stored[i] \in Token => stored[i] \in valid[i] \/ InFlight(i)

(* The retries of one scheduled batch are bounded: it is in the queue or   *)
(* executed with r retries behind it 2^r times at most, since a batch that *)
(* fails is put into the queue twice, whatever crashes.                    *)
AttemptsBounded ==
  \A r \in Retries :
    queue[r] + Cardinality({w \in Celery : exec[w] # Free
                                            /\ exec[w].retries = r}) <= 2 ^ r

(* One identity that fails does not keep the others from being refreshed   *)
(* forever: the last attempt goes through.  This needs tokens that can be  *)
(* used again; with rotation the earlier attempts have spoilt them.  (Who  *)
(* has no token is never refreshed, and stays due until the next login.)   *)
RefreshedDespiteOthers ==
  \A i \in Identity :
    ~rotates /\ i \in (enabled \cap due) \ cut /\ stored[i] \in Token
      ~> i \notin due \/ i \in cut
=============================================================================
