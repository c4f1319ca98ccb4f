---------------------------- MODULE SsoLogin_proofs ----------------------------
(***************************************************************************)
(* Proofs about SsoLogin, for any numbers of logins, tenants, processes,   *)
(* slots and changes.                                                      *)
(***************************************************************************)
EXTENDS SsoLogin, TLAPS

-----------------------------------------------------------------------------
(* Sessions belong to the logins they were stored for                      *)

(* A session with a state has the tenant of the login of that state.       *)
Sound(c) ==
  c.state # None =>
    login[c.state] # NotBegun /\ c.tenant = login[c.state].tenant

(* Until the browser has been redirected there is only that one request of *)
(* a login; a request that has validated its state goes on with the tenant *)
(* its login was begun for.                                                *)
RequestSound(s) ==
  req[s] # Free =>
    /\ login[req[s].login] # NotBegun
    /\ Sound(req[s].session)
    /\ req[s].pc = "redirect" <=> login[req[s].login].pc = "redirect"
    /\ req[s].pc = "redirect" =>
         /\ req[s].session.state = req[s].login
         /\ \A q \in Slot :
              req[q] # Free /\ req[q].login = req[s].login => q = s
    /\ req[s].pc = "delete" => req[s].session.state # None
    /\ req[s].pc \in {"exchange", "process"} =>
         req[s].tenant = login[req[s].login].tenant

SoundInv ==
  /\ TypeOK
  /\ Sound(cookie)
  /\ \A s \in Slot : RequestSound(s)
  /\ \A l \in Login :
       completed[l] # None =>
         login[l] # NotBegun /\ completed[l] = login[l].tenant

LEMMA InitSound == Init => SoundInv
  BY MaxChangesAssumption
  DEF Init, SoundInv, TypeOK, Sound, RequestSound, Session, NoSession, Begun,
      NotBegun, InFlight, Free

(* The two forms of a request.                                             *)
LEMMA InFlightForms ==
  ASSUME SoundInv, NEW s \in Slot, req[s] # Free
  PROVE  /\ req[s] \in InFlight
         /\ req[s].login \in Login /\ req[s].session \in Session
         /\ req[s].pc \in {"redirect", "retrieve", "delete", "answer",
                           "exchange", "process"}
         /\ req[s].pc \in {"exchange", "process"} =>
              /\ req[s].tenant \in Tenant
              /\ req[s].verifier \in Login \cup {None}
  BY DEF SoundInv, TypeOK, InFlight, Free

LEMMA NotFree ==
  ASSUME NEW r, r.pc # "free"
  PROVE  r # Free
  BY DEF Free

(* A login that has begun moves on and stays what it is.                   *)
LEMMA LoginMoves ==
  ASSUME SoundInv, NEW l \in Login, login[l] # NotBegun,
         NEW to \in {"redirect", "azure", "code", "called", "spent"},
         login' = [login EXCEPT ![l].pc = to]
  PROVE  /\ login' \in [Login -> Begun \cup {NotBegun}]
         /\ login'[l].pc = to
         /\ \A k \in Login \ {l} : login'[k] = login[k]
         /\ \A k \in Login :
              login[k] # NotBegun =>
                /\ login'[k] # NotBegun
                /\ login'[k].tenant = login[k].tenant
                /\ login'[k].challenged = login[k].challenged
  <1>1. login[l] \in Begun /\ login \in [Login -> Begun \cup {NotBegun}]
    BY DEF SoundInv, TypeOK
  <1>2. login' = [login EXCEPT ![l] = [login[l] EXCEPT !.pc = to]]
    BY <1>1
  <1>3. /\ [login[l] EXCEPT !.pc = to] \in Begun
        /\ [login[l] EXCEPT !.pc = to].pc = to
        /\ [login[l] EXCEPT !.pc = to].tenant = login[l].tenant
        /\ [login[l] EXCEPT !.pc = to].challenged = login[l].challenged
    BY <1>1 DEF Begun
  <1>4. \A b \in Begun : b # NotBegun
    BY DEF Begun, NotBegun
  <1>5. QED
    BY <1>1, <1>2, <1>3, <1>4

(* The sessions there are stay sound when logins move on.                  *)
LEMMA SoundKept ==
  ASSUME NEW c \in Session, Sound(c),
         \A k \in Login :
           login[k] # NotBegun =>
             login'[k] # NotBegun /\ login'[k].tenant = login[k].tenant
  PROVE  c.state # None =>
           login'[c.state] # NotBegun /\ c.tenant = login'[c.state].tenant
  BY DEF Sound, Session

(* A request that goes on, while its login stays where it is.              *)
LEMMA ContinueSound ==
  ASSUME SoundInv, NEW s \in Slot, req[s] # Free,
         NEW r \in InFlight, req' = [req EXCEPT ![s] = r],
         r.login = req[s].login, Sound(r.session),
         req[s].pc # "redirect", r.pc # "redirect",
         r.pc = "delete" => r.session.state # None,
         r.pc \in {"exchange", "process"} => r.tenant = login[r.login].tenant,
         UNCHANGED <<client, config, cookie, login, completed>>,
         redis' \subseteq Login, changes' \in 0..MaxChanges,
         redeemed' \subseteq Login, refused' \subseteq Login,
         upset' \subseteq Login
  PROVE  SoundInv'
  <1>1. TypeOK'
    BY DEF SoundInv, TypeOK
  <1>2. /\ req'[s] = r /\ \A q \in Slot \ {s} : req'[q] = req[q]
    BY DEF SoundInv, TypeOK
  <1>3. RequestSound(s)'
    BY <1>2 DEF SoundInv, RequestSound, Sound
  <1>4. ASSUME NEW q \in Slot \ {s}
        PROVE  RequestSound(q)'
    BY <1>2, <1>4 DEF SoundInv, RequestSound, Sound
  <1>5. QED
    BY <1>1, <1>3, <1>4 DEF SoundInv, Sound

(* What validate_state_token and the reads after it leave in the slot.     *)
LEMMA ValidateResult ==
  ASSUME SoundInv, NEW s \in Slot, req[s].pc \in {"retrieve", "delete"},
         NEW c \in Session, c.state = None,
         NEW v \in Login \cup {None}, Validate(s, c, v)
  PROVE  \E r \in InFlight :
           /\ req' = [req EXCEPT ![s] = r]
           /\ r.login = req[s].login
           /\ r.session.state = None /\ r.session.verifier = c.verifier
           /\ \/ /\ r.pc = "answer"
                 /\ refused' = refused \cup {req[s].login}
                 /\ \/ ~StateMatches(s)
                    \/ c.tenant = None
                    \/ config[c.tenant] = "none"
              \/ /\ r.pc = "exchange"
                 /\ refused' = refused
                 /\ StateMatches(s)
                 /\ r.tenant = c.tenant
                 /\ r.verifier = v /\ r.mode = config[c.tenant]
  <1>1. req[s].login \in Login
    BY NotFree, InFlightForms
  <1>2. DEFINE e == [c EXCEPT !.tenant = None]
  <1>3. /\ e \in Session /\ e.state = None /\ e.verifier = c.verifier
        /\ e.tenant = None /\ c.tenant \in Tenant \cup {None}
        /\ c = [c EXCEPT !.tenant = c.tenant]
    BY DEF Session
  <1>4. CASE ~StateMatches(s)
    <2> DEFINE r == [pc |-> "answer", login |-> req[s].login, session |-> c]
    <2>1. r \in InFlight
      BY <1>1 DEF InFlight
    <2>2. req' = [req EXCEPT ![s] = r] /\ refused' = refused \cup {r.login}
      BY <1>4 DEF Validate, Refuse
    <2>3. QED
      BY <1>3, <1>4, <2>1, <2>2
  <1>5. CASE StateMatches(s) /\ (c.tenant = None \/ config[c.tenant] = "none")
    <2> DEFINE r == [pc |-> "answer", login |-> req[s].login, session |-> e]
    <2>1. r \in InFlight
      BY <1>1, <1>3 DEF InFlight
    <2>2. req' = [req EXCEPT ![s] = r] /\ refused' = refused \cup {r.login}
      BY <1>5 DEF Validate, Refuse
    <2>3. QED
      BY <1>3, <1>5, <2>1, <2>2
  <1>6. CASE StateMatches(s) /\ c.tenant # None /\ config[c.tenant] # "none"
    <2> DEFINE r == [pc |-> "exchange", login |-> req[s].login,
                     tenant |-> c.tenant, mode |-> config[c.tenant],
                     verifier |-> v, session |-> e]
    <2>1. r \in InFlight
      BY <1>1, <1>3, <1>6 DEF InFlight, SoundInv, TypeOK
    <2>2. req' = [req EXCEPT ![s] = r] /\ refused' = refused
      BY <1>6 DEF Validate
    <2>3. QED
      BY <1>3, <1>6, <2>1, <2>2
  <1>7. QED
    BY <1>4, <1>5, <1>6

(* The session without its state, and without its verifier.                *)
LEMMA PoppedSession ==
  ASSUME NEW s \in Slot, req[s].session \in Session
  PROVE  /\ Popped(s) \in Session /\ Popped(s).state = None
         /\ Popped(s).tenant = req[s].session.tenant
         /\ Popped(s).verifier = req[s].session.verifier
         /\ [Popped(s) EXCEPT !.verifier = None] \in Session
         /\ [Popped(s) EXCEPT !.verifier = None].state = None
         /\ [Popped(s) EXCEPT !.verifier = None].tenant =
              req[s].session.tenant
         /\ [Popped(s) EXCEPT !.verifier = None].verifier = None
  BY DEF Popped, Session

LEMMA RetrieveSound ==
  ASSUME SoundInv, NEW s \in Slot, NEW p \in Process, Retrieve(s, p)
  PROVE  SoundInv'
  <1> DEFINE r == [req[s] EXCEPT !.pc = "delete"]
  <1>1. /\ req[s] # Free /\ req[s].login \in Login
        /\ req[s].session \in Session /\ req[s] \in InFlight
    BY NotFree, InFlightForms DEF Retrieve
  <1>2. /\ r \in InFlight /\ r.pc = "delete" /\ r.login = req[s].login
        /\ r.session = req[s].session
    BY <1>1 DEF Retrieve, InFlight
  <1>3. req' = [req EXCEPT ![s] = r]
    BY DEF Retrieve, SoundInv, TypeOK
  <1>4. Sound(r.session) /\ r.session.state # None
    BY <1>1, <1>2 DEF SoundInv, RequestSound, Retrieve
  <1>5. QED
    BY <1>1, <1>2, <1>3, <1>4, ContinueSound
    DEF Retrieve, outcome, SoundInv, TypeOK

LEMMA DeleteSound ==
  ASSUME SoundInv, NEW s \in Slot, Delete(s)
  PROVE  SoundInv'
  <1> DEFINE k == req[s].session.state
  <1>1. /\ req[s] # Free /\ req[s].login \in Login
        /\ req[s].session \in Session
    BY NotFree, InFlightForms DEF Delete
  <1>2. /\ k \in Login /\ login[k] # NotBegun
        /\ req[s].session.tenant = login[k].tenant
    BY <1>1 DEF SoundInv, RequestSound, Sound, Delete, Session
  <1>3. PICK v \in Login \cup {None} :
          /\ Validate(s, Popped(s), v)
          /\ req[s].pc \in {"retrieve", "delete"}
    BY <1>2 DEF Delete
  <1>3a. Popped(s) \in Session /\ Popped(s).state = None
    BY <1>1, PoppedSession
  <1>4. PICK r \in InFlight :
          /\ req' = [req EXCEPT ![s] = r]
          /\ r.login = req[s].login
          /\ r.session.state = None
          /\ r.session.verifier = Popped(s).verifier
          /\ \/ /\ r.pc = "answer"
                /\ refused' = refused \cup {req[s].login}
                /\ \/ ~StateMatches(s)
                   \/ Popped(s).tenant = None
                   \/ config[Popped(s).tenant] = "none"
             \/ /\ r.pc = "exchange"
                /\ refused' = refused
                /\ StateMatches(s)
                /\ r.tenant = Popped(s).tenant
                /\ r.verifier = v /\ r.mode = config[Popped(s).tenant]
    BY <1>3, <1>3a, ValidateResult
  <1>5. /\ Sound(r.session)
        /\ r.pc \in {"exchange", "process"} =>
             r.tenant = login[r.login].tenant
    BY <1>1, <1>2, <1>4, PoppedSession DEF Sound, StateMatches
  <1>6. redis' \subseteq Login /\ refused' \subseteq Login
    BY <1>1, <1>4 DEF Delete, SoundInv, TypeOK
  <1>7. QED
    BY <1>1, <1>4, <1>5, <1>6, ContinueSound
    DEF Delete, outcome, SoundInv, TypeOK

LEMMA RetrieveFromSessionSound ==
  ASSUME SoundInv, NEW s \in Slot, NEW p \in Process,
         RetrieveFromSession(s, p)
  PROVE  SoundInv'
  <1> DEFINE c == req[s].session
  <1>1. /\ req[s] # Free /\ req[s].login \in Login /\ c \in Session
    BY NotFree, InFlightForms DEF RetrieveFromSession
  <1>2. ASSUME NEW e \in Session, e.state = None, Refuse(s, e)
        PROVE  SoundInv'
    <2> DEFINE r == [pc |-> "answer", login |-> req[s].login, session |-> e]
    <2>1. r \in InFlight
      BY <1>1 DEF InFlight
    <2>2. Sound(r.session)
      BY <1>2 DEF Sound
    <2>3. QED
      BY <1>1, <1>2, <2>1, <2>2, ContinueSound
      DEF RetrieveFromSession, Refuse, outcome, SoundInv, TypeOK
  <1>3. CASE c.state = None
    BY <1>1, <1>2, <1>3 DEF RetrieveFromSession
  <1>4. CASE c.state # None /\ c.verifier = None
    BY <1>1, <1>2, <1>4, PoppedSession DEF RetrieveFromSession
  <1>5. CASE c.state # None /\ c.verifier # None
    <2>1. /\ c.state \in Login /\ c.verifier \in Login
          /\ c.tenant = login[c.state].tenant
      BY <1>1, <1>5 DEF SoundInv, RequestSound, Sound, Session
    <2>2. PICK e \in Session, v \in Login \cup {None} :
            /\ Validate(s, e, v)
            /\ e.state = None /\ e.tenant = c.tenant
            /\ req[s].pc \in {"retrieve", "delete"}
      BY <1>1, <1>5, <2>1, PoppedSession DEF RetrieveFromSession
    <2>3. PICK r \in InFlight :
            /\ req' = [req EXCEPT ![s] = r]
            /\ r.login = req[s].login
            /\ r.session.state = None
            /\ r.session.verifier = e.verifier
            /\ \/ /\ r.pc = "answer"
                  /\ refused' = refused \cup {req[s].login}
                  /\ \/ ~StateMatches(s)
                     \/ e.tenant = None
                     \/ config[e.tenant] = "none"
               \/ /\ r.pc = "exchange"
                  /\ refused' = refused
                  /\ StateMatches(s)
                  /\ r.tenant = e.tenant
                  /\ r.verifier = v
      BY <2>2, ValidateResult
    <2>4. /\ Sound(r.session)
          /\ r.pc \in {"exchange", "process"} =>
               r.tenant = login[r.login].tenant
      BY <1>1, <2>1, <2>2, <2>3 DEF Sound, StateMatches
    <2>5. refused' \subseteq Login
      BY <1>1, <2>3 DEF SoundInv, TypeOK
    <2>6. QED
      BY <1>1, <2>3, <2>4, <2>5, ContinueSound
      DEF RetrieveFromSession, outcome, SoundInv, TypeOK
  <1>6. QED
    BY <1>3, <1>4, <1>5

(* A refusal answers with a session that is sound.                         *)
LEMMA RefuseSound ==
  ASSUME SoundInv, NEW s \in Slot, req[s] # Free, req[s].pc # "redirect",
         NEW c \in Session, Sound(c), Refuse(s, c),
         UNCHANGED <<client, config, cookie, redis, login, outcome>>,
         changes' \in 0..MaxChanges, upset' \subseteq Login
  PROVE  SoundInv'
  <1> DEFINE r == [pc |-> "answer", login |-> req[s].login, session |-> c]
  <1>1. req[s].login \in Login
    BY InFlightForms
  <1>2. r \in InFlight
    BY <1>1 DEF InFlight
  <1>3. req' = [req EXCEPT ![s] = r] /\ refused' \subseteq Login
    BY <1>1 DEF Refuse, SoundInv, TypeOK
  <1>4. QED
    BY <1>2, <1>3, ContinueSound DEF outcome, SoundInv, TypeOK

LEMMA RetrieveFailsSound ==
  ASSUME SoundInv, NEW s \in Slot, NEW p \in Process, RetrieveFails(s, p)
  PROVE  SoundInv'
  <1>1. /\ req[s] # Free /\ req[s].login \in Login
        /\ req[s].session \in Session
    BY NotFree, InFlightForms DEF RetrieveFails
  <1>2. changes' \in 0..MaxChanges
    BY MaxChangesAssumption
    DEF RetrieveFails, Changes, SoundInv, TypeOK
  <1>3. PICK e \in Session : e.state = None /\ Refuse(s, e)
    BY <1>1, PoppedSession DEF RetrieveFails
  <1>4. QED
    BY <1>1, <1>2, <1>3, RefuseSound
    DEF RetrieveFails, Sound, SoundInv, TypeOK

LEMMA ExchangeSound ==
  ASSUME SoundInv, NEW s \in Slot, Exchange(s)
  PROVE  SoundInv'
  <1>1. /\ req[s] # Free /\ req[s] \in InFlight /\ req[s].login \in Login
        /\ req[s].session \in Session /\ Sound(req[s].session)
        /\ req[s].tenant = login[req[s].login].tenant
    BY NotFree, InFlightForms DEF Exchange, SoundInv, RequestSound
  <1>2. CASE Redeemable(s)
    <2> DEFINE r == [req[s] EXCEPT !.pc = "process"]
    <2>1. /\ r \in InFlight /\ r.pc = "process" /\ r.login = req[s].login
          /\ r.session = req[s].session /\ r.tenant = req[s].tenant
      BY <1>1 DEF Exchange, InFlight
    <2>2. /\ req' = [req EXCEPT ![s] = r]
          /\ redeemed' \subseteq Login
      BY <1>1, <1>2 DEF Exchange, SoundInv, TypeOK
    <2>3. QED
      BY <1>1, <1>2, <2>1, <2>2, ContinueSound
      DEF Exchange, SoundInv, TypeOK
  <1>3. CASE ~Redeemable(s)
    BY <1>1, <1>3, RefuseSound DEF Exchange, outcome, SoundInv, TypeOK
  <1>4. QED
    BY <1>2, <1>3

LEMMA RefuseClaimsSound ==
  ASSUME SoundInv, NEW s \in Slot, RefuseClaims(s)
  PROVE  SoundInv'
  <1>1. /\ req[s] # Free /\ req[s].login \in Login
        /\ req[s].session \in Session /\ Sound(req[s].session)
    BY NotFree, InFlightForms DEF RefuseClaims, SoundInv, RequestSound
  <1>2. QED
    BY <1>1, RefuseSound DEF RefuseClaims, SoundInv, TypeOK

LEMMA ProcessLoginSound ==
  ASSUME SoundInv, NEW s \in Slot, ProcessLogin(s)
  PROVE  SoundInv'
  <1> DEFINE r == [pc |-> "answer", login |-> req[s].login,
                   session |-> req[s].session]
             l == req[s].login
  <1>1. /\ req[s] # Free /\ l \in Login /\ req[s].tenant \in Tenant
        /\ req[s].session \in Session /\ Sound(req[s].session)
        /\ login[l] # NotBegun /\ req[s].tenant = login[l].tenant
    BY NotFree, InFlightForms DEF ProcessLogin, SoundInv, RequestSound
  <1>2. /\ r \in InFlight /\ r.pc = "answer" /\ r.login = l
        /\ r.session = req[s].session
        /\ req' = [req EXCEPT ![s] = r]
        /\ req' \in [Slot -> InFlight \cup {Free}]
        /\ req'[s] = r /\ \A q \in Slot \ {s} : req'[q] = req[q]
    BY <1>1 DEF InFlight, ProcessLogin, SoundInv, TypeOK
  <1>3. \A q \in Slot : RequestSound(q)'
    BY <1>1, <1>2, NotFree DEF ProcessLogin, SoundInv, RequestSound, Sound
  <1>4. TypeOK' /\ Sound(cookie)'
    BY <1>1, <1>2 DEF ProcessLogin, SoundInv, TypeOK, Sound
  <1>5. QED
    BY <1>1, <1>3, <1>4 DEF ProcessLogin, SoundInv, TypeOK

(* A slot that was free is taken by a request of a login that is not on    *)
(* its way to Azure AD.                                                    *)
LEMMA StartSound ==
  ASSUME SoundInv, NEW s \in Slot, req[s] = Free,
         NEW r \in InFlight, req' = [req EXCEPT ![s] = r],
         r.pc \in {"retrieve", "answer"}, r.session = cookie,
         login[r.login].pc \in {"azure", "code", "called", "spent"},
         login' = [login EXCEPT ![r.login].pc = "called"],
         UNCHANGED <<client, config, cookie, redis, changes, outcome>>,
         refused' \subseteq Login, upset' \subseteq Login
  PROVE  SoundInv'
  <1> DEFINE l == r.login
  <1>1. l \in Login /\ login[l] # NotBegun
    BY DEF InFlight, NotBegun
  <1>2. /\ req'[s] = r /\ \A q \in Slot \ {s} : req'[q] = req[q]
        /\ req' \in [Slot -> InFlight \cup {Free}]
    BY DEF SoundInv, TypeOK
  <1>3. /\ login' \in [Login -> Begun \cup {NotBegun}]
        /\ login'[l].pc = "called"
        /\ \A k \in Login \ {l} : login'[k] = login[k]
        /\ \A k \in Login :
             login[k] # NotBegun =>
               login'[k] # NotBegun /\ login'[k].tenant = login[k].tenant
    BY <1>1, LoginMoves
  <1>4. TypeOK'
    BY <1>2, <1>3 DEF SoundInv, TypeOK, outcome
  <1>5. /\ cookie \in Session
        /\ Sound(cookie)'
    BY <1>3, SoundKept DEF SoundInv, TypeOK, Sound
  <1>6. RequestSound(s)'
    BY <1>1, <1>2, <1>3, <1>5 DEF RequestSound, Sound
  <1>7. ASSUME NEW q \in Slot \ {s}, req[q] # Free
        PROVE  RequestSound(q)'
    <2>1. /\ req[q].login \in Login /\ req[q].session \in Session
          /\ RequestSound(q)
      BY <1>7, InFlightForms DEF SoundInv
    <2>2. req[q].pc = "redirect" => req[q].login # l
      BY <1>7, <2>1 DEF RequestSound
    <2>3. (req[q].pc = "redirect") <=> login'[req[q].login].pc = "redirect"
      BY <1>3, <1>7, <2>1, <2>2 DEF RequestSound
    <2>4. Sound(req[q].session)'
      BY <1>2, <1>3, <1>7, <2>1, SoundKept DEF RequestSound, Sound
    <2>5. \A p \in Slot :
            req[q].pc = "redirect" /\ req'[p] # Free
              /\ req'[p].login = req[q].login => p = q
      BY <1>2, <1>7, <2>1, <2>2 DEF RequestSound
    <2>6. QED
      BY <1>2, <1>3, <1>7, <2>1, <2>3, <2>4, <2>5 DEF RequestSound
  <1>8. \A q \in Slot : RequestSound(q)'
    BY <1>2, <1>6, <1>7 DEF RequestSound
  <1>9. QED
    BY <1>3, <1>4, <1>5, <1>8 DEF SoundInv, outcome

LEMMA CallbackSound ==
  ASSUME SoundInv, NEW s \in Slot, NEW l \in Login,
         Callback(s, l) \/ Decline(s, l)
  PROVE  SoundInv'
  <1>1. PICK pc \in {"retrieve", "answer"} :
          req' = [req EXCEPT ![s] = [pc |-> pc, login |-> l,
                                     session |-> cookie]]
    BY DEF Callback, Decline
  <1> DEFINE r == [pc |-> pc, login |-> l, session |-> cookie]
  <1>2. r \in InFlight
    BY DEF InFlight, SoundInv, TypeOK
  <1>3. refused' \subseteq Login /\ upset' \subseteq Login
    BY DEF Callback, Decline, SoundInv, TypeOK, Pending
  <1>4. r.pc = pc /\ r.login = l /\ r.session = cookie
    OBVIOUS
  <1>5. /\ req[s] = Free
        /\ login[l].pc \in {"azure", "code", "called", "spent"}
        /\ login' = [login EXCEPT ![l].pc = "called"]
        /\ UNCHANGED <<client, config, cookie, redis, changes, outcome>>
    BY DEF Callback, Decline
  <1> HIDE DEF r
  <1>6. login' = [login EXCEPT ![r.login].pc = "called"]
    BY <1>4, <1>5
  <1>7. QED
    BY <1>1, <1>2, <1>3, <1>4, <1>5, <1>6, StartSound DEF r

(* What a process stores is a session of the login that begins.            *)
LEMMA StoreSession ==
  ASSUME SoundInv, NEW p \in Process, NEW l \in Login, NEW t \in Tenant
  PROVE  /\ Store(p, l, t, Verifier(l, t)) \in Session
         /\ Store(p, l, t, Verifier(l, t)).state = l
         /\ Store(p, l, t, Verifier(l, t)).tenant = t
         /\ client[p] => Store(p, l, t, Verifier(l, t)).verifier =
                           cookie.verifier
  BY DEF Store, Verifier, Session, SoundInv, TypeOK

LEMMA BeginSound ==
  ASSUME SoundInv, NEW s \in Slot, NEW p \in Process, NEW l \in Login,
         NEW t \in Tenant, Begin(s, p, l, t)
  PROVE  SoundInv'
  <1>1. PICK c \in Session, b \in BOOLEAN :
          /\ c.state = l /\ c.tenant = t
          /\ req' = [req EXCEPT ![s] = [pc |-> "redirect", login |-> l,
                                        session |-> c]]
          /\ login' = [login EXCEPT ![l] = [pc |-> "redirect", tenant |-> t,
                                            challenged |-> b]]
    <2>1. /\ Store(p, l, t, Verifier(l, t)) \in Session
          /\ Store(p, l, t, Verifier(l, t)).state = l
          /\ Store(p, l, t, Verifier(l, t)).tenant = t
      BY StoreSession
    <2>2. /\ req' = [req EXCEPT ![s] =
               [pc |-> "redirect", login |-> l,
                session |-> Store(p, l, t, Verifier(l, t))]]
          /\ login' = [login EXCEPT ![l] =
               [pc |-> "redirect", tenant |-> t,
                challenged |-> Verifier(l, t) = l]]
      BY DEF Begin
    <2>3. CASE Verifier(l, t) = l
      <3>1. login' = [login EXCEPT ![l] = [pc |-> "redirect", tenant |-> t,
                                           challenged |-> TRUE]]
        BY <2>2, <2>3
      <3>2. QED
        BY <2>1, <2>2, <3>1
    <2>4. CASE Verifier(l, t) # l
      <3>1. login' = [login EXCEPT ![l] = [pc |-> "redirect", tenant |-> t,
                                           challenged |-> FALSE]]
        BY <2>2, <2>4
      <3>2. QED
        BY <2>1, <2>2, <3>1
    <2>5. QED
      BY <2>3, <2>4
  <1> DEFINE r == [pc |-> "redirect", login |-> l, session |-> c]
             b1 == [pc |-> "redirect", tenant |-> t, challenged |-> b]
  <1>2. r \in InFlight /\ r # Free /\ b1 \in Begun /\ b1 # NotBegun
    BY DEF InFlight, Begun, NotBegun, Free
  <1>3. /\ req'[s] = r /\ \A q \in Slot \ {s} : req'[q] = req[q]
        /\ login'[l] = b1 /\ \A k \in Login \ {l} : login'[k] = login[k]
        /\ login[l] = NotBegun
    BY <1>1 DEF Begin, SoundInv, TypeOK
  <1>4. TypeOK'
    BY <1>1, <1>2 DEF Begin, SoundInv, TypeOK, outcome
  <1>5. \A k \in Login :
          login[k] # NotBegun =>
            login'[k] # NotBegun /\ login'[k].tenant = login[k].tenant
    BY <1>3
  <1>6. Sound(cookie)'
    BY <1>5, SoundKept DEF Begin, SoundInv, TypeOK, Sound
  <1>7. ASSUME NEW q \in Slot \ {s}, req[q] # Free
        PROVE  RequestSound(q)' /\ req'[q].login # l
    <2>1. /\ req[q].login \in Login /\ req[q].session \in Session
          /\ RequestSound(q)
      BY <1>7, InFlightForms DEF SoundInv
    <2>2. req[q].login # l
      BY <1>3, <1>7, <2>1 DEF RequestSound
    <2>3. Sound(req[q].session)'
      BY <1>3, <1>5, <1>7, <2>1, SoundKept DEF RequestSound, Sound
    <2>4. /\ req'[q] = req[q]
          /\ login'[req[q].login] = login[req[q].login]
      BY <1>3, <2>1, <2>2
    <2>5. \A o \in Slot :
            req[q].pc = "redirect" /\ req'[o] # Free
              /\ req'[o].login = req[q].login => o = q
      BY <1>3, <1>7, <2>1, <2>2 DEF RequestSound
    <2>6. QED
      BY <1>7, <2>1, <2>2, <2>3, <2>4, <2>5 DEF RequestSound
  <1>8. RequestSound(s)'
    <2>1. /\ req'[s].pc = "redirect" /\ req'[s].login = l
          /\ req'[s].session = c
      BY <1>3
    <2>2. \A q \in Slot : req'[q] # Free /\ req'[q].login = l => q = s
      BY <1>3, <1>7
    <2>3. login'[l].pc = "redirect" /\ login'[l].tenant = t
      BY <1>3
    <2>4. QED
      BY <1>1, <1>2, <1>3, <2>1, <2>2, <2>3 DEF RequestSound, Sound
  <1>9. \A q \in Slot : RequestSound(q)'
    BY <1>3, <1>7, <1>8 DEF RequestSound
  <1>10. QED
    BY <1>3, <1>4, <1>5, <1>6, <1>9 DEF SoundInv, Begin, outcome

(* Where an answer leaves its login.                                       *)
LEMMA ReceiveMoves ==
  ASSUME SoundInv, NEW s \in Slot, Receive(s)
  PROVE  /\ req[s] # Free /\ req[s].login \in Login
         /\ login[req[s].login] # NotBegun
         /\ \E to \in {"redirect", "azure", "code", "called", "spent"} :
              /\ login' = [login EXCEPT ![req[s].login].pc = to]
              /\ req[s].pc = "redirect" => to = "azure"
              /\ req[s].pc = "answer" =>
                   \/ login[req[s].login].pc = "called" /\ to = "spent"
                   \/ login[req[s].login].pc # "called"
                      /\ to = login[req[s].login].pc
  <1> DEFINE l == req[s].login
  <1>1. /\ req[s] # Free /\ l \in Login /\ login[l] # NotBegun
        /\ login[l] \in Begun
        /\ req[s].pc \in {"redirect", "answer"}
    BY NotFree, InFlightForms DEF Receive, SoundInv, RequestSound, TypeOK
  <1>2. login[l].pc \in {"redirect", "azure", "code", "called", "spent"}
    BY <1>1 DEF Begun
  <1>3. CASE req[s].pc = "redirect"
    <2>1. login' = [login EXCEPT ![l].pc = "azure"]
      BY <1>1, <1>3 DEF Receive, SoundInv, RequestSound
    <2>2. req[s].pc # "answer"
      BY <1>3
    <2>3. QED
      BY <1>1, <2>1, <2>2
  <1>4. CASE req[s].pc = "answer" /\ login[l].pc = "called"
    <2>1. login' = [login EXCEPT ![l].pc = "spent"]
      BY <1>1, <1>4 DEF Receive, SoundInv, TypeOK
    <2>2. req[s].pc # "redirect"
      BY <1>4
    <2>3. QED
      BY <1>1, <1>4, <2>1, <2>2
  <1>5. CASE req[s].pc = "answer" /\ login[l].pc # "called"
    <2>1. login' = [login EXCEPT ![l].pc = login[l].pc]
      BY <1>1, <1>5 DEF Receive, SoundInv, TypeOK
    <2>2. PICK to \in {"redirect", "azure", "code", "called", "spent"} :
            to = login[l].pc
      BY <1>2
    <2>3. QED
      BY <1>1, <1>5, <2>1, <2>2
  <1>6. QED
    BY <1>1, <1>3, <1>4, <1>5

LEMMA ReceiveSound ==
  ASSUME SoundInv, NEW s \in Slot, Receive(s)
  PROVE  SoundInv'
  <1> DEFINE l == req[s].login
  <1>1. /\ req[s] # Free /\ l \in Login /\ login[l] # NotBegun
        /\ req[s].session \in Session /\ RequestSound(s)
    BY ReceiveMoves, InFlightForms DEF SoundInv
  <1>2. PICK to \in {"redirect", "azure", "code", "called", "spent"} :
          /\ login' = [login EXCEPT ![l].pc = to]
          /\ req[s].pc = "redirect" => to = "azure"
          /\ req[s].pc = "answer" =>
               \/ login[l].pc = "called" /\ to = "spent"
               \/ login[l].pc # "called" /\ to = login[l].pc
    BY ReceiveMoves
  <1>3. /\ login' \in [Login -> Begun \cup {NotBegun}]
        /\ login'[l].pc = to
        /\ \A k \in Login \ {l} : login'[k] = login[k]
        /\ \A k \in Login :
             login[k] # NotBegun =>
               login'[k] # NotBegun /\ login'[k].tenant = login[k].tenant
    BY <1>1, <1>2, LoginMoves
  <1>4. /\ req'[s] = Free /\ \A q \in Slot \ {s} : req'[q] = req[q]
        /\ req' \in [Slot -> InFlight \cup {Free}]
    BY DEF Receive, SoundInv, TypeOK
  <1>5. TypeOK'
    BY <1>1, <1>3, <1>4 DEF Receive, SoundInv, TypeOK, outcome, Pending
  <1>6. Sound(cookie)'
    <2>1. cookie' = req[s].session /\ Sound(req[s].session)
      BY <1>1 DEF Receive, RequestSound
    <2>2. QED
      BY <1>1, <1>3, <2>1, SoundKept DEF Sound
  <1>7. ASSUME NEW q \in Slot \ {s}, req[q] # Free
        PROVE  RequestSound(q)'
    <2>1. /\ req[q].login \in Login /\ req[q].session \in Session
          /\ RequestSound(q)
      BY <1>7, InFlightForms DEF SoundInv
    <2>2. /\ req[q].login = l => req[s].pc = "answer"
          /\ req[s].pc \in {"redirect", "answer"}
      BY <1>1, <1>7, <2>1 DEF RequestSound, Receive
    <2>3. (req[q].pc = "redirect") <=> login'[req[q].login].pc = "redirect"
      BY <1>2, <1>3, <1>7, <2>1, <2>2 DEF RequestSound
    <2>4. Sound(req[q].session)'
      BY <1>3, <1>4, <1>7, <2>1, SoundKept DEF RequestSound, Sound
    <2>5. QED
      BY <1>3, <1>4, <1>7, <2>1, <2>3, <2>4 DEF RequestSound
  <1>8. \A q \in Slot : RequestSound(q)'
    BY <1>4, <1>7 DEF RequestSound
  <1>9. QED
    BY <1>3, <1>5, <1>6, <1>8 DEF SoundInv, Receive, outcome

(* The steps that move no request: a login that moves is on its way.       *)
LEMMA OutsideSound ==
  ASSUME SoundInv,
         \/ \E l \in Login : SignIn(l) \/ Expire(l)
         \/ \E t \in Tenant, m \in Mode : Configure(t, m)
  PROVE  SoundInv'
  <1>1. ASSUME NEW l \in Login, Expire(l)
        PROVE  SoundInv'
    BY <1>1 DEF Expire, outcome, SoundInv, TypeOK, RequestSound, Sound
  <1>2. ASSUME NEW t \in Tenant, NEW m \in Mode, Configure(t, m)
        PROVE  SoundInv'
    <2>1. /\ config' \in [Tenant -> Mode] /\ changes' \in 0..MaxChanges
          /\ upset' \subseteq Login
      BY <1>2, MaxChangesAssumption
      DEF Configure, Changes, SoundInv, TypeOK, Pending
    <2>2. QED
      BY <1>2, <2>1
      DEF Configure, outcome, SoundInv, TypeOK, RequestSound, Sound
  <1>3. ASSUME NEW l \in Login, SignIn(l)
        PROVE  SoundInv'
    <2>1. login[l] # NotBegun
      BY <1>3 DEF SignIn, NotBegun
    <2>2. /\ login' \in [Login -> Begun \cup {NotBegun}]
          /\ login'[l].pc = "code"
          /\ \A k \in Login \ {l} : login'[k] = login[k]
          /\ \A k \in Login :
               login[k] # NotBegun =>
                 login'[k] # NotBegun /\ login'[k].tenant = login[k].tenant
      BY <1>3, <2>1, LoginMoves DEF SignIn
    <2>3. TypeOK' /\ Sound(cookie)'
      BY <1>3, <2>2, SoundKept DEF SignIn, outcome, SoundInv, TypeOK, Sound
    <2>4. ASSUME NEW q \in Slot, req[q] # Free
          PROVE  RequestSound(q)'
      <3>1. /\ req[q].login \in Login /\ req[q].session \in Session
            /\ RequestSound(q)
        BY <2>4, InFlightForms DEF SoundInv
      <3>2. (req[q].pc = "redirect") <=> login'[req[q].login].pc = "redirect"
        BY <1>3, <2>2, <2>4, <3>1 DEF RequestSound, SignIn
      <3>3. Sound(req[q].session)'
        BY <1>3, <2>2, <2>4, <3>1, SoundKept DEF RequestSound, Sound, SignIn
      <3>4. QED
        BY <1>3, <2>2, <2>4, <3>1, <3>2, <3>3 DEF RequestSound, SignIn
    <2>5. \A q \in Slot : RequestSound(q)'
      BY <1>3, <2>4 DEF RequestSound, SignIn
    <2>6. QED
      BY <1>3, <2>2, <2>3, <2>5 DEF SoundInv, SignIn, outcome
  <1>4. QED
    BY <1>1, <1>2, <1>3

LEMMA NextSound == SoundInv /\ [Next]_vars => SoundInv'
  <1>1. ASSUME SoundInv, UNCHANGED vars
        PROVE  SoundInv'
    BY <1>1 DEF vars, outcome, SoundInv, TypeOK, RequestSound, Sound
  <1>2. QED
    BY <1>1, BeginSound, CallbackSound, RetrieveSound,
       RetrieveFromSessionSound, RetrieveFailsSound, DeleteSound,
       ExchangeSound, RefuseClaimsSound, ProcessLoginSound, ReceiveSound,
       OutsideSound
    DEF Next

(* The inductive invariant about tenants, answers and sessions holds in    *)
(* every reachable state, of every deployment (with Redis or without).     *)
THEOREM SoundCorrect == Spec => []SoundInv
  BY InitSound, NextSound, PTL DEF Spec

(* Every variable has its type: an answer only moves a login that has      *)
(* begun.                                                                  *)
THEOREM TypeCorrect == Spec => []TypeOK
  <1>1. SoundInv => TypeOK
    BY DEF SoundInv
  <1>2. QED
    BY <1>1, SoundCorrect, PTL

(* A login is processed for the tenant it was begun for, whatever tabs     *)
(* there are and whatever order their answers come in: a state and a       *)
(* tenant are stored together and leave the session together.              *)
THEOREM CompletedWhereItBegan == Spec => []CompletedWhereBegun
  <1>1. SoundInv => CompletedWhereBegun
    BY DEF SoundInv, CompletedWhereBegun
  <1>2. QED
    BY <1>1, SoundCorrect, PTL

-----------------------------------------------------------------------------
(* A verifier goes with its login                                          *)

(* Whoever has validated its state has taken the entry out of Redis.       *)
ConsumedInv ==
  AllHaveRedis =>
    /\ \A s \in Slot :
         req[s].pc \in {"exchange", "process"} => req[s].login \notin redis
    /\ \A l \in Login : completed[l] # None => l \notin redis

LEMMA InitConsumed == Init => ConsumedInv
  BY DEF Init, ConsumedInv, Free

(* Entries only go, requests that have validated stay who they are, and    *)
(* only these complete.                                                    *)
LEMMA ConsumedKept ==
  ASSUME ConsumedInv, UNCHANGED client, redis' \subseteq redis,
         \A q \in Slot :
           req'[q].pc \in {"exchange", "process"} =>
             \/ /\ req[q].pc \in {"exchange", "process"}
                /\ req'[q].login = req[q].login
             \/ AllHaveRedis => req'[q].login \notin redis',
         \A l \in Login :
           completed'[l] # None =>
             \/ completed[l] # None
             \/ AllHaveRedis => l \notin redis
  PROVE  ConsumedInv'
  BY DEF ConsumedInv, AllHaveRedis

LEMMA DeleteConsumed ==
  ASSUME SoundInv, ConsumedInv, NEW s \in Slot, Delete(s)
  PROVE  ConsumedInv'
  <1> DEFINE k == req[s].session.state
  <1>1. /\ req[s] # Free /\ req[s].login \in Login
        /\ req[s].session \in Session /\ k \in Login
    BY NotFree, InFlightForms
    DEF Delete, SoundInv, RequestSound, Session
  <1>2. PICK v \in Login \cup {None} :
          /\ Validate(s, Popped(s), v)
          /\ req[s].pc \in {"retrieve", "delete"}
    BY <1>1 DEF Delete
  <1>3. Popped(s) \in Session /\ Popped(s).state = None
    BY <1>1, PoppedSession
  <1>4. PICK r \in InFlight :
          /\ req' = [req EXCEPT ![s] = r]
          /\ r.login = req[s].login
          /\ r.session.state = None
          /\ r.session.verifier = Popped(s).verifier
          /\ \/ /\ r.pc = "answer"
                /\ refused' = refused \cup {req[s].login}
                /\ \/ ~StateMatches(s)
                   \/ Popped(s).tenant = None
                   \/ config[Popped(s).tenant] = "none"
             \/ /\ r.pc = "exchange"
                /\ refused' = refused
                /\ StateMatches(s)
                /\ r.tenant = Popped(s).tenant
                /\ r.verifier = v /\ r.mode = config[Popped(s).tenant]
    BY <1>2, <1>3, ValidateResult
  <1>5. req'[s] = r /\ \A q \in Slot \ {s} : req'[q] = req[q]
    BY <1>4 DEF SoundInv, TypeOK
  <1>6. redis' = redis \ {k} /\ UNCHANGED <<client, completed>>
    BY DEF Delete, outcome
  <1>7. r.pc = "exchange" => r.login = k
    BY <1>4 DEF StateMatches
  <1>8. QED
    BY <1>4, <1>5, <1>6, <1>7, ConsumedKept

LEMMA RetrieveFromSessionConsumed ==
  ASSUME SoundInv, ConsumedInv, NEW s \in Slot, NEW p \in Process,
         RetrieveFromSession(s, p)
  PROVE  ConsumedInv'
  <1> DEFINE c == req[s].session
  <1>1. /\ UNCHANGED <<client, completed, redis>>
        /\ AllHaveRedis => c.state \notin redis
        /\ req[s].pc = "retrieve"
    BY DEF RetrieveFromSession, outcome, AllHaveRedis
  <1>2. PICK r :
          /\ req' = [req EXCEPT ![s] = r]
          /\ r.pc \in {"answer", "exchange"}
          /\ r.pc = "exchange" => r.login = c.state
    BY DEF RetrieveFromSession, Refuse, Validate, StateMatches
  <1>3. req'[s] = r /\ \A q \in Slot \ {s} : req'[q] = req[q]
    BY <1>2 DEF SoundInv, TypeOK
  <1>4. QED
    BY <1>1, <1>2, <1>3, ConsumedKept

(* The steps of a request after it has validated its state.                *)
LEMMA LaterConsumed ==
  ASSUME SoundInv, ConsumedInv, NEW s \in Slot,
         Exchange(s) \/ RefuseClaims(s) \/ ProcessLogin(s)
  PROVE  ConsumedInv'
  <1>1. /\ UNCHANGED <<client, redis>>
        /\ req[s].pc \in {"exchange", "process"}
        /\ req[s] \in InFlight
    BY NotFree, InFlightForms
    DEF Exchange, RefuseClaims, ProcessLogin, outcome
  <1>2. AllHaveRedis => req[s].login \notin redis
    BY <1>1 DEF ConsumedInv
  <1>3. /\ req'[s].login = req[s].login
        /\ \A q \in Slot \ {s} : req'[q] = req[q]
    BY <1>1 DEF Exchange, RefuseClaims, ProcessLogin, Refuse, SoundInv,
       TypeOK, InFlight
  <1>4. \A l \in Login \ {req[s].login} : completed'[l] = completed[l]
    BY DEF Exchange, RefuseClaims, ProcessLogin, outcome, SoundInv, TypeOK
  <1>5. QED
    BY <1>1, <1>2, <1>3, <1>4, ConsumedKept

(* A login that begins is not processed yet, and no request is beyond it.  *)
LEMMA BeginConsumed ==
  ASSUME SoundInv, ConsumedInv, NEW s \in Slot, NEW p \in Process,
         NEW l \in Login, NEW t \in Tenant, Begin(s, p, l, t)
  PROVE  ConsumedInv'
  <1>1. /\ UNCHANGED <<client, completed>> /\ redis' \subseteq redis \cup {l}
        /\ login[l] = NotBegun /\ req[s] = Free
    BY DEF Begin, outcome
  <1>2. /\ req'[s].pc = "redirect"
        /\ \A q \in Slot \ {s} : req'[q] = req[q]
    BY DEF Begin, SoundInv, TypeOK
  <1>3. completed[l] = None
    BY <1>1 DEF SoundInv
  <1>4. \A q \in Slot : req[q].pc \in {"exchange", "process"} =>
                          req[q].login # l
    BY <1>1, NotFree DEF SoundInv, RequestSound
  <1>5. QED
    BY <1>1, <1>2, <1>3, <1>4 DEF ConsumedInv, AllHaveRedis

LEMMA NextConsumed == SoundInv /\ ConsumedInv /\ [Next]_vars => ConsumedInv'
  <1> SUFFICES ASSUME SoundInv, ConsumedInv, [Next]_vars
               PROVE  ConsumedInv'
    OBVIOUS
  <1>1. CASE UNCHANGED vars
    BY <1>1 DEF vars, outcome, ConsumedInv, AllHaveRedis
  <1>2. ASSUME NEW s \in Slot, NEW l \in Login, Callback(s, l) \/ Decline(s, l)
        PROVE  ConsumedInv'
    <2>1. /\ UNCHANGED <<client, redis, completed>>
          /\ req'[s].pc \in {"retrieve", "answer"}
          /\ \A q \in Slot \ {s} : req'[q] = req[q]
      BY <1>2 DEF Callback, Decline, outcome, SoundInv, TypeOK
    <2>2. QED
      BY <2>1, ConsumedKept
  <1>3. ASSUME NEW s \in Slot, NEW p \in Process,
               Retrieve(s, p) \/ RetrieveFails(s, p)
        PROVE  ConsumedInv'
    <2>1. req[s] \in InFlight
      BY <1>3, NotFree, InFlightForms DEF Retrieve, RetrieveFails
    <2>2. /\ UNCHANGED <<client, redis, completed>>
          /\ req'[s].pc \in {"delete", "answer"}
          /\ \A q \in Slot \ {s} : req'[q] = req[q]
      BY <1>3, <2>1
      DEF Retrieve, RetrieveFails, Refuse, outcome, SoundInv, TypeOK,
          InFlight
    <2>3. QED
      BY <2>2, ConsumedKept
  <1>4. ASSUME NEW s \in Slot, Receive(s)
        PROVE  ConsumedInv'
    <2>1. /\ UNCHANGED <<client, redis, completed>>
          /\ req'[s] = Free
          /\ \A q \in Slot \ {s} : req'[q] = req[q]
      BY <1>4 DEF Receive, outcome, SoundInv, TypeOK
    <2>2. QED
      BY <2>1, ConsumedKept DEF Free
  <1>5. ASSUME \/ \E l \in Login : SignIn(l) \/ Expire(l)
               \/ \E t \in Tenant, m \in Mode : Configure(t, m)
        PROVE  ConsumedInv'
    <2>1. redis' \subseteq redis /\ UNCHANGED <<client, req, completed>>
      BY <1>5 DEF SignIn, Expire, Configure, outcome
    <2>2. QED
      BY <2>1, ConsumedKept
  <1>6. QED
    BY <1>1, <1>2, <1>3, <1>4, <1>5, BeginConsumed, DeleteConsumed,
       RetrieveFromSessionConsumed, LaterConsumed
    DEF Next

(* With Redis everywhere no verifier outlives its login: the entry is      *)
(* deleted before the code is exchanged, and not made again.               *)
THEOREM VerifierConsumed == Spec => []VerifierIsConsumed
  <1>1. ConsumedInv => VerifierIsConsumed
    BY DEF ConsumedInv, VerifierIsConsumed
  <1>2. QED
    BY <1>1, InitConsumed, NextConsumed, SoundCorrect, PTL DEF Spec

-----------------------------------------------------------------------------
(* A login that nothing interferes with is not refused                     *)

ConfiguredFor(l) ==
  /\ config[login[l].tenant] # "none"
  /\ login[l].challenged <=> config[login[l].tenant] = "pkce"

(* A login on its way, with nothing upset, finds what its callback needs.  *)
CalmLogin(l) ==
  /\ l \in Pending => ConfiguredFor(l)
  /\ login[l].pc \in {"redirect", "azure", "code"} =>
       l \in redis /\ l \notin redeemed
  /\ login[l].pc \in {"azure", "code"} => cookie.state = l

(* It has one request at a time, with the session of its own login.        *)
CalmRequest(s) ==
  /\ login[req[s].login].pc \in {"redirect", "called"}
  /\ \A q \in Slot : req[q] # Free /\ req[q].login = req[s].login => q = s
  /\ req[s].pc \in {"retrieve", "delete"} =>
       req[s].session.state = req[s].login /\ req[s].login \in redis
  /\ req[s].pc \in {"retrieve", "delete", "exchange"} =>
       req[s].login \notin redeemed
  /\ req[s].pc = "exchange" =>
       req[s].mode = config[login[req[s].login].tenant]
  /\ req[s].pc = "exchange" /\ login[req[s].login].challenged =>
       req[s].verifier = req[s].login

(* A callback that came with the session of another login has upset that   *)
(* one, unless its answer had been received.                               *)
Stray(s) ==
  req[s].pc \in {"retrieve", "delete"} =>
    \/ req[s].session.state \in {None, req[s].login} \cup upset
    \/ login[req[s].session.state].pc = "spent"

NoVerifiers ==
  /\ cookie.verifier = None
  /\ \A s \in Slot : req[s] # Free => req[s].session.verifier = None

Calm ==
  /\ NoVerifiers
  /\ refused \subseteq upset
  /\ \A l \in Login \ upset : CalmLogin(l)
  /\ \A s \in Slot :
       req[s] # Free /\ req[s].login \notin upset => CalmRequest(s)
  /\ \A s \in Slot : Stray(s)

CalmInv ==
  /\ \A l \in redeemed : login[l] # NotBegun
  /\ AllHaveRedis => Calm

LEMMA InitCalm == Init => CalmInv
  BY DEF Init, CalmInv, Calm, NoVerifiers, CalmLogin, CalmRequest, Stray,
     NoSession, NotBegun, Free, Pending

(* A request goes on, and only the entry of its own login goes, or one     *)
(* that no calm login needs.                                               *)
LEMMA ContinueCalm ==
  ASSUME SoundInv, Calm, NEW s \in Slot, req[s] # Free,
         req[s].pc # "redirect",
         NEW r \in InFlight, req' = [req EXCEPT ![s] = r],
         r.login = req[s].login, r.session.verifier = None,
         UNCHANGED <<config, cookie, login>>,
         upset \subseteq upset', refused' \subseteq upset',
         \A k \in redis \ redis' :
           k = req[s].login \/ k \in upset' \/ login[k].pc = "spent",
         redeemed' \subseteq redeemed \cup {req[s].login},
         r.pc \in {"retrieve", "delete"} =>
           /\ r.session = req[s].session
           /\ req[s].pc \in {"retrieve", "delete"},
         r.login \notin upset' =>
           /\ r.pc \in {"retrieve", "delete"} =>
                r.session.state = r.login /\ r.login \in redis'
           /\ r.pc \in {"retrieve", "delete", "exchange"} =>
                r.login \notin redeemed'
           /\ r.pc = "exchange" =>
                r.mode = config[login[r.login].tenant]
           /\ r.pc = "exchange" /\ login[r.login].challenged =>
                r.verifier = r.login
  PROVE  Calm'
  <1>1. /\ req'[s] = r /\ \A q \in Slot \ {s} : req'[q] = req[q]
        /\ req[s].login \in Login
    BY InFlightForms DEF SoundInv, TypeOK
  <1>2. NoVerifiers'
    BY <1>1 DEF Calm, NoVerifiers
  <1>3. req[s].login \notin upset =>
          /\ login[req[s].login].pc = "called"
          /\ \A q \in Slot : req[q] # Free /\ req[q].login = req[s].login
                               => q = s
    BY DEF Calm, CalmRequest, SoundInv, RequestSound
  <1>4. ASSUME NEW l \in Login \ upset'
        PROVE  CalmLogin(l)'
    <2>1. CalmLogin(l) /\ l \notin upset
      BY <1>4 DEF Calm
    <2>2. login[l].pc \in {"redirect", "azure", "code"} =>
            l \in redis' /\ l \notin redeemed'
      BY <1>3, <1>4, <2>1 DEF CalmLogin
    <2>3. QED
      BY <2>1, <2>2 DEF CalmLogin, Pending, ConfiguredFor
  <1>5. ASSUME NEW q \in Slot, req'[q] # Free, req'[q].login \notin upset'
        PROVE  CalmRequest(q)'
    <2>1. CASE q = s
      <3>1. \A o \in Slot : req'[o] # Free /\ req'[o].login = req'[s].login
                              => o = s
        BY <1>1, <1>3, <1>5, <2>1
      <3>2. QED
        BY <1>1, <1>3, <1>5, <2>1, <3>1 DEF CalmRequest
    <2>2. CASE q # s
      <3>1. /\ req'[q] = req[q] /\ CalmRequest(q)
            /\ req[q].login \notin upset
        BY <1>1, <1>5, <2>2 DEF Calm
      <3>2. req[q].login # req[s].login
        BY <1>1, <1>5, <2>2, <3>1 DEF CalmRequest
      <3>3. req[q].login \in redis => req[q].login \in redis'
        BY <1>5, <3>1, <3>2 DEF CalmRequest
      <3>4. \A o \in Slot : req'[o] # Free /\ req'[o].login = req'[q].login
                              => o = q
        BY <1>1, <3>1, <3>2 DEF CalmRequest
      <3>5. QED
        BY <3>1, <3>2, <3>3, <3>4 DEF CalmRequest
    <2>3. QED
      BY <2>1, <2>2
  <1>6. ASSUME NEW q \in Slot
        PROVE  Stray(q)'
    BY <1>1 DEF Calm, Stray
  <1>7. QED
    BY <1>2, <1>4, <1>5, <1>6 DEF Calm

(* A request that is refused, for a reason.                                *)
LEMMA RefuseCalm ==
  ASSUME SoundInv, Calm, NEW s \in Slot, req[s] # Free,
         req[s].pc # "redirect",
         NEW c \in Session, c.verifier = None, Refuse(s, c),
         req[s].login \in upset',
         UNCHANGED <<config, cookie, redis, login, redeemed>>,
         upset \subseteq upset'
  PROVE  Calm'
  <1> DEFINE r == [pc |-> "answer", login |-> req[s].login, session |-> c]
  <1>1. r \in InFlight
    BY InFlightForms DEF InFlight
  <1>2. req' = [req EXCEPT ![s] = r] /\ refused' \subseteq upset'
    BY DEF Refuse, Calm
  <1>3. QED
    BY <1>1, <1>2, ContinueCalm

LEMMA RetrieveCalm ==
  ASSUME SoundInv, Calm, NEW s \in Slot, NEW p \in Process, Retrieve(s, p)
  PROVE  Calm'
  <1>1. /\ req[s] # Free /\ req[s] \in InFlight /\ req[s].pc = "retrieve"
    BY NotFree, InFlightForms DEF Retrieve
  <1> DEFINE d == [req[s] EXCEPT !.pc = "delete"]
  <1>1a. /\ d \in InFlight /\ d.pc = "delete" /\ d.login = req[s].login
         /\ d.session = req[s].session
    BY <1>1 DEF InFlight
  <1>2. PICK r \in InFlight :
          /\ r = d /\ r.pc = "delete" /\ r.login = req[s].login
          /\ r.session = req[s].session
    BY <1>1a
  <1>3. /\ req' = [req EXCEPT ![s] = r]
        /\ UNCHANGED <<config, cookie, redis, login, redeemed, refused, upset>>
    BY <1>2 DEF Retrieve, SoundInv, TypeOK, outcome
  <1>4. req[s].login \notin upset =>
          /\ r.session.state = r.login /\ r.login \in redis
          /\ r.login \notin redeemed
    BY <1>1, <1>2 DEF Calm, CalmRequest
  <1>5. r.session.verifier = None /\ refused \subseteq upset
    BY <1>1, <1>2 DEF Calm, NoVerifiers
  <1>6. /\ upset \subseteq upset' /\ refused' \subseteq upset'
        /\ \A k \in redis \ redis' : k = req[s].login
        /\ redeemed' \subseteq redeemed \cup {req[s].login}
    BY <1>3, <1>5
  <1>7. QED
    BY <1>1, <1>2, <1>3, <1>4, <1>5, <1>6, ContinueCalm

(* A calm login validates its state: it deletes its own entry, and that of *)
(* nobody else is needed.                                                  *)
LEMMA DeleteCalm ==
  ASSUME SoundInv, Calm, NEW s \in Slot, Delete(s)
  PROVE  Calm'
  <1> DEFINE k == req[s].session.state
             l == req[s].login
  <1>1. /\ req[s] # Free /\ l \in Login /\ req[s].session \in Session
        /\ k \in Login /\ req[s].session.tenant = login[k].tenant
        /\ req[s].session.verifier = None /\ login[k] # NotBegun
    BY NotFree, InFlightForms
    DEF Delete, SoundInv, RequestSound, Sound, Session, Calm, NoVerifiers
  <1>2. PICK v \in Login \cup {None} :
          /\ Validate(s, Popped(s), v)
          /\ req[s].pc \in {"retrieve", "delete"}
          /\ login[k].challenged => v = k
    BY <1>1 DEF Delete
  <1>3. /\ Popped(s) \in Session /\ Popped(s).state = None
        /\ Popped(s).verifier = None
        /\ Popped(s).tenant = login[k].tenant
    BY <1>1, PoppedSession
  <1>4. PICK r \in InFlight :
          /\ req' = [req EXCEPT ![s] = r]
          /\ r.login = req[s].login
          /\ r.session.state = None
          /\ r.session.verifier = Popped(s).verifier
          /\ \/ /\ r.pc = "answer"
                /\ refused' = refused \cup {req[s].login}
                /\ \/ ~StateMatches(s)
                   \/ Popped(s).tenant = None
                   \/ config[Popped(s).tenant] = "none"
             \/ /\ r.pc = "exchange"
                /\ refused' = refused
                /\ StateMatches(s)
                /\ r.tenant = Popped(s).tenant
                /\ r.verifier = v /\ r.mode = config[Popped(s).tenant]
    BY <1>2, <1>3, ValidateResult
  <1>5. /\ redis' = redis \ {k}
        /\ UNCHANGED <<config, cookie, login, redeemed, upset>>
        /\ req[s].pc = "delete"
    BY DEF Delete, outcome
  <1>6. l \notin upset =>
          /\ k = l /\ l \notin redeemed
          /\ login[l].pc = "called" /\ ConfiguredFor(l)
    <2>1. l \notin upset => CalmRequest(s) /\ CalmLogin(l)
      BY <1>1 DEF Calm
    <2>2. login[l].pc # "redirect"
      BY <1>1, <1>5 DEF SoundInv, RequestSound
    <2>3. QED
      BY <1>1, <1>5, <2>1, <2>2 DEF CalmRequest, CalmLogin, Pending
  <1>7. login[k].tenant \in Tenant
    BY <1>1 DEF SoundInv, TypeOK, Begun
  <1>8. r.pc = "answer" => l \in upset
    BY <1>3, <1>4, <1>6, <1>7, NoneAssumption
    DEF StateMatches, ConfiguredFor
  <1>9. refused' \subseteq upset
    BY <1>4, <1>8 DEF Calm
  <1>10. \A x \in redis \ redis' :
           x = l \/ x \in upset \/ login[x].pc = "spent"
    BY <1>1, <1>5, NoneAssumption DEF Calm, Stray, SoundInv, TypeOK
  <1>11. /\ r.session.verifier = None
         /\ r.pc \in {"answer", "exchange"}
         /\ l \notin upset /\ r.pc = "exchange" =>
              /\ l \notin redeemed
              /\ r.mode = config[login[l].tenant]
              /\ login[l].challenged => r.verifier = l
    BY <1>2, <1>3, <1>4, <1>6
  <1>12. QED
    BY <1>1, <1>4, <1>5, <1>9, <1>10, <1>11, ContinueCalm

(* With Redis everywhere no session has a verifier: what Redis does not    *)
(* have is refused, and a calm login has its entry.                        *)
LEMMA RetrieveFromSessionCalm ==
  ASSUME SoundInv, Calm, AllHaveRedis, NEW s \in Slot, NEW p \in Process,
         RetrieveFromSession(s, p)
  PROVE  Calm'
  <1> DEFINE c == req[s].session
  <1>1. /\ req[s] # Free /\ req[s].login \in Login /\ c \in Session
        /\ c.verifier = None
    BY NotFree, InFlightForms DEF RetrieveFromSession, Calm, NoVerifiers
  <1>2. /\ c.state \notin redis /\ req[s].pc = "retrieve"
        /\ UNCHANGED <<config, cookie, redis, login, redeemed, upset>>
    BY DEF RetrieveFromSession, AllHaveRedis, outcome
  <1>3. req[s].login \in upset
    BY <1>1, <1>2 DEF Calm, CalmRequest
  <1>4. PICK e \in Session : e.verifier = None /\ Refuse(s, e)
    <2>1. CASE c.state = None
      BY <1>1, <2>1 DEF RetrieveFromSession
    <2>2. CASE c.state # None
      BY <1>1, <2>2, PoppedSession DEF RetrieveFromSession
    <2>3. QED
      BY <2>1, <2>2
  <1>5. QED
    BY <1>1, <1>2, <1>3, <1>4, RefuseCalm

LEMMA RetrieveFailsCalm ==
  ASSUME SoundInv, Calm, NEW s \in Slot, NEW p \in Process,
         RetrieveFails(s, p)
  PROVE  Calm'
  <1>1. /\ req[s] # Free /\ req[s].session \in Session
        /\ req[s].session.verifier = None
    BY NotFree, InFlightForms DEF RetrieveFails, Calm, NoVerifiers
  <1>2. PICK e \in Session : e.verifier = None /\ Refuse(s, e)
    BY <1>1, PoppedSession DEF RetrieveFails
  <1>3. QED
    BY <1>1, <1>2, RefuseCalm DEF RetrieveFails, outcome

(* Azure AD redeems the code of a calm login: it is its first exchange,    *)
(* with its own verifier and the configuration it was begun with.          *)
LEMMA ExchangeCalm ==
  ASSUME SoundInv, Calm, NEW s \in Slot, Exchange(s)
  PROVE  Calm'
  <1> DEFINE l == req[s].login
  <1>1. /\ req[s] # Free /\ req[s] \in InFlight /\ l \in Login
        /\ req[s].session \in Session /\ req[s].session.verifier = None
        /\ req[s].tenant = login[l].tenant /\ req[s].tenant \in Tenant
        /\ req[s].pc = "exchange" /\ login[l].pc # "redirect"
    BY NotFree, InFlightForms
    DEF Exchange, SoundInv, RequestSound, Calm, NoVerifiers
  <1>2. UNCHANGED <<config, cookie, redis, login, upset>>
    BY DEF Exchange
  <1>3. CASE Redeemable(s)
    <2> DEFINE d == [req[s] EXCEPT !.pc = "process"]
    <2>1. /\ d \in InFlight /\ d.pc = "process" /\ d.login = l
          /\ d.session = req[s].session
      BY <1>1 DEF InFlight
    <2>2. PICK r \in InFlight :
            /\ r = d /\ r.pc = "process" /\ r.login = req[s].login
            /\ r.session = req[s].session
      BY <2>1
    <2>3. /\ req' = [req EXCEPT ![s] = r]
          /\ refused' = refused /\ redeemed' = redeemed \cup {l}
      BY <1>1, <1>3, <2>2 DEF Exchange, SoundInv, TypeOK
    <2>4. refused' \subseteq upset' /\ upset \subseteq upset'
      BY <1>2, <2>3 DEF Calm
    <2>5. QED
      BY <1>1, <1>2, <2>2, <2>3, <2>4, ContinueCalm
  <1>4. CASE ~Redeemable(s)
    <2>1. ASSUME l \notin upset
          PROVE  FALSE
      <3>1. CalmRequest(s) /\ CalmLogin(l)
        BY <1>1, <2>1 DEF Calm
      <3>2. l \notin redeemed /\ ConfiguredFor(l)
        BY <1>1, <3>1 DEF CalmRequest, CalmLogin, Pending
      <3>3. login[l].challenged => req[s].verifier = l
        BY <1>1, <3>1 DEF CalmRequest
      <3>4. req[s].mode = config[login[l].tenant] /\ req[s].mode \in Mode
        BY <1>1, <3>1 DEF CalmRequest, SoundInv, TypeOK
      <3>5. QED
        BY <1>1, <1>4, <3>2, <3>3, <3>4 DEF Redeemable, ConfiguredFor, Mode
    <2>2. Refuse(s, req[s].session) /\ redeemed' = redeemed
      BY <1>4 DEF Exchange
    <2>3. QED
      BY <1>1, <1>2, <2>1, <2>2, RefuseCalm
  <1>5. QED
    BY <1>3, <1>4

LEMMA RefuseClaimsCalm ==
  ASSUME SoundInv, Calm, NEW s \in Slot, RefuseClaims(s)
  PROVE  Calm'
  <1>1. /\ req[s] # Free /\ req[s].session \in Session
        /\ req[s].session.verifier = None
    BY NotFree, InFlightForms DEF RefuseClaims, Calm, NoVerifiers
  <1>2. QED
    BY <1>1, RefuseCalm DEF RefuseClaims, outcome

LEMMA ProcessLoginCalm ==
  ASSUME SoundInv, Calm, NEW s \in Slot, ProcessLogin(s)
  PROVE  Calm'
  <1>1. /\ req[s] # Free /\ req[s].login \in Login
        /\ req[s].session \in Session
        /\ req[s].session.verifier = None /\ req[s].pc = "process"
    BY NotFree, InFlightForms DEF ProcessLogin, Calm, NoVerifiers
  <1>2. PICK r \in InFlight :
          /\ r.pc = "answer" /\ r.login = req[s].login
          /\ r.session = req[s].session
          /\ req' = [req EXCEPT ![s] = r]
    BY <1>1 DEF ProcessLogin, InFlight
  <1>3. /\ UNCHANGED <<config, cookie, redis, login, redeemed, upset>>
        /\ refused' \subseteq upset'
    BY DEF ProcessLogin, Calm
  <1>4. QED
    BY <1>1, <1>2, <1>3, ContinueCalm

(* Only its own steps move a login, so the others stay as calm as they     *)
(* are while their entries and the cookie stay.                            *)
LEMMA BeginCalm ==
  ASSUME SoundInv, SoundInv', Calm, AllHaveRedis,
         \A k \in redeemed : login[k] # NotBegun,
         NEW s \in Slot, NEW p \in Process, NEW l \in Login, NEW t \in Tenant,
         Begin(s, p, l, t)
  PROVE  Calm'
  <1>1. /\ redis' = redis \cup {l} /\ client[p] /\ login[l] = NotBegun
        /\ UNCHANGED <<config, cookie, redeemed, refused, upset>>
        /\ req[s] = Free /\ config[t] # "none"
    BY DEF Begin, outcome, AllHaveRedis
  <1>2. /\ Store(p, l, t, Verifier(l, t)).state = l
        /\ Store(p, l, t, Verifier(l, t)).verifier = None
    BY <1>1, StoreSession DEF Calm, NoVerifiers
  <1>3. /\ req'[s].pc = "redirect" /\ req'[s].login = l
        /\ req'[s].session.verifier = None /\ req'[s].session.state = l
        /\ req'[s] # Free
        /\ \A q \in Slot \ {s} : req'[q] = req[q]
    <2>1. req' = [req EXCEPT ![s] = [pc |-> "redirect", login |-> l,
                    session |-> Store(p, l, t, Verifier(l, t))]]
      BY DEF Begin
    <2>2. QED
      BY <1>2, <2>1 DEF SoundInv, TypeOK, Free
  <1>4. /\ login'[l].pc = "redirect" /\ login'[l].tenant = t
        /\ login'[l].challenged <=> Verifier(l, t) = l
        /\ \A k \in Login \ {l} : login'[k] = login[k]
    BY DEF Begin, SoundInv, TypeOK
  <1>5. NoVerifiers'
    BY <1>1, <1>3 DEF Calm, NoVerifiers
  <1>6. CalmLogin(l)'
    <2>1. login'[l].challenged <=> config[t] = "pkce"
      BY <1>4, NoneAssumption DEF Verifier
    <2>2. QED
      BY <1>1, <1>4, <2>1 DEF CalmLogin, ConfiguredFor
  <1>7. ASSUME NEW k \in Login \ (upset \cup {l})
        PROVE  CalmLogin(k)'
    BY <1>1, <1>4 DEF Calm, CalmLogin, ConfiguredFor, Pending
  <1>8. ASSUME NEW q \in Slot \ {s}, req[q] # Free
        PROVE  /\ req[q].login \in Login \ {l}
               /\ req[q].session \in Session
               /\ req[q].session.state # l
    <2>1. /\ req[q].login \in Login /\ req[q].session \in Session
          /\ RequestSound(q)
      BY <1>8, InFlightForms DEF SoundInv
    <2>2. QED
      BY <1>1, <1>8, <2>1, NoneAssumption DEF RequestSound, Sound
  <1>9. ASSUME NEW q \in Slot, req'[q] # Free, req'[q].login \notin upset
        PROVE  CalmRequest(q)'
    <2>1. CASE q = s
      BY <1>3, <1>4, <1>8, <2>1 DEF CalmRequest
    <2>2. CASE q # s
      BY <1>1, <1>3, <1>4, <1>8, <1>9, <2>2 DEF Calm, CalmRequest
    <2>3. QED
      BY <2>1, <2>2
  <1>10. ASSUME NEW q \in Slot
         PROVE  Stray(q)'
    <2>1. CASE q = s
      BY <1>3, <2>1 DEF Stray
    <2>2. CASE q # s /\ req[q].pc \in {"retrieve", "delete"}
      <3>1. req[q].session.state \in Login \cup {None}
        BY <1>8, <2>2, NotFree DEF Session
      <3>2. QED
        BY <1>1, <1>3, <1>4, <1>8, <2>2, <3>1, NotFree DEF Calm, Stray
    <2>3. CASE q # s /\ req[q].pc \notin {"retrieve", "delete"}
      BY <1>3, <2>3 DEF Stray
    <2>4. QED
      BY <2>1, <2>2, <2>3
  <1>11. QED
    BY <1>1, <1>5, <1>6, <1>7, <1>9, <1>10 DEF Calm

(* A callback that finds its login calm is the first one, and comes with   *)
(* its session; if it comes with the session of another login, it upsets   *)
(* that one.                                                               *)
LEMMA CallbackCalm ==
  ASSUME SoundInv, Calm, NEW s \in Slot, NEW l \in Login, Callback(s, l)
  PROVE  Calm'
  <1>1. /\ req[s] = Free /\ login[l].pc \in {"code", "called", "spent"}
        /\ UNCHANGED <<config, cookie, redis, redeemed, refused>>
        /\ upset \subseteq upset'
        /\ l \notin upset' => login[l].pc = "code"
        /\ (Pending \cap {cookie.state}) \ {l} \subseteq upset'
    BY DEF Callback, outcome
  <1>2. /\ req'[s].pc = "retrieve" /\ req'[s].login = l
        /\ req'[s].session = cookie
        /\ \A q \in Slot \ {s} : req'[q] = req[q]
    BY DEF Callback, SoundInv, TypeOK
  <1>3. /\ login[l] # NotBegun
        /\ login' = [login EXCEPT ![l].pc = "called"]
    BY <1>1 DEF Callback, NotBegun
  <1>4. /\ login'[l].pc = "called"
        /\ \A k \in Login \ {l} : login'[k] = login[k]
        /\ \A k \in Login :
             login[k] # NotBegun =>
               /\ login'[k].tenant = login[k].tenant
               /\ login'[k].challenged = login[k].challenged
    BY <1>3, LoginMoves
  <1>5. NoVerifiers'
    BY <1>1, <1>2 DEF Calm, NoVerifiers
  <1>6. l \notin upset' =>
          /\ cookie.state = l /\ l \in redis /\ l \notin redeemed
          /\ ConfiguredFor(l)
          /\ \A q \in Slot : req[q] # Free => req[q].login # l
    <2>1. l \notin upset' => CalmLogin(l) /\ login[l].pc = "code"
      BY <1>1 DEF Calm
    <2>2. ASSUME l \notin upset', NEW q \in Slot, req[q] # Free,
                 req[q].login = l
          PROVE  FALSE
      BY <1>1, <2>2 DEF Calm, CalmRequest
    <2>3. QED
      BY <2>1, <2>2 DEF CalmLogin, Pending
  <1>7. ASSUME NEW k \in Login \ upset'
        PROVE  CalmLogin(k)'
    <2>1. CASE k = l
      BY <1>1, <1>3, <1>4, <1>6, <1>7, <2>1 DEF CalmLogin, ConfiguredFor
    <2>2. CASE k # l
      BY <1>1, <1>4, <1>7, <2>2
      DEF Calm, CalmLogin, ConfiguredFor, Pending
    <2>3. QED
      BY <2>1, <2>2
  <1>8. ASSUME NEW q \in Slot, req'[q] # Free, req'[q].login \notin upset'
        PROVE  CalmRequest(q)'
    <2>1. CASE q = s
      BY <1>1, <1>2, <1>4, <1>6, <1>8, <2>1 DEF CalmRequest
    <2>2. CASE q # s
      <3>1. /\ req'[q] = req[q] /\ CalmRequest(q)
            /\ req[q].login \in Login \ {l}
        <4>1. req'[q] = req[q] /\ req[q] # Free /\ req[q].login \in Login
          BY <1>2, <1>8, <2>2, InFlightForms
        <4>2. req[q].login # l /\ req[q].login \notin upset
          BY <1>1, <1>6, <1>8, <4>1
        <4>3. QED
          BY <4>1, <4>2 DEF Calm
      <3>2. \A o \in Slot : req'[o] # Free /\ req'[o].login = req[q].login
                              => o = q
        BY <1>2, <3>1 DEF CalmRequest
      <3>3. login'[req[q].login] = login[req[q].login]
        BY <1>4, <3>1
      <3>4. QED
        BY <1>1, <3>1, <3>2, <3>3 DEF CalmRequest
    <2>3. QED
      BY <2>1, <2>2
  <1>9. ASSUME NEW q \in Slot
        PROVE  Stray(q)'
    <2>1. CASE q = s
      <3>1. CASE cookie.state \in Login \ (upset' \cup {l})
        <4>1. login[cookie.state] # NotBegun /\ cookie.state \notin Pending
          BY <1>1, <3>1, NoneAssumption DEF SoundInv, Sound
        <4>2. login[cookie.state].pc = "spent"
          BY <3>1, <4>1 DEF SoundInv, TypeOK, Begun, Pending
        <4>3. QED
          BY <1>2, <1>4, <2>1, <3>1, <4>2 DEF Stray
      <3>2. CASE cookie.state \in {None, l} \cup upset'
        BY <1>2, <2>1, <3>2 DEF Stray
      <3>3. cookie.state \in Login \cup {None}
        BY DEF SoundInv, TypeOK, Session
      <3>4. QED
        BY <3>1, <3>2, <3>3
    <2>2. CASE q # s /\ req[q].pc \in {"retrieve", "delete"}
      <3>1. req[q].session.state \in Login \cup {None}
        BY <2>2, NotFree, InFlightForms DEF Session
      <3>2. req[q].session.state = l => l \in upset' \/ req[q].login = l
        BY <1>1, <2>2, NoneAssumption DEF Calm, Stray
      <3>3. QED
        BY <1>1, <1>2, <1>4, <2>2, <3>1, <3>2 DEF Calm, Stray
    <2>3. CASE q # s /\ req[q].pc \notin {"retrieve", "delete"}
      BY <1>2, <2>3 DEF Stray
    <2>4. QED
      BY <2>1, <2>2, <2>3
  <1>10. refused' \subseteq upset'
    BY <1>1 DEF Calm
  <1>11. QED
    BY <1>5, <1>7, <1>8, <1>9, <1>10 DEF Calm

(* The user declines: the login is upset.                                  *)
LEMMA DeclineCalm ==
  ASSUME SoundInv, Calm, NEW s \in Slot, NEW l \in Login, Decline(s, l)
  PROVE  Calm'
  <1>1. /\ req[s] = Free /\ login[l].pc = "azure"
        /\ UNCHANGED <<config, cookie, redis, redeemed>>
        /\ upset' = upset \cup {l} /\ refused' = refused \cup {l}
    BY DEF Decline, outcome
  <1>2. /\ req'[s].pc = "answer" /\ req'[s].login = l
        /\ req'[s].session = cookie
        /\ \A q \in Slot \ {s} : req'[q] = req[q]
    BY DEF Decline, SoundInv, TypeOK
  <1>3. /\ login[l] # NotBegun
        /\ login' = [login EXCEPT ![l].pc = "called"]
    BY <1>1 DEF Decline, NotBegun
  <1>4. \A k \in Login \ {l} : login'[k] = login[k]
    BY <1>3, LoginMoves
  <1>5. NoVerifiers' /\ refused' \subseteq upset'
    BY <1>1, <1>2 DEF Calm, NoVerifiers
  <1>6. ASSUME NEW k \in Login \ upset'
        PROVE  CalmLogin(k)'
    BY <1>1, <1>4, <1>6 DEF Calm, CalmLogin, ConfiguredFor, Pending
  <1>7. ASSUME NEW q \in Slot, req'[q] # Free, req'[q].login \notin upset'
        PROVE  CalmRequest(q)'
    <2>1. /\ q # s /\ req'[q] = req[q] /\ CalmRequest(q)
          /\ req[q].login \in Login \ {l}
      BY <1>1, <1>2, <1>7, InFlightForms DEF Calm
    <2>2. \A o \in Slot : req'[o] # Free /\ req'[o].login = req[q].login
                            => o = q
      BY <1>2, <2>1 DEF CalmRequest
    <2>3. login'[req[q].login] = login[req[q].login]
      BY <1>4, <2>1
    <2>4. QED
      BY <1>1, <2>1, <2>2, <2>3 DEF CalmRequest
  <1>8. ASSUME NEW q \in Slot
        PROVE  Stray(q)'
    <2>1. CASE q = s \/ req[q].pc \notin {"retrieve", "delete"}
      BY <1>2, <2>1 DEF Stray
    <2>2. CASE q # s /\ req[q].pc \in {"retrieve", "delete"}
      <3>1. req[q].session.state \in Login \cup {None}
        BY <2>2, NotFree, InFlightForms DEF Session
      <3>2. QED
        BY <1>1, <1>2, <1>4, <2>2, <3>1 DEF Calm, Stray
    <2>3. QED
      BY <2>1, <2>2
  <1>9. QED
    BY <1>5, <1>6, <1>7, <1>8 DEF Calm

(* An answer that arrives upsets whatever else is on its way, so the       *)
(* cookie belongs to the only login that is calm and has been redirected.  *)
LEMMA ReceiveCalm ==
  ASSUME SoundInv, Calm, NEW s \in Slot, Receive(s)
  PROVE  Calm'
  <1> DEFINE l == req[s].login
  <1>1. /\ req[s] # Free /\ l \in Login /\ login[l] # NotBegun
        /\ RequestSound(s) /\ req[s].pc \in {"redirect", "answer"}
        /\ req[s].session.verifier = None
    BY ReceiveMoves DEF SoundInv, Receive, Calm, NoVerifiers
  <1>2. /\ cookie' = req[s].session /\ upset' = upset \cup (Pending \ {l})
        /\ UNCHANGED <<config, redis, redeemed, refused>>
    BY DEF Receive, outcome
  <1>3. PICK to \in {"redirect", "azure", "code", "called", "spent"} :
          /\ login' = [login EXCEPT ![l].pc = to]
          /\ req[s].pc = "redirect" => to = "azure"
          /\ req[s].pc = "answer" =>
               \/ login[l].pc = "called" /\ to = "spent"
               \/ login[l].pc # "called" /\ to = login[l].pc
    BY ReceiveMoves
  <1>4. /\ login'[l].pc = to
        /\ \A k \in Login \ {l} : login'[k] = login[k]
        /\ \A k \in Login :
             login[k] # NotBegun =>
               /\ login'[k].tenant = login[k].tenant
               /\ login'[k].challenged = login[k].challenged
    BY <1>1, <1>3, LoginMoves
  <1>5. /\ req'[s] = Free /\ \A q \in Slot \ {s} : req'[q] = req[q]
    BY DEF Receive, SoundInv, TypeOK
  <1>6. NoVerifiers' /\ refused' \subseteq upset'
    BY <1>1, <1>2, <1>5 DEF Calm, NoVerifiers
  <1>7. l \notin upset =>
          /\ CalmLogin(l)
          /\ \A q \in Slot : req[q] # Free /\ req[q].login = l => q = s
          /\ \/ req[s].pc = "redirect" /\ login[l].pc = "redirect"
                /\ to = "azure" /\ req[s].session.state = l
             \/ req[s].pc = "answer" /\ login[l].pc = "called"
                /\ to = "spent"
    BY <1>1, <1>3 DEF Calm, CalmRequest, RequestSound
  <1>8. ASSUME NEW k \in Login \ upset'
        PROVE  CalmLogin(k)'
    <2>1. CASE k = l
      <3>1. CASE to = "azure"
        BY <1>1, <1>2, <1>4, <1>7, <1>8, <2>1, <3>1
        DEF CalmLogin, ConfiguredFor, Pending
      <3>2. CASE to = "spent"
        BY <1>4, <2>1, <3>2 DEF CalmLogin, Pending
      <3>3. QED
        BY <1>2, <1>7, <1>8, <2>1, <3>1, <3>2
    <2>2. CASE k # l
      <3>1. k \notin Pending /\ login'[k] = login[k]
        BY <1>2, <1>4, <1>8, <2>2
      <3>2. QED
        BY <1>8, <3>1 DEF CalmLogin, Pending
    <2>3. QED
      BY <2>1, <2>2
  <1>9. ASSUME NEW q \in Slot, req'[q] # Free, req'[q].login \notin upset'
        PROVE  CalmRequest(q)'
    <2>1. q # s /\ req'[q] = req[q] /\ req[q].login \in Login
      BY <1>5, <1>9, InFlightForms
    <2>2. CalmRequest(q) /\ req[q].login # l
      BY <1>2, <1>7, <1>9, <2>1 DEF Calm
    <2>3. login'[req[q].login] = login[req[q].login]
      BY <1>4, <2>1, <2>2
    <2>4. \A o \in Slot : req'[o] # Free /\ req'[o].login = req[q].login
                            => o = q
      BY <1>5, <2>2 DEF CalmRequest
    <2>5. QED
      BY <1>2, <2>1, <2>2, <2>3, <2>4 DEF CalmRequest
  <1>10. ASSUME NEW q \in Slot
         PROVE  Stray(q)'
    <2>1. CASE q = s
      BY <1>5, <2>1 DEF Stray, Free
    <2>2. CASE q # s /\ req[q].pc \in {"retrieve", "delete"}
      <3>1. /\ req[q].session.state \in Login \cup {None} /\ Stray(q)
            /\ req'[q] = req[q]
        BY <1>5, <2>2, NotFree, InFlightForms DEF Session, Calm
      <3>2. req[q].session.state \in Login =>
              \/ login'[req[q].session.state] = login[req[q].session.state]
              \/ req[q].session.state = l
        BY <1>4
      <3>3. req[q].session.state = l /\ login[l].pc = "spent" =>
              login'[l].pc = "spent"
        BY <1>1, <1>3, <1>4 DEF RequestSound
      <3>4. QED
        BY <1>2, <2>2, <3>1, <3>2, <3>3, NoneAssumption DEF Stray
    <2>3. CASE q # s /\ req[q].pc \notin {"retrieve", "delete"}
      BY <1>5, <2>3 DEF Stray
    <2>4. QED
      BY <2>1, <2>2, <2>3
  <1>11. QED
    BY <1>6, <1>8, <1>9, <1>10 DEF Calm

LEMMA OutsideCalm ==
  ASSUME SoundInv, Calm,
         \/ \E l \in Login : SignIn(l) \/ Expire(l)
         \/ \E t \in Tenant, m \in Mode : Configure(t, m)
  PROVE  Calm'
  <1>1. ASSUME NEW l \in Login, Expire(l)
        PROVE  Calm'
    <2>1. /\ redis' = redis \ {l} /\ upset' = upset \cup {l}
          /\ UNCHANGED <<config, cookie, login, req, redeemed, refused>>
      BY <1>1 DEF Expire, outcome
    <2>2. \A k \in Login \ upset' : CalmLogin(k)'
      BY <2>1 DEF Calm, CalmLogin, ConfiguredFor, Pending
    <2>3. \A q \in Slot :
            req'[q] # Free /\ req'[q].login \notin upset' => CalmRequest(q)'
      BY <2>1 DEF Calm, CalmRequest
    <2>4. QED
      BY <2>1, <2>2, <2>3 DEF Calm, NoVerifiers, Stray
  <1>2. ASSUME NEW t \in Tenant, NEW m \in Mode, Configure(t, m)
        PROVE  Calm'
    <2>1. /\ config' = [config EXCEPT ![t] = m]
          /\ upset' = upset \cup {l \in Pending : login[l].tenant = t}
          /\ UNCHANGED <<cookie, redis, login, req, redeemed, refused>>
      BY <1>2 DEF Configure, outcome
    <2>2. ASSUME NEW k \in Login \ upset'
          PROVE  CalmLogin(k)'
      <3>1. CalmLogin(k) /\ Pending' = Pending
        BY <2>1, <2>2 DEF Calm, Pending
      <3>2. k \in Pending => config'[login[k].tenant] = config[login[k].tenant]
        <4>1. k \in Pending => login[k].tenant \in Tenant \ {t}
          BY <2>1, <2>2 DEF Pending, SoundInv, TypeOK, Begun, NotBegun
        <4>2. QED
          BY <2>1, <4>1 DEF SoundInv, TypeOK
      <3>3. QED
        BY <2>1, <3>1, <3>2 DEF CalmLogin, ConfiguredFor
    <2>3. ASSUME NEW q \in Slot, req'[q] # Free, req'[q].login \notin upset'
          PROVE  CalmRequest(q)'
      <3>1. CalmRequest(q) /\ req' = req /\ login' = login
        BY <2>1, <2>3 DEF Calm
      <3>2. req[q].login \in Login
        BY <2>1, <2>3, InFlightForms
      <3>3. login[req[q].login].pc \in {"redirect", "called"}
        BY <3>1 DEF CalmRequest
      <3>4. /\ req[q].login \in Pending
            /\ login[req[q].login].tenant \in Tenant \ {t}
        BY <2>1, <2>3, <3>1, <3>2, <3>3
        DEF Pending, SoundInv, TypeOK, Begun, NotBegun
      <3>5. config'[login[req[q].login].tenant]
              = config[login[req[q].login].tenant]
        BY <2>1, <3>4 DEF SoundInv, TypeOK
      <3>6. QED
        BY <2>1, <3>1, <3>5 DEF CalmRequest
    <2>4. QED
      BY <2>1, <2>2, <2>3 DEF Calm, NoVerifiers, Stray
  <1>3. ASSUME NEW l \in Login, SignIn(l)
        PROVE  Calm'
    <2>1. /\ login[l].pc = "azure" /\ login[l] # NotBegun
          /\ login' = [login EXCEPT ![l].pc = "code"]
          /\ UNCHANGED <<config, cookie, redis, req, redeemed, refused, upset>>
      BY <1>3 DEF SignIn, outcome, NotBegun
    <2>2. /\ login'[l].pc = "code"
          /\ \A k \in Login \ {l} : login'[k] = login[k]
          /\ login'[l].tenant = login[l].tenant
          /\ login'[l].challenged = login[l].challenged
      BY <2>1, LoginMoves
    <2>3. ASSUME NEW k \in Login \ upset'
          PROVE  CalmLogin(k)'
      <3>1. CalmLogin(k)
        BY <2>1, <2>3 DEF Calm
      <3>2. CASE k = l
        BY <2>1, <2>2, <3>1, <3>2 DEF CalmLogin, ConfiguredFor, Pending
      <3>3. CASE k # l
        BY <2>1, <2>2, <3>1, <3>3 DEF CalmLogin, ConfiguredFor, Pending
      <3>4. QED
        BY <3>2, <3>3
    <2>4. ASSUME NEW q \in Slot, req[q] # Free, req[q].login \notin upset
          PROVE  CalmRequest(q)'
      <3>1. CalmRequest(q) /\ req[q].login \in Login
        BY <2>4, InFlightForms DEF Calm
      <3>2. login'[req[q].login] = login[req[q].login]
        BY <2>1, <2>2, <3>1 DEF CalmRequest
      <3>3. QED
        BY <2>1, <3>1, <3>2 DEF CalmRequest
    <2>5. ASSUME NEW q \in Slot, req[q].pc \in {"retrieve", "delete"}
          PROVE  Stray(q)'
      <3>1. req[q].session.state \in Login \cup {None} /\ Stray(q)
        BY <2>5, NotFree, InFlightForms DEF Session, Calm
      <3>2. QED
        BY <2>1, <2>2, <2>5, <3>1 DEF Stray
    <2>6. \A q \in Slot : Stray(q)'
      BY <2>1, <2>5 DEF Stray
    <2>7. QED
      BY <2>1, <2>3, <2>4, <2>6 DEF Calm, NoVerifiers
  <1>4. QED
    BY <1>1, <1>2, <1>3

LEMMA StutterCalm ==
  ASSUME Calm, UNCHANGED vars
  PROVE  Calm'
  BY DEF vars, outcome, Calm, NoVerifiers, CalmLogin, CalmRequest, Stray,
     ConfiguredFor, Pending

(* Only a login that has begun is redeemed, and it stays begun.            *)
LEMMA RedeemedBegun ==
  ASSUME SoundInv, [Next]_vars, NEW l \in redeemed', l \in Login,
         \A k \in redeemed : login[k] # NotBegun
  PROVE  login'[l] # NotBegun
  <1>1. CASE l \in redeemed
    <2>1. login[l] # NotBegun
      BY <1>1
    <2>2. CASE UNCHANGED vars
      BY <2>1, <2>2 DEF vars
    <2>3. ASSUME NEW s \in Slot, NEW p \in Process, NEW k \in Login,
                 NEW t \in Tenant, Begin(s, p, k, t)
          PROVE  login'[l] # NotBegun
      BY <2>1, <2>3 DEF Begin, SoundInv, TypeOK
    <2>4. ASSUME NEW k \in Login, login[k] # NotBegun,
                 NEW to \in {"redirect", "azure", "code", "called", "spent"},
                 login' = [login EXCEPT ![k].pc = to]
          PROVE  login'[l] # NotBegun
      BY <2>1, <2>4, LoginMoves
    <2>5. ASSUME NEW s \in Slot, Receive(s)
          PROVE  login'[l] # NotBegun
      BY <2>4, <2>5, ReceiveMoves
    <2>6. ASSUME NEW s \in Slot, NEW k \in Login,
                 Callback(s, k) \/ Decline(s, k)
          PROVE  login'[l] # NotBegun
      BY <2>4, <2>6 DEF Callback, Decline, NotBegun
    <2>7. ASSUME NEW s \in Slot,
                 \/ \E p \in Process : \/ Retrieve(s, p)
                                      \/ RetrieveFromSession(s, p)
                                      \/ RetrieveFails(s, p)
                 \/ Delete(s) \/ Exchange(s)
                 \/ RefuseClaims(s) \/ ProcessLogin(s)
          PROVE  login'[l] # NotBegun
      <3>1. ASSUME NEW p \in Process,
                   \/ Retrieve(s, p) \/ RetrieveFromSession(s, p)
                   \/ RetrieveFails(s, p)
            PROVE  login' = login
        BY <3>1 DEF Retrieve, RetrieveFromSession, RetrieveFails
      <3>2. ASSUME \/ Delete(s) \/ Exchange(s)
                   \/ RefuseClaims(s) \/ ProcessLogin(s)
            PROVE  login' = login
        BY <3>2 DEF Delete, Exchange, RefuseClaims, ProcessLogin
      <3>3. QED
        BY <2>1, <2>7, <3>1, <3>2
    <2>8. ASSUME NEW k \in Login, SignIn(k)
          PROVE  login'[l] # NotBegun
      <3>1. login[k] # NotBegun
        BY <2>8 DEF SignIn, NotBegun
      <3>2. login' = [login EXCEPT ![k].pc = "code"]
        BY <2>8 DEF SignIn
      <3>3. QED
        BY <2>4, <3>1, <3>2 DEF NotBegun
    <2>9. ASSUME \/ \E k \in Login : Expire(k)
                 \/ \E t \in Tenant, m \in Mode : Configure(t, m)
          PROVE  login'[l] # NotBegun
      BY <2>1, <2>9 DEF Expire, Configure
    <2>10. QED
      BY <2>2, <2>3, <2>5, <2>6, <2>7, <2>8, <2>9 DEF Next
  <1>2. CASE l \notin redeemed
    <2>1. PICK s \in Slot : Exchange(s)
      <3>1. redeemed' # redeemed
        BY <1>2
      <3>2. ~UNCHANGED vars
        BY <3>1 DEF vars, outcome
      <3>3. ASSUME NEW s \in Slot, NEW k \in Login,
                   \/ \E p \in Process, t \in Tenant : Begin(s, p, k, t)
                   \/ Callback(s, k) \/ Decline(s, k)
            PROVE  FALSE
        BY <3>1, <3>3 DEF Begin, Callback, Decline, outcome
      <3>4. ASSUME NEW s \in Slot, NEW p \in Process,
                   \/ Retrieve(s, p) \/ RetrieveFromSession(s, p)
                   \/ RetrieveFails(s, p)
            PROVE  FALSE
        BY <3>1, <3>4
        DEF Retrieve, RetrieveFromSession, RetrieveFails, outcome
      <3>5. ASSUME NEW s \in Slot,
                   \/ Delete(s) \/ RefuseClaims(s)
                   \/ ProcessLogin(s) \/ Receive(s)
            PROVE  FALSE
        BY <3>1, <3>5
        DEF Delete, RefuseClaims, ProcessLogin, Receive, outcome
      <3>6. ASSUME \/ \E k \in Login : SignIn(k) \/ Expire(k)
                   \/ \E t \in Tenant, m \in Mode : Configure(t, m)
            PROVE  FALSE
        BY <3>1, <3>6 DEF SignIn, Expire, Configure, outcome
      <3>7. QED
        BY <3>2, <3>3, <3>4, <3>5, <3>6 DEF Next
    <2>2. /\ l = req[s].login /\ login' = login
      BY <1>2, <2>1 DEF Exchange
    <2>3. QED
      BY <2>1, <2>2, NotFree DEF Exchange, SoundInv, RequestSound
  <1>3. QED
    BY <1>1, <1>2

(* Which processes have a client of Redis was settled when they started:   *)
(* no step of a login, nor anything outside, changes it.                   *)
LEMMA ClientsKeep ==
  ASSUME [Next]_vars
  PROVE  client' = client
  <1>1. CASE UNCHANGED vars
    BY <1>1 DEF vars
  <1>2. CASE \/ \E l \in Login : SignIn(l) \/ Expire(l)
             \/ \E t \in Tenant, m \in Mode : Configure(t, m)
    BY <1>2 DEF SignIn, Expire, Configure
  <1>3. ASSUME NEW s \in Slot,
               \/ Delete(s) \/ Exchange(s) \/ RefuseClaims(s)
               \/ ProcessLogin(s) \/ Receive(s)
               \/ \E p \in Process : \/ Retrieve(s, p) \/ RetrieveFails(s, p)
                                     \/ RetrieveFromSession(s, p)
        PROVE  client' = client
    <2>1. CASE \E p \in Process : \/ Retrieve(s, p) \/ RetrieveFails(s, p)
                                  \/ RetrieveFromSession(s, p)
      BY <2>1 DEF Retrieve, RetrieveFromSession, RetrieveFails
    <2>2. QED
      BY <1>3, <2>1 DEF Delete, Exchange, RefuseClaims, ProcessLogin, Receive
  <1>4. ASSUME NEW s \in Slot, NEW l \in Login,
               \/ Callback(s, l) \/ Decline(s, l)
               \/ \E p \in Process, t \in Tenant : Begin(s, p, l, t)
        PROVE  client' = client
    BY <1>4 DEF Begin, Callback, Decline
  <1>5. QED
    BY <1>1, <1>2, <1>3, <1>4 DEF Next

LEMMA NextCalm == SoundInv /\ CalmInv /\ [Next]_vars => CalmInv'
  <1> SUFFICES ASSUME SoundInv, CalmInv, [Next]_vars
               PROVE  CalmInv'
    OBVIOUS
  <1>1. SoundInv' /\ redeemed' \subseteq Login
    BY NextSound DEF SoundInv, TypeOK
  <1>2. \A l \in redeemed' : login'[l] # NotBegun
    BY <1>1, RedeemedBegun DEF CalmInv
  <1>3. client' = client
    BY ClientsKeep
  <1>4. ASSUME AllHaveRedis
        PROVE  Calm'
    <2>1. Calm /\ \A k \in redeemed : login[k] # NotBegun
      BY <1>4 DEF CalmInv
    <2>2. CASE UNCHANGED vars
      BY <2>1, <2>2, StutterCalm
    <2>3. QED
      BY <1>1, <1>4, <2>1, <2>2, BeginCalm, CallbackCalm, DeclineCalm,
         RetrieveCalm, RetrieveFromSessionCalm, RetrieveFailsCalm,
         DeleteCalm, ExchangeCalm, RefuseClaimsCalm, ProcessLoginCalm,
         ReceiveCalm, OutsideCalm
      DEF Next
  <1>5. QED
    BY <1>2, <1>3, <1>4 DEF CalmInv, AllHaveRedis

(* With Redis everywhere, a login that nothing outside interferes with is  *)
(* not refused: its entry, its cookie and its configuration are there      *)
(* until its code is redeemed.                                             *)
THEOREM RefusedWithReason == Spec => []RefusedForAReason
  <1>1. CalmInv => RefusedForAReason
    BY DEF CalmInv, Calm, RefusedForAReason
  <1>2. QED
    BY <1>1, InitCalm, NextCalm, SoundCorrect, PTL DEF Spec
================================================================================
