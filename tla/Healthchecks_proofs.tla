------------------------- MODULE Healthchecks_proofs --------------------------
(***************************************************************************)
(* Proofs about the checks and the scripts that keep them in step: no      *)
(* script deletes a check that is named, and the start script ends with    *)
(* every check in place.  At the end, the types of the probes that ping    *)
(* those checks (Monitoring).                                              *)
(*                                                                         *)
(* The two modules share neither a variable nor a step.                    *)
(***************************************************************************)
EXTENDS Healthchecks, Monitoring, TLAPS

-----------------------------------------------------------------------------
(***************************************************************************)
(* The inductive invariant                                                 *)
(***************************************************************************)

(* RunOwns(run, s, u): the script has u as the id of s. *)
RunOwns(run, s, u) == run.known[s] = u \/ (run.at = s /\ run.made = u)

(* Somebody who rewrites the file in backend/ has u for s.                 *)
LinesOwn(change, s, u) ==
  u \in ToSet(change.lines[s]) \/ (change.at = s /\ change.id = u)

EditOwns(s, u) ==
  \E e \in Editor : edit[e] # Idle /\ LinesOwn(edit[e], s, u)

(* u is the id of s, or was, for somebody outside the scripts.             *)
FileOwns(s, u) ==
  \/ checks[u] = s
  \/ u \in ToSet(root[s]) \/ u \in ToSet(backend[s])
  \/ \E c \in Container : ids[c][s] = u
  \/ EditOwns(s, u)

Owns(s, u) ==
  \/ FileOwns(s, u)
  \/ \E a \in Admin : script[a] # Idle /\ RunOwns(script[a], s, u)

OneOwner ==
  \A u \in Uuid, s, t \in Service : Owns(s, u) /\ Owns(t, u) => s = t

(* The check that the root file has for s exists under the right name.     *)
Good(s) == checks[LastLine(root[s])] = s

(* What a script may delete is in no line of the root file.                *)
DeletesUnnamed(run) ==
  /\ (run.listed \cup {run.made}) \cap IdsIn(root) = {}
  /\ run.at = NoCheck => run.made = NoId

(* How far the start script is.                                            *)
StageShape(run) ==
  /\ run.stage \in {"orm", "copy", "worker"} => run.kind = "orm"
  /\ run.stage = "cleanup" => run.kind \in {"orm", "cleanup"}
  /\ run.kind = "cleanup" => run.stage \in {"none", "cleanup"}
  /\ run.stage \in {"copy", "worker", "cleanup"} =>
       run.todo = {} /\ run.failed = FALSE

Reconciles(run) ==
  /\ run.kind = "orm" =>
       /\ run.known = Effective(root)
       /\ run.todo \subseteq Named(root)
  /\ run.stage # "none" /\ run.failed = FALSE =>
       \A s \in Named(root) \ run.todo : Good(s)
  /\ run.stage = "cleanup" /\ run.stale = FALSE =>
       ids["worker"] = Effective(root)

RunInv(run) ==
  run \in Run /\ DeletesUnnamed(run) /\ StageShape(run) /\ Reconciles(run)

VarsType ==
  /\ checks \in [Uuid -> Service \cup {NoCheck}]
  /\ root \in [Service -> Seq(Uuid)]
  /\ backend \in [Service -> Seq(Uuid)]
  /\ ids \in [Container -> [Service -> Id]]
  /\ edit \in [Editor -> Edit \cup {Idle}]
  /\ tried \in [Process -> SUBSET Uuid]
  /\ runs \in 0..MaxRuns
  /\ events \in 0..MaxEvents

ScriptsInv ==
  /\ script \in [Admin -> Run \cup {Idle}]
  /\ \A a \in Admin : script[a] # Idle => RunInv(script[a])

IInv == VarsType /\ ScriptsInv /\ OneOwner

-----------------------------------------------------------------------------
(***************************************************************************)
(* Files and lines                                                         *)
(***************************************************************************)

LEMMA LastLineIsLine ==
  ASSUME NEW lines \in Seq(Uuid)
  PROVE  /\ LastLine(lines) \in Id
         /\ LastLine(lines) # NoId => LastLine(lines) \in ToSet(lines)
         /\ ToSet(lines) \subseteq Uuid
<1>1. ToSet(lines) \subseteq Uuid
  BY DEF ToSet
<1>2. CASE lines = <<>>
  BY <1>1, <1>2 DEF LastLine, Id
<1>3. CASE lines # <<>>
  <2>1. Len(lines) \in DOMAIN lines
    BY <1>3
  <2> QED
    BY <1>1, <1>3, <2>1 DEF LastLine, Last, ToSet, Id
<1> QED
  BY <1>2, <1>3

LEMMA EffectiveType ==
  ASSUME NEW file \in [Service -> Seq(Uuid)]
  PROVE  /\ Effective(file) \in [Service -> Id]
         /\ \A s \in Service : /\ Effective(file)[s] = LastLine(file[s])
                               /\ Effective(file)[s] # NoId =>
                                    Effective(file)[s] \in ToSet(file[s])
BY LastLineIsLine DEF Effective

LEMMA NamedLine ==
  ASSUME NEW file \in [Service -> Seq(Uuid)], NEW s \in Named(file)
  PROVE  /\ s \in Service
         /\ LastLine(file[s]) \in Uuid
         /\ LastLine(file[s]) \in ToSet(file[s])
         /\ LastLine(file[s]) \in IdsIn(file)
<1>1. s \in Service /\ LastLine(file[s]) # NoId
  BY DEF Named
<1> QED
  BY <1>1, LastLineIsLine DEF IdsIn

LEMMA LineAppended ==
  ASSUME NEW lines \in Seq(Uuid), NEW u \in Uuid
  PROVE  /\ Append(lines, u) \in Seq(Uuid)
         /\ ToSet(Append(lines, u)) \subseteq ToSet(lines) \cup {u}
BY DEF ToSet

LEMMA FirstLineChanged ==
  ASSUME NEW lines \in Seq(Uuid), NEW u \in Uuid, NEW new,
         new = IF lines = <<>> THEN <<u>> ELSE [lines EXCEPT ![1] = u]
  PROVE  new \in Seq(Uuid) /\ ToSet(new) \subseteq ToSet(lines) \cup {u}
<1>1. CASE lines = <<>>
  BY <1>1 DEF ToSet
<1>2. CASE lines # <<>>
  <2>1. /\ Len(lines) \in Nat /\ lines \in [1..Len(lines) -> Uuid]
    OBVIOUS
  <2>2. /\ new \in [1..Len(lines) -> Uuid]
        /\ \A i \in 1..Len(lines) : new[i] \in {lines[i], u}
    BY <1>2, <2>1
  <2> QED
    BY <2>1, <2>2 DEF ToSet
<1> QED
  BY <1>1, <1>2

-----------------------------------------------------------------------------
(***************************************************************************)
(* What a step of one script does to the invariant                         *)
(***************************************************************************)

LEMMA IdNotNoId == NoId \in Id /\ Uuid \subseteq Id /\ NoId \notin Uuid
BY NoIdAssumption DEF Id

LEMMA RunIsNotIdle ==
  ASSUME NEW run \in Run
  PROVE  run # Idle
BY DEF Run, Idle

LEMMA OwnedInUse ==
  ASSUME ScriptsInv, VarsType, NEW s \in Service, NEW u \in Uuid, Owns(s, u)
  PROVE  u \in InUse
<1>1. CASE checks[u] = s
  BY <1>1, NoCheckAssumption DEF InUse, Registered
<1>2. CASE u \in ToSet(root[s]) \/ u \in ToSet(backend[s])
  BY <1>2 DEF InUse, IdsIn
<1>3. CASE \E c \in Container : ids[c][s] = u
  BY <1>3 DEF InUse
<1>4. ASSUME NEW a \in Admin, script[a] # Idle, RunOwns(script[a], s, u)
      PROVE  u \in InUse
  <2>1. u \in Remembered(script[a])
    BY <1>4 DEF RunOwns, Remembered
  <2> QED
    BY <1>4, <2>1 DEF InUse
<1>5. ASSUME NEW e \in Editor, edit[e] # Idle, LinesOwn(edit[e], s, u)
      PROVE  u \in InUse
  <2>1. u \in Edited(edit[e])
    BY <1>5 DEF LinesOwn, Edited, IdsIn
  <2> QED
    BY <1>5, <2>1 DEF InUse
<1> QED
  BY <1>1, <1>2, <1>3, <1>4, <1>5 DEF Owns, FileOwns, EditOwns

LEMMA FreshIsUnnamed ==
  ASSUME NEW u \in Uuid \ InUse
  PROVE  u \notin IdsIn(root) /\ u \notin Registered
BY DEF InUse

(* A step that changes a check either gives it the name of its owner, or   *)
(* it is not in the root file.                                             *)
ChecksStep ==
  \A u \in Uuid : \/ checks'[u] = checks[u]
                  \/ u \notin IdsIn(root)
                  \/ checks'[u] \in Service /\ Owns(checks'[u], u)

Frame ==
  /\ root' = root
  /\ ids'["worker"] \in {ids["worker"], Effective(root)}
  /\ ChecksStep

LEMMA GoodKept ==
  ASSUME IInv, Frame, NEW s \in Named(root), Good(s)
  PROVE  Good(s)'
<1> DEFINE u == LastLine(root[s])
<1>1. s \in Service /\ u \in Uuid /\ u \in ToSet(root[s]) /\ u \in IdsIn(root)
  BY NamedLine DEF IInv, VarsType
<1>2. Owns(s, u)
  BY <1>1 DEF Owns, FileOwns
<1>3. checks'[u] = checks[u] \/ (checks'[u] \in Service /\ Owns(checks'[u], u))
  BY <1>1 DEF Frame, ChecksStep
<1>4. checks'[u] = s
  BY <1>1, <1>2, <1>3 DEF IInv, OneOwner, Good
<1> QED
  BY <1>4 DEF Good, Frame

LEMMA RunKept ==
  ASSUME IInv, Frame, NEW run, RunInv(run)
  PROVE  RunInv(run)'
<1>1. root' = root /\ IdsIn(root)' = IdsIn(root) /\ Named(root)' = Named(root)
      /\ Effective(root)' = Effective(root)
  BY DEF Frame, IdsIn, Named, Effective
<1>2. run \in Run /\ DeletesUnnamed(run)' /\ StageShape(run)'
  BY <1>1 DEF RunInv, DeletesUnnamed, StageShape
<1>3. Reconciles(run)'
  BY <1>1, GoodKept DEF RunInv, Reconciles, Frame
<1> QED
  BY <1>2, <1>3 DEF RunInv

(* What others own they had already, but for a new check v of service r.   *)
LEMMA OwnersKept ==
  ASSUME IInv, NEW r, NEW v, v \notin Uuid \cap InUse,
         \A s \in Service, u \in Uuid :
           Owns(s, u)' => Owns(s, u) \/ (u = v /\ s = r)
  PROVE  OneOwner'
<1> SUFFICES ASSUME NEW u \in Uuid, NEW s \in Service, NEW t \in Service,
                    Owns(s, u)', Owns(t, u)'
             PROVE  s = t
  BY DEF OneOwner
<1>1. CASE u = v
  BY <1>1, OwnedInUse DEF IInv
<1>2. CASE u # v
  BY <1>2 DEF IInv, OneOwner
<1> QED
  BY <1>1, <1>2

(* A step of script a, which is `run` and becomes `new`.                   *)
Becomes(a, new) == script' = [script EXCEPT ![a] = new]

LEMMA StepKeeps ==
  ASSUME IInv, VarsType', Frame, NEW a \in Admin, NEW new, Becomes(a, new),
         new = Idle \/ RunInv(new)',
         NEW r, NEW v, v \notin Uuid \cap InUse,
         \A s \in Service, u \in Uuid :
           FileOwns(s, u)' => Owns(s, u) \/ (u = v /\ s = r),
         new = Idle \/ \A s \in Service, u \in Uuid :
           RunOwns(new, s, u) => Owns(s, u) \/ (u = v /\ s = r)
  PROVE  IInv'
<1>1. script \in [Admin -> Run \cup {Idle}]
  BY DEF IInv, ScriptsInv
<1>2. /\ script'[a] = new
      /\ \A b \in Admin : b # a => script'[b] = script[b]
  BY <1>1 DEF Becomes
<1>3. new \in Run \cup {Idle}
  BY DEF RunInv
<1>4. script' \in [Admin -> Run \cup {Idle}]
  BY <1>1, <1>3 DEF Becomes
<1>5. ASSUME NEW b \in Admin, script'[b] # Idle
      PROVE  RunInv(script[b])'
  <2>1. CASE b = a
    <3>1. RunInv(new)' /\ script'[b] = new
      BY <1>2, <1>5, <2>1
    <3> QED
      BY <3>1 DEF RunInv, DeletesUnnamed, StageShape, Reconciles
  <2>2. CASE b # a
    <3>1. PICK run : run = script[b]
      OBVIOUS
    <3>2. RunInv(run)
      BY <1>2, <1>5, <2>2, <3>1 DEF IInv, ScriptsInv
    <3>3. RunInv(run)'
      BY <3>2, RunKept
    <3>4. script'[b] = run
      BY <1>2, <2>2, <3>1
    <3> QED
      BY <3>3, <3>4 DEF RunInv, DeletesUnnamed, StageShape, Reconciles
  <2> QED
    BY <2>1, <2>2
<1>6. ScriptsInv'
  BY <1>4, <1>5 DEF ScriptsInv
<1>7. ASSUME NEW s \in Service, NEW u \in Uuid, Owns(s, u)'
      PROVE  Owns(s, u) \/ (u = v /\ s = r)
  <2>1. CASE FileOwns(s, u)'
    BY <2>1
  <2>2. ASSUME NEW b \in Admin, script'[b] # Idle, RunOwns(script'[b], s, u)
        PROVE  Owns(s, u) \/ (u = v /\ s = r)
    <3>1. CASE b = a
      BY <1>2, <2>2, <3>1
    <3>2. CASE b # a
      BY <1>2, <2>2, <3>2 DEF Owns
    <3> QED
      BY <3>1, <3>2
  <2>3. (\E b \in Admin : script[b] # Idle /\ RunOwns(script[b], s, u))'
          => \E b \in Admin : script'[b] # Idle /\ RunOwns(script'[b], s, u)
    BY DEF RunOwns
  <2> QED
    BY <1>7, <2>1, <2>2, <2>3 DEF Owns
<1>8. OneOwner'
  BY <1>7, OwnersKept
<1> QED
  BY <1>6, <1>8 DEF IInv

(* Without a new check.                                                    *)
LEMMA QuietStepKeeps ==
  ASSUME IInv, VarsType', Frame, NEW a \in Admin, NEW new, Becomes(a, new),
         new = Idle \/ RunInv(new)',
         \A s \in Service, u \in Uuid : FileOwns(s, u)' => Owns(s, u),
         new = Idle \/ \A s \in Service, u \in Uuid :
           RunOwns(new, s, u) => Owns(s, u)
  PROVE  IInv'
<1>1. NoId \notin Uuid \cap InUse
  BY IdNotNoId
<1>2. \A u \in Uuid : u # NoId
  BY IdNotNoId
<1> QED
  BY <1>1, <1>2, StepKeeps

-----------------------------------------------------------------------------
(***************************************************************************)
(* Steps by what they change                                               *)
(***************************************************************************)

LEMMA RunOf ==
  ASSUME IInv, NEW a \in Admin, NEW run, run = script[a], run # Idle
  PROVE  /\ run \in Run /\ RunInv(run)
         /\ \A s \in Service, u \in Uuid : RunOwns(run, s, u) => Owns(s, u)
<1>1. RunInv(run)
  BY DEF IInv, ScriptsInv, RunInv, DeletesUnnamed, StageShape, Reconciles
<1>2. \A s \in Service, u \in Uuid : RunOwns(run, s, u) => Owns(s, u)
  BY DEF Owns
<1> QED
  BY <1>1, <1>2 DEF RunInv

LEMMA NothingChanges ==
  ASSUME IInv, UNCHANGED <<checks, root, backend, edit, ids>>
  PROVE  /\ Frame
         /\ \A s \in Service, u \in Uuid : FileOwns(s, u)' => Owns(s, u)
<1>1. Frame
  BY DEF Frame, ChecksStep
<1>2. \A s \in Service, u \in Uuid : FileOwns(s, u)' => FileOwns(s, u)
  BY DEF FileOwns, EditOwns, LinesOwn
<1> QED
  BY <1>1, <1>2 DEF Owns

LEMMA CheckChanges ==
  ASSUME IInv, UNCHANGED <<root, backend, edit, ids>>,
         NEW v \in Uuid, NEW n \in Service \cup {NoCheck},
         checks' = [checks EXCEPT ![v] = n],
         v \notin IdsIn(root) \/ (n \in Service /\ Owns(n, v))
  PROVE  /\ Frame
         /\ checks' \in [Uuid -> Service \cup {NoCheck}]
         /\ \A s \in Service, u \in Uuid :
              FileOwns(s, u)' => Owns(s, u) \/ (u = v /\ s = n)
<1>1. checks \in [Uuid -> Service \cup {NoCheck}]
  BY DEF IInv, VarsType
<1>2. checks'[v] = n /\ \A u \in Uuid : u # v => checks'[u] = checks[u]
  BY <1>1
<1>3. Frame
  BY <1>2 DEF Frame, ChecksStep
<1>4. ASSUME NEW s \in Service, NEW u \in Uuid, FileOwns(s, u)'
      PROVE  FileOwns(s, u) \/ (u = v /\ s = n)
  BY <1>2, <1>4 DEF FileOwns, EditOwns, LinesOwn
<1> QED
  BY <1>1, <1>3, <1>4 DEF Owns

(* A check gets the name of the service that owns its id.                  *)
LEMMA CheckIsNamed ==
  ASSUME IInv, UNCHANGED <<root, backend, edit, ids>>,
         NEW v \in Uuid, NEW n \in Service, Owns(n, v),
         checks' \in {checks, [checks EXCEPT ![v] = n]}
  PROVE  /\ Frame
         /\ checks' \in [Uuid -> Service \cup {NoCheck}]
         /\ \A s \in Service, u \in Uuid : FileOwns(s, u)' => Owns(s, u)
<1>1. CASE checks' = checks
  BY <1>1, NothingChanges DEF IInv, VarsType
<1>2. CASE checks' = [checks EXCEPT ![v] = n]
  <2>1. /\ Frame
        /\ checks' \in [Uuid -> Service \cup {NoCheck}]
        /\ \A s \in Service, u \in Uuid :
             FileOwns(s, u)' => Owns(s, u) \/ (u = v /\ s = n)
    BY <1>2, CheckChanges
  <2> QED
    BY <2>1
<1> QED
  BY <1>1, <1>2

(* A check with an unnamed id is deleted, or not.                          *)
LEMMA CheckIsDeleted ==
  ASSUME IInv, UNCHANGED <<root, backend, edit, ids>>,
         NEW v \in Id \ IdsIn(root),
         checks' \in {checks, [checks EXCEPT ![v] = NoCheck]}
  PROVE  /\ Frame
         /\ checks' \in [Uuid -> Service \cup {NoCheck}]
         /\ \A s \in Service, u \in Uuid : FileOwns(s, u)' => Owns(s, u)
<1>1. checks \in [Uuid -> Service \cup {NoCheck}]
  BY DEF IInv, VarsType
<1>2. CASE checks' = checks
  BY <1>1, <1>2, NothingChanges
<1>3. CASE v \in Uuid /\ checks' = [checks EXCEPT ![v] = NoCheck]
  <2>1. /\ Frame
        /\ checks' \in [Uuid -> Service \cup {NoCheck}]
        /\ \A s \in Service, u \in Uuid :
             FileOwns(s, u)' => Owns(s, u) \/ (u = v /\ s = NoCheck)
    BY <1>3, CheckChanges
  <2> QED
    BY <2>1, NoCheckAssumption
<1>4. CASE v \notin Uuid /\ checks' = [checks EXCEPT ![v] = NoCheck]
  <2>1. checks' = checks
    BY <1>1, <1>4
  <2> QED
    BY <1>2, <2>1
<1> QED
  BY <1>2, <1>3, <1>4

LEMMA CheckIsCreated ==
  ASSUME IInv, UNCHANGED <<root, backend, edit, ids>>,
         NEW v, NEW n \in Service, CreateCheck(v, n)
  PROVE  /\ v \in Uuid /\ v \notin InUse /\ v \notin IdsIn(root)
         /\ Frame
         /\ checks' \in [Uuid -> Service \cup {NoCheck}]
         /\ \A s \in Service, u \in Uuid :
              FileOwns(s, u)' => Owns(s, u) \/ (u = v /\ s = n)
<1>1. /\ v \in Uuid \ InUse /\ v \notin IdsIn(root)
      /\ checks' = [checks EXCEPT ![v] = n]
  BY FreshIsUnnamed DEF CreateCheck
<1> QED
  BY <1>1, CheckChanges

LEMMA RootHasIds ==
  ASSUME VarsType
  PROVE  /\ IdsIn(root) \subseteq Uuid /\ NoId \notin IdsIn(root)
         /\ Effective(root) \in [Service -> Id]
<1>1. \A s \in Service : root[s] \in Seq(Uuid)
  BY DEF VarsType
<1>2. \A s \in Service : ToSet(root[s]) \subseteq Uuid
  BY <1>1, LastLineIsLine
<1>3. IdsIn(root) \subseteq Uuid
  BY <1>2 DEF IdsIn
<1>4. Effective(root) \in [Service -> Id]
  BY EffectiveType DEF VarsType
<1> QED
  BY <1>3, <1>4, IdNotNoId

(* Scripts that are not part of a start are at no stage of it.             *)
LEMMA NoStage ==
  ASSUME NEW run \in Run, StageShape(run),
         run.kind \in {"ensure", "sync", "setup"}
  PROVE  run.stage = "none"
BY DEF Run, StageShape

LEMMA DoneKeeps ==
  ASSUME IInv, VarsType', Frame, NEW a \in Admin, NEW run, run = script[a],
         run # Idle, run.kind \in {"ensure", "sync"},
         NEW s \in Service, Done(a, s),
         \A t \in Service, u \in Uuid : FileOwns(t, u)' => Owns(t, u)
  PROVE  IInv'
<1> DEFINE new == IF run.todo = {s} THEN Idle
                  ELSE [run EXCEPT !.todo = @ \ {s}, !.at = NoCheck,
                                   !.made = NoId]
<1>1. /\ run \in Run /\ RunInv(run)
      /\ \A t \in Service, u \in Uuid : RunOwns(run, t, u) => Owns(t, u)
  BY RunOf
<1>2. Becomes(a, new)
  BY DEF Done, Becomes
<1>3. CASE run.todo = {s}
  BY <1>2, <1>3, QuietStepKeeps
<1>4. CASE run.todo # {s}
  <2>1. /\ new \in Run
        /\ new.kind = run.kind /\ new.stage = run.stage
        /\ new.known = run.known /\ new.listed = run.listed
        /\ new.at = NoCheck /\ new.made = NoId
    BY <1>1, <1>4, IdNotNoId DEF Run
  <2>2. run.stage = "none" /\ run.kind \notin {"orm", "cleanup"}
    BY <1>1, NoStage DEF RunInv
  <2>3. NoId \notin IdsIn(root)
    BY RootHasIds DEF IInv
  <2> HIDE DEF new
  <2>4. RunInv(new)
    BY <1>1, <2>1, <2>2, <2>3
       DEF RunInv, DeletesUnnamed, StageShape, Reconciles
  <2>5. RunInv(new)'
    BY <2>4, RunKept
  <2>6. \A t \in Service, u \in Uuid : RunOwns(new, t, u) => Owns(t, u)
    BY <1>1, <2>1, NoCheckAssumption DEF RunOwns
  <2> QED
    BY <1>2, <2>5, <2>6, QuietStepKeeps
<1> QED
  BY <1>3, <1>4

(* A script that has not made anything yet.                                *)
LEMMA NewRunFacts ==
  ASSUME NEW kind, NEW stage, NEW known, NEW todo
  PROVE  LET run == NewRun(kind, stage, known, todo) IN
         /\ run.kind = kind /\ run.stage = stage /\ run.known = known
         /\ run.todo = todo /\ run.at = NoCheck /\ run.made = NoId
         /\ run.listed = {}
         /\ /\ kind \in {"ensure", "sync", "setup", "orm", "cleanup"}
            /\ stage \in {"none", "orm", "copy", "worker", "cleanup"}
            /\ known \in [Service -> Id] /\ todo \subseteq Service
            => run \in Run
BY IdNotNoId DEF NewRun, Run

LEMMA NewRunGoesWell ==
  ASSUME NEW kind, NEW stage, NEW known, NEW todo
  PROVE  NewRun(kind, stage, known, todo).failed = FALSE
BY DEF NewRun

LEMMA StartKeeps ==
  ASSUME IInv, VarsType', Frame, NEW a \in Admin, NEW new, Start(a, new),
         RunInv(new),
         \A s \in Service, u \in Uuid : FileOwns(s, u)' => Owns(s, u),
         \A s \in Service, u \in Uuid : RunOwns(new, s, u) => Owns(s, u)
  PROVE  IInv'
<1>1. Becomes(a, new)
  BY DEF Start, Becomes
<1>2. RunInv(new)'
  BY RunKept
<1> QED
  BY <1>1, <1>2, QuietStepKeeps

LEMMA StartType ==
  ASSUME VarsType, NEW a, NEW new, Start(a, new)
  PROVE  runs' \in 0..MaxRuns
BY BoundsAssumption DEF VarsType, Start

LEMMA KnownIsOwned ==
  ASSUME IInv
  PROVE  /\ KnownInContainer \in [Service -> Id]
         /\ \A s \in Service, u \in Uuid :
              KnownInContainer[s] = u => Owns(s, u)
<1>1. /\ ids["api"] \in [Service -> Id]
      /\ \A s \in Service : backend[s] \in Seq(Uuid)
  BY DEF IInv, VarsType, Container
<1>2. KnownInContainer \in [Service -> Id]
  BY <1>1, LastLineIsLine DEF KnownInContainer
<1>3. ASSUME NEW s \in Service, NEW u \in Uuid, KnownInContainer[s] = u
      PROVE  FileOwns(s, u)
  <2>1. CASE ids["api"][s] # NoId
    BY <1>3, <2>1 DEF KnownInContainer, FileOwns, Container
  <2>2. CASE ids["api"][s] = NoId
    <3>1. LastLine(backend[s]) = u
      BY <1>3, <2>2 DEF KnownInContainer
    <3>2. u \in ToSet(backend[s])
      BY <1>1, <3>1, LastLineIsLine, IdNotNoId
    <3> QED
      BY <3>2 DEF FileOwns
  <2> QED
    BY <2>1, <2>2
<1> QED
  BY <1>2, <1>3 DEF Owns

LEMMA SimpleStartKeeps ==
  ASSUME IInv, UNCHANGED <<checks, root, backend, edit, ids, tried, events>>,
         NEW a \in Admin, NEW kind \in {"ensure", "sync", "setup"},
         NEW known \in [Service -> Id], NEW todo \in SUBSET Service,
         Start(a, NewRun(kind, "none", known, todo)),
         \A s \in Service, u \in Uuid : known[s] = u => Owns(s, u)
  PROVE  IInv'
<1> DEFINE new == NewRun(kind, "none", known, todo)
<1>1. VarsType'
  BY StartType DEF IInv, VarsType
<1>2. /\ new \in Run
      /\ new.kind = kind /\ new.stage = "none" /\ new.known = known
      /\ new.at = NoCheck /\ new.made = NoId /\ new.listed = {}
  BY NewRunFacts
<1>3. Start(a, new)
  OBVIOUS
<1> HIDE DEF new
<1>4. RunInv(new)
  BY <1>2, RootHasIds
     DEF IInv, RunInv, DeletesUnnamed, StageShape, Reconciles
<1>5. \A s \in Service, u \in Uuid : RunOwns(new, s, u) => Owns(s, u)
  BY <1>2, NoCheckAssumption DEF RunOwns
<1> QED
  BY <1>1, <1>3, <1>4, <1>5, NothingChanges, StartKeeps

-----------------------------------------------------------------------------
(***************************************************************************)
(* Every action keeps the invariant                                        *)
(***************************************************************************)

LEMMA StartEnsureKeeps ==
  ASSUME IInv, NEW a \in Admin, StartEnsure(a) PROVE IInv'
BY KnownIsOwned, SimpleStartKeeps DEF StartEnsure

LEMMA StartSyncKeeps ==
  ASSUME IInv, NEW a \in Admin, StartSync(a) PROVE IInv'
<1>1. {s \in Service : KnownInContainer[s] # NoId} \in SUBSET Service
  OBVIOUS
<1> QED
  BY <1>1, KnownIsOwned, SimpleStartKeeps DEF StartSync

LEMMA StartSetupKeeps ==
  ASSUME IInv, NEW a \in Admin, StartSetup(a) PROVE IInv'
<1>1. PICK known \in [Service -> Id] :
        /\ \/ \A s \in Service :
                IF \E u \in Uuid : checks[u] = s
                THEN known[s] # NoId /\ checks[known[s]] = s
                ELSE known[s] = NoId
           \/ known = [s \in Service |-> NoId]
        /\ Start(a, NewRun("setup", "none", known, Service))
  BY DEF StartSetup
<1>2. ASSUME NEW s \in Service, NEW u \in Uuid, known[s] = u
      PROVE  Owns(s, u)
  <2>1. checks[u] = s
    BY <1>1, <1>2, IdNotNoId
  <2> QED
    BY <2>1 DEF Owns, FileOwns
<1> QED
  BY <1>1, <1>2, SimpleStartKeeps DEF StartSetup

LEMMA EnsureFindsKeeps ==
  ASSUME IInv, NEW a \in Admin, NEW s \in Service, EnsureFinds(a, s)
  PROVE  IInv'
<1>1. PICK run : run = script[a]
  OBVIOUS
<1>2. /\ run # Idle /\ run.kind = "ensure"
      /\ run.known[s] \in Registered
      /\ checks' \in {checks, [checks EXCEPT ![run.known[s]] = s]}
      /\ Done(a, s)
      /\ UNCHANGED <<root, backend, edit, ids, tried, runs, events>>
  BY <1>1 DEF EnsureFinds, Takes, Runs
<1>3. run.known[s] \in Uuid
  BY <1>2 DEF Registered
<1>4. Owns(s, run.known[s])
  BY <1>1, <1>2, <1>3, RunOf DEF RunOwns
<1>5. /\ Frame
      /\ checks' \in [Uuid -> Service \cup {NoCheck}]
      /\ \A t \in Service, u \in Uuid : FileOwns(t, u)' => Owns(t, u)
  BY <1>2, <1>3, <1>4, CheckIsNamed
<1>6. VarsType'
  BY <1>2, <1>5 DEF IInv, VarsType
<1> QED
  BY <1>1, <1>2, <1>5, <1>6, DoneKeeps

(* The script remembers what it is about.                                  *)
LEMMA RunChanges ==
  ASSUME IInv, UNCHANGED <<checks, root, backend, edit, ids, tried, runs>>,
         events' \in 0..MaxEvents,
         NEW a \in Admin, NEW new, Becomes(a, new),
         new = Idle \/ RunInv(new),
         new = Idle \/ \A s \in Service, u \in Uuid :
           RunOwns(new, s, u) => Owns(s, u)
  PROVE  IInv'
<1>1. VarsType'
  BY DEF IInv, VarsType
<1>2. new = Idle \/ RunInv(new)'
  BY NothingChanges, RunKept
<1> QED
  BY <1>1, <1>2, NothingChanges, QuietStepKeeps

LEMMA EnsureMissesKeeps ==
  ASSUME IInv, NEW a \in Admin, NEW s \in Service, EnsureMisses(a, s)
  PROVE  IInv'
<1>1. PICK run : run = script[a]
  OBVIOUS
<1> DEFINE new == [run EXCEPT !.at = s]
<1>2. /\ run # Idle /\ run.kind = "ensure" /\ run.at = NoCheck
      /\ Becomes(a, new)
      /\ UNCHANGED <<checks, root, backend, edit, ids, tried, runs, events>>
  BY <1>1 DEF EnsureMisses, Takes, Runs, Becomes
<1>3. /\ run \in Run /\ RunInv(run)
      /\ \A t \in Service, u \in Uuid : RunOwns(run, t, u) => Owns(t, u)
  BY <1>1, <1>2, RunOf
<1>4. /\ new \in Run /\ new.kind = run.kind /\ new.stage = run.stage
      /\ new.known = run.known /\ new.made = run.made
      /\ new.listed = run.listed /\ new.at = s
  BY <1>3 DEF Run
<1>5. run.made = NoId /\ run.stage = "none"
  BY <1>2, <1>3, NoStage DEF RunInv, DeletesUnnamed
<1> HIDE DEF new
<1>6. RunInv(new)
  BY <1>2, <1>3, <1>4, <1>5, NoCheckAssumption
     DEF RunInv, DeletesUnnamed, StageShape, Reconciles
<1>7. \A t \in Service, u \in Uuid : RunOwns(new, t, u) => Owns(t, u)
  BY <1>3, <1>4, <1>5, IdNotNoId DEF RunOwns
<1>8. events' \in 0..MaxEvents
  BY <1>2 DEF IInv, VarsType
<1> QED
  BY <1>2, <1>6, <1>7, <1>8, RunChanges

(* A check is created by script a.                                         *)
LEMMA CreationKeeps ==
  ASSUME IInv, UNCHANGED <<root, backend, edit, ids, tried, runs, events>>,
         NEW a \in Admin, NEW v, NEW s \in Service, CreateCheck(v, s),
         NEW new, Becomes(a, new), RunInv(new),
         \A t \in Service, u \in Uuid :
           RunOwns(new, t, u) => Owns(t, u) \/ (u = v /\ t = s)
  PROVE  IInv'
<1>1. /\ v \in Uuid /\ v \notin InUse /\ Frame
      /\ checks' \in [Uuid -> Service \cup {NoCheck}]
      /\ \A t \in Service, u \in Uuid :
           FileOwns(t, u)' => Owns(t, u) \/ (u = v /\ t = s)
  BY CheckIsCreated
<1>2. VarsType'
  BY <1>1 DEF IInv, VarsType
<1>3. RunInv(new)'
  BY <1>1, RunKept
<1> QED
  BY <1>1, <1>2, <1>3, StepKeeps

(* The file in backend/ is written by somebody who has rewritten its lines,*)
(* or gets a line: whoever owned an id before is its owner.                *)
LEMMA LineOwner ==
  ASSUME NEW e \in Editor, edit[e] # Idle,
         NEW s \in Service, NEW u \in Uuid, LinesOwn(edit[e], s, u)
  PROVE  FileOwns(s, u)
BY DEF FileOwns, EditOwns

LEMMA EditType ==
  ASSUME VarsType, NEW e \in Editor, edit[e] # Idle
  PROVE  /\ edit[e] \in Edit
         /\ edit[e].at \in Service /\ edit[e].id \in Uuid
         /\ edit[e].lines \in [Service -> Seq(Uuid)]
BY DEF VarsType, Edit

LEMMA BackendWritten ==
  ASSUME IInv, UNCHANGED <<checks, root, ids>>,
         NEW E \in SUBSET Editor,
         edit' = [e \in Editor |-> IF e \in E THEN Idle ELSE edit[e]],
         backend' \in [Service -> Seq(Uuid)],
         \A s \in Service, u \in Uuid :
           u \in ToSet(backend'[s]) => FileOwns(s, u)
  PROVE  /\ Frame
         /\ edit' \in [Editor -> Edit \cup {Idle}]
         /\ \A s \in Service, u \in Uuid : FileOwns(s, u)' => FileOwns(s, u)
<1>1. Frame
  BY DEF Frame, ChecksStep
<1>2. edit' \in [Editor -> Edit \cup {Idle}]
  BY DEF IInv, VarsType
<1>3. ASSUME NEW s \in Service, NEW u \in Uuid, FileOwns(s, u)'
      PROVE  FileOwns(s, u)
  <2>1. /\ ToSet(root[s])' = ToSet(root[s])
        /\ ToSet(backend[s])' = ToSet(backend'[s])
    BY DEF ToSet
  <2>2. CASE EditOwns(s, u)'
    <3>1. PICK e \in Editor : edit'[e] # Idle /\ LinesOwn(edit'[e], s, u)
      BY <2>2 DEF EditOwns, LinesOwn, Idle, ToSet
    <3>2. edit[e] = edit'[e]
      BY <3>1
    <3> QED
      BY <3>1, <3>2, LineOwner
  <2> QED
    BY <1>3, <2>1, <2>2 DEF FileOwns
<1> QED
  BY <1>1, <1>2, <1>3

LEMMA EnvFileWritten ==
  ASSUME IInv, UNCHANGED <<checks, root, ids>>,
         NEW e \in Editor, edit[e] # Idle, WriteEnvFile(e)
  PROVE  /\ Frame
         /\ backend' \in [Service -> Seq(Uuid)]
         /\ edit' \in [Editor -> Edit \cup {Idle}]
         /\ \A s \in Service, u \in Uuid : FileOwns(s, u)' => FileOwns(s, u)
<1> DEFINE s == edit[e].at
           v == edit[e].id
           read == edit[e].lines
           line == IF read[s] = <<>> THEN <<v>> ELSE [read[s] EXCEPT ![1] = v]
<1>1. /\ s \in Service /\ v \in Uuid /\ read \in [Service -> Seq(Uuid)]
      /\ read[s] \in Seq(Uuid)
  BY EditType DEF IInv
<1>2. /\ backend' = [read EXCEPT ![s] = line]
      /\ edit' = [d \in Editor |-> IF d \in {e} THEN Idle ELSE edit[d]]
  BY DEF WriteEnvFile, IInv, VarsType
<1>3. line \in Seq(Uuid) /\ ToSet(line) \subseteq ToSet(read[s]) \cup {v}
  BY <1>1, FirstLineChanged
<1>4. /\ \A t \in Service, u \in Uuid :
           u \in ToSet(read[t]) => FileOwns(t, u)
      /\ FileOwns(s, v)
  BY <1>1, LineOwner DEF LinesOwn
<1> HIDE DEF s, v, read, line
<1>5. backend' \in [Service -> Seq(Uuid)]
  BY <1>1, <1>2, <1>3
<1>6. ASSUME NEW t \in Service, NEW u \in Uuid, u \in ToSet(backend'[t])
      PROVE  FileOwns(t, u)
  <2>1. CASE t = s
    <3>1. backend'[t] = line
      BY <1>1, <1>2, <2>1
    <3> QED
      BY <1>3, <1>4, <1>6, <2>1, <3>1
  <2>2. CASE t # s
    <3>1. backend'[t] = read[t]
      BY <1>1, <1>2, <2>2
    <3> QED
      BY <1>4, <1>6, <3>1
  <2> QED
    BY <2>1, <2>2
<1>7. {e} \in SUBSET Editor
  OBVIOUS
<1> QED
  BY <1>2, <1>5, <1>6, <1>7, BackendWritten

LEMMA LineAdded ==
  ASSUME IInv, UNCHANGED <<checks, root, ids>>,
         NEW e \in Editor, edit[e] # Idle,
         backend' = [backend EXCEPT ![edit[e].at] = Append(@, edit[e].id)],
         edit' = [edit EXCEPT ![e] = Idle]
  PROVE  /\ Frame
         /\ backend' \in [Service -> Seq(Uuid)]
         /\ edit' \in [Editor -> Edit \cup {Idle}]
         /\ \A s \in Service, u \in Uuid : FileOwns(s, u)' => FileOwns(s, u)
<1> DEFINE s == edit[e].at
           v == edit[e].id
<1>1. /\ s \in Service /\ v \in Uuid
      /\ backend \in [Service -> Seq(Uuid)] /\ backend[s] \in Seq(Uuid)
  BY EditType DEF IInv, VarsType
<1>2. /\ backend' = [backend EXCEPT ![s] = Append(backend[s], v)]
      /\ edit' = [d \in Editor |-> IF d \in {e} THEN Idle ELSE edit[d]]
  BY DEF IInv, VarsType
<1>3. FileOwns(s, v)
  BY <1>1, LineOwner DEF LinesOwn
<1> HIDE DEF s, v
<1>4. /\ Append(backend[s], v) \in Seq(Uuid)
      /\ ToSet(Append(backend[s], v)) \subseteq ToSet(backend[s]) \cup {v}
  BY <1>1, LineAppended
<1>5. backend' \in [Service -> Seq(Uuid)]
  BY <1>1, <1>2, <1>4
<1>6. ASSUME NEW t \in Service, NEW u \in Uuid, u \in ToSet(backend'[t])
      PROVE  FileOwns(t, u)
  <2>1. CASE t = s
    <3>1. backend'[t] = Append(backend[s], v)
      BY <1>1, <1>2, <2>1
    <3> QED
      BY <1>3, <1>4, <1>6, <2>1, <3>1 DEF FileOwns
  <2>2. CASE t # s
    <3>1. backend'[t] = backend[t]
      BY <1>1, <1>2, <2>2
    <3> QED
      BY <1>6, <3>1 DEF FileOwns
  <2> QED
    BY <2>1, <2>2
<1> QED
  BY <1>2, <1>5, <1>6, BackendWritten

(* Those in E do not write any more, and may leave an empty file.          *)
LEMMA EditsEnded ==
  ASSUME IInv, UNCHANGED <<checks, root, ids>>,
         NEW E \in SUBSET Editor, EditsEnd(E)
  PROVE  /\ Frame
         /\ backend' \in [Service -> Seq(Uuid)]
         /\ edit' \in [Editor -> Edit \cup {Idle}]
         /\ \A s \in Service, u \in Uuid : FileOwns(s, u)' => FileOwns(s, u)
<1>1. \/ backend' = backend
      \/ backend' = [s \in Service |-> <<>>]
  BY DEF EditsEnd
<1>2. backend' \in [Service -> Seq(Uuid)]
  <2>1. backend \in [Service -> Seq(Uuid)]
    BY DEF IInv, VarsType
  <2>2. CASE backend' = [s \in Service |-> <<>>]
    <3>1. <<>> \in Seq(Uuid)
      OBVIOUS
    <3> QED
      BY <2>2, <3>1
  <2> QED
    BY <1>1, <2>1, <2>2
<1>3. ASSUME NEW s \in Service, NEW u \in Uuid, u \in ToSet(backend'[s])
      PROVE  FileOwns(s, u)
  <2>1. CASE backend' = backend
    BY <1>3, <2>1 DEF FileOwns
  <2>2. CASE backend' = [t \in Service |-> <<>>]
    BY <1>3, <2>2 DEF ToSet
  <2> QED
    BY <1>1, <2>1, <2>2
<1>4. edit' = [e \in Editor |-> IF e \in E THEN Idle ELSE edit[e]]
  BY DEF EditsEnd
<1> QED
  BY <1>2, <1>3, <1>4, BackendWritten

LEMMA EnsureRecordsKeeps ==
  ASSUME IInv, NEW a \in Admin, NEW s \in Service, EnsureRecords(a, s)
  PROVE  IInv'
<1>1. PICK run : run = script[a]
  OBVIOUS
<1>2. /\ run # Idle /\ run.kind = "ensure"
      /\ edit[a] # Idle /\ WriteEnvFile(a) /\ Done(a, s)
      /\ UNCHANGED <<checks, root, ids, tried, runs, events>>
  BY <1>1 DEF EnsureRecords, Runs
<1>3. a \in Editor
  BY DEF Editor
<1>4. /\ Frame
      /\ backend' \in [Service -> Seq(Uuid)]
      /\ edit' \in [Editor -> Edit \cup {Idle}]
      /\ \A t \in Service, u \in Uuid : FileOwns(t, u)' => Owns(t, u)
  BY <1>2, <1>3, EnvFileWritten DEF Owns
<1>5. VarsType'
  BY <1>2, <1>4 DEF IInv, VarsType
<1> QED
  BY <1>1, <1>2, <1>4, <1>5, DoneKeeps

LEMMA SyncFindsKeeps ==
  ASSUME IInv, NEW a \in Admin, NEW s \in Service, SyncFinds(a, s)
  PROVE  IInv'
<1>1. PICK run : run = script[a]
  OBVIOUS
<1>2. /\ run # Idle /\ run.kind = "sync"
      /\ run.known[s] \in Registered
      /\ checks' = [checks EXCEPT ![run.known[s]] = s]
      /\ Done(a, s)
      /\ UNCHANGED <<root, backend, edit, ids, tried, runs, events>>
  BY <1>1 DEF SyncFinds, Takes, Runs
<1>3. run.known[s] \in Uuid
  BY <1>2 DEF Registered
<1>4. Owns(s, run.known[s])
  BY <1>1, <1>2, <1>3, RunOf DEF RunOwns
<1>5. /\ Frame
      /\ checks' \in [Uuid -> Service \cup {NoCheck}]
      /\ \A t \in Service, u \in Uuid : FileOwns(t, u)' => Owns(t, u)
  BY <1>2, <1>3, <1>4, CheckIsNamed
<1>6. VarsType'
  BY <1>2, <1>5 DEF IInv, VarsType
<1> QED
  BY <1>1, <1>2, <1>5, <1>6, DoneKeeps

LEMMA SyncCreatesKeeps ==
  ASSUME IInv, NEW a \in Admin, NEW s \in Service, SyncCreates(a, s)
  PROVE  IInv'
<1>1. PICK run : run = script[a]
  OBVIOUS
<1>2. PICK v \in Uuid :
        /\ CreateCheck(v, s)
        /\ script' = [script EXCEPT ![a].at = s, ![a].made = v]
  BY DEF SyncCreates
<1> DEFINE new == [run EXCEPT !.at = s, !.made = v]
<1>3. /\ run # Idle /\ run.kind = "sync"
      /\ UNCHANGED <<root, backend, edit, ids, tried, runs, events>>
  BY <1>1 DEF SyncCreates, Takes, Runs
<1>4. /\ run \in Run /\ RunInv(run)
      /\ \A t \in Service, u \in Uuid : RunOwns(run, t, u) => Owns(t, u)
  BY <1>1, <1>3, RunOf
<1>5. Becomes(a, new)
  BY <1>1, <1>2 DEF Becomes, IInv, ScriptsInv
<1>6. /\ new \in Run /\ new.kind = run.kind /\ new.stage = run.stage
      /\ new.known = run.known /\ new.at = s
      /\ new.listed = run.listed /\ new.made = v
  BY <1>4, IdNotNoId DEF Run
<1>7. run.stage = "none" /\ v \notin IdsIn(root)
  BY <1>2, <1>3, <1>4, NoStage, CheckIsCreated DEF RunInv
<1> HIDE DEF new
<1>8. RunInv(new)
  BY <1>3, <1>4, <1>6, <1>7, NoCheckAssumption
     DEF RunInv, DeletesUnnamed, StageShape, Reconciles
<1>9. \A t \in Service, u \in Uuid :
        RunOwns(new, t, u) => Owns(t, u) \/ (u = v /\ t = s)
  BY <1>4, <1>6 DEF RunOwns
<1> QED
  BY <1>2, <1>3, <1>5, <1>8, <1>9, CreationKeeps

LEMMA SyncDeletesKeeps ==
  ASSUME IInv, NEW a \in Admin, NEW s \in Service, SyncDeletes(a, s)
  PROVE  IInv'
<1>1. PICK run : run = script[a]
  OBVIOUS
<1>2. /\ run # Idle /\ run.kind = "sync"
      /\ checks' = [checks EXCEPT ![run.made] = NoCheck]
      /\ Done(a, s)
      /\ UNCHANGED <<root, backend, edit, ids, tried, runs, events>>
  BY <1>1 DEF SyncDeletes, Runs
<1>3. run.made \in Id \ IdsIn(root)
  BY <1>1, <1>2, RunOf DEF RunInv, DeletesUnnamed, Run
<1>4. /\ Frame
      /\ checks' \in [Uuid -> Service \cup {NoCheck}]
      /\ \A t \in Service, u \in Uuid : FileOwns(t, u)' => Owns(t, u)
  BY <1>2, <1>3, CheckIsDeleted
<1>5. VarsType'
  BY <1>2, <1>4 DEF IInv, VarsType
<1> QED
  BY <1>1, <1>2, <1>4, <1>5, DoneKeeps


LEMMA SetupSkipsKeeps ==
  ASSUME IInv, NEW a \in Admin, NEW s \in Service,
         SetupSkips(a, s) \/ SetupFails(a, s)
  PROVE  IInv'
<1>1. PICK run : run = script[a]
  OBVIOUS
<1> DEFINE new == [run EXCEPT !.todo = @ \ {s}]
<1>2. /\ run # Idle /\ run.kind = "setup"
      /\ Becomes(a, new)
      /\ UNCHANGED <<checks, root, backend, edit, ids, tried, runs, events>>
  BY <1>1 DEF SetupSkips, SetupFails, Takes, Runs, Becomes
<1>3. /\ run \in Run /\ RunInv(run)
      /\ \A t \in Service, u \in Uuid : RunOwns(run, t, u) => Owns(t, u)
  BY <1>1, <1>2, RunOf
<1>4. /\ new \in Run /\ new.kind = run.kind /\ new.stage = run.stage
      /\ new.known = run.known /\ new.made = run.made
      /\ new.listed = run.listed /\ new.at = run.at
  BY <1>3 DEF Run
<1>5. run.stage = "none"
  BY <1>2, <1>3, NoStage DEF RunInv
<1> HIDE DEF new
<1>6. RunInv(new)
  BY <1>2, <1>3, <1>4, <1>5
     DEF RunInv, DeletesUnnamed, StageShape, Reconciles
<1>7. \A t \in Service, u \in Uuid : RunOwns(new, t, u) => Owns(t, u)
  BY <1>3, <1>4 DEF RunOwns
<1>8. events' \in 0..MaxEvents
  BY <1>2 DEF IInv, VarsType
<1> QED
  BY <1>2, <1>6, <1>7, <1>8, RunChanges

LEMMA SetupCreatesKeeps ==
  ASSUME IInv, NEW a \in Admin, NEW s \in Service, SetupCreates(a, s)
  PROVE  IInv'
<1>1. PICK run : run = script[a]
  OBVIOUS
<1>2. PICK v \in Uuid :
        /\ CreateCheck(v, s)
        /\ script' = [script EXCEPT ![a].todo = @ \ {s}, ![a].known[s] = v]
  BY DEF SetupCreates
<1> DEFINE new == [run EXCEPT !.todo = @ \ {s}, !.known[s] = v]
<1>3. /\ run # Idle /\ run.kind = "setup"
      /\ UNCHANGED <<root, backend, edit, ids, tried, runs, events>>
  BY <1>1 DEF SetupCreates, Takes, Runs
<1>4. /\ run \in Run /\ RunInv(run)
      /\ \A t \in Service, u \in Uuid : RunOwns(run, t, u) => Owns(t, u)
  BY <1>1, <1>3, RunOf
<1>5. Becomes(a, new)
  BY <1>1, <1>2 DEF Becomes, IInv, ScriptsInv
<1>6. /\ new.known = [run.known EXCEPT ![s] = v]
      /\ new.known \in [Service -> Id]
      /\ \A t \in Service : new.known[t] = IF t = s THEN v ELSE run.known[t]
  BY <1>4, IdNotNoId DEF Run
<1>7. /\ new \in Run /\ new.kind = run.kind /\ new.stage = run.stage
      /\ new.at = run.at /\ new.listed = run.listed /\ new.made = run.made
  BY <1>4, <1>6 DEF Run
<1>8. run.stage = "none"
  BY <1>3, <1>4, NoStage DEF RunInv
<1> HIDE DEF new
<1>9. RunInv(new)
  BY <1>3, <1>4, <1>7, <1>8
     DEF RunInv, DeletesUnnamed, StageShape, Reconciles
<1>10. \A t \in Service, u \in Uuid :
         RunOwns(new, t, u) => Owns(t, u) \/ (u = v /\ t = s)
  BY <1>4, <1>6, <1>7 DEF RunOwns
<1> QED
  BY <1>2, <1>3, <1>5, <1>9, <1>10, CreationKeeps

LEMMA SetupRecordsKeeps ==
  ASSUME IInv, NEW a \in Admin, SetupRecords(a)
  PROVE  IInv'
<1>1. PICK run : run = script[a]
  OBVIOUS
<1>2. /\ run # Idle
      /\ backend' = [s \in Service |->
                       IF run.known[s] = NoId THEN backend[s]
                       ELSE Append(backend[s], run.known[s])]
      /\ Becomes(a, Idle)
      /\ UNCHANGED <<checks, root, edit, ids, tried, runs, events>>
  BY <1>1 DEF SetupRecords, Runs, Becomes
<1>3. /\ run \in Run
      /\ \A t \in Service, u \in Uuid : RunOwns(run, t, u) => Owns(t, u)
  BY <1>1, <1>2, RunOf
<1>4. ASSUME NEW s \in Service
      PROVE  /\ backend'[s] \in Seq(Uuid)
             /\ \A u \in ToSet(backend'[s]) :
                  u \in ToSet(backend[s]) \/ RunOwns(run, s, u)
  <2>1. backend[s] \in Seq(Uuid) /\ run.known[s] \in Id
    BY <1>3 DEF IInv, VarsType, Run
  <2>2. CASE run.known[s] = NoId
    BY <1>2, <2>1, <2>2
  <2>3. CASE run.known[s] # NoId
    <3>1. run.known[s] \in Uuid
      BY <2>1, <2>3 DEF Id
    <3>2. backend'[s] = Append(backend[s], run.known[s])
      BY <1>2, <2>3
    <3>3. ToSet(backend'[s]) \subseteq ToSet(backend[s]) \cup {run.known[s]}
      BY <2>1, <3>1, <3>2, LineAppended
    <3> QED
      BY <2>1, <3>1, <3>2, <3>3, LineAppended DEF RunOwns
  <2> QED
    BY <2>2, <2>3
<1>5. backend' \in [Service -> Seq(Uuid)]
  BY <1>2, <1>4
<1>6. Frame
  BY <1>2 DEF Frame, ChecksStep
<1>7. ASSUME NEW s \in Service, NEW u \in Uuid, FileOwns(s, u)'
      PROVE  Owns(s, u)
  <2>1. /\ ToSet(root[s])' = ToSet(root[s])
        /\ ToSet(backend[s])' = ToSet(backend'[s])
        /\ EditOwns(s, u)' = EditOwns(s, u)
    BY <1>2 DEF ToSet, EditOwns, LinesOwn
  <2>2. CASE u \in ToSet(backend'[s])
    BY <1>3, <1>4, <2>2 DEF Owns, FileOwns
  <2>3. CASE u \notin ToSet(backend'[s])
    BY <1>2, <1>7, <2>1, <2>3 DEF Owns, FileOwns
  <2> QED
    BY <2>2, <2>3
<1>8. VarsType'
  BY <1>2, <1>5 DEF IInv, VarsType
<1> QED
  BY <1>2, <1>6, <1>7, <1>8, QuietStepKeeps

(* What a script of the start or of the ORM begins with.                   *)
LEMMA OrmBegins ==
  ASSUME IInv, NEW stage \in {"none", "orm", "copy"}, NEW new,
         new = NewRun("orm", stage, Effective(root), Named(root)),
         stage = "copy" => Named(root) = {}
  PROVE  /\ RunInv(new)
         /\ \A s \in Service, u \in Uuid : RunOwns(new, s, u) => Owns(s, u)
<1>1. /\ Effective(root) \in [Service -> Id] /\ NoId \notin IdsIn(root)
      /\ Named(root) \subseteq Service
  BY RootHasIds DEF IInv, Named
<1>2. /\ new \in Run
      /\ new.kind = "orm" /\ new.stage = stage
      /\ new.known = Effective(root) /\ new.todo = Named(root)
      /\ new.at = NoCheck /\ new.made = NoId /\ new.listed = {}
  BY <1>1, NewRunFacts
<1>3. new.failed = FALSE
  BY NewRunGoesWell
<1>4. DeletesUnnamed(new) /\ StageShape(new) /\ Reconciles(new)
  BY <1>1, <1>2, <1>3 DEF DeletesUnnamed, StageShape, Reconciles
<1>5. ASSUME NEW s \in Service, NEW u \in Uuid, RunOwns(new, s, u)
      PROVE  Owns(s, u)
  <2>1. Effective(root)[s] = u
    BY <1>2, <1>5, NoCheckAssumption DEF RunOwns
  <2>2. u \in ToSet(root[s])
    BY <2>1, EffectiveType, IdNotNoId DEF IInv, VarsType
  <2> QED
    BY <2>2 DEF Owns, FileOwns
<1> QED
  BY <1>2, <1>4, <1>5 DEF RunInv

LEMMA StartOrmKeeps ==
  ASSUME IInv, NEW a \in Admin, StartOrm(a)
  PROVE  IInv'
<1> DEFINE new == NewRun("orm", "none", Effective(root), Named(root))
<1>1. /\ Start(a, new)
      /\ UNCHANGED <<checks, root, backend, edit, ids, tried, events>>
  BY DEF StartOrm
<1>2. /\ RunInv(new)
      /\ \A s \in Service, u \in Uuid : RunOwns(new, s, u) => Owns(s, u)
  BY OrmBegins
<1> HIDE DEF new
<1>3. VarsType'
  BY <1>1, StartType DEF IInv, VarsType
<1> QED
  BY <1>1, <1>2, <1>3, NothingChanges, StartKeeps

(* Containers are recreated.                                               *)
LEMMA RecreateFacts ==
  ASSUME IInv, NEW cs \in SUBSET Container, Recreate(cs),
         UNCHANGED <<checks, root>>
  PROVE  /\ Frame
         /\ backend' \in [Service -> Seq(Uuid)]
         /\ ids' \in [Container -> [Service -> Id]]
         /\ edit' \in [Editor -> Edit \cup {Idle}]
         /\ tried' \in [Process -> SUBSET Uuid]
         /\ \A s \in Service, u \in Uuid : FileOwns(s, u)' => FileOwns(s, u)
         /\ "worker" \in cs => ids'["worker"] = Effective(root)
<1> DEFINE E == IF "worker" \in cs THEN Process ELSE {}
<1>1. /\ ids \in [Container -> [Service -> Id]]
      /\ tried \in [Process -> SUBSET Uuid]
      /\ edit \in [Editor -> Edit \cup {Idle}]
      /\ backend \in [Service -> Seq(Uuid)]
      /\ Effective(root) \in [Service -> Id]
      /\ root \in [Service -> Seq(Uuid)]
  BY RootHasIds DEF IInv, VarsType
<1>2. \A c \in Container :
        ids'[c] = IF c \in cs THEN Effective(root) ELSE ids[c]
  BY DEF Recreate
<1>3. /\ ids' \in [Container -> [Service -> Id]]
      /\ tried' \in [Process -> SUBSET Uuid]
  BY <1>1 DEF Recreate
<1>4. "worker" \in Container
  BY DEF Container
<1>5. Frame
  BY <1>2, <1>4 DEF Frame, ChecksStep
<1>6. E \in SUBSET Editor /\ EditsEnd(E)
  BY DEF Recreate, Editor
<1> HIDE DEF E
<1>7. /\ edit' = [e \in Editor |-> IF e \in E THEN Idle ELSE edit[e]]
      /\ backend' = backend \/ backend' = [s \in Service |-> <<>>]
  BY <1>6 DEF EditsEnd
<1>8. /\ backend' \in [Service -> Seq(Uuid)]
      /\ edit' \in [Editor -> Edit \cup {Idle}]
  <2>1. <<>> \in Seq(Uuid)
    OBVIOUS
  <2>2. [s \in Service |-> <<>>] \in [Service -> Seq(Uuid)]
    BY <2>1
  <2>3. backend' \in [Service -> Seq(Uuid)]
    BY <1>1, <1>7, <2>2
  <2>4. edit' \in [Editor -> Edit \cup {Idle}]
    BY <1>1, <1>7
  <2> QED
    BY <2>3, <2>4
<1>9. ASSUME NEW s \in Service, NEW u \in Uuid, FileOwns(s, u)'
      PROVE  FileOwns(s, u)
  <2>1. ToSet(root[s])' = ToSet(root[s])
    BY DEF ToSet
  <2>2. CASE u \in ToSet(backend[s])'
    <3>1. u \in ToSet(backend'[s])
      BY <2>2 DEF ToSet
    <3>2. backend' = backend
      BY <1>7, <3>1 DEF ToSet
    <3> QED
      BY <3>1, <3>2 DEF FileOwns
  <2>3. ASSUME NEW c \in Container, ids'[c][s] = u
        PROVE  FileOwns(s, u)
    <3>1. CASE c \in cs
      <4>1. Effective(root)[s] = u
        BY <1>2, <2>3, <3>1
      <4>2. u \in ToSet(root[s])
        BY <1>1, <4>1, EffectiveType, IdNotNoId
      <4> QED
        BY <4>2 DEF FileOwns
    <3>2. CASE c \notin cs
      BY <1>2, <2>3, <3>2 DEF FileOwns
    <3> QED
      BY <3>1, <3>2
  <2>4. CASE EditOwns(s, u)'
    <3>1. PICK e \in Editor : edit'[e] # Idle /\ LinesOwn(edit'[e], s, u)
      BY <2>4 DEF EditOwns, LinesOwn, Idle, ToSet
    <3>2. edit[e] = edit'[e]
      BY <1>7, <3>1
    <3> QED
      BY <3>1, <3>2, LineOwner
  <2> QED
    BY <1>9, <2>1, <2>2, <2>3, <2>4 DEF FileOwns
<1> QED
  BY <1>2, <1>3, <1>4, <1>5, <1>8, <1>9

LEMMA StartAllKeeps ==
  ASSUME IInv, NEW a \in Admin, StartAll(a)
  PROVE  IInv'
<1> DEFINE stage == IF Named(root) = {} THEN "copy" ELSE "orm"
           new == NewRun("orm", stage, Effective(root), Named(root))
<1>1. /\ Start(a, new)
      /\ UNCHANGED <<checks, root>>
      /\ events' \in 0..MaxEvents
  BY BoundsAssumption DEF StartAll, Happens, IInv, VarsType
<1>2. PICK cs \in SUBSET Container : Recreate(cs)
  BY DEF StartAll
<1>3. stage \in {"none", "orm", "copy"} /\ (stage = "copy" => Named(root) = {})
  OBVIOUS
<1> HIDE DEF stage
<1>4. /\ RunInv(new)
      /\ \A s \in Service, u \in Uuid : RunOwns(new, s, u) => Owns(s, u)
  BY <1>3, OrmBegins
<1> HIDE DEF new
<1>5. /\ Frame
      /\ backend' \in [Service -> Seq(Uuid)]
      /\ ids' \in [Container -> [Service -> Id]]
      /\ edit' \in [Editor -> Edit \cup {Idle}]
      /\ tried' \in [Process -> SUBSET Uuid]
      /\ \A s \in Service, u \in Uuid : FileOwns(s, u)' => Owns(s, u)
  BY <1>1, <1>2, RecreateFacts DEF Owns
<1>6. VarsType'
  BY <1>1, <1>5, StartType DEF IInv, VarsType
<1> QED
  BY <1>1, <1>4, <1>5, <1>6, StartKeeps

(* What a cleanup begins with.                                             *)
LEMMA CleanupBegins ==
  ASSUME IInv, NEW stage \in {"none", "cleanup"},
         NEW stale \in BOOLEAN, NEW new, new = Cleanup(stage, stale),
         stage # "none" =>
           /\ \A s \in Named(root) : Good(s)
           /\ stale = FALSE => ids["worker"] = Effective(root)
  PROVE  /\ RunInv(new)
         /\ \A s \in Service, u \in Uuid : RunOwns(new, s, u) => Owns(s, u)
<1> DEFINE known == [s \in Service |-> NoId]
           run == NewRun("cleanup", stage, known, {})
<1>1. known \in [Service -> Id]
  BY IdNotNoId
<1>2. \A s \in Service : known[s] = NoId
  OBVIOUS
<1> HIDE DEF known
<1>3. /\ run \in Run
      /\ run.kind = "cleanup" /\ run.stage = stage
      /\ run.known = known /\ run.todo = {}
      /\ run.at = NoCheck /\ run.made = NoId
  BY <1>1, NewRunFacts
<1>4. run.failed = FALSE
  BY NewRunGoesWell
<1>5. new = [run EXCEPT !.listed = Unnamed, !.stale = stale]
  BY DEF Cleanup, known
<1> HIDE DEF run
<1>6. Unnamed \subseteq Uuid \ IdsIn(root)
  BY DEF Unnamed, Registered
<1>7. /\ new \in Run
      /\ new.kind = "cleanup" /\ new.stage = stage
      /\ new.known = known /\ new.todo = {}
      /\ new.at = NoCheck /\ new.made = NoId
      /\ new.listed = Unnamed
  BY <1>3, <1>5, <1>6 DEF Run
<1>8. (new.failed = FALSE) /\ (stale = FALSE <=> new.stale = FALSE)
  BY <1>3, <1>4, <1>5 DEF Run
<1> HIDE DEF Unnamed
<1>9. NoId \notin IdsIn(root)
  BY RootHasIds DEF IInv
<1>10. RunInv(new)
  BY <1>6, <1>7, <1>8, <1>9
     DEF RunInv, DeletesUnnamed, StageShape, Reconciles
<1>11. \A s \in Service, u \in Uuid : RunOwns(new, s, u) => Owns(s, u)
  BY <1>2, <1>7, IdNotNoId, NoCheckAssumption DEF RunOwns
<1> QED
  BY <1>10, <1>11

LEMMA StartCleanupKeeps ==
  ASSUME IInv, NEW a \in Admin, StartCleanup(a)
  PROVE  IInv'
<1> DEFINE new == Cleanup("none", FALSE)
<1>1. /\ Start(a, new)
      /\ UNCHANGED <<checks, root, backend, edit, ids, tried, events>>
  BY DEF StartCleanup
<1>2. /\ RunInv(new)
      /\ \A s \in Service, u \in Uuid : RunOwns(new, s, u) => Owns(s, u)
  BY CleanupBegins
<1> HIDE DEF new
<1>3. VarsType'
  BY <1>1, StartType DEF IInv, VarsType
<1> QED
  BY <1>1, <1>2, <1>3, NothingChanges, StartKeeps

-----------------------------------------------------------------------------
(***************************************************************************)
(* The steps of the start script                                           *)
(***************************************************************************)

(* Service s is dealt with: it is saved, or the run has failed.            *)
LEMMA OrmStepKeeps ==
  ASSUME IInv, VarsType', Frame, NEW a \in Admin, NEW run, run = script[a],
         run # Idle, run.kind = "orm", NEW s \in Service, s \in run.todo,
         NEW fails \in BOOLEAN, OrmGoesOn(a, s, fails),
         fails = FALSE => Good(s)',
         \A t \in Service, u \in Uuid : FileOwns(t, u)' => Owns(t, u)
  PROVE  IInv'
<1> DEFINE failed == run.failed \/ fails
           ends == run.todo = {s} /\ (run.stage = "none" \/ failed)
           next == IF run.todo = {s} THEN "copy" ELSE run.stage
           new == [run EXCEPT !.todo = @ \ {s}, !.failed = failed,
                              !.stage = next]
<1>1. /\ run \in Run /\ RunInv(run)
      /\ \A t \in Service, u \in Uuid : RunOwns(run, t, u) => Owns(t, u)
  BY RunOf
<1>2. /\ failed \in BOOLEAN
      /\ failed = FALSE => run.failed = FALSE /\ fails = FALSE
  <2>1. run.failed \in BOOLEAN
    BY <1>1 DEF Run
  <2> QED
    BY <2>1
<1>3. CASE ends
  <2>1. Becomes(a, Idle)
    BY <1>3 DEF OrmGoesOn, Becomes
  <2> QED
    BY <2>1, QuietStepKeeps
<1>4. CASE ~ends
  <2>1. Becomes(a, new)
    BY <1>4 DEF OrmGoesOn, Becomes
  <2>2. RunInv(run)'
    BY <1>1, RunKept
  <2>3. /\ new \in Run /\ new.kind = "orm" /\ new.known = run.known
        /\ new.todo = run.todo \ {s} /\ new.failed = failed
        /\ new.at = run.at /\ new.made = run.made /\ new.listed = run.listed
        /\ new.stage = IF run.todo = {s} THEN "copy" ELSE run.stage
    <3>1. next \in {"none", "orm", "copy", "worker", "cleanup"}
      BY <1>1 DEF Run
    <3> HIDE DEF failed, next
    <3>2. new \in Run /\ new.failed = failed
      BY <1>1, <1>2, <3>1 DEF Run
    <3>3. /\ new.kind = "orm" /\ new.known = run.known
          /\ new.todo = run.todo \ {s} /\ new.stage = next
          /\ new.at = run.at /\ new.made = run.made
          /\ new.listed = run.listed
      BY <1>1 DEF Run
    <3> QED
      BY <3>2, <3>3 DEF next
  <2>4. run.stage \in {"none", "orm"}
    BY <1>1 DEF RunInv, StageShape, Run
  <2>5. new.stage = "copy" => new.failed = FALSE
    <3>1. CASE run.todo = {s}
      BY <1>2, <1>4, <2>3, <2>4, <3>1
    <3>2. CASE run.todo # {s}
      BY <2>3, <2>4, <3>2
    <3> QED
      BY <3>1, <3>2
  <2>6. new.failed = FALSE => run.failed = FALSE /\ fails = FALSE
    BY <1>2, <2>3
  <2> HIDE DEF new
  <2>7. DeletesUnnamed(new)' /\ StageShape(new)'
    BY <1>4, <2>2, <2>3, <2>4, <2>5 DEF RunInv, DeletesUnnamed, StageShape
  <2>8. Reconciles(new)'
    <3>1. /\ run.known = Effective(root)'
          /\ run.todo \subseteq Named(root)'
          /\ run.stage # "none" /\ run.failed = FALSE =>
               \A t \in Named(root)' \ run.todo : Good(t)'
      BY <2>2 DEF RunInv, Reconciles
    <3>2. new.stage # "none" => run.stage # "none"
      BY <1>4, <2>3
    <3>3. ASSUME new.stage # "none", new.failed = FALSE,
                 NEW t \in Named(root)' \ new.todo
          PROVE  Good(t)'
      BY <2>3, <2>6, <3>1, <3>2, <3>3
    <3> QED
      BY <2>3, <2>4, <3>1, <3>3 DEF Reconciles
  <2>9. RunInv(new)'
    BY <2>3, <2>7, <2>8 DEF RunInv
  <2>10. \A t \in Service, u \in Uuid : RunOwns(new, t, u) => Owns(t, u)
    BY <1>1, <2>3 DEF RunOwns
  <2> QED
    BY <2>1, <2>9, <2>10, QuietStepKeeps
<1> QED
  BY <1>3, <1>4

LEMMA OrmEnsuresKeeps ==
  ASSUME IInv, NEW a \in Admin, NEW s \in Service, OrmEnsures(a, s)
  PROVE  IInv'
<1>1. PICK run : run = script[a]
  OBVIOUS
<1>2. /\ run # Idle /\ run.kind = "orm" /\ s \in run.todo
      /\ checks' = [checks EXCEPT ![run.known[s]] = s]
      /\ OrmGoesOn(a, s, FALSE)
      /\ UNCHANGED <<root, backend, edit, ids, tried, runs, events>>
  BY <1>1 DEF OrmEnsures, Takes, Runs
<1>3. /\ run.known = Effective(root) /\ s \in Named(root)
  BY <1>1, <1>2, RunOf DEF RunInv, Reconciles
<1> DEFINE v == LastLine(root[s])
<1>4. v \in Uuid /\ v \in ToSet(root[s]) /\ run.known[s] = v
  BY <1>3, NamedLine, EffectiveType DEF IInv, VarsType
<1>5. Owns(s, v)
  BY <1>4 DEF Owns, FileOwns
<1>6. /\ Frame
      /\ checks' \in [Uuid -> Service \cup {NoCheck}]
      /\ \A t \in Service, u \in Uuid : FileOwns(t, u)' => Owns(t, u)
  BY <1>2, <1>4, <1>5, CheckIsNamed
<1>7. Good(s)'
  BY <1>2, <1>4 DEF Good, IInv, VarsType
<1>8. VarsType'
  BY <1>2, <1>6 DEF IInv, VarsType
<1> QED
  BY <1>1, <1>2, <1>6, <1>7, <1>8, OrmStepKeeps

LEMMA OrmFailsKeeps ==
  ASSUME IInv, NEW a \in Admin, NEW s \in Service, OrmFails(a, s)
  PROVE  IInv'
<1>1. PICK run : run = script[a]
  OBVIOUS
<1>2. /\ run # Idle /\ run.kind = "orm" /\ s \in run.todo
      /\ Happens /\ OrmGoesOn(a, s, TRUE)
      /\ UNCHANGED <<checks, root, backend, edit, ids, tried, runs>>
  BY <1>1 DEF OrmFails, Takes, Runs
<1>3. VarsType'
  BY <1>2, BoundsAssumption DEF IInv, VarsType, Happens
<1> QED
  BY <1>1, <1>2, <1>3, NothingChanges, OrmStepKeeps

LEMMA CopyToBackendKeeps ==
  ASSUME IInv, NEW a \in Admin, CopyToBackend(a)
  PROVE  IInv'
<1>1. PICK run : run = script[a]
  OBVIOUS
<1> DEFINE new == [run EXCEPT !.stage = "worker"]
<1>2. /\ run # Idle /\ run.stage = "copy"
      /\ backend' = root /\ Becomes(a, new)
      /\ UNCHANGED <<checks, root, edit, ids, tried, runs, events>>
  BY <1>1 DEF CopyToBackend, At, Becomes
<1>3. /\ run \in Run /\ RunInv(run)
      /\ \A t \in Service, u \in Uuid : RunOwns(run, t, u) => Owns(t, u)
  BY <1>1, <1>2, RunOf
<1>4. /\ new \in Run /\ new.kind = run.kind /\ new.stage = "worker"
      /\ new.known = run.known /\ new.todo = run.todo
      /\ new.failed = run.failed /\ new.at = run.at
      /\ new.made = run.made /\ new.listed = run.listed
  BY <1>3 DEF Run
<1>5. VarsType'
  BY <1>2 DEF IInv, VarsType
<1>6. Frame
  BY <1>2 DEF Frame, ChecksStep
<1>7. ASSUME NEW s \in Service, NEW u \in Uuid, FileOwns(s, u)'
      PROVE  Owns(s, u)
  <2>1. /\ ToSet(root[s])' = ToSet(root[s])
        /\ ToSet(backend[s])' = ToSet(root[s])
        /\ EditOwns(s, u)' = EditOwns(s, u)
    BY <1>2 DEF ToSet, EditOwns, LinesOwn
  <2> QED
    BY <1>2, <1>7, <2>1 DEF Owns, FileOwns
<1> HIDE DEF new
<1>8. RunInv(new)
  BY <1>2, <1>3, <1>4 DEF RunInv, DeletesUnnamed, StageShape, Reconciles
<1>9. RunInv(new)'
  BY <1>6, <1>8, RunKept
<1>10. \A t \in Service, u \in Uuid : RunOwns(new, t, u) => Owns(t, u)
  BY <1>3, <1>4 DEF RunOwns
<1> QED
  BY <1>2, <1>5, <1>6, <1>7, <1>9, <1>10, QuietStepKeeps

(* The worker has been recreated, or not.                                  *)
LEMMA WorkerStepKeeps ==
  ASSUME IInv, VarsType', Frame, NEW a \in Admin, NEW run, run = script[a],
         run # Idle, run.stage = "worker", NEW new, Becomes(a, new),
         new \in Run, new.kind = run.kind, new.stage = "cleanup",
         new.known = run.known, new.todo = run.todo,
         new.failed = run.failed, new.at = run.at,
         new.made = run.made, new.listed = run.listed,
         new.stale = FALSE => ids'["worker"] = Effective(root),
         \A s \in Service, u \in Uuid : FileOwns(s, u)' => Owns(s, u)
  PROVE  IInv'
<1>1. /\ run \in Run /\ RunInv(run)
      /\ \A t \in Service, u \in Uuid : RunOwns(run, t, u) => Owns(t, u)
  BY RunOf
<1>2. RunInv(run)' /\ run.kind = "orm"
  BY <1>1, RunKept DEF RunInv, StageShape
<1>3. Effective(root)' = Effective(root)
  BY DEF Frame, Effective
<1>4. DeletesUnnamed(new)' /\ StageShape(new)'
  BY <1>2 DEF RunInv, DeletesUnnamed, StageShape
<1>5. Reconciles(new)'
  BY <1>2, <1>3 DEF RunInv, Reconciles
<1>6. RunInv(new)'
  BY <1>4, <1>5 DEF RunInv
<1>7. \A t \in Service, u \in Uuid : RunOwns(new, t, u) => Owns(t, u)
  BY <1>1 DEF RunOwns
<1> QED
  BY <1>6, <1>7, QuietStepKeeps

LEMMA RecreateWorkerKeeps ==
  ASSUME IInv, NEW a \in Admin, RecreateWorker(a)
  PROVE  IInv'
<1>1. PICK run : run = script[a]
  OBVIOUS
<1>2. /\ run # Idle /\ run.stage = "worker" /\ run \in Run
      /\ UNCHANGED <<checks, root, runs>>
      /\ script \in [Admin -> Run \cup {Idle}]
  BY <1>1, RunOf DEF RecreateWorker, At, IInv, ScriptsInv
<1>3. CASE /\ Recreate({"worker"}) /\ UNCHANGED events
           /\ script' = [script EXCEPT ![a].stage = "cleanup"]
  <2> DEFINE new == [run EXCEPT !.stage = "cleanup"]
  <2>1. /\ Becomes(a, new)
        /\ new \in Run /\ new.kind = run.kind /\ new.stage = "cleanup"
        /\ new.known = run.known /\ new.todo = run.todo
        /\ new.failed = run.failed /\ new.at = run.at
        /\ new.made = run.made /\ new.listed = run.listed
    BY <1>1, <1>2, <1>3 DEF Run, Becomes
  <2> HIDE DEF new
  <2>2. {"worker"} \in SUBSET Container
    BY DEF Container
  <2>3. /\ Frame
        /\ backend' \in [Service -> Seq(Uuid)]
        /\ ids' \in [Container -> [Service -> Id]]
        /\ edit' \in [Editor -> Edit \cup {Idle}]
        /\ tried' \in [Process -> SUBSET Uuid]
        /\ \A s \in Service, u \in Uuid : FileOwns(s, u)' => Owns(s, u)
        /\ ids'["worker"] = Effective(root)
    BY <1>2, <1>3, <2>2, RecreateFacts DEF Owns
  <2>4. VarsType'
    BY <1>2, <1>3, <2>3 DEF IInv, VarsType
  <2> QED
    BY <1>1, <1>2, <2>1, <2>3, <2>4, WorkerStepKeeps
<1>4. CASE /\ Happens /\ UNCHANGED <<backend, edit, ids, tried>>
           /\ script' = [script EXCEPT ![a].stage = "cleanup",
                                       ![a].stale = TRUE]
  <2> DEFINE new == [run EXCEPT !.stage = "cleanup", !.stale = TRUE]
  <2>1. /\ Becomes(a, new)
        /\ new \in Run /\ new.kind = run.kind /\ new.stage = "cleanup"
        /\ new.known = run.known /\ new.todo = run.todo
        /\ new.failed = run.failed /\ new.at = run.at
        /\ new.made = run.made /\ new.listed = run.listed
    BY <1>1, <1>2, <1>4 DEF Run, Becomes
  <2>2. new.stale = TRUE
    BY <1>2 DEF Run
  <2> HIDE DEF new
  <2>3. VarsType'
    BY <1>2, <1>4, BoundsAssumption DEF IInv, VarsType, Happens
  <2> QED
    BY <1>1, <1>2, <1>4, <2>1, <2>2, <2>3, NothingChanges, WorkerStepKeeps
<1> QED
  BY <1>3, <1>4 DEF RecreateWorker

LEMMA BeginCleanupKeeps ==
  ASSUME IInv, NEW a \in Admin, BeginCleanup(a)
  PROVE  IInv'
<1>1. PICK run : run = script[a]
  OBVIOUS
<1> DEFINE new == IF Unnamed = {} THEN Idle ELSE Cleanup("cleanup", run.stale)
<1>2. /\ run # Idle /\ run.stage = "cleanup"
      /\ Becomes(a, new)
      /\ UNCHANGED <<checks, root, backend, edit, ids, tried, runs, events>>
  BY <1>1 DEF BeginCleanup, At, Becomes
<1>3. run \in Run /\ RunInv(run)
  BY <1>1, <1>2, RunOf
<1>4. /\ run.stale \in BOOLEAN
      /\ \A s \in Named(root) : Good(s)
      /\ run.stale = FALSE => ids["worker"] = Effective(root)
  BY <1>2, <1>3 DEF RunInv, StageShape, Reconciles, Run
<1>5. /\ RunInv(Cleanup("cleanup", run.stale))
      /\ \A s \in Service, u \in Uuid :
           RunOwns(Cleanup("cleanup", run.stale), s, u) => Owns(s, u)
  BY <1>4, CleanupBegins
<1>6. new = Idle \/ new = Cleanup("cleanup", run.stale)
  OBVIOUS
<1> HIDE DEF new
<1>7. events' \in 0..MaxEvents
  BY <1>2 DEF IInv, VarsType
<1> QED
  BY <1>2, <1>5, <1>6, <1>7, RunChanges

LEMMA CleanupDeletesKeeps ==
  ASSUME IInv, NEW a \in Admin, NEW v \in Uuid, CleanupDeletes(a, v)
  PROVE  IInv'
<1>1. PICK run : run = script[a]
  OBVIOUS
<1> DEFINE new == IF run.listed = {v} THEN Idle
                  ELSE [run EXCEPT !.listed = @ \ {v}]
<1>2. /\ run # Idle /\ run.kind = "cleanup" /\ v \in run.listed
      /\ checks' \in {checks, [checks EXCEPT ![v] = NoCheck]}
      /\ UNCHANGED <<root, backend, edit, ids, tried, runs, events>>
  BY <1>1 DEF CleanupDeletes, Runs
<1>3. Becomes(a, new)
  BY <1>1 DEF CleanupDeletes, Becomes
<1>4. /\ run \in Run /\ RunInv(run)
      /\ \A t \in Service, u \in Uuid : RunOwns(run, t, u) => Owns(t, u)
  BY <1>1, <1>2, RunOf
<1>5. v \in Id \ IdsIn(root)
  BY <1>2, <1>4, IdNotNoId DEF RunInv, DeletesUnnamed
<1>6. /\ Frame
      /\ checks' \in [Uuid -> Service \cup {NoCheck}]
      /\ \A t \in Service, u \in Uuid : FileOwns(t, u)' => Owns(t, u)
  BY <1>2, <1>5, CheckIsDeleted
<1>7. VarsType'
  BY <1>2, <1>6 DEF IInv, VarsType
<1>8. CASE run.listed = {v}
  BY <1>3, <1>6, <1>7, <1>8, QuietStepKeeps
<1>9. CASE run.listed # {v}
  <2>1. /\ new \in Run /\ new.kind = run.kind /\ new.stage = run.stage
        /\ new.known = run.known /\ new.todo = run.todo
        /\ new.failed = run.failed /\ new.at = run.at
        /\ new.made = run.made /\ new.listed = run.listed \ {v}
        /\ new.stale = run.stale
    BY <1>4, <1>9 DEF Run
  <2> HIDE DEF new
  <2>2. RunInv(new)
    BY <1>2, <1>4, <2>1 DEF RunInv, DeletesUnnamed, StageShape, Reconciles
  <2>3. RunInv(new)'
    BY <1>6, <2>2, RunKept
  <2>4. \A t \in Service, u \in Uuid : RunOwns(new, t, u) => Owns(t, u)
    BY <1>4, <2>1 DEF RunOwns
  <2> QED
    BY <1>3, <1>6, <1>7, <2>3, <2>4, QuietStepKeeps
<1> QED
  BY <1>8, <1>9

LEMMA RequestFailsKeeps ==
  ASSUME IInv, NEW a \in Admin, NEW s \in Service, RequestFails(a, s)
  PROVE  IInv'
<1>1. PICK run : run = script[a]
  OBVIOUS
<1>2. /\ run # Idle /\ run.kind \in {"ensure", "sync"}
      /\ Done(a, s)
      /\ UNCHANGED <<checks, root, backend, edit, ids, tried, runs, events>>
  BY <1>1 DEF RequestFails, Takes, Runs
<1>3. VarsType'
  BY <1>2 DEF IInv, VarsType
<1> QED
  BY <1>1, <1>2, <1>3, NothingChanges, DoneKeeps

LEMMA InterruptKeeps ==
  ASSUME IInv, NEW a \in Admin, Interrupt(a)
  PROVE  IInv'
<1>1. /\ Becomes(a, Idle) /\ EditsEnd({a})
      /\ UNCHANGED <<checks, root, ids, tried, runs, events>>
  BY DEF Interrupt, Becomes
<1>2. {a} \in SUBSET Editor
  BY DEF Editor
<1>3. /\ Frame
      /\ backend' \in [Service -> Seq(Uuid)]
      /\ edit' \in [Editor -> Edit \cup {Idle}]
      /\ \A t \in Service, u \in Uuid : FileOwns(t, u)' => Owns(t, u)
  BY <1>1, <1>2, EditsEnded DEF Owns
<1>4. VarsType'
  BY <1>1, <1>3 DEF IInv, VarsType
<1> QED
  BY <1>1, <1>3, <1>4, QuietStepKeeps

-----------------------------------------------------------------------------
(***************************************************************************)
(* Steps outside the scripts                                               *)
(***************************************************************************)

LEMMA OutsideStepKeeps ==
  ASSUME IInv, VarsType', Frame, script' = script,
         NEW r, NEW v, v \notin Uuid \cap InUse,
         \A s \in Service, u \in Uuid :
           FileOwns(s, u)' => Owns(s, u) \/ (u = v /\ s = r)
  PROVE  IInv'
<1>1. ASSUME NEW b \in Admin, script[b] # Idle
      PROVE  RunInv(script[b])'
  <2>1. PICK run : run = script[b]
    OBVIOUS
  <2>2. RunInv(run)'
    BY <1>1, <2>1, RunOf, RunKept
  <2>3. script'[b] = run
    BY <2>1
  <2> QED
    BY <2>2, <2>3 DEF RunInv, DeletesUnnamed, StageShape, Reconciles
<1>2. ScriptsInv'
  BY <1>1 DEF IInv, ScriptsInv
<1>3. ASSUME NEW s \in Service, NEW u \in Uuid, Owns(s, u)'
      PROVE  Owns(s, u) \/ (u = v /\ s = r)
  <2>1. (\E b \in Admin : script[b] # Idle /\ RunOwns(script[b], s, u))'
          => \E b \in Admin : script[b] # Idle /\ RunOwns(script[b], s, u)
    BY DEF RunOwns
  <2> QED
    BY <1>3, <2>1 DEF Owns
<1>4. OneOwner'
  BY <1>3, OwnersKept
<1> QED
  BY <1>2, <1>4 DEF IInv

LEMMA LookUpType ==
  ASSUME VarsType, NEW p \in Process, NEW s \in Service, LookUp(p, s)
  PROVE  tried' \in [Process -> SUBSET Uuid]
<1>1. ids["worker"][s] \in Uuid
  BY DEF VarsType, LookUp, Id, Container
<1> QED
  BY <1>1 DEF VarsType, LookUp

LEMMA FirstPingKeeps ==
  ASSUME IInv, NEW p \in Process, NEW s \in Service, FirstPing(p, s)
  PROVE  IInv'
<1>1. VarsType'
  BY LookUpType DEF IInv, VarsType, FirstPing
<1>2. UNCHANGED <<checks, root, backend, edit, ids>> /\ script' = script
  BY DEF FirstPing
<1>3. NoId \notin Uuid \cap InUse
  BY IdNotNoId
<1>4. /\ Frame
      /\ \A t \in Service, u \in Uuid : FileOwns(t, u)' => Owns(t, u)
  BY <1>2, NothingChanges
<1> QED
  BY <1>1, <1>2, <1>3, <1>4, OutsideStepKeeps

(* A check is created by somebody who is about to write its id.            *)
LEMMA CreatedIsEdited ==
  ASSUME IInv, VarsType', UNCHANGED <<root, backend, ids, script>>,
         NEW e \in Editor, NEW s \in Service,
         NEW v, CreateCheck(v, s), ReadEnvFile(e, s, v)
  PROVE  IInv'
<1>1. /\ v \in Uuid /\ v \notin InUse /\ v \notin IdsIn(root)
      /\ checks' = [checks EXCEPT ![v] = s]
  BY FreshIsUnnamed DEF CreateCheck
<1>2. \A u \in Uuid : u # v => checks'[u] = checks[u]
  BY <1>1 DEF IInv, VarsType
<1>3. Frame
  BY <1>1, <1>2 DEF Frame, ChecksStep
<1>4. \A d \in Editor :
        edit'[d] = IF d = e THEN [at |-> s, id |-> v, lines |-> backend]
                   ELSE edit[d]
  BY DEF ReadEnvFile, IInv, VarsType
<1>5. ASSUME NEW t \in Service, NEW u \in Uuid, FileOwns(t, u)'
      PROVE  FileOwns(t, u) \/ (u = v /\ t = s)
  <2>1. /\ ToSet(root[t])' = ToSet(root[t])
        /\ ToSet(backend[t])' = ToSet(backend[t])
    BY DEF ToSet
  <2>2. checks'[u] = t => checks[u] = t \/ (u = v /\ t = s)
    BY <1>1, <1>2 DEF IInv, VarsType
  <2>3. CASE EditOwns(t, u)'
    <3>1. PICK d \in Editor : edit'[d] # Idle /\ LinesOwn(edit'[d], t, u)
      BY <2>3 DEF EditOwns, LinesOwn, Idle, ToSet
    <3>2. CASE d = e
      <4>1. /\ edit'[d].lines = backend
            /\ edit'[d].at = s /\ edit'[d].id = v
        BY <1>4, <3>2
      <4> QED
        BY <3>1, <4>1 DEF LinesOwn, FileOwns
    <3>3. CASE d # e
      BY <1>4, <3>1, <3>3, LineOwner
    <3> QED
      BY <3>2, <3>3
  <2> QED
    BY <1>5, <2>1, <2>2, <2>3 DEF FileOwns
<1> QED
  BY <1>1, <1>3, <1>5, OutsideStepKeeps DEF Owns

LEMMA CreatedType ==
  ASSUME VarsType, NEW e \in Editor, NEW s \in Service,
         NEW v, CreateCheck(v, s), ReadEnvFile(e, s, v)
  PROVE  /\ checks' \in [Uuid -> Service \cup {NoCheck}]
         /\ edit' \in [Editor -> Edit \cup {Idle}]
<1>1. /\ v \in Uuid /\ backend \in [Service -> Seq(Uuid)]
      /\ checks' = [checks EXCEPT ![v] = s]
      /\ edit' = [edit EXCEPT ![e] = [at |-> s, id |-> v, lines |-> backend]]
  BY DEF CreateCheck, ReadEnvFile, VarsType
<1>2. [at |-> s, id |-> v, lines |-> backend] \in Edit
  BY <1>1 DEF Edit
<1> QED
  BY <1>1, <1>2 DEF VarsType

LEMMA EnsureCreatesKeeps ==
  ASSUME IInv, NEW a \in Admin, NEW s \in Service, EnsureCreates(a, s)
  PROVE  IInv'
<1>1. PICK v \in Uuid : CreateCheck(v, s) /\ ReadEnvFile(a, s, v)
  BY DEF EnsureCreates
<1>2. /\ a \in Editor
      /\ UNCHANGED <<root, backend, ids, script, tried, runs, events>>
  BY DEF EnsureCreates, Editor
<1>3. VarsType'
  BY <1>1, <1>2, CreatedType DEF IInv, VarsType
<1> QED
  BY <1>1, <1>2, <1>3, CreatedIsEdited

LEMMA FirstPingCreatesKeeps ==
  ASSUME IInv, NEW p \in Process, NEW s \in Service, FirstPingCreates(p, s)
  PROVE  IInv'
<1>1. PICK v \in Uuid : CreateCheck(v, s) /\ ReadEnvFile(p, s, v)
  BY DEF FirstPingCreates
<1>2. /\ p \in Editor
      /\ UNCHANGED <<root, backend, ids, script, runs, events>>
      /\ tried' \in [Process -> SUBSET Uuid]
  BY LookUpType DEF FirstPingCreates, Editor, IInv
<1>3. VarsType'
  BY <1>1, <1>2, CreatedType DEF IInv, VarsType
<1> QED
  BY <1>1, <1>2, <1>3, CreatedIsEdited

LEMMA FirstPingRecordsKeeps ==
  ASSUME IInv, NEW p \in Process, FirstPingRecords(p)
  PROVE  IInv'
<1>1. /\ p \in Editor /\ edit[p] # Idle
      /\ UNCHANGED <<checks, root, ids, script, tried, runs, events>>
  BY DEF FirstPingRecords, Editor
<1>2. \/ WriteEnvFile(p)
      \/ /\ backend' = [backend EXCEPT ![edit[p].at] = Append(@, edit[p].id)]
         /\ edit' = [edit EXCEPT ![p] = Idle]
  BY DEF FirstPingRecords
<1>3. /\ Frame
      /\ backend' \in [Service -> Seq(Uuid)]
      /\ edit' \in [Editor -> Edit \cup {Idle}]
      /\ \A s \in Service, u \in Uuid : FileOwns(s, u)' => Owns(s, u)
  BY <1>1, <1>2, EnvFileWritten, LineAdded DEF Owns
<1>4. VarsType'
  BY <1>1, <1>3 DEF IInv, VarsType
<1>5. NoId \notin Uuid \cap InUse
  BY IdNotNoId
<1> QED
  BY <1>1, <1>3, <1>4, <1>5, OutsideStepKeeps

(* Between scripts, it is enough that no id gets another owner.            *)
LEMMA QuietKeeps ==
  ASSUME IInv, VarsType', Quiet, script' = script,
         \A s \in Service, u \in Uuid : FileOwns(s, u)' => FileOwns(s, u)
  PROVE  IInv'
<1>1. ScriptsInv'
  BY DEF IInv, ScriptsInv, Quiet
<1>2. \A s \in Service, u \in Uuid : Owns(s, u)' => Owns(s, u)
  BY DEF Owns, Quiet
<1>3. OneOwner'
  BY <1>2 DEF IInv, OneOwner
<1> QED
  BY <1>1, <1>3 DEF IInv

LEMMA PublishKeeps ==
  ASSUME IInv, Publish
  PROVE  IInv'
<1>1. /\ root' = backend
      /\ UNCHANGED <<checks, backend, edit, ids, script, tried, runs>>
  BY DEF Publish
<1>2. events' \in 0..MaxEvents
  BY BoundsAssumption DEF IInv, VarsType, Publish, Happens
<1>3. VarsType'
  BY <1>1, <1>2 DEF IInv, VarsType
<1>4. ASSUME NEW s \in Service, NEW u \in Uuid, FileOwns(s, u)'
      PROVE  FileOwns(s, u)
  <2>1. /\ ToSet(root[s])' = ToSet(backend[s])
        /\ ToSet(backend[s])' = ToSet(backend[s])
        /\ EditOwns(s, u)' = EditOwns(s, u)
    BY <1>1 DEF ToSet, EditOwns, LinesOwn
  <2> QED
    BY <1>1, <1>4, <2>1 DEF FileOwns
<1> QED
  BY <1>1, <1>3, <1>4, QuietKeeps DEF Publish

LEMMA RecreateContainersKeeps ==
  ASSUME IInv, RecreateContainers
  PROVE  IInv'
<1>1. /\ Recreate(Container) /\ Quiet
      /\ UNCHANGED <<checks, root, script, runs, events>>
  BY DEF RecreateContainers
<1>2. /\ backend' \in [Service -> Seq(Uuid)]
      /\ ids' \in [Container -> [Service -> Id]]
      /\ edit' \in [Editor -> Edit \cup {Idle}]
      /\ tried' \in [Process -> SUBSET Uuid]
      /\ \A s \in Service, u \in Uuid : FileOwns(s, u)' => FileOwns(s, u)
  BY <1>1, RecreateFacts
<1>3. VarsType'
  BY <1>1, <1>2 DEF IInv, VarsType
<1> QED
  BY <1>1, <1>2, <1>3, QuietKeeps

LEMMA LoseDatabaseKeeps ==
  ASSUME IInv, LoseDatabase
  PROVE  IInv'
<1>1. /\ checks' = [u \in Uuid |-> NoCheck] /\ Quiet
      /\ UNCHANGED <<root, backend, edit, ids, script, tried, runs>>
  BY DEF LoseDatabase
<1>2. events' \in 0..MaxEvents
  BY BoundsAssumption DEF IInv, VarsType, LoseDatabase, Happens
<1>3. VarsType'
  BY <1>1, <1>2 DEF IInv, VarsType
<1>4. ASSUME NEW s \in Service, NEW u \in Uuid, FileOwns(s, u)'
      PROVE  FileOwns(s, u)
  <2>1. /\ ToSet(root[s])' = ToSet(root[s])
        /\ ToSet(backend[s])' = ToSet(backend[s])
        /\ EditOwns(s, u)' = EditOwns(s, u)
    BY <1>1 DEF ToSet, EditOwns, LinesOwn
  <2>2. checks'[u] # s
    BY <1>1, NoCheckAssumption
  <2> QED
    BY <1>1, <1>4, <2>1, <2>2 DEF FileOwns
<1> QED
  BY <1>1, <1>3, <1>4, QuietKeeps

LEMMA StutteringKeeps ==
  ASSUME IInv, UNCHANGED vars
  PROVE  IInv'
<1>1. VarsType' /\ script' = script
  BY DEF vars, IInv, VarsType
<1>2. NoId \notin Uuid \cap InUse
  BY IdNotNoId
<1>3. /\ Frame
      /\ \A t \in Service, u \in Uuid : FileOwns(t, u)' => Owns(t, u)
  BY NothingChanges DEF vars
<1> QED
  BY <1>1, <1>2, <1>3, OutsideStepKeeps

-----------------------------------------------------------------------------
(***************************************************************************)
(* The invariant                                                           *)
(***************************************************************************)

LEMMA InitOK == Init => IInv
<1> SUFFICES ASSUME Init
             PROVE  IInv
  OBVIOUS
<1>1. /\ root \in [Service -> {<<>>} \cup {<<u>> : u \in Uuid}]
      /\ \A s, t \in Service : root[s] = root[t] => s = t \/ root[s] = <<>>
      /\ backend = root
  BY DEF Init
<1>2. ASSUME NEW s \in Service
      PROVE  /\ root[s] \in Seq(Uuid)
             /\ \A u \in ToSet(root[s]) : root[s] = <<u>>
  <2>1. CASE root[s] = <<>>
    BY <2>1 DEF ToSet
  <2>2. ASSUME NEW w \in Uuid, root[s] = <<w>>
        PROVE  /\ root[s] \in Seq(Uuid)
               /\ \A u \in ToSet(root[s]) : root[s] = <<u>>
    BY <2>2 DEF ToSet
  <2> QED
    BY <1>1, <2>1, <2>2
<1>3. root \in [Service -> Seq(Uuid)]
  BY <1>1, <1>2
<1>4. /\ Effective(root) \in [Service -> Id]
      /\ \A s \in Service, u \in Uuid :
           Effective(root)[s] = u => u \in ToSet(root[s])
  BY <1>3, EffectiveType, IdNotNoId
<1>5. VarsType
  BY <1>1, <1>3, <1>4, BoundsAssumption DEF Init, VarsType
<1>6. script \in [Admin -> Run \cup {Idle}] /\ \A a \in Admin : script[a] = Idle
  BY DEF Init
<1>7. ASSUME NEW s \in Service, NEW u \in Uuid, Owns(s, u)
      PROVE  root[s] = <<u>>
  <2>1. checks[u] # s
    BY NoCheckAssumption DEF Init
  <2>2. \A c \in Container : ids[c][s] = u => u \in ToSet(root[s])
    BY <1>4 DEF Init
  <2>3. ~EditOwns(s, u)
    BY DEF Init, EditOwns
  <2>4. u \in ToSet(root[s])
    BY <1>1, <1>6, <1>7, <2>1, <2>2, <2>3 DEF Owns, FileOwns
  <2> QED
    BY <1>2, <2>4
<1>8. OneOwner
  <2> SUFFICES ASSUME NEW u \in Uuid, NEW s \in Service, NEW t \in Service,
                      Owns(s, u), Owns(t, u)
               PROVE  s = t
    BY DEF OneOwner
  <2>1. root[s] = <<u>> /\ root[t] = <<u>>
    BY <1>7
  <2>2. root[s] # <<>>
    BY <2>1
  <2> QED
    BY <1>1, <2>1, <2>2
<1> QED
  BY <1>5, <1>6, <1>8 DEF IInv, ScriptsInv

LEMMA CommandKeeps ==
  ASSUME IInv, NEW a \in Admin, Command(a)
  PROVE  IInv'
BY StartEnsureKeeps, StartSyncKeeps, StartSetupKeeps, StartOrmKeeps,
   StartAllKeeps, StartCleanupKeeps
   DEF Command

LEMMA ScriptStepKeeps ==
  ASSUME IInv, NEW a \in Admin, Step(a)
  PROVE  IInv'
<1>1. ASSUME NEW s \in Service,
             EnsureFinds(a, s) \/ EnsureMisses(a, s) \/ EnsureCreates(a, s)
               \/ EnsureRecords(a, s)
      PROVE  IInv'
  BY <1>1, EnsureFindsKeeps, EnsureMissesKeeps, EnsureCreatesKeeps,
     EnsureRecordsKeeps
<1>2. ASSUME NEW s \in Service,
             SyncFinds(a, s) \/ SyncCreates(a, s) \/ SyncDeletes(a, s)
               \/ RequestFails(a, s)
      PROVE  IInv'
  BY <1>2, SyncFindsKeeps, SyncCreatesKeeps, SyncDeletesKeeps,
     RequestFailsKeeps
<1>3. ASSUME NEW s \in Service,
             SetupSkips(a, s) \/ SetupCreates(a, s) \/ SetupFails(a, s)
      PROVE  IInv'
  BY <1>3, SetupSkipsKeeps, SetupCreatesKeeps
<1>4. ASSUME NEW s \in Service, OrmEnsures(a, s) \/ OrmFails(a, s)
      PROVE  IInv'
  BY <1>4, OrmEnsuresKeeps, OrmFailsKeeps
<1>5. CASE \/ SetupRecords(a) \/ CopyToBackend(a) \/ RecreateWorker(a)
           \/ BeginCleanup(a) \/ \E u \in Uuid : CleanupDeletes(a, u)
  BY <1>5, SetupRecordsKeeps, CopyToBackendKeeps, RecreateWorkerKeeps,
     BeginCleanupKeeps, CleanupDeletesKeeps
<1> QED
  BY <1>1, <1>2, <1>3, <1>4, <1>5 DEF Step

LEMMA StepOK == IInv /\ [Next]_vars => IInv'
<1> SUFFICES ASSUME IInv, [Next]_vars
             PROVE  IInv'
  OBVIOUS
<1>1. ASSUME NEW a \in Admin, Command(a) \/ Step(a) \/ Interrupt(a)
      PROVE  IInv'
  BY <1>1, CommandKeeps, ScriptStepKeeps, InterruptKeeps
<1>2. ASSUME NEW p \in Process,
             \/ \E s \in Service : FirstPing(p, s) \/ FirstPingCreates(p, s)
             \/ FirstPingRecords(p)
      PROVE  IInv'
  BY <1>2, FirstPingKeeps, FirstPingCreatesKeeps, FirstPingRecordsKeeps
<1>3. CASE Publish \/ RecreateContainers \/ LoseDatabase
  BY <1>3, PublishKeeps, RecreateContainersKeeps, LoseDatabaseKeeps
<1>4. CASE UNCHANGED vars
  BY <1>4, StutteringKeeps
<1> QED
  BY <1>1, <1>2, <1>3, <1>4 DEF Next

(* In every reachable state, an id belongs to one service, whoever holds   *)
(* it, no script is going to delete a check that the root file names, and  *)
(* a start script has put in place what it is done with.                   *)
THEOREM OneOwnerAlways == Spec => []IInv
BY InitOK, StepOK, PTL DEF Spec

(* Files, environments, checks and scripts keep their types: no id is put  *)
(* in a file before a check has been created for it.                       *)
THEOREM TypeCorrect == Spec => []TypeOK
<1>1. IInv => TypeOK
  BY DEF IInv, VarsType, ScriptsInv, TypeOK
<1> QED
  BY <1>1, OneOwnerAlways, PTL

-----------------------------------------------------------------------------
(***************************************************************************)
(* No named check is deleted                                               *)
(***************************************************************************)

(* No check disappears.                                                    *)
ChecksStay ==
  \A u \in Uuid : checks'[u] = checks[u] \/ checks'[u] \in Service

LEMMA NamingDeletesNone ==
  ASSUME VarsType, NEW u, NEW s \in Service,
         checks' \in {checks, [checks EXCEPT ![u] = s]}
  PROVE  ChecksStay
BY DEF VarsType, ChecksStay

LEMMA StepDeletesUnnamed ==
  ASSUME IInv, Next, script' # script,
         NEW u \in Uuid, checks[u] # NoCheck, checks'[u] = NoCheck
  PROVE  u \notin IdsIn(root)
<1> SUFFICES u \notin IdsIn(root) \/ ChecksStay
  BY NoCheckAssumption DEF ChecksStay
<1>1. VarsType /\ (checks' = checks => ChecksStay)
  BY DEF IInv, ChecksStay
<1>2. ASSUME NEW a \in Admin, Command(a) \/ Interrupt(a)
      PROVE  ChecksStay
  BY <1>1, <1>2
     DEF Command, Interrupt, StartEnsure, StartSync, StartSetup, StartOrm,
         StartAll, StartCleanup
<1>3. ASSUME NEW a \in Admin, NEW s \in Service,
             \/ EnsureFinds(a, s) \/ EnsureMisses(a, s)
             \/ EnsureCreates(a, s) \/ EnsureRecords(a, s)
      PROVE  ChecksStay
  BY <1>1, <1>3, NamingDeletesNone
     DEF EnsureFinds, EnsureMisses, EnsureCreates, EnsureRecords, CreateCheck
<1>4. ASSUME NEW a \in Admin, NEW s \in Service,
             \/ SyncFinds(a, s) \/ SyncCreates(a, s) \/ RequestFails(a, s)
             \/ SetupSkips(a, s) \/ SetupCreates(a, s) \/ SetupFails(a, s)
             \/ OrmEnsures(a, s) \/ OrmFails(a, s)
      PROVE  ChecksStay
  BY <1>1, <1>4, NamingDeletesNone
     DEF SyncFinds, SyncCreates, RequestFails, SetupSkips, SetupCreates,
         SetupFails, OrmEnsures, OrmFails, CreateCheck
<1>5. ASSUME NEW a \in Admin,
             SetupRecords(a) \/ CopyToBackend(a) \/ RecreateWorker(a)
               \/ BeginCleanup(a)
      PROVE  ChecksStay
  BY <1>1, <1>5 DEF SetupRecords, CopyToBackend, RecreateWorker, BeginCleanup
<1>6. ASSUME NEW a \in Admin, NEW s \in Service, SyncDeletes(a, s)
      PROVE  u \notin IdsIn(root)
  <2>1. PICK run : run = script[a]
    OBVIOUS
  <2>2. run # Idle /\ checks' = [checks EXCEPT ![run.made] = NoCheck]
    BY <1>6, <2>1 DEF SyncDeletes, Runs
  <2>3. run.made \notin IdsIn(root)
    BY <2>1, <2>2, RunOf DEF RunInv, DeletesUnnamed
  <2> QED
    BY <1>1, <2>2, <2>3 DEF VarsType
<1>7. ASSUME NEW a \in Admin, NEW v \in Uuid, CleanupDeletes(a, v)
      PROVE  u \notin IdsIn(root)
  <2>1. PICK run : run = script[a]
    OBVIOUS
  <2>2. /\ run # Idle /\ v \in run.listed
        /\ checks' \in {checks, [checks EXCEPT ![v] = NoCheck]}
    BY <1>7, <2>1 DEF CleanupDeletes, Runs
  <2>3. v \notin IdsIn(root)
    BY <2>1, <2>2, RunOf DEF RunInv, DeletesUnnamed
  <2> QED
    BY <1>1, <2>2, <2>3 DEF VarsType
<1>8. script' = script \/ \E a \in Admin : Command(a) \/ Step(a) \/ Interrupt(a)
  BY DEF Next, FirstPing, FirstPingCreates, FirstPingRecords, Publish,
         RecreateContainers, LoseDatabase
<1> QED
  BY <1>2, <1>3, <1>4, <1>5, <1>6, <1>7, <1>8 DEF Step

(* Whoever runs which scripts at once, none deletes a check whose id is in *)
(* the root file: neither the cleanup, which lists the checks before it    *)
(* deletes them, nor the script that makes up for a wrong id.              *)
THEOREM NamedCheckStays == Spec => NamedCheckIsKept
<1>1. IInv /\ [Next]_vars =>
        [\A u \in Uuid :
           checks[u] # NoCheck /\ checks'[u] = NoCheck /\ script # script'
             => u \notin IdsIn(root)]_vars
  BY StepDeletesUnnamed
<1> QED
  BY <1>1, OneOwnerAlways, PTL DEF Spec, NamedCheckIsKept

-----------------------------------------------------------------------------
(***************************************************************************)
(* The start script ends with the checks in place                          *)
(***************************************************************************)

LEMMA LastStepReconciles ==
  ASSUME IInv, NEW a \in Admin, script[a] # Idle, script[a].stage = "cleanup",
         BeginCleanup(a) \/ \E u \in Uuid : CleanupDeletes(a, u),
         NEW s \in Named(root)
  PROVE  /\ checks'[LastLine(root[s])] = s
         /\ script[a].stale \/ ids'["worker"][s] = LastLine(root[s])
<1>1. PICK run : run = script[a]
  OBVIOUS
<1>2. /\ run \in Run /\ RunInv(run)
  BY <1>1, RunOf
<1>3. Good(s) /\ (run.stale = FALSE => ids["worker"] = Effective(root))
  BY <1>1, <1>2 DEF RunInv, StageShape, Reconciles
<1>4. Frame /\ ids' = ids
  <2>1. CASE BeginCleanup(a)
    BY <2>1, NothingChanges DEF BeginCleanup
  <2>2. ASSUME NEW u \in Uuid, CleanupDeletes(a, u)
        PROVE  Frame /\ ids' = ids
    <3>1. u \in Id \ IdsIn(root)
      BY <1>1, <1>2, <2>2, IdNotNoId
         DEF CleanupDeletes, RunInv, DeletesUnnamed
    <3> QED
      BY <2>2, <3>1, CheckIsDeleted DEF CleanupDeletes
  <2> QED
    BY <2>1, <2>2
<1>5. Good(s)' /\ root' = root
  BY <1>3, <1>4, GoodKept DEF Frame
<1>6. run.stale = FALSE => ids'["worker"][s] = LastLine(root[s])
  BY <1>3, <1>4, NamedLine, EffectiveType DEF IInv, VarsType
<1>7. run.stale \in BOOLEAN
  BY <1>2 DEF Run
<1> QED
  BY <1>1, <1>5, <1>6, <1>7 DEF Good

(* When the start script comes to its end, the check that the root file    *)
(* has for a service exists under the right name, for every service that   *)
(* has one, whatever another admin has done meanwhile; and the worker pings*)
(* it, unless it could not be recreated, which does not end the script.    *)
THEOREM StartEndsReconciled == Spec => EndsReconciled
<1>1. IInv /\ [Next]_vars =>
        [\A a \in Admin :
           (\/ BeginCleanup(a)
            \/ At(a, "cleanup") /\ \E u \in Uuid : CleanupDeletes(a, u))
           /\ script'[a] = Idle
             => \A s \in Named(root) :
                  /\ checks'[LastLine(root[s])] = s
                  /\ script[a].stale
                     \/ ids'["worker"][s] = LastLine(root[s])]_vars
  BY LastStepReconciles DEF BeginCleanup, At
<1> QED
  BY <1>1, OneOwnerAlways, PTL DEF Spec, EndsReconciled

-----------------------------------------------------------------------------
(***************************************************************************)
(* The probes                                                              *)
(***************************************************************************)

PingSeqs == UNION {[1..k -> Ping] : k \in 0..2}

LEMMA OnePing ==
  ASSUME NEW p \in Ping
  PROVE  <<p>> \in PingSeqs
<1>1. <<p>> \in [1..1 -> Ping]
  OBVIOUS
<1> QED
  BY <1>1 DEF PingSeqs

LEMMA TwoPings ==
  ASSUME NEW p \in Ping, NEW q \in Ping
  PROVE  <<p, q>> \in PingSeqs
<1>1. <<p, q>> \in [1..2 -> Ping]
  OBVIOUS
<1> QED
  BY <1>1 DEF PingSeqs

LEMMA TailOfPings ==
  ASSUME NEW pings \in PingSeqs, pings # <<>>
  PROVE  Tail(pings) \in PingSeqs
<1>1. PICK k \in 0..2 : pings \in [1..k -> Ping]
  BY DEF PingSeqs
<1>2. /\ pings \in Seq(Ping) /\ Len(pings) = k
      /\ Tail(pings) \in Seq(Ping) /\ Len(Tail(pings)) = k - 1
  BY <1>1
<1>3. k - 1 \in 0..2
  <2>1. k # 0
    BY <1>1
  <2> QED
    BY <2>1
<1>4. Tail(pings) \in [1..(k - 1) -> Ping]
  <2>1. ASSUME NEW q \in Seq(Ping)
        PROVE  q \in [1..Len(q) -> Ping]
    OBVIOUS
  <2> QED
    BY <1>2, <2>1
<1> QED
  BY <1>3, <1>4 DEF PingSeqs

LEMMA FindingsType ==
  ASSUME NEW s \in Watched
  PROVE  Findings(s) \in PingSeqs
<1>1. ASSUME NEW c \in Check, NEW success \in BOOLEAN
      PROVE  Tell(c, success) \in Ping
  BY DEF Tell, Ping
<1>2. /\ s \in Check
      /\ "kafka_consumer" \in Check /\ "celery_beat" \in Check
  BY DEF Check
<1>3. CASE s = "kafka"
  <2>1. Findings(s) = ProbeKafka
    BY <1>3 DEF Findings
  <2> QED
    BY <1>1, <1>2, <1>3, <2>1, OnePing, TwoPings DEF ProbeKafka
<1>4. CASE s = "celery"
  <2>1. Findings(s) = ProbeCelery
    BY <1>4 DEF Findings
  <2> QED
    BY <1>1, <1>2, <1>4, <2>1, OnePing, TwoPings DEF ProbeCelery
<1>5. CASE s # "kafka" /\ s # "celery"
  <2>1. Findings(s) = ProbeService(s)
    BY <1>5 DEF Findings
  <2>2. (s \in alive) \in BOOLEAN
    OBVIOUS
  <2>3. Tell(s, s \in alive) \in Ping
    BY <1>1, <1>2, <2>2
  <2> QED
    BY <2>1, <2>3, OnePing DEF ProbeService
<1> QED
  BY <1>3, <1>4, <1>5

(***************************************************************************)
(* The invariant: a process is not past the end of what its task probes.   *)
(***************************************************************************)

WithinTask == {b \in Busy : b.n <= Len(ProbedBy(b.task))}

ProbesInv ==
  /\ ProbesTypeOK
  /\ exec \in [Worker -> WithinTask \cup {NoTask}]

(* What a process that is busy has.                                        *)
LEMMA BusyFields ==
  ASSUME ProbesInv, NEW e \in Worker, Works(e)
  PROVE  /\ exec[e] \in Busy
         /\ exec[e].task \in Task /\ exec[e].n \in 1..Len(Order)
         /\ exec[e].pings \in PingSeqs /\ exec[e].tries \in 0..RetryCount - 1
         /\ exec[e].n <= Len(ProbedBy(exec[e].task))
<1>1. exec[e] \in WithinTask
  BY DEF ProbesInv, Works
<1>2. exec[e] \in Busy
  BY <1>1 DEF WithinTask
<1>3. exec[e].n <= Len(ProbedBy(exec[e].task))
  BY <1>1 DEF WithinTask
<1> QED
  BY <1>2, <1>3 DEF Busy, PingSeqs

(* What a task probes.                                                     *)
LEMMA Probed ==
  ASSUME OrderAssumption, NEW task \in Task,
         NEW n \in Nat \ {0}, n <= Len(ProbedBy(task))
  PROVE  ProbedBy(task)[n] \in Watched
<1>1. Order \in Seq(STRING) /\ Len(Order) \in Nat
  BY DEF OrderAssumption
<1>2. CASE task = "comprehensive"
  <2>1. ProbedBy(task) = Order
    BY <1>2 DEF ProbedBy
  <2>2. n \in 1..Len(Order)
    BY <1>1, <2>1
  <2> QED
    BY <2>1, <2>2 DEF Watched
<1>3. CASE task # "comprehensive"
  <2>1. ProbedBy(task) = <<task>> /\ task \in Watched
    BY <1>3 DEF ProbedBy, Task
  <2>2. n = 1
    BY <2>1
  <2> QED
    BY <2>1, <2>2
<1> QED
  BY <1>2, <1>3

LEMMA ProbedLength ==
  ASSUME OrderAssumption, NEW task \in Task
  PROVE  /\ Len(Order) \in Nat \ {0}
         /\ Len(ProbedBy(task)) \in 1..Len(Order)
<1>1. Order \in Seq(STRING) /\ Order # <<>>
  BY DEF OrderAssumption
<1>2. Len(Order) \in Nat \ {0}
  BY <1>1
<1>3. CASE ProbedBy(task) = Order
  BY <1>2, <1>3
<1>4. CASE ProbedBy(task) = <<task>>
  <2>1. Len(ProbedBy(task)) = 1
    BY <1>4
  <2> QED
    BY <1>2, <2>1
<1> QED
  BY <1>3, <1>4 DEF ProbedBy

LEMMA ProbesBegin ==
  ASSUME ProbesInit
  PROVE  ProbesInv
BY DEF ProbesInit, ProbesTypeOK, ProbesInv

(* A process that stays within its task, or is idle, keeps the invariant.  *)
LEMMA ExecType ==
  ASSUME ProbesInv, NEW e \in Worker,
         NEW x \in WithinTask \cup {NoTask},
         exec' = [exec EXCEPT ![e] = x]
  PROVE  /\ exec' \in [Worker -> WithinTask \cup {NoTask}]
         /\ exec' \in [Worker -> Busy \cup {NoTask}]
<1>1. exec' \in [Worker -> WithinTask \cup {NoTask}]
  BY DEF ProbesInv
<1>2. WithinTask \subseteq Busy
  BY DEF WithinTask
<1> QED
  BY <1>1, <1>2

LEMMA ReceiveType ==
  ASSUME RetryCountAssumption, OrderAssumption, ProbesInv,
         NEW e \in Worker, NEW task \in Task, Receive(e, task)
  PROVE  ProbesInv'
<1> DEFINE x == Begin(task)
<1>1. 1 \in 1..Len(Order) /\ 0 \in 0..RetryCount - 1
  BY ProbedLength DEF RetryCountAssumption
<1>2. <<>> \in PingSeqs
  <2>1. <<>> \in [1..0 -> Ping]
    OBVIOUS
  <2> QED
    BY <2>1 DEF PingSeqs
<1>3. x \in Busy
  BY <1>1, <1>2 DEF Begin, Busy, PingSeqs
<1>4. x.n <= Len(ProbedBy(x.task))
  BY ProbedLength DEF Begin
<1>5. x \in WithinTask
  BY <1>3, <1>4 DEF WithinTask
<1>6. exec' = [exec EXCEPT ![e] = x] /\ queue' = queue \ {task}
      /\ UNCHANGED <<alive, up>>
  BY DEF Receive
<1> QED
  BY <1>5, <1>6, ExecType DEF ProbesInv, ProbesTypeOK

LEMMA ProbeType ==
  ASSUME OrderAssumption, ProbesInv,
         NEW e \in Worker, Probe(e)
  PROVE  ProbesInv'
<1> DEFINE s == ProbedBy(exec[e].task)[exec[e].n]
           f == Findings(s)
           x == [exec[e] EXCEPT !.pings = f]
<1>1. /\ Works(e)
      /\ exec' = [exec EXCEPT ![e].pings = f]
      /\ UNCHANGED <<alive, queue, up>>
  BY DEF Probe
<1>2. /\ exec[e] \in Busy
      /\ exec[e].task \in Task /\ exec[e].n \in Nat \ {0}
      /\ exec[e].n <= Len(ProbedBy(exec[e].task))
  BY <1>1, BusyFields
<1>3. s \in Watched
  BY <1>2, Probed
<1>4. f \in PingSeqs
  BY <1>3, FindingsType
<1> HIDE DEF f
<1>5. x \in Busy /\ x.n = exec[e].n /\ x.task = exec[e].task
  BY <1>2, <1>4 DEF Busy, PingSeqs
<1>6. x \in WithinTask
  BY <1>2, <1>5 DEF WithinTask
<1>7. exec' = [exec EXCEPT ![e] = x]
  BY <1>1
<1> QED
  BY <1>1, <1>6, <1>7, ExecType DEF ProbesInv, ProbesTypeOK

(* A process that goes on after a ping, and what becomes of its task.      *)
LEMMA NextPingType ==
  ASSUME RetryCountAssumption, OrderAssumption, ProbesInv,
         NEW e \in Worker, Pings(e), NextPing(e)
  PROVE  /\ exec' \in [Worker -> WithinTask \cup {NoTask}]
         /\ exec' \in [Worker -> Busy \cup {NoTask}]
         /\ queue' \subseteq Task
<1>1. /\ exec[e] \in Busy
      /\ exec[e].task \in Task /\ exec[e].n \in 1..Len(Order)
      /\ exec[e].pings \in PingSeqs /\ exec[e].pings # <<>>
      /\ exec[e].n <= Len(ProbedBy(exec[e].task))
  BY BusyFields DEF Pings
<1>2. queue \subseteq Task
  BY DEF ProbesInv, ProbesTypeOK
<1>3. 0 \in 0..RetryCount - 1
  BY DEF RetryCountAssumption
<1>4. <<>> \in PingSeqs
  <2>1. <<>> \in [1..0 -> Ping]
    OBVIOUS
  <2> QED
    BY <2>1 DEF PingSeqs
<1>5. CASE /\ exec' = [exec EXCEPT ![e].pings = Tail(@), ![e].tries = 0]
           /\ UNCHANGED queue
  <2> DEFINE t == Tail(exec[e].pings)
             x == [exec[e] EXCEPT !.pings = t, !.tries = 0]
  <2>1. t \in PingSeqs
    BY <1>1, TailOfPings
  <2>2. exec' = [exec EXCEPT ![e] = x]
    BY <1>5 DEF ProbesInv, ProbesTypeOK
  <2> HIDE DEF t
  <2>3. x \in Busy /\ x.n = exec[e].n /\ x.task = exec[e].task
    BY <1>1, <1>3, <2>1 DEF Busy, PingSeqs
  <2>4. x \in WithinTask
    BY <1>1, <2>3 DEF WithinTask
  <2> QED
    BY <1>2, <1>5, <2>2, <2>4, ExecType
<1>6. CASE /\ exec[e].n < Len(ProbedBy(exec[e].task))
           /\ exec' = [exec EXCEPT ![e].n = @ + 1, ![e].pings = <<>>,
                                   ![e].tries = 0]
           /\ UNCHANGED queue
  <2> DEFINE n == exec[e].n + 1
             x == [exec[e] EXCEPT !.n = n, !.pings = <<>>, !.tries = 0]
  <2>1. n \in 1..Len(Order) /\ n <= Len(ProbedBy(exec[e].task))
    BY <1>1, <1>6, ProbedLength
  <2>2. exec' = [exec EXCEPT ![e] = x]
    BY <1>6 DEF ProbesInv, ProbesTypeOK
  <2> HIDE DEF n
  <2>3. x \in Busy /\ x.n = n /\ x.task = exec[e].task
    BY <1>1, <1>3, <1>4, <2>1 DEF Busy, PingSeqs
  <2>4. x \in WithinTask
    BY <2>1, <2>3 DEF WithinTask
  <2> QED
    BY <1>2, <1>6, <2>2, <2>4, ExecType
<1>7. CASE /\ exec' = [exec EXCEPT ![e] = NoTask]
           /\ queue' \in {queue, queue \cup {exec[e].task}}
  BY <1>1, <1>2, <1>7, ExecType
<1> QED
  BY <1>5, <1>6, <1>7 DEF NextPing

LEMMA TryAgainType ==
  ASSUME RetryCountAssumption, OrderAssumption, ProbesInv,
         NEW e \in Worker, Pings(e), TryAgain(e)
  PROVE  /\ exec' \in [Worker -> WithinTask \cup {NoTask}]
         /\ exec' \in [Worker -> Busy \cup {NoTask}]
         /\ queue' \subseteq Task
<1>1. /\ exec[e] \in Busy /\ exec[e].tries \in 0..RetryCount - 1
      /\ exec[e].n <= Len(ProbedBy(exec[e].task))
  BY BusyFields DEF Pings
<1>2. CASE exec[e].tries + 1 < RetryCount
  <2> DEFINE n == exec[e].tries + 1
             x == [exec[e] EXCEPT !.tries = n]
  <2>1. n \in 0..RetryCount - 1
    BY <1>1, <1>2 DEF RetryCountAssumption
  <2>2. exec' = [exec EXCEPT ![e] = x] /\ UNCHANGED queue
    BY <1>2 DEF TryAgain
  <2> HIDE DEF n
  <2>3. x \in Busy /\ x.n = exec[e].n /\ x.task = exec[e].task
    BY <1>1, <2>1 DEF Busy
  <2>4. x \in WithinTask
    BY <1>1, <2>3 DEF WithinTask
  <2> QED
    BY <2>2, <2>4, ExecType DEF ProbesInv, ProbesTypeOK
<1>3. CASE ~(exec[e].tries + 1 < RetryCount)
  <2>1. NextPing(e)
    BY <1>3 DEF TryAgain
  <2> QED
    BY <2>1, NextPingType
<1> QED
  BY <1>2, <1>3

LEMMA ApplyPingType ==
  ASSUME ProbesInv, NEW e \in Worker, ApplyPing(e)
  PROVE  up' \subseteq Watched
BY DEF ApplyPing, ProbesInv, ProbesTypeOK

LEMMA SendType ==
  ASSUME RetryCountAssumption, OrderAssumption, ProbesInv,
         NEW e \in Worker, Send(e)
  PROVE  ProbesInv'
<1>1. CASE PingArrives(e)
  <2>1. /\ Pings(e) /\ ApplyPing(e) /\ NextPing(e)
        /\ UNCHANGED alive
    BY <1>1 DEF PingArrives
  <2> QED
    BY <2>1, NextPingType, ApplyPingType DEF ProbesInv, ProbesTypeOK
<1>2. CASE PingUnanswered(e)
  <2>1. /\ Pings(e) /\ ApplyPing(e) /\ TryAgain(e)
        /\ UNCHANGED alive
    BY <1>2 DEF PingUnanswered
  <2> QED
    BY <2>1, TryAgainType, ApplyPingType DEF ProbesInv, ProbesTypeOK
<1>3. CASE PingLost(e)
  <2>1. Pings(e) /\ TryAgain(e) /\ UNCHANGED <<alive, up>>
    BY <1>3 DEF PingLost
  <2> QED
    BY <2>1, TryAgainType DEF ProbesInv, ProbesTypeOK
<1> QED
  BY <1>1, <1>2, <1>3 DEF Send

LEMMA CrashType ==
  ASSUME ProbesInv, NEW e \in Worker, Crash(e)
  PROVE  ProbesInv'
<1>1. /\ Works(e) /\ exec' = [exec EXCEPT ![e] = NoTask]
      /\ queue' \in {queue, queue \cup {exec[e].task}}
      /\ UNCHANGED <<alive, up>>
  BY DEF Crash
<1>2. exec[e].task \in Task
  BY <1>1, BusyFields
<1> QED
  BY <1>1, <1>2, ExecType DEF ProbesInv, ProbesTypeOK

LEMMA StopWorkersType ==
  ASSUME ProbesInv, StopWorkers
  PROVE  ProbesInv'
<1>1. ASSUME NEW e \in {w \in Worker : Works(w)}
      PROVE  exec[e].task \in Task
  BY BusyFields
<1> QED
  BY <1>1 DEF StopWorkers, ProbesInv, ProbesTypeOK

(* Every step of the probes keeps the invariant.                           *)
LEMMA ProbesStep ==
  ASSUME RetryCountAssumption, OrderAssumption, ProbesInv,
         [ProbesNext]_probeVars
  PROVE  ProbesInv'
<1>1. CASE UNCHANGED probeVars
  BY <1>1 DEF probeVars, ProbesInv, ProbesTypeOK
<1>2. ASSUME NEW task \in Task, Schedule(task)
      PROVE  ProbesInv'
  BY <1>2 DEF Schedule, ProbesInv, ProbesTypeOK
<1>3. ASSUME NEW s \in Component, Fail(s)
      PROVE  ProbesInv'
  BY <1>3 DEF Fail, ProbesInv, ProbesTypeOK
<1>4. ASSUME NEW s \in Component, Recover(s)
      PROVE  ProbesInv'
  BY <1>4 DEF Recover, ProbesInv, ProbesTypeOK
<1>5. ASSUME NEW c \in Watched, Tick(c)
      PROVE  ProbesInv'
  BY <1>5 DEF Tick, ProbesInv, ProbesTypeOK
<1>6. CASE ProbesNext
  <2>1. ASSUME NEW e \in Worker,
               Probe(e) \/ Send(e) \/ Crash(e)
        PROVE  ProbesInv'
    BY <2>1, ProbeType, SendType, CrashType
  <2>2. ASSUME NEW task \in Task, NEW e \in Worker,
               Receive(e, task)
        PROVE  ProbesInv'
    BY <2>2, ReceiveType
  <2> QED
    BY <1>2, <1>3, <1>4, <1>5, <1>6, <2>1, <2>2, StopWorkersType
    DEF ProbesNext
<1> QED
  BY <1>1, <1>6

(* Whatever is probed, and however often a ping is tried: a process never  *)
(* looks for a service past the end of what its task goes through, and no  *)
(* check that pings reach is one of a service that is not probed.          *)
THEOREM ProbesTypeCorrect ==
  ASSUME RetryCountAssumption, OrderAssumption
  PROVE  ProbesSpec => []ProbesTypeOK
<1>1. ProbesInit => ProbesInv
  BY ProbesBegin
<1>2. ProbesInv /\ [ProbesNext]_probeVars => ProbesInv'
  BY ProbesStep
<1>3. ProbesInv => ProbesTypeOK
  BY DEF ProbesInv
<1> QED
  BY <1>1, <1>2, <1>3, PTL DEF ProbesSpec
===============================================================================
