------------------------------ MODULE Monitoring ------------------------------
(***************************************************************************)
(* The probes of the services and what Healthchecks.io is told of them.    *)
(*                                                                         *)
(* Beat puts the tasks monitoring.* into the queue and the processes of    *)
(* the monitoring worker take them.  A probe looks at a service once, and  *)
(* only then pings: what it saw may be out of date when the ping arrives,  *)
(* and two processes may ping the same check in either order.  A ping is   *)
(* tried a few times, each of which may be lost, or arrive without an      *)
(* answer.                                                                 *)
(*                                                                         *)
(* The routes that run the same probes for an admin do not: role_required  *)
(* refuses whoever has no role yet, and without tenant_required, which     *)
(* they lack, nobody has one.                                              *)
(*                                                                         *)
(* Outside: the services, which fail and come back; Celery, with the queue *)
(* in Redis and acks_late; Healthchecks.io, where a check is up with a     *)
(* ping of success, and down with a ping of failure or without any ping    *)
(* for its timeout and grace.                                              *)
(***************************************************************************)
EXTENDS Naturals, Sequences, FiniteSets

CONSTANTS
  Order,       \* services, as the comprehensive check goes through them
  Worker,      \* processes for the queue monitoring
  RetryCount   \* HEALTHCHECKS_RETRY_COUNT

ASSUME RetryCountAssumption == RetryCount \in Nat \ {0}

ASSUME OrderAssumption == Order \in Seq(STRING) \ {<<>>}

VARIABLES
  alive,   \* the services that work, and "beat" if it does
  queue,   \* tasks that wait; bound: a task is not put into it twice
  exec,    \* exec[e]: what process e does
  up       \* the services whose checks Healthchecks.io shows as up

probeVars == <<alive, queue, exec, up>>

Watched == {Order[n] : n \in 1..Len(Order)}

Broker == "redis"

(* The probes of Kafka and Celery also ping for the consumer and for beat, *)
(* whose checks say nothing of them: see below.                            *)
Check == Watched \cup {"kafka_consumer", "celery_beat"}

(* The tasks: one per service, and the comprehensive one.                  *)
Task == Watched \cup {"comprehensive"}

NoTask == [task |-> "none"]

Ping == [check : Check, success : BOOLEAN]

(* It is at place n of what `task` probes, has `pings` left to send, and   *)
(* has tried the first of them `tries` times.                              *)
Busy ==
  [task : Task, n : 1..Len(Order),
   pings : UNION {[1..k -> Ping] : k \in 0..2}, tries : 0..RetryCount - 1]

Begin(task) ==
  [task |-> task, n |-> 1, pings |-> <<>>, tries |-> 0]

ProbedBy(task) == IF task = "comprehensive" THEN Order ELSE <<task>>

Works(e) == exec[e] # NoTask

Tell(check, success) == [check |-> check, success |-> success]

-----------------------------------------------------------------------------
(***************************************************************************)
(* What the probes find                                                    *)
(***************************************************************************)

ProbeService(s) == <<Tell(s, s \in alive)>>

(* The consumer runs in a container of its own, where pgrep cannot see it. *)
ProbeKafka ==
  IF "kafka" \in alive
  THEN <<Tell("kafka", TRUE), Tell("kafka_consumer", FALSE)>>
  ELSE <<Tell("kafka", FALSE)>>

(* Some worker answers, of whatever queue.  Beat's own file is in another  *)
(* container: it counts as well if the workers are.                        *)
ProbeCelery ==
  IF {"celery", Broker} \subseteq alive
  THEN <<Tell("celery", TRUE), Tell("celery_beat", TRUE)>>
  ELSE <<Tell("celery", FALSE)>>

Findings(s) ==
  CASE s = "kafka" -> ProbeKafka
    [] s = "celery" -> ProbeCelery
    [] OTHER -> ProbeService(s)

-----------------------------------------------------------------------------
(***************************************************************************)
(* Beat and the processes                                                  *)
(***************************************************************************)

Schedule(task) ==
  /\ {"beat", Broker} \subseteq alive
  /\ task \notin queue
  /\ queue' = queue \cup {task}
  /\ UNCHANGED <<alive, exec, up>>

Receive(e, task) ==
  /\ exec[e] = NoTask
  /\ {"celery", Broker} \subseteq alive
  /\ task \in queue
  /\ queue' = queue \ {task}
  /\ exec' = [exec EXCEPT ![e] = Begin(task)]
  /\ UNCHANGED <<alive, up>>

Probe(e) ==
  /\ Works(e) /\ exec[e].pings = <<>>
  /\ LET s == ProbedBy(exec[e].task)[exec[e].n] IN
       exec' = [exec EXCEPT ![e].pings = Findings(s)]
  /\ UNCHANGED <<alive, queue, up>>

(* A bug: a ping of failure goes out as one of success. *)
ApplyAnyPing(e) ==
  up' = up \cup ({exec[e].pings[1].check} \cap Watched)

ApplyPing(e) ==
  LET c == {exec[e].pings[1].check} \cap Watched IN
    up' = IF exec[e].pings[1].success THEN up \cup c ELSE up \ c

(* After the last ping the comprehensive check goes on with the next       *)
(* service, whatever it found; a task that cannot be acknowledged comes    *)
(* back.                                                                   *)
NextPing(e) ==
  \/ /\ Len(exec[e].pings) > 1
     /\ exec' = [exec EXCEPT ![e].pings = Tail(@), ![e].tries = 0]
     /\ UNCHANGED queue
  \/ /\ Len(exec[e].pings) = 1
     /\ exec[e].n < Len(ProbedBy(exec[e].task))
     /\ exec' = [exec EXCEPT ![e].n = @ + 1, ![e].pings = <<>>, ![e].tries = 0]
     /\ UNCHANGED queue
  \/ /\ Len(exec[e].pings) = 1
     /\ exec[e].n = Len(ProbedBy(exec[e].task))
     /\ exec' = [exec EXCEPT ![e] = NoTask]
     /\ queue' \in IF Broker \notin alive
                   THEN {queue, queue \cup {exec[e].task}} ELSE {queue}

(* A bug: one try more than there should be. *)
TryOnceMore(e) ==
  IF exec[e].tries + 1 <= RetryCount
  THEN exec' = [exec EXCEPT ![e].tries = @ + 1] /\ UNCHANGED queue
  ELSE NextPing(e)

(* A bug: a request without a timeout does not return. *)
TryAgainNever(e) ==
  exec' = [exec EXCEPT ![e].task = "hung"] /\ UNCHANGED queue

(* After the last try the ping is given up, and the task goes on.          *)
TryAgain(e) ==
  IF exec[e].tries + 1 < RetryCount
  THEN exec' = [exec EXCEPT ![e].tries = @ + 1] /\ UNCHANGED queue
  ELSE NextPing(e)

Pings(e) == Works(e) /\ exec[e].task \in Task /\ exec[e].pings # <<>>

PingArrives(e) ==
  /\ Pings(e)
  /\ ApplyPing(e)
  /\ NextPing(e)
  /\ UNCHANGED alive

(* The answer does not: the ping is repeated.                              *)
PingUnanswered(e) ==
  /\ Pings(e)
  /\ ApplyPing(e)
  /\ TryAgain(e)
  /\ UNCHANGED alive

PingLost(e) ==
  /\ Pings(e)
  /\ TryAgain(e)
  /\ UNCHANGED <<alive, up>>

(* A process is killed and replaced: its task is redelivered, unless the   *)
(* broker loses the message or has delivered it elsewhere.                 *)
Crash(e) ==
  /\ Works(e)
  /\ exec' = [exec EXCEPT ![e] = NoTask]
  /\ queue' \in {queue, queue \cup {exec[e].task}}
  /\ UNCHANGED <<alive, up>>

-----------------------------------------------------------------------------
(***************************************************************************)
(* Outside                                                                 *)
(***************************************************************************)

(* Redis may lose what was in the queue. *)
Fail(s) ==
  /\ s \in alive \ {"celery"}
  /\ alive' = alive \ {s}
  /\ queue' \in IF s = Broker THEN {queue, {}} ELSE {queue}
  /\ UNCHANGED <<exec, up>>

(* The workers stop, all of them: what they had begun comes back.          *)
StopWorkers ==
  /\ "celery" \in alive
  /\ alive' = alive \ {"celery"}
  /\ queue' = queue \cup {exec[e].task : e \in {w \in Worker : Works(w)}}
  /\ exec' = [e \in Worker |-> NoTask]
  /\ UNCHANGED up

Recover(s) ==
  /\ s \notin alive
  /\ alive' = alive \cup {s}
  /\ UNCHANGED <<queue, exec, up>>

(* Timeout and grace pass without a ping.                                  *)
Tick(c) ==
  /\ c \in up
  /\ up' = up \ {c}
  /\ UNCHANGED <<alive, queue, exec>>

Component == Watched \cup {Broker, "beat", "celery"}

ProbesInit ==
  /\ alive = Component
  /\ queue = {}
  /\ exec = [e \in Worker |-> NoTask]
  /\ up = {}

Send(e) == PingArrives(e) \/ PingUnanswered(e) \/ PingLost(e)

ProbesNext ==
  \/ \E task \in Task :
       \/ Schedule(task)
       \/ \E e \in Worker : Receive(e, task)
  \/ \E e \in Worker : Probe(e) \/ Send(e) \/ Crash(e)
  \/ \E s \in Component : Fail(s) \/ Recover(s)
  \/ StopWorkers
  \/ \E c \in Watched : Tick(c)

ProbesSpec == ProbesInit /\ [][ProbesNext]_probeVars

(* Beat schedules the probe of each service for ever, a worker takes it in *)
(* its turn and goes on with what it has begun (a probe returns: those of  *)
(* Redis and PostgreSQL set no timeout of their own), time passes, and of  *)
(* the pings for a check that are sent for ever, some arrive.  Nothing is  *)
(* asked of the comprehensive check.                                       *)
FairSpec ==
  /\ ProbesSpec
  /\ \A s \in Watched :
       /\ WF_probeVars(Schedule(s))
       /\ SF_probeVars(\E e \in Worker : Receive(e, s))
  /\ \A e \in Worker : WF_probeVars(Probe(e) \/ Send(e))
  /\ \A c \in Watched :
       /\ WF_probeVars(Tick(c))
       /\ SF_probeVars(\E e \in Worker :
                    Pings(e) /\ exec[e].pings[1].check = c /\ PingArrives(e))

-----------------------------------------------------------------------------
(***************************************************************************)
(* Properties                                                              *)
(***************************************************************************)

ProbesTypeOK ==
  /\ alive \subseteq Component
  /\ queue \subseteq Task
  /\ exec \in [Worker -> Busy \cup {NoTask}]
  /\ up \subseteq Watched

(* A service that stays away is shown as down in the end, and stays so:    *)
(* whatever probe that still saw it pings late or twice, whether or not    *)
(* the pings of failure arrive, and if nothing can be probed at all.       *)
OutageIsReported ==
  \A s \in Watched :
    <>[](s \notin alive) => <>[](s \notin up)

(* A service that stays is shown as up again and again once it, Redis,     *)
(* beat and the workers are there, whatever the outage has left in the     *)
(* queue and whichever other services fail meanwhile.                      *)
RecoveryIsReported ==
  \A s \in Watched :
    /\ <>[]({s, Broker, "beat", "celery"} \subseteq alive)
    /\ <>[][\A e \in Worker : ~Crash(e)]_probeVars
    => []<>(s \in up)
===============================================================================
