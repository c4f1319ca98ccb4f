---------------------------- MODULE TsaTimestamp -----------------------------
(***************************************************************************)
(* RFC 3161 timestamping of the files of one tenant: the messages of the   *)
(* Celery queue `tsa_timestamping` (Redis), the worker slots that execute  *)
(* `timestamp_file`, and the status kept in each file's metadata under     *)
(* 'tsa_timestamp'.                                                        *)
(*                                                                         *)
(* Celery acknowledges a message when its task has ended (task_acks_late), *)
(* gives it to a worker again if the worker process is lost                *)
(* (task_reject_on_worker_lost), and Redis delivers it a second time when  *)
(* it stays unacknowledged for longer than the visibility timeout, as a    *)
(* message with a long countdown does.  So one message may be executed     *)
(* more than once, also by two slots at the same time.                     *)
(*                                                                         *)
(* One action is one database transaction, one request posted to the TSA,  *)
(* or one statement in between at which the process may stop.              *)
(***************************************************************************)
EXTENDS Naturals

CONSTANTS
  File,           \* files of the tenant
  Slot,           \* worker processes there may be
  MaxRetries,     \* max_retries of the task
  MaxPosts,       \* TSA_MAX_RETRIES: how often one execution posts a request
  MaxScheduled,   \* bound: how often a task is queued
  MaxRedelivered, \* bound: how often a message is delivered again
  NoFile          \* the file of a slot that is idle

ASSUME BoundsAreNumbers ==
  /\ MaxRetries \in Nat /\ MaxPosts \in Nat \ {0}
  /\ MaxScheduled \in Nat /\ MaxRedelivered \in Nat

ASSUME NoFileIsNoFile == NoFile \notin File

VARIABLES
  status,      \* status[f]: the metadata of file f, or "gone" without its row
  pending,     \* pending[m]: how many copies of message m wait in the queue
  up,          \* slots of the worker that was started (--concurrency)
  exec,        \* exec[s]: the message slot s executes, and where it is
  lost,        \* files with an execution that left no record of its end
  scheduled,   \* how often a task has been queued
  redelivered, \* how often a message has been delivered again
  requests     \* how many requests were posted to the TSA

counters == <<scheduled, redelivered, requests>>

vars == <<up, status, pending, exec, lost, counters>>

(* The arguments of the task and its retry count. *)
Message == [file : File, retries : 0..MaxRetries]

Status == {"none", "in_progress", "error", "success", "gone"}

Idle == [pc |-> "idle", file |-> NoFile, retries |-> 0, posts |-> 0]

Execution ==
  [pc : {"check", "mark", "request", "parse", "store", "done", "recordRetry",
         "recordEnd", "retry", "ack"},
   file : File, retries : 0..MaxRetries, posts : 0..MaxPosts]

MessageOf(s) == [file |-> exec[s].file, retries |-> exec[s].retries]

Goto(s, to) == exec' = [exec EXCEPT ![s].pc = to]

(* Another copy of message m is in the queue. *)
Publish(m) == pending' = [pending EXCEPT ![m] = @ + 1]

-----------------------------------------------------------------------------
(***************************************************************************)
(* Scheduling                                                              *)
(***************************************************************************)

FirstAttempt(f) == [file |-> f, retries |-> 0]

(* apply_async at the end of an upload, or in the bulk route, which takes  *)
(* the stamped files too, unless its caller filters them out.              *)
Schedule(f) ==
  /\ status[f] # "gone"
  /\ scheduled < MaxScheduled
  /\ scheduled' = scheduled + 1
  /\ Publish(FirstAttempt(f))
  /\ UNCHANGED <<status, exec, lost, redelivered, requests>>

(* The create route, for a stamped file: only "force" queues a task, whose *)
(* arguments do not mention it.                                            *)
ScheduleForced(f) ==
  /\ status[f] = "success"
  /\ scheduled < MaxScheduled
  /\ scheduled' = scheduled + 1
  /\ Publish(FirstAttempt(f))
  /\ UNCHANGED <<status, exec, lost, redelivered, requests>>

(* bulk_timestamp_files has read the rows before the first of its files,   *)
(* and skips those that were stamped: by now this one may be, or is gone.  *)
ScheduleInBulk(f) ==
  /\ scheduled < MaxScheduled
  /\ scheduled' = scheduled + 1
  /\ Publish(FirstAttempt(f))
  /\ UNCHANGED <<status, exec, lost, redelivered, requests>>

(* An admin deletes the file. *)
DeleteFile(f) ==
  /\ status[f] # "gone"
  /\ status' = [status EXCEPT ![f] = "gone"]
  /\ UNCHANGED <<pending, exec, lost, counters>>

-----------------------------------------------------------------------------
(***************************************************************************)
(* One execution of timestamp_file                                         *)
(***************************************************************************)

Receive(s) ==
  /\ exec[s].pc = "idle"
  /\ \E m \in Message :
       /\ pending[m] > 0
       /\ pending' = [pending EXCEPT ![m] = @ - 1]
       /\ exec' = [exec EXCEPT ![s] = [pc |-> "check", file |-> m.file,
                                       retries |-> m.retries,
                                       posts |-> 0]]
  /\ UNCHANGED <<status, lost, counters>>

(* A bug: the status is not looked at. *)
CheckNothing(s) ==
  /\ exec[s].pc = "check"
  /\ Goto(s, IF status[exec[s].file] = "gone" THEN "recordEnd" ELSE "mark")
  /\ UNCHANGED <<status, pending, lost, counters>>

(* The row is read.  Without it the task fails (ValueError), and has no    *)
(* row to record that in; a stamped file is skipped.                       *)
CheckStatus(s) ==
  /\ exec[s].pc = "check"
  /\ Goto(s, CASE status[exec[s].file] = "gone" -> "recordEnd"
               [] status[exec[s].file] = "success" -> "done"
               [] OTHER -> "mark")
  /\ UNCHANGED <<status, pending, lost, counters>>

(* The status is written on what the same transaction has read before, and *)
(* committed; the row may have been deleted in between (StaleDataError).   *)
MarkInProgress(s) ==
  /\ exec[s].pc = "mark"
  /\ IF status[exec[s].file] = "gone"
     THEN Goto(s, "recordEnd") /\ UNCHANGED status
     ELSE /\ status' = [status EXCEPT ![exec[s].file] = "in_progress"]
          /\ Goto(s, "request")
  /\ UNCHANGED <<pending, lost, counters>>

(* The stored hash is no hexadecimal number, or the request cannot be      *)
(* encoded: TSAException, which is not retried.                            *)
EncodeFails(s) ==
  /\ exec[s].pc = "request"
  /\ exec[s].posts = 0
  /\ Goto(s, "recordEnd")
  /\ UNCHANGED <<status, pending, lost, counters>>

(* _send_tsa_request, in no transaction.  The TSA answers, or refuses (any *)
(* status but 200, a quota that is used up among them: not retried), or    *)
(* there is no answer.  Every other error counts as that, the soft time    *)
(* limit too, which is raised in the loop like any exception.              *)
PostRequest(s) ==
  /\ exec[s].pc = "request"
  /\ exec[s].posts < MaxPosts
  /\ requests' = requests + 1
  /\ \/ \E to \in {"parse", "recordEnd"} : Goto(s, to)
     \/ exec' = [exec EXCEPT ![s].posts = @ + 1]
  /\ UNCHANGED <<status, pending, lost, scheduled, redelivered>>

(* No answer to the last post: TSAConnectionError, which is retried. *)
GiveUp(s) ==
  /\ exec[s].pc = "request"
  /\ exec[s].posts = MaxPosts
  /\ Goto(s, "recordRetry")
  /\ UNCHANGED <<status, pending, lost, counters>>

(* The answer grants a timestamp, or it does not or cannot be read.  One   *)
(* without certificates is taken all the same.                             *)
ParseResponse(s) ==
  /\ exec[s].pc = "parse"
  /\ \E to \in {"store", "recordEnd"} : Goto(s, to)
  /\ UNCHANGED <<status, pending, lost, counters>>

StoreTimestamp(s) ==
  /\ exec[s].pc = "store"
  /\ IF status[exec[s].file] = "gone"
     THEN Goto(s, "recordEnd") /\ UNCHANGED status
     ELSE /\ status' = [status EXCEPT ![exec[s].file] = "success"]
          /\ Goto(s, "done")
  /\ UNCHANGED <<pending, lost, counters>>

(* The soft time limit or an error of the database, inside the try block:  *)
(* also when the check has not been made, or the result is committed.      *)
FailUnexpectedly(s) ==
  /\ exec[s].pc \in {"check", "mark", "request", "parse", "store", "done"}
  /\ Goto(s, "recordEnd")
  /\ UNCHANGED <<status, pending, lost, counters>>

AfterRecord(s) == IF exec[s].pc = "recordRetry" THEN "retry" ELSE "ack"

(* A bug: only errors that are not retried are recorded. *)
RecordErrorAtEnd(s) ==
  /\ exec[s].pc \in {"recordRetry", "recordEnd"}
  /\ status' = IF \/ status[exec[s].file] = "gone"
                  \/ exec[s].pc = "recordRetry"
               THEN status
               ELSE [status EXCEPT ![exec[s].file] = "error"]
  /\ Goto(s, AfterRecord(s))
  /\ UNCHANGED <<pending, lost, counters>>

(* _store_error_metadata: whatever the status is by now, it is "error". *)
RecordError(s) ==
  /\ exec[s].pc \in {"recordRetry", "recordEnd"}
  /\ status' = IF status[exec[s].file] = "gone" THEN status
               ELSE [status EXCEPT ![exec[s].file] = "error"]
  /\ Goto(s, AfterRecord(s))
  /\ UNCHANGED <<pending, lost, counters>>

(* Its own errors are swallowed: the task goes on without the record. *)
RecordErrorFails(s) ==
  /\ exec[s].pc \in {"recordRetry", "recordEnd"}
  /\ lost' = lost \cup {exec[s].file}
  /\ Goto(s, AfterRecord(s))
  /\ UNCHANGED <<status, pending, counters>>

(* A bug: the retry is published with the retry count of this attempt. *)
RetryUncounted(s) ==
  /\ exec[s].pc = "retry"
  /\ IF exec[s].retries < MaxRetries
     THEN Publish(MessageOf(s))
     ELSE UNCHANGED pending
  /\ Goto(s, "ack")
  /\ UNCHANGED <<status, lost, counters>>

(* self.retry: the message of the next attempt is published, or the task   *)
(* fails because this was the last one or Redis does not take the message. *)
Retry(s) ==
  /\ exec[s].pc = "retry"
  /\ \/ /\ exec[s].retries < MaxRetries
        /\ Publish([MessageOf(s) EXCEPT !.retries = @ + 1])
     \/ UNCHANGED pending
  /\ Goto(s, "ack")
  /\ UNCHANGED <<status, lost, counters>>

(* The task has ended, with a result or a failure: the message goes. *)
Acknowledge(s) ==
  /\ exec[s].pc \in {"done", "ack"}
  /\ exec' = [exec EXCEPT ![s] = Idle]
  /\ UNCHANGED <<status, pending, lost, counters>>

-----------------------------------------------------------------------------
(***************************************************************************)
(* Faults                                                                  *)
(***************************************************************************)

(* A bug: messages are acknowledged before their tasks run. *)
CrashAcknowledged(s) ==
  /\ exec[s].pc # "idle"
  /\ redelivered < MaxRedelivered
  /\ redelivered' = redelivered + 1
  /\ exec' = [exec EXCEPT ![s] = Idle]
  /\ UNCHANGED <<status, pending, lost, scheduled, requests>>

(* The worker process is lost; its message goes back to the queue. *)
Crash(s) ==
  /\ exec[s].pc # "idle"
  /\ redelivered < MaxRedelivered
  /\ redelivered' = redelivered + 1
  /\ Publish(MessageOf(s))
  /\ exec' = [exec EXCEPT ![s] = Idle]
  /\ UNCHANGED <<status, lost, scheduled, requests>>

(* The visibility timeout of a message that waits or is executed runs out. *)
Redeliver(m) ==
  /\ pending[m] > 0 \/ \E s \in Slot : exec[s].pc # "idle" /\ MessageOf(s) = m
  /\ redelivered < MaxRedelivered
  /\ redelivered' = redelivered + 1
  /\ Publish(m)
  /\ UNCHANGED <<status, exec, lost, scheduled, requests>>

(* The hard time limit: the process is killed, and its message is          *)
(* acknowledged (task_acks_on_failure_or_timeout is on by default).        *)
HardTimeLimit(s) ==
  /\ exec[s].pc \notin {"idle", "done", "ack"}
  /\ lost' = lost \cup {exec[s].file}
  /\ exec' = [exec EXCEPT ![s] = Idle]
  /\ UNCHANGED <<status, pending, counters>>

(* The worker starts with a number of slots that stays.                    *)
Init ==
  /\ up \in SUBSET Slot
  /\ status = [f \in File |-> "none"]
  /\ pending = [m \in Message |-> 0]
  /\ exec = [s \in Slot |-> Idle]
  /\ lost = {}
  /\ scheduled = 0
  /\ redelivered = 0
  /\ requests = 0

Environment ==
  /\ UNCHANGED up
  /\ \/ \E f \in File : Schedule(f) \/ ScheduleForced(f) \/ ScheduleInBulk(f)
                       \/ DeleteFile(f)
     \/ \E m \in Message : Redeliver(m)
     \/ \E s \in Slot : Crash(s) \/ HardTimeLimit(s)

Step(s) ==
  /\ s \in up
  /\ UNCHANGED up
  /\ \/ Receive(s)
     \/ CheckStatus(s)
     \/ MarkInProgress(s)
     \/ EncodeFails(s)
     \/ PostRequest(s)
     \/ GiveUp(s)
     \/ ParseResponse(s)
     \/ StoreTimestamp(s)
     \/ FailUnexpectedly(s)
     \/ RecordError(s)
     \/ RecordErrorFails(s)
     \/ Retry(s)
     \/ Acknowledge(s)

Next == Environment \/ \E s \in Slot : Step(s)

Spec == Init /\ [][Next]_vars

(* A slot that is free takes a message, and a task that runs goes on.      *)
FairSpec == Spec /\ \A s \in Slot : WF_vars(Step(s))

-----------------------------------------------------------------------------
(***************************************************************************)
(* Properties                                                              *)
(***************************************************************************)

TypeOK ==
  /\ up \subseteq Slot
  /\ status \in [File -> Status]
  /\ pending \in [Message -> Nat]
  /\ exec \in [Slot -> {Idle} \cup Execution]
  /\ lost \subseteq File
  /\ scheduled \in 0..MaxScheduled
  /\ redelivered \in 0..MaxRedelivered
  /\ requests \in Nat

(* Something still works, or will, on the timestamp of file f. *)
Outstanding(f) ==
  \/ \E m \in Message : m.file = f /\ pending[m] > 0
  \/ \E s \in Slot : exec[s].file = f

(* Nothing is dropped half way: a file is marked in progress only while a  *)
(* message or an execution of it exists, whatever process crashes where,   *)
(* unless an execution was killed by the hard limit or could not reach the *)
(* database to record how it ended.                                        *)
InProgressIsOutstanding ==
  \A f \in File :
    status[f] = "in_progress" => Outstanding(f) \/ f \in lost

(* The TSA is sent at most MaxPosts requests for each attempt, and there    *)
(* are at most MaxRetries + 1 attempts for each time a task was queued or  *)
(* delivered again, however crashes, duplicates and both kinds of retries  *)
(* mix: the requests it grants are not used up by a message that comes     *)
(* back.                                                                   *)
RequestsBounded ==
  requests <= MaxPosts * (MaxRetries + 1) * (scheduled + redelivered)

OneSlot == \A s, t \in up : s = t

(* The docstring of timestamp_file: "This task is idempotent - if a file   *)
(* already has a successful timestamp, it will not request a new one."     *)
(* What passed the check has no timestamp until it has asked for one.  It  *)
(* is so as long as one slot executes the queue, whatever is delivered     *)
(* twice: nothing stamps the file between the check and the request.  With *)
(* the two slots of the deployment it is not.                              *)
NoRequestOnceStamped ==
  OneSlot =>
    \A s \in Slot :
      exec[s].pc \in {"mark", "request", "parse"}
        => status[exec[s].file] # "success"

(* The module's header: "Idempotent task execution".  To execute the task  *)
(* once more would leave a stored timestamp as it is until its file is     *)
(* deleted.  But an execution that fails before its check, or is stopped   *)
(* by the soft limit after its commit, records its error over the success. *)
TimestampKept ==
  [][\A f \in File :
       status[f] = "success" => status'[f] \in {"success", "gone"}]_vars

(* A file that is in progress comes to an end, with the same exception, in *)
(* a worker that has a slot.                                               *)
InProgressEnds ==
  \A f \in File :
    status[f] = "in_progress" ~> status[f] # "in_progress" \/ f \in lost
=============================================================================
