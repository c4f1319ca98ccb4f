------------------------- MODULE TsaTimestamp_proofs --------------------------
(***************************************************************************)
(* Proofs about TsaTimestamp, for any sets of files and slots and any      *)
(* bounds.                                                                 *)
(***************************************************************************)
EXTENDS TsaTimestamp, FiniteSetTheorems, TLAPS

-----------------------------------------------------------------------------
(* Type correctness *)

LEMMA InitType == Init => TypeOK
  BY BoundsAreNumbers DEF Init, TypeOK, Status

(* A slot that is not idle executes a message. *)
LEMMA ExecutionType ==
  ASSUME TypeOK, NEW s \in Slot, exec[s].pc # "idle"
  PROVE  exec[s] \in Execution /\ MessageOf(s) \in Message
  BY DEF TypeOK, Idle, Execution, MessageOf, Message

LEMMA GotoType ==
  ASSUME TypeOK, NEW s \in Slot, exec[s].pc # "idle",
         NEW to \in {"check", "mark", "request", "parse", "store", "done",
                     "recordRetry", "recordEnd", "retry", "ack"},
         Goto(s, to)
  PROVE  exec' \in [Slot -> {Idle} \cup Execution]
  BY ExecutionType DEF TypeOK, Goto, Execution

LEMMA PublishType ==
  ASSUME TypeOK, NEW m \in Message, Publish(m)
  PROVE  pending' \in [Message -> Nat]
  BY DEF TypeOK, Publish

LEMMA EnvironmentType ==
  ASSUME TypeOK, UNCHANGED up, Environment
  PROVE  TypeOK'
  <1>1. ASSUME NEW f \in File,
               Schedule(f) \/ ScheduleForced(f) \/ ScheduleInBulk(f)
        PROVE  TypeOK'
    <2>1. FirstAttempt(f) \in Message
      BY BoundsAreNumbers DEF FirstAttempt, Message
    <2>2. scheduled' \in 0..MaxScheduled
      BY <1>1, BoundsAreNumbers
      DEF Schedule, ScheduleForced, ScheduleInBulk, TypeOK
    <2>3. pending' \in [Message -> Nat]
      BY <1>1, <2>1, PublishType DEF Schedule, ScheduleForced, ScheduleInBulk
    <2>4. QED
      BY <1>1, <2>2, <2>3 DEF Schedule, ScheduleForced, ScheduleInBulk, TypeOK
  <1>2. ASSUME NEW f \in File, DeleteFile(f)
        PROVE  TypeOK'
    BY <1>2 DEF DeleteFile, TypeOK, Status, counters
  <1>3. ASSUME redelivered < MaxRedelivered, redelivered' = redelivered + 1
        PROVE  redelivered' \in 0..MaxRedelivered
    BY <1>3, BoundsAreNumbers DEF TypeOK
  <1>4. ASSUME NEW m \in Message, Redeliver(m)
        PROVE  TypeOK'
    BY <1>3, <1>4, PublishType DEF Redeliver, TypeOK
  <1>5. ASSUME NEW s \in Slot, Crash(s)
        PROVE  TypeOK'
    <2>1. pending' \in [Message -> Nat]
      BY <1>5, ExecutionType, PublishType DEF Crash
    <2>2. exec' \in [Slot -> {Idle} \cup Execution]
      BY <1>5 DEF Crash, TypeOK
    <2>3. QED
      BY <1>3, <1>5, <2>1, <2>2 DEF Crash, TypeOK
  <1>6. ASSUME NEW s \in Slot, HardTimeLimit(s)
        PROVE  TypeOK'
    <2>1. exec[s].file \in File
      BY <1>6, ExecutionType DEF HardTimeLimit, Execution
    <2>2. exec' \in [Slot -> {Idle} \cup Execution]
      BY <1>6 DEF HardTimeLimit, TypeOK
    <2>3. QED
      BY <1>6, <2>1, <2>2 DEF HardTimeLimit, TypeOK, counters
  <1>7. QED
    BY <1>1, <1>2, <1>4, <1>5, <1>6 DEF Environment

LEMMA StepType ==
  ASSUME TypeOK, NEW s \in Slot, UNCHANGED up, Step(s)
  PROVE  TypeOK'
  <1>1. CASE Receive(s)
    <2>1. PICK m \in Message :
            /\ pending[m] > 0
            /\ pending' = [pending EXCEPT ![m] = @ - 1]
            /\ exec' = [exec EXCEPT ![s] = [pc |-> "check", file |-> m.file,
                                            retries |-> m.retries,
                                            posts |-> 0]]
      BY <1>1 DEF Receive
    <2>2. [pc |-> "check", file |-> m.file, retries |-> m.retries,
           posts |-> 0] \in Execution
      BY BoundsAreNumbers DEF Execution, Message
    <2>3. pending' \in [Message -> Nat]
      BY <2>1 DEF TypeOK
    <2>4. QED
      BY <1>1, <2>1, <2>2, <2>3 DEF Receive, TypeOK, counters
  <1>2. CASE \/ CheckStatus(s) \/ EncodeFails(s) \/ GiveUp(s)
            \/ ParseResponse(s) \/ FailUnexpectedly(s)
    <2>1. exec' \in [Slot -> {Idle} \cup Execution]
      BY <1>2, GotoType
      DEF CheckStatus, EncodeFails, GiveUp, ParseResponse, FailUnexpectedly
    <2>2. QED
      BY <1>2, <2>1 DEF CheckStatus, EncodeFails, GiveUp, ParseResponse,
         FailUnexpectedly, TypeOK, counters
  <1>3. CASE MarkInProgress(s)
    <2>1. exec' \in [Slot -> {Idle} \cup Execution]
      BY <1>3, GotoType DEF MarkInProgress
    <2>2. QED
      BY <1>3, <2>1 DEF MarkInProgress, TypeOK, Status, counters
  <1>4. CASE StoreTimestamp(s)
    <2>1. exec' \in [Slot -> {Idle} \cup Execution]
      BY <1>4, GotoType DEF StoreTimestamp
    <2>2. QED
      BY <1>4, <2>1 DEF StoreTimestamp, TypeOK, Status, counters
  <1>5. CASE RecordError(s) \/ RecordErrorFails(s)
    <2>1. /\ exec' \in [Slot -> {Idle} \cup Execution]
          /\ exec[s].file \in File
      BY <1>5, GotoType, ExecutionType
      DEF RecordError, RecordErrorFails, AfterRecord, Execution
    <2>2. QED
      BY <1>5, <2>1 DEF RecordError, RecordErrorFails, TypeOK, Status,
         counters
  <1>6. CASE Retry(s)
    <2>1. exec' \in [Slot -> {Idle} \cup Execution]
      BY <1>6, GotoType DEF Retry
    <2>2. ASSUME exec[s].retries < MaxRetries
          PROVE  [MessageOf(s) EXCEPT !.retries = @ + 1] \in Message
      BY <1>6, <2>2, ExecutionType, BoundsAreNumbers
      DEF Retry, Execution, MessageOf, Message
    <2>3. pending' \in [Message -> Nat]
      BY <1>6, <2>2, PublishType DEF Retry, TypeOK
    <2>4. QED
      BY <1>6, <2>1, <2>3 DEF Retry, TypeOK, counters
  <1>7. CASE Acknowledge(s)
    <2>1. exec' \in [Slot -> {Idle} \cup Execution]
      BY <1>7 DEF Acknowledge, TypeOK
    <2>2. QED
      BY <1>7, <2>1 DEF Acknowledge, TypeOK, counters
  <1>8. CASE PostRequest(s)
    <2>1. exec' \in [Slot -> {Idle} \cup Execution]
      <3>1. CASE \E to \in {"parse", "recordEnd"} : Goto(s, to)
        BY <1>8, <3>1, GotoType DEF PostRequest
      <3>2. CASE exec' = [exec EXCEPT ![s].posts = @ + 1]
        <4>1. exec[s] \in Execution /\ exec[s].posts < MaxPosts
          BY <1>8, ExecutionType DEF PostRequest
        <4>2. [exec[s] EXCEPT !.posts = @ + 1] \in Execution
          BY <4>1, BoundsAreNumbers DEF Execution
        <4>3. QED
          BY <3>2, <4>2 DEF TypeOK
      <3>3. QED
        BY <1>8, <3>1, <3>2 DEF PostRequest
    <2>2. QED
      BY <1>8, <2>1 DEF PostRequest, TypeOK
  <1>9. QED
    BY <1>1, <1>2, <1>3, <1>4, <1>5, <1>6, <1>7, <1>8 DEF Step

(* The number of slots stays. *)
LEMMA UpIsFixed == [Next]_vars => UNCHANGED up
  BY DEF Next, Environment, Step, vars

LEMMA NextType == TypeOK /\ [Next]_vars => TypeOK'
  <1>1. ASSUME TypeOK, UNCHANGED vars
        PROVE  TypeOK'
    BY <1>1 DEF TypeOK, vars, counters
  <1>2. QED
    BY <1>1, UpIsFixed, EnvironmentType, StepType DEF Next

(* Every variable has its type: no count goes below zero, and no message   *)
(* is retried more often than max_retries.                                 *)
THEOREM TypeCorrect == Spec => []TypeOK
  <1>1. QED
    BY InitType, NextType, PTL DEF Spec

-----------------------------------------------------------------------------
(* Nothing is dropped half way *)

(* Slot s will still record a status of file f, unless it is stopped. *)
WillRecord(s, f) ==
  /\ exec[s].file = f
  /\ exec[s].pc \in {"check", "mark", "request", "parse", "store",
                     "recordRetry", "recordEnd"}

(* What keeps a file in progress is a message, or an execution that has    *)
(* its record still before it.                                             *)
ProgressInv ==
  /\ TypeOK
  /\ \A f \in File :
       status[f] = "in_progress" =>
         \/ \E m \in Message : m.file = f /\ pending[m] > 0
         \/ \E s \in Slot : WillRecord(s, f)
         \/ f \in lost

LEMMA InitProgress == Init => ProgressInv
  BY InitType DEF Init, ProgressInv

(* Publishing a message keeps every message that waits. *)
LEMMA PublishKeeps ==
  ASSUME TypeOK, NEW m \in Message, Publish(m)
  PROVE  /\ pending'[m] > 0
         /\ \A n \in Message : pending[n] > 0 => pending'[n] > 0
  BY DEF TypeOK, Publish

LEMMA EnvironmentProgress ==
  ASSUME ProgressInv, Environment, TypeOK'
  PROVE  ProgressInv'
  <1>1. ASSUME NEW f \in File,
               Schedule(f) \/ ScheduleForced(f) \/ ScheduleInBulk(f)
        PROVE  ProgressInv'
    <2>1. FirstAttempt(f) \in Message
      BY BoundsAreNumbers DEF FirstAttempt, Message
    <2>2. \A n \in Message : pending[n] > 0 => pending'[n] > 0
      BY <1>1, <2>1, PublishKeeps
      DEF Schedule, ScheduleForced, ScheduleInBulk, ProgressInv
    <2>3. QED
      BY <1>1, <2>2
      DEF Schedule, ScheduleForced, ScheduleInBulk, ProgressInv, WillRecord
  <1>2. ASSUME NEW f \in File, DeleteFile(f)
        PROVE  ProgressInv'
    BY <1>2 DEF DeleteFile, ProgressInv, TypeOK, WillRecord
  <1>3. ASSUME NEW m \in Message, Redeliver(m)
        PROVE  ProgressInv'
    <2>1. \A n \in Message : pending[n] > 0 => pending'[n] > 0
      BY <1>3, PublishKeeps DEF Redeliver, ProgressInv
    <2>2. QED
      BY <1>3, <2>1 DEF Redeliver, ProgressInv, WillRecord
  <1>4. ASSUME NEW s \in Slot, Crash(s)
        PROVE  ProgressInv'
    <2>1. /\ MessageOf(s) \in Message
          /\ MessageOf(s).file = exec[s].file
      BY <1>4, ExecutionType DEF Crash, ProgressInv, MessageOf
    <2>2. /\ pending'[MessageOf(s)] > 0
          /\ \A n \in Message : pending[n] > 0 => pending'[n] > 0
      BY <1>4, <2>1, PublishKeeps DEF Crash, ProgressInv
    <2>3. \A t \in Slot \ {s} : exec'[t] = exec[t]
      BY <1>4 DEF Crash, ProgressInv, TypeOK
    <2>4. status' = status /\ lost' = lost
      BY <1>4 DEF Crash
    <2>5. SUFFICES ASSUME NEW f \in File, status[f] = "in_progress"
                   PROVE  \/ \E m \in Message : m.file = f /\ pending'[m] > 0
                          \/ \E t \in Slot : WillRecord(t, f)'
                          \/ f \in lost
      BY <2>4 DEF ProgressInv
    <2>6. CASE WillRecord(s, f)
      BY <2>1, <2>2, <2>6 DEF WillRecord
    <2>7. CASE ~WillRecord(s, f)
      BY <2>2, <2>3, <2>5, <2>7 DEF ProgressInv, WillRecord
    <2>8. QED
      BY <2>6, <2>7
  <1>5. ASSUME NEW s \in Slot, HardTimeLimit(s)
        PROVE  ProgressInv'
    <2>1. \A t \in Slot \ {s} : exec'[t] = exec[t]
      BY <1>5 DEF HardTimeLimit, ProgressInv, TypeOK
    <2>2. QED
      BY <1>5, <2>1 DEF HardTimeLimit, ProgressInv, WillRecord
  <1>6. QED
    BY <1>1, <1>2, <1>3, <1>4, <1>5 DEF Environment

(* An execution that moves on before its record still has it before it;    *)
(* the record itself takes the file out of progress.                       *)
LEMMA StepProgress ==
  ASSUME ProgressInv, NEW s \in Slot, Step(s), TypeOK'
  PROVE  ProgressInv'
  <1>1. CASE Receive(s)
    <2>1. PICK m \in Message :
            /\ pending[m] > 0
            /\ pending' = [pending EXCEPT ![m] = @ - 1]
            /\ exec' = [exec EXCEPT ![s] = [pc |-> "check", file |-> m.file,
                                            retries |-> m.retries,
                                            posts |-> 0]]
      BY <1>1 DEF Receive
    <2>2. WillRecord(s, m.file)'
      BY <2>1 DEF WillRecord, ProgressInv, TypeOK
    <2>3. \A n \in Message \ {m} : pending'[n] = pending[n]
      BY <2>1 DEF ProgressInv, TypeOK
    <2>4. exec[s].pc = "idle" /\ \A t \in Slot \ {s} : exec'[t] = exec[t]
      BY <1>1, <2>1 DEF Receive, ProgressInv, TypeOK
    <2>5. QED
      BY <1>1, <2>2, <2>3, <2>4 DEF Receive, ProgressInv, WillRecord
  <1>2. ASSUME NEW to, Goto(s, to), exec[s].pc # "idle"
        PROVE  /\ exec'[s].pc = to
               /\ exec'[s].file = exec[s].file
               /\ \A t \in Slot \ {s} : exec'[t] = exec[t]
    BY <1>2, ExecutionType DEF Goto, ProgressInv, TypeOK, Execution
  <1>3. CASE CheckStatus(s)
    BY <1>2, <1>3 DEF CheckStatus, ProgressInv, WillRecord
  <1>4. CASE \/ EncodeFails(s) \/ GiveUp(s)
            \/ ParseResponse(s) \/ FailUnexpectedly(s)
    BY <1>2, <1>4
    DEF EncodeFails, GiveUp, ParseResponse, FailUnexpectedly, ProgressInv,
        WillRecord
  <1>5. CASE MarkInProgress(s)
    BY <1>2, <1>5 DEF MarkInProgress, ProgressInv, TypeOK, WillRecord
  <1>6. CASE StoreTimestamp(s)
    BY <1>2, <1>6 DEF StoreTimestamp, ProgressInv, TypeOK, WillRecord
  <1>7. CASE RecordError(s)
    BY <1>2, <1>7
    DEF RecordError, AfterRecord, ProgressInv, TypeOK, WillRecord
  <1>8. CASE RecordErrorFails(s)
    BY <1>2, <1>8
    DEF RecordErrorFails, AfterRecord, ProgressInv, WillRecord
  <1>9. CASE Retry(s)
    <2>1. ASSUME exec[s].retries < MaxRetries
          PROVE  [MessageOf(s) EXCEPT !.retries = @ + 1] \in Message
      BY <1>9, <2>1, ExecutionType, BoundsAreNumbers
      DEF Retry, Execution, MessageOf, Message, ProgressInv
    <2>2. \A n \in Message : pending[n] > 0 => pending'[n] > 0
      BY <1>9, <2>1, PublishKeeps DEF Retry, ProgressInv
    <2>3. QED
      BY <1>2, <1>9, <2>2 DEF Retry, ProgressInv, WillRecord
  <1>10. CASE Acknowledge(s)
    <2>1. \A t \in Slot \ {s} : exec'[t] = exec[t]
      BY <1>10 DEF Acknowledge, ProgressInv, TypeOK
    <2>2. QED
      BY <1>10, <2>1 DEF Acknowledge, ProgressInv, WillRecord
  <1>11. CASE PostRequest(s)
    <2>1. CASE exec' = [exec EXCEPT ![s].posts = @ + 1]
      <3>1. /\ exec'[s].pc = exec[s].pc
            /\ exec'[s].file = exec[s].file
            /\ \A t \in Slot \ {s} : exec'[t] = exec[t]
        BY <1>11, <2>1, ExecutionType
        DEF PostRequest, ProgressInv, TypeOK, Execution
      <3>2. QED
        BY <1>11, <3>1 DEF PostRequest, ProgressInv, WillRecord
    <2>2. CASE \E to \in {"parse", "recordEnd"} : Goto(s, to)
      BY <1>2, <1>11, <2>2 DEF PostRequest, ProgressInv, WillRecord
    <2>3. QED
      BY <1>11, <2>1, <2>2 DEF PostRequest
  <1>12. QED
    BY <1>1, <1>3, <1>4, <1>5, <1>6, <1>7, <1>8, <1>9, <1>10, <1>11 DEF Step

LEMMA NextProgress == ProgressInv /\ [Next]_vars => ProgressInv'
  <1>1. ASSUME ProgressInv, UNCHANGED vars
        PROVE  ProgressInv'
    BY <1>1 DEF ProgressInv, TypeOK, WillRecord, vars, counters
  <1>2. ASSUME ProgressInv, [Next]_vars
        PROVE  TypeOK'
    BY <1>2, NextType DEF ProgressInv
  <1>3. QED
    BY <1>1, <1>2, EnvironmentProgress, StepProgress DEF Next

(* A file in progress has a message or an execution, or an execution of it *)
(* could not record how it ended.                                          *)
THEOREM NothingDropped == Spec => []InProgressIsOutstanding
  <1>1. ProgressInv => InProgressIsOutstanding
    BY DEF ProgressInv, InProgressIsOutstanding, Outstanding, WillRecord
  <1>2. QED
    BY <1>1, InitProgress, NextProgress, PTL DEF Spec

-----------------------------------------------------------------------------
(* One slot *)

(* A slot that was not started stays idle; with its types, the property is *)
(* inductive then.                                                         *)
UnstampedInv ==
  /\ TypeOK
  /\ \A s \in Slot \ up : exec[s] = Idle
  /\ NoRequestOnceStamped

LEMMA NextUnstamped == UnstampedInv /\ [Next]_vars => UnstampedInv'
  <1> SUFFICES ASSUME UnstampedInv, [Next]_vars
               PROVE  UnstampedInv'
    OBVIOUS
  <1> USE DEF NoRequestOnceStamped
  <1>1. TypeOK' /\ UNCHANGED up
    BY NextType, UpIsFixed DEF UnstampedInv
  <1>2. CASE UNCHANGED vars
    BY <1>1, <1>2 DEF UnstampedInv, OneSlot, vars
  <1>3. ASSUME NEW f \in File,
               \/ Schedule(f) \/ ScheduleForced(f) \/ ScheduleInBulk(f)
               \/ DeleteFile(f)
        PROVE  UnstampedInv'
    <2>1. \A s \in Slot : exec[s].pc # "idle" => exec[s].file \in File
      BY ExecutionType DEF UnstampedInv, Execution
    <2>2. CASE Schedule(f) \/ ScheduleForced(f) \/ ScheduleInBulk(f)
      BY <1>1, <2>2
      DEF Schedule, ScheduleForced, ScheduleInBulk, UnstampedInv, OneSlot
    <2>3. CASE DeleteFile(f)
      BY <1>1, <2>1, <2>3 DEF DeleteFile, UnstampedInv, OneSlot, TypeOK
    <2>4. QED
      BY <1>3, <2>2, <2>3
  <1>4. ASSUME NEW m \in Message, Redeliver(m)
        PROVE  UnstampedInv'
    BY <1>1, <1>4 DEF Redeliver, UnstampedInv, OneSlot
  <1>5. ASSUME NEW s \in Slot, Step(s) \/ Crash(s) \/ HardTimeLimit(s)
        PROVE  /\ s \in up
               /\ \A t \in Slot \ {s} : exec'[t] = exec[t]
    <2>1. exec[s] = Idle => s \in up
      BY <1>5 DEF Step, Crash, HardTimeLimit, Idle
    <2>2. \E e : exec' = [exec EXCEPT ![s] = e]
      BY <1>5 DEF Step, Crash, HardTimeLimit, Receive, CheckStatus,
         MarkInProgress, EncodeFails, PostRequest, GiveUp, ParseResponse,
         StoreTimestamp, FailUnexpectedly, RecordError, RecordErrorFails,
         Retry, Acknowledge, Goto
    <2>3. QED
      BY <2>1, <2>2 DEF UnstampedInv, TypeOK
  <1>6. ASSUME NEW s \in Slot, s \in up,
               \A t \in Slot \ {s} : exec'[t] = exec[t],
               OneSlot => \/ exec'[s].pc \notin {"mark", "request", "parse"}
                          \/ status'[exec'[s].file] # "success"
        PROVE  UnstampedInv'
    <2>1. ASSUME OneSlot, NEW t \in Slot \ {s}
          PROVE  exec'[t].pc \notin {"mark", "request", "parse"}
      BY <1>6, <2>1 DEF OneSlot, UnstampedInv, Idle
    <2>2. OneSlot' <=> OneSlot
      BY <1>1 DEF OneSlot
    <2>3. QED
      BY <1>1, <1>6, <2>1, <2>2 DEF UnstampedInv
  <1>7. ASSUME NEW s \in Slot,
               Crash(s) \/ HardTimeLimit(s) \/ Acknowledge(s) \/ Receive(s)
        PROVE  exec'[s].pc \notin {"mark", "request", "parse"}
    BY <1>7 DEF Crash, HardTimeLimit, Acknowledge, Receive, Idle,
       UnstampedInv, TypeOK
  <1>8. ASSUME NEW s \in Slot, NEW to, Goto(s, to), exec[s].pc # "idle"
        PROVE  exec'[s].pc = to /\ exec'[s].file = exec[s].file
    BY <1>8, ExecutionType DEF Goto, UnstampedInv, TypeOK, Execution
  <1>9. ASSUME NEW s \in Slot,
               \/ EncodeFails(s) \/ GiveUp(s) \/ ParseResponse(s)
               \/ StoreTimestamp(s) \/ Retry(s)
               \/ FailUnexpectedly(s) \/ RecordError(s) \/ RecordErrorFails(s)
        PROVE  exec'[s].pc \notin {"mark", "request", "parse"}
    BY <1>8, <1>9 DEF EncodeFails, GiveUp, ParseResponse, StoreTimestamp,
       FailUnexpectedly, RecordError, RecordErrorFails, AfterRecord, Retry
  <1>10. ASSUME NEW s \in Slot, CheckStatus(s)
         PROVE  \/ exec'[s].pc \notin {"mark", "request", "parse"}
                \/ status'[exec'[s].file] # "success"
    BY <1>8, <1>10 DEF CheckStatus
  <1>11. ASSUME NEW s \in Slot, MarkInProgress(s)
         PROVE  \/ exec'[s].pc \notin {"mark", "request", "parse"}
                \/ status'[exec'[s].file] # "success"
    <2>1. exec[s].file \in File
      BY <1>11, ExecutionType DEF MarkInProgress, UnstampedInv, Execution
    <2>2. QED
      BY <1>8, <1>11, <2>1 DEF MarkInProgress, UnstampedInv, TypeOK
  <1>12. ASSUME NEW s \in Slot, PostRequest(s), OneSlot
         PROVE  \/ exec'[s].pc \notin {"mark", "request", "parse"}
                \/ status'[exec'[s].file] # "success"
    <2>1. /\ exec'[s].file = exec[s].file
          /\ status' = status
      BY <1>12, ExecutionType
      DEF PostRequest, Goto, UnstampedInv, TypeOK, Execution
    <2>2. QED
      BY <1>12, <2>1 DEF PostRequest, UnstampedInv
  <1>13. ASSUME NEW s \in Slot, Step(s) \/ Crash(s) \/ HardTimeLimit(s)
         PROVE  UnstampedInv'
    <2>1. OneSlot => \/ exec'[s].pc \notin {"mark", "request", "parse"}
                     \/ status'[exec'[s].file] # "success"
      BY <1>7, <1>9, <1>10, <1>11, <1>12, <1>13 DEF Step
    <2>2. QED
      BY <1>5, <1>6, <1>13, <2>1
  <1>14. QED
    BY <1>2, <1>3, <1>4, <1>13 DEF Next, Environment

(* With one slot, the TSA is not asked to stamp a file again, whatever is  *)
(* delivered twice.                                                        *)
THEOREM OneSlotIsIdempotent == Spec => []NoRequestOnceStamped
  <1>1. Init => UnstampedInv
    BY InitType DEF Init, UnstampedInv, NoRequestOnceStamped, Idle
  <1>2. UnstampedInv => NoRequestOnceStamped
    BY DEF UnstampedInv
  <1>3. QED
    BY <1>1, <1>2, NextUnstamped, PTL DEF Spec

-----------------------------------------------------------------------------
(* The requests that are posted *)

(* n[s] units for each s in S: as many as the sum of n. *)
Units(S, n) == UNION {{s} \X (1..n[s]) : s \in S}

(* The units of one member are as many as its number. *)
LEMMA UnitsOfOne ==
  ASSUME NEW s, NEW k \in Nat
  PROVE  /\ IsFiniteSet({s} \X (1..k))
         /\ Cardinality({s} \X (1..k)) = k
  <1>1. IsFiniteSet({s}) /\ Cardinality({s}) = 1
    BY FS_Singleton
  <1>2. IsFiniteSet(1..k) /\ Cardinality(1..k) = k
    BY FS_Interval
  <1>3. /\ IsFiniteSet({s} \X (1..k))
        /\ Cardinality({s} \X (1..k))
             = Cardinality({s}) * Cardinality(1..k)
    BY <1>1, <1>2, FS_Product, Zenon
  <1>4. QED
    BY <1>1, <1>2, <1>3

(* A number that changes changes the sum by as much. *)
LEMMA UnitsChange ==
  ASSUME NEW S, NEW n \in [S -> Nat], NEW p \in [S -> Nat],
         NEW s \in S, \A t \in S \ {s} : p[t] = n[t],
         IsFiniteSet(Units(S, n))
  PROVE  /\ IsFiniteSet(Units(S, p))
         /\ Cardinality(Units(S, n)) \in Nat
         /\ Cardinality(Units(S, p)) \in Nat
         /\ Cardinality(Units(S, p)) + n[s] = Cardinality(Units(S, n)) + p[s]
  <1> DEFINE Rest == UNION {{t} \X (1..n[t]) : t \in S \ {s}}
  <1>1. Units(S, n) = Rest \cup ({s} \X (1..n[s]))
    BY DEF Units
  <1>2. Units(S, p) = Rest \cup ({s} \X (1..p[s]))
    BY DEF Units
  <1>3. /\ Rest \cap ({s} \X (1..n[s])) = {}
        /\ Rest \cap ({s} \X (1..p[s])) = {}
    OBVIOUS
  <1> HIDE DEF Rest
  <1>4. IsFiniteSet(Rest)
    <2>1. Rest \in SUBSET Units(S, n)
      BY <1>1
    <2>2. QED
      BY <2>1, FS_Subset
  <1>5. n[s] \in Nat /\ p[s] \in Nat
    OBVIOUS
  <1>6. /\ IsFiniteSet({s} \X (1..n[s]))
        /\ Cardinality({s} \X (1..n[s])) = n[s]
        /\ IsFiniteSet({s} \X (1..p[s]))
        /\ Cardinality({s} \X (1..p[s])) = p[s]
    BY <1>5, UnitsOfOne
  <1>7. /\ Cardinality(Units(S, n)) = Cardinality(Rest) + n[s] - 0
        /\ IsFiniteSet(Units(S, p))
        /\ Cardinality(Units(S, p)) = Cardinality(Rest) + p[s] - 0
    BY <1>1, <1>2, <1>3, <1>4, <1>6, FS_Union, FS_EmptySet, SMTT(30)
  <1>8. Cardinality(Rest) \in Nat
    BY <1>4, FS_CardinalityType
  <1>9. QED
    BY <1>5, <1>7, <1>8

LEMMA UnitsOfNone ==
  ASSUME NEW S, NEW n \in [S -> Nat], \A s \in S : n[s] = 0
  PROVE  IsFiniteSet(Units(S, n)) /\ Cardinality(Units(S, n)) = 0
  <1>1. Units(S, n) = {}
    BY DEF Units
  <1>2. QED
    BY <1>1, FS_EmptySet

(* The requests that a message with r retries behind it can still lead to. *)
Posts(r) == MaxPosts * (MaxRetries - r + 1)

(* Those that execution x can. *)
Left(x) ==
  CASE x.pc \in {"check", "mark", "request"} ->
         MaxPosts - x.posts + MaxPosts * (MaxRetries - x.retries)
    [] x.pc \in {"recordRetry", "retry"} ->
         MaxPosts * (MaxRetries - x.retries)
    [] OTHER -> 0

Waiting == [m \in Message |-> pending[m] * Posts(m.retries)]

Running == [s \in Slot |-> Left(exec[s])]

Queued == Cardinality(Units(Message, Waiting))

Started == Cardinality(Units(Slot, Running))

(* What was posted, and what the messages and the executions can still     *)
(* post, is within the bound.                                              *)
PostsInv ==
  /\ TypeOK
  /\ IsFiniteSet(Units(Message, Waiting))
  /\ IsFiniteSet(Units(Slot, Running))
  /\ requests + Queued + Started <= Posts(0) * (scheduled + redelivered)

LEMMA PostsType ==
  ASSUME NEW r \in 0..MaxRetries
  PROVE  /\ Posts(r) \in Nat
         /\ Posts(r) <= Posts(0)
         /\ Posts(r) = MaxPosts + MaxPosts * (MaxRetries - r)
         /\ MaxPosts * (MaxRetries - r) \in Nat
         /\ r < MaxRetries => Posts(r + 1) = MaxPosts * (MaxRetries - r)
  <1>1. PICK k \in Nat : k = MaxRetries - r
    BY BoundsAreNumbers
  <1>2. MaxPosts * k \in Nat /\ MaxPosts * r \in Nat
    BY BoundsAreNumbers
  <1>3. /\ Posts(r) = MaxPosts * (k + 1)
        /\ MaxPosts * (k + 1) = MaxPosts + MaxPosts * k
    BY <1>1, BoundsAreNumbers DEF Posts
  <1>4. Posts(0) = MaxPosts * (k + 1) + MaxPosts * r
    BY <1>1, BoundsAreNumbers DEF Posts
  <1>5. r < MaxRetries => Posts(r + 1) = MaxPosts * k
    <2>1. MaxRetries - (r + 1) + 1 = k
      BY <1>1, BoundsAreNumbers
    <2>2. QED
      BY <2>1 DEF Posts
  <1>6. QED
    BY <1>1, <1>2, <1>3, <1>4, <1>5, BoundsAreNumbers

LEMMA LeftType ==
  ASSUME NEW x \in Execution \cup {Idle}
  PROVE  /\ Left(x) \in Nat
         /\ x.pc \in {"check", "mark", "request"} =>
              Left(x) = MaxPosts - x.posts
                          + MaxPosts * (MaxRetries - x.retries)
         /\ x.pc \in {"recordRetry", "retry"} =>
              Left(x) = MaxPosts * (MaxRetries - x.retries)
         /\ x.pc \notin {"check", "mark", "request", "recordRetry",
                         "retry"} => Left(x) = 0
  <1>1. CASE x \in Execution
    <2>1. /\ x.retries \in 0..MaxRetries
          /\ x.posts \in 0..MaxPosts
      BY <1>1 DEF Execution
    <2>2. /\ MaxPosts - x.posts \in Nat
          /\ MaxPosts * (MaxRetries - x.retries) \in Nat
      BY <2>1, PostsType, BoundsAreNumbers
    <2>3. CASE x.pc \in {"check", "mark", "request"}
      BY <2>2, <2>3 DEF Left
    <2>4. CASE x.pc \in {"recordRetry", "retry"}
      BY <2>2, <2>4 DEF Left
    <2>5. CASE x.pc \notin {"check", "mark", "request", "recordRetry",
                            "retry"}
      BY <2>5 DEF Left
    <2>6. QED
      BY <2>3, <2>4, <2>5
  <1>2. CASE x = Idle
    BY <1>2 DEF Idle, Left
  <1>3. QED
    BY <1>1, <1>2

LEMMA SumTypes ==
  TypeOK => Waiting \in [Message -> Nat] /\ Running \in [Slot -> Nat]
  <1> SUFFICES ASSUME TypeOK
               PROVE  /\ Waiting \in [Message -> Nat]
                      /\ Running \in [Slot -> Nat]
    OBVIOUS
  <1>1. ASSUME NEW m \in Message
        PROVE  pending[m] * Posts(m.retries) \in Nat
    <2>1. pending[m] \in Nat /\ m.retries \in 0..MaxRetries
      BY DEF TypeOK, Message
    <2>2. Posts(m.retries) \in Nat
      BY <2>1, PostsType
    <2>3. QED
      BY <2>1, <2>2
  <1>2. ASSUME NEW s \in Slot
        PROVE  Left(exec[s]) \in Nat
    BY LeftType DEF TypeOK
  <1>3. QED
    BY <1>1, <1>2 DEF Waiting, Running

LEMMA QueuedChanges ==
  ASSUME PostsInv, TypeOK', NEW m \in Message,
         \A x \in Message \ {m} : pending'[x] = pending[x]
  PROVE  /\ IsFiniteSet(Units(Message, Waiting))'
         /\ Queued \in Nat /\ Queued' \in Nat
         /\ Queued' + pending[m] * Posts(m.retries)
              = Queued + pending'[m] * Posts(m.retries)
  <1>1. Waiting \in [Message -> Nat] /\ Waiting' \in [Message -> Nat]
    <2>1. Waiting \in [Message -> Nat]
      BY SumTypes DEF PostsInv
    <2>2. TypeOK' => (/\ Waiting \in [Message -> Nat]
                      /\ Running \in [Slot -> Nat])'
      BY SumTypes, PTL
    <2>3. QED
      BY <2>1, <2>2
  <1>2. \A x \in Message \ {m} : Waiting'[x] = Waiting[x]
    BY DEF Waiting
  <1>3. /\ Waiting[m] = pending[m] * Posts(m.retries)
        /\ Waiting'[m] = pending'[m] * Posts(m.retries)
    BY DEF Waiting
  <1>4. Units(Message, Waiting)' = Units(Message, Waiting')
    BY DEF Units
  <1>5. /\ IsFiniteSet(Units(Message, Waiting'))
        /\ Cardinality(Units(Message, Waiting)) \in Nat
        /\ Cardinality(Units(Message, Waiting')) \in Nat
        /\ Cardinality(Units(Message, Waiting')) + Waiting[m]
             = Cardinality(Units(Message, Waiting)) + Waiting'[m]
    BY <1>1, <1>2, UnitsChange DEF PostsInv
  <1>6. QED
    BY <1>3, <1>4, <1>5 DEF Queued

LEMMA StartedChanges ==
  ASSUME PostsInv, TypeOK', NEW s \in Slot,
         \A t \in Slot \ {s} : exec'[t] = exec[t]
  PROVE  /\ IsFiniteSet(Units(Slot, Running))'
         /\ Started \in Nat /\ Started' \in Nat
         /\ Started' + Left(exec[s]) = Started + Left(exec'[s])
  <1>1. Running \in [Slot -> Nat] /\ Running' \in [Slot -> Nat]
    <2>1. Running \in [Slot -> Nat]
      BY SumTypes DEF PostsInv
    <2>2. TypeOK' => (/\ Waiting \in [Message -> Nat]
                      /\ Running \in [Slot -> Nat])'
      BY SumTypes, PTL
    <2>3. QED
      BY <2>1, <2>2
  <1>2. \A t \in Slot \ {s} : Running'[t] = Running[t]
    BY DEF Running
  <1>3. Running[s] = Left(exec[s]) /\ Running'[s] = Left(exec'[s])
    BY DEF Running
  <1>4. Units(Slot, Running)' = Units(Slot, Running')
    BY DEF Units
  <1>5. /\ IsFiniteSet(Units(Slot, Running'))
        /\ Cardinality(Units(Slot, Running)) \in Nat
        /\ Cardinality(Units(Slot, Running')) \in Nat
        /\ Cardinality(Units(Slot, Running')) + Running[s]
             = Cardinality(Units(Slot, Running)) + Running'[s]
    BY <1>1, <1>2, UnitsChange DEF PostsInv
  <1>6. QED
    BY <1>3, <1>4, <1>5 DEF Started

(* Another copy of m can lead to Posts(m.retries) requests. *)
LEMMA QueuedPublish ==
  ASSUME PostsInv, TypeOK', NEW m \in Message, Publish(m)
  PROVE  /\ IsFiniteSet(Units(Message, Waiting))'
         /\ Queued \in Nat /\ Queued' \in Nat
         /\ Posts(m.retries) \in Nat
         /\ Queued' = Queued + Posts(m.retries)
  <1>1. /\ pending[m] \in Nat
        /\ pending'[m] = pending[m] + 1
        /\ \A x \in Message \ {m} : pending'[x] = pending[x]
    BY DEF PostsInv, TypeOK, Publish
  <1>2. Posts(m.retries) \in Nat
    BY PostsType DEF Message
  <1>3. (pending[m] + 1) * Posts(m.retries)
          = pending[m] * Posts(m.retries) + Posts(m.retries)
    BY <1>1, <1>2
  <1>4. pending[m] * Posts(m.retries) \in Nat
    BY <1>1, <1>2
  <1>5. QED
    <2>1. /\ IsFiniteSet(Units(Message, Waiting))'
          /\ Queued \in Nat /\ Queued' \in Nat
          /\ Queued' + pending[m] * Posts(m.retries)
               = Queued + pending'[m] * Posts(m.retries)
      BY <1>1, QueuedChanges
    <2>2. QED
      BY <1>1, <1>2, <1>3, <1>4, <2>1

LEMMA QueuedReceive ==
  ASSUME PostsInv, TypeOK', NEW m \in Message, pending[m] > 0,
         pending' = [pending EXCEPT ![m] = @ - 1]
  PROVE  /\ IsFiniteSet(Units(Message, Waiting))'
         /\ Queued \in Nat /\ Queued' \in Nat
         /\ Posts(m.retries) \in Nat
         /\ Queued' + Posts(m.retries) = Queued
  <1>1. /\ pending[m] \in Nat
        /\ pending'[m] \in Nat
        /\ pending[m] = pending'[m] + 1
        /\ \A x \in Message \ {m} : pending'[x] = pending[x]
    BY DEF PostsInv, TypeOK
  <1>2. Posts(m.retries) \in Nat
    BY PostsType DEF Message
  <1>3. (pending'[m] + 1) * Posts(m.retries)
          = pending'[m] * Posts(m.retries) + Posts(m.retries)
    BY <1>1, <1>2
  <1>4. pending'[m] * Posts(m.retries) \in Nat
    BY <1>1, <1>2
  <1>5. QED
    <2>1. /\ IsFiniteSet(Units(Message, Waiting))'
          /\ Queued \in Nat /\ Queued' \in Nat
          /\ Queued' + pending[m] * Posts(m.retries)
               = Queued + pending'[m] * Posts(m.retries)
      BY <1>1, QueuedChanges
    <2>2. QED
      BY <1>1, <1>2, <1>3, <1>4, <2>1

LEMMA QueuedStays ==
  ASSUME PostsInv, pending' = pending
  PROVE  /\ IsFiniteSet(Units(Message, Waiting))'
         /\ Queued \in Nat /\ Queued' = Queued
  <1>1. Units(Message, Waiting)' = Units(Message, Waiting)
    BY DEF Units, Waiting
  <1>2. QED
    BY <1>1, FS_CardinalityType DEF PostsInv, Queued

LEMMA StartedStays ==
  ASSUME PostsInv, exec' = exec
  PROVE  /\ IsFiniteSet(Units(Slot, Running))'
         /\ Started \in Nat /\ Started' = Started
  <1>1. Units(Slot, Running)' = Units(Slot, Running)
    BY DEF Units, Running
  <1>2. QED
    BY <1>1, FS_CardinalityType DEF PostsInv, Started

LEMMA InitPosts == Init => PostsInv
  <1> SUFFICES ASSUME Init
               PROVE  PostsInv
    OBVIOUS
  <1>1. TypeOK /\ Waiting \in [Message -> Nat] /\ Running \in [Slot -> Nat]
    BY InitType, SumTypes
  <1>2. ASSUME NEW m \in Message
        PROVE  Waiting[m] = 0
    <2>1. Posts(m.retries) \in Nat
      BY PostsType DEF Message
    <2>2. QED
      BY <2>1 DEF Init, Waiting
  <1>3. ASSUME NEW s \in Slot
        PROVE  Running[s] = 0
    <2>1. exec[s] = Idle
      BY DEF Init
    <2>2. Left(Idle) = 0
      BY LeftType DEF Idle
    <2>3. QED
      BY <2>1, <2>2 DEF Running
  <1>4. /\ IsFiniteSet(Units(Message, Waiting)) /\ Queued = 0
        /\ IsFiniteSet(Units(Slot, Running)) /\ Started = 0
    BY <1>1, <1>2, <1>3, UnitsOfNone DEF Queued, Started
  <1>5. Posts(0) \in Nat
    BY PostsType, BoundsAreNumbers
  <1>6. QED
    BY <1>1, <1>4, <1>5 DEF Init, PostsInv

(* Every task that is queued, and every message that comes back, raises    *)
(* the bound by the requests of a first attempt.                           *)
LEMMA BoundGrows ==
  ASSUME NEW a \in Nat, NEW b \in Nat
  PROVE  /\ Posts(0) \in Nat
         /\ Posts(0) * (a + b) \in Nat
         /\ Posts(0) * (a + 1 + b) = Posts(0) * (a + b) + Posts(0)
         /\ Posts(0) * (a + (b + 1)) = Posts(0) * (a + b) + Posts(0)
  <1>1. Posts(0) \in Nat
    BY PostsType, BoundsAreNumbers
  <1>2. ASSUME NEW k \in Nat
        PROVE  /\ k * (a + b) \in Nat
               /\ k * (a + 1 + b) = k * (a + b) + k
               /\ k * (a + (b + 1)) = k * (a + b) + k
    OBVIOUS
  <1>3. QED
    BY <1>1, <1>2

(* An execution that stops has nothing left to post. *)
LEMMA StopPosts ==
  ASSUME PostsInv, TypeOK', NEW s \in Slot, exec' = [exec EXCEPT ![s] = Idle]
  PROVE  /\ IsFiniteSet(Units(Slot, Running))'
         /\ Started \in Nat /\ Started' \in Nat
         /\ Started' <= Started
  <1>1. /\ exec[s] \in Execution \cup {Idle}
        /\ exec'[s] = Idle
        /\ \A t \in Slot \ {s} : exec'[t] = exec[t]
    BY DEF PostsInv, TypeOK
  <1>2. Left(Idle) = 0
    BY LeftType DEF Idle
  <1>3. Left(exec[s]) \in Nat
    BY <1>1, LeftType
  <1>4. /\ IsFiniteSet(Units(Slot, Running))'
        /\ Started \in Nat /\ Started' \in Nat
        /\ Started' + Left(exec[s]) = Started + Left(exec'[s])
    BY <1>1, StartedChanges
  <1>5. QED
    BY <1>1, <1>2, <1>3, <1>4

LEMMA EnvironmentPosts ==
  ASSUME PostsInv, Environment, TypeOK'
  PROVE  PostsInv'
  <1>1. /\ scheduled \in Nat /\ redelivered \in Nat /\ requests \in Nat
        /\ requests + Queued + Started <= Posts(0) * (scheduled + redelivered)
    BY BoundsAreNumbers DEF PostsInv, TypeOK
  <1>2. ASSUME NEW f \in File,
               Schedule(f) \/ ScheduleForced(f) \/ ScheduleInBulk(f)
        PROVE  PostsInv'
    <2>1. /\ Publish(FirstAttempt(f))
          /\ scheduled' = scheduled + 1
          /\ UNCHANGED <<exec, redelivered, requests>>
      BY <1>2 DEF Schedule, ScheduleForced, ScheduleInBulk
    <2>2. FirstAttempt(f) \in Message /\ FirstAttempt(f).retries = 0
      BY BoundsAreNumbers DEF FirstAttempt, Message
    <2>3. /\ IsFiniteSet(Units(Message, Waiting))'
          /\ Queued \in Nat
          /\ Queued' = Queued + Posts(0)
      BY <2>1, <2>2, QueuedPublish
    <2>4. /\ IsFiniteSet(Units(Slot, Running))'
          /\ Started \in Nat /\ Started' = Started
      BY <2>1, StartedStays
    <2>5. /\ Posts(0) \in Nat /\ Posts(0) * (scheduled + redelivered) \in Nat
          /\ Posts(0) * (scheduled + 1 + redelivered)
               = Posts(0) * (scheduled + redelivered) + Posts(0)
      BY <1>1, BoundGrows
    <2>6. (requests + Queued + Started
             <= Posts(0) * (scheduled + redelivered))'
      BY <1>1, <2>1, <2>3, <2>4, <2>5
    <2>7. QED
      BY <2>3, <2>4, <2>6 DEF PostsInv
  <1>3. ASSUME NEW f \in File, DeleteFile(f)
        PROVE  PostsInv'
    <2>1. UNCHANGED <<pending, exec, scheduled, redelivered, requests>>
      BY <1>3 DEF DeleteFile, counters
    <2>2. QED
      BY <2>1, QueuedStays, StartedStays DEF PostsInv
  <1>4. ASSUME NEW m \in Message, Publish(m),
               redelivered' = redelivered + 1,
               UNCHANGED <<scheduled, requests>>,
               IsFiniteSet(Units(Slot, Running))',
               Started \in Nat, Started' \in Nat, Started' <= Started
        PROVE  PostsInv'
    <2>1. /\ IsFiniteSet(Units(Message, Waiting))'
          /\ Queued \in Nat
          /\ Queued' = Queued + Posts(m.retries)
      BY <1>4, QueuedPublish
    <2>2. /\ Posts(m.retries) \in Nat
          /\ Posts(m.retries) <= Posts(0)
      BY PostsType DEF Message
    <2>3. /\ Posts(0) \in Nat /\ Posts(0) * (scheduled + redelivered) \in Nat
          /\ Posts(0) * (scheduled + (redelivered + 1))
               = Posts(0) * (scheduled + redelivered) + Posts(0)
      BY <1>1, BoundGrows
    <2>4. (requests + Queued + Started
             <= Posts(0) * (scheduled + redelivered))'
      BY <1>1, <1>4, <2>1, <2>2, <2>3
    <2>5. QED
      BY <1>4, <2>1, <2>4 DEF PostsInv
  <1>5. ASSUME NEW m \in Message, Redeliver(m)
        PROVE  PostsInv'
    <2>1. /\ IsFiniteSet(Units(Slot, Running))'
          /\ Started \in Nat /\ Started' = Started
      BY <1>5, StartedStays DEF Redeliver
    <2>2. QED
      BY <1>4, <1>5, <2>1 DEF Redeliver
  <1>6. ASSUME NEW s \in Slot, Crash(s)
        PROVE  PostsInv'
    <2>1. MessageOf(s) \in Message
      BY <1>6, ExecutionType DEF Crash, PostsInv
    <2>2. /\ IsFiniteSet(Units(Slot, Running))'
          /\ Started \in Nat /\ Started' \in Nat
          /\ Started' <= Started
      BY <1>6, StopPosts DEF Crash
    <2>3. QED
      BY <1>4, <1>6, <2>1, <2>2 DEF Crash
  <1>7. ASSUME NEW s \in Slot, HardTimeLimit(s)
        PROVE  PostsInv'
    <2>1. UNCHANGED <<pending, scheduled, redelivered, requests>>
      BY <1>7 DEF HardTimeLimit, counters
    <2>2. /\ IsFiniteSet(Units(Slot, Running))'
          /\ Started \in Nat /\ Started' \in Nat
          /\ Started' <= Started
      BY <1>7, StopPosts DEF HardTimeLimit
    <2>3. /\ IsFiniteSet(Units(Message, Waiting))'
          /\ Queued \in Nat /\ Queued' = Queued
      BY <2>1, QueuedStays
    <2>4. Posts(0) * (scheduled + redelivered) \in Nat
      BY <1>1, BoundGrows
    <2>5. (requests + Queued + Started
             <= Posts(0) * (scheduled + redelivered))'
      BY <1>1, <2>1, <2>2, <2>3, <2>4
    <2>6. QED
      BY <2>2, <2>3, <2>5 DEF PostsInv
  <1>8. QED
    BY <1>2, <1>3, <1>5, <1>6, <1>7 DEF Environment

(* A step that raises no part of the sum more than it lowers the others.   *)
LEMMA WithinKeeps ==
  ASSUME PostsInv, TypeOK', UNCHANGED <<scheduled, redelivered>>,
         IsFiniteSet(Units(Message, Waiting))',
         IsFiniteSet(Units(Slot, Running))',
         Queued \in Nat, Queued' \in Nat,
         Started \in Nat, Started' \in Nat, requests' \in Nat,
         requests' + Queued' + Started' <= requests + Queued + Started
  PROVE  PostsInv'
  <1>1. requests \in Nat /\ scheduled \in Nat /\ redelivered \in Nat
    BY BoundsAreNumbers DEF PostsInv, TypeOK
  <1>2. PICK b \in Nat : b = Posts(0) * (scheduled + redelivered)
    BY <1>1, BoundGrows
  <1>3. PICK x \in Nat : x = requests + Queued + Started
    BY <1>1
  <1>4. PICK y \in Nat : y = requests' + Queued' + Started'
    <2>1. PICK r \in Nat, q \in Nat, u \in Nat :
            r = requests' /\ q = Queued' /\ u = Started'
      OBVIOUS
    <2>2. r + q + u \in Nat
      OBVIOUS
    <2>3. QED
      BY <2>1, <2>2
  <1>5. x <= b
    BY <1>2, <1>3 DEF PostsInv
  <1>6. y <= x
    BY <1>3, <1>4
  <1>7. y <= b
    BY <1>5, <1>6
  <1>8. (requests + Queued + Started
           <= Posts(0) * (scheduled + redelivered))'
    BY <1>2, <1>4, <1>7
  <1>9. QED
    BY <1>8 DEF PostsInv

(* A step of an execution posts what it had left to post, or gives it up,  *)
(* or leaves it to the message of its next attempt.                        *)
LEMMA StepPosts ==
  ASSUME PostsInv, NEW s \in Slot, Step(s), TypeOK'
  PROVE  PostsInv'
  <1>1. /\ scheduled \in Nat /\ redelivered \in Nat /\ requests \in Nat
    BY BoundsAreNumbers DEF PostsInv, TypeOK
  <1>2. UNCHANGED <<scheduled, redelivered>>
    <2>1. CASE \/ Receive(s) \/ CheckStatus(s) \/ MarkInProgress(s)
               \/ EncodeFails(s) \/ PostRequest(s)
      BY <2>1 DEF Receive, CheckStatus, MarkInProgress, EncodeFails,
         PostRequest, counters
    <2>2. CASE \/ GiveUp(s) \/ ParseResponse(s) \/ StoreTimestamp(s)
               \/ FailUnexpectedly(s)
      BY <2>2 DEF GiveUp, ParseResponse, StoreTimestamp, FailUnexpectedly,
         counters
    <2>3. CASE \/ RecordError(s) \/ RecordErrorFails(s) \/ Retry(s)
               \/ Acknowledge(s)
      BY <2>3 DEF RecordError, RecordErrorFails, Retry, Acknowledge, counters
    <2>4. QED
      BY <2>1, <2>2, <2>3 DEF Step
  <1>3. SUFFICES /\ IsFiniteSet(Units(Message, Waiting))'
                 /\ IsFiniteSet(Units(Slot, Running))'
                 /\ Queued \in Nat /\ Queued' \in Nat
                 /\ Started \in Nat /\ Started' \in Nat
                 /\ requests' \in Nat
                 /\ requests' + Queued' + Started'
                      <= requests + Queued + Started
    BY <1>2, WithinKeeps
  <1>4. /\ exec[s] \in Execution \cup {Idle}
        /\ exec'[s] \in Execution \cup {Idle}
    BY DEF PostsInv, TypeOK
  <1>5. Left(exec[s]) \in Nat /\ Left(exec'[s]) \in Nat
    BY <1>4, LeftType
  <1>6. ASSUME NEW to, Goto(s, to), exec[s].pc # "idle"
        PROVE  /\ exec'[s].pc = to
               /\ exec'[s].retries = exec[s].retries
               /\ exec'[s].posts = exec[s].posts
               /\ exec[s].retries \in 0..MaxRetries
               /\ exec[s].posts \in 0..MaxPosts
               /\ \A t \in Slot \ {s} : exec'[t] = exec[t]
    BY <1>6, ExecutionType DEF Goto, PostsInv, TypeOK, Execution
  <1>7. ASSUME pending' = pending, requests' = requests,
               \A t \in Slot \ {s} : exec'[t] = exec[t],
               Left(exec'[s]) <= Left(exec[s])
        PROVE  /\ IsFiniteSet(Units(Message, Waiting))'
               /\ IsFiniteSet(Units(Slot, Running))'
               /\ Queued \in Nat /\ Queued' \in Nat
               /\ Started \in Nat /\ Started' \in Nat
               /\ requests' \in Nat
               /\ requests' + Queued' + Started'
                    <= requests + Queued + Started
    <2>1. /\ IsFiniteSet(Units(Message, Waiting))'
          /\ Queued \in Nat /\ Queued' = Queued
      BY <1>7, QueuedStays
    <2>2. /\ IsFiniteSet(Units(Slot, Running))'
          /\ Started \in Nat /\ Started' \in Nat
          /\ Started' + Left(exec[s]) = Started + Left(exec'[s])
      BY <1>7, StartedChanges
    <2>3. Started' <= Started
      BY <1>5, <1>7, <2>2
    <2>4. requests' + Queued' + Started' <= requests + Queued + Started
      <3>1. requests' = requests /\ requests \in Nat
        BY <1>1, <1>7
      <3>2. /\ Queued \in Nat /\ Queued' = Queued
            /\ Started \in Nat /\ Started' \in Nat
        BY <2>1, <2>2
      <3>3. PICK r \in Nat, q \in Nat, u \in Nat, v \in Nat :
              /\ r = requests /\ r = requests'
              /\ q = Queued /\ q = Queued'
              /\ u = Started /\ v = Started'
        BY <3>1, <3>2
      <3>4. v <= u
        BY <2>3, <3>3
      <3>5. r + q + v <= r + q + u
        BY <3>4
      <3>6. QED
        BY <3>3, <3>5
    <2>5. QED
      BY <1>1, <1>7, <2>1, <2>2, <2>4
  <1>8. ASSUME \/ CheckStatus(s) \/ MarkInProgress(s) \/ EncodeFails(s)
               \/ GiveUp(s) \/ ParseResponse(s) \/ StoreTimestamp(s)
               \/ FailUnexpectedly(s) \/ RecordError(s)
               \/ RecordErrorFails(s) \/ Acknowledge(s)
        PROVE  /\ pending' = pending /\ requests' = requests
               /\ \A t \in Slot \ {s} : exec'[t] = exec[t]
               /\ Left(exec'[s]) <= Left(exec[s])
    <2>1. pending' = pending /\ requests' = requests
      BY <1>8 DEF CheckStatus, MarkInProgress, EncodeFails, GiveUp,
         ParseResponse, StoreTimestamp, FailUnexpectedly, RecordError,
         RecordErrorFails, Acknowledge, counters
    <2>2. CASE CheckStatus(s)
      <3>1. PICK to \in {"recordEnd", "done", "mark"} :
              Goto(s, to) /\ exec[s].pc = "check"
        BY <2>2 DEF CheckStatus
      <3>2. Left(exec'[s]) <= Left(exec[s])
        BY <1>4, <1>5, <1>6, <3>1, LeftType
      <3>3. QED
        BY <1>6, <2>1, <3>1, <3>2
    <2>3. CASE MarkInProgress(s)
      <3>1. PICK to \in {"recordEnd", "request"} :
              Goto(s, to) /\ exec[s].pc = "mark"
        BY <2>3 DEF MarkInProgress
      <3>2. Left(exec'[s]) <= Left(exec[s])
        BY <1>4, <1>5, <1>6, <3>1, LeftType
      <3>3. QED
        BY <1>6, <2>1, <3>1, <3>2
    <2>4. CASE \/ EncodeFails(s) \/ ParseResponse(s) \/ StoreTimestamp(s)
               \/ FailUnexpectedly(s)
      <3>1. PICK to \in {"recordEnd", "store", "done"} :
              Goto(s, to) /\ exec[s].pc # "idle"
        BY <2>4 DEF EncodeFails, ParseResponse, StoreTimestamp,
           FailUnexpectedly
      <3>2. Left(exec'[s]) = 0
        BY <1>4, <1>6, <3>1, LeftType
      <3>3. QED
        BY <1>5, <1>6, <2>1, <3>1, <3>2
    <2>5. CASE GiveUp(s)
      <3>1. /\ Goto(s, "recordRetry") /\ exec[s].pc = "request"
            /\ exec[s].posts = MaxPosts
        BY <2>5 DEF GiveUp
      <3>2. /\ Left(exec'[s]) = MaxPosts * (MaxRetries - exec[s].retries)
            /\ Left(exec[s]) = MaxPosts - MaxPosts
                                 + MaxPosts * (MaxRetries - exec[s].retries)
        BY <1>4, <1>6, <3>1, LeftType
      <3>3. MaxPosts * (MaxRetries - exec[s].retries) \in Nat
        BY <1>6, <3>1, PostsType
      <3>4. Left(exec'[s]) <= Left(exec[s])
        BY <3>2, <3>3, BoundsAreNumbers
      <3>5. QED
        BY <1>6, <2>1, <3>1, <3>4
    <2>6. CASE RecordError(s) \/ RecordErrorFails(s)
      <3>1. /\ exec[s].pc \in {"recordRetry", "recordEnd"}
            /\ Goto(s, AfterRecord(s))
        BY <2>6 DEF RecordError, RecordErrorFails
      <3>2. /\ exec'[s].pc = AfterRecord(s)
            /\ exec'[s].retries = exec[s].retries
            /\ \A t \in Slot \ {s} : exec'[t] = exec[t]
        BY <1>6, <3>1
      <3>3. CASE exec[s].pc = "recordRetry"
        <4>1. exec'[s].pc = "retry"
          BY <3>2, <3>3 DEF AfterRecord
        <4>2. Left(exec'[s]) = Left(exec[s])
          BY <1>4, <3>2, <3>3, <4>1, LeftType
        <4>3. QED
          BY <1>5, <2>1, <3>2, <4>2
      <3>4. CASE exec[s].pc = "recordEnd"
        <4>1. exec'[s].pc = "ack"
          BY <3>2, <3>4 DEF AfterRecord
        <4>2. Left(exec'[s]) = 0
          BY <1>4, <4>1, LeftType
        <4>3. QED
          BY <1>5, <2>1, <3>2, <4>2
      <3>5. QED
        BY <3>1, <3>3, <3>4
    <2>7. CASE Acknowledge(s)
      <3>1. /\ exec'[s] = Idle
            /\ \A t \in Slot \ {s} : exec'[t] = exec[t]
        BY <2>7 DEF Acknowledge, PostsInv, TypeOK
      <3>2. Left(exec'[s]) = 0
        BY <3>1, LeftType DEF Idle
      <3>3. QED
        BY <1>5, <2>1, <3>1, <3>2
    <2>8. QED
      BY <1>8, <2>2, <2>3, <2>4, <2>5, <2>6, <2>7
  <1>9. CASE Receive(s)
    <2>1. PICK m \in Message :
            /\ pending[m] > 0
            /\ pending' = [pending EXCEPT ![m] = @ - 1]
            /\ exec' = [exec EXCEPT ![s] = [pc |-> "check", file |-> m.file,
                                            retries |-> m.retries,
                                            posts |-> 0]]
      BY <1>9 DEF Receive
    <2>2. exec[s].pc = "idle" /\ requests' = requests
      BY <1>9 DEF Receive, counters
    <2>3. /\ exec'[s].pc = "check"
          /\ exec'[s].retries = m.retries
          /\ exec'[s].posts = 0
          /\ \A t \in Slot \ {s} : exec'[t] = exec[t]
      BY <2>1 DEF PostsInv, TypeOK
    <2>4. m.retries \in 0..MaxRetries
      BY DEF Message
    <2>5. Left(exec[s]) = 0
      BY <1>4, <2>2, LeftType
    <2>6. Left(exec'[s]) = MaxPosts - 0 + MaxPosts * (MaxRetries - m.retries)
      BY <1>4, <2>3, LeftType
    <2>7. Left(exec'[s]) = Posts(m.retries)
      BY <2>4, <2>6, PostsType, BoundsAreNumbers
    <2>8. /\ IsFiniteSet(Units(Message, Waiting))'
          /\ Queued \in Nat /\ Queued' \in Nat
          /\ Posts(m.retries) \in Nat
          /\ Queued' + Posts(m.retries) = Queued
      BY <2>1, QueuedReceive
    <2>9. /\ IsFiniteSet(Units(Slot, Running))'
          /\ Started \in Nat /\ Started' \in Nat
          /\ Started' + Left(exec[s]) = Started + Left(exec'[s])
      BY <2>3, StartedChanges
    <2>10. requests' + Queued' + Started' <= requests + Queued + Started
      BY <1>1, <2>2, <2>5, <2>7, <2>8, <2>9
    <2>11. QED
      BY <1>1, <2>2, <2>8, <2>9, <2>10
  <1>10. CASE PostRequest(s)
    <2>1. /\ exec[s].pc = "request" /\ exec[s].posts < MaxPosts
          /\ requests' = requests + 1 /\ pending' = pending
      BY <1>10 DEF PostRequest
    <2>2. /\ exec[s].retries \in 0..MaxRetries
          /\ exec[s].posts \in 0..MaxPosts
      BY <2>1, ExecutionType DEF PostsInv, Execution
    <2>3. MaxPosts * (MaxRetries - exec[s].retries) \in Nat
      BY <2>2, PostsType
    <2>4. Left(exec[s]) = MaxPosts - exec[s].posts
                            + MaxPosts * (MaxRetries - exec[s].retries)
      BY <1>4, <2>1, LeftType
    <2>5. /\ \A t \in Slot \ {s} : exec'[t] = exec[t]
          /\ Left(exec'[s]) + 1 <= Left(exec[s])
      <3>1. CASE exec' = [exec EXCEPT ![s].posts = @ + 1]
        <4>1. /\ exec'[s].pc = "request"
              /\ exec'[s].retries = exec[s].retries
              /\ exec'[s].posts = exec[s].posts + 1
              /\ \A t \in Slot \ {s} : exec'[t] = exec[t]
          BY <2>1, <3>1, ExecutionType DEF PostsInv, TypeOK, Execution
        <4>2. Left(exec'[s]) = MaxPosts - (exec[s].posts + 1)
                                + MaxPosts * (MaxRetries - exec[s].retries)
          BY <1>4, <4>1, LeftType
        <4>3. QED
          BY <2>2, <2>3, <2>4, <4>1, <4>2, BoundsAreNumbers
      <3>2. ASSUME NEW to \in {"parse", "recordEnd"}, Goto(s, to)
            PROVE  /\ \A t \in Slot \ {s} : exec'[t] = exec[t]
                   /\ Left(exec'[s]) + 1 <= Left(exec[s])
        <4>1. /\ exec'[s].pc \in {"parse", "recordEnd"}
              /\ \A t \in Slot \ {s} : exec'[t] = exec[t]
          BY <1>6, <2>1, <3>2
        <4>2. Left(exec'[s]) = 0
          BY <1>4, <4>1, LeftType
        <4>3. QED
          BY <2>1, <2>2, <2>3, <2>4, <4>1, <4>2, BoundsAreNumbers
      <3>3. QED
        BY <1>10, <3>1, <3>2 DEF PostRequest
    <2>6. /\ IsFiniteSet(Units(Message, Waiting))'
          /\ Queued \in Nat /\ Queued' = Queued
      BY <2>1, QueuedStays
    <2>7. /\ IsFiniteSet(Units(Slot, Running))'
          /\ Started \in Nat /\ Started' \in Nat
          /\ Started' + Left(exec[s]) = Started + Left(exec'[s])
      BY <2>5, StartedChanges
    <2>8. Started' + 1 <= Started
      BY <1>5, <2>5, <2>7
    <2>9. PICK n \in Nat, q \in Nat, x \in Nat, y \in Nat :
            n = requests /\ q = Queued /\ x = Started /\ y = Started'
      BY <1>1, <2>6, <2>7
    <2>10. /\ (n + 1) + q + y <= n + q + x
           /\ n + 1 \in Nat
      <3>1. y + 1 <= x
        BY <2>8, <2>9, Zenon
      <3>2. QED
        BY <3>1
    <2>11. /\ requests' + Queued' + Started' <= requests + Queued + Started
           /\ requests' \in Nat
      BY <2>1, <2>6, <2>9, <2>10, Zenon
    <2>12. QED
      BY <2>6, <2>7, <2>11
  <1>11. CASE Retry(s)
    <2>1. /\ exec[s].pc = "retry" /\ Goto(s, "ack") /\ requests' = requests
      BY <1>11 DEF Retry, counters
    <2>2. /\ exec'[s].pc = "ack"
          /\ \A t \in Slot \ {s} : exec'[t] = exec[t]
          /\ exec[s].retries \in 0..MaxRetries
      BY <1>6, <2>1
    <2>3. /\ Left(exec'[s]) = 0
          /\ Left(exec[s]) = MaxPosts * (MaxRetries - exec[s].retries)
      BY <1>4, <2>1, <2>2, LeftType
    <2>4. CASE pending' = pending
      BY <1>5, <1>7, <2>1, <2>2, <2>3, <2>4
    <2>5. CASE /\ exec[s].retries < MaxRetries
               /\ Publish([MessageOf(s) EXCEPT !.retries = @ + 1])
      <3>1. PICK m \in Message : /\ Publish(m)
                                 /\ m.retries = exec[s].retries + 1
        <4>1. /\ [MessageOf(s) EXCEPT !.retries = @ + 1] \in Message
              /\ [MessageOf(s) EXCEPT !.retries = @ + 1].retries
                   = exec[s].retries + 1
          BY <2>1, <2>2, <2>5, ExecutionType, BoundsAreNumbers
          DEF MessageOf, Message, Execution, PostsInv
        <4>2. QED
          BY <2>5, <4>1
      <3>2. Posts(m.retries) = Left(exec[s])
        BY <2>2, <2>3, <2>5, <3>1, PostsType
      <3>3. /\ IsFiniteSet(Units(Message, Waiting))'
            /\ Queued \in Nat /\ Queued' \in Nat
            /\ Queued' = Queued + Posts(m.retries)
        BY <3>1, QueuedPublish
      <3>4. /\ IsFiniteSet(Units(Slot, Running))'
            /\ Started \in Nat /\ Started' \in Nat
            /\ Started' + Left(exec[s]) = Started + Left(exec'[s])
        BY <2>2, StartedChanges
      <3>5. QED
        BY <1>1, <1>5, <2>1, <2>3, <3>2, <3>3, <3>4
    <2>6. QED
      BY <1>11, <2>4, <2>5 DEF Retry
  <1>12. QED
    BY <1>7, <1>8, <1>9, <1>10, <1>11 DEF Step

LEMMA NextPosts == PostsInv /\ [Next]_vars => PostsInv'
  <1> SUFFICES ASSUME PostsInv, [Next]_vars
               PROVE  PostsInv'
    OBVIOUS
  <1>1. TypeOK'
    BY NextType DEF PostsInv
  <1>2. CASE UNCHANGED vars
    <2>1. UNCHANGED <<pending, exec, scheduled, redelivered, requests>>
      BY <1>2 DEF vars, counters
    <2>2. /\ IsFiniteSet(Units(Message, Waiting))'
          /\ IsFiniteSet(Units(Slot, Running))'
          /\ Queued' = Queued /\ Started' = Started
      BY <2>1, QueuedStays, StartedStays
    <2>3. QED
      BY <1>1, <2>1, <2>2 DEF PostsInv
  <1>3. QED
    BY <1>1, <1>2, EnvironmentPosts, StepPosts DEF Next

(* However crashes, duplicates and both kinds of retries mix, the TSA is   *)
(* sent at most MaxPosts requests for each attempt, and MaxRetries + 1     *)
(* attempts for each time a task is queued or delivered again.             *)
THEOREM PostsAreBounded == Spec => []RequestsBounded
  <1>1. ASSUME PostsInv
        PROVE  RequestsBounded
    <2>1. Queued \in Nat /\ Started \in Nat
      BY <1>1, FS_CardinalityType DEF PostsInv, Queued, Started
    <2>2. /\ requests \in Nat /\ scheduled \in Nat /\ redelivered \in Nat
          /\ requests + Queued + Started
               <= Posts(0) * (scheduled + redelivered)
      BY <1>1, BoundsAreNumbers DEF PostsInv, TypeOK
    <2>3. Posts(0) = MaxPosts * (MaxRetries + 1)
      BY BoundsAreNumbers DEF Posts
    <2>4. Posts(0) * (scheduled + redelivered) \in Nat
      BY <2>2, BoundGrows
    <2>5. requests <= Posts(0) * (scheduled + redelivered)
      BY <2>1, <2>2, <2>4
    <2>6. QED
      BY <2>3, <2>5 DEF RequestsBounded
  <1>2. QED
    BY <1>1, InitPosts, NextPosts, PTL DEF Spec
=============================================================================
