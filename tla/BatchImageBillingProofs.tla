---------------------- MODULE BatchImageBillingProofs ----------------------
(***************************************************************************)
(* Machine-checked proofs about BatchImageBilling, for any hold, any number *)
(* of workers, retries and faults: the money of a batch moves as           *)
(* BalanceHold promises, and what the row of the job says of it is true.   *)
(***************************************************************************)
EXTENDS BatchImageBilling, TLAPS

-----------------------------------------------------------------------------
(* The inductive invariant *)

\* Points of a submission before the provider's job is on record.
Unsubmitted ==
  {"new", "reserve", "items", "upload", "provider", "save", "release", "lateRelease",
   "giveUp", "billingFailed", "retryEnqueue"}

\* Points of a submission that has not begun to fail.
Advancing == {"new", "reserve", "items", "upload", "provider", "save"}

Early == {"none", "created", "uploading"}
Dead == {"failed", "cancelled"}
Late == {"indexing", "settling", "completed"}

\* Points of a worker that has seen the provider's job on record.
PollPoints == {"poll", "running", "indexing", "failed", "cancelled"}
IndexPoints == {"index", "settling"}
SettlePoints == {"settle", "capture", "record", "mark", "exhaust", "exhausted"}

\* The claims say what moved, and the submission reserves before it goes on.
ClaimsInv ==
  /\ "hold" \in claims <=> "hold" \in effects
  /\ "capture" \in claims <=> "capture" \in effects
  /\ "release" \in effects => "release" \in claims
  /\ effects # {} => "hold" \in effects
  /\ submit \in {"new", "reserve"} => "hold" \notin claims
  /\ submit \in Advancing \ {"new", "reserve"} => "hold" \in claims
  /\ job.named => "hold" \in claims

\* Where the calls of the client and the sweep are says what the row is like.
RowInv ==
  /\ submit = "new" => job.status = "none"
  /\ submit \in Unsubmitted => ~job.named
  /\ job.status \in Early => ~job.named
  /\ job.named \/ job.status \in Early \cup Dead
  /\ submit \in Advancing /\ "release" \in claims => job.status \in Dead
  /\ cancel = "release" \/ recover = "release" => job.status \in Dead

\* What a worker has seen stays true: of the row, and of the provider.
Seen(w) ==
  /\ at[w] = "release" => job.status \in Dead
  /\ at[w] \in PollPoints \cup IndexPoints \cup SettlePoints => job.named
  /\ at[w] \in {"failed", "cancelled"} => provider \in {"succeeded", "failed", "cancelled"}
  /\ at[w] \in {"indexing"} \cup IndexPoints \cup SettlePoints => provider = "succeeded"

\* A provider's job that runs and is not forgotten is on its way to be recorded
\* or given up, or it is recorded and nobody released the hold.
ProviderInv ==
  /\ job.status \in Late => provider = "succeeded"
  /\ provider = "running" /\ "upstream" \notin forgotten =>
       IF job.named THEN job.status \in {"submitted", "running"} /\ "release" \notin effects
                    ELSE submit \in {"save", "abort"}

\* The retries have come to their end, and with them the settlement, or it goes on.
Exhausted == job.retries = MaxRetries
Settled == job.status \in {"settling", "completed"} \/ (job.status \in Dead /\ Exhausted)

\* Any number of workers may have the job; what each of them has seen of the
\* settlement stays true of it.
Knows(w) ==
  /\ at[w] \in SettlePoints => Settled
  /\ at[w] = "capture" => ~Exhausted
  /\ at[w] = "mark" => "capture" \in effects
  /\ at[w] \in {"exhaust", "exhausted"} => Exhausted

\* A capture is for good and ends the job as completed; the hold is there as long
\* as the job may still be captured.
Paid ==
  /\ job.status = "completed" => "capture" \in effects
  /\ "capture" \in effects =>
       job.status \in {"settling", "completed"} /\ "release" \notin effects /\ ~Exhausted
  /\ \/ job.status \in {"submitted", "running", "indexing"}
     \/ job.status = "settling" /\ ~Exhausted
     => "release" \notin effects

SettleInv == ~GivenUpLate => (\A w \in Workers : Knows(w)) /\ Paid

IInv ==
  /\ TypeOK /\ InflightIsQueued
  /\ ClaimsInv /\ RowInv /\ ProviderInv
  /\ \A w \in Workers : Seen(w)
  /\ SettleInv

-----------------------------------------------------------------------------
(* What the helpers do: to the row, the ledger and the queue *)

LEMMA FaultTyped ==
  ASSUME faults \in 0..MaxFaults, Fault
  PROVE  faults' \in 0..MaxFaults
BY BatchAssumption DEF Fault

\* The row has another status and is otherwise as far as it was.
Moves(s) ==
  /\ job' \in Job /\ job'.status = s
  /\ job'.named = job.named /\ job'.retries = job.retries

LEMMA StatusSet ==
  ASSUME job \in Job, NEW s \in Statuses, SetStatus(s)
  PROVE  Moves(s)
<1>1. PICK b \in BOOLEAN : b = FALSE
  OBVIOUS
<1>2. job' = [job EXCEPT !.status = s, !.stale = b]
  BY <1>1 DEF SetStatus
<1> QED BY <1>2 DEF Job, Moves

LEMMA GaveUp ==
  ASSUME job \in Job, GiveUp
  PROVE  Moves("failed") \/ Moves(job.status)
<1>1. CASE SetStatus("failed")
  BY <1>1, StatusSet DEF Statuses
<1>2. ASSUME NEW b \in BOOLEAN, NEW c \in BOOLEAN,
             job' = [job EXCEPT !.status = "failed", !.stale = b, !.hidden = c]
      PROVE  Moves("failed")
  BY <1>2 DEF Job, Moves, Statuses
<1>3. ASSUME NEW c \in BOOLEAN, job' = [job EXCEPT !.hidden = c]
      PROVE  Moves(job.status)
  BY <1>3 DEF Job, Moves
<1>4. (job.status \in Terminal) \in BOOLEAN
  OBVIOUS
<1> HIDE DEF Moves
<1>5. CASE job' = [job EXCEPT !.hidden = job.status \in Terminal]
  <2> DEFINE c == job.status \in Terminal
  <2>1. c \in BOOLEAN /\ job' = [job EXCEPT !.hidden = c]
    BY <1>4, <1>5
  <2> HIDE DEF c
  <2> QED BY <1>3, <2>1
<1>6. CASE job' = [job EXCEPT !.status = "failed", !.stale = FALSE, !.hidden = TRUE]
  BY <1>2, <1>6
<1> QED BY <1>1, <1>5, <1>6 DEF GiveUp

\* The provider's job is put on record.
LEMMA JobNamed ==
  ASSUME job \in Job,
         job' = [job EXCEPT !.status = "submitted", !.named = TRUE, !.stale = FALSE]
  PROVE  /\ job' \in Job /\ job'.status = "submitted" /\ job'.named
         /\ job'.retries = job.retries
<1>1. PICK b, c \in BOOLEAN : b = FALSE /\ c = TRUE
  OBVIOUS
<1>2. job' = [job EXCEPT !.status = "submitted", !.named = c, !.stale = b]
  BY <1>1
<1> QED BY <1>1, <1>2 DEF Job, Statuses

\* The row is touched, or left to go stale.
LEMMA JobTouched ==
  ASSUME job \in Job, NEW b \in BOOLEAN, job' = [job EXCEPT !.stale = b]
  PROVE  Moves(job.status)
BY DEF Job, Moves

LEMMA RetryCounted ==
  ASSUME job \in Job, CountRetry
  PROVE  /\ job' \in Job /\ job'.status = job.status /\ job'.named = job.named
         /\ job'.retries = IF job.retries < MaxRetries THEN job.retries + 1 ELSE job.retries
<1> DEFINE n == IF job.retries < MaxRetries THEN job.retries + 1 ELSE job.retries
<1>1. PICK b \in BOOLEAN : b = FALSE
  OBVIOUS
<1>2. n \in 0..MaxRetries
  BY BatchAssumption DEF Job
<1>3. job' = [job EXCEPT !.retries = n, !.stale = b]
  BY <1>1 DEF CountRetry
<1> HIDE DEF n
<1>4. job' \in Job /\ job'.status = job.status /\ job'.named = job.named /\ job'.retries = n
  BY <1>2, <1>3 DEF Job
<1> QED BY <1>4 DEF n

MoneyTyped ==
  /\ balance \in Nat /\ frozen \in Nat
  /\ effects \subseteq {"hold", "capture", "release"}
  /\ claims \subseteq {"hold", "capture", "release"}

LEMMA ReserveEffect ==
  ASSUME MoneyTyped, balance >= Hold, ReserveBalance
  PROVE  /\ MoneyTyped'
         /\ claims' = claims \cup {"hold"} /\ effects' = effects \cup {"hold"}
BY BatchAssumption DEF MoneyTyped, ReserveBalance

LEMMA CaptureEffect ==
  ASSUME MoneyTyped, CaptureBalance
  PROVE  /\ MoneyTyped' /\ claims' = claims \cup {"capture"}
         /\ \/ "capture" \in claims /\ UNCHANGED money
            \/ /\ "capture" \notin claims /\ effects' = effects \cup {"capture"}
               /\ \E cost \in 0..Hold : balance' = balance + Hold - cost
               /\ frozen' = frozen - Hold
<1>1. Cost \in 0..Hold /\ Hold \in Nat
  BY BatchAssumption
<1>2. CASE "capture" \in claims /\ UNCHANGED money
  BY <1>2 DEF MoneyTyped, money
<1>3. CASE "capture" \notin claims /\ ~UNCHANGED money
  <2>1. /\ frozen >= Hold
        /\ claims' = claims \cup {"capture"} /\ effects' = effects \cup {"capture"}
        /\ balance' = balance + Hold - Cost /\ frozen' = frozen - Hold
    BY <1>3 DEF CaptureBalance
  <2>2. balance' \in Nat /\ frozen' \in Nat
    BY <1>1, <2>1 DEF MoneyTyped
  <2>3. MoneyTyped'
    BY <2>1, <2>2 DEF MoneyTyped
  <2> QED BY <1>1, <1>3, <2>1, <2>3
<1> QED BY <1>2, <1>3 DEF CaptureBalance, money

\* A release, also one that fails, whether or not its commit is known.
Released == ReleaseBalance \/ UNCHANGED money

LEMMA ReleaseEffect ==
  ASSUME MoneyTyped, Released
  PROVE  /\ MoneyTyped'
         /\ claims' = claims \/ claims' = claims \cup {"release"}
         /\ \/ effects' = effects /\ balance' = balance /\ frozen' = frozen
            \/ /\ "hold" \in claims /\ "release" \notin claims
               /\ claims' = claims \cup {"release"} /\ effects' = effects \cup {"release"}
               /\ balance' = balance + Hold /\ frozen' = frozen - Hold
<1>1. CASE UNCHANGED money \/ (claims' = claims \cup {"release"} /\ UNCHANGED <<balance, frozen, effects>>)
  BY <1>1 DEF MoneyTyped, money
<1>2. CASE /\ "hold" \in claims /\ "release" \notin claims /\ frozen >= Hold
           /\ claims' = claims \cup {"release"} /\ effects' = effects \cup {"release"}
           /\ balance' = balance + Hold /\ frozen' = frozen - Hold
  <2>1. balance' \in Nat /\ frozen' \in Nat
    BY <1>2, BatchAssumption DEF MoneyTyped
  <2> QED BY <1>2, <2>1 DEF MoneyTyped
<1> QED BY <1>1, <1>2 DEF Released, ReleaseBalance

LEMMA ReleaseFailsEffect ==
  ASSUME faults \in 0..MaxFaults, ReleaseFails
  PROVE  Released /\ faults' \in 0..MaxFaults
BY FaultTyped DEF ReleaseFails, Released

\* What one script does to the queue; a worker that dies leaves its lock.
QueueOp ==
  \/ UNCHANGED queue
  \/ Enqueue \/ Reserve \/ RequeueAfter \/ Ack
  \/ MoveDueDelayedToReady \/ RecoverStaleActive
  \/ UNCHANGED <<ready, delayed, active, inflight>>
     /\ lock' \in Workers \cup {Unlocked, Orphaned}

LEMMA QueueKept ==
  ASSUME QueueTypeOK, InflightIsQueued, QueueOp
  PROVE  QueueTypeOK' /\ InflightIsQueued'
<1>1. QueueTypeOK'
  <2>1. CASE UNCHANGED queue
    BY <2>1, Zenon DEF QueueTypeOK, queue
  <2>2. CASE Enqueue
    BY <2>2 DEF QueueTypeOK, Enqueue
  <2>3. CASE Reserve
    BY <2>3 DEF QueueTypeOK, Reserve
  <2>4. CASE RequeueAfter
    BY <2>4 DEF QueueTypeOK, RequeueAfter
  <2>5. CASE Ack
    BY <2>5 DEF QueueTypeOK, Ack
  <2>6. CASE MoveDueDelayedToReady
    <3>1. ready' = ready + 1 /\ delayed' = FALSE /\ UNCHANGED <<active, inflight, lock>>
      BY <2>6, Zenon DEF MoveDueDelayedToReady
    <3>2. ready' \in Nat
      BY <3>1 DEF QueueTypeOK
    <3> QED BY <3>1, <3>2, Zenon DEF QueueTypeOK
  <2>7. CASE RecoverStaleActive
    <3>1. ready' = ready + 1 /\ active' = FALSE /\ UNCHANGED <<delayed, inflight, lock>>
      BY <2>7, Zenon DEF RecoverStaleActive
    <3>2. ready' \in Nat
      BY <3>1 DEF QueueTypeOK
    <3> QED BY <3>1, <3>2, Zenon DEF QueueTypeOK
  <2>8. CASE UNCHANGED <<ready, delayed, active, inflight>>
             /\ lock' \in Workers \cup {Unlocked, Orphaned}
    BY <2>8, Zenon DEF QueueTypeOK
  <2> QED BY <2>1, <2>2, <2>3, <2>4, <2>5, <2>6, <2>7, <2>8 DEF QueueOp
<1>2. CASE UNCHANGED <<ready, delayed, active, inflight>>
  <2>1. InflightIsQueued'
    BY <1>2, Zenon DEF InflightIsQueued, Queued
  <2> QED BY <1>1, <2>1
<1>3. CASE Enqueue /\ inflight
  <2>1. UNCHANGED <<ready, delayed, active>> /\ Queued
    BY <1>3, Zenon DEF Enqueue, InflightIsQueued
  <2>2. Queued'
    BY <2>1, Zenon DEF Queued
  <2> QED BY <1>1, <2>2 DEF InflightIsQueued
<1>4. CASE (Enqueue /\ ~inflight) \/ MoveDueDelayedToReady \/ RecoverStaleActive
  <2>1. ready' > 0
    BY <1>4 DEF Enqueue, MoveDueDelayedToReady, RecoverStaleActive, QueueTypeOK
  <2> QED BY <1>1, <2>1 DEF InflightIsQueued, Queued
<1>5. CASE Reserve \/ RequeueAfter \/ Ack
  <2>1. active' \/ delayed' \/ ~inflight'
    BY <1>5, Zenon DEF Reserve, RequeueAfter, Ack
  <2> QED BY <1>1, <2>1, Zenon DEF InflightIsQueued, Queued
<1>6. UNCHANGED queue => UNCHANGED <<ready, delayed, active, inflight>>
  BY DEF queue
<1> QED BY <1>1, <1>2, <1>3, <1>4, <1>5, <1>6 DEF QueueOp

\* A worker moves on, and no other does.
LEMMA GotoEffect ==
  ASSUME at \in [Workers -> WorkerPoints], NEW w \in Workers, NEW p \in WorkerPoints,
         Goto(w, p)
  PROVE  /\ at' \in [Workers -> WorkerPoints] /\ at'[w] = p
         /\ \A v \in Workers : v # w => at'[v] = at[v]
BY DEF Goto

-----------------------------------------------------------------------------
(* Types, and the de-duplication key of the queue *)

Typed == TypeOK /\ InflightIsQueued

\* What every action of the model does, as far as the types go.
LEMMA TypesKept ==
  ASSUME Typed, QueueOp, job' \in Job, MoneyTyped',
         provider' \in {"none", "running", "succeeded", "failed", "cancelled"},
         output' \in Outputs, served' \in BOOLEAN,
         submit' \in SubmitPoints, cancel' \in CancelPoints, recover' \in RecoverPoints, at' \in [Workers -> WorkerPoints],
         forgotten' \subseteq {"hold", "upstream", "results", "capture"},
         faults' \in 0..MaxFaults
  PROVE  Typed'
BY QueueKept DEF Typed, TypeOK, MoneyTyped

LEMMA TypedNow ==
  ASSUME Typed
  PROVE  /\ job \in Job /\ MoneyTyped /\ faults \in 0..MaxFaults
         /\ submit \in SubmitPoints /\ cancel \in CancelPoints /\ recover \in RecoverPoints
         /\ forgotten \subseteq {"hold", "upstream", "results", "capture"}
         /\ at \in [Workers -> WorkerPoints]
         /\ provider \in {"none", "running", "succeeded", "failed", "cancelled"}
         /\ output \in Outputs /\ served \in BOOLEAN
BY DEF Typed, TypeOK, MoneyTyped

\* The steps of a submission.
LEMMA SubmitTypes ==
  ASSUME Typed, CreateJob \/ SubmitStep \/ TouchSubmitting \/ SubmitCrashes
  PROVE  Typed'
<1> USE DEF SubmitPoints, outside
<1>1. CASE CreateJob
  BY TypedNow, <1>1, TypesKept, StatusSet DEF CreateJob, Moves, Statuses, QueueOp, money, MoneyTyped
<1>2. CASE ReserveHold
  BY TypedNow, <1>2, TypesKept, ReserveEffect DEF ReserveHold, QueueOp
<1>3. CASE ReserveFails
  <2>1. MoneyTyped' /\ forgotten' \subseteq {"hold", "upstream", "results", "capture"}
    BY TypedNow, <1>3, ReserveEffect DEF ReserveFails, money, MoneyTyped, Forget
  <2>2. faults' \in 0..MaxFaults
    BY TypedNow, <1>3, FaultTyped DEF ReserveFails
  <2> QED BY TypedNow, <1>3, <2>1, <2>2, TypesKept DEF ReserveFails, QueueOp
<1>4. CASE GiveUp
  <2>1. job' \in Job /\ faults' \in 0..MaxFaults
    BY TypedNow, <1>4, GaveUp, FaultTyped DEF GiveUp, Moves
  <2> QED BY TypedNow, <1>4, <2>1, TypesKept DEF GiveUp, QueueOp, money, MoneyTyped
<1>5. CASE CreatePendingItems
  BY TypedNow, <1>5, TypesKept, FaultTyped DEF CreatePendingItems, QueueOp, money, MoneyTyped
<1>6. CASE TransitionUploading
  BY TypedNow, <1>6, TypesKept, FaultTyped, StatusSet
     DEF TransitionUploading, Moves, Statuses, QueueOp, money, MoneyTyped
<1>7. CASE ProviderSubmit
  BY TypedNow, <1>7, TypesKept, FaultTyped DEF ProviderSubmit, QueueOp, money, MoneyTyped, Forget
<1>8. CASE UpdateProviderSubmit
  BY TypedNow, <1>8, TypesKept, FaultTyped, JobNamed
     DEF UpdateProviderSubmit, QueueOp, money, MoneyTyped, Forget
<1>9. CASE AbortOrphanProviderJob
  BY TypedNow, <1>9, TypesKept, FaultTyped
     DEF AbortOrphanProviderJob, QueueOp, money, MoneyTyped, Forget
<1>10. CASE EnqueueSubmitted
  BY TypedNow, <1>10, TypesKept, FaultTyped
     DEF EnqueueSubmitted, QueueOp, money, MoneyTyped, Forget
<1>11. CASE ReleaseFailedSubmit
  <2>1. Released /\ faults' \in 0..MaxFaults
    BY TypedNow, <1>11, ReleaseFailsEffect DEF ReleaseFailedSubmit, Released
  <2> QED BY TypedNow, <1>11, <2>1, TypesKept, ReleaseEffect DEF ReleaseFailedSubmit, QueueOp
<1>12. CASE RecordReleaseFailed
  BY TypedNow, <1>12, TypesKept, StatusSet, FaultTyped
     DEF RecordReleaseFailed, Moves, Statuses, QueueOp, money, MoneyTyped
<1>13. CASE EnqueueBillingRetry
  BY TypedNow, <1>13, TypesKept DEF EnqueueBillingRetry, QueueOp, money, MoneyTyped
<1>14. CASE TouchSubmitting
  <2>1. job' \in Job
    BY TypedNow, <1>14, JobTouched DEF TouchSubmitting, Moves
  <2> QED BY TypedNow, <1>14, <2>1, TypesKept DEF TouchSubmitting, QueueOp, money, MoneyTyped
<1>15. CASE SubmitCrashes
  BY TypedNow, <1>15, TypesKept, FaultTyped DEF SubmitCrashes, QueueOp, money, MoneyTyped, Forget
<1> QED BY <1>1, <1>2, <1>3, <1>4, <1>5, <1>6, <1>7, <1>8, <1>9, <1>10, <1>11, <1>12, <1>13,
           <1>14, <1>15 DEF SubmitStep

\* The steps of a cancellation, of a retry of the submission, and of the sweep.
LEMMA CancelTypes ==
  ASSUME Typed, Resubmit \/ CancelRequested \/ CancelStep \/ CancelCrashes
  PROVE  Typed'
<1> USE DEF CancelPoints, outside
<1>1. CASE Resubmit
  BY TypedNow, <1>1, TypesKept DEF Resubmit, QueueOp, money, MoneyTyped
<1>2. CASE CancelRequested
  BY TypedNow, <1>2, TypesKept DEF CancelRequested, QueueOp, money, MoneyTyped
<1>3. CASE CancelAtProvider
  BY TypedNow, <1>3, TypesKept DEF CancelAtProvider, QueueOp, money, MoneyTyped
<1>4. CASE CancelEnqueues
  BY TypedNow, <1>4, TypesKept DEF CancelEnqueues, QueueOp, money, MoneyTyped
<1>5. CASE CancelTransition
  BY TypedNow, <1>5, TypesKept, StatusSet
     DEF CancelTransition, Moves, Statuses, QueueOp, money, MoneyTyped, Forget
<1>6. CASE CancelReleases
  <2>1. Released /\ faults' \in 0..MaxFaults
    BY TypedNow, <1>6, ReleaseFailsEffect DEF CancelReleases, Released
  <2> QED BY TypedNow, <1>6, <2>1, TypesKept, ReleaseEffect DEF CancelReleases, QueueOp
<1>7. CASE CancelCrashes
  BY TypedNow, <1>7, TypesKept, FaultTyped DEF CancelCrashes, QueueOp, money, MoneyTyped, Forget
<1> QED BY <1>1, <1>2, <1>3, <1>4, <1>5, <1>6, <1>7 DEF CancelStep

LEMMA RecoverTypes ==
  ASSUME Typed, JobGoesStale \/ RecoverStep \/ RecoverCrashes
  PROVE  Typed'
<1> USE DEF RecoverPoints, outside
<1>1. CASE JobGoesStale
  <2>1. PICK b \in BOOLEAN : b = TRUE
    OBVIOUS
  <2>2. job' \in Job
    BY TypedNow, <1>1, <2>1, JobTouched DEF JobGoesStale, Moves
  <2> QED BY TypedNow, <1>1, <2>2, TypesKept, FaultTyped DEF JobGoesStale, QueueOp, money, MoneyTyped
<1>2. CASE FailStaleUnsubmitted
  BY TypedNow, <1>2, TypesKept, StatusSet
     DEF FailStaleUnsubmitted, Moves, Statuses, QueueOp, money, MoneyTyped
<1>3. CASE RecoverReleases
  <2>1. Released /\ faults' \in 0..MaxFaults
    BY TypedNow, <1>3, ReleaseFailsEffect DEF RecoverReleases, Released
  <2> QED BY TypedNow, <1>3, <2>1, TypesKept, ReleaseEffect DEF RecoverReleases, QueueOp
<1>4. CASE RecoverEnqueues
  BY TypedNow, <1>4, TypesKept DEF RecoverEnqueues, QueueOp, money, MoneyTyped
<1>5. CASE RecoverCrashes
  BY TypedNow, <1>5, TypesKept, FaultTyped DEF RecoverCrashes, QueueOp, money, MoneyTyped, Forget
<1> QED BY <1>1, <1>2, <1>3, <1>4, <1>5 DEF RecoverStep

\* The steps of a worker.
LEMMA WorkerTypes ==
  ASSUME Typed, NEW w \in Workers, WorkerStep(w) \/ StepFails(w) \/ WorkerCrashes(w)
  PROVE  Typed'
<1> USE DEF clients, outside
<1>1. CASE ReserveJob(w)
  BY TypedNow, <1>1, TypesKept, GotoEffect
     DEF ReserveJob, QueueOp, money, MoneyTyped, WorkerPoints
<1>2. CASE LockJob(w)
  BY TypedNow, <1>2, TypesKept, GotoEffect
     DEF LockJob, TryAcquireJobLock, QueueOp, money, MoneyTyped, WorkerPoints
<1>3. CASE LockConflict(w)
  BY TypedNow, <1>3, TypesKept, GotoEffect, FaultTyped
     DEF LockConflict, QueueOp, money, MoneyTyped, WorkerPoints
<1>4. CASE Unlock(w)
  <2>1. QueueOp
    BY <1>4 DEF Unlock, ReleaseJobLock, QueueOp, Typed, TypeOK, QueueTypeOK
  <2> QED BY TypedNow, <1>4, <2>1, TypesKept, GotoEffect
             DEF Unlock, money, MoneyTyped, WorkerPoints
<1>5. CASE Load(w)
  BY TypedNow, <1>5, TypesKept, GotoEffect DEF Load, QueueOp, money, MoneyTyped, WorkerPoints
<1>6. CASE Process(w)
  BY TypedNow, <1>6, TypesKept, GotoEffect
     DEF Process, Again, Finished, Forget, QueueOp, money, MoneyTyped, WorkerPoints
<1>7. CASE Poll(w)
  <2>1. QueueOp /\ at' \in [Workers -> WorkerPoints]
    BY TypedNow, <1>7, GotoEffect DEF Poll, Again, QueueOp, WorkerPoints
  <2> QED BY TypedNow, <1>7, <2>1, TypesKept DEF Poll, money, MoneyTyped
<1>8. CASE Transition(w)
  <2>1. QueueOp /\ at' \in [Workers -> WorkerPoints]
    BY TypedNow, <1>8, GotoEffect DEF Transition, Again, QueueOp, WorkerPoints
  <2>2. job' \in Job
    BY TypedNow, <1>8, StatusSet DEF Transition, Statuses, Moves
  <2> QED BY TypedNow, <1>8, <2>1, <2>2, TypesKept DEF Transition, money, MoneyTyped, Forget
<1>9. CASE Index(w)
  <2>1. QueueOp /\ at' \in [Workers -> WorkerPoints]
    BY TypedNow, <1>9, GotoEffect DEF Index, Again, QueueOp, WorkerPoints
  <2> QED BY TypedNow, <1>9, <2>1, TypesKept, FaultTyped DEF Index, money, MoneyTyped
<1>10. CASE ReleaseTerminal(w)
  <2>1. Released /\ faults' \in 0..MaxFaults
    BY TypedNow, <1>10, ReleaseFailsEffect DEF ReleaseTerminal, Released
  <2>2. QueueOp /\ at' \in [Workers -> WorkerPoints]
    BY TypedNow, <1>10, GotoEffect DEF ReleaseTerminal, Again, Finished, QueueOp, WorkerPoints
  <2> QED BY TypedNow, <1>10, <2>1, <2>2, TypesKept, ReleaseEffect DEF ReleaseTerminal
<1>11. CASE Settle(w)
  <2>1. QueueOp /\ at' \in [Workers -> WorkerPoints]
    BY TypedNow, <1>11, GotoEffect DEF Settle, Again, Finished, QueueOp, WorkerPoints
  <2> QED BY TypedNow, <1>11, <2>1, TypesKept DEF Settle, money, MoneyTyped
<1>12. CASE Capture(w)
  <2>1. QueueOp /\ at' \in [Workers -> WorkerPoints]
    BY TypedNow, <1>12, GotoEffect DEF Capture, QueueOp, WorkerPoints
  <2>2. MoneyTyped' /\ faults' \in 0..MaxFaults
    BY TypedNow, <1>12, CaptureEffect, FaultTyped DEF Capture, money, MoneyTyped
  <2> QED BY TypedNow, <1>12, <2>1, <2>2, TypesKept DEF Capture
<1>13. CASE RecordFailure(w)
  <2>1. QueueOp /\ at' \in [Workers -> WorkerPoints]
    BY TypedNow, <1>13, GotoEffect DEF RecordFailure, Again, QueueOp, WorkerPoints
  <2>2. job' \in Job /\ faults' \in 0..MaxFaults
    BY TypedNow, <1>13, RetryCounted, FaultTyped DEF RecordFailure
  <2> QED BY TypedNow, <1>13, <2>1, <2>2, TypesKept DEF RecordFailure, money, MoneyTyped, Forget
<1>14. CASE Exhaust(w)
  <2>1. QueueOp /\ at' \in [Workers -> WorkerPoints]
    BY TypedNow, <1>14, GotoEffect DEF Exhaust, Again, QueueOp, WorkerPoints
  <2>2. Released /\ job' \in Job /\ faults' \in 0..MaxFaults
    BY TypedNow, <1>14, ReleaseFailsEffect, RetryCounted DEF Exhaust, Released
  <2> QED BY TypedNow, <1>14, <2>1, <2>2, TypesKept, ReleaseEffect DEF Exhaust
<1>15. CASE FailExhausted(w)
  <2>1. QueueOp /\ at' \in [Workers -> WorkerPoints]
    BY TypedNow, <1>15, GotoEffect DEF FailExhausted, Again, Finished, QueueOp, WorkerPoints
  <2>2. job' \in Job
    BY TypedNow, <1>15, StatusSet DEF FailExhausted, Statuses, Moves
  <2> QED BY TypedNow, <1>15, <2>1, <2>2, TypesKept DEF FailExhausted, money, MoneyTyped
<1>16. CASE MarkSettled(w)
  <2>1. QueueOp /\ at' \in [Workers -> WorkerPoints]
    BY TypedNow, <1>16, GotoEffect DEF MarkSettled, Again, Finished, QueueOp, WorkerPoints
  <2>2. job' \in Job /\ faults' \in 0..MaxFaults
    BY TypedNow, <1>16, StatusSet, FaultTyped DEF MarkSettled, Statuses, Moves
  <2> QED BY TypedNow, <1>16, <2>1, <2>2, TypesKept DEF MarkSettled, money, MoneyTyped
<1>17. CASE StepFails(w)
  BY TypedNow, <1>17, TypesKept, GotoEffect, FaultTyped
     DEF StepFails, Again, QueueOp, money, MoneyTyped, WorkerPoints
<1>18. CASE WorkerCrashes(w)
  <2>1. QueueOp
    BY <1>18 DEF WorkerCrashes, QueueOp, Typed, TypeOK, QueueTypeOK
  <2> QED BY TypedNow, <1>18, <2>1, TypesKept, GotoEffect, FaultTyped
             DEF WorkerCrashes, money, MoneyTyped, WorkerPoints
<1> QED BY <1>1, <1>2, <1>3, <1>4, <1>5, <1>6, <1>7, <1>8, <1>9, <1>10, <1>11, <1>12, <1>13,
           <1>14, <1>15, <1>16, <1>17, <1>18 DEF WorkerStep

\* Time and the provider.
LEMMA TimeTypes ==
  ASSUME Typed, ProviderEnds \/ AccountLeaves \/ DelayedDue \/ ActiveStale \/ JobLockLapses
  PROVE  Typed'
<1> USE DEF clients, outside
<1>1. CASE ProviderEnds
  BY TypedNow, <1>1, TypesKept DEF ProviderEnds, QueueOp, money, MoneyTyped
<1>5. CASE AccountLeaves
  BY TypedNow, <1>5, TypesKept DEF AccountLeaves, QueueOp, money, MoneyTyped
<1>2. CASE DelayedDue
  BY TypedNow, <1>2, TypesKept DEF DelayedDue, QueueOp, money, MoneyTyped
<1>3. CASE ActiveStale
  BY TypedNow, <1>3, TypesKept, FaultTyped DEF ActiveStale, QueueOp, money, MoneyTyped
<1>4. CASE JobLockLapses
  BY TypedNow, <1>4, TypesKept, FaultTyped
     DEF JobLockLapses, LockLapses, Forget, QueueOp, money, MoneyTyped
<1> QED BY <1>1, <1>2, <1>3, <1>4, <1>5

LEMMA TypesNext == Typed /\ [Next]_vars => Typed'
<1> SUFFICES ASSUME Typed, [Next]_vars PROVE Typed'
  OBVIOUS
<1>1. CASE UNCHANGED vars
  BY TypedNow, <1>1, TypesKept DEF vars, outside, QueueOp, money, MoneyTyped
<1> QED BY <1>1, SubmitTypes, CancelTypes, RecoverTypes, WorkerTypes, TimeTypes DEF Next

LEMMA TypesInit == Init => Typed
<1> SUFFICES ASSUME Init PROVE Typed
  OBVIOUS
<1>1. QueueTypeOK /\ InflightIsQueued
  BY DEF Init, QueueInit, QueueTypeOK, InflightIsQueued
<1>2. PICK b \in BOOLEAN : b = FALSE
  OBVIOUS
<1>3. job \in Job
  <2>1. job = [status |-> "none", named |-> b, stale |-> b, retries |-> 0, hidden |-> b]
    BY <1>2 DEF Init
  <2> QED BY <2>1, BatchAssumption DEF Job, Statuses
<1>4. MoneyTyped /\ faults \in 0..MaxFaults
  BY BatchAssumption DEF Init, MoneyTyped
<1>5. at \in [Workers -> WorkerPoints]
  BY DEF Init, WorkerPoints
<1> QED BY <1>1, <1>3, <1>4, <1>5
        DEF Init, Typed, TypeOK, MoneyTyped, SubmitPoints, CancelPoints, RecoverPoints, Outputs

-----------------------------------------------------------------------------
(* The claims, the row, the provider, and what the workers have seen of them *)

Base == ClaimsInv /\ RowInv /\ ProviderInv

\* What nobody takes back.
Kept ==
  /\ job.named => job'.named
  /\ job.status \in Dead => job'.status \in Dead
  /\ job.named /\ provider # "running" => provider' = provider

\* A step that writes nothing the parts of Base are about.
LEMMA BaseFrame ==
  ASSUME Base, job'.status = job.status, job'.named = job.named,
         UNCHANGED <<money, provider, submit, cancel, recover>>,
         forgotten \subseteq forgotten'
  PROVE  Base' /\ Kept
BY DEF Base, ClaimsInv, RowInv, ProviderInv, Kept, money

\* Whoever does not move still sees what it saw.
LEMMA SeenKept ==
  ASSUME Kept, NEW v \in Workers, Seen(v), at'[v] = at[v]
  PROVE  Seen(v)'
BY DEF Kept, Seen, PollPoints

\* A submission.
LEMMA SubmitBase ==
  ASSUME Typed, Base, CreateJob \/ SubmitStep \/ TouchSubmitting \/ SubmitCrashes
  PROVE  Base' /\ Kept
<1> USE DEF Base, ClaimsInv, RowInv, ProviderInv, Kept, Early, Dead, Late, Unsubmitted, Advancing
<1>1. CASE CreateJob
  BY TypedNow, <1>1, StatusSet DEF CreateJob, Moves, Statuses, money
<1>2. CASE ReserveHold
  BY TypedNow, <1>2, ReserveEffect DEF ReserveHold
<1>3. CASE ReserveFails
  BY TypedNow, <1>3, ReserveEffect DEF ReserveFails, money, Forget
<1>4. CASE GiveUp
  BY TypedNow, <1>4, GaveUp DEF GiveUp, Moves, money
<1>5. CASE CreatePendingItems
  BY <1>5 DEF CreatePendingItems, money
<1>6. CASE TransitionUploading
  BY TypedNow, <1>6, StatusSet DEF TransitionUploading, Moves, Statuses, money, CanTransition, Terminal
<1>7. CASE ProviderSubmit
  BY <1>7 DEF ProviderSubmit, money, Forget
<1>8. CASE UpdateProviderSubmit
  BY TypedNow, <1>8, JobNamed DEF UpdateProviderSubmit, money, Forget, CanTransition, Terminal
<1>9. CASE AbortOrphanProviderJob
  BY <1>9 DEF AbortOrphanProviderJob, money, Forget
<1>10. CASE EnqueueSubmitted
  BY <1>10 DEF EnqueueSubmitted, money, Forget
<1>11. CASE ReleaseFailedSubmit
  <2>1. Released
    BY TypedNow, <1>11, ReleaseFailsEffect DEF ReleaseFailedSubmit, Released
  <2> QED BY TypedNow, <1>11, <2>1, ReleaseEffect DEF ReleaseFailedSubmit
<1>12. CASE RecordReleaseFailed
  BY TypedNow, <1>12, StatusSet DEF RecordReleaseFailed, Moves, Statuses, money
<1>13. CASE EnqueueBillingRetry
  BY <1>13 DEF EnqueueBillingRetry, money
<1>14. CASE TouchSubmitting
  <2>1. Moves(job.status)
    BY TypedNow, <1>14, JobTouched DEF TouchSubmitting
  <2> QED BY <1>14, <2>1, BaseFrame DEF TouchSubmitting, Moves
<1>15. CASE SubmitCrashes
  BY <1>15 DEF SubmitCrashes, money, Forget
<1> QED BY <1>1, <1>2, <1>3, <1>4, <1>5, <1>6, <1>7, <1>8, <1>9, <1>10, <1>11, <1>12, <1>13,
           <1>14, <1>15 DEF SubmitStep

\* A cancellation, and a retry of the submission.
LEMMA CancelBase ==
  ASSUME Typed, Base, Resubmit \/ CancelRequested \/ CancelStep \/ CancelCrashes
  PROVE  Base' /\ Kept
<1> USE DEF Base, ClaimsInv, RowInv, ProviderInv, Kept, Early, Dead, Late, Unsubmitted, Advancing
<1>1. CASE Resubmit
  BY <1>1, BaseFrame DEF Resubmit
<1>2. CASE CancelRequested
  BY <1>2 DEF CancelRequested, money, Terminal
<1>3. CASE CancelAtProvider
  BY <1>3 DEF CancelAtProvider, money
<1>4. CASE CancelEnqueues
  BY <1>4 DEF CancelEnqueues, money
<1>5. CASE CancelTransition
  BY TypedNow, <1>5, StatusSet
     DEF CancelTransition, Moves, Statuses, money, Forget, CanTransition, Terminal
<1>6. CASE CancelReleases
  <2>1. Released
    BY TypedNow, <1>6, ReleaseFailsEffect DEF CancelReleases, Released
  <2> QED BY TypedNow, <1>6, <2>1, ReleaseEffect DEF CancelReleases
<1>7. CASE CancelCrashes
  BY <1>7 DEF CancelCrashes, money, Forget
<1> QED BY <1>1, <1>2, <1>3, <1>4, <1>5, <1>6, <1>7 DEF CancelStep

\* The sweep, time and the provider.
LEMMA RecoverBase ==
  ASSUME Typed, Base,
         \/ JobGoesStale \/ RecoverStep \/ RecoverCrashes
         \/ ProviderEnds \/ AccountLeaves \/ DelayedDue \/ ActiveStale \/ JobLockLapses
  PROVE  Base' /\ Kept
<1> USE DEF Base, ClaimsInv, RowInv, ProviderInv, Kept, Early, Dead, Late, Unsubmitted, Advancing,
            clients
<1>1. CASE JobGoesStale
  <2>1. PICK b \in BOOLEAN : b = TRUE
    OBVIOUS
  <2>2. Moves(job.status)
    BY TypedNow, <1>1, <2>1, JobTouched DEF JobGoesStale
  <2> QED BY <1>1, <2>2, BaseFrame DEF JobGoesStale, Moves
<1>2. CASE FailStaleUnsubmitted
  BY TypedNow, <1>2, StatusSet DEF FailStaleUnsubmitted, Moves, Statuses, money
<1>3. CASE RecoverReleases
  <2>1. Released
    BY TypedNow, <1>3, ReleaseFailsEffect DEF RecoverReleases, Released
  <2> QED BY TypedNow, <1>3, <2>1, ReleaseEffect DEF RecoverReleases
<1>4. CASE RecoverEnqueues
  BY <1>4 DEF RecoverEnqueues, money
<1>5. CASE RecoverCrashes
  BY <1>5 DEF RecoverCrashes, money, Forget
<1>6. CASE ProviderEnds
  BY <1>6 DEF ProviderEnds, money
<1>7. CASE AccountLeaves \/ DelayedDue \/ ActiveStale \/ JobLockLapses
  BY <1>7, BaseFrame DEF AccountLeaves, DelayedDue, ActiveStale, JobLockLapses
<1> QED BY <1>1, <1>2, <1>3, <1>4, <1>5, <1>6, <1>7 DEF RecoverStep

-----------------------------------------------------------------------------
(* What a step of a worker does *)

\* w is at another point, and the other workers are where they were.
Moved(w, p) ==
  /\ at' \in [Workers -> WorkerPoints] /\ at'[w] = p
  /\ \A v \in Workers : v # w => at'[v] = at[v]

LEMMA MoveEffect ==
  ASSUME Typed, NEW w \in Workers, NEW p \in WorkerPoints, Goto(w, p)
  PROVE  Moved(w, p)
BY TypedNow, GotoEffect DEF Moved

\* The rest of the server is as it was.
Alone ==
  /\ UNCHANGED <<provider, submit, cancel, recover>>
  /\ forgotten \subseteq forgotten'

\* The steps that write neither the row nor the ledger.
Looks(w) ==
  \/ ReserveJob(w) \/ LockJob(w) \/ LockConflict(w) \/ Unlock(w)
  \/ Load(w) \/ Process(w) \/ Poll(w) \/ Index(w) \/ Settle(w)
  \/ StepFails(w) \/ WorkerCrashes(w)

LEMMA LooksEffect ==
  ASSUME Typed, NEW w \in Workers, Looks(w)
  PROVE  /\ UNCHANGED <<job, money>> /\ Alone
         /\ \/ \E p \in {"idle", "lock", "load", "process", "unlock"} : Moved(w, p)
            \/ Moved(w, "settle") /\ at[w] = "load" /\ job.status = "settling"
            \/ Moved(w, "release") /\ at[w] = "process" /\ job.status \in Dead
            \/ Moved(w, "index") /\ at[w] = "process" /\ job.status = "indexing" /\ job.named
            \/ Moved(w, "poll") /\ at[w] = "process" /\ job.named
               /\ job.status \in {"submitted", "running"}
            \/ Moved(w, "running") /\ at[w] = "poll"
            \/ Moved(w, "indexing") /\ at[w] = "poll" /\ provider = "succeeded"
            \/ Moved(w, provider) /\ at[w] = "poll" /\ provider \in {"failed", "cancelled"}
            \/ Moved(w, "failed") /\ at[w] = "index"
            \/ Moved(w, "settling") /\ at[w] = "index"
            \/ /\ at[w] = "settle" /\ job.status = "settling"
               /\ \/ Moved(w, "exhaust") /\ Exhausted
                  \/ Moved(w, "record")
                  \/ Moved(w, "capture") /\ ~Exhausted
<1> USE DEF clients, Alone, WorkerPoints
<1>1. CASE ReserveJob(w)
  BY <1>1, MoveEffect DEF ReserveJob
<1>2. CASE LockConflict(w)
  BY <1>2, MoveEffect DEF LockConflict
<1>3. CASE Load(w)
  BY <1>3, MoveEffect DEF Load
<1>4. CASE Process(w)
  <2>1. at[w] = "process" /\ UNCHANGED <<job, money>> /\ Alone
    BY <1>4 DEF Process, Forget
  <2>2. \/ Goto(w, "release") /\ job.status \in Dead
        \/ Goto(w, "unlock")
        \/ Goto(w, "index") /\ job.status = "indexing" /\ job.named
        \/ Goto(w, "poll") /\ job.status \in {"submitted", "running"} /\ job.named
    BY <1>4 DEF Process, Again, Finished, Dead
  <2> QED BY <2>1, <2>2, MoveEffect
<1>5. CASE Poll(w)
  BY <1>5, MoveEffect DEF Poll, Again
<1>6. CASE Index(w)
  BY <1>6, MoveEffect DEF Index, Again
<1>7. CASE Settle(w)
  <2>1. at[w] = "settle" /\ UNCHANGED <<job, money>> /\ Alone
    BY <1>7 DEF Settle
  <2>2. job.retries \in 0..MaxRetries /\ MaxRetries \in Nat
    BY TypedNow, BatchAssumption DEF Job
  <2>3. \/ Goto(w, "unlock")
        \/ /\ job.status = "settling"
           /\ \/ Goto(w, "exhaust") /\ Exhausted
              \/ Goto(w, "record")
              \/ Goto(w, "capture") /\ ~Exhausted
    <3>1. CASE job.status # "settling"
      BY <1>7, <3>1 DEF Settle, Again, Finished
    <3>2. CASE job.status = "settling"
      <4>1. Goto(w, CASE job.retries = MaxRetries -> "exhaust"
                      [] job.retries < MaxRetries /\ output = "dear" -> "record"
                      [] OTHER -> "capture")
        BY <1>7, <3>2 DEF Settle
      <4>2. CASE job.retries = MaxRetries
        BY <2>2, <3>2, <4>1, <4>2 DEF Exhausted
      <4>3. CASE job.retries < MaxRetries /\ output = "dear"
        BY <2>2, <3>2, <4>1, <4>3
      <4>4. CASE job.retries < MaxRetries /\ output # "dear"
        BY <2>2, <3>2, <4>1, <4>4 DEF Exhausted
      <4> QED BY <2>2, <4>2, <4>3, <4>4
    <3> QED BY <3>1, <3>2
  <2> QED BY <2>1, <2>3, MoveEffect
<1>8. CASE StepFails(w)
  BY <1>8, MoveEffect DEF StepFails, Again
<1>9. CASE LockJob(w) \/ Unlock(w) \/ WorkerCrashes(w)
  BY <1>9, MoveEffect DEF LockJob, Unlock, WorkerCrashes
<1> QED BY <1>1, <1>2, <1>3, <1>4, <1>5, <1>6, <1>7, <1>8, <1>9 DEF Looks

\* The steps that write the row or move money.
LEMMA TransitionEffect ==
  ASSUME Typed, NEW w \in Workers, Transition(w)
  PROVE  /\ UNCHANGED money /\ Alone
         /\ at[w] \in {"running", "indexing", "failed", "cancelled", "settling"}
         /\ \/ job' = job /\ Moved(w, "unlock")
            \/ /\ CanTransition(job.status, at[w]) /\ Moves(at[w])
               /\ at[w] = "failed" /\ job.status = "settling" => "results" \in forgotten'
               /\ \/ Moved(w, "release") /\ at[w] \in Dead
                  \/ Moved(w, "index") /\ at[w] = "indexing"
                  \/ Moved(w, "unlock") /\ at[w] \in {"running", "settling"}
<1>1. /\ UNCHANGED money /\ Alone
      /\ at[w] \in {"running", "indexing", "failed", "cancelled", "settling"}
  BY DEF Transition, clients, Alone, Forget
<1>2. \/ job' = job /\ Goto(w, "unlock")
      \/ /\ CanTransition(job.status, at[w]) /\ SetStatus(at[w])
         /\ at[w] = "failed" /\ job.status = "settling" => "results" \in forgotten'
         /\ \/ Goto(w, "release") /\ at[w] \in Dead
            \/ Goto(w, "index") /\ at[w] = "indexing"
            \/ Goto(w, "unlock") /\ at[w] \in {"running", "settling"}
  BY DEF Transition, Again, Dead, Forget
<1>3. at[w] \in Statuses
  BY <1>1 DEF Statuses
<1> QED BY TypedNow, <1>1, <1>2, <1>3, MoveEffect, StatusSet DEF WorkerPoints

LEMMA ReleaseTerminalEffect ==
  ASSUME Typed, NEW w \in Workers, ReleaseTerminal(w)
  PROVE  job' = job /\ Released /\ Alone /\ at[w] = "release" /\ Moved(w, "unlock")
<1>1. Released
  BY TypedNow, ReleaseFailsEffect DEF ReleaseTerminal, Released
<1> QED BY <1>1, MoveEffect DEF ReleaseTerminal, Again, Finished, clients, Alone, WorkerPoints

LEMMA CaptureStepEffect ==
  ASSUME Typed, NEW w \in Workers, Capture(w)
  PROVE  /\ job' = job /\ Alone /\ at[w] = "capture"
         /\ CaptureBalance \/ UNCHANGED money
         /\ (Moved(w, "mark") /\ CaptureBalance) \/ Moved(w, "record")
BY MoveEffect DEF Capture, clients, Alone, WorkerPoints, Moved

LEMMA RecordFailureEffect ==
  ASSUME Typed, NEW w \in Workers, RecordFailure(w)
  PROVE  /\ UNCHANGED money /\ Alone /\ at[w] = "record"
         /\ job' = job \/ CountRetry
         /\ Exhausted' /\ CaptureUnderWay => "capture" \in forgotten'
         /\ \/ Moved(w, "exhaust") /\ Exhausted'
            \/ Moved(w, "unlock")
BY MoveEffect DEF RecordFailure, Again, Forget, clients, Alone, WorkerPoints, Exhausted

LEMMA ExhaustEffect ==
  ASSUME Typed, NEW w \in Workers, Exhaust(w)
  PROVE  /\ Released /\ Alone /\ at[w] = "exhaust"
         /\ job' = job \/ CountRetry
         /\ \/ Moved(w, "exhausted") /\ job' = job
            \/ Moved(w, "unlock")
<1>1. Released
  BY TypedNow, ReleaseFailsEffect DEF Exhaust, Released
<1> QED BY <1>1, MoveEffect DEF Exhaust, Again, clients, Alone, WorkerPoints

LEMMA FailExhaustedEffect ==
  ASSUME Typed, NEW w \in Workers, FailExhausted(w)
  PROVE  /\ UNCHANGED money /\ Alone /\ at[w] = "exhausted" /\ Moved(w, "unlock")
         /\ job' = job \/ (Moves("failed") /\ CanTransition(job.status, "failed"))
<1>1. job' = job \/ (Moves("failed") /\ CanTransition(job.status, "failed"))
  BY TypedNow, StatusSet DEF FailExhausted, Statuses
<1> QED BY <1>1, MoveEffect DEF FailExhausted, Again, Finished, clients, Alone, WorkerPoints

LEMMA MarkSettledEffect ==
  ASSUME Typed, NEW w \in Workers, MarkSettled(w)
  PROVE  /\ UNCHANGED money /\ Alone /\ at[w] = "mark" /\ Moved(w, "unlock")
         /\ job' = job \/ (Moves("completed") /\ job.status = "settling")
<1>1. job' = job \/ (Moves("completed") /\ job.status = "settling")
  BY TypedNow, StatusSet DEF MarkSettled, Statuses
<1> QED BY <1>1, MoveEffect DEF MarkSettled, Again, Finished, clients, Alone, WorkerPoints

Writes(w) ==
  \/ Transition(w) \/ ReleaseTerminal(w) \/ Capture(w) \/ RecordFailure(w) \/ Exhaust(w)
  \/ FailExhausted(w) \/ MarkSettled(w)

\* These are all the steps of a worker.
LEMMA WorkerSteps ==
  ASSUME NEW w \in Workers, WorkerStep(w) \/ StepFails(w) \/ WorkerCrashes(w)
  PROVE  Looks(w) \/ Writes(w)
BY DEF WorkerStep, Looks, Writes

\* Every step of a worker keeps Base, and what it goes on with it has seen.
LEMMA WorkerBase ==
  ASSUME Typed, Base, \A v \in Workers : Seen(v), NEW w \in Workers,
         WorkerStep(w) \/ StepFails(w) \/ WorkerCrashes(w)
  PROVE  Base' /\ Kept /\ \A v \in Workers : Seen(v)'
<1> SUFFICES Base' /\ Kept /\ Seen(w)' /\ \A v \in Workers : v # w => at'[v] = at[v]
  BY SeenKept
<1> USE DEF PollPoints, IndexPoints, SettlePoints
<1>1. CASE Looks(w)
  <2>1. Base' /\ Kept
    BY <1>1, LooksEffect, BaseFrame DEF Alone
  <2>2. UNCHANGED <<job, provider>> /\ Seen(w)
    BY <1>1, LooksEffect DEF Alone
  <2>3. job.status = "settling" => job.named /\ provider = "succeeded"
    BY DEF Base, RowInv, ProviderInv, Early, Dead, Late
  <2>4. job.status = "indexing" => provider = "succeeded"
    BY DEF Base, ProviderInv, Late
  <2>5. Seen(w)' /\ \A v \in Workers : v # w => at'[v] = at[v]
    BY <1>1, <2>2, <2>3, <2>4, LooksEffect DEF Seen, Moved
  <2> QED BY <2>1, <2>5
<1>3. CASE Transition(w)
  <2>1. CASE job' = job /\ Moved(w, "unlock")
    BY <1>3, <2>1, TransitionEffect, BaseFrame DEF Alone, Moved, Seen
  <2>2. CASE CanTransition(job.status, at[w]) /\ Moves(at[w])
    <3>1. UNCHANGED <<claims, effects, provider, submit, cancel, recover>>
          /\ forgotten \subseteq forgotten'
      BY <1>3, TransitionEffect DEF Alone, money
    <3>2. job.named /\ job'.named /\ job'.status = at[w] /\ job.status \notin Terminal
          /\ at[w] \in {"running", "indexing", "failed", "cancelled", "settling"}
      BY <1>3, <2>2, TransitionEffect DEF Seen, Moves, CanTransition, Terminal, Base, RowInv
    <3>3. at[w] \in {"failed", "cancelled"} => provider # "running"
      BY DEF Seen
    <3>4. at[w] \in {"indexing", "settling"} => provider = "succeeded"
      BY DEF Seen
    <3>5. Base' /\ Kept
      BY <3>1, <3>2, <3>3, <3>4
         DEF Base, ClaimsInv, RowInv, ProviderInv, Kept, Unsubmitted, Advancing, Early, Dead, Late,
             Terminal
    <3>6. Seen(w)'
      BY <1>3, <2>2, <3>1, <3>2, <3>4, TransitionEffect DEF Moved, Seen
    <3> QED BY <1>3, <3>5, <3>6, TransitionEffect DEF Moved
  <2> QED BY <1>3, <2>1, <2>2, TransitionEffect
<1>4. CASE ReleaseTerminal(w)
  <2>1. job.status \in Dead
    BY <1>4, ReleaseTerminalEffect DEF Seen
  <2>2. Base' /\ Kept
    BY TypedNow, <1>4, <2>1, ReleaseTerminalEffect, ReleaseEffect
       DEF Base, ClaimsInv, RowInv, ProviderInv, Kept, Alone, Dead, Late, Early, Advancing
  <2> QED BY <1>4, <2>2, ReleaseTerminalEffect DEF Moved, Seen
<1>5. CASE Capture(w)
  <2>1. job.named /\ provider = "succeeded"
    BY <1>5, CaptureStepEffect DEF Seen
  <2>2. Base' /\ Kept
    BY TypedNow, <1>5, <2>1, CaptureStepEffect, CaptureEffect
       DEF Base, ClaimsInv, RowInv, ProviderInv, Kept, Alone, money
  <2> QED BY <1>5, <2>1, <2>2, CaptureStepEffect DEF Moved, Seen, Alone
<1>6. CASE RecordFailure(w)
  <2>1. job.named /\ provider = "succeeded"
    BY <1>6, RecordFailureEffect DEF Seen
  <2>2. job'.status = job.status /\ job'.named = job.named
    BY TypedNow, <1>6, RecordFailureEffect, RetryCounted
  <2>3. Base' /\ Kept
    BY <1>6, <2>2, RecordFailureEffect, BaseFrame DEF Alone
  <2> QED BY <1>6, <2>1, <2>2, <2>3, RecordFailureEffect DEF Moved, Seen, Alone
<1>7. CASE Exhaust(w)
  <2>1. job.named /\ provider = "succeeded"
    BY <1>7, ExhaustEffect DEF Seen
  <2>2. job'.status = job.status /\ job'.named = job.named
    BY TypedNow, <1>7, ExhaustEffect, RetryCounted
  <2>3. Base' /\ Kept
    BY TypedNow, <1>7, <2>1, <2>2, ExhaustEffect, ReleaseEffect
       DEF Base, ClaimsInv, RowInv, ProviderInv, Kept, Alone, Unsubmitted, Advancing
  <2> QED BY <1>7, <2>1, <2>2, <2>3, ExhaustEffect DEF Moved, Seen, Alone
<1>8. CASE FailExhausted(w) \/ MarkSettled(w)
  <2>1. job.named /\ provider = "succeeded" /\ Moved(w, "unlock") /\ UNCHANGED money /\ Alone
    BY <1>8, FailExhaustedEffect, MarkSettledEffect DEF Seen
  <2>2. /\ job'.named = job.named
        /\ \/ job'.status = job.status
           \/ job'.status \in {"failed", "completed"} /\ job.status \notin Terminal
    BY <1>8, FailExhaustedEffect, MarkSettledEffect DEF Moves, CanTransition, Terminal
  <2>3. Base' /\ Kept
    BY <2>1, <2>2 DEF Base, ClaimsInv, RowInv, ProviderInv, Kept, Alone, money, Unsubmitted,
                      Advancing, Early, Dead, Late, Terminal
  <2> QED BY <2>1, <2>3 DEF Moved, Seen
<1> QED BY <1>1, <1>3, <1>4, <1>5, <1>6, <1>7, <1>8, WorkerSteps DEF Writes

-----------------------------------------------------------------------------
(* The settlement, unless it was given up too late *)

Live == {"submitted", "running"} \cup Late

\* What a step of anybody but the workers does to what the workers rely on.
Outside ==
  /\ UNCHANGED at /\ forgotten \subseteq forgotten'
  /\ job'.retries = job.retries
  /\ "capture" \in effects' <=> "capture" \in effects
  /\ \/ /\ job'.status = job.status
        /\ "release" \in effects' => "release" \in effects \/ job.status \notin Live
     \/ job.status \notin Late /\ job'.status \in Dead
     \/ job.status \in Early /\ job'.status \in Early
     \/ job.status \in Early /\ job'.status = "submitted" /\ "release" \notin effects'

LEMMA OutsideKeeps ==
  ASSUME SettleInv, Outside
  PROVE  SettleInv'
<1> SUFFICES ASSUME ~GivenUpLate' PROVE (\A v \in Workers : Knows(v)') /\ Paid'
  BY DEF SettleInv
<1>1. ~GivenUpLate
  BY DEF Outside, GivenUpLate
<1>2. Paid /\ \A v \in Workers : Knows(v)
  BY <1>1 DEF SettleInv
<1>3. Paid'
  BY <1>2 DEF Paid, Exhausted, Outside, Live, Late, Early, Dead
<1>4. Settled => Settled'
  BY DEF Settled, Exhausted, Outside, Late, Early, Dead
<1>5. \A v \in Workers : Knows(v)'
  BY <1>2, <1>4 DEF Outside, Knows, Exhausted
<1> QED BY <1>3, <1>5

LEMMA SubmitOutside ==
  ASSUME Typed, Base, CreateJob \/ SubmitStep \/ TouchSubmitting \/ SubmitCrashes
  PROVE  Outside
<1> USE DEF Outside
<1>0. /\ job.named \/ job.status \in Early \cup Dead
      /\ submit \in Unsubmitted => ~job.named
  BY DEF Base, RowInv
<1>1. CASE CreateJob
  <2>1. job.status = "none" /\ Moves("created")
    BY TypedNow, <1>1, StatusSet DEF CreateJob, Statuses, Base, RowInv
  <2> QED BY <1>1, <2>1 DEF CreateJob, Moves, money, Early
<1>2. CASE ReserveHold
  BY TypedNow, <1>2, ReserveEffect DEF ReserveHold
<1>3. CASE ReserveFails
  BY TypedNow, <1>3, ReserveEffect DEF ReserveFails, money, Forget
<1>4. CASE GiveUp
  BY TypedNow, <1>0, <1>4, GaveUp DEF GiveUp, Moves, money, Unsubmitted, Early, Dead, Late
<1>5. CASE CreatePendingItems
  BY <1>5 DEF CreatePendingItems, money
<1>6. CASE TransitionUploading
  BY TypedNow, <1>6, StatusSet
     DEF TransitionUploading, Moves, Statuses, money, CanTransition, Terminal, Early
<1>7. CASE ProviderSubmit
  BY <1>7 DEF ProviderSubmit, money, Forget
<1>8. CASE UpdateProviderSubmit
  <2>1. job.status \notin Dead => "release" \notin effects
    BY <1>8 DEF UpdateProviderSubmit, Base, RowInv, ClaimsInv, Advancing
  <2> QED BY TypedNow, <1>8, <2>1, JobNamed
             DEF UpdateProviderSubmit, money, Forget, CanTransition, Terminal, Dead, Early
<1>9. CASE AbortOrphanProviderJob
  BY <1>9 DEF AbortOrphanProviderJob, money, Forget
<1>10. CASE EnqueueSubmitted
  BY <1>10 DEF EnqueueSubmitted, money, Forget
<1>11. CASE ReleaseFailedSubmit
  <2>1. Released
    BY TypedNow, <1>11, ReleaseFailsEffect DEF ReleaseFailedSubmit, Released
  <2>2. job.status \notin Live
    BY <1>0, <1>11 DEF ReleaseFailedSubmit, Unsubmitted, Early, Dead, Live, Late
  <2> QED BY TypedNow, <1>11, <2>1, <2>2, ReleaseEffect DEF ReleaseFailedSubmit
<1>12. CASE RecordReleaseFailed
  BY TypedNow, <1>0, <1>12, StatusSet
     DEF RecordReleaseFailed, Moves, Statuses, money, Unsubmitted, Early, Dead, Late
<1>13. CASE EnqueueBillingRetry
  BY <1>13 DEF EnqueueBillingRetry, money
<1>14. CASE TouchSubmitting
  <2>1. Moves(job.status)
    BY TypedNow, <1>14, JobTouched DEF TouchSubmitting
  <2> QED BY <1>14, <2>1 DEF TouchSubmitting, Moves, money
<1>15. CASE SubmitCrashes
  BY <1>15 DEF SubmitCrashes, money, Forget
<1> QED BY <1>1, <1>2, <1>3, <1>4, <1>5, <1>6, <1>7, <1>8, <1>9, <1>10, <1>11, <1>12, <1>13,
           <1>14, <1>15 DEF SubmitStep

LEMMA CancelOutside ==
  ASSUME Typed, Base, Resubmit \/ CancelRequested \/ CancelStep \/ CancelCrashes
  PROVE  Outside
<1> USE DEF Outside
<1>1. CASE Resubmit
  BY <1>1 DEF Resubmit, money
<1>2. CASE CancelRequested
  BY <1>2 DEF CancelRequested, money
<1>3. CASE CancelAtProvider
  BY <1>3 DEF CancelAtProvider, money
<1>4. CASE CancelEnqueues
  BY <1>4 DEF CancelEnqueues, money
<1>5. CASE CancelTransition
  BY TypedNow, <1>5, StatusSet
     DEF CancelTransition, Moves, Statuses, money, Forget, CanTransition, Terminal, Late, Dead
<1>6. CASE CancelReleases
  <2>1. Released /\ job.status \notin Live
    BY TypedNow, <1>6, ReleaseFailsEffect
       DEF CancelReleases, Released, Base, RowInv, Dead, Live, Late
  <2> QED BY TypedNow, <1>6, <2>1, ReleaseEffect DEF CancelReleases
<1>7. CASE CancelCrashes
  BY <1>7 DEF CancelCrashes, money, Forget
<1> QED BY <1>1, <1>2, <1>3, <1>4, <1>5, <1>6, <1>7 DEF CancelStep

LEMMA RecoverOutside ==
  ASSUME Typed, Base,
         \/ JobGoesStale \/ RecoverStep \/ RecoverCrashes
         \/ ProviderEnds \/ AccountLeaves \/ DelayedDue \/ ActiveStale \/ JobLockLapses
  PROVE  Outside
<1> USE DEF Outside, clients
<1>1. CASE JobGoesStale
  <2>1. PICK b \in BOOLEAN : b = TRUE
    OBVIOUS
  <2>2. Moves(job.status)
    BY TypedNow, <1>1, <2>1, JobTouched DEF JobGoesStale
  <2> QED BY <1>1, <2>2 DEF JobGoesStale, Moves, money
<1>2. CASE FailStaleUnsubmitted
  BY TypedNow, <1>2, StatusSet DEF FailStaleUnsubmitted, Moves, Statuses, money, Late, Dead
<1>3. CASE RecoverReleases
  <2>1. Released /\ job.status \notin Live
    BY TypedNow, <1>3, ReleaseFailsEffect
       DEF RecoverReleases, Released, Base, RowInv, Dead, Live, Late
  <2> QED BY TypedNow, <1>3, <2>1, ReleaseEffect DEF RecoverReleases
<1>4. CASE RecoverEnqueues
  BY <1>4 DEF RecoverEnqueues, money
<1>5. CASE RecoverCrashes
  BY <1>5 DEF RecoverCrashes, money, Forget
<1>6. CASE ProviderEnds
  BY <1>6 DEF ProviderEnds, money
<1>7. CASE AccountLeaves \/ DelayedDue \/ ActiveStale \/ JobLockLapses
  BY <1>7 DEF AccountLeaves, DelayedDue, ActiveStale, JobLockLapses, money
<1> QED BY <1>1, <1>2, <1>3, <1>4, <1>5, <1>6, <1>7 DEF RecoverStep

\* A step of a worker needs to keep only what it knows itself if it takes from the
\* others neither the settlement nor the capture they are about to make.
LEMMA SettleStep ==
  ASSUME NEW w \in Workers, NEW p, Moved(w, p), Knows(w)', Paid',
         \A v \in Workers : Knows(v),
         Settled => Settled', Exhausted => Exhausted',
         \A v \in Workers : v # w /\ at[v] = "capture" => ~Exhausted',
         "capture" \in effects => "capture" \in effects'
  PROVE  (\A v \in Workers : Knows(v)') /\ Paid'
<1>1. ASSUME NEW v \in Workers, v # w PROVE Knows(v)'
  BY <1>1 DEF Moved, Knows
<1> QED BY <1>1

\* The same for a step that leaves the retries alone.
LEMMA SettleStepKeeping ==
  ASSUME NEW w \in Workers, NEW p, Moved(w, p), Knows(w)', Paid',
         \A v \in Workers : Knows(v),
         Settled => Settled', job'.retries = job.retries,
         "capture" \in effects => "capture" \in effects'
  PROVE  (\A v \in Workers : Knows(v)') /\ Paid'
BY SettleStep DEF Exhausted, Knows

\* Points where a worker knows nothing of the settlement.
LEMMA KnowsNothing ==
  ASSUME NEW w \in Workers, NEW p, Moved(w, p), p \notin SettlePoints
  PROVE  Knows(w)'
BY DEF Moved, Knows, SettlePoints

\* Every step of a worker keeps what is known of the settlement.
LEMMA WorkerSettle ==
  ASSUME Typed, Base, SettleInv, NEW w \in Workers, Seen(w),
         WorkerStep(w) \/ StepFails(w) \/ WorkerCrashes(w)
  PROVE  SettleInv'
<1> SUFFICES ASSUME ~GivenUpLate' PROVE (\A v \in Workers : Knows(v)') /\ Paid'
  BY DEF SettleInv
<1>0. Alone
  BY LooksEffect, TransitionEffect, ReleaseTerminalEffect, CaptureStepEffect,
     RecordFailureEffect, ExhaustEffect, FailExhaustedEffect, MarkSettledEffect, WorkerSteps
     DEF Writes
<1>1. ~GivenUpLate
  BY <1>0 DEF Alone, GivenUpLate
<1>2. Paid /\ \A v \in Workers : Knows(v)
  BY <1>1 DEF SettleInv
<1>3. CASE Looks(w)
  <2>1. job' = job /\ effects' = effects
    BY <1>3, LooksEffect DEF money
  <2>2. Paid' /\ (Settled => Settled')
    BY <1>2, <2>1 DEF Paid, Settled, Exhausted
  <2>3. PICK p : Moved(w, p) /\ (p \in SettlePoints => job.status = "settling")
                 /\ p \notin {"mark", "exhausted"}
                 /\ (p = "capture" => ~Exhausted) /\ (p = "exhaust" => Exhausted)
    BY <1>3, LooksEffect DEF SettlePoints
  <2>4. Knows(w)'
    BY <2>1, <2>3 DEF Moved, Knows, Settled, Exhausted
  <2> QED BY <1>2, <2>1, <2>2, <2>3, <2>4, SettleStepKeeping
<1>4. CASE Transition(w)
  <2>1. /\ effects' = effects
        /\ at[w] \in {"running", "indexing", "failed", "cancelled", "settling"}
    BY <1>4, TransitionEffect DEF money
  <2>2. CASE job' = job /\ Moved(w, "unlock")
    <3>1. Paid' /\ (Settled => Settled')
      BY <1>2, <2>1, <2>2 DEF Paid, Settled, Exhausted
    <3>2. Knows(w)'
      BY <2>2, KnowsNothing DEF SettlePoints
    <3> QED BY <1>2, <2>1, <2>2, <3>1, <3>2, SettleStepKeeping
  <2>3. CASE CanTransition(job.status, at[w]) /\ Moves(at[w])
    <3>1. PICK p \in {"release", "index", "unlock"} : Moved(w, p)
      BY <1>4, <2>1, <2>3, TransitionEffect DEF Moves
    <3>2. at[w] = "failed" => job.status # "settling"
      <4>1. "results" \notin forgotten'
        BY DEF GivenUpLate
      <4> QED BY <1>4, <2>3, <4>1, TransitionEffect DEF Moves, Moved
    <3>3. job.status \notin Early
      BY <2>1 DEF Seen, Base, RowInv, PollPoints, IndexPoints
    <3>4. /\ job.status \in {"submitted", "running", "indexing"}
          /\ job'.status = at[w] /\ job'.retries = job.retries
      BY TypedNow, <2>1, <2>3, <3>2, <3>3
         DEF Moves, CanTransition, Terminal, Early, Job, Statuses
    <3>5. Paid' /\ (Settled => Settled')
      BY <1>2, <2>1, <3>4 DEF Paid, Settled, Exhausted, Dead
    <3>6. Knows(w)'
      BY <3>1, KnowsNothing DEF SettlePoints
    <3> QED BY <1>2, <2>1, <3>1, <3>4, <3>5, <3>6, SettleStepKeeping
  <2> QED BY <1>4, <2>2, <2>3, TransitionEffect
<1>5. CASE ReleaseTerminal(w)
  <2>1. Moved(w, "unlock") /\ at[w] = "release" /\ job' = job /\ Released
    BY <1>5, ReleaseTerminalEffect
  <2>2. job.status \in Dead
    BY <2>1 DEF Seen
  <2>3. "capture" \in effects' <=> "capture" \in effects
    BY TypedNow, <2>1, ReleaseEffect
  <2>4. Paid' /\ (Settled => Settled')
    BY <1>2, <2>1, <2>2, <2>3 DEF Paid, Dead, Settled, Exhausted
  <2>5. Knows(w)'
    BY <2>1, KnowsNothing DEF SettlePoints
  <2> QED BY <1>2, <2>1, <2>3, <2>4, <2>5, SettleStepKeeping
<1>6. CASE Capture(w)
  <2>1. /\ at[w] = "capture" /\ job' = job
        /\ CaptureBalance \/ UNCHANGED money
        /\ (Moved(w, "mark") /\ CaptureBalance) \/ Moved(w, "record")
    BY <1>6, CaptureStepEffect
  <2>2. Settled /\ ~Exhausted
    BY <1>2, <2>1 DEF Knows, SettlePoints
  <2>3. job.status \in {"settling", "completed"} /\ "release" \notin effects
    BY <1>2, <2>2 DEF Settled, Paid
  <2>4. /\ "capture" \in effects => "capture" \in effects'
        /\ "release" \notin effects'
        /\ CaptureBalance => "capture" \in effects'
    BY TypedNow, <2>1, <2>3, CaptureEffect DEF Base, ClaimsInv, money
  <2>5. Paid' /\ Settled'
    BY <1>2, <2>1, <2>2, <2>3, <2>4 DEF Paid, Settled, Exhausted
  <2>6. PICK p \in {"mark", "record"} : Moved(w, p) /\ (p = "mark" => CaptureBalance)
    BY <2>1
  <2>7. Knows(w)'
    BY <2>4, <2>5, <2>6 DEF Moved, Knows
  <2> QED BY <1>2, <2>1, <2>4, <2>5, <2>6, <2>7, SettleStepKeeping
<1>7. CASE RecordFailure(w)
  <2>1. /\ at[w] = "record" /\ effects' = effects
        /\ job' = job \/ CountRetry
    BY <1>7, RecordFailureEffect DEF money
  <2>2. job'.status = job.status /\ (Exhausted => Exhausted')
    BY TypedNow, <2>1, RetryCounted, BatchAssumption DEF Job, Exhausted
  <2>3. Exhausted' => ~CaptureUnderWay
    BY <1>7, RecordFailureEffect DEF GivenUpLate
  <2>4. Exhausted' => "capture" \notin effects /\ \A v \in Workers : at[v] # "capture"
    BY <2>3 DEF CaptureUnderWay, Base, ClaimsInv
  <2>5. Settled /\ Settled'
    BY <1>2, <2>1, <2>2 DEF Knows, SettlePoints, Settled
  <2>6. Paid'
    BY <1>2, <2>1, <2>2, <2>4 DEF Paid
  <2>7. PICK p \in {"exhaust", "unlock"} : Moved(w, p) /\ (p = "exhaust" => Exhausted')
    BY <1>7, RecordFailureEffect
  <2>8. Knows(w)'
    BY <2>5, <2>7 DEF Moved, Knows, SettlePoints
  <2> QED BY <1>2, <2>1, <2>2, <2>4, <2>5, <2>6, <2>7, <2>8, SettleStep
<1>8. CASE Exhaust(w)
  <2>1. at[w] = "exhaust" /\ Released /\ (job' = job \/ CountRetry)
    BY <1>8, ExhaustEffect
  <2>2. Exhausted /\ Settled
    BY <1>2, <2>1 DEF Knows, SettlePoints
  <2>3. job'.status = job.status /\ job'.retries = job.retries
    BY TypedNow, <2>1, <2>2, RetryCounted, BatchAssumption DEF Job, Exhausted
  <2>4. "capture" \notin effects /\ "capture" \notin effects'
    BY TypedNow, <1>2, <2>1, <2>2, ReleaseEffect DEF Paid
  <2>5. Paid' /\ Settled' /\ Exhausted'
    BY <1>2, <2>2, <2>3, <2>4 DEF Paid, Settled, Exhausted, Dead
  <2>6. PICK p \in {"exhausted", "unlock"} : Moved(w, p)
    BY <1>8, ExhaustEffect
  <2>7. Knows(w)'
    BY <2>5, <2>6 DEF Moved, Knows
  <2> QED BY <1>2, <2>3, <2>4, <2>5, <2>6, <2>7, SettleStepKeeping
<1>9. CASE FailExhausted(w)
  <2>1. /\ at[w] = "exhausted" /\ effects' = effects /\ Moved(w, "unlock")
        /\ job' = job \/ (Moves("failed") /\ CanTransition(job.status, "failed"))
    BY <1>9, FailExhaustedEffect DEF money
  <2>2. Exhausted /\ job'.retries = job.retries
    BY <1>2, <2>1 DEF Knows, Moves
  <2>3. "capture" \notin effects
    BY <1>2, <2>2 DEF Paid
  <2>4. Paid' /\ (Settled => Settled')
    BY <1>2, <2>1, <2>2, <2>3 DEF Paid, Settled, Exhausted, Moves, Dead
  <2>5. Knows(w)'
    BY <2>1, KnowsNothing DEF SettlePoints
  <2> QED BY <1>2, <2>1, <2>2, <2>4, <2>5, SettleStepKeeping
<1>10. CASE MarkSettled(w)
  <2>1. /\ at[w] = "mark" /\ effects' = effects /\ Moved(w, "unlock")
        /\ job' = job \/ (Moves("completed") /\ job.status = "settling")
    BY <1>10, MarkSettledEffect DEF money
  <2>2. "capture" \in effects /\ job'.retries = job.retries
    BY <1>2, <2>1 DEF Knows, Moves
  <2>3. Paid' /\ Settled'
    BY <1>2, <2>1, <2>2 DEF Paid, Settled, Exhausted, Moves
  <2>4. Knows(w)'
    BY <2>1, KnowsNothing DEF SettlePoints
  <2> QED BY <1>2, <2>1, <2>2, <2>3, <2>4, SettleStepKeeping
<1> QED BY <1>3, <1>4, <1>5, <1>6, <1>7, <1>8, <1>9, <1>10, WorkerSteps DEF Writes

-----------------------------------------------------------------------------
(* The invariant *)

LEMMA InitInv == Init => IInv
<1> SUFFICES ASSUME Init PROVE IInv
  OBVIOUS
<1>1. ClaimsInv /\ RowInv /\ ProviderInv
  BY DEF Init, ClaimsInv, RowInv, ProviderInv, Unsubmitted, Advancing, Early, Dead, Late
<1>2. \A w \in Workers : Seen(w) /\ Knows(w)
  BY DEF Init, Seen, Knows, PollPoints, IndexPoints, SettlePoints
<1>3. Paid
  BY DEF Init, Paid
<1> QED BY TypesInit, <1>1, <1>2, <1>3 DEF IInv, Typed, SettleInv

LEMMA NextInv == IInv /\ [Next]_vars => IInv'
<1> SUFFICES ASSUME IInv, [Next]_vars PROVE IInv'
  OBVIOUS
<1>1. Typed /\ Base /\ SettleInv /\ \A w \in Workers : Seen(w)
  BY DEF IInv, Typed, Base
<1>2. Typed'
  BY <1>1, TypesNext
<1>3. CASE UNCHANGED vars
  <2>1. Base' /\ Kept /\ at' = at /\ Outside
    BY <1>1, <1>3, BaseFrame DEF vars, money, Outside
  <2>2. SettleInv' /\ \A w \in Workers : Seen(w)'
    BY <1>1, <2>1, OutsideKeeps, SeenKept
  <2> QED BY <1>2, <2>1, <2>2 DEF IInv, Typed, Base
<1>4. CASE \/ CreateJob \/ SubmitStep \/ TouchSubmitting \/ SubmitCrashes
           \/ Resubmit \/ CancelRequested \/ CancelStep \/ CancelCrashes
           \/ JobGoesStale \/ RecoverStep \/ RecoverCrashes
           \/ ProviderEnds \/ AccountLeaves \/ DelayedDue \/ ActiveStale \/ JobLockLapses
  <2>1. Base' /\ Kept
    BY <1>1, <1>4, SubmitBase, CancelBase, RecoverBase
  <2>2. Outside
    BY <1>1, <1>4, SubmitOutside, CancelOutside, RecoverOutside
  <2>3. SettleInv' /\ \A w \in Workers : Seen(w)'
    BY <1>1, <2>1, <2>2, OutsideKeeps, SeenKept DEF Outside
  <2> QED BY <1>2, <2>1, <2>3 DEF IInv, Typed, Base
<1>6. ASSUME NEW w \in Workers, WorkerStep(w) \/ StepFails(w) \/ WorkerCrashes(w) PROVE IInv'
  BY <1>1, <1>2, <1>6, WorkerBase, WorkerSettle DEF IInv, Typed, Base
<1> QED BY <1>3, <1>4, <1>6 DEF Next

-----------------------------------------------------------------------------
(* The theorems *)

\* The inductive invariant holds in every reachable state.
THEOREM Invariance == Spec => []IInv
BY InitInv, NextInv, PTL DEF Spec

\* Type correctness of the row, the ledger, the queue and every actor; it says
\* that neither the balance nor the frozen balance goes below 0.
THEOREM TypeCorrect == Spec => []TypeOK
<1>1. IInv => TypeOK
  BY DEF IInv
<1> QED BY <1>1, Invariance, PTL

\* The scripts of the queue never leave an id with its de-duplication key and in
\* none of the lists, whoever dies where.
THEOREM NeverLostInQueue == Spec => []InflightIsQueued
<1>1. IInv => InflightIsQueued
  BY DEF IInv
<1> QED BY <1>1, Invariance, PTL

\* Who got the money back has no provider's job going on that the code knows of.
THEOREM ReleasedOnlyIfStopped == Spec => []RefundedMeansStopped
<1>1. IInv => RefundedMeansStopped
  BY DEF IInv, ProviderInv, RefundedMeansStopped
<1> QED BY <1>1, Invariance, PTL

\* A completed job was paid for once out of its hold, unless it was given
\* up too late.
THEOREM CompletedWasPaid == Spec => []CompletedIsPaid
<1>1. IInv => CompletedIsPaid
  <2> SUFFICES ASSUME IInv, ~GivenUpLate PROVE CompletedIsPaid
    BY DEF CompletedIsPaid
  <2>1. Paid /\ effects \subseteq {"hold", "capture", "release"}
        /\ (effects # {} => "hold" \in effects)
    BY DEF IInv, SettleInv, TypeOK, ClaimsInv
  <2>2. job.status = "completed" => effects = {"hold", "capture"}
    BY <2>1 DEF Paid
  <2> QED BY <2>1, <2>2 DEF Paid, CompletedIsPaid
<1> QED BY <1>1, Invariance, PTL

-----------------------------------------------------------------------------
(* The refinement of BalanceHold *)

\* Money moves in four transactions only, whoever runs them.
LEMMA MoneySteps ==
  ASSUME Typed, [Next]_vars
  PROVE  \/ UNCHANGED money
         \/ submit = "reserve" /\ balance >= Hold /\ ReserveBalance
         \/ Released \/ CaptureBalance
<1>1. CASE \/ CreateJob \/ SubmitStep \/ TouchSubmitting \/ SubmitCrashes
  <2>1. CASE ReserveHold \/ ReserveFails
    BY <2>1 DEF ReserveHold, ReserveFails
  <2>2. CASE ReleaseFailedSubmit
    BY TypedNow, <2>2, ReleaseFailsEffect DEF ReleaseFailedSubmit, Released
  <2> QED BY <1>1, <2>1, <2>2
             DEF SubmitStep, CreateJob, TouchSubmitting, SubmitCrashes, GiveUp, CreatePendingItems,
                 TransitionUploading, ProviderSubmit, UpdateProviderSubmit, AbortOrphanProviderJob,
                 EnqueueSubmitted, RecordReleaseFailed, EnqueueBillingRetry
<1>2. CASE Resubmit \/ CancelRequested \/ CancelStep \/ CancelCrashes
  <2>1. CASE CancelReleases
    BY TypedNow, <2>1, ReleaseFailsEffect DEF CancelReleases, Released
  <2> QED BY <1>2, <2>1 DEF CancelStep, Resubmit, CancelRequested, CancelCrashes,
                            CancelAtProvider, CancelEnqueues, CancelTransition
<1>3. CASE \/ JobGoesStale \/ RecoverStep \/ RecoverCrashes
           \/ ProviderEnds \/ AccountLeaves \/ DelayedDue \/ ActiveStale \/ JobLockLapses
  <2>1. CASE RecoverReleases
    BY TypedNow, <2>1, ReleaseFailsEffect DEF RecoverReleases, Released
  <2> QED BY <1>3, <2>1 DEF RecoverStep, JobGoesStale, RecoverCrashes, FailStaleUnsubmitted,
                            RecoverEnqueues, ProviderEnds, AccountLeaves, DelayedDue,
                            ActiveStale, JobLockLapses
<1>4. ASSUME NEW w \in Workers, WorkerStep(w) \/ StepFails(w) \/ WorkerCrashes(w)
      PROVE  UNCHANGED money \/ Released \/ CaptureBalance
  BY <1>4, WorkerSteps, LooksEffect, TransitionEffect, ReleaseTerminalEffect,
     CaptureStepEffect, RecordFailureEffect, ExhaustEffect, FailExhaustedEffect, MarkSettledEffect
     DEF Writes
<1>5. CASE UNCHANGED vars
  BY <1>5 DEF vars, money
<1> QED BY <1>1, <1>2, <1>3, <1>4, <1>5 DEF Next

\* Each of them is the step of the ledger with its name, or moves nothing.
LEMMA LedgerStep ==
  ASSUME IInv, IInv', [Next]_vars
  PROVE  [GivenUpLate' \/ Ledger!Next]_<<balance, frozen, effects>>
<1> SUFFICES ASSUME ~GivenUpLate', ~UNCHANGED <<balance, frozen, effects>> PROVE Ledger!Next
  OBVIOUS
<1>0. Typed /\ MoneyTyped
  BY DEF IInv, Typed, TypeOK, MoneyTyped
<1>1. /\ "hold" \in claims <=> "hold" \in effects
      /\ "capture" \in claims <=> "capture" \in effects
      /\ "release" \in effects => "release" \in claims
      /\ effects # {} => "hold" \in effects
      /\ submit = "reserve" => "hold" \notin claims
  BY DEF IInv, ClaimsInv
<1>2. /\ effects' # {} => "hold" \in effects'
      /\ "capture" \in effects' => "release" \notin effects'
  BY DEF IInv, ClaimsInv, SettleInv, Paid
<1>3. effects \subseteq {"hold", "capture", "release"}
  BY <1>0 DEF MoneyTyped
<1>4. CASE submit = "reserve" /\ balance >= Hold /\ ReserveBalance
  <2>1. effects = {}
    BY <1>1, <1>4
  <2> QED BY <1>4, <2>1 DEF ReserveBalance, Ledger!Next, Ledger!Reserve
<1>5. CASE Released
  <2>1. /\ "hold" \in claims /\ "release" \notin claims /\ effects' = effects \cup {"release"}
        /\ balance' = balance + Hold /\ frozen' = frozen - Hold
    BY <1>0, <1>5, ReleaseEffect
  <2>2. effects = {"hold"} /\ effects' = {"hold", "release"}
    BY <1>1, <1>2, <1>3, <2>1
  <2> QED BY <2>1, <2>2 DEF Ledger!Next, Ledger!Release
<1>6. CASE CaptureBalance
  <2>1. /\ "capture" \notin claims /\ effects' = effects \cup {"capture"}
        /\ \E cost \in 0..Hold : balance' = balance + Hold - cost
        /\ frozen' = frozen - Hold
    BY <1>0, <1>6, CaptureEffect DEF money
  <2>2. effects = {"hold"} /\ effects' = {"hold", "capture"}
    BY <1>1, <1>2, <1>3, <2>1
  <2> QED BY <2>1, <2>2 DEF Ledger!Next, Ledger!Capture
<1>7. CASE UNCHANGED money
  BY <1>7 DEF money
<1> QED BY <1>0, <1>4, <1>5, <1>6, <1>7, MoneySteps

\* Whatever fails and whoever retries, the balance and the frozen balance move for
\* a batch as BalanceHold promises: the hold is frozen at most once and afterwards
\* captured or released, once, unless it was given up too late.
THEOREM KeepsLedger == Spec => LedgerIsKept
<1>1. Init => Ledger!Init
  BY DEF Init, Ledger!Init
<1>2. IInv /\ IInv' /\ [Next]_vars => [GivenUpLate' \/ Ledger!Next]_(Ledger!ledger)
  BY LedgerStep DEF Ledger!ledger
<1> QED BY <1>1, <1>2, Invariance, PTL DEF Spec, LedgerIsKept, Ledger!Spec
=============================================================================
