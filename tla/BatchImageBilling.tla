-------------------------- MODULE BatchImageBilling --------------------------
(***************************************************************************)
(* The life of one batch of images and of the money frozen for it:         *)
(* submission and cancellation by the client (batch_image_public.go), the  *)
(* queue workers that poll the provider, index its output and settle       *)
(* (batch_image_worker.go, _processor.go, _settlement.go), the sweep that  *)
(* fails what never reached the provider (_billing_recovery.go), over the  *)
(* transactions of usage_billing_repo.go.                                  *)
(*                                                                         *)
(* A step is one statement, transaction, script or call of the provider.   *)
(* A submission, a cancellation, a sweep and every worker is at a point of *)
(* its code; what it read earlier decides the point it is at.              *)
(***************************************************************************)
EXTENDS BatchImageQueue, FiniteSets

CONSTANTS
  Hold, Funds, OtherHolds,  \* as in BalanceHold
  Cost,                     \* what the images cost when they fit the hold
  MaxRetries,               \* batchImageSettlementMaxRetries
  MaxFaults                 \* bound on crashes, stalls and failed statements

ASSUME BatchAssumption ==
  /\ Hold \in Nat \ {0}
  /\ Funds \subseteq Nat
  /\ OtherHolds \subseteq Nat
  /\ Cost \in 0..Hold
  /\ MaxRetries \in Nat \ {0}
  /\ MaxFaults \in Nat
  /\ Workers \cap {Unlocked, Orphaned} = {}
  /\ Unlocked # Orphaned

VARIABLES
  job,        \* the row of batch_image_jobs
  balance, frozen, effects,
  claims,     \* usage_billing_dedup: the request ids of this batch
  provider,   \* the provider's batch job
  output,     \* what its result file is like
  served,     \* the account is there and its provider takes it
  submit, cancel, recover,  \* where the submission, a cancellation, the sweep are
  at,         \* where each worker is
  forgotten,  \* history: what no part of the code looks after any more, the
              \* "results" or the "capture" of a job that is given up
  faults

money == <<balance, frozen, effects, claims>>
outside == <<output, served>>
vars == <<queue, job, money, provider, outside, submit, cancel, recover, at,
          forgotten, faults>>

\* output_deleted, which follows a final status, is left out.
Statuses ==
  {"none", "created", "uploading", "submitted", "running", "indexing",
   "settling", "completed", "failed", "cancelled"}

Terminal == {"completed", "failed", "cancelled"}

Job == [status : Statuses,
        named : BOOLEAN,        \* provider_job_name is set
        stale : BOOLEAN,        \* updated_at is behind the cutoff of the sweep
        retries : 0..MaxRetries,
        hidden : BOOLEAN]       \* user_deleted_at is set

\* The images fit the hold, cost more, cannot be parsed, or cannot be fetched.
Outputs == {"good", "dear", "unreadable", "missing"}

SubmitPoints ==
  {"new", "reserve", "items", "upload", "provider", "save", "enqueue", "abort",
   "release", "lateRelease", "billingFailed", "retryEnqueue", "giveUp", "done"}

CancelPoints == {"idle", "provider", "enqueue", "transition", "release", "retryEnqueue"}

RecoverPoints == {"idle", "release", "retryEnqueue"}

WorkerPoints ==
  {"idle", "lock", "load", "process", "poll", "running", "indexing", "failed",
   "cancelled", "index", "settling", "settle", "capture", "record", "mark",
   "exhaust", "exhausted", "release", "unlock"}

TypeOK ==
  /\ QueueTypeOK
  /\ job \in Job
  /\ balance \in Nat /\ frozen \in Nat
  /\ effects \subseteq {"hold", "capture", "release"}
  /\ claims \subseteq {"hold", "capture", "release"}
  /\ provider \in {"none", "running", "succeeded", "failed", "cancelled"}
  /\ output \in Outputs /\ served \in BOOLEAN
  /\ submit \in SubmitPoints
  /\ cancel \in CancelPoints
  /\ recover \in RecoverPoints
  /\ at \in [Workers -> WorkerPoints]
  /\ forgotten \subseteq {"hold", "upstream", "results", "capture"}
  /\ faults \in 0..MaxFaults

Init ==
  /\ QueueInit
  /\ job = [status |-> "none", named |-> FALSE, stale |-> FALSE, retries |-> 0,
            hidden |-> FALSE]
  /\ balance \in Funds
  /\ frozen \in OtherHolds
  /\ effects = {} /\ claims = {}
  /\ provider = "none"
  /\ output = "missing" /\ served = TRUE
  /\ submit = "new" /\ cancel = "idle" /\ recover = "idle"
  /\ at = [w \in Workers |-> "idle"]
  /\ forgotten = {}
  /\ faults = 0

-----------------------------------------------------------------------------
(* The row and the transactions of the ledger *)

Fault == faults < MaxFaults /\ faults' = faults + 1

Forget(what) == forgotten' = forgotten \cup what

SetStatus(s) == job' = [job EXCEPT !.status = s, !.stale = FALSE]

CanTransition(from, to) ==
  \/ from \notin Terminal /\ to = "failed"
  \/ from = "created" /\ to \in {"uploading", "submitted", "cancelled"}
  \/ from = "uploading" /\ to \in {"submitted", "cancelled"}
  \/ from \in {"submitted", "running"} /\ to \in {"running", "indexing", "cancelled"}
  \/ from = "indexing" /\ to = "settling"
  \/ from = "settling" /\ to = "completed"

\* Every caller of this transaction runs it with the job's own request hash.
ReserveBalance ==
  /\ claims' = claims \cup {"hold"}
  /\ effects' = effects \cup {"hold"}
  /\ balance' = balance - Hold
  /\ frozen' = frozen + Hold

\* Frozen money is one pool per user: nothing but the claims says whose it is.
CaptureBalance ==
  \/ "capture" \in claims /\ UNCHANGED money
  \/ /\ "capture" \notin claims
     /\ frozen >= Hold
     /\ claims' = claims \cup {"capture"}
     /\ effects' = effects \cup {"capture"}
     /\ balance' = balance + Hold - Cost
     /\ frozen' = frozen - Hold

\* Mutant: the release does not ask whether the hold was reserved.
ReleasePhantom ==
  \/ "release" \in claims /\ UNCHANGED money
  \/ /\ "release" \notin claims
     /\ frozen >= Hold
     /\ claims' = claims \cup {"release"}
     /\ effects' = effects \cup {"release"}
     /\ balance' = balance + Hold
     /\ frozen' = frozen - Hold

\* A release before the reservation moves nothing, but its claim is committed.
ReleaseBalance ==
  \/ "release" \in claims /\ UNCHANGED money
  \/ /\ claims \cap {"hold", "release"} = {}
     /\ claims' = claims \cup {"release"}
     /\ UNCHANGED <<balance, frozen, effects>>
  \/ /\ "hold" \in claims /\ "release" \notin claims
     /\ frozen >= Hold
     /\ claims' = claims \cup {"release"}
     /\ effects' = effects \cup {"release"}
     /\ balance' = balance + Hold
     /\ frozen' = frozen - Hold

\* The pool is too small, the database fails, or the commit is not known.
ReleaseFails ==
  \/ /\ "hold" \in claims /\ "release" \notin claims /\ frozen < Hold
     /\ UNCHANGED <<money, faults>>
  \/ UNCHANGED money /\ Fault
  \/ ReleaseBalance /\ Fault

-----------------------------------------------------------------------------
(* Submit *)

CreateJob ==
  /\ submit = "new"
  /\ SetStatus("created")
  /\ submit' = "reserve"
  /\ UNCHANGED <<queue, money, provider, outside, cancel, recover, at, forgotten, faults>>

ReserveHold ==
  /\ submit = "reserve"
  /\ balance >= Hold
  /\ ReserveBalance
  /\ forgotten' = IF "release" \in claims THEN forgotten \cup {"hold"} ELSE forgotten
  /\ submit' = "items"
  /\ UNCHANGED <<queue, job, provider, outside, cancel, recover, at, faults>>

\* Too little balance, a failed transaction, or one whose commit is not known.
ReserveFails ==
  /\ submit = "reserve"
  /\ \/ balance < Hold /\ UNCHANGED <<money, forgotten, faults>>
     \/ UNCHANGED <<money, forgotten>> /\ Fault
     \/ balance >= Hold /\ ReserveBalance /\ Forget({"hold"}) /\ Fault
  /\ submit' = "giveUp"
  /\ UNCHANGED <<queue, job, provider, outside, cancel, recover, at>>

\* Mutant: a status that the jobs do not know.
GiveUpMisspelt ==
  /\ submit = "giveUp"
  /\ job' = [job EXCEPT !.status = "rejected", !.stale = FALSE, !.hidden = TRUE]
  /\ submit' = "done"
  /\ UNCHANGED <<queue, money, provider, outside, cancel, recover, at, forgotten, faults>>

\* RecordBatchImageJobSubmitFailure writes "failed" whatever the status is; the
\* job is then hidden from its owner, but for the case with a failed release.
\* Either write may fail unseen, and only a final job can be hidden.
GiveUp ==
  /\ submit = "giveUp"
  /\ \/ /\ job' = [job EXCEPT !.status = "failed", !.stale = FALSE, !.hidden = TRUE]
        /\ UNCHANGED faults
     \/ SetStatus("failed") /\ Fault
     \/ /\ job' = [job EXCEPT !.hidden = job.status \in Terminal]
        /\ Fault
  /\ submit' = "done"
  /\ UNCHANGED <<queue, money, provider, outside, cancel, recover, at, forgotten>>

CreatePendingItems ==
  /\ submit = "items"
  /\ \/ submit' = "upload" /\ UNCHANGED faults
     \/ submit' = "release" /\ Fault
  /\ UNCHANGED <<queue, job, money, provider, outside, cancel, recover, at, forgotten>>

TransitionUploading ==
  /\ submit = "upload"
  /\ \/ /\ CanTransition(job.status, "uploading")
        /\ SetStatus("uploading")
        /\ submit' = "provider"
        /\ UNCHANGED faults
     \/ /\ ~CanTransition(job.status, "uploading")
        /\ submit' = "lateRelease"
        /\ UNCHANGED <<job, faults>>
     \/ submit' = "release" /\ Fault /\ UNCHANGED job
  /\ UNCHANGED <<queue, money, provider, outside, cancel, recover, at, forgotten>>

\* The provider takes the job, refuses it, or takes it and the answer is lost.
ProviderSubmit ==
  /\ submit = "provider"
  /\ \/ provider' = "running" /\ submit' = "save" /\ UNCHANGED <<forgotten, faults>>
     \/ provider' = "none" /\ submit' = "release" /\ UNCHANGED <<forgotten, faults>>
     \/ provider' = "running" /\ submit' = "release" /\ Forget({"upstream"}) /\ Fault
  /\ UNCHANGED <<queue, job, money, outside, cancel, recover, at>>

\* runSubmitHeartbeat while the provider is called.
TouchSubmitting ==
  /\ submit = "provider"
  /\ job.status \in {"created", "uploading"} /\ job.stale
  /\ job' = [job EXCEPT !.stale = FALSE]
  /\ UNCHANGED <<queue, money, provider, outside, submit, cancel, recover, at, forgotten, faults>>

UpdateProviderSubmit ==
  /\ submit = "save"
  /\ \/ /\ CanTransition(job.status, "submitted")
        /\ job' = [job EXCEPT !.status = "submitted", !.named = TRUE, !.stale = FALSE]
        /\ \/ submit' = "enqueue" /\ UNCHANGED <<forgotten, faults>>
           \/ submit' = "abort" /\ Forget({"hold"}) /\ Fault
     \/ /\ ~CanTransition(job.status, "submitted")
        /\ submit' = "abort"
        /\ UNCHANGED <<job, forgotten, faults>>
     \/ submit' = "abort" /\ Fault /\ UNCHANGED <<job, forgotten>>
  /\ UNCHANGED <<queue, money, provider, outside, cancel, recover, at>>

AbortOrphanProviderJob ==
  /\ submit = "abort"
  /\ \/ /\ provider' = IF provider = "running" THEN "cancelled" ELSE provider
        /\ UNCHANGED <<forgotten, faults>>
     \/ UNCHANGED provider /\ Forget({"upstream"}) /\ Fault
  /\ submit' = "done"
  /\ UNCHANGED <<queue, job, money, outside, cancel, recover, at>>

\* Enqueue after the job was submitted.  Its failure is put on record and the
\* status stays: a retry with the idempotency key enqueues again.
EnqueueSubmitted ==
  /\ submit = "enqueue"
  /\ \/ Enqueue /\ UNCHANGED <<forgotten, faults>>
     \/ UNCHANGED queue /\ Forget({"hold"}) /\ Fault
  /\ submit' = "done"
  /\ UNCHANGED <<job, money, provider, outside, cancel, recover, at>>

\* The idempotency key finds a job that is submitted; it may be anything by the
\* time the id is enqueued.
Resubmit ==
  /\ job.named
  /\ Enqueue
  /\ UNCHANGED <<job, money, provider, outside, submit, cancel, recover, at, forgotten, faults>>

\* releaseFailedSubmitHold; after an illegal transition the status is left alone.
ReleaseFailedSubmit ==
  /\ submit \in {"release", "lateRelease"}
  /\ \/ /\ ReleaseBalance
        /\ submit' = IF submit = "release" THEN "giveUp" ELSE "done"
        /\ UNCHANGED faults
     \/ ReleaseFails /\ submit' = "billingFailed"
  /\ UNCHANGED <<queue, job, provider, outside, cancel, recover, at, forgotten>>

\* The row's write may fail unseen.
RecordReleaseFailed ==
  /\ submit = "billingFailed"
  /\ \/ SetStatus("failed") /\ UNCHANGED faults
     \/ UNCHANGED job /\ Fault
  /\ submit' = "retryEnqueue"
  /\ UNCHANGED <<queue, money, provider, outside, cancel, recover, at, forgotten>>

\* A failed Enqueue is only logged here: as if the process had died before it.
EnqueueBillingRetry ==
  /\ submit = "retryEnqueue"
  /\ Enqueue
  /\ submit' = "done"
  /\ UNCHANGED <<job, money, provider, outside, cancel, recover, at, forgotten, faults>>

\* Before the job is submitted the sweep will find it.
SubmitCrashes ==
  /\ submit \notin {"new", "done"}
  /\ Fault
  /\ submit' = "done"
  /\ Forget(CASE submit \in {"save", "abort"} -> {"upstream"}
              [] submit \in {"enqueue", "retryEnqueue"} -> {"hold"}
              [] OTHER -> {})
  /\ UNCHANGED <<queue, job, money, provider, outside, cancel, recover, at>>

SubmitStep ==
  \/ ReserveHold \/ ReserveFails \/ GiveUp \/ CreatePendingItems
  \/ TransitionUploading \/ ProviderSubmit \/ UpdateProviderSubmit
  \/ AbortOrphanProviderJob \/ EnqueueSubmitted \/ ReleaseFailedSubmit
  \/ RecordReleaseFailed \/ EnqueueBillingRetry

-----------------------------------------------------------------------------
(* Cancel *)

CancelRequested ==
  /\ cancel = "idle"
  /\ job.status \notin {"none", "settling", "completed"} /\ ~job.hidden
  /\ cancel' = CASE job.status \in {"failed", "cancelled"} -> "release"
                 [] job.status \notin Terminal /\ job.named -> "provider"
                 [] OTHER -> "transition"
  /\ UNCHANGED <<queue, job, money, provider, outside, submit, recover, at, forgotten, faults>>

\* Without the account nothing is cancelled and nothing is enqueued.
CancelAtProvider ==
  /\ cancel = "provider"
  /\ \/ /\ served
        /\ provider' = IF provider = "running" THEN "cancelled" ELSE provider
        /\ cancel' = "enqueue"
     \/ UNCHANGED provider /\ cancel' = "idle"
  /\ UNCHANGED <<queue, job, money, outside, submit, recover, at, forgotten, faults>>

CancelEnqueues ==
  /\ cancel \in {"enqueue", "retryEnqueue"}
  /\ Enqueue
  /\ cancel' = "idle"
  /\ UNCHANGED <<job, money, provider, outside, submit, recover, at, forgotten, faults>>

\* The job had no provider job when it was read; it may have one by now, which
\* the transition from "submitted" does not mind.
CancelTransition ==
  /\ cancel = "transition"
  /\ IF CanTransition(job.status, "cancelled")
       THEN /\ SetStatus("cancelled")
            /\ cancel' = "release"
            /\ Forget(IF job.named THEN {"upstream"} ELSE {})
       ELSE /\ cancel' = "idle"
            /\ UNCHANGED <<job, forgotten>>
  /\ UNCHANGED <<queue, money, provider, outside, submit, recover, at, faults>>

CancelReleases ==
  /\ cancel = "release"
  /\ \/ ReleaseBalance /\ cancel' = "idle" /\ UNCHANGED faults
     \/ ReleaseFails /\ cancel' = "retryEnqueue"
  /\ UNCHANGED <<queue, job, provider, outside, submit, recover, at, forgotten>>

CancelCrashes ==
  /\ cancel # "idle"
  /\ Fault
  /\ cancel' = "idle"
  /\ Forget(IF cancel \in {"release", "retryEnqueue"} THEN {"hold"} ELSE {})
  /\ UNCHANGED <<queue, job, money, provider, outside, submit, recover, at>>

CancelStep ==
  CancelAtProvider \/ CancelEnqueues \/ CancelTransition \/ CancelReleases

-----------------------------------------------------------------------------
(* ReleaseStaleUnsubmittedOnce *)

\* Ten minutes without an update.  A submission updates or keeps the row fresh,
\* so that one in flight must have stalled.
JobGoesStale ==
  /\ job.status \in {"created", "uploading"} /\ ~job.stale
  /\ job' = [job EXCEPT !.stale = TRUE]
  /\ IF submit = "done" THEN UNCHANGED faults ELSE Fault
  /\ UNCHANGED <<queue, money, provider, outside, submit, cancel, recover, at, forgotten>>

\* Mutant: the listed job is failed without asking again.
FailStaleListed ==
  /\ recover = "idle"
  /\ job.status \in {"created", "uploading", "submitted"}
  /\ SetStatus("failed")
  /\ recover' = "release"
  /\ UNCHANGED <<queue, money, provider, outside, submit, cancel, at, forgotten, faults>>

\* The update asks again for all that the list asked for.
FailStaleUnsubmitted ==
  /\ recover = "idle"
  /\ job.status \in {"created", "uploading"} /\ ~job.named /\ job.stale
  /\ SetStatus("failed")
  /\ recover' = "release"
  /\ UNCHANGED <<queue, money, provider, outside, submit, cancel, at, forgotten, faults>>

RecoverReleases ==
  /\ recover = "release"
  /\ \/ ReleaseBalance /\ recover' = "idle" /\ UNCHANGED faults
     \/ ReleaseFails /\ recover' = "retryEnqueue"
  /\ UNCHANGED <<queue, job, provider, outside, submit, cancel, at, forgotten>>

RecoverEnqueues ==
  /\ recover = "retryEnqueue"
  /\ Enqueue
  /\ recover' = "idle"
  /\ UNCHANGED <<job, money, provider, outside, submit, cancel, at, forgotten, faults>>

RecoverCrashes ==
  /\ recover # "idle"
  /\ Fault
  /\ recover' = "idle"
  /\ Forget({"hold"})
  /\ UNCHANGED <<queue, job, money, provider, outside, submit, cancel, at>>

RecoverStep == FailStaleUnsubmitted \/ RecoverReleases \/ RecoverEnqueues

-----------------------------------------------------------------------------
(* BatchImageWorker.RunOnce *)

Goto(w, point) == at' = [at EXCEPT ![w] = point]

clients == <<submit, cancel, recover>>

ReserveJob(w) ==
  /\ at[w] = "idle"
  /\ Reserve
  /\ Goto(w, "lock")
  /\ UNCHANGED <<job, money, provider, outside, clients, forgotten, faults>>

LockJob(w) ==
  /\ at[w] = "lock"
  /\ TryAcquireJobLock(w)
  /\ Goto(w, "load")
  /\ UNCHANGED <<job, money, provider, outside, clients, forgotten, faults>>

\* Somebody else holds the lock, or Redis does not answer.
LockConflict(w) ==
  /\ at[w] = "lock"
  /\ IF lock # Unlocked THEN UNCHANGED faults ELSE Fault
  /\ RequeueAfter
  /\ Goto(w, "idle")
  /\ UNCHANGED <<job, money, provider, outside, clients, forgotten>>

\* What RunOnce does with the result of Process.
Again(w) == RequeueAfter /\ Goto(w, "unlock")
Finished(w) == Ack /\ Goto(w, "unlock")

Unlock(w) ==
  /\ at[w] = "unlock"
  /\ ReleaseJobLock(w)
  /\ Goto(w, "idle")
  /\ UNCHANGED <<job, money, provider, outside, clients, forgotten, faults>>

\* A read, a call or a transaction fails without an effect: RequeueAfter.
StepFails(w) ==
  /\ at[w] \in WorkerPoints \ {"idle", "lock", "unlock", "index", "capture",
                               "record", "exhaust"}
  /\ Fault
  /\ Again(w)
  /\ UNCHANGED <<job, money, provider, outside, clients, forgotten>>

WorkerCrashes(w) ==
  /\ at[w] # "idle"
  /\ Fault
  /\ Goto(w, "idle")
  /\ lock' = IF lock = w THEN Orphaned ELSE lock
  /\ UNCHANGED <<ready, delayed, active, inflight, job, money, provider, outside,
                 clients, forgotten>>

-----------------------------------------------------------------------------
(* BatchImagePipelineProcessor and BatchImageProviderProcessor *)

Load(w) ==
  /\ at[w] = "load"
  /\ Goto(w, IF job.status = "settling" THEN "settle" ELSE "process")
  /\ UNCHANGED <<queue, job, money, provider, outside, clients, forgotten, faults>>

\* The job is read once more.  "settling" now counts as done, which happens only
\* if another worker is at the same job, and takes the job off the queue.  A
\* batch whose account is not served is tried again, and again.
Process(w) ==
  /\ at[w] = "process"
  /\ \/ job.status \in {"failed", "cancelled"} /\ Goto(w, "release") /\ UNCHANGED queue
     \/ job.status \in {"settling", "completed"} /\ Finished(w)
     \/ job.status \notin Terminal \cup {"settling"} /\ ~(served /\ job.named) /\ Again(w)
     \/ served /\ job.status = "indexing" /\ job.named /\ Goto(w, "index") /\ UNCHANGED queue
     \/ served /\ job.status \in {"submitted", "running"} /\ job.named /\ Goto(w, "poll")
        /\ UNCHANGED queue
  /\ Forget(IF job.status = "settling" THEN {"hold"} ELSE {})
  /\ UNCHANGED <<job, money, provider, outside, clients, faults>>

\* provider.Get; a queued job is asked again, and "expired" counts as failed.
Poll(w) ==
  /\ at[w] = "poll"
  /\ \/ provider = "running" /\ Again(w)
     \/ provider = "running" /\ Goto(w, "running") /\ UNCHANGED queue
     \/ provider = "succeeded" /\ Goto(w, "indexing") /\ UNCHANGED queue
     \/ provider \in {"failed", "cancelled"} /\ Goto(w, provider) /\ UNCHANGED queue
  /\ UNCHANGED <<job, money, provider, outside, clients, forgotten, faults>>

\* The points "running", "indexing", "failed", "cancelled" and "settling" are
\* named after the status that is to be written.  A worker whose indexing failed
\* fails the job also if another one has indexed it meanwhile.
Transition(w) ==
  /\ at[w] \in {"running", "indexing", "failed", "cancelled", "settling"}
  /\ IF CanTransition(job.status, at[w])
       THEN /\ SetStatus(at[w])
            /\ CASE at[w] \in {"failed", "cancelled"} -> Goto(w, "release") /\ UNCHANGED queue
                 [] at[w] = "indexing" -> Goto(w, "index") /\ UNCHANGED queue
                 [] at[w] \in {"running", "settling"} -> Again(w)
       ELSE Again(w) /\ UNCHANGED job
  /\ Forget(IF at[w] = "failed" /\ job.status = "settling" THEN {"results"} ELSE {})
  /\ UNCHANGED <<money, provider, outside, clients, faults>>

\* Reading the output and replacing the items, which only a job that is being
\* indexed allows.  A broken line fails the job; so does a failed transaction.
\* An output that cannot be fetched is asked for again, and again.
Index(w) ==
  /\ at[w] = "index"
  /\ \/ output = "missing" /\ Again(w) /\ UNCHANGED faults
     \/ output = "unreadable" /\ Goto(w, "failed") /\ UNCHANGED <<queue, faults>>
     \/ output \in {"good", "dear"} /\ job.status = "indexing" /\ Goto(w, "settling")
        /\ UNCHANGED <<queue, faults>>
     \/ output \in {"good", "dear"} /\ job.status # "indexing" /\ Again(w) /\ UNCHANGED faults
     \/ Goto(w, "failed") /\ UNCHANGED queue /\ Fault
     \/ Again(w) /\ Fault
  /\ UNCHANGED <<job, money, provider, outside, clients, forgotten>>

ReleaseTerminal(w) ==
  /\ at[w] = "release"
  /\ \/ ReleaseBalance /\ Finished(w) /\ UNCHANGED faults
     \/ ReleaseFails /\ Again(w)
  /\ UNCHANGED <<job, provider, outside, clients, forgotten>>

-----------------------------------------------------------------------------
(* BatchImageSettlementService *)

Settle(w) ==
  /\ at[w] = "settle"
  /\ CASE job.status = "completed" -> Finished(w)
       [] job.status \notin {"settling", "completed"} -> Again(w)
       [] job.status = "settling" ->
            /\ Goto(w, CASE job.retries = MaxRetries -> "exhaust"
                         [] job.retries < MaxRetries /\ output = "dear" -> "record"
                         [] OTHER -> "capture")
            /\ UNCHANGED queue
  /\ UNCHANGED <<job, money, provider, outside, clients, forgotten, faults>>

\* Mutant: the error of the capture is dropped.
CaptureUnchecked(w) ==
  /\ at[w] = "capture"
  /\ \/ CaptureBalance /\ Goto(w, "mark") /\ UNCHANGED faults
     \/ Goto(w, "mark") /\ UNCHANGED money /\ Fault
  /\ UNCHANGED <<queue, job, provider, outside, clients, forgotten>>

\* A failed transaction, or one whose commit is not known.
Capture(w) ==
  /\ at[w] = "capture"
  /\ \/ CaptureBalance /\ Goto(w, "mark") /\ UNCHANGED faults
     \/ Goto(w, "record") /\ UNCHANGED money /\ Fault
     \/ /\ "capture" \notin claims /\ frozen < Hold
        /\ Goto(w, "record") /\ UNCHANGED <<money, faults>>
     \/ CaptureBalance /\ Goto(w, "record") /\ Fault
  /\ UNCHANGED <<queue, job, provider, outside, clients, forgotten>>

CountRetry == job' = [job EXCEPT !.retries = IF @ < MaxRetries THEN @ + 1 ELSE @,
                                 !.stale = FALSE]

CaptureUnderWay == "capture" \in claims \/ \E v \in Workers : at[v] = "capture"

\* recordSettlementFailure: the update asks neither for the status nor for the
\* claim of a capture, whose answer may be lost or still to come.
RecordFailure(w) ==
  /\ at[w] = "record"
  /\ \/ /\ CountRetry
        /\ UNCHANGED faults
        /\ IF job'.retries = MaxRetries THEN Goto(w, "exhaust") /\ UNCHANGED queue
                                        ELSE Again(w)
     \/ (CountRetry \/ UNCHANGED job) /\ Again(w) /\ Fault
  /\ Forget(IF job'.retries = MaxRetries /\ CaptureUnderWay THEN {"capture"} ELSE {})
  /\ UNCHANGED <<money, provider, outside, clients>>

Exhaust(w) ==
  /\ at[w] = "exhaust"
  /\ \/ /\ ReleaseBalance
        /\ Goto(w, "exhausted")
        /\ UNCHANGED <<queue, job, faults>>
     \/ ReleaseFails /\ CountRetry /\ Again(w)
  /\ UNCHANGED <<provider, outside, clients, forgotten>>

\* The transition, and the read of the status that decides what RunOnce does.
FailExhausted(w) ==
  /\ at[w] = "exhausted"
  /\ IF CanTransition(job.status, "failed")
       THEN SetStatus("failed") /\ Finished(w)
       ELSE UNCHANGED job /\ Again(w)
  /\ UNCHANGED <<money, provider, outside, clients, forgotten, faults>>

MarkSettled(w) ==
  /\ at[w] = "mark"
  /\ \/ job.status = "settling" /\ SetStatus("completed") /\ Finished(w) /\ UNCHANGED faults
     \/ job.status = "settling" /\ SetStatus("completed") /\ Again(w) /\ Fault
     \/ job.status # "settling" /\ UNCHANGED <<job, faults>> /\ Again(w)
  /\ UNCHANGED <<money, provider, outside, clients, forgotten>>

-----------------------------------------------------------------------------
(* Time and the provider *)

ProviderEnds ==
  /\ provider = "running"
  /\ \/ provider' = "succeeded" /\ output' \in Outputs
     \/ provider' = "failed" /\ UNCHANGED output
  /\ UNCHANGED <<queue, job, money, served, clients, at, forgotten, faults>>

\* The account is deleted, loses its key or its type, or its provider is switched
\* off.  Earlier and later than this nobody asks for the account.
AccountLeaves ==
  /\ served /\ job.status \in {"submitted", "running", "indexing"}
  /\ served' = FALSE
  /\ UNCHANGED <<queue, job, money, provider, output, clients, at, forgotten, faults>>

DelayedDue ==
  /\ MoveDueDelayedToReady
  /\ UNCHANGED <<job, money, provider, outside, clients, at, forgotten, faults>>

\* A worker with the job keeps the active entry fresh, unless it stalls.
ActiveStale ==
  /\ RecoverStaleActive
  /\ IF \A w \in Workers : at[w] \in {"idle", "unlock"} THEN UNCHANGED faults ELSE Fault
  /\ UNCHANGED <<job, money, provider, outside, clients, at, forgotten>>

\* A worker refreshes its lock, unless it stalls.
JobLockLapses ==
  /\ LockLapses
  /\ IF lock = Orphaned THEN UNCHANGED faults ELSE Fault
  /\ UNCHANGED <<job, money, provider, outside, clients, at, forgotten>>

WorkerStep(w) ==
  \/ ReserveJob(w) \/ LockJob(w) \/ LockConflict(w) \/ Unlock(w)
  \/ Load(w) \/ Process(w) \/ Poll(w) \/ Transition(w) \/ Index(w)
  \/ ReleaseTerminal(w) \/ Settle(w) \/ Capture(w) \/ RecordFailure(w)
  \/ Exhaust(w) \/ FailExhausted(w) \/ MarkSettled(w)

Next ==
  \/ CreateJob \/ SubmitStep \/ TouchSubmitting \/ Resubmit \/ SubmitCrashes
  \/ CancelRequested \/ CancelStep \/ CancelCrashes
  \/ JobGoesStale \/ RecoverStep \/ RecoverCrashes
  \/ \E w \in Workers : WorkerStep(w) \/ StepFails(w) \/ WorkerCrashes(w)
  \/ ProviderEnds \/ AccountLeaves \/ DelayedDue \/ ActiveStale \/ JobLockLapses

\* Every started call ends, the loops of the server go on, time passes and the
\* provider finishes a job; nobody is assumed to submit, resubmit or cancel.
Fairness ==
  /\ WF_vars(SubmitStep) /\ WF_vars(CancelStep) /\ WF_vars(RecoverStep)
  /\ \A w \in Workers : WF_vars(WorkerStep(w))
  /\ WF_vars(JobGoesStale /\ submit = "done")
  /\ WF_vars(ProviderEnds) /\ WF_vars(DelayedDue)
  /\ WF_vars(ActiveStale /\ faults' = faults)
  /\ WF_vars(JobLockLapses /\ faults' = faults)

Spec == Init /\ [][Next]_vars /\ Fairness

-----------------------------------------------------------------------------
(* Properties *)

\* A job was failed although another worker had indexed it, or its last retry was
\* counted although a capture was committed or under way.
GivenUpLate == {"results", "capture"} \cap forgotten # {}

\* Money is frozen for a batch at most once and afterwards captured or released,
\* once: no request, worker or sweep takes a second such step, whatever fails and
\* however many workers have the job, unless it was given up too late
\* (usage_billing_repo.go, batch_image_billing_hold.go).
Ledger ==
  INSTANCE BalanceHold WITH balance <- balance, frozen <- frozen,
                            effects <- effects, excused <- GivenUpLate
LedgerIsKept == Ledger!Spec

\* An id whose de-duplication key exists is in a list or a zset of the queue:
\* otherwise no Enqueue could bring it back (batch_image_queue.go).
InflightIsQueued == inflight => Queued

\* A completed job was paid for out of its hold, and a job that was paid for is
\* completed or about to be, unless it was given up too late
\* (batch_image_settlement.go).
CompletedIsPaid ==
  ~GivenUpLate =>
    /\ job.status = "completed" => effects = {"hold", "capture"}
    /\ "capture" \in effects => job.status \in {"settling", "completed"}

\* The user gets the frozen money back only when the provider's job cannot go on
\* at the provider's cost: it has ended, or the submission that started it is
\* about to cancel it (batch_image_billing_recovery.go).  "upstream" is
\* forgotten when a crash, a lost answer or a cancellation that had read the
\* job before it was submitted leaves the provider's job to itself.
RefundedMeansStopped ==
  "release" \in effects /\ provider = "running" /\ "upstream" \notin forgotten
    => submit \in {"save", "abort"}

\* A batch whose account is gone, or whose output can never be fetched: the queue
\* tries it for ever, nothing counts the retries, and a cancellation fails.
Stranded ==
  \/ ~served /\ job.status \in {"submitted", "running", "indexing"}
  \/ output = "missing" /\ job.status = "indexing"

\* Frozen money does not stay frozen: it is captured or released in the end,
\* unless everybody who would do so has died or has already tried, or the batch
\* is stranded (batch_image_worker.go, batch_image_processor.go).
HeldIsResolved ==
  (effects = {"hold"}) ~> (effects # {"hold"} \/ "hold" \in forgotten \/ Stranded)

\* What the user is told of a cancellation: the frozen amount is released.
Quiet == submit = "done" /\ cancel = "idle" /\ recover = "idle" /\ ~Queued
CancelledIsReleased ==
  job.status \in {"failed", "cancelled"} /\ Quiet => effects # {"hold"}
=============================================================================
