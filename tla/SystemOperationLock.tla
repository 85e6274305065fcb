------------------------ MODULE SystemOperationLock ------------------------
(***************************************************************************)
(* The global lock of system operations (update, roll-back, restart):      *)
(* system_operation_lock_service.go over the row of idempotency_records    *)
(* that it shares among all instances, with the statements of              *)
(* idempotency_repo.go it uses and the sweep that deletes expired rows.    *)
(*                                                                         *)
(* An administrator's call is a worker: it acquires the lock in two or     *)
(* three statements, runs its operation, which may take longer than the    *)
(* lease, and releases the lock; meanwhile a goroutine renews the lease.   *)
(* Time is what the code compares it with: lock.live says that             *)
(* locked_until is ahead of the clock, aged that expires_at is behind it.  *)
(***************************************************************************)
EXTENDS Naturals, FiniteSets

CONSTANTS
  Workers,    \* administrators' calls
  Operations, \* operation ids: one per call, the same for its retry
  Idle,       \* job[w] of a worker without a call
  Absent,     \* lock when the row does not exist
  MaxFaults   \* bound on crashes, stalls and failed statements

Statuses == {"processing", "succeeded", "failed_retryable"}

Lock == [op : Operations, status : Statuses, live : BOOLEAN]

Job == [op : Operations, at : {"get", "reclaim", "run"}, saw : Statuses]

ASSUME ConstantsAssumption ==
  /\ Idle \notin Job \cup Operations
  /\ Absent \notin Lock
  /\ MaxFaults \in Nat

VARIABLES
  lock,      \* the row: request_fingerprint, status, locked_until
  aged,      \* its expires_at has passed
  holders,   \* workers that know the id of the present row
  job,       \* what each worker is doing
  loop,      \* the operation id each worker's renewal goroutine renews
  overrun,   \* a lease has lapsed under a running operation (history)
  faults     \* faults so far

vars == <<lock, aged, holders, job, loop, overrun, faults>>

TypeOK ==
  /\ lock \in Lock \cup {Absent}
  /\ aged \in BOOLEAN
  /\ holders \subseteq Workers
  /\ job \in [Workers -> Job \cup {Idle}]
  /\ loop \in [Workers -> Operations \cup {Idle}]
  /\ overrun \in BOOLEAN
  /\ faults \in 0..MaxFaults

Init ==
  /\ lock = Absent
  /\ aged = FALSE
  /\ holders = {}
  /\ job = [w \in Workers |-> Idle]
  /\ loop = [w \in Workers |-> Idle]
  /\ overrun = FALSE
  /\ faults = 0

-----------------------------------------------------------------------------
At(w, point) == job[w] # Idle /\ job[w].at = point

Running == {w \in Workers : At(w, "run")}

\* The call ends, and with it its renewal goroutine.
Return(w) ==
  /\ job' = [job EXCEPT ![w] = Idle]
  /\ loop' = [loop EXCEPT ![w] = Idle]
  /\ holders' = holders \ {w}

\* The operation starts, and with it the renewal of its lease.
Run(w, op) ==
  /\ job' = [job EXCEPT ![w] = [op |-> op, at |-> "run", saw |-> "processing"]]
  /\ loop' = [loop EXCEPT ![w] = op]
  /\ holders' = holders \cup {w}

Fault == faults < MaxFaults /\ faults' = faults + 1

-----------------------------------------------------------------------------
(* Acquire: CreateProcessing, GetByScopeAndKeyHash, TryReclaim *)

CreateProcessing(op) ==
  /\ lock = Absent
  /\ lock' = [op |-> op, status |-> "processing", live |-> TRUE]
  /\ aged' = FALSE

AcquireNew(w, op) ==
  /\ job[w] = Idle
  /\ CreateProcessing(op)
  /\ Run(w, op)
  /\ UNCHANGED <<overrun, faults>>

AcquireExisting(w, op) ==
  /\ job[w] = Idle
  /\ lock # Absent
  /\ job' = [job EXCEPT ![w] = [op |-> op, at |-> "get", saw |-> "processing"]]
  /\ UNCHANGED <<lock, aged, holders, loop, overrun, faults>>

\* Busy, also if the lease lapsed after the call took the time; or the row is gone.
GetBusy(w) ==
  /\ At(w, "get")
  /\ lock # Absent => lock.status = "processing"
  /\ Return(w)
  /\ UNCHANGED <<lock, aged, overrun, faults>>

GetFree(w) ==
  /\ At(w, "get")
  /\ lock # Absent
  /\ ~(lock.status = "processing" /\ lock.live)
  /\ job' = [job EXCEPT ![w].at = "reclaim", ![w].saw = lock.status]
  /\ holders' = holders \cup {w}
  /\ UNCHANGED <<lock, aged, loop, overrun, faults>>

\* Mutant: the update is conditional on the id of the row alone.
TryReclaimById(w) ==
  /\ lock # Absent /\ w \in holders
  /\ lock' = [lock EXCEPT !.status = "processing", !.live = TRUE]
  /\ aged' = FALSE

\* The update sets the status and the times, not the operation's id.
TryReclaim(w) ==
  /\ lock # Absent /\ w \in holders
  /\ lock.status = job[w].saw
  /\ ~lock.live
  /\ lock' = [lock EXCEPT !.status = "processing", !.live = TRUE]
  /\ aged' = FALSE

Reclaim(w) ==
  /\ At(w, "reclaim")
  /\ TryReclaim(w)
  /\ Run(w, job[w].op)
  /\ UNCHANGED <<overrun, faults>>

\* No row matches: the call took the time before locked_until, somebody else was
\* faster, or the row is gone.
ReclaimRefused(w) ==
  /\ At(w, "reclaim")
  /\ Return(w)
  /\ UNCHANGED <<lock, aged, overrun, faults>>

\* The row is written and the answer is lost: nobody runs, nobody renews.
AcquireLost(w) ==
  /\ \/ job[w] = Idle /\ \E op \in Operations : CreateProcessing(op)
     \/ At(w, "reclaim") /\ TryReclaim(w)
  /\ Return(w)
  /\ Fault
  /\ UNCHANGED overrun

-----------------------------------------------------------------------------
(* renewLoop: ExtendProcessingLock *)

\* The statement's condition: the row, still processing, with this operation's id.
Extends(w) ==
  /\ loop[w] # Idle
  /\ lock # Absent /\ w \in holders
  /\ lock.status = "processing"
  /\ lock.op = loop[w]

Renew(w) ==
  /\ loop[w] # Idle
  /\ IF Extends(w)
       THEN lock' = [lock EXCEPT !.live = TRUE] /\ aged' = FALSE /\ loop' = loop
       ELSE loop' = [loop EXCEPT ![w] = Idle] /\ UNCHANGED <<lock, aged>>
  /\ UNCHANGED <<holders, job, overrun, faults>>

\* Mutant: a transient error ends the loop.
RenewGivesUp(w) ==
  /\ loop[w] # Idle
  /\ Fault
  /\ loop' = [loop EXCEPT ![w] = Idle]
  /\ UNCHANGED <<lock, aged, holders, job, overrun>>

\* A transient error does not end the loop.
RenewFails(w) ==
  /\ loop[w] # Idle
  /\ Fault
  /\ UNCHANGED <<lock, aged, holders, job, loop, overrun>>

-----------------------------------------------------------------------------
(* Release: MarkSucceeded or MarkFailedRetryable by the id of the row *)

\* Mutant: a failed operation is marked with a status the table does not know.
ReleaseAsFailed(w) ==
  /\ At(w, "run")
  /\ IF lock # Absent /\ w \in holders
       THEN \E s \in {"succeeded", "failed"} :
              lock' = [lock EXCEPT !.status = s, !.live = FALSE] /\ aged' = FALSE
       ELSE UNCHANGED <<lock, aged>>
  /\ Return(w)
  /\ UNCHANGED <<overrun, faults>>

Release(w) ==
  /\ At(w, "run")
  /\ IF lock # Absent /\ w \in holders
       THEN \E s \in {"succeeded", "failed_retryable"} :
              lock' = [lock EXCEPT !.status = s, !.live = FALSE] /\ aged' = FALSE
       ELSE UNCHANGED <<lock, aged>>
  /\ Return(w)
  /\ UNCHANGED <<overrun, faults>>

\* Mutant: the renewal is stopped only after the update succeeded.
ReleaseFailsRenewing(w) ==
  /\ At(w, "run")
  /\ Fault
  /\ job' = [job EXCEPT ![w] = Idle]
  /\ UNCHANGED <<lock, aged, holders, loop, overrun>>

\* The update fails, and its error is dropped.
ReleaseFails(w) ==
  /\ At(w, "run")
  /\ Fault
  /\ Return(w)
  /\ UNCHANGED <<lock, aged, overrun>>

-----------------------------------------------------------------------------
(* Time and failures *)

LeaseEnds ==
  /\ lock # Absent /\ lock.live
  /\ lock' = [lock EXCEPT !.live = FALSE]
  /\ overrun' = (overrun \/ Running # {})
  /\ UNCHANGED <<aged, holders, job, loop>>

Renewed == \E w \in Workers : Extends(w)

LeaseLapses == ~Renewed /\ LeaseEnds /\ UNCHANGED faults

\* Three attempts in a row come too late.
RenewalStalls == Renewed /\ LeaseEnds /\ Fault

\* The row outlives every operation (an hour against 15 minutes).
RowExpires ==
  /\ lock # Absent /\ ~lock.live /\ ~aged
  /\ aged' = TRUE
  /\ IF Running \cap holders # {} THEN Fault ELSE UNCHANGED faults
  /\ UNCHANGED <<lock, holders, job, loop, overrun>>

\* cleanupOnce
DeleteExpired ==
  /\ aged
  /\ lock' = Absent
  /\ aged' = FALSE
  /\ holders' = {}
  /\ UNCHANGED <<job, loop, overrun, faults>>

\* The process of w dies.
Crash(w) ==
  /\ job[w] # Idle
  /\ Fault
  /\ Return(w)
  /\ UNCHANGED <<lock, aged, overrun>>

-----------------------------------------------------------------------------
Step(w) ==
  \/ GetBusy(w) \/ GetFree(w) \/ Reclaim(w) \/ ReclaimRefused(w) \/ Release(w)

Disturb(w) ==
  \/ AcquireLost(w) \/ RenewFails(w) \/ ReleaseFails(w) \/ Crash(w)

Time == LeaseLapses \/ RenewalStalls \/ RowExpires \/ DeleteExpired

Next ==
  \/ \E w \in Workers, op \in Operations : AcquireNew(w, op) \/ AcquireExisting(w, op)
  \/ \E w \in Workers : Step(w) \/ Renew(w) \/ Disturb(w)
  \/ Time

Spec == Init /\ [][Next]_vars

(***************************************************************************)
(* Fairness.  Calls and renewal loops run, operations end (their context   *)
(* has a deadline), a lease that nobody extends lapses.                    *)
(***************************************************************************)
Fairness ==
  /\ \A w \in Workers : WF_vars(Step(w)) /\ WF_vars(Renew(w))
  /\ WF_vars(LeaseLapses)

FairSpec == Spec /\ Fairness

-----------------------------------------------------------------------------
(* Properties *)

\* As long as no lease has lapsed under a running operation, at most one system
\* operation runs, however many calls race through create, get and reclaim.
ExclusiveUnlessOverrun == ~overrun => Cardinality(Running) <= 1

\* An operation whose id the row carries is not overrun: without a fault the
\* lease first lapses under an operation that the row does not name.
NamedOperationKeepsLease ==
  [][(overrun' /\ ~overrun /\ faults' = faults) =>
       \E w \in Running : job[w].op # lock.op]_vars

\* Nobody keeps the lock for ever: not a call that died, not one whose release
\* failed, not a renewal loop that outlives its operation.
LockIsFreed == (lock # Absent /\ lock.live) ~> (lock = Absent \/ ~lock.live)

\* ErrSystemOperationBusy: "another system operation is in progress", and the
\* test of the renewal: "locked_until should be renewed while lock is held".
OneOperationAtATime == Cardinality(Running) <= 1
=============================================================================
