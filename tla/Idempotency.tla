---------------------------- MODULE Idempotency ----------------------------
(***************************************************************************)
(* One idempotency key: IdempotencyCoordinator.Execute (idempotency.go)    *)
(* over its row of idempotency_records (idempotency_repo.go) and the sweep *)
(* that deletes expired rows (idempotency_cleanup_service.go).             *)
(*                                                                         *)
(* A request that carries the key is a worker; a step is one statement, or *)
(* the execution of the request.  Every call takes the time once, at its   *)
(* start, and compares the row with that time however late it reads or     *)
(* updates it: pastLock and pastExpiry are the calls whose time is not     *)
(* before the row's locked_until and expires_at.                           *)
(***************************************************************************)
EXTENDS Naturals, FiniteSets

CONSTANTS
  Workers,      \* requests with the key
  Fingerprints, \* their fingerprints: route, actor and payload
  Idle,         \* job[w] of a worker without a request
  Absent,       \* row when there is none
  None,         \* body of a row that has none
  MaxFaults     \* bound on crashes and failed statements

Statuses == {"processing", "succeeded", "failed_retryable"}

\* The stored body is known by the fingerprint of the request it answered.
Row == [fp : Fingerprints, status : Statuses, locked : BOOLEAN,
        expired : BOOLEAN, body : Fingerprints \cup {None}]

Points == {"get", "reclaimExpired", "reget", "reclaimFailed", "execute",
           "markOk", "markFailed"}

Job == [fp : Fingerprints, at : Points, saw : Statuses]

ASSUME ConstantsAssumption ==
  /\ Idle \notin Job
  /\ Absent \notin Row
  /\ None \notin Fingerprints
  /\ MaxFaults \in Nat

VARIABLES
  row,        \* the row of the key
  holders,    \* calls that know the id of the present row
  pastLock,   \* calls whose time is not before the row's locked_until
  pastExpiry, \* calls whose time is not before the row's expires_at
  job,        \* what each worker is doing
  effects,    \* successful executions since the row last expired
  replays,    \* <<fingerprint asked, fingerprint answered>> of the replays
  stale,      \* a call reclaimed, as expired, a row that was not (history)
  faults      \* faults so far

vars == <<row, holders, pastLock, pastExpiry, job, effects, replays, stale, faults>>
clock == <<holders, pastLock, pastExpiry>>
history == <<effects, replays, stale>>

TypeOK ==
  /\ row \in Row \cup {Absent}
  /\ holders \subseteq Workers
  /\ pastLock \subseteq Workers
  /\ pastExpiry \subseteq Workers
  /\ job \in [Workers -> Job \cup {Idle}]
  /\ effects \in Nat
  /\ replays \subseteq Fingerprints \X (Fingerprints \cup {None})
  /\ stale \in BOOLEAN
  /\ faults \in 0..MaxFaults

Init ==
  /\ row = Absent
  /\ holders = {}
  /\ pastLock = {}
  /\ pastExpiry = {}
  /\ job = [w \in Workers |-> Idle]
  /\ effects = 0
  /\ replays = {}
  /\ stale = FALSE
  /\ faults = 0

-----------------------------------------------------------------------------
(* Helpers *)

At(w, point) == job[w] # Idle /\ job[w].at = point

\* Calls that own the row: from the claim to the mark.
Executing ==
  {w \in Workers : At(w, "execute") \/ At(w, "markOk") \/ At(w, "markFailed")}

Goto(w, point) == job' = [job EXCEPT ![w].at = point]

\* The call is answered; its time and the id it knew are gone with it.
Return(w) ==
  /\ job' = [job EXCEPT ![w] = Idle]
  /\ holders' = holders \ {w}
  /\ pastLock' = pastLock \ {w}
  /\ pastExpiry' = pastExpiry \ {w}

\* A lock that ends later than any call in flight began.
LockedAhead == pastLock' = {} /\ pastExpiry' = {}

Fault == faults < MaxFaults /\ faults' = faults + 1

Mismatch(w) == row.fp # job[w].fp

-----------------------------------------------------------------------------
(* Execute: the claim *)

CreateProcessing(fp) ==
  /\ row = Absent
  /\ row' = [fp |-> fp, status |-> "processing", locked |-> TRUE,
             expired |-> FALSE, body |-> None]
  /\ LockedAhead

ClaimNew(w, fp) ==
  /\ job[w] = Idle
  /\ CreateProcessing(fp)
  /\ holders' = holders \cup {w}
  /\ job' = [job EXCEPT ![w] = [fp |-> fp, at |-> "execute", saw |-> "processing"]]
  /\ UNCHANGED <<history, faults>>

ClaimExisting(w, fp) ==
  /\ job[w] = Idle
  /\ row # Absent
  /\ job' = [job EXCEPT ![w] = [fp |-> fp, at |-> "get", saw |-> "processing"]]
  /\ pastLock' = IF row.locked THEN pastLock ELSE pastLock \cup {w}
  /\ pastExpiry' = IF row.expired THEN pastExpiry \cup {w} ELSE pastExpiry
  /\ UNCHANGED <<row, holders, history, faults>>

\* The row was deleted, or belongs to another payload.
Refuse(w) ==
  /\ At(w, "get") \/ At(w, "reget")
  /\ row # Absent => Mismatch(w)
  /\ Return(w)
  /\ UNCHANGED <<row, history, faults>>

\* Whatever its status, a row that expired before the call is reclaimed.
GetExpired(w) ==
  /\ At(w, "get")
  /\ row # Absent /\ ~Mismatch(w)
  /\ w \in pastExpiry
  /\ job' = [job EXCEPT ![w].at = "reclaimExpired", ![w].saw = row.status]
  /\ holders' = holders \cup {w}
  /\ UNCHANGED <<row, pastLock, pastExpiry, history, faults>>

\* Mutant: the row read after a lost reclaim may belong to another payload.
DecidesUnchecked(w) ==
  /\ row # Absent
  /\ job[w] # Idle
  /\ \/ At(w, "get") /\ w \notin pastExpiry /\ ~Mismatch(w)
     \/ At(w, "reget")

\* The status decides: of a row that has not expired, or of the row read again
\* after a lost reclaim.
Decides(w) ==
  /\ (At(w, "get") /\ w \notin pastExpiry) \/ At(w, "reget")
  /\ row # Absent /\ ~Mismatch(w)

Replay(w) ==
  /\ Decides(w)
  /\ row.status = "succeeded"
  /\ replays' = replays \cup {<<job[w].fp, row.body>>}
  /\ Return(w)
  /\ UNCHANGED <<row, effects, stale, faults>>

\* In progress, or a failure whose backoff is not over.
Conflict(w) ==
  /\ Decides(w)
  /\ \/ row.status = "processing"
     \/ row.status = "failed_retryable" /\ w \notin pastLock
  /\ Return(w)
  /\ UNCHANGED <<row, history, faults>>

GetFailed(w) ==
  /\ Decides(w)
  /\ row.status = "failed_retryable" /\ w \in pastLock
  /\ job' = [job EXCEPT ![w].at = "reclaimFailed", ![w].saw = "failed_retryable"]
  /\ holders' = holders \cup {w}
  /\ UNCHANGED <<row, pastLock, pastExpiry, history, faults>>

-----------------------------------------------------------------------------
(* TryReclaim *)

\* Mutant: the update has no condition on the status.
ReclaimableAnyhow(w) == row # Absent /\ w \in holders /\ w \in pastLock

\* The statement's condition: the row, its status and its lock, not its expiry.
Reclaimable(w) ==
  /\ row # Absent /\ w \in holders
  /\ row.status = job[w].saw
  /\ w \in pastLock

TryReclaim(w) ==
  /\ Reclaimable(w)
  /\ row' = [row EXCEPT !.status = "processing", !.locked = TRUE, !.expired = FALSE]
  /\ stale' = (stale \/ (At(w, "reclaimExpired") /\ ~row.expired))

Reclaim(w) ==
  /\ At(w, "reclaimExpired") \/ At(w, "reclaimFailed")
  /\ TryReclaim(w)
  /\ LockedAhead
  /\ Goto(w, "execute")
  /\ UNCHANGED <<holders, effects, replays, faults>>

\* After a lost reclaim of an expired row the call reads the row again; after
\* one of a failed row it is refused.
ReclaimLost(w) ==
  /\ ~Reclaimable(w)
  /\ \/ At(w, "reclaimExpired") /\ Goto(w, "reget") /\ UNCHANGED clock
     \/ At(w, "reclaimFailed") /\ Return(w)
  /\ UNCHANGED <<row, history, faults>>

\* The statement that claims the row commits and its answer is lost: the call
\* is refused, nobody executes.
ClaimLost(w) ==
  /\ \/ /\ job[w] = Idle
        /\ \E fp \in Fingerprints : CreateProcessing(fp)
        /\ UNCHANGED <<holders, job, stale>>
     \/ /\ At(w, "reclaimExpired") \/ At(w, "reclaimFailed")
        /\ TryReclaim(w)
        /\ LockedAhead
        /\ holders' = holders \ {w}
        /\ job' = [job EXCEPT ![w] = Idle]
  /\ Fault
  /\ UNCHANGED <<effects, replays>>

-----------------------------------------------------------------------------
(* Execute: the execution and its mark *)

Succeed(w) ==
  /\ At(w, "execute")
  /\ effects' = effects + 1
  /\ Goto(w, "markOk")
  /\ UNCHANGED <<row, clock, replays, stale, faults>>

Fail(w) ==
  /\ At(w, "execute")
  /\ Goto(w, "markFailed")
  /\ UNCHANGED <<row, clock, history, faults>>

\* locked_until becomes NULL: nobody's time is before it.
MarkSucceeded(w) ==
  /\ At(w, "markOk")
  /\ job' = [job EXCEPT ![w] = Idle]
  /\ IF row # Absent /\ w \in holders
       THEN /\ row' = [row EXCEPT !.status = "succeeded", !.body = job[w].fp,
                                  !.locked = FALSE, !.expired = FALSE]
            /\ pastLock' = {v \in Workers : job[v] # Idle} \ {w}
            /\ pastExpiry' = {}
       ELSE UNCHANGED <<row, pastLock, pastExpiry>>
  /\ holders' = holders \ {w}
  /\ UNCHANGED <<history, faults>>

\* Mutant: a failed execution is marked with a status that nobody reads.
MarkFailedUnknown(w) ==
  /\ At(w, "markFailed")
  /\ row' = [row EXCEPT !.status = "failed", !.locked = TRUE, !.expired = FALSE]
  /\ LockedAhead
  /\ holders' = holders \ {w}
  /\ job' = [job EXCEPT ![w] = Idle]
  /\ UNCHANGED <<history, faults>>

\* Mutant: a failed execution leaves the row as it is.
MarkNothing(w) ==
  /\ At(w, "markFailed")
  /\ Return(w)
  /\ UNCHANGED <<row, history, faults>>

MarkFailedRetryable(w) ==
  /\ At(w, "markFailed")
  /\ IF row # Absent /\ w \in holders
       THEN /\ row' = [row EXCEPT !.status = "failed_retryable", !.locked = TRUE,
                                  !.expired = FALSE]
            /\ LockedAhead
       ELSE UNCHANGED <<row, pastLock, pastExpiry>>
  /\ holders' = holders \ {w}
  /\ job' = [job EXCEPT ![w] = Idle]
  /\ UNCHANGED <<history, faults>>

\* The process dies, a statement fails, or the client has gone, and with its
\* request the context of every statement that was still to come.
Abandon(w) ==
  /\ job[w] # Idle
  /\ Fault
  /\ Return(w)
  /\ UNCHANGED <<row, history>>

-----------------------------------------------------------------------------
(* Time *)

LockLapses ==
  /\ row # Absent /\ row.locked
  /\ row' = [row EXCEPT !.locked = FALSE]
  /\ UNCHANGED <<clock, job, history, faults>>

\* No execution lasts as long as its row: a day, or an hour for a system
\* operation, whose context ends after a quarter of one.
RowExpires ==
  /\ row # Absent /\ ~row.locked /\ ~row.expired
  /\ Executing = {}
  /\ row' = [row EXCEPT !.expired = TRUE]
  /\ effects' = 0
  /\ UNCHANGED <<clock, job, replays, stale, faults>>

DeleteExpired ==
  /\ row # Absent /\ row.expired
  /\ row' = Absent
  /\ holders' = {}
  /\ pastLock' = {} /\ pastExpiry' = {}
  /\ UNCHANGED <<job, history, faults>>

-----------------------------------------------------------------------------
Step(w) ==
  \/ Refuse(w) \/ GetExpired(w) \/ Replay(w) \/ Conflict(w) \/ GetFailed(w)
  \/ Reclaim(w) \/ ReclaimLost(w)
  \/ Succeed(w) \/ Fail(w) \/ MarkSucceeded(w) \/ MarkFailedRetryable(w)

Begin(w, fp) == ClaimNew(w, fp) \/ ClaimExisting(w, fp)

Next ==
  \/ \E w \in Workers : Step(w) \/ ClaimLost(w) \/ Abandon(w)
  \/ \E w \in Workers, fp \in Fingerprints : Begin(w, fp)
  \/ LockLapses \/ RowExpires \/ DeleteExpired

Spec == Init /\ [][Next]_vars

-----------------------------------------------------------------------------
(* Properties *)

\* Between two expiries of the key its request is executed with success at most
\* once, whatever retries, failures, lost answers and sweeps do, as long as no
\* call takes a row for expired that another call has renewed since it read it.
OneEffectUnlessStale == ~stale => effects <= 1

\* A replayed response answers the same request, also when the row was deleted
\* and created anew by another payload while the call was on its way.
ReplayIsOwn == \A r \in replays : r[1] = r[2]

\* A row that says "processing" while nobody executes is left only by a fault:
\* no refusal and no failed execution keeps the key from being retried.
StuckOnlyAfterFault ==
  (row # Absent /\ row.status = "processing" /\ faults = 0) =>
    Executing \cap holders # {}
=============================================================================
