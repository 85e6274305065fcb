--------------------------- MODULE BatchImageQueue ---------------------------
(***************************************************************************)
(* The queue of batch image jobs in Redis (batch_image_queue.go), seen by  *)
(* one batch id: every script names one id, and the order of different ids *)
(* decides nothing.  An operator is one Lua script or one MULTI, hence one *)
(* step.  Redis keeps its data; the processes that use it may die.         *)
(***************************************************************************)
EXTENDS Naturals

CONSTANTS
  Workers,      \* worker goroutines, one per server instance
  Unlocked,     \* lock: no key
  Orphaned      \* lock: the token of a worker that died

VARIABLES
  ready,        \* copies of the id in the ready list
  delayed,      \* the id is a member of the delayed zset
  active,       \* the id is a member of the active zset
  inflight,     \* the de-duplication key of the id exists
  lock          \* who set the lock key of the id

queue == <<ready, delayed, active, inflight, lock>>

QueueTypeOK ==
  /\ ready \in Nat
  /\ delayed \in BOOLEAN
  /\ active \in BOOLEAN
  /\ inflight \in BOOLEAN
  /\ lock \in Workers \cup {Unlocked, Orphaned}

QueueInit ==
  /\ ready = 0
  /\ delayed = FALSE
  /\ active = FALSE
  /\ inflight = FALSE
  /\ lock = Unlocked

\* ErrBatchImageAlreadyQueued is no error to any caller.
Enqueue ==
  /\ ready' = IF inflight THEN ready ELSE ready + 1
  /\ inflight' = TRUE
  /\ UNCHANGED <<delayed, active, lock>>

\* Mutant: RPOP and ZADD as two commands, the process dying in between.
ReserveTorn ==
  /\ ready > 0
  /\ ready' = ready - 1
  /\ active' \in {active, TRUE}
  /\ UNCHANGED <<delayed, inflight, lock>>

Reserve ==
  /\ ready > 0
  /\ ready' = ready - 1
  /\ active' = TRUE
  /\ UNCHANGED <<delayed, inflight, lock>>

\* Mutant: the id is removed from the active zset only.
RequeueNever ==
  /\ active' = FALSE
  /\ UNCHANGED <<ready, delayed, inflight, lock>>

\* Every caller gives a positive delay.
RequeueAfter ==
  /\ active' = FALSE
  /\ delayed' = TRUE
  /\ UNCHANGED <<ready, inflight, lock>>

Ack ==
  /\ active' = FALSE
  /\ delayed' = FALSE
  /\ inflight' = FALSE
  /\ UNCHANGED <<ready, lock>>

MoveDueDelayedToReady ==
  /\ delayed
  /\ delayed' = FALSE
  /\ ready' = ready + 1
  /\ UNCHANGED <<active, inflight, lock>>

RecoverStaleActive ==
  /\ active
  /\ active' = FALSE
  /\ ready' = ready + 1
  /\ UNCHANGED <<delayed, inflight, lock>>

TryAcquireJobLock(w) ==
  /\ lock = Unlocked
  /\ lock' = w
  /\ UNCHANGED <<ready, delayed, active, inflight>>

\* The token is compared: a lock that lapsed and was taken again stays.
ReleaseJobLock(w) ==
  /\ lock' = IF lock = w THEN Unlocked ELSE lock
  /\ UNCHANGED <<ready, delayed, active, inflight>>

LockLapses ==
  /\ lock # Unlocked
  /\ lock' = Unlocked
  /\ UNCHANGED <<ready, delayed, active, inflight>>

Queued == ready > 0 \/ delayed \/ active
=============================================================================
