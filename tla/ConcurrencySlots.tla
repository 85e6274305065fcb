--------------------------- MODULE ConcurrencySlots ---------------------------
(***************************************************************************)
(* The concurrency limit of one user over several server processes         *)
(* (concurrency_service.go, concurrency_cache.go, gateway_helper.go,       *)
(* openai_live.go): two sorted sets in Redis, the slots of requests and    *)
(* the leases of live sessions, and the counter of waiting requests.  An   *)
(* account has the same sets, kept by the same scripts.                    *)
(*                                                                         *)
(* A step is one Lua script or command of Redis.  A request that is over   *)
(* takes part again as a new one, with a new request id.  The index of     *)
(* active users decides only whether a starting process finds the user,    *)
(* and is a choice here; the slots of API keys limit nothing.              *)
(***************************************************************************)
EXTENDS Naturals, FiniteSets

CONSTANTS
  Requests,
  Processes,
  Nobody,           \* the process of a request that has not arrived
  MaxConcurrency,
  QueueLimit,       \* how many requests may wait
  MaxFaults,        \* bound on crashes, stalls and commands that fail
  MaxStarts         \* bound on starting processes

ASSUME SlotsAssumption ==
  /\ IsFiniteSet(Requests)
  /\ Nobody \notin Processes
  /\ MaxConcurrency \in Nat \ {0}
  /\ QueueLimit \in Nat
  /\ MaxFaults \in Nat /\ MaxStarts \in Nat

VARIABLES
  slot,       \* concurrency:user:{id}, "old" when the time to live is over
  live,       \* concurrency:live:user:{id}
  waitCount,  \* concurrency:wait:{id}
  req,        \* where each request is
  server,     \* where each process is in its start
  evicted,    \* requests that lost their member while they ran, by history
  leaked,     \* decrements that never happened, by history
  miscounted, \* the counter may be too low, by history
  faults, starts

redis == <<slot, live, waitCount>>
history == <<evicted, leaked, miscounted>>
vars == <<redis, req, server, history, faults, starts>>

Points ==
  {"idle", "acquire", "enqueue", "poll", "dequeue", "run", "drain", "leave",
   "lease", "create", "session", "endLive"}

Request == [at : Points,
            home : Processes \cup {Nobody},
            holds : BOOLEAN,     \* it was given a slot and is not over
            counted : BOOLEAN]   \* it has incremented the wait counter

Absent == [at |-> "idle", home |-> Nobody, holds |-> FALSE, counted |-> FALSE]

Member == {"none", "fresh", "old"}

TypeOK ==
  /\ slot \in [Requests -> Member] /\ live \in [Requests -> Member]
  /\ waitCount \in Nat
  /\ req \in [Requests -> Request]
  /\ server \in [Processes -> {"down", "clean", "deleteWait", "up"}]
  /\ evicted \subseteq Requests
  /\ leaked \in Nat
  /\ miscounted \in BOOLEAN
  /\ faults \in 0..MaxFaults
  /\ starts \in 0..MaxStarts

\* The process that is up before the others.
First == CHOOSE p \in Processes : TRUE

NoMembers == [r \in Requests |-> "none"]

Init ==
  /\ slot = NoMembers /\ live = NoMembers
  /\ waitCount = 0
  /\ req = [r \in Requests |-> Absent]
  /\ server = [p \in Processes |-> IF p = First THEN "up" ELSE "down"]
  /\ evicted = {} /\ leaked = 0 /\ miscounted = FALSE
  /\ faults = 0 /\ starts = 0

-----------------------------------------------------------------------------
(* Scripts *)

Fault == faults < MaxFaults /\ faults' = faults + 1

Goto(r, point) == req' = [req EXCEPT ![r].at = point]

At(r, point) == req[r].at = point

Members(set) == {r \in Requests : set[r] # "none"}

\* ZREMRANGEBYSCORE
Reaped(set) == [r \in Requests |-> IF set[r] = "old" THEN "none" ELSE set[r]]

\* A running request whose member goes, without being told, runs uncounted.
SetMembers(slots, leases) ==
  /\ slot' = slots
  /\ live' = leases
  /\ evicted' = evicted \cup
       {r \in Requests : req[r].holds /\ slots[r] = "none" /\ leases[r] = "none"}

Count(slots, leases) == Cardinality(Members(slots)) + Cardinality(Members(leases))

\* Mutant: the leases are not counted.
RoomBesideSlots == Cardinality(Members(Reaped(slot))) < MaxConcurrency

\* acquireScript
Room == Count(Reaped(slot), Reaped(live)) < MaxConcurrency

AddSlot(r) == SetMembers([Reaped(slot) EXCEPT ![r] = "fresh"], Reaped(live))

\* acquireLiveLeaseScript with replacingRegularSlots; it reaps leases only.
RoomForLease == Count(slot, Reaped(live)) < MaxConcurrency + 1

AddLease(r) == SetMembers(slot, [Reaped(live) EXCEPT ![r] = "fresh"])

-----------------------------------------------------------------------------
(* A request: acquireUserSlotWithWaitTimeout *)

Arrive(r, p) ==
  /\ At(r, "idle") /\ slot[r] = "none" /\ live[r] = "none"
  /\ server[p] = "up"
  /\ req' = [req EXCEPT ![r] = [Absent EXCEPT !.at = "acquire", !.home = p]]
  /\ UNCHANGED <<redis, server, history, faults, starts>>

\* The request is over; what it left in Redis stays.
Leave(r) == req' = [req EXCEPT ![r] = Absent] /\ evicted' = evicted \ {r}

\* AcquireUserSlot, at once or from the loop of waitForSlotWithPingTimeout.  A
\* request for a live session never waits.
Acquire(r) ==
  /\ At(r, "acquire") \/ At(r, "poll")
  /\ Room
  /\ AddSlot(r)
  /\ \E point \in (IF At(r, "poll") THEN {"dequeue"} ELSE {"run", "lease"}) :
       req' = [req EXCEPT ![r].holds = TRUE, ![r].at = point]
  /\ UNCHANGED <<waitCount, server, leaked, miscounted, faults, starts>>

AcquireRefused(r) ==
  /\ At(r, "acquire") \/ At(r, "poll")
  /\ ~Room
  /\ SetMembers(Reaped(slot), Reaped(live))
  /\ \/ At(r, "acquire") /\ Goto(r, "enqueue")
     \/ At(r, "acquire") /\ req' = [req EXCEPT ![r] = Absent]
     \/ At(r, "poll") /\ UNCHANGED req
  /\ UNCHANGED <<waitCount, server, leaked, miscounted, faults, starts>>

\* The answer is an error, whether or not the script has added the slot.
AcquireFails(r) ==
  /\ At(r, "acquire") \/ At(r, "poll")
  /\ Fault
  /\ \/ UNCHANGED <<slot, live, evicted>>
     \/ Room /\ AddSlot(r)
  /\ req' = [req EXCEPT ![r] = IF At(r, "poll") THEN [@ EXCEPT !.at = "dequeue"] ELSE Absent]
  /\ UNCHANGED <<waitCount, server, leaked, miscounted, starts>>

Increment(r) ==
  /\ At(r, "enqueue")
  /\ waitCount < QueueLimit
  /\ waitCount' = waitCount + 1
  /\ req' = [req EXCEPT ![r].at = "poll", ![r].counted = TRUE]
  /\ UNCHANGED <<slot, live, server, history, faults, starts>>

QueueFull(r) ==
  /\ At(r, "enqueue")
  /\ waitCount >= QueueLimit
  /\ Leave(r)
  /\ UNCHANGED <<redis, server, leaked, miscounted, faults, starts>>

\* IncrementWaitCount lets the request wait if Redis reports an error.
IncrementFails(r) ==
  /\ At(r, "enqueue")
  /\ Fault
  /\ \/ UNCHANGED waitCount /\ Goto(r, "poll")
     \/ /\ waitCount < QueueLimit
        /\ waitCount' = waitCount + 1
        /\ req' = [req EXCEPT ![r].at = "poll", ![r].counted = TRUE]
  /\ UNCHANGED <<slot, live, server, history, starts>>

\* The waiting time is over or the client has left.
StopWaiting(r) ==
  /\ At(r, "poll")
  /\ Goto(r, "dequeue")
  /\ UNCHANGED <<redis, server, history, faults, starts>>

\* What a request that stops waiting becomes.
Dequeued(r) == IF req[r].holds THEN [req[r] EXCEPT !.at = "run", !.counted = FALSE]
                               ELSE Absent

\* Mutant: DECR without looking at the value.
DecrementBelowZero(r) ==
  /\ At(r, "dequeue")
  /\ waitCount' = waitCount - 1
  /\ miscounted' = (miscounted \/ (~req[r].counted /\ waitCount > 0))
  /\ req' = [req EXCEPT ![r] = Dequeued(r)]
  /\ UNCHANGED <<slot, live, server, evicted, leaked, faults, starts>>

\* Mutant: only a request that got its slot decrements.
DecrementIfWon(r) ==
  /\ At(r, "dequeue")
  /\ waitCount' = IF req[r].holds /\ waitCount > 0 THEN waitCount - 1 ELSE waitCount
  /\ miscounted' = (miscounted \/ (~req[r].counted /\ waitCount > 0))
  /\ req' = [req EXCEPT ![r] = Dequeued(r)]
  /\ UNCHANGED <<slot, live, server, evicted, leaked, faults, starts>>

\* The deferred DecrementWaitCount, of a request that was never counted as well.
Decrement(r) ==
  /\ At(r, "dequeue")
  /\ waitCount' = IF waitCount > 0 THEN waitCount - 1 ELSE 0
  /\ miscounted' = (miscounted \/ (~req[r].counted /\ waitCount > 0))
  /\ req' = [req EXCEPT ![r] = Dequeued(r)]
  /\ UNCHANGED <<slot, live, server, evicted, leaked, faults, starts>>

DecrementFails(r) ==
  /\ At(r, "dequeue")
  /\ Fault
  /\ leaked' = IF req[r].counted THEN leaked + 1 ELSE leaked
  /\ req' = [req EXCEPT ![r] = Dequeued(r)]
  /\ UNCHANGED <<redis, server, evicted, miscounted, starts>>

\* Mutant: a request that completes leaves the queue as well.
ReleaseDequeues(r) ==
  /\ At(r, "run") \/ At(r, "leave")
  /\ slot' = [slot EXCEPT ![r] = "none"]
  /\ waitCount' = IF waitCount > 0 THEN waitCount - 1 ELSE 0
  /\ Leave(r)
  /\ UNCHANGED <<live, server, leaked, miscounted, faults, starts>>

Release(r) ==
  /\ At(r, "run") \/ At(r, "leave")
  /\ slot' = [slot EXCEPT ![r] = "none"]
  /\ Leave(r)
  /\ UNCHANGED <<live, waitCount, server, leaked, miscounted, faults, starts>>

\* The slot stays; its time to live is the only thing that ends it.
ReleaseFails(r) ==
  /\ At(r, "run") \/ At(r, "leave")
  /\ Fault
  /\ Leave(r)
  /\ UNCHANGED <<redis, server, leaked, miscounted, starts>>

\* The client leaves: the callback of wrapReleaseOnDone releases the slot, once,
\* while the handler reads the detached upstream to its end, for billing.
Disconnect(r) ==
  /\ At(r, "run")
  /\ \/ SetMembers([slot EXCEPT ![r] = "none"], live) /\ UNCHANGED faults
     \/ UNCHANGED <<slot, live, evicted>> /\ Fault
  /\ Goto(r, "drain")
  /\ UNCHANGED <<waitCount, server, leaked, miscounted, starts>>

\* The upstream has ended; the handler's own release does nothing any more.
Drained(r) ==
  /\ At(r, "drain")
  /\ Leave(r)
  /\ UNCHANGED <<redis, server, leaked, miscounted, faults, starts>>

-----------------------------------------------------------------------------
(* A live session: CreateLive trades its slot for a lease *)

AcquireLiveLease(r) ==
  /\ At(r, "lease")
  /\ RoomForLease
  /\ AddLease(r)
  /\ Goto(r, "create")
  /\ UNCHANGED <<waitCount, server, leaked, miscounted, faults, starts>>

\* ErrLiveConcurrencyFull, or an error: a lease added all the same is left behind.
LeaseRefused(r) ==
  /\ At(r, "lease")
  /\ \/ ~RoomForLease /\ SetMembers(slot, Reaped(live)) /\ UNCHANGED faults
     \/ UNCHANGED <<slot, live, evicted>> /\ Fault
     \/ RoomForLease /\ AddLease(r) /\ Fault
  /\ Goto(r, "leave")
  /\ UNCHANGED <<waitCount, server, leaked, miscounted, starts>>

\* The provider opened the session and the handler returns: the slot goes.
HandOver(r) ==
  /\ At(r, "create")
  /\ \/ SetMembers([slot EXCEPT ![r] = "none"], live) /\ UNCHANGED faults
     \/ UNCHANGED <<slot, live, evicted>> /\ Fault
  /\ Goto(r, "session")
  /\ UNCHANGED <<waitCount, server, leaked, miscounted, starts>>

\* The provider refuses.  Another attempt, with another account, is another request.
CreateFails(r) ==
  /\ At(r, "create")
  /\ \/ SetMembers(slot, [live EXCEPT ![r] = "none"]) /\ UNCHANGED faults
     \/ UNCHANGED <<slot, live, evicted>> /\ Fault
  /\ Goto(r, "leave")
  /\ UNCHANGED <<waitCount, server, leaked, miscounted, starts>>

\* refreshLiveLeaseScript: a lease that is gone is not written again.
RefreshLiveLease(r) ==
  /\ At(r, "session")
  /\ SetMembers(slot, Reaped(live))
  /\ Goto(r, IF live[r] = "fresh" THEN "session" ELSE "endLive")
  /\ UNCHANGED <<waitCount, server, leaked, miscounted, faults, starts>>

\* The session is over, or a refresh did not succeed.
EndSession(r) ==
  /\ At(r, "session")
  /\ Goto(r, "endLive")
  /\ UNCHANGED <<redis, server, history, faults, starts>>

\* finalizeLiveCall
ReleaseLiveLease(r) ==
  /\ At(r, "endLive")
  /\ \/ live' = [live EXCEPT ![r] = "none"] /\ UNCHANGED faults
     \/ UNCHANGED live /\ Fault
  /\ Leave(r)
  /\ UNCHANGED <<slot, waitCount, server, leaked, miscounted, starts>>

-----------------------------------------------------------------------------
(* Processes: CleanupStaleProcessSlots and crashes *)

\* The index may or may not have the user among its members.
Start(p) ==
  /\ server[p] = "down"
  /\ starts < MaxStarts
  /\ starts' = starts + 1
  /\ \E found \in BOOLEAN :
       server' = [server EXCEPT ![p] = IF found THEN "clean" ELSE "up"]
  /\ UNCHANGED <<redis, req, history, faults>>

\* startupCleanupSlotScript: a process that starts has no slot of its own, and
\* the slots of all other processes go, of the live ones too.
CleanSlots(p) ==
  /\ server[p] = "clean"
  /\ SetMembers(NoMembers, live)
  /\ server' = [server EXCEPT ![p] = "deleteWait"]
  /\ UNCHANGED <<waitCount, req, leaked, miscounted, faults, starts>>

DeleteWait(p) ==
  /\ server[p] = "deleteWait"
  /\ waitCount' = 0
  /\ leaked' = 0
  /\ miscounted' = (miscounted \/ waitCount > 0)
  /\ server' = [server EXCEPT ![p] = "up"]
  /\ UNCHANGED <<slot, live, req, evicted, faults, starts>>

\* An error ends the cleanup, not the start.
CleanupFails(p) ==
  /\ server[p] \in {"clean", "deleteWait"}
  /\ Fault
  /\ server' = [server EXCEPT ![p] = "up"]
  /\ UNCHANGED <<redis, req, history, starts>>

Served(p) == {r \in Requests : req[r].home = p}

Crash(p) ==
  /\ server[p] # "down"
  /\ Fault
  /\ server' = [server EXCEPT ![p] = "down"]
  /\ req' = [r \in Requests |-> IF r \in Served(p) THEN Absent ELSE req[r]]
  /\ leaked' = leaked + Cardinality({r \in Served(p) : req[r].counted})
  /\ evicted' = evicted \ Served(p)
  /\ UNCHANGED <<redis, miscounted, starts>>

-----------------------------------------------------------------------------
(* Time, and readers *)

\* Fifteen minutes: nothing refreshes the slot of a long request.
SlotAges(r) ==
  /\ slot[r] = "fresh"
  /\ slot' = [slot EXCEPT ![r] = "old"]
  /\ UNCHANGED <<live, waitCount, req, server, history, faults, starts>>

\* A minute; a session refreshes its lease in time, unless it stalls.
LeaseAges(r) ==
  /\ live[r] = "fresh"
  /\ live' = [live EXCEPT ![r] = "old"]
  /\ IF At(r, "session") THEN Fault ELSE UNCHANGED faults
  /\ UNCHANGED <<slot, waitCount, req, server, history, starts>>

\* Mutant: the key of the slots is never given a time to live.
KeyPersists ==
  /\ Members(live) # {}
  /\ \A r \in Requests : live[r] # "fresh"
  /\ SetMembers(slot, NoMembers)
  /\ UNCHANGED <<waitCount, req, server, leaked, miscounted, faults, starts>>

\* A key goes when no member was added for as long as one lives.
KeyExpires ==
  \E slots, leases \in {slot, live, NoMembers} :
    /\ <<slots, leases>> # <<slot, live>>
    /\ slots = slot \/ (slots = NoMembers /\ \A r \in Requests : slot[r] # "fresh")
    /\ leases = live \/ (leases = NoMembers /\ \A r \in Requests : live[r] # "fresh")
    /\ SetMembers(slots, leases)
    /\ UNCHANGED <<waitCount, req, server, leaked, miscounted, faults, starts>>

\* getCountScript, and the worker of StartSlotCleanupWorker.
GetConcurrency ==
  /\ SetMembers(Reaped(slot), Reaped(live))
  /\ UNCHANGED <<waitCount, req, server, leaked, miscounted, faults, starts>>

\* The counter outlives the longest wait.
WaitExpires ==
  /\ waitCount > 0
  /\ \A r \in Requests : ~req[r].counted
  /\ waitCount' = 0
  /\ leaked' = 0
  /\ UNCHANGED <<slot, live, req, server, evicted, miscounted, faults, starts>>

RequestStep(r) ==
  \/ Acquire(r) \/ AcquireRefused(r) \/ AcquireFails(r)
  \/ Increment(r) \/ QueueFull(r) \/ IncrementFails(r) \/ StopWaiting(r)
  \/ Decrement(r) \/ DecrementFails(r) \/ Release(r) \/ ReleaseFails(r)
  \/ Disconnect(r) \/ Drained(r)
  \/ AcquireLiveLease(r) \/ LeaseRefused(r) \/ HandOver(r) \/ CreateFails(r)
  \/ RefreshLiveLease(r) \/ EndSession(r) \/ ReleaseLiveLease(r)

Boot(p) == CleanSlots(p) \/ DeleteWait(p) \/ CleanupFails(p)

Next ==
  \/ \E r \in Requests : RequestStep(r) \/ SlotAges(r) \/ LeaseAges(r)
  \/ \E r \in Requests, p \in Processes : Arrive(r, p)
  \/ \E p \in Processes : Start(p) \/ Boot(p) \/ Crash(p)
  \/ KeyExpires \/ GetConcurrency \/ WaitExpires

\* Time passes, Redis deletes keys, and a request goes on: its call ends or its
\* client leaves, a session refreshes its lease.  Nobody is assumed to arrive or
\* to start.
Fairness ==
  /\ \A r \in Requests :
       /\ WF_vars(RequestStep(r) /\ faults' = faults)
       /\ WF_vars(SlotAges(r))
       /\ WF_vars(LeaseAges(r) /\ faults' = faults)
  /\ WF_vars(KeyExpires)

Spec == Init /\ [][Next]_vars /\ Fairness

-----------------------------------------------------------------------------
(* Properties *)

\* At most MaxConcurrency requests and live sessions run at once, over all
\* processes.  Four things take a member from under one that runs: the time to
\* live of a slot, which no request refreshes, a stalled session, a process that
\* starts, and the client that leaves a request whose upstream goes on
\* (acquireScript, acquireLiveLeaseScript, wrapReleaseOnDone).
LimitKept ==
  Cardinality({r \in Requests \ evicted : req[r].holds}) <= MaxConcurrency

\* The counter stands for requests that wait, and for those that a crash or an
\* error kept from leaving: nobody is refused for the sake of other ghosts
\* (DecrementWaitCount).
Counted == {r \in Requests : req[r].counted}
NoGhostWaiters == waitCount <= Cardinality(Counted) + leaked

\* Nobody who waits is missing from the counter, and the queue keeps its limit,
\* until a starting process deletes the counter of the live ones or a request
\* that was let in by an error leaves on another one's account (IncrementWaitCount).
WaitersAreCounted ==
  ~miscounted => Cardinality(Counted) <= waitCount /\ waitCount <= QueueLimit

\* A slot or lease that nobody holds does not count for ever, whatever traffic
\* there is: its process died, or its release or its answer was lost.
LeftMemberEnds ==
  \A r \in Requests :
    (r \in Members(slot) \cup Members(live) /\ ~req[r].holds)
      ~> (r \notin Members(slot) \cup Members(live))
=============================================================================
