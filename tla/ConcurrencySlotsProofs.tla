------------------------- MODULE ConcurrencySlotsProofs -------------------------
(***************************************************************************)
(* Proofs about ConcurrencySlots, for any finite set of requests, any      *)
(* processes, limits and bounds.                                           *)
(***************************************************************************)
EXTENDS ConcurrencySlots, FiniteSetTheorems, TLAPS

-----------------------------------------------------------------------------
(* Members of the sorted sets *)

LEMMA ReapedType ==
  ASSUME NEW f \in [Requests -> Member]
  PROVE  Reaped(f) \in [Requests -> Member]
  BY DEF Reaped, Member

LEMMA NoMembersType == NoMembers \in [Requests -> Member]
  BY DEF NoMembers, Member

LEMMA AbsentType == Absent \in Request
  BY DEF Absent, Request, Points

-----------------------------------------------------------------------------
(* Type correctness *)

LEMMA TypeStep ==
  ASSUME TypeOK, Next
  PROVE  TypeOK'
<1> USE SlotsAssumption, ReapedType, NoMembersType, AbsentType
        DEF TypeOK, redis, history, Fault, SetMembers, AddSlot, AddLease, Goto, Leave
<1>1. ASSUME NEW r \in Requests, Acquire(r) PROVE TypeOK'
  <2>1. slot' \in [Requests -> Member] /\ live' \in [Requests -> Member]
    BY <1>1 DEF Acquire, Member
  <2>2. req' \in [Requests -> Request]
    <3>1. PICK point \in {"dequeue", "run", "lease"} :
            req' = [req EXCEPT ![r].holds = TRUE, ![r].at = point]
      BY <1>1 DEF Acquire
    <3>2. [req[r] EXCEPT !.holds = TRUE, !.at = point] \in Request
      BY DEF Request, Points
    <3> QED BY <3>1, <3>2
  <2>3. waitCount' \in Nat /\ faults' \in 0..MaxFaults /\ leaked' \in Nat
    BY <1>1 DEF Acquire
  <2> QED BY <1>1, <2>1, <2>2, <2>3 DEF Acquire
<1>2. ASSUME NEW r \in Requests, AcquireRefused(r) PROVE TypeOK'
  <2>1. slot' \in [Requests -> Member] /\ live' \in [Requests -> Member]
    BY <1>2 DEF AcquireRefused, Member
  <2>2. req' \in [Requests -> Request]
    <3>1. [req[r] EXCEPT !.at = "enqueue"] \in Request /\ Absent \in Request
      BY DEF Request, Points, Absent
    <3>2. \/ req' = [req EXCEPT ![r] = [req[r] EXCEPT !.at = "enqueue"]]
          \/ req' = [req EXCEPT ![r] = Absent]
          \/ req' = req
      BY <1>2 DEF AcquireRefused, Goto
    <3> QED BY <3>1, <3>2
  <2>3. waitCount' \in Nat /\ faults' \in 0..MaxFaults /\ leaked' \in Nat
    BY <1>2 DEF AcquireRefused
  <2> QED BY <1>2, <2>1, <2>2, <2>3 DEF AcquireRefused
<1>3. ASSUME NEW r \in Requests, AcquireFails(r) PROVE TypeOK'
  <2>1. slot' \in [Requests -> Member] /\ live' \in [Requests -> Member]
    BY <1>3 DEF AcquireFails, Member
  <2>2. req' \in [Requests -> Request]
    <3>1. [req[r] EXCEPT !.at = "dequeue"] \in Request /\ Absent \in Request
      BY DEF Request, Points, Absent
    <3> QED BY <1>3, <3>1 DEF AcquireFails
  <2>3. waitCount' \in Nat /\ faults' \in 0..MaxFaults /\ leaked' \in Nat
    BY <1>3 DEF AcquireFails
  <2> QED BY <1>3, <2>1, <2>2, <2>3 DEF AcquireFails
<1>4. ASSUME NEW r \in Requests, Increment(r) PROVE TypeOK'
  <2>1. slot' \in [Requests -> Member] /\ live' \in [Requests -> Member]
    BY <1>4 DEF Increment, Member
  <2>2. req' \in [Requests -> Request]
    <3>1. [req[r] EXCEPT !.at = "poll", !.counted = TRUE] \in Request
      BY DEF Request, Points
    <3> QED BY <1>4, <3>1 DEF Increment
  <2>3. waitCount' \in Nat /\ faults' \in 0..MaxFaults /\ leaked' \in Nat
    BY <1>4 DEF Increment
  <2> QED BY <1>4, <2>1, <2>2, <2>3 DEF Increment
<1>5. ASSUME NEW r \in Requests, QueueFull(r) PROVE TypeOK'
  <2>1. slot' \in [Requests -> Member] /\ live' \in [Requests -> Member]
    BY <1>5 DEF QueueFull, Member
  <2>2. req' \in [Requests -> Request]
    BY <1>5 DEF QueueFull, Request, Points
  <2>3. waitCount' \in Nat /\ faults' \in 0..MaxFaults /\ leaked' \in Nat
    BY <1>5 DEF QueueFull
  <2> QED BY <1>5, <2>1, <2>2, <2>3 DEF QueueFull
<1>6. ASSUME NEW r \in Requests, IncrementFails(r) PROVE TypeOK'
  <2>1. slot' \in [Requests -> Member] /\ live' \in [Requests -> Member]
    BY <1>6 DEF IncrementFails, Member
  <2>2. req' \in [Requests -> Request]
    BY <1>6 DEF IncrementFails, Request, Points
  <2>3. waitCount' \in Nat /\ faults' \in 0..MaxFaults /\ leaked' \in Nat
    BY <1>6 DEF IncrementFails
  <2> QED BY <1>6, <2>1, <2>2, <2>3 DEF IncrementFails
<1>7. ASSUME NEW r \in Requests, StopWaiting(r) PROVE TypeOK'
  <2>1. slot' \in [Requests -> Member] /\ live' \in [Requests -> Member]
    BY <1>7 DEF StopWaiting, Member
  <2>2. req' \in [Requests -> Request]
    BY <1>7 DEF StopWaiting, Request, Points
  <2>3. waitCount' \in Nat /\ faults' \in 0..MaxFaults /\ leaked' \in Nat
    BY <1>7 DEF StopWaiting
  <2> QED BY <1>7, <2>1, <2>2, <2>3 DEF StopWaiting
<1>8. ASSUME NEW r \in Requests, Decrement(r) PROVE TypeOK'
  <2>1. slot' \in [Requests -> Member] /\ live' \in [Requests -> Member]
    BY <1>8 DEF Decrement, Member
  <2>2. req' \in [Requests -> Request]
    <3>1. Dequeued(r) \in Request
      BY DEF Dequeued, Request, Points, Absent
    <3> QED BY <1>8, <3>1 DEF Decrement
  <2>3. waitCount' \in Nat /\ faults' \in 0..MaxFaults /\ leaked' \in Nat
    BY <1>8 DEF Decrement
  <2> QED BY <1>8, <2>1, <2>2, <2>3 DEF Decrement
<1>9. ASSUME NEW r \in Requests, DecrementFails(r) PROVE TypeOK'
  <2>1. slot' \in [Requests -> Member] /\ live' \in [Requests -> Member]
    BY <1>9 DEF DecrementFails, Member
  <2>2. req' \in [Requests -> Request]
    <3>1. Dequeued(r) \in Request
      BY DEF Dequeued, Request, Points, Absent
    <3> QED BY <1>9, <3>1 DEF DecrementFails
  <2>3. waitCount' \in Nat /\ faults' \in 0..MaxFaults /\ leaked' \in Nat
    BY <1>9 DEF DecrementFails
  <2> QED BY <1>9, <2>1, <2>2, <2>3 DEF DecrementFails
<1>10. ASSUME NEW r \in Requests, Release(r) PROVE TypeOK'
  <2>1. slot' \in [Requests -> Member] /\ live' \in [Requests -> Member]
    BY <1>10 DEF Release, Member
  <2>2. req' \in [Requests -> Request]
    BY <1>10 DEF Release, Request, Points
  <2>3. waitCount' \in Nat /\ faults' \in 0..MaxFaults /\ leaked' \in Nat
    BY <1>10 DEF Release
  <2> QED BY <1>10, <2>1, <2>2, <2>3 DEF Release
<1>11. ASSUME NEW r \in Requests, ReleaseFails(r) PROVE TypeOK'
  <2>1. slot' \in [Requests -> Member] /\ live' \in [Requests -> Member]
    BY <1>11 DEF ReleaseFails, Member
  <2>2. req' \in [Requests -> Request]
    BY <1>11 DEF ReleaseFails, Request, Points
  <2>3. waitCount' \in Nat /\ faults' \in 0..MaxFaults /\ leaked' \in Nat
    BY <1>11 DEF ReleaseFails
  <2> QED BY <1>11, <2>1, <2>2, <2>3 DEF ReleaseFails
<1>30. ASSUME NEW r \in Requests, Disconnect(r) PROVE TypeOK'
  <2>1. slot' \in [Requests -> Member] /\ live' \in [Requests -> Member]
    BY <1>30 DEF Disconnect, Member
  <2>2. req' \in [Requests -> Request]
    BY <1>30 DEF Disconnect, Request, Points
  <2>3. waitCount' \in Nat /\ faults' \in 0..MaxFaults /\ leaked' \in Nat
    BY <1>30 DEF Disconnect
  <2> QED BY <1>30, <2>1, <2>2, <2>3 DEF Disconnect
<1>31. ASSUME NEW r \in Requests, Drained(r) PROVE TypeOK'
  <2>1. slot' \in [Requests -> Member] /\ live' \in [Requests -> Member]
    BY <1>31 DEF Drained, Member
  <2>2. req' \in [Requests -> Request]
    BY <1>31 DEF Drained, Request, Points
  <2>3. waitCount' \in Nat /\ faults' \in 0..MaxFaults /\ leaked' \in Nat
    BY <1>31 DEF Drained
  <2> QED BY <1>31, <2>1, <2>2, <2>3 DEF Drained
<1>12. ASSUME NEW r \in Requests, AcquireLiveLease(r) PROVE TypeOK'
  <2>1. slot' \in [Requests -> Member] /\ live' \in [Requests -> Member]
    BY <1>12 DEF AcquireLiveLease, Member
  <2>2. req' \in [Requests -> Request]
    BY <1>12 DEF AcquireLiveLease, Request, Points
  <2>3. waitCount' \in Nat /\ faults' \in 0..MaxFaults /\ leaked' \in Nat
    BY <1>12 DEF AcquireLiveLease
  <2> QED BY <1>12, <2>1, <2>2, <2>3 DEF AcquireLiveLease
<1>13. ASSUME NEW r \in Requests, LeaseRefused(r) PROVE TypeOK'
  <2>1. slot' \in [Requests -> Member] /\ live' \in [Requests -> Member]
    BY <1>13 DEF LeaseRefused, Member
  <2>2. req' \in [Requests -> Request]
    BY <1>13 DEF LeaseRefused, Request, Points
  <2>3. waitCount' \in Nat /\ faults' \in 0..MaxFaults /\ leaked' \in Nat
    BY <1>13 DEF LeaseRefused
  <2> QED BY <1>13, <2>1, <2>2, <2>3 DEF LeaseRefused
<1>14. ASSUME NEW r \in Requests, HandOver(r) PROVE TypeOK'
  <2>1. slot' \in [Requests -> Member] /\ live' \in [Requests -> Member]
    BY <1>14 DEF HandOver, Member
  <2>2. req' \in [Requests -> Request]
    BY <1>14 DEF HandOver, Request, Points
  <2>3. waitCount' \in Nat /\ faults' \in 0..MaxFaults /\ leaked' \in Nat
    BY <1>14 DEF HandOver
  <2> QED BY <1>14, <2>1, <2>2, <2>3 DEF HandOver
<1>15. ASSUME NEW r \in Requests, CreateFails(r) PROVE TypeOK'
  <2>1. slot' \in [Requests -> Member] /\ live' \in [Requests -> Member]
    BY <1>15 DEF CreateFails, Member
  <2>2. req' \in [Requests -> Request]
    BY <1>15 DEF CreateFails, Request, Points
  <2>3. waitCount' \in Nat /\ faults' \in 0..MaxFaults /\ leaked' \in Nat
    BY <1>15 DEF CreateFails
  <2> QED BY <1>15, <2>1, <2>2, <2>3 DEF CreateFails
<1>16. ASSUME NEW r \in Requests, RefreshLiveLease(r) PROVE TypeOK'
  <2>1. slot' \in [Requests -> Member] /\ live' \in [Requests -> Member]
    BY <1>16 DEF RefreshLiveLease, Member
  <2>2. req' \in [Requests -> Request]
    BY <1>16 DEF RefreshLiveLease, Request, Points
  <2>3. waitCount' \in Nat /\ faults' \in 0..MaxFaults /\ leaked' \in Nat
    BY <1>16 DEF RefreshLiveLease
  <2> QED BY <1>16, <2>1, <2>2, <2>3 DEF RefreshLiveLease
<1>17. ASSUME NEW r \in Requests, EndSession(r) PROVE TypeOK'
  <2>1. slot' \in [Requests -> Member] /\ live' \in [Requests -> Member]
    BY <1>17 DEF EndSession, Member
  <2>2. req' \in [Requests -> Request]
    BY <1>17 DEF EndSession, Request, Points
  <2>3. waitCount' \in Nat /\ faults' \in 0..MaxFaults /\ leaked' \in Nat
    BY <1>17 DEF EndSession
  <2> QED BY <1>17, <2>1, <2>2, <2>3 DEF EndSession
<1>18. ASSUME NEW r \in Requests, ReleaseLiveLease(r) PROVE TypeOK'
  <2>1. slot' \in [Requests -> Member] /\ live' \in [Requests -> Member]
    BY <1>18 DEF ReleaseLiveLease, Member
  <2>2. req' \in [Requests -> Request]
    BY <1>18 DEF ReleaseLiveLease, Request, Points
  <2>3. waitCount' \in Nat /\ faults' \in 0..MaxFaults /\ leaked' \in Nat
    BY <1>18 DEF ReleaseLiveLease
  <2> QED BY <1>18, <2>1, <2>2, <2>3 DEF ReleaseLiveLease
<1>19. ASSUME NEW r \in Requests, SlotAges(r) PROVE TypeOK'
  <2>1. slot' \in [Requests -> Member] /\ live' \in [Requests -> Member]
    BY <1>19 DEF SlotAges, Member
  <2>2. req' \in [Requests -> Request]
    BY <1>19 DEF SlotAges, Request, Points
  <2>3. waitCount' \in Nat /\ faults' \in 0..MaxFaults /\ leaked' \in Nat
    BY <1>19 DEF SlotAges
  <2> QED BY <1>19, <2>1, <2>2, <2>3 DEF SlotAges
<1>20. ASSUME NEW r \in Requests, LeaseAges(r) PROVE TypeOK'
  <2>1. slot' \in [Requests -> Member] /\ live' \in [Requests -> Member]
    BY <1>20 DEF LeaseAges, Member
  <2>2. req' \in [Requests -> Request]
    BY <1>20 DEF LeaseAges, Request, Points
  <2>3. waitCount' \in Nat /\ faults' \in 0..MaxFaults /\ leaked' \in Nat
    BY <1>20 DEF LeaseAges
  <2> QED BY <1>20, <2>1, <2>2, <2>3 DEF LeaseAges
<1>21. ASSUME NEW r \in Requests, NEW p \in Processes, Arrive(r, p) PROVE TypeOK'
  <2>1. [Absent EXCEPT !.at = "acquire", !.home = p] \in Request
    BY DEF Absent, Request, Points
  <2> QED BY <1>21, <2>1 DEF Arrive
<1>22. ASSUME NEW p \in Processes, Start(p) PROVE TypeOK'
  BY <1>22 DEF Start
<1>23. ASSUME NEW p \in Processes, CleanSlots(p) PROVE TypeOK'
  BY <1>23 DEF CleanSlots
<1>24. ASSUME NEW p \in Processes, DeleteWait(p) PROVE TypeOK'
  BY <1>24 DEF DeleteWait
<1>25. ASSUME NEW p \in Processes, CleanupFails(p) PROVE TypeOK'
  BY <1>25 DEF CleanupFails
<1>26. ASSUME NEW p \in Processes, Crash(p) PROVE TypeOK'
  <2>1. Cardinality({r \in Served(p) : req[r].counted}) \in Nat
    BY FS_Subset, FS_CardinalityType DEF Served
  <2>2. req' \in [Requests -> Request]
    BY <1>26 DEF Crash
  <2> QED BY <1>26, <2>1, <2>2 DEF Crash
<1>27. CASE KeyExpires
  BY <1>27 DEF KeyExpires
<1>28. CASE GetConcurrency
  BY <1>28 DEF GetConcurrency
<1>29. CASE WaitExpires
  BY <1>29 DEF WaitExpires
<1> QED
  BY <1>1, <1>2, <1>3, <1>4, <1>5, <1>6, <1>7, <1>8, <1>9, <1>10, <1>11, <1>12, <1>13,
     <1>14, <1>15, <1>16, <1>17, <1>18, <1>19, <1>20, <1>21, <1>22, <1>23, <1>24, <1>25,
     <1>26, <1>27, <1>28, <1>29, <1>30, <1>31
  DEF Next, RequestStep, Boot

-----------------------------------------------------------------------------
(* The limit *)

Running == {r \in Requests \ evicted : req[r].holds}

LEMMA Finite ==
  ASSUME NEW S \in SUBSET Requests
  PROVE  IsFiniteSet(S) /\ Cardinality(S) \in Nat
  BY SlotsAssumption, FS_Subset, FS_CardinalityType

\* Steps other than an acquisition let nobody start to run.
LEMMA FewerRun ==
  ASSUME LimitKept, Running' \subseteq Running
  PROVE  LimitKept'
<1>1. Cardinality(Running') <= Cardinality(Running)
  BY Finite, FS_Subset DEF Running
<1>2. Cardinality(Running) <= MaxConcurrency
  BY DEF LimitKept, Running
<1>3. Cardinality(Running) \in Nat /\ Cardinality(Running') \in Nat
  BY Finite DEF Running
<1>4. Cardinality(Running') <= MaxConcurrency
  BY <1>1, <1>2, <1>3, SlotsAssumption
<1> QED BY <1>4 DEF LimitKept, Running

\* Whoever runs uncounted is evicted by the script itself.
LEMMA RunningAreMembers ==
  ASSUME TypeOK, NEW slots, NEW leases, SetMembers(slots, leases),
         NEW q \in Running', req[q].holds
  PROVE  q \in Members(slots) \cup Members(leases)
  BY DEF SetMembers, Running, Members

\* acquireScript looks at the members and adds one in the same step.
LEMMA AcquireKeepsLimit ==
  ASSUME TypeOK, NEW r \in Requests, Acquire(r)
  PROVE  LimitKept'
<1> DEFINE slots == Reaped(slot)
           leases == Reaped(live)
           after == [slots EXCEPT ![r] = "fresh"]
<1>1. slots \in [Requests -> Member] /\ leases \in [Requests -> Member]
  BY ReapedType DEF TypeOK
<1>2. Cardinality(Members(slots)) + Cardinality(Members(leases)) < MaxConcurrency
  BY DEF Acquire, Room, Count
<1>3. SetMembers(after, leases) /\ \A q \in Requests : q # r => req'[q] = req[q]
  BY DEF Acquire, AddSlot, TypeOK
<1> HIDE DEF slots, leases
<1>4. Members(after) \subseteq Members(slots) \cup {r} /\ r \in Members(after)
  BY <1>1 DEF Members
<1>5. Running' \subseteq Members(slots) \cup {r} \cup Members(leases)
  <2> SUFFICES ASSUME NEW q \in Running', q # r
               PROVE  q \in Members(slots) \cup Members(leases)
    OBVIOUS
  <2>1. req[q].holds
    BY <1>3 DEF Running
  <2>2. q \in Members(after) \cup Members(leases)
    BY <1>3, <2>1, RunningAreMembers
  <2> QED BY <1>4, <2>2
<1> DEFINE A == Members(slots)
           B == Members(leases)
<1>6. A \subseteq Requests /\ B \subseteq Requests
  BY DEF Members
<1> HIDE DEF A, B
<1>7. /\ IsFiniteSet(A) /\ IsFiniteSet(B)
      /\ Cardinality(A) \in Nat /\ Cardinality(B) \in Nat
  BY <1>6, Finite
<1>8. IsFiniteSet(A \cup {r}) /\ Cardinality(A \cup {r}) <= Cardinality(A) + 1
  <2>1. /\ IsFiniteSet(A \cup {r})
        /\ Cardinality(A \cup {r}) =
             IF r \in A THEN Cardinality(A) ELSE Cardinality(A) + 1
    BY <1>7, FS_AddElement
  <2> QED BY <1>7, <2>1
<1>9. Cardinality((A \cup {r}) \cap B) \in Nat /\ Cardinality(A \cup {r}) \in Nat
  BY <1>6, Finite
<1>10. /\ IsFiniteSet(A \cup {r} \cup B)
       /\ Cardinality(A \cup {r} \cup B) <= Cardinality(A) + 1 + Cardinality(B)
  <2>1. Cardinality((A \cup {r}) \cup B) =
          Cardinality(A \cup {r}) + Cardinality(B) - Cardinality((A \cup {r}) \cap B)
    BY <1>7, <1>8, FS_Union
  <2>2. IsFiniteSet(A \cup {r} \cup B)
    BY <1>6, Finite
  <2> QED BY <1>7, <1>8, <1>9, <2>1, <2>2
<1>11. Cardinality(A) + 1 + Cardinality(B) <= MaxConcurrency
  BY <1>2, <1>7, SlotsAssumption DEF A, B
<1>12. Running' \subseteq A \cup {r} \cup B
  BY <1>5 DEF A, B
<1>13. Cardinality(Running') <= Cardinality(A \cup {r} \cup B)
  BY <1>10, <1>12, FS_Subset
<1>14. Cardinality(Running') \in Nat /\ Cardinality(A \cup {r} \cup B) \in Nat
  BY <1>6, Finite DEF Running
<1>15. Cardinality(Running') <= MaxConcurrency
  BY <1>7, <1>10, <1>11, <1>13, <1>14, SlotsAssumption
<1> QED BY <1>15 DEF LimitKept, Running

LEMMA LimitStep ==
  ASSUME TypeOK, LimitKept, Next
  PROVE  LimitKept'
<1> USE FewerRun DEF TypeOK, Running, redis, history, SetMembers, AddSlot, AddLease, Goto,
                     Leave, Absent
<1>1. ASSUME NEW r \in Requests, Acquire(r) PROVE LimitKept'
  BY <1>1, AcquireKeepsLimit
<1>2. ASSUME NEW r \in Requests, AcquireRefused(r) PROVE LimitKept'
  <2>1. \A q \in Requests : req'[q].holds => req[q].holds
    <3>1. CASE req' = req
      BY <3>1
    <3>2. CASE Goto(r, "enqueue")
      BY <3>2
    <3>3. CASE req' = [req EXCEPT ![r] = Absent]
      BY <3>3
    <3> QED BY <1>2, <3>1, <3>2, <3>3 DEF AcquireRefused
  <2> QED BY <1>2, <2>1 DEF AcquireRefused
<1>3. ASSUME NEW r \in Requests, AcquireFails(r) PROVE LimitKept'
  BY <1>3 DEF AcquireFails
<1>4. ASSUME NEW r \in Requests, Increment(r) PROVE LimitKept'
  BY <1>4 DEF Increment
<1>5. ASSUME NEW r \in Requests, QueueFull(r) PROVE LimitKept'
  BY <1>5 DEF QueueFull
<1>6. ASSUME NEW r \in Requests, IncrementFails(r) PROVE LimitKept'
  <2>1. \A q \in Requests : req'[q].holds => req[q].holds
    <3>1. CASE Goto(r, "poll")
      BY <3>1
    <3>2. CASE req' = [req EXCEPT ![r].at = "poll", ![r].counted = TRUE]
      BY <3>2
    <3> QED BY <1>6, <3>1, <3>2 DEF IncrementFails
  <2> QED BY <1>6, <2>1 DEF IncrementFails
<1>7. ASSUME NEW r \in Requests, StopWaiting(r) PROVE LimitKept'
  BY <1>7 DEF StopWaiting
<1>8. ASSUME NEW r \in Requests, Decrement(r) PROVE LimitKept'
  BY <1>8 DEF Decrement, Dequeued
<1>9. ASSUME NEW r \in Requests, DecrementFails(r) PROVE LimitKept'
  BY <1>9 DEF DecrementFails, Dequeued
<1>10. ASSUME NEW r \in Requests, Release(r) PROVE LimitKept'
  BY <1>10 DEF Release
<1>11. ASSUME NEW r \in Requests, ReleaseFails(r) PROVE LimitKept'
  BY <1>11 DEF ReleaseFails
<1>30. ASSUME NEW r \in Requests, Disconnect(r) PROVE LimitKept'
  BY <1>30 DEF Disconnect
<1>31. ASSUME NEW r \in Requests, Drained(r) PROVE LimitKept'
  BY <1>31 DEF Drained
<1>12. ASSUME NEW r \in Requests, AcquireLiveLease(r) PROVE LimitKept'
  BY <1>12 DEF AcquireLiveLease
<1>13. ASSUME NEW r \in Requests, LeaseRefused(r) PROVE LimitKept'
  BY <1>13 DEF LeaseRefused
<1>14. ASSUME NEW r \in Requests, HandOver(r) PROVE LimitKept'
  BY <1>14 DEF HandOver
<1>15. ASSUME NEW r \in Requests, CreateFails(r) PROVE LimitKept'
  BY <1>15 DEF CreateFails
<1>16. ASSUME NEW r \in Requests, RefreshLiveLease(r) PROVE LimitKept'
  BY <1>16 DEF RefreshLiveLease
<1>17. ASSUME NEW r \in Requests, EndSession(r) PROVE LimitKept'
  BY <1>17 DEF EndSession
<1>18. ASSUME NEW r \in Requests, ReleaseLiveLease(r) PROVE LimitKept'
  BY <1>18 DEF ReleaseLiveLease
<1>19. ASSUME NEW r \in Requests, SlotAges(r) PROVE LimitKept'
  BY <1>19 DEF SlotAges
<1>20. ASSUME NEW r \in Requests, LeaseAges(r) PROVE LimitKept'
  BY <1>20 DEF LeaseAges
<1>21. ASSUME NEW r \in Requests, NEW p \in Processes, Arrive(r, p) PROVE LimitKept'
  BY <1>21 DEF Arrive
<1>22. ASSUME NEW p \in Processes, Start(p) PROVE LimitKept'
  BY <1>22 DEF Start
<1>23. ASSUME NEW p \in Processes, CleanSlots(p) PROVE LimitKept'
  BY <1>23 DEF CleanSlots
<1>24. ASSUME NEW p \in Processes, DeleteWait(p) PROVE LimitKept'
  BY <1>24 DEF DeleteWait
<1>25. ASSUME NEW p \in Processes, CleanupFails(p) PROVE LimitKept'
  BY <1>25 DEF CleanupFails
<1>26. ASSUME NEW p \in Processes, Crash(p) PROVE LimitKept'
  BY <1>26 DEF Crash, Served
<1>27. CASE KeyExpires
  BY <1>27 DEF KeyExpires
<1>28. CASE GetConcurrency
  BY <1>28 DEF GetConcurrency
<1>29. CASE WaitExpires
  BY <1>29 DEF WaitExpires
<1> QED
  BY <1>1, <1>2, <1>3, <1>4, <1>5, <1>6, <1>7, <1>8, <1>9, <1>10, <1>11, <1>12, <1>13,
     <1>14, <1>15, <1>16, <1>17, <1>18, <1>19, <1>20, <1>21, <1>22, <1>23, <1>24, <1>25,
     <1>26, <1>27, <1>28, <1>29, <1>30, <1>31
  DEF Next, RequestStep, Boot

-----------------------------------------------------------------------------
(* The counter of the waiting requests *)

\* Who is counted will decrement.
Queued == \A r \in Requests : req[r].counted => req[r].at \in {"poll", "dequeue"}

Waits == Queued /\ NoGhostWaiters /\ WaitersAreCounted

LEMMA CountType ==
  /\ IsFiniteSet(Counted) /\ Cardinality(Counted) \in Nat
  /\ IsFiniteSet(Counted') /\ Cardinality(Counted') \in Nat
  BY Finite DEF Counted

\* Most steps leave the queue and its counter alone.
LEMMA CountStays ==
  ASSUME NoGhostWaiters, WaitersAreCounted,
         waitCount' = waitCount, leaked' = leaked, miscounted' = miscounted,
         \A r \in Requests : req'[r].counted <=> req[r].counted
  PROVE  NoGhostWaiters' /\ WaitersAreCounted'
<1>1. Counted' = Counted
  BY DEF Counted
<1> QED BY <1>1 DEF NoGhostWaiters, WaitersAreCounted

LEMMA Joins ==
  ASSUME TypeOK, NoGhostWaiters, WaitersAreCounted, NEW r \in Requests,
         ~req[r].counted, waitCount < QueueLimit,
         waitCount' = waitCount + 1, leaked' = leaked, miscounted' = miscounted,
         req' = [req EXCEPT ![r].at = "poll", ![r].counted = TRUE]
  PROVE  NoGhostWaiters' /\ WaitersAreCounted'
<1>1. Counted' = Counted \cup {r} /\ r \notin Counted
  BY DEF Counted, TypeOK, Request
<1>2. Cardinality(Counted') = Cardinality(Counted) + 1
  BY <1>1, CountType, FS_AddElement
<1>3. waitCount \in Nat /\ leaked \in Nat /\ QueueLimit \in Nat
  BY SlotsAssumption DEF TypeOK
<1>4. waitCount' <= Cardinality(Counted') + leaked'
  BY <1>2, <1>3, CountType DEF NoGhostWaiters
<1>5. ~miscounted' => Cardinality(Counted') <= waitCount' /\ waitCount' <= QueueLimit
  BY <1>2, <1>3, CountType DEF WaitersAreCounted
<1> QED BY <1>4, <1>5 DEF NoGhostWaiters, WaitersAreCounted

\* Leaving the queue, with or without the decrement.
LEMMA Leaves ==
  ASSUME TypeOK, NEW r \in Requests, req' = [req EXCEPT ![r] = Dequeued(r)]
  PROVE  /\ Counted' = Counted \ {r}
         /\ r \in Counted <=> req[r].counted
         /\ r \in Counted => Cardinality(Counted') = Cardinality(Counted) - 1
                              /\ Cardinality(Counted) > 0
         /\ r \notin Counted => Cardinality(Counted') = Cardinality(Counted)
<1>1. ~Dequeued(r).counted
  BY DEF Dequeued, Absent, TypeOK, Request
<1>2. Counted' = Counted \ {r} /\ (r \in Counted <=> req[r].counted)
  BY <1>1 DEF Counted, TypeOK
<1>3. r \in Counted => Cardinality(Counted') = Cardinality(Counted) - 1
  BY <1>2, CountType, FS_RemoveElement
<1>4. r \in Counted => Cardinality(Counted) > 0
  BY <1>3, CountType
<1>5. r \notin Counted => Cardinality(Counted') = Cardinality(Counted)
  BY <1>2
<1> QED BY <1>2, <1>3, <1>4, <1>5

LEMMA DecrementKeepsCount ==
  ASSUME TypeOK, NoGhostWaiters, WaitersAreCounted, NEW r \in Requests, Decrement(r)
  PROVE  NoGhostWaiters' /\ WaitersAreCounted'
<1>1. /\ waitCount' = IF waitCount > 0 THEN waitCount - 1 ELSE 0
      /\ miscounted' = (miscounted \/ (~req[r].counted /\ waitCount > 0))
      /\ leaked' = leaked /\ req' = [req EXCEPT ![r] = Dequeued(r)]
  BY DEF Decrement
<1>2. waitCount \in Nat /\ leaked \in Nat /\ QueueLimit \in Nat
  BY SlotsAssumption DEF TypeOK
<1>3. CASE req[r].counted
  <2>1. Cardinality(Counted') = Cardinality(Counted) - 1 /\ Cardinality(Counted) > 0
    BY <1>1, <1>3, Leaves
  <2>2. miscounted' <=> miscounted
    BY <1>1, <1>3
  <2>3. waitCount' <= Cardinality(Counted') + leaked'
    BY <1>1, <1>2, <2>1, CountType DEF NoGhostWaiters
  <2>4. ~miscounted' => Cardinality(Counted') <= waitCount' /\ waitCount' <= QueueLimit
    BY <1>1, <1>2, <2>1, <2>2, CountType DEF WaitersAreCounted
  <2> QED BY <2>3, <2>4 DEF NoGhostWaiters, WaitersAreCounted
<1>4. CASE ~req[r].counted
  <2>1. Cardinality(Counted') = Cardinality(Counted)
    BY <1>1, <1>4, Leaves
  <2>2. ~miscounted' => ~miscounted /\ waitCount = 0
    <3>1. waitCount > 0 \/ waitCount = 0
      BY <1>2
    <3> QED BY <1>1, <1>4, <3>1, Zenon
  <2>3. waitCount' <= Cardinality(Counted') + leaked'
    BY <1>1, <1>2, <2>1, CountType DEF NoGhostWaiters
  <2>4. ~miscounted' => Cardinality(Counted') <= waitCount' /\ waitCount' <= QueueLimit
    BY <1>1, <1>2, <2>1, <2>2, CountType DEF WaitersAreCounted
  <2> QED BY <2>3, <2>4 DEF NoGhostWaiters, WaitersAreCounted
<1> QED BY <1>3, <1>4

LEMMA DecrementFailsKeepsCount ==
  ASSUME TypeOK, NoGhostWaiters, WaitersAreCounted, NEW r \in Requests, DecrementFails(r)
  PROVE  NoGhostWaiters' /\ WaitersAreCounted'
<1>1. /\ waitCount' = waitCount /\ miscounted' = miscounted
      /\ leaked' = IF req[r].counted THEN leaked + 1 ELSE leaked
      /\ req' = [req EXCEPT ![r] = Dequeued(r)]
  BY DEF DecrementFails, redis
<1>2. waitCount \in Nat /\ leaked \in Nat /\ QueueLimit \in Nat
  BY SlotsAssumption DEF TypeOK
<1>3. /\ req[r].counted => Cardinality(Counted') = Cardinality(Counted) - 1
      /\ ~req[r].counted => Cardinality(Counted') = Cardinality(Counted)
  BY <1>1, Leaves
<1>4. waitCount' <= Cardinality(Counted') + leaked'
  BY <1>1, <1>2, <1>3, CountType DEF NoGhostWaiters
<1>5. ~miscounted' => Cardinality(Counted') <= waitCount' /\ waitCount' <= QueueLimit
  BY <1>1, <1>2, <1>3, CountType DEF WaitersAreCounted
<1> QED BY <1>4, <1>5 DEF NoGhostWaiters, WaitersAreCounted

LEMMA CrashKeepsCount ==
  ASSUME TypeOK, NoGhostWaiters, WaitersAreCounted, NEW p \in Processes, Crash(p)
  PROVE  NoGhostWaiters' /\ WaitersAreCounted'
<1> DEFINE G == {r \in Served(p) : req[r].counted}
<1>1. /\ waitCount' = waitCount /\ miscounted' = miscounted
      /\ leaked' = leaked + Cardinality(G)
  BY DEF Crash, redis
<1>2. waitCount \in Nat /\ leaked \in Nat /\ QueueLimit \in Nat
  BY SlotsAssumption DEF TypeOK
<1>3. Counted' = Counted \ G /\ Counted \cap G = G /\ G \subseteq Requests
  BY DEF Crash, Counted, Served, Absent
<1> HIDE DEF G
<1>4. Cardinality(G) \in Nat
  BY <1>3, Finite
<1>5. Cardinality(Counted') = Cardinality(Counted) - Cardinality(G)
  <2>1. Cardinality(Counted \ G) = Cardinality(Counted) - Cardinality(Counted \cap G)
    BY CountType, FS_Difference
  <2> QED BY <1>3, <2>1
<1>6. waitCount' <= Cardinality(Counted') + leaked'
  BY <1>1, <1>2, <1>4, <1>5, CountType DEF NoGhostWaiters
<1>7. ~miscounted' => Cardinality(Counted') <= waitCount' /\ waitCount' <= QueueLimit
  BY <1>1, <1>2, <1>4, <1>5, CountType DEF WaitersAreCounted
<1> QED BY <1>6, <1>7 DEF NoGhostWaiters, WaitersAreCounted

LEMMA QueuedStep ==
  ASSUME TypeOK, Queued, Next
  PROVE  Queued'
<1> USE DEF TypeOK, Queued, Request, At, Goto, Leave, Absent, redis
<1>1. ASSUME NEW r \in Requests, Acquire(r) PROVE Queued'
  BY <1>1 DEF Acquire
<1>2. ASSUME NEW r \in Requests, AcquireRefused(r) PROVE Queued'
  BY <1>2 DEF AcquireRefused
<1>3. ASSUME NEW r \in Requests, AcquireFails(r) PROVE Queued'
  BY <1>3 DEF AcquireFails
<1>4. ASSUME NEW r \in Requests, Increment(r) PROVE Queued'
  BY <1>4 DEF Increment
<1>5. ASSUME NEW r \in Requests, QueueFull(r) PROVE Queued'
  BY <1>5 DEF QueueFull
<1>6. ASSUME NEW r \in Requests, IncrementFails(r) PROVE Queued'
  BY <1>6 DEF IncrementFails
<1>7. ASSUME NEW r \in Requests, StopWaiting(r) PROVE Queued'
  BY <1>7 DEF StopWaiting
<1>8. ASSUME NEW r \in Requests, Decrement(r) PROVE Queued'
  BY <1>8 DEF Decrement, Dequeued
<1>9. ASSUME NEW r \in Requests, DecrementFails(r) PROVE Queued'
  BY <1>9 DEF DecrementFails, Dequeued
<1>10. ASSUME NEW r \in Requests, Release(r) PROVE Queued'
  BY <1>10 DEF Release
<1>11. ASSUME NEW r \in Requests, ReleaseFails(r) PROVE Queued'
  BY <1>11 DEF ReleaseFails
<1>25. ASSUME NEW r \in Requests, Disconnect(r) PROVE Queued'
  BY <1>25 DEF Disconnect
<1>26. ASSUME NEW r \in Requests, Drained(r) PROVE Queued'
  BY <1>26 DEF Drained
<1>12. ASSUME NEW r \in Requests, AcquireLiveLease(r) PROVE Queued'
  BY <1>12 DEF AcquireLiveLease
<1>13. ASSUME NEW r \in Requests, LeaseRefused(r) PROVE Queued'
  BY <1>13 DEF LeaseRefused
<1>14. ASSUME NEW r \in Requests, HandOver(r) PROVE Queued'
  BY <1>14 DEF HandOver
<1>15. ASSUME NEW r \in Requests, CreateFails(r) PROVE Queued'
  BY <1>15 DEF CreateFails
<1>16. ASSUME NEW r \in Requests, RefreshLiveLease(r) PROVE Queued'
  BY <1>16 DEF RefreshLiveLease
<1>17. ASSUME NEW r \in Requests, EndSession(r) PROVE Queued'
  BY <1>17 DEF EndSession
<1>18. ASSUME NEW r \in Requests, ReleaseLiveLease(r) PROVE Queued'
  BY <1>18 DEF ReleaseLiveLease
<1>19. ASSUME NEW r \in Requests, SlotAges(r) PROVE Queued'
  BY <1>19 DEF SlotAges
<1>20. ASSUME NEW r \in Requests, LeaseAges(r) PROVE Queued'
  BY <1>20 DEF LeaseAges
<1>21. ASSUME NEW r \in Requests, NEW p \in Processes, Arrive(r, p) PROVE Queued'
  BY <1>21 DEF Arrive
<1>22. ASSUME NEW p \in Processes, Start(p) \/ Boot(p) PROVE Queued'
  BY <1>22 DEF Start, Boot, CleanSlots, DeleteWait, CleanupFails
<1>23. ASSUME NEW p \in Processes, Crash(p) PROVE Queued'
  BY <1>23 DEF Crash
<1>24. CASE KeyExpires \/ GetConcurrency \/ WaitExpires
  BY <1>24 DEF KeyExpires, GetConcurrency, WaitExpires
<1> QED
  BY <1>1, <1>2, <1>3, <1>4, <1>5, <1>6, <1>7, <1>8, <1>9, <1>10, <1>11, <1>12, <1>13,
     <1>14, <1>15, <1>16, <1>17, <1>18, <1>19, <1>20, <1>21, <1>22, <1>23, <1>24, <1>25,
     <1>26
  DEF Next, RequestStep

LEMMA WaitsStep ==
  ASSUME TypeOK, Waits, Next
  PROVE  NoGhostWaiters' /\ WaitersAreCounted'
<1> USE DEF Waits, redis, history
<1> DEFINE Goal == NoGhostWaiters' /\ WaitersAreCounted'
<1> HIDE DEF Goal
<1>0. ASSUME waitCount' = waitCount, leaked' = leaked, miscounted' = miscounted,
             \A q \in Requests : req'[q].counted <=> req[q].counted
      PROVE  Goal
  BY <1>0, CountStays DEF Goal
<1>1. ASSUME NEW r \in Requests, Acquire(r) PROVE Goal
  <2>1. \A q \in Requests : req'[q].counted <=> req[q].counted
    BY <1>1 DEF Acquire, Goto, Leave, Absent, At, Queued, TypeOK, Request
  <2> QED BY <1>0, <1>1, <2>1 DEF Acquire
<1>2. ASSUME NEW r \in Requests, AcquireRefused(r) PROVE Goal
  <2>1. \A q \in Requests : req'[q].counted <=> req[q].counted
    BY <1>2 DEF AcquireRefused, Goto, Leave, Absent, At, Queued, TypeOK, Request
  <2> QED BY <1>0, <1>2, <2>1 DEF AcquireRefused
<1>3. ASSUME NEW r \in Requests, AcquireFails(r) PROVE Goal
  <2>1. \A q \in Requests : req'[q].counted <=> req[q].counted
    BY <1>3 DEF AcquireFails, Goto, Leave, Absent, At, Queued, TypeOK, Request
  <2> QED BY <1>0, <1>3, <2>1 DEF AcquireFails
<1>4. ASSUME NEW r \in Requests, QueueFull(r) PROVE Goal
  <2>1. \A q \in Requests : req'[q].counted <=> req[q].counted
    BY <1>4 DEF QueueFull, Goto, Leave, Absent, At, Queued, TypeOK, Request
  <2> QED BY <1>0, <1>4, <2>1 DEF QueueFull
<1>5. ASSUME NEW r \in Requests, StopWaiting(r) PROVE Goal
  <2>1. \A q \in Requests : req'[q].counted <=> req[q].counted
    BY <1>5 DEF StopWaiting, Goto, Leave, Absent, At, Queued, TypeOK, Request
  <2> QED BY <1>0, <1>5, <2>1 DEF StopWaiting
<1>6. ASSUME NEW r \in Requests, Release(r) PROVE Goal
  <2>1. \A q \in Requests : req'[q].counted <=> req[q].counted
    BY <1>6 DEF Release, Goto, Leave, Absent, At, Queued, TypeOK, Request
  <2> QED BY <1>0, <1>6, <2>1 DEF Release
<1>7. ASSUME NEW r \in Requests, ReleaseFails(r) PROVE Goal
  <2>1. \A q \in Requests : req'[q].counted <=> req[q].counted
    BY <1>7 DEF ReleaseFails, Goto, Leave, Absent, At, Queued, TypeOK, Request
  <2> QED BY <1>0, <1>7, <2>1 DEF ReleaseFails
<1>26. ASSUME NEW r \in Requests, Disconnect(r) PROVE Goal
  <2>1. \A q \in Requests : req'[q].counted <=> req[q].counted
    BY <1>26 DEF Disconnect, Goto, Leave, Absent, At, Queued, TypeOK, Request
  <2> QED BY <1>0, <1>26, <2>1 DEF Disconnect
<1>27. ASSUME NEW r \in Requests, Drained(r) PROVE Goal
  <2>1. \A q \in Requests : req'[q].counted <=> req[q].counted
    BY <1>27 DEF Drained, Goto, Leave, Absent, At, Queued, TypeOK, Request
  <2> QED BY <1>0, <1>27, <2>1 DEF Drained
<1>8. ASSUME NEW r \in Requests, AcquireLiveLease(r) PROVE Goal
  <2>1. \A q \in Requests : req'[q].counted <=> req[q].counted
    BY <1>8 DEF AcquireLiveLease, Goto, Leave, Absent, At, Queued, TypeOK, Request
  <2> QED BY <1>0, <1>8, <2>1 DEF AcquireLiveLease
<1>9. ASSUME NEW r \in Requests, LeaseRefused(r) PROVE Goal
  <2>1. \A q \in Requests : req'[q].counted <=> req[q].counted
    BY <1>9 DEF LeaseRefused, Goto, Leave, Absent, At, Queued, TypeOK, Request
  <2> QED BY <1>0, <1>9, <2>1 DEF LeaseRefused
<1>10. ASSUME NEW r \in Requests, HandOver(r) PROVE Goal
  <2>1. \A q \in Requests : req'[q].counted <=> req[q].counted
    BY <1>10 DEF HandOver, Goto, Leave, Absent, At, Queued, TypeOK, Request
  <2> QED BY <1>0, <1>10, <2>1 DEF HandOver
<1>11. ASSUME NEW r \in Requests, CreateFails(r) PROVE Goal
  <2>1. \A q \in Requests : req'[q].counted <=> req[q].counted
    BY <1>11 DEF CreateFails, Goto, Leave, Absent, At, Queued, TypeOK, Request
  <2> QED BY <1>0, <1>11, <2>1 DEF CreateFails
<1>12. ASSUME NEW r \in Requests, RefreshLiveLease(r) PROVE Goal
  <2>1. \A q \in Requests : req'[q].counted <=> req[q].counted
    BY <1>12 DEF RefreshLiveLease, Goto, Leave, Absent, At, Queued, TypeOK, Request
  <2> QED BY <1>0, <1>12, <2>1 DEF RefreshLiveLease
<1>13. ASSUME NEW r \in Requests, EndSession(r) PROVE Goal
  <2>1. \A q \in Requests : req'[q].counted <=> req[q].counted
    BY <1>13 DEF EndSession, Goto, Leave, Absent, At, Queued, TypeOK, Request
  <2> QED BY <1>0, <1>13, <2>1 DEF EndSession
<1>14. ASSUME NEW r \in Requests, ReleaseLiveLease(r) PROVE Goal
  <2>1. \A q \in Requests : req'[q].counted <=> req[q].counted
    BY <1>14 DEF ReleaseLiveLease, Goto, Leave, Absent, At, Queued, TypeOK, Request
  <2> QED BY <1>0, <1>14, <2>1 DEF ReleaseLiveLease
<1>15. ASSUME NEW r \in Requests, SlotAges(r) PROVE Goal
  <2>1. \A q \in Requests : req'[q].counted <=> req[q].counted
    BY <1>15 DEF SlotAges, Goto, Leave, Absent, At, Queued, TypeOK, Request
  <2> QED BY <1>0, <1>15, <2>1 DEF SlotAges
<1>16. ASSUME NEW r \in Requests, LeaseAges(r) PROVE Goal
  <2>1. \A q \in Requests : req'[q].counted <=> req[q].counted
    BY <1>16 DEF LeaseAges, Goto, Leave, Absent, At, Queued, TypeOK, Request
  <2> QED BY <1>0, <1>16, <2>1 DEF LeaseAges
<1>17. ASSUME NEW r \in Requests, NEW p \in Processes, Arrive(r, p) PROVE Goal
  <2>1. \A q \in Requests : req'[q].counted <=> req[q].counted
    BY <1>17 DEF Arrive, Absent, At, Queued, TypeOK, Request
  <2> QED BY <1>0, <1>17, <2>1 DEF Arrive
<1>18. ASSUME NEW p \in Processes, Start(p) \/ CleanSlots(p) \/ CleanupFails(p) PROVE Goal
  BY <1>0, <1>18 DEF Start, CleanSlots, CleanupFails
<1>19. CASE KeyExpires \/ GetConcurrency
  BY <1>0, <1>19 DEF KeyExpires, GetConcurrency, Goal
<1>20. ASSUME NEW r \in Requests, Increment(r) PROVE Goal
  <2>1. ~req[r].counted
    BY <1>20 DEF Increment, At, Queued
  <2> QED BY <1>20, <2>1, Joins DEF Increment, Goal
<1>21. ASSUME NEW r \in Requests, IncrementFails(r) PROVE Goal
  <2>1. ~req[r].counted
    BY <1>21 DEF IncrementFails, At, Queued
  <2>2. CASE waitCount' = waitCount /\ Goto(r, "poll")
    <3>1. \A q \in Requests : req'[q].counted <=> req[q].counted
      BY <2>2 DEF Goto, TypeOK, Request
    <3> QED BY <1>0, <1>21, <2>2, <3>1 DEF IncrementFails
  <2>3. CASE ~(waitCount' = waitCount /\ Goto(r, "poll"))
    BY <1>21, <2>1, <2>3, Joins DEF IncrementFails, Goal
  <2> QED BY <2>2, <2>3
<1>22. ASSUME NEW r \in Requests, Decrement(r) \/ DecrementFails(r) PROVE Goal
  BY <1>22, DecrementKeepsCount, DecrementFailsKeepsCount DEF Goal
<1>23. ASSUME NEW p \in Processes, Crash(p) PROVE Goal
  BY <1>23, CrashKeepsCount DEF Goal
<1>24. ASSUME NEW p \in Processes, DeleteWait(p) PROVE Goal
  <2>1. Counted' = Counted /\ waitCount' = 0 /\ leaked' = 0
    BY <1>24 DEF DeleteWait, Counted
  <2>2. waitCount > 0 \/ waitCount = 0
    BY DEF TypeOK
  <2>3. ~miscounted' => ~miscounted /\ waitCount = 0
    BY <1>24, <2>2, Zenon DEF DeleteWait
  <2>4. 0 <= Cardinality(Counted) + 0 /\ 0 <= QueueLimit
    BY CountType, SlotsAssumption
  <2> QED BY <2>1, <2>3, <2>4 DEF Goal, NoGhostWaiters, WaitersAreCounted
<1>25. CASE WaitExpires
  <2>1. Counted' = {} /\ waitCount' = 0 /\ leaked' = 0
    BY <1>25 DEF WaitExpires, Counted
  <2>2. Cardinality({}) = 0 /\ 0 <= QueueLimit
    BY FS_EmptySet, SlotsAssumption
  <2> QED BY <2>1, <2>2 DEF Goal, NoGhostWaiters, WaitersAreCounted
<1> QED
  BY <1>1, <1>2, <1>3, <1>4, <1>5, <1>6, <1>7, <1>8, <1>9, <1>10, <1>11, <1>12, <1>13,
     <1>14, <1>15, <1>16, <1>17, <1>18, <1>19, <1>20, <1>21, <1>22, <1>23, <1>24, <1>25,
     <1>26, <1>27
  DEF Next, RequestStep, Boot, Goal

-----------------------------------------------------------------------------
(* The theorems *)

IInv == TypeOK /\ LimitKept /\ Waits

LEMMA IInvInit == Init => IInv
<1> SUFFICES ASSUME Init PROVE IInv
  OBVIOUS
<1>1. TypeOK
  <2>1. 0 \in 0..MaxFaults /\ 0 \in 0..MaxStarts
    BY SlotsAssumption
  <2>2. slot \in [Requests -> Member] /\ live \in [Requests -> Member]
    BY NoMembersType DEF Init
  <2>3. req \in [Requests -> Request]
    BY AbsentType DEF Init
  <2>4. server \in [Processes -> {"down", "clean", "deleteWait", "up"}]
    BY DEF Init
  <2> QED BY <2>1, <2>2, <2>3, <2>4 DEF Init, TypeOK
<1>2. \A r \in Requests : ~req[r].holds /\ ~req[r].counted
  BY DEF Init, Absent
<1>3. Running = {} /\ Counted = {} /\ Queued
  BY <1>2 DEF Running, Counted, Queued
<1>4. LimitKept
  BY <1>3, FS_EmptySet, SlotsAssumption DEF LimitKept, Running
<1>5. NoGhostWaiters /\ WaitersAreCounted
  BY <1>3, FS_EmptySet, SlotsAssumption DEF Init, NoGhostWaiters, WaitersAreCounted
<1> QED BY <1>1, <1>3, <1>4, <1>5 DEF IInv, Waits

LEMMA IInvStep == IInv /\ [Next]_vars => IInv'
<1>1. ASSUME IInv, Next PROVE IInv'
  <2>1. TypeOK' /\ LimitKept'
    BY <1>1, TypeStep, LimitStep DEF IInv
  <2>2. Waits'
    BY <1>1, QueuedStep, WaitsStep DEF IInv, Waits
  <2> QED BY <2>1, <2>2 DEF IInv
<1>2. ASSUME IInv, UNCHANGED vars PROVE IInv'
  BY <1>2 DEF vars, redis, history, IInv, TypeOK, LimitKept, Waits, Queued, Counted,
     NoGhostWaiters, WaitersAreCounted
<1> QED BY <1>1, <1>2

LEMMA Invariance == Spec => []IInv
  BY IInvInit, IInvStep, PTL DEF Spec

\* Every request, set and counter has its type; the counter is never negative
\* (decrementWaitScript).
THEOREM TypeCorrect == Spec => []TypeOK
<1>1. IInv => TypeOK
  BY DEF IInv
<1> QED BY <1>1, Invariance, PTL

\* However many processes, requests and live sessions there are, no more than the
\* limit run, other than those that lost their member: to the time to live, a
\* stall, a start of a process, or their client's leaving (acquireScript).
THEOREM LimitIsKept == Spec => []LimitKept
<1>1. IInv => LimitKept
  BY DEF IInv
<1> QED BY <1>1, Invariance, PTL

\* The counter never exceeds the waiting requests and the lost decrements
\* (decrementWaitScript).
THEOREM GhostsAreOnRecord == Spec => []NoGhostWaiters
<1>1. IInv => NoGhostWaiters
  BY DEF IInv, Waits
<1> QED BY <1>1, Invariance, PTL

\* The counter covers the waiting requests and stays within the queue's limit,
\* unless it was deleted or decremented for another (incrementWaitScript).
THEOREM WaitersCount == Spec => []WaitersAreCounted
<1>1. IInv => WaitersAreCounted
  BY DEF IInv, Waits
<1> QED BY <1>1, Invariance, PTL

=============================================================================
