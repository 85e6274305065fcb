--------------------- MODULE SystemOperationLockProofs ---------------------
(***************************************************************************)
(* Machine-checked proofs about SystemOperationLock, for any number of     *)
(* calls, operation ids and faults.                                        *)
(***************************************************************************)
EXTENDS SystemOperationLock, FiniteSetTheorems, TLAPS

-----------------------------------------------------------------------------
(* The inductive invariant *)

\* Until a lease has lapsed under an operation, whoever runs is alone and the
\* row is locked: nobody can reclaim or delete it.
RunningIsAlone ==
  ~overrun =>
    \A w \in Workers : At(w, "run") =>
      /\ lock # Absent /\ lock.live
      /\ \A v \in Workers : At(v, "run") => v = w

AgedIsUnlocked == aged => lock # Absent /\ ~lock.live

IInv == TypeOK /\ AgedIsUnlocked /\ RunningIsAlone

-----------------------------------------------------------------------------
(* What the helpers do *)

Jobs == [Workers -> Job \cup {Idle}]
Loops == [Workers -> Operations \cup {Idle}]

\* Run types, and the only job it touches is w's.
LEMMA RunEffect ==
  ASSUME job \in Jobs, loop \in Loops, holders \subseteq Workers,
         NEW w \in Workers, NEW op \in Operations, Run(w, op)
  PROVE  /\ job' \in Jobs /\ loop' \in Loops /\ holders' \subseteq Workers
         /\ \A v \in Workers : v # w => job'[v] = job[v]
<1> DEFINE j == [op |-> op, at |-> "run", saw |-> "processing"]
<1>1. j \in Job
  BY DEF Job, Statuses
<1>2. job' = [job EXCEPT ![w] = j] /\ loop' = [loop EXCEPT ![w] = op] /\ holders' = holders \cup {w}
  BY DEF Run
<1> HIDE DEF j
<1> QED BY <1>1, <1>2 DEF Jobs, Loops

\* Return types, and leaves no job of w behind.
LEMMA ReturnEffect ==
  ASSUME job \in Jobs, loop \in Loops, holders \subseteq Workers,
         NEW w \in Workers, Return(w)
  PROVE  /\ job' \in Jobs /\ loop' \in Loops /\ holders' \subseteq Workers
         /\ job'[w] = Idle
         /\ \A v \in Workers : v # w => job'[v] = job[v]
BY DEF Return, Jobs, Loops

\* A new row is locked.
LEMMA CreateEffect ==
  ASSUME NEW op \in Operations, CreateProcessing(op)
  PROVE  lock = Absent /\ lock' \in Lock /\ lock' # Absent /\ lock'.live /\ aged' = FALSE
<1>1. /\ lock = Absent /\ aged' = FALSE
      /\ lock' = [op |-> op, status |-> "processing", live |-> TRUE]
  BY DEF CreateProcessing
<1>2. lock' \in Lock /\ lock'.live
  BY <1>1 DEF Lock, Statuses
<1>3. lock' # Absent
  BY <1>2, ConstantsAssumption
<1> QED BY <1>1, <1>2, <1>3

\* A write of the status and the lock of an existing row.
LEMMA LockEffect ==
  ASSUME lock \in Lock, NEW s \in Statuses, NEW b \in BOOLEAN,
         lock' = [lock EXCEPT !.status = s, !.live = b]
  PROVE  lock' \in Lock /\ lock' # Absent /\ lock'.live = b
BY ConstantsAssumption DEF Lock

\* A change of locked_until alone.
LEMMA LiveEffect ==
  ASSUME lock \in Lock, NEW b \in BOOLEAN, lock' = [lock EXCEPT !.live = b]
  PROVE  lock' \in Lock /\ lock' # Absent /\ lock'.live = b
BY ConstantsAssumption DEF Lock

\* Only a row that is not locked is reclaimed, and then it is.
LEMMA ReclaimEffect ==
  ASSUME lock \in Lock \cup {Absent}, NEW w \in Workers, TryReclaim(w)
  PROVE  lock # Absent /\ ~lock.live /\ lock' \in Lock /\ lock' # Absent /\ lock'.live /\ aged' = FALSE
<1>1. lock \in Lock /\ lock # Absent /\ ~lock.live /\ aged' = FALSE
      /\ lock' = [lock EXCEPT !.status = "processing", !.live = TRUE]
  BY DEF TryReclaim
<1> QED BY <1>1, LockEffect DEF Statuses

\* A job that goes on to get or reclaim.
LEMMA SeekEffect ==
  ASSUME job \in Jobs, NEW w \in Workers, NEW j \in Job, j.at # "run",
         job' = [job EXCEPT ![w] = j]
  PROVE  /\ job' \in Jobs
         /\ ~At(w, "run")'
         /\ \A v \in Workers : v # w => job'[v] = job[v]
BY ConstantsAssumption DEF Jobs, At

\* The lock with which a call that has read it goes on.
LEMMA GetFreeEffect ==
  ASSUME job \in Jobs, lock \in Lock \cup {Absent}, holders \subseteq Workers,
         NEW w \in Workers, GetFree(w)
  PROVE  /\ job' \in Jobs /\ holders' \subseteq Workers
         /\ ~At(w, "run")'
         /\ \A v \in Workers : v # w => job'[v] = job[v]
         /\ UNCHANGED <<lock, aged, loop, overrun, faults>>
<1> DEFINE j == [job[w] EXCEPT !.at = "reclaim", !.saw = lock.status]
<1>1. job[w] \in Job /\ lock \in Lock
  BY DEF GetFree, At, Jobs
<1>2. j \in Job /\ j.at # "run"
  BY <1>1 DEF Job, Lock
<1>3. job' = [job EXCEPT ![w] = j]
  BY DEF GetFree
<1>4. holders' = holders \cup {w} /\ UNCHANGED <<lock, aged, loop, overrun, faults>>
  BY DEF GetFree
<1> HIDE DEF j
<1> QED BY <1>2, <1>3, <1>4, SeekEffect

-----------------------------------------------------------------------------
(* How RunningIsAlone survives *)

\* Without an overrun nobody runs while the row is missing or not locked.
LEMMA NobodyRuns ==
  ASSUME RunningIsAlone, ~overrun, lock = Absent \/ ~lock.live, NEW v \in Workers
  PROVE  ~At(v, "run")
BY DEF RunningIsAlone

\* A call that starts its operation finds nobody running.
LEMMA StartsAlone ==
  ASSUME RunningIsAlone, overrun' = overrun, lock = Absent \/ ~lock.live,
         lock' # Absent, lock'.live,
         NEW w \in Workers, \A v \in Workers : v # w => job'[v] = job[v]
  PROVE  RunningIsAlone'
<1> SUFFICES ASSUME ~overrun, NEW v \in Workers, v # w PROVE ~At(v, "run")'
  BY DEF RunningIsAlone
<1>1. ~At(v, "run")
  BY NobodyRuns
<1> QED BY <1>1 DEF At

\* Calls that end or go on to another statement leave the runner alone.
LEMMA StaysAlone ==
  ASSUME RunningIsAlone, overrun' = overrun,
         \A v \in Workers : At(v, "run")' => At(v, "run"),
         lock' = lock \/ (lock' # Absent /\ lock'.live)
  PROVE  RunningIsAlone'
BY DEF RunningIsAlone

\* Whatever becomes of the row when nobody runs.
LEMMA NoneRuns ==
  ASSUME ~overrun' => \A v \in Workers : ~At(v, "run")'
  PROVE  RunningIsAlone'
BY DEF RunningIsAlone

\* A call that returns does not run, and nobody starts to.
LEMMA ReturnShrinks ==
  ASSUME job \in Jobs, loop \in Loops, holders \subseteq Workers,
         NEW w \in Workers, Return(w)
  PROVE  ~At(w, "run")' /\ \A v \in Workers : At(v, "run")' => At(v, "run")
<1>1. job'[w] = Idle /\ \A v \in Workers : v # w => job'[v] = job[v]
  BY ReturnEffect
<1> QED BY <1>1 DEF At

-----------------------------------------------------------------------------
(* The three facts *)

\* It holds initially.
LEMMA InvInit == Init => IInv
<1> SUFFICES ASSUME Init PROVE IInv
  OBVIOUS
<1>1. MaxFaults \in Nat
  BY ConstantsAssumption
<1>2. TypeOK
  <2>1. job \in [Workers -> Job \cup {Idle}]
    BY DEF Init
  <2>2. loop \in [Workers -> Operations \cup {Idle}]
    BY DEF Init
  <2>3. faults \in 0..MaxFaults
    BY <1>1 DEF Init
  <2> QED BY <2>1, <2>2, <2>3 DEF Init, TypeOK
<1>3. AgedIsUnlocked
  BY DEF Init, AgedIsUnlocked
<1>4. \A w \in Workers : ~At(w, "run")
  BY DEF Init, At
<1> QED BY <1>2, <1>3, <1>4 DEF IInv, RunningIsAlone

\* Every step preserves it.
LEMMA InvNext == IInv /\ [Next]_vars => IInv'
<1> SUFFICES ASSUME IInv, [Next]_vars PROVE IInv'
  OBVIOUS
<1>0. /\ job \in Jobs /\ loop \in Loops /\ holders \subseteq Workers
      /\ lock \in Lock \cup {Absent} /\ aged \in BOOLEAN /\ overrun \in BOOLEAN
      /\ faults \in 0..MaxFaults /\ MaxFaults \in Nat
      /\ RunningIsAlone /\ AgedIsUnlocked
  BY ConstantsAssumption DEF IInv, TypeOK, Jobs, Loops
<1>t. ASSUME job' \in Jobs, loop' \in Loops, holders' \subseteq Workers,
             lock' \in Lock \cup {Absent}, aged' \in BOOLEAN, overrun' \in BOOLEAN,
             faults' = faults \/ Fault, AgedIsUnlocked', RunningIsAlone'
      PROVE  IInv'
  <2>1. faults' \in 0..MaxFaults
    BY <1>0, <1>t DEF Fault
  <2> QED BY <1>t, <2>1 DEF IInv, TypeOK, Jobs, Loops
<1>1. ASSUME NEW w \in Workers, NEW op \in Operations, AcquireNew(w, op) PROVE IInv'
  <2>1. CreateProcessing(op) /\ Run(w, op) /\ overrun' = overrun /\ faults' = faults
    BY <1>1 DEF AcquireNew
  <2>2. lock = Absent /\ lock' \in Lock /\ lock' # Absent /\ lock'.live /\ aged' = FALSE
    BY <2>1, CreateEffect
  <2>3. /\ job' \in Jobs /\ loop' \in Loops /\ holders' \subseteq Workers
        /\ \A v \in Workers : v # w => job'[v] = job[v]
    BY <1>0, <2>1, RunEffect
  <2>4. RunningIsAlone'
    BY <1>0, <2>1, <2>2, <2>3, StartsAlone
  <2> QED BY <1>0, <1>t, <2>1, <2>2, <2>3, <2>4 DEF AgedIsUnlocked
<1>2. ASSUME NEW w \in Workers, NEW op \in Operations, AcquireExisting(w, op) PROVE IInv'
  <2> DEFINE j == [op |-> op, at |-> "get", saw |-> "processing"]
  <2>1. /\ job' = [job EXCEPT ![w] = j]
        /\ UNCHANGED <<lock, aged, holders, loop, overrun, faults>>
    BY <1>2 DEF AcquireExisting
  <2>2. j \in Job /\ j.at # "run"
    BY DEF Job, Statuses
  <2> HIDE DEF j
  <2>3. job' \in Jobs /\ ~At(w, "run")' /\ \A v \in Workers : v # w => job'[v] = job[v]
    BY <1>0, <2>1, <2>2, SeekEffect
  <2>4. \A v \in Workers : At(v, "run")' => At(v, "run")
    BY <2>3 DEF At
  <2>5. RunningIsAlone'
    BY <1>0, <2>1, <2>4, StaysAlone
  <2> QED BY <1>0, <1>t, <2>1, <2>3, <2>5 DEF AgedIsUnlocked
<1>r. ASSUME NEW w \in Workers, Return(w), UNCHANGED <<lock, aged, overrun>>,
             faults' = faults \/ Fault
      PROVE  IInv'
  <2>1. job' \in Jobs /\ loop' \in Loops /\ holders' \subseteq Workers
    BY <1>0, <1>r, ReturnEffect
  <2>2. \A v \in Workers : At(v, "run")' => At(v, "run")
    BY <1>0, <1>r, ReturnShrinks
  <2>3. RunningIsAlone'
    BY <1>0, <1>r, <2>2, StaysAlone
  <2> QED BY <1>0, <1>t, <1>r, <2>1, <2>3 DEF AgedIsUnlocked
<1>3. ASSUME NEW w \in Workers, GetBusy(w) PROVE IInv'
  BY <1>3, <1>r DEF GetBusy
<1>4. ASSUME NEW w \in Workers, GetFree(w) PROVE IInv'
  <2>1. /\ job' \in Jobs /\ holders' \subseteq Workers /\ ~At(w, "run")'
        /\ \A v \in Workers : v # w => job'[v] = job[v]
        /\ UNCHANGED <<lock, aged, loop, overrun, faults>>
    BY <1>0, <1>4, GetFreeEffect
  <2>2. \A v \in Workers : At(v, "run")' => At(v, "run")
    BY <2>1 DEF At
  <2>3. RunningIsAlone'
    BY <1>0, <2>1, <2>2, StaysAlone
  <2> QED BY <1>0, <1>t, <2>1, <2>3 DEF AgedIsUnlocked
<1>5. ASSUME NEW w \in Workers, Reclaim(w) PROVE IInv'
  <2>1. TryReclaim(w) /\ Run(w, job[w].op) /\ overrun' = overrun /\ faults' = faults
    BY <1>5 DEF Reclaim
  <2>2. job[w].op \in Operations
    BY <1>0, <1>5 DEF Reclaim, At, Jobs, Job
  <2>3. lock # Absent /\ ~lock.live /\ lock' \in Lock /\ lock' # Absent /\ lock'.live /\ aged' = FALSE
    BY <1>0, <2>1, ReclaimEffect
  <2>4. /\ job' \in Jobs /\ loop' \in Loops /\ holders' \subseteq Workers
        /\ \A v \in Workers : v # w => job'[v] = job[v]
    BY <1>0, <2>1, <2>2, RunEffect
  <2>5. RunningIsAlone'
    BY <1>0, <2>1, <2>3, <2>4, StartsAlone
  <2> QED BY <1>0, <1>t, <2>1, <2>3, <2>4, <2>5 DEF AgedIsUnlocked
<1>6. ASSUME NEW w \in Workers, ReclaimRefused(w) PROVE IInv'
  BY <1>6, <1>r DEF ReclaimRefused
<1>7. ASSUME NEW w \in Workers, Release(w) PROVE IInv'
  <2>1. At(w, "run") /\ Return(w) /\ overrun' = overrun /\ faults' = faults
    BY <1>7 DEF Release
  <2>2. CASE lock # Absent /\ w \in holders
    <3>1. PICK s \in {"succeeded", "failed_retryable"} :
            lock' = [lock EXCEPT !.status = s, !.live = FALSE] /\ aged' = FALSE
      BY <1>7, <2>2 DEF Release
    <3>2. lock \in Lock /\ s \in Statuses
      BY <1>0, <2>2 DEF Statuses
    <3>3. lock' \in Lock
      BY <3>1, <3>2, LockEffect
    <3>4. job' \in Jobs /\ loop' \in Loops /\ holders' \subseteq Workers
      BY <1>0, <2>1, ReturnEffect
    <3>5. ~At(w, "run")' /\ \A v \in Workers : At(v, "run")' => At(v, "run")
      BY <1>0, <2>1, ReturnShrinks
    <3>6. ~overrun => \A v \in Workers : At(v, "run") => v = w
      BY <1>0, <2>1 DEF RunningIsAlone
    <3>7. RunningIsAlone'
      BY <2>1, <3>5, <3>6, NoneRuns
    <3> QED BY <1>0, <1>t, <2>1, <3>1, <3>3, <3>4, <3>7 DEF AgedIsUnlocked
  <2>3. CASE ~(lock # Absent /\ w \in holders)
    <3>1. UNCHANGED <<lock, aged>>
      BY <1>7, <2>3 DEF Release
    <3> QED BY <1>r, <2>1, <3>1
  <2> QED BY <2>2, <2>3
<1>8. ASSUME NEW w \in Workers, Renew(w) PROVE IInv'
  <2>1. UNCHANGED <<holders, job, overrun, faults>>
    BY <1>8 DEF Renew
  <2>2. \A v \in Workers : At(v, "run")' => At(v, "run")
    BY <2>1 DEF At
  <2>3. CASE Extends(w)
    <3>1. lock' = [lock EXCEPT !.live = TRUE] /\ aged' = FALSE /\ loop' = loop
      BY <1>8, <2>3 DEF Renew
    <3>2. lock \in Lock
      BY <1>0, <2>3 DEF Extends
    <3>3. lock' \in Lock /\ lock' # Absent /\ lock'.live
      BY <3>1, <3>2, LiveEffect
    <3>4. RunningIsAlone'
      BY <1>0, <2>1, <2>2, <3>3, StaysAlone
    <3> QED BY <1>0, <1>t, <2>1, <3>1, <3>3, <3>4 DEF AgedIsUnlocked
  <2>4. CASE ~Extends(w)
    <3>1. loop' = [loop EXCEPT ![w] = Idle] /\ UNCHANGED <<lock, aged>>
      BY <1>8, <2>4 DEF Renew
    <3>2. loop' \in Loops
      BY <1>0, <3>1 DEF Loops
    <3>3. RunningIsAlone'
      BY <1>0, <2>1, <2>2, <3>1, StaysAlone
    <3> QED BY <1>0, <1>t, <2>1, <3>1, <3>2, <3>3 DEF AgedIsUnlocked
  <2> QED BY <2>3, <2>4
<1>9. ASSUME NEW w \in Workers, AcquireLost(w) PROVE IInv'
  <2>1. Return(w) /\ Fault /\ overrun' = overrun
    BY <1>9 DEF AcquireLost
  <2>2. /\ lock = Absent \/ ~lock.live
        /\ lock' \in Lock /\ lock' # Absent /\ lock'.live /\ aged' = FALSE
    BY <1>0, <1>9, CreateEffect, ReclaimEffect DEF AcquireLost
  <2>3. job' \in Jobs /\ loop' \in Loops /\ holders' \subseteq Workers
    BY <1>0, <2>1, ReturnEffect
  <2>4. \A v \in Workers : At(v, "run")' => At(v, "run")
    BY <1>0, <2>1, ReturnShrinks
  <2>5. RunningIsAlone'
    BY <1>0, <2>1, <2>2, <2>4, StaysAlone
  <2> QED BY <1>0, <1>t, <2>1, <2>2, <2>3, <2>5 DEF AgedIsUnlocked
<1>10. ASSUME NEW w \in Workers, RenewFails(w) PROVE IInv'
  <2>1. Fault /\ UNCHANGED <<lock, aged, holders, job, loop, overrun>>
    BY <1>10 DEF RenewFails
  <2>2. RunningIsAlone'
    BY <1>0, <2>1 DEF RunningIsAlone, At
  <2> QED BY <1>0, <1>t, <2>1, <2>2 DEF AgedIsUnlocked
<1>11. ASSUME NEW w \in Workers, ReleaseFails(w) \/ Crash(w) PROVE IInv'
  BY <1>11, <1>r DEF ReleaseFails, Crash
<1>e. ASSUME LeaseEnds, faults' = faults \/ Fault PROVE IInv'
  <2>1. /\ lock # Absent /\ lock.live /\ lock' = [lock EXCEPT !.live = FALSE]
        /\ overrun' = (overrun \/ Running # {})
        /\ UNCHANGED <<aged, holders, job, loop>>
    BY <1>e DEF LeaseEnds
  <2>2. lock' \in Lock /\ lock' # Absent /\ ~lock'.live
    BY <1>0, <2>1, LiveEffect
  <2>3. ~overrun' => \A v \in Workers : ~At(v, "run")'
    BY <2>1 DEF Running, At
  <2>4. RunningIsAlone'
    BY <2>3, NoneRuns
  <2>5. overrun' \in BOOLEAN
    BY <2>1
  <2> QED BY <1>0, <1>t, <1>e, <2>1, <2>2, <2>4, <2>5 DEF AgedIsUnlocked
<1>12. ASSUME LeaseLapses \/ RenewalStalls PROVE IInv'
  BY <1>12, <1>e DEF LeaseLapses, RenewalStalls
<1>13. ASSUME RowExpires PROVE IInv'
  <2>1. /\ lock # Absent /\ ~lock.live /\ aged' = TRUE
        /\ faults' = faults \/ Fault
        /\ UNCHANGED <<lock, holders, job, loop, overrun>>
    BY <1>13 DEF RowExpires
  <2>2. RunningIsAlone'
    BY <1>0, <2>1 DEF RunningIsAlone, At
  <2> QED BY <1>0, <1>t, <2>1, <2>2 DEF AgedIsUnlocked
<1>14. ASSUME DeleteExpired PROVE IInv'
  <2>1. /\ aged /\ lock' = Absent /\ aged' = FALSE /\ holders' = {}
        /\ UNCHANGED <<job, loop, overrun, faults>>
    BY <1>14 DEF DeleteExpired
  <2>2. lock # Absent /\ ~lock.live
    BY <1>0, <2>1 DEF AgedIsUnlocked
  <2>3. ~overrun => \A v \in Workers : ~At(v, "run")
    BY <1>0, <2>2, NobodyRuns
  <2>4. RunningIsAlone'
    BY <2>1, <2>3, NoneRuns DEF At
  <2> QED BY <1>0, <1>t, <2>1, <2>4 DEF AgedIsUnlocked
<1>15. CASE UNCHANGED vars
  <2>1. UNCHANGED <<lock, aged, holders, job, loop, overrun, faults>>
    BY <1>15 DEF vars
  <2>2. RunningIsAlone'
    BY <1>0, <2>1 DEF RunningIsAlone, At
  <2> QED BY <1>0, <1>t, <2>1, <2>2 DEF AgedIsUnlocked
<1> QED
  BY <1>1, <1>2, <1>3, <1>4, <1>5, <1>6, <1>7, <1>8, <1>9, <1>10, <1>11,
     <1>12, <1>13, <1>14, <1>15
  DEF Next, Step, Disturb, Time

-----------------------------------------------------------------------------
(* Theorems *)

\* The inductive invariant holds in every reachable state.
THEOREM Invariance == Spec => []IInv
BY InvInit, InvNext, PTL DEF Spec

\* Types: the row, the calls and the renewal loops stay what the table and the
\* service know.
THEOREM TypeCorrect == Spec => []TypeOK
<1>1. IInv => TypeOK
  BY DEF IInv
<1> QED BY <1>1, Invariance, PTL

\* A set whose members are all equal has at most one.
LEMMA AtMostOne ==
  ASSUME NEW S, \A x, y \in S : x = y
  PROVE  Cardinality(S) <= 1
<1>1. CASE S = {}
  BY <1>1, FS_EmptySet
<1>2. CASE S # {}
  <2>1. PICK x \in S : TRUE
    BY <1>2
  <2>2. S = {x}
    BY <2>1
  <2> QED BY <2>2, FS_Singleton
<1> QED BY <1>1, <1>2

\* As long as no lease has lapsed under an operation, create, read and reclaim
\* let at most one system operation run, for any number of calls.
THEOREM ExclusiveWhileLeased == Spec => []ExclusiveUnlessOverrun
<1>1. IInv => ExclusiveUnlessOverrun
  <2> SUFFICES ASSUME IInv, ~overrun PROVE Cardinality(Running) <= 1
    BY DEF ExclusiveUnlessOverrun
  <2>1. \A x, y \in Running : x = y
    BY DEF IInv, RunningIsAlone, Running
  <2> QED BY <2>1, AtMostOne
<1> QED BY <1>1, Invariance, PTL

-----------------------------------------------------------------------------
(* Renewal *)

\* Until a lease has lapsed under an operation, whoever runs knows the id of
\* the row, the row is processing, and its goroutine renews the lease unless
\* the row carries the id of another operation.
RunnerRenews ==
  ~overrun =>
    \A w \in Workers : At(w, "run") =>
      /\ w \in holders /\ lock.status = "processing"
      /\ loop[w] = job[w].op \/ lock.op # job[w].op

RInv == IInv /\ RunnerRenews

\* Steps that start no operation and disturb neither the row's names nor what
\* a running worker holds.
LEMMA KeepsRenewing ==
  ASSUME RunnerRenews, overrun' = overrun,
         \A v \in Workers : At(v, "run")' =>
           /\ At(v, "run") /\ job'[v] = job[v] /\ loop'[v] = loop[v]
           /\ v \in holders => v \in holders'
           /\ lock'.status = lock.status /\ lock'.op = lock.op
  PROVE  RunnerRenews'
BY DEF RunnerRenews

\* When nobody runs there is nothing to renew.
LEMMA NothingToRenew ==
  ASSUME ~overrun' => \A v \in Workers : ~At(v, "run")'
  PROVE  RunnerRenews'
BY DEF RunnerRenews

\* A call that starts its operation alone starts the renewal of its own id.
LEMMA StartsRenewing ==
  ASSUME job \in Jobs, loop \in Loops, holders \subseteq Workers,
         NEW w \in Workers, NEW op \in Operations, Run(w, op),
         lock'.status = "processing", overrun' = overrun,
         ~overrun => \A v \in Workers : ~At(v, "run")
  PROVE  RunnerRenews'
<1> DEFINE j == [op |-> op, at |-> "run", saw |-> "processing"]
<1>1. job' = [job EXCEPT ![w] = j] /\ loop' = [loop EXCEPT ![w] = op] /\ holders' = holders \cup {w}
  BY DEF Run
<1>2. j.op = op
  OBVIOUS
<1> HIDE DEF j
<1>3. job'[w].op = op /\ loop'[w] = op /\ w \in holders'
  BY <1>1, <1>2 DEF Jobs, Loops
<1>4. \A v \in Workers : v # w => job'[v] = job[v]
  BY <1>1 DEF Jobs
<1>5. ~overrun' => \A v \in Workers : At(v, "run")' => v = w
  BY <1>4 DEF At
<1> QED BY <1>3, <1>5 DEF RunnerRenews

\* A call that ends leaves the others' jobs, loops and knowledge alone.
LEMMA ReturnKeepsRenewing ==
  ASSUME job \in Jobs, loop \in Loops, holders \subseteq Workers,
         RunnerRenews, overrun' = overrun, lock' = lock,
         NEW w \in Workers, Return(w)
  PROVE  RunnerRenews'
<1>1. /\ job'[w] = Idle
      /\ \A v \in Workers : v # w =>
           job'[v] = job[v] /\ loop'[v] = loop[v] /\ (v \in holders => v \in holders')
  BY DEF Return, Jobs, Loops
<1>2. \A v \in Workers : At(v, "run")' => v # w /\ At(v, "run")
  BY <1>1 DEF At
<1> QED BY <1>1, <1>2, KeepsRenewing

\* It holds initially.
LEMMA RenewsInit == Init => RunnerRenews
BY DEF Init, RunnerRenews, At

\* Every step preserves it.
LEMMA RenewsNext == RInv /\ [Next]_vars => RunnerRenews'
<1> SUFFICES ASSUME RInv, [Next]_vars PROVE RunnerRenews'
  OBVIOUS
<1>0. /\ job \in Jobs /\ loop \in Loops /\ holders \subseteq Workers
      /\ lock \in Lock \cup {Absent}
      /\ RunningIsAlone /\ AgedIsUnlocked /\ RunnerRenews
  BY DEF RInv, IInv, TypeOK, Jobs, Loops
<1>1. ASSUME NEW w \in Workers, NEW op \in Operations, AcquireNew(w, op) PROVE RunnerRenews'
  <2>1. CreateProcessing(op) /\ Run(w, op) /\ overrun' = overrun
    BY <1>1 DEF AcquireNew
  <2>2. lock = Absent /\ lock'.status = "processing"
    BY <2>1 DEF CreateProcessing
  <2>3. ~overrun => \A v \in Workers : ~At(v, "run")
    BY <1>0, <2>2, NobodyRuns
  <2> QED BY <1>0, <2>1, <2>2, <2>3, StartsRenewing
<1>2. ASSUME NEW w \in Workers, NEW op \in Operations, AcquireExisting(w, op) PROVE RunnerRenews'
  <2> DEFINE j == [op |-> op, at |-> "get", saw |-> "processing"]
  <2>1. /\ job' = [job EXCEPT ![w] = j]
        /\ UNCHANGED <<lock, holders, loop, overrun>>
    BY <1>2 DEF AcquireExisting
  <2>2. j \in Job /\ j.at # "run"
    BY DEF Job, Statuses
  <2> HIDE DEF j
  <2>3. ~At(w, "run")' /\ \A v \in Workers : v # w => job'[v] = job[v]
    BY <1>0, <2>1, <2>2, SeekEffect
  <2>4. \A v \in Workers : At(v, "run")' => At(v, "run") /\ job'[v] = job[v]
    BY <2>3 DEF At
  <2> QED BY <1>0, <2>1, <2>4, KeepsRenewing
<1>r. ASSUME NEW w \in Workers, Return(w), UNCHANGED <<lock, overrun>> PROVE RunnerRenews'
  BY <1>0, <1>r, ReturnKeepsRenewing
<1>3. ASSUME NEW w \in Workers, GetBusy(w) \/ ReclaimRefused(w) \/ ReleaseFails(w) \/ Crash(w)
      PROVE  RunnerRenews'
  BY <1>3, <1>r DEF GetBusy, ReclaimRefused, ReleaseFails, Crash
<1>4. ASSUME NEW w \in Workers, GetFree(w) PROVE RunnerRenews'
  <2>1. /\ ~At(w, "run")' /\ \A v \in Workers : v # w => job'[v] = job[v]
        /\ UNCHANGED <<lock, loop, overrun>>
    BY <1>0, <1>4, GetFreeEffect
  <2>2. holders \subseteq holders'
    BY <1>4 DEF GetFree
  <2>3. \A v \in Workers : At(v, "run")' => At(v, "run") /\ job'[v] = job[v]
    BY <2>1 DEF At
  <2> QED BY <1>0, <2>1, <2>2, <2>3, KeepsRenewing
<1>5. ASSUME NEW w \in Workers, Reclaim(w) PROVE RunnerRenews'
  <2>1. TryReclaim(w) /\ Run(w, job[w].op) /\ overrun' = overrun
    BY <1>5 DEF Reclaim
  <2>2. job[w].op \in Operations
    BY <1>0, <1>5 DEF Reclaim, At, Jobs, Job
  <2>3. lock \in Lock /\ ~lock.live
        /\ lock' = [lock EXCEPT !.status = "processing", !.live = TRUE]
    BY <1>0, <2>1 DEF TryReclaim
  <2>4. lock'.status = "processing"
    BY <2>3 DEF Lock
  <2>5. ~overrun => \A v \in Workers : ~At(v, "run")
    BY <1>0, <2>3, NobodyRuns
  <2> QED BY <1>0, <2>1, <2>2, <2>4, <2>5, StartsRenewing
<1>6. ASSUME NEW w \in Workers, Release(w) PROVE RunnerRenews'
  <2>1. At(w, "run") /\ Return(w) /\ overrun' = overrun
    BY <1>6 DEF Release
  <2>2. ~At(w, "run")' /\ \A v \in Workers : At(v, "run")' => At(v, "run")
    BY <1>0, <2>1, ReturnShrinks
  <2>3. ~overrun => \A v \in Workers : At(v, "run") => v = w
    BY <1>0, <2>1 DEF RunningIsAlone
  <2> QED BY <2>1, <2>2, <2>3, NothingToRenew
<1>7. ASSUME NEW w \in Workers, Renew(w) PROVE RunnerRenews'
  <2>1. UNCHANGED <<holders, job, overrun>>
    BY <1>7 DEF Renew
  <2>2. \A v \in Workers : At(v, "run")' => At(v, "run")
    BY <2>1 DEF At
  <2>3. CASE Extends(w)
    <3>1. lock \in Lock /\ lock' = [lock EXCEPT !.live = TRUE] /\ loop' = loop
      BY <1>0, <1>7, <2>3 DEF Renew, Extends
    <3>2. lock'.status = lock.status /\ lock'.op = lock.op
      BY <3>1 DEF Lock
    <3> QED BY <1>0, <2>1, <2>2, <3>1, <3>2, KeepsRenewing
  <2>4. CASE ~Extends(w)
    <3>1. loop[w] # Idle /\ loop' = [loop EXCEPT ![w] = Idle] /\ lock' = lock
      BY <1>7, <2>4 DEF Renew
    <3>2. \A v \in Workers : v # w => loop'[v] = loop[v]
      BY <1>0, <3>1 DEF Loops
    <3>3. ~overrun /\ At(w, "run") => lock.op # job[w].op
      <4> SUFFICES ASSUME ~overrun, At(w, "run"), lock.op = job[w].op PROVE FALSE
        OBVIOUS
      <4>1. /\ w \in holders /\ lock.status = "processing" /\ loop[w] = lock.op
            /\ lock # Absent
        BY <1>0 DEF RunnerRenews, RunningIsAlone
      <4> QED BY <2>4, <3>1, <4>1 DEF Extends
    <3>4. SUFFICES ASSUME ~overrun, NEW v \in Workers, At(v, "run")
                   PROVE  /\ v \in holders /\ lock.status = "processing"
                          /\ loop'[v] = job[v].op \/ lock.op # job[v].op
      BY <2>1, <2>2, <3>1 DEF RunnerRenews
    <3>5. CASE v = w
      BY <1>0, <3>3, <3>4, <3>5 DEF RunnerRenews
    <3>6. CASE v # w
      BY <1>0, <3>2, <3>4, <3>6 DEF RunnerRenews
    <3> QED BY <3>5, <3>6
  <2> QED BY <2>3, <2>4
<1>8. ASSUME NEW w \in Workers, AcquireLost(w) PROVE RunnerRenews'
  <2>1. Return(w) /\ overrun' = overrun
    BY <1>8 DEF AcquireLost
  <2>2. lock = Absent \/ ~lock.live
    BY <1>8 DEF AcquireLost, CreateProcessing, TryReclaim
  <2>3. \A v \in Workers : At(v, "run")' => At(v, "run")
    BY <1>0, <2>1, ReturnShrinks
  <2>4. ~overrun => \A v \in Workers : ~At(v, "run")
    BY <1>0, <2>2, NobodyRuns
  <2> QED BY <2>1, <2>3, <2>4, NothingToRenew
<1>9. ASSUME NEW w \in Workers, RenewFails(w) PROVE RunnerRenews'
  BY <1>0, <1>9, KeepsRenewing DEF RenewFails, At
<1>10. ASSUME LeaseLapses \/ RenewalStalls PROVE RunnerRenews'
  <2>1. overrun' = (overrun \/ Running # {}) /\ job' = job
    BY <1>10 DEF LeaseLapses, RenewalStalls, LeaseEnds
  <2>2. ~overrun' => \A v \in Workers : ~At(v, "run")'
    BY <2>1 DEF Running, At
  <2> QED BY <2>2, NothingToRenew
<1>11. ASSUME RowExpires PROVE RunnerRenews'
  BY <1>0, <1>11, KeepsRenewing DEF RowExpires, At
<1>12. ASSUME DeleteExpired PROVE RunnerRenews'
  <2>1. aged /\ UNCHANGED <<job, overrun>>
    BY <1>12 DEF DeleteExpired
  <2>2. ~overrun => \A v \in Workers : ~At(v, "run")
    BY <1>0, <2>1, NobodyRuns DEF AgedIsUnlocked
  <2>3. ~overrun' => \A v \in Workers : ~At(v, "run")'
    BY <2>1, <2>2 DEF At
  <2> QED BY <2>3, NothingToRenew
<1>13. CASE UNCHANGED vars
  BY <1>0, <1>13, KeepsRenewing DEF vars, At
<1> QED
  BY <1>1, <1>2, <1>3, <1>4, <1>5, <1>6, <1>7, <1>8, <1>9, <1>10, <1>11, <1>12, <1>13
  DEF Next, Step, Disturb, Time

\* A lease lapses under the operation the row names only if its renewal failed,
\* and that is a fault.
LEMMA LapseStep ==
  ASSUME RInv, [Next]_vars, overrun', ~overrun, faults' = faults
  PROVE  \E w \in Running : job[w].op # lock.op
<1>1. /\ job \in Jobs /\ faults \in 0..MaxFaults /\ MaxFaults \in Nat
      /\ RunningIsAlone /\ RunnerRenews
  BY ConstantsAssumption DEF RInv, IInv, TypeOK, Jobs
<1>2. ~Fault
  BY <1>1 DEF Fault
<1>3. LeaseLapses
  <2>1. ASSUME overrun' = overrun PROVE FALSE
    BY <2>1
  <2>2. \A w \in Workers, op \in Operations : ~AcquireNew(w, op) /\ ~AcquireExisting(w, op)
    BY <2>1 DEF AcquireNew, AcquireExisting
  <2>3. \A w \in Workers : ~Step(w)
    BY <2>1 DEF Step, GetBusy, GetFree, Reclaim, ReclaimRefused, Release
  <2>4. \A w \in Workers : ~Renew(w) /\ ~Disturb(w)
    BY <2>1 DEF Renew, Disturb, AcquireLost, RenewFails, ReleaseFails, Crash
  <2>5. ~RenewalStalls /\ ~RowExpires /\ ~DeleteExpired /\ ~UNCHANGED vars
    BY <1>2, <2>1 DEF RenewalStalls, RowExpires, DeleteExpired, vars
  <2> QED BY <2>2, <2>3, <2>4, <2>5 DEF Next, Time
<1>4. ~Renewed /\ overrun' = (overrun \/ Running # {})
  BY <1>3 DEF LeaseLapses, LeaseEnds
<1>5. PICK w \in Running : TRUE
  BY <1>4
<1>6. w \in Workers /\ At(w, "run")
  BY <1>5 DEF Running
<1>7. job[w].op # lock.op
  <2> SUFFICES ASSUME job[w].op = lock.op PROVE FALSE
    OBVIOUS
  <2>1. /\ w \in holders /\ lock.status = "processing" /\ loop[w] = lock.op
        /\ lock # Absent
    BY <1>1, <1>6 DEF RunnerRenews, RunningIsAlone
  <2>2. job[w].op \in Operations
    BY <1>1, <1>6 DEF At, Jobs, Job
  <2>3. loop[w] # Idle
    BY <2>1, <2>2, ConstantsAssumption
  <2> QED BY <1>4, <1>6, <2>1, <2>3 DEF Extends, Renewed
<1> QED BY <1>5, <1>7

\* The stronger invariant holds in every reachable state.
LEMMA RenewalInvariance == Spec => []RInv
<1>1. Init => RInv
  BY InvInit, RenewsInit DEF RInv
<1>2. RInv /\ [Next]_vars => RInv'
  BY InvNext, RenewsNext DEF RInv
<1> QED BY <1>1, <1>2, PTL DEF Spec

\* Without a fault a lease first lapses only under an operation that the row
\* does not name: TryReclaim leaves the id of the call it takes the row from,
\* and ExtendProcessingLock then matches no row.
THEOREM NamedIsRenewed == Spec => NamedOperationKeepsLease
<1>1. RInv /\ [Next]_vars =>
        [(overrun' /\ ~overrun /\ faults' = faults) =>
           (\E w \in Running : job[w].op # lock.op)]_vars
  BY LapseStep
<1> QED BY <1>1, RenewalInvariance, PTL DEF Spec, NamedOperationKeepsLease
=============================================================================
