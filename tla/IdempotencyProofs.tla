------------------------- MODULE IdempotencyProofs -------------------------
(***************************************************************************)
(* Machine-checked proofs about Idempotency, for any number of requests,   *)
(* payloads and faults.                                                    *)
(***************************************************************************)
EXTENDS Idempotency, TLAPS

-----------------------------------------------------------------------------
(* The inductive invariant *)

\* Whoever knows the id of the row has a request with the row's fingerprint, and
\* whoever executes knows it; the stored body answers that fingerprint.
HoldersMatch ==
  /\ row = Absent => holders = {}
  /\ \A w \in holders : job[w] # Idle /\ job[w].fp = row.fp
  /\ Executing \subseteq holders
  /\ (row # Absent /\ row.status = "succeeded") => row.body = row.fp

\* A row begins, and ends, without executions.
FreshIsUnused ==
  (row = Absent \/ row.expired) => effects = 0 /\ Executing = {}

\* A failed row is reclaimed only by calls that saw it failed.
FailedWasSeen ==
  \A w \in Workers : At(w, "reclaimFailed") => job[w].saw = "failed_retryable"

\* Without a stale reclaim one call executes at a time, the row says so, and none
\* that executes, has failed or may be retried follows a success.
OneExecutes ==
  ~stale =>
    /\ effects <= 1
    /\ \A v, w \in Executing : v = w
    /\ Executing # {} => row.status = "processing"
    /\ \A w \in Workers : At(w, "execute") \/ At(w, "markFailed") => effects = 0
    /\ (row # Absent /\ row.status = "failed_retryable") => effects = 0

IInv ==
  /\ TypeOK
  /\ HoldersMatch
  /\ FreshIsUnused
  /\ FailedWasSeen
  /\ OneExecutes
  /\ ReplayIsOwn
  /\ StuckOnlyAfterFault

-----------------------------------------------------------------------------
(* What the helpers do *)

Jobs == [Workers -> Job \cup {Idle}]

\* A request moved to a point is the same request.
LEMMA GotoEffect ==
  ASSUME job \in Jobs, NEW w \in Workers, job[w] # Idle,
         NEW p \in Points, Goto(w, p)
  PROVE  /\ job' \in Jobs
         /\ job'[w] # Idle /\ job'[w].at = p
         /\ job'[w].fp = job[w].fp /\ job'[w].saw = job[w].saw
         /\ \A v \in Workers : v # w => job'[v] = job[v]
<1> DEFINE j == [job[w] EXCEPT !.at = p]
<1>1. j \in Job /\ j.at = p /\ j.fp = job[w].fp /\ j.saw = job[w].saw
  BY DEF Jobs, Job
<1>2. job' = [job EXCEPT ![w] = j]
  BY DEF Goto
<1> HIDE DEF j
<1> QED BY <1>1, <1>2, ConstantsAssumption DEF Jobs

\* A request that was answered leaves its worker idle.
LEMMA DoneEffect ==
  ASSUME job \in Jobs, NEW w \in Workers, job' = [job EXCEPT ![w] = Idle]
  PROVE  /\ job' \in Jobs
         /\ job'[w] = Idle
         /\ \A v \in Workers : v # w => job'[v] = job[v]
BY DEF Jobs

\* A request that found the row is at the point its status decides.
LEMMA SawEffect ==
  ASSUME job \in Jobs, NEW w \in Workers, job[w] # Idle,
         NEW p \in Points, NEW s \in Statuses,
         job' = [job EXCEPT ![w].at = p, ![w].saw = s]
  PROVE  /\ job' \in Jobs
         /\ job'[w] # Idle /\ job'[w].at = p
         /\ job'[w].fp = job[w].fp /\ job'[w].saw = s
         /\ \A v \in Workers : v # w => job'[v] = job[v]
<1> DEFINE j == [[job[w] EXCEPT !.at = p] EXCEPT !.saw = s]
<1>1. j \in Job /\ j.at = p /\ j.fp = job[w].fp /\ j.saw = s
  BY DEF Jobs, Job
<1>2. job' = [job EXCEPT ![w] = j]
  OBVIOUS
<1> HIDE DEF j
<1>3. job'[w] = j /\ \A v \in Workers : v # w => job'[v] = job[v]
  BY <1>2 DEF Jobs
<1>4. job' \in Jobs
  BY <1>1, <1>2 DEF Jobs
<1>5. j # Idle
  BY <1>1, ConstantsAssumption
<1> QED BY <1>1, <1>3, <1>4, <1>5

\* A new request is the one that was asked for.
LEMMA BeginEffect ==
  ASSUME job \in Jobs, NEW w \in Workers, NEW fp \in Fingerprints, NEW p \in Points,
         job' = [job EXCEPT ![w] = [fp |-> fp, at |-> p, saw |-> "processing"]]
  PROVE  /\ job' \in Jobs
         /\ job'[w] # Idle /\ job'[w].at = p
         /\ job'[w].fp = fp /\ job'[w].saw = "processing"
         /\ \A v \in Workers : v # w => job'[v] = job[v]
<1> DEFINE j == [fp |-> fp, at |-> p, saw |-> "processing"]
<1>1. j \in Job /\ j.at = p /\ j.fp = fp /\ j.saw = "processing"
  BY DEF Job, Statuses
<1> HIDE DEF j
<1>2. job' = [job EXCEPT ![w] = j]
  BY DEF j
<1> QED BY <1>1, <1>2, ConstantsAssumption DEF Jobs

\* The updates of the row type.
LEMMA RowEffect ==
  ASSUME row \in Row, NEW s \in Statuses, NEW l \in BOOLEAN,
         row' = [row EXCEPT !.status = s, !.locked = l, !.expired = FALSE]
  PROVE  /\ row' \in Row
         /\ row'.fp = row.fp /\ row'.body = row.body
         /\ row'.status = s /\ ~row'.expired
BY DEF Row

-----------------------------------------------------------------------------
(* Preservation *)

\* A call that ends without a mark leaves the invariant alone: it was not
\* executing, or it ends by a fault.
LEMMA Ends ==
  ASSUME IInv, NEW w \in Workers, Return(w),
         UNCHANGED <<row, effects, stale>>,
         replays' \subseteq Fingerprints \X (Fingerprints \cup {None}), ReplayIsOwn',
         faults' \in 0..MaxFaults,
         (faults' = faults /\ w \notin Executing) \/ faults' # 0
  PROVE  IInv'
<1> USE DEF IInv
<1>1. job \in Jobs
  BY DEF TypeOK, Jobs
<1>2. /\ job' \in Jobs /\ job'[w] = Idle
      /\ \A v \in Workers : v # w => job'[v] = job[v]
  BY <1>1, DoneEffect DEF Return
<1>3. TypeOK'
  BY <1>2 DEF TypeOK, Return, Jobs
<1>4. Executing' = Executing \ {w}
  BY <1>2 DEF Executing, At
<1>5. HoldersMatch'
  BY <1>2, <1>4 DEF HoldersMatch, Return, TypeOK
<1>6. FreshIsUnused'
  BY <1>4 DEF FreshIsUnused
<1>7. FailedWasSeen'
  BY <1>2 DEF FailedWasSeen, At
<1>8. OneExecutes'
  BY <1>2, <1>4 DEF OneExecutes, At
<1>9. StuckOnlyAfterFault'
  BY <1>4 DEF StuckOnlyAfterFault, Return, TypeOK
<1> QED BY <1>3, <1>5, <1>6, <1>7, <1>8, <1>9

\* A call that reads the row, and neither executed nor executes, leaves the
\* invariant alone, if what it learns of the row is true.
LEMMA Reads ==
  ASSUME IInv, NEW w \in Workers,
         UNCHANGED <<row, history, faults>>,
         job' \in Jobs, \A v \in Workers : v # w => job'[v] = job[v],
         w \notin Executing, w \notin Executing',
         pastLock' \subseteq Workers, pastExpiry' \subseteq Workers,
         \/ holders' = holders \cup {w} /\ row # Absent
         \/ holders' = holders,
         w \in holders' => job'[w] # Idle /\ job'[w].fp = row.fp,
         At(w, "reclaimFailed")' => job'[w].saw = "failed_retryable"
  PROVE  IInv'
<1> USE DEF IInv, history
<1>1. TypeOK'
  BY DEF TypeOK, Jobs
<1>2. Executing' = Executing
  BY DEF Executing, At
<1>3. HoldersMatch'
  BY <1>2 DEF HoldersMatch, TypeOK
<1>4. FreshIsUnused'
  BY <1>2 DEF FreshIsUnused
<1>5. FailedWasSeen'
  BY DEF FailedWasSeen, At
<1>6. OneExecutes'
  <2>1. \A v \in Workers : (At(v, "execute") \/ At(v, "markFailed"))' =>
                              At(v, "execute") \/ At(v, "markFailed")
    BY DEF At, Executing
  <2> QED BY <1>2, <2>1 DEF OneExecutes
<1>7. ReplayIsOwn'
  BY DEF ReplayIsOwn
<1>8. StuckOnlyAfterFault'
  BY <1>2 DEF StuckOnlyAfterFault, HoldersMatch
<1> QED BY <1>1, <1>3, <1>4, <1>5, <1>6, <1>7, <1>8

\* A row that TryReclaim takes without staleness had its success forgotten or
\* none, and nobody executes it.
LEMMA ReclaimedIsUnused ==
  ASSUME IInv, NEW w \in Workers,
         At(w, "reclaimExpired") \/ At(w, "reclaimFailed"),
         TryReclaim(w)
  PROVE  /\ row \in Row /\ row' \in Row /\ row'.fp = row.fp
         /\ row'.status = "processing" /\ ~row'.expired
         /\ stale' \in BOOLEAN
         /\ ~stale' => effects = 0 /\ Executing = {} /\ ~stale
<1> USE DEF IInv
<1>1. row \in Row
  BY DEF TryReclaim, Reclaimable, TypeOK
<1>2. row' \in Row /\ row'.fp = row.fp /\ row'.status = "processing" /\ ~row'.expired
  BY <1>1, RowEffect DEF TryReclaim, Statuses
<1>3. stale' \in BOOLEAN
  BY <1>1 DEF TryReclaim, TypeOK, Row, At
<1>4. ASSUME ~stale' PROVE effects = 0 /\ Executing = {} /\ ~stale
  <2>1. CASE At(w, "reclaimExpired")
    BY <1>4, <2>1 DEF TryReclaim, FreshIsUnused
  <2>2. CASE At(w, "reclaimFailed")
    <3>1. ~stale
      BY <1>4 DEF TryReclaim
    <3>2. row.status = "failed_retryable" /\ row # Absent
      BY <2>2 DEF TryReclaim, Reclaimable, FailedWasSeen
    <3> QED BY <3>1, <3>2 DEF OneExecutes
  <2> QED BY <2>1, <2>2
<1> QED BY <1>1, <1>2, <1>3, <1>4

\* Nobody else executes: the job of w is the only one that changes.
LEMMA OthersExecute ==
  ASSUME NEW w \in Workers, \A v \in Workers : v # w => job'[v] = job[v]
  PROVE  /\ \A v \in Workers : v # w => (v \in Executing' <=> v \in Executing)
         /\ \A v \in Workers : v # w => (At(v, "execute")' <=> At(v, "execute"))
         /\ \A v \in Workers : v # w => (At(v, "markFailed")' <=> At(v, "markFailed"))
         /\ \A v \in Workers : v # w => (At(v, "reclaimFailed")' <=> At(v, "reclaimFailed"))
BY DEF Executing, At

\* A claim of a new row makes its caller the only one that executes.
LEMMA ClaimNewKeeps ==
  ASSUME IInv, NEW w \in Workers, NEW fp \in Fingerprints, ClaimNew(w, fp)
  PROVE  IInv'
<1> USE DEF IInv
<1>1. /\ job' \in Jobs
      /\ job'[w] # Idle /\ job'[w].at = "execute" /\ job'[w].fp = fp
      /\ \A v \in Workers : v # w => job'[v] = job[v]
  BY BeginEffect DEF ClaimNew, TypeOK, Jobs, Points
<1>2. /\ row = Absent /\ row' \in Row /\ row'.fp = fp
      /\ row'.status = "processing" /\ ~row'.expired
  BY DEF ClaimNew, CreateProcessing, Row, Statuses
<1>3. holders = {} /\ holders' = {w} /\ Executing = {}
  BY <1>2 DEF ClaimNew, HoldersMatch
<1>4. Executing' = {w}
  <2>1. w \in Executing'
    BY <1>1 DEF Executing, At
  <2>2. Executing' \subseteq Workers
    BY DEF Executing
  <2> QED BY <1>1, <1>3, <2>1, <2>2, OthersExecute
<1>5. effects = 0 /\ effects' = 0 /\ stale' = stale /\ faults' = faults /\ replays' = replays
  BY <1>2 DEF FreshIsUnused, ClaimNew, history
<1>6. TypeOK'
  BY <1>1, <1>2, <1>3, <1>5 DEF TypeOK, ClaimNew, CreateProcessing, LockedAhead, Jobs
<1>7. row' # Absent
  BY <1>2, ConstantsAssumption
<1>8. HoldersMatch'
  BY <1>1, <1>2, <1>3, <1>4, <1>7 DEF HoldersMatch
<1>9. FreshIsUnused'
  BY <1>2, <1>7 DEF FreshIsUnused
<1>10. FailedWasSeen'
  BY <1>1 DEF FailedWasSeen, At
<1>11. OneExecutes'
  BY <1>2, <1>4, <1>5 DEF OneExecutes
<1>12. ReplayIsOwn'
  BY <1>5 DEF ReplayIsOwn
<1>13. StuckOnlyAfterFault'
  BY <1>3, <1>4 DEF StuckOnlyAfterFault
<1> QED BY <1>6, <1>8, <1>9, <1>10, <1>11, <1>12, <1>13

\* A reclaim makes its caller execute.
LEMMA ReclaimKeeps ==
  ASSUME IInv, NEW w \in Workers, Reclaim(w)
  PROVE  IInv'
<1> USE DEF IInv
<1>1. job \in Jobs /\ w \in holders /\ job[w] # Idle
  BY DEF Reclaim, TryReclaim, Reclaimable, At, TypeOK, Jobs
<1>2. /\ job' \in Jobs
      /\ job'[w] # Idle /\ job'[w].at = "execute" /\ job'[w].fp = job[w].fp
      /\ \A v \in Workers : v # w => job'[v] = job[v]
  BY <1>1, GotoEffect DEF Reclaim, Points
<1>3. /\ row \in Row /\ row' \in Row /\ row'.fp = row.fp
      /\ row'.status = "processing" /\ ~row'.expired
      /\ stale' \in BOOLEAN
      /\ ~stale' => effects = 0 /\ Executing = {} /\ ~stale
  BY ReclaimedIsUnused DEF Reclaim
<1>4. Executing' = Executing \cup {w}
  <2>1. w \in Executing'
    BY <1>2 DEF Executing, At
  <2>2. Executing' \subseteq Workers /\ Executing \subseteq Workers
    BY DEF Executing
  <2> QED BY <1>2, <2>1, <2>2, OthersExecute
<1>5. holders' = holders /\ effects' = effects /\ replays' = replays /\ faults' = faults
  BY DEF Reclaim
<1>6. TypeOK'
  BY <1>2, <1>3, <1>5 DEF TypeOK, Reclaim, LockedAhead, Jobs
<1>7. row' # Absent
  BY <1>3, ConstantsAssumption
<1>8. HoldersMatch'
  BY <1>1, <1>2, <1>3, <1>4, <1>5, <1>7 DEF HoldersMatch, TypeOK
<1>9. FreshIsUnused'
  BY <1>3, <1>7 DEF FreshIsUnused
<1>10. FailedWasSeen'
  BY <1>2 DEF FailedWasSeen, At
<1>11. OneExecutes'
  BY <1>3, <1>4, <1>5 DEF OneExecutes
<1>12. ReplayIsOwn'
  BY <1>5 DEF ReplayIsOwn
<1>13. StuckOnlyAfterFault'
  BY <1>1, <1>4, <1>5 DEF StuckOnlyAfterFault
<1> QED BY <1>6, <1>8, <1>9, <1>10, <1>11, <1>12, <1>13

\* A claim whose answer is lost leaves a row that nobody executes, after a fault.
LEMMA ClaimLostKeeps ==
  ASSUME IInv, NEW w \in Workers, ClaimLost(w)
  PROVE  IInv'
<1> USE DEF IInv
<1>1. effects' = effects /\ replays' = replays /\ faults' \in 0..MaxFaults /\ faults' # 0
  BY ConstantsAssumption DEF ClaimLost, Fault, TypeOK
<1>2. ReplayIsOwn' /\ StuckOnlyAfterFault'
  BY <1>1 DEF ReplayIsOwn, StuckOnlyAfterFault
<1>3. CASE /\ job[w] = Idle
           /\ \E fp \in Fingerprints : CreateProcessing(fp)
           /\ UNCHANGED <<holders, job, stale>>
  <2>1. PICK fp \in Fingerprints : CreateProcessing(fp)
    BY <1>3
  <2>2. /\ row = Absent /\ row' \in Row /\ row'.status = "processing" /\ ~row'.expired
    BY <2>1 DEF CreateProcessing, Row, Statuses
  <2>3. holders = {} /\ holders' = {} /\ Executing = {} /\ Executing' = {} /\ effects = 0
    BY <1>3, <2>2 DEF HoldersMatch, FreshIsUnused, Executing, At
  <2>4. row' # Absent
    BY <2>2, ConstantsAssumption
  <2>5. TypeOK'
    BY <1>1, <1>3, <2>1, <2>2, <2>3 DEF TypeOK, CreateProcessing, LockedAhead
  <2>6. HoldersMatch' /\ FreshIsUnused'
    BY <2>2, <2>3, <2>4 DEF HoldersMatch, FreshIsUnused
  <2>7. FailedWasSeen'
    BY <1>3 DEF FailedWasSeen, At
  <2>8. OneExecutes'
    BY <1>1, <2>2, <2>3 DEF OneExecutes
  <2> QED BY <1>2, <2>5, <2>6, <2>7, <2>8
<1>4. CASE /\ At(w, "reclaimExpired") \/ At(w, "reclaimFailed")
           /\ TryReclaim(w)
           /\ LockedAhead
           /\ holders' = holders \ {w}
           /\ job' = [job EXCEPT ![w] = Idle]
  <2>1. /\ job' \in Jobs /\ job'[w] = Idle
        /\ \A v \in Workers : v # w => job'[v] = job[v]
    BY <1>4, DoneEffect DEF TypeOK, Jobs
  <2>2. /\ row \in Row /\ row' \in Row /\ row'.fp = row.fp
        /\ row'.status = "processing" /\ ~row'.expired
        /\ stale' \in BOOLEAN
        /\ ~stale' => effects = 0 /\ Executing = {} /\ ~stale
    BY <1>4, ReclaimedIsUnused
  <2>3. row' # Absent
    BY <2>2, ConstantsAssumption
  <2>4. Executing' = Executing
    BY <1>4, <2>1 DEF Executing, At
  <2>5. TypeOK'
    BY <1>1, <1>4, <2>1, <2>2 DEF TypeOK, LockedAhead, Jobs
  <2>6. HoldersMatch'
    <3>1. Executing \subseteq holders \ {w}
      BY <1>4 DEF HoldersMatch, Executing, At
    <3> QED BY <1>4, <2>1, <2>2, <2>3, <2>4, <3>1 DEF HoldersMatch, TypeOK
  <2>7. FreshIsUnused'
    BY <2>2, <2>3 DEF FreshIsUnused
  <2>8. FailedWasSeen'
    BY <2>1 DEF FailedWasSeen, At
  <2>9. OneExecutes'
    BY <1>1, <2>2, <2>4 DEF OneExecutes
  <2> QED BY <1>2, <2>5, <2>6, <2>7, <2>8, <2>9
<1> QED BY <1>3, <1>4 DEF ClaimLost

\* A call that executes goes on to its mark.
LEMMA ExecutesKeeps ==
  ASSUME IInv, NEW w \in Workers, Succeed(w) \/ Fail(w)
  PROVE  IInv'
<1> USE DEF IInv, clock
<1>1. At(w, "execute") /\ job \in Jobs /\ job[w] # Idle /\ w \in Executing
  BY DEF Succeed, Fail, At, TypeOK, Jobs, Executing
<1>2. PICK p \in {"markOk", "markFailed"} :
         /\ Goto(w, p)
         /\ p = "markOk" => effects' = effects + 1
         /\ p = "markFailed" => effects' = effects
  BY DEF Succeed, Fail, history
<1>3. /\ job' \in Jobs
      /\ job'[w] # Idle /\ job'[w].at = p /\ job'[w].fp = job[w].fp
      /\ \A v \in Workers : v # w => job'[v] = job[v]
  BY <1>1, <1>2, GotoEffect DEF Points
<1>4. UNCHANGED <<row, holders, pastLock, pastExpiry, replays, stale, faults>>
  BY DEF Succeed, Fail, history
<1>5. Executing' = Executing
  <2>1. w \in Executing'
    BY <1>3 DEF Executing, At
  <2>2. Executing' \subseteq Workers /\ Executing \subseteq Workers
    BY DEF Executing
  <2> QED BY <1>1, <1>3, <2>1, <2>2, OthersExecute
<1>6. TypeOK'
  BY <1>2, <1>3, <1>4 DEF TypeOK, Jobs
<1>7. HoldersMatch'
  BY <1>3, <1>4, <1>5 DEF HoldersMatch, TypeOK
<1>8. FreshIsUnused'
  BY <1>1, <1>4, <1>5 DEF FreshIsUnused
<1>9. FailedWasSeen'
  BY <1>3 DEF FailedWasSeen, At
<1>10. OneExecutes'
  <2> SUFFICES ASSUME ~stale PROVE OneExecutes'
    BY <1>4 DEF OneExecutes
  <2>1. effects = 0 /\ Executing = {w} /\ row.status = "processing"
    BY <1>1 DEF OneExecutes
  <2>2. effects' <= 1 /\ (p = "markFailed" => effects' = 0)
    BY <1>2, <2>1
  <2>3. \A v \in Workers : ~At(v, "execute")' /\ (At(v, "markFailed")' => effects' = 0)
    BY <1>3, <1>5, <2>1, <2>2 DEF At, Executing
  <2> QED BY <1>4, <1>5, <2>1, <2>2, <2>3 DEF OneExecutes
<1>11. ReplayIsOwn'
  BY <1>4 DEF ReplayIsOwn
<1>12. StuckOnlyAfterFault'
  BY <1>4, <1>5 DEF StuckOnlyAfterFault
<1> QED BY <1>6, <1>7, <1>8, <1>9, <1>10, <1>11, <1>12

\* Both marks find the row, because no row is deleted under an execution.
LEMMA MarksKeep ==
  ASSUME IInv, NEW w \in Workers, MarkSucceeded(w) \/ MarkFailedRetryable(w)
  PROVE  IInv'
<1> USE DEF IInv
<1>1. /\ job \in Jobs /\ w \in Executing /\ w \in holders /\ row # Absent /\ row \in Row
      /\ job[w] # Idle /\ job[w].fp = row.fp
  BY DEF MarkSucceeded, MarkFailedRetryable, At, TypeOK, Jobs, Executing, HoldersMatch
<1>2. job' = [job EXCEPT ![w] = Idle] /\ holders' = holders \ {w}
      /\ UNCHANGED <<effects, replays, stale, faults>>
  BY DEF MarkSucceeded, MarkFailedRetryable, history
<1>3. /\ job' \in Jobs /\ job'[w] = Idle
      /\ \A v \in Workers : v # w => job'[v] = job[v]
  BY <1>1, <1>2, DoneEffect
<1>4. /\ row' \in Row /\ row'.fp = row.fp /\ ~row'.expired
      /\ row'.status \in {"succeeded", "failed_retryable"}
      /\ row'.status = "succeeded" => row'.body = row'.fp
      /\ row'.status = "failed_retryable" => At(w, "markFailed")
  <2>1. CASE MarkSucceeded(w)
    <3>1. row' = [row EXCEPT !.status = "succeeded", !.body = job[w].fp,
                             !.locked = FALSE, !.expired = FALSE]
      BY <1>1, <2>1 DEF MarkSucceeded
    <3>2. job[w].fp \in Fingerprints
      BY <1>1 DEF Row
    <3> QED BY <1>1, <3>1, <3>2 DEF Row, Statuses
  <2>2. CASE MarkFailedRetryable(w)
    <3>1. row' = [row EXCEPT !.status = "failed_retryable", !.locked = TRUE, !.expired = FALSE]
      BY <1>1, <2>2 DEF MarkFailedRetryable
    <3> QED BY <1>1, <2>2, <3>1, RowEffect DEF MarkFailedRetryable, Statuses
  <2> QED BY <2>1, <2>2
<1>5. pastLock' \subseteq Workers /\ pastExpiry' \subseteq Workers
  BY <1>1 DEF MarkSucceeded, MarkFailedRetryable, LockedAhead
<1>6. Executing' = Executing \ {w}
  BY <1>3 DEF Executing, At
<1>7. row' # Absent
  BY <1>4, ConstantsAssumption
<1>8. TypeOK'
  BY <1>2, <1>3, <1>4, <1>5 DEF TypeOK, Jobs
<1>9. HoldersMatch'
  BY <1>2, <1>3, <1>4, <1>6, <1>7 DEF HoldersMatch, TypeOK
<1>10. FreshIsUnused'
  BY <1>4, <1>7 DEF FreshIsUnused
<1>11. FailedWasSeen'
  BY <1>3 DEF FailedWasSeen, At
<1>12. OneExecutes'
  <2> SUFFICES ASSUME ~stale PROVE OneExecutes'
    BY <1>2 DEF OneExecutes
  <2>1. Executing' = {} /\ effects <= 1 /\ (At(w, "markFailed") => effects = 0)
    BY <1>1, <1>6 DEF OneExecutes
  <2>2. \A v \in Workers : ~(At(v, "execute") \/ At(v, "markFailed"))'
    BY <2>1 DEF Executing
  <2> QED BY <1>2, <1>4, <2>1, <2>2 DEF OneExecutes
<1>13. ReplayIsOwn'
  BY <1>2 DEF ReplayIsOwn
<1>14. StuckOnlyAfterFault'
  BY <1>4 DEF StuckOnlyAfterFault
<1> QED BY <1>8, <1>9, <1>10, <1>11, <1>12, <1>13, <1>14

\* A call that finds the row, or looks at it again, learns what is true of it.
LEMMA ReadersKeep ==
  ASSUME IInv, NEW w \in Workers,
         \/ \E fp \in Fingerprints : ClaimExisting(w, fp)
         \/ GetExpired(w)
         \/ GetFailed(w)
         \/ ReclaimLost(w) /\ At(w, "reclaimExpired")
  PROVE  IInv'
<1> USE DEF IInv
<1>1. job \in Jobs /\ pastLock \subseteq Workers /\ pastExpiry \subseteq Workers
  BY DEF TypeOK, Jobs
<1>2. CASE \E fp \in Fingerprints : ClaimExisting(w, fp)
  <2>1. PICK fp \in Fingerprints : ClaimExisting(w, fp)
    BY <1>2
  <2>2. /\ job' \in Jobs
        /\ job'[w] # Idle /\ job'[w].at = "get"
        /\ \A v \in Workers : v # w => job'[v] = job[v]
    BY <1>1, <2>1, BeginEffect DEF ClaimExisting, Points
  <2>3. w \notin Executing /\ w \notin Executing' /\ w \notin holders
    BY <2>1, <2>2 DEF Executing, At, ClaimExisting, HoldersMatch
  <2>4. pastLock' \subseteq Workers /\ pastExpiry' \subseteq Workers
    BY <1>1, <2>1 DEF ClaimExisting
  <2>5. ~At(w, "reclaimFailed")'
    BY <2>2 DEF At
  <2> QED BY <2>1, <2>2, <2>3, <2>4, <2>5, Reads DEF ClaimExisting
<1>3. CASE GetExpired(w) \/ GetFailed(w)
  <2>1. /\ row # Absent /\ row.fp = job[w].fp /\ job[w] # Idle
        /\ job[w].at \in {"get", "reget"}
    BY <1>3 DEF GetExpired, GetFailed, Decides, Mismatch, At
  <2>2. row \in Row
    BY <2>1 DEF TypeOK
  <2>3. PICK p \in {"reclaimExpired", "reclaimFailed"}, s \in Statuses :
          /\ job' = [job EXCEPT ![w].at = p, ![w].saw = s]
          /\ p = "reclaimFailed" => s = "failed_retryable"
    <3>1. CASE GetExpired(w)
      BY <2>2, <3>1 DEF GetExpired, Row
    <3>2. CASE GetFailed(w)
      BY <3>2 DEF GetFailed, Statuses
    <3> QED BY <1>3, <3>1, <3>2
  <2>4. /\ job' \in Jobs
        /\ job'[w] # Idle /\ job'[w].at = p
        /\ job'[w].fp = job[w].fp /\ job'[w].saw = s
        /\ \A v \in Workers : v # w => job'[v] = job[v]
    BY <1>1, <2>1, <2>3, SawEffect DEF Points
  <2>5. w \notin Executing /\ w \notin Executing'
    BY <2>1, <2>4 DEF Executing, At
  <2>6. /\ holders' = holders \cup {w} /\ UNCHANGED <<row, pastLock, pastExpiry, history, faults>>
    BY <1>3 DEF GetExpired, GetFailed
  <2>7. At(w, "reclaimFailed")' => job'[w].saw = "failed_retryable"
    BY <2>3, <2>4 DEF At
  <2> QED BY <1>1, <2>1, <2>4, <2>5, <2>6, <2>7, Reads
<1>4. CASE ReclaimLost(w) /\ At(w, "reclaimExpired")
  <2>1. Goto(w, "reget") /\ UNCHANGED <<row, holders, pastLock, pastExpiry, history, faults>>
    BY <1>4 DEF ReclaimLost, At, clock
  <2>2. /\ job' \in Jobs
        /\ job'[w] # Idle /\ job'[w].at = "reget" /\ job'[w].fp = job[w].fp
        /\ \A v \in Workers : v # w => job'[v] = job[v]
    BY <1>1, <1>4, <2>1, GotoEffect DEF Points, At
  <2>3. w \notin Executing /\ w \notin Executing' /\ ~At(w, "reclaimFailed")'
    BY <1>4, <2>2 DEF Executing, At
  <2>4. w \in holders' => job'[w].fp = row.fp
    BY <2>1, <2>2 DEF HoldersMatch
  <2> QED BY <1>1, <2>1, <2>2, <2>3, <2>4, Reads
<1> QED BY <1>2, <1>3, <1>4

\* A call that is answered, refused or abandoned.
LEMMA EndersKeep ==
  ASSUME IInv, NEW w \in Workers,
         \/ Refuse(w) \/ Replay(w) \/ Conflict(w) \/ Abandon(w)
         \/ ReclaimLost(w) /\ At(w, "reclaimFailed")
  PROVE  IInv'
<1> USE DEF IInv
<1>1. replays \subseteq Fingerprints \X (Fingerprints \cup {None}) /\ faults \in 0..MaxFaults
  BY DEF TypeOK
<1>2. CASE Refuse(w) \/ Conflict(w) \/ (ReclaimLost(w) /\ At(w, "reclaimFailed"))
  <2>1. Return(w) /\ UNCHANGED <<row, effects, stale, replays, faults>>
    BY <1>2 DEF Refuse, Conflict, ReclaimLost, At, history
  <2>2. w \notin Executing
    BY <1>2 DEF Refuse, Conflict, Decides, Executing, At
  <2> QED BY <1>1, <2>1, <2>2, Ends DEF ReplayIsOwn
<1>3. CASE Replay(w)
  <2>1. Return(w) /\ UNCHANGED <<row, effects, stale, faults>>
    BY <1>3 DEF Replay
  <2>2. w \notin Executing
    BY <1>3 DEF Replay, Decides, Executing, At
  <2>3. /\ row # Absent /\ row.status = "succeeded" /\ row.fp = job[w].fp
        /\ replays' = replays \cup {<<job[w].fp, row.body>>}
    BY <1>3 DEF Replay, Decides, Mismatch
  <2>4. row.body = job[w].fp /\ row.fp \in Fingerprints
    BY <2>3 DEF HoldersMatch, TypeOK, Row
  <2>5. /\ replays' \subseteq Fingerprints \X (Fingerprints \cup {None})
        /\ ReplayIsOwn'
    BY <1>1, <2>3, <2>4 DEF ReplayIsOwn
  <2> QED BY <1>1, <2>1, <2>2, <2>5, Ends
<1>4. CASE Abandon(w)
  <2>1. Return(w) /\ UNCHANGED <<row, effects, stale, replays>>
    BY <1>4 DEF Abandon, history
  <2>2. faults' \in 0..MaxFaults /\ faults' # 0
    BY <1>1, <1>4, ConstantsAssumption DEF Abandon, Fault
  <2> QED BY <1>1, <2>1, <2>2, Ends DEF ReplayIsOwn
<1> QED BY <1>2, <1>3, <1>4

\* Time touches the row only: its lock lapses, it expires, it is swept.
LEMMA TimeKeeps ==
  ASSUME IInv, LockLapses \/ RowExpires \/ DeleteExpired
  PROVE  IInv'
<1> USE DEF IInv, clock, history
<1>1. row # Absent /\ row \in Row /\ UNCHANGED <<job, replays, stale, faults>>
  BY DEF LockLapses, RowExpires, DeleteExpired, TypeOK
<1>2. Executing' = Executing
  BY <1>1 DEF Executing, At
<1>3. FailedWasSeen' /\ ReplayIsOwn'
  BY <1>1 DEF FailedWasSeen, At, ReplayIsOwn
<1>4. CASE LockLapses \/ RowExpires
  <2>1. UNCHANGED <<holders, pastLock, pastExpiry>>
    BY <1>4 DEF LockLapses, RowExpires
  <2>2. /\ row' \in Row /\ row'.fp = row.fp /\ row'.status = row.status /\ row'.body = row.body
        /\ row'.expired # row.expired => RowExpires
    BY <1>1, <1>4 DEF LockLapses, RowExpires, Row
  <2>3. /\ effects' \in {0, effects}
        /\ RowExpires => effects' = 0 /\ Executing = {}
        /\ ~RowExpires => effects' = effects
    BY <1>4 DEF LockLapses, RowExpires
  <2>4. row' # Absent
    BY <2>2, ConstantsAssumption
  <2>5. TypeOK'
    BY <1>1, <2>1, <2>2, <2>3 DEF TypeOK
  <2>6. HoldersMatch'
    BY <1>1, <1>2, <2>1, <2>2, <2>4 DEF HoldersMatch
  <2>7. FreshIsUnused'
    BY <1>2, <2>2, <2>3, <2>4 DEF FreshIsUnused
  <2>8. OneExecutes'
    BY <1>1, <1>2, <2>2, <2>3 DEF OneExecutes, At
  <2>9. StuckOnlyAfterFault'
    BY <1>1, <1>2, <2>1, <2>2 DEF StuckOnlyAfterFault
  <2> QED BY <1>3, <2>5, <2>6, <2>7, <2>8, <2>9
<1>5. CASE DeleteExpired
  <2>1. /\ row' = Absent /\ holders' = {} /\ pastLock' = {} /\ pastExpiry' = {}
        /\ effects' = effects /\ effects = 0 /\ Executing = {}
    BY <1>5 DEF DeleteExpired, FreshIsUnused
  <2>2. TypeOK'
    BY <1>1, <2>1 DEF TypeOK
  <2>3. HoldersMatch' /\ FreshIsUnused' /\ StuckOnlyAfterFault'
    BY <1>2, <2>1 DEF HoldersMatch, FreshIsUnused, StuckOnlyAfterFault
  <2>4. OneExecutes'
    BY <1>2, <2>1 DEF OneExecutes
  <2> QED BY <1>3, <2>2, <2>3, <2>4
<1> QED BY <1>4, <1>5

-----------------------------------------------------------------------------
(* The theorems *)

\* Nobody works and there is no row.
LEMMA InitInv == Init => IInv
<1> SUFFICES ASSUME Init PROVE IInv
  OBVIOUS
<1>1. TypeOK
  <2>1. faults \in 0..MaxFaults /\ effects \in Nat
    BY ConstantsAssumption DEF Init
  <2>2. stale \in BOOLEAN /\ job \in [Workers -> Job \cup {Idle}]
    BY DEF Init
  <2> QED BY <2>1, <2>2 DEF Init, TypeOK
<1>2. \A w \in Workers, p \in Points : ~At(w, p)
  BY DEF Init, At
<1>3. Executing = {}
  BY <1>2 DEF Executing, Points
<1>4. HoldersMatch /\ FreshIsUnused /\ OneExecutes /\ ReplayIsOwn /\ StuckOnlyAfterFault
  BY <1>2, <1>3 DEF Init, HoldersMatch, FreshIsUnused, OneExecutes, ReplayIsOwn,
                    StuckOnlyAfterFault, Points
<1>5. FailedWasSeen
  BY <1>2 DEF FailedWasSeen, Points
<1> QED BY <1>1, <1>4, <1>5 DEF IInv

\* Every step keeps the invariant, one case per group of actions.
LEMMA NextInv == IInv /\ [Next]_vars => IInv'
<1> SUFFICES ASSUME IInv, [Next]_vars PROVE IInv'
  OBVIOUS
<1>1. CASE UNCHANGED vars
  BY <1>1 DEF vars, IInv, TypeOK, HoldersMatch, FreshIsUnused, FailedWasSeen,
              OneExecutes, ReplayIsOwn, StuckOnlyAfterFault, Executing, At
<1>2. ASSUME NEW w \in Workers, Step(w) \/ ClaimLost(w) \/ Abandon(w) PROVE IInv'
  <2>1. CASE Refuse(w) \/ Replay(w) \/ Conflict(w) \/ Abandon(w)
    BY <2>1, EndersKeep
  <2>2. CASE GetExpired(w) \/ GetFailed(w)
    BY <2>2, ReadersKeep
  <2>3. CASE Reclaim(w)
    BY <2>3, ReclaimKeeps
  <2>4. CASE ReclaimLost(w)
    BY <2>4, EndersKeep, ReadersKeep DEF ReclaimLost
  <2>5. CASE Succeed(w) \/ Fail(w)
    BY <2>5, ExecutesKeeps
  <2>6. CASE MarkSucceeded(w) \/ MarkFailedRetryable(w)
    BY <2>6, MarksKeep
  <2>7. CASE ClaimLost(w)
    BY <2>7, ClaimLostKeeps
  <2> QED BY <1>2, <2>1, <2>2, <2>3, <2>4, <2>5, <2>6, <2>7 DEF Step
<1>3. ASSUME NEW w \in Workers, NEW fp \in Fingerprints, Begin(w, fp) PROVE IInv'
  BY <1>3, ClaimNewKeeps, ReadersKeep DEF Begin
<1>4. CASE LockLapses \/ RowExpires \/ DeleteExpired
  BY <1>4, TimeKeeps
<1> QED BY <1>1, <1>2, <1>3, <1>4 DEF Next

\* The inductive invariant holds in every reachable state.
THEOREM Invariance == Spec => []IInv
BY InitInv, NextInv, PTL DEF Spec

\* Type correctness of the row, the calls and the history.
THEOREM TypeCorrect == Spec => []TypeOK
<1>1. IInv => TypeOK
  BY DEF IInv
<1> QED BY <1>1, Invariance, PTL

\* Between two expiries of a key its request is executed with success at most
\* once, unless a call reclaimed as expired a row that another had renewed.
THEOREM ExecutedOnce == Spec => []OneEffectUnlessStale
<1>1. IInv => OneEffectUnlessStale
  BY DEF IInv, OneExecutes, OneEffectUnlessStale
<1> QED BY <1>1, Invariance, PTL

\* A replayed response is the response to the same request.
THEOREM ReplaysAreOwn == Spec => []ReplayIsOwn
<1>1. IInv => ReplayIsOwn
  BY DEF IInv
<1> QED BY <1>1, Invariance, PTL

\* Only a fault leaves a key "processing" with nobody at work on it.
THEOREM NeverStuckWithoutFault == Spec => []StuckOnlyAfterFault
<1>1. IInv => StuckOnlyAfterFault
  BY DEF IInv
<1> QED BY <1>1, Invariance, PTL
=============================================================================
