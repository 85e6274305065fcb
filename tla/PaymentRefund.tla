--------------------------- MODULE PaymentRefund ---------------------------
(***************************************************************************)
(* The refund of one completed balance order: payment_refund.go, with the  *)
(* two balance updates of user_repo.go it calls and the unique             *)
(* (order_id, action) of payment_audit_logs that its audits run into.      *)
(*                                                                         *)
(* The customer's request and the administrator's calls are jobs of        *)
(* workers; a step is one database statement, one transaction or one call  *)
(* of the provider.  Amounts are whole units, the order was paid at its    *)
(* price, and the provider identifies a refund by order and amount         *)
(* (Stripe's idempotency key, WeChat Pay's out_refund_no).                 *)
(***************************************************************************)
EXTENDS Integers, FiniteSets, FiniteSetsExt

CONSTANTS
  Workers,    \* goroutines
  Role,       \* the kinds of job each worker serves
  Idle,       \* job[w] of a worker that has none
  None,       \* pending when no REFUND_PENDING audit was written
  Amount,     \* what the order credited
  MaxFaults   \* bound on crashes and failed statements

Kinds == {"request", "refund", "finalize"}

Statuses ==
  {"COMPLETED", "REFUND_REQUESTED", "REFUNDING", "REFUND_PENDING",
   "REFUND_FAILED", "REFUNDED", "PARTIALLY_REFUNDED"}

Refunded == {"REFUNDED", "PARTIALLY_REFUNDED"}

Points ==
  {"submit", "prepDeduct", "claim", "deduct", "gateway", "undo", "undoPending",
   "restore", "markOk", "logOk", "markPending", "logPending", "markFailed",
   "query", "finalizeOk", "finalizeFailed"}

\* A RefundPlan: the amount asked for, what is to be deducted (what was deducted,
\* after the deduction), the status the order was read in.
Job == [at : Points, amount : 1..Amount, toDeduct : 0..Amount,
        rolledBack : BOOLEAN, was : Statuses]

\* The detail of a REFUND_PENDING audit: the refund's id, known by its amount.
PendingAudit == [id : 1..Amount, rolledBack : BOOLEAN]

ASSUME ConstantsAssumption ==
  /\ Role \in [Workers -> SUBSET Kinds]
  /\ Idle \notin Job
  /\ None \notin PendingAudit
  /\ Amount \in Nat \ {0}
  /\ MaxFaults \in Nat

VARIABLES
  status,        \* payment_orders.status
  refundAmount,  \* payment_orders.refund_amount
  balance,       \* users.balance
  held,          \* history: what each running call has deducted, net
  taken,         \* history: what was deducted for good by this order's refunds
  stuck,         \* history: what was deducted by a statement whose answer was
                 \* lost, or could not be given back
  overwritten,   \* history: the late failure of a pending refund was written over
                 \* a refund that was claimed, or made, meanwhile
  audit,         \* the audits REFUND_ROLLBACK_FAILED and REFUND_SUCCESS
  pending,       \* the REFUND_PENDING audit
  gw,            \* the provider's refund of each amount
  job,           \* what each worker is doing
  faults         \* faults so far

vars == <<status, refundAmount, balance, held, taken, stuck, overwritten, audit,
          pending, gw, job, faults>>
money == <<balance, held, taken, stuck>>
trail == <<audit, pending, overwritten>>

GatewayStates == {"none", "pending", "done", "failed"}

TypeOK ==
  /\ status \in Statuses
  /\ refundAmount \in 0..Amount
  /\ balance \in Int
  /\ held \in [Workers -> Int]
  /\ taken \in Int
  /\ stuck \in Int
  /\ overwritten \in BOOLEAN
  /\ audit \subseteq {"REFUND_ROLLBACK_FAILED", "REFUND_SUCCESS"}
  /\ pending \in PendingAudit \cup {None}
  /\ gw \in [1..Amount -> GatewayStates]
  /\ job \in [Workers -> Job \cup {Idle}]
  /\ faults \in 0..MaxFaults

Init ==
  /\ status = "COMPLETED"
  /\ refundAmount = 0
  /\ balance \in {Amount, 2 * Amount}  \* without or with as much from elsewhere
  /\ held = [w \in Workers |-> 0]
  /\ taken = 0
  /\ stuck = 0
  /\ overwritten = FALSE
  /\ audit = {}
  /\ pending = None
  /\ gw = [a \in 1..Amount |-> "none"]
  /\ job = [w \in Workers |-> Idle]
  /\ faults = 0

-----------------------------------------------------------------------------
(* Helpers *)

At(w, point) == job[w] # Idle /\ job[w].at = point

Start(w, kind, j) ==
  /\ job[w] = Idle
  /\ kind \in Role[w]
  /\ job' = [job EXCEPT ![w] = j]

Goto(w, point) == job' = [job EXCEPT ![w].at = point]

Return(w) == job' = [job EXCEPT ![w] = Idle]

Fault == faults < MaxFaults /\ faults' = faults + 1

LeastOf(a, b) == IF a < b THEN a ELSE b
GreatestOf(a, b) == IF a > b THEN a ELSE b

\* What a call has deducted is deducted for good: it ends, or marks the refund.
Keep(w) ==
  /\ taken' = taken + held[w]
  /\ held' = [held EXCEPT ![w] = 0]
  /\ UNCHANGED <<balance, stuck>>

\* The final status of a refund of that amount.
RefundedAs(amount) == IF amount < Amount THEN "PARTIALLY_REFUNDED" ELSE "REFUNDED"

-----------------------------------------------------------------------------
(* The customer: RequestRefund and validateRefundRequest *)

RequestRefund(w) ==
  /\ status = "COMPLETED"
  /\ balance >= Amount
  /\ Start(w, "request", [at |-> "submit", amount |-> Amount, toDeduct |-> 0,
                          rolledBack |-> FALSE, was |-> status])
  /\ UNCHANGED <<status, refundAmount, money, trail, gw, faults>>

SubmitRequest(w) ==
  /\ At(w, "submit")
  /\ IF status = "COMPLETED"
       THEN status' = "REFUND_REQUESTED" /\ refundAmount' = Amount
       ELSE UNCHANGED <<status, refundAmount>>
  /\ Return(w)
  /\ UNCHANGED <<money, trail, gw, faults>>

-----------------------------------------------------------------------------
(* The administrator: PrepareRefund, prepDeduct *)

Refundable == {"COMPLETED", "REFUND_REQUESTED", "REFUND_PENDING", "REFUND_FAILED"}

PrepareRefund(w) ==
  /\ status \in Refundable
  /\ \E amount \in 1..Amount, deduct \in BOOLEAN :
       Start(w, "refund", [at |-> IF deduct THEN "prepDeduct" ELSE "claim",
                           amount |-> amount, toDeduct |-> 0,
                           rolledBack |-> FALSE, was |-> status])
  /\ UNCHANGED <<status, refundAmount, money, trail, gw, faults>>

PrepDeduct(w) ==
  /\ At(w, "prepDeduct")
  /\ \E force \in BOOLEAN :
       IF balance < job[w].amount /\ ~force
         THEN Return(w)
         ELSE job' = [job EXCEPT ![w].at = "claim",
                        ![w].toDeduct = GreatestOf(0, LeastOf(job[w].amount, balance))]
  /\ UNCHANGED <<status, refundAmount, money, trail, gw, faults>>

\* The balance cannot be read: with force the refund goes on without a deduction.
PrepDeductBlind(w) ==
  /\ At(w, "prepDeduct")
  /\ Fault
  /\ Goto(w, "claim")
  /\ UNCHANGED <<status, refundAmount, money, trail, gw>>

-----------------------------------------------------------------------------
(* ExecuteRefund and gwRefund *)

\* Mutant: the status checked by PrepareRefund is not checked again.
ClaimUnconditionally(w) ==
  /\ At(w, "claim")
  /\ status' = "REFUNDING"
  /\ Goto(w, "deduct")
  /\ UNCHANGED <<refundAmount, money, trail, gw, faults>>

ClaimRefund(w) ==
  /\ At(w, "claim")
  /\ IF status \in Refundable
       THEN status' = "REFUNDING" /\ Goto(w, "deduct")
       ELSE status' = status /\ Return(w)
  /\ UNCHANGED <<refundAmount, money, trail, gw, faults>>

\* DeductAvailableBalance: never more than there is, and never into the red.
Available(amount) == LeastOf(amount, GreatestOf(balance, 0))

Marked == "REFUND_ROLLBACK_FAILED" \in audit

\* Mutant: the plan keeps what was to be deducted, not what was.
DeductAsPlanned(w) ==
  /\ At(w, "deduct")
  /\ IF job[w].toDeduct > 0 /\ ~Marked
       THEN /\ balance' = balance - Available(job[w].toDeduct)
            /\ held' = [held EXCEPT ![w] = Available(job[w].toDeduct)]
            /\ Goto(w, "gateway")
       ELSE /\ UNCHANGED <<balance, held>>
            /\ job' = [job EXCEPT ![w].at = "gateway", ![w].toDeduct = 0]
  /\ UNCHANGED <<status, refundAmount, taken, stuck, trail, gw, faults>>

Deduct(w, amount) ==
  /\ balance' = balance - amount
  /\ held' = [held EXCEPT ![w] = amount]
  /\ job' = [job EXCEPT ![w].at = "gateway", ![w].toDeduct = amount]
  /\ UNCHANGED <<status, refundAmount, taken, stuck, trail, gw>>

DeductBalance(w) ==
  /\ At(w, "deduct")
  /\ Deduct(w, IF Marked THEN 0 ELSE Available(job[w].toDeduct))
  /\ UNCHANGED faults

\* hasAuditLog drops its error, and an audit that cannot be read counts as none.
DeductAgain(w) ==
  /\ At(w, "deduct")
  /\ Marked
  /\ Fault
  /\ Deduct(w, Available(job[w].toDeduct))

\* The deduction fails, or it is committed and its answer is lost: either way the
\* call restores the status and gives nothing back.
DeductFails(w) ==
  /\ At(w, "deduct")
  /\ job[w].toDeduct > 0 /\ ~Marked
  /\ Fault
  /\ \E amount \in {0, Available(job[w].toDeduct)} :
       balance' = balance - amount /\ stuck' = stuck + amount
  /\ Goto(w, "restore")
  /\ UNCHANGED <<status, refundAmount, held, taken, trail, gw>>

\* What the provider has refunded, or promised to, never exceeds what was paid.
Committed ==
  SumSet({a \in 1..Amount : gw[a] \in {"pending", "done"}})

Outcomes(amount) ==
  IF gw[amount] # "none" THEN {gw[amount]}
  ELSE IF Committed + amount > Amount THEN {"none"} ELSE GatewayStates

\* Mutant: a pending refund counts as done.
GatewayPendingIsDone(w) ==
  /\ At(w, "gateway")
  /\ \E g \in Outcomes(job[w].amount) :
       /\ gw' = [gw EXCEPT ![job[w].amount] = g]
       /\ Goto(w, IF g \in {"done", "pending"} THEN "markOk" ELSE "undo")
  /\ UNCHANGED <<status, refundAmount, money, trail, faults>>

\* The provider answers what it did, or the answer is lost and the call is
\* taken for a failure.
GatewayRefund(w) ==
  /\ At(w, "gateway")
  /\ \E g \in Outcomes(job[w].amount) :
       /\ gw' = [gw EXCEPT ![job[w].amount] = g]
       /\ \/ g = "done" /\ Goto(w, "markOk")
          \/ g = "pending" /\ Goto(w, "undoPending")
          \/ Goto(w, "undo")
  /\ UNCHANGED <<status, refundAmount, money, trail, faults>>

-----------------------------------------------------------------------------
(* RollbackRefund, as called by handleGwFail and by markRefundPending *)

\* Mutant: a pending refund keeps the deduction it reports as rolled back.
RollbackOnlyFailures(w) ==
  /\ At(w, "undo") \/ At(w, "undoPending")
  /\ LET back == IF At(w, "undo") THEN job[w].toDeduct ELSE 0
     IN  balance' = balance + back /\ held' = [held EXCEPT ![w] = @ - back]
  /\ job' = [job EXCEPT ![w].rolledBack = TRUE, ![w].toDeduct = 0,
                        ![w].at = IF @ = "undo" THEN "restore" ELSE "markPending"]
  /\ UNCHANGED <<status, refundAmount, taken, stuck, trail, gw, faults>>

RollbackRefund(w) ==
  /\ At(w, "undo") \/ At(w, "undoPending")
  /\ balance' = balance + job[w].toDeduct
  /\ held' = [held EXCEPT ![w] = @ - job[w].toDeduct]
  /\ job' = [job EXCEPT ![w].rolledBack = TRUE, ![w].toDeduct = 0,
                        ![w].at = IF @ = "undo" THEN "restore" ELSE "markPending"]
  /\ UNCHANGED <<status, refundAmount, taken, stuck, trail, gw, faults>>

\* The roll-back fails, or it is committed and its answer is lost.  The audit of
\* the failure is a statement of its own whose error is only logged.
RollbackFails(w) ==
  /\ At(w, "undo") \/ At(w, "undoPending")
  /\ job[w].toDeduct > 0
  /\ Fault
  /\ \E back \in {0, job[w].toDeduct} :
       balance' = balance + back /\ stuck' = stuck + held[w] - back
  /\ held' = [held EXCEPT ![w] = 0]
  /\ audit' \in {audit, audit \cup {"REFUND_ROLLBACK_FAILED"}}
  /\ Goto(w, IF job[w].at = "undo" THEN "markFailed" ELSE "markPending")
  /\ UNCHANGED <<status, refundAmount, taken, pending, overwritten, gw>>

-----------------------------------------------------------------------------
(* The final writes of a refund: none has a condition on the status *)

\* Mutant: the status of the fulfilment flow is restored.
RestorePaid(w) ==
  /\ At(w, "restore")
  /\ status' = "PAID"
  /\ Return(w)
  /\ UNCHANGED <<refundAmount, money, trail, gw, faults>>

\* Mutant: the update requires the status the order was read in.
RestoreIfUnchanged(w) ==
  /\ At(w, "restore")
  /\ status' = IF status = job[w].was THEN "COMPLETED" ELSE status
  /\ Return(w)
  /\ UNCHANGED <<refundAmount, money, trail, gw, faults>>

RestoreStatus(w) ==
  /\ At(w, "restore")
  /\ status' = IF job[w].was = "REFUND_REQUESTED" THEN "REFUND_REQUESTED" ELSE "COMPLETED"
  /\ Return(w)
  /\ UNCHANGED <<refundAmount, money, trail, gw, faults>>

\* handleGwFail after a failed rollback, and finalizeRefundFailed
MarkRefundFailed(w) ==
  /\ At(w, "markFailed") \/ At(w, "finalizeFailed")
  /\ status' = "REFUND_FAILED"
  /\ overwritten' = (\/ overwritten
                     \/ At(w, "finalizeFailed") /\ status \in Refunded \cup {"REFUNDING"})
  /\ Return(w)
  /\ UNCHANGED <<refundAmount, money, audit, pending, gw, faults>>

MarkRefundOk(w) ==
  /\ At(w, "markOk")
  /\ status' = RefundedAs(job[w].amount)
  /\ refundAmount' = job[w].amount
  /\ Keep(w)
  /\ Goto(w, "logOk")
  /\ UNCHANGED <<trail, gw, faults>>

LogRefundOk(w) ==
  /\ At(w, "logOk")
  /\ audit' = audit \cup {"REFUND_SUCCESS"}
  /\ Return(w)
  /\ UNCHANGED <<status, refundAmount, money, pending, overwritten, gw, faults>>

MarkRefundPending(w) ==
  /\ At(w, "markPending")
  /\ status' = "REFUND_PENDING"
  /\ refundAmount' = job[w].amount
  /\ Goto(w, "logPending")
  /\ UNCHANGED <<money, trail, gw, faults>>

\* A second REFUND_PENDING audit of the order violates the unique index, which
\* writeAuditLog only logs: the first one stays the "latest".
LogRefundPending(w) ==
  /\ At(w, "logPending")
  /\ pending' = IF pending = None
                  THEN [id |-> job[w].amount, rolledBack |-> job[w].rolledBack]
                  ELSE pending
  /\ Return(w)
  /\ UNCHANGED <<status, refundAmount, money, audit, overwritten, gw, faults>>

\* Any of the writes above fails: its error is returned, dropped or logged.
WriteFails(w) ==
  /\ \E p \in {"restore", "markFailed", "finalizeFailed", "markOk", "logOk",
               "markPending", "logPending"} : At(w, p)
  /\ Fault
  /\ Keep(w)
  /\ Return(w)
  /\ UNCHANGED <<status, refundAmount, trail, gw>>

-----------------------------------------------------------------------------
(* QueryAndFinalizeRefund, finalizePendingRefundSuccess *)

StartFinalize(w) ==
  /\ status = "REFUND_PENDING"
  /\ Start(w, "finalize", [at |-> "query", amount |-> refundAmount, toDeduct |-> 0,
                           rolledBack |-> FALSE, was |-> status])
  /\ UNCHANGED <<status, refundAmount, money, trail, gw, faults>>

\* latestRefundPendingDetail: without an audit, or if it cannot be read, the
\* deduction counts as rolled back and the provider is asked by order and amount.
NoDetail(w) == [id |-> job[w].amount, rolledBack |-> TRUE]

PendingDetail(w) == IF pending = None THEN NoDetail(w) ELSE pending

\* The provider answers how the refund ended, or that it has not (or nothing at
\* all), or with a status that the code does not know and takes for a failure.
Ask(w, detail) ==
  \/ /\ gw[detail.id] = "done"
     /\ job' = [job EXCEPT ![w].at = "finalizeOk",
                  ![w].toDeduct = IF detail.rolledBack THEN job[w].amount ELSE 0]
  \/ Goto(w, "finalizeFailed")
  \/ Return(w)

QueryRefund(w) ==
  /\ At(w, "query")
  /\ \/ Ask(w, PendingDetail(w)) /\ UNCHANGED faults
     \/ Ask(w, NoDetail(w)) /\ Fault
  /\ UNCHANGED <<status, refundAmount, money, trail, gw>>

\* One transaction: claim, deduct, mark, and an audit that must be the first.
FinalizeRefund(w) ==
  /\ At(w, "finalizeOk")
  /\ IF status = "REFUND_PENDING" /\ "REFUND_SUCCESS" \notin audit
       THEN /\ balance' = balance - Available(job[w].toDeduct)
            /\ taken' = taken + Available(job[w].toDeduct)
            /\ status' = RefundedAs(job[w].amount)
            /\ refundAmount' = job[w].amount
            /\ audit' = audit \cup {"REFUND_SUCCESS"}
       ELSE UNCHANGED <<status, refundAmount, balance, taken, audit>>
  /\ Return(w)
  /\ UNCHANGED <<held, stuck, pending, overwritten, gw, faults>>

-----------------------------------------------------------------------------
(* The environment *)

\* The customer uses the balance; the last charge may overdraw it.
Spend ==
  /\ balance >= 0
  /\ balance' = balance - 1
  /\ UNCHANGED <<status, refundAmount, held, taken, stuck, trail, gw, job, faults>>

GatewaySettles ==
  /\ \E a \in 1..Amount :
       /\ gw[a] = "pending"
       /\ \E g \in {"done", "failed"} : gw' = [gw EXCEPT ![a] = g]
  /\ UNCHANGED <<status, refundAmount, money, trail, job, faults>>

Crash(w) ==
  /\ job[w] # Idle
  /\ Fault
  /\ Keep(w)
  /\ Return(w)
  /\ UNCHANGED <<status, refundAmount, trail, gw>>

-----------------------------------------------------------------------------
Step(w) ==
  \/ SubmitRequest(w) \/ PrepDeduct(w) \/ PrepDeductBlind(w) \/ ClaimRefund(w)
  \/ DeductBalance(w) \/ DeductAgain(w) \/ DeductFails(w) \/ GatewayRefund(w)
  \/ RollbackRefund(w) \/ RollbackFails(w) \/ RestoreStatus(w)
  \/ MarkRefundFailed(w) \/ MarkRefundOk(w) \/ LogRefundOk(w)
  \/ MarkRefundPending(w) \/ LogRefundPending(w) \/ WriteFails(w)
  \/ QueryRefund(w) \/ FinalizeRefund(w)

Begin(w) == RequestRefund(w) \/ PrepareRefund(w) \/ StartFinalize(w)

Next ==
  \/ \E w \in Workers : Step(w) \/ Begin(w) \/ Crash(w)
  \/ Spend
  \/ GatewaySettles

Spec == Init /\ [][Next]_vars

\* A started job runs; nobody has to request, retry or finalize anything.
FairSpec == Spec /\ \A w \in Workers : WF_vars(Step(w))

-----------------------------------------------------------------------------
(* Properties *)

\* Workers from the claim of the order to their final write on it.
Holding ==
  {w \in Workers :
     \E p \in {"deduct", "gateway", "undo", "undoPending", "restore", "markFailed",
               "markOk", "markPending"} : At(w, p)}

\* The move to REFUNDING is the lock of ExecuteRefund: two administrators who
\* refund at once never both deduct, call the provider or write the outcome, unless
\* the unconditional late failure of a pending refund has broken the lock.
ClaimIsExclusive == ~overwritten => Cardinality(Holding) <= 1

\* Whenever the order may be refunded (again), what its refunds took from the
\* balance without completing has been given back, whoever refunds and finalizes.
\* What a lost answer or a failed roll-back left behind is in stuck.
NothingWithheld ==
  (~overwritten /\ status \notin Refunded \cup {"REFUNDING"}) =>
    taken = 0 /\ \A w \in Workers : held[w] = 0

\* No roll-back gives the customer more than its call deducted, whatever the balance
\* did between the preparation and the deduction and whoever else refunds.
NeverOverRestored ==
  taken >= 0 /\ stuck >= 0 /\ \A w \in Workers : held[w] >= 0

\* An order reads REFUNDED only when the provider refunded it.
RefundedMeansReturned == status \in Refunded => \E a \in 1..Amount : gw[a] = "done"

\* A refund, claimed anew or finalized after it was pending, deducts its amount at
\* most once, but for what an earlier attempt left stuck.
DeductedOnceUnlessStuck ==
  (~overwritten /\ status \in Refunded) => taken <= refundAmount

\* A refunded order is never moved again, whatever plan another call had made
\* (ExecuteRefund) or was told about an earlier refund (finalizePendingRefundSuccess);
\* only finalizeRefundFailed does, and that is what overwritten records.
RefundIsFinal == [][~overwritten' /\ status \in Refunded => status' = status]_vars

\* No code path accepts an order that is left in REFUNDING: it stays there only
\* after a crash or a failed final write.
RefundingEnds == status = "REFUNDING" ~> status # "REFUNDING" \/ faults > 0

\* ExecuteRefund: "Skip balance deduction on retry if previous attempt already
\* deducted but failed to roll back (REFUND_ROLLBACK_FAILED in audit log)": with the
\* failure on record, the refunds of an order together never deduct more than it
\* credited.
DeductedAtMostOnce == Marked => taken + stuck <= Amount
=============================================================================
