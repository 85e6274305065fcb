------------------------- MODULE PaymentFulfillment -------------------------
(***************************************************************************)
(* The life of a payment order in sub2api, from its creation to the        *)
(* delivery of what was bought: payment_order.go (creation),               *)
(* payment_order_lifecycle.go (cancel, expire, verify, reconcile) and      *)
(* payment_fulfillment.go (notification, lease, delivery, retry).          *)
(*                                                                         *)
(* Every request or sweep is a goroutine (a worker) that runs one job at a *)
(* time; a step of this module is one database statement, one transaction  *)
(* or one call of the payment provider, so that any two jobs interleave    *)
(* between them.  All instances of the server share the database, hence    *)
(* workers also stand for goroutines of different instances.               *)
(*                                                                         *)
(* payment_orders.updated_at is written by every update (UpdateDefault)    *)
(* with a microsecond clock, and the code asks two things of it: is it     *)
(* less than five minutes old (the grace period of an expired order, the   *)
(* lease of a fulfilment), and does it equal the version a lease holder    *)
(* read.  The first is row[o].fresh; the second is holders[o], the workers *)
(* whose version equals the stored one: every save empties it.             *)
(***************************************************************************)
EXTENDS Naturals, FiniteSets

CONSTANTS
  Orders,           \* payment orders
  Workers,          \* goroutines
  Role,             \* the kinds of job each worker serves
  Idle,             \* job[w] of a worker that has none
  QueryGivesTradeNo,\* TRUE: a provider queried by out_trade_no, whose answer
                    \* carries a trade number the order does not have yet
  MaxFaults         \* bound on crashes, failed statements and stalls

Kinds == {"create", "webhook", "verify", "cancel", "expire", "retry"}

Points ==
  {"invoke", "saveCharge", "query", "close", "stamp", "persist", "confirm",
   "recheck", "fulfil", "reload", "deliver", "createCode", "redeem", "rebate",
   "complete", "fail"}

Job == [kind : Kinds, order : Orders, known : BOOLEAN, at : Points]

ASSUME ConstantsAssumption ==
  /\ Role \in [Workers -> SUBSET Kinds]
  /\ Idle \notin Job
  /\ QueryGivesTradeNo \in BOOLEAN
  /\ MaxFaults \in Nat

\* "NEW": not inserted yet.  "REFUND": any of the six refund statuses, which
\* the code modelled here treats alike (psIsRefundStatus).
Statuses ==
  {"NEW", "PENDING", "PAID", "RECHARGING", "COMPLETED", "EXPIRED",
   "CANCELLED", "FAILED", "REFUND"}

Settled == {"COMPLETED", "REFUND"}

VARIABLES
  row,      \* payment_orders: type, status, age of updated_at, paid_at, trade number
  holders,  \* workers whose lease version equals the row's updated_at
  due,      \* expires_at has passed
  code,     \* the recharge code of a balance order
  credits,  \* how often the balance was credited, or the subscription extended
  rebates,  \* how often the inviter's rebate was accrued
  audit,    \* payment_audit_logs: the actions the code reads back
  charge,   \* the provider's side of the order
  acked,    \* how the last notification answered with 2xx was dealt with
  job,      \* what each worker is doing
  faults    \* faults so far

vars == <<row, holders, due, code, credits, rebates, audit, charge, acked,
          job, faults>>

OrderTypes == {"balance", "subscription"}

Row == [type : OrderTypes, status : Statuses, fresh : BOOLEAN,
        paidAt : BOOLEAN, tradeNo : BOOLEAN]

\* "blind": the order could not be read; "unrecorded": a late payment whose
\* audit could not be written.
Answers == {"no", "handled", "blind", "unrecorded"}

Charges == {"none", "open", "payable", "paid", "mispaid", "closed"}

AuditActions == {"SUBSCRIPTION_ASSIGNED", "AFFILIATE_REBATE", "PAYMENT_AFTER_EXPIRY"}

TypeOK ==
  /\ row \in [Orders -> Row]
  /\ holders \in [Orders -> SUBSET Workers]
  /\ due \in [Orders -> BOOLEAN]
  /\ code \in [Orders -> {"absent", "unused", "used"}]
  /\ credits \in [Orders -> Nat]
  /\ rebates \in [Orders -> Nat]
  /\ audit \in [Orders -> SUBSET AuditActions]
  /\ charge \in [Orders -> Charges]
  /\ acked \in [Orders -> Answers]
  /\ job \in [Workers -> Job \cup {Idle}]
  /\ faults \in 0..MaxFaults

Init ==
  /\ row = [o \in Orders |-> [type |-> "balance", status |-> "NEW", fresh |-> TRUE,
                              paidAt |-> FALSE, tradeNo |-> FALSE]]
  /\ holders = [o \in Orders |-> {}]
  /\ due = [o \in Orders |-> FALSE]
  /\ code = [o \in Orders |-> "absent"]
  /\ credits = [o \in Orders |-> 0]
  /\ rebates = [o \in Orders |-> 0]
  /\ audit = [o \in Orders |-> {}]
  /\ charge = [o \in Orders |-> "none"]
  /\ acked = [o \in Orders |-> "no"]
  /\ job = [w \in Workers |-> Idle]
  /\ faults = 0

-----------------------------------------------------------------------------
(* Helpers *)

At(w, o, point) == job[w] # Idle /\ job[w].order = o /\ job[w].at = point

Start(w, o, kind, point) ==
  /\ job[w] = Idle
  /\ kind \in Role[w]
  /\ job' = [job EXCEPT ![w] = [kind |-> kind, order |-> o,
                                known |-> row[o].tradeNo, at |-> point]]

Goto(w, point) == job' = [job EXCEPT ![w].at = point]

Return(w) == job' = [job EXCEPT ![w] = Idle]

\* Every save of the ORM refreshes updated_at, which ends every lease on it.
Save(o, r) ==
  /\ row' = [row EXCEPT ![o] = [r EXCEPT !.fresh = TRUE]]
  /\ holders' = [holders EXCEPT ![o] = {}]

SetStatus(o, s) == Save(o, [row[o] EXCEPT !.status = s])

\* A job that returns nil; if it was a notification the provider reads 2xx.
Finish(w, o, answer) ==
  /\ Return(w)
  /\ acked' = IF job[w].kind = "webhook" THEN [acked EXCEPT ![o] = answer] ELSE acked

Fault == faults < MaxFaults /\ faults' = faults + 1

\* Workers between the acquisition of the lease on o and the end of their job.
Fulfilling(o) ==
  {w \in Workers : \E p \in {"reload", "deliver", "createCode", "redeem",
                             "rebate", "complete", "fail"} : At(w, o, p)}

shop == <<code, credits, rebates, audit>>

-----------------------------------------------------------------------------
(* Creation: CreateOrder, createOrderInTx, invokeProvider *)

CreateOrderInTx(w, o) ==
  /\ row[o].status = "NEW"
  /\ Start(w, o, "create", "invoke")
  /\ \E t \in OrderTypes : Save(o, [row[o] EXCEPT !.type = t, !.status = "PENDING"])
  /\ UNCHANGED <<due, shop, charge, acked, faults>>

CreatePayment(w, o) ==
  /\ At(w, o, "invoke")
  /\ charge' = [charge EXCEPT ![o] = "open"]
  /\ Goto(w, "saveCharge")
  /\ UNCHANGED <<row, holders, due, shop, acked, faults>>

\* The pay link leaves the server only after it is saved: the customer can pay
\* from here on, unless a cancellation closed the charge meanwhile.
SaveCharge(w, o) ==
  /\ At(w, o, "saveCharge")
  /\ Save(o, row[o])
  /\ charge' = [charge EXCEPT ![o] = IF @ = "open" THEN "payable" ELSE @]
  /\ Return(w)
  /\ UNCHANGED <<due, shop, acked, faults>>

\* Misconfigured provider, failed call (whether or not the provider opened the
\* charge) or failed save: an update with no condition on the status.
CreateFails(w, o) ==
  /\ \/ At(w, o, "invoke") /\ charge' \in {charge, [charge EXCEPT ![o] = "open"]}
     \/ At(w, o, "saveCharge") /\ charge' = charge
  /\ SetStatus(o, "FAILED")
  /\ Return(w)
  /\ UNCHANGED <<due, shop, acked, faults>>

-----------------------------------------------------------------------------
(* Starting the other jobs *)

\* A provider notifies, and notifies again, of a charge that was paid.
Notify(w, o) ==
  /\ charge[o] \in {"paid", "mispaid"}
  /\ Start(w, o, "webhook", "confirm")
  /\ UNCHANGED <<row, holders, due, shop, charge, acked, faults>>

\* VerifyOrderByOutTradeNo; on a pending order also ReconcilePendingWxpayOrders.
VerifyOrder(w, o) ==
  /\ row[o].status \in {"PENDING", "EXPIRED"}
  /\ Start(w, o, "verify", "query")
  /\ UNCHANGED <<row, holders, due, shop, charge, acked, faults>>

\* CancelOrder and AdminCancelOrder
CancelOrder(w, o) ==
  /\ row[o].status = "PENDING"
  /\ Start(w, o, "cancel", "query")
  /\ UNCHANGED <<row, holders, due, shop, charge, acked, faults>>

ExpireOrder(w, o) ==
  /\ row[o].status = "PENDING"
  /\ due[o]
  /\ Start(w, o, "expire", "query")
  /\ UNCHANGED <<row, holders, due, shop, charge, acked, faults>>

RetryFulfillment(w, o) ==
  /\ row[o].paidAt
  /\ row[o].status \in {"FAILED", "PAID", "RECHARGING"}
  /\ Start(w, o, "retry", "fulfil")
  /\ UNCHANGED <<row, holders, due, shop, charge, acked, faults>>

-----------------------------------------------------------------------------
(* checkPaidWithOptions and the rest of cancelCore *)

QueryPaid(w, o) ==
  /\ At(w, o, "query")
  /\ charge[o] \in {"paid", "mispaid"}
  /\ Goto(w, IF QueryGivesTradeNo /\ ~job[w].known THEN "persist" ELSE "confirm")
  /\ UNCHANGED <<row, holders, due, shop, charge, acked, faults>>

QueryUnpaid(w, o) ==
  /\ At(w, o, "query")
  /\ charge[o] \in {"open", "payable", "closed"}
  /\ IF job[w].kind = "verify" THEN Return(w) ELSE Goto(w, "close")
  /\ UNCHANGED <<row, holders, due, shop, charge, acked, faults>>

\* The provider does not answer, or does not know the order: cancellation and
\* expiry go on as if it were unpaid.
QueryFails(w, o) ==
  /\ At(w, o, "query")
  /\ IF job[w].kind = "verify" THEN Return(w) ELSE Goto(w, "stamp")
  /\ UNCHANGED <<row, holders, due, shop, charge, acked, faults>>

\* CancelPayment is best effort: its error is dropped, and a charge that was
\* paid meanwhile stays paid.
CloseCharge(w, o) ==
  /\ At(w, o, "close")
  /\ \/ charge' = charge
     \/ charge[o] \in {"open", "payable"} /\ charge' = [charge EXCEPT ![o] = "closed"]
  /\ Goto(w, "stamp")
  /\ UNCHANGED <<row, holders, due, shop, acked, faults>>

\* Mutant: a status that payment_orders.status does not know.
StampMisspelt(w, o) ==
  /\ At(w, o, "stamp")
  /\ row[o].status = "PENDING"
  /\ SetStatus(o, "CANCELED")
  /\ Return(w)
  /\ UNCHANGED <<due, shop, charge, acked, faults>>

\* Mutant: an update with no condition on the status.
StampUnconditionally(w, o) ==
  /\ At(w, o, "stamp")
  /\ SetStatus(o, "CANCELLED")
  /\ Return(w)
  /\ UNCHANGED <<due, shop, charge, acked, faults>>

StampCancelled(w, o) ==
  /\ At(w, o, "stamp")
  /\ IF row[o].status = "PENDING"
       THEN SetStatus(o, IF job[w].kind = "expire" THEN "EXPIRED" ELSE "CANCELLED")
       ELSE UNCHANGED <<row, holders>>
  /\ Return(w)
  /\ UNCHANGED <<due, shop, charge, acked, faults>>

\* The update has no condition on the status, and its failure stops nothing.
PersistTradeNo(w, o) ==
  /\ At(w, o, "persist")
  /\ \/ Save(o, [row[o] EXCEPT !.tradeNo = TRUE]) /\ UNCHANGED faults
     \/ UNCHANGED <<row, holders>> /\ Fault
  /\ Goto(w, "confirm")
  /\ UNCHANGED <<due, shop, charge, acked>>

-----------------------------------------------------------------------------
(* HandlePaymentNotification: confirmPayment, toPaid, alreadyProcessed *)

CanBePaid(o) ==
  \/ row[o].status \in {"PENDING", "CANCELLED"}
  \/ row[o].status = "EXPIRED" /\ row[o].fresh

RejectPayment(w, o) ==
  /\ At(w, o, "confirm")
  /\ charge[o] = "mispaid"
  /\ Return(w)
  /\ UNCHANGED <<row, holders, due, shop, charge, acked, faults>>

\* Mutant: the amount of the notification is not compared with the order's.
ToPaidUnchecked(w, o) ==
  /\ At(w, o, "confirm")
  /\ CanBePaid(o)
  /\ Save(o, [row[o] EXCEPT !.status = "PAID", !.paidAt = TRUE, !.tradeNo = TRUE])
  /\ Goto(w, "fulfil")
  /\ UNCHANGED <<due, shop, charge, acked, faults>>

ToPaid(w, o) ==
  /\ At(w, o, "confirm")
  /\ charge[o] # "mispaid"
  /\ CanBePaid(o)
  /\ Save(o, [row[o] EXCEPT !.status = "PAID", !.paidAt = TRUE, !.tradeNo = TRUE])
  /\ Goto(w, "fulfil")
  /\ UNCHANGED <<due, shop, charge, acked, faults>>

NotToPaid(w, o) ==
  /\ At(w, o, "confirm")
  /\ charge[o] # "mispaid"
  /\ ~CanBePaid(o)
  /\ Goto(w, "recheck")
  /\ UNCHANGED <<row, holders, due, shop, charge, acked, faults>>

AlreadyProcessed(w, o) ==
  /\ At(w, o, "recheck")
  /\ IF row[o].status \in {"FAILED", "PAID", "RECHARGING"}
       THEN Goto(w, "fulfil") /\ UNCHANGED acked
       ELSE Finish(w, o, "handled")
  /\ audit' = IF row[o].status = "EXPIRED"
                THEN [audit EXCEPT ![o] = @ \cup {"PAYMENT_AFTER_EXPIRY"}]
                ELSE audit
  /\ UNCHANGED <<row, holders, due, code, credits, rebates, charge, faults>>

\* writeAuditLog only logs its error: the late payment is acknowledged all the
\* same, and nothing but the log of the process knows of it.
AuditFails(w, o) ==
  /\ At(w, o, "recheck")
  /\ row[o].status = "EXPIRED"
  /\ Fault
  /\ Finish(w, o, "unrecorded")
  /\ UNCHANGED <<row, holders, due, shop, charge>>

\* The read of the order fails; confirmPayment and alreadyProcessed return nil
\* all the same.
ReadFails(w, o) ==
  /\ At(w, o, "confirm") \/ At(w, o, "recheck")
  /\ Fault
  /\ Finish(w, o, "blind")
  /\ UNCHANGED <<row, holders, due, shop, charge>>

-----------------------------------------------------------------------------
(* executeFulfillment: the lease *)

\* Mutant: the lease of a worker that died is never taken over.
LeasableOnce(o) == row[o].status \in {"PAID", "FAILED"}

Leasable(o) ==
  \/ row[o].status \in {"PAID", "FAILED"}
  \/ row[o].status = "RECHARGING" /\ ~row[o].fresh

AcquireLease(w, o) ==
  /\ At(w, o, "fulfil")
  /\ Leasable(o)
  /\ SetStatus(o, "RECHARGING")
  /\ Goto(w, "reload")
  /\ UNCHANGED <<due, shop, charge, acked, faults>>

\* Mutant: an order that somebody else is delivering counts as handled.
AcquireRefusedSilently(w, o) ==
  /\ At(w, o, "fulfil")
  /\ ~Leasable(o)
  /\ Finish(w, o, "handled")
  /\ UNCHANGED <<row, holders, due, shop, charge, faults>>

\* Completed by someone else: nil.  Leased by someone else, or refunded: an error.
AcquireRefused(w, o) ==
  /\ At(w, o, "fulfil")
  /\ ~Leasable(o)
  /\ IF row[o].status = "COMPLETED"
       THEN Finish(w, o, "handled")
       ELSE Return(w) /\ UNCHANGED acked
  /\ UNCHANGED <<row, holders, due, shop, charge, faults>>

\* The lease version is the updated_at read back, whoever wrote it last.
ReloadLease(w, o) ==
  /\ At(w, o, "reload")
  /\ IF row[o].status = "RECHARGING"
       THEN /\ holders' = [holders EXCEPT ![o] = @ \cup {w}]
            /\ Goto(w, "deliver")
       ELSE /\ UNCHANGED holders
            /\ Return(w)
  /\ UNCHANGED <<row, due, shop, charge, acked, faults>>

-----------------------------------------------------------------------------
(* doBalance and RedeemService.Redeem *)

\* Mutant: a code that exists counts as redeemed.
LookupCodeAsUsed(w, o) ==
  /\ At(w, o, "deliver")
  /\ row[o].type = "balance"
  /\ Goto(w, IF code[o] = "absent" THEN "createCode" ELSE "rebate")
  /\ UNCHANGED <<row, holders, due, shop, charge, acked, faults>>

LookupCode(w, o) ==
  /\ At(w, o, "deliver")
  /\ row[o].type = "balance"
  /\ Goto(w, CASE code[o] = "absent" -> "createCode"
               [] code[o] = "unused" -> "redeem"
               [] code[o] = "used"   -> "rebate")
  /\ UNCHANGED <<row, holders, due, shop, charge, acked, faults>>

\* A failed lookup counts as a code that does not exist.
LookupFails(w, o) ==
  /\ At(w, o, "deliver")
  /\ row[o].type = "balance"
  /\ Fault
  /\ Goto(w, "createCode")
  /\ UNCHANGED <<row, holders, due, shop, charge, acked>>

CreateCode(w, o) ==
  /\ At(w, o, "createCode")
  /\ IF code[o] = "absent"
       THEN code' = [code EXCEPT ![o] = "unused"] /\ Goto(w, "redeem")
       ELSE code' = code /\ Goto(w, "fail")
  /\ UNCHANGED <<row, holders, due, credits, rebates, audit, charge, acked, faults>>

\* Mutant: the update of the code does not require it to be unused.
UseCodeAgain(o) ==
  /\ code[o] # "absent"
  /\ code' = [code EXCEPT ![o] = "used"]
  /\ credits' = [credits EXCEPT ![o] = @ + 1]

\* One transaction marks the code used where it is unused and adds the balance.
UseCode(o) ==
  /\ code[o] = "unused"
  /\ code' = [code EXCEPT ![o] = "used"]
  /\ credits' = [credits EXCEPT ![o] = @ + 1]

Redeem(w, o) ==
  /\ At(w, o, "redeem")
  /\ \/ UseCode(o) /\ Goto(w, "rebate")
     \/ code[o] # "unused" /\ Goto(w, "fail") /\ UNCHANGED <<code, credits>>
  /\ UNCHANGED <<row, holders, due, rebates, audit, charge, acked, faults>>

\* Rate limit, lock or database error; or the code cannot be read back after
\* the transaction committed.
RedeemFails(w, o) ==
  /\ At(w, o, "redeem")
  /\ Fault
  /\ UseCode(o) \/ UNCHANGED <<code, credits>>
  /\ Goto(w, "fail")
  /\ UNCHANGED <<row, holders, due, rebates, audit, charge, acked>>

-----------------------------------------------------------------------------
(* doSub: ensurePaymentSubscriptionAssigned, one transaction guarded by the *)
(* unique (order_id, action) of the audit table                             *)

Assign(o) ==
  IF "SUBSCRIPTION_ASSIGNED" \in audit[o]
    THEN UNCHANGED <<audit, credits>>
    ELSE /\ audit' = [audit EXCEPT ![o] = @ \cup {"SUBSCRIPTION_ASSIGNED"}]
         /\ credits' = [credits EXCEPT ![o] = @ + 1]

AssignSubscription(w, o) ==
  /\ At(w, o, "deliver")
  /\ row[o].type = "subscription"
  /\ Assign(o)
  /\ Goto(w, "rebate")
  /\ UNCHANGED <<row, holders, due, code, rebates, charge, acked, faults>>

\* The group is gone, the transaction fails, or the caches cannot be
\* invalidated after it committed.
AssignFails(w, o) ==
  /\ At(w, o, "deliver")
  /\ row[o].type = "subscription"
  /\ Fault
  /\ Assign(o) \/ UNCHANGED <<audit, credits>>
  /\ Goto(w, "fail")
  /\ UNCHANGED <<row, holders, due, code, rebates, charge, acked>>

-----------------------------------------------------------------------------
(* applyAffiliateRebateForOrder, markCompleted, markFailed *)

ApplyRebate(w, o) ==
  /\ At(w, o, "rebate")
  /\ IF "AFFILIATE_REBATE" \in audit[o]
       THEN UNCHANGED <<audit, rebates>>
       ELSE /\ audit' = [audit EXCEPT ![o] = @ \cup {"AFFILIATE_REBATE"}]
            /\ rebates' = [rebates EXCEPT ![o] = @ + 1]
  /\ Goto(w, "complete")
  /\ UNCHANGED <<row, holders, due, code, credits, charge, acked, faults>>

\* Creating the code, accruing the rebate or marking the order fails.
DeliveryFails(w, o) ==
  /\ At(w, o, "createCode") \/ At(w, o, "rebate") \/ At(w, o, "complete")
  /\ Fault
  /\ Goto(w, "fail")
  /\ UNCHANGED <<row, holders, due, shop, charge, acked>>

\* Mutant: the lease version is not compared.
HoldsAnyLease(w, o) == row[o].status = "RECHARGING"

HoldsLease(w, o) == row[o].status = "RECHARGING" /\ w \in holders[o]

MarkCompleted(w, o) ==
  /\ At(w, o, "complete")
  /\ \/ /\ HoldsLease(w, o)
        /\ SetStatus(o, "COMPLETED")
        /\ Finish(w, o, "handled")
     \/ /\ ~HoldsLease(w, o)
        /\ row[o].status = "COMPLETED"
        /\ Finish(w, o, "handled")
        /\ UNCHANGED <<row, holders>>
     \/ /\ ~HoldsLease(w, o)
        /\ row[o].status # "COMPLETED"
        /\ Goto(w, "fail")
        /\ UNCHANGED <<row, holders, acked>>
  /\ UNCHANGED <<due, shop, charge, faults>>

MarkFailed(w, o) ==
  /\ At(w, o, "fail")
  /\ IF HoldsLease(w, o)
       THEN SetStatus(o, "FAILED")
       ELSE UNCHANGED <<row, holders>>
  /\ Return(w)
  /\ UNCHANGED <<due, shop, charge, acked, faults>>

-----------------------------------------------------------------------------
(* The environment *)

CustomerPays(o) ==
  /\ charge[o] = "payable"
  /\ \E c \in {"paid", "mispaid"} : charge' = [charge EXCEPT ![o] = c]
  /\ UNCHANGED <<row, holders, due, shop, acked, job, faults>>

\* expires_at passes, which only a pending order's fate depends on.
OrderDue(o) ==
  /\ ~due[o]
  /\ row[o].status = "PENDING"
  /\ due' = [due EXCEPT ![o] = TRUE]
  /\ UNCHANGED <<row, holders, shop, charge, acked, job, faults>>

\* Five minutes pass without a write to the order.  A job that is still
\* fulfilling it by then has stalled, which counts as a fault.
FiveMinutesPass(o) ==
  /\ row[o].fresh
  /\ row[o].status # "NEW"
  /\ row' = [row EXCEPT ![o].fresh = FALSE]
  /\ IF Fulfilling(o) = {} THEN UNCHANGED faults ELSE Fault
  /\ UNCHANGED <<holders, due, shop, charge, acked, job>>

\* The refund flow (module PaymentRefund) moves a completed order among the
\* refund statuses, and back to COMPLETED when a refund is given up.
RefundMoves(o) ==
  /\ row[o].status \in Settled
  /\ \E s \in Settled \ {row[o].status} : SetStatus(o, s)
  /\ UNCHANGED <<due, shop, charge, acked, job, faults>>

\* The process dies, the request's context is cancelled, or a statement fails
\* whose error the job returns.
Crash(w) ==
  /\ job[w] # Idle
  /\ Fault
  /\ holders' = [o \in Orders |-> holders[o] \ {w}]
  /\ Return(w)
  /\ UNCHANGED <<row, due, shop, charge, acked>>

-----------------------------------------------------------------------------
Step(w, o) ==
  \/ CreatePayment(w, o) \/ SaveCharge(w, o) \/ CreateFails(w, o)
  \/ QueryPaid(w, o) \/ QueryUnpaid(w, o) \/ QueryFails(w, o)
  \/ CloseCharge(w, o) \/ StampCancelled(w, o) \/ PersistTradeNo(w, o)
  \/ RejectPayment(w, o) \/ ToPaid(w, o) \/ NotToPaid(w, o)
  \/ AlreadyProcessed(w, o) \/ AuditFails(w, o) \/ ReadFails(w, o)
  \/ AcquireLease(w, o) \/ AcquireRefused(w, o) \/ ReloadLease(w, o)
  \/ LookupCode(w, o) \/ LookupFails(w, o) \/ CreateCode(w, o)
  \/ Redeem(w, o) \/ RedeemFails(w, o)
  \/ AssignSubscription(w, o) \/ AssignFails(w, o)
  \/ ApplyRebate(w, o) \/ DeliveryFails(w, o)
  \/ MarkCompleted(w, o) \/ MarkFailed(w, o)

Begin(w, o) ==
  \/ CreateOrderInTx(w, o) \/ Notify(w, o) \/ VerifyOrder(w, o)
  \/ CancelOrder(w, o) \/ ExpireOrder(w, o) \/ RetryFulfillment(w, o)

Environment(o) ==
  CustomerPays(o) \/ OrderDue(o) \/ FiveMinutesPass(o) \/ RefundMoves(o)

Next ==
  \/ \E w \in Workers, o \in Orders : Step(w, o) \/ Begin(w, o)
  \/ \E o \in Orders : Environment(o)
  \/ \E w \in Workers : Crash(w)

Spec == Init /\ [][Next]_vars

(***************************************************************************)
(* Fairness.  A started job runs (a goroutine is scheduled, a call times   *)
(* out); time passes; a provider repeats a notification until it is        *)
(* answered with 2xx.  Nobody has to pay, verify, cancel or retry.         *)
(***************************************************************************)
NotifyUntilAcked(o) ==
  acked[o] = "no" /\ \E w \in Workers : Notify(w, o)

Fairness ==
  /\ \A w \in Workers : WF_vars(\E o \in Orders : Step(w, o))
  /\ \A o \in Orders : WF_vars(FiveMinutesPass(o) /\ UNCHANGED faults)
  /\ \A o \in Orders : WF_vars(NotifyUntilAcked(o))

FairSpec == Spec /\ Fairness

-----------------------------------------------------------------------------
(* Properties *)

\* An order is never credited twice, however many notifications, retries,
\* stalled lease holders and crashes there are (resolveRedeemAction, the unused
\* -> used update of the code, the unique assignment audit).
CreditedAtMostOnce == \A o \in Orders : credits[o] <= 1 /\ rebates[o] <= 1

\* Nothing is delivered for a charge that was not paid in full: the amount
\* check of confirmPayment stands between a notification and every delivery.
CreditedOnlyIfPaid == \A o \in Orders : credits[o] > 0 => charge[o] = "paid"

\* An order that reads COMPLETED (or is somewhere in the refund flow) was
\* delivered, and its rebate was settled: no worker completes on behalf of
\* another's unfinished delivery.
CompletedMeansDelivered ==
  \A o \in Orders :
    row[o].status \in Settled =>
      credits[o] = 1 /\ "AFFILIATE_REBATE" \in audit[o]

\* A notification of a full payment is answered with 2xx only once the order is
\* settled or the late payment is on record, but for two ways that each take a
\* failed statement: the order could not be read ("blind"), or the audit of the
\* late payment could not be written ("unrecorded").
AckedMeansHandled ==
  \A o \in Orders :
    (acked[o] = "handled" /\ charge[o] = "paid") =>
      row[o].status \in Settled \/ "PAYMENT_AFTER_EXPIRY" \in audit[o]

\* A settled order never returns to the fulfilment flow: no cancel, expiry,
\* creation failure, notification or lost lease overwrites it.
SettledIsFinal ==
  [][\A o \in Orders : row[o].status \in Settled => row'[o].status \in Settled]_vars

\* Two workers that both believe to hold the lease is possible (a stall), but
\* the one whose version is stale never changes the order's status: the row
\* leaves RECHARGING for COMPLETED or FAILED only through a current holder.
OnlyHolderFinishes ==
  [][\A o \in Orders :
       (row[o].status = "RECHARGING" /\ row'[o].status # "RECHARGING") =>
         \E w \in holders[o] : At(w, o, "complete") \/ At(w, o, "fail")]_vars

\* A full payment is delivered in the end, or put on record as too late, or
\* its notification was answered although the order could not be read or the
\* record of the late payment not be written.
PaidIsSettled ==
  \A o \in Orders :
    charge[o] = "paid" ~>
      \/ row[o].status \in Settled
      \/ "PAYMENT_AFTER_EXPIRY" \in audit[o]
      \/ acked[o] \in {"blind", "unrecorded"}
=============================================================================
