---------------------- MODULE PaymentFulfillmentProofs ----------------------
(***************************************************************************)
(* Machine-checked proofs about PaymentFulfillment, for any number of      *)
(* orders, workers and faults.                                             *)
(***************************************************************************)
EXTENDS PaymentFulfillment, TLAPS

-----------------------------------------------------------------------------
(* The inductive invariant *)

Creating(w, o) == At(w, o, "invoke") \/ At(w, o, "saveCharge")

\* One worker creates an order, and until it has returned nobody can pay.
CreationInv ==
  \A o \in Orders :
    /\ row[o].status = "NEW" =>
         /\ charge[o] = "none"
         /\ \A w \in Workers, p \in Points : ~At(w, o, p)
    /\ \A w \in Workers :
         /\ At(w, o, "invoke") => charge[o] = "none"
         /\ At(w, o, "saveCharge") => charge[o] \in {"open", "closed"}
    /\ \A w, v \in Workers : Creating(w, o) /\ Creating(v, o) => w = v

\* Where a job is past the amount check of confirmPayment.
PaidPoints ==
  {"recheck", "fulfil", "reload", "deliver", "createCode", "redeem", "rebate",
   "complete", "fail"}

PaidInv ==
  \A o \in Orders :
    /\ row[o].paidAt => charge[o] = "paid"
    /\ row[o].status \in {"PAID", "RECHARGING"} \cup Settled => charge[o] = "paid"
    /\ credits[o] > 0 => charge[o] = "paid"
    /\ \A w \in Workers :
         /\ \A p \in PaidPoints : At(w, o, p) => charge[o] = "paid"
         /\ \A p \in {"persist", "confirm"} : At(w, o, p) => charge[o] \in {"paid", "mispaid"}

\* What was credited is what the code and the audit table say.
LedgerInv ==
  \A o \in Orders :
    /\ credits[o] = IF code[o] = "used" \/ "SUBSCRIPTION_ASSIGNED" \in audit[o] THEN 1 ELSE 0
    /\ rebates[o] = IF "AFFILIATE_REBATE" \in audit[o] THEN 1 ELSE 0
    /\ code[o] # "absent" => row[o].type = "balance" /\ row[o].status # "NEW"
    /\ "SUBSCRIPTION_ASSIGNED" \in audit[o] =>
         row[o].type = "subscription" /\ row[o].status # "NEW"
    /\ \A w \in Workers : \A p \in {"createCode", "redeem"} :
         At(w, o, p) => row[o].type = "balance"

Delivered(o) == credits[o] = 1 /\ "AFFILIATE_REBATE" \in audit[o]

DeliveryInv ==
  \A o \in Orders :
    /\ row[o].status \in Settled => Delivered(o)
    /\ \A w \in Workers :
         /\ At(w, o, "rebate") => credits[o] = 1
         /\ At(w, o, "complete") => Delivered(o)
         /\ At(w, o, "recheck") => row[o].status \notin {"NEW", "PENDING", "CANCELLED"}
    /\ acked[o] = "handled" =>
         row[o].status \in Settled \/ "PAYMENT_AFTER_EXPIRY" \in audit[o]

IInv == TypeOK /\ CreationInv /\ PaidInv /\ LedgerInv /\ DeliveryInv

-----------------------------------------------------------------------------
(* What the helpers do to the jobs and to the row *)

Jobs == [Workers -> Job \cup {Idle}]

\* Goto moves w to p and leaves its order and every other job alone.
LEMMA GotoEffect ==
  ASSUME job \in Jobs, NEW w \in Workers, job[w] # Idle, NEW p, Goto(w, p)
  PROVE  /\ p \in Points => job' \in Jobs
         /\ \A v \in Workers : v # w => job'[v] = job[v]
         /\ job'[w].order = job[w].order
         /\ job'[w].at = p
<1> job[w] \in Job
  BY DEF Jobs
<1> DEFINE j == [job[w] EXCEPT !.at = p]
<1>1. (p \in Points => j \in Job) /\ j.order = job[w].order /\ j.at = p
  BY DEF Job
<1>2. job' = [job EXCEPT ![w] = j]
  BY DEF Goto
<1> HIDE DEF j
<1> QED BY <1>1, <1>2 DEF Jobs

\* Return ends the job of w and no other.
LEMMA ReturnEffect ==
  ASSUME job \in Jobs, NEW w \in Workers, Return(w)
  PROVE  /\ job' \in Jobs
         /\ \A v \in Workers : v # w => job'[v] = job[v]
         /\ job'[w] = Idle
BY DEF Return, Jobs

\* Start gives an idle worker a job on o.
LEMMA StartEffect ==
  ASSUME job \in Jobs, row \in [Orders -> Row], NEW w \in Workers, NEW o \in Orders,
         NEW k \in Kinds, NEW p \in Points, Start(w, o, k, p)
  PROVE  /\ job' \in Jobs
         /\ job[w] = Idle
         /\ \A v \in Workers : v # w => job'[v] = job[v]
         /\ job'[w] # Idle
         /\ job'[w].order = o
         /\ job'[w].at = p
<1> DEFINE j == [kind |-> k, order |-> o, known |-> row[o].tradeNo, at |-> p]
<1>1. j \in Job
  BY DEF Job, Row
<1>2. job[w] = Idle /\ job' = [job EXCEPT ![w] = j]
  BY DEF Start
<1> QED BY <1>1, <1>2, ConstantsAssumption DEF Jobs

\* Save writes r but for its age, and no other order.
LEMMA SaveEffect ==
  ASSUME row \in [Orders -> Row], holders \in [Orders -> SUBSET Workers],
         NEW o \in Orders, NEW r \in Row, Save(o, r)
  PROVE  /\ row' \in [Orders -> Row]
         /\ holders' \in [Orders -> SUBSET Workers]
         /\ row'[o].status = r.status
         /\ row'[o].type = r.type
         /\ row'[o].paidAt = r.paidAt
         /\ \A q \in Orders : q # o => row'[q] = row[q]
<1> DEFINE s == [r EXCEPT !.fresh = TRUE]
<1>1. s \in Row /\ s.status = r.status /\ s.type = r.type /\ s.paidAt = r.paidAt
  BY DEF Row
<1>2. row' = [row EXCEPT ![o] = s] /\ holders' = [holders EXCEPT ![o] = {}]
  BY DEF Save
<1> QED BY <1>1, <1>2

\* SetStatus changes nothing but the status of o.
LEMMA SetStatusEffect ==
  ASSUME row \in [Orders -> Row], holders \in [Orders -> SUBSET Workers],
         NEW o \in Orders, NEW s \in Statuses, SetStatus(o, s)
  PROVE  /\ row' \in [Orders -> Row]
         /\ holders' \in [Orders -> SUBSET Workers]
         /\ row'[o].status = s
         /\ row'[o].type = row[o].type
         /\ row'[o].paidAt = row[o].paidAt
         /\ \A q \in Orders : q # o => row'[q] = row[q]
<1> DEFINE r == [row[o] EXCEPT !.status = s]
<1>1. r \in Row /\ r.status = s /\ r.type = row[o].type /\ r.paidAt = row[o].paidAt
  BY DEF Row
<1>2. Save(o, r)
  BY DEF SetStatus
<1> HIDE DEF r
<1> QED BY <1>1, <1>2, SaveEffect

\* Finish returns, and answers for o at most.
LEMMA FinishEffect ==
  ASSUME job \in Jobs, acked \in [Orders -> Answers],
         NEW w \in Workers, NEW o \in Orders, NEW a \in {"handled", "blind", "unrecorded"},
         Finish(w, o, a)
  PROVE  /\ Return(w)
         /\ acked' \in [Orders -> Answers]
         /\ acked'[o] \in {acked[o], a}
         /\ \A q \in Orders : q # o => acked'[q] = acked[q]
BY DEF Finish, Answers

-----------------------------------------------------------------------------
(* How a step moves the jobs: no other worker's, and w's to a point of P *)

Moves(w, o, P) ==
  \A v \in Workers, q \in Orders : \A p :
    At(v, q, p)' => IF v = w THEN q = o /\ p \in P ELSE At(v, q, p)

\* Goto moves the job of w to p.
LEMMA GotoMoves ==
  ASSUME job \in Jobs, NEW w \in Workers, NEW o \in Orders, NEW p0, At(w, o, p0),
         NEW p, Goto(w, p)
  PROVE  Moves(w, o, {p})
BY GotoEffect DEF Moves, At

\* Return moves it nowhere.
LEMMA ReturnMoves ==
  ASSUME job \in Jobs, NEW w \in Workers, NEW o \in Orders, Return(w)
  PROVE  Moves(w, o, {})
BY ReturnEffect DEF Moves, At

\* Start moves the worker to p.
LEMMA StartMoves ==
  ASSUME job \in Jobs, NEW w \in Workers, NEW o \in Orders, NEW k, NEW p, Start(w, o, k, p)
  PROVE  Moves(w, o, {p})
<1> DEFINE j == [kind |-> k, order |-> o, known |-> row[o].tradeNo, at |-> p]
<1>1. j.order = o /\ j.at = p
  OBVIOUS
<1>2. job' = [job EXCEPT ![w] = j]
  BY DEF Start
<1> HIDE DEF j
<1> QED BY <1>1, <1>2 DEF Moves, At, Jobs

\* A step that leaves job alone moves nobody.
LEMMA StayMoves ==
  ASSUME UNCHANGED job
  PROVE  \A v \in Workers, q \in Orders : \A p : At(v, q, p)' => At(v, q, p)
BY DEF At

-----------------------------------------------------------------------------
(* What the actions that write a record field by field do to the row *)

RowTyped == row \in [Orders -> Row] /\ holders \in [Orders -> SUBSET Workers]

\* A new order becomes PENDING and is being created by w.
LEMMA CreateOrderEffect ==
  ASSUME RowTyped, NEW w \in Workers, NEW o \in Orders, CreateOrderInTx(w, o)
  PROVE  /\ RowTyped'
         /\ row[o].status = "NEW" /\ row'[o].status = "PENDING"
         /\ row'[o].paidAt = row[o].paidAt
         /\ \A q \in Orders : q # o => row'[q] = row[q]
         /\ Start(w, o, "create", "invoke")
         /\ UNCHANGED <<due, shop, charge, acked, faults>>
<1>1. PICK t \in OrderTypes : Save(o, [row[o] EXCEPT !.type = t, !.status = "PENDING"])
  BY DEF CreateOrderInTx
<1> DEFINE r == [row[o] EXCEPT !.type = t, !.status = "PENDING"]
<1>2. r \in Row /\ r.status = "PENDING" /\ r.paidAt = row[o].paidAt
  BY DEF RowTyped, Row, Statuses
<1>3. Save(o, r)
  BY <1>1
<1>4. /\ row[o].status = "NEW" /\ Start(w, o, "create", "invoke")
      /\ UNCHANGED <<due, shop, charge, acked, faults>>
  BY DEF CreateOrderInTx
<1> HIDE DEF r
<1> QED BY <1>2, <1>3, <1>4, SaveEffect DEF RowTyped

\* Only a pending order is cancelled or expired.
LEMMA StampCancelledEffect ==
  ASSUME RowTyped, NEW w \in Workers, NEW o \in Orders, StampCancelled(w, o)
  PROVE  /\ RowTyped'
         /\ \/ row'[o] = row[o]
            \/ row[o].status = "PENDING" /\ row'[o].status \in {"EXPIRED", "CANCELLED"}
         /\ row'[o].paidAt = row[o].paidAt
         /\ row'[o].type = row[o].type
         /\ \A q \in Orders : q # o => row'[q] = row[q]
         /\ At(w, o, "stamp") /\ Return(w)
         /\ UNCHANGED <<due, shop, charge, acked, faults>>
<1> DEFINE s == IF job[w].kind = "expire" THEN "EXPIRED" ELSE "CANCELLED"
<1>1. /\ \/ row[o].status = "PENDING" /\ SetStatus(o, s)
         \/ UNCHANGED <<row, holders>>
      /\ At(w, o, "stamp") /\ Return(w)
      /\ UNCHANGED <<due, shop, charge, acked, faults>>
  BY DEF StampCancelled
<1>2. s \in {"EXPIRED", "CANCELLED"} /\ s \in Statuses
  BY DEF Statuses
<1> HIDE DEF s
<1>3. CASE UNCHANGED <<row, holders>>
  BY <1>1, <1>3 DEF RowTyped
<1>4. CASE SetStatus(o, s)
  BY <1>1, <1>2, <1>4, SetStatusEffect DEF RowTyped
<1> QED BY <1>1, <1>3, <1>4

\* The trade number is saved, the status is not touched.
LEMMA PersistTradeNoEffect ==
  ASSUME RowTyped, NEW w \in Workers, NEW o \in Orders, PersistTradeNo(w, o)
  PROVE  /\ RowTyped'
         /\ row'[o].status = row[o].status
         /\ row'[o].type = row[o].type
         /\ row'[o].paidAt = row[o].paidAt
         /\ \A q \in Orders : q # o => row'[q] = row[q]
         /\ At(w, o, "persist") /\ Goto(w, "confirm")
         /\ UNCHANGED <<due, shop, charge, acked>>
         /\ UNCHANGED faults \/ Fault
<1> DEFINE r == [row[o] EXCEPT !.tradeNo = TRUE]
<1>1. r \in Row /\ r.status = row[o].status /\ r.type = row[o].type /\ r.paidAt = row[o].paidAt
  BY DEF RowTyped, Row
<1>2. Save(o, r) \/ UNCHANGED <<row, holders>>
  BY DEF PersistTradeNo
<1>3. /\ At(w, o, "persist") /\ Goto(w, "confirm")
      /\ UNCHANGED <<due, shop, charge, acked>>
      /\ UNCHANGED faults \/ Fault
  BY DEF PersistTradeNo
<1> HIDE DEF r
<1> QED BY <1>1, <1>2, <1>3, SaveEffect DEF RowTyped

\* The order is PAID, and its payment was not a wrong amount.
LEMMA ToPaidEffect ==
  ASSUME RowTyped, NEW w \in Workers, NEW o \in Orders, ToPaid(w, o)
  PROVE  /\ RowTyped'
         /\ row'[o].status = "PAID"
         /\ row'[o].type = row[o].type
         /\ \A q \in Orders : q # o => row'[q] = row[q]
         /\ At(w, o, "confirm") /\ Goto(w, "fulfil")
         /\ charge[o] # "mispaid" /\ CanBePaid(o)
         /\ UNCHANGED <<due, shop, charge, acked, faults>>
<1> DEFINE r == [row[o] EXCEPT !.status = "PAID", !.paidAt = TRUE, !.tradeNo = TRUE]
<1>1. r \in Row /\ r.status = "PAID" /\ r.type = row[o].type
  BY DEF RowTyped, Row, Statuses
<1>2. Save(o, r)
  BY DEF ToPaid
<1>3. /\ At(w, o, "confirm") /\ Goto(w, "fulfil")
      /\ charge[o] # "mispaid" /\ CanBePaid(o)
      /\ UNCHANGED <<due, shop, charge, acked, faults>>
  BY DEF ToPaid
<1> HIDE DEF r
<1> QED BY <1>1, <1>2, <1>3, SaveEffect DEF RowTyped

\* Time changes no status.
LEMMA FiveMinutesPassEffect ==
  ASSUME RowTyped, NEW o \in Orders, FiveMinutesPass(o)
  PROVE  /\ RowTyped'
         /\ row'[o].status = row[o].status
         /\ row'[o].type = row[o].type
         /\ row'[o].paidAt = row[o].paidAt
         /\ \A q \in Orders : q # o => row'[q] = row[q]
<1> DEFINE r == [row[o] EXCEPT !.fresh = FALSE]
<1>1. r \in Row /\ r.status = row[o].status /\ r.type = row[o].type /\ r.paidAt = row[o].paidAt
  BY DEF RowTyped, Row
<1>2. row' = [row EXCEPT ![o] = r] /\ holders' = holders
  BY DEF FiveMinutesPass
<1> HIDE DEF r
<1> QED BY <1>1, <1>2 DEF RowTyped

-----------------------------------------------------------------------------
(* Type correctness *)

\* The initial values are in range.
LEMMA TypeInit == Init => TypeOK
BY ConstantsAssumption DEF Init, TypeOK, Row, OrderTypes, Statuses, Charges, Answers

\* Every step keeps every variable in its range.
LEMMA TypeNext == TypeOK /\ [Next]_vars => TypeOK'
<1> SUFFICES ASSUME TypeOK, [Next]_vars PROVE TypeOK'
  OBVIOUS
<1> USE ConstantsAssumption DEF TypeOK, Jobs, shop
<1>1. ASSUME NEW w \in Workers, NEW o \in Orders, Step(w, o) PROVE TypeOK'
  <2> USE DEF At
  <2>1. CASE CreatePayment(w, o)
    BY <2>1, GotoEffect DEF CreatePayment, Points, Charges
  <2>2. CASE SaveCharge(w, o)
    BY <2>2, ReturnEffect, SaveEffect DEF SaveCharge, Row, Charges
  <2>3. CASE CreateFails(w, o)
    BY <2>3, ReturnEffect, SetStatusEffect DEF CreateFails, Statuses, Charges
  <2>4. CASE QueryPaid(w, o)
    BY <2>4, GotoEffect DEF QueryPaid, Points
  <2>5. CASE QueryUnpaid(w, o)
    BY <2>5, GotoEffect, ReturnEffect DEF QueryUnpaid, Points
  <2>6. CASE QueryFails(w, o)
    BY <2>6, GotoEffect, ReturnEffect DEF QueryFails, Points
  <2>7. CASE CloseCharge(w, o)
    BY <2>7, GotoEffect DEF CloseCharge, Points, Charges
  <2>8. CASE StampCancelled(w, o)
    BY <2>8, ReturnEffect, StampCancelledEffect DEF RowTyped
  <2>9. CASE PersistTradeNo(w, o)
    BY <2>9, GotoEffect, PersistTradeNoEffect DEF Points, Fault, RowTyped
  <2>10. CASE RejectPayment(w, o)
    BY <2>10, ReturnEffect DEF RejectPayment
  <2>11. CASE ToPaid(w, o)
    BY <2>11, GotoEffect, ToPaidEffect DEF Points, RowTyped
  <2>12. CASE NotToPaid(w, o)
    BY <2>12, GotoEffect DEF NotToPaid, Points
  <2>13. CASE AlreadyProcessed(w, o)
    BY <2>13, GotoEffect, FinishEffect, ReturnEffect DEF AlreadyProcessed, Points, AuditActions
  <2>13a. CASE AuditFails(w, o)
    BY <2>13a, FinishEffect, ReturnEffect DEF AuditFails, Fault
  <2>14. CASE ReadFails(w, o)
    BY <2>14, FinishEffect, ReturnEffect DEF ReadFails, Fault
  <2>15. CASE AcquireLease(w, o)
    BY <2>15, GotoEffect, SetStatusEffect DEF AcquireLease, Points, Statuses
  <2>16. CASE AcquireRefused(w, o)
    BY <2>16, ReturnEffect, FinishEffect DEF AcquireRefused
  <2>17. CASE ReloadLease(w, o)
    BY <2>17, GotoEffect, ReturnEffect DEF ReloadLease, Points
  <2>18. CASE LookupCode(w, o)
    BY <2>18, GotoEffect DEF LookupCode, Points
  <2>18a. CASE LookupFails(w, o)
    BY <2>18a, GotoEffect DEF LookupFails, Points, Fault
  <2>19. CASE CreateCode(w, o)
    BY <2>19, GotoEffect DEF CreateCode, Points
  <2>20. CASE Redeem(w, o)
    BY <2>20, GotoEffect DEF Redeem, Points, UseCode
  <2>21. CASE RedeemFails(w, o)
    BY <2>21, GotoEffect DEF RedeemFails, Points, UseCode, Fault
  <2>22. CASE AssignSubscription(w, o)
    BY <2>22, GotoEffect DEF AssignSubscription, Points, Assign, AuditActions
  <2>23. CASE AssignFails(w, o)
    BY <2>23, GotoEffect DEF AssignFails, Points, Assign, AuditActions, Fault
  <2>24. CASE ApplyRebate(w, o)
    BY <2>24, GotoEffect DEF ApplyRebate, Points, AuditActions
  <2>25. CASE DeliveryFails(w, o)
    BY <2>25, GotoEffect DEF DeliveryFails, Points, Fault
  <2>26. CASE MarkCompleted(w, o)
    BY <2>26, GotoEffect, SetStatusEffect, FinishEffect, ReturnEffect DEF MarkCompleted, Points, Statuses
  <2>27. CASE MarkFailed(w, o)
    BY <2>27, ReturnEffect, SetStatusEffect DEF MarkFailed, Statuses
  <2> QED
    BY <1>1, <2>1, <2>2, <2>3, <2>4, <2>5, <2>6, <2>7, <2>8, <2>9, <2>10, <2>11, <2>12, <2>13, <2>13a, <2>14, <2>15, <2>16, <2>17, <2>18, <2>19, <2>20, <2>21, <2>22, <2>23, <2>24, <2>25, <2>26, <2>27, <2>18a DEF Step
<1>2. ASSUME NEW w \in Workers, NEW o \in Orders, Begin(w, o) PROVE TypeOK'
  <2>1. CASE CreateOrderInTx(w, o)
    BY <2>1, CreateOrderEffect, StartEffect DEF Kinds, Points, RowTyped
  <2>2. CASE Notify(w, o)
    BY <2>2, StartEffect DEF Notify, Kinds, Points
  <2>3. CASE VerifyOrder(w, o)
    BY <2>3, StartEffect DEF VerifyOrder, Kinds, Points
  <2>4. CASE CancelOrder(w, o)
    BY <2>4, StartEffect DEF CancelOrder, Kinds, Points
  <2>5. CASE ExpireOrder(w, o)
    BY <2>5, StartEffect DEF ExpireOrder, Kinds, Points
  <2>6. CASE RetryFulfillment(w, o)
    BY <2>6, StartEffect DEF RetryFulfillment, Kinds, Points
  <2> QED
    BY <1>2, <2>1, <2>2, <2>3, <2>4, <2>5, <2>6 DEF Begin
<1>3. ASSUME NEW o \in Orders, Environment(o) PROVE TypeOK'
  <2>1. CASE CustomerPays(o)
    BY <2>1 DEF CustomerPays, Charges
  <2>2. CASE OrderDue(o)
    BY <2>2 DEF OrderDue
  <2>3. CASE FiveMinutesPass(o)
    <3>1. RowTyped'
      BY <2>3, FiveMinutesPassEffect DEF RowTyped
    <3>2. UNCHANGED <<due, code, credits, rebates, audit, charge, acked, job>>
      BY <2>3 DEF FiveMinutesPass
    <3>3. UNCHANGED faults \/ Fault
      BY <2>3 DEF FiveMinutesPass
    <3> QED BY <3>1, <3>2, <3>3 DEF RowTyped, Fault
  <2>4. CASE RefundMoves(o)
    BY <2>4, SetStatusEffect DEF RefundMoves, Statuses, Settled
  <2> QED
    BY <1>3, <2>1, <2>2, <2>3, <2>4 DEF Environment
<1>4. ASSUME NEW w \in Workers, Crash(w) PROVE TypeOK'
  BY <1>4, ReturnEffect DEF Crash, Fault
<1>5. CASE UNCHANGED vars
  BY <1>5 DEF vars
<1> QED
  BY <1>1, <1>2, <1>3, <1>4, <1>5 DEF Next

-----------------------------------------------------------------------------
(* The inductive invariant is preserved, part by part *)

\* One creator per order, and no payment while it is at work.
LEMMA CreationNext == TypeOK /\ PaidInv /\ CreationInv /\ [Next]_vars => CreationInv'
<1> SUFFICES ASSUME TypeOK, PaidInv, CreationInv, [Next]_vars PROVE CreationInv'
  OBVIOUS
<1> USE DEF TypeOK, Jobs, shop, Moves, Creating, CreationInv, PaidInv, Points, Settled
<1>1. ASSUME NEW w \in Workers, NEW o \in Orders, Step(w, o) PROVE CreationInv'
  <2>1. CASE CreatePayment(w, o)
    BY <2>1, GotoMoves DEF CreatePayment
  <2>2. CASE SaveCharge(w, o)
    BY <2>2, ReturnMoves, SaveEffect DEF SaveCharge
  <2>3. CASE CreateFails(w, o)
    BY <2>3, ReturnMoves, SetStatusEffect DEF CreateFails, Statuses
  <2>4. CASE QueryPaid(w, o)
    BY <2>4, GotoMoves DEF QueryPaid
  <2>5. CASE QueryUnpaid(w, o)
    BY <2>5, GotoMoves, ReturnMoves DEF QueryUnpaid
  <2>6. CASE QueryFails(w, o)
    BY <2>6, GotoMoves, ReturnMoves DEF QueryFails
  <2>7. CASE CloseCharge(w, o)
    BY <2>7, GotoMoves DEF CloseCharge
  <2>8. CASE StampCancelled(w, o)
    BY <2>8, ReturnMoves, StampCancelledEffect DEF RowTyped
  <2>9. CASE PersistTradeNo(w, o)
    BY <2>9, GotoMoves, PersistTradeNoEffect DEF RowTyped
  <2>10. CASE RejectPayment(w, o)
    BY <2>10, ReturnMoves DEF RejectPayment
  <2>11. CASE ToPaid(w, o)
    BY <2>11, GotoMoves, ToPaidEffect DEF RowTyped
  <2>12. CASE NotToPaid(w, o)
    BY <2>12, GotoMoves DEF NotToPaid
  <2>13. CASE AlreadyProcessed(w, o)
    BY <2>13, GotoMoves, FinishEffect, ReturnMoves DEF AlreadyProcessed
  <2>13a. CASE AuditFails(w, o)
    BY <2>13a, FinishEffect, ReturnMoves DEF AuditFails
  <2>14. CASE ReadFails(w, o)
    BY <2>14, FinishEffect, ReturnMoves DEF ReadFails
  <2>15. CASE AcquireLease(w, o)
    BY <2>15, GotoMoves, SetStatusEffect DEF AcquireLease, Statuses
  <2>16. CASE AcquireRefused(w, o)
    BY <2>16, ReturnMoves, FinishEffect DEF AcquireRefused
  <2>17. CASE ReloadLease(w, o)
    BY <2>17, GotoMoves, ReturnMoves DEF ReloadLease
  <2>18. CASE LookupCode(w, o)
    BY <2>18, GotoMoves DEF LookupCode
  <2>18a. CASE LookupFails(w, o)
    BY <2>18a, GotoMoves DEF LookupFails
  <2>19. CASE CreateCode(w, o)
    BY <2>19, GotoMoves DEF CreateCode
  <2>20. CASE Redeem(w, o)
    BY <2>20, GotoMoves DEF Redeem, UseCode
  <2>21. CASE RedeemFails(w, o)
    BY <2>21, GotoMoves DEF RedeemFails, UseCode
  <2>22. CASE AssignSubscription(w, o)
    BY <2>22, GotoMoves DEF AssignSubscription, Assign
  <2>23. CASE AssignFails(w, o)
    BY <2>23, GotoMoves DEF AssignFails, Assign
  <2>24. CASE ApplyRebate(w, o)
    BY <2>24, GotoMoves DEF ApplyRebate
  <2>25. CASE DeliveryFails(w, o)
    BY <2>25, GotoMoves DEF DeliveryFails
  <2>26. CASE MarkCompleted(w, o)
    BY <2>26, GotoMoves, SetStatusEffect, FinishEffect, ReturnMoves DEF MarkCompleted, Statuses
  <2>27. CASE MarkFailed(w, o)
    BY <2>27, ReturnMoves, SetStatusEffect DEF MarkFailed, Statuses
  <2> QED
    BY <1>1, <2>1, <2>2, <2>3, <2>4, <2>5, <2>6, <2>7, <2>8, <2>9, <2>10, <2>11, <2>12, <2>13, <2>13a, <2>14, <2>15, <2>16, <2>17, <2>18, <2>19, <2>20, <2>21, <2>22, <2>23, <2>24, <2>25, <2>26, <2>27, <2>18a DEF Step
<1>2. ASSUME NEW w \in Workers, NEW o \in Orders, Begin(w, o) PROVE CreationInv'
  <2>1. CASE CreateOrderInTx(w, o)
    BY <2>1, CreateOrderEffect, StartMoves DEF RowTyped
  <2>2. CASE Notify(w, o)
    BY <2>2, StartMoves DEF Notify
  <2>3. CASE VerifyOrder(w, o)
    BY <2>3, StartMoves DEF VerifyOrder
  <2>4. CASE CancelOrder(w, o)
    BY <2>4, StartMoves DEF CancelOrder
  <2>5. CASE ExpireOrder(w, o)
    BY <2>5, StartMoves DEF ExpireOrder
  <2>6. CASE RetryFulfillment(w, o)
    BY <2>6, StartMoves DEF RetryFulfillment
  <2> QED
    BY <1>2, <2>1, <2>2, <2>3, <2>4, <2>5, <2>6 DEF Begin
<1>3. ASSUME NEW o \in Orders, Environment(o) PROVE CreationInv'
  <2>1. CASE CustomerPays(o)
    BY <2>1, StayMoves DEF CustomerPays
  <2>2. CASE OrderDue(o)
    BY <2>2, StayMoves DEF OrderDue
  <2>3. CASE FiveMinutesPass(o)
    BY <2>3, StayMoves, FiveMinutesPassEffect DEF FiveMinutesPass, RowTyped
  <2>4. CASE RefundMoves(o)
    BY <2>4, SetStatusEffect, StayMoves DEF RefundMoves, Statuses, Settled
  <2> QED
    BY <1>3, <2>1, <2>2, <2>3, <2>4 DEF Environment
<1>4. ASSUME NEW w \in Workers, Crash(w) PROVE CreationInv'
  BY <1>4, ReturnMoves DEF Crash
<1>5. CASE UNCHANGED vars
  BY <1>5, StayMoves DEF vars
<1> QED
  BY <1>1, <1>2, <1>3, <1>4, <1>5 DEF Next

\* A delivery, and every status that leads to one, has a full payment behind it.
LEMMA PaidNext == TypeOK /\ CreationInv /\ PaidInv /\ [Next]_vars => PaidInv'
<1> SUFFICES ASSUME TypeOK, CreationInv, PaidInv, [Next]_vars PROVE PaidInv'
  OBVIOUS
<1> USE DEF TypeOK, Jobs, shop, Moves, CreationInv, PaidInv, PaidPoints, Points, Settled
<1>1. ASSUME NEW w \in Workers, NEW o \in Orders, Step(w, o) PROVE PaidInv'
  <2>1. CASE CreatePayment(w, o)
    BY <2>1, GotoMoves DEF CreatePayment
  <2>2. CASE SaveCharge(w, o)
    BY <2>2, ReturnMoves, SaveEffect DEF SaveCharge
  <2>3. CASE CreateFails(w, o)
    BY <2>3, ReturnMoves, SetStatusEffect DEF CreateFails, Statuses
  <2>4. CASE QueryPaid(w, o)
    BY <2>4, GotoMoves DEF QueryPaid
  <2>5. CASE QueryUnpaid(w, o)
    BY <2>5, GotoMoves, ReturnMoves DEF QueryUnpaid
  <2>6. CASE QueryFails(w, o)
    BY <2>6, GotoMoves, ReturnMoves DEF QueryFails
  <2>7. CASE CloseCharge(w, o)
    BY <2>7, GotoMoves DEF CloseCharge
  <2>8. CASE StampCancelled(w, o)
    BY <2>8, ReturnMoves, StampCancelledEffect DEF RowTyped
  <2>9. CASE PersistTradeNo(w, o)
    BY <2>9, GotoMoves, PersistTradeNoEffect DEF RowTyped
  <2>10. CASE RejectPayment(w, o)
    BY <2>10, ReturnMoves DEF RejectPayment
  <2>11. CASE ToPaid(w, o)
    BY <2>11, GotoMoves, ToPaidEffect DEF RowTyped
  <2>12. CASE NotToPaid(w, o)
    BY <2>12, GotoMoves DEF NotToPaid
  <2>13. CASE AlreadyProcessed(w, o)
    BY <2>13, GotoMoves, FinishEffect, ReturnMoves DEF AlreadyProcessed
  <2>13a. CASE AuditFails(w, o)
    BY <2>13a, FinishEffect, ReturnMoves DEF AuditFails
  <2>14. CASE ReadFails(w, o)
    BY <2>14, FinishEffect, ReturnMoves DEF ReadFails
  <2>15. CASE AcquireLease(w, o)
    BY <2>15, GotoMoves, SetStatusEffect DEF AcquireLease, Statuses
  <2>16. CASE AcquireRefused(w, o)
    BY <2>16, ReturnMoves, FinishEffect DEF AcquireRefused
  <2>17. CASE ReloadLease(w, o)
    BY <2>17, GotoMoves, ReturnMoves DEF ReloadLease
  <2>18. CASE LookupCode(w, o)
    BY <2>18, GotoMoves DEF LookupCode
  <2>18a. CASE LookupFails(w, o)
    BY <2>18a, GotoMoves DEF LookupFails
  <2>19. CASE CreateCode(w, o)
    BY <2>19, GotoMoves DEF CreateCode
  <2>20. CASE Redeem(w, o)
    BY <2>20, GotoMoves DEF Redeem, UseCode
  <2>21. CASE RedeemFails(w, o)
    BY <2>21, GotoMoves DEF RedeemFails, UseCode
  <2>22. CASE AssignSubscription(w, o)
    BY <2>22, GotoMoves DEF AssignSubscription, Assign
  <2>23. CASE AssignFails(w, o)
    BY <2>23, GotoMoves DEF AssignFails, Assign
  <2>24. CASE ApplyRebate(w, o)
    BY <2>24, GotoMoves DEF ApplyRebate
  <2>25. CASE DeliveryFails(w, o)
    BY <2>25, GotoMoves DEF DeliveryFails
  <2>26. CASE MarkCompleted(w, o)
    BY <2>26, GotoMoves, SetStatusEffect, FinishEffect, ReturnMoves DEF MarkCompleted, Statuses
  <2>27. CASE MarkFailed(w, o)
    BY <2>27, ReturnMoves, SetStatusEffect DEF MarkFailed, Statuses
  <2> QED
    BY <1>1, <2>1, <2>2, <2>3, <2>4, <2>5, <2>6, <2>7, <2>8, <2>9, <2>10, <2>11, <2>12, <2>13, <2>13a, <2>14, <2>15, <2>16, <2>17, <2>18, <2>19, <2>20, <2>21, <2>22, <2>23, <2>24, <2>25, <2>26, <2>27, <2>18a DEF Step
<1>2. ASSUME NEW w \in Workers, NEW o \in Orders, Begin(w, o) PROVE PaidInv'
  <2>1. CASE CreateOrderInTx(w, o)
    <3>1. /\ charge' = charge /\ credits' = credits
          /\ Start(w, o, "create", "invoke")
          /\ row'[o].status = "PENDING" /\ row'[o].paidAt = row[o].paidAt
          /\ \A q \in Orders : q # o => row'[q] = row[q]
      BY <2>1, CreateOrderEffect DEF RowTyped
    <3>2. Moves(w, o, {"invoke"})
      BY <3>1, StartMoves
    <3>3. \A q \in Orders : \A v \in Workers :
            /\ \A pt \in PaidPoints : At(v, q, pt)' => charge'[q] = "paid"
            /\ \A pt \in {"persist", "confirm"} : At(v, q, pt)' => charge'[q] \in {"paid", "mispaid"}
      BY <3>1, <3>2
    <3>4. \A q \in Orders :
            /\ row'[q].paidAt => charge'[q] = "paid"
            /\ row'[q].status \in {"PAID", "RECHARGING"} \cup Settled => charge'[q] = "paid"
            /\ credits'[q] > 0 => charge'[q] = "paid"
      BY <3>1
    <3> QED BY <3>3, <3>4
  <2>2. CASE Notify(w, o)
    BY <2>2, StartMoves DEF Notify
  <2>3. CASE VerifyOrder(w, o)
    BY <2>3, StartMoves DEF VerifyOrder
  <2>4. CASE CancelOrder(w, o)
    BY <2>4, StartMoves DEF CancelOrder
  <2>5. CASE ExpireOrder(w, o)
    BY <2>5, StartMoves DEF ExpireOrder
  <2>6. CASE RetryFulfillment(w, o)
    BY <2>6, StartMoves DEF RetryFulfillment
  <2> QED
    BY <1>2, <2>1, <2>2, <2>3, <2>4, <2>5, <2>6 DEF Begin
<1>3. ASSUME NEW o \in Orders, Environment(o) PROVE PaidInv'
  <2>1. CASE CustomerPays(o)
    BY <2>1, StayMoves DEF CustomerPays
  <2>2. CASE OrderDue(o)
    BY <2>2, StayMoves DEF OrderDue
  <2>3. CASE FiveMinutesPass(o)
    BY <2>3, StayMoves, FiveMinutesPassEffect DEF FiveMinutesPass, RowTyped
  <2>4. CASE RefundMoves(o)
    BY <2>4, SetStatusEffect, StayMoves DEF RefundMoves, Statuses, Settled
  <2> QED
    BY <1>3, <2>1, <2>2, <2>3, <2>4 DEF Environment
<1>4. ASSUME NEW w \in Workers, Crash(w) PROVE PaidInv'
  BY <1>4, ReturnMoves DEF Crash
<1>5. CASE UNCHANGED vars
  BY <1>5, StayMoves DEF vars
<1> QED
  BY <1>1, <1>2, <1>3, <1>4, <1>5 DEF Next

\* The code and the audit table account for every credit.
LEMMA LedgerNext == TypeOK /\ CreationInv /\ LedgerInv /\ [Next]_vars => LedgerInv'
<1> SUFFICES ASSUME TypeOK, CreationInv, LedgerInv, [Next]_vars PROVE LedgerInv'
  OBVIOUS
<1> USE DEF TypeOK, Jobs, shop, Moves, CreationInv, LedgerInv, Points, Settled
<1>1. ASSUME NEW w \in Workers, NEW o \in Orders, Step(w, o) PROVE LedgerInv'
  <2>1. CASE CreatePayment(w, o)
    BY <2>1, GotoMoves DEF CreatePayment
  <2>2. CASE SaveCharge(w, o)
    BY <2>2, ReturnMoves, SaveEffect DEF SaveCharge
  <2>3. CASE CreateFails(w, o)
    BY <2>3, ReturnMoves, SetStatusEffect DEF CreateFails, Statuses
  <2>4. CASE QueryPaid(w, o)
    BY <2>4, GotoMoves DEF QueryPaid
  <2>5. CASE QueryUnpaid(w, o)
    BY <2>5, GotoMoves, ReturnMoves DEF QueryUnpaid
  <2>6. CASE QueryFails(w, o)
    BY <2>6, GotoMoves, ReturnMoves DEF QueryFails
  <2>7. CASE CloseCharge(w, o)
    BY <2>7, GotoMoves DEF CloseCharge
  <2>8. CASE StampCancelled(w, o)
    BY <2>8, ReturnMoves, StampCancelledEffect DEF RowTyped
  <2>9. CASE PersistTradeNo(w, o)
    BY <2>9, GotoMoves, PersistTradeNoEffect DEF RowTyped
  <2>10. CASE RejectPayment(w, o)
    BY <2>10, ReturnMoves DEF RejectPayment
  <2>11. CASE ToPaid(w, o)
    BY <2>11, GotoMoves, ToPaidEffect DEF RowTyped
  <2>12. CASE NotToPaid(w, o)
    BY <2>12, GotoMoves DEF NotToPaid
  <2>13. CASE AlreadyProcessed(w, o)
    BY <2>13, GotoMoves, FinishEffect, ReturnMoves DEF AlreadyProcessed
  <2>13a. CASE AuditFails(w, o)
    BY <2>13a, FinishEffect, ReturnMoves DEF AuditFails
  <2>14. CASE ReadFails(w, o)
    BY <2>14, FinishEffect, ReturnMoves DEF ReadFails
  <2>15. CASE AcquireLease(w, o)
    BY <2>15, GotoMoves, SetStatusEffect DEF AcquireLease, Statuses
  <2>16. CASE AcquireRefused(w, o)
    BY <2>16, ReturnMoves, FinishEffect DEF AcquireRefused
  <2>17. CASE ReloadLease(w, o)
    BY <2>17, GotoMoves, ReturnMoves DEF ReloadLease
  <2>18. CASE LookupCode(w, o)
    BY <2>18, GotoMoves DEF LookupCode
  <2>18a. CASE LookupFails(w, o)
    BY <2>18a, GotoMoves DEF LookupFails
  <2>19. CASE CreateCode(w, o)
    BY <2>19, GotoMoves DEF CreateCode
  <2>20. CASE Redeem(w, o)
    BY <2>20, GotoMoves DEF Redeem, UseCode
  <2>21. CASE RedeemFails(w, o)
    BY <2>21, GotoMoves DEF RedeemFails, UseCode
  <2>22. CASE AssignSubscription(w, o)
    BY <2>22, GotoMoves DEF AssignSubscription, Assign
  <2>23. CASE AssignFails(w, o)
    BY <2>23, GotoMoves DEF AssignFails, Assign
  <2>24. CASE ApplyRebate(w, o)
    BY <2>24, GotoMoves DEF ApplyRebate
  <2>25. CASE DeliveryFails(w, o)
    BY <2>25, GotoMoves DEF DeliveryFails
  <2>26. CASE MarkCompleted(w, o)
    BY <2>26, GotoMoves, SetStatusEffect, FinishEffect, ReturnMoves DEF MarkCompleted, Statuses
  <2>27. CASE MarkFailed(w, o)
    <3>1. SetStatus(o, "FAILED") \/ UNCHANGED <<row, holders>>
      BY <2>27 DEF MarkFailed
    <3>2. /\ At(w, o, "fail")
          /\ Moves(w, o, {})
          /\ UNCHANGED <<code, credits, rebates, audit>>
      BY <2>27, ReturnMoves DEF MarkFailed
    <3>3. /\ \A q \in Orders : row'[q].type = row[q].type
          /\ \A q \in Orders : row'[q].status = "NEW" => row[q].status = "NEW"
      BY <3>1, SetStatusEffect DEF Statuses
    <3> QED BY <3>2, <3>3
  <2> QED
    BY <1>1, <2>1, <2>2, <2>3, <2>4, <2>5, <2>6, <2>7, <2>8, <2>9, <2>10, <2>11, <2>12, <2>13, <2>13a, <2>14, <2>15, <2>16, <2>17, <2>18, <2>19, <2>20, <2>21, <2>22, <2>23, <2>24, <2>25, <2>26, <2>27, <2>18a DEF Step
<1>2. ASSUME NEW w \in Workers, NEW o \in Orders, Begin(w, o) PROVE LedgerInv'
  <2>1. CASE CreateOrderInTx(w, o)
    BY <2>1, CreateOrderEffect, StartMoves DEF RowTyped
  <2>2. CASE Notify(w, o)
    BY <2>2, StartMoves DEF Notify
  <2>3. CASE VerifyOrder(w, o)
    BY <2>3, StartMoves DEF VerifyOrder
  <2>4. CASE CancelOrder(w, o)
    BY <2>4, StartMoves DEF CancelOrder
  <2>5. CASE ExpireOrder(w, o)
    BY <2>5, StartMoves DEF ExpireOrder
  <2>6. CASE RetryFulfillment(w, o)
    BY <2>6, StartMoves DEF RetryFulfillment
  <2> QED
    BY <1>2, <2>1, <2>2, <2>3, <2>4, <2>5, <2>6 DEF Begin
<1>3. ASSUME NEW o \in Orders, Environment(o) PROVE LedgerInv'
  <2>1. CASE CustomerPays(o)
    BY <2>1, StayMoves DEF CustomerPays
  <2>2. CASE OrderDue(o)
    BY <2>2, StayMoves DEF OrderDue
  <2>3. CASE FiveMinutesPass(o)
    BY <2>3, StayMoves, FiveMinutesPassEffect DEF FiveMinutesPass, RowTyped
  <2>4. CASE RefundMoves(o)
    BY <2>4, SetStatusEffect, StayMoves DEF RefundMoves, Statuses, Settled
  <2> QED
    BY <1>3, <2>1, <2>2, <2>3, <2>4 DEF Environment
<1>4. ASSUME NEW w \in Workers, Crash(w) PROVE LedgerInv'
  BY <1>4, ReturnMoves DEF Crash
<1>5. CASE UNCHANGED vars
  BY <1>5, StayMoves DEF vars
<1> QED
  BY <1>1, <1>2, <1>3, <1>4, <1>5 DEF Next

\* Nothing is settled before it is delivered, nothing acknowledged before it is handled.
LEMMA DeliveryNext == TypeOK /\ CreationInv /\ PaidInv /\ LedgerInv /\ DeliveryInv /\ [Next]_vars => DeliveryInv'
<1> SUFFICES ASSUME TypeOK, CreationInv, PaidInv, LedgerInv, DeliveryInv, [Next]_vars PROVE DeliveryInv'
  OBVIOUS
<1> USE DEF TypeOK, Jobs, shop, Moves, CreationInv, PaidInv, LedgerInv, DeliveryInv, Delivered, PaidPoints, Settled
<1>1. ASSUME NEW w \in Workers, NEW o \in Orders, Step(w, o) PROVE DeliveryInv'
  <2>1. CASE CreatePayment(w, o)
    BY <2>1, GotoMoves DEF CreatePayment
  <2>2. CASE SaveCharge(w, o)
    BY <2>2, ReturnMoves, SaveEffect DEF SaveCharge
  <2>3. CASE CreateFails(w, o)
    BY <2>3, ReturnMoves, SetStatusEffect DEF CreateFails, Statuses
  <2>4. CASE QueryPaid(w, o)
    BY <2>4, GotoMoves DEF QueryPaid
  <2>5. CASE QueryUnpaid(w, o)
    BY <2>5, GotoMoves, ReturnMoves DEF QueryUnpaid
  <2>6. CASE QueryFails(w, o)
    BY <2>6, GotoMoves, ReturnMoves DEF QueryFails
  <2>7. CASE CloseCharge(w, o)
    BY <2>7, GotoMoves DEF CloseCharge
  <2>8. CASE StampCancelled(w, o)
    BY <2>8, ReturnMoves, StampCancelledEffect DEF RowTyped
  <2>9. CASE PersistTradeNo(w, o)
    BY <2>9, GotoMoves, PersistTradeNoEffect DEF RowTyped
  <2>10. CASE RejectPayment(w, o)
    BY <2>10, ReturnMoves DEF RejectPayment
  <2>11. CASE ToPaid(w, o)
    <3>1. /\ UNCHANGED <<credits, audit, acked>>
          /\ CanBePaid(o)
          /\ row'[o].status = "PAID"
          /\ \A q \in Orders : q # o => row'[q] = row[q]
      BY <2>11, ToPaidEffect DEF RowTyped
    <3>2. Moves(w, o, {"fulfil"})
      BY <2>11, ToPaidEffect, GotoMoves DEF RowTyped
    <3>3. row[o].status \notin Settled
      BY <3>1 DEF CanBePaid
    <3>4. \A q \in Orders : row'[q].status \in Settled => Delivered(q)'
      BY <3>1
    <3>5. \A q \in Orders : acked'[q] = "handled" =>
            row'[q].status \in Settled \/ "PAYMENT_AFTER_EXPIRY" \in audit'[q]
      BY <3>1, <3>3
    <3>6. \A q \in Orders, v \in Workers :
            /\ At(v, q, "rebate")' => credits'[q] = 1
            /\ At(v, q, "complete")' => Delivered(q)'
            /\ At(v, q, "recheck")' => row'[q].status \notin {"NEW", "PENDING", "CANCELLED"}
      BY <3>1, <3>2
    <3> QED BY <3>4, <3>5, <3>6
  <2>12. CASE NotToPaid(w, o)
    BY <2>12, GotoMoves DEF NotToPaid, CanBePaid
  <2>13. CASE AlreadyProcessed(w, o)
    <3>1. /\ At(w, o, "recheck")
          /\ UNCHANGED <<row, credits>>
          /\ \A q \in Orders : audit[q] \subseteq audit'[q]
          /\ row[o].status = "EXPIRED" => "PAYMENT_AFTER_EXPIRY" \in audit'[o]
      BY <2>13 DEF AlreadyProcessed
    <3>2. CASE row[o].status \in {"FAILED", "PAID", "RECHARGING"}
      <4>1. Moves(w, o, {"fulfil"}) /\ UNCHANGED acked
        BY <2>13, <3>2, GotoMoves DEF AlreadyProcessed
      <4> QED BY <3>1, <4>1
    <3>3. CASE row[o].status \notin {"FAILED", "PAID", "RECHARGING"}
      <4>1. Finish(w, o, "handled")
        BY <2>13, <3>3 DEF AlreadyProcessed
      <4>2. /\ Moves(w, o, {})
            /\ acked'[o] \in {acked[o], "handled"}
            /\ \A q \in Orders : q # o => acked'[q] = acked[q]
        BY <4>1, FinishEffect, ReturnMoves
      <4>3. row[o].status \in Settled \/ row[o].status = "EXPIRED"
        BY <3>1, <3>3 DEF Row, Statuses
      <4> QED BY <3>1, <4>2, <4>3
    <3> QED BY <3>2, <3>3
  <2>13a. CASE AuditFails(w, o)
    BY <2>13a, FinishEffect, ReturnMoves DEF AuditFails
  <2>14. CASE ReadFails(w, o)
    BY <2>14, FinishEffect, ReturnMoves DEF ReadFails
  <2>15. CASE AcquireLease(w, o)
    BY <2>15, GotoMoves, SetStatusEffect DEF AcquireLease, Statuses, Leasable
  <2>16. CASE AcquireRefused(w, o)
    BY <2>16, ReturnMoves, FinishEffect DEF AcquireRefused, Leasable
  <2>17. CASE ReloadLease(w, o)
    BY <2>17, GotoMoves, ReturnMoves DEF ReloadLease
  <2>18. CASE LookupCode(w, o)
    BY <2>18, GotoMoves DEF LookupCode
  <2>18a. CASE LookupFails(w, o)
    BY <2>18a, GotoMoves DEF LookupFails
  <2>19. CASE CreateCode(w, o)
    BY <2>19, GotoMoves DEF CreateCode
  <2>20. CASE Redeem(w, o)
    BY <2>20, GotoMoves DEF Redeem, UseCode
  <2>21. CASE RedeemFails(w, o)
    BY <2>21, GotoMoves DEF RedeemFails, UseCode
  <2>22. CASE AssignSubscription(w, o)
    BY <2>22, GotoMoves DEF AssignSubscription, Assign
  <2>23. CASE AssignFails(w, o)
    BY <2>23, GotoMoves DEF AssignFails, Assign
  <2>24. CASE ApplyRebate(w, o)
    BY <2>24, GotoMoves DEF ApplyRebate
  <2>25. CASE DeliveryFails(w, o)
    BY <2>25, GotoMoves DEF DeliveryFails
  <2>26. CASE MarkCompleted(w, o)
    BY <2>26, GotoMoves, SetStatusEffect, FinishEffect, ReturnMoves DEF MarkCompleted, Statuses, HoldsLease
  <2>27. CASE MarkFailed(w, o)
    BY <2>27, ReturnMoves, SetStatusEffect DEF MarkFailed, Statuses, HoldsLease
  <2> QED
    BY <1>1, <2>1, <2>2, <2>3, <2>4, <2>5, <2>6, <2>7, <2>8, <2>9, <2>10, <2>11, <2>12, <2>13, <2>13a, <2>14, <2>15, <2>16, <2>17, <2>18, <2>19, <2>20, <2>21, <2>22, <2>23, <2>24, <2>25, <2>26, <2>27, <2>18a DEF Step
<1>2. ASSUME NEW w \in Workers, NEW o \in Orders, Begin(w, o) PROVE DeliveryInv'
  <2>1. CASE CreateOrderInTx(w, o)
    BY <2>1, CreateOrderEffect, StartMoves DEF RowTyped
  <2>2. CASE Notify(w, o)
    BY <2>2, StartMoves DEF Notify
  <2>3. CASE VerifyOrder(w, o)
    BY <2>3, StartMoves DEF VerifyOrder
  <2>4. CASE CancelOrder(w, o)
    BY <2>4, StartMoves DEF CancelOrder
  <2>5. CASE ExpireOrder(w, o)
    BY <2>5, StartMoves DEF ExpireOrder
  <2>6. CASE RetryFulfillment(w, o)
    BY <2>6, StartMoves DEF RetryFulfillment
  <2> QED
    BY <1>2, <2>1, <2>2, <2>3, <2>4, <2>5, <2>6 DEF Begin
<1>3. ASSUME NEW o \in Orders, Environment(o) PROVE DeliveryInv'
  <2>1. CASE CustomerPays(o)
    BY <2>1, StayMoves DEF CustomerPays
  <2>2. CASE OrderDue(o)
    BY <2>2, StayMoves DEF OrderDue
  <2>3. CASE FiveMinutesPass(o)
    BY <2>3, StayMoves, FiveMinutesPassEffect DEF FiveMinutesPass, RowTyped
  <2>4. CASE RefundMoves(o)
    BY <2>4, SetStatusEffect, StayMoves DEF RefundMoves, Statuses, Settled
  <2> QED
    BY <1>3, <2>1, <2>2, <2>3, <2>4 DEF Environment
<1>4. ASSUME NEW w \in Workers, Crash(w) PROVE DeliveryInv'
  BY <1>4, ReturnMoves DEF Crash
<1>5. CASE UNCHANGED vars
  BY <1>5, StayMoves DEF vars
<1> QED
  BY <1>1, <1>2, <1>3, <1>4, <1>5 DEF Next

-----------------------------------------------------------------------------
(* What a step does to the status *)

SettledStays ==
  \A o \in Orders : row[o].status \in Settled => row'[o].status \in Settled

\* No action moves a settled order back into the fulfilment flow.
LEMMA SettledNext == TypeOK /\ CreationInv /\ PaidInv /\ [Next]_vars => SettledStays
<1> SUFFICES ASSUME TypeOK, CreationInv, PaidInv, [Next]_vars PROVE SettledStays
  OBVIOUS
<1> USE DEF TypeOK, Jobs, shop, SettledStays, CreationInv, PaidInv, Settled
<1>1. ASSUME NEW w \in Workers, NEW o \in Orders, Step(w, o) PROVE SettledStays
  <2>1. CASE CreatePayment(w, o)
    BY <2>1 DEF CreatePayment
  <2>2. CASE SaveCharge(w, o)
    BY <2>2, SaveEffect DEF SaveCharge
  <2>3. CASE CreateFails(w, o)
    BY <2>3, SetStatusEffect DEF CreateFails, Statuses
  <2>4. CASE QueryPaid(w, o)
    BY <2>4 DEF QueryPaid
  <2>5. CASE QueryUnpaid(w, o)
    BY <2>5 DEF QueryUnpaid
  <2>6. CASE QueryFails(w, o)
    BY <2>6 DEF QueryFails
  <2>7. CASE CloseCharge(w, o)
    BY <2>7 DEF CloseCharge
  <2>8. CASE StampCancelled(w, o)
    BY <2>8, StampCancelledEffect DEF RowTyped
  <2>9. CASE PersistTradeNo(w, o)
    BY <2>9, PersistTradeNoEffect DEF RowTyped
  <2>10. CASE RejectPayment(w, o)
    BY <2>10 DEF RejectPayment
  <2>11. CASE ToPaid(w, o)
    BY <2>11, ToPaidEffect DEF RowTyped, CanBePaid
  <2>12. CASE NotToPaid(w, o)
    BY <2>12 DEF NotToPaid, CanBePaid
  <2>13. CASE AlreadyProcessed(w, o)
    BY <2>13 DEF AlreadyProcessed
  <2>13a. CASE AuditFails(w, o)
    BY <2>13a DEF AuditFails
  <2>14. CASE ReadFails(w, o)
    BY <2>14 DEF ReadFails
  <2>15. CASE AcquireLease(w, o)
    BY <2>15, SetStatusEffect DEF AcquireLease, Statuses, Leasable
  <2>16. CASE AcquireRefused(w, o)
    BY <2>16 DEF AcquireRefused, Leasable
  <2>17. CASE ReloadLease(w, o)
    BY <2>17 DEF ReloadLease
  <2>18. CASE LookupCode(w, o)
    BY <2>18 DEF LookupCode
  <2>18a. CASE LookupFails(w, o)
    BY <2>18a DEF LookupFails
  <2>19. CASE CreateCode(w, o)
    BY <2>19 DEF CreateCode
  <2>20. CASE Redeem(w, o)
    BY <2>20 DEF Redeem, UseCode
  <2>21. CASE RedeemFails(w, o)
    BY <2>21 DEF RedeemFails, UseCode
  <2>22. CASE AssignSubscription(w, o)
    BY <2>22 DEF AssignSubscription, Assign
  <2>23. CASE AssignFails(w, o)
    BY <2>23 DEF AssignFails, Assign
  <2>24. CASE ApplyRebate(w, o)
    BY <2>24 DEF ApplyRebate
  <2>25. CASE DeliveryFails(w, o)
    BY <2>25 DEF DeliveryFails
  <2>26. CASE MarkCompleted(w, o)
    BY <2>26, SetStatusEffect DEF MarkCompleted, Statuses, HoldsLease
  <2>27. CASE MarkFailed(w, o)
    BY <2>27, SetStatusEffect DEF MarkFailed, Statuses, HoldsLease
  <2> QED
    BY <1>1, <2>1, <2>2, <2>3, <2>4, <2>5, <2>6, <2>7, <2>8, <2>9, <2>10, <2>11, <2>12, <2>13, <2>13a, <2>14, <2>15, <2>16, <2>17, <2>18, <2>19, <2>20, <2>21, <2>22, <2>23, <2>24, <2>25, <2>26, <2>27, <2>18a DEF Step
<1>2. ASSUME NEW w \in Workers, NEW o \in Orders, Begin(w, o) PROVE SettledStays
  <2>1. CASE CreateOrderInTx(w, o)
    BY <2>1, CreateOrderEffect DEF RowTyped
  <2>2. CASE Notify(w, o)
    BY <2>2 DEF Notify
  <2>3. CASE VerifyOrder(w, o)
    BY <2>3 DEF VerifyOrder
  <2>4. CASE CancelOrder(w, o)
    BY <2>4 DEF CancelOrder
  <2>5. CASE ExpireOrder(w, o)
    BY <2>5 DEF ExpireOrder
  <2>6. CASE RetryFulfillment(w, o)
    BY <2>6 DEF RetryFulfillment
  <2> QED
    BY <1>2, <2>1, <2>2, <2>3, <2>4, <2>5, <2>6 DEF Begin
<1>3. ASSUME NEW o \in Orders, Environment(o) PROVE SettledStays
  <2>1. CASE CustomerPays(o)
    BY <2>1 DEF CustomerPays
  <2>2. CASE OrderDue(o)
    BY <2>2 DEF OrderDue
  <2>3. CASE FiveMinutesPass(o)
    BY <2>3, FiveMinutesPassEffect DEF FiveMinutesPass, RowTyped
  <2>4. CASE RefundMoves(o)
    <3>1. PICK s \in Settled : row[o].status \in Settled /\ SetStatus(o, s)
      BY <2>4 DEF RefundMoves
    <3>2. s \in Statuses
      BY <3>1 DEF Settled, Statuses
    <3> QED BY <3>1, <3>2, SetStatusEffect
  <2> QED
    BY <1>3, <2>1, <2>2, <2>3, <2>4 DEF Environment
<1>4. ASSUME NEW w \in Workers, Crash(w) PROVE SettledStays
  BY <1>4 DEF Crash
<1>5. CASE UNCHANGED vars
  BY <1>5 DEF vars
<1> QED
  BY <1>1, <1>2, <1>3, <1>4, <1>5 DEF Next

HolderFinishes ==
  \A o \in Orders :
    (row[o].status = "RECHARGING" /\ row'[o].status # "RECHARGING") =>
      \E w \in holders[o] : At(w, o, "complete") \/ At(w, o, "fail")

\* Only MarkCompleted and MarkFailed of a lease holder end RECHARGING.
LEMMA HolderNext == TypeOK /\ CreationInv /\ PaidInv /\ [Next]_vars => HolderFinishes
<1> SUFFICES ASSUME TypeOK, CreationInv, PaidInv, [Next]_vars PROVE HolderFinishes
  OBVIOUS
<1> USE DEF TypeOK, Jobs, shop, HolderFinishes, CreationInv, PaidInv, Settled
<1>1. ASSUME NEW w \in Workers, NEW o \in Orders, Step(w, o) PROVE HolderFinishes
  <2>1. CASE CreatePayment(w, o)
    BY <2>1 DEF CreatePayment
  <2>2. CASE SaveCharge(w, o)
    BY <2>2, SaveEffect DEF SaveCharge
  <2>3. CASE CreateFails(w, o)
    BY <2>3, SetStatusEffect DEF CreateFails, Statuses
  <2>4. CASE QueryPaid(w, o)
    BY <2>4 DEF QueryPaid
  <2>5. CASE QueryUnpaid(w, o)
    BY <2>5 DEF QueryUnpaid
  <2>6. CASE QueryFails(w, o)
    BY <2>6 DEF QueryFails
  <2>7. CASE CloseCharge(w, o)
    BY <2>7 DEF CloseCharge
  <2>8. CASE StampCancelled(w, o)
    BY <2>8, StampCancelledEffect DEF RowTyped
  <2>9. CASE PersistTradeNo(w, o)
    BY <2>9, PersistTradeNoEffect DEF RowTyped
  <2>10. CASE RejectPayment(w, o)
    BY <2>10 DEF RejectPayment
  <2>11. CASE ToPaid(w, o)
    BY <2>11, ToPaidEffect DEF RowTyped, CanBePaid
  <2>12. CASE NotToPaid(w, o)
    BY <2>12 DEF NotToPaid, CanBePaid
  <2>13. CASE AlreadyProcessed(w, o)
    BY <2>13 DEF AlreadyProcessed
  <2>13a. CASE AuditFails(w, o)
    BY <2>13a DEF AuditFails
  <2>14. CASE ReadFails(w, o)
    BY <2>14 DEF ReadFails
  <2>15. CASE AcquireLease(w, o)
    BY <2>15, SetStatusEffect DEF AcquireLease, Statuses, Leasable
  <2>16. CASE AcquireRefused(w, o)
    BY <2>16 DEF AcquireRefused, Leasable
  <2>17. CASE ReloadLease(w, o)
    BY <2>17 DEF ReloadLease
  <2>18. CASE LookupCode(w, o)
    BY <2>18 DEF LookupCode
  <2>18a. CASE LookupFails(w, o)
    BY <2>18a DEF LookupFails
  <2>19. CASE CreateCode(w, o)
    BY <2>19 DEF CreateCode
  <2>20. CASE Redeem(w, o)
    BY <2>20 DEF Redeem, UseCode
  <2>21. CASE RedeemFails(w, o)
    BY <2>21 DEF RedeemFails, UseCode
  <2>22. CASE AssignSubscription(w, o)
    BY <2>22 DEF AssignSubscription, Assign
  <2>23. CASE AssignFails(w, o)
    BY <2>23 DEF AssignFails, Assign
  <2>24. CASE ApplyRebate(w, o)
    BY <2>24 DEF ApplyRebate
  <2>25. CASE DeliveryFails(w, o)
    BY <2>25 DEF DeliveryFails
  <2>26. CASE MarkCompleted(w, o)
    <3>1. CASE HoldsLease(w, o)
      <4>1. w \in holders[o] /\ At(w, o, "complete") /\ SetStatus(o, "COMPLETED")
        BY <2>26, <3>1 DEF MarkCompleted, HoldsLease
      <4> QED BY <4>1, SetStatusEffect DEF Statuses
    <3>2. CASE ~HoldsLease(w, o)
      BY <2>26, <3>2 DEF MarkCompleted
    <3> QED BY <3>1, <3>2
  <2>27. CASE MarkFailed(w, o)
    BY <2>27, SetStatusEffect DEF MarkFailed, Statuses, HoldsLease
  <2> QED
    BY <1>1, <2>1, <2>2, <2>3, <2>4, <2>5, <2>6, <2>7, <2>8, <2>9, <2>10, <2>11, <2>12, <2>13, <2>13a, <2>14, <2>15, <2>16, <2>17, <2>18, <2>19, <2>20, <2>21, <2>22, <2>23, <2>24, <2>25, <2>26, <2>27, <2>18a DEF Step
<1>2. ASSUME NEW w \in Workers, NEW o \in Orders, Begin(w, o) PROVE HolderFinishes
  <2>1. CASE CreateOrderInTx(w, o)
    BY <2>1, CreateOrderEffect DEF RowTyped
  <2>2. CASE Notify(w, o)
    BY <2>2 DEF Notify
  <2>3. CASE VerifyOrder(w, o)
    BY <2>3 DEF VerifyOrder
  <2>4. CASE CancelOrder(w, o)
    BY <2>4 DEF CancelOrder
  <2>5. CASE ExpireOrder(w, o)
    BY <2>5 DEF ExpireOrder
  <2>6. CASE RetryFulfillment(w, o)
    BY <2>6 DEF RetryFulfillment
  <2> QED
    BY <1>2, <2>1, <2>2, <2>3, <2>4, <2>5, <2>6 DEF Begin
<1>3. ASSUME NEW o \in Orders, Environment(o) PROVE HolderFinishes
  <2>1. CASE CustomerPays(o)
    BY <2>1 DEF CustomerPays
  <2>2. CASE OrderDue(o)
    BY <2>2 DEF OrderDue
  <2>3. CASE FiveMinutesPass(o)
    BY <2>3, FiveMinutesPassEffect DEF FiveMinutesPass, RowTyped
  <2>4. CASE RefundMoves(o)
    <3>1. PICK s \in Settled : row[o].status \in Settled /\ SetStatus(o, s)
      BY <2>4 DEF RefundMoves
    <3>2. s \in Statuses
      BY <3>1 DEF Settled, Statuses
    <3> QED BY <3>1, <3>2, SetStatusEffect
  <2> QED
    BY <1>3, <2>1, <2>2, <2>3, <2>4 DEF Environment
<1>4. ASSUME NEW w \in Workers, Crash(w) PROVE HolderFinishes
  BY <1>4 DEF Crash
<1>5. CASE UNCHANGED vars
  BY <1>5 DEF vars
<1> QED
  BY <1>1, <1>2, <1>3, <1>4, <1>5 DEF Next

-----------------------------------------------------------------------------
(* The theorems *)

\* The initial state satisfies every part.
LEMMA InitIInv == Init => IInv
<1> SUFFICES ASSUME Init PROVE IInv
  OBVIOUS
<1>1. TypeOK
  BY TypeInit
<1>2. CreationInv
  BY ConstantsAssumption DEF Init, CreationInv, Creating, At
<1>3. PaidInv
  BY DEF Init, PaidInv, At, Settled
<1>4. LedgerInv
  BY DEF Init, LedgerInv, At
<1>5. DeliveryInv
  BY DEF Init, DeliveryInv, At, Settled
<1> QED BY <1>1, <1>2, <1>3, <1>4, <1>5 DEF IInv

\* Every variable stays in its range, for every reachable state.
THEOREM TypeCorrect == Spec => []TypeOK
<1>1. Init => TypeOK
  BY TypeInit
<1>2. TypeOK /\ [Next]_vars => TypeOK'
  BY TypeNext
<1> QED BY <1>1, <1>2, PTL DEF Spec

\* The strengthening of all the safety invariants is inductive.
THEOREM Invariance == Spec => []IInv
<1>1. Init => IInv
  BY InitIInv
<1>2. IInv /\ [Next]_vars => IInv'
  BY TypeNext, CreationNext, PaidNext, LedgerNext, DeliveryNext DEF IInv
<1> QED BY <1>1, <1>2, PTL DEF Spec

\* However often an order is notified, retried or abandoned, it is credited once.
THEOREM CreditedOnce == Spec => []CreditedAtMostOnce
<1>1. IInv => CreditedAtMostOnce
  BY DEF IInv, LedgerInv, CreditedAtMostOnce
<1> QED BY <1>1, Invariance, PTL

\* Nothing is delivered that was not paid in full.
THEOREM CreditedWhenPaid == Spec => []CreditedOnlyIfPaid
<1>1. IInv => CreditedOnlyIfPaid
  BY DEF IInv, PaidInv, CreditedOnlyIfPaid
<1> QED BY <1>1, Invariance, PTL

\* A completed order was delivered and its rebate settled.
THEOREM CompletedWasDelivered == Spec => []CompletedMeansDelivered
<1>1. IInv => CompletedMeansDelivered
  BY DEF IInv, DeliveryInv, Delivered, CompletedMeansDelivered
<1> QED BY <1>1, Invariance, PTL

\* A notification is not acknowledged before the payment is handled.
THEOREM AckedWasHandled == Spec => []AckedMeansHandled
<1>1. IInv => AckedMeansHandled
  BY DEF IInv, DeliveryInv, AckedMeansHandled
<1> QED BY <1>1, Invariance, PTL

\* A settled order stays settled.
THEOREM SettledForGood == Spec => SettledIsFinal
<1>1. IInv /\ [Next]_vars => [SettledStays]_vars
  BY SettledNext DEF IInv
<1> QED BY <1>1, Invariance, PTL DEF Spec, SettledIsFinal, SettledStays

\* A stale lease holder never decides the outcome of a fulfilment.
THEOREM HolderDecides == Spec => OnlyHolderFinishes
<1>1. IInv /\ [Next]_vars => [HolderFinishes]_vars
  BY HolderNext DEF IInv
<1> QED BY <1>1, Invariance, PTL DEF Spec, OnlyHolderFinishes, HolderFinishes
=============================================================================
