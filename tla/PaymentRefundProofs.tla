------------------------ MODULE PaymentRefundProofs ------------------------
(***************************************************************************)
(* Machine-checked proofs about PaymentRefund, for any amount and any      *)
(* number of workers, roles and faults.                                    *)
(***************************************************************************)
EXTENDS PaymentRefund, FiniteSetTheorems, TLAPS

-----------------------------------------------------------------------------
(* The inductive invariant *)

\* An order is pending with the amount of the refund that is.
PendingHasAmount == status = "REFUND_PENDING" => refundAmount \in 1..Amount

\* Whoever is about to write a refunded status has seen a refund of the provider.
SuccessWasSeen ==
  \A w \in Workers :
    At(w, "markOk") \/ At(w, "finalizeOk") => \E a \in 1..Amount : gw[a] = "done"

BaseInv == TypeOK /\ PendingHasAmount /\ SuccessWasSeen /\ RefundedMeansReturned

\* The points of a call that has deducted and has not answered for it.
HeldPoints == {"gateway", "undo", "undoPending", "markOk"}

\* A call holds what its plan says it deducted, between the deduction and the
\* roll-back or the mark; everywhere else it holds nothing.
MoneyKnown(w) ==
  /\ job[w] = Idle \/ job[w].at \notin HeldPoints => held[w] = 0
  /\ job[w] # Idle => /\ job[w].toDeduct <= job[w].amount
                      /\ job[w].at \in HeldPoints => held[w] = job[w].toDeduct

MoneyInv == taken >= 0 /\ stuck >= 0 /\ \A w \in Workers : MoneyKnown(w)

\* REFUNDING is the lock.
ClaimIsLock ==
  /\ \A v, w \in Holding : v = w
  /\ Holding # {} => status = "REFUNDING"

\* What the order says of the money that was deducted for good.
OrderKnows ==
  /\ Holding # {} \/ status \notin Refunded \cup {"REFUNDING"} => taken = 0
  /\ status \in Refunded => taken <= refundAmount

\* Once the late failure of a pending refund is written over a refund that was
\* claimed or made meanwhile, nothing is said of the lock and of the order.
LockInv == ~overwritten => ClaimIsLock /\ OrderKnows

IInv == BaseInv /\ MoneyInv /\ LockInv

-----------------------------------------------------------------------------
(* What the helpers do to the jobs *)

Jobs == [Workers -> Job \cup {Idle}]

Others(w) == \A v \in Workers : v # w => job'[v] = job[v]

\* The call of w has returned.
Ended(w) == job' \in Jobs /\ job'[w] = Idle /\ Others(w)

\* The plan of w is as it was, at another point.
Moved(w, p) ==
  /\ job' \in Jobs /\ Others(w)
  /\ job[w] # Idle /\ job'[w] # Idle /\ job'[w].at = p
  /\ job'[w].amount = job[w].amount /\ job'[w].toDeduct = job[w].toDeduct

\* w has a plan, at a point, with an amount to deduct.
Planned(w, p, d) ==
  /\ job' \in Jobs /\ Others(w)
  /\ job'[w] # Idle /\ job'[w].at = p /\ job'[w].toDeduct = d

\* w holds that much of the balance now, the others what they held.
Holds(w, h) ==
  /\ held' \in [Workers -> Int] /\ held'[w] = h
  /\ \A v \in Workers : v # w => held'[v] = held[v]

LEMMA ReturnEffect ==
  ASSUME job \in Jobs, NEW w \in Workers, Return(w)
  PROVE  Ended(w)
BY DEF Return, Jobs, Ended, Others

LEMMA GotoEffect ==
  ASSUME job \in Jobs, NEW w \in Workers, job[w] # Idle, NEW p \in Points, Goto(w, p)
  PROVE  Moved(w, p)
<1> DEFINE j == [job[w] EXCEPT !.at = p]
<1>1. j \in Job /\ j.at = p /\ j.amount = job[w].amount /\ j.toDeduct = job[w].toDeduct
  BY DEF Jobs, Job
<1>2. job' = [job EXCEPT ![w] = j]
  BY DEF Goto
<1> HIDE DEF j
<1> QED BY <1>1, <1>2, ConstantsAssumption DEF Jobs, Moved, Others

LEMMA StartEffect ==
  ASSUME job \in Jobs, NEW w \in Workers, NEW kind, NEW j \in Job, Start(w, kind, j)
  PROVE  /\ Planned(w, j.at, j.toDeduct)
         /\ kind \in Role[w] /\ job[w] = Idle /\ job'[w].amount = j.amount
BY ConstantsAssumption DEF Start, Jobs, Planned, Others

\* A plan that moves on with another amount to deduct.
LEMMA PlanEffect ==
  ASSUME job \in Jobs, NEW w \in Workers, job[w] # Idle, NEW p \in Points,
         NEW d \in 0..Amount,
         job' = [job EXCEPT ![w].at = p, ![w].toDeduct = d]
  PROVE  Planned(w, p, d) /\ job'[w].amount = job[w].amount
<1> DEFINE k == [job[w] EXCEPT !.at = p]
           j == [k EXCEPT !.toDeduct = d]
<1>1. job' = [job EXCEPT ![w] = j]
  OBVIOUS
<1>2. k \in Job /\ k.at = p /\ k.amount = job[w].amount
  BY DEF Jobs, Job
<1> HIDE DEF k
<1>3. j \in Job /\ j.at = p /\ j.amount = job[w].amount /\ j.toDeduct = d
  BY <1>2 DEF Job
<1> HIDE DEF j
<1>4. job'[w] = j /\ Others(w)
  BY <1>1 DEF Jobs, Others
<1>5. job' \in Jobs
  BY <1>1, <1>3 DEF Jobs
<1>6. j # Idle
  BY <1>3, ConstantsAssumption
<1> QED BY <1>3, <1>4, <1>5, <1>6 DEF Planned

LEMMA RollbackEffect ==
  ASSUME job \in Jobs, NEW w \in Workers, job[w] # Idle, RollbackRefund(w)
  PROVE  /\ Planned(w, IF job[w].at = "undo" THEN "restore" ELSE "markPending", 0)
         /\ job'[w].amount = job[w].amount
<1>0. PICK b \in BOOLEAN : b = TRUE
  OBVIOUS
<1> DEFINE p == IF job[w].at = "undo" THEN "restore" ELSE "markPending"
           k == [job[w] EXCEPT !.rolledBack = b]
           j == [[k EXCEPT !.toDeduct = 0] EXCEPT !.at = p]
<1>1. p \in Points
  BY DEF Points
<1>2. job' = [job EXCEPT ![w] = j]
  BY <1>0 DEF RollbackRefund
<1> HIDE DEF p
<1>3. k \in Job /\ k.amount = job[w].amount /\ 0 \in 0..Amount
  BY ConstantsAssumption DEF Jobs, Job
<1> HIDE DEF k
<1>4. j \in Job /\ j.at = p /\ j.amount = job[w].amount /\ j.toDeduct = 0
  BY <1>1, <1>3 DEF Job
<1> HIDE DEF j
<1> QED BY <1>2, <1>4, ConstantsAssumption DEF p, Jobs, Planned, Others

\* What the provider says is one of its states.
LEMMA OutcomesTyped ==
  ASSUME gw \in [1..Amount -> GatewayStates], NEW a \in 1..Amount
  PROVE  /\ Outcomes(a) \subseteq GatewayStates
         /\ gw[a] = "done" => Outcomes(a) = {"done"}
BY DEF Outcomes, GatewayStates

LEMMA RefundedAsTyped ==
  ASSUME NEW a \in 1..Amount
  PROVE  RefundedAs(a) \in Refunded
BY DEF RefundedAs, Refunded

\* What is deducted is no more than what was asked for, and not less than 0.
LEMMA AvailableTyped ==
  ASSUME balance \in Int, NEW d \in Nat
  PROVE  Available(d) \in 0..d
BY DEF Available, LeastOf, GreatestOf

\* A deduction is held by the call that makes it.
LEMMA DeductEffect ==
  ASSUME BaseInv, NEW w \in Workers, At(w, "deduct"), NEW d \in 0..job[w].toDeduct,
         Deduct(w, d)
  PROVE  /\ UNCHANGED <<status, refundAmount, taken, stuck, trail, gw>>
         /\ balance' \in Int /\ Holds(w, d)
         /\ Planned(w, "gateway", d) /\ job'[w].amount = job[w].amount
<1>1. /\ job \in Jobs /\ job[w] # Idle /\ job[w].toDeduct \in 0..Amount
      /\ balance \in Int /\ held \in [Workers -> Int]
  BY DEF BaseInv, TypeOK, Jobs, At, Job
<1>2. d \in 0..Amount /\ d \in Int
  BY <1>1, ConstantsAssumption
<1>3. Planned(w, "gateway", d) /\ job'[w].amount = job[w].amount
  BY <1>1, <1>2, PlanEffect DEF Deduct, Points
<1>4. balance' \in Int /\ Holds(w, d)
  BY <1>1, <1>2 DEF Deduct, Holds
<1> QED BY <1>3, <1>4 DEF Deduct

\* What a call keeps is deducted for good, and no longer held.
LEMMA KeepEffect ==
  ASSUME taken \in Int, held \in [Workers -> Int], NEW w \in Workers, Keep(w)
  PROVE  /\ UNCHANGED <<balance, stuck>>
         /\ taken' \in Int /\ taken' = taken + held[w] /\ Holds(w, 0)
BY DEF Keep, Holds

\* A fault is counted.
LEMMA FaultTyped ==
  ASSUME faults \in 0..MaxFaults, Fault
  PROVE  faults' \in 0..MaxFaults
BY ConstantsAssumption DEF Fault

-----------------------------------------------------------------------------
(* What the actions do *)

\* The calls that begin, and what each begins with.
LEMMA BeginEffect ==
  ASSUME BaseInv, NEW w \in Workers, Begin(w)
  PROVE  /\ UNCHANGED <<status, refundAmount, money, trail, gw, faults>>
         /\ job[w] = Idle /\ job'[w].amount \in Nat
         /\ \E p \in {"submit", "prepDeduct", "claim", "query"} : Planned(w, p, 0)
<1> USE DEF BaseInv
<1>1. job \in Jobs /\ status \in Statuses /\ 0 \in 0..Amount
  BY ConstantsAssumption DEF TypeOK, Jobs
<1>2. CASE RequestRefund(w)
  <2> DEFINE j == [at |-> "submit", amount |-> Amount, toDeduct |-> 0,
                   rolledBack |-> FALSE, was |-> status]
  <2>1. j \in Job /\ j.at = "submit" /\ j.toDeduct = 0 /\ j.amount \in Nat
    BY <1>1, ConstantsAssumption DEF Job, Points
  <2>2. Start(w, "request", j)
    BY <1>2 DEF RequestRefund
  <2> HIDE DEF j
  <2> QED BY <1>1, <1>2, <2>1, <2>2, StartEffect DEF RequestRefund
<1>3. CASE PrepareRefund(w)
  <2>1. PICK amount \in 1..Amount, deduct \in BOOLEAN :
          Start(w, "refund", [at |-> IF deduct THEN "prepDeduct" ELSE "claim",
                              amount |-> amount, toDeduct |-> 0,
                              rolledBack |-> FALSE, was |-> status])
    BY <1>3 DEF PrepareRefund
  <2> DEFINE p == IF deduct THEN "prepDeduct" ELSE "claim"
             j == [at |-> p, amount |-> amount, toDeduct |-> 0,
                   rolledBack |-> FALSE, was |-> status]
  <2>2. p \in {"prepDeduct", "claim"}
    OBVIOUS
  <2>3. Start(w, "refund", j)
    BY <2>1
  <2> HIDE DEF p
  <2>4. j \in Job /\ j.at = p /\ j.toDeduct = 0 /\ j.amount \in Nat
    BY <1>1, <2>2, ConstantsAssumption DEF Job, Points
  <2> HIDE DEF j
  <2> QED BY <1>1, <1>3, <2>2, <2>3, <2>4, StartEffect DEF PrepareRefund
<1>4. CASE StartFinalize(w)
  <2> DEFINE j == [at |-> "query", amount |-> refundAmount, toDeduct |-> 0,
                   rolledBack |-> FALSE, was |-> status]
  <2>1. refundAmount \in 1..Amount
    BY <1>4 DEF StartFinalize, PendingHasAmount
  <2>2. j \in Job /\ j.at = "query" /\ j.toDeduct = 0 /\ j.amount \in Nat
    BY <1>1, <2>1, ConstantsAssumption DEF Job, Points
  <2>3. Start(w, "finalize", j)
    BY <1>4 DEF StartFinalize
  <2> HIDE DEF j
  <2> QED BY <1>1, <1>4, <2>2, <2>3, StartEffect DEF StartFinalize
<1> QED BY <1>2, <1>3, <1>4 DEF Begin

\* The preparation of a refund ends, or knows what to deduct.
LEMMA PrepDeductEffect ==
  ASSUME BaseInv, NEW w \in Workers, PrepDeduct(w) \/ PrepDeductBlind(w)
  PROVE  /\ UNCHANGED <<status, refundAmount, money, trail, gw>> /\ faults' \in 0..MaxFaults
         /\ At(w, "prepDeduct")
         /\ \/ Ended(w)
            \/ Moved(w, "claim")
            \/ \E d \in 0..Amount :
                 Planned(w, "claim", d) /\ job'[w].amount = job[w].amount /\ d <= job[w].amount
<1> USE DEF BaseInv
<1>1. /\ job \in Jobs /\ job[w] # Idle /\ job[w] \in Job /\ balance \in Int
      /\ faults \in 0..MaxFaults
  BY DEF TypeOK, Jobs, PrepDeduct, PrepDeductBlind, At
<1>2. CASE PrepDeduct(w)
  <2> DEFINE d == GreatestOf(0, LeastOf(job[w].amount, balance))
  <2>1. d \in 0..Amount /\ d <= job[w].amount
    BY <1>1, ConstantsAssumption DEF Job, GreatestOf, LeastOf
  <2>2. Return(w) \/ job' = [job EXCEPT ![w].at = "claim", ![w].toDeduct = d]
    BY <1>2 DEF PrepDeduct
  <2> HIDE DEF d
  <2> QED BY <1>1, <1>2, <2>1, <2>2, ReturnEffect, PlanEffect DEF PrepDeduct, Points
<1>3. CASE PrepDeductBlind(w)
  BY <1>1, <1>3, GotoEffect, FaultTyped DEF PrepDeductBlind, Points
<1> QED BY <1>2, <1>3

\* The deduction knows what it took.
LEMMA DeductionEffect ==
  ASSUME BaseInv, NEW w \in Workers, DeductBalance(w) \/ DeductAgain(w)
  PROVE  /\ UNCHANGED <<status, refundAmount, taken, stuck, trail, gw>>
         /\ faults' \in 0..MaxFaults
         /\ At(w, "deduct") /\ balance' \in Int
         /\ \E d \in 0..job[w].toDeduct :
              Holds(w, d) /\ Planned(w, "gateway", d) /\ job'[w].amount = job[w].amount
<1>1. /\ job[w] # Idle /\ job[w].toDeduct \in 0..Amount /\ balance \in Int
      /\ faults \in 0..MaxFaults /\ At(w, "deduct")
  BY DEF BaseInv, TypeOK, DeductBalance, DeductAgain, At, Job
<1>2. job[w].toDeduct \in Nat /\ 0 \in 0..job[w].toDeduct
  BY <1>1, ConstantsAssumption
<1>3. Available(job[w].toDeduct) \in 0..job[w].toDeduct
  BY <1>1, <1>2, AvailableTyped
<1>4. PICK d \in 0..job[w].toDeduct : Deduct(w, d)
  <2>1. CASE DeductBalance(w)
    BY <1>2, <1>3, <2>1 DEF DeductBalance
  <2>2. CASE DeductAgain(w)
    BY <1>3, <2>2 DEF DeductAgain
  <2> QED BY <2>1, <2>2
<1>5. faults' \in 0..MaxFaults
  BY <1>1, FaultTyped DEF DeductBalance, DeductAgain
<1> QED BY <1>1, <1>4, <1>5, DeductEffect

\* A deduction that fails, or whose answer is lost, is held by nobody.
LEMMA DeductFailsEffect ==
  ASSUME BaseInv, NEW w \in Workers, DeductFails(w)
  PROVE  /\ UNCHANGED <<status, refundAmount, held, taken, trail, gw>>
         /\ faults' \in 0..MaxFaults
         /\ At(w, "deduct") /\ Moved(w, "restore")
         /\ balance' \in Int /\ stuck' \in Int /\ stuck' >= stuck
<1>1. /\ job \in Jobs /\ job[w] # Idle /\ job[w].toDeduct \in 0..Amount
      /\ balance \in Int /\ stuck \in Int /\ faults \in 0..MaxFaults
  BY DEF BaseInv, TypeOK, Jobs, DeductFails, At, Job
<1>2. job[w].toDeduct \in Nat
  BY <1>1, ConstantsAssumption
<1>3. Available(job[w].toDeduct) \in 0..job[w].toDeduct
  BY <1>1, <1>2, AvailableTyped
<1>4. PICK amount \in Nat : balance' = balance - amount /\ stuck' = stuck + amount
  BY <1>2, <1>3 DEF DeductFails
<1>5. balance' \in Int /\ stuck' \in Int /\ stuck' >= stuck
  BY <1>1, <1>4
<1> QED BY <1>1, <1>5, GotoEffect, FaultTyped DEF DeductFails, Points

\* The provider refunds, or does not, and a refund that was made stays made.
LEMMA GatewayRefundEffect ==
  ASSUME BaseInv, NEW w \in Workers, GatewayRefund(w)
  PROVE  /\ UNCHANGED <<status, refundAmount, money, trail, faults>>
         /\ At(w, "gateway")
         /\ gw' \in [1..Amount -> GatewayStates]
         /\ \A a \in 1..Amount : gw[a] = "done" => gw'[a] = "done"
         /\ \/ Moved(w, "undo") \/ Moved(w, "undoPending")
            \/ Moved(w, "markOk") /\ \E a \in 1..Amount : gw'[a] = "done"
<1> USE DEF BaseInv
<1>1. /\ job \in Jobs /\ job[w] # Idle /\ job[w].amount \in 1..Amount
      /\ gw \in [1..Amount -> GatewayStates]
  BY DEF TypeOK, Jobs, GatewayRefund, At, Job
<1>2. PICK g \in Outcomes(job[w].amount) :
        /\ gw' = [gw EXCEPT ![job[w].amount] = g]
        /\ \/ g = "done" /\ Goto(w, "markOk")
           \/ g = "pending" /\ Goto(w, "undoPending")
           \/ Goto(w, "undo")
  BY DEF GatewayRefund
<1>3. g \in GatewayStates /\ (gw[job[w].amount] = "done" => g = "done")
  BY <1>1, OutcomesTyped
<1>4. gw' \in [1..Amount -> GatewayStates] /\ gw'[job[w].amount] = g
  BY <1>1, <1>2, <1>3
<1>5. \A a \in 1..Amount : gw[a] = "done" => gw'[a] = "done"
  BY <1>1, <1>2, <1>3
<1>6. \/ Moved(w, "undo") \/ Moved(w, "undoPending")
      \/ Moved(w, "markOk") /\ gw'[job[w].amount] = "done"
  BY <1>1, <1>2, <1>4, GotoEffect DEF Points
<1> QED BY <1>1, <1>4, <1>5, <1>6 DEF GatewayRefund

\* What a call holds when it is to roll back.
HoldsPlan(w) == held[w] = job[w].toDeduct

\* A roll-back gives back what was held.
LEMMA RollbackRefundEffect ==
  ASSUME BaseInv, NEW w \in Workers, RollbackRefund(w)
  PROVE  /\ UNCHANGED <<status, refundAmount, taken, stuck, trail, gw, faults>>
         /\ At(w, "undo") \/ At(w, "undoPending")
         /\ balance' \in Int /\ Holds(w, held[w] - job[w].toDeduct)
         /\ \E p \in {"restore", "markPending"} : Planned(w, p, 0)
         /\ job'[w].amount = job[w].amount
<1>1. /\ job \in Jobs /\ job[w] # Idle /\ job[w].toDeduct \in Int
      /\ balance \in Int /\ held \in [Workers -> Int]
  BY ConstantsAssumption DEF BaseInv, TypeOK, Jobs, RollbackRefund, At, Job
<1>2. balance' \in Int /\ Holds(w, held[w] - job[w].toDeduct)
  BY <1>1 DEF RollbackRefund, Holds
<1>3. /\ \E p \in {"restore", "markPending"} : Planned(w, p, 0)
      /\ job'[w].amount = job[w].amount
  BY <1>1, RollbackEffect
<1> QED BY <1>2, <1>3 DEF RollbackRefund

\* A roll-back that fails leaves what was held stuck, or nothing.
LEMMA RollbackFailsEffect ==
  ASSUME BaseInv, NEW w \in Workers, RollbackFails(w), HoldsPlan(w)
  PROVE  /\ UNCHANGED <<status, refundAmount, taken, pending, overwritten, gw>>
         /\ faults' \in 0..MaxFaults
         /\ At(w, "undo") \/ At(w, "undoPending")
         /\ Moved(w, "markFailed") \/ Moved(w, "markPending")
         /\ balance' \in Int /\ Holds(w, 0) /\ stuck' \in Int /\ stuck' >= stuck
         /\ audit' \subseteq {"REFUND_ROLLBACK_FAILED", "REFUND_SUCCESS"}
<1>1. /\ job \in Jobs /\ job[w] # Idle /\ job[w].toDeduct \in 0..Amount
      /\ balance \in Int /\ stuck \in Int /\ faults \in 0..MaxFaults
      /\ held \in [Workers -> Int]
      /\ audit \subseteq {"REFUND_ROLLBACK_FAILED", "REFUND_SUCCESS"}
  BY DEF BaseInv, TypeOK, Jobs, RollbackFails, At, Job
<1>2. PICK back \in {0, job[w].toDeduct} :
        balance' = balance + back /\ stuck' = stuck + held[w] - back
  BY DEF RollbackFails
<1>3. job[w].toDeduct \in Int /\ job[w].toDeduct >= 0
  BY <1>1, ConstantsAssumption
<1>4. balance' \in Int /\ stuck' \in Int /\ stuck' >= stuck
  BY <1>1, <1>2, <1>3 DEF HoldsPlan
<1>5. Holds(w, 0)
  BY <1>1 DEF RollbackFails, Holds
<1>6. Moved(w, "markFailed") \/ Moved(w, "markPending")
  BY <1>1, GotoEffect DEF RollbackFails, Points
<1>7. audit' \subseteq {"REFUND_ROLLBACK_FAILED", "REFUND_SUCCESS"}
  BY <1>1 DEF RollbackFails
<1> QED BY <1>1, <1>4, <1>5, <1>6, <1>7, FaultTyped DEF RollbackFails

\* The claim moves the order to REFUNDING, or ends.
LEMMA ClaimEffect ==
  ASSUME BaseInv, NEW w \in Workers, ClaimRefund(w)
  PROVE  /\ UNCHANGED <<refundAmount, money, trail, gw, faults>>
         /\ At(w, "claim")
         /\ \/ Ended(w) /\ status' = status
            \/ Moved(w, "deduct") /\ status \in Refundable /\ status' = "REFUNDING"
<1>1. job \in Jobs /\ job[w] # Idle
  BY DEF BaseInv, TypeOK, Jobs, ClaimRefund, At
<1> QED BY <1>1, ReturnEffect, GotoEffect DEF ClaimRefund, Points

LEMMA MarkPendingEffect ==
  ASSUME BaseInv, NEW w \in Workers, MarkRefundPending(w)
  PROVE  /\ UNCHANGED <<money, trail, gw, faults>>
         /\ At(w, "markPending") /\ Moved(w, "logPending")
         /\ status' = "REFUND_PENDING" /\ refundAmount' \in 1..Amount
<1>1. job \in Jobs /\ job[w] # Idle /\ job[w].amount \in 1..Amount
  BY DEF BaseInv, TypeOK, Jobs, MarkRefundPending, At, Job
<1> QED BY <1>1, GotoEffect DEF MarkRefundPending, Points

\* The mark of a refund keeps what was deducted.
LEMMA MarkOkEffect ==
  ASSUME BaseInv, NEW w \in Workers, MarkRefundOk(w)
  PROVE  /\ UNCHANGED <<balance, stuck, trail, gw, faults>>
         /\ At(w, "markOk") /\ Moved(w, "logOk")
         /\ status' \in Refunded
         /\ refundAmount' = job[w].amount /\ job[w].amount \in 1..Amount
         /\ taken' \in Int /\ taken' = taken + held[w] /\ Holds(w, 0)
<1>1. /\ job \in Jobs /\ job[w] # Idle /\ job[w].amount \in 1..Amount
      /\ taken \in Int /\ held \in [Workers -> Int]
  BY DEF BaseInv, TypeOK, Jobs, MarkRefundOk, At, Job
<1>2. Moved(w, "logOk")
  BY <1>1, GotoEffect DEF MarkRefundOk, Points
<1> QED BY <1>1, <1>2, KeepEffect, RefundedAsTyped DEF MarkRefundOk

\* A crash, or a write that fails, ends the call, and what it held is kept.
LEMMA FaultEffect ==
  ASSUME BaseInv, NEW w \in Workers, WriteFails(w) \/ Crash(w)
  PROVE  /\ UNCHANGED <<status, refundAmount, balance, stuck, trail, gw>>
         /\ faults' \in 0..MaxFaults
         /\ job[w] # Idle /\ Ended(w)
         /\ taken' \in Int /\ taken' = taken + held[w] /\ Holds(w, 0)
<1>1. /\ job \in Jobs /\ job[w] # Idle /\ faults \in 0..MaxFaults
      /\ taken \in Int /\ held \in [Workers -> Int]
  BY DEF BaseInv, TypeOK, Jobs, WriteFails, Crash, At
<1> QED BY <1>1, ReturnEffect, KeepEffect, FaultTyped DEF WriteFails, Crash

\* What a call that asks learns: it ends, or knows how the refund ended.
LEMMA AskEffect ==
  ASSUME BaseInv, NEW w \in Workers, At(w, "query"), NEW detail,
         detail.id \in 1..Amount, Ask(w, detail)
  PROVE  \/ Ended(w)
         \/ Moved(w, "finalizeFailed")
         \/ /\ \E d \in {0, job[w].amount} : Planned(w, "finalizeOk", d)
            /\ job'[w].amount = job[w].amount
            /\ \E a \in 1..Amount : gw[a] = "done"
<1>1. job \in Jobs /\ job[w] # Idle /\ job[w].amount \in 1..Amount
  BY DEF BaseInv, TypeOK, Jobs, At, Job
<1>2. CASE /\ gw[detail.id] = "done"
           /\ job' = [job EXCEPT ![w].at = "finalizeOk",
                        ![w].toDeduct = IF detail.rolledBack THEN job[w].amount ELSE 0]
  <2>1. PICK d \in {0, job[w].amount} :
          job' = [job EXCEPT ![w].at = "finalizeOk", ![w].toDeduct = d]
    BY <1>2
  <2>2. d \in 0..Amount
    BY <1>1, ConstantsAssumption
  <2> QED BY <1>1, <1>2, <2>1, <2>2, PlanEffect DEF Points
<1>3. CASE Goto(w, "finalizeFailed")
  BY <1>1, <1>3, GotoEffect DEF Points
<1>4. CASE Return(w)
  BY <1>1, <1>4, ReturnEffect
<1> QED BY <1>2, <1>3, <1>4 DEF Ask

LEMMA QueryRefundEffect ==
  ASSUME BaseInv, NEW w \in Workers, QueryRefund(w)
  PROVE  /\ UNCHANGED <<status, refundAmount, money, trail, gw>> /\ faults' \in 0..MaxFaults
         /\ At(w, "query")
         /\ \/ Ended(w)
            \/ Moved(w, "finalizeFailed")
            \/ /\ \E d \in {0, job[w].amount} : Planned(w, "finalizeOk", d)
               /\ job'[w].amount = job[w].amount
               /\ \E a \in 1..Amount : gw[a] = "done"
<1>1. /\ At(w, "query") /\ job[w] # Idle /\ job[w].amount \in 1..Amount
      /\ faults \in 0..MaxFaults
  BY DEF BaseInv, TypeOK, QueryRefund, At, Job
<1>2. NoDetail(w).id \in 1..Amount /\ PendingDetail(w).id \in 1..Amount
  BY <1>1 DEF NoDetail, PendingDetail, BaseInv, TypeOK, PendingAudit
<1>3. /\ Ask(w, PendingDetail(w)) \/ Ask(w, NoDetail(w))
      /\ faults' \in 0..MaxFaults
  BY <1>1, FaultTyped DEF QueryRefund
<1> QED BY <1>1, <1>2, <1>3, AskEffect DEF QueryRefund

\* The steps that end a call with a write to the order or to its audits.
Writes(w) ==
  \/ SubmitRequest(w) \/ RestoreStatus(w) \/ MarkRefundFailed(w) \/ LogRefundOk(w)
  \/ LogRefundPending(w) \/ FinalizeRefund(w)

\* What the finalization deducts is no more than the refund.
LEMMA FinalizeEffect ==
  ASSUME BaseInv, NEW w \in Workers, FinalizeRefund(w)
  PROVE  /\ UNCHANGED <<held, stuck, pending, overwritten, gw, faults>>
         /\ At(w, "finalizeOk")
         /\ balance' \in Int /\ taken' \in Int
         /\ \/ UNCHANGED <<status, refundAmount, taken, audit>>
            \/ /\ status = "REFUND_PENDING" /\ status' \in Refunded
               /\ refundAmount' = job[w].amount /\ job[w].amount \in 1..Amount
               /\ \E d \in 0..job[w].toDeduct : taken' = taken + d
               /\ audit' = audit \cup {"REFUND_SUCCESS"}
<1>1. /\ job[w] # Idle /\ job[w].amount \in 1..Amount /\ job[w].toDeduct \in Nat
      /\ balance \in Int /\ taken \in Int
  BY ConstantsAssumption DEF BaseInv, TypeOK, FinalizeRefund, At, Job
<1> DEFINE d == Available(job[w].toDeduct)
<1>2. d \in 0..job[w].toDeduct /\ d \in Int
  BY <1>1, AvailableTyped
<1>3. RefundedAs(job[w].amount) \in Refunded
  BY <1>1, RefundedAsTyped
<1>4. \/ UNCHANGED <<status, refundAmount, balance, taken, audit>>
      \/ /\ status = "REFUND_PENDING" /\ status' = RefundedAs(job[w].amount)
         /\ refundAmount' = job[w].amount
         /\ balance' = balance - d /\ taken' = taken + d
         /\ audit' = audit \cup {"REFUND_SUCCESS"}
  BY DEF FinalizeRefund
<1> HIDE DEF d
<1>5. balance' \in Int /\ taken' \in Int
  BY <1>1, <1>2, <1>4
<1> QED BY <1>1, <1>2, <1>3, <1>4, <1>5 DEF FinalizeRefund

\* The other writes: none touches the money or the provider.
LEMMA WritesEffect ==
  ASSUME BaseInv, NEW w \in Workers, Writes(w)
  PROVE  /\ Ended(w) /\ job[w] # Idle /\ gw' = gw /\ faults' = faults
         /\ held' = held /\ stuck' = stuck
         /\ ~FinalizeRefund(w) => UNCHANGED money
<1>1. job \in Jobs /\ job[w] # Idle /\ Return(w) /\ gw' = gw /\ faults' = faults
  BY DEF BaseInv, TypeOK, Jobs, Writes, SubmitRequest, RestoreStatus, MarkRefundFailed,
         LogRefundOk, LogRefundPending, FinalizeRefund, At
<1>2. /\ held' = held /\ stuck' = stuck
      /\ ~FinalizeRefund(w) => UNCHANGED money
  BY DEF Writes, SubmitRequest, RestoreStatus, MarkRefundFailed, LogRefundOk, LogRefundPending,
         FinalizeRefund, money
<1> QED BY <1>1, <1>2, ReturnEffect

\* The environment touches neither the order nor the calls.
LEMMA EnvironmentEffect ==
  ASSUME BaseInv, Spend \/ GatewaySettles
  PROVE  /\ UNCHANGED <<status, refundAmount, held, taken, stuck, trail, job, faults>>
         /\ balance' \in Int
         /\ gw' \in [1..Amount -> GatewayStates]
         /\ \A a \in 1..Amount : gw[a] = "done" => gw'[a] = "done"
<1>1. /\ UNCHANGED <<status, refundAmount, held, taken, stuck, trail, job, faults>>
      /\ balance' \in Int
  BY DEF Spend, GatewaySettles, BaseInv, TypeOK, money
<1>2. /\ gw' \in [1..Amount -> GatewayStates]
      /\ \A a \in 1..Amount : gw[a] = "done" => gw'[a] = "done"
  BY DEF Spend, GatewaySettles, BaseInv, TypeOK, GatewayStates
<1> QED BY <1>1, <1>2

-----------------------------------------------------------------------------
(* Types, and refunds that were made *)

Audits == {"REFUND_ROLLBACK_FAILED", "REFUND_SUCCESS"}

MoneyTyped == balance \in Int /\ held \in [Workers -> Int] /\ taken \in Int /\ stuck \in Int

OrderTyped == status \in Statuses /\ refundAmount \in 0..Amount

TrailTyped == audit \subseteq Audits /\ pending \in PendingAudit \cup {None} /\ overwritten \in BOOLEAN

\* A refund that was made stays made.
GatewayGrows ==
  /\ gw' \in [1..Amount -> GatewayStates]
  /\ \A a \in 1..Amount : gw[a] = "done" => gw'[a] = "done"

LEMMA BaseTyped ==
  ASSUME BaseInv
  PROVE  /\ MoneyTyped /\ OrderTyped /\ TrailTyped
         /\ gw \in [1..Amount -> GatewayStates] /\ job \in Jobs /\ faults \in 0..MaxFaults
BY DEF BaseInv, TypeOK, MoneyTyped, OrderTyped, TrailTyped, Audits, Jobs

\* A step of w that writes a refunded status only after a success.
LEMMA BaseStep ==
  ASSUME BaseInv, NEW w \in Workers, job' \in Jobs, Others(w),
         MoneyTyped', OrderTyped', TrailTyped', GatewayGrows, faults' \in 0..MaxFaults,
         status' = "REFUND_PENDING" => refundAmount' \in 1..Amount,
         (At(w, "markOk") \/ At(w, "finalizeOk"))' => \E a \in 1..Amount : gw'[a] = "done",
         status' \in Refunded =>
           status \in Refunded \/ At(w, "markOk") \/ At(w, "finalizeOk")
  PROVE  BaseInv'
<1>1. TypeOK'
  BY DEF TypeOK, Jobs, MoneyTyped, OrderTyped, TrailTyped, Audits, GatewayGrows
<1>2. (\E a \in 1..Amount : gw[a] = "done") => \E a \in 1..Amount : gw'[a] = "done"
  BY DEF GatewayGrows
<1>3. SuccessWasSeen'
  BY <1>2 DEF SuccessWasSeen, At, Others, BaseInv
<1>4. RefundedMeansReturned'
  BY <1>2 DEF BaseInv, SuccessWasSeen, RefundedMeansReturned
<1> QED BY <1>1, <1>3, <1>4 DEF BaseInv, PendingHasAmount

\* A step of w on its own plan and the money, with no success in hand.
LEMMA BasePlans ==
  ASSUME BaseInv, NEW w \in Workers, job' \in Jobs, Others(w), MoneyTyped',
         UNCHANGED <<status, refundAmount, trail, gw>>, faults' \in 0..MaxFaults,
         (At(w, "markOk") \/ At(w, "finalizeOk"))' => \E a \in 1..Amount : gw[a] = "done"
  PROVE  BaseInv'
<1>1. OrderTyped' /\ TrailTyped' /\ GatewayGrows
  BY BaseTyped DEF OrderTyped, TrailTyped, GatewayGrows, trail
<1> QED BY <1>1, BaseStep DEF BaseInv, PendingHasAmount

\* What the final writes type, and they write REFUNDED only after a success.
LEMMA WritesKeepBase ==
  ASSUME BaseInv, NEW w \in Workers, Writes(w)
  PROVE  BaseInv'
<1> USE DEF BaseInv
<1>1. Ended(w) /\ gw' = gw /\ faults' = faults
  BY WritesEffect
<1>2. /\ job[w] # Idle /\ job[w] \in Job /\ job[w].amount \in 1..Amount
      /\ job[w].rolledBack \in BOOLEAN /\ Amount \in 1..Amount
  BY WritesEffect, ConstantsAssumption DEF TypeOK, Job
<1>3. Refunded \subseteq Statuses
  BY DEF Refunded, Statuses
<1>4. /\ OrderTyped'
      /\ status' = "REFUND_PENDING" => refundAmount' \in 1..Amount
      /\ status' \in Refunded => status \in Refunded \/ At(w, "markOk") \/ At(w, "finalizeOk")
  <2>1. CASE SubmitRequest(w)
    BY <1>2, <2>1 DEF SubmitRequest, TypeOK, OrderTyped, Statuses, PendingHasAmount, Refunded
  <2>2. CASE RestoreStatus(w) \/ MarkRefundFailed(w)
    BY <2>2 DEF RestoreStatus, MarkRefundFailed, TypeOK, OrderTyped, Statuses, PendingHasAmount,
                Refunded
  <2>3. CASE LogRefundOk(w) \/ LogRefundPending(w)
    BY <2>3 DEF LogRefundOk, LogRefundPending, TypeOK, OrderTyped, PendingHasAmount
  <2>4. CASE FinalizeRefund(w)
    BY <1>2, <1>3, <2>4, FinalizeEffect DEF TypeOK, OrderTyped, PendingHasAmount, Refunded
  <2> QED BY <2>1, <2>2, <2>3, <2>4 DEF Writes
<1>5. MoneyTyped'
  <2>1. CASE FinalizeRefund(w)
    BY <2>1, FinalizeEffect, BaseTyped DEF MoneyTyped
  <2>2. CASE ~FinalizeRefund(w)
    BY <2>2, WritesEffect, BaseTyped DEF MoneyTyped, money
  <2> QED BY <2>1, <2>2
<1>6. TrailTyped'
  <2>1. CASE FinalizeRefund(w)
    BY <2>1, FinalizeEffect, BaseTyped DEF TrailTyped, Audits
  <2>2. CASE SubmitRequest(w) \/ RestoreStatus(w)
    BY <2>2, BaseTyped DEF SubmitRequest, RestoreStatus, TrailTyped, trail
  <2>3. CASE MarkRefundFailed(w)
    BY <2>3, BaseTyped DEF MarkRefundFailed, TrailTyped
  <2>4. CASE LogRefundOk(w)
    BY <2>4, BaseTyped DEF LogRefundOk, TrailTyped, Audits
  <2>5. CASE LogRefundPending(w)
    BY <1>2, <2>5, BaseTyped DEF LogRefundPending, TrailTyped, PendingAudit
  <2> QED BY <2>1, <2>2, <2>3, <2>4, <2>5 DEF Writes
<1>7. GatewayGrows /\ faults' \in 0..MaxFaults
  BY <1>1, BaseTyped DEF GatewayGrows
<1> QED BY <1>1, <1>4, <1>5, <1>6, <1>7, BaseStep DEF Ended, At

\* The steps of a worker between its claim and its final write.
LEMMA HolderKeepsBase ==
  ASSUME BaseInv, MoneyInv, NEW w \in Workers,
         \/ ClaimRefund(w) \/ DeductBalance(w) \/ DeductAgain(w) \/ DeductFails(w)
         \/ RollbackRefund(w) \/ RollbackFails(w)
  PROVE  BaseInv'
<1>1. MoneyTyped /\ OrderTyped /\ TrailTyped /\ faults \in 0..MaxFaults
  BY BaseTyped
<1>2. CASE ClaimRefund(w)
  <2>1. /\ UNCHANGED <<refundAmount, money, trail, gw, faults>> /\ job' \in Jobs /\ Others(w)
        /\ ~(At(w, "markOk") \/ At(w, "finalizeOk"))'
        /\ status' = status \/ status' = "REFUNDING"
    BY <1>2, ClaimEffect DEF Ended, Moved, At
  <2>2. MoneyTyped' /\ OrderTyped' /\ TrailTyped' /\ GatewayGrows /\ faults' \in 0..MaxFaults
    BY <1>1, <2>1, BaseTyped DEF MoneyTyped, OrderTyped, TrailTyped, GatewayGrows, money, trail,
                                 Statuses
  <2>3. /\ status' = "REFUND_PENDING" => refundAmount' \in 1..Amount
        /\ status' \in Refunded => status \in Refunded
    BY <2>1 DEF BaseInv, PendingHasAmount, Refunded
  <2> QED BY <2>1, <2>2, <2>3, BaseStep
<1>3. CASE DeductBalance(w) \/ DeductAgain(w)
  <2>1. job' \in Jobs /\ Others(w) /\ ~(At(w, "markOk") \/ At(w, "finalizeOk"))'
    BY <1>3, DeductionEffect DEF Planned, At
  <2>2. MoneyTyped'
    BY <1>1, <1>3, DeductionEffect DEF MoneyTyped, Holds
  <2> QED BY <1>3, <2>1, <2>2, DeductionEffect, BasePlans
<1>4. CASE DeductFails(w)
  <2>1. job' \in Jobs /\ Others(w) /\ ~(At(w, "markOk") \/ At(w, "finalizeOk"))'
    BY <1>4, DeductFailsEffect DEF Moved, At
  <2>2. MoneyTyped'
    BY <1>1, <1>4, DeductFailsEffect DEF MoneyTyped
  <2> QED BY <1>4, <2>1, <2>2, DeductFailsEffect, BasePlans
<1>5. CASE RollbackRefund(w)
  <2>1. job' \in Jobs /\ Others(w) /\ ~(At(w, "markOk") \/ At(w, "finalizeOk"))'
    BY <1>5, RollbackRefundEffect DEF Planned, At
  <2>2. MoneyTyped'
    BY <1>1, <1>5, RollbackRefundEffect DEF MoneyTyped, Holds
  <2> QED BY <1>1, <1>5, <2>1, <2>2, RollbackRefundEffect, BasePlans
<1>6. CASE RollbackFails(w)
  <2>1. HoldsPlan(w)
    BY <1>6 DEF HoldsPlan, MoneyInv, MoneyKnown, RollbackFails, At, HeldPoints
  <2>2. job' \in Jobs /\ Others(w) /\ ~(At(w, "markOk") \/ At(w, "finalizeOk"))'
    BY <1>6, <2>1, RollbackFailsEffect DEF Moved, At
  <2>3. MoneyTyped' /\ OrderTyped' /\ TrailTyped' /\ GatewayGrows /\ faults' \in 0..MaxFaults
    BY <1>1, <1>6, <2>1, RollbackFailsEffect, BaseTyped
       DEF MoneyTyped, Holds, OrderTyped, TrailTyped, Audits, GatewayGrows
  <2>4. status' = status /\ refundAmount' = refundAmount
    BY <1>6, <2>1, RollbackFailsEffect
  <2> QED BY <2>2, <2>3, <2>4, BaseStep DEF BaseInv, PendingHasAmount
<1> QED BY <1>2, <1>3, <1>4, <1>5, <1>6

\* Every step keeps the base of the invariant.
LEMMA BaseNext ==
  ASSUME BaseInv, MoneyInv, [Next]_vars
  PROVE  BaseInv'
<1>0. /\ MoneyTyped /\ OrderTyped /\ TrailTyped
      /\ gw \in [1..Amount -> GatewayStates] /\ job \in Jobs /\ faults \in 0..MaxFaults
  BY BaseTyped
<1>1. CASE UNCHANGED vars
  BY <1>1 DEF vars, BaseInv, TypeOK, PendingHasAmount, SuccessWasSeen, RefundedMeansReturned, At
<1>2. ASSUME NEW w \in Workers, Begin(w) PROVE BaseInv'
  <2>1. job' \in Jobs /\ Others(w) /\ ~(At(w, "markOk") \/ At(w, "finalizeOk"))'
    BY <1>2, BeginEffect DEF Planned, At
  <2> QED BY <1>0, <1>2, <2>1, BeginEffect, BasePlans DEF MoneyTyped, money
<1>3. ASSUME NEW w \in Workers, Step(w) \/ Crash(w) PROVE BaseInv'
  <2>1. CASE Writes(w)
    BY <2>1, WritesKeepBase
  <2>2. CASE \/ ClaimRefund(w) \/ DeductBalance(w) \/ DeductAgain(w) \/ DeductFails(w)
             \/ RollbackRefund(w) \/ RollbackFails(w)
    BY <2>2, HolderKeepsBase
  <2>3. CASE PrepDeduct(w) \/ PrepDeductBlind(w)
    <3>1. job' \in Jobs /\ Others(w) /\ ~(At(w, "markOk") \/ At(w, "finalizeOk"))'
      BY <2>3, PrepDeductEffect DEF Planned, Moved, Ended, At
    <3> QED BY <1>0, <2>3, <3>1, PrepDeductEffect, BasePlans DEF MoneyTyped, money
  <2>4. CASE GatewayRefund(w)
    <3>1. job' \in Jobs /\ Others(w)
      BY <2>4, GatewayRefundEffect DEF Moved
    <3>2. (At(w, "markOk") \/ At(w, "finalizeOk"))' => \E a \in 1..Amount : gw'[a] = "done"
      BY <2>4, GatewayRefundEffect DEF Moved, At
    <3>3. MoneyTyped' /\ OrderTyped' /\ TrailTyped' /\ GatewayGrows /\ faults' \in 0..MaxFaults
      BY <1>0, <2>4, GatewayRefundEffect
         DEF MoneyTyped, OrderTyped, TrailTyped, GatewayGrows, money, trail
    <3>4. status' = status /\ refundAmount' = refundAmount
      BY <2>4, GatewayRefundEffect
    <3> QED BY <3>1, <3>2, <3>3, <3>4, BaseStep DEF BaseInv, PendingHasAmount
  <2>5. CASE MarkRefundPending(w)
    <3>1. /\ job' \in Jobs /\ Others(w) /\ ~(At(w, "markOk") \/ At(w, "finalizeOk"))'
          /\ status' = "REFUND_PENDING" /\ refundAmount' \in 1..Amount
      BY <2>5, MarkPendingEffect DEF Moved, At
    <3>2. MoneyTyped' /\ OrderTyped' /\ TrailTyped' /\ GatewayGrows /\ faults' \in 0..MaxFaults
      BY <1>0, <2>5, <3>1, MarkPendingEffect, ConstantsAssumption
         DEF MoneyTyped, OrderTyped, TrailTyped, GatewayGrows, money, trail, Statuses
    <3>3. status' \notin Refunded
      BY <3>1 DEF Refunded
    <3> QED BY <3>1, <3>2, <3>3, BaseStep
  <2>6. CASE MarkRefundOk(w)
    <3>1. /\ job' \in Jobs /\ Others(w) /\ ~(At(w, "markOk") \/ At(w, "finalizeOk"))'
          /\ At(w, "markOk") /\ status' \in Refunded /\ refundAmount' \in 1..Amount
      BY <2>6, MarkOkEffect DEF Moved, At
    <3>2. MoneyTyped' /\ OrderTyped' /\ TrailTyped' /\ GatewayGrows /\ faults' \in 0..MaxFaults
      BY <1>0, <2>6, <3>1, MarkOkEffect, ConstantsAssumption
         DEF MoneyTyped, Holds, OrderTyped, TrailTyped, GatewayGrows, trail, Statuses, Refunded
    <3> QED BY <3>1, <3>2, BaseStep
  <2>7. CASE QueryRefund(w)
    <3>1. /\ job' \in Jobs /\ Others(w)
          /\ (At(w, "markOk") \/ At(w, "finalizeOk"))' => \E a \in 1..Amount : gw[a] = "done"
      BY <2>7, QueryRefundEffect DEF Moved, Planned, Ended, At
    <3> QED BY <1>0, <2>7, <3>1, QueryRefundEffect, BasePlans DEF MoneyTyped, money
  <2>8. CASE WriteFails(w) \/ Crash(w)
    <3>1. job' \in Jobs /\ Others(w) /\ ~(At(w, "markOk") \/ At(w, "finalizeOk"))'
      BY <2>8, FaultEffect DEF Ended, At
    <3>2. MoneyTyped'
      BY <1>0, <2>8, FaultEffect DEF MoneyTyped, Holds
    <3> QED BY <2>8, <3>1, <3>2, FaultEffect, BasePlans
  <2> QED BY <1>3, <2>1, <2>2, <2>3, <2>4, <2>5, <2>6, <2>7, <2>8 DEF Step, Writes
<1>4. CASE Spend \/ GatewaySettles
  <2>1. TypeOK'
    BY <1>0, <1>4, EnvironmentEffect
       DEF TypeOK, MoneyTyped, OrderTyped, TrailTyped, Audits, Jobs, trail
  <2>2. PendingHasAmount' /\ SuccessWasSeen' /\ RefundedMeansReturned'
    BY <1>4, EnvironmentEffect
       DEF BaseInv, PendingHasAmount, SuccessWasSeen, At, RefundedMeansReturned
  <2> QED BY <2>1, <2>2 DEF BaseInv
<1> QED BY <1>1, <1>2, <1>3, <1>4 DEF Next

-----------------------------------------------------------------------------
(* The money *)

\* A step of w after which the money of w is known.
LEMMA MoneyStep ==
  ASSUME MoneyInv, NEW w \in Workers, Others(w),
         \A v \in Workers : v # w => held'[v] = held[v],
         MoneyKnown(w)', taken' >= 0, stuck' >= 0
  PROVE  MoneyInv'
BY DEF MoneyInv, MoneyKnown, Others

\* A step of w away from the money.
LEMMA MoneyQuiet ==
  ASSUME MoneyInv, NEW w \in Workers, Others(w), held' = held,
         job[w] = Idle \/ job[w].at \notin HeldPoints,
         job'[w] # Idle =>
           job'[w].at \notin HeldPoints /\ job'[w].toDeduct <= job'[w].amount,
         taken' >= 0, stuck' >= 0
  PROVE  MoneyInv'
<1>1. MoneyKnown(w)'
  BY DEF MoneyInv, MoneyKnown
<1> QED BY <1>1, MoneyStep

\* Every step keeps the money known.
LEMMA MoneyNext ==
  ASSUME BaseInv, MoneyInv, [Next]_vars
  PROVE  MoneyInv'
<1>0. /\ taken >= 0 /\ stuck >= 0 /\ taken \in Int /\ stuck \in Int
      /\ held \in [Workers -> Int]
  BY DEF MoneyInv, BaseInv, TypeOK
<1>1. CASE UNCHANGED vars
  BY <1>1 DEF vars, MoneyInv, MoneyKnown
<1>2. ASSUME NEW w \in Workers, Begin(w) PROVE MoneyInv'
  <2>1. /\ UNCHANGED money /\ job[w] = Idle /\ job'[w].amount \in Nat
        /\ Others(w) /\ job'[w].toDeduct = 0 /\ job'[w].at \notin HeldPoints
    BY <1>2, BeginEffect DEF Planned, HeldPoints
  <2> QED BY <1>0, <2>1, MoneyQuiet DEF money
<1>3. ASSUME NEW w \in Workers, Step(w) \/ Crash(w) PROVE MoneyInv'
  <2>0. /\ job[w] # Idle /\ job[w].amount \in 1..Amount /\ job[w].toDeduct \in 0..Amount
        /\ MoneyKnown(w) /\ job[w].toDeduct <= job[w].amount
        /\ job[w].amount \in Nat /\ job[w].toDeduct \in Nat
    <3>1. job[w] # Idle
      BY <1>3 DEF Step, SubmitRequest, PrepDeduct, PrepDeductBlind, ClaimRefund, DeductBalance,
                  DeductAgain, DeductFails, GatewayRefund, RollbackRefund, RollbackFails,
                  RestoreStatus, MarkRefundFailed, MarkRefundOk, LogRefundOk, MarkRefundPending,
                  LogRefundPending, WriteFails, QueryRefund, FinalizeRefund, Crash, At
    <3>2. job[w].amount \in 1..Amount /\ job[w].toDeduct \in 0..Amount /\ MoneyKnown(w)
      BY <3>1 DEF BaseInv, TypeOK, Job, MoneyInv
    <3> QED BY <3>1, <3>2, ConstantsAssumption DEF MoneyKnown
  <2>1. CASE Writes(w)
    <3>1. /\ Others(w) /\ job'[w] = Idle /\ held' = held /\ stuck' = stuck
      BY <2>1, WritesEffect DEF Ended
    <3>2. job[w].at \notin HeldPoints
      BY <2>1 DEF Writes, SubmitRequest, RestoreStatus, MarkRefundFailed, LogRefundOk,
                  LogRefundPending, FinalizeRefund, At, HeldPoints
    <3>3. taken' >= 0
      <4>1. CASE FinalizeRefund(w)
        BY <1>0, <2>0, <4>1, FinalizeEffect
      <4>2. CASE ~FinalizeRefund(w)
        BY <1>0, <2>1, <4>2, WritesEffect DEF money
      <4> QED BY <4>1, <4>2
    <3> QED BY <1>0, <3>1, <3>2, <3>3, MoneyQuiet
  <2>2. CASE PrepDeduct(w) \/ PrepDeductBlind(w)
    <3>1. /\ UNCHANGED money /\ job[w].at = "prepDeduct" /\ Others(w)
          /\ job'[w] # Idle =>
               job'[w].at = "claim" /\ job'[w].toDeduct <= job'[w].amount
      BY <2>0, <2>2, PrepDeductEffect DEF Ended, Moved, Planned, At
    <3> QED BY <1>0, <3>1, MoneyQuiet DEF money, HeldPoints
  <2>3. CASE ClaimRefund(w)
    <3>1. /\ UNCHANGED money /\ job[w].at = "claim" /\ Others(w)
          /\ job'[w] # Idle =>
               job'[w].at = "deduct" /\ job'[w].toDeduct <= job'[w].amount
      BY <2>0, <2>3, ClaimEffect DEF Ended, Moved, At
    <3> QED BY <1>0, <3>1, MoneyQuiet DEF money, HeldPoints
  <2>4. CASE DeductBalance(w) \/ DeductAgain(w)
    <3>1. PICK d \in 0..job[w].toDeduct :
            Holds(w, d) /\ Planned(w, "gateway", d) /\ job'[w].amount = job[w].amount
      BY <2>4, DeductionEffect
    <3>2. d <= job'[w].amount
      BY <2>0, <3>1
    <3>3. MoneyKnown(w)'
      BY <3>1, <3>2 DEF Holds, Planned, MoneyKnown, HeldPoints
    <3>4. UNCHANGED <<taken, stuck>>
      BY <2>4, DeductionEffect
    <3> QED BY <1>0, <3>1, <3>3, <3>4, MoneyStep DEF Holds, Planned
  <2>5. CASE DeductFails(w)
    <3>1. /\ held' = held /\ taken' = taken /\ stuck' \in Int /\ stuck' >= stuck
          /\ job[w].at = "deduct" /\ Others(w)
          /\ job'[w].at = "restore" /\ job'[w].toDeduct <= job'[w].amount
      BY <2>0, <2>5, DeductFailsEffect DEF Moved, At
    <3>2. stuck' >= 0
      BY <1>0, <3>1
    <3> QED BY <1>0, <3>1, <3>2, MoneyQuiet DEF HeldPoints
  <2>6. CASE GatewayRefund(w)
    <3>1. /\ UNCHANGED money /\ job[w].at = "gateway" /\ Others(w)
          /\ job'[w] # Idle /\ job'[w].at \in {"undo", "undoPending", "markOk"}
          /\ job'[w].toDeduct = job[w].toDeduct /\ job'[w].amount = job[w].amount
      BY <2>6, GatewayRefundEffect DEF Moved, At
    <3>2. MoneyKnown(w)'
      BY <2>0, <3>1 DEF MoneyKnown, HeldPoints, money
    <3> QED BY <1>0, <3>1, <3>2, MoneyStep DEF money
  <2>7. CASE RollbackRefund(w)
    <3>1. /\ UNCHANGED <<taken, stuck>> /\ Holds(w, held[w] - job[w].toDeduct)
          /\ job[w].at \in {"undo", "undoPending"}
          /\ Others(w) /\ job'[w] # Idle /\ job'[w].at \in {"restore", "markPending"}
          /\ job'[w].toDeduct = 0 /\ job'[w].amount = job[w].amount
      BY <2>7, RollbackRefundEffect DEF Planned, At
    <3>2. held'[w] = 0
      <4>1. held[w] = job[w].toDeduct
        BY <2>0, <3>1 DEF MoneyKnown, HeldPoints
      <4> QED BY <2>0, <3>1, <4>1 DEF Holds
    <3>3. MoneyKnown(w)'
      BY <2>0, <3>1, <3>2 DEF MoneyKnown, HeldPoints
    <3> QED BY <1>0, <3>1, <3>3, MoneyStep DEF Holds
  <2>8. CASE RollbackFails(w)
    <3>1. HoldsPlan(w)
      BY <2>0, <2>8 DEF HoldsPlan, MoneyKnown, RollbackFails, At, HeldPoints
    <3>2. /\ taken' = taken /\ stuck' \in Int /\ stuck' >= stuck /\ Holds(w, 0)
          /\ Others(w) /\ job'[w] # Idle /\ job'[w].at \in {"markFailed", "markPending"}
          /\ job'[w].toDeduct = job[w].toDeduct /\ job'[w].amount = job[w].amount
      BY <2>8, <3>1, RollbackFailsEffect DEF Moved
    <3>3. MoneyKnown(w)'
      BY <2>0, <3>2 DEF MoneyKnown, HeldPoints, Holds
    <3>4. stuck' >= 0
      BY <1>0, <3>2
    <3> QED BY <1>0, <3>2, <3>3, <3>4, MoneyStep DEF Holds
  <2>9. CASE MarkRefundPending(w)
    <3>1. /\ UNCHANGED money /\ job[w].at = "markPending" /\ Others(w)
          /\ job'[w].at = "logPending" /\ job'[w].toDeduct <= job'[w].amount
      BY <2>0, <2>9, MarkPendingEffect DEF Moved, At
    <3> QED BY <1>0, <3>1, MoneyQuiet DEF money, HeldPoints
  <2>10. CASE MarkRefundOk(w)
    <3>1. /\ stuck' = stuck /\ taken' = taken + held[w] /\ Holds(w, 0)
          /\ job[w].at = "markOk" /\ Others(w)
          /\ job'[w] # Idle /\ job'[w].at = "logOk" /\ job'[w].toDeduct <= job'[w].amount
      BY <2>0, <2>10, MarkOkEffect DEF Moved, At
    <3>2. taken' >= 0
      BY <1>0, <2>0, <3>1 DEF MoneyKnown, HeldPoints
    <3>3. MoneyKnown(w)'
      BY <3>1 DEF MoneyKnown, HeldPoints, Holds
    <3> QED BY <1>0, <3>1, <3>2, <3>3, MoneyStep DEF Holds
  <2>11. CASE QueryRefund(w)
    <3>1. /\ UNCHANGED money /\ job[w].at = "query" /\ Others(w)
          /\ job'[w] # Idle =>
               /\ job'[w].at \in {"finalizeOk", "finalizeFailed"}
               /\ job'[w].toDeduct <= job'[w].amount
      BY <2>0, <2>11, QueryRefundEffect DEF Ended, Moved, Planned, At
    <3> QED BY <1>0, <3>1, MoneyQuiet DEF money, HeldPoints
  <2>12. CASE WriteFails(w) \/ Crash(w)
    <3>1. /\ stuck' = stuck /\ taken' = taken + held[w] /\ Holds(w, 0)
          /\ Others(w) /\ job'[w] = Idle
      BY <2>12, FaultEffect DEF Ended
    <3>2. held[w] >= 0
      BY <2>0 DEF MoneyKnown
    <3>3. taken' >= 0
      BY <1>0, <3>1, <3>2
    <3>4. MoneyKnown(w)'
      BY <3>1 DEF MoneyKnown, Holds
    <3> QED BY <1>0, <3>1, <3>3, <3>4, MoneyStep DEF Holds
  <2> QED BY <1>3, <2>1, <2>2, <2>3, <2>4, <2>5, <2>6, <2>7, <2>8, <2>9, <2>10, <2>11, <2>12
          DEF Step, Writes
<1>4. CASE Spend \/ GatewaySettles
  BY <1>4, EnvironmentEffect DEF MoneyInv, MoneyKnown
<1> QED BY <1>1, <1>2, <1>3, <1>4 DEF Next

-----------------------------------------------------------------------------
(* The claim *)

HoldPoints ==
  {"deduct", "gateway", "undo", "undoPending", "restore", "markFailed", "markOk",
   "markPending"}

\* What a step of w does to the set of those that hold the claim.
LEMMA SetsEffect ==
  ASSUME NEW w \in Workers, Others(w)
  PROVE  /\ \A v \in Workers : v # w => (v \in Holding' <=> v \in Holding)
         /\ w \in Holding' <=> job'[w] # Idle /\ job'[w].at \in HoldPoints
         /\ w \in Holding <=> job[w] # Idle /\ job[w].at \in HoldPoints
         /\ Holding \subseteq Workers /\ Holding' \subseteq Workers
BY DEF Others, Holding, HoldPoints, At

\* A step of a worker without the claim that leaves the order alone.
LEMMA QuietStep ==
  ASSUME LockInv, NEW w \in Workers, Others(w),
         UNCHANGED <<status, refundAmount, taken, overwritten>>,
         w \notin Holding, w \notin Holding'
  PROVE  LockInv'
<1>1. Holding' = Holding
  BY SetsEffect
<1> QED BY <1>1 DEF LockInv, ClaimIsLock, OrderKnows

\* A step of the worker that holds the claim and keeps it.
LEMMA HolderStep ==
  ASSUME LockInv, NEW w \in Workers, Others(w),
         UNCHANGED <<status, refundAmount, taken, overwritten>>,
         w \in Holding, w \in Holding'
  PROVE  LockInv'
<1>1. Holding' = Holding
  BY SetsEffect
<1> QED BY <1>1 DEF LockInv, ClaimIsLock, OrderKnows

\* The worker that holds the claim gives it up.
LEMMA HolderLeaves ==
  ASSUME LockInv, NEW w \in Workers, Others(w), overwritten' = overwritten,
         w \in Holding, w \notin Holding',
         status' \notin Refunded \cup {"REFUNDING"} => taken' = taken,
         status' \in Refunded => (taken = 0 => taken' <= refundAmount')
  PROVE  LockInv'
<1> SUFFICES ASSUME ~overwritten' PROVE ClaimIsLock' /\ OrderKnows'
  BY DEF LockInv
<1>1. ClaimIsLock /\ OrderKnows
  BY DEF LockInv
<1>2. Holding = {w} /\ taken = 0
  BY <1>1 DEF ClaimIsLock, OrderKnows
<1>3. Holding' = {}
  BY <1>2, SetsEffect
<1> QED BY <1>2, <1>3 DEF ClaimIsLock, OrderKnows

\* A step of a worker without the claim, when nobody holds it.
LEMMA OrderStep ==
  ASSUME NEW w \in Workers, Others(w), Holding = {}, w \notin Holding',
         OrderKnows'
  PROVE  LockInv'
<1>1. Holding' = {}
  BY SetsEffect
<1> QED BY <1>1 DEF LockInv, ClaimIsLock

LEMMA ClaimKeepsLock ==
  ASSUME BaseInv, LockInv, NEW w \in Workers, ClaimRefund(w)
  PROVE  LockInv'
<1>1. /\ UNCHANGED <<refundAmount, taken, overwritten>>
      /\ job[w] # Idle /\ job[w].at = "claim" /\ Others(w)
  BY ClaimEffect DEF Moved, Ended, At, money, trail
<1>2. w \notin Holding
  BY <1>1, SetsEffect DEF HoldPoints
<1>3. CASE job'[w] = Idle /\ status' = status
  BY <1>1, <1>2, <1>3, SetsEffect, QuietStep
<1>4. CASE Moved(w, "deduct") /\ status \in Refundable /\ status' = "REFUNDING"
  <2> SUFFICES ASSUME ~overwritten' PROVE ClaimIsLock' /\ OrderKnows'
    BY DEF LockInv
  <2>1. Holding = {} /\ taken = 0
    BY <1>1, <1>4 DEF LockInv, ClaimIsLock, OrderKnows, Refundable, Refunded
  <2>2. Holding' = {w}
    BY <1>1, <1>4, <2>1, SetsEffect DEF Moved, HoldPoints
  <2> QED BY <1>1, <1>4, <2>1, <2>2 DEF ClaimIsLock, OrderKnows, Refunded
<1> QED BY <1>3, <1>4, ClaimEffect DEF Ended

\* The steps of the worker that holds the claim.
LEMMA HoldersKeepLock ==
  ASSUME BaseInv, MoneyInv, LockInv, NEW w \in Workers,
         \/ DeductBalance(w) \/ DeductAgain(w) \/ DeductFails(w) \/ GatewayRefund(w)
         \/ RollbackRefund(w) \/ RollbackFails(w)
  PROVE  LockInv'
<1>1. RollbackFails(w) => HoldsPlan(w)
  BY DEF HoldsPlan, MoneyInv, MoneyKnown, RollbackFails, At, HeldPoints
<1>2. /\ UNCHANGED <<status, refundAmount, taken, overwritten>>
      /\ job[w] # Idle /\ job[w].at \in HoldPoints
      /\ Others(w) /\ job'[w] # Idle /\ job'[w].at \in HoldPoints
  <2>1. CASE DeductBalance(w) \/ DeductAgain(w)
    BY <2>1, DeductionEffect DEF Planned, At, HoldPoints, trail
  <2>2. CASE DeductFails(w)
    BY <2>2, DeductFailsEffect DEF Moved, At, HoldPoints, trail
  <2>3. CASE GatewayRefund(w)
    BY <2>3, GatewayRefundEffect DEF Moved, At, HoldPoints, trail, money
  <2>4. CASE RollbackRefund(w)
    BY <2>4, RollbackRefundEffect DEF Planned, At, HoldPoints, trail
  <2>5. CASE RollbackFails(w)
    BY <1>1, <2>5, RollbackFailsEffect DEF Moved, At, HoldPoints
  <2> QED BY <2>1, <2>2, <2>3, <2>4, <2>5
<1>3. w \in Holding /\ w \in Holding'
  BY <1>2, SetsEffect
<1> QED BY <1>2, <1>3, HolderStep

\* The final writes of the worker that holds the claim.
LEMMA MarksKeepLock ==
  ASSUME BaseInv, MoneyInv, LockInv, NEW w \in Workers,
         \/ RestoreStatus(w) \/ MarkRefundOk(w) \/ MarkRefundPending(w)
         \/ MarkRefundFailed(w) /\ At(w, "markFailed")
  PROVE  LockInv'
<1>1. CASE MarkRefundOk(w)
  <2>1. /\ overwritten' = overwritten /\ job[w] # Idle /\ job[w].at = "markOk"
        /\ Others(w) /\ job'[w].at = "logOk" /\ status' \in Refunded
        /\ taken' = taken + held[w] /\ refundAmount' = job[w].amount
    BY <1>1, MarkOkEffect DEF Moved, At, trail
  <2>2. held[w] <= job[w].amount /\ held[w] \in Int
    BY <2>1 DEF MoneyInv, MoneyKnown, HeldPoints, BaseInv, TypeOK
  <2>3. taken = 0 => taken' <= refundAmount'
    BY <2>1, <2>2
  <2>4. w \in Holding /\ w \notin Holding'
    BY <2>1, SetsEffect DEF HoldPoints
  <2> QED BY <2>1, <2>3, <2>4, HolderLeaves DEF Refunded
<1>2. CASE MarkRefundPending(w)
  <2>1. /\ UNCHANGED <<taken, overwritten>> /\ job[w] # Idle /\ job[w].at = "markPending"
        /\ Others(w) /\ job'[w].at = "logPending" /\ status' = "REFUND_PENDING"
    BY <1>2, MarkPendingEffect DEF Moved, At, money, trail
  <2>2. w \in Holding /\ w \notin Holding'
    BY <2>1, SetsEffect DEF HoldPoints
  <2> QED BY <2>1, <2>2, HolderLeaves DEF Refunded
<1>3. CASE RestoreStatus(w) \/ (MarkRefundFailed(w) /\ At(w, "markFailed"))
  <2>1. /\ taken' = taken /\ status' \notin Refunded
        /\ job[w] # Idle /\ job[w].at \in {"restore", "markFailed"}
    BY <1>3 DEF RestoreStatus, MarkRefundFailed, At, money, Refunded
  <2>2. Others(w) /\ job'[w] = Idle
    BY <1>3, WritesEffect DEF Writes, Ended
  <2>3. w \in Holding /\ w \notin Holding'
    BY <2>1, <2>2, SetsEffect DEF HoldPoints
  <2>4. overwritten' = overwritten
    <3>1. CASE RestoreStatus(w)
      BY <3>1 DEF RestoreStatus, trail
    <3>2. CASE MarkRefundFailed(w) /\ At(w, "markFailed")
      <4>1. ~At(w, "finalizeFailed")
        BY <3>2 DEF At
      <4>2. overwritten \in BOOLEAN
        BY DEF BaseInv, TypeOK
      <4> QED BY <3>2, <4>1, <4>2, Zenon DEF MarkRefundFailed
    <3> QED BY <1>3, <3>1, <3>2
  <2> QED BY <2>1, <2>2, <2>3, <2>4, HolderLeaves
<1> QED BY <1>1, <1>2, <1>3

\* The writes of a worker without the claim.
LEMMA OutsidersKeepLock ==
  ASSUME BaseInv, MoneyInv, LockInv, NEW w \in Workers,
         \/ SubmitRequest(w) \/ LogRefundOk(w) \/ LogRefundPending(w) \/ FinalizeRefund(w)
         \/ MarkRefundFailed(w) /\ At(w, "finalizeFailed")
  PROVE  LockInv'
<1>1. Others(w) /\ job'[w] = Idle /\ w \notin Holding'
  BY WritesEffect, SetsEffect DEF Writes, Ended
<1>2. w \notin Holding
  BY <1>1, SetsEffect
     DEF SubmitRequest, LogRefundOk, LogRefundPending, FinalizeRefund, At, HoldPoints
<1>3. CASE LogRefundOk(w) \/ LogRefundPending(w)
  BY <1>1, <1>2, <1>3, QuietStep DEF LogRefundOk, LogRefundPending, money
<1>4. CASE SubmitRequest(w)
  <2>1. CASE status = "COMPLETED" /\ ~overwritten'
    <3>1. Holding = {} /\ taken = 0 /\ taken' = taken /\ status' = "REFUND_REQUESTED"
      BY <1>4, <2>1 DEF SubmitRequest, LockInv, ClaimIsLock, OrderKnows, Refunded, trail, money
    <3>2. OrderKnows'
      BY <3>1 DEF OrderKnows, Refunded
    <3> QED BY <1>1, <3>1, <3>2, OrderStep
  <2>2. CASE status # "COMPLETED"
    BY <1>1, <1>2, <1>4, <2>2, QuietStep DEF SubmitRequest, trail, money
  <2> QED BY <2>1, <2>2 DEF LockInv
<1>5. CASE FinalizeRefund(w)
  <2>1. CASE UNCHANGED <<status, refundAmount, taken, audit>>
    BY <1>1, <1>2, <1>5, <2>1, FinalizeEffect, QuietStep
  <2>2. CASE /\ status = "REFUND_PENDING" /\ status' \in Refunded
             /\ refundAmount' = job[w].amount
             /\ \E d \in 0..job[w].toDeduct : taken' = taken + d
             /\ ~overwritten'
    <3>1. Holding = {} /\ taken = 0
      BY <1>5, <2>2 DEF FinalizeRefund, LockInv, ClaimIsLock, OrderKnows, Refunded
    <3>2. job[w] # Idle /\ job[w].toDeduct <= job[w].amount
      BY <1>5 DEF FinalizeRefund, At, MoneyInv, MoneyKnown
    <3>3. job[w].toDeduct \in Nat /\ job[w].amount \in Nat
      BY <3>2, ConstantsAssumption DEF BaseInv, TypeOK, Job
    <3>4. taken' <= refundAmount'
      BY <2>2, <3>1, <3>2, <3>3
    <3>5. w \notin Holding' /\ Holding' = {}
      BY <1>1, <3>1, SetsEffect
    <3>6. OrderKnows'
      BY <2>2, <3>4, <3>5 DEF OrderKnows
    <3> QED BY <1>1, <3>1, <3>6, OrderStep
  <2> QED BY <1>5, <2>1, <2>2, FinalizeEffect DEF LockInv
<1>6. CASE MarkRefundFailed(w) /\ At(w, "finalizeFailed") /\ ~overwritten'
  <2>1. /\ status \notin Refunded \cup {"REFUNDING"} /\ ~overwritten
        /\ status' = "REFUND_FAILED" /\ taken' = taken
    BY <1>6 DEF MarkRefundFailed, money
  <2>2. Holding = {} /\ taken = 0
    BY <2>1 DEF LockInv, ClaimIsLock, OrderKnows
  <2>3. OrderKnows'
    BY <2>1, <2>2 DEF OrderKnows, Refunded
  <2> QED BY <1>1, <2>2, <2>3, OrderStep
<1> QED BY <1>3, <1>4, <1>5, <1>6 DEF LockInv

\* A call that dies leaves what it held: the order stays in REFUNDING.
LEMMA FaultKeepsLock ==
  ASSUME BaseInv, MoneyInv, LockInv, NEW w \in Workers, WriteFails(w) \/ Crash(w)
  PROVE  LockInv'
<1>1. /\ UNCHANGED <<status, refundAmount, overwritten>> /\ job[w] # Idle
      /\ job'[w] = Idle /\ Others(w) /\ taken' = taken + held[w]
  BY FaultEffect DEF Ended, trail
<1>2. w \notin Holding'
  BY <1>1, SetsEffect
<1>3. CASE w \in Holding
  <2>1. CASE overwritten'
    BY <2>1 DEF LockInv
  <2>2. CASE ~overwritten'
    <3>1. status = "REFUNDING"
      BY <1>1, <1>3, <2>2 DEF LockInv, ClaimIsLock
    <3> QED BY <1>1, <1>2, <1>3, <3>1, HolderLeaves DEF Refunded
  <2> QED BY <2>1, <2>2
<1>4. CASE w \notin Holding
  <2>1. held[w] = 0
    BY <1>1, <1>4, SetsEffect DEF MoneyInv, MoneyKnown, HeldPoints, HoldPoints
  <2>2. taken' = taken
    BY <1>1, <2>1 DEF BaseInv, TypeOK
  <2> QED BY <1>1, <1>2, <1>4, <2>2, QuietStep
<1> QED BY <1>3, <1>4

\* Every step keeps the lock.
LEMMA LockNext ==
  ASSUME BaseInv, MoneyInv, LockInv, [Next]_vars
  PROVE  LockInv'
<1>1. CASE UNCHANGED vars
  BY <1>1 DEF vars, LockInv, ClaimIsLock, OrderKnows, Holding, At
<1>2. ASSUME NEW w \in Workers, Begin(w) PROVE LockInv'
  <2>1. /\ UNCHANGED <<status, refundAmount, taken, overwritten>> /\ job[w] = Idle
        /\ Others(w) /\ job'[w].at \notin HoldPoints
    BY <1>2, BeginEffect DEF Planned, HoldPoints, money, trail
  <2>2. w \notin Holding /\ w \notin Holding'
    BY <2>1, SetsEffect
  <2> QED BY <2>1, <2>2, QuietStep
<1>3. ASSUME NEW w \in Workers, Step(w) \/ Crash(w) PROVE LockInv'
  <2>1. CASE PrepDeduct(w) \/ PrepDeductBlind(w) \/ QueryRefund(w)
    <3>1. /\ UNCHANGED <<status, refundAmount, taken, overwritten>>
          /\ job[w].at \notin HoldPoints
          /\ Others(w) /\ (job'[w] # Idle => job'[w].at \notin HoldPoints)
      <4>1. CASE PrepDeduct(w) \/ PrepDeductBlind(w)
        BY <4>1, PrepDeductEffect DEF Ended, Moved, Planned, At, HoldPoints, money, trail
      <4>2. CASE QueryRefund(w)
        BY <4>2, QueryRefundEffect DEF Ended, Moved, Planned, At, HoldPoints, money, trail
      <4> QED BY <2>1, <4>1, <4>2
    <3>2. w \notin Holding /\ w \notin Holding'
      BY <3>1, SetsEffect
    <3> QED BY <3>1, <3>2, QuietStep
  <2>2. CASE ClaimRefund(w)
    BY <2>2, ClaimKeepsLock
  <2>3. CASE \/ DeductBalance(w) \/ DeductAgain(w) \/ DeductFails(w) \/ GatewayRefund(w)
             \/ RollbackRefund(w) \/ RollbackFails(w)
    BY <2>3, HoldersKeepLock
  <2>4. CASE \/ RestoreStatus(w) \/ MarkRefundOk(w) \/ MarkRefundPending(w)
             \/ MarkRefundFailed(w) /\ At(w, "markFailed")
    BY <2>4, MarksKeepLock
  <2>5. CASE \/ SubmitRequest(w) \/ LogRefundOk(w) \/ LogRefundPending(w) \/ FinalizeRefund(w)
             \/ MarkRefundFailed(w) /\ At(w, "finalizeFailed")
    BY <2>5, OutsidersKeepLock
  <2>6. CASE WriteFails(w) \/ Crash(w)
    BY <2>6, FaultKeepsLock
  <2> QED BY <1>3, <2>1, <2>2, <2>3, <2>4, <2>5, <2>6 DEF Step, MarkRefundFailed
<1>4. CASE Spend \/ GatewaySettles
  BY <1>4, EnvironmentEffect DEF LockInv, ClaimIsLock, OrderKnows, Holding, At, trail
<1> QED BY <1>1, <1>2, <1>3, <1>4 DEF Next

-----------------------------------------------------------------------------
(* The theorems *)

LEMMA InitInv == Init => IInv
<1> SUFFICES ASSUME Init PROVE IInv
  OBVIOUS
<1>1. \A w \in Workers : job[w] = Idle /\ held[w] = 0
  BY DEF Init
<1>2. /\ balance \in Int /\ refundAmount \in 0..Amount /\ faults \in 0..MaxFaults
      /\ held \in [Workers -> Int]
  BY ConstantsAssumption DEF Init
<1>3. gw \in [1..Amount -> GatewayStates] /\ job \in [Workers -> Job \cup {Idle}]
  BY DEF Init, GatewayStates
<1>4. TypeOK
  <2>1. overwritten \in BOOLEAN
    BY Zenon DEF Init
  <2>2. /\ status \in Statuses /\ taken \in Int /\ stuck \in Int
        /\ audit \subseteq {"REFUND_ROLLBACK_FAILED", "REFUND_SUCCESS"}
        /\ pending \in PendingAudit \cup {None}
    BY DEF Init, Statuses
  <2> QED BY <1>2, <1>3, <2>1, <2>2 DEF TypeOK
<1>5. PendingHasAmount /\ SuccessWasSeen /\ RefundedMeansReturned
  BY DEF Init, PendingHasAmount, SuccessWasSeen, RefundedMeansReturned, At, Refunded
<1>6. MoneyInv
  BY <1>1 DEF Init, MoneyInv, MoneyKnown
<1>7. Holding = {}
  BY <1>1 DEF Holding, At
<1>8. LockInv
  BY <1>7 DEF Init, LockInv, ClaimIsLock, OrderKnows, Refunded
<1> QED BY <1>4, <1>5, <1>6, <1>8 DEF IInv, BaseInv

LEMMA NextInv == IInv /\ [Next]_vars => IInv'
BY BaseNext, MoneyNext, LockNext DEF IInv

\* In the order's final states only the late failure of another refund moves it.
LEMMA FinalStep ==
  ASSUME IInv, [Next]_vars, ~overwritten', status \in Refunded
  PROVE  status' = status
<1> USE DEF IInv
<1>1. ASSUME NEW w \in Workers, MarkRefundFailed(w) PROVE status' = status
  <2>1. ~overwritten /\ ~At(w, "finalizeFailed")
    BY <1>1 DEF MarkRefundFailed
  <2>2. At(w, "markFailed")
    BY <1>1, <2>1 DEF MarkRefundFailed
  <2>3. w \in Holding
    BY <2>2 DEF Holding
  <2> QED BY <2>1, <2>3 DEF LockInv, ClaimIsLock, Refunded
<1>2. ASSUME NEW w \in Workers, RestoreStatus(w) \/ MarkRefundOk(w) \/ MarkRefundPending(w)
      PROVE  status' = status
  <2>1. ~overwritten
    BY <1>2 DEF RestoreStatus, MarkRefundOk, MarkRefundPending, trail
  <2>2. w \in Holding
    BY <1>2 DEF RestoreStatus, MarkRefundOk, MarkRefundPending, Holding
  <2> QED BY <2>1, <2>2 DEF LockInv, ClaimIsLock, Refunded
<1>3. ASSUME NEW w \in Workers, SubmitRequest(w) \/ FinalizeRefund(w) \/ ClaimRefund(w)
      PROVE  status' = status
  BY <1>3 DEF SubmitRequest, FinalizeRefund, ClaimRefund, Refundable, Refunded
<1>4. ASSUME NEW w \in Workers,
             \/ PrepDeduct(w) \/ PrepDeductBlind(w) \/ DeductBalance(w) \/ DeductAgain(w)
             \/ DeductFails(w) \/ GatewayRefund(w) \/ RollbackRefund(w) \/ RollbackFails(w)
             \/ LogRefundOk(w) \/ LogRefundPending(w) \/ WriteFails(w) \/ QueryRefund(w)
             \/ RequestRefund(w) \/ PrepareRefund(w) \/ StartFinalize(w) \/ Crash(w)
      PROVE  status' = status
  BY <1>4 DEF PrepDeduct, PrepDeductBlind, DeductBalance, DeductAgain, Deduct, DeductFails,
              GatewayRefund, RollbackRefund, RollbackFails, LogRefundOk, LogRefundPending,
              WriteFails, QueryRefund, RequestRefund, PrepareRefund, StartFinalize, Crash
<1>5. CASE Spend \/ GatewaySettles \/ UNCHANGED vars
  BY <1>5 DEF Spend, GatewaySettles, vars
<1> QED BY <1>1, <1>2, <1>3, <1>4, <1>5 DEF Next, Step, Begin

\* A set whose members are all equal has at most one.
LEMMA AtMostOne ==
  ASSUME NEW S, \A x, y \in S : x = y
  PROVE  Cardinality(S) <= 1
<1>1. CASE S = {}
  BY <1>1, FS_EmptySet
<1>2. CASE S # {}
  <2>1. PICK x : S = {x}
    BY <1>2
  <2> QED BY <2>1, FS_Singleton
<1> QED BY <1>1, <1>2

\* The inductive invariant holds in every reachable state, whoever refunds,
\* finalizes and fails at the same time.
THEOREM Invariance == Spec => []IInv
BY InitInv, NextInv, PTL DEF Spec

\* Type correctness of the order, the money, the provider and the plans.
THEOREM TypeCorrect == Spec => []TypeOK
<1>1. IInv => TypeOK
  BY DEF IInv, BaseInv
<1> QED BY <1>1, Invariance, PTL

\* An order reads REFUNDED only when the provider refunded it, whoever refunds
\* and finalizes it at the same time.
THEOREM RefundedWasReturned == Spec => []RefundedMeansReturned
<1>1. IInv => RefundedMeansReturned
  BY DEF IInv, BaseInv
<1> QED BY <1>1, Invariance, PTL

\* The move to REFUNDING excludes every other refund: of any number of
\* administrators that refund and finalize at once one gets past the claim, until
\* the late failure of a pending refund is written over a claim or a refund.
THEOREM ClaimExcludes == Spec => []ClaimIsExclusive
<1>1. IInv => ClaimIsExclusive
  BY AtMostOne DEF IInv, LockInv, ClaimIsLock, ClaimIsExclusive
<1> QED BY <1>1, Invariance, PTL

\* The roll-back never gives back more than its call deducted, even where the
\* claim excludes nobody.
THEOREM RestoredAtMostDeducted == Spec => []NeverOverRestored
<1>1. ASSUME IInv, NEW w \in Workers PROVE held[w] >= 0
  <2>1. CASE held[w] = 0
    BY <2>1
  <2>2. CASE job[w] # Idle /\ held[w] = job[w].toDeduct
    BY <1>1, <2>2, ConstantsAssumption DEF IInv, BaseInv, TypeOK, Job
  <2> QED BY <1>1, <2>1, <2>2 DEF IInv, MoneyInv, MoneyKnown
<1>2. IInv => NeverOverRestored
  BY <1>1 DEF IInv, MoneyInv, NeverOverRestored
<1> QED BY <1>2, Invariance, PTL

\* A deduction of a refund that came to nothing has been given back when the order
\* may be refunded again; what could not be given back is in stuck.
THEOREM DeductionGivenBack == Spec => []NothingWithheld
<1>1. ASSUME IInv, ~overwritten, status \notin Refunded \cup {"REFUNDING"}
      PROVE  taken = 0 /\ \A w \in Workers : held[w] = 0
  <2>1. Holding = {} /\ taken = 0
    BY <1>1 DEF IInv, LockInv, ClaimIsLock, OrderKnows
  <2>2. ASSUME NEW w \in Workers PROVE job[w] = Idle \/ job[w].at \notin HeldPoints
    BY <2>1, <2>2 DEF Holding, At, HeldPoints
  <2> QED BY <1>1, <2>1, <2>2 DEF IInv, MoneyInv, MoneyKnown
<1>2. IInv => NothingWithheld
  BY <1>1 DEF NothingWithheld
<1> QED BY <1>2, Invariance, PTL

\* A refund deducts its amount at most once, but for what is stuck.
THEOREM DeductedOnce == Spec => []DeductedOnceUnlessStuck
<1>1. IInv => DeductedOnceUnlessStuck
  BY DEF IInv, LockInv, OrderKnows, DeductedOnceUnlessStuck
<1> QED BY <1>1, Invariance, PTL

\* A refunded order stays refunded, but for the late failure of another refund
\* that finalizeRefundFailed writes over it.
THEOREM RefundedForGood == Spec => RefundIsFinal
<1>1. IInv /\ [Next]_vars =>
        [~overwritten' /\ status \in Refunded => status' = status]_vars
  BY FinalStep
<1> QED BY <1>1, Invariance, PTL DEF Spec, RefundIsFinal
=============================================================================
