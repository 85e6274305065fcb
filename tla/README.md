# Formal verification of the sub2api backend

TLA+ models of the stateful core of `src/sub2api/backend`, checked with TLC on
small instances, and theorems about them that TLAPS proves for every value of
the constants. Paths below are relative to `src/sub2api/backend/internal`
unless they start with `src/`.

## 1. Inventory

The repository holds two systems: a set of Python tools that register accounts
on third-party web sites (`src/grok_tool`, `src/Heygen`, `src/canva`, ...; browser
and HTTP automation, external I/O, not modelled) and **sub2api**, a gateway in Go
that sells access to AI providers. sub2api runs as several identical processes
that share PostgreSQL and Redis; every handler, sweep and retry is a goroutine
that may interleave with any other, in the same or in another process, between
any two database statements.

| Component | State it keeps | Operations | What is hard | What makes it correct |
|---|---|---|---|---|
| Payment orders and fulfilment (`service/payment_order.go`, `payment_order_lifecycle.go`, `payment_fulfillment.go`, `handler/payment_webhook_handler.go`) | `payment_orders` (status, `updated_at`, `paid_at`, trade number), `payment_audit_logs`, the provider's charge | create, notify, verify, reconcile, cancel, expire, fulfil, retry | duplicate and late notifications, a lease that is only a timestamp, unconditional status writes, crashes between transactions | credited once, only when paid, completed only when delivered, acknowledged only when handled, a payment is never lost silently |
| Redeem codes (`service/redeem_service.go`, `repository/redeem_code_repo.go`) | `redeem_codes`, user balance, a Redis lock | create, redeem | lock without owner, error after commit | a code is used once |
| Payment refunds (`service/payment_refund.go`) | order status and refund amount, balance, audits, the provider's refund | request, prepare, execute, roll back, query, finalize | two administrators, a lost answer, a failed roll-back, a pending refund, a unique audit key | never deducted twice, never withheld, refunded only when the provider refunded, refunded for good |
| System operation lock (`service/system_operation_lock_service.go`) | one row of `idempotency_records`, a renewal goroutine per holder | acquire, renew, release | stalls, lapsed leases, release by id, sweep | one operation at a time, the lock is always freed |
| Idempotency keys (`service/idempotency.go`, `repository/idempotency_repo.go`) | `idempotency_records` | execute, mark, sweep | concurrent retries, expiry, a client that leaves | one successful execution per key and life, a replay answers its own request |
| Usage billing (`service/gateway_usage_billing.go`, `repository/usage_billing_repo.go`) | `usage_billing_dedup`, balances, quotas | apply | retries from a worker pool | billed once |
| Batch image jobs (`service/batch_image_*.go`, `repository/batch_image_queue.go`, `usage_billing_repo.go`) | jobs, `balance` and `frozen_balance`, billing claims, a Redis queue | reserve, submit, resubmit, poll, index, settle, exhaust, recover, cancel | capture and release race, stale recovery against a slow submission, torn queue moves | held money is captured or released exactly once, and in the end; refunded only when the provider has stopped |
| Concurrency slots (`service/concurrency_service.go`, `repository/concurrency_cache.go`) | sorted sets and counters in Redis | acquire, refresh, release, trade a slot for a lease, wait, clean up | time to live, start-up clean-up with several processes, fail-open errors, lost answers | never more running than the limit, no member leaks, the counter stands for the waiting |
| OAuth refresh (`service/oauth_refresh_api.go`, `token_refresh_service.go`) | credentials and status of an account, a local mutex, a Redis lock | refresh, recover, quarantine, edit, authorize anew | rotation of refresh tokens, lock without owner, whole-row writes, late verdicts | the accepted token is never lost, quarantined only when refused, the newest authorization wins |
| Leader lock, scheduler snapshots and outbox, auth cache outbox | Redis lock, outbox rows, snapshots | elect, publish, poll, rebuild | lapse, gaps in the outbox, stale reads | nothing published is lost |
| Gateway forwarding, protocol conversion, web console, generated code | per request | - | I/O and formats | - |

How they interact: a paid balance order creates and redeems a **redeem code**; a
paid subscription order extends a subscription; both accrue the inviter's rebate.
A **refund** takes a completed order and moves it through its own statuses.
The **system operation lock** is one row of the **idempotency** table with its own
protocol, and the idempotency sweep deletes that row too. A **batch** freezes money
through the claims of **usage billing** and is carried by its **queue**; a request takes
a **concurrency slot** of its user and its account and the **OAuth token** of the account. All payments write
**audits** whose unique key `(order_id, action)` the code uses as a claim.

The hazards, each at its line, are listed in `PROJECT.json`.

## 2. Plan

1. *Done.* `PaymentFulfillment`, `PaymentRefund`, `SystemOperationLock`,
   `Idempotency`, each with its proofs.
2. *Done.* `BatchImageBilling` over `BatchImageQueue`, shown to implement the abstract
   `BalanceHold` by a run and by a proof; `ConcurrencySlots` and `OAuthRefresh`, each
   with its proofs.
3. *Next.* The scheduler outbox with its watermark and the snapshots read while
   they are rebuilt; the leader lock under it.

## 3. Modules

A worker is a goroutine that runs one job at a time; a job remembers where it is
(`at`) and what it read. One action is one database statement, one transaction
or one call of the provider, with everything the code decides from it. Faults
(crash, failed statement, stall) draw on one counter bounded by `MaxFaults`.

### PaymentFulfillment (`MCPaymentFulfillment`, `PaymentFulfillmentProofs`)

`row[o]` is the order's row: type, status, `fresh` (`updated_at` is less than five
minutes old: the grace period and the lease both ask this), `paidAt`, `tradeNo`.
`holders[o]` are the workers whose lease version equals the stored
`updated_at`; every save empties it, because every update sets a new timestamp.
`code[o]`, `audit[o]`, `credits[o]`, `rebates[o]` are the code, the audits that are
read back, and what was delivered; `charge[o]` and `acked[o]` are the provider's side.
`acked` tells apart what a 2xx rests on: "handled", "blind" after an order that could not
be read, "unrecorded" after a late payment whose audit could not be inserted.

| Actions | Code |
|---|---|
| `CreateOrderInTx`, `CreatePayment`, `SaveCharge`, `CreateFails` | `CreateOrder`, `createOrderInTx`, `invokeProvider` |
| `Notify`, `RejectPayment`, `ToPaid`, `NotToPaid`, `AlreadyProcessed`, `AuditFails`, `ReadFails` | `handleNotify`, `confirmPayment`, `toPaid`, `alreadyProcessed`, `writeAuditLog` |
| `VerifyOrder`, `CancelOrder`, `ExpireOrder`, `QueryPaid`, `QueryUnpaid`, `QueryFails`, `CloseCharge`, `PersistTradeNo`, `StampCancelled` | `VerifyOrderByOutTradeNo`, `CancelOrder`, `ExpireTimedOutOrders`, `checkPaidWithOptions`, `cancelCore` |
| `AcquireLease`, `AcquireRefused`, `ReloadLease` | `acquirePaymentFulfillmentLease` |
| `LookupCode`, `CreateCode`, `Redeem`, `AssignSubscription`, `ApplyRebate`, `MarkCompleted`, `MarkFailed` and their failures | `doBalance`, `doSub`, `Redeem`, `applyAffiliateRebateForOrder`, `markCompleted`, `markFailed` |
| `RetryFulfillment` | `RetryFulfillment` |
| `CustomerPays`, `OrderDue`, `FiveMinutesPass`, `RefundMoves`, `Crash` | environment |

Abstractions: the rebate is one step, as its claim, accrual and outcome (`APPLIED`
or `SKIPPED`, one value here) are one transaction;
`recoveredFromNote`, which recognises assignments of older versions, is folded into
`AssignSubscription`; the conditional update and the re-read that follows a missed
one are one step where nothing is written between them. The affiliate service is
configured. Redeeming a recharge code is one step, as it is one transaction whose
first statement is the conditional update of the code.

### PaymentRefund (`MCPaymentRefund`, `PaymentRefundProofs`)

One completed balance order. `status`, `refundAmount` are the order's row;
`balance` is the customer's balance (the order's amount, alone or with as much
from elsewhere). What its refunds deducted is in one of three histories: `held[w]`, what
the running call of `w` has deducted and not given back; `taken`, what a call that is over
kept; `stuck`, what was deducted by a statement whose answer was lost, or whose roll-back
failed, and which no code gives back. `overwritten` says that the late failure of a pending
refund was written over a refund that was claimed or made meanwhile (finding 4). `audit`
has the REFUND_ROLLBACK_FAILED that a retry looks for, which is inserted by a statement of
its own and may be missing, and REFUND_SUCCESS; `pending` is the
only REFUND_PENDING audit (the unique key drops a second one); `gw[a]` is the
provider's refund of amount `a` (providers deduplicate by order and amount).

| Actions | Code |
|---|---|
| `RequestRefund`, `SubmitRequest` | `RequestRefund` |
| `PrepareRefund`, `PrepDeduct`, `PrepDeductBlind` | `PrepareRefund`, `prepDeduct` |
| `ClaimRefund`, `DeductBalance`, `DeductAgain`, `DeductFails`, `GatewayRefund` | `ExecuteRefund`, `hasAuditLog`, `DeductAvailableBalance`, `gwRefund` |
| `RollbackRefund`, `RollbackFails`, `RestoreStatus`, `MarkRefundFailed` | `RollbackRefund`, `restoreStatus`, `handleGwFail`, `finalizeRefundFailed` |
| `MarkRefundOk`, `LogRefundOk`, `MarkRefundPending`, `LogRefundPending` | `markRefundOk`, `markRefundPending` |
| `StartFinalize`, `QueryRefund`, `FinalizeRefund` | `QueryAndFinalizeRefund`, `finalizePendingRefundSuccess` |
| `Spend`, `GatewaySettles`, `Crash`, `WriteFails` | environment |

A deduction and a roll-back that fail may have been committed; an audit that cannot be read
counts as none, as in the code; a provider's status that the code does not know counts as
a failure. Not modelled: refunds of subscription orders and orders without a trade number.

### SystemOperationLock (`MCSystemOperationLock`, `SystemOperationLockProofs`)

`lock` is the row (operation id = `request_fingerprint`, status, `live` =
`locked_until` is ahead); `aged` = `expires_at` is behind; `holders` know the id of
the present row; `loop[w]` is the operation id the renewal goroutine of `w` renews.
Actions follow `Acquire` (`AcquireNew`, `AcquireExisting`, `GetBusy`, `GetFree`,
`Reclaim`, `ReclaimRefused`, `AcquireLost`), `renewLoop` (`Renew`, `RenewFails`),
`Release` (`Release`, `ReleaseFails`) and time (`LeaseLapses`, `RenewalStalls`,
`RowExpires`, `DeleteExpired`).

### Idempotency (`MCIdempotency`, `IdempotencyProofs`)

One key. `row` is its record, the stored body known by the request it answered.
A call takes the time once, at its start: `pastLock` and `pastExpiry` are the calls
whose time is not before the row's `locked_until` and `expires_at`. Actions follow
`Execute` statement by statement. Assumptions: a new lock ends after every call in
flight began (`ProcessingTimeout`), and no execution lasts as long as its record.
Left out: metrics, redaction and truncation of the body, requests without a key.

### BatchImageBilling, BatchImageQueue, BalanceHold (`MCBatchImageBilling`, `BatchImageBillingProofs`)

One batch. `BalanceHold` says what its billing promises: nothing, then a hold, then a
capture or a release. `BatchImageQueue` is the batch's id in Redis (`ready`, `delayed`,
`active`, the de-duplication key `inflight`, the job `lock`); each operator is one Lua
script or MULTI. `BatchImageBilling` extends it with `job` (the row), the money
(`balance`, `frozen`, `effects`, and `claims`, the request ids in
`usage_billing_dedup`), the `provider`'s job and its `output`, `served` (the account
exists and suits the provider), and with the point at which the submission, a cancellation, the sweep and every queue worker is. `forgotten`
is history: "hold" when whoever would resolve the hold has died or given up,
"upstream" when the provider's job was left to itself, "results" when a job was failed
that another worker had indexed (finding 15), "capture" when the last retry was counted
although a capture was committed or under way (finding 10). `GivenUpLate` is one of the
last two.

| Actions | Code |
|---|---|
| `CreateJob` ... `EnqueueSubmitted`, `Resubmit`, `TouchSubmitting`, `ReleaseFailedSubmit`, `AbortOrphanProviderJob` | `Submit` and what it defers |
| `CancelRequested` ... `CancelReleases` | `Cancel` |
| `JobGoesStale`, `FailStaleUnsubmitted`, `RecoverReleases`, `RecoverEnqueues` | `ReleaseStaleUnsubmittedOnce` |
| `ReserveJob`, `LockJob`, `LockConflict`, `Unlock`, `StepFails` | `BatchImageWorker.RunOnce` |
| `Load`, `Process`, `Poll`, `Transition`, `Index`, `ReleaseTerminal` | the processors |
| `Settle`, `Capture`, `RecordFailure`, `Exhaust`, `FailExhausted`, `MarkSettled` | the settlement service |
| `ProviderEnds`, `AccountLeaves`, `DelayedDue`, `ActiveStale`, `JobLockLapses`, `SubmitCrashes`, `CancelCrashes`, `RecoverCrashes`, `WorkerCrashes` | environment |

The `LedgerIsKept` property is the refinement: `Ledger == INSTANCE BalanceHold WITH ...`
maps `balance`, `frozen` and `effects` to themselves and the abstract `excused`, which
turns the promise off, to `GivenUpLate`. Nothing else is excused: a job lock that lapses
under a worker is not. A statement that may commit and yet be answered with an
error is modelled both ways. An account that leaves, or an output that is "missing", is
permanent and no fault: the queue tries such a batch for ever (`Stranded`, finding 17).
The checks for a missing key or account id at the head of the settlement
(`batch_image_settlement.go:103-108`) are left out: a job is created with both
(`batch_image_public.go:264`) and nothing clears them.

### ConcurrencySlots (`MCConcurrencySlots`, `ConcurrencySlotsProofs`)

One user (an account has the same sets). `slot[r]` and `live[r]` say whether request
`r` is a member of the two sorted sets, and whether its score is older than the time
to live; `waitCount` is the counter. `req[r]` is where a request is, on which process,
whether it was given a slot (`holds`) and has incremented the counter; `server[p]` is
the start of a process. A request whose client has left is at "drain": its slot is free and its
upstream goes on. `evicted`, `leaked`, `miscounted` are history: who lost its
member while it ran, decrements that were lost, a counter that may be too low.

| Actions | Code |
|---|---|
| `Acquire`, `AcquireRefused`, `AcquireFails`, `Release`, `ReleaseFails`, `Disconnect`, `Drained` | `acquireScript`, `AcquireUserSlot`, `ReleaseUserSlot`, `wrapReleaseOnDone` |
| `Increment`, `QueueFull`, `IncrementFails`, `StopWaiting`, `Decrement`, `DecrementFails` | wait scripts, `acquireUserSlotWithWaitTimeout` |
| `AcquireLiveLease`, `LeaseRefused`, `HandOver`, `CreateFails`, `RefreshLiveLease`, `EndSession`, `ReleaseLiveLease` | `openai_live.go` |
| `Start`, `CleanSlots`, `DeleteWait`, `CleanupFails` | `CleanupStaleProcessSlots` |
| `SlotAges`, `LeaseAges`, `KeyExpires`, `WaitExpires`, `GetConcurrency`, `Crash`, `Arrive`, `Leave` | time, counts, environment |

### OAuthRefresh (`MCOAuthRefresh`, `OAuthRefreshProofs`)

One account. A token `[chain, seq]` stands for the tokens issued together; a
refresh replaces `seq` by the next one, an authorization by an administrator starts
a chain, and `live` is what the provider accepts of each chain. `db` is the row (token,
the rest of the credentials as a revision, status, schedulable, cool-down), `lock` the
Redis lock with the worker that set it (the code does not look at it), `worker` and
`admin` where each call is and the row it has read. `dropped`, `rolledBack` and
`raced` are history: tokens that were thrown away before they were stored, tokens written
back over their successors, accepted tokens left in a quarantined row. A refusal that the
code takes for permanent is taken to mean that the provider does not accept the token;
only after `invalid_grant` is the row read again, so `RecoverFromRace` chooses.

| Actions | Code |
|---|---|
| `EnterCycle`, `EnterRequest`, `Lock`, `LockHeld`, `LockFails`, `Read`, `ReadFails`, `CallProvider`, `ProviderFails`, `RecoverFromRace`, `Store`, `StoreFails`, `Unlock`, `UnlockFails` | `RefreshIfNeeded`, `GetAccessToken` |
| `Retry`, `AttemptTimesOut`, `Condemn`, `CondemnFails`, `CoolDown`, `Publish` | `refreshWithRetryWithRateGate`, `postRefreshActions` |
| `BeginEdit`, `BeginRefresh`, `BeginAuthorize`, `AdminCall`, `AdminRead`, `AdminWrite`, `AdminClear`, `AdminCallFails`, `AdminFails`, `AdminClearFails`, `MakeSchedulable` | `UpdateAccount`, `refreshSingleAccount`, `ApplyOAuthCredentials`, `ClearAccountError` |
| `Expire`, `Revoke`, `LockExpires`, `CooldownEnds`, `Crash` | the provider, time, environment |

The platform is a choice of the initial state: a Grok account writes its result and its
verdict only if the credentials are still the ones it used, the others write
unconditionally. A write whose answer is lost (`Store`) is committed and
treated by the caller as failed. An administrator's call runs under the context of the
HTTP request and may end at every point, after the provider has rotated the token too.

## 4. Runs

| Run | Result | Instance and bounds |
|---|---|---|
| `payment_fulfillment` | pass | one order (of either type), one webhook goroutine, one for all else, 2 faults (99,575 states) |
| `payment_refund` | pass | amount 2, one administrator call at a time, the customer, 2 faults (956,375 states) |
| `refund_two_admins` | pass | amount 1, two administrators who refund and finalize, the customer, 1 fault (1,358,498 states) |
| `refund_deducts_twice` | violation | as `payment_refund`, 1 fault |
| `system_lock` | pass | 3 calls, 2 operation ids, 1 fault |
| `system_lock_renewal` | violation | 3 calls, 2 operation ids, no fault |
| `idempotency` | pass | 3 requests, 2 payloads, 1 fault |
| `batch_image` | pass | hold 2, cost 1, a balance of 1 or 2, 2 frozen for others, 2 workers, 2 settlement retries, 2 faults (478,256 states) |
| `batch_hold_leak` | violation | same, no fault |
| `concurrency_slots` | pass | 2 requests, 2 processes, limit 1, queue limit 1, 1 start, 2 faults (179,554 states) |
| `oauth_refresh` | pass | a background worker and one for requests, 1 or 2 processes, 1 administrator, 2 attempts, 1 expiry per chain, 1 request, 1 operation, 2 faults (560,150 states) |
| `oauth_edit_rolls_back` | violation | same, no request and no fault |

Why the bounds are enough. *Orders* do not interact in the code that is modelled
(every statement names one order), so one order shows all behaviours; the proofs
cover any number. *Two workers* give every race of two jobs; with two faults a
worker can stall, be overtaken, and the overtaker die. *Amount 2* is the least
that has a partial refund, and two refunds the provider tells apart; a deduction that is
repeated takes two faults, a roll-back that fails and a record that cannot be read. *Three calls*
on the lock and on a key are the holder, one that takes over and one that acts
on what it read before. *Symmetry* is used for identical workers and payloads
and only in runs without liveness properties. Deadlock is checked where the
system never stops (`system_lock`, `idempotency`); an order, a batch and a bounded
account reach a final state. *Batch:* a balance of 1 refuses the hold, one of 2 grants
it; frozen money of others is there to be taken by mistake; two workers hold the job
when its lock lapses; a retry limit of 2 (5 in the code) is reached without a fault by
images that cost more than their hold, and by two lost answers of a capture, which is
finding 10. The proofs hold for any limits. *Slots:* with one slot two
requests compete, wait and are evicted; a second process is one that starts
beside a live one. *OAuth:* two faults let a lock lapse under a stalled worker and
lose an answer as well.

What the passing runs show is in `PROJECT.json`, property by property, with a mutant
for each: a plausible bug that breaks it. A property that names exceptions excludes, by a
history variable, just the behaviour of a finding or of a fault: `AckedMeansHandled` and
`PaidIsSettled` the blind and the unrecorded acknowledgement (finding 1), `ClaimIsExclusive`,
`NothingWithheld`, `DeductedOnceUnlessStuck` and `RefundIsFinal` what `overwritten` says (4),
and the money in `stuck` (2, 16), `ExclusiveUnlessOverrun` (5), `OneEffectUnlessStale` (6),
`RefundedMeansStopped` (9), `LedgerIsKept` and `CompletedIsPaid` (10, 15), `HeldIsResolved`
the stranded batches (17) and keepers that died, `LimitKept` (11, 18) and
`WaitersAreCounted` (11), `TokenIsKept` (12, 20), `QuarantineIsDeserved` (13, 19).
`RefundingEnds` speaks of runs without a fault: after one an order may stay in REFUNDING,
as no code path leaves that status but the refund itself.

### Findings

Those with a run's name are shown by it; the others came up while modelling,
with the lines in `PROJECT.json`.

1. A full payment of an order that expired more than five minutes ago is
   acknowledged, put on record, if the insert succeeds, and never delivered; the
   documentation promises automatic reconciliation.
2. `refund_deducts_twice`: after a failed roll-back, a refund that goes through
   "pending" deducts again, and together they deduct more than the order credited.
3. A refund without deduction deducts when it goes through "pending".
4. The late failure of a pending refund overwrites REFUNDED.
5. `system_lock_renewal`: the second and every later holder of the lock row cannot
   renew its lease, so two system operations may run at once.
6. A stale reclaim of an expired idempotency record executes a request twice.
7. Orders that FAILED at creation cannot be retried, although the documentation
   says of FAILED that the administrator can.
8. `batch_hold_leak`: a cancellation that overtakes the reservation takes the claim of
   the release; the money frozen afterwards is never released.
9. A cancellation that read the job before the provider accepted it refunds the user
   while the provider's job goes on.
10. When the last retry is counted although a capture was committed (its answers were
    lost) or another worker is about to capture, the hold is released as well.
11. A starting process removes slots and wait counters of live processes, which its
    comment takes for dead ones.
12. `oauth_edit_rolls_back`: an edit of an account writes a used refresh token back.
13. Accounts other than Grok are quarantined unconditionally, a token that an
    administrator has just authorized included.
14. Clearing an account's error leaves it unschedulable.
15. A worker whose indexing fails turns a job into failed that another worker has indexed
    meanwhile and is settling, and releases its hold.
16. The record of a failed roll-back is best effort and an error of reading it counts as
    "none": a retry then deducts a second time.
17. A batch whose account or output is gone for good is requeued for ever, and its owner
    cannot cancel it: the hold stays frozen.
18. When the client leaves, the slot is freed although the upstream is read to its end.
19. Refusals other than `invalid_grant` quarantine an account without reading its row
    again, the loser of a race included.
20. An administrator's refresh loses the rotated token when its write fails.

### Fairness

`PaymentFulfillment`: a started job runs (every call has a timeout), time passes,
and the provider repeats a notification until it gets a 2xx. Nobody is assumed to
pay, verify, cancel or retry. `PaymentRefund`: only started jobs run.
`SystemOperationLock`: calls, operations (their context has a deadline) and renewal
loops run, and a lease nobody extends lapses. `Idempotency` states no liveness.
`BatchImageBilling`: started calls end, the loops of the workers and of the sweep go
on, delays and abandoned locks lapse, and the provider finishes a job; nobody is assumed to submit
or cancel, and a crash leaves what it leaves. `ConcurrencySlots`: scores age, Redis
deletes keys, and a request that has arrived goes on (calls have timeouts, a client
leaves); nobody is assumed to arrive or start. `OAuthRefresh`: the service cycles and
finishes what it began, and the lock expires; failures of the provider are faults and
bounded, as every attempt after them is.

## 5. Proofs

TLAPS checks every theorem from the assumption `ConstantsAssumption` of the module
(the roles are sets of kinds, the idle and absent values are none of the others,
the bounds are natural numbers, the requests of `ConcurrencySlots` are finitely many);
orders, workers, processes, operation ids and faults are arbitrary. `ConcurrencySlots` and
`OAuthRefresh` name theirs `SlotsAssumption` and `OAuthAssumption`, `BatchImageBilling` its
`BatchAssumption` (a positive hold, a cost within the hold, at least one retry).

**PaymentFulfillment** (`Spec => []...`): `TypeOK`, `CreditedAtMostOnce`,
`CreditedOnlyIfPaid`, `CompletedMeansDelivered`, `AckedMeansHandled`, and as action
properties `SettledIsFinal` and `OnlyHolderFinishes`. The safety properties are not
inductive: that the order is credited once depends on what a worker in the
middle of a delivery has seen. `IInv` adds to them:
- `CreationInv`: one worker creates the order, and nobody can pay before it is done;
- `PaidInv`: a job past the amount check works on a paid charge;
- `LedgerInv`: the credits equal what the code and the audit table say, so that the
  conditional update of the code and the unique audit each count once;
- `DeliveryInv`: a worker about to complete has delivered, one about to
  acknowledge as already processed has seen an order that is past payment; what a failed
  statement made it acknowledge is not called handled.

Each part has its own preservation lemma with one step per action; `Invariance`
combines them.

**SystemOperationLock**: `TypeOK` and `ExclusiveUnlessOverrun`. `RunningIsAlone` says that
until a lease lapses under an operation, whoever runs is alone *and the row is
locked*, which is what makes the reads of the others harmless; `AgedIsUnlocked` keeps
the sweep away from a locked row. The bound on the number of running operations
follows with the library's facts about cardinalities. `NamedOperationKeepsLease`, an
action property, needs one more part, `RunnerRenews`: until a lease lapses under an
operation, the renewal loop of an operation that runs and that the row names is alive and
renews under the id of the row, so that only its stall, a fault, can end the lease.

**PaymentRefund**: `TypeOK`, `RefundedMeansReturned`, `ClaimIsExclusive`, `NeverOverRestored`,
`NothingWithheld`, `DeductedOnceUnlessStuck` and the action property `RefundIsFinal`, for any
number of administrators who refund and finalize at once. `IInv` has three parts:
- `BaseInv`: whoever is about to write a refunded status has seen a refund of the provider;
- `MoneyInv`: a call holds what its plan says it deducted, between the deduction and the
  roll-back or the mark, and nothing elsewhere. It speaks of no other call, so it needs no
  lock, and a roll-back returns what was taken whoever else is at work;
- `LockInv`: until the late failure of a pending refund is written over another one
  (finding 4), one worker at most is past the claim, the status is REFUNDING as long as
  there is one (no other conditional update accepts that status, so it is the lock), and
  what the order says of the money is true: nothing was taken for good, or no more than
  the refunded amount.

**Idempotency**: `TypeOK`, `OneEffectUnlessStale`, `ReplayIsOwn`, `StuckOnlyAfterFault`.
`HoldersMatch` says that whoever knows the row's id has the row's fingerprint, that
whoever executes knows it, and that the stored body answers that fingerprint: so a
row that was swept and created anew is never confused with the old one. `OneExecutes` says
that without a stale reclaim one call executes at a time, the row says "processing" as
long as it does, and none follows a success.

**BatchImageBilling**: `TypeOK` (neither balance goes below 0), `InflightIsQueued`,
`RefundedMeansStopped`, `CompletedIsPaid`, and the refinement `LedgerIsKept`, for any number
of workers, of which any number may have the job at once: no proof step uses the job
lock. `IInv` adds
- `ClaimsInv`: the claims say what moved, but for a release that moved nothing, and a
  submission goes on only after its reservation;
- `RowInv`: the point of the submission, a cancellation and the sweep says what the row
  is like (a submission that has not recorded the provider's job finds none there);
- `Seen(w)`: what worker `w` has read of the row and of the provider stays true;
- `ProviderInv`: a provider's job that runs and is not forgotten is on its way to be
  recorded or given up, or it is recorded and nobody has released the hold;
- `SettleInv`: unless the job was given up too late, a captured job is settling with
  retries left or completed, a job that may still be captured is not released, and each
  worker in the settlement knows on which side it is (`Knows`, `Paid`).

For the refinement, `LedgerStep` shows that every step is one of `BalanceHold` or leaves the
money alone: a reservation finds no effect before it, by `ClaimsInv` and the point of the
submission; a capture and a release find the hold alone, by the claims, and by `SettleInv` not
each other.

**ConcurrencySlots**: `TypeOK`, `LimitKept`, `NoGhostWaiters`, `WaitersAreCounted`. `IInv`
is `TypeOK`, `LimitKept` and `Waits`. Whatever removes a member of somebody who runs
(expiry, a starting process, a client that leaves, a deleted key) puts it in `evicted` in
the same step, so those who run and are not evicted are members of the two sets; they grow only in
`Acquire`, which has just counted the members (`AcquireKeepsLimit`). `Waits` adds
to the two properties of the counter that only requests in the queue are counted
(`Queued`), so that each increment and decrement moves both sides by one (`Joins`,
`Leaves`).

**OAuthRefresh**: `TypeOK`, `TokenIsKept`, `QuarantineIsDeserved`, and as an action
property `AuthorizationIsKept`. `IInv` is `Types`, `Sound`, `Callers`, `Refusals` and the two
properties. `Sound` says where tokens are: each one is out (in the row, or in a copy
somebody has read) and then issued, or it is in exactly one hand, is the last of its
chain and is not out; without it a refresh could be answered with a token somebody
else has. `Callers` says that an administrator who calls the provider is refreshing,
`Refusals` that the token of a worker about to condemn is not accepted. The lemmas `Fewer`, `Stored`, `Rotated`, `Revoked` and `Authorized` show
`Sound` for the five things that can happen to tokens, so each action needs
only to be recognised as one of them.

Model-checked only: liveness (`PaidIsSettled`, `RefundingEnds`, `LockIsFreed`,
`HeldIsResolved`, `LeftMemberEnds`, `RefreshedOrSetAside`; fairness and ENABLED are beyond
the prover). Every invariant and action property of a passing run, and the refinement,
is a theorem.

## 6. Not modelled

The table of components in `PROJECT.json` gives the reason for each. In short:

- *Left for later:* the scheduler's outbox and snapshots (its watermark may skip a row
  that commits late: a hazard without a property), the invalidation outbox of the auth
  cache, the leader lock (nothing modelled rests on it: sweeps may run twice here).
- *Left out of modelled components:* refunds of subscription orders, the limits of
  orders per user, redemption by users, `Apply` of usage billing (one
  transaction behind one claim), the clean-up of batch outputs, ingress leases, the
  cache of access tokens and the requests' handling of a 401.
- *I/O and formats:* gateway forwarding, protocol conversion, web console, the
  registration tools.
- *Generated:* ent code and migrations; they are the bulk of the repository's lines,
  and the share of lines the models stand for is small for that reason.
