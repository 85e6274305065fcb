----------------------------- MODULE BalanceHold -----------------------------
(***************************************************************************)
(* What the billing of batch images promises about one batch: an amount is *)
(* moved from the balance of the user to the frozen balance at most once,  *)
(* and what was frozen is afterwards either captured (paid, in whole or in *)
(* part) or released, once.  usage_billing_repo.go keeps the promise with  *)
(* one transaction per step; BatchImageBilling is shown to implement it    *)
(* for all the requests, workers and sweeps that may take such a step.     *)
(***************************************************************************)
EXTENDS Naturals

CONSTANTS
  Hold,         \* the amount a batch freezes
  Funds,        \* balances the user may have before
  OtherHolds    \* what other batches of the user may have frozen

VARIABLES
  balance,      \* users.balance
  frozen,       \* users.frozen_balance, one pool for all batches of the user
  effects,      \* the steps that moved money for this batch
  excused       \* the promise is off: what must not happen has happened

ledger == <<balance, frozen, effects>>

Init ==
  /\ balance \in Funds
  /\ frozen \in OtherHolds
  /\ effects = {}

Reserve ==
  /\ effects = {}
  /\ balance >= Hold
  /\ balance' = balance - Hold
  /\ frozen' = frozen + Hold
  /\ effects' = {"hold"}

Capture ==
  /\ effects = {"hold"}
  /\ \E cost \in 0..Hold : balance' = balance + Hold - cost
  /\ frozen' = frozen - Hold
  /\ effects' = {"hold", "capture"}

Release ==
  /\ effects = {"hold"}
  /\ balance' = balance + Hold
  /\ frozen' = frozen - Hold
  /\ effects' = {"hold", "release"}

Next == Reserve \/ Capture \/ Release

Spec == Init /\ [][excused' \/ Next]_ledger
=============================================================================
