------------------------ MODULE MCPaymentFulfillment ------------------------
(* A finite instance of PaymentFulfillment for TLC: one order, one delivery *)
(* of the provider's notifications, one goroutine for everything else.      *)
EXTENDS PaymentFulfillment

CONSTANTS o1, hook, client

OneOrder == {o1}
HookAndClient == {hook, client}
HookAndClientRole ==
  [w \in HookAndClient |-> IF w = hook THEN {"webhook"} ELSE Kinds \ {"webhook"}]
=============================================================================
