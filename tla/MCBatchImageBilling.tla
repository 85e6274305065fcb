------------------------- MODULE MCBatchImageBilling -------------------------
(* Two server instances, one batch of a user with another batch running. *)
EXTENDS BatchImageBilling, TLC

MCFunds == {1, 2}
MCOtherHolds == {2}
MCWorkers == {"w1", "w2"}

=============================================================================
