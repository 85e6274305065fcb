-------------------------- MODULE MCPaymentRefund --------------------------
(* Finite instances of PaymentRefund for TLC. *)
EXTENDS PaymentRefund, TLC

CONSTANTS admin1, admin2, customer

\* One administrator, one call at a time, and the customer.
AdminAndCustomer == {admin1, customer}
AdminAndCustomerRole ==
  [w \in AdminAndCustomer |->
     IF w = customer THEN {"request"} ELSE {"refund", "finalize"}]

\* Two administrators who refund and finalize at the same time.
TwoAdmins == {admin1, admin2, customer}
TwoAdminsRole ==
  [w \in TwoAdmins |-> IF w = customer THEN {"request"} ELSE {"refund", "finalize"}]
AdminsAlike == Permutations({admin1, admin2})
=============================================================================
