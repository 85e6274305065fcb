--------------------------- MODULE MCIdempotency ---------------------------
(* Finite instances of Idempotency for TLC. *)
EXTENDS Idempotency, TLC

CONSTANTS call1, call2, call3, payload1, payload2

Calls == {call1, call2, call3}
Payloads == {payload1, payload2}
CallsAlike == Permutations(Calls) \cup Permutations(Payloads)
=============================================================================
