------------------------- MODULE MCConcurrencySlots -------------------------
(* Two requests of a user with one slot and one place in the queue. *)
EXTENDS ConcurrencySlots, TLC

MCRequests == {"r1", "r2"}
MCProcesses == {"p1", "p2"}

=============================================================================
