----------------------- MODULE MCSystemOperationLock -----------------------
(* Finite instances of SystemOperationLock for TLC. *)
EXTENDS SystemOperationLock, TLC

CONSTANTS call1, call2, call3, update, rollback

Calls == {call1, call2, call3}
OperationIds == {update, rollback}
=============================================================================
