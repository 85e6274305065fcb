--------------------------- MODULE MCOAuthRefresh ---------------------------
(* A background refresh and a request's, in one process or in two. *)
EXTENDS OAuthRefresh, TLC

MCWorkers == {"b1", "q1"}
MCBackground == {"b1"}
MCProcesses == {"p1", "p2"}
MCAdmins == {"a1"}

=============================================================================
