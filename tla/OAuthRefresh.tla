----------------------------- MODULE OAuthRefresh -----------------------------
(***************************************************************************)
(* Refreshing the OAuth token of one account (oauth_refresh_api.go,        *)
(* token_refresh_service.go): the workers of every process that may        *)
(* refresh it, the lock they share in Redis, the account's row in          *)
(* PostgreSQL, the administrators who edit it, and the provider, which     *)
(* replaces a refresh token when it is used.                               *)
(*                                                                         *)
(* A token stands for the access and the refresh token issued together;    *)
(* the tokens of a chain replace each other, and an authorization by an    *)
(* administrator starts a chain.  The provider accepts the last token of   *)
(* a chain only.  The account's platform is a choice: for a Grok account   *)
(* the code compares the credentials with those it used when it writes.    *)
(***************************************************************************)
EXTENDS Naturals, Sequences, FiniteSets

CONSTANTS
  Workers,          \* calls of RefreshIfNeeded
  Background,       \* those of TokenRefreshService; the others serve requests
  Processes,
  Admins,
  Nobody,           \* the holder of a free lock
  MaxAttempts,      \* attempts of a background refresh
  MaxTokens,        \* bound on the tokens of a chain that expire
  MaxRequests,      \* bound on the refreshes requests begin
  MaxOperations,    \* bound on what administrators do
  MaxFaults         \* bound on crashes, timeouts and commands that fail

ASSUME OAuthAssumption ==
  /\ Background \subseteq Workers
  /\ Nobody \notin Workers
  /\ MaxAttempts \in Nat \ {0} /\ MaxTokens \in Nat
  /\ MaxRequests \in Nat /\ MaxOperations \in Nat /\ MaxFaults \in Nat

VARIABLES
  grok,       \* the account is a Grok account
  home,       \* the process of each worker
  db,         \* the account's row
  live,       \* the token the provider accepts of each chain, 0 when revoked
  expiring,   \* tokens that need a refresh
  lock,       \* oauth:refresh_lock:{key}
  worker, admin,
  dropped,    \* tokens that were thrown away before they were stored, by history
  rolledBack, \* tokens written over their successors, by history
  raced,      \* accepted tokens in a quarantined row, by history
  requests, operations, faults

world == <<grok, home>>
tokens == <<live, expiring>>
history == <<dropped, rolledBack, raced>>
bounds == <<requests, operations, faults>>
vars == <<world, db, tokens, lock, worker, admin, history, bounds>>

Token == [chain : Nat \ {0}, seq : Nat \ {0}]

Row == [token : Token,
        rev : Nat,              \* the rest of the credentials
        status : {"active", "error"},
        schedulable : BOOLEAN,
        cooldown : BOOLEAN]     \* out of retries, temp_unschedulable_until

FirstRow == [token |-> [chain |-> 1, seq |-> 1], rev |-> 0, status |-> "active",
             schedulable |-> TRUE, cooldown |-> FALSE]

\* What the callers of RefreshIfNeeded do next.
Results == {"idle", "retry", "condemn", "coolDown", "publish"}

Points == Results \cup {"lock", "read", "call", "refused", "store", "unlock"}

Worker == [at : Points,
           next : Results,      \* what follows the return of RefreshIfNeeded
           row : Row,           \* the row it has read
           locked : BOOLEAN,    \* it will delete the lock
           attempt : 0..MaxAttempts]

Resting == [at |-> "idle", next |-> "idle", row |-> FirstRow, locked |-> FALSE,
            attempt |-> 0]

Admin == [at : {"idle", "call", "read", "write", "clear"},
          does : {"edit", "refresh", "authorize"},
          token : Token,        \* the one it brings
          row : Row]

Away == [at |-> "idle", does |-> "edit", token |-> FirstRow.token, row |-> FirstRow]

TypeOK ==
  /\ grok \in BOOLEAN /\ home \in [Workers -> Processes]
  /\ db \in Row
  /\ live \in Seq(Nat) /\ expiring \subseteq Token
  /\ lock \in Workers \cup {Nobody}
  /\ worker \in [Workers -> Worker]
  /\ admin \in [Admins -> Admin]
  /\ dropped \subseteq Token /\ rolledBack \subseteq Token /\ raced \subseteq Token
  /\ requests \in 0..MaxRequests
  /\ operations \in 0..MaxOperations
  /\ faults \in 0..MaxFaults

Init ==
  /\ grok \in BOOLEAN /\ home \in [Workers -> Processes]
  /\ db = FirstRow
  /\ live = <<1>> /\ expiring = {}
  /\ lock = Nobody
  /\ worker = [w \in Workers |-> Resting]
  /\ admin = [a \in Admins |-> Away]
  /\ dropped = {} /\ rolledBack = {} /\ raced = {}
  /\ requests = 0 /\ operations = 0 /\ faults = 0

-----------------------------------------------------------------------------
(* The provider *)

Successor(token) == [token EXCEPT !.seq = @ + 1]

Accepted(token) == live[token.chain] = token.seq

Rotate(token) == live' = [live EXCEPT ![token.chain] = token.seq + 1]

Fault == faults < MaxFaults /\ faults' = faults + 1 /\ UNCHANGED <<requests, operations>>

\* The access token comes near its end.
Expire ==
  /\ db.token \notin expiring /\ db.token.seq <= MaxTokens
  /\ expiring' = expiring \cup {db.token}
  /\ UNCHANGED <<world, db, live, lock, worker, admin, history, bounds>>

\* The owner of the account ends the authorization.
Revoke ==
  /\ Fault
  /\ live[db.token.chain] # 0
  /\ live' = [live EXCEPT ![db.token.chain] = 0]
  /\ UNCHANGED <<world, db, expiring, lock, worker, admin, history>>

-----------------------------------------------------------------------------
(* RefreshIfNeeded *)

At(w, point) == worker[w].at = point

Goto(w, point) == worker' = [worker EXCEPT ![w].at = point]

Rest(w) == worker' = [worker EXCEPT ![w] = Resting]

\* The deferred release of the lock, then what the caller does.
Return(w, next) == worker' = [worker EXCEPT ![w].at = "unlock", ![w].next = next]

Proceed(w) ==
  LET next == worker[w].next
  IN worker' = [worker EXCEPT
       ![w] = IF next = "idle" THEN Resting
              ELSE [@ EXCEPT !.at = next, !.next = "idle", !.locked = FALSE]]

\* A worker between the locking and the unlocking of the mutex of its process.
Inside(w) ==
  worker[w].at \in {"lock", "read", "call", "refused", "store", "unlock"}

MutexFree(w) == \A v \in Workers : home[v] = home[w] => ~Inside(v)

\* The tokens in the hand of a worker that has not stored them, and of an
\* administrator who has not.
InHand ==
  {Successor(worker[w].row.token) : w \in {v \in Workers : At(v, "store")}} \cup
  {admin[a].token : a \in {b \in Admins : /\ admin[b].does = "refresh"
                                          /\ admin[b].at \in {"read", "write"}}}

\* What ListOAuthRefreshCandidatePage lists.
Candidate == db.status = "active" /\ db.schedulable /\ ~db.cooldown

NeedsRefresh(row) == row.token \in expiring

\* The next cycle of the background service finds the account.
EnterCycle(w) ==
  /\ w \in Background /\ At(w, "idle")
  /\ Candidate /\ NeedsRefresh(db)
  /\ MutexFree(w)
  /\ worker' = [worker EXCEPT ![w] = [Resting EXCEPT !.at = "lock", !.attempt = 1]]
  /\ UNCHANGED <<world, db, tokens, lock, admin, history, bounds>>

Retry(w) ==
  /\ At(w, "retry")
  /\ MutexFree(w)
  /\ worker' = [worker EXCEPT ![w] = [Resting EXCEPT !.at = "lock",
                                                     !.attempt = worker[w].attempt + 1]]
  /\ UNCHANGED <<world, db, tokens, lock, admin, history, bounds>>

\* A request was given the account, and finds its token expiring.
EnterRequest(w) ==
  /\ w \in Workers \ Background /\ At(w, "idle")
  /\ requests < MaxRequests /\ requests' = requests + 1
  /\ Candidate /\ NeedsRefresh(db)
  /\ MutexFree(w)
  /\ Goto(w, "lock")
  /\ UNCHANGED <<world, db, tokens, lock, admin, history, operations, faults>>

Lock(w) ==
  /\ At(w, "lock")
  /\ lock = Nobody
  /\ lock' = w
  /\ worker' = [worker EXCEPT ![w].at = "read", ![w].locked = TRUE]
  /\ UNCHANGED <<world, db, tokens, admin, history, bounds>>

\* LockHeld: the caller leaves it to the holder.
LockHeld(w) ==
  /\ At(w, "lock")
  /\ lock # Nobody
  /\ Rest(w)
  /\ UNCHANGED <<world, db, tokens, lock, admin, history, bounds>>

\* Redis fails: refresh without the lock, and without deleting it should only
\* the answer to SETNX have been lost.
LockFails(w) ==
  /\ Fault
  /\ At(w, "lock")
  /\ lock' \in {lock} \cup (IF lock = Nobody THEN {w} ELSE {})
  /\ Goto(w, "read")
  /\ UNCHANGED <<world, db, tokens, admin, history>>

\* Read the row again: it may be quarantined, or refreshed, by now.
Read(w) ==
  /\ At(w, "read")
  /\ LET refreshable == /\ db.status = "active"
                        /\ (grok /\ w \notin Background) => (db.schedulable /\ ~db.cooldown)
                        /\ NeedsRefresh(db)
     IN worker' = [worker EXCEPT
          ![w] = IF refreshable THEN [@ EXCEPT !.at = "call", !.row = db]
                                ELSE [@ EXCEPT !.at = "unlock", !.next = "idle"]]
  /\ UNCHANGED <<world, db, tokens, lock, admin, history, bounds>>

ReadFails(w) ==
  /\ Fault
  /\ At(w, "read")
  /\ Return(w, "idle")
  /\ UNCHANGED <<world, db, tokens, lock, admin, history>>

\* Mutant: a background refresh retries for ever.
RetryForever(w) == IF w \in Background THEN "retry" ELSE "idle"

\* What a failed attempt leads to: requests do not retry.
AfterFailure(w) ==
  IF w \notin Background THEN "idle"
  ELSE IF worker[w].attempt < MaxAttempts THEN "retry" ELSE "coolDown"

CallProvider(w) ==
  /\ At(w, "call")
  /\ IF Accepted(worker[w].row.token)
     THEN Rotate(worker[w].row.token) /\ Goto(w, "store")
     ELSE live' = live /\ Goto(w, "refused")
  /\ UNCHANGED <<world, db, expiring, lock, admin, history, bounds>>

\* The provider cannot be reached.
ProviderFails(w) ==
  /\ Fault
  /\ At(w, "call")
  /\ Return(w, AfterFailure(w))
  /\ UNCHANGED <<world, db, tokens, lock, admin, history>>

\* The attempt times out on the answer: what comes late is never stored.
AttemptTimesOut(w) ==
  /\ Fault
  /\ At(w, "store")
  /\ dropped' = dropped \cup {Successor(worker[w].row.token)}
  /\ Return(w, AfterFailure(w))
  /\ UNCHANGED <<world, db, tokens, lock, admin, rolledBack, raced>>

\* The provider has refused the token.  After invalid_grant the row is read
\* again: another refresh may have used the token (tryRecoverFromRefreshRace).
\* After refresh_token_reused and the other refusals it is not, and a reading
\* that fails counts as no recovery.
RecoverFromRace(w) ==
  /\ At(w, "refused")
  /\ \E reread \in BOOLEAN :
       Return(w, IF \/ reread /\ db.token # worker[w].row.token
                    \/ w \notin Background /\ ~grok
                 THEN "idle" ELSE "condemn")
  /\ UNCHANGED <<world, db, tokens, lock, admin, history, bounds>>

\* A Grok account is left alone for the cycle, another is tried again.
AfterUnstored(w) == IF grok THEN "idle" ELSE AfterFailure(w)

\* The credentials are still the ones the worker has used.
Unchanged(w) == db.token = worker[w].row.token /\ db.rev = worker[w].row.rev

\* Mutant: the update of a Grok account compares nothing.
StoreUnconditionally(w) ==
  /\ At(w, "store")
  /\ LET row == worker[w].row
     IN /\ db' = [db EXCEPT !.token = Successor(row.token), !.rev = row.rev]
        /\ Return(w, "publish")
  /\ UNCHANGED <<world, tokens, lock, admin, history, bounds>>

\* Mutant: the merge of the credentials keeps the old refresh token.
StoreOldToken(w) ==
  /\ At(w, "store")
  /\ db' = db
  /\ Return(w, "publish")
  /\ UNCHANGED <<world, tokens, lock, admin, history, bounds>>

\* UpdateGrokOAuthCredentialsIfUnchanged, or persistAccountCredentials; the
\* answer to the update may be lost.
Store(w) ==
  /\ At(w, "store")
  /\ LET row == worker[w].row
     IN IF grok /\ ~Unchanged(w)
        THEN /\ dropped' = dropped \cup {Successor(row.token)}
             /\ UNCHANGED <<db, raced, bounds>>
             /\ Return(w, "idle")
        ELSE /\ db' = [db EXCEPT !.token = Successor(row.token), !.rev = row.rev]
             /\ dropped' = dropped
             /\ raced' = raced \cup
                  (IF db.status = "error" THEN {Successor(row.token)} ELSE {})
             /\ \/ /\ Return(w, IF w \in Background THEN "publish" ELSE "idle")
                   /\ UNCHANGED bounds
                \/ Return(w, AfterUnstored(w)) /\ Fault
  /\ UNCHANGED <<world, tokens, lock, admin, rolledBack>>

StoreFails(w) ==
  /\ Fault
  /\ At(w, "store")
  /\ dropped' = dropped \cup {Successor(worker[w].row.token)}
  /\ Return(w, AfterUnstored(w))
  /\ UNCHANGED <<world, db, tokens, lock, admin, rolledBack, raced>>

\* The deferred releaseRefreshLock deletes the lock, whoever holds it by now.
Unlock(w) ==
  /\ At(w, "unlock")
  /\ lock' = IF worker[w].locked THEN Nobody ELSE lock
  /\ Proceed(w)
  /\ UNCHANGED <<world, db, tokens, admin, history, bounds>>

UnlockFails(w) ==
  /\ Fault
  /\ At(w, "unlock") /\ worker[w].locked
  /\ Proceed(w)
  /\ UNCHANGED <<world, db, tokens, lock, admin, history>>

\* An attempt of the background service, and of a request for a Grok account,
\* is shorter than the lock; one of another request may outlive it.
Bounded(w) == grok \/ w \in Background

\* Mutant: SETNX without a time to live.
LockStays == FALSE /\ UNCHANGED vars

LockExpires ==
  /\ lock # Nobody
  /\ ~(worker[lock].locked /\ Bounded(lock))
  /\ lock' = Nobody
  /\ UNCHANGED <<world, db, tokens, worker, admin, history, bounds>>

-----------------------------------------------------------------------------
(* What the callers do with the result *)

Quarantined(row) == [row EXCEPT !.status = "error", !.schedulable = FALSE]

\* Mutant: a Grok account is quarantined whatever its credentials are by now.
CondemnUnconditionally(w) ==
  /\ At(w, "condemn")
  /\ db' = Quarantined(db)
  /\ raced' = raced
  /\ Rest(w)
  /\ UNCHANGED <<world, tokens, lock, admin, dropped, rolledBack, bounds>>

\* SetGrokOAuthRefreshErrorIfCredentialsUnchanged, or SetError.
Condemn(w) ==
  /\ At(w, "condemn")
  /\ LET applies == grok => Unchanged(w) /\ db.status = "active"
     IN IF applies
        THEN /\ db' = Quarantined(db)
             /\ raced' = raced \cup ({db.token} \ {worker[w].row.token})
        ELSE UNCHANGED <<db, raced>>
  /\ Rest(w)
  /\ UNCHANGED <<world, tokens, lock, admin, dropped, rolledBack, bounds>>

CondemnFails(w) ==
  /\ Fault
  /\ At(w, "condemn")
  /\ Rest(w)
  /\ UNCHANGED <<world, db, tokens, lock, admin, history>>

\* SetTempUnschedulable, for Grok only while the credentials are unchanged.
CoolDown(w) ==
  /\ At(w, "coolDown")
  /\ db' = [db EXCEPT !.cooldown =
              @ \/ ~grok \/ (Unchanged(w) /\ db.status = "active")]
  /\ Rest(w)
  /\ UNCHANGED <<world, tokens, lock, admin, history, bounds>>

CooldownEnds ==
  /\ db.cooldown
  /\ db' = [db EXCEPT !.cooldown = FALSE]
  /\ UNCHANGED <<world, tokens, lock, worker, admin, history, bounds>>

\* postRefreshActions ends the cooldown it has read in the row; a Grok row was
\* read once more after the write, when the cooldown may have been another.
Publish(w) ==
  /\ At(w, "publish")
  /\ \E read \in (IF grok THEN BOOLEAN ELSE {worker[w].row.cooldown}) :
       db' = [db EXCEPT !.cooldown = @ /\ ~read]
  /\ Rest(w)
  /\ UNCHANGED <<world, tokens, lock, admin, history, bounds>>

\* The workers of a process are gone; their lock is not.
Crash(w) ==
  /\ Fault
  /\ LET gone == {v \in Workers : home[v] = home[w]}
     IN /\ worker' = [v \in Workers |-> IF v \in gone THEN Resting ELSE worker[v]]
        /\ dropped' = dropped \cup
             {Successor(worker[v].row.token) : v \in {u \in gone : At(u, "store")}}
  /\ ~At(w, "idle")
  /\ UNCHANGED <<world, db, tokens, lock, admin, rolledBack, raced>>

-----------------------------------------------------------------------------
(* Administrators: UpdateAccount, Refresh and ApplyOAuthCredentials.  None of
   them takes the lock, and each writes the whole row it has read. *)

AdminAt(a, point) == admin[a].at = point

Begin(a, does, point) ==
  /\ AdminAt(a, "idle")
  /\ operations < MaxOperations /\ operations' = operations + 1
  /\ admin' = [admin EXCEPT ![a] = [Away EXCEPT !.at = point, !.does = does,
                 !.row = db,
                 !.token = IF does = "authorize"
                           THEN [chain |-> Len(live) + 1, seq |-> 1] ELSE db.token]]
  /\ UNCHANGED <<world, db, expiring, lock, worker, history, requests, faults>>

BeginEdit(a) == Begin(a, "edit", "read") /\ live' = live

BeginRefresh(a) == Begin(a, "refresh", "call") /\ live' = live

BeginAuthorize(a) == Begin(a, "authorize", "read") /\ live' = Append(live, 1)

\* refreshSingleAccount calls the provider first.
AdminCall(a) ==
  /\ AdminAt(a, "call")
  /\ LET token == admin[a].token
     IN IF Accepted(token)
        THEN /\ Rotate(token)
             /\ admin' = [admin EXCEPT ![a].at = "read", ![a].token = Successor(token)]
        ELSE /\ live' = live
             /\ admin' = [admin EXCEPT ![a] = Away]
  /\ UNCHANGED <<world, db, expiring, lock, worker, history, bounds>>

\* The request ends in the middle of the call: its context is cancelled when the
\* browser leaves, the provider cannot be reached, its answer is lost, or the
\* process is gone.
AdminCallFails(a) ==
  /\ Fault
  /\ AdminAt(a, "call")
  /\ LET token == admin[a].token
     IN \/ UNCHANGED <<live, dropped>>
        \/ /\ Accepted(token) /\ Rotate(token)
           /\ dropped' = dropped \cup {Successor(token)}
  /\ admin' = [admin EXCEPT ![a] = Away]
  /\ UNCHANGED <<world, db, expiring, lock, worker, rolledBack, raced>>

\* UpdateAccount reads the row.
AdminRead(a) ==
  /\ AdminAt(a, "read")
  /\ admin' = [admin EXCEPT ![a].at = "write", ![a].row = db]
  /\ UNCHANGED <<world, db, tokens, lock, worker, history, bounds>>

\* UpdateAccount writes it back, with the credentials of the request; an edit
\* has none, or changes another part of them, and writes the token it has read.
AdminWrite(a) ==
  /\ AdminAt(a, "write")
  /\ \E changed \in BOOLEAN :
       LET row == admin[a].row
           edits == admin[a].does = "edit"
           token == IF edits THEN row.token ELSE admin[a].token
       IN /\ db' = [row EXCEPT !.token = token,
                               !.rev = IF edits /\ changed THEN @ + 1 ELSE @,
                               !.schedulable = @ /\ row.status # "error",
                               !.cooldown = db.cooldown]
          /\ rolledBack' = rolledBack \cup
               (IF edits THEN {token} \ {db.token} ELSE {})
          /\ raced' = raced \cup
               (IF row.status = "error" /\ admin[a].does # "authorize"
                THEN {token} ELSE {})
  /\ admin' = [admin EXCEPT
       ![a] = IF @.does = "authorize" THEN [@ EXCEPT !.at = "clear"] ELSE Away]
  /\ UNCHANGED <<world, tokens, lock, worker, dropped, bounds>>

\* The request ends before the write, or UpdateAccount fails: the token it has
\* got from the provider is gone with it.
AdminFails(a) ==
  /\ Fault
  /\ admin[a].at \in {"read", "write"}
  /\ dropped' = dropped \cup
       (IF admin[a].does = "refresh" THEN {admin[a].token} ELSE {})
  /\ admin' = [admin EXCEPT ![a] = Away]
  /\ UNCHANGED <<world, db, tokens, lock, worker, rolledBack, raced>>

\* ClearAccountError; it does not make the account schedulable.
AdminClear(a) ==
  /\ AdminAt(a, "clear")
  /\ db' = [db EXCEPT !.status = "active", !.cooldown = FALSE]
  /\ admin' = [admin EXCEPT ![a] = Away]
  /\ UNCHANGED <<world, tokens, lock, worker, history, bounds>>

\* ClearAccountError fails, which is only logged, or is not reached: the request
\* ends after the write, or the write's answer is lost.
AdminClearFails(a) ==
  /\ Fault
  /\ AdminAt(a, "clear")
  /\ raced' = raced \cup {db.token}
  /\ admin' = [admin EXCEPT ![a] = Away]
  /\ UNCHANGED <<world, db, tokens, lock, worker, dropped, rolledBack>>

\* SetAccountSchedulable
MakeSchedulable(a) ==
  /\ AdminAt(a, "idle")
  /\ ~db.schedulable
  /\ operations < MaxOperations /\ operations' = operations + 1
  /\ db' = [db EXCEPT !.schedulable = TRUE]
  /\ UNCHANGED <<world, tokens, lock, worker, admin, history, requests, faults>>

-----------------------------------------------------------------------------
Refresh(w) ==
  \/ Retry(w) \/ Lock(w) \/ LockHeld(w) \/ Read(w) \/ CallProvider(w)
  \/ RecoverFromRace(w) \/ Store(w) \/ Unlock(w)
  \/ Condemn(w) \/ CoolDown(w) \/ Publish(w)

Failure(w) ==
  \/ LockFails(w) \/ ReadFails(w) \/ ProviderFails(w) \/ AttemptTimesOut(w)
  \/ StoreFails(w) \/ UnlockFails(w) \/ CondemnFails(w) \/ Crash(w)

Administer(a) ==
  \/ BeginEdit(a) \/ BeginRefresh(a) \/ BeginAuthorize(a) \/ MakeSchedulable(a)
  \/ AdminCall(a) \/ AdminRead(a) \/ AdminWrite(a) \/ AdminClear(a)
  \/ AdminCallFails(a) \/ AdminFails(a) \/ AdminClearFails(a)

Next ==
  \/ \E w \in Workers : EnterCycle(w) \/ EnterRequest(w) \/ Refresh(w) \/ Failure(w)
  \/ \E a \in Admins : Administer(a)
  \/ Expire \/ Revoke \/ LockExpires \/ CooldownEnds

\* The service cycles and finishes what it began, and the lock expires;
\* requests, administrators and the provider may stop.
Fairness ==
  /\ \A w \in Workers : WF_vars(Refresh(w))
  /\ \A w \in Background : WF_vars(EnterCycle(w))
  /\ WF_vars(LockExpires)

Spec == Init /\ [][Next]_vars /\ Fairness

-----------------------------------------------------------------------------
(* Properties *)

\* The row holds a refresh token the provider accepts, or its successor is in
\* some hand: concurrent refreshes, lost locks, requests that outlive them and
\* authorizations lose none.  A token is lost only if its answer or its row is
\* (OAuthRefreshAPI's late and unstored results, a Grok row changed meanwhile, an
\* administrator's request that ends before its write, a crash), or if an edit
\* writes back a row it read before the refresh.
TokenIsKept ==
  \/ live[db.token.chain] = 0
  \/ Accepted(db.token)
  \/ Successor(db.token) \in InHand \cup dropped
  \/ db.token \in rolledBack

\* A refreshed token is not replaced by the one it was refreshed from: "the
\* whole column must not be overwritten with a snapshot, lest the new
\* refresh_token be rolled back" (ratelimit_service.go).  UpdateAccount does.
RefreshIsKept ==
  [][db'.token.chain = db.token.chain => db'.token.seq >= db.token.seq]_vars

\* An account is quarantined for a token the provider refuses.  It keeps an
\* accepted one only if a refresh stored its result after the verdict, if an
\* administrator's clearing failed or did not come yet, if an administrator's
\* write carried on a quarantine, or, not for a Grok account, if the token was
\* replaced after the refresh read the row and before its verdict: before the
\* refusal too, as only invalid_grant makes the code read the row again.
QuarantineIsDeserved ==
  db.status = "error" =>
    \/ ~Accepted(db.token)
    \/ db.token \in raced
    \/ \E a \in Admins : AdminAt(a, "clear")

\* A refresh that was under way when an administrator authorized a Grok account
\* anew does not bring the old authorization back; only an administrator's own
\* concurrent update can.
AuthorizationIsKept ==
  [][grok /\ db'.token.chain < db.token.chain =>
       \E a \in Admins : AdminAt(a, "write") /\ admin'[a] # admin[a]]_vars

\* An expiring token of an account in use is refreshed, or the account is set
\* aside: a lock whose holder crashed does not stop the refreshing for good.
RefreshedOrSetAside == Candidate /\ NeedsRefresh(db) ~> ~(Candidate /\ NeedsRefresh(db))

=============================================================================
