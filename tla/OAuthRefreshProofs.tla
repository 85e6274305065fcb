-------------------------- MODULE OAuthRefreshProofs --------------------------
(***************************************************************************)
(* Proofs about OAuthRefresh, for any workers, processes, administrators   *)
(* and bounds.                                                             *)
(*                                                                         *)
(* A token is either out, in a row somebody has read or can read, or in    *)
(* one hand, which got it from the provider and has not stored it.  The    *)
(* invariant says that the tokens that are out are issued, that the one in *)
(* a hand is the last of its chain, is not out and is in no other hand.    *)
(* Steps move tokens in five ways, and a lemma shows for each way that it  *)
(* keeps this; the theorem only has to say which way an action goes.       *)
(***************************************************************************)
EXTENDS OAuthRefresh, SequenceTheorems, TLAPS

-----------------------------------------------------------------------------
(* Type correctness *)

RetriesLeft ==
  \A w \in Workers :
    worker[w].at = "retry" \/ worker[w].next = "retry" =>
      worker[w].attempt < MaxAttempts

\* The tokens that are out: in the account's row, in a copy of it that somebody
\* has read, and the one an administrator is about to refresh or has applied.
Holding(a) ==
  admin[a].does \in {"refresh", "authorize"} /\ admin[a].at \in {"read", "write"}

Out ==
  {FirstRow.token, db.token} \cup
  {worker[w].row.token : w \in Workers} \cup
  {admin[a].row.token : a \in Admins} \cup
  {admin[a].token : a \in {b \in Admins : ~Holding(b)}}

WorkerHand(w) == [by |-> "worker", of |-> w, token |-> Successor(worker[w].row.token)]

AdminHand(a) == [by |-> "admin", of |-> a, token |-> admin[a].token]

Hands ==
  {WorkerHand(w) : w \in {v \in Workers : At(v, "store")}} \cup
  {AdminHand(a) : a \in {b \in Admins : Holding(b)}}

\* Of a chain's tokens the ones after the last are not issued yet.
Issued(l, t) ==
  /\ t \in Token /\ t.chain \in 1..Len(l)
  /\ l[t.chain] = 0 \/ t.seq <= l[t.chain]

Held(l, V, h) ==
  /\ h.token \in Token /\ h.token.chain \in 1..Len(l)
  /\ l[h.token.chain] \in {0, h.token.seq}
  /\ h.token \notin V

\* The tokens V are out and the hands H hold theirs, with l the last tokens.
Sound(l, V, H) ==
  /\ l \in Seq(Nat)
  /\ \A t \in V : Issued(l, t)
  /\ \A h \in H : Held(l, V, h)
  /\ \A g, h \in H : g.token = h.token => g = h

LEMMA FirstRowType == FirstRow \in Row /\ FirstRow.token = [chain |-> 1, seq |-> 1]
  BY DEF FirstRow, Row, Token

LEMMA RestingType == Resting \in Worker /\ Resting.row = FirstRow
  BY FirstRowType, OAuthAssumption DEF Resting, Worker, Points, Results

LEMMA AwayType == Away \in Admin /\ Away.row = FirstRow /\ Away.token = FirstRow.token
  BY FirstRowType DEF Away, Admin, Row

LEMMA SuccessorType ==
  ASSUME NEW t \in Token
  PROVE  /\ Successor(t) \in Token
         /\ Successor(t).chain = t.chain /\ Successor(t).seq = t.seq + 1
  BY DEF Successor, Token

\* Setting the last token of a chain keeps the other chains.
LEMMA SetLive ==
  ASSUME NEW l \in Seq(Nat), NEW c \in 1..Len(l), NEW n \in Nat
  PROVE  LET m == [l EXCEPT ![c] = n]
         IN /\ m \in Seq(Nat) /\ Len(m) = Len(l) /\ m[c] = n
            /\ \A d \in 1..Len(l) : d # c => m[d] = l[d]
  BY ExceptSeq

\* A new authorization starts the next chain.
LEMMA AddLive ==
  ASSUME NEW l \in Seq(Nat)
  PROVE  LET m == Append(l, 1)
         IN /\ m \in Seq(Nat) /\ Len(m) = Len(l) + 1 /\ m[Len(l) + 1] = 1
            /\ \A d \in 1..Len(l) : m[d] = l[d]
  BY AppendProperties

-----------------------------------------------------------------------------
(* The five ways tokens move *)

\* Nothing new is out or in hand.
LEMMA Fewer ==
  ASSUME NEW l, NEW V, NEW H, Sound(l, V, H),
         NEW W \in SUBSET V, NEW G \in SUBSET H
  PROVE  Sound(l, W, G)
  BY DEF Sound, Held

\* A hand puts its token in the row.
LEMMA Stored ==
  ASSUME NEW l, NEW V, NEW H, Sound(l, V, H), NEW h \in H,
         NEW W \in SUBSET (V \cup {h.token}), NEW G \in SUBSET (H \ {h})
  PROVE  Sound(l, W, G)
  BY DEF Sound, Held, Issued, Token

\* The provider replaces a token that is out.
LEMMA Rotated ==
  ASSUME NEW l, NEW V, NEW H, Sound(l, V, H),
         NEW t \in V, l[t.chain] = t.seq,
         NEW h, h.token = Successor(t),
         NEW W \in SUBSET V, NEW G \in SUBSET (H \cup {h})
  PROVE  Sound([l EXCEPT ![t.chain] = t.seq + 1], W, G)
<1> DEFINE m == [l EXCEPT ![t.chain] = t.seq + 1]
<1>1. t \in Token /\ t.chain \in 1..Len(l) /\ l \in Seq(Nat) /\ t.seq \in Nat \ {0}
  BY DEF Sound, Issued, Token
<1>2. /\ m \in Seq(Nat) /\ Len(m) = Len(l) /\ m[t.chain] = t.seq + 1
      /\ \A d \in 1..Len(l) : d # t.chain => m[d] = l[d]
  BY <1>1, SetLive
<1>3. h.token \in Token /\ h.token.chain = t.chain /\ h.token.seq = t.seq + 1
  BY <1>1, SuccessorType
<1>4. \A s \in V : Issued(m, s)
  <2> TAKE s \in V
  <2>1. Issued(l, s)
    BY DEF Sound
  <2>2. CASE s.chain = t.chain
    BY <1>1, <1>2, <2>1, <2>2 DEF Issued, Token
  <2>3. CASE s.chain # t.chain
    BY <1>2, <2>1, <2>3 DEF Issued
  <2> QED BY <2>2, <2>3
<1>5. \A g \in H : g.token.chain # t.chain /\ Held(m, V, g)
  <2> TAKE g \in H
  <2>1. Held(l, V, g)
    BY DEF Sound
  <2>2. g.token.chain # t.chain
    <3> SUFFICES ASSUME g.token.chain = t.chain PROVE FALSE
      OBVIOUS
    <3>1. g.token.seq = t.seq
      BY <1>1, <2>1 DEF Held
    <3>2. g.token = t
      BY <1>1, <2>1, <3>1 DEF Held, Token
    <3> QED BY <2>1, <3>2 DEF Held
  <2> QED BY <1>2, <2>1, <2>2 DEF Held
<1>6. h.token \notin V
  BY <1>1, <1>3 DEF Sound, Issued
<1>7. Held(m, V, h)
  BY <1>2, <1>3, <1>1, <1>6 DEF Held
<1>8. \A g, k \in H \cup {h} : g.token = k.token => g = k
  BY <1>3, <1>5 DEF Sound
<1>9. Sound(m, V, H \cup {h})
  BY <1>2, <1>4, <1>5, <1>7, <1>8 DEF Sound
<1> QED BY <1>9, Fewer

\* The owner ends a chain.
LEMMA Revoked ==
  ASSUME NEW l, NEW V, NEW H, Sound(l, V, H), NEW c \in 1..Len(l)
  PROVE  Sound([l EXCEPT ![c] = 0], V, H)
<1> DEFINE m == [l EXCEPT ![c] = 0]
<1>1. /\ m \in Seq(Nat) /\ Len(m) = Len(l) /\ m[c] = 0
      /\ \A d \in 1..Len(l) : d # c => m[d] = l[d]
  BY SetLive DEF Sound
<1> HIDE DEF m
<1>2. \A t \in V : Issued(m, t)
  BY <1>1 DEF Sound, Issued
<1>3. \A h \in H : Held(m, V, h)
  BY <1>1 DEF Sound, Held
<1>4. Sound(m, V, H)
  BY <1>1, <1>2, <1>3 DEF Sound
<1> QED BY <1>4 DEF m

\* An administrator brings the first token of a new chain.
LEMMA Authorized ==
  ASSUME NEW l, NEW V, NEW H, Sound(l, V, H),
         NEW h, h.token = [chain |-> Len(l) + 1, seq |-> 1],
         NEW W \in SUBSET V, NEW G \in SUBSET (H \cup {h})
  PROVE  Sound(Append(l, 1), W, G)
<1> DEFINE m == Append(l, 1)
<1>1. /\ m \in Seq(Nat) /\ Len(m) = Len(l) + 1 /\ m[Len(l) + 1] = 1
      /\ \A d \in 1..Len(l) : m[d] = l[d]
      /\ Len(l) \in Nat
  BY AddLive, LenProperties DEF Sound
<1> HIDE DEF m
<1>2. h.token \in Token /\ h.token.chain = Len(l) + 1 /\ h.token.seq = 1
  BY <1>1 DEF Token
<1>3. \A t \in V : Issued(m, t) /\ t # h.token
  <2> TAKE t \in V
  <2>1. Issued(l, t)
    BY DEF Sound
  <2>2. t.chain # Len(l) + 1 /\ m[t.chain] = l[t.chain] /\ t.chain \in 1..Len(m)
    BY <1>1, <2>1 DEF Issued
  <2> QED BY <1>2, <2>1, <2>2 DEF Issued
<1>4. \A g \in H : Held(m, V, g) /\ g.token # h.token
  <2> TAKE g \in H
  <2>1. Held(l, V, g)
    BY DEF Sound
  <2>2. /\ g.token.chain # Len(l) + 1 /\ m[g.token.chain] = l[g.token.chain]
        /\ g.token.chain \in 1..Len(m)
    BY <1>1, <2>1 DEF Held
  <2> QED BY <1>2, <2>1, <2>2 DEF Held
<1>5. Held(m, V, h)
  BY <1>1, <1>2, <1>3 DEF Held
<1>6. Sound(m, V, H \cup {h})
  BY <1>1, <1>3, <1>4, <1>5 DEF Sound
<1>7. Sound(m, W, G)
  BY <1>6, Fewer
<1> QED BY <1>7 DEF m

-----------------------------------------------------------------------------
(* Type correctness *)

LEMMA RowType ==
  ASSUME NEW r \in Row
  PROVE  /\ r.token \in Token /\ r.rev \in Nat
         /\ \A t \in Token, n \in Nat : [r EXCEPT !.token = t, !.rev = n] \in Row
         /\ Quarantined(r) \in Row
         /\ [r EXCEPT !.schedulable = TRUE] \in Row
         /\ [r EXCEPT !.cooldown = FALSE] \in Row
         /\ [r EXCEPT !.status = "active", !.cooldown = FALSE] \in Row
  BY DEF Row, Quarantined

\* What the soundness of the tokens says of the rows at hand.
LEMMA RowsIssued ==
  ASSUME TypeOK, Sound(live, Out, Hands)
  PROVE  /\ Issued(live, db.token)
         /\ \A w \in Workers : Issued(live, worker[w].row.token)
         /\ \A a \in Admins : Issued(live, admin[a].row.token)
         /\ \A a \in Admins : ~Holding(a) => Issued(live, admin[a].token)
  BY DEF Sound, Out

Types == TypeOK /\ RetriesLeft

LEMMA WorkerType ==
  ASSUME Types, NEW w \in Workers
  PROVE  /\ worker[w] \in Worker /\ worker[w].row \in Row
         /\ worker[w].row.token \in Token /\ worker[w].row.rev \in Nat
         /\ Successor(worker[w].row.token) \in Token
  BY RowType, SuccessorType DEF Types, TypeOK, Worker

LEMMA AdminType ==
  ASSUME Types, NEW a \in Admins
  PROVE  /\ admin[a] \in Admin /\ admin[a].row \in Row /\ admin[a].token \in Token
         /\ admin[a].row.token \in Token /\ Successor(admin[a].token) \in Token
  BY RowType, SuccessorType DEF Types, TypeOK, Admin

\* A worker that moves on, to rest, or with another row.
LEMMA MoveType ==
  ASSUME Types, NEW w \in Workers, NEW r \in Worker,
         r.at = "retry" \/ r.next = "retry" => r.attempt < MaxAttempts,
         worker' = [worker EXCEPT ![w] = r]
  PROVE  worker' \in [Workers -> Worker] /\ RetriesLeft'
  BY DEF Types, TypeOK, RetriesLeft

LEMMA RestType ==
  ASSUME Types, NEW w \in Workers, Rest(w)
  PROVE  worker' \in [Workers -> Worker] /\ RetriesLeft'
  BY MoveType, RestingType DEF Rest, Resting

LEMMA GotoType ==
  ASSUME Types, NEW w \in Workers, NEW p \in Points \ {"retry"}, Goto(w, p)
  PROVE  worker' \in [Workers -> Worker] /\ RetriesLeft'
  BY DEF Types, TypeOK, RetriesLeft, Goto, Worker

LEMMA ReturnType ==
  ASSUME Types, NEW w \in Workers, NEW p \in Results, Return(w, p),
         p = "retry" => worker[w].attempt < MaxAttempts
  PROVE  worker' \in [Workers -> Worker] /\ RetriesLeft'
<1> DEFINE r == [worker[w] EXCEPT !.at = "unlock", !.next = p]
<1>1. r \in Worker /\ r.at = "unlock" /\ r.next = p /\ r.attempt = worker[w].attempt
  BY WorkerType DEF Worker, Points
<1>2. worker' = [worker EXCEPT ![w] = r]
  BY DEF Return
<1> HIDE DEF r
<1> QED BY <1>1, <1>2, MoveType

LEMMA AfterFailureType ==
  ASSUME NEW w \in Workers
  PROVE  /\ AfterFailure(w) \in Results
         /\ AfterFailure(w) = "retry" => worker[w].attempt < MaxAttempts
  BY DEF AfterFailure, Results

\* A store, whether it is applied, answered or neither, returns with a result.
LEMMA StoreReturns ==
  ASSUME NEW w \in Workers, Store(w) \/ StoreFails(w)
  PROVE  \E p \in Results :
           Return(w, p) /\ (p = "retry" => worker[w].attempt < MaxAttempts)
<1>1. AfterUnstored(w) \in Results
      /\ (AfterUnstored(w) = "retry" => worker[w].attempt < MaxAttempts)
  BY AfterFailureType DEF AfterUnstored, Results
<1>2. \/ Return(w, AfterUnstored(w))
      \/ \E p \in {"idle", "publish"} : Return(w, p)
  BY DEF Store, StoreFails
<1> QED BY <1>1, <1>2 DEF Results

LEMMA ProceedType ==
  ASSUME Types, NEW w \in Workers, Proceed(w)
  PROVE  worker' \in [Workers -> Worker] /\ RetriesLeft'
<1>1. CASE worker[w].next = "idle"
  BY <1>1, MoveType, RestingType DEF Proceed, Resting
<1>2. CASE worker[w].next # "idle"
  <2> DEFINE next == worker[w].next
             r == [worker[w] EXCEPT !.at = next, !.next = "idle", !.locked = FALSE]
  <2>1. worker' = [worker EXCEPT ![w] = r]
    BY <1>2 DEF Proceed
  <2>2. r \in Worker
    BY <1>2, WorkerType DEF Worker, Points, Results
  <2>3. r.at = next /\ r.next = "idle" /\ r.attempt = worker[w].attempt
    BY WorkerType DEF Worker
  <2>4. next = "retry" => worker[w].attempt < MaxAttempts
    BY DEF Types, RetriesLeft
  <2> HIDE DEF r
  <2> QED BY <2>1, <2>2, <2>3, <2>4, MoveType
<1> QED BY <1>1, <1>2

LEMMA FaultType ==
  ASSUME Types, Fault
  PROVE  /\ requests' \in 0..MaxRequests /\ operations' \in 0..MaxOperations
         /\ faults' \in 0..MaxFaults
  BY OAuthAssumption DEF Fault, Types, TypeOK

LEMMA RetryType ==
  ASSUME Types, NEW w \in Workers, Retry(w)
  PROVE  worker' \in [Workers -> Worker] /\ RetriesLeft'
<1> DEFINE r == [Resting EXCEPT !.at = "lock", !.attempt = worker[w].attempt + 1]
<1>1. worker[w].attempt + 1 \in 0..MaxAttempts
  BY WorkerType, OAuthAssumption DEF Retry, At, Types, RetriesLeft, Worker
<1>2. r \in Worker /\ r.at = "lock" /\ r.next = "idle"
  BY <1>1, FirstRowType DEF Resting, Worker, Points, Results
<1>3. worker' = [worker EXCEPT ![w] = r]
  BY DEF Retry
<1> QED BY <1>2, <1>3, MoveType

LEMMA WorkerTypeStep ==
  ASSUME Types, Sound(live, Out, Hands), NEW w \in Workers,
         EnterCycle(w) \/ EnterRequest(w) \/ Refresh(w) \/ Failure(w)
  PROVE  Types'
<1> DEFINE Typed == worker' \in [Workers -> Worker] /\ RetriesLeft'
<1>1. CASE EnterCycle(w)
  <2>1. Typed
    <3> DEFINE r == [Resting EXCEPT !.at = "lock", !.attempt = 1]
    <3>1. 1 \in 0..MaxAttempts
      BY OAuthAssumption
    <3>2. r \in Worker /\ r.next = "idle" /\ r.at = "lock"
      BY <3>1, FirstRowType DEF Resting, Worker, Points, Results
    <3>3. worker' = [worker EXCEPT ![w] = r]
      BY <1>1 DEF EnterCycle
    <3> QED BY <3>2, <3>3, MoveType
  <2> QED BY <2>1, <1>1 DEF Types, TypeOK, EnterCycle, world, tokens, history, bounds
<1>2. CASE EnterRequest(w)
  <2>1. Typed
    BY <1>2, GotoType DEF EnterRequest, Points
  <2>2. requests' \in 0..MaxRequests
    BY <1>2, OAuthAssumption DEF EnterRequest, Types, TypeOK
  <2> QED BY <2>1, <2>2, <1>2 DEF Types, TypeOK, EnterRequest, world, tokens, history, bounds
<1>3. CASE Retry(w)
  BY <1>3, RetryType DEF Retry, Types, TypeOK, world, tokens, history, bounds
<1>4. CASE Lock(w)
  <2>1. Typed
    <3> DEFINE r == [worker[w] EXCEPT !.at = "read", !.locked = TRUE]
    <3>1. r \in Worker /\ r.at = "read" /\ r.next = worker[w].next
          /\ r.attempt = worker[w].attempt
      BY WorkerType DEF Worker, Points
    <3>2. worker' = [worker EXCEPT ![w] = r]
      BY <1>4 DEF Lock
    <3>3. r.next = "retry" => r.attempt < MaxAttempts
      BY <3>1 DEF Types, RetriesLeft
    <3> HIDE DEF r
    <3> QED BY <3>1, <3>2, <3>3, MoveType
  <2> QED BY <2>1, <1>4 DEF Types, TypeOK, Lock, world, tokens, history, bounds
<1>5. CASE LockHeld(w)
  <2>1. Typed
    BY <1>5, RestType DEF LockHeld
  <2> QED BY <2>1, <1>5 DEF Types, TypeOK, LockHeld, world, tokens, history, bounds
<1>6. CASE Read(w)
  <2>1. Typed
    <3>1. CASE worker' = [worker EXCEPT ![w].at = "call", ![w].row = db]
      <4> DEFINE r == [worker[w] EXCEPT !.at = "call", !.row = db]
      <4>1. r \in Worker /\ r.at = "call" /\ r.next = worker[w].next
            /\ r.attempt = worker[w].attempt
        BY WorkerType DEF Worker, Points, Types, TypeOK
      <4>2. worker' = [worker EXCEPT ![w] = r]
        BY <3>1
      <4>3. r.next = "retry" => r.attempt < MaxAttempts
        BY <4>1 DEF Types, RetriesLeft
      <4> HIDE DEF r
      <4> QED BY <4>1, <4>2, <4>3, MoveType
    <3>2. CASE Return(w, "idle")
      BY <3>2, ReturnType DEF Results
    <3> QED BY <1>6, <3>1, <3>2 DEF Read, Return
  <2> QED BY <2>1, <1>6 DEF Types, TypeOK, Read, world, tokens, history, bounds
<1>7. CASE CallProvider(w)
  <2>1. Typed
    BY <1>7, GotoType DEF CallProvider, Points
  <2>2. live' \in Seq(Nat)
    <3>1. worker[w].row.token.chain \in 1..Len(live)
      BY RowsIssued DEF Issued, Types
    <3>2. worker[w].row.token.seq + 1 \in Nat
      BY WorkerType DEF Token
    <3>3. live \in Seq(Nat)
      BY DEF Types, TypeOK
    <3>4. CASE Rotate(worker[w].row.token)
      BY <3>1, <3>2, <3>3, <3>4, SetLive DEF Rotate
    <3> QED BY <1>7, <3>3, <3>4 DEF CallProvider
  <2> QED BY <2>1, <2>2, <1>7 DEF Types, TypeOK, CallProvider, world, tokens, history, bounds
<1>8. CASE RecoverFromRace(w)
  <2>1. Typed
    BY <1>8, ReturnType DEF RecoverFromRace, Results
  <2> QED BY <2>1, <1>8 DEF Types, TypeOK, RecoverFromRace, world, tokens, history, bounds
<1>9. CASE Store(w)
  <2>1. Typed
    BY <1>9, ReturnType, StoreReturns
  <2>4. requests' \in 0..MaxRequests /\ operations' \in 0..MaxOperations /\ faults' \in 0..MaxFaults
    BY <1>9, FaultType DEF Store, bounds, Types, TypeOK
  <2>2. db' \in Row
    <3>1. CASE grok /\ ~Unchanged(w)
      BY <1>9, <3>1 DEF Store, Types, TypeOK
    <3>2. CASE ~(grok /\ ~Unchanged(w))
      <4>1. db' = [db EXCEPT !.token = Successor(worker[w].row.token),
                             !.rev = worker[w].row.rev]
        BY <1>9, <3>2 DEF Store
      <4> QED BY <4>1, WorkerType, RowType DEF Types, TypeOK
    <3> QED BY <3>1, <3>2
  <2>3. dropped' \subseteq Token /\ raced' \subseteq Token
    BY <1>9, WorkerType DEF Store, Types, TypeOK
  <2> QED BY <2>1, <2>2, <2>3, <2>4, <1>9 DEF Types, TypeOK, Store, world, tokens
<1>10. CASE Unlock(w)
  <2>1. Typed
    BY <1>10, ProceedType DEF Unlock
  <2>2. lock' \in Workers \cup {Nobody}
    BY <1>10 DEF Unlock, Types, TypeOK
  <2> QED BY <2>1, <2>2, <1>10 DEF Types, TypeOK, Unlock, world, tokens, history, bounds
<1>11. CASE Condemn(w)
  <2>1. Typed
    BY <1>11, RestType DEF Condemn
  <2>2. db' \in Row /\ raced' \subseteq Token
    <3>1. CASE db' = Quarantined(db) /\ raced' = raced \cup ({db.token} \ {worker[w].row.token})
      BY <3>1, RowType DEF Types, TypeOK
    <3>2. CASE UNCHANGED <<db, raced>>
      BY <3>2 DEF Types, TypeOK
    <3> QED BY <1>11, <3>1, <3>2 DEF Condemn
  <2> QED BY <2>1, <2>2, <1>11 DEF Types, TypeOK, Condemn, world, tokens, history, bounds
<1>12. CASE CoolDown(w)
  <2>1. Typed
    BY <1>12, RestType DEF CoolDown
  <2>2. db' \in Row
    BY <1>12 DEF CoolDown, Types, TypeOK, Row
  <2> QED BY <2>1, <2>2, <1>12 DEF Types, TypeOK, CoolDown, world, tokens, history, bounds
<1>13. CASE Publish(w)
  <2>1. Typed
    BY <1>13, RestType DEF Publish
  <2>2. db' \in Row
    BY <1>13 DEF Publish, Types, TypeOK, Row
  <2> QED BY <2>1, <2>2, <1>13 DEF Types, TypeOK, Publish, world, tokens, history, bounds
<1>14. CASE LockFails(w)
  <2>1. Typed
    BY <1>14, GotoType DEF LockFails, Points
  <2>3. lock' \in Workers \cup {Nobody}
    BY <1>14 DEF LockFails, Types, TypeOK
  <2>2. requests' \in 0..MaxRequests /\ operations' \in 0..MaxOperations /\ faults' \in 0..MaxFaults
    BY <1>14, FaultType DEF LockFails
  <2> QED BY <2>1, <2>2, <2>3, <1>14 DEF Types, TypeOK, LockFails, world, tokens, history, bounds
<1>15. CASE ReadFails(w)
  <2>1. Typed
    BY <1>15, ReturnType DEF ReadFails, Results
  <2>2. requests' \in 0..MaxRequests /\ operations' \in 0..MaxOperations /\ faults' \in 0..MaxFaults
    BY <1>15, FaultType DEF ReadFails
  <2> QED BY <2>1, <2>2, <1>15 DEF Types, TypeOK, ReadFails, world, tokens, history, bounds
<1>16. CASE ProviderFails(w)
  <2>1. Typed
    BY <1>16, ReturnType, AfterFailureType DEF ProviderFails
  <2>2. requests' \in 0..MaxRequests /\ operations' \in 0..MaxOperations /\ faults' \in 0..MaxFaults
    BY <1>16, FaultType DEF ProviderFails
  <2> QED BY <2>1, <2>2, <1>16 DEF Types, TypeOK, ProviderFails, world, tokens, history, bounds
<1>17. CASE AttemptTimesOut(w)
  <2>1. Typed
    BY <1>17, ReturnType, AfterFailureType DEF AttemptTimesOut
  <2>2. requests' \in 0..MaxRequests /\ operations' \in 0..MaxOperations /\ faults' \in 0..MaxFaults
    BY <1>17, FaultType DEF AttemptTimesOut
  <2>3. dropped' \subseteq Token
    BY <1>17, WorkerType DEF AttemptTimesOut, Types, TypeOK
  <2> QED BY <2>1, <2>2, <2>3, <1>17 DEF Types, TypeOK, AttemptTimesOut, world, tokens, history, bounds
<1>18. CASE StoreFails(w)
  <2>1. Typed
    BY <1>18, ReturnType, StoreReturns
  <2>2. requests' \in 0..MaxRequests /\ operations' \in 0..MaxOperations /\ faults' \in 0..MaxFaults
    BY <1>18, FaultType DEF StoreFails
  <2>3. dropped' \subseteq Token
    BY <1>18, WorkerType DEF StoreFails, Types, TypeOK
  <2> QED BY <2>1, <2>2, <2>3, <1>18 DEF Types, TypeOK, StoreFails, world, tokens, history, bounds
<1>19. CASE UnlockFails(w)
  <2>1. Typed
    BY <1>19, ProceedType DEF UnlockFails
  <2>2. requests' \in 0..MaxRequests /\ operations' \in 0..MaxOperations /\ faults' \in 0..MaxFaults
    BY <1>19, FaultType DEF UnlockFails
  <2> QED BY <2>1, <2>2, <1>19 DEF Types, TypeOK, UnlockFails, world, tokens, history, bounds
<1>20. CASE CondemnFails(w)
  <2>1. Typed
    BY <1>20, RestType DEF CondemnFails
  <2>2. requests' \in 0..MaxRequests /\ operations' \in 0..MaxOperations /\ faults' \in 0..MaxFaults
    BY <1>20, FaultType DEF CondemnFails
  <2> QED BY <2>1, <2>2, <1>20 DEF Types, TypeOK, CondemnFails, world, tokens, history, bounds
<1>21. CASE Crash(w)
  <2>1. Typed
    BY <1>21, RestingType DEF Crash, Types, TypeOK, RetriesLeft, Resting
  <2>2. requests' \in 0..MaxRequests /\ operations' \in 0..MaxOperations /\ faults' \in 0..MaxFaults
    BY <1>21, FaultType DEF Crash
  <2>3. dropped' \subseteq Token
    BY <1>21, WorkerType DEF Crash, Types, TypeOK
  <2> QED BY <2>1, <2>2, <2>3, <1>21 DEF Types, TypeOK, Crash, world, tokens, history, bounds
<1> QED
  BY <1>1, <1>2, <1>3, <1>4, <1>5, <1>6, <1>7, <1>8, <1>9, <1>10, <1>11, <1>12, <1>13, <1>14, <1>15, <1>16, <1>17, <1>18, <1>19, <1>20, <1>21
  DEF Refresh, Failure

LEMMA AdminMoveType ==
  ASSUME Types, NEW a \in Admins, NEW r \in Admin, admin' = [admin EXCEPT ![a] = r]
  PROVE  admin' \in [Admins -> Admin]
  BY DEF Types, TypeOK

LEMMA AdminTypeStep ==
  ASSUME Types, Sound(live, Out, Hands), NEW a \in Admins, Administer(a)
  PROVE  Types'
<1> USE OAuthAssumption
<1>1. ASSUME NEW does \in {"edit", "refresh", "authorize"}, NEW point \in {"call", "read"},
             Begin(a, does, point), live' \in Seq(Nat)
      PROVE  Types'
  <2> DEFINE token == IF does = "authorize"
                      THEN [chain |-> Len(live) + 1, seq |-> 1] ELSE db.token
             r == [Away EXCEPT !.at = point, !.does = does, !.row = db, !.token = token]
  <2>1. token \in Token
    <3>1. live \in Seq(Nat) /\ db.token \in Token
      BY RowType DEF Types, TypeOK
    <3>2. Len(live) + 1 \in Nat \ {0}
      BY <3>1, LenProperties
    <3> QED BY <3>1, <3>2 DEF Token
  <2>2. r \in Admin
    BY <2>1, AwayType DEF Admin, Types, TypeOK
  <2>3. admin' = [admin EXCEPT ![a] = r]
    BY <1>1 DEF Begin
  <2>4. admin' \in [Admins -> Admin]
    BY <2>2, <2>3, AdminMoveType
  <2>5. operations' \in 0..MaxOperations
    BY <1>1 DEF Begin, Types, TypeOK
  <2> QED BY <1>1, <2>4, <2>5 DEF Begin, Types, TypeOK, RetriesLeft, world, history
<1>2. CASE BeginEdit(a) \/ BeginRefresh(a)
  BY <1>1, <1>2 DEF BeginEdit, BeginRefresh, Types, TypeOK
<1>3. CASE BeginAuthorize(a)
  BY <1>1, <1>3, AddLive DEF BeginAuthorize, Types, TypeOK
<1>4. CASE MakeSchedulable(a)
  <2>1. db' \in Row
    BY <1>4, RowType DEF MakeSchedulable, Types, TypeOK
  <2>2. operations' \in 0..MaxOperations
    BY <1>4 DEF MakeSchedulable, Types, TypeOK
  <2> QED
    BY <1>4, <2>1, <2>2
    DEF MakeSchedulable, Types, TypeOK, RetriesLeft, world, tokens, history
<1>5. CASE AdminCall(a)
  <2>1. CASE Accepted(admin[a].token)
    <3> DEFINE r == [admin[a] EXCEPT !.at = "read", !.token = Successor(admin[a].token)]
    <3>1. admin' = [admin EXCEPT ![a] = r] /\ Rotate(admin[a].token)
      BY <1>5, <2>1 DEF AdminCall
    <3>2. r \in Admin
      BY AdminType DEF Admin
    <3>3. admin' \in [Admins -> Admin]
      BY <3>1, <3>2, AdminMoveType
    <3>4. admin[a].token.chain \in 1..Len(live)
      BY <1>5, RowsIssued DEF AdminCall, AdminAt, Holding, Issued, Types
    <3>5. admin[a].token.seq + 1 \in Nat
      BY AdminType DEF Token
    <3>6. live' \in Seq(Nat)
      BY <3>1, <3>4, <3>5, SetLive DEF Rotate, Types, TypeOK
    <3> QED
      BY <1>5, <3>3, <3>6 DEF AdminCall, Types, TypeOK, RetriesLeft, world, history, bounds
  <2>2. CASE ~Accepted(admin[a].token)
    <3>1. admin' \in [Admins -> Admin]
      BY <1>5, <2>2, AdminMoveType, AwayType DEF AdminCall
    <3> QED
      BY <1>5, <2>2, <3>1 DEF AdminCall, Types, TypeOK, RetriesLeft, world, history, bounds
  <2> QED BY <2>1, <2>2
<1>6. CASE AdminRead(a)
  <2>1. admin' \in [Admins -> Admin]
    <3>1. [admin[a] EXCEPT !.at = "write", !.row = db] \in Admin
      BY AdminType DEF Admin, Types, TypeOK
    <3>2. admin' = [admin EXCEPT ![a] = [admin[a] EXCEPT !.at = "write", !.row = db]]
      BY <1>6 DEF AdminRead
    <3> QED BY <3>1, <3>2, AdminMoveType
  <2> QED
    BY <1>6, <2>1
    DEF AdminRead, Types, TypeOK, RetriesLeft, world, tokens, history, bounds
<1>7. CASE AdminWrite(a)
  <2> DEFINE row == admin[a].row
             edits == admin[a].does = "edit"
             token == IF edits THEN row.token ELSE admin[a].token
  <2>1. token \in Token
    BY AdminType
  <2>2. db' \in Row
    <3>1. PICK changed \in BOOLEAN :
            db' = [row EXCEPT !.token = token,
                              !.rev = IF edits /\ changed THEN @ + 1 ELSE @,
                              !.schedulable = @ /\ row.status # "error",
                              !.cooldown = db.cooldown]
      BY <1>7 DEF AdminWrite
    <3>2. row \in Row /\ row.rev \in Nat /\ db.cooldown \in BOOLEAN
      BY AdminType DEF Types, TypeOK, Row
    <3>3. (IF edits /\ changed THEN row.rev + 1 ELSE row.rev) \in Nat
      BY <3>2
    <3> HIDE DEF row, token, edits
    <3> QED BY <2>1, <3>1, <3>2, <3>3 DEF Row
  <2>3. rolledBack' \subseteq Token /\ raced' \subseteq Token
    BY <1>7, <2>1 DEF AdminWrite, Types, TypeOK
  <2>4. admin' \in [Admins -> Admin]
    <3>1. [admin[a] EXCEPT !.at = "clear"] \in Admin
      BY AdminType DEF Admin
    <3> QED BY <1>7, <3>1, AdminMoveType, AwayType DEF AdminWrite
  <2> QED
    BY <1>7, <2>2, <2>3, <2>4
    DEF AdminWrite, Types, TypeOK, RetriesLeft, world, tokens, bounds
<1>8. CASE AdminClear(a)
  <2>1. db' \in Row
    BY <1>8, RowType DEF AdminClear, Types, TypeOK
  <2>2. admin' \in [Admins -> Admin]
    BY <1>8, AdminMoveType, AwayType DEF AdminClear
  <2> QED
    BY <1>8, <2>1, <2>2
    DEF AdminClear, Types, TypeOK, RetriesLeft, world, tokens, history, bounds
<1>9. CASE AdminClearFails(a)
  <2>1. raced' \subseteq Token
    BY <1>9, RowType DEF AdminClearFails, Types, TypeOK
  <2>2. admin' \in [Admins -> Admin]
    BY <1>9, AdminMoveType, AwayType DEF AdminClearFails
  <2>3. /\ requests' \in 0..MaxRequests /\ operations' \in 0..MaxOperations
        /\ faults' \in 0..MaxFaults
    BY <1>9, FaultType DEF AdminClearFails
  <2> QED
    BY <1>9, <2>1, <2>2, <2>3
    DEF AdminClearFails, Types, TypeOK, RetriesLeft, world, tokens
<1>10. CASE AdminCallFails(a)
  <2> DEFINE t == admin[a].token
  <2>t. t \in Token /\ Successor(t) \in Token
    BY AdminType
  <2>1. t.chain \in 1..Len(live)
    BY <1>10, RowsIssued DEF AdminCallFails, AdminAt, Holding, Issued, Types
  <2>n. t.seq + 1 \in Nat
    BY AdminType DEF Token
  <2>2. live \in Seq(Nat) /\ dropped \subseteq Token
    BY DEF Types, TypeOK
  <2>3. UNCHANGED <<live, dropped>> \/ (Rotate(t) /\ dropped' = dropped \cup {Successor(t)})
    BY <1>10 DEF AdminCallFails
  <2> HIDE DEF t
  <2>4. live' \in Seq(Nat) /\ dropped' \subseteq Token
    <3>1. live' = live \/ live' = [live EXCEPT ![t.chain] = t.seq + 1]
      BY <2>3 DEF Rotate
    <3>2. live' \in Seq(Nat)
      BY <2>1, <2>n, <2>2, <3>1, SetLive
    <3>3. dropped' \subseteq Token
      BY <2>t, <2>2, <2>3
    <3> QED BY <3>2, <3>3
  <2>5. admin' \in [Admins -> Admin]
    BY <1>10, AdminMoveType, AwayType DEF AdminCallFails
  <2>6. /\ requests' \in 0..MaxRequests /\ operations' \in 0..MaxOperations
        /\ faults' \in 0..MaxFaults
    BY <1>10, FaultType DEF AdminCallFails
  <2> QED
    BY <1>10, <2>4, <2>5, <2>6
    DEF AdminCallFails, Types, TypeOK, RetriesLeft, world
<1>11. CASE AdminFails(a)
  <2>1. dropped' \subseteq Token
    BY <1>11, AdminType DEF AdminFails, Types, TypeOK
  <2>2. admin' \in [Admins -> Admin]
    BY <1>11, AdminMoveType, AwayType DEF AdminFails
  <2>3. /\ requests' \in 0..MaxRequests /\ operations' \in 0..MaxOperations
        /\ faults' \in 0..MaxFaults
    BY <1>11, FaultType DEF AdminFails
  <2> QED
    BY <1>11, <2>1, <2>2, <2>3
    DEF AdminFails, Types, TypeOK, RetriesLeft, world, tokens
<1> QED
  BY <1>2, <1>3, <1>4, <1>5, <1>6, <1>7, <1>8, <1>9, <1>10, <1>11 DEF Administer

LEMMA TypeStep ==
  ASSUME Types, Sound(live, Out, Hands), Next
  PROVE  Types'
<1>1. CASE Expire
  BY <1>1, RowType DEF Expire, Types, TypeOK, RetriesLeft, world, history, bounds
<1>2. CASE Revoke
  <2>1. live' \in Seq(Nat)
    <3>1. db.token.chain \in 1..Len(live)
      BY RowsIssued DEF Issued, Types
    <3> QED BY <1>2, <3>1, SetLive DEF Revoke, Types, TypeOK
  <2> QED
    BY <1>2, <2>1, FaultType DEF Revoke, Types, TypeOK, RetriesLeft, world, history
<1>3. CASE LockExpires
  BY <1>3 DEF LockExpires, Types, TypeOK, RetriesLeft, world, tokens, history, bounds
<1>4. CASE CooldownEnds
  BY <1>4, RowType
  DEF CooldownEnds, Types, TypeOK, RetriesLeft, world, tokens, history, bounds
<1> QED BY <1>1, <1>2, <1>3, <1>4, WorkerTypeStep, AdminTypeStep DEF Next

-----------------------------------------------------------------------------
(* No token is in two places *)

\* What a worker that moves takes along; db' may hold a new token.
LEMMA WorkerMoves ==
  ASSUME Types, NEW w \in Workers, NEW r, worker' = [worker EXCEPT ![w] = r],
         r.row.token \in Out, r.at # "store", admin' = admin
  PROVE  /\ Out' \subseteq Out \cup {db'.token}
         /\ Hands' \subseteq Hands \ {WorkerHand(w)}
<1>1. /\ worker'[w] = r
      /\ \A v \in Workers : v # w => worker'[v] = worker[v]
  BY DEF Types, TypeOK
<1>2. Out' \subseteq Out \cup {db'.token}
  BY <1>1 DEF Out, Holding
<1>3. \A v \in Workers : worker'[v].at = "store" =>
        v # w /\ At(v, "store") /\ WorkerHand(v)' = WorkerHand(v)
  BY <1>1 DEF At, WorkerHand
<1>4. ASSUME NEW h \in Hands' PROVE h \in Hands /\ h # WorkerHand(w)
  <2>1. CASE \E v \in Workers : worker'[v].at = "store" /\ h = WorkerHand(v)'
    <3>1. PICK v \in Workers : v # w /\ At(v, "store") /\ h = WorkerHand(v)
      BY <2>1, <1>3
    <3> QED BY <3>1 DEF Hands, WorkerHand
  <2>2. CASE \E a \in Admins : Holding(a)' /\ h = AdminHand(a)'
    <3>1. PICK a \in Admins : Holding(a) /\ h = AdminHand(a)
      BY <2>2 DEF Holding, AdminHand
    <3> QED BY <3>1 DEF Hands, AdminHand, WorkerHand
  <2> QED BY <1>4, <2>1, <2>2 DEF Hands, At
<1> QED BY <1>2, <1>4

LEMMA AdminMoves ==
  ASSUME Types, NEW a \in Admins, NEW r, admin' = [admin EXCEPT ![a] = r],
         r.row.token \in Out, worker' = worker
  PROVE  /\ ~Holding(a)' /\ r.token \in Out \cup {db'.token} =>
              /\ Out' \subseteq Out \cup {db'.token}
              /\ Hands' \subseteq Hands \ {AdminHand(a)}
         /\ Holding(a)' =>
              /\ Out' \subseteq Out \cup {db'.token}
              /\ Hands' \subseteq Hands \cup {AdminHand(a)'}
<1>1. /\ admin'[a] = r
      /\ \A b \in Admins : b # a => admin'[b] = admin[b]
  BY DEF Types, TypeOK
<1>2. (r.token \in Out \cup {db'.token} \/ Holding(a)') => Out' \subseteq Out \cup {db'.token}
  BY <1>1 DEF Out, Holding
<1>3. \A b \in Admins : b # a =>
        (Holding(b)' <=> Holding(b)) /\ AdminHand(b)' = AdminHand(b)
  BY <1>1 DEF Holding, AdminHand
<1>4. ASSUME NEW h \in Hands'
      PROVE  \/ h \in Hands /\ h # AdminHand(a)
             \/ Holding(a)' /\ h = AdminHand(a)'
  <2>1. CASE \E v \in Workers : At(v, "store")' /\ h = WorkerHand(v)'
    <3>1. PICK v \in Workers : At(v, "store") /\ h = WorkerHand(v)
      BY <2>1 DEF At, WorkerHand
    <3> QED BY <3>1 DEF Hands, AdminHand, WorkerHand
  <2>2. CASE \E b \in Admins : Holding(b)' /\ h = AdminHand(b)'
    <3>1. PICK b \in Admins : Holding(b)' /\ h = AdminHand(b)'
      BY <2>2
    <3>2. CASE b = a
      BY <3>1, <3>2
    <3>3. CASE b # a
      BY <1>3, <3>1, <3>3 DEF Hands, AdminHand
    <3> QED BY <3>2, <3>3
  <2> QED BY <1>4, <2>1, <2>2 DEF Hands
<1> QED BY <1>2, <1>4

LEMMA OutTokens ==
  /\ FirstRow.token \in Out /\ db.token \in Out
  /\ \A w \in Workers : worker[w].row.token \in Out
  /\ \A a \in Admins : admin[a].row.token \in Out
  /\ \A a \in Admins : ~Holding(a) => admin[a].token \in Out
  BY DEF Out

\* Most steps of a worker bring it no new token.
Moved(w) ==
  \E r \in Worker : /\ worker' = [worker EXCEPT ![w] = r]
                    /\ r.row.token \in Out /\ r.at # "store"

LEMMA MovedSteps ==
  ASSUME Types, NEW w \in Workers
  PROVE  /\ Rest(w) => Moved(w)
         /\ \A p \in Points \ {"store"} : Goto(w, p) => Moved(w)
         /\ \A p \in Results : Return(w, p) => Moved(w)
         /\ Proceed(w) => Moved(w)
<1>1. Rest(w) => Moved(w)
  BY RestingType, OutTokens DEF Rest, Moved, Resting
<1>2. ASSUME NEW p \in Points \ {"store"}, Goto(w, p) PROVE Moved(w)
  <2> DEFINE r == [worker[w] EXCEPT !.at = p]
  <2>1. r \in Worker /\ r.row = worker[w].row /\ r.at = p
    BY WorkerType DEF Worker
  <2>2. worker' = [worker EXCEPT ![w] = r]
    BY <1>2 DEF Goto
  <2> QED BY <2>1, <2>2, OutTokens DEF Moved
<1>3. ASSUME NEW p \in Results, Return(w, p) PROVE Moved(w)
  <2> DEFINE r == [worker[w] EXCEPT !.at = "unlock", !.next = p]
  <2>1. r \in Worker /\ r.row = worker[w].row /\ r.at = "unlock"
    BY WorkerType DEF Worker, Points, Results
  <2>2. worker' = [worker EXCEPT ![w] = r]
    BY <1>3 DEF Return
  <2> QED BY <2>1, <2>2, OutTokens DEF Moved
<1>4. ASSUME Proceed(w) PROVE Moved(w)
  <2>1. CASE worker[w].next = "idle"
    BY <1>4, <2>1, RestingType, OutTokens DEF Proceed, Moved, Resting
  <2>2. CASE worker[w].next # "idle"
    <3> DEFINE r == [worker[w] EXCEPT !.at = worker[w].next, !.next = "idle",
                                      !.locked = FALSE]
    <3>1. /\ r \in Worker /\ r.row = worker[w].row
          /\ r.at = worker[w].next /\ r.at # "store"
      BY WorkerType DEF Worker, Points, Results
    <3>2. worker' = [worker EXCEPT ![w] = r]
      BY <1>4, <2>2 DEF Proceed
    <3> QED BY <1>4, <3>1, <3>2, OutTokens DEF Moved
  <2> QED BY <2>1, <2>2
<1> QED BY <1>1, <1>2, <1>3, <1>4

Quiet(w) == Moved(w) /\ live' = live /\ admin' = admin /\ db'.token = db.token

LEMMA QuietStep ==
  ASSUME Types, Sound(live, Out, Hands), NEW w \in Workers, Quiet(w)
  PROVE  Sound(live', Out', Hands')
<1>1. Out' \subseteq Out \cup {db'.token} /\ Hands' \subseteq Hands \ {WorkerHand(w)}
  BY WorkerMoves DEF Quiet, Moved
<1>2. Out' \subseteq Out /\ Hands' \subseteq Hands
  BY <1>1, OutTokens DEF Quiet
<1> QED BY <1>2, Fewer DEF Quiet

LEMMA QuietActions ==
  ASSUME Types, NEW w \in Workers,
         EnterCycle(w) \/ EnterRequest(w) \/ Retry(w) \/ Lock(w) \/ LockHeld(w)
         \/ Read(w) \/ RecoverFromRace(w) \/ Unlock(w) \/ Condemn(w) \/ CoolDown(w)
         \/ Publish(w) \/ LockFails(w) \/ ReadFails(w) \/ ProviderFails(w)
         \/ AttemptTimesOut(w) \/ StoreFails(w) \/ UnlockFails(w) \/ CondemnFails(w)
  PROVE  Quiet(w)
<1> USE DEF Quiet, tokens
<1>1. CASE EnterCycle(w)
  <2> DEFINE r == [Resting EXCEPT !.at = "lock", !.attempt = 1]
  <2>1. 1 \in 0..MaxAttempts
    BY OAuthAssumption
  <2>2. r \in Worker /\ r.at = "lock" /\ r.row = FirstRow
    BY <2>1, FirstRowType DEF Resting, Worker, Points, Results
  <2>3. worker' = [worker EXCEPT ![w] = r]
    BY <1>1 DEF EnterCycle
  <2>4. Moved(w)
    BY <2>2, <2>3, OutTokens DEF Moved
  <2> QED BY <1>1, <2>4 DEF EnterCycle
<1>2. CASE EnterRequest(w)
  BY <1>2, MovedSteps DEF EnterRequest, Points
<1>3. CASE Retry(w)
  <2> DEFINE r == [Resting EXCEPT !.at = "lock", !.attempt = worker[w].attempt + 1]
  <2>1. r.at = "lock" /\ r.row = FirstRow
    BY DEF Resting
  <2>2. worker' = [worker EXCEPT ![w] = r]
    BY <1>3 DEF Retry
  <2>3. worker' \in [Workers -> Worker]
    BY <1>3, RetryType
  <2>4. r \in Worker
    BY <2>2, <2>3 DEF Types, TypeOK
  <2>5. Moved(w)
    BY <2>1, <2>2, <2>4, OutTokens DEF Moved
  <2> QED BY <1>3, <2>5 DEF Retry
<1>4. CASE Lock(w)
  <2> DEFINE r == [worker[w] EXCEPT !.at = "read", !.locked = TRUE]
  <2>1. r \in Worker /\ r.at = "read" /\ r.row = worker[w].row
    BY WorkerType DEF Worker, Points
  <2>2. worker' = [worker EXCEPT ![w] = r]
    BY <1>4 DEF Lock
  <2>3. Moved(w)
    BY <2>1, <2>2, OutTokens DEF Moved
  <2> QED BY <1>4, <2>3 DEF Lock
<1>5. CASE LockHeld(w)
  BY <1>5, MovedSteps DEF LockHeld
<1>6. CASE Read(w)
  <2>1. CASE worker' = [worker EXCEPT ![w].at = "call", ![w].row = db]
    <3> DEFINE r == [worker[w] EXCEPT !.at = "call", !.row = db]
    <3>1. r \in Worker /\ r.at = "call" /\ r.row = db
      BY WorkerType DEF Worker, Points, Types, TypeOK
    <3>2. worker' = [worker EXCEPT ![w] = r]
      BY <2>1
    <3> QED BY <3>1, <3>2, <1>6, OutTokens DEF Moved, Read
  <2>2. CASE Return(w, "idle")
    BY <1>6, <2>2, MovedSteps DEF Read, Results
  <2> QED BY <1>6, <2>1, <2>2 DEF Read, Return
<1>7. CASE RecoverFromRace(w)
  BY <1>7, MovedSteps DEF RecoverFromRace, Results
<1>8. CASE Unlock(w)
  BY <1>8, MovedSteps DEF Unlock
<1>9. CASE Condemn(w)
  <2>1. db' = Quarantined(db) \/ db' = db
    BY <1>9 DEF Condemn
  <2>2. db'.token = db.token
    BY <2>1 DEF Quarantined, Types, TypeOK, Row
  <2> QED BY <1>9, <2>2, MovedSteps DEF Condemn
<1>10. CASE CoolDown(w)
  BY <1>10, MovedSteps DEF CoolDown
<1>11. CASE Publish(w)
  BY <1>11, MovedSteps DEF Publish
<1>12. CASE LockFails(w)
  BY <1>12, MovedSteps DEF LockFails, Points
<1>13. CASE ReadFails(w)
  BY <1>13, MovedSteps DEF ReadFails, Results
<1>14. CASE ProviderFails(w)
  BY <1>14, MovedSteps, AfterFailureType DEF ProviderFails
<1>15. CASE AttemptTimesOut(w)
  BY <1>15, MovedSteps, AfterFailureType DEF AttemptTimesOut
<1>16. CASE StoreFails(w)
  BY <1>16, MovedSteps, StoreReturns DEF StoreFails
<1>17. CASE UnlockFails(w)
  BY <1>17, MovedSteps DEF UnlockFails
<1>18. CASE CondemnFails(w)
  BY <1>18, MovedSteps DEF CondemnFails
<1> QED
  BY <1>1, <1>2, <1>3, <1>4, <1>5, <1>6, <1>7, <1>8, <1>9, <1>10, <1>11, <1>12,
     <1>13, <1>14, <1>15, <1>16, <1>17, <1>18

LEMMA StoreSound ==
  ASSUME Types, Sound(live, Out, Hands), NEW w \in Workers, Store(w)
  PROVE  /\ Sound(live', Out', Hands')
         /\ live[Successor(worker[w].row.token).chain]
               \in {0, Successor(worker[w].row.token).seq}
<1> DEFINE h == WorkerHand(w)
<1>1. h \in Hands /\ h.token = Successor(worker[w].row.token)
  BY DEF Store, Hands, WorkerHand
<1>2. Held(live, Out, h)
  BY <1>1 DEF Sound
<1>3. Moved(w) /\ admin' = admin /\ live' = live
  BY MovedSteps, StoreReturns DEF Store, tokens
<1>4. db'.token \in {db.token, h.token}
  <2>1. CASE grok /\ ~Unchanged(w)
    BY <2>1 DEF Store
  <2>2. CASE ~(grok /\ ~Unchanged(w))
    <3>1. db' = [db EXCEPT !.token = Successor(worker[w].row.token),
                           !.rev = worker[w].row.rev]
      BY <2>2 DEF Store
    <3> QED BY <3>1, <1>1 DEF Types, TypeOK, Row
  <2> QED BY <2>1, <2>2
<1>5. Out' \subseteq Out \cup {h.token} /\ Hands' \subseteq Hands \ {h}
  <2>1. Out' \subseteq Out \cup {db'.token} /\ Hands' \subseteq Hands \ {h}
    BY <1>3, WorkerMoves DEF Moved
  <2> QED BY <1>4, <2>1, OutTokens
<1>6. Sound(live', Out', Hands')
  BY <1>1, <1>3, <1>5, Stored
<1> QED BY <1>1, <1>2, <1>6 DEF Held

LEMMA CallSound ==
  ASSUME Types, Sound(live, Out, Hands), NEW w \in Workers, CallProvider(w)
  PROVE  Sound(live', Out', Hands')
<1> DEFINE t == worker[w].row.token
<1>1. CASE ~Accepted(t)
  <2>1. Quiet(w)
    BY <1>1, MovedSteps DEF CallProvider, Quiet, Points
  <2> QED BY <2>1, QuietStep
<1>2. CASE Accepted(t)
  <2>1. /\ \A v \in Workers : v # w => worker'[v] = worker[v]
        /\ worker'[w].row = worker[w].row /\ worker'[w].at = "store"
        /\ admin' = admin /\ db' = db /\ live' = [live EXCEPT ![t.chain] = t.seq + 1]
    BY <1>2, WorkerType DEF CallProvider, Goto, Rotate, Types, TypeOK, Worker
  <2>2. Out' \subseteq Out
    BY <2>1 DEF Out, Holding
  <2>3. ASSUME NEW h \in Hands' PROVE h \in Hands \cup {WorkerHand(w)}
    <3>1. CASE \E v \in Workers : At(v, "store")' /\ h = WorkerHand(v)'
      BY <2>1, <3>1 DEF At, WorkerHand, Hands
    <3>2. CASE \E a \in Admins : Holding(a)' /\ h = AdminHand(a)'
      BY <2>1, <3>2 DEF Holding, AdminHand, Hands
    <3> QED BY <2>3, <3>1, <3>2 DEF Hands
  <2>4. t \in Out /\ live[t.chain] = t.seq /\ WorkerHand(w).token = Successor(t)
    BY <1>2, OutTokens DEF Accepted, WorkerHand
  <2>5. Hands' \subseteq Hands \cup {WorkerHand(w)}
    BY <2>3
  <2> HIDE DEF t
  <2>6. Sound([live EXCEPT ![t.chain] = t.seq + 1], Out', Hands')
    BY <2>2, <2>4, <2>5, Rotated
  <2> QED BY <2>1, <2>6
<1> QED BY <1>1, <1>2

LEMMA CrashSound ==
  ASSUME Types, Sound(live, Out, Hands), NEW w \in Workers, Crash(w)
  PROVE  Sound(live', Out', Hands')
<1>1. /\ \A v \in Workers : worker'[v] = worker[v] \/ worker'[v] = Resting
      /\ admin' = admin /\ db' = db /\ live' = live
  BY DEF Crash, tokens
<1>2. Resting.row = FirstRow /\ Resting.at # "store"
  BY DEF Resting
<1>3. Out' \subseteq Out
  BY <1>1, <1>2 DEF Out, Holding
<1>4. ASSUME NEW h \in Hands' PROVE h \in Hands
  <2>1. CASE \E v \in Workers : At(v, "store")' /\ h = WorkerHand(v)'
    BY <1>1, <1>2, <2>1 DEF At, WorkerHand, Hands
  <2>2. CASE \E a \in Admins : Holding(a)' /\ h = AdminHand(a)'
    BY <1>1, <2>2 DEF Holding, AdminHand, Hands
  <2> QED BY <1>4, <2>1, <2>2 DEF Hands
<1> QED BY <1>1, <1>3, <1>4, Fewer

LEMMA NobodyMoves ==
  ASSUME worker' = worker, admin' = admin, db'.token = db.token
  PROVE  Out' = Out /\ Hands' = Hands
<1>1. Out' = Out
  BY DEF Out, Holding
<1>2. Hands' = Hands
  BY DEF Hands, WorkerHand, AdminHand, Holding, At
<1> QED BY <1>1, <1>2

\* An administrator who calls the provider refreshes.
Callers == \A a \in Admins : admin[a].at = "call" => admin[a].does = "refresh"

LEMMA AdminSound ==
  ASSUME Types, Sound(live, Out, Hands), Callers, NEW a \in Admins, Administer(a)
  PROVE  Sound(live', Out', Hands')
<1> USE DEF tokens
<1>1. ASSUME NEW does \in {"edit", "refresh"}, NEW point \in {"call", "read"},
             Begin(a, does, point), live' = live,
             does = "edit" <=> point = "read"
      PROVE  Sound(live', Out', Hands')
  <2> DEFINE r == [Away EXCEPT !.at = point, !.does = does, !.row = db, !.token = db.token]
  <2>1. r.row = db /\ r.token = db.token /\ r.at = point /\ r.does = does
    BY DEF Away
  <2>2. admin' = [admin EXCEPT ![a] = r] /\ worker' = worker /\ db' = db
    BY <1>1 DEF Begin
  <2> HIDE DEF r
  <2>3. ~Holding(a)'
    BY <1>1, <2>1, <2>2 DEF Holding, Types, TypeOK
  <2>4. Out' \subseteq Out /\ Hands' \subseteq Hands
    BY <2>1, <2>2, <2>3, AdminMoves, OutTokens
  <2> QED BY <1>1, <2>4, Fewer
<1>2. CASE BeginEdit(a) \/ BeginRefresh(a)
  BY <1>1, <1>2 DEF BeginEdit, BeginRefresh
<1>3. CASE BeginAuthorize(a)
  <2> DEFINE t == [chain |-> Len(live) + 1, seq |-> 1]
             r == [Away EXCEPT !.at = "read", !.does = "authorize", !.row = db, !.token = t]
  <2>1. r.row = db /\ r.token = t /\ r.at = "read" /\ r.does = "authorize"
    BY DEF Away
  <2>2. admin' = [admin EXCEPT ![a] = r] /\ worker' = worker /\ live' = Append(live, 1)
        /\ db' = db
    BY <1>3 DEF BeginAuthorize, Begin
  <2> HIDE DEF r
  <2>3. Holding(a)' /\ AdminHand(a)'.token = t
    BY <2>1, <2>2 DEF Holding, AdminHand, Types, TypeOK
  <2>4. Out' \subseteq Out /\ Hands' \subseteq Hands \cup {AdminHand(a)'}
    BY <2>1, <2>2, <2>3, AdminMoves, OutTokens
  <2>5. Sound(Append(live, 1), Out', Hands')
    BY <2>3, <2>4, Authorized
  <2> QED BY <2>2, <2>5
<1>4. CASE MakeSchedulable(a)
  <2>1. db'.token = db.token
    BY <1>4 DEF MakeSchedulable, Types, TypeOK, Row
  <2> QED BY <1>4, <2>1, NobodyMoves DEF MakeSchedulable
<1>5. CASE AdminCall(a)
  <2> DEFINE t == admin[a].token
  <2>1. t \in Out /\ admin[a].does = "refresh" /\ worker' = worker /\ db' = db
    BY <1>5, OutTokens DEF AdminCall, AdminAt, Callers, Holding
  <2>2. CASE Accepted(t)
    <3> DEFINE r == [admin[a] EXCEPT !.at = "read", !.token = Successor(t)]
    <3>1. r.at = "read" /\ r.does = "refresh" /\ r.token = Successor(t)
          /\ r.row = admin[a].row
      BY <2>1, AdminType DEF Admin
    <3>2. admin' = [admin EXCEPT ![a] = r] /\ live' = [live EXCEPT ![t.chain] = t.seq + 1]
      BY <1>5, <2>2 DEF AdminCall, Rotate
    <3> HIDE DEF r, t
    <3>3. Holding(a)' /\ AdminHand(a)'.token = Successor(t)
      BY <3>1, <3>2 DEF Holding, AdminHand, Types, TypeOK
    <3>4. Out' \subseteq Out /\ Hands' \subseteq Hands \cup {AdminHand(a)'}
      BY <2>1, <3>1, <3>2, <3>3, AdminMoves, OutTokens
    <3>5. live[t.chain] = t.seq
      BY <2>2 DEF Accepted
    <3>6. Sound([live EXCEPT ![t.chain] = t.seq + 1], Out', Hands')
      BY <2>1, <3>3, <3>4, <3>5, Rotated
    <3> QED BY <3>2, <3>6
  <2>3. CASE ~Accepted(t)
    <3>1. admin' = [admin EXCEPT ![a] = Away] /\ live' = live
      BY <1>5, <2>3 DEF AdminCall
    <3>2. ~Holding(a)' /\ Away.row = FirstRow /\ Away.token = FirstRow.token
      BY <3>1 DEF Holding, Away, Types, TypeOK
    <3>3. Out' \subseteq Out /\ Hands' \subseteq Hands
      BY <2>1, <3>1, <3>2, AdminMoves, OutTokens
    <3> QED BY <3>1, <3>3, Fewer
  <2> QED BY <2>2, <2>3
<1>6. CASE AdminRead(a)
  <2> DEFINE r == [admin[a] EXCEPT !.at = "write", !.row = db]
  <2>1. r.at = "write" /\ r.does = admin[a].does /\ r.token = admin[a].token
        /\ r.row = db
    BY AdminType DEF Admin
  <2>2. admin' = [admin EXCEPT ![a] = r] /\ worker' = worker /\ db' = db /\ live' = live
        /\ admin[a].at = "read"
    BY <1>6 DEF AdminRead, AdminAt
  <2> HIDE DEF r
  <2>3. (Holding(a)' <=> Holding(a)) /\ AdminHand(a)' = AdminHand(a)
    BY <2>1, <2>2 DEF Holding, AdminHand, Types, TypeOK
  <2>4. CASE Holding(a)
    <3>1. AdminHand(a)' \in Hands
      BY <2>3, <2>4 DEF Hands
    <3>2. Out' \subseteq Out /\ Hands' \subseteq Hands
      BY <2>1, <2>2, <2>3, <2>4, <3>1, AdminMoves, OutTokens
    <3> QED BY <2>2, <3>2, Fewer
  <2>5. CASE ~Holding(a)
    <3>1. Out' \subseteq Out /\ Hands' \subseteq Hands
      BY <2>1, <2>2, <2>3, <2>5, AdminMoves, OutTokens
    <3> QED BY <2>2, <3>1, Fewer
  <2> QED BY <2>4, <2>5
<1>7. CASE AdminWrite(a)
  <2> DEFINE edits == admin[a].does = "edit"
             r == IF admin[a].does = "authorize"
                  THEN [admin[a] EXCEPT !.at = "clear"] ELSE Away
  <2>1. /\ db'.token = IF edits THEN admin[a].row.token ELSE admin[a].token
        /\ admin' = [admin EXCEPT ![a] = r]
        /\ worker' = worker /\ live' = live
        /\ admin[a].at = "write"
    <3>1. admin[a].row \in Row
      BY AdminType
    <3> QED BY <1>7, <3>1 DEF AdminWrite, AdminAt, Row
  <2>2. /\ r.at # "read" /\ r.at # "write" /\ r.row.token \in Out
        /\ r.token = FirstRow.token \/ (~edits /\ r.token = admin[a].token)
    <3>1. CASE admin[a].does = "authorize"
      <4>1. r.at = "clear" /\ r.row = admin[a].row /\ r.token = admin[a].token
        BY <3>1, AdminType DEF Admin
      <4> QED BY <3>1, <4>1, OutTokens
    <3>2. CASE admin[a].does # "authorize"
      <4>1. r.at = "idle" /\ r.row = FirstRow /\ r.token = FirstRow.token
        BY <3>2 DEF Away
      <4> HIDE DEF r, edits
      <4> QED BY <4>1, OutTokens
    <3> QED BY <3>1, <3>2
  <2> HIDE DEF r
  <2>3. ~Holding(a)'
    BY <2>1, <2>2 DEF Holding, Types, TypeOK
  <2>4. Out' \subseteq Out \cup {db'.token} /\ Hands' \subseteq Hands \ {AdminHand(a)}
    BY <2>1, <2>2, <2>3, AdminMoves, OutTokens
  <2>5. CASE edits
    <3>1. Out' \subseteq Out /\ Hands' \subseteq Hands
      BY <2>1, <2>4, <2>5, OutTokens
    <3> QED BY <2>1, <3>1, Fewer
  <2>6. CASE ~edits
    <3>1. Holding(a)
      BY <2>1, <2>6, AdminType DEF Holding, Admin
    <3>2. AdminHand(a) \in Hands /\ AdminHand(a).token = db'.token
      BY <2>1, <2>6, <3>1 DEF Hands, AdminHand
    <3> QED BY <2>1, <2>4, <3>2, Stored
  <2> QED BY <2>5, <2>6
<1>8. CASE AdminClear(a) \/ AdminClearFails(a) \/ AdminFails(a)
  <2>1. /\ admin' = [admin EXCEPT ![a] = Away] /\ live' = live /\ worker' = worker
        /\ db'.token = db.token
    BY <1>8 DEF AdminClear, AdminClearFails, AdminFails, Types, TypeOK, Row
  <2>2. ~Holding(a)' /\ Away.row = FirstRow /\ Away.token = FirstRow.token
    BY <2>1 DEF Holding, Away, Types, TypeOK
  <2>3. Out' \subseteq Out /\ Hands' \subseteq Hands
    BY <2>1, <2>2, AdminMoves, OutTokens
  <2> QED BY <2>1, <2>3, Fewer
<1>9. CASE AdminCallFails(a)
  <2> DEFINE t == admin[a].token
             h == [by |-> "nobody", of |-> a, token |-> Successor(t)]
  <2>1. t \in Out /\ worker' = worker /\ db' = db
    BY <1>9, OutTokens DEF AdminCallFails, AdminAt, Callers, Holding
  <2>2. admin' = [admin EXCEPT ![a] = Away]
    BY <1>9 DEF AdminCallFails
  <2>3. ~Holding(a)' /\ Away.row = FirstRow /\ Away.token = FirstRow.token
    BY <2>2 DEF Holding, Away, Types, TypeOK
  <2>4. Out' \subseteq Out /\ Hands' \subseteq Hands
    BY <2>1, <2>2, <2>3, AdminMoves, OutTokens
  <2>5. CASE live' = live
    BY <2>4, <2>5, Fewer
  <2>6. CASE Accepted(t) /\ Rotate(t)
    <3>1. live[t.chain] = t.seq /\ live' = [live EXCEPT ![t.chain] = t.seq + 1]
      BY <2>6 DEF Accepted, Rotate
    <3>2. h.token = Successor(t) /\ Hands' \subseteq Hands \cup {h}
      BY <2>4
    <3> HIDE DEF t, h
    <3>3. Sound([live EXCEPT ![t.chain] = t.seq + 1], Out', Hands')
      BY <2>1, <2>4, <3>1, <3>2, Rotated
    <3> QED BY <3>1, <3>3
  <2> QED BY <1>9, <2>5, <2>6 DEF AdminCallFails
<1> QED BY <1>2, <1>3, <1>4, <1>5, <1>6, <1>7, <1>8, <1>9 DEF Administer

LEMMA SoundStep ==
  ASSUME Types, Sound(live, Out, Hands), Callers, Next
  PROVE  Sound(live', Out', Hands')
<1>1. ASSUME NEW w \in Workers,
             EnterCycle(w) \/ EnterRequest(w) \/ Refresh(w) \/ Failure(w)
      PROVE  Sound(live', Out', Hands')
  BY <1>1, QuietActions, QuietStep, StoreSound, CallSound, CrashSound
  DEF Refresh, Failure
<1>2. CASE Revoke
  <2>1. db.token.chain \in 1..Len(live)
    BY RowsIssued DEF Issued, Types
  <2>2. Out' = Out /\ Hands' = Hands
    BY <1>2, NobodyMoves DEF Revoke
  <2> QED BY <1>2, <2>1, <2>2, Revoked DEF Revoke
<1>3. CASE Expire \/ LockExpires
  BY <1>3, NobodyMoves DEF Expire, LockExpires, tokens
<1>4. CASE CooldownEnds
  <2>1. db'.token = db.token
    BY <1>4 DEF CooldownEnds, Types, TypeOK, Row
  <2> QED BY <1>4, <2>1, NobodyMoves DEF CooldownEnds, tokens
<1> QED BY <1>1, <1>2, <1>3, <1>4, AdminSound DEF Next

LEMMA CallersStep ==
  ASSUME Types, Callers, Next
  PROVE  Callers'
<1>1. ASSUME NEW w \in Workers,
             EnterCycle(w) \/ EnterRequest(w) \/ Refresh(w) \/ Failure(w)
      PROVE  admin' = admin
  BY <1>1 DEF EnterCycle, EnterRequest, Refresh, Failure, Retry, Lock, LockHeld, Read,
       CallProvider, RecoverFromRace, Store, Unlock, Condemn, CoolDown, Publish,
       LockFails, ReadFails, ProviderFails, AttemptTimesOut, StoreFails, UnlockFails,
       CondemnFails, Crash
<1>2. ASSUME NEW a \in Admins, Administer(a) PROVE Callers'
  <2>1. \A b \in Admins : b # a => admin'[b] = admin[b]
    BY <1>2 DEF Administer, BeginEdit, BeginRefresh, BeginAuthorize, Begin,
         MakeSchedulable, AdminCall, AdminRead, AdminWrite, AdminClear, AdminClearFails,
         AdminCallFails, AdminFails, Types, TypeOK
  <2>2. admin'[a].at = "call" => admin'[a].does = "refresh"
    <3>1. CASE BeginEdit(a) \/ BeginRefresh(a) \/ BeginAuthorize(a)
      <4>1. ASSUME NEW does, NEW point, Begin(a, does, point)
            PROVE  admin'[a].at = point /\ admin'[a].does = does
        BY <4>1 DEF Begin, Away, Types, TypeOK
      <4> QED BY <3>1, <4>1 DEF BeginEdit, BeginRefresh, BeginAuthorize
    <3>2. CASE MakeSchedulable(a)
      BY <3>2 DEF MakeSchedulable, Callers
    <3>3. CASE AdminCall(a) \/ AdminRead(a) \/ AdminClear(a) \/ AdminClearFails(a)
      BY <3>3, AdminType
      DEF AdminCall, AdminRead, AdminClear, AdminClearFails, Away, Types, TypeOK, Admin
    <3>4. CASE AdminWrite(a)
      BY <3>4, AdminType DEF AdminWrite, Away, Types, TypeOK, Admin
    <3>5. CASE AdminCallFails(a) \/ AdminFails(a)
      BY <3>5 DEF AdminCallFails, AdminFails, Away, Types, TypeOK
    <3> QED BY <1>2, <3>1, <3>2, <3>3, <3>4, <3>5 DEF Administer
  <2> QED BY <2>1, <2>2 DEF Callers
<1>3. CASE Expire \/ Revoke \/ LockExpires \/ CooldownEnds
  BY <1>3 DEF Expire, Revoke, LockExpires, CooldownEnds, Callers
<1> QED BY <1>1, <1>2, <1>3 DEF Next, Callers

-----------------------------------------------------------------------------
(* A token the provider has refused stays refused *)

RotatesOut ==
  \E s \in Out : live[s.chain] = s.seq /\ live' = [live EXCEPT ![s.chain] = s.seq + 1]

LEMMA LiveMoves ==
  ASSUME Types, Callers, Next
  PROVE  \/ live' = live \/ RotatesOut
         \/ live' = [live EXCEPT ![db.token.chain] = 0]
         \/ live' = Append(live, 1)
<1> USE DEF tokens
<1>1. ASSUME NEW w \in Workers, CallProvider(w) PROVE live' = live \/ RotatesOut
  BY <1>1, OutTokens DEF CallProvider, Rotate, Accepted, RotatesOut
<1>2. ASSUME NEW w \in Workers,
             EnterCycle(w) \/ EnterRequest(w) \/ Refresh(w) \/ Failure(w),
             ~CallProvider(w)
      PROVE  live' = live
  BY <1>2 DEF EnterCycle, EnterRequest, Refresh, Failure, Retry, Lock, LockHeld, Read,
       RecoverFromRace, Store, Unlock, Condemn, CoolDown, Publish,
       LockFails, ReadFails, ProviderFails, AttemptTimesOut, StoreFails, UnlockFails,
       CondemnFails, Crash
<1>3. ASSUME NEW a \in Admins, AdminCall(a) \/ AdminCallFails(a)
      PROVE  live' = live \/ RotatesOut
  <2>1. admin[a].token \in Out
    BY <1>3, OutTokens DEF AdminCall, AdminCallFails, AdminAt, Callers, Holding
  <2> QED BY <1>3, <2>1 DEF AdminCall, AdminCallFails, Rotate, Accepted, RotatesOut
<1>4. ASSUME NEW a \in Admins, Administer(a), ~AdminCall(a), ~AdminCallFails(a)
      PROVE  live' = live \/ live' = Append(live, 1)
  BY <1>4 DEF Administer, BeginEdit, BeginRefresh, BeginAuthorize,
       MakeSchedulable, AdminRead, AdminWrite, AdminClear, AdminClearFails, AdminFails
<1>5. CASE Expire \/ Revoke \/ LockExpires \/ CooldownEnds
  BY <1>5 DEF Expire, Revoke, LockExpires, CooldownEnds
<1> QED BY <1>1, <1>2, <1>3, <1>4, <1>5 DEF Next

LEMMA RefusedStays ==
  ASSUME Types, Sound(live, Out, Hands), Callers, Next,
         NEW t \in Out, live[t.chain] # t.seq
  PROVE  live'[t.chain] # t.seq
<1>1. Issued(live, t) /\ t \in Token /\ t.seq \in Nat \ {0} /\ live \in Seq(Nat)
      /\ t.chain \in 1..Len(live) /\ live[t.chain] \in Nat
  BY DEF Sound, Issued, Token
<1>2. CASE live' = live
  BY <1>2
<1>3. CASE RotatesOut
  <2>1. PICK s \in Out : /\ live[s.chain] = s.seq
                         /\ live' = [live EXCEPT ![s.chain] = s.seq + 1]
    BY <1>3 DEF RotatesOut
  <2>2. s \in Token /\ s.chain \in 1..Len(live) /\ s.seq \in Nat \ {0}
    BY DEF Sound, Issued, Token
  <2>3. s.seq + 1 \in Nat
    BY <2>2
  <2>4. /\ live'[s.chain] = s.seq + 1
        /\ \A d \in 1..Len(live) : d # s.chain => live'[d] = live[d]
    BY <1>1, <2>1, <2>2, <2>3, SetLive
  <2>5. CASE s.chain = t.chain
    BY <1>1, <2>1, <2>2, <2>4, <2>5 DEF Issued
  <2>6. CASE s.chain # t.chain
    BY <1>1, <2>4, <2>6
  <2> QED BY <2>5, <2>6
<1>4. CASE live' = [live EXCEPT ![db.token.chain] = 0]
  <2>1. db.token.chain \in 1..Len(live)
    BY RowsIssued DEF Issued, Types
  <2>2. /\ live'[db.token.chain] = 0
        /\ \A d \in 1..Len(live) : d # db.token.chain => live'[d] = live[d]
    BY <1>1, <1>4, <2>1, SetLive
  <2> QED BY <1>1, <2>2
<1>5. CASE live' = Append(live, 1)
  BY <1>1, <1>5, AddLive
<1> QED BY <1>2, <1>3, <1>4, <1>5, LiveMoves

\* On its way from a refusal to the verdict.
Condemning(w) ==
  worker[w].at \in {"refused", "condemn"}
  \/ (worker[w].at = "unlock" /\ worker[w].next = "condemn")

Refusals == \A w \in Workers : Condemning(w) => ~Accepted(worker[w].row.token)

LEMMA CondemningBefore ==
  ASSUME Types, Next, NEW v \in Workers, Condemning(v)'
  PROVE  /\ worker'[v].row = worker[v].row
         /\ \/ Condemning(v)
            \/ live' = live /\ ~Accepted(worker[v].row.token)
<1> DEFINE Goal == /\ worker'[v].row = worker[v].row
                   /\ \/ Condemning(v)
                      \/ live' = live /\ ~Accepted(worker[v].row.token)
<1>0. ASSUME worker'[v] = worker[v] PROVE Goal
  BY <1>0 DEF Condemning
<1>1. ASSUME NEW w \in Workers,
             EnterCycle(w) \/ EnterRequest(w) \/ Refresh(w) \/ Failure(w)
      PROVE  Goal
  <2> USE DEF Condemning, Types, TypeOK
  <2>1. CASE Crash(w)
    BY <2>1, <1>0 DEF Crash, Resting
  <2>2. CASE v # w /\ ~Crash(w)
    BY <1>0, <1>1, <2>2 DEF EnterCycle, EnterRequest, Refresh, Failure, Retry, Lock,
         LockHeld, Read, CallProvider, RecoverFromRace, Store, Unlock, Condemn, CoolDown,
         Publish, LockFails, ReadFails, ProviderFails, AttemptTimesOut, StoreFails,
         UnlockFails, CondemnFails, Goto, Rest, Return, Proceed
  <2>3. CASE v = w /\ ~Crash(w)
    <3>w. worker[w] \in Worker
      OBVIOUS
    <3> USE <2>3, <3>w DEF Worker
    <3>1. CASE EnterCycle(w) \/ Retry(w)
      <4>1. PICK n : worker' = [worker EXCEPT ![w] = [Resting EXCEPT !.at = "lock",
                                                                    !.attempt = n]]
        BY <3>1 DEF EnterCycle, Retry
      <4>2. worker'[w] = [Resting EXCEPT !.at = "lock", !.attempt = n]
        BY <4>1
      <4>3. worker'[w].at = "lock"
        BY <4>2 DEF Resting
      <4> QED BY <4>3
    <3>2. CASE EnterRequest(w) \/ LockFails(w)
      BY <3>2 DEF EnterRequest, LockFails, Goto
    <3>3. CASE Lock(w)
      BY <3>3 DEF Lock
    <3>4. CASE LockHeld(w) \/ Condemn(w) \/ CoolDown(w) \/ Publish(w) \/ CondemnFails(w)
      BY <3>4 DEF LockHeld, Condemn, CoolDown, Publish, CondemnFails, Rest, Resting
    <3>5. CASE Read(w)
      BY <3>5 DEF Read
    <3>6. CASE CallProvider(w)
      BY <3>6 DEF CallProvider, Goto
    <3>7. CASE RecoverFromRace(w)
      BY <3>7 DEF RecoverFromRace, Return, At
    <3>8. CASE Store(w)
      BY <3>8 DEF Store, Return, AfterUnstored, AfterFailure
    <3>9. CASE Unlock(w) \/ UnlockFails(w)
      <4>1. Proceed(w) /\ worker[w].at = "unlock" /\ worker[w].next \in Results
        BY <3>9 DEF Unlock, UnlockFails, At
      <4>2. CASE worker[w].next = "idle"
        BY <4>1, <4>2 DEF Proceed, Resting
      <4>3. CASE worker[w].next # "idle"
        BY <4>1, <4>3 DEF Proceed, Results
      <4> QED BY <4>2, <4>3
    <3>10. CASE ReadFails(w) \/ ProviderFails(w) \/ AttemptTimesOut(w) \/ StoreFails(w)
      BY <3>10 DEF ReadFails, ProviderFails, AttemptTimesOut, StoreFails, Return,
           AfterUnstored, AfterFailure
    <3> QED
      BY <1>1, <3>1, <3>2, <3>3, <3>4, <3>5, <3>6, <3>7, <3>8, <3>9, <3>10
      DEF Refresh, Failure
  <2> QED BY <2>1, <2>2, <2>3
<1>2. ASSUME NEW a \in Admins, Administer(a) PROVE Goal
  BY <1>0, <1>2 DEF Administer, BeginEdit, BeginRefresh, BeginAuthorize, Begin,
       MakeSchedulable, AdminCall, AdminRead, AdminWrite, AdminClear, AdminClearFails,
       AdminCallFails, AdminFails
<1>3. CASE Expire \/ Revoke \/ LockExpires \/ CooldownEnds
  BY <1>0, <1>3 DEF Expire, Revoke, LockExpires, CooldownEnds
<1> QED BY <1>1, <1>2, <1>3 DEF Next

LEMMA RefusalsStep ==
  ASSUME Types, Sound(live, Out, Hands), Callers, Refusals, Next
  PROVE  Refusals'
<1> SUFFICES ASSUME NEW w \in Workers, Condemning(w)'
             PROVE  ~Accepted(worker[w].row.token)'
  BY DEF Refusals
<1>1. worker'[w].row = worker[w].row
  BY CondemningBefore
<1>2. CASE Condemning(w)
  <2>1. live[worker[w].row.token.chain] # worker[w].row.token.seq
    BY <1>2 DEF Refusals, Accepted
  <2>2. live'[worker[w].row.token.chain] # worker[w].row.token.seq
    BY <2>1, OutTokens, RefusedStays
  <2> QED BY <1>1, <2>2 DEF Accepted
<1>3. CASE ~Condemning(w)
  BY <1>1, <1>3, CondemningBefore DEF Accepted
<1> QED BY <1>2, <1>3

-----------------------------------------------------------------------------
(* The row's token is kept *)

\* A step that leaves the row's token alone keeps it when the provider does, and
\* when whoever has its successor keeps that or throws it away on record.
LEMMA KeptFrame ==
  ASSUME TokenIsKept, db'.token = db.token,
         dropped \subseteq dropped', rolledBack \subseteq rolledBack',
         live'[db.token.chain] \in {live[db.token.chain], 0},
         Successor(db.token) \in InHand =>
           Successor(db.token) \in InHand' \/ Successor(db.token) \in dropped'
  PROVE  TokenIsKept'
  BY DEF TokenIsKept, Accepted

LEMMA SuccessorIsOwn ==
  ASSUME NEW s \in Token, NEW t \in Token, Successor(s) = Successor(t)
  PROVE  s = t
<1>1. s.chain = t.chain /\ s.seq = t.seq
  BY SuccessorType DEF Token
<1> QED BY <1>1 DEF Token

\* Only a worker at "store" lets go of a token, and it is on record then.
LEMMA WorkersHandKept ==
  ASSUME Types, NEW t \in Token, Successor(t) \in InHand, admin' = admin,
         \A v \in Workers : At(v, "store") =>
           worker'[v] = worker[v] \/ Successor(worker[v].row.token) \in dropped'
  PROVE  Successor(t) \in InHand' \/ Successor(t) \in dropped'
<1>1. CASE \E v \in Workers : At(v, "store") /\ Successor(t) = Successor(worker[v].row.token)
  <2>1. PICK v \in Workers : At(v, "store") /\ Successor(t) = Successor(worker[v].row.token)
    BY <1>1
  <2>2. worker[v].row.token = t
    BY <2>1, WorkerType, SuccessorIsOwn
  <2>3. CASE worker'[v] = worker[v]
    BY <2>1, <2>3 DEF InHand, At
  <2> QED BY <2>1, <2>2, <2>3
<1>2. CASE ~\E v \in Workers : At(v, "store") /\ Successor(t) = Successor(worker[v].row.token)
  BY <1>2 DEF InHand
<1> QED BY <1>1, <1>2

\* The provider replaces a token: the one who asked has its successor, or has
\* thrown it away.
LEMMA KeptByRotation ==
  ASSUME Types, Sound(live, Out, Hands), TokenIsKept,
         NEW t \in Out, live[t.chain] = t.seq, live' = [live EXCEPT ![t.chain] = t.seq + 1],
         db' = db, dropped \subseteq dropped', rolledBack' = rolledBack,
         Successor(t) \in InHand' \cup dropped', InHand \subseteq InHand'
  PROVE  TokenIsKept'
<1>1. /\ t \in Token /\ t.chain \in 1..Len(live) /\ t.seq \in Nat \ {0}
      /\ live \in Seq(Nat) /\ db.token \in Token /\ db.token.chain \in 1..Len(live)
  BY OutTokens DEF Sound, Issued, Token
<1>2. t.seq + 1 \in Nat
  BY <1>1
<1>3. \A d \in 1..Len(live) : d # t.chain => live'[d] = live[d]
  BY <1>1, <1>2, SetLive
<1>4. CASE db.token = t
  BY <1>4 DEF TokenIsKept
<1>5. CASE db.token.chain # t.chain
  BY <1>1, <1>3, <1>5, KeptFrame
<1>6. CASE db.token # t /\ db.token.chain = t.chain
  <2>1. db.token.seq # t.seq
    BY <1>1, <1>6 DEF Token
  <2>2. Successor(db.token) \in InHand \cup dropped \/ db.token \in rolledBack
    BY <1>1, <1>6, <2>1 DEF TokenIsKept, Accepted
  <2> QED BY <2>2 DEF TokenIsKept
<1> QED BY <1>4, <1>5, <1>6

LEMMA KeptByWorker ==
  ASSUME Types, Sound(live, Out, Hands), TokenIsKept, NEW w \in Workers,
         EnterCycle(w) \/ EnterRequest(w) \/ Refresh(w) \/ Failure(w)
  PROVE  TokenIsKept'
<1>0. db.token \in Token
  BY RowType DEF Types, TypeOK
<1>1. CASE Store(w)
  <2>1. CASE grok /\ ~Unchanged(w)
    <3>1. \A v \in Workers : At(v, "store") =>
            worker'[v] = worker[v] \/ Successor(worker[v].row.token) \in dropped'
      BY <1>1, <2>1 DEF Store, Return, Types, TypeOK
    <3>2. Successor(db.token) \in InHand =>
            Successor(db.token) \in InHand' \/ Successor(db.token) \in dropped'
      BY <1>0, <1>1, <3>1, WorkersHandKept DEF Store
    <3> QED BY <1>1, <2>1, <3>2, KeptFrame DEF Store, tokens
  <2>2. CASE ~(grok /\ ~Unchanged(w))
    <3> DEFINE t == Successor(worker[w].row.token)
    <3>1. db' = [db EXCEPT !.token = t, !.rev = worker[w].row.rev] /\ live' = live
      BY <1>1, <2>2 DEF Store, tokens
    <3>2. db'.token = t
      BY <3>1 DEF Types, TypeOK, Row
    <3>3. live[t.chain] = 0 \/ live[t.chain] = t.seq
      BY <1>1, StoreSound
    <3> HIDE DEF t
    <3> QED BY <3>1, <3>2, <3>3 DEF TokenIsKept, Accepted
  <2> QED BY <2>1, <2>2
<1>2. CASE CallProvider(w)
  <2> DEFINE t == worker[w].row.token
  <2>1. CASE ~Accepted(t)
    <3>1. \A v \in Workers : At(v, "store") => worker'[v] = worker[v]
      BY <1>2, <2>1 DEF CallProvider, Goto, At, Types, TypeOK
    <3>2. Successor(db.token) \in InHand =>
            Successor(db.token) \in InHand' \/ Successor(db.token) \in dropped'
      BY <1>0, <1>2, <3>1, WorkersHandKept DEF CallProvider
    <3> QED BY <1>2, <2>1, <3>2, KeptFrame DEF CallProvider, history
  <2>2. CASE Accepted(t)
    <3>1. /\ \A v \in Workers : v # w => worker'[v] = worker[v]
          /\ worker'[w].row = worker[w].row /\ worker'[w].at = "store"
          /\ worker[w].at # "store" /\ admin' = admin
      BY <1>2, <2>2, WorkerType DEF CallProvider, Goto, At, Types, TypeOK, Worker
    <3>2. Successor(t) \in InHand'
      BY <3>1 DEF InHand, At
    <3>3. InHand \subseteq InHand'
      BY <3>1 DEF InHand, At
    <3>4. /\ live[t.chain] = t.seq /\ live' = [live EXCEPT ![t.chain] = t.seq + 1]
          /\ t \in Out
      BY <1>2, <2>2, OutTokens DEF CallProvider, Accepted, Rotate
    <3>5. db' = db /\ dropped' = dropped /\ rolledBack' = rolledBack
      BY <1>2 DEF CallProvider, history
    <3> HIDE DEF t
    <3> QED BY <3>2, <3>3, <3>4, <3>5, KeptByRotation
  <2> QED BY <2>1, <2>2
<1>3. CASE AttemptTimesOut(w) \/ StoreFails(w)
  <2>1. \A v \in Workers : At(v, "store") =>
          worker'[v] = worker[v] \/ Successor(worker[v].row.token) \in dropped'
    BY <1>3 DEF AttemptTimesOut, StoreFails, Return, Types, TypeOK
  <2>2. Successor(db.token) \in InHand =>
          Successor(db.token) \in InHand' \/ Successor(db.token) \in dropped'
    BY <1>0, <1>3, <2>1, WorkersHandKept DEF AttemptTimesOut, StoreFails
  <2> QED BY <1>3, <2>2, KeptFrame DEF AttemptTimesOut, StoreFails, tokens
<1>4. CASE Crash(w)
  <2>1. \A v \in Workers : At(v, "store") =>
          worker'[v] = worker[v] \/ Successor(worker[v].row.token) \in dropped'
    BY <1>4 DEF Crash, Types, TypeOK
  <2>2. Successor(db.token) \in InHand =>
          Successor(db.token) \in InHand' \/ Successor(db.token) \in dropped'
    BY <1>0, <1>4, <2>1, WorkersHandKept DEF Crash
  <2> QED BY <1>4, <2>2, KeptFrame DEF Crash, tokens
<1>5. CASE \/ EnterCycle(w) \/ EnterRequest(w) \/ Retry(w) \/ Lock(w) \/ LockHeld(w)
          \/ Read(w) \/ RecoverFromRace(w) \/ Unlock(w) \/ Condemn(w) \/ CoolDown(w)
          \/ Publish(w) \/ LockFails(w) \/ ReadFails(w) \/ ProviderFails(w)
          \/ UnlockFails(w) \/ CondemnFails(w)
  <2>1. Quiet(w)
    BY <1>5, QuietActions
  <2>2. ~At(w, "store") /\ dropped' = dropped /\ rolledBack' = rolledBack
    BY <1>5 DEF EnterCycle, EnterRequest, Retry, Lock, LockHeld, Read, RecoverFromRace,
         Unlock, Condemn, CoolDown, Publish, LockFails, ReadFails, ProviderFails,
         UnlockFails, CondemnFails, At, history
  <2>3. \A v \in Workers : At(v, "store") => worker'[v] = worker[v]
    BY <2>1, <2>2 DEF Quiet, Moved, Types, TypeOK
  <2>4. Successor(db.token) \in InHand =>
          Successor(db.token) \in InHand' \/ Successor(db.token) \in dropped'
    BY <1>0, <2>1, <2>3, WorkersHandKept DEF Quiet
  <2> QED BY <2>1, <2>2, <2>4, KeptFrame DEF Quiet
<1> QED BY <1>1, <1>2, <1>3, <1>4, <1>5 DEF Refresh, Failure

LEMMA KeptByAdmin ==
  ASSUME Types, Sound(live, Out, Hands), Callers, TokenIsKept,
         NEW a \in Admins, Administer(a)
  PROVE  TokenIsKept'
<1>0. db.token \in Token /\ db.token.chain \in 1..Len(live) /\ live \in Seq(Nat)
  BY RowsIssued DEF Issued, Types, TypeOK
<1>1. ASSUME worker' = worker, InHand \subseteq InHand', db'.token = db.token,
             live' = live \/ live' = Append(live, 1),
             dropped' = dropped, rolledBack' = rolledBack
      PROVE  TokenIsKept'
  <2>1. live'[db.token.chain] = live[db.token.chain]
    BY <1>0, <1>1, AddLive
  <2> QED BY <1>1, <2>1, KeptFrame
<1>2. \A b \in Admins : b # a => admin'[b] = admin[b]
  BY DEF Administer, BeginEdit, BeginRefresh, BeginAuthorize, Begin,
     MakeSchedulable, AdminCall, AdminRead, AdminWrite, AdminClear, AdminClearFails,
     AdminCallFails, AdminFails, Types, TypeOK
<1>3. CASE \/ BeginEdit(a) \/ BeginRefresh(a) \/ BeginAuthorize(a) \/ AdminRead(a)
          \/ AdminClear(a) \/ AdminClearFails(a) \/ MakeSchedulable(a)
  <2>1. db'.token = db.token
    BY <1>3 DEF BeginEdit, BeginRefresh, BeginAuthorize, Begin, AdminRead, AdminClear,
         AdminClearFails, MakeSchedulable, Types, TypeOK, Row
  <2>2. /\ worker' = worker /\ (live' = live \/ live' = Append(live, 1))
        /\ dropped' = dropped /\ rolledBack' = rolledBack
    BY <1>3 DEF BeginEdit, BeginRefresh, BeginAuthorize, Begin, AdminRead, AdminClear,
         AdminClearFails, MakeSchedulable, tokens, history
  <2>3. admin[a].does = "refresh" /\ admin[a].at \in {"read", "write"} =>
          /\ admin'[a].token = admin[a].token /\ admin'[a].does = "refresh"
          /\ admin'[a].at \in {"read", "write"}
    BY <1>3, AdminType DEF BeginEdit, BeginRefresh, BeginAuthorize, Begin, AdminRead,
         AdminClear, AdminClearFails, MakeSchedulable, AdminAt, Types, TypeOK, Admin
  <2>4. InHand \subseteq InHand'
    <3>1. \A b \in Admins : admin[b].does = "refresh" /\ admin[b].at \in {"read", "write"} =>
            /\ admin'[b].token = admin[b].token /\ admin'[b].does = "refresh"
            /\ admin'[b].at \in {"read", "write"}
      BY <1>2, <2>3
    <3> QED BY <2>2, <3>1 DEF InHand, At
  <2> QED BY <1>1, <2>1, <2>2, <2>4
<1>4. CASE AdminCall(a)
  <2> DEFINE t == admin[a].token
  <2>1. /\ t \in Out /\ admin[a].does = "refresh" /\ admin[a].at = "call"
        /\ worker' = worker /\ db' = db /\ dropped' = dropped /\ rolledBack' = rolledBack
    BY <1>4, OutTokens DEF AdminCall, AdminAt, Callers, Holding, history
  <2>2. InHand \subseteq InHand'
    BY <1>2, <2>1 DEF InHand, At
  <2>3. CASE Accepted(t)
    <3>1. /\ admin'[a].at = "read" /\ admin'[a].does = "refresh"
          /\ admin'[a].token = Successor(t)
      BY <1>4, <2>1, <2>3, AdminType DEF AdminCall, Types, TypeOK, Admin
    <3>2. Successor(t) \in InHand'
      BY <3>1 DEF InHand
    <3>3. live[t.chain] = t.seq /\ live' = [live EXCEPT ![t.chain] = t.seq + 1]
      BY <1>4, <2>3 DEF AdminCall, Accepted, Rotate
    <3> HIDE DEF t
    <3> QED BY <2>1, <2>2, <3>2, <3>3, KeptByRotation
  <2>4. CASE ~Accepted(t)
    BY <1>1, <1>4, <2>1, <2>2, <2>4 DEF AdminCall
  <2> QED BY <2>3, <2>4
<1>5. CASE AdminWrite(a)
  <2> DEFINE edits == admin[a].does = "edit"
  <2>1. /\ db'.token = IF edits THEN admin[a].row.token ELSE admin[a].token
        /\ rolledBack' = rolledBack \cup (IF edits THEN {db'.token} \ {db.token} ELSE {})
        /\ worker' = worker /\ live' = live /\ dropped' = dropped
        /\ admin[a].at = "write"
    <3>1. admin[a].row \in Row
      BY AdminType
    <3> QED BY <1>5, <3>1 DEF AdminWrite, AdminAt, Row, tokens
  <2>2. CASE edits
    <3>1. InHand \subseteq InHand'
      BY <1>2, <2>1, <2>2 DEF InHand, At
    <3>2. CASE db'.token = db.token
      BY <2>1, <3>1, <3>2, KeptFrame
    <3>3. CASE db'.token # db.token
      BY <2>1, <2>2, <3>3 DEF TokenIsKept
    <3> QED BY <3>2, <3>3
  <2>3. CASE ~edits
    <3>1. AdminHand(a) \in Hands /\ AdminHand(a).token = db'.token
      BY <2>1, <2>3, AdminType DEF Hands, AdminHand, Holding, Admin
    <3>2. live[db'.token.chain] \in {0, db'.token.seq}
      BY <3>1 DEF Sound, Held
    <3> QED BY <2>1, <3>2 DEF TokenIsKept, Accepted
  <2> QED BY <2>2, <2>3
<1>6. CASE AdminCallFails(a)
  <2> DEFINE t == admin[a].token
  <2>1. /\ t \in Out /\ admin[a].at = "call"
        /\ worker' = worker /\ db' = db /\ rolledBack' = rolledBack
    BY <1>6, OutTokens DEF AdminCallFails, AdminAt, Callers, Holding
  <2>2. InHand \subseteq InHand'
    BY <1>2, <2>1 DEF InHand, At
  <2>3. CASE UNCHANGED <<live, dropped>>
    BY <1>1, <2>1, <2>2, <2>3
  <2>4. CASE Accepted(t) /\ Rotate(t) /\ dropped' = dropped \cup {Successor(t)}
    <3>1. live[t.chain] = t.seq /\ live' = [live EXCEPT ![t.chain] = t.seq + 1]
      BY <2>4 DEF Accepted, Rotate
    <3> HIDE DEF t
    <3> QED BY <2>1, <2>2, <2>4, <3>1, KeptByRotation
  <2> QED BY <1>6, <2>3, <2>4 DEF AdminCallFails
<1>7. CASE AdminFails(a)
  <2>1. /\ worker' = worker /\ db' = db /\ live' = live /\ rolledBack' = rolledBack
        /\ dropped \subseteq dropped'
        /\ admin[a].does = "refresh" => admin[a].token \in dropped'
    BY <1>7 DEF AdminFails, tokens
  <2>2. InHand \subseteq InHand' \cup dropped'
    BY <1>2, <2>1 DEF InHand, At
  <2> QED BY <2>1, <2>2, KeptFrame
<1> QED BY <1>3, <1>4, <1>5, <1>6, <1>7 DEF Administer

LEMMA KeptStep ==
  ASSUME Types, Sound(live, Out, Hands), Callers, TokenIsKept, Next
  PROVE  TokenIsKept'
<1>1. ASSUME worker' = worker, admin' = admin, db'.token = db.token,
             dropped' = dropped, rolledBack' = rolledBack,
             live'[db.token.chain] \in {live[db.token.chain], 0}
      PROVE  TokenIsKept'
  <2>1. InHand' = InHand
    BY <1>1 DEF InHand, At
  <2> QED BY <1>1, <2>1, KeptFrame
<1>2. CASE Expire \/ LockExpires
  BY <1>1, <1>2 DEF Expire, LockExpires, tokens, history
<1>3. CASE Revoke
  <2>1. db.token.chain \in 1..Len(live) /\ live \in Seq(Nat)
    BY RowsIssued DEF Issued, Types, TypeOK
  <2>2. live'[db.token.chain] = 0
    BY <1>3, <2>1, SetLive DEF Revoke
  <2> QED BY <1>1, <1>3, <2>2 DEF Revoke, history
<1>4. CASE CooldownEnds
  <2>1. db'.token = db.token
    BY <1>4 DEF CooldownEnds, Types, TypeOK, Row
  <2> QED BY <1>1, <1>4, <2>1 DEF CooldownEnds, tokens, history
<1> QED BY <1>2, <1>3, <1>4, KeptByWorker, KeptByAdmin DEF Next

-----------------------------------------------------------------------------
(* A quarantine is deserved *)

LEMMA DeservedFrame ==
  ASSUME Types, Sound(live, Out, Hands), Callers, QuarantineIsDeserved, Next,
         db'.token = db.token, db'.status = db.status, raced \subseteq raced',
         \A a \in Admins : admin[a].at = "clear" => admin'[a].at = "clear"
  PROVE  QuarantineIsDeserved'
<1> SUFFICES ASSUME db.status = "error",
                    ~Accepted(db.token) \/ db.token \in raced
             PROVE  ~Accepted(db.token)' \/ db.token \in raced'
  BY DEF QuarantineIsDeserved, AdminAt
<1>1. ~Accepted(db.token) => live'[db.token.chain] # db.token.seq
  BY OutTokens, RefusedStays DEF Accepted
<1> QED BY <1>1 DEF Accepted

LEMMA DeservedStep ==
  ASSUME Types, Sound(live, Out, Hands), Callers, Refusals, QuarantineIsDeserved, Next
  PROVE  QuarantineIsDeserved'
<1>r. db \in Row
  BY DEF Types, TypeOK
<1>1. ASSUME NEW w \in Workers, Store(w) PROVE QuarantineIsDeserved'
  <2>1. CASE grok /\ ~Unchanged(w)
    BY <1>1, <2>1, DeservedFrame DEF Store
  <2>2. CASE ~(grok /\ ~Unchanged(w))
    <3> DEFINE t == Successor(worker[w].row.token)
    <3>1. /\ db' = [db EXCEPT !.token = t, !.rev = worker[w].row.rev]
          /\ raced' = raced \cup (IF db.status = "error" THEN {t} ELSE {})
      BY <1>1, <2>2 DEF Store
    <3> HIDE DEF t
    <3>2. db'.token = t /\ db'.status = db.status
      BY <1>r, <3>1 DEF Row
    <3> QED BY <3>1, <3>2 DEF QuarantineIsDeserved
  <2> QED BY <2>1, <2>2
<1>2. ASSUME NEW w \in Workers, Condemn(w) PROVE QuarantineIsDeserved'
  <2> DEFINE t == worker[w].row.token
  <2>1. CASE UNCHANGED <<db, raced>>
    BY <1>2, <2>1, DeservedFrame DEF Condemn
  <2>2. CASE db' = Quarantined(db) /\ raced' = raced \cup ({db.token} \ {t})
    <3>1. db'.token = db.token /\ live' = live
      BY <1>r, <1>2, <2>2 DEF Condemn, Quarantined, Row, tokens
    <3>2. CASE db.token = t
      <4>1. ~Accepted(t)
        BY <1>2 DEF Refusals, Condemning, Condemn, At
      <4> QED BY <3>1, <3>2, <4>1 DEF QuarantineIsDeserved, Accepted
    <3>3. CASE db.token # t
      BY <2>2, <3>1, <3>3 DEF QuarantineIsDeserved
    <3> QED BY <3>2, <3>3
  <2> QED BY <1>2, <2>1, <2>2 DEF Condemn
<1>3. ASSUME NEW w \in Workers,
             EnterCycle(w) \/ EnterRequest(w) \/ Refresh(w) \/ Failure(w),
             ~Store(w), ~Condemn(w)
      PROVE  QuarantineIsDeserved'
  <2>1. CASE CoolDown(w) \/ Publish(w)
    <3>1. db'.token = db.token /\ db'.status = db.status /\ raced' = raced /\ admin' = admin
      BY <1>r, <2>1 DEF CoolDown, Publish, Row, history
    <3> QED BY <3>1, DeservedFrame
  <2>2. CASE ~(CoolDown(w) \/ Publish(w))
    <3>1. db' = db /\ raced' = raced /\ admin' = admin
      BY <1>3, <2>2 DEF EnterCycle, EnterRequest, Refresh, Failure, Retry, Lock, LockHeld,
           Read, CallProvider, RecoverFromRace, Unlock, LockFails, ReadFails,
           ProviderFails, AttemptTimesOut, StoreFails, UnlockFails, CondemnFails, Crash,
           history
    <3> QED BY <3>1, DeservedFrame
  <2> QED BY <2>1, <2>2
<1>4. ASSUME NEW a \in Admins, Administer(a) PROVE QuarantineIsDeserved'
  <2>1. \A b \in Admins : b # a => admin'[b] = admin[b]
    BY <1>4 DEF Administer, BeginEdit, BeginRefresh, BeginAuthorize, Begin,
         MakeSchedulable, AdminCall, AdminRead, AdminWrite, AdminClear, AdminClearFails,
         AdminCallFails, AdminFails, Types, TypeOK
  <2>2. CASE \/ BeginEdit(a) \/ BeginRefresh(a) \/ BeginAuthorize(a) \/ AdminCall(a)
            \/ AdminRead(a) \/ MakeSchedulable(a) \/ AdminCallFails(a) \/ AdminFails(a)
    <3>1. db'.token = db.token /\ db'.status = db.status /\ raced' = raced
      BY <1>r, <2>2 DEF BeginEdit, BeginRefresh, BeginAuthorize, Begin, AdminCall,
           AdminRead, MakeSchedulable, AdminCallFails, AdminFails, Row, history
    <3>2. admin[a].at # "clear" \/ admin' = admin
      BY <2>2 DEF BeginEdit, BeginRefresh, BeginAuthorize, Begin, AdminCall,
           AdminRead, MakeSchedulable, AdminCallFails, AdminFails, AdminAt
    <3>3. \A b \in Admins : admin[b].at = "clear" => admin'[b].at = "clear"
      BY <2>1, <3>2
    <3> QED BY <3>1, <3>3, DeservedFrame
  <2>3. CASE AdminClear(a)
    BY <1>r, <2>3 DEF AdminClear, Row, QuarantineIsDeserved
  <2>4. CASE AdminClearFails(a)
    BY <2>4 DEF AdminClearFails, QuarantineIsDeserved
  <2>5. CASE AdminWrite(a)
    <3> DEFINE row == admin[a].row
               token == IF admin[a].does = "edit" THEN row.token ELSE admin[a].token
    <3>1. db'.token = token /\ db'.status = row.status
      <4>1. row \in Row
        BY AdminType
      <4> QED BY <2>5, <4>1 DEF AdminWrite, Row
    <3>2. CASE row.status = "error" /\ admin[a].does # "authorize"
      <4>1. token \in raced'
        BY <2>5, <3>2 DEF AdminWrite
      <4> HIDE DEF token
      <4> QED BY <3>1, <4>1 DEF QuarantineIsDeserved
    <3>3. CASE row.status # "error"
      BY <3>1, <3>3 DEF QuarantineIsDeserved
    <3>4. CASE admin[a].does = "authorize"
      <4>1. admin'[a].at = "clear"
        BY <2>5, <3>4, AdminType DEF AdminWrite, Types, TypeOK, Admin
      <4> QED BY <4>1 DEF QuarantineIsDeserved, AdminAt
    <3> QED BY <3>2, <3>3, <3>4
  <2> QED BY <1>4, <2>2, <2>3, <2>4, <2>5 DEF Administer
<1>5. CASE Expire \/ Revoke \/ LockExpires
  BY <1>5, DeservedFrame DEF Expire, Revoke, LockExpires, history
<1>6. CASE CooldownEnds
  <2>1. db'.token = db.token /\ db'.status = db.status
    BY <1>r, <1>6 DEF CooldownEnds, Row
  <2> QED BY <1>6, <2>1, DeservedFrame DEF CooldownEnds, history
<1> QED BY <1>1, <1>2, <1>3, <1>4, <1>5, <1>6 DEF Next

-----------------------------------------------------------------------------
(* The theorems *)

\* What the properties need to be inductive: types, no token in two places, and
\* that a token on its way to a verdict has been refused.
IInv ==
  /\ Types
  /\ Sound(live, Out, Hands)
  /\ Callers
  /\ Refusals
  /\ TokenIsKept
  /\ QuarantineIsDeserved

LEMMA IInvInit == Init => IInv
<1> SUFFICES ASSUME Init PROVE IInv
  OBVIOUS
<1>1. /\ \A w \in Workers : worker[w] = Resting
      /\ \A a \in Admins : admin[a] = Away
      /\ db = FirstRow /\ live = <<1>>
  BY DEF Init
<1>2. /\ FirstRow.token = [chain |-> 1, seq |-> 1]
      /\ Resting.row = FirstRow /\ Away.row = FirstRow /\ Away.token = FirstRow.token
      /\ Resting.at = "idle" /\ Resting.next = "idle" /\ Away.at = "idle"
      /\ FirstRow.status = "active"
  BY DEF FirstRow, Resting, Away
<1>3. /\ 0 \in 0..MaxRequests /\ 0 \in 0..MaxOperations /\ 0 \in 0..MaxFaults
  BY OAuthAssumption
<1>4. Types
  <2>1. worker \in [Workers -> Worker]
    BY RestingType DEF Init
  <2>2. admin \in [Admins -> Admin]
    BY AwayType DEF Init
  <2>3. db \in Row
    BY FirstRowType DEF Init
  <2>4. RetriesLeft
    BY <1>1, <1>2 DEF RetriesLeft
  <2> QED BY <1>3, <2>1, <2>2, <2>3, <2>4 DEF Init, Types, TypeOK
<1>5. Sound(live, Out, Hands)
  <2>1. Out = {FirstRow.token}
    BY <1>1, <1>2 DEF Out, Holding
  <2>2. Hands = {}
    BY <1>1, <1>2 DEF Hands, Holding, At
  <2>3. live \in Seq(Nat) /\ Len(live) = 1 /\ live[1] = 1
    BY <1>1
  <2>4. Issued(live, FirstRow.token)
    BY <1>2, <2>3 DEF Issued, Token
  <2> QED BY <2>1, <2>2, <2>3, <2>4 DEF Sound
<1>6. Callers /\ Refusals
  BY <1>1, <1>2 DEF Callers, Refusals, Condemning
<1>7. TokenIsKept /\ QuarantineIsDeserved
  BY <1>1, <1>2 DEF TokenIsKept, QuarantineIsDeserved, Accepted
<1> QED BY <1>4, <1>5, <1>6, <1>7 DEF IInv

LEMMA IInvStutters == IInv /\ UNCHANGED vars => IInv'
<1> SUFFICES ASSUME IInv, UNCHANGED vars PROVE IInv'
  OBVIOUS
<1>1. /\ grok' = grok /\ home' = home /\ db' = db /\ live' = live
      /\ expiring' = expiring /\ lock' = lock /\ worker' = worker /\ admin' = admin
      /\ dropped' = dropped /\ rolledBack' = rolledBack /\ raced' = raced
      /\ requests' = requests /\ operations' = operations /\ faults' = faults
  BY DEF vars, world, tokens, history, bounds
<1>2. Types'
  BY <1>1 DEF IInv, Types, TypeOK, RetriesLeft
<1>3. Sound(live, Out, Hands)'
  BY <1>1, NobodyMoves DEF IInv
<1>4. Callers' /\ Refusals'
  BY <1>1 DEF IInv, Callers, Refusals, Condemning, Accepted
<1>5. InHand' = InHand
  BY <1>1 DEF InHand, At
<1>6. TokenIsKept' /\ QuarantineIsDeserved'
  BY <1>1, <1>5 DEF IInv, TokenIsKept, QuarantineIsDeserved, Accepted, AdminAt
<1> QED BY <1>2, <1>3, <1>4, <1>6 DEF IInv

LEMMA IInvStep == IInv /\ [Next]_vars => IInv'
<1>1. ASSUME IInv, Next PROVE IInv'
  BY <1>1, TypeStep, SoundStep, CallersStep, RefusalsStep, KeptStep, DeservedStep DEF IInv
<1> QED BY <1>1, IInvStutters

LEMMA Invariance == Spec => []IInv
  BY IInvInit, IInvStep, PTL DEF Spec

\* Every worker, row and token has its type; a background refresh never makes
\* more attempts than it is allowed (refreshWithRetryWithRateGate).
THEOREM TypeCorrect == Spec => []TypeOK
<1>1. IInv => TypeOK
  BY DEF IInv, Types
<1> QED BY <1>1, Invariance, PTL

\* However many workers refresh an account, with the lock or without it, and
\* however many administrators act on it, the row's token is the last one, or its
\* successor is in a hand, or it was lost on record (oauth_refresh_api.go).
THEOREM TokensAreKept == Spec => []TokenIsKept
<1>1. IInv => TokenIsKept
  BY DEF IInv
<1> QED BY <1>1, Invariance, PTL

\* A quarantined account has a token the provider refuses, or an accepted one on
\* record: put there after the verdict, carried on by an administrator's write, or,
\* not for a Grok account, one that had replaced the refused token when the verdict
\* came, as only invalid_grant makes the code read the row again.
THEOREM QuarantinesAreDeserved == Spec => []QuarantineIsDeserved
<1>1. IInv => QuarantineIsDeserved
  BY DEF IInv
<1> QED BY <1>1, Invariance, PTL

\* No refresh of a Grok account brings an old authorization back.
THEOREM AuthorizationsAreKept == Spec => AuthorizationIsKept
<1> DEFINE Kept == grok /\ db'.token.chain < db.token.chain =>
                     \E a \in Admins : AdminAt(a, "write") /\ admin'[a] # admin[a]
<1>1. ASSUME IInv, Next PROVE Kept
  <2>1. db \in Row /\ db.token \in Token /\ db.token.chain \in Nat
    BY <1>1, RowType DEF IInv, Types, TypeOK, Token
  <2>2. ASSUME db'.token.chain = db.token.chain PROVE Kept
    BY <2>1, <2>2
  <2>3. ASSUME NEW w \in Workers, Store(w) PROVE Kept
    <3>1. CASE grok /\ Unchanged(w)
      <4>1. db' = [db EXCEPT !.token = Successor(db.token), !.rev = worker[w].row.rev]
        BY <2>3, <3>1 DEF Store, Unchanged
      <4>2. db'.token.chain = db.token.chain
        BY <2>1, <4>1, SuccessorType DEF Row
      <4> QED BY <2>2, <4>2
    <3>2. CASE grok /\ ~Unchanged(w)
      BY <2>2, <2>3, <3>2 DEF Store
    <3> QED BY <3>1, <3>2
  <2>4. ASSUME NEW w \in Workers,
               EnterCycle(w) \/ EnterRequest(w) \/ Refresh(w) \/ Failure(w), ~Store(w)
        PROVE  Kept
    <3>1. db'.token = db.token
      BY <1>1, <2>4, QuietActions
      DEF IInv, Refresh, Failure, CallProvider, Crash, Quiet
    <3> QED BY <2>2, <3>1
  <2>5. ASSUME NEW a \in Admins, AdminWrite(a) PROVE Kept
    <3>1. admin[a] \in Admin /\ admin[a].at = "write"
      BY <1>1, <2>5, AdminType DEF IInv, AdminWrite, AdminAt
    <3>2. admin'[a].at # "write"
      BY <1>1, <2>5, <3>1 DEF AdminWrite, Away, IInv, Types, TypeOK, Admin
    <3> QED BY <3>1, <3>2 DEF AdminAt
  <2>6. ASSUME NEW a \in Admins, Administer(a), ~AdminWrite(a) PROVE Kept
    <3>1. db'.token = db.token
      BY <2>1, <2>6 DEF Administer, BeginEdit, BeginRefresh, BeginAuthorize, Begin,
           MakeSchedulable, AdminCall, AdminRead, AdminClear, AdminClearFails,
           AdminCallFails, AdminFails, Row
    <3> QED BY <2>2, <3>1
  <2>7. CASE Expire \/ Revoke \/ LockExpires \/ CooldownEnds
    <3>1. db'.token = db.token
      BY <2>1, <2>7 DEF Expire, Revoke, LockExpires, CooldownEnds, Row
    <3> QED BY <2>2, <3>1
  <2> QED BY <1>1, <2>3, <2>4, <2>5, <2>6, <2>7 DEF Next
<1>2. IInv /\ [Next]_vars => [Kept]_vars
  BY <1>1
<1>3. Spec => [][Kept]_vars
  BY <1>2, Invariance, PTL DEF Spec
<1> QED BY <1>3 DEF AuthorizationIsKept

=============================================================================
