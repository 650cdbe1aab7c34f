----------------------------- MODULE LockProofs ------------------------------
(***************************************************************************)
(* Proofs about Lock, for any number of threads and Lock objects.           *)
(***************************************************************************)
EXTENDS Lock, TLAPS

\* A thread in a call has a Lock object and a token, an idle one has neither.
CallInv == \A t \in Threads :
    /\ call[t].pc = "idle" => call[t] = Idle
    /\ call[t].pc # "idle" => call[t].lock \in Locks /\ call[t].token \in Nat

\* No token has been given out twice: all that are known are below next, and no
\* two Lock objects, in calls or between them, know the same one.
Below(k) == k \in Nat => k < next

Fresh == /\ Below(key)
         /\ \A l \in Locks : Below(token[l]) /\ Below(granted[l])
         /\ \A t \in Threads : Below(call[t].token)

UniqueCalls ==
    \A t, u \in Threads : call[t].token # None /\ call[t].lock # call[u].lock
                            => call[t].token # call[u].token

UniqueKnown ==
    \A t \in Threads, l \in Locks : call[t].token # None /\ call[t].lock # l
                            => token[l] # call[t].token /\ granted[l] # call[t].token

UniqueTokens ==
    \A l, m \in Locks : token[l] # None /\ l # m
                            => token[m] # token[l] /\ granted[m] # token[l]

Unique == UniqueCalls /\ UniqueKnown /\ UniqueTokens

\* What is known of a Lock object that no two threads used at once.
OwnerAlone == \A l \in Locks : l \notin shared =>
    \A t, u \in Threads : call[t].lock = l /\ call[u].lock = l => t = u

OwnerCall == \A l \in Locks : l \notin shared =>
    \A t \in Threads : call[t].lock = l =>
        /\ call[t].pc = "store" => granted[l] \in {None, call[t].token}
        /\ call[t].pc = "clear" => granted[l] = None

OwnerToken == \A l \in Locks : l \notin shared =>
    (granted[l] # None /\ (\A t \in Threads : call[t].lock = l => call[t].pc # "store")
        => token[l] = granted[l])

OwnerInv == OwnerAlone /\ OwnerCall /\ OwnerToken

IInv == TypeOK /\ CallInv /\ Fresh /\ Unique /\ HoldersHaveKey /\ OwnerInv

CallType == [pc : {"idle"} \cup Calling, lock : Locks \cup {None}, token : Nat \cup {None},
             blocking : BOOLEAN, deadline : BOOLEAN, late : BOOLEAN, with : BOOLEAN]

(* How the three ways a call moves on change call.                           *)
LEMMA GotoFacts ==
  ASSUME TypeOK, NEW t \in Threads, NEW p \in Calling, Goto(t, p)
  PROVE  /\ call' \in [Threads -> CallType]
         /\ \A u \in Threads : /\ call'[u].lock = call[u].lock
                               /\ call'[u].token = call[u].token
                               /\ call'[u].pc = IF u = t THEN p ELSE call[u].pc
                               /\ u # t => call'[u] = call[u]
<1>1. call \in [Threads -> CallType]
  BY DEF TypeOK, CallType
<1>2. call' = [call EXCEPT ![t] = [call[t] EXCEPT !.pc = p]]
  BY DEF Goto
<1>3. [call[t] EXCEPT !.pc = p] \in CallType
  BY <1>1 DEF CallType
<1> QED BY <1>1, <1>2, <1>3 DEF CallType

LEMMA ReturnsFacts ==
  ASSUME TypeOK, NEW t \in Threads, Returns(t)
  PROVE  /\ call' \in [Threads -> CallType]
         /\ \A u \in Threads : call'[u] = IF u = t THEN Idle ELSE call[u]
         /\ Idle.pc = "idle" /\ Idle.lock = None /\ Idle.token = None
<1>1. call \in [Threads -> CallType] /\ Idle \in CallType
  BY DEF TypeOK, CallType, Idle, Calling
<1> QED BY <1>1 DEF Returns, Idle

LEMMA ReadFacts ==
  ASSUME TypeOK, NEW t \in Threads, NEW l \in Locks, NEW p \in Calling, ReadToken(t, l, p)
  PROVE  /\ call' \in [Threads -> CallType]
         /\ \A u \in Threads : u # t => call'[u] = call[u]
         /\ call'[t].lock = l /\ call'[t].token = token[l] /\ call'[t].pc = p
<1>1. call \in [Threads -> CallType] /\ token[l] \in Nat \cup {None}
  BY DEF TypeOK, CallType
<1> DEFINE c == [Idle EXCEPT !.pc = p, !.lock = l, !.token = token[l]]
<1>2. c \in CallType /\ c.lock = l /\ c.token = token[l] /\ c.pc = p
  BY <1>1 DEF CallType, Idle
<1>3. call' = [call EXCEPT ![t] = c]
  BY DEF ReadToken
<1> HIDE DEF c
<1> QED BY <1>1, <1>2, <1>3

(* The initial state satisfies the invariant.                                *)
LEMMA InitInv == Init => IInv
<1> SUFFICES ASSUME Init PROVE IInv OBVIOUS
<1> USE LockAssumption DEF Init
<1>1. TypeOK
  BY DEF TypeOK, Idle
<1>2. CallInv
  BY DEF CallInv, Idle
<1>3. Fresh
  BY DEF Fresh, Below, Idle
<1>4. Unique
  BY DEF Unique, UniqueCalls, UniqueKnown, UniqueTokens, Idle
<1>5. HoldersHaveKey
  BY DEF HoldersHaveKey
<1>6. OwnerInv
  BY DEF OwnerInv, OwnerAlone, OwnerCall, OwnerToken, Idle
<1> QED BY <1>1, <1>2, <1>3, <1>4, <1>5, <1>6 DEF IInv

(* The key expires: whoever held it holds nothing any more.                  *)
LEMMA ExpireInv ==
  ASSUME IInv, Expire
  PROVE  IInv'
<1> USE LockAssumption
<1>0. TypeOK /\ CallInv /\ Fresh /\ Unique /\ HoldersHaveKey /\ OwnerInv
  BY DEF IInv
<1>1. /\ key # None /\ key' = None /\ ttl' = FALSE /\ by' = None
      /\ token' = token /\ call' = call /\ calls' = calls /\ next' = next /\ shared' = shared
  BY DEF Expire, KeyGone
<1>2. \A l \in Locks : granted'[l] = None
  BY <1>0 DEF Expire, HoldersHaveKey
<1>3. granted' \in [Locks -> Nat \cup {None}]
  BY <1>0 DEF Expire, TypeOK
<1>4. TypeOK'
  BY <1>0, <1>1, <1>2, <1>3 DEF TypeOK, CallType
<1>5. CallInv'
  BY <1>0, <1>1, <1>2, <1>3 DEF CallInv, TypeOK
<1>6. Fresh'
  BY <1>0, <1>1, <1>2, <1>3 DEF Fresh, Below, TypeOK
<1>7. UniqueCalls'
  BY <1>0, <1>1, <1>2, <1>3 DEF Unique, UniqueCalls, UniqueKnown, Fresh, Below, CallInv, TypeOK
<1>8. UniqueKnown'
  BY <1>0, <1>1, <1>2, <1>3 DEF Unique, UniqueCalls, UniqueKnown, UniqueTokens, Fresh, Below, CallInv, TypeOK
<1>9. UniqueTokens'
  BY <1>0, <1>1, <1>2, <1>3 DEF Unique, UniqueKnown, UniqueTokens, Fresh, Below, CallInv, TypeOK
<1>10. HoldersHaveKey'
  BY <1>0, <1>1, <1>2, <1>3 DEF HoldersHaveKey, Unique, UniqueKnown, CallInv, TypeOK
<1>11. OwnerInv'
  <2>1. OwnerAlone'
    BY <1>0, <1>1, <1>2, <1>3 DEF OwnerInv, OwnerAlone, CallInv, TypeOK, Free
  <2>2. OwnerCall'
    BY <1>0, <1>1, <1>2, <1>3 DEF OwnerInv, OwnerAlone, OwnerCall, CallInv, HoldersHaveKey, TypeOK, Free
  <2>3. OwnerToken'
    BY <1>0, <1>1, <1>2, <1>3 DEF OwnerInv, OwnerAlone, OwnerCall, OwnerToken, CallInv, HoldersHaveKey, TypeOK, Free
  <2> QED BY <2>1, <2>2, <2>3 DEF OwnerInv
<1> QED BY <1>4, <1>5, <1>6, <1>7, <1>8, <1>9, <1>10, <1>11 DEF IInv, Unique

(* acquire() starts, with a token no one has.                                *)
LEMMA AcquireInv ==
  ASSUME IInv, NEW t \in Threads, NEW l \in Locks, NEW b \in BOOLEAN, NEW d \in BOOLEAN,
         NEW w \in BOOLEAN, Acquire(t, l, b, d, w)
  PROVE  IInv'
<1> USE LockAssumption
<1>0. TypeOK /\ CallInv /\ Fresh /\ Unique /\ HoldersHaveKey /\ OwnerInv
  BY DEF IInv
<1>1. /\ key' = key /\ ttl' = ttl /\ by' = by /\ granted' = granted
      /\ token' = token /\ next' = next + 1
  BY DEF Acquire, serverVars
<1>2. /\ call[t].pc = "idle" /\ calls' = calls + 1
      /\ shared' = IF Free(l) THEN shared ELSE shared \cup {l}
  BY DEF Acquire, Starts
<1>3. /\ call' \in [Threads -> CallType]
      /\ \A u \in Threads : u # t => call'[u] = call[u]
      /\ call'[t].lock = l /\ call'[t].token = next /\ call'[t].pc = "set"
  BY <1>0 DEF Acquire, TypeOK, CallType, Calling
<1>4. TypeOK'
  BY <1>0, <1>1, <1>2, <1>3 DEF TypeOK, CallType
<1>5. CallInv'
  BY <1>0, <1>1, <1>2, <1>3 DEF CallInv, TypeOK
<1>6. Fresh'
  BY <1>0, <1>1, <1>2, <1>3 DEF Fresh, Below, TypeOK
<1>7. UniqueCalls'
  BY <1>0, <1>1, <1>2, <1>3 DEF Unique, UniqueCalls, UniqueKnown, Fresh, Below, CallInv, TypeOK
<1>8. UniqueKnown'
  BY <1>0, <1>1, <1>2, <1>3 DEF Unique, UniqueCalls, UniqueKnown, UniqueTokens, Fresh, Below, CallInv, TypeOK
<1>9. UniqueTokens'
  BY <1>0, <1>1, <1>2, <1>3 DEF Unique, UniqueKnown, UniqueTokens, Fresh, Below, CallInv, TypeOK
<1>10. HoldersHaveKey'
  BY <1>0, <1>1, <1>2, <1>3 DEF HoldersHaveKey, Unique, UniqueKnown, CallInv, TypeOK
<1>11. OwnerInv'
  <2>1. OwnerAlone'
    BY <1>0, <1>1, <1>2, <1>3 DEF OwnerInv, OwnerAlone, CallInv, TypeOK, Free
  <2>2. OwnerCall'
    BY <1>0, <1>1, <1>2, <1>3 DEF OwnerInv, OwnerAlone, OwnerCall, CallInv, HoldersHaveKey, TypeOK, Free
  <2>3. OwnerToken'
    BY <1>0, <1>1, <1>2, <1>3 DEF OwnerInv, OwnerAlone, OwnerCall, OwnerToken, CallInv, HoldersHaveKey, TypeOK, Free
  <2> QED BY <2>1, <2>2, <2>3 DEF OwnerInv
<1> QED BY <1>4, <1>5, <1>6, <1>7, <1>8, <1>9, <1>10, <1>11 DEF IInv, Unique

(* release(), extend() or __exit__ reads the token.                          *)
LEMMA ReadInv ==
  ASSUME IInv, NEW t \in Threads, NEW l \in Locks, Release(t, l) \/ Extend(t, l)
  PROVE  IInv'
<1> USE LockAssumption
<1>0. TypeOK /\ CallInv /\ Fresh /\ Unique /\ HoldersHaveKey /\ OwnerInv
  BY DEF IInv
<1>1. /\ key' = key /\ ttl' = ttl /\ by' = by /\ granted' = granted
      /\ token' = token /\ next' = next
  BY DEF Release, Extend, serverVars
<1>2. /\ call[t].pc = "idle" /\ calls' = calls + 1
      /\ shared' = IF Free(l) THEN shared ELSE shared \cup {l}
      /\ token[l] # None
  BY DEF Release, Extend, Starts
<1>3. /\ call' \in [Threads -> CallType]
      /\ \A u \in Threads : u # t => call'[u] = call[u]
      /\ call'[t].lock = l /\ call'[t].token = token[l] /\ call'[t].pc \in {"del", "pexpire"}
  BY <1>0, ReadFacts DEF Release, Extend, Calling
<1>4. TypeOK'
  BY <1>0, <1>1, <1>2, <1>3 DEF TypeOK, CallType
<1>5. CallInv'
  BY <1>0, <1>1, <1>2, <1>3 DEF CallInv, TypeOK
<1>6. Fresh'
  BY <1>0, <1>1, <1>2, <1>3 DEF Fresh, Below, TypeOK
<1>7. UniqueCalls'
  BY <1>0, <1>1, <1>2, <1>3 DEF Unique, UniqueCalls, UniqueKnown, Fresh, Below, CallInv, TypeOK
<1>8. UniqueKnown'
  BY <1>0, <1>1, <1>2, <1>3 DEF Unique, UniqueCalls, UniqueKnown, UniqueTokens, Fresh, Below, CallInv, TypeOK
<1>9. UniqueTokens'
  BY <1>0, <1>1, <1>2, <1>3 DEF Unique, UniqueKnown, UniqueTokens, Fresh, Below, CallInv, TypeOK
<1>10. HoldersHaveKey'
  BY <1>0, <1>1, <1>2, <1>3 DEF HoldersHaveKey, Unique, UniqueKnown, CallInv, TypeOK
<1>11. OwnerInv'
  <2>1. OwnerAlone'
    BY <1>0, <1>1, <1>2, <1>3 DEF OwnerInv, OwnerAlone, CallInv, TypeOK, Free
  <2>2. OwnerCall'
    BY <1>0, <1>1, <1>2, <1>3 DEF OwnerInv, OwnerAlone, OwnerCall, CallInv, HoldersHaveKey, TypeOK, Free
  <2>3. OwnerToken'
    BY <1>0, <1>1, <1>2, <1>3 DEF OwnerInv, OwnerAlone, OwnerCall, OwnerToken, CallInv, HoldersHaveKey, TypeOK, Free
  <2> QED BY <2>1, <2>2, <2>3 DEF OwnerInv
<1> QED BY <1>4, <1>5, <1>6, <1>7, <1>8, <1>9, <1>10, <1>11 DEF IInv, Unique

(* A deadline passes.                                                        *)
LEMMA DeadlineInv ==
  ASSUME IInv, NEW t \in Threads, DeadlinePasses(t)
  PROVE  IInv'
<1> USE LockAssumption
<1>0. TypeOK /\ CallInv /\ Fresh /\ Unique /\ HoldersHaveKey /\ OwnerInv
  BY DEF IInv
<1>1. /\ key' = key /\ ttl' = ttl /\ by' = by /\ granted' = granted
      /\ token' = token /\ next' = next /\ calls' = calls /\ shared' = shared
  BY DEF DeadlinePasses, serverVars
<1>2. call \in [Threads -> CallType]
  BY <1>0 DEF TypeOK, CallType
<1>3. [call[t] EXCEPT !.late = TRUE] \in CallType
  BY <1>2 DEF CallType
<1>4. /\ call' \in [Threads -> CallType]
      /\ \A u \in Threads : u # t => call'[u] = call[u]
      /\ call'[t].lock = call[t].lock /\ call'[t].token = call[t].token
      /\ call'[t].pc = call[t].pc /\ call[t].pc # "idle"
  BY <1>2, <1>3 DEF DeadlinePasses, CallType
<1>5. TypeOK'
  BY <1>0, <1>1, <1>2, <1>3, <1>4 DEF TypeOK, CallType
<1>6. CallInv'
  BY <1>0, <1>1, <1>2, <1>3, <1>4 DEF CallInv, TypeOK
<1>7. Fresh'
  BY <1>0, <1>1, <1>2, <1>3, <1>4 DEF Fresh, Below, TypeOK
<1>8. UniqueCalls'
  BY <1>0, <1>1, <1>2, <1>3, <1>4 DEF Unique, UniqueCalls, UniqueKnown, Fresh, Below, CallInv, TypeOK
<1>9. UniqueKnown'
  BY <1>0, <1>1, <1>2, <1>3, <1>4 DEF Unique, UniqueCalls, UniqueKnown, UniqueTokens, Fresh, Below, CallInv, TypeOK
<1>10. UniqueTokens'
  BY <1>0, <1>1, <1>2, <1>3, <1>4 DEF Unique, UniqueKnown, UniqueTokens, Fresh, Below, CallInv, TypeOK
<1>11. HoldersHaveKey'
  BY <1>0, <1>1, <1>2, <1>3, <1>4 DEF HoldersHaveKey, Unique, UniqueKnown, CallInv, TypeOK
<1>12. OwnerInv'
  <2>1. OwnerAlone'
    BY <1>0, <1>1, <1>2, <1>3, <1>4 DEF OwnerInv, OwnerAlone, CallInv, TypeOK, Free
  <2>2. OwnerCall'
    BY <1>0, <1>1, <1>2, <1>3, <1>4 DEF OwnerInv, OwnerAlone, OwnerCall, CallInv, HoldersHaveKey, TypeOK, Free
  <2>3. OwnerToken'
    BY <1>0, <1>1, <1>2, <1>3, <1>4 DEF OwnerInv, OwnerAlone, OwnerCall, OwnerToken, CallInv, HoldersHaveKey, TypeOK, Free
  <2> QED BY <2>1, <2>2, <2>3 DEF OwnerInv
<1> QED BY <1>5, <1>6, <1>7, <1>8, <1>9, <1>10, <1>11, <1>12 DEF IInv, Unique

(* acquire() tries again, or gives up.                                       *)
LEMMA WaitInv ==
  ASSUME IInv, NEW t \in Threads, Wait(t)
  PROVE  IInv'
<1> USE LockAssumption
<1>0. TypeOK /\ CallInv /\ Fresh /\ Unique /\ HoldersHaveKey /\ OwnerInv
  BY DEF IInv
<1>1. /\ key' = key /\ ttl' = ttl /\ by' = by /\ granted' = granted
      /\ token' = token /\ next' = next /\ calls' = calls /\ shared' = shared
  BY DEF Wait, serverVars
<1>2. call[t].pc = "wait" /\ (Goto(t, "set") \/ Goto(t, "body") \/ Returns(t))
  BY DEF Wait
<1>3. /\ call' \in [Threads -> CallType]
      /\ \A u \in Threads : u # t => call'[u] = call[u]
      /\ \/ call'[t].lock = call[t].lock /\ call'[t].token = call[t].token
            /\ call'[t].pc \in {"set", "body"}
         \/ call'[t] = Idle /\ Idle.pc = "idle" /\ Idle.lock = None /\ Idle.token = None
  BY <1>0, <1>2, GotoFacts, ReturnsFacts DEF Calling
<1>4. TypeOK'
  BY <1>0, <1>1, <1>2, <1>3 DEF TypeOK, CallType
<1>5. CallInv'
  BY <1>0, <1>1, <1>2, <1>3 DEF CallInv, TypeOK
<1>6. Fresh'
  BY <1>0, <1>1, <1>2, <1>3 DEF Fresh, Below, TypeOK
<1>7. UniqueCalls'
  BY <1>0, <1>1, <1>2, <1>3 DEF Unique, UniqueCalls, UniqueKnown, Fresh, Below, CallInv, TypeOK
<1>8. UniqueKnown'
  BY <1>0, <1>1, <1>2, <1>3 DEF Unique, UniqueCalls, UniqueKnown, UniqueTokens, Fresh, Below, CallInv, TypeOK
<1>9. UniqueTokens'
  BY <1>0, <1>1, <1>2, <1>3 DEF Unique, UniqueKnown, UniqueTokens, Fresh, Below, CallInv, TypeOK
<1>10. HoldersHaveKey'
  BY <1>0, <1>1, <1>2, <1>3 DEF HoldersHaveKey, Unique, UniqueKnown, CallInv, TypeOK
<1>11. OwnerInv'
  <2>1. OwnerAlone'
    BY <1>0, <1>1, <1>2, <1>3 DEF OwnerInv, OwnerAlone, CallInv, TypeOK, Free
  <2>2. OwnerCall'
    BY <1>0, <1>1, <1>2, <1>3 DEF OwnerInv, OwnerAlone, OwnerCall, CallInv, HoldersHaveKey, TypeOK, Free
  <2>3. OwnerToken'
    BY <1>0, <1>1, <1>2, <1>3 DEF OwnerInv, OwnerAlone, OwnerCall, OwnerToken, CallInv, HoldersHaveKey, TypeOK, Free
  <2> QED BY <2>1, <2>2, <2>3 DEF OwnerInv
<1> QED BY <1>4, <1>5, <1>6, <1>7, <1>8, <1>9, <1>10, <1>11 DEF IInv, Unique

(* acquire() notes its token.                                                *)
LEMMA StoreInv ==
  ASSUME IInv, NEW t \in Threads, Store(t)
  PROVE  IInv'
<1> USE LockAssumption
<1>0. TypeOK /\ CallInv /\ Fresh /\ Unique /\ HoldersHaveKey /\ OwnerInv
  BY DEF IInv
<1>1. /\ key' = key /\ ttl' = ttl /\ by' = by /\ granted' = granted
      /\ next' = next /\ calls' = calls /\ shared' = shared
  BY DEF Store, serverVars
<1>2. call[t].pc = "store" /\ (Goto(t, "body") \/ Returns(t))
  BY DEF Store
<1>3. call[t].lock \in Locks /\ call[t].token \in Nat
  BY <1>0, <1>2 DEF CallInv
<1>4. /\ token' \in [Locks -> Nat \cup {None}]
      /\ \A l \in Locks : token'[l] = IF l = call[t].lock THEN call[t].token ELSE token[l]
  BY <1>0, <1>3 DEF Store, TypeOK
<1>5. /\ call' \in [Threads -> CallType]
      /\ \A u \in Threads : u # t => call'[u] = call[u]
      /\ \/ call'[t].lock = call[t].lock /\ call'[t].token = call[t].token
            /\ call'[t].pc \in {"body"}
         \/ call'[t] = Idle /\ Idle.pc = "idle" /\ Idle.lock = None /\ Idle.token = None
  BY <1>0, <1>2, GotoFacts, ReturnsFacts DEF Calling
<1>6. TypeOK'
  BY <1>0, <1>1, <1>2, <1>3, <1>4, <1>5 DEF TypeOK, CallType
<1>7. CallInv'
  BY <1>0, <1>1, <1>2, <1>3, <1>4, <1>5 DEF CallInv, TypeOK
<1>8. Fresh'
  BY <1>0, <1>1, <1>2, <1>3, <1>4, <1>5 DEF Fresh, Below, TypeOK
<1>9. UniqueCalls'
  BY <1>0, <1>1, <1>2, <1>3, <1>4, <1>5 DEF Unique, UniqueCalls, UniqueKnown, Fresh, Below, CallInv, TypeOK
<1>10. UniqueKnown'
  BY <1>0, <1>1, <1>2, <1>3, <1>4, <1>5 DEF Unique, UniqueCalls, UniqueKnown, UniqueTokens, Fresh, Below, CallInv, TypeOK
<1>11. UniqueTokens'
  BY <1>0, <1>1, <1>2, <1>3, <1>4, <1>5 DEF Unique, UniqueKnown, UniqueTokens, Fresh, Below, CallInv, TypeOK
<1>12. HoldersHaveKey'
  BY <1>0, <1>1, <1>2, <1>3, <1>4, <1>5 DEF HoldersHaveKey, Unique, UniqueKnown, CallInv, TypeOK
<1>13. OwnerInv'
  <2> SUFFICES ASSUME NEW l \in Locks, l \notin shared'
               PROVE  /\ \A u, v \in Threads : call'[u].lock = l /\ call'[v].lock = l => u = v
                      /\ \A u \in Threads : call'[u].lock = l =>
                            /\ call'[u].pc = "store" => granted'[l] \in {None, call'[u].token}
                            /\ call'[u].pc = "clear" => granted'[l] = None
                      /\ /\ granted'[l] # None
                         /\ \A u \in Threads : call'[u].lock = l => call'[u].pc # "store"
                         => token'[l] = granted'[l]
    BY DEF OwnerInv, OwnerAlone, OwnerCall, OwnerToken
  <2>1. CASE l = call[t].lock
    <3>1. \A u \in Threads : call[u].lock = l => u = t
      BY <1>0, <1>1, <2>1 DEF OwnerInv, OwnerAlone, OwnerCall, OwnerToken
    <3>2. granted[l] \in {None, call[t].token} /\ token'[l] = call[t].token
      BY <1>0, <1>1, <1>2, <1>4, <2>1 DEF OwnerInv, OwnerAlone, OwnerCall, OwnerToken
    <3> QED BY <1>1, <1>5, <3>1, <3>2
  <2>2. CASE l # call[t].lock
    <3>1. call'[t].lock # l /\ token'[l] = token[l]
      BY <1>4, <1>5, <2>2
    <3>2. \A u \in Threads : call'[u].lock = l => u # t /\ call'[u] = call[u]
      BY <1>5, <3>1
    <3>3. \A u \in Threads : call[u].lock = l => call'[u] = call[u]
      BY <1>5, <2>2
    <3> QED BY <1>0, <1>1, <3>1, <3>2, <3>3 DEF OwnerInv, OwnerAlone, OwnerCall, OwnerToken
  <2> QED BY <2>1, <2>2
<1> QED BY <1>6, <1>7, <1>8, <1>9, <1>10, <1>11, <1>12, <1>13 DEF IInv, Unique

(* __exit__ without a token raises, with one it sends the script.            *)
LEMMA ExitInv ==
  ASSUME IInv, NEW t \in Threads, Exit(t)
  PROVE  IInv'
<1> USE LockAssumption
<1>0. TypeOK /\ CallInv /\ Fresh /\ Unique /\ HoldersHaveKey /\ OwnerInv
  BY DEF IInv
<1>1. /\ key' = key /\ ttl' = ttl /\ by' = by /\ granted' = granted
      /\ token' = token /\ next' = next /\ calls' = calls /\ shared' = shared
  BY DEF Exit, serverVars
<1>2. call[t].pc = "body" /\ call[t].lock \in Locks /\ call[t].token \in Nat
  BY <1>0 DEF Exit, CallInv
<1>3. \/ Returns(t)
      \/ token[call[t].lock] # None /\ ReadToken(t, call[t].lock, "del")
  BY DEF Exit
<1>4. /\ call' \in [Threads -> CallType]
      /\ \A u \in Threads : u # t => call'[u] = call[u]
      /\ \/ call'[t].lock = call[t].lock /\ call'[t].token = token[call[t].lock]
            /\ call'[t].pc = "del" /\ token[call[t].lock] # None
         \/ call'[t] = Idle /\ Idle.pc = "idle" /\ Idle.lock = None /\ Idle.token = None
  BY <1>0, <1>2, <1>3, ReadFacts, ReturnsFacts DEF Calling
<1>5. TypeOK'
  BY <1>0, <1>1, <1>2, <1>3, <1>4 DEF TypeOK, CallType
<1>6. CallInv'
  BY <1>0, <1>1, <1>2, <1>3, <1>4 DEF CallInv, TypeOK
<1>7. Fresh'
  BY <1>0, <1>1, <1>2, <1>3, <1>4 DEF Fresh, Below, TypeOK
<1>8. UniqueCalls'
  BY <1>0, <1>1, <1>2, <1>3, <1>4 DEF Unique, UniqueCalls, UniqueKnown, Fresh, Below, CallInv, TypeOK
<1>9. UniqueKnown'
  BY <1>0, <1>1, <1>2, <1>3, <1>4 DEF Unique, UniqueCalls, UniqueKnown, UniqueTokens, Fresh, Below, CallInv, TypeOK
<1>10. UniqueTokens'
  BY <1>0, <1>1, <1>2, <1>3, <1>4 DEF Unique, UniqueKnown, UniqueTokens, Fresh, Below, CallInv, TypeOK
<1>11. HoldersHaveKey'
  BY <1>0, <1>1, <1>2, <1>3, <1>4 DEF HoldersHaveKey, Unique, UniqueKnown, CallInv, TypeOK
<1>12. OwnerInv'
  <2>1. OwnerAlone'
    BY <1>0, <1>1, <1>2, <1>3, <1>4 DEF OwnerInv, OwnerAlone, CallInv, TypeOK, Free
  <2>2. OwnerCall'
    BY <1>0, <1>1, <1>2, <1>3, <1>4 DEF OwnerInv, OwnerAlone, OwnerCall, CallInv, HoldersHaveKey, TypeOK, Free
  <2>3. OwnerToken'
    BY <1>0, <1>1, <1>2, <1>3, <1>4 DEF OwnerInv, OwnerAlone, OwnerCall, OwnerToken, CallInv, HoldersHaveKey, TypeOK, Free
  <2> QED BY <2>1, <2>2, <2>3 DEF OwnerInv
<1> QED BY <1>5, <1>6, <1>7, <1>8, <1>9, <1>10, <1>11, <1>12 DEF IInv, Unique

(* release() forgets its token.                                              *)
LEMMA ClearInv ==
  ASSUME IInv, NEW t \in Threads, Clear(t)
  PROVE  IInv'
<1> USE LockAssumption
<1>0. TypeOK /\ CallInv /\ Fresh /\ Unique /\ HoldersHaveKey /\ OwnerInv
  BY DEF IInv
<1>1. /\ key' = key /\ ttl' = ttl /\ by' = by /\ granted' = granted
      /\ next' = next /\ calls' = calls /\ shared' = shared
  BY DEF Clear, serverVars
<1>2. call[t].pc = "clear" /\ call[t].lock \in Locks
  BY <1>0 DEF Clear, CallInv
<1>3. /\ token' \in [Locks -> Nat \cup {None}]
      /\ \A l \in Locks : token'[l] = IF l = call[t].lock THEN None ELSE token[l]
  BY <1>0, <1>2 DEF Clear, TypeOK
<1>4. /\ call' \in [Threads -> CallType]
      /\ \A u \in Threads : u # t => call'[u] = call[u]
      /\ call'[t] = Idle /\ Idle.pc = "idle" /\ Idle.lock = None /\ Idle.token = None
  BY <1>0, ReturnsFacts DEF Clear
<1>5. TypeOK'
  BY <1>0, <1>1, <1>2, <1>3, <1>4 DEF TypeOK, CallType
<1>6. CallInv'
  BY <1>0, <1>1, <1>2, <1>3, <1>4 DEF CallInv, TypeOK
<1>7. Fresh'
  BY <1>0, <1>1, <1>2, <1>3, <1>4 DEF Fresh, Below, TypeOK
<1>8. UniqueCalls'
  BY <1>0, <1>1, <1>2, <1>3, <1>4 DEF Unique, UniqueCalls, UniqueKnown, Fresh, Below, CallInv, TypeOK
<1>9. UniqueKnown'
  BY <1>0, <1>1, <1>2, <1>3, <1>4 DEF Unique, UniqueCalls, UniqueKnown, UniqueTokens, Fresh, Below, CallInv, TypeOK
<1>10. UniqueTokens'
  BY <1>0, <1>1, <1>2, <1>3, <1>4 DEF Unique, UniqueKnown, UniqueTokens, Fresh, Below, CallInv, TypeOK
<1>11. HoldersHaveKey'
  BY <1>0, <1>1, <1>2, <1>3, <1>4 DEF HoldersHaveKey, Unique, UniqueKnown, CallInv, TypeOK
<1>12. OwnerInv'
  <2>1. OwnerAlone'
    BY <1>0, <1>1, <1>2, <1>3, <1>4 DEF OwnerInv, OwnerAlone, CallInv, TypeOK, Free
  <2>2. OwnerCall'
    BY <1>0, <1>1, <1>2, <1>3, <1>4 DEF OwnerInv, OwnerAlone, OwnerCall, CallInv, HoldersHaveKey, TypeOK, Free
  <2>3. OwnerToken'
    BY <1>0, <1>1, <1>2, <1>3, <1>4 DEF OwnerInv, OwnerAlone, OwnerCall, OwnerToken, CallInv, HoldersHaveKey, TypeOK, Free
  <2> QED BY <2>1, <2>2, <2>3 DEF OwnerInv
<1> QED BY <1>5, <1>6, <1>7, <1>8, <1>9, <1>10, <1>11, <1>12 DEF IInv, Unique

(* SET NX: it grants only a key nobody holds.                                *)
LEMMA SetNxInv ==
  ASSUME IInv, NEW t \in Threads, NEW o \in Trips, SetNx(t, o)
  PROVE  IInv'
<1> USE LockAssumption
<1>0. TypeOK /\ CallInv /\ Fresh /\ Unique /\ HoldersHaveKey /\ OwnerInv
  BY DEF IInv
<1>1. token' = token /\ next' = next /\ calls' = calls /\ shared' = shared
  BY DEF SetNx
<1>2. call[t].pc = "set" /\ call[t].lock \in Locks /\ call[t].token \in Nat
  BY <1>0 DEF SetNx, CallInv
<1>3. \/ key = None /\ Stored(t) /\ Granted(t) /\ Goto(t, "store")
      \/ key = None /\ Stored(t) /\ granted' = granted /\ (NotAcquired(t) \/ Returns(t))
      \/ serverVars' = serverVars /\ (NotAcquired(t) \/ Returns(t))
  BY DEF SetNx, serverVars
<1>4. NotAcquired(t) => Goto(t, "wait") \/ Goto(t, "body") \/ Returns(t)
  BY DEF NotAcquired
<1>5. /\ key' \in Nat \cup {None} /\ ttl' \in BOOLEAN /\ by' \in Locks \cup {None}
      /\ granted' \in [Locks -> Nat \cup {None}]
      /\ \/ key = None /\ key' = call[t].token /\ Granted(t) /\ Goto(t, "store")
         \/ /\ granted' = granted /\ (key' = key \/ (key = None /\ key' = call[t].token))
            /\ Goto(t, "wait") \/ Goto(t, "body") \/ Returns(t)
  <2>1. CASE Stored(t) /\ key = None
    <3>1. ttl' \in BOOLEAN BY <2>1 DEF Stored
    <3>2. key' = call[t].token /\ by' = call[t].lock BY <2>1 DEF Stored
    <3>3. Granted(t) => granted' \in [Locks -> Nat \cup {None}] BY <1>0, <1>2 DEF Granted, TypeOK
    <3>4. granted = granted' => granted' \in [Locks -> Nat \cup {None}] BY <1>0 DEF TypeOK
    <3>5. serverVars' = serverVars => granted' = granted /\ key' = key BY DEF serverVars
    <3> QED BY <1>2, <1>3, <1>4, <2>1, <3>1, <3>2, <3>3, <3>4, <3>5
  <2>2. CASE serverVars' = serverVars /\ (NotAcquired(t) \/ Returns(t))
    <3>1. key' = key /\ ttl' = ttl /\ by' = by /\ granted' = granted BY <2>2 DEF serverVars
    <3>2. /\ key' \in Nat \cup {None} /\ ttl' \in BOOLEAN /\ by' \in Locks \cup {None}
          /\ granted' \in [Locks -> Nat \cup {None}]
      BY <1>0, <3>1 DEF TypeOK
    <3> QED BY <1>4, <2>2, <3>1, <3>2
  <2> QED BY <1>3, <2>1, <2>2
<1>6. Granted(t) => \A l \in Locks : granted'[l] = IF l = call[t].lock THEN call[t].token ELSE granted[l]
  BY <1>0, <1>2 DEF Granted, TypeOK
<1>7. /\ call' \in [Threads -> CallType]
      /\ \A u \in Threads : u # t => call'[u] = call[u]
      /\ \/ call'[t].lock = call[t].lock /\ call'[t].token = call[t].token
            /\ call'[t].pc = "store" /\ key = None /\ key' = call[t].token
            /\ \A l \in Locks : granted'[l] = IF l = call[t].lock THEN call[t].token ELSE granted[l]
         \/ /\ granted' = granted /\ (key' = key \/ (key = None /\ key' = call[t].token))
            /\ \/ call'[t].lock = call[t].lock /\ call'[t].token = call[t].token
                  /\ call'[t].pc \in {"wait", "body"}
               \/ call'[t] = Idle /\ Idle.pc = "idle" /\ Idle.lock = None /\ Idle.token = None
  <2>1. CASE Goto(t, "store") BY <1>0, <1>5, <1>6, <2>1, GotoFacts, ReturnsFacts DEF Calling
  <2>2. CASE Goto(t, "wait") \/ Goto(t, "body")
    BY <1>0, <1>5, <1>6, <2>2, GotoFacts, ReturnsFacts DEF Calling
  <2>3. CASE Returns(t) BY <1>0, <1>5, <1>6, <2>3, GotoFacts, ReturnsFacts DEF Calling
  <2> QED BY <1>5, <2>1, <2>2, <2>3
<1>8. /\ key' \in Nat \cup {None} /\ ttl' \in BOOLEAN /\ by' \in Locks \cup {None}
      /\ granted' \in [Locks -> Nat \cup {None}]
  BY <1>5
<1>9. TypeOK'
  BY <1>0, <1>1, <1>2, <1>7, <1>8 DEF TypeOK, CallType
<1>10. CallInv'
  BY <1>0, <1>1, <1>2, <1>7, <1>8 DEF CallInv, TypeOK
<1>11. Fresh'
  BY <1>0, <1>1, <1>2, <1>7, <1>8 DEF Fresh, Below, TypeOK
<1>12. UniqueCalls'
  BY <1>0, <1>1, <1>2, <1>7, <1>8 DEF Unique, UniqueCalls, UniqueKnown, Fresh, Below, CallInv, TypeOK
<1>13. UniqueKnown'
  BY <1>0, <1>1, <1>2, <1>7, <1>8 DEF Unique, UniqueCalls, UniqueKnown, UniqueTokens, Fresh, Below, CallInv, TypeOK
<1>14. UniqueTokens'
  BY <1>0, <1>1, <1>2, <1>7, <1>8 DEF Unique, UniqueKnown, UniqueTokens, Fresh, Below, CallInv, TypeOK
<1>15. HoldersHaveKey'
  BY <1>0, <1>1, <1>2, <1>7, <1>8 DEF HoldersHaveKey, Unique, UniqueKnown, CallInv, TypeOK
<1>16. OwnerInv'
  <2>1. OwnerAlone'
    BY <1>0, <1>1, <1>2, <1>7, <1>8 DEF OwnerInv, OwnerAlone, CallInv, TypeOK, Free
  <2>2. OwnerCall'
    BY <1>0, <1>1, <1>2, <1>7, <1>8 DEF OwnerInv, OwnerAlone, OwnerCall, CallInv, HoldersHaveKey, TypeOK, Free
  <2>3. OwnerToken'
    BY <1>0, <1>1, <1>2, <1>7, <1>8 DEF OwnerInv, OwnerAlone, OwnerCall, OwnerToken, CallInv, HoldersHaveKey, TypeOK, Free
  <2> QED BY <2>1, <2>2, <2>3 DEF OwnerInv
<1> QED BY <1>9, <1>10, <1>11, <1>12, <1>13, <1>14, <1>15, <1>16 DEF IInv, Unique

(* The release script: only the holder's own token deletes the key.          *)
LEMMA DelInv ==
  ASSUME IInv, NEW t \in Threads, NEW o \in Trips, DelIfOwner(t, o)
  PROVE  IInv'
<1> USE LockAssumption
<1>0. TypeOK /\ CallInv /\ Fresh /\ Unique /\ HoldersHaveKey /\ OwnerInv
  BY DEF IInv
<1>1. token' = token /\ next' = next /\ calls' = calls /\ shared' = shared
  BY DEF DelIfOwner
<1>2. call[t].pc = "del" /\ call[t].lock \in Locks /\ call[t].token \in Nat
  BY <1>0 DEF DelIfOwner, CallInv
<1>3. \/ key = call[t].token /\ GivenBack(t) /\ (Goto(t, "clear") \/ Returns(t))
      \/ serverVars' = serverVars /\ Returns(t)
  BY DEF DelIfOwner, serverVars
<1>4. /\ key' \in Nat \cup {None} /\ ttl' \in BOOLEAN /\ by' \in Locks \cup {None}
      /\ granted' \in [Locks -> Nat \cup {None}]
  BY <1>0, <1>2, <1>3 DEF GivenBack, KeyGone, serverVars, TypeOK
<1>5. /\ call' \in [Threads -> CallType]
      /\ \A u \in Threads : u # t => call'[u] = call[u]
      /\ \/ call'[t].lock = call[t].lock /\ call'[t].token = call[t].token
            /\ call'[t].pc = "clear" /\ key' = None
         \/ call'[t] = Idle /\ Idle.pc = "idle" /\ Idle.lock = None /\ Idle.token = None
  BY <1>0, <1>2, <1>3, GotoFacts, ReturnsFacts DEF Calling, GivenBack, KeyGone
<1>6. \/ /\ key = call[t].token /\ key' = None
         /\ \A l \in Locks : granted'[l] = IF l = call[t].lock THEN None ELSE granted[l]
      \/ key' = key /\ granted' = granted /\ call'[t] = Idle
  BY <1>0, <1>2, <1>3, ReturnsFacts DEF GivenBack, KeyGone, serverVars, TypeOK
<1>7. TypeOK'
  BY <1>0, <1>1, <1>2, <1>4, <1>5, <1>6 DEF TypeOK, CallType
<1>8. CallInv'
  BY <1>0, <1>1, <1>2, <1>4, <1>5, <1>6 DEF CallInv, TypeOK
<1>9. Fresh'
  BY <1>0, <1>1, <1>2, <1>4, <1>5, <1>6 DEF Fresh, Below, TypeOK
<1>10. UniqueCalls'
  BY <1>0, <1>1, <1>2, <1>4, <1>5, <1>6 DEF Unique, UniqueCalls, UniqueKnown, Fresh, Below, CallInv, TypeOK
<1>11. UniqueKnown'
  BY <1>0, <1>1, <1>2, <1>4, <1>5, <1>6 DEF Unique, UniqueCalls, UniqueKnown, UniqueTokens, Fresh, Below, CallInv, TypeOK
<1>12. UniqueTokens'
  BY <1>0, <1>1, <1>2, <1>4, <1>5, <1>6 DEF Unique, UniqueKnown, UniqueTokens, Fresh, Below, CallInv, TypeOK
<1>13. HoldersHaveKey'
  BY <1>0, <1>1, <1>2, <1>4, <1>5, <1>6 DEF HoldersHaveKey, Unique, UniqueKnown, CallInv, TypeOK
<1>14. OwnerInv'
  <2>1. OwnerAlone'
    BY <1>0, <1>1, <1>2, <1>4, <1>5, <1>6 DEF OwnerInv, OwnerAlone, CallInv, TypeOK, Free
  <2>2. OwnerCall'
    BY <1>0, <1>1, <1>2, <1>4, <1>5, <1>6 DEF OwnerInv, OwnerAlone, OwnerCall, CallInv, HoldersHaveKey, TypeOK, Free
  <2>3. OwnerToken'
    BY <1>0, <1>1, <1>2, <1>4, <1>5, <1>6 DEF OwnerInv, OwnerAlone, OwnerCall, OwnerToken, CallInv, HoldersHaveKey, TypeOK, Free
  <2> QED BY <2>1, <2>2, <2>3 DEF OwnerInv
<1> QED BY <1>7, <1>8, <1>9, <1>10, <1>11, <1>12, <1>13, <1>14 DEF IInv, Unique

(* The extend script.                                                        *)
LEMMA ExtendInv ==
  ASSUME IInv, NEW t \in Threads, NEW o \in Trips, NEW tiny \in BOOLEAN,
         ExtendIfOwner(t, o, tiny)
  PROVE  IInv'
<1> USE LockAssumption
<1>0. TypeOK /\ CallInv /\ Fresh /\ Unique /\ HoldersHaveKey /\ OwnerInv
  BY DEF IInv
<1>1. token' = token /\ next' = next /\ calls' = calls /\ shared' = shared
  BY DEF ExtendIfOwner
<1>2. call[t].pc = "pexpire" /\ call[t].lock \in Locks /\ call[t].token \in Nat
  BY <1>0 DEF ExtendIfOwner, CallInv
<1>3. \/ key = call[t].token /\ GivenBack(t)
      \/ key' = key /\ granted' = granted /\ by' = by /\ ttl' \in BOOLEAN
  BY <1>0 DEF ExtendIfOwner, serverVars, TypeOK
<1>4. /\ key' \in Nat \cup {None} /\ ttl' \in BOOLEAN /\ by' \in Locks \cup {None}
      /\ granted' \in [Locks -> Nat \cup {None}]
  BY <1>0, <1>2, <1>3 DEF GivenBack, KeyGone, TypeOK
<1>5. /\ call' \in [Threads -> CallType]
      /\ \A u \in Threads : u # t => call'[u] = call[u]
      /\ call'[t] = Idle /\ Idle.pc = "idle" /\ Idle.lock = None /\ Idle.token = None
  BY <1>0, ReturnsFacts DEF ExtendIfOwner
<1>6. \/ /\ key = call[t].token /\ key' = None
         /\ \A l \in Locks : granted'[l] = IF l = call[t].lock THEN None ELSE granted[l]
      \/ key' = key /\ granted' = granted
  BY <1>0, <1>2, <1>3 DEF GivenBack, KeyGone, TypeOK
<1>7. TypeOK'
  BY <1>0, <1>1, <1>2, <1>4, <1>5, <1>6 DEF TypeOK, CallType
<1>8. CallInv'
  BY <1>0, <1>1, <1>2, <1>4, <1>5, <1>6 DEF CallInv, TypeOK
<1>9. Fresh'
  BY <1>0, <1>1, <1>2, <1>4, <1>5, <1>6 DEF Fresh, Below, TypeOK
<1>10. UniqueCalls'
  BY <1>0, <1>1, <1>2, <1>4, <1>5, <1>6 DEF Unique, UniqueCalls, UniqueKnown, Fresh, Below, CallInv, TypeOK
<1>11. UniqueKnown'
  BY <1>0, <1>1, <1>2, <1>4, <1>5, <1>6 DEF Unique, UniqueCalls, UniqueKnown, UniqueTokens, Fresh, Below, CallInv, TypeOK
<1>12. UniqueTokens'
  BY <1>0, <1>1, <1>2, <1>4, <1>5, <1>6 DEF Unique, UniqueKnown, UniqueTokens, Fresh, Below, CallInv, TypeOK
<1>13. HoldersHaveKey'
  BY <1>0, <1>1, <1>2, <1>4, <1>5, <1>6 DEF HoldersHaveKey, Unique, UniqueKnown, CallInv, TypeOK
<1>14. OwnerInv'
  <2>1. OwnerAlone'
    BY <1>0, <1>1, <1>2, <1>4, <1>5, <1>6 DEF OwnerInv, OwnerAlone, CallInv, TypeOK, Free
  <2>2. OwnerCall'
    BY <1>0, <1>1, <1>2, <1>4, <1>5, <1>6 DEF OwnerInv, OwnerAlone, OwnerCall, CallInv, HoldersHaveKey, TypeOK, Free
  <2>3. OwnerToken'
    BY <1>0, <1>1, <1>2, <1>4, <1>5, <1>6 DEF OwnerInv, OwnerAlone, OwnerCall, OwnerToken, CallInv, HoldersHaveKey, TypeOK, Free
  <2> QED BY <2>1, <2>2, <2>3 DEF OwnerInv
<1> QED BY <1>7, <1>8, <1>9, <1>10, <1>11, <1>12, <1>13, <1>14 DEF IInv, Unique

(* Every step preserves the invariant.                                       *)
LEMMA StepInv == IInv /\ [Next]_vars => IInv'
<1> SUFFICES ASSUME IInv, [Next]_vars PROVE IInv' OBVIOUS
<1>1. CASE Expire BY <1>1, ExpireInv
<1>2. ASSUME NEW t \in Threads, CallsIn(t) PROVE IInv'
  BY <1>2, AcquireInv, ReadInv DEF CallsIn
<1>3. ASSUME NEW t \in Threads, Steps(t) PROVE IInv'
  BY <1>3, SetNxInv, DelInv, ExtendInv, WaitInv, StoreInv, ExitInv, ClearInv DEF Steps
<1>4. ASSUME NEW t \in Threads, DeadlinePasses(t) PROVE IInv'
  BY <1>4, DeadlineInv
<1>5. CASE UNCHANGED vars
  <2> USE <1>5 DEF vars
  <2>1. TypeOK' /\ CallInv' /\ Fresh' /\ Unique' /\ HoldersHaveKey' /\ OwnerInv'
    BY DEF IInv, TypeOK, CallInv, Fresh, Below, Unique, UniqueCalls, UniqueKnown,
           UniqueTokens, HoldersHaveKey, OwnerInv, OwnerAlone, OwnerCall, OwnerToken
  <2> QED BY <2>1 DEF IInv
<1> QED BY <1>1, <1>2, <1>3, <1>4, <1>5 DEF Next

LEMMA Invariance == Spec => []IInv
BY InitInv, StepInv, PTL DEF Spec

(* Every variable of the lock keeps its type.                                *)
THEOREM TypeCorrect == Spec => []TypeOK
<1>1. IInv => TypeOK BY DEF IInv
<1> QED BY <1>1, Invariance, PTL

(* Mutual exclusion between Lock objects: no late SET NX, release script or  *)
(* extend script of another Lock object takes away what acquire() granted.   *)
THEOREM MutualExclusion == Spec => []HoldersHaveKey
<1>1. IInv => HoldersHaveKey BY DEF IInv
<1> QED BY <1>1, Invariance, PTL

(* A Lock object that no two threads used at once knows, between calls, the  *)
(* token release() and extend() need.                                        *)
THEOREM HolderKnowsToken == Spec => []OwnerCanRelease
<1>1. IInv => OwnerCanRelease
  BY LockAssumption DEF IInv, OwnerInv, OwnerAlone, OwnerCall, OwnerToken, OwnerCanRelease, Free
<1> QED BY <1>1, Invariance, PTL

-----------------------------------------------------------------------------
(* Who may touch the key.                                                    *)

\* Whoever has the token of the key is the Lock object that stored it.
Storer == /\ \A l \in Locks : token[l] # None /\ key = token[l] => by = l
          /\ \A t \in Threads : call[t].token # None /\ key = call[t].token
                                   => by = call[t].lock

(* A step that leaves key and by alone, or removes the key, and puts into     *)
(* call and token only tokens of the same Lock object, preserves it.          *)
LEMMA StorerStays ==
  ASSUME Storer, NEW t \in Threads,
         key' = None \/ (key' = key /\ by' = by),
         \A l \in Locks : token'[l] \in {None, token[l]}
                            \/ (l = call[t].lock /\ token'[l] = call[t].token),
         \A u \in Threads \ {t} : call'[u] = call[u],
         \/ call'[t].token = None
         \/ call'[t].token = call[t].token /\ call'[t].lock = call[t].lock
         \/ /\ call'[t].lock \in Locks
            /\ call'[t].token = token[call'[t].lock]
  PROVE  Storer'
BY DEF Storer

LEMMA StorerStep == IInv /\ Storer /\ [Next]_vars => Storer'
<1> SUFFICES ASSUME IInv, Storer, [Next]_vars PROVE Storer' OBVIOUS
<1> USE LockAssumption
<1>0. TypeOK /\ CallInv /\ Fresh /\ Unique
  BY DEF IInv
<1>1. CASE Expire
  BY <1>1 DEF Expire, KeyGone, Storer
<1>2. ASSUME NEW t \in Threads, NEW l \in Locks, NEW b \in BOOLEAN, NEW d \in BOOLEAN,
             NEW w \in BOOLEAN, Acquire(t, l, b, d, w)
      PROVE  Storer'
  <2>1. key' = key /\ by' = by /\ token' = token
    BY <1>2 DEF Acquire, serverVars
  <2>2. \A u \in Threads : u # t => call'[u] = call[u]
    BY <1>0, <1>2 DEF Acquire, TypeOK
  <2>3. call'[t].token = next
    BY <1>0, <1>2 DEF Acquire, TypeOK
  <2>4. next \in Nat /\ key # next
    BY <1>0 DEF Fresh, Below, TypeOK
  <2> QED BY <2>1, <2>2, <2>3, <2>4 DEF Storer
<1>3. ASSUME NEW t \in Threads, NEW l \in Locks, Release(t, l) \/ Extend(t, l)
      PROVE  Storer'
  <2>1. /\ key' = key /\ by' = by /\ token' = token
        /\ \A u \in Threads : u # t => call'[u] = call[u]
        /\ call'[t].lock = l /\ call'[t].token = token[l]
    BY <1>0, <1>3, ReadFacts DEF Release, Extend, Calling, serverVars
  <2> QED BY <2>1, StorerStays
<1>4. ASSUME NEW t \in Threads, NEW o \in Trips, SetNx(t, o) PROVE Storer'
  <2>1. /\ call[t].pc = "set" /\ call[t].lock \in Locks /\ call[t].token \in Nat
        /\ token' = token
    BY <1>0, <1>4 DEF SetNx, CallInv
  <2>2. \/ Goto(t, "store") \/ Goto(t, "wait") \/ Goto(t, "body")
        \/ Returns(t)
    BY <1>4 DEF SetNx, NotAcquired
  <2>3. /\ \A u \in Threads : u # t => call'[u] = call[u]
        /\ \/ call'[t].token = None
           \/ call'[t].token = call[t].token /\ call'[t].lock = call[t].lock
    BY <1>0, <2>2, GotoFacts, ReturnsFacts DEF Calling
  <2>4. \/ key' = key /\ by' = by
        \/ key' = call[t].token /\ by' = call[t].lock
    BY <1>4 DEF SetNx, Stored, serverVars
  <2>5. CASE key' = key /\ by' = by
    BY <2>1, <2>3, <2>5, StorerStays
  <2>6. CASE key' = call[t].token /\ by' = call[t].lock
    <3>1. ASSUME NEW l \in Locks, token[l] = call[t].token PROVE l = call[t].lock
      BY <1>0, <2>1, <3>1 DEF Unique, UniqueKnown
    <3>2. ASSUME NEW u \in Threads, call[u].token = call[t].token
          PROVE  call[u].lock = call[t].lock
      BY <1>0, <2>1, <3>2 DEF Unique, UniqueCalls
    <3> QED BY <2>1, <2>3, <2>6, <3>1, <3>2 DEF Storer
  <2> QED BY <2>4, <2>5, <2>6
<1>5. ASSUME NEW t \in Threads, NEW o \in Trips, NEW tiny \in BOOLEAN,
             DelIfOwner(t, o) \/ ExtendIfOwner(t, o, tiny)
      PROVE  Storer'
  <2>1. token' = token /\ (key' = None \/ (key' = key /\ by' = by))
    BY <1>5 DEF DelIfOwner, ExtendIfOwner, GivenBack, KeyGone, serverVars
  <2>2. Goto(t, "clear") \/ Returns(t)
    BY <1>5 DEF DelIfOwner, ExtendIfOwner
  <2>3. /\ \A u \in Threads : u # t => call'[u] = call[u]
        /\ \/ call'[t].token = None
           \/ call'[t].token = call[t].token /\ call'[t].lock = call[t].lock
    BY <1>0, <2>2, GotoFacts, ReturnsFacts DEF Calling
  <2> QED BY <2>1, <2>3, StorerStays
<1>6. ASSUME NEW t \in Threads, Wait(t) \/ Store(t) \/ Clear(t) PROVE Storer'
  <2>1. key' = key /\ by' = by
    BY <1>6 DEF Wait, Store, Clear, serverVars
  <2>2. Goto(t, "set") \/ Goto(t, "body") \/ Returns(t)
    BY <1>6 DEF Wait, Store, Clear
  <2>3. /\ \A u \in Threads : u # t => call'[u] = call[u]
        /\ \/ call'[t].token = None
           \/ call'[t].token = call[t].token /\ call'[t].lock = call[t].lock
    BY <1>0, <2>2, GotoFacts, ReturnsFacts DEF Calling
  <2>4. \A l \in Locks : token'[l] \in {None, token[l]}
                           \/ (l = call[t].lock /\ token'[l] = call[t].token)
    BY <1>0, <1>6 DEF Wait, Store, Clear, TypeOK
  <2> QED BY <2>1, <2>3, <2>4, StorerStays
<1>7. ASSUME NEW t \in Threads, Exit(t) PROVE Storer'
  <2>1. key' = key /\ by' = by /\ token' = token /\ call[t].lock \in Locks
    BY <1>0, <1>7 DEF Exit, CallInv, serverVars
  <2>2. Returns(t) \/ ReadToken(t, call[t].lock, "del")
    BY <1>7 DEF Exit
  <2>3. /\ \A u \in Threads : u # t => call'[u] = call[u]
        /\ \/ call'[t].token = None
           \/ /\ call'[t].lock = call[t].lock
              /\ call'[t].token = token[call[t].lock]
    BY <1>0, <2>1, <2>2, ReadFacts, ReturnsFacts DEF Calling
  <2> QED BY <2>1, <2>3, StorerStays
<1>8. ASSUME NEW t \in Threads, DeadlinePasses(t) PROVE Storer'
  <2>1. key' = key /\ by' = by /\ token' = token
    BY <1>8 DEF DeadlinePasses, serverVars
  <2>2. /\ \A u \in Threads : u # t => call'[u] = call[u]
        /\ call'[t].token = call[t].token /\ call'[t].lock = call[t].lock
    BY <1>0, <1>8 DEF DeadlinePasses, TypeOK
  <2> QED BY <2>1, <2>2, StorerStays
<1>9. CASE UNCHANGED vars
  BY <1>9 DEF vars, Storer
<1> QED BY <1>1, <1>2, <1>3, <1>4, <1>5, <1>6, <1>7, <1>8, <1>9
        DEF Next, CallsIn, Steps

LEMMA StorerHolds == Spec => []Storer
<1>1. Init => Storer
  BY LockAssumption DEF Init, Storer, Idle
<1> QED BY <1>1, StorerStep, Invariance, PTL DEF Spec

(* Only the Lock object that stored a key ends it or changes when it expires: *)
(* a step of a call that finds a key and changes it is a release() or an      *)
(* extend() whose token is the key's, and only its Lock object has that.      *)
THEOREM NoForeignHand == Spec => OthersLeaveTheKey
<1>1. ASSUME IInv, Storer, [Next]_vars, NEW t \in Threads,
             call'[t] # call[t], key # None, <<key, ttl>>' # <<key, ttl>>
      PROVE  call[t].lock = by
  <2>0. TypeOK /\ CallInv
    BY <1>1 DEF IInv
  <2>1. ASSUME NEW u \in Threads, NEW o \in Trips, NEW tiny \in BOOLEAN,
               DelIfOwner(u, o) \/ ExtendIfOwner(u, o, tiny)
        PROVE  call[t].lock = by
    <3>1. key = call[u].token
      BY <1>1, <2>1 DEF DelIfOwner, ExtendIfOwner, serverVars
    <3>2. by = call[u].lock
      BY <1>1, <3>1 DEF Storer
    <3>3. Goto(u, "clear") \/ Returns(u)
      BY <2>1 DEF DelIfOwner, ExtendIfOwner
    <3>4. u = t
      BY <1>1, <2>0, <3>3, GotoFacts, ReturnsFacts DEF Calling
    <3> QED BY <3>2, <3>4
  <2>2. CASE Expire
    BY <1>1, <2>2 DEF Expire
  <2>3. ASSUME NEW u \in Threads, NEW o \in Trips, SetNx(u, o) PROVE FALSE
    BY <1>1, <2>3 DEF SetNx, serverVars
  <2>4. ASSUME NEW u \in Threads,
               CallsIn(u) \/ Wait(u) \/ Store(u) \/ Exit(u) \/ Clear(u) \/ DeadlinePasses(u)
        PROVE  FALSE
    BY <1>1, <2>4
    DEF CallsIn, Acquire, Release, Extend, Wait, Store, Exit, Clear, DeadlinePasses, serverVars
  <2>5. CASE UNCHANGED vars
    BY <1>1, <2>5 DEF vars
  <2> QED BY <1>1, <2>1, <2>2, <2>3, <2>4, <2>5 DEF Next, Steps
<1>2. IInv /\ Storer /\ [Next]_vars =>
        [\A t \in Threads :
            call'[t] # call[t] /\ key # None /\ <<key, ttl>>' # <<key, ttl>>
                => call[t].lock = by]_vars
  BY <1>1
<1> QED BY <1>2, Invariance, StorerHolds, PTL DEF Spec, OthersLeaveTheKey
=============================================================================
