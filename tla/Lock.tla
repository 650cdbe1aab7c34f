-------------------------------- MODULE Lock ---------------------------------
(***************************************************************************)
(* Redis.lock() and its Lock objects (facade/sync.rs): SET NX PX to         *)
(* acquire, Lua scripts that compare the token to release and to extend.    *)
(* Threads call the methods of Lock objects that name one key; the token a  *)
(* Lock object keeps is read and written around the round trip, not         *)
(* together with it.                                                        *)
(*                                                                          *)
(* Every round trip may end "ok", "lost" (done, but the client gets an      *)
(* error), "refused" (not done, an error) or, on a Sentinel connection,     *)
(* "again" (done, the answer lost, and done once more by sentinel_retry).   *)
(* Tokens are numbers given out in order: generate_token never repeats one, *)
(* and a program that passes its own is taken to do the same.  owned() and  *)
(* locked() only read and are left out.                                     *)
(***************************************************************************)
EXTENDS Naturals

CONSTANTS Threads,
          Locks,      \* Lock objects for the one key
          Timed,      \* the Lock objects whose timeout is at least 1 ms
          Sentinel,   \* is the connection a SentinelConn?
          MaxCalls,   \* bound on the calls of all threads
          None

ASSUME LockAssumption == /\ Timed \subseteq Locks
                         /\ Sentinel \in BOOLEAN
                         /\ MaxCalls \in Nat
                         /\ None \notin Nat \cup Locks

Trips == {"ok", "lost", "refused"} \cup (IF Sentinel THEN {"again"} ELSE {})

VARIABLES key,      \* the token stored on the server, None without the key
          ttl,      \* does the key expire?
          by,       \* the Lock object that stored the key
          token,    \* self.token of each Lock object
          call,     \* the call each thread is in
          calls,    \* calls made so far
          next,     \* the next token to be generated
          granted,  \* the token a Lock object was granted, until it gave it
                    \* back or the key expired
          shared    \* Lock objects two threads have used at the same time

vars == <<key, ttl, by, token, call, calls, next, granted, shared>>
serverVars == <<key, ttl, by, granted>>

Idle == [pc |-> "idle", lock |-> None, token |-> None, blocking |-> FALSE,
         deadline |-> FALSE, late |-> FALSE, with |-> FALSE]

Init == /\ key = None
        /\ ttl = FALSE
        /\ by = None
        /\ token = [l \in Locks |-> None]
        /\ call = [t \in Threads |-> Idle]
        /\ calls = 0
        /\ next = 0
        /\ granted = [l \in Locks |-> None]
        /\ shared = {}
-----------------------------------------------------------------------------
(* The server (external). *)

KeyGone == key' = None /\ ttl' = FALSE /\ by' = None

Expire == /\ key # None /\ ttl
          /\ KeyGone
          /\ granted' = [l \in Locks |-> IF granted[l] = key THEN None ELSE granted[l]]
          /\ UNCHANGED <<token, call, calls, next, shared>>
-----------------------------------------------------------------------------
(* Calls. *)

Free(l) == \A t \in Threads : call[t].lock # l

\* A `with` statement, from __enter__ to the end of __exit__, is one call.
Starts(t, l) == /\ call[t].pc = "idle"
                /\ calls < MaxCalls
                /\ calls' = calls + 1
                /\ shared' = IF Free(l) THEN shared ELSE shared \cup {l}

Goto(t, pc) == call' = [call EXCEPT ![t].pc = pc]

Returns(t) == call' = [call EXCEPT ![t] = Idle]

\* acquire(), or __enter__, which is acquire() with the Lock's own settings.
Acquire(t, l, blocking, deadline, with) ==
    /\ Starts(t, l)
    /\ deadline => blocking
    /\ call' = [call EXCEPT ![t] = [pc |-> "set", lock |-> l, token |-> next,
                                    blocking |-> blocking, deadline |-> deadline,
                                    late |-> FALSE, with |-> with]]
    /\ next' = next + 1
    /\ UNCHANGED <<serverVars, token>>

\* What an acquire() that did not get the key does after its SET.
NotAcquired(t) == IF call[t].blocking THEN Goto(t, "wait")
                  ELSE IF call[t].with THEN Goto(t, "body") ELSE Returns(t)

Stored(t) == /\ key' = call[t].token
             /\ ttl' = (call[t].lock \in Timed)
             /\ by' = call[t].lock

Granted(t) == granted' = [granted EXCEPT ![call[t].lock] = call[t].token]

GivenBack(t) == /\ KeyGone
                /\ granted' = [granted EXCEPT ![call[t].lock] = None]

\* Mutant: PX is not sent with SET but left to a later command.
SetWithoutExpiry(t, o) ==
    /\ call[t].pc = "set"
    /\ \/ /\ o = "ok" /\ key = None
          /\ key' = call[t].token /\ by' = call[t].lock /\ UNCHANGED ttl
          /\ Granted(t)
          /\ Goto(t, "store")
       \/ /\ o = "ok" /\ key # None
          /\ NotAcquired(t)
          /\ UNCHANGED serverVars
       \/ o # "ok" /\ Returns(t) /\ UNCHANGED serverVars
    /\ UNCHANGED <<token, calls, next, shared>>

\* The SET NX of the loop in acquire().  Repeated by sentinel_retry it finds the
\* key its first run stored, and acquire() goes on as if another held the lock.
SetNx(t, o) ==
    /\ call[t].pc = "set"
    /\ \/ /\ o = "ok" /\ key = None
          /\ Stored(t)
          /\ Granted(t)
          /\ Goto(t, "store")
       \/ /\ o \in {"ok", "again"} /\ key # None
          /\ NotAcquired(t)
          /\ UNCHANGED serverVars
       \/ /\ o = "again" /\ key = None
          /\ Stored(t)
          /\ NotAcquired(t)
          /\ UNCHANGED granted
       \/ /\ o = "lost" /\ key = None
          /\ Stored(t)
          /\ Returns(t)
          /\ UNCHANGED granted
       \/ /\ o = "refused" \/ (o = "lost" /\ key # None)
          /\ Returns(t)
          /\ UNCHANGED serverVars
    /\ UNCHANGED <<token, calls, next, shared>>

DeadlinePasses(t) == /\ call[t].pc \in {"set", "wait"}
                     /\ call[t].deadline /\ ~call[t].late
                     /\ call' = [call EXCEPT ![t].late = TRUE]
                     /\ UNCHANGED <<serverVars, token, calls, next, shared>>

\* Mutant: the deadline is taken anew on every round of the loop.
WaitsAnew(t) == /\ call[t].pc = "wait"
                /\ IF call[t].late
                   THEN call' = [call EXCEPT ![t].pc = "set", ![t].late = FALSE]
                   ELSE Goto(t, "set")
                /\ UNCHANGED <<serverVars, token, calls, next, shared>>

\* False past the deadline, which __enter__ does not look at; otherwise sleep
\* and try again.
Wait(t) == /\ call[t].pc = "wait"
           /\ IF ~call[t].late THEN Goto(t, "set")
              ELSE IF call[t].with THEN Goto(t, "body") ELSE Returns(t)
           /\ UNCHANGED <<serverVars, token, calls, next, shared>>

\* Mutant: acquire() only sets a token that is not there yet.
StoreOnce(t) ==
    /\ call[t].pc = "store"
    /\ token' = [token EXCEPT ![call[t].lock] = IF @ = None THEN call[t].token ELSE @]
    /\ IF call[t].with THEN Goto(t, "body") ELSE Returns(t)
    /\ UNCHANGED <<serverVars, calls, next, shared>>

\* acquire() notes its token and returns True.
Store(t) == /\ call[t].pc = "store"
            /\ token' = [token EXCEPT ![call[t].lock] = call[t].token]
            /\ IF call[t].with THEN Goto(t, "body") ELSE Returns(t)
            /\ UNCHANGED <<serverVars, calls, next, shared>>

\* release(), also as __exit__ after the body of a `with`: without a token it
\* raises, otherwise the script is sent with the token read here.
ReadToken(t, l, pc) ==
    call' = [call EXCEPT ![t] = [Idle EXCEPT !.pc = pc, !.lock = l, !.token = token[l]]]

Release(t, l) ==
    /\ Starts(t, l)
    /\ token[l] # None
    /\ ReadToken(t, l, "del")
    /\ UNCHANGED <<serverVars, token, next>>

Exit(t) == /\ call[t].pc = "body"
           /\ IF token[call[t].lock] = None
              THEN Returns(t)
              ELSE ReadToken(t, call[t].lock, "del")
           /\ UNCHANGED <<serverVars, token, calls, next, shared>>

\* Mutant: release() deletes the key without comparing the token.
DelAlways(t, o) ==
    /\ call[t].pc = "del"
    /\ \/ /\ key # None /\ o # "refused" /\ GivenBack(t)
          /\ IF o = "ok" THEN Goto(t, "clear") ELSE Returns(t)
       \/ /\ key = None \/ o = "refused"
          /\ Returns(t)
          /\ UNCHANGED serverVars
    /\ UNCHANGED <<token, calls, next, shared>>

\* LOCK_RELEASE_LUA.  An answer of 0, which sentinel_retry also gets from its
\* second run, raises LockNotOwnedError and leaves the token.
DelIfOwner(t, o) ==
    /\ call[t].pc = "del"
    /\ \/ /\ key = call[t].token /\ o # "refused"
          /\ GivenBack(t)
          /\ IF o = "ok" THEN Goto(t, "clear") ELSE Returns(t)
       \/ /\ key # call[t].token \/ o = "refused"
          /\ Returns(t)
          /\ UNCHANGED serverVars
    /\ UNCHANGED <<token, calls, next, shared>>

Clear(t) == /\ call[t].pc = "clear"
            /\ token' = [token EXCEPT ![call[t].lock] = None]
            /\ Returns(t)
            /\ UNCHANGED <<serverVars, calls, next, shared>>

Extend(t, l) ==
    /\ Starts(t, l)
    /\ token[l] # None
    /\ ReadToken(t, l, "pexpire")
    /\ UNCHANGED <<serverVars, token, next>>

\* Mutant: extend() sends PEXPIRE by itself, without comparing the token.
ExtendAlways(t, o, tiny) ==
    /\ call[t].pc = "pexpire"
    /\ \/ /\ key # None /\ o # "refused" /\ tiny
          /\ GivenBack(t)
       \/ /\ key # None /\ o # "refused" /\ ~tiny
          /\ ttl' = TRUE
          /\ UNCHANGED <<key, by, granted>>
       \/ /\ key = None \/ o = "refused"
          /\ UNCHANGED serverVars
    /\ Returns(t)
    /\ UNCHANGED <<token, calls, next, shared>>

\* LOCK_EXTEND_LUA.  An additional_time below 1 ms is cut to PEXPIRE 0, which
\* deletes the key (and answers 1: extend() returns True).
ExtendIfOwner(t, o, tiny) ==
    /\ call[t].pc = "pexpire"
    /\ \/ /\ key = call[t].token /\ o # "refused" /\ tiny
          /\ GivenBack(t)
       \/ /\ key = call[t].token /\ o # "refused" /\ ~tiny
          /\ ttl' = TRUE
          /\ UNCHANGED <<key, by, granted>>
       \/ /\ key # call[t].token \/ o = "refused"
          /\ UNCHANGED serverVars
    /\ Returns(t)
    /\ UNCHANGED <<token, calls, next, shared>>

Steps(t) == \/ \E o \in Trips : \/ SetNx(t, o)
                                \/ DelIfOwner(t, o)
                                \/ \E tiny \in BOOLEAN : ExtendIfOwner(t, o, tiny)
            \/ Wait(t)
            \/ Store(t)
            \/ Exit(t)
            \/ Clear(t)

CallsIn(t) == \E l \in Locks : \/ \E blocking, deadline, with \in BOOLEAN :
                                     Acquire(t, l, blocking, deadline, with)
                               \/ Release(t, l)
                               \/ Extend(t, l)

Next == \/ Expire
        \/ \E t \in Threads : CallsIn(t) \/ Steps(t) \/ DeadlinePasses(t)

Spec == Init /\ [][Next]_vars

(***************************************************************************)
(* Threads run, the server answers or the connection fails, time passes on  *)
(* the client (deadlines) and on the server (keys that expire do so).       *)
(***************************************************************************)
Fairness == /\ \A t \in Threads : WF_vars(Steps(t)) /\ WF_vars(DeadlinePasses(t))
            /\ WF_vars(Expire)

FairSpec == Spec /\ Fairness
-----------------------------------------------------------------------------
(* Properties. *)

Calling == {"set", "wait", "store", "body", "del", "clear", "pexpire"}

TypeOK == /\ key \in Nat \cup {None}
          /\ ttl \in BOOLEAN
          /\ by \in Locks \cup {None}
          /\ token \in [Locks -> Nat \cup {None}]
          /\ call \in [Threads -> [pc : {"idle"} \cup Calling,
                                  lock : Locks \cup {None}, token : Nat \cup {None},
                                  blocking : BOOLEAN, deadline : BOOLEAN,
                                  late : BOOLEAN, with : BOOLEAN]]
          /\ calls \in Nat
          /\ next \in Nat
          /\ granted \in [Locks -> Nat \cup {None}]
          /\ shared \subseteq Locks

(* Mutual exclusion between Lock objects: what acquire() granted stays on the  *)
(* server until that Lock object gives it back or it expires, whatever stale   *)
(* release() or extend() of another Lock object, or repeated acquire(), comes  *)
(* late; so no two Lock objects hold the lock.                                 *)
HoldersHaveKey == \A l \in Locks : granted[l] # None => key = granted[l]

(* Only the Lock object that stored a key ends it or changes when it expires:  *)
(* no release(), extend() or acquire() of another one does, however late it    *)
(* runs, whether or not the answer to SET came, and also when several threads  *)
(* use one Lock object.  So a lock without a timeout does not begin to expire, *)
(* and one with a timeout is not prolonged, behind its holder's back.          *)
OthersLeaveTheKey ==
    [][\A t \in Threads :
          call'[t] # call[t] /\ key # None /\ <<key, ttl>>' # <<key, ttl>>
              => call[t].lock = by]_vars

(* Between calls a Lock object that no two threads used at once knows the     *)
(* token it was granted: release() and extend() reach the key it stored.      *)
OwnerCanRelease == \A l \in Locks :
    granted[l] # None /\ Free(l) /\ l \notin shared => token[l] = granted[l]

(* acquire() with a blocking_timeout returns, whoever holds the lock.         *)
AcquireReturns == \A t \in Threads :
    (call[t].pc \in {"set", "wait"} /\ call[t].deadline) ~> call[t].pc \notin {"set", "wait"}

(* A key stored with a timeout goes, also when the answer to SET was lost and *)
(* no Lock object knows its token.                                            *)
TimedLockComesFree == (by \in Timed) ~> (by = None)
=============================================================================
