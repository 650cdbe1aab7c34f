----------------------------- MODULE AsyncFuture -----------------------------
(***************************************************************************)
(* What an awaitable promises to the asyncio tasks that await it: it is     *)
(* settled at most once, either with the outcome of the operation behind it *)
(* or by cancellation, and every awaiter is answered at most once and never *)
(* with anything but the settled state.  A task may also be cancelled on its*)
(* own (Abandon), and a surplus awaiter of an unsettled future may be       *)
(* refused ("awaitable already consumed").                                  *)
(***************************************************************************)
CONSTANTS Awaiters,   \* the tasks that may await the future
          Outcomes    \* what the operation can end with

VARIABLES state,      \* "pending", "cancelled" or one of Outcomes
          got         \* what each awaiter was answered, "none" before that

vars == <<state, got>>

Init == /\ state = "pending"
        /\ got = [t \in Awaiters |-> "none"]

Answer(t, a) == /\ got[t] = "none"
                /\ got' = [got EXCEPT ![t] = a]

\* The future settles with outcome o, which the awaiter t gets at once.
Resolve(t, o) == /\ state = "pending"
                 /\ state' = o
                 /\ Answer(t, o)

Cancel == /\ state = "pending"
          /\ state' = "cancelled"
          /\ UNCHANGED got

\* An awaiter of a settled future gets the settled state.
Redeliver(t) == /\ state # "pending"
                /\ Answer(t, state)
                /\ UNCHANGED state

Abandon(t) == Answer(t, "cancelled") /\ UNCHANGED state

Refuse(t) == /\ state = "pending"
             /\ Answer(t, "consumed")
             /\ UNCHANGED state

Next == \/ Cancel
        \/ \E t \in Awaiters : \/ \E o \in Outcomes : Resolve(t, o)
                               \/ Redeliver(t)
                               \/ Abandon(t)
                               \/ Refuse(t)

Spec == Init /\ [][Next]_vars
=============================================================================
