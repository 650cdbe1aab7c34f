------------------------------ MODULE Awaitable ------------------------------
(***************************************************************************)
(* RedisRsAwaitable (async_bridge.rs): the object that async_op! hands to   *)
(* Python for one tokio operation.  Three parties run concurrently:         *)
(*                                                                          *)
(*   - the operation, a tokio task that ends by sending on a oneshot        *)
(*     channel or by dropping the sender;                                   *)
(*   - the asyncio event loop, one thread that steps tasks; a task's step   *)
(*     polls the awaitable (__next__), first BusyPolls times getting None,  *)
(*     then entering callback mode;                                         *)
(*   - the watcher, a tokio task spawned on entering callback mode, which   *)
(*     moves the outcome into result_slot and posts _wake to the loop.      *)
(*                                                                          *)
(* asyncio's Task and event loop are external and modelled from how they    *)
(* use the awaitable.  The loop's ready queue is a set: any handle that is  *)
(* ready may run next, which includes the FIFO order.                       *)
(***************************************************************************)
EXTENDS Naturals, Sequences

CONSTANTS Tasks,      \* asyncio tasks that may await this object
          Observers,  \* plain callbacks passed to add_done_callback
          BusyPolls   \* polls answered with None (5 in the code)

ASSUME ConstantsAssumption ==
    /\ BusyPolls \in 0..254
    /\ Tasks \cap Observers = {}

\* into_py succeeded, into_py raised, the sender was dropped.
Outcomes == {"ok", "err", "dropped"}

Callbacks == Tasks \cup Observers

VARIABLES
  op,          \* the tokio operation: "running" or its outcome
  rx,          \* the oneshot receiver: "held", "moved" (to the watcher), "none"
  slot,        \* result_slot, shared with the watcher
  cb,          \* is self.cb Some?
  callbacks,   \* self.cb.callbacks
  value,       \* self.value / self.error, "none" before resolution
  cancelled,   \* self.cancelled
  polls,       \* self.polls, a u8
  watcher,     \* "none", "awaiting", "filled", "posted", "done"
  running,     \* callbacks a _wake in progress has still to call
  soon,        \* callbacks that cancel() scheduled with loop.call_soon
  task,        \* "new", "ready" (a step is scheduled), "waiting", "done"
  mustCancel,  \* Task._must_cancel
  got,         \* how the task's await ended
  obs          \* observer: "new", "registered", "ignored", "fired"

vars == <<op, rx, slot, cb, callbacks, value, cancelled, polls, watcher,
          running, soon, task, mustCancel, got, obs>>

awaitableVars == <<rx, slot, cb, callbacks, value, cancelled, polls, watcher>>

\* self.resolved is set exactly when value or error is.
Resolved == value # "none"

Done == Resolved \/ cancelled

RangeOf(s) == {s[i] : i \in DOMAIN s}

Init == /\ op = "running"
        /\ rx = "held"
        /\ slot = "none"
        /\ cb = FALSE
        /\ callbacks = << >>
        /\ value = "none"
        /\ cancelled = FALSE
        /\ polls = 0
        /\ watcher = "none"
        /\ running = << >>
        /\ soon = {}
        /\ task = [t \in Tasks |-> "new"]
        /\ mustCancel = [t \in Tasks |-> FALSE]
        /\ got = [t \in Tasks |-> "none"]
        /\ obs = [o \in Observers |-> "new"]
-----------------------------------------------------------------------------
(* The tokio side. *)

\* The spawned body finishes and sends, or panics and drops the sender; it is
\* not told whether anyone still holds the receiver.
OpEnds(o) == /\ op = "running"
             /\ op' = o
             /\ UNCHANGED <<awaitableVars, running, soon, task, mustCancel, got, obs>>

\* Mutant: fills the slot without waiting for the channel.
WatcherFillsEarly == /\ watcher = "awaiting"
                     /\ slot' = op
                     /\ watcher' = "filled"
                     /\ UNCHANGED <<op, rx, cb, callbacks, value, cancelled, polls,
                                    running, soon, task, mustCancel, got, obs>>

WatcherFills == /\ watcher = "awaiting"
                /\ op # "running"
                /\ slot' = op
                /\ watcher' = "filled"
                /\ UNCHANGED <<op, rx, cb, callbacks, value, cancelled, polls,
                               running, soon, task, mustCancel, got, obs>>

\* spawn_blocking: attach to the interpreter and call_soon_threadsafe(_wake).
WatcherPosts == /\ watcher = "filled"
                /\ watcher' = "posted"
                /\ UNCHANGED <<op, rx, slot, cb, callbacks, value, cancelled, polls,
                               running, soon, task, mustCancel, got, obs>>
-----------------------------------------------------------------------------
(* __next__, called by a step of task t; each disjunct is one of its exits.  *)

EndTask(t, r) == /\ task' = [task EXCEPT ![t] = "done"]
                 /\ got' = [got EXCEPT ![t] = r]
                 /\ mustCancel' = [mustCancel EXCEPT ![t] = FALSE]

PollSettled(t) == /\ Done
                  /\ EndTask(t, IF cancelled THEN "cancelled" ELSE value)
                  /\ UNCHANGED awaitableVars

\* Mutant: resolves from the slot and stays in callback mode.
TakeSlotKeepsMode(t) ==
    /\ ~Done /\ cb /\ slot # "none"
    /\ slot' = "none"
    /\ value' = slot
    /\ EndTask(t, slot)
    /\ UNCHANGED <<rx, cb, callbacks, cancelled, polls, watcher>>

\* Mutant: every outcome taken from the slot is reported as a success.
TakeSlotMislabelled(t) ==
    /\ ~Done /\ cb /\ slot # "none"
    /\ slot' = "none" /\ cb' = FALSE /\ callbacks' = << >>
    /\ value' = "ok"
    /\ EndTask(t, "ok")
    /\ UNCHANGED <<rx, cancelled, polls, watcher>>

\* Callback mode and the watcher has filled result_slot: take it.  Dropping
\* self.cb drops every callback still registered in it.
TakeSlot(t) == /\ ~Done /\ cb /\ slot # "none"
               /\ slot' = "none"
               /\ cb' = FALSE
               /\ callbacks' = << >>
               /\ value' = slot
               /\ EndTask(t, slot)
               /\ UNCHANGED <<rx, cancelled, polls, watcher>>

SlotEmpty == ~(cb /\ slot # "none")

TryRecv(t) == /\ ~Done /\ SlotEmpty
              /\ rx = "held" /\ op # "running"
              /\ rx' = "none"
              /\ value' = op
              /\ EndTask(t, op)
              /\ UNCHANGED <<slot, cb, callbacks, cancelled, polls, watcher>>

PollMisses == ~Done /\ SlotEmpty /\ ~(rx = "held" /\ op # "running")

CountPoll == polls' = (polls + 1) % 256

BusyYield(t) == /\ PollMisses
                /\ CountPoll /\ polls' <= BusyPolls
                /\ task' = [task EXCEPT ![t] = "ready"]
                /\ UNCHANGED <<rx, slot, cb, callbacks, value, cancelled, watcher,
                               mustCancel, got>>

AlreadyConsumed(t) == /\ PollMisses
                      /\ CountPoll /\ polls' > BusyPolls
                      /\ rx # "held"
                      /\ EndTask(t, "consumed")
                      /\ UNCHANGED <<rx, slot, cb, callbacks, value, cancelled, watcher>>

\* The receiver moves into the watcher; the awaitable is returned to
\* Task.__step, which calls add_done_callback(wakeup) before anything else runs.
EnterCallbackMode(t) == /\ PollMisses
                        /\ CountPoll /\ polls' > BusyPolls
                        /\ rx = "held"
                        /\ rx' = "moved"
                        /\ cb' = TRUE
                        /\ callbacks' = <<t>>
                        /\ watcher' = "awaiting"
                        /\ task' = [task EXCEPT ![t] = "waiting"]
                        /\ UNCHANGED <<slot, value, cancelled, mustCancel, got>>

Poll(t) == \/ PollSettled(t)
           \/ TakeSlot(t)
           \/ TryRecv(t)
           \/ BusyYield(t)
           \/ AlreadyConsumed(t)
           \/ EnterCallbackMode(t)
-----------------------------------------------------------------------------
(* asyncio's event loop (external) driving the awaitable. *)

LoopIdle == running = << >>

CreateTask(t) == /\ LoopIdle
                 /\ task[t] = "new"
                 /\ task' = [task EXCEPT ![t] = "ready"]
                 /\ UNCHANGED <<awaitableVars, op, running, soon, mustCancel, got, obs>>

\* Task.__step: a pending cancellation is thrown into the coroutine (the
\* awaitable has no throw() and is not told), otherwise the await is polled.
TaskStep(t) == \/ /\ mustCancel[t]
                  /\ EndTask(t, "cancelled")
                  /\ UNCHANGED awaitableVars
               \/ ~mustCancel[t] /\ Poll(t)

RunStep(t) == /\ LoopIdle
              /\ task[t] = "ready"
              /\ TaskStep(t)
              /\ UNCHANGED <<op, running, soon, obs>>

\* Task.__wakeup: result() raises when cancelled or failed, and returns None
\* while the awaitable is unresolved; without an exception it steps the task.
Wakeup(t) == \/ /\ cancelled
                /\ EndTask(t, "cancelled")
                /\ UNCHANGED awaitableVars
             \/ /\ ~cancelled /\ value \in {"err", "dropped"}
                /\ EndTask(t, IF mustCancel[t] THEN "cancelled" ELSE value)
                /\ UNCHANGED awaitableVars
             \/ /\ ~cancelled /\ value \notin {"err", "dropped"}
                /\ TaskStep(t)

\* Calls one callback: a task's wakeup or an observer.
Call(c) == \/ /\ c \in Tasks
              /\ Wakeup(c)
              /\ UNCHANGED obs
           \/ /\ c \in Observers
              /\ obs' = [obs EXCEPT ![c] = "fired"]
              /\ UNCHANGED <<awaitableVars, task, mustCancel, got>>

\* Mutant: call the callbacks in the reverse order of their registration.
WakeReversed == /\ LoopIdle /\ watcher = "posted"
                /\ watcher' = "done"
                /\ running' = IF cb THEN [i \in DOMAIN callbacks |->
                                            callbacks[Len(callbacks) + 1 - i]]
                                    ELSE << >>
                /\ callbacks' = << >>
                /\ UNCHANGED <<op, rx, slot, cb, value, cancelled, polls, soon,
                               task, mustCancel, got, obs>>

\* _wake: take the callbacks out of self.cb, then call each of them.
Wake == /\ LoopIdle
        /\ watcher = "posted"
        /\ watcher' = "done"
        /\ running' = IF cb THEN callbacks ELSE << >>
        /\ callbacks' = << >>
        /\ UNCHANGED <<op, rx, slot, cb, value, cancelled, polls, soon,
                       task, mustCancel, got, obs>>

WakeCalls == /\ running # << >>
             /\ Call(Head(running))
             /\ running' = Tail(running)
             /\ UNCHANGED <<op, soon>>

RunSoon(c) == /\ LoopIdle
              /\ c \in soon
              /\ soon' = soon \ {c}
              /\ Call(c)
              /\ UNCHANGED <<op, running>>
-----------------------------------------------------------------------------
(* add_done_callback and cancel, called from Python code on the loop. *)

\* Outside callback mode the callback is dropped without an error.
AddDoneCallback(o) ==
    /\ LoopIdle
    /\ obs[o] = "new"
    /\ obs' = [obs EXCEPT ![o] = IF cb THEN "registered" ELSE "ignored"]
    /\ callbacks' = IF cb THEN Append(callbacks, o) ELSE callbacks
    /\ UNCHANGED <<op, rx, slot, cb, value, cancelled, polls, watcher,
                   running, soon, task, mustCancel, got>>

\* Mutant: cancel() does not ask whether the awaitable has resolved.
CancelLate ==
    /\ ~cancelled
    /\ cancelled' = TRUE
    /\ rx' = IF rx = "held" THEN "none" ELSE rx
    /\ cb' = FALSE
    /\ callbacks' = << >>
    /\ soon' = soon \cup RangeOf(callbacks)
    /\ UNCHANGED <<slot, value, polls, watcher>>

\* Mutant: cancel() drops the callbacks instead of scheduling them.
CancelQuietly ==
    /\ ~Done
    /\ cancelled' = TRUE
    /\ rx' = IF rx = "held" THEN "none" ELSE rx
    /\ cb' = FALSE
    /\ callbacks' = << >>
    /\ UNCHANGED <<slot, value, polls, watcher, soon>>

\* cancel() returning True.  A receiver that is still held is dropped; one that
\* moved to the watcher stays there.  The operation itself is not touched.
CancelAwaitable ==
    /\ ~Done
    /\ cancelled' = TRUE
    /\ rx' = IF rx = "held" THEN "none" ELSE rx
    /\ cb' = FALSE
    /\ callbacks' = << >>
    /\ soon' = soon \cup RangeOf(callbacks)
    /\ UNCHANGED <<slot, value, polls, watcher>>

Cancel == /\ LoopIdle
          /\ CancelAwaitable
          /\ UNCHANGED <<op, running, task, mustCancel, got, obs>>

\* Task.cancel(): cancel the awaitable the task waits on, and if there is none,
\* or it answers False, throw CancelledError at the task's next step.
TaskCancel(t) ==
    /\ LoopIdle
    /\ \/ /\ task[t] = "waiting"
          /\ CancelAwaitable
          /\ UNCHANGED mustCancel
       \/ /\ task[t] = "ready" \/ (task[t] = "waiting" /\ Done)
          /\ mustCancel' = [mustCancel EXCEPT ![t] = TRUE]
          /\ UNCHANGED <<awaitableVars, soon>>
    /\ UNCHANGED <<op, running, task, got, obs>>
-----------------------------------------------------------------------------
LoopNext == \/ \E t \in Tasks : RunStep(t)
            \/ Wake
            \/ WakeCalls
            \/ \E c \in Callbacks : RunSoon(c)

UserNext == \/ \E t \in Tasks : CreateTask(t) \/ TaskCancel(t)
            \/ Cancel
            \/ \E o \in Observers : AddDoneCallback(o)

TokioNext == \/ \E o \in Outcomes : OpEnds(o)
             \/ WatcherFills
             \/ WatcherPosts

Next == LoopNext \/ UserNext \/ TokioNext

Spec == Init /\ [][Next]_vars

(***************************************************************************)
(* The loop runs every handle it was given and tokio polls the watcher once *)
(* it is woken; the operation may take forever, and nobody has to cancel.   *)
(***************************************************************************)
Fairness == /\ \A t \in Tasks : WF_vars(RunStep(t))
            /\ WF_vars(Wake)
            /\ WF_vars(WakeCalls)
            /\ \A c \in Callbacks : WF_vars(RunSoon(c))
            /\ WF_vars(WatcherFills)
            /\ WF_vars(WatcherPosts)

FairSpec == Spec /\ Fairness
-----------------------------------------------------------------------------
(* Properties. *)

TypeOK == /\ op \in {"running"} \cup Outcomes
          /\ rx \in {"held", "moved", "none"}
          /\ slot \in {"none"} \cup Outcomes
          /\ cb \in BOOLEAN
          /\ callbacks \in Seq(Callbacks)
          /\ value \in {"none"} \cup Outcomes
          /\ cancelled \in BOOLEAN
          /\ polls \in 0..255
          /\ watcher \in {"none", "awaiting", "filled", "posted", "done"}
          /\ running \in Seq(Callbacks)
          /\ soon \subseteq Callbacks
          /\ task \in [Tasks -> {"new", "ready", "waiting", "done"}]
          /\ mustCancel \in [Tasks -> BOOLEAN]
          /\ got \in [Tasks -> {"none", "consumed", "cancelled"} \cup Outcomes]
          /\ obs \in [Observers -> {"new", "registered", "ignored", "fired"}]

(* The outcome every awaiter is given is the one the operation ended with,   *)
(* whichever path it took: try_recv on the channel, the slot the watcher     *)
(* filled, or the stored value on a second await.                            *)
AnswersAgreeWithOp == \A t \in Tasks : got[t] \in Outcomes => got[t] = op /\ value = op

(* With one awaiting task, a task suspended on the awaitable is always still *)
(* going to be woken: its wakeup is registered and the watcher has not run   *)
(* its _wake, or the wakeup is being called, or cancel() scheduled it.       *)
NoLostWakeup == \A t \in Tasks : task[t] = "waiting" =>
                   \/ cb /\ t \in RangeOf(callbacks)
                         /\ watcher \in {"awaiting", "filled", "posted"}
                   \/ t \in RangeOf(running)
                   \/ t \in soon

(* What ties the parts of callback mode together, for any number of awaiting  *)
(* tasks.  While self.cb is there the awaitable is unsettled, the receiver   *)
(* is the watcher's and a watcher past its await has left an outcome in the  *)
(* slot; a task's wakeup is only ever first among the callbacks, belongs to  *)
(* a waiting task, and while a _wake runs the awaitable is either about to   *)
(* be polled by that task or done.                                           *)
CallbackModeInv ==
    /\ cb => ~Done /\ rx = "moved"
    /\ ~cb => callbacks = << >>
    /\ rx = "held" => watcher = "none"
    /\ cb => watcher # "none"
    /\ cb /\ watcher \in {"filled", "posted", "done"} => slot # "none"
    /\ cb /\ LoopIdle => callbacks # << >> /\ watcher # "done"
    /\ callbacks # << >> => callbacks[1] \in Tasks
    /\ \A i \in DOMAIN callbacks : callbacks[i] \in Tasks =>
                                     i = 1 /\ task[callbacks[i]] = "waiting"
    /\ running # << >> => \/ /\ cb /\ callbacks = << >>
                             /\ watcher = "done"
                             /\ running[1] \in Tasks
                          \/ Done
    /\ \A i \in DOMAIN running : running[i] \in Tasks =>
                                   /\ i = 1 /\ cb
                                   /\ task[running[i]] = "waiting"
    /\ soon # {} => cancelled
    /\ \A t \in Tasks :
          /\ t \in soon => task[t] = "waiting"
          /\ task[t] = "waiting" /\ mustCancel[t] => Done
          /\ got[t] = "none" <=> task[t] # "done"

(* asyncio's contract for done callbacks: when one runs, the future is done. *)
(* The awaitable resolves only when it is polled, so this rests on the       *)
(* awaiting task's wakeup being called before any observer.                  *)
CallbackSeesDone ==
    [][\A o \in Observers : obs[o] # "fired" /\ obs'[o] = "fired" => Done]_vars

(* Once the operation has ended or the awaitable was cancelled, a task that  *)
(* waits on it finishes.                                                     *)
AwaiterResumes == \A t \in Tasks :
    (task[t] = "waiting" /\ (op # "running" \/ cancelled)) ~> (task[t] = "done")

(* A callback that add_done_callback accepted is called once the operation   *)
(* has ended or the awaitable was cancelled.                                 *)
AcceptedCallbackFires == \A o \in Observers :
    (obs[o] = "registered" /\ (op # "running" \/ cancelled)) ~> (obs[o] = "fired")

Future == INSTANCE AsyncFuture
            WITH Awaiters <- Tasks,
                 state <- IF cancelled THEN "cancelled"
                          ELSE IF value = "none" THEN "pending" ELSE value

(* The awaitable implements the one-shot future of AsyncFuture.              *)
ImplementsFuture == Future!Spec
=============================================================================
