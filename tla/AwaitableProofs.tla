--------------------------- MODULE AwaitableProofs ---------------------------
(***************************************************************************)
(* Theorems about Awaitable, for every set of tasks and observers and every *)
(* number of busy polls.                                                    *)
(***************************************************************************)
EXTENDS Awaitable, TLAPS

LEMMA RangeOfSeq == ASSUME NEW S, NEW s \in Seq(S) PROVE RangeOf(s) \subseteq S
  BY DEF RangeOf

LEMMA EmptyIsSeq == << >> \in Seq(Callbacks)
  OBVIOUS

(* Every step of a task ends the task, leaves it ready or suspends it.       *)
LEMMA StepTypes ==
  ASSUME TypeOK, NEW t \in Tasks, TaskStep(t)
  PROVE  /\ rx' \in {"held", "moved", "none"}
         /\ slot' \in {"none"} \cup Outcomes
         /\ cb' \in BOOLEAN
         /\ callbacks' \in Seq(Callbacks)
         /\ value' \in {"none"} \cup Outcomes
         /\ cancelled' \in BOOLEAN
         /\ polls' \in 0..255
         /\ watcher' \in {"none", "awaiting", "filled", "posted", "done"}
         /\ task' \in [Tasks -> {"new", "ready", "waiting", "done"}]
         /\ mustCancel' \in [Tasks -> BOOLEAN]
         /\ got' \in [Tasks -> {"none", "consumed", "cancelled"} \cup Outcomes]
<1> USE DEF TypeOK, EndTask, awaitableVars, Outcomes
<1>1. CASE EndTask(t, "cancelled") /\ UNCHANGED awaitableVars
  BY <1>1
<1>2. CASE PollSettled(t)
  BY <1>2 DEF PollSettled, Done, Resolved
<1>3. CASE TakeSlot(t)
  BY <1>3, EmptyIsSeq DEF TakeSlot
<1>4. CASE TryRecv(t)
  BY <1>4 DEF TryRecv
<1>5. CASE BusyYield(t)
  BY <1>5 DEF BusyYield, CountPoll
<1>6. CASE AlreadyConsumed(t)
  BY <1>6 DEF AlreadyConsumed, CountPoll
<1>7. CASE EnterCallbackMode(t)
  BY <1>7 DEF EnterCallbackMode, CountPoll, Callbacks
<1> QED
  BY <1>1, <1>2, <1>3, <1>4, <1>5, <1>6, <1>7 DEF TaskStep, Poll

LEMMA CallTypes ==
  ASSUME TypeOK, NEW c \in Callbacks, Call(c), UNCHANGED op,
         running' \in Seq(Callbacks), soon' \subseteq Callbacks
  PROVE  TypeOK'
<1>1. CASE c \in Observers /\ obs' = [obs EXCEPT ![c] = "fired"]
           /\ UNCHANGED <<awaitableVars, task, mustCancel, got>>
  BY <1>1 DEF TypeOK, awaitableVars
<1>2. CASE c \in Tasks /\ Wakeup(c) /\ UNCHANGED obs
  <2>1. CASE TaskStep(c)
    BY <1>2, <2>1, StepTypes DEF TypeOK
  <2>2. ASSUME NEW r \in {"cancelled"} \cup Outcomes,
               EndTask(c, r), UNCHANGED awaitableVars
        PROVE  TypeOK'
    BY <1>2, <2>2 DEF TypeOK, EndTask, awaitableVars
  <2> QED BY <1>2, <2>1, <2>2 DEF Wakeup, Outcomes
<1> QED BY <1>1, <1>2 DEF Call

(* The type invariant of the awaitable and of the loop and watcher around it.*)
THEOREM TypeCorrect == Spec => []TypeOK
<1>1. Init => TypeOK
  <2> SUFFICES ASSUME Init PROVE TypeOK
    OBVIOUS
  <2>1. callbacks \in Seq(Callbacks) /\ running \in Seq(Callbacks)
    BY EmptyIsSeq DEF Init
  <2>2. /\ op \in {"running"} \cup Outcomes
        /\ slot \in {"none"} \cup Outcomes
        /\ value \in {"none"} \cup Outcomes
        /\ rx \in {"held", "moved", "none"}
        /\ cb \in BOOLEAN /\ cancelled \in BOOLEAN
        /\ watcher \in {"none", "awaiting", "filled", "posted", "done"}
        /\ soon \subseteq Callbacks
    BY DEF Init
  <2>3. /\ task \in [Tasks -> {"new", "ready", "waiting", "done"}]
        /\ got \in [Tasks -> {"none", "consumed", "cancelled"} \cup Outcomes]
        /\ obs \in [Observers -> {"new", "registered", "ignored", "fired"}]
    BY DEF Init
  <2>4. mustCancel \in [Tasks -> BOOLEAN]
    BY Zenon DEF Init
  <2>5. polls \in 0..255
    BY DEF Init
  <2> QED BY <2>1, <2>2, <2>3, <2>4, <2>5 DEF TypeOK
<1>2. TypeOK /\ [Next]_vars => TypeOK'
  <2> SUFFICES ASSUME TypeOK, [Next]_vars PROVE TypeOK'
    OBVIOUS
  <2>1. ASSUME NEW t \in Tasks, RunStep(t) PROVE TypeOK'
    BY <2>1, StepTypes DEF RunStep, TypeOK
  <2>2. CASE Wake
    BY <2>2, EmptyIsSeq DEF Wake, TypeOK
  <2>3. CASE WakeCalls
    <3>1. Head(running) \in Callbacks /\ Tail(running) \in Seq(Callbacks)
      BY <2>3 DEF WakeCalls, TypeOK
    <3> QED BY <2>3, <3>1, CallTypes DEF WakeCalls, TypeOK
  <2>4. ASSUME NEW c \in Callbacks, RunSoon(c) PROVE TypeOK'
    BY <2>4, CallTypes DEF RunSoon, TypeOK
  <2>5. ASSUME NEW t \in Tasks, CreateTask(t) PROVE TypeOK'
    BY <2>5 DEF CreateTask, TypeOK, awaitableVars
  <2>6. CancelAwaitable => /\ rx' \in {"held", "moved", "none"}
                           /\ soon' \subseteq Callbacks
                           /\ callbacks' \in Seq(Callbacks)
                           /\ cb' \in BOOLEAN /\ cancelled' \in BOOLEAN
    BY EmptyIsSeq, RangeOfSeq DEF CancelAwaitable, TypeOK
  <2>7. ASSUME NEW t \in Tasks, TaskCancel(t) PROVE TypeOK'
    <3>1. CASE CancelAwaitable /\ UNCHANGED mustCancel
      BY <2>6, <2>7, <3>1 DEF TaskCancel, TypeOK, CancelAwaitable
    <3>2. CASE mustCancel' = [mustCancel EXCEPT ![t] = TRUE]
               /\ UNCHANGED <<awaitableVars, soon>>
      BY <2>7, <3>2 DEF TaskCancel, TypeOK, awaitableVars
    <3> QED BY <2>7, <3>1, <3>2 DEF TaskCancel
  <2>8. CASE Cancel
    BY <2>6, <2>8 DEF Cancel, CancelAwaitable, TypeOK
  <2>9. ASSUME NEW o \in Observers, AddDoneCallback(o) PROVE TypeOK'
    BY <2>9 DEF AddDoneCallback, TypeOK, Callbacks
  <2>10. ASSUME NEW o \in Outcomes, OpEnds(o) PROVE TypeOK'
    BY <2>10 DEF OpEnds, TypeOK, awaitableVars
  <2>11. CASE WatcherFills
    BY <2>11 DEF WatcherFills, TypeOK
  <2>12. CASE WatcherPosts
    BY <2>12 DEF WatcherPosts, TypeOK
  <2>13. CASE UNCHANGED vars
    BY <2>13 DEF vars, TypeOK
  <2> QED
    BY <2>1, <2>2, <2>3, <2>4, <2>5, <2>7, <2>8, <2>9, <2>10, <2>11, <2>12, <2>13
    DEF Next, LoopNext, UserNext, TokioNext
<1> QED BY <1>1, <1>2, PTL DEF Spec
-----------------------------------------------------------------------------
(* A step of a task that is neither registered, nor being woken, nor scheduled *)
(* by a cancel() keeps the callback-mode invariant.                            *)
LEMMA FreeStepKeepsCallbackMode ==
  ASSUME TypeOK, CallbackModeInv, NEW t \in Tasks,
         TaskStep(t), task[t] = "ready", LoopIdle, UNCHANGED <<op, running, soon>>
  PROVE  CallbackModeInv'
<1> USE DEF TypeOK, CallbackModeInv, EndTask, awaitableVars, Done, Resolved, LoopIdle
<1>1. CASE EndTask(t, "cancelled") /\ UNCHANGED awaitableVars
  BY <1>1
<1>2. CASE PollSettled(t)
  BY <1>2 DEF PollSettled, Outcomes
<1>3. CASE TakeSlot(t)
  BY <1>3 DEF TakeSlot, Outcomes
<1>4. CASE TryRecv(t)
  BY <1>4 DEF TryRecv, Outcomes
<1>5. CASE BusyYield(t)
  BY <1>5 DEF BusyYield
<1>6. CASE AlreadyConsumed(t)
  BY <1>6 DEF AlreadyConsumed
<1>7. CASE ~mustCancel[t] /\ EnterCallbackMode(t)
  BY <1>7 DEF EnterCallbackMode, PollMisses, SlotEmpty
<1> QED
  BY <1>1, <1>2, <1>3, <1>4, <1>5, <1>6, <1>7 DEF TaskStep, Poll

(* While the head of a _wake is a task, that task polls the awaitable out of   *)
(* callback mode, so that the observers after it find it done.                 *)
LEMMA WakeCallsKeepsCallbackMode ==
  ASSUME TypeOK, CallbackModeInv, WakeCalls
  PROVE  CallbackModeInv'
<1> DEFINE c == Head(running)
<1>1. /\ running \in Seq(Callbacks) /\ running # << >>
      /\ c = running[1] /\ c \in Callbacks /\ 1 \in DOMAIN running
      /\ running' = Tail(running) /\ UNCHANGED <<op, soon>>
  BY DEF WakeCalls, TypeOK
<1>2. \A i \in DOMAIN running' : i + 1 \in DOMAIN running /\ i + 1 # 1
                                   /\ running'[i] = running[i + 1]
  BY <1>1
<1>3. \A i \in DOMAIN running' : running'[i] \notin Tasks
  BY <1>2 DEF CallbackModeInv
<1>4. CASE c \in Observers /\ UNCHANGED <<awaitableVars, task, mustCancel, got>>
  <2>1. c \notin Tasks
    BY <1>4, ConstantsAssumption
  <2>2. Done
    BY <1>1, <2>1 DEF CallbackModeInv
  <2> QED BY <1>1, <1>3, <1>4, <2>2 DEF CallbackModeInv, Done, Resolved, awaitableVars, LoopIdle
<1>5. CASE c \in Tasks /\ Wakeup(c)
  <2>1. /\ cb /\ callbacks = << >> /\ watcher = "done" /\ slot # "none"
        /\ ~Done /\ rx = "moved" /\ task[c] = "waiting" /\ ~mustCancel[c] /\ soon = {}
    BY <1>1, <1>5 DEF CallbackModeInv, Done, TypeOK
  <2>2. TakeSlot(c)
    BY <1>5, <2>1 DEF Wakeup, TaskStep, Poll, PollSettled, TryRecv, BusyYield, PollMisses,
       AlreadyConsumed, EnterCallbackMode, SlotEmpty, Done, Resolved
  <2> QED BY <1>1, <1>3, <1>5, <2>1, <2>2 DEF TakeSlot, EndTask, CallbackModeInv, Done, Resolved,
       LoopIdle, TypeOK, Outcomes
<1> QED BY <1>1, <1>4, <1>5 DEF WakeCalls, Call

(* A callback that cancel() scheduled finds the awaitable cancelled.           *)
LEMMA RunSoonKeepsCallbackMode ==
  ASSUME TypeOK, CallbackModeInv, NEW c \in Callbacks, RunSoon(c)
  PROVE  CallbackModeInv'
<1> USE DEF TypeOK, CallbackModeInv, RunSoon, Done, Resolved, LoopIdle
<1>1. cancelled /\ ~cb
  OBVIOUS
<1>2. CASE c \in Observers /\ UNCHANGED <<awaitableVars, task, mustCancel, got>>
  BY <1>1, <1>2 DEF awaitableVars
<1>3. CASE c \in Tasks /\ Wakeup(c)
  <2>1. EndTask(c, "cancelled") /\ UNCHANGED awaitableVars
    BY <1>1, <1>3 DEF Wakeup
  <2> QED BY <1>1, <1>3, <2>1 DEF EndTask, awaitableVars
<1> QED BY <1>2, <1>3 DEF Call

(* The callback-mode invariant holds for any number of awaiting tasks.         *)
THEOREM CallbackModeCorrect == Spec => []CallbackModeInv
<1>1. Init => CallbackModeInv
  BY DEF Init, CallbackModeInv, Done, Resolved, LoopIdle
<1>2. TypeOK /\ CallbackModeInv /\ [Next]_vars => CallbackModeInv'
  <2> SUFFICES ASSUME TypeOK, CallbackModeInv, [Next]_vars PROVE CallbackModeInv'
    OBVIOUS
  <2> USE DEF TypeOK, CallbackModeInv, Done, Resolved, LoopIdle
  <2>1. ASSUME NEW t \in Tasks, RunStep(t) PROVE CallbackModeInv'
    BY <2>1, FreeStepKeepsCallbackMode DEF RunStep
  <2>2. CASE Wake
    BY <2>2 DEF Wake
  <2>3. CASE WakeCalls
    BY <2>3, WakeCallsKeepsCallbackMode
  <2>4. ASSUME NEW c \in Callbacks, RunSoon(c) PROVE CallbackModeInv'
    BY <2>4, RunSoonKeepsCallbackMode
  <2>5. ASSUME NEW t \in Tasks, CreateTask(t) PROVE CallbackModeInv'
    BY <2>5 DEF CreateTask, awaitableVars
  <2>6. ASSUME CancelAwaitable, UNCHANGED <<running, task, mustCancel, got>>, running = << >>
        PROVE  CallbackModeInv'
    BY <2>6 DEF CancelAwaitable, RangeOf
  <2>7. ASSUME NEW t \in Tasks, TaskCancel(t) PROVE CallbackModeInv'
    <3>1. CASE CancelAwaitable /\ UNCHANGED mustCancel
      BY <2>6, <2>7, <3>1 DEF TaskCancel
    <3>2. CASE /\ task[t] = "ready" \/ Done
               /\ mustCancel' = [mustCancel EXCEPT ![t] = TRUE]
               /\ UNCHANGED <<awaitableVars, soon>>
      BY <2>7, <3>2 DEF TaskCancel, awaitableVars
    <3> QED BY <2>7, <3>1, <3>2 DEF TaskCancel
  <2>8. CASE Cancel
    BY <2>6, <2>8 DEF Cancel
  <2>9. ASSUME NEW o \in Observers, AddDoneCallback(o) PROVE CallbackModeInv'
    <3>1. o \notin Tasks
      BY ConstantsAssumption
    <3>2. CASE ~cb
      BY <2>9, <3>2 DEF AddDoneCallback
    <3>3. CASE cb
      <4>1. /\ callbacks' = Append(callbacks, o) /\ callbacks # << >>
            /\ UNCHANGED <<op, rx, slot, cb, value, cancelled, polls, watcher,
                           running, soon, task, mustCancel, got>>
        BY <2>9, <3>3 DEF AddDoneCallback
      <4>2. callbacks'[1] = callbacks[1] /\ callbacks' # << >>
        BY <4>1
      <4>3. \A i \in DOMAIN callbacks' : callbacks'[i] \in Tasks =>
                 i \in DOMAIN callbacks /\ callbacks'[i] = callbacks[i]
        BY <3>1, <4>1
      <4> QED BY <3>3, <4>1, <4>2, <4>3
    <3> QED BY <3>2, <3>3
  <2>10. ASSUME NEW o \in Outcomes, OpEnds(o) PROVE CallbackModeInv'
    BY <2>10 DEF OpEnds, awaitableVars
  <2>11. CASE WatcherFills
    BY <2>11 DEF WatcherFills, Outcomes
  <2>12. CASE WatcherPosts
    BY <2>12 DEF WatcherPosts
  <2>13. CASE UNCHANGED vars
    BY <2>13 DEF vars
  <2> QED
    BY <2>1, <2>2, <2>3, <2>4, <2>5, <2>7, <2>8, <2>9, <2>10, <2>11, <2>12, <2>13
    DEF Next, LoopNext, UserNext, TokioNext
<1> QED BY <1>1, <1>2, TypeCorrect, PTL DEF Spec

(* No done callback of add_done_callback runs before the awaitable is done,    *)
(* whether _wake or cancel() makes it run.                                     *)
THEOREM CallbacksSeeDone == Spec => CallbackSeesDone
<1>1. TypeOK /\ CallbackModeInv /\ [Next]_vars =>
        [\A o \in Observers : obs[o] # "fired" /\ obs'[o] = "fired" => Done]_vars
  <2> SUFFICES ASSUME TypeOK, CallbackModeInv, Next,
                      NEW o \in Observers, obs[o] # "fired", obs'[o] = "fired"
               PROVE  Done
    OBVIOUS
  <2>1. \E c \in Callbacks : Call(c) /\ (RunSoon(c) \/ (WakeCalls /\ c = Head(running)))
    <3>1. WakeCalls => Head(running) \in Callbacks
      BY DEF WakeCalls, TypeOK
    <3>2. CASE UserNext
      BY <3>2 DEF UserNext, CreateTask, TaskCancel, Cancel, AddDoneCallback, TypeOK
    <3>3. CASE TokioNext
      BY <3>3 DEF TokioNext, OpEnds, WatcherFills, WatcherPosts
    <3>4. CASE LoopNext
      BY <3>1, <3>4 DEF LoopNext, RunStep, Wake, RunSoon, WakeCalls
    <3> QED BY <3>2, <3>3, <3>4 DEF Next
  <2>2. PICK c \in Callbacks : Call(c) /\ (RunSoon(c) \/ (WakeCalls /\ c = Head(running)))
    BY <2>1
  <2>3. c \notin Tasks
    BY <2>2, ConstantsAssumption DEF Call, TypeOK
  <2>4. CASE RunSoon(c)
    BY <2>4 DEF RunSoon, CallbackModeInv, Done
  <2>5. CASE WakeCalls /\ c = Head(running)
    BY <2>3, <2>5 DEF WakeCalls, CallbackModeInv, TypeOK
  <2> QED BY <2>2, <2>4, <2>5
<1> QED BY <1>1, TypeCorrect, CallbackModeCorrect, PTL DEF Spec, CallbackSeesDone
-----------------------------------------------------------------------------
(* The slot and the stored value only ever hold the outcome of the operation.  *)
OutcomeInv == /\ slot # "none" => slot = op
              /\ value # "none" => value = op
              /\ \A t \in Tasks : got[t] \in Outcomes => got[t] = op /\ value = op

LEMMA StepKeepsOutcome ==
  ASSUME TypeOK, OutcomeInv, NEW t \in Tasks, TaskStep(t), UNCHANGED op
  PROVE  OutcomeInv'
<1> USE DEF TypeOK, OutcomeInv, EndTask, awaitableVars, Outcomes
<1>1. CASE EndTask(t, "cancelled") /\ UNCHANGED awaitableVars
  BY <1>1
<1>2. CASE PollSettled(t)
  BY <1>2 DEF PollSettled, Done, Resolved
<1>3. CASE TakeSlot(t)
  BY <1>3 DEF TakeSlot, Done, Resolved
<1>4. CASE TryRecv(t)
  BY <1>4 DEF TryRecv, Done, Resolved
<1>5. CASE BusyYield(t)
  BY <1>5 DEF BusyYield
<1>6. CASE AlreadyConsumed(t)
  BY <1>6 DEF AlreadyConsumed
<1>7. CASE EnterCallbackMode(t)
  BY <1>7 DEF EnterCallbackMode
<1> QED
  BY <1>1, <1>2, <1>3, <1>4, <1>5, <1>6, <1>7 DEF TaskStep, Poll

LEMMA CallKeepsOutcome ==
  ASSUME TypeOK, OutcomeInv, NEW c \in Callbacks, Call(c), UNCHANGED op
  PROVE  OutcomeInv'
<1>1. CASE c \in Observers /\ UNCHANGED <<awaitableVars, task, mustCancel, got>>
  BY <1>1 DEF OutcomeInv, awaitableVars
<1>2. CASE c \in Tasks /\ Wakeup(c)
  <2>1. CASE TaskStep(c)
    BY <1>2, <2>1, StepKeepsOutcome
  <2>2. CASE EndTask(c, "cancelled") /\ UNCHANGED awaitableVars
    BY <1>2, <2>2 DEF EndTask, awaitableVars, OutcomeInv, TypeOK, Outcomes
  <2>3. CASE /\ value \in {"err", "dropped"}
             /\ EndTask(c, value) /\ UNCHANGED awaitableVars
    BY <1>2, <2>3 DEF EndTask, awaitableVars, OutcomeInv, TypeOK, Outcomes
  <2> QED BY <1>2, <2>1, <2>2, <2>3 DEF Wakeup
<1> QED BY <1>1, <1>2 DEF Call

(* Every awaiter that gets an outcome gets the one the operation ended with.   *)
THEOREM AnswersCorrect == Spec => []AnswersAgreeWithOp
<1>1. Init => OutcomeInv
  BY DEF Init, OutcomeInv, Outcomes
<1>2. TypeOK /\ OutcomeInv /\ [Next]_vars => OutcomeInv'
  <2> SUFFICES ASSUME TypeOK, OutcomeInv, [Next]_vars PROVE OutcomeInv'
    OBVIOUS
  <2>1. ASSUME NEW t \in Tasks, RunStep(t) PROVE OutcomeInv'
    BY <2>1, StepKeepsOutcome DEF RunStep
  <2>2. CASE WakeCalls
    BY <2>2, CallKeepsOutcome DEF WakeCalls, TypeOK
  <2>3. ASSUME NEW c \in Callbacks, RunSoon(c) PROVE OutcomeInv'
    BY <2>3, CallKeepsOutcome DEF RunSoon
  <2>4. CASE UserNext \/ Wake
    BY <2>4 DEF UserNext, Wake, CreateTask, TaskCancel, Cancel, CancelAwaitable,
       AddDoneCallback, OutcomeInv, awaitableVars
  <2>5. CASE TokioNext
    BY <2>5 DEF TokioNext, OpEnds, WatcherFills, WatcherPosts, OutcomeInv, awaitableVars,
       TypeOK, Outcomes
  <2>6. CASE UNCHANGED vars
    BY <2>6 DEF vars, OutcomeInv
  <2> QED BY <2>1, <2>2, <2>3, <2>4, <2>5, <2>6 DEF Next, LoopNext
<1>3. OutcomeInv => AnswersAgreeWithOp
  BY DEF OutcomeInv, AnswersAgreeWithOp
<1> QED BY <1>1, <1>2, <1>3, TypeCorrect, PTL DEF Spec
-----------------------------------------------------------------------------
(* The obligation of NoLostWakeup for one task.                                *)
WillBeWoken(t) == \/ cb /\ t \in RangeOf(callbacks)
                        /\ watcher \in {"awaiting", "filled", "posted"}
                  \/ t \in RangeOf(running)
                  \/ t \in soon

(* The only step after which the stepping task waits is the one that registers *)
(* its wakeup.                                                                 *)
LEMMA OwnStepNeverStrands ==
  ASSUME TypeOK, NEW t \in Tasks, Wakeup(t) \/ TaskStep(t), (task[t] = "waiting")'
  PROVE  WillBeWoken(t)'
<1>1. EnterCallbackMode(t)
  BY DEF Wakeup, TaskStep, Poll, PollSettled, TakeSlot, TryRecv, BusyYield,
         AlreadyConsumed, EndTask, TypeOK
<1> QED BY <1>1 DEF EnterCallbackMode, WillBeWoken, RangeOf

(* With a single awaiting task no interleaving of loop, watcher and cancel()   *)
(* leaves it suspended without a wakeup on its way.                            *)
THEOREM OneTaskNeverStranded ==
  ASSUME NEW t, Tasks = {t}
  PROVE  Spec => []NoLostWakeup
<1> DEFINE Safe == task[t] = "waiting" => WillBeWoken(t)
<1>1. Init => Safe
  BY DEF Init
<1>2. TypeOK /\ Safe /\ [Next]_vars => Safe'
  <2> SUFFICES ASSUME TypeOK, Safe, [Next]_vars, (task[t] = "waiting")'
               PROVE  WillBeWoken(t)'
    OBVIOUS
  <2>1. CASE RunStep(t)
    BY <2>1, OwnStepNeverStrands DEF RunStep
  <2>2. ASSUME NEW c \in Observers, Call(c), task[t] = "waiting"
        PROVE  c # t /\ UNCHANGED <<cb, callbacks, watcher, task>>
    BY <2>2, ConstantsAssumption DEF Call, awaitableVars
  <2>3. CASE WakeCalls
    <3>1. CASE Head(running) = t
      BY <2>3, <3>1, OwnStepNeverStrands, ConstantsAssumption DEF WakeCalls, Call
    <3>2. CASE Head(running) # t
      <4>1. Head(running) \in Observers /\ Call(Head(running)) /\ UNCHANGED task
        BY <2>3, <3>2 DEF WakeCalls, TypeOK, Callbacks, Call
      <4>2. t \in RangeOf(running) => t \in RangeOf(running')
        <5> SUFFICES ASSUME NEW i \in DOMAIN running, running[i] = t
                     PROVE  \E j \in DOMAIN running' : running'[j] = t
          BY DEF RangeOf
        <5>1. running \in Seq(Callbacks) /\ running # << >> /\ running' = Tail(running)
          BY <2>3 DEF WakeCalls, TypeOK
        <5>2. i # 1
          BY <3>2, <5>1
        <5>3. i - 1 \in DOMAIN running' /\ running'[i - 1] = running[i]
          BY <5>1, <5>2
        <5> QED BY <5>3
      <4> QED BY <2>2, <2>3, <4>1, <4>2 DEF WakeCalls, WillBeWoken
    <3> QED BY <3>1, <3>2
  <2>4. ASSUME NEW c \in Callbacks, RunSoon(c) PROVE WillBeWoken(t)'
    <3>1. CASE c = t
      BY <2>4, <3>1, OwnStepNeverStrands, ConstantsAssumption DEF RunSoon, Call
    <3>2. CASE c # t
      BY <2>2, <2>4, <3>2 DEF RunSoon, WillBeWoken, Callbacks, Call
    <3> QED BY <3>1, <3>2
  <2>5. CASE Wake
    BY <2>5 DEF Wake, WillBeWoken, LoopIdle, RangeOf
  <2>6. CASE UserNext
    <3>1. ASSUME CancelAwaitable, UNCHANGED <<running, task>> PROVE WillBeWoken(t)'
      BY <3>1 DEF CancelAwaitable, WillBeWoken
    <3>2. CASE CreateTask(t)
      BY <2>6, <3>2 DEF CreateTask, TypeOK
    <3>3. CASE TaskCancel(t)
      BY <3>1, <3>3 DEF TaskCancel, WillBeWoken, awaitableVars
    <3>4. CASE Cancel
      BY <3>1, <3>4 DEF Cancel
    <3>5. ASSUME NEW o \in Observers, AddDoneCallback(o) PROVE WillBeWoken(t)'
      <4>1. t \in RangeOf(callbacks) => t \in RangeOf(callbacks')
        BY <3>5 DEF AddDoneCallback, RangeOf, TypeOK
      <4> QED BY <3>5, <4>1 DEF AddDoneCallback, WillBeWoken
    <3> QED BY <2>6, <3>2, <3>3, <3>4, <3>5 DEF UserNext
  <2>7. CASE TokioNext
    BY <2>7 DEF TokioNext, OpEnds, WatcherFills, WatcherPosts, WillBeWoken, awaitableVars
  <2>8. CASE UNCHANGED vars
    BY <2>8 DEF vars, WillBeWoken
  <2> QED BY <2>1, <2>3, <2>4, <2>5, <2>6, <2>7, <2>8 DEF Next, LoopNext
<1>3. Safe => NoLostWakeup
  BY DEF NoLostWakeup, WillBeWoken
<1> QED BY <1>1, <1>2, <1>3, TypeCorrect, PTL DEF Spec
-----------------------------------------------------------------------------
(* A step of a task is a step of the abstract future, or none.                 *)
LEMMA StepRefines ==
  ASSUME TypeOK, NEW t \in Tasks, TaskStep(t), got[t] = "none"
  PROVE  [Future!Next]_(Future!vars)
<1> USE DEF TypeOK, EndTask, Outcomes, Done, Resolved, awaitableVars
<1> USE DEF Future!Next, Future!vars, Future!Answer
<1>1. CASE EndTask(t, "cancelled") /\ UNCHANGED awaitableVars
  BY <1>1 DEF Future!Abandon
<1>2. CASE PollSettled(t)
  BY <1>2 DEF PollSettled, Future!Redeliver
<1>3. CASE TakeSlot(t)
  <2>1. Future!Resolve(t, slot) /\ slot \in Outcomes
    BY <1>3 DEF TakeSlot, Future!Resolve
  <2> QED BY <2>1
<1>4. CASE TryRecv(t)
  <2>1. Future!Resolve(t, op) /\ op \in Outcomes
    BY <1>4 DEF TryRecv, Future!Resolve
  <2> QED BY <2>1
<1>5. CASE BusyYield(t)
  BY <1>5 DEF BusyYield
<1>6. CASE AlreadyConsumed(t)
  BY <1>6 DEF AlreadyConsumed, PollMisses, Future!Refuse
<1>7. CASE EnterCallbackMode(t)
  BY <1>7 DEF EnterCallbackMode
<1> QED
  BY <1>1, <1>2, <1>3, <1>4, <1>5, <1>6, <1>7 DEF TaskStep, Poll

LEMMA CallRefines ==
  ASSUME TypeOK, NEW c \in Callbacks, Call(c), c \in Tasks => got[c] = "none"
  PROVE  [Future!Next]_(Future!vars)
<1> USE DEF Future!Next, Future!vars, Future!Answer, EndTask, awaitableVars
<1>1. CASE UNCHANGED <<awaitableVars, task, mustCancel, got>>
  BY <1>1
<1>2. CASE c \in Tasks /\ Wakeup(c)
  <2>1. CASE TaskStep(c)
    BY <1>2, <2>1, StepRefines
  <2>2. CASE EndTask(c, "cancelled") /\ UNCHANGED awaitableVars
    BY <1>2, <2>2 DEF Future!Abandon
  <2>3. CASE /\ ~cancelled /\ value \in {"err", "dropped"}
             /\ EndTask(c, value) /\ UNCHANGED awaitableVars
    BY <1>2, <2>3 DEF Future!Redeliver
  <2> QED BY <1>2, <2>1, <2>2, <2>3 DEF Wakeup
<1> QED BY <1>1, <1>2 DEF Call

(* The awaitable implements the one-shot future for any number of tasks.       *)
THEOREM Refinement == Spec => ImplementsFuture
<1>1. Init => Future!Init
  BY DEF Init, Future!Init
<1>2. TypeOK /\ CallbackModeInv /\ [Next]_vars => [Future!Next]_(Future!vars)
  <2> SUFFICES ASSUME TypeOK, CallbackModeInv, [Next]_vars
               PROVE  [Future!Next]_(Future!vars)
    OBVIOUS
  <2>1. ASSUME NEW t \in Tasks, RunStep(t) PROVE [Future!Next]_(Future!vars)
    BY <2>1, StepRefines DEF RunStep, CallbackModeInv
  <2>2. CASE WakeCalls
    <3>1. Head(running) \in Callbacks /\ 1 \in DOMAIN running /\ Head(running) = running[1]
      BY <2>2 DEF WakeCalls, TypeOK
    <3>2. Head(running) \in Tasks => got[Head(running)] = "none"
      BY <3>1 DEF CallbackModeInv
    <3> QED BY <2>2, <3>1, <3>2, CallRefines DEF WakeCalls
  <2>3. ASSUME NEW c \in Callbacks, RunSoon(c) PROVE [Future!Next]_(Future!vars)
    <3>1. c \in Tasks => got[c] = "none"
      BY <2>3 DEF RunSoon, CallbackModeInv
    <3> QED BY <2>3, <3>1, CallRefines DEF RunSoon
  <2>4. ASSUME CancelAwaitable, UNCHANGED got PROVE Future!Cancel
    BY <2>4 DEF CancelAwaitable, Future!Cancel, Done, Resolved, TypeOK
  <2>5. CASE UserNext
    BY <2>4, <2>5 DEF UserNext, CreateTask, TaskCancel, Cancel, AddDoneCallback,
       awaitableVars, Future!vars, Future!Next
  <2>6. CASE Wake \/ TokioNext
    BY <2>6 DEF Wake, TokioNext, OpEnds, WatcherFills, WatcherPosts, awaitableVars, Future!vars
  <2>7. CASE UNCHANGED vars
    BY <2>7 DEF vars, Future!vars
  <2> QED BY <2>1, <2>2, <2>3, <2>5, <2>6, <2>7 DEF Next, LoopNext
<1> QED
  BY <1>1, <1>2, TypeCorrect, CallbackModeCorrect, PTL DEF Spec, ImplementsFuture, Future!Spec
=============================================================================
