------------------------------ MODULE CommandCall ------------------------------
(***************************************************************************)
(* What a client promises the caller of one command: it is tried at most    *)
(* twice, and the second time only when nobody waits for the first any      *)
(* more; each try is executed at most once; and the answer is final.  "ok"  *)
(* is a try that was executed, "refused" the server's own no.  Only a call  *)
(* that missed an answer is unsure how often its command took effect, and   *)
(* only for such a call may that still change when it has been answered.    *)
(* Several calls can move in one step: they may share a connection.         *)
(***************************************************************************)
EXTENDS Naturals

CONSTANT Callers

VARIABLE call

States == [tries    : 0..2,       \* attempts made
           flight   : 0..2,       \* of them, those that may yet be executed
           executed : 0..2,
           unsure   : BOOLEAN,    \* was there one whose answer never came?
           answer   : {"none", "ok", "refused", "failed"}]

Init == call = [k \in Callers |-> [tries |-> 0, flight |-> 0, executed |-> 0,
                                   unsure |-> FALSE, answer |-> "none"]]

\* What a call can do: c is its state before, d after the step.

Open(c) == c.answer = "none"

\* A call that has no answer yet can still be tried again.
Unanswered(d) == d.answer = "none" /\ d.tries < 2

\* Nothing is waited for, and the call is free to try.
Free(c) == Open(c) /\ c.tries < 2 /\ (c.flight = 0 \/ c.unsure)

Try(c, d) ==
    /\ Free(c)
    /\ d.tries = c.tries + 1 /\ d.flight = c.flight + 1
    /\ d.executed = c.executed /\ d.unsure = c.unsure /\ Open(d)

\* The connection turns out to be dead.
TryInVain(c, d) ==
    /\ Free(c)
    /\ d.tries = c.tries + 1 /\ d.flight = c.flight
    /\ d.executed = c.executed /\ d.unsure
    /\ d.answer = "failed" \/ Unanswered(d)

\* There is nothing to try it on.
GiveUp(c, d) ==
    /\ Free(c)
    /\ d.tries = c.tries /\ d.flight = c.flight
    /\ d.executed = c.executed /\ d.unsure = c.unsure
    /\ d.answer = "failed"

Succeed(c, d) ==
    /\ Open(c)
    /\ d.tries = c.tries /\ d.flight < c.flight
    /\ d.executed = c.executed + 1 /\ d.unsure = c.unsure
    /\ d.answer = "ok"

\* The server says no, and the call takes it for an answer or tries again.
Refuse(c, d) ==
    /\ Open(c)
    /\ d.tries = c.tries /\ d.flight < c.flight
    /\ d.executed = c.executed /\ d.unsure = c.unsure
    /\ d.answer = "refused" \/ Unanswered(d)

\* Of the tries in flight, one may be executed and others may get lost.
Fewer(c, d) == /\ d.tries = c.tries
               /\ d.executed \in {c.executed, c.executed + 1}
               /\ d.flight + d.executed <= c.flight + c.executed
               /\ d.flight <= c.flight

\* The call stops waiting for its try, which may be executed, lost or under way.
Miss(c, d) ==
    /\ Open(c) /\ c.flight > 0
    /\ Fewer(c, d) /\ d.unsure
    /\ d.answer = "failed" \/ Unanswered(d)

\* A try that nobody waits for any more is executed, refused or lost.
Late(c, d) ==
    /\ c.unsure
    /\ Fewer(c, d) /\ d.unsure
    /\ d.answer = c.answer

Step(c, d) == \/ Try(c, d) \/ TryInVain(c, d) \/ GiveUp(c, d)
              \/ Succeed(c, d) \/ Refuse(c, d) \/ Miss(c, d) \/ Late(c, d)

Next == /\ call' \in [Callers -> States]
        /\ \A k \in Callers : call'[k] = call[k] \/ Step(call[k], call'[k])

Spec == Init /\ [][Next]_call
=============================================================================
