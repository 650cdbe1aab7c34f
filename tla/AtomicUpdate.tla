---------------------------- MODULE AtomicUpdate -----------------------------
(***************************************************************************)
(* What transaction() and atransaction() promise each caller: however often *)
(* they try, one attempt to write the key is decided, it is applied whole   *)
(* or not at all, and if it rests on a read it is applied to the version    *)
(* that was read.  Success means that the block was applied; an error does  *)
(* not say whether it was.  A caller that goes away while the block is under*)
(* way has given up knowing, not the promise: the block still ends, once.   *)
(***************************************************************************)
EXTENDS Naturals

CONSTANTS Updaters,   \* the calls
          NoRead      \* the update rests on no read

VARIABLES version,    \* of the key
          status,     \* "trying", "abandoned", "succeeded" or "failed"
          writes,     \* does the block as it stands write the key?
          read,       \* the version it rests on, NoRead if it rests on none
          applied     \* blocks of the call that were applied

vars == <<version, status, writes, read, applied>>

Init == /\ version = 0
        /\ status = [u \in Updaters |-> "trying"]
        /\ writes = [u \in Updaters |-> FALSE]
        /\ read = [u \in Updaters |-> NoRead]
        /\ applied = [u \in Updaters |-> 0]

Open(u) == status[u] \in {"trying", "abandoned"}

\* The key is written outside any update.
Write == /\ version' = version + 1
         /\ UNCHANGED <<status, writes, read, applied>>

\* The caller builds its block, reads the key, forgets what it read or starts
\* again.  What it reads may be out of date by the time it has it.
Prepare(u) ==
    /\ Open(u)
    /\ \E b \in BOOLEAN : writes' = [writes EXCEPT ![u] = b]
    /\ \E r \in (0..version) \cup {NoRead} : read' = [read EXCEPT ![u] = r]
    /\ UNCHANGED <<version, status, applied>>

Ends(u, outcome) ==
    /\ Open(u)
    /\ status[u] = "abandoned" => outcome = "failed"
    /\ status' = [status EXCEPT ![u] = outcome]
    /\ writes' = [writes EXCEPT ![u] = FALSE]
    /\ read' = [read EXCEPT ![u] = NoRead]

\* The block is applied.  The answer may be lost.
Apply(u) ==
    /\ writes[u]
    /\ read[u] \in {NoRead, version}
    /\ applied[u] = 0
    /\ version' = version + 1
    /\ applied' = [applied EXCEPT ![u] = 1]
    /\ Ends(u, "succeeded") \/ Ends(u, "failed")

\* It is not applied: only a block that does not write can succeed.
Settle(u) ==
    /\ Ends(u, "failed") \/ (~writes[u] /\ Ends(u, "succeeded"))
    /\ UNCHANGED <<version, applied>>

\* The caller goes away while its block is under way.
Abandon(u) == /\ status[u] = "trying"
              /\ status' = [status EXCEPT ![u] = "abandoned"]
              /\ UNCHANGED <<version, writes, read, applied>>

\* It goes away after the block has succeeded, and gets an error instead.
Cancel(u) == /\ status[u] = "succeeded"
             /\ status' = [status EXCEPT ![u] = "failed"]
             /\ UNCHANGED <<version, writes, read, applied>>

Next == \/ Write
        \/ \E u \in Updaters : Prepare(u) \/ Apply(u) \/ Settle(u) \/ Abandon(u) \/ Cancel(u)

Spec == Init /\ [][Next]_vars
=============================================================================
