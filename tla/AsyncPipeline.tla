---------------------------- MODULE AsyncPipeline ----------------------------
(***************************************************************************)
(* AsyncPipeline and atransaction_helper (facade/pipeline.rs).  Every       *)
(* a...() method spawns a tokio task that takes the reserved connection out *)
(* of the pipeline, makes its round trip and puts the connection back; the  *)
(* lock on the state is not held in between.  The program, one asyncio      *)
(* task, awaits one call at a time, but it may give up waiting (wait_for,   *)
(* Task.cancel), and then the call is still in flight when it goes on.      *)
(*                                                                          *)
(* The server's data is one key, represented by its version.  aget_immediate*)
(* and aset_immediate are the two immediate commands, get() and set() stand *)
(* for the buffered ones; the buffered commands are always buffered.  A     *)
(* call left over from an earlier attempt of atransaction acts on the       *)
(* pipeline of that attempt and is forgotten: a write it still makes is one *)
(* of OtherWrite's.  func leaves aexecute() to the helper.                  *)
(***************************************************************************)
EXTENDS Naturals, ReservedConnection

CONSTANTS Slots,      \* bound on the calls in flight
          MaxCalls,   \* bound on the calls one run of the function makes
          MaxBare,    \* bound on the writes made outside any MULTI/EXEC block
          NoRead,     \* the program has not read the key under a watch
          None

ASSUME AsyncPipelineAssumption == /\ MaxCalls \in Nat /\ MaxBare \in Nat
                                  /\ NoRead \notin Nat
                                  /\ Slots # {}
                                  /\ None \notin Connections \cup Slots

VARIABLES ver,       \* version of the key on the server
          bare,      \* writes made outside any block
          st,        \* the rest of PipelineState
          reserved,  \* its reserved connection, None while it is taken
          call,      \* the tokio tasks of the calls in flight
          awaiting,  \* the call the program awaits
          pc,        \* where atransaction_helper is
          calls,     \* calls the function has made in this attempt
          counts,    \* does the program count on a watch it has set?
          seen,      \* version aget_immediate returned while counting on it
          applied,   \* blocks with a write that the server applied
          gaveUp     \* "no"; "yes", a call was given up; "overlapped", another
                     \* call than aclose() was made with it still in flight

vars == <<ver, bare, st, reserved, call, awaiting, pc, calls, counts, seen, applied, gaveUp>>
serverVars == <<ver, bare, applied>>
progVars == <<awaiting, pc, calls, counts, seen, gaveUp>>

NewState == [commands |-> {}, keys |-> FALSE, explicit |-> FALSE,
             watching |-> FALSE, closed |-> FALSE]

\* conn: the taken connection; snap: what aexecute copied of the state; read:
\* the version a GET returned; reply: what the awaitable is answered.
NoCall == [op |-> "none", at |-> "idle", keyed |-> FALSE, conn |-> None,
           snap |-> NewState, read |-> 0, reply |-> "ok"]

Init == /\ ver = 0 /\ bare = 0 /\ applied = 0
        /\ st = NewState /\ reserved = None
        /\ call = [s \in Slots |-> NoCall]
        /\ awaiting = None
        /\ pc = "start"
        /\ calls = 0
        /\ counts = FALSE /\ seen = NoRead
        /\ gaveUp = "no"
-----------------------------------------------------------------------------
(* Steps of the spawned tasks. *)

At(s, ops, at) == call[s].op \in ops /\ call[s].at = at

Goto(s, at) == call' = [call EXCEPT ![s].at = at]

\* The task ends; an answer nobody awaits goes nowhere.
Ends(s, reply) ==
    call' = [call EXCEPT ![s] = IF awaiting = s
                                THEN [NoCall EXCEPT !.op = call[s].op, !.at = "done",
                                                    !.keyed = call[s].keyed,
                                                    !.read = call[s].read, !.reply = reply]
                                ELSE NoCall]

AwatchChecks(s) ==
    /\ At(s, {"awatch"}, "check")
    /\ IF st.closed \/ st.explicit THEN Ends(s, "error")
       ELSE Goto(s, IF reserved = None THEN "reserve" ELSE "take")
    /\ UNCHANGED <<serverVars, st, reserved, progVars>>

\* The new connection replaces whatever the state has by now.
AwatchReserves(s) ==
    /\ At(s, {"awatch"}, "reserve")
    /\ \/ reserved' = NewConnection /\ Goto(s, "take")
       \/ Ends(s, "error") /\ UNCHANGED reserved
    /\ UNCHANGED <<serverVars, st, progVars>>

\* Only awatch expects to find a connection, and panics without one.
Takes(s) ==
    /\ At(s, {"awatch", "aunwatch", "adiscard", "aget", "aset"}, "take")
    /\ IF call[s].op = "awatch" /\ reserved = None
       THEN Ends(s, "panic")
       ELSE call' = [call EXCEPT ![s].conn = reserved, ![s].at = "trip"]
    /\ reserved' = None
    /\ UNCHANGED <<serverVars, st, progVars>>

\* The round trip gives the connection c and the answer r.
Trip(s, c, r) == call' = [call EXCEPT ![s].conn = c, ![s].reply = r, ![s].at = "back"]

Answer(o) == IF o = "ok" THEN "ok" ELSE "error"

AwatchSends(s, o) ==
    /\ At(s, {"awatch"}, "trip")
    /\ IF call[s].keyed THEN Trip(s, WatchSent(call[s].conn, o), Answer(o))
       ELSE o = "ok" /\ Trip(s, call[s].conn, "ok")
    /\ UNCHANGED <<serverVars, st, reserved, progVars>>

\* adiscard ignores the answer.
UnwatchSends(s, o) ==
    /\ At(s, {"aunwatch", "adiscard"}, "trip")
    /\ IF call[s].conn # None /\ call[s].conn.watched
       THEN Trip(s, Unwatched(call[s].conn, o),
                 IF call[s].op = "aunwatch" THEN Answer(o) ELSE "ok")
       ELSE o = "ok" /\ Trip(s, call[s].conn, "ok")
    /\ UNCHANGED <<serverVars, st, reserved, progVars>>

NoReservation(s) == /\ At(s, {"aget", "aset"}, "trip")
                    /\ call[s].conn = None
                    /\ Trip(s, None, "error")
                    /\ UNCHANGED <<serverVars, st, reserved, progVars>>

AgetSends(s, o) ==
    /\ At(s, {"aget"}, "trip") /\ call[s].conn # None
    /\ call' = [call EXCEPT ![s].read = ver, ![s].reply = Answer(o), ![s].at = "back"]
    /\ UNCHANGED <<serverVars, st, reserved, progVars>>

DirtiedIf(c) == IF c = None THEN None ELSE Dirtied(c)

\* A write to the key: every connection that watches it is marked.
Touch == /\ ver' = ver + 1
         /\ reserved' = DirtiedIf(reserved)

BareWrite == /\ bare < MaxBare
             /\ bare' = bare + 1
             /\ Touch
             /\ UNCHANGED applied

Touched(c) == [s \in Slots |-> [c[s] EXCEPT !.conn = DirtiedIf(@)]]

AsetSends(s, o) ==
    /\ At(s, {"aset"}, "trip") /\ call[s].conn # None
    /\ IF o = "refused"
       THEN Trip(s, call[s].conn, "error") /\ UNCHANGED <<serverVars, reserved>>
       ELSE /\ BareWrite
            /\ call' = [Touched(call) EXCEPT ![s].reply = Answer(o), ![s].at = "back"]
    /\ UNCHANGED <<st, progVars>>

\* Mutant: a failed round trip returns before the connection is put back.
PutsBackOnSuccess(s) ==
    /\ call[s].at = "back"
    /\ reserved' = IF call[s].reply = "ok" THEN call[s].conn ELSE reserved
    /\ st' = CASE call[s].op = "aunwatch" -> [st EXCEPT !.keys = FALSE, !.watching = FALSE]
               [] call[s].op = "adiscard" -> [NewState EXCEPT !.closed = st.closed]
               [] OTHER -> st
    /\ IF call[s].op = "awatch" /\ call[s].reply = "ok"
       THEN call' = [call EXCEPT ![s].conn = None, ![s].at = "note"]
       ELSE Ends(s, call[s].reply)
    /\ UNCHANGED <<serverVars, progVars>>

\* The connection, or None, is put back over whatever is there; aunwatch and
\* adiscard clear the state in the same step, whether UNWATCH worked or not.
PutsBack(s) ==
    /\ call[s].at = "back"
    /\ reserved' = call[s].conn
    /\ st' = CASE call[s].op = "aunwatch" -> [st EXCEPT !.keys = FALSE, !.watching = FALSE]
               [] call[s].op = "adiscard" -> [NewState EXCEPT !.closed = st.closed]
               [] OTHER -> st
    /\ IF call[s].op = "awatch" /\ call[s].reply = "ok"
       THEN call' = [call EXCEPT ![s].conn = None, ![s].at = "note"]
       ELSE Ends(s, call[s].reply)
    /\ UNCHANGED <<serverVars, progVars>>

AwatchNotes(s) == /\ At(s, {"awatch"}, "note")
                  /\ st' = [st EXCEPT !.watching = TRUE, !.keys = @ \/ call[s].keyed]
                  /\ Ends(s, "ok")
                  /\ UNCHANGED <<serverVars, reserved, progVars>>
-----------------------------------------------------------------------------
(* aexecute and aclose. *)

AexecuteCopies(s) ==
    /\ At(s, {"aexecute"}, "copy")
    /\ IF st.closed THEN Ends(s, "error")
       ELSE IF st.commands = {} /\ ~st.watching /\ ~st.explicit THEN Ends(s, "ok")
       ELSE call' = [call EXCEPT ![s].snap = st, ![s].at = "look"]
    /\ UNCHANGED <<serverVars, st, reserved, progVars>>

AexecuteLooks(s) ==
    /\ At(s, {"aexecute"}, "look")
    /\ Goto(s, IF call[s].snap.watching \/ (call[s].snap.explicit /\ reserved # None)
               THEN "take" ELSE "plain")
    /\ UNCHANGED <<serverVars, st, reserved, progVars>>

AexecuteTakes(s) ==
    /\ At(s, {"aexecute"}, "take")
    /\ call' = [call EXCEPT ![s].conn = reserved, ![s].at = "exec"]
    /\ reserved' = None
    /\ UNCHANGED <<serverVars, st, progVars>>

\* The server applies the block of s; c is the connection s is left with.
Applies(s, c, o, at) ==
    LET cmds == call[s].snap.commands
        writes == "SET" \in cmds
    IN /\ ver' = IF writes THEN ver + 1 ELSE ver
       /\ applied' = IF writes THEN applied + 1 ELSE applied
       /\ reserved' = IF writes THEN DirtiedIf(reserved) ELSE reserved
       /\ call' = [(IF writes THEN Touched(call) ELSE call)
                     EXCEPT ![s].conn = c, ![s].reply = Answer(o), ![s].at = at]

Unapplied(s, r, at) ==
    /\ call' = [call EXCEPT ![s].conn = IF @ = None THEN None ELSE NewConnection,
                            ![s].reply = r, ![s].at = at]
    /\ UNCHANGED <<ver, applied, reserved>>

\* Mutant: EXEC's Nil reply is not told apart from success.
ExecSendsIgnoringNil(s, o) ==
    /\ At(s, {"aexecute"}, "exec")
    /\ IF call[s].conn = None \/ o = "refused" THEN Unapplied(s, "error", "clear")
       ELSE Applies(s, NewConnection, o, "clear")
    /\ UNCHANGED <<bare, st, progVars>>

\* pipeline_exec_watched.  An empty block makes no round trip.
ExecSends(s, o) ==
    /\ At(s, {"aexecute"}, "exec")
    /\ LET c == call[s].conn
           cmds == call[s].snap.commands
       IN \/ /\ c = None \/ (cmds # {} /\ o = "refused")
             /\ Unapplied(s, "error", "clear")
          \/ /\ c # None /\ cmds = {} /\ o = "ok"
             /\ Unapplied(s, "ok", "clear")
          \/ /\ c # None /\ cmds # {} /\ o # "refused"
             /\ IF ExecWatch(call[s].snap.keys, c) = "dirty"
                THEN Unapplied(s, IF o = "ok" THEN "abort" ELSE "error", "clear")
                ELSE Applies(s, NewConnection, o, "clear")
    /\ UNCHANGED <<bare, st, progVars>>

\* pipeline_exec on the shared connection.
PlainSends(s, o) ==
    /\ At(s, {"aexecute"}, "plain")
    /\ IF o = "refused" \/ call[s].snap.commands = {}
       THEN Unapplied(s, IF call[s].snap.commands = {} THEN "ok" ELSE "error", "clearPlain")
       ELSE Applies(s, None, o, "clearPlain")
    /\ UNCHANGED <<bare, st, progVars>>

\* Commands buffered since the copy was made go too.
AexecuteClears(s) ==
    /\ \/ /\ At(s, {"aexecute"}, "clear")
          /\ st' = [NewState EXCEPT !.closed = st.closed]
          /\ reserved' = None
       \/ /\ At(s, {"aexecute"}, "clearPlain")
          /\ st' = [st EXCEPT !.commands = {}, !.explicit = FALSE]
          /\ UNCHANGED reserved
    /\ Ends(s, call[s].reply)
    /\ UNCHANGED <<serverVars, progVars>>

\* Mutant: aclose() leaves the connection in the state.
AcloseKeeps(s) == /\ At(s, {"aclose"}, "close")
                  /\ st' = [NewState EXCEPT !.closed = TRUE]
                  /\ Goto(s, "unwatch")
                  /\ UNCHANGED <<serverVars, reserved, progVars>>

\* aclose(), also as reset() and __aexit__.
AcloseTakes(s) == /\ At(s, {"aclose"}, "close")
                  /\ st' = [NewState EXCEPT !.closed = TRUE]
                  /\ call' = [call EXCEPT ![s].conn = reserved, ![s].at = "unwatch"]
                  /\ reserved' = None
                  /\ UNCHANGED <<serverVars, progVars>>

\* The answer to UNWATCH is ignored and the connection dropped.
AcloseEnds(s) == /\ At(s, {"aclose"}, "unwatch")
                 /\ Ends(s, "ok")
                 /\ UNCHANGED <<serverVars, st, reserved, progVars>>

TaskStep(s) == \/ AwatchChecks(s) \/ AwatchReserves(s) \/ AwatchNotes(s)
               \/ Takes(s) \/ PutsBack(s) \/ NoReservation(s)
               \/ \E o \in Trips : \/ AwatchSends(s, o) \/ UnwatchSends(s, o)
                                   \/ AgetSends(s, o) \/ AsetSends(s, o)
                                   \/ ExecSends(s, o) \/ PlainSends(s, o)
               \/ AexecuteCopies(s) \/ AexecuteLooks(s) \/ AexecuteTakes(s)
               \/ AexecuteClears(s)
               \/ AcloseTakes(s) \/ AcloseEnds(s)
-----------------------------------------------------------------------------
(* The program: atransaction_helper and the user's function. *)

InFlight == {s \in Slots : call[s].op # "none"}

First == [awatch |-> "check", aunwatch |-> "take", adiscard |-> "take", aget |-> "take",
          aset |-> "take", aexecute |-> "copy", aclose |-> "close"]

\* Calls a method: its task is spawned and the program waits for the answer.
\* Which of the idle slots it gets makes no difference.
Spawn(s, op, keyed) ==
    /\ awaiting = None
    /\ InFlight # Slots
    /\ s = CHOOSE u \in Slots : u \notin InFlight
    /\ call' = [call EXCEPT ![s] = [NoCall EXCEPT !.op = op, !.at = First[op], !.keyed = keyed]]
    /\ awaiting' = s
    /\ gaveUp' = IF InFlight # {} /\ op # "aclose" THEN "overlapped" ELSE gaveUp
    /\ counts' = (counts /\ op \notin {"aunwatch", "adiscard", "aclose", "aexecute"})
    /\ seen' = IF op \in {"aunwatch", "adiscard"} THEN NoRead ELSE seen

\* A fresh pipeline, and awatch() if the caller named keys to watch.
Attempt(s) ==
    /\ pc = "start"
    /\ \/ pc' = "watch" /\ Spawn(s, "awatch", TRUE)
       \/ pc' = "func" /\ UNCHANGED <<call, awaiting, gaveUp, counts, seen>>
    /\ calls' = 0
    /\ UNCHANGED <<serverVars, st, reserved>>

FuncCalls(s) ==
    /\ pc = "func" /\ calls < MaxCalls
    /\ calls' = calls + 1
    /\ \/ \E keyed \in BOOLEAN : Spawn(s, "awatch", keyed)
       \/ \E op \in {"aunwatch", "adiscard", "aget", "aset", "aclose"} : Spawn(s, op, FALSE)
    /\ UNCHANGED <<serverVars, st, reserved, pc>>

FuncBuffers(cmd) ==
    /\ pc = "func" /\ awaiting = None /\ calls < MaxCalls
    /\ calls' = calls + 1
    /\ ~st.closed
    /\ st' = [st EXCEPT !.commands = @ \cup {cmd}]
    /\ UNCHANGED <<serverVars, reserved, call, awaiting, pc, counts, seen, gaveUp>>

Multi == /\ pc = "func" /\ awaiting = None /\ calls < MaxCalls
         /\ calls' = calls + 1
         /\ ~st.closed /\ ~st.explicit
         /\ st.commands = {} \/ st.watching
         /\ st' = [st EXCEPT !.explicit = TRUE]
         /\ UNCHANGED <<serverVars, reserved, call, awaiting, pc, counts, seen, gaveUp>>

FuncReturns(s) == /\ pc = "func"
                  /\ pc' = "execute" /\ Spawn(s, "aexecute", FALSE)
                  /\ UNCHANGED <<serverVars, st, reserved, calls>>

FuncRaises == /\ pc = "func" /\ awaiting = None
              /\ pc' = "failed"
              /\ UNCHANGED <<serverVars, st, reserved, call, awaiting, calls, counts, seen,
                             gaveUp>>

\* The finally clause.
Closes(s) == /\ pc \in {"committed", "aborted", "failed"}
             /\ Spawn(s, "aclose", FALSE)
             /\ UNCHANGED <<serverVars, st, reserved, pc, calls>>

\* The sleep of watch_delay is cancelled.
DelayCancelled == /\ pc = "aborted" /\ awaiting = None
                  /\ pc' = "failed"
                  /\ UNCHANGED <<serverVars, st, reserved, call, awaiting, calls, counts, seen,
                                 gaveUp>>

\* Mutant: any error starts another attempt.
AfterCloseRetryingAll == IF pc = "committed" THEN "returned" ELSE "start"

\* After the finally clause; only WatchError goes round again.
AfterClose == CASE pc = "committed" -> "returned"
                [] pc = "failed" -> "raised"
                [] pc = "aborted" -> "start"

\* The awaited call is answered.
Resumes(s) ==
    /\ awaiting = s /\ call[s].at = "done"
    /\ awaiting' = None
    /\ counts' = (counts \/ (call[s].op = "awatch" /\ call[s].keyed /\ call[s].reply = "ok"))
    /\ pc' = CASE pc = "watch" -> IF call[s].reply = "ok" THEN "func" ELSE "failed"
               [] pc = "func" -> "func"
               [] pc = "execute" -> IF call[s].reply = "ok" THEN "committed"
                                    ELSE IF call[s].reply = "abort" THEN "aborted" ELSE "failed"
               [] OTHER -> AfterClose
    /\ IF pc' = "start"
       THEN /\ call' = [u \in Slots |-> NoCall]
            /\ st' = NewState /\ reserved' = None
            /\ gaveUp' = "no" /\ seen' = NoRead
       ELSE /\ call' = [call EXCEPT ![s] = NoCall]
            /\ seen' = IF call[s].op = "aget" /\ call[s].reply = "ok" /\ counts
                       THEN call[s].read ELSE seen
            /\ UNCHANGED <<st, reserved, gaveUp>>
    /\ UNCHANGED <<serverVars, calls>>

\* A timeout or a cancellation ends the await and not the call.  Outside func,
\* which may catch it, the helper goes to its finally clause, or out of it.
GivesUp(s) ==
    /\ awaiting = s /\ call[s].at # "done"
    /\ awaiting' = None
    /\ gaveUp' = IF gaveUp = "no" THEN "yes" ELSE gaveUp
    /\ \/ pc = "func" /\ UNCHANGED pc
       \/ pc \in {"func", "watch", "execute"} /\ pc' = "failed"
       \/ pc \in {"committed", "aborted", "failed"} /\ pc' = "raised"
    /\ UNCHANGED <<serverVars, st, reserved, call, calls, counts, seen>>

OtherWrite == /\ BareWrite
              /\ call' = Touched(call)
              /\ UNCHANGED <<st, progVars>>

Program(s) == \/ Attempt(s) \/ FuncCalls(s) \/ FuncReturns(s) \/ Closes(s)
              \/ Resumes(s) \/ GivesUp(s)

Next == \/ OtherWrite
        \/ \E cmd \in {"GET", "SET"} : FuncBuffers(cmd)
        \/ Multi
        \/ FuncRaises \/ DelayCancelled
        \/ \E s \in Slots : TaskStep(s) \/ Program(s)

Spec == Init /\ [][Next]_vars

\* Tokio runs the spawned tasks (they are finitely many, so it is enough that it
\* runs some), the server answers or the connection fails, the loop runs the
\* program and the user's function returns.
Fairness == /\ WF_vars(\E s \in Slots : TaskStep(s))
            /\ WF_vars(\E s \in Slots : Resumes(s))
            /\ WF_vars(\E s \in Slots : Attempt(s) \/ FuncReturns(s) \/ Closes(s))

FairSpec == Spec /\ Fairness
-----------------------------------------------------------------------------
(* Properties. *)

Ops == {"none", "awatch", "aunwatch", "adiscard", "aget", "aset", "aexecute", "aclose"}

States == [commands : SUBSET {"GET", "SET"}, keys : BOOLEAN, explicit : BOOLEAN,
           watching : BOOLEAN, closed : BOOLEAN]

TypeOK == /\ ver \in Nat /\ bare \in Nat /\ applied \in Nat
          /\ st \in States
          /\ reserved \in Connections \cup {None}
          /\ call \in [Slots -> [op : Ops,
                                 at : {"idle", "check", "reserve", "take", "trip", "back", "note",
                                       "copy", "look", "exec", "clear", "plain", "clearPlain",
                                       "close", "unwatch", "done"},
                                 keyed : BOOLEAN, conn : Connections \cup {None},
                                 snap : States, read : Nat,
                                 reply : {"ok", "error", "abort", "panic"}]]
          /\ awaiting \in Slots \cup {None}
          /\ pc \in {"start", "watch", "func", "execute", "committed", "aborted", "failed",
                     "returned", "raised"}
          /\ calls \in Nat
          /\ counts \in BOOLEAN
          /\ seen \in Nat \cup {NoRead}
          /\ gaveUp \in {"no", "yes", "overlapped"}

InHand == ({reserved} \cup {call[s].conn : s \in Slots}) \ {None}

(* A program that watched the key, and did not ask for the watch to end, has   *)
(* it still: on the connection in the state or on the one a call in flight     *)
(* has taken.  And what it read is current while that watch is clean.  It      *)
(* holds through calls that were given up, as long as no further call but      *)
(* aclose() was made with one still in flight.                                 *)
ReadIsProtected ==
    gaveUp # "overlapped" =>
       /\ counts => st.watching /\ \E c \in InHand : c.watched /\ c.srv # "none"
       /\ seen # NoRead => \A c \in InHand : c.srv = "clean" => seen = ver

(* A block built on a read is applied only to the version that was read, also  *)
(* when its aexecute() was given up before it was sent.                        *)
AppliedToWhatWasRead ==
    [][applied' > applied /\ seen # NoRead /\ gaveUp # "overlapped" => seen = ver]_vars

(* However often atransaction tries and whatever is given up, the server       *)
(* applies a block of it at most once.                                         *)
AppliedAtMostOnce == /\ applied <= 1
                     /\ pc \in {"start", "watch", "func", "aborted"} => applied = 0

\* An aexecute() that goes by its copy of the state, one that is not decided
\* yet, and one that is.
Copied(s) == call[s].op = "aexecute" /\ call[s].at \in {"look", "take", "exec", "plain"}

Undecided(s) == At(s, {"aexecute"}, "copy") \/ Copied(s)

Decided(s) == call[s].op = "aexecute" /\ call[s].at \in {"clear", "clearPlain", "done"}

\* The call of atransaction as an atomic update: open until the server has
\* answered its aexecute() with anything but Nil.
Status ==
    CASE pc \in {"committed", "returned"} -> "succeeded"
      [] pc \in {"failed", "raised"} -> IF \E s \in Slots : Undecided(s) THEN "abandoned"
                                       ELSE "failed"
      [] pc = "execute" /\ (\E s \in Slots : Decided(s) /\ call[s].reply = "ok") -> "succeeded"
      [] pc = "execute" /\ (\E s \in Slots : Decided(s) /\ call[s].reply = "error") -> "failed"
      [] OTHER -> "trying"

IsOpen == Status \in {"trying", "abandoned"}

Writes == /\ IsOpen
          /\ IF \E s \in Slots : Copied(s)
             THEN \E s \in Slots : Copied(s) /\ "SET" \in call[s].snap.commands
             ELSE "SET" \in st.commands

RestsOn == IF IsOpen /\ gaveUp # "overlapped" THEN seen ELSE NoRead

Update == INSTANCE AtomicUpdate WITH
    Updaters <- {"program"}, version <- ver,
    applied <- [u \in {"program"} |-> applied],
    status <- [u \in {"program"} |-> Status],
    writes <- [u \in {"program"} |-> Writes],
    read   <- [u \in {"program"} |-> RestsOn]

(* atransaction is one atomic update, as transaction() is, also when the       *)
(* program gives up waiting: an aexecute() it no longer waits for still        *)
(* applies its block at most once, to the version that was read, or not at     *)
(* all.  With calls that overlapped, only that it rests on a read is lost.     *)
ImplementsUpdate == Update!Spec

(* When nothing was given up, atransaction leaves no reserved connection       *)
(* behind, whether it returns or raises.                                       *)
ConnectionReleased == pc \in {"returned", "raised"} /\ gaveUp = "no" => InHand = {}

(* atransaction does not try for ever.                                         *)
AtransactionEnds == pc = "func" ~> pc \in {"returned", "raised"}

(* "reserved must be present": awatch finds the connection that it saw or      *)
(* reserved, and does not panic.                                               *)
ReservedPresent == [][\A s \in Slots : At(s, {"awatch"}, "take") /\ call'[s].at # "take"
                                         => reserved # None]_vars
=============================================================================
