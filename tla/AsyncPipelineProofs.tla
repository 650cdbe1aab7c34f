------------------------- MODULE AsyncPipelineProofs -------------------------
(***************************************************************************)
(* Theorems about AsyncPipeline, for any number of calls in flight and any  *)
(* bounds.  The invariants that follow are the parts of one induction:      *)
(*   Shape     the stages a call of each method goes through                *)
(*   Helper    what the program awaits where                                *)
(*   Blocks    how often a block can be applied                             *)
(*   Released  what holds while no call was given up                        *)
(*   Orderly   what holds while no call but aclose() was made with a call   *)
(*             that was given up still in flight                            *)
(* From it follow the invariants and, step by step, that atransaction is    *)
(* one atomic update (AtomicUpdate), whatever it gives up waiting for.      *)
(***************************************************************************)
EXTENDS AsyncPipeline, TLAPS

Op(s) == call[s].op

Stages == [none |-> {"idle"},
           awatch |-> {"check", "reserve", "take", "trip", "back", "note", "done"},
           aunwatch |-> {"take", "trip", "back", "done"},
           adiscard |-> {"take", "trip", "back", "done"},
           aget |-> {"take", "trip", "back", "done"},
           aset |-> {"take", "trip", "back", "done"},
           aexecute |-> {"copy", "look", "take", "exec", "plain", "clear", "clearPlain", "done"},
           aclose |-> {"close", "unwatch", "done"}]

(* A call holds a connection only between taking it and putting it back, and  *)
(* awatch does not get there without one.                                     *)
ShapeOf(s) ==
    /\ call[s].at \in Stages[Op(s)]
    /\ call[s].at \notin {"trip", "back", "exec", "clear", "unwatch"} => call[s].conn = None
    /\ Op(s) = "awatch" /\ call[s].at \in {"trip", "back"} => call[s].conn # None
    /\ call[s].at = "done" => awaiting = s

Shape == \A s \in Slots : ShapeOf(s)

Ending == {"aunwatch", "adiscard", "aclose", "aexecute"}

Helper ==
    /\ awaiting # None => Op(awaiting) # "none"
    /\ awaiting # None /\ Op(awaiting) \in Ending => ~counts
    /\ pc \in {"start", "returned", "raised"} => awaiting = None
    /\ pc = "watch" => awaiting # None /\ Op(awaiting) = "awatch"
    /\ pc = "func" /\ awaiting # None => Op(awaiting) # "aexecute"
    /\ pc = "execute" => awaiting # None /\ Op(awaiting) = "aexecute"
    /\ pc \in {"committed", "aborted", "failed"} /\ awaiting # None => Op(awaiting) = "aclose"
    /\ pc \in {"start", "watch"} => seen = NoRead

(* aexecute() is called once in an attempt and sends its block once, and an   *)
(* attempt is repeated only when that block was answered with Nil.            *)
Blocks ==
    /\ applied <= 1
    /\ pc \in {"start", "watch", "func", "aborted"} => applied = 0
    /\ pc \in {"start", "watch", "func", "committed", "aborted", "returned"} =>
          \A s \in Slots : Op(s) # "aexecute"
    /\ \A s, u \in Slots : Op(s) = "aexecute" /\ Op(u) = "aexecute" => s = u
    /\ \A s \in Slots : Op(s) = "aexecute" =>
          /\ call[s].at \in {"copy", "look", "take", "exec", "plain"} => applied = 0
          /\ call[s].at \in {"clear", "clearPlain", "done"} /\ call[s].reply = "abort"
                => applied = 0

Released ==
    gaveUp = "no" =>
       /\ \A s \in Slots : Op(s) # "none" => awaiting = s
       /\ \A s \in Slots : Op(s) = "aclose" /\ call[s].at \in {"unwatch", "done"}
             => reserved = None
       /\ pc \in {"returned", "raised"} => reserved = None

-----------------------------------------------------------------------------
(* The parts of Orderly. *)

Watches(c) == c # None /\ c.watched /\ c.srv # "none"

Clean(c) == c # None /\ c.srv = "clean"

HasClean == Clean(reserved) \/ \E s \in Slots : Clean(call[s].conn)

(* Only aclose() overlaps another call, and the state has no connection while *)
(* another call than aclose() reserves one or holds one.                      *)
Alone ==
    /\ \A s, u \in Slots : Op(s) \notin {"none", "aclose"} /\ Op(u) \notin {"none", "aclose"}
                             => s = u
    /\ awaiting # None /\ Op(awaiting) # "aclose" =>
          \A s \in Slots : Op(s) # "none" => s = awaiting
    /\ \A s \in Slots : Op(s) \notin {"none", "aclose"} /\
                          call[s].at \in {"reserve", "trip", "back", "exec"} => reserved = None

(* The program counts on a watch that the connection has, wherever it is.     *)
Counting ==
    /\ counts => /\ \A s \in Slots : Op(s) \notin Ending
                 /\ st.watching
                 /\ Watches(reserved) \/ \E s \in Slots : Watches(call[s].conn)
    /\ \A s \in Slots :
          awaiting = s /\ Op(s) = "awatch" /\ call[s].keyed =>
             /\ call[s].at = "note" => Watches(reserved)
             /\ call[s].reply = "ok" =>
                   /\ call[s].at = "back" => Watches(call[s].conn)
                   /\ call[s].at = "done" => Watches(reserved) /\ st.watching

(* What was read is remembered only while it counts or the pipeline closes,   *)
(* and is current while a watch is clean.                                     *)
Current ==
    /\ seen # NoRead /\ pc = "func" =>
          \/ counts
          \/ st.closed
          \/ \E s \in Slots : Op(s) = "aclose" /\ call[s].at = "close"
    /\ seen # NoRead /\ HasClean => seen = ver
    /\ \A s \in Slots : Op(s) = "aget" /\ call[s].at \in {"back", "done"}
                          /\ call[s].reply = "ok" /\ HasClean => call[s].read = ver

(* Once something was read, a further awatch() finds the watch that is there: *)
(* it does not start a new one that would be clean although the read is old.  *)
Rewatching(s) ==
    /\ call[s].at = "check" => st.closed \/ (reserved # None /\ reserved.srv # "none")
    /\ call[s].at # "reserve"
    /\ call[s].at = "take" => reserved = None \/ reserved.srv # "none"
    /\ call[s].at = "trip" => call[s].conn.srv # "none"

(* And aexecute() sends its block on that watch or not at all.                *)
Executing(s) ==
    /\ call[s].at = "copy" => st.closed \/ (st.watching /\ Watches(reserved))
    /\ call[s].at = "look" => call[s].snap.watching /\ (reserved = None \/ Watches(reserved))
    /\ call[s].at = "take" => reserved = None \/ Watches(reserved)
    /\ call[s].at = "exec" => call[s].conn = None \/ Watches(call[s].conn)
    /\ call[s].at \notin {"plain", "clearPlain"}

Remembering == seen # NoRead => \A s \in Slots : /\ Op(s) = "awatch" => Rewatching(s)
                                                 /\ Op(s) = "aexecute" => Executing(s)

Order == Alone /\ Counting /\ Current /\ Remembering

Orderly == gaveUp # "overlapped" => Order

IInv == TypeOK /\ Shape /\ Helper /\ Blocks /\ Released /\ Orderly

-----------------------------------------------------------------------------
(* Types, and what a step of a call leaves alone. *)

Replies == {"ok", "error", "abort", "panic"}

CallType == [op : Ops,
             at : {"idle", "check", "reserve", "take", "trip", "back", "note", "copy", "look",
                   "exec", "clear", "plain", "clearPlain", "close", "unwatch", "done"},
             keyed : BOOLEAN, conn : Connections \cup {None}, snap : States, read : Nat,
             reply : Replies]

Conns == Connections \cup {None}

(* The call in slot u is as it was, but that its watch may be dirty now.      *)
Same(u) == /\ call'[u].op = call[u].op /\ call'[u].at = call[u].at
           /\ call'[u].keyed = call[u].keyed /\ call'[u].snap = call[u].snap
           /\ call'[u].read = call[u].read /\ call'[u].reply = call[u].reply
           /\ call'[u].conn \in {call[u].conn, DirtiedIf(call[u].conn)}

Others(s) == \A u \in Slots \ {s} : Same(u)

LEMMA ConnFacts ==
  /\ None \notin Connections /\ None \notin Slots
  /\ NewConnection \in Connections /\ NewConnection.srv = "none" /\ ~NewConnection.watched
  /\ MaxCalls \in Nat /\ MaxBare \in Nat /\ NoRead \notin Nat
  BY AsyncPipelineAssumption DEF NewConnection, Connections

LEMMA DirtiedFacts ==
  ASSUME NEW c \in Conns
  PROVE  /\ DirtiedIf(c) \in Conns
         /\ DirtiedIf(c) = None <=> c = None
         /\ c # None => /\ c \in Connections /\ DirtiedIf(c) \in Connections
                        /\ DirtiedIf(c).watched = c.watched
                        /\ DirtiedIf(c).srv # "clean"
                        /\ DirtiedIf(c).srv = "none" <=> c.srv = "none"
  BY ConnFacts DEF DirtiedIf, Dirtied, Connections, Conns

LEMMA TripFacts ==
  ASSUME NEW c \in Connections, NEW o \in Trips
  PROVE  /\ WatchSent(c, o) \in Connections /\ Unwatched(c, o) \in Connections
         /\ c.watched \in BOOLEAN /\ c.srv \in {"none", "clean", "dirty"}
         /\ WatchSent(c, o).watched = (c.watched \/ o = "ok")
         /\ WatchSent(c, o).srv = (IF o = "refused" THEN c.srv ELSE Watched(c.srv))
         /\ Unwatched(c, o).srv \in {c.srv, "none"}
         /\ Answer(o) \in {"ok", "error"} /\ (Answer(o) = "ok" <=> o = "ok")
<1>1. Watched(c.srv) \in {"none", "clean", "dirty"}
  BY DEF Watched
<1> QED BY <1>1 DEF WatchSent, Unwatched, Connections, Answer, Trips

LEMMA TypeFacts ==
  ASSUME TypeOK
  PROVE  /\ call \in [Slots -> CallType] /\ reserved \in Conns /\ st \in States
         /\ \A s \in Slots : call[s] \in CallType /\ call[s].conn \in Conns
         /\ NoCall \in CallType /\ NewState \in States
<1>1. NewState \in States
  BY DEF NewState, States
<1>2. NoCall \in CallType
  BY <1>1 DEF NoCall, CallType, Ops, Replies
<1>3. call \in [Slots -> CallType] /\ reserved \in Conns /\ st \in States
  BY DEF TypeOK, CallType, Conns, Replies
<1> QED BY <1>1, <1>2, <1>3 DEF CallType, Conns

LEMMA TouchedFacts ==
  ASSUME TypeOK
  PROVE  /\ Touched(call) \in [Slots -> CallType]
         /\ \A u \in Slots : Touched(call)[u] = [call[u] EXCEPT !.conn = DirtiedIf(call[u].conn)]
<1>1. \A u \in Slots : call[u] \in CallType /\ DirtiedIf(call[u].conn) \in Conns
  BY TypeFacts, DirtiedFacts
<1>2. \A u \in Slots : [call[u] EXCEPT !.conn = DirtiedIf(call[u].conn)] \in CallType
  BY <1>1 DEF CallType, Conns
<1>3. Touched(call) = [u \in Slots |-> [call[u] EXCEPT !.conn = DirtiedIf(call[u].conn)]]
  BY DEF Touched
<1> QED BY <1>2, <1>3

(* The end of a call: it is answered to whoever waits, or forgotten.          *)
LEMMA EndsFacts ==
  ASSUME TypeOK, NEW s \in Slots, NEW r \in Replies, Ends(s, r)
  PROVE  /\ call' \in [Slots -> CallType]
         /\ \A u \in Slots \ {s} : call'[u] = call[u]
         /\ call'[s].conn = None
         /\ awaiting = s => /\ call'[s].op = call[s].op /\ call'[s].at = "done"
                            /\ call'[s].keyed = call[s].keyed /\ call'[s].read = call[s].read
                            /\ call'[s].reply = r
         /\ awaiting # s => call'[s] = NoCall /\ call'[s].op = "none" /\ call'[s].at = "idle"
<1> DEFINE new == IF awaiting = s THEN [NoCall EXCEPT !.op = call[s].op, !.at = "done",
                                        !.keyed = call[s].keyed,
                                        !.read = call[s].read, !.reply = r]
                                  ELSE NoCall
<1>1. call[s] \in CallType /\ NoCall \in CallType /\ call \in [Slots -> CallType]
  BY TypeFacts
<1>2. new \in CallType
  BY <1>1 DEF CallType
<1>3. call' = [call EXCEPT ![s] = new]
  BY DEF Ends
<1>4. call'[s] = new /\ call' \in [Slots -> CallType] /\ \A u \in Slots \ {s} : call'[u] = call[u]
  BY <1>1, <1>2, <1>3
<1>5. NoCall.conn = None /\ NoCall.op = "none" /\ NoCall.at = "idle"
  BY DEF NoCall
<1>6. new.conn = None
  BY <1>1, <1>5 DEF CallType
<1>7. awaiting = s => /\ new.op = call[s].op /\ new.at = "done"
                      /\ new.keyed = call[s].keyed /\ new.read = call[s].read
                      /\ new.reply = r
  BY <1>1 DEF CallType
<1> QED BY <1>4, <1>5, <1>6, <1>7

(* A step of the call in slot s that leaves the server alone.                 *)
Keeps(s) == /\ call' \in [Slots -> CallType]
            /\ \A u \in Slots \ {s} : call'[u] = call[u]

(* What all steps of the call in slot s have in common.                       *)
StepOf(s) == /\ TypeOK' /\ Others(s) /\ ShapeOf(s)'
             /\ UNCHANGED progVars
             /\ Op(s) # "none" /\ call[s].at # "done"
             /\ Op(s)' = Op(s) \/ (Op(s)' = "none" /\ awaiting # s)

LEMMA KeepsOthers == ASSUME TypeOK, NEW s \in Slots, Keeps(s) PROVE Others(s)
  BY DEF Keeps, Others, Same

LEMMA EndsStep ==
  ASSUME TypeOK, NEW s \in Slots, NEW r \in Replies, Ends(s, r), UNCHANGED progVars,
         Op(s) \in Ops \ {"none"}
  PROVE  /\ Keeps(s) /\ Others(s) /\ ShapeOf(s)'
         /\ Op(s)' = Op(s) \/ (Op(s)' = "none" /\ awaiting # s)
<1>1. Keeps(s)
  BY EndsFacts DEF Keeps
<1>2. awaiting' = awaiting
  BY DEF progVars
<1>3. CASE awaiting = s
  <2>1. Op(s)' = Op(s) /\ call'[s].at = "done" /\ call'[s].conn = None
    BY <1>3, EndsFacts DEF Op
  <2> QED BY <1>1, <1>2, <1>3, <2>1, KeepsOthers DEF ShapeOf, Stages, Ops, Op
<1>4. CASE awaiting # s
  <2>1. Op(s)' = "none" /\ call'[s].at = "idle" /\ call'[s].conn = None
    BY <1>4, EndsFacts DEF Op
  <2> QED BY <1>1, <1>2, <1>4, <2>1, KeepsOthers DEF ShapeOf, Stages, Ops, Op
<1> QED BY <1>3, <1>4

LEMMA TypeOfParts ==
  TypeOK <=> /\ ver \in Nat /\ bare \in Nat /\ applied \in Nat
             /\ st \in States /\ reserved \in Conns
             /\ call \in [Slots -> CallType]
             /\ awaiting \in Slots \cup {None}
             /\ pc \in {"start", "watch", "func", "execute", "committed", "aborted", "failed",
                        "returned", "raised"}
             /\ calls \in Nat /\ counts \in BOOLEAN /\ seen \in Nat \cup {NoRead}
             /\ gaveUp \in {"no", "yes", "overlapped"}
  BY DEF TypeOK, CallType, Conns, Replies

(* A step of slot s that changes nothing of the server and the program keeps  *)
(* the types if it keeps those of the pipeline and of the call.               *)
LEMMA StepTypes ==
  ASSUME TypeOK, UNCHANGED <<serverVars, progVars>>, st' \in States, reserved' \in Conns,
         call' \in [Slots -> CallType]
  PROVE  TypeOK'
  BY DEF TypeOK, CallType, Conns, Replies, serverVars, progVars

(* A step that moves the call in slot s on, with connection c in its hands.   *)
Moves(s, at, c) == /\ Keeps(s) /\ Op(s)' = Op(s)
                   /\ call'[s].at = at /\ call'[s].conn = c

LEMMA MovesStep ==
  ASSUME TypeOK, NEW s \in Slots, NEW at, NEW c, Moves(s, at, c), at # "done", awaiting' = awaiting,
         at \in Stages[Op(s)],
         at \notin {"trip", "back", "exec", "clear", "unwatch"} => c = None,
         Op(s) = "awatch" /\ at \in {"trip", "back"} => c # None
  PROVE  Others(s) /\ ShapeOf(s)'
  BY KeepsOthers DEF Moves, ShapeOf

\* The call goes on with connection c.
LEMMA ConnMoves ==
  ASSUME TypeOK, NEW s \in Slots, NEW c \in Conns, NEW at \in {"trip", "note", "exec", "unwatch"},
         call' = [call EXCEPT ![s].conn = c, ![s].at = at]
  PROVE  Moves(s, at, c) /\ call'[s].keyed = call[s].keyed
<1>1. call \in [Slots -> CallType] /\ call[s] \in CallType
  BY TypeFacts
<1>2. [call[s] EXCEPT !.conn = c, !.at = at] \in CallType
  BY <1>1 DEF CallType, Conns
<1>3. call' = [call EXCEPT ![s] = [call[s] EXCEPT !.conn = c, !.at = at]]
  BY <1>1 DEF CallType
<1> QED BY <1>1, <1>2, <1>3 DEF Moves, Keeps, Op, CallType

LEMMA TripMoves ==
  ASSUME TypeOK, NEW s \in Slots, NEW c \in Conns, NEW r \in Replies, Trip(s, c, r)
  PROVE  /\ Moves(s, "back", c)
         /\ call'[s].keyed = call[s].keyed /\ call'[s].read = call[s].read
         /\ call'[s].reply = r
<1>1. call \in [Slots -> CallType] /\ call[s] \in CallType
  BY TypeFacts
<1>2. [call[s] EXCEPT !.conn = c, !.reply = r, !.at = "back"] \in CallType
  BY <1>1 DEF CallType, Conns
<1>3. call' = [call EXCEPT ![s] = [call[s] EXCEPT !.conn = c, !.reply = r, !.at = "back"]]
  BY <1>1 DEF Trip, CallType
<1> QED BY <1>1, <1>2, <1>3 DEF Moves, Keeps, Op, CallType

LEMMA WatchSteps ==
  ASSUME TypeOK, Shape, NEW s \in Slots,
         AwatchChecks(s) \/ AwatchReserves(s) \/ AwatchNotes(s)
         \/ \E o \in Trips : AwatchSends(s, o)
  PROVE  StepOf(s)
<1> USE TypeFacts
<1>0. Op(s) = "awatch" /\ call[s].at \in {"check", "reserve", "note", "trip"}
  BY DEF AwatchChecks, AwatchReserves, AwatchNotes, AwatchSends, At, Op
<1>1. CASE AwatchChecks(s)
  <2>1. CASE Ends(s, "error")
    BY <1>0, <1>1, <2>1, EndsStep, StepTypes DEF AwatchChecks, StepOf, Keeps, Replies, Ops
  <2>2. CASE \E at \in {"reserve", "take"} : Goto(s, at)
    <3>1. PICK at \in {"reserve", "take"} : Goto(s, at)
      BY <2>2
    <3>2. Moves(s, at, call[s].conn)
      BY <3>1 DEF Goto, Moves, Keeps, CallType, Op
    <3>3. call[s].conn = None /\ awaiting' = awaiting
      BY <1>0, <1>1 DEF Shape, ShapeOf, AwatchChecks, At, progVars
    <3>4. Others(s) /\ ShapeOf(s)'
      BY <1>0, <3>2, <3>3, MovesStep DEF Stages
    <3> QED BY <1>0, <1>1, <3>2, <3>4, StepTypes DEF AwatchChecks, StepOf, Moves, Keeps
  <2> QED BY <1>1, <2>1, <2>2 DEF AwatchChecks
<1>2. CASE AwatchReserves(s)
  <2>1. CASE Ends(s, "error") /\ UNCHANGED reserved
    BY <1>0, <1>2, <2>1, EndsStep, StepTypes DEF AwatchReserves, StepOf, Keeps, Replies, Ops
  <2>2. CASE reserved' = NewConnection /\ Goto(s, "take")
    <3>2. Moves(s, "take", call[s].conn)
      BY <2>2 DEF Goto, Moves, Keeps, CallType, Op
    <3>3. call[s].conn = None /\ awaiting' = awaiting /\ reserved' \in Conns
      BY <1>0, <1>2, <2>2, ConnFacts DEF Shape, ShapeOf, AwatchReserves, At, progVars, Conns
    <3>4. Others(s) /\ ShapeOf(s)'
      BY <1>0, <3>2, <3>3, MovesStep DEF Stages
    <3> QED BY <1>0, <1>2, <3>2, <3>3, <3>4, StepTypes DEF AwatchReserves, StepOf, Moves, Keeps
  <2> QED BY <1>2, <2>1, <2>2 DEF AwatchReserves
<1>3. CASE AwatchNotes(s)
  <2>1. st' \in States
    BY <1>3 DEF AwatchNotes, States, CallType
  <2> QED BY <1>0, <1>3, <2>1, EndsStep, StepTypes DEF AwatchNotes, StepOf, Keeps, Replies, Ops
<1>4. ASSUME NEW o \in Trips, AwatchSends(s, o) PROVE StepOf(s)
  <2>0. call[s].conn \in Connections
    BY <1>0, <1>4 DEF Shape, ShapeOf, AwatchSends, At, CallType, Op
  <2>1. PICK c \in Connections, r \in {"ok", "error"} : Trip(s, c, r)
    BY <1>4, <2>0, TripFacts DEF AwatchSends
  <2>2. Moves(s, "back", c)
    BY <2>1, TripMoves DEF Conns, Replies
  <2>3. Others(s) /\ ShapeOf(s)'
    BY <1>0, <1>4, <2>2, ConnFacts, MovesStep DEF Stages, AwatchSends, progVars
  <2> QED BY <1>0, <1>4, <2>2, <2>3, StepTypes DEF AwatchSends, StepOf, Moves, Keeps
<1> QED BY <1>1, <1>2, <1>3, <1>4

LEMMA MovesParts ==
  ASSUME TypeOK, NEW s \in Slots, NEW at, NEW c, Moves(s, at, c), awaiting' = awaiting,
         UNCHANGED <<serverVars, progVars>>, st' \in States, reserved' \in Conns,
         at # "done", at \in Stages[Op(s)], Op(s) # "none", call[s].at # "done",
         at \notin {"trip", "back", "exec", "clear", "unwatch"} => c = None,
         Op(s) = "awatch" /\ at \in {"trip", "back"} => c # None
  PROVE  StepOf(s)
<1>1. Others(s) /\ ShapeOf(s)'
  BY MovesStep
<1>2. TypeOK'
  BY StepTypes DEF Moves, Keeps
<1> QED BY <1>1, <1>2 DEF StepOf, Moves

LEMMA TakesStep ==
  ASSUME TypeOK, Shape, NEW s \in Slots, Takes(s)
  PROVE  StepOf(s)
<1> USE TypeFacts
<1>0. Op(s) \in {"awatch", "aunwatch", "adiscard", "aget", "aset"} /\ call[s].at = "take"
  BY DEF Takes, At, Op
<1>1. reserved' = None /\ reserved' \in Conns /\ awaiting' = awaiting
      /\ UNCHANGED <<serverVars, st, progVars>>
  BY DEF Takes, Conns, progVars
<1>2. CASE Ends(s, "panic")
  BY <1>0, <1>1, <1>2, EndsStep, StepTypes DEF StepOf, Keeps, Replies, Ops
<1>3. CASE /\ call' = [call EXCEPT ![s].conn = reserved, ![s].at = "trip"]
           /\ Op(s) = "awatch" => reserved # None
  <2>1. Moves(s, "trip", reserved)
    BY <1>3, ConnMoves
  <2>2. "trip" \in Stages[Op(s)]
    BY <1>0 DEF Stages
  <2> QED BY <1>0, <1>1, <1>3, <2>1, <2>2, MovesParts
<1> QED BY <1>2, <1>3 DEF Takes, Op

LEMMA TripsStep ==
  ASSUME TypeOK, Shape, NEW s \in Slots,
         NoReservation(s) \/ \E o \in Trips : UnwatchSends(s, o) \/ AgetSends(s, o)
  PROVE  StepOf(s)
<1> USE TypeFacts
<1>0. Op(s) \in {"aunwatch", "adiscard", "aget", "aset"} /\ call[s].at = "trip"
      /\ UNCHANGED <<serverVars, st, reserved, progVars>>
  BY DEF NoReservation, UnwatchSends, AgetSends, At, Op
<1>1. "back" \in Stages[Op(s)]
  BY <1>0 DEF Stages
<1>2. ASSUME NEW c \in Conns, Moves(s, "back", c) PROVE StepOf(s)
  BY <1>0, <1>1, <1>2, MovesParts DEF progVars
<1>3. CASE NoReservation(s)
  <2>1. None \in Conns /\ "error" \in Replies
    BY DEF Conns, Replies
  <2> QED BY <1>2, <1>3, <2>1, TripMoves DEF NoReservation
<1>4. ASSUME NEW o \in Trips, UnwatchSends(s, o) PROVE StepOf(s)
  <2>1. PICK c \in Conns, r \in Replies : Trip(s, c, r)
    <3>1. CASE call[s].conn # None /\ call[s].conn.watched
      BY <1>4, <3>1, TripFacts DEF UnwatchSends, Conns, Replies
    <3>2. CASE ~(call[s].conn # None /\ call[s].conn.watched)
      BY <1>4, <3>2 DEF UnwatchSends, Replies
    <3> QED BY <3>1, <3>2
  <2> QED BY <1>2, <2>1, TripMoves
<1>5. ASSUME NEW o \in Trips, AgetSends(s, o) PROVE StepOf(s)
  <2>1. Answer(o) \in Replies /\ ver \in Nat
    BY DEF Answer, Replies, TypeOK
  <2>2. [call[s] EXCEPT !.read = ver, !.reply = Answer(o), !.at = "back"] \in CallType
    BY <2>1 DEF CallType
  <2>3. call' = [call EXCEPT ![s] = [call[s] EXCEPT !.read = ver, !.reply = Answer(o),
                                                    !.at = "back"]]
    BY <1>5 DEF AgetSends, CallType
  <2>4. Moves(s, "back", call[s].conn)
    BY <2>2, <2>3 DEF Moves, Keeps, CallType, Op
  <2> QED BY <1>2, <2>4
<1> QED BY <1>3, <1>4, <1>5

LEMMA PutsBackStep ==
  ASSUME TypeOK, Shape, NEW s \in Slots, PutsBack(s)
  PROVE  StepOf(s) /\ Op(s) \in {"awatch", "aunwatch", "adiscard", "aget", "aset"}
<1> USE TypeFacts
<1>1. Op(s) \in {"awatch", "aunwatch", "adiscard", "aget", "aset"}
  <2>1. "back" \in Stages[Op(s)] /\ Op(s) \in Ops
    BY DEF PutsBack, Shape, ShapeOf, Op, CallType
  <2> QED BY <2>1 DEF Stages, Ops
<1>2. reserved' \in Conns /\ awaiting' = awaiting /\ UNCHANGED <<serverVars, progVars>>
      /\ call[s].reply \in Replies
  BY DEF PutsBack, progVars, CallType
<1>3. st' \in States
  <2>1. [st EXCEPT !.keys = FALSE, !.watching = FALSE] \in States
        /\ [NewState EXCEPT !.closed = st.closed] \in States
    BY DEF States
  <2> QED BY <1>1, <2>1 DEF PutsBack, Op
<1>4. CASE Ends(s, call[s].reply)
  BY <1>1, <1>2, <1>3, <1>4, EndsStep, StepTypes DEF StepOf, Keeps, Ops, PutsBack
<1>5. CASE Op(s) = "awatch" /\ call' = [call EXCEPT ![s].conn = None, ![s].at = "note"]
  <2>0. [call[s] EXCEPT !.conn = None, !.at = "note"] \in CallType
    BY DEF CallType, Conns
  <2>1. Moves(s, "note", None)
    <3>1. call' = [call EXCEPT ![s] = [call[s] EXCEPT !.conn = None, !.at = "note"]]
      BY <1>5
    <3> QED BY <2>0, <3>1 DEF Moves, Keeps, CallType, Op
  <2>2. "note" \in Stages[Op(s)]
    BY <1>5 DEF Stages
  <2> QED BY <1>1, <1>2, <1>3, <1>5, <2>1, <2>2, MovesParts DEF PutsBack
<1> QED BY <1>1, <1>4, <1>5 DEF PutsBack, Op

(* The calls after a write by s, which is left with connection c and reply r. *)
Written(s, at, c, r) == [Touched(call) EXCEPT ![s].conn = c, ![s].reply = r, ![s].at = at]

LEMMA TouchedOthers ==
  ASSUME TypeOK, NEW s \in Slots, NEW at, NEW c \in Conns, NEW r \in Replies,
         at \in {"back", "clear", "clearPlain"}, call' = Written(s, at, c, r)
  PROVE  /\ call' \in [Slots -> CallType] /\ Others(s) /\ Op(s)' = Op(s)
         /\ call'[s].at = at /\ call'[s].conn = c /\ call'[s].reply = r
         /\ call'[s].keyed = call[s].keyed /\ call'[s].read = call[s].read
         /\ \A u \in Slots \ {s} : call'[u].conn = DirtiedIf(call[u].conn)
<1> DEFINE t == Touched(call)
<1>1. t \in [Slots -> CallType] /\ call \in [Slots -> CallType]
      /\ \A u \in Slots : t[u] = [call[u] EXCEPT !.conn = DirtiedIf(call[u].conn)]
  BY TouchedFacts, TypeFacts
<1>2. call' = [t EXCEPT ![s].conn = c, ![s].reply = r, ![s].at = at]
  BY DEF Written
<1>3. ASSUME NEW u \in Slots
      PROVE  /\ t[u].op = call[u].op /\ t[u].at = call[u].at /\ t[u].keyed = call[u].keyed
             /\ t[u].snap = call[u].snap /\ t[u].read = call[u].read
             /\ t[u].reply = call[u].reply /\ t[u].conn = DirtiedIf(call[u].conn)
  <2>1. t[u] = [call[u] EXCEPT !.conn = DirtiedIf(call[u].conn)] /\ call[u] \in CallType
    BY <1>1
  <2> HIDE DEF t
  <2> QED BY <2>1 DEF CallType
<1> HIDE DEF t
<1>4. t[s] \in CallType /\ [t[s] EXCEPT !.conn = c, !.reply = r, !.at = at] \in CallType
  <2>1. t[s] \in CallType
    BY <1>1
  <2> QED BY <2>1 DEF CallType, Conns
<1>5. call' = [t EXCEPT ![s] = [t[s] EXCEPT !.conn = c, !.reply = r, !.at = at]]
  BY <1>1, <1>2 DEF CallType
<1>6. call'[s] = [t[s] EXCEPT !.conn = c, !.reply = r, !.at = at]
      /\ call' \in [Slots -> CallType] /\ \A u \in Slots \ {s} : call'[u] = t[u]
  BY <1>1, <1>4, <1>5
<1>7. Others(s) /\ \A u \in Slots \ {s} : call'[u].conn = DirtiedIf(call[u].conn)
  BY <1>3, <1>6 DEF Others, Same
<1>8. /\ call'[s].op = t[s].op /\ call'[s].at = at /\ call'[s].conn = c /\ call'[s].reply = r
      /\ call'[s].keyed = t[s].keyed /\ call'[s].read = t[s].read
  BY <1>4, <1>6 DEF CallType
<1> QED BY <1>3, <1>6, <1>7, <1>8 DEF Op

LEMMA AsetStep ==
  ASSUME TypeOK, Shape, NEW s \in Slots, NEW o \in Trips, AsetSends(s, o)
  PROVE  StepOf(s)
<1> USE TypeFacts
<1>0. Op(s) = "aset" /\ call[s].at = "trip" /\ awaiting' = awaiting
      /\ UNCHANGED <<st, progVars>> /\ call[s].conn \in Connections
  BY DEF AsetSends, At, Op, progVars, Conns
<1>1. CASE Trip(s, call[s].conn, "error") /\ UNCHANGED <<serverVars, reserved>>
  <2>1. Moves(s, "back", call[s].conn)
    BY <1>1, TripMoves DEF Replies
  <2> QED BY <1>0, <1>1, <2>1, MovesParts DEF Stages
<1>2. CASE BareWrite /\ call' = [Touched(call) EXCEPT ![s].reply = Answer(o), ![s].at = "back"]
  <2> DEFINE t == Touched(call)
  <2>1. t \in [Slots -> CallType] /\ Answer(o) \in Replies
    BY TouchedFacts DEF Answer, Replies
  <2>2. call' = Written(s, "back", t[s].conn, Answer(o))
    <3>1. call' = [t EXCEPT ![s].reply = Answer(o), ![s].at = "back"]
      BY <1>2
    <3>2. Written(s, "back", t[s].conn, Answer(o))
            = [t EXCEPT ![s].conn = t[s].conn, ![s].reply = Answer(o), ![s].at = "back"]
      BY DEF Written
    <3> HIDE DEF t
    <3> QED BY <2>1, <3>1, <3>2 DEF CallType
  <2>3. t[s].conn = DirtiedIf(call[s].conn) /\ t[s].conn \in Conns /\ t[s].conn # None
    BY <1>0, TouchedFacts, DirtiedFacts, ConnFacts DEF CallType
  <2>4. /\ call' \in [Slots -> CallType] /\ Others(s) /\ Op(s)' = Op(s)
        /\ call'[s].at = "back" /\ call'[s].conn # None
    BY <2>1, <2>2, <2>3, TouchedOthers
  <2>5. TypeOK'
    BY <1>0, <1>2, <2>4, DirtiedFacts, ConnFacts
       DEF TypeOK, CallType, Conns, Replies, BareWrite, Touch, progVars
  <2>6. ShapeOf(s)'
    BY <1>0, <2>4 DEF ShapeOf, Stages
  <2> QED BY <1>0, <2>4, <2>5, <2>6 DEF StepOf
<1> QED BY <1>1, <1>2 DEF AsetSends

(* The block that s sent was not applied.                                     *)
LEMMA UnappliedFacts ==
  ASSUME TypeOK, NEW s \in Slots, NEW r \in Replies, NEW at \in {"clear", "clearPlain"},
         Unapplied(s, r, at)
  PROVE  \E c \in Conns : /\ Moves(s, at, c)
                          /\ c # None => c = NewConnection
                          /\ call[s].conn = None => c = None
                          /\ call'[s].reply = r
<1> DEFINE c == IF call[s].conn = None THEN None ELSE NewConnection
<1>1. call \in [Slots -> CallType] /\ call[s] \in CallType /\ c \in Conns
  BY TypeFacts, ConnFacts DEF Conns
<1>2. [call[s] EXCEPT !.conn = c, !.reply = r, !.at = at] \in CallType
  BY <1>1 DEF CallType, Conns
<1>3. call' = [call EXCEPT ![s] = [call[s] EXCEPT !.conn = c, !.reply = r, !.at = at]]
  BY <1>1 DEF Unapplied, CallType
<1>4. Moves(s, at, c) /\ call'[s].reply = r
  BY <1>1, <1>2, <1>3 DEF Moves, Keeps, Op, CallType
<1> QED BY <1>1, <1>4

(* The block that s sent was applied.                                         *)
LEMMA AppliesFacts ==
  ASSUME TypeOK, NEW s \in Slots, NEW o \in Trips, NEW at \in {"clear", "clearPlain"},
         NEW c \in Conns, Applies(s, c, o, at)
  PROVE  /\ call' \in [Slots -> CallType] /\ Others(s) /\ Op(s)' = Op(s)
         /\ call'[s].at = at /\ call'[s].conn = c /\ call'[s].reply = Answer(o)
         /\ ver' \in Nat /\ applied' \in {applied, applied + 1} /\ reserved' \in Conns
         /\ \/ UNCHANGED <<ver, applied, reserved>> /\ Keeps(s)
            \/ /\ reserved' = DirtiedIf(reserved)
               /\ \A u \in Slots \ {s} : call'[u].conn = DirtiedIf(call[u].conn)
<1>0. ver \in Nat /\ applied \in Nat /\ reserved \in Conns /\ Answer(o) \in Replies
  BY TypeFacts DEF TypeOK, Answer, Replies
<1>1. CASE "SET" \in call[s].snap.commands
  <2>1. call' = Written(s, at, c, Answer(o))
    BY <1>1 DEF Applies, Written
  <2>2. /\ ver' = ver + 1 /\ applied' = applied + 1 /\ reserved' = DirtiedIf(reserved)
    BY <1>1 DEF Applies
  <2>3. ver' \in Nat /\ applied' \in {applied, applied + 1} /\ reserved' \in Conns
    BY <1>0, <2>2, DirtiedFacts
  <2>4. at \in {"back", "clear", "clearPlain"}
    OBVIOUS
  <2>5. /\ call' \in [Slots -> CallType] /\ Others(s) /\ Op(s)' = Op(s)
        /\ call'[s].at = at /\ call'[s].conn = c /\ call'[s].reply = Answer(o)
        /\ \A u \in Slots \ {s} : call'[u].conn = DirtiedIf(call[u].conn)
    BY <1>0, <2>1, <2>4, TouchedOthers
  <2> QED BY <2>2, <2>3, <2>5
<1>2. CASE "SET" \notin call[s].snap.commands
  <2>1. call' = [call EXCEPT ![s].conn = c, ![s].reply = Answer(o), ![s].at = at]
    BY <1>2 DEF Applies
  <2>2. UNCHANGED <<ver, applied, reserved>>
    BY <1>2 DEF Applies
  <2>3. call \in [Slots -> CallType] /\ call[s] \in CallType
    BY TypeFacts
  <2>4. [call[s] EXCEPT !.conn = c, !.reply = Answer(o), !.at = at] \in CallType
    BY <1>0, <2>3 DEF CallType, Conns
  <2>5. call' = [call EXCEPT ![s] = [call[s] EXCEPT !.conn = c, !.reply = Answer(o), !.at = at]]
    BY <2>1, <2>3 DEF CallType
  <2>6. /\ Keeps(s) /\ Op(s)' = Op(s)
        /\ call'[s].at = at /\ call'[s].conn = c /\ call'[s].reply = Answer(o)
    BY <2>3, <2>4, <2>5 DEF Keeps, Op, CallType
  <2>7. call' \in [Slots -> CallType] /\ Others(s)
    BY <2>6, KeepsOthers DEF Keeps
  <2>8. ver' \in Nat /\ applied' \in {applied, applied + 1} /\ reserved' \in Conns
    BY <1>0, <2>2
  <2> QED BY <2>2, <2>6, <2>7, <2>8
<1> QED BY <1>1, <1>2

(* EXEC and the plain pipeline: nothing is applied, or the block is.          *)
Sends(s) ==
    /\ Op(s) = "aexecute" /\ call'[s].reply \in Replies
    /\ call'[s].conn \in {None, NewConnection}
    /\ \/ /\ UNCHANGED <<ver, applied, reserved>> /\ Keeps(s)
       \/ /\ call'[s].reply # "abort"
          /\ applied' \in {applied, applied + 1}
          /\ reserved' = DirtiedIf(reserved)
          /\ \A u \in Slots \ {s} : call'[u].conn = DirtiedIf(call[u].conn)

LEMMA SendsParts ==
  ASSUME TypeOK, Shape, NEW s \in Slots, NEW at \in {"clear", "clearPlain"},
         Op(s) = "aexecute", call[s].at # "done", UNCHANGED <<bare, st, progVars>>,
         at = "clearPlain" => call[s].conn = None,
         \/ \E r \in Replies : Unapplied(s, r, at)
         \/ \E o \in Trips : \E c \in {None, NewConnection} :
               /\ Applies(s, c, o, at)
               /\ at = "clearPlain" => c = None
  PROVE  StepOf(s) /\ Sends(s) /\ call'[s].at = at
<1> USE TypeFacts
<1>0. at \in Stages[Op(s)] /\ awaiting' = awaiting /\ st' \in States
  BY DEF Stages, progVars
<1>1. ASSUME NEW r \in Replies, Unapplied(s, r, at) PROVE StepOf(s) /\ Sends(s) /\ call'[s].at = at
  <2>1. PICK c \in Conns : /\ Moves(s, at, c) /\ (c # None => c = NewConnection)
                           /\ (call[s].conn = None => c = None) /\ call'[s].reply = r
    BY <1>1, UnappliedFacts
  <2>2. UNCHANGED <<serverVars, reserved>>
    BY <1>1 DEF Unapplied, serverVars
  <2>3. StepOf(s)
    BY <1>0, <2>1, <2>2, MovesParts
  <2> QED BY <2>1, <2>2, <2>3 DEF Sends, Moves, serverVars
<1>2. ASSUME NEW o \in Trips, NEW c \in {None, NewConnection}, Applies(s, c, o, at),
             at = "clearPlain" => c = None
      PROVE  StepOf(s) /\ Sends(s) /\ call'[s].at = at
  <2>0. c \in Conns
    BY ConnFacts DEF Conns
  <2>1. /\ call' \in [Slots -> CallType] /\ Others(s) /\ Op(s)' = Op(s)
        /\ call'[s].at = at /\ call'[s].conn = c /\ call'[s].reply = Answer(o)
        /\ ver' \in Nat /\ applied' \in {applied, applied + 1} /\ reserved' \in Conns
        /\ \/ UNCHANGED <<ver, applied, reserved>> /\ Keeps(s)
           \/ /\ reserved' = DirtiedIf(reserved)
              /\ \A u \in Slots \ {s} : call'[u].conn = DirtiedIf(call[u].conn)
    BY <1>2, <2>0, AppliesFacts
  <2>2. applied' \in Nat
    BY <2>1 DEF TypeOK
  <2>3. TypeOK'
    BY <1>0, <2>1, <2>2 DEF TypeOK, CallType, Conns, Replies, progVars
  <2>4. ShapeOf(s)'
    BY <1>0, <1>2, <2>1 DEF ShapeOf
  <2>5. Answer(o) \in Replies /\ Answer(o) # "abort"
    BY DEF Answer, Replies
  <2> QED BY <2>1, <2>3, <2>4, <2>5 DEF StepOf, Sends
<1> QED BY <1>1, <1>2

LEMMA SendsStep ==
  ASSUME TypeOK, Shape, NEW s \in Slots,
         \E o \in Trips : ExecSends(s, o) \/ PlainSends(s, o)
  PROVE  /\ StepOf(s) /\ Sends(s) /\ st' = st /\ ver' \in Nat
         /\ \/ call[s].at = "exec" /\ call'[s].at = "clear"
            \/ call[s].at = "plain" /\ call'[s].at = "clearPlain"
<1>1. ASSUME NEW o \in Trips, ExecSends(s, o)
      PROVE  StepOf(s) /\ Sends(s) /\ st' = st /\ call[s].at = "exec" /\ call'[s].at = "clear"
  <2>1. Op(s) = "aexecute" /\ call[s].at = "exec" /\ UNCHANGED <<bare, st, progVars>>
    BY <1>1 DEF ExecSends, At, Op
  <2>2. \/ \E r \in Replies : Unapplied(s, r, "clear")
        \/ Applies(s, NewConnection, o, "clear")
    BY <1>1 DEF ExecSends, Replies
  <2> QED BY <2>1, <2>2, SendsParts
<1>2. ASSUME NEW o \in Trips, PlainSends(s, o)
      PROVE  StepOf(s) /\ Sends(s) /\ st' = st /\ call[s].at = "plain"
             /\ call'[s].at = "clearPlain"
  <2>1. Op(s) = "aexecute" /\ call[s].at = "plain" /\ UNCHANGED <<bare, st, progVars>>
    BY <1>2 DEF PlainSends, At, Op
  <2>2. \/ \E r \in Replies : Unapplied(s, r, "clearPlain")
        \/ Applies(s, None, o, "clearPlain")
    BY <1>2 DEF PlainSends, Replies
  <2>3. call[s].conn = None
    BY <2>1 DEF Shape, ShapeOf
  <2> QED BY <2>1, <2>2, <2>3, SendsParts
<1>3. StepOf(s) => ver' \in Nat
  BY DEF StepOf, TypeOK
<1> QED BY <1>1, <1>2, <1>3

LEMMA ExecuteStep ==
  ASSUME TypeOK, Shape, NEW s \in Slots,
         AexecuteCopies(s) \/ AexecuteLooks(s) \/ AexecuteTakes(s) \/ AexecuteClears(s)
  PROVE  StepOf(s)
<1> USE TypeFacts
<1>0. /\ Op(s) = "aexecute" /\ call[s].at \in {"copy", "look", "take", "clear", "clearPlain"}
      /\ awaiting' = awaiting /\ UNCHANGED <<serverVars, progVars>>
      /\ call[s].at \in {"copy", "look", "take"} => call[s].conn = None
  BY DEF AexecuteCopies, AexecuteLooks, AexecuteTakes, AexecuteClears, At, Op, progVars, Shape,
         ShapeOf
<1>1. CASE AexecuteCopies(s)
  <2>1. CASE \E r \in {"ok", "error"} : Ends(s, r)
    BY <1>0, <1>1, <2>1, EndsStep, StepTypes DEF AexecuteCopies, StepOf, Keeps, Replies, Ops
  <2>2. CASE call' = [call EXCEPT ![s].snap = st, ![s].at = "look"]
    <3>1. call' = [call EXCEPT ![s] = [call[s] EXCEPT !.snap = st, !.at = "look"]]
      BY <2>2 DEF CallType
    <3>2. [call[s] EXCEPT !.snap = st, !.at = "look"] \in CallType
      BY DEF CallType
    <3>3. Moves(s, "look", call[s].conn)
      BY <3>1, <3>2 DEF Moves, Keeps, CallType, Op
    <3> QED BY <1>0, <1>1, <3>3, MovesParts DEF AexecuteCopies, At, Stages
  <2> QED BY <1>1, <2>1, <2>2 DEF AexecuteCopies
<1>2. CASE AexecuteLooks(s)
  <2>1. PICK at \in {"take", "plain"} : Goto(s, at)
    BY <1>2 DEF AexecuteLooks
  <2>2. Moves(s, at, call[s].conn)
    BY <2>1 DEF Goto, Moves, Keeps, CallType, Op
  <2> QED BY <1>0, <1>2, <2>2, MovesParts DEF AexecuteLooks, At, Stages
<1>3. CASE AexecuteTakes(s)
  <2>1. Moves(s, "exec", reserved)
    BY <1>3, ConnMoves DEF AexecuteTakes
  <2>2. reserved' \in Conns
    BY <1>3 DEF AexecuteTakes, Conns
  <2> QED BY <1>0, <1>3, <2>1, <2>2, MovesParts DEF AexecuteTakes, At, Stages
<1>4. CASE AexecuteClears(s)
  <2>1. st' \in States /\ reserved' \in Conns /\ call[s].reply \in Replies
    BY <1>4 DEF AexecuteClears, States, Conns, CallType
  <2> QED BY <1>0, <1>4, <2>1, EndsStep, StepTypes DEF AexecuteClears, StepOf, Keeps, Ops
<1> QED BY <1>1, <1>2, <1>3, <1>4

LEMMA AcloseStep ==
  ASSUME TypeOK, Shape, NEW s \in Slots, AcloseTakes(s) \/ AcloseEnds(s)
  PROVE  StepOf(s)
<1> USE TypeFacts
<1>0. Op(s) = "aclose" /\ call[s].at \in {"close", "unwatch"} /\ awaiting' = awaiting
      /\ UNCHANGED <<serverVars, progVars>>
  BY DEF AcloseTakes, AcloseEnds, At, Op, progVars
<1>1. CASE AcloseTakes(s)
  <2>1. Moves(s, "unwatch", reserved)
    BY <1>1, ConnMoves DEF AcloseTakes
  <2>2. reserved' \in Conns /\ st' \in States
    BY <1>1 DEF AcloseTakes, Conns, States
  <2> QED BY <1>0, <2>1, <2>2, MovesParts DEF Stages
<1>2. CASE AcloseEnds(s)
  BY <1>0, <1>2, EndsStep, StepTypes DEF AcloseEnds, StepOf, Keeps, Replies, Ops
<1> QED BY <1>1, <1>2

LEMMA TaskSteps ==
  ASSUME TypeOK, Shape, NEW s \in Slots, TaskStep(s)
  PROVE  StepOf(s)
  BY WatchSteps, TakesStep, TripsStep, PutsBackStep, AsetStep, SendsStep, ExecuteStep, AcloseStep
     DEF TaskStep

-----------------------------------------------------------------------------
(* Steps of the program. *)

Methods == Ops \ {"none"}

(* A fresh call of op in slot s.                                              *)
Fresh(s, op, keyed) ==
    /\ call' \in [Slots -> CallType]
    /\ \A u \in Slots \ {s} : call'[u] = call[u]
    /\ Op(s)' = op /\ call'[s].at = First[op] /\ call'[s].keyed = keyed
    /\ call'[s].conn = None /\ call'[s].reply = "ok" /\ call'[s].read = 0
    /\ Op(s) = "none" /\ awaiting = None /\ awaiting' = s
    /\ gaveUp' = IF InFlight # {} /\ op # "aclose" THEN "overlapped" ELSE gaveUp
    /\ counts' = (counts /\ op \notin Ending)
    /\ seen' = IF op \in {"aunwatch", "adiscard"} THEN NoRead ELSE seen

LEMMA SpawnFacts ==
  ASSUME TypeOK, NEW s \in Slots, NEW op \in Methods, NEW keyed \in BOOLEAN, Spawn(s, op, keyed)
  PROVE  Fresh(s, op, keyed)
<1> DEFINE new == [NoCall EXCEPT !.op = op, !.at = First[op], !.keyed = keyed]
<1>1. call \in [Slots -> CallType] /\ NoCall \in CallType
  BY TypeFacts
<1>2. First[op] \in {"check", "take", "copy", "close"} /\ op \in Ops
  BY DEF First, Methods, Ops
<1>3. NoCall.conn = None /\ NoCall.reply = "ok" /\ NoCall.read = 0
  BY DEF NoCall
<1>4. /\ new \in CallType /\ new.op = op /\ new.at = First[op] /\ new.keyed = keyed
      /\ new.conn = None /\ new.reply = "ok" /\ new.read = 0
  BY <1>1, <1>2, <1>3 DEF CallType
<1>5. call' = [call EXCEPT ![s] = new]
  BY DEF Spawn
<1> HIDE DEF new
<1>6. call'[s] = new /\ call' \in [Slots -> CallType] /\ \A u \in Slots \ {s} : call'[u] = call[u]
  BY <1>1, <1>4, <1>5
<1>7. s \notin InFlight
  BY DEF Spawn, InFlight
<1> QED BY <1>4, <1>6, <1>7 DEF Fresh, Spawn, Op, InFlight, Ending

LEMMA SpawnStep ==
  ASSUME TypeOK, Shape, NEW s \in Slots, NEW op \in Methods, NEW keyed, Fresh(s, op, keyed),
         UNCHANGED <<serverVars, st, reserved>>, calls' \in Nat,
         pc' \in {"start", "watch", "func", "execute", "committed", "aborted", "failed",
                  "returned", "raised"}
  PROVE  TypeOK' /\ Shape'
<1>1. counts' \in BOOLEAN /\ seen' \in Nat \cup {NoRead} /\ gaveUp' \in {"no", "yes", "overlapped"}
      /\ awaiting' \in Slots \cup {None}
  BY DEF Fresh, TypeOK
<1>2. TypeOK'
  BY <1>1 DEF Fresh, TypeOK, CallType, Conns, Replies, serverVars
<1>3. ShapeOf(s)'
  <2>1. First[op] \in Stages[op] /\ First[op] \in {"check", "take", "copy", "close"}
    BY DEF First, Stages, Methods, Ops
  <2> QED BY <2>1 DEF Fresh, ShapeOf, Op
<1>4. \A u \in Slots \ {s} : ShapeOf(u)'
  BY ConnFacts DEF Fresh, Shape, ShapeOf, Op
<1> QED BY <1>2, <1>3, <1>4 DEF Shape

(* A step of the program in which no call is made or answered.                *)
LEMMA QuietStep ==
  ASSUME TypeOK, Shape, UNCHANGED <<call, ver, bare, reserved, applied>>, calls' \in Nat,
         awaiting' \in {None, awaiting}, awaiting' # awaiting => call[awaiting].at # "done",
         st' \in States, counts' = counts, seen' = seen, gaveUp' \in {"no", "yes", "overlapped"},
         pc' \in {"start", "watch", "func", "execute", "committed", "aborted", "failed",
                  "returned", "raised"}
  PROVE  TypeOK' /\ Shape'
<1>1. TypeOK'
  BY DEF TypeOK
<1>2. ASSUME NEW u \in Slots PROVE ShapeOf(u)'
  <2>1. call[u].at = "done" => awaiting = u
    BY DEF Shape, ShapeOf
  <2> QED BY <2>1 DEF Shape, ShapeOf, Op
<1> QED BY <1>1, <1>2 DEF Shape

LEMMA ResumesFacts ==
  ASSUME TypeOK, Shape, Helper, NEW s \in Slots, Resumes(s)
  PROVE  /\ call' \in [Slots -> CallType] /\ Op(s)' = "none" /\ call'[s] = NoCall
         /\ NoCall.op = "none" /\ NoCall.conn = None /\ NoCall.at = "idle"
         /\ pc' = "start" => \A u \in Slots : call'[u] = NoCall
         /\ pc' # "start" => \A u \in Slots \ {s} : call'[u] = call[u]
         /\ TypeOK' /\ Shape'
<1>1. call \in [Slots -> CallType] /\ NoCall \in CallType /\ NewState \in States
      /\ call[s] \in CallType
  BY TypeFacts
<1>2. NoCall.op = "none" /\ NoCall.conn = None /\ NoCall.at = "idle"
  BY DEF NoCall
<1>3. /\ pc' = "start" => call' = [u \in Slots |-> NoCall]
      /\ pc' # "start" => call' = [call EXCEPT ![s] = NoCall]
  BY DEF Resumes
<1>4. /\ call' \in [Slots -> CallType] /\ call'[s] = NoCall
      /\ pc' = "start" => \A u \in Slots : call'[u] = NoCall
      /\ pc' # "start" => \A u \in Slots \ {s} : call'[u] = call[u]
  BY <1>1, <1>3
<1>5. pc' \in {"start", "watch", "func", "execute", "committed", "aborted", "failed",
               "returned", "raised"}
  <2>1. pc \in {"watch", "func", "execute", "committed", "aborted", "failed"}
    BY ConnFacts DEF Resumes, Helper, TypeOK
  <2>2. CASE pc \in {"watch", "func", "execute"}
    BY <2>2 DEF Resumes
  <2>3. CASE pc \in {"committed", "aborted", "failed"}
    BY <2>3 DEF Resumes, AfterClose
  <2> QED BY <2>1, <2>2, <2>3
<1>6. st' \in States /\ reserved' \in Conns
  BY <1>1, TypeFacts DEF Resumes, Conns
<1>7. seen' \in Nat \cup {NoRead} /\ gaveUp' \in {"no", "yes", "overlapped"} /\ counts' \in BOOLEAN
  BY <1>1 DEF Resumes, TypeOK, CallType
<1>8. TypeOK'
  BY <1>4, <1>5, <1>6, <1>7
     DEF Resumes, TypeOK, CallType, Conns, Replies, serverVars
<1>9. ASSUME NEW u \in Slots PROVE ShapeOf(u)'
  <2>1. CASE call'[u] = NoCall
    BY <1>2, <2>1 DEF ShapeOf, Op, Stages
  <2>2. CASE u # s /\ call'[u] = call[u]
    <3>1. call[u].at # "done"
      BY <2>2 DEF Shape, ShapeOf, Resumes
    <3> QED BY <2>2, <3>1 DEF Shape, ShapeOf, Op
  <2> QED BY <1>4, <2>1, <2>2
<1> QED BY <1>2, <1>4, <1>8, <1>9 DEF Shape, Op

LEMMA OtherWriteFacts ==
  ASSUME TypeOK, Shape, OtherWrite
  PROVE  /\ TypeOK' /\ Shape' /\ ver' = ver + 1 /\ applied' = applied
         /\ reserved' = DirtiedIf(reserved) /\ UNCHANGED <<st, progVars>>
         /\ \A u \in Slots : Same(u) /\ call'[u].conn = DirtiedIf(call[u].conn)
<1>0. /\ ver' = ver + 1 /\ bare' = bare + 1 /\ applied' = applied
      /\ reserved' = DirtiedIf(reserved) /\ UNCHANGED <<st, progVars>>
      /\ call' = Touched(call)
  BY DEF OtherWrite, BareWrite, Touch
<1>1. call' \in [Slots -> CallType] /\ reserved' \in Conns
  BY <1>0, TouchedFacts, TypeFacts, DirtiedFacts
<1>2. \A u \in Slots : Same(u) /\ call'[u].conn = DirtiedIf(call[u].conn)
  <2> SUFFICES ASSUME NEW u \in Slots PROVE Same(u) /\ call'[u].conn = DirtiedIf(call[u].conn)
    OBVIOUS
  <2>1. call'[u] = [call[u] EXCEPT !.conn = DirtiedIf(call[u].conn)] /\ call[u] \in CallType
    BY <1>0, TouchedFacts, TypeFacts
  <2> QED BY <2>1 DEF CallType, Same
<1>3. TypeOK'
  BY <1>0, <1>1 DEF TypeOK, CallType, Conns, Replies, progVars
<1>4. ASSUME NEW u \in Slots PROVE ShapeOf(u)'
  <2>1. call'[u].conn = None <=> call[u].conn = None
    BY <1>2, TypeFacts, DirtiedFacts
  <2> QED BY <1>0, <1>2, <2>1 DEF Shape, ShapeOf, Op, Same, progVars
<1> QED BY <1>0, <1>2, <1>3, <1>4 DEF Shape

(* The program makes a call of op in slot s.                                  *)
Makes(s, op, keyed) ==
    /\ Fresh(s, op, keyed)
    /\ UNCHANGED <<serverVars, st, reserved>> /\ calls' \in Nat
    /\ \/ pc = "start" /\ pc' = "watch" /\ op = "awatch"
       \/ pc = "func" /\ pc' = "func" /\ op # "aexecute"
       \/ pc = "func" /\ pc' = "execute" /\ op = "aexecute"
       \/ pc \in {"committed", "aborted", "failed"} /\ pc' = pc /\ op = "aclose"

(* It goes on without a call.                                                 *)
Begins == /\ pc = "start" /\ pc' = "func" /\ calls' = 0
          /\ UNCHANGED <<serverVars, st, reserved, call, awaiting, counts, seen, gaveUp>>

Buffers == /\ pc = "func" /\ awaiting = None /\ ~st.closed /\ calls' \in Nat
           /\ st' \in States /\ st'.watching = st.watching /\ st'.closed = st.closed
           /\ UNCHANGED <<serverVars, reserved, call, awaiting, pc, counts, seen, gaveUp>>

Fails == /\ pc \in {"func", "aborted"} /\ awaiting = None /\ pc' = "failed"
         /\ UNCHANGED <<serverVars, st, reserved, call, awaiting, calls, counts, seen, gaveUp>>

LEMMA MakesFacts ==
  ASSUME TypeOK, NEW s \in Slots,
         Attempt(s) \/ FuncCalls(s) \/ FuncReturns(s) \/ Closes(s)
  PROVE  Begins \/ \E op \in Methods, keyed \in BOOLEAN : Makes(s, op, keyed)
<1>0. calls \in Nat
  BY DEF TypeOK
<1>1. CASE Attempt(s)
  BY <1>0, <1>1, SpawnFacts DEF Attempt, Begins, Makes, Methods, Ops, serverVars
<1>2. CASE FuncCalls(s)
  <2>1. PICK op \in Methods \ {"aexecute"}, keyed \in BOOLEAN : Spawn(s, op, keyed)
    BY <1>2 DEF FuncCalls, Methods, Ops
  <2>2. Fresh(s, op, keyed)
    BY <2>1, SpawnFacts
  <2> QED BY <1>0, <1>2, <2>2 DEF FuncCalls, Makes, serverVars
<1>3. CASE FuncReturns(s)
  BY <1>0, <1>3, SpawnFacts DEF FuncReturns, Makes, Methods, Ops, serverVars
<1>4. CASE Closes(s)
  BY <1>0, <1>4, SpawnFacts DEF Closes, Makes, Methods, Ops, serverVars
<1> QED BY <1>1, <1>2, <1>3, <1>4

LEMMA BuffersFacts ==
  ASSUME TypeOK, Multi \/ \E cmd \in {"GET", "SET"} : FuncBuffers(cmd)
  PROVE  Buffers
<1>0. calls \in Nat /\ st \in States
  BY DEF TypeOK
<1>1. CASE Multi
  <2>1. st' = [st EXCEPT !.explicit = TRUE]
    BY <1>1 DEF Multi
  <2>2. st' \in States /\ st'.watching = st.watching /\ st'.closed = st.closed
    BY <1>0, <2>1 DEF States
  <2> QED BY <1>0, <1>1, <2>2 DEF Multi, Buffers
<1>2. ASSUME NEW cmd \in {"GET", "SET"}, FuncBuffers(cmd) PROVE Buffers
  <2>1. [st EXCEPT !.commands = st.commands \cup {cmd}] \in States
    BY <1>0 DEF States
  <2>2. st' = [st EXCEPT !.commands = st.commands \cup {cmd}]
    BY <1>2 DEF FuncBuffers
  <2>3. st'.watching = st.watching /\ st'.closed = st.closed
    BY <1>0, <2>2 DEF States
  <2> QED BY <1>0, <1>2, <2>1, <2>2, <2>3 DEF FuncBuffers, Buffers
<1> QED BY <1>1, <1>2

(* The steps, as the proofs below go through them.                            *)
LEMMA Steps ==
  ASSUME TypeOK, [Next]_vars
  PROVE  \/ \E s \in Slots : TaskStep(s) \/ Resumes(s) \/ GivesUp(s)
         \/ \E s \in Slots, op \in Methods, keyed \in BOOLEAN : Makes(s, op, keyed)
         \/ Begins \/ Buffers \/ Fails \/ OtherWrite \/ UNCHANGED vars
<1>1. FuncRaises \/ DelayCancelled => Fails
  BY DEF FuncRaises, DelayCancelled, Fails
<1>2. (Multi \/ \E cmd \in {"GET", "SET"} : FuncBuffers(cmd)) => Buffers
  BY BuffersFacts
<1>3. \A s \in Slots : Program(s) =>
         \/ Resumes(s) \/ GivesUp(s) \/ Begins
         \/ \E op \in Methods, keyed \in BOOLEAN : Makes(s, op, keyed)
  <2> SUFFICES ASSUME NEW s \in Slots, Program(s), ~Resumes(s), ~GivesUp(s)
               PROVE  Begins \/ \E op \in Methods, keyed \in BOOLEAN : Makes(s, op, keyed)
    OBVIOUS
  <2>1. Attempt(s) \/ FuncCalls(s) \/ FuncReturns(s) \/ Closes(s)
    BY DEF Program
  <2> QED BY <2>1, MakesFacts
<1> QED BY <1>1, <1>2, <1>3 DEF Next

(* The types and the shape of the calls, at every step.                       *)
LEMMA TypeStep == TypeOK /\ Shape /\ Helper /\ [Next]_vars => TypeOK' /\ Shape'
<1> SUFFICES ASSUME TypeOK, Shape, Helper, [Next]_vars PROVE TypeOK' /\ Shape'
  OBVIOUS
<1>0. /\ pc \in {"start", "watch", "func", "execute", "committed", "aborted", "failed",
                 "returned", "raised"}
      /\ calls \in Nat /\ st \in States /\ gaveUp \in {"no", "yes", "overlapped"}
      /\ awaiting \in Slots \cup {None}
  BY DEF TypeOK
<1>1. ASSUME NEW s \in Slots, TaskStep(s) PROVE TypeOK' /\ Shape'
  <2>1. StepOf(s)
    BY <1>1, TaskSteps
  <2>2. ASSUME NEW u \in Slots \ {s} PROVE ShapeOf(u)'
    <3>1. call[u].conn \in Conns /\ awaiting' = awaiting /\ Same(u) /\ ShapeOf(u)
      BY <2>1, TypeFacts DEF StepOf, Others, progVars, Shape
    <3>2. call'[u].conn = None <=> call[u].conn = None
      BY <3>1, DirtiedFacts DEF Same
    <3> QED BY <3>1, <3>2 DEF ShapeOf, Op, Same
  <2> QED BY <2>1, <2>2 DEF StepOf, Shape
<1>2. ASSUME NEW s \in Slots, NEW op \in Methods, NEW keyed \in BOOLEAN, Makes(s, op, keyed)
      PROVE  TypeOK' /\ Shape'
  <2>1. pc' \in {"start", "watch", "func", "execute", "committed", "aborted", "failed",
                 "returned", "raised"}
    BY <1>2 DEF Makes
  <2> QED BY <1>2, <2>1, SpawnStep DEF Makes
<1>3. CASE Begins
  BY <1>0, <1>3, QuietStep DEF Begins, serverVars
<1>4. CASE Buffers
  BY <1>0, <1>4, QuietStep DEF Buffers, serverVars
<1>5. CASE Fails
  BY <1>0, <1>5, QuietStep DEF Fails, serverVars
<1>6. ASSUME NEW s \in Slots, Resumes(s) PROVE TypeOK' /\ Shape'
  BY <1>6, ResumesFacts
<1>7. ASSUME NEW s \in Slots, GivesUp(s) PROVE TypeOK' /\ Shape'
  BY <1>0, <1>7, QuietStep DEF GivesUp, serverVars
<1>8. CASE OtherWrite
  BY <1>8, OtherWriteFacts
<1>9. CASE UNCHANGED vars
  BY <1>9 DEF vars, TypeOK, Shape, ShapeOf, Op
<1> QED BY <1>1, <1>2, <1>3, <1>4, <1>5, <1>6, <1>7, <1>8, <1>9, Steps

LEMMA HelperStep == TypeOK /\ Shape /\ Helper /\ [Next]_vars => Helper'
<1> SUFFICES ASSUME TypeOK, Shape, Helper, [Next]_vars PROVE Helper'
  OBVIOUS
<1>0. awaiting \in Slots \cup {None} /\ None \notin Slots
  BY ConnFacts DEF TypeOK
<1>1. ASSUME UNCHANGED progVars, awaiting # None => Op(awaiting)' = Op(awaiting) PROVE Helper'
  BY <1>1 DEF Helper, progVars
<1>2. ASSUME NEW s \in Slots, TaskStep(s) PROVE Helper'
  <2>1. StepOf(s)
    BY <1>2, TaskSteps
  <2>2. awaiting # None => Op(awaiting)' = Op(awaiting)
    BY <1>0, <2>1 DEF StepOf, Others, Same, Op, progVars
  <2> QED BY <1>1, <2>1, <2>2 DEF StepOf
<1>3. ASSUME NEW s \in Slots, NEW op \in Methods, NEW keyed \in BOOLEAN, Makes(s, op, keyed)
      PROVE  Helper'
  <2>1. awaiting' = s /\ s # None /\ (Op(awaiting))' = op /\ op # "none" /\ awaiting = None
        /\ counts' = (counts /\ op \notin Ending)
        /\ seen' \in {seen, NoRead}
    BY <1>0, <1>3 DEF Makes, Fresh, Op, Methods
  <2> QED BY <1>3, <2>1 DEF Makes, Helper
<1>4. CASE Begins
  BY <1>4 DEF Begins, Helper, Op
<1>5. CASE Buffers
  BY <1>5 DEF Buffers, Helper, Op
<1>6. CASE Fails
  BY <1>6 DEF Fails, Helper, Op
<1>7. ASSUME NEW s \in Slots, Resumes(s) PROVE Helper'
  <2>1. awaiting' = None
    BY <1>7 DEF Resumes
  <2>2. pc' \notin {"watch", "execute"}
    BY <1>0, <1>7 DEF Resumes, Helper, AfterClose, TypeOK
  <2>3. pc' = "start" => seen' = NoRead
    BY <1>7 DEF Resumes
  <2> QED BY <2>1, <2>2, <2>3 DEF Helper
<1>8. ASSUME NEW s \in Slots, GivesUp(s) PROVE Helper'
  <2>1. awaiting' = None /\ pc' \in {"func", "failed", "raised"}
    BY <1>8 DEF GivesUp
  <2> QED BY <2>1 DEF Helper
<1>9. CASE OtherWrite
  <2>1. awaiting # None => Op(awaiting)' = Op(awaiting)
    BY <1>0, <1>9, OtherWriteFacts DEF Same, Op, progVars
  <2> QED BY <1>1, <1>9, <2>1, OtherWriteFacts
<1>10. CASE UNCHANGED vars
  BY <1>10 DEF vars, Helper, Op
<1> QED BY <1>2, <1>3, <1>4, <1>5, <1>6, <1>7, <1>8, <1>9, <1>10, Steps

-----------------------------------------------------------------------------
(* A block is applied at most once. *)

(* What a step of a call does to the count of applied blocks, and how         *)
(* aexecute() gets from the copy of the state to its answer.                  *)
LEMMA ApplySteps ==
  ASSUME TypeOK, Shape, NEW s \in Slots, TaskStep(s)
  PROVE  \/ /\ Sends(s)
            /\ call[s].at \in {"exec", "plain"} /\ call'[s].at \in {"clear", "clearPlain"}
         \/ /\ applied' = applied
            /\ Op(s) = "aexecute" /\ Op(s)' # "none" =>
                  \/ /\ call[s].at \in {"copy", "look", "take"}
                     /\ call'[s].at \in {"look", "take", "plain", "exec"}
                  \/ call'[s].at = "done" /\ call'[s].reply # "abort"
                  \/ /\ call[s].at \in {"clear", "clearPlain"} /\ call'[s].at = "done"
                     /\ call'[s].reply = call[s].reply
<1> USE TypeFacts
<1> DEFINE Quiet ==
      /\ applied' = applied
      /\ Op(s) = "aexecute" /\ Op(s)' # "none" =>
            \/ /\ call[s].at \in {"copy", "look", "take"}
               /\ call'[s].at \in {"look", "take", "plain", "exec"}
            \/ call'[s].at = "done" /\ call'[s].reply # "abort"
            \/ /\ call[s].at \in {"clear", "clearPlain"} /\ call'[s].at = "done"
               /\ call'[s].reply = call[s].reply
<1>1. CASE \E o \in Trips : ExecSends(s, o) \/ PlainSends(s, o)
  <2>1. Sends(s) /\ (\/ call[s].at = "exec" /\ call'[s].at = "clear"
                     \/ call[s].at = "plain" /\ call'[s].at = "clearPlain")
    BY <1>1, SendsStep
  <2> QED BY <2>1
<1>2. CASE AwatchChecks(s) \/ AwatchReserves(s) \/ AwatchNotes(s)
           \/ \E o \in Trips : AwatchSends(s, o)
  BY <1>2 DEF AwatchChecks, AwatchReserves, AwatchNotes, AwatchSends, At, Op, serverVars
<1>3. CASE Takes(s) \/ NoReservation(s)
           \/ \E o \in Trips : UnwatchSends(s, o) \/ AgetSends(s, o)
  BY <1>3 DEF Takes, NoReservation, UnwatchSends, AgetSends, At, Op, serverVars
<1>4. CASE PutsBack(s)
  BY <1>4, PutsBackStep DEF PutsBack, serverVars
<1>5. CASE \E o \in Trips : AsetSends(s, o)
  BY <1>5 DEF AsetSends, At, Op, BareWrite, serverVars
<1>6. CASE AexecuteCopies(s)
  <2>1. applied' = applied /\ call[s].at = "copy"
    BY <1>6 DEF AexecuteCopies, At, serverVars
  <2>2. ASSUME NEW r \in {"ok", "error"}, Ends(s, r), Op(s)' # "none"
        PROVE  call'[s].at = "done" /\ call'[s].reply # "abort"
    BY <2>2, EndsFacts DEF Replies, Op
  <2>3. call' = [call EXCEPT ![s].snap = st, ![s].at = "look"] => call'[s].at = "look"
    BY DEF CallType
  <2> QED BY <1>6, <2>1, <2>2, <2>3 DEF AexecuteCopies
<1>7. CASE AexecuteLooks(s)
  <2>1. call'[s].at \in {"take", "plain"}
    BY <1>7 DEF AexecuteLooks, Goto, CallType
  <2> QED BY <1>7, <2>1 DEF AexecuteLooks, At, serverVars
<1>8. CASE AexecuteTakes(s)
  <2>1. call'[s].at = "exec"
    BY <1>8 DEF AexecuteTakes, CallType
  <2> QED BY <1>8, <2>1 DEF AexecuteTakes, At, serverVars
<1>9. CASE AexecuteClears(s)
  <2>1. call[s].at \in {"clear", "clearPlain"} /\ applied' = applied /\ call[s].reply \in Replies
        /\ Ends(s, call[s].reply)
    BY <1>9 DEF AexecuteClears, At, serverVars, CallType
  <2>2. Op(s)' # "none" => call'[s].at = "done" /\ call'[s].reply = call[s].reply
    BY <2>1, EndsFacts DEF Op
  <2> QED BY <2>1, <2>2
<1>10. CASE AcloseTakes(s) \/ AcloseEnds(s)
  BY <1>10 DEF AcloseTakes, AcloseEnds, At, Op, serverVars
<1> QED BY <1>1, <1>2, <1>3, <1>4, <1>5, <1>6, <1>7, <1>8, <1>9, <1>10 DEF TaskStep

LEMMA BlocksStep == TypeOK /\ Shape /\ Helper /\ Blocks /\ [Next]_vars => Blocks'
<1> SUFFICES ASSUME TypeOK, Shape, Helper, Blocks, [Next]_vars PROVE Blocks'
  OBVIOUS
<1>0. applied \in Nat /\ awaiting \in Slots \cup {None} /\ None \notin Slots
  BY ConnFacts DEF TypeOK
<1>1. ASSUME UNCHANGED <<applied, pc>>,
             \A u \in Slots : /\ Op(u)' = Op(u) /\ call'[u].at = call[u].at
                              /\ call'[u].reply = call[u].reply
      PROVE  Blocks'
  BY <1>1 DEF Blocks, Op
<1>2. ASSUME NEW s \in Slots, TaskStep(s) PROVE Blocks'
  <2>1. StepOf(s)
    BY <1>2, TaskSteps
  <2>2. /\ pc' = pc /\ Op(s)' \in {Op(s), "none"}
        /\ \A u \in Slots \ {s} : /\ Op(u)' = Op(u) /\ call'[u].at = call[u].at
                                  /\ call'[u].reply = call[u].reply
    BY <2>1 DEF StepOf, Others, Same, Op, progVars
  <2>3. /\ pc' \in {"start", "watch", "func", "committed", "aborted", "returned"} =>
              \A u \in Slots : Op(u)' # "aexecute"
        /\ \A u, v \in Slots : Op(u)' = "aexecute" /\ Op(v)' = "aexecute" => u = v
    BY <2>2 DEF Blocks
  <2>4. CASE /\ Sends(s)
             /\ call[s].at \in {"exec", "plain"} /\ call'[s].at \in {"clear", "clearPlain"}
    <3>1. Op(s) = "aexecute" /\ applied = 0
      BY <2>4 DEF Sends, Blocks
    <3>2. applied' \in {0, 1} /\ (call'[s].reply = "abort" => applied' = 0)
      BY <2>4, <3>1 DEF Sends
    <3>3. \A u \in Slots \ {s} : Op(u)' # "aexecute"
      BY <2>2, <3>1 DEF Blocks
    <3>4. pc \notin {"start", "watch", "func", "committed", "aborted"}
      BY <3>1 DEF Blocks
    <3> QED BY <2>2, <2>3, <2>4, <3>2, <3>3, <3>4 DEF Blocks, Op
  <2>5. CASE /\ applied' = applied
             /\ Op(s) = "aexecute" /\ Op(s)' # "none" =>
                  \/ /\ call[s].at \in {"copy", "look", "take"}
                     /\ call'[s].at \in {"look", "take", "plain", "exec"}
                  \/ call'[s].at = "done" /\ call'[s].reply # "abort"
                  \/ /\ call[s].at \in {"clear", "clearPlain"} /\ call'[s].at = "done"
                     /\ call'[s].reply = call[s].reply
    <3>1. ASSUME NEW u \in Slots, Op(u)' = "aexecute"
          PROVE  /\ call'[u].at \in {"copy", "look", "take", "exec", "plain"} => applied' = 0
                 /\ call'[u].at \in {"clear", "clearPlain", "done"} /\ call'[u].reply = "abort"
                       => applied' = 0
      <4>1. CASE u # s
        BY <2>2, <2>5, <3>1, <4>1 DEF Blocks
      <4>2. CASE u = s
        <5>1. Op(s) = "aexecute" /\ Op(s)' # "none"
          BY <2>2, <3>1, <4>2
        <5> QED BY <2>5, <4>2, <5>1 DEF Blocks
      <4> QED BY <4>1, <4>2
    <3> QED BY <2>2, <2>3, <2>5, <3>1 DEF Blocks, Op
  <2> QED BY <1>2, <2>4, <2>5, ApplySteps
<1>3. ASSUME NEW s \in Slots, NEW op \in Methods, NEW keyed \in BOOLEAN, Makes(s, op, keyed)
      PROVE  Blocks'
  <2>1. /\ Op(s) = "none" /\ Op(s)' = op /\ call'[s].at = First[op] /\ call'[s].reply = "ok"
        /\ \A u \in Slots \ {s} : call'[u] = call[u]
        /\ applied' = applied
    BY <1>3 DEF Makes, Fresh, serverVars
  <2>2. op = "aexecute" => /\ pc = "func" /\ pc' = "execute" /\ applied = 0
                           /\ \A u \in Slots : Op(u) # "aexecute"
    BY <1>3 DEF Makes, Blocks
  <2>3. /\ pc' \in {"start", "watch", "func", "committed", "aborted", "returned"} =>
              \A u \in Slots : Op(u)' # "aexecute"
        /\ \A u, v \in Slots : Op(u)' = "aexecute" /\ Op(v)' = "aexecute" => u = v
    BY <1>3, <2>1, <2>2 DEF Blocks, Makes, Op
  <2>4. /\ applied' <= 1
        /\ pc' \in {"start", "watch", "func", "aborted"} => applied' = 0
    BY <1>3, <2>1 DEF Blocks, Makes
  <2>5. ASSUME NEW u \in Slots, Op(u)' = "aexecute"
        PROVE  /\ call'[u].at \in {"copy", "look", "take", "exec", "plain"} => applied' = 0
               /\ call'[u].at \in {"clear", "clearPlain", "done"} /\ call'[u].reply = "abort"
                     => applied' = 0
    BY <2>1, <2>2, <2>5 DEF Blocks, Op
  <2> QED BY <2>3, <2>4, <2>5 DEF Blocks, Op
<1>4. CASE Begins
  BY <1>4 DEF Begins, Blocks, Op, serverVars
<1>5. CASE Buffers
  BY <1>1, <1>5 DEF Buffers, Op, serverVars
<1>6. CASE Fails
  BY <1>6 DEF Fails, Blocks, Op, serverVars
<1>7. ASSUME NEW s \in Slots, Resumes(s) PROVE Blocks'
  <2>1. /\ Op(s)' = "none" /\ applied' = applied
        /\ pc' = "start" => \A u \in Slots : Op(u)' = "none"
        /\ pc' # "start" => \A u \in Slots \ {s} : call'[u] = call[u]
    BY <1>7, ResumesFacts DEF Resumes, serverVars, Op
  <2>2. s # None /\ awaiting = s /\ call[s].at = "done" /\ pc \notin {"start", "returned", "raised"}
    BY <1>0, <1>7 DEF Resumes, Helper
  <2>3. pc = "execute" => Op(s) = "aexecute"
    BY <2>2 DEF Helper
  <2>4. /\ pc' \in {"start", "watch", "func", "committed", "aborted", "returned"} =>
              \A u \in Slots : Op(u)' # "aexecute"
        /\ pc' \in {"start", "watch", "func", "aborted"} => applied = 0
    <3>1. CASE pc \in {"watch", "func"}
      <4>1. pc' \in {"func", "failed"} /\ applied = 0 /\ \A u \in Slots : Op(u) # "aexecute"
        BY <1>7, <3>1 DEF Resumes, Blocks
      <4> QED BY <2>1, <4>1 DEF Op
    <3>2. CASE pc = "execute"
      <4>1. pc' \in {"committed", "aborted", "failed"} /\ (pc' = "aborted" => call[s].reply = "abort")
        BY <1>7, <3>2 DEF Resumes
      <4>2. pc' = "aborted" => applied = 0
        BY <2>2, <2>3, <3>2, <4>1 DEF Blocks
      <4>3. \A u \in Slots \ {s} : Op(u) # "aexecute"
        BY <2>3, <3>2 DEF Blocks
      <4> QED BY <2>1, <4>1, <4>2, <4>3 DEF Op
    <3>3. CASE pc \in {"committed", "aborted", "failed"}
      <4>1. pc' \in {"returned", "raised", "start"} /\ (pc' = "start" => pc = "aborted")
            /\ (pc' = "returned" => pc = "committed")
        BY <1>7, <3>3 DEF Resumes, AfterClose
      <4>2. pc' = "returned" => \A u \in Slots : Op(u) # "aexecute"
        BY <4>1 DEF Blocks
      <4>3. pc' = "start" => applied = 0
        BY <4>1 DEF Blocks
      <4>4. pc' = "returned" => \A u \in Slots : Op(u)' # "aexecute"
        BY <2>1, <4>2 DEF Op
      <4> QED BY <2>1, <4>1, <4>3, <4>4
    <3> QED BY <2>2, <3>1, <3>2, <3>3 DEF TypeOK
  <2>5. \A u \in Slots : Op(u)' = "aexecute" => /\ Op(u) = "aexecute"
                                                /\ call'[u] = call[u]
    BY <2>1 DEF Op
  <2> QED BY <2>1, <2>4, <2>5 DEF Blocks, Op
<1>8. ASSUME NEW s \in Slots, GivesUp(s) PROVE Blocks'
  <2>1. /\ call' = call /\ applied' = applied
        /\ (pc' = "func" /\ pc = "func") \/ pc' \in {"failed", "raised"}
    BY <1>8 DEF GivesUp, serverVars
  <2> QED BY <2>1 DEF Blocks, Op
<1>9. CASE OtherWrite
  BY <1>1, <1>9, OtherWriteFacts DEF Same, Op, progVars
<1>10. CASE UNCHANGED vars
  BY <1>1, <1>10 DEF vars, Op
<1> QED BY <1>2, <1>3, <1>4, <1>5, <1>6, <1>7, <1>8, <1>9, <1>10, Steps

-----------------------------------------------------------------------------
(* The reserved connection is released. *)

LEMMA AcloseFacts ==
  ASSUME TypeOK, Shape, NEW s \in Slots, TaskStep(s), Op(s) = "aclose"
  PROVE  \/ AcloseTakes(s) /\ reserved' = None /\ call'[s].at = "unwatch"
         \/ AcloseEnds(s) /\ reserved' = reserved /\ call[s].at = "unwatch"
<1>1. \A o \in Trips : ~(ExecSends(s, o) \/ PlainSends(s, o) \/ AwatchSends(s, o)
                         \/ UnwatchSends(s, o) \/ AgetSends(s, o) \/ AsetSends(s, o))
  BY DEF ExecSends, PlainSends, AwatchSends, UnwatchSends, AgetSends, AsetSends, At, Op
<1>2. ~(AwatchChecks(s) \/ AwatchReserves(s) \/ AwatchNotes(s) \/ Takes(s) \/ NoReservation(s)
        \/ AexecuteCopies(s) \/ AexecuteLooks(s) \/ AexecuteTakes(s) \/ AexecuteClears(s))
  BY DEF AwatchChecks, AwatchReserves, AwatchNotes, Takes, NoReservation, AexecuteCopies,
         AexecuteLooks, AexecuteTakes, AexecuteClears, At, Op
<1>3. ~PutsBack(s)
  BY PutsBackStep
<1>4. AcloseTakes(s) => reserved' = None /\ call'[s].at = "unwatch"
  BY TypeFacts DEF AcloseTakes, CallType
<1>5. AcloseEnds(s) => reserved' = reserved /\ call[s].at = "unwatch"
  BY DEF AcloseEnds, At
<1> QED BY <1>1, <1>2, <1>3, <1>4, <1>5 DEF TaskStep

LEMMA ReleasedStep == TypeOK /\ Shape /\ Helper /\ Released /\ [Next]_vars => Released'
<1> SUFFICES ASSUME TypeOK, Shape, Helper, Released, [Next]_vars, gaveUp' = "no"
             PROVE  /\ \A s \in Slots : Op(s)' # "none" => awaiting' = s
                    /\ \A s \in Slots : Op(s)' = "aclose" /\ call'[s].at \in {"unwatch", "done"}
                          => reserved' = None
                    /\ pc' \in {"returned", "raised"} => reserved' = None
  BY DEF Released, Op
<1>0. /\ awaiting \in Slots \cup {None} /\ None \notin Slots
      /\ gaveUp \in {"no", "yes", "overlapped"}
  BY ConnFacts DEF TypeOK
<1> DEFINE Kept == /\ \A s \in Slots : Op(s)' # "none" => awaiting' = s
                   /\ \A s \in Slots : Op(s)' = "aclose" /\ call'[s].at \in {"unwatch", "done"}
                         => reserved' = None
                   /\ pc' \in {"returned", "raised"} => reserved' = None
<1>1. ASSUME NEW s \in Slots, TaskStep(s) PROVE Kept
  <2>1. StepOf(s)
    BY <1>1, TaskSteps
  <2>2. /\ awaiting' = awaiting /\ pc' = pc /\ gaveUp = "no" /\ Op(s) # "none"
        /\ Op(s)' = Op(s) \/ Op(s)' = "none"
        /\ \A u \in Slots \ {s} : Op(u)' = Op(u)
    BY <2>1 DEF StepOf, Others, Same, Op, progVars
  <2>3. awaiting = s /\ pc \notin {"returned", "raised"} /\ \A u \in Slots \ {s} : Op(u) = "none"
    BY <1>0, <2>2 DEF Released, Helper
  <2>4. Op(s)' = "aclose" /\ call'[s].at \in {"unwatch", "done"} => reserved' = None
    <3> SUFFICES ASSUME Op(s) = "aclose" PROVE reserved' = None
      BY <2>2
    <3> QED BY <1>1, <2>2, AcloseFacts DEF Released
  <2> QED BY <2>2, <2>3, <2>4
<1>2. ASSUME NEW s \in Slots, NEW op \in Methods, NEW keyed \in BOOLEAN, Makes(s, op, keyed)
      PROVE  Kept
  <2>1. /\ Op(s) = "none" /\ Op(s)' = op /\ call'[s].at = First[op]
        /\ awaiting = None /\ awaiting' = s /\ gaveUp = "no"
        /\ \A u \in Slots \ {s} : call'[u] = call[u]
        /\ pc' \notin {"returned", "raised"}
    BY <1>2 DEF Makes, Fresh
  <2>2. \A u \in Slots \ {s} : Op(u)' = "none"
    BY <1>0, <2>1 DEF Released, Op
  <2>3. First["aclose"] = "close"
    BY DEF First
  <2> QED BY <2>1, <2>2, <2>3
<1>3. CASE Begins \/ Buffers \/ Fails
  BY <1>3 DEF Begins, Buffers, Fails, Released, Op
<1>4. ASSUME NEW s \in Slots, Resumes(s) PROVE Kept
  <2>1. /\ Op(s)' = "none"
        /\ pc' = "start" => \A u \in Slots : Op(u)' = "none"
        /\ pc' # "start" => \A u \in Slots \ {s} : call'[u] = call[u]
    BY <1>4, ResumesFacts DEF Op
  <2>2. /\ s # None /\ awaiting = s /\ call[s].at = "done"
        /\ pc' # "start" => gaveUp = "no" /\ reserved' = reserved
    BY <1>0, <1>4 DEF Resumes
  <2>3. \A u \in Slots : Op(u)' = "none"
    BY <2>1, <2>2 DEF Released, Op
  <2>4. pc' \in {"returned", "raised"} => reserved' = None
    <3> SUFFICES ASSUME pc' \in {"returned", "raised"} PROVE reserved' = None
      OBVIOUS
    <3>1. pc \in {"committed", "aborted", "failed"}
      BY <1>4, <2>2 DEF Resumes, Helper, TypeOK
    <3>2. Op(s) = "aclose"
      BY <2>2, <3>1 DEF Helper
    <3> QED BY <2>2, <3>2 DEF Released
  <2> QED BY <2>3, <2>4
<1>5. ASSUME NEW s \in Slots, GivesUp(s) PROVE Kept
  <2>1. gaveUp' # "no"
    BY <1>5 DEF GivesUp
  <2> QED BY <2>1
<1>6. CASE OtherWrite
  <2>1. /\ UNCHANGED <<awaiting, pc, gaveUp>> /\ reserved' = DirtiedIf(reserved)
        /\ \A u \in Slots : Op(u)' = Op(u) /\ call'[u].at = call[u].at
    BY <1>6, OtherWriteFacts DEF Same, Op, progVars
  <2>2. reserved = None => reserved' = None
    BY <2>1 DEF DirtiedIf
  <2> QED BY <2>1, <2>2 DEF Released
<1>7. CASE UNCHANGED vars
  BY <1>7 DEF vars, Released, Op
<1> QED BY <1>1, <1>2, <1>3, <1>4, <1>5, <1>6, <1>7, Steps

-----------------------------------------------------------------------------
(* What a step does to the watches. *)

LEMMA WatchFacts ==
  ASSUME NEW c \in Conns
  PROVE  /\ ~Watches(None) /\ ~Clean(None) /\ ~Watches(NewConnection) /\ ~Clean(NewConnection)
         /\ Watches(DirtiedIf(c)) <=> Watches(c)
         /\ ~Clean(DirtiedIf(c))
         /\ DirtiedIf(c) = None <=> c = None
         /\ c # None => (DirtiedIf(c).srv = "none" <=> c.srv = "none")
<1>1. CASE c = None
  BY <1>1, ConnFacts DEF Watches, Clean, DirtiedIf
<1>2. CASE c # None
  BY <1>2, ConnFacts, DirtiedFacts DEF Watches, Clean
<1> QED BY <1>1, <1>2

(* No watch becomes clean when the calls but that in slot s keep their        *)
(* connections and what s leaves behind was clean before.                     *)
LEMMA CleanKept ==
  ASSUME TypeOK, TypeOK', NEW s \in Slots,
         \A u \in Slots \ {s} : call'[u].conn \in {call[u].conn, DirtiedIf(call[u].conn)},
         Clean(reserved') => HasClean, Clean(call'[s].conn) => HasClean,
         HasClean'
  PROVE  HasClean
<1>1. CASE Clean(reserved') \/ Clean(call'[s].conn)
  BY <1>1
<1>2. ASSUME NEW u \in Slots \ {s}, Clean(call'[u].conn) PROVE HasClean
  <2>1. ~Clean(DirtiedIf(call[u].conn))
    BY TypeFacts, WatchFacts
  <2>2. Clean(call[u].conn)
    BY <1>2, <2>1
  <2> QED BY <2>2 DEF HasClean
<1> QED BY <1>1, <1>2 DEF HasClean

(* A write leaves no clean watch.                                             *)
LEMMA NoneClean ==
  ASSUME TypeOK, NEW s \in Slots,
         \A u \in Slots \ {s} : call'[u].conn = DirtiedIf(call[u].conn),
         reserved' = DirtiedIf(reserved), ~Clean(call'[s].conn)
  PROVE  ~HasClean'
<1>1. ~Clean(reserved') /\ \A u \in Slots : ~Clean(call'[u].conn)
  BY TypeFacts, WatchFacts
<1> QED BY <1>1 DEF HasClean

(* The calls that are in flight with one that is not aclose().                *)
LEMMA Solo ==
  ASSUME TypeOK, Shape, Alone, Counting, NEW s \in Slots, Op(s) \notin {"none", "aclose"}
  PROVE  /\ \A u \in Slots \ {s} : Op(u) \in {"none", "aclose"}
         /\ counts => /\ Op(s) \notin Ending
                      /\ \A u \in Slots \ {s} : ~Watches(call[u].conn)
                      /\ Watches(reserved) \/ Watches(call[s].conn)
<1>1. \A u \in Slots \ {s} : Op(u) \in {"none", "aclose"}
  BY DEF Alone
<1>2. ASSUME counts, NEW u \in Slots \ {s} PROVE ~Watches(call[u].conn)
  <2>1. Op(u) = "none"
    BY <1>1, <1>2 DEF Counting, Ending
  <2>2. call[u].conn = None
    BY <2>1 DEF Shape, ShapeOf, Stages
  <2> QED BY <2>2 DEF Watches
<1> QED BY <1>1, <1>2 DEF Counting

(* A step of a call that is not aclose() keeps the four parts of Orderly if   *)
(* it does what follows.                                                      *)
Fits(s) ==
    /\ call'[s].at \in {"reserve", "trip", "back", "exec"} => reserved' = None
    /\ st'.closed = st.closed
    /\ counts => /\ st.watching => st'.watching
                 /\ Watches(reserved) \/ Watches(call[s].conn)
                       => Watches(reserved') \/ Watches(call'[s].conn)
    /\ awaiting = s /\ Op(s) = "awatch" /\ call'[s].keyed =>
          /\ call'[s].at = "note" => Watches(reserved')
          /\ call'[s].reply = "ok" =>
                /\ call'[s].at = "back" => Watches(call'[s].conn)
                /\ call'[s].at = "done" => Watches(reserved') /\ st'.watching
    /\ seen # NoRead /\ HasClean' => HasClean /\ ver' = ver
    /\ Op(s) = "aget" /\ call'[s].at \in {"back", "done"} /\ call'[s].reply = "ok" /\ HasClean'
          => call'[s].read = ver'
    /\ seen # NoRead => /\ Op(s)' = "awatch" => Rewatching(s)'
                        /\ Op(s)' = "aexecute" => Executing(s)'

LEMMA FitsStep ==
  ASSUME TypeOK, Shape, Order, NEW s \in Slots, Op(s) \notin {"none", "aclose"},
         StepOf(s), Fits(s)
  PROVE  Order'
<1> USE DEF Order
<1>1. /\ UNCHANGED <<awaiting, pc, counts, seen>>
      /\ Op(s)' = Op(s) \/ Op(s)' = "none"
      /\ \A u \in Slots \ {s} : /\ Op(u)' = Op(u) /\ call'[u].at = call[u].at
                                /\ Op(u) \in {"none", "aclose"}
  BY Solo DEF StepOf, Others, Same, Op, progVars
<1>2. Alone'
  <2>1. \A u, v \in Slots : Op(u)' \notin {"none", "aclose"} /\ Op(v)' \notin {"none", "aclose"}
                              => u = v
    BY <1>1
  <2>2. awaiting # None /\ (Op(awaiting))' # "aclose" =>
          \A u \in Slots : Op(u)' # "none" => u = awaiting
    <3> SUFFICES ASSUME awaiting # None, (Op(awaiting))' # "aclose", NEW u \in Slots,
                        Op(u)' # "none"
                 PROVE  u = awaiting
      OBVIOUS
    <3>1. Op(u) # "none"
      BY <1>1
    <3>2. Op(awaiting) # "aclose"
      <4>1. CASE awaiting = s
        BY <4>1
      <4>2. CASE awaiting # s
        BY <1>1, <4>2 DEF TypeOK, Op
      <4> QED BY <4>1, <4>2
    <3> QED BY <3>1, <3>2 DEF Alone
  <2>3. \A u \in Slots : Op(u)' \notin {"none", "aclose"} /\
                           call'[u].at \in {"reserve", "trip", "back", "exec"} => reserved' = None
    BY <1>1 DEF Fits
  <2> QED BY <1>1, <2>1, <2>2, <2>3 DEF Alone, Op
<1>3. Counting'
  <2>1. counts => /\ \A u \in Slots : Op(u)' \notin Ending
                  /\ st'.watching
                  /\ Watches(reserved') \/ \E u \in Slots : Watches(call'[u].conn)
    <3> SUFFICES ASSUME counts PROVE /\ \A u \in Slots : Op(u)' \notin Ending
                                     /\ st'.watching
                                     /\ Watches(reserved') \/ Watches(call'[s].conn)
      OBVIOUS
    <3>1. \A u \in Slots : Op(u)' \notin Ending
      BY <1>1 DEF Counting, Ending
    <3>2. Watches(reserved) \/ Watches(call[s].conn)
      BY Solo
    <3> QED BY <3>1, <3>2 DEF Fits, Counting
  <2>2. ASSUME NEW u \in Slots, awaiting = u, Op(u)' = "awatch", call'[u].keyed
        PROVE  /\ call'[u].at = "note" => Watches(reserved')
               /\ call'[u].reply = "ok" =>
                     /\ call'[u].at = "back" => Watches(call'[u].conn)
                     /\ call'[u].at = "done" => Watches(reserved') /\ st'.watching
    BY <1>1, <2>2 DEF Fits
  <2> QED BY <1>1, <2>1, <2>2 DEF Counting, Op, Watches
<1>4. Current'
  <2>1. seen # NoRead /\ pc = "func" =>
          \/ counts \/ st'.closed \/ \E u \in Slots : Op(u)' = "aclose" /\ call'[u].at = "close"
    BY <1>1 DEF Fits, Current
  <2>2. seen # NoRead /\ HasClean' => seen = ver'
    BY DEF Fits, Current
  <2>3. \A u \in Slots : Op(u)' = "aget" /\ call'[u].at \in {"back", "done"}
                           /\ call'[u].reply = "ok" /\ HasClean' => call'[u].read = ver'
    BY <1>1 DEF Fits
  <2> QED BY <1>1, <2>1, <2>2, <2>3 DEF Current, Op
<1>5. Remembering'
  BY <1>1 DEF Fits, Remembering, Op
<1> QED BY <1>2, <1>3, <1>4, <1>5

(* A call that ends.                                                          *)
LEMMA EndsFits ==
  ASSUME TypeOK, Shape, Order, NEW s \in Slots, Op(s) \notin {"none", "aclose"}, StepOf(s),
         NEW r \in Replies, Ends(s, r), st'.closed = st.closed, ver' = ver,
         counts /\ st.watching => st'.watching,
         Clean(reserved') => HasClean,
         counts /\ (Watches(reserved) \/ Watches(call[s].conn)) => Watches(reserved'),
         awaiting = s /\ Op(s) = "awatch" /\ call[s].keyed /\ r = "ok"
            => Watches(reserved') /\ st'.watching,
         Op(s) = "aget" /\ r = "ok" => call[s].at = "back" /\ call[s].reply = "ok"
  PROVE  Fits(s)
<1>1. /\ call'[s].conn = None
      /\ \A u \in Slots \ {s} : call'[u] = call[u]
      /\ awaiting = s => /\ call'[s].at = "done" /\ call'[s].keyed = call[s].keyed
                         /\ call'[s].read = call[s].read /\ call'[s].reply = r
      /\ awaiting # s => Op(s)' = "none" /\ call'[s].at = "idle"
  BY EndsFacts DEF Op
<1>2. HasClean' => HasClean
  <2>1. ~Clean(call'[s].conn) /\ TypeOK'
    BY <1>1 DEF Clean, StepOf
  <2> QED BY <1>1, <2>1, CleanKept
<1>3. seen # NoRead => /\ Op(s)' = "awatch" => Rewatching(s)'
                       /\ Op(s)' = "aexecute" => Executing(s)'
  BY <1>1 DEF Rewatching, Executing
<1>4. Op(s) = "aget" /\ call'[s].at \in {"back", "done"} /\ call'[s].reply = "ok" /\ HasClean'
         => call'[s].read = ver'
  BY <1>1, <1>2 DEF Order, Current
<1>5. call'[s].at \in {"done", "idle"}
  BY <1>1
<1> QED BY <1>1, <1>2, <1>3, <1>4, <1>5 DEF Fits

(* A call that goes on.                                                       *)
LEMMA MovesFits ==
  ASSUME TypeOK, Shape, Order, NEW s \in Slots, Op(s) \notin {"none", "aclose"}, StepOf(s),
         NEW at, NEW c, Moves(s, at, c), at # "done", st' = st, ver' = ver,
         at \in {"reserve", "trip", "back", "exec"} => reserved' = None,
         Clean(reserved') => HasClean,
         seen # NoRead \/ Op(s) = "aget" => (Clean(c) => HasClean),
         counts /\ (Watches(reserved) \/ Watches(call[s].conn))
            => Watches(reserved') \/ Watches(c),
         awaiting = s /\ Op(s) = "awatch" /\ call'[s].keyed =>
            /\ at = "back" /\ call'[s].reply = "ok" => Watches(c)
            /\ at = "note" => Watches(reserved'),
         Op(s) = "aget" /\ at = "back" /\ call'[s].reply = "ok" => call'[s].read = ver,
         seen # NoRead => /\ Op(s)' = "awatch" => Rewatching(s)'
                          /\ Op(s)' = "aexecute" => Executing(s)'
  PROVE  Fits(s)
<1>1. /\ call'[s].at = at /\ call'[s].conn = c
      /\ \A u \in Slots \ {s} : call'[u] = call[u]
  BY DEF Moves, Keeps
<1>2. seen # NoRead \/ Op(s) = "aget" => (HasClean' => HasClean)
  <2>1. TypeOK'
    BY DEF StepOf
  <2> QED BY <1>1, <2>1, CleanKept
<1> QED BY <1>1, <1>2 DEF Fits

(* WATCH on a connection: a watch that is there stays as it is.               *)
LEMMA SentFacts ==
  ASSUME NEW c \in Connections, NEW o \in Trips
  PROVE  /\ Watches(c) \/ Answer(o) = "ok" => Watches(WatchSent(c, o))
         /\ c.srv # "none" /\ Clean(WatchSent(c, o)) => Clean(c)
<1>1. c # None /\ WatchSent(c, o) # None
  BY ConnFacts, TripFacts
<1>2. Watched(c.srv) # "none" /\ (c.srv # "none" => Watched(c.srv) = c.srv)
  BY DEF Watched, Connections
<1>3. Answer(o) = "ok" => o = "ok" /\ o # "refused"
  BY DEF Answer
<1> QED BY <1>1, <1>2, <1>3, TripFacts DEF Watches, Clean

LEMMA AwatchFits ==
  ASSUME TypeOK, Shape, Order, NEW s \in Slots, StepOf(s),
         AwatchChecks(s) \/ AwatchReserves(s) \/ AwatchNotes(s)
         \/ \E o \in Trips : AwatchSends(s, o)
  PROVE  Fits(s) /\ Op(s) = "awatch"
<1> USE TypeFacts DEF Order
<1>0. /\ Op(s) = "awatch" /\ ver' = ver /\ call[s] \in CallType
      /\ call[s].at \notin {"trip", "back"} => call[s].conn = None /\ ~Watches(call[s].conn)
  BY DEF AwatchChecks, AwatchReserves, AwatchNotes, AwatchSends, At, Op, serverVars, Shape,
         ShapeOf, Watches, Stages
<1>r. seen # NoRead => Rewatching(s)
  BY <1>0 DEF Remembering
<1>c. Clean(reserved) => HasClean
  BY DEF HasClean
<1>1. CASE AwatchChecks(s)
  <2>0. st' = st /\ reserved' = reserved /\ call[s].at = "check"
    BY <1>1 DEF AwatchChecks, At
  <2>1. CASE Ends(s, "error")
    BY <1>0, <1>c, <2>0, <2>1, EndsFits DEF Replies
  <2>2. CASE ~st.closed /\ Goto(s, IF reserved = None THEN "reserve" ELSE "take")
    <3> DEFINE at == IF reserved = None THEN "reserve" ELSE "take"
    <3>1. Moves(s, at, None) /\ at \in {"reserve", "take"}
      BY <1>0, <2>0, <2>2 DEF Goto, Moves, Keeps, CallType, Op
    <3>2. seen # NoRead => Rewatching(s)'
      BY <1>r, <2>0, <2>2, <3>1 DEF Rewatching, Moves
    <3>3. at = "reserve" => reserved' = None
      BY <2>0
    <3> HIDE DEF at
    <3> QED BY <1>0, <1>c, <2>0, <3>1, <3>2, <3>3, WatchFacts, MovesFits DEF Moves
  <2> QED BY <1>1, <2>0, <2>1, <2>2 DEF AwatchChecks
<1>2. CASE AwatchReserves(s)
  <2>0. st' = st /\ call[s].at = "reserve" /\ reserved = None /\ seen = NoRead
    BY <1>0, <1>2, <1>r DEF AwatchReserves, At, Alone, Rewatching
  <2>1. CASE Ends(s, "error") /\ reserved' = reserved
    BY <1>0, <1>c, <2>0, <2>1, EndsFits DEF Replies
  <2>2. CASE reserved' = NewConnection /\ Goto(s, "take")
    <3>1. Moves(s, "take", None)
      BY <1>0, <2>0, <2>2 DEF Goto, Moves, Keeps, CallType, Op
    <3>2. ~Watches(reserved) /\ ~Clean(reserved') /\ ~Watches(call[s].conn)
      BY <1>0, <2>0, <2>2, ConnFacts DEF Watches, Clean
    <3> QED BY <1>0, <2>0, <3>1, <3>2, MovesFits
  <2> QED BY <1>2, <2>1, <2>2 DEF AwatchReserves
<1>3. CASE AwatchNotes(s)
  <2>0. /\ st' = [st EXCEPT !.watching = TRUE, !.keys = @ \/ call[s].keyed]
        /\ reserved' = reserved /\ call[s].at = "note" /\ Ends(s, "ok")
    BY <1>3 DEF AwatchNotes, At
  <2>1. st'.closed = st.closed /\ st'.watching
    BY <2>0 DEF States
  <2>2. awaiting = s /\ call[s].keyed => Watches(reserved')
    BY <1>0, <2>0 DEF Counting
  <2> QED BY <1>0, <1>c, <2>0, <2>1, <2>2, EndsFits DEF Replies
<1>4. ASSUME NEW o \in Trips, AwatchSends(s, o) PROVE Fits(s)
  <2>0. st' = st /\ reserved' = reserved /\ call[s].at = "trip" /\ reserved = None
        /\ call[s].conn \in Connections
    BY <1>0, <1>4 DEF AwatchSends, At, Alone, Shape, ShapeOf, CallType
  <2> DEFINE c == IF call[s].keyed THEN WatchSent(call[s].conn, o) ELSE call[s].conn
  <2>1. c \in Connections
    BY <2>0, TripFacts
  <2>2. /\ Moves(s, "back", c) /\ call'[s].keyed = call[s].keyed
        /\ call'[s].reply = Answer(o)
    <3>1. Trip(s, c, Answer(o)) /\ Answer(o) \in Replies
      BY <1>4 DEF AwatchSends, Answer, Replies
    <3> QED BY <2>1, <3>1, TripMoves DEF Conns
  <2>3. call[s].keyed /\ Answer(o) = "ok" => Watches(c)
    BY <2>0, SentFacts, TripFacts
  <2>4. Watches(call[s].conn) => Watches(c)
    BY <2>0, SentFacts, TripFacts
  <2>5. seen # NoRead /\ Clean(c) => HasClean
    <3>1. seen # NoRead => call[s].conn.srv # "none"
      BY <1>r, <2>0 DEF Rewatching
    <3>2. seen # NoRead /\ Clean(c) => Clean(call[s].conn)
      BY <2>0, <3>1, SentFacts
    <3> QED BY <3>2 DEF HasClean
  <2>6. Rewatching(s)'
    BY <2>2 DEF Rewatching, Moves
  <2>7. ~Watches(reserved) /\ ~Clean(reserved')
    BY <2>0 DEF Watches, Clean
  <2> HIDE DEF c
  <2> QED BY <1>0, <2>0, <2>2, <2>3, <2>4, <2>5, <2>6, <2>7, MovesFits DEF Moves
<1> QED BY <1>0, <1>1, <1>2, <1>3, <1>4

LEMMA TakesFits ==
  ASSUME TypeOK, Shape, Order, NEW s \in Slots, StepOf(s), Takes(s)
  PROVE  Fits(s) /\ Op(s) \notin {"none", "aclose"}
<1> USE TypeFacts DEF Order
<1>0. /\ Op(s) \in {"awatch", "aunwatch", "adiscard", "aget", "aset"} /\ call[s].at = "take"
      /\ reserved' = None /\ ver' = ver /\ st' = st /\ call[s].conn = None
      /\ ~Watches(call[s].conn) /\ ~Watches(reserved') /\ ~Clean(reserved')
  BY DEF Takes, At, Op, serverVars, Shape, ShapeOf, Watches, Clean
<1>1. CASE Ends(s, "panic") /\ reserved = None
  <2>1. ~Watches(reserved)
    BY <1>1 DEF Watches
  <2> QED BY <1>0, <1>1, <2>1, EndsFits DEF Replies
<1>2. CASE /\ call' = [call EXCEPT ![s].conn = reserved, ![s].at = "trip"]
           /\ Op(s) = "awatch" => reserved # None
  <2>1. Moves(s, "trip", reserved)
    BY <1>2, ConnMoves
  <2>2. seen # NoRead /\ Op(s)' = "awatch" => Rewatching(s)'
    <3>1. seen # NoRead /\ Op(s) = "awatch" => Rewatching(s)
      BY DEF Remembering
    <3> QED BY <1>0, <1>2, <2>1, <3>1 DEF Rewatching, Moves
  <2>3. Op(s)' # "aexecute"
    BY <1>0, <2>1 DEF Moves
  <2>4. Clean(reserved) => HasClean
    BY DEF HasClean
  <2> QED BY <1>0, <2>1, <2>2, <2>3, <2>4, MovesFits
<1> QED BY <1>0, <1>1, <1>2 DEF Takes, Op

(* UNWATCH, GET and the immediate commands that find no connection.           *)
LEMMA TripsFits ==
  ASSUME TypeOK, Shape, Order, NEW s \in Slots, StepOf(s),
         NoReservation(s) \/ \E o \in Trips : UnwatchSends(s, o) \/ AgetSends(s, o)
  PROVE  Fits(s) /\ Op(s) \notin {"none", "aclose"}
<1> USE TypeFacts DEF Order
<1>0. /\ Op(s) \in {"aunwatch", "adiscard", "aget", "aset"} /\ call[s].at = "trip"
      /\ reserved' = reserved /\ ver' = ver /\ st' = st /\ reserved = None
      /\ ~Watches(reserved) /\ ~Clean(reserved')
  <2>1. /\ Op(s) \in {"aunwatch", "adiscard", "aget", "aset"} /\ call[s].at = "trip"
        /\ reserved' = reserved /\ ver' = ver /\ st' = st
    BY DEF NoReservation, UnwatchSends, AgetSends, At, Op, serverVars
  <2> QED BY <2>1 DEF Alone, Watches, Clean
<1>1. ASSUME NEW c \in Conns, Moves(s, "back", c),
             Clean(c) => Clean(call[s].conn),
             counts /\ Watches(call[s].conn) => Watches(c),
             Op(s) = "aget" /\ call'[s].reply = "ok" => call'[s].read = ver
      PROVE  Fits(s)
  <2>1. Op(s)' \notin {"awatch", "aexecute"}
    BY <1>0, <1>1 DEF Moves
  <2>2. Clean(c) => HasClean
    BY <1>1 DEF HasClean
  <2> QED BY <1>0, <1>1, <2>1, <2>2, MovesFits
<1>2. CASE NoReservation(s)
  <2>1. Trip(s, None, "error") /\ call[s].conn = None /\ None \in Conns /\ "error" \in Replies
    BY <1>2 DEF NoReservation, Conns, Replies
  <2>2. Moves(s, "back", None) /\ call'[s].reply = "error"
    BY <2>1, TripMoves
  <2> QED BY <1>0, <1>1, <2>1, <2>2
<1>3. ASSUME NEW o \in Trips, UnwatchSends(s, o) PROVE Fits(s)
  <2>1. Op(s) \in {"aunwatch", "adiscard"} /\ ~counts
    BY <1>3 DEF UnwatchSends, At, Op, Counting, Ending
  <2>2. PICK c \in Conns, r \in Replies : Trip(s, c, r) /\ (Clean(c) => Clean(call[s].conn))
    <3>1. CASE call[s].conn # None /\ call[s].conn.watched
      <4>1. /\ call[s].conn \in Connections
            /\ Unwatched(call[s].conn, o) \in Conns
            /\ Clean(Unwatched(call[s].conn, o)) => Clean(call[s].conn)
        <5>1. call[s].conn \in Connections
          BY <3>1 DEF Conns
        <5>2. /\ Unwatched(call[s].conn, o) \in Connections
              /\ Unwatched(call[s].conn, o).srv \in {call[s].conn.srv, "none"}
          BY <5>1, TripFacts
        <5> QED BY <3>1, <5>1, <5>2 DEF Conns, Clean
      <4>2. PICK r \in Replies : Trip(s, Unwatched(call[s].conn, o), r)
        <5>1. Answer(o) \in Replies /\ "ok" \in Replies
          BY DEF Answer, Replies
        <5>2. \/ Trip(s, Unwatched(call[s].conn, o), Answer(o))
              \/ Trip(s, Unwatched(call[s].conn, o), "ok")
          BY <1>3, <3>1 DEF UnwatchSends
        <5> QED BY <5>1, <5>2
      <4> QED BY <4>1, <4>2
    <3>2. CASE ~(call[s].conn # None /\ call[s].conn.watched)
      BY <1>3, <3>2 DEF UnwatchSends, Replies
    <3> QED BY <3>1, <3>2
  <2>3. Moves(s, "back", c)
    BY <2>2, TripMoves
  <2> QED BY <1>1, <2>1, <2>2, <2>3
<1>4. ASSUME NEW o \in Trips, AgetSends(s, o) PROVE Fits(s)
  <2>1. Answer(o) \in Replies /\ ver \in Nat
    BY DEF Answer, Replies, TypeOK
  <2>2. [call[s] EXCEPT !.read = ver, !.reply = Answer(o), !.at = "back"] \in CallType
    BY <2>1 DEF CallType
  <2>3. call' = [call EXCEPT ![s] = [call[s] EXCEPT !.read = ver, !.reply = Answer(o),
                                                    !.at = "back"]]
    BY <1>4 DEF AgetSends, CallType
  <2>4. Moves(s, "back", call[s].conn) /\ call'[s].read = ver
    BY <2>2, <2>3 DEF Moves, Keeps, CallType, Op
  <2> QED BY <1>1, <2>4
<1> QED BY <1>0, <1>2, <1>3, <1>4

LEMMA PutsBackFits ==
  ASSUME TypeOK, Shape, Order, NEW s \in Slots, StepOf(s), PutsBack(s)
  PROVE  Fits(s) /\ Op(s) \notin {"none", "aclose"}
<1> USE TypeFacts DEF Order
<1>1. /\ Op(s) \in {"awatch", "aunwatch", "adiscard", "aget", "aset"} /\ call[s].at = "back"
      /\ reserved' = call[s].conn /\ ver' = ver /\ call[s].reply \in Replies
  BY PutsBackStep DEF PutsBack, serverVars, CallType
<1>2. reserved = None /\ ~Watches(reserved)
  BY <1>1 DEF Alone, Watches
<1>3. /\ Op(s) \in {"awatch", "aget", "aset"} => st' = st
      /\ st'.closed = st.closed
  <2>1. [st EXCEPT !.keys = FALSE, !.watching = FALSE].closed = st.closed
        /\ [NewState EXCEPT !.closed = st.closed].closed = st.closed
    BY DEF States
  <2> QED BY <1>1, <2>1 DEF PutsBack, Op
<1>4. counts => Op(s) \in {"awatch", "aget", "aset"}
  BY <1>1 DEF Counting, Ending
<1>5. Clean(reserved') => HasClean
  BY <1>1 DEF HasClean
<1>6. awaiting = s /\ Op(s) = "awatch" /\ call[s].keyed /\ call[s].reply = "ok"
        => Watches(reserved')
  BY <1>1 DEF Counting
<1>7. CASE Ends(s, call[s].reply) /\ ~(Op(s) = "awatch" /\ call[s].reply = "ok")
  BY <1>1, <1>2, <1>3, <1>4, <1>5, <1>7, EndsFits
<1>8. CASE /\ Op(s) = "awatch" /\ call[s].reply = "ok"
           /\ call' = [call EXCEPT ![s].conn = None, ![s].at = "note"]
  <2>1. Moves(s, "note", None) /\ call'[s].keyed = call[s].keyed
    BY <1>8, ConnMoves DEF Conns
  <2>2. Rewatching(s)' /\ Op(s)' # "aexecute"
    BY <1>8, <2>1 DEF Rewatching, Moves
  <2>3. ~Clean(None)
    BY DEF Clean
  <2> QED BY <1>1, <1>2, <1>3, <1>5, <1>6, <1>8, <2>1, <2>2, <2>3, MovesFits
<1> QED BY <1>1, <1>7, <1>8 DEF PutsBack, Op

LEMMA AsetFits ==
  ASSUME TypeOK, Shape, Order, NEW s \in Slots, StepOf(s), NEW o \in Trips, AsetSends(s, o)
  PROVE  Fits(s) /\ Op(s) \notin {"none", "aclose"}
<1> USE TypeFacts DEF Order
<1>0. /\ Op(s) = "aset" /\ call[s].at = "trip" /\ st' = st /\ reserved = None
      /\ ~Watches(reserved) /\ call[s].conn \in Connections
  <2>1. Op(s) = "aset" /\ call[s].at = "trip" /\ st' = st /\ call[s].conn \in Connections
    BY DEF AsetSends, At, Op, Conns
  <2> QED BY <2>1 DEF Alone, Watches
<1>1. CASE Trip(s, call[s].conn, "error") /\ UNCHANGED <<serverVars, reserved>>
  <2>1. Moves(s, "back", call[s].conn) /\ reserved' = reserved /\ ver' = ver
    BY <1>1, TripMoves DEF Replies, serverVars
  <2>2. Op(s)' \notin {"awatch", "aexecute"}
    BY <1>0, <2>1 DEF Moves
  <2>3. Clean(call[s].conn) => HasClean
    BY DEF HasClean
  <2>4. ~Clean(reserved')
    BY <1>0, <2>1 DEF Clean
  <2> QED BY <1>0, <2>1, <2>2, <2>3, <2>4, MovesFits
<1>2. CASE BareWrite /\ call' = [Touched(call) EXCEPT ![s].reply = Answer(o), ![s].at = "back"]
  <2> DEFINE t == Touched(call)
             c == DirtiedIf(call[s].conn)
  <2>1. t \in [Slots -> CallType] /\ Answer(o) \in Replies /\ t[s].conn = c /\ c \in Conns
    BY TouchedFacts, DirtiedFacts DEF Answer, Replies, CallType
  <2>2. call' = Written(s, "back", c, Answer(o))
    <3>1. call' = [t EXCEPT ![s].reply = Answer(o), ![s].at = "back"]
      BY <1>2
    <3>2. Written(s, "back", c, Answer(o))
            = [t EXCEPT ![s].conn = c, ![s].reply = Answer(o), ![s].at = "back"]
      BY DEF Written
    <3> HIDE DEF t, c
    <3> QED BY <2>1, <3>1, <3>2 DEF CallType
  <2>3. /\ Op(s)' = Op(s) /\ call'[s].at = "back" /\ call'[s].conn = c
        /\ \A u \in Slots \ {s} : call'[u].conn = DirtiedIf(call[u].conn)
    BY <2>1, <2>2, TouchedOthers
  <2>4. reserved' = DirtiedIf(reserved) /\ reserved' = None
    BY <1>0, <1>2 DEF BareWrite, Touch, DirtiedIf
  <2>5. (Watches(c) <=> Watches(call[s].conn)) /\ ~Clean(c)
    BY WatchFacts
  <2>6. ~HasClean'
    BY <2>3, <2>4, <2>5, NoneClean
  <2> HIDE DEF c
  <2> QED BY <1>0, <2>3, <2>4, <2>5, <2>6 DEF Fits
<1> QED BY <1>0, <1>1, <1>2 DEF AsetSends

LEMMA ExecuteFits ==
  ASSUME TypeOK, Shape, Order, NEW s \in Slots, StepOf(s),
         AexecuteCopies(s) \/ AexecuteLooks(s) \/ AexecuteTakes(s) \/ AexecuteClears(s)
  PROVE  Fits(s) /\ Op(s) \notin {"none", "aclose"}
<1> USE TypeFacts DEF Order
<1>0. /\ Op(s) = "aexecute" /\ ver' = ver /\ ~counts /\ call[s].reply \in Replies
      /\ call[s].at \in {"copy", "look", "take"} => call[s].conn = None
  BY DEF AexecuteCopies, AexecuteLooks, AexecuteTakes, AexecuteClears, At, Op, serverVars,
         Shape, ShapeOf, Counting, Ending, CallType
<1>r. seen # NoRead => Executing(s)
  BY <1>0 DEF Remembering
<1>c. Clean(reserved) => HasClean
  BY DEF HasClean
<1>n. ~Clean(None)
  BY DEF Clean
<1>1. CASE AexecuteCopies(s)
  <2>0. st' = st /\ reserved' = reserved /\ call[s].at = "copy"
    BY <1>1 DEF AexecuteCopies, At
  <2>1. CASE \E r \in {"error", "ok"} : Ends(s, r)
    BY <1>0, <1>c, <2>0, <2>1, EndsFits DEF Replies
  <2>2. CASE ~st.closed /\ call' = [call EXCEPT ![s].snap = st, ![s].at = "look"]
    <3>1. Moves(s, "look", None) /\ call'[s].snap = st
      BY <1>0, <2>0, <2>2 DEF Moves, Keeps, CallType, Op
    <3>2. seen # NoRead => Executing(s)'
      BY <1>r, <2>0, <2>2, <3>1 DEF Executing, Moves
    <3> QED BY <1>0, <1>c, <1>n, <2>0, <3>1, <3>2, MovesFits DEF Moves
  <2> QED BY <1>0, <1>1, <2>1, <2>2 DEF AexecuteCopies
<1>2. CASE AexecuteLooks(s)
  <2>0. st' = st /\ reserved' = reserved /\ call[s].at = "look"
    BY <1>2 DEF AexecuteLooks, At
  <2> DEFINE at == IF call[s].snap.watching \/ (call[s].snap.explicit /\ reserved # None)
                   THEN "take" ELSE "plain"
  <2>1. Goto(s, at)
    BY <1>2 DEF AexecuteLooks
  <2>2. Moves(s, at, None) /\ at \in {"take", "plain"}
    BY <1>0, <2>0, <2>1 DEF Goto, Moves, Keeps, CallType, Op
  <2>3. seen # NoRead => at = "take" /\ (reserved = None \/ Watches(reserved))
    BY <1>r, <2>0 DEF Executing
  <2> HIDE DEF at
  <2>4. seen # NoRead => Executing(s)'
    <3>1. call'[s].at = at
      BY <2>2 DEF Moves
    <3> QED BY <2>0, <2>3, <3>1 DEF Executing, Watches
  <2> QED BY <1>0, <1>c, <1>n, <2>0, <2>2, <2>4, MovesFits DEF Moves
<1>3. CASE AexecuteTakes(s)
  <2>0. st' = st /\ reserved' = None /\ call[s].at = "take"
    BY <1>3 DEF AexecuteTakes, At
  <2>1. Moves(s, "exec", reserved)
    BY <1>3, ConnMoves DEF AexecuteTakes
  <2>2. seen # NoRead => Executing(s)'
    BY <1>r, <2>0, <2>1 DEF Executing, Moves, Watches
  <2> QED BY <1>0, <1>c, <1>n, <2>0, <2>1, <2>2, MovesFits DEF Moves
<1>4. CASE AexecuteClears(s)
  <2>1. Ends(s, call[s].reply) /\ reserved' \in {reserved, None}
    BY <1>4 DEF AexecuteClears
  <2>2. st'.closed = st.closed
    <3>1. [NewState EXCEPT !.closed = st.closed].closed = st.closed
          /\ [st EXCEPT !.commands = {}, !.explicit = FALSE].closed = st.closed
      BY DEF States
    <3> QED BY <1>4, <3>1 DEF AexecuteClears
  <2> QED BY <1>0, <1>c, <1>n, <2>1, <2>2, EndsFits
<1> QED BY <1>0, <1>1, <1>2, <1>3, <1>4

(* The block is sent: on a watch that is clean and so current, or not at all, *)
(* when something was read.                                                   *)
LEMMA SendsFits ==
  ASSUME TypeOK, Shape, Order, NEW s \in Slots, StepOf(s),
         \E o \in Trips : ExecSends(s, o) \/ PlainSends(s, o)
  PROVE  Fits(s) /\ Op(s) \notin {"none", "aclose"}
<1> USE TypeFacts DEF Order
<1>1. /\ Sends(s) /\ st' = st
      /\ \/ call[s].at = "exec" /\ call'[s].at = "clear"
         \/ call[s].at = "plain" /\ call'[s].at = "clearPlain"
      /\ Op(s) = "aexecute" /\ ~counts
  BY SendsStep DEF Sends, Counting, Ending
<1>2. seen # NoRead => call[s].at = "exec" /\ Executing(s)'
  BY <1>1 DEF Remembering, Executing
<1>3. ~Clean(call'[s].conn)
  BY <1>1, ConnFacts DEF Sends, Clean
<1>4. HasClean' => HasClean /\ ver' = ver
  <2>1. CASE UNCHANGED <<ver, applied, reserved>> /\ Keeps(s)
    <3>1. TypeOK' /\ (Clean(reserved') => HasClean)
          /\ \A u \in Slots \ {s} : call'[u].conn = call[u].conn
      BY <2>1 DEF StepOf, HasClean, Keeps
    <3> QED BY <1>3, <2>1, <3>1, CleanKept
  <2>2. CASE /\ reserved' = DirtiedIf(reserved)
             /\ \A u \in Slots \ {s} : call'[u].conn = DirtiedIf(call[u].conn)
    BY <1>3, <2>2, NoneClean
  <2> QED BY <1>1, <2>1, <2>2 DEF Sends
<1>5. Op(s)' # "awatch"
  BY <1>1 DEF StepOf
<1> QED BY <1>1, <1>2, <1>4, <1>5 DEF Fits

-----------------------------------------------------------------------------
(* The other steps keep Order. *)

LEMMA AcloseKeepsOrder ==
  ASSUME TypeOK, Shape, Helper, Order, NEW s \in Slots, StepOf(s), Op(s) = "aclose",
         AcloseTakes(s) \/ AcloseEnds(s)
  PROVE  Order'
<1> USE TypeFacts DEF Order
<1>0. /\ UNCHANGED <<awaiting, pc, counts, seen, ver>> /\ ~counts
      /\ Op(s)' \in {"aclose", "none"}
      /\ awaiting \in Slots \cup {None}
      /\ \A u \in Slots : Op(u) = "awatch" => awaiting # u
  <2>1. UNCHANGED <<awaiting, pc, counts, seen, ver>> /\ ~counts /\ Op(s)' \in {"aclose", "none"}
    BY DEF StepOf, progVars, AcloseTakes, AcloseEnds, serverVars, Counting, Ending
  <2>2. \A u \in Slots : Op(u) = "awatch" => awaiting # u
    BY ConnFacts DEF Alone
  <2> QED BY <2>1, <2>2 DEF TypeOK
<1>1. /\ \A u \in Slots \ {s} : call'[u] = call[u]
      /\ Clean(call'[s].conn) => HasClean
      /\ reserved' \in {None, reserved}
      /\ \/ st' = st /\ reserved' = reserved /\ call[s].at # "close"
         \/ st'.closed /\ reserved' = None
  <2>1. CASE AcloseTakes(s)
    <3>1. Moves(s, "unwatch", reserved)
      BY <2>1, ConnMoves DEF AcloseTakes
    <3>2. [NewState EXCEPT !.closed = TRUE].closed
      BY DEF States
    <3> QED BY <2>1, <3>1, <3>2 DEF AcloseTakes, Moves, Keeps, HasClean
  <2>2. CASE AcloseEnds(s)
    <3>1. Keeps(s) /\ call'[s].conn = None
      BY <2>2, EndsFacts DEF AcloseEnds, Replies, Keeps
    <3>2. ~Clean(None)
      BY DEF Clean
    <3> QED BY <2>2, <3>1, <3>2 DEF AcloseEnds, At, Keeps
  <2> QED BY <2>1, <2>2
<1>2. HasClean' => HasClean
  <2>1. TypeOK' /\ (Clean(reserved') => HasClean)
    BY <1>1 DEF StepOf, HasClean, Clean
  <2> QED BY <1>1, <2>1, CleanKept
<1>3. Alone'
  <2>1. awaiting = s => Op(s)' = "aclose"
    BY DEF StepOf
  <2>2. /\ \A u, v \in Slots : Op(u)' \notin {"none", "aclose"}
                               /\ Op(v)' \notin {"none", "aclose"} => u = v
        /\ \A u \in Slots : Op(u)' \notin {"none", "aclose"} /\
                              call'[u].at \in {"reserve", "trip", "back", "exec"}
                                => reserved' = None
    BY <1>0, <1>1 DEF Alone, Op
  <2>3. ASSUME awaiting # None, call'[awaiting].op # "aclose", NEW u \in Slots, Op(u)' # "none"
        PROVE  u = awaiting
    <3>1. awaiting # s /\ awaiting \in Slots /\ Op(awaiting) # "aclose"
      BY <1>0, <1>1, <2>1, <2>3 DEF Op
    <3>2. Op(s) # "none" => s = awaiting
      BY <2>3, <3>1 DEF Alone
    <3> QED BY <3>1, <3>2
  <2> QED BY <1>0, <2>2, <2>3 DEF Alone, Op
<1>4. Counting'
  BY <1>0, <1>1 DEF Counting, Op
<1>5. Current'
  <2>1. seen # NoRead /\ pc = "func" =>
          \/ st'.closed
          \/ \E u \in Slots : Op(u)' = "aclose" /\ call'[u].at = "close"
    <3>1. CASE st'.closed
      BY <3>1
    <3>2. CASE st' = st /\ call[s].at # "close"
      BY <1>0, <1>1, <3>2 DEF Current, Op
    <3> QED BY <1>1, <3>1, <3>2
  <2>2. seen # NoRead /\ HasClean' => seen = ver
    BY <1>2 DEF Current
  <2>3. \A u \in Slots : Op(u)' = "aget" /\ call'[u].at \in {"back", "done"}
                           /\ call'[u].reply = "ok" /\ HasClean' => call'[u].read = ver
    BY <1>0, <1>1, <1>2 DEF Current, Op
  <2> QED BY <1>0, <2>1, <2>2, <2>3 DEF Current, Op
<1>6. Remembering'
  <2>1. ASSUME NEW u \in Slots \ {s}, Op(u) = "awatch", Rewatching(u) PROVE Rewatching(u)'
    BY <1>1, <2>1 DEF Rewatching
  <2>2. ASSUME NEW u \in Slots \ {s}, Op(u) = "aexecute", Executing(u) PROVE Executing(u)'
    BY <1>1, <2>2 DEF Executing, Watches
  <2> QED BY <1>0, <1>1, <2>1, <2>2 DEF Remembering, Op
<1> QED BY <1>3, <1>4, <1>5, <1>6

LEMMA TaskKeepsOrder ==
  ASSUME TypeOK, Shape, Helper, Order, NEW s \in Slots, TaskStep(s)
  PROVE  Order'
<1>1. StepOf(s)
  BY TaskSteps
<1>2. CASE Op(s) = "aclose"
  BY <1>1, <1>2, AcloseFacts, AcloseKeepsOrder
<1>3. CASE Op(s) # "aclose"
  <2>1. Op(s) \notin {"none", "aclose"}
    BY <1>1, <1>3 DEF StepOf
  <2>2. ~AcloseTakes(s) /\ ~AcloseEnds(s)
    BY <1>3 DEF AcloseTakes, AcloseEnds, At, Op
  <2>3. Fits(s)
    BY <1>1, <2>2, AwatchFits, TakesFits, TripsFits, PutsBackFits, AsetFits, ExecuteFits, SendsFits
       DEF TaskStep
  <2> QED BY <1>1, <2>1, <2>3, FitsStep
<1> QED BY <1>2, <1>3

(* A call is made: no other is in flight, or it is aclose().                  *)
LEMMA MakesKeepsOrder ==
  ASSUME TypeOK, Shape, Helper, Order, NEW s \in Slots, NEW op \in Methods, NEW keyed \in BOOLEAN,
         Makes(s, op, keyed), gaveUp' # "overlapped"
  PROVE  Order'
<1> USE TypeFacts DEF Order
<1>0. /\ Op(s) = "none" /\ Op(s)' = op /\ call'[s].at = First[op] /\ call'[s].conn = None
      /\ awaiting = None /\ awaiting' = s /\ s # None
      /\ \A u \in Slots \ {s} : call'[u] = call[u]
      /\ counts' = (counts /\ op \notin Ending)
      /\ seen' = IF op \in {"aunwatch", "adiscard"} THEN NoRead ELSE seen
      /\ UNCHANGED <<ver, st, reserved>>
      /\ op # "aclose" => \A u \in Slots : Op(u) = "none"
  BY ConnFacts DEF Makes, Fresh, InFlight, serverVars, Op
<1>1. First[op] \in {"check", "take", "copy", "close"} /\ (op = "aclose" => First[op] = "close")
      /\ (op = "awatch" => First[op] = "check") /\ (op = "aexecute" => First[op] = "copy")
  BY DEF First, Methods, Ops
<1>2. \A u \in Slots : Op(u) = "none" => call[u].conn = None
  BY DEF Shape, ShapeOf, Stages
<1>3. ~Clean(None) /\ ~Watches(None)
  BY DEF Clean, Watches
<1>4. HasClean' => HasClean
  <2>1. TypeOK' /\ (Clean(reserved') => HasClean)
    <3>1. pc' \in {"start", "watch", "func", "execute", "committed", "aborted", "failed",
                   "returned", "raised"}
      BY DEF Makes
    <3> QED BY <1>0, <3>1, SpawnStep DEF Makes, HasClean
  <2> QED BY <1>0, <1>3, <2>1, CleanKept
<1>5. \A u \in Slots : call'[u].conn = call[u].conn
  BY <1>0, <1>2
<1>6. CASE op # "aclose"
  <2>0. /\ \A u \in Slots \ {s} : Op(u)' = "none"
        /\ counts => Watches(reserved) /\ st.watching
    <3>1. \A u \in Slots : ~Watches(call[u].conn)
      BY <1>0, <1>2, <1>3, <1>6
    <3> QED BY <1>0, <1>6, <3>1 DEF Counting, Op
  <2>1. Alone'
    BY <1>0, <1>1, <2>0 DEF Alone, Op
  <2>2. Counting'
    BY <1>0, <1>1, <2>0 DEF Counting, Op, Watches, Ending
  <2>3. Current'
    <3>1. seen' # NoRead /\ pc' = "func" => counts' \/ st'.closed
      <4> SUFFICES ASSUME seen' # NoRead, pc' = "func" PROVE counts' \/ st'.closed
        OBVIOUS
      <4>1. pc = "func" /\ op \notin {"aunwatch", "adiscard", "aexecute"} /\ seen = seen'
        BY <1>0 DEF Makes, Helper
      <4>2. counts \/ st.closed
        BY <1>0, <1>6, <4>1 DEF Current
      <4> QED BY <1>0, <1>6, <4>1, <4>2 DEF Ending
    <3>2. seen' # NoRead /\ HasClean' => seen' = ver
      BY <1>0, <1>4 DEF Current
    <3> QED BY <1>0, <1>1, <2>0, <3>1, <3>2 DEF Current, Op
  <2>4. Remembering'
    <3> SUFFICES ASSUME seen' # NoRead, op \in {"awatch", "aexecute"}
                 PROVE  /\ op = "awatch" => Rewatching(s)'
                        /\ op = "aexecute" => Executing(s)'
      BY <1>0, <2>0 DEF Remembering, Op
    <3>1. seen # NoRead /\ pc = "func"
      BY <1>0 DEF Makes, Helper
    <3>2. st.closed \/ (st.watching /\ Watches(reserved))
      BY <1>0, <1>6, <2>0, <3>1 DEF Current
    <3> QED BY <1>0, <1>1, <3>2 DEF Rewatching, Executing, Watches
  <2> QED BY <2>1, <2>2, <2>3, <2>4
<1>7. CASE op = "aclose"
  <2>1. Alone'
    BY <1>0, <1>7 DEF Alone, Op
  <2>2. Counting'
    BY <1>0, <1>7 DEF Counting, Op, Ending
  <2>3. Current'
    <3>1. Op(s)' = "aclose" /\ call'[s].at = "close"
      BY <1>0, <1>1, <1>7
    <3>2. seen' = seen
      BY <1>0, <1>7
    <3>3. \A u \in Slots : Op(u)' = "aget" /\ call'[u].at \in {"back", "done"}
                             /\ call'[u].reply = "ok" /\ HasClean' => call'[u].read = ver
      BY <1>0, <1>4, <1>7 DEF Current, Op
    <3>4. seen' # NoRead /\ HasClean' => seen' = ver
      BY <1>4, <3>2 DEF Current
    <3> QED BY <1>0, <3>1, <3>3, <3>4 DEF Current, Op
  <2>4. Remembering'
    <3>1. seen' = seen
      BY <1>0, <1>7
    <3>2. ASSUME NEW u \in Slots \ {s}, Op(u) = "awatch", Rewatching(u) PROVE Rewatching(u)'
      BY <1>0, <3>2 DEF Rewatching
    <3>3. ASSUME NEW u \in Slots \ {s}, Op(u) = "aexecute", Executing(u) PROVE Executing(u)'
      BY <1>0, <3>3 DEF Executing, Watches
    <3> QED BY <1>0, <1>7, <3>1, <3>2, <3>3 DEF Remembering, Op
  <2> QED BY <2>1, <2>2, <2>3, <2>4
<1> QED BY <1>6, <1>7

(* A call is answered: the program may start to count on its watch, or        *)
(* remember what it read; or everything starts anew.                          *)
LEMMA ResumesKeepsOrderly ==
  ASSUME TypeOK, Shape, Helper, Orderly, NEW s \in Slots, Resumes(s), gaveUp' # "overlapped"
  PROVE  Order'
<1> USE TypeFacts DEF Order
<1>0. /\ awaiting = s /\ s # None /\ awaiting' = None /\ call[s].at = "done" /\ ver' = ver
      /\ call[s].conn = None /\ Op(s) # "none"
      /\ pc \in {"watch", "func", "execute", "committed", "aborted", "failed"}
  BY ConnFacts DEF Resumes, serverVars, Shape, ShapeOf, Helper, TypeOK
<1>1. /\ Op(s)' = "none" /\ call'[s].conn = None /\ call'[s].at = "idle"
      /\ pc' = "start" => \A u \in Slots : call'[u] = NoCall
      /\ pc' # "start" => \A u \in Slots \ {s} : call'[u] = call[u]
      /\ NoCall.op = "none" /\ NoCall.conn = None
  BY ResumesFacts
<1>n. ~Clean(None) /\ ~Watches(None)
  BY DEF Clean, Watches
<1>2. CASE pc' = "start"
  <2>1. pc \in {"committed", "aborted", "failed"}
    BY <1>0, <1>2 DEF Resumes
  <2>2. Op(s) = "aclose" /\ ~counts
    BY <1>0, <2>1 DEF Helper, Ending
  <2>3. ~counts' /\ seen' = NoRead /\ reserved' = None
    BY <1>2, <2>2 DEF Resumes, Op
  <2>4. \A u \in Slots : Op(u)' = "none" /\ call'[u].conn = None
    BY <1>1, <1>2 DEF Op
  <2> QED BY <1>0, <2>3, <2>4 DEF Alone, Counting, Current, Remembering, Op
<1>3. CASE pc' # "start"
  <2>0. /\ Order /\ UNCHANGED <<st, reserved, gaveUp>>
        /\ counts' = (counts \/ (Op(s) = "awatch" /\ call[s].keyed /\ call[s].reply = "ok"))
        /\ seen' = IF Op(s) = "aget" /\ call[s].reply = "ok" /\ counts THEN call[s].read ELSE seen
    BY <1>3 DEF Resumes, Orderly, Op
  <2>1. /\ \A u \in Slots : call'[u].conn = call[u].conn
        /\ \A u \in Slots \ {s} : call'[u] = call[u]
    BY <1>0, <1>1, <1>3
  <2>2. HasClean' => HasClean
    BY <2>0, <2>1 DEF HasClean
  <2>3. Op(s) # "aclose" => \A u \in Slots \ {s} : Op(u) = "none"
    BY <1>0, <2>0 DEF Alone
  <2>4. Alone'
    BY <1>0, <1>1, <2>0, <2>1 DEF Alone, Op
  <2>5. Counting'
    <3>1. ASSUME counts'
          PROVE  /\ \A u \in Slots : Op(u)' \notin Ending
                 /\ st'.watching
                 /\ Watches(reserved') \/ \E u \in Slots : Watches(call'[u].conn)
      <4>1. CASE counts
        BY <1>1, <2>0, <2>1, <4>1 DEF Counting, Ending, Op
      <4>2. CASE Op(s) = "awatch" /\ call[s].keyed /\ call[s].reply = "ok"
        <5>1. Watches(reserved) /\ st.watching
          BY <1>0, <2>0, <4>2 DEF Counting
        <5>2. \A u \in Slots : Op(u)' \notin Ending
          BY <1>1, <2>1, <2>3, <4>2 DEF Ending, Op
        <5> QED BY <2>0, <5>1, <5>2
      <4> QED BY <2>0, <3>1, <4>1, <4>2
    <3>2. \A u \in Slots : awaiting' # u
      BY <1>0, ConnFacts
    <3> QED BY <3>1, <3>2 DEF Counting, Op, Watches
  <2>6. Current'
    <3>1. ASSUME seen' # NoRead, pc' = "func"
          PROVE  \/ counts' \/ st'.closed
                 \/ \E u \in Slots : Op(u)' = "aclose" /\ call'[u].at = "close"
      <4>1. CASE Op(s) = "aget" /\ call[s].reply = "ok" /\ counts
        BY <2>0, <4>1
      <4>2. CASE seen' = seen
        <5>1. pc = "func"
          BY <1>0, <3>1, <4>2 DEF Resumes, Helper, AfterClose
        <5>2. counts \/ st.closed \/ \E u \in Slots : Op(u) = "aclose" /\ call[u].at = "close"
          BY <2>0, <3>1, <4>2, <5>1 DEF Current
        <5> QED BY <1>0, <2>0, <2>1, <5>2 DEF Op
      <4> QED BY <2>0, <4>1, <4>2
    <3>2. seen' # NoRead /\ HasClean' => seen' = ver
      BY <1>0, <2>0, <2>2 DEF Current
    <3>3. \A u \in Slots : Op(u)' = "aget" /\ call'[u].at \in {"back", "done"}
                             /\ call'[u].reply = "ok" /\ HasClean' => call'[u].read = ver
      BY <1>1, <2>0, <2>1, <2>2 DEF Current, Op
    <3> QED BY <1>0, <3>1, <3>2, <3>3 DEF Current, Op
  <2>7. Remembering'
    <3>1. CASE Op(s) = "aget"
      <4>1. \A u \in Slots : Op(u)' = "none"
        BY <1>1, <2>1, <2>3, <3>1 DEF Op
      <4> QED BY <4>1 DEF Remembering, Op
    <3>2. CASE Op(s) # "aget"
      <4>1. seen' = seen
        BY <2>0, <3>2
      <4>2. ASSUME NEW u \in Slots \ {s}, Op(u) = "awatch", Rewatching(u) PROVE Rewatching(u)'
        BY <2>0, <2>1, <4>2 DEF Rewatching
      <4>3. ASSUME NEW u \in Slots \ {s}, Op(u) = "aexecute", Executing(u) PROVE Executing(u)'
        BY <2>0, <2>1, <4>3 DEF Executing, Watches
      <4> QED BY <1>1, <2>0, <2>1, <4>1, <4>2, <4>3 DEF Remembering, Op
    <3> QED BY <3>1, <3>2
  <2> QED BY <2>4, <2>5, <2>6, <2>7
<1> QED BY <1>2, <1>3

(* A write from elsewhere makes every watch dirty.                            *)
LEMMA WriteKeepsOrder ==
  ASSUME TypeOK, Shape, Order, OtherWrite
  PROVE  Order'
<1> USE TypeFacts DEF Order
<1>0. /\ UNCHANGED <<st, awaiting, pc, counts, seen>> /\ reserved' = DirtiedIf(reserved)
      /\ \A u \in Slots : Same(u) /\ call'[u].conn = DirtiedIf(call[u].conn)
  BY OtherWriteFacts DEF progVars
<1>1. \A u \in Slots : /\ Op(u)' = Op(u) /\ call'[u].at = call[u].at
                       /\ call'[u].keyed = call[u].keyed /\ call'[u].reply = call[u].reply
                       /\ call'[u].snap = call[u].snap
                       /\ Watches(call'[u].conn) <=> Watches(call[u].conn)
                       /\ ~Clean(call'[u].conn)
                       /\ call'[u].conn = None <=> call[u].conn = None
                       /\ call[u].conn # None
                            => (call'[u].conn.srv = "none" <=> call[u].conn.srv = "none")
  BY <1>0, WatchFacts DEF Same, Op
<1>2. /\ Watches(reserved') <=> Watches(reserved)
      /\ ~Clean(reserved')
      /\ reserved' = None <=> reserved = None
      /\ reserved # None => (reserved'.srv = "none" <=> reserved.srv = "none")
  BY <1>0, WatchFacts
<1>3. ~HasClean'
  BY <1>1, <1>2 DEF HasClean
<1>4. Alone'
  <2>1. awaiting # None => awaiting \in Slots
    BY DEF TypeOK
  <2> QED BY <1>0, <1>1, <1>2, <2>1 DEF Alone, Op
<1>5. Counting'
  BY <1>0, <1>1, <1>2 DEF Counting, Op
<1>6. Current'
  BY <1>0, <1>1, <1>3 DEF Current, Op
<1>7. Remembering'
  <2>1. ASSUME NEW u \in Slots, Op(u) = "awatch", Rewatching(u) PROVE Rewatching(u)'
    <3>1. call[u].at = "trip" => call[u].conn # None
      BY <2>1 DEF Shape, ShapeOf
    <3> QED BY <1>0, <1>1, <1>2, <2>1, <3>1 DEF Rewatching
  <2>2. ASSUME NEW u \in Slots, Op(u) = "aexecute", Executing(u) PROVE Executing(u)'
    BY <1>0, <1>1, <1>2, <2>2 DEF Executing
  <2> QED BY <1>0, <1>1, <2>1, <2>2 DEF Remembering, Op
<1> QED BY <1>4, <1>5, <1>6, <1>7

LEMMA OrderlyStep == TypeOK /\ Shape /\ Helper /\ Orderly /\ [Next]_vars => Orderly'
<1> SUFFICES ASSUME TypeOK, Shape, Helper, Orderly, [Next]_vars, gaveUp' # "overlapped"
             PROVE  Order'
  BY DEF Orderly
<1>1. ASSUME NEW s \in Slots, TaskStep(s) PROVE Order'
  <2>1. gaveUp' = gaveUp
    BY <1>1, TaskSteps DEF StepOf, progVars
  <2> QED BY <1>1, <2>1, TaskKeepsOrder DEF Orderly
<1>2. ASSUME NEW s \in Slots, NEW op \in Methods, NEW keyed \in BOOLEAN, Makes(s, op, keyed)
      PROVE  Order'
  <2>1. gaveUp # "overlapped"
    BY <1>2 DEF Makes, Fresh
  <2> QED BY <1>2, <2>1, MakesKeepsOrder DEF Orderly
<1>3. ASSUME NEW s \in Slots, Resumes(s) PROVE Order'
  BY <1>3, ResumesKeepsOrderly
<1>4. CASE OtherWrite
  <2>1. gaveUp' = gaveUp
    BY <1>4 DEF OtherWrite, progVars
  <2> QED BY <1>4, <2>1, WriteKeepsOrder DEF Orderly
<1>5. ASSUME UNCHANGED <<ver, reserved, call, counts, seen>>, awaiting' \in {None, awaiting},
             st'.watching = st.watching, st'.closed = st.closed, gaveUp # "overlapped",
             pc' = "func" => pc = "func" \/ seen = NoRead
      PROVE  Order'
  <2>0. Order
    BY <1>5 DEF Orderly
  <2>1. Alone'
    BY <1>5, <2>0 DEF Order, Alone, Op
  <2>2. Counting'
    BY <1>5, <2>0, ConnFacts DEF Order, Counting, Op, Watches
  <2>3. Current'
    <3>1. HasClean' => HasClean
      BY <1>5 DEF HasClean, Clean
    <3> QED BY <1>5, <2>0, <3>1 DEF Order, Current, Op
  <2>4. Remembering'
    BY <1>5, <2>0 DEF Order, Remembering, Rewatching, Executing, Watches, Op
  <2> QED BY <2>1, <2>2, <2>3, <2>4 DEF Order
<1>6. CASE Begins
  BY <1>5, <1>6 DEF Begins, Helper, serverVars
<1>7. CASE Buffers
  BY <1>5, <1>7 DEF Buffers, serverVars
<1>8. CASE Fails
  BY <1>5, <1>8 DEF Fails, serverVars
<1>9. ASSUME NEW s \in Slots, GivesUp(s) PROVE Order'
  BY <1>5, <1>9 DEF GivesUp, serverVars
<1>10. CASE UNCHANGED vars
  BY <1>5, <1>10 DEF vars
<1> QED BY <1>1, <1>2, <1>3, <1>4, <1>6, <1>7, <1>8, <1>9, <1>10, Steps

-----------------------------------------------------------------------------
(* The theorems. *)

LEMMA InitIInv == Init => IInv
<1> SUFFICES ASSUME Init PROVE IInv
  OBVIOUS
<1>1. /\ NewState \in States /\ NoCall \in CallType
      /\ NoCall.op = "none" /\ NoCall.at = "idle" /\ NoCall.conn = None
  BY DEF NewState, States, NoCall, CallType, Ops, Replies
<1>2. \A s \in Slots : call[s] = NoCall /\ Op(s) = "none"
  BY <1>1 DEF Init, Op
<1>3. TypeOK
  BY <1>1 DEF Init, TypeOK, CallType, Replies
<1>4. Shape
  BY <1>1, <1>2 DEF Shape, ShapeOf, Stages
<1>5. Helper /\ Blocks /\ Released
  BY <1>1, <1>2 DEF Init, Helper, Blocks, Released
<1>6. ~HasClean
  BY <1>1, <1>2 DEF Init, HasClean, Clean
<1>7. Orderly
  BY <1>1, <1>2, <1>6 DEF Init, Orderly, Order, Alone, Counting, Current, Remembering, Ending
<1> QED BY <1>3, <1>4, <1>5, <1>7 DEF IInv

LEMMA IInvStep == IInv /\ [Next]_vars => IInv'
  BY TypeStep, HelperStep, BlocksStep, ReleasedStep, OrderlyStep DEF IInv

LEMMA Invariant == Spec => []IInv
<1>1. Init => IInv
  BY InitIInv
<1>2. IInv /\ [Next]_vars => IInv'
  BY IInvStep
<1> QED BY <1>1, <1>2, PTL DEF Spec

(* Whatever methods are called and given up, every variable keeps its type.   *)
THEOREM TypeCorrect == Spec => []TypeOK
<1>1. IInv => TypeOK
  BY DEF IInv
<1> QED BY <1>1, Invariant, PTL

(* atransaction_helper lets the server apply its block at most once: aexecute *)
(* is called once in an attempt, and only an attempt whose EXEC was answered  *)
(* with Nil, so that nothing was applied, is followed by another.             *)
THEOREM AtMostOnce == Spec => []AppliedAtMostOnce
<1>1. IInv => AppliedAtMostOnce
  BY DEF IInv, Blocks, AppliedAtMostOnce
<1> QED BY <1>1, Invariant, PTL

(* When no call was given up, aclose() in the finally clause was the last one *)
(* and took the connection that was there: none is left.                      *)
THEOREM Releases == Spec => []ConnectionReleased
<1>1. IInv => ConnectionReleased
  <2> SUFFICES ASSUME IInv, pc \in {"returned", "raised"}, gaveUp = "no" PROVE InHand = {}
    BY DEF ConnectionReleased
  <2>1. awaiting = None /\ reserved = None /\ \A s \in Slots : Op(s) = "none"
    BY ConnFacts DEF IInv, Helper, Released
  <2>2. \A s \in Slots : call[s].conn = None
    BY <2>1 DEF IInv, Shape, ShapeOf, Stages
  <2> QED BY <2>1, <2>2 DEF InHand
<1> QED BY <1>1, Invariant, PTL

(* As long as no call but aclose() is made with an abandoned one in flight,   *)
(* the watch the program counts on is there, and what it read is current      *)
(* while that watch is clean.                                                 *)
THEOREM ReadsAreProtected == Spec => []ReadIsProtected
<1>1. IInv => ReadIsProtected
  <2> SUFFICES ASSUME IInv, gaveUp # "overlapped"
               PROVE  /\ counts => st.watching /\ \E c \in InHand : c.watched /\ c.srv # "none"
                      /\ seen # NoRead => \A c \in InHand : c.srv = "clean" => seen = ver
    BY DEF ReadIsProtected
  <2>1. Counting /\ Current
    BY DEF IInv, Orderly, Order
  <2>2. ASSUME counts PROVE st.watching /\ \E c \in InHand : c.watched /\ c.srv # "none"
    <3>1. CASE Watches(reserved)
      BY <2>1, <2>2, <3>1 DEF Counting, Watches, InHand
    <3>2. ASSUME NEW s \in Slots, Watches(call[s].conn)
          PROVE  \E c \in InHand : c.watched /\ c.srv # "none"
      BY <3>2 DEF Watches, InHand
    <3> QED BY <2>1, <2>2, <3>1, <3>2 DEF Counting
  <2>3. ASSUME seen # NoRead, NEW c \in InHand, c.srv = "clean" PROVE seen = ver
    <3>1. HasClean
      BY <2>3 DEF InHand, HasClean, Clean
    <3> QED BY <2>1, <2>3, <3>1 DEF Current
  <2> QED BY <2>2, <2>3
<1> QED BY <1>1, Invariant, PTL

(* In that same regime a step that applies a block built on a read applies it *)
(* to the version that was read: the block goes out on a watch that is clean, *)
(* or the server refuses it.                                                  *)
LEMMA AppliedStep ==
  IInv /\ [Next]_vars =>
     (applied' > applied /\ seen # NoRead /\ gaveUp # "overlapped" => seen = ver)
<1> SUFFICES ASSUME IInv, [Next]_vars, applied' > applied, seen # NoRead, gaveUp # "overlapped"
             PROVE  seen = ver
  OBVIOUS
<1> USE DEF IInv
<1>0. Order /\ applied \in Nat
  BY DEF Orderly, TypeOK
<1>1. PICK s \in Slots : TaskStep(s)
  BY <1>0, Steps, OtherWriteFacts
     DEF Resumes, GivesUp, Makes, Begins, Buffers, Fails, serverVars, vars
<1>2. Op(s) = "aexecute" /\ call[s].at \in {"exec", "plain"}
  <2>1. applied' # applied
    BY <1>0
  <2> QED BY <1>1, <2>1, ApplySteps DEF Sends
<1>3. Executing(s) /\ call[s].at = "exec"
  BY <1>0, <1>2 DEF Order, Remembering, Executing
<1>4. PICK o \in Trips : ExecSends(s, o)
  <2>1. \A o \in Trips : ~(AwatchSends(s, o) \/ UnwatchSends(s, o) \/ AgetSends(s, o)
                           \/ AsetSends(s, o) \/ PlainSends(s, o))
    BY <1>2, <1>3 DEF AwatchSends, UnwatchSends, AgetSends, AsetSends, PlainSends, At, Op
  <2>2. ~(AwatchChecks(s) \/ AwatchReserves(s) \/ AwatchNotes(s) \/ Takes(s) \/ PutsBack(s)
          \/ NoReservation(s))
    BY <1>2, <1>3 DEF AwatchChecks, AwatchReserves, AwatchNotes, Takes, PutsBack, NoReservation,
                      At, Op
  <2>3. ~(AexecuteCopies(s) \/ AexecuteLooks(s) \/ AexecuteTakes(s) \/ AexecuteClears(s)
          \/ AcloseTakes(s) \/ AcloseEnds(s))
    BY <1>2, <1>3 DEF AexecuteCopies, AexecuteLooks, AexecuteTakes, AexecuteClears,
                      AcloseTakes, AcloseEnds, At, Op
  <2> QED BY <1>1, <2>1, <2>2, <2>3 DEF TaskStep
<1>5. call[s].conn # None /\ ExecWatch(call[s].snap.keys, call[s].conn) # "dirty"
  <2>1. \A r \in Replies : Unapplied(s, r, "clear") => applied' = applied
    BY DEF Unapplied
  <2>2. \A r \in Replies : ~Unapplied(s, r, "clear")
    BY <1>0, <2>1
  <2> QED BY <1>4, <2>2 DEF ExecSends, Replies
<1>6. call[s].conn \in Connections /\ Watches(call[s].conn)
  BY <1>3, <1>4, <1>5, TypeFacts DEF Executing, Conns
<1>7. call[s].conn.srv = "clean"
  BY <1>5, <1>6 DEF ExecWatch, Watches, Connections
<1>8. HasClean
  BY <1>5, <1>7 DEF HasClean, Clean
<1> QED BY <1>0, <1>8 DEF Order, Current

THEOREM AppliedToTheRead == Spec => AppliedToWhatWasRead
<1>1. IInv /\ [Next]_vars =>
         [applied' > applied /\ seen # NoRead /\ gaveUp # "overlapped" => seen = ver]_vars
  BY AppliedStep
<1> QED BY <1>1, Invariant, PTL DEF Spec, AppliedToWhatWasRead

-----------------------------------------------------------------------------
(* The refinement: atransaction() is an atomic update. *)

(* No call has read, and the program does not remember, a version the key has *)
(* not had.                                                                   *)
ReadBound == /\ seen # NoRead => seen <= ver
             /\ \A s \in Slots : call[s].read <= ver

(* What a step of a call that is not aexecute() does to the server, and what  *)
(* any of them can have read.                                                 *)
LEMMA TaskReads ==
  ASSUME TypeOK, Shape, NEW s \in Slots, TaskStep(s)
  PROVE  /\ call'[s].read \in {call[s].read, ver, 0}
         /\ Op(s) # "aexecute" =>
               \/ ver' = ver /\ applied' = applied
               \/ ver' = ver + 1 /\ applied' = applied /\ st' = st
<1> USE TypeFacts
<1>1. \A r \in Replies : Ends(s, r) => call'[s].read \in {call[s].read, ver, 0}
  BY EndsFacts DEF NoCall
<1>2. CASE AwatchChecks(s) \/ AwatchReserves(s) \/ AwatchNotes(s)
  <2>1. UNCHANGED <<ver, applied>>
    BY <1>2 DEF AwatchChecks, AwatchReserves, AwatchNotes, serverVars
  <2>2. (\E r \in Replies : Ends(s, r)) \/ (\E at \in {"reserve", "take"} : Goto(s, at))
    BY <1>2 DEF AwatchChecks, AwatchReserves, AwatchNotes, Replies
  <2> QED BY <1>1, <2>1, <2>2 DEF Goto, CallType
<1>3. CASE \E o \in Trips : AwatchSends(s, o) \/ UnwatchSends(s, o)
  BY <1>3 DEF AwatchSends, UnwatchSends, Trip, CallType, serverVars
<1>4. CASE NoReservation(s)
  BY <1>4 DEF NoReservation, Trip, CallType, serverVars
<1>4a. ASSUME NEW o \in Trips, AgetSends(s, o)
       PROVE  call'[s].read = ver /\ ver' = ver /\ applied' = applied
  <2>1. call' = [call EXCEPT ![s].read = ver, ![s].reply = Answer(o), ![s].at = "back"]
    BY <1>4a DEF AgetSends
  <2>2. call'[s].read = ver
    BY <2>1 DEF CallType
  <2> QED BY <1>4a, <2>2 DEF AgetSends, serverVars
<1>5. CASE Takes(s)
  <2>1. UNCHANGED <<ver, applied>>
    BY <1>5 DEF Takes, serverVars
  <2>2. Ends(s, "panic") \/ call' = [call EXCEPT ![s].conn = reserved, ![s].at = "trip"]
    BY <1>5 DEF Takes
  <2> QED BY <1>1, <2>1, <2>2 DEF CallType, Replies
<1>6. CASE PutsBack(s)
  <2>1. UNCHANGED <<ver, applied>>
    BY <1>6 DEF PutsBack, serverVars
  <2>2. Ends(s, call[s].reply) \/ call' = [call EXCEPT ![s].conn = None, ![s].at = "note"]
    BY <1>6 DEF PutsBack
  <2>3. call[s].reply \in Replies
    BY DEF CallType
  <2> QED BY <1>1, <2>1, <2>2, <2>3 DEF CallType
<1>7. ASSUME NEW o \in Trips, AsetSends(s, o)
      PROVE  /\ call'[s].read = call[s].read /\ st' = st /\ applied' = applied
             /\ ver' \in {ver, ver + 1}
  <2>1. CASE o = "refused"
    BY <1>7, <2>1 DEF AsetSends, Trip, CallType, serverVars
  <2>2. CASE o # "refused"
    <3>1. /\ call' = [Touched(call) EXCEPT ![s].reply = Answer(o), ![s].at = "back"]
          /\ BareWrite /\ st' = st
      BY <1>7, <2>2 DEF AsetSends
    <3>2. Touched(call)[s].read = call[s].read
      BY TouchedFacts DEF CallType
    <3>3. call'[s].read = Touched(call)[s].read
      BY <3>1, TouchedFacts DEF CallType
    <3> QED BY <3>1, <3>2, <3>3 DEF BareWrite, Touch
  <2> QED BY <2>1, <2>2
<1>8. ASSUME NEW o \in Trips, ExecSends(s, o) \/ PlainSends(s, o)
      PROVE  Op(s) = "aexecute" /\ call'[s].read = call[s].read
  <2>1. /\ Op(s) = "aexecute"
        /\ \/ \E r \in Replies, at \in {"clear", "clearPlain"} : Unapplied(s, r, at)
           \/ \E c \in Conns, at \in {"clear", "clearPlain"} : Applies(s, c, o, at)
    BY <1>8, ConnFacts DEF ExecSends, PlainSends, At, Op, Replies, Conns
  <2>2. \A r \in Replies, at \in {"clear", "clearPlain"} :
           Unapplied(s, r, at) => call'[s].read = call[s].read
    BY DEF Unapplied, CallType
  <2>3. ASSUME NEW c \in Conns, NEW at \in {"clear", "clearPlain"}, Applies(s, c, o, at)
        PROVE  call'[s].read = call[s].read
    <3>1. CASE "SET" \in call[s].snap.commands
      <4>1. call' = [Touched(call) EXCEPT ![s].conn = c, ![s].reply = Answer(o), ![s].at = at]
        BY <2>3, <3>1 DEF Applies
      <4>2. Touched(call)[s].read = call[s].read
        BY TouchedFacts DEF CallType
      <4>3. call'[s].read = Touched(call)[s].read
        BY <4>1, TouchedFacts DEF CallType
      <4> QED BY <4>2, <4>3
    <3>2. CASE "SET" \notin call[s].snap.commands
      <4>1. call' = [call EXCEPT ![s].conn = c, ![s].reply = Answer(o), ![s].at = at]
        BY <2>3, <3>2 DEF Applies
      <4> QED BY <4>1 DEF CallType
    <3> QED BY <3>1, <3>2
  <2> QED BY <2>1, <2>2, <2>3
<1>9. CASE AexecuteCopies(s)
  <2>1. UNCHANGED <<ver, applied>> /\ Op(s) = "aexecute"
    BY <1>9 DEF AexecuteCopies, serverVars, At, Op
  <2>2. \/ \E r \in Replies : Ends(s, r)
        \/ call' = [call EXCEPT ![s].snap = st, ![s].at = "look"]
    BY <1>9 DEF AexecuteCopies, Replies
  <2> QED BY <1>1, <2>1, <2>2 DEF CallType
<1>10. CASE AexecuteLooks(s) \/ AexecuteTakes(s)
  BY <1>10 DEF AexecuteLooks, AexecuteTakes, Goto, At, Op, CallType
<1>11. CASE AexecuteClears(s)
  <2>1. call[s].reply \in Replies /\ Ends(s, call[s].reply) /\ Op(s) = "aexecute"
    BY <1>11 DEF AexecuteClears, At, Op, CallType
  <2> QED BY <1>1, <2>1
<1>12. CASE AcloseTakes(s) \/ AcloseEnds(s)
  <2>1. UNCHANGED <<ver, applied>>
    BY <1>12 DEF AcloseTakes, AcloseEnds, serverVars
  <2>2. Ends(s, "ok") \/ call' = [call EXCEPT ![s].conn = reserved, ![s].at = "unwatch"]
    BY <1>12 DEF AcloseTakes, AcloseEnds
  <2> QED BY <1>1, <2>1, <2>2 DEF CallType, Replies
<1> QED
  BY <1>2, <1>3, <1>4, <1>4a, <1>5, <1>6, <1>7, <1>8, <1>9, <1>10, <1>11, <1>12
     DEF TaskStep

LEMMA AexecuteCases ==
  ASSUME TypeOK, Shape, NEW s \in Slots, TaskStep(s), Op(s) = "aexecute"
  PROVE  \/ AexecuteCopies(s) \/ AexecuteLooks(s) \/ AexecuteTakes(s) \/ AexecuteClears(s)
         \/ \E o \in Trips : ExecSends(s, o) \/ PlainSends(s, o)
<1>1. \A o \in Trips : ~(AwatchSends(s, o) \/ UnwatchSends(s, o) \/ AgetSends(s, o)
                         \/ AsetSends(s, o))
  BY DEF AwatchSends, UnwatchSends, AgetSends, AsetSends, At, Op
<1>2. ~(AwatchChecks(s) \/ AwatchReserves(s) \/ AwatchNotes(s) \/ Takes(s) \/ NoReservation(s)
        \/ AcloseTakes(s) \/ AcloseEnds(s))
  BY DEF AwatchChecks, AwatchReserves, AwatchNotes, Takes, NoReservation, AcloseTakes,
         AcloseEnds, At, Op
<1>3. ~PutsBack(s)
  BY PutsBackStep
<1> QED BY <1>1, <1>2, <1>3 DEF TaskStep

(* How the block of an aexecute() is decided, by EXEC or by the plain         *)
(* pipeline: it is not applied, and if it was to write the answer is not a    *)
(* success; or it is applied, whatever becomes of the answer.                 *)
BlockOf(s) == call[s].snap.commands

LEMMA BlockSent ==
  ASSUME TypeOK, Shape, NEW s \in Slots, \E o \in Trips : ExecSends(s, o) \/ PlainSends(s, o)
  PROVE  /\ Op(s) = "aexecute" /\ call[s].at \in {"exec", "plain"}
         /\ \/ /\ ver' = ver /\ applied' = applied
               /\ call'[s].reply = "ok" => "SET" \notin BlockOf(s)
            \/ /\ ver' = ver + 1 /\ applied' = applied + 1
               /\ "SET" \in BlockOf(s) /\ call'[s].reply \in {"ok", "error"}
<1> DEFINE Decides ==
      \/ /\ ver' = ver /\ applied' = applied
         /\ call'[s].reply = "ok" => "SET" \notin BlockOf(s)
      \/ /\ ver' = ver + 1 /\ applied' = applied + 1
         /\ "SET" \in BlockOf(s) /\ call'[s].reply \in {"ok", "error"}
<1>1. ASSUME NEW r \in Replies, NEW at \in {"clear", "clearPlain"}, Unapplied(s, r, at),
             r = "ok" => BlockOf(s) = {}
      PROVE  Decides
  <2>1. call'[s].reply = r
    BY <1>1, UnappliedFacts
  <2> QED BY <1>1, <2>1 DEF Unapplied
<1>2. ASSUME NEW o \in Trips, NEW at \in {"clear", "clearPlain"}, NEW c \in Conns,
             Applies(s, c, o, at)
      PROVE  Decides
  <2>1. call'[s].reply \in {"ok", "error"}
    BY <1>2, AppliesFacts DEF Answer
  <2>2. CASE "SET" \in BlockOf(s)
    BY <1>2, <2>1, <2>2 DEF Applies, BlockOf
  <2>3. CASE "SET" \notin BlockOf(s)
    BY <1>2, <2>1, <2>3 DEF Applies, BlockOf
  <2> QED BY <2>2, <2>3
<1>3. ASSUME NEW o \in Trips, ExecSends(s, o) PROVE Decides
  <2>1. \/ \E r \in {"error", "abort"} : Unapplied(s, r, "clear")
        \/ BlockOf(s) = {} /\ Unapplied(s, "ok", "clear")
        \/ Applies(s, NewConnection, o, "clear")
    BY <1>3 DEF ExecSends, BlockOf
  <2> QED BY <1>1, <1>2, <2>1, ConnFacts DEF Replies, Conns
<1>4. ASSUME NEW o \in Trips, PlainSends(s, o) PROVE Decides
  <2>1. \/ Unapplied(s, "error", "clearPlain")
        \/ BlockOf(s) = {} /\ Unapplied(s, "ok", "clearPlain")
        \/ Applies(s, None, o, "clearPlain")
    BY <1>4 DEF PlainSends, BlockOf
  <2> QED BY <1>1, <1>2, <2>1, ConnFacts DEF Replies, Conns
<1>5. Op(s) = "aexecute" /\ call[s].at \in {"exec", "plain"}
  BY DEF ExecSends, PlainSends, At, Op
<1> QED BY <1>3, <1>4, <1>5

LEMMA BoundStep == TypeOK /\ Shape /\ Helper /\ ReadBound /\ [Next]_vars => ReadBound'
<1> SUFFICES ASSUME TypeOK, Shape, Helper, ReadBound, [Next]_vars PROVE ReadBound'
  OBVIOUS
<1>0. /\ ver \in Nat /\ seen \in Nat \cup {NoRead} /\ NoCall.read = 0
      /\ \A u \in Slots : call[u].read \in Nat
  BY TypeFacts DEF TypeOK, CallType, NoCall
<1>1. ASSUME ver' \in Nat, ver <= ver',
             \A u \in Slots : call'[u].read \in {call[u].read, ver, 0},
             seen' \in {seen, NoRead} \cup {call[u].read : u \in Slots}
      PROVE  ReadBound'
  BY <1>0, <1>1 DEF ReadBound
<1>2. ASSUME NEW s \in Slots, TaskStep(s) PROVE ReadBound'
  <2>1. /\ StepOf(s) /\ call'[s].read \in {call[s].read, ver, 0}
        /\ Op(s) # "aexecute" => ver' \in {ver, ver + 1}
    BY <1>2, TaskSteps, TaskReads
  <2>2. \A u \in Slots \ {s} : call'[u].read = call[u].read
    BY <2>1 DEF StepOf, Others, Same
  <2>3. seen' = seen /\ ver' \in Nat
    BY <2>1 DEF StepOf, progVars, TypeOK
  <2>4. Op(s) = "aexecute" => ver' \in {ver, ver + 1}
    <3> SUFFICES ASSUME Op(s) = "aexecute" PROVE ver' \in {ver, ver + 1}
      OBVIOUS
    <3>1. CASE AexecuteCopies(s) \/ AexecuteLooks(s) \/ AexecuteTakes(s) \/ AexecuteClears(s)
      BY <3>1 DEF AexecuteCopies, AexecuteLooks, AexecuteTakes, AexecuteClears, serverVars
    <3> QED BY <1>2, <3>1, AexecuteCases, BlockSent
  <2> QED BY <1>0, <1>1, <2>1, <2>2, <2>3, <2>4
<1>3. ASSUME NEW s \in Slots, NEW op \in Methods, NEW keyed \in BOOLEAN, Makes(s, op, keyed)
      PROVE  ReadBound'
  <2>1. /\ call'[s].read = 0 /\ \A u \in Slots \ {s} : call'[u] = call[u]
        /\ ver' = ver /\ seen' \in {seen, NoRead}
    BY <1>3 DEF Makes, Fresh, serverVars
  <2> QED BY <1>0, <1>1, <2>1
<1>4. CASE Begins \/ Buffers \/ Fails \/ \E s \in Slots : GivesUp(s)
  BY <1>0, <1>1, <1>4 DEF Begins, Buffers, Fails, GivesUp, serverVars
<1>5. ASSUME NEW s \in Slots, Resumes(s) PROVE ReadBound'
  <2>1. /\ \A u \in Slots : call'[u] \in {call[u], NoCall}
        /\ ver' = ver /\ seen' \in {seen, NoRead, call[s].read}
    BY <1>5, ResumesFacts DEF Resumes, serverVars
  <2> QED BY <1>0, <1>1, <2>1
<1>6. CASE OtherWrite
  <2>1. /\ ver' = ver + 1 /\ seen' = seen
        /\ \A u \in Slots : call'[u].read = call[u].read
    BY <1>6, OtherWriteFacts DEF Same, progVars
  <2> QED BY <1>0, <1>1, <2>1
<1>7. CASE UNCHANGED vars
  BY <1>7 DEF vars, ReadBound
<1> QED BY <1>2, <1>3, <1>4, <1>5, <1>6, <1>7, Steps

LEMMA Bound == Spec => []ReadBound
<1>1. Init => ReadBound
  BY ConnFacts DEF Init, ReadBound, NoCall
<1>2. IInv /\ ReadBound /\ [Next]_vars => ReadBound'
  BY BoundStep DEF IInv
<1> QED BY <1>1, <1>2, Invariant, PTL DEF Spec

(* What the status and the block of the update are, by where atransaction     *)
(* and its aexecute() are.                                                    *)
Outcome(r) == CASE r = "ok" -> "succeeded" [] r = "error" -> "failed" [] OTHER -> "trying"

Standing ==
    /\ (\A s \in Slots : Op(s) # "aexecute") =>
          Status = IF pc \in {"committed", "returned"} THEN "succeeded"
                   ELSE IF pc \in {"failed", "raised"} THEN "failed" ELSE "trying"
    /\ \A s \in Slots : Op(s) = "aexecute" =>
          /\ pc \in {"execute", "failed", "raised"}
          /\ pc = "execute" <=> awaiting = s
          /\ Undecided(s) <=> ~Decided(s)
          /\ Undecided(s) =>
                /\ Status = IF pc = "execute" THEN "trying" ELSE "abandoned"
                /\ Writes <=> "SET" \in IF Copied(s) THEN call[s].snap.commands ELSE st.commands
          /\ Decided(s) => Status = IF pc = "execute" THEN Outcome(call[s].reply) ELSE "failed"

LEMMA IInvStanding == IInv => Standing
<1> SUFFICES ASSUME IInv PROVE Standing
  OBVIOUS
<1> USE DEF IInv
<1>0. awaiting \in Slots \cup {None} /\ None \notin Slots
      /\ pc \in {"start", "watch", "func", "execute", "committed", "aborted", "failed",
                 "returned", "raised"}
  BY ConnFacts DEF TypeOK
<1>1. ASSUME \A s \in Slots : Op(s) # "aexecute"
      PROVE  Status = IF pc \in {"committed", "returned"} THEN "succeeded"
                      ELSE IF pc \in {"failed", "raised"} THEN "failed" ELSE "trying"
  <2>1. \A s \in Slots : ~Undecided(s) /\ ~Decided(s)
    BY <1>1 DEF Undecided, Decided, Copied, At, Op
  <2>2. pc # "execute"
    BY <1>0, <1>1 DEF Helper
  <2> QED BY <1>0, <2>1, <2>2 DEF Status
<1>2. ASSUME NEW s \in Slots, Op(s) = "aexecute"
      PROVE  /\ pc \in {"execute", "failed", "raised"}
             /\ pc = "execute" <=> awaiting = s
             /\ Undecided(s) <=> ~Decided(s)
             /\ Undecided(s) =>
                   /\ Status = IF pc = "execute" THEN "trying" ELSE "abandoned"
                   /\ Writes <=> "SET" \in IF Copied(s) THEN call[s].snap.commands
                                           ELSE st.commands
             /\ Decided(s) => Status = IF pc = "execute" THEN Outcome(call[s].reply)
                                       ELSE "failed"
  <2>1. pc \in {"execute", "failed", "raised"}
    BY <1>0, <1>2 DEF Blocks
  <2>2. pc = "execute" <=> awaiting = s
    BY <1>0, <1>2, <2>1 DEF Helper, Blocks
  <2>3. Undecided(s) <=> ~Decided(s)
    BY <1>2 DEF Shape, ShapeOf, Stages, Undecided, Decided, Copied, At, Op
  <2>4. \A u \in Slots \ {s} : ~Undecided(u) /\ ~Decided(u) /\ ~Copied(u)
    BY <1>2 DEF Blocks, Undecided, Decided, Copied, At, Op
  <2>5. Undecided(s) => Status = IF pc = "execute" THEN "trying" ELSE "abandoned"
    <3> SUFFICES ASSUME Undecided(s)
                 PROVE  Status = IF pc = "execute" THEN "trying" ELSE "abandoned"
      OBVIOUS
    <3>1. (\E u \in Slots : Undecided(u)) /\ ~(\E u \in Slots : Decided(u))
      BY <2>3, <2>4
    <3> QED BY <2>1, <3>1 DEF Status
  <2>6. Undecided(s) => (Writes <=> "SET" \in IF Copied(s) THEN call[s].snap.commands
                                              ELSE st.commands)
    BY <2>4, <2>5 DEF Writes, IsOpen
  <2>7. Decided(s) => Status = IF pc = "execute" THEN Outcome(call[s].reply) ELSE "failed"
    <3> SUFFICES ASSUME Decided(s)
                 PROVE  Status = IF pc = "execute" THEN Outcome(call[s].reply) ELSE "failed"
      OBVIOUS
    <3>1. ~(\E u \in Slots : Undecided(u))
      BY <2>3, <2>4
    <3>2. \A r : (\E u \in Slots : Decided(u) /\ call[u].reply = r) <=> call[s].reply = r
      BY <2>4
    <3> QED BY <2>1, <3>1, <3>2 DEF Status, Outcome
  <2> QED BY <2>1, <2>2, <2>3, <2>5, <2>6, <2>7
<1> QED BY <1>1, <1>2 DEF Standing

-----------------------------------------------------------------------------
(* The steps of the update, by what happens to its status. *)

LEMMA OneUpdater ==
  /\ \A x, y : [u \in {"program"} |-> x]["program"] = x
               /\ [[u \in {"program"} |-> x] EXCEPT !["program"] = y] = [u \in {"program"} |-> y]
  OBVIOUS

LEMMA WriteRefines ==
  ASSUME ver' = ver + 1, applied' = applied, Status' = Status, Writes' = Writes,
         RestsOn' = RestsOn
  PROVE  [Update!Next]_(Update!vars)
<1>1. Update!Write
  BY DEF Update!Write
<1> QED BY <1>1 DEF Update!Next

(* A step that decides nothing prepares the update, or is none of its steps.  *)
LEMMA Prepares ==
  ASSUME TypeOK', ReadBound', ver' = ver, applied' = applied, Status' = Status
  PROVE  [Update!Next]_(Update!vars)
<1>1. CASE IsOpen
  <2>1. RestsOn' \in (0..ver) \cup {NoRead}
    BY DEF RestsOn, ReadBound, TypeOK
  <2>2. Writes' \in BOOLEAN
    BY DEF Writes
  <2>3. Update!Open("program")
    BY <1>1, OneUpdater DEF Update!Open, IsOpen
  <2>4. Update!Prepare("program")
    BY <2>1, <2>2, <2>3, OneUpdater DEF Update!Prepare
  <2> QED BY <2>4 DEF Update!Next
<1>2. CASE ~IsOpen
  <2>1. ~IsOpen'
    BY <1>2 DEF IsOpen
  <2>2. Writes' = Writes /\ RestsOn' = RestsOn
    BY <1>2, <2>1 DEF Writes, RestsOn
  <2>3. /\ [u \in {"program"} |-> Status]' = [u \in {"program"} |-> Status]
        /\ [u \in {"program"} |-> Writes]' = [u \in {"program"} |-> Writes]
        /\ [u \in {"program"} |-> RestsOn]' = [u \in {"program"} |-> RestsOn]
        /\ [u \in {"program"} |-> applied]' = [u \in {"program"} |-> applied]
    BY <2>2
  <2> QED BY <2>3 DEF Update!vars
<1> QED BY <1>1, <1>2

(* The update ends: its block was applied, or not.                            *)
LEMMA EndRefines ==
  ASSUME Status \in {"trying", "abandoned"}, Status' \in {"succeeded", "failed"},
         Status = "abandoned" => Status' = "failed",
         \/ /\ ver' = ver /\ applied' = applied
            /\ Status' = "succeeded" => ~Writes
         \/ /\ ver' = ver + 1 /\ applied = 0 /\ applied' = 1
            /\ Writes /\ RestsOn \in {NoRead, ver}
  PROVE  [Update!Next]_(Update!vars)
<1>1. Writes' = FALSE /\ RestsOn' = NoRead
  BY DEF Writes, RestsOn, IsOpen
<1>2. Update!Ends("program", Status')
  BY <1>1, OneUpdater DEF Update!Ends, Update!Open
<1>3. CASE ver' = ver /\ applied' = applied /\ (Status' = "succeeded" => ~Writes)
  <2>1. Update!Settle("program")
    BY <1>2, <1>3, OneUpdater DEF Update!Settle
  <2> QED BY <2>1 DEF Update!Next
<1>4. CASE ver' = ver + 1 /\ applied = 0 /\ applied' = 1 /\ Writes /\ RestsOn \in {NoRead, ver}
  <2>1. Update!Ends("program", "succeeded") \/ Update!Ends("program", "failed")
    BY <1>2
  <2>2. Update!Apply("program")
    BY <1>4, <2>1, OneUpdater DEF Update!Apply
  <2> QED BY <2>2 DEF Update!Next
<1> QED BY <1>3, <1>4

(* The program goes away before the block is decided, or after.               *)
LEMMA LeaveRefines ==
  ASSUME ver' = ver, applied' = applied,
         \/ Status = "trying" /\ Status' = "abandoned" /\ Writes' = Writes /\ RestsOn' = RestsOn
         \/ Status = "succeeded" /\ Status' = "failed"
  PROVE  [Update!Next]_(Update!vars)
<1>1. CASE Status = "trying"
  <2>1. Update!Abandon("program")
    BY <1>1, OneUpdater DEF Update!Abandon
  <2> QED BY <2>1 DEF Update!Next
<1>2. CASE Status = "succeeded" /\ Status' = "failed"
  <2>1. Writes = FALSE /\ Writes' = FALSE /\ RestsOn = NoRead /\ RestsOn' = NoRead
    BY <1>2 DEF Writes, RestsOn, IsOpen
  <2>2. Update!Cancel("program")
    BY <1>2, <2>1, OneUpdater DEF Update!Cancel
  <2> QED BY <2>2 DEF Update!Next
<1> QED BY <1>1, <1>2

(* The status stays when no aexecute() moves.                                 *)
LEMMA StatusKept ==
  ASSUME pc' = pc,
         \A u \in Slots : /\ Undecided(u)' <=> Undecided(u)
                          /\ Decided(u)' <=> Decided(u)
                          /\ Decided(u) => call'[u].reply = call[u].reply
  PROVE  Status' = Status
  BY DEF Status

-----------------------------------------------------------------------------
(* Every step refines. *)

LEMMA Known == IInv /\ [Next]_vars => IInv' /\ Standing /\ Standing'
<1>1. IInv => Standing
  BY IInvStanding
<1> QED BY <1>1, IInvStep, PTL

(* Of a call that is not aexecute() only a write to the key shows.            *)
LEMMA CallRefines ==
  ASSUME IInv, IInv', ReadBound', NEW s \in Slots, TaskStep(s), Op(s) # "aexecute"
  PROVE  [Update!Next]_(Update!vars)
<1>1. /\ StepOf(s)
      /\ \/ ver' = ver /\ applied' = applied
         \/ ver' = ver + 1 /\ applied' = applied /\ st' = st
  BY TaskSteps, TaskReads DEF IInv
<1>2. /\ pc' = pc /\ seen' = seen /\ gaveUp' = gaveUp
      /\ \A u \in Slots \ {s} : Same(u)
      /\ Op(s)' # "aexecute"
  BY <1>1 DEF StepOf, Others, progVars
<1>3. \A u \in Slots : /\ Undecided(u)' <=> Undecided(u)
                       /\ Copied(u)' <=> Copied(u)
                       /\ Decided(u)' <=> Decided(u)
                       /\ Decided(u) => call'[u].reply = call[u].reply
                       /\ Copied(u) => call'[u].snap = call[u].snap
  BY <1>2 DEF Undecided, Copied, Decided, At, Op, Same
<1>4. Status' = Status
  BY <1>2, <1>3, StatusKept
<1>5. CASE ver' = ver /\ applied' = applied
  BY <1>4, <1>5, Prepares DEF IInv
<1>6. CASE ver' = ver + 1 /\ applied' = applied /\ st' = st
  <2>1. IsOpen' <=> IsOpen
    BY <1>4 DEF IsOpen
  <2>2. Writes' = Writes
    BY <1>3, <1>6, <2>1 DEF Writes
  <2>3. RestsOn' = RestsOn
    BY <1>2, <2>1 DEF RestsOn
  <2> QED BY <1>4, <1>6, <2>2, <2>3, WriteRefines
<1> QED BY <1>1, <1>5, <1>6

(* The end of an aexecute(): its answer goes to the program or nowhere.       *)
LEMMA AexecuteEnds ==
  ASSUME IInv, IInv', Standing, Standing', NEW s \in Slots, NEW r \in Replies,
         Op(s) = "aexecute", Ends(s, r), UNCHANGED progVars
  PROVE  Status' = IF pc = "execute" THEN Outcome(r) ELSE "failed"
<1>1. pc' = pc /\ awaiting' = awaiting
  BY DEF progVars
<1>2. pc \in {"execute", "failed", "raised"} /\ (pc = "execute" <=> awaiting = s)
  BY DEF Standing
<1>3. CASE awaiting = s
  <2>1. Op(s)' = "aexecute" /\ call'[s].at = "done" /\ call'[s].reply = r
    BY <1>3, EndsFacts DEF IInv, Op
  <2>2. Decided(s)'
    BY <2>1 DEF Decided, Op
  <2> QED BY <1>1, <1>2, <1>3, <2>1, <2>2 DEF Standing
<1>4. CASE awaiting # s
  <2>1. Op(s)' = "none" /\ \A u \in Slots \ {s} : Op(u)' = Op(u)
    BY <1>4, EndsFacts DEF IInv, Op
  <2>2. \A u \in Slots : Op(u)' # "aexecute"
    BY <2>1 DEF IInv, Blocks
  <2> QED BY <1>1, <1>2, <1>4, <2>2 DEF Standing
<1> QED BY <1>3, <1>4

(* EXEC, or the plain pipeline.                                               *)
LEMMA SendRefines ==
  ASSUME IInv, IInv', Standing, Standing', ReadBound', NEW s \in Slots, TaskStep(s), [Next]_vars,
         \E o \in Trips : ExecSends(s, o) \/ PlainSends(s, o)
  PROVE  [Update!Next]_(Update!vars)
<1>1. /\ Op(s) = "aexecute" /\ call[s].at \in {"exec", "plain"}
      /\ \/ /\ ver' = ver /\ applied' = applied
            /\ call'[s].reply = "ok" => "SET" \notin BlockOf(s)
         \/ /\ ver' = ver + 1 /\ applied' = applied + 1
            /\ "SET" \in BlockOf(s) /\ call'[s].reply \in {"ok", "error"}
  BY BlockSent DEF IInv
<1>2. /\ StepOf(s) /\ call'[s].at \in {"clear", "clearPlain"} /\ Op(s)' = "aexecute"
  <2>1. StepOf(s) /\ call'[s].at \in {"clear", "clearPlain"}
    BY SendsStep DEF IInv
  <2>2. Op(s)' # "none"
    BY <2>1 DEF StepOf, ShapeOf, Stages, Op
  <2> QED BY <1>1, <2>1, <2>2 DEF StepOf
<1>3. Undecided(s) /\ Copied(s) /\ Decided(s)' /\ pc' = pc
  BY <1>1, <1>2 DEF Undecided, Copied, Decided, Op, StepOf, progVars
<1>4. /\ Status = IF pc = "execute" THEN "trying" ELSE "abandoned"
      /\ Writes <=> "SET" \in BlockOf(s)
      /\ Status' = IF pc = "execute" THEN Outcome(call'[s].reply) ELSE "failed"
  BY <1>1, <1>2, <1>3 DEF Standing, BlockOf
<1>5. applied = 0
  BY <1>1 DEF IInv, Blocks
<1>6. CASE ver' = ver + 1 /\ applied' = applied + 1
  <2>1. "SET" \in BlockOf(s) /\ call'[s].reply \in {"ok", "error"}
    BY <1>1, <1>5, <1>6
  <2>2. RestsOn \in {NoRead, ver}
    BY <1>5, <1>6, AppliedStep DEF RestsOn
  <2>3. Status' \in {"succeeded", "failed"} /\ (Status = "abandoned" => Status' = "failed")
    BY <1>4, <2>1 DEF Outcome
  <2> QED BY <1>4, <1>5, <1>6, <2>1, <2>2, <2>3, EndRefines
<1>7. CASE ver' = ver /\ applied' = applied
  <2>1. call'[s].reply = "ok" => "SET" \notin BlockOf(s)
    BY <1>1, <1>5, <1>7
  <2>2. CASE Status' = Status
    BY <1>7, <2>2, Prepares DEF IInv
  <2>3. CASE Status' # Status
    <3>1. /\ Status \in {"trying", "abandoned"} /\ Status' \in {"succeeded", "failed"}
          /\ Status = "abandoned" => Status' = "failed"
          /\ Status' = "succeeded" => call'[s].reply = "ok"
      BY <1>4, <2>3 DEF Outcome
    <3>2. Status' = "succeeded" => ~Writes
      BY <1>4, <2>1, <3>1
    <3> QED BY <1>7, <3>1, <3>2, EndRefines
  <2> QED BY <2>2, <2>3
<1> QED BY <1>1, <1>6, <1>7

LEMMA AexecuteRefines ==
  ASSUME IInv, IInv', Standing, Standing', ReadBound', NEW s \in Slots, TaskStep(s), [Next]_vars,
         Op(s) = "aexecute"
  PROVE  [Update!Next]_(Update!vars)
<1> USE TypeFacts DEF IInv
<1>1. CASE \E o \in Trips : ExecSends(s, o) \/ PlainSends(s, o)
  BY <1>1, SendRefines
<1>2. ASSUME AexecuteCopies(s) \/ AexecuteLooks(s) \/ AexecuteTakes(s) \/ AexecuteClears(s)
      PROVE  UNCHANGED <<ver, applied, progVars>> /\ pc' = pc
  BY <1>2 DEF AexecuteCopies, AexecuteLooks, AexecuteTakes, AexecuteClears, serverVars, progVars
<1>3. ASSUME UNCHANGED <<ver, applied, progVars>>, pc' = pc, Undecided(s),
             call'[s].op = "aexecute", call'[s].at \in {"look", "take", "plain", "exec"}
      PROVE  [Update!Next]_(Update!vars)
  <2>1. Undecided(s)'
    BY <1>3 DEF Undecided, Copied
  <2>2. Status' = Status
    BY <1>3, <2>1 DEF Standing, Op
  <2> QED BY <1>3, <2>2, Prepares
<1>4. CASE AexecuteCopies(s)
  <2>1. Undecided(s) /\ ~Copied(s)
    BY <1>4 DEF AexecuteCopies, Undecided, Copied, At
  <2>2. /\ Status = IF pc = "execute" THEN "trying" ELSE "abandoned"
        /\ Writes <=> "SET" \in st.commands
    BY <2>1 DEF Standing
  <2>3. ASSUME NEW r \in {"ok", "error"}, Ends(s, r), r = "ok" => st.commands = {}
        PROVE  [Update!Next]_(Update!vars)
    <3>1. Status' = IF pc = "execute" THEN Outcome(r) ELSE "failed"
      BY <1>2, <1>4, <2>3, AexecuteEnds DEF Replies
    <3>2. /\ Status \in {"trying", "abandoned"} /\ Status' \in {"succeeded", "failed"}
          /\ Status = "abandoned" => Status' = "failed"
          /\ Status' = "succeeded" => r = "ok"
      BY <2>2, <2>3, <3>1 DEF Outcome
    <3>3. Status' = "succeeded" => ~Writes
      BY <2>2, <2>3, <3>2
    <3> QED BY <1>2, <1>4, <3>2, <3>3, EndRefines
  <2>4. CASE call' = [call EXCEPT ![s].snap = st, ![s].at = "look"]
    <3>1. call'[s].op = "aexecute" /\ call'[s].at = "look"
      BY <2>4 DEF CallType, Op
    <3> QED BY <1>2, <1>3, <1>4, <2>1, <3>1
  <2> QED BY <1>4, <2>3, <2>4 DEF AexecuteCopies
<1>5. CASE AexecuteLooks(s) \/ AexecuteTakes(s)
  <2>1. Undecided(s)
    BY <1>5 DEF AexecuteLooks, AexecuteTakes, Undecided, Copied, At
  <2>2. call'[s].op = "aexecute" /\ call'[s].at \in {"take", "plain", "exec"}
    BY <1>5 DEF AexecuteLooks, AexecuteTakes, Goto, CallType, Op
  <2> QED BY <1>2, <1>3, <1>5, <2>1, <2>2
<1>6. CASE AexecuteClears(s)
  <2>1. Decided(s) /\ call[s].reply \in Replies /\ Ends(s, call[s].reply)
    BY <1>6 DEF AexecuteClears, At, Decided, CallType
  <2>2. Status = IF pc = "execute" THEN Outcome(call[s].reply) ELSE "failed"
    BY <2>1 DEF Standing
  <2>3. Status' = IF pc = "execute" THEN Outcome(call[s].reply) ELSE "failed"
    BY <1>2, <1>6, <2>1, AexecuteEnds
  <2> QED BY <1>2, <1>6, <2>2, <2>3, Prepares
<1> QED BY <1>1, <1>4, <1>5, <1>6, AexecuteCases

(* Only func has its return start an aexecute(), and it is not decided yet.   *)
LEMMA MakesRefines ==
  ASSUME IInv, IInv', Standing, Standing', ReadBound', NEW s \in Slots, NEW op \in Methods,
         NEW keyed \in BOOLEAN, Makes(s, op, keyed)
  PROVE  [Update!Next]_(Update!vars)
<1> USE DEF IInv
<1>1. /\ Op(s) = "none" /\ Op(s)' = op /\ call'[s].at = First[op]
      /\ \A u \in Slots \ {s} : call'[u] = call[u]
      /\ ver' = ver /\ applied' = applied
  BY DEF Makes, Fresh, serverVars
<1>2. CASE op = "aexecute"
  <2>1. pc = "func" /\ pc' = "execute" /\ \A u \in Slots : Op(u) # "aexecute"
    BY <1>2 DEF Makes, Blocks
  <2>2. Undecided(s)'
    BY <1>1, <1>2 DEF Undecided, At, First, Op
  <2>3. Status = "trying" /\ Status' = "trying"
    BY <1>1, <1>2, <2>1, <2>2 DEF Standing
  <2> QED BY <1>1, <2>3, Prepares
<1>3. CASE op # "aexecute"
  <2>1. \A u \in Slots : /\ Op(u)' = "aexecute" <=> Op(u) = "aexecute"
                         /\ Undecided(u)' <=> Undecided(u)
                         /\ Decided(u)' <=> Decided(u)
                         /\ Decided(u) => call'[u].reply = call[u].reply
    BY <1>1, <1>3 DEF Undecided, Copied, Decided, At, Op
  <2>2. CASE pc' = pc
    <3>1. Status' = Status
      BY <2>1, <2>2, StatusKept
    <3> QED BY <1>1, <3>1, Prepares
  <2>3. CASE pc' # pc
    <3>1. pc = "start" /\ pc' = "watch" /\ \A u \in Slots : Op(u) # "aexecute"
      BY <1>3, <2>3 DEF Makes, Blocks
    <3>2. Status' = Status
      BY <2>1, <3>1 DEF Standing
    <3> QED BY <1>1, <3>2, Prepares
  <2> QED BY <2>2, <2>3
<1> QED BY <1>2, <1>3

LEMMA ResumesRefines ==
  ASSUME IInv, IInv', Standing, Standing', ReadBound', NEW s \in Slots, Resumes(s)
  PROVE  [Update!Next]_(Update!vars)
<1> USE DEF IInv
<1>1. /\ ver' = ver /\ applied' = applied /\ awaiting = s /\ call[s].at = "done"
      /\ pc \in {"watch", "func", "execute", "committed", "aborted", "failed"}
  BY ConnFacts DEF Resumes, serverVars, Helper, TypeOK
<1>2. /\ Op(s)' = "none"
      /\ pc' = "start" => \A u \in Slots : Op(u)' = "none"
      /\ pc' # "start" => \A u \in Slots \ {s} : call'[u] = call[u]
  BY ResumesFacts DEF Op
<1>3. ASSUME \A u \in Slots : Op(u) # "aexecute" PROVE \A u \in Slots : Op(u)' # "aexecute"
  BY <1>2, <1>3 DEF Op
<1>4. CASE pc \in {"watch", "func"}
  <2>1. pc' \in {"func", "failed"} /\ \A u \in Slots : Op(u) # "aexecute"
    BY <1>4 DEF Resumes, Blocks
  <2>2. Status = "trying" /\ Status' \in {"trying", "failed"}
    BY <1>3, <1>4, <2>1 DEF Standing
  <2> QED BY <1>1, <2>2, Prepares, EndRefines
<1>5. CASE pc = "execute"
  <2>1. Op(s) = "aexecute" /\ Decided(s) /\ s # None
    BY <1>1, <1>5, ConnFacts DEF Helper, Decided, Op
  <2>2. Status = IF call[s].reply = "ok" THEN "succeeded"
                 ELSE IF call[s].reply = "error" THEN "failed" ELSE "trying"
    BY <1>5, <2>1 DEF Standing, Outcome
  <2>3. /\ pc' = IF call[s].reply = "ok" THEN "committed"
                 ELSE IF call[s].reply = "abort" THEN "aborted" ELSE "failed"
        /\ \A u \in Slots : Op(u)' # "aexecute"
    <3>1. pc' = IF call[s].reply = "ok" THEN "committed"
                ELSE IF call[s].reply = "abort" THEN "aborted" ELSE "failed"
      BY <1>5 DEF Resumes
    <3>2. \A u \in Slots \ {s} : Op(u) # "aexecute"
      BY <2>1 DEF Blocks
    <3> QED BY <1>2, <3>1, <3>2 DEF Op
  <2>4. Status' = IF call[s].reply = "ok" THEN "succeeded"
                  ELSE IF call[s].reply = "abort" THEN "trying" ELSE "failed"
    BY <2>3 DEF Standing
  <2>5. Status' = Status \/ (Status = "trying" /\ Status' = "failed")
    BY <2>2, <2>4
  <2> QED BY <1>1, <2>5, Prepares, EndRefines
<1>6. CASE pc \in {"committed", "aborted"}
  <2>1. /\ pc' = IF pc = "committed" THEN "returned" ELSE "start"
        /\ \A u \in Slots : Op(u) # "aexecute"
    BY <1>6 DEF Resumes, AfterClose, Blocks
  <2>2. Status' = Status
    BY <1>3, <1>6, <2>1 DEF Standing
  <2> QED BY <1>1, <2>2, Prepares
<1>7. CASE pc = "failed"
  <2>1. pc' = "raised" /\ Op(s) = "aclose"
    BY <1>1, <1>7, ConnFacts DEF Resumes, AfterClose, Helper
  <2>2. \A u \in Slots : Undecided(u)' <=> Undecided(u)
    BY <1>2, <2>1 DEF Undecided, Copied, At, Op
  <2>3. Status' = Status
    BY <1>7, <2>1, <2>2 DEF Status
  <2> QED BY <1>1, <2>3, Prepares
<1> QED BY <1>1, <1>4, <1>5, <1>6, <1>7

(* A program that gives up aexecute() leaves the update to itself, or does    *)
(* not hear how it ended.                                                     *)
LEMMA GivesUpRefines ==
  ASSUME IInv, IInv', Standing, Standing', ReadBound', NEW s \in Slots, GivesUp(s)
  PROVE  [Update!Next]_(Update!vars)
<1> USE DEF IInv
<1>1. /\ ver' = ver /\ applied' = applied /\ awaiting = s /\ s # None
      /\ UNCHANGED <<st, call, seen>>
      /\ gaveUp' = "overlapped" <=> gaveUp = "overlapped"
      /\ \/ pc = "func" /\ pc' = pc
         \/ pc \in {"func", "watch", "execute"} /\ pc' = "failed"
         \/ pc \in {"committed", "aborted", "failed"} /\ pc' = "raised"
  BY ConnFacts DEF GivesUp, serverVars
<1>2. \A u \in Slots : /\ Op(u)' = Op(u) /\ call'[u] = call[u]
                       /\ Undecided(u)' <=> Undecided(u)
                       /\ Copied(u)' <=> Copied(u)
                       /\ Decided(u)' <=> Decided(u)
  BY <1>1 DEF Undecided, Copied, Decided, At, Op
<1>3. CASE pc' = pc
  <2>1. Status' = Status
    BY <1>1, <1>2, <1>3, StatusKept
  <2> QED BY <1>1, <2>1, Prepares
<1>4. CASE pc \in {"func", "watch", "committed", "aborted"} /\ pc' \in {"failed", "raised"}
  <2>1. \A u \in Slots : Op(u) # "aexecute" /\ Op(u)' # "aexecute"
    BY <1>2, <1>4 DEF Blocks
  <2>2. Status' = "failed" /\ Status = IF pc = "committed" THEN "succeeded" ELSE "trying"
    BY <1>4, <2>1 DEF Standing
  <2> QED BY <1>1, <2>2, EndRefines, LeaveRefines
<1>5. CASE pc = "failed" /\ pc' = "raised"
  <2>1. Status' = Status
    BY <1>2, <1>5 DEF Status
  <2> QED BY <1>1, <2>1, Prepares
<1>6. CASE pc = "execute" /\ pc' = "failed"
  <2>1. Op(s) = "aexecute"
    BY <1>1, <1>6 DEF Helper
  <2>2. CASE Undecided(s)
    <3>1. Status = "trying" /\ Status' = "abandoned"
      BY <1>2, <1>6, <2>1, <2>2 DEF Standing
    <3>2. IsOpen /\ IsOpen'
      BY <3>1 DEF IsOpen
    <3>3. Writes' = Writes
      BY <1>1, <1>2, <3>2 DEF Writes
    <3>4. RestsOn' = RestsOn
      BY <1>1, <3>2 DEF RestsOn
    <3> QED BY <1>1, <3>1, <3>3, <3>4, LeaveRefines
  <2>3. CASE Decided(s)
    <3>1. Status \in {"succeeded", "failed", "trying"} /\ Status' = "failed"
      BY <1>2, <1>6, <2>1, <2>3 DEF Standing, Outcome
    <3>2. CASE Status = "failed"
      BY <1>1, <3>1, <3>2, Prepares
    <3> QED BY <1>1, <3>1, <3>2, EndRefines, LeaveRefines
  <2> QED BY <2>1, <2>2, <2>3 DEF Standing
<1> QED BY <1>1, <1>3, <1>4, <1>5, <1>6

LEMMA StepRefines ==
  ASSUME IInv, IInv', Standing, Standing', ReadBound', [Next]_vars
  PROVE  [Update!Next]_(Update!vars)
<1>1. CASE \E s \in Slots : TaskStep(s)
  BY <1>1, CallRefines, AexecuteRefines
<1>2. CASE \E s \in Slots, op \in Methods, keyed \in BOOLEAN : Makes(s, op, keyed)
  BY <1>2, MakesRefines
<1>3. CASE \E s \in Slots : Resumes(s) \/ GivesUp(s)
  BY <1>3, ResumesRefines, GivesUpRefines
<1>4. ASSUME call' = call
      PROVE  \A u \in Slots : /\ Op(u)' = Op(u) /\ call'[u] = call[u]
                              /\ Undecided(u)' <=> Undecided(u)
                              /\ Decided(u)' <=> Decided(u)
  BY <1>4 DEF Undecided, Copied, Decided, At, Op
<1>5. CASE Begins
  <2>1. /\ pc = "start" /\ pc' = "func" /\ call' = call /\ ver' = ver /\ applied' = applied
        /\ \A u \in Slots : Op(u) # "aexecute"
    BY <1>5 DEF Begins, IInv, Blocks, serverVars
  <2>2. Status' = Status
    BY <1>4, <2>1 DEF Standing
  <2> QED BY <2>1, <2>2, Prepares DEF IInv
<1>6. CASE Buffers
  <2>1. pc' = pc /\ call' = call /\ ver' = ver /\ applied' = applied
    BY <1>6 DEF Buffers, serverVars
  <2>2. Status' = Status
    BY <1>4, <2>1, StatusKept
  <2> QED BY <2>1, <2>2, Prepares DEF IInv
<1>7. CASE Fails
  <2>1. /\ pc \in {"func", "aborted"} /\ pc' = "failed" /\ call' = call
        /\ ver' = ver /\ applied' = applied
        /\ \A u \in Slots : Op(u) # "aexecute"
    BY <1>7 DEF Fails, IInv, Blocks, serverVars
  <2>2. Status = "trying" /\ Status' = "failed"
    BY <1>4, <2>1 DEF Standing
  <2> QED BY <2>1, <2>2, EndRefines
<1>8. CASE OtherWrite
  <2>1. /\ ver' = ver + 1 /\ applied' = applied /\ st' = st
        /\ pc' = pc /\ seen' = seen /\ gaveUp' = gaveUp
        /\ \A u \in Slots : Same(u)
    BY <1>8, OtherWriteFacts DEF IInv, progVars
  <2>2. \A u \in Slots : /\ Undecided(u)' <=> Undecided(u)
                         /\ Copied(u)' <=> Copied(u)
                         /\ Decided(u)' <=> Decided(u)
                         /\ call'[u].reply = call[u].reply
                         /\ call'[u].snap = call[u].snap
    BY <2>1 DEF Undecided, Copied, Decided, At, Same
  <2>3. Status' = Status
    BY <2>1, <2>2, StatusKept
  <2>4. IsOpen' <=> IsOpen
    BY <2>3 DEF IsOpen
  <2>5. Writes' = Writes
    BY <2>1, <2>2, <2>4 DEF Writes
  <2>6. RestsOn' = RestsOn
    BY <2>1, <2>4 DEF RestsOn
  <2> QED BY <2>1, <2>3, <2>5, <2>6, WriteRefines
<1>9. CASE UNCHANGED vars
  <2>1. pc' = pc /\ call' = call /\ ver' = ver /\ applied' = applied
    BY <1>9 DEF vars
  <2>2. Status' = Status
    BY <1>4, <2>1, StatusKept
  <2> QED BY <2>1, <2>2, Prepares DEF IInv
<1> QED BY <1>1, <1>2, <1>3, <1>5, <1>6, <1>7, <1>8, <1>9, Steps DEF IInv

(* atransaction_helper and the calls it leaves behind implement the atomic    *)
(* update, whatever is given up and however many calls are in flight: the     *)
(* block is decided once, applied whole to the version that was read or not   *)
(* at all, and success means that it was applied.                             *)
THEOREM Refinement == Spec => ImplementsUpdate
<1>1. Init => Update!Init
  <2> SUFFICES ASSUME Init PROVE Update!Init
    OBVIOUS
  <2>1. \A s \in Slots : ~Copied(s)
    BY DEF Init, Copied, NoCall
  <2>2. Status = "trying"
    BY DEF Init, Status
  <2>3. Writes = FALSE /\ RestsOn = NoRead
    BY <2>1 DEF Init, Writes, RestsOn, NewState
  <2> QED BY <2>2, <2>3 DEF Init, Update!Init
<1>2. IInv /\ ReadBound' /\ [Next]_vars => [Update!Next]_(Update!vars)
  BY Known, StepRefines
<1> QED BY <1>1, <1>2, Invariant, Bound, PTL DEF Spec, ImplementsUpdate, Update!Spec
=============================================================================
