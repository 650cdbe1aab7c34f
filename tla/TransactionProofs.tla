-------------------------- MODULE TransactionProofs --------------------------
(***************************************************************************)
(* Theorems about Transaction, for every set of workers and every bound:    *)
(* its invariants, and that each worker's transaction() is one atomic       *)
(* update (AtomicUpdate).                                                   *)
(***************************************************************************)
EXTENDS Transaction, TLAPS

(* What reading under a watch rests on: a version is only remembered while   *)
(* the program counts on the watch, and then the connection still has it.    *)
Protected(w) == /\ counts[w] => /\ pipe[w].watching /\ pipe[w].reserved
                                /\ conn[w].watched /\ conn[w].srv # "none"
                /\ seen[w] # NoRead /\ conn[w].srv = "clean" => seen[w] = ver
                /\ seen[w] # NoRead => counts[w]

ProtectionInv == \A w \in Workers : Protected(w)

LEMMA TouchedType ==
  ASSUME conn \in [Workers -> Connections]
  PROVE  /\ Touched(conn) \in [Workers -> Connections]
         /\ \A u \in Workers : /\ Touched(conn)[u].watched = conn[u].watched
                               /\ Touched(conn)[u].srv # "clean"
                               /\ Touched(conn)[u].srv = "none" <=> conn[u].srv = "none"
  BY DEF Touched, Dirtied, Connections

LEMMA ConnTypes ==
  ASSUME TypeOK, NEW w \in Workers
  PROVE  /\ conn[w] \in Connections /\ NewConnection \in Connections
         /\ Reserved(w) \in Connections
         /\ \A o \in Trips : Unwatched(conn[w], o) \in Connections
         /\ conn \in [Workers -> Connections]
<1>1. conn \in [Workers -> Connections] /\ conn[w] \in Connections /\ NewConnection \in Connections
  BY DEF TypeOK, Connections, NewConnection
<1> QED BY <1>1 DEF Reserved, Unwatched, Connections

PipeType == [commands : SUBSET {"GET", "SET"}, keys : BOOLEAN, explicit : BOOLEAN,
             watching : BOOLEAN, reserved : BOOLEAN, closed : BOOLEAN]

(* The calls of the user's function keep the types of what they change.      *)
LEMMA CallTypes ==
  ASSUME TypeOK, NEW w \in Workers, NEW o \in Trips,
         \/ Watch(w, o) \/ WatchNoKeys(w) \/ Get(w, o) \/ Set(w, o) \/ Multi(w)
         \/ Unwatch(w, o) \/ Discard(w, o) \/ Reset(w) \/ Close(w)
  PROVE  /\ ver' \in Nat /\ bare' \in Nat
         /\ pipe' \in [Workers -> PipeType]
         /\ conn' \in [Workers -> Connections]
         /\ counts' \in [Workers -> BOOLEAN]
         /\ seen' \in [Workers -> Nat \cup {NoRead}]
         /\ applied' = applied
<1> USE ConnTypes
<1>0. pipe \in [Workers -> PipeType] /\ NewPipeline \in PipeType
  BY DEF TypeOK, PipeType, NewPipeline
<1>1. CASE Watch(w, o)
  <2>1. WatchSent(Reserved(w), o) \in Connections
    BY DEF Connections, WatchSent, Watched
  <2>2. [pipe[w] EXCEPT !.reserved = TRUE, !.watching = @ \/ o = "ok",
                        !.keys = @ \/ o = "ok"] \in PipeType
    BY <1>0 DEF PipeType
  <2>3. pipe' \in [Workers -> PipeType]
    <3>1. pipe' = [pipe EXCEPT ![w] = [pipe[w] EXCEPT !.reserved = TRUE,
                      !.watching = @ \/ o = "ok", !.keys = @ \/ o = "ok"]]
      BY <1>0, <1>1 DEF Watch, PipeType
    <3> QED BY <1>0, <2>2, <3>1
  <2>4. conn' \in [Workers -> Connections]
    BY <1>1, <2>1 DEF Watch
  <2>5. counts' \in [Workers -> BOOLEAN]
    BY <1>1 DEF Watch, TypeOK
  <2> QED BY <1>1, <2>3, <2>4, <2>5 DEF Watch, TypeOK
<1>b. CASE WatchNoKeys(w)
  <2>1. [pipe[w] EXCEPT !.reserved = TRUE, !.watching = TRUE] \in PipeType
    BY <1>0 DEF PipeType
  <2>2. pipe' = [pipe EXCEPT ![w] = [pipe[w] EXCEPT !.reserved = TRUE, !.watching = TRUE]]
    BY <1>0, <1>b DEF WatchNoKeys, PipeType
  <2>3. pipe' \in [Workers -> PipeType]
    BY <1>0, <2>1, <2>2
  <2>4. conn' \in [Workers -> Connections]
    BY <1>b DEF WatchNoKeys
  <2> QED BY <1>b, <2>3, <2>4 DEF WatchNoKeys, TypeOK
<1>a. \A cmd \in {"GET", "SET"} :
          [pipe EXCEPT ![w].commands = @ \cup {cmd}] \in [Workers -> PipeType]
  <2> TAKE cmd \in {"GET", "SET"}
  <2>1. pipe[w].commands \cup {cmd} \in SUBSET {"GET", "SET"}
    BY <1>0 DEF PipeType
  <2>2. [pipe[w] EXCEPT !.commands = pipe[w].commands \cup {cmd}] \in PipeType
    BY <1>0, <2>1 DEF PipeType
  <2>3. [pipe EXCEPT ![w] = [pipe[w] EXCEPT !.commands = pipe[w].commands \cup {cmd}]]
          \in [Workers -> PipeType]
    BY <1>0, <2>2
  <2> QED BY <2>3
<1>2. CASE Get(w, o)
  <2>1. pipe' \in [Workers -> PipeType]
    BY <1>0, <1>2, <1>a DEF Get
  <2>2. seen' \in [Workers -> Nat \cup {NoRead}]
    BY <1>2 DEF Get, TypeOK
  <2> QED BY <1>2, <2>1, <2>2 DEF Get, TypeOK
<1>3. CASE Set(w, o)
  <2>1. pipe' \in [Workers -> PipeType]
    BY <1>0, <1>3, <1>a DEF Set
  <2>2. ver' \in Nat /\ bare' \in Nat
    BY <1>3 DEF Set, BareWrite, TypeOK
  <2>3. conn' \in [Workers -> Connections]
    BY <1>3, TouchedType DEF Set, BareWrite
  <2> QED BY <1>3, <2>1, <2>2, <2>3 DEF Set, TypeOK
<1>4. CASE Multi(w)
  <2>1. [pipe[w] EXCEPT !.explicit = TRUE] \in PipeType
    BY <1>0 DEF PipeType
  <2>2. pipe' \in [Workers -> PipeType]
    BY <1>0, <1>4, <2>1 DEF Multi
  <2> QED BY <1>4, <2>2 DEF Multi, TypeOK
<1>5. CASE Unwatch(w, o)
  BY <1>0, <1>5 DEF Unwatch, StopCounting, TypeOK, PipeType
<1>6. CASE Discard(w, o)
  BY <1>0, <1>6 DEF Discard, StopCounting, TypeOK, PipeType
<1>7. CASE Reset(w)
  BY <1>0, <1>7 DEF Reset, Release, StopCounting, TypeOK, PipeType
<1>8. CASE Close(w)
  BY <1>0, <1>8 DEF Close, Release, StopCounting, TypeOK, PipeType
<1> QED BY <1>1, <1>b, <1>2, <1>3, <1>4, <1>5, <1>6, <1>7, <1>8

LEMMA TypeOfParts ==
  TypeOK <=> /\ ver \in Nat /\ bare \in Nat
             /\ pipe \in [Workers -> PipeType] /\ conn \in [Workers -> Connections]
             /\ pc \in [Workers -> {"start", "func", "execute", "committed", "aborted",
                                    "failed", "returned", "raised"}]
             /\ calls \in [Workers -> Nat] /\ counts \in [Workers -> BOOLEAN]
             /\ seen \in [Workers -> Nat \cup {NoRead}]
             /\ applied \in [Workers -> Nat]
  BY DEF TypeOK, PipeType, Connections

(* execute() keeps the types, whichever of its paths it takes.               *)
LEMMA ExecuteTypes ==
  ASSUME TypeOK, NEW w \in Workers, NEW o \in Trips, Execute(w, o)
  PROVE  TypeOK'
<1> USE ConnTypes
<1>0. pipe \in [Workers -> PipeType] /\ NewPipeline \in PipeType
  BY DEF TypeOK, PipeType, NewPipeline
<1>1. ver \in Nat /\ applied \in [Workers -> Nat] /\ bare' \in Nat /\ calls' \in [Workers -> Nat]
  BY DEF Execute, TypeOK
<1>2. ver' \in Nat
  BY <1>1 DEF Execute, ExecuteWatched, ExecutePlain, Apply
<1>3. applied' \in [Workers -> Nat]
  BY <1>1 DEF Execute, ExecuteWatched, ExecutePlain, Apply
<1>4. conn' \in [Workers -> Connections]
  BY TouchedType DEF Execute, ExecuteWatched, ExecutePlain, Apply, DropConnection
<1>5. pipe' \in [Workers -> PipeType]
  <2>1. [pipe[w] EXCEPT !.commands = {}, !.explicit = FALSE] \in PipeType
    BY <1>0 DEF PipeType
  <2>2. [pipe EXCEPT ![w] = [pipe[w] EXCEPT !.commands = {}, !.explicit = FALSE]]
          \in [Workers -> PipeType]
    BY <1>0, <2>1
  <2>3. [pipe EXCEPT ![w].commands = {}, ![w].explicit = FALSE]
          = [pipe EXCEPT ![w] = [pipe[w] EXCEPT !.commands = {}, !.explicit = FALSE]]
    BY <1>0 DEF PipeType
  <2>4. [pipe EXCEPT ![w] = NewPipeline] \in [Workers -> PipeType]
    BY <1>0
  <2> QED BY <1>0, <2>2, <2>3, <2>4 DEF Execute
<1>6. pc' \in [Workers -> {"start", "func", "execute", "committed", "aborted",
                           "failed", "returned", "raised"}]
  BY DEF Execute, ExecuteWatched, ExecutePlain, TypeOK
<1>7. counts' \in [Workers -> BOOLEAN]
  BY DEF Execute, StopCounting, TypeOK
<1>8. seen' \in [Workers -> Nat \cup {NoRead}]
  BY DEF Execute, StopCounting, TypeOK
<1> QED BY <1>1, <1>2, <1>3, <1>4, <1>5, <1>6, <1>7, <1>8, TypeOfParts DEF TypeOK, PipeType, Connections

LEMMA TypeStep == TypeOK /\ [Next]_vars => TypeOK'
<1> SUFFICES ASSUME TypeOK, [Next]_vars PROVE TypeOK'
  OBVIOUS
<1> USE DEF PipeType, Connections
<1>1. CASE OtherWrite
  <2>1. conn' \in [Workers -> Connections]
    BY <1>1, TouchedType DEF OtherWrite, BareWrite, TypeOK
  <2> QED BY <1>1, <2>1 DEF OtherWrite, BareWrite, TypeOK
<1>2. ASSUME NEW w \in Workers, NEW o \in Trips, Attempt(w, o) PROVE TypeOK'
  <2>1. pc' \in [Workers -> {"start", "func", "execute", "committed", "aborted",
                             "failed", "returned", "raised"}]
    BY <1>2 DEF Attempt, Goto, TypeOK
  <2>2. calls' \in [Workers -> Nat]
    BY <1>2 DEF Attempt, TypeOK
  <2>3. CASE Watch(w, o)
    BY <2>1, <2>2, <2>3, CallTypes DEF TypeOK
  <2>4. CASE UNCHANGED <<ver, bare, pipe, conn, counts, seen, applied>>
    BY <2>1, <2>2, <2>4 DEF TypeOK
  <2> QED BY <1>2, <2>3, <2>4 DEF Attempt
<1>3. ASSUME NEW w \in Workers, NEW o \in Trips, FuncCalls(w, o) PROVE TypeOK'
  <2>1. calls' \in [Workers -> Nat] /\ pc' = pc
    BY <1>3 DEF FuncCalls, TypeOK
  <2>2. \/ Watch(w, o) \/ WatchNoKeys(w) \/ Get(w, o) \/ Set(w, o) \/ Multi(w)
        \/ Unwatch(w, o) \/ Discard(w, o) \/ Reset(w) \/ Close(w)
    BY <1>3 DEF FuncCalls
  <2> QED BY <2>1, <2>2, CallTypes DEF TypeOK
<1>4. ASSUME NEW w \in Workers, NEW o \in Trips, Execute(w, o) PROVE TypeOK'
  BY <1>4, ExecuteTypes
<1>5. ASSUME NEW w \in Workers, FuncReturns(w) PROVE TypeOK'
  BY <1>5 DEF FuncReturns, Goto, TypeOK
<1>6. ASSUME NEW w \in Workers, HelperEnds(w) PROVE TypeOK'
  <2>1. NewPipeline \in PipeType /\ NewConnection \in Connections
    BY DEF NewPipeline, NewConnection
  <2>2. pipe' \in [Workers -> PipeType] /\ conn' \in [Workers -> Connections]
    BY <1>6, <2>1 DEF HelperEnds, Release, TypeOK
  <2>3. pc' \in [Workers -> {"start", "func", "execute", "committed", "aborted",
                             "failed", "returned", "raised"}]
    BY <1>6 DEF HelperEnds, Goto, TypeOK
  <2> QED BY <1>6, <2>2, <2>3 DEF HelperEnds, Release, StopCounting, TypeOK
<1>7. CASE UNCHANGED vars
  BY <1>7 DEF vars, TypeOK
<1> QED BY <1>1, <1>2, <1>3, <1>4, <1>5, <1>6, <1>7 DEF Next, WorkerNext

LEMMA TypeInit == Init => TypeOK
  BY DEF Init, TypeOK, NewPipeline, NewConnection, Connections

(* Every variable keeps its type, for any workers and any bounds.            *)
THEOREM TypeCorrect == Spec => []TypeOK
  BY TypeInit, TypeStep, PTL DEF Spec

-----------------------------------------------------------------------------
(* The protection of reads. *)

(* A worker none of whose state changes, except that a write may have dirtied *)
(* its watch, stays protected.                                               *)
LEMMA BystanderProtected ==
  ASSUME TypeOK, ProtectionInv, NEW u \in Workers,
         pipe'[u] = pipe[u], counts'[u] = counts[u], seen'[u] = seen[u],
         \/ conn'[u] = conn[u] /\ ver' = ver
         \/ conn'[u] = Touched(conn)[u]
  PROVE  Protected(u)'
<1>1. conn \in [Workers -> Connections]
  BY DEF TypeOK, Connections
<1> QED BY <1>1, TouchedType DEF ProtectionInv, Protected

(* A worker that counts on no watch has nothing to protect.                  *)
LEMMA NotCounting ==
  ASSUME NEW w \in Workers, ~counts'[w], seen'[w] = NoRead PROVE Protected(w)'
  BY DEF Protected

LEMMA WatchProtects ==
  ASSUME TypeOK, ProtectionInv, NEW w \in Workers, NEW o \in Trips, Watch(w, o)
  PROVE  ProtectionInv'
<1>1. Protected(w)'
  <2>1. Protected(w)
    BY DEF ProtectionInv
  <2>2. /\ conn'[w] = [watched |-> Reserved(w).watched \/ o = "ok",
                       srv |-> IF o = "refused" THEN Reserved(w).srv
                                                ELSE Watched(Reserved(w).srv)]
        /\ counts'[w] = (counts[w] \/ o = "ok")
        /\ seen'[w] = seen[w] /\ ver' = ver
    BY DEF Watch, WatchSent, TypeOK
  <2>3. pipe'[w].reserved /\ (pipe'[w].watching <=> pipe[w].watching \/ o = "ok")
    BY DEF Watch, TypeOK
  <2>4. counts[w] => Reserved(w) = conn[w]
    BY <2>1 DEF Protected, Reserved
  <2>5. Reserved(w) \in Connections
    BY ConnTypes
  <2>6. counts'[w] => conn'[w].watched /\ conn'[w].srv # "none"
    <3>1. CASE o = "ok"
      BY <2>2, <3>1 DEF Watched
    <3>2. CASE o # "ok" /\ counts[w]
      BY <2>1, <2>2, <2>4, <2>5, <3>2 DEF Protected, Watched, Connections
    <3> QED BY <2>2, <3>1, <3>2
  <2>7. seen'[w] # NoRead /\ conn'[w].srv = "clean" => seen'[w] = ver'
    BY <2>1, <2>2, <2>4, <2>5 DEF Protected, Watched, Connections
  <2> QED BY <2>1, <2>2, <2>3, <2>6, <2>7 DEF Protected
<1>2. ASSUME NEW u \in Workers, u # w PROVE Protected(u)'
  <2>1. pipe'[u] = pipe[u] /\ conn'[u] = conn[u] /\ ver' = ver
        /\ counts'[u] = counts[u] /\ seen'[u] = seen[u]
    BY <1>2 DEF Watch, TypeOK
  <2> QED BY <2>1, BystanderProtected
<1> QED BY <1>1, <1>2 DEF ProtectionInv

LEMMA CallProtects ==
  ASSUME TypeOK, ProtectionInv, NEW w \in Workers, NEW o \in Trips,
         \/ Watch(w, o) \/ WatchNoKeys(w) \/ Get(w, o) \/ Set(w, o) \/ Multi(w)
         \/ Unwatch(w, o) \/ Discard(w, o) \/ Reset(w) \/ Close(w)
  PROVE  ProtectionInv'
<1>1. CASE Watch(w, o)
  BY <1>1, WatchProtects
<1>b. CASE WatchNoKeys(w)
  <2>1. Protected(w)
    BY DEF ProtectionInv
  <2>2. counts[w] => Reserved(w) = conn[w]
    BY <2>1 DEF Protected, Reserved
  <2>3. conn'[w] = Reserved(w) /\ pipe'[w].reserved /\ pipe'[w].watching
    BY <1>b DEF WatchNoKeys, TypeOK
  <2>4. Protected(w)'
    BY <1>b, <2>1, <2>2, <2>3 DEF WatchNoKeys, Protected
  <2>5. ASSUME NEW u \in Workers, u # w PROVE Protected(u)'
    <3>1. pipe'[u] = pipe[u] /\ conn'[u] = conn[u] /\ ver' = ver
          /\ counts' = counts /\ seen' = seen
      BY <1>b, <2>5 DEF WatchNoKeys, TypeOK
    <3> QED BY <3>1, BystanderProtected
  <2> QED BY <2>4, <2>5 DEF ProtectionInv
<1>2. CASE Get(w, o)
  <2>1. Protected(w)'
    <3>1. Protected(w)
      BY DEF ProtectionInv
    <3>2. pipe'[w].watching = pipe[w].watching /\ pipe'[w].reserved = pipe[w].reserved
      BY <1>2 DEF Get, TypeOK
    <3>3. seen'[w] = seen[w] \/ (counts[w] /\ seen'[w] = ver)
      BY <1>2 DEF Get, TypeOK
    <3> QED BY <1>2, <3>1, <3>2, <3>3 DEF Protected, Get
  <2>2. ASSUME NEW u \in Workers, u # w PROVE Protected(u)'
    <3>1. pipe'[u] = pipe[u] /\ conn' = conn /\ ver' = ver
          /\ counts' = counts /\ seen'[u] = seen[u]
      BY <1>2, <2>2 DEF Get, TypeOK
    <3> QED BY <3>1, BystanderProtected
  <2> QED BY <2>1, <2>2 DEF ProtectionInv
<1>3. CASE Set(w, o)
  <2>1. CASE BareWrite /\ UNCHANGED <<pipe, counts, seen>>
    BY <2>1, BystanderProtected DEF BareWrite, ProtectionInv
  <2>2. CASE /\ pipe' = [pipe EXCEPT ![w].commands = @ \cup {"SET"}]
             /\ UNCHANGED <<ver, conn, counts, seen>>
    <3>1. \A u \in Workers : /\ pipe'[u].watching = pipe[u].watching
                             /\ pipe'[u].reserved = pipe[u].reserved
      BY <2>2 DEF TypeOK
    <3> QED BY <2>2, <3>1 DEF ProtectionInv, Protected
  <2>3. CASE UNCHANGED <<ver, bare, conn, pipe, counts, seen>>
    BY <2>3 DEF ProtectionInv, Protected
  <2> QED BY <1>3, <2>1, <2>2, <2>3 DEF Set
<1>4. CASE Multi(w)
  <2>1. \A u \in Workers : /\ pipe'[u].watching = pipe[u].watching
                           /\ pipe'[u].reserved = pipe[u].reserved
    BY <1>4 DEF Multi, TypeOK
  <2> QED BY <1>4, <2>1 DEF Multi, ProtectionInv, Protected
<1>5. CASE Unwatch(w, o) \/ Discard(w, o) \/ Reset(w) \/ Close(w)
  <2>1. ~counts'[w] /\ seen'[w] = NoRead
    BY <1>5 DEF Unwatch, Discard, Reset, Close, Release, StopCounting, TypeOK
  <2>2. ASSUME NEW u \in Workers, u # w PROVE Protected(u)'
    <3>1. pipe'[u] = pipe[u]
      BY <1>5, <2>2 DEF Unwatch, Discard, Reset, Close, TypeOK
    <3>2. conn'[u] = conn[u] /\ ver' = ver
      BY <1>5, <2>2 DEF Unwatch, Discard, Reset, Close, Release, TypeOK
    <3>3. counts'[u] = counts[u] /\ seen'[u] = seen[u]
      BY <1>5, <2>2 DEF Unwatch, Discard, Reset, Close, Release, StopCounting, TypeOK
    <3> QED BY <3>1, <3>2, <3>3, BystanderProtected
  <2> QED BY <2>1, <2>2, NotCounting DEF ProtectionInv
<1> QED BY <1>1, <1>b, <1>2, <1>3, <1>4, <1>5

LEMMA ExecuteProtects ==
  ASSUME TypeOK, ProtectionInv, NEW w \in Workers, NEW o \in Trips, Execute(w, o)
  PROVE  ProtectionInv'
<1>1. CASE UNCHANGED <<ver, conn, pipe, counts, seen>>
  BY <1>1 DEF ProtectionInv, Protected
<1>2. CASE ExecuteWatched(w, o) /\ pipe' = [pipe EXCEPT ![w] = NewPipeline]
           /\ StopCounting(w)
  <2>1. ~counts'[w] /\ seen'[w] = NoRead
    BY <1>2 DEF StopCounting, TypeOK
  <2>2. ASSUME NEW u \in Workers, u # w PROVE Protected(u)'
    <3>1. pipe'[u] = pipe[u] /\ counts'[u] = counts[u] /\ seen'[u] = seen[u]
      BY <1>2, <2>2 DEF StopCounting, TypeOK
    <3>2. \/ conn'[u] = conn[u] /\ ver' = ver
          \/ conn'[u] = Touched(conn)[u]
      BY <1>2, <2>2 DEF ExecuteWatched, Apply, DropConnection, Touched, Dirtied, TypeOK
    <3> QED BY <3>1, <3>2, BystanderProtected
  <2> QED BY <2>1, <2>2, NotCounting DEF ProtectionInv
<1>3. CASE ~pipe[w].watching /\ ExecutePlain(w, o)
           /\ pipe' = [pipe EXCEPT ![w].commands = {}, ![w].explicit = FALSE]
           /\ UNCHANGED <<counts, seen>>
  <2>1. ~counts'[w] /\ seen'[w] = NoRead
    BY <1>3 DEF ProtectionInv, Protected
  <2>2. ASSUME NEW u \in Workers, u # w PROVE Protected(u)'
    <3>1. pipe'[u] = pipe[u] /\ counts'[u] = counts[u] /\ seen'[u] = seen[u]
      BY <1>3, <2>2 DEF TypeOK
    <3>2. \/ conn'[u] = conn[u] /\ ver' = ver
          \/ conn'[u] = Touched(conn)[u]
      BY <1>3 DEF ExecutePlain
    <3> QED BY <3>1, <3>2, BystanderProtected
  <2> QED BY <2>1, <2>2, NotCounting DEF ProtectionInv
<1> QED BY <1>1, <1>2, <1>3 DEF Execute

LEMMA ProtectionStep == TypeOK /\ ProtectionInv /\ [Next]_vars => ProtectionInv'
<1> SUFFICES ASSUME TypeOK, ProtectionInv, [Next]_vars PROVE ProtectionInv'
  OBVIOUS
<1>1. CASE OtherWrite
  BY <1>1, BystanderProtected DEF OtherWrite, BareWrite, ProtectionInv
<1>2. ASSUME NEW w \in Workers, NEW o \in Trips, Attempt(w, o) PROVE ProtectionInv'
  <2>1. CASE UNCHANGED <<ver, bare, pipe, conn, counts, seen, applied>>
    BY <2>1 DEF ProtectionInv, Protected
  <2> QED BY <1>2, <2>1, WatchProtects DEF Attempt
<1>3. ASSUME NEW w \in Workers, NEW o \in Trips, FuncCalls(w, o) PROVE ProtectionInv'
  BY <1>3, CallProtects DEF FuncCalls
<1>4. ASSUME NEW w \in Workers, NEW o \in Trips, Execute(w, o) PROVE ProtectionInv'
  BY <1>4, ExecuteProtects
<1>5. ASSUME NEW w \in Workers, FuncReturns(w) PROVE ProtectionInv'
  BY <1>5 DEF FuncReturns, ProtectionInv, Protected
<1>6. ASSUME NEW w \in Workers, HelperEnds(w) PROVE ProtectionInv'
  <2>1. ~counts'[w] /\ seen'[w] = NoRead
    BY <1>6 DEF HelperEnds, Release, StopCounting, TypeOK
  <2>2. ASSUME NEW u \in Workers, u # w PROVE Protected(u)'
    <3>1. pipe'[u] = pipe[u] /\ conn'[u] = conn[u] /\ ver' = ver
          /\ counts'[u] = counts[u] /\ seen'[u] = seen[u]
      BY <1>6, <2>2 DEF HelperEnds, Release, StopCounting, TypeOK
    <3> QED BY <3>1, BystanderProtected
  <2> QED BY <2>1, <2>2, NotCounting DEF ProtectionInv
<1>7. CASE UNCHANGED vars
  BY <1>7 DEF vars, ProtectionInv, Protected
<1> QED BY <1>1, <1>2, <1>3, <1>4, <1>5, <1>6, <1>7 DEF Next, WorkerNext

LEMMA ProtectionInit == Init => ProtectionInv
  BY DEF Init, ProtectionInv, Protected

LEMMA Protection == Spec => [](TypeOK /\ ProtectionInv)
  BY TypeInit, TypeStep, ProtectionInit, ProtectionStep, PTL DEF Spec

(* A program that watched and read is still watched on the server, and what  *)
(* it read is current while its watch is clean.                              *)
THEOREM ReadsProtected == Spec => []ReadIsProtected
<1>1. ProtectionInv => ReadIsProtected
  BY DEF ProtectionInv, Protected, ReadIsProtected
<1> QED BY <1>1, Protection, PTL

(* EXEC never applies a block to another version than the one that was read. *)
THEOREM NoLostUpdate == Spec => AppliedToWhatWasRead
<1>1. TypeOK /\ ProtectionInv /\ [Next]_vars =>
        [\A w \in Workers : applied'[w] > applied[w] /\ seen[w] # NoRead
                              => seen[w] = ver]_vars
  <2> SUFFICES ASSUME TypeOK, ProtectionInv, Next, NEW w \in Workers,
                      applied'[w] > applied[w], seen[w] # NoRead
               PROVE  seen[w] = ver
    BY DEF vars
  <2>1. Protected(w) /\ counts[w] /\ pipe[w].watching /\ conn[w].watched
        /\ conn[w].srv # "none"
    BY DEF ProtectionInv, Protected
  <2>2. applied[w] \in Nat /\ conn[w].srv \in {"none", "clean", "dirty"}
    BY DEF TypeOK, Connections
  <2>3. applied' # applied
    BY <2>2
  <2>4. PICK u \in Workers, o \in Trips : Execute(u, o)
    <3>1. CASE OtherWrite
      BY <2>3, <3>1 DEF OtherWrite
    <3>2. ASSUME NEW u \in Workers, NEW o \in Trips, Attempt(u, o) \/ FuncCalls(u, o)
          PROVE  FALSE
      BY <2>3, <3>2 DEF Attempt, FuncCalls, Watch, WatchNoKeys, Get, Set, Multi, Unwatch, Discard,
                        Reset, Close
    <3>3. ASSUME NEW u \in Workers, FuncReturns(u) \/ HelperEnds(u) PROVE FALSE
      BY <2>3, <3>3 DEF FuncReturns, HelperEnds
    <3> QED BY <3>1, <3>2, <3>3 DEF Next, WorkerNext
  <2>5. u = w
    BY <2>2, <2>4 DEF Execute, ExecuteWatched, ExecutePlain, Apply, TypeOK
  <2>6. ExecuteWatched(w, o) /\ ExecState(w) # "dirty"
    BY <2>1, <2>3, <2>4, <2>5 DEF Execute, ExecuteWatched
  <2>7. conn[w].srv = "clean"
    BY <2>1, <2>2, <2>6 DEF ExecState, ExecWatch
  <2> QED BY <2>1, <2>7 DEF Protected
<1> QED BY <1>1, Protection, PTL DEF Spec, AppliedToWhatWasRead

(* transaction() applies at most one block, and none before an attempt that  *)
(* it will repeat.                                                           *)
THEOREM AtMostOneBlock == Spec => []AppliedAtMostOnce
<1>1. Init => AppliedAtMostOnce
  BY DEF Init, AppliedAtMostOnce
<1>2. TypeOK /\ AppliedAtMostOnce /\ [Next]_vars => AppliedAtMostOnce'
  <2> SUFFICES ASSUME TypeOK, AppliedAtMostOnce, [Next]_vars PROVE AppliedAtMostOnce'
    OBVIOUS
  <2>1. CASE OtherWrite
    BY <2>1 DEF OtherWrite, AppliedAtMostOnce
  <2>2. ASSUME NEW w \in Workers, NEW o \in Trips, Attempt(w, o) PROVE AppliedAtMostOnce'
    BY <2>2 DEF Attempt, Watch, Goto, AppliedAtMostOnce, TypeOK
  <2>3. ASSUME NEW w \in Workers, NEW o \in Trips, FuncCalls(w, o) PROVE AppliedAtMostOnce'
    <3>1. applied' = applied /\ pc' = pc
      BY <2>3 DEF FuncCalls, Watch, WatchNoKeys, Get, Set, Multi, Unwatch, Discard, Reset, Close
    <3> QED BY <3>1 DEF AppliedAtMostOnce
  <2>4. ASSUME NEW w \in Workers, NEW o \in Trips, Execute(w, o) PROVE AppliedAtMostOnce'
    <3>1. applied[w] = 0
      BY <2>4 DEF Execute, AppliedAtMostOnce
    <3>2. \/ applied' = applied /\ pc'[w] \in {"committed", "aborted", "failed"}
          \/ applied'[w] <= 1 /\ pc'[w] \in {"committed", "failed"}
      BY <2>4, <3>1 DEF Execute, ExecuteWatched, ExecutePlain, Apply, TypeOK
    <3>3. \A u \in Workers \ {w} : applied'[u] = applied[u] /\ pc'[u] = pc[u]
      BY <2>4 DEF Execute, ExecuteWatched, ExecutePlain, Apply, TypeOK
    <3> QED BY <3>1, <3>2, <3>3 DEF AppliedAtMostOnce
  <2>5. ASSUME NEW w \in Workers, FuncReturns(w) PROVE AppliedAtMostOnce'
    BY <2>5 DEF FuncReturns, Goto, AppliedAtMostOnce, TypeOK
  <2>6. ASSUME NEW w \in Workers, HelperEnds(w) PROVE AppliedAtMostOnce'
    BY <2>6 DEF HelperEnds, Goto, AppliedAtMostOnce, TypeOK
  <2>7. CASE UNCHANGED vars
    BY <2>7 DEF vars, AppliedAtMostOnce
  <2> QED BY <2>1, <2>2, <2>3, <2>4, <2>5, <2>6, <2>7 DEF Next, WorkerNext
<1> QED BY <1>1, <1>2, TypeCorrect, PTL DEF Spec

-----------------------------------------------------------------------------
(* The refinement: transaction() is an atomic update. *)

(* No program has read a version the key has not had.                        *)
SeenBound == \A w \in Workers : seen[w] # NoRead => seen[w] <= ver

LEMMA BoundStep == TypeOK /\ SeenBound /\ [Next]_vars => SeenBound' /\ ver <= ver'
<1> SUFFICES ASSUME TypeOK, SeenBound, [Next]_vars PROVE SeenBound' /\ ver <= ver'
  OBVIOUS
<1>1. ver' = ver \/ ver' = ver + 1
  <2>1. CASE \E w \in Workers, o \in Trips : Attempt(w, o) \/ FuncCalls(w, o)
    BY <2>1 DEF Attempt, FuncCalls, Watch, WatchNoKeys, Get, Set, BareWrite, Multi, Unwatch, Discard,
                Reset, Close
  <2>2. CASE \E w \in Workers, o \in Trips : Execute(w, o)
    BY <2>2 DEF Execute, ExecuteWatched, ExecutePlain, Apply
  <2>3. CASE OtherWrite \/ (\E w \in Workers : FuncReturns(w) \/ HelperEnds(w)) \/ UNCHANGED vars
    BY <2>3 DEF OtherWrite, BareWrite, FuncReturns, HelperEnds, vars
  <2> QED BY <2>1, <2>2, <2>3 DEF Next, WorkerNext
<1>2. ASSUME NEW u \in Workers PROVE seen'[u] \in {seen[u], ver, NoRead}
  <2>1. CASE \E w \in Workers, o \in Trips : Attempt(w, o) \/ FuncCalls(w, o)
    BY <2>1 DEF Attempt, FuncCalls, Watch, WatchNoKeys, Get, Set, BareWrite, Multi, Unwatch, Discard,
                Reset, Close, Release, StopCounting, TypeOK
  <2>2. CASE \E w \in Workers, o \in Trips : Execute(w, o)
    BY <2>2 DEF Execute, StopCounting, TypeOK
  <2>3. CASE OtherWrite \/ (\E w \in Workers : FuncReturns(w) \/ HelperEnds(w)) \/ UNCHANGED vars
    BY <2>3 DEF OtherWrite, FuncReturns, HelperEnds, Release, StopCounting, vars, TypeOK
  <2> QED BY <2>1, <2>2, <2>3 DEF Next, WorkerNext
<1>3. ver \in Nat /\ \A u \in Workers : seen[u] \in Nat \cup {NoRead}
  BY DEF TypeOK
<1> QED BY <1>1, <1>2, <1>3 DEF SeenBound

LEMMA Bound == Spec => []SeenBound
<1>1. Init => SeenBound
  BY DEF Init, SeenBound
<1> QED BY <1>1, BoundStep, TypeCorrect, PTL DEF Spec

(* All that a step leaves alone of the workers other than w.                 *)
OthersStay(w) == \A u \in Workers \ {w} :
    pc'[u] = pc[u] /\ pipe'[u] = pipe[u] /\ seen'[u] = seen[u] /\ applied'[u] = applied[u]

(* What the abstract state looks like when only w moves.                     *)
LEMMA Mapped ==
  ASSUME NEW w \in Workers, TypeOK, TypeOK', OthersStay(w)
  PROVE  /\ [u \in Workers |-> Status(u)]' = [[u \in Workers |-> Status(u)] EXCEPT ![w] = Status(w)']
         /\ [u \in Workers |-> Writes(u)]' = [[u \in Workers |-> Writes(u)] EXCEPT ![w] = Writes(w)']
         /\ [u \in Workers |-> RestsOn(u)]' = [[u \in Workers |-> RestsOn(u)] EXCEPT ![w] = RestsOn(w)']
         /\ applied' = [applied EXCEPT ![w] = applied'[w]]
         /\ \A u \in Workers \ {w} : /\ Status(u)' = Status(u) /\ Writes(u)' = Writes(u)
                                     /\ RestsOn(u)' = RestsOn(u)
<1>1. ASSUME NEW u \in Workers \ {w}
      PROVE  Status(u)' = Status(u) /\ Writes(u)' = Writes(u) /\ RestsOn(u)' = RestsOn(u)
  <2>1. Status(u)' = Status(u)
    BY DEF OthersStay, Status
  <2> QED BY <2>1 DEF OthersStay, Writes, RestsOn
<1>2. applied \in [Workers -> Nat] /\ applied' \in [Workers -> Nat]
  BY DEF TypeOK
<1>3. applied' = [applied EXCEPT ![w] = applied'[w]]
  BY <1>2 DEF OthersStay
<1> QED BY <1>1, <1>3

(* A step in which nothing is decided prepares the update.                   *)
LEMMA Prepares ==
  ASSUME NEW w \in Workers, TypeOK, TypeOK', SeenBound', OthersStay(w),
         ver' = ver, applied' = applied, Status(w)' = Status(w)
  PROVE  [Update!Next]_(Update!vars)
<1>1. CASE Status(w) = "trying"
  <2>1. RestsOn(w)' \in (0..ver) \cup {NoRead}
    BY <1>1 DEF RestsOn, SeenBound, TypeOK
  <2>2. Writes(w)' \in BOOLEAN
    BY DEF Writes
  <2>3. [u \in Workers |-> Status(u)]' = [u \in Workers |-> Status(u)]
    BY Mapped
  <2>4. Update!Open(w)
    BY <1>1 DEF Update!Open
  <2>5. Update!Prepare(w)
    BY <2>1, <2>2, <2>3, <2>4, Mapped DEF Update!Prepare
  <2> QED BY <2>5 DEF Update!Next
<1>2. CASE Status(w) # "trying"
  <2>1. Writes(w)' = Writes(w) /\ RestsOn(w)' = RestsOn(w)
    BY <1>2 DEF Writes, RestsOn
  <2>2. /\ [u \in Workers |-> Status(u)]' = [u \in Workers |-> Status(u)]
        /\ [u \in Workers |-> Writes(u)]' = [u \in Workers |-> Writes(u)]
        /\ [u \in Workers |-> RestsOn(u)]' = [u \in Workers |-> RestsOn(u)]
    BY <2>1, Mapped
  <2> QED BY <2>2 DEF Update!vars
<1> QED BY <1>1, <1>2

LEMMA CallRefines ==
  ASSUME TypeOK, TypeOK', SeenBound', NEW w \in Workers, NEW o \in Trips, pc' = pc,
         \/ Watch(w, o) \/ WatchNoKeys(w) \/ Get(w, o) \/ Set(w, o) \/ Multi(w)
         \/ Unwatch(w, o) \/ Discard(w, o) \/ Reset(w) \/ Close(w)
  PROVE  [Update!Next]_(Update!vars)
<1>1. Status(w)' = Status(w)
  BY DEF Status
<1>2. CASE BareWrite /\ UNCHANGED <<pipe, seen, applied>>
  <2>1. \A u \in Workers : Status(u)' = Status(u) /\ Writes(u)' = Writes(u) /\ RestsOn(u)' = RestsOn(u)
    BY <1>2 DEF Status, Writes, RestsOn
  <2>2. Update!Write
    BY <1>2, <2>1 DEF BareWrite, Update!Write
  <2> QED BY <2>2 DEF Update!Next
<1>3. CASE ver' = ver /\ applied' = applied /\ OthersStay(w)
  BY <1>1, <1>3, Prepares
<1>4. CASE Watch(w, o) \/ WatchNoKeys(w) \/ Get(w, o) \/ Multi(w)
  BY <1>3, <1>4 DEF Watch, WatchNoKeys, Get, Multi, OthersStay, TypeOK
<1>5. CASE Set(w, o)
  BY <1>2, <1>3, <1>5 DEF Set, OthersStay, TypeOK
<1>6. CASE Unwatch(w, o) \/ Discard(w, o) \/ Reset(w) \/ Close(w)
  BY <1>3, <1>6 DEF Unwatch, Discard, Reset, Close, Release, StopCounting, OthersStay, TypeOK
<1> QED BY <1>4, <1>5, <1>6

(* The call ends: what it had buffered was applied, or not.                  *)
LEMMA EndRefines ==
  ASSUME NEW w \in Workers, TypeOK, TypeOK', OthersStay(w),
         Status(w) = "trying", Status(w)' \in {"succeeded", "failed"},
         \/ /\ ver' = ver /\ applied' = applied
            /\ Status(w)' = "succeeded" => "SET" \notin pipe[w].commands
         \/ /\ ver' = ver + 1 /\ applied[w] = 0 /\ applied'[w] = 1
            /\ "SET" \in pipe[w].commands /\ seen[w] \in {NoRead, ver}
  PROVE  [Update!Next]_(Update!vars)
<1>1. Writes(w)' = FALSE /\ RestsOn(w)' = NoRead
  BY DEF Writes, RestsOn
<1>2. (Writes(w) <=> "SET" \in pipe[w].commands) /\ RestsOn(w) = seen[w]
  BY DEF Writes, RestsOn
<1>3. Update!Ends(w, Status(w)')
  BY <1>1, Mapped DEF Update!Ends, Update!Open
<1>4. CASE ver' = ver /\ applied' = applied
  <2>0. applied'[w] = applied[w]
    BY <1>4
  <2>1. Status(w)' = "succeeded" => ~Writes(w)
    BY <1>2, <2>0
  <2>2. Update!Settle(w)
    BY <1>3, <1>4, <2>1 DEF Update!Settle
  <2> QED BY <2>2 DEF Update!Next
<1>5. CASE ver' # ver \/ applied' # applied
  <2>1. Update!Apply(w)
    BY <1>2, <1>3, <1>5, Mapped DEF Update!Apply
  <2> QED BY <2>1 DEF Update!Next
<1> QED BY <1>4, <1>5

LEMMA ExecuteRefines ==
  ASSUME TypeOK, TypeOK', SeenBound', ProtectionInv, AppliedAtMostOnce,
         NEW w \in Workers, NEW o \in Trips, Execute(w, o)
  PROVE  [Update!Next]_(Update!vars)
<1>1. pc[w] = "execute" /\ Status(w) = "trying" /\ applied[w] = 0
  BY DEF Execute, Status, AppliedAtMostOnce
<1>2. OthersStay(w)
  BY DEF Execute, ExecuteWatched, ExecutePlain, Apply, StopCounting, OthersStay, TypeOK
<1>3. CASE UNCHANGED <<ver, conn, pipe, counts, seen, applied>> /\ pc' = [pc EXCEPT ![w] = "failed"]
  <2>1. Status(w)' = "failed"
    BY <1>3 DEF Status, TypeOK
  <2> QED BY <1>1, <1>2, <1>3, <2>1, EndRefines
<1>4. CASE ExecuteWatched(w, o)
  <2>1. ASSUME pipe[w].commands # {}, o # "refused", ExecState(w) # "dirty", Apply(w, pipe[w].commands)
        PROVE  [Update!Next]_(Update!vars)
    <3>1. Status(w)' \in {"succeeded", "failed"}
      BY <1>4, <2>1 DEF ExecuteWatched, Status, TypeOK
    <3>2. seen[w] \in {NoRead, ver}
      <4> SUFFICES ASSUME seen[w] # NoRead PROVE seen[w] = ver
        OBVIOUS
      <4>1. Protected(w) /\ counts[w] /\ conn[w].watched /\ conn[w].srv # "none"
        BY DEF ProtectionInv, Protected
      <4>2. conn[w].srv \in {"none", "clean", "dirty"}
        BY DEF TypeOK, Connections
      <4>3. conn[w].srv = "clean"
        BY <2>1, <4>1, <4>2 DEF ExecState, ExecWatch
      <4> QED BY <4>1, <4>3 DEF Protected
    <3>3. CASE "SET" \in pipe[w].commands
      <4>1. ver' = ver + 1 /\ applied'[w] = 1
        BY <1>1, <2>1, <3>3 DEF Apply, TypeOK
      <4> QED BY <1>1, <1>2, <3>1, <3>2, <3>3, <4>1, EndRefines
    <3>4. CASE "SET" \notin pipe[w].commands
      <4>1. ver' = ver /\ applied' = applied
        BY <2>1, <3>4 DEF Apply, TypeOK
      <4> QED BY <1>1, <1>2, <3>1, <3>4, <4>1, EndRefines
    <3> QED BY <3>3, <3>4
  <2>2. ASSUME pipe[w].commands = {} \/ o = "refused" \/ ExecState(w) = "dirty",
               UNCHANGED <<ver, applied>>
        PROVE  [Update!Next]_(Update!vars)
    <3>1. pc'[w] \in {"failed", "aborted", "committed"}
          /\ (pc'[w] = "committed" => pipe[w].commands = {})
      BY <1>4, <2>2 DEF ExecuteWatched, TypeOK, Trips
    <3>2. CASE pc'[w] = "aborted"
      <4>1. Status(w)' = Status(w)
        BY <1>1, <3>2 DEF Status
      <4> QED BY <1>2, <2>2, <4>1, Prepares
    <3>3. CASE pc'[w] # "aborted"
      <4>1. Status(w)' \in {"succeeded", "failed"} /\ (Status(w)' = "succeeded" => pipe[w].commands = {})
        BY <3>1, <3>3 DEF Status
      <4> QED BY <1>1, <1>2, <2>2, <4>1, EndRefines
    <3> QED BY <3>2, <3>3
  <2> QED BY <1>4, <2>1, <2>2 DEF ExecuteWatched
<1>5. CASE ~pipe[w].watching /\ ExecutePlain(w, o)
  <2>1. seen[w] = NoRead
    BY <1>5 DEF ProtectionInv, Protected
  <2>2. Status(w)' \in {"succeeded", "failed"}
        /\ (Status(w)' = "succeeded" => o = "ok" \/ pipe[w].commands = {})
    BY <1>5 DEF ExecutePlain, Status, TypeOK
  <2>3. CASE o = "refused" \/ pipe[w].commands = {} \/ "SET" \notin pipe[w].commands
    <3>1. ver' = ver /\ applied' = applied /\ (Status(w)' = "succeeded" => "SET" \notin pipe[w].commands)
      BY <1>5, <2>2, <2>3 DEF ExecutePlain, TypeOK
    <3> QED BY <1>1, <1>2, <2>2, <3>1, EndRefines
  <2>4. CASE o # "refused" /\ "SET" \in pipe[w].commands
    <3>1. ver' = ver + 1 /\ applied'[w] = 1
      BY <1>1, <1>5, <2>4 DEF ExecutePlain, TypeOK
    <3> QED BY <1>1, <1>2, <2>1, <2>2, <2>4, <3>1, EndRefines
  <2> QED BY <2>3, <2>4
<1> QED BY <1>3, <1>4, <1>5 DEF Execute

(* The transaction of every worker implements the atomic update, for any     *)
(* number of workers.                                                        *)
THEOREM Refinement == Spec => ImplementsUpdate
<1>1. Init => Update!Init
  <2> SUFFICES ASSUME Init PROVE Update!Init
    OBVIOUS
  <2>1. \A w \in Workers : Status(w) = "trying" /\ Writes(w) = FALSE /\ RestsOn(w) = NoRead
    BY DEF Init, Status, Writes, RestsOn, NewPipeline
  <2> QED BY <2>1 DEF Init, Update!Init
<1>2. TypeOK /\ TypeOK' /\ SeenBound' /\ ProtectionInv /\ AppliedAtMostOnce /\ [Next]_vars
        => [Update!Next]_(Update!vars)
  <2> SUFFICES ASSUME TypeOK, TypeOK', SeenBound', ProtectionInv, AppliedAtMostOnce, [Next]_vars
               PROVE  [Update!Next]_(Update!vars)
    OBVIOUS
  <2>1. CASE OtherWrite
    <3>1. \A u \in Workers : Status(u)' = Status(u) /\ Writes(u)' = Writes(u) /\ RestsOn(u)' = RestsOn(u)
      BY <2>1 DEF OtherWrite, Status, Writes, RestsOn
    <3>2. Update!Write
      BY <2>1, <3>1 DEF OtherWrite, BareWrite, Update!Write
    <3> QED BY <3>2 DEF Update!Next
  <2>2. ASSUME NEW w \in Workers, NEW o \in Trips, Attempt(w, o) PROVE [Update!Next]_(Update!vars)
    <3>1. OthersStay(w) /\ ver' = ver /\ applied' = applied /\ Status(w) = "trying"
      BY <2>2 DEF Attempt, Watch, Goto, OthersStay, Status, TypeOK
    <3>2. pc'[w] \in {"func", "failed"}
      BY <2>2 DEF Attempt, Goto, TypeOK
    <3>3. CASE pc'[w] = "func"
      <4>1. Status(w)' = "trying"
        BY <3>3 DEF Status
      <4> QED BY <3>1, <4>1, Prepares
    <3>4. CASE pc'[w] = "failed"
      <4>1. Status(w)' = "failed"
        BY <3>4 DEF Status
      <4> QED BY <3>1, <4>1, EndRefines
    <3> QED BY <3>2, <3>3, <3>4
  <2>3. ASSUME NEW w \in Workers, NEW o \in Trips, FuncCalls(w, o) PROVE [Update!Next]_(Update!vars)
    BY <2>3, CallRefines DEF FuncCalls
  <2>4. ASSUME NEW w \in Workers, NEW o \in Trips, Execute(w, o) PROVE [Update!Next]_(Update!vars)
    BY <2>4, ExecuteRefines
  <2>5. ASSUME NEW w \in Workers, FuncReturns(w) PROVE [Update!Next]_(Update!vars)
    <3>1. OthersStay(w) /\ ver' = ver /\ applied' = applied /\ Status(w) = "trying"
      BY <2>5 DEF FuncReturns, Goto, OthersStay, Status, TypeOK
    <3>2. pc'[w] \in {"execute", "failed"}
      BY <2>5 DEF FuncReturns, Goto, TypeOK
    <3>3. CASE pc'[w] = "execute"
      <4>1. Status(w)' = "trying"
        BY <3>3 DEF Status
      <4> QED BY <3>1, <4>1, Prepares
    <3>4. CASE pc'[w] = "failed"
      <4>1. Status(w)' = "failed"
        BY <3>4 DEF Status
      <4> QED BY <3>1, <4>1, EndRefines
    <3> QED BY <3>2, <3>3, <3>4
  <2>6. ASSUME NEW w \in Workers, HelperEnds(w) PROVE [Update!Next]_(Update!vars)
    <3>1. OthersStay(w) /\ ver' = ver /\ applied' = applied
      BY <2>6 DEF HelperEnds, Release, StopCounting, Goto, OthersStay, TypeOK
    <3>2. Status(w)' = Status(w)
      BY <2>6 DEF HelperEnds, Goto, Status, TypeOK
    <3> QED BY <3>1, <3>2, Prepares
  <2>7. CASE UNCHANGED vars
    <3>1. \A u \in Workers : Status(u)' = Status(u) /\ Writes(u)' = Writes(u) /\ RestsOn(u)' = RestsOn(u)
      BY <2>7 DEF vars, Status, Writes, RestsOn
    <3> QED BY <2>7, <3>1 DEF vars, Update!vars
  <2> QED BY <2>1, <2>2, <2>3, <2>4, <2>5, <2>6, <2>7 DEF Next, WorkerNext
<1> QED
  BY <1>1, <1>2, TypeCorrect, Bound, Protection, AtMostOneBlock, PTL DEF Spec, ImplementsUpdate, Update!Spec
=============================================================================
