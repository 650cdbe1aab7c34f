----------------------------- MODULE Transaction -----------------------------
(***************************************************************************)
(* The sync Pipeline (facade/pipeline.rs) under Redis.transaction():        *)
(* transaction_helper gives every attempt a fresh Pipeline, WATCHes, runs   *)
(* the user's function, executes, resets, and tries again on WatchError.    *)
(* Each worker is a thread with a pipeline and a reserved connection of its *)
(* own; they meet on the server.                                            *)
(*                                                                          *)
(* The server's data is one watched key, represented by its version.  The   *)
(* user's function may call any method of the pipeline in any order, catch  *)
(* an error and go on, or let it propagate; get() and set() stand for the   *)
(* buffered commands that read and that write.  It leaves execute() to the  *)
(* helper and raises no WatchError of its own.                              *)
(***************************************************************************)
EXTENDS Naturals, ReservedConnection

CONSTANTS Workers,      \* threads, each calling transaction() once
          MaxCalls,     \* bound on the calls one run of the function makes
          MaxBare,      \* bound on the writes made outside any MULTI/EXEC block
          NoRead        \* the worker has not read the key under a watch

ASSUME TransactionAssumption == /\ NoRead \notin Nat
                                /\ MaxCalls \in Nat /\ MaxBare \in Nat

VARIABLES ver,      \* version of the key on the server
          bare,     \* writes made outside any block, by other clients or at once
          pipe,     \* the worker's PipelineState
          conn,     \* its reserved connection: client flag and server state
          pc,       \* where transaction_helper is
          calls,    \* calls the function has made in this attempt
          counts,   \* does the program count on a watch it has set?
          seen,     \* version an immediate GET returned while counting on it
          applied   \* blocks with a write that the server applied in this call

vars == <<ver, bare, pipe, conn, pc, calls, counts, seen, applied>>

NewPipeline == [commands |-> {}, keys |-> FALSE, explicit |-> FALSE,
                watching |-> FALSE, reserved |-> FALSE, closed |-> FALSE]

Init == /\ ver = 0
        /\ bare = 0
        /\ pipe = [w \in Workers |-> NewPipeline]
        /\ conn = [w \in Workers |-> NewConnection]
        /\ pc = [w \in Workers |-> "start"]
        /\ calls = [w \in Workers |-> 0]
        /\ counts = [w \in Workers |-> FALSE]
        /\ seen = [w \in Workers |-> NoRead]
        /\ applied = [w \in Workers |-> 0]
-----------------------------------------------------------------------------
(* The server (external). *)

Touched(c) == [u \in Workers |-> Dirtied(c[u])]

BareWrite == /\ bare < MaxBare
             /\ bare' = bare + 1
             /\ ver' = ver + 1
             /\ conn' = Touched(conn)

OtherWrite == /\ BareWrite
              /\ UNCHANGED <<pipe, pc, calls, counts, seen, applied>>
-----------------------------------------------------------------------------
(* The pipeline's methods, called by thread w; each takes the outcome o of    *)
(* its round trip.                                                            *)

\* ensure_reserved: keeps the connection it has, otherwise opens one.
Reserved(w) == IF pipe[w].reserved THEN conn[w] ELSE NewConnection

\* Mutant: notes the keys and leaves WATCH to be sent later.
WatchDeferred(w, o) ==
    /\ ~pipe[w].closed /\ ~pipe[w].explicit
    /\ conn' = [conn EXCEPT ![w] = Reserved(w)]
    /\ pipe' = [pipe EXCEPT ![w].reserved = TRUE,
                            ![w].watching = @ \/ o = "ok",
                            ![w].keys = @ \/ o = "ok"]
    /\ counts' = [counts EXCEPT ![w] = @ \/ o = "ok"]
    /\ UNCHANGED <<ver, bare, seen, applied>>

\* watch(*keys) with a key; its checks and a failing reserve leave no trace.
Watch(w, o) ==
    /\ ~pipe[w].closed /\ ~pipe[w].explicit
    /\ conn' = [conn EXCEPT ![w] = WatchSent(Reserved(w), o)]
    /\ pipe' = [pipe EXCEPT ![w].reserved = TRUE,
                            ![w].watching = @ \/ o = "ok",
                            ![w].keys = @ \/ o = "ok"]
    /\ counts' = [counts EXCEPT ![w] = @ \/ o = "ok"]
    /\ UNCHANGED <<ver, bare, seen, applied>>

\* watch() without a key sends nothing, and still turns immediate mode on.
WatchNoKeys(w) ==
    /\ ~pipe[w].closed /\ ~pipe[w].explicit
    /\ conn' = [conn EXCEPT ![w] = Reserved(w)]
    /\ pipe' = [pipe EXCEPT ![w].reserved = TRUE, ![w].watching = TRUE]
    /\ UNCHANGED <<ver, bare, counts, seen, applied>>

Immediate(w) == pipe[w].watching /\ ~pipe[w].explicit

\* get(): dispatched at once in immediate mode, otherwise buffered.
Get(w, o) ==
    /\ ~pipe[w].closed
    /\ IF Immediate(w)
       THEN /\ seen' = [seen EXCEPT ![w] = IF o = "ok" /\ counts[w] THEN ver ELSE @]
            /\ UNCHANGED pipe
       ELSE /\ o = "ok"
            /\ pipe' = [pipe EXCEPT ![w].commands = @ \cup {"GET"}]
            /\ UNCHANGED seen
    /\ UNCHANGED <<ver, bare, conn, counts, applied>>

\* set(): likewise; in immediate mode it writes outside any transaction.
Set(w, o) ==
    /\ ~pipe[w].closed
    /\ \/ /\ Immediate(w) /\ o # "refused"
          /\ BareWrite
          /\ UNCHANGED pipe
       \/ /\ Immediate(w) /\ o = "refused"
          /\ UNCHANGED <<ver, bare, conn, pipe>>
       \/ /\ ~Immediate(w) /\ o = "ok"
          /\ pipe' = [pipe EXCEPT ![w].commands = @ \cup {"SET"}]
          /\ UNCHANGED <<ver, bare, conn>>
    /\ UNCHANGED <<counts, seen, applied>>

Multi(w) == /\ ~pipe[w].closed
            /\ ~pipe[w].explicit
            /\ pipe[w].commands = {} \/ pipe[w].watching
            /\ pipe' = [pipe EXCEPT ![w].explicit = TRUE]
            /\ UNCHANGED <<ver, bare, conn, counts, seen, applied>>

\* The error of a failed UNWATCH returns before the state is cleared.
UnwatchFails(w, o) == pipe[w].reserved /\ conn[w].watched /\ o # "ok"

StopCounting(w) == /\ counts' = [counts EXCEPT ![w] = FALSE]
                   /\ seen' = [seen EXCEPT ![w] = NoRead]

Unwatch(w, o) ==
    /\ ~pipe[w].closed
    /\ conn' = [conn EXCEPT ![w] = IF pipe[w].reserved THEN Unwatched(@, o) ELSE @]
    /\ pipe' = IF UnwatchFails(w, o) THEN pipe
               ELSE [pipe EXCEPT ![w].keys = FALSE, ![w].watching = FALSE]
    /\ StopCounting(w)
    /\ UNCHANGED <<ver, bare, applied>>

\* discard(): on a closed pipeline it only clears.
Discard(w, o) ==
    /\ conn' = [conn EXCEPT ![w] = IF pipe[w].reserved THEN Unwatched(@, o) ELSE @]
    /\ pipe' = IF UnwatchFails(w, o) THEN pipe
               ELSE [pipe EXCEPT ![w] = [@ EXCEPT !.commands = {}, !.explicit = FALSE,
                                                  !.keys = FALSE, !.watching = FALSE]]
    /\ StopCounting(w)
    /\ UNCHANGED <<ver, bare, applied>>

\* release_reserved, which reset(), close() and __exit__ share: the connection
\* is unwatched, whatever comes of that, and dropped.
Release(w) == /\ conn' = [conn EXCEPT ![w] = NewConnection]
              /\ StopCounting(w)

Reset(w) == /\ pipe' = [pipe EXCEPT ![w] = [NewPipeline EXCEPT !.closed = pipe[w].closed]]
            /\ Release(w)
            /\ UNCHANGED <<ver, bare, applied>>

Close(w) == /\ pipe' = [pipe EXCEPT ![w] = [NewPipeline EXCEPT !.closed = TRUE]]
            /\ Release(w)
            /\ UNCHANGED <<ver, bare, applied>>
-----------------------------------------------------------------------------
(* execute(). *)

\* The server applies a block of commands sent by w: writes in it touch the key.
Apply(w, cmds) ==
    /\ ver' = IF "SET" \in cmds THEN ver + 1 ELSE ver
    /\ applied' = [applied EXCEPT ![w] = IF "SET" \in cmds THEN @ + 1 ELSE @]
    /\ conn' = [(IF "SET" \in cmds THEN Touched(conn) ELSE conn)
                  EXCEPT ![w] = NewConnection]

DropConnection(w) == conn' = [conn EXCEPT ![w] = NewConnection]

ExecState(w) == ExecWatch(pipe[w].keys, conn[w])

\* Mutant: EXEC's Nil reply is not told apart from success.
ExecuteWatchedIgnoresNil(w, o) ==
    /\ IF o = "refused"
       THEN DropConnection(w) /\ UNCHANGED <<ver, applied>>
       ELSE Apply(w, pipe[w].commands)
    /\ pc' = [pc EXCEPT ![w] = IF o = "ok" THEN "committed" ELSE "failed"]

\* Mutant: a block whose answer was lost is sent once more, as sentinel_retry
\* does with a command.
ExecuteWatchedResent(w, o) ==
    /\ IF o = "refused" \/ ExecState(w) = "dirty"
       THEN DropConnection(w) /\ UNCHANGED <<ver, applied>>
       ELSE LET times == IF "SET" \notin pipe[w].commands THEN 0
                         ELSE IF o = "lost" THEN 2 ELSE 1
            IN /\ ver' = ver + times
               /\ applied' = [applied EXCEPT ![w] = @ + times]
               /\ conn' = [(IF times > 0 THEN Touched(conn) ELSE conn)
                             EXCEPT ![w] = NewConnection]
    /\ pc' = [pc EXCEPT ![w] = IF o = "refused" THEN "failed"
                               ELSE IF ExecState(w) = "dirty" THEN "aborted"
                               ELSE "committed"]

\* execute_watched.  An empty block is answered by the client library without a
\* round trip; EXEC replies Nil on a dirty watch.
ExecuteWatched(w, o) ==
    /\ \/ /\ pipe[w].commands # {} /\ o # "refused" /\ ExecState(w) # "dirty"
          /\ Apply(w, pipe[w].commands)
       \/ /\ pipe[w].commands = {} \/ o = "refused" \/ ExecState(w) = "dirty"
          /\ DropConnection(w)
          /\ UNCHANGED <<ver, applied>>
    /\ pc' = [pc EXCEPT ![w] =
                IF o # "ok" /\ pipe[w].commands # {} THEN "failed"
                ELSE IF pipe[w].commands # {} /\ ExecState(w) = "dirty"
                     THEN "aborted" ELSE "committed"]

\* The plain buffered path, on the shared connection.
ExecutePlain(w, o) ==
    /\ IF o = "refused" \/ pipe[w].commands = {}
       THEN UNCHANGED <<ver, applied, conn>>
       ELSE /\ ver' = IF "SET" \in pipe[w].commands THEN ver + 1 ELSE ver
            /\ conn' = IF "SET" \in pipe[w].commands THEN Touched(conn) ELSE conn
            /\ applied' = [applied EXCEPT ![w] =
                             IF "SET" \in pipe[w].commands THEN @ + 1 ELSE @]
    /\ pc' = [pc EXCEPT ![w] = IF o = "ok" \/ pipe[w].commands = {}
                               THEN "committed" ELSE "failed"]

Execute(w, o) ==
    /\ pc[w] = "execute"
    /\ \/ /\ pipe[w].closed
          /\ pc' = [pc EXCEPT ![w] = "failed"]
          /\ UNCHANGED <<ver, conn, pipe, counts, seen, applied>>
       \/ /\ ~pipe[w].closed
          /\ pipe[w].watching \/ (pipe[w].explicit /\ pipe[w].reserved)
          /\ ExecuteWatched(w, o)
          /\ pipe' = [pipe EXCEPT ![w] = NewPipeline]
          /\ StopCounting(w)
       \/ /\ ~pipe[w].closed
          /\ ~(pipe[w].watching \/ (pipe[w].explicit /\ pipe[w].reserved))
          /\ ExecutePlain(w, o)
          /\ pipe' = [pipe EXCEPT ![w].commands = {}, ![w].explicit = FALSE]
          /\ UNCHANGED <<counts, seen>>
    /\ UNCHANGED <<bare, calls>>
-----------------------------------------------------------------------------
(* transaction_helper. *)

Goto(w, l) == pc' = [pc EXCEPT ![w] = l]

\* A fresh pipeline, and watch() if the caller named keys to watch.
Attempt(w, o) ==
    /\ pc[w] = "start"
    /\ calls' = [calls EXCEPT ![w] = 0]
    /\ \/ o = "ok" /\ Goto(w, "func")
          /\ UNCHANGED <<ver, bare, pipe, conn, counts, seen, applied>>
       \/ Watch(w, o) /\ Goto(w, IF o = "ok" THEN "func" ELSE "failed")

\* The function calls a method of the pipeline; an error is caught.
FuncCalls(w, o) ==
    /\ pc[w] = "func"
    /\ calls[w] < MaxCalls
    /\ calls' = [calls EXCEPT ![w] = @ + 1]
    /\ \/ Watch(w, o)
       \/ o = "ok" /\ WatchNoKeys(w)
       \/ Get(w, o)
       \/ Set(w, o)
       \/ o = "ok" /\ Multi(w)
       \/ Unwatch(w, o)
       \/ Discard(w, o)
       \/ o = "ok" /\ Reset(w)
       \/ o = "ok" /\ Close(w)
    /\ UNCHANGED pc

FuncReturns(w) == /\ pc[w] = "func"
                  /\ \/ Goto(w, "execute")
                     \/ Goto(w, "failed")     \* it raises
                  /\ UNCHANGED <<ver, bare, pipe, conn, calls, counts, seen, applied>>

\* Mutant: any error starts another attempt.
HelperRetriesAll(w) ==
    /\ pc[w] \in {"committed", "aborted", "failed"}
    /\ pipe' = [pipe EXCEPT ![w] = NewPipeline]
    /\ Release(w)
    /\ Goto(w, IF pc[w] = "committed" THEN "returned" ELSE "start")
    /\ UNCHANGED <<ver, bare, calls, applied>>

\* reset() the pipeline, then return the value or the error, or, on WatchError
\* only, go round again with a new pipeline.
HelperEnds(w) ==
    /\ pc[w] \in {"committed", "aborted", "failed"}
    /\ pipe' = [pipe EXCEPT ![w] = NewPipeline]
    /\ Release(w)
    /\ Goto(w, CASE pc[w] = "committed" -> "returned"
                 [] pc[w] = "failed" -> "raised"
                 [] pc[w] = "aborted" -> "start")
    /\ UNCHANGED <<ver, bare, calls, applied>>

WorkerNext(w) == \/ \E o \in Trips : \/ Attempt(w, o)
                                     \/ FuncCalls(w, o)
                                     \/ Execute(w, o)
                 \/ FuncReturns(w)
                 \/ HelperEnds(w)

Next == OtherWrite \/ \E w \in Workers : WorkerNext(w)

Spec == Init /\ [][Next]_vars

\* Threads keep running, and the user's function returns.
Fairness == \A w \in Workers : /\ WF_vars(\E o \in Trips : Attempt(w, o) \/ Execute(w, o))
                               /\ WF_vars(FuncReturns(w))
                               /\ WF_vars(HelperEnds(w))

FairSpec == Spec /\ Fairness
-----------------------------------------------------------------------------
(* Properties. *)

TypeOK ==
    /\ ver \in Nat
    /\ bare \in Nat
    /\ pipe \in [Workers -> [commands : SUBSET {"GET", "SET"}, keys : BOOLEAN,
                             explicit : BOOLEAN, watching : BOOLEAN,
                             reserved : BOOLEAN, closed : BOOLEAN]]
    /\ conn \in [Workers -> Connections]
    /\ pc \in [Workers -> {"start", "func", "execute", "committed", "aborted",
                           "failed", "returned", "raised"}]
    /\ calls \in [Workers -> Nat]
    /\ counts \in [Workers -> BOOLEAN]
    /\ seen \in [Workers -> Nat \cup {NoRead}]
    /\ applied \in [Workers -> Nat]

(* A program that watched the key, read it and did not ask for the watch to   *)
(* end is still watched on the server, and while that watch is clean what it  *)
(* read is current.  So EXEC on this connection can only apply its block to   *)
(* the version the program read: no update is lost.                           *)
ReadIsProtected ==
    \A w \in Workers :
       /\ counts[w] => /\ pipe[w].watching /\ pipe[w].reserved
                       /\ conn[w].watched /\ conn[w].srv # "none"
       /\ seen[w] # NoRead /\ conn[w].srv = "clean" => seen[w] = ver

(* A block built on a read is applied only to the version that was read.      *)
AppliedToWhatWasRead ==
    [][\A w \in Workers :
          applied'[w] > applied[w] /\ seen[w] # NoRead => seen[w] = ver]_vars

(* However often transaction() tries, and whether or not the answer to EXEC   *)
(* arrives, the server applies a block of it at most once: while another      *)
(* attempt is still to come, none has been applied.                           *)
AppliedAtMostOnce ==
    \A w \in Workers : /\ applied[w] <= 1
                       /\ pc[w] \in {"start", "func", "execute", "aborted"} => applied[w] = 0

\* A worker's call as an atomic update: it is open until execute() has answered
\* with anything but WatchError.
Status(w) == CASE pc[w] \in {"committed", "returned"} -> "succeeded"
               [] pc[w] \in {"failed", "raised"} -> "failed"
               [] OTHER -> "trying"

Writes(w) == Status(w) = "trying" /\ "SET" \in pipe[w].commands

RestsOn(w) == IF Status(w) = "trying" THEN seen[w] ELSE NoRead

Update == INSTANCE AtomicUpdate WITH
    Updaters <- Workers, version <- ver, applied <- applied,
    status <- [w \in Workers |-> Status(w)],
    writes <- [w \in Workers |-> Writes(w)],
    read   <- [w \in Workers |-> RestsOn(w)]

(* Each transaction() is one atomic update: a call that returns applied the    *)
(* block it buffered, once and to the version it read; one that is to be       *)
(* repeated applied nothing; one that raises may have applied its block, when  *)
(* the reply was lost, but never applies anything later.                       *)
ImplementsUpdate == Update!Spec

(* transaction() does not try for ever: each abort takes a write that is not  *)
(* its own block, by another client or by its function in immediate mode.     *)
TransactionEnds == \A w \in Workers : pc[w] = "func" ~> pc[w] \in {"returned", "raised"}
=============================================================================
