----------------------------- MODULE ValkeyConn -----------------------------
(***************************************************************************)
(* The connection every client object shares (connection.rs): a regular    *)
(* multiplexed connection, a second one for blocking commands that is only *)
(* built when the first blocking command needs it, and, for the Sentinel   *)
(* arm, the retry that asks the sentinels for the master and repeats the   *)
(* command once on a fresh connection.                                     *)
(*                                                                         *)
(* A call is one command of one thread or task and is issued once; calls   *)
(* run in any order and overlap.  A multiplexed connection is a queue the  *)
(* server works off in order.  A connection is named after the call that   *)
(* built it, since a call builds at most one in each of its two roles.     *)
(***************************************************************************)
EXTENDS Naturals, Sequences, FiniteSets

CONSTANTS
    Call,           \* the calls made through one client object
    Mixes,          \* which kinds of commands the calls can be
    Node,           \* the servers of the service
    FirstMaster,    \* the one the client was constructed against
    Sentinels,      \* the sentinels, in the order of sentinel_urls
    MaxFaults,      \* bound: how many faults the environment has
    Nobody          \* no call; no connection; no node

Original == <<Nobody, "first">>
Conn == {Original} \cup (Call \X {"built", "fresh"})

ASSUME ConnAssumption ==
    /\ FirstMaster \in Node
    /\ Nobody \notin Call \cup Node \cup Conn
    /\ Len(Sentinels) \in Nat
    /\ MaxFaults \in Nat
    /\ Mixes \subseteq [Call -> {"plain", "wait", "block"}]

VARIABLES
    inner,      \* the arm of ValkeyConnInner this client object uses
    kind,       \* what each call is: "plain", "wait" (WAIT, WAITAOF, DEBUG
                \* SLEEP: they hold up the server side of the connection) or
                \* "block" (BLPOP and its kin)
    pc,         \* where each call is
    attempt,    \* 0: building the blocking connection, 1, 2: sending
    pos,        \* the sentinel the call asks next
    named,      \* the node a sentinel named to the call
    first,      \* the answer to the call's first attempt
    res,        \* what the call returned to its caller
    cell,       \* slot -> the connection the slot holds
    building,   \* the call inside the OnceCell's initialiser
    target,     \* connection -> the node it was opened to
    queue,      \* connection -> the attempts sent and not yet executed
    broken,     \* the connections that died and do not know it yet
    master,     \* the node that is the master
    status,     \* node -> "up", "loading" (restarted) or "down"
    view,       \* sentinel -> the node it names, or Nobody: it is not
                \* reachable, or does not know the service
    faults,     \* how many faults there were
    applied,    \* how often each call's command was executed with effect
    calm        \* the calls that met no fault and no stale knowledge so far

connVars == <<inner, kind, pc, attempt, pos, named, first, res, cell,
              building, target, queue, broken, master, status, view, faults,
              applied, calm>>
envVars == <<master, status, view, faults>>
linkVars == <<target, queue, broken>>

Slots == {"regular", "blocking"}
Slot(k) == IF kind[k] = "block" THEN "blocking" ELSE "regular"
Issued(k) == pc[k] \notin {"new", "done"}

\* Without a sentinel to ask there is no Sentinel client.
ConnInit ==
    /\ inner \in {"Standard", "Sentinel", "Cluster"}
    /\ inner = "Sentinel" => Len(Sentinels) > 0
    /\ kind \in Mixes
    /\ pc = [k \in Call |-> "new"]
    /\ attempt = [k \in Call |-> 0]
    /\ pos = [k \in Call |-> 1]
    /\ named = [k \in Call |-> Nobody]
    /\ first = [k \in Call |-> "none"]
    /\ res = [k \in Call |-> "none"]
    /\ cell = [s \in Slots |-> IF s = "regular" THEN Original ELSE Nobody]
    /\ building = Nobody
    /\ target = [c \in Conn |-> IF c = Original THEN FirstMaster ELSE Nobody]
    /\ queue = [c \in Conn |-> << >>]
    /\ broken = {}
    /\ master = FirstMaster
    /\ status = [n \in Node |-> "up"]
    /\ view = [s \in 1..Len(Sentinels) |-> FirstMaster]
    /\ faults = 0
    /\ applied = [k \in Call |-> 0]
    /\ calm = Call

-----------------------------------------------------------------------------
\* Call k has a command in the queue of connection c.
Pending(c, k) == \E i \in DOMAIN queue[c] : queue[c][i][1] = k

(* Nothing in the way of call k: the sentinels and the other calls know    *)
(* the master, which is up, and no call stalls the regular connection.     *)
Current(k) ==
    /\ status[master] = "up"
    /\ inner = "Sentinel" =>
           /\ \A s \in DOMAIN view : view[s] = master
           /\ \A j \in Call : pc[j] \in {"connect", "swap"} =>
                  named[j] = master /\ <<j, "fresh">> \notin broken
    /\ inner = "Standard" => cell[Slot(k)] \notin broken
    /\ \A j \in Call \ {k} : kind[j] = "wait" =>
           ~Issued(j) /\ \A c \in Conn : ~Pending(c, j)

Goto(k, l) == pc' = [pc EXCEPT ![k] = l]

Return(k, r) == Goto(k, "done") /\ res' = [res EXCEPT ![k] = r]

\* is_failover_error.
IsFailoverError(e) == e \in {"Io", "BusyLoading", "TryAgain", "ReadOnly"}

\* The call is made.  A blocking command goes to get_blocking first.
Issue(k) ==
    /\ pc[k] = "new"
    /\ calm' = IF Current(k)
               THEN IF kind[k] = "wait" THEN calm \cap {j \in Call : ~Issued(j)}
                                        ELSE calm
               ELSE calm \ {k}
    /\ IF kind[k] = "block"
       THEN Goto(k, "get_blocking") /\ UNCHANGED attempt
       ELSE Goto(k, "send") /\ attempt' = [attempt EXCEPT ![k] = 1]
    /\ UNCHANGED <<inner, kind, pos, named, first, res, cell, building,
                   linkVars, envVars, applied>>

\* get_or_try_init: the cell, or the turn to fill it once nobody else does.
GetBlocking(k) ==
    /\ pc[k] = "get_blocking"
    /\ \/ /\ cell["blocking"] # Nobody
          /\ attempt' = [attempt EXCEPT ![k] = 1]
          /\ Goto(k, "send")
          /\ UNCHANGED <<building, named>>
       \/ /\ cell["blocking"] = Nobody /\ building = Nobody
          /\ building' = k
          /\ IF inner = "Sentinel"
             THEN Goto(k, "ask") /\ UNCHANGED named
             ELSE Goto(k, "connect") /\ named' = [named EXCEPT ![k] = FirstMaster]
          /\ UNCHANGED attempt
    /\ UNCHANGED <<inner, kind, pos, first, res, cell, linkVars, envVars,
                   applied, calm>>

\* Mutant: a failed initialiser does not give the cell free.
LeaveCellTaken(k) == UNCHANGED building

\* A closure that fails leaves the cell empty; the next waiter takes its turn.
LeaveCell(k) == building' = IF building = k THEN Nobody ELSE building

\* One turn of the walk over sentinel_urls.
Walk(k) ==
    /\ pc[k] = "ask"
    /\ IF pos[k] > Len(Sentinels)
       THEN /\ Return(k, "Io")
            /\ LeaveCell(k)
            /\ UNCHANGED <<pos, named>>
       ELSE /\ IF view[pos[k]] \in Node
               THEN /\ named' = [named EXCEPT ![k] = view[pos[k]]]
                    /\ Goto(k, "connect")
               ELSE UNCHANGED <<named, pc>>
            /\ pos' = [pos EXCEPT ![k] = @ + 1]
            /\ UNCHANGED <<res, building>>
    /\ UNCHANGED <<inner, kind, attempt, first, cell, linkVars, envVars,
                   applied, calm>>

CreateSentinelInner(k) == attempt[k] = 0 /\ Walk(k)
Rediscover(k) == attempt[k] = 1 /\ Walk(k)

\* A connection to the node that was named; the error of a node that does
\* not answer is returned, whatever other sentinels may know.
OpenTo(k, c) ==
    IF status[named[k]] = "down"
    THEN /\ Return(k, "Io")
         /\ LeaveCell(k)
         /\ UNCHANGED <<target, cell, attempt>>
    ELSE /\ target' = [target EXCEPT ![c] = named[k]]
         /\ IF c[2] = "built"
            THEN /\ cell' = [cell EXCEPT !["blocking"] = c]
                 /\ attempt' = [attempt EXCEPT ![k] = 1]
                 /\ LeaveCell(k)
                 /\ Goto(k, "send")
            ELSE Goto(k, "swap") /\ UNCHANGED <<building, cell, attempt>>
         /\ UNCHANGED res

BuildBlocking(k) ==
    /\ pc[k] = "connect" /\ attempt[k] = 0
    /\ OpenTo(k, <<k, "built">>)
    /\ pos' = [pos EXCEPT ![k] = 1]
    /\ UNCHANGED <<inner, kind, named, first, queue, broken, envVars, applied,
                   calm>>

ConnectNamed(k) ==
    /\ pc[k] = "connect" /\ attempt[k] = 1
    /\ OpenTo(k, <<k, "fresh">>)
    /\ UNCHANGED <<inner, kind, pos, named, first, queue, broken, envVars,
                   applied, calm>>

\* Mutant: the new connection is not installed.
SwapNothing(k) ==
    /\ pc[k] = "swap"
    /\ attempt' = [attempt EXCEPT ![k] = 2]
    /\ Goto(k, "send")
    /\ UNCHANGED <<inner, kind, pos, named, first, res, cell, building, linkVars,
                   envVars, applied, calm>>

\* The new connection replaces whatever the slot holds by now; the second
\* attempt reads the slot again.
Swap(k) ==
    /\ pc[k] = "swap"
    /\ cell' = [cell EXCEPT ![Slot(k)] = <<k, "fresh">>]
    /\ attempt' = [attempt EXCEPT ![k] = 2]
    /\ Goto(k, "send")
    /\ UNCHANGED <<inner, kind, pos, named, first, res, building, linkVars,
                   envVars, applied, calm>>

\* Mutant: the answer to the first attempt is returned after the retry.
DispatchKeepingError(K, a) ==
    LET Again(k) == inner = "Sentinel" /\ attempt[k] = 1 /\ IsFailoverError(a)
    IN  /\ pc' = [k \in Call |-> IF k \notin K THEN pc[k]
                                 ELSE IF Again(k) THEN "ask" ELSE "done"]
        /\ res' = [k \in Call |-> IF k \notin K \/ Again(k) THEN res[k]
                                  ELSE IF attempt[k] = 2 THEN first[k] ELSE a]
        /\ first' = [k \in Call |-> IF k \in K /\ attempt[k] = 1 THEN a
                                    ELSE first[k]]

\* What the dispatch macros do with answer a to the attempts of the calls K.
Dispatch(K, a) ==
    LET Again(k) == inner = "Sentinel" /\ attempt[k] = 1 /\ IsFailoverError(a)
    IN  /\ pc' = [k \in Call |-> IF k \notin K THEN pc[k]
                                 ELSE IF Again(k) THEN "ask" ELSE "done"]
        /\ res' = [k \in Call |-> IF k \in K /\ ~Again(k) THEN a ELSE res[k]]
        /\ first' = [k \in Call |-> IF k \in K /\ attempt[k] = 1 THEN a
                                    ELSE first[k]]

\* get_conn clones what the slot holds and the command is written to it.  A
\* connection that died answers with an error and is reconnected.
Send(k) ==
    /\ pc[k] = "send"
    /\ LET c == cell[Slot(k)] IN
       IF c \in broken \/ status[target[c]] = "down"
       THEN /\ Dispatch({k}, "Io")
            /\ broken' = IF status[target[c]] = "down" THEN broken
                         ELSE broken \ {c}
            /\ UNCHANGED queue
       ELSE /\ queue' = [queue EXCEPT ![c] = Append(@, <<k, attempt[k]>>)]
            /\ Goto(k, "waiting")
            /\ UNCHANGED <<broken, first, res>>
    /\ UNCHANGED <<inner, kind, attempt, pos, named, cell, building, target,
                   envVars, applied, calm>>

\* The response timeout: thirty seconds, and none for blocking commands.
\* It strikes calls behind one that stalls, and any call of a slow server.
HasResponseTimeout(s) == s = "regular"

Stalled(c) == queue[c] # << >> /\ kind[Head(queue[c])[1]] \in {"wait", "block"}

ResponseTimeout(k) ==
    /\ pc[k] = "waiting" /\ HasResponseTimeout(Slot(k))
    /\ \E c \in Conn :
          /\ \E i \in DOMAIN queue[c] : queue[c][i] = <<k, attempt[k]>>
          /\ IF Stalled(c)
             THEN UNCHANGED <<faults, calm>>
             ELSE /\ faults < MaxFaults
                  /\ faults' = faults + 1
                  /\ calm' = {j \in calm : ~Issued(j)}
    /\ Dispatch({k}, "Io")
    /\ UNCHANGED <<inner, kind, attempt, pos, named, cell, building, linkVars,
                   master, status, view, applied>>

-----------------------------------------------------------------------------
(* The servers, the network and the sentinels.                             *)

Waits(k, i) == pc[k] = "waiting" /\ attempt[k] = i

\* What a server says to a write: the command may also be refused for its
\* own sake (wrong type, out of memory), which no retry is for.
Replies(n) ==
    CASE status[n] = "loading" -> {"BusyLoading"}
      [] n # master -> {"ReadOnly"}
      [] OTHER -> {"ok", "refused"}

\* The command at the head is executed and answered, to whoever still waits.
\* A blocking one is executed once its condition holds, which may be never.
Serve(c) ==
    /\ queue[c] # << >>
    /\ \E a \in Replies(target[c]) :
          LET k == Head(queue[c])[1]
              i == Head(queue[c])[2]
          IN  /\ applied' = [applied EXCEPT ![k] = @ + IF a = "ok" THEN 1 ELSE 0]
              /\ Dispatch({j \in {k} : Waits(k, i)}, a)
    /\ queue' = [queue EXCEPT ![c] = Tail(@)]
    /\ UNCHANGED <<inner, kind, attempt, pos, named, cell, building, target,
                   broken, envVars, calm>>

\* A fault ends the calm of every call that is under way.
Fault ==
    /\ faults < MaxFaults
    /\ faults' = faults + 1
    /\ calm' = {k \in calm : ~Issued(k)}

\* The calls that wait for an answer on one of the connections C.
Waiting(C) == {k \in Call : \E c \in C : \E i \in DOMAIN queue[c] :
                  queue[c][i] = <<k, attempt[k]>> /\ Waits(k, attempt[k])}

\* The connections C die.  Whoever waits for an answer gets an error; if
\* nobody does, the next user finds out.
Break(C, known) ==
    /\ Dispatch(Waiting(C), "Io")
    /\ queue' = [c \in Conn |-> IF c \in C THEN << >> ELSE queue[c]]
    /\ broken' = (broken \cup C) \ known

\* One connection dies; the command at its head may just have been executed.
Drop(c) ==
    /\ Fault
    /\ c \notin broken
    /\ queue[c] # << >> \/ \E s \in Slots : cell[s] = c
    /\ \/ UNCHANGED applied
       \/ /\ queue[c] # << >> /\ "ok" \in Replies(target[c])
          /\ applied' = [applied EXCEPT ![Head(queue[c])[1]] = @ + 1]
    /\ Break({c}, IF Waiting({c}) = {} THEN {} ELSE {c})
    /\ UNCHANGED <<inner, kind, attempt, pos, named, cell, building, target,
                   master, status, view>>

\* Bound: one failover, which comes on top of MaxFaults other faults.
FailoverBound == master = FirstMaster

\* The sentinels make another node the master; each of them learns of it in
\* its own time.
Failover(n) ==
    /\ inner = "Sentinel" /\ n # master /\ status[n] = "up"
    /\ FailoverBound
    /\ master' = n
    /\ calm' = {k \in calm : ~Issued(k)}
    /\ UNCHANGED <<inner, kind, pc, attempt, pos, named, first, res, cell,
                   building, linkVars, status, view, faults, applied>>

\* A node stops, its connections with it; it comes back loading its data.
NodeDown(n) ==
    /\ Fault
    /\ status[n] = "up"
    /\ status' = [status EXCEPT ![n] = "down"]
    /\ Break({c \in Conn : target[c] = n}, {})
    /\ UNCHANGED <<inner, kind, attempt, pos, named, cell, building, target,
                   master, view, applied>>

NodeUp(n) ==
    /\ status[n] \in {"down", "loading"}
    /\ status' = [status EXCEPT ![n] = IF @ = "down" THEN "loading" ELSE "up"]
    /\ UNCHANGED <<inner, kind, pc, attempt, pos, named, first, res, cell,
                   building, linkVars, master, view, faults, applied, calm>>

\* A sentinel becomes unreachable or forgets the service, and recovers.
SentinelDown(s) ==
    /\ Fault
    /\ inner = "Sentinel" /\ view[s] \in Node
    /\ view' = [view EXCEPT ![s] = Nobody]
    /\ UNCHANGED <<inner, kind, pc, attempt, pos, named, first, res, cell,
                   building, linkVars, master, status, applied>>

SentinelLearns(s) ==
    /\ view[s] # master
    /\ view' = [view EXCEPT ![s] = master]
    /\ UNCHANGED <<inner, kind, pc, attempt, pos, named, first, res, cell,
                   building, linkVars, master, status, faults, applied, calm>>

CallStep(k) ==
    \/ GetBlocking(k)
    \/ CreateSentinelInner(k)
    \/ BuildBlocking(k)
    \/ Send(k)
    \/ Rediscover(k)
    \/ ConnectNamed(k)
    \/ Swap(k)

Environment ==
    /\ \E k \in Call : pc[k] # "done"
    /\ \/ \E c \in Conn : Drop(c)
       \/ \E n \in Node : Failover(n) \/ NodeDown(n) \/ NodeUp(n)
       \/ \E s \in DOMAIN view : SentinelDown(s) \/ SentinelLearns(s)

\* The Cluster arm does not get here: its commands are those of ClusterFanout.
ConnNext ==
    /\ inner # "Cluster"
    /\ \/ \E k \in Call : Issue(k) \/ CallStep(k) \/ ResponseTimeout(k)
       \/ \E c \in Conn : Serve(c)
       \/ Environment

ConnSpec == ConnInit /\ [][ConnNext]_connVars

\* tokio runs every task that can go on, the response timeout fires, and a
\* server works off a queue whose head is not a blocking command.
ConnFairness ==
    /\ \A k \in Call : WF_connVars(CallStep(k)) /\ WF_connVars(ResponseTimeout(k))
    /\ \A c \in Conn : WF_connVars(~Stalled(c) /\ Serve(c))

-----------------------------------------------------------------------------
ConnTypeOK ==
    /\ inner \in {"Standard", "Sentinel", "Cluster"}
    /\ pc \in [Call -> {"new", "get_blocking", "ask", "connect", "swap", "send",
                       "waiting", "done"}]
    /\ attempt \in [Call -> 0..2]
    /\ pos \in [Call -> 1..Len(Sentinels) + 1]
    /\ named \in [Call -> Node \cup {Nobody}]
    /\ cell \in [Slots -> Conn \cup {Nobody}]
    /\ building \in Call \cup {Nobody}
    /\ target \in [Conn -> Node \cup {Nobody}]
    /\ \A c \in Conn : queue[c] \in Seq(Call \X (1..2))
    /\ broken \subseteq Conn
    /\ applied \in [Call -> 0..2]

(* What a call tells its caller is true, also across the retry of          *)
(* dispatch_cmd!: "ok" means that the command was executed, an error reply *)
(* that it was not, and no command is executed twice; only an attempt      *)
(* whose answer never came (a dead connection, the response timeout)       *)
(* leaves more executions than the caller knows of.                        *)
TellsTheTruth ==
    \A k \in Call :
        /\ res[k] = "ok" => applied[k] >= 1
        /\ applied[k] > (IF res[k] = "ok" \/ Issued(k) THEN 1 ELSE 0) =>
               "Io" \in {first[k], res[k]}

\* Attempt a of call k may still be executed.
Queued(k, a) == \E c \in Conn : \E i \in DOMAIN queue[c] : queue[c][i] = <<k, a>>

\* The attempts call k has made, and how many of them may still be executed.
Sent(k) == IF pc[k] = "send" THEN attempt[k] - 1 ELSE attempt[k]

Owed(k) == (IF Queued(k, 1) THEN 1 ELSE 0) + (IF Queued(k, 2) THEN 1 ELSE 0)

\* An attempt of call k ended with a connection error.
Unsure(k) == first[k] = "Io" \/ (attempt[k] = 2 /\ res[k] = "Io")

Told(k) == CASE res[k] \in {"none", "ok"} -> res[k]
             [] res[k] = "Io" -> "failed"
             [] OTHER -> "refused"

Promise == INSTANCE CommandCall WITH
    Callers <- Call,
    call <- [k \in Call |-> [tries |-> Sent(k), flight |-> Owed(k), executed |-> applied[k],
                            unsure |-> Unsure(k), answer |-> Told(k)]]

(* Every call keeps the promise of CommandCall, whatever happens to the       *)
(* connection it shares: no third attempt, none while the call waits for one, *)
(* no execution behind the back of a caller who was answered, unless that call*)
(* lost an answer.  This includes TellsTheTruth, and says more: a call that   *)
(* failed without losing an answer, because the sentinels were no help, has   *)
(* left nothing behind.                                                       *)
ImplementsCall == Promise!Spec

(* The failover machinery serves a call in quiet times, whatever state     *)
(* earlier faults, failovers and other calls have left the connection in:  *)
(* when nothing fails while the call runs, every sentinel knows the        *)
(* master, no other call is about to install what an outdated sentinel     *)
(* told it, and no WAIT-like command holds up the regular connection, the  *)
(* master answers the call.  In particular a blocking command in progress  *)
(* never delays a regular one.                                             *)
CalmCallSucceeds ==
    \A k \in calm :
        pc[k] = "done" /\ kind[k] # "wait" => res[k] \in {"ok", "refused"}

(* Every call comes to an end: waiting for the blocking connection while   *)
(* another call's attempt to build it fails, asking the sentinels, or      *)
(* waiting behind a stalled command; only a blocking command may wait for  *)
(* ever, on the server.                                                    *)
CallsReturn ==
    \A k \in Call :
        Issued(k) ~> pc[k] = "done" \/ (kind[k] = "block" /\ pc[k] = "waiting")

=============================================================================
