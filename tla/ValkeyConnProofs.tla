--------------------------- MODULE ValkeyConnProofs ---------------------------
(***************************************************************************)
(* Theorems about ValkeyConn, for any calls, servers, sentinels and        *)
(* faults.  The parts of the induction:                                    *)
(*   Types     the type invariant, for every variable                      *)
(*   Stage     how far a call is                                           *)
(*   Truth     what is known of a call that met no connection error        *)
(*   SentOnce  each attempt is sent, and so executed, at most once         *)
(*   Links, Opens, OneServer  what the slots and the connections are       *)
(*   Calm      what stays out of the way of a call while nothing fails     *)
(* From the first four and Waited (whoever waits has a command in a queue) *)
(* follows, step by step, that every call keeps the promise of CommandCall.*)
(***************************************************************************)
EXTENDS ValkeyConn, TLAPS

Answers == {"none", "Io", "BusyLoading", "ReadOnly", "ok", "refused"}

Entries == Call \X (1..2)

Types ==
    /\ inner \in {"Standard", "Sentinel", "Cluster"}
    /\ inner = "Sentinel" => Len(Sentinels) > 0
    /\ kind \in [Call -> {"plain", "wait", "block"}]
    /\ pc \in [Call -> {"new", "get_blocking", "ask", "connect", "swap", "send",
                       "waiting", "done"}]
    /\ attempt \in [Call -> 0..2]
    /\ pos \in [Call -> 1..Len(Sentinels) + 1]
    /\ named \in [Call -> Node \cup {Nobody}]
    /\ first \in [Call -> Answers] /\ res \in [Call -> Answers]
    /\ cell \in [Slots -> Conn \cup {Nobody}]
    /\ building \in Call \cup {Nobody}
    /\ target \in [Conn -> Node \cup {Nobody}]
    /\ queue \in [Conn -> Seq(Entries)]
    /\ broken \subseteq Conn
    /\ master \in Node
    /\ status \in [Node -> {"up", "loading", "down"}]
    /\ view \in [1..Len(Sentinels) -> Node \cup {Nobody}]
    /\ applied \in [Call -> Nat]
    /\ calm \subseteq Call

-----------------------------------------------------------------------------
(* The queues. *)

Unsent(k) == \A c \in Conn : \A i \in DOMAIN queue[c] : queue[c][i][1] # k

\* At most one command of k is in a queue.
One(k) == \A c, d \in Conn : \A i \in DOMAIN queue[c], j \in DOMAIN queue[d] :
             queue[c][i][1] = k /\ queue[d][j][1] = k => c = d /\ i = j

Only(k, a) == \A c \in Conn : \A i \in DOMAIN queue[c] :
                 queue[c][i][1] = k => queue[c][i][2] = a

UpTo(k, n) == \A c \in Conn : \A i \in DOMAIN queue[c] :
                 queue[c][i][1] = k => queue[c][i][2] <= n

Distinct == \A c, d \in Conn : \A i \in DOMAIN queue[c], j \in DOMAIN queue[d] :
               queue[c][i] = queue[d][j] => c = d /\ i = j

-----------------------------------------------------------------------------
(* How far a call is: what it has set by then.                                *)
StageOf(k) ==
    /\ pc[k] \in {"new", "get_blocking"} => attempt[k] = 0
    /\ pc[k] \in {"ask", "connect"} => attempt[k] \in {0, 1}
    /\ pc[k] = "swap" => attempt[k] = 1
    /\ pc[k] \in {"send", "waiting"} => attempt[k] \in {1, 2}
    /\ pc[k] # "done" => res[k] = "none"
    /\ attempt[k] = 0 \/ (attempt[k] = 1 /\ pc[k] \in {"send", "waiting"}) => first[k] = "none"
    /\ pc[k] \in {"get_blocking", "ask", "connect"} /\ attempt[k] = 0 => kind[k] = "block"
    /\ pc[k] = "send" => cell[Slot(k)] # Nobody

(* A call that missed no answer has at most the command it waits for in a     *)
(* queue, and was executed if and only if its answer says so.                 *)
Clear(k) == ~Unsure(k)

TruthOf(k) ==
    /\ res[k] = "ok" => applied[k] >= 1
    /\ Clear(k) => /\ applied[k] = IF res[k] = "ok" THEN 1 ELSE 0
                   /\ pc[k] # "waiting" => Unsent(k)
                   /\ One(k) /\ Only(k, attempt[k])

(* The attempts of k are sent once; those in a queue were not executed.       *)
SentOf(k) == UpTo(k, Sent(k)) /\ applied[k] + Owed(k) <= Sent(k)

Stage == cell["regular"] # Nobody /\ \A k \in Call : StageOf(k)
Truth == \A k \in Call : TruthOf(k)
SentOnce == Distinct /\ \A k \in Call : SentOf(k)

-----------------------------------------------------------------------------
\* The slot a connection is used in.
Side(c) == IF c = Original THEN "regular"
             ELSE IF c[2] = "built" THEN "blocking" ELSE Slot(c[1])

(* The connections: what a slot holds, or has commands on it, or died, was    *)
(* opened; regular and blocking commands never share one.                     *)
Links ==
    /\ \A s \in Slots : cell[s] # Nobody => target[cell[s]] \in Node /\ Side(cell[s]) = s
    /\ \A c \in broken : target[c] \in Node
    /\ \A c \in Conn : \A i \in DOMAIN queue[c] :
          target[c] \in Node /\ Side(c) = Slot(queue[c][i][1])

(* What the building of connections has done for call k so far.               *)
OpensOf(k) ==
    /\ attempt[k] = 0 => target[<<k, "built">>] = Nobody
    /\ attempt[k] < 2 /\ pc[k] # "swap" => target[<<k, "fresh">>] = Nobody
    /\ pc[k] = "connect" => named[k] \in Node
    /\ pc[k] = "swap" => target[<<k, "fresh">>] = named[k] /\ named[k] \in Node
    /\ pc[k] \in {"new", "get_blocking"} \/ (attempt[k] = 1 /\ pc[k] \in {"send", "waiting"})
          => pos[k] = 1
    /\ inner = "Standard" =>
          /\ pc[k] \notin {"ask", "swap"} /\ attempt[k] < 2
          /\ pc[k] = "connect" => attempt[k] = 0 /\ named[k] = master

(* A Standard client knows one server, and that stays the master.             *)
OneServer == inner = "Standard" => /\ master = FirstMaster
                                   /\ \A c \in Conn : target[c] \in {Nobody, FirstMaster}

(* While nothing fails: the master is up and every sentinel, and every call    *)
(* that asked one, knows it.                                                   *)
Healthy ==
    /\ status[master] = "up"
    /\ inner = "Sentinel" =>
          /\ \A s \in DOMAIN view : view[s] = master
          /\ \A k \in Call : pc[k] \in {"connect", "swap"} =>
                named[k] = master /\ <<k, "fresh">> \notin broken

\* What is in the way of call k stays out of it.
OutOfTheWay(k) ==
    /\ inner = "Standard" => cell[Slot(k)] \notin broken
    /\ kind[k] = "plain" => \A j \in Call : kind[j] = "wait" =>
          ~Issued(j) /\ \A c \in Conn : ~Pending(c, j)

(* The walk has not passed a sentinel in vain, and the second attempt goes to *)
(* the master.                                                                *)
OnCourse(k) ==
    /\ pc[k] = "ask" => pos[k] = 1
    /\ pc[k] = "send" /\ attempt[k] = 2 =>
          cell[Slot(k)] \notin broken /\ target[cell[Slot(k)]] = master
    /\ \A c \in Conn : \A i \in DOMAIN queue[c] : queue[c][i] = <<k, 2>> => target[c] = master

Quiet(k) == Healthy /\ OutOfTheWay(k) /\ OnCourse(k)

CalmOf(k) == k \in calm /\ kind[k] # "wait" =>
                /\ Issued(k) => Quiet(k)
                /\ pc[k] = "done" => res[k] \in {"ok", "refused"}

Opens == \A k \in Call : OpensOf(k)
Calm == \A k \in Call : CalmOf(k)

Honest == Types /\ Stage /\ Truth /\ SentOnce

IInv == Honest /\ Links /\ Opens /\ OneServer /\ Calm

-----------------------------------------------------------------------------
(* What the steps do to the queues. *)

LEMMA Constants ==
  /\ FirstMaster \in Node /\ Nobody \notin Call /\ Nobody \notin Node /\ Nobody \notin Conn
  /\ Len(Sentinels) \in Nat /\ Original \in Conn
  /\ \A k \in Call : /\ <<k, "built">> \in Conn /\ <<k, "fresh">> \in Conn
                     /\ <<k, "built">> # Original /\ <<k, "fresh">> # Original
                     /\ <<k, "built">> # <<k, "fresh">>
  BY ConnAssumption DEF Conn, Original

(* A command is appended to the queue of c.                                   *)
LEMMA AppendFacts ==
  ASSUME Types, NEW c \in Conn, NEW e \in Entries,
         queue' = [queue EXCEPT ![c] = Append(queue[c], e)]
  PROVE  /\ queue' \in [Conn -> Seq(Entries)]
         /\ \A d \in Conn \ {c} : queue'[d] = queue[d]
         /\ DOMAIN queue'[c] = DOMAIN queue[c] \cup {Len(queue[c]) + 1}
         /\ Len(queue[c]) + 1 \notin DOMAIN queue[c]
         /\ \A i \in DOMAIN queue[c] : queue'[c][i] = queue[c][i]
         /\ queue'[c][Len(queue[c]) + 1] = e
<1>1. queue \in [Conn -> Seq(Entries)] /\ queue[c] \in Seq(Entries)
  BY DEF Types
<1>2. queue'[c] = Append(queue[c], e) /\ \A d \in Conn \ {c} : queue'[d] = queue[d]
  BY <1>1
<1>3. queue'[c] \in Seq(Entries) /\ Len(queue'[c]) = Len(queue[c]) + 1
  BY <1>1, <1>2
<1>4. DOMAIN queue[c] = 1..Len(queue[c]) /\ DOMAIN queue'[c] = 1..Len(queue[c]) + 1
      /\ Len(queue[c]) \in Nat
  BY <1>1, <1>3
<1>5. \A i \in DOMAIN queue[c] : queue'[c][i] = queue[c][i]
  BY <1>1, <1>2, <1>4
<1>6. queue'[c][Len(queue[c]) + 1] = e
  BY <1>1, <1>2, <1>4
<1> QED BY <1>1, <1>2, <1>3, <1>4, <1>5, <1>6

(* The first command in the queue of c is worked off.                         *)
LEMMA TailFacts ==
  ASSUME Types, NEW c \in Conn, queue[c] # << >>, queue' = [queue EXCEPT ![c] = Tail(queue[c])]
  PROVE  /\ queue' \in [Conn -> Seq(Entries)]
         /\ \A d \in Conn \ {c} : queue'[d] = queue[d]
         /\ 1 \in DOMAIN queue[c] /\ Head(queue[c]) = queue[c][1] /\ Head(queue[c]) \in Entries
         /\ \A i \in DOMAIN queue'[c] : /\ i \in Nat /\ i + 1 \in DOMAIN queue[c] /\ i + 1 # 1
                                        /\ queue'[c][i] = queue[c][i + 1]
<1>1. queue \in [Conn -> Seq(Entries)] /\ queue[c] \in Seq(Entries)
  BY DEF Types
<1>2. queue'[c] = Tail(queue[c]) /\ \A d \in Conn \ {c} : queue'[d] = queue[d]
  BY <1>1
<1>3. Len(queue[c]) \in Nat /\ Len(queue[c]) >= 1 /\ DOMAIN queue[c] = 1..Len(queue[c])
      /\ Head(queue[c]) = queue[c][1] /\ Head(queue[c]) \in Entries
  BY <1>1
<1>4. /\ queue'[c] \in Seq(Entries) /\ Len(queue'[c]) = Len(queue[c]) - 1
      /\ DOMAIN queue'[c] = 1..(Len(queue[c]) - 1)
  BY <1>1, <1>2, <1>3
<1>5. \A i \in 1..(Len(queue[c]) - 1) : queue'[c][i] = queue[c][i + 1]
  BY <1>1, <1>2, <1>3
<1> QED BY <1>1, <1>2, <1>3, <1>4, <1>5

(* What of the commands of k in the queues a step leaves true.                *)
Kept(k) ==
    /\ Unsent(k) => Unsent(k)'
    /\ One(k) => One(k)'
    /\ \A a \in 0..2 : Only(k, a) => Only(k, a)'
    /\ \A n \in 0..2 : UpTo(k, n) => UpTo(k, n)'
    /\ \A a \in 1..2 : Queued(k, a)' => Queued(k, a)

LEMMA SameKept ==
  ASSUME queue' = queue
  PROVE  (\A k \in Call : Kept(k)) /\ (Distinct => Distinct')
  BY DEF Kept, Unsent, One, Only, UpTo, Queued, Distinct

(* Connections die with what is on them.                                      *)
LEMMA BreakKept ==
  ASSUME Types, NEW C \in SUBSET Conn,
         queue' = [c \in Conn |-> IF c \in C THEN << >> ELSE queue[c]]
  PROVE  /\ queue' \in [Conn -> Seq(Entries)]
         /\ \A k \in Call : Kept(k)
         /\ Distinct => Distinct'
         /\ \A c \in Conn : \A i \in DOMAIN queue'[c] :
               c \notin C /\ i \in DOMAIN queue[c] /\ queue'[c][i] = queue[c][i]
<1>1. queue' \in [Conn -> Seq(Entries)]
  BY DEF Types
<1>2. \A c \in Conn : \A i \in DOMAIN queue'[c] :
         c \notin C /\ i \in DOMAIN queue[c] /\ queue'[c][i] = queue[c][i]
  <2> SUFFICES ASSUME NEW c \in Conn, NEW i \in DOMAIN queue'[c]
               PROVE  c \notin C /\ i \in DOMAIN queue[c] /\ queue'[c][i] = queue[c][i]
    OBVIOUS
  <2>1. CASE c \in C
    <3>1. queue'[c] = << >>
      BY <2>1
    <3>2. DOMAIN queue'[c] = {}
      BY <3>1
    <3> QED BY <3>2
  <2>2. CASE c \notin C
    BY <2>2
  <2> QED BY <2>1, <2>2
<1>3. ASSUME NEW k \in Call PROVE Kept(k)
  <2>1. Unsent(k) => Unsent(k)'
    BY <1>2 DEF Unsent
  <2>2. One(k) => One(k)'
    BY <1>2 DEF One
  <2>3. \A a \in 0..2 : Only(k, a) => Only(k, a)'
    BY <1>2 DEF Only
  <2>4. \A n \in 0..2 : UpTo(k, n) => UpTo(k, n)'
    BY <1>2 DEF UpTo
  <2>5. \A a \in 1..2 : Queued(k, a)' => Queued(k, a)
    BY <1>2 DEF Queued
  <2> QED BY <2>1, <2>2, <2>3, <2>4, <2>5 DEF Kept
<1>4. Distinct => Distinct'
  BY <1>2 DEF Distinct
<1> QED BY <1>1, <1>2, <1>3, <1>4

(* The server works off the first command of c.                               *)
LEMMA TailKept ==
  ASSUME Types, NEW c \in Conn, queue[c] # << >>, queue' = [queue EXCEPT ![c] = Tail(queue[c])]
  PROVE  /\ \A k \in Call : Kept(k)
         /\ Distinct => Distinct'
         /\ \A d \in Conn : \A i \in DOMAIN queue'[d] :
               \E j \in DOMAIN queue[d] : /\ queue'[d][i] = queue[d][j]
                                          /\ d = c => j # 1
<1> DEFINE Was(d, i) == IF d = c THEN i + 1 ELSE i
<1>1. \A d \in Conn : \A i \in DOMAIN queue'[d] :
         /\ Was(d, i) \in DOMAIN queue[d] /\ queue'[d][i] = queue[d][Was(d, i)]
         /\ d = c => Was(d, i) # 1 /\ i \in Nat
  <2>1. ASSUME NEW d \in Conn, NEW i \in DOMAIN queue'[d]
        PROVE  /\ Was(d, i) \in DOMAIN queue[d] /\ queue'[d][i] = queue[d][Was(d, i)]
               /\ d = c => Was(d, i) # 1 /\ i \in Nat
    <3>1. CASE d = c
      BY <2>1, <3>1, TailFacts
    <3>2. CASE d # c
      BY <2>1, <3>2, TailFacts
    <3> QED BY <3>1, <3>2
  <2> QED BY <2>1
<1>2. \A d \in Conn : \A i, j \in DOMAIN queue'[d] : Was(d, i) = Was(d, j) => i = j
  BY <1>1
<1> HIDE DEF Was
<1>3. ASSUME NEW k \in Call PROVE Kept(k)
  <2>1. Unsent(k) => Unsent(k)'
    BY <1>1 DEF Unsent
  <2>2. One(k) => One(k)'
    BY <1>1, <1>2 DEF One
  <2>3. \A a \in 0..2 : Only(k, a) => Only(k, a)'
    BY <1>1 DEF Only
  <2>4. \A n \in 0..2 : UpTo(k, n) => UpTo(k, n)'
    BY <1>1 DEF UpTo
  <2>5. \A a \in 1..2 : Queued(k, a)' => Queued(k, a)
    BY <1>1 DEF Queued
  <2> QED BY <2>1, <2>2, <2>3, <2>4, <2>5 DEF Kept
<1>4. Distinct => Distinct'
  BY <1>1, <1>2 DEF Distinct
<1> QED BY <1>1, <1>3, <1>4

(* A step that leaves no new command in a queue, nor the first one of c.      *)
HeadGone(c) ==
    \A d \in Conn : \A i \in DOMAIN queue'[d] :
        \E j \in DOMAIN queue[d] : queue'[d][i] = queue[d][j] /\ (d = c => j # 1)

LEMMA HeadFacts ==
  ASSUME Types, NEW c \in Conn, queue[c] # << >>, HeadGone(c), NEW k \in Call, NEW a \in 1..2,
         Head(queue[c]) = <<k, a>>
  PROVE  /\ 1 \in DOMAIN queue[c] /\ queue[c][1] = <<k, a>>
         /\ Queued(k, a)
         /\ One(k) => Unsent(k)'
         /\ Distinct => ~Queued(k, a)'
<1>1. queue[c] \in Seq(Entries)
  BY DEF Types
<1>2. 1 \in DOMAIN queue[c] /\ queue[c][1] = <<k, a>>
  BY <1>1
<1>3. Queued(k, a)
  BY <1>2 DEF Queued
<1>4. One(k) => Unsent(k)'
  BY <1>2 DEF HeadGone, One, Unsent
<1>5. Distinct => ~Queued(k, a)'
  BY <1>2 DEF HeadGone, Distinct, Queued
<1> QED BY <1>2, <1>3, <1>4, <1>5

(* Call k writes its attempt a on connection c.                               *)
LEMMA AppendKept ==
  ASSUME Types, NEW c \in Conn, NEW k \in Call, NEW a \in 1..2,
         queue' = [queue EXCEPT ![c] = Append(queue[c], <<k, a>>)]
  PROVE  /\ \A j \in Call \ {k} : Kept(j)
         /\ Unsent(k) => One(k)' /\ Only(k, a)'
         /\ UpTo(k, a - 1) => UpTo(k, a)' /\ (Distinct => Distinct')
         /\ \A b \in 1..2 : Queued(k, b)' => Queued(k, b) \/ b = a
         /\ UpTo(k, a - 1) => ~Queued(k, a)
<1> DEFINE last == Len(queue[c]) + 1
<1>1. \A d \in Conn : \A i \in DOMAIN queue'[d] :
         \/ i \in DOMAIN queue[d] /\ queue'[d][i] = queue[d][i] /\ ~(d = c /\ i = last)
         \/ d = c /\ i = last /\ queue'[d][i] = <<k, a>>
  BY AppendFacts DEF Entries
<1> HIDE DEF last
<1>2. ASSUME NEW j \in Call \ {k} PROVE Kept(j)
  <2>0. \A d \in Conn : \A i \in DOMAIN queue'[d] :
           queue'[d][i][1] = j => i \in DOMAIN queue[d] /\ queue'[d][i] = queue[d][i]
    BY <1>1
  <2>1. Unsent(j) => Unsent(j)'
    BY <2>0 DEF Unsent
  <2>2. One(j) => One(j)'
    BY <2>0 DEF One
  <2>3. \A b \in 0..2 : Only(j, b) => Only(j, b)'
    BY <2>0 DEF Only
  <2>4. \A n \in 0..2 : UpTo(j, n) => UpTo(j, n)'
    BY <2>0 DEF UpTo
  <2>5. \A b \in 1..2 : Queued(j, b)' => Queued(j, b)
    BY <2>0 DEF Queued
  <2> QED BY <2>1, <2>2, <2>3, <2>4, <2>5 DEF Kept
<1>3. Unsent(k) => One(k)' /\ Only(k, a)'
  BY <1>1 DEF Unsent, One, Only
<1>4. \A d \in Conn : \A i \in DOMAIN queue[d] : queue[d][i] \in Entries
  BY DEF Types
<1>5. ASSUME UpTo(k, a - 1) PROVE UpTo(k, a)' /\ ~Queued(k, a)
  <2>1. \A d \in Conn : \A i \in DOMAIN queue[d] : queue[d][i][1] = k => queue[d][i][2] <= a - 1
    BY <1>5 DEF UpTo
  <2>2. ~Queued(k, a)
    BY <2>1 DEF Queued
  <2>3. ASSUME NEW d \in Conn, NEW i \in DOMAIN queue'[d], queue'[d][i][1] = k
        PROVE  queue'[d][i][2] <= a
    <3>1. CASE i \in DOMAIN queue[d] /\ queue'[d][i] = queue[d][i]
      <4>1. queue[d][i][2] <= a - 1 /\ queue[d][i][2] \in Nat
        BY <3>1, <2>3, <2>1, <1>4 DEF Entries
      <4> QED BY <4>1, <3>1
    <3>2. CASE queue'[d][i] = <<k, a>>
      BY <3>2
    <3> QED BY <3>1, <3>2, <1>1
  <2> QED BY <2>2, <2>3 DEF UpTo
<1>6. ASSUME UpTo(k, a - 1), Distinct PROVE Distinct'
  <2>1. \A d \in Conn : \A i \in DOMAIN queue[d] : queue[d][i] # <<k, a>>
    BY <1>5, <1>6 DEF Queued
  <2> QED BY <2>1, <1>1, <1>6 DEF Distinct
<1>7. \A b \in 1..2 : Queued(k, b)' => Queued(k, b) \/ b = a
  BY <1>1 DEF Queued
<1> QED BY <1>2, <1>3, <1>5, <1>6, <1>7

-----------------------------------------------------------------------------
(* What the steps do to the calls. *)

\* The variables of call k are as before.
SameCall(k) ==
    /\ pc'[k] = pc[k] /\ attempt'[k] = attempt[k] /\ pos'[k] = pos[k]
    /\ named'[k] = named[k] /\ first'[k] = first[k] /\ res'[k] = res[k]

\* An attempt of call k was answered with a.
Answered(k, a) ==
    /\ attempt'[k] = attempt[k] /\ pos'[k] = pos[k] /\ named'[k] = named[k]
    /\ first'[k] = IF attempt[k] = 1 THEN a ELSE first[k]
    /\ \/ /\ inner = "Sentinel" /\ attempt[k] = 1 /\ a \notin {"ok", "refused"}
          /\ pc'[k] = "ask" /\ res'[k] = res[k]
       \/ /\ inner = "Sentinel" /\ attempt[k] = 1 => a \in {"ok", "refused"}
          /\ pc'[k] = "done" /\ res'[k] = a

LEMMA DispatchFacts ==
  ASSUME Types, NEW K \in SUBSET Call, NEW a \in Answers \ {"none"}, Dispatch(K, a),
         UNCHANGED <<attempt, pos, named>>
  PROVE  /\ pc' \in [Call -> {"new", "get_blocking", "ask", "connect", "swap", "send",
                              "waiting", "done"}]
         /\ first' \in [Call -> Answers] /\ res' \in [Call -> Answers]
         /\ \A k \in Call \ K : SameCall(k)
         /\ \A k \in K : Answered(k, a)
<1>1. IsFailoverError(a) <=> a \notin {"ok", "refused"}
  BY DEF IsFailoverError, Answers
<1>2. ASSUME NEW k \in Call \ K PROVE SameCall(k)
  BY DEF Dispatch, SameCall
<1>3. ASSUME NEW k \in K PROVE Answered(k, a)
  <2> DEFINE Again == inner = "Sentinel" /\ attempt[k] = 1 /\ IsFailoverError(a)
  <2>1. /\ pc'[k] = IF Again THEN "ask" ELSE "done"
        /\ res'[k] = IF Again THEN res[k] ELSE a
        /\ first'[k] = IF attempt[k] = 1 THEN a ELSE first[k]
    BY DEF Dispatch
  <2> QED BY <2>1, <1>1 DEF Answered
<1>4. pc' \in [Call -> {"new", "get_blocking", "ask", "connect", "swap", "send",
                        "waiting", "done"}]
  BY DEF Types, Dispatch
<1>5. first' \in [Call -> Answers]
  BY DEF Types, Dispatch
<1>6. res' \in [Call -> Answers]
  BY DEF Types, Dispatch
<1> QED BY <1>2, <1>3, <1>4, <1>5, <1>6

LEMMA RepliesFacts ==
  ASSUME NEW n, NEW a \in Replies(n)
  PROVE  /\ a \in {"BusyLoading", "ReadOnly", "ok", "refused"}
         /\ status[n] = "up" /\ n = master => a \in {"ok", "refused"}
  BY DEF Replies

-----------------------------------------------------------------------------
(* Types and stages. *)

\* No step leaves the types, and no call skips a stage.
LEMMA TypesStep ==
  ASSUME Types, Stage, ConnNext
  PROVE  Types' /\ Stage'
<1> DEFINE Places == {"new", "get_blocking", "ask", "connect", "swap", "send", "waiting", "done"}
<1>0. \A k \in Call : Slot(k) \in Slots /\ kind[k] \in {"plain", "wait", "block"}
  BY DEF Types, Slot, Slots
<1>k. Types
  OBVIOUS
<1>s. \A k \in Call : StageOf(k)
  BY DEF Stage
<1>o. ASSUME UNCHANGED <<inner, kind, first, queue, broken, master, status, view, applied>>,
             pc' \in [Call -> Places], attempt' \in [Call -> 0..2],
             pos' \in [Call -> 1..Len(Sentinels) + 1],
             named' \in [Call -> Node \cup {Nobody}], res' \in [Call -> Answers],
             cell' \in [Slots -> Conn \cup {Nobody}], building' \in Call \cup {Nobody},
             target' \in [Conn -> Node \cup {Nobody}], calm' \subseteq Call
      PROVE  Types'
  BY <1>o DEF Types
<1>p. ASSUME NEW k \in Call, NEW l \in Places, Goto(k, l)
      PROVE  pc' \in [Call -> Places] /\ pc'[k] = l /\ \A j \in Call \ {k} : pc'[j] = pc[j]
  BY <1>p DEF Types, Goto
<1>r. ASSUME NEW k \in Call, Return(k, "Io")
      PROVE  /\ pc' \in [Call -> Places] /\ pc'[k] = "done" /\ res' \in [Call -> Answers]
             /\ \A j \in Call \ {k} : pc'[j] = pc[j] /\ res'[j] = res[j]
  BY <1>r DEF Types, Goto, Return, Answers
<1>l. ASSUME NEW k \in Call, LeaveCell(k) PROVE building' \in Call \cup {Nobody}
  BY <1>l DEF Types, LeaveCell
<1>a. ASSUME NEW k \in Call, NEW a \in 0..2, attempt' = [attempt EXCEPT ![k] = a]
      PROVE  /\ attempt' \in [Call -> 0..2] /\ attempt'[k] = a
             /\ \A j \in Call \ {k} : attempt'[j] = attempt[j]
  BY <1>a DEF Types
<1> HIDE DEF Places
<1>1. ASSUME NEW k \in Call, Issue(k) PROVE Types' /\ Stage'
  <2>1. pc' \in [Call -> Places] /\ attempt' \in [Call -> 0..2]
    <3>1. \E l \in Places : Goto(k, l)
      BY <1>1 DEF Issue, Places
    <3>2. attempt' = attempt \/ attempt' = [attempt EXCEPT ![k] = 1]
      BY <1>1 DEF Issue
    <3>3. pc' \in [Call -> Places]
      BY <1>p, <3>1
    <3>4. attempt \in [Call -> 0..2] /\ 1 \in 0..2
      BY DEF Types
    <3>5. attempt' \in [Call -> 0..2]
      BY <1>a, <3>2, <3>4
    <3> QED BY <3>3, <3>5
  <2>2. calm' \subseteq Call
    BY <1>1 DEF Types, Issue
  <2>3. Types'
    BY <1>1, <1>k, <1>o, <2>1, <2>2 DEF Types, Issue, linkVars, envVars
  <2>4. Stage'
    BY <1>1, <1>0 DEF Types, Stage, StageOf, Issue, Goto, Slot
  <2> QED BY <2>3, <2>4
<1>2. ASSUME NEW k \in Call, GetBlocking(k) PROVE Types' /\ Stage'
  <2>1. pc' \in [Call -> Places] /\ attempt' \in [Call -> 0..2]
    <3>1. \E l \in Places : Goto(k, l)
      BY <1>2 DEF GetBlocking, Places
    <3>2. attempt' = attempt \/ attempt' = [attempt EXCEPT ![k] = 1]
      BY <1>2 DEF GetBlocking
    <3>3. pc' \in [Call -> Places]
      BY <1>p, <3>1
    <3>4. attempt \in [Call -> 0..2] /\ 1 \in 0..2
      BY DEF Types
    <3>5. attempt' \in [Call -> 0..2]
      BY <1>a, <3>2, <3>4
    <3> QED BY <3>3, <3>5
  <2>2. building' \in Call \cup {Nobody}
    BY <1>2 DEF Types, GetBlocking
  <2>3. named' \in [Call -> Node \cup {Nobody}]
    <3>1. named' = named \/ named' = [named EXCEPT ![k] = FirstMaster]
      BY <1>2 DEF GetBlocking
    <3> QED BY <3>1, Constants DEF Types
  <2>4. Types'
    BY <1>2, <1>k, <1>o, <2>1, <2>2, <2>3 DEF Types, GetBlocking, linkVars, envVars
  <2>5. Stage'
    BY <1>2 DEF Types, Stage, StageOf, GetBlocking, Goto, Slot
  <2> QED BY <2>4, <2>5
<1>3. ASSUME NEW k \in Call, Walk(k) PROVE Types' /\ Stage'
  <2>1. CASE pos[k] > Len(Sentinels)
    <3>1. Return(k, "Io") /\ LeaveCell(k) /\ UNCHANGED <<pos, named>>
      BY <1>3, <2>1 DEF Walk
    <3>2. Types'
      BY <1>3, <1>k, <1>o, <1>r, <1>l, <3>1 DEF Types, Walk, linkVars, envVars
    <3>3. ASSUME NEW j \in Call PROVE StageOf(j)'
      BY <1>3, <1>r, <1>s, <3>1 DEF StageOf, Walk, Slot
    <3> QED BY <1>3, <3>2, <3>3 DEF Stage, Walk
  <2>2. CASE pos[k] <= Len(Sentinels)
    <3>1. pos' = [pos EXCEPT ![k] = @ + 1] /\ UNCHANGED <<res, building>>
      BY <1>3, <2>2, Constants DEF Walk, Types
    <3>2. pos' \in [Call -> 1..Len(Sentinels) + 1]
      BY <3>1, <2>2, Constants DEF Types
    <3>3. \/ UNCHANGED <<named, pc>>
          \/ /\ view[pos[k]] \in Node /\ named' = [named EXCEPT ![k] = view[pos[k]]]
             /\ Goto(k, "connect")
      BY <1>3, <2>2, Constants DEF Walk, Types
    <3>4. pc' \in [Call -> Places] /\ named' \in [Call -> Node \cup {Nobody}]
      BY <3>3, <1>p DEF Types, Places
    <3>5. Types'
      BY <1>3, <1>k, <1>o, <3>1, <3>2, <3>4 DEF Types, Walk, linkVars, envVars
    <3>6. ASSUME NEW j \in Call PROVE StageOf(j)'
      <4>1. pc'[j] = pc[j] \/ (j = k /\ pc'[k] = "connect")
        BY <3>3, <1>p DEF Places
      <4> QED BY <1>3, <1>s, <3>1, <4>1 DEF StageOf, Walk, Slot
    <3> QED BY <1>3, <3>5, <3>6 DEF Stage, Walk
  <2>3. pos[k] \in Nat /\ Len(Sentinels) \in Nat
    BY Constants DEF Types
  <2>4. pos[k] > Len(Sentinels) \/ pos[k] <= Len(Sentinels)
    BY <2>3
  <2> QED BY <2>1, <2>2, <2>4
<1>f. ASSUME NEW k \in Call, NEW c \in Conn, OpenTo(k, c), pc[k] = "connect",
             c[2] = "built" => attempt[k] = 0, c[2] # "built" => attempt[k] = 1,
             pos' \in [Call -> 1..Len(Sentinels) + 1],
             UNCHANGED <<inner, kind, named, first, queue, broken, envVars, applied, calm>>
      PROVE  Types' /\ Stage'
  <2>1. CASE status[named[k]] = "down"
    <3>1. Return(k, "Io") /\ LeaveCell(k) /\ UNCHANGED <<target, cell, attempt>>
      BY <1>f, <2>1 DEF OpenTo
    <3>2. Types'
      BY <1>f, <1>k, <1>o, <1>r, <1>l, <3>1 DEF Types, envVars
    <3>3. ASSUME NEW j \in Call PROVE StageOf(j)'
      BY <1>f, <1>r, <1>s, <3>1 DEF StageOf, Slot
    <3> QED BY <3>1, <3>2, <3>3 DEF Stage
  <2>2. CASE status[named[k]] # "down"
    <3>1. target' = [target EXCEPT ![c] = named[k]] /\ res' = res
      BY <1>f, <2>2 DEF OpenTo
    <3>2. target' \in [Conn -> Node \cup {Nobody}]
      BY <3>1 DEF Types
    <3>3. CASE c[2] = "built"
      <4>1. /\ cell' = [cell EXCEPT !["blocking"] = c]
            /\ attempt' = [attempt EXCEPT ![k] = 1]
            /\ LeaveCell(k) /\ Goto(k, "send")
        BY <1>f, <2>2, <3>3 DEF OpenTo
      <4>2. cell' \in [Slots -> Conn \cup {Nobody}] /\ cell'["blocking"] = c /\ c # Nobody
            /\ cell'["regular"] = cell["regular"]
        BY <4>1, Constants DEF Types, Slots
      <4>3. /\ pc' \in [Call -> Places] /\ pc'[k] = "send" /\ attempt' \in [Call -> 0..2]
            /\ attempt'[k] = 1 /\ building' \in Call \cup {Nobody}
            /\ \A j \in Call \ {k} : pc'[j] = pc[j] /\ attempt'[j] = attempt[j]
        <5>1. "send" \in Places /\ 1 \in 0..2
          BY DEF Places
        <5> QED BY <1>p, <1>a, <1>l, <4>1, <5>1
      <4>4. Types'
        BY <1>f, <1>k, <1>o, <3>1, <3>2, <4>2, <4>3 DEF Types, envVars
      <4>5. ASSUME NEW j \in Call PROVE StageOf(j)'
        BY <1>0, <1>f, <1>s, <3>1, <3>3, <4>2, <4>3 DEF StageOf, Slot, Slots
      <4> QED BY <4>2, <4>4, <4>5 DEF Stage
    <3>4. CASE c[2] # "built"
      <4>1. Goto(k, "swap") /\ UNCHANGED <<building, cell, attempt>>
        BY <1>f, <2>2, <3>4 DEF OpenTo
      <4>2. /\ pc' \in [Call -> Places] /\ pc'[k] = "swap"
            /\ \A j \in Call \ {k} : pc'[j] = pc[j]
        BY <1>p, <4>1 DEF Places
      <4>3. Types'
        BY <1>f, <1>k, <1>o, <3>1, <3>2, <4>1, <4>2 DEF Types, envVars
      <4>4. ASSUME NEW j \in Call PROVE StageOf(j)'
        BY <1>f, <1>s, <3>1, <3>4, <4>1, <4>2 DEF StageOf, Slot
      <4> QED BY <4>1, <4>3, <4>4 DEF Stage
    <3> QED BY <3>3, <3>4
  <2> QED BY <2>1, <2>2
<1>4. ASSUME NEW k \in Call, BuildBlocking(k) PROVE Types' /\ Stage'
  <2>1. pos' \in [Call -> 1..Len(Sentinels) + 1]
    BY <1>4, Constants DEF BuildBlocking, Types
  <2>2. <<k, "built">> \in Conn /\ <<k, "built">>[2] = "built"
    BY Constants
  <2> QED BY <1>4, <1>f, <2>1, <2>2 DEF BuildBlocking
<1>5. ASSUME NEW k \in Call, ConnectNamed(k) PROVE Types' /\ Stage'
  <2>1. pos' \in [Call -> 1..Len(Sentinels) + 1]
    BY <1>5 DEF ConnectNamed, Types
  <2>2. <<k, "fresh">> \in Conn /\ <<k, "fresh">>[2] = "fresh"
    BY Constants
  <2> QED BY <1>5, <1>f, <2>1, <2>2 DEF ConnectNamed
<1>6. ASSUME NEW k \in Call, Swap(k) PROVE Types' /\ Stage'
  <2>1. <<k, "fresh">> \in Conn /\ <<k, "fresh">> # Nobody
    BY Constants
  <2>2. cell' = [cell EXCEPT ![Slot(k)] = <<k, "fresh">>]
    BY <1>6 DEF Swap
  <2>3. cell' \in [Slots -> Conn \cup {Nobody}] /\ cell'[Slot(k)] = <<k, "fresh">>
        /\ \A s \in Slots \ {Slot(k)} : cell'[s] = cell[s]
    BY <2>1, <2>2, <1>0 DEF Types
  <2>4. /\ pc' \in [Call -> Places] /\ pc'[k] = "send" /\ attempt' \in [Call -> 0..2]
        /\ attempt'[k] = 2
        /\ \A j \in Call \ {k} : pc'[j] = pc[j] /\ attempt'[j] = attempt[j]
    <3>1. "send" \in Places /\ 2 \in 0..2
      BY DEF Places
    <3> QED BY <1>6, <1>p, <1>a, <3>1 DEF Swap
  <2>5. Types'
    BY <1>6, <1>k, <1>o, <2>3, <2>4 DEF Swap, Types, linkVars, envVars
  <2>6. ASSUME NEW j \in Call PROVE StageOf(j)'
    <3>1. Slot(j)' = Slot(j) /\ Slot(j) \in Slots
      BY <1>0, <1>6 DEF Slot, Swap
    <3>2. cell[Slot(j)] # Nobody => cell'[Slot(j)] # Nobody
      BY <2>1, <2>3, <3>1
    <3>3. Slot(j) = Slot(k) => cell'[Slot(j)] # Nobody
      BY <2>1, <2>3
    <3> QED BY <1>6, <1>s, <2>4, <3>1, <3>2, <3>3 DEF StageOf, Swap
  <2>7. cell'["regular"] # Nobody
    BY <2>1, <2>3 DEF Stage, Slots
  <2> QED BY <2>5, <2>6, <2>7 DEF Stage
<1>d. ASSUME NEW K \in SUBSET Call, NEW a \in Answers \ {"none"}, Dispatch(K, a), 
             \A k \in K : pc[k] \in {"send", "waiting"},
             UNCHANGED <<inner, kind, attempt, pos, named, cell, building, target>>,
             queue' \in [Conn -> Seq(Entries)], broken' \subseteq Conn,
             master' \in Node, status' \in [Node -> {"up", "loading", "down"}], view' = view,
             applied' \in [Call -> Nat], calm' \subseteq Call
      PROVE  Types' /\ Stage'
  <2>1. Types'
    BY <1>d, DispatchFacts DEF Types
  <2>2. ASSUME NEW k \in Call PROVE StageOf(k)'
    <3>1. SameCall(k) \/ (k \in K /\ Answered(k, a))
      BY <1>d, DispatchFacts
    <3>2. StageOf(k) /\ Slot(k)' = Slot(k) /\ cell' = cell /\ kind' = kind
      BY <1>d DEF Stage, Slot
    <3> QED BY <3>1, <3>2, <1>d DEF StageOf, SameCall, Answered
  <2> QED BY <1>d, <2>1, <2>2 DEF Stage
<1>7. ASSUME NEW k \in Call, Send(k) PROVE Types' /\ Stage'
  <2> DEFINE c == cell[Slot(k)]
  <2>0. c \in Conn /\ attempt[k] \in 1..2 /\ pc[k] = "send"
    BY <1>7, <1>0 DEF Types, Stage, StageOf, Send
  <2>1. CASE c \in broken \/ status[target[c]] = "down"
    <3>1. Dispatch({k}, "Io") /\ queue' = queue /\ broken' \subseteq Conn
      BY <1>7, <2>1 DEF Send, Types
    <3>2. "Io" \in Answers \ {"none"} /\ {k} \in SUBSET Call /\ \A j \in {k} : pc[j] \in {"send", "waiting"}
      BY <2>0 DEF Answers
    <3>3. UNCHANGED <<inner, kind, attempt, pos, named, cell, building, target, envVars, applied, calm>>
      BY <1>7 DEF Send
    <3>4. /\ queue' \in [Conn -> Seq(Entries)] /\ master' \in Node /\ view' = view
          /\ status' \in [Node -> {"up", "loading", "down"}]
          /\ applied' \in [Call -> Nat] /\ calm' \subseteq Call
      BY <3>1, <3>3 DEF Types, envVars
    <3> QED BY <1>d, <3>1, <3>2, <3>3, <3>4
  <2>2. CASE ~(c \in broken \/ status[target[c]] = "down")
    <3>1. queue' = [queue EXCEPT ![c] = Append(queue[c], <<k, attempt[k]>>)]
      BY <1>7, <2>2 DEF Send
    <3>2. queue' \in [Conn -> Seq(Entries)]
      <4>1. <<k, attempt[k]>> \in Entries
        BY <2>0 DEF Entries
      <4> QED BY <2>0, <3>1, <4>1, AppendFacts
    <3>3. Goto(k, "waiting") /\ UNCHANGED <<broken, first, res>>
      BY <1>7, <2>2 DEF Send
    <3>4. Types'
      BY <1>7, <3>2, <3>3 DEF Send, Types, Goto, envVars
    <3>5. Stage'
      BY <1>7, <3>3 DEF Send, Types, Goto, Stage, StageOf, Slot
    <3> QED BY <3>4, <3>5
  <2> QED BY <2>1, <2>2
<1>8. ASSUME NEW k \in Call, ResponseTimeout(k) PROVE Types' /\ Stage'
  <2>1. Dispatch({k}, "Io") /\ pc[k] = "waiting" /\ calm' \subseteq Call
    BY <1>8 DEF ResponseTimeout, Types
  <2>2. "Io" \in Answers \ {"none"} /\ {k} \in SUBSET Call /\ \A j \in {k} : pc[j] \in {"send", "waiting"}
    BY <2>1 DEF Answers
  <2>3. UNCHANGED <<inner, kind, attempt, pos, named, cell, building, linkVars, master, status, view, applied>>
    BY <1>8 DEF ResponseTimeout
  <2>4. /\ queue' \in [Conn -> Seq(Entries)] /\ broken' \subseteq Conn /\ master' \in Node
        /\ status' \in [Node -> {"up", "loading", "down"}] /\ view' = view
        /\ applied' \in [Call -> Nat] /\ target' = target
    BY <2>3 DEF Types, linkVars
  <2> QED BY <1>d, <2>1, <2>2, <2>3, <2>4
<1>9. ASSUME NEW c \in Conn, Serve(c) PROVE Types' /\ Stage'
  <2>1. queue[c] # << >> /\ queue' = [queue EXCEPT ![c] = Tail(queue[c])]
    BY <1>9 DEF Serve
  <2>2. queue' \in [Conn -> Seq(Entries)] /\ Head(queue[c]) \in Entries
    BY <2>1, TailFacts
  <2>3. PICK a \in Replies(target[c]) :
           LET k == Head(queue[c])[1]
               i == Head(queue[c])[2]
           IN  /\ applied' = [applied EXCEPT ![k] = @ + IF a = "ok" THEN 1 ELSE 0]
               /\ Dispatch({j \in {k} : Waits(k, i)}, a)
    BY <1>9 DEF Serve
  <2> DEFINE K == {j \in {Head(queue[c])[1]} : Waits(Head(queue[c])[1], Head(queue[c])[2])}
  <2>4. a \in Answers \ {"none"} /\ K \in SUBSET Call /\ \A k \in K : pc[k] = "waiting"
    BY <2>2, RepliesFacts DEF Entries, Answers, Waits
  <2>5. applied' \in [Call -> Nat]
    BY <2>2, <2>3 DEF Types, Entries
  <2> QED BY <1>d, <1>9, <2>2, <2>3, <2>4, <2>5 DEF Serve, envVars, Types
<1>b. ASSUME NEW C \in SUBSET Conn, NEW known, Break(C, known)
      PROVE  /\ Dispatch(Waiting(C), "Io") /\ Waiting(C) \in SUBSET Call
             /\ \A k \in Waiting(C) : pc[k] = "waiting"
             /\ queue' \in [Conn -> Seq(Entries)] /\ broken' \subseteq Conn
             /\ "Io" \in Answers \ {"none"}
  BY <1>b, BreakKept DEF Break, Waiting, Waits, Answers, Types
<1>10. ASSUME NEW c \in Conn, Drop(c) PROVE Types' /\ Stage'
  <2>1. applied' \in [Call -> Nat]
    <3>1. CASE UNCHANGED applied
      BY <3>1 DEF Types
    <3>2. CASE queue[c] # << >> /\ applied' = [applied EXCEPT ![Head(queue[c])[1]] = @ + 1]
      <4> DEFINE h == Head(queue[c])[1]
      <4>1. applied' = [applied EXCEPT ![h] = applied[h] + 1] /\ applied \in [Call -> Nat]
        BY <3>2 DEF Types
      <4>2. queue[c] \in Seq(Entries) /\ queue[c] # << >>
        BY <3>2 DEF Types
      <4>3. h \in Call
        BY <4>2 DEF Entries
      <4> HIDE DEF h
      <4> QED BY <4>1, <4>3
    <3> QED BY <1>10, <3>1, <3>2 DEF Drop
  <2>2. PICK known : Break({c}, known)
    BY <1>10 DEF Drop
  <2>3. calm' \subseteq Call
    BY <1>10 DEF Drop, Fault, Types
  <2>4. UNCHANGED <<inner, kind, attempt, pos, named, cell, building, target, master, status, view>>
    BY <1>10 DEF Drop
  <2>5. master' \in Node /\ status' \in [Node -> {"up", "loading", "down"}] /\ view' = view
    BY <2>4 DEF Types
  <2>6. {c} \in SUBSET Conn
    OBVIOUS
  <2>7. \A k \in Waiting({c}) : pc[k] \in {"send", "waiting"}
    BY <1>b, <2>2, <2>6
  <2> QED BY <1>b, <1>d, <2>1, <2>2, <2>3, <2>4, <2>5, <2>6, <2>7
<1>11. ASSUME NEW n \in Node, NodeDown(n) PROVE Types' /\ Stage'
  <2>1. Break({c \in Conn : target[c] = n}, {})
    BY <1>11 DEF NodeDown
  <2>2. calm' \subseteq Call /\ status' \in [Node -> {"up", "loading", "down"}]
    BY <1>11 DEF NodeDown, Fault, Types
  <2>3. UNCHANGED <<inner, kind, attempt, pos, named, cell, building, target, master, view, applied>>
    BY <1>11 DEF NodeDown
  <2>4. master' \in Node /\ applied' \in [Call -> Nat]
    BY <2>3 DEF Types
  <2>5. \A k \in Waiting({c \in Conn : target[c] = n}) : pc[k] \in {"send", "waiting"}
    BY <1>b, <2>1
  <2> QED BY <1>b, <1>d, <2>1, <2>2, <2>3, <2>4, <2>5
<1>12. ASSUME NEW n \in Node, Failover(n) \/ NodeUp(n) PROVE Types' /\ Stage'
  <2>1. status' \in [Node -> {"up", "loading", "down"}] /\ master' \in Node /\ calm' \subseteq Call
    BY <1>12 DEF Failover, NodeUp, Types
  <2>2. UNCHANGED <<inner, kind, pc, attempt, pos, named, first, res, cell, building,
                    linkVars, view, applied>>
    BY <1>12 DEF Failover, NodeUp
  <2> QED BY <2>1, <2>2 DEF Types, Stage, StageOf, Slot, linkVars
<1>13. ASSUME NEW s \in DOMAIN view, SentinelDown(s) \/ SentinelLearns(s) PROVE Types' /\ Stage'
  <2>1. view' \in [1..Len(Sentinels) -> Node \cup {Nobody}] /\ calm' \subseteq Call
    BY <1>13 DEF SentinelDown, SentinelLearns, Fault, Types
  <2>2. UNCHANGED <<inner, kind, pc, attempt, pos, named, first, res, cell, building,
                    linkVars, master, status, applied>>
    BY <1>13 DEF SentinelDown, SentinelLearns
  <2> QED BY <2>1, <2>2 DEF Types, Stage, StageOf, Slot, linkVars
<1> QED
  BY <1>1, <1>2, <1>3, <1>4, <1>5, <1>6, <1>7, <1>8, <1>9, <1>10, <1>11, <1>12, <1>13
     DEF ConnNext, CallStep, CreateSentinelInner, Rediscover, Environment

-----------------------------------------------------------------------------
(* What each kind of step does to the truth about one call. *)

LEMMA OwedFacts ==
  ASSUME NEW k \in Call
  PROVE  Owed(k) \in 0..2 /\ (Kept(k) => Owed(k)' \in 0..Owed(k))
  BY DEF Owed, Kept

LEMMA SentFacts ==
  ASSUME Types, Stage, NEW k \in Call
  PROVE  Sent(k) \in 0..2 /\ attempt[k] \in 0..2 /\ Sent(k) <= attempt[k]
  BY DEF Types, Stage, StageOf, Sent

LEMMA UpToMore ==
  ASSUME Types, NEW k \in Call, NEW m \in 0..2, NEW n \in 0..2, m <= n, UpTo(k, m)
  PROVE  UpTo(k, n)
<1>1. \A c \in Conn : \A i \in DOMAIN queue[c] : queue[c][i] \in Entries
  BY DEF Types
<1> QED BY <1>1 DEF UpTo, Entries

(* The step is not about call k, or takes some of its commands away.          *)
LEMMA Bystander ==
  ASSUME Types, Stage, NEW k \in Call, Kept(k), SameCall(k), applied'[k] = applied[k]
  PROVE  (TruthOf(k) => TruthOf(k)') /\ (SentOf(k) => SentOf(k)')
<1>1. Sent(k)' = Sent(k)
  BY DEF Sent, SameCall
<1>2. Sent(k) \in 0..2 /\ attempt[k] \in 0..2 /\ Owed(k)' \in 0..Owed(k) /\ Owed(k) \in 0..2
  BY SentFacts, OwedFacts
<1>3. TruthOf(k) => TruthOf(k)'
  BY <1>2 DEF TruthOf, Clear, Unsure, SameCall, Kept
<1>4. SentOf(k) => SentOf(k)'
  BY <1>1, <1>2 DEF SentOf, Kept, Types
<1> QED BY <1>3, <1>4

\* Call k goes on by itself, between two attempts.
Own(k) ==
    /\ pc[k] \notin {"waiting", "done"} /\ pc'[k] # "waiting"
    /\ first'[k] = first[k] /\ res'[k] \in {res[k], "Io"}
    /\ Sent(k)' = Sent(k)

LEMMA OwnStep ==
  ASSUME Types, Stage, NEW k \in Call, Own(k), queue' = queue, applied' = applied
  PROVE  (TruthOf(k) => TruthOf(k)') /\ (SentOf(k) => SentOf(k)')
<1>1. res[k] = "none"
  BY DEF Stage, StageOf, Own
<1>2. ASSUME TruthOf(k), Clear(k)' PROVE TruthOf(k)'
  <2>1. Clear(k) /\ res'[k] # "ok"
    BY <1>1, <1>2 DEF Clear, Unsure, Own
  <2>2. Unsent(k) /\ applied[k] = 0
    BY <1>1, <1>2, <2>1 DEF TruthOf, Own
  <2>3. One(k)' /\ Only(k, attempt[k])' /\ Unsent(k)'
    BY <2>2 DEF Unsent, One, Only
  <2> QED BY <1>1, <2>1, <2>2, <2>3 DEF TruthOf
<1>3. TruthOf(k) => TruthOf(k)'
  BY <1>1, <1>2 DEF TruthOf, Own
<1>4. SentOf(k) => SentOf(k)'
  BY DEF SentOf, Own, UpTo, Owed, Queued
<1> QED BY <1>3, <1>4

(* The attempt of call k ends with a connection error.                        *)
LEMMA Breaks ==
  ASSUME Types, Stage, Types', Stage', NEW k \in Call, Kept(k), Answered(k, "Io"),
         pc[k] \in {"send", "waiting"}, applied'[k] = applied[k]
  PROVE  (TruthOf(k) => TruthOf(k)') /\ (SentOf(k) => SentOf(k)')
<1>1. res[k] = "none" /\ attempt[k] \in {1, 2}
  BY DEF Stage, StageOf
<1>2. ~Clear(k)' /\ res'[k] # "ok"
  BY <1>1 DEF Clear, Unsure, Answered
<1>3. TruthOf(k)'
  BY <1>2 DEF TruthOf
<1>4. Sent(k) \in 0..2 /\ Sent(k)' = attempt[k] /\ Sent(k) <= attempt[k]
  BY SentFacts DEF Sent, Answered
<1>5. ASSUME SentOf(k) PROVE SentOf(k)'
  <2>1. UpTo(k, attempt[k])
    BY <1>1, <1>4, <1>5, UpToMore DEF SentOf
  <2>2. UpTo(k, attempt[k])'
    BY <1>1, <2>1 DEF Kept, Answered
  <2>3. Owed(k)' \in 0..Owed(k) /\ Owed(k) \in 0..2 /\ applied[k] \in Nat
    BY OwedFacts DEF Types
  <2>4. applied'[k] + Owed(k)' <= Sent(k)'
    BY <1>1, <1>4, <1>5, <2>3 DEF SentOf
  <2> QED BY <1>4, <2>2, <2>4 DEF SentOf, Answered
<1> QED BY <1>3, <1>5

(* Call k writes an attempt.                                                  *)
LEMMA Writes ==
  ASSUME Types, Stage, NEW k \in Call, NEW c \in Conn, pc[k] = "send", pc'[k] = "waiting",
         queue' = [queue EXCEPT ![c] = Append(queue[c], <<k, attempt[k]>>)],
         attempt' = attempt, first' = first, res' = res, applied' = applied
  PROVE  /\ TruthOf(k) => TruthOf(k)'
         /\ SentOf(k) => SentOf(k)' /\ (Distinct => Distinct')
<1>1. attempt[k] \in 1..2 /\ Sent(k) = attempt[k] - 1 /\ Sent(k)' = attempt[k] /\ res[k] = "none"
  BY DEF Stage, StageOf, Sent
<1>2. /\ Unsent(k) => One(k)' /\ Only(k, attempt[k])'
      /\ UpTo(k, attempt[k] - 1) => UpTo(k, attempt[k])' /\ (Distinct => Distinct')
      /\ \A b \in 1..2 : Queued(k, b)' => Queued(k, b) \/ b = attempt[k]
      /\ UpTo(k, attempt[k] - 1) => ~Queued(k, attempt[k])
  BY <1>1, AppendKept
<1>3. TruthOf(k) => TruthOf(k)'
  BY <1>2 DEF TruthOf, Clear, Unsure
<1>4. ASSUME SentOf(k) PROVE SentOf(k)' /\ (Distinct => Distinct')
  <2>1. UpTo(k, attempt[k])' /\ (Distinct => Distinct')
    BY <1>1, <1>2, <1>4 DEF SentOf
  <2>2. Owed(k)' <= Owed(k) + 1
    BY <1>1, <1>2, <1>4 DEF Owed, SentOf
  <2>3. applied'[k] + Owed(k)' <= Sent(k)'
    <3>1. applied[k] \in Nat /\ Owed(k) \in 0..2 /\ Owed(k)' \in 0..2
      BY DEF Types, Owed
    <3> QED BY <1>1, <1>4, <2>2, <3>1 DEF SentOf
  <2> QED BY <1>1, <2>1, <2>3 DEF SentOf
<1> QED BY <1>3, <1>4

(* The command at the head of c, attempt i of call k, is executed, refused or *)
(* lost; the call hears of it, or of a connection error, if it still waits.   *)
LEMMA HeadWorked ==
  ASSUME Types, Stage, Types', Stage', NEW k \in Call, NEW c \in Conn, NEW i \in 1..2,
         queue[c] # << >>, Head(queue[c]) = <<k, i>>, HeadGone(c), Kept(k),
         NEW d \in {0, 1}, applied'[k] = applied[k] + d,
         \/ ~Waits(k, i) /\ SameCall(k)
         \/ /\ pc[k] = "waiting"
            /\ \E a \in Answers \ {"none"} :
                  Answered(k, a) /\ (a # "Io" => Waits(k, i) /\ d = IF a = "ok" THEN 1 ELSE 0)
  PROVE  /\ TruthOf(k) => TruthOf(k)'
         /\ SentOf(k) /\ Distinct => SentOf(k)'
<1>1. /\ 1 \in DOMAIN queue[c] /\ queue[c][1] = <<k, i>> /\ Queued(k, i)
      /\ One(k) => Unsent(k)'
      /\ Distinct => ~Queued(k, i)'
  BY HeadFacts
<1>2. applied[k] \in Nat /\ attempt[k] \in 0..2 /\ attempt'[k] = attempt[k]
  BY DEF Types, SameCall, Answered
<1>3. ASSUME TruthOf(k), ~Waits(k, i), SameCall(k) PROVE TruthOf(k)'
  <2>1. ~Unsent(k) /\ (Only(k, attempt[k]) => i = attempt[k])
    BY <1>1 DEF Unsent, Only
  <2>2. ~Clear(k)
    BY <1>3, <2>1 DEF TruthOf, Waits
  <2> QED BY <1>2, <1>3, <2>2 DEF TruthOf, Clear, Unsure, SameCall
<1>4. ASSUME TruthOf(k), pc[k] = "waiting", NEW a \in Answers \ {"none"}, Answered(k, a),
             a # "Io" => Waits(k, i) /\ d = IF a = "ok" THEN 1 ELSE 0
      PROVE  TruthOf(k)'
  <2>1. res[k] = "none" /\ attempt[k] \in {1, 2}
        /\ (attempt[k] = 1 => first[k] = "none")
    BY <1>4 DEF Stage, StageOf
  <2>2. res'[k] = "ok" => applied'[k] >= 1
    BY <1>2, <1>4, <2>1 DEF Answered
  <2>3. ASSUME Clear(k)' PROVE Clear(k) /\ a # "Io"
    BY <1>4, <2>1, <2>3 DEF Clear, Unsure, Answered
  <2>4. ASSUME Clear(k)'
        PROVE  applied'[k] = (IF res'[k] = "ok" THEN 1 ELSE 0) /\ Unsent(k)'
    <3>1. applied[k] = 0 /\ One(k)
      BY <1>4, <2>1, <2>3, <2>4 DEF TruthOf
    <3>2. res'[k] = "ok" <=> a = "ok"
      BY <1>4, <2>1 DEF Answered
    <3> QED BY <1>1, <1>4, <2>3, <2>4, <3>1, <3>2
  <2>5. Unsent(k)' => One(k)' /\ Only(k, attempt[k])'
    BY DEF Unsent, One, Only
  <2> QED BY <2>2, <2>4, <2>5 DEF TruthOf
<1>5. ASSUME SentOf(k), Distinct PROVE SentOf(k)'
  <2>1. Sent(k)' \in 0..2 /\ Sent(k) \in 0..2 /\ Sent(k) <= Sent(k)'
    <3>1. Sent(k) \in 0..2 /\ Sent(k)' \in 0..2
      <4>1. attempt'[k] \in 0..2
        BY DEF Types
      <4>2. pc'[k] = "send" => attempt'[k] \in {1, 2}
        BY DEF Stage, StageOf
      <4>3. Sent(k)' \in 0..2
        BY <4>1, <4>2 DEF Sent
      <4> QED BY <4>3, SentFacts
    <3> QED BY <1>2, <3>1 DEF Sent, SameCall, Answered, Waits
  <2>2. UpTo(k, Sent(k)')
    BY <1>5, <2>1, UpToMore DEF SentOf
  <2>3. UpTo(k, Sent(k))'
    BY <2>1, <2>2 DEF Kept
  <2>4. Owed(k)' + 1 <= Owed(k) /\ Owed(k) \in 0..2 /\ Owed(k)' \in 0..2
    BY <1>1, <1>5 DEF Owed, Kept
  <2> QED BY <1>2, <1>5, <2>1, <2>3, <2>4 DEF SentOf
<1> QED BY <1>3, <1>4, <1>5

-----------------------------------------------------------------------------
(* The first theorems. *)

\* The step breaks connections C, maybe after executing the head of one of them.
LEMMA BreakStep ==
  ASSUME Honest, Types', Stage', NEW C \in SUBSET Conn, NEW known, Break(C, known),
         UNCHANGED <<attempt, pos, named>>,
         \/ UNCHANGED applied
         \/ \E c \in C : /\ queue[c] # << >>
                         /\ applied' = [applied EXCEPT ![Head(queue[c])[1]] = @ + 1]
  PROVE  Truth' /\ SentOnce'
<1>1. /\ queue' = [c \in Conn |-> IF c \in C THEN << >> ELSE queue[c]]
      /\ Dispatch(Waiting(C), "Io") /\ Waiting(C) \in SUBSET Call
      /\ \A k \in Waiting(C) : pc[k] = "waiting"
  BY DEF Break, Waiting, Waits
<1>2. /\ \A k \in Call : Kept(k)
      /\ Distinct => Distinct'
      /\ \A c \in Conn : \A i \in DOMAIN queue'[c] :
            c \notin C /\ i \in DOMAIN queue[c] /\ queue'[c][i] = queue[c][i]
  BY <1>1, BreakKept DEF Honest
<1>3. "Io" \in Answers \ {"none"}
  BY DEF Answers
<1>4. /\ \A k \in Call \ Waiting(C) : SameCall(k)
      /\ \A k \in Waiting(C) : Answered(k, "Io")
  BY <1>1, <1>3, DispatchFacts DEF Honest
<1>5. \A c \in C : HeadGone(c)
  BY <1>2 DEF HeadGone
<1>6. ASSUME NEW k \in Call
      PROVE  (TruthOf(k) => TruthOf(k)') /\ (SentOf(k) /\ Distinct => SentOf(k)')
  <2>1. CASE applied'[k] = applied[k]
    <3>1. CASE k \in Waiting(C)
      BY <1>1, <1>2, <1>4, <2>1, <3>1, Breaks DEF Honest
    <3>2. CASE k \notin Waiting(C)
      BY <1>2, <1>4, <2>1, <3>2, Bystander DEF Honest
    <3> QED BY <3>1, <3>2
  <2>2. CASE applied'[k] # applied[k]
    <3>1. PICK c \in C : /\ queue[c] # << >>
                         /\ applied' = [applied EXCEPT ![Head(queue[c])[1]] = @ + 1]
      BY <2>2
    <3>2. Head(queue[c]) \in Entries
      <4>1. queue[c] \in Seq(Entries)
        BY DEF Honest, Types
      <4> QED BY <3>1, <4>1
    <3>3. PICK i \in 1..2 : Head(queue[c]) = <<k, i>>
      <4>1. Head(queue[c])[1] = k
        BY <2>2, <3>1 DEF Honest, Types
      <4> QED BY <3>2, <4>1 DEF Entries
    <3>4. applied'[k] = applied[k] + 1
      BY <3>1, <3>3 DEF Honest, Types
    <3>5. k \notin Waiting(C) => ~Waits(k, i)
      <4>1. 1 \in DOMAIN queue[c] /\ queue[c][1] = <<k, i>>
        BY <1>5, <3>1, <3>3, HeadFacts DEF Honest
      <4> QED BY <4>1 DEF Waiting, Waits
    <3>6. CASE k \in Waiting(C)
      BY <1>1, <1>2, <1>3, <1>4, <1>5, <3>1, <3>3, <3>4, <3>6, HeadWorked DEF Honest
    <3>7. CASE k \notin Waiting(C)
      BY <1>2, <1>4, <1>5, <3>1, <3>3, <3>4, <3>5, <3>7, HeadWorked DEF Honest
    <3> QED BY <3>6, <3>7
  <2> QED BY <2>1, <2>2
<1> QED BY <1>2, <1>6 DEF Truth, SentOnce, Honest

\* The attempt of call k breaks and nothing else happens.
LEMMA LoseStep ==
  ASSUME Honest, Types', Stage', NEW k \in Call, Dispatch({k}, "Io"), pc[k] \in {"send", "waiting"},
         UNCHANGED <<attempt, pos, named, queue, applied>>
  PROVE  Truth' /\ SentOnce'
<1>1. "Io" \in Answers \ {"none"} /\ {k} \in SUBSET Call
  BY DEF Answers
<1>2. Answered(k, "Io") /\ \A j \in Call \ {k} : SameCall(j)
  BY <1>1, DispatchFacts DEF Honest
<1>3. (\A j \in Call : Kept(j)) /\ (Distinct => Distinct')
  BY SameKept
<1>4. ASSUME NEW j \in Call
      PROVE  (TruthOf(j) => TruthOf(j)') /\ (SentOf(j) => SentOf(j)')
  <2>1. CASE j = k
    BY <1>2, <1>3, <2>1, Breaks DEF Honest
  <2>2. CASE j # k
    BY <1>2, <1>3, <2>2, Bystander DEF Honest
  <2> QED BY <2>1, <2>2
<1> QED BY <1>3, <1>4 DEF Honest, Truth, SentOnce

\* Call k goes on by itself.
LEMMA OwnSteps ==
  ASSUME Honest, NEW k \in Call, Own(k), \A j \in Call \ {k} : SameCall(j),
         UNCHANGED <<queue, applied>>
  PROVE  Truth' /\ SentOnce'
<1>1. (\A j \in Call : Kept(j)) /\ (Distinct => Distinct')
  BY SameKept
<1>2. ASSUME NEW j \in Call
      PROVE  (TruthOf(j) => TruthOf(j)') /\ (SentOf(j) => SentOf(j)')
  <2>1. CASE j = k
    BY <2>1, OwnStep DEF Honest
  <2>2. CASE j # k
    BY <1>1, <2>2, Bystander DEF Honest
  <2> QED BY <2>1, <2>2
<1> QED BY <1>1, <1>2 DEF Honest, Truth, SentOnce

\* No call goes on and no server executes anything.
LEMMA IdleStep ==
  ASSUME Honest, UNCHANGED <<pc, attempt, pos, named, first, res, queue, applied>>
  PROVE  Truth' /\ SentOnce'
<1>1. ASSUME NEW k \in Call PROVE SameCall(k) /\ applied'[k] = applied[k]
  BY DEF SameCall
<1>2. (\A k \in Call : Kept(k)) /\ (Distinct => Distinct')
  BY SameKept
<1> QED BY <1>1, <1>2, Bystander DEF Honest, Truth, SentOnce

LEMMA HonestStep ==
  ASSUME Honest, ConnNext
  PROVE  Honest'
<1>1. Types' /\ Stage' /\ Types /\ Stage
  BY TypesStep DEF Honest
<1>2. \A k \in Call : StageOf(k)
  BY DEF Honest, Stage
<1>3. ASSUME NEW k \in Call, Issue(k) PROVE Truth' /\ SentOnce'
  <2>1. Own(k) /\ \A j \in Call \ {k} : SameCall(j)
    BY <1>1, <1>2, <1>3 DEF Types, StageOf, Issue, Goto, Own, SameCall, Sent
  <2> QED BY <1>3, <2>1, OwnSteps DEF Issue, linkVars
<1>4. ASSUME NEW k \in Call, GetBlocking(k) PROVE Truth' /\ SentOnce'
  <2>1. Own(k) /\ \A j \in Call \ {k} : SameCall(j)
    BY <1>1, <1>2, <1>4 DEF Types, StageOf, GetBlocking, Goto, Own, SameCall, Sent
  <2> QED BY <1>4, <2>1, OwnSteps DEF GetBlocking, linkVars
<1>5. ASSUME NEW k \in Call, Walk(k) PROVE Truth' /\ SentOnce'
  <2>1. Own(k) /\ \A j \in Call \ {k} : SameCall(j)
    BY <1>1, <1>2, <1>5 DEF Types, StageOf, Walk, Return, Goto, Own, SameCall, Sent
  <2> QED BY <1>5, <2>1, OwnSteps DEF Walk, linkVars
<1>o. ASSUME NEW k \in Call, NEW c \in Conn, pc[k] = "connect", OpenTo(k, c),
             c[2] = "built" => attempt[k] = 0, UNCHANGED <<named, first>>,
             \A j \in Call \ {k} : pos'[j] = pos[j]
      PROVE  Own(k) /\ \A j \in Call \ {k} : SameCall(j)
  <2>1. attempt[k] \in {0, 1} /\ res[k] = "none"
    BY <1>2, <1>o DEF StageOf
  <2>2. CASE status[named[k]] = "down"
    <3>1. Return(k, "Io") /\ attempt' = attempt
      BY <1>o, <2>2 DEF OpenTo
    <3> QED BY <1>1, <1>o, <3>1 DEF Types, Return, Goto, Own, SameCall, Sent
  <2>3. CASE status[named[k]] # "down" /\ c[2] = "built"
    <3>1. attempt' = [attempt EXCEPT ![k] = 1] /\ Goto(k, "send") /\ res' = res /\ attempt[k] = 0
      BY <1>o, <2>3 DEF OpenTo
    <3> QED BY <1>1, <1>o, <3>1 DEF Types, Goto, Own, SameCall, Sent
  <2>4. CASE status[named[k]] # "down" /\ c[2] # "built"
    <3>1. attempt' = attempt /\ Goto(k, "swap") /\ res' = res
      BY <1>o, <2>4 DEF OpenTo
    <3> QED BY <1>1, <1>o, <3>1 DEF Types, Goto, Own, SameCall, Sent
  <2> QED BY <2>2, <2>3, <2>4
<1>6. ASSUME NEW k \in Call, BuildBlocking(k) PROVE Truth' /\ SentOnce'
  <2>1. <<k, "built">> \in Conn /\ <<k, "built">>[2] = "built"
    BY Constants
  <2>2. Own(k) /\ \A j \in Call \ {k} : SameCall(j)
    BY <1>1, <1>6, <1>o, <2>1 DEF Types, BuildBlocking
  <2> QED BY <1>6, <2>2, OwnSteps DEF BuildBlocking
<1>7. ASSUME NEW k \in Call, ConnectNamed(k) PROVE Truth' /\ SentOnce'
  <2>1. <<k, "fresh">> \in Conn /\ <<k, "fresh">>[2] = "fresh"
    BY Constants
  <2>2. Own(k) /\ \A j \in Call \ {k} : SameCall(j)
    BY <1>1, <1>7, <1>o, <2>1 DEF Types, ConnectNamed
  <2> QED BY <1>7, <2>2, OwnSteps DEF ConnectNamed
<1>8. ASSUME NEW k \in Call, Swap(k) PROVE Truth' /\ SentOnce'
  <2>1. Own(k) /\ \A j \in Call \ {k} : SameCall(j)
    BY <1>1, <1>2, <1>8 DEF Types, StageOf, Swap, Goto, Own, SameCall, Sent
  <2> QED BY <1>8, <2>1, OwnSteps DEF Swap, linkVars
<1>9. ASSUME NEW k \in Call, Send(k) PROVE Truth' /\ SentOnce'
  <2> DEFINE c == cell[Slot(k)]
  <2>0. c \in Conn /\ pc[k] = "send" /\ attempt[k] \in 1..2
    <3>1. Slot(k) \in Slots
      BY DEF Slot, Slots
    <3> QED BY <1>1, <1>2, <1>9, <3>1 DEF Types, StageOf, Send
  <2>1. CASE c \in broken \/ status[target[c]] = "down"
    BY <1>1, <1>9, <2>0, <2>1, LoseStep DEF Send
  <2>2. CASE ~(c \in broken \/ status[target[c]] = "down")
    <3>1. /\ queue' = [queue EXCEPT ![c] = Append(queue[c], <<k, attempt[k]>>)]
          /\ Goto(k, "waiting")
          /\ UNCHANGED <<broken, first, res, attempt, applied, pos, named>>
      BY <1>9, <2>2 DEF Send
    <3>2. pc'[k] = "waiting" /\ \A j \in Call \ {k} : SameCall(j)
      BY <1>1, <3>1 DEF Types, Goto, SameCall
    <3>3. /\ TruthOf(k) => TruthOf(k)'
          /\ SentOf(k) => SentOf(k)' /\ (Distinct => Distinct')
      BY <1>1, <2>0, <3>1, <3>2, Writes
    <3>4. \A j \in Call \ {k} : Kept(j)
      BY <1>1, <2>0, <3>1, AppendKept
    <3>5. ASSUME NEW j \in Call \ {k}
          PROVE  (TruthOf(j) => TruthOf(j)') /\ (SentOf(j) => SentOf(j)')
      BY <1>1, <3>1, <3>2, <3>4, Bystander
    <3> QED BY <3>3, <3>5 DEF Honest, Truth, SentOnce
  <2> QED BY <2>1, <2>2
<1>10. ASSUME NEW k \in Call, ResponseTimeout(k) PROVE Truth' /\ SentOnce'
  BY <1>1, <1>10, LoseStep DEF ResponseTimeout, linkVars
<1>11. ASSUME NEW c \in Conn, Serve(c) PROVE Truth' /\ SentOnce'
  <2>1. queue[c] # << >> /\ queue' = [queue EXCEPT ![c] = Tail(queue[c])]
        /\ UNCHANGED <<attempt, pos, named>>
    BY <1>11 DEF Serve
  <2>2. Head(queue[c]) \in Entries
    BY <1>1, <2>1, TailFacts
  <2>3. PICK k \in Call, i \in 1..2 : Head(queue[c]) = <<k, i>>
    BY <2>2 DEF Entries
  <2>4. PICK a \in Replies(target[c]) :
           /\ applied' = [applied EXCEPT ![k] = @ + IF a = "ok" THEN 1 ELSE 0]
           /\ Dispatch({j \in {k} : Waits(k, i)}, a)
    <3>1. Head(queue[c])[1] = k /\ Head(queue[c])[2] = i
      BY <2>3
    <3>2. PICK a \in Replies(target[c]) :
             /\ applied' = [applied EXCEPT ![Head(queue[c])[1]] = @ + IF a = "ok" THEN 1 ELSE 0]
             /\ Dispatch({j \in {Head(queue[c])[1]} : Waits(Head(queue[c])[1], Head(queue[c])[2])}, a)
      BY <1>11 DEF Serve
    <3> QED BY <3>1, <3>2
  <2>5. a \in Answers \ {"none"} /\ a # "Io" /\ {j \in {k} : Waits(k, i)} \in SUBSET Call
    BY RepliesFacts DEF Answers
  <2>6. /\ \A j \in Call \ {k} : SameCall(j)
        /\ Waits(k, i) => Answered(k, a)
        /\ ~Waits(k, i) => SameCall(k)
    BY <1>1, <2>1, <2>4, <2>5, DispatchFacts
  <2>7. /\ \A j \in Call : Kept(j)
        /\ Distinct => Distinct'
        /\ HeadGone(c)
    BY <1>1, <2>1, TailKept DEF HeadGone
  <2>8. /\ \A j \in Call \ {k} : applied'[j] = applied[j]
        /\ applied'[k] = applied[k] + IF a = "ok" THEN 1 ELSE 0
    BY <1>1, <2>4 DEF Types
  <2>9. (TruthOf(k) => TruthOf(k)') /\ (SentOf(k) /\ Distinct => SentOf(k)')
    <3> DEFINE d == IF a = "ok" THEN 1 ELSE 0
    <3>1. d \in {0, 1} /\ applied'[k] = applied[k] + d
      BY <2>8
    <3>2. Waits(k, i) => pc[k] = "waiting"
      BY DEF Waits
    <3>3. \/ ~Waits(k, i) /\ SameCall(k)
          \/ /\ pc[k] = "waiting"
             /\ \E b \in Answers \ {"none"} :
                   Answered(k, b) /\ (b # "Io" => Waits(k, i) /\ d = IF b = "ok" THEN 1 ELSE 0)
      BY <2>5, <2>6, <3>2
    <3> HIDE DEF d
    <3> QED BY <1>1, <2>1, <2>3, <2>7, <3>1, <3>3, HeadWorked
  <2>10. ASSUME NEW j \in Call \ {k}
         PROVE  (TruthOf(j) => TruthOf(j)') /\ (SentOf(j) => SentOf(j)')
    BY <1>1, <2>6, <2>7, <2>8, Bystander
  <2> QED BY <2>7, <2>9, <2>10 DEF Honest, Truth, SentOnce
<1>12. ASSUME NEW c \in Conn, Drop(c) PROVE Truth' /\ SentOnce'
  <2>1. PICK known : Break({c}, known)
    BY <1>12 DEF Drop
  <2>2. \/ UNCHANGED applied
        \/ \E d \in {c} : /\ queue[d] # << >>
                          /\ applied' = [applied EXCEPT ![Head(queue[d])[1]] = @ + 1]
    BY <1>12 DEF Drop
  <2>3. UNCHANGED <<attempt, pos, named>> /\ {c} \in SUBSET Conn
    BY <1>12 DEF Drop
  <2> QED BY <1>1, <2>1, <2>2, <2>3, BreakStep
<1>13. ASSUME NEW n \in Node, NodeDown(n) PROVE Truth' /\ SentOnce'
  <2>1. Break({c \in Conn : target[c] = n}, {}) /\ UNCHANGED <<attempt, pos, named, applied>>
    BY <1>13 DEF NodeDown
  <2> QED BY <1>1, <2>1, BreakStep
<1>15. ASSUME NEW n \in Node, Failover(n) \/ NodeUp(n) PROVE Truth' /\ SentOnce'
  BY <1>15, IdleStep DEF Failover, NodeUp, linkVars
<1>16. ASSUME NEW s \in DOMAIN view, SentinelDown(s) \/ SentinelLearns(s) PROVE Truth' /\ SentOnce'
  BY <1>16, IdleStep DEF SentinelDown, SentinelLearns, linkVars
<1>17. Truth' /\ SentOnce'
  BY <1>3, <1>4, <1>5, <1>6, <1>7, <1>8, <1>9, <1>10, <1>11, <1>12, <1>13, <1>15, <1>16
     DEF ConnNext, CallStep, CreateSentinelInner, Rediscover, Environment
<1> QED BY <1>1, <1>17 DEF Honest

LEMMA HonestInit ==
  ASSUME ConnInit
  PROVE  Honest
<1>1. Types
  BY Constants, ConnAssumption DEF ConnInit, Types, Answers, Slots
<1>2. Stage
  BY Constants DEF ConnInit, Stage, StageOf, Slots
<1>3. \A c \in Conn : DOMAIN queue[c] = {}
  BY DEF ConnInit
<1>4. Truth
  BY <1>3 DEF ConnInit, Truth, TruthOf, Clear, Unsure, Unsent, One, Only
<1>5. SentOnce
  BY <1>3 DEF ConnInit, SentOnce, SentOf, Sent, Owed, UpTo, Queued, Distinct
<1> QED BY <1>1, <1>2, <1>4, <1>5 DEF Honest

LEMMA HonestIdle ==
  ASSUME Honest, UNCHANGED connVars
  PROVE  Honest'
<1>1. Types' /\ Stage'
  BY DEF Honest, connVars, Types, Stage, StageOf, Slot
<1>2. UNCHANGED <<pc, attempt, pos, named, first, res, queue, applied>>
  BY DEF connVars
<1>3. Truth' /\ SentOnce'
  BY <1>2, IdleStep
<1> QED BY <1>1, <1>3 DEF Honest

LEMMA HonestAlways == ConnSpec => []Honest
  BY HonestInit, HonestStep, HonestIdle, PTL DEF ConnSpec

(* Every variable has its type; in particular a command is never executed     *)
(* more than twice: once for each attempt of dispatch_cmd!.                   *)
THEOREM TypeCorrect == ConnSpec => []ConnTypeOK
<1>1. ASSUME Honest PROVE ConnTypeOK
  <2>1. applied \in [Call -> 0..2]
    <3>1. ASSUME NEW k \in Call PROVE applied[k] \in 0..2
      <4>1. Sent(k) \in 0..2 /\ Owed(k) \in 0..2 /\ applied[k] \in Nat
        BY <1>1, SentFacts, OwedFacts DEF Honest, Types
      <4>2. applied[k] + Owed(k) <= Sent(k)
        BY <1>1 DEF Honest, SentOnce, SentOf
      <4> QED BY <4>1, <4>2
    <3> QED BY <1>1, <3>1 DEF Honest, Types
  <2> QED BY <1>1, <2>1 DEF Honest, Types, ConnTypeOK, Entries
<1> QED BY <1>1, HonestAlways, PTL

(* What a call returns is what happened to its command: dispatch_cmd! reports *)
(* "ok" only for a command that was executed, an error reply for one that was *)
(* not, and only an attempt that ended with a connection error leaves more    *)
(* executions than the caller knows of.                                       *)
THEOREM CallersHearTheTruth == ConnSpec => []TellsTheTruth
<1>1. ASSUME Honest PROVE TellsTheTruth
  BY <1>1 DEF Honest, Truth, TruthOf, Clear, Unsure, TellsTheTruth
<1> QED BY <1>1, HonestAlways, PTL

-----------------------------------------------------------------------------
(* The promise to each caller. *)

(* Nobody waits for an answer that cannot come.                               *)
WaitedOf(k) == pc[k] = "waiting" => Queued(k, attempt[k])

Waited == \A k \in Call : WaitedOf(k)

\* The state of call k in CommandCall, and a step of it.
Of(k) == [tries |-> Sent(k), flight |-> Owed(k), executed |-> applied[k],
          unsure |-> Unsure(k), answer |-> Told(k)]

Moves(k) == Of(k)' = Of(k) \/ Promise!Step(Of(k), Of(k)')

LEMMA OfFacts ==
  ASSUME Types, Stage, NEW k \in Call
  PROVE  /\ Sent(k) \in 0..2 /\ Owed(k) \in 0..2 /\ applied[k] \in Nat
         /\ attempt[k] \in 0..2 /\ Unsure(k) \in BOOLEAN
         /\ Told(k) \in {"none", "ok", "refused", "failed"}
         /\ pc[k] # "done" => Told(k) = "none"
<1>1. res[k] \in Answers
  BY DEF Types
<1>2. Told(k) \in {"none", "ok", "refused", "failed"}
  BY <1>1 DEF Told, Answers
<1>3. pc[k] # "done" => Told(k) = "none"
  BY DEF Stage, StageOf, Told
<1>4. Sent(k) \in 0..2 /\ Owed(k) \in 0..2 /\ attempt[k] \in 0..2 /\ applied[k] \in Nat
  BY SentFacts, OwedFacts DEF Types
<1> QED BY <1>2, <1>3, <1>4 DEF Unsure

\* What is in flight of a call that missed no answer.
LEMMA ClearOwed ==
  ASSUME Types, Stage, NEW k \in Call, TruthOf(k), ~Unsure(k)
  PROVE  /\ pc[k] # "waiting" => Unsent(k) /\ Owed(k) = 0
         /\ pc[k] = "waiting" => \A a \in 1..2 : Queued(k, a) => a = attempt[k]
<1>1. Only(k, attempt[k]) /\ (pc[k] # "waiting" => Unsent(k))
  BY DEF TruthOf, Clear
<1>2. Unsent(k) => Owed(k) = 0
  BY DEF Unsent, Owed, Queued
<1>3. \A a \in 1..2 : Queued(k, a) => a = attempt[k]
  BY <1>1 DEF Queued, Only
<1> QED BY <1>1, <1>2, <1>3

\* The step is not about call k: none of its tries is still waited for, or it
\* is still under way.
LEMMA StandsBy ==
  ASSUME Types, Stage, NEW k \in Call, Kept(k), SameCall(k), TruthOf(k), WaitedOf(k), WaitedOf(k)',
         applied'[k] = applied[k]
  PROVE  Moves(k)
<1>1. Sent(k)' = Sent(k) /\ Unsure(k)' = Unsure(k) /\ Told(k)' = Told(k)
  BY DEF Sent, SameCall, Unsure, Told
<1>2. /\ Sent(k) \in 0..2 /\ Owed(k) \in 0..2 /\ applied[k] \in Nat
      /\ Owed(k)' \in 0..Owed(k)
  BY OfFacts, OwedFacts
<1>3. CASE Unsure(k)
  <2>1. Promise!Late(Of(k), Of(k)')
    BY <1>1, <1>2, <1>3 DEF Of, Promise!Late, Promise!Fewer
  <2> QED BY <2>1 DEF Moves, Promise!Step
<1>4. CASE ~Unsure(k)
  <2>1. CASE pc[k] # "waiting"
    <3>1. Owed(k) = 0
      BY <1>4, <2>1, ClearOwed
    <3>2. Owed(k)' = 0
      BY <1>2, <3>1
    <3> QED BY <1>1, <3>1, <3>2 DEF Moves, Of
  <2>2. CASE pc[k] = "waiting"
    <3>1. \A a \in 1..2 : Queued(k, a) => a = attempt[k]
      BY <1>4, <2>2, ClearOwed
    <3>2. \A a \in 1..2 : Queued(k, a)' => Queued(k, a)
      BY DEF Kept
    <3>3. Queued(k, attempt[k]) /\ Queued(k, attempt[k])'
      BY <2>2 DEF WaitedOf, SameCall
    <3>4. attempt[k] \in {1, 2} /\ attempt'[k] = attempt[k]
      BY <2>2 DEF Stage, StageOf, SameCall
    <3>5. \A a \in 1..2 : Queued(k, a)' <=> Queued(k, a)
      BY <3>1, <3>2, <3>3, <3>4
    <3>6. Owed(k)' = Owed(k)
      BY <3>5 DEF Owed
    <3> QED BY <1>1, <3>6 DEF Moves, Of
  <2> QED BY <2>1, <2>2
<1> QED BY <1>3, <1>4

\* Call k goes on by itself; if that ends it, there was nothing to try it on.
LEMMA GoesOn ==
  ASSUME Types, Stage, NEW k \in Call, Own(k), TruthOf(k), queue' = queue, applied' = applied,
         attempt'[k] \in 0..2, res'[k] # res[k] => attempt'[k] < 2
  PROVE  Moves(k)
<1>1. /\ Sent(k) \in 0..2 /\ Sent(k)' = Sent(k) /\ Owed(k)' = Owed(k) /\ applied[k] \in Nat
      /\ Owed(k) \in 0..2
  BY OfFacts DEF Own, Owed, Queued
<1>2. pc[k] \notin {"waiting", "done"} /\ res[k] = "none" /\ Told(k) = "none"
  BY OfFacts DEF Own, Stage, StageOf
<1>3. CASE res'[k] = res[k]
  BY <1>1, <1>2, <1>3 DEF Own, Moves, Of, Unsure, Told
<1>4. CASE res'[k] # res[k]
  <2>1. res'[k] = "Io" /\ first'[k] = first[k] /\ attempt'[k] < 2
    BY <1>4 DEF Own
  <2>2. Told(k)' = "failed" /\ Unsure(k)' = Unsure(k)
    BY <1>2, <2>1 DEF Told, Unsure
  <2>3. Sent(k) < 2
    <3>1. Sent(k)' <= attempt'[k]
      BY DEF Sent
    <3> QED BY <1>1, <2>1, <3>1
  <2>4. Owed(k) = 0 \/ Unsure(k)
    BY <1>2, ClearOwed
  <2>5. Promise!GiveUp(Of(k), Of(k)')
    BY <1>1, <1>2, <2>2, <2>3, <2>4 DEF Of, Promise!GiveUp, Promise!Free, Promise!Open
  <2> QED BY <2>5 DEF Moves, Promise!Step
<1> QED BY <1>3, <1>4

\* Call k writes an attempt.
LEMMA TriesIt ==
  ASSUME Types, Stage, NEW k \in Call, TruthOf(k), pc[k] = "send", pc'[k] = "waiting",
         attempt' = attempt, first' = first, res' = res, applied' = applied,
         Owed(k)' = Owed(k) + 1
  PROVE  Moves(k)
<1>1. /\ Sent(k) \in 0..2 /\ Owed(k) \in 0..2 /\ applied[k] \in Nat /\ Told(k) = "none"
      /\ attempt[k] \in {1, 2} /\ Sent(k) = attempt[k] - 1 /\ Sent(k)' = attempt[k]
  BY OfFacts DEF Stage, StageOf, Sent
<1>2. Told(k)' = Told(k) /\ Unsure(k)' = Unsure(k)
  BY DEF Told, Unsure
<1>3. Owed(k) = 0 \/ Unsure(k)
  BY ClearOwed
<1>4. Promise!Try(Of(k), Of(k)')
  BY <1>1, <1>2, <1>3 DEF Of, Promise!Try, Promise!Free, Promise!Open
<1> QED BY <1>4 DEF Moves, Promise!Step

\* What a connection error leaves the call with.
LEMMA IoFacts ==
  ASSUME Types, Stage, NEW k \in Call, Answered(k, "Io"), pc[k] \in {"send", "waiting"}
  PROVE  /\ Unsure(k)' /\ Sent(k)' = attempt[k] /\ attempt[k] \in {1, 2} /\ Told(k) = "none"
         /\ Told(k)' = "failed" \/ (Told(k)' = "none" /\ attempt[k] = 1)
<1>1. attempt[k] \in {1, 2} /\ res[k] = "none" /\ Told(k) = "none"
  BY OfFacts DEF Stage, StageOf
<1>2. /\ attempt'[k] = attempt[k] /\ (attempt[k] = 1 => first'[k] = "Io")
      /\ \/ pc'[k] = "ask" /\ res'[k] = "none" /\ attempt[k] = 1
         \/ pc'[k] = "done" /\ res'[k] = "Io"
  BY <1>1 DEF Answered
<1>3. Told(k)' = "failed" \/ (Told(k)' = "none" /\ attempt[k] = 1)
  BY <1>2 DEF Told
<1>4. Unsure(k)' /\ Sent(k)' = attempt[k]
  BY <1>1, <1>2 DEF Unsure, Sent
<1> QED BY <1>1, <1>3, <1>4

\* The connection it would write on turns out to be dead.
LEMMA TriesInVain ==
  ASSUME Types, Stage, NEW k \in Call, TruthOf(k), pc[k] = "send", Answered(k, "Io"),
         queue' = queue, applied' = applied
  PROVE  Moves(k)
<1>1. /\ Sent(k) \in 0..2 /\ Owed(k) \in 0..2 /\ applied[k] \in Nat /\ Owed(k)' = Owed(k)
      /\ Sent(k) = attempt[k] - 1
  BY OfFacts DEF Sent, Owed, Queued
<1>2. Owed(k) = 0 \/ Unsure(k)
  BY ClearOwed
<1>3. Promise!TryInVain(Of(k), Of(k)')
  BY <1>1, <1>2, IoFacts DEF Of, Promise!TryInVain, Promise!Free, Promise!Open, Promise!Unanswered
<1> QED BY <1>3 DEF Moves, Promise!Step

\* The attempt it waits for ends with a connection error, and may have been
\* executed.
LEMMA MissesIt ==
  ASSUME Types, Stage, NEW k \in Call, WaitedOf(k), pc[k] = "waiting", Answered(k, "Io"),
         Owed(k)' \in 0..2, NEW d \in {0, 1}, applied'[k] = applied[k] + d,
         Owed(k)' + d <= Owed(k)
  PROVE  Moves(k)
<1>1. /\ Owed(k) \in 0..2 /\ applied[k] \in Nat /\ Sent(k) = attempt[k]
  BY OfFacts DEF Sent
<1>2. Owed(k) > 0
  BY IoFacts DEF WaitedOf, Owed
<1>3. Promise!Miss(Of(k), Of(k)')
  BY <1>1, <1>2, IoFacts DEF Of, Promise!Miss, Promise!Fewer, Promise!Open, Promise!Unanswered
<1> QED BY <1>3 DEF Moves, Promise!Step

\* The server answers it.
LEMMA HearsIt ==
  ASSUME Types, Stage, NEW k \in Call, pc[k] = "waiting",
         NEW a \in {"ok", "refused", "BusyLoading", "ReadOnly"}, Answered(k, a),
         applied'[k] = applied[k] + IF a = "ok" THEN 1 ELSE 0,
         Owed(k)' \in 0..2, Owed(k)' < Owed(k)
  PROVE  Moves(k)
<1>1. /\ Owed(k) \in 0..2 /\ applied[k] \in Nat /\ Sent(k) = attempt[k] /\ Told(k) = "none"
      /\ attempt[k] \in {1, 2} /\ res[k] = "none" /\ (attempt[k] = 1 => first[k] = "none")
  BY OfFacts DEF Sent, Stage, StageOf
<1>2. /\ attempt'[k] = attempt[k] /\ first'[k] = (IF attempt[k] = 1 THEN a ELSE first[k])
      /\ \/ pc'[k] = "ask" /\ res'[k] = "none" /\ attempt[k] = 1 /\ a # "ok"
         \/ pc'[k] = "done" /\ res'[k] = a
  BY <1>1 DEF Answered
<1>3. Sent(k)' = Sent(k) /\ Unsure(k)' = Unsure(k)
  BY <1>1, <1>2 DEF Sent, Unsure
<1>4. CASE a = "ok"
  <2>1. Told(k)' = "ok"
    BY <1>2, <1>4 DEF Told
  <2>2. Promise!Succeed(Of(k), Of(k)')
    BY <1>1, <1>3, <1>4, <2>1 DEF Of, Promise!Succeed, Promise!Open
  <2> QED BY <2>2 DEF Moves, Promise!Step
<1>5. CASE a # "ok"
  <2>1. Told(k)' = "refused" \/ (Told(k)' = "none" /\ attempt[k] = 1)
    BY <1>2, <1>5 DEF Told
  <2>2. Promise!Refuse(Of(k), Of(k)')
    BY <1>1, <1>3, <1>5, <2>1 DEF Of, Promise!Refuse, Promise!Open, Promise!Unanswered
  <2> QED BY <2>2 DEF Moves, Promise!Step
<1> QED BY <1>4, <1>5

\* A try of call k that it does not wait for is worked off.
LEMMA WorkedOffLate ==
  ASSUME Types, Stage, NEW k \in Call, SameCall(k), Unsure(k),
         Owed(k)' \in 0..2, NEW d \in {0, 1}, applied'[k] = applied[k] + d,
         Owed(k)' + d <= Owed(k)
  PROVE  Moves(k)
<1>1. Sent(k)' = Sent(k) /\ Unsure(k)' = Unsure(k) /\ Told(k)' = Told(k)
  BY DEF Sent, SameCall, Unsure, Told
<1>2. Sent(k) \in 0..2 /\ Owed(k) \in 0..2 /\ applied[k] \in Nat
  BY OfFacts
<1>3. Promise!Late(Of(k), Of(k)')
  BY <1>1, <1>2 DEF Of, Promise!Late, Promise!Fewer
<1> QED BY <1>3 DEF Moves, Promise!Step

Promised == Waited' /\ \A k \in Call : Moves(k)

\* A step that is about none of the calls but k.
LEMMA OthersStand ==
  ASSUME Honest, Waited, Waited', NEW k, NEW j \in Call \ {k}, Kept(j), SameCall(j),
         applied'[j] = applied[j]
  PROVE  Moves(j)
BY StandsBy DEF Honest, Truth, Waited

\* The queues stay as they are, and so do the calls but k, which does not wait.
LEMMA WaitedOthers ==
  ASSUME Waited, NEW k, queue' = queue, \A j \in Call \ {k} : SameCall(j),
         k \in Call => pc'[k] # "waiting"
  PROVE  Waited'
BY DEF Waited, WaitedOf, SameCall, Queued

LEMMA IdlePromise ==
  ASSUME Honest, Waited, UNCHANGED <<pc, attempt, pos, named, first, res, queue, applied>>
  PROVE  Promised
<1>1. Waited'
  BY DEF Waited, WaitedOf, Queued
<1>2. \A k \in Call : SameCall(k) /\ applied'[k] = applied[k] /\ Kept(k)
  BY SameKept DEF SameCall
<1>3. ASSUME NEW k \in Call PROVE Moves(k)
  BY <1>1, <1>2, StandsBy DEF Honest, Truth, Waited
<1> QED BY <1>1, <1>3 DEF Promised

LEMMA OwnPromise ==
  ASSUME Honest, Waited, Types', NEW k \in Call, Own(k), \A j \in Call \ {k} : SameCall(j),
         UNCHANGED <<queue, applied>>, res'[k] # res[k] => attempt'[k] < 2
  PROVE  Promised
<1>1. Waited'
  BY WaitedOthers DEF Own
<1>2. \A j \in Call : Kept(j)
  BY SameKept
<1>3. attempt'[k] \in 0..2
  BY DEF Types
<1>4. Moves(k)
  BY <1>3, GoesOn DEF Honest, Truth
<1>5. ASSUME NEW j \in Call \ {k} PROVE Moves(j)
  BY <1>1, <1>2, OthersStand
<1> QED BY <1>1, <1>4, <1>5 DEF Promised

LEMMA LosePromise ==
  ASSUME Honest, Waited, NEW k \in Call, Dispatch({k}, "Io"), pc[k] \in {"send", "waiting"},
         UNCHANGED <<attempt, pos, named, queue, applied>>
  PROVE  Promised
<1>1. "Io" \in Answers \ {"none"} /\ {k} \in SUBSET Call
  BY DEF Answers
<1>2. Answered(k, "Io") /\ \A j \in Call \ {k} : SameCall(j)
  BY <1>1, DispatchFacts DEF Honest
<1>3. \A j \in Call : Kept(j)
  BY SameKept
<1>4. Waited'
  BY <1>2, WaitedOthers DEF Answered
<1>5. Owed(k)' = Owed(k) /\ Owed(k) \in 0..2 /\ applied[k] \in Nat
  BY OwedFacts DEF Owed, Queued, Honest, Types
<1>6. Moves(k)
  <2>1. CASE pc[k] = "send"
    BY <1>2, <2>1, TriesInVain DEF Honest, Truth
  <2>2. CASE pc[k] = "waiting"
    <3>1. applied'[k] = applied[k] + 0 /\ Owed(k)' + 0 <= Owed(k) /\ Owed(k)' \in 0..2
      BY <1>5
    <3> QED BY <1>2, <2>2, <3>1, MissesIt DEF Honest, Waited
  <2> QED BY <2>1, <2>2
<1>7. ASSUME NEW j \in Call \ {k} PROVE Moves(j)
  BY <1>2, <1>3, <1>4, OthersStand
<1> QED BY <1>4, <1>6, <1>7 DEF Promised

\* The first command of c is gone, with it one try of call k.
LEMMA OneLess ==
  ASSUME Honest, NEW k \in Call, NEW c \in Conn, NEW i \in 1..2, queue[c] # << >>,
         Head(queue[c]) = <<k, i>>, HeadGone(c), Kept(k)
  PROVE  /\ Owed(k)' \in 0..2 /\ Owed(k) \in 0..2 /\ Owed(k)' + 1 <= Owed(k)
         /\ ~Waits(k, i) => Unsure(k)
<1>1. 1 \in DOMAIN queue[c] /\ queue[c][1] = <<k, i>> /\ Queued(k, i) /\ ~Queued(k, i)'
  BY HeadFacts DEF Honest, SentOnce
<1>2. Owed(k)' \in 0..2 /\ Owed(k) \in 0..2 /\ Owed(k)' + 1 <= Owed(k)
  BY <1>1 DEF Owed, Kept
<1>3. ASSUME ~Waits(k, i), ~Unsure(k) PROVE FALSE
  <2>1. ~Unsent(k)
    BY <1>1 DEF Unsent
  <2>2. pc[k] = "waiting" /\ i = attempt[k]
    BY <1>1, <1>3, <2>1, ClearOwed DEF Honest, Truth
  <2> QED BY <1>3, <2>2 DEF Waits
<1> QED BY <1>2, <1>3

LEMMA BreakPromise ==
  ASSUME Honest, Waited, NEW C \in SUBSET Conn, NEW known, Break(C, known),
         UNCHANGED <<attempt, pos, named>>,
         \/ UNCHANGED applied
         \/ \E c \in C : /\ queue[c] # << >>
                         /\ applied' = [applied EXCEPT ![Head(queue[c])[1]] = @ + 1]
  PROVE  Promised
<1>1. /\ queue' = [c \in Conn |-> IF c \in C THEN << >> ELSE queue[c]]
      /\ Dispatch(Waiting(C), "Io") /\ Waiting(C) \in SUBSET Call
      /\ \A k \in Waiting(C) : pc[k] = "waiting"
  BY DEF Break, Waiting, Waits
<1>2. /\ \A k \in Call : Kept(k)
      /\ \A c \in Conn : \A i \in DOMAIN queue'[c] :
            c \notin C /\ i \in DOMAIN queue[c] /\ queue'[c][i] = queue[c][i]
  BY <1>1, BreakKept DEF Honest
<1>3. /\ \A k \in Call \ Waiting(C) : SameCall(k)
      /\ \A k \in Waiting(C) : Answered(k, "Io")
  <2>1. "Io" \in Answers \ {"none"}
    BY DEF Answers
  <2> QED BY <1>1, <2>1, DispatchFacts DEF Honest
<1>4. Waited'
  <2>1. ASSUME NEW k \in Call, pc'[k] = "waiting" PROVE Queued(k, attempt[k])'
    <3>1. k \notin Waiting(C) /\ SameCall(k)
      BY <1>3, <2>1 DEF Answered
    <3>2. PICK c \in Conn : \E i \in DOMAIN queue[c] : queue[c][i] = <<k, attempt[k]>>
      BY <2>1, <3>1 DEF Waited, WaitedOf, Queued, SameCall
    <3>3. c \notin C
      BY <2>1, <3>1, <3>2 DEF Waiting, Waits, SameCall
    <3>4. queue'[c] = queue[c]
      BY <1>1, <3>3
    <3> QED BY <3>1, <3>2, <3>4 DEF Queued, SameCall
  <2> QED BY <2>1 DEF Waited, WaitedOf
<1>5. ASSUME NEW k \in Call PROVE Moves(k)
  <2>0. Owed(k)' \in 0..Owed(k) /\ Owed(k) \in 0..2 /\ applied[k] \in Nat
    BY <1>2, OwedFacts DEF Honest, Types
  <2>1. CASE applied'[k] = applied[k]
    <3>1. CASE k \in Waiting(C)
      <4>1. applied'[k] = applied[k] + 0 /\ Owed(k)' + 0 <= Owed(k) /\ Owed(k)' \in 0..2
        BY <2>0, <2>1
      <4> QED BY <1>1, <1>3, <3>1, <4>1, MissesIt DEF Honest, Waited
    <3>2. CASE k \notin Waiting(C)
      BY <1>2, <1>3, <1>4, <2>1, <3>2, StandsBy DEF Honest, Truth, Waited
    <3> QED BY <3>1, <3>2
  <2>2. CASE applied'[k] # applied[k]
    <3>1. PICK c \in C : /\ queue[c] # << >>
                         /\ applied' = [applied EXCEPT ![Head(queue[c])[1]] = @ + 1]
      BY <2>2
    <3>2. Head(queue[c]) \in Entries
      <4>1. queue[c] \in Seq(Entries)
        BY DEF Honest, Types
      <4> QED BY <3>1, <4>1
    <3>3. PICK i \in 1..2 : Head(queue[c]) = <<k, i>>
      <4>1. Head(queue[c])[1] = k
        BY <2>2, <3>1 DEF Honest, Types
      <4> QED BY <3>2, <4>1 DEF Entries
    <3>4. applied'[k] = applied[k] + 1
      BY <3>1, <3>3 DEF Honest, Types
    <3>5. HeadGone(c)
      BY <1>2 DEF HeadGone
    <3>6. Owed(k)' \in 0..2 /\ Owed(k)' + 1 <= Owed(k) /\ (~Waits(k, i) => Unsure(k))
      BY <1>2, <3>1, <3>3, <3>5, OneLess
    <3>7. CASE k \in Waiting(C)
      BY <1>1, <1>3, <3>4, <3>6, <3>7, MissesIt DEF Honest, Waited
    <3>8. CASE k \notin Waiting(C)
      <4>1. ~Waits(k, i)
        <5>1. 1 \in DOMAIN queue[c] /\ queue[c][1] = <<k, i>>
          BY <3>1, <3>3, <3>5, HeadFacts DEF Honest
        <5> QED BY <3>8, <5>1 DEF Waiting, Waits
      <4> QED BY <1>3, <3>4, <3>6, <3>8, <4>1, WorkedOffLate DEF Honest
    <3> QED BY <3>7, <3>8
  <2> QED BY <2>1, <2>2
<1> QED BY <1>4, <1>5 DEF Promised

LEMMA ServePromise ==
  ASSUME Honest, Waited, NEW c \in Conn, Serve(c)
  PROVE  Promised
<1>1. queue[c] # << >> /\ queue' = [queue EXCEPT ![c] = Tail(queue[c])]
      /\ UNCHANGED <<attempt, pos, named>>
  BY DEF Serve
<1>2. PICK k \in Call, i \in 1..2 : Head(queue[c]) = <<k, i>>
  <2>1. Head(queue[c]) \in Entries
    BY <1>1, TailFacts DEF Honest
  <2> QED BY <2>1 DEF Entries
<1>3. PICK a \in Replies(target[c]) :
         /\ applied' = [applied EXCEPT ![k] = @ + IF a = "ok" THEN 1 ELSE 0]
         /\ Dispatch({j \in {k} : Waits(k, i)}, a)
  <2>1. Head(queue[c])[1] = k /\ Head(queue[c])[2] = i
    BY <1>2
  <2>2. PICK a \in Replies(target[c]) :
           /\ applied' = [applied EXCEPT ![Head(queue[c])[1]] = @ + IF a = "ok" THEN 1 ELSE 0]
           /\ Dispatch({j \in {Head(queue[c])[1]} : Waits(Head(queue[c])[1], Head(queue[c])[2])}, a)
    BY DEF Serve
  <2> QED BY <2>1, <2>2
<1>4. /\ a \in {"ok", "refused", "BusyLoading", "ReadOnly"} /\ a \in Answers \ {"none"}
      /\ {j \in {k} : Waits(k, i)} \in SUBSET Call
  BY RepliesFacts DEF Answers
<1>5. /\ \A j \in Call \ {k} : SameCall(j)
      /\ Waits(k, i) => Answered(k, a)
      /\ ~Waits(k, i) => SameCall(k)
  BY <1>1, <1>3, <1>4, DispatchFacts DEF Honest
<1>6. (\A j \in Call : Kept(j)) /\ HeadGone(c)
  BY <1>1, TailKept DEF HeadGone, Honest
<1>7. /\ \A j \in Call \ {k} : applied'[j] = applied[j]
      /\ applied'[k] = applied[k] + IF a = "ok" THEN 1 ELSE 0
  BY <1>3 DEF Honest, Types
<1>8. Waited'
  <2>1. ASSUME NEW j \in Call, pc'[j] = "waiting" PROVE Queued(j, attempt[j])'
    <3>1. SameCall(j) /\ ~(j = k /\ attempt[j] = i)
      BY <1>5, <2>1 DEF Answered, Waits, SameCall
    <3>2. PICK d \in Conn : \E n \in DOMAIN queue[d] : queue[d][n] = <<j, attempt[j]>>
      BY <2>1, <3>1 DEF Waited, WaitedOf, Queued, SameCall
    <3>3. PICK n \in DOMAIN queue[d] : queue[d][n] = <<j, attempt[j]>>
      BY <3>2
    <3>4. CASE d # c
      BY <1>1, <3>1, <3>2, <3>4 DEF Queued, SameCall, Honest, Types
    <3>5. CASE d = c
      <4>1. n # 1
        <5>1. queue[c][1] = <<k, i>>
          BY <1>1, <1>2, TailFacts DEF Honest
        <5> QED BY <3>1, <3>3, <3>5, <5>1
      <4>2. queue[c] \in Seq(Entries) /\ queue'[c] = Tail(queue[c])
        BY <1>1 DEF Honest, Types
      <4>3. n \in 1..Len(queue[c]) /\ Len(queue[c]) \in Nat
        BY <3>3, <3>5, <4>2
      <4>4. n - 1 \in DOMAIN queue'[c] /\ queue'[c][n - 1] = queue[c][n]
        <5>1. /\ n - 1 \in 1..(Len(queue[c]) - 1) /\ Len(Tail(queue[c])) = Len(queue[c]) - 1
              /\ Tail(queue[c]) \in Seq(Entries)
          BY <1>1, <4>1, <4>2, <4>3
        <5>2. n - 1 \in DOMAIN Tail(queue[c])
          BY <5>1
        <5>3. Tail(queue[c])[n - 1] = queue[c][n]
          BY <4>1, <4>2, <4>3, <5>1
        <5> QED BY <4>2, <5>2, <5>3
      <4> QED BY <3>1, <3>3, <3>5, <4>4 DEF Queued, SameCall
    <3> QED BY <3>4, <3>5
  <2> QED BY <2>1 DEF Waited, WaitedOf
<1>9. Owed(k)' \in 0..2 /\ Owed(k) \in 0..2 /\ Owed(k)' + 1 <= Owed(k)
      /\ (~Waits(k, i) => Unsure(k))
  BY <1>1, <1>2, <1>6, OneLess
<1>10. Moves(k)
  <2>1. CASE Waits(k, i)
    <3>1. pc[k] = "waiting" /\ Owed(k)' < Owed(k)
      BY <1>9, <2>1 DEF Waits
    <3> QED BY <1>4, <1>5, <1>7, <1>9, <2>1, <3>1, HearsIt DEF Honest
  <2>2. CASE ~Waits(k, i)
    <3> DEFINE d == IF a = "ok" THEN 1 ELSE 0
    <3>1. d \in {0, 1} /\ applied'[k] = applied[k] + d /\ Owed(k)' + d <= Owed(k)
      BY <1>7, <1>9
    <3> HIDE DEF d
    <3> QED BY <1>5, <1>9, <2>2, <3>1, WorkedOffLate DEF Honest
  <2> QED BY <2>1, <2>2
<1>11. ASSUME NEW j \in Call \ {k} PROVE Moves(j)
  BY <1>5, <1>6, <1>7, <1>8, OthersStand
<1> QED BY <1>8, <1>10, <1>11 DEF Promised

LEMMA SendPromise ==
  ASSUME Honest, Waited, NEW k \in Call, Send(k)
  PROVE  Promised
<1> DEFINE c == cell[Slot(k)]
<1>1. c \in Conn /\ pc[k] = "send" /\ attempt[k] \in 1..2 /\ StageOf(k)
  <2>1. Slot(k) \in Slots
    BY DEF Slot, Slots
  <2> QED BY <2>1 DEF Honest, Types, Stage, StageOf, Send
<1>2. CASE c \in broken \/ status[target[c]] = "down"
  BY <1>1, <1>2, LosePromise DEF Send
<1>3. CASE ~(c \in broken \/ status[target[c]] = "down")
  <2>1. /\ queue' = [queue EXCEPT ![c] = Append(queue[c], <<k, attempt[k]>>)]
        /\ Goto(k, "waiting")
        /\ UNCHANGED <<broken, first, res, attempt, applied, pos, named>>
    BY <1>3 DEF Send
  <2> HIDE DEF c
  <2>2. pc'[k] = "waiting" /\ \A j \in Call \ {k} : SameCall(j)
    BY <2>1 DEF Honest, Types, Goto, SameCall
  <2>3. <<k, attempt[k]>> \in Entries
    BY <1>1 DEF Entries
  <2>4. /\ \A d \in Conn \ {c} : queue'[d] = queue[d]
        /\ DOMAIN queue'[c] = DOMAIN queue[c] \cup {Len(queue[c]) + 1}
        /\ \A i \in DOMAIN queue[c] : queue'[c][i] = queue[c][i]
        /\ queue'[c][Len(queue[c]) + 1] = <<k, attempt[k]>>
    BY <1>1, <2>1, <2>3, AppendFacts DEF Honest
  <2>5. \A j, b : Queued(j, b) => \E d \in Conn : \E n \in DOMAIN queue'[d] : queue'[d][n] = <<j, b>>
    BY <2>4 DEF Queued
  <2>6. Queued(k, attempt[k])'
    BY <1>1, <2>1, <2>4 DEF Queued
  <2>7. Waited'
    <3>1. ASSUME NEW j \in Call \ {k}, pc'[j] = "waiting" PROVE Queued(j, attempt[j])'
      <4>1. Queued(j, attempt[j]) /\ attempt'[j] = attempt[j]
        BY <2>2, <3>1 DEF Waited, WaitedOf, SameCall
      <4>2. \E d \in Conn : \E n \in DOMAIN queue'[d] : queue'[d][n] = <<j, attempt'[j]>>
        BY <2>5, <4>1
      <4> QED BY <4>2 DEF Queued
    <3> QED BY <2>6, <3>1 DEF Waited, WaitedOf
  <2>8. /\ \A j \in Call \ {k} : Kept(j)
        /\ \A b \in 1..2 : Queued(k, b)' => Queued(k, b) \/ b = attempt[k]
        /\ UpTo(k, attempt[k] - 1) => ~Queued(k, attempt[k])
    BY <1>1, <2>1, AppendKept DEF Honest
  <2>9. UpTo(k, attempt[k] - 1)
    BY <1>1 DEF Honest, SentOnce, SentOf, Sent
  <2>10. Owed(k)' = Owed(k) + 1
    <3>1. ASSUME NEW b \in 1..2, Queued(k, b) PROVE Queued(k, b)'
      <4>1. \E d \in Conn : \E n \in DOMAIN queue'[d] : queue'[d][n] = <<k, b>>
        BY <2>5, <3>1
      <4> QED BY <4>1 DEF Queued
    <3>2. \A b \in 1..2 : Queued(k, b)' <=> (Queued(k, b) \/ b = attempt[k])
      <4>1. ASSUME NEW b \in 1..2, b = attempt[k] PROVE Queued(k, b)'
        BY <2>1, <2>6, <4>1 DEF Queued
      <4> HIDE DEF Queued
      <4>2. \A b \in 1..2 : Queued(k, b)' => (Queued(k, b) \/ b = attempt[k])
        BY <2>8
      <4> QED BY <3>1, <4>1, <4>2
    <3> QED BY <1>1, <2>8, <2>9, <3>2 DEF Owed
  <2>11. Moves(k)
    BY <1>1, <2>1, <2>2, <2>10, TriesIt DEF Honest, Truth
  <2>12. ASSUME NEW j \in Call \ {k} PROVE Moves(j)
    BY <2>1, <2>2, <2>7, <2>8, OthersStand
  <2> QED BY <2>7, <2>11, <2>12 DEF Promised
<1> QED BY <1>2, <1>3

LEMMA PromiseStep ==
  ASSUME Honest, Waited, ConnNext
  PROVE  Promised
<1>1. Types' /\ Types /\ \A k \in Call : StageOf(k)
  BY TypesStep DEF Honest, Stage
<1>2. ASSUME NEW k \in Call, Issue(k) PROVE Promised
  <2>1. Own(k) /\ res' = res /\ \A j \in Call \ {k} : SameCall(j)
    BY <1>1, <1>2 DEF Types, StageOf, Issue, Goto, Own, SameCall, Sent
  <2> QED BY <1>1, <1>2, <2>1, OwnPromise DEF Issue, linkVars
<1>3. ASSUME NEW k \in Call, GetBlocking(k) PROVE Promised
  <2>1. Own(k) /\ res' = res /\ \A j \in Call \ {k} : SameCall(j)
    BY <1>1, <1>3 DEF Types, StageOf, GetBlocking, Goto, Own, SameCall, Sent
  <2> QED BY <1>1, <1>3, <2>1, OwnPromise DEF GetBlocking, linkVars
<1>4. ASSUME NEW k \in Call, Walk(k) PROVE Promised
  <2>1. Own(k) /\ \A j \in Call \ {k} : SameCall(j)
    BY <1>1, <1>4 DEF Types, StageOf, Walk, Return, Goto, Own, SameCall, Sent
  <2>2. attempt' = attempt /\ attempt[k] \in {0, 1}
    BY <1>1, <1>4 DEF StageOf, Walk
  <2> QED BY <1>1, <1>4, <2>1, <2>2, OwnPromise DEF Walk, linkVars
<1>o. ASSUME NEW k \in Call, NEW c \in Conn, pc[k] = "connect", OpenTo(k, c),
             c[2] = "built" => attempt[k] = 0, UNCHANGED <<named, first>>,
             \A j \in Call \ {k} : pos'[j] = pos[j]
      PROVE  /\ Own(k) /\ \A j \in Call \ {k} : SameCall(j)
             /\ attempt'[k] < 2
  <2>1. attempt[k] \in {0, 1} /\ res[k] = "none"
    BY <1>1, <1>o DEF StageOf
  <2>2. CASE status[named[k]] = "down"
    <3>1. Return(k, "Io") /\ attempt' = attempt
      BY <1>o, <2>2 DEF OpenTo
    <3> QED BY <1>1, <1>o, <2>1, <3>1 DEF Types, Return, Goto, Own, SameCall, Sent
  <2>3. CASE status[named[k]] # "down" /\ c[2] = "built"
    <3>1. attempt' = [attempt EXCEPT ![k] = 1] /\ Goto(k, "send") /\ res' = res /\ attempt[k] = 0
      BY <1>o, <2>3 DEF OpenTo
    <3> QED BY <1>1, <1>o, <3>1 DEF Types, Goto, Own, SameCall, Sent
  <2>4. CASE status[named[k]] # "down" /\ c[2] # "built"
    <3>1. attempt' = attempt /\ Goto(k, "swap") /\ res' = res
      BY <1>o, <2>4 DEF OpenTo
    <3> QED BY <1>1, <1>o, <2>1, <3>1 DEF Types, Goto, Own, SameCall, Sent
  <2> QED BY <2>2, <2>3, <2>4
<1>5. ASSUME NEW k \in Call, BuildBlocking(k) PROVE Promised
  <2>1. <<k, "built">> \in Conn /\ <<k, "built">>[2] = "built"
    BY Constants
  <2>2. Own(k) /\ (\A j \in Call \ {k} : SameCall(j)) /\ attempt'[k] < 2
    BY <1>1, <1>5, <1>o, <2>1 DEF Types, BuildBlocking
  <2> QED BY <1>1, <1>5, <2>2, OwnPromise DEF BuildBlocking
<1>6. ASSUME NEW k \in Call, ConnectNamed(k) PROVE Promised
  <2>1. <<k, "fresh">> \in Conn /\ <<k, "fresh">>[2] = "fresh"
    BY Constants
  <2>2. Own(k) /\ (\A j \in Call \ {k} : SameCall(j)) /\ attempt'[k] < 2
    BY <1>1, <1>6, <1>o, <2>1 DEF Types, ConnectNamed
  <2> QED BY <1>1, <1>6, <2>2, OwnPromise DEF ConnectNamed
<1>7. ASSUME NEW k \in Call, Swap(k) PROVE Promised
  <2>1. Own(k) /\ res' = res /\ \A j \in Call \ {k} : SameCall(j)
    BY <1>1, <1>7 DEF Types, StageOf, Swap, Goto, Own, SameCall, Sent
  <2> QED BY <1>1, <1>7, <2>1, OwnPromise DEF Swap, linkVars
<1>8. ASSUME NEW k \in Call, ResponseTimeout(k) PROVE Promised
  BY <1>8, LosePromise DEF ResponseTimeout, linkVars
<1>9. ASSUME NEW c \in Conn, Drop(c) PROVE Promised
  <2>1. PICK known : Break({c}, known)
    BY <1>9 DEF Drop
  <2>2. \/ UNCHANGED applied
        \/ \E d \in {c} : /\ queue[d] # << >>
                          /\ applied' = [applied EXCEPT ![Head(queue[d])[1]] = @ + 1]
    BY <1>9 DEF Drop
  <2>3. UNCHANGED <<attempt, pos, named>> /\ {c} \in SUBSET Conn
    BY <1>9 DEF Drop
  <2> QED BY <2>1, <2>2, <2>3, BreakPromise
<1>10. ASSUME NEW n \in Node, NodeDown(n) PROVE Promised
  <2>1. Break({c \in Conn : target[c] = n}, {}) /\ UNCHANGED <<attempt, pos, named, applied>>
    BY <1>10 DEF NodeDown
  <2> QED BY <2>1, BreakPromise
<1>11. ASSUME NEW n \in Node, Failover(n) \/ NodeUp(n) PROVE Promised
  BY <1>11, IdlePromise DEF Failover, NodeUp, linkVars
<1>12. ASSUME NEW s \in DOMAIN view, SentinelDown(s) \/ SentinelLearns(s) PROVE Promised
  BY <1>12, IdlePromise DEF SentinelDown, SentinelLearns, linkVars
<1> QED BY <1>2, <1>3, <1>4, <1>5, <1>6, <1>7, <1>8, <1>9, <1>10, <1>11, <1>12, SendPromise, ServePromise
       DEF ConnNext, CallStep, CreateSentinelInner, Rediscover, Environment

\* The calls are in states that CommandCall knows.
LEMMA OfType == Honest => \A k \in Call : Of(k) \in Promise!States
<1> SUFFICES ASSUME Honest, NEW k \in Call PROVE Of(k) \in Promise!States
  OBVIOUS
<1>1. /\ Sent(k) \in 0..2 /\ Owed(k) \in 0..2 /\ applied[k] \in Nat
      /\ Unsure(k) \in BOOLEAN /\ Told(k) \in {"none", "ok", "refused", "failed"}
  BY OfFacts DEF Honest
<1>2. applied[k] \in 0..2
  BY <1>1 DEF Honest, SentOnce, SentOf
<1> QED BY <1>1, <1>2 DEF Of, Promise!States

LEMMA WaitedAlways == ConnSpec => []Waited
<1>1. ConnInit => Waited
  BY DEF ConnInit, Waited, WaitedOf
<1>2. Honest /\ Waited /\ [ConnNext]_connVars => Waited'
  <2>1. ASSUME Honest, Waited, UNCHANGED connVars PROVE Waited'
    BY <2>1, IdlePromise DEF connVars, Promised
  <2> QED BY <2>1, PromiseStep DEF Promised
<1> QED BY <1>1, <1>2, HonestAlways, PTL DEF ConnSpec

(* Every call keeps the promise of CommandCall through dispatch_cmd! and      *)
(* sentinel_retry, with any number of calls on the connection and any faults. *)
THEOREM Refinement == ConnSpec => ImplementsCall
<1> DEFINE all == [k \in Call |-> [tries |-> Sent(k), flight |-> Owed(k), executed |-> applied[k],
                                   unsure |-> Unsure(k), answer |-> Told(k)]]
<1>1. ConnInit => Promise!Init
  <2>1. ASSUME ConnInit, NEW k \in Call
        PROVE  /\ Sent(k) = 0 /\ Owed(k) = 0 /\ applied[k] = 0
               /\ Unsure(k) = FALSE /\ Told(k) = "none"
    <3>1. pc[k] = "new" /\ attempt[k] = 0 /\ first[k] = "none" /\ res[k] = "none" /\ applied[k] = 0
      BY <2>1 DEF ConnInit
    <3>2. \A c \in Conn : DOMAIN queue[c] = {}
      BY <2>1 DEF ConnInit
    <3>3. Owed(k) = 0
      BY <3>2 DEF Owed, Queued
    <3>4. Told(k) = "none" /\ Sent(k) = 0 /\ ~Unsure(k)
      BY <3>1 DEF Told, Sent, Unsure
    <3> QED BY <3>1, <3>3, <3>4
  <2> QED BY <2>1 DEF Promise!Init
<1>2. Honest /\ Honest' /\ Waited /\ [ConnNext]_connVars => [Promise!Next]_all
  <2> SUFFICES ASSUME Honest, Honest', Waited, [ConnNext]_connVars PROVE Promise!Next
    OBVIOUS
  <2>1. Promised
    <3>1. CASE UNCHANGED connVars
      BY <3>1, IdlePromise DEF connVars
    <3> QED BY <3>1, PromiseStep
  <2>2. \A k \in Call : Of(k)' \in Promise!States
    <3>1. Honest' => (\A k \in Call : Of(k) \in Promise!States)'
      BY OfType, PTL
    <3> QED BY <3>1
  <2>3. \A k \in Call : all[k] = Of(k) /\ all'[k] = Of(k)'
    BY DEF Of
  <2>4. all' \in [Call -> Promise!States]
    BY <2>2 DEF Of
  <2>5. \A k \in Call : all'[k] = all[k] \/ Promise!Step(all[k], all'[k])
    BY <2>1, <2>3 DEF Promised, Moves
  <2> QED BY <2>4, <2>5 DEF Promise!Next
<1> QED BY <1>1, <1>2, HonestAlways, WaitedAlways, PTL DEF ConnSpec, ImplementsCall, Promise!Spec

-----------------------------------------------------------------------------
(* The connections. *)

Wired == Links /\ Opens /\ OneServer

LEMMA SlotFacts ==
  ASSUME Types, NEW k \in Call
  PROVE  Slot(k) \in Slots /\ (kind' = kind => Slot(k)' = Slot(k))
  BY DEF Slot, Slots

LEMMA SideFacts ==
  ASSUME Types, NEW k \in Call
  PROVE  Side(<<k, "built">>) = "blocking" /\ Side(<<k, "fresh">>) = Slot(k)
<1>1. <<k, "built">> # Original /\ <<k, "fresh">> # Original
  BY Constants
<1> QED BY <1>1 DEF Side, Slot

(* A step that opens no connection: it may write on one, lose some, or put a  *)
(* connection that is open into a slot.                                       *)
LEMMA LinksStep ==
  ASSUME Types, Links, kind' = kind,
         \A c \in Conn : target[c] \in Node => target'[c] \in Node,
         \A c \in broken' : target'[c] \in Node,
         \A s \in Slots : cell'[s] = cell[s] \/ (target'[cell'[s]] \in Node /\ Side(cell'[s]) = s),
         cell' \in [Slots -> Conn \cup {Nobody}],
         \A c \in Conn : \A i \in DOMAIN queue'[c] :
            \/ \E j \in DOMAIN queue[c] : queue'[c][i] = queue[c][j]
            \/ target[c] \in Node /\ \E k \in Call : queue'[c][i][1] = k /\ Side(c) = Slot(k)
  PROVE  Links'
<1>3. ASSUME NEW s \in Slots, cell'[s] # Nobody
      PROVE  target'[cell'[s]] \in Node /\ Side(cell'[s]) = s
  <2>1. CASE cell'[s] = cell[s]
    <3>1. cell[s] \in Conn
      BY <1>3, <2>1 DEF Types
    <3> QED BY <1>3, <2>1, <3>1 DEF Links
  <2> QED BY <2>1
<1>4. ASSUME NEW c \in Conn, NEW i \in DOMAIN queue'[c]
      PROVE  target'[c] \in Node /\ Side(c) = Slot(queue'[c][i][1])
  <2>1. CASE \E j \in DOMAIN queue[c] : queue'[c][i] = queue[c][j]
    BY <2>1 DEF Links
  <2>2. CASE target[c] \in Node /\ \E k \in Call : queue'[c][i][1] = k /\ Side(c) = Slot(k)
    BY <2>2
  <2> QED BY <2>1, <2>2
<1> QED BY <1>3, <1>4 DEF Links, Side, Slot

(* What a step must leave alone for a call that it is not about.              *)
LEMMA OpensOther ==
  ASSUME Types, NEW k \in Call, OpensOf(k), SameCall(k), inner' = inner,
         inner = "Standard" => master' = master,
         target'[<<k, "built">>] = target[<<k, "built">>],
         target'[<<k, "fresh">>] = target[<<k, "fresh">>]
  PROVE  OpensOf(k)'
  BY DEF OpensOf, SameCall

LEMMA OpensAnswered ==
  ASSUME Types, Stage, NEW k \in Call, NEW a, OpensOf(k), Answered(k, a), pc[k] \in {"send", "waiting"},
         UNCHANGED <<inner, target>>, inner = "Standard" => master' = master
  PROVE  OpensOf(k)'
<1>1. attempt[k] \in {1, 2} /\ pc'[k] \in {"ask", "done"} /\ attempt'[k] = attempt[k]
  BY DEF Stage, StageOf, Answered
<1> QED BY <1>1 DEF OpensOf, Answered

(* Attempts of the calls K are answered and some connections may die.         *)
LEMMA WiredAnswered ==
  ASSUME Honest, Wired, NEW K \in SUBSET Call, NEW a,
         \A k \in Call \ K : SameCall(k),
         \A k \in K : Answered(k, a) /\ pc[k] \in {"send", "waiting"},
         UNCHANGED <<inner, kind, cell, target, master>>,
         \A c \in broken' : target[c] \in Node,
         \A c \in Conn : \A i \in DOMAIN queue'[c] :
            \E j \in DOMAIN queue[c] : queue'[c][i] = queue[c][j]
  PROVE  Wired'
<1>1. Links'
  BY LinksStep DEF Honest, Wired, Types
<1>2. ASSUME NEW k \in Call PROVE OpensOf(k)'
  <2>1. CASE k \in K
    BY <2>1, OpensAnswered DEF Honest, Wired, Opens
  <2>2. CASE k \notin K
    BY <2>2, OpensOther DEF Honest, Wired, Opens
  <2> QED BY <2>1, <2>2
<1>3. OneServer'
  BY DEF Wired, OneServer
<1> QED BY <1>1, <1>2, <1>3 DEF Wired, Opens

(* Call k goes on without opening a connection.                               *)
LEMMA WiredOwn ==
  ASSUME Honest, Wired, NEW k \in Call, OpensOf(k)', \A j \in Call \ {k} : SameCall(j),
         UNCHANGED <<inner, kind, target, queue, broken, master>>,
         cell' \in [Slots -> Conn \cup {Nobody}],
         \A s \in Slots : cell'[s] = cell[s] \/ (target[cell'[s]] \in Node /\ Side(cell'[s]) = s)
  PROVE  Wired'
<1>1. Links'
  <2>1. \A c \in broken' : target'[c] \in Node
    BY DEF Wired, Links
  <2> QED BY <2>1, LinksStep DEF Honest, Wired
<1>2. ASSUME NEW j \in Call PROVE OpensOf(j)'
  <2>1. CASE j # k
    BY <2>1, OpensOther DEF Honest, Wired, Opens
  <2> QED BY <2>1
<1>3. OneServer'
  BY DEF Wired, OneServer
<1> QED BY <1>1, <1>2, <1>3 DEF Wired, Opens

(* Call k opens connection c to the node that was named to it.                *)
LEMMA WiredOpened ==
  ASSUME Honest, Wired, NEW k \in Call, NEW c \in Conn, c \in {<<k, "built">>, <<k, "fresh">>},
         OpensOf(k)', \A j \in Call \ {k} : SameCall(j),
         UNCHANGED <<inner, kind, queue, broken, master>>,
         target' = [target EXCEPT ![c] = named[k]], named[k] \in Node,
         inner = "Standard" => named[k] = master,
         cell' \in [Slots -> Conn \cup {Nobody}],
         \A s \in Slots : cell'[s] = cell[s] \/ (cell'[s] = c /\ Side(c) = s)
  PROVE  Wired'
<1>1. target'[c] = named[k] /\ \A d \in Conn \ {c} : target'[d] = target[d]
  BY DEF Honest, Types
<1>2. Links'
  <2>1. \A d \in broken' : target'[d] \in Node
    BY <1>1 DEF Wired, Links, Honest, Types
  <2>2. \A d \in Conn : target[d] \in Node => target'[d] \in Node
    BY <1>1
  <2> QED BY <1>1, <2>1, <2>2, LinksStep DEF Honest, Wired
<1>3. ASSUME NEW j \in Call PROVE OpensOf(j)'
  <2>1. CASE j # k
    <3>1. /\ <<j, "built">> \in Conn \ {c} /\ <<j, "fresh">> \in Conn \ {c}
      BY <2>1, Constants
    <3> QED BY <1>1, <2>1, <3>1, OpensOther DEF Honest, Wired, Opens
  <2> QED BY <2>1
<1>4. OneServer'
  BY <1>1 DEF Wired, OneServer
<1> QED BY <1>2, <1>3, <1>4 DEF Wired, Opens

LEMMA WiredStep ==
  ASSUME Honest, Honest', Wired, ConnNext
  PROVE  Wired'
<1>t. /\ Types /\ Types' /\ \A k \in Call : StageOf(k) /\ OpensOf(k)
      /\ cell \in [Slots -> Conn \cup {Nobody}] /\ cell' \in [Slots -> Conn \cup {Nobody}]
  BY DEF Honest, Types, Stage, Wired, Opens
<1>w. \A c \in broken : target[c] \in Node
  BY DEF Wired, Links
<1>q. \A c \in Conn : \A i \in DOMAIN queue[c] : target[c] \in Node
  BY DEF Wired, Links
<1>n. \A c \in Conn : c # Nobody
  BY Constants
<1>1. ASSUME NEW k \in Call, Issue(k) PROVE Wired'
  <2>1. OpensOf(k)' /\ \A j \in Call \ {k} : SameCall(j)
    BY <1>t, <1>1 DEF Types, StageOf, OpensOf, Issue, Goto, SameCall, linkVars, envVars
  <2> QED BY <1>t, <1>1, <2>1, WiredOwn DEF Issue, linkVars, envVars
<1>2. ASSUME NEW k \in Call, GetBlocking(k) PROVE Wired'
  <2>1. \A j \in Call \ {k} : SameCall(j)
    BY <1>t, <1>2 DEF Types, GetBlocking, Goto, SameCall
  <2>2. OpensOf(k) /\ StageOf(k) /\ UNCHANGED <<pos, inner, target, master, cell, kind>>
    BY <1>t, <1>2 DEF GetBlocking, linkVars, envVars
  <2>3. OpensOf(k)'
    <3>1. CASE pc'[k] = "send" /\ attempt'[k] = 1
      BY <2>2, <3>1, <1>2 DEF OpensOf, StageOf, GetBlocking
    <3>2. CASE pc'[k] = "ask" /\ attempt'[k] = attempt[k] /\ inner = "Sentinel"
      BY <2>2, <3>2, <1>2 DEF OpensOf, StageOf, GetBlocking
    <3>3. CASE pc'[k] = "connect" /\ attempt'[k] = attempt[k] /\ named'[k] = FirstMaster
      <4>1. inner = "Standard" => named'[k] = master'
        BY <2>2, <3>3 DEF Wired, OneServer
      <4> QED BY <2>2, <3>3, <1>2, <4>1, Constants DEF OpensOf, StageOf, GetBlocking
    <3>4. \/ pc'[k] = "send" /\ attempt'[k] = 1
          \/ pc'[k] = "ask" /\ attempt'[k] = attempt[k] /\ inner = "Sentinel"
          \/ pc'[k] = "connect" /\ attempt'[k] = attempt[k] /\ named'[k] = FirstMaster
      BY <1>t, <1>2 DEF Types, GetBlocking, Goto
    <3> QED BY <3>1, <3>2, <3>3, <3>4
  <2> QED BY <1>t, <1>2, <2>1, <2>3, WiredOwn DEF GetBlocking, linkVars, envVars
<1>3. ASSUME NEW k \in Call, Walk(k) PROVE Wired'
  <2>1. \A j \in Call \ {k} : SameCall(j)
    BY <1>t, <1>3 DEF Types, Walk, Return, Goto, SameCall
  <2>2. /\ OpensOf(k) /\ StageOf(k) /\ pc[k] = "ask"
        /\ UNCHANGED <<inner, target, master, cell, kind, attempt>>
    BY <1>t, <1>3 DEF Walk, linkVars, envVars
  <2>3. pc'[k] \in {"ask", "connect", "done"} /\ (pc'[k] = "connect" => named'[k] \in Node)
    BY <1>t, <1>3 DEF Types, Walk, Return, Goto
  <2>4. OpensOf(k)'
    BY <2>2, <2>3 DEF OpensOf, StageOf
  <2> QED BY <1>t, <1>3, <2>1, <2>4, WiredOwn DEF Walk, linkVars, envVars
<1>4. ASSUME NEW k \in Call, BuildBlocking(k) PROVE Wired'
  <2> DEFINE c == <<k, "built">>
  <2>0. c \in Conn /\ c[2] = "built" /\ <<k, "fresh">> \in Conn \ {c} /\ Side(c) = "blocking"
    BY <1>t, Constants, SideFacts
  <2>1. /\ OpensOf(k) /\ StageOf(k) /\ pc[k] = "connect" /\ attempt[k] = 0 /\ OpenTo(k, c)
        /\ UNCHANGED <<inner, kind, named, first, queue, broken, master, applied>>
        /\ pos' = [pos EXCEPT ![k] = 1]
    BY <1>t, <1>4 DEF BuildBlocking, envVars
  <2>2. CASE status[named[k]] = "down"
    <3>1. Return(k, "Io") /\ UNCHANGED <<target, cell, attempt>>
      BY <2>1, <2>2 DEF OpenTo
    <3>2. pc'[k] = "done" /\ \A j \in Call \ {k} : SameCall(j)
      BY <1>t, <2>1, <3>1 DEF Types, Return, Goto, SameCall
    <3>3. OpensOf(k)'
      BY <2>1, <3>1, <3>2 DEF OpensOf
    <3> QED BY <1>t, <2>1, <3>1, <3>2, <3>3, WiredOwn
  <2>3. CASE status[named[k]] # "down"
    <3>1. /\ target' = [target EXCEPT ![c] = named[k]] /\ cell' = [cell EXCEPT !["blocking"] = c]
          /\ attempt' = [attempt EXCEPT ![k] = 1] /\ Goto(k, "send") /\ res' = res
      BY <2>0, <2>1, <2>3 DEF OpenTo
    <3>2. /\ pc'[k] = "send" /\ attempt'[k] = 1 /\ pos'[k] = 1 /\ \A j \in Call \ {k} : SameCall(j)
          /\ target'[<<k, "fresh">>] = target[<<k, "fresh">>]
      BY <1>t, <2>0, <2>1, <3>1 DEF Types, Goto, SameCall
    <3>3. OpensOf(k)'
      BY <2>1, <3>2 DEF OpensOf
    <3>4. named[k] \in Node /\ (inner = "Standard" => named[k] = master)
      BY <2>1 DEF OpensOf
    <3>5. \A s \in Slots : cell'[s] = cell[s] \/ (cell'[s] = c /\ Side(c) = s)
      BY <1>t, <2>0, <3>1
    <3> QED BY <1>t, <2>0, <2>1, <3>1, <3>2, <3>3, <3>4, <3>5, WiredOpened
  <2> QED BY <2>2, <2>3
<1>5. ASSUME NEW k \in Call, ConnectNamed(k) PROVE Wired'
  <2> DEFINE c == <<k, "fresh">>
  <2>0. c \in Conn /\ c[2] # "built" /\ <<k, "built">> \in Conn \ {c}
    BY <1>t, Constants
  <2>1. /\ OpensOf(k) /\ StageOf(k) /\ pc[k] = "connect" /\ attempt[k] = 1 /\ OpenTo(k, c)
        /\ UNCHANGED <<inner, kind, pos, named, first, queue, broken, master, applied>>
    BY <1>t, <1>5 DEF ConnectNamed, envVars
  <2>2. CASE status[named[k]] = "down"
    <3>1. Return(k, "Io") /\ UNCHANGED <<target, cell, attempt>>
      BY <2>1, <2>2 DEF OpenTo
    <3>2. pc'[k] = "done" /\ \A j \in Call \ {k} : SameCall(j)
      BY <1>t, <2>1, <3>1 DEF Types, Return, Goto, SameCall
    <3>3. OpensOf(k)'
      BY <2>1, <3>1, <3>2 DEF OpensOf
    <3> QED BY <1>t, <2>1, <3>1, <3>2, <3>3, WiredOwn
  <2>3. CASE status[named[k]] # "down"
    <3>1. /\ target' = [target EXCEPT ![c] = named[k]] /\ UNCHANGED <<cell, attempt, res>>
          /\ Goto(k, "swap")
      BY <2>0, <2>1, <2>3 DEF OpenTo
    <3>2. /\ pc'[k] = "swap" /\ \A j \in Call \ {k} : SameCall(j)
          /\ target'[c] = named[k] /\ target'[<<k, "built">>] = target[<<k, "built">>]
      BY <1>t, <2>0, <2>1, <3>1 DEF Types, Goto, SameCall
    <3>3. OpensOf(k)'
      BY <2>1, <3>1, <3>2 DEF OpensOf
    <3>4. named[k] \in Node /\ (inner = "Standard" => named[k] = master)
      BY <2>1 DEF OpensOf
    <3> QED BY <1>t, <2>0, <2>1, <3>1, <3>2, <3>3, <3>4, WiredOpened
  <2> QED BY <2>2, <2>3
<1>6. ASSUME NEW k \in Call, Swap(k) PROVE Wired'
  <2> DEFINE c == <<k, "fresh">>
  <2>1. /\ OpensOf(k) /\ StageOf(k) /\ pc[k] = "swap"
        /\ UNCHANGED <<inner, kind, target, queue, broken, master>>
        /\ cell' = [cell EXCEPT ![Slot(k)] = c]
    BY <1>t, <1>6 DEF Swap, linkVars, envVars
  <2>2. /\ pc'[k] = "send" /\ attempt'[k] = 2 /\ \A j \in Call \ {k} : SameCall(j)
    BY <1>t, <1>6 DEF Types, Swap, Goto, SameCall
  <2>3. OpensOf(k)'
    BY <2>1, <2>2 DEF OpensOf
  <2>4. target[c] \in Node /\ Side(c) = Slot(k)
    BY <1>t, <2>1, SideFacts DEF OpensOf
  <2>5. \A s \in Slots : cell'[s] = cell[s] \/ (target[cell'[s]] \in Node /\ Side(cell'[s]) = s)
    BY <1>t, <2>1, <2>4
  <2> QED BY <1>t, <2>1, <2>2, <2>3, <2>5, WiredOwn
<1>l. ASSUME NEW k \in Call, Dispatch({k}, "Io"), pc[k] \in {"send", "waiting"},
             UNCHANGED <<inner, kind, attempt, pos, named, cell, target, queue, master>>,
             broken' \subseteq broken
      PROVE  Wired'
  <2>1. "Io" \in Answers \ {"none"} /\ {k} \in SUBSET Call
    BY DEF Answers
  <2>2. Answered(k, "Io") /\ \A j \in Call \ {k} : SameCall(j)
    BY <1>t, <1>l, <2>1, DispatchFacts
  <2> QED BY <1>w, <1>l, <2>1, <2>2, WiredAnswered
<1>7. ASSUME NEW k \in Call, Send(k) PROVE Wired'
  <2> DEFINE c == cell[Slot(k)]
  <2>0. /\ c \in Conn /\ pc[k] = "send" /\ attempt[k] \in 1..2 /\ Slot(k) \in Slots
        /\ target[c] \in Node /\ Side(c) = Slot(k)
    BY <1>t, <1>7, SlotFacts DEF StageOf, Send, Wired, Links
  <2>1. CASE c \in broken \/ status[target[c]] = "down"
    BY <1>7, <1>l, <2>0, <2>1 DEF Send, envVars
  <2>2. CASE ~(c \in broken \/ status[target[c]] = "down")
    <3>1. /\ queue' = [queue EXCEPT ![c] = Append(queue[c], <<k, attempt[k]>>)]
          /\ Goto(k, "waiting")
          /\ UNCHANGED <<inner, kind, cell, target, master, broken, first, res, attempt, applied, pos, named>>
      BY <1>7, <2>2 DEF Send, envVars
    <3>2. pc'[k] = "waiting" /\ \A j \in Call \ {k} : SameCall(j)
      BY <1>t, <3>1 DEF Types, Goto, SameCall
    <3>3. \A d \in Conn : \A i \in DOMAIN queue'[d] :
            \/ \E j \in DOMAIN queue[d] : queue'[d][i] = queue[d][j]
            \/ target[d] \in Node /\ \E j \in Call : queue'[d][i][1] = j /\ Side(d) = Slot(j)
      <4>1. <<k, attempt[k]>> \in Entries /\ <<k, attempt[k]>>[1] = k
        BY <2>0 DEF Entries
      <4> QED BY <1>t, <2>0, <3>1, <4>1, AppendFacts
    <3>4. Links'
      BY <1>t, <1>w, <3>1, <3>3, LinksStep DEF Wired
    <3>5. OpensOf(k)'
      BY <1>t, <2>0, <3>1, <3>2 DEF OpensOf
    <3>6. \A j \in Call \ {k} : OpensOf(j)'
      BY <1>t, <3>1, <3>2, OpensOther
    <3>7. OneServer'
      BY <3>1 DEF Wired, OneServer
    <3> QED BY <3>4, <3>5, <3>6, <3>7 DEF Wired, Opens
  <2> QED BY <2>1, <2>2
<1>8. ASSUME NEW k \in Call, ResponseTimeout(k) PROVE Wired'
  BY <1>l, <1>8 DEF ResponseTimeout, linkVars
<1>9. ASSUME NEW c \in Conn, Serve(c) PROVE Wired'
  <2>1. /\ queue[c] # << >> /\ queue' = [queue EXCEPT ![c] = Tail(queue[c])]
        /\ UNCHANGED <<inner, kind, attempt, pos, named, cell, target, broken, master>>
    BY <1>9 DEF Serve, envVars
  <2> DEFINE K == {j \in {Head(queue[c])[1]} : Waits(Head(queue[c])[1], Head(queue[c])[2])}
  <2>2. PICK a \in Replies(target[c]) : Dispatch(K, a)
    BY <1>9 DEF Serve
  <2>3. Head(queue[c]) \in Entries
    BY <1>t, <2>1, TailFacts
  <2>4. a \in Answers \ {"none"} /\ K \in SUBSET Call /\ \A k \in K : pc[k] = "waiting"
    BY <2>3, RepliesFacts DEF Answers, Entries, Waits
  <2>5. (\A j \in Call \ K : SameCall(j)) /\ \A j \in K : Answered(j, a)
    BY <1>t, <2>1, <2>2, <2>4, DispatchFacts
  <2>6. \A d \in Conn : \A i \in DOMAIN queue'[d] : \E j \in DOMAIN queue[d] : queue'[d][i] = queue[d][j]
    BY <1>t, <2>1, TailKept
  <2> QED BY <1>w, <2>1, <2>4, <2>5, <2>6, WiredAnswered
<1>b. ASSUME NEW C \in SUBSET Conn, NEW known, Break(C, known), \A c \in C : target[c] \in Node,
             UNCHANGED <<inner, kind, attempt, pos, named, cell, target, master>>
      PROVE  Wired'
  <2>1. /\ queue' = [c \in Conn |-> IF c \in C THEN << >> ELSE queue[c]]
        /\ Dispatch(Waiting(C), "Io") /\ Waiting(C) \in SUBSET Call /\ broken' \subseteq broken \cup C
        /\ \A k \in Waiting(C) : pc[k] = "waiting"
    BY <1>b DEF Break, Waiting, Waits
  <2>2. "Io" \in Answers \ {"none"}
    BY DEF Answers
  <2>3. (\A j \in Call \ Waiting(C) : SameCall(j)) /\ \A j \in Waiting(C) : Answered(j, "Io")
    BY <1>t, <1>b, <2>1, <2>2, DispatchFacts
  <2>4. \A d \in Conn : \A i \in DOMAIN queue'[d] : \E j \in DOMAIN queue[d] : queue'[d][i] = queue[d][j]
    BY <1>t, <2>1, BreakKept
  <2>5. \A c \in broken' : target[c] \in Node
    BY <1>w, <1>b, <2>1
  <2> QED BY <1>b, <2>1, <2>3, <2>4, <2>5, WiredAnswered
<1>10. ASSUME NEW c \in Conn, Drop(c) PROVE Wired'
  <2>1. PICK known : Break({c}, known)
    BY <1>10 DEF Drop
  <2>2. target[c] \in Node
    <3>1. CASE queue[c] # << >>
      <4>1. queue[c] \in Seq(Entries)
        BY <1>t DEF Types
      <4>2. 1 \in DOMAIN queue[c]
        BY <3>1, <4>1
      <4> QED BY <1>q, <4>2
    <3>2. CASE \E s \in Slots : cell[s] = c
      BY <1>n, <3>2 DEF Wired, Links
    <3> QED BY <1>10, <3>1, <3>2 DEF Drop
  <2>3. UNCHANGED <<inner, kind, attempt, pos, named, cell, target, master>>
    BY <1>10 DEF Drop
  <2> QED BY <1>b, <2>1, <2>2, <2>3
<1>11. ASSUME NEW n \in Node, NodeDown(n) PROVE Wired'
  <2>1. /\ Break({c \in Conn : target[c] = n}, {})
        /\ UNCHANGED <<inner, kind, attempt, pos, named, cell, target, master>>
    BY <1>11 DEF NodeDown
  <2> QED BY <1>b, <2>1
<1>12. ASSUME UNCHANGED <<inner, kind, pc, attempt, pos, named, first, res, cell, linkVars>>,
              inner = "Standard" => master' = master
       PROVE  Wired'
  <2>1. Links'
    BY <1>t, <1>w, <1>12, LinksStep DEF Wired, linkVars
  <2>2. ASSUME NEW k \in Call PROVE OpensOf(k)'
    BY <1>t, <1>12, OpensOther DEF SameCall, linkVars
  <2>3. OneServer'
    BY <1>12 DEF Wired, OneServer, linkVars
  <2> QED BY <2>1, <2>2, <2>3 DEF Wired, Opens
<1>13. ASSUME NEW n \in Node, Failover(n) \/ NodeUp(n) PROVE Wired'
  BY <1>12, <1>13 DEF Failover, NodeUp
<1>14. ASSUME NEW s \in DOMAIN view, SentinelDown(s) \/ SentinelLearns(s) PROVE Wired'
  BY <1>12, <1>14 DEF SentinelDown, SentinelLearns
<1> QED
  BY <1>1, <1>2, <1>3, <1>4, <1>5, <1>6, <1>7, <1>8, <1>9, <1>10, <1>11, <1>13, <1>14
     DEF ConnNext, CallStep, CreateSentinelInner, Rediscover, Environment

-----------------------------------------------------------------------------
(* Quiet times. *)

(* A step of call k, which is under way, while no fault happens: what it must *)
(* leave alone, and how it must stay on course, for every call to stay calm.  *)
LEMMA CalmMove ==
  ASSUME IInv, Types', NEW k \in Call, Issued(k), \A j \in Call \ {k} : SameCall(j),
         UNCHANGED <<inner, kind, master, status, view>>, calm' \subseteq calm, broken' \subseteq broken,
         Healthy /\ inner = "Sentinel" /\ pc'[k] \in {"connect", "swap"} =>
            named'[k] = master /\ <<k, "fresh">> \notin broken,
         \A c \in Conn : target[c] \in Node => target'[c] = target[c],
         \A s \in Slots : \/ cell'[s] = cell[s]
                          \/ Healthy => cell'[s] \notin broken /\ target'[cell'[s]] = master,
         \A c \in Conn : \A i \in DOMAIN queue'[c] :
            \/ \E j \in DOMAIN queue[c] : queue'[c][i] = queue[c][j]
            \/ queue'[c][i] = <<k, attempt[k]>> /\ c = cell[Slot(k)] /\ pc[k] = "send",
         k \in calm' /\ kind[k] # "wait" /\ Quiet(k) =>
            /\ pc'[k] = "ask" => pos'[k] = 1
            /\ pc'[k] = "send" /\ attempt'[k] = 2 =>
                  cell'[Slot(k)] \notin broken /\ target'[cell'[Slot(k)]] = master
            /\ pc'[k] = "done" => res'[k] \in {"ok", "refused"}
  PROVE  Calm'
<1>t. Types /\ \A j \in Call : StageOf(j) /\ CalmOf(j) /\ Slot(j) \in Slots /\ Slot(j)' = Slot(j)
  BY SlotFacts DEF IInv, Honest, Stage, Calm
<1>m. master \in Node /\ \A c \in Conn : \A i \in DOMAIN queue[c] : target[c] \in Node
  BY <1>t DEF Types, IInv, Links
<1>1. SUFFICES ASSUME NEW j \in Call, j \in calm', kind[j] # "wait"
               PROVE  /\ Issued(j)' => Quiet(j)'
                      /\ pc'[j] = "done" => res'[j] \in {"ok", "refused"}
  BY DEF Calm, CalmOf
<1>2. j \in calm /\ (Issued(j)' => Issued(j))
  BY <1>1 DEF Issued, SameCall
<1>3. pc'[j] = "done" => res'[j] \in {"ok", "refused"}
  <2>1. CASE j = k
    <3>1. Quiet(k)
      BY <1>1, <1>2, <1>t, <2>1 DEF CalmOf
    <3> QED BY <1>1, <2>1, <3>1
  <2>2. CASE j # k
    BY <1>1, <1>2, <1>t, <2>2 DEF CalmOf, SameCall
  <2> QED BY <2>1, <2>2
<1>4. ASSUME Issued(j)' PROVE Quiet(j)'
  <2>1. Healthy /\ OutOfTheWay(j) /\ OnCourse(j) /\ Quiet(j)
    BY <1>1, <1>2, <1>4, <1>t DEF CalmOf, Quiet
  <2>2. Healthy'
    BY <2>1 DEF Healthy, SameCall
  <2>3. inner = "Standard" => cell'[Slot(j)] \notin broken'
    BY <1>t, <2>1 DEF OutOfTheWay
  <2>4. ASSUME kind[j] = "plain", NEW i \in Call, kind[i] = "wait"
        PROVE  ~Issued(i)' /\ \A c \in Conn : ~Pending(c, i)'
    <3>1. ~Issued(i) /\ i # k /\ \A c \in Conn : ~Pending(c, i)
      BY <2>1, <2>4 DEF OutOfTheWay
    <3>2. ~Issued(i)'
      BY <3>1 DEF Issued, SameCall
    <3>3. \A c \in Conn : \A h \in DOMAIN queue'[c] : queue'[c][h][1] # i
      BY <3>1 DEF Pending
    <3> QED BY <3>2, <3>3 DEF Pending
  <2>5. OutOfTheWay(j)'
    BY <1>t, <2>3, <2>4 DEF OutOfTheWay
  <2>6. pc'[j] = "ask" => pos'[j] = 1
    BY <1>1, <2>1 DEF OnCourse, SameCall
  <2>7. ASSUME pc'[j] = "send", attempt'[j] = 2
        PROVE  cell'[Slot(j)] \notin broken' /\ target'[cell'[Slot(j)]] = master
    <3>1. CASE j = k
      BY <1>1, <2>1, <2>7, <3>1
    <3>2. CASE j # k
      <4>1. cell[Slot(j)] \notin broken /\ target[cell[Slot(j)]] = master /\ cell[Slot(j)] \in Conn
        BY <1>t, <2>1, <2>7, <3>2 DEF OnCourse, SameCall, StageOf, Types
      <4> QED BY <1>t, <1>m, <2>1, <4>1
    <3> QED BY <3>1, <3>2
  <2>8. ASSUME NEW c \in Conn, NEW i \in DOMAIN queue'[c], queue'[c][i] = <<j, 2>>
        PROVE  target'[c] = master
    <3>1. CASE \E h \in DOMAIN queue[c] : queue'[c][i] = queue[c][h]
      BY <1>m, <2>1, <2>8, <3>1 DEF OnCourse
    <3>2. CASE queue'[c][i] = <<k, attempt[k]>> /\ c = cell[Slot(k)] /\ pc[k] = "send"
      <4>1. j = k /\ attempt[k] = 2
        BY <2>8, <3>2
      <4> QED BY <1>m, <2>1, <3>2, <4>1 DEF OnCourse
    <3> QED BY <3>1, <3>2
  <2>9. OnCourse(j)'
    BY <1>t, <2>6, <2>7, <2>8 DEF OnCourse
  <2> QED BY <2>2, <2>5, <2>9 DEF Quiet
<1> QED BY <1>3, <1>4

(* A fault: only calls that are not under way stay calm.                      *)
LEMMA CalmFault ==
  ASSUME IInv, \A k \in calm' : k \in calm /\ ~Issued(k) /\ SameCall(k), kind' = kind, calm' \subseteq Call
  PROVE  Calm'
<1> QED BY DEF IInv, Calm, CalmOf, Issued, SameCall

LEMMA CalmStep ==
  ASSUME IInv, ConnNext, Honest', Wired'
  PROVE  Calm'
<1>t. /\ Types /\ Types' /\ IInv
      /\ \A k \in Call : StageOf(k) /\ OpensOf(k) /\ SentOf(k) /\ CalmOf(k) /\ Slot(k) \in Slots
  BY SlotFacts DEF IInv, Honest, Types, Stage, SentOnce, Opens, Calm
<1>w. /\ \A c \in broken : target[c] \in Node
      /\ \A c \in Conn : \A i \in DOMAIN queue[c] : target[c] \in Node /\ Side(c) = Slot(queue[c][i][1])
      /\ \A s \in Slots : cell[s] # Nobody => target[cell[s]] \in Node /\ Side(cell[s]) = s
      /\ \A c \in Conn : c # Nobody
      /\ Nobody \notin Node /\ master \in Node
  BY <1>t, Constants DEF IInv, Links, Types
\* A Standard client's server is the master.
<1>s. inner = "Standard" => \A c \in Conn : target[c] \in Node => target[c] = master
  BY <1>w DEF IInv, OneServer
<1>a. inner \in {"Standard", "Sentinel"}
  BY <1>t DEF ConnNext, Types
<1>1. ASSUME NEW k \in Call, Issue(k) PROVE Calm'
  <2>1. /\ pc[k] = "new" /\ pc'[k] # "done" /\ pc'[k] # "ask" /\ attempt'[k] \in {0, 1}
        /\ UNCHANGED <<inner, kind, pos, named, first, res, cell, target, queue, broken, master, status, view>>
        /\ \A j \in Call \ {k} : SameCall(j)
    BY <1>1, <1>t DEF Issue, Types, Goto, StageOf, SameCall, linkVars, envVars
  <2>2. calm' = IF Current(k)
                THEN IF kind[k] = "wait" THEN calm \cap {j \in Call : ~Issued(j)} ELSE calm
                ELSE calm \ {k}
    BY <1>1 DEF Issue
  <2>3. Healthy => Healthy'
    <3>1. pc'[k] \in {"get_blocking", "send"}
      BY <1>1, <1>t DEF Issue, Types, Goto
    <3>2. \A j \in Call : pc'[j] \in {"connect", "swap"} => pc[j] = pc'[j] /\ named'[j] = named[j]
      BY <2>1, <3>1 DEF SameCall
    <3> QED BY <2>1, <3>2 DEF Healthy
  <2>4. \A j \in Call : Slot(j)' = Slot(j)
    BY <2>1 DEF Slot
  <2>5. ASSUME NEW j \in Call, j \in calm', kind[j] # "wait", j # k PROVE CalmOf(j)'
    <3>1. j \in calm /\ CalmOf(j) /\ SameCall(j)
      BY <1>t, <2>1, <2>2, <2>5
    <3>2. CASE ~Issued(j)
      BY <2>1, <2>5, <3>1, <3>2 DEF CalmOf, Issued, SameCall
    <3>3. CASE Issued(j)
      <4>1. Healthy /\ OutOfTheWay(j) /\ OnCourse(j)
        BY <2>5, <3>1, <3>3 DEF CalmOf, Quiet
      <4>2. ASSUME kind[j] = "plain" PROVE kind[k] # "wait"
        <5>1. SUFFICES ASSUME kind[k] = "wait" PROVE FALSE
          OBVIOUS
        <5>2. Slot(k) = Slot(j)
          BY <4>2, <5>1 DEF Slot
        <5>3. Current(k)
          BY <4>1, <4>2, <5>2 DEF Current, Healthy, OutOfTheWay
        <5> QED BY <2>2, <2>5, <3>3, <5>1, <5>3
      <4>3. \A c \in Conn : \A i \in Call : Pending(c, i)' = Pending(c, i)
        BY <2>1 DEF Pending
      <4>4. \A i \in Call : i # k => Issued(i)' = Issued(i)
        BY <2>1 DEF Issued, SameCall
      <4>5. OutOfTheWay(j)'
        BY <2>1, <2>4, <4>1, <4>2, <4>3, <4>4 DEF OutOfTheWay
      <4>6. OnCourse(j)'
        BY <2>1, <2>4, <3>1, <4>1 DEF OnCourse, SameCall
      <4>7. pc'[j] # "done"
        BY <3>1, <3>3 DEF SameCall, Issued
      <4> QED BY <2>3, <4>1, <4>5, <4>6, <4>7 DEF CalmOf, Quiet
    <3> QED BY <3>2, <3>3
  <2>6. ASSUME k \in calm', kind[k] # "wait" PROVE CalmOf(k)'
    <3>1. Current(k)
      BY <2>2, <2>6
    <3>2. Healthy
      BY <3>1 DEF Current, Healthy
    <3>3. OutOfTheWay(k)'
      <4>1. ASSUME NEW i \in Call, kind[i] = "wait"
            PROVE  ~Issued(i)' /\ \A c \in Conn : ~Pending(c, i)'
        <5>1. i # k /\ ~Issued(i) /\ \A c \in Conn : ~Pending(c, i)
          BY <2>6, <3>1, <4>1 DEF Current
        <5> QED BY <2>1, <5>1 DEF Issued, SameCall, Pending
      <4> QED BY <2>1, <2>4, <3>1, <4>1 DEF OutOfTheWay, Current
    <3>4. \A c \in Conn : \A i \in DOMAIN queue[c] : queue[c][i] # <<k, 2>>
      <4>1. attempt[k] = 0 /\ Sent(k) = 0
        BY <1>t, <2>1 DEF StageOf, Sent
      <4> QED BY <1>t, <4>1 DEF SentOf, UpTo
    <3>5. OnCourse(k)'
      BY <2>1, <3>4 DEF OnCourse
    <3> QED BY <2>1, <2>3, <3>2, <3>3, <3>5 DEF CalmOf, Quiet
  <2>7. \A j \in Call : j \in calm' /\ kind[j] # "wait" => CalmOf(j)'
    BY <2>5, <2>6
  <2> QED BY <2>1, <2>7 DEF Calm, CalmOf
<1>2. ASSUME NEW k \in Call, GetBlocking(k) PROVE Calm'
  <2>1. /\ \A j \in Call \ {k} : SameCall(j)
        /\ UNCHANGED <<inner, kind, pos, res, cell, target, queue, broken, master, status, view, calm>>
        /\ Issued(k) /\ pos[k] = 1 /\ pc'[k] \in {"send", "ask", "connect"}
        /\ pc'[k] = "send" => attempt'[k] = 1
        /\ pc'[k] = "connect" => inner # "Sentinel"
    <3>1. OpensOf(k) /\ pc[k] = "get_blocking" /\ \A j \in Call \ {k} : SameCall(j)
      BY <1>2, <1>t DEF GetBlocking, Types, Goto, SameCall
    <3>2. UNCHANGED <<inner, kind, pos, res, cell, target, queue, broken, master, status, view, calm>>
      BY <1>2 DEF GetBlocking, linkVars, envVars
    <3>3. /\ pc'[k] \in {"send", "ask", "connect"}
          /\ pc'[k] = "send" => attempt'[k] = 1
          /\ pc'[k] = "connect" => inner # "Sentinel"
      BY <1>2, <1>t DEF GetBlocking, Types, Goto
    <3> QED BY <3>1, <3>2, <3>3 DEF OpensOf, Issued
  <2>2. calm' \subseteq calm /\ broken' \subseteq broken
        /\ \A d \in Conn : \A i \in DOMAIN queue'[d] : \E j \in DOMAIN queue[d] : queue'[d][i] = queue[d][j]
    BY <2>1
  <2>3. /\ pc'[k] \notin {"swap", "done"} /\ pos'[k] = 1
        /\ ~(pc'[k] = "send" /\ attempt'[k] = 2)
        /\ ~(inner = "Sentinel" /\ pc'[k] \in {"connect", "swap"})
    BY <2>1
  <2>4. \A s \in Slots : cell'[s] = cell[s]
    BY <2>1
  <2> QED BY <1>t, <2>1, <2>2, <2>3, <2>4, CalmMove
<1>3. ASSUME NEW k \in Call, Walk(k) PROVE Calm'
  <2>1. /\ \A j \in Call \ {k} : SameCall(j)
        /\ UNCHANGED <<inner, kind, cell, target, queue, broken, master, status, view, calm>>
        /\ Issued(k) /\ pc'[k] \in {"ask", "connect", "done"} /\ pc[k] = "ask"
        /\ pc'[k] = "connect" => pos[k] <= Len(Sentinels) /\ named'[k] = view[pos[k]]
    BY <1>3, <1>t, Constants DEF Walk, Types, Return, Goto, SameCall, Issued, linkVars, envVars
  <2>2. inner = "Sentinel" /\ Len(Sentinels) > 0 /\ DOMAIN view = 1..Len(Sentinels)
        /\ pos[k] \in 1..Len(Sentinels) + 1 /\ Len(Sentinels) \in Nat
    BY <1>a, <1>t, <2>1, Constants DEF OpensOf, Types
  <2>3. target[<<k, "fresh">>] = Nobody
    <3>1. OpensOf(k) /\ StageOf(k)
      BY <1>t
    <3> QED BY <2>1, <3>1 DEF OpensOf, StageOf
  <2>4. <<k, "fresh">> \notin broken
    BY <1>w, <2>3
  <2>5. Healthy /\ pc'[k] = "connect" => named'[k] = master
    BY <2>1, <2>2 DEF Healthy
  <2>6. Quiet(k) => pc'[k] = "connect"
    <3>1. SUFFICES ASSUME Quiet(k) PROVE pc'[k] = "connect"
      OBVIOUS
    <3>2. pos[k] = 1 /\ view[pos[k]] = master
      BY <2>1, <2>2, <3>1 DEF Quiet, OnCourse, Healthy
    <3> QED BY <1>3, <1>t, <1>w, <2>2, <3>2 DEF Walk, Goto, Types
  <2> QED BY <1>t, <2>1, <2>4, <2>5, <2>6, CalmMove
\* The node that was named to a quiet call is the master, which is up.
<1>u. ASSUME NEW k \in Call, pc[k] = "connect", Healthy PROVE named[k] = master /\ status[named[k]] = "up"
  BY <1>a, <1>t, <1>u DEF Healthy, OpensOf
<1>4. ASSUME NEW k \in Call, BuildBlocking(k) PROVE Calm'
  <2> DEFINE c == <<k, "built">>
  <2>0. c \in Conn /\ c[2] = "built" /\ c # <<k, "fresh">>
    BY Constants
  <2>1. /\ pc[k] = "connect" /\ attempt[k] = 0 /\ OpenTo(k, c) /\ Issued(k)
        /\ UNCHANGED <<inner, kind, named, queue, broken, master, status, view, calm>>
        /\ pos' = [pos EXCEPT ![k] = 1]
    BY <1>4 DEF BuildBlocking, envVars, Issued
  <2>2. target[c] = Nobody /\ c \notin broken
    <3>1. OpensOf(k)
      BY <1>t
    <3>2. target[c] = Nobody
      BY <2>1, <3>1 DEF OpensOf
    <3> QED BY <1>w, <3>2
  <2>3. CASE status[named[k]] = "down"
    <3>1. Return(k, "Io") /\ UNCHANGED <<target, cell, attempt>>
      BY <2>1, <2>3 DEF OpenTo
    <3>2. pc'[k] = "done" /\ \A j \in Call \ {k} : SameCall(j)
      BY <1>t, <1>4, <2>1, <3>1 DEF Types, Return, Goto, SameCall, BuildBlocking
    <3>3. ~Healthy
      BY <1>u, <2>1, <2>3
    <3> QED BY <1>t, <2>1, <3>1, <3>2, <3>3, CalmMove DEF Quiet
  <2>4. CASE status[named[k]] # "down"
    <3>1. /\ target' = [target EXCEPT ![c] = named[k]] /\ cell' = [cell EXCEPT !["blocking"] = c]
          /\ attempt' = [attempt EXCEPT ![k] = 1] /\ Goto(k, "send") /\ res' = res
      BY <2>0, <2>1, <2>4 DEF OpenTo
    <3>2. /\ pc'[k] = "send" /\ attempt'[k] = 1
          /\ \A j \in Call \ {k} : SameCall(j)
      BY <1>t, <1>4, <2>1, <3>1 DEF Types, Goto, SameCall, BuildBlocking
    <3>3. \A d \in Conn : target[d] \in Node => target'[d] = target[d]
      BY <1>t, <1>w, <2>2, <3>1 DEF Types
    <3>4. target'[c] = named[k]
      BY <1>t, <2>0, <3>1 DEF Types
    <3>5. \A s \in Slots : \/ cell'[s] = cell[s]
                           \/ Healthy => cell'[s] \notin broken /\ target'[cell'[s]] = master
      BY <1>t, <1>u, <2>1, <2>2, <3>1, <3>4 DEF Types
    <3>6. calm' \subseteq calm /\ broken' \subseteq broken
          /\ \A d \in Conn : \A i \in DOMAIN queue'[d] : \E j \in DOMAIN queue[d] : queue'[d][i] = queue[d][j]
      BY <2>1
    <3>7. pc'[k] \notin {"connect", "swap", "ask", "done"} /\ attempt'[k] # 2
      BY <3>2
    <3> QED BY <1>t, <2>1, <3>2, <3>3, <3>5, <3>6, <3>7, CalmMove
  <2> QED BY <2>3, <2>4
<1>5. ASSUME NEW k \in Call, ConnectNamed(k) PROVE Calm'
  <2> DEFINE c == <<k, "fresh">>
  <2>0. c \in Conn /\ c[2] # "built"
    BY Constants
  <2>1. /\ pc[k] = "connect" /\ attempt[k] = 1 /\ OpenTo(k, c) /\ Issued(k)
        /\ UNCHANGED <<inner, kind, pos, named, queue, broken, master, status, view, calm>>
    BY <1>5 DEF ConnectNamed, envVars, Issued
  <2>2. target[c] = Nobody /\ c \notin broken
    <3>1. OpensOf(k)
      BY <1>t
    <3>2. target[c] = Nobody
      BY <2>1, <3>1 DEF OpensOf
    <3> QED BY <1>w, <3>2
  <2>3. CASE status[named[k]] = "down"
    <3>1. Return(k, "Io") /\ UNCHANGED <<target, cell, attempt>>
      BY <2>1, <2>3 DEF OpenTo
    <3>2. pc'[k] = "done" /\ \A j \in Call \ {k} : SameCall(j)
      BY <1>t, <1>5, <2>1, <3>1 DEF Types, Return, Goto, SameCall, ConnectNamed
    <3>3. ~Healthy
      BY <1>u, <2>1, <2>3
    <3> QED BY <1>t, <2>1, <3>1, <3>2, <3>3, CalmMove DEF Quiet
  <2>4. CASE status[named[k]] # "down"
    <3>1. /\ target' = [target EXCEPT ![c] = named[k]] /\ UNCHANGED <<cell, attempt, res>>
          /\ Goto(k, "swap")
      BY <2>0, <2>1, <2>4 DEF OpenTo
    <3>2. pc'[k] = "swap" /\ \A j \in Call \ {k} : SameCall(j)
      BY <1>t, <1>5, <2>1, <3>1 DEF Types, Goto, SameCall, ConnectNamed
    <3>3. \A d \in Conn : target[d] \in Node => target'[d] = target[d]
      BY <1>t, <1>w, <2>2, <3>1 DEF Types
    <3>4. Healthy => named'[k] = master
      BY <1>u, <2>1
    <3> QED BY <1>t, <2>1, <2>2, <3>1, <3>2, <3>3, <3>4, CalmMove
  <2> QED BY <2>3, <2>4
<1>6. ASSUME NEW k \in Call, Swap(k) PROVE Calm'
  <2> DEFINE c == <<k, "fresh">>
  <2>1. /\ pc[k] = "swap" /\ Issued(k) /\ cell' = [cell EXCEPT ![Slot(k)] = c]
        /\ UNCHANGED <<inner, kind, pos, named, res, target, queue, broken, master, status, view, calm>>
    BY <1>6 DEF Swap, Issued, linkVars, envVars
  <2>2. pc'[k] = "send" /\ attempt'[k] = 2 /\ \A j \in Call \ {k} : SameCall(j)
    BY <1>t, <1>6 DEF Types, Swap, Goto, SameCall
  <2>3. inner = "Sentinel" /\ target[c] = named[k]
    BY <1>a, <1>t, <2>1 DEF OpensOf
  <2>4. Healthy => c \notin broken /\ target[c] = master
    BY <2>1, <2>3 DEF Healthy
  <2>5. cell'[Slot(k)] = c /\ \A s \in Slots \ {Slot(k)} : cell'[s] = cell[s]
    BY <1>t, <2>1 DEF Types
  <2> QED BY <1>t, <2>1, <2>2, <2>4, <2>5, CalmMove DEF Quiet

\* An attempt of call k is answered with a.  A quiet call is not disappointed.
<1>d. ASSUME NEW k \in Call, NEW K \in SUBSET {k}, NEW a \in Answers \ {"none"}, Dispatch(K, a),
             pc[k] \in {"send", "waiting"} \/ K = {},
             UNCHANGED <<inner, kind, attempt, pos, named, cell, target, master, status, view>>,
             calm' \subseteq calm, broken' \subseteq broken,
             \A d \in Conn : \A i \in DOMAIN queue'[d] : \E j \in DOMAIN queue[d] : queue'[d][i] = queue[d][j],
             k \in K /\ k \in calm' /\ kind[k] # "wait" /\ Quiet(k) /\ ~(inner = "Sentinel" /\ attempt[k] = 1) =>
                a \in {"ok", "refused"}
      PROVE  Calm'
  <2>1. K \in SUBSET Call
    OBVIOUS
  <2>2. (\A j \in Call \ K : SameCall(j)) /\ \A j \in K : Answered(j, a)
    BY <1>d, <1>t, <2>1, DispatchFacts
  <2>3. CASE k \in K
    <3>1. Answered(k, a) /\ Issued(k) /\ \A j \in Call \ {k} : SameCall(j)
      BY <1>d, <2>2, <2>3 DEF Issued
    <3>2. pc'[k] \in {"ask", "done"}
      BY <3>1 DEF Answered
    <3>3. pc'[k] = "ask" => pos'[k] = 1
      <4>1. OpensOf(k)
        BY <1>t
      <4> QED BY <1>d, <2>3, <3>1, <4>1 DEF Answered, OpensOf
    <3>4. k \in calm' /\ kind[k] # "wait" /\ Quiet(k) /\ pc'[k] = "done" => res'[k] \in {"ok", "refused"}
      BY <1>d, <2>3, <3>1 DEF Answered
    <3> QED BY <1>d, <1>t, <3>1, <3>2, <3>3, <3>4, CalmMove
  <2>4. CASE k \notin K
    <3>1. \A j \in Call : SameCall(j)
      BY <1>d, <2>2, <2>4
    <3>2. CASE \E j \in Call : Issued(j)
      <4>1. PICK j \in Call : Issued(j)
        BY <3>2
      <4>2. Healthy /\ inner = "Sentinel" /\ pc'[j] \in {"connect", "swap"} =>
               named'[j] = master /\ <<j, "fresh">> \notin broken
        BY <3>1 DEF Healthy, SameCall
      <4>3. j \in calm' /\ kind[j] # "wait" /\ Quiet(j) =>
               /\ pc'[j] = "ask" => pos'[j] = 1
               /\ pc'[j] = "send" /\ attempt'[j] = 2 =>
                     cell'[Slot(j)] \notin broken /\ target'[cell'[Slot(j)]] = master
               /\ pc'[j] = "done" => res'[j] \in {"ok", "refused"}
        BY <1>d, <3>1, <4>1 DEF Quiet, OnCourse, SameCall, Issued
      <4> QED BY <1>d, <1>t, <3>1, <4>1, <4>2, <4>3, CalmMove
    <3>3. CASE \A j \in Call : ~Issued(j)
      <4>1. \A j \in calm' : j \in calm /\ ~Issued(j) /\ SameCall(j)
        BY <1>d, <1>t, <3>1, <3>3 DEF Types
      <4> QED BY <1>d, <1>t, <4>1, CalmFault DEF Types
    <3> QED BY <3>2, <3>3
  <2> QED BY <2>3, <2>4
<1>7. ASSUME NEW k \in Call, Send(k) PROVE Calm'
  <2> DEFINE c == cell[Slot(k)]
  <2>0. /\ c \in Conn /\ pc[k] = "send" /\ attempt[k] \in 1..2 /\ target[c] \in Node /\ Issued(k)
        /\ UNCHANGED <<inner, kind, attempt, pos, named, cell, target, master, status, view, calm>>
    BY <1>t, <1>w, <1>7 DEF StageOf, Send, Types, Issued, envVars
  <2>1. CASE c \in broken \/ status[target[c]] = "down"
    <3>1. Dispatch({k}, "Io") /\ broken' \subseteq broken /\ queue' = queue
      BY <1>7, <2>1 DEF Send
    <3>2. \A d \in Conn : \A i \in DOMAIN queue'[d] : \E j \in DOMAIN queue[d] : queue'[d][i] = queue[d][j]
      BY <3>1
    <3>3. ASSUME Quiet(k), ~(inner = "Sentinel" /\ attempt[k] = 1) PROVE FALSE
      <4>1. CASE attempt[k] = 2
        BY <2>0, <2>1, <3>3, <4>1 DEF Quiet, OnCourse, Healthy
      <4>2. CASE attempt[k] = 1
        <5>1. inner = "Standard"
          BY <1>a, <3>3, <4>2
        <5> QED BY <1>s, <2>0, <2>1, <3>3, <5>1 DEF Quiet, OutOfTheWay, Healthy
      <4> QED BY <2>0, <4>1, <4>2
    <3>4. "Io" \in Answers \ {"none"} /\ {k} \in SUBSET {k}
      BY DEF Answers
    <3> QED BY <1>d, <2>0, <3>1, <3>2, <3>3, <3>4
  <2>2. CASE ~(c \in broken \/ status[target[c]] = "down")
    <3>1. /\ queue' = [queue EXCEPT ![c] = Append(queue[c], <<k, attempt[k]>>)]
          /\ Goto(k, "waiting")
          /\ UNCHANGED <<broken, first, res>>
      BY <1>7, <2>2 DEF Send
    <3>2. pc'[k] = "waiting" /\ \A j \in Call \ {k} : SameCall(j)
      BY <1>t, <2>0, <3>1 DEF Types, Goto, SameCall
    <3>3. \A d \in Conn : \A i \in DOMAIN queue'[d] :
            \/ \E j \in DOMAIN queue[d] : queue'[d][i] = queue[d][j]
            \/ queue'[d][i] = <<k, attempt[k]>> /\ d = cell[Slot(k)] /\ pc[k] = "send"
      <4>1. <<k, attempt[k]>> \in Entries
        BY <2>0 DEF Entries
      <4> QED BY <1>t, <2>0, <3>1, <4>1, AppendFacts
    <3> QED BY <1>t, <2>0, <3>1, <3>2, <3>3, CalmMove
  <2> QED BY <2>1, <2>2
<1>f. ASSUME calm' \subseteq {k \in calm : ~Issued(k)}, kind' = kind,
             \A k \in Call : Issued(k) \/ SameCall(k)
      PROVE  Calm'
  BY <1>f, <1>t, CalmFault DEF Types
<1>8. ASSUME NEW k \in Call, ResponseTimeout(k) PROVE Calm'
  <2>1. /\ pc[k] = "waiting" /\ Slot(k) = "regular" /\ Dispatch({k}, "Io")
        /\ UNCHANGED <<inner, kind, attempt, pos, named, cell, target, queue, broken, master, status, view>>
    BY <1>8 DEF ResponseTimeout, HasResponseTimeout, linkVars
  <2>2. PICK c \in Conn : /\ \E i \in DOMAIN queue[c] : queue[c][i] = <<k, attempt[k]>>
                          /\ IF Stalled(c) THEN calm' = calm ELSE calm' = {j \in calm : ~Issued(j)}
    BY <1>8 DEF ResponseTimeout
  <2>3. "Io" \in Answers \ {"none"} /\ {k} \in SUBSET {k} /\ {k} \in SUBSET Call
    BY DEF Answers
  <2>4. CASE ~Stalled(c)
    <3>1. \A j \in Call \ {k} : SameCall(j)
      BY <1>t, <2>1, <2>3, DispatchFacts
    <3>2. Issued(k)
      BY <2>1 DEF Issued
    <3> QED BY <1>f, <2>1, <2>2, <2>4, <3>1, <3>2
  <2>5. CASE Stalled(c)
    <3>1. PICK h \in Call : /\ kind[h] \in {"wait", "block"}
                            /\ \E i \in DOMAIN queue[c] : queue[c][i][1] = h
      <4>1. queue[c] \in Seq(Entries) /\ queue[c] # << >>
        BY <1>t, <2>5 DEF Types, Stalled
      <4>2. 1 \in DOMAIN queue[c] /\ queue[c][1] = Head(queue[c]) /\ queue[c][1] \in Entries
        BY <4>1
      <4>3. queue[c][1][1] \in Call /\ kind[queue[c][1][1]] \in {"wait", "block"}
        BY <2>5, <4>2 DEF Stalled, Entries
      <4> QED BY <4>2, <4>3
    <3>2. Side(c) = Slot(h) /\ Side(c) = "regular"
      BY <1>w, <2>1, <2>2, <3>1
    <3>3. kind[h] = "wait"
      BY <3>1, <3>2 DEF Slot
    <3>4. ASSUME kind[k] # "wait", Quiet(k) PROVE FALSE
      <4>1. kind[k] = "plain"
        BY <1>t, <2>1, <3>4 DEF Slot, Types
      <4> QED BY <3>1, <3>3, <3>4, <4>1 DEF Quiet, OutOfTheWay, Pending
    <3>5. calm' \subseteq calm /\ broken' \subseteq broken
          /\ \A d \in Conn : \A i \in DOMAIN queue'[d] : \E j \in DOMAIN queue[d] : queue'[d][i] = queue[d][j]
      BY <2>1, <2>2, <2>5
    <3> QED BY <1>d, <2>1, <2>3, <3>4, <3>5
  <2> QED BY <2>4, <2>5
<1>9. ASSUME NEW c \in Conn, Serve(c) PROVE Calm'
  <2>1. /\ queue[c] # << >> /\ queue' = [queue EXCEPT ![c] = Tail(queue[c])]
        /\ UNCHANGED <<inner, kind, attempt, pos, named, cell, target, broken, master, status, view, calm>>
    BY <1>9 DEF Serve, envVars
  <2>2. Head(queue[c]) \in Entries /\ 1 \in DOMAIN queue[c] /\ Head(queue[c]) = queue[c][1]
    BY <1>t, <2>1, TailFacts
  <2>3. PICK k \in Call, i \in 1..2 : Head(queue[c]) = <<k, i>>
    BY <2>2 DEF Entries
  <2> DEFINE K == {j \in {k} : Waits(k, i)}
  <2>4. PICK a \in Replies(target[c]) : Dispatch(K, a)
    <3>1. Head(queue[c])[1] = k /\ Head(queue[c])[2] = i
      BY <2>3
    <3>2. PICK a \in Replies(target[c]) :
             Dispatch({j \in {Head(queue[c])[1]} : Waits(Head(queue[c])[1], Head(queue[c])[2])}, a)
      BY <1>9 DEF Serve
    <3> QED BY <3>1, <3>2
  <2>5. /\ a \in Answers \ {"none"} /\ K \in SUBSET {k} /\ (pc[k] \in {"send", "waiting"} \/ K = {})
        /\ target[c] = master /\ status[master] = "up" => a \in {"ok", "refused"}
    BY RepliesFacts DEF Answers, Waits
  <2>6. \A d \in Conn : \A h \in DOMAIN queue'[d] : \E j \in DOMAIN queue[d] : queue'[d][h] = queue[d][j]
    <3>1. \A d \in Conn : \A h \in DOMAIN queue'[d] :
             \E j \in DOMAIN queue[d] : queue'[d][h] = queue[d][j] /\ (d = c => j # 1)
      BY <1>t, <2>1, TailKept
    <3> QED BY <3>1
  <2>7. ASSUME k \in K, Quiet(k), ~(inner = "Sentinel" /\ attempt[k] = 1) PROVE a \in {"ok", "refused"}
    <3>1. attempt[k] = i /\ queue[c][1] = <<k, i>> /\ target[c] \in Node
      BY <1>w, <2>2, <2>3, <2>7 DEF Waits
    <3>2. CASE i = 2
      BY <2>2, <2>5, <2>7, <3>1, <3>2 DEF Quiet, OnCourse, Healthy
    <3>3. CASE i = 1
      <4>1. inner = "Standard"
        BY <1>a, <2>7, <3>1, <3>3
      <4> QED BY <1>s, <2>5, <2>7, <3>1, <4>1 DEF Quiet, Healthy
    <3> QED BY <3>2, <3>3
  <2>8. calm' \subseteq calm /\ broken' \subseteq broken
    BY <2>1
  <2> HIDE DEF K
  <2> QED BY <1>d, <2>1, <2>4, <2>5, <2>6, <2>7, <2>8
<1>b. ASSUME NEW C \in SUBSET Conn, NEW known, Break(C, known), UNCHANGED <<kind, attempt, pos, named>>,
             calm' = {k \in calm : ~Issued(k)}
      PROVE  Calm'
  <2>1. Dispatch(Waiting(C), "Io") /\ Waiting(C) \in SUBSET Call /\ \A k \in Waiting(C) : Issued(k)
    BY <1>b DEF Break, Waiting, Waits, Issued
  <2>2. "Io" \in Answers \ {"none"}
    BY DEF Answers
  <2>3. \A k \in Call \ Waiting(C) : SameCall(k)
    BY <1>b, <1>t, <2>1, <2>2, DispatchFacts
  <2> QED BY <1>b, <1>f, <2>1, <2>3
<1>10. ASSUME NEW c \in Conn, Drop(c) PROVE Calm'
  <2>1. PICK known : Break({c}, known)
    BY <1>10 DEF Drop
  <2>2. UNCHANGED <<kind, attempt, pos, named>> /\ calm' = {k \in calm : ~Issued(k)}
    BY <1>10 DEF Drop, Fault
  <2> QED BY <1>b, <2>1, <2>2
<1>11. ASSUME NEW n \in Node, NodeDown(n) PROVE Calm'
  <2>1. /\ Break({c \in Conn : target[c] = n}, {})
        /\ UNCHANGED <<kind, attempt, pos, named>> /\ calm' = {k \in calm : ~Issued(k)}
    BY <1>11 DEF NodeDown, Fault
  <2> QED BY <1>b, <2>1
<1>12. ASSUME NEW n \in Node, Failover(n) PROVE Calm'
  <2>1. UNCHANGED <<kind, pc, attempt, pos, named, first, res>> /\ calm' = {k \in calm : ~Issued(k)}
    BY <1>12 DEF Failover
  <2> QED BY <1>f, <2>1 DEF SameCall
<1>13. ASSUME NEW s \in DOMAIN view, SentinelDown(s) PROVE Calm'
  <2>1. UNCHANGED <<kind, pc, attempt, pos, named, first, res>> /\ calm' = {k \in calm : ~Issued(k)}
    BY <1>13 DEF SentinelDown, Fault
  <2> QED BY <1>f, <2>1 DEF SameCall
\* A node comes back, or a sentinel learns who the master is.
<1>h. ASSUME UNCHANGED <<inner, kind, pc, attempt, pos, named, first, res, cell, linkVars, master, calm>>,
             Healthy => Healthy'
      PROVE  Calm'
  <2>1. ASSUME NEW k \in Call PROVE Quiet(k) => Quiet(k)'
    <3>1. OutOfTheWay(k)' <=> OutOfTheWay(k)
      BY <1>h DEF OutOfTheWay, Issued, Pending, Slot, linkVars
    <3>2. OnCourse(k)' <=> OnCourse(k)
      BY <1>h DEF OnCourse, Slot, linkVars
    <3> QED BY <1>h, <3>1, <3>2 DEF Quiet
  <2> QED BY <1>h, <1>t, <2>1 DEF Calm, CalmOf, Issued
<1>14. ASSUME NEW n \in Node, NodeUp(n) PROVE Calm'
  <2>1. Healthy => Healthy'
    BY <1>14, <1>t DEF NodeUp, Healthy, Types, linkVars
  <2> QED BY <1>14, <1>h, <2>1 DEF NodeUp
<1>15. ASSUME NEW s \in DOMAIN view, SentinelLearns(s) PROVE Calm'
  <2>1. Healthy => Healthy'
    BY <1>15, <1>t DEF SentinelLearns, Healthy, Types, linkVars
  <2> QED BY <1>15, <1>h, <2>1 DEF SentinelLearns
<1> QED
  BY <1>1, <1>2, <1>3, <1>4, <1>5, <1>6, <1>7, <1>8, <1>9, <1>10, <1>11, <1>12, <1>13, <1>14, <1>15
     DEF ConnNext, CallStep, CreateSentinelInner, Rediscover, Environment

LEMMA IInvInit ==
  ASSUME ConnInit
  PROVE  IInv
<1>1. Honest
  BY HonestInit
<1>2. \A c \in Conn : DOMAIN queue[c] = {}
  BY DEF ConnInit
<1>3. Original \in Conn /\ Nobody \notin Conn /\ FirstMaster \in Node /\ \A k \in Call : <<k, "fresh">> \in Conn \ {Original} /\ <<k, "built">> \in Conn \ {Original}
  BY Constants
<1>4. Links
  BY <1>2, <1>3 DEF ConnInit, Links, Side, Slots
<1>5. Opens
  <2>1. \A k \in Call : /\ target[<<k, "fresh">>] = Nobody /\ target[<<k, "built">>] = Nobody
                         /\ pc[k] = "new" /\ attempt[k] = 0 /\ pos[k] = 1
    BY <1>3 DEF ConnInit
  <2>2. ASSUME NEW k \in Call PROVE OpensOf(k)
    BY <2>1 DEF OpensOf
  <2> QED BY <2>2 DEF Opens
<1>6. OneServer
  BY DEF ConnInit, OneServer
<1>7. Calm
  BY DEF ConnInit, Calm, CalmOf, Issued
<1> QED BY <1>1, <1>4, <1>5, <1>6, <1>7 DEF IInv

(* When nothing fails while a call runs, and nothing outdated is in its way,  *)
(* the master answers it, whatever state earlier faults, failovers and other  *)
(* calls have left the connection in: one retry of sentinel_retry is enough,  *)
(* and the walk over sentinel_urls never ends in vain.                        *)
THEOREM CalmCallsSucceed == ConnSpec => []CalmCallSucceeds
<1>1. ASSUME IInv, [ConnNext]_connVars PROVE IInv'
  <2>1. CASE ConnNext
    <3>1. Honest' /\ Wired'
      BY <1>1, <2>1, HonestStep, WiredStep DEF IInv, Wired
    <3>2. Calm'
      BY <1>1, <2>1, <3>1, CalmStep
    <3> QED BY <3>1, <3>2 DEF IInv, Wired
  <2>2. CASE UNCHANGED connVars
    <3>1. Honest'
      BY <1>1, <2>2, HonestIdle DEF IInv
    <3>2. Links' /\ Opens' /\ OneServer'
      BY <1>1, <2>2 DEF IInv, connVars, Links, Opens, OpensOf, OneServer, Side, Slot
    <3>3. Calm'
      BY <1>1, <2>2 DEF IInv, connVars, Calm, CalmOf, Quiet, Healthy, OutOfTheWay, OnCourse, Issued, Pending, Slot
    <3> QED BY <3>1, <3>2, <3>3 DEF IInv
  <2> QED BY <1>1, <2>1, <2>2
<1>2. ASSUME IInv PROVE CalmCallSucceeds
  BY <1>2 DEF IInv, Calm, CalmOf, Honest, Types, CalmCallSucceeds
<1> QED BY <1>1, <1>2, IInvInit, PTL DEF ConnSpec

===============================================================================
