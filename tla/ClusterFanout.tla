--------------------------- MODULE ClusterFanout ---------------------------
(***************************************************************************)
(* The commands of the cluster client that touch keys of several slots     *)
(* (cluster.rs): the keys are grouped by slot, every group becomes one     *)
(* command in a task of its own, and the answers are put together in the   *)
(* order in which the tasks finish.  The first error is returned and the   *)
(* remaining tasks are dropped where they stand.                           *)
(***************************************************************************)
EXTENDS Naturals, Sequences, FiniteSets, SequencesExt

CONSTANTS
    SlotOf(_),      \* the slot of a sequence of bytes
    FanoutCalls,    \* the calls to try: records [op, keys]
    FanoutFaults,   \* bound: how many groups can meet a failing node
    Missing         \* the value of a key that does not exist

VARIABLES
    fanout,     \* the call being made
    before,     \* key -> value when the call started
    data,       \* key -> value on the servers
    tasks,      \* slot -> the state of the group's task
    reply,      \* slot -> what the group's command answered
    out,        \* the answer put together so far
    verdict     \* "running", "ok" or "error"

fanoutVars == <<fanout, before, data, tasks, reply, out, verdict>>

ASSUME FanoutAssumption ==
    /\ \A c \in FanoutCalls :
          c \in [op : {"mget", "mset", "del", "exists"}, keys : Seq(Seq(0..255))]
    /\ FanoutFaults \in Nat

-----------------------------------------------------------------------------
(* Slots.  A key is a sequence of bytes.                                   *)

Open == 123     \* {
Close == 125    \* }

\* The position of byte b in a key, or 0.
Position(key, b) == SelectInSeq(key, LAMBDA x : x = b)

HashedPart(key) ==
    LET s == Position(key, Open)
        e == Position(key, Close)
    IN  IF s # 0 /\ e > s + 1 THEN SubSeq(key, s + 1, e - 1) ELSE key

\* The cluster specification: the brace that closes is the first one after
\* the brace that opens.
ServerPart(key) ==
    LET s == Position(key, Open)
        after == SubSeq(key, s + 1, Len(key))
        e == Position(after, Close)
        part == IF s # 0 /\ e > 1 THEN SubSeq(after, 1, e - 1) ELSE key
    IN  part

-----------------------------------------------------------------------------
(* One server's semantics of the commands: the answer and the new data.    *)

Keys == UNION {Range(c.keys) : c \in FanoutCalls}

\* cluster_slot, and the server's, for every key a call can name.
ClusterSlot == [k \in Keys |-> SlotOf(HashedPart(k))]
ServerSlot == [k \in Keys |-> SlotOf(ServerPart(k))]

\* What the command answers for these keys on data d.
Answer(op, d, keys) ==
    CASE op = "mget" -> [i \in 1..Len(keys) |-> d[keys[i]]]
      [] op = "del" -> Cardinality({k \in Range(keys) : d[k] # Missing})
      [] op = "exists" -> Cardinality({i \in DOMAIN keys : d[keys[i]] # Missing})
      [] op = "mset" -> 0

\* Every mset writes the value "new".
Effect(op, d, keys) ==
    [k \in Keys |-> IF k \notin Range(keys) THEN d[k]
                    ELSE CASE op = "mset" -> "new"
                           [] op = "del" -> Missing
                           [] OTHER -> d[k]]

-----------------------------------------------------------------------------
\* A set of positions as a list, the smallest first.
Ascending(S) ==
    [i \in 1..Cardinality(S) |->
        CHOOSE x \in S : Cardinality({y \in S : y < x}) = i - 1]

\* group_by_slot: the positions of the call's keys, slot by slot.
GroupBySlot(keys) ==
    [s \in {ClusterSlot[keys[i]] : i \in DOMAIN keys} |->
        Ascending({i \in DOMAIN keys : ClusterSlot[keys[i]] = s})]

KeysOf(s) == LET g == GroupBySlot(fanout.keys)[s]
             IN  [i \in 1..Len(g) |-> fanout.keys[g[i]]]

(* The four commands that fan out, with the answer each begins with.       *)

FanoutMget == /\ fanout.op = "mget"
              /\ out = [i \in 1..Len(fanout.keys) |-> Missing]
FanoutMset == fanout.op = "mset" /\ out = 0
FanoutDel == fanout.op = "del" /\ out = 0
FanoutExists == fanout.op = "exists" /\ out = 0

\* Nothing is sent for no keys; otherwise one task per group is spawned.
Spawn ==
    /\ tasks = [s \in DOMAIN GroupBySlot(fanout.keys) |-> "spawned"]
    /\ reply = [s \in DOMAIN tasks |-> Missing]
    /\ verdict = IF fanout.keys = << >> THEN "ok" ELSE "running"

FanoutInit ==
    /\ fanout \in FanoutCalls
    /\ before \in {d \in [Keys -> {"old", Missing}] :
                      \A k \in Keys \ Range(fanout.keys) : d[k] = Missing}
    /\ data = before
    /\ Spawn
    /\ FanoutMget \/ FanoutMset \/ FanoutDel \/ FanoutExists

\* The group's command is executed on its node, also when the task was
\* dropped after sending it.
Execute(s) ==
    /\ tasks[s] \in {"spawned", "dropped"}
    /\ reply' = [reply EXCEPT ![s] = Answer(fanout.op, data, KeysOf(s))]
    /\ data' = Effect(fanout.op, data, KeysOf(s))
    /\ tasks' = [tasks EXCEPT ![s] = IF @ = "dropped" THEN "gone" ELSE "answered"]
    /\ UNCHANGED <<fanout, before, out, verdict>>

\* A server refuses keys of several of its slots, unless the cluster
\* connection sends them to their slots one by one.
Refuse(s) ==
    /\ tasks[s] \in {"spawned", "dropped"}
    /\ \E k, j \in Range(KeysOf(s)) : ServerSlot[k] # ServerSlot[j]
    /\ tasks' = [tasks EXCEPT ![s] = "refused"]
    /\ UNCHANGED <<fanout, before, data, reply, out, verdict>>

\* The node fails, before or after it executed the command.
Failed == {s \in DOMAIN tasks : tasks[s] = "failed"}

NodeFails(s) ==
    /\ tasks[s] = "spawned"
    /\ Cardinality(Failed) < FanoutFaults
    /\ data' \in {data, Effect(fanout.op, data, KeysOf(s))}
    /\ tasks' = [tasks EXCEPT ![s] = "failed"]
    /\ UNCHANGED <<fanout, before, reply, out, verdict>>

\* Mutant: replies are appended as they arrive.
MergeInOrderOfArrival(s) ==
    IF fanout.op = "mget"
    THEN LET done == {u \in DOMAIN tasks : tasks[u] = "joined"}
             n == MapThenSumSet(LAMBDA u : Len(reply[u]), done)
         IN  [i \in DOMAIN out |-> IF i > n /\ i <= n + Len(reply[s])
                                  THEN reply[s][i - n] ELSE out[i]]
    ELSE out + reply[s]

\* What join_next yields is merged; values go where their keys were.
Merge(s) ==
    IF fanout.op = "mget"
    THEN LET g == GroupBySlot(fanout.keys)[s]
         IN  [i \in DOMAIN out |->
                 IF \E j \in DOMAIN g : g[j] = i
                 THEN reply[s][CHOOSE j \in DOMAIN g : g[j] = i] ELSE out[i]]
    ELSE out + reply[s]

\* join_next yields a task that finished.
JoinNext(s) ==
    /\ verdict = "running"
    /\ \/ /\ tasks[s] = "answered"
          /\ out' = Merge(s)
          /\ tasks' = [tasks EXCEPT ![s] = "joined"]
          /\ verdict' = IF \A u \in DOMAIN tasks \ {s} : tasks[u] = "joined"
                        THEN "ok" ELSE "running"
       \/ /\ tasks[s] \in {"failed", "refused"}
          /\ verdict' = "error"
          /\ tasks' = [u \in DOMAIN tasks |->
                          IF tasks[u] = "spawned" THEN "dropped" ELSE tasks[u]]
          /\ UNCHANGED out
    /\ UNCHANGED <<fanout, before, data, reply>>

FanoutNext ==
    \E s \in DOMAIN tasks : Execute(s) \/ Refuse(s) \/ NodeFails(s) \/ JoinNext(s)

-----------------------------------------------------------------------------
(* A fan-out that succeeds is the one command it stands for: whatever      *)
(* order the nodes answer in and however often a key is repeated, the      *)
(* answer and what the servers hold from then on are those of a server     *)
(* that owns all the keys.  It fails only when a node does or refuses a    *)
(* group, and a group is refused only for a key whose hash tag             *)
(* cluster_slot misreads: it takes the first } of the key, the server the  *)
(* first one after the {.                                                  *)
FanoutIsOneCommand ==
    /\ verdict = "ok" =>
          /\ out = Answer(fanout.op, before, fanout.keys)
          /\ data = Effect(fanout.op, before, fanout.keys)
    /\ verdict = "error" => \E s \in DOMAIN tasks : tasks[s] \in {"failed", "refused"}
    /\ \A s \in DOMAIN tasks :
          tasks[s] = "refused" => \E k \in Range(KeysOf(s)) : HashedPart(k) # ServerPart(k)

=============================================================================
