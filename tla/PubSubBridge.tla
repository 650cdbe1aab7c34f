---------------------------- MODULE PubSubBridge -----------------------------
(***************************************************************************)
(* PubSub and AsyncPubSub (facade/pubsub.rs) and the supervisor task behind *)
(* them.  Python threads or tasks put commands on a channel and wait for    *)
(* their acknowledgement; the supervisor, the only owner of the connection, *)
(* executes them, records the subscriptions, forwards messages to the       *)
(* outbound channel, and when the connection dies makes a new one and       *)
(* replays the record.  Readers take messages from the outbound channel,    *)
(* one at a time, under its mutex.                                          *)
(*                                                                          *)
(* A message is its name (channel or pattern); a confirmation is fabricated *)
(* by the supervisor.  The server is external: it may refuse a command, and *)
(* the connection may die at any moment.  The health-check PING changes no  *)
(* state and is left out, and so are the loop of the worker thread (it is   *)
(* a reader) and the counts in confirmations.                               *)
(***************************************************************************)
EXTENDS Naturals, FiniteSets, Sequences

CONSTANTS Channels, Patterns,   \* names to subscribe to
          Handled,              \* the names the program subscribes with a handler
          Callers,              \* threads or tasks that subscribe and unsubscribe
          Readers,              \* threads or tasks that read messages
          Attempts,             \* tries of one reconnect (32 in the code)
          MaxCalls,             \* bound on the calls of each caller
          MaxMessages,          \* bound on published messages
          MaxDrops,             \* bound on how often the connection dies
          Nobody

ASSUME PubSubAssumption == /\ Channels \cap Patterns = {}
                           /\ Handled \subseteq Channels \cup Patterns
                           /\ Attempts \in Nat \ {0}
                           /\ {MaxCalls, MaxMessages, MaxDrops} \subseteq Nat
                           /\ Nobody \notin Readers

Names == Channels \cup Patterns

Kinds == {"channel", "pattern", "shard"}

OfKind == [channel |-> Channels, pattern |-> Patterns, shard |-> {}]

\* What one call can name: finitely many names of its kind.
NameSets(k) == {ns \in SUBSET OfKind[k] : IsFiniteSet(ns)}

VARIABLES
  class,      \* "sync" for PubSub, "async" for AsyncPubSub
  open,       \* is self.bridge Some?
  cmds,       \* the command channel
  waiting,    \* callers waiting for an acknowledgement
  calls,      \* calls each caller has made
  handlers,   \* names with a handler in channel_handlers / pattern_handlers
  sup,        \* the supervisor: "select", "acked", "reconnect", "replay", "gone"
  cur,        \* the command it has acknowledged and not yet recorded, or Shutdown
  attempt,    \* tries made in this reconnect
  todo,       \* names the replay has still to subscribe
  subs,       \* SubscriptionState
  refused,    \* names the server refused in the last replay
  up,         \* is the connection alive?
  srv,        \* names the server has subscribed on it
  stream,     \* messages received on it and not yet forwarded
  out,        \* the outbound channel
  confirmed,  \* names with a subscribe confirmation put on out
  lock,       \* holder of the outbound mutex
  reader,     \* per reader: where it is, in which method, ignoring confirmations?
  published, drops

userVars == <<class, open, calls, handlers>>
supVars == <<cur, attempt, todo, subs, refused, confirmed>>
netVars == <<up, srv, drops>>
readVars == <<lock, reader>>

vars == <<userVars, cmds, waiting, sup, supVars, netVars, stream, out, readVars, published>>

Shutdown == [op |-> "shutdown"]

Idle == [pc |-> "idle", how |-> "next", ignore |-> FALSE]

Init == /\ class \in {"sync", "async"}
        /\ open = TRUE
        /\ cmds = << >>
        /\ waiting = {}
        /\ calls = [u \in Callers |-> 0]
        /\ handlers = {}
        /\ sup = "select"
        /\ cur = Shutdown
        /\ attempt = 0 /\ todo = {} /\ subs = {} /\ refused = {} /\ confirmed = {}
        /\ up = TRUE /\ srv = {} /\ drops = 0
        /\ stream = << >> /\ out = << >>
        /\ lock = Nobody
        /\ reader = [r \in Readers |-> Idle]
        /\ published = 0
-----------------------------------------------------------------------------
(* Methods that send a command. *)

\* Mutant: the send to a supervisor that has returned is not noticed.
SendCommandUnchecked(u, c) ==
    IF open
    THEN cmds' = Append(cmds, c) /\ waiting' = waiting \cup {u}
    ELSE UNCHANGED <<cmds, waiting>>

\* send_command: refused on a closed pubsub and on a dead supervisor, otherwise
\* queued, and the caller waits for the acknowledgement.
SendCommand(u, c) ==
    IF open /\ sup # "gone"
    THEN cmds' = Append(cmds, c) /\ waiting' = waiting \cup {u}
    ELSE UNCHANGED <<cmds, waiting>>

Calls(u) == /\ u \notin waiting
            /\ calls[u] < MaxCalls
            /\ calls' = [calls EXCEPT ![u] = @ + 1]

\* subscribe / psubscribe / ssubscribe.  Handlers are noted before anything else.
Subscribe(u, k, ns) ==
    /\ Calls(u)
    /\ ns # {} \/ k = "shard"
    /\ handlers' = handlers \cup (ns \cap Handled)
    /\ SendCommand(u, [op |-> "subscribe", by |-> u, kind |-> k, names |-> ns])
    /\ UNCHANGED <<class, open, sup, supVars, netVars, stream, out,
                   readVars, published>>

Meant(k, ns) == IF ns = {} THEN OfKind[k] ELSE ns

\* unsubscribe / punsubscribe / sunsubscribe; without names it means all of the kind.
Unsubscribe(u, k, ns) ==
    /\ Calls(u)
    /\ handlers' = handlers \ Meant(k, ns)
    /\ SendCommand(u, [op |-> "unsubscribe", by |-> u, kind |-> k, names |-> ns])
    /\ UNCHANGED <<class, open, sup, supVars, netVars, stream, out,
                   readVars, published>>

\* PyO3 refuses close(&mut self) while a sync method holds its borrow: a command
\* waiting for its acknowledgement, or get_message; __next__ lets go of it.
Borrowed == /\ class = "sync"
            /\ \/ waiting # {}
               \/ \E r \in Readers : reader[r].pc # "idle" /\ reader[r].how = "get"

\* Mutant: drops the bridge and sends no Shutdown.
CloseQuietly == /\ open /\ ~Borrowed
                /\ open' = FALSE
                /\ UNCHANGED <<cmds, class, calls, handlers, waiting, sup, supVars,
                               netVars, stream, out, readVars, published>>

\* close() / aclose().
Close == /\ open /\ ~Borrowed
         /\ open' = FALSE
         /\ cmds' = IF sup = "gone" THEN cmds ELSE Append(cmds, Shutdown)
         /\ UNCHANGED <<class, calls, handlers, waiting, sup, supVars,
                        netVars, stream, out, readVars, published>>

\* run_in_thread starts its thread, a reader, unless a recorded name has no
\* handler; it changes nothing else.
RunInThreadStarts == open /\ subs \subseteq handlers
-----------------------------------------------------------------------------
(* The supervisor. *)

\* The task returns: its ends of both channels go, and with them every
\* acknowledgement that is still queued.
SupervisorReturns == /\ sup' = "gone"
                     /\ cmds' = << >>
                     /\ waiting' = {}
                     /\ up' = FALSE /\ srv' = {} /\ stream' = << >>

HandleShutdown == /\ sup = "select"
                  /\ cmds # << >> /\ Head(cmds) = Shutdown
                  /\ SupervisorReturns
                  /\ UNCHANGED <<userVars, supVars, drops, out, readVars, published>>

NextCommand(c) == /\ sup = "select"
                  /\ cmds # << >> /\ Head(cmds) = c
                  /\ cmds' = Tail(cmds)

Applied(s, c) == IF c.op = "subscribe" THEN s \cup c.names ELSE s \ Meant(c.kind, c.names)

Acknowledge(c) == waiting' = waiting \ {c.by}

\* The server did it; the acknowledgement goes out before the record is made.
CommandDone(c) ==
    /\ NextCommand(c) /\ c.op # "shutdown" /\ c.kind # "shard"
    /\ up
    /\ srv' = Applied(srv, c)
    /\ Acknowledge(c)
    /\ cur' = c
    /\ sup' = "acked"
    /\ UNCHANGED <<class, open, calls, handlers, attempt, todo, subs, refused,
                   confirmed, up, drops, stream, out, readVars, published>>

\* An error reply, or a shard command, which is always refused: nothing changes.
CommandRefused(c) ==
    /\ NextCommand(c) /\ c.op # "shutdown"
    /\ up \/ c.kind = "shard"
    /\ Acknowledge(c)
    /\ UNCHANGED <<userVars, sup, supVars, netVars, stream, out, readVars, published>>

\* An I/O error: acknowledged as failed, and a reconnect.
CommandBreaks(c) ==
    /\ NextCommand(c) /\ c.op # "shutdown" /\ c.kind # "shard"
    /\ IF up THEN drops < MaxDrops /\ drops' = drops + 1 ELSE UNCHANGED drops
    /\ up' = FALSE /\ srv' = {}
    /\ Acknowledge(c)
    /\ sup' = "reconnect" /\ attempt' = 0
    /\ UNCHANGED <<userVars, cur, todo, subs, refused, confirmed, stream, out, readVars,
                   published>>

Confirmations(c) == {[type |-> c.op, name |-> n] : n \in c.names}

\* Mutant: no confirmation is fabricated.
RecordSilently ==
    /\ sup = "acked"
    /\ subs' = Applied(subs, cur)
    /\ refused' = refused \ Meant(cur.kind, cur.names)
    /\ cur' = Shutdown
    /\ sup' = "select"
    /\ UNCHANGED <<userVars, cmds, waiting, attempt, todo, confirmed, netVars, stream, out,
                   readVars, published>>

\* update_subscription_state and emit_subscribe_confirmations; the order of
\* several confirmations does not matter, one of no name stands for all.
Record ==
    /\ sup = "acked"
    /\ subs' = Applied(subs, cur)
    /\ refused' = refused \ Meant(cur.kind, cur.names)
    /\ \E s \in [1..Cardinality(cur.names) -> Confirmations(cur)] :
          /\ \A m \in Confirmations(cur) : \E i \in DOMAIN s : s[i] = m
          /\ out' = out \o (IF cur.names = {} THEN <<[type |-> cur.op, name |-> Nobody]>> ELSE s)
    /\ confirmed' = IF cur.op = "subscribe" THEN confirmed \cup cur.names ELSE confirmed
    /\ cur' = Shutdown
    /\ sup' = "select"
    /\ UNCHANGED <<userVars, cmds, waiting, attempt, todo, netVars, stream, readVars,
                   published>>

\* Commands come first in the biased select!.
Forward == /\ sup = "select" /\ cmds = << >>
           /\ stream # << >>
           /\ out' = Append(out, [type |-> "message", name |-> Head(stream)])
           /\ stream' = Tail(stream)
           /\ UNCHANGED <<userVars, cmds, waiting, sup, supVars, netVars, readVars, published>>

StreamEnds == /\ sup = "select" /\ cmds = << >>
              /\ stream = << >> /\ ~up
              /\ sup' = "reconnect" /\ attempt' = 0
              /\ UNCHANGED <<userVars, cmds, waiting, cur, todo, subs, refused, confirmed,
                             netVars, stream, out, readVars, published>>

\* Mutant: one attempt too many.
ConnectFailsOnceMore ==
    /\ sup = "reconnect"
    /\ attempt' = attempt + 1
    /\ IF attempt = Attempts
       THEN SupervisorReturns
       ELSE UNCHANGED <<sup, cmds, waiting, up, srv, stream>>
    /\ UNCHANGED <<userVars, cur, todo, subs, refused, confirmed, drops, out, readVars,
                   published>>

\* try_reconnect, one attempt.
ConnectFails == /\ sup = "reconnect"
                /\ attempt' = attempt + 1
                /\ IF attempt + 1 = Attempts
                   THEN SupervisorReturns
                   ELSE UNCHANGED <<sup, cmds, waiting, up, srv, stream>>
                /\ UNCHANGED <<userVars, cur, todo, subs, refused, confirmed, drops, out,
                               readVars, published>>

\* Mutant: a new connection without a replay.
ConnectsWithoutReplay ==
    /\ sup = "reconnect"
    /\ up' = TRUE /\ srv' = {} /\ stream' = << >>
    /\ todo' = {} /\ refused' = {}
    /\ sup' = "replay" /\ attempt' = 0
    /\ UNCHANGED <<userVars, cmds, waiting, cur, subs, confirmed, drops, out, readVars,
                   published>>

Connects == /\ sup = "reconnect"
            /\ up' = TRUE /\ srv' = {} /\ stream' = << >>
            /\ todo' = subs
            /\ refused' = {}
            /\ sup' = "replay" /\ attempt' = 0
            /\ UNCHANGED <<userVars, cmds, waiting, cur, subs, confirmed, drops, out,
                           readVars, published>>

\* One recorded name is subscribed again, channels first; the result is ignored.
Replay(n) == /\ sup = "replay" /\ n \in todo
             /\ n \in Patterns => todo \cap Channels = {}
             /\ todo' = todo \ {n}
             /\ \/ up /\ srv' = srv \cup {n} /\ UNCHANGED refused
                \/ up /\ refused' = refused \cup {n} /\ UNCHANGED srv
                \/ ~up /\ UNCHANGED <<srv, refused>>
             /\ UNCHANGED <<userVars, cmds, waiting, sup, cur, attempt, subs, confirmed, up,
                            drops, stream, out, readVars, published>>

ReplayEnds == /\ sup = "replay" /\ todo = {}
              /\ sup' = "select"
              /\ UNCHANGED <<userVars, cmds, waiting, supVars, netVars, stream, out, readVars,
                             published>>

Commands == {[op |-> o, by |-> u, kind |-> k, names |-> ns] :
               o \in {"subscribe", "unsubscribe"}, u \in Callers, k \in Kinds,
               ns \in UNION {NameSets(kk) : kk \in Kinds}}

Supervisor == \/ HandleShutdown
              \/ cmds # << >> /\ \/ CommandDone(Head(cmds))
                                 \/ CommandRefused(Head(cmds))
                                 \/ CommandBreaks(Head(cmds))
              \/ Record
              \/ Forward
              \/ StreamEnds
              \/ ConnectFails
              \/ Connects
              \/ \E n \in Names : Replay(n)
              \/ ReplayEnds
-----------------------------------------------------------------------------
(* The server and the network (external). *)

Publish(n) == /\ published < MaxMessages
              /\ published' = published + 1
              /\ stream' = IF up /\ n \in srv THEN Append(stream, n) ELSE stream
              /\ UNCHANGED <<userVars, cmds, waiting, sup, supVars, netVars, out, readVars>>

ConnectionDies == /\ up /\ drops < MaxDrops
                  /\ drops' = drops + 1
                  /\ up' = FALSE /\ srv' = {}
                  /\ UNCHANGED <<userVars, cmds, waiting, sup, supVars, stream, out, readVars,
                                 published>>
-----------------------------------------------------------------------------
(* Readers. *)

\* __next__ (sync, waits for ever), get_message / aget_message (waits for its
\* timeout), __anext__ (async, aget_message with the default timeout).  On a
\* closed pubsub they stop or raise at once.
StartRead(r, how, ign) ==
    /\ open /\ reader[r].pc = "idle"
    /\ how = "next" => class = "sync"
    /\ how = "anext" => class = "async"
    /\ reader' = [reader EXCEPT ![r] = [pc |-> "lock", how |-> how, ignore |-> ign]]
    /\ UNCHANGED <<userVars, cmds, waiting, sup, supVars, netVars, stream, out, lock, published>>

LockOutbound(r) == /\ reader[r].pc = "lock" /\ lock = Nobody
                   /\ lock' = r
                   /\ reader' = [reader EXCEPT ![r].pc = "recv"]
                   /\ UNCHANGED <<userVars, cmds, waiting, sup, supVars, netVars, stream, out,
                                  published>>

ReadEnds(r) == lock' = Nobody /\ reader' = [reader EXCEPT ![r] = Idle]

\* A confirmation the reader does not want sends it round its loop again.
Receive(r) == /\ reader[r].pc = "recv" /\ out # << >>
              /\ out' = Tail(out)
              /\ IF reader[r].ignore /\ Head(out).type # "message"
                 THEN lock' = Nobody /\ reader' = [reader EXCEPT ![r].pc = "lock"]
                 ELSE ReadEnds(r)
              /\ UNCHANGED <<userVars, cmds, waiting, sup, supVars, netVars, stream, published>>

\* The timeout expires with the channel empty: None.
TimesOut(r) == /\ reader[r].pc = "recv" /\ reader[r].how # "next"
               /\ out = << >>
               /\ ReadEnds(r)
               /\ UNCHANGED <<userVars, cmds, waiting, sup, supVars, netVars, stream, out,
                              published>>

\* The sender is gone and the channel drained: StopIteration, or None.
ChannelEnds(r) == /\ reader[r].pc = "recv"
                  /\ out = << >> /\ sup = "gone"
                  /\ ReadEnds(r)
                  /\ UNCHANGED <<userVars, cmds, waiting, sup, supVars, netVars, stream, out,
                                 published>>

Reads(r) == LockOutbound(r) \/ Receive(r) \/ TimesOut(r) \/ ChannelEnds(r)
-----------------------------------------------------------------------------
User == \/ \E u \in Callers, k \in Kinds : \E ns \in NameSets(k) :
              Subscribe(u, k, ns) \/ Unsubscribe(u, k, ns)
        \/ Close
        \/ \E r \in Readers, how \in {"next", "get", "anext"}, ign \in BOOLEAN :
              StartRead(r, how, ign)

Next == \/ User
        \/ Supervisor
        \/ \E n \in Names : Publish(n)
        \/ ConnectionDies
        \/ \E r \in Readers : Reads(r)

Spec == Init /\ [][Next]_vars

(***************************************************************************)
(* Tokio polls a task that can go on, the server answers or the connection  *)
(* dies, and tokio's mutex is fair.  Nobody has to call, publish or close.  *)
(***************************************************************************)
Fairness == /\ WF_vars(Supervisor)
            /\ \A r \in Readers : SF_vars(LockOutbound(r))
                                  /\ WF_vars(Receive(r) \/ TimesOut(r) \/ ChannelEnds(r))

FairSpec == Spec /\ Fairness
-----------------------------------------------------------------------------
(* Properties. *)

TypeOK == /\ class \in {"sync", "async"} /\ open \in BOOLEAN
          /\ cmds \in Seq(Commands \cup {Shutdown})
          /\ waiting \subseteq Callers
          /\ calls \in [Callers -> 0..MaxCalls]
          /\ handlers \subseteq Names
          /\ sup \in {"select", "acked", "reconnect", "replay", "gone"}
          /\ cur \in Commands \cup {Shutdown}
          /\ attempt \in 0..Attempts
          /\ todo \subseteq subs
          /\ subs \subseteq Names /\ refused \subseteq Names /\ confirmed \subseteq Names
          /\ up \in BOOLEAN /\ srv \subseteq Names
          /\ stream \in Seq(Names)
          /\ out \in Seq([type : {"subscribe", "unsubscribe", "message"},
                          name : Names \cup {Nobody}])
          /\ lock \in Readers \cup {Nobody}
          /\ reader \in [Readers -> [pc : {"idle", "lock", "recv"},
                                     how : {"next", "get", "anext"}, ignore : BOOLEAN]]
          /\ published \in 0..MaxMessages /\ drops \in 0..MaxDrops

(* Whenever the supervisor waits for work on a live connection, the server   *)
(* has exactly the subscriptions on record, but for those it refused in the  *)
(* last replay.                                                              *)
RecordAgreesWithServer == sup = "select" /\ up => srv = subs \ refused

(* A message is put on the outbound channel only after a subscribe           *)
(* confirmation for its name, across reconnects too.                         *)
ConfirmedFirst == \A i \in DOMAIN out : out[i].type = "message" => out[i].name \in confirmed

(* Every caller waiting for an acknowledgement has its command in the queue  *)
(* of a supervisor that is still there to answer or to drop it.              *)
CallerIsQueued == \A u \in waiting :
    /\ sup # "gone"
    /\ \E i \in DOMAIN cmds : cmds[i] # Shutdown /\ cmds[i].by = u

(* subscribe() and its like return, also when the connection dies, when the  *)
(* supervisor gives up and when the pubsub is closed.                        *)
CallsReturn == \A u \in Callers : u \in waiting ~> u \notin waiting

(* After close() a listen() blocked in another thread ends.                  *)
ListenEnds == \A r \in Readers :
    (~open /\ reader[r].pc # "idle") ~> (reader[r].pc = "idle")

(* However the connection fails, the server comes to have every recorded name *)
(* again, but for those it refused, unless the supervisor has given up.      *)
Resubscribed == []<>(subs \ refused \subseteq srv \/ sup = "gone")

(* Once a subscribe() is acknowledged, and may have returned to its caller,   *)
(* run_in_thread refuses to start for a name of it that has no handler.      *)
WorkerHasHandlers == /\ sup = "acked" /\ cur.op = "subscribe"
                     /\ RunInThreadStarts
                     => cur.names \subseteq handlers
=============================================================================
