-------------------------- MODULE PubSubBridgeProofs -------------------------
(***************************************************************************)
(* Theorems about PubSubBridge, for any names, callers, readers and bounds. *)
(***************************************************************************)
EXTENDS PubSubBridge, SequenceTheorems, FiniteSetTheorems, TLAPS

Messages == [type : {"subscribe", "unsubscribe", "message"}, name : Names \cup {Nobody}]

(* A subscribe that the supervisor can execute names something: the methods  *)
(* refuse an empty list, but for shards, which the server refuses.           *)
Sensible(c) == c.op = "subscribe" /\ c.kind # "shard" => c.names # {}

(* Where the supervisor is says what its local variables hold.               *)
Stages == /\ sup = "acked" => cur # Shutdown /\ cur.kind # "shard" /\ Sensible(cur)
          /\ sup # "replay" => todo = {}
          /\ sup = "reconnect" => attempt < Attempts
          /\ \A i \in DOMAIN cmds : cmds[i] # Shutdown => Sensible(cmds[i])

TypeInv == TypeOK /\ Stages

LEMMA Bounds == MaxCalls \in Nat /\ MaxMessages \in Nat /\ MaxDrops \in Nat /\ Attempts \in Nat \ {0}
  BY PubSubAssumption

LEMMA CommandFields ==
  ASSUME NEW c \in Commands
  PROVE  /\ c.op \in {"subscribe", "unsubscribe"} /\ c.by \in Callers /\ c.kind \in Kinds
         /\ c.names \subseteq Names /\ IsFiniteSet(c.names)
         /\ c # Shutdown
  BY DEF Commands, NameSets, OfKind, Kinds, Names, Shutdown

LEMMA CommandTypes ==
  ASSUME NEW o \in {"subscribe", "unsubscribe"}, NEW u \in Callers, NEW k \in Kinds,
         NEW ns \in NameSets(k)
  PROVE  [op |-> o, by |-> u, kind |-> k, names |-> ns] \in Commands
  BY DEF Commands

(* The queue of commands keeps its elements.                                 *)
LEMMA QueueAppend ==
  ASSUME NEW S, NEW q \in Seq(S), NEW c \in S
  PROVE  /\ Append(q, c) \in Seq(S)
         /\ Len(Append(q, c)) = Len(q) + 1
         /\ \A i \in DOMAIN q : i \in DOMAIN Append(q, c) /\ Append(q, c)[i] = q[i]
         /\ \A i \in DOMAIN Append(q, c) : i \in DOMAIN q \/ Append(q, c)[i] = c
         /\ Len(q) + 1 \in DOMAIN Append(q, c) /\ Append(q, c)[Len(q) + 1] = c
  BY AppendProperties

LEMMA QueueTail ==
  ASSUME NEW S, NEW q \in Seq(S), q # << >>
  PROVE  /\ Head(q) \in S /\ Tail(q) \in Seq(S)
         /\ 1 \in DOMAIN q /\ Head(q) = q[1]
         /\ \A i \in DOMAIN Tail(q) : i + 1 \in DOMAIN q /\ Tail(q)[i] = q[i + 1]
         /\ \A i \in DOMAIN q : i # 1 => i - 1 \in DOMAIN Tail(q) /\ Tail(q)[i - 1] = q[i]
<1>1. Head(q) \in S /\ Tail(q) \in Seq(S) /\ Len(Tail(q)) = Len(q) - 1
      /\ \A i \in 1..Len(Tail(q)) : Tail(q)[i] = q[i + 1]
  BY HeadTailProperties
<1>2. Len(q) \in Nat \ {0} /\ DOMAIN q = 1..Len(q)
  BY EmptySeq
<1>3. DOMAIN Tail(q) = 1..(Len(q) - 1)
  BY <1>1
<1> QED BY <1>1, <1>2, <1>3

(* Queueing a command keeps the types of what it touches.                    *)
LEMMA SendTypes ==
  ASSUME TypeInv, NEW u \in Callers, NEW c \in Commands, Sensible(c), SendCommand(u, c)
  PROVE  /\ cmds' \in Seq(Commands \cup {Shutdown}) /\ waiting' \subseteq Callers
         /\ \A i \in DOMAIN cmds' : cmds'[i] # Shutdown => Sensible(cmds'[i])
<1>1. cmds \in Seq(Commands \cup {Shutdown}) /\ waiting \subseteq Callers
      /\ \A i \in DOMAIN cmds : cmds[i] # Shutdown => Sensible(cmds[i])
  BY DEF TypeInv, TypeOK, Stages
<1>2. CASE UNCHANGED <<cmds, waiting>>
  BY <1>1, <1>2
<1>3. CASE cmds' = Append(cmds, c) /\ waiting' = waiting \cup {u}
  BY <1>1, <1>3, QueueAppend
<1> QED BY <1>2, <1>3 DEF SendCommand

(* What the supervisor takes from the queue, and what is left there.         *)
LEMMA NextCommandTypes ==
  ASSUME TypeInv, cmds # << >>, NEW c, NextCommand(c), c.op # "shutdown"
  PROVE  /\ c \in Commands /\ c # Shutdown /\ Sensible(c)
         /\ cmds' \in Seq(Commands \cup {Shutdown})
         /\ \A i \in DOMAIN cmds' : cmds'[i] # Shutdown => Sensible(cmds'[i])
<1>1. cmds \in Seq(Commands \cup {Shutdown})
      /\ \A i \in DOMAIN cmds : cmds[i] # Shutdown => Sensible(cmds[i])
  BY DEF TypeInv, TypeOK, Stages
<1>2. c = Head(cmds) /\ cmds' = Tail(cmds)
  BY DEF NextCommand
<1>3. c # Shutdown
  BY DEF Shutdown
<1> QED BY <1>1, <1>2, <1>3, QueueTail

LEMMA ReturnTypes ==
  ASSUME TypeInv, SupervisorReturns
  PROVE  /\ sup' = "gone" /\ cmds' \in Seq(Commands \cup {Shutdown}) /\ waiting' \subseteq Callers
         /\ up' \in BOOLEAN /\ srv' \subseteq Names /\ stream' \in Seq(Names)
         /\ \A i \in DOMAIN cmds' : cmds'[i] # Shutdown => Sensible(cmds'[i])
<1>1. DOMAIN cmds' = {}
  BY DEF SupervisorReturns
<1>2. cmds' \in Seq(Commands \cup {Shutdown}) /\ stream' \in Seq(Names)
  BY DEF SupervisorReturns
<1> QED BY <1>1, <1>2 DEF SupervisorReturns

LEMMA TypeInit == Init => TypeInv
<1> SUFFICES ASSUME Init PROVE TypeInv
  OBVIOUS
<1>1. Idle \in [pc : {"idle", "lock", "recv"}, how : {"next", "get", "anext"}, ignore : BOOLEAN]
  BY DEF Idle
<1>2. << >> \in Seq(Commands \cup {Shutdown}) /\ << >> \in Seq(Names) /\ << >> \in Seq(Messages)
  OBVIOUS
<1>3. TypeOK
  BY <1>1, <1>2, PubSubAssumption DEF Init, TypeOK, Messages
<1> QED BY <1>3, PubSubAssumption DEF Init, TypeInv, Stages

(* The methods of the program.                                               *)
LEMMA UserTypes == ASSUME TypeInv, User PROVE TypeInv'
<1> USE DEF TypeInv
<1>1. ASSUME NEW u \in Callers, NEW k \in Kinds, NEW ns \in NameSets(k), Subscribe(u, k, ns)
      PROVE  TypeInv'
  <2> DEFINE c == [op |-> "subscribe", by |-> u, kind |-> k, names |-> ns]
  <2>1. c \in Commands /\ Sensible(c) /\ SendCommand(u, c)
    BY <1>1, CommandTypes DEF Sensible, Subscribe
  <2>2. /\ cmds' \in Seq(Commands \cup {Shutdown}) /\ waiting' \subseteq Callers
        /\ \A i \in DOMAIN cmds' : cmds'[i] # Shutdown => Sensible(cmds'[i])
    <3> HIDE DEF c
    <3> QED BY <2>1, SendTypes
  <2>3. calls' \in [Callers -> 0..MaxCalls]
    BY <1>1, PubSubAssumption DEF Subscribe, Calls, TypeOK
  <2>4. handlers' \subseteq Names
    BY <1>1, PubSubAssumption DEF Subscribe, TypeOK, Names
  <2>5. UNCHANGED <<class, open, sup, supVars, netVars, stream, out, readVars, published>>
    BY <1>1 DEF Subscribe
  <2> QED BY <2>2, <2>3, <2>4, <2>5 DEF TypeOK, Stages, supVars, netVars, readVars
<1>2. ASSUME NEW u \in Callers, NEW k \in Kinds, NEW ns \in NameSets(k), Unsubscribe(u, k, ns)
      PROVE  TypeInv'
  <2> DEFINE c == [op |-> "unsubscribe", by |-> u, kind |-> k, names |-> ns]
  <2>1. c \in Commands /\ Sensible(c) /\ SendCommand(u, c)
    BY <1>2, CommandTypes DEF Sensible, Unsubscribe
  <2>2. /\ cmds' \in Seq(Commands \cup {Shutdown}) /\ waiting' \subseteq Callers
        /\ \A i \in DOMAIN cmds' : cmds'[i] # Shutdown => Sensible(cmds'[i])
    <3> HIDE DEF c
    <3> QED BY <2>1, SendTypes
  <2>3. calls' \in [Callers -> 0..MaxCalls]
    BY <1>2, PubSubAssumption DEF Unsubscribe, Calls, TypeOK
  <2>4. handlers' \subseteq Names
    BY <1>2 DEF Unsubscribe, TypeOK
  <2>5. UNCHANGED <<class, open, sup, supVars, netVars, stream, out, readVars, published>>
    BY <1>2 DEF Unsubscribe
  <2> QED BY <2>2, <2>3, <2>4, <2>5 DEF TypeOK, Stages, supVars, netVars, readVars
<1>3. CASE Close
  <2>1. /\ cmds' \in Seq(Commands \cup {Shutdown})
        /\ \A i \in DOMAIN cmds' : cmds'[i] # Shutdown => Sensible(cmds'[i])
    BY <1>3, QueueAppend DEF Close, TypeOK, Stages
  <2> QED BY <1>3, <2>1 DEF Close, TypeOK, Stages, supVars, netVars, readVars
<1>4. ASSUME NEW r \in Readers, NEW how \in {"next", "get", "anext"}, NEW ign \in BOOLEAN,
             StartRead(r, how, ign)
      PROVE  TypeInv'
  BY <1>4 DEF StartRead, TypeOK, Stages, userVars, supVars, netVars
<1> QED BY <1>1, <1>2, <1>3, <1>4 DEF User

(* The supervisor.                                                           *)
LEMMA SupervisorTypes == ASSUME TypeInv, Supervisor PROVE TypeInv'
<1> USE DEF TypeInv, userVars, supVars, netVars, readVars
<1> USE PubSubAssumption
<1>1. CASE HandleShutdown
  BY <1>1, ReturnTypes DEF HandleShutdown, TypeOK, Stages
<1>2. ASSUME NEW c, cmds # << >>, CommandDone(c) PROVE TypeInv'
  <2>1. /\ c \in Commands /\ c # Shutdown /\ Sensible(c)
        /\ cmds' \in Seq(Commands \cup {Shutdown})
        /\ \A i \in DOMAIN cmds' : cmds'[i] # Shutdown => Sensible(cmds'[i])
    BY <1>2, NextCommandTypes DEF CommandDone
  <2>2. srv' \subseteq Names
    BY <1>2, <2>1, CommandFields DEF CommandDone, Applied, TypeOK
  <2> QED BY <1>2, <2>1, <2>2 DEF CommandDone, NextCommand, Acknowledge, TypeOK, Stages
<1>3. ASSUME NEW c, cmds # << >>, CommandRefused(c) PROVE TypeInv'
  <2>1. /\ cmds' \in Seq(Commands \cup {Shutdown})
        /\ \A i \in DOMAIN cmds' : cmds'[i] # Shutdown => Sensible(cmds'[i])
    BY <1>3, NextCommandTypes DEF CommandRefused
  <2> QED BY <1>3, <2>1 DEF CommandRefused, Acknowledge, TypeOK, Stages
<1>4. ASSUME NEW c, cmds # << >>, CommandBreaks(c) PROVE TypeInv'
  <2>1. /\ cmds' \in Seq(Commands \cup {Shutdown})
        /\ \A i \in DOMAIN cmds' : cmds'[i] # Shutdown => Sensible(cmds'[i])
    BY <1>4, NextCommandTypes DEF CommandBreaks
  <2>2. drops' \in 0..MaxDrops
    BY <1>4, Bounds DEF CommandBreaks, TypeOK
  <2>3. attempt' \in 0..Attempts /\ attempt' < Attempts
    BY <1>4, Bounds DEF CommandBreaks
  <2>4. todo' = {} /\ todo' \subseteq subs' /\ sup' = "reconnect"
    BY <1>4 DEF CommandBreaks, NextCommand, Stages
  <2> QED BY <1>4, <2>1, <2>2, <2>3, <2>4 DEF CommandBreaks, Acknowledge, TypeOK, Stages
<1>5. CASE Record
  <2>1. cur \in Commands /\ todo = {}
    BY <1>5 DEF Record, TypeOK, Stages
  <2>2. subs' \subseteq Names /\ refused' \subseteq Names /\ confirmed' \subseteq Names
    BY <1>5, <2>1, CommandFields DEF Record, Applied, TypeOK
  <2>3. out' \in Seq(Messages)
    <3>1. Confirmations(cur) \subseteq Messages
      BY <2>1, CommandFields DEF Confirmations, Messages
    <3>2. <<[type |-> cur.op, name |-> Nobody]>> \in Seq(Messages)
      BY <2>1, CommandFields DEF Messages
    <3>3. Cardinality(cur.names) \in Nat
      BY <2>1, CommandFields, FS_CardinalityType
    <3>4. ASSUME NEW s \in [1..Cardinality(cur.names) -> Confirmations(cur)]
          PROVE  s \in Seq(Messages)
      <4>1. s \in [1..Cardinality(cur.names) -> Messages]
        BY <3>1
      <4> QED BY <3>3, <4>1, IsASeq
    <3>5. out \in Seq(Messages)
      BY DEF TypeOK, Messages
    <3> QED BY <1>5, <3>2, <3>4, <3>5, ConcatProperties DEF Record
  <2> QED BY <1>5, <2>1, <2>2, <2>3 DEF Record, Messages, TypeOK, Stages
<1>6. CASE Forward
  <2>1. Head(stream) \in Names /\ stream' \in Seq(Names)
    BY <1>6, QueueTail DEF Forward, TypeOK
  <2>2. out' \in Seq(Messages)
    <3>1. [type |-> "message", name |-> Head(stream)] \in Messages
      BY <2>1 DEF Messages
    <3>2. out \in Seq(Messages)
      BY DEF TypeOK, Messages
    <3> QED BY <1>6, <3>1, <3>2, AppendProperties DEF Forward
  <2> QED BY <1>6, <2>1, <2>2 DEF Forward, Messages, TypeOK, Stages
<1>7. CASE StreamEnds
  BY <1>7 DEF StreamEnds, TypeOK, Stages
<1>8. CASE ConnectFails
  <2>1. attempt' \in 0..Attempts
    BY <1>8 DEF ConnectFails, TypeOK, Stages
  <2>2. CASE attempt + 1 = Attempts /\ SupervisorReturns
    BY <1>8, <2>1, <2>2, ReturnTypes DEF ConnectFails, TypeOK, Stages
  <2>3. CASE attempt + 1 # Attempts /\ UNCHANGED <<sup, cmds, waiting, up, srv, stream>>
    BY <1>8, <2>1, <2>3 DEF ConnectFails, TypeOK, Stages
  <2> QED BY <1>8, <2>2, <2>3 DEF ConnectFails
<1>9. CASE Connects
  BY <1>9 DEF Connects, TypeOK, Stages
<1>10. ASSUME NEW n \in Names, Replay(n) PROVE TypeInv'
  BY <1>10 DEF Replay, TypeOK, Stages
<1>11. CASE ReplayEnds
  BY <1>11 DEF ReplayEnds, TypeOK, Stages
<1> QED BY <1>1, <1>2, <1>3, <1>4, <1>5, <1>6, <1>7, <1>8, <1>9, <1>10, <1>11 DEF Supervisor

LEMMA TypeStep == TypeInv /\ [Next]_vars => TypeInv'
<1> SUFFICES ASSUME TypeInv, [Next]_vars PROVE TypeInv'
  OBVIOUS
<1> USE DEF TypeInv, userVars, supVars, netVars, readVars
<1>1. ASSUME NEW n \in Names, Publish(n) PROVE TypeInv'
  <2>1. stream' \in Seq(Names)
    BY <1>1, AppendProperties DEF Publish, TypeOK
  <2> QED BY <1>1, <2>1, PubSubAssumption DEF Publish, TypeOK, Stages
<1>2. CASE ConnectionDies
  <2>1. drops' \in 0..MaxDrops
    BY <1>2, Bounds DEF ConnectionDies, TypeOK
  <2> QED BY <1>2, <2>1 DEF ConnectionDies, TypeOK, Stages
<1>3. ASSUME NEW r \in Readers, Reads(r) PROVE TypeInv'
  <2>0. Idle \in [pc : {"idle", "lock", "recv"}, how : {"next", "get", "anext"},
                   ignore : BOOLEAN]
    BY DEF Idle
  <2>1. reader' \in [Readers -> [pc : {"idle", "lock", "recv"}, how : {"next", "get", "anext"},
                                 ignore : BOOLEAN]]
    <3>1. CASE LockOutbound(r)
      BY <3>1 DEF LockOutbound, TypeOK
    <3>2. CASE Receive(r)
      <4>1. \/ reader' = [reader EXCEPT ![r].pc = "lock"]
            \/ reader' = [reader EXCEPT ![r] = Idle]
        BY <3>2 DEF Receive, ReadEnds
      <4>2. CASE reader' = [reader EXCEPT ![r].pc = "lock"]
        BY <4>2 DEF TypeOK
      <4>3. CASE reader' = [reader EXCEPT ![r] = Idle]
        BY <2>0, <4>3 DEF TypeOK
      <4> QED BY <4>1, <4>2, <4>3
    <3>3. CASE TimesOut(r) \/ ChannelEnds(r)
      BY <2>0, <3>3 DEF TimesOut, ChannelEnds, ReadEnds, TypeOK
    <3> QED BY <1>3, <3>1, <3>2, <3>3 DEF Reads
  <2>2. out' \in Seq(Messages)
    <3>1. out \in Seq(Messages)
      BY DEF TypeOK, Messages
    <3>2. out' = out \/ (out # << >> /\ out' = Tail(out))
      BY <1>3 DEF Reads, LockOutbound, Receive, TimesOut, ChannelEnds
    <3> QED BY <3>1, <3>2, QueueTail
  <2>3. lock' \in Readers \cup {Nobody}
    BY <1>3 DEF Reads, LockOutbound, Receive, TimesOut, ChannelEnds, ReadEnds, TypeOK
  <2>4. UNCHANGED <<userVars, cmds, waiting, sup, supVars, netVars, stream, published>>
    BY <1>3 DEF Reads, LockOutbound, Receive, TimesOut, ChannelEnds
  <2> QED BY <2>1, <2>2, <2>3, <2>4 DEF TypeOK, Messages, Stages
<1>4. CASE UNCHANGED vars
  BY <1>4 DEF vars, TypeOK, Stages
<1> QED BY <1>1, <1>2, <1>3, <1>4, UserTypes, SupervisorTypes DEF Next

(* Every variable keeps its type, for any names, callers, readers and bounds. *)
THEOREM TypeCorrect == Spec => []TypeOK
<1>1. Spec => []TypeInv
  BY TypeInit, TypeStep, PTL DEF Spec
<1> QED BY <1>1, PTL DEF TypeInv

-----------------------------------------------------------------------------
(* The record and the server. *)

(* What the server has at each stage of the supervisor: while a command is   *)
(* acknowledged and not recorded it is ahead of the record by that command,  *)
(* and in a replay behind it by the names still to do, none of which has     *)
(* been refused.                                                             *)
Agreement ==
    /\ sup = "select" /\ up => srv = subs \ refused
    /\ sup = "acked" /\ up => srv = Applied(subs \ refused, cur)
    /\ sup = "replay" => refused \cap todo = {}
    /\ sup = "replay" /\ up => srv = (subs \ todo) \ refused

(* Recording a command brings the record to where the server is.             *)
LEMMA RecordCatchesUp ==
  ASSUME NEW c \in Commands, c.kind # "shard", Sensible(c), NEW S, NEW R
  PROVE  Applied(S, c) \ (R \ Meant(c.kind, c.names)) = Applied(S \ R, c)
<1>1. CASE c.op = "subscribe"
  <2>1. Meant(c.kind, c.names) = c.names
    BY <1>1 DEF Sensible, Meant
  <2> QED BY <1>1, <2>1 DEF Applied
<1>2. CASE c.op # "subscribe"
  BY <1>2 DEF Applied
<1> QED BY <1>1, <1>2

LEMMA AgreementStep == TypeInv /\ Agreement /\ [Next]_vars => Agreement'
<1> SUFFICES ASSUME TypeInv, Agreement, [Next]_vars PROVE Agreement'
  OBVIOUS
<1> USE DEF userVars, supVars, netVars, readVars
<1>1. CASE User
  <2>1. UNCHANGED <<sup, supVars, netVars>>
    BY <1>1 DEF User, Subscribe, Unsubscribe, Close, StartRead
  <2> QED BY <2>1 DEF Agreement, Applied, Meant
<1>2. CASE HandleShutdown
  BY <1>2 DEF HandleShutdown, SupervisorReturns, Agreement
<1>3. ASSUME NEW c, CommandDone(c) PROVE Agreement'
  BY <1>3 DEF CommandDone, NextCommand, Agreement, Applied, Meant
<1>4. ASSUME NEW c, CommandRefused(c) PROVE Agreement'
  <2>1. UNCHANGED <<sup, supVars, netVars>>
    BY <1>4 DEF CommandRefused
  <2> QED BY <2>1 DEF Agreement, Applied, Meant
<1>5. ASSUME NEW c, CommandBreaks(c) PROVE Agreement'
  BY <1>5 DEF CommandBreaks, Agreement
<1>6. CASE Record
  <2>1. cur \in Commands /\ cur.kind # "shard" /\ Sensible(cur)
    BY <1>6 DEF Record, TypeInv, TypeOK, Stages
  <2>2. subs' \ refused' = Applied(subs \ refused, cur)
    BY <1>6, <2>1, RecordCatchesUp DEF Record
  <2> QED BY <1>6, <2>2 DEF Record, Agreement
<1>7. CASE Forward \/ ReplayEnds
  <2>1. UNCHANGED <<supVars, netVars>> /\ (sup' = sup \/ (sup' = "select" /\ todo = {}))
    BY <1>7 DEF Forward, ReplayEnds
  <2>2. CASE sup' = sup
    BY <2>1, <2>2 DEF Agreement, Applied, Meant
  <2>3. CASE sup' = "select" /\ todo = {} /\ sup = "replay"
    BY <2>1, <2>3 DEF Agreement
  <2> QED BY <1>7, <2>1, <2>2, <2>3 DEF Forward, ReplayEnds
<1>8. CASE StreamEnds
  BY <1>8 DEF StreamEnds, Agreement
<1>9. CASE ConnectFails
  BY <1>9 DEF ConnectFails, SupervisorReturns, Agreement
<1>10. CASE Connects
  BY <1>10 DEF Connects, Agreement
<1>11. ASSUME NEW n \in Names, Replay(n) PROVE Agreement'
  <2>1. todo \subseteq subs
    BY DEF TypeInv, TypeOK
  <2> QED BY <1>11, <2>1 DEF Replay, Agreement
<1>12. CASE ConnectionDies
  BY <1>12 DEF ConnectionDies, Agreement
<1>13. CASE (\E n \in Names : Publish(n)) \/ (\E r \in Readers : Reads(r)) \/ UNCHANGED vars
  <2>1. UNCHANGED <<sup, supVars, netVars>>
    BY <1>13 DEF Publish, Reads, LockOutbound, Receive, TimesOut, ChannelEnds, vars
  <2> QED BY <2>1 DEF Agreement, Applied, Meant
<1> QED BY <1>1, <1>2, <1>3, <1>4, <1>5, <1>6, <1>7, <1>8, <1>9, <1>10, <1>11, <1>12, <1>13
        DEF Next, Supervisor

(* Whatever dies, is refused or is replayed, a supervisor waiting for work on *)
(* a live connection has on record what the server has.                      *)
THEOREM RecordsAgree == Spec => []RecordAgreesWithServer
<1>1. Init => Agreement
  BY DEF Init, Agreement
<1>2. Agreement => RecordAgreesWithServer
  BY DEF Agreement, RecordAgreesWithServer
<1> QED BY <1>1, <1>2, TypeInit, TypeStep, AgreementStep, PTL DEF Spec

-----------------------------------------------------------------------------
(* Confirmations before messages. *)

(* The names whose confirmation is still to be put on the outbound channel.  *)
Unconfirmed == IF sup = "acked" /\ cur.op = "subscribe" THEN cur.names ELSE {}

(* A confirmation comes between the server's subscription and the first      *)
(* message that is forwarded: the stream may hold messages of a name not yet *)
(* confirmed, but only while the supervisor is about to confirm it, and it   *)
(* forwards nothing then.                                                    *)
ConfirmedInv ==
    /\ subs \subseteq confirmed
    /\ srv \subseteq confirmed \cup Unconfirmed
    /\ \A i \in DOMAIN stream : stream[i] \in confirmed \cup Unconfirmed
    /\ ConfirmedFirst

LEMMA ConfirmedStep == TypeInv /\ ConfirmedInv /\ [Next]_vars => ConfirmedInv'
<1> SUFFICES ASSUME TypeInv, ConfirmedInv, [Next]_vars PROVE ConfirmedInv'
  OBVIOUS
<1> USE DEF userVars, supVars, netVars, readVars
<1>0. out \in Seq(Messages) /\ stream \in Seq(Names)
  BY DEF TypeInv, TypeOK, Messages
<1>1. CASE User
  <2>1. UNCHANGED <<sup, supVars, netVars, stream, out>>
    BY <1>1 DEF User, Subscribe, Unsubscribe, Close, StartRead
  <2> QED BY <2>1 DEF ConfirmedInv, Unconfirmed, ConfirmedFirst
<1>2. ASSUME SupervisorReturns, UNCHANGED <<subs, confirmed, out>> PROVE ConfirmedInv'
  <2>1. DOMAIN stream' = {} /\ srv' = {}
    BY <1>2 DEF SupervisorReturns
  <2> QED BY <1>2, <2>1 DEF ConfirmedInv, ConfirmedFirst
<1>3. ASSUME NEW c, cmds # << >>, CommandDone(c) PROVE ConfirmedInv'
  <2>1. c \in Commands
    BY <1>3, NextCommandTypes DEF CommandDone
  <2>2. Unconfirmed = {} /\ Unconfirmed' = (IF c.op = "subscribe" THEN c.names ELSE {})
    BY <1>3 DEF CommandDone, NextCommand, Unconfirmed
  <2>3. srv' \subseteq confirmed' \cup Unconfirmed'
    BY <1>3, <2>1, <2>2 DEF CommandDone, Applied, ConfirmedInv
  <2> QED BY <1>3, <2>2, <2>3 DEF CommandDone, ConfirmedInv, ConfirmedFirst
<1>4. ASSUME NEW c, CommandRefused(c) PROVE ConfirmedInv'
  <2>1. UNCHANGED <<sup, supVars, netVars, stream, out>>
    BY <1>4 DEF CommandRefused
  <2> QED BY <2>1 DEF ConfirmedInv, Unconfirmed, ConfirmedFirst
<1>5. ASSUME NEW c, CommandBreaks(c) PROVE ConfirmedInv'
  <2>1. Unconfirmed = {} /\ Unconfirmed' = {}
    BY <1>5 DEF CommandBreaks, NextCommand, Unconfirmed
  <2> QED BY <1>5, <2>1 DEF CommandBreaks, ConfirmedInv, ConfirmedFirst
<1>6. CASE Record
  <2>1. cur \in Commands /\ Unconfirmed' = {}
    BY <1>6 DEF Record, TypeInv, TypeOK, Stages, Unconfirmed
  <2>2. confirmed' = confirmed \cup Unconfirmed
    BY <1>6 DEF Record, Unconfirmed
  <2>3. subs' \subseteq confirmed'
    BY <1>6, <2>1, <2>2 DEF Record, Applied, ConfirmedInv, Unconfirmed
  <2>4. PICK t : /\ t \in Seq(Messages) /\ out' = out \o t
                 /\ \A i \in DOMAIN t : t[i].type # "message"
    <3>1. CASE cur.names = {}
      <4>1. /\ <<[type |-> cur.op, name |-> Nobody]>> \in Seq(Messages)
            /\ \A i \in DOMAIN <<[type |-> cur.op, name |-> Nobody]>> :
                  <<[type |-> cur.op, name |-> Nobody]>>[i].type # "message"
        BY <2>1, CommandFields DEF Messages
      <4> QED BY <1>6, <3>1, <4>1 DEF Record
    <3>2. CASE cur.names # {}
      <4>1. PICK s \in [1..Cardinality(cur.names) -> Confirmations(cur)] : out' = out \o s
        BY <1>6, <3>2 DEF Record
      <4>2. Confirmations(cur) \subseteq Messages
            /\ \A m \in Confirmations(cur) : m.type # "message"
        BY <2>1, CommandFields DEF Confirmations, Messages
      <4>3. Cardinality(cur.names) \in Nat
        BY <2>1, CommandFields, FS_CardinalityType
      <4>4. s \in Seq(Messages)
        <5>1. s \in [1..Cardinality(cur.names) -> Messages]
          BY <4>1, <4>2
        <5> QED BY <4>3, <5>1, IsASeq
      <4> QED BY <4>1, <4>2, <4>4
    <3> QED BY <3>1, <3>2
  <2>5. ConfirmedFirst'
    <3>1. \A i \in DOMAIN out' : \/ i \in DOMAIN out /\ out'[i] = out[i]
                                 \/ \E j \in DOMAIN t : out'[i] = t[j]
      BY <1>0, <2>4, ConcatProperties
    <3> QED BY <2>2, <2>4, <3>1 DEF ConfirmedFirst, ConfirmedInv
  <2> QED BY <1>6, <2>1, <2>2, <2>3, <2>5 DEF Record, ConfirmedInv
<1>7. CASE Forward
  <2>1. Unconfirmed = {} /\ Unconfirmed' = {}
    BY <1>7 DEF Forward, Unconfirmed
  <2>2. Head(stream) \in confirmed /\ \A i \in DOMAIN stream' : stream'[i] \in confirmed
    BY <1>0, <1>7, <2>1, QueueTail DEF Forward, ConfirmedInv
  <2>3. ConfirmedFirst'
    <3> DEFINE m == [type |-> "message", name |-> Head(stream)]
    <3>1. m \in Messages /\ m.name = Head(stream)
      BY <1>0, <1>7, QueueTail DEF Forward, Messages
    <3>2. out' = Append(out, m) /\ confirmed' = confirmed
      BY <1>7 DEF Forward
    <3> HIDE DEF m
    <3>3. \A i \in DOMAIN out' : out'[i] = m \/ (i \in DOMAIN out /\ out'[i] = out[i])
      BY <1>0, <3>1, <3>2, QueueAppend
    <3> QED BY <2>2, <3>1, <3>2, <3>3 DEF ConfirmedInv, ConfirmedFirst
  <2> QED BY <1>7, <2>1, <2>2, <2>3 DEF Forward, ConfirmedInv
<1>8. CASE StreamEnds
  BY <1>8 DEF StreamEnds, ConfirmedInv, ConfirmedFirst, Unconfirmed
<1>9. CASE ConnectFails
  <2>1. CASE SupervisorReturns
    BY <1>2, <1>9, <2>1 DEF ConnectFails
  <2>2. CASE UNCHANGED <<sup, cmds, waiting, up, srv, stream>>
    BY <1>9, <2>2 DEF ConnectFails, ConfirmedInv, ConfirmedFirst, Unconfirmed
  <2> QED BY <1>9, <2>1, <2>2 DEF ConnectFails
<1>10. CASE Connects
  <2>1. DOMAIN stream' = {} /\ srv' = {} /\ Unconfirmed' = {}
    BY <1>10 DEF Connects, Unconfirmed
  <2> QED BY <1>10, <2>1 DEF Connects, ConfirmedInv, ConfirmedFirst
<1>11. ASSUME NEW n \in Names, Replay(n) PROVE ConfirmedInv'
  <2>1. todo \subseteq subs /\ Unconfirmed' = Unconfirmed
    BY <1>11 DEF Replay, TypeInv, TypeOK, Unconfirmed
  <2> QED BY <1>11, <2>1 DEF Replay, ConfirmedInv, ConfirmedFirst
<1>12. CASE ReplayEnds
  BY <1>12 DEF ReplayEnds, ConfirmedInv, ConfirmedFirst, Unconfirmed
<1>13. CASE ConnectionDies
  <2>1. Unconfirmed' = Unconfirmed
    BY <1>13 DEF ConnectionDies, Unconfirmed
  <2> QED BY <1>13, <2>1 DEF ConnectionDies, ConfirmedInv, ConfirmedFirst
<1>14. ASSUME NEW n \in Names, Publish(n) PROVE ConfirmedInv'
  <2>1. UNCHANGED <<sup, supVars, netVars, out>> /\ Unconfirmed' = Unconfirmed
    BY <1>14 DEF Publish, Unconfirmed
  <2>2. \A i \in DOMAIN stream' : stream'[i] \in confirmed \cup Unconfirmed
    <3>1. CASE n \in srv /\ stream' = Append(stream, n)
      BY <1>0, <3>1, QueueAppend DEF ConfirmedInv
    <3>2. CASE stream' = stream
      BY <3>2 DEF ConfirmedInv
    <3> QED BY <1>14, <3>1, <3>2 DEF Publish
  <2> QED BY <2>1, <2>2 DEF ConfirmedInv, ConfirmedFirst
<1>15. ASSUME NEW r \in Readers, Reads(r) PROVE ConfirmedInv'
  <2>1. UNCHANGED <<sup, supVars, netVars, stream>>
    BY <1>15 DEF Reads, LockOutbound, Receive, TimesOut, ChannelEnds
  <2>2. out' = out \/ (out # << >> /\ out' = Tail(out))
    BY <1>15 DEF Reads, LockOutbound, Receive, TimesOut, ChannelEnds
  <2>3. CASE out' = out
    BY <2>1, <2>3 DEF ConfirmedInv, ConfirmedFirst, Unconfirmed
  <2>4. CASE out # << >> /\ out' = Tail(out)
    <3>1. \A i \in DOMAIN out' : i + 1 \in DOMAIN out /\ out'[i] = out[i + 1]
      BY <1>0, <2>4, QueueTail
    <3>2. ConfirmedFirst'
      BY <2>1, <3>1 DEF ConfirmedInv, ConfirmedFirst
    <3> QED BY <2>1, <3>2 DEF ConfirmedInv, Unconfirmed
  <2> QED BY <2>2, <2>3, <2>4
<1>16. CASE UNCHANGED vars
  BY <1>16 DEF vars, ConfirmedInv, ConfirmedFirst, Unconfirmed
<1>17. CASE HandleShutdown
  BY <1>2, <1>17 DEF HandleShutdown
<1> QED BY <1>1, <1>3, <1>4, <1>5, <1>6, <1>7, <1>8, <1>9, <1>10, <1>11, <1>12, <1>13, <1>14,
           <1>15, <1>16, <1>17 DEF Next, Supervisor

(* No message of a name is delivered before the confirmation that the name   *)
(* was subscribed, also not over a reconnect.                                *)
THEOREM ConfirmationComesFirst == Spec => []ConfirmedFirst
<1>1. Init => ConfirmedInv
  <2> SUFFICES ASSUME Init PROVE ConfirmedInv
    OBVIOUS
  <2>1. DOMAIN stream = {} /\ DOMAIN out = {}
    BY DEF Init
  <2> QED BY <2>1 DEF Init, ConfirmedInv, ConfirmedFirst
<1>2. ConfirmedInv => ConfirmedFirst
  BY DEF ConfirmedInv
<1> QED BY <1>1, <1>2, TypeInit, TypeStep, ConfirmedStep, PTL DEF Spec

-----------------------------------------------------------------------------
(* Callers and the queue. *)

(* The queue loses nothing but its head, whose caller is acknowledged.       *)
LEMMA QueueStep == TypeInv /\ CallerIsQueued /\ [Next]_vars => CallerIsQueued'
<1> SUFFICES ASSUME TypeInv, CallerIsQueued, [Next]_vars PROVE CallerIsQueued'
  OBVIOUS
<1> USE DEF userVars, supVars, netVars, readVars
<1>0. cmds \in Seq(Commands \cup {Shutdown})
  BY DEF TypeInv, TypeOK
<1>1. ASSUME NEW u \in Callers, NEW c \in Commands, c.by = u, SendCommand(u, c), sup' = sup
      PROVE  CallerIsQueued'
  <2>1. CASE UNCHANGED <<cmds, waiting>>
    BY <1>1, <2>1 DEF CallerIsQueued
  <2>2. CASE sup # "gone" /\ cmds' = Append(cmds, c) /\ waiting' = waiting \cup {u}
    <3>1. c # Shutdown
      BY CommandFields
    <3>2. \E i \in DOMAIN cmds' : cmds'[i] # Shutdown /\ cmds'[i].by = u
      BY <1>0, <1>1, <2>2, <3>1, QueueAppend
    <3>3. \A i \in DOMAIN cmds : i \in DOMAIN cmds' /\ cmds'[i] = cmds[i]
      BY <1>0, <2>2, QueueAppend
    <3> QED BY <1>1, <2>2, <3>2, <3>3 DEF CallerIsQueued
  <2> QED BY <1>1, <2>1, <2>2 DEF SendCommand
<1>2. CASE User
  <2>1. ASSUME NEW u \in Callers, NEW k \in Kinds, NEW ns \in NameSets(k),
               NEW o \in {"subscribe", "unsubscribe"},
               SendCommand(u, [op |-> o, by |-> u, kind |-> k, names |-> ns]), sup' = sup
        PROVE  CallerIsQueued'
    <3> DEFINE c == [op |-> o, by |-> u, kind |-> k, names |-> ns]
    <3>1. c \in Commands /\ c.by = u /\ SendCommand(u, c)
      BY <2>1, CommandTypes
    <3> HIDE DEF c
    <3> QED BY <1>1, <2>1, <3>1
  <2>2. CASE Close
    <3>1. Shutdown \in Commands \cup {Shutdown}
      OBVIOUS
    <3>2. \A i \in DOMAIN cmds : i \in DOMAIN cmds' /\ cmds'[i] = cmds[i]
      BY <1>0, <2>2, <3>1, QueueAppend DEF Close
    <3> QED BY <2>2, <3>2 DEF Close, CallerIsQueued
  <2>3. CASE \E r \in Readers, how \in {"next", "get", "anext"}, ign \in BOOLEAN :
               StartRead(r, how, ign)
    BY <2>3 DEF StartRead, CallerIsQueued
  <2> QED BY <1>2, <2>1, <2>2, <2>3 DEF User, Subscribe, Unsubscribe
<1>3. ASSUME NEW c, cmds # << >>, NextCommand(c), Acknowledge(c), sup' # "gone"
      PROVE  CallerIsQueued'
  <2> SUFFICES ASSUME NEW u \in waiting'
               PROVE  \E i \in DOMAIN cmds' : cmds'[i] # Shutdown /\ cmds'[i].by = u
    BY <1>3 DEF CallerIsQueued
  <2>1. u \in waiting /\ u # c.by /\ c = Head(cmds) /\ cmds' = Tail(cmds)
    BY <1>3 DEF NextCommand, Acknowledge
  <2>2. PICK i \in DOMAIN cmds : cmds[i] # Shutdown /\ cmds[i].by = u
    BY <2>1 DEF CallerIsQueued
  <2>3. i # 1
    BY <1>0, <1>3, <2>1, <2>2, QueueTail
  <2>4. i - 1 \in DOMAIN cmds' /\ cmds'[i - 1] = cmds[i]
    BY <1>0, <1>3, <2>1, <2>3, QueueTail
  <2> QED BY <2>2, <2>4
<1>4. CASE Supervisor
  <2>1. CASE HandleShutdown
    BY <2>1 DEF HandleShutdown, SupervisorReturns, CallerIsQueued
  <2>2. ASSUME NEW c, cmds # << >>, CommandDone(c) \/ CommandRefused(c) \/ CommandBreaks(c)
        PROVE  CallerIsQueued'
    <3>1. NextCommand(c) /\ Acknowledge(c) /\ sup' # "gone"
      BY <2>2 DEF CommandDone, CommandRefused, CommandBreaks, NextCommand
    <3> QED BY <1>3, <2>2, <3>1
  <2>3. CASE ConnectFails
    BY <2>3 DEF ConnectFails, SupervisorReturns, CallerIsQueued
  <2>4. CASE Record \/ Forward \/ StreamEnds \/ Connects \/ ReplayEnds \/ \E n \in Names : Replay(n)
    <3>1. UNCHANGED <<cmds, waiting>> /\ (sup # "gone" => sup' # "gone")
      BY <2>4 DEF Record, Forward, StreamEnds, Connects, ReplayEnds, Replay
    <3> QED BY <3>1 DEF CallerIsQueued
  <2> QED BY <1>4, <2>1, <2>2, <2>3, <2>4 DEF Supervisor
<1>5. CASE \/ \E n \in Names : Publish(n)
           \/ ConnectionDies
           \/ \E r \in Readers : Reads(r)
           \/ UNCHANGED vars
  <2>1. UNCHANGED <<cmds, waiting, sup>>
    BY <1>5 DEF Publish, ConnectionDies, Reads, LockOutbound, Receive, TimesOut, ChannelEnds, vars
  <2> QED BY <2>1 DEF CallerIsQueued
<1> QED BY <1>2, <1>4, <1>5 DEF Next

(* No caller waits for an acknowledgement that nobody can give any more.     *)
THEOREM CallersAreQueued == Spec => []CallerIsQueued
<1>1. Init => CallerIsQueued
  BY DEF Init, CallerIsQueued
<1> QED BY <1>1, TypeInit, TypeStep, QueueStep, PTL DEF Spec

=============================================================================
