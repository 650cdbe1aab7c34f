------------------------------ MODULE Commands ------------------------------
(* The command methods of the two facades.  One call is made on a Redis     *)
(* and on an AsyncRedis; each client may be closed before the call, during  *)
(* it and after it.                                                         *)
(*                                                                          *)
(* A method of Redis borrows the object until it returns, also while it     *)
(* waits for the reply without the interpreter lock, and close() needs it   *)
(* for itself: another thread that closes a Redis in the middle of a call   *)
(* gets a RuntimeError.  A method of AsyncRedis gives the object back when  *)
(* it has spawned its task.                                                 *)
EXTENDS SetCommands, ListCommands, HashCommands, StringCommands, ZSetCommands,
        StreamCommands, ServerCommands

CONSTANT
    Methods         \* the methods that are called

VARIABLES
    call,           \* the call that both clients are given: [method, given, n]
    client          \* the two clients, by the name of their flavour

vars == <<call, client>>

Signatures ==
    SetSignatures @@ ListSignatures @@ HashSignatures @@ StringSignatures
    @@ ZSetSignatures @@ StreamSignatures @@ ServerSignatures

ASSUME MethodsAssumption == Methods \subseteq DOMAIN Signatures

\* What a client's method does with a call.
Outcome(flavour, c, closed) ==
    LET o == [given |-> c.given, n |-> c.n, closed |-> closed]
        sync == flavour = "sync"
        family ==
            CASE c.method \in DOMAIN SetSignatures ->
                     IF sync THEN SyncSets(o) ELSE AsyncSets(o)
              [] c.method \in DOMAIN ListSignatures ->
                     IF sync THEN SyncLists(o) ELSE AsyncLists(o)
              [] c.method \in DOMAIN HashSignatures ->
                     IF sync THEN SyncHashes(o) ELSE AsyncHashes(o)
              [] c.method \in DOMAIN StringSignatures ->
                     IF sync THEN SyncStrings(o) ELSE AsyncStrings(o)
              [] c.method \in DOMAIN ZSetSignatures ->
                     IF sync THEN SyncZSets(o) ELSE AsyncZSets(o)
              [] c.method \in DOMAIN StreamSignatures ->
                     IF sync THEN SyncStreams(o) ELSE AsyncStreams(o)
              [] c.method \in DOMAIN ServerSignatures ->
                     IF sync THEN SyncServer(o) ELSE AsyncServer(o)
    IN family[c.method]

Flavours == {"sync", "async"}
Calls == UNION {{[method |-> m, given |-> o.given, n |-> o.n] :
                    o \in Signatures[m]} : m \in Methods}
Nothing == Return("nothing")

Init ==
    /\ call \in Calls
    /\ client = [f \in Flavours |->
                    [phase |-> "idle",      \* "idle", "flying" or "done"
                     closed |-> FALSE,      \* the field closed
                     late |-> FALSE,        \* closed when the call was made
                     request |-> Nothing,   \* what the method decided on
                     reply |-> "none",      \* "none", "good" or "malformed"
                     result |-> Nothing]]   \* what the caller got

(***************************************************************************)
(* A call: the method tests its arguments and the client, and then either  *)
(* answers by itself or sends a command.                                   *)
(***************************************************************************)
Issue(f) ==
    LET r == Outcome(f, call, client[f].closed) IN
    /\ client[f].phase = "idle"
    /\ client' = [client EXCEPT
           ![f].phase = IF r.act = "send" THEN "flying" ELSE "done",
           ![f].late = client[f].closed,
           ![f].request = r,
           ![f].result = IF r.act = "send" THEN Nothing ELSE r]
    /\ UNCHANGED call

\* The method converts the server's reply.
Reply(f, quality) ==
    LET r == client[f].request
        converted ==
            CASE quality = "good" -> [Return(r.what) EXCEPT !.text = r.text]
              [] r.bad \in {"ValueError", "DataError", "ResponseError",
                            "converted"} -> Raise(r.bad)
              [] OTHER -> Return(r.bad)
    IN /\ client[f].phase = "flying"
       /\ client' = [client EXCEPT ![f].phase = "done",
                                   ![f].reply = quality,
                                   ![f].result = converted]
       /\ UNCHANGED call

\* Mutant: close() does not need the object for itself.
CloseInMidCall(f) ==
    /\ client' = [client EXCEPT ![f].closed = TRUE]
    /\ UNCHANGED call

\* close(), aclose() and the end of a with block.  In the middle of a call of
\* Redis close() raises RuntimeError and changes nothing.
Close(f) ==
    /\ f = "sync" => client[f].phase # "flying"
    /\ client' = [client EXCEPT ![f].closed = TRUE]
    /\ UNCHANGED call

Next ==
    \E f \in Flavours :
        \/ Issue(f)
        \/ \E quality \in {"good", "malformed"} : Reply(f, quality)
        \/ Close(f)

Spec == Init /\ [][Next]_vars

(***************************************************************************)
(* Properties.                                                             *)
(***************************************************************************)
\* The methods that take the connection without the test of closed.
NoClosedTest ==
    [sync  |-> {"blpop", "brpop", "blmove", "blmpop",
                "bzpopmin", "bzpopmax", "bzmpop", "xread", "xreadgroup"},
     async |-> {"blpop", "brpop", "blmove", "bzpopmin", "bzpopmax", "bzmpop",
                "hrandfield", "hscan", "zrandmember"}]

(* "Mark the connection as closed so subsequent commands raise ValueError"  *)
(* (sync.rs:202, asyncio_mod.rs:239).  A client that is closed has a        *)
(* command under way only where AsyncRedis had spawned it before aclose(),  *)
(* or where the method is one of those that forget the test: a blocking     *)
(* pop, xread and xreadgroup of Redis, and hrandfield, hscan and            *)
(* zrandmember of AsyncRedis.                                               *)
ClosedIsQuiet ==
    \A f \in Flavours :
        client[f].closed /\ client[f].phase = "flying" =>
            \/ f = "async" /\ ~client[f].late
            \/ call.method \in NoClosedTest[f]

(* The methods whose two variants differ, and when.  On a closed client     *)
(* the methods of Redis below answer by themselves when they are given no   *)
(* arguments, and blmpop, xread and xreadgroup of Redis and zrandmember of  *)
(* AsyncRedis send; the scans raise another class for a reply of the wrong  *)
(* shape, and zmscore of AsyncRedis returns it; hrandfield and hscan of     *)
(* AsyncRedis send on a closed client and never decode; scan is a tuple and *)
(* a list; AsyncRedis drops the message of bgsave and bgrewriteaof.         *)
AnswersBeforeTest ==
    {"sadd", "srem", "smismember", "hmget", "hdel", "delete", "exists", "unlink",
     "zrem", "zmscore", "zdiffstore", "zintercard", "xdel", "xack"}

VariantsDiffer ==
    LET s == client["sync"]
        Called(methods) == call.method \in methods
    IN \/ s.late /\ call.n = 0 /\ Called(AnswersBeforeTest)
       \/ s.late /\ Called({"blmpop", "zrandmember", "xread", "xreadgroup"})
       \/ s.reply = "malformed" /\ Called({"sscan", "zscan", "zmscore"})
       \/ Called({"hscan"})
       \/ s.reply # "malformed" /\ Called({"hrandfield"})
       \/ ~s.late /\ Called({"scan"})
       \/ s.reply = "good" /\ Called({"bgsave", "bgrewriteaof"})

(* "Every method exists as a sync + async pair" (sets.rs:3).  The same call *)
(* on clients in the same state, answered the same way, sends the same      *)
(* command on the same kind of connection and gives the same exception, or  *)
(* a value of the same type, decoded alike: except exactly as above.        *)
VariantsAgree ==
    LET s == client["sync"]
        a == client["async"]
    IN /\ s.phase = "done" /\ a.phase = "done"
       /\ s.late = a.late
       /\ s.request.act = "send" /\ a.request.act = "send" => s.reply = a.reply
       => (VariantsDiffer <=> \/ s.request.cmd # a.request.cmd
                              \/ s.request.conn # a.request.conn
                              \/ s.result # a.result)

\* The options of which the server accepts one (the server's grammar).
Exclusive == {{"EX", "PX", "EXAT", "PXAT", "KEEPTTL", "PERSIST"},
              {"NX", "XX"}, {"NX", "GT"}, {"NX", "LT"}, {"GT", "LT"},
              {"BYSCORE", "BYLEX"}, {"BYLEX", "WITHSCORES"}, {"MAXLEN", "MINID"}}

WordsOf(cmd) == {cmd[i] : i \in DOMAIN cmd}

\* The options of a call that are silently left out of its command.
Dropped(c) ==
    LET Called(methods) == c.method \in methods
        Given(words) == c.given \cap words # {}
    IN UNION {
        IF Called({"hrandfield"}) /\ ~Given({"count"}) THEN {"WITHVALUES"} ELSE {},
        IF Called({"zrandmember"}) /\ ~Given({"count"}) THEN {"WITHSCORES"} ELSE {},
        IF Given({"MAXLEN"}) THEN {"MINID"} ELSE {},
        IF Called({"xadd"}) /\ ~Given({"MAXLEN", "MINID"}) THEN {"=", "LIMIT"} ELSE {},
        IF Called({"xadd"}) /\ Given({"entry_id"}) THEN {"id"} ELSE {},
        IF Called({"xadd"}) /\ ~Given({"entry_id"}) THEN {"fields"} ELSE {},
        IF Called({"xpending"}) /\ ~Given({"min", "max", "count"})
        THEN {"IDLE", "consumer"} ELSE {},
        IF Called({"config_set"}) /\ Given({"mapping"}) THEN {"value"} ELSE {}}

(* What reaches the wire is what the caller asked for: every option of a    *)
(* call that is sent is in the command, except exactly the dropped ones,    *)
(* never two that exclude each other (validate_set_kwargs,                  *)
(* validate_expire_flags, validate_ttl_modifiers), and a count of keys or   *)
(* fields is followed by that many of them.                                 *)
(* That RESTORE takes IDLETIME or FREQ, not both, is left to the server.    *)
RequestIsFaithful ==
    \A f \in Flavours :
        LET cmd == client[f].request.cmd IN
        client[f].request.act = "send" =>
            /\ call.given \ WordsOf(cmd) = call.given \cap Dropped(call)
            /\ \A words \in Exclusive : Cardinality(WordsOf(cmd) \cap words) <= 1
            /\ \A i \in DOMAIN cmd :
                   cmd[i] = ToString(call.n) =>
                       \A j \in 1..call.n :
                           /\ i + j \in DOMAIN cmd
                           /\ cmd[i + j] \in {"key", "field"}
=============================================================================
