---------------------------- MODULE ListCommands ----------------------------
(* The list commands.  "bad" is a direction or a place that is not one of  *)
(* the words the method accepts.                                           *)
EXTENDS Requests

(***************************************************************************)
(* Commands of the driver.                                                 *)
(***************************************************************************)
Popped(o) == IF "count" \in o.given THEN <<"count">> ELSE << >>

ListWire(o) ==
    [lpush  |-> <<"LPUSH", "key">> \o Many(o, "value"),
     rpush  |-> <<"RPUSH", "key">> \o Many(o, "value"),
     lpushx |-> <<"LPUSHX", "key">> \o Many(o, "value"),
     rpushx |-> <<"RPUSHX", "key">> \o Many(o, "value"),
     lpop   |-> <<"LPOP", "key">> \o Popped(o),
     rpop   |-> <<"RPOP", "key">> \o Popped(o),
     lrange |-> <<"LRANGE", "key", "start", "stop">>,
     llen   |-> <<"LLEN", "key">>,
     lmove  |-> <<"LMOVE", "src", "dst", "from", "to">>,
     lpos   |-> <<"LPOS", "key", "value">> \o Opt(o, "RANK", "rank")
                \o Opt(o, "COUNT", "count") \o Opt(o, "MAXLEN", "maxlen")]

bpop_inner(o, command) == <<command>> \o Many(o, "key") \o <<"timeout">>

ListWireTail(o) ==
    [lrem    |-> <<"LREM", "key", "count", "value">>,
     lindex  |-> <<"LINDEX", "key", "index">>,
     lset    |-> <<"LSET", "key", "index", "value">>,
     linsert |-> <<"LINSERT", "key",
                   IF "AFTER" \in o.given THEN "AFTER" ELSE "BEFORE",
                   "pivot", "value">>,
     ltrim   |-> <<"LTRIM", "key", "start", "stop">>,
     lmpop   |-> <<"LMPOP">> \o Counted(o, "key")
                 \o <<"direction", "COUNT", "count">>,
     blpop   |-> bpop_inner(o, "BLPOP"),
     brpop   |-> bpop_inner(o, "BRPOP"),
     blmove  |-> <<"BLMOVE", "src", "dst", "from", "to", "timeout">>,
     blmpop  |-> <<"BLMPOP", "timeout">> \o Counted(o, "key")
                 \o <<"direction", "COUNT", "count">>]

validate_pop_direction(o, r) == Refuse("bad" \in o.given, "DataError", r)

(***************************************************************************)
(* Redis.  The blocking methods take the connection without sync_op!.      *)
(***************************************************************************)
SyncLists1(o) ==
    LET w == ListWire(o) IN
    [lpush  |-> sync_op(o, Send(w.lpush, "int")),
     rpush  |-> sync_op(o, Send(w.rpush, "int")),
     lpushx |-> sync_op(o, Send(w.lpushx, "int")),
     rpushx |-> sync_op(o, Send(w.rpushx, "int")),
     lpop   |-> sync_op(o, maybe_decode(Send(w.lpop,
                    IF Popped(o) = << >> THEN "bytes" ELSE "[bytes]"))),
     rpop   |-> sync_op(o, maybe_decode(Send(w.rpop,
                    IF Popped(o) = << >> THEN "bytes" ELSE "[bytes]"))),
     lrange |-> sync_op(o, maybe_decode(Send(w.lrange, "[bytes]"))),
     llen   |-> sync_op(o, Send(w.llen, "int")),
     lmove  |-> sync_op(o, maybe_decode(Send(w.lmove, "bytes"))),
     lpos   |-> sync_op(o, Send(w.lpos,
                    IF "COUNT" \in o.given THEN "[int]" ELSE "int"))]

SyncLists2(o) ==
    LET w == ListWireTail(o) IN
    [lrem    |-> sync_op(o, Send(w.lrem, "int")),
     lindex  |-> sync_op(o, maybe_decode(Send(w.lindex, "bytes"))),
     lset    |-> sync_op(o, Send(w.lset, "None")),
     linsert |-> Refuse("bad" \in o.given, "DataError",
                        sync_op(o, Send(w.linsert, "int"))),
     ltrim   |-> sync_op(o, Send(w.ltrim, "None")),
     lmpop   |-> validate_pop_direction(o, sync_op(o, maybe_decode(
                     Malformed("None", Send(w.lmpop, "(str, [bytes])"))))),
     blpop   |-> maybe_decode(Blocking(
                     Malformed("None", Send(w.blpop, "(str, bytes)")))),
     brpop   |-> maybe_decode(Blocking(
                     Malformed("None", Send(w.brpop, "(str, bytes)")))),
     blmove  |-> maybe_decode(Blocking(Send(w.blmove, "bytes"))),
     blmpop  |-> validate_pop_direction(o, maybe_decode(Blocking(
                     Malformed("None", Send(w.blmpop, "(str, [bytes])")))))]

(***************************************************************************)
(* AsyncRedis.  The blocking methods spawn their task without async_op!,   *)
(* and wrap the awaitable themselves.                                      *)
(***************************************************************************)
AsyncLists1(o) ==
    LET w == ListWire(o) IN
    [lpush  |-> async_op(o, Send(w.lpush, "int")),
     rpush  |-> async_op(o, Send(w.rpush, "int")),
     lpushx |-> async_op(o, Send(w.lpushx, "int")),
     rpushx |-> async_op(o, Send(w.rpushx, "int")),
     lpop   |-> async_op(o, Send(w.lpop,
                    IF Popped(o) = << >> THEN "bytes" ELSE "[bytes]")),
     rpop   |-> async_op(o, Send(w.rpop,
                    IF Popped(o) = << >> THEN "bytes" ELSE "[bytes]")),
     lrange |-> async_op(o, Send(w.lrange, "[bytes]")),
     llen   |-> async_op(o, Send(w.llen, "int")),
     lmove  |-> async_op(o, Send(w.lmove, "bytes"))]

AsyncLists2(o) ==
    LET w == ListWire(o) @@ ListWireTail(o) IN
    [lpos    |-> async_op(o, Send(w.lpos,
                     IF "COUNT" \in o.given THEN "[int]" ELSE "int")),
     lrem    |-> async_op(o, Send(w.lrem, "int")),
     lindex  |-> async_op(o, Send(w.lindex, "bytes")),
     lset    |-> async_op(o, Send(w.lset, "None")),
     linsert |-> Refuse("bad" \in o.given, "DataError",
                        async_op(o, Send(w.linsert, "int"))),
     ltrim   |-> async_op(o, Send(w.ltrim, "None")),
     lmpop   |-> validate_pop_direction(o, async_op(o,
                     Malformed("None", Send(w.lmpop, "(str, [bytes])"))))]

AsyncLists3(o) ==
    LET w == ListWireTail(o) IN
    [blpop  |-> maybe_decode(Blocking(
                    Malformed("None", Send(w.blpop, "(str, bytes)")))),
     brpop  |-> maybe_decode(Blocking(
                    Malformed("None", Send(w.brpop, "(str, bytes)")))),
     blmove |-> maybe_decode(Blocking(Send(w.blmove, "bytes"))),
     blmpop |-> CheckClosed(o, validate_pop_direction(o, maybe_decode(
                    Blocking(Malformed("None",
                                       Send(w.blmpop, "(str, [bytes])"))))))]

(***************************************************************************)
(* Signatures.                                                             *)
(***************************************************************************)
ListSignatures ==
    [m \in {"lpush", "rpush", "lpushx", "rpushx", "blpop", "brpop"} |-> Variadic]
    @@ [m \in {"lrange", "llen", "lmove", "lrem", "lindex", "lset", "ltrim",
               "blmove"} |-> Plain]
    @@ [lpop    |-> Takes(SUBSET {"count"}, {0}),
        rpop    |-> Takes(SUBSET {"count"}, {0}),
        lpos    |-> Takes(SUBSET {"RANK", "COUNT", "MAXLEN"}, {0}),
        linsert |-> Takes({{}, {"AFTER"}, {"bad"}}, {0}),
        lmpop   |-> Takes(SUBSET {"bad"}, 0..2),
        blmpop  |-> Takes(SUBSET {"bad"}, 0..2)]

SyncLists(o) == SyncLists1(o) @@ SyncLists2(o)
AsyncLists(o) == AsyncLists1(o) @@ AsyncLists2(o) @@ AsyncLists3(o)
=============================================================================
