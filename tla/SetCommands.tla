---------------------------- MODULE SetCommands ----------------------------
(* The set commands: the words the driver builds, and what Redis and       *)
(* AsyncRedis do with a call of each.                                      *)
EXTENDS Requests

(***************************************************************************)
(* Commands of the driver.  "negative" is a count below zero.              *)
(***************************************************************************)
Count(o) == IF "negative" \in o.given THEN <<"negative">>
            ELSE IF "count" \in o.given THEN <<"count">> ELSE << >>

SetWire(o) ==
    [sadd        |-> <<"SADD", "key">> \o Many(o, "member"),
     srem        |-> <<"SREM", "key">> \o Many(o, "member"),
     smembers    |-> <<"SMEMBERS", "key">>,
     scard       |-> <<"SCARD", "key">>,
     sismember   |-> <<"SISMEMBER", "key", "member">>,
     smismember  |-> <<"SMISMEMBER", "key">> \o Many(o, "member"),
     spop        |-> <<"SPOP", "key">> \o Count(o),
     srandmember |-> <<"SRANDMEMBER", "key">> \o Count(o),
     sinter      |-> <<"SINTER">> \o Many(o, "key"),
     sunion      |-> <<"SUNION">> \o Many(o, "key"),
     sdiff       |-> <<"SDIFF">> \o Many(o, "key"),
     sinterstore |-> <<"SINTERSTORE", "dst">> \o Many(o, "key"),
     sunionstore |-> <<"SUNIONSTORE", "dst">> \o Many(o, "key"),
     sdiffstore  |-> <<"SDIFFSTORE", "dst">> \o Many(o, "key")]

SetWireTail(o) ==
    [sintercard |-> <<"SINTERCARD">> \o Counted(o, "key")
                    \o Opt(o, "LIMIT", "limit"),
     smove      |-> <<"SMOVE", "src", "dst", "member">>,
     sscan      |-> <<"SSCAN", "key", "cursor">>
                    \o Opt(o, "MATCH", "pattern") \o Opt(o, "COUNT", "count")]

\* SSCAN's reply is taken apart by hand.
parse_sscan_reply(class, cmd) == Malformed(class, Send(cmd, "(int, {bytes})"))

(***************************************************************************)
(* Redis.                                                                  *)
(***************************************************************************)
SyncSetMembers(o) ==
    LET w == SetWire(o) IN
    [sadd        |-> IfEmpty(o, "int", sync_op(o, Send(w.sadd, "int"))),
     srem        |-> IfEmpty(o, "int", sync_op(o, Send(w.srem, "int"))),
     smembers    |-> sync_op(o, maybe_decode(Send(w.smembers, "{bytes}"))),
     scard       |-> sync_op(o, Send(w.scard, "int")),
     sismember   |-> sync_op(o, Send(w.sismember, "bool")),
     smismember  |-> IfEmpty(o, "[bool]",
                             sync_op(o, Send(w.smismember, "[bool]"))),
     spop        |-> sync_op(o, maybe_decode(Send(w.spop,
                         IF Count(o) = << >> THEN "bytes" ELSE "{bytes}"))),
     srandmember |-> sync_op(o, maybe_decode(Send(w.srandmember,
                         IF Count(o) = << >> THEN "bytes"
                         ELSE IF "negative" \in o.given THEN "[bytes]"
                         ELSE "{bytes}")))]

SyncSetAlgebra(o) ==
    LET w == SetWire(o) @@ SetWireTail(o) IN
    [sinter      |-> sync_op(o, maybe_decode(Send(w.sinter, "{bytes}"))),
     sunion      |-> sync_op(o, maybe_decode(Send(w.sunion, "{bytes}"))),
     sdiff       |-> sync_op(o, maybe_decode(Send(w.sdiff, "{bytes}"))),
     sinterstore |-> sync_op(o, Send(w.sinterstore, "int")),
     sunionstore |-> sync_op(o, Send(w.sunionstore, "int")),
     sdiffstore  |-> sync_op(o, Send(w.sdiffstore, "int")),
     sintercard  |-> sync_op(o, Send(w.sintercard, "int")),
     smove       |-> sync_op(o, Send(w.smove, "bool")),
     sscan       |-> sync_op(o, maybe_decode(
                         parse_sscan_reply("ValueError", w.sscan)))]

(***************************************************************************)
(* AsyncRedis.                                                             *)
(***************************************************************************)
AsyncSetMembers(o) ==
    LET w == SetWire(o) IN
    [sadd        |-> async_op(o, IfEmpty(o, "int", Send(w.sadd, "int"))),
     srem        |-> async_op(o, IfEmpty(o, "int", Send(w.srem, "int"))),
     smembers    |-> async_op(o, Send(w.smembers, "{bytes}")),
     scard       |-> async_op(o, Send(w.scard, "int")),
     sismember   |-> async_op(o, Send(w.sismember, "bool")),
     smismember  |-> async_op(o, IfEmpty(o, "[bool]",
                                         Send(w.smismember, "[bool]"))),
     spop        |-> async_op(o, Send(w.spop,
                         IF Count(o) = << >> THEN "bytes" ELSE "{bytes}")),
     srandmember |-> async_op(o, Send(w.srandmember,
                         IF Count(o) = << >> THEN "bytes"
                         ELSE IF "negative" \in o.given THEN "[bytes]"
                         ELSE "{bytes}"))]

AsyncSetAlgebra(o) ==
    LET w == SetWire(o) @@ SetWireTail(o) IN
    [sinter      |-> async_op(o, Send(w.sinter, "{bytes}")),
     sunion      |-> async_op(o, Send(w.sunion, "{bytes}")),
     sdiff       |-> async_op(o, Send(w.sdiff, "{bytes}")),
     sinterstore |-> async_op(o, Send(w.sinterstore, "int")),
     sunionstore |-> async_op(o, Send(w.sunionstore, "int")),
     sdiffstore  |-> async_op(o, Send(w.sdiffstore, "int")),
     sintercard  |-> async_op(o, Send(w.sintercard, "int")),
     smove       |-> async_op(o, Send(w.smove, "bool")),
     sscan       |-> async_op(o, parse_sscan_reply("ResponseError", w.sscan))]

(***************************************************************************)
(* Signatures.                                                             *)
(***************************************************************************)
SetSignatures ==
    [m \in {"sadd", "srem", "smismember", "sinter", "sunion", "sdiff",
            "sinterstore", "sunionstore", "sdiffstore"} |-> Variadic]
    @@ [m \in {"smembers", "scard", "sismember", "smove"} |-> Plain]
    @@ [spop        |-> Takes({{}, {"count"}, {"negative"}}, {0}),
        srandmember |-> Takes({{}, {"count"}, {"negative"}}, {0}),
        sintercard  |-> Takes(SUBSET {"LIMIT"}, 0..2),
        sscan       |-> Takes(SUBSET {"MATCH", "COUNT"}, {0})]

SyncSets(o) == SyncSetMembers(o) @@ SyncSetAlgebra(o)
AsyncSets(o) == AsyncSetMembers(o) @@ AsyncSetAlgebra(o)
=============================================================================
