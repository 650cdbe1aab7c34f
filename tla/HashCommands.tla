---------------------------- MODULE HashCommands ----------------------------
(* The hash commands.  hset takes field and value arguments one by one     *)
(* ("odd": one more than there are pairs) and a mapping of one pair.       *)
EXTENDS Requests

(***************************************************************************)
(* Arguments.                                                              *)
(***************************************************************************)
collect_field_value_pairs(o, r) ==
    Refuse(\/ "odd" \in o.given
           \/ o.n = 0 /\ "mapping" \notin o.given,
           "DataError", r)

mapping_to_pairs(o, r) == Refuse(o.n = 0, "DataError", r)

TtlModifiers == {"NX", "XX", "GT", "LT"}

validate_ttl_modifiers(o, r) ==
    Refuse(~AtMostOne(o, TtlModifiers), "DataError", r)

(***************************************************************************)
(* Commands of the driver.                                                 *)
(***************************************************************************)
HashWire(o) ==
    [hget         |-> <<"HGET", "key", "field">>,
     hmget        |-> <<"HMGET", "key">> \o Many(o, "field"),
     hset         |-> <<"HSET", "key">> \o Pairs(o, "field", "value")
                      \o (IF "mapping" \in o.given
                          THEN <<"field", "mapping">> ELSE << >>),
     hmset        |-> <<"HSET", "key">> \o Pairs(o, "field", "value"),
     hsetnx       |-> <<"HSETNX", "key", "field", "value">>,
     hgetall      |-> <<"HGETALL", "key">>,
     hdel         |-> <<"HDEL", "key">> \o Many(o, "field"),
     hexists      |-> <<"HEXISTS", "key", "field">>,
     hlen         |-> <<"HLEN", "key">>,
     hkeys        |-> <<"HKEYS", "key">>,
     hvals        |-> <<"HVALS", "key">>,
     hincrby      |-> <<"HINCRBY", "key", "field", "amount">>,
     hincrbyfloat |-> <<"HINCRBYFLOAT", "key", "field", "amount">>]

hexpire_family(o, command) ==
    <<command, "key", "time">> \o FirstFlag(o)
    \o <<"FIELDS">> \o Counted(o, "field")

httl_family(o, command) == <<command, "key", "FIELDS">> \o Counted(o, "field")

HashWireTail(o) ==
    [hrandfield |-> <<"HRANDFIELD", "key">>
                    \o (IF "count" \in o.given
                        THEN <<"count">> \o Flag(o, "WITHVALUES") ELSE << >>),
     hscan      |-> <<"HSCAN", "key", "cursor">> \o Opt(o, "MATCH", "pattern")
                    \o Opt(o, "COUNT", "count") \o Flag(o, "NOVALUES")]

(***************************************************************************)
(* Replies whose type depends on the options.                              *)
(***************************************************************************)
render_hscan(o) ==
    IF "NOVALUES" \in o.given THEN "(int, [bytes])" ELSE "(int, {bytes: bytes})"

\* HSCAN's reply is taken apart by hand before it is rendered.
split_scan_reply(class, o, cmd) == Malformed(class, Send(cmd, render_hscan(o)))

render_hrandfield(o) ==
    IF "count" \notin o.given THEN "bytes"
    ELSE IF "WITHVALUES" \in o.given THEN "[(bytes, bytes)]" ELSE "[bytes]"

(***************************************************************************)
(* Redis.                                                                  *)
(***************************************************************************)
SyncHashes1(o) ==
    LET w == HashWire(o) IN
    [hget    |-> sync_op(o, maybe_decode(Send(w.hget, "bytes"))),
     hset    |-> collect_field_value_pairs(o, sync_op(o, Send(w.hset, "int"))),
     hsetnx  |-> sync_op(o, Send(w.hsetnx, "bool")),
     hgetall |-> sync_op(o, maybe_decode(Send(w.hgetall, "{bytes: bytes}"))),
     hmget   |-> IfEmpty(o, "[bytes]",
                     sync_op(o, maybe_decode(Send(w.hmget, "[bytes]")))),
     hmset   |-> mapping_to_pairs(o, sync_op(o, Send(w.hmset, "None"))),
     hdel    |-> IfEmpty(o, "int", sync_op(o, Send(w.hdel, "int"))),
     hexists |-> sync_op(o, Send(w.hexists, "bool")),
     hlen    |-> sync_op(o, Send(w.hlen, "int")),
     hkeys   |-> sync_op(o, maybe_decode(Send(w.hkeys, "[bytes]"))),
     hvals   |-> sync_op(o, maybe_decode(Send(w.hvals, "[bytes]")))]

SyncHashes2(o) ==
    LET w == HashWire(o) @@ HashWireTail(o) IN
    [hrandfield   |-> sync_op(o, Malformed("str", maybe_decode(
                          Send(w.hrandfield, render_hrandfield(o))))),
     hincrby      |-> sync_op(o, Send(w.hincrby, "int")),
     hincrbyfloat |-> sync_op(o, Send(w.hincrbyfloat, "float")),
     hscan        |-> sync_op(o, maybe_decode(
                          split_scan_reply("DataError", o, w.hscan)))]

SyncHashTtls(o) ==
    LET Set(command) == validate_ttl_modifiers(o,
                            sync_op(o, Send(hexpire_family(o, command), "[int]")))
        Get(command) == sync_op(o, Send(httl_family(o, command), "[int]"))
    IN [hexpire      |-> Set("HEXPIRE"),
        hpexpire     |-> Set("HPEXPIRE"),
        hexpireat    |-> Set("HEXPIREAT"),
        hpexpireat   |-> Set("HPEXPIREAT"),
        hexpiretime  |-> Get("HEXPIRETIME"),
        hpexpiretime |-> Get("HPEXPIRETIME"),
        httl         |-> Get("HTTL"),
        hpttl        |-> Get("HPTTL"),
        hpersist     |-> Get("HPERSIST")]

(***************************************************************************)
(* AsyncRedis.  hrandfield and hscan spawn their task without async_op!,   *)
(* and return the awaitable without maybe_wrap.                            *)
(***************************************************************************)
AsyncHashes1(o) ==
    LET w == HashWire(o) IN
    [hget    |-> async_op(o, Send(w.hget, "bytes")),
     hset    |-> collect_field_value_pairs(o, async_op(o, Send(w.hset, "int"))),
     hsetnx  |-> async_op(o, Send(w.hsetnx, "bool")),
     hgetall |-> async_op(o, Send(w.hgetall, "{bytes: bytes}")),
     hmget   |-> async_op(o, IfEmpty(o, "[bytes]", Send(w.hmget, "[bytes]"))),
     hmset   |-> mapping_to_pairs(o, async_op(o, Send(w.hmset, "None"))),
     hdel    |-> async_op(o, IfEmpty(o, "int", Send(w.hdel, "int"))),
     hexists |-> async_op(o, Send(w.hexists, "bool")),
     hlen    |-> async_op(o, Send(w.hlen, "int")),
     hkeys   |-> async_op(o, Send(w.hkeys, "[bytes]")),
     hvals   |-> async_op(o, Send(w.hvals, "[bytes]"))]

AsyncHashes2(o) ==
    LET w == HashWire(o) @@ HashWireTail(o) IN
    [hrandfield   |-> Malformed("str", Send(w.hrandfield, render_hrandfield(o))),
     hincrby      |-> async_op(o, Send(w.hincrby, "int")),
     hincrbyfloat |-> async_op(o, Send(w.hincrbyfloat, "float")),
     hscan        |-> split_scan_reply("ResponseError", o, w.hscan)]

AsyncHashTtls(o) ==
    LET Set(command) == validate_ttl_modifiers(o,
                            async_op(o, Send(hexpire_family(o, command), "[int]")))
    IN [hexpire    |-> Set("HEXPIRE"),
        hpexpire   |-> Set("HPEXPIRE"),
        hexpireat  |-> Set("HEXPIREAT"),
        hpexpireat |-> Set("HPEXPIREAT")]

AsyncHashTimes(o) ==
    LET Get(command) == async_op(o, Send(httl_family(o, command), "[int]"))
    IN [hexpiretime  |-> Get("HEXPIRETIME"),
        hpexpiretime |-> Get("HPEXPIRETIME"),
        httl         |-> Get("HTTL"),
        hpttl        |-> Get("HPTTL"),
        hpersist     |-> Get("HPERSIST")]

(***************************************************************************)
(* Signatures.                                                             *)
(***************************************************************************)
HashSignatures ==
    [m \in {"hmget", "hmset", "hdel", "hexpiretime", "hpexpiretime", "httl",
            "hpttl", "hpersist"} |-> Variadic]
    @@ [m \in {"hget", "hsetnx", "hgetall", "hexists", "hlen", "hkeys", "hvals",
               "hincrby", "hincrbyfloat"} |-> Plain]
    @@ [m \in {"hexpire", "hpexpire", "hexpireat", "hpexpireat"} |->
            Takes(SUBSET TtlModifiers, 0..2)]
    @@ [hset       |-> Takes(SUBSET {"odd", "mapping"}, 0..2),
        hrandfield |-> Takes(SUBSET {"count", "WITHVALUES"}, {0}),
        hscan      |-> Takes(SUBSET {"MATCH", "COUNT", "NOVALUES"}, {0})]

SyncHashes(o) == SyncHashes1(o) @@ SyncHashes2(o) @@ SyncHashTtls(o)
AsyncHashes(o) ==
    AsyncHashes1(o) @@ AsyncHashes2(o) @@ AsyncHashTtls(o) @@ AsyncHashTimes(o)
=============================================================================
