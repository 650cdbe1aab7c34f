---------------------------- MODULE ZSetCommands ----------------------------
(* The sorted set commands, whose words the methods build themselves.      *)
(* "bad" is a direction or an aggregate that is not one of the words the   *)
(* method accepts, "unequal" a list of weights not as long as the keys.    *)
EXTENDS Requests

(***************************************************************************)
(* Arguments.                                                              *)
(***************************************************************************)
validate_zadd_flags(o, r) ==
    Refuse(\/ {"NX", "XX"} \subseteq o.given
           \/ {"GT", "LT"} \subseteq o.given
           \/ "NX" \in o.given /\ o.given \cap {"GT", "LT"} # {}
           \/ "INCR" \in o.given /\ o.n # 1,
           "DataError", r)

collect_zadd_pairs(o, r) == Refuse(o.n = 0, "DataError", r)

Window == {"offset", "num"}
HalfWindow(o) == o.given \cap Window \notin {{}, Window}

RefuseZrange(o, r) ==
    Refuse(\/ {"BYSCORE", "BYLEX"} \subseteq o.given
           \/ o.given \cap Window # {} /\ o.given \cap {"BYSCORE", "BYLEX"} = {}
           \/ {"WITHSCORES", "BYLEX"} \subseteq o.given
           \/ HalfWindow(o),
           "DataError", r)

RefuseSimpleRange(o, r) == Refuse(HalfWindow(o), "DataError", r)

validate_zmpop_direction(o, r) == Refuse("bad" \in o.given, "DataError", r)

NoKeys(o, r) == Refuse(o.n = 0, "DataError", r)

validate_zset_op_args(o, r) ==
    Refuse(o.n = 0 \/ "unequal" \in o.given \/ "bad" \in o.given, "DataError", r)

(***************************************************************************)
(* Commands.                                                               *)
(***************************************************************************)
build_zadd_cmd(o) ==
    <<"ZADD", "key">> \o Flag(o, "NX") \o Flag(o, "XX") \o Flag(o, "GT")
    \o Flag(o, "LT") \o Flag(o, "CH") \o Flag(o, "INCR")
    \o Pairs(o, "score", "member")

Limit(o) == IF Window \subseteq o.given THEN <<"LIMIT", "offset", "num">>
            ELSE << >>

build_zrange_cmd(o, leading) ==
    leading \o <<"start", "stop">> \o Flag(o, "BYSCORE") \o Flag(o, "BYLEX")
    \o Flag(o, "REV") \o Limit(o) \o Flag(o, "WITHSCORES")

build_simple_range_cmd(o, name, a, b) ==
    <<name, "key", a, b>> \o Flag(o, "WITHSCORES") \o Limit(o)

build_zset_op_cmd(o, leading) ==
    leading \o Counted(o, "key")
    \o (IF "WEIGHTS" \in o.given THEN <<"WEIGHTS">> \o Many(o, "weight")
        ELSE << >>)
    \o Opt(o, "AGGREGATE", "aggregate") \o Flag(o, "WITHSCORES")

ZSetWire(o) ==
    [zincrby          |-> <<"ZINCRBY", "key", "amount", "member">>,
     zcard            |-> <<"ZCARD", "key">>,
     zscore           |-> <<"ZSCORE", "key", "member">>,
     zmscore          |-> <<"ZMSCORE", "key">> \o Many(o, "member"),
     zrem             |-> <<"ZREM", "key">> \o Many(o, "member"),
     zremrangebyrank  |-> <<"ZREMRANGEBYRANK", "key", "start", "stop">>,
     zremrangebyscore |-> <<"ZREMRANGEBYSCORE", "key", "min", "max">>,
     zremrangebylex   |-> <<"ZREMRANGEBYLEX", "key", "min", "max">>,
     zcount           |-> <<"ZCOUNT", "key", "min", "max">>,
     zlexcount        |-> <<"ZLEXCOUNT", "key", "min", "max">>]

ZPopWire(o) ==
    [zpopmin  |-> <<"ZPOPMIN", "key", "count">>,
     zpopmax  |-> <<"ZPOPMAX", "key", "count">>,
     zmpop    |-> <<"ZMPOP">> \o Counted(o, "key")
                  \o <<"direction", "COUNT", "count">>,
     bzpopmin |-> <<"BZPOPMIN">> \o Many(o, "key") \o <<"timeout">>,
     bzpopmax |-> <<"BZPOPMAX">> \o Many(o, "key") \o <<"timeout">>,
     bzmpop   |-> <<"BZMPOP", "timeout">> \o Counted(o, "key")
                  \o <<"direction", "COUNT", "count">>]

ZSetWireTail(o) ==
    [zrandmember |-> <<"ZRANDMEMBER", "key">>
                     \o (IF "count" \in o.given
                         THEN <<"count">> \o Flag(o, "WITHSCORES") ELSE << >>),
     zscan       |-> <<"ZSCAN", "key", "cursor">> \o Opt(o, "MATCH", "pattern")
                     \o Opt(o, "COUNT", "count"),
     zdiff       |-> <<"ZDIFF">> \o Counted(o, "key") \o Flag(o, "WITHSCORES"),
     zdiffstore  |-> <<"ZDIFFSTORE", "dst">> \o Counted(o, "key"),
     zintercard  |-> <<"ZINTERCARD">> \o Counted(o, "key")
                     \o Opt(o, "LIMIT", "limit")]

(***************************************************************************)
(* Replies whose type depends on the options.                              *)
(***************************************************************************)
Scored(o) == IF "WITHSCORES" \in o.given THEN "[(bytes, float)]" ELSE "[bytes]"

parse_rank_reply(o, name) ==
    Malformed("None", Send(<<name, "key", "member">> \o Flag(o, "WITHSCORE"),
                           IF "WITHSCORE" \in o.given THEN "(int, float)"
                           ELSE "int"))

parse_zmpop_value(cmd) == Malformed("None", Send(cmd, "(str, [(bytes, float)])"))

render_bzpop_reply(cmd) == Send(cmd, "(bytes, bytes, float)")

render_zrandmember(o, cmd) ==
    Malformed("[]", Send(cmd, IF "count" \in o.given THEN Scored(o) ELSE "bytes"))

parse_zscan_reply(class, cmd) ==
    Malformed(class, Send(cmd, "(int, [(bytes, float)])"))

(***************************************************************************)
(* Redis.  The blocking methods take the connection without sync_op!.      *)
(***************************************************************************)
SyncZRanges1(o) ==
    [zadd        |-> collect_zadd_pairs(o, validate_zadd_flags(o,
                         sync_op(o, Send(build_zadd_cmd(o),
                             IF "INCR" \in o.given THEN "float" ELSE "int")))),
     zrem        |-> IfEmpty(o, "int", sync_op(o, Send(ZSetWire(o).zrem, "int"))),
     zrange      |-> RefuseZrange(o, sync_op(o, maybe_decode(Send(
                         build_zrange_cmd(o, <<"ZRANGE", "key">>), Scored(o))))),
     zrangestore |-> RefuseZrange(o, sync_op(o, Send(build_zrange_cmd(o,
                         <<"ZRANGESTORE", "dst", "src">>), "int")))]

SyncZRanges2(o) ==
    LET Simple(name, a, b) == RefuseSimpleRange(o, sync_op(o, maybe_decode(
                Send(build_simple_range_cmd(o, name, a, b), Scored(o)))))
    IN [zrangebyscore    |-> Simple("ZRANGEBYSCORE", "min", "max"),
        zrevrangebyscore |-> Simple("ZREVRANGEBYSCORE", "max", "min"),
        zrangebylex      |-> Simple("ZRANGEBYLEX", "min", "max"),
        zrevrangebylex   |-> Simple("ZREVRANGEBYLEX", "max", "min")]

SyncZScores(o) ==
    LET w == ZSetWire(o) IN
    [zincrby          |-> sync_op(o, Send(w.zincrby, "float")),
     zcard            |-> sync_op(o, Send(w.zcard, "int")),
     zscore           |-> sync_op(o, Send(w.zscore, "float")),
     zmscore          |-> IfEmpty(o, "[float]",
                              sync_op(o, Send(w.zmscore, "[float]"))),
     zrank            |-> sync_op(o, parse_rank_reply(o, "ZRANK")),
     zrevrank         |-> sync_op(o, parse_rank_reply(o, "ZREVRANK")),
     zremrangebyrank  |-> sync_op(o, Send(w.zremrangebyrank, "int")),
     zremrangebyscore |-> sync_op(o, Send(w.zremrangebyscore, "int")),
     zremrangebylex   |-> sync_op(o, Send(w.zremrangebylex, "int")),
     zcount           |-> sync_op(o, Send(w.zcount, "int")),
     zlexcount        |-> sync_op(o, Send(w.zlexcount, "int"))]

SyncZPops(o) ==
    LET w == ZPopWire(o) IN
    [zpopmin  |-> sync_op(o, maybe_decode(Send(w.zpopmin, "[(bytes, float)]"))),
     zpopmax  |-> sync_op(o, maybe_decode(Send(w.zpopmax, "[(bytes, float)]"))),
     zmpop    |-> validate_zmpop_direction(o,
                      sync_op(o, maybe_decode(parse_zmpop_value(w.zmpop)))),
     bzpopmin |-> maybe_decode(Blocking(render_bzpop_reply(w.bzpopmin))),
     bzpopmax |-> maybe_decode(Blocking(render_bzpop_reply(w.bzpopmax))),
     bzmpop   |-> validate_zmpop_direction(o,
                      maybe_decode(Blocking(parse_zmpop_value(w.bzmpop))))]

SyncZWalks(o) ==
    LET w == ZSetWireTail(o) IN
    [zrandmember |-> sync_op(o, maybe_decode(render_zrandmember(o, w.zrandmember))),
     zscan       |-> sync_op(o, maybe_decode(
                         parse_zscan_reply("DataError", w.zscan)))]

SyncZAlgebra(o) ==
    LET w == ZSetWireTail(o)
        Read(name) == validate_zset_op_args(o, sync_op(o, maybe_decode(
                          Send(build_zset_op_cmd(o, <<name>>), Scored(o)))))
        Store(name) == validate_zset_op_args(o, sync_op(o,
                           Send(build_zset_op_cmd(o, <<name, "dst">>), "int")))
    IN [zunion      |-> Read("ZUNION"),
        zinter      |-> Read("ZINTER"),
        zdiff       |-> NoKeys(o, sync_op(o, maybe_decode(
                            Send(w.zdiff, Scored(o))))),
        zunionstore |-> Store("ZUNIONSTORE"),
        zinterstore |-> Store("ZINTERSTORE"),
        zdiffstore  |-> NoKeys(o, sync_op(o, Send(w.zdiffstore, "int"))),
        zintercard  |-> NoKeys(o, sync_op(o, Send(w.zintercard, "int")))]

(***************************************************************************)
(* AsyncRedis.  The blocking methods and zrandmember spawn their task      *)
(* without async_op!, and wrap the awaitable themselves.                   *)
(***************************************************************************)
AsyncZRanges1(o) ==
    [zadd        |-> collect_zadd_pairs(o, validate_zadd_flags(o,
                         async_op(o, Send(build_zadd_cmd(o),
                             IF "INCR" \in o.given THEN "float" ELSE "int")))),
     zrem        |-> async_op(o, IfEmpty(o, "int",
                         Send(ZSetWire(o).zrem, "int"))),
     zrange      |-> RefuseZrange(o, async_op(o, Send(
                         build_zrange_cmd(o, <<"ZRANGE", "key">>), Scored(o)))),
     zrangestore |-> RefuseZrange(o, async_op(o, Send(build_zrange_cmd(o,
                         <<"ZRANGESTORE", "dst", "src">>), "int")))]

AsyncZRanges2(o) ==
    LET Simple(name, a, b) == RefuseSimpleRange(o, async_op(o,
                Send(build_simple_range_cmd(o, name, a, b), Scored(o))))
    IN [zrangebyscore    |-> Simple("ZRANGEBYSCORE", "min", "max"),
        zrevrangebyscore |-> Simple("ZREVRANGEBYSCORE", "max", "min"),
        zrangebylex      |-> Simple("ZRANGEBYLEX", "min", "max"),
        zrevrangebylex   |-> Simple("ZREVRANGEBYLEX", "max", "min")]

\* zmscore hands over what the server sends, whatever it is.
AsyncZScores(o) ==
    LET w == ZSetWire(o) IN
    [zincrby          |-> async_op(o, Send(w.zincrby, "float")),
     zcard            |-> async_op(o, Send(w.zcard, "int")),
     zscore           |-> async_op(o, Send(w.zscore, "float")),
     zmscore          |-> async_op(o, IfEmpty(o, "[float]",
                              Malformed("any", Send(w.zmscore, "[float]")))),
     zrank            |-> async_op(o, parse_rank_reply(o, "ZRANK")),
     zrevrank         |-> async_op(o, parse_rank_reply(o, "ZREVRANK")),
     zremrangebyrank  |-> async_op(o, Send(w.zremrangebyrank, "int")),
     zremrangebyscore |-> async_op(o, Send(w.zremrangebyscore, "int")),
     zremrangebylex   |-> async_op(o, Send(w.zremrangebylex, "int")),
     zcount           |-> async_op(o, Send(w.zcount, "int")),
     zlexcount        |-> async_op(o, Send(w.zlexcount, "int"))]

AsyncZPops(o) ==
    LET w == ZPopWire(o) IN
    [zpopmin  |-> async_op(o, Send(w.zpopmin, "[(bytes, float)]")),
     zpopmax  |-> async_op(o, Send(w.zpopmax, "[(bytes, float)]")),
     zmpop    |-> validate_zmpop_direction(o,
                      async_op(o, parse_zmpop_value(w.zmpop))),
     bzpopmin |-> maybe_decode(Blocking(render_bzpop_reply(w.bzpopmin))),
     bzpopmax |-> maybe_decode(Blocking(render_bzpop_reply(w.bzpopmax))),
     bzmpop   |-> validate_zmpop_direction(o,
                      maybe_decode(Blocking(parse_zmpop_value(w.bzmpop))))]

AsyncZWalks(o) ==
    LET w == ZSetWireTail(o) IN
    [zrandmember |-> maybe_decode(render_zrandmember(o, w.zrandmember)),
     zscan       |-> async_op(o, parse_zscan_reply("ResponseError", w.zscan))]

AsyncZAlgebra(o) ==
    LET w == ZSetWireTail(o)
        Read(name) == validate_zset_op_args(o, async_op(o,
                          Send(build_zset_op_cmd(o, <<name>>), Scored(o))))
        Store(name) == validate_zset_op_args(o, async_op(o,
                           Send(build_zset_op_cmd(o, <<name, "dst">>), "int")))
    IN [zunion      |-> Read("ZUNION"),
        zinter      |-> Read("ZINTER"),
        zdiff       |-> NoKeys(o, async_op(o, Send(w.zdiff, Scored(o)))),
        zunionstore |-> Store("ZUNIONSTORE"),
        zinterstore |-> Store("ZINTERSTORE"),
        zdiffstore  |-> async_op(o, NoKeys(o, Send(w.zdiffstore, "int"))),
        zintercard  |-> async_op(o, NoKeys(o, Send(w.zintercard, "int")))]

(***************************************************************************)
(* Signatures.                                                             *)
(***************************************************************************)
Operands == {w \cup a : w \in {{}, {"WEIGHTS"}, {"unequal"}},
                        a \in {{}, {"AGGREGATE"}, {"bad"}}}

ZSetSignatures ==
    [m \in {"zrem", "zmscore", "bzpopmin", "bzpopmax", "zdiffstore"} |-> Variadic]
    @@ [m \in {"zincrby", "zcard", "zscore", "zremrangebyrank",
               "zremrangebyscore", "zremrangebylex", "zcount", "zlexcount",
               "zpopmin", "zpopmax"} |-> Plain]
    @@ [m \in {"zrank", "zrevrank"} |-> Takes(SUBSET {"WITHSCORE"}, {0})]
    @@ [m \in {"zmpop", "bzmpop"} |-> Takes(SUBSET {"bad"}, 0..2)]
    @@ [m \in {"zrangebyscore", "zrevrangebyscore"} |->
            Takes(SUBSET (Window \cup {"WITHSCORES"}), {0})]
    @@ [m \in {"zrangebylex", "zrevrangebylex"} |-> Takes(SUBSET Window, {0})]
    @@ [m \in {"zunion", "zinter"} |->
            Takes({x \cup s : x \in Operands, s \in SUBSET {"WITHSCORES"}}, 0..2)]
    @@ [m \in {"zunionstore", "zinterstore"} |-> Takes(Operands, 0..2)]
    @@ [zadd        |-> Takes(SUBSET {"NX", "XX", "GT", "LT", "CH", "INCR"}, 0..2),
        zrange      |-> Takes(SUBSET (Window \cup {"BYSCORE", "BYLEX", "REV",
                                                   "WITHSCORES"}), {0}),
        zrangestore |-> Takes(SUBSET (Window \cup {"BYSCORE", "BYLEX", "REV"}),
                              {0}),
        zrandmember |-> Takes(SUBSET {"count", "WITHSCORES"}, {0}),
        zscan       |-> Takes(SUBSET {"MATCH", "COUNT"}, {0}),
        zdiff       |-> Takes(SUBSET {"WITHSCORES"}, 0..2),
        zintercard  |-> Takes(SUBSET {"LIMIT"}, 0..2)]

SyncZSets(o) == SyncZRanges1(o) @@ SyncZRanges2(o) @@ SyncZScores(o)
                @@ SyncZPops(o) @@ SyncZWalks(o) @@ SyncZAlgebra(o)
AsyncZSets(o) == AsyncZRanges1(o) @@ AsyncZRanges2(o) @@ AsyncZScores(o)
                 @@ AsyncZPops(o) @@ AsyncZWalks(o) @@ AsyncZAlgebra(o)
=============================================================================
