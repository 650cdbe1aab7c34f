--------------------------- MODULE StreamCommands ---------------------------
(* The stream commands.  The two variants of a method share the functions  *)
(* that build its command and take its reply apart; they differ in where   *)
(* they test.                                                              *)
(*                                                                         *)
(* "=" is approximate=False.  xadd takes an id in two places: "entry_id"   *)
(* is one in the place of the fields, which then come third ("fields").    *)
(* "entries" is a list of entries, an id with its fields each.             *)
EXTENDS Requests

(***************************************************************************)
(* Commands.                                                               *)
(***************************************************************************)
OrDefault(o, word, default) == IF word \in o.given THEN word ELSE default

\* Of the two ways to trim the first one given wins.
Trim(o) ==
    IF "MAXLEN" \in o.given THEN <<"MAXLEN", OrDefault(o, "=", "~"), "maxlen">>
    ELSE IF "MINID" \in o.given THEN <<"MINID", OrDefault(o, "=", "~"), "minid">>
    ELSE << >>

cmd_xadd(o) ==
    <<"XADD", "key">> \o Flag(o, "NOMKSTREAM") \o Trim(o)
    \o (IF Trim(o) = << >> THEN << >> ELSE Opt(o, "LIMIT", "limit"))
    \o <<OrDefault(o, "entry_id", OrDefault(o, "id", "*"))>>
    \o Pairs(o, IF "entry_id" \in o.given THEN "fields" ELSE "field", "value")

cmd_xread(o, leading) ==
    leading \o Opt(o, "COUNT", "count") \o Opt(o, "BLOCK", "block")
    \o Flag(o, "NOACK") \o <<"STREAMS">> \o Many(o, "key") \o Many(o, "id")

cmd_xtrim(o) == <<"XTRIM", "key">> \o Trim(o) \o Opt(o, "LIMIT", "limit")

\* Without a bound or a count the summary is asked for.
IsRange(o) == o.given \cap {"min", "max", "count"} # {}

cmd_xpending(o) ==
    <<"XPENDING", "key", "group">>
    \o (IF IsRange(o)
        THEN Opt(o, "IDLE", "idle")
             \o <<OrDefault(o, "min", "-"), OrDefault(o, "max", "+"),
                  OrDefault(o, "count", "10")>>
             \o Flag(o, "consumer")
        ELSE << >>)

cmd_xclaim(o) ==
    <<"XCLAIM", "key", "group", "consumer", "min_idle_time">> \o Many(o, "id")
    \o Opt(o, "IDLE", "idle") \o Opt(o, "TIME", "time")
    \o Opt(o, "RETRYCOUNT", "retrycount") \o Flag(o, "FORCE") \o Flag(o, "JUSTID")

cmd_xautoclaim(o) ==
    <<"XAUTOCLAIM", "key", "group", "consumer", "min_idle_time", "start",
      "COUNT", "count">> \o Flag(o, "JUSTID")

(***************************************************************************)
(* Replies.  What cannot be understood of one is left out.                 *)
(***************************************************************************)
flatten_xrange_reply(cmd) == Malformed("[]", Send(cmd, "entries"))

\* Nothing to read is None.
flatten_xread_reply(cmd) == Malformed("None", Send(cmd, "{bytes: entries}"))

flatten_xpending_summary(cmd) ==
    Malformed("(0, None, None, [])", Send(cmd, "(int, bytes, bytes, [bytes])"))

flatten_xpending_range(cmd) == Malformed("[]", Send(cmd, "[{bytes: bytes}]"))

\* A map, or a list of maps.
flatten_xinfo(cmd, type, none) == Malformed(none, Send(cmd, type))

JustIds(o, cmd) == IF "JUSTID" \in o.given
                   THEN Malformed("[]", Send(cmd, "[bytes]"))
                   ELSE flatten_xrange_reply(cmd)

split_xautoclaim_reply(o, cmd) ==
    Malformed("(b'', [], [])",
              Send(cmd, IF "JUSTID" \in o.given THEN "(bytes, [bytes], [bytes])"
                        ELSE "(bytes, entries, [bytes])"))

(***************************************************************************)
(* Requests.                                                               *)
(***************************************************************************)
EntryRequests(o) ==
    [xadd      |-> Send(cmd_xadd(o), "str"),
     xlen      |-> Send(<<"XLEN", "key">>, "int"),
     xdel      |-> Send(<<"XDEL", "key">> \o Many(o, "id"), "int"),
     xack      |-> Send(<<"XACK", "key", "group">> \o Many(o, "id"), "int"),
     xrange    |-> flatten_xrange_reply(
                       <<"XRANGE", "key", "min", "max">> \o Opt(o, "COUNT", "count")),
     xrevrange |-> flatten_xrange_reply(
                       <<"XREVRANGE", "key", "max", "min">> \o Opt(o, "COUNT", "count"))]

ReadRequests(o) ==
    LET Connection(r) == IF "BLOCK" \in o.given THEN Blocking(r) ELSE r
    IN [xread      |-> Connection(flatten_xread_reply(cmd_xread(o, <<"XREAD">>))),
        xreadgroup |-> Connection(flatten_xread_reply(
                           cmd_xread(o, <<"XREADGROUP", "GROUP", "group", "consumer">>)))]

GroupRequests(o) ==
    LET Group(words) == <<"XGROUP">> \o words IN
    [xgroup_create         |-> Done(Group(<<"CREATE", "key", "group", "id">>)
                                    \o Flag(o, "MKSTREAM")
                                    \o Opt(o, "ENTRIESREAD", "entries_read")),
     xgroup_setid          |-> Done(Group(<<"SETID", "key", "group", "id">>)
                                    \o Opt(o, "ENTRIESREAD", "entries_read")),
     xgroup_destroy        |-> Send(Group(<<"DESTROY", "key", "group">>), "int"),
     xgroup_createconsumer |-> Send(Group(<<"CREATECONSUMER", "key", "group",
                                            "consumer">>), "int"),
     xgroup_delconsumer    |-> Send(Group(<<"DELCONSUMER", "key", "group",
                                            "consumer">>), "int")]

InfoRequests(o) ==
    [xinfo_stream    |-> flatten_xinfo(<<"XINFO", "STREAM", "key">> \o Flag(o, "FULL"),
                                       "{bytes: any}", "{}"),
     xinfo_groups    |-> flatten_xinfo(<<"XINFO", "GROUPS", "key">>,
                                       "[{bytes: any}]", "[]"),
     xinfo_consumers |-> flatten_xinfo(<<"XINFO", "CONSUMERS", "key", "group">>,
                                       "[{bytes: any}]", "[]"),
     xtrim           |-> Send(cmd_xtrim(o), "int"),
     xpending        |-> IF IsRange(o) THEN flatten_xpending_range(cmd_xpending(o))
                         ELSE flatten_xpending_summary(cmd_xpending(o))]

ClaimRequests(o) ==
    [xclaim     |-> JustIds(o, cmd_xclaim(o)),
     xautoclaim |-> split_xautoclaim_reply(o, cmd_xautoclaim(o)),
     xsetid     |-> Done(<<"XSETID", "key", "id">>
                         \o Opt(o, "ENTRIESADDED", "entries_added")
                         \o Opt(o, "MAXDELETEDID", "max_deleted_entry_id"))]

(***************************************************************************)
(* Tests both variants make before anything else.                          *)
(***************************************************************************)
ResolveFields(o, r) ==
    Refuse("entry_id" \in o.given /\ "fields" \notin o.given, "TypeError", r)

RefuseXtrim(o, r) == Refuse(Trim(o) = << >>, "DataError", r)

(***************************************************************************)
(* Redis.  xread and xreadgroup choose their connection without sync_op!.  *)
(***************************************************************************)
SyncEntries(o) ==
    [sync_ops(o, EntryRequests(o)) EXCEPT
        !.xadd = ResolveFields(o, @),
        !.xdel = IfEmpty(o, "int", @),
        !.xack = IfEmpty(o, "int", @)]

SyncReads(o) ==
    LET r == ReadRequests(o)
    IN [xread |-> maybe_decode(r.xread), xreadgroup |-> maybe_decode(r.xreadgroup)]
       @@ sync_ops(o, GroupRequests(o))

SyncInfo(o) == [sync_ops(o, InfoRequests(o)) EXCEPT !.xtrim = RefuseXtrim(o, @)]

SyncClaims(o) == sync_ops(o, ClaimRequests(o))

(***************************************************************************)
(* AsyncRedis.                                                             *)
(***************************************************************************)
AsyncEntries(o) ==
    LET r == EntryRequests(o) IN
    [async_ops(o, r) EXCEPT
        !.xadd = ResolveFields(o, @),
        !.xdel = async_op(o, IfEmpty(o, "int", r.xdel)),
        !.xack = async_op(o, IfEmpty(o, "int", r.xack))]

AsyncReads(o) == async_ops(o, ReadRequests(o) @@ GroupRequests(o))

AsyncInfo(o) == [async_ops(o, InfoRequests(o)) EXCEPT !.xtrim = RefuseXtrim(o, @)]

AsyncClaims(o) == async_ops(o, ClaimRequests(o))

(***************************************************************************)
(* Signatures.                                                             *)
(***************************************************************************)
StreamSignatures ==
    [m \in {"xlen", "xgroup_destroy", "xgroup_createconsumer",
            "xgroup_delconsumer", "xinfo_groups", "xinfo_consumers"} |-> Plain]
    @@ [m \in {"xdel", "xack"} |-> Variadic]
    @@ [m \in {"xrange", "xrevrange"} |-> Takes(SUBSET {"COUNT"}, {0})]
    @@ [xadd          |-> Takes(SUBSET {"entry_id", "fields", "id", "NOMKSTREAM",
                                        "MAXLEN", "MINID", "=", "LIMIT"}, {1}),
        xread         |-> Takes(SUBSET {"COUNT", "BLOCK"}, 0..2),
        xreadgroup    |-> Takes(SUBSET {"COUNT", "BLOCK", "NOACK"}, 0..2),
        xgroup_create |-> Takes(SUBSET {"MKSTREAM", "ENTRIESREAD"}, {0}),
        xgroup_setid  |-> Takes(SUBSET {"ENTRIESREAD"}, {0}),
        xinfo_stream  |-> Takes(SUBSET {"FULL"}, {0}),
        xtrim         |-> Takes(SUBSET {"MAXLEN", "MINID", "=", "LIMIT"}, {0}),
        xpending      |-> Takes(SUBSET {"IDLE", "min", "max", "count", "consumer"},
                                {0}),
        xclaim        |-> Takes(SUBSET {"IDLE", "TIME", "RETRYCOUNT", "FORCE",
                                        "JUSTID"}, {0, 2}),
        xautoclaim    |-> Takes(SUBSET {"JUSTID"}, {0}),
        xsetid        |-> Takes(SUBSET {"ENTRIESADDED", "MAXDELETEDID"}, {0})]

SyncStreams(o) == SyncEntries(o) @@ SyncReads(o) @@ SyncInfo(o) @@ SyncClaims(o)
AsyncStreams(o) == AsyncEntries(o) @@ AsyncReads(o) @@ AsyncInfo(o) @@ AsyncClaims(o)
=============================================================================
