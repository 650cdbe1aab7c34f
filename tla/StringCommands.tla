--------------------------- MODULE StringCommands ---------------------------
(* The string and key commands.                                            *)
EXTENDS Requests

(***************************************************************************)
(* Arguments.                                                              *)
(***************************************************************************)
Ttls == {"EX", "PX", "EXAT", "PXAT"}
ExpireFlags == {"NX", "XX", "GT", "LT"}

validate_set_kwargs(o, r) ==
    Refuse(\/ {"NX", "XX"} \subseteq o.given
           \/ ~AtMostOne(o, Ttls)
           \/ "KEEPTTL" \in o.given /\ o.given \cap Ttls # {},
           "DataError", r)

\* Mutant: the flags are not tested.
validate_no_flags(o, r) == r

validate_expire_flags(o, r) ==
    Refuse(~AtMostOne(o, ExpireFlags), "DataError", r)

\* The tests getex makes in its own body.
RefuseGetex(o, r) ==
    Refuse(\/ ~AtMostOne(o, Ttls)
           \/ "PERSIST" \in o.given /\ o.given \cap Ttls # {},
           "DataError", r)

(***************************************************************************)
(* Commands of the driver.                                                 *)
(***************************************************************************)
TtlWords(o) == Opt(o, "EX", "ex") \o Opt(o, "PX", "px")
               \o Opt(o, "EXAT", "exat") \o Opt(o, "PXAT", "pxat")

StringWire(o) ==
    [set      |-> <<"SET", "key", "value">> \o TtlWords(o) \o Flag(o, "KEEPTTL")
                  \o Flag(o, "NX") \o Flag(o, "XX") \o Flag(o, "GET"),
     getex    |-> <<"GETEX", "key">> \o TtlWords(o) \o Flag(o, "PERSIST"),
     getdel   |-> <<"GETDEL", "key">>,
     getrange |-> <<"GETRANGE", "key", "start", "end">>,
     setrange |-> <<"SETRANGE", "key", "offset", "value">>,
     strlen   |-> <<"STRLEN", "key">>,
     append   |-> <<"APPEND", "key", "value">>]

append_expire_flag(o) == FirstFlag(o)

NumberWire(o) ==
    [mget        |-> <<"MGET">> \o Many(o, "key"),
     mset        |-> <<"MSET">> \o Pairs(o, "key", "value"),
     msetnx      |-> <<"MSETNX">> \o Pairs(o, "key", "value"),
     incr        |-> <<"INCR", "key">>,
     incrby      |-> <<"INCRBY", "key", "amount">>,
     incrbyfloat |-> <<"INCRBYFLOAT", "key", "amount">>,
     decr        |-> <<"DECR", "key">>,
     decrby      |-> <<"DECRBY", "key", "amount">>,
     exists      |-> <<"EXISTS">> \o Many(o, "key"),
     unlink      |-> <<"UNLINK">> \o Many(o, "key"),
     expire      |-> <<"EXPIRE", "key", "time">> \o append_expire_flag(o),
     pexpire     |-> <<"PEXPIRE", "key", "time">> \o append_expire_flag(o),
     expireat    |-> <<"EXPIREAT", "key", "time">> \o append_expire_flag(o),
     pexpireat   |-> <<"PEXPIREAT", "key", "time">> \o append_expire_flag(o)]

KeyWire(o) ==
    [ttl         |-> <<"TTL", "key">>,
     pttl        |-> <<"PTTL", "key">>,
     expiretime  |-> <<"EXPIRETIME", "key">>,
     pexpiretime |-> <<"PEXPIRETIME", "key">>,
     persist     |-> <<"PERSIST", "key">>,
     rename      |-> <<"RENAME", "src", "dst">>,
     renamenx    |-> <<"RENAMENX", "src", "dst">>,
     key_type    |-> <<"TYPE", "key">>,
     copy        |-> <<"COPY", "src", "dst">> \o Opt(o, "DB", "db")
                     \o Flag(o, "REPLACE"),
     dump        |-> <<"DUMP", "key">>,
     restore     |-> <<"RESTORE", "key", "ttl", "value">> \o Flag(o, "REPLACE")
                     \o Flag(o, "ABSTTL") \o Opt(o, "IDLETIME", "idletime")
                     \o Opt(o, "FREQ", "frequency")]

\* What becomes of a reply to SET that is none of OK, nil and a string.
set_value_to_py(o) == IF "GET" \in o.given THEN "None" ELSE "bool"

(***************************************************************************)
(* Redis.                                                                  *)
(***************************************************************************)
SyncStrings1(o) ==
    LET w == StringWire(o) IN
    [get    |-> sync_op(o, maybe_decode(Send(<<"GET", "key">>, "bytes"))),
     set    |-> validate_set_kwargs(o, sync_op(o, Malformed(set_value_to_py(o),
                    maybe_decode(Send(w.set, "bool or bytes"))))),
     delete |-> IfEmpty(o, "int",
                    sync_op(o, Send(<<"DEL">> \o Many(o, "key"), "int"))),
     ping   |-> sync_op(o, IF "message" \in o.given
                    THEN maybe_decode(Send(<<"PING", "message">>, "bytes"))
                    ELSE Send(<<"PING">>, "bool")),
     getex  |-> RefuseGetex(o, sync_op(o, maybe_decode(Send(w.getex, "bytes"))))]

SyncStrings2(o) ==
    LET w == StringWire(o) @@ NumberWire(o) IN
    [getdel      |-> sync_op(o, maybe_decode(Send(w.getdel, "bytes"))),
     getrange    |-> sync_op(o, maybe_decode(Send(w.getrange, "bytes"))),
     setrange    |-> sync_op(o, Send(w.setrange, "int")),
     strlen      |-> sync_op(o, Send(w.strlen, "int")),
     append      |-> sync_op(o, Send(w.append, "int")),
     mget        |-> sync_op(o, maybe_decode(
                         IfEmpty(o, "[bytes]", Send(w.mget, "[bytes]")))),
     mset        |-> sync_op(o, IfEmpty(o, "None", Send(w.mset, "None"))),
     msetnx      |-> sync_op(o, IfEmpty(o, "bool", Send(w.msetnx, "bool"))),
     incr        |-> sync_op(o, Send(w.incr, "int")),
     incrby      |-> sync_op(o, Send(w.incrby, "int")),
     incrbyfloat |-> sync_op(o, Send(w.incrbyfloat, "float")),
     decr        |-> sync_op(o, Send(w.decr, "int")),
     decrby      |-> sync_op(o, Send(w.decrby, "int"))]

SyncKeys1(o) ==
    LET w == NumberWire(o) @@ KeyWire(o)
        Expire(cmd) == validate_expire_flags(o, sync_op(o, Send(cmd, "bool")))
    IN [exists      |-> IfEmpty(o, "int", sync_op(o, Send(w.exists, "int"))),
        unlink      |-> IfEmpty(o, "int", sync_op(o, Send(w.unlink, "int"))),
        expire      |-> Expire(w.expire),
        pexpire     |-> Expire(w.pexpire),
        expireat    |-> Expire(w.expireat),
        pexpireat   |-> Expire(w.pexpireat),
        ttl         |-> sync_op(o, Send(w.ttl, "int")),
        pttl        |-> sync_op(o, Send(w.pttl, "int")),
        expiretime  |-> sync_op(o, Send(w.expiretime, "int")),
        pexpiretime |-> sync_op(o, Send(w.pexpiretime, "int")),
        persist     |-> sync_op(o, Send(w.persist, "bool"))]

SyncKeys2(o) ==
    LET w == KeyWire(o) IN
    [rename   |-> sync_op(o, Send(w.rename, "None")),
     renamenx |-> sync_op(o, Send(w.renamenx, "bool")),
     type     |-> sync_op(o, Send(w.key_type, "str")),
     key_type |-> sync_op(o, Send(w.key_type, "str")),
     copy     |-> sync_op(o, Send(w.copy, "bool")),
     dump     |-> sync_op(o, maybe_decode(Send(w.dump, "bytes"))),
     restore  |-> sync_op(o, Send(w.restore, "bool"))]

(***************************************************************************)
(* AsyncRedis.                                                             *)
(***************************************************************************)
AsyncStrings1(o) ==
    LET w == StringWire(o) IN
    [get    |-> async_op(o, Send(<<"GET", "key">>, "bytes")),
     set    |-> validate_set_kwargs(o, async_op(o,
                    Malformed(set_value_to_py(o), Send(w.set, "bool or bytes")))),
     delete |-> async_op(o, IfEmpty(o, "int",
                    Send(<<"DEL">> \o Many(o, "key"), "int"))),
     ping   |-> async_op(o, IF "message" \in o.given
                    THEN Send(<<"PING", "message">>, "bytes")
                    ELSE Send(<<"PING">>, "bool"))]

AsyncStrings2(o) ==
    LET w == StringWire(o) @@ NumberWire(o) IN
    [getex    |-> RefuseGetex(o, async_op(o, Send(w.getex, "bytes"))),
     getdel   |-> async_op(o, Send(w.getdel, "bytes")),
     getrange |-> async_op(o, Send(w.getrange, "bytes")),
     setrange |-> async_op(o, Send(w.setrange, "int")),
     strlen   |-> async_op(o, Send(w.strlen, "int")),
     append   |-> async_op(o, Send(w.append, "int")),
     mget     |-> async_op(o, IfEmpty(o, "[bytes]", Send(w.mget, "[bytes]")))]

AsyncStrings3(o) ==
    LET w == NumberWire(o) IN
    [mset        |-> async_op(o, IfEmpty(o, "None", Send(w.mset, "None"))),
     msetnx      |-> async_op(o, IfEmpty(o, "bool", Send(w.msetnx, "bool"))),
     incr        |-> async_op(o, Send(w.incr, "int")),
     incrby      |-> async_op(o, Send(w.incrby, "int")),
     incrbyfloat |-> async_op(o, Send(w.incrbyfloat, "float")),
     decr        |-> async_op(o, Send(w.decr, "int")),
     decrby      |-> async_op(o, Send(w.decrby, "int")),
     exists      |-> async_op(o, IfEmpty(o, "int", Send(w.exists, "int"))),
     unlink      |-> async_op(o, IfEmpty(o, "int", Send(w.unlink, "int"))),
     expire      |-> validate_expire_flags(o, async_op(o, Send(w.expire, "bool")))]

AsyncKeys1(o) ==
    LET w == NumberWire(o) @@ KeyWire(o)
        Expire(cmd) == validate_expire_flags(o, async_op(o, Send(cmd, "bool")))
    IN [pexpire     |-> Expire(w.pexpire),
        expireat    |-> Expire(w.expireat),
        pexpireat   |-> Expire(w.pexpireat),
        ttl         |-> async_op(o, Send(w.ttl, "int")),
        pttl        |-> async_op(o, Send(w.pttl, "int")),
        expiretime  |-> async_op(o, Send(w.expiretime, "int")),
        pexpiretime |-> async_op(o, Send(w.pexpiretime, "int")),
        persist     |-> async_op(o, Send(w.persist, "bool"))]

AsyncKeys2(o) ==
    LET w == KeyWire(o) IN
    [rename   |-> async_op(o, Send(w.rename, "None")),
     renamenx |-> async_op(o, Send(w.renamenx, "bool")),
     type     |-> async_op(o, Send(w.key_type, "str")),
     key_type |-> async_op(o, Send(w.key_type, "str")),
     copy     |-> async_op(o, Send(w.copy, "bool")),
     dump     |-> async_op(o, Send(w.dump, "bytes")),
     restore  |-> async_op(o, Send(w.restore, "bool"))]

(***************************************************************************)
(* Signatures.                                                             *)
(***************************************************************************)
StringSignatures ==
    [m \in {"delete", "mget", "mset", "msetnx", "exists", "unlink"} |-> Variadic]
    @@ [m \in {"get", "getdel", "getrange", "setrange", "strlen", "append",
               "incr", "incrby", "incrbyfloat", "decr", "decrby", "ttl", "pttl",
               "expiretime", "pexpiretime", "persist", "rename", "renamenx",
               "type", "key_type", "dump"} |-> Plain]
    @@ [m \in {"expire", "pexpire", "expireat", "pexpireat"} |->
            Takes(SUBSET ExpireFlags, {0})]
    @@ [set     |-> Takes(SUBSET (Ttls \cup {"NX", "XX", "KEEPTTL", "GET"}), {0}),
        ping    |-> Takes(SUBSET {"message"}, {0}),
        getex   |-> Takes(SUBSET (Ttls \cup {"PERSIST"}), {0}),
        copy    |-> Takes(SUBSET {"DB", "REPLACE"}, {0}),
        restore |-> Takes(SUBSET {"REPLACE", "ABSTTL", "IDLETIME", "FREQ"}, {0})]

SyncStrings(o) ==
    SyncStrings1(o) @@ SyncStrings2(o) @@ SyncKeys1(o) @@ SyncKeys2(o)
AsyncStrings(o) ==
    AsyncStrings1(o) @@ AsyncStrings2(o) @@ AsyncStrings3(o)
    @@ AsyncKeys1(o) @@ AsyncKeys2(o)
=============================================================================
