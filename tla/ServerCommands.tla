--------------------------- MODULE ServerCommands ---------------------------
(* The scripting and the administration commands.  As with the streams the  *)
(* two variants share the functions that build commands and parse replies.  *)
(*                                                                          *)
(* "bad" is a mode or a policy that is not one of the words the method      *)
(* accepts, "mapping" the first argument of config_set as a mapping.  A     *)
(* call of a script has one argument besides its keys.  select, which sends *)
(* nothing, and the deprecation warning of keys are left out.               *)
EXTENDS Requests

(***************************************************************************)
(* Scripts and functions.                                                  *)
(***************************************************************************)
\* EVAL and FCALL.  The reply is whatever the script returns.
cmd_eval(o, name, what) ==
    Malformed("any", Send(<<name, what>> \o Counted(o, "key") \o <<"arg">>, "any"))

ScriptRequests(o) ==
    [eval          |-> cmd_eval(o, "EVAL", "script"),
     evalsha       |-> cmd_eval(o, "EVALSHA", "sha"),
     eval_ro       |-> cmd_eval(o, "EVAL_RO", "script"),
     evalsha_ro    |-> cmd_eval(o, "EVALSHA_RO", "sha"),
     script_load   |-> Send(<<"SCRIPT", "LOAD", "script">>, "str"),
     script_exists |-> Send(<<"SCRIPT", "EXISTS">> \o Many(o, "sha"), "[bool]"),
     script_flush  |-> Done(<<"SCRIPT", "FLUSH">> \o Flag(o, "mode")),
     script_kill   |-> Done(<<"SCRIPT", "KILL">>)]

FunctionRequests(o) ==
    [fcall            |-> cmd_eval(o, "FCALL", "function"),
     fcall_ro         |-> cmd_eval(o, "FCALL_RO", "function"),
     function_load    |-> Send(<<"FUNCTION", "LOAD">> \o Flag(o, "REPLACE")
                               \o <<"code">>, "str"),
     function_delete  |-> Done(<<"FUNCTION", "DELETE", "library">>),
     function_dump    |-> Send(<<"FUNCTION", "DUMP">>, "bytes"),
     function_flush   |-> Done(<<"FUNCTION", "FLUSH">> \o Flag(o, "mode")),
     function_list    |-> Malformed("any", Send(<<"FUNCTION", "LIST">>
                              \o Opt(o, "LIBRARYNAME", "library")
                              \o Flag(o, "WITHCODE"), "any")),
     function_stats   |-> Malformed("any", Send(<<"FUNCTION", "STATS">>, "any")),
     function_kill    |-> Done(<<"FUNCTION", "KILL">>),
     function_restore |-> Done(<<"FUNCTION", "RESTORE", "dump">> \o Flag(o, "policy"))]

\* A mode of flushing, a policy of restoring, ON or OFF.
validate_flush_mode(o, r) == Refuse("bad" \in o.given, "DataError", r)
validate_restore_policy(o, r) == Refuse("bad" \in o.given, "DataError", r)
validate_on_off_mode(o, r) == Refuse("bad" \in o.given, "DataError", r)

(***************************************************************************)
(* Administration.                                                         *)
(***************************************************************************)
parse_scan_reply(o, type, none) ==
    Malformed(none, Send(<<"SCAN", "cursor">> \o Opt(o, "MATCH", "pattern")
                         \o Opt(o, "COUNT", "count") \o Opt(o, "TYPE", "type"), type))

KeyspaceRequests(o) ==
    LET Mode == IF "ASYNC" \in o.given THEN "ASYNC" ELSE "SYNC"
    IN [keys      |-> Send(<<"KEYS", "pattern">>, "[bytes]"),
        randomkey |-> Send(<<"RANDOMKEY">>, "bytes"),
        dbsize    |-> Send(<<"DBSIZE">>, "int"),
        flushdb   |-> Done(<<"FLUSHDB", Mode>>),
        flushall  |-> Done(<<"FLUSHALL", Mode>>)]

\* A reply of text.
value_to_bytes(cmd) == Malformed("b''", Send(cmd, "bytes"))

\* One parameter by name, or a mapping of them.
config_set_extract_pairs(o) ==
    IF "mapping" \in o.given THEN Pairs(o, "mapping", "setting")
    ELSE <<"name", "value">>

ConfigRequests(o) ==
    [info             |-> value_to_bytes(<<"INFO">> \o Flag(o, "section")),
     config_get       |-> Malformed("{}", Send(<<"CONFIG", "GET", "parameter">>,
                                               "{bytes: bytes}")),
     config_set       |-> Done(<<"CONFIG", "SET">> \o config_set_extract_pairs(o)),
     config_resetstat |-> Done(<<"CONFIG", "RESETSTAT">>),
     config_rewrite   |-> Done(<<"CONFIG", "REWRITE">>)]

RefuseConfigSet(o, r) == Refuse(o.given = {}, "DataError", r)

parse_client_list_reply(cmd) == Malformed("[]", Send(cmd, "[{bytes: bytes}]"))

ClientRequests(o) ==
    [client_id       |-> Send(<<"CLIENT", "ID">>, "int"),
     client_getname  |-> Send(<<"CLIENT", "GETNAME">>, "bytes"),
     client_setname  |-> Done(<<"CLIENT", "SETNAME", "name">>),
     client_info     |-> value_to_bytes(<<"CLIENT", "INFO">>),
     client_list     |-> parse_client_list_reply(<<"CLIENT", "LIST">>
                             \o Opt(o, "TYPE", "type")
                             \o (IF o.n = 0 THEN << >>
                                 ELSE <<"ID">> \o Many(o, "id"))),
     client_kill     |-> Send(<<"CLIENT", "KILL">> \o Opt(o, "ADDR", "addr")
                              \o Opt(o, "LADDR", "laddr") \o Opt(o, "ID", "id")
                              \o Opt(o, "TYPE", "type") \o Opt(o, "USER", "user")
                              \o Opt(o, "SKIPME", "skipme")
                              \o Opt(o, "MAXAGE", "maxage"), "int"),
     client_pause    |-> Done(<<"CLIENT", "PAUSE", "timeout",
                                IF "WRITE" \in o.given THEN "WRITE" ELSE "ALL">>),
     client_unpause  |-> Done(<<"CLIENT", "UNPAUSE">>),
     client_no_evict |-> Done(<<"CLIENT", "NO-EVICT", "mode">>),
     client_no_touch |-> Done(<<"CLIENT", "NO-TOUCH", "mode">>)]

parse_help_reply(cmd) == Malformed("[]", Send(cmd, "[bytes]"))
parse_time_reply(cmd) == Malformed("None", Send(cmd, "(int, int)"))

ObjectRequests(o) ==
    [object_encoding |-> Send(<<"OBJECT", "ENCODING", "key">>, "bytes"),
     object_idletime |-> Send(<<"OBJECT", "IDLETIME", "key">>, "int"),
     object_freq     |-> Send(<<"OBJECT", "FREQ", "key">>, "int"),
     object_refcount |-> Send(<<"OBJECT", "REFCOUNT", "key">>, "int"),
     object_help     |-> parse_help_reply(<<"OBJECT", "HELP">>),
     memory_usage    |-> Send(<<"MEMORY", "USAGE", "key">>
                              \o Opt(o, "SAMPLES", "samples"), "int"),
     echo            |-> Send(<<"ECHO", "message">>, "bytes"),
     wait            |-> Send(<<"WAIT", "numreplicas", "timeout">>, "int"),
     waitaof         |-> Malformed("any", Send(<<"WAITAOF", "numlocal",
                                        "numreplicas", "timeout">>, "[int]")),
     time            |-> parse_time_reply(<<"TIME">>),
     lastsave        |-> Send(<<"LASTSAVE">>, "int"),
     debug_sleep     |-> Done(<<"DEBUG", "SLEEP", "seconds">>)]

\* BGSAVE and BGREWRITEAOF, with what becomes of the server's message.
SaveRequests(o, type) ==
    [bgsave       |-> Send(<<"BGSAVE">> \o Flag(o, "SCHEDULE"), type),
     bgrewriteaof |-> Send(<<"BGREWRITEAOF">>, type)]

(***************************************************************************)
(* Redis.                                                                  *)
(***************************************************************************)
SyncScripts(o) ==
    [sync_ops(o, ScriptRequests(o)) EXCEPT !.script_flush = validate_flush_mode(o, @)]

SyncFunctions(o) ==
    [sync_ops(o, FunctionRequests(o)) EXCEPT
        !.function_flush = validate_flush_mode(o, @),
        !.function_restore = validate_restore_policy(o, @)]

\* scan returns a tuple.
SyncKeyspace(o) ==
    sync_ops(o, [scan |-> parse_scan_reply(o, "(int, [bytes])", "(0, [])")]
                @@ KeyspaceRequests(o))

SyncConfig(o) ==
    [sync_ops(o, ConfigRequests(o)) EXCEPT !.config_set = RefuseConfigSet(o, @)]

SyncClients(o) ==
    [sync_ops(o, ClientRequests(o)) EXCEPT
        !.client_no_evict = validate_on_off_mode(o, @),
        !.client_no_touch = validate_on_off_mode(o, @)]

SyncObjects(o) == sync_ops(o, ObjectRequests(o) @@ SaveRequests(o, "bytes"))

(***************************************************************************)
(* AsyncRedis.                                                             *)
(***************************************************************************)
AsyncScripts(o) ==
    [async_ops(o, ScriptRequests(o)) EXCEPT !.script_flush = validate_flush_mode(o, @)]

AsyncFunctions(o) ==
    [async_ops(o, FunctionRequests(o)) EXCEPT
        !.function_flush = validate_flush_mode(o, @),
        !.function_restore = validate_restore_policy(o, @)]

\* scan returns a list.
AsyncKeyspace(o) ==
    async_ops(o, [scan |-> parse_scan_reply(o, "[int, [bytes]]", "[0, []]")]
                 @@ KeyspaceRequests(o))

AsyncConfig(o) ==
    [async_ops(o, ConfigRequests(o)) EXCEPT !.config_set = RefuseConfigSet(o, @)]

AsyncClients(o) ==
    [async_ops(o, ClientRequests(o)) EXCEPT
        !.client_no_evict = validate_on_off_mode(o, @),
        !.client_no_touch = validate_on_off_mode(o, @)]

\* The message of a save is dropped.
AsyncObjects(o) == async_ops(o, ObjectRequests(o) @@ SaveRequests(o, "None"))

(***************************************************************************)
(* Signatures.                                                             *)
(***************************************************************************)
ServerSignatures ==
    [m \in {"script_load", "script_kill", "function_delete", "function_dump",
            "function_stats", "function_kill", "keys", "randomkey", "dbsize",
            "config_get", "config_resetstat", "config_rewrite", "client_id",
            "client_getname", "client_setname", "client_info", "client_unpause",
            "object_encoding", "object_idletime", "object_freq",
            "object_refcount", "object_help", "echo", "wait", "waitaof", "time",
            "lastsave", "debug_sleep", "bgrewriteaof"} |-> Plain]
    @@ [m \in {"eval", "evalsha", "eval_ro", "evalsha_ro", "fcall", "fcall_ro",
               "script_exists"} |-> Variadic]
    @@ [m \in {"script_flush", "function_flush"} |-> Takes({{}, {"mode"}, {"bad"}}, {0})]
    @@ [m \in {"client_no_evict", "client_no_touch"} |-> Takes(SUBSET {"bad"}, {0})]
    @@ [m \in {"flushdb", "flushall"} |-> Takes(SUBSET {"ASYNC"}, {0})]
    @@ [function_load    |-> Takes(SUBSET {"REPLACE"}, {0}),
        function_list    |-> Takes(SUBSET {"LIBRARYNAME", "WITHCODE"}, {0}),
        function_restore |-> Takes({{}, {"policy"}, {"bad"}}, {0}),
        scan             |-> Takes(SUBSET {"MATCH", "COUNT", "TYPE"}, {0}),
        info             |-> Takes(SUBSET {"section"}, {0}),
        config_set       |-> Takes(SUBSET {"mapping", "value"}, {1, 2}),
        client_list      |-> Takes(SUBSET {"TYPE"}, 0..2),
        client_kill      |-> Takes(SUBSET {"ADDR", "LADDR", "ID", "TYPE", "USER",
                                           "SKIPME", "MAXAGE"}, {0}),
        client_pause     |-> Takes(SUBSET {"WRITE"}, {0}),
        memory_usage     |-> Takes(SUBSET {"SAMPLES"}, {0}),
        bgsave           |-> Takes(SUBSET {"SCHEDULE"}, {0})]

SyncServer(o) == SyncScripts(o) @@ SyncFunctions(o) @@ SyncKeyspace(o)
                 @@ SyncConfig(o) @@ SyncClients(o) @@ SyncObjects(o)
AsyncServer(o) == AsyncScripts(o) @@ AsyncFunctions(o) @@ AsyncKeyspace(o)
                  @@ AsyncConfig(o) @@ AsyncClients(o) @@ AsyncObjects(o)
=============================================================================
