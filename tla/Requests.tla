------------------------------ MODULE Requests ------------------------------
(* What one command method does with one call: what it puts on the wire, or *)
(* the answer it gives without asking the server.                            *)
(*                                                                           *)
(* A call o is [given, n, closed]: the options given, in the words they have *)
(* on the wire, the number of variadic arguments, and whether the client is  *)
(* closed.  A command is the sequence of its words; a value is named after   *)
(* its parameter.  An outcome has the fields                                 *)
(*   act   "raise", "return" (no request was sent) or "send"                 *)
(*   what  the exception, or the Python type of the value returned           *)
(*   cmd   the command sent, conn the connection it is sent on               *)
(*   text  the bytes in the value are decoded when decode_responses is set   *)
(*   bad   what the method makes of a reply of the wrong shape: "converted"  *)
(*         where that is left to the library's conversion to a Rust type     *)
EXTENDS Integers, Sequences, FiniteSets, TLC

(***************************************************************************)
(* Words of a command.                                                     *)
(***************************************************************************)
Flag(o, word) == IF word \in o.given THEN <<word>> ELSE << >>
Opt(o, word, value) == IF word \in o.given THEN <<word, value>> ELSE << >>
Many(o, value) == [i \in 1..o.n |-> value]
Pairs(o, field, value) ==
    [i \in 1..2 * o.n |-> IF i % 2 = 1 THEN field ELSE value]
Counted(o, value) == <<ToString(o.n)>> \o Many(o, value)
\* The first of the flags of an expiry; the others do not reach the wire.
FirstFlag(o) ==
    IF "NX" \in o.given THEN <<"NX">>
    ELSE IF "XX" \in o.given THEN <<"XX">>
    ELSE IF "GT" \in o.given THEN <<"GT">>
    ELSE Flag(o, "LT")

(***************************************************************************)
(* Outcomes.                                                               *)
(***************************************************************************)
Raise(class) == [act |-> "raise", what |-> class, cmd |-> << >>,
                 conn |-> "none", text |-> FALSE, bad |-> "none"]
Return(type) == [Raise(type) EXCEPT !.act = "return"]
Send(cmd, type) == [act |-> "send", what |-> type, cmd |-> cmd,
                    conn |-> "plain", text |-> FALSE, bad |-> "converted"]

\* The same request on the connection blocking commands have to themselves.
Blocking(r) == IF r.act = "send" THEN [r EXCEPT !.conn = "blocking"] ELSE r
\* The same request, with what becomes of a reply of the wrong shape.
Malformed(bad, r) == IF r.act = "send" THEN [r EXCEPT !.bad = bad] ELSE r
\* The reply is not looked at.
Done(cmd) == Malformed("None", Send(cmd, "None"))

\* The types that carry bytes: what decode_responses turns into text.
BytesTypes == {"bytes", "[bytes]", "{bytes}", "{bytes: bytes}", "(str, bytes)",
               "(str, [bytes])", "(int, {bytes})", "(int, [bytes])",
               "(int, {bytes: bytes})", "[(bytes, bytes)]", "bool or bytes",
               "[(bytes, float)]", "(str, [(bytes, float)])",
               "(bytes, bytes, float)", "(int, [(bytes, float)])",
               "entries", "{bytes: entries}", "(int, bytes, bytes, [bytes])",
               "[{bytes: bytes}]", "{bytes: any}", "[{bytes: any}]", "any",
               "(bytes, [bytes], [bytes])", "(bytes, entries, [bytes])",
               "[int, [bytes]]"}
\* There are no bytes in a value the method makes up itself.
maybe_decode(r) == [r EXCEPT !.text = r.act = "send" /\ r.what \in BytesTypes]

(***************************************************************************)
(* The conditions a method tests, in the order in which it nests them.     *)
(***************************************************************************)
Refuse(condition, class, r) == IF condition THEN Raise(class) ELSE r
IfEmpty(o, type, r) == IF o.n = 0 THEN Return(type) ELSE r
CheckClosed(o, r) == Refuse(o.closed, "ValueError", r)

sync_op(o, r) == CheckClosed(o, r)
\* Mutant: the awaitable is handed over as it is.
async_op_undecoded(o, r) == CheckClosed(o, r)
\* The awaitable decodes its value when it is resolved.
async_op(o, r) == CheckClosed(o, maybe_decode(r))

\* The same for a family of methods: their requests, by method.
sync_ops(o, requests) ==
    [m \in DOMAIN requests |-> sync_op(o, maybe_decode(requests[m]))]
async_ops(o, requests) == [m \in DOMAIN requests |-> async_op(o, requests[m])]

\* At most one of the words is given.
AtMostOne(o, words) == Cardinality(o.given \cap words) <= 1

\* What a method's signature lets a caller pass.
Takes(options, counts) == [given : options, n : counts]
Plain == Takes({{}}, {0})
Variadic == Takes({{}}, 0..2)
=============================================================================
