------------------------------ MODULE MCClient ------------------------------
(* A service with two nodes and two sentinels and two calls; a cluster and *)
(* calls over keys with and without hash tags, repeated and empty.         *)
EXTENDS Client, Crc16

CONSTANTS k1, k2, n1, n2

MCSentinels == <<1, 2>>

MCMixes ==
    {(k1 :> m[1]) @@ (k2 :> m[2]) :
        m \in {<<"plain", "plain">>, <<"plain", "wait">>, <<"plain", "block">>,
              <<"block", "block">>}}

a == 97
b == 98

\* Keys of up to four bytes that put braces in every order around a byte.
Braced == {<<a>>, <<b>>, <<Open, a, Close>>, <<b, Open, a, Close>>,
           <<Close, Open, a, Close>>, <<Open, Close, a>>, <<Open, a>>,
           <<Open, Open, a, Close>>}

\* Two bytes (one character) with the slot of all four bytes of }{a}.
Twin == <<208, 132>>

Lists == {<< >>, <<<<a>>, <<b>>, <<a>>>>, <<<<b>>, <<Open, a, Close>>, <<a>>>>,
          <<<<Close, Open, a, Close>>, <<a>>, <<b>>>>,
          <<Twin, <<a>>, <<Close, Open, a, Close>>>>}
         \cup {<<x, y>> : x \in Braced, y \in {<<a>>, <<Open, a, Close>>}}

MCFanoutCalls ==
    {[op |-> o, keys |-> l] : o \in {"mget", "del", "exists"}, l \in Lists}
    \cup {[op |-> "mset", keys |-> l] : l \in {l \in Lists : IsInjective(l)}}

=============================================================================
