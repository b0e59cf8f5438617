---------------------------- MODULE MCPorcupine ----------------------------
(***************************************************************************)
(* Small histories for Porcupine: three operations on one key or on two    *)
(* keys, in every order of overlapping and preceding each other, and four  *)
(* that overlap.                                                           *)
(***************************************************************************)
EXTENDS Porcupine

\* An operation without its times.
Op(op, key, value, out) ==
    [op |-> op, key |-> key, value |-> value, out |-> out, call |-> 0, return |-> 0]

\* The operations on one key: writes of a and b, a read of a.
OpsOn(k) ==
    {Op("put", k, <<"a">>, <<>>), Op("appendReturning", k, <<"b">>, <<"a">>),
     Op("append", k, <<"b">>, <<>>), Op("get", k, <<>>, <<"a">>)}

At(o, s) == [o EXCEPT !.call = s[1], !.return = s[2]]

\* The times of three operations, which are logged in the order of the returns.
Times ==
    {<<<<1, 4>>, <<2, 5>>, <<3, 6>>>>, <<<<3, 4>>, <<2, 5>>, <<1, 6>>>>,  \* all overlap
     <<<<1, 2>>, <<1, 2>>, <<1, 2>>>>,                                    \* at the same times
     <<<<1, 2>>, <<3, 4>>, <<1, 5>>>>, <<<<1, 3>>, <<4, 5>>, <<2, 6>>>>,  \* one overlaps two
     <<<<1, 2>>, <<2, 3>>, <<3, 4>>>>,                                    \* called at a return
     <<<<1, 2>>, <<3, 5>>, <<4, 6>>>>, <<<<1, 3>>, <<2, 4>>, <<5, 6>>>>,  \* one before or after two
     <<<<1, 2>>, <<3, 4>>, <<5, 6>>>>}                                    \* one after the other

Timed(os) == {[i \in 1 .. 3 |-> At(os[i], t[i])] : t \in Times}

\* Four operations, in any order, that overlap, the last one perhaps later: two
\* appends that both saw a, or reads of the values before and after
\* the put.
Overlapping ==
    LET Shapes == {{Op("put", "x", <<"a">>, <<>>), Op("get", "x", <<>>, <<"a", "b">>),
                    Op("appendReturning", "x", <<"b">>, <<"a">>),
                    Op("appendReturning", "x", <<"c">>, <<"a">>)},
                   {Op("put", "x", <<"a">>, <<>>), Op("append", "x", <<"b">>, <<>>),
                    Op("get", "x", <<>>, <<>>), Op("get", "x", <<>>, <<"a">>)}}
    IN  {[i \in 1 .. 4 |-> At(os[i], IF i = 4 THEN last ELSE <<i, 4 + i>>)] :
            os \in UNION {SetToSeqs(S) : S \in Shapes}, last \in {<<4, 8>>, <<9, 10>>}}

MCHistories ==
    LET OneKey == {os \in [1 .. 3 -> OpsOn("x")] :
                      IsInjective(os) /\ {"put", "get"} \subseteq {os[i].op : i \in 1 .. 3}}
        TwoKeys == {InsertAt(<<o1, o2>>, k, o3) : k \in 1 .. 3,
                       o1, o2 \in {Op("put", "y", <<"a">>, <<>>), Op("get", "y", <<>>, <<"a">>)},
                       o3 \in {Op("get", "x", <<>>, <<"a">>), Op("append", "x", <<"b">>, <<>>)}}
    IN  {<<>>} \cup Overlapping \cup UNION {Timed(os) : os \in OneKey \cup TwoKeys}

\* Two overlapping or consecutive operations whose ids are not 0 and 1.
MCEventLists ==
    {[i \in 1 .. 4 |-> [kind |-> w[i][1], id |-> w[i][2], o |-> IF w[i][2] = 7 THEN o1 ELSE o2]] :
        w \in {<<<<"call", 7>>, <<"call", 2>>, <<"return", 7>>, <<"return", 2>>>>,
               <<<<"call", 2>>, <<"call", 7>>, <<"return", 7>>, <<"return", 2>>>>,
               <<<<"call", 7>>, <<"return", 7>>, <<"call", 2>>, <<"return", 2>>>>},
        o1, o2 \in OpsOn("x")}
=============================================================================
