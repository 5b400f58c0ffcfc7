------------------------------ MODULE MCFlowGraph ------------------------------
(* Small configurations, for model checking FlowGraph.                       *)
EXTENDS FlowGraph, TLC

\* call A() when p and q
Logical ==
  [tok |-> [A |-> "CALL", v |-> "LEAF", w |-> "WHEN", b |-> "AND",
            p |-> "LEAF", q |-> "LEAF"],
   kid |-> [A |-> <<"v", "w">>, v |-> <<>>, w |-> <<"b">>, b |-> <<"p", "q">>,
            p |-> <<>>, q |-> <<>>],
   ref |-> <<>>]

\* call A(p, q) when r
Vector ==
  [tok |-> [A |-> "CALL", v |-> "ARGV", p |-> "LEAF", q |-> "LEAF",
            w |-> "WHEN", r |-> "LEAF"],
   kid |-> [A |-> <<"v", "w">>, v |-> <<"p", "q">>, p |-> <<>>, q |-> <<>>,
            w |-> <<"r">>, r |-> <<>>],
   ref |-> <<>>]

\* call A() when not map.loaded(r)
Once ==
  [tok |-> [A |-> "CALL", v |-> "LEAF", w |-> "WHEN", n |-> "NOT", l |-> "LOADED",
            r |-> "LEAF"],
   kid |-> [A |-> <<"v", "w">>, v |-> <<>>, w |-> <<"n">>, n |-> <<"l">>,
            l |-> <<"r">>, r |-> <<>>],
   ref |-> [l |-> "map"]]

\* call A() when p;  call B(A.exit_status) when q
Piped ==
  [tok |-> [A |-> "CALL", v |-> "LEAF", w |-> "WHEN", p |-> "LEAF",
            B |-> "CALL", s |-> "PROJECT", x |-> "WHEN", q |-> "LEAF"],
   kid |-> [A |-> <<"v", "w">>, v |-> <<>>, w |-> <<"p">>, p |-> <<>>,
            B |-> <<"s", "x">>, s |-> <<>>, x |-> <<"q">>, q |-> <<>>],
   ref |-> [s |-> "A"]]

\* call A() when p or q
Either == [Logical EXCEPT !.tok.b = "OR"]

Rulesets == {Logical, Vector, Once, Piped, Either}
Flows == [c \in Rulesets |-> IF c \in {Logical, Once} THEN 2 ELSE 1]
=============================================================================
