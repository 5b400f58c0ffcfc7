------------------------------ MODULE RummyProofs -------------------------------
(***************************************************************************)
(* What the tables of flow.go compute, and why wait_bool2() may answer     *)
(* with one side still out.                                                *)
(***************************************************************************)
EXTENDS Rummy, TLAPS

\* The tables at two known values are SQL's logic, which bool2() of flow.go
\* promises: "Apply PostgreSQL 9.3 SQL logical semantics to two bool streams."
THEOREM TablesAreSql ==
  \A l, r \in Known : and[l][r] = SqlAnd(l, r) /\ or[l][r] = SqlOr(l, r)
  BY DEF Known, and, or, SqlAnd, SqlOr

\* What wait_bool2() of flow.go answers with one side known stays the answer,
\* whatever the other side turns out to be: that side may be drained unseen.
THEOREM EarlyIsFinal ==
  \A op \in {and, or} : \A l, r \in Known :
    /\ op[l]["wait"] # "wait" => op[l]["wait"] = op[l][r]
    /\ op["wait"][r] # "wait" => op["wait"][r] = op[l][r]
  <1>1. \A l, r \in Known :
          /\ and[l]["wait"] # "wait" => and[l]["wait"] = and[l][r]
          /\ and["wait"][r] # "wait" => and["wait"][r] = and[l][r]
    BY DEF Known, and
  <1>2. \A l, r \in Known :
          /\ or[l]["wait"] # "wait" => or[l]["wait"] = or[l][r]
          /\ or["wait"][r] # "wait" => or["wait"][r] = or[l][r]
    BY DEF Known, or
  <1> QED BY <1>1, <1>2

\* wait_bool2() of flow.go ends: with both sides known the answer is known.
THEOREM BothSidesDecide ==
  \A l, r \in Known : and[l][r] \in Known /\ or[l][r] \in Known
  BY DEF Known, and, or

=============================================================================
