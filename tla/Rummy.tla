--------------------------------- MODULE Rummy ----------------------------------
(***************************************************************************)
(* The logic of flowd rules: the tables and[] and or[] of flow.go, indexed *)
(* by the values of the left and the right side, each of which may still   *)
(* be waited for.                                                          *)
(***************************************************************************)

Known == {"null", "false", "true"}
Rummy == Known \cup {"wait"}

\* Each row is a left value.
and ==
  [false |-> [false |-> "false", null |-> "false", true |-> "false", wait |-> "false"],
   null  |-> [false |-> "false", null |-> "null",  true |-> "null",  wait |-> "wait"],
   true  |-> [false |-> "false", null |-> "null",  true |-> "true",  wait |-> "wait"],
   wait  |-> [false |-> "false", null |-> "wait",  true |-> "wait",  wait |-> "wait"]]

or ==
  [false |-> [false |-> "false", null |-> "null", true |-> "true", wait |-> "wait"],
   null  |-> [false |-> "null",  null |-> "null", true |-> "true", wait |-> "wait"],
   true  |-> [false |-> "true",  null |-> "true", true |-> "true", wait |-> "true"],
   wait  |-> [false |-> "wait",  null |-> "wait", true |-> "true", wait |-> "wait"]]

\* What SQL says of two known values.
SqlAnd(l, r) == IF "false" \in {l, r} THEN "false"
                ELSE IF "null" \in {l, r} THEN "null" ELSE "true"
SqlOr(l, r)  == IF "true" \in {l, r} THEN "true"
                ELSE IF "null" \in {l, r} THEN "null" ELSE "false"

=============================================================================
