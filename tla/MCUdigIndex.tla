------------------------------ MODULE MCUdigIndex ------------------------------
(* A small instance of UdigIndex for model checking.                           *)
EXTENDS UdigIndex

\* Three digests that differ in the first or in the second digit, and texts that
\* are too short, too long, or hold a character that is not a hex digit.
Hex == {<<0, 1>>, <<0, 15>>, <<1, 0>>, <<1>>, <<1, 0, 0>>, <<1, 16>>}

Kinds == Typed \cup {"udig"}

\* Every pair of types the family lists, but a udig on the left of a bc160.
Agreed == {k \in Kinds \X Kinds : k[1] = k[2] \/ "udig" \in {k[1], k[2]}} \ {<<"udig", "bc160">>}

Disputed == {<<"udig", "bc160">>}
===============================================================================
