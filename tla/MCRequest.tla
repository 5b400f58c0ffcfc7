------------------------------- MODULE MCRequest -------------------------------
(* Two process slots, for model checking Request.                            *)
EXTENDS Request, TLC

CONSTANTS c1, c2

Symmetry == Permutations(Child)

=============================================================================
