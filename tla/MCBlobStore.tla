----------------------------- MODULE MCBlobStore ------------------------------
(* Small trees for model checking BlobStore.                                 *)
EXTENDS BlobStore, FiniteSets, TLC

CONSTANTS c1, c2, d1, d2, d3, root, x, y

Symmetry == Permutations(Child)

\* d1 and d2 share the directory x, d3 is alone in y; x and y are in root.
TwoLevels ==
  [d \in Digest |-> [k \in 0..1 |-> IF k = 0 THEN root
                                    ELSE IF d = d3 THEN y ELSE x]]

\* One blob three directories deep.
ThreeLevels ==
  [d \in Digest |-> [k \in 0..2 |-> IF k = 0 THEN root
                                    ELSE IF k = 1 THEN x ELSE y]]

=============================================================================
