------------------------------ MODULE MCWrapRoll -------------------------------
(* Few requests, for model checking WrapRoll.                                *)
EXTENDS WrapRoll, TLC

CONSTANTS c1, c2, c3, c4, boot1, boot2

Symmetry == Permutations(Child)

\* A server in whose log is one record, that of a take of c1 that was told
\* "no": the requests of the others can wrap and roll a log that is not empty.
InitOneRecord ==
  /\ pc = [c \in Child |-> IF c = c1 THEN "sent" ELSE "idle"]
  /\ verb = [c \in Child |-> IF c = c1 THEN "take" ELSE "put"]
  /\ ans = [c \in Child |-> IF c = c1 THEN "no" ELSE "none"]
  /\ log = <<c1>>
  /\ udig = [c \in Child |-> <<>>]
  /\ set = [c \in Child |-> {}] /\ todo = [c \in Child |-> {}]
  /\ before = [c \in Child |-> {}]
  /\ path = [c \in Child |-> NoName]
  /\ pipe = <<>> /\ frozen = <<>>
  /\ stamp \in Stamps /\ seq = 0
  /\ logger = [pc |-> "idle", child |-> c1, name |-> NoName]
  /\ wrapped = {} /\ logBlobs = {} /\ setBlobs = {}
  /\ rolled = {} /\ taken = {}

FairSpecOneRecord == InitOneRecord /\ [][Next]_vars /\ Fairness

=============================================================================
