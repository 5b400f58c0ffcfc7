------------------------------ MODULE BlobService ------------------------------
(***************************************************************************)
(* What bio4d promises the clients of its blob store.  A request is asked, *)
(* takes its effect on the set of stored blobs in one step, or none, and   *)
(* then may be answered.  The answers say what is so: "ok" to a put, give  *)
(* or digest comes after the blob was stored, "ok" to a take after it was  *)
(* removed, "no" to a get, take or eat when the blob is not there.  Only a *)
(* take the client accepted removes a blob.                                *)
(***************************************************************************)
CONSTANTS Client, Digest, Empty, Stocked

VARIABLES
  store,      \* the stored blobs
  verb, dig,  \* verb[c], dig[c]: what client c asked last
  found,      \* found[c]: the blob was there when the request looked
  done,       \* done[c]: the request had its effect
  st          \* st[c]: it is asked, answered with ok or no, or gone

Stores  == {"put", "give", "digest"}
Fetches == {"get", "take", "eat"}

vars == <<store, verb, dig, found, done, st>>

Init ==
  /\ store = Stocked
  /\ verb = [c \in Client |-> "get"]
  /\ \E d \in Digest : dig = [c \in Client |-> d]
  /\ found = [c \in Client |-> FALSE]
  /\ done = [c \in Client |-> FALSE]
  /\ st = [c \in Client |-> "gone"]

Ask(c, v, d) ==
  /\ st[c] # "asked"
  /\ verb' = [verb EXCEPT ![c] = v]
  /\ dig' = [dig EXCEPT ![c] = d]
  /\ found' = [found EXCEPT ![c] = FALSE]
  /\ done' = [done EXCEPT ![c] = FALSE]
  /\ st' = [st EXCEPT ![c] = "asked"]
  /\ UNCHANGED store

\* A blob may be stored after its client, or the process serving it, is gone.
Store(c) ==
  /\ verb[c] \in Stores /\ st[c] \in {"asked", "gone"}
  /\ ~done[c]
  /\ store' = store \cup {dig[c]}
  /\ done' = [done EXCEPT ![c] = TRUE]
  /\ UNCHANGED <<verb, dig, found, st>>

Find(c) ==
  /\ verb[c] \in Fetches /\ st[c] = "asked" /\ ~found[c]
  /\ dig[c] \in store
  /\ found' = [found EXCEPT ![c] = TRUE]
  /\ UNCHANGED <<store, verb, dig, done, st>>

Remove(c) ==
  /\ verb[c] = "take" /\ st[c] = "asked"
  /\ found[c] /\ ~done[c]
  /\ store' = store \ {dig[c]}
  /\ done' = [done EXCEPT ![c] = TRUE]
  /\ UNCHANGED <<verb, dig, found, st>>

SayOk(c) ==
  /\ st[c] = "asked"
  /\ \/ verb[c] \in Stores \cup {"take"} /\ done[c]
     \/ verb[c] \in {"get", "eat"} /\ found[c]
     \/ verb[c] = "get" /\ dig[c] = Empty
  /\ st' = [st EXCEPT ![c] = "ok"]
  /\ UNCHANGED <<store, verb, dig, found, done>>

SayNo(c) ==
  /\ st[c] = "asked"
  /\ \/ verb[c] \in Stores /\ ~done[c]
     \/ verb[c] \in Fetches /\ dig[c] \notin store /\ ~found[c]
  /\ st' = [st EXCEPT ![c] = "no"]
  /\ UNCHANGED <<store, verb, dig, found, done>>

\* Requests end without an answer, all of them when the server does.
Leave(S) ==
  /\ st' = [c \in Client |-> IF c \in S /\ st[c] = "asked" THEN "gone" ELSE st[c]]
  /\ UNCHANGED <<store, verb, dig, found, done>>

Next ==
  \/ \E c \in Client, v \in Stores \cup Fetches, d \in Digest : Ask(c, v, d)
  \/ \E c \in Client : Store(c) \/ Find(c) \/ Remove(c) \/ SayOk(c) \/ SayNo(c)
  \/ \E S \in SUBSET Client : Leave(S)

Spec == Init /\ [][Next]_vars

=============================================================================
