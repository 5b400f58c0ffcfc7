---------------------------- MODULE UdigIndexProofs ----------------------------
(* Theorems about UdigIndex: whatever texts the clients send and however many  *)
(* rows the table holds, the index keeps the documented order and its queries  *)
(* are exact, as long as no udig is compared with a udig_bc160 on its right.   *)
EXTENDS UdigIndex, SequenceTheorems, TLAPS

LEMMA MemcmpFacts ==
    ASSUME NEW a \in Int, NEW b \in Int, NEW c \in Int
    PROVE  /\ memcmp(a, b) \in {-1, 0, 1}
           /\ memcmp(a, b) = 0 <=> a = b
           /\ memcmp(a, b) < 0 <=> a < b
           /\ memcmp(a, b) > 0 <=> b < a
           /\ memcmp(b, a) = -memcmp(a, b)
  BY DEF memcmp

\* The documented order places every value by its height and its digest.
LEMMA OrderMeans ==
    ASSUME NEW a \in Value, NEW b \in Value
    PROVE  /\ Cast(a) \in Udig
           /\ Order(a, b) \in {-1, 0, 1}
           /\ Order(a, b) < 0 <=> \/ Height(Cast(a).type) < Height(Cast(b).type)
                                  \/ /\ Height(Cast(a).type) = Height(Cast(b).type)
                                     /\ a.digest < b.digest
           /\ Order(a, b) = 0 <=> /\ Height(Cast(a).type) = Height(Cast(b).type)
                                  /\ a.digest = b.digest
           /\ Height(Cast(a).type) \in 1 .. 3
           /\ a.digest \in 0 .. 255
<1>1. /\ Cast(a) \in Udig /\ Cast(a).digest = a.digest
      /\ Cast(b) \in Udig /\ Cast(b).digest = b.digest
      /\ a.digest \in 0 .. 255 /\ b.digest \in 0 .. 255
  BY DEF Cast, Value, Udig, TypedUdig, Typed, Digest, udig_sha_cast, udig_bc160_cast,
         udig_btc20_cast, UDIG_SHA, UDIG_BC160, UDIG_BTC20
<1>2. \A u \in Udig : u.type \in {1, 2, 3}
  BY DEF Udig, UDIG_SHA, UDIG_BC160, UDIG_BTC20
<1>3. \A u, w \in Udig : /\ Height(u.type) \in 1 .. 3
                         /\ Height(u.type) = Height(w.type) <=> u.type = w.type
  BY <1>2 DEF Height, UDIG_SHA, UDIG_BC160, UDIG_BTC20
<1> QED
  BY <1>1, <1>3 DEF Order, memcmp

LEMMA OrderTransitive ==
    ASSUME NEW a \in Value, NEW b \in Value, NEW c \in Value
    PROVE  /\ Order(a, b) < 0 /\ Order(b, c) < 0 => Order(a, c) < 0
           /\ Order(a, b) = 0 /\ Order(b, c) < 0 => Order(a, c) < 0
           /\ Order(a, b) < 0 /\ Order(b, c) = 0 => Order(a, c) < 0
           /\ Order(b, a) = -Order(a, b)
<1>1. \A x, y \in {a, b, c} :
         /\ Order(x, y) \in {-1, 0, 1}
         /\ Order(x, y) < 0 <=> \/ Height(Cast(x).type) < Height(Cast(y).type)
                                \/ /\ Height(Cast(x).type) = Height(Cast(y).type)
                                   /\ x.digest < y.digest
         /\ Order(x, y) = 0 <=> /\ Height(Cast(x).type) = Height(Cast(y).type)
                                /\ x.digest = y.digest
         /\ Height(Cast(x).type) \in Int /\ x.digest \in Int
  BY OrderMeans
<1> QED
  BY <1>1

\* Every comparison of the family but one agrees with the documented order.
Comparable(a, b) ==
    /\ a.kind = b.kind \/ a.kind = "udig" \/ b.kind = "udig"
    /\ ~ (a.kind = "udig" /\ b.kind = "bc160")

LEMMA CmpIsOrder ==
    ASSUME NEW a \in Value, NEW b \in Value, Comparable(a, b)
    PROVE  CmpProc(a, b) = Order(a, b)
<1>1. /\ a.kind = "udig" => a.type \in {1, 2, 3}
      /\ b.kind = "udig" => b.type \in {1, 2, 3}
      /\ a.kind \in {"udig", "sha", "bc160", "btc20"}
      /\ b.kind \in {"udig", "sha", "bc160", "btc20"}
      /\ a.digest \in Int /\ b.digest \in Int
  BY DEF Value, Udig, TypedUdig, Typed, Digest, UDIG_SHA, UDIG_BC160, UDIG_BTC20
<1>2. CASE a.kind = "udig" /\ b.kind = "udig"
  BY <1>1, <1>2 DEF CmpProc, Order, Cast, Height, memcmp, udig_cmp, UDIG_SHA, UDIG_BC160, UDIG_BTC20
<1>3. CASE a.kind = "udig" /\ b.kind # "udig"
  BY <1>1, <1>3 DEF Comparable, CmpProc, Order, Cast, Height, memcmp, udig_cmp_sha, udig_cmp_btc20,
     udig_sha_cast, udig_btc20_cast, UDIG_SHA, UDIG_BC160, UDIG_BTC20
<1>4. CASE a.kind # "udig" /\ b.kind = "udig"
  BY <1>1, <1>4 DEF Comparable, CmpProc, Order, Cast, Height, memcmp, udig_sha_cmp_udig,
     udig_btc20_cmp_udig, udig_bc160_cmp_udig, udig_sha_cast, udig_btc20_cast, udig_bc160_cast,
     UDIG_SHA, UDIG_BC160, UDIG_BTC20
<1>5. CASE a.kind # "udig" /\ b.kind # "udig"
  BY <1>1, <1>5 DEF Comparable, CmpProc, Order, Cast, memcmp, udig_sha_cmp, udig_bc160_cmp,
     udig_btc20_cmp, udig_sha_cast, udig_btc20_cast, udig_bc160_cast,
     UDIG_SHA, UDIG_BC160, UDIG_BTC20
<1> QED
  BY <1>2, <1>3, <1>4, <1>5

-------------------------------------------------------------------------------
(* The text forms.                                                             *)

\* Parsing a hex text gives a digest or fails.
LEMMA HexDigest ==
    ASSUME NEW h \in HexText
    PROVE  hex2dig20(h) \in Digest \cup {NoDigest}
<1>1. h \in Seq(0 .. 16)
  BY HexTextAssumption DEF HexChar
<1>2. CASE Len(h) = 2 /\ \A i \in 1 .. 2 : h[i] < 16
  <2>1. h[1] \in 0 .. 16 /\ h[2] \in 0 .. 16
    <3>1. 1 \in 1 .. Len(h) /\ 2 \in 1 .. Len(h)
      BY <1>2
    <3> QED
      BY <1>1, <3>1, ElementOfSeq
  <2>2. h[1] < 16 /\ h[2] < 16
    BY <1>2
  <2> QED
    BY <1>2, <2>1, <2>2 DEF hex2dig20, Digest
<1> QED
  BY <1>2 DEF hex2dig20

\* What the output functions write, the input functions read back.
LEMMA RoundTrip ==
    ASSUME NEW d \in Digest
    PROVE  hex2dig20(dig2hex40(d)) = d
<1>1. /\ d \div 16 \in 0 .. 15 /\ d % 16 \in 0 .. 15
      /\ 16 * (d \div 16) + (d % 16) = d
  BY DEF Digest
<1> DEFINE h == <<d \div 16, d % 16>>
<1>2. Len(h) = 2 /\ h[1] = d \div 16 /\ h[2] = d % 16
  OBVIOUS
<1> HIDE DEF h
<1>3. h[1] < 16 /\ h[2] < 16 /\ 16 * h[1] + h[2] = d
  BY <1>1, <1>2
<1>4. \A i \in 1 .. 2 : h[i] < 16
  <2>1. \A i \in 1 .. 2 : i = 1 \/ i = 2
    OBVIOUS
  <2> QED
    BY <1>3, <2>1
<1>5. hex2dig20(h) = d
  BY <1>2, <1>3, <1>4 DEF hex2dig20
<1> QED
  BY <1>5 DEF dig2hex40, h

LEMMA ReadBack ==
    ASSUME NEW v \in Value
    PROVE  /\ v.kind = "udig" => udig_in(udig_out(v)) = v
           /\ v.kind # "udig" => typed_in(v.kind, typed_out(v)) = v
<1>1. v.digest \in Digest /\ hex2dig20(dig2hex40(v.digest)) = v.digest
      /\ v.digest # NoDigest
  BY RoundTrip DEF Value, Udig, TypedUdig, Digest, NoDigest
<1>2. CASE v.kind = "udig"
  <2>1. v \in Udig
    BY <1>2 DEF Value, TypedUdig, Typed
  <2>2. v = [kind |-> "udig", type |-> v.type, digest |-> v.digest] /\ v.type \in {1, 2, 3}
    BY <2>1 DEF Udig, UDIG_SHA, UDIG_BC160, UDIG_BTC20
  <2> QED
    BY <1>1, <1>2, <2>2 DEF udig_in, udig_out, Tagged, UDIG_SHA, UDIG_BC160, UDIG_BTC20
<1>3. CASE v.kind # "udig"
  <2>1. v \in TypedUdig
    BY <1>3 DEF Value, Udig
  <2>2. v = [kind |-> v.kind, digest |-> v.digest]
    BY <2>1 DEF TypedUdig
  <2> QED
    BY <1>1, <1>3, <2>2 DEF typed_in, typed_out
<1> QED
  BY <1>2, <1>3

\* An input function returns a value of its type or rejects the text.
LEMMA ParsedType ==
    ASSUME NEW t \in Text, NEW k \in Typed
    PROVE  /\ udig_in(t) = Rejected \/ udig_in(t) \in Udig
           /\ \/ typed_in(k, t.hex) = Rejected
              \/ typed_in(k, t.hex) \in [kind : {k}, digest : Digest]
<1>1. hex2dig20(t.hex) \in Digest \cup {NoDigest}
  BY HexDigest DEF Text
<1> QED
  BY <1>1 DEF udig_in, typed_in, Tagged, Udig, TypedUdig, UDIG_SHA, UDIG_BC160, UDIG_BTC20

-------------------------------------------------------------------------------
(* The index.                                                                  *)

IInv == TypeOK /\ Sorted

LEMMA IndexValues ==
    ASSUME IInv
    PROVE  /\ Len(index) \in Nat
           /\ \A i \in 1 .. Len(index) : index[i] \in Value /\ index[i].kind = column
           /\ index = [i \in 1 .. Len(index) |-> index[i]]
  BY DEF IInv, TypeOK

\* The index after a step is given position by position.
LEMMA IsSeq ==
    ASSUME NEW n \in Nat, NEW f \in [1 .. n -> Value]
    PROVE  f \in Seq(Value) /\ Len(f) = n
  OBVIOUS

\* Two values of the column are compared in the documented order.
LEMMA ColumnOrder ==
    ASSUME IInv, NEW v \in Value, v.kind = column, NEW i \in 1 .. Len(index)
    PROVE  CmpProc(index[i], v) = Order(index[i], v)
<1>1. index[i] \in Value /\ index[i].kind = v.kind
  BY IndexValues
<1>2. Comparable(index[i], v)
  BY <1>1 DEF Comparable
<1> QED
  BY <1>1, <1>2, CmpIsOrder

\* Where a descent for a value of the column ends, the order splits the index.
LEMMA PlaceSplits ==
    ASSUME IInv, NEW v \in Value, v.kind = column, NEW p \in Places(Below(v))
    PROVE  /\ p \in 1 .. Len(index) + 1
           /\ \A i \in 1 .. Len(index) : i < p => Order(index[i], v) < 0
           /\ p <= Len(index) => Order(index[p], v) >= 0
<1>1. p \in 1 .. Len(index) + 1 /\ p \notin Below(v) /\ (p > 1 => p - 1 \in Below(v))
  BY DEF Places
<1>2. Len(index) \in Nat /\ \A i \in 1 .. Len(index) : index[i] \in Value
  BY IndexValues
<1>3. \A i \in 1 .. Len(index) : CmpProc(index[i], v) = Order(index[i], v)
  BY ColumnOrder
<1>4. ASSUME NEW i \in 1 .. Len(index), i < p
      PROVE  Order(index[i], v) < 0
  <2>1. p - 1 \in 1 .. Len(index) /\ Order(index[p - 1], v) < 0
    BY <1>1, <1>2, <1>3, <1>4 DEF Below
  <2>2. i = p - 1 \/ Order(index[i], index[p - 1]) < 0
    BY <1>1, <1>2, <1>4, <2>1 DEF IInv, Sorted
  <2> QED
    BY <1>2, <2>1, <2>2, OrderTransitive
<1>5. ASSUME p <= Len(index)
      PROVE  Order(index[p], v) >= 0
  <2>1. p \in 1 .. Len(index) /\ ~ (CmpProc(index[p], v) < 0)
    BY <1>1, <1>2, <1>5 DEF Below
  <2>2. Order(index[p], v) \in {-1, 0, 1}
    BY <1>2, <2>1, OrderMeans
  <2> QED
    BY <1>3, <2>1, <2>2
<1> QED
  BY <1>1, <1>4, <1>5

LEMMA InsertKeeps ==
    ASSUME IInv, NEW v \in Value, v.kind = column, Insert(v)
    PROVE  /\ index' \in Seq(Value)
           /\ \A i \in 1 .. Len(index') : index'[i].kind = column
           /\ Sorted'
<1>1. PICK p \in Places(Below(v)) :
         IF p <= Len(index) /\ CmpProc(index[p], v) = 0
         THEN index' = index
         ELSE index' = [i \in 1 .. Len(index) + 1 |->
                           IF i < p THEN index[i] ELSE IF i = p THEN v ELSE index[i - 1]]
  BY DEF Insert
<1>2. /\ Len(index) \in Nat
      /\ \A i \in 1 .. Len(index) : index[i] \in Value /\ index[i].kind = column
  BY IndexValues
<1>3. /\ p \in 1 .. Len(index) + 1
      /\ \A i \in 1 .. Len(index) : i < p => Order(index[i], v) < 0
      /\ p <= Len(index) => Order(index[p], v) >= 0
  BY PlaceSplits
<1>4. CASE index' = index
  BY <1>4, <1>2 DEF IInv, TypeOK, Sorted
<1>5. CASE index' # index
  <2>1. index' = [i \in 1 .. Len(index) + 1 |->
                     IF i < p THEN index[i] ELSE IF i = p THEN v ELSE index[i - 1]]
    BY <1>1, <1>5
  <2>2. p <= Len(index) => Order(index[p], v) # 0
    BY <1>1, <1>2, <1>3, <1>5, ColumnOrder
  <2>3. ASSUME NEW i \in 1 .. Len(index), i >= p
        PROVE  Order(v, index[i]) < 0
    <3>1. Order(index[p], v) \in {-1, 0, 1} /\ p \in 1 .. Len(index)
      BY <1>2, <1>3, <2>3, OrderMeans
    <3>2. Order(v, index[p]) < 0
      BY <1>2, <1>3, <2>2, <3>1, OrderTransitive
    <3>3. i = p \/ Order(index[p], index[i]) < 0
      BY <1>2, <2>3, <3>1 DEF IInv, Sorted
    <3> QED
      BY <1>2, <3>1, <3>2, <3>3, OrderTransitive
  <2>4. index' \in [1 .. Len(index) + 1 -> Value]
    BY <1>2, <1>3, <2>1
  <2>5. index' \in Seq(Value) /\ Len(index') = Len(index) + 1
    BY <1>2, <2>4, IsSeq
  <2>6. \A i \in 1 .. Len(index') : index'[i].kind = column
    BY <1>2, <1>3, <2>1, <2>5
  <2>7. ASSUME NEW i \in 1 .. Len(index'), NEW j \in 1 .. Len(index'), i < j
        PROVE  Order(index'[i], index'[j]) < 0
    <3>1. CASE j < p
      <4>1. /\ index'[i] = index[i] /\ index'[j] = index[j]
            /\ i \in 1 .. Len(index) /\ j \in 1 .. Len(index)
        BY <1>2, <1>3, <2>1, <2>5, <2>7, <3>1
      <4> QED
        BY <2>7, <4>1 DEF IInv, Sorted
    <3>2. CASE j = p
      BY <1>2, <1>3, <2>1, <2>5, <2>7, <3>2
    <3>3. CASE j > p /\ i < p
      <4>1. /\ index'[i] = index[i] /\ index'[j] = index[j - 1]
            /\ i \in 1 .. Len(index) /\ j - 1 \in 1 .. Len(index) /\ i < j - 1
        BY <1>2, <1>3, <2>1, <2>5, <2>7, <3>3
      <4> QED
        BY <4>1 DEF IInv, Sorted
    <3>4. CASE j > p /\ i = p
      <4>1. index'[i] = v /\ index'[j] = index[j - 1] /\ j - 1 \in 1 .. Len(index) /\ j - 1 >= p
        BY <1>2, <1>3, <2>1, <2>5, <2>7, <3>4
      <4> QED
        BY <2>3, <4>1
    <3>5. CASE j > p /\ i > p
      <4>1. /\ index'[i] = index[i - 1] /\ index'[j] = index[j - 1]
            /\ i - 1 \in 1 .. Len(index) /\ j - 1 \in 1 .. Len(index) /\ i - 1 < j - 1
        BY <1>2, <1>3, <2>1, <2>5, <2>7, <3>5
      <4> QED
        BY <4>1 DEF IInv, Sorted
    <3> QED
      BY <1>2, <1>3, <2>5, <3>1, <3>2, <3>3, <3>4, <3>5
  <2> QED
    BY <2>5, <2>6, <2>7 DEF Sorted
<1> QED
  BY <1>4, <1>5

LEMMA DeleteKeeps ==
    ASSUME IInv, NEW v \in Key, Delete(v)
    PROVE  /\ index' \in Seq(Value)
           /\ \A i \in 1 .. Len(index') : index'[i].kind = column
           /\ Sorted'
<1>1. PICK p \in 1 .. Len(index) :
         index' = [i \in 1 .. Len(index) - 1 |-> IF i < p THEN index[i] ELSE index[i + 1]]
  BY IndexValues DEF Delete, Places
<1>2. /\ Len(index) \in Nat
      /\ \A i \in 1 .. Len(index) : index[i] \in Value /\ index[i].kind = column
  BY IndexValues
<1>3. Len(index) - 1 \in Nat /\ index' \in [1 .. Len(index) - 1 -> Value]
  BY <1>1, <1>2
<1>4. index' \in Seq(Value) /\ Len(index') = Len(index) - 1
  BY <1>3, IsSeq
<1> DEFINE From(n) == IF n < p THEN n ELSE n + 1
<1>5. \A n \in 1 .. Len(index') : From(n) \in 1 .. Len(index) /\ index'[n] = index[From(n)]
  BY <1>1, <1>2, <1>4
<1>6. \A i, j \in 1 .. Len(index') : i < j => From(i) < From(j)
  BY <1>2, <1>4
<1> HIDE DEF From
<1>7. \A i, j \in 1 .. Len(index') : i < j => Order(index'[i], index'[j]) < 0
  BY <1>5, <1>6 DEF IInv, Sorted
<1>8. \A i \in 1 .. Len(index') : index'[i].kind = column
  BY <1>2, <1>5
<1> QED
  BY <1>4, <1>7, <1>8 DEF Sorted

LEMMA ReloadIdentity ==
    ASSUME IInv, Reload
    PROVE  index' = index
<1>1. \A i \in 1 .. Len(index) :
         (IF column = "udig" THEN udig_in(udig_out(index[i]))
                             ELSE typed_in(column, typed_out(index[i]))) = index[i]
  BY IndexValues, ReadBack
<1>2. index' = [i \in 1 .. Len(index) |-> index[i]]
  BY <1>1 DEF Reload
<1> QED
  BY <1>2, IndexValues

-------------------------------------------------------------------------------
LEMMA IInvInit == Init => IInv
  BY DEF Init, IInv, TypeOK, Sorted

LEMMA IInvStep == IInv /\ [Next]_vars => IInv'
<1> SUFFICES ASSUME IInv, [Next]_vars
             PROVE  IInv'
  OBVIOUS
<1>1. ASSUME index' \in Seq(Value), \A i \in 1 .. Len(index') : index'[i].kind = column, Sorted',
             column' = column
      PROVE  IInv'
  BY <1>1 DEF IInv, TypeOK
<1>2. ASSUME index' = index, column' = column
      PROVE  IInv'
  BY <1>2 DEF IInv, TypeOK, Sorted
<1>3. ASSUME NEW t \in Text, InsertText(t)
      PROVE  IInv'
  <2> DEFINE v == IF column = "udig" THEN udig_in(t) ELSE typed_in(column, t.hex)
  <2>1. CASE v = Rejected
    BY <1>2, <1>3, <2>1 DEF InsertText
  <2>2. CASE v # Rejected
    <3>1. v \in Value /\ v.kind = column
      <4>1. CASE column = "udig"
        BY <2>2, <4>1, ParsedType DEF Value, Udig, Typed
      <4>2. CASE column # "udig"
        <5>1. column \in Typed
          BY <4>2 DEF IInv, TypeOK
        <5>2. v \in [kind : {column}, digest : Digest]
          BY <2>2, <4>2, <5>1, ParsedType
        <5> QED
          BY <5>1, <5>2 DEF Value, TypedUdig
      <4> QED
        BY <4>1, <4>2
    <3>2. Insert(v) /\ column' = column
      BY <1>3, <2>2 DEF InsertText
    <3> HIDE DEF v
    <3> QED
      BY <1>1, <3>1, <3>2, InsertKeeps
  <2> QED
    BY <2>1, <2>2
<1>4. ASSUME NEW v \in TypedUdig \cap Key, InsertCast(v)
      PROVE  IInv'
  <2>1. Cast(v) \in Udig
    BY OrderMeans DEF Key
  <2>2. Cast(v) \in Value /\ Cast(v).kind = column /\ Insert(Cast(v)) /\ column' = column
    BY <1>4, <2>1 DEF InsertCast, Value, Udig
  <2> QED
    BY <1>1, <2>2, InsertKeeps
<1>5. ASSUME NEW v \in Key, Delete(v)
      PROVE  IInv'
  <2>1. column' = column
    BY <1>5 DEF Delete
  <2> QED
    BY <1>1, <1>5, <2>1, DeleteKeeps
<1>6. CASE Reload
  BY <1>2, <1>6, ReloadIdentity DEF Reload
<1>7. ASSUME NEW t \in Text, CanCast(t)
      PROVE  IInv'
  BY <1>2, <1>7 DEF CanCast
<1>8. ASSUME NEW op \in Op, NEW key \in Key, IndexScan(op, key) \/ TableScan(op, key)
      PROVE  IInv'
  BY <1>2, <1>8 DEF IndexScan, TableScan
<1>9. CASE UNCHANGED vars
  BY <1>2, <1>9 DEF vars
<1> QED
  BY <1>3, <1>4, <1>5, <1>6, <1>7, <1>8, <1>9 DEF Next

\* The index always holds values of its column's type, whatever text came in.
THEOREM TypeCorrect == Spec => []TypeOK
<1>1. IInv => TypeOK
  BY DEF IInv
<1> QED
  BY IInvInit, IInvStep, <1>1, PTL DEF Spec

\* The index is in the documented order and holds no value twice.
THEOREM IndexSorted == Spec => []Sorted
<1>1. IInv => Sorted
  BY DEF IInv
<1> QED
  BY IInvInit, IInvStep, <1>1, PTL DEF Spec

\* A restored dump holds the rows that were dumped.
THEOREM ReloadKeeps == Spec => ReloadKeepsRows
<1>1. IInv /\ [Next]_vars => [Reload => index' = index]_vars
  BY ReloadIdentity
<1> QED
  BY IInvInit, IInvStep, <1>1, PTL DEF Spec, ReloadKeepsRows

-------------------------------------------------------------------------------
(* Queries.                                                                    *)

\* No query compares a udig with a udig_bc160 on its right.
NoDispute == \A k \in Compared : k # <<"udig", "bc160">>

QInv == IInv /\ AnswersExact

\* A boolean operator of the family is its comparison, tested.
LEMMA OpIsHolds ==
    ASSUME NEW op \in Op, NEW a, NEW b
    PROVE  OpProc(op, a, b) <=> Holds(op, CmpProc(a, b))
  BY DEF OpProc, CmpProc, udig_sha_op, udig_sha_op_udig, udig_op, udig_op_sha, udig_bc160_op,
     udig_bc160_op_udig, udig_op_bc160, udig_btc20_op, udig_btc20_op_udig, udig_op_btc20

\* The family compares a column with a key of its own type, or one is a udig.
\* TRUE of every pair the queries name.
InFamily == \A k \in Compared : k[1] = k[2] \/ k[1] = "udig" \/ k[2] = "udig"

LEMMA QueryOrder ==
    ASSUME IInv, NoDispute, InFamily, NEW key \in Value, <<column, key.kind>> \in Compared,
           NEW i \in 1 .. Len(index)
    PROVE  CmpProc(index[i], key) = Order(index[i], key)
<1>1. index[i] \in Value /\ index[i].kind = column
  BY IndexValues
<1>2. Comparable(index[i], key)
  BY <1>1 DEF Comparable, NoDispute, InFamily
<1> QED
  BY <1>1, <1>2, CmpIsOrder

LEMMA IndexScanExact ==
    ASSUME IInv, NoDispute, InFamily, NEW op \in Op, NEW key \in Key, IndexScan(op, key)
    PROVE  AnswersExact'
<1> DEFINE Rows(p) == {i \in p .. Len(index) :
                         /\ OpProc(op, index[i], key)
                         /\ op \in {"lt", "le", "eq"} => \A j \in p .. i : OpProc(op, index[j], key)}
<1> DEFINE Exact == {i \in 1 .. Len(index) : Holds(op, Order(index[i], key))}
<1>1. PICK p \in IF op \in {"lt", "le"} THEN {1}
                 ELSE IF op = "gt" THEN Places(UpTo(key)) ELSE Places(Below(key)) :
         answer' = [plan |-> "index", op |-> op, key |-> key, rows |-> Rows(p)]
  BY DEF IndexScan
<1>2. <<column, key.kind>> \in Compared /\ index' = index /\ key \in Value
  BY DEF IndexScan, Key
<1>3. /\ Len(index) \in Nat
      /\ \A i \in 1 .. Len(index) : index[i] \in Value
      /\ \A i \in 1 .. Len(index) : CmpProc(index[i], key) = Order(index[i], key)
      /\ \A i \in 1 .. Len(index) : OpProc(op, index[i], key) <=> Holds(op, Order(index[i], key))
      /\ \A i \in 1 .. Len(index) : Order(index[i], key) \in {-1, 0, 1}
  BY <1>2, IndexValues, QueryOrder, OpIsHolds, OrderMeans
<1>4. \A i, j \in 1 .. Len(index) : i < j =>
         /\ Order(index[j], key) < 0 => Order(index[i], key) < 0
         /\ Order(index[j], key) = 0 => Order(index[i], key) < 0
  BY <1>2, <1>3, OrderTransitive DEF IInv, Sorted
<1>5. p \in 1 .. Len(index) + 1
  BY <1>1, <1>3 DEF Places
<1>6. CASE op \in {"lt", "le"}
  <2>1. p = 1
    BY <1>1, <1>6
  <2>2. \A i, j \in 1 .. Len(index) : j <= i /\ Holds(op, Order(index[i], key))
                                       => Holds(op, Order(index[j], key))
    BY <1>3, <1>4, <1>6 DEF Holds
  <2>3. Rows(p) = Exact
    BY <1>3, <2>1, <2>2
  <2> QED
    BY <1>1, <1>2, <2>3 DEF AnswersExact
<1>7. CASE op \in {"eq", "ge"}
  <2>1. p \in Places(Below(key))
    BY <1>1, <1>7
  <2>2. ASSUME NEW i \in 1 .. Len(index), i < p
        PROVE  Order(index[i], key) < 0
    <3>1. p - 1 \in 1 .. Len(index) /\ Order(index[p - 1], key) < 0
      BY <1>3, <1>5, <2>1, <2>2 DEF Places, Below
    <3> QED
      BY <1>4, <2>2, <3>1, <1>5, <1>3
  <2>3. ASSUME NEW i \in 1 .. Len(index), i >= p
        PROVE  Order(index[i], key) >= 0
    <3>1. p \in 1 .. Len(index) /\ ~ (Order(index[p], key) < 0)
      BY <1>3, <1>5, <2>1, <2>3 DEF Places, Below
    <3> QED
      BY <1>3, <1>4, <2>3, <3>1
  <2>4. \A i \in Exact : i \in p .. Len(index) /\ OpProc(op, index[i], key)
    <3> SUFFICES ASSUME NEW i \in Exact
                 PROVE  i \in p .. Len(index) /\ OpProc(op, index[i], key)
      OBVIOUS
    <3>1. i \in 1 .. Len(index) /\ Holds(op, Order(index[i], key))
      OBVIOUS
    <3>2. ~ (Order(index[i], key) < 0)
      BY <1>3, <1>7, <3>1 DEF Holds
    <3> QED
      BY <1>3, <1>5, <2>2, <3>1, <3>2
  <2>5. \A i \in Exact, j \in p .. Len(index) : op = "eq" /\ j <= i => OpProc(op, index[j], key)
    <3> SUFFICES ASSUME NEW i \in Exact, NEW j \in p .. Len(index), op = "eq", j <= i
                 PROVE  OpProc(op, index[j], key)
      OBVIOUS
    <3>1. i \in 1 .. Len(index) /\ j \in 1 .. Len(index) /\ Order(index[i], key) = 0
      BY <1>3, <1>5 DEF Holds
    <3>2. Order(index[j], key) >= 0
      BY <2>3, <3>1
    <3>3. i = j
      BY <1>3, <1>4, <3>1, <3>2
    <3> QED
      BY <1>3, <3>1, <3>3
  <2>6. Rows(p) = Exact
    <3>1. Rows(p) \subseteq Exact
      BY <1>3, <1>5
    <3>2. Exact \subseteq Rows(p)
      BY <1>3, <1>5, <1>7, <2>4, <2>5
    <3> QED
      BY <3>1, <3>2
  <2> QED
    BY <1>1, <1>2, <2>6 DEF AnswersExact
<1>8. CASE op = "gt"
  <2>1. p \in Places(UpTo(key))
    BY <1>1, <1>8
  <2>2. ASSUME NEW i \in 1 .. Len(index), i < p
        PROVE  Order(index[i], key) <= 0
    <3>1. p - 1 \in 1 .. Len(index) /\ Order(index[p - 1], key) <= 0
      BY <1>3, <1>5, <2>1, <2>2 DEF Places, UpTo
    <3> QED
      BY <1>3, <1>4, <1>5, <2>2, <3>1
  <2>3. \A i \in Exact : i \in p .. Len(index)
    <3> SUFFICES ASSUME NEW i \in Exact
                 PROVE  i \in p .. Len(index)
      OBVIOUS
    <3>1. i \in 1 .. Len(index) /\ Order(index[i], key) > 0
      BY <1>3, <1>8 DEF Holds
    <3> QED
      BY <1>3, <1>5, <2>2, <3>1
  <2>4. Rows(p) = Exact
    BY <1>3, <1>5, <1>8, <2>3
  <2> QED
    BY <1>1, <1>2, <2>4 DEF AnswersExact
<1> QED
  BY <1>6, <1>7, <1>8 DEF Op

LEMMA TableScanExact ==
    ASSUME IInv, NoDispute, InFamily, NEW op \in Op, NEW key \in Key, TableScan(op, key)
    PROVE  AnswersExact'
<1>1. /\ answer' = [plan |-> "table", op |-> op, key |-> key, rows |->
                       {i \in 1 .. Len(index) : OpProc(Commutator[op], key, index[i])}]
      /\ index' = index /\ key \in Value /\ <<key.kind, column>> \in Compared
  BY DEF TableScan, Key
<1>2. Commutator[op] \in Op
  BY DEF Commutator, Op
<1>3. ASSUME NEW i \in 1 .. Len(index)
      PROVE  OpProc(Commutator[op], key, index[i]) <=> Holds(op, Order(index[i], key))
  <2>1. index[i] \in Value /\ index[i].kind = column
    BY IndexValues
  <2>2. Comparable(key, index[i])
    BY <1>1, <2>1 DEF Comparable, NoDispute, InFamily
  <2>3. OpProc(Commutator[op], key, index[i]) <=> Holds(Commutator[op], Order(key, index[i]))
    BY <1>1, <1>2, <2>1, <2>2, OpIsHolds, CmpIsOrder
  <2>4. Order(index[i], key) = -Order(key, index[i]) /\ Order(key, index[i]) \in {-1, 0, 1}
    BY <1>1, <2>1, OrderTransitive, OrderMeans
  <2>5. Holds(Commutator[op], Order(key, index[i])) <=> Holds(op, Order(index[i], key))
    BY <2>4 DEF Holds, Commutator, Op
  <2> QED
    BY <2>3, <2>5
<1> QED
  BY <1>1, <1>3 DEF AnswersExact

LEMMA QInvStep ==
    ASSUME NoDispute, InFamily
    PROVE  QInv /\ [Next]_vars => QInv'
<1> SUFFICES ASSUME QInv, [Next]_vars
             PROVE  AnswersExact'
  BY IInvStep DEF QInv
<1>1. ASSUME answer' = NoAnswer
      PROVE  AnswersExact'
  BY <1>1 DEF AnswersExact, NoAnswer
<1>2. ASSUME NEW t \in Text, InsertText(t) \/ CanCast(t)
      PROVE  AnswersExact'
  BY <1>1, <1>2 DEF InsertText, CanCast, AnswersExact
<1>3. ASSUME NEW v \in TypedUdig \cap Key, InsertCast(v)
      PROVE  AnswersExact'
  BY <1>1, <1>3 DEF InsertCast
<1>4. ASSUME NEW v \in Key, Delete(v)
      PROVE  AnswersExact'
  BY <1>1, <1>4 DEF Delete
<1>5. CASE Reload
  BY <1>1, <1>5 DEF Reload
<1>6. ASSUME NEW op \in Op, NEW key \in Key, IndexScan(op, key) \/ TableScan(op, key)
      PROVE  AnswersExact'
  BY <1>6, IndexScanExact, TableScanExact DEF QInv
<1>7. CASE UNCHANGED vars
  BY <1>7 DEF QInv, AnswersExact, vars
<1> QED
  BY <1>2, <1>3, <1>4, <1>5, <1>6, <1>7 DEF Next

\* Every query that does not put a udig on the left of a udig_bc160 is answered
\* with the rows the documented order selects, from the index and from the table.
THEOREM QueriesExact ==
    ASSUME NoDispute, InFamily
    PROVE  Spec => []AnswersExact
<1>1. Init => QInv
  BY IInvInit DEF Init, QInv, AnswersExact, NoAnswer
<1>2. QInv => AnswersExact
  BY DEF QInv
<1> QED
  BY <1>1, <1>2, QInvStep, PTL DEF Spec

-------------------------------------------------------------------------------
(* Where the code leaves the documented order and the documented texts.        *)

\* A udig that is no bc160 is put before a udig_bc160 by _udig_cmp_bc160(), which
\* QueriesExact leaves out, and after it by the commuted _udig_bc160_cmp_udig()
\* and by the documented order.
THEOREM Bc160Disagrees ==
    ASSUME NEW u \in Udig, u.type # UDIG_BC160,
           NEW b \in TypedUdig, b.kind = "bc160"
    PROVE  /\ udig_cmp_bc160(u, b) = -1
           /\ udig_bc160_cmp_udig(b, u) = -1
           /\ Order(u, b) = 1
<1>1. udig_cmp_bc160(u, b) = -1 /\ udig_bc160_cmp_udig(b, u) = -1
  BY DEF udig_cmp_bc160, udig_bc160_cmp_udig
<1>2. Cast(u) = u /\ Cast(b).type = UDIG_BC160
  BY DEF Cast, udig_bc160_cast, Udig
<1>3. u.type \in {UDIG_SHA, UDIG_BTC20}
  BY DEF Udig
<1>4. Order(u, b) = 1
  BY <1>2, <1>3 DEF Order, Height, memcmp, UDIG_SHA, UDIG_BTC20, UDIG_BC160
<1> QED
  BY <1>1, <1>4

\* udig_can_cast() says true of a text whose algorithm nobody knows, which
\* udig_in() then rejects.
THEOREM CanCastTakesMore ==
    ASSUME NEW t \in Text, t.name = "other", hex2dig20(t.hex) # NoDigest
    PROVE  udig_can_cast(t) = "true" /\ udig_in(t) = Rejected
BY DEF udig_can_cast, udig_in

===============================================================================
