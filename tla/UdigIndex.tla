------------------------------- MODULE UdigIndex -------------------------------
(* The PostgreSQL types udig, udig_sha, udig_bc160 and udig_btc20 of           *)
(* sync/pgsql/contrib/udig: the text forms, the casts and the comparisons of   *)
(* the btree operator family "udig_clan", under a unique btree index on one    *)
(* column of any of the four types.  The index is PostgreSQL's own: it keeps   *)
(* the column's values in a sequence and reaches a place in it by comparing a  *)
(* key with the values, through the comparison the family lists for the types  *)
(* of column and key.  One byte stands for the twenty of a digest, so its hex  *)
(* text has two digits and not forty.                                          *)
EXTENDS Integers, Sequences

CONSTANTS
    HexText,    \* the hex texts clients send, sequences of HexChar
    Compared,   \* the pairs <<left type, right type>> that queries compare
    MaxRows     \* bound: rows of the table

HexChar == 0 .. 16          \* 16 is any character but 0-9 and a-f

ASSUME HexTextAssumption == HexText \subseteq Seq(HexChar)
ASSUME MaxRowsAssumption == MaxRows \in Nat

UDIG_SHA == 1
UDIG_BC160 == 2
UDIG_BTC20 == 3

Digest == 0 .. 255
NoDigest == 256             \* hex2dig20() returns -1

Typed == {"sha", "bc160", "btc20"}      \* udig_sha, udig_bc160, udig_btc20

Udig == [kind : {"udig"}, type : {UDIG_SHA, UDIG_BC160, UDIG_BTC20}, digest : Digest]
TypedUdig == [kind : Typed, digest : Digest]
Value == Udig \cup TypedUdig

-------------------------------------------------------------------------------
(* Text.  An algorithm that udig_in() cannot cut from the text, because there  *)
(* is no colon in the first eight characters or one of them is not printable,  *)
(* is "uncut"; "other" is cut well and names no algorithm.                     *)

Name == Typed \cup {"other", "uncut"}
Text == [name : Name, hex : HexText]

Rejected == [kind |-> "rejected"]

hex2dig20(h) ==
    IF Len(h) = 2 /\ \A i \in 1 .. 2 : h[i] < 16 THEN 16 * h[1] + h[2] ELSE NoDigest

dig2hex40(d) == <<d \div 16, d % 16>>

\* A digest that has been parsed, under the type byte of a udig.
Tagged(type, d) ==
    IF d = NoDigest THEN Rejected ELSE [kind |-> "udig", type |-> type, digest |-> d]

udig_in(t) ==
    IF t.name = "btc20" THEN Tagged(UDIG_BTC20, hex2dig20(t.hex))
    ELSE IF t.name = "sha" THEN Tagged(UDIG_SHA, hex2dig20(t.hex))
    ELSE IF t.name = "bc160" THEN Tagged(UDIG_BC160, hex2dig20(t.hex))
    ELSE Rejected

\* Mutant: the names of two types are swapped.
udig_out_swapped(u) ==
    [name |-> IF u.type = UDIG_SHA THEN "sha"
              ELSE IF u.type = UDIG_BC160 THEN "btc20" ELSE "bc160",
     hex  |-> dig2hex40(u.digest)]

udig_out(u) ==
    [name |-> IF u.type = UDIG_SHA THEN "sha"
              ELSE IF u.type = UDIG_BC160 THEN "bc160" ELSE "btc20",
     hex  |-> dig2hex40(u.digest)]

\* udig_sha_in(), udig_bc160_in(), udig_btc20_in(): the hex text and no tag.
typed_in(kind, h) ==
    IF hex2dig20(h) = NoDigest THEN Rejected ELSE [kind |-> kind, digest |-> hex2dig20(h)]

typed_out(v) == dig2hex40(v.digest)

\* strcmp("btc20", a8) without "== 0": true of every name but btc20.
udig_can_cast(t) ==
    IF t.name = "uncut" THEN "error"
    ELSE IF (t.name # "btc20" \/ t.name = "sha" \/ t.name = "bc160")
            /\ hex2dig20(t.hex) # NoDigest
         THEN "true" ELSE "false"

udig_sha_cast(v) == [kind |-> "udig", type |-> UDIG_SHA, digest |-> v.digest]
udig_bc160_cast(v) == [kind |-> "udig", type |-> UDIG_BC160, digest |-> v.digest]
udig_btc20_cast(v) == [kind |-> "udig", type |-> UDIG_BTC20, digest |-> v.digest]

\* Mutant: the value as it is, without the byte of its type.
Cast_untagged(v) == v

\* The implicit cast to udig.
Cast(v) == IF v.kind = "sha" THEN udig_sha_cast(v)
           ELSE IF v.kind = "bc160" THEN udig_bc160_cast(v)
           ELSE IF v.kind = "btc20" THEN udig_btc20_cast(v) ELSE v

-------------------------------------------------------------------------------
(* The comparisons of the family udig_clan.                                    *)

memcmp(a, b) == IF a < b THEN -1 ELSE IF a = b THEN 0 ELSE 1

udig_sha_cmp(a, b) == memcmp(a.digest, b.digest)
udig_bc160_cmp(a, b) == memcmp(a.digest, b.digest)
udig_btc20_cmp(a, b) == memcmp(a.digest, b.digest)

\* Mutant: a btc20 comes before a bc160.
udig_cmp_swapped(a, b) ==
    IF a.type = b.type THEN memcmp(a.digest, b.digest)
    ELSE IF a.type = UDIG_SHA \/ (a.type = UDIG_BC160 /\ b.type = UDIG_BTC20)
         THEN 1 ELSE -1

udig_cmp(a, b) ==
    IF a.type = b.type THEN memcmp(a.digest, b.digest)
    ELSE IF a.type = UDIG_SHA \/ (a.type = UDIG_BTC20 /\ b.type = UDIG_BC160)
         THEN 1 ELSE -1

udig_sha_cmp_udig(a, b) ==
    IF b.type = UDIG_SHA THEN memcmp(a.digest, b.digest) ELSE 1

udig_cmp_sha(a, b) ==
    IF a.type = UDIG_SHA THEN memcmp(a.digest, b.digest) ELSE -1

udig_bc160_cmp_udig(a, b) ==
    IF b.type = UDIG_BC160 THEN memcmp(a.digest, b.digest) ELSE -1

\* A sha and a btc20 come before a bc160 here, after it everywhere else.
udig_cmp_bc160(a, b) ==
    IF a.type = UDIG_BC160 THEN memcmp(a.digest, b.digest) ELSE -1

udig_btc20_cmp_udig(a, b) ==
    IF b.type = UDIG_BTC20 THEN memcmp(a.digest, b.digest)
    ELSE IF b.type = UDIG_SHA THEN -1 ELSE 1

\* Mutant: a sha comes before a btc20.
udig_cmp_btc20_sha(a, b) ==
    IF a.type = UDIG_BTC20 THEN memcmp(a.digest, b.digest) ELSE -1

udig_cmp_btc20(a, b) ==
    IF a.type = UDIG_BTC20 THEN memcmp(a.digest, b.digest)
    ELSE IF a.type = UDIG_SHA THEN 1 ELSE -1

Op == {"lt", "le", "eq", "ge", "gt"}

\* What the boolean operator returns when the comparison returns c.
Holds(op, c) == \/ op \in {"lt", "le"} /\ c < 0
                \/ op \in {"le", "eq", "ge"} /\ c = 0
                \/ op \in {"ge", "gt"} /\ c > 0

\* The boolean operators <, <=, =, >=, > of each pair of types.
udig_sha_op(op, a, b)        == Holds(op, udig_sha_cmp(a, b))
udig_sha_op_udig(op, a, b)   == Holds(op, udig_sha_cmp_udig(a, b))
udig_op(op, a, b)            == Holds(op, udig_cmp(a, b))
udig_op_sha(op, a, b)        == Holds(op, udig_cmp_sha(a, b))
udig_bc160_op(op, a, b)      == Holds(op, udig_bc160_cmp(a, b))
udig_bc160_op_udig(op, a, b) == Holds(op, udig_bc160_cmp_udig(a, b))
udig_op_bc160(op, a, b)      == Holds(op, udig_cmp_bc160(a, b))
udig_btc20_op(op, a, b)      == Holds(op, udig_btc20_cmp(a, b))
udig_btc20_op_udig(op, a, b) == Holds(op, udig_btc20_cmp_udig(a, b))
udig_op_btc20(op, a, b)      == Holds(op, udig_cmp_btc20(a, b))

\* FUNCTION 1 of the family, for the types of its operands.
CmpProc(a, b) ==
    IF a.kind = "udig" THEN
        IF b.kind = "udig" THEN udig_cmp(a, b)
        ELSE IF b.kind = "sha" THEN udig_cmp_sha(a, b)
        ELSE IF b.kind = "bc160" THEN udig_cmp_bc160(a, b) ELSE udig_cmp_btc20(a, b)
    ELSE IF a.kind = "sha" THEN
        IF b.kind = "sha" THEN udig_sha_cmp(a, b) ELSE udig_sha_cmp_udig(a, b)
    ELSE IF a.kind = "bc160" THEN
        IF b.kind = "bc160" THEN udig_bc160_cmp(a, b) ELSE udig_bc160_cmp_udig(a, b)
    ELSE IF b.kind = "btc20" THEN udig_btc20_cmp(a, b) ELSE udig_btc20_cmp_udig(a, b)

\* OPERATOR 1 to 5 of the family, for the types of its operands.
OpProc(op, a, b) ==
    IF a.kind = "udig" THEN
        IF b.kind = "udig" THEN udig_op(op, a, b)
        ELSE IF b.kind = "sha" THEN udig_op_sha(op, a, b)
        ELSE IF b.kind = "bc160" THEN udig_op_bc160(op, a, b) ELSE udig_op_btc20(op, a, b)
    ELSE IF a.kind = "sha" THEN
        IF b.kind = "sha" THEN udig_sha_op(op, a, b) ELSE udig_sha_op_udig(op, a, b)
    ELSE IF a.kind = "bc160" THEN
        IF b.kind = "bc160" THEN udig_bc160_op(op, a, b) ELSE udig_bc160_op_udig(op, a, b)
    ELSE IF b.kind = "btc20" THEN udig_btc20_op(op, a, b) ELSE udig_btc20_op_udig(op, a, b)

-------------------------------------------------------------------------------
VARIABLES
    column,     \* the type of the indexed column
    index,      \* its values, in the order of the index
    answer      \* the last query, and what it was answered

vars == <<column, index, answer>>

NoAnswer == [plan |-> "none"]

Init ==
    /\ column \in Typed \cup {"udig"}
    /\ index = <<>>
    /\ answer = NoAnswer

\* Where a descent of the btree can end: the value before the place passes the
\* test and the one at the place does not.  There is one place when the test is
\* monotone along the index; the shape of the tree chooses when there are more.
Places(passing) ==
    {p \in 1 .. Len(index) + 1 : p \notin passing /\ (p > 1 => p - 1 \in passing)}

Below(v)  == {i \in 1 .. Len(index) : CmpProc(index[i], v) < 0}
UpTo(v)   == {i \in 1 .. Len(index) : CmpProc(index[i], v) <= 0}

\* The unique index refuses a value equal to the one at its place.
Insert(v) ==
    \E p \in Places(Below(v)) :
        IF p <= Len(index) /\ CmpProc(index[p], v) = 0
        THEN index' = index
        ELSE index' = [i \in 1 .. Len(index) + 1 |->
                          IF i < p THEN index[i] ELSE IF i = p THEN v ELSE index[i - 1]]

\* INSERT of a text: the input function of the column's type parses it.
InsertText(t) ==
    LET v == IF column = "udig" THEN udig_in(t) ELSE typed_in(column, t.hex)
    IN  /\ Len(index) < MaxRows
        /\ IF v = Rejected THEN index' = index ELSE Insert(v)
        /\ answer' = NoAnswer
        /\ UNCHANGED column

\* INSERT of a value of another type of the family: cast to udig first.
InsertCast(v) ==
    /\ column = "udig"
    /\ Len(index) < MaxRows
    /\ Insert(Cast(v))
    /\ answer' = NoAnswer
    /\ UNCHANGED column

\* DELETE finds its row through the index.
Delete(v) ==
    /\ v.kind = column
    /\ \E p \in Places(Below(v)) :
          /\ p <= Len(index) /\ OpProc("eq", index[p], v)
          /\ index' = [i \in 1 .. Len(index) - 1 |-> IF i < p THEN index[i] ELSE index[i + 1]]
    /\ answer' = NoAnswer
    /\ UNCHANGED column

\* WHERE column op key, by an index scan.  The descent finds where to start, and
\* "=", "<" and "<=" end the scan at the first value that fails them.
IndexScan(op, key) ==
    /\ <<column, key.kind>> \in Compared
    /\ \E p \in IF op \in {"lt", "le"} THEN {1}
               ELSE IF op = "gt" THEN Places(UpTo(key)) ELSE Places(Below(key)) :
          answer' = [plan |-> "index", op |-> op, key |-> key, rows |->
                       {i \in p .. Len(index) :
                           /\ OpProc(op, index[i], key)
                           /\ op \in {"lt", "le", "eq"} =>
                                 \A j \in p .. i : OpProc(op, index[j], key)}]
    /\ UNCHANGED <<column, index>>

\* The commutator of an operator, as CREATE OPERATOR declares it.
Commutator == [lt |-> "gt", le |-> "ge", eq |-> "eq", ge |-> "le", gt |-> "lt"]

\* The same query written as key op column, by reading the whole table.
TableScan(op, key) ==
    /\ <<key.kind, column>> \in Compared
    /\ answer' = [plan |-> "table", op |-> op, key |-> key, rows |->
                    {i \in 1 .. Len(index) : OpProc(Commutator[op], key, index[i])}]
    /\ UNCHANGED <<column, index>>

\* A dump writes each row as text, and the restored server parses it back.
Reload ==
    /\ index' = [i \in 1 .. Len(index) |->
                    IF column = "udig" THEN udig_in(udig_out(index[i]))
                    ELSE typed_in(column, typed_out(index[i]))]
    /\ answer' = NoAnswer
    /\ UNCHANGED column

\* SELECT udig_can_cast(text).
CanCast(t) ==
    /\ answer' = [plan |-> "can_cast", text |-> t, can |-> udig_can_cast(t)]
    /\ UNCHANGED <<column, index>>

\* The digests that the texts of the clients spell.
Sent == {hex2dig20(h) : h \in HexText} \ {NoDigest}

Key == {v \in Value : v.digest \in Sent}

Next ==
    \/ \E t \in Text : InsertText(t) \/ CanCast(t)
    \/ \E v \in TypedUdig \cap Key : InsertCast(v)
    \/ \E v \in Key : Delete(v)
    \/ \E op \in Op, key \in Key : IndexScan(op, key) \/ TableScan(op, key)
    \/ Reload

Spec == Init /\ [][Next]_vars

-------------------------------------------------------------------------------
(* Properties.                                                                 *)

\* The order that udig.c documents: "sha" > "btc20" > "bc160", then the digest.
Height(type) == IF type = UDIG_SHA THEN 3 ELSE IF type = UDIG_BTC20 THEN 2 ELSE 1

Order(a, b) ==
    LET x == Cast(a)  y == Cast(b)
    IN  IF x.type = y.type THEN memcmp(x.digest, y.digest)
        ELSE memcmp(Height(x.type), Height(y.type))

\* The index holds values of its column's type, and the answer names its rows.
TypeOK ==
    /\ column \in Typed \cup {"udig"}
    /\ index \in Seq(Value)
    /\ \A i \in 1 .. Len(index) : index[i].kind = column

\* However the rows came, by text or by a cast, and whatever was deleted between,
\* the index is in the documented order and holds no value twice.
Sorted == \A i, j \in 1 .. Len(index) : i < j => Order(index[i], index[j]) < 0

\* A query over a column and a key of any two types of the family is answered
\* with the rows that satisfy it in the documented order and with no other,
\* whether it reads the index or the table.
AnswersExact ==
    answer.plan \in {"index", "table"} =>
        answer.rows = {i \in 1 .. Len(index) : Holds(answer.op, Order(index[i], answer.key))}

\* A dump that is restored holds the rows that were dumped.
ReloadKeepsRows == [][Reload => index' = index]_vars

\* udig_can_cast() answers true of the texts that are udigs, of all and no other:
\* "the text string matches the regex ^(btc20|sha|bc160):[a-f0-9]{40}$".
CanCastIsRight ==
    answer.plan = "can_cast" => (answer.can = "true" <=> udig_in(answer.text) # Rejected)

===============================================================================
