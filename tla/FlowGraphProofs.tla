---------------------------- MODULE FlowGraphProofs ----------------------------
(* Theorems about FlowGraph, for any configurations of well-formed trees and    *)
(* any number of flows, however the goroutines interleave: the network of a     *)
(* worker stays in step (first part), and what it resolves is what the rules    *)
(* say (second part).                                                           *)
EXTENDS FlowGraph, RummyProofs, FiniteSetTheorems, SequenceTheorems,
        WellFoundedInduction, TLAPS

-----------------------------------------------------------------------------
(* The inductive invariant, for the configuration c.                         *)

Gor(c) == GettersOf(c) \cup PassersOf(c)

\* g has sent its value of the current flow.
Sent(g) == at[g] = seq /\ pc[g] = "get"

\* Whose values of the current flow g has read.
Taken(c, g) ==
  IF at[g] # seq THEN {} ELSE IF pc[g] = "read" THEN DOMAIN got[g] ELSE FromOf(c, g)

Shape(c) ==
  /\ conf = c /\ seq \in Nat
  /\ at \in [Gor(c) -> Nat]
  /\ pc \in [Gor(c) -> {"get", "read", "fire", "send"}]
  /\ got = [g \in Gor(c) |-> got[g]]
  /\ val = [g \in Gor(c) |-> val[g]]
  /\ put = [g \in Gor(c) |-> put[g]]

\* The ones that read from more than one goroutine.
Collectors == {"AND", "OR", "ARGV", "CALL", "reduce"}

\* A goroutine that follows the flows is in this one or done with the last one.
Follows(c) ==
  \A g \in GettersOf(c) :
    /\ at[g] = seq \/ (at[g] = seq - 1 /\ pc[g] = "get")
    /\ TokOf(c, g) = "fanout" => pc[g] \in {"get", "read"}
    /\ pc[g] \in {"get", "send"} \/ TokOf(c, g) \notin Collectors => got[g] = <<>>
    /\ DOMAIN got[g] \subseteq FromOf(c, g)

Passes(c) == \A p \in PassersOf(c) : pc[p] \in {"read", "send"} /\ got[p] = <<>>

\* What is on its way is of this flow, and a fanout leaves each reader one value.
Fresh(c) ==
  \A g \in Gor(c) :
    /\ pc[g] = "send" => val[g].flow = seq
    /\ \A m \in put[g] : m.flow = seq /\ put[g] = {m}
    /\ put[g] # {} => \E f \in FromOf(c, g) : TokOf(c, f) = "fanout"

\* What was sent was read, ...
Direct(c) ==
  \A s, g \in GettersOf(c) : s \in FromOf(c, g) /\ TokOf(c, s) # "fanout" =>
    (Sent(s) <=> s \in Taken(c, g))

\* ... or a goroutine between the two has it, ...
Passed(c) ==
  \A p \in PassersOf(c), g \in GettersOf(c) : p \in FromOf(c, g) =>
    /\ \A s \in FromOf(c, p) : Sent(s) <=> pc[p] = "send" \/ p \in Taken(c, g)
    /\ ~(pc[p] = "send" /\ p \in Taken(c, g))

\* ... or one that a fanout started.
Fanned(c) ==
  \A f, g \in GettersOf(c) : f \in FromOf(c, g) /\ TokOf(c, f) = "fanout" =>
    /\ Sent(f) <=> put[g] # {} \/ f \in Taken(c, g)
    /\ ~(put[g] # {} /\ f \in Taken(c, g))

\* The counts are those of the goroutines that have not asked for this flow, and
\* that have.
Behind(c) == {g \in GettersOf(c) : at[g] # seq}

Counted(c) ==
  /\ countA \in Nat /\ countB \in Nat
  /\ countA = Cardinality(Behind(c))
  /\ countA + countB = Cardinality(GettersOf(c))

Quiet(c) ==
  /\ \A g \in GettersOf(c) : at[g] = seq /\ pc[g] = "get"
  /\ \A p \in PassersOf(c) : pc[p] = "read"
  /\ \A g \in Gor(c) : put[g] = {} /\ got[g] = <<>>

FInv(c) ==
  /\ Shape(c) /\ Follows(c) /\ Passes(c) /\ Fresh(c)
  /\ Direct(c) /\ Passed(c) /\ Fanned(c) /\ Counted(c)
  /\ wrk # "push" => Quiet(c)
  /\ ~panic

-----------------------------------------------------------------------------
(* The network of a configuration.                                           *)

Lower == {"fanout", "log", "merge", "io", "reduce", "log_fdr"}

LEMMA Configuration ==
  ASSUME NEW c \in Configs
  PROVE  /\ \A a \in DOMAIN c.tok :
              /\ c.tok[a] \in Toks /\ c.tok[a] \notin Lower
              /\ c.kid[a] \in Seq(DOMAIN c.tok)
              /\ \A k : Under(c, k, a) => k \in DOMAIN c.tok
         /\ WellFormed(c) /\ IsFiniteSet(DOMAIN c.tok)
<1>1. /\ WellFormed(c) /\ IsFiniteSet(DOMAIN c.tok)
      /\ c.tok \in [DOMAIN c.tok -> Toks]
      /\ c.kid \in [DOMAIN c.tok -> Seq(DOMAIN c.tok)]
  BY FlowAssumption
<1>2. ASSUME NEW a \in DOMAIN c.tok
      PROVE  /\ c.tok[a] \in Toks /\ c.tok[a] \notin Lower
             /\ c.kid[a] \in Seq(DOMAIN c.tok)
  BY <1>1 DEF Toks, Lower
<1>3. ASSUME NEW a \in DOMAIN c.tok, NEW k, Under(c, k, a)
      PROVE  k \in DOMAIN c.tok
  <2>1. c.kid[a] \in Seq(DOMAIN c.tok)
    BY <1>2
  <2>2. PICK i \in DOMAIN c.kid[a] : c.kid[a][i] = k
    BY <1>3 DEF Under
  <2> QED BY <2>1, <2>2, ElementOfSeq
<1> QED BY <1>1, <1>2, <1>3

\* The names of goroutines, and what they do.
LEMMA NamesOfGetters ==
  ASSUME NEW c \in Configs, NEW g \in GettersOf(c)
  PROVE  \/ \E a \in DOMAIN c.tok : g = Op(a) /\ c.tok[a] # "WHEN" /\ TokOf(c, g) = c.tok[a]
         \/ \E a \in Nodes(c, "CALL") : g = Fanout(a) /\ TokOf(c, g) = "fanout"
         \/ \E a \in Nodes(c, "CALL") : g = <<"log", a>> /\ TokOf(c, g) = "log"
         \/ g = Reduce /\ TokOf(c, g) = "reduce"
         \/ g = LogFdr /\ TokOf(c, g) = "log_fdr"
BY DEF GettersOf, Op, Fanout, Reduce, LogFdr, TokOf, Nodes

LEMMA NamesOfPassers ==
  ASSUME NEW c \in Configs, NEW p \in PassersOf(c)
  PROVE  \/ \E a \in Nodes(c, "CALL") : p = <<"merge", a>> /\ TokOf(c, p) = "merge"
         \/ \E k, b \in DOMAIN c.tok : /\ p = <<"io", k>> /\ TokOf(c, p) = "io"
                                       /\ c.tok[b] = "ARGV" /\ Under(c, k, b)
<1>1. CASE p \in {"merge"} \X Nodes(c, "CALL")
  BY <1>1 DEF TokOf
<1>2. CASE p \in {"io"} \X UNION {Range(c.kid[a]) : a \in Nodes(c, "ARGV")}
  <2>1. PICK b \in Nodes(c, "ARGV") : \E k \in Range(c.kid[b]) : p = <<"io", k>>
    BY <1>2
  <2>2. PICK k \in Range(c.kid[b]) : p = <<"io", k>>
    BY <2>1
  <2>3. b \in DOMAIN c.tok /\ c.tok[b] = "ARGV" /\ Under(c, k, b)
    BY <2>1 DEF Nodes, Range, Under
  <2>4. k \in DOMAIN c.tok
    BY <2>3, Configuration
  <2> QED BY <2>2, <2>3, <2>4 DEF TokOf
<1> QED BY <1>1, <1>2 DEF PassersOf

LEMMA Names ==
  ASSUME NEW c \in Configs
  PROVE  /\ \A a \in DOMAIN c.tok : c.tok[a] # "WHEN" =>
              Op(a) \in GettersOf(c) /\ TokOf(c, Op(a)) = c.tok[a]
         /\ \A a \in Nodes(c, "CALL") :
              /\ Fanout(a) \in GettersOf(c) /\ TokOf(c, Fanout(a)) = "fanout"
              /\ <<"log", a>> \in GettersOf(c) /\ TokOf(c, <<"log", a>>) = "log"
              /\ <<"merge", a>> \in PassersOf(c) /\ TokOf(c, <<"merge", a>>) = "merge"
         /\ Reduce \in GettersOf(c) /\ TokOf(c, Reduce) = "reduce"
         /\ LogFdr \in GettersOf(c) /\ TokOf(c, LogFdr) = "log_fdr"
         /\ \A k : \A b \in DOMAIN c.tok : c.tok[b] = "ARGV" /\ Under(c, k, b) =>
              <<"io", k>> \in PassersOf(c) /\ TokOf(c, <<"io", k>>) = "io"
<1>1. \A a \in DOMAIN c.tok : c.tok[a] # "WHEN" =>
        Op(a) \in GettersOf(c) /\ TokOf(c, Op(a)) = c.tok[a]
  BY DEF GettersOf, Op, TokOf, Nodes
<1>2. \A a \in Nodes(c, "CALL") :
              /\ Fanout(a) \in GettersOf(c) /\ TokOf(c, Fanout(a)) = "fanout"
              /\ <<"log", a>> \in GettersOf(c) /\ TokOf(c, <<"log", a>>) = "log"
              /\ <<"merge", a>> \in PassersOf(c) /\ TokOf(c, <<"merge", a>>) = "merge"
  BY DEF GettersOf, PassersOf, Fanout, TokOf
<1>3. /\ Reduce \in GettersOf(c) /\ TokOf(c, Reduce) = "reduce"
      /\ LogFdr \in GettersOf(c) /\ TokOf(c, LogFdr) = "log_fdr"
  BY DEF GettersOf, Reduce, LogFdr, TokOf
<1>4. ASSUME NEW b \in DOMAIN c.tok, NEW k, c.tok[b] = "ARGV", Under(c, k, b)
      PROVE  <<"io", k>> \in PassersOf(c) /\ TokOf(c, <<"io", k>>) = "io"
  <2>1. k \in Range(c.kid[b]) /\ b \in Nodes(c, "ARGV")
    BY <1>4 DEF Under, Range, Nodes
  <2>2. k \in UNION {Range(c.kid[a]) : a \in Nodes(c, "ARGV")}
    BY <2>1
  <2> QED BY <2>2 DEF PassersOf, TokOf
<1> QED BY <1>1, <1>2, <1>3, <1>4

\* The kinds of goroutines, by what they do.
LEMMA Kinds ==
  ASSUME NEW c \in Configs, NEW g \in Gor(c)
  PROVE  /\ TokOf(c, g) \in Toks =>
              g \in GettersOf(c) /\ TokOf(c, g) # "WHEN"
                /\ \E a \in DOMAIN c.tok : g = Op(a) /\ c.tok[a] = TokOf(c, g)
         /\ TokOf(c, g) = "fanout" => \E a \in Nodes(c, "CALL") : g = Fanout(a)
         /\ TokOf(c, g) = "log" => \E a \in Nodes(c, "CALL") : g = <<"log", a>>
         /\ TokOf(c, g) = "reduce" => g = Reduce
         /\ TokOf(c, g) = "log_fdr" => g = LogFdr
         /\ TokOf(c, g) = "merge" => \E a \in Nodes(c, "CALL") : g = <<"merge", a>>
         /\ TokOf(c, g) = "io" =>
              \E k, b \in DOMAIN c.tok : g = <<"io", k>> /\ c.tok[b] = "ARGV" /\ Under(c, k, b)
         /\ g \in PassersOf(c) <=> TokOf(c, g) \in {"merge", "io"}
         /\ g \in GettersOf(c) <=> TokOf(c, g) \in Toks \cup {"fanout", "log", "reduce", "log_fdr"}
         /\ TokOf(c, g) \in Toks \cup Lower
<1>1. \A a \in DOMAIN c.tok : c.tok[a] \in Toks
  BY Configuration
<1>2. /\ \A x \in Toks : x \notin {"fanout", "log", "merge", "io", "reduce", "log_fdr"}
      /\ Lower = {"fanout", "log", "merge", "io", "reduce", "log_fdr"}
  BY DEF Toks, Lower
<1>3. \A r \in GettersOf(c) : TokOf(c, r) \in Toks \cup {"fanout", "log", "reduce", "log_fdr"}
  <2>1. TAKE r \in GettersOf(c)
  <2> QED BY <1>1, NamesOfGetters
<1>4. \A p \in PassersOf(c) : TokOf(c, p) \in {"merge", "io"}
  BY NamesOfPassers
<1>5. CASE g \in GettersOf(c)
  <2>1. g \notin PassersOf(c)
    BY <1>2, <1>3, <1>4, <1>5
  <2>2. TokOf(c, g) \in Toks =>
          \E a \in DOMAIN c.tok : g = Op(a) /\ c.tok[a] = TokOf(c, g) /\ c.tok[a] # "WHEN"
    BY <1>2, <1>5, NamesOfGetters
  <2>3. /\ TokOf(c, g) = "fanout" => \E a \in Nodes(c, "CALL") : g = Fanout(a)
        /\ TokOf(c, g) = "log" => \E a \in Nodes(c, "CALL") : g = <<"log", a>>
        /\ TokOf(c, g) = "reduce" => g = Reduce
        /\ TokOf(c, g) = "log_fdr" => g = LogFdr
    BY <1>1, <1>2, <1>5, NamesOfGetters
  <2> QED BY <1>2, <1>3, <1>5, <2>1, <2>2, <2>3
<1>6. CASE g \in PassersOf(c)
  <2>1. g \notin GettersOf(c)
    BY <1>2, <1>3, <1>4, <1>6
  <2>2. TokOf(c, g) \notin Toks /\ TokOf(c, g) \in Lower
    BY <1>2, <1>4, <1>6
  <2>3. /\ TokOf(c, g) = "merge" => \E a \in Nodes(c, "CALL") : g = <<"merge", a>>
        /\ TokOf(c, g) = "io" =>
             \E k, b \in DOMAIN c.tok : g = <<"io", k>> /\ c.tok[b] = "ARGV" /\ Under(c, k, b)
    BY <1>6, NamesOfPassers
  <2> QED BY <1>2, <1>4, <1>6, <2>1, <2>2, <2>3
<1> QED BY <1>5, <1>6 DEF Gor

\* Who reads a node of a tree.
LEMMA ReadersOfOp ==
  ASSUME NEW c \in Configs, NEW g \in Gor(c), NEW k \in DOMAIN c.tok,
         Op(k) \in FromOf(c, g)
  PROVE  \/ c.tok[k] = "CALL" /\ g = Fanout(k)
         \/ \E a \in DOMAIN c.tok : c.tok[a] = "ARGV" /\ Under(c, k, a) /\ g = <<"io", k>>
         \/ \E a \in DOMAIN c.tok : /\ c.tok[a] \notin {"ARGV", "WHEN"}
                                    /\ Under(c, k, a) /\ g = Op(a)
         \/ \E a, b \in DOMAIN c.tok : /\ c.tok[b] = "WHEN" /\ Under(c, k, b)
                                       /\ Under(c, b, a) /\ g = Op(a)
<1>0. Sends(c, Op(k), g)
  BY DEF FromOf
<1>1. CASE TokOf(c, g) \in {"NOT", "LOADED", "AND", "OR", "CALL"}
  <2>1. PICK a \in DOMAIN c.tok : g = Op(a) /\ c.tok[a] = TokOf(c, g)
    BY <1>1, Kinds DEF Toks
  <2>2. PICK j \in DOMAIN c.tok : Under(c, j, a) /\ Op(k) = OutOf(c, j)
    BY <1>0, <1>1, <2>1 DEF Sends, Op
  <2>3. CASE c.tok[j] = "WHEN"
    <3>1. Op(k) = Op(c.kid[j][1]) /\ Len(c.kid[j]) = 1
      BY <2>2, <2>3, Configuration DEF OutOf, WellFormed
    <3>2. k = c.kid[j][1] /\ 1 \in DOMAIN c.kid[j]
      <4>1. c.kid[j] \in Seq(DOMAIN c.tok)
        BY Configuration
      <4> QED BY <3>1, <4>1, LenProperties DEF Op
    <3> QED BY <2>1, <2>2, <2>3, <3>2 DEF Under
  <2>4. CASE c.tok[j] # "WHEN"
    BY <1>1, <2>1, <2>2, <2>4 DEF OutOf, Op
  <2> QED BY <2>3, <2>4
<1>2. CASE TokOf(c, g) \in {"io", "fanout"}
  <2>1. Op(k) = Op(g[2])
    BY <1>0, <1>2 DEF Sends
  <2>2. g[2] = k
    BY <2>1 DEF Op
  <2>3. CASE TokOf(c, g) = "fanout"
    BY <2>2, <2>3, Kinds DEF Fanout, Nodes
  <2>4. CASE TokOf(c, g) = "io"
    BY <2>2, <2>4, Kinds
  <2> QED BY <1>2, <2>3, <2>4
<1> QED BY <1>0, <1>1, <1>2 DEF Sends, Op, Fanout, Reduce

\* All goroutines but the fanouts have one reader.
LEMMA OneReader ==
  ASSUME NEW c \in Configs, NEW s \in Gor(c), TokOf(c, s) # "fanout",
         NEW g \in Gor(c), NEW h \in Gor(c), s \in FromOf(c, g), s \in FromOf(c, h)
  PROVE  g = h
<1>0. Sends(c, s, g) /\ Sends(c, s, h)
  BY DEF FromOf
<1>w. WellFormed(c)
  BY Configuration
<1>1. CASE TokOf(c, s) \in Toks
  <2>1. PICK k \in DOMAIN c.tok : s = Op(k) /\ c.tok[k] = TokOf(c, s)
    BY <1>1, Kinds
  <2>2. \A a, b \in DOMAIN c.tok : Under(c, k, a) /\ Under(c, k, b) => a = b
    BY <1>w DEF WellFormed
  <2>3. \A a \in DOMAIN c.tok : Under(c, k, a) => c.tok[k] # "CALL"
    BY <1>w DEF WellFormed
  <2>4. \A a, b, d \in DOMAIN c.tok : Under(c, d, a) /\ Under(c, d, b) => a = b
    BY <1>w DEF WellFormed
  <2> QED BY <2>1, <2>2, <2>3, <2>4, ReadersOfOp
<1>2. CASE TokOf(c, s) = "log"
  <2>1. ASSUME NEW r \in Gor(c), Sends(c, s, r) PROVE TokOf(c, r) = "merge" /\ s = <<"log", r[2]>>
    BY <1>2, <2>1, Kinds DEF Sends, OutOf, Op, Fanout, Reduce
  <2> QED BY <1>0, <2>1, Kinds
<1>3. CASE TokOf(c, s) = "reduce"
  <2>1. ASSUME NEW r \in Gor(c), Sends(c, s, r) PROVE TokOf(c, r) = "log_fdr"
    BY <1>3, <2>1, Kinds DEF Sends, OutOf, Op, Fanout, Reduce
  <2> QED BY <1>0, <2>1, Kinds
<1>4. CASE TokOf(c, s) = "log_fdr"
  BY <1>0, <1>4, Kinds DEF Sends, OutOf, Op, Fanout, Reduce, LogFdr
<1>5. CASE TokOf(c, s) = "merge"
  <2>1. ASSUME NEW r \in Gor(c), Sends(c, s, r) PROVE TokOf(c, r) = "reduce"
    BY <1>5, <2>1, Kinds DEF Sends, OutOf, Op, Fanout, Reduce
  <2> QED BY <1>0, <2>1, Kinds
<1>6. CASE TokOf(c, s) = "io"
  <2>1. ASSUME NEW r \in Gor(c), Sends(c, s, r)
        PROVE  TokOf(c, r) = "ARGV" /\ Under(c, s[2], r[2])
    BY <1>6, <2>1, Kinds DEF Sends, OutOf, Op, Fanout, Reduce
  <2>2. PICK k \in DOMAIN c.tok : s = <<"io", k>>
    BY <1>6, Kinds
  <2>3. PICK a, b \in DOMAIN c.tok : g = Op(a) /\ h = Op(b)
    BY <1>0, <2>1, Kinds DEF Toks
  <2>4. Under(c, k, a) /\ Under(c, k, b)
    BY <1>0, <2>1, <2>2, <2>3 DEF Op
  <2> QED BY <1>w, <2>3, <2>4 DEF WellFormed
<1> QED BY <1>1, <1>2, <1>3, <1>4, <1>5, <1>6, Kinds DEF Lower

\* What the goroutines read from.
LEMMA Wiring ==
  ASSUME NEW c \in Configs
  PROVE  /\ \A g \in Gor(c) : FromOf(c, g) \subseteq Gor(c)
         /\ \A g \in Gor(c) : TokOf(c, g) \notin Collectors =>
              \A s, t \in FromOf(c, g) : s = t
         /\ \A g \in Gor(c) : TokOf(c, g) = "LEAF" => FromOf(c, g) = {}
         /\ \A f, g \in Gor(c) : f \in FromOf(c, g) /\ TokOf(c, f) = "fanout" =>
              TokOf(c, g) \in {"PROJECT", "log"}
         /\ \A p, g \in Gor(c) : p \in FromOf(c, g) /\ p \in PassersOf(c) =>
              TokOf(c, g) \in {"ARGV", "reduce"}
         /\ \A s, p \in Gor(c) : s \in FromOf(c, p) /\ (p \in PassersOf(c) \/ TokOf(c, p) = "fanout")
              => s \in GettersOf(c) /\ TokOf(c, s) # "fanout"
         /\ \A g \in Gor(c) : LogFdr \notin FromOf(c, g)
<1>0. ASSUME NEW g \in Gor(c), NEW s \in FromOf(c, g)
      PROVE  s \in Gor(c) /\ Sends(c, s, g)
  BY <1>0 DEF FromOf, Gor
<1>w. WellFormed(c)
  BY Configuration
<1>1. ASSUME NEW g \in Gor(c), TokOf(c, g) \notin Collectors,
             NEW s \in FromOf(c, g), NEW t \in FromOf(c, g)
      PROVE  s = t
  <2>1. Sends(c, s, g) /\ Sends(c, t, g)
    BY <1>0
  <2>2. CASE TokOf(c, g) \in {"NOT", "LOADED"}
    <3>1. PICK a \in DOMAIN c.tok : g = Op(a) /\ c.tok[a] = TokOf(c, g)
      BY <2>2, Kinds DEF Toks
    <3>2. Len(c.kid[a]) = 1 /\ c.kid[a] \in Seq(DOMAIN c.tok)
      BY <1>w, <2>2, <3>1, Configuration DEF WellFormed
    <3>3. \A k, j \in DOMAIN c.tok : Under(c, k, a) /\ Under(c, j, a) => k = j
      BY <3>2, LenProperties DEF Under
    <3> QED BY <2>1, <2>2, <3>1, <3>3 DEF Sends, Op
  <2>3. CASE TokOf(c, g) \notin {"NOT", "LOADED"}
    BY <1>1, <2>1, <2>3 DEF Sends, Collectors
  <2> QED BY <2>2, <2>3
<1>2. ASSUME NEW g \in Gor(c), TokOf(c, g) = "LEAF" PROVE FromOf(c, g) = {}
  BY <1>0, <1>2 DEF Sends
<1>3. ASSUME NEW f \in Gor(c), NEW g \in Gor(c), f \in FromOf(c, g), TokOf(c, f) = "fanout"
      PROVE  TokOf(c, g) \in {"PROJECT", "log"}
  <2>1. Sends(c, f, g)
    BY <1>0, <1>3
  <2>2. f[1] = "fanout"
    BY <1>3, Kinds DEF Fanout
  <2> QED BY <2>1, <2>2 DEF Sends, OutOf, Op, Reduce
<1>4. ASSUME NEW p \in Gor(c), NEW g \in Gor(c), p \in FromOf(c, g), p \in PassersOf(c)
      PROVE  TokOf(c, g) \in {"ARGV", "reduce"}
  <2>1. Sends(c, p, g)
    BY <1>0, <1>4
  <2>2. p[1] \in {"merge", "io"}
    BY <1>4, NamesOfPassers
  <2> QED BY <2>1, <2>2 DEF Sends, OutOf, Op, Fanout, Reduce
<1>5. ASSUME NEW s \in Gor(c), NEW p \in Gor(c), s \in FromOf(c, p),
             p \in PassersOf(c) \/ TokOf(c, p) = "fanout"
      PROVE  s \in GettersOf(c) /\ TokOf(c, s) # "fanout"
  <2>1. Sends(c, s, p) /\ TokOf(c, p) \in {"merge", "io", "fanout"}
    BY <1>0, <1>5, Kinds
  <2>2. s[1] \in {"log", "op"}
    BY <2>1 DEF Sends, Op
  <2>3. s \notin PassersOf(c)
    BY <2>2, NamesOfPassers
  <2>4. TokOf(c, s) # "fanout"
    BY <2>2, Kinds DEF Fanout
  <2> QED BY <2>3, <2>4 DEF Gor
<1>6. ASSUME NEW g \in Gor(c), LogFdr \in FromOf(c, g) PROVE FALSE
  <2>1. Sends(c, LogFdr, g)
    BY <1>0, <1>6
  <2> QED BY <2>1 DEF Sends, OutOf, Op, Fanout, Reduce, LogFdr
<1>7. \A g \in Gor(c) : FromOf(c, g) \subseteq Gor(c)
  BY <1>0
<1> QED BY <1>1, <1>2, <1>3, <1>4, <1>5, <1>6, <1>7

\* The flow detail record comes from all goroutines.
LEMMA AllConverge ==
  ASSUME NEW c \in Configs, NEW S \in SUBSET Gor(c), LogFdr \in S,
         \A g \in S : FromOf(c, g) \subseteq S
  PROVE  S = Gor(c)
<1>w. WellFormed(c)
  BY Configuration
<1>0. ASSUME NEW s \in Gor(c), NEW g \in S, Sends(c, s, g) PROVE s \in S
  BY <1>0 DEF FromOf, Gor
<1>1. Reduce \in S
  <2>1. Sends(c, Reduce, LogFdr) /\ Reduce \in Gor(c)
    BY Names DEF Sends, Gor
  <2> QED BY <1>0, <2>1
<1>2. ASSUME NEW a \in Nodes(c, "CALL")
      PROVE  {<<"merge", a>>, <<"log", a>>, Fanout(a), Op(a)} \subseteq S
  <2>1. /\ <<"merge", a>> \in Gor(c) /\ TokOf(c, <<"merge", a>>) = "merge"
        /\ <<"log", a>> \in Gor(c) /\ TokOf(c, <<"log", a>>) = "log"
        /\ Fanout(a) \in Gor(c) /\ TokOf(c, Fanout(a)) = "fanout"
        /\ Op(a) \in Gor(c) /\ TokOf(c, Reduce) = "reduce"
    BY Names DEF Gor, Nodes
  <2>2. Sends(c, <<"merge", a>>, Reduce)
    BY <2>1 DEF Sends
  <2>3. Sends(c, <<"log", a>>, <<"merge", a>>)
    BY <2>1 DEF Sends
  <2>4. Sends(c, Fanout(a), <<"log", a>>)
    BY <2>1 DEF Sends
  <2>5. Sends(c, Op(a), Fanout(a))
    BY <2>1 DEF Sends, Fanout
  <2> QED BY <1>0, <1>1, <2>1, <2>2, <2>3, <2>4, <2>5
<1> DEFINE N == {a \in DOMAIN c.tok :
                   IF c.tok[a] = "WHEN" THEN Op(c.kid[a][1]) \in S ELSE Op(a) \in S}
<1>3. Nodes(c, "CALL") \subseteq N
  BY <1>2 DEF Nodes
<1>4. ASSUME NEW b \in N, NEW a \in DOMAIN c.tok, Under(c, a, b)
      PROVE  a \in N
  <2>0. /\ c.tok[b] \in Toks /\ c.tok[b] \notin {"LEAF", "PROJECT"}
        /\ c.tok[a] # "CALL" /\ (c.tok[a] = "WHEN" => c.tok[b] = "CALL")
        /\ c.kid[b] \in Seq(DOMAIN c.tok)
    <3>1. c.tok[b] \in {"LEAF", "PROJECT"} => FALSE
      BY <1>w, <1>4 DEF WellFormed, Under
    <3> QED BY <1>w, <1>4, <3>1, Configuration DEF WellFormed
  <2>1. CASE c.tok[b] = "WHEN"
    <3>1. Len(c.kid[b]) = 1
      BY <1>w, <2>1 DEF WellFormed
    <3>2. a = c.kid[b][1]
      BY <1>4, <2>0, <3>1, LenProperties DEF Under
    <3> QED BY <1>4, <2>0, <2>1, <3>2
  <2>2. CASE c.tok[b] = "ARGV"
    <3>1. /\ <<"io", a>> \in Gor(c) /\ TokOf(c, <<"io", a>>) = "io"
          /\ Op(b) \in S /\ TokOf(c, Op(b)) = "ARGV"
          /\ c.tok[a] # "WHEN" /\ Op(a) \in Gor(c)
      BY <1>4, <2>0, <2>2, Names DEF Gor
    <3>2. Sends(c, <<"io", a>>, Op(b))
      BY <1>4, <3>1 DEF Sends, Op
    <3>3. Sends(c, Op(a), <<"io", a>>)
      BY <3>1 DEF Sends
    <3>4. Op(a) \in S
      BY <1>0, <3>1, <3>2, <3>3
    <3> QED BY <3>1, <3>4
  <2>3. CASE c.tok[b] \in {"NOT", "LOADED", "AND", "OR", "CALL"}
    <3>1. Op(b) \in S /\ TokOf(c, Op(b)) = c.tok[b]
      BY <1>4, <2>3, Names
    <3>2. Sends(c, OutOf(c, a), Op(b))
      BY <1>4, <2>3, <3>1 DEF Sends, Op
    <3>3. CASE c.tok[a] # "WHEN"
      BY <1>0, <3>1, <3>2, <3>3, Names DEF OutOf, Gor
    <3>4. CASE c.tok[a] = "WHEN"
      <4>1. Len(c.kid[a]) = 1 /\ c.kid[a] \in Seq(DOMAIN c.tok)
        BY <1>w, <3>4, Configuration DEF WellFormed
      <4>2. Under(c, c.kid[a][1], a) /\ c.kid[a][1] \in DOMAIN c.tok
        BY <4>1, ElementOfSeq, LenProperties DEF Under
      <4>3. c.tok[c.kid[a][1]] # "WHEN"
        BY <1>w, <3>4, <4>2 DEF WellFormed
      <4>4. Op(c.kid[a][1]) \in Gor(c)
        BY <4>2, <4>3, Names DEF Gor
      <4> QED BY <1>0, <3>1, <3>2, <3>4, <4>4 DEF OutOf
    <3> QED BY <3>3, <3>4
  <2> QED BY <2>0, <2>1, <2>2, <2>3 DEF Toks
<1>5. N = DOMAIN c.tok
  <2>1. /\ Nodes(c, "CALL") \subseteq N
        /\ \A b \in N : \A a \in DOMAIN c.tok : Under(c, a, b) => a \in N
    BY <1>3, <1>4
  <2>2. N \in SUBSET DOMAIN c.tok
    OBVIOUS
  <2> HIDE DEF N
  <2> QED BY <1>w, <2>1, <2>2 DEF WellFormed
<1>6. ASSUME NEW g \in Gor(c) PROVE g \in S
  <2>1. CASE TokOf(c, g) \in Toks
    BY <1>5, <2>1, Kinds
  <2>2. CASE TokOf(c, g) \in {"fanout", "log", "merge"}
    <3>1. PICK a \in Nodes(c, "CALL") : g \in {Fanout(a), <<"log", a>>, <<"merge", a>>}
      BY <2>2, Kinds
    <3> QED BY <1>2, <3>1
  <2>3. CASE TokOf(c, g) \in {"reduce", "log_fdr"}
    BY <1>1, <2>3, Kinds
  <2>4. CASE TokOf(c, g) = "io"
    <3>1. PICK k, b \in DOMAIN c.tok : g = <<"io", k>> /\ c.tok[b] = "ARGV" /\ Under(c, k, b)
      BY <2>4, Kinds
    <3>2. Op(b) \in S /\ TokOf(c, Op(b)) = "ARGV"
      BY <1>5, <3>1, Names
    <3>3. Sends(c, g, Op(b))
      BY <3>1, <3>2 DEF Sends, Op
    <3> QED BY <1>0, <3>2, <3>3
  <2> QED BY <2>1, <2>2, <2>3, <2>4, Kinds DEF Lower
<1> QED BY <1>6

\* compile() counts the goroutines that follow the flows.
LEMMA Count ==
  ASSUME NEW c \in Configs, conf = c
  PROVE  /\ IsFiniteSet(GettersOf(c))
         /\ ConfluentCount = Cardinality(GettersOf(c)) /\ ConfluentCount \in Nat
<1> DEFINE A == {a \in DOMAIN c.tok : c.tok[a] # "WHEN"}
           K == Nodes(c, "CALL")
           X == {"op"} \X A
           Y == {"fanout", "log"} \X K
           Z == {Reduce, LogFdr}
<1>1. IsFiniteSet(A) /\ IsFiniteSet(K)
  <2>1. IsFiniteSet(DOMAIN c.tok) /\ A \in SUBSET DOMAIN c.tok /\ K \in SUBSET DOMAIN c.tok
    BY Configuration DEF Nodes
  <2> QED BY <2>1, FS_Subset
<1>2. Cardinality(A) \in Nat /\ Cardinality(K) \in Nat
  BY <1>1, FS_CardinalityType
<1>3. IsFiniteSet(X) /\ Cardinality(X) = Cardinality(A)
  <2>1. IsFiniteSet({"op"}) /\ Cardinality({"op"}) = 1
    BY FS_Singleton
  <2>2. IsFiniteSet(X) /\ Cardinality(X) = Cardinality({"op"}) * Cardinality(A)
    BY <1>1, <2>1, FS_Product
  <2> QED BY <1>2, <2>1, <2>2
<1>4. IsFiniteSet(Y) /\ Cardinality(Y) = Cardinality(K) + Cardinality(K)
  <2>1. IsFiniteSet({"fanout"}) /\ Cardinality({"fanout"}) = 1
    BY FS_Singleton
  <2>2. IsFiniteSet({"fanout", "log"}) /\ Cardinality({"fanout", "log"}) = 2
    <3>1. {"fanout", "log"} = {"fanout"} \cup {"log"} /\ "log" \notin {"fanout"}
      OBVIOUS
    <3>2. /\ IsFiniteSet({"fanout"} \cup {"log"})
          /\ Cardinality({"fanout"} \cup {"log"}) = Cardinality({"fanout"}) + 1
      BY <2>1, <3>1, FS_AddElement
    <3> QED BY <2>1, <3>1, <3>2
  <2>3. IsFiniteSet(Y) /\ Cardinality(Y) = Cardinality({"fanout", "log"}) * Cardinality(K)
    BY <1>1, <2>2, FS_Product
  <2> QED BY <1>2, <2>2, <2>3
<1>5. IsFiniteSet(Z) /\ Cardinality(Z) = 2
  <2>1. IsFiniteSet({Reduce}) /\ Cardinality({Reduce}) = 1
    BY FS_Singleton
  <2>2. Z = {Reduce} \cup {LogFdr} /\ LogFdr \notin {Reduce}
    BY DEF Reduce, LogFdr
  <2>3. IsFiniteSet({Reduce} \cup {LogFdr}) /\ Cardinality({Reduce} \cup {LogFdr}) = 1 + 1
    BY <2>1, <2>2, FS_AddElement
  <2> QED BY <2>2, <2>3
<1>6. X \cap Y = {} /\ (X \cup Y) \cap Z = {}
  BY DEF Reduce, LogFdr
<1>7. IsFiniteSet(X \cup Y) /\ Cardinality(X \cup Y) = Cardinality(X) + Cardinality(Y) - 0
  BY <1>3, <1>4, <1>6, FS_Union, FS_EmptySet
<1>8. /\ IsFiniteSet((X \cup Y) \cup Z)
      /\ Cardinality((X \cup Y) \cup Z) = Cardinality(X \cup Y) + Cardinality(Z) - 0
  <2> DEFINE W == X \cup Y
  <2>1. IsFiniteSet(W) /\ IsFiniteSet(Z) /\ W \cap Z = {}
    BY <1>5, <1>6, <1>7
  <2> HIDE DEF W, Z
  <2>2. /\ IsFiniteSet(W \cup Z)
        /\ Cardinality(W \cup Z) = Cardinality(W) + Cardinality(Z) - Cardinality(W \cap Z)
    BY <2>1, FS_Union
  <2>3. Cardinality(W \cap Z) = 0
    BY <2>1, FS_EmptySet
  <2> QED BY <2>2, <2>3 DEF W
<1>9. GettersOf(c) = (X \cup Y) \cup Z
  <2>1. X = {Op(a) : a \in DOMAIN c.tok \ Nodes(c, "WHEN")}
    BY DEF Op, Nodes
  <2> HIDE DEF X
  <2> QED BY <2>1 DEF GettersOf
<1>10. ConfluentCount = Cardinality(A) + Cardinality(K) + Cardinality(K) + 2
  BY DEF ConfluentCount, Ast, Calls
<1> HIDE DEF A, K, X, Y, Z
<1> QED BY <1>2, <1>3, <1>4, <1>5, <1>7, <1>8, <1>9, <1>10

-----------------------------------------------------------------------------
(* Steps of the goroutines.                                                  *)

\* The network that the actions know by conf.
LEMMA Known_ ==
  ASSUME NEW c \in Configs, conf = c
  PROVE  /\ Getters = GettersOf(c) /\ Goroutines = Gor(c)
         /\ \A g \in Gor(c) : From(g) = FromOf(c, g) /\ Tok(g) = TokOf(c, g)
         /\ Nodes(conf, "CALL") = Nodes(c, "CALL")
<1>1. Network[conf] =
        [getters |-> GettersOf(c),
         from |-> [g \in GettersOf(c) \cup PassersOf(c) |-> FromOf(c, g)],
         tok  |-> [g \in GettersOf(c) \cup PassersOf(c) |-> TokOf(c, g)]]
  <2>1. PICK all : all = {g : g \in GettersOf(c) \cup PassersOf(c)}
    OBVIOUS
  <2>2. Network[conf] =
          [getters |-> {g \in all : g \in GettersOf(c)},
           from |-> [g \in all |-> {s \in all : s \in FromOf(c, g)}],
           tok  |-> [g \in all |-> TokOf(c, g)]]
    BY <2>1 DEF Network
  <2>3. all = GettersOf(c) \cup PassersOf(c)
    BY <2>1
  <2>4. {g \in all : g \in GettersOf(c)} = GettersOf(c)
    BY <2>3
  <2>5. \A g : {s \in all : s \in FromOf(c, g)} = FromOf(c, g)
    BY <2>3 DEF FromOf
  <2> HIDE DEF FromOf, TokOf
  <2> QED BY <2>2, <2>3, <2>4, <2>5
<1> QED BY <1>1 DEF Getters, Goroutines, From, Tok, Gor

\* g reads from s, and goes on to p.
Reads(c, g, s, p) ==
  /\ UNCHANGED <<conf, wrk, seq, countA, countB, at>> /\ ~panic'
  /\ pc[g] = "read" /\ TokOf(c, g) # "fanout"
  /\ \/ /\ TokOf(c, s) # "fanout" /\ pc[s] = "send" /\ put' = put
        /\ pc' = [pc EXCEPT ![s] = IF s \in GettersOf(c) THEN "get" ELSE "read", ![g] = p]
     \/ /\ TokOf(c, s) = "fanout" /\ put[g] # {} /\ put' = [put EXCEPT ![g] = {}]
        /\ pc' = [pc EXCEPT ![g] = p]
  /\ got' = [x \in Gor(c) |-> got'[x]] /\ val' = [x \in Gor(c) |-> val'[x]]
  /\ \A x \in Gor(c) \ {g} : got'[x] = got[x] /\ val'[x] = val[x]
  /\ \/ /\ p = "read" /\ TokOf(c, g) \in Collectors
        /\ DOMAIN got'[g] = DOMAIN got[g] \cup {s}
     \/ /\ p = "fire" /\ TokOf(c, g) \in Collectors
        /\ DOMAIN got'[g] = DOMAIN got[g] \cup {s}
        /\ FromOf(c, g) \subseteq DOMAIN got[g] \cup {s}
     \/ /\ p = "send" /\ got'[g] = <<>> /\ val'[g].flow = seq
        /\ FromOf(c, g) \subseteq DOMAIN got[g] \cup {s}

\* g has not read what s offers.
Ready(c, g, s) ==
  /\ s \in FromOf(c, g) /\ s \in Gor(c) /\ s # g /\ wrk = "push"
  /\ g \in GettersOf(c) => at[g] = seq /\ s \notin DOMAIN got[g]
  /\ s \in GettersOf(c) => at[s] = seq

\* What is offered is of this flow, and was not read before.
LEMMA Offered ==
  ASSUME NEW c \in Configs, FInv(c), NEW g \in Gor(c), NEW s \in FromOf(c, g),
         NEW m \in Offer(s, g), pc[g] = "read"
  PROVE  /\ m.flow = seq /\ Ready(c, g, s)
         /\ TokOf(c, s) # "fanout" => pc[s] = "send" /\ m = val[s]
         /\ TokOf(c, s) = "fanout" => put[g] = {m}
<1> USE DEF Ready
<1>1. Shape(c) /\ Follows(c) /\ Fresh(c) /\ Direct(c) /\ Passed(c) /\ Fanned(c)
  BY DEF FInv
<1>2. s \in Gor(c) /\ Tok(s) = TokOf(c, s)
  BY <1>1, Wiring, Known_ DEF Shape
<1>3. CASE TokOf(c, s) = "fanout"
  <2>1. m \in put[g] /\ put[g] = {m} /\ m.flow = seq
    BY <1>1, <1>2, <1>3 DEF Offer, Fresh
  <2>2. s \in GettersOf(c) /\ g \in GettersOf(c) /\ TokOf(c, g) # "fanout"
    BY <1>2, <1>3, Kinds, Wiring DEF Toks
  <2>3. s \notin Taken(c, g) /\ Sent(s)
    BY <1>1, <1>3, <2>1, <2>2 DEF Fanned
  <2>4. at[g] = seq /\ at[s] = seq
    BY <1>1, <2>2, <2>3 DEF Follows, Sent
  <2>5. wrk = "push"
    BY <2>1 DEF FInv, Quiet
  <2> QED BY <1>2, <1>3, <2>1, <2>2, <2>3, <2>4, <2>5 DEF Taken
<1>4. CASE TokOf(c, s) # "fanout"
  <2>1. pc[s] = "send" /\ m = val[s] /\ m.flow = seq
    BY <1>1, <1>2, <1>4 DEF Offer, Fresh
  <2>2. s \in GettersOf(c) => at[s] = seq /\ ~Sent(s)
    BY <1>1, <2>1 DEF Follows, Sent
  <2>3. g \in GettersOf(c) => at[g] = seq
    BY <1>1 DEF Follows
  <2>4. g \in GettersOf(c) => s \notin Taken(c, g)
    BY <1>1, <1>2, <1>4, <2>1, <2>2 DEF Direct, Passed, Gor
  <2>5. wrk = "push"
    BY <1>2, <2>1 DEF FInv, Quiet, Gor
  <2> QED BY <1>2, <1>4, <2>1, <2>2, <2>3, <2>4, <2>5 DEF Taken
<1> QED BY <1>3, <1>4

LEMMA TakeIsRead ==
  ASSUME NEW c \in Configs, FInv(c), NEW g \in Gor(c), NEW s, NEW m, NEW p,
         Take(g, s, m, p)
  PROVE  /\ s \in FromOf(c, g) /\ m \in Offer(s, g) /\ pc[g] = "read"
         /\ \/ /\ TokOf(c, s) # "fanout" /\ pc[s] = "send" /\ put' = put
               /\ pc' = [pc EXCEPT ![s] = IF s \in GettersOf(c) THEN "get" ELSE "read", ![g] = p]
            \/ /\ TokOf(c, s) = "fanout" /\ put[g] # {} /\ put' = [put EXCEPT ![g] = {}]
               /\ pc' = [pc EXCEPT ![g] = p]
<1>1. conf = c /\ Shape(c)
  BY DEF FInv, Shape
<1>2. s \in FromOf(c, g) /\ m \in Offer(s, g) /\ pc[g] = "read"
  BY <1>1, Known_ DEF Take
<1>3. /\ s \in Gor(c) /\ Tok(s) = TokOf(c, s)
      /\ Rest(s) = IF s \in GettersOf(c) THEN "get" ELSE "read"
  BY <1>1, <1>2, Known_, Wiring DEF Rest
<1>4. CASE TokOf(c, s) = "fanout"
  <2>1. put[g] = {m}
    BY <1>2, <1>4, Offered
  <2>2. put' = [put EXCEPT ![g] = {}] /\ pc' = [pc EXCEPT ![g] = p]
    BY <1>3, <1>4, <2>1 DEF Take
  <2> QED BY <1>2, <1>4, <2>1, <2>2
<1>5. CASE TokOf(c, s) # "fanout"
  <2>1. pc[s] = "send"
    BY <1>2, <1>5, Offered
  <2> QED BY <1>2, <1>3, <1>5, <2>1 DEF Take
<1> QED BY <1>4, <1>5

\* The actions that read.
ReadAction(g, s, m) ==
  \/ map(g, s, m) \/ project_sync_map_los_true_loaded(g, s, m)
  \/ bool2(g, s, m) \/ argv(g, s, m) \/ wait_fire(g, s, m)
  \/ pass(g, s, m) \/ reduce(g, s, m)

LEMMA ActionsRead ==
  ASSUME NEW c \in Configs, FInv(c), NEW g \in Gor(c), NEW s, NEW m,
         ReadAction(g, s, m), ~panic
  PROVE  Ready(c, g, s) /\ \E p \in {"read", "fire", "send"} : Reads(c, g, s, p)
<1>1. Shape(c) /\ Follows(c) /\ Passes(c) /\ conf = c /\ Tok(g) = TokOf(c, g)
      /\ From(g) = FromOf(c, g)
  BY Known_ DEF FInv, Shape
<1>2. DOMAIN With(g, s, m) = DOMAIN got[g] \cup {s}
  BY DEF With
<1>3. PICK p \in {"read", "fire", "send"} : Take(g, s, m, p)
  BY DEF ReadAction, map, project_sync_map_los_true_loaded, bool2, argv, wait_fire,
         pass, reduce
<1>4. /\ s \in FromOf(c, g) /\ m \in Offer(s, g) /\ pc[g] = "read"
  BY <1>3, TakeIsRead
<1>5. /\ m.flow = seq /\ Ready(c, g, s)
      /\ g \in GettersOf(c) => at[g] = seq /\ s \notin DOMAIN got[g]
  BY <1>4, Offered DEF Ready
<1>6. UNCHANGED <<conf, wrk, seq, countA, countB, at>>
  BY DEF ReadAction, map, project_sync_map_los_true_loaded, bool2, argv, wait_fire,
         pass, reduce, worker
<1>7. TokOf(c, g) \in {"NOT", "PROJECT", "LOADED", "AND", "OR", "ARGV", "CALL",
                       "log", "merge", "io", "log_fdr", "reduce"}
  BY <1>1 DEF ReadAction, map, project_sync_map_los_true_loaded, bool2, argv, wait_fire,
         pass, reduce
<1>8. TokOf(c, g) \notin {"merge", "io"} => g \in GettersOf(c)
  BY Kinds DEF Gor
<1> DEFINE Got(h) == got' = [got EXCEPT ![g] = h]
           Val(w) == val' = [val EXCEPT ![g] = w]
<1>9. ASSUME NEW q \in {"read", "fire", "send"}, Take(g, s, m, q), ~panic',
             NEW h, NEW w, Got(h), Val(w),
             \/ /\ q = "read" /\ TokOf(c, g) \in Collectors
                /\ DOMAIN h = DOMAIN got[g] \cup {s}
             \/ /\ q = "fire" /\ TokOf(c, g) \in Collectors
                /\ DOMAIN h = DOMAIN got[g] \cup {s}
                /\ FromOf(c, g) \subseteq DOMAIN got[g] \cup {s}
             \/ /\ q = "send" /\ h = <<>> /\ w.flow = seq
                /\ FromOf(c, g) \subseteq DOMAIN got[g] \cup {s}
      PROVE  Reads(c, g, s, q)
  <2>1. /\ \/ /\ TokOf(c, s) # "fanout" /\ pc[s] = "send" /\ put' = put
              /\ pc' = [pc EXCEPT ![s] = IF s \in GettersOf(c) THEN "get" ELSE "read", ![g] = q]
           \/ /\ TokOf(c, s) = "fanout" /\ put[g] # {} /\ put' = [put EXCEPT ![g] = {}]
              /\ pc' = [pc EXCEPT ![g] = q]
    BY <1>9, TakeIsRead
  <2>2. /\ got' = [x \in Gor(c) |-> got'[x]] /\ val' = [x \in Gor(c) |-> val'[x]]
        /\ \A x \in Gor(c) \ {g} : got'[x] = got[x] /\ val'[x] = val[x]
        /\ got'[g] = h /\ val'[g] = w
    <3>1. got = [x \in Gor(c) |-> got[x]] /\ val = [x \in Gor(c) |-> val[x]]
      BY <1>1 DEF Shape
    <3> QED BY <1>9, <3>1
  <2>3. TokOf(c, g) # "fanout"
    BY <1>7
  <2> QED BY <1>4, <1>6, <1>9, <2>1, <2>2, <2>3 DEF Reads
<1>10. /\ got = [got EXCEPT ![g] = got[g]] /\ val = [val EXCEPT ![g] = val[g]]
  <2>1. got = [x \in Gor(c) |-> got[x]] /\ val = [x \in Gor(c) |-> val[x]]
    BY <1>1 DEF Shape
  <2> QED BY <2>1
<1>11. TokOf(c, g) \notin Collectors => got[g] = <<>> /\ FromOf(c, g) \subseteq {s}
  <2>1. ASSUME TokOf(c, g) \notin Collectors PROVE got[g] = <<>>
    BY <1>1, <2>1 DEF Follows, Passes, Gor
  <2>2. ASSUME TokOf(c, g) \notin Collectors PROVE FromOf(c, g) \subseteq {s}
    BY <1>4, <2>2, Wiring
  <2> QED BY <2>1, <2>2
<1>12. ASSUME map(g, s, m) \/ project_sync_map_los_true_loaded(g, s, m) \/ pass(g, s, m)
       PROVE  Reads(c, g, s, "send")
  <2>1. Take(g, s, m, "send") /\ got' = got /\ ~panic' /\ TokOf(c, g) \notin Collectors
    BY <1>1, <1>12 DEF map, project_sync_map_los_true_loaded, pass, effect, Collectors
  <2>2. got[g] = <<>> /\ FromOf(c, g) \subseteq DOMAIN got[g] \cup {s}
    BY <1>11, <2>1
  <2>3. \E w : Val(w) /\ w.flow = seq
    <3>1. CASE pass(g, s, m)
      BY <1>5, <3>1 DEF pass
    <3>2. CASE map(g, s, m) \/ project_sync_map_los_true_loaded(g, s, m)
      <4>1. TokOf(c, g) \in {"NOT", "PROJECT", "LOADED"}
        BY <1>1, <3>2 DEF map, project_sync_map_los_true_loaded
      <4>2. at[g] = seq
        BY <1>5, <1>8, <4>1
      <4>3. PICK v : val' = [val EXCEPT ![g] = [flow |-> at[g], v |-> v]]
        BY <3>2 DEF map, project_sync_map_los_true_loaded, Say
      <4>4. Val([flow |-> at[g], v |-> v]) /\ [flow |-> at[g], v |-> v].flow = seq
        BY <4>2, <4>3
      <4> QED BY <4>4
    <3> QED BY <1>12, <3>1, <3>2
  <2>4. Got(got[g])
    BY <1>10, <2>1
  <2>5. PICK w : Val(w) /\ w.flow = seq
    BY <2>3
  <2> HIDE DEF Got, Val
  <2> QED BY <1>9, <2>1, <2>2, <2>4, <2>5
<1>13. ASSUME bool2(g, s, m) \/ argv(g, s, m) \/ reduce(g, s, m) \/ wait_fire(g, s, m)
       PROVE  \E q \in {"read", "fire", "send"} : Reads(c, g, s, q)
  <2>1. TokOf(c, g) \in Collectors /\ at[g] = seq /\ s \notin DOMAIN got[g]
    BY <1>1, <1>5, <1>8, <1>13 DEF bool2, argv, reduce, wait_fire, Collectors
  <2>2. ~panic'
    <3>1. ~(s \in DOMAIN got[g]) /\ ~(m.flow # at[g])
      BY <1>5, <2>1
    <3>2. panic' = (s \in DOMAIN got[g]) \/ panic' = (m.flow # at[g])
      BY <1>13 DEF bool2, argv, reduce, wait_fire
    <3> QED BY <3>1, <3>2
  <2>3. \/ Take(g, s, m, "read") /\ Keep(g, With(g, s, m)) /\ val' = val
        \/ /\ Take(g, s, m, "fire") /\ Keep(g, With(g, s, m)) /\ val' = val
           /\ DOMAIN With(g, s, m) = From(g)
        \/ /\ Take(g, s, m, "send") /\ Keep(g, <<>>) /\ \E v : Say(g, v)
           /\ DOMAIN With(g, s, m) = From(g)
    BY <1>13 DEF bool2, argv, reduce, wait_fire
  <2>4. CASE Take(g, s, m, "read") /\ Keep(g, With(g, s, m)) /\ val' = val
    <3>1. Got(With(g, s, m)) /\ Val(val[g])
      BY <1>10, <2>4 DEF Keep
    <3> QED BY <1>2, <1>9, <2>1, <2>2, <2>4, <3>1
  <2>5. CASE /\ Take(g, s, m, "fire") /\ Keep(g, With(g, s, m)) /\ val' = val
             /\ DOMAIN With(g, s, m) = From(g)
    <3>1. Got(With(g, s, m)) /\ Val(val[g])
      BY <1>10, <2>5 DEF Keep
    <3> QED BY <1>1, <1>2, <1>9, <2>1, <2>2, <2>5, <3>1
  <2>6. CASE /\ Take(g, s, m, "send") /\ Keep(g, <<>>) /\ \E v : Say(g, v)
             /\ DOMAIN With(g, s, m) = From(g)
    <3>1. PICK v : Say(g, v)
      BY <2>6
    <3>2. Got(<<>>) /\ Val([flow |-> at[g], v |-> v])
      BY <2>6, <3>1 DEF Keep, Say
    <3>3. [flow |-> at[g], v |-> v].flow = seq
      BY <2>1
    <3> QED BY <1>1, <1>2, <1>9, <2>2, <2>6, <3>2, <3>3
  <2> QED BY <2>3, <2>4, <2>5, <2>6
<1> QED BY <1>5, <1>12, <1>13 DEF ReadAction

-----------------------------------------------------------------------------
(* Every step keeps the network in step.                                     *)

LEMMA ReadStep ==
  ASSUME NEW c \in Configs, FInv(c), NEW g \in Gor(c), NEW s, Ready(c, g, s),
         NEW p \in {"read", "fire", "send"}, Reads(c, g, s, p)
  PROVE  FInv(c)'
<1>1. /\ Shape(c) /\ Follows(c) /\ Passes(c) /\ Fresh(c)
      /\ Direct(c) /\ Passed(c) /\ Fanned(c) /\ Counted(c)
  BY DEF FInv
<1>2. /\ s \in FromOf(c, g) /\ s \in Gor(c) /\ s # g /\ wrk = "push"
      /\ g \in GettersOf(c) => at[g] = seq /\ s \notin DOMAIN got[g]
      /\ s \in GettersOf(c) => at[s] = seq
  BY DEF Ready
<1>3. /\ UNCHANGED <<conf, wrk, seq, countA, countB, at>> /\ ~panic'
      /\ pc[g] = "read" /\ TokOf(c, g) # "fanout"
      /\ got' = [x \in Gor(c) |-> got'[x]] /\ val' = [x \in Gor(c) |-> val'[x]]
      /\ \A x \in Gor(c) \ {g} : got'[x] = got[x] /\ val'[x] = val[x]
  BY DEF Reads
<1>4. \/ /\ TokOf(c, s) # "fanout" /\ pc[s] = "send" /\ put' = put
         /\ pc' = [pc EXCEPT ![s] = IF s \in GettersOf(c) THEN "get" ELSE "read", ![g] = p]
      \/ /\ TokOf(c, s) = "fanout" /\ put[g] # {} /\ put' = [put EXCEPT ![g] = {}]
         /\ pc' = [pc EXCEPT ![g] = p]
  BY DEF Reads
<1>5. \/ /\ p = "read" /\ TokOf(c, g) \in Collectors
         /\ DOMAIN got'[g] = DOMAIN got[g] \cup {s}
      \/ /\ p = "fire" /\ TokOf(c, g) \in Collectors
         /\ DOMAIN got'[g] = DOMAIN got[g] \cup {s}
         /\ FromOf(c, g) \subseteq DOMAIN got[g] \cup {s}
      \/ /\ p = "send" /\ got'[g] = <<>> /\ val'[g].flow = seq
         /\ FromOf(c, g) \subseteq DOMAIN got[g] \cup {s}
  BY DEF Reads
<1>6. /\ pc' \in [Gor(c) -> {"get", "read", "fire", "send"}]
      /\ pc'[g] = p
      /\ \A x \in Gor(c) : x # g /\ x # s => pc'[x] = pc[x]
      /\ TokOf(c, s) # "fanout" => pc'[s] = IF s \in GettersOf(c) THEN "get" ELSE "read"
      /\ TokOf(c, s) = "fanout" => pc'[s] = pc[s]
  BY <1>1, <1>2, <1>4 DEF Shape
<1>7. /\ put' = [x \in Gor(c) |-> put'[x]]
      /\ \A x \in Gor(c) : x # g => put'[x] = put[x]
      /\ TokOf(c, s) = "fanout" => put'[g] = {}
      /\ TokOf(c, s) # "fanout" => put'[g] = put[g]
  <2>1. put = [x \in Gor(c) |-> put[x]]
    BY <1>1 DEF Shape
  <2> QED BY <1>4, <2>1
<1>8. Shape(c)'
  BY <1>1, <1>3, <1>6, <1>7 DEF Shape
<1>9. Follows(c)'
  <2>1. ASSUME NEW x \in GettersOf(c), x # g
        PROVE  /\ at'[x] = seq' \/ (at'[x] = seq' - 1 /\ pc'[x] = "get")
               /\ TokOf(c, x) = "fanout" => pc'[x] \in {"get", "read"}
               /\ pc'[x] \in {"get", "send"} \/ TokOf(c, x) \notin Collectors => got'[x] = <<>>
               /\ DOMAIN got'[x] \subseteq FromOf(c, x)
    <3>1. /\ at'[x] = at[x] /\ seq' = seq /\ got'[x] = got[x]
          /\ pc'[x] = pc[x] \/ (x = s /\ pc[x] = "send" /\ pc'[x] = "get")
      BY <1>2, <1>3, <1>4, <1>6, <2>1 DEF Gor
    <3> QED BY <1>1, <3>1 DEF Follows
  <2>2. ASSUME g \in GettersOf(c)
        PROVE  /\ at'[g] = seq'
               /\ pc'[g] \in {"get", "send"} \/ TokOf(c, g) \notin Collectors => got'[g] = <<>>
               /\ DOMAIN got'[g] \subseteq FromOf(c, g)
    <3>1. /\ at'[g] = seq' /\ DOMAIN got[g] \subseteq FromOf(c, g)
          /\ DOMAIN got'[g] \subseteq DOMAIN got[g] \cup {s}
      BY <1>1, <1>2, <1>3, <1>5, <2>2 DEF Follows
    <3> QED BY <1>2, <1>5, <1>6, <3>1
  <2> QED BY <1>3, <2>1, <2>2 DEF Follows
<1>10. Passes(c)'
  <2>1. ASSUME NEW x \in PassersOf(c), x # g
        PROVE  pc'[x] \in {"read", "send"} /\ got'[x] = <<>>
    <3>1. /\ got'[x] = got[x] /\ x \notin GettersOf(c)
          /\ pc'[x] = pc[x] \/ pc'[x] = "read"
      BY <1>2, <1>3, <1>6, <2>1, Kinds DEF Gor, Toks
    <3> QED BY <1>1, <3>1 DEF Passes
  <2>2. ASSUME g \in PassersOf(c)
        PROVE  pc'[g] \in {"read", "send"} /\ got'[g] = <<>>
    <3>1. TokOf(c, g) \notin Collectors
      BY <2>2, Kinds DEF Collectors
    <3> QED BY <1>5, <1>6, <3>1
  <2> QED BY <2>1, <2>2 DEF Passes
<1>11. Fresh(c)'
  <2>1. ASSUME NEW x \in Gor(c), pc'[x] = "send" PROVE val'[x].flow = seq'
    <3>1. CASE x = g
      BY <1>3, <1>5, <1>6, <2>1, <3>1
    <3>2. CASE x # g
      <4>1. pc[x] = "send" /\ val'[x] = val[x] /\ seq' = seq
        BY <1>3, <1>6, <2>1, <3>2
      <4> QED BY <1>1, <4>1 DEF Fresh
    <3> QED BY <3>1, <3>2
  <2>2. ASSUME NEW x \in Gor(c)
        PROVE  /\ \A m \in put'[x] : m.flow = seq' /\ put'[x] = {m}
               /\ put'[x] # {} => \E f \in FromOf(c, x) : TokOf(c, f) = "fanout"
    <3>1. put'[x] = put[x] \/ put'[x] = {}
      BY <1>7
    <3>2. seq' = seq
      BY <1>3
    <3> QED BY <1>1, <3>1, <3>2 DEF Fresh
  <2> QED BY <2>1, <2>2 DEF Fresh
<1>12. \A x \in GettersOf(c) : x # s => (Sent(x)' <=> Sent(x))
  <2>1. TAKE x \in GettersOf(c)
  <2>2. x # g /\ x # s => pc'[x] = pc[x]
    BY <1>6 DEF Gor
  <2>3. at'[x] = at[x] /\ seq' = seq
    BY <1>3
  <2> QED BY <1>3, <1>6, <2>2, <2>3 DEF Sent
<1>13. s \in GettersOf(c) => IF TokOf(c, s) = "fanout" THEN Sent(s)' <=> Sent(s) ELSE Sent(s)' /\ ~Sent(s)
  BY <1>2, <1>3, <1>4, <1>6 DEF Sent
<1>14. \A x \in GettersOf(c) : x # g => Taken(c, x)' = Taken(c, x)
  <2>1. TAKE x \in GettersOf(c)
  <2>2. ASSUME x # g PROVE Taken(c, x)' = Taken(c, x)
    <3>1. at'[x] = at[x] /\ seq' = seq /\ got'[x] = got[x]
      BY <1>3, <2>2 DEF Gor
    <3>2. pc'[x] = pc[x] \/ (pc[x] = "send" /\ pc'[x] = "get")
      BY <1>4, <1>6, <2>2 DEF Gor
    <3> QED BY <3>1, <3>2 DEF Taken
  <2> QED BY <2>2
<1>15. g \in GettersOf(c) => Taken(c, g)' = Taken(c, g) \cup {s} /\ s \notin Taken(c, g)
  <2>1. ASSUME g \in GettersOf(c)
        PROVE  Taken(c, g)' = Taken(c, g) \cup {s} /\ s \notin Taken(c, g)
    <3>1. Taken(c, g) = DOMAIN got[g] /\ s \notin DOMAIN got[g] /\ at'[g] = seq'
      BY <1>2, <1>3, <2>1 DEF Taken
    <3>2. DOMAIN got[g] \cup {s} \subseteq FromOf(c, g)
      BY <1>1, <1>2, <2>1 DEF Follows
    <3>3. Taken(c, g)' = DOMAIN got[g] \cup {s}
      BY <1>5, <1>6, <3>1, <3>2 DEF Taken
    <3> QED BY <3>1, <3>3
  <2> QED BY <2>1
<1>16. Direct(c)'
  <2>1. ASSUME NEW x \in GettersOf(c), NEW h \in GettersOf(c), x \in FromOf(c, h),
               TokOf(c, x) # "fanout"
        PROVE  x \in Taken(c, h)' <=> Sent(x)'
    <3>0. x \in Taken(c, h) <=> Sent(x)
      BY <1>1, <2>1 DEF Direct
    <3>1. CASE x = s
      <4>1. h = g
        BY <1>2, <2>1, <3>1, OneReader DEF Gor
      <4> QED BY <1>13, <1>15, <2>1, <3>1, <4>1
    <3>2. CASE x # s
      BY <1>12, <1>14, <1>15, <2>1, <3>0, <3>2
    <3> QED BY <3>1, <3>2
  <2> QED BY <2>1 DEF Direct
<1>17. Passed(c)'
  <2>1. ASSUME NEW q \in PassersOf(c), NEW h \in GettersOf(c), q \in FromOf(c, h)
        PROVE  /\ \A x \in FromOf(c, q) : Sent(x)' <=> pc'[q] = "send" \/ q \in Taken(c, h)'
               /\ ~(pc'[q] = "send" /\ q \in Taken(c, h)')
    <3>0. /\ \A x \in FromOf(c, q) : Sent(x) <=> pc[q] = "send" \/ q \in Taken(c, h)
          /\ ~(pc[q] = "send" /\ q \in Taken(c, h))
      BY <1>1, <2>1 DEF Passed
    <3>1. /\ q \in Gor(c) /\ q \notin GettersOf(c) /\ h \in Gor(c) /\ TokOf(c, q) # "fanout"
          /\ \A x \in FromOf(c, q) : x \in Gor(c) /\ x \in GettersOf(c) /\ TokOf(c, x) # "fanout"
      <4>1. q \in Gor(c) /\ h \in Gor(c) /\ \A x \in FromOf(c, q) : x \in Gor(c)
        BY Wiring DEF Gor
      <4> QED BY <4>1, Kinds, Wiring DEF Toks
    <3>2. CASE q = s
      <4>1. h = g
        BY <1>2, <2>1, <3>1, <3>2, OneReader
      <4>2. pc'[q] = "read" /\ pc[q] = "send" /\ q \in Taken(c, h)'
        BY <1>4, <1>6, <1>15, <2>1, <3>1, <3>2, <4>1
      <4> QED BY <1>12, <3>0, <3>1, <3>2, <4>2
    <3>3. CASE q = g
      <4>1. h # g /\ pc'[q] = "send" /\ pc[q] = "read"
        BY <1>1, <1>3, <1>10, <2>1, <3>1, <3>3, <1>5, <1>6, Kinds DEF Collectors
      <4>2. FromOf(c, q) = {s}
        <5>1. TokOf(c, q) \notin Collectors
          BY <2>1, <3>1, Kinds DEF Collectors
        <5> QED BY <1>2, <3>1, <3>3, <5>1, Wiring
      <4>3. s \in GettersOf(c) /\ ~Sent(s) /\ Sent(s)'
        BY <1>13, <3>1, <4>2
      <4>4. q \notin Taken(c, h)'
        BY <1>14, <2>1, <3>0, <4>1, <4>2, <4>3
      <4> QED BY <4>1, <4>2, <4>3, <4>4
    <3>4. CASE q # s /\ q # g
      <4>1. pc'[q] = pc[q]
        BY <1>6, <3>1, <3>4
      <4>2. q \in Taken(c, h)' <=> q \in Taken(c, h)
        BY <1>14, <1>15, <2>1, <3>4
      <4>3. s \notin FromOf(c, q)
        BY <1>2, <3>1, <3>4, OneReader
      <4>4. \A x \in FromOf(c, q) : Sent(x)' <=> Sent(x)
        BY <1>12, <3>1, <4>3
      <4> QED BY <3>0, <4>1, <4>2, <4>4
    <3> QED BY <3>2, <3>3, <3>4
  <2> QED BY <2>1 DEF Passed
<1>18. Fanned(c)'
  <2>1. ASSUME NEW f \in GettersOf(c), NEW h \in GettersOf(c), f \in FromOf(c, h),
               TokOf(c, f) = "fanout"
        PROVE  /\ Sent(f)' <=> put'[h] # {} \/ f \in Taken(c, h)'
               /\ ~(put'[h] # {} /\ f \in Taken(c, h)')
    <3>0. /\ Sent(f) <=> put[h] # {} \/ f \in Taken(c, h)
          /\ ~(put[h] # {} /\ f \in Taken(c, h))
          /\ Sent(f)' <=> Sent(f)
      BY <1>1, <1>12, <1>13, <2>1 DEF Fanned
    <3>1. CASE h # g
      BY <1>7, <1>14, <2>1, <3>0, <3>1 DEF Gor
    <3>2. CASE h = g
      <4>1. f = s
        <5>1. TokOf(c, h) \notin Collectors
          BY <2>1, Wiring DEF Gor, Collectors
        <5> QED BY <1>2, <2>1, <3>2, <5>1, Wiring
      <4>2. put'[h] = {} /\ put[h] # {} /\ f \in Taken(c, h)'
        BY <1>4, <1>7, <1>15, <2>1, <3>2, <4>1
      <4> QED BY <3>0, <4>2
    <3> QED BY <3>1, <3>2
  <2> QED BY <2>1 DEF Fanned
<1>19. Counted(c)'
  BY <1>1, <1>3 DEF Counted, Behind
<1> QED BY <1>2, <1>3, <1>8, <1>9, <1>10, <1>11, <1>16, <1>17, <1>18, <1>19 DEF FInv

\* A step after which the same was sent, and read, by those that have readers.
LEMMA SameReads ==
  ASSUME NEW c \in Configs, Direct(c), Passed(c), Fanned(c), put' = put,
         \A p \in PassersOf(c) : pc'[p] = pc[p],
         \A s \in GettersOf(c) : \A g \in Gor(c) : s \in FromOf(c, g) => (Sent(s)' <=> Sent(s)),
         \A g \in GettersOf(c) : Taken(c, g)' = Taken(c, g)
  PROVE  Direct(c)' /\ Passed(c)' /\ Fanned(c)'
<1>1. Direct(c)'
  BY DEF Direct, Gor
<1>2. Passed(c)'
  <2>1. ASSUME NEW p \in PassersOf(c), NEW s \in FromOf(c, p)
        PROVE  Sent(s)' <=> Sent(s)
    <3>1. p \in Gor(c) /\ s \in Gor(c)
      BY Wiring DEF Gor
    <3>2. s \in GettersOf(c)
      BY <3>1, Wiring
    <3> QED BY <3>1, <3>2
  <2> QED BY <2>1 DEF Passed
<1>3. Fanned(c)'
  BY DEF Fanned, Gor
<1> QED BY <1>1, <1>2, <1>3

LEMMA FanoutStep ==
  ASSUME NEW c \in Configs, FInv(c), NEW g \in Gor(c), NEW s, NEW m,
         fanout_xdr(g, s, m), ~panic
  PROVE  FInv(c)'
<1>1. /\ Shape(c) /\ Follows(c) /\ Passes(c) /\ Fresh(c)
      /\ Direct(c) /\ Passed(c) /\ Fanned(c) /\ Counted(c) /\ conf = c
  BY DEF FInv, Shape
<1>2. /\ Goroutines = Gor(c) /\ Tok(g) = TokOf(c, g)
      /\ \A x \in Gor(c) : From(x) = FromOf(c, x)
  BY <1>1, Known_
<1>3. /\ TokOf(c, g) = "fanout" /\ pc[g] = "read"
      /\ s \in FromOf(c, g) /\ m \in Offer(s, g)
  BY <1>2 DEF fanout_xdr
<1>4. /\ g \in GettersOf(c) /\ s \in GettersOf(c) /\ TokOf(c, s) # "fanout"
      /\ \A x \in FromOf(c, g) : x = s
  <2>1. s \in Gor(c) /\ TokOf(c, g) \notin Collectors
    BY <1>3, Wiring DEF Collectors
  <2> QED BY <1>3, <2>1, Wiring, Kinds
<1>5. /\ m.flow = seq /\ pc[s] = "send" /\ at[s] = seq /\ at[g] = seq
      /\ s # g /\ wrk = "push" /\ got[g] = <<>>
  <2>1. got[g] = <<>>
    BY <1>1, <1>3, <1>4 DEF Follows, Collectors
  <2> QED BY <1>3, <1>4, <2>1, Offered DEF Ready
<1>6. UNCHANGED <<conf, wrk, seq, countA, countB, at, got, val, panic>>
  BY DEF fanout_xdr, worker
<1>7. /\ pc' \in [Gor(c) -> {"get", "read", "fire", "send"}]
      /\ pc'[g] = "get" /\ pc'[s] = "get"
      /\ \A x \in Gor(c) : x # g /\ x # s => pc'[x] = pc[x]
  <2>1. pc' = [pc EXCEPT ![s] = "get", ![g] = "get"]
    BY DEF fanout_xdr
  <2> QED BY <1>1, <1>4, <2>1 DEF Shape, Gor
<1>8. /\ put' = [x \in Gor(c) |-> put'[x]]
      /\ \A x \in Gor(c) : put'[x] = IF g \in FromOf(c, x) THEN put[x] \cup {m} ELSE put[x]
  <2>1. put' = [x \in Gor(c) |-> IF g \in From(x) THEN put[x] \cup {m} ELSE put[x]]
    BY <1>2 DEF fanout_xdr
  <2> QED BY <1>2, <2>1
<1>9. ~Sent(g) /\ Sent(g)' /\ ~Sent(s) /\ Sent(s)'
  BY <1>3, <1>5, <1>6, <1>7 DEF Sent
<1>10. \A x \in GettersOf(c) : x # g /\ x # s => (Sent(x)' <=> Sent(x))
  BY <1>6, <1>7 DEF Sent, Gor
<1>11. \A x \in GettersOf(c) : x # g => Taken(c, x)' = Taken(c, x)
  BY <1>5, <1>6, <1>7 DEF Taken, Gor
<1>12. Taken(c, g)' = FromOf(c, g) /\ Taken(c, g) = {}
  <2>1. Taken(c, g)' = FromOf(c, g)
    BY <1>5, <1>6, <1>7 DEF Taken
  <2>2. Taken(c, g) = DOMAIN <<>>
    BY <1>3, <1>5 DEF Taken
  <2> QED BY <2>1, <2>2
<1>13. ASSUME NEW x \in Gor(c), g \in FromOf(c, x)
       PROVE  /\ x \in GettersOf(c) /\ x # g /\ put[x] = {} /\ g \notin Taken(c, x)
              /\ \A f \in FromOf(c, x) : f = g
  <2>1. TokOf(c, x) \in {"PROJECT", "log"}
    BY <1>3, <1>13, Wiring
  <2>2. x \in GettersOf(c) /\ x # g /\ TokOf(c, x) \notin Collectors
    BY <1>3, <2>1, Kinds DEF Toks, Collectors
  <2>3. put[x] = {} /\ g \notin Taken(c, x)
    BY <1>1, <1>3, <1>4, <1>9, <1>13, <2>2 DEF Fanned
  <2> QED BY <1>13, <2>2, <2>3, Wiring
<1>14. Shape(c)'
  BY <1>1, <1>6, <1>7, <1>8 DEF Shape
<1>15. Follows(c)'
  <2>1. \A x \in GettersOf(c) : pc'[x] = pc[x] \/ (pc'[x] = "get" /\ (x = g \/ x = s))
    BY <1>7 DEF Gor
  <2>2. got[s] = <<>>
    BY <1>1, <1>4, <1>5 DEF Follows
  <2> QED BY <1>1, <1>5, <1>6, <2>1, <2>2 DEF Follows
<1>16. Passes(c)'
  <2>1. \A p \in PassersOf(c) : p \in Gor(c) /\ p # g /\ p # s
    BY <1>4, Kinds DEF Gor, Toks
  <2> QED BY <1>1, <1>6, <1>7, <2>1 DEF Passes
<1>17. Fresh(c)'
  <2>1. ASSUME NEW x \in Gor(c), pc'[x] = "send" PROVE val'[x].flow = seq'
    <3>1. pc[x] = "send"
      BY <1>7, <2>1
    <3> QED BY <1>1, <1>6, <3>1 DEF Fresh
  <2>2. ASSUME NEW x \in Gor(c)
        PROVE  /\ \A n \in put'[x] : n.flow = seq' /\ put'[x] = {n}
               /\ put'[x] # {} => \E f \in FromOf(c, x) : TokOf(c, f) = "fanout"
    <3>1. CASE g \in FromOf(c, x)
      <4>1. put'[x] = {m}
        BY <1>8, <1>13, <3>1
      <4> QED BY <1>3, <1>5, <1>6, <3>1, <4>1
    <3>2. CASE g \notin FromOf(c, x)
      <4>1. put'[x] = put[x]
        BY <1>8, <3>2
      <4> QED BY <1>1, <1>6, <4>1 DEF Fresh
    <3> QED BY <3>1, <3>2
  <2> QED BY <2>1, <2>2 DEF Fresh
<1>18. Direct(c)'
  <2>1. ASSUME NEW x \in GettersOf(c), NEW h \in GettersOf(c), x \in FromOf(c, h),
               TokOf(c, x) # "fanout"
        PROVE  Sent(x)' <=> x \in Taken(c, h)'
    <3>1. CASE h = g
      BY <1>4, <1>9, <1>12, <2>1, <3>1
    <3>2. CASE h # g
      <4>1. x # s
        BY <1>3, <1>4, <2>1, <3>2, OneReader DEF Gor
      <4> QED BY <1>1, <1>3, <1>10, <1>11, <2>1, <3>2, <4>1 DEF Direct
    <3> QED BY <3>1, <3>2
  <2> QED BY <2>1 DEF Direct
<1>19. Passed(c)'
  <2>1. ASSUME NEW q \in PassersOf(c), NEW h \in GettersOf(c), q \in FromOf(c, h)
        PROVE  /\ \A x \in FromOf(c, q) : Sent(x)' <=> pc'[q] = "send" \/ q \in Taken(c, h)'
               /\ ~(pc'[q] = "send" /\ q \in Taken(c, h)')
    <3>1. q \in Gor(c) /\ q \notin GettersOf(c) /\ q # g /\ q # s
      BY <1>4, Kinds DEF Gor, Toks
    <3>2. h # g
      BY <1>4, <2>1, <3>1
    <3>3. \A x \in FromOf(c, q) : x \in GettersOf(c) /\ x # g /\ x # s
      <4>1. TAKE x \in FromOf(c, q)
      <4>2. x \in Gor(c)
        BY <3>1, Wiring
      <4>3. x \in GettersOf(c) /\ TokOf(c, x) # "fanout"
        BY <3>1, <4>2, Wiring
      <4>4. x # s
        BY <1>3, <1>4, <3>1, <4>3, OneReader DEF Gor
      <4> QED BY <1>3, <4>3, <4>4
    <3>4. pc'[q] = pc[q] /\ Taken(c, h)' = Taken(c, h)
      BY <1>7, <1>11, <3>1, <3>2
    <3> QED BY <1>1, <1>10, <2>1, <3>3, <3>4 DEF Passed
  <2> QED BY <2>1 DEF Passed
<1>20. Fanned(c)'
  <2>1. ASSUME NEW f \in GettersOf(c), NEW h \in GettersOf(c), f \in FromOf(c, h),
               TokOf(c, f) = "fanout"
        PROVE  /\ Sent(f)' <=> put'[h] # {} \/ f \in Taken(c, h)'
               /\ ~(put'[h] # {} /\ f \in Taken(c, h)')
    <3>0. h \in Gor(c)
      BY DEF Gor
    <3>1. CASE f = g
      <4>1. put'[h] = {m} /\ g \notin Taken(c, h)'
        BY <1>8, <1>11, <1>13, <2>1, <3>0, <3>1
      <4> QED BY <1>9, <3>1, <4>1
    <3>2. CASE f # g
      <4>1. f # s /\ g \notin FromOf(c, h) /\ h # g
        BY <1>4, <1>13, <2>1, <3>0, <3>2
      <4>2. put'[h] = put[h] /\ Taken(c, h)' = Taken(c, h) /\ (Sent(f)' <=> Sent(f))
        BY <1>8, <1>10, <1>11, <3>0, <3>2, <4>1
      <4> QED BY <1>1, <2>1, <4>2 DEF Fanned
    <3> QED BY <3>1, <3>2
  <2> QED BY <2>1 DEF Fanned
<1>21. Counted(c)'
  BY <1>1, <1>6 DEF Counted, Behind
<1>22. ~panic' /\ wrk' = "push"
  BY <1>5, <1>6
<1> QED BY <1>14, <1>15, <1>16, <1>17, <1>18, <1>19, <1>20, <1>21, <1>22 DEF FInv

LEMMA PushStep ==
  ASSUME NEW c \in Configs, FInv(c), NEW g \in Gor(c), push(g), ~panic
  PROVE  FInv(c)'
<1>1. /\ Shape(c) /\ Follows(c) /\ Passes(c) /\ Fresh(c)
      /\ Direct(c) /\ Passed(c) /\ Fanned(c) /\ Counted(c) /\ conf = c
  BY DEF FInv, Shape
<1>2. Tok(g) = TokOf(c, g)
  BY <1>1, Known_
<1>3. /\ wrk = "push" /\ countA > 0 /\ pc[g] = "get" /\ at[g] = seq - 1
      /\ countA' = countA - 1 /\ countB' = countB + 1
      /\ at' = [at EXCEPT ![g] = seq]
      /\ UNCHANGED <<conf, wrk, seq, got, put, panic>>
  BY DEF push, effect
<1>4. g \in GettersOf(c) /\ seq \in Nat
  BY <1>1, <1>3 DEF Passes, Gor, Shape
<1>5. /\ \A x \in Gor(c) : at'[x] = IF x = g THEN seq ELSE at[x]
      /\ at' \in [Gor(c) -> Nat]
  BY <1>1, <1>3, <1>4 DEF Shape
<1>6. /\ pc'[g] = IF TokOf(c, g) = "LEAF" THEN "send" ELSE "read"
      /\ \A x \in Gor(c) \ {g} : pc'[x] = pc[x]
      /\ pc' \in [Gor(c) -> {"get", "read", "fire", "send"}]
  <2>1. pc' = [pc EXCEPT ![g] = IF TokOf(c, g) = "LEAF" THEN "send" ELSE "read"]
    BY <1>2 DEF push
  <2> QED BY <1>1, <2>1 DEF Shape
<1>7. /\ val' = [x \in Gor(c) |-> val'[x]]
      /\ \A x \in Gor(c) \ {g} : val'[x] = val[x]
      /\ TokOf(c, g) = "LEAF" => val'[g].flow = seq
  <2>1. val = [x \in Gor(c) |-> val[x]]
    BY <1>1 DEF Shape
  <2>2. CASE TokOf(c, g) = "LEAF"
    <3>1. PICK v : val' = [val EXCEPT ![g] = [flow |-> seq, v |-> v]]
      BY <1>2, <2>2 DEF push
    <3> QED BY <2>1, <3>1
  <2>3. CASE TokOf(c, g) # "LEAF"
    BY <1>2, <2>1, <2>3 DEF push
  <2> QED BY <2>2, <2>3
<1>8. got[g] = <<>>
  BY <1>1, <1>3, <1>4 DEF Follows
<1>9. Shape(c)'
  BY <1>1, <1>3, <1>5, <1>6, <1>7 DEF Shape
<1>10. Follows(c)'
  <2>1. ASSUME NEW x \in GettersOf(c)
        PROVE  /\ at'[x] = seq' \/ (at'[x] = seq' - 1 /\ pc'[x] = "get")
               /\ TokOf(c, x) = "fanout" => pc'[x] \in {"get", "read"}
               /\ pc'[x] \in {"get", "send"} \/ TokOf(c, x) \notin Collectors => got'[x] = <<>>
               /\ DOMAIN got'[x] \subseteq FromOf(c, x)
    <3>1. CASE x = g
      BY <1>1, <1>3, <1>4, <1>5, <1>6, <1>8, <3>1 DEF Follows, Gor
    <3>2. CASE x # g
      <4>1. at'[x] = at[x] /\ pc'[x] = pc[x]
        BY <1>5, <1>6, <3>2 DEF Gor
      <4> QED BY <1>1, <1>3, <4>1 DEF Follows
    <3> QED BY <3>1, <3>2
  <2> QED BY <2>1 DEF Follows
<1>11. \A p \in PassersOf(c) : pc'[p] = pc[p]
  <2>1. \A p \in PassersOf(c) : p \in Gor(c) /\ p # g
    BY <1>4, Kinds DEF Gor, Toks
  <2> QED BY <1>6, <2>1
<1>12. Passes(c)'
  BY <1>1, <1>3, <1>11 DEF Passes
<1>13. Fresh(c)'
  BY <1>1, <1>3, <1>6, <1>7 DEF Fresh
<1>14. \A x \in GettersOf(c) : Sent(x)' <=> Sent(x)
  BY <1>3, <1>4, <1>5, <1>6 DEF Sent, Gor
<1>15. \A x \in GettersOf(c) : Taken(c, x)' = Taken(c, x)
  <2>1. Taken(c, g)' = Taken(c, g)
    <3>1. Taken(c, g) = {}
      BY <1>3, <1>4 DEF Taken
    <3>2. DOMAIN got'[g] = {}
      BY <1>3, <1>8
    <3>3. TokOf(c, g) = "LEAF" => FromOf(c, g) = {}
      BY Wiring
    <3> QED BY <1>3, <1>5, <1>6, <3>1, <3>2, <3>3 DEF Taken
  <2>2. ASSUME NEW x \in GettersOf(c), x # g PROVE Taken(c, x)' = Taken(c, x)
    BY <1>3, <1>5, <1>6, <2>2 DEF Taken, Gor
  <2> QED BY <2>1, <2>2
<1>16. Direct(c)' /\ Passed(c)' /\ Fanned(c)'
  BY <1>1, <1>3, <1>11, <1>14, <1>15, SameReads
<1>17. Counted(c)'
  <2>1. Behind(c)' = Behind(c) \ {g} /\ g \in Behind(c)
    BY <1>3, <1>4, <1>5 DEF Behind, Gor
  <2>2. IsFiniteSet(Behind(c))
    BY <1>1, Count, FS_Subset DEF Behind
  <2>3. Cardinality(Behind(c) \ {g}) = Cardinality(Behind(c)) - 1
    BY <2>1, <2>2, FS_RemoveElement
  <2> QED BY <1>1, <1>3, <2>1, <2>3 DEF Counted
<1> QED BY <1>3, <1>9, <1>10, <1>12, <1>13, <1>16, <1>17 DEF FInv

LEMMA CallStep ==
  ASSUME NEW c \in Configs, FInv(c), NEW g \in Gor(c), call(g), ~panic
  PROVE  FInv(c)'
<1>1. /\ Shape(c) /\ Follows(c) /\ Passes(c) /\ Fresh(c)
      /\ Direct(c) /\ Passed(c) /\ Fanned(c) /\ Counted(c)
  BY DEF FInv
<1>2. /\ pc[g] = "fire" /\ pc' = [pc EXCEPT ![g] = "send"]
      /\ got' = [got EXCEPT ![g] = <<>>]
      /\ UNCHANGED <<conf, wrk, seq, countA, countB, at, put, panic>>
  BY DEF call, Fire, Keep, worker
<1>3. PICK v : val' = [val EXCEPT ![g] = [flow |-> at[g], v |-> v]]
  BY DEF call, Fire, Say
<1>4. /\ g \in GettersOf(c) /\ at[g] = seq /\ wrk = "push" /\ TokOf(c, g) # "fanout"
  <2>1. g \in GettersOf(c)
    BY <1>1, <1>2 DEF Passes, Gor
  <2> QED BY <1>1, <1>2, <2>1 DEF Follows, FInv, Quiet
<1>5. /\ pc' \in [Gor(c) -> {"get", "read", "fire", "send"}] /\ pc'[g] = "send"
      /\ \A x \in Gor(c) \ {g} : pc'[x] = pc[x] /\ got'[x] = got[x] /\ val'[x] = val[x]
      /\ got' = [x \in Gor(c) |-> got'[x]] /\ got'[g] = <<>>
      /\ val' = [x \in Gor(c) |-> val'[x]] /\ val'[g].flow = seq
  <2>1. got = [x \in Gor(c) |-> got[x]] /\ val = [x \in Gor(c) |-> val[x]]
        /\ pc \in [Gor(c) -> {"get", "read", "fire", "send"}]
    BY <1>1 DEF Shape
  <2>2. got' = [x \in Gor(c) |-> got'[x]] /\ got'[g] = <<>>
    BY <1>2, <2>1
  <2>3. val' = [x \in Gor(c) |-> val'[x]] /\ val'[g].flow = seq
    BY <1>3, <1>4, <2>1
  <2> QED BY <1>2, <1>3, <2>1, <2>2, <2>3
<1>6. Shape(c)'
  BY <1>1, <1>2, <1>5 DEF Shape
<1>7. Follows(c)'
  BY <1>1, <1>2, <1>4, <1>5 DEF Follows, Gor
<1>8. \A p \in PassersOf(c) : pc'[p] = pc[p] /\ got'[p] = got[p]
  <2>1. \A p \in PassersOf(c) : p \in Gor(c) /\ p # g
    BY <1>4, Kinds DEF Gor, Toks
  <2> QED BY <1>5, <2>1
<1>9. Passes(c)'
  BY <1>1, <1>8 DEF Passes
<1>10. Fresh(c)'
  BY <1>1, <1>2, <1>5 DEF Fresh
<1>11. \A x \in GettersOf(c) : Sent(x)' <=> Sent(x)
  BY <1>2, <1>5 DEF Sent, Gor
<1>12. \A x \in GettersOf(c) : Taken(c, x)' = Taken(c, x)
  BY <1>2, <1>5 DEF Taken, Gor
<1>13. Direct(c)' /\ Passed(c)' /\ Fanned(c)'
  BY <1>1, <1>2, <1>8, <1>11, <1>12, SameReads
<1>14. Counted(c)'
  BY <1>1, <1>2 DEF Counted, Behind
<1> QED BY <1>2, <1>4, <1>6, <1>7, <1>9, <1>10, <1>13, <1>14 DEF FInv

\* When all goroutines have asked for the flow, and its detail record is there,
\* everything else was read.
LEMMA AllSent ==
  ASSUME NEW c \in Configs, FInv(c), countA = 0, pc[LogFdr] = "send"
  PROVE  /\ \A g \in GettersOf(c) : at[g] = seq /\ (pc[g] = "get" \/ g = LogFdr)
         /\ \A p \in PassersOf(c) : pc[p] = "read"
         /\ \A g \in Gor(c) : put[g] = {} /\ got[g] = <<>>
<1>1. /\ Shape(c) /\ Follows(c) /\ Passes(c) /\ Fresh(c)
      /\ Direct(c) /\ Passed(c) /\ Fanned(c) /\ Counted(c) /\ conf = c
  BY DEF FInv, Shape
<1>2. \A g \in GettersOf(c) : at[g] = seq
  <2>1. IsFiniteSet(Behind(c))
    BY <1>1, Count, FS_Subset DEF Behind
  <2>2. Behind(c) = {}
    BY <1>1, <2>1, FS_EmptySet DEF Counted
  <2> QED BY <2>2 DEF Behind
<1>3. ASSUME NEW g \in GettersOf(c), pc[g] \in {"get", "send"}
      PROVE  Taken(c, g) = FromOf(c, g)
  BY <1>2, <1>3 DEF Taken
<1>4. \A g \in Gor(c) : \A s \in FromOf(c, g) : s \in Gor(c)
  BY Wiring
<1> DEFINE D == {g \in GettersOf(c) : pc[g] = "get" \/ g = LogFdr}
           P == {p \in PassersOf(c) : pc[p] = "read" /\ \A s \in FromOf(c, p) : Sent(s)}
<1>5. LogFdr \in D
  BY Names
<1>6. ASSUME NEW g \in D, NEW s \in FromOf(c, g) PROVE s \in D \cup P
  <2>1. g \in GettersOf(c) /\ s \in Taken(c, g) /\ s \in Gor(c)
    BY <1>3, <1>4, <1>6 DEF Gor
  <2>2. CASE s \in GettersOf(c)
    <3>1. Sent(s)
      BY <1>1, <1>6, <2>1, <2>2 DEF Direct, Fanned
    <3> QED BY <2>2, <3>1 DEF Sent
  <2>3. CASE s \in PassersOf(c)
    <3>1. pc[s] # "send" /\ \A t \in FromOf(c, s) : Sent(t)
      BY <1>1, <1>6, <2>1, <2>3 DEF Passed
    <3> QED BY <1>1, <2>3, <3>1 DEF Passes
  <2> QED BY <2>1, <2>2, <2>3 DEF Gor
<1>7. ASSUME NEW p \in P, NEW s \in FromOf(c, p) PROVE s \in D \cup P
  <2>1. s \in GettersOf(c)
    BY <1>4, <1>7, Wiring DEF Gor
  <2> QED BY <1>7, <2>1 DEF Sent
<1>8. D \cup P = Gor(c)
  <2>1. D \cup P \in SUBSET Gor(c)
    BY DEF Gor
  <2>2. LogFdr \in D \cup P /\ \A g \in D \cup P : FromOf(c, g) \subseteq D \cup P
    BY <1>5, <1>6, <1>7
  <2> HIDE DEF D, P
  <2> QED BY <2>1, <2>2, AllConverge
<1>9. ASSUME NEW g \in Gor(c) PROVE g \in GettersOf(c) <=> g \notin PassersOf(c)
  BY Kinds DEF Toks, Gor
<1>10. \A g \in GettersOf(c) : pc[g] = "get" \/ g = LogFdr
  BY <1>8, <1>9 DEF Gor
<1>11. \A p \in PassersOf(c) : pc[p] = "read"
  BY <1>8, <1>9 DEF Gor
<1>12. ASSUME NEW g \in Gor(c) PROVE put[g] = {} /\ got[g] = <<>>
  <2>1. CASE g \in GettersOf(c)
    <3>1. pc[g] \in {"get", "send"}
      BY <1>10, <2>1
    <3>2. got[g] = <<>>
      BY <1>1, <2>1, <3>1 DEF Follows
    <3>3. ASSUME put[g] # {} PROVE FALSE
      <4>1. PICK f \in FromOf(c, g) : TokOf(c, f) = "fanout"
        BY <1>1, <3>3 DEF Fresh
      <4>2. f \in GettersOf(c) /\ f \in Taken(c, g)
        BY <1>3, <1>4, <2>1, <3>1, <4>1, Kinds
      <4> QED BY <1>1, <2>1, <3>3, <4>1, <4>2 DEF Fanned
    <3> QED BY <3>2, <3>3
  <2>2. CASE g \in PassersOf(c)
    <3>1. ASSUME put[g] # {} PROVE FALSE
      <4>1. PICK f \in FromOf(c, g) : TokOf(c, f) = "fanout"
        BY <1>1, <3>1 DEF Fresh
      <4>2. f \in Gor(c)
        BY <1>4, <4>1
      <4> QED BY <2>2, <4>1, <4>2, Wiring
    <3> QED BY <1>1, <2>2, <3>1 DEF Passes
  <2> QED BY <2>1, <2>2 DEF Gor
<1> QED BY <1>2, <1>10, <1>11, <1>12

LEMMA ResolveStep ==
  ASSUME NEW c \in Configs, FInv(c), resolve, ~panic
  PROVE  FInv(c)'
<1>1. /\ Shape(c) /\ Follows(c) /\ Passes(c) /\ Fresh(c)
      /\ Direct(c) /\ Passed(c) /\ Fanned(c) /\ Counted(c)
  BY DEF FInv
<1>2. /\ countA = 0 /\ pc[LogFdr] = "send" /\ pc' = [pc EXCEPT ![LogFdr] = "get"]
      /\ panic' = (val[LogFdr].flow # seq)
      /\ UNCHANGED <<conf, seq, countA, countB, at, got, val, put>>
  BY DEF resolve
<1>3. LogFdr \in GettersOf(c) /\ LogFdr \in Gor(c)
  BY Names DEF Gor
<1>4. /\ \A g \in GettersOf(c) : at[g] = seq /\ (pc[g] = "get" \/ g = LogFdr)
      /\ \A p \in PassersOf(c) : pc[p] = "read"
      /\ \A g \in Gor(c) : put[g] = {} /\ got[g] = <<>>
  BY <1>2, AllSent
<1>5. /\ pc' \in [Gor(c) -> {"get", "read", "fire", "send"}] /\ pc'[LogFdr] = "get"
      /\ \A g \in Gor(c) \ {LogFdr} : pc'[g] = pc[g]
  BY <1>1, <1>2, <1>3 DEF Shape
<1>6. ~panic'
  BY <1>1, <1>2, <1>3 DEF Fresh
<1>7. Shape(c)'
  BY <1>1, <1>2, <1>5 DEF Shape
<1>8. Follows(c)'
  BY <1>1, <1>2, <1>4, <1>5 DEF Follows, Gor
<1>9. \A p \in PassersOf(c) : pc'[p] = pc[p]
  <2>1. \A p \in PassersOf(c) : p \in Gor(c) /\ p # LogFdr
    BY <1>3, Kinds DEF Gor, Toks
  <2> QED BY <1>5, <2>1
<1>10. Passes(c)'
  BY <1>1, <1>2, <1>9 DEF Passes
<1>11. Fresh(c)'
  BY <1>1, <1>2, <1>5 DEF Fresh
<1>12. \A s \in GettersOf(c) : \A g \in Gor(c) : s \in FromOf(c, g) => (Sent(s)' <=> Sent(s))
  <2>1. ASSUME NEW s \in GettersOf(c), NEW g \in Gor(c), s \in FromOf(c, g)
        PROVE  Sent(s)' <=> Sent(s)
    <3>1. s # LogFdr /\ s \in Gor(c)
      BY <2>1, Wiring DEF Gor
    <3> QED BY <1>2, <1>5, <3>1 DEF Sent
  <2> QED BY <2>1
<1>13. \A g \in GettersOf(c) : Taken(c, g)' = Taken(c, g)
  BY <1>2, <1>5 DEF Taken, Gor
<1>14. Direct(c)' /\ Passed(c)' /\ Fanned(c)'
  BY <1>1, <1>2, <1>9, <1>12, <1>13, SameReads
<1>15. Counted(c)'
  BY <1>1, <1>2 DEF Counted, Behind
<1>16. Quiet(c)'
  BY <1>2, <1>4, <1>5, <1>9 DEF Quiet, Gor
<1> QED BY <1>6, <1>7, <1>8, <1>10, <1>11, <1>14, <1>15, <1>16 DEF FInv

LEMMA BrrStep ==
  ASSUME NEW c \in Configs, FInv(c), brr, ~panic
  PROVE  FInv(c)'
<1>1. Shape(c) /\ Follows(c) /\ Passes(c) /\ Counted(c) /\ Quiet(c) /\ conf = c
  BY DEF FInv, brr, Shape
<1>2. /\ wrk' = "push" /\ seq' = seq + 1 /\ countA' = countB /\ countB' = 0
      /\ UNCHANGED <<conf, at, pc, got, val, put, panic>>
  BY DEF brr
<1>3. seq \in Nat
  BY <1>1 DEF Shape
<1>4. /\ \A g \in GettersOf(c) : at'[g] = seq' - 1 /\ at'[g] # seq' /\ pc'[g] = "get"
      /\ \A p \in PassersOf(c) : pc'[p] = "read"
      /\ \A g \in Gor(c) : put'[g] = {} /\ got'[g] = <<>>
  BY <1>1, <1>2, <1>3 DEF Quiet
<1>5. Shape(c)'
  BY <1>1, <1>2 DEF Shape
<1>6. Follows(c)' /\ Passes(c)'
  BY <1>1, <1>2, <1>4 DEF Follows, Passes, Gor
<1>7. Fresh(c)'
  BY <1>4 DEF Fresh, Gor
<1>8. \A g \in GettersOf(c) : ~Sent(g)' /\ Taken(c, g)' = {}
  BY <1>4 DEF Sent, Taken
<1>9. Direct(c)'
  BY <1>8 DEF Direct
<1>10. Fanned(c)'
  BY <1>4, <1>8 DEF Fanned, Gor
<1>11. Passed(c)'
  <2>1. \A p \in PassersOf(c) : \A s \in FromOf(c, p) : ~Sent(s)'
    <3>1. ASSUME NEW p \in PassersOf(c), NEW s \in FromOf(c, p) PROVE ~Sent(s)'
      <4>1. p \in Gor(c) /\ s \in Gor(c)
        BY Wiring DEF Gor
      <4>2. s \in GettersOf(c)
        BY <4>1, Wiring
      <4> QED BY <1>8, <4>2
    <3> QED BY <3>1
  <2> QED BY <1>4, <1>8, <2>1 DEF Passed
<1>12. Counted(c)'
  <2>1. Behind(c) = {} /\ Behind(c)' = GettersOf(c)
    BY <1>1, <1>4 DEF Behind, Quiet
  <2>2. Cardinality(Behind(c)) = 0
    BY <2>1, FS_EmptySet
  <2>3. countB = Cardinality(GettersOf(c)) /\ countB \in Nat
    BY <1>1, <2>2, Count DEF Counted
  <2> QED BY <1>2, <2>1, <2>3 DEF Counted
<1> QED BY <1>2, <1>5, <1>6, <1>7, <1>9, <1>10, <1>11, <1>12 DEF FInv, brr

LEMMA StutterStep ==
  ASSUME NEW c \in Configs, FInv(c), brr_panic \/ UNCHANGED vars
  PROVE  FInv(c)'
<1>1. /\ UNCHANGED <<conf, seq, countA, countB, at, pc, got, val, put, panic>>
      /\ wrk' = wrk \/ wrk = "idle"
  BY DEF brr_panic, vars, worker
<1>2. Shape(c)' /\ Follows(c)' /\ Passes(c)' /\ Fresh(c)'
  BY <1>1 DEF FInv, Shape, Follows, Passes, Fresh
<1>3. Direct(c)' /\ Passed(c)' /\ Fanned(c)'
  <2>1. /\ \A s \in GettersOf(c) : Sent(s)' <=> Sent(s)
        /\ \A g \in GettersOf(c) : Taken(c, g)' = Taken(c, g)
    BY <1>1 DEF Sent, Taken
  <2> QED BY <1>1, <2>1, SameReads DEF FInv
<1> QED BY <1>1, <1>2, <1>3 DEF FInv, Counted, Behind, Quiet

-----------------------------------------------------------------------------
(* The theorems.                                                             *)

InStep == \E c \in Configs : FInv(c)

LEMMA InitInStep == Init => InStep
<1> SUFFICES ASSUME Init PROVE InStep
  OBVIOUS
<1>1. PICK k \in Configs : conf = k
  BY DEF Init
<1>2. /\ Goroutines = Gor(k) /\ Getters = GettersOf(k)
      /\ wrk = "idle" /\ seq = 0 /\ countA = 0 /\ countB = ConfluentCount /\ ~panic
  BY <1>1, Known_ DEF Init
<1>3. /\ at = [g \in Gor(k) |-> 0]
      /\ pc = [g \in Gor(k) |-> IF g \in GettersOf(k) THEN "get" ELSE "read"]
      /\ got = [g \in Gor(k) |-> <<>>] /\ put = [g \in Gor(k) |-> {}]
      /\ val = [g \in Gor(k) |-> val[g]]
  <2>1. pc = [g \in Goroutines |-> Rest(g)]
    BY DEF Init
  <2> QED BY <1>2, <2>1 DEF Init, Rest
<1>4. Quiet(k)
  <2>1. \A p \in PassersOf(k) : p \in Gor(k) /\ p \notin GettersOf(k)
    BY Kinds DEF Gor, Toks
  <2> QED BY <1>2, <1>3, <2>1 DEF Quiet, Gor
<1>5. Shape(k)
  BY <1>1, <1>2, <1>3 DEF Shape
<1>6. Follows(k) /\ Passes(k) /\ Fresh(k)
  <2>1. \A g \in GettersOf(k) : DOMAIN got[g] = {}
    BY <1>4 DEF Quiet, Gor
  <2>2. Follows(k)
    BY <1>4, <2>1 DEF Quiet, Follows, Gor
  <2> QED BY <1>4, <2>2 DEF Quiet, Passes, Fresh, Gor
<1>7. \A g \in GettersOf(k) : Sent(g) /\ Taken(k, g) = FromOf(k, g)
  BY <1>4 DEF Quiet, Sent, Taken
<1>8. Direct(k) /\ Fanned(k)
  BY <1>4, <1>7 DEF Direct, Fanned, Quiet, Gor
<1>9. Passed(k)
  <2>1. ASSUME NEW p \in PassersOf(k), NEW s \in FromOf(k, p) PROVE Sent(s)
    <3>1. p \in Gor(k) /\ s \in Gor(k)
      BY Wiring DEF Gor
    <3>2. s \in GettersOf(k)
      BY <3>1, Wiring
    <3> QED BY <1>7, <3>2
  <2> QED BY <1>4, <1>7, <2>1 DEF Passed, Quiet
<1>10. Counted(k)
  <2>1. Behind(k) = {}
    BY <1>4 DEF Behind, Quiet
  <2>2. Cardinality(Behind(k)) = 0
    BY <2>1, FS_EmptySet
  <2> QED BY <1>1, <1>2, <2>2, Count DEF Counted
<1> QED BY <1>2, <1>4, <1>5, <1>6, <1>8, <1>9, <1>10 DEF InStep, FInv

LEMMA StepInStep == InStep /\ [Next]_vars => InStep'
<1> SUFFICES ASSUME InStep, [Next]_vars PROVE InStep'
  OBVIOUS
<1>1. PICK c \in Configs : FInv(c)
  BY DEF InStep
<1>2. conf = c
  BY <1>1 DEF FInv, Shape
<1>3. ASSUME NEW g \in Goroutines, Step(g), ~panic PROVE FInv(c)'
  <2>1. g \in Gor(c)
    BY <1>2, <1>3, Known_
  <2>2. CASE push(g)
    BY <1>1, <1>3, <2>1, <2>2, PushStep
  <2>3. CASE call(g)
    BY <1>1, <1>3, <2>1, <2>3, CallStep
  <2>4. ASSUME NEW s, NEW m, ReadAction(g, s, m) PROVE FInv(c)'
    BY <1>1, <1>3, <2>1, <2>4, ActionsRead, ReadStep
  <2>5. ASSUME NEW s, NEW m, fanout_xdr(g, s, m) PROVE FInv(c)'
    BY <1>1, <1>3, <2>1, <2>5, FanoutStep
  <2> QED BY <1>3, <2>2, <2>3, <2>4, <2>5 DEF Step, ReadAction
<1>4. ASSUME resolve, ~panic PROVE FInv(c)'
  BY <1>1, <1>4, ResolveStep
<1>5. ASSUME brr, ~panic PROVE FInv(c)'
  BY <1>1, <1>5, BrrStep
<1>6. ASSUME brr_panic \/ UNCHANGED vars PROVE FInv(c)'
  BY <1>1, <1>6, StutterStep
<1>7. FInv(c)'
  BY <1>3, <1>4, <1>5, <1>6 DEF Next, Go, Alive
<1> QED BY <1>7 DEF InStep

\* In every reachable state the network is in step.
THEOREM StaysInStep == Spec => []InStep
BY InitInStep, StepInStep, PTL DEF Spec

\* The sanity tests of flow.go and server.go never fail, whatever the rules and
\* however the goroutines interleave: no goroutine reads a value twice in a flow,
\* and none reads a value of another flow.
THEOREM NeverPanics == Spec => []NoPanic
<1>1. InStep => NoPanic
  BY DEF InStep, FInv, NoPanic
<1> QED BY <1>1, StaysInStep, PTL

\* When log_fdr() has the detail record of a flow and every goroutine has asked
\* for the flow, which is all that a worker waits for, then no goroutine has work
\* of the flow left, whatever the rules.
THEOREM FlowsConverge == Spec => []Converged
<1>1. InStep => Converged
  <2> SUFFICES ASSUME InStep, Resolved PROVE \A g \in Goroutines :
        /\ pc[g] = Rest(g) /\ got[g] = <<>> /\ put[g] = {}
        /\ g \in Getters => at[g] = seq
    BY DEF Converged
  <2>1. PICK c \in Configs : FInv(c)
    BY DEF InStep
  <2>2. Quiet(c) /\ conf = c
    BY <2>1 DEF FInv, Shape, Resolved
  <2>3. Getters = GettersOf(c) /\ Goroutines = Gor(c)
    BY <2>2, Known_
  <2> QED BY <2>2, <2>3 DEF Quiet, Rest, Gor
<1> QED BY <1>1, StaysInStep, PTL

-----------------------------------------------------------------------------
(* What the goroutines say.                                                  *)

\* The goroutine whose value s sends on, or s itself.
Source(s) == IF s[1] \in {"fanout", "log", "merge", "io"} THEN Op(s[2]) ELSE s

\* Nodes with a value of the rules, and what a detail record can be.
Valued == Toks \ {"CALL", "WHEN"}
Details == {"null", "nil", "OK", "ERR"}

\* What children a node has.
LEMMA Kids ==
  ASSUME NEW c \in Configs, NEW a \in DOMAIN c.tok
  PROVE  /\ c.tok[a] \in {"NOT", "LOADED", "WHEN"} =>
              Under(c, c.kid[a][1], a) /\ c.kid[a][1] \in DOMAIN c.tok
         /\ c.tok[a] \in {"AND", "OR", "CALL"} =>
              /\ Under(c, c.kid[a][1], a) /\ c.kid[a][1] \in DOMAIN c.tok
              /\ Under(c, c.kid[a][2], a) /\ c.kid[a][2] \in DOMAIN c.tok
         /\ c.tok[a] = "PROJECT" => c.ref[a] \in Nodes(c, "CALL") /\ c.ref[a] \in DOMAIN c.tok
         /\ \A k : Under(c, k, a) => /\ k \in DOMAIN c.tok /\ c.tok[k] # "CALL"
                                     /\ c.tok[k] = "WHEN" => c.tok[a] = "CALL"
<1>1. WellFormed(c) /\ c.kid[a] \in Seq(DOMAIN c.tok)
  BY Configuration
<1>2. DOMAIN c.kid[a] = 1..Len(c.kid[a]) /\ Len(c.kid[a]) \in Nat
  BY <1>1, LenProperties
<1>3. \A k : Under(c, k, a) => /\ k \in DOMAIN c.tok /\ c.tok[k] # "CALL"
                               /\ c.tok[k] = "WHEN" => c.tok[a] = "CALL"
  BY <1>1, Configuration DEF WellFormed
<1>4. ASSUME c.tok[a] \in {"NOT", "LOADED", "WHEN"} PROVE Under(c, c.kid[a][1], a)
  <2>1. Len(c.kid[a]) = 1
    BY <1>1, <1>4 DEF WellFormed
  <2> QED BY <1>2, <2>1 DEF Under
<1>5. ASSUME c.tok[a] \in {"AND", "OR", "CALL"}
      PROVE  Under(c, c.kid[a][1], a) /\ Under(c, c.kid[a][2], a)
  <2>1. Len(c.kid[a]) = 2
    BY <1>1, <1>5 DEF WellFormed
  <2> QED BY <1>2, <2>1 DEF Under
<1>6. ASSUME c.tok[a] = "PROJECT"
      PROVE c.ref[a] \in Nodes(c, "CALL") /\ c.ref[a] \in DOMAIN c.tok
  BY <1>1, <1>6 DEF WellFormed, Nodes
<1> QED BY <1>3, <1>4, <1>5, <1>6

\* The channel of a node is that of a node with a value.
LEMMA Outs ==
  ASSUME NEW c \in Configs, NEW a \in DOMAIN c.tok
  PROVE  /\ c.tok[a] # "WHEN" => OutOf(c, a) = Op(a)
         /\ c.tok[a] = "WHEN" => OutOf(c, a) = Op(c.kid[a][1])
         /\ OutOf(c, a) \in GettersOf(c) /\ Source(OutOf(c, a)) = OutOf(c, a)
         /\ c.tok[a] # "CALL" => TokOf(c, OutOf(c, a)) \in Valued
         /\ c.tok[a] = "CALL" => TokOf(c, OutOf(c, a)) = "CALL"
<1>1. c.tok[a] # "WHEN" => OutOf(c, a) = Op(a)
  BY DEF OutOf
<1>2. c.tok[a] = "WHEN" => OutOf(c, a) = Op(c.kid[a][1])
  BY DEF OutOf
<1>3. \A k : Source(Op(k)) = Op(k)
  BY DEF Source, Op
<1>4. CASE c.tok[a] # "WHEN"
  BY <1>1, <1>3, <1>4, Names, Configuration DEF Valued
<1>5. CASE c.tok[a] = "WHEN"
  <2>1. Under(c, c.kid[a][1], a) /\ c.kid[a][1] \in DOMAIN c.tok
    BY <1>5, Kids
  <2>2. c.tok[c.kid[a][1]] \notin {"CALL", "WHEN"} /\ c.tok[c.kid[a][1]] \in Toks
    BY <1>5, <2>1, Kids, Configuration
  <2> QED BY <1>2, <1>3, <1>5, <2>1, <2>2, Names DEF Valued
<1> QED BY <1>1, <1>2, <1>4, <1>5

LEMMA Sources ==
  ASSUME NEW c \in Configs, NEW s \in Gor(c)
  PROVE  /\ Source(s) \in GettersOf(c)
         /\ TokOf(c, s) \in Toks \cup {"reduce", "log_fdr"} => Source(s) = s
         /\ TokOf(c, s) \in {"fanout", "log", "merge"} => TokOf(c, Source(s)) = "CALL"
         /\ TokOf(c, s) = "io" => TokOf(c, Source(s)) \in Valued
         /\ TokOf(c, s) \in {"fanout", "log", "merge", "io"} => Source(s) = Op(s[2])
<1>1. CASE TokOf(c, s) \in Toks
  BY <1>1, Kinds DEF Source, Op, Toks
<1>2. CASE TokOf(c, s) \in {"reduce", "log_fdr"}
  BY <1>2, Names, Kinds DEF Source, Reduce, LogFdr
<1>3. CASE TokOf(c, s) \in {"fanout", "log", "merge"}
  <2>1. PICK a \in Nodes(c, "CALL") : s \in {Fanout(a), <<"log", a>>, <<"merge", a>>}
    BY <1>3, Kinds
  <2>2. Source(s) = Op(a) /\ s[2] = a
    BY <2>1 DEF Source, Fanout
  <2>3. Op(a) \in GettersOf(c) /\ TokOf(c, Op(a)) = "CALL"
    BY Names DEF Nodes
  <2> QED BY <1>3, <2>2, <2>3 DEF Toks
<1>4. CASE TokOf(c, s) = "io"
  <2>1. PICK k, b \in DOMAIN c.tok : s = <<"io", k>> /\ c.tok[b] = "ARGV" /\ Under(c, k, b)
    BY <1>4, Kinds
  <2>2. c.tok[k] \notin {"CALL", "WHEN"} /\ c.tok[k] \in Toks
    BY <2>1, Kids, Configuration
  <2>3. Source(s) = Op(k) /\ s[2] = k
    BY <2>1 DEF Source
  <2>4. Op(k) \in GettersOf(c) /\ TokOf(c, Op(k)) \in Valued
    BY <2>2, Names DEF Valued
  <2> QED BY <1>4, <2>3, <2>4 DEF Toks
<1> QED BY <1>1, <1>2, <1>3, <1>4, Kinds DEF Lower, Toks

\* What a goroutine reads.
LEMMA Feeds ==
  ASSUME NEW c \in Configs, NEW g \in Gor(c), NEW s \in FromOf(c, g)
  PROVE  /\ s \in Gor(c)
         /\ TokOf(c, g) \in {"NOT", "LOADED", "AND", "OR", "CALL", "ARGV", "io"} =>
              TokOf(c, Source(s)) \in Valued
         /\ TokOf(c, g) \in {"PROJECT", "fanout", "log", "merge", "reduce"} =>
              TokOf(c, Source(s)) = "CALL"
         /\ TokOf(c, g) \in {"log", "merge", "io"} => Source(s) = Source(g)
         /\ TokOf(c, g) = "reduce" => \E b \in Nodes(c, "CALL") : s = <<"merge", b>>
         /\ TokOf(c, g) = "log_fdr" => s = Reduce
         /\ TokOf(c, g) = "ARGV" => \E k : Under(c, k, g[2]) /\ s = <<"io", k>>
<1>1. s \in Gor(c) /\ Sends(c, s, g)
  BY Wiring DEF FromOf
<1>2. CASE TokOf(c, g) \in {"NOT", "LOADED", "AND", "OR", "CALL"}
  <2>1. PICK a \in DOMAIN c.tok : g = Op(a) /\ c.tok[a] = TokOf(c, g)
    BY <1>2, Kinds DEF Toks
  <2>2. PICK k \in DOMAIN c.tok : Under(c, k, a) /\ s = OutOf(c, k)
    BY <1>1, <1>2, <2>1 DEF Sends, Op
  <2>3. c.tok[k] # "CALL"
    BY <2>2, Kids
  <2> QED BY <1>1, <1>2, <2>2, <2>3, Outs
<1>3. CASE TokOf(c, g) = "ARGV"
  <2>1. \E k : Under(c, k, g[2]) /\ s = <<"io", k>>
    BY <1>1, <1>3 DEF Sends
  <2>2. TokOf(c, s) = "io"
    BY <2>1 DEF TokOf
  <2> QED BY <1>1, <1>3, <2>1, <2>2, Sources
<1>4. CASE TokOf(c, g) = "io"
  <2>1. s = Op(g[2]) /\ Source(g) = Op(g[2]) /\ TokOf(c, Source(g)) \in Valued
    BY <1>1, <1>4, Sources DEF Sends
  <2> QED BY <1>1, <1>4, <2>1 DEF Source, Op
<1>5. CASE TokOf(c, g) \in {"fanout", "log", "merge"}
  <2>1. s \in {Op(g[2]), Fanout(g[2]), <<"log", g[2]>>}
    BY <1>1, <1>5 DEF Sends
  <2>2. Source(s) = Op(g[2])
    BY <2>1 DEF Source, Op, Fanout
  <2> QED BY <1>1, <1>5, <2>2, Sources
<1>6. CASE TokOf(c, g) = "PROJECT"
  <2>1. TokOf(c, s) = "fanout"
    BY <1>1, <1>6 DEF Sends, TokOf, Fanout
  <2> QED BY <1>1, <1>6, <2>1, Sources
<1>7. CASE TokOf(c, g) = "reduce"
  <2>1. PICK b \in Nodes(c, "CALL") : s = <<"merge", b>>
    BY <1>1, <1>7 DEF Sends
  <2> QED BY <1>1, <1>7, <2>1, Sources DEF TokOf
<1>8. CASE TokOf(c, g) = "log_fdr"
  BY <1>1, <1>8 DEF Sends
<1>9. CASE TokOf(c, g) = "LEAF"
  BY <1>9, Wiring
<1>10. CASE TokOf(c, g) = "WHEN"
  BY <1>10, Kinds DEF Toks
<1> QED BY <1>2, <1>3, <1>4, <1>5, <1>6, <1>7, <1>8, <1>9, <1>10, Kinds DEF Toks, Lower

\* How a node gets the values it needs.
LEMMA NodesRead ==
  ASSUME NEW c \in Configs, NEW a \in DOMAIN c.tok, c.tok[a] # "WHEN"
  PROVE  /\ c.tok[a] \in {"NOT", "LOADED", "AND", "OR", "CALL"} =>
              \A k : Under(c, k, a) => OutOf(c, k) \in FromOf(c, Op(a))
         /\ c.tok[a] = "ARGV" => \A k : Under(c, k, a) =>
              <<"io", k>> \in FromOf(c, Op(a)) /\ Source(<<"io", k>>) = OutOf(c, k)
         /\ c.tok[a] = "PROJECT" =>
              /\ Fanout(c.ref[a]) \in FromOf(c, Op(a))
              /\ Source(Fanout(c.ref[a])) = OutOf(c, c.ref[a])
         /\ \A b \in DOMAIN c.tok : Needs(c, a, b) =>
              \E s \in FromOf(c, Op(a)) : Source(s) = OutOf(c, b)
<1>1. Op(a) \in GettersOf(c) /\ TokOf(c, Op(a)) = c.tok[a] /\ Op(a)[2] = a
  BY Names DEF Op
<1>2. ASSUME c.tok[a] \in {"NOT", "LOADED", "AND", "OR", "CALL"}, NEW k, Under(c, k, a)
      PROVE  OutOf(c, k) \in FromOf(c, Op(a)) /\ Source(OutOf(c, k)) = OutOf(c, k)
  <2>1. k \in DOMAIN c.tok
    BY <1>2, Kids
  <2> QED BY <1>1, <1>2, <2>1, Outs DEF FromOf, Sends
<1>3. ASSUME c.tok[a] = "ARGV", NEW k, Under(c, k, a)
      PROVE  <<"io", k>> \in FromOf(c, Op(a)) /\ Source(<<"io", k>>) = OutOf(c, k)
  <2>1. k \in DOMAIN c.tok /\ c.tok[k] # "WHEN"
    BY <1>3, Kids
  <2>2. <<"io", k>> \in PassersOf(c)
    BY <1>3, Names
  <2>3. Source(<<"io", k>>) = OutOf(c, k)
    BY <2>1, Outs DEF Source
  <2> QED BY <1>1, <1>3, <2>1, <2>2, <2>3 DEF FromOf, Sends
<1>4. ASSUME c.tok[a] = "PROJECT"
      PROVE  /\ Fanout(c.ref[a]) \in FromOf(c, Op(a))
             /\ Source(Fanout(c.ref[a])) = OutOf(c, c.ref[a])
  <2>1. c.ref[a] \in Nodes(c, "CALL")
    BY <1>4, Kids
  <2>2. Source(Fanout(c.ref[a])) = OutOf(c, c.ref[a])
    BY <2>1, Outs DEF Source, Fanout, Nodes
  <2> QED BY <1>1, <1>4, <2>1, <2>2, Names DEF FromOf, Sends
<1>5. ASSUME NEW b \in DOMAIN c.tok, Needs(c, a, b)
      PROVE  \E s \in FromOf(c, Op(a)) : Source(s) = OutOf(c, b)
  <2>1. CASE c.tok[a] = "PROJECT" /\ b = c.ref[a]
    BY <1>4, <2>1
  <2>2. CASE Under(c, b, a)
    <3>1. c.tok[a] \notin {"LEAF", "PROJECT"}
      <4>1. c.tok[a] \in {"LEAF", "PROJECT"} => c.kid[a] = <<>>
        BY Configuration DEF WellFormed
      <4> QED BY <2>2, <4>1 DEF Under
    <3>2. c.tok[a] \in {"NOT", "LOADED", "AND", "OR", "CALL", "ARGV"}
      BY <3>1, Configuration DEF Toks
    <3> QED BY <1>2, <1>3, <2>2, <3>2
  <2> QED BY <1>5, <2>1, <2>2 DEF Needs
<1> QED BY <1>2, <1>3, <1>4, <1>5

\* x has its value of the current flow.
Done(x) == seq > 0 /\ at[x] = seq /\ pc[x] \in {"get", "send"}

\* What a goroutine says.
Says(c, x) ==
  IF TokOf(c, x) \in Valued \cup {"io"} THEN Known
  ELSE IF TokOf(c, x) \in {"reduce", "log_fdr"} THEN {"null", "fdr"}
  ELSE Details

\* What was read or is on its way is the value of its source.
Carried(c) ==
  /\ \A g \in GettersOf(c) : \A s \in DOMAIN got[g] :
       got[g][s] = val[Source(s)] /\ Done(Source(s))
  /\ \A g \in Gor(c) : \A f \in FromOf(c, g) : \A m \in put[g] :
       m = val[Source(f)] /\ Done(Source(f))
  /\ \A s \in Gor(c) : TokOf(c, s) \in {"log", "merge", "io"} /\ pc[s] = "send" =>
       val[s] = val[Source(s)] /\ Done(Source(s))

\* A value is made of those of the sources.
Fed(c) ==
  /\ \A g \in GettersOf(c) : Source(g) = g /\ Done(g) =>
       \A s \in FromOf(c, g) : Done(Source(s))
  /\ \A g \in GettersOf(c) : pc[g] = "fire" =>
       TokOf(c, g) = "CALL" /\ DOMAIN got[g] = FromOf(c, g)

\* What is known of a record.
Record(c) == [Nodes(c, "LEAF") \cup Nodes(c, "PROJECT") \cup Nodes(c, "CALL") ->
                {"?", "null", "false", "true", "OK", "ERR"}]

\* A projection is null until what it projects has run.
Projects(c, w) == \A a \in Nodes(c, "PROJECT") : w[a] \in Known

Typed(c) ==
  /\ seq \in 0..MaxFlows[c] /\ wrk \in {"idle", "push", "dead"} /\ (wrk = "push" => seq > 0)
  /\ \A x \in Gor(c) : val[x] \in [flow : 0..seq, v : Says(c, x)]
  /\ \A p \in PassersOf(c) : at[p] = 0
  /\ world \in Seq(Record(c)) /\ Len(world) = seq
  /\ \A f \in 1..seq : Projects(c, world[f])
  /\ mapx \in SUBSET ({c.ref[a] : a \in Nodes(c, "LOADED")} \X Known)

\* A command that was run has its result as value.
Ran(c) ==
  /\ runs = [a \in Nodes(c, "CALL") |-> runs[a]]
  /\ \A a \in Nodes(c, "CALL") :
       runs[a] = IF Done(Op(a)) /\ val[Op(a)].v \in {"OK", "ERR"} THEN 1 ELSE 0

Ending(c, v) == {a \in Nodes(c, "CALL") : val[Op(a)].v = v}

\* The detail record counts the results.
Summed(c) ==
  /\ fdr \in [ok : 0..Cardinality(Nodes(c, "CALL")), fault : 0..Cardinality(Nodes(c, "CALL"))]
  /\ Done(Reduce) =>
       fdr = [ok |-> Cardinality(Ending(c, "OK")), fault |-> Cardinality(Ending(c, "ERR"))]

KInv(c) == Carried(c) /\ Fed(c) /\ Typed(c) /\ Ran(c) /\ Summed(c)

-----------------------------------------------------------------------------
(* What a goroutine makes of what it reads.                                  *)

\* The value that g makes of those of its sources, and of what the sync map holds.
Makes(c, g, v) ==
  LET of(s) == val[Source(s)].v
      side(i) == val[OutOf(c, c.kid[g[2]][i])].v
      tok == TokOf(c, g) IN
  /\ tok = "NOT" => \A s \in FromOf(c, g) : v = Mapped("NOT", of(s))
  /\ tok = "PROJECT" => \A s \in FromOf(c, g) : v = Status(of(s), world[seq][g[2]])
  /\ tok = "LOADED" =>
       \A s \in FromOf(c, g) : v = IF <<c.ref[g[2]], of(s)>> \in mapx THEN "true" ELSE "false"
  /\ tok = "AND" => v = SqlAnd(side(1), side(2))
  /\ tok = "OR" => v = SqlOr(side(1), side(2))
  /\ tok = "ARGV" =>
       v = IF \E s \in FromOf(c, g) : of(s) = "null" THEN "null" ELSE "true"
  /\ tok = "reduce" => v = "fdr"
  /\ tok \in {"log", "merge", "io", "log_fdr"} => \A s \in FromOf(c, g) : v = of(s)

\* The values that rules are made of.
LEMMA MappedValues ==
  /\ \A v \in Known : Mapped("NOT", v) \in Known /\ Mapped("WHEN", v) = v
  /\ \A v, x : x \in Known => Status(v, x) \in Known
<1>1. ASSUME NEW v \in Known PROVE Mapped("NOT", v) \in Known /\ Mapped("WHEN", v) = v
  <2>1. Mapped("WHEN", v) = v
    BY Zenon DEF Mapped
  <2>2. CASE v = "null"
    <3>1. Mapped("NOT", "null") = "null"
      BY Zenon DEF Mapped
    <3> QED BY <2>1, <2>2, <3>1
  <2>3. CASE v = "false"
    <3>1. Mapped("NOT", "false") = "true"
      BY Zenon DEF Mapped
    <3> QED BY <2>1, <2>3, <3>1 DEF Known
  <2>4. CASE v = "true"
    <3>1. Mapped("NOT", "true") = "false"
      BY Zenon DEF Mapped
    <3> QED BY <2>1, <2>4, <3>1 DEF Known
  <2> QED BY <2>2, <2>3, <2>4 DEF Known
<1>2. ASSUME NEW v, NEW x \in Known PROVE Status(v, x) \in Known
  BY DEF Status, Known
<1> QED BY <1>1, <1>2

LEMMA SqlValues ==
  ASSUME NEW l \in Known, NEW r \in Known
  PROVE  SqlAnd(l, r) \in Known /\ SqlOr(l, r) \in Known
BY DEF Known, SqlAnd, SqlOr

\* wait_bool2() has the value when both sides are in, or had it before.
LEMMA Decided ==
  ASSUME NEW l \in Known, NEW r \in Known,
         NEW x \in {l, "wait"}, NEW y \in {r, "wait"}
  PROVE  /\ and[x][y] # "wait" => and[x][y] = SqlAnd(l, r)
         /\ or[x][y] # "wait" => or[x][y] = SqlOr(l, r)
         /\ x = l /\ y = r => and[x][y] = SqlAnd(l, r) /\ or[x][y] = SqlOr(l, r)
<1>1. and["wait"]["wait"] = "wait" /\ or["wait"]["wait"] = "wait"
  BY DEF and, or
<1>2. /\ and[l]["wait"] # "wait" => and[l]["wait"] = and[l][r]
      /\ and["wait"][r] # "wait" => and["wait"][r] = and[l][r]
      /\ or[l]["wait"] # "wait" => or[l]["wait"] = or[l][r]
      /\ or["wait"][r] # "wait" => or["wait"][r] = or[l][r]
  BY EarlyIsFinal
<1>3. and[l][r] = SqlAnd(l, r) /\ or[l][r] = SqlOr(l, r)
  BY TablesAreSql
<1> QED BY <1>1, <1>2, <1>3

\* Both sides of an operator, known or waited for.
LEMMA LogicIs ==
  ASSUME NEW c \in Configs, conf = c, NEW g \in Gor(c), TokOf(c, g) \in {"AND", "OR"},
         \A x \in Gor(c) : val[x].v \in Says(c, x),
         NEW h, \A t \in DOMAIN h : h[t] = val[Source(t)]
  PROVE  LET l == val[OutOf(c, c.kid[g[2]][1])].v
             r == val[OutOf(c, c.kid[g[2]][2])].v
             z == IF TokOf(c, g) = "AND" THEN SqlAnd(l, r) ELSE SqlOr(l, r)
         IN  /\ Logic(g, h) # "wait" => Logic(g, h) = z
             /\ DOMAIN h = FromOf(c, g) => Logic(g, h) = z
<1>1. PICK a \in DOMAIN c.tok : g = Op(a) /\ c.tok[a] = TokOf(c, g)
  BY Kinds DEF Toks
<1>2. /\ g[2] = a /\ Tok(g) = TokOf(c, g)
      /\ Arg(g, 1) = OutOf(c, c.kid[a][1]) /\ Arg(g, 2) = OutOf(c, c.kid[a][2])
  BY <1>1, Known_ DEF Arg, Op
<1>3. /\ OutOf(c, c.kid[a][1]) \in FromOf(c, g) /\ OutOf(c, c.kid[a][2]) \in FromOf(c, g)
      /\ Source(OutOf(c, c.kid[a][1])) = OutOf(c, c.kid[a][1])
      /\ Source(OutOf(c, c.kid[a][2])) = OutOf(c, c.kid[a][2])
      /\ OutOf(c, c.kid[a][1]) \in Gor(c) /\ OutOf(c, c.kid[a][2]) \in Gor(c)
  BY <1>1, Kids, NodesRead, Outs DEF Gor
<1>4. /\ TokOf(c, OutOf(c, c.kid[a][1])) \in Valued
      /\ TokOf(c, OutOf(c, c.kid[a][2])) \in Valued
  BY <1>1, <1>3, Feeds
<1> DEFINE A1 == OutOf(c, c.kid[a][1])
           A2 == OutOf(c, c.kid[a][2])
           l == val[A1].v
           r == val[A2].v
           x == IF A1 \in DOMAIN h THEN h[A1].v ELSE "wait"
           y == IF A2 \in DOMAIN h THEN h[A2].v ELSE "wait"
<1>5. l \in Known /\ r \in Known
  BY <1>3, <1>4 DEF Says
<1>6. x \in {l, "wait"} /\ y \in {r, "wait"} /\ (DOMAIN h = FromOf(c, g) => x = l /\ y = r)
  BY <1>3
<1>7. Logic(g, h) = IF TokOf(c, g) = "AND" THEN and[x][y] ELSE or[x][y]
  BY <1>2 DEF Logic
<1> HIDE DEF x, y
<1>8. /\ and[x][y] # "wait" => and[x][y] = SqlAnd(l, r)
      /\ or[x][y] # "wait" => or[x][y] = SqlOr(l, r)
      /\ x = l /\ y = r => and[x][y] = SqlAnd(l, r) /\ or[x][y] = SqlOr(l, r)
  <2> HIDE DEF l, r
  <2> QED BY <1>5, <1>6, Decided
<1> QED BY <1>2, <1>6, <1>7, <1>8

\* reduce() counts a record of each command.
LEMMA EndsCounted ==
  ASSUME NEW c \in Configs, NEW h, DOMAIN h = FromOf(c, Reduce),
         \A t \in DOMAIN h : h[t] = val[Source(t)], NEW v
  PROVE  /\ Ended(h, v) = Cardinality(Ending(c, v))
         /\ Ended(h, v) \in 0..Cardinality(Nodes(c, "CALL"))
<1>1. IsFiniteSet(Nodes(c, "CALL")) /\ IsFiniteSet(Ending(c, v))
  <2>1. IsFiniteSet(Nodes(c, "CALL"))
    BY Configuration, FS_Subset DEF Nodes
  <2> QED BY <2>1, FS_Subset DEF Ending
<1>2. FromOf(c, Reduce) = {"merge"} \X Nodes(c, "CALL")
  <2>1. Reduce \in Gor(c) /\ TokOf(c, Reduce) = "reduce"
    BY Names DEF Gor
  <2>2. \A b \in Nodes(c, "CALL") : <<"merge", b>> \in FromOf(c, Reduce)
    BY <2>1, Names DEF FromOf, Sends
  <2> QED BY <2>1, <2>2, Feeds
<1>3. {t \in DOMAIN h : h[t].v = v} = {"merge"} \X Ending(c, v)
  <2>1. \A b : Source(<<"merge", b>>) = Op(b)
    BY DEF Source
  <2> QED BY <1>2, <2>1 DEF Ending
<1>4. Cardinality({"merge"} \X Ending(c, v)) = Cardinality(Ending(c, v))
  <2>1. IsFiniteSet({"merge"}) /\ Cardinality({"merge"}) = 1
    BY FS_Singleton
  <2>2. Cardinality({"merge"} \X Ending(c, v)) = Cardinality({"merge"}) * Cardinality(Ending(c, v))
    BY <1>1, <2>1, FS_Product
  <2> QED BY <1>1, <2>1, <2>2, FS_CardinalityType
<1>5. Cardinality(Ending(c, v)) \in 0..Cardinality(Nodes(c, "CALL"))
  BY <1>1, FS_Subset, FS_CardinalityType DEF Ending
<1> QED BY <1>3, <1>4, <1>5 DEF Ended

\* g waits for more, or fires, ...
Waits(c, g, s, m) ==
  /\ pc'[g] \in {"read", "fire"} /\ got'[g] = With(g, s, m) /\ val'[g] = val[g]
  /\ UNCHANGED <<mapx, fdr>>
  /\ pc'[g] = "fire" => TokOf(c, g) = "CALL" /\ DOMAIN got'[g] = FromOf(c, g)

\* ... or has its value.
Tells(c, g, m) ==
  /\ pc'[g] = "send" /\ TokOf(c, g) \notin {"CALL", "LEAF", "fanout"}
  /\ val'[g] = [flow |-> seq, v |-> val'[g].v] /\ Makes(c, g, val'[g].v)
  /\ TokOf(c, g) \in {"log", "merge", "io"} => val'[g] = m
  /\ \A t \in FromOf(c, g) : Done(Source(t))
  /\ mapx' = IF TokOf(c, g) = "LOADED" THEN mapx \cup {<<c.ref[g[2]], m.v>>} ELSE mapx
  /\ IF TokOf(c, g) = "reduce"
     THEN fdr' = [ok |-> Cardinality(Ending(c, "OK")), fault |-> Cardinality(Ending(c, "ERR"))]
            /\ fdr' \in [ok : 0..Cardinality(Nodes(c, "CALL")),
                         fault : 0..Cardinality(Nodes(c, "CALL"))]
     ELSE fdr' = fdr

LEMMA ReadContent ==
  ASSUME NEW c \in Configs, FInv(c), KInv(c), NEW g \in Gor(c), NEW s, NEW m,
         ReadAction(g, s, m), ~panic
  PROVE  /\ Reads(c, g, s, pc'[g]) /\ UNCHANGED <<world, runs>>
         /\ s \in FromOf(c, g) /\ m = val[Source(s)] /\ Done(Source(s)) /\ seq > 0
         /\ \A t \in DOMAIN got[g] : got[g][t] = val[Source(t)] /\ Done(Source(t))
         /\ Waits(c, g, s, m) \/ Tells(c, g, m)
<1>1. Shape(c) /\ Follows(c) /\ Passes(c) /\ conf = c /\ Tok(g) = TokOf(c, g)
      /\ From(g) = FromOf(c, g)
  BY Known_ DEF FInv, Shape
<1>2. Carried(c) /\ Typed(c)
  BY DEF KInv
<1>3. Ready(c, g, s) /\ s \in FromOf(c, g) /\ s \in Gor(c) /\ wrk = "push" /\ seq > 0
  <2>1. Ready(c, g, s)
    BY ActionsRead
  <2> QED BY <1>2, <2>1 DEF Ready, Typed
<1>4. ASSUME NEW q \in {"read", "fire", "send"}, Take(g, s, m, q)
      PROVE  pc'[g] = q /\ m \in Offer(s, g) /\ pc[g] = "read"
  BY <1>1, <1>4, TakeIsRead DEF Shape
<1>5. Reads(c, g, s, pc'[g]) /\ pc'[g] \in {"read", "fire", "send"}
  <2>1. PICK p \in {"read", "fire", "send"} : Reads(c, g, s, p)
    BY ActionsRead
  <2>2. pc'[g] = p
    BY <1>1, <2>1 DEF Reads, Shape
  <2> QED BY <2>1, <2>2
<1>6. m \in Offer(s, g) /\ pc[g] = "read"
  <2>1. PICK p \in {"read", "fire", "send"} : Take(g, s, m, p)
    BY DEF ReadAction, map, project_sync_map_los_true_loaded, bool2, argv, wait_fire,
           pass, reduce
  <2> QED BY <1>4, <2>1
<1>7. m = val[Source(s)] /\ Done(Source(s)) /\ m.flow = seq
  <2>1. m.flow = seq
    BY <1>3, <1>6, Offered
  <2>2. CASE TokOf(c, s) = "fanout"
    BY <1>2, <1>3, <1>6, <2>1, <2>2, Offered DEF Carried
  <2>3. CASE TokOf(c, s) \in {"log", "merge", "io"}
    BY <1>2, <1>3, <1>6, <2>1, <2>3, Offered DEF Carried
  <2>4. CASE TokOf(c, s) \notin {"fanout", "log", "merge", "io"}
    <3>1. Source(s) = s /\ s \in GettersOf(c)
      BY <1>3, <2>4, Sources, Kinds DEF Lower
    <3>2. pc[s] = "send" /\ m = val[s]
      BY <1>3, <1>6, <2>4, Offered
    <3> QED BY <1>3, <2>1, <3>1, <3>2 DEF Ready, Done
  <2> QED BY <2>2, <2>3, <2>4
<1>8. \A t \in DOMAIN got[g] : got[g][t] = val[Source(t)] /\ Done(Source(t))
  <2>1. CASE g \in GettersOf(c)
    BY <1>2, <2>1 DEF Carried
  <2>2. CASE g \in PassersOf(c)
    BY <1>1, <2>2 DEF Passes
  <2> QED BY <2>1, <2>2 DEF Gor
<1>9. UNCHANGED <<world, runs>>
  BY DEF ReadAction, map, project_sync_map_los_true_loaded, bool2, argv, wait_fire,
         pass, reduce, effect
<1> DEFINE h == With(g, s, m)
<1>10. /\ DOMAIN h = DOMAIN got[g] \cup {s}
       /\ \A t \in DOMAIN h : h[t] = val[Source(t)] /\ Done(Source(t))
  BY <1>7, <1>8 DEF With
<1>11. got = [x \in Gor(c) |-> got[x]] /\ val = [x \in Gor(c) |-> val[x]]
  BY <1>1 DEF Shape
<1>12. TokOf(c, g) \notin Collectors => \A t \in FromOf(c, g) : t = s
  BY <1>3, Wiring
<1>13. m.v = val[Source(s)].v
  BY <1>7
<1> HIDE DEF h
<1>14. CASE pc'[g] # "send"
  <2>1. /\ Keep(g, h) /\ val' = val /\ UNCHANGED <<mapx, fdr>>
        /\ pc'[g] = "fire" => TokOf(c, g) = "CALL" /\ DOMAIN h = FromOf(c, g)
    <3>1. ~map(g, s, m) /\ ~project_sync_map_los_true_loaded(g, s, m) /\ ~pass(g, s, m)
      BY <1>4, <1>14 DEF map, project_sync_map_los_true_loaded, pass
    <3>2. CASE bool2(g, s, m)
      BY <1>1, <1>4, <1>14, <3>2 DEF bool2, h, effect
    <3>3. CASE argv(g, s, m)
      BY <1>1, <1>4, <1>14, <3>3 DEF argv, h, effect
    <3>4. CASE reduce(g, s, m)
      BY <1>1, <1>4, <1>14, <3>4 DEF reduce, h
    <3>5. CASE wait_fire(g, s, m)
      BY <1>1, <1>4, <1>14, <3>5 DEF wait_fire, h, effect
    <3> QED BY <3>1, <3>2, <3>3, <3>4, <3>5 DEF ReadAction
  <2>2. got'[g] = h
    BY <1>11, <2>1 DEF Keep
  <2> QED BY <1>3, <1>5, <1>7, <1>8, <1>9, <1>14, <2>1, <2>2 DEF h, Waits
<1>15. CASE pc'[g] = "send"
  <2> DEFINE w == val'[g]
             Goal == /\ TokOf(c, g) \notin {"CALL", "LEAF", "fanout"}
                     /\ w = [flow |-> seq, v |-> w.v] /\ Makes(c, g, w.v)
                     /\ TokOf(c, g) \in {"log", "merge", "io"} => w = m
                     /\ \A t \in FromOf(c, g) : Done(Source(t))
                     /\ mapx' = IF TokOf(c, g) = "LOADED" THEN mapx \cup {<<c.ref[g[2]], m.v>>} ELSE mapx
                     /\ IF TokOf(c, g) = "reduce"
                        THEN fdr' = [ok |-> Cardinality(Ending(c, "OK")),
                                     fault |-> Cardinality(Ending(c, "ERR"))]
                               /\ fdr' \in [ok : 0..Cardinality(Nodes(c, "CALL")),
                                            fault : 0..Cardinality(Nodes(c, "CALL"))]
                        ELSE fdr' = fdr
  <2>1. \A v : Say(g, v) => w = [flow |-> at[g], v |-> v]
    BY <1>11 DEF Say
  <2>2. g \in GettersOf(c) => at[g] = seq
    BY <1>3 DEF Ready
  <2>3. ASSUME map(g, s, m) PROVE Goal
    <3>1. /\ TokOf(c, g) \in {"NOT", "PROJECT"}
          /\ Say(g, IF TokOf(c, g) = "PROJECT" THEN Status(m.v, world[at[g]][g[2]])
                    ELSE Mapped("NOT", m.v))
          /\ mapx' = mapx /\ fdr' = fdr
      BY <1>1, <2>3 DEF map, effect
    <3>2. at[g] = seq /\ TokOf(c, g) \notin Collectors
      BY <2>2, <3>1, Kinds DEF Toks, Collectors
    <3>3. w = [flow |-> seq,
               v |-> IF TokOf(c, g) = "PROJECT" THEN Status(m.v, world[seq][g[2]])
                     ELSE Mapped("NOT", m.v)]
      BY <2>1, <3>1, <3>2
    <3>4. Makes(c, g, w.v)
      BY <1>12, <1>13, <3>1, <3>2, <3>3 DEF Makes
    <3> QED BY <1>7, <1>12, <3>1, <3>2, <3>3, <3>4
  <2>4. ASSUME project_sync_map_los_true_loaded(g, s, m) PROVE Goal
    <3>1. /\ TokOf(c, g) = "LOADED" /\ Say(g, IF <<c.ref[g[2]], m.v>> \in mapx THEN "true" ELSE "false")
          /\ mapx' = mapx \cup {<<c.ref[g[2]], m.v>>} /\ fdr' = fdr
      BY <1>1, <2>4 DEF project_sync_map_los_true_loaded
    <3>2. at[g] = seq /\ TokOf(c, g) \notin Collectors
      BY <2>2, <3>1, Kinds DEF Toks, Collectors
    <3>3. w = [flow |-> seq, v |-> IF <<c.ref[g[2]], m.v>> \in mapx THEN "true" ELSE "false"]
      BY <2>1, <3>1, <3>2
    <3>4. Makes(c, g, w.v)
      BY <1>12, <1>13, <3>1, <3>2, <3>3 DEF Makes
    <3> QED BY <1>7, <1>12, <3>1, <3>2, <3>3, <3>4
  <2>5. ASSUME pass(g, s, m) PROVE Goal
    <3>1. /\ TokOf(c, g) \in {"log", "merge", "io", "log_fdr"} /\ w = m
          /\ mapx' = mapx /\ fdr' = fdr
      BY <1>1, <1>11, <2>5 DEF pass, effect
    <3>2. TokOf(c, g) \notin Collectors
      BY <3>1 DEF Collectors
    <3>3. w = [flow |-> seq, v |-> w.v]
      <4>1. Source(s) \in Gor(c)
        BY <1>3, Sources DEF Gor
      <4>2. m \in [flow : 0..seq, v : Says(c, Source(s))]
        BY <1>2, <1>7, <4>1 DEF Typed
      <4> QED BY <1>7, <3>1, <4>2
    <3>4. Makes(c, g, w.v)
      BY <1>12, <1>13, <3>1, <3>2 DEF Makes
    <3> QED BY <1>7, <1>12, <3>1, <3>2, <3>3, <3>4
  <2>6. ASSUME bool2(g, s, m) PROVE Goal
    <3>1. /\ TokOf(c, g) \in {"AND", "OR"} /\ DOMAIN h = FromOf(c, g)
          /\ Say(g, IF Logic(g, got[g]) = "wait" THEN Logic(g, h) ELSE Logic(g, got[g]))
          /\ mapx' = mapx /\ fdr' = fdr
      BY <1>1, <1>4, <1>15, <2>6 DEF bool2, effect, h
    <3>0. PICK v : /\ v = IF Logic(g, got[g]) = "wait" THEN Logic(g, h) ELSE Logic(g, got[g])
                   /\ Say(g, v)
      BY <3>1
    <3>2. at[g] = seq
      BY <2>2, <3>1, Kinds DEF Toks
    <3>3. \A x \in Gor(c) : val[x].v \in Says(c, x)
      BY <1>2 DEF Typed
    <3>. w = [flow |-> at[g], v |-> v]
      BY <2>1, <3>0
    <3>4. w.v = IF TokOf(c, g) = "AND"
                THEN SqlAnd(val[OutOf(c, c.kid[g[2]][1])].v, val[OutOf(c, c.kid[g[2]][2])].v)
                ELSE SqlOr(val[OutOf(c, c.kid[g[2]][1])].v, val[OutOf(c, c.kid[g[2]][2])].v)
      <4>1. w.v = IF Logic(g, got[g]) = "wait" THEN Logic(g, h) ELSE Logic(g, got[g])
        BY <3>0
      <4> QED BY <1>1, <1>8, <1>10, <3>1, <3>3, <4>1, LogicIs
    <3>5. Makes(c, g, w.v)
      BY <3>1, <3>4 DEF Makes
    <3>6. w = [flow |-> seq, v |-> w.v]
      BY <3>2
    <3> QED BY <1>10, <3>1, <3>5, <3>6
  <2>7. ASSUME argv(g, s, m) PROVE Goal
    <3>1. /\ TokOf(c, g) = "ARGV" /\ DOMAIN h = FromOf(c, g)
          /\ Say(g, IF \E t \in DOMAIN h : h[t].v = "null" THEN "null" ELSE "true")
          /\ mapx' = mapx /\ fdr' = fdr
      BY <1>1, <1>4, <1>15, <2>7 DEF argv, effect, h
    <3>0. PICK v : /\ v = IF \E t \in DOMAIN h : h[t].v = "null" THEN "null" ELSE "true"
                   /\ Say(g, v)
      BY <3>1
    <3>2. at[g] = seq
      BY <2>2, <3>1, Kinds DEF Toks
    <3>. w = [flow |-> at[g], v |-> v]
      BY <2>1, <3>0
    <3>3. w.v = IF \E t \in DOMAIN h : h[t].v = "null" THEN "null" ELSE "true"
      BY <3>0
    <3>4. Makes(c, g, w.v)
      BY <1>10, <3>1, <3>3 DEF Makes
    <3>5. w = [flow |-> seq, v |-> w.v]
      BY <3>2
    <3> QED BY <1>10, <3>1, <3>4, <3>5
  <2>8. ASSUME reduce(g, s, m) PROVE Goal
    <3>1. /\ TokOf(c, g) = "reduce" /\ DOMAIN h = FromOf(c, g) /\ Say(g, "fdr")
          /\ mapx' = mapx /\ fdr' = [ok |-> Ended(h, "OK"), fault |-> Ended(h, "ERR")]
      BY <1>1, <1>4, <1>15, <2>8 DEF reduce, h
    <3>2. at[g] = seq /\ g = Reduce
      BY <2>2, <3>1, Kinds
    <3>3. w = [flow |-> seq, v |-> "fdr"]
      BY <2>1, <3>1, <3>2
    <3>4. Makes(c, g, w.v)
      BY <3>1, <3>3 DEF Makes
    <3>5. \A v : /\ Ended(h, v) = Cardinality(Ending(c, v))
                 /\ Ended(h, v) \in 0..Cardinality(Nodes(c, "CALL"))
      BY <1>10, <3>1, <3>2, EndsCounted
    <3> QED BY <1>10, <3>1, <3>3, <3>4, <3>5
  <2>9. ~wait_fire(g, s, m)
    BY <1>4, <1>15 DEF wait_fire
  <2>10. Goal
    BY <2>3, <2>4, <2>5, <2>6, <2>7, <2>8, <2>9 DEF ReadAction
  <2> QED BY <1>3, <1>5, <1>7, <1>8, <1>9, <1>15, <2>10 DEF Tells
<1> QED BY <1>14, <1>15

-----------------------------------------------------------------------------
(* What the rules ask of the values of a record.                             *)

\* v is the value of a, y has those of the nodes that a needs, w the record and
\* past what was looked up before.
Obeys(c, w, y, v, a, past) ==
  LET y1 == y[c.kid[a][1]]
      y2 == y[c.kid[a][2]]
      tok == c.tok[a] IN
  /\ tok = "LEAF" => v = w[a]
  /\ tok = "LOADED" => v = IF y1 \in past THEN "true" ELSE "false"
  /\ tok = "AND" => v = SqlAnd(y1, y2)
  /\ tok = "OR" => v = SqlOr(y1, y2)
  /\ tok = "ARGV" =>
       v = IF \E i \in DOMAIN c.kid[a] : y[c.kid[a][i]] = "null" THEN "null" ELSE "true"
  /\ tok = "PROJECT" => v = Status(y[c.ref[a]], w[a])
  /\ tok = "CALL" => v = IF "null" \in {y1, y2} THEN "null"
                         ELSE IF y2 = "true" THEN w[a] ELSE "nil"
  /\ tok = "NOT" => v = Mapped("NOT", y1)
  /\ tok = "WHEN" => v = y1

\* The values of record f in e, and what a looked up for the first n records.
Row(c, e, f) == [a \in DOMAIN c.tok |-> e[<<f, a>>]]
Looked(c, e, a, n) == {e[<<f, c.kid[a][1]>>] : f \in 1..n}

\* e has the values of the first n records of w.
Solves(c, w, e, n) ==
  \A f \in 1..n : \A a \in DOMAIN c.tok :
    Obeys(c, w[f], Row(c, e, f), e[<<f, a>>], a, Looked(c, e, a, f - 1))

\* The values of the current record.
Current(c) == [a \in DOMAIN c.tok |-> val[OutOf(c, a)].v]

\* A value is determined by those that it is made of.
LEMMA Determined ==
  ASSUME NEW c \in Configs, NEW a \in DOMAIN c.tok, NEW w, NEW y, NEW z, NEW past,
         NEW u, NEW v, Obeys(c, w, y, u, a, past), Obeys(c, w, z, v, a, past),
         \A b \in DOMAIN c.tok : Needs(c, a, b) => y[b] = z[b]
  PROVE  u = v
<1>1. \A i \in DOMAIN c.kid[a] : y[c.kid[a][i]] = z[c.kid[a][i]]
  <2>1. \A i \in DOMAIN c.kid[a] : Under(c, c.kid[a][i], a)
    BY DEF Under
  <2> QED BY <2>1, Configuration DEF Needs
<1>2. /\ c.tok[a] \in {"NOT", "LOADED", "WHEN"} => y[c.kid[a][1]] = z[c.kid[a][1]]
      /\ c.tok[a] \in {"AND", "OR", "CALL"} =>
           y[c.kid[a][1]] = z[c.kid[a][1]] /\ y[c.kid[a][2]] = z[c.kid[a][2]]
      /\ c.tok[a] = "PROJECT" => y[c.ref[a]] = z[c.ref[a]]
  BY Kids DEF Needs
<1>3. CASE c.tok[a] \in {"NOT", "LOADED", "WHEN"}
  BY <1>2, <1>3 DEF Obeys
<1>4. CASE c.tok[a] \in {"AND", "OR"}
  BY <1>2, <1>4 DEF Obeys
<1>5. CASE c.tok[a] = "CALL"
  BY <1>2, <1>5 DEF Obeys
<1>6. CASE c.tok[a] = "PROJECT"
  BY <1>2, <1>6 DEF Obeys
<1>7. CASE c.tok[a] = "ARGV"
  BY <1>1, <1>7 DEF Obeys
<1>8. CASE c.tok[a] = "LEAF"
  BY <1>8 DEF Obeys
<1> QED BY <1>3, <1>4, <1>5, <1>6, <1>7, <1>8, Configuration DEF Toks

\* The same values are as good.
LEMMA SameObeys ==
  ASSUME NEW c \in Configs, NEW a \in DOMAIN c.tok, NEW w, NEW x, NEW y, NEW z, NEW past,
         NEW v, Obeys(c, w, y, v, a, past),
         c.tok[a] \in {"LEAF", "PROJECT", "CALL"} => w[a] = x[a],
         \A b \in DOMAIN c.tok : Needs(c, a, b) => y[b] = z[b]
  PROVE  Obeys(c, x, z, v, a, past)
<1>1. \A i \in DOMAIN c.kid[a] : y[c.kid[a][i]] = z[c.kid[a][i]]
  <2>1. \A i \in DOMAIN c.kid[a] : Under(c, c.kid[a][i], a)
    BY DEF Under
  <2> QED BY <2>1, Configuration DEF Needs
<1>2. /\ c.tok[a] \in {"NOT", "LOADED", "WHEN"} => y[c.kid[a][1]] = z[c.kid[a][1]]
      /\ c.tok[a] \in {"AND", "OR", "CALL"} =>
           y[c.kid[a][1]] = z[c.kid[a][1]] /\ y[c.kid[a][2]] = z[c.kid[a][2]]
      /\ c.tok[a] = "PROJECT" => y[c.ref[a]] = z[c.ref[a]]
  BY Kids DEF Needs
<1>3. CASE c.tok[a] \in {"NOT", "LOADED", "WHEN"}
  BY <1>2, <1>3 DEF Obeys
<1>4. CASE c.tok[a] \in {"AND", "OR"}
  BY <1>2, <1>4 DEF Obeys
<1>5. CASE c.tok[a] = "CALL"
  BY <1>2, <1>5 DEF Obeys
<1>6. CASE c.tok[a] = "PROJECT"
  BY <1>2, <1>6 DEF Obeys
<1>7. CASE c.tok[a] = "ARGV"
  BY <1>1, <1>7 DEF Obeys
<1>8. CASE c.tok[a] = "LEAF"
  BY <1>8 DEF Obeys
<1> QED BY <1>3, <1>4, <1>5, <1>6, <1>7, <1>8, Configuration DEF Toks

\* A set of numbers has a least one.
LEMMA LeastNumber ==
  ASSUME NEW T \in SUBSET Nat, T # {}
  PROVE  \E x \in T : \A y \in T : x <= y
<1> DEFINE R == {p \in Nat \X Nat : p[1] < p[2]}
<1>1. IsWellFoundedOn(R, Nat)
  BY NatLessThanWellFounded DEF OpToRel
<1>2. PICK x \in T : \A y \in T : <<y, x>> \notin R
  <2> HIDE DEF R
  <2> QED BY <1>1, WFMin
<1>3. ASSUME NEW y \in T PROVE x <= y
  <2>1. x \in Nat /\ y \in Nat /\ <<y, x>> \in Nat \X Nat
    OBVIOUS
  <2>2. ~(<<y, x>>[1] < <<y, x>>[2])
    BY <1>2, <2>1
  <2> QED BY <2>1, <2>2
<1> QED BY <1>3

\* The records before the first one with other values decide its values.
LEMMA OneSolution ==
  ASSUME NEW c \in Configs, NEW n \in Nat, NEW w, NEW d, NEW e,
         Solves(c, w, d, n), Solves(c, w, e, n)
  PROVE  \A f \in 1..n : \A a \in DOMAIN c.tok : d[<<f, a>>] = e[<<f, a>>]
<1> SUFFICES ASSUME NEW k \in 1..n, NEW b \in DOMAIN c.tok, d[<<k, b>>] # e[<<k, b>>] PROVE FALSE
  OBVIOUS
<1> DEFINE Others == {f \in 1..n : \E a \in DOMAIN c.tok : d[<<f, a>>] # e[<<f, a>>]}
<1>1. Others \in SUBSET Nat /\ k \in Others
  <2>1. \A f \in 1..n : f \in Nat
    BY n \in Nat
  <2>2. k \in Others
    OBVIOUS
  <2> QED BY <2>1, <2>2
<1>2. PICK f \in Others : \A g \in Others : f <= g
  <2> HIDE DEF Others
  <2> QED BY <1>1, LeastNumber
<1>3. \A g \in 1..(f - 1) : \A a \in DOMAIN c.tok : d[<<g, a>>] = e[<<g, a>>]
  <2>1. f \in 1..n
    OBVIOUS
  <2>2. ASSUME NEW g \in 1..(f - 1) PROVE g \in 1..n /\ ~(f <= g)
    BY <2>1
  <2> QED BY <1>2, <2>2
<1> DEFINE Same == {a \in DOMAIN c.tok : d[<<f, a>>] = e[<<f, a>>]}
<1>4. ASSUME NEW a \in DOMAIN c.tok, \A j \in DOMAIN c.tok : Needs(c, a, j) => j \in Same
      PROVE  a \in Same
  <2>1. f \in 1..n /\ \A j \in DOMAIN c.tok : Needs(c, a, j) => d[<<f, j>>] = e[<<f, j>>]
    BY <1>4
  <2>2. /\ Obeys(c, w[f], Row(c, d, f), d[<<f, a>>], a, Looked(c, d, a, f - 1))
        /\ Obeys(c, w[f], Row(c, e, f), e[<<f, a>>], a, Looked(c, e, a, f - 1))
    BY <2>1 DEF Solves
  <2>3. \A j \in DOMAIN c.tok : Needs(c, a, j) => Row(c, d, f)[j] = Row(c, e, f)[j]
    BY <2>1 DEF Row
  <2>4. CASE c.tok[a] = "LOADED"
    <3>1. c.kid[a][1] \in DOMAIN c.tok
      BY <2>4, Kids
    <3>2. \A g \in 1..(f - 1) : d[<<g, c.kid[a][1]>>] = e[<<g, c.kid[a][1]>>]
      BY <1>3, <3>1
    <3>3. Looked(c, d, a, f - 1) = Looked(c, e, a, f - 1)
      <4>1. \A v : v \in Looked(c, d, a, f - 1) <=> v \in Looked(c, e, a, f - 1)
        BY <3>2 DEF Looked
      <4> QED BY <4>1
    <3>4. d[<<f, a>>] = e[<<f, a>>]
      BY <2>2, <2>3, <3>3, Determined
    <3> QED BY <3>4
  <2>5. CASE c.tok[a] # "LOADED"
    <3>1. Obeys(c, w[f], Row(c, e, f), e[<<f, a>>], a, Looked(c, d, a, f - 1))
      BY <2>2, <2>5 DEF Obeys
    <3>2. d[<<f, a>>] = e[<<f, a>>]
      BY <2>2, <2>3, <3>1, Determined
    <3> QED BY <3>2
  <2> QED BY <2>4, <2>5
<1>5. Same = DOMAIN c.tok
  <2>1. Same \in SUBSET DOMAIN c.tok
    OBVIOUS
  <2>2. \A a \in DOMAIN c.tok :
          (\A j \in DOMAIN c.tok : Needs(c, a, j) => j \in Same) => a \in Same
    BY <1>4
  <2> HIDE DEF Same
  <2> QED BY <2>1, <2>2, Configuration DEF WellFormed
<1> QED BY <1>2, <1>5

-----------------------------------------------------------------------------
(* What a step leaves alone.                                                 *)

\* The values of the past records are those of the rules, so are those of the
\* current one that are there, and the sync maps have what was looked up.
Ruled(c, e) ==
  /\ Solves(c, world, e, seq - 1)
  /\ \A a \in DOMAIN c.tok : c.tok[a] # "WHEN" /\ Done(Op(a)) =>
       Obeys(c, world[seq], Current(c), val[Op(a)].v, a, Looked(c, e, a, seq - 1))
  /\ \A a \in Nodes(c, "LOADED") : \A v : <<c.ref[a], v>> \in mapx <=>
       v \in Looked(c, e, a, seq - 1) \/ (Done(Op(a)) /\ v = Current(c)[c.kid[a][1]])

\* Values of the flow stay as they are.
Steady(c) ==
  /\ UNCHANGED <<conf, seq>>
  /\ \A x \in GettersOf(c) : Done(x) => Done(x)' /\ val'[x] = val[x]

LEMMA CarriedStep ==
  ASSUME NEW c \in Configs, FInv(c), Carried(c), Steady(c),
         \A g \in GettersOf(c) : \A s \in DOMAIN got'[g] :
           \/ s \in DOMAIN got[g] /\ got'[g][s] = got[g][s]
           \/ s \in FromOf(c, g) /\ got'[g][s] = val[Source(s)] /\ Done(Source(s)),
         \A g \in Gor(c) : \A f \in FromOf(c, g) : \A m \in put'[g] :
           m \in put[g] \/ (m = val[Source(f)] /\ Done(Source(f))),
         \A s \in Gor(c) : TokOf(c, s) \in {"log", "merge", "io"} /\ pc'[s] = "send" =>
           \/ pc[s] = "send" /\ val'[s] = val[s]
           \/ val'[s] = val[Source(s)] /\ Done(Source(s))
  PROVE  Carried(c)'
<1>1. \A g \in Gor(c) : \A s \in FromOf(c, g) : Source(s) \in GettersOf(c)
  BY Wiring, Sources
<1>2. \A s \in Gor(c) : Source(s) \in GettersOf(c)
  BY Sources
<1>3. ASSUME NEW g \in GettersOf(c), NEW s \in DOMAIN got'[g]
      PROVE  got'[g][s] = val'[Source(s)] /\ Done(Source(s))'
  <2>1. g \in Gor(c) /\ DOMAIN got[g] \subseteq FromOf(c, g)
    BY DEF FInv, Follows, Gor
  <2>2. s \in FromOf(c, g) /\ got'[g][s] = val[Source(s)] /\ Done(Source(s))
    BY <1>3, <2>1 DEF Carried
  <2> QED BY <1>1, <2>1, <2>2 DEF Steady
<1>4. ASSUME NEW g \in Gor(c), NEW f \in FromOf(c, g), NEW m \in put'[g]
      PROVE  m = val'[Source(f)] /\ Done(Source(f))'
  <2>1. m = val[Source(f)] /\ Done(Source(f))
    BY <1>4 DEF Carried
  <2> QED BY <1>1, <2>1 DEF Steady
<1>5. ASSUME NEW s \in Gor(c), TokOf(c, s) \in {"log", "merge", "io"}, pc'[s] = "send"
      PROVE  val'[s] = val'[Source(s)] /\ Done(Source(s))'
  <2>1. val'[s] = val[Source(s)] /\ Done(Source(s))
    BY <1>5 DEF Carried
  <2> QED BY <1>2, <2>1 DEF Steady
<1> QED BY <1>3, <1>4, <1>5 DEF Carried

LEMMA FedStep ==
  ASSUME NEW c \in Configs, FInv(c), Fed(c), Steady(c),
         \A g \in GettersOf(c) : Source(g) = g /\ Done(g)' =>
           Done(g) \/ \A s \in FromOf(c, g) : Done(Source(s)),
         \A g \in GettersOf(c) : pc'[g] = "fire" =>
           \/ pc[g] = "fire" /\ got'[g] = got[g]
           \/ TokOf(c, g) = "CALL" /\ DOMAIN got'[g] = FromOf(c, g)
  PROVE  Fed(c)'
<1>1. \A g \in GettersOf(c) : \A s \in FromOf(c, g) : Source(s) \in GettersOf(c)
  BY Wiring, Sources DEF Gor
<1>2. ASSUME NEW g \in GettersOf(c), Source(g) = g, Done(g)', NEW s \in FromOf(c, g)
      PROVE  Done(Source(s))'
  <2>1. Done(Source(s))
    BY <1>2 DEF Fed
  <2> QED BY <1>1, <2>1 DEF Steady
<1>3. ASSUME NEW g \in GettersOf(c), pc'[g] = "fire"
      PROVE  TokOf(c, g) = "CALL" /\ DOMAIN got'[g] = FromOf(c, g)
  BY <1>3 DEF Fed
<1> QED BY <1>2, <1>3 DEF Fed

\* When reduce() is done the commands and queries are.
LEMMA ReducedCalls ==
  ASSUME NEW c \in Configs, Fed(c), Done(Reduce)
  PROVE  \A a \in Nodes(c, "CALL") : Done(Op(a))
<1>1. Reduce \in GettersOf(c) /\ Source(Reduce) = Reduce /\ TokOf(c, Reduce) = "reduce"
  BY Names, Sources DEF Gor
<1>2. ASSUME NEW a \in Nodes(c, "CALL")
      PROVE  <<"merge", a>> \in FromOf(c, Reduce) /\ Source(<<"merge", a>>) = Op(a)
  BY <1>1, Names DEF FromOf, Sends, Source
<1> QED BY <1>1, <1>2 DEF Fed

LEMMA SummedStep ==
  ASSUME NEW c \in Configs, Fed(c), Summed(c), Steady(c),
         \/ fdr' = fdr /\ (Done(Reduce)' <=> Done(Reduce))
         \/ /\ \A a \in Nodes(c, "CALL") : Done(Op(a))
            /\ fdr' = [ok |-> Cardinality(Ending(c, "OK")),
                       fault |-> Cardinality(Ending(c, "ERR"))]
            /\ fdr' \in [ok : 0..Cardinality(Nodes(c, "CALL")),
                         fault : 0..Cardinality(Nodes(c, "CALL"))]
  PROVE  Summed(c)'
<1>1. ASSUME \A a \in Nodes(c, "CALL") : Done(Op(a)), NEW v
      PROVE  Ending(c, v)' = Ending(c, v)
  <2>1. \A a \in Nodes(c, "CALL") : val'[Op(a)] = val[Op(a)]
    <3>1. \A a \in Nodes(c, "CALL") : Op(a) \in GettersOf(c)
      BY Names DEF Nodes
    <3> QED BY <1>1, <3>1 DEF Steady
  <2> QED BY <2>1 DEF Ending
<1>2. CASE fdr' = fdr /\ (Done(Reduce)' <=> Done(Reduce))
  <2>1. CASE Done(Reduce)
    <3>1. Ending(c, "OK")' = Ending(c, "OK") /\ Ending(c, "ERR")' = Ending(c, "ERR")
      BY <1>1, <2>1, ReducedCalls
    <3> QED BY <1>2, <2>1, <3>1 DEF Summed
  <2>2. CASE ~Done(Reduce)
    BY <1>2, <2>2 DEF Summed
  <2> QED BY <2>1, <2>2
<1>3. CASE /\ \A a \in Nodes(c, "CALL") : Done(Op(a))
           /\ fdr' = [ok |-> Cardinality(Ending(c, "OK")),
                      fault |-> Cardinality(Ending(c, "ERR"))]
           /\ fdr' \in [ok : 0..Cardinality(Nodes(c, "CALL")),
                        fault : 0..Cardinality(Nodes(c, "CALL"))]
  <2>1. Ending(c, "OK")' = Ending(c, "OK") /\ Ending(c, "ERR")' = Ending(c, "ERR")
    BY <1>1, <1>3
  <2> QED BY <1>3, <2>1 DEF Summed
<1> QED BY <1>2, <1>3

LEMMA RanStep ==
  ASSUME NEW c \in Configs, Ran(c), Steady(c), runs' = runs,
         \A a \in Nodes(c, "CALL") : Done(Op(a))' <=> Done(Op(a))
  PROVE  Ran(c)'
<1>1. \A a \in Nodes(c, "CALL") : Op(a) \in GettersOf(c)
  BY Names DEF Nodes
<1>2. \A a \in Nodes(c, "CALL") : Done(Op(a)) => val'[Op(a)].v = val[Op(a)].v
  BY <1>1 DEF Steady
<1> QED BY <1>2 DEF Ran

LEMMA RuledStep ==
  ASSUME NEW c \in Configs, Fed(c), NEW e, Ruled(c, e), Steady(c),
         \A f \in 1..(seq - 1) : world'[f] = world[f],
         \A a \in DOMAIN c.tok : c.tok[a] \in {"LEAF", "PROJECT", "CALL"} /\ Done(Op(a)) =>
           world'[seq][a] = world[seq][a],
         \A a \in DOMAIN c.tok : c.tok[a] # "WHEN" /\ Done(Op(a))' /\ ~Done(Op(a)) =>
           /\ Obeys(c, world'[seq], Current(c), val'[Op(a)].v, a, Looked(c, e, a, seq - 1))
           /\ \A s \in FromOf(c, Op(a)) : Done(Source(s)),
         \A a \in Nodes(c, "LOADED") : \A v : <<c.ref[a], v>> \in mapx' <=>
           \/ <<c.ref[a], v>> \in mapx
           \/ ~Done(Op(a)) /\ Done(Op(a))' /\ v = Current(c)[c.kid[a][1]]
  PROVE  Ruled(c, e)'
<1>1. ASSUME NEW a \in DOMAIN c.tok, c.tok[a] # "WHEN", Done(Op(a))',
             NEW b \in DOMAIN c.tok, Needs(c, a, b)
      PROVE  Current(c)'[b] = Current(c)[b]
  <2>1. Op(a) \in GettersOf(c) /\ Source(Op(a)) = Op(a)
    BY <1>1, Names DEF Source, Op
  <2>2. PICK s \in FromOf(c, Op(a)) : Source(s) = OutOf(c, b)
    BY <1>1, NodesRead
  <2>3. Done(OutOf(c, b)) /\ OutOf(c, b) \in GettersOf(c)
    BY <1>1, <2>1, <2>2, Outs DEF Fed
  <2>4. val'[OutOf(c, b)] = val[OutOf(c, b)]
    BY <2>3 DEF Steady
  <2> QED BY <2>4 DEF Current
<1>2. seq' = seq
  BY DEF Steady
<1>3. Solves(c, world, e, seq - 1)'
  BY <1>2 DEF Solves, Ruled
<1>4. ASSUME NEW a \in DOMAIN c.tok, c.tok[a] # "WHEN", Done(Op(a))'
      PROVE  Obeys(c, world'[seq], Current(c)', val'[Op(a)].v, a, Looked(c, e, a, seq - 1))
  <2>1. \A b \in DOMAIN c.tok : Needs(c, a, b) => Current(c)[b] = Current(c)'[b]
    BY <1>1, <1>4
  <2>2. CASE Done(Op(a))
    <3>1. Op(a) \in GettersOf(c)
      BY <1>4, Names
    <3>2. val'[Op(a)].v = val[Op(a)].v
      BY <2>2, <3>1 DEF Steady
    <3>3. Obeys(c, world[seq], Current(c), val'[Op(a)].v, a, Looked(c, e, a, seq - 1))
      BY <1>4, <2>2, <3>2 DEF Ruled
    <3>4. c.tok[a] \in {"LEAF", "PROJECT", "CALL"} => world[seq][a] = world'[seq][a]
      BY <1>4, <2>2
    <3> QED BY <2>1, <3>3, <3>4, SameObeys
  <2>3. CASE ~Done(Op(a))
    <3>1. Obeys(c, world'[seq], Current(c), val'[Op(a)].v, a, Looked(c, e, a, seq - 1))
      BY <1>4, <2>3
    <3> QED BY <2>1, <3>1, SameObeys
  <2> QED BY <2>2, <2>3
<1>5. ASSUME NEW a \in Nodes(c, "LOADED"), NEW v
      PROVE  <<c.ref[a], v>> \in mapx' <=>
               v \in Looked(c, e, a, seq - 1) \/ (Done(Op(a))' /\ v = Current(c)'[c.kid[a][1]])
  <2>1. a \in DOMAIN c.tok /\ c.tok[a] = "LOADED" /\ Op(a) \in GettersOf(c)
    BY Names DEF Nodes
  <2>2. c.kid[a][1] \in DOMAIN c.tok /\ Needs(c, a, c.kid[a][1])
    BY <2>1, Kids DEF Needs
  <2>3. Done(Op(a))' => Current(c)'[c.kid[a][1]] = Current(c)[c.kid[a][1]]
    BY <1>1, <2>1, <2>2
  <2>4. Done(Op(a)) => Done(Op(a))'
    BY <2>1 DEF Steady
  <2>5. <<c.ref[a], v>> \in mapx <=>
          v \in Looked(c, e, a, seq - 1) \/ (Done(Op(a)) /\ v = Current(c)[c.kid[a][1]])
    BY DEF Ruled
  <2> QED BY <2>3, <2>4, <2>5
<1> QED BY <1>2, <1>3, <1>4, <1>5 DEF Ruled

-----------------------------------------------------------------------------
(* Reads.                                                                    *)

LEMMA ReadFrame ==
  ASSUME NEW c \in Configs, FInv(c), seq > 0, NEW g \in Gor(c), NEW s, Ready(c, g, s),
         NEW p \in {"read", "fire", "send"}, Reads(c, g, s, p)
  PROVE  /\ Steady(c) /\ ~Done(g) /\ pc'[g] = p
         /\ \A x \in GettersOf(c) : x # g => (Done(x)' <=> Done(x))
         /\ g \in GettersOf(c) => (Done(g)' <=> p = "send")
         /\ \A x \in Gor(c) : x # g =>
              /\ pc'[x] = "send" => pc[x] = "send"
              /\ pc'[x] = "fire" => pc[x] = "fire"
<1>1. /\ seq \in Nat /\ pc \in [Gor(c) -> {"get", "read", "fire", "send"}]
      /\ s \in Gor(c) /\ s # g /\ (s \in GettersOf(c) => at[s] = seq)
      /\ g \in GettersOf(c) => at[g] = seq
  BY DEF FInv, Shape, Ready
<1>2. /\ UNCHANGED <<conf, wrk, seq, countA, countB, at>> /\ pc[g] = "read"
      /\ \A x \in Gor(c) \ {g} : got'[x] = got[x] /\ val'[x] = val[x]
  BY DEF Reads
<1>3. /\ pc'[g] = p
      /\ \A x \in Gor(c) \ {g, s} : pc'[x] = pc[x]
      /\ \/ pc'[s] = pc[s]
         \/ pc[s] = "send" /\ pc'[s] = IF s \in GettersOf(c) THEN "get" ELSE "read"
  <2>1. \/ /\ pc[s] = "send"
           /\ pc' = [pc EXCEPT ![s] = IF s \in GettersOf(c) THEN "get" ELSE "read", ![g] = p]
        \/ pc' = [pc EXCEPT ![g] = p]
    BY DEF Reads
  <2>2. CASE pc' = [pc EXCEPT ![g] = p]
    BY <1>1, <2>2
  <2>3. CASE /\ pc[s] = "send"
             /\ pc' = [pc EXCEPT ![s] = IF s \in GettersOf(c) THEN "get" ELSE "read", ![g] = p]
    BY <1>1, <2>3
  <2> QED BY <2>1, <2>2, <2>3
<1>4. ~Done(g)
  BY <1>2 DEF Done
<1>5. ASSUME NEW x \in GettersOf(c), x # g PROVE Done(x)' <=> Done(x)
  <2>1. x \in Gor(c)
    BY DEF Gor
  <2>2. CASE x = s
    BY <1>1, <1>2, <1>3, <2>1, <2>2, <1>5 DEF Done
  <2>3. CASE x # s
    BY <1>2, <1>3, <2>1, <2>3, <1>5 DEF Done
  <2> QED BY <2>2, <2>3
<1>6. g \in GettersOf(c) => (Done(g)' <=> p = "send")
  BY <1>1, <1>2, <1>3 DEF Done
<1>7. Steady(c)
  <2>1. \A x \in GettersOf(c) : x \in Gor(c)
    BY DEF Gor
  <2> QED BY <1>2, <1>4, <1>5, <2>1 DEF Steady
<1>8. ASSUME NEW x \in Gor(c), x # g
      PROVE  (pc'[x] = "send" => pc[x] = "send") /\ (pc'[x] = "fire" => pc[x] = "fire")
  BY <1>3, <1>8
<1> QED BY <1>3, <1>4, <1>5, <1>6, <1>7, <1>8

\* What is made of values is one.
LEMMA MakesTyped ==
  ASSUME NEW c \in Configs, Typed(c), seq > 0, NEW g \in Gor(c), NEW v, Makes(c, g, v),
         TokOf(c, g) \notin {"CALL", "LEAF", "fanout"}, NEW s \in FromOf(c, g)
  PROVE  v \in Says(c, g)
<1>1. \A x \in Gor(c) : val[x].v \in Says(c, x)
  BY DEF Typed
<1>2. Source(s) \in Gor(c)
  BY Feeds, Sources DEF Gor
<1>3. TokOf(c, Source(s)) \in Valued => val[Source(s)].v \in Known
  BY <1>1, <1>2 DEF Says
<1>4. TokOf(c, Source(s)) = "CALL" => val[Source(s)].v \in Details
  BY <1>1, <1>2 DEF Says, Valued
<1>5. CASE TokOf(c, g) = "NOT"
  <2>1. v = Mapped("NOT", val[Source(s)].v) /\ val[Source(s)].v \in Known
    BY <1>3, <1>5, Feeds DEF Makes
  <2> QED BY <1>5, <2>1, MappedValues DEF Says, Valued, Toks
<1>6. CASE TokOf(c, g) = "PROJECT"
  <2>1. v = Status(val[Source(s)].v, world[seq][g[2]])
    BY <1>6 DEF Makes
  <2>2. PICK a \in Nodes(c, "PROJECT") : g = Op(a) /\ g[2] = a
    BY <1>6, Kinds DEF Toks, Nodes, Op
  <2>3. world[seq][g[2]] \in Known
    BY <2>2 DEF Typed, Projects
  <2> QED BY <1>6, <2>1, <2>3, MappedValues DEF Says, Valued, Toks
<1>7. CASE TokOf(c, g) = "LOADED"
  BY <1>7 DEF Makes, Says, Valued, Toks, Known
<1>8. CASE TokOf(c, g) \in {"AND", "OR"}
  <2>1. PICK a \in DOMAIN c.tok : g = Op(a) /\ c.tok[a] = TokOf(c, g)
    BY <1>8, Kinds DEF Toks
  <2>2. /\ OutOf(c, c.kid[a][1]) \in FromOf(c, g) /\ OutOf(c, c.kid[a][2]) \in FromOf(c, g)
        /\ Source(OutOf(c, c.kid[a][1])) = OutOf(c, c.kid[a][1])
        /\ Source(OutOf(c, c.kid[a][2])) = OutOf(c, c.kid[a][2])
    BY <1>8, <2>1, Kids, NodesRead, Outs
  <2>3. /\ TokOf(c, OutOf(c, c.kid[a][1])) \in Valued /\ OutOf(c, c.kid[a][1]) \in Gor(c)
        /\ TokOf(c, OutOf(c, c.kid[a][2])) \in Valued /\ OutOf(c, c.kid[a][2]) \in Gor(c)
    BY <1>8, <2>2, Feeds
  <2>4. /\ val[OutOf(c, c.kid[a][1])].v \in Known /\ val[OutOf(c, c.kid[a][2])].v \in Known
        /\ g[2] = a
    BY <1>1, <2>1, <2>3 DEF Says, Op
  <2>5. v \in {SqlAnd(val[OutOf(c, c.kid[a][1])].v, val[OutOf(c, c.kid[a][2])].v),
               SqlOr(val[OutOf(c, c.kid[a][1])].v, val[OutOf(c, c.kid[a][2])].v)}
    BY <1>8, <2>4 DEF Makes
  <2>6. v \in Known
    BY <2>4, <2>5, SqlValues
  <2> QED BY <1>8, <2>6 DEF Says, Valued, Toks
<1>9. CASE TokOf(c, g) = "ARGV"
  BY <1>9 DEF Makes, Says, Valued, Toks, Known
<1>10. CASE TokOf(c, g) = "reduce"
  BY <1>10 DEF Makes, Says, Valued, Toks
<1>11. CASE TokOf(c, g) = "log_fdr"
  <2>1. s = Reduce /\ v = val[Source(s)].v
    BY <1>11, Feeds DEF Makes
  <2>2. Source(Reduce) = Reduce /\ Reduce \in Gor(c) /\ TokOf(c, Reduce) = "reduce"
    BY Names, Sources DEF Gor
  <2>3. v \in {"null", "fdr"}
    BY <1>1, <2>1, <2>2 DEF Says, Valued, Toks
  <2> QED BY <1>11, <2>3 DEF Says, Valued, Toks
<1>12. CASE TokOf(c, g) = "io"
  <2>1. v = val[Source(s)].v /\ val[Source(s)].v \in Known
    BY <1>3, <1>12, Feeds DEF Makes
  <2> QED BY <1>12, <2>1 DEF Says
<1>13. CASE TokOf(c, g) \in {"log", "merge"}
  <2>1. v = val[Source(s)].v /\ val[Source(s)].v \in Details
    BY <1>4, <1>13, Feeds DEF Makes
  <2> QED BY <1>13, <2>1 DEF Says, Valued, Toks
<1> QED BY <1>5, <1>6, <1>7, <1>8, <1>9, <1>10, <1>11, <1>12, <1>13, Kinds
        DEF Toks, Lower

\* What a goroutine makes is what the rules ask for.
LEMMA MadeObeys ==
  ASSUME NEW c \in Configs, Typed(c), NEW e, Ruled(c, e), NEW a \in DOMAIN c.tok,
         c.tok[a] \notin {"WHEN", "LEAF", "CALL"}, ~Done(Op(a)),
         NEW v, Makes(c, Op(a), v)
  PROVE  Obeys(c, world[seq], Current(c), v, a, Looked(c, e, a, seq - 1))
<1>1. Op(a) \in Gor(c) /\ TokOf(c, Op(a)) = c.tok[a] /\ Op(a)[2] = a
  BY Names DEF Gor, Op
<1>2. \A b \in DOMAIN c.tok : Current(c)[b] = val[OutOf(c, b)].v
  BY DEF Current
<1>3. ASSUME c.tok[a] \in {"NOT", "LOADED", "AND", "OR"}, NEW k \in DOMAIN c.tok, Under(c, k, a)
      PROVE  OutOf(c, k) \in FromOf(c, Op(a)) /\ val[Source(OutOf(c, k))].v = Current(c)[k]
  BY <1>2, <1>3, NodesRead, Outs
<1>4. CASE c.tok[a] = "NOT"
  <2>1. c.kid[a][1] \in DOMAIN c.tok /\ Under(c, c.kid[a][1], a)
    BY <1>4, Kids
  <2>2. v = Mapped("NOT", Current(c)[c.kid[a][1]])
    BY <1>1, <1>3, <1>4, <2>1 DEF Makes
  <2> QED BY <1>4, <2>2 DEF Obeys
<1>5. CASE c.tok[a] = "LOADED"
  <2>1. c.kid[a][1] \in DOMAIN c.tok /\ Under(c, c.kid[a][1], a) /\ a \in Nodes(c, "LOADED")
    BY <1>5, Kids DEF Nodes
  <2>2. v = IF <<c.ref[a], Current(c)[c.kid[a][1]]>> \in mapx THEN "true" ELSE "false"
    BY <1>1, <1>3, <1>5, <2>1 DEF Makes
  <2>3. <<c.ref[a], Current(c)[c.kid[a][1]]>> \in mapx <=>
          Current(c)[c.kid[a][1]] \in Looked(c, e, a, seq - 1)
    BY <2>1 DEF Ruled
  <2> QED BY <1>5, <2>2, <2>3 DEF Obeys
<1>6. CASE c.tok[a] \in {"AND", "OR"}
  <2>1. /\ c.kid[a][1] \in DOMAIN c.tok /\ c.kid[a][2] \in DOMAIN c.tok
    BY <1>6, Kids
  <2> QED BY <1>1, <1>2, <1>6, <2>1 DEF Makes, Obeys
<1>7. CASE c.tok[a] = "ARGV"
  <2>1. \A i \in DOMAIN c.kid[a] : Under(c, c.kid[a][i], a) /\ c.kid[a][i] \in DOMAIN c.tok
    <3>1. \A i \in DOMAIN c.kid[a] : Under(c, c.kid[a][i], a)
      BY DEF Under
    <3> QED BY <3>1, Kids
  <2>2. \A s \in FromOf(c, Op(a)) : \E k : Under(c, k, a) /\ s = <<"io", k>>
    BY <1>1, <1>7, Feeds
  <2>3. (\E s \in FromOf(c, Op(a)) : val[Source(s)].v = "null") <=>
          \E i \in DOMAIN c.kid[a] : Current(c)[c.kid[a][i]] = "null"
    <3>1. ASSUME NEW s \in FromOf(c, Op(a)), val[Source(s)].v = "null"
          PROVE  \E i \in DOMAIN c.kid[a] : Current(c)[c.kid[a][i]] = "null"
      <4>1. PICK k : Under(c, k, a) /\ s = <<"io", k>>
        BY <2>2
      <4>2. PICK i \in DOMAIN c.kid[a] : c.kid[a][i] = k
        BY <4>1 DEF Under
      <4>3. Source(s) = OutOf(c, k)
        BY <1>7, <4>1, NodesRead
      <4> QED BY <1>2, <2>1, <3>1, <4>2, <4>3
    <3>2. ASSUME NEW i \in DOMAIN c.kid[a], Current(c)[c.kid[a][i]] = "null"
          PROVE  \E s \in FromOf(c, Op(a)) : val[Source(s)].v = "null"
      <4>1. /\ <<"io", c.kid[a][i]>> \in FromOf(c, Op(a))
            /\ Source(<<"io", c.kid[a][i]>>) = OutOf(c, c.kid[a][i])
        BY <1>7, <2>1, NodesRead
      <4> QED BY <1>2, <2>1, <3>2, <4>1
    <3> QED BY <3>1, <3>2
  <2>4. v = IF \E s \in FromOf(c, Op(a)) : val[Source(s)].v = "null" THEN "null" ELSE "true"
    BY <1>1, <1>7 DEF Makes
  <2> QED BY <1>7, <2>3, <2>4 DEF Obeys
<1>8. CASE c.tok[a] = "PROJECT"
  <2>1. /\ c.ref[a] \in DOMAIN c.tok /\ Fanout(c.ref[a]) \in FromOf(c, Op(a))
        /\ Source(Fanout(c.ref[a])) = OutOf(c, c.ref[a])
    BY <1>8, Kids, NodesRead
  <2>2. v = Status(Current(c)[c.ref[a]], world[seq][a])
    BY <1>1, <1>2, <1>8, <2>1 DEF Makes
  <2> QED BY <1>8, <2>2 DEF Obeys
<1> QED BY <1>4, <1>5, <1>6, <1>7, <1>8, Configuration DEF Toks

LEMMA ReadKeeps ==
  ASSUME NEW c \in Configs, FInv(c), KInv(c), NEW g \in Gor(c), NEW s, NEW m,
         ReadAction(g, s, m), ~panic
  PROVE  KInv(c)'
<1>1. /\ Reads(c, g, s, pc'[g]) /\ UNCHANGED <<world, runs>>
      /\ s \in FromOf(c, g) /\ m = val[Source(s)] /\ Done(Source(s)) /\ seq > 0
      /\ \A t \in DOMAIN got[g] : got[g][t] = val[Source(t)] /\ Done(Source(t))
      /\ Waits(c, g, s, m) \/ Tells(c, g, m)
  BY ReadContent
<1>2. Ready(c, g, s) /\ pc'[g] \in {"read", "fire", "send"}
  BY <1>1, ActionsRead DEF Waits, Tells
<1>3. /\ Steady(c) /\ ~Done(g)
      /\ \A x \in GettersOf(c) : x # g => (Done(x)' <=> Done(x))
      /\ g \in GettersOf(c) => (Done(g)' <=> pc'[g] = "send")
      /\ \A x \in Gor(c) : x # g => /\ pc'[x] = "send" => pc[x] = "send"
                                    /\ pc'[x] = "fire" => pc[x] = "fire"
  BY <1>1, <1>2, ReadFrame
<1>4. /\ Carried(c) /\ Fed(c) /\ Typed(c) /\ Ran(c) /\ Summed(c)
      /\ Shape(c) /\ Passes(c)
  BY DEF KInv, FInv
<1>5. /\ UNCHANGED <<conf, wrk, seq, countA, countB, at>> /\ TokOf(c, g) # "fanout"
      /\ got' = [x \in Gor(c) |-> got'[x]] /\ val' = [x \in Gor(c) |-> val'[x]]
      /\ \A x \in Gor(c) \ {g} : got'[x] = got[x] /\ val'[x] = val[x]
      /\ put' = put \/ put' = [put EXCEPT ![g] = {}]
      /\ pc'[g] = "send" => got'[g] = <<>>
  BY <1>1 DEF Reads
<1>6. Carried(c)'
  <2>1. ASSUME NEW x \in GettersOf(c), NEW t \in DOMAIN got'[x]
        PROVE  \/ t \in DOMAIN got[x] /\ got'[x][t] = got[x][t]
               \/ t \in FromOf(c, x) /\ got'[x][t] = val[Source(t)] /\ Done(Source(t))
    <3>1. CASE x # g
      BY <1>5, <2>1, <3>1 DEF Gor
    <3>2. CASE x = g /\ Waits(c, g, s, m)
      <4>1. got'[g] = With(g, s, m)
        BY <3>2 DEF Waits
      <4>2. /\ DOMAIN With(g, s, m) = DOMAIN got[g] \cup {s}
            /\ With(g, s, m)[s] = m
            /\ \A u \in DOMAIN got[g] : u # s => With(g, s, m)[u] = got[g][u]
        BY DEF With
      <4> QED BY <1>1, <2>1, <3>2, <4>1, <4>2
    <3>3. CASE x = g /\ Tells(c, g, m)
      <4>1. got'[g] = <<>>
        BY <1>5, <3>3 DEF Tells
      <4> QED BY <2>1, <3>3, <4>1
    <3> QED BY <1>1, <3>1, <3>2, <3>3
  <2>2. ASSUME NEW x \in Gor(c), NEW f \in FromOf(c, x), NEW n \in put'[x]
        PROVE  n \in put[x]
    BY <1>4, <1>5, <2>2 DEF Shape
  <2>3. ASSUME NEW x \in Gor(c), TokOf(c, x) \in {"log", "merge", "io"}, pc'[x] = "send"
        PROVE  \/ pc[x] = "send" /\ val'[x] = val[x]
               \/ val'[x] = val[Source(x)] /\ Done(Source(x))
    <3>1. CASE x # g
      BY <1>3, <1>5, <2>3, <3>1
    <3>2. CASE x = g
      <4>1. val'[g] = m
        BY <1>1, <2>3, <3>2 DEF Waits, Tells
      <4>2. Source(s) = Source(g)
        BY <1>1, <2>3, <3>2, Feeds
      <4> QED BY <1>1, <3>2, <4>1, <4>2
    <3> QED BY <3>1, <3>2
  <2> QED BY <1>3, <1>4, <2>1, <2>2, <2>3, CarriedStep
<1>7. Fed(c)'
  <2>1. ASSUME NEW x \in GettersOf(c), Source(x) = x, Done(x)'
        PROVE  Done(x) \/ \A t \in FromOf(c, x) : Done(Source(t))
    <3>1. CASE x # g
      BY <1>3, <2>1, <3>1
    <3>2. CASE x = g
      <4>1. Tells(c, g, m)
        BY <1>1, <1>3, <2>1, <3>2 DEF Waits
      <4> QED BY <3>2, <4>1 DEF Tells
    <3> QED BY <3>1, <3>2
  <2>2. ASSUME NEW x \in GettersOf(c), pc'[x] = "fire"
        PROVE  \/ pc[x] = "fire" /\ got'[x] = got[x]
               \/ TokOf(c, x) = "CALL" /\ DOMAIN got'[x] = FromOf(c, x)
    <3>1. CASE x # g
      BY <1>3, <1>5, <2>2, <3>1 DEF Gor
    <3>2. CASE x = g
      BY <1>1, <2>2, <3>2 DEF Waits, Tells
    <3> QED BY <3>1, <3>2
  <2> QED BY <1>3, <1>4, <2>1, <2>2, FedStep
<1>8. Typed(c)'
  <2>1. val'[g] \in [flow : 0..seq, v : Says(c, g)]
    <3>1. CASE Waits(c, g, s, m)
      BY <1>4, <3>1 DEF Waits, Typed
    <3>2. CASE Tells(c, g, m)
      <4>1. val'[g].v \in Says(c, g)
        BY <1>1, <1>4, <3>2, MakesTyped DEF Tells
      <4>2. seq \in 0..seq
        BY <1>1, <1>4 DEF Shape
      <4>3. val'[g] = [flow |-> seq, v |-> val'[g].v]
        BY <3>2 DEF Tells
      <4> HIDE DEF Says
      <4> QED BY <4>1, <4>2, <4>3
    <3> QED BY <1>1, <3>1, <3>2
  <2>2. \A x \in Gor(c) : val'[x] \in [flow : 0..seq, v : Says(c, x)]
    BY <1>4, <1>5, <2>1 DEF Typed
  <2>3. mapx' \in SUBSET ({c.ref[a] : a \in Nodes(c, "LOADED")} \X Known)
    <3>1. CASE TokOf(c, g) = "LOADED" /\ Tells(c, g, m)
      <4>1. PICK a \in Nodes(c, "LOADED") : g = Op(a)
        BY <3>1, Kinds DEF Toks, Nodes
      <4>2. g[2] = a
        BY <4>1 DEF Op
      <4>3. m.v \in Known
        <5>1. TokOf(c, Source(s)) \in Valued /\ Source(s) \in Gor(c)
          BY <1>1, <3>1, Feeds, Sources DEF Gor
        <5>2. val[Source(s)].v \in Says(c, Source(s))
          BY <1>4, <5>1 DEF Typed
        <5> QED BY <1>1, <5>1, <5>2 DEF Says
      <4>4. mapx' = mapx \cup {<<c.ref[a], m.v>>}
        BY <3>1, <4>2 DEF Tells
      <4> QED BY <1>4, <4>1, <4>3, <4>4 DEF Typed
    <3>2. CASE ~(TokOf(c, g) = "LOADED" /\ Tells(c, g, m))
      <4>1. mapx' = mapx
        BY <1>1, <3>2 DEF Waits, Tells
      <4> QED BY <1>4, <4>1 DEF Typed
    <3> QED BY <3>1, <3>2
  <2> QED BY <1>1, <1>4, <1>5, <2>2, <2>3 DEF Typed
<1>9. \A a \in Nodes(c, "CALL") : Done(Op(a))' <=> Done(Op(a))
  <2>1. ASSUME NEW a \in Nodes(c, "CALL") PROVE Done(Op(a))' <=> Done(Op(a))
    <3>1. Op(a) \in GettersOf(c) /\ TokOf(c, Op(a)) = "CALL"
      BY Names DEF Nodes
    <3>2. CASE Op(a) = g
      BY <1>1, <1>3, <3>1, <3>2 DEF Waits, Tells
    <3>3. CASE Op(a) # g
      BY <1>3, <3>1, <3>3
    <3> QED BY <3>2, <3>3
  <2> QED BY <2>1
<1>10. Ran(c)'
  BY <1>1, <1>3, <1>4, <1>9, RanStep
<1>11. Summed(c)'
  <2>1. Reduce \in GettersOf(c) /\ TokOf(c, Reduce) = "reduce"
    BY Names
  <2>2. CASE g = Reduce /\ Tells(c, g, m)
    <3>1. \A a \in Nodes(c, "CALL") : Done(Op(a))
      <4>1. ASSUME NEW a \in Nodes(c, "CALL")
            PROVE  <<"merge", a>> \in FromOf(c, Reduce) /\ Source(<<"merge", a>>) = Op(a)
        BY <2>1, Names DEF FromOf, Sends, Source
      <4> QED BY <2>2, <4>1 DEF Tells
    <3> QED BY <1>3, <1>4, <2>1, <2>2, <3>1, SummedStep DEF Tells
  <2>3. CASE ~(g = Reduce /\ Tells(c, g, m))
    <3>1. fdr' = fdr
      BY <1>1, <2>3, Kinds DEF Waits, Tells
    <3>2. Done(Reduce)' <=> Done(Reduce)
      BY <1>1, <1>3, <2>1, <2>3 DEF Waits, Tells
    <3> QED BY <1>3, <1>4, <3>1, <3>2, SummedStep
  <2> QED BY <2>2, <2>3
<1> QED BY <1>6, <1>7, <1>8, <1>10, <1>11 DEF KInv

LEMMA ReadRuled ==
  ASSUME NEW c \in Configs, FInv(c), KInv(c), OwnMaps(c), NEW e, Ruled(c, e),
         NEW g \in Gor(c), NEW s, NEW m, ReadAction(g, s, m), ~panic
  PROVE  Ruled(c, e)'
<1>1. /\ Reads(c, g, s, pc'[g]) /\ UNCHANGED <<world, runs>>
      /\ s \in FromOf(c, g) /\ m = val[Source(s)] /\ Done(Source(s)) /\ seq > 0
      /\ Waits(c, g, s, m) \/ Tells(c, g, m)
  BY ReadContent
<1>2. Ready(c, g, s) /\ pc'[g] \in {"read", "fire", "send"}
  BY <1>1, ActionsRead DEF Waits, Tells
<1>3. /\ Steady(c) /\ ~Done(g)
      /\ \A x \in GettersOf(c) : x # g => (Done(x)' <=> Done(x))
      /\ g \in GettersOf(c) => (Done(g)' <=> pc'[g] = "send")
  BY <1>1, <1>2, ReadFrame
<1>4. Fed(c) /\ Typed(c)
  BY DEF KInv
<1>5. \A a \in DOMAIN c.tok : c.tok[a] # "WHEN" =>
        Op(a) \in GettersOf(c) /\ TokOf(c, Op(a)) = c.tok[a] /\ Op(a)[2] = a
  BY Names DEF Op
<1>6. ASSUME NEW a \in DOMAIN c.tok, c.tok[a] # "WHEN", Done(Op(a))', ~Done(Op(a))
      PROVE  /\ Obeys(c, world'[seq], Current(c), val'[Op(a)].v, a, Looked(c, e, a, seq - 1))
             /\ \A t \in FromOf(c, Op(a)) : Done(Source(t))
  <2>1. g = Op(a) /\ Tells(c, g, m)
    BY <1>1, <1>3, <1>5, <1>6 DEF Waits
  <2>2. c.tok[a] \notin {"CALL", "LEAF"} /\ Makes(c, Op(a), val'[Op(a)].v)
        /\ \A t \in FromOf(c, Op(a)) : Done(Source(t))
    BY <1>5, <1>6, <2>1 DEF Tells
  <2> QED BY <1>1, <1>4, <1>6, <2>2, MadeObeys
<1>7. ASSUME NEW a \in Nodes(c, "LOADED"), NEW v
      PROVE  <<c.ref[a], v>> \in mapx' <=>
               \/ <<c.ref[a], v>> \in mapx
               \/ ~Done(Op(a)) /\ Done(Op(a))' /\ v = Current(c)[c.kid[a][1]]
  <2>1. a \in DOMAIN c.tok /\ c.tok[a] = "LOADED" /\ TokOf(c, Op(a)) = "LOADED"
        /\ Op(a) \in GettersOf(c)
    BY <1>5 DEF Nodes
  <2>2. CASE Op(a) = g /\ Tells(c, g, m)
    <3>1. c.kid[a][1] \in DOMAIN c.tok /\ Under(c, c.kid[a][1], a)
      BY <2>1, Kids
    <3>2. OutOf(c, c.kid[a][1]) \in FromOf(c, g)
      BY <2>1, <2>2, <3>1, NodesRead
    <3>3. s = OutOf(c, c.kid[a][1])
      BY <1>1, <2>1, <2>2, <3>2, Wiring DEF Collectors
    <3>4. m.v = Current(c)[c.kid[a][1]]
      BY <1>1, <3>1, <3>3, Outs DEF Current
    <3>5. mapx' = mapx \cup {<<c.ref[a], m.v>>}
      BY <1>5, <2>1, <2>2 DEF Tells
    <3>6. ~Done(Op(a)) /\ Done(Op(a))'
      BY <1>3, <2>1, <2>2 DEF Tells
    <3> QED BY <3>4, <3>5, <3>6
  <2>3. CASE Op(a) # g
    <3>1. Done(Op(a))' <=> Done(Op(a))
      BY <1>3, <2>1, <2>3
    <3>2. <<c.ref[a], v>> \in mapx' <=> <<c.ref[a], v>> \in mapx
      <4>1. CASE TokOf(c, g) = "LOADED" /\ Tells(c, g, m)
        <5>1. PICK b \in Nodes(c, "LOADED") : g = Op(b)
          BY <4>1, Kinds DEF Toks, Nodes
        <5>2. c.ref[a] # c.ref[b]
          BY <2>3, <5>1 DEF OwnMaps
        <5>3. mapx' = mapx \cup {<<c.ref[b], m.v>>}
          BY <4>1, <5>1 DEF Tells, Op
        <5> QED BY <5>2, <5>3
      <4>2. CASE ~(TokOf(c, g) = "LOADED" /\ Tells(c, g, m))
        BY <1>1, <4>2 DEF Waits, Tells
      <4> QED BY <4>1, <4>2
    <3> QED BY <3>1, <3>2
  <2>4. CASE Op(a) = g /\ ~Tells(c, g, m)
    <3>1. mapx' = mapx /\ ~Done(g)'
      BY <1>1, <1>3, <2>1, <2>4 DEF Waits
    <3> QED BY <2>4, <3>1
  <2> QED BY <2>2, <2>3, <2>4
<1>8. \A f \in 1..(seq - 1) : world'[f] = world[f]
  BY <1>1
<1>9. \A a \in DOMAIN c.tok : c.tok[a] \in {"LEAF", "PROJECT", "CALL"} /\ Done(Op(a)) =>
        world'[seq][a] = world[seq][a]
  BY <1>1
<1> QED BY <1>3, <1>4, <1>6, <1>7, <1>8, <1>9, RuledStep

-----------------------------------------------------------------------------
(* The other steps.                                                          *)

LEMMA FanoutKeeps ==
  ASSUME NEW c \in Configs, FInv(c), KInv(c), NEW g \in Gor(c), NEW s, NEW m,
         fanout_xdr(g, s, m), ~panic
  PROVE  KInv(c)' /\ \A e : Ruled(c, e) => Ruled(c, e)'
<1>1. /\ Carried(c) /\ Fed(c) /\ Typed(c) /\ Ran(c) /\ Summed(c)
      /\ Shape(c) /\ Passes(c) /\ conf = c
  BY DEF KInv, FInv, Shape
<1>2. /\ Goroutines = Gor(c) /\ Tok(g) = TokOf(c, g)
      /\ \A x \in Gor(c) : From(x) = FromOf(c, x)
  BY <1>1, Known_
<1>3. /\ TokOf(c, g) = "fanout" /\ pc[g] = "read" /\ g \in GettersOf(c)
      /\ s \in FromOf(c, g) /\ m \in Offer(s, g)
      /\ UNCHANGED <<conf, wrk, seq, countA, countB, world, at, got, val, mapx, runs, fdr, panic>>
  BY <1>2, Kinds DEF fanout_xdr, worker, effect
<1>4. /\ s \in Gor(c) /\ s \in GettersOf(c) /\ TokOf(c, s) # "fanout"
      /\ Ready(c, g, s) /\ pc[s] = "send" /\ m = val[s] /\ at[s] = seq /\ seq > 0
  <2>1. s \in Gor(c)
    BY <1>3, Wiring
  <2>2. s \in GettersOf(c) /\ TokOf(c, s) # "fanout"
    BY <1>3, <2>1, Wiring
  <2>3. Ready(c, g, s) /\ pc[s] = "send" /\ m = val[s]
    BY <1>3, <2>2, Offered
  <2>4. wrk = "push" /\ seq > 0
    BY <1>1, <2>3 DEF Ready, Typed
  <2> QED BY <2>1, <2>2, <2>3, <2>4 DEF Ready
<1>5. Source(s) = s /\ s = Op(g[2]) /\ Done(s)
  <2>1. s = Op(g[2])
    BY <1>3, <1>4 DEF FromOf, Sends
  <2> QED BY <1>4, <2>1 DEF Source, Op, Done
<1>6. /\ pc'[g] = "get" /\ pc'[s] = "get"
      /\ \A x \in Gor(c) : x # g /\ x # s => pc'[x] = pc[x]
  <2>1. pc' = [pc EXCEPT ![s] = "get", ![g] = "get"]
    BY DEF fanout_xdr
  <2> QED BY <1>1, <1>4, <2>1 DEF Shape
<1>7. \A x \in Gor(c) : put'[x] = IF g \in FromOf(c, x) THEN put[x] \cup {m} ELSE put[x]
  BY <1>2 DEF fanout_xdr
<1>8. \A x \in GettersOf(c) : x # g => (Done(x)' <=> Done(x))
  BY <1>3, <1>5, <1>6 DEF Done, Gor
<1>9. Steady(c)
  BY <1>3, <1>8 DEF Steady, Done
<1>10. Carried(c)'
  <2>1. ASSUME NEW x \in Gor(c), NEW f \in FromOf(c, x), NEW n \in put'[x]
        PROVE  n \in put[x] \/ (n = val[Source(f)] /\ Done(Source(f)))
    <3>1. CASE g \in FromOf(c, x)
      <4>1. TokOf(c, x) \in {"PROJECT", "log"}
        BY <1>3, <3>1, Wiring
      <4>2. f = g
        BY <3>1, <4>1, Wiring DEF Collectors
      <4>3. Source(g) = s
        BY <1>3, <1>5, Sources
      <4> QED BY <1>4, <1>5, <1>7, <2>1, <3>1, <4>2, <4>3
    <3>2. CASE g \notin FromOf(c, x)
      BY <1>7, <2>1, <3>2
    <3> QED BY <3>1, <3>2
  <2>2. ASSUME NEW x \in Gor(c), TokOf(c, x) \in {"log", "merge", "io"}, pc'[x] = "send"
        PROVE  pc[x] = "send" /\ val'[x] = val[x]
    BY <1>3, <1>6, <2>2
  <2> QED BY <1>1, <1>3, <1>9, <2>1, <2>2, CarriedStep
<1>11. \A x \in GettersOf(c) : Source(x) = x => x # g
  BY <1>3, <1>4, <1>5, Sources
<1>12. Fed(c)'
  <2>1. \A x \in GettersOf(c) : pc'[x] = "fire" => pc[x] = "fire" /\ got'[x] = got[x]
    BY <1>3, <1>6 DEF Gor
  <2> QED BY <1>1, <1>8, <1>9, <1>11, <2>1, FedStep
<1>13. Typed(c)'
  BY <1>1, <1>3 DEF Typed
<1>14. \A a \in DOMAIN c.tok : c.tok[a] # "WHEN" => (Done(Op(a))' <=> Done(Op(a)))
  <2>1. ASSUME NEW a \in DOMAIN c.tok, c.tok[a] # "WHEN" PROVE Done(Op(a))' <=> Done(Op(a))
    <3>1. Op(a) \in GettersOf(c) /\ Source(Op(a)) = Op(a)
      BY <2>1, Names DEF Source, Op
    <3> QED BY <1>8, <1>11, <3>1
  <2> QED BY <2>1
<1>15. Ran(c)' /\ Summed(c)'
  <2>1. Done(Reduce)' <=> Done(Reduce)
    <3>1. Reduce \in GettersOf(c) /\ Reduce # g
      BY <1>3, Names
    <3> QED BY <1>8, <3>1
  <2>2. \A a \in Nodes(c, "CALL") : Done(Op(a))' <=> Done(Op(a))
    BY <1>14 DEF Nodes
  <2> QED BY <1>1, <1>3, <1>9, <2>1, <2>2, RanStep, SummedStep
<1>16. ASSUME NEW e, Ruled(c, e) PROVE Ruled(c, e)'
  <2>1. \A a \in Nodes(c, "LOADED") : \A v : <<c.ref[a], v>> \in mapx' <=>
           \/ <<c.ref[a], v>> \in mapx
           \/ ~Done(Op(a)) /\ Done(Op(a))' /\ v = Current(c)[c.kid[a][1]]
    BY <1>3, <1>14 DEF Nodes
  <2> QED BY <1>1, <1>3, <1>9, <1>14, <1>16, <2>1, RuledStep
<1> QED BY <1>10, <1>12, <1>13, <1>15, <1>16 DEF KInv

\* What a step that learns more of the current record leaves.
LEMMA RecordSet ==
  ASSUME NEW c \in Configs, Typed(c), seq > 0, NEW w \in Record(c), Projects(c, w),
         world' = [world EXCEPT ![seq] = w]
  PROVE  /\ world' \in Seq(Record(c)) /\ Len(world') = seq /\ world'[seq] = w
         /\ \A f \in 1..(seq - 1) : world'[f] = world[f]
         /\ \A f \in 1..seq : Projects(c, world'[f])
<1>1. world \in Seq(Record(c)) /\ Len(world) = seq /\ seq \in Nat
  BY DEF Typed
<1>2. DOMAIN world = 1..seq /\ seq \in 1..seq /\ world \in [1..seq -> Record(c)]
  <2>1. seq \in 1..seq
    BY <1>1
  <2>2. DOMAIN world = 1..seq /\ world \in [1..seq -> Record(c)]
    BY <1>1, LenProperties
  <2> QED BY <2>1, <2>2
<1>3. world' \in [1..seq -> Record(c)]
  BY <1>2
<1>4. world' \in Seq(Record(c)) /\ Len(world') = seq
  <2>1. \A u : u \in [1..seq -> Record(c)] => u \in Seq(Record(c)) /\ Len(u) = seq
    BY <1>1, SeqDef, LenProperties
  <2> QED BY <1>3, <2>1
<1>5. world'[seq] = w /\ \A f \in 1..(seq - 1) : world'[f] = world[f]
  BY <1>1, <1>2
<1>6. ASSUME NEW f \in 1..seq PROVE Projects(c, world'[f])
  <2>1. Projects(c, world[f])
    BY DEF Typed
  <2>2. f = seq \/ f \in 1..(seq - 1)
    BY <1>1
  <2>3. world'[f] = w \/ world'[f] = world[f]
    BY <1>5, <2>2
  <2> QED BY <2>1, <2>3
<1> QED BY <1>4, <1>5, <1>6

LEMMA FieldSet ==
  ASSUME NEW c \in Configs, Typed(c), seq > 0, NEW k \in Nodes(c, "LEAF"),
         NEW v \in {"false", "true"}, world' = [world EXCEPT ![seq][k] = v]
  PROVE  /\ world' \in Seq(Record(c)) /\ Len(world') = seq
         /\ \A f \in 1..(seq - 1) : world'[f] = world[f]
         /\ \A f \in 1..seq : Projects(c, world'[f])
         /\ world'[seq][k] = v
         /\ \A b \in DOMAIN c.tok : c.tok[b] \in {"LEAF", "PROJECT", "CALL"} /\ b # k =>
              world'[seq][b] = world[seq][b]
<1>1. world[seq] \in Record(c) /\ Projects(c, world[seq]) /\ seq \in DOMAIN world
  BY LenProperties DEF Typed
<1>2. PICK w : w = [world[seq] EXCEPT ![k] = v]
  OBVIOUS
<1>3. /\ w \in Record(c) /\ w[k] = v
      /\ \A b \in DOMAIN c.tok : c.tok[b] \in {"LEAF", "PROJECT", "CALL"} /\ b # k =>
           w[b] = world[seq][b]
  BY <1>1, <1>2 DEF Record, Nodes
<1>4. Projects(c, w)
  BY <1>1, <1>3 DEF Projects, Nodes
<1>5. world' = [world EXCEPT ![seq] = w]
  BY <1>1, <1>2
<1>6. /\ world' \in Seq(Record(c)) /\ Len(world') = seq /\ world'[seq] = w
      /\ \A f \in 1..(seq - 1) : world'[f] = world[f]
      /\ \A f \in 1..seq : Projects(c, world'[f])
  BY <1>3, <1>4, <1>5, RecordSet
<1> QED BY <1>3, <1>6

LEMMA PushKeeps ==
  ASSUME NEW c \in Configs, FInv(c), KInv(c), NEW g \in Gor(c), push(g), ~panic
  PROVE  KInv(c)' /\ \A e : Ruled(c, e) => Ruled(c, e)'
<1>1. /\ Carried(c) /\ Fed(c) /\ Typed(c) /\ Ran(c) /\ Summed(c)
      /\ Shape(c) /\ Passes(c) /\ conf = c
  BY DEF KInv, FInv, Shape
<1>2. Tok(g) = TokOf(c, g)
  BY <1>1, Known_
<1>3. /\ wrk = "push" /\ seq > 0 /\ seq \in Nat /\ pc[g] = "get" /\ at[g] = seq - 1
      /\ at' = [at EXCEPT ![g] = seq]
      /\ UNCHANGED <<conf, wrk, seq, got, put, mapx, runs, fdr, panic>>
  BY <1>1 DEF push, effect, Typed, Shape
<1>4. g \in GettersOf(c) /\ ~Done(g)
  BY <1>1, <1>3 DEF Passes, Gor, Done
<1>5. /\ at'[g] = seq /\ \A x \in Gor(c) \ {g} : at'[x] = at[x]
      /\ pc'[g] = IF TokOf(c, g) = "LEAF" THEN "send" ELSE "read"
      /\ \A x \in Gor(c) \ {g} : pc'[x] = pc[x] /\ val'[x] = val[x]
  <2>1. pc' = [pc EXCEPT ![g] = IF TokOf(c, g) = "LEAF" THEN "send" ELSE "read"]
    BY <1>2 DEF push
  <2>2. \A x \in Gor(c) \ {g} : val'[x] = val[x]
    BY <1>1 DEF push, Shape
  <2> QED BY <1>1, <1>3, <2>1, <2>2 DEF Shape
<1>6. \A x \in GettersOf(c) : x # g => (Done(x)' <=> Done(x))
  BY <1>3, <1>5 DEF Done, Gor
<1>7. Steady(c)
  BY <1>3, <1>4, <1>5, <1>6 DEF Steady, Gor
<1>8. Done(g)' <=> TokOf(c, g) = "LEAF"
  BY <1>3, <1>5 DEF Done
<1>9. Carried(c)'
  <2>1. ASSUME NEW x \in Gor(c), TokOf(c, x) \in {"log", "merge", "io"}, pc'[x] = "send"
        PROVE  pc[x] = "send" /\ val'[x] = val[x]
    BY <1>5, <2>1
  <2> QED BY <1>1, <1>3, <1>7, <2>1, CarriedStep
<1>10. Fed(c)'
  <2>1. TokOf(c, g) = "LEAF" => FromOf(c, g) = {}
    BY Wiring
  <2>2. \A x \in GettersOf(c) : pc'[x] = "fire" => pc[x] = "fire" /\ got'[x] = got[x]
    BY <1>3, <1>5 DEF Gor
  <2> QED BY <1>1, <1>6, <1>7, <1>8, <2>1, <2>2, FedStep
<1>11. CASE TokOf(c, g) # "LEAF"
  <2>1. world' = world /\ val' = val
    BY <1>2, <1>11 DEF push
  <2>2. \A x \in GettersOf(c) : Done(x)' <=> Done(x)
    BY <1>4, <1>6, <1>8, <1>11
  <2>3. \A a \in DOMAIN c.tok : c.tok[a] # "WHEN" => (Done(Op(a))' <=> Done(Op(a)))
    BY <2>2, Names
  <2>4. Typed(c)'
    <3>1. \A x \in PassersOf(c) : at'[x] = 0
      <4>1. \A x \in PassersOf(c) : x \in Gor(c) /\ x # g
        BY <1>4, Kinds DEF Gor, Toks
      <4> QED BY <1>1, <1>5, <4>1 DEF Typed
    <3> QED BY <1>1, <1>3, <2>1, <3>1 DEF Typed
  <2>5. Ran(c)' /\ Summed(c)'
    <3>1. Done(Reduce)' <=> Done(Reduce)
      BY <2>2, Names
    <3>2. \A a \in Nodes(c, "CALL") : Done(Op(a))' <=> Done(Op(a))
      BY <2>3 DEF Nodes
    <3> QED BY <1>1, <1>3, <1>7, <3>1, <3>2, RanStep, SummedStep
  <2>6. ASSUME NEW e, Ruled(c, e) PROVE Ruled(c, e)'
    <3>1. \A a \in Nodes(c, "LOADED") : \A v : <<c.ref[a], v>> \in mapx' <=>
             \/ <<c.ref[a], v>> \in mapx
             \/ ~Done(Op(a)) /\ Done(Op(a))' /\ v = Current(c)[c.kid[a][1]]
      BY <1>3, <2>3 DEF Nodes
    <3> QED BY <1>1, <1>7, <2>1, <2>3, <2>6, <3>1, RuledStep
  <2> QED BY <1>9, <1>10, <2>4, <2>5, <2>6 DEF KInv
<1>12. CASE TokOf(c, g) = "LEAF"
  <2>1. PICK k \in Nodes(c, "LEAF") : g = Op(k)
    BY <1>12, Kinds DEF Toks, Nodes
  <2>2. k \in DOMAIN c.tok /\ c.tok[k] = "LEAF" /\ g[2] = k
    BY <2>1 DEF Nodes, Op
  <2>3. PICK v \in {"false", "true"} :
          /\ world' = [world EXCEPT ![seq][k] = v]
          /\ val' = [val EXCEPT ![g] = [flow |-> seq, v |-> v]]
    BY <1>2, <1>12, <2>2 DEF push
  <2>4. val'[g] = [flow |-> seq, v |-> v]
    BY <1>1, <2>3 DEF Shape
  <2>5. /\ world' \in Seq(Record(c)) /\ Len(world') = seq
        /\ \A f \in 1..(seq - 1) : world'[f] = world[f]
        /\ \A f \in 1..seq : Projects(c, world'[f])
        /\ world'[seq][k] = v
        /\ \A b \in DOMAIN c.tok : c.tok[b] \in {"LEAF", "PROJECT", "CALL"} /\ b # k =>
             world'[seq][b] = world[seq][b]
    BY <1>1, <1>3, <2>3, FieldSet
  <2>6. \A a \in DOMAIN c.tok : c.tok[a] # "WHEN" /\ a # k => (Done(Op(a))' <=> Done(Op(a)))
    <3>1. ASSUME NEW a \in DOMAIN c.tok, c.tok[a] # "WHEN", a # k PROVE Op(a) # g
      BY <2>1, <3>1 DEF Op
    <3> QED BY <1>6, <3>1, Names
  <2>7. Typed(c)'
    <3>1. \A x \in PassersOf(c) : at'[x] = 0
      <4>1. \A x \in PassersOf(c) : x \in Gor(c) /\ x # g
        BY <1>4, Kinds DEF Gor, Toks
      <4> QED BY <1>1, <1>5, <4>1 DEF Typed
    <3>2. \A x \in Gor(c) : val'[x] \in [flow : 0..seq, v : Says(c, x)]
      <4>1. v \in Says(c, g) /\ seq \in 0..seq
        BY <1>3, <1>12, <2>3 DEF Says, Valued, Toks, Known
      <4>2. val'[g] \in [flow : 0..seq, v : Says(c, g)]
        <5> HIDE DEF Says
        <5> QED BY <2>4, <4>1
      <4> QED BY <1>1, <1>5, <4>2 DEF Typed
    <3> QED BY <1>1, <1>3, <2>5, <3>1, <3>2 DEF Typed
  <2>8. Ran(c)' /\ Summed(c)'
    <3>1. Done(Reduce)' <=> Done(Reduce)
      BY <1>6, <1>12, Names DEF Toks
    <3>2. \A a \in Nodes(c, "CALL") : Done(Op(a))' <=> Done(Op(a))
      BY <2>2, <2>6 DEF Nodes
    <3> QED BY <1>1, <1>3, <1>7, <3>1, <3>2, RanStep, SummedStep
  <2>9. ASSUME NEW e, Ruled(c, e) PROVE Ruled(c, e)'
    <3>1. \A a \in Nodes(c, "LOADED") : \A u : <<c.ref[a], u>> \in mapx' <=>
             \/ <<c.ref[a], u>> \in mapx
             \/ ~Done(Op(a)) /\ Done(Op(a))' /\ u = Current(c)[c.kid[a][1]]
      BY <1>3, <2>2, <2>6 DEF Nodes
    <3>2. ASSUME NEW a \in DOMAIN c.tok, c.tok[a] # "WHEN", Done(Op(a))', ~Done(Op(a))
          PROVE  /\ Obeys(c, world'[seq], Current(c), val'[Op(a)].v, a, Looked(c, e, a, seq - 1))
                 /\ \A s \in FromOf(c, Op(a)) : Done(Source(s))
      <4>1. a = k
        BY <2>6, <3>2
      <4>2. FromOf(c, Op(a)) = {}
        BY <1>12, <2>1, <4>1, Wiring
      <4>3. val'[Op(a)].v = world'[seq][a]
        BY <2>1, <2>4, <2>5, <4>1
      <4> QED BY <2>2, <4>1, <4>2, <4>3 DEF Obeys
    <3>3. \A a \in DOMAIN c.tok : c.tok[a] \in {"LEAF", "PROJECT", "CALL"} /\ Done(Op(a)) =>
            world'[seq][a] = world[seq][a]
      BY <1>4, <2>1, <2>5
    <3> QED BY <1>1, <1>7, <2>5, <2>9, <3>1, <3>2, <3>3, RuledStep
  <2> QED BY <1>9, <1>10, <2>7, <2>8, <2>9 DEF KInv
<1> QED BY <1>11, <1>12

\* What is known of the record when command k has ended with v and r.
Result(k, v, r) ==
  [a \in DOMAIN world[seq] |-> IF a = k THEN v
                               ELSE IF a \in Fields(k) THEN r[a] ELSE world[seq][a]]

LEMMA ResultSet ==
  ASSUME NEW c \in Configs, conf = c, Typed(c), seq > 0, NEW k \in Nodes(c, "CALL"),
         NEW v \in {"OK", "ERR"}, NEW r \in [Fields(k) -> Known],
         world' = [world EXCEPT ![seq] = Result(k, v, r)]
  PROVE  /\ world' \in Seq(Record(c)) /\ Len(world') = seq
         /\ \A f \in 1..(seq - 1) : world'[f] = world[f]
         /\ \A f \in 1..seq : Projects(c, world'[f])
         /\ world'[seq][k] = v
         /\ \A b \in DOMAIN c.tok :
              /\ c.tok[b] \in {"LEAF", "PROJECT", "CALL"} /\ b # k
              /\ ~(c.tok[b] = "PROJECT" /\ c.ref[b] = k)
              => world'[seq][b] = world[seq][b]
<1>1. world[seq] \in Record(c) /\ Projects(c, world[seq])
  BY LenProperties DEF Typed
<1>2. Fields(k) = {b \in Nodes(c, "PROJECT") : c.ref[b] = k}
  BY DEF Fields
<1>3. PICK w : w = Result(k, v, r)
  OBVIOUS
<1>4. /\ w = [a \in DOMAIN world[seq] |->
                IF a = k THEN v ELSE IF a \in Fields(k) THEN r[a] ELSE world[seq][a]]
      /\ DOMAIN world[seq] = Nodes(c, "LEAF") \cup Nodes(c, "PROJECT") \cup Nodes(c, "CALL")
  BY <1>1, <1>3 DEF Result, Record
<1>5. w \in Record(c)
  BY <1>1, <1>2, <1>4 DEF Record, Known
<1>6. Projects(c, w)
  <2>1. ASSUME NEW a \in Nodes(c, "PROJECT") PROVE w[a] \in Known
    <3>1. a # k /\ w[a] \in {r[a], world[seq][a]} /\ (a \notin Fields(k) => w[a] = world[seq][a])
      BY <1>4 DEF Nodes
    <3> QED BY <1>1, <1>4, <3>1 DEF Projects
  <2> QED BY <2>1 DEF Projects
<1>7. /\ w[k] = v
      /\ \A b \in DOMAIN c.tok :
           /\ c.tok[b] \in {"LEAF", "PROJECT", "CALL"} /\ b # k
           /\ ~(c.tok[b] = "PROJECT" /\ c.ref[b] = k)
           => w[b] = world[seq][b]
  BY <1>2, <1>4 DEF Nodes
<1>8. /\ world' \in Seq(Record(c)) /\ Len(world') = seq /\ world'[seq] = w
      /\ \A f \in 1..(seq - 1) : world'[f] = world[f]
      /\ \A f \in 1..seq : Projects(c, world'[f])
  BY <1>3, <1>5, <1>6, RecordSet
<1> QED BY <1>7, <1>8

LEMMA CallKeeps ==
  ASSUME NEW c \in Configs, FInv(c), KInv(c), NEW g \in Gor(c), call(g), ~panic
  PROVE  KInv(c)' /\ \A e : Ruled(c, e) => Ruled(c, e)'
<1>1. /\ Carried(c) /\ Fed(c) /\ Typed(c) /\ Ran(c) /\ Summed(c)
      /\ Shape(c) /\ Passes(c) /\ Follows(c) /\ conf = c
  BY DEF KInv, FInv, Shape
<1>2. /\ pc[g] = "fire" /\ pc' = [pc EXCEPT ![g] = "send"]
      /\ got' = [got EXCEPT ![g] = <<>>]
      /\ UNCHANGED <<conf, wrk, seq, countA, countB, at, put, mapx, fdr, panic>>
  BY DEF call, Fire, Keep, worker
<1>3. /\ g \in GettersOf(c) /\ at[g] = seq /\ wrk = "push" /\ seq > 0 /\ ~Done(g)
      /\ TokOf(c, g) = "CALL" /\ DOMAIN got[g] = FromOf(c, g) /\ seq \in Nat
  <2>1. g \in GettersOf(c)
    BY <1>1, <1>2 DEF Passes, Gor
  <2>2. at[g] = seq /\ wrk = "push"
    BY <1>1, <1>2, <2>1 DEF Follows, FInv, Quiet
  <2> QED BY <1>1, <1>2, <2>1, <2>2 DEF Typed, Fed, Done, Shape
<1>4. PICK k \in Nodes(c, "CALL") : g = Op(k)
  BY <1>3, Kinds DEF Toks, Nodes
<1>5. k \in DOMAIN c.tok /\ c.tok[k] = "CALL" /\ g[2] = k
  BY <1>4 DEF Nodes, Op
<1>6. /\ pc'[g] = "send" /\ Done(g)' /\ got'[g] = <<>>
      /\ \A x \in Gor(c) \ {g} : pc'[x] = pc[x] /\ got'[x] = got[x]
  BY <1>1, <1>2, <1>3 DEF Shape, Done
<1> DEFINE args == Current(c)[c.kid[k][1]]
           when == Current(c)[c.kid[k][2]]
<1>7. /\ got[g][Arg(g, 1)].v = args /\ got[g][Arg(g, 2)].v = when
      /\ args \in Known /\ when \in Known
  <2>1. /\ c.kid[k][1] \in DOMAIN c.tok /\ Under(c, c.kid[k][1], k)
        /\ c.kid[k][2] \in DOMAIN c.tok /\ Under(c, c.kid[k][2], k)
    BY <1>5, Kids
  <2>2. Arg(g, 1) = OutOf(c, c.kid[k][1]) /\ Arg(g, 2) = OutOf(c, c.kid[k][2])
    BY <1>1, <1>5 DEF Arg
  <2>3. ASSUME NEW j \in DOMAIN c.tok, Under(c, j, k)
        PROVE  got[g][OutOf(c, j)].v = Current(c)[j] /\ Current(c)[j] \in Known
    <3>1. OutOf(c, j) \in FromOf(c, g) /\ Source(OutOf(c, j)) = OutOf(c, j)
      BY <1>4, <1>5, <2>3, NodesRead, Outs
    <3>2. got[g][OutOf(c, j)] = val[OutOf(c, j)]
      BY <1>1, <1>3, <3>1 DEF Carried
    <3>3. TokOf(c, OutOf(c, j)) \in Valued /\ OutOf(c, j) \in Gor(c)
      BY <1>3, <3>1, Feeds
    <3>4. val[OutOf(c, j)].v \in Says(c, OutOf(c, j))
      BY <1>1, <3>3 DEF Typed
    <3>5. val[OutOf(c, j)].v \in Known
      BY <3>3, <3>4 DEF Says
    <3> QED BY <3>2, <3>5 DEF Current
  <2> QED BY <2>1, <2>2, <2>3
<1> HIDE DEF args, when
<1>8. \/ /\ args # "null" /\ when = "true"
         /\ \E v \in {"OK", "ERR"}, r \in [Fields(k) -> Known] :
              /\ world' = [world EXCEPT ![seq] = Result(k, v, r)]
              /\ runs' = [runs EXCEPT ![k] = @ + 1]
              /\ val' = [val EXCEPT ![g] = [flow |-> seq, v |-> v]]
      \/ /\ ~(args # "null" /\ when = "true") /\ UNCHANGED <<world, runs>>
         /\ val' = [val EXCEPT ![g] = [flow |-> seq, v |-> IF "null" \in {args, when}
                                                           THEN "null" ELSE "nil"]]
  BY <1>3, <1>5, <1>7 DEF call, Fire, Say, Result
<1>9. PICK v \in Details : /\ val' = [val EXCEPT ![g] = [flow |-> seq, v |-> v]]
                           /\ \/ /\ v \in {"OK", "ERR"} /\ args # "null" /\ when = "true"
                                 /\ \E r \in [Fields(k) -> Known] :
                                      world' = [world EXCEPT ![seq] = Result(k, v, r)]
                                 /\ runs' = [runs EXCEPT ![k] = @ + 1]
                              \/ /\ ~(args # "null" /\ when = "true")
                                 /\ v = IF "null" \in {args, when} THEN "null" ELSE "nil"
                                 /\ UNCHANGED <<world, runs>>
  BY <1>8 DEF Details
<1>10. /\ val'[g] = [flow |-> seq, v |-> v]
       /\ \A x \in Gor(c) \ {g} : val'[x] = val[x]
  BY <1>1, <1>9 DEF Shape
<1>11. \A x \in GettersOf(c) : x # g => (Done(x)' <=> Done(x))
  BY <1>2, <1>6 DEF Done, Gor
<1>12. Steady(c)
  BY <1>2, <1>3, <1>10, <1>11 DEF Steady, Gor
<1>13. \A a \in DOMAIN c.tok : c.tok[a] # "WHEN" /\ a # k =>
         Op(a) # g /\ (Done(Op(a))' <=> Done(Op(a)))
  <2>1. ASSUME NEW a \in DOMAIN c.tok, c.tok[a] # "WHEN", a # k PROVE Op(a) # g
    BY <1>4, <2>1 DEF Op
  <2> QED BY <1>11, <2>1, Names
<1>14. \A s \in FromOf(c, g) : Done(Source(s))
  BY <1>1, <1>3 DEF Carried
<1>15. Carried(c)'
  <2>1. ASSUME NEW x \in Gor(c), TokOf(c, x) \in {"log", "merge", "io"}, pc'[x] = "send"
        PROVE  pc[x] = "send" /\ val'[x] = val[x]
    BY <1>3, <1>6, <1>10, <2>1
  <2>2. \A x \in GettersOf(c) : \A s \in DOMAIN got'[x] :
          s \in DOMAIN got[x] /\ got'[x][s] = got[x][s]
    BY <1>6 DEF Gor
  <2> QED BY <1>1, <1>2, <1>12, <2>1, <2>2, CarriedStep
<1>16. Fed(c)'
  <2>1. \A x \in GettersOf(c) : pc'[x] = "fire" => pc[x] = "fire" /\ got'[x] = got[x]
    BY <1>6 DEF Gor
  <2> QED BY <1>1, <1>11, <1>12, <1>14, <2>1, FedStep
<1>17. /\ world' \in Seq(Record(c)) /\ Len(world') = seq
       /\ \A f \in 1..(seq - 1) : world'[f] = world[f]
       /\ \A f \in 1..seq : Projects(c, world'[f])
       /\ v \in {"OK", "ERR"} => world'[seq][k] = v
       /\ \A b \in DOMAIN c.tok :
            /\ c.tok[b] \in {"LEAF", "PROJECT", "CALL"} /\ b # k
            /\ ~(c.tok[b] = "PROJECT" /\ c.ref[b] = k)
            => world'[seq][b] = world[seq][b]
  <2>1. ASSUME v \in {"OK", "ERR"}, NEW r \in [Fields(k) -> Known],
               world' = [world EXCEPT ![seq] = Result(k, v, r)]
        PROVE  /\ world' \in Seq(Record(c)) /\ Len(world') = seq
               /\ \A f \in 1..(seq - 1) : world'[f] = world[f]
               /\ \A f \in 1..seq : Projects(c, world'[f])
               /\ v \in {"OK", "ERR"} => world'[seq][k] = v
               /\ \A b \in DOMAIN c.tok :
                    /\ c.tok[b] \in {"LEAF", "PROJECT", "CALL"} /\ b # k
                    /\ ~(c.tok[b] = "PROJECT" /\ c.ref[b] = k)
                    => world'[seq][b] = world[seq][b]
    BY <1>1, <1>3, <2>1, ResultSet
  <2>2. CASE v \notin {"OK", "ERR"} /\ world' = world
    BY <1>1, <2>2 DEF Typed
  <2> QED BY <1>9, <2>1, <2>2
<1>18. Typed(c)'
  <2>1. v \in Says(c, g) /\ seq \in 0..seq
    BY <1>3 DEF Says, Valued, Toks
  <2>2. val'[g] \in [flow : 0..seq, v : Says(c, g)]
    <3> HIDE DEF Says
    <3> QED BY <1>10, <2>1
  <2>3. \A x \in Gor(c) : val'[x] \in [flow : 0..seq, v : Says(c, x)]
    BY <1>1, <1>10, <2>2 DEF Typed
  <2> QED BY <1>1, <1>2, <1>17, <2>3 DEF Typed
<1>19. Ran(c)'
  <2>1. runs[k] = 0 /\ runs = [a \in Nodes(c, "CALL") |-> runs[a]]
    BY <1>1, <1>3, <1>4 DEF Ran
  <2>2. runs' = [a \in Nodes(c, "CALL") |-> runs'[a]]
    BY <1>9, <2>1
  <2>3. runs'[k] = IF v \in {"OK", "ERR"} THEN 1 ELSE 0
    BY <1>9, <2>1
  <2>4. ASSUME NEW a \in Nodes(c, "CALL"), a # k
        PROVE  runs'[a] = runs[a] /\ (Done(Op(a))' <=> Done(Op(a))) /\ val'[Op(a)] = val[Op(a)]
    <3>1. a \in DOMAIN c.tok /\ c.tok[a] # "WHEN" /\ Op(a) \in Gor(c)
      BY Names DEF Nodes, Gor
    <3> QED BY <1>9, <1>10, <1>13, <2>1, <2>4, <3>1
  <2> QED BY <1>1, <1>4, <1>6, <1>10, <2>2, <2>3, <2>4 DEF Ran
<1>20. Summed(c)'
  <2>1. Done(Reduce)' <=> Done(Reduce)
    BY <1>3, <1>11, Names DEF Toks
  <2> QED BY <1>1, <1>2, <1>12, <2>1, SummedStep
<1>21. ASSUME NEW e, Ruled(c, e) PROVE Ruled(c, e)'
  <2>1. \A a \in Nodes(c, "LOADED") : \A u : <<c.ref[a], u>> \in mapx' <=>
             \/ <<c.ref[a], u>> \in mapx
             \/ ~Done(Op(a)) /\ Done(Op(a))' /\ u = Current(c)[c.kid[a][1]]
    BY <1>2, <1>5, <1>13 DEF Nodes
  <2>2. ASSUME NEW a \in DOMAIN c.tok, c.tok[a] # "WHEN", Done(Op(a))', ~Done(Op(a))
        PROVE  /\ Obeys(c, world'[seq], Current(c), val'[Op(a)].v, a, Looked(c, e, a, seq - 1))
               /\ \A s \in FromOf(c, Op(a)) : Done(Source(s))
    <3>1. a = k
      BY <1>13, <2>2
    <3>2. v = IF "null" \in {args, when} THEN "null"
              ELSE IF when = "true" THEN world'[seq][k] ELSE "nil"
      BY <1>9, <1>17
    <3> QED BY <1>4, <1>5, <1>10, <1>14, <3>1, <3>2 DEF Obeys, args, when
  <2>3. \A a \in DOMAIN c.tok : c.tok[a] \in {"LEAF", "PROJECT", "CALL"} /\ Done(Op(a)) =>
          world'[seq][a] = world[seq][a]
    <3>1. ASSUME NEW a \in DOMAIN c.tok, c.tok[a] = "PROJECT", c.ref[a] = k, Done(Op(a))
          PROVE  FALSE
      <4>1. Op(a) \in GettersOf(c) /\ Source(Op(a)) = Op(a)
        BY <3>1, Names DEF Source, Op
      <4>2. Fanout(k) \in FromOf(c, Op(a)) /\ Source(Fanout(k)) = g
        BY <1>4, <1>5, <3>1, NodesRead, Outs
      <4>3. Done(g)
        BY <1>1, <3>1, <4>1, <4>2 DEF Fed
      <4> QED BY <1>3, <4>3
    <3> QED BY <1>3, <1>4, <1>17, <3>1
  <2> QED BY <1>1, <1>12, <1>17, <1>21, <2>1, <2>2, <2>3, RuledStep
<1> QED BY <1>15, <1>16, <1>18, <1>19, <1>20, <1>21 DEF KInv

LEMMA ResolveKeeps ==
  ASSUME NEW c \in Configs, FInv(c), KInv(c), resolve, ~panic
  PROVE  KInv(c)' /\ \A e : Ruled(c, e) => Ruled(c, e)'
<1>1. /\ Carried(c) /\ Fed(c) /\ Typed(c) /\ Ran(c) /\ Summed(c)
      /\ Shape(c) /\ Passes(c) /\ Follows(c)
  BY DEF KInv, FInv
<1>2. /\ pc[LogFdr] = "send" /\ pc' = [pc EXCEPT ![LogFdr] = "get"] /\ wrk' = "idle"
      /\ UNCHANGED <<conf, seq, countA, countB, world, at, got, val, put, mapx, runs, fdr>>
  BY DEF resolve, effect
<1>3. LogFdr \in GettersOf(c) /\ LogFdr \in Gor(c)
  BY Names DEF Gor
<1>4. pc'[LogFdr] = "get" /\ \A x \in Gor(c) \ {LogFdr} : pc'[x] = pc[x]
  BY <1>1, <1>2, <1>3 DEF Shape
<1>5. \A x \in GettersOf(c) : Done(x)' <=> Done(x)
  <2>1. ASSUME NEW x \in GettersOf(c) PROVE Done(x)' <=> Done(x)
    <3>1. CASE x = LogFdr
      BY <1>2, <1>4, <3>1 DEF Done
    <3>2. CASE x # LogFdr
      BY <1>2, <1>4, <3>2 DEF Done, Gor
    <3> QED BY <3>1, <3>2
  <2> QED BY <2>1
<1>6. Steady(c)
  BY <1>2, <1>5 DEF Steady
<1>7. \A a \in DOMAIN c.tok : c.tok[a] # "WHEN" => (Done(Op(a))' <=> Done(Op(a)))
  BY <1>5, Names
<1>8. Carried(c)'
  <2>1. ASSUME NEW x \in Gor(c), TokOf(c, x) \in {"log", "merge", "io"}, pc'[x] = "send"
        PROVE  pc[x] = "send" /\ val'[x] = val[x]
    BY <1>2, <1>4, <2>1
  <2> QED BY <1>1, <1>2, <1>6, <2>1, CarriedStep
<1>9. Fed(c)'
  <2>1. \A x \in GettersOf(c) : pc'[x] = "fire" => pc[x] = "fire" /\ got'[x] = got[x]
    BY <1>2, <1>4 DEF Gor
  <2> QED BY <1>1, <1>5, <1>6, <2>1, FedStep
<1>10. Typed(c)'
  BY <1>1, <1>2 DEF Typed
<1>11. Ran(c)' /\ Summed(c)'
  <2>1. Done(Reduce)' <=> Done(Reduce)
    BY <1>5, Names
  <2>2. \A a \in Nodes(c, "CALL") : Done(Op(a))' <=> Done(Op(a))
    BY <1>7 DEF Nodes
  <2> QED BY <1>1, <1>2, <1>6, <2>1, <2>2, RanStep, SummedStep
<1>12. ASSUME NEW e, Ruled(c, e) PROVE Ruled(c, e)'
  <2>1. \A a \in Nodes(c, "LOADED") : \A v : <<c.ref[a], v>> \in mapx' <=>
           \/ <<c.ref[a], v>> \in mapx
           \/ ~Done(Op(a)) /\ Done(Op(a))' /\ v = Current(c)[c.kid[a][1]]
    BY <1>2, <1>7 DEF Nodes
  <2> QED BY <1>1, <1>2, <1>6, <1>7, <1>12, <2>1, RuledStep
<1> QED BY <1>8, <1>9, <1>10, <1>11, <1>12 DEF KInv

\* When the worker is idle all goroutines have their values.
LEMMA AllDone ==
  ASSUME NEW c \in Configs, FInv(c), Typed(c), wrk = "idle", seq > 0
  PROVE  /\ \A x \in GettersOf(c) : Done(x)
         /\ \A a \in DOMAIN c.tok : Done(OutOf(c, a))
<1>1. \A x \in GettersOf(c) : Done(x)
  BY DEF FInv, Quiet, Done
<1> QED BY <1>1, Outs

\* The values of the record that resolved, added to those of the ones before it.
Added(c, e) ==
  [p \in (1..seq) \X DOMAIN c.tok |-> IF p[1] = seq THEN Current(c)[p[2]] ELSE e[p]]

\* A resolved record has the values of the rules.
LEMMA AddedSolves ==
  ASSUME NEW c \in Configs, FInv(c), KInv(c), wrk = "idle", NEW e, Ruled(c, e)
  PROVE  /\ Solves(c, world, Added(c, e), seq)
         /\ \A a \in Nodes(c, "LOADED") : \A v : <<c.ref[a], v>> \in mapx <=>
              v \in Looked(c, Added(c, e), a, seq)
<1> DEFINE d == Added(c, e)
<1>0. seq \in Nat /\ Typed(c)
  BY DEF FInv, Shape, KInv
<1>1. \A f \in 1..(seq - 1) : \A a \in DOMAIN c.tok : d[<<f, a>>] = e[<<f, a>>]
  <2>1. ASSUME NEW f \in 1..(seq - 1), NEW a \in DOMAIN c.tok PROVE d[<<f, a>>] = e[<<f, a>>]
    <3>1. f \in 1..seq /\ f # seq /\ <<f, a>> \in (1..seq) \X DOMAIN c.tok
      BY <1>0
    <3> QED BY <3>1 DEF Added
  <2> QED BY <2>1
<1>2. \A a \in DOMAIN c.tok : seq > 0 => d[<<seq, a>>] = Current(c)[a]
  <2>1. ASSUME NEW a \in DOMAIN c.tok, seq > 0 PROVE d[<<seq, a>>] = Current(c)[a]
    <3>1. <<seq, a>> \in (1..seq) \X DOMAIN c.tok
      BY <1>0, <2>1
    <3> QED BY <3>1 DEF Added
  <2> QED BY <2>1
<1> HIDE DEF d
<1>3. \A f \in 1..(seq - 1) : Row(c, d, f) = Row(c, e, f)
  BY <1>1 DEF Row
<1>4. seq > 0 => Row(c, d, seq) = Current(c)
  BY <1>2 DEF Row, Current
<1>5. ASSUME NEW n \in 0..seq, n < seq, NEW a \in DOMAIN c.tok, c.kid[a][1] \in DOMAIN c.tok
      PROVE  Looked(c, d, a, n) = Looked(c, e, a, n)
  <2>1. \A f \in 1..n : d[<<f, c.kid[a][1]>>] = e[<<f, c.kid[a][1]>>]
    BY <1>0, <1>1, <1>5
  <2>2. \A v : v \in Looked(c, d, a, n) <=> v \in Looked(c, e, a, n)
    BY <2>1 DEF Looked
  <2> QED BY <2>2
<1>6. ASSUME NEW n \in 0..seq, n < seq, NEW a \in DOMAIN c.tok, NEW w, NEW y, NEW v,
             Obeys(c, w, y, v, a, Looked(c, e, a, n))
      PROVE  Obeys(c, w, y, v, a, Looked(c, d, a, n))
  <2>1. CASE c.tok[a] = "LOADED"
    BY <1>5, <1>6, <2>1, Kids
  <2>2. CASE c.tok[a] # "LOADED"
    BY <1>6, <2>2 DEF Obeys
  <2> QED BY <2>1, <2>2
<1>7. ASSUME NEW f \in 1..seq, NEW a \in DOMAIN c.tok
      PROVE  Obeys(c, world[f], Row(c, d, f), d[<<f, a>>], a, Looked(c, d, a, f - 1))
  <2>1. f - 1 \in 0..seq /\ f - 1 < seq /\ seq > 0
    BY <1>0
  <2>2. CASE f # seq
    <3>1. f \in 1..(seq - 1)
      BY <1>0, <2>2
    <3>2. Obeys(c, world[f], Row(c, e, f), e[<<f, a>>], a, Looked(c, e, a, f - 1))
      BY <3>1 DEF Ruled, Solves
    <3>3. Row(c, d, f) = Row(c, e, f) /\ d[<<f, a>>] = e[<<f, a>>]
      BY <1>1, <1>3, <3>1
    <3> QED BY <1>6, <2>1, <3>2, <3>3
  <2>3. CASE f = seq /\ c.tok[a] # "WHEN"
    <3>1. Done(Op(a)) /\ OutOf(c, a) = Op(a)
      BY <1>0, <2>1, <2>3, AllDone, Outs
    <3>2. Obeys(c, world[seq], Current(c), val[Op(a)].v, a, Looked(c, e, a, seq - 1))
      BY <2>3, <3>1 DEF Ruled
    <3>3. d[<<f, a>>] = val[Op(a)].v
      BY <1>2, <2>1, <2>3, <3>1 DEF Current
    <3> QED BY <1>4, <1>6, <2>1, <2>3, <3>2, <3>3
  <2>4. CASE f = seq /\ c.tok[a] = "WHEN"
    <3>1. c.kid[a][1] \in DOMAIN c.tok /\ Under(c, c.kid[a][1], a)
      BY <2>4, Kids
    <3>2. c.tok[c.kid[a][1]] # "WHEN"
      BY <2>4, <3>1, Kids
    <3>3. OutOf(c, a) = OutOf(c, c.kid[a][1])
      BY <2>4, <3>1, <3>2, Outs
    <3>4. d[<<f, a>>] = Row(c, d, f)[c.kid[a][1]]
      BY <1>2, <1>4, <2>1, <2>4, <3>1, <3>3 DEF Current
    <3> QED BY <2>4, <3>4 DEF Obeys
  <2> QED BY <2>2, <2>3, <2>4
<1>8. ASSUME NEW a \in Nodes(c, "LOADED"), NEW v
      PROVE  <<c.ref[a], v>> \in mapx <=> v \in Looked(c, d, a, seq)
  <2>1. a \in DOMAIN c.tok /\ c.tok[a] = "LOADED" /\ c.kid[a][1] \in DOMAIN c.tok
    BY Kids DEF Nodes
  <2>2. <<c.ref[a], v>> \in mapx <=>
          v \in Looked(c, e, a, seq - 1) \/ (Done(Op(a)) /\ v = Current(c)[c.kid[a][1]])
    BY DEF Ruled
  <2>3. CASE seq = 0
    BY <2>2, <2>3 DEF Looked, Done
  <2>4. CASE seq > 0
    <3>1. Looked(c, d, a, seq - 1) = Looked(c, e, a, seq - 1)
      BY <1>0, <1>5, <2>1, <2>4
    <3>2. Done(Op(a))
      BY <1>0, <2>1, <2>4, AllDone, Names
    <3>3. d[<<seq, c.kid[a][1]>>] = Current(c)[c.kid[a][1]]
      BY <1>2, <2>1, <2>4
    <3>4. v \in Looked(c, d, a, seq) <=>
            v \in Looked(c, d, a, seq - 1) \/ v = d[<<seq, c.kid[a][1]>>]
      <4>1. \A f : f \in 1..seq <=> f \in 1..(seq - 1) \/ f = seq
        BY <1>0, <2>4
      <4> QED BY <4>1 DEF Looked
    <3> QED BY <2>2, <3>1, <3>2, <3>3, <3>4
  <2> QED BY <1>0, <2>3, <2>4
<1> QED BY <1>7, <1>8 DEF d, Solves

LEMMA BrrKeeps ==
  ASSUME NEW c \in Configs, FInv(c), KInv(c), brr, ~panic
  PROVE  KInv(c)' /\ \A e : Ruled(c, e) => \E d : Ruled(c, d)'
<1>1. /\ Carried(c) /\ Fed(c) /\ Typed(c) /\ Ran(c) /\ Summed(c)
      /\ Shape(c) /\ Passes(c) /\ conf = c /\ Quiet(c) /\ seq \in Nat
  BY DEF KInv, FInv, brr, Shape
<1>2. /\ wrk = "idle" /\ wrk' = "push" /\ seq' = seq + 1 /\ seq < MaxFlows[c]
      /\ UNCHANGED <<conf, at, pc, got, val, put, mapx, fdr, panic>>
  BY <1>1 DEF brr
<1>3. Nodes(conf, "CALL") = Nodes(c, "CALL") /\ MaxFlows[c] \in Nat
  BY <1>1, FlowAssumption
<1>4. /\ world' = Append(world, Unknown)
      /\ runs' = [a \in Nodes(c, "CALL") |-> 0]
  BY <1>3 DEF brr, Calls
<1>5. \A x \in GettersOf(c) : ~Done(x)'
  <2>1. \A x \in GettersOf(c) : at'[x] = seq /\ seq # seq'
    BY <1>1, <1>2 DEF Quiet
  <2> QED BY <2>1 DEF Done
<1>6. /\ \A x \in Gor(c) : put'[x] = {} /\ got'[x] = <<>> /\ pc'[x] \notin {"send", "fire"}
      /\ \A x \in GettersOf(c) : DOMAIN got'[x] = {}
  BY <1>1, <1>2 DEF Quiet, Gor
<1>7. Carried(c)' /\ Fed(c)'
  <2>1. Carried(c)'
    BY <1>6 DEF Carried, Gor
  <2>2. Fed(c)'
    BY <1>5, <1>6 DEF Fed, Gor
  <2> QED BY <2>1, <2>2
<1>8. \A a \in DOMAIN c.tok : c.tok[a] # "WHEN" => ~Done(Op(a))'
  BY <1>5, Names
<1>9. /\ Unknown \in Record(c) /\ Projects(c, Unknown)
      /\ world \in Seq(Record(c)) /\ Len(world) = seq
      /\ \A f \in 1..seq : Projects(c, world[f])
  BY <1>1 DEF Typed, Unknown, Calls, Record, Projects, Known, Nodes
<1>10. /\ world' \in Seq(Record(c)) /\ Len(world') = seq'
       /\ \A f \in 1..seq : world'[f] = world[f]
       /\ \A f \in 1..seq' : Projects(c, world'[f])
  <2>1. PICK r \in Record(c) : r = Unknown
    BY <1>9
  <2>2. /\ world' \in Seq(Record(c)) /\ Len(world') = seq' /\ world'[seq'] = r
        /\ \A f \in 1..seq : world'[f] = world[f]
    BY <1>1, <1>2, <1>4, <1>9, <2>1, AppendProperties
  <2>3. \A f \in 1..seq' : f = seq' \/ f \in 1..seq
    BY <1>1, <1>2
  <2> QED BY <1>9, <2>1, <2>2, <2>3
<1>11. Typed(c)'
  <2>1. \A x \in Gor(c) : val'[x] \in [flow : 0..seq', v : Says(c, x)]
    <3>1. 0..seq \subseteq 0..seq'
      BY <1>1, <1>2
    <3>2. ASSUME NEW x \in Gor(c) PROVE val'[x] \in [flow : 0..seq', v : Says(c, x)]
      <4>1. val'[x] \in [flow : 0..seq, v : Says(c, x)]
        BY <1>1, <1>2 DEF Typed
      <4> HIDE DEF Says
      <4> QED BY <3>1, <4>1
    <3> QED BY <3>2
  <2>2. seq' \in 0..MaxFlows[c] /\ seq' > 0
    BY <1>1, <1>2, <1>3
  <2> QED BY <1>1, <1>2, <1>10, <2>1, <2>2 DEF Typed
<1>12. Ran(c)'
  <2>1. \A a \in Nodes(c, "CALL") : ~Done(Op(a))'
    BY <1>8 DEF Nodes
  <2> QED BY <1>4, <2>1 DEF Ran
<1>13. Summed(c)'
  <2>1. ~Done(Reduce)'
    BY <1>5, Names
  <2> QED BY <1>1, <1>2, <2>1 DEF Summed
<1>14. ASSUME NEW e, Ruled(c, e) PROVE \E d : Ruled(c, d)'
  <2>1. PICK d : d = Added(c, e)
    OBVIOUS
  <2>2. /\ Solves(c, world, d, seq)
        /\ \A a \in Nodes(c, "LOADED") : \A v : <<c.ref[a], v>> \in mapx <=>
              v \in Looked(c, d, a, seq)
    BY <1>2, <1>14, <2>1, AddedSolves
  <2>3. seq' - 1 = seq
    BY <1>1, <1>2
  <2>4. Solves(c, world', d, seq' - 1)
    BY <1>10, <2>2, <2>3 DEF Solves
  <2>5. \A a \in Nodes(c, "LOADED") : ~Done(Op(a))'
    BY <1>8 DEF Nodes
  <2> QED BY <1>2, <1>8, <2>2, <2>3, <2>4, <2>5 DEF Ruled
<1> QED BY <1>7, <1>11, <1>12, <1>13, <1>14 DEF KInv

LEMMA StutterKeeps ==
  ASSUME NEW c \in Configs, FInv(c), KInv(c), brr_panic \/ UNCHANGED vars
  PROVE  KInv(c)' /\ \A e : Ruled(c, e) => Ruled(c, e)'
<1>1. Carried(c) /\ Fed(c) /\ Typed(c) /\ Ran(c) /\ Summed(c)
  BY DEF KInv
<1>2. /\ UNCHANGED <<conf, seq, countA, countB, world, at, pc, got, val, put, mapx, runs,
                      fdr, panic>>
      /\ wrk' \in {wrk, "dead"}
  BY DEF brr_panic, vars, worker, effect
<1>3. \A x : Done(x)' <=> Done(x)
  BY <1>2 DEF Done
<1>4. Steady(c)
  BY <1>2, <1>3 DEF Steady
<1>5. Carried(c)' /\ Fed(c)'
  BY <1>1, <1>2, <1>3, <1>4, CarriedStep, FedStep
<1>6. Typed(c)'
  BY <1>1, <1>2 DEF Typed
<1>7. Ran(c)' /\ Summed(c)'
  BY <1>1, <1>2, <1>3, <1>4, RanStep, SummedStep
<1>8. ASSUME NEW e, Ruled(c, e) PROVE Ruled(c, e)'
  <2>1. \A a \in Nodes(c, "LOADED") : \A v : <<c.ref[a], v>> \in mapx' <=>
           \/ <<c.ref[a], v>> \in mapx
           \/ ~Done(Op(a)) /\ Done(Op(a))' /\ v = Current(c)[c.kid[a][1]]
    BY <1>2, <1>3
  <2> QED BY <1>1, <1>2, <1>3, <1>4, <1>8, <2>1, RuledStep
<1> QED BY <1>5, <1>6, <1>7, <1>8 DEF KInv

-----------------------------------------------------------------------------
(* Types, and what the rules decide.                                         *)

InRules == \E c \in Configs :
  FInv(c) /\ KInv(c) /\ (OwnMaps(c) => \E e : Ruled(c, e))

LEMMA InitInRules == Init => InRules
<1> SUFFICES ASSUME Init PROVE InRules
  OBVIOUS
<1>1. PICK c \in Configs : FInv(c)
  BY InitInStep DEF InStep
<1>2. /\ conf = c /\ Goroutines = Gor(c) /\ Nodes(conf, "CALL") = Nodes(c, "CALL")
      /\ MaxFlows[c] \in Nat
  BY <1>1, Known_, FlowAssumption DEF FInv, Shape
<1>3. /\ wrk = "idle" /\ seq = 0 /\ world = <<>> /\ mapx = {}
      /\ runs = [a \in Nodes(c, "CALL") |-> 0] /\ fdr = [ok |-> 0, fault |-> 0]
      /\ \A x \in Gor(c) : /\ at[x] = 0 /\ got[x] = <<>> /\ put[x] = {}
                           /\ pc[x] \in {"get", "read"} /\ val[x] = [flow |-> 0, v |-> "null"]
  <2>1. /\ wrk = "idle" /\ seq = 0 /\ world = <<>> /\ mapx = {}
        /\ runs = [a \in Nodes(c, "CALL") |-> 0] /\ fdr = [ok |-> 0, fault |-> 0]
    BY <1>2 DEF Init, Calls
  <2>2. ASSUME NEW x \in Gor(c)
        PROVE  /\ at[x] = 0 /\ got[x] = <<>> /\ put[x] = {}
               /\ pc[x] \in {"get", "read"} /\ val[x] = [flow |-> 0, v |-> "null"]
    <3>1. pc[x] = Rest(x)
      BY <1>2 DEF Init
    <3> QED BY <1>2, <3>1 DEF Init, Rest
  <2> QED BY <2>1, <2>2
<1>4. \A x : ~Done(x)
  BY <1>3 DEF Done
<1>5. Carried(c) /\ Fed(c)
  <2>1. \A x \in GettersOf(c) : DOMAIN got[x] = {}
    BY <1>3 DEF Gor
  <2>2. Carried(c)
    BY <1>3, <2>1 DEF Carried, Gor
  <2> QED BY <1>3, <1>4, <2>2 DEF Fed, Gor
<1>6. Typed(c)
  <2>1. \A x \in Gor(c) : "null" \in Says(c, x)
    BY DEF Says, Known, Details
  <2>2. \A x \in Gor(c) : val[x] \in [flow : 0..seq, v : Says(c, x)]
    <3> HIDE DEF Says
    <3> QED BY <1>3, <2>1
  <2>3. /\ world \in Seq(Record(c)) /\ Len(world) = seq
        /\ \A f \in 1..seq : Projects(c, world[f])
    BY <1>3, EmptySeq
  <2> QED BY <1>2, <1>3, <2>2, <2>3 DEF Typed, Gor
<1>7. Ran(c)
  BY <1>3, <1>4 DEF Ran
<1>8. Summed(c)
  <2>1. Cardinality(Nodes(c, "CALL")) \in Nat
    BY Configuration, FS_Subset, FS_CardinalityType DEF Nodes
  <2> QED BY <1>3, <1>4, <2>1 DEF Summed
<1>9. \A e : Ruled(c, e)
  <2>1. \A f : f \notin 1..(seq - 1)
    BY <1>3
  <2> QED BY <1>3, <1>4, <2>1 DEF Ruled, Solves, Looked
<1> QED BY <1>1, <1>5, <1>6, <1>7, <1>8, <1>9 DEF InRules, KInv

LEMMA StepInRules == InRules /\ [Next]_vars => InRules'
<1> SUFFICES ASSUME InRules, [Next]_vars PROVE InRules'
  OBVIOUS
<1>1. PICK c \in Configs : FInv(c) /\ KInv(c) /\ (OwnMaps(c) => \E e : Ruled(c, e))
  BY DEF InRules
<1>2. conf = c
  BY <1>1 DEF FInv, Shape
<1> DEFINE Kept == FInv(c)' /\ KInv(c)' /\ (OwnMaps(c) => \E e : Ruled(c, e)')
<1>3. ASSUME NEW g \in Goroutines, Step(g), ~panic PROVE Kept
  <2>1. g \in Gor(c)
    BY <1>2, <1>3, Known_
  <2>2. CASE push(g)
    BY <1>1, <1>3, <2>1, <2>2, PushStep, PushKeeps
  <2>3. CASE call(g)
    BY <1>1, <1>3, <2>1, <2>3, CallStep, CallKeeps
  <2>4. ASSUME NEW s, NEW m, ReadAction(g, s, m) PROVE Kept
    <3>1. FInv(c)'
      BY <1>1, <1>3, <2>1, <2>4, ActionsRead, ReadStep
    <3>2. KInv(c)'
      BY <1>1, <1>3, <2>1, <2>4, ReadKeeps
    <3>3. ASSUME OwnMaps(c), NEW e, Ruled(c, e) PROVE Ruled(c, e)'
      BY <1>1, <1>3, <2>1, <2>4, <3>3, ReadRuled
    <3> QED BY <1>1, <3>1, <3>2, <3>3
  <2>5. ASSUME NEW s, NEW m, fanout_xdr(g, s, m) PROVE Kept
    BY <1>1, <1>3, <2>1, <2>5, FanoutStep, FanoutKeeps
  <2> QED BY <1>3, <2>2, <2>3, <2>4, <2>5 DEF Step, ReadAction
<1>4. ASSUME resolve, ~panic PROVE Kept
  BY <1>1, <1>4, ResolveStep, ResolveKeeps
<1>5. ASSUME brr, ~panic PROVE Kept
  BY <1>1, <1>5, BrrStep, BrrKeeps
<1>6. ASSUME brr_panic \/ UNCHANGED vars PROVE Kept
  BY <1>1, <1>6, StutterStep, StutterKeeps
<1>7. Kept
  BY <1>3, <1>4, <1>5, <1>6 DEF Next, Go, Alive
<1> QED BY <1>7 DEF InRules


LEMMA TypesHold ==
  ASSUME NEW c \in Configs, FInv(c), KInv(c), panic \in BOOLEAN
  PROVE  TypeOK
<1>1. /\ Shape(c) /\ Follows(c) /\ Passes(c) /\ Fresh(c) /\ Counted(c) /\ conf = c
      /\ Carried(c) /\ Typed(c) /\ Ran(c) /\ Summed(c)
      /\ seq \in 0..MaxFlows[c] /\ MaxFlows[c] \in Nat
  BY FlowAssumption DEF FInv, KInv, Shape, Typed
<1>2. /\ Goroutines = Gor(c) /\ Getters = GettersOf(c) /\ Calls = Nodes(c, "CALL")
      /\ \A g \in Gor(c) : From(g) = FromOf(c, g)
  BY <1>1, Known_ DEF Calls
<1>3. wrk \in {"idle", "push", "dead"} /\ Len(world) = seq
  BY <1>1 DEF Typed
<1>4. {countA, countB} \subseteq 0..Cardinality(Getters)
  <2>1. countA \in Nat /\ countB \in Nat /\ countA + countB = Cardinality(Getters)
    BY <1>1, <1>2 DEF Counted
  <2>2. Cardinality(Getters) \in Nat
    BY <1>1, <1>2, Count, FS_CardinalityType
  <2> QED BY <2>1, <2>2
<1>5. at \in [Goroutines -> 0..MaxFlows[conf]]
  <2>1. ASSUME NEW x \in Gor(c) PROVE at[x] \in 0..MaxFlows[c]
    <3>1. at[x] \in Nat /\ seq \in Nat
      BY <1>1 DEF Shape
    <3>2. CASE x \in GettersOf(c)
      <4>1. at[x] = seq \/ at[x] = seq - 1
        BY <1>1, <3>2 DEF Follows
      <4> QED BY <1>1, <3>1, <4>1
    <3>3. CASE x \in PassersOf(c)
      BY <1>1, <3>3 DEF Typed
    <3> QED BY <3>2, <3>3 DEF Gor
  <2> QED BY <1>1, <1>2, <2>1 DEF Shape
<1>6. pc \in [Goroutines -> {"get", "read", "fire", "send"}]
  BY <1>1, <1>2 DEF Shape
<1>7. ASSUME NEW x \in Gor(c) PROVE val[x] \in Msg /\ val[x].v \in Says(c, x)
  <2>1. val[x] \in [flow : 0..seq, v : Says(c, x)]
    BY <1>1 DEF Typed
  <2>2. Says(c, x) \subseteq Known \cup {"nil", "OK", "ERR", "fdr"}
    BY DEF Says, Known, Details
  <2>3. 0..seq \subseteq 0..MaxFlows[c]
    BY <1>1
  <2> HIDE DEF Says
  <2> QED BY <1>1, <2>1, <2>2, <2>3 DEF Msg
<1>8. val \in [Goroutines -> Msg]
  <2> HIDE DEF Msg
  <2> QED BY <1>1, <1>2, <1>7 DEF Shape
<1>9. ASSUME NEW g \in Gor(c)
      PROVE  DOMAIN got[g] \subseteq From(g) /\ \A s \in DOMAIN got[g] : got[g][s] \in Msg
  <2>1. CASE g \in GettersOf(c)
    <3>1. DOMAIN got[g] \subseteq From(g)
      BY <1>1, <1>2, <2>1 DEF Follows
    <3>2. ASSUME NEW s \in DOMAIN got[g] PROVE got[g][s] \in Msg
      <4>1. s \in FromOf(c, g) /\ got[g][s] = val[Source(s)]
        BY <1>1, <1>2, <2>1, <3>1 DEF Carried
      <4>2. Source(s) \in Gor(c)
        BY <4>1, Feeds, Sources DEF Gor
      <4> QED BY <1>7, <4>1, <4>2
    <3> QED BY <3>1, <3>2
  <2>2. CASE g \in PassersOf(c)
    <3>1. got[g] = <<>>
      BY <1>1, <2>2 DEF Passes
    <3>2. DOMAIN got[g] = {}
      BY <3>1
    <3> QED BY <3>2
  <2> QED BY <2>1, <2>2 DEF Gor
<1>10. ASSUME NEW a \in Ast \ Calls, conf.tok[a] # "WHEN" PROVE val[Op(a)].v \in Known
  <2>1. a \in DOMAIN c.tok /\ c.tok[a] # "WHEN" /\ c.tok[a] # "CALL"
    BY <1>1, <1>2, <1>10 DEF Ast, Nodes
  <2>2. Op(a) \in Gor(c) /\ TokOf(c, Op(a)) \in Valued
    BY <2>1, Names, Configuration DEF Gor, Valued
  <2>3. Says(c, Op(a)) = Known
    BY <2>2 DEF Says
  <2> QED BY <1>7, <2>2, <2>3
<1>11. put \in [Goroutines -> SUBSET Msg]
  <2>1. ASSUME NEW g \in Gor(c), NEW m \in put[g] PROVE m \in Msg
    <3>1. PICK f \in FromOf(c, g) : TRUE
      BY <1>1, <2>1 DEF Fresh
    <3>2. m = val[Source(f)]
      BY <1>1, <2>1, <3>1 DEF Carried
    <3>3. Source(f) \in Gor(c)
      BY <3>1, Feeds, Sources DEF Gor
    <3> QED BY <1>7, <3>2, <3>3
  <2> HIDE DEF Msg
  <2> QED BY <1>1, <1>2, <2>1 DEF Shape
<1>12. mapx \subseteq {conf.ref[a] : a \in Nodes(conf, "LOADED")} \X Known
  BY <1>1 DEF Typed
<1>13. runs \in [Calls -> 0..1]
  BY <1>1, <1>2 DEF Ran
<1>14. fdr \in [ok : 0..Cardinality(Calls), fault : 0..Cardinality(Calls)]
  BY <1>1, <1>2 DEF Summed
<1> QED
  BY <1>1, <1>2, <1>3, <1>4, <1>5, <1>6, <1>8, <1>9, <1>10, <1>11, <1>12, <1>13, <1>14 DEF TypeOK

\* A panic is set from a comparison.
LEMMA PanicStep == panic \in BOOLEAN /\ [Next]_vars => panic' \in BOOLEAN
<1> SUFFICES ASSUME panic \in BOOLEAN, [Next]_vars PROVE panic' \in BOOLEAN
  OBVIOUS
<1>1. CASE UNCHANGED vars
  BY <1>1 DEF vars
<1>2. CASE brr \/ brr_panic
  BY <1>2 DEF brr, brr_panic
<1>3. CASE resolve
  BY <1>3 DEF resolve
<1>4. ASSUME NEW g, Step(g) PROVE panic' \in BOOLEAN
  <2>1. CASE push(g)
    BY <2>1 DEF push
  <2>2. CASE call(g)
    BY <2>2 DEF call, Fire
  <2>3. ASSUME NEW s, NEW m, map(g, s, m) \/ project_sync_map_los_true_loaded(g, s, m)
        PROVE  panic' \in BOOLEAN
    BY <2>3 DEF map, project_sync_map_los_true_loaded
  <2>4. ASSUME NEW s, NEW m, bool2(g, s, m) \/ argv(g, s, m) \/ wait_fire(g, s, m)
        PROVE  panic' \in BOOLEAN
    <3>1. CASE bool2(g, s, m)
      <4>1. panic' = (s \in DOMAIN got[g])
        BY <3>1, Zenon DEF bool2
      <4> QED BY <4>1
    <3>2. CASE argv(g, s, m)
      <4>1. panic' = (s \in DOMAIN got[g])
        BY <3>2, Zenon DEF argv
      <4> QED BY <4>1
    <3>3. CASE wait_fire(g, s, m)
      <4>1. panic' = (m.flow # at[g])
        BY <3>3, Zenon DEF wait_fire
      <4> QED BY <4>1
    <3> QED BY <2>4, <3>1, <3>2, <3>3
  <2>5. ASSUME NEW s, NEW m, fanout_xdr(g, s, m) \/ pass(g, s, m) \/ reduce(g, s, m)
        PROVE  panic' \in BOOLEAN
    BY <2>5 DEF fanout_xdr, pass, reduce
  <2> QED BY <1>4, <2>1, <2>2, <2>3, <2>4, <2>5 DEF Step
<1> QED BY <1>1, <1>2, <1>3, <1>4 DEF Next, Go, Alive

\* In every reachable state the network is in step, and what its goroutines made of
\* the current record are the values that the rules ask for.
THEOREM StaysInRules == Spec => [](InRules /\ panic \in BOOLEAN)
<1>1. Init => InRules /\ panic \in BOOLEAN
  BY InitInRules DEF Init
<1>2. InRules /\ panic \in BOOLEAN /\ [Next]_vars => (InRules /\ panic \in BOOLEAN)'
  BY StepInRules, PanicStep
<1> QED BY <1>1, <1>2, PTL DEF Spec

\* Every variable keeps its type: a goroutine holds and sends values of flows up
\* to the current one, and of the kind its operation makes, which is what the
\* unchecked use of bool_value, argv_value and xdr_value in flow.go relies on.
THEOREM TypeCorrect == Spec => []TypeOK
<1>1. InRules /\ panic \in BOOLEAN => TypeOK
  BY TypesHold DEF InRules
<1> QED BY <1>1, StaysInRules, PTL

-----------------------------------------------------------------------------
(* What the rules decide.                                                    *)

\* The value that the rules give a of record f, when e has those it needs.
Rule(t, e, f, a) ==
  LET kid(i) == e[f, conf.kid[a][i]] IN
  CASE t = "LEAF" -> world[f][a]
    [] t = "LOADED" ->
         IF \E h \in 1..(f - 1) : e[h, conf.kid[a][1]] = kid(1)
         THEN "true" ELSE "false"
    [] t = "AND" -> SqlAnd(kid(1), kid(2))
    [] t = "OR" -> SqlOr(kid(1), kid(2))
    [] t = "ARGV" -> IF \E i \in DOMAIN conf.kid[a] : kid(i) = "null"
                     THEN "null" ELSE "true"
    [] t = "PROJECT" -> Status(e[f, conf.ref[a]], world[f][a])
    [] t = "CALL" -> IF "null" \in {kid(1), kid(2)} THEN "null"
                     ELSE IF kid(2) = "true" THEN world[f][a] ELSE "nil"
    [] OTHER -> Mapped(t, kid(1))

Ruling(e) == [p \in (1..seq) \X Ast |-> Rule(conf.tok[p[2]], e, p[1], p[2])]

LEMMA RulesChosen == Rules = CHOOSE e : e = Ruling(e)
BY Zenon DEF Rules, Rule, Ruling

\* The values of e satisfy the rules when they are the ones that the rules give.
LEMMA RuleObeys ==
  ASSUME NEW c \in Configs, conf = c, NEW e, NEW f \in 1..seq, seq \in Nat,
         NEW a \in DOMAIN c.tok, NEW y, y = Row(c, e, f), NEW v, v = Rule(c.tok[a], e, f, a)
  PROVE  Obeys(c, world[f], y, v, a, Looked(c, e, a, f - 1))
<1>1. \A i \in DOMAIN c.kid[a] : y[c.kid[a][i]] = e[<<f, c.kid[a][i]>>]
  BY Configuration DEF Row, Under
<1>2. /\ c.tok[a] \in {"NOT", "LOADED", "WHEN"} => y[c.kid[a][1]] = e[<<f, c.kid[a][1]>>]
      /\ c.tok[a] \in {"AND", "OR", "CALL"} => /\ y[c.kid[a][1]] = e[<<f, c.kid[a][1]>>]
                                               /\ y[c.kid[a][2]] = e[<<f, c.kid[a][2]>>]
      /\ c.tok[a] = "PROJECT" => y[c.ref[a]] = e[<<f, c.ref[a]>>]
  BY Kids DEF Row
<1>4. CASE c.tok[a] = "LEAF"
  <2>1. Rule("LEAF", e, f, a) = world[f][a]
    BY Zenon DEF Rule
  <2>2. v = world[f][a]
    BY <1>4, <2>1
  <2> QED BY <1>4, <2>2 DEF Obeys
<1>5. CASE c.tok[a] = "AND"
  <2>1. Rule("AND", e, f, a) = SqlAnd(e[<<f, conf.kid[a][1]>>], e[<<f, conf.kid[a][2]>>])
    BY Zenon DEF Rule
  <2>2. v = SqlAnd(e[<<f, conf.kid[a][1]>>], e[<<f, conf.kid[a][2]>>])
    BY <1>5, <2>1
  <2> QED BY <1>1, <1>2, <1>5, <2>2 DEF Obeys
<1>6. CASE c.tok[a] = "OR"
  <2>1. Rule("OR", e, f, a) = SqlOr(e[<<f, conf.kid[a][1]>>], e[<<f, conf.kid[a][2]>>])
    BY Zenon DEF Rule
  <2>2. v = SqlOr(e[<<f, conf.kid[a][1]>>], e[<<f, conf.kid[a][2]>>])
    BY <1>6, <2>1
  <2> QED BY <1>1, <1>2, <1>6, <2>2 DEF Obeys
<1>7. CASE c.tok[a] = "NOT"
  <2>1. Rule("NOT", e, f, a) = Mapped("NOT", e[<<f, conf.kid[a][1]>>])
    BY Zenon DEF Rule
  <2>2. v = Mapped("NOT", e[<<f, conf.kid[a][1]>>])
    BY <1>7, <2>1
  <2> QED BY <1>1, <1>2, <1>7, <2>2 DEF Obeys
<1>8. CASE c.tok[a] = "PROJECT"
  <2>1. Rule("PROJECT", e, f, a) = Status(e[<<f, conf.ref[a]>>], world[f][a])
    BY Zenon DEF Rule
  <2>2. v = Status(e[<<f, conf.ref[a]>>], world[f][a])
    BY <1>8, <2>1
  <2> QED BY <1>1, <1>2, <1>8, <2>2 DEF Obeys
<1>9. CASE c.tok[a] = "ARGV"
  <2>1. Rule("ARGV", e, f, a) = IF \E i \in DOMAIN conf.kid[a] : e[<<f, conf.kid[a][i]>>] = "null"
           THEN "null" ELSE "true"
    BY Zenon DEF Rule
  <2>2. v = IF \E i \in DOMAIN conf.kid[a] : e[<<f, conf.kid[a][i]>>] = "null"
           THEN "null" ELSE "true"
    BY <1>9, <2>1
  <2> QED BY <1>1, <1>2, <1>9, <2>2 DEF Obeys
<1>10. CASE c.tok[a] = "CALL"
  <2>1. Rule("CALL", e, f, a) = IF "null" \in {e[<<f, conf.kid[a][1]>>], e[<<f, conf.kid[a][2]>>]} THEN "null"
           ELSE IF e[<<f, conf.kid[a][2]>>] = "true" THEN world[f][a] ELSE "nil"
    BY Zenon DEF Rule
  <2>2. v = IF "null" \in {e[<<f, conf.kid[a][1]>>], e[<<f, conf.kid[a][2]>>]} THEN "null"
           ELSE IF e[<<f, conf.kid[a][2]>>] = "true" THEN world[f][a] ELSE "nil"
    BY <1>10, <2>1
  <2> QED BY <1>1, <1>2, <1>10, <2>2 DEF Obeys
<1>11. CASE c.tok[a] = "LOADED"
  <2>1. Rule("LOADED", e, f, a) = IF \E h \in 1..(f - 1) : e[<<h, conf.kid[a][1]>>] = e[<<f, conf.kid[a][1]>>]
           THEN "true" ELSE "false"
    BY Zenon DEF Rule
  <2>2. v = IF \E h \in 1..(f - 1) : e[<<h, conf.kid[a][1]>>] = e[<<f, conf.kid[a][1]>>]
           THEN "true" ELSE "false"
    BY <1>11, <2>1
  <2>3. y[c.kid[a][1]] \in Looked(c, e, a, f - 1) <=>
          \E h \in 1..(f - 1) : e[<<h, conf.kid[a][1]>>] = e[<<f, conf.kid[a][1]>>]
    BY <1>2, <1>11 DEF Looked
  <2> QED BY <1>1, <1>2, <1>11, <2>2, <2>3 DEF Obeys
<1>12. CASE c.tok[a] = "WHEN"
  <2>1. Rule("WHEN", e, f, a) = Mapped("WHEN", e[<<f, conf.kid[a][1]>>])
    BY Zenon DEF Rule
  <2>2. v = Mapped("WHEN", e[<<f, conf.kid[a][1]>>])
    BY <1>12, <2>1
  <2>3. \A x : Mapped("WHEN", x) = x
    BY Zenon DEF Mapped
  <2> QED BY <1>1, <1>2, <1>12, <2>2, <2>3 DEF Obeys
<1> QED BY <1>4, <1>5, <1>6, <1>7, <1>8, <1>9, <1>10, <1>11, <1>12, Configuration DEF Toks

\* The values that the commands ended with are the ones of the rules.
LEMMA RulesDecide ==
  ASSUME NEW c \in Configs, FInv(c), KInv(c), wrk = "idle", seq > 0, NEW e, Ruled(c, e)
  PROVE  \A a \in DOMAIN c.tok : Rules[<<seq, a>>] = val[OutOf(c, a)].v
<1>1. conf = c /\ Ast = DOMAIN c.tok /\ seq \in Nat
  BY DEF FInv, Shape, Ast
<1>2. PICK d : d = Added(c, e)
  OBVIOUS
<1>3. Solves(c, world, d, seq)
  BY <1>2, AddedSolves
<1>4. d = Ruling(d)
  <2>1. ASSUME NEW f \in 1..seq, NEW a \in DOMAIN c.tok
        PROVE  d[<<f, a>>] = Rule(c.tok[a], d, f, a)
    <3>1. PICK y, v, past : /\ y = Row(c, d, f) /\ v = Rule(c.tok[a], d, f, a)
                            /\ past = Looked(c, d, a, f - 1)
      OBVIOUS
    <3>2. Obeys(c, world[f], y, v, a, past)
      BY <1>1, <3>1, RuleObeys
    <3>3. Obeys(c, world[f], y, d[<<f, a>>], a, past)
      BY <1>3, <3>1 DEF Solves
    <3>4. d[<<f, a>>] = v
      BY <3>2, <3>3, Determined
    <3> QED BY <3>1, <3>4
  <2>2. ASSUME NEW p \in (1..seq) \X Ast
        PROVE  d[p] = Rule(conf.tok[p[2]], d, p[1], p[2])
    <3>1. p[1] \in 1..seq /\ p[2] \in DOMAIN c.tok /\ p = <<p[1], p[2]>>
      BY <1>1
    <3> QED BY <1>1, <2>1, <3>1
  <2>3. d = [p \in (1..seq) \X Ast |-> d[p]]
    BY <1>1, <1>2 DEF Added
  <2> QED BY <2>2, <2>3 DEF Ruling
<1>5. PICK r : r = Rules
  OBVIOUS
<1>6. r = Ruling(r)
  BY <1>4, <1>5, RulesChosen
<1>7. Solves(c, world, r, seq)
  <2>1. ASSUME NEW f \in 1..seq, NEW a \in DOMAIN c.tok
        PROVE  Obeys(c, world[f], Row(c, r, f), r[<<f, a>>], a, Looked(c, r, a, f - 1))
    <3>1. PICK p : p = <<f, a>>
      OBVIOUS
    <3>2. p \in (1..seq) \X Ast /\ p[1] = f /\ p[2] = a
      BY <1>1, <3>1
    <3>3. r[p] = Rule(conf.tok[p[2]], r, p[1], p[2])
      BY <1>6, <3>2 DEF Ruling
    <3>4. r[<<f, a>>] = Rule(c.tok[a], r, f, a)
      BY <1>1, <3>1, <3>2, <3>3
    <3> QED BY <1>1, <3>4, RuleObeys
  <2> QED BY <2>1 DEF Solves
<1>8. ASSUME NEW a \in DOMAIN c.tok PROVE r[<<seq, a>>] = val[OutOf(c, a)].v
  <2>1. seq \in 1..seq /\ <<seq, a>> \in (1..seq) \X DOMAIN c.tok
    BY <1>1
  <2>2. r[<<seq, a>>] = d[<<seq, a>>]
    BY <1>1, <1>3, <1>7, <2>1, OneSolution
  <2>3. d[<<seq, a>>] = Current(c)[a]
    BY <1>2, <2>1 DEF Added
  <2> QED BY <2>2, <2>3 DEF Current
<1> QED BY <1>5, <1>8

\* However the goroutines interleave: when a flow resolves, exactly the commands
\* ran whose rules were true, and the counts of the detail record that reduce()
\* sends to log_fdr() are those that the rules, evaluated record by record, give
\* for what the commands ended with.
THEOREM RulesDecideRuns == Spec => []RunsAsRuled
<1>1. InRules => RunsAsRuled
  <2> SUFFICES ASSUME InRules, Resolved, OwnMaps(conf)
               PROVE  LET e == Rules IN
                 /\ \A a \in Calls : runs[a] = IF e[seq, a] \in {"null", "nil"} THEN 0 ELSE 1
                 /\ fdr.ok = Cardinality({a \in Calls : e[seq, a] = "OK"})
                 /\ fdr.fault = Cardinality({a \in Calls : e[seq, a] = "ERR"})
    BY Zenon DEF RunsAsRuled
  <2>1. PICK c \in Configs : FInv(c) /\ KInv(c) /\ (OwnMaps(c) => \E e : Ruled(c, e))
    BY DEF InRules
  <2>2. conf = c /\ wrk = "idle" /\ seq > 0 /\ Ran(c) /\ Summed(c) /\ Typed(c)
    BY <2>1 DEF FInv, Shape, KInv, Resolved
  <2>3. Calls = Nodes(c, "CALL") /\ Calls \subseteq DOMAIN c.tok
    BY <2>2 DEF Calls, Nodes
  <2>4. PICK r : r = Rules
    OBVIOUS
  <2>5. ASSUME NEW a \in Calls
        PROVE  /\ r[<<seq, a>>] = val[Op(a)].v /\ r[<<seq, a>>] \in Details
               /\ Done(Op(a))
    <3>1. a \in DOMAIN c.tok /\ c.tok[a] = "CALL"
      BY <2>3 DEF Nodes
    <3>2. OutOf(c, a) = Op(a) /\ Op(a) \in GettersOf(c) /\ TokOf(c, Op(a)) = "CALL"
      BY <3>1, Outs, Names
    <3>3. r[<<seq, a>>] = val[Op(a)].v
      BY <2>1, <2>2, <2>4, <3>1, <3>2, RulesDecide
    <3>4. Says(c, Op(a)) = Details
      BY <3>2 DEF Says, Valued
    <3>5. val[Op(a)] \in [flow : 0..seq, v : Details]
      BY <2>2, <3>2, <3>4 DEF Typed, Gor
    <3>6. Done(Op(a))
      BY <2>1, <2>2, <3>2, AllDone
    <3> QED BY <3>3, <3>5, <3>6
  <2>6. ASSUME NEW a \in Calls
        PROVE  runs[a] = IF r[<<seq, a>>] \in {"null", "nil"} THEN 0 ELSE 1
    BY <2>2, <2>3, <2>5, <2>6 DEF Ran, Details
  <2>7. /\ fdr = [ok |-> Cardinality(Ending(c, "OK")), fault |-> Cardinality(Ending(c, "ERR"))]
    BY <2>1, <2>2, Names, AllDone DEF Summed
  <2>8. /\ Ending(c, "OK") = {a \in Calls : r[<<seq, a>>] = "OK"}
        /\ Ending(c, "ERR") = {a \in Calls : r[<<seq, a>>] = "ERR"}
    BY <2>3, <2>5 DEF Ending
  <2>9. /\ fdr.ok = Cardinality({a \in Calls : r[<<seq, a>>] = "OK"})
        /\ fdr.fault = Cardinality({a \in Calls : r[<<seq, a>>] = "ERR"})
    BY <2>7, <2>8
  <2> QED BY <2>4, <2>6, <2>9, Zenon
<1> QED BY <1>1, StaysInRules, PTL

=============================================================================
