------------------------------- MODULE FlowGraph --------------------------------
(***************************************************************************)
(* A flow worker of flowd.  The rules of a configuration are compiled to a *)
(* network of goroutines that pass values over unbuffered channels.  For   *)
(* each blob request record the worker makes a flow and hands it to every  *)
(* goroutine; the network decides which commands and queries to run, runs  *)
(* them, and reduces what they did to one flow detail record (fdr).  A     *)
(* goroutine goes on to the next flow when the last one has resolved.      *)
(*                                                                         *)
(* Values are null, false or true; of strings and numbers only equality to *)
(* a constant is kept.  A detail record of a command or query is "null",   *)
(* "nil" when its rule was false, or its class, "OK" or "ERR"; what it has *)
(* in a field or a result column is drawn when it is made.  A chain of     *)
(* goroutines with one input each, such as the projection of an exit       *)
(* status, its comparison or its cast, and argv1, is one goroutine.        *)
(***************************************************************************)
EXTENDS Naturals, FiniteSets, Sequences, Functions, Rummy

CONSTANTS
  Configs,   \* configurations: abstract syntax trees of rules
  MaxFlows   \* bound on the records read, for each configuration

\* A configuration has nodes with tokens, their subtrees, and what they refer to:
\* a projection of a detail record a command or query, a lookup a sync map.
Toks == {"LEAF", "NOT", "LOADED", "AND", "OR", "ARGV", "WHEN", "CALL",
         "PROJECT"}

Nodes(c, tok) == {a \in DOMAIN c.tok : c.tok[a] = tok}

\* a is a child of b.
Under(c, a, b) == \E i \in DOMAIN c.kid[b] : c.kid[b][i] = a

\* The value of a is made of the value of b.
Needs(c, a, b) == Under(c, b, a) \/ (c.tok[a] = "PROJECT" /\ b = c.ref[a])

\* What the parser builds: trees with a command or query at the root and its
\* when clause at the right, in an order of commands and queries without cycles;
\* compile() is called for the roots only.
WellFormed(c) ==
  /\ \A a \in DOMAIN c.tok :
       /\ c.tok[a] = "PROJECT" => c.ref[a] \in Nodes(c, "CALL")
       /\ c.tok[a] \in {"LEAF", "PROJECT"} => c.kid[a] = <<>>
       /\ c.tok[a] \in {"NOT", "LOADED", "WHEN"} => Len(c.kid[a]) = 1
       /\ c.tok[a] \in {"AND", "OR", "CALL"} => Len(c.kid[a]) = 2
       /\ \A b \in DOMAIN c.tok : Under(c, a, b) =>
            /\ c.tok[a] # "CALL"
            /\ c.tok[a] = "WHEN" => c.tok[b] = "CALL"
            /\ \A d \in DOMAIN c.tok : Under(c, a, d) => b = d
  /\ \A S \in SUBSET DOMAIN c.tok :
       /\ Nodes(c, "CALL") \subseteq S
       /\ \A b \in S : \A a \in DOMAIN c.tok : Under(c, a, b) => a \in S
       => S = DOMAIN c.tok
  /\ \A S \in SUBSET DOMAIN c.tok :
       (\A a \in DOMAIN c.tok :
          (\A b \in DOMAIN c.tok : Needs(c, a, b) => b \in S) => a \in S)
       => S = DOMAIN c.tok

ASSUME FlowAssumption ==
  /\ MaxFlows \in [Configs -> Nat]
  /\ \A c \in Configs :
       /\ IsFiniteSet(DOMAIN c.tok)
       /\ c.tok \in [DOMAIN c.tok -> Toks]
       /\ c.kid \in [DOMAIN c.tok -> Seq(DOMAIN c.tok)]
       /\ WellFormed(c)

VARIABLES
  conf,    \* the configuration
  wrk,     \* the worker: "idle", "push" while a flow is on, or "dead"
  seq,     \* the number of the current flow; 0 is the flow it boots with
  countA,  \* confluent_count of the flow before, and of the current one
  countB,
  world,   \* world[f]: the fields of record f, how each command ended, and
           \* what is projected of it; "?" for what has not been looked at
  at,      \* at[g]: the flow goroutine g is in
  pc,      \* pc[g]: "get", "read", "fire" or "send"
  got,     \* got[g]: what g has read in this flow, by sender
  val,     \* val[g]: what g sends
  put,     \* put[g]: what a fanout has under way to g
  mapx,    \* the strings in the sync maps: <<map, string>>
  runs,    \* runs[a]: how often command a ran in this flow
  fdr,     \* ok_count and fault_count of the last flow detail record
  panic    \* a goroutine panicked, and flowd with it

worker == <<conf, wrk, seq, countA, countB>>
effect == <<mapx, runs, fdr>>
vars == <<worker, world, at, pc, got, val, put, effect, panic>>

Ast == DOMAIN conf.tok
Calls == Nodes(conf, "CALL")

-----------------------------------------------------------------------------
(* The network, as compile() builds it.                                      *)

Op(a) == <<"op", a>>
Fanout(a) == <<"fanout", a>>
Reduce == <<"reduce", "all">>
LogFdr == <<"log_fdr", "all">>

\* Goroutines that follow the flows ...
GettersOf(c) ==
  {Op(a) : a \in DOMAIN c.tok \ Nodes(c, "WHEN")}
    \cup ({"fanout", "log"} \X Nodes(c, "CALL")) \cup {Reduce, LogFdr}

\* ... and ones that only pass values on: those of argv(), and those of
\* log_xdr_error() and the merges of reduce(), two in a row, that are one here.
PassersOf(c) ==
  ({"merge"} \X Nodes(c, "CALL"))
    \cup ({"io"} \X UNION {Range(c.kid[a]) : a \in Nodes(c, "ARGV")})

TokOf(c, g) == IF g[1] = "op" THEN c.tok[g[2]] ELSE g[1]

\* A WHEN is the channel of its clause.
OutOf(c, a) == Op(IF c.tok[a] = "WHEN" THEN c.kid[a][1] ELSE a)

\* g reads a channel of s.
Sends(c, s, g) ==
  LET tok == TokOf(c, g)
      a == g[2]
  IN  \/ /\ tok \in {"NOT", "LOADED", "AND", "OR", "CALL"}
         /\ \E k \in DOMAIN c.tok : Under(c, k, a) /\ s = OutOf(c, k)
      \/ tok = "ARGV" /\ \E k \in DOMAIN c.tok : Under(c, k, a) /\ s = <<"io", k>>
      \/ tok = "PROJECT" /\ s = Fanout(c.ref[a])
      \/ tok \in {"io", "fanout"} /\ s = Op(a)
      \/ tok = "log" /\ s = Fanout(a)
      \/ tok = "merge" /\ s = <<"log", a>>
      \/ tok = "reduce" /\ \E b \in Nodes(c, "CALL") : s = <<"merge", b>>
      \/ tok = "log_fdr" /\ s = Reduce

FromOf(c, g) == {s \in GettersOf(c) \cup PassersOf(c) : Sends(c, s, g)}

\* The network of each configuration, with its sets listed once and for all.
Network ==
  [c \in Configs |->
    LET all == {g : g \in GettersOf(c) \cup PassersOf(c)} IN
    [getters |-> {g \in all : g \in GettersOf(c)},
     from |-> [g \in all |-> {s \in all : s \in FromOf(c, g)}],
     tok  |-> [g \in all |-> TokOf(c, g)]]]

Getters == Network[conf].getters
Goroutines == DOMAIN Network[conf].from
From(g) == Network[conf].from[g]
Tok(g) == Network[conf].tok[g]
Arg(g, i) == OutOf(conf, conf.kid[g[2]][i])

\* Mutant: a WHEN is counted, although no goroutine asks for flows for it.
ConfluentCount_when ==
  Cardinality(Ast) + Cardinality(Calls) + Cardinality(Calls) + 2

\* What compile() adds up in confluent_count: a node counts one, a WHEN none,
\* a call one more for its fanout; log_xdr() of each call, reduce(), log_fdr().
ConfluentCount ==
  Cardinality({a \in Ast : conf.tok[a] # "WHEN"}) + Cardinality(Calls)
    + Cardinality(Calls) + 2

-----------------------------------------------------------------------------
(* Channels.                                                                 *)

\* What the sender s has for g; a fanout leaves it to goroutines of their own.
Offer(s, g) == IF Tok(s) = "fanout" THEN put[g]
               ELSE IF pc[s] = "send" THEN {val[s]} ELSE {}

Rest(s) == IF s \in Getters THEN "get" ELSE "read"

\* g takes m from s and goes on to p.
Take(g, s, m, p) ==
  /\ pc[g] = "read" /\ s \in From(g) /\ m \in Offer(s, g)
  /\ IF Tok(s) = "fanout"
     THEN put' = [put EXCEPT ![g] = @ \ {m}] /\ pc' = [pc EXCEPT ![g] = p]
     ELSE UNCHANGED put /\ pc' = [pc EXCEPT ![s] = Rest(s), ![g] = p]

With(g, s, m) == [t \in DOMAIN got[g] \cup {s} |-> IF t = s THEN m ELSE got[g][t]]
Keep(g, h) == got' = [got EXCEPT ![g] = h]
Say(g, v) == val' = [val EXCEPT ![g] = [flow |-> at[g], v |-> v]]

-----------------------------------------------------------------------------
(* The worker.                                                               *)

\* What is known of a record.  A detail record that is not there projects to null.
Unknown ==
  [a \in Nodes(conf, "LEAF") \cup Nodes(conf, "PROJECT") \cup Calls |->
     IF conf.tok[a] = "PROJECT" THEN "null" ELSE "?"]

\* A line of the tail that cannot be parsed ends flowd.
brr_panic ==
  /\ wrk = "idle" /\ seq < MaxFlows[conf]
  /\ wrk' = "dead"
  /\ UNCHANGED <<conf, seq, countA, countB, world, at, pc, got, val, put, effect,
                 panic>>

\* A line of the tail is a record; a new flow is made for it.
brr ==
  /\ wrk = "idle" /\ seq < MaxFlows[conf]
  /\ world' = Append(world, Unknown)
  /\ wrk' = "push" /\ seq' = seq + 1
  /\ countA' = countB /\ countB' = 0
  /\ runs' = [a \in Calls |-> 0]
  /\ UNCHANGED <<conf, at, pc, got, val, put, mapx, fdr, panic>>

\* get(): a goroutine asks the resolved flow for the next one.  A leaf has a
\* field of the record, or a constant, to send at once.
push(g) ==
  /\ wrk = "push" /\ countA > 0
  /\ pc[g] = "get" /\ at[g] = seq - 1
  /\ countA' = countA - 1 /\ countB' = countB + 1
  /\ at' = [at EXCEPT ![g] = seq]
  /\ IF Tok(g) = "LEAF"
     THEN \E v \in {"false", "true"} :
            /\ world' = [world EXCEPT ![seq][g[2]] = v]
            /\ pc' = [pc EXCEPT ![g] = "send"]
            /\ val' = [val EXCEPT ![g] = [flow |-> seq, v |-> v]]
     ELSE pc' = [pc EXCEPT ![g] = "read"] /\ UNCHANGED <<world, val>>
  /\ UNCHANGED <<conf, wrk, seq, got, put, effect, panic>>

\* The fdr of the flow, which resolves it.
resolve ==
  /\ wrk = "push" /\ countA = 0 /\ pc[LogFdr] = "send"
  /\ wrk' = "idle"
  /\ pc' = [pc EXCEPT ![LogFdr] = "get"]
  /\ panic' = (val[LogFdr].flow # seq)
  /\ UNCHANGED <<conf, seq, countA, countB, world, at, got, val, put, effect>>

-----------------------------------------------------------------------------
(* The goroutines.                                                           *)

\* Mutant: a projection takes no care of rules that were false.
Status_nil(v, x) == IF v \in {"null", "nil"} THEN v ELSE x

\* What exit_status, a result column and the like are, in a comparison: x, which
\* is null for an SQL NULL or no row, when the command or query has run.
Status(v, x) == IF v \in {"null", "nil"} THEN "null" ELSE x

Mapped(tok, v) == CASE tok = "NOT" /\ v = "false" -> "true"
                    [] tok = "NOT" /\ v = "true" -> "false"
                    [] OTHER -> v

\* Projections and comparisons.
map(g, s, m) ==
  /\ Tok(g) \in {"NOT", "PROJECT"}
  /\ Take(g, s, m, "send")
  /\ Say(g, IF Tok(g) = "PROJECT" THEN Status(m.v, world[at[g]][g[2]])
            ELSE Mapped("NOT", m.v))
  /\ UNCHANGED <<worker, world, at, got, effect, panic>>

\* LoadOrStore() of a sync map.
project_sync_map_los_true_loaded(g, s, m) ==
  /\ Tok(g) = "LOADED"
  /\ Take(g, s, m, "send")
  /\ Say(g, IF <<conf.ref[g[2]], m.v>> \in mapx THEN "true" ELSE "false")
  /\ mapx' = mapx \cup {<<conf.ref[g[2]], m.v>>}
  /\ UNCHANGED <<worker, world, at, got, runs, fdr, panic>>

\* The table at what is known of both sides.
Logic(g, h) ==
  LET Known1(i) == IF Arg(g, i) \in DOMAIN h THEN h[Arg(g, i)].v ELSE "wait"
  IN IF Tok(g) = "AND" THEN and[Known1(1)][Known1(2)] ELSE or[Known1(1)][Known1(2)]

\* Mutant: the side that is not needed is not read.
bool2_undrained(g, s, m) ==
  LET h == With(g, s, m) IN
  /\ Tok(g) \in {"AND", "OR"}
  /\ panic' = (s \in DOMAIN got[g])
  /\ IF Logic(g, h) # "wait"
     THEN Take(g, s, m, "send") /\ Say(g, Logic(g, h)) /\ Keep(g, <<>>)
     ELSE Take(g, s, m, "read") /\ Keep(g, h) /\ UNCHANGED val
  /\ UNCHANGED <<worker, world, at, effect>>

\* wait_bool2(): read either side until the value is known, then drain the
\* other one.
bool2(g, s, m) ==
  LET h == With(g, s, m)
      early == Logic(g, got[g]) IN
  /\ Tok(g) \in {"AND", "OR"}
  /\ s \in DOMAIN got[g] => early = "wait"
  /\ panic' = (s \in DOMAIN got[g])
  /\ IF DOMAIN h = From(g)
     THEN /\ Take(g, s, m, "send") /\ Keep(g, <<>>)
          /\ Say(g, IF early = "wait" THEN Logic(g, h) ELSE early)
     ELSE Take(g, s, m, "read") /\ Keep(g, h) /\ UNCHANGED val
  /\ UNCHANGED <<worker, world, at, effect>>

\* Strings of all arguments, in any order; a null makes the vector null.
argv(g, s, m) ==
  LET h == With(g, s, m) IN
  /\ Tok(g) = "ARGV"
  /\ panic' = (s \in DOMAIN got[g])
  /\ IF DOMAIN h = From(g)
     THEN /\ Take(g, s, m, "send") /\ Keep(g, <<>>)
          /\ Say(g, IF \E t \in DOMAIN h : h[t].v = "null" THEN "null" ELSE "true")
     ELSE Take(g, s, m, "read") /\ Keep(g, h) /\ UNCHANGED val
  /\ UNCHANGED <<worker, world, at, effect>>

\* A command or query waits for its argument vector and its when clause.
wait_fire(g, s, m) ==
  LET h == With(g, s, m) IN
  /\ Tok(g) = "CALL"
  /\ Take(g, s, m, IF DOMAIN h = From(g) THEN "fire" ELSE "read")
  /\ Keep(g, h)
  /\ panic' = (m.flow # at[g])
  /\ UNCHANGED <<worker, world, at, val, effect>>

Fields(a) == {b \in Nodes(conf, "PROJECT") : conf.ref[b] = a}

\* It runs when x is TRUE, else its detail record is v.
Fire(g, x, v) ==
  /\ pc[g] = "fire"
  /\ pc' = [pc EXCEPT ![g] = "send"] /\ Keep(g, <<>>)
  /\ IF x
     THEN \E c \in {"OK", "ERR"}, r \in [Fields(g[2]) -> Known] :
            /\ world' = [world EXCEPT ![at[g]] =
                           [a \in DOMAIN world[at[g]] |->
                              IF a = g[2] THEN c
                              ELSE IF a \in Fields(g[2]) THEN r[a]
                              ELSE world[at[g]][a]]]
            /\ runs' = [runs EXCEPT ![g[2]] = @ + 1]
            /\ Say(g, c)
     ELSE Say(g, v) /\ UNCHANGED <<world, runs>>
  /\ UNCHANGED <<worker, at, put, mapx, fdr, panic>>

\* Mutant: a null argument vector does not keep the command from running.
call_null(g) ==
  LET when == got[g][Arg(g, 2)].v
  IN Fire(g, when = "true", IF when = "null" THEN "null" ELSE "nil")

call(g) ==
  LET args == got[g][Arg(g, 1)].v
      when == got[g][Arg(g, 2)].v
  IN Fire(g, args # "null" /\ when = "true",
          IF "null" \in {args, when} THEN "null" ELSE "nil")

\* Each reader of a detail record gets it from a goroutine of its own.
fanout_xdr(g, s, m) ==
  /\ Tok(g) = "fanout" /\ pc[g] = "read" /\ s \in From(g) /\ m \in Offer(s, g)
  /\ pc' = [pc EXCEPT ![s] = "get", ![g] = "get"]
  /\ put' = [r \in Goroutines |-> IF g \in From(r) THEN put[r] \cup {m} ELSE put[r]]
  /\ UNCHANGED <<worker, world, at, got, val, effect, panic>>

\* log_xdr() logs and counts what it reads; it, log_xdr_error(), the merges and
\* log_fdr() pass it on.
pass(g, s, m) ==
  /\ Tok(g) \in {"log", "merge", "io", "log_fdr"}
  /\ Take(g, s, m, "send")
  /\ val' = [val EXCEPT ![g] = m]
  /\ UNCHANGED <<worker, world, at, got, effect, panic>>

Ended(h, v) == Cardinality({t \in DOMAIN h : h[t].v = v})

\* Mutant: reduce() reads one record less than there are.
reduce_short(g, s, m) ==
  LET h == With(g, s, m) IN
  /\ Tok(g) = "reduce"
  /\ panic' = (m.flow # at[g])
  /\ IF Cardinality(DOMAIN h) >= Cardinality(Calls) - 1
     THEN /\ Take(g, s, m, "send") /\ Say(g, "fdr") /\ Keep(g, <<>>)
          /\ fdr' = [ok |-> Ended(h, "OK"), fault |-> Ended(h, "ERR")]
     ELSE Take(g, s, m, "read") /\ Keep(g, h) /\ UNCHANGED <<val, fdr>>
  /\ UNCHANGED <<worker, world, at, mapx, runs>>

\* One detail record of each command and query makes the fdr.
reduce(g, s, m) ==
  LET h == With(g, s, m) IN
  /\ Tok(g) = "reduce"
  /\ panic' = (m.flow # at[g])
  /\ IF DOMAIN h = From(g)
     THEN /\ Take(g, s, m, "send") /\ Say(g, "fdr") /\ Keep(g, <<>>)
          /\ fdr' = [ok |-> Ended(h, "OK"), fault |-> Ended(h, "ERR")]
     ELSE Take(g, s, m, "read") /\ Keep(g, h) /\ UNCHANGED <<val, fdr>>
  /\ UNCHANGED <<worker, world, at, mapx, runs>>

-----------------------------------------------------------------------------

\* flowd boots: the network waits for the first flow to resolve, which it has.
Init ==
  /\ conf \in Configs
  /\ wrk = "idle" /\ seq = 0 /\ world = <<>>
  /\ countA = 0 /\ countB = ConfluentCount
  /\ at = [g \in Goroutines |-> 0]
  /\ pc = [g \in Goroutines |-> Rest(g)]
  /\ got = [g \in Goroutines |-> <<>>]
  /\ val = [g \in Goroutines |-> [flow |-> 0, v |-> "null"]]
  /\ put = [g \in Goroutines |-> {}]
  /\ mapx = {} /\ runs = [a \in Calls |-> 0]
  /\ fdr = [ok |-> 0, fault |-> 0]
  /\ panic = FALSE

Step(g) ==
  \/ push(g) \/ call(g)
  \/ /\ pc[g] = "read"
     /\ \E s \in From(g) : \E m \in Offer(s, g) :
          \/ map(g, s, m) \/ project_sync_map_los_true_loaded(g, s, m)
          \/ bool2(g, s, m) \/ argv(g, s, m) \/ wait_fire(g, s, m)
          \/ fanout_xdr(g, s, m) \/ pass(g, s, m)
          \/ reduce(g, s, m)

Alive == ~panic /\ wrk # "dead"

Go == Alive /\ (resolve \/ \E g \in Goroutines : Step(g))

Next == Go \/ (Alive /\ (brr \/ brr_panic))

Spec == Init /\ [][Next]_vars

\* Goroutines run, and the commands and queries they start end.
FairSpec == Spec /\ WF_vars(Go)

-----------------------------------------------------------------------------
(* Properties.                                                               *)

Msg == [flow : 0..MaxFlows[conf], v : Known \cup {"nil", "OK", "ERR", "fdr"}]

\* The values each variable takes.
TypeOK ==
  /\ conf \in Configs
  /\ wrk \in {"idle", "push", "dead"} /\ seq \in 0..MaxFlows[conf] /\ Len(world) = seq
  /\ {countA, countB} \subseteq 0..Cardinality(Getters)
  /\ at \in [Goroutines -> 0..MaxFlows[conf]]
  /\ pc \in [Goroutines -> {"get", "read", "fire", "send"}]
  /\ \A g \in Goroutines : /\ DOMAIN got[g] \subseteq From(g)
                           /\ \A s \in DOMAIN got[g] : got[g][s] \in Msg
  /\ val \in [Goroutines -> Msg]
  /\ \A a \in Ast \ Calls : conf.tok[a] # "WHEN" => val[Op(a)].v \in Known
  /\ put \in [Goroutines -> SUBSET Msg]
  /\ mapx \subseteq {conf.ref[a] : a \in Nodes(conf, "LOADED")} \X Known
  /\ runs \in [Calls -> 0..1]
  /\ fdr \in [ok : 0..Cardinality(Calls), fault : 0..Cardinality(Calls)]
  /\ panic \in BOOLEAN

\* The sanity tests of flow.go and server.go never fail: "left hand value out
\* of sync", "argv flow out of sequence", "xdr_merge: out of sync", "fdr out of
\* sync with flowB".  No goroutine reads twice in a flow, or reads another flow.
NoPanic == ~panic

\* What the rules say of record f: the value of each node of the trees.
Rules ==
  LET e[p \in (1..seq) \X Ast] ==
        LET f == p[1]  a == p[2]
            kid(i) == e[f, conf.kid[a][i]]
            tok == conf.tok[a] IN
        CASE tok = "LEAF" -> world[f][a]
          [] tok = "LOADED" ->
               IF \E h \in 1..(f - 1) : e[h, conf.kid[a][1]] = kid(1)
               THEN "true" ELSE "false"
          [] tok = "AND" -> SqlAnd(kid(1), kid(2))
          [] tok = "OR" -> SqlOr(kid(1), kid(2))
          [] tok = "ARGV" -> IF \E i \in DOMAIN conf.kid[a] : kid(i) = "null"
                             THEN "null" ELSE "true"
          [] tok = "PROJECT" -> Status(e[f, conf.ref[a]], world[f][a])
          [] tok = "CALL" -> IF "null" \in {kid(1), kid(2)} THEN "null"
                             ELSE IF kid(2) = "true" THEN world[f][a] ELSE "nil"
          [] OTHER -> Mapped(tok, kid(1))
  IN e

Resolved == wrk = "idle" /\ seq > 0

\* What is in a sync map does not depend on the order of lookups in a flow.
OwnMaps(c) == \A a, b \in Nodes(c, "LOADED") : c.ref[a] = c.ref[b] => a = b

\* However the goroutines interleave: when a flow resolves, the commands and
\* queries whose rules hold for its record have run, once, no other has, and
\* the fdr counts how they ended, unless rules look up the same sync map.
RunsAsRuled ==
  Resolved /\ OwnMaps(conf) =>
    LET e == Rules IN
    /\ \A a \in Calls : runs[a] = IF e[seq, a] \in {"null", "nil"} THEN 0 ELSE 1
    /\ fdr.ok = Cardinality({a \in Calls : e[seq, a] = "OK"})
    /\ fdr.fault = Cardinality({a \in Calls : e[seq, a] = "ERR"})

\* "Shouldn't the flow block on current sequence until all qualfications
\* converge?"  When a flow resolves, no goroutine has work of it left.
Converged ==
  Resolved => \A g \in Goroutines :
    /\ pc[g] = Rest(g) /\ got[g] = <<>> /\ put[g] = {}
    /\ g \in Getters => at[g] = seq

\* Every record read resolves.
FlowsEnd == wrk = "push" ~> wrk = "idle"

=============================================================================
