----------------------------- MODULE RequestProofs -----------------------------
(* Theorems about Request, for any number of process slots and connections,    *)
(* with and without signals, faults, failing forks and interrupted writes.     *)
EXTENDS Request, FiniteSetTheorems, SequenceTheorems, TLAPS

-----------------------------------------------------------------------------
(* The inductive invariant.                                                  *)

\* The answers that were "ok" before step a of the script of verb v.
OksBefore == [
  cat  |-> <<0>>,
  get  |-> <<0, 1>>,
  put  |-> <<0, 1, 1>>,
  give |-> <<0, 1, 1, 2>>,
  take |-> <<0, 1, 1, 2>>,
  eat  |-> <<0>>,
  wrap |-> <<0, 1>>,
  roll |-> <<0>>]

\* The values of what one child has; those of the counters follow below.
ChildTypes ==
  /\ pc \in [Child -> {"idle", "scan", "step", "write", "end", "exited"}]
  /\ client \in [Child -> {"here", "stalled", "gone"}]
  /\ verb \in [Child -> Verb]
  /\ at \in [Child -> 1 .. 4]
  /\ say \in [Child -> {"none", "ok", "no", "bytes"}]
  /\ timer \in [Child -> BOOLEAN] /\ late \in [Child -> BOOLEAN]
  /\ class \in [Child -> Class]
  /\ chat \in [Child -> Seq({"ok", "no"})]
  /\ no \in [Child -> 0 .. 3]
  /\ brr \in [Child -> BOOLEAN]
  /\ sig \in [Child -> {"none", "TERM", "KILL"}]
  /\ asked \in [Child -> Verb \cup {"none"}]
  /\ told \in [Child -> BOOLEAN] /\ fed \in [Child -> BOOLEAN]

CounterTypes ==
  /\ accept_count \in Nat /\ accept_count <= MaxAccept
  /\ unforked \in Nat
  /\ count \in [Class \cup {"signal"} -> Nat]
  /\ verbs \in [Verb -> Nat]

\* A slot that serves no child, or one that has scanned nothing, is blank.
Blank(c) ==
  pc[c] \in {"idle", "scan"} =>
    /\ verb[c] = "cat" /\ at[c] = 1 /\ chat[c] = <<>>
    /\ asked[c] = "none" /\ ~told[c]

\* Once the request is scanned its client has asked, and what it is told is in
\* the chat history.
InChat(c) == told[c] <=> chat[c] # <<>>

Heard(c) ==
  pc[c] \in {"step", "write", "end"} => asked[c] # "none" /\ InChat(c)

\* Only the end of a request sets the chat bits and sends a record, and only a
\* signal that ends it is remembered.
Unfinished(c) == pc[c] # "exited" => no[c] = 0 /\ ~brr[c] /\ sig[c] = "none"

\* In the middle of its script a child has said and heard "ok" alone, as often
\* as the steps it has done have it.
AllOk(c) == \A i \in 1 .. Len(chat[c]) : chat[c][i] = "ok"

OnScript(c) ==
  pc[c] \in {"step", "write"} =>
    /\ at[c] \in DOMAIN Script[verb[c]]
    /\ Len(chat[c]) = OksBefore[verb[c]][at[c]]
    /\ AllOk(c)

\* What is written is what the step has to write, or the "no" of a put or give
\* whose bytes failed.
SaysStep(c) ==
  pc[c] = "write" =>
    \/ say[c] = "ok" /\ Step(c) \in {"ok", "answer"}
    \/ say[c] = "no" /\ Step(c) \in {"no", "answer", "recv"}
    \/ say[c] = "bytes" /\ Step(c) = "send"

\* The script is over, or an answer ended it: a "no" is the last answer, and
\* the verb is one that may get a "no" there.
SecondNos == {"put", "give", "take"}

AtEnd(c) ==
  pc[c] = "end" =>
    /\ at[c] \in DOMAIN Script[verb[c]]
    /\ Len(chat[c]) = 2 /\ chat[c][2] = "no" => verb[c] \in SecondNos

\* Where the chat bits come from.
NoBits(c) == no[c] # 3 /\ (no[c] = 2 => sig[c] = "none" /\ verb[c] \in SecondNos)

\* ChatGrammar and RecordIffAnswered, of one child.
Grammar(c) == /\ Len(chat[c]) <= 3
              /\ \A i \in 1 .. Len(chat[c]) - 1 : chat[c][i] = "ok"

Recorded(c) ==
  Exited(c) /\ sig[c] = "none" /\ class[c] # "fault" =>
    (brr[c] <=> told[c] /\ asked[c] # "none")

Sound(c) ==
  /\ Blank(c) /\ Unfinished(c) /\ OnScript(c) /\ SaysStep(c)
  /\ AtEnd(c) /\ NoBits(c) /\ Grammar(c) /\ Recorded(c) /\ Heard(c)

\* Each reaped child that was not killed has its verb counted, once.
OfVerb == verbs["cat"] + verbs["get"] + verbs["put"] + verbs["give"] + verbs["take"]
          + verbs["eat"] + verbs["wrap"] + verbs["roll"]
OfClass == count["success"] + count["error"] + count["timeout"] + count["fault"]

VerbsBalanced == OfVerb = OfClass

\* What holds of each child, and of the counters of the master.
ChildInv == ChildTypes /\ \A c \in Child : Sound(c)

CounterInv == CounterTypes /\ Balanced /\ VerbsBalanced

IInv == ChildInv /\ CounterInv

-----------------------------------------------------------------------------
(* The scripts of the verbs.                                                 *)

\* A script has one to four steps.
LEMMA ScriptSteps ==
  ASSUME NEW v \in Verb
  PROVE  /\ Len(Script[v]) \in 1 .. 4
         /\ DOMAIN Script[v] = 1 .. Len(Script[v])
         /\ OksBefore[v][1] = 0
  BY DEF Verb, Script, OksBefore

\* A step that answers or hears a reply adds one "ok" before the next, the
\* others add none.
LEMMA ScriptOks ==
  ASSUME NEW v \in Verb, NEW a \in DOMAIN Script[v]
  PROVE  /\ OksBefore[v][a] \in 0 .. 2
         /\ a # Len(Script[v]) => a + 1 \in DOMAIN Script[v]
         /\ a # Len(Script[v]) /\ Script[v][a] \in {"ok", "answer", "reply"} =>
              OksBefore[v][a + 1] = OksBefore[v][a] + 1
         /\ a # Len(Script[v]) /\ Script[v][a] \in {"send", "recv"} =>
              OksBefore[v][a + 1] = OksBefore[v][a]
         /\ Script[v][a] = "reply" => OksBefore[v][a] # 0
         /\ Script[v][a] \in {"no", "answer", "recv", "reply"} /\ OksBefore[v][a] = 1 =>
              v \in {"put", "give", "take"}
  <1> USE DEF Script, OksBefore
  <1>1. CASE v = "cat"
    BY <1>1
  <1>2. CASE v = "get"
    BY <1>2
  <1>3. CASE v = "put"
    BY <1>3
  <1>4. CASE v = "give"
    BY <1>4
  <1>5. CASE v = "take"
    BY <1>5
  <1>6. CASE v = "eat"
    BY <1>6
  <1>7. CASE v = "wrap"
    BY <1>7
  <1>8. CASE v = "roll"
    BY <1>8
  <1>9. QED
    BY <1>1, <1>2, <1>3, <1>4, <1>5, <1>6, <1>7, <1>8 DEF Verb

-----------------------------------------------------------------------------
(* Steps of one child.                                                       *)

\* A step of c, or of the master with c, that leaves the others alone.
Alone(c) ==
  /\ ChildTypes'
  /\ \A d \in Child \ {c} :
       /\ pc'[d] = pc[d] /\ verb'[d] = verb[d] /\ at'[d] = at[d]
       /\ say'[d] = say[d] /\ class'[d] = class[d] /\ chat'[d] = chat[d]
       /\ no'[d] = no[d] /\ brr'[d] = brr[d] /\ sig'[d] = sig[d]
       /\ asked'[d] = asked[d] /\ told'[d] = told[d]

\* What c had is what it has.
SameChat(c) == /\ chat'[c] = chat[c] /\ brr'[c] = brr[c] /\ sig'[c] = sig[c]
               /\ asked'[c] = asked[c] /\ told'[c] = told[c]
SameVerb(c) == verb'[c] = verb[c] /\ no'[c] = no[c]

\* What such a step has to show is that c is sound after it.
LEMMA AloneIsEnough ==
  ASSUME ChildInv, NEW c \in Child, Alone(c), Sound(c)'
  PROVE  ChildInv'
  <1> SUFFICES ASSUME NEW d \in Child \ {c} PROVE Sound(d)'
    BY DEF ChildInv, Alone
  <1>1. /\ pc'[d] = pc[d] /\ verb'[d] = verb[d] /\ at'[d] = at[d]
        /\ say'[d] = say[d] /\ class'[d] = class[d] /\ chat'[d] = chat[d]
        /\ no'[d] = no[d] /\ brr'[d] = brr[d] /\ sig'[d] = sig[d]
        /\ asked'[d] = asked[d] /\ told'[d] = told[d]
    BY DEF Alone
  <1>2. Sound(d)
    BY DEF ChildInv
  <1>3. Blank(d)' /\ Unfinished(d)' /\ AtEnd(d)' /\ NoBits(d)'
    BY <1>1, <1>2 DEF Sound, Blank, Unfinished, AtEnd, NoBits
  <1>4. OnScript(d)' /\ SaysStep(d)'
    BY <1>1, <1>2 DEF Sound, OnScript, AllOk, SaysStep, Step
  <1>5. Grammar(d)' /\ Recorded(d)' /\ Heard(d)'
    BY <1>1, <1>2 DEF Sound, Grammar, Recorded, Exited, Heard, InChat
  <1> QED
    BY <1>3, <1>4, <1>5 DEF Sound

\* A child that has said and heard "ok" alone obeys the grammar of chats.
LEMMA OksObey ==
  ASSUME ChildTypes, NEW c \in Child, Sound(c), pc[c] \in {"step", "write"}
  PROVE  /\ at[c] \in DOMAIN Script[verb[c]]
         /\ verb[c] \in Verb
         /\ chat[c] \in Seq({"ok", "no"})
         /\ Len(chat[c]) \in 0 .. 2
         /\ Len(chat[c]) = OksBefore[verb[c]][at[c]]
         /\ AllOk(c)
         /\ no[c] = 0 /\ ~brr[c] /\ sig[c] = "none"
  <1>1. /\ at[c] \in DOMAIN Script[verb[c]]
        /\ verb[c] \in Verb
        /\ chat[c] \in Seq({"ok", "no"})
        /\ Len(chat[c]) = OksBefore[verb[c]][at[c]]
        /\ AllOk(c)
    BY DEF ChildTypes, Sound, OnScript
  <1>2. OksBefore[verb[c]][at[c]] \in 0 .. 2
    BY <1>1, ScriptOks
  <1>3. no[c] = 0 /\ ~brr[c] /\ sig[c] = "none"
    BY DEF Sound, Unfinished
  <1> QED
    BY <1>1, <1>2, <1>3

\* One more answer, after "ok"s alone.
LEMMA Answered ==
  ASSUME NEW s \in Seq({"ok", "no"}), NEW a \in {"ok", "no"},
         Len(s) \in 0 .. 2, \A i \in 1 .. Len(s) : s[i] = "ok",
         NEW t, t = Append(s, a)
  PROVE  /\ t \in Seq({"ok", "no"})
         /\ Len(t) = Len(s) + 1 /\ Len(t) <= 3 /\ (Len(t) = 2 => Len(s) = 1)
         /\ \A i \in 1 .. Len(t) - 1 : t[i] = "ok"
         /\ a = "ok" => \A i \in 1 .. Len(t) : t[i] = "ok"
  OBVIOUS

LEMMA AppendedIsNotEmpty ==
  ASSUME NEW s \in Seq({"ok", "no"}), NEW a \in {"ok", "no"}
  PROVE  Append(s, a) # <<>>
  <1>1. Len(Append(s, a)) = Len(s) + 1 /\ Len(s) \in Nat
    OBVIOUS
  <1> QED
    BY <1>1

\* Nothing more is said or heard, or one "ok" more, or a "no" where the script
\* may have one.
LastAnswer(c) ==
  \/ chat'[c] = chat[c]
  \/ chat'[c] = Append(chat[c], "ok")
  \/ chat'[c] = Append(chat[c], "no") /\ Step(c) \in {"no", "answer", "recv", "reply"}

\* A step to "end" after no answer, or after a last one.
LEMMA Ends ==
  ASSUME ChildInv, NEW c \in Child, pc[c] \in {"step", "write"},
         Alone(c), pc'[c] = "end", SameVerb(c), at'[c] = at[c],
         brr'[c] = brr[c], sig'[c] = sig[c],
         asked'[c] = asked[c], InChat(c)',
         LastAnswer(c)
  PROVE  ChildInv'
  <1>1. /\ ChildTypes /\ Sound(c)
    BY DEF ChildInv
  <1>2. PICK s, t : s = chat[c] /\ t = chat'[c]
    OBVIOUS
  <1>3. /\ s \in Seq({"ok", "no"})
        /\ Len(s) \in 0 .. 2
        /\ \A i \in 1 .. Len(s) : s[i] = "ok"
    BY <1>1, <1>2, OksObey DEF AllOk
  <1>4. /\ at[c] \in DOMAIN Script[verb[c]]
        /\ verb[c] \in Verb
        /\ Len(s) = OksBefore[verb[c]][at[c]]
        /\ no[c] = 0 /\ ~brr[c] /\ sig[c] = "none"
    BY <1>1, <1>2, OksObey
  <1>5. /\ Len(t) <= 3 /\ \A i \in 1 .. Len(t) - 1 : t[i] = "ok"
        /\ Len(t) = 2 /\ t[2] = "no" => verb[c] \in SecondNos
    <2>1. CASE t = s
      BY <1>3, <2>1
    <2>2. CASE t = Append(s, "ok")
      <3>1. Len(t) <= 3 /\ \A i \in 1 .. Len(t) : t[i] = "ok"
        BY <1>3, <2>2, Answered
      <3>2. Len(t) \in Nat
        BY <1>3, <2>2
      <3> QED
        BY <3>1, <3>2
    <2>3. CASE t = Append(s, "no") /\ Step(c) \in {"no", "answer", "recv", "reply"}
      <3>1. /\ Len(t) <= 3 /\ (Len(t) = 2 => Len(s) = 1)
            /\ \A i \in 1 .. Len(t) - 1 : t[i] = "ok"
        <4>1. t = Append(s, "no") /\ "no" \in {"ok", "no"}
          BY <2>3
        <4>2. \A i \in 1 .. Len(s) : s[i] = "ok"
          BY <1>3
        <4> QED
          BY <1>3, <4>1, <4>2, Answered, SMTT(60)
      <3>2. OksBefore[verb[c]][at[c]] = 1 => verb[c] \in SecondNos
        BY <1>4, <2>3, ScriptOks DEF Step, SecondNos
      <3> QED
        BY <1>4, <3>1, <3>2
    <2> QED
      BY <1>2, <2>1, <2>2, <2>3 DEF LastAnswer
  <1>6. Sound(c)'
    <2>1. Grammar(c)' /\ AtEnd(c)'
      BY <1>2, <1>4, <1>5 DEF Grammar, AtEnd, SameVerb
    <2>2. Unfinished(c)' /\ NoBits(c)'
      BY <1>4 DEF Unfinished, NoBits, SameVerb
    <2>3. Heard(c)'
      BY <1>1 DEF Sound, Heard, InChat
    <2> QED
      BY <2>1, <2>2, <2>3 DEF Sound, Blank, OnScript, SaysStep, Recorded, Exited
  <1> QED
    BY <1>6, AloneIsEnough

\* An exit without a record: from "scan", with class "fault" or by a signal.
LEMMA CutShort ==
  ASSUME ChildInv, NEW c \in Child, pc[c] \notin {"idle", "exited"},
         Alone(c), pc'[c] = "exited", chat'[c] = chat[c], brr'[c] = brr[c],
         no'[c] \in {0, no[c]}, asked'[c] = asked[c],
         pc[c] = "scan" \/ class'[c] = "fault" \/ sig'[c] # "none"
  PROVE  ChildInv'
  <1>1. Sound(c)
    BY DEF ChildInv
  <1>2. Grammar(c)'
    BY <1>1 DEF Sound, Grammar
  <1>3. Recorded(c)' /\ NoBits(c)'
    BY <1>1 DEF Sound, Blank, Unfinished, Recorded, NoBits
  <1>4. Sound(c)'
    BY <1>2, <1>3 DEF Sound, Blank, Unfinished, OnScript, SaysStep, AtEnd, Heard, InChat
  <1> QED
    BY <1>4, AloneIsEnough

\* A step to "write", with something the step has to write.
LEMMA Begins ==
  ASSUME ChildInv, NEW c \in Child, pc[c] = "step",
         Alone(c), pc'[c] = "write", SameVerb(c), SameChat(c), at'[c] = at[c],
         \/ say'[c] = "ok" /\ Step(c) \in {"ok", "answer"}
         \/ say'[c] = "no" /\ Step(c) \in {"no", "answer", "recv"}
         \/ say'[c] = "bytes" /\ Step(c) = "send"
  PROVE  ChildInv'
  <1>1. Sound(c)
    BY DEF ChildInv
  <1>2. OnScript(c)' /\ SaysStep(c)'
    BY <1>1 DEF Sound, OnScript, AllOk, SaysStep, Step, SameVerb, SameChat
  <1>3. Grammar(c)'
    BY <1>1 DEF Sound, Grammar, SameChat
  <1>4. Unfinished(c)' /\ NoBits(c)'
    BY <1>1 DEF Sound, Unfinished, NoBits, SameVerb, SameChat
  <1>5. Heard(c)'
    BY <1>1 DEF Sound, Heard, InChat, SameChat
  <1>6. Sound(c)'
    BY <1>2, <1>3, <1>4, <1>5 DEF Sound, Blank, AtEnd, Recorded, Exited
  <1> QED
    BY <1>6, AloneIsEnough

\* The step done: an "ok" more for one that answers, none for bytes.
StepDone(c) ==
  \/ Step(c) \in {"ok", "answer", "reply"} /\ chat'[c] = Append(chat[c], "ok")
  \/ Step(c) \in {"send", "recv"} /\ chat'[c] = chat[c]

LEMMA GoesOn ==
  ASSUME ChildInv, NEW c \in Child, pc[c] \in {"step", "write"},
         Alone(c), Onwards(c), SameVerb(c), brr'[c] = brr[c], sig'[c] = sig[c],
         asked'[c] = asked[c], InChat(c)',
         StepDone(c)
  PROVE  ChildInv'
  <1>1. ChildTypes /\ Sound(c)
    BY DEF ChildInv
  <1>2. CASE at[c] = Len(Script[verb[c]])
    <2>1. pc'[c] = "end" /\ at'[c] = at[c]
      BY <1>1, <1>2 DEF Onwards, To, ChildTypes
    <2>2. LastAnswer(c)
      BY DEF StepDone, LastAnswer
    <2> QED
      BY <2>1, <2>2, Ends
  <1>3. CASE at[c] # Len(Script[verb[c]])
    <2>1. pc'[c] = "step" /\ at'[c] = at[c] + 1
      BY <1>1, <1>3 DEF Onwards, To, ChildTypes
    <2>2. PICK s, t : s = chat[c] /\ t = chat'[c]
      OBVIOUS
    <2>3. /\ at[c] \in DOMAIN Script[verb[c]]
          /\ verb[c] \in Verb
          /\ s \in Seq({"ok", "no"})
          /\ Len(s) \in 0 .. 2
          /\ Len(s) = OksBefore[verb[c]][at[c]]
          /\ \A i \in 1 .. Len(s) : s[i] = "ok"
          /\ no[c] = 0 /\ ~brr[c] /\ sig[c] = "none"
      BY <1>1, <2>2, OksObey DEF AllOk
    <2>4. at'[c] \in DOMAIN Script[verb[c]]
      BY <1>3, <2>1, <2>3, ScriptOks
    <2>5. /\ Len(t) = OksBefore[verb[c]][at'[c]]
          /\ \A i \in 1 .. Len(t) : t[i] = "ok"
      <3>1. CASE Step(c) \in {"ok", "answer", "reply"} /\ t = Append(s, "ok")
        <4>1. Len(t) = Len(s) + 1 /\ \A i \in 1 .. Len(t) : t[i] = "ok"
          BY <2>3, <3>1, Answered
        <4>2. OksBefore[verb[c]][at[c] + 1] = OksBefore[verb[c]][at[c]] + 1
          BY <1>3, <2>3, <3>1, ScriptOks DEF Step
        <4> QED
          BY <2>1, <2>3, <4>1, <4>2
      <3>2. CASE Step(c) \in {"send", "recv"} /\ t = s
        <4>1. OksBefore[verb[c]][at[c] + 1] = OksBefore[verb[c]][at[c]]
          BY <1>3, <2>3, <3>2, ScriptOks DEF Step
        <4> QED
          BY <2>1, <2>3, <3>2, <4>1
      <3> QED
        BY <2>2, <3>1, <3>2 DEF StepDone
    <2>6. OnScript(c)'
      BY <2>2, <2>4, <2>5 DEF OnScript, AllOk, SameVerb
    <2>7. Grammar(c)'
      <3>1. Len(t) \in 0 .. 2
        BY <2>3, <2>4, <2>5, ScriptOks
      <3> QED
        BY <2>2, <2>5, <3>1 DEF Grammar
    <2>8. Unfinished(c)' /\ NoBits(c)'
      BY <2>3 DEF Unfinished, NoBits, SameVerb
    <2>9. Sound(c)'
      BY <1>1, <2>1, <2>6, <2>7, <2>8
         DEF Sound, Blank, SaysStep, AtEnd, Recorded, Exited, Heard, InChat
    <2> QED
      BY <2>9, AloneIsEnough
  <1> QED
    BY <1>2, <1>3

\* Nothing of what the invariant speaks of has changed.
LEMMA AnotherSide ==
  ASSUME ChildInv, ChildTypes', UNCHANGED <<pc, verb, at, say, class, chat, no, brr, sig, asked, told>>
  PROVE  ChildInv'
  <1>1. ASSUME NEW c \in Child PROVE Sound(c)'
    BY DEF ChildInv, Sound, Blank, Unfinished, AllOk, OnScript, SaysStep, Step, AtEnd,
           NoBits, Grammar, Recorded, Exited, Heard, InChat
  <1> QED
    BY <1>1 DEF ChildInv

\* Going on leaves the types as they are.
LEMMA NextStepTyped ==
  ASSUME ChildInv, NEW c \in Child, pc[c] \in {"step", "write"}, Onwards(c)
  PROVE  /\ pc' \in [Child -> {"idle", "scan", "step", "write", "end", "exited"}]
         /\ at' \in [Child -> 1 .. 4]
         /\ \A d \in Child \ {c} : pc'[d] = pc[d] /\ at'[d] = at[d]
  <1>1. ChildTypes /\ verb[c] \in Verb /\ at[c] \in DOMAIN Script[verb[c]]
    BY OksObey DEF ChildInv
  <1>2. /\ Len(Script[verb[c]]) \in 1 .. 4
        /\ DOMAIN Script[verb[c]] = 1 .. Len(Script[verb[c]])
    BY <1>1, ScriptSteps
  <1>3. at[c] # Len(Script[verb[c]]) => at[c] + 1 \in 1 .. 4
    <2>1. PICK n, a : n = Len(Script[verb[c]]) /\ a = at[c]
      OBVIOUS
    <2>2. n \in 1 .. 4 /\ a \in 1 .. n
      BY <1>1, <1>2, <2>1
    <2>3. a # n => a + 1 \in 1 .. 4
      BY <2>2
    <2> QED
      BY <2>1, <2>3
  <1>4. \/ pc' = [pc EXCEPT ![c] = "end"] /\ at' = at
        \/ pc' = [pc EXCEPT ![c] = "step"] /\ at' = [at EXCEPT ![c] = @ + 1] /\ at[c] + 1 \in 1 .. 4
    BY <1>3 DEF Onwards, To
  <1> QED
    BY <1>1, <1>4 DEF ChildTypes

-----------------------------------------------------------------------------
(* The invariant of the children, action by action.                          *)

LEMMA ChildInvStep ==
  ASSUME ChildInv, [Next]_vars
  PROVE  ChildInv'
  <1> USE DEF Alone, ChildTypes, To, SameVerb, SameChat, io, status, record, counts
  <1>0. ChildTypes /\ \A c \in Child : Sound(c)
    BY DEF ChildInv
  <1>1. ASSUME NEW c \in Child, NEW v \in Verb, request(c, v) PROVE ChildInv'
    <2>1. /\ Alone(c) /\ pc[c] = "scan" /\ pc'[c] = "step"
          /\ chat'[c] = chat[c] /\ brr'[c] = brr[c] /\ sig'[c] = sig[c]
          /\ asked'[c] = v /\ told'[c] = told[c]
          /\ verb'[c] = v /\ at'[c] = at[c] /\ no'[c] = no[c]
      BY <1>0, <1>1 DEF request
    <2>2. Sound(c) /\ at[c] = 1 /\ chat[c] = <<>> /\ ~told[c]
      BY <1>0, <2>1 DEF Sound, Blank
    <2>3. OnScript(c)'
      <3>1. 1 \in DOMAIN Script[v] /\ OksBefore[v][1] = 0
        BY ScriptSteps
      <3>2. Len(chat'[c]) = 0 /\ AllOk(c)'
        BY <2>1, <2>2 DEF AllOk
      <3> QED
        BY <2>1, <2>2, <3>1, <3>2 DEF OnScript
    <2>4. Grammar(c)'
      BY <2>1, <2>2 DEF Grammar
    <2>5. Unfinished(c)' /\ NoBits(c)'
      BY <2>1, <2>2 DEF Sound, Unfinished, NoBits
    <2>6. Sound(c)'
      <3>1. Heard(c)'
        BY <2>1, <2>2 DEF Heard, InChat, Verb
      <3> QED
        BY <2>1, <2>3, <2>4, <2>5, <3>1
           DEF Sound, Blank, SaysStep, AtEnd, Recorded, Exited
    <2> QED
      BY <2>1, <2>6, AloneIsEnough
  <1>2. ASSUME NEW c \in Child, request_no(c) PROVE ChildInv'
    <2>1. /\ Alone(c) /\ SameVerb(c) /\ pc[c] = "scan" /\ pc'[c] = "exited"
          /\ chat'[c] = chat[c] /\ brr'[c] = brr[c] /\ asked'[c] = asked[c]
      BY <1>0, <1>2 DEF request_no, Exit, SetExit, Tell, Class
    <2> QED
      BY <2>1, CutShort
  <1>3. ASSUME NEW c \in Child, request_unknown(c) PROVE ChildInv'
    <2>1. Alone(c) /\ SameVerb(c) /\ SameChat(c) /\ pc[c] = "scan" /\ pc'[c] = "exited"
      BY <1>0, <1>3 DEF request_unknown, Exit, SetExit, Tell, Class
    <2> QED
      BY <2>1, CutShort
  <1>4. ASSUME NEW c \in Child, request_incomplete(c) PROVE ChildInv'
    <2>1. /\ Alone(c) /\ SameVerb(c) /\ pc[c] = "scan" /\ pc'[c] = "exited"
          /\ chat'[c] = chat[c] /\ brr'[c] = brr[c] /\ asked'[c] = asked[c]
      BY <1>0, <1>4 DEF request_incomplete, Exit, SetExit, Tell, Class
    <2> QED
      BY <2>1, CutShort
  <1>5. ASSUME NEW c \in Child, request_timeout(c) PROVE ChildInv'
    <2>1. /\ Alone(c) /\ SameVerb(c) /\ pc[c] = "scan" /\ pc'[c] = "exited"
          /\ chat'[c] = chat[c] /\ brr'[c] = brr[c] /\ asked'[c] = asked[c]
      BY <1>0, <1>5 DEF request_timeout, Exit, SetExit, Tell, Late, Class
    <2> QED
      BY <2>1, CutShort
  <1>6. ASSUME NEW c \in Child, write_ok(c) PROVE ChildInv'
    <2>1. /\ Alone(c) /\ SameVerb(c) /\ SameChat(c) /\ pc[c] = "step"
          /\ pc'[c] = "write" /\ at'[c] = at[c] /\ say'[c] = "ok"
      BY <1>0, <1>6 DEF write_ok, Write
    <2> QED
      BY <2>1, <1>6, Begins DEF write_ok
  <1>7. ASSUME NEW c \in Child, write_no(c) PROVE ChildInv'
    <2>1. /\ Alone(c) /\ SameVerb(c) /\ SameChat(c) /\ pc[c] = "step"
          /\ pc'[c] = "write" /\ at'[c] = at[c] /\ say'[c] = "no"
      <3>1. /\ pc' = [pc EXCEPT ![c] = "write"] /\ say' = [say EXCEPT ![c] = "no"]
            /\ timer' = [timer EXCEPT ![c] = TRUE] /\ pc[c] = "step"
            /\ UNCHANGED <<at, client, late, record>>
        BY <1>7 DEF write_no, Write
      <3>2. /\ UNCHANGED <<verb, no>> /\ class' \in [Child -> Class]
            /\ \A d \in Child \ {c} : class'[d] = class[d]
        BY <1>0, <1>7 DEF write_no, status, SetExit, Class
      <3> QED
        BY <1>0, <3>1, <3>2
    <2> QED
      BY <2>1, <1>7, Begins DEF write_no
  <1>8. ASSUME NEW c \in Child, blob_write(c) PROVE ChildInv'
    <2>1. /\ Alone(c) /\ SameVerb(c) /\ SameChat(c) /\ pc[c] = "step"
          /\ pc'[c] = "write" /\ at'[c] = at[c] /\ say'[c] = "bytes"
      BY <1>0, <1>8 DEF blob_write, Write
    <2> QED
      BY <2>1, <1>8, Begins DEF blob_write
  <1>9. ASSUME NEW c \in Child, blob_empty(c) PROVE ChildInv'
    <2>1. pc[c] = "step" /\ Step(c) = "send" /\ Onwards(c)
      BY <1>9 DEF blob_empty
    <2>2. Alone(c) /\ SameVerb(c) /\ SameChat(c)
      BY <1>0, <1>9, NextStepTyped DEF blob_empty, Onwards
    <2>3. StepDone(c)
      BY <2>1, <2>2 DEF StepDone
    <2>4. InChat(c)'
      BY <1>0, <2>1, <2>2 DEF Sound, Heard, InChat
    <2> QED
      BY <2>1, <2>2, <2>3, <2>4, GoesOn
  <1>10. ASSUME NEW c \in Child, blob_read(c) PROVE ChildInv'
    <2>1. pc[c] = "step" /\ Step(c) = "recv" /\ Onwards(c)
      BY <1>10 DEF blob_read
    <2>2. Alone(c) /\ SameVerb(c) /\ SameChat(c)
      BY <1>0, <1>10, NextStepTyped DEF blob_read, Onwards
    <2>3. StepDone(c)
      BY <2>1, <2>2 DEF StepDone
    <2>4. InChat(c)'
      BY <1>0, <2>1, <2>2 DEF Sound, Heard, InChat
    <2> QED
      BY <2>1, <2>2, <2>3, <2>4, GoesOn
  <1>11. ASSUME NEW c \in Child, Written(c) PROVE ChildInv'
    <2>1. /\ pc[c] = "write" /\ Said(c)
          /\ IF say[c] = "no" THEN To(c, "end") /\ UNCHANGED at ELSE Onwards(c)
      BY <1>11 DEF Written
    <2>2. chat' \in [Child -> Seq({"ok", "no"})]
      <3>1. say[c] \in {"ok", "no", "bytes"}
        BY <1>0, <2>1 DEF SaysStep, Sound
      <3>2. CASE say[c] = "bytes"
        BY <1>0, <2>1, <3>2 DEF Said
      <3>3. CASE say[c] \in {"ok", "no"}
        <4>1. Append(chat[c], say[c]) \in Seq({"ok", "no"})
          BY <1>0, <3>3
        <4> QED
          BY <1>0, <2>1, <3>3, <4>1 DEF Said
      <3> QED
        BY <3>1, <3>2, <3>3
    <2>8. /\ told' \in [Child -> BOOLEAN]
          /\ \A d \in Child \ {c} : chat'[d] = chat[d] /\ told'[d] = told[d]
      BY <1>0, <2>1 DEF Said, Tell
    <2>9. /\ pc' \in [Child -> {"idle", "scan", "step", "write", "end", "exited"}]
          /\ at' \in [Child -> 1 .. 4]
          /\ \A d \in Child \ {c} : pc'[d] = pc[d] /\ at'[d] = at[d]
      BY <1>0, <2>1, NextStepTyped
    <2>3. /\ Alone(c) /\ SameVerb(c) /\ brr'[c] = brr[c] /\ sig'[c] = sig[c]
          /\ asked'[c] = asked[c]
      BY <1>0, <1>11, <2>2, <2>8, <2>9 DEF Written
    <2>7. InChat(c)'
      <3>1. CASE say[c] = "bytes"
        BY <1>0, <2>1, <3>1 DEF Said, Sound, Heard, InChat
      <3>2. CASE say[c] # "bytes"
        <4>1. told'[c] /\ chat'[c] = Append(chat[c], say[c])
          BY <1>0, <2>1, <3>2 DEF Said, Tell
        <4>2. say[c] \in {"ok", "no"}
          BY <1>0, <2>1, <3>2 DEF Sound, SaysStep
        <4>3. Append(chat[c], say[c]) # <<>>
          BY <1>0, <4>2, AppendedIsNotEmpty
        <4> QED
          BY <4>1, <4>3 DEF InChat
      <3> QED
        BY <3>1, <3>2
    <2>4. \/ say[c] = "ok" /\ Step(c) \in {"ok", "answer"}
          \/ say[c] = "no" /\ Step(c) \in {"no", "answer", "recv"}
          \/ say[c] = "bytes" /\ Step(c) = "send"
      BY <1>0, <2>1 DEF Sound, SaysStep
    <2>5. CASE say[c] = "no"
      <3>1. LastAnswer(c)
        BY <1>0, <2>1, <2>4, <2>5 DEF Said, LastAnswer
      <3>2. pc'[c] = "end" /\ at'[c] = at[c]
        BY <1>0, <2>1, <2>5
      <3> QED
        BY <2>1, <2>3, <2>7, <3>1, <3>2, Ends
    <2>6. CASE say[c] # "no"
      <3>1. chat'[c] = IF say[c] = "bytes" THEN chat[c] ELSE Append(chat[c], say[c])
        BY <1>0, <2>1 DEF Said
      <3>2. StepDone(c)
        BY <2>4, <2>6, <3>1 DEF StepDone
      <3> QED
        BY <2>1, <2>3, <2>6, <2>7, <3>2, GoesOn
    <2> QED
      BY <2>5, <2>6
  <1>12. ASSUME NEW c \in Child, req_write_error(c) PROVE ChildInv'
    <2>1. /\ Alone(c) /\ SameVerb(c) /\ SameChat(c) /\ pc[c] \in {"step", "write"}
          /\ pc'[c] = "end" /\ at'[c] = at[c]
      BY <1>0, <1>12 DEF req_write_error, SetExit, Class
    <2>2. InChat(c)'
      BY <1>0, <2>1 DEF Sound, Heard, InChat
    <2> QED
      BY <2>1, <2>2, Ends DEF LastAnswer
  <1>13. ASSUME NEW c \in Child, req_write_timeout(c) PROVE ChildInv'
    <2>1. /\ Alone(c) /\ SameVerb(c) /\ SameChat(c) /\ pc[c] \in {"step", "write"}
          /\ pc'[c] = "end" /\ at'[c] = at[c]
      BY <1>0, <1>13 DEF req_write_timeout, SetExit, Class
    <2>2. InChat(c)'
      BY <1>0, <2>1 DEF Sound, Heard, InChat
    <2> QED
      BY <2>1, <2>2, Ends DEF LastAnswer
  <1>14. ASSUME NEW c \in Child, read_reply_error(c) PROVE ChildInv'
    <2>1. /\ Alone(c) /\ SameVerb(c) /\ SameChat(c) /\ pc[c] \in {"step", "write"}
          /\ pc'[c] = "end" /\ at'[c] = at[c]
      BY <1>0, <1>14 DEF read_reply_error, SetExit, Class, Late
    <2>2. InChat(c)'
      BY <1>0, <2>1 DEF Sound, Heard, InChat
    <2> QED
      BY <2>1, <2>2, Ends DEF LastAnswer
  <1>15. ASSUME NEW c \in Child, blob_read_failed(c) PROVE ChildInv'
    <2>1. /\ Alone(c) /\ SameVerb(c) /\ SameChat(c) /\ pc[c] = "step"
          /\ pc'[c] = "write" /\ at'[c] = at[c] /\ say'[c] = "no"
      BY <1>0, <1>15 DEF blob_read_failed, SetExit, Class
    <2> QED
      BY <2>1, <1>15, Begins DEF blob_read_failed
  <1>16. ASSUME NEW c \in Child, read_reply(c) PROVE ChildInv'
    <2>1. pc[c] = "step" /\ Step(c) = "reply"
      BY <1>16 DEF read_reply, Reads
    <2>4. ASSUME NEW w \in {"ok", "no"}, Reads(c, w)
          PROVE  InChat(c)'
      <3>1. told'[c] = told[c] /\ chat'[c] = Append(chat[c], w)
        BY <1>0, <2>4 DEF Reads
      <3>2. Append(chat[c], w) # <<>>
        BY <1>0, AppendedIsNotEmpty
      <3>3. chat[c] # <<>>
        <4>1. /\ at[c] \in DOMAIN Script[verb[c]] /\ verb[c] \in Verb
              /\ Len(chat[c]) = OksBefore[verb[c]][at[c]]
          BY <1>0, <2>1, OksObey
        <4>2. OksBefore[verb[c]][at[c]] # 0
          BY <2>1, <4>1, ScriptOks DEF Step
        <4> QED
          BY <4>1, <4>2
      <3> QED
        BY <1>0, <2>1, <3>1, <3>2, <3>3 DEF Sound, Heard, InChat
    <2>2. CASE Reads(c, "ok") /\ Onwards(c)
      <3>1. /\ Alone(c) /\ SameVerb(c) /\ brr'[c] = brr[c] /\ sig'[c] = sig[c]
            /\ asked'[c] = asked[c]
        BY <1>0, <2>2, NextStepTyped DEF Reads, Onwards
      <3>2. StepDone(c)
        BY <1>0, <2>1, <2>2 DEF Reads, StepDone
      <3> QED
        BY <2>1, <2>2, <2>4, <3>1, <3>2, GoesOn
    <2>3. CASE Reads(c, "no") /\ To(c, "end") /\ UNCHANGED at
      <3>1. /\ Alone(c) /\ SameVerb(c) /\ brr'[c] = brr[c] /\ sig'[c] = sig[c]
            /\ asked'[c] = asked[c] /\ pc'[c] = "end" /\ at'[c] = at[c]
        BY <1>0, <2>3 DEF Reads
      <3>2. LastAnswer(c)
        BY <1>0, <2>1, <2>3 DEF Reads, LastAnswer
      <3> QED
        BY <2>1, <2>3, <2>4, <3>1, <3>2, Ends
    <2> QED
      BY <1>16, <2>2, <2>3 DEF read_reply
  <1>17. ASSUME NEW c \in Child, request_done(c) PROVE ChildInv'
    <2>1. PICK n : n = Len(chat[c])
      OBVIOUS
    <2>2. /\ Alone(c) /\ pc[c] = "end" /\ pc'[c] = "exited" /\ chat[c] # <<>>
          /\ chat'[c] = chat[c] /\ verb'[c] = verb[c] /\ sig'[c] = sig[c] /\ brr'[c]
          /\ asked'[c] = asked[c] /\ told'[c] = told[c]
          /\ no'[c] = IF n < 3 /\ chat[c][n] = "no" THEN n ELSE 0
      <3>1. n \in Nat /\ n <= 3
        BY <1>0, <2>1 DEF Sound, Grammar
      <3> QED
        BY <1>0, <2>1, <3>1, <1>17 DEF request_done, Finish
    <2>3. no'[c] # 3 /\ (no'[c] = 2 => verb[c] \in SecondNos)
      <3>1. n = 2 /\ chat[c][2] = "no" => verb[c] \in SecondNos
        BY <1>0, <2>1, <2>2 DEF Sound, AtEnd
      <3> QED
        BY <2>2, <3>1
    <2>4. Grammar(c)'
      BY <1>0, <2>2 DEF Sound, Grammar
    <2>5. Recorded(c)' /\ NoBits(c)'
      BY <1>0, <2>2, <2>3 DEF Sound, Unfinished, Recorded, NoBits, Heard, InChat
    <2>6. Sound(c)'
      BY <2>2, <2>4, <2>5
         DEF Sound, Blank, Unfinished, OnScript, SaysStep, AtEnd, Heard, InChat
    <2> QED
      BY <2>2, <2>6, AloneIsEnough
  <1>18. ASSUME NEW c \in Child, request_silent(c) PROVE ChildInv'
    <2>1. /\ Alone(c) /\ SameVerb(c) /\ SameChat(c) /\ pc[c] = "end" /\ pc'[c] = "exited"
          /\ class'[c] = "fault"
      BY <1>0, <1>18 DEF request_silent, Exit, SetExit, Tell, Class
    <2> QED
      BY <2>1, CutShort
  <1>19. ASSUME NEW c \in Child, module_panic(c) PROVE ChildInv'
    <2>1. /\ Alone(c) /\ SameVerb(c) /\ SameChat(c) /\ pc[c] = "step" /\ pc'[c] = "exited"
          /\ class'[c] = "fault"
      BY <1>0, <1>19 DEF module_panic, Exit, SetExit, Tell, Class
    <2> QED
      BY <2>1, CutShort
  <1>20. ASSUME NEW c \in Child, client_stalls(c) PROVE ChildInv'
    <2>1. Alone(c) /\ UNCHANGED <<pc, verb, at, say, class, chat, no, brr, sig, asked, told>>
      BY <1>0, <1>20 DEF client_stalls
    <2> QED
      BY <2>1, AnotherSide
  <1>21. ASSUME NEW c \in Child, client_resumes(c) PROVE ChildInv'
    <2>1. Alone(c) /\ UNCHANGED <<pc, verb, at, say, class, chat, no, brr, sig, asked, told>>
      BY <1>0, <1>21 DEF client_resumes
    <2> QED
      BY <2>1, AnotherSide
  <1>22. ASSUME NEW c \in Child, client_leaves(c) PROVE ChildInv'
    <2>1. Alone(c) /\ UNCHANGED <<pc, verb, at, say, class, chat, no, brr, sig, asked, told>>
      BY <1>0, <1>22 DEF client_leaves
    <2> QED
      BY <2>1, AnotherSide
  <1>23. ASSUME NEW c \in Child, net_write_again(c) PROVE ChildInv'
    <2>1. Alone(c) /\ UNCHANGED <<pc, verb, at, say, class, chat, no, brr, sig, asked, told>>
      BY <1>0, <1>23 DEF net_write_again
    <2> QED
      BY <2>1, AnotherSide
  <1>24. ASSUME NEW c \in Child, catch_terminate(c) PROVE ChildInv'
    <2>1. /\ Alone(c) /\ pc[c] \notin {"idle", "exited"} /\ pc'[c] = "exited"
          /\ chat'[c] = chat[c] /\ brr'[c] = brr[c] /\ no'[c] = 0 /\ sig'[c] = "TERM"
          /\ asked'[c] = asked[c]
      BY <1>0, <1>24 DEF catch_terminate, Alive, Class, Verb
    <2> QED
      BY <2>1, CutShort
  <1>25. ASSUME NEW c \in Child, kill_child(c) PROVE ChildInv'
    <2>1. /\ Alone(c) /\ SameVerb(c) /\ pc[c] \notin {"idle", "exited"} /\ pc'[c] = "exited"
          /\ chat'[c] = chat[c] /\ brr'[c] = brr[c] /\ sig'[c] = "KILL"
          /\ asked'[c] = asked[c]
      BY <1>0, <1>25 DEF kill_child, Alive
    <2> QED
      BY <2>1, CutShort
  <1>26. ASSUME NEW c \in Child, fork_accept(c) PROVE ChildInv'
    <2>1. /\ Alone(c) /\ SameVerb(c) /\ SameChat(c) /\ pc[c] = "idle" /\ pc'[c] = "scan"
          /\ at'[c] = at[c]
      BY <1>0, <1>26 DEF fork_accept
    <2>2. Sound(c)'
      <3>1. Grammar(c)'
        BY <1>0, <2>1 DEF Sound, Grammar
      <3> QED
        BY <1>0, <2>1, <3>1
           DEF Sound, Blank, Unfinished, OnScript, SaysStep, AtEnd, NoBits, Recorded, Exited,
               Heard, InChat
    <2> QED
      BY <2>1, <2>2, AloneIsEnough
  <1>27. ASSUME NEW c \in Child, reap_request(c) PROVE ChildInv'
    <2>1. /\ Alone(c) /\ pc'[c] = "idle" /\ verb'[c] = "cat" /\ at'[c] = 1
          /\ chat'[c] = <<>> /\ no'[c] = 0 /\ brr'[c] = FALSE /\ sig'[c] = "none"
          /\ asked'[c] = "none" /\ told'[c] = FALSE
      BY <1>0, <1>27 DEF reap_request, Reap, Class, Verb, Tell
    <2>2. Grammar(c)'
      BY <2>1 DEF Grammar
    <2>3. Sound(c)'
      BY <2>1, <2>2
         DEF Sound, Blank, Unfinished, OnScript, SaysStep, AtEnd, NoBits, Recorded, Exited,
             Heard, InChat
    <2> QED
      BY <2>1, <2>3, AloneIsEnough
  <1>29. ASSUME NEW c \in Child, eat_chunk(c) PROVE ChildInv'
    <2>1. /\ Alone(c)
          /\ UNCHANGED <<pc, verb, at, say, class, chat, no, brr, sig, asked, told>>
      BY <1>0, <1>29 DEF eat_chunk, status
    <2> QED
      BY <2>1, AnotherSide
  <1>28. CASE fork_failed \/ UNCHANGED vars
    BY <1>28, AnotherSide, <1>0 DEF fork_failed, vars
  <1> HIDE DEF Alone, ChildTypes, To, SameVerb, SameChat, io, status, record, counts
  <1> QED
    BY <1>1, <1>2, <1>3, <1>4, <1>5, <1>6, <1>7, <1>8, <1>9, <1>10, <1>11, <1>12, <1>13, <1>14, <1>15, <1>16, <1>17, <1>18, <1>19, <1>20, <1>21, <1>22, <1>23, <1>24, <1>25, <1>26, <1>27, <1>28, <1>29
       DEF Next, ChildStep, req_write, req_write_buffered

-----------------------------------------------------------------------------
(* The counters of the master.                                               *)

Busy == {c \in Child : pc[c] # "idle"}

LEMMA BusyIsFinite == IsFiniteSet(Busy) /\ Cardinality(Busy) \in Nat
  <1>1. IsFiniteSet(Child) /\ Busy \in SUBSET Child
    BY RequestAssumption DEF Busy
  <1>2. IsFiniteSet(Busy)
    BY <1>1, FS_Subset
  <1> QED
    BY <1>2, FS_CardinalityType

\* What a child and its client do frees no slot, takes none and counts nothing.
Unseen(c) ==
  /\ UNCHANGED counts
  /\ \/ pc' = pc
     \/ pc[c] # "idle" /\ \E p \in {"step", "write", "end", "exited"} : To(c, p)

LEMMA ChildrenUnseen ==
  ASSUME NEW c \in Child,
         \/ ChildStep(c) \/ req_write_buffered(c)
         \/ client_stalls(c) \/ client_resumes(c) \/ client_leaves(c)
         \/ catch_terminate(c) \/ kill_child(c)
  PROVE  Unseen(c)
  <1> USE DEF Unseen
  <1>1. ASSUME NEW v \in Verb, request(c, v) PROVE Unseen(c)
    BY <1>1 DEF request
  <1>2. ASSUME request_no(c) PROVE Unseen(c)
    BY <1>2 DEF request_no, Exit
  <1>3. ASSUME request_unknown(c) PROVE Unseen(c)
    BY <1>3 DEF request_unknown, Exit
  <1>4. ASSUME request_incomplete(c) PROVE Unseen(c)
    BY <1>4 DEF request_incomplete, Exit
  <1>5. ASSUME request_timeout(c) PROVE Unseen(c)
    BY <1>5 DEF request_timeout, Exit
  <1>6. ASSUME write_ok(c) PROVE Unseen(c)
    BY <1>6 DEF write_ok, Write
  <1>7. ASSUME write_no(c) PROVE Unseen(c)
    BY <1>7 DEF write_no, Write
  <1>8. ASSUME blob_write(c) PROVE Unseen(c)
    BY <1>8 DEF blob_write, Write
  <1>9. ASSUME blob_empty(c) PROVE Unseen(c)
    BY <1>9 DEF blob_empty, Onwards
  <1>10. ASSUME req_write(c) PROVE Unseen(c)
    BY <1>10 DEF req_write, Written, Onwards
  <1>11. ASSUME req_write_buffered(c) PROVE Unseen(c)
    BY <1>11 DEF req_write_buffered, Written, Onwards
  <1>12. ASSUME req_write_error(c) PROVE Unseen(c)
    BY <1>12 DEF req_write_error
  <1>13. ASSUME req_write_timeout(c) PROVE Unseen(c)
    BY <1>13 DEF req_write_timeout
  <1>14. ASSUME net_write_again(c) PROVE Unseen(c)
    BY <1>14 DEF net_write_again
  <1>15. ASSUME blob_read(c) PROVE Unseen(c)
    BY <1>15 DEF blob_read, Onwards
  <1>16. ASSUME blob_read_failed(c) PROVE Unseen(c)
    BY <1>16 DEF blob_read_failed
  <1>17. ASSUME read_reply(c) PROVE Unseen(c)
    BY <1>17 DEF read_reply, Reads, Onwards
  <1>18. ASSUME read_reply_error(c) PROVE Unseen(c)
    BY <1>18 DEF read_reply_error
  <1>19. ASSUME request_done(c) PROVE Unseen(c)
    BY <1>19 DEF request_done, Finish
  <1>20. ASSUME request_silent(c) PROVE Unseen(c)
    BY <1>20 DEF request_silent, Exit
  <1>21. ASSUME module_panic(c) PROVE Unseen(c)
    BY <1>21 DEF module_panic, Exit
  <1>22. ASSUME client_stalls(c) PROVE Unseen(c)
    BY <1>22 DEF client_stalls
  <1>23. ASSUME client_resumes(c) PROVE Unseen(c)
    BY <1>23 DEF client_resumes
  <1>24. ASSUME client_leaves(c) PROVE Unseen(c)
    BY <1>24 DEF client_leaves
  <1>25. ASSUME catch_terminate(c) PROVE Unseen(c)
    BY <1>25 DEF catch_terminate, Alive
  <1>26. ASSUME kill_child(c) PROVE Unseen(c)
    BY <1>26 DEF kill_child, Alive
  <1>27. ASSUME eat_chunk(c) PROVE Unseen(c)
    BY <1>27 DEF eat_chunk
  <1> HIDE DEF Unseen
  <1> QED
    BY <1>1, <1>2, <1>3, <1>4, <1>5, <1>6, <1>7, <1>8, <1>9, <1>10, <1>11, <1>12, <1>13, <1>14, <1>15, <1>16, <1>17, <1>18, <1>19, <1>20, <1>21, <1>22, <1>23, <1>24, <1>25, <1>26, <1>27
       DEF ChildStep

\* The counters and the slots, as Balanced has them.
Reaped == count["success"] + count["error"] + count["timeout"] + count["signal"]
          + count["fault"]

LEMMA BalancedSlots ==
  Balanced <=> accept_count = Reaped + Cardinality(Busy) + unforked
  BY DEF Balanced, Reaped, Busy

\* Reaping counts a child once in its class, or as killed, and in its verb if
\* it was not killed.
LEMMA ReapCounts ==
  ASSUME ChildTypes, CounterTypes, VerbsBalanced, NEW c \in Child, reap_request(c)
  PROVE  /\ count' \in [Class \cup {"signal"} -> Nat] /\ verbs' \in [Verb -> Nat]
         /\ Reaped' = Reaped + 1
         /\ VerbsBalanced'
  <1>1. /\ count \in [Class \cup {"signal"} -> Nat] /\ verbs \in [Verb -> Nat]
        /\ class[c] \in Class /\ verb[c] \in Verb
    BY DEF ChildTypes, CounterTypes
  <1>2. CASE sig[c] = "KILL"
    <2>1. count' = [k \in Class \cup {"signal"} |-> IF k = "signal" THEN count[k] + 1 ELSE count[k]]
      BY <1>1, <1>2 DEF reap_request, Reap
    <2>2. verbs' = verbs
      BY <1>2 DEF reap_request, Reap
    <2>3. /\ count' \in [Class \cup {"signal"} -> Nat]
          /\ count'["signal"] = count["signal"] + 1
          /\ \A k \in Class : count'[k] = count[k]
      BY <1>1, <2>1 DEF Class
    <2>4. Reaped' = Reaped + 1
      BY <1>1, <2>3 DEF Reaped, Class
    <2>5. VerbsBalanced'
      BY <2>2, <2>3 DEF VerbsBalanced, OfVerb, OfClass, Class
    <2> QED
      BY <1>1, <2>2, <2>3, <2>4, <2>5
  <1>3. CASE sig[c] # "KILL"
    <2>1. count' = [k \in Class \cup {"signal"} |-> IF k = class[c] THEN count[k] + 1 ELSE count[k]]
      BY <1>1, <1>3 DEF reap_request, Reap
    <2>2. verbs' = [verbs EXCEPT ![verb[c]] = @ + 1]
      BY <1>3 DEF reap_request, Reap
    <2>3. count' \in [Class \cup {"signal"} -> Nat] /\ verbs' \in [Verb -> Nat]
      BY <1>1, <2>1, <2>2
    <2>4. Reaped' = Reaped + 1
      BY <1>1, <2>1 DEF Reaped, Class
    <2>5. OfClass' = OfClass + 1
      BY <1>1, <2>1 DEF OfClass, Class
    <2>6. OfVerb' = OfVerb + 1
      BY <1>1, <2>2 DEF OfVerb, Verb
    <2>7. VerbsBalanced'
      BY <2>5, <2>6 DEF VerbsBalanced, OfVerb, OfClass
    <2> QED
      BY <2>3, <2>4, <2>7
  <1> QED
    BY <1>2, <1>3

LEMMA CounterInvStep ==
  ASSUME IInv, [Next]_vars
  PROVE  CounterInv'
  <1>0. /\ ChildTypes /\ CounterTypes /\ VerbsBalanced
        /\ accept_count = Reaped + Cardinality(Busy) + unforked
    BY BalancedSlots DEF IInv, ChildInv, CounterInv
  <1>1. IsFiniteSet(Busy) /\ Cardinality(Busy) \in Nat /\ Reaped \in Nat /\ MaxAccept \in Nat
    BY <1>0, BusyIsFinite, RequestAssumption DEF CounterTypes, Reaped, Class
  <1> SUFFICES /\ CounterTypes' /\ VerbsBalanced'
               /\ accept_count' = Reaped' + Cardinality(Busy') + unforked'
    BY DEF CounterInv, Balanced, Reaped, Busy
  <1>2. CASE UNCHANGED counts /\ Busy' = Busy
    BY <1>0, <1>2 DEF counts, CounterTypes, VerbsBalanced, OfVerb, OfClass, Reaped
  <1>3. ASSUME NEW c \in Child, Unseen(c)
        PROVE  UNCHANGED counts /\ Busy' = Busy
    BY <1>0, <1>3 DEF Unseen, Busy, To, ChildTypes
  <1>4. CASE UNCHANGED vars
    BY <1>2, <1>4 DEF vars, counts, Busy
  <1>5. ASSUME NEW c \in Child, fork_accept(c)
        PROVE  /\ CounterTypes' /\ VerbsBalanced'
               /\ accept_count' = Reaped' + Cardinality(Busy') + unforked'
    <2>1. /\ accept_count' = accept_count + 1 /\ accept_count < MaxAccept
          /\ UNCHANGED <<unforked, count, verbs>>
          /\ Busy' = Busy \cup {c} /\ c \notin Busy
      BY <1>0, <1>5 DEF fork_accept, Busy, ChildTypes
    <2>2. Cardinality(Busy') = Cardinality(Busy) + 1
      BY <1>1, <2>1, FS_AddElement
    <2> QED
      BY <1>0, <1>1, <2>1, <2>2 DEF CounterTypes, VerbsBalanced, OfVerb, OfClass, Reaped
  <1>6. ASSUME NEW c \in Child, reap_request(c)
        PROVE  /\ CounterTypes' /\ VerbsBalanced'
               /\ accept_count' = Reaped' + Cardinality(Busy') + unforked'
    <2>1. /\ UNCHANGED <<accept_count, unforked>>
          /\ Busy' = Busy \ {c} /\ c \in Busy
      BY <1>0, <1>6 DEF reap_request, Reap, Busy, To, ChildTypes
    <2>2. Cardinality(Busy') = Cardinality(Busy) - 1
      BY <1>1, <2>1, FS_RemoveElement
    <2>3. /\ count' \in [Class \cup {"signal"} -> Nat] /\ verbs' \in [Verb -> Nat]
          /\ Reaped' = Reaped + 1
          /\ VerbsBalanced'
      BY <1>0, <1>6, ReapCounts
    <2> QED
      BY <1>0, <1>1, <2>1, <2>2, <2>3 DEF CounterTypes
  <1>7. CASE fork_failed
    <2>1. /\ accept_count' = accept_count + 1 /\ accept_count < MaxAccept
          /\ unforked' = unforked + 1
          /\ UNCHANGED <<count, verbs>>
          /\ Busy' = Busy
      BY <1>7 DEF fork_failed, Busy
    <2> QED
      BY <1>0, <1>1, <2>1 DEF CounterTypes, VerbsBalanced, OfVerb, OfClass, Reaped
  <1>8. ASSUME NEW c \in Child,
               \/ ChildStep(c) \/ req_write_buffered(c)
               \/ client_stalls(c) \/ client_resumes(c) \/ client_leaves(c)
               \/ catch_terminate(c) \/ kill_child(c)
        PROVE  UNCHANGED counts /\ Busy' = Busy
    BY <1>3, <1>8, ChildrenUnseen
  <1> QED
    BY <1>2, <1>4, <1>5, <1>6, <1>7, <1>8 DEF Next

-----------------------------------------------------------------------------
(* The invariant, and what follows from it.                                  *)

LEMMA IInvInit == Init => IInv
  <1> SUFFICES ASSUME Init PROVE IInv
    OBVIOUS
  <1>1. ChildTypes
    BY DEF Init, ChildTypes, Verb, Class
  <1>2. ASSUME NEW c \in Child PROVE Sound(c)
    <2>1. /\ pc[c] = "idle" /\ verb[c] = "cat" /\ at[c] = 1 /\ chat[c] = <<>>
          /\ no[c] = 0 /\ brr[c] = FALSE /\ sig[c] = "none"
          /\ asked[c] = "none" /\ told[c] = FALSE
      BY DEF Init
    <2>2. Grammar(c)
      BY <2>1 DEF Grammar
    <2> QED
      BY <2>1, <2>2
         DEF Sound, Blank, Unfinished, OnScript, SaysStep, AtEnd, NoBits, Recorded, Exited,
             Heard, InChat
  <1>3. CounterTypes /\ VerbsBalanced /\ Reaped = 0
    BY RequestAssumption DEF Init, CounterTypes, VerbsBalanced, OfVerb, OfClass, Reaped, Verb, Class
  <1>4. Balanced
    <2>1. Busy = {}
      BY DEF Init, Busy
    <2>2. Cardinality(Busy) = 0
      BY <2>1, FS_EmptySet
    <2> QED
      BY <1>3, <2>2, BalancedSlots DEF Init
  <1> QED
    BY <1>1, <1>2, <1>3, <1>4 DEF IInv, ChildInv, CounterInv

LEMMA IInvStep == IInv /\ [Next]_vars => IInv'
  BY ChildInvStep, CounterInvStep DEF IInv

LEMMA Invariance == Spec => []IInv
  BY IInvInit, IInvStep, PTL DEF Spec

\* No counter of the master passes the number of connections it accepted.
LEMMA CountersBounded ==
  ASSUME IInv
  PROVE  /\ unforked <= MaxAccept
         /\ \A k \in Class \cup {"signal"} : count[k] <= MaxAccept
         /\ \A v \in Verb : verbs[v] <= MaxAccept
  <1>1. /\ CounterTypes /\ VerbsBalanced
        /\ accept_count = Reaped + Cardinality(Busy) + unforked
    BY BalancedSlots DEF IInv, CounterInv
  <1>2. Cardinality(Busy) \in Nat /\ MaxAccept \in Nat
    BY BusyIsFinite, RequestAssumption
  <1>3. Reaped \in Nat /\ Reaped <= MaxAccept /\ unforked <= MaxAccept
    BY <1>1, <1>2 DEF CounterTypes, Reaped, Class
  <1>4. \A k \in Class \cup {"signal"} : count[k] <= Reaped
    BY <1>1 DEF CounterTypes, Reaped, Class
  <1>5. \A v \in Verb : verbs[v] <= Reaped
    BY <1>1 DEF CounterTypes, VerbsBalanced, OfVerb, OfClass, Reaped, Class, Verb
  <1> QED
    BY <1>1, <1>2, <1>3, <1>4, <1>5 DEF CounterTypes

\* Every variable keeps its type, and a request is in a step its verb has; the
\* counters of the master stay within the connections it accepted.
THEOREM TypeCorrect == Spec => []TypeOK
  <1>1. ASSUME IInv PROVE TypeOK
    <2>1. /\ ChildTypes /\ CounterTypes /\ MaxAccept \in Nat
          /\ \A c \in Child : Sound(c)
      BY <1>1, RequestAssumption DEF IInv, ChildInv, CounterInv
    <2>2. \A c \in Child : at[c] \in DOMAIN Script[verb[c]] \/ pc[c] = "exited"
                           \/ pc[c] = "idle"
      <3>1. ASSUME NEW c \in Child, pc[c] = "scan"
            PROVE  at[c] \in DOMAIN Script[verb[c]]
        <4>1. verb[c] \in Verb /\ at[c] = 1
          BY <2>1, <3>1 DEF Sound, Blank, ChildTypes
        <4> QED
          BY <4>1, ScriptSteps
      <3> QED
        BY <2>1, <3>1 DEF Sound, OnScript, AtEnd, ChildTypes
    <2>3. /\ accept_count \in 0 .. MaxAccept /\ unforked \in 0 .. MaxAccept
          /\ count \in [Class \cup {"signal"} -> 0 .. MaxAccept]
          /\ verbs \in [Verb -> 0 .. MaxAccept]
      BY <1>1, <2>1, CountersBounded DEF CounterTypes
    <2> QED
      BY <2>1, <2>2, <2>3 DEF TypeOK, ChildTypes
  <1> QED
    BY <1>1, Invariance, PTL

\* Whatever stalls, leaves, times out, panics or is killed: a client is told
\* and tells at most three answers, and only the last of them is a "no".
THEOREM ChatsObeyGrammar == Spec => []ChatGrammar
  <1>1. IInv => ChatGrammar
    BY DEF IInv, ChildInv, Sound, Grammar, ChatGrammar
  <1> QED
    BY <1>1, Invariance, PTL

\* The chat bits of a child that exits well are those of a verb that
\* bump_no() has a counter for: the master does not panic in reap_request().
THEOREM NosAreCounted == Spec => []NosHaveCounters
  <1>1. IInv => NosHaveCounters
    BY DEF IInv, ChildInv, Sound, NoBits, SecondNos, NosHaveCounters
  <1> QED
    BY <1>1, Invariance, PTL

\* A request that nothing cuts short leaves a record if and only if its client
\* asked for something and was told something: the "no" of die_NO() to what is
\* no request leaves none.
THEOREM RecordsMatchAnswers == Spec => []RecordIffAnswered
  <1>1. IInv => RecordIffAnswered
    BY DEF IInv, ChildInv, Sound, Recorded, RecordIffAnswered
  <1> QED
    BY <1>1, Invariance, PTL

\* The equation in the comment on the counters of the master (bio4d.c:166), with
\* the children that are not reaped and the failed fork()s it leaves out.
THEOREM CountersBalance == Spec => []Balanced
  <1>1. IInv => Balanced
    BY DEF IInv, CounterInv
  <1> QED
    BY <1>1, Invariance, PTL

=============================================================================
