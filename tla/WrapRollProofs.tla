---------------------------- MODULE WrapRollProofs -----------------------------
(* Theorems about WrapRoll, for any number of requests below the number of     *)
(* names, any verbs, with and without kills and reboots.                       *)
EXTENDS WrapRoll, FiniteSetTheorems, SequenceTheorems, TLAPS

-----------------------------------------------------------------------------
(* The inductive invariant.                                                  *)

WrapMsg(c) == [op |-> "wrap", child |-> c]

\* Nothing is twice in s, and no y comes after an x.
Distinct(s) == \A i, j \in 1 .. Len(s) : s[i] = s[j] => i = j
Behind(x, y, s) == \A i, j \in 1 .. Len(s) : s[i] = x /\ s[j] = y => j < i

\* TypeOK, with the types of functions and records in full.
ChildTypes ==
  /\ pc \in [Child -> Points]
  /\ verb \in [Child -> {"put", "take", "wrap", "roll"}]
  /\ udig \in [Child -> Log]
  /\ set \in [Child -> SUBSET Log] /\ todo \in [Child -> SUBSET Log]
  /\ ans \in [Child -> {"none", "ok", "no"}]
  /\ path \in [Child -> Name \cup {NoName}]
  /\ before \in [Child -> SUBSET Child]

SpoolTypes ==
  /\ pipe \in Seq(Msg)
  /\ log \in Log
  /\ DOMAIN frozen \subseteq Name /\ \A n \in DOMAIN frozen : frozen[n] \in Log
  /\ stamp \in Stamps /\ seq \in 0 .. SeqSpan - 1
  /\ logger \in [pc : {"idle", "open", "reply", "gone"}, child : Child,
                 name : Name \cup {NoName}]

BlobTypes ==
  /\ wrapped \subseteq Log /\ logBlobs \subseteq Log
  /\ setBlobs \subseteq SUBSET Log
  /\ rolled \subseteq Log /\ taken \subseteq Log

Types == ChildTypes /\ SpoolTypes /\ BlobTypes

\* The handler a child is in is that of its verb; its answer comes last; and a
\* request that was over when another one started stays over.
HandlerOfVerb ==
  \A c \in Child :
    /\ pc[c] \in {"open", "read", "frozen", "rename", "scan", "set", "ok"} => verb[c] = "wrap"
    /\ pc[c] \in {"take", "unlink"} => verb[c] = "take"
    /\ pc[c] \in {"opendir", "roll"} => verb[c] = "roll"

AnswerLast == \A c \in Child : ans[c] # "none" => pc[c] \in {"brr", "sent", "dead"}

BeforeSent == \A c \in Child : \A d \in before[c] : pc[d] = "sent"

\* The pipe has a message once, of a child that has sent it.
PipeOnce ==
  /\ Distinct(pipe)
  /\ \A c \in Child :
       /\ In(Rec(c), pipe) => pc[c] = "sent"
       /\ In(WrapMsg(c), pipe) => verb[c] = "wrap" /\ pc[c] \in {"open", "dead"}

\* The logger answers a wrap that waits for it, or did until it died.
Answering == logger.pc \in {"open", "reply"}

Meeting ==
  /\ logger.pc = "open" => pc[logger.child] \in {"open", "dead"}
  /\ logger.pc = "reply" => pc[logger.child] \in {"read", "dead"}
  /\ Answering => verb[logger.child] = "wrap" /\ ~In(WrapMsg(logger.child), pipe)
  /\ \A c \in Child :
       /\ pc[c] = "open" => In(WrapMsg(c), pipe) \/ (logger.pc = "open" /\ logger.child = c)
       /\ pc[c] = "read" => logger.pc = "reply" /\ logger.child = c

\* Each freeze of this boot used up the one wrap message of a child.
Asked == {c \in Child : /\ verb[c] = "wrap" /\ pc[c] \notin {"idle", "request"}
                        /\ ~In(WrapMsg(c), pipe)}

NumbersLast == seq <= Cardinality(Asked)

\* The names of frozen logs that a child or the logger holds are of this boot,
\* and different.
Holds(c) == pc[c] \in {"frozen", "rename"}

Held ==
  /\ Answering => logger.name = <<stamp, seq>> /\ logger.name \in DOMAIN frozen
  /\ \A c \in Child : Holds(c) =>
       /\ path[c] \in DOMAIN frozen
       /\ \E k \in 0 .. seq : path[c] = <<stamp, k>> /\ (Answering => k < seq)
       /\ \A d \in Child : Holds(d) /\ c # d => path[c] # path[d]
       /\ pc[c] = "rename" => /\ udig[c] = frozen[path[c]]
                              /\ udig[c] # <<>> => udig[c] \in logBlobs

\* A record is in the pipe, in the log or in one that is closed.
RecordPlace ==
  \A r \in Child : Logged(r) => pc[r] = "sent" /\ ~In(Rec(r), pipe)

\* A frozen log that has a record is nowhere else but among the blobs.
FrozenOnce ==
  \A n \in DOMAIN frozen : frozen[n] # <<>> =>
    /\ frozen[n] \notin wrapped \cup rolled
    /\ \A m \in DOMAIN frozen : frozen[m] = frozen[n] => m = n

\* A client knows of a log when it was wrapped, and takes it when it was rolled.
KnownWrapped ==
  /\ UNION setBlobs \subseteq wrapped \cup rolled
  /\ \A c \in Child :
       /\ set[c] \subseteq wrapped \cup rolled
       /\ pc[c] = "scan" => udig[c] \in wrapped \cup rolled
       /\ pc[c] = "request" /\ verb[c] = "take" => udig[c] \in wrapped \cup rolled \cup {<<>>}
       /\ pc[c] \in {"take", "unlink"} => udig[c] \in rolled \cup {<<>>}

\* WrapsAccumulate, from the step on that makes the set.
Accumulated ==
  \A c, d \in Child :
    /\ (verb[c] = "wrap" /\ pc[c] \in {"set", "ok"}) \/ WrapOk(c)
    /\ WrapOk(d) /\ d \in before[c]
    => set[d] \subseteq set[c] \cup rolled

\* WrapFreezes, from the request on: what was sent before is before it in the
\* pipe until the log is frozen.
Freezing(c) ==
  \/ pc[c] \in {"read", "frozen", "rename", "scan", "set", "ok"} \/ WrapOk(c)
  \/ Answering /\ logger.child = c

SentBehind ==
  \A c \in Child : verb[c] = "wrap" =>
    \A d \in before[c] : Behind(WrapMsg(c), Rec(d), pipe)

Cleared ==
  \A c \in Child : verb[c] = "wrap" /\ Freezing(c) =>
    \A d \in before[c] : ~In(d, log) /\ ~In(Rec(d), pipe)

IInv ==
  /\ Types /\ HandlerOfVerb /\ AnswerLast /\ BeforeSent
  /\ PipeOnce /\ Meeting /\ NumbersLast /\ Held
  /\ RecordPlace /\ LoggedOnce /\ FrozenOnce
  /\ RecordsStored /\ RecordsStayRolled /\ KnownWrapped
  /\ Accumulated /\ SentBehind /\ Cleared

-----------------------------------------------------------------------------
(* Sequences with an element more at the end, or one less at the front.      *)

LEMMA InAppend ==
  \A S : \A s \in Seq(S), x \in S : \A y : In(y, Append(s, x)) <=> In(y, s) \/ y = x
  <1> SUFFICES ASSUME NEW S, NEW s \in Seq(S), NEW x \in S, NEW y
               PROVE  In(y, Append(s, x)) <=> In(y, s) \/ y = x
    OBVIOUS
  <1>1. /\ Len(Append(s, x)) = Len(s) + 1 /\ Len(s) \in Nat
        /\ \A i \in 1 .. Len(s) : Append(s, x)[i] = s[i]
        /\ Append(s, x)[Len(s) + 1] = x
    OBVIOUS
  <1> QED
    BY <1>1 DEF In

LEMMA InTail ==
  \A S : \A s \in Seq(S) : s # <<>> =>
    /\ Head(s) \in S /\ Tail(s) \in Seq(S)
    /\ \A y : In(y, s) <=> y = Head(s) \/ In(y, Tail(s))
  <1> SUFFICES ASSUME NEW S, NEW s \in Seq(S), s # <<>>
               PROVE  /\ Head(s) \in S /\ Tail(s) \in Seq(S)
                      /\ \A y : In(y, s) <=> y = Head(s) \/ In(y, Tail(s))
    OBVIOUS
  <1>1. /\ Len(Tail(s)) = Len(s) - 1 /\ Len(s) \in Nat \ {0}
        /\ \A i \in 1 .. Len(s) - 1 : Tail(s)[i] = s[i + 1]
        /\ Head(s) = s[1]
    OBVIOUS
  <1>2. ASSUME NEW y, In(y, s) PROVE y = Head(s) \/ In(y, Tail(s))
    <2>1. PICK i \in 1 .. Len(s) : s[i] = y
      BY <1>2 DEF In
    <2>2. CASE i = 1
      BY <1>1, <2>1, <2>2
    <2>3. CASE i # 1
      <3>1. i - 1 \in 1 .. Len(Tail(s)) /\ Tail(s)[i - 1] = y
        BY <1>1, <2>1, <2>3
      <3> QED
        BY <3>1 DEF In
    <2> QED
      BY <2>2, <2>3
  <1>3. ASSUME NEW y, y = Head(s) \/ In(y, Tail(s)) PROVE In(y, s)
    BY <1>1, <1>3 DEF In
  <1> QED
    BY <1>2, <1>3

LEMMA DistinctAppend ==
  \A S : \A s \in Seq(S), x \in S : Distinct(s) /\ ~In(x, s) => Distinct(Append(s, x))
  <1> SUFFICES ASSUME NEW S, NEW s \in Seq(S), NEW x \in S, Distinct(s), ~In(x, s)
               PROVE  Distinct(Append(s, x))
    OBVIOUS
  <1>1. /\ Len(Append(s, x)) = Len(s) + 1 /\ Len(s) \in Nat
        /\ \A i \in 1 .. Len(s) : Append(s, x)[i] = s[i]
        /\ Append(s, x)[Len(s) + 1] = x
    OBVIOUS
  <1> QED
    BY <1>1 DEF In, Distinct

LEMMA DistinctTail ==
  \A S : \A s \in Seq(S) : s # <<>> /\ Distinct(s) =>
    Distinct(Tail(s)) /\ ~In(Head(s), Tail(s))
  <1> SUFFICES ASSUME NEW S, NEW s \in Seq(S), s # <<>>, Distinct(s)
               PROVE  Distinct(Tail(s)) /\ ~In(Head(s), Tail(s))
    OBVIOUS
  <1>1. /\ Len(Tail(s)) = Len(s) - 1 /\ Len(s) \in Nat \ {0}
        /\ \A i \in 1 .. Len(s) - 1 : Tail(s)[i] = s[i + 1]
        /\ Head(s) = s[1]
    OBVIOUS
  <1> QED
    BY <1>1 DEF In, Distinct

LEMMA BehindAppend ==
  \A S : \A s \in Seq(S), z \in S : \A x, y :
    Behind(x, y, s) /\ z # y => Behind(x, y, Append(s, z))
  <1> SUFFICES ASSUME NEW S, NEW s \in Seq(S), NEW z \in S, NEW x, NEW y,
                      Behind(x, y, s), z # y
               PROVE  Behind(x, y, Append(s, z))
    OBVIOUS
  <1>1. /\ Len(Append(s, z)) = Len(s) + 1 /\ Len(s) \in Nat
        /\ \A i \in 1 .. Len(s) : Append(s, z)[i] = s[i]
        /\ Append(s, z)[Len(s) + 1] = z
    OBVIOUS
  <1> QED
    BY <1>1 DEF Behind

LEMMA BehindTail ==
  \A S : \A s \in Seq(S) : s # <<>> => \A x, y :
    Behind(x, y, s) => Behind(x, y, Tail(s)) /\ (x = Head(s) => ~In(y, s))
  <1> SUFFICES ASSUME NEW S, NEW s \in Seq(S), s # <<>>, NEW x, NEW y, Behind(x, y, s)
               PROVE  Behind(x, y, Tail(s)) /\ (x = Head(s) => ~In(y, s))
    OBVIOUS
  <1>1. /\ Len(Tail(s)) = Len(s) - 1 /\ Len(s) \in Nat \ {0}
        /\ \A i \in 1 .. Len(s) - 1 : Tail(s)[i] = s[i + 1]
        /\ Head(s) = s[1]
    OBVIOUS
  <1>2. Behind(x, y, Tail(s))
    <2> SUFFICES ASSUME NEW i \in 1 .. Len(s) - 1, NEW j \in 1 .. Len(s) - 1,
                        s[i + 1] = x, s[j + 1] = y
                 PROVE  j < i
      BY <1>1 DEF Behind
    <2>1. i + 1 \in 1 .. Len(s) /\ j + 1 \in 1 .. Len(s)
      BY <1>1
    <2>2. j + 1 < i + 1
      BY <2>1 DEF Behind
    <2> QED
      BY <2>2
  <1>3. x = Head(s) => ~In(y, s)
    BY <1>1 DEF Behind, In
  <1> QED
    BY <1>2, <1>3

\* Nothing is in an empty sequence.
LEMMA Empty ==
  \A x, y : ~In(x, <<>>) /\ Distinct(<<>>) /\ Behind(x, y, <<>>)
  BY DEF In, Distinct, Behind

LEMMA Absent ==
  \A x, y, s : ~In(x, s) => Behind(x, y, s)
  BY DEF In, Behind

-----------------------------------------------------------------------------
(* The pipe.                                                                 *)

\* The two kinds of messages.
LEMMA Messages ==
  /\ \A c \in Child : WrapMsg(c) \in Msg /\ Rec(c) \in Msg
  /\ \A c, d : WrapMsg(c) # Rec(d)
  /\ \A c, d : WrapMsg(c) = WrapMsg(d) \/ Rec(c) = Rec(d) => c = d
  /\ \A m \in Msg : /\ m.child \in Child
                    /\ m.op = "wrap" => m = WrapMsg(m.child)
                    /\ m.op = "brr" => m = Rec(m.child)
  BY DEF WrapMsg, Rec, Msg

\* What a send and what a read do to the pipe.
Sent(m) ==
  /\ \A x : In(x, pipe') <=> In(x, pipe) \/ x = m
  /\ Distinct(pipe) /\ ~In(m, pipe) => Distinct(pipe')
  /\ \A x, y : Behind(x, y, pipe) /\ y # m => Behind(x, y, pipe')

Taken(m) ==
  /\ \A x : In(x, pipe) <=> In(x, pipe') \/ x = m
  /\ Distinct(pipe) => Distinct(pipe') /\ ~In(m, pipe')
  /\ \A x, y : Behind(x, y, pipe) => Behind(x, y, pipe') /\ (x = m => ~In(y, pipe))

LEMMA PipeSent ==
  ASSUME Types, NEW m \in Msg, pipe' = Append(pipe, m)
  PROVE  pipe' \in Seq(Msg) /\ Sent(m)
  <1>1. pipe \in Seq(Msg)
    BY DEF Types, SpoolTypes
  <1>2. \A x : In(x, pipe') <=> In(x, pipe) \/ x = m
    BY <1>1, InAppend, Zenon
  <1>3. Distinct(pipe) /\ ~In(m, pipe) => Distinct(pipe')
    BY <1>1, DistinctAppend, Zenon
  <1>4. \A x, y : Behind(x, y, pipe) /\ y # m => Behind(x, y, pipe')
    BY <1>1, BehindAppend, Zenon
  <1> QED
    BY <1>1, <1>2, <1>3, <1>4 DEF Sent

LEMMA PipeTaken ==
  ASSUME Types, pipe # <<>>, pipe' = Tail(pipe)
  PROVE  pipe' \in Seq(Msg) /\ Head(pipe) \in Msg /\ Taken(Head(pipe))
  <1>1. pipe \in Seq(Msg)
    BY DEF Types, SpoolTypes
  <1>2. /\ pipe' \in Seq(Msg) /\ Head(pipe) \in Msg
        /\ \A x : In(x, pipe) <=> x = Head(pipe) \/ In(x, pipe')
    BY <1>1, InTail, Zenon
  <1>3. Distinct(pipe) => Distinct(pipe') /\ ~In(Head(pipe), pipe')
    BY <1>1, DistinctTail, Zenon
  <1>4. \A x, y : Behind(x, y, pipe) =>
          Behind(x, y, pipe') /\ (x = Head(pipe) => ~In(y, pipe))
    BY <1>1, BehindTail, Zenon
  <1> QED
    BY <1>2, <1>3, <1>4 DEF Taken

\* The steps that send and read, with the message by name.
LEMMA WrapRequestSent ==
  ASSUME Types, NEW c \in Child, wrap_request(c)
  PROVE  /\ pc[c] = "request" /\ verb[c] = "wrap" /\ pc' = [pc EXCEPT ![c] = "open"]
         /\ pipe' \in Seq(Msg) /\ Sent(WrapMsg(c))
         /\ UNCHANGED <<request, ans, path, frozen, stamp, seq, log, logger, wrapped,
                        store, history>>
  <1>1. pipe' = Append(pipe, WrapMsg(c))
    BY DEF wrap_request, WrapMsg
  <1> QED
    BY <1>1, Messages, PipeSent DEF wrap_request, Goto

LEMMA RecordSent ==
  ASSUME Types, NEW c \in Child, brr_send(c)
  PROVE  /\ pc[c] = "brr" /\ pc' = [pc EXCEPT ![c] = "sent"]
         /\ pipe' \in Seq(Msg) /\ Sent(Rec(c))
         /\ UNCHANGED <<request, ans, path, frozen, stamp, seq, log, logger, wrapped,
                        store, history>>
  <1>1. pipe' = Append(pipe, Rec(c))
    BY DEF brr_send
  <1> QED
    BY <1>1, Messages, PipeSent DEF brr_send, Goto

LEMMA RecordRead ==
  ASSUME Types, brr_logger
  PROVE  \E c \in Child :
           /\ pipe' \in Seq(Msg) /\ Taken(Rec(c))
           /\ log' \in Log /\ (\A r : In(r, log') <=> In(r, log) \/ r = c)
           /\ Distinct(log) /\ ~In(c, log) => Distinct(log')
           /\ UNCHANGED <<request, pc, ans, path, frozen, stamp, seq, logger,
                          wrapped, store, history>>
  <1>1. PICK m : m = Head(pipe)
    OBVIOUS
  <1>2. pipe' \in Seq(Msg) /\ m \in Msg /\ Taken(m) /\ m.op = "brr"
    BY <1>1, PipeTaken DEF brr_logger, NextMsg
  <1>3. m.child \in Child /\ m = Rec(m.child)
    BY <1>2, Messages
  <1>4. log \in Seq(Child) /\ log' = Append(log, m.child)
    BY <1>1 DEF brr_logger, Types, SpoolTypes, Log
  <1>5. /\ log' \in Log /\ (\A r : In(r, log') <=> In(r, log) \/ r = m.child)
        /\ Distinct(log) /\ ~In(m.child, log) => Distinct(log')
    <2>1. log' \in Log
      BY <1>3, <1>4 DEF Log
    <2>2. \A r : In(r, log') <=> In(r, log) \/ r = m.child
      BY <1>3, <1>4, InAppend, Zenon
    <2>3. Distinct(log) /\ ~In(m.child, log) => Distinct(log')
      BY <1>3, <1>4, DistinctAppend, Zenon
    <2> QED
      BY <2>1, <2>2, <2>3
  <1> QED
    BY <1>2, <1>3, <1>5 DEF brr_logger

LEMMA WrapRead ==
  ASSUME Types, answer_wrap
  PROVE  \E c \in Child :
           /\ logger.pc = "idle" /\ pipe' \in Seq(Msg) /\ Taken(WrapMsg(c))
           /\ seq' = (seq + 1) % SeqSpan
           /\ frozen' = [m \in DOMAIN frozen \cup {<<stamp, seq'>>} |->
                           IF m = <<stamp, seq'>> THEN log ELSE frozen[m]]
           /\ log' = <<>>
           /\ logger' = [pc |-> "open", child |-> c, name |-> <<stamp, seq'>>]
           /\ UNCHANGED <<request, pc, ans, path, stamp, wrapped, store, history>>
  <1>1. PICK m : m = Head(pipe)
    OBVIOUS
  <1>2. pipe' \in Seq(Msg) /\ m \in Msg /\ Taken(m) /\ m.op = "wrap"
    BY <1>1, PipeTaken DEF answer_wrap, NextMsg
  <1>3. m.child \in Child /\ m = WrapMsg(m.child)
    BY <1>2, Messages
  <1>4. /\ logger.pc = "idle" /\ seq' = (seq + 1) % SeqSpan
        /\ frozen' = [k \in DOMAIN frozen \cup {<<stamp, seq'>>} |->
                        IF k = <<stamp, seq'>> THEN log ELSE frozen[k]]
        /\ log' = <<>>
        /\ logger' = [pc |-> "open", child |-> m.child, name |-> <<stamp, seq'>>]
        /\ UNCHANGED <<request, pc, ans, path, stamp, wrapped, store, history>>
    BY <1>1 DEF answer_wrap, NextMsg, LoggerAt, Freeze
  <1> QED
    BY <1>2, <1>3, <1>4

-----------------------------------------------------------------------------
(* The invariant, part by part and action by action.                         *)

\* A child goes from handler to handler of its verb.
LEMMA HandlerStep ==
  ASSUME IInv, [Next]_vars
  PROVE  HandlerOfVerb'
  <1> USE DEF IInv, Types, ChildTypes, SpoolTypes, BlobTypes, HandlerOfVerb
  <1>1. ASSUME NEW c \in Child, NEW v \in Verbs, fork_accept(c, v) PROVE HandlerOfVerb'
    BY <1>1
       DEF fork_accept, spool, store, request, history, Goto, Known
  <1>2. ASSUME NEW c \in Child,
               put(c) \/ take(c) \/ take_request(c) \/ take_reply(c) \/ take_refused(c)
        PROVE  HandlerOfVerb'
    BY <1>2
       DEF put, take, take_request, take_reply, take_refused, spool, store, request,
           history, Goto, Answer
  <1>3. ASSUME NEW c \in Child, wrap_request(c) PROVE HandlerOfVerb'
    BY <1>3, WrapRequestSent, Messages DEF Sent, request, store, history
  <1>4. ASSUME NEW c \in Child,
               wrap_digest(c) \/ wrap_rename(c) \/ wrap_scan(c) \/ wrap_set(c) \/ wrap_ok(c)
        PROVE  HandlerOfVerb'
    BY <1>4
       DEF wrap_digest, wrap_rename, wrap_scan, wrap_set, wrap_ok, spool, store, request,
           history, Goto, Answer, Thaw
  <1>5. ASSUME NEW c \in Child,
               roll_copy(c) \/ roll_scan(c) \/ roll_unlink(c) \/ roll_ok(c)
        PROVE  HandlerOfVerb'
    BY <1>5
       DEF roll_copy, roll_scan, roll_unlink, roll_ok, spool, store, request, history,
           Goto, Answer, Stored
  <1>6. ASSUME NEW c \in Child, brr_send(c) PROVE HandlerOfVerb'
    BY <1>6, RecordSent, Messages DEF Sent, request, store, history
  <1>7. ASSUME NEW c \in Child,
               child_panic(c) \/ kill_child(c)
        PROVE  HandlerOfVerb'
    BY <1>7
       DEF child_panic, kill_child, spool, store, request, history, Alive
  <1>8. ASSUME brr_logger PROVE HandlerOfVerb'
    BY <1>8, RecordRead, Messages DEF Taken, request, store, history
  <1>9. ASSUME answer_wrap PROVE HandlerOfVerb'
    BY <1>9, WrapRead, Messages DEF Taken, request, store, history
  <1>10. ASSUME answer_wrap_open \/ answer_wrap_reply PROVE HandlerOfVerb'
    BY <1>10
       DEF answer_wrap_open, answer_wrap_reply, store, request, history, Goto, LoggerAt
  <1>11. ASSUME reboot PROVE HandlerOfVerb'
    BY <1>11
       DEF reboot, store, request, history, Alive
  <1>12. ASSUME UNCHANGED vars PROVE HandlerOfVerb'
    BY <1>12
       DEF vars, spool, store, request, history
  <1> HIDE DEF IInv, Types, ChildTypes, SpoolTypes, BlobTypes, HandlerOfVerb
  <1> QED
    BY <1>1, <1>2, <1>3, <1>4, <1>5, <1>6, <1>7, <1>8, <1>9, <1>10, <1>11, <1>12
       DEF Next, ChildStep, LoggerStep

\* No handler goes on after its answer.
LEMMA AnswerStep ==
  ASSUME IInv, [Next]_vars
  PROVE  AnswerLast'
  <1> USE DEF IInv, Types, ChildTypes, SpoolTypes, BlobTypes, AnswerLast
  <1>1. ASSUME NEW c \in Child, NEW v \in Verbs, fork_accept(c, v) PROVE AnswerLast'
    BY <1>1
       DEF fork_accept, spool, store, request, history, Goto, Known
  <1>2. ASSUME NEW c \in Child,
               put(c) \/ take(c) \/ take_request(c) \/ take_reply(c) \/ take_refused(c)
        PROVE  AnswerLast'
    BY <1>2
       DEF put, take, take_request, take_reply, take_refused, spool, store, request,
           history, Goto, Answer
  <1>3. ASSUME NEW c \in Child, wrap_request(c) PROVE AnswerLast'
    BY <1>3, WrapRequestSent, Messages DEF Sent, request, store, history
  <1>4. ASSUME NEW c \in Child,
               wrap_digest(c) \/ wrap_rename(c) \/ wrap_scan(c) \/ wrap_set(c) \/ wrap_ok(c)
        PROVE  AnswerLast'
    BY <1>4
       DEF wrap_digest, wrap_rename, wrap_scan, wrap_set, wrap_ok, spool, store, request,
           history, Goto, Answer, Thaw
  <1>5. ASSUME NEW c \in Child,
               roll_copy(c) \/ roll_scan(c) \/ roll_unlink(c) \/ roll_ok(c)
        PROVE  AnswerLast'
    BY <1>5
       DEF roll_copy, roll_scan, roll_unlink, roll_ok, spool, store, request, history,
           Goto, Answer, Stored
  <1>6. ASSUME NEW c \in Child, brr_send(c) PROVE AnswerLast'
    BY <1>6, RecordSent, Messages DEF Sent, request, store, history
  <1>7. ASSUME NEW c \in Child,
               child_panic(c) \/ kill_child(c)
        PROVE  AnswerLast'
    BY <1>7
       DEF child_panic, kill_child, spool, store, request, history, Alive
  <1>8. ASSUME brr_logger PROVE AnswerLast'
    BY <1>8, RecordRead, Messages DEF Taken, request, store, history
  <1>9. ASSUME answer_wrap PROVE AnswerLast'
    BY <1>9, WrapRead, Messages DEF Taken, request, store, history
  <1>10. ASSUME answer_wrap_open \/ answer_wrap_reply PROVE AnswerLast'
    BY <1>10
       DEF answer_wrap_open, answer_wrap_reply, store, request, history, Goto, LoggerAt
  <1>11. ASSUME reboot PROVE AnswerLast'
    BY <1>11
       DEF reboot, store, request, history, Alive
  <1>12. ASSUME UNCHANGED vars PROVE AnswerLast'
    BY <1>12
       DEF vars, spool, store, request, history
  <1> HIDE DEF IInv, Types, ChildTypes, SpoolTypes, BlobTypes, AnswerLast
  <1> QED
    BY <1>1, <1>2, <1>3, <1>4, <1>5, <1>6, <1>7, <1>8, <1>9, <1>10, <1>11, <1>12
       DEF Next, ChildStep, LoggerStep

\* A child that has sent its record stays as it is.
LEMMA BeforeStep ==
  ASSUME IInv, [Next]_vars
  PROVE  BeforeSent'
  <1> USE DEF IInv, Types, ChildTypes, SpoolTypes, BlobTypes, BeforeSent
  <1>1. ASSUME NEW c \in Child, NEW v \in Verbs, fork_accept(c, v) PROVE BeforeSent'
    BY <1>1
       DEF fork_accept, spool, store, request, history, Goto, Known
  <1>2. ASSUME NEW c \in Child,
               put(c) \/ take(c) \/ take_request(c) \/ take_reply(c) \/ take_refused(c)
        PROVE  BeforeSent'
    BY <1>2
       DEF put, take, take_request, take_reply, take_refused, spool, store, request,
           history, Goto, Answer
  <1>3. ASSUME NEW c \in Child, wrap_request(c) PROVE BeforeSent'
    BY <1>3, WrapRequestSent, Messages DEF Sent, request, store, history
  <1>4. ASSUME NEW c \in Child,
               wrap_digest(c) \/ wrap_rename(c) \/ wrap_scan(c) \/ wrap_set(c) \/ wrap_ok(c)
        PROVE  BeforeSent'
    BY <1>4
       DEF wrap_digest, wrap_rename, wrap_scan, wrap_set, wrap_ok, spool, store, request,
           history, Goto, Answer, Thaw
  <1>5. ASSUME NEW c \in Child,
               roll_copy(c) \/ roll_scan(c) \/ roll_unlink(c) \/ roll_ok(c)
        PROVE  BeforeSent'
    BY <1>5
       DEF roll_copy, roll_scan, roll_unlink, roll_ok, spool, store, request, history,
           Goto, Answer, Stored
  <1>6. ASSUME NEW c \in Child, brr_send(c) PROVE BeforeSent'
    BY <1>6, RecordSent, Messages DEF Sent, request, store, history
  <1>7. ASSUME NEW c \in Child,
               child_panic(c) \/ kill_child(c)
        PROVE  BeforeSent'
    BY <1>7
       DEF child_panic, kill_child, spool, store, request, history, Alive
  <1>8. ASSUME brr_logger PROVE BeforeSent'
    BY <1>8, RecordRead, Messages DEF Taken, request, store, history
  <1>9. ASSUME answer_wrap PROVE BeforeSent'
    BY <1>9, WrapRead, Messages DEF Taken, request, store, history
  <1>10. ASSUME answer_wrap_open \/ answer_wrap_reply PROVE BeforeSent'
    BY <1>10
       DEF answer_wrap_open, answer_wrap_reply, store, request, history, Goto, LoggerAt
  <1>11. ASSUME reboot PROVE BeforeSent'
    BY <1>11
       DEF reboot, store, request, history, Alive
  <1>12. ASSUME UNCHANGED vars PROVE BeforeSent'
    BY <1>12
       DEF vars, spool, store, request, history
  <1> HIDE DEF IInv, Types, ChildTypes, SpoolTypes, BlobTypes, BeforeSent
  <1> QED
    BY <1>1, <1>2, <1>3, <1>4, <1>5, <1>6, <1>7, <1>8, <1>9, <1>10, <1>11, <1>12
       DEF Next, ChildStep, LoggerStep

\* A child sends a record and a wrap message once.
LEMMA PipeStep ==
  ASSUME IInv, [Next]_vars
  PROVE  PipeOnce'
  <1> USE DEF IInv, Types, ChildTypes, SpoolTypes, BlobTypes, PipeOnce, Meeting, Answering
  <1>1. ASSUME NEW c \in Child, NEW v \in Verbs, fork_accept(c, v) PROVE PipeOnce'
    BY <1>1
       DEF fork_accept, spool, store, request, history, Goto, Known
  <1>2. ASSUME NEW c \in Child,
               put(c) \/ take(c) \/ take_request(c) \/ take_reply(c) \/ take_refused(c)
        PROVE  PipeOnce'
    BY <1>2
       DEF put, take, take_request, take_reply, take_refused, spool, store, request,
           history, Goto, Answer
  <1>3. ASSUME NEW c \in Child, wrap_request(c) PROVE PipeOnce'
    <2>1. /\ pc[c] = "request" /\ verb[c] = "wrap" /\ pc' = [pc EXCEPT ![c] = "open"]
          /\ Sent(WrapMsg(c)) /\ verb' = verb
      BY <1>3, WrapRequestSent DEF request
    <2>2. Distinct(pipe')
      BY <2>1 DEF Sent
    <2>3. ASSUME NEW d \in Child, In(Rec(d), pipe') PROVE pc'[d] = "sent"
      BY <2>1, <2>3, Messages DEF Sent
    <2>4. ASSUME NEW d \in Child, In(WrapMsg(d), pipe')
          PROVE  verb'[d] = "wrap" /\ pc'[d] \in {"open", "dead"}
      BY <2>1, <2>4, Messages DEF Sent
    <2> HIDE DEF Types
    <2> QED
      BY <2>2, <2>3, <2>4
  <1>4. ASSUME NEW c \in Child,
               wrap_digest(c) \/ wrap_rename(c) \/ wrap_scan(c) \/ wrap_set(c) \/ wrap_ok(c)
        PROVE  PipeOnce'
    BY <1>4
       DEF wrap_digest, wrap_rename, wrap_scan, wrap_set, wrap_ok, spool, store, request,
           history, Goto, Answer, Thaw
  <1>5. ASSUME NEW c \in Child,
               roll_copy(c) \/ roll_scan(c) \/ roll_unlink(c) \/ roll_ok(c)
        PROVE  PipeOnce'
    BY <1>5
       DEF roll_copy, roll_scan, roll_unlink, roll_ok, spool, store, request, history,
           Goto, Answer, Stored
  <1>6. ASSUME NEW c \in Child, brr_send(c) PROVE PipeOnce'
    BY <1>6, RecordSent, Messages DEF Sent, request, store, history
  <1>7. ASSUME NEW c \in Child,
               child_panic(c) \/ kill_child(c)
        PROVE  PipeOnce'
    BY <1>7
       DEF child_panic, kill_child, spool, store, request, history, Alive
  <1>8. ASSUME brr_logger PROVE PipeOnce'
    BY <1>8, RecordRead, Messages DEF Taken, request, store, history
  <1>9. ASSUME answer_wrap PROVE PipeOnce'
    BY <1>9, WrapRead, Messages DEF Taken, request, store, history
  <1>10. ASSUME answer_wrap_open PROVE PipeOnce'
    BY <1>10
       DEF answer_wrap_open, store, request, history, Goto, LoggerAt
  <1>11. ASSUME answer_wrap_reply PROVE PipeOnce'
    BY <1>11
       DEF answer_wrap_reply, store, request, history, Goto, LoggerAt
  <1>12. ASSUME reboot PROVE PipeOnce'
    BY <1>12, Empty
       DEF reboot, store, request, history, Alive
  <1>13. ASSUME UNCHANGED vars PROVE PipeOnce'
    BY <1>13
       DEF vars, spool, store, request, history
  <1> HIDE DEF IInv, Types, ChildTypes, SpoolTypes, BlobTypes, PipeOnce, Meeting, Answering
  <1> QED
    BY <1>1, <1>2, <1>3, <1>4, <1>5, <1>6, <1>7, <1>8, <1>9, <1>10, <1>11, <1>12,
       <1>13 DEF Next, ChildStep, LoggerStep

\* The logger and the child it answers go in step, until one of them dies.
LEMMA MeetingStep ==
  ASSUME IInv, [Next]_vars
  PROVE  Meeting'
  <1> USE DEF IInv, Types, ChildTypes, SpoolTypes, BlobTypes, PipeOnce, Meeting, Answering
  <1>1. ASSUME NEW c \in Child, NEW v \in Verbs, fork_accept(c, v) PROVE Meeting'
    BY <1>1, Empty
       DEF fork_accept, spool, store, request, history, Goto, Known
  <1>2. ASSUME NEW c \in Child,
               put(c) \/ take(c) \/ take_request(c) \/ take_reply(c) \/ take_refused(c)
        PROVE  Meeting'
    BY <1>2, Empty
       DEF put, take, take_request, take_reply, take_refused, spool, store, request,
           history, Goto, Answer
  <1>3. ASSUME NEW c \in Child, wrap_request(c) PROVE Meeting'
    BY <1>3, WrapRequestSent, Messages, Empty DEF Sent, request, store, history
  <1>4. ASSUME NEW c \in Child,
               wrap_digest(c) \/ wrap_rename(c) \/ wrap_scan(c) \/ wrap_set(c) \/ wrap_ok(c)
        PROVE  Meeting'
    BY <1>4, Empty
       DEF wrap_digest, wrap_rename, wrap_scan, wrap_set, wrap_ok, spool, store, request,
           history, Goto, Answer, Thaw
  <1>5. ASSUME NEW c \in Child,
               roll_copy(c) \/ roll_scan(c) \/ roll_unlink(c) \/ roll_ok(c)
        PROVE  Meeting'
    BY <1>5, Empty
       DEF roll_copy, roll_scan, roll_unlink, roll_ok, spool, store, request, history,
           Goto, Answer, Stored
  <1>6. ASSUME NEW c \in Child, brr_send(c) PROVE Meeting'
    BY <1>6, RecordSent, Messages, Empty DEF Sent, request, store, history
  <1>7. ASSUME NEW c \in Child,
               child_panic(c) \/ kill_child(c)
        PROVE  Meeting'
    BY <1>7, Empty
       DEF child_panic, kill_child, spool, store, request, history, Alive
  <1>8. ASSUME brr_logger PROVE Meeting'
    BY <1>8, RecordRead, Messages, Empty DEF Taken, request, store, history
  <1>9. ASSUME answer_wrap PROVE Meeting'
    BY <1>9, WrapRead, Messages, Empty DEF Taken, request, store, history
  <1>10. ASSUME answer_wrap_open \/ answer_wrap_reply PROVE Meeting'
    BY <1>10, Empty
       DEF answer_wrap_open, answer_wrap_reply, store, request, history, Goto, LoggerAt
  <1>11. ASSUME reboot PROVE Meeting'
    BY <1>11, Empty
       DEF reboot, store, request, history, Alive
  <1>12. ASSUME UNCHANGED vars PROVE Meeting'
    BY <1>12, Empty
       DEF vars, spool, store, request, history
  <1> HIDE DEF IInv, Types, ChildTypes, SpoolTypes, BlobTypes, PipeOnce, Meeting, Answering
  <1> QED
    BY <1>1, <1>2, <1>3, <1>4, <1>5, <1>6, <1>7, <1>8, <1>9, <1>10, <1>11, <1>12
       DEF Next, ChildStep, LoggerStep

\* A blob that is unlinked is not of a log in spool/wrap.
LEMMA StoredStep ==
  ASSUME IInv, [Next]_vars
  PROVE  RecordsStored'
  <1> USE DEF IInv, Types, ChildTypes, SpoolTypes, BlobTypes, KnownWrapped, Held,
          FrozenOnce, Holds, RecordsStored, RecordsStayRolled
  <1>1. ASSUME NEW c \in Child, NEW v \in Verbs, fork_accept(c, v) PROVE RecordsStored'
    BY <1>1
       DEF fork_accept, spool, store, request, history, Goto, Known
  <1>2. ASSUME NEW c \in Child,
               put(c) \/ take(c) \/ take_request(c) \/ take_reply(c) \/ take_refused(c)
        PROVE  RecordsStored'
    BY <1>2
       DEF put, take, take_request, take_reply, take_refused, spool, store, request,
           history, Goto, Answer
  <1>3. ASSUME NEW c \in Child, wrap_request(c) PROVE RecordsStored'
    BY <1>3, WrapRequestSent, Messages DEF Sent, request, store, history
  <1>4. ASSUME NEW c \in Child,
               wrap_digest(c) \/ wrap_rename(c) \/ wrap_scan(c) \/ wrap_set(c) \/ wrap_ok(c)
        PROVE  RecordsStored'
    BY <1>4
       DEF wrap_digest, wrap_rename, wrap_scan, wrap_set, wrap_ok, spool, store, request,
           history, Goto, Answer, Thaw
  <1>5. ASSUME NEW c \in Child,
               roll_copy(c) \/ roll_scan(c) \/ roll_unlink(c) \/ roll_ok(c)
        PROVE  RecordsStored'
    BY <1>5
       DEF roll_copy, roll_scan, roll_unlink, roll_ok, spool, store, request, history,
           Goto, Answer, Stored
  <1>6. ASSUME NEW c \in Child, brr_send(c) PROVE RecordsStored'
    BY <1>6, RecordSent, Messages DEF Sent, request, store, history
  <1>7. ASSUME NEW c \in Child,
               child_panic(c) \/ kill_child(c)
        PROVE  RecordsStored'
    BY <1>7
       DEF child_panic, kill_child, spool, store, request, history, Alive
  <1>8. ASSUME brr_logger PROVE RecordsStored'
    BY <1>8, RecordRead, Messages DEF Taken, request, store, history
  <1>9. ASSUME answer_wrap PROVE RecordsStored'
    BY <1>9, WrapRead, Messages DEF Taken, request, store, history
  <1>10. ASSUME answer_wrap_open \/ answer_wrap_reply PROVE RecordsStored'
    BY <1>10
       DEF answer_wrap_open, answer_wrap_reply, store, request, history, Goto, LoggerAt
  <1>11. ASSUME reboot PROVE RecordsStored'
    BY <1>11
       DEF reboot, store, request, history, Alive
  <1>12. ASSUME UNCHANGED vars PROVE RecordsStored'
    BY <1>12
       DEF vars, spool, store, request, history
  <1> HIDE DEF IInv, Types, ChildTypes, SpoolTypes, BlobTypes, KnownWrapped, Held,
           FrozenOnce, Holds, RecordsStored, RecordsStayRolled
  <1> QED
    BY <1>1, <1>2, <1>3, <1>4, <1>5, <1>6, <1>7, <1>8, <1>9, <1>10, <1>11, <1>12
       DEF Next, ChildStep, LoggerStep

\* A log that comes to spool/wrap was frozen, and so never rolled.
LEMMA RolledStep ==
  ASSUME IInv, [Next]_vars
  PROVE  RecordsStayRolled'
  <1> USE DEF IInv, Types, ChildTypes, SpoolTypes, BlobTypes, KnownWrapped, Held,
          FrozenOnce, Holds, RecordsStayRolled
  <1>1. ASSUME NEW c \in Child, NEW v \in Verbs, fork_accept(c, v) PROVE RecordsStayRolled'
    BY <1>1
       DEF fork_accept, spool, store, request, history, Goto, Known
  <1>2. ASSUME NEW c \in Child,
               put(c) \/ take(c) \/ take_request(c) \/ take_reply(c) \/ take_refused(c)
        PROVE  RecordsStayRolled'
    BY <1>2
       DEF put, take, take_request, take_reply, take_refused, spool, store, request,
           history, Goto, Answer
  <1>3. ASSUME NEW c \in Child, wrap_request(c) PROVE RecordsStayRolled'
    BY <1>3, WrapRequestSent, Messages DEF Sent, request, store, history
  <1>4. ASSUME NEW c \in Child,
               wrap_digest(c) \/ wrap_rename(c) \/ wrap_scan(c) \/ wrap_set(c) \/ wrap_ok(c)
        PROVE  RecordsStayRolled'
    BY <1>4
       DEF wrap_digest, wrap_rename, wrap_scan, wrap_set, wrap_ok, spool, store, request,
           history, Goto, Answer, Thaw
  <1>5. ASSUME NEW c \in Child,
               roll_copy(c) \/ roll_scan(c) \/ roll_unlink(c) \/ roll_ok(c)
        PROVE  RecordsStayRolled'
    BY <1>5
       DEF roll_copy, roll_scan, roll_unlink, roll_ok, spool, store, request, history,
           Goto, Answer, Stored
  <1>6. ASSUME NEW c \in Child, brr_send(c) PROVE RecordsStayRolled'
    BY <1>6, RecordSent, Messages DEF Sent, request, store, history
  <1>7. ASSUME NEW c \in Child,
               child_panic(c) \/ kill_child(c)
        PROVE  RecordsStayRolled'
    BY <1>7
       DEF child_panic, kill_child, spool, store, request, history, Alive
  <1>8. ASSUME brr_logger PROVE RecordsStayRolled'
    BY <1>8, RecordRead, Messages DEF Taken, request, store, history
  <1>9. ASSUME answer_wrap PROVE RecordsStayRolled'
    BY <1>9, WrapRead, Messages DEF Taken, request, store, history
  <1>10. ASSUME answer_wrap_open \/ answer_wrap_reply PROVE RecordsStayRolled'
    BY <1>10
       DEF answer_wrap_open, answer_wrap_reply, store, request, history, Goto, LoggerAt
  <1>11. ASSUME reboot PROVE RecordsStayRolled'
    BY <1>11
       DEF reboot, store, request, history, Alive
  <1>12. ASSUME UNCHANGED vars PROVE RecordsStayRolled'
    BY <1>12
       DEF vars, spool, store, request, history
  <1> HIDE DEF IInv, Types, ChildTypes, SpoolTypes, BlobTypes, KnownWrapped, Held,
           FrozenOnce, Holds, RecordsStayRolled
  <1> QED
    BY <1>1, <1>2, <1>3, <1>4, <1>5, <1>6, <1>7, <1>8, <1>9, <1>10, <1>11, <1>12
       DEF Next, ChildStep, LoggerStep

\* The sets that are made, put and stored are of wrapped logs.
LEMMA KnownStep ==
  ASSUME IInv, [Next]_vars
  PROVE  KnownWrapped'
  <1> USE DEF IInv, Types, ChildTypes, SpoolTypes, BlobTypes, HandlerOfVerb, KnownWrapped
  <1>1. ASSUME NEW c \in Child, NEW v \in Verbs, fork_accept(c, v) PROVE KnownWrapped'
    BY <1>1
       DEF fork_accept, spool, store, request, history, Goto, Known
  <1>2. ASSUME NEW c \in Child,
               put(c) \/ take(c) \/ take_request(c) \/ take_reply(c) \/ take_refused(c)
        PROVE  KnownWrapped'
    BY <1>2
       DEF put, take, take_request, take_reply, take_refused, spool, store, request,
           history, Goto, Answer
  <1>3. ASSUME NEW c \in Child, wrap_request(c) PROVE KnownWrapped'
    BY <1>3, WrapRequestSent, Messages DEF Sent, request, store, history
  <1>4. ASSUME NEW c \in Child,
               wrap_digest(c) \/ wrap_rename(c) \/ wrap_scan(c) \/ wrap_set(c) \/ wrap_ok(c)
        PROVE  KnownWrapped'
    BY <1>4
       DEF wrap_digest, wrap_rename, wrap_scan, wrap_set, wrap_ok, spool, store, request,
           history, Goto, Answer, Thaw
  <1>5. ASSUME NEW c \in Child, roll_copy(c) PROVE KnownWrapped'
    BY <1>5
       DEF roll_copy, spool, store, request, history, Goto, Answer, Stored
  <1>6. ASSUME NEW c \in Child, roll_scan(c) PROVE KnownWrapped'
    BY <1>6
       DEF roll_scan, spool, store, history, Goto
  <1>7. ASSUME NEW c \in Child, roll_unlink(c) PROVE KnownWrapped'
    BY <1>7
       DEF roll_unlink, spool, store
  <1>8. ASSUME NEW c \in Child, roll_ok(c) PROVE KnownWrapped'
    BY <1>8
       DEF roll_ok, spool, store, request, history, Goto, Answer
  <1>9. ASSUME NEW c \in Child, brr_send(c) PROVE KnownWrapped'
    BY <1>9, RecordSent, Messages DEF Sent, request, store, history
  <1>10. ASSUME NEW c \in Child,
               child_panic(c) \/ kill_child(c)
        PROVE  KnownWrapped'
    BY <1>10
       DEF child_panic, kill_child, spool, store, request, history, Alive
  <1>11. ASSUME brr_logger PROVE KnownWrapped'
    BY <1>11, RecordRead, Messages DEF Taken, request, store, history
  <1>12. ASSUME answer_wrap PROVE KnownWrapped'
    BY <1>12, WrapRead, Messages DEF Taken, request, store, history
  <1>13. ASSUME answer_wrap_open \/ answer_wrap_reply PROVE KnownWrapped'
    BY <1>13
       DEF answer_wrap_open, answer_wrap_reply, store, request, history, Goto, LoggerAt
  <1>14. ASSUME reboot PROVE KnownWrapped'
    BY <1>14
       DEF reboot, store, request, history, Alive
  <1>15. ASSUME UNCHANGED vars PROVE KnownWrapped'
    BY <1>15
       DEF vars, spool, store, request, history
  <1> HIDE DEF IInv, Types, ChildTypes, SpoolTypes, BlobTypes, HandlerOfVerb, KnownWrapped
  <1> QED
    BY <1>1, <1>2, <1>3, <1>4, <1>5, <1>6, <1>7, <1>8, <1>9, <1>10, <1>11, <1>12, <1>13,
       <1>14, <1>15 DEF Next, ChildStep, LoggerStep

\* What a wrap found is in what the next one finds, less what was rolled.
LEMMA AccumulatedStep ==
  ASSUME IInv, [Next]_vars
  PROVE  Accumulated'
  <1> USE DEF IInv, Types, ChildTypes, SpoolTypes, BlobTypes, BeforeSent, AnswerLast,
          HandlerOfVerb, KnownWrapped, Accumulated, WrapOk
  <1>1. ASSUME NEW c \in Child, NEW v \in Verbs, fork_accept(c, v) PROVE Accumulated'
    <2>1. /\ pc[c] = "idle" /\ pc' = [pc EXCEPT ![c] = "request"]
          /\ \A d \in Child \ {c} : /\ verb'[d] = verb[d] /\ before'[d] = before[d]
                                     /\ set'[d] = set[d]
          /\ UNCHANGED <<ans, rolled>>
      BY <1>1 DEF fork_accept, Goto, history
    <2>2. ans[c] = "none" /\ \A d \in Child : c \notin before[d]
      BY <2>1
    <2> HIDE DEF HandlerOfVerb, KnownWrapped
    <2> QED
      BY <2>1, <2>2
  <1>2. ASSUME NEW c \in Child, put(c) PROVE Accumulated'
    BY <1>2
       DEF put, spool, request, history, Goto, Answer
  <1>3. ASSUME NEW c \in Child, take(c) PROVE Accumulated'
    BY <1>3
       DEF take, spool, store, request, history, Goto, Answer
  <1>4. ASSUME NEW c \in Child, take_request(c) PROVE Accumulated'
    BY <1>4
       DEF take_request, spool, store, request, history, Goto, Answer
  <1>5. ASSUME NEW c \in Child, take_reply(c) PROVE Accumulated'
    BY <1>5
       DEF take_reply, spool, request, Goto, Answer
  <1>6. ASSUME NEW c \in Child, take_refused(c) PROVE Accumulated'
    BY <1>6
       DEF take_refused, spool, store, request, history, Goto, Answer
  <1>7. ASSUME NEW c \in Child, wrap_request(c) PROVE Accumulated'
    BY <1>7, WrapRequestSent, Messages DEF Sent, request, store, history
  <1>8. ASSUME NEW c \in Child, wrap_digest(c) PROVE Accumulated'
    BY <1>8
       DEF wrap_digest, spool, history, Goto
  <1>9. ASSUME NEW c \in Child, wrap_rename(c) PROVE Accumulated'
    BY <1>9
       DEF wrap_rename, store, request, history, Goto, Thaw
  <1>10. ASSUME NEW c \in Child, wrap_scan(c) PROVE Accumulated'
    BY <1>10
       DEF wrap_scan, spool, store, history, Goto
  <1>11. ASSUME NEW c \in Child, wrap_set(c) PROVE Accumulated'
    BY <1>11
       DEF wrap_set, spool, request, history, Goto
  <1>12. ASSUME NEW c \in Child, wrap_ok(c) PROVE Accumulated'
    BY <1>12
       DEF wrap_ok, spool, store, request, history, Goto, Answer
  <1>13. ASSUME NEW c \in Child, roll_copy(c) PROVE Accumulated'
    BY <1>13
       DEF roll_copy, spool, store, request, history, Goto, Answer, Stored
  <1>14. ASSUME NEW c \in Child, roll_scan(c) PROVE Accumulated'
    BY <1>14
       DEF roll_scan, spool, store, history, Goto
  <1>15. ASSUME NEW c \in Child, roll_unlink(c) PROVE Accumulated'
    BY <1>15
       DEF roll_unlink, spool, store
  <1>16. ASSUME NEW c \in Child, roll_ok(c) PROVE Accumulated'
    BY <1>16
       DEF roll_ok, spool, store, request, history, Goto, Answer
  <1>17. ASSUME NEW c \in Child, brr_send(c) PROVE Accumulated'
    BY <1>17, RecordSent, Messages DEF Sent, request, store, history
  <1>18. ASSUME NEW c \in Child,
               child_panic(c) \/ kill_child(c)
        PROVE  Accumulated'
    BY <1>18
       DEF child_panic, kill_child, spool, store, request, history, Alive
  <1>19. ASSUME brr_logger PROVE Accumulated'
    BY <1>19, RecordRead, Messages DEF Taken, request, store, history
  <1>20. ASSUME answer_wrap PROVE Accumulated'
    BY <1>20, WrapRead, Messages DEF Taken, request, store, history
  <1>21. ASSUME answer_wrap_open \/ answer_wrap_reply PROVE Accumulated'
    BY <1>21
       DEF answer_wrap_open, answer_wrap_reply, store, request, history, Goto, LoggerAt
  <1>22. ASSUME reboot PROVE Accumulated'
    BY <1>22
       DEF reboot, store, request, history, Alive
  <1>23. ASSUME UNCHANGED vars PROVE Accumulated'
    BY <1>23
       DEF vars, spool, store, request, history
  <1> HIDE DEF IInv, Types, ChildTypes, SpoolTypes, BlobTypes, BeforeSent, AnswerLast,
           HandlerOfVerb, KnownWrapped, Accumulated, WrapOk
  <1> QED
    BY <1>1, <1>2, <1>3, <1>4, <1>5, <1>6, <1>7, <1>8, <1>9, <1>10, <1>11, <1>12, <1>13,
       <1>14, <1>15, <1>16, <1>17, <1>18, <1>19, <1>20, <1>21, <1>22, <1>23
       DEF Next, ChildStep, LoggerStep

\* Every record in the pipe was sent before the wrap that is asked now.
LEMMA SentStep ==
  ASSUME IInv, [Next]_vars
  PROVE  SentBehind'
  <1> USE DEF IInv, Types, ChildTypes, SpoolTypes, BlobTypes, BeforeSent, PipeOnce,
          SentBehind
  <1>1. ASSUME NEW c \in Child, NEW v \in Verbs, fork_accept(c, v) PROVE SentBehind'
    <2>1. /\ pc[c] = "idle" /\ pipe' = pipe
          /\ \A d \in Child \ {c} : verb'[d] = verb[d] /\ before'[d] = before[d]
      BY <1>1 DEF fork_accept, spool, Goto
    <2>2. ~In(WrapMsg(c), pipe)
      BY <2>1
    <2> QED
      BY <2>1, <2>2, Absent
  <1>2. ASSUME NEW c \in Child,
               put(c) \/ take(c) \/ take_request(c) \/ take_reply(c) \/ take_refused(c)
        PROVE  SentBehind'
    BY <1>2, Messages, Empty
       DEF put, take, take_request, take_reply, take_refused, spool, store, request,
           history, Goto, Answer
  <1>3. ASSUME NEW c \in Child, wrap_request(c) PROVE SentBehind'
    BY <1>3, WrapRequestSent, Messages, Messages, Empty DEF Sent, request, store, history
  <1>4. ASSUME NEW c \in Child,
               wrap_digest(c) \/ wrap_rename(c) \/ wrap_scan(c) \/ wrap_set(c) \/ wrap_ok(c)
        PROVE  SentBehind'
    BY <1>4, Messages, Empty
       DEF wrap_digest, wrap_rename, wrap_scan, wrap_set, wrap_ok, spool, store, request,
           history, Goto, Answer, Thaw
  <1>5. ASSUME NEW c \in Child,
               roll_copy(c) \/ roll_scan(c) \/ roll_unlink(c) \/ roll_ok(c)
        PROVE  SentBehind'
    BY <1>5, Messages, Empty
       DEF roll_copy, roll_scan, roll_unlink, roll_ok, spool, store, request, history,
           Goto, Answer, Stored
  <1>6. ASSUME NEW c \in Child, brr_send(c) PROVE SentBehind'
    BY <1>6, RecordSent, Messages, Messages, Empty DEF Sent, request, store, history
  <1>7. ASSUME NEW c \in Child,
               child_panic(c) \/ kill_child(c)
        PROVE  SentBehind'
    BY <1>7, Messages, Empty
       DEF child_panic, kill_child, spool, store, request, history, Alive
  <1>8. ASSUME brr_logger PROVE SentBehind'
    BY <1>8, RecordRead, Messages, Messages, Empty DEF Taken, request, store, history
  <1>9. ASSUME answer_wrap PROVE SentBehind'
    BY <1>9, WrapRead, Messages, Messages, Empty DEF Taken, request, store, history
  <1>10. ASSUME answer_wrap_open \/ answer_wrap_reply PROVE SentBehind'
    BY <1>10, Messages, Empty
       DEF answer_wrap_open, answer_wrap_reply, store, request, history, Goto, LoggerAt
  <1>11. ASSUME reboot PROVE SentBehind'
    BY <1>11, Messages, Empty
       DEF reboot, store, request, history, Alive
  <1>12. ASSUME UNCHANGED vars PROVE SentBehind'
    BY <1>12, Messages, Empty
       DEF vars, spool, store, request, history
  <1> HIDE DEF IInv, Types, ChildTypes, SpoolTypes, BlobTypes, BeforeSent, PipeOnce,
           SentBehind
  <1> QED
    BY <1>1, <1>2, <1>3, <1>4, <1>5, <1>6, <1>7, <1>8, <1>9, <1>10, <1>11, <1>12
       DEF Next, ChildStep, LoggerStep

\* Only a freeze closes a log that has records; others are stored, moved and
\* unlinked whole.
LogsKept == log' = log /\ Closed' \subseteq Closed \cup {<<>>}

\* Only a freeze closes a log that has records.
LEMMA LogsStep ==
  ASSUME IInv, [Next]_vars
  PROVE  brr_logger \/ answer_wrap \/ LogsKept
  <1> USE DEF IInv, Types, ChildTypes, SpoolTypes, BlobTypes, Held, Holds, Closed, LogsKept
  <1>1. ASSUME NEW c \in Child, NEW v \in Verbs, fork_accept(c, v) PROVE LogsKept
    BY <1>1
       DEF fork_accept, spool, store, request, history, Goto, Known
  <1>2. ASSUME NEW c \in Child, put(c) PROVE LogsKept
    BY <1>2
       DEF put, spool, request, history, Goto, Answer
  <1>3. ASSUME NEW c \in Child, take(c) PROVE LogsKept
    BY <1>3
       DEF take, spool, store, request, history, Goto, Answer
  <1>4. ASSUME NEW c \in Child, take_request(c) PROVE LogsKept
    BY <1>4
       DEF take_request, spool, store, request, history, Goto, Answer
  <1>5. ASSUME NEW c \in Child, take_reply(c) PROVE LogsKept
    BY <1>5
       DEF take_reply, spool, request, Goto, Answer
  <1>6. ASSUME NEW c \in Child, take_refused(c) PROVE LogsKept
    BY <1>6
       DEF take_refused, spool, store, request, history, Goto, Answer
  <1>7. ASSUME NEW c \in Child, wrap_request(c) PROVE LogsKept
    BY <1>7, WrapRequestSent, Messages DEF Sent, request, store, history
  <1>8. ASSUME NEW c \in Child, wrap_digest(c) PROVE LogsKept
    BY <1>8
       DEF wrap_digest, spool, history, Goto
  <1>9. ASSUME NEW c \in Child, wrap_rename(c) PROVE LogsKept
    <2>1. udig[c] = frozen[path[c]] /\ path[c] \in DOMAIN frozen
      BY <1>9 DEF wrap_rename, Goto
    <2>2. /\ DOMAIN frozen' \subseteq DOMAIN frozen
          /\ \A n \in DOMAIN frozen' : frozen'[n] = frozen[n]
          /\ wrapped' = wrapped \cup {udig[c]}
          /\ UNCHANGED <<log, logBlobs, rolled, taken>>
      BY <1>9 DEF wrap_rename, Thaw, store, history
    <2>3. wrapped' \subseteq Closed
      BY <2>1, <2>2
    <2> QED
      BY <2>2, <2>3
  <1>10. ASSUME NEW c \in Child, wrap_scan(c) PROVE LogsKept
    BY <1>10
       DEF wrap_scan, spool, store, history, Goto
  <1>11. ASSUME NEW c \in Child, wrap_set(c) PROVE LogsKept
    BY <1>11
       DEF wrap_set, spool, request, history, Goto
  <1>12. ASSUME NEW c \in Child, wrap_ok(c) PROVE LogsKept
    BY <1>12
       DEF wrap_ok, spool, store, request, history, Goto, Answer
  <1>13. ASSUME NEW c \in Child, roll_copy(c) PROVE LogsKept
    BY <1>13
       DEF roll_copy, spool, store, request, history, Goto, Answer, Stored
  <1>14. ASSUME NEW c \in Child, roll_scan(c) PROVE LogsKept
    BY <1>14
       DEF roll_scan, spool, store, history, Goto
  <1>15. ASSUME NEW c \in Child, roll_unlink(c) PROVE LogsKept
    BY <1>15
       DEF roll_unlink, spool, store
  <1>16. ASSUME NEW c \in Child, roll_ok(c) PROVE LogsKept
    BY <1>16
       DEF roll_ok, spool, store, request, history, Goto, Answer
  <1>17. ASSUME NEW c \in Child, brr_send(c) PROVE LogsKept
    BY <1>17, RecordSent, Messages DEF Sent, request, store, history
  <1>18. ASSUME NEW c \in Child, child_panic(c) PROVE LogsKept
    BY <1>18
       DEF child_panic, spool, store, request, history
  <1>19. ASSUME NEW c \in Child, kill_child(c) PROVE LogsKept
    BY <1>19
       DEF kill_child, spool, store, request, history, Alive
  <1>20. ASSUME answer_wrap_open PROVE LogsKept
    BY <1>20
       DEF answer_wrap_open, store, request, history, Goto, LoggerAt
  <1>21. ASSUME answer_wrap_reply PROVE LogsKept
    BY <1>21
       DEF answer_wrap_reply, store, request, history, Goto, LoggerAt
  <1>22. ASSUME reboot PROVE LogsKept
    BY <1>22
       DEF reboot, store, request, history, Alive
  <1>23. ASSUME UNCHANGED vars PROVE LogsKept
    BY <1>23
       DEF vars, spool, store, request, history
  <1> HIDE DEF IInv, Types, ChildTypes, SpoolTypes, BlobTypes, Held, Holds, Closed, LogsKept
  <1> QED
    BY <1>1, <1>2, <1>3, <1>4, <1>5, <1>6, <1>7, <1>8, <1>9, <1>10, <1>11, <1>12, <1>13,
       <1>14, <1>15, <1>16, <1>17, <1>18, <1>19, <1>20, <1>21, <1>22, <1>23
       DEF Next, ChildStep, LoggerStep

LEMMA WrapCloses ==
  ASSUME IInv, answer_wrap
  PROVE  log' = <<>> /\ Closed' \subseteq Closed \cup {log}
  BY WrapRead DEF IInv, Closed, store, history

\* Logs do not share records, whatever moves them.
LEMMA LoggedOnceStep ==
  ASSUME IInv, [Next]_vars
  PROVE  LoggedOnce'
  <1>1. CASE brr_logger
    <2>1. PICK c \in Child :
            /\ Taken(Rec(c))
            /\ \A r : In(r, log') <=> In(r, log) \/ r = c
            /\ Distinct(log) /\ ~In(c, log) => Distinct(log')
            /\ UNCHANGED <<frozen, wrapped, store, history>>
      BY <1>1, RecordRead DEF IInv
    <2>2. Closed' = Closed
      BY <2>1 DEF Closed, store, history
    <2>3. ~In(c, log) /\ \A l \in Closed : ~In(c, l)
      BY <2>1 DEF IInv, RecordPlace, Logged, Taken
    <2> QED
      BY <2>1, <2>2, <2>3 DEF IInv, LoggedOnce, Distinct
  <1>2. CASE answer_wrap
    <2>1. log' = <<>> /\ Closed' \subseteq Closed \cup {log}
      BY <1>2, WrapCloses
    <2> QED
      BY <2>1, Empty DEF IInv, LoggedOnce, Distinct
  <1>3. CASE LogsKept
    <2>1. log' = log /\ Closed' \subseteq Closed \cup {<<>>}
      BY <1>3 DEF LogsKept
    <2>2. ASSUME NEW l \in Closed', NEW r, In(r, l) PROVE l \in Closed
      BY <2>1, <2>2, Empty
    <2>3. \A r \in Child : ~(In(r, log') /\ \E l \in Closed' : In(r, l))
      BY <2>1, <2>2 DEF IInv, LoggedOnce
    <2>4. \A l, m \in Closed' : l # m => \A r \in Child : ~(In(r, l) /\ In(r, m))
      BY <2>2 DEF IInv, LoggedOnce
    <2>5. \A l \in Closed' \cup {log'} : Distinct(l)
      BY <2>1, Empty DEF IInv, LoggedOnce, Distinct
    <2> QED
      BY <2>3, <2>4, <2>5 DEF LoggedOnce, Distinct
  <1> QED
    BY <1>1, <1>2, <1>3, LogsStep

\* A record that was sent is not sent again.
SentStays ==
  \A r \in Child : pc[r] = "sent" =>
    pc'[r] = "sent" /\ (In(Rec(r), pipe') => In(Rec(r), pipe))

\* A record is sent once.
LEMMA SentStaysStep ==
  ASSUME IInv, [Next]_vars
  PROVE  SentStays
  <1> USE DEF IInv, Types, ChildTypes, SpoolTypes, BlobTypes, SentStays
  <1>1. ASSUME NEW c \in Child, NEW v \in Verbs, fork_accept(c, v) PROVE SentStays
    BY <1>1, Empty
       DEF fork_accept, spool, store, request, history, Goto, Known
  <1>2. ASSUME NEW c \in Child,
               put(c) \/ take(c) \/ take_request(c) \/ take_reply(c) \/ take_refused(c)
        PROVE  SentStays
    BY <1>2, Empty
       DEF put, take, take_request, take_reply, take_refused, spool, store, request,
           history, Goto, Answer
  <1>3. ASSUME NEW c \in Child, wrap_request(c) PROVE SentStays
    BY <1>3, WrapRequestSent, Messages, Empty DEF Sent, request, store, history
  <1>4. ASSUME NEW c \in Child,
               wrap_digest(c) \/ wrap_rename(c) \/ wrap_scan(c) \/ wrap_set(c) \/ wrap_ok(c)
        PROVE  SentStays
    BY <1>4, Empty
       DEF wrap_digest, wrap_rename, wrap_scan, wrap_set, wrap_ok, spool, store, request,
           history, Goto, Answer, Thaw
  <1>5. ASSUME NEW c \in Child,
               roll_copy(c) \/ roll_scan(c) \/ roll_unlink(c) \/ roll_ok(c)
        PROVE  SentStays
    BY <1>5, Empty
       DEF roll_copy, roll_scan, roll_unlink, roll_ok, spool, store, request, history,
           Goto, Answer, Stored
  <1>6. ASSUME NEW c \in Child, brr_send(c) PROVE SentStays
    BY <1>6, RecordSent, Messages, Empty DEF Sent, request, store, history
  <1>7. ASSUME NEW c \in Child,
               child_panic(c) \/ kill_child(c)
        PROVE  SentStays
    BY <1>7, Empty
       DEF child_panic, kill_child, spool, store, request, history, Alive
  <1>8. ASSUME brr_logger PROVE SentStays
    BY <1>8, RecordRead, Messages, Empty DEF Taken, request, store, history
  <1>9. ASSUME answer_wrap PROVE SentStays
    BY <1>9, WrapRead, Messages, Empty DEF Taken, request, store, history
  <1>10. ASSUME answer_wrap_open PROVE SentStays
    BY <1>10, Empty
       DEF answer_wrap_open, store, request, history, Goto, LoggerAt
  <1>11. ASSUME answer_wrap_reply PROVE SentStays
    BY <1>11, Empty
       DEF answer_wrap_reply, store, request, history, Goto, LoggerAt
  <1>12. ASSUME reboot PROVE SentStays
    BY <1>12, Empty
       DEF reboot, store, request, history, Alive
  <1>13. ASSUME UNCHANGED vars PROVE SentStays
    BY <1>13, Empty
       DEF vars, spool, store, request, history
  <1> HIDE DEF IInv, Types, ChildTypes, SpoolTypes, BlobTypes, SentStays
  <1> QED
    BY <1>1, <1>2, <1>3, <1>4, <1>5, <1>6, <1>7, <1>8, <1>9, <1>10, <1>11, <1>12,
       <1>13 DEF Next, ChildStep, LoggerStep

\* A record goes from its child to the pipe, to the log and to one that is closed.
LEMMA RecordPlaceStep ==
  ASSUME IInv, [Next]_vars
  PROVE  RecordPlace'
  <1>1. CASE brr_logger
    <2>1. PICK c \in Child :
            /\ Taken(Rec(c)) /\ pc' = pc
            /\ \A r : In(r, log') <=> In(r, log) \/ r = c
            /\ UNCHANGED <<frozen, wrapped, store, history>>
      BY <1>1, RecordRead DEF IInv
    <2>2. \A r \in Child : Logged(r)' => Logged(r) \/ r = c
      BY <2>1 DEF Logged, Closed, store, history
    <2>3. pc[c] = "sent" /\ ~In(Rec(c), pipe')
      BY <2>1 DEF IInv, PipeOnce, Taken
    <2> QED
      BY <2>1, <2>2, <2>3, SentStaysStep DEF IInv, RecordPlace, SentStays
  <1>2. CASE answer_wrap
    <2>1. \A r \in Child : Logged(r)' => Logged(r)
      BY <1>2, WrapCloses, Empty DEF Logged
    <2> QED
      BY <2>1, SentStaysStep DEF IInv, RecordPlace, SentStays
  <1>3. CASE LogsKept
    <2>1. \A r \in Child : Logged(r)' => Logged(r)
      BY <1>3, Empty DEF Logged, LogsKept
    <2> QED
      BY <2>1, SentStaysStep DEF IInv, RecordPlace, SentStays
  <1> QED
    BY <1>1, <1>2, <1>3, LogsStep

\* A log that is frozen under one name is under no other, and not wrapped before.
LEMMA FrozenStep ==
  ASSUME IInv, [Next]_vars
  PROVE  FrozenOnce'
  <1> USE DEF IInv, Types, ChildTypes, SpoolTypes, BlobTypes, Held, Holds, Closed,
          FrozenOnce
  <1>1. ASSUME NEW c \in Child, NEW v \in Verbs, fork_accept(c, v) PROVE FrozenOnce'
    BY <1>1, Empty
       DEF fork_accept, spool, store, request, history, Goto, Known
  <1>2. ASSUME NEW c \in Child, put(c) PROVE FrozenOnce'
    BY <1>2, Empty
       DEF put, spool, request, history, Goto, Answer
  <1>3. ASSUME NEW c \in Child, take(c) PROVE FrozenOnce'
    BY <1>3, Empty
       DEF take, spool, store, request, history, Goto, Answer
  <1>4. ASSUME NEW c \in Child, take_request(c) PROVE FrozenOnce'
    BY <1>4, Empty
       DEF take_request, spool, store, request, history, Goto, Answer
  <1>5. ASSUME NEW c \in Child, take_reply(c) PROVE FrozenOnce'
    BY <1>5, Empty
       DEF take_reply, spool, request, Goto, Answer
  <1>6. ASSUME NEW c \in Child, take_refused(c) PROVE FrozenOnce'
    BY <1>6, Empty
       DEF take_refused, spool, store, request, history, Goto, Answer
  <1>7. ASSUME NEW c \in Child, wrap_request(c) PROVE FrozenOnce'
    BY <1>7, WrapRequestSent, Messages, Empty DEF Sent, request, store, history
  <1>8. ASSUME NEW c \in Child, wrap_digest(c) PROVE FrozenOnce'
    BY <1>8, Empty
       DEF wrap_digest, spool, history, Goto
  <1>9. ASSUME NEW c \in Child, wrap_rename(c) PROVE FrozenOnce'
    BY <1>9, Empty
       DEF wrap_rename, store, request, history, Goto, Thaw
  <1>10. ASSUME NEW c \in Child, wrap_scan(c) PROVE FrozenOnce'
    BY <1>10, Empty
       DEF wrap_scan, spool, store, history, Goto
  <1>11. ASSUME NEW c \in Child, wrap_set(c) PROVE FrozenOnce'
    BY <1>11, Empty
       DEF wrap_set, spool, request, history, Goto
  <1>12. ASSUME NEW c \in Child, wrap_ok(c) PROVE FrozenOnce'
    BY <1>12, Empty
       DEF wrap_ok, spool, store, request, history, Goto, Answer
  <1>13. ASSUME NEW c \in Child, roll_copy(c) PROVE FrozenOnce'
    BY <1>13, Empty
       DEF roll_copy, spool, store, request, history, Goto, Answer, Stored
  <1>14. ASSUME NEW c \in Child, roll_scan(c) PROVE FrozenOnce'
    BY <1>14, Empty
       DEF roll_scan, spool, store, history, Goto
  <1>15. ASSUME NEW c \in Child, roll_unlink(c) PROVE FrozenOnce'
    BY <1>15, Empty
       DEF roll_unlink, spool, store
  <1>16. ASSUME NEW c \in Child, roll_ok(c) PROVE FrozenOnce'
    BY <1>16, Empty
       DEF roll_ok, spool, store, request, history, Goto, Answer
  <1>17. ASSUME NEW c \in Child, brr_send(c) PROVE FrozenOnce'
    BY <1>17, RecordSent, Messages, Empty DEF Sent, request, store, history
  <1>18. ASSUME NEW c \in Child, child_panic(c) PROVE FrozenOnce'
    BY <1>18, Empty
       DEF child_panic, spool, store, request, history
  <1>19. ASSUME NEW c \in Child, kill_child(c) PROVE FrozenOnce'
    BY <1>19, Empty
       DEF kill_child, spool, store, request, history, Alive
  <1>20. ASSUME brr_logger PROVE FrozenOnce'
    BY <1>20, RecordRead, Messages, Empty DEF Taken, request, store, history
  <1>21. ASSUME answer_wrap PROVE FrozenOnce'
    <2>1. log # <<>> => log \notin Closed
      <3>1. SUFFICES ASSUME log # <<>>, log \in Closed PROVE FALSE
        OBVIOUS
      <3>2. log[1] \in Child /\ In(log[1], log)
        BY <3>1 DEF Log, In
      <3> HIDE DEF Closed
      <3> QED
        BY <3>1, <3>2 DEF LoggedOnce
    <2> DEFINE n == <<stamp, seq'>>
    <2>2. /\ frozen' = [m \in DOMAIN frozen \cup {n} |-> IF m = n THEN log ELSE frozen[m]]
          /\ UNCHANGED <<wrapped, history>>
      BY <1>21, WrapRead
    <2> HIDE DEF n
    <2>3. \A m \in DOMAIN frozen' : IF m = n THEN frozen'[m] = log
                                           ELSE m \in DOMAIN frozen /\ frozen'[m] = frozen[m]
      BY <2>2
    <2>4. log # <<>> => log \notin wrapped \cup rolled /\ \A m \in DOMAIN frozen : frozen[m] # log
      BY <2>1
    <2> HIDE DEF Types, Held, Closed
    <2> QED
      BY <2>2, <2>3, <2>4 DEF history
  <1>22. ASSUME answer_wrap_open PROVE FrozenOnce'
    BY <1>22, Empty
       DEF answer_wrap_open, store, request, history, Goto, LoggerAt
  <1>23. ASSUME answer_wrap_reply PROVE FrozenOnce'
    BY <1>23, Empty
       DEF answer_wrap_reply, store, request, history, Goto, LoggerAt
  <1>24. ASSUME reboot PROVE FrozenOnce'
    BY <1>24, Empty
       DEF reboot, store, request, history, Alive
  <1>25. ASSUME UNCHANGED vars PROVE FrozenOnce'
    BY <1>25, Empty
       DEF vars, spool, store, request, history
  <1> HIDE DEF IInv, Types, ChildTypes, SpoolTypes, BlobTypes, Held, Holds, Closed,
           FrozenOnce
  <1> QED
    BY <1>1, <1>2, <1>3, <1>4, <1>5, <1>6, <1>7, <1>8, <1>9, <1>10, <1>11, <1>12, <1>13,
       <1>14, <1>15, <1>16, <1>17, <1>18, <1>19, <1>20, <1>21, <1>22, <1>23, <1>24,
       <1>25 DEF Next, ChildStep, LoggerStep

-----------------------------------------------------------------------------
(* The numbers of frozen logs.                                               *)

LEMMA Requests ==
  \A T \in SUBSET Child : /\ IsFiniteSet(T) /\ Cardinality(T) \in Nat
                          /\ Cardinality(T) <= Cardinality(Child)
  BY FewRequests, FS_Subset, FS_CardinalityType

LEMMA MoreRequests ==
  ASSUME NEW T \in SUBSET Child, NEW S \in SUBSET T
  PROVE  /\ Cardinality(S) <= Cardinality(T)
         /\ S # T => Cardinality(S) + 1 <= Cardinality(T)
  <1>1. IsFiniteSet(T) /\ Cardinality(T) \in Nat /\ Cardinality(S) \in Nat
    BY Requests
  <1>2. Cardinality(S) <= Cardinality(T) /\ (Cardinality(T) = Cardinality(S) => T = S)
    BY <1>1, FS_Subset
  <1> QED
    BY <1>1, <1>2

\* The wrap that is answered was not counted yet, so that a number is left.
LEMMA NextNumber ==
  ASSUME IInv, answer_wrap
  PROVE  seq' = seq + 1 /\ \E c \in Child : c \notin Asked
  <1>1. PICK c \in Child : Taken(WrapMsg(c)) /\ seq' = (seq + 1) % SeqSpan
    BY WrapRead DEF IInv
  <1>2. c \notin Asked
    BY <1>1 DEF Asked, Taken
  <1>3. Asked \subseteq Child
    BY DEF Asked
  <1>4. Cardinality(Asked) + 1 <= Cardinality(Child)
    BY <1>2, <1>3, MoreRequests
  <1>5. Cardinality(Asked) \in Nat /\ Cardinality(Child) \in Nat
    BY <1>3, Requests
  <1>6. seq \in Nat /\ seq <= Cardinality(Asked) /\ SeqSpan \in Nat \ {0}
    BY WrapRollAssumption DEF IInv, NumbersLast, Types, SpoolTypes
  <1>7. seq + 1 < SeqSpan
    BY <1>4, <1>5, <1>6, FewRequests
  <1> QED
    BY <1>1, <1>2, <1>6, <1>7

\* A child asks for one wrap, and only a freeze counts.
NumbersKept == Asked \subseteq Asked' /\ (answer_wrap \/ seq' \in {0, seq})

\* A child asks for one wrap, and the logger counts it once.
LEMMA NumbersKeptStep ==
  ASSUME IInv, [Next]_vars
  PROVE  NumbersKept
  <1> USE DEF IInv, Types, ChildTypes, SpoolTypes, BlobTypes, PipeOnce, Asked, NumbersKept
  <1>1. ASSUME NEW c \in Child, NEW v \in Verbs, fork_accept(c, v) PROVE NumbersKept
    BY <1>1, Messages
       DEF fork_accept, spool, store, request, history, Goto, Known
  <1>2. ASSUME NEW c \in Child,
               put(c) \/ take(c) \/ take_request(c) \/ take_reply(c) \/ take_refused(c)
        PROVE  NumbersKept
    BY <1>2, Messages
       DEF put, take, take_request, take_reply, take_refused, spool, store, request,
           history, Goto, Answer
  <1>3. ASSUME NEW c \in Child, wrap_request(c) PROVE NumbersKept
    BY <1>3, WrapRequestSent, Messages, Messages DEF Sent, request, store, history
  <1>4. ASSUME NEW c \in Child,
               wrap_digest(c) \/ wrap_rename(c) \/ wrap_scan(c) \/ wrap_set(c) \/ wrap_ok(c)
        PROVE  NumbersKept
    BY <1>4, Messages
       DEF wrap_digest, wrap_rename, wrap_scan, wrap_set, wrap_ok, spool, store, request,
           history, Goto, Answer, Thaw
  <1>5. ASSUME NEW c \in Child,
               roll_copy(c) \/ roll_scan(c) \/ roll_unlink(c) \/ roll_ok(c)
        PROVE  NumbersKept
    BY <1>5, Messages
       DEF roll_copy, roll_scan, roll_unlink, roll_ok, spool, store, request, history,
           Goto, Answer, Stored
  <1>6. ASSUME NEW c \in Child, brr_send(c) PROVE NumbersKept
    BY <1>6, RecordSent, Messages, Messages DEF Sent, request, store, history
  <1>7. ASSUME NEW c \in Child,
               child_panic(c) \/ kill_child(c)
        PROVE  NumbersKept
    BY <1>7, Messages
       DEF child_panic, kill_child, spool, store, request, history, Alive
  <1>8. ASSUME brr_logger PROVE NumbersKept
    BY <1>8, RecordRead, Messages, Messages DEF Taken, request, store, history
  <1>9. ASSUME answer_wrap PROVE NumbersKept
    BY <1>9, WrapRead, Messages, Messages DEF Taken, request, store, history
  <1>10. ASSUME answer_wrap_open \/ answer_wrap_reply PROVE NumbersKept
    BY <1>10, Messages
       DEF answer_wrap_open, answer_wrap_reply, store, request, history, Goto, LoggerAt
  <1>11. ASSUME reboot PROVE NumbersKept
    BY <1>11, Messages, Empty
       DEF reboot, store, request, history, Alive
  <1>12. ASSUME UNCHANGED vars PROVE NumbersKept
    BY <1>12, Messages
       DEF vars, spool, store, request, history
  <1> HIDE DEF IInv, Types, ChildTypes, SpoolTypes, BlobTypes, PipeOnce, Asked, NumbersKept
  <1> QED
    BY <1>1, <1>2, <1>3, <1>4, <1>5, <1>6, <1>7, <1>8, <1>9, <1>10, <1>11, <1>12
       DEF Next, ChildStep, LoggerStep

LEMMA NumbersStep ==
  ASSUME IInv, [Next]_vars
  PROVE  NumbersLast'
  <1>1. Asked \in SUBSET Asked' /\ Asked' \in SUBSET Child
    BY NumbersKeptStep DEF NumbersKept, Asked
  <1>2. Cardinality(Asked) \in Nat /\ Cardinality(Asked') \in Nat
    BY <1>1, Requests
  <1>3. seq \in Nat /\ seq <= Cardinality(Asked)
    BY DEF IInv, NumbersLast, Types, SpoolTypes
  <1>4. CASE answer_wrap
    <2>1. PICK c \in Child :
            Taken(WrapMsg(c)) /\ UNCHANGED <<pc, request>>
      BY <1>4, WrapRead DEF IInv
    <2>2. c \notin Asked /\ c \in Asked'
      BY <2>1 DEF IInv, PipeOnce, Asked, Taken, request
    <2>3. Cardinality(Asked) + 1 <= Cardinality(Asked')
      BY <1>1, <2>2, MoreRequests
    <2> QED
      BY <1>2, <1>3, <1>4, <2>3, NextNumber DEF NumbersLast
  <1>5. CASE seq' \in {0, seq}
    <2>1. Cardinality(Asked) <= Cardinality(Asked')
      BY <1>1, MoreRequests
    <2> QED
      BY <1>2, <1>3, <1>5, <2>1 DEF NumbersLast
  <1> QED
    BY <1>4, <1>5, NumbersKeptStep DEF NumbersKept

\* The logger and the children hold frozen logs under names of their own.
LEMMA HeldStep ==
  ASSUME IInv, [Next]_vars
  PROVE  Held'
  <1> USE DEF IInv, Types, ChildTypes, SpoolTypes, BlobTypes, Holds, Meeting, Answering,
          FrozenOnce, KnownWrapped, Held
  <1>1. ASSUME NEW c \in Child, NEW v \in Verbs, fork_accept(c, v) PROVE Held'
    BY <1>1
       DEF fork_accept, spool, store, request, history, Goto, Known
  <1>2. ASSUME NEW c \in Child, put(c) PROVE Held'
    BY <1>2
       DEF put, spool, request, history, Goto, Answer
  <1>3. ASSUME NEW c \in Child, take(c) PROVE Held'
    BY <1>3
       DEF take, spool, store, request, history, Goto, Answer
  <1>4. ASSUME NEW c \in Child, take_request(c) PROVE Held'
    BY <1>4
       DEF take_request, spool, store, request, history, Goto, Answer
  <1>5. ASSUME NEW c \in Child, take_reply(c) PROVE Held'
    BY <1>5
       DEF take_reply, spool, request, Goto, Answer
  <1>6. ASSUME NEW c \in Child, take_refused(c) PROVE Held'
    BY <1>6
       DEF take_refused, spool, store, request, history, Goto, Answer
  <1>7. ASSUME NEW c \in Child, wrap_request(c) PROVE Held'
    <2>1. /\ pc' = [pc EXCEPT ![c] = "open"]
          /\ UNCHANGED <<logger, stamp, seq, frozen, path, udig, logBlobs>>
      BY <1>7, WrapRequestSent DEF store, request
    <2> QED
      BY <2>1
  <1>8. ASSUME NEW c \in Child,
               wrap_digest(c) \/ wrap_rename(c) \/ wrap_scan(c) \/ wrap_set(c) \/ wrap_ok(c)
        PROVE  Held'
    BY <1>8
       DEF wrap_digest, wrap_rename, wrap_scan, wrap_set, wrap_ok, spool, store, request,
           history, Goto, Answer, Thaw
  <1>9. ASSUME NEW c \in Child, roll_copy(c) PROVE Held'
    BY <1>9
       DEF roll_copy, spool, store, request, history, Goto, Answer, Stored
  <1>10. ASSUME NEW c \in Child, roll_scan(c) PROVE Held'
    BY <1>10
       DEF roll_scan, spool, store, history, Goto
  <1>11. ASSUME NEW c \in Child, roll_unlink(c) PROVE Held'
    BY <1>11
       DEF roll_unlink, spool, store
  <1>12. ASSUME NEW c \in Child, roll_ok(c) PROVE Held'
    BY <1>12
       DEF roll_ok, spool, store, request, history, Goto, Answer
  <1>13. ASSUME NEW c \in Child, brr_send(c) PROVE Held'
    <2>1. /\ pc' = [pc EXCEPT ![c] = "sent"]
          /\ UNCHANGED <<logger, stamp, seq, frozen, path, udig, logBlobs>>
      BY <1>13, RecordSent DEF store, request
    <2> QED
      BY <2>1
  <1>14. ASSUME NEW c \in Child, child_panic(c) PROVE Held'
    BY <1>14
       DEF child_panic, spool, store, request, history
  <1>15. ASSUME NEW c \in Child, kill_child(c) PROVE Held'
    BY <1>15
       DEF kill_child, spool, store, request, history, Alive
  <1>16. ASSUME brr_logger PROVE Held'
    <2>1. /\ pc' = pc
          /\ UNCHANGED <<logger, stamp, seq, frozen, path, udig, logBlobs>>
      BY <1>16, RecordRead DEF store, request
    <2> QED
      BY <2>1
  <1>17. ASSUME answer_wrap PROVE Held'
    <2>1. PICK e \in Child :
            /\ logger.pc = "idle"
            /\ logger' = [pc |-> "open", child |-> e, name |-> <<stamp, seq'>>]
            /\ frozen' = [m \in DOMAIN frozen \cup {<<stamp, seq'>>} |->
                            IF m = <<stamp, seq'>> THEN log ELSE frozen[m]]
            /\ UNCHANGED <<pc, stamp, path, udig, logBlobs>>
      BY <1>17, WrapRead DEF store, request
    <2>2. seq' = seq + 1 /\ seq \in Nat
      BY <1>17, NextNumber
    <2>3. logger'.name = <<stamp', seq'>> /\ logger'.name \in DOMAIN frozen'
      BY <2>1
    <2>4. ASSUME NEW c \in Child, Holds(c)
          PROVE  /\ path[c] \in DOMAIN frozen' /\ frozen'[path[c]] = frozen[path[c]]
                 /\ \E k \in 0 .. seq' : path[c] = <<stamp', k>> /\ k < seq'
      <3>1. PICK k \in 0 .. seq : path[c] = <<stamp, k>> /\ path[c] \in DOMAIN frozen
        BY <2>4
      <3>2. k \in 0 .. seq' /\ k < seq' /\ path[c] # <<stamp, seq'>>
        BY <2>2, <3>1
      <3> QED
        BY <2>1, <3>1, <3>2
    <2>5. ASSUME NEW c \in Child, Holds(c)'
          PROVE  /\ Holds(c) /\ path'[c] = path[c] /\ udig'[c] = udig[c] /\ pc'[c] = pc[c]
                 /\ path[c] \in DOMAIN frozen' /\ frozen'[path[c]] = frozen[path[c]]
                 /\ \E k \in 0 .. seq' : path[c] = <<stamp', k>> /\ k < seq'
      BY <2>1, <2>4, <2>5
    <2>6. logBlobs' = logBlobs
      BY <2>1
    <2> HIDE DEF Types, Meeting, FrozenOnce, KnownWrapped
    <2> QED
      BY <2>3, <2>5, <2>6
  <1>18. ASSUME answer_wrap_open \/ answer_wrap_reply PROVE Held'
    BY <1>18
       DEF answer_wrap_open, answer_wrap_reply, store, request, history, Goto, LoggerAt
  <1>19. ASSUME reboot PROVE Held'
    BY <1>19
       DEF reboot, store, request, history, Alive
  <1>20. ASSUME UNCHANGED vars PROVE Held'
    BY <1>20
       DEF vars, spool, store, request, history
  <1> HIDE DEF IInv, Types, ChildTypes, SpoolTypes, BlobTypes, Holds, Meeting, Answering,
           FrozenOnce, KnownWrapped, Held
  <1> QED
    BY <1>1, <1>2, <1>3, <1>4, <1>5, <1>6, <1>7, <1>8, <1>9, <1>10, <1>11, <1>12, <1>13,
       <1>14, <1>15, <1>16, <1>17, <1>18, <1>19, <1>20 DEF Next, ChildStep, LoggerStep

\* What was sent before a wrap is read before it, and frozen with the log.
LEMMA ClearedStep ==
  ASSUME IInv, [Next]_vars
  PROVE  Cleared'
  <1> USE DEF IInv, Types, ChildTypes, SpoolTypes, BlobTypes, Freezing, WrapOk,
          HandlerOfVerb, AnswerLast, BeforeSent, PipeOnce,
          Meeting, Answering, SentBehind, Cleared
  <1>1. ASSUME NEW c \in Child, NEW v \in Verbs, fork_accept(c, v) PROVE Cleared'
    BY <1>1, Messages, Empty
       DEF fork_accept, spool, store, request, history, Goto, Known
  <1>2. ASSUME NEW c \in Child, put(c) PROVE Cleared'
    BY <1>2, Messages, Empty
       DEF put, spool, request, history, Goto, Answer
  <1>3. ASSUME NEW c \in Child, take(c) PROVE Cleared'
    BY <1>3, Messages, Empty
       DEF take, spool, store, request, history, Goto, Answer
  <1>4. ASSUME NEW c \in Child, take_request(c) PROVE Cleared'
    BY <1>4, Messages, Empty
       DEF take_request, spool, store, request, history, Goto, Answer
  <1>5. ASSUME NEW c \in Child, take_reply(c) PROVE Cleared'
    BY <1>5, Messages, Empty
       DEF take_reply, spool, request, Goto, Answer
  <1>6. ASSUME NEW c \in Child, take_refused(c) PROVE Cleared'
    BY <1>6, Messages, Empty
       DEF take_refused, spool, store, request, history, Goto, Answer
  <1>7. ASSUME NEW c \in Child, wrap_request(c) PROVE Cleared'
    BY <1>7, WrapRequestSent, Messages, Messages, Empty DEF Sent, request, store, history
  <1>8. ASSUME NEW c \in Child,
               wrap_digest(c) \/ wrap_rename(c) \/ wrap_scan(c) \/ wrap_set(c) \/ wrap_ok(c)
        PROVE  Cleared'
    BY <1>8, Messages, Empty
       DEF wrap_digest, wrap_rename, wrap_scan, wrap_set, wrap_ok, spool, store, request,
           history, Goto, Answer, Thaw
  <1>9. ASSUME NEW c \in Child, roll_copy(c) PROVE Cleared'
    BY <1>9, Messages, Empty
       DEF roll_copy, spool, store, request, history, Goto, Answer, Stored
  <1>10. ASSUME NEW c \in Child, roll_scan(c) PROVE Cleared'
    BY <1>10, Messages, Empty
       DEF roll_scan, spool, store, history, Goto
  <1>11. ASSUME NEW c \in Child, roll_unlink(c) PROVE Cleared'
    BY <1>11, Messages, Empty
       DEF roll_unlink, spool, store
  <1>12. ASSUME NEW c \in Child, roll_ok(c) PROVE Cleared'
    BY <1>12, Messages, Empty
       DEF roll_ok, spool, store, request, history, Goto, Answer
  <1>13. ASSUME NEW c \in Child, brr_send(c) PROVE Cleared'
    BY <1>13, RecordSent, Messages, Messages, Empty DEF Sent, request, store, history
  <1>14. ASSUME NEW c \in Child,
               child_panic(c) \/ kill_child(c)
        PROVE  Cleared'
    BY <1>14, Messages, Empty
       DEF child_panic, kill_child, spool, store, request, history, Alive
  <1>15. ASSUME brr_logger PROVE Cleared'
    BY <1>15, RecordRead, Messages, Messages, Empty DEF Taken, request, store, history
  <1>16. ASSUME answer_wrap PROVE Cleared'
    <2>1. PICK e \in Child :
            /\ Taken(WrapMsg(e)) /\ log' = <<>>
            /\ logger' = [pc |-> "open", child |-> e, name |-> <<stamp, seq'>>]
            /\ UNCHANGED <<request, pc, ans>>
      BY <1>16, WrapRead
    <2>2. \A x : In(x, pipe') => In(x, pipe)
      BY <2>1 DEF Taken
    <2>3. verb[e] = "wrap" => \A d \in before[e] : ~In(Rec(d), pipe')
      BY <2>1, <2>2 DEF Taken
    <2>4. \A c \in Child : Freezing(c)' => Freezing(c) \/ c = e
      BY <2>1 DEF request
    <2> HIDE DEF Freezing
    <2> QED
      BY <2>1, <2>2, <2>3, <2>4, Empty DEF request
  <1>17. ASSUME answer_wrap_open \/ answer_wrap_reply PROVE Cleared'
    BY <1>17, Messages, Empty
       DEF answer_wrap_open, answer_wrap_reply, store, request, history, Goto, LoggerAt
  <1>18. ASSUME reboot PROVE Cleared'
    BY <1>18, Messages, Empty
       DEF reboot, store, request, history, Alive
  <1>19. ASSUME UNCHANGED vars PROVE Cleared'
    BY <1>19, Messages, Empty
       DEF vars, spool, store, request, history
  <1> HIDE DEF IInv, Types, ChildTypes, SpoolTypes, BlobTypes, Freezing, WrapOk,
           HandlerOfVerb, AnswerLast, BeforeSent, PipeOnce,
          Meeting, Answering, SentBehind, Cleared
  <1> QED
    BY <1>1, <1>2, <1>3, <1>4, <1>5, <1>6, <1>7, <1>8, <1>9, <1>10, <1>11, <1>12, <1>13,
       <1>14, <1>15, <1>16, <1>17, <1>18, <1>19 DEF Next, ChildStep, LoggerStep

-----------------------------------------------------------------------------
(* The types, and the invariant.                                             *)

LEMMA EmptyLog == <<>> \in Log
  BY DEF Log

\* The values of the variables of children.
LEMMA ChildTypesStep ==
  ASSUME IInv, [Next]_vars
  PROVE  ChildTypes'
  <1> USE DEF IInv, Types, ChildTypes, SpoolTypes, BlobTypes, Points
  <1>1. ASSUME NEW c \in Child, NEW v \in Verbs, fork_accept(c, v) PROVE ChildTypes'
    <2>1. v \in {"put", "take", "wrap", "roll"}
      BY <1>1, WrapRollAssumption
    <2>2. ASSUME NEW S \in setBlobs \cup SUBSET (wrapped \cap Known) PROVE S \subseteq Log
      BY <2>2
    <2>3. Known \subseteq Log
      BY EmptyLog DEF Known
    <2>4. pc' \in [Child -> Points] /\ verb' \in [Child -> {"put", "take", "wrap", "roll"}]
      BY <1>1, <2>1 DEF fork_accept, Goto
    <2>5. udig' \in [Child -> Log] /\ set' \in [Child -> SUBSET Log]
      BY <1>1, <2>2, <2>3 DEF fork_accept
    <2>6. before' \in [Child -> SUBSET Child] /\ UNCHANGED <<todo, ans, path>>
      BY <1>1 DEF fork_accept
    <2> QED
      BY <2>4, <2>5, <2>6
  <1>2. ASSUME NEW c \in Child, put(c) PROVE ChildTypes'
    BY <1>2
       DEF put, spool, request, history, Goto, Answer
  <1>3. ASSUME NEW c \in Child, take(c) PROVE ChildTypes'
    BY <1>3
       DEF take, spool, store, request, history, Goto, Answer
  <1>4. ASSUME NEW c \in Child, take_request(c) PROVE ChildTypes'
    BY <1>4
       DEF take_request, spool, store, request, history, Goto, Answer
  <1>5. ASSUME NEW c \in Child, take_reply(c) PROVE ChildTypes'
    BY <1>5
       DEF take_reply, spool, request, Goto, Answer
  <1>6. ASSUME NEW c \in Child, take_refused(c) PROVE ChildTypes'
    BY <1>6
       DEF take_refused, spool, store, request, history, Goto, Answer
  <1>7. ASSUME NEW c \in Child, wrap_request(c) PROVE ChildTypes'
    BY <1>7, WrapRequestSent, Messages DEF Sent, request, store, history
  <1>8. ASSUME NEW c \in Child, wrap_digest(c) PROVE ChildTypes'
    <2>1. frozen[path[c]] \in Log
      BY <1>8 DEF wrap_digest, Goto, Held, Holds
    <2> QED
      BY <1>8, <2>1 DEF wrap_digest, Goto, spool, history
  <1>9. ASSUME NEW c \in Child, wrap_rename(c) PROVE ChildTypes'
    BY <1>9
       DEF wrap_rename, store, request, history, Goto, Thaw
  <1>10. ASSUME NEW c \in Child, wrap_scan(c) PROVE ChildTypes'
    BY <1>10
       DEF wrap_scan, spool, store, history, Goto
  <1>11. ASSUME NEW c \in Child, wrap_set(c) PROVE ChildTypes'
    BY <1>11
       DEF wrap_set, spool, request, history, Goto
  <1>12. ASSUME NEW c \in Child, wrap_ok(c) PROVE ChildTypes'
    BY <1>12
       DEF wrap_ok, spool, store, request, history, Goto, Answer
  <1>13. ASSUME NEW c \in Child, roll_copy(c) PROVE ChildTypes'
    BY <1>13
       DEF roll_copy, spool, store, request, history, Goto, Answer, Stored
  <1>14. ASSUME NEW c \in Child, roll_scan(c) PROVE ChildTypes'
    BY <1>14
       DEF roll_scan, spool, store, history, Goto
  <1>15. ASSUME NEW c \in Child, roll_unlink(c) PROVE ChildTypes'
    BY <1>15
       DEF roll_unlink, spool, store
  <1>16. ASSUME NEW c \in Child, roll_ok(c) PROVE ChildTypes'
    BY <1>16
       DEF roll_ok, spool, store, request, history, Goto, Answer
  <1>17. ASSUME NEW c \in Child, brr_send(c) PROVE ChildTypes'
    BY <1>17, RecordSent, Messages DEF Sent, request, store, history
  <1>18. ASSUME NEW c \in Child, child_panic(c) PROVE ChildTypes'
    BY <1>18
       DEF child_panic, spool, store, request, history
  <1>19. ASSUME NEW c \in Child, kill_child(c) PROVE ChildTypes'
    BY <1>19
       DEF kill_child, spool, store, request, history, Alive
  <1>20. ASSUME brr_logger PROVE ChildTypes'
    BY <1>20, RecordRead, Messages DEF Taken, request, store, history
  <1>21. ASSUME answer_wrap PROVE ChildTypes'
    BY <1>21, WrapRead, Messages DEF Taken, request, store, history
  <1>22. ASSUME answer_wrap_open PROVE ChildTypes'
    BY <1>22
       DEF answer_wrap_open, store, request, history, Goto, LoggerAt
  <1>23. ASSUME answer_wrap_reply PROVE ChildTypes'
    BY <1>23
       DEF answer_wrap_reply, store, request, history, Goto, LoggerAt
  <1>24. ASSUME reboot PROVE ChildTypes'
    BY <1>24
       DEF reboot, store, request, history, Alive
  <1>25. ASSUME UNCHANGED vars PROVE ChildTypes'
    BY <1>25
       DEF vars, spool, store, request, history
  <1> HIDE DEF IInv, Types, ChildTypes, SpoolTypes, BlobTypes, Points
  <1> QED
    BY <1>1, <1>2, <1>3, <1>4, <1>5, <1>6, <1>7, <1>8, <1>9, <1>10, <1>11, <1>12, <1>13,
       <1>14, <1>15, <1>16, <1>17, <1>18, <1>19, <1>20, <1>21, <1>22, <1>23, <1>24,
       <1>25 DEF Next, ChildStep, LoggerStep

\* The values of the variables of the logger.
LEMMA SpoolTypesStep ==
  ASSUME IInv, [Next]_vars
  PROVE  SpoolTypes'
  <1> USE DEF IInv, Types, ChildTypes, SpoolTypes, BlobTypes, SpoolTypes
  <1>1. ASSUME NEW c \in Child, NEW v \in Verbs, fork_accept(c, v) PROVE SpoolTypes'
    BY <1>1
       DEF fork_accept, spool, store, request, history, Goto, Known
  <1>2. ASSUME NEW c \in Child, put(c) PROVE SpoolTypes'
    BY <1>2
       DEF put, spool, request, history, Goto, Answer
  <1>3. ASSUME NEW c \in Child, take(c) PROVE SpoolTypes'
    BY <1>3
       DEF take, spool, store, request, history, Goto, Answer
  <1>4. ASSUME NEW c \in Child, take_request(c) PROVE SpoolTypes'
    BY <1>4
       DEF take_request, spool, store, request, history, Goto, Answer
  <1>5. ASSUME NEW c \in Child, take_reply(c) PROVE SpoolTypes'
    BY <1>5
       DEF take_reply, spool, request, Goto, Answer
  <1>6. ASSUME NEW c \in Child, take_refused(c) PROVE SpoolTypes'
    BY <1>6
       DEF take_refused, spool, store, request, history, Goto, Answer
  <1>7. ASSUME NEW c \in Child, wrap_request(c) PROVE SpoolTypes'
    BY <1>7, WrapRequestSent, Messages DEF Sent, request, store, history
  <1>8. ASSUME NEW c \in Child, wrap_digest(c) PROVE SpoolTypes'
    BY <1>8
       DEF wrap_digest, spool, history, Goto
  <1>9. ASSUME NEW c \in Child, wrap_rename(c) PROVE SpoolTypes'
    BY <1>9
       DEF wrap_rename, store, request, history, Goto, Thaw
  <1>10. ASSUME NEW c \in Child, wrap_scan(c) PROVE SpoolTypes'
    BY <1>10
       DEF wrap_scan, spool, store, history, Goto
  <1>11. ASSUME NEW c \in Child, wrap_set(c) PROVE SpoolTypes'
    BY <1>11
       DEF wrap_set, spool, request, history, Goto
  <1>12. ASSUME NEW c \in Child, wrap_ok(c) PROVE SpoolTypes'
    BY <1>12
       DEF wrap_ok, spool, store, request, history, Goto, Answer
  <1>13. ASSUME NEW c \in Child, roll_copy(c) PROVE SpoolTypes'
    BY <1>13
       DEF roll_copy, spool, store, request, history, Goto, Answer, Stored
  <1>14. ASSUME NEW c \in Child, roll_scan(c) PROVE SpoolTypes'
    BY <1>14
       DEF roll_scan, spool, store, history, Goto
  <1>15. ASSUME NEW c \in Child, roll_unlink(c) PROVE SpoolTypes'
    BY <1>15
       DEF roll_unlink, spool, store
  <1>16. ASSUME NEW c \in Child, roll_ok(c) PROVE SpoolTypes'
    BY <1>16
       DEF roll_ok, spool, store, request, history, Goto, Answer
  <1>17. ASSUME NEW c \in Child, brr_send(c) PROVE SpoolTypes'
    BY <1>17, RecordSent, Messages DEF Sent, request, store, history
  <1>18. ASSUME NEW c \in Child, child_panic(c) PROVE SpoolTypes'
    BY <1>18
       DEF child_panic, spool, store, request, history
  <1>19. ASSUME NEW c \in Child, kill_child(c) PROVE SpoolTypes'
    BY <1>19
       DEF kill_child, spool, store, request, history, Alive
  <1>20. ASSUME brr_logger PROVE SpoolTypes'
    BY <1>20, RecordRead, Messages DEF Taken, request, store, history
  <1>21. ASSUME answer_wrap PROVE SpoolTypes'
    <2>1. PICK e \in Child :
            /\ pipe' \in Seq(Msg) /\ log' = <<>> /\ stamp' = stamp
            /\ seq' = (seq + 1) % SeqSpan
            /\ logger' = [pc |-> "open", child |-> e, name |-> <<stamp, seq'>>]
            /\ frozen' = [m \in DOMAIN frozen \cup {<<stamp, seq'>>} |->
                            IF m = <<stamp, seq'>> THEN log ELSE frozen[m]]
      BY <1>21, WrapRead
    <2>2. seq' \in 0 .. SeqSpan - 1
      BY <2>1, WrapRollAssumption
    <2>3. <<stamp, seq'>> \in Name
      BY <2>2 DEF Name
    <2>4. logger' \in [pc : {"idle", "open", "reply", "gone"}, child : Child,
                       name : Name \cup {NoName}]
      BY <2>1, <2>3
    <2>5. DOMAIN frozen' \subseteq Name /\ \A n \in DOMAIN frozen' : frozen'[n] \in Log
      BY <2>1, <2>3
    <2> QED
      BY <2>1, <2>2, <2>4, <2>5, EmptyLog
  <1>22. ASSUME answer_wrap_open PROVE SpoolTypes'
    BY <1>22
       DEF answer_wrap_open, store, request, history, Goto, LoggerAt
  <1>23. ASSUME answer_wrap_reply PROVE SpoolTypes'
    BY <1>23
       DEF answer_wrap_reply, store, request, history, Goto, LoggerAt
  <1>24. ASSUME reboot PROVE SpoolTypes'
    BY <1>24, WrapRollAssumption
       DEF reboot, store, request, history, Alive
  <1>25. ASSUME UNCHANGED vars PROVE SpoolTypes'
    BY <1>25
       DEF vars, spool, store, request, history
  <1> HIDE DEF IInv, Types, ChildTypes, SpoolTypes, BlobTypes, SpoolTypes
  <1> QED
    BY <1>1, <1>2, <1>3, <1>4, <1>5, <1>6, <1>7, <1>8, <1>9, <1>10, <1>11, <1>12, <1>13,
       <1>14, <1>15, <1>16, <1>17, <1>18, <1>19, <1>20, <1>21, <1>22, <1>23, <1>24,
       <1>25 DEF Next, ChildStep, LoggerStep

\* The values of the variables of blobs.
LEMMA BlobTypesStep ==
  ASSUME IInv, [Next]_vars
  PROVE  BlobTypes'
  <1> USE DEF IInv, Types, ChildTypes, SpoolTypes, BlobTypes, Held, Holds
  <1>1. ASSUME NEW c \in Child, NEW v \in Verbs, fork_accept(c, v) PROVE BlobTypes'
    BY <1>1
       DEF fork_accept, spool, store, request, history, Goto, Known
  <1>2. ASSUME NEW c \in Child, put(c) PROVE BlobTypes'
    BY <1>2, EmptyLog
       DEF put, spool, request, history, Goto, Answer
  <1>3. ASSUME NEW c \in Child, take(c) PROVE BlobTypes'
    BY <1>3
       DEF take, spool, store, request, history, Goto, Answer
  <1>4. ASSUME NEW c \in Child, take_request(c) PROVE BlobTypes'
    BY <1>4
       DEF take_request, spool, store, request, history, Goto, Answer
  <1>5. ASSUME NEW c \in Child, take_reply(c) PROVE BlobTypes'
    BY <1>5
       DEF take_reply, spool, request, Goto, Answer
  <1>6. ASSUME NEW c \in Child, take_refused(c) PROVE BlobTypes'
    BY <1>6
       DEF take_refused, spool, store, request, history, Goto, Answer
  <1>7. ASSUME NEW c \in Child, wrap_request(c) PROVE BlobTypes'
    BY <1>7, WrapRequestSent, Messages DEF Sent, request, store, history
  <1>8. ASSUME NEW c \in Child, wrap_digest(c) PROVE BlobTypes'
    BY <1>8
       DEF wrap_digest, spool, history, Goto
  <1>9. ASSUME NEW c \in Child, wrap_rename(c) PROVE BlobTypes'
    BY <1>9
       DEF wrap_rename, store, request, history, Goto, Thaw
  <1>10. ASSUME NEW c \in Child, wrap_scan(c) PROVE BlobTypes'
    BY <1>10
       DEF wrap_scan, spool, store, history, Goto
  <1>11. ASSUME NEW c \in Child, wrap_set(c) PROVE BlobTypes'
    BY <1>11
       DEF wrap_set, spool, request, history, Goto
  <1>12. ASSUME NEW c \in Child, wrap_ok(c) PROVE BlobTypes'
    BY <1>12
       DEF wrap_ok, spool, store, request, history, Goto, Answer
  <1>13. ASSUME NEW c \in Child, roll_copy(c) PROVE BlobTypes'
    BY <1>13
       DEF roll_copy, spool, store, request, history, Goto, Answer, Stored
  <1>14. ASSUME NEW c \in Child, roll_scan(c) PROVE BlobTypes'
    BY <1>14
       DEF roll_scan, spool, store, history, Goto
  <1>15. ASSUME NEW c \in Child, roll_unlink(c) PROVE BlobTypes'
    BY <1>15
       DEF roll_unlink, spool, store
  <1>16. ASSUME NEW c \in Child, roll_ok(c) PROVE BlobTypes'
    BY <1>16
       DEF roll_ok, spool, store, request, history, Goto, Answer
  <1>17. ASSUME NEW c \in Child, brr_send(c) PROVE BlobTypes'
    BY <1>17, RecordSent, Messages DEF Sent, request, store, history
  <1>18. ASSUME NEW c \in Child, child_panic(c) PROVE BlobTypes'
    BY <1>18
       DEF child_panic, spool, store, request, history
  <1>19. ASSUME NEW c \in Child, kill_child(c) PROVE BlobTypes'
    BY <1>19
       DEF kill_child, spool, store, request, history, Alive
  <1>20. ASSUME brr_logger PROVE BlobTypes'
    BY <1>20, RecordRead, Messages DEF Taken, request, store, history
  <1>21. ASSUME answer_wrap PROVE BlobTypes'
    BY <1>21, WrapRead, Messages DEF Taken, request, store, history
  <1>22. ASSUME answer_wrap_open PROVE BlobTypes'
    BY <1>22
       DEF answer_wrap_open, store, request, history, Goto, LoggerAt
  <1>23. ASSUME answer_wrap_reply PROVE BlobTypes'
    BY <1>23
       DEF answer_wrap_reply, store, request, history, Goto, LoggerAt
  <1>24. ASSUME reboot PROVE BlobTypes'
    BY <1>24
       DEF reboot, store, request, history, Alive
  <1>25. ASSUME UNCHANGED vars PROVE BlobTypes'
    BY <1>25
       DEF vars, spool, store, request, history
  <1> HIDE DEF IInv, Types, ChildTypes, SpoolTypes, BlobTypes, Held, Holds
  <1> QED
    BY <1>1, <1>2, <1>3, <1>4, <1>5, <1>6, <1>7, <1>8, <1>9, <1>10, <1>11, <1>12, <1>13,
       <1>14, <1>15, <1>16, <1>17, <1>18, <1>19, <1>20, <1>21, <1>22, <1>23, <1>24,
       <1>25 DEF Next, ChildStep, LoggerStep

\* The first state has the invariant ...
LEMMA IInvInit ==
  ASSUME Init PROVE IInv
  <1>1. Types
    BY EmptyLog, WrapRollAssumption DEF Init, Types, ChildTypes, SpoolTypes, BlobTypes, Points
  <1>2. HandlerOfVerb /\ AnswerLast /\ BeforeSent /\ Accumulated /\ SentBehind /\ KnownWrapped
    BY DEF Init, HandlerOfVerb, AnswerLast, BeforeSent, Accumulated, SentBehind, KnownWrapped, WrapOk
  <1>3. /\ pipe = <<>> /\ logger.pc = "idle"
        /\ \A c \in Child : pc[c] = "idle" /\ verb[c] = "put" /\ before[c] = {}
    BY DEF Init
  <1> PipeOnce /\ Meeting /\ Held /\ Cleared
    BY <1>3, Empty DEF PipeOnce, Meeting, Answering, Held, Holds, Cleared
  <1>4. NumbersLast
    BY Requests DEF Init, NumbersLast, Asked
  <1>5. log = <<>> /\ Closed = {}
    BY DEF Init, Closed
  <1>6. RecordPlace /\ LoggedOnce
    BY <1>5, Empty DEF RecordPlace, Logged, LoggedOnce, Distinct
  <1>7. FrozenOnce /\ RecordsStored /\ RecordsStayRolled
    BY DEF Init, FrozenOnce, RecordsStored, RecordsStayRolled
  <1> QED
    BY <1>1, <1>2, <1>4, <1>6, <1>7 DEF IInv

\* ... and every step keeps it.
LEMMA IInvStep ==
  ASSUME IInv, [Next]_vars
  PROVE  IInv'
  BY ChildTypesStep, SpoolTypesStep, BlobTypesStep, HandlerStep, AnswerStep, BeforeStep, PipeStep,
     MeetingStep, NumbersStep, HeldStep, RecordPlaceStep, LoggedOnceStep, FrozenStep, StoredStep,
     RolledStep, KnownStep, AccumulatedStep, SentStep, ClearedStep
     DEF IInv, Types

\* The inductive invariant holds in every state.
THEOREM Invariance == Spec => []IInv
  BY IInvInit, IInvStep, PTL DEF Spec

-----------------------------------------------------------------------------
(* The theorems.                                                             *)

\* The variables of children, logger, blobs and history keep their types.
THEOREM TypeCorrect == Spec => []TypeOK
  <1>1. IInv => TypeOK
    BY DEF IInv, Types, ChildTypes, SpoolTypes, BlobTypes, TypeOK
  <1> QED
    BY <1>1, Invariance, PTL

\* However freezes, stores, moves and unlinks of logs interleave, and whenever
\* children are killed and hosts stop, no record is in two logs or twice in one.
THEOREM RecordsAreOnce == Spec => []LoggedOnce
  <1>1. IInv => LoggedOnce
    BY DEF IInv
  <1> QED
    BY <1>1, Invariance, PTL

\* The blob of a log with records is stored for as long as spool/wrap has it.
THEOREM WrappedIsStored == Spec => []RecordsStored
  <1>1. IInv => RecordsStored
    BY DEF IInv
  <1> QED
    BY <1>1, Invariance, PTL

\* No later wrap sees a log with records that a roll has unlinked.
THEOREM RolledIsGone == Spec => []RecordsStayRolled
  <1>1. IInv => RecordsStayRolled
    BY DEF IInv
  <1> QED
    BY <1>1, Invariance, PTL

\* The answer to a wrap has all that the answers to wraps that were over when
\* it was asked have, less what was rolled.
THEOREM WrapsSeeTheLast == Spec => []WrapsAccumulate
  <1>1. IInv => WrapsAccumulate
    BY DEF IInv, Accumulated, WrapsAccumulate
  <1> QED
    BY <1>1, Invariance, PTL

\* When a wrap is answered, no record sent before it is in the log that goes on
\* or on its way there.
THEOREM WrapsFreeze == Spec => []WrapFreezes
  <1>1. IInv => WrapFreezes
    BY DEF IInv, Cleared, Freezing, WrapOk, WrapFreezes
  <1> QED
    BY <1>1, Invariance, PTL

-----------------------------------------------------------------------------
(* Freezes and the names of frozen logs.                                     *)

\* The names with the <now> of this boot have the numbers that were counted.
NamesCounted == \A n \in DOMAIN frozen : n[1] = stamp => n[2] <= seq

\* Logs are left neither by records nor by the files they are in.
LogsStay ==
  Closed \subseteq Closed' /\ \A r \in Child : In(r, log) => In(r, log')

\* The logger counts up for each name.
LEMMA NamesStep ==
  ASSUME IInv, NamesCounted, [Next]_vars
  PROVE  reboot \/ NamesCounted'
  <1> USE DEF IInv, Types, ChildTypes, SpoolTypes, BlobTypes, Held, Holds, NamesCounted
  <1>1. ASSUME NEW c \in Child, NEW v \in Verbs, fork_accept(c, v) PROVE NamesCounted'
    BY <1>1
       DEF fork_accept, spool, store, request, history, Goto, Known
  <1>2. ASSUME NEW c \in Child, put(c) PROVE NamesCounted'
    BY <1>2
       DEF put, spool, request, history, Goto, Answer
  <1>3. ASSUME NEW c \in Child, take(c) PROVE NamesCounted'
    BY <1>3
       DEF take, spool, store, request, history, Goto, Answer
  <1>4. ASSUME NEW c \in Child, take_request(c) PROVE NamesCounted'
    BY <1>4
       DEF take_request, spool, store, request, history, Goto, Answer
  <1>5. ASSUME NEW c \in Child, take_reply(c) PROVE NamesCounted'
    BY <1>5
       DEF take_reply, spool, request, Goto, Answer
  <1>6. ASSUME NEW c \in Child, take_refused(c) PROVE NamesCounted'
    BY <1>6
       DEF take_refused, spool, store, request, history, Goto, Answer
  <1>7. ASSUME NEW c \in Child, wrap_request(c) PROVE NamesCounted'
    BY <1>7, WrapRequestSent, Messages DEF Sent, request, store, history
  <1>8. ASSUME NEW c \in Child, wrap_digest(c) PROVE NamesCounted'
    BY <1>8
       DEF wrap_digest, spool, history, Goto
  <1>9. ASSUME NEW c \in Child, wrap_rename(c) PROVE NamesCounted'
    BY <1>9
       DEF wrap_rename, store, request, history, Goto, Thaw
  <1>10. ASSUME NEW c \in Child, wrap_scan(c) PROVE NamesCounted'
    BY <1>10
       DEF wrap_scan, spool, store, history, Goto
  <1>11. ASSUME NEW c \in Child, wrap_set(c) PROVE NamesCounted'
    BY <1>11
       DEF wrap_set, spool, request, history, Goto
  <1>12. ASSUME NEW c \in Child, wrap_ok(c) PROVE NamesCounted'
    BY <1>12
       DEF wrap_ok, spool, store, request, history, Goto, Answer
  <1>13. ASSUME NEW c \in Child, roll_copy(c) PROVE NamesCounted'
    BY <1>13
       DEF roll_copy, spool, store, request, history, Goto, Answer, Stored
  <1>14. ASSUME NEW c \in Child, roll_scan(c) PROVE NamesCounted'
    BY <1>14
       DEF roll_scan, spool, store, history, Goto
  <1>15. ASSUME NEW c \in Child, roll_unlink(c) PROVE NamesCounted'
    BY <1>15
       DEF roll_unlink, spool, store
  <1>16. ASSUME NEW c \in Child, roll_ok(c) PROVE NamesCounted'
    BY <1>16
       DEF roll_ok, spool, store, request, history, Goto, Answer
  <1>17. ASSUME NEW c \in Child, brr_send(c) PROVE NamesCounted'
    BY <1>17, RecordSent, Messages DEF Sent, request, store, history
  <1>18. ASSUME NEW c \in Child, child_panic(c) PROVE NamesCounted'
    BY <1>18
       DEF child_panic, spool, store, request, history
  <1>19. ASSUME NEW c \in Child, kill_child(c) PROVE NamesCounted'
    BY <1>19
       DEF kill_child, spool, store, request, history, Alive
  <1>20. ASSUME brr_logger PROVE NamesCounted'
    BY <1>20, RecordRead, Messages DEF Taken, request, store, history
  <1>21. ASSUME answer_wrap PROVE NamesCounted'
    <2>1. /\ DOMAIN frozen' = DOMAIN frozen \cup {<<stamp, seq'>>}
          /\ stamp' = stamp
      BY <1>21, WrapRead
    <2>2. seq' = seq + 1 /\ seq \in Nat
      BY <1>21, NextNumber
    <2>3. ASSUME NEW n \in DOMAIN frozen, n[1] = stamp PROVE n[2] <= seq'
      <3>1. n[2] \in Nat /\ n[2] <= seq
        BY <2>3 DEF Name
      <3> QED
        BY <2>2, <3>1
    <2> HIDE DEF Types, Held
    <2> QED
      BY <2>1, <2>2, <2>3
  <1>22. ASSUME answer_wrap_open PROVE NamesCounted'
    BY <1>22
       DEF answer_wrap_open, store, request, history, Goto, LoggerAt
  <1>23. ASSUME answer_wrap_reply PROVE NamesCounted'
    BY <1>23
       DEF answer_wrap_reply, store, request, history, Goto, LoggerAt
  <1>24. ASSUME UNCHANGED vars PROVE NamesCounted'
    BY <1>24
       DEF vars, spool, store, request, history
  <1> HIDE DEF IInv, Types, ChildTypes, SpoolTypes, BlobTypes, Held, Holds, NamesCounted
  <1> QED
    BY <1>1, <1>2, <1>3, <1>4, <1>5, <1>6, <1>7, <1>8, <1>9, <1>10, <1>11, <1>12, <1>13,
       <1>14, <1>15, <1>16, <1>17, <1>18, <1>19, <1>20, <1>21, <1>22, <1>23, <1>24
       DEF Next, ChildStep, LoggerStep

\* A log that is renamed or unlinked is wrapped, rolled or taken.
LEMMA LogsStayStep ==
  ASSUME IInv, [Next]_vars
  PROVE  answer_wrap \/ LogsStay
  <1> USE DEF IInv, Types, ChildTypes, SpoolTypes, BlobTypes, Held, Holds, Closed, LogsStay
  <1>1. ASSUME NEW c \in Child, NEW v \in Verbs, fork_accept(c, v) PROVE LogsStay
    BY <1>1
       DEF fork_accept, spool, store, request, history, Goto, Known
  <1>2. ASSUME NEW c \in Child, put(c) PROVE LogsStay
    BY <1>2
       DEF put, spool, request, history, Goto, Answer
  <1>3. ASSUME NEW c \in Child, take(c) PROVE LogsStay
    BY <1>3
       DEF take, spool, store, request, history, Goto, Answer
  <1>4. ASSUME NEW c \in Child, take_request(c) PROVE LogsStay
    BY <1>4
       DEF take_request, spool, store, request, history, Goto, Answer
  <1>5. ASSUME NEW c \in Child, take_reply(c) PROVE LogsStay
    BY <1>5
       DEF take_reply, spool, request, Goto, Answer
  <1>6. ASSUME NEW c \in Child, take_refused(c) PROVE LogsStay
    BY <1>6
       DEF take_refused, spool, store, request, history, Goto, Answer
  <1>7. ASSUME NEW c \in Child, wrap_request(c) PROVE LogsStay
    BY <1>7, WrapRequestSent, Messages DEF Sent, request, store, history
  <1>8. ASSUME NEW c \in Child, wrap_digest(c) PROVE LogsStay
    BY <1>8
       DEF wrap_digest, spool, history, Goto
  <1>9. ASSUME NEW c \in Child, wrap_rename(c) PROVE LogsStay
    <2>1. udig[c] = frozen[path[c]] /\ path[c] \in DOMAIN frozen
      BY <1>9 DEF wrap_rename, Goto
    <2>2. /\ \A n \in DOMAIN frozen : n # path[c] => n \in DOMAIN frozen' /\ frozen'[n] = frozen[n]
          /\ wrapped' = wrapped \cup {udig[c]}
          /\ UNCHANGED <<log, logBlobs, rolled, taken>>
      BY <1>9 DEF wrap_rename, Thaw, store, history
    <2>3. ASSUME NEW n \in DOMAIN frozen PROVE frozen[n] \in Closed'
      BY <2>1, <2>2
    <2> QED
      BY <2>2, <2>3
  <1>10. ASSUME NEW c \in Child, wrap_scan(c) PROVE LogsStay
    BY <1>10
       DEF wrap_scan, spool, store, history, Goto
  <1>11. ASSUME NEW c \in Child, wrap_set(c) PROVE LogsStay
    BY <1>11
       DEF wrap_set, spool, request, history, Goto
  <1>12. ASSUME NEW c \in Child, wrap_ok(c) PROVE LogsStay
    BY <1>12
       DEF wrap_ok, spool, store, request, history, Goto, Answer
  <1>13. ASSUME NEW c \in Child, roll_copy(c) PROVE LogsStay
    BY <1>13
       DEF roll_copy, spool, store, request, history, Goto, Answer, Stored
  <1>14. ASSUME NEW c \in Child, roll_scan(c) PROVE LogsStay
    BY <1>14
       DEF roll_scan, spool, store, history, Goto
  <1>15. ASSUME NEW c \in Child, roll_unlink(c) PROVE LogsStay
    BY <1>15
       DEF roll_unlink, spool, store
  <1>16. ASSUME NEW c \in Child, roll_ok(c) PROVE LogsStay
    BY <1>16
       DEF roll_ok, spool, store, request, history, Goto, Answer
  <1>17. ASSUME NEW c \in Child, brr_send(c) PROVE LogsStay
    BY <1>17, RecordSent, Messages DEF Sent, request, store, history
  <1>18. ASSUME NEW c \in Child, child_panic(c) PROVE LogsStay
    BY <1>18
       DEF child_panic, spool, store, request, history
  <1>19. ASSUME NEW c \in Child, kill_child(c) PROVE LogsStay
    BY <1>19
       DEF kill_child, spool, store, request, history, Alive
  <1>20. ASSUME brr_logger PROVE LogsStay
    BY <1>20, RecordRead, Messages DEF Taken, request, store, history
  <1>21. ASSUME answer_wrap_open PROVE LogsStay
    BY <1>21
       DEF answer_wrap_open, store, request, history, Goto, LoggerAt
  <1>22. ASSUME answer_wrap_reply PROVE LogsStay
    BY <1>22
       DEF answer_wrap_reply, store, request, history, Goto, LoggerAt
  <1>23. ASSUME reboot PROVE LogsStay
    BY <1>23
       DEF reboot, store, request, history, Alive
  <1>24. ASSUME UNCHANGED vars PROVE LogsStay
    BY <1>24
       DEF vars, spool, store, request, history
  <1> HIDE DEF IInv, Types, ChildTypes, SpoolTypes, BlobTypes, Held, Holds, Closed, LogsStay
  <1> QED
    BY <1>1, <1>2, <1>3, <1>4, <1>5, <1>6, <1>7, <1>8, <1>9, <1>10, <1>11, <1>12, <1>13,
       <1>14, <1>15, <1>16, <1>17, <1>18, <1>19, <1>20, <1>21, <1>22, <1>23, <1>24
       DEF Next, ChildStep, LoggerStep

\* A new name takes the place of none.
LEMMA FreezeKeeps ==
  ASSUME IInv, NamesCounted, answer_wrap
  PROVE  log \in Closed' /\ Closed \subseteq Closed'
  <1>1. /\ frozen' = [m \in DOMAIN frozen \cup {<<stamp, seq'>>} |->
                        IF m = <<stamp, seq'>> THEN log ELSE frozen[m]]
        /\ UNCHANGED <<wrapped, store, history>>
    BY WrapRead DEF IInv
  <1>2. seq' = seq + 1 /\ seq \in Nat
    BY NextNumber DEF IInv, Types, SpoolTypes
  <1>3. <<stamp, seq'>> \notin DOMAIN frozen
    BY <1>2 DEF NamesCounted
  <1>4. \A n \in DOMAIN frozen : frozen[n] \in {frozen'[m] : m \in DOMAIN frozen'}
    BY <1>1, <1>3
  <1>5. log \in {frozen'[m] : m \in DOMAIN frozen'}
    BY <1>1
  <1>6. log \in Closed'
    BY <1>5 DEF Closed
  <1>7. ASSUME NEW l \in Closed PROVE l \in Closed'
    <2>1. wrapped' \cup logBlobs' \cup rolled' \cup taken'
            = wrapped \cup logBlobs \cup rolled \cup taken
      BY <1>1 DEF store, history
    <2>2. CASE l \in {frozen[n] : n \in DOMAIN frozen}
      BY <1>4, <2>2 DEF Closed
    <2>3. CASE l \in wrapped \cup logBlobs \cup rolled \cup taken
      BY <2>1, <2>3 DEF Closed
    <2> QED
      BY <2>2, <2>3 DEF Closed
  <1> QED
    BY <1>6, <1>7

\* Within a boot, a record that was written to the log is in a log ever after,
\* whatever wraps, rolls and takes overlap and are killed.
THEOREM RecordsKept ==
  ASSUME ~Reboots
  PROVE  Spec => LoggedKept
  <1>1. Init => NamesCounted
    BY DEF Init, NamesCounted
  <1>2. ASSUME IInv, NamesCounted, [Next]_vars
        PROVE  NamesCounted'
    <2>1. ~reboot
      BY DEF reboot
    <2> QED
      BY <1>2, <2>1, NamesStep
  <1>3. ASSUME IInv, NamesCounted, [Next]_vars
        PROVE  [\A r \in Child : Logged(r) => Logged(r)']_vars
    <2>1. CASE answer_wrap
      BY <1>3, <2>1, FreezeKeeps DEF Logged
    <2>2. CASE LogsStay
      BY <2>2 DEF LogsStay, Logged
    <2> QED
      BY <1>3, <2>1, <2>2, LogsStayStep
  <1> QED
    BY <1>1, <1>2, <1>3, Invariance, PTL DEF Spec, LoggedKept

=============================================================================
