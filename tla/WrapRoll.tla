------------------------------- MODULE WrapRoll --------------------------------
(***************************************************************************)
(* Blob request records of bio4d and their logs.  Each request child sends *)
(* one record to the brr logger process, which appends it to               *)
(* spool/bio4d.brr.  A wrap has the logger freeze that file under a name   *)
(* of its own, stores the frozen file as a blob, moves it to spool/wrap    *)
(* and answers with the set of the logs found there.  A roll forgets the   *)
(* logs of a set; until then a take refuses their blobs.                   *)
(*                                                                         *)
(* A record is the child that sent it, and the digest of a log or of a set *)
(* of logs is the log or the set.  So only the empty log can come up       *)
(* twice.  Stores and unlinks of blobs are steps, as in BlobService.       *)
(***************************************************************************)
EXTENDS Naturals, Sequences, FiniteSets

CONSTANTS
  Child,     \* request children; each makes one request
  Verbs,     \* the verbs requests carry
  Stamps,    \* what a boot may put for <now> into the names of frozen logs
  SeqSpan,   \* frozen logs are numbered modulo SeqSpan (ui16: 65536)
  Kills,     \* children may be killed
  Reboots    \* the host may stop and start again

ASSUME WrapRollAssumption ==
  /\ Verbs \subseteq {"put", "take", "wrap", "roll"}
  /\ SeqSpan \in Nat \ {0}
  /\ {Kills, Reboots} \subseteq BOOLEAN

\* Fewer requests than numbers: none is used again before the next boot.
ASSUME FewRequests == IsFiniteSet(Child) /\ Cardinality(Child) < SeqSpan

VARIABLES
  pc,        \* pc[c]: where child c is
  verb,      \* verb[c]: what its client asked
  udig,      \* udig[c]: the log c takes or wraps
  set,       \* set[c]: the set of logs c puts, rolls or answers
  todo,      \* todo[c]: the logs a roll has yet to unlink
  ans,       \* ans[c]: the last ok or no to the client
  path,      \* path[c]: the name of the log frozen for c
  pipe,      \* messages on their way to the logger
  log,       \* the records in spool/bio4d.brr
  frozen,    \* frozen[n]: the records in the frozen log named n
  stamp,     \* <now> in those names, and the number of the last
  seq,
  logger,    \* where the logger is, and the child and the name it answers
  wrapped,   \* the logs in spool/wrap
  logBlobs,  \* the logs stored as blobs
  setBlobs,  \* the sets of logs stored as blobs
  before,    \* before[c]: children that had sent their records when c started
  rolled,    \* logs that rolls unlinked (history)
  taken      \* logs that takes unlinked (history)

spool   == <<frozen, stamp, seq, log, pipe, logger>>
store   == <<logBlobs, setBlobs>>
request == <<verb, udig, set, todo, before>>
history == <<rolled, taken>>
vars == <<request, pc, ans, path, spool, wrapped, store, history>>

Log  == Seq(Child)
Name == Stamps \X (0..SeqSpan-1)
NoName == <<>>

Points == {"idle", "dead", "request", "take", "unlink", "open", "read",
           "frozen", "rename", "scan", "set", "ok", "opendir", "roll",
           "brr", "sent"}
Alive(c) == pc[c] \notin {"idle", "dead", "sent"}

Rec(r) == [op |-> "brr", child |-> r]
Msg == [op : {"brr", "wrap"}, child : Child]

\* r is a record of the log l.
In(r, l) == \E i \in 1..Len(l) : l[i] = r

Stored(S) == IF S = {} THEN <<>> \in logBlobs ELSE S \in setBlobs

-----------------------------------------------------------------------------
(* Requests.                                                                 *)

Goto(c, from, to) == pc[c] = from /\ pc' = [pc EXCEPT ![c] = to]

\* Answer the client and go on to send the record.
Answer(c, from, a) == Goto(c, from, "brr") /\ ans' = [ans EXCEPT ![c] = a]

\* A client names a log it knows of: the empty one or one of a set.  It puts
\* and rolls sets of such logs, its own ones included.
Known == {<<>>} \cup UNION setBlobs

fork_accept(c, v) ==
  /\ Goto(c, "idle", "request")
  /\ verb' = [verb EXCEPT ![c] = v]
  /\ before' = [before EXCEPT ![c] = {d \in Child : pc[d] = "sent"}]
  /\ \/ v = "wrap" /\ UNCHANGED <<udig, set>>
     \/ v = "take" /\ \E u \in Known : udig' = [udig EXCEPT ![c] = u]
        /\ UNCHANGED set
     \/ v \in {"put", "roll"}
        /\ \E S \in setBlobs \cup SUBSET (wrapped \cap Known) :
              set' = [set EXCEPT ![c] = S]
        /\ UNCHANGED udig
  /\ UNCHANGED <<todo, ans, path, spool, wrapped, store, history>>

put(c) ==
  /\ verb[c] = "put"
  /\ Answer(c, "request", "ok")
  /\ IF set[c] = {} THEN logBlobs' = logBlobs \cup {<<>>} /\ UNCHANGED setBlobs
                    ELSE setBlobs' = setBlobs \cup {set[c]} /\ UNCHANGED logBlobs
  /\ UNCHANGED <<request, path, spool, wrapped, history>>

\* Mutant: the blobs of wrapped logs are not refused.
take_any(c) ==
  /\ verb[c] = "take"
  /\ Goto(c, "request", "take")
  /\ UNCHANGED <<request, ans, path, spool, wrapped, store, history>>

\* A take looks for the log in spool/wrap ...
take(c) ==
  /\ verb[c] = "take"
  /\ IF udig[c] \in wrapped
     THEN Answer(c, "request", "no")
     ELSE Goto(c, "request", "take") /\ UNCHANGED ans
  /\ UNCHANGED <<request, path, spool, wrapped, store, history>>

\* ... then for the blob, which it streams ...
take_request(c) ==
  /\ IF udig[c] \in logBlobs
     THEN Goto(c, "take", "unlink") /\ UNCHANGED ans
     ELSE Answer(c, "take", "no")
  /\ UNCHANGED <<request, path, spool, wrapped, store, history>>

\* ... and unlinks when the client accepts it, or keeps.
take_reply(c) ==
  /\ Answer(c, "unlink", "ok")
  /\ logBlobs' = logBlobs \ {udig[c]}
  /\ taken' = taken \cup ({udig[c]} \cap logBlobs)
  /\ UNCHANGED <<request, path, spool, wrapped, setBlobs, rolled>>

take_refused(c) ==
  /\ Answer(c, "unlink", "no")
  /\ UNCHANGED <<request, path, spool, wrapped, store, history>>

\* Mutant: the request overtakes the records in the pipe.
wrap_request_first(c) ==
  /\ verb[c] = "wrap" /\ logger.pc # "gone"
  /\ Goto(c, "request", "open")
  /\ pipe' = <<[op |-> "wrap", child |-> c]>> \o pipe
  /\ UNCHANGED <<request, ans, path, frozen, stamp, seq, log, logger, wrapped,
                 store, history>>

\* Make the reply fifo and ask the logger to freeze the log.
wrap_request(c) ==
  /\ verb[c] = "wrap" /\ logger.pc # "gone"
  /\ Goto(c, "request", "open")
  /\ pipe' = Append(pipe, [op |-> "wrap", child |-> c])
  /\ UNCHANGED <<request, ans, path, frozen, stamp, seq, log, logger, wrapped,
                 store, history>>

\* Store the frozen log.
wrap_digest(c) ==
  /\ Goto(c, "frozen", "rename")
  /\ udig' = [udig EXCEPT ![c] = frozen[path[c]]]
  /\ logBlobs' = logBlobs \cup {frozen[path[c]]}
  /\ UNCHANGED <<verb, set, todo, before, ans, path, spool, wrapped, setBlobs,
                 history>>

Thaw(n) == frozen' = [m \in DOMAIN frozen \ {n} |-> frozen[m]]

\* Mutant: the log keeps its name in spool/wrap.
wrap_rename_name(c) ==
  /\ Goto(c, "rename", "scan")
  /\ Thaw(path[c])
  /\ wrapped' = wrapped \cup {path[c]}
  /\ UNCHANGED <<request, ans, path, stamp, seq, log, pipe, logger, store,
                 history>>

\* Move it to spool/wrap/<udig>.brr.
wrap_rename(c) ==
  /\ Goto(c, "rename", "scan")
  /\ Thaw(path[c])
  /\ wrapped' = wrapped \cup {udig[c]}
  /\ UNCHANGED <<request, ans, path, stamp, seq, log, pipe, logger, store,
                 history>>

\* Mutant: the set is that of the frozen log alone.
wrap_scan_own(c) ==
  /\ Goto(c, "scan", "set")
  /\ set' = [set EXCEPT ![c] = {udig[c]}]
  /\ UNCHANGED <<verb, udig, todo, before, ans, path, spool, wrapped, store,
                 history>>

\* The set of that log and the logs in spool/wrap.
wrap_scan(c) ==
  /\ Goto(c, "scan", "set")
  /\ set' = [set EXCEPT ![c] = {udig[c]} \cup wrapped]
  /\ UNCHANGED <<verb, udig, todo, before, ans, path, spool, wrapped, store,
                 history>>

wrap_set(c) ==
  /\ Goto(c, "set", "ok")
  /\ setBlobs' = setBlobs \cup {set[c]}
  /\ UNCHANGED <<request, ans, path, spool, wrapped, logBlobs, history>>

wrap_ok(c) ==
  /\ Answer(c, "ok", "ok")
  /\ UNCHANGED <<request, path, spool, wrapped, store, history>>

\* A roll copies the set, if it is stored ...
roll_copy(c) ==
  /\ verb[c] = "roll"
  /\ IF Stored(set[c])
     THEN Goto(c, "request", "opendir") /\ UNCHANGED ans
     ELSE Answer(c, "request", "no")
  /\ UNCHANGED <<request, path, spool, wrapped, store, history>>

\* ... and unlinks the logs of it found in spool/wrap.
roll_scan(c) ==
  /\ Goto(c, "opendir", "roll")
  /\ todo' = [todo EXCEPT ![c] = set[c] \cap wrapped]
  /\ UNCHANGED <<verb, udig, set, before, ans, path, spool, wrapped, store,
                 history>>

roll_unlink(c) ==
  /\ pc[c] = "roll"
  /\ \E u \in todo[c] :
       /\ todo' = [todo EXCEPT ![c] = @ \ {u}]
       /\ wrapped' = wrapped \ {u}
       /\ rolled' = rolled \cup ({u} \cap wrapped)
  /\ UNCHANGED <<pc, verb, udig, set, before, ans, path, spool, store, taken>>

roll_ok(c) ==
  /\ todo[c] = {}
  /\ Answer(c, "roll", "ok")
  /\ UNCHANGED <<request, path, spool, wrapped, store, history>>

\* The record of an answered request.
brr_send(c) ==
  /\ logger.pc # "gone"
  /\ Goto(c, "brr", "sent")
  /\ pipe' = Append(pipe, Rec(c))
  /\ UNCHANGED <<request, ans, path, frozen, stamp, seq, log, logger, wrapped,
                 store, history>>

\* A child panics when no logger reads the pipe, or when its client is gone
\* at the first answer: it leaves no record.
child_panic(c) ==
  /\ \/ logger.pc = "gone" /\ pc[c] = "brr"
     \/ logger.pc = "gone" /\ pc[c] = "request" /\ verb[c] = "wrap"
     \/ pc[c] = "request" /\ verb[c] # "wrap"
     \/ pc[c] \in {"take", "ok"}
     \/ pc[c] = "roll" /\ todo[c] = {}
  /\ pc' = [pc EXCEPT ![c] = "dead"]
  /\ UNCHANGED <<request, ans, path, spool, wrapped, store, history>>

kill_child(c) ==
  /\ Kills /\ Alive(c)
  /\ pc' = [pc EXCEPT ![c] = "dead"]
  /\ UNCHANGED <<request, ans, path, spool, wrapped, store, history>>

-----------------------------------------------------------------------------
(* The brr logger.                                                           *)

LoggerAt(p) == logger.pc = p
NextMsg(op) == /\ LoggerAt("idle") /\ pipe # <<>> /\ Head(pipe).op = op
               /\ pipe' = Tail(pipe)

\* Append a record.
brr_logger ==
  /\ NextMsg("brr")
  /\ log' = Append(log, Head(pipe).child)
  /\ UNCHANGED <<request, pc, ans, path, frozen, stamp, seq, logger, wrapped,
                 store, history>>

\* Rename the log to the next name, whatever file has it, and start another.
Freeze(n, rest) ==
  /\ frozen' = [m \in DOMAIN frozen \cup {n} |-> IF m = n THEN log ELSE frozen[m]]
  /\ log' = rest
  /\ logger' = [pc |-> "open", child |-> Head(pipe).child, name |-> n]
  /\ UNCHANGED <<request, pc, ans, path, stamp, wrapped, store, history>>

\* Mutants: the number is not counted up; the log is copied, not renamed; a
\* wrap request is taken for a record.
answer_wrap_same == NextMsg("wrap") /\ UNCHANGED seq /\ Freeze(<<stamp, seq>>, <<>>)

answer_wrap_copy ==
  /\ NextMsg("wrap")
  /\ seq' = (seq + 1) % SeqSpan
  /\ Freeze(<<stamp, seq'>>, log)

answer_wrap_record ==
  /\ NextMsg("wrap")
  /\ log' = Append(log, Head(pipe).child)
  /\ UNCHANGED <<request, pc, ans, path, frozen, stamp, seq, logger, wrapped,
                 store, history>>

answer_wrap ==
  /\ NextMsg("wrap")
  /\ seq' = (seq + 1) % SeqSpan
  /\ Freeze(<<stamp, seq'>>, <<>>)

\* The logger and the child wait for each other to open the reply fifo.
answer_wrap_open ==
  /\ LoggerAt("open") /\ Goto(logger.child, "open", "read")
  /\ logger' = [logger EXCEPT !.pc = "reply"]
  /\ UNCHANGED <<request, ans, path, frozen, stamp, seq, log, pipe, wrapped,
                 store, history>>

\* Mutant: the logger stops after the answer.
answer_wrap_reply_once ==
  /\ LoggerAt("reply") /\ Goto(logger.child, "read", "frozen")
  /\ path' = [path EXCEPT ![logger.child] = logger.name]
  /\ UNCHANGED <<request, ans, frozen, stamp, seq, log, pipe, logger, wrapped,
                 store, history>>

\* The name goes to the child.  The logger dies of SIGPIPE when the child did.
answer_wrap_reply ==
  LET c == logger.child IN
  /\ LoggerAt("reply")
  /\ IF pc[c] = "read"
     THEN /\ Goto(c, "read", "frozen")
          /\ path' = [path EXCEPT ![c] = logger.name]
          /\ logger' = [logger EXCEPT !.pc = "idle"]
     ELSE logger' = [logger EXCEPT !.pc = "gone"] /\ UNCHANGED <<pc, path>>
  /\ UNCHANGED <<request, ans, frozen, stamp, seq, log, pipe, wrapped, store,
                 history>>

\* The host stops, and a server is started.  Files stay; its logger begins
\* to number at 1 again.
reboot ==
  /\ Reboots
  /\ pc' = [c \in Child |-> IF Alive(c) THEN "dead" ELSE pc[c]]
  /\ pipe' = <<>>
  /\ logger' = [logger EXCEPT !.pc = "idle"]
  /\ seq' = 0 /\ stamp' \in Stamps
  /\ UNCHANGED <<request, ans, path, frozen, log, wrapped, store, history>>

-----------------------------------------------------------------------------

Init ==
  /\ pc = [c \in Child |-> "idle"]
  /\ verb = [c \in Child |-> "put"]
  /\ udig = [c \in Child |-> <<>>]
  /\ set = [c \in Child |-> {}]
  /\ todo = [c \in Child |-> {}]
  /\ ans = [c \in Child |-> "none"]
  /\ path = [c \in Child |-> NoName]
  /\ pipe = <<>> /\ log = <<>>
  /\ frozen = <<>>
  /\ stamp \in Stamps /\ seq = 0
  /\ \E c \in Child : logger = [pc |-> "idle", child |-> c, name |-> NoName]
  /\ wrapped = {} /\ logBlobs = {} /\ setBlobs = {}
  /\ before = [c \in Child |-> {}]
  /\ rolled = {} /\ taken = {}

ChildStep(c) ==
  \/ put(c) \/ take(c) \/ take_request(c) \/ take_reply(c) \/ take_refused(c)
  \/ wrap_request(c) \/ wrap_digest(c) \/ wrap_rename(c) \/ wrap_scan(c)
  \/ wrap_set(c) \/ wrap_ok(c) \/ roll_copy(c) \/ roll_scan(c)
  \/ roll_unlink(c) \/ roll_ok(c) \/ brr_send(c) \/ child_panic(c)

LoggerStep ==
  \/ brr_logger \/ answer_wrap \/ answer_wrap_open \/ answer_wrap_reply

Next ==
  \/ \E c \in Child, v \in Verbs : fork_accept(c, v)
  \/ \E c \in Child : ChildStep(c) \/ kill_child(c)
  \/ LoggerStep
  \/ reboot

Spec == Init /\ [][Next]_vars

\* Children and the logger run.
Fairness == /\ \A c \in Child : WF_vars(ChildStep(c))
            /\ WF_vars(LoggerStep)

FairSpec == Spec /\ Fairness

-----------------------------------------------------------------------------
(* Properties.                                                               *)

\* The values each variable takes.
TypeOK ==
  /\ pc \in [Child -> Points]
  /\ verb \in [Child -> {"put", "take", "wrap", "roll"}]
  /\ udig \in [Child -> Log]
  /\ \A c \in Child : set[c] \subseteq Log /\ todo[c] \subseteq Log
  /\ ans \in [Child -> {"none", "ok", "no"}]
  /\ path \in [Child -> Name \cup {NoName}]
  /\ pipe \in Seq(Msg)
  /\ log \in Log
  /\ DOMAIN frozen \subseteq Name /\ \A n \in DOMAIN frozen : frozen[n] \in Log
  /\ stamp \in Stamps /\ seq \in 0..SeqSpan-1
  /\ logger.pc \in {"idle", "open", "reply", "gone"}
  /\ logger.child \in Child /\ logger.name \in Name \cup {NoName}
  /\ wrapped \subseteq Log /\ logBlobs \subseteq Log
  /\ \A S \in setBlobs : S \subseteq Log
  /\ before \in [Child -> SUBSET Child]
  /\ rolled \subseteq Log /\ taken \subseteq Log

\* The logs that are no longer written, wherever they are.
Closed == {frozen[n] : n \in DOMAIN frozen} \cup wrapped \cup logBlobs
          \cup rolled \cup taken

Logged(r) == In(r, log) \/ \E l \in Closed : In(r, l)

\* Freezing, storing and moving logs leaves each record in one log, once.
LoggedOnce ==
  /\ \A r \in Child : ~(In(r, log) /\ \E l \in Closed : In(r, l))
  /\ \A l, m \in Closed : l # m => \A r \in Child : ~(In(r, l) /\ In(r, m))
  /\ \A l \in Closed \cup {log} :
       \A i, j \in 1..Len(l) : l[i] = l[j] => i = j

\* answer_wrap(): "Move spool/bio4d.brr to spool/bio4d-<now>-seq.brr".  A name
\* made of the time and a number is new, so no freeze destroys a record.
LoggedKept == [][\A r \in Child : Logged(r) => Logged(r)']_vars

\* take(): "we can't take a blob that has not been rolled" - of what is in
\* spool/wrap, the blobs are stored ...
WrappedStored == wrapped \subseteq logBlobs

\* ... unless it is the empty log, which had a digest before it was wrapped.
RecordsStored == wrapped \ {<<>>} \subseteq logBlobs

\* README, roll: "subsequent wrap/rolls will never see these blob sets again".
\* A log that was rolled does not come back to spool/wrap ...
RolledStaysRolled == rolled \cap wrapped = {}

\* ... when it holds a record.
RecordsStayRolled == rolled \cap wrapped \subseteq {<<>>}

WrapOk(c) == verb[c] = "wrap" /\ ans[c] = "ok"

\* README, wrap: "udig of the set of all blobs wrapped since the previous
\* roll".  The answer to a wrap has all that was in the answers to wraps that
\* were over before, less what was rolled.
WrapsAccumulate ==
  \A c, d \in Child :
    WrapOk(c) /\ WrapOk(d) /\ d \in before[c] => set[d] \subseteq set[c] \cup rolled

\* "freeze current unwrapped blob traffic log": the records sent before a wrap
\* was asked are in no later log when it is answered.
WrapFreezes ==
  \A c \in Child : WrapOk(c) =>
    \A d \in before[c] : ~In(d, log) /\ ~In(Rec(d), pipe)

\* "the wrapped <udig>, returned to the client, will be in the next wrap": the
\* logger freezes no log between the answer to a wrap and its record.
WrapInNextLog ==
  [][answer_wrap => \A c \in Child : WrapOk(c) => Logged(c)]_vars

\* Every request is answered and its record sent, waiting for the logger and
\* for other wraps and rolls included.
RequestsEnd == \A c \in Child : pc[c] = "request" ~> ~Alive(c)

\* README: "for each correct client request a single traffic record describing
\* the request is written to the file" spool/bio4d.brr.
RecordsLogged == \A c \in Child : pc[c] = "sent" ~> Logged(c)

=============================================================================
