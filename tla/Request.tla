-------------------------------- MODULE Request --------------------------------
(***************************************************************************)
(* The life of one request in bio4d: the master accepts a connection and   *)
(* forks a child, the child scans the request, talks to its client with    *)
(* timed reads and writes, packs what happened into the bits of its exit   *)
(* status, sends a blob request record and exits; the master reaps it and  *)
(* counts.                                                                 *)
(*                                                                         *)
(* Blobs are left out: whether a store finds or accepts one is a choice.   *)
(***************************************************************************)
EXTENDS Naturals, Sequences, FiniteSets

CONSTANTS
  Child,          \* process slots of request children
  MaxAccept,      \* bound on the connections accepted
  Kills,          \* children may get SIGTERM or SIGKILL
  Faults,         \* a digest module may panic
  ForkFails,      \* fork() may fail
  PartialWrites   \* SIGALRM may interrupt a write after some bytes went out

ASSUME RequestAssumption ==
  /\ IsFiniteSet(Child)
  /\ MaxAccept \in Nat
  /\ {Kills, Faults, ForkFails, PartialWrites} \subseteq BOOLEAN

VARIABLES
  pc,       \* pc[c]: "idle", "scan", "step", "write", "end", "exited"
  client,   \* client[c]: "here", "stalled" or "gone"
  verb,     \* verb[c]: the verb bits, "cat" until a verb is scanned
  at,       \* at[c]: the step of the verb's script c is in
  say,      \* say[c]: what c is writing
  timer,    \* timer[c]: the interval timer runs
  late,     \* late[c]: a read or write timed out (history)
  class,    \* class[c]: the class bits of the exit status
  chat,     \* chat[c]: the chat history
  no,       \* no[c]: the chat bits: which answer was "no", 0 for none
  brr,      \* brr[c]: the record was sent
  sig,      \* sig[c]: the signal that ended c, "none" for none
  asked,    \* asked[c]: the verb the client sent, "none" before (history)
  told,     \* told[c]: an answer was written to the client (history)
  fed,      \* fed[c]: the parity of the chunks of a blob c has read (history)
  accept_count,
  unforked, \* connections accepted and dropped, as fork() failed (history)
  count,    \* count[k]: the reaped requests of class k, or ended by a signal
  verbs     \* verbs[v]: the reaped requests with verb bits v

io     == <<client, say, timer, late>>
status == <<verb, class, no>>
record == <<chat, brr, sig, asked, told, fed>>
counts == <<accept_count, unforked, count, verbs>>
vars == <<pc, at, io, status, record, counts>>

Verb  == {"cat", "get", "put", "give", "take", "eat", "wrap", "roll"}
Class == {"success", "error", "timeout", "fault"}

\* What each verb does with its client.  answer: write ok or no, where no ends
\* the request; send, recv: the bytes of a blob; reply: read ok or no.
Script == [
  cat  |-> <<"no">>,
  get  |-> <<"answer", "send">>,
  put  |-> <<"ok", "recv", "answer">>,
  give |-> <<"ok", "recv", "answer", "reply">>,
  take |-> <<"answer", "send", "reply", "ok">>,
  eat  |-> <<"answer">>,
  wrap |-> <<"ok", "send">>,
  roll |-> <<"answer">>]

Step(c) == Script[verb[c]][at[c]]
Alive(c) == pc[c] \notin {"idle", "exited"}

-----------------------------------------------------------------------------
(* The client.                                                               *)

client_stalls(c) ==
  /\ Alive(c) /\ client[c] = "here"
  /\ client' = [client EXCEPT ![c] = "stalled"]
  /\ UNCHANGED <<pc, at, say, timer, late, status, record, counts>>

client_resumes(c) ==
  /\ Alive(c) /\ client[c] = "stalled"
  /\ client' = [client EXCEPT ![c] = "here"]
  /\ UNCHANGED <<pc, at, say, timer, late, status, record, counts>>

client_leaves(c) ==
  /\ Alive(c) /\ client[c] # "gone"
  /\ client' = [client EXCEPT ![c] = "gone"]
  /\ UNCHANGED <<pc, at, say, timer, late, status, record, counts>>

-----------------------------------------------------------------------------
(* The child.                                                                *)

To(c, p) == pc' = [pc EXCEPT ![c] = p]
SetExit(c, k) == class' = [class EXCEPT ![c] = k] /\ UNCHANGED <<verb, no>>
Late(c) == late' = [late EXCEPT ![c] = TRUE] /\ UNCHANGED <<client, say, timer>>

Tell(c, t) == told' = [told EXCEPT ![c] = t]

\* leave(): exit without a record, the client told something or not.
Exit(c, k, t) ==
  /\ To(c, "exited") /\ SetExit(c, k) /\ Tell(c, t)
  /\ UNCHANGED <<at, chat, brr, sig, asked, fed, counts>>

\* The request read is good: the verb goes to the exit status.
request(c, v) ==
  /\ pc[c] = "scan" /\ client[c] = "here"
  /\ To(c, "step")
  /\ verb' = [verb EXCEPT ![c] = v]
  /\ asked' = [asked EXCEPT ![c] = v]
  /\ UNCHANGED <<at, io, class, no, chat, brr, sig, told, fed, counts>>

\* It is not; or the client reset the connection or closed it at once: die_NO()
\* writes a "no" that no chat history holds.  Nothing is told when that write
\* fails, or after a carriage return that no new line follows.
request_no(c) ==
  /\ pc[c] = "scan" /\ client[c] # "stalled"
  /\ \E t \in BOOLEAN : Exit(c, "error", t)
  /\ UNCHANGED io

\* It names an algorithm that no digest module has: panic.
request_unknown(c) ==
  /\ pc[c] = "scan" /\ client[c] = "here"
  /\ Exit(c, "fault", told[c]) /\ UNCHANGED io

\* It ends in the middle: error("incomplete read from client"), and error()
\* sets the class.
request_incomplete(c) ==
  /\ pc[c] = "scan" /\ client[c] = "gone"
  /\ Exit(c, "error", FALSE) /\ UNCHANGED io

\* Mutant: the timer does not run while the request is read.
request_timeout_unset(c) ==
  /\ pc[c] = "scan" /\ client[c] = "stalled" /\ timer[c]
  /\ Exit(c, "timeout", TRUE) /\ Late(c)

\* The read times out: die_NO() here, too.
request_timeout(c) ==
  /\ pc[c] = "scan" /\ client[c] = "stalled"
  /\ Exit(c, "timeout", TRUE) /\ Late(c)

\* Mutant: on past the last step.
Onwards_past(c) ==
  IF at[c] > Len(Script[verb[c]])
  THEN To(c, "end") /\ UNCHANGED at
  ELSE To(c, "step") /\ at' = [at EXCEPT ![c] = @ + 1]

\* Go on to the next step of the script.
Onwards(c) ==
  IF at[c] = Len(Script[verb[c]])
  THEN To(c, "end") /\ UNCHANGED at
  ELSE To(c, "step") /\ at' = [at EXCEPT ![c] = @ + 1]

\* req_write() arms the timer and calls write().
Write(c, w) ==
  /\ To(c, "write")
  /\ say' = [say EXCEPT ![c] = w]
  /\ timer' = [timer EXCEPT ![c] = TRUE]
  /\ UNCHANGED <<at, client, late, record, counts>>

write_ok(c) ==
  /\ pc[c] = "step" /\ Step(c) \in {"ok", "answer"}
  /\ Write(c, "ok") /\ UNCHANGED status

\* take() of a wrapped blob, and roll() of what is not a set of udigs, log an
\* error before they refuse.
write_no(c) ==
  /\ pc[c] = "step" /\ Step(c) \in {"no", "answer"}
  /\ Write(c, "no")
  /\ \/ UNCHANGED status
     \/ verb[c] \in {"take", "roll"} /\ SetExit(c, "error")

\* Mutant: a get whose bytes fail is closed with a "no".
blob_write_no(c) ==
  /\ pc[c] = "step" /\ Step(c) = "send" /\ UNCHANGED status
  /\ Write(c, "bytes") \/ Write(c, "no")

blob_write(c) ==
  /\ pc[c] = "step" /\ Step(c) = "send"
  /\ Write(c, "bytes") /\ UNCHANGED status

\* The blob is empty: nothing to write.
blob_empty(c) ==
  /\ pc[c] = "step" /\ Step(c) = "send" /\ verb[c] # "wrap"
  /\ Onwards(c)
  /\ UNCHANGED <<io, status, record, counts>>

\* write() may wait for the client: the bytes of a blob have been written
\* before, and the buffer of the socket may be full.
Blocks(c) == client[c] = "stalled" /\ verb[c] \in {"get", "take"} /\ at[c] > 1

Said(c) == IF say[c] = "bytes" THEN UNCHANGED <<chat, told>>
           ELSE chat' = [chat EXCEPT ![c] = Append(@, say[c])] /\ Tell(c, TRUE)

Written(c) ==
  /\ pc[c] = "write"
  /\ timer' = [timer EXCEPT ![c] = FALSE]
  /\ Said(c)
  /\ IF say[c] = "no" THEN To(c, "end") /\ UNCHANGED at ELSE Onwards(c)
  /\ UNCHANGED <<client, say, late, status, brr, sig, asked, fed, counts>>

req_write(c) == ~Blocks(c) /\ Written(c)

\* What is written fits the buffer.
req_write_buffered(c) == Blocks(c) /\ Written(c)

req_write_error(c) ==
  /\ pc[c] = "write" /\ client[c] = "gone"
  /\ timer' = [timer EXCEPT ![c] = FALSE]
  /\ SetExit(c, "error") /\ To(c, "end")
  /\ UNCHANGED <<at, client, say, late, record, counts>>

\* write() is interrupted by the alarm before any byte went out.
req_write_timeout(c) ==
  /\ pc[c] = "write" /\ Blocks(c) /\ timer[c]
  /\ timer' = [timer EXCEPT ![c] = FALSE]
  /\ late' = [late EXCEPT ![c] = TRUE]
  /\ SetExit(c, "timeout") /\ To(c, "end")
  /\ UNCHANGED <<at, client, say, record, counts>>

\* It is interrupted after some did: net_write() writes the others with a
\* timer value that was set to zero to stop the timer.
net_write_again(c) ==
  /\ PartialWrites
  /\ pc[c] = "write" /\ Blocks(c) /\ timer[c] /\ say[c] = "bytes"
  /\ timer' = [timer EXCEPT ![c] = FALSE]
  /\ UNCHANGED <<pc, at, client, say, late, status, record, counts>>

\* A chunk of a put or give that is not the last: the digest differs still, and
\* the next read has a timer of its own.
eat_chunk(c) ==
  /\ pc[c] = "step" /\ Step(c) = "recv" /\ client[c] = "here"
  /\ fed' = [fed EXCEPT ![c] = ~@]
  /\ UNCHANGED <<pc, at, io, status, chat, brr, sig, asked, told, counts>>

\* The bytes that complete a put or give.  When they fail the client is told
\* "no".
blob_read(c) ==
  /\ pc[c] = "step" /\ Step(c) = "recv" /\ client[c] = "here"
  /\ Onwards(c)
  /\ UNCHANGED <<io, status, record, counts>>

blob_read_failed(c) ==
  /\ pc[c] = "step" /\ Step(c) = "recv" /\ client[c] # "here"
  /\ \/ client[c] = "stalled" /\ SetExit(c, "timeout")
        /\ late' = [late EXCEPT ![c] = TRUE]
     \/ client[c] = "gone" /\ SetExit(c, "error") /\ UNCHANGED late
  /\ To(c, "write")
  /\ say' = [say EXCEPT ![c] = "no"]
  /\ timer' = [timer EXCEPT ![c] = TRUE]
  /\ UNCHANGED <<at, client, record, counts>>

Reads(c, w) ==
  /\ pc[c] = "step" /\ Step(c) = "reply" /\ client[c] = "here"
  /\ chat' = [chat EXCEPT ![c] = Append(@, w)]
  /\ UNCHANGED <<io, status, brr, sig, asked, told, fed, counts>>

\* Mutant: a take goes on after the client's "no".
read_reply_on(c) == \E w \in {"ok", "no"} : Reads(c, w) /\ Onwards(c)

\* The client's reply; "no" ends a take.
read_reply(c) ==
  \/ Reads(c, "ok") /\ Onwards(c)
  \/ Reads(c, "no") /\ To(c, "end") /\ UNCHANGED at

\* Junk, an end, an error or a timeout: an error, all of them.
read_reply_error(c) ==
  /\ pc[c] = "step" /\ Step(c) = "reply"
  /\ IF client[c] = "stalled" THEN Late(c) ELSE UNCHANGED io
  /\ SetExit(c, "error") /\ To(c, "end")
  /\ UNCHANGED <<at, record, counts>>

Finish(c) ==
  /\ To(c, "exited")
  /\ brr' = [brr EXCEPT ![c] = TRUE]
  /\ UNCHANGED <<at, io, verb, class, chat, sig, asked, told, fed, counts>>

\* Mutant: an empty chat history is let through.
request_done_any(c) == /\ pc[c] = "end"
                       /\ Finish(c) /\ UNCHANGED no

\* The end of request(): the chat bits from the chat history - its third
\* answer is looked for one character too early - and the record.
request_done(c) ==
  /\ pc[c] = "end" /\ chat[c] # <<>>
  /\ LET n == Len(chat[c]) IN
       no' = [no EXCEPT ![c] = IF n < 3 /\ chat[c][n] = "no" THEN n ELSE 0]
  /\ Finish(c)

\* No answer was written: panic.
request_silent(c) ==
  /\ pc[c] = "end" /\ chat[c] = <<>>
  /\ Exit(c, "fault", told[c]) /\ UNCHANGED io

\* A digest module panics.
module_panic(c) ==
  /\ Faults /\ pc[c] = "step"
  /\ Exit(c, "fault", told[c]) /\ UNCHANGED io

\* catch_terminate(): exit(1), whatever the exit status held.
catch_terminate(c) ==
  /\ Kills /\ Alive(c)
  /\ To(c, "exited")
  /\ class' = [class EXCEPT ![c] = "error"]
  /\ verb' = [verb EXCEPT ![c] = "cat"] /\ no' = [no EXCEPT ![c] = 0]
  /\ sig' = [sig EXCEPT ![c] = "TERM"]
  /\ UNCHANGED <<at, io, chat, brr, asked, told, fed, counts>>

kill_child(c) ==
  /\ Kills /\ Alive(c)
  /\ To(c, "exited")
  /\ sig' = [sig EXCEPT ![c] = "KILL"]
  /\ UNCHANGED <<at, io, status, chat, brr, asked, told, fed, counts>>

-----------------------------------------------------------------------------
(* The master.                                                               *)

fork_accept(c) ==
  /\ pc[c] = "idle" /\ accept_count < MaxAccept
  /\ accept_count' = accept_count + 1
  /\ pc' = [pc EXCEPT ![c] = "scan"]
  /\ client' = [client EXCEPT ![c] = "here"]
  /\ UNCHANGED <<at, say, timer, late, status, record, unforked, count, verbs>>

\* A fork() that fails is taken for the parent's return.
fork_failed ==
  /\ ForkFails /\ accept_count < MaxAccept
  /\ accept_count' = accept_count + 1
  /\ unforked' = unforked + 1
  /\ UNCHANGED <<pc, at, io, status, record, count, verbs>>

\* Count the child and forget it: the next one in its slot starts afresh.
Reap(c, ks) ==
  /\ pc[c] = "exited" /\ To(c, "idle")
  /\ count' = [k \in DOMAIN count |-> IF k \in ks THEN count[k] + 1 ELSE count[k]]
  /\ verbs' = IF sig[c] = "KILL" THEN verbs
              ELSE [verbs EXCEPT ![verb[c]] = @ + 1]
  /\ client' = [client EXCEPT ![c] = "gone"]
  /\ verb' = [verb EXCEPT ![c] = "cat"] /\ at' = [at EXCEPT ![c] = 1]
  /\ say' = [say EXCEPT ![c] = "none"] /\ timer' = [timer EXCEPT ![c] = FALSE]
  /\ late' = [late EXCEPT ![c] = FALSE]
  /\ class' = [class EXCEPT ![c] = "success"]
  /\ chat' = [chat EXCEPT ![c] = <<>>] /\ no' = [no EXCEPT ![c] = 0]
  /\ brr' = [brr EXCEPT ![c] = FALSE] /\ sig' = [sig EXCEPT ![c] = "none"]
  /\ asked' = [asked EXCEPT ![c] = "none"]
  /\ Tell(c, FALSE) /\ fed' = [fed EXCEPT ![c] = FALSE]
  /\ UNCHANGED <<accept_count, unforked>>

\* Mutant: a killed child is counted in its class, too.
reap_request_both(c) ==
  Reap(c, IF sig[c] = "KILL" THEN {"signal", class[c]} ELSE {class[c]})

reap_request(c) ==
  Reap(c, IF sig[c] = "KILL" THEN {"signal"} ELSE {class[c]})

-----------------------------------------------------------------------------

Init ==
  /\ pc = [c \in Child |-> "idle"]
  /\ client = [c \in Child |-> "gone"]
  /\ verb = [c \in Child |-> "cat"]
  /\ at = [c \in Child |-> 1]
  /\ say = [c \in Child |-> "none"]
  /\ timer = [c \in Child |-> FALSE]
  /\ late = [c \in Child |-> FALSE]
  /\ class = [c \in Child |-> "success"]
  /\ chat = [c \in Child |-> <<>>]
  /\ no = [c \in Child |-> 0]
  /\ brr = [c \in Child |-> FALSE]
  /\ sig = [c \in Child |-> "none"]
  /\ asked = [c \in Child |-> "none"]
  /\ told = [c \in Child |-> FALSE] /\ fed = [c \in Child |-> FALSE]
  /\ accept_count = 0 /\ unforked = 0
  /\ count = [k \in Class \cup {"signal"} |-> 0]
  /\ verbs = [v \in Verb |-> 0]

\* What a child does by itself, with its client or without.
ChildStep(c) ==
  \/ \E v \in Verb : request(c, v)
  \/ request_no(c) \/ request_unknown(c) \/ request_incomplete(c)
  \/ request_timeout(c) \/ write_ok(c) \/ write_no(c) \/ blob_write(c)
  \/ blob_empty(c) \/ req_write(c)
  \/ req_write_error(c) \/ req_write_timeout(c) \/ net_write_again(c)
  \/ eat_chunk(c) \/ blob_read(c) \/ blob_read_failed(c) \/ read_reply(c)
  \/ read_reply_error(c) \/ request_done(c) \/ request_silent(c)
  \/ module_panic(c)

Next ==
  \/ \E c \in Child :
       \/ ChildStep(c) \/ req_write_buffered(c)
       \/ client_stalls(c) \/ client_resumes(c) \/ client_leaves(c)
       \/ catch_terminate(c) \/ kill_child(c) \/ fork_accept(c)
       \/ reap_request(c)
  \/ fork_failed

Spec == Init /\ [][Next]_vars

\* Children run, with the alarms of their timers, and are reaped.
Fairness == \A c \in Child : WF_vars(ChildStep(c)) /\ WF_vars(reap_request(c))

FairSpec == Spec /\ Fairness

-----------------------------------------------------------------------------
(* Properties.                                                               *)

\* The values each variable takes.
TypeOK ==
  /\ pc \in [Child -> {"idle", "scan", "step", "write", "end", "exited"}]
  /\ client \in [Child -> {"here", "stalled", "gone"}]
  /\ verb \in [Child -> Verb]
  /\ \A c \in Child : at[c] \in DOMAIN Script[verb[c]] \/ pc[c] = "exited"
                      \/ pc[c] = "idle"
  /\ say \in [Child -> {"none", "ok", "no", "bytes"}]
  /\ timer \in [Child -> BOOLEAN] /\ late \in [Child -> BOOLEAN]
  /\ class \in [Child -> Class]
  /\ chat \in [Child -> Seq({"ok", "no"})]
  /\ no \in [Child -> 0..3]
  /\ brr \in [Child -> BOOLEAN]
  /\ sig \in [Child -> {"none", "TERM", "KILL"}]
  /\ asked \in [Child -> Verb \cup {"none"}]
  /\ told \in [Child -> BOOLEAN] /\ fed \in [Child -> BOOLEAN]
  /\ accept_count \in 0..MaxAccept /\ unforked \in 0..MaxAccept
  /\ count \in [Class \cup {"signal"} -> 0..MaxAccept]
  /\ verbs \in [Verb -> 0..MaxAccept]

Exited(c) == pc[c] = "exited"

\* README: chat history is ok(,ok){,2}, no, ok,no or ok,ok,no.
ChatGrammar ==
  \A c \in Child : /\ Len(chat[c]) <= 3
                   /\ \A i \in 1..Len(chat[c]) - 1 : chat[c][i] = "ok"

\* bump_no() has a counter for the "no" of each child that exits well: it
\* never panics the master.
NosHaveCounters ==
  \A c \in Child : Exited(c) /\ class[c] = "success" /\ sig[c] = "none" =>
    /\ no[c] = 2 => verb[c] \in {"put", "give", "take"}
    /\ no[c] = 3 => verb[c] \in {"give", "take"}

\* If nothing cut it short, a request leaves a record when and only when its
\* client asked for something and was told something: not for the "no" of
\* die_NO() to what is no request.
RecordIffAnswered ==
  \A c \in Child : Exited(c) /\ sig[c] = "none" /\ class[c] # "fault" =>
    (brr[c] <=> told[c] /\ asked[c] # "none")

\* "accept_count == success_count + error_count + timeout_count +
\* signal_count + fault_count", but for the children still to be reaped and
\* for the connections whose fork() failed, which nothing counts.
Balanced ==
  accept_count = count["success"] + count["error"] + count["timeout"]
                 + count["signal"] + count["fault"]
                 + Cardinality({c \in Child : pc[c] # "idle"}) + unforked

\* Waiting in a write() that goes on with no timer: see net_write_again.
Untimed(c) == pc[c] = "write" /\ ~timer[c] /\ Blocks(c)

\* The clients of c send chunk after chunk, none of them the last of a blob:
\* each read is timed, their number is not bounded.
KeepsSending(c) == []<>fed[c] /\ []<>~fed[c]

\* Timed reads and writes: whatever its client does but to send for ever, a
\* request ends, or its client has read a part of a blob and no more.
RequestsEnd ==
  \A c \in Child : KeepsSending(c) \/ (pc[c] = "scan" ~> ~Alive(c) \/ Untimed(c))

\* "Do a timed write() of an entire buffer.": there is no such wait.
WritesEnd ==
  \A c \in Child : KeepsSending(c) \/ (pc[c] = "scan" ~> ~Alive(c))

\* The comment on exit codes, "-11----- client chat ok,ok,no".
ThirdNoSeen ==
  \A c \in Child : Exited(c) /\ brr[c] /\ chat[c] = <<"ok", "ok", "no">> =>
    no[c] = 3

\* "hard time out - read()/write() timeout occured".
TimeoutsSeen ==
  \A c \in Child : Exited(c) /\ late[c] => class[c] = "timeout"

\* "Statistics for failed requests that generate blob request record": the
\* second "no" of a put is counted, which bump_no() does for successes.
PutNosCounted ==
  \A c \in Child : Exited(c) /\ brr[c] /\ verb[c] = "put" /\ no[c] = 2 =>
    class[c] = "success"

\* "client error - client error, no brr made".
ErrorHasNoRecord ==
  \A c \in Child : Exited(c) /\ class[c] = "error" => ~brr[c]

\* cat_count: "all "cat" requests".
CatsAreCats ==
  \A c \in Child : Exited(c) /\ verb[c] = "cat" /\ sig[c] # "KILL" =>
    asked[c] = "cat"

=============================================================================
