--------------------------- MODULE BlobStoreRefines ----------------------------
(* BlobStore implements BlobService, for any tree, blobs, children and verbs,  *)
(* with kills, crashes and restarts, on a disk that works (ReliableDisk).      *)
EXTENDS BlobStoreProofs

-----------------------------------------------------------------------------
(* The invariant.                                                            *)

\* What each handler of c has behind it.
Unanswered == {"request", "bytes", "send", "open", "read", "close", "stream",
               "trim", "answer"}

Handler(c) ==
  /\ pc[c] \in Unanswered => ans[c] = "none"
  /\ pc[c] \in {"request", "bytes", "send", "stream"} => ~landed[c]
  /\ pc[c] = "request" => seen[c] = "none"
  /\ pc[c] = "bytes" => verb[c] \in {"put", "give"}
  /\ pc[c] \in {"send", "open", "read", "close"} => verb[c] \in Stores
  /\ pc[c] = "stream" => verb[c] \in {"get", "take", "eat"} /\ seen[c] # "none"
  /\ pc[c] = "reply" /\ verb[c] = "take" =>
       ans[c] = "none" /\ ~landed[c] /\ seen[c] # "none"
  /\ pc[c] = "trim" => verb[c] = "take" /\ landed[c]
  /\ pc[c] = "answer" => verb[c] \in Stores \cup {"take"}
                         /\ (verb[c] = "take" => landed[c])

\* A rename in the pipe, or with the arborist and not yet done, is of the blob
\* that its child asks to store and has not told its client about.
Carried(c, d) ==
  verb[c] \in Stores /\ dig[c] = d /\ ans[c] = "none" /\ ~landed[c]

Underway ==
  /\ \A i \in 1..Len(queue) :
       queue[i].op # "T" => Carried(queue[i].child, queue[i].dig)
  /\ arb.pc \in {"open", "mkdir", "move"} => Carried(arb.msg.child, arb.msg.dig)

RInv == /\ TypeInv /\ TreeClosed /\ PathMade /\ RequestHeld
        /\ AnswerLanded /\ AckedPutLanded
        /\ NoCopy /\ (\A c \in Child : Handler(c)) /\ Underway

LEMMA ServiceMaps ==
  ASSUME RInv
  PROVE  Maps
BY MapTypes DEF RInv, TypeInv

LEMMA ServiceArb ==
  ASSUME RInv
  PROVE  /\ arb \in Arb /\ arb.msg \in Msg
         /\ arb.msg.child \in Child /\ arb.msg.dig \in Digest
BY Messages DEF RInv, TypeInv, Msg

-----------------------------------------------------------------------------
(* Handlers.                                                                 *)

\* A step of c is no step of another child's handler.
LEMMA HandlerFrame ==
  ASSUME NEW x \in Child, Handler(x),
         pc'[x] \in {pc[x], "idle", "dead"}, ans'[x] = ans[x],
         landed'[x] = landed[x], seen'[x] = seen[x], verb'[x] = verb[x]
  PROVE  Handler(x)'
BY DEF Handler, Unanswered

LEMMA HandlerChildStep ==
  ASSUME RInv, NEW c \in Child, ChildStep(c)
  PROVE  \A x \in Child : Handler(x)'
<1> USE DEF Goto, Bye, job, disk, ipc
<1>0. Maps /\ \A x \in Child : Handler(x)
  BY ServiceMaps DEF RInv
<1>1. ASSUME NEW x \in Child \ {c} PROVE Handler(x)'
  <2>1. /\ pc'[x] = pc[x] /\ ans'[x] = ans[x] /\ landed'[x] = landed[x]
        /\ seen'[x] = seen[x] /\ verb'[x] = verb[x]
    <3>1. CASE put_request(c) \/ put_bytes(c) \/ put_bytes_croak(c)
               \/ digest_local(c) \/ arbor_send(c) \/ arbor_send_panic(c)
               \/ arbor_reply(c) \/ put_cleanup(c)
      BY <1>0, <3>1 DEF put_request, put_bytes, put_bytes_croak, digest_local,
         arbor_send, arbor_send_panic, arbor_reply, put_cleanup, Maps
    <3>2. CASE write_ok(c) \/ get_request(c) \/ get_bytes(c)
               \/ get_bytes_zap(c) \/ take_reply(c) \/ arbor_trim(c) \/ hangup(c)
      BY <1>0, <3>2 DEF write_ok, get_request, get_bytes, get_bytes_zap,
         take_reply, arbor_trim, hangup, Maps
    <3> QED BY <3>1, <3>2 DEF ChildStep
  <2> QED BY <1>0, <2>1, HandlerFrame
<1>2. Handler(c)'
  <2> USE <1>0 DEF Handler, Unanswered, Maps
  <2>1. CASE put_request(c) \/ digest_local(c) \/ put_bytes(c) \/ put_bytes_croak(c)
    BY <2>1 DEF put_request, digest_local, put_bytes, put_bytes_croak, Stores
  <2>2. CASE arbor_send(c)
    BY <2>2 DEF arbor_send
  <2>3. CASE arbor_reply(c) \/ put_cleanup(c)
    BY <2>3 DEF arbor_reply, put_cleanup, Stores
  <2>4. CASE write_ok(c) \/ arbor_send_panic(c) \/ hangup(c)
    BY <2>4 DEF write_ok, arbor_send_panic, hangup
  <2>5. CASE get_request(c) \/ get_bytes(c) \/ get_bytes_zap(c)
    BY <2>5 DEF get_request, get_bytes, get_bytes_zap
  <2>6. CASE take_reply(c) \/ arbor_trim(c)
    BY <2>6 DEF take_reply, arbor_trim
  <2> QED BY <2>1, <2>2, <2>3, <2>4, <2>5, <2>6 DEF ChildStep
<1> QED BY <1>1, <1>2

\* The arborist takes a child past its open(), and its rename is history then.
LEMMA HandlerStep ==
  ASSUME RInv, [Next]_vars
  PROVE  \A x \in Child : Handler(x)'
<1> USE DEF job, disk, ipc
<1>0. /\ Maps /\ arb \in Arb /\ arb.msg.child \in Child
      /\ \A x \in Child : Handler(x)
  BY ServiceMaps, ServiceArb DEF RInv
<1>1. ASSUME NEW c \in Child, NEW v \in Verbs, NEW d \in Digest,
             fork_accept(c, v, d), NEW x \in Child
      PROVE  Handler(x)'
  BY <1>0, <1>1 DEF fork_accept, Maps, Handler, Unanswered
<1>2. ASSUME ArboristStep, NEW x \in Child PROVE Handler(x)'
  <2>1. ASSUME NEW c \in Child, arborist(c) PROVE Handler(x)'
    BY <1>0, <2>1, HandlerFrame DEF arborist
  <2>2. CASE arborist_eof \/ make_path \/ rename_fault \/ move_open
             \/ rename_chmod \/ rename_reply \/ trim_rmdir \/ trim_lstat
    <3>1. UNCHANGED <<pc, job, landed>>
      BY <2>2 DEF arborist_eof, make_path, rename_fault, move_open,
         rename_chmod, rename_reply, trim_rmdir, trim_lstat
    <3> QED BY <1>0, <3>1, HandlerFrame
  <2>3. CASE rename_open
    BY <1>0, <2>3 DEF rename_open, Maps, Handler, Unanswered
  <2>4. CASE rename_blob \/ move_copy
    <3>1. /\ landed' = [landed EXCEPT ![arb.msg.child] = TRUE]
          /\ UNCHANGED <<pc, job>>
          /\ pc[arb.msg.child] \in {"open", "read", "dead"}
      BY <1>0, <2>4 DEF rename_blob, move_copy, Renamed, ArbAt, RInv,
         RequestHeld, Renaming
    <3> QED BY <1>0, <3>1 DEF Handler, Unanswered, Maps
  <2> QED BY <1>2, <2>1, <2>2, <2>3, <2>4 DEF ArboristStep
<1>3. ASSUME NEW c \in Child, kill_child(c), NEW x \in Child PROVE Handler(x)'
  BY <1>0, <1>3, HandlerFrame DEF kill_child, Maps
<1>4. ASSUME crash, NEW x \in Child PROVE Handler(x)'
  BY <1>0, <1>4, HandlerFrame DEF crash, Maps
<1>5. ASSUME leave \/ leave_exit \/ arbor_open \/ UNCHANGED vars, NEW x \in Child
      PROVE  Handler(x)'
  <2>1. UNCHANGED <<pc, job, landed>>
    BY <1>5 DEF leave, leave_exit, arbor_open, vars
  <2> QED BY <1>0, <2>1, HandlerFrame
<1> QED BY <1>1, <1>2, <1>3, <1>4, <1>5, HandlerChildStep DEF Next

-----------------------------------------------------------------------------
(* Renames under way.                                                        *)

\* What happens to a child whose rename is not held is no matter to the others.
LEMMA UnderwayFrame ==
  ASSUME TypeOK, Underway, NEW c \in Child, ~Held(c),
         UNCHANGED <<queue, arb>>,
         \A x \in Child \ {c} : /\ verb'[x] = verb[x] /\ dig'[x] = dig[x]
                                /\ ans'[x] = ans[x] /\ landed'[x] = landed[x]
  PROVE  Underway'
BY Messages DEF Underway, Carried, Held, Renaming

LEMMA UnderwaySent ==
  ASSUME TypeOK, Underway, NEW m \in Msg, queue' = Append(queue, m),
         UNCHANGED <<verb, dig, ans, landed, arb>>,
         m.op # "T" => Carried(m.child, m.dig)
  PROVE  Underway'
<1>1. queue \in Seq(Msg) /\ Len(queue) \in Nat
  BY Messages
<1>2. /\ Len(queue') = Len(queue) + 1
      /\ \A i \in 1..Len(queue) : queue'[i] = queue[i]
      /\ queue'[Len(queue) + 1] = m
  BY <1>1, AppendProperties
<1>3. ASSUME NEW i \in 1..Len(queue'), queue'[i].op # "T"
      PROVE  Carried(queue'[i].child, queue'[i].dig)
  <2>1. CASE i = Len(queue) + 1
    BY <1>2, <1>3, <2>1
  <2>2. CASE i \in 1..Len(queue)
    BY <1>2, <1>3, <2>2 DEF Underway
  <2> QED BY <1>1, <1>2, <2>1, <2>2
<1> QED BY <1>3 DEF Underway, Carried

LEMMA UnderwayChildStep ==
  ASSUME RInv, NEW c \in Child, ChildStep(c)
  PROVE  Underway'
<1> USE DEF Goto, Bye, job, disk, ipc
<1>0. /\ Maps /\ TypeOK /\ Underway /\ Handler(c) /\ RequestHeld
  BY ServiceMaps DEF RInv, TypeInv
<1>1. CASE put_request(c) \/ put_bytes(c) \/ digest_local(c)
           \/ put_cleanup(c) \/ arbor_send_panic(c) \/ get_bytes_zap(c)
           \/ arbor_reply(c) \/ hangup(c)
  <2>1. UNCHANGED <<queue, arb, verb, dig, ans, landed>>
    BY <1>1 DEF put_request, put_bytes, digest_local, put_cleanup,
       arbor_send_panic, get_bytes_zap, arbor_reply, hangup
  <2> QED BY <1>0, <2>1 DEF Underway, Carried
<1>2. CASE put_bytes_croak(c) \/ write_ok(c) \/ get_request(c) \/ get_bytes(c)
           \/ take_reply(c)
  <2>1. /\ pc[c] \in {"bytes", "answer", "request", "stream", "reply"}
        /\ UNCHANGED <<queue, arb>>
        /\ \A x \in Child \ {c} : /\ verb'[x] = verb[x] /\ dig'[x] = dig[x]
                                  /\ ans'[x] = ans[x] /\ landed'[x] = landed[x]
    BY <1>0, <1>2 DEF put_bytes_croak, write_ok, get_request, get_bytes,
       take_reply, Maps
  <2>2. ~Held(c)
    BY <1>0, <2>1, NotHeld
  <2> QED BY <1>0, <2>1, <2>2, UnderwayFrame
<1>3. CASE arbor_send(c)
  <2> DEFINE m == [op |-> IF verb[c] = "digest" THEN "M" ELSE "R",
                   child |-> c, dig |-> dig[c]]
  <2>1. m \in Msg /\ m.child = c /\ m.dig = dig[c]
    BY <1>0 DEF Maps, Msg
  <2>2. /\ queue' = Append(queue, m) /\ pc[c] = "send"
        /\ UNCHANGED <<verb, dig, ans, landed, arb>>
    BY <1>3 DEF arbor_send
  <2>3. Carried(c, dig[c])
    BY <1>0, <2>2 DEF Handler, Unanswered, Carried
  <2> HIDE DEF m
  <2> QED BY <1>0, <2>1, <2>2, <2>3, UnderwaySent
<1>4. CASE arbor_trim(c)
  <2> DEFINE m == [op |-> "T", child |-> c, dig |-> dig[c]]
  <2>1. m \in Msg /\ m.op = "T"
    BY <1>0 DEF Maps, Msg
  <2>2. /\ queue' = queue \/ queue' = Append(queue, m)
        /\ UNCHANGED <<verb, dig, ans, landed, arb>>
    BY <1>4 DEF arbor_trim
  <2> HIDE DEF m
  <2>3. CASE queue' = queue
    BY <1>0, <2>2, <2>3 DEF Underway, Carried
  <2>4. CASE queue' = Append(queue, m)
    BY <1>0, <2>1, <2>2, <2>4, UnderwaySent
  <2> QED BY <2>2, <2>3, <2>4
<1> QED BY <1>1, <1>2, <1>3, <1>4 DEF ChildStep

LEMMA UnderwayStep ==
  ASSUME RInv, [Next]_vars
  PROVE  Underway'
<1> USE DEF job, disk, ipc
<1>0. /\ Maps /\ TypeOK /\ Underway /\ RequestHeld
      /\ arb \in Arb /\ arb.msg.child \in Child
      /\ queue \in Seq(Msg) /\ Len(queue) \in Nat
      /\ \A i \in 1..Len(queue) : queue[i] \in Msg /\ queue[i].child \in Child
  BY ServiceMaps, Messages DEF RInv, TypeInv
<1>1. ASSUME NEW c \in Child, NEW v \in Verbs, NEW d \in Digest,
             fork_accept(c, v, d)
      PROVE  Underway'
  <2>1. ~Held(c)
    BY <1>0, <1>1, NotHeld DEF fork_accept
  <2>2. /\ UNCHANGED <<queue, arb>>
        /\ \A x \in Child \ {c} : /\ verb'[x] = verb[x] /\ dig'[x] = dig[x]
                                  /\ ans'[x] = ans[x] /\ landed'[x] = landed[x]
    BY <1>0, <1>1 DEF fork_accept, Maps
  <2> QED BY <1>0, <2>1, <2>2, UnderwayFrame
<1>2. ASSUME NEW c \in Child, arborist(c) PROVE Underway'
  <2>1. /\ queue # <<>> /\ queue' = Tail(queue)
        /\ arb'.msg = Head(queue)
        /\ arb'.pc = IF Head(queue).op = "T" THEN "rmdir" ELSE "open"
        /\ UNCHANGED <<verb, dig, ans, landed>>
    BY <1>2 DEF arborist
  <2>2. /\ Len(queue') = Len(queue) - 1 /\ Head(queue) = queue[1]
        /\ \A i \in 1..Len(queue') : queue'[i] = queue[i + 1]
        /\ 1 \in 1..Len(queue)
    BY <1>0, <2>1, HeadTailProperties
  <2>3. ASSUME NEW i \in 1..Len(queue'), queue'[i].op # "T"
        PROVE  Carried(queue'[i].child, queue'[i].dig)
    <3>1. i + 1 \in 1..Len(queue) /\ queue'[i] = queue[i + 1]
      BY <1>0, <2>2
    <3> QED BY <1>0, <2>3, <3>1 DEF Underway
  <2>4. arb'.pc = "open" => Carried(arb'.msg.child, arb'.msg.dig)
    BY <1>0, <2>1, <2>2 DEF Underway
  <2> QED BY <2>1, <2>3, <2>4 DEF Underway, Carried
<1>3. CASE \/ arborist_eof \/ rename_open \/ make_path \/ rename_fault
           \/ move_open \/ rename_chmod \/ rename_reply \/ trim_rmdir \/ trim_lstat
  <2>1. /\ UNCHANGED <<queue, verb, dig, ans, landed>> /\ arb'.msg = arb.msg
        /\ arb'.pc \in {"open", "mkdir", "move"} => arb.pc \in {"open", "mkdir", "move"}
    BY <1>0, <1>3 DEF arborist_eof, rename_open, make_path, rename_fault,
       move_open, rename_chmod, rename_reply, trim_rmdir, trim_lstat, Fail,
       ArbAt, Arb
  <2> QED BY <1>0, <2>1 DEF Underway, Carried
<1>4. CASE rename_blob \/ move_copy
  <2>1. /\ arb.pc \in {"move", "copy"} /\ arb'.pc = "chmod"
        /\ landed' = [landed EXCEPT ![arb.msg.child] = TRUE]
        /\ UNCHANGED <<queue, verb, dig, ans>>
    BY <1>0, <1>4 DEF rename_blob, move_copy, Renamed, ArbAt, Arb
  <2>2. \A i \in 1..Len(queue) :
          queue[i].op # "T" => queue[i].child # arb.msg.child
    BY <1>0, <2>1 DEF RequestHeld, Renaming
  <2>3. \A x \in Child : x # arb.msg.child => landed'[x] = landed[x]
    BY <1>0, <2>1 DEF Maps
  <2> QED BY <1>0, <2>1, <2>2, <2>3 DEF Underway, Carried
<1>5. ASSUME NEW c \in Child, kill_child(c) PROVE Underway'
  BY <1>0, <1>5 DEF kill_child, Underway, Carried
<1>6. CASE leave \/ leave_exit \/ UNCHANGED vars
  <2>1. UNCHANGED <<queue, arb, verb, dig, ans, landed>>
    BY <1>6 DEF leave, leave_exit, vars
  <2> QED BY <1>0, <2>1 DEF Underway, Carried
<1>7. CASE crash \/ arbor_open
  <2>1. queue' = <<>> /\ arb'.pc \in {"exited", "idle"}
    BY <1>0, <1>7 DEF crash, arbor_open, Arb
  <2> QED BY <2>1 DEF Underway
<1> QED
  BY <1>1, <1>2, <1>3, <1>4, <1>5, <1>6, <1>7, UnderwayChildStep
  DEF Next, ArboristStep

-----------------------------------------------------------------------------
(* The invariant holds.                                                      *)

LEMMA RInvInit ==
  ASSUME Init
  PROVE  RInv
<1>1. /\ TypeInv /\ TreeClosed /\ PathMade /\ RequestHeld /\ arb.pc = "idle"
  BY InitType, InitTree, InitRequest
<1>2. /\ reply = [c \in Child |-> "none"] /\ pc = [c \in Child |-> "idle"]
      /\ ans = [c \in Child |-> "none"] /\ seen = [c \in Child |-> "none"]
      /\ file = [d \in Digest |-> IF d \in Stocked THEN "sealed" ELSE "none"]
      /\ queue = <<>>
  BY DEF Init
<1>3. AnswerLanded /\ AckedPutLanded
  BY <1>1, <1>2 DEF AnswerLanded, AckedPutLanded
<1>4. NoCopy
  BY <1>1, <1>2 DEF NoCopy, ArbAt
<1>5. \A c \in Child : Handler(c)
  BY <1>2 DEF Handler, Unanswered
<1>6. Underway
  BY <1>1, <1>2 DEF Underway
<1> QED BY <1>1, <1>3, <1>4, <1>5, <1>6 DEF RInv

LEMMA RInvStep ==
  ASSUME ReliableDisk, RInv, [Next]_vars
  PROVE  RInv'
<1>1. /\ TypeInv /\ TreeClosed /\ PathMade /\ RequestHeld
      /\ AnswerLanded /\ AckedPutLanded
  BY DEF RInv
<1>2. /\ TypeInv' /\ TreeClosed' /\ PathMade' /\ RequestHeld'
      /\ AnswerLanded' /\ AckedPutLanded'
  BY <1>1, StepType, TreeStep, RequestStep, AnswerStep
<1>3. NoCopy' /\ (\A c \in Child : Handler(c)') /\ Underway'
  BY NoCopyStep, HandlerStep, UnderwayStep DEF RInv, TypeInv
<1> QED BY <1>2, <1>3 DEF RInv

-----------------------------------------------------------------------------
(* The mapping.                                                              *)

\* What the service sees of the store: the blobs, whether a child has found
\* its blob, and how its request stands.
Stored == {d \in Digest : file[d] # "none"}
Found  == [c \in Child |-> seen[c] # "none"]
Status == [c \in Child |-> IF ans[c] # "none" THEN ans[c]
                           ELSE IF Alive(c) THEN "asked" ELSE "gone"]

\* A step in which no child starts or answers is that of some clients leaving.
LEMMA SimLeave ==
  ASSUME Maps,
         UNCHANGED <<verb, dig, ans, seen, landed>>,
         \A d \in Digest : file'[d] = "none" <=> file[d] = "none",
         \A x \in Child : ~Alive(x) => ~Alive(x)'
  PROVE  Service!Next
<1>1. PICK S \in SUBSET Child : S = {x \in Child : Alive(x) /\ ~Alive(x)'}
  OBVIOUS
<1>2. Stored' = Stored /\ Found' = Found
  BY DEF Stored, Found
<1>3. Status' = [c \in Child |-> IF c \in S /\ Status[c] = "asked" THEN "gone"
                                ELSE Status[c]]
  BY <1>1 DEF Status, Maps
<1>4. Service!Leave(S)
  BY <1>2, <1>3 DEF Service!Leave, Stored, Found, Status
<1> QED BY <1>4 DEF Service!Next

\* Child c answers.
LEMMA SimSay ==
  ASSUME Maps, NEW c \in Child, NEW a \in {"ok", "no"},
         UNCHANGED <<verb, dig, seen, landed, file>>,
         ans[c] = "none", Alive(c), ans' = [ans EXCEPT ![c] = a],
         \A x \in Child \ {c} : pc'[x] = pc[x],
         a = "ok" => \/ verb[c] \in Stores \cup {"take"} /\ landed[c]
                     \/ verb[c] \in {"get", "eat"} /\ seen[c] # "none"
                     \/ verb[c] = "get" /\ dig[c] = Empty,
         a = "no" => \/ verb[c] \in Stores /\ ~landed[c]
                     \/ /\ verb[c] \in {"get", "take", "eat"}
                        /\ file[dig[c]] = "none" /\ seen[c] = "none"
  PROVE  Service!Next
<1>1. Stored' = Stored /\ Found' = Found /\ Status[c] = "asked"
  BY DEF Stored, Found, Status
<1>2. Status' = [Status EXCEPT ![c] = a]
  BY DEF Status, Maps, Alive
<1>3. CASE a = "ok"
  <2>1. Service!SayOk(c)
    BY <1>1, <1>2, <1>3 DEF Service!SayOk, Service!Stores, Stores, Stored,
       Found, Status
  <2> QED BY <2>1 DEF Service!Next
<1>4. CASE a = "no"
  <2>1. Service!SayNo(c)
    BY <1>1, <1>2, <1>4 DEF Service!SayNo, Service!Stores, Service!Fetches,
       Stores, Stored, Found, Status
  <2> QED BY <2>1 DEF Service!Next
<1> QED BY <1>3, <1>4

-----------------------------------------------------------------------------
(* The steps.                                                                *)

\* A new request is asked.
LEMMA SimAsk ==
  ASSUME Maps, NEW c \in Child, NEW v \in Verbs, NEW d \in Digest,
         fork_accept(c, v, d)
  PROVE  Service!Next
<1>1. /\ verb' = [verb EXCEPT ![c] = v] /\ dig' = [dig EXCEPT ![c] = d]
      /\ landed' = [landed EXCEPT ![c] = FALSE]
      /\ pc' = [pc EXCEPT ![c] = "request"] /\ ans' = [ans EXCEPT ![c] = "none"]
      /\ seen' = [seen EXCEPT ![c] = "none"] /\ file' = file
      /\ ~Alive(c)
  BY DEF fork_accept, disk, Alive
<1>2. Stored' = Stored
  BY <1>1 DEF Stored
<1>3. Found' = [Found EXCEPT ![c] = FALSE]
  BY <1>1 DEF Found, Maps
<1>4. Status[c] # "asked" /\ Status' = [Status EXCEPT ![c] = "asked"]
  BY <1>1 DEF Status, Alive, Maps
<1>5. Service!Ask(c, v, d)
  BY <1>1, <1>2, <1>3, <1>4 DEF Service!Ask, Stored, Found, Status
<1>6. v \in Service!Stores \cup Service!Fetches
  BY ConfigAssumption DEF AllVerbs, Service!Stores, Service!Fetches
<1> QED BY <1>5, <1>6 DEF Service!Next

\* A get, take or eat finds its blob.
LEMMA SimFind ==
  ASSUME Maps, NEW c \in Child, Handler(c), pc[c] = "request",
         verb[c] \in {"get", "take", "eat"}, file[dig[c]] # "none",
         pc' = [pc EXCEPT ![c] = "stream"],
         seen' = [seen EXCEPT ![c] = file[dig[c]]],
         UNCHANGED <<verb, dig, ans, landed, file>>
  PROVE  Service!Next
<1>1. Stored' = Stored /\ dig[c] \in Stored
  BY DEF Stored, Maps
<1>2. ~Found[c] /\ Found' = [Found EXCEPT ![c] = TRUE]
  BY DEF Found, Maps, Handler
<1>3. Status[c] = "asked" /\ Status' = Status
  BY DEF Status, Alive, Maps, Handler, Unanswered
<1>4. Service!Find(c)
  BY <1>1, <1>2, <1>3 DEF Service!Find, Service!Fetches, Stored, Found, Status
<1> QED BY <1>4 DEF Service!Next

\* A take removes it.
LEMMA SimRemove ==
  ASSUME Maps, NEW c \in Child, Handler(c), take_reply(c)
  PROVE  Service!Next
<1>1. /\ pc[c] = "reply" /\ pc' = [pc EXCEPT ![c] = "trim"] /\ verb[c] = "take"
      /\ ans[c] = "none" /\ ~landed[c] /\ seen[c] # "none"
      /\ file' = [file EXCEPT ![dig[c]] = "none"]
      /\ landed' = [landed EXCEPT ![c] = TRUE]
      /\ UNCHANGED <<verb, dig, ans, seen>>
  BY DEF take_reply, Goto, job, Handler
<1>2. Stored' = Stored \ {dig[c]}
  BY <1>1 DEF Stored, Maps
<1>3. Found' = Found /\ Found[c]
  BY <1>1 DEF Found
<1>4. Status[c] = "asked" /\ Status' = Status
  BY <1>1 DEF Status, Alive, Maps
<1>5. Service!Remove(c)
  BY <1>1, <1>2, <1>3, <1>4 DEF Service!Remove, Stored, Found, Status
<1> QED BY <1>5 DEF Service!Next

\* The arborist stores a blob.
LEMMA SimStore ==
  ASSUME RInv, rename_blob
  PROVE  Service!Next
<1>0. PICK c \in Child : c = arb.msg.child
  BY ServiceArb
<1>1. /\ Carried(c, arb.msg.dig)
      /\ file' = [file EXCEPT ![arb.msg.dig] = "sealed"]
      /\ landed' = [landed EXCEPT ![c] = TRUE]
      /\ UNCHANGED <<pc, verb, dig, ans, seen>>
  BY <1>0 DEF rename_blob, Renamed, job, RInv, Underway, ArbAt
<1>2. Maps /\ dig[c] \in Digest
  BY <1>1, ServiceMaps DEF Maps
<1>3. Stored' = Stored \cup {dig[c]}
  BY <1>1, <1>2 DEF Stored, Maps, Carried
<1>4. Found' = Found
  BY <1>1 DEF Found
<1>5. Status[c] \in {"asked", "gone"} /\ Status' = Status
  BY <1>1 DEF Status, Alive, Carried
<1>6. verb[c] \in Service!Stores /\ ~landed[c]
  BY <1>1 DEF Carried, Stores, Service!Stores
<1>7. Service!Store(c)
  BY <1>1, <1>3, <1>4, <1>5, <1>6 DEF Service!Store, Stored, Found, Status
<1> QED BY <1>1, <1>7 DEF Service!Next

LEMMA SimChildStep ==
  ASSUME RInv, NEW c \in Child, ChildStep(c)
  PROVE  Service!Next
<1> USE DEF Goto, Bye, job, disk
<1>0. Maps /\ Handler(c) /\ AnswerLanded /\ NoCopy
  BY ServiceMaps DEF RInv
<1>1. CASE put_request(c) \/ put_bytes(c) \/ digest_local(c) \/ arbor_send(c)
           \/ arbor_send_panic(c) \/ arbor_reply(c) \/ put_cleanup(c)
           \/ arbor_trim(c) \/ hangup(c)
  <2>1. /\ UNCHANGED <<verb, dig, ans, seen, landed, file>>
        /\ \A x \in Child : ~Alive(x) => ~Alive(x)'
    BY <1>0, <1>1 DEF put_request, put_bytes, digest_local, arbor_send,
       arbor_send_panic, arbor_reply, put_cleanup, arbor_trim, hangup, Alive,
       Maps
  <2> QED BY <1>0, <2>1, SimLeave
<1>2. CASE put_bytes_croak(c)
  <2>1. /\ UNCHANGED <<verb, dig, seen, landed, file>>
        /\ ans[c] = "none" /\ Alive(c) /\ ans' = [ans EXCEPT ![c] = "no"]
        /\ \A x \in Child \ {c} : pc'[x] = pc[x]
        /\ verb[c] \in Stores /\ ~landed[c]
    BY <1>0, <1>2 DEF put_bytes_croak, Handler, Unanswered, Alive, Stores, Maps
  <2> QED BY <1>0, <2>1, SimSay
<1>3. CASE write_ok(c)
  <2>1. /\ UNCHANGED <<verb, dig, seen, landed, file>>
        /\ ans[c] = "none" /\ Alive(c) /\ ans' = [ans EXCEPT ![c] = "ok"]
        /\ \A x \in Child \ {c} : pc'[x] = pc[x]
        /\ verb[c] \in Stores \cup {"take"} /\ landed[c]
    BY <1>0, <1>3 DEF write_ok, Handler, Unanswered, Alive, AnswerLanded, Maps
  <2> QED BY <1>0, <2>1, SimSay
<1>4. CASE get_request(c)
  <2>1. /\ UNCHANGED <<verb, dig, landed, file>>
        /\ ans[c] = "none" /\ Alive(c) /\ pc[c] = "request" /\ seen[c] = "none"
        /\ verb[c] \in {"get", "take", "eat"}
    BY <1>0, <1>4 DEF get_request, Handler, Unanswered, Alive
  <2>2. CASE verb[c] = "get" /\ dig[c] = Empty
    <3>1. /\ ans' = [ans EXCEPT ![c] = "ok"] /\ UNCHANGED seen
          /\ \A x \in Child \ {c} : pc'[x] = pc[x]
      BY <1>0, <1>4, <2>2 DEF get_request, Maps
    <3> QED BY <1>0, <2>1, <2>2, <3>1, SimSay
  <2>3. CASE ~(verb[c] = "get" /\ dig[c] = Empty) /\ file[dig[c]] = "none"
    <3>1. /\ ans' = [ans EXCEPT ![c] = "no"] /\ UNCHANGED seen
          /\ \A x \in Child \ {c} : pc'[x] = pc[x]
      BY <1>0, <1>4, <2>3 DEF get_request, Maps
    <3> QED BY <1>0, <2>1, <2>3, <3>1, SimSay
  <2>4. CASE ~(verb[c] = "get" /\ dig[c] = Empty) /\ file[dig[c]] # "none"
    <3>1. /\ pc' = [pc EXCEPT ![c] = "stream"] /\ UNCHANGED ans
          /\ seen' = [seen EXCEPT ![c] = file[dig[c]]]
      BY <1>4, <2>4 DEF get_request
    <3> QED BY <1>0, <2>1, <2>4, <3>1, SimFind
  <2> QED BY <2>2, <2>3, <2>4
<1>5. CASE get_bytes(c)
  <2>1. /\ UNCHANGED <<verb, dig, seen, landed, file>>
        /\ ans[c] = "none" /\ Alive(c) /\ seen[c] # "none"
        /\ verb[c] \in {"get", "take", "eat"}
        /\ \A x \in Child \ {c} : pc'[x] = pc[x]
    BY <1>0, <1>5 DEF get_bytes, Handler, Unanswered, Alive, Maps
  <2>2. CASE verb[c] = "take"
    <3>1. UNCHANGED ans /\ \A x \in Child : ~Alive(x) => ~Alive(x)'
      BY <1>0, <1>5, <2>1, <2>2 DEF get_bytes, Alive
    <3> QED BY <1>0, <2>1, <3>1, SimLeave
  <2>3. CASE verb[c] # "take"
    <3>1. ans' = [ans EXCEPT ![c] = "ok"]
      BY <1>5, <2>3 DEF get_bytes
    <3> QED BY <1>0, <2>1, <2>3, <3>1, SimSay
  <2> QED BY <2>2, <2>3
<1>6. CASE get_bytes_zap(c)
  BY <1>0, <1>6 DEF get_bytes_zap, NoCopy, Maps
<1>7. CASE take_reply(c)
  BY <1>0, <1>7, SimRemove
<1> QED BY <1>1, <1>2, <1>3, <1>4, <1>5, <1>6, <1>7 DEF ChildStep

LEMMA SimArboristStep ==
  ASSUME ReliableDisk, RInv, ArboristStep
  PROVE  Service!Next
<1> USE DEF job, disk
<1>0. Maps /\ NoCopy /\ arb.msg.dig \in Digest /\ arb.msg.child \in Child
  BY ServiceMaps, ServiceArb DEF RInv
<1>1. ASSUME NEW c \in Child, arborist(c) PROVE Service!Next
  BY <1>0, <1>1, SimLeave DEF arborist, Alive
<1>2. CASE arborist_eof \/ make_path \/ rename_fault \/ rename_reply
           \/ trim_rmdir \/ trim_lstat
  <2>1. UNCHANGED <<pc, verb, dig, ans, seen, landed, file>>
    BY <1>2 DEF arborist_eof, make_path, rename_fault, rename_reply,
       trim_rmdir, trim_lstat
  <2> QED BY <1>0, <2>1, SimLeave DEF Alive
<1>3. CASE rename_open
  BY <1>0, <1>3, SimLeave DEF rename_open, Alive, Maps
<1>4. CASE rename_blob
  BY <1>4, SimStore
<1>5. CASE rename_chmod
  <2>1. /\ UNCHANGED <<pc, verb, dig, ans, seen, landed>>
        /\ \A d \in Digest : file'[d] = "none" <=> file[d] = "none"
    BY <1>0, <1>5 DEF rename_chmod, Maps
  <2> QED BY <1>0, <2>1, SimLeave DEF Alive
<1>6. ~move_open /\ ~move_copy
  BY <1>0 DEF ReliableDisk, NoCopy, move_open, move_copy
<1> QED BY <1>1, <1>2, <1>3, <1>4, <1>5, <1>6 DEF ArboristStep

LEMMA SimStep ==
  ASSUME ReliableDisk, RInv, [Next]_vars
  PROVE  [Service!Next]_Service!vars
<1> USE DEF job, disk
<1>0. Maps
  BY ServiceMaps
<1>1. ASSUME NEW c \in Child, NEW v \in Verbs, NEW d \in Digest,
             fork_accept(c, v, d)
      PROVE  Service!Next
  BY <1>0, <1>1, SimAsk
<1>2. CASE (\E c \in Child : kill_child(c)) \/ leave \/ leave_exit \/ crash
           \/ arbor_open
  <2>1. /\ UNCHANGED <<verb, dig, ans, seen, landed, file>>
        /\ \A x \in Child : ~Alive(x) => ~Alive(x)'
    BY <1>0, <1>2 DEF kill_child, leave, leave_exit, crash, arbor_open, Alive,
       Maps
  <2> QED BY <1>0, <2>1, SimLeave
<1>3. CASE UNCHANGED vars
  <2>1. Stored' = Stored /\ Found' = Found /\ Status' = Status
    BY <1>3 DEF vars, Stored, Found, Status, Alive
  <2>2. UNCHANGED Service!vars
    BY <1>3, <2>1 DEF vars, Service!vars, Stored, Found, Status
  <2> QED BY <2>2
<1> QED BY <1>1, <1>2, <1>3, SimChildStep, SimArboristStep DEF Next

LEMMA SimInit ==
  ASSUME Init
  PROVE  Service!Init
<1>1. PICK d \in Digest : dig = [c \in Child |-> d]
  BY DEF Init
<1>2. /\ verb = [c \in Child |-> "get"] /\ landed = [c \in Child |-> FALSE]
      /\ pc = [c \in Child |-> "idle"] /\ ans = [c \in Child |-> "none"]
      /\ seen = [c \in Child |-> "none"]
      /\ file = [x \in Digest |-> IF x \in Stocked THEN "sealed" ELSE "none"]
  BY DEF Init
<1>3. Stored = Stocked
  BY <1>2, ConfigAssumption DEF Stored
<1>4. Found = [c \in Child |-> FALSE]
  BY <1>2 DEF Found
<1>5. Status = [c \in Child |-> "gone"]
  BY <1>2 DEF Status, Alive
<1> QED BY <1>1, <1>2, <1>3, <1>4, <1>5 DEF Service!Init, Stored, Found, Status

\* Between being asked and answered, requests act on the set of blobs in one
\* step: the children, the arborist, the pipe and the fifos of bio4d implement
\* BlobService, kills, crashes and restarts included, as long as the disk works.
THEOREM Refines ==
  ASSUME ReliableDisk
  PROVE  Spec => ServiceSpec
<1>1. Init => RInv
  BY RInvInit
<1>2. RInv /\ [Next]_vars => RInv'
  BY RInvStep
<1>3. Init => Service!Init
  BY SimInit
<1>4. RInv /\ [Next]_vars => [Service!Next]_Service!vars
  BY SimStep
<1> QED BY <1>1, <1>2, <1>3, <1>4, PTL DEF Spec, ServiceSpec, Service!Spec

=============================================================================
