----------------------------- MODULE SessionProofs -----------------------------
(* Theorems about Session, for any blobs, input files and damaged bytes, any    *)
(* verbs, any number of runs, with and without cuts and kills.                  *)
EXTENDS Session, SequenceTheorems, TLAPS

-----------------------------------------------------------------------------
(* The inductive invariant.                                                  *)

\* A child is in the handler of the verb the client asked for, and a child that
\* has not scanned it has nothing but that verb before it.
ChildPlace ==
  /\ spc \in {"idle", "scan"} =>
       /\ fed = <<>> /\ reply = <<>> /\ s2c = <<>>
       /\ cpc \in {"idle", "check", "open", "connect", "request", "reply", "exited"}
  /\ spc = "idle" => c2s = <<>>
  /\ spc = "scan" => c2s \in {<<>>, <<verb>>}
  /\ spc \in {"tmp", "recv", "digested", "accepted"} => verb \in Putters
  /\ spc = "send" => verb \in Getters
  /\ spc = "reply" => verb \in {"take", "give"}
  /\ spc = "wrapped" => verb = "wrap"
  /\ spc = "forgot" => verb = "take"

\* Where a client can be with its verb, and before a child has heard of it.
ClientPlace ==
  /\ cpc \in {"check", "open", "connect", "request", "reply"} => seen = <<>>
  /\ cpc \in {"put", "reply2"} => verb \in Putters
  /\ cpc = "wrap" => verb = "wrap"
  /\ nread \in 0 .. 2
  /\ cpc = "put" => nread = 0
  /\ cpc \in {"unlink", "gave"} => verb = "give"
  /\ cpc \in {"check", "open", "connect"} => spc = "idle"
  /\ cpc = "request" => spc \in {"scan", "done", "killed"} /\ c2s = <<>> /\ s2c = <<>>

\* The temporary file: there while bytes come, whole when they are digested.
TmpHeld ==
  /\ spc \notin {"recv", "digested", "killed"} => tmp = NoFile
  /\ spc = "digested" => tmp = blob

\* What was sent and what is left to send are what was stored.
SendsStore ==
  spc = "send" => unsent \in Seq(Byte) /\ fed \in Seq(Byte) /\ fed \o unsent = store

\* The replies on their way to a client that puts or gives: the first one is
\* always "ok", and the second is "ok" only when the blob is stored.
SecondReply == {<<>>, NO} \cup {w \in {OK} : store = blob}

Replies ==
  verb \in Putters =>
    /\ spc \in {"tmp", "recv", "digested", "accepted"} /\ nread = 0 =>
         /\ cpc = "reply" => s2c \in {<<>>, OK}
         /\ cpc \in {"put", "reply2"} => s2c = <<>>
    /\ spc = "accepted" => store = blob
    /\ cpc = "reply" /\ nread = 0 => s2c \in {<<>>} \cup {NO, OK} \cup {OK \o w : w \in SecondReply}
    /\ cpc \in {"put", "reply2"} /\ nread = 0 => s2c \in SecondReply
    /\ cpc = "unlink" => store = blob

\* A take that was not answered has no bytes of an answer.
Unanswered ==
  verb = "take" /\ ~told /\ spc \in {"send", "reply"} => c2s = <<>> /\ reply = <<>>

\* As NoLoss, and the output file is not needed for it.
Kept == had /\ ~told => blob \in {input, store}

\* The output file that the client has opened.
OutputHeld ==
  output_fd =>
    /\ verb \in Getters /\ cpc \notin {"check", "open"}
    /\ cpc \in {"connect", "request", "reply"} => output = <<>>
    /\ cpc = "get" => output = seen
    /\ cpc \in {"took", "reply3"} => output = blob
    /\ cpc = "exited" /\ exit_status \notin {"KILL", "2"} => output \in {NoFile, <<>>, blob}

IInv ==
  /\ blob \in Blobs
  /\ verb \in Verb
  /\ StoreWhole /\ ChildPlace /\ ClientPlace /\ TmpHeld /\ SendsStore
  /\ Replies /\ Unanswered /\ Kept /\ OutputHeld

-----------------------------------------------------------------------------
(* Facts about the operators.                                                *)

\* A sequence is its front and the rest.
LEMMA FrontRest ==
  ASSUME NEW s \in Seq(Byte), NEW k \in 1 .. Len(s)
  PROVE  /\ Front_(s, k) \in Seq(Byte) /\ Rest(s, k) \in Seq(Byte)
         /\ Front_(s, k) \o Rest(s, k) = s
<1>1. Front_(s, k) \in Seq(Byte)
  BY DEF Front_
<1>2. Rest(s, k) \in Seq(Byte)
  BY DEF Rest
<1>3. Front_(s, k) \o Rest(s, k) = s
  BY DEF Front_, Rest
<1> QED
  BY <1>1, <1>2, <1>3

\* The first three bytes of replies, and what follows them.
LEMMA ReplySplits ==
  /\ OK # NO /\ OK # <<>> /\ NO # <<>>
  /\ <<>> \o OK = OK /\ <<>> \o NO = NO /\ OK \o <<>> = OK
  /\ Len(<<>>) = 0
  /\ Front_(NO, 3) = NO
  /\ \A w \in {<<>>, OK, NO} : Front_(OK \o w, 3) = OK /\ Rest(OK \o w, 3) = w
<1>1. OK # NO /\ OK # <<>> /\ NO # <<>> /\ Len(<<>>) = 0
  BY DEF OK, NO
<1>2. <<>> \o OK = OK /\ <<>> \o NO = NO /\ OK \o <<>> = OK
  BY DEF OK, NO
<1>3. /\ OK \in Seq(Byte) /\ Len(OK) = 3
      /\ NO \in Seq(Byte) /\ Len(NO) = 3
  BY DEF OK, NO, Byte
<1>4. Front_(NO, 3) = NO
  BY <1>3, SubSeqFull DEF Front_
<1>5. ASSUME NEW w \in {<<>>, OK, NO}
      PROVE  Front_(OK \o w, 3) = OK /\ Rest(OK \o w, 3) = w
  <2>1. w \in Seq(Byte) /\ Len(w) \in Nat
    <3>1. <<>> \in Seq(Byte) /\ Len(<<>>) = 0
      OBVIOUS
    <3>2. w = <<>> \/ w = OK \/ w = NO
      BY <1>5, Zenon
    <3>3. CASE w = <<>>
      BY <3>1, <3>3
    <3>4. CASE w = OK
      BY <1>3, <3>4
    <3>5. CASE w = NO
      BY <1>3, <3>5
    <3> QED
      BY <3>2, <3>3, <3>4, <3>5, Zenon
  <2>2. Len(OK \o w) = Len(OK) + Len(w)
    BY <1>3, <2>1, ConcatProperties, ZenonT(30)
  <2>3. Front_(OK \o w, 3) = OK
    <3>1. SubSeq(OK \o w, 1, 3) = SubSeq(OK, 1, 3)
      <4>1. 1 \in 1 .. Len(OK) /\ 3 \in 1 .. Len(OK)
        BY <1>3
      <4> QED
        BY <1>3, <2>1, <4>1, SubSeqOfConcat1, ZenonT(30)
    <3> QED
      BY <3>1, <1>3, SubSeqFull DEF Front_
  <2>4. CASE w = <<>>
    <3>1. Len(OK \o w) = 3
      BY <1>1, <1>3, <2>2, <2>4
    <3>2. SubSeq(OK \o w, 3 + 1, 3) = <<>>
      BY SubSeqEmpty
    <3>3. Rest(OK \o w, 3) = SubSeq(OK \o w, 3 + 1, 3)
      BY <3>1 DEF Rest
    <3> QED
      BY <2>3, <2>4, <3>2, <3>3, Zenon
  <2>5. CASE w # <<>>
    <3>1. Len(w) = 3
      BY <2>5, <1>3
    <3>2. SubSeq(OK \o w, 4, 6) = SubSeq(w, 1, 3)
      <4>1. /\ 4 \in Len(OK) + 1 .. Len(OK) + Len(w) /\ 6 \in Len(OK) + 1 .. Len(OK) + Len(w)
            /\ 4 - Len(OK) = 1 /\ 6 - Len(OK) = 3
        BY <1>3, <3>1
      <4>2. SubSeq(OK \o w, 4, 6) = SubSeq(w, 4 - Len(OK), 6 - Len(OK))
        <5>1. \A s, t \in Seq(Byte) : \A m, n \in Len(s) + 1 .. Len(s) + Len(t) :
                SubSeq(s \o t, m, n) = SubSeq(t, m - Len(s), n - Len(s))
          BY SubSeqOfConcat2
        <5> QED
          BY <1>3, <2>1, <4>1, <5>1, Zenon
      <4> QED
        BY <4>1, <4>2
    <3>3. SubSeq(w, 1, 3) = w
      BY <2>1, <3>1, SubSeqFull
    <3> QED
      <4>1. Len(OK \o w) = 6
        BY <2>2, <1>3, <3>1
      <4> QED
        BY <2>3, <3>2, <3>3, <4>1 DEF Rest
  <2> QED
    BY <2>4, <2>5
<1> QED
  BY <1>1, <1>2, <1>3, <1>4, <1>5

\* A request line is one unit.
LEMMA OneUnit ==
  ASSUME NEW v
  PROVE  Head(<<v>>) = v /\ Tail(<<v>>) = <<>> /\ <<v>> # <<>>
  OBVIOUS

\* What is stored are bytes.
LEMMA StoredBytes ==
  ASSUME blob \in Blobs, StoreWhole, store # NoFile
  PROVE  store \in Seq(Byte) /\ <<>> \in Seq(Byte) /\ <<>> \o store = store
<1>1. store \in Seq(Byte)
  BY SessionAssumption DEF StoreWhole
<1> QED
  BY <1>1, ConcatEmptySeq

\* Bytes that are sent go from the rest of the file to the digest.
LEMMA SendMore ==
  ASSUME NEW f \in Seq(Byte), NEW s \in Seq(Byte), NEW k \in 1 .. Len(s)
  PROVE  /\ f \o Front_(s, k) \in Seq(Byte) /\ Rest(s, k) \in Seq(Byte)
         /\ (f \o Front_(s, k)) \o Rest(s, k) = f \o s
<1>1. /\ Front_(s, k) \in Seq(Byte) /\ Rest(s, k) \in Seq(Byte)
      /\ Front_(s, k) \o Rest(s, k) = s
  BY FrontRest
<1>2. f \o Front_(s, k) \in Seq(Byte)
  BY <1>1
<1>3. (f \o Front_(s, k)) \o Rest(s, k) = f \o (Front_(s, k) \o Rest(s, k))
  <2> DEFINE g == Front_(s, k)  r == Rest(s, k)
  <2>1. g \in Seq(Byte) /\ r \in Seq(Byte)
    BY <1>1
  <2> HIDE DEF g, r
  <2>2. (f \o g) \o r = f \o (g \o r)
    BY <2>1, ConcatAssociative, SMTT(60)
  <2> QED
    BY <2>2 DEF g, r
<1> QED
  BY <1>1, <1>2, <1>3

-----------------------------------------------------------------------------
(* Every step keeps the invariant.                                           *)

LEMMA IInvStep ==
  ASSUME IInv, [Next]_vars
  PROVE  IInv'
<1> USE DEF IInv, StoreWhole, ChildPlace, ClientPlace, TmpHeld, SendsStore, Replies,
            SecondReply, Unanswered, Kept, OutputHeld, Verb, Getters, Putters,
            given, client, child, files, disk, wires, past, Exit, ExitAtOnce, cleanup,
            chew, eat_chunk
<1>1. ASSUME NEW v \in Verbs, start(v)
      PROVE  IInv'
  <2>1. /\ cpc' = "check" /\ verb' \in Verb /\ spc' = "idle" /\ seen' = <<>> /\ nread' = 0
        /\ fed' = <<>> /\ reply' = <<>> /\ c2s' = <<>> /\ s2c' = <<>>
        /\ tmp' = NoFile /\ output_fd' = FALSE
        /\ UNCHANGED <<given, input, output, store, had, told>>
    BY <1>1, SessionAssumption DEF start
  <2> QED
    BY <2>1
<1>2. CASE main
  BY <1>2 DEF main
<1>3. CASE stranger
  BY <1>3 DEF stranger
<1>4. CASE bio4_open_output
  BY <1>4 DEF bio4_open_output
<1>5. CASE bio4_connect
  BY <1>5 DEF bio4_connect
<1>6. CASE make_request
  BY <1>6 DEF make_request, Write_fails
<1>7. CASE put_trusted
  BY <1>7 DEF put_trusted, Write_fails
<1>8. CASE put_untrusted
  BY <1>8 DEF put_untrusted, Write_fails
<1>9. CASE catch_write_ALRM
  BY <1>9 DEF catch_write_ALRM
<1>10. CASE bio4_give
  BY <1>10 DEF bio4_give
<1>11. CASE gave
  BY <1>11 DEF gave, Write_fails
<1>12. CASE bio4_take
  BY <1>12 DEF bio4_take, Write_fails
<1>13. CASE read_ok_no
  <2>1. PICK k \in 1 .. 3 - nread :
          /\ k <= Len(s2c) /\ s2c' = Rest(s2c, k)
          /\ IF nread + k < 3 THEN nread' = nread + k /\ UNCHANGED <<cpc, exit_status, output>>
             ELSE /\ nread' = 0
                  /\ IF nread = 0 /\ Front_(s2c, 3) = OK THEN Accepted
                     ELSE IF nread = 0 /\ Front_(s2c, 3) = NO THEN Exit("1")
                     ELSE Exit("3")
    BY <1>13 DEF read_ok_no
  <2>2. cpc \in {"reply", "reply2", "reply3"}
        /\ UNCHANGED <<given, verb, input, output_fd, unread, seen, runs, child, c2s, reset, past>>
    BY <1>13 DEF read_ok_no, AwaitsReply
  <2>3. s2c # <<>>
    BY <2>1, ReplySplits
  <2>4. CASE nread' # 0
    BY <2>1, <2>2, <2>3, <2>4
  <2>5. CASE nread' = 0 /\ cpc' = "exited"
    <3>1. output' \in {output, NoFile}
      BY <2>1, <2>5 DEF Accepted
    <3>2. OutputHeld'
      BY <2>2, <2>5, <3>1
    <3> QED
      BY <2>1, <2>2, <2>3, <2>5, <3>2
  <2>6. CASE nread' = 0 /\ cpc' # "exited"
    <3>1. nread = 0 /\ k = 3 /\ s2c' = Rest(s2c, 3) /\ Front_(s2c, 3) = OK /\ Accepted
      BY <2>1, <2>6
    <3>2. CASE cpc = "reply" /\ verb \in Putters
      <4>1. s2c \in {OK \o w : w \in SecondReply} \cup {OK}
        BY <2>3, <3>1, <3>2, ReplySplits
      <4>2. s2c' \in SecondReply /\ (s2c = OK => s2c' = <<>>)
        BY <3>1, <4>1, ReplySplits
      <4>3. cpc' = "put" /\ UNCHANGED output
        BY <2>6, <3>1, <3>2 DEF Accepted
      <4> QED
        BY <2>1, <2>2, <2>3, <2>6, <3>2, <4>2, <4>3, ReplySplits
    <3>3. CASE cpc = "reply" /\ verb \notin Putters
      BY <2>2, <2>3, <2>6, <3>1, <3>3 DEF Accepted
    <3>4. CASE cpc = "reply2"
      <4>1. store = blob
        BY <2>3, <3>1, <3>4, ReplySplits
      <4> QED
        BY <2>2, <2>3, <2>6, <3>1, <3>4, <4>1 DEF Accepted
    <3>5. CASE cpc = "reply3"
      BY <2>6, <3>1, <3>5 DEF Accepted
    <3> QED
      BY <2>2, <3>2, <3>3, <3>4, <3>5
  <2> QED
    BY <2>4, <2>5, <2>6
<1>14. CASE bio4_get
  BY <1>14 DEF bio4_get, GotBlob
<1>15. CASE bio4_wrap
  BY <1>15 DEF bio4_wrap
<1>16. CASE read_end
  BY <1>16 DEF read_end, GotBlob
<1>17. CASE read_error
  BY <1>17 DEF read_error
<1>18. CASE read_timeout
  BY <1>18 DEF read_timeout
<1>19. CASE kill_client
  BY <1>19 DEF kill_client
<1>20. CASE scan_failed
  BY <1>20 DEF scan_failed
<1>21. CASE get
  <2>1. store # NoFile => store \in Seq(Byte) /\ <<>> \in Seq(Byte) /\ <<>> \o store = store
    BY StoredBytes
  <2>2. verb = "get" /\ c2s # <<>> /\ c2s' = <<>> /\ fed = <<>>
    BY <1>21, OneUnit DEF get, Asked
  <2>3. /\ spc' \in {"done", "send"} /\ s2c' \in {s2c, s2c \o OK, s2c \o NO}
        /\ spc' = "send" => store # NoFile /\ unsent' = store
        /\ UNCHANGED <<given, client, store, tmp, fed, reply, reset, past>>
        /\ spc = "scan"
    BY <1>21 DEF get, Say, Asked
  <2> QED
    BY <2>1, <2>2, <2>3
<1>22. CASE take
  <2>1. store # NoFile => store \in Seq(Byte) /\ <<>> \in Seq(Byte) /\ <<>> \o store = store
    BY StoredBytes
  <2>2. verb = "take" /\ c2s # <<>> /\ c2s' = <<>> /\ fed = <<>>
    BY <1>22, OneUnit DEF take, Asked
  <2>3. /\ spc' \in {"done", "send"} /\ s2c' \in {s2c, s2c \o OK, s2c \o NO}
        /\ spc' = "send" => store # NoFile /\ unsent' = store
        /\ UNCHANGED <<given, client, store, tmp, fed, reply, reset, past>>
        /\ spc = "scan"
    BY <1>22 DEF take, Say, Asked
  <2> QED
    BY <2>1, <2>2, <2>3
<1>23. CASE put
  BY <1>23, ReplySplits, OneUnit DEF put, Asked, Say
<1>24. CASE eat
  BY <1>24 DEF eat, Asked, Say
<1>25. CASE roll
  BY <1>25 DEF roll, Asked, Say
<1>26. CASE wrap
  BY <1>26 DEF wrap, Asked, Say
<1>27. CASE fs_get_bytes
  <2>1. spc' = "done" /\ UNCHANGED <<unsent, fed>> => SendsStore'
    OBVIOUS
  <2>2. ASSUME NEW k \in 1 .. Len(unsent), unsent' = Rest(unsent, k),
               fed' = fed \o Front_(unsent, k), UNCHANGED spc
        PROVE  SendsStore'
    BY <1>27, <2>2, SendMore DEF fs_get_bytes
  <2>3. SendsStore'
    BY <1>27, <2>1, <2>2 DEF fs_get_bytes
  <2>4. verb \in Getters /\ spc' \in {"send", "done"}
    BY <1>27 DEF fs_get_bytes
  <2> QED
    BY <1>27, <2>3, <2>4 DEF fs_get_bytes
<1>28. CASE fs_get_bytes_end
  BY <1>28 DEF fs_get_bytes_end
<1>29. CASE fs_put_open
  BY <1>29 DEF fs_put_open
<1>30. CASE fs_put_bytes
  BY <1>30 DEF fs_put_bytes
<1>31. CASE fs_put_croak
  BY <1>31, ReplySplits DEF fs_put_croak, Say
<1>32. CASE arbor_rename
  BY <1>32 DEF arbor_rename
<1>33. CASE accept
  BY <1>33, ReplySplits DEF accept, Say
<1>34. CASE read_reply
  <2>1. /\ spc = "reply" /\ c2s # <<>>
        /\ UNCHANGED <<given, client, tmp, unsent, fed, s2c, reset, had, told>>
    BY <1>34, ReplySplits DEF read_reply
  <2>2. \/ spc' \in {"reply", "done"} /\ store' = store
        \/ spc' = "forgot" /\ store' = NoFile /\ verb = "take"
    BY <1>34 DEF read_reply, take_reply
  <2>3. verb = "take" => told
    BY <2>1
  <2>4. cpc # "request"
    BY <2>1
  <2>5. StoreWhole' /\ ChildPlace' /\ TmpHeld' /\ SendsStore'
    BY <2>1, <2>2
  <2>6. Replies' /\ Unanswered' /\ Kept'
    BY <2>1, <2>2, <2>3
  <2>7. ClientPlace' /\ OutputHeld'
    BY <2>1, <2>2, <2>4
  <2> QED
    BY <2>1, <2>5, <2>6, <2>7
<1>35. CASE read_reply_failed
  BY <1>35 DEF read_reply_failed
<1>36. CASE forgot
  BY <1>36, ReplySplits DEF forgot, Say
<1>37. CASE kill_child
  <2>1. /\ spc # "idle" /\ spc' = "killed"
        /\ UNCHANGED <<given, client, disk, fed, reply, wires, past>>
    BY <1>37 DEF kill_child, Ended
  <2> QED
    BY <2>1
<1>38. CASE reset_unread
  BY <1>38 DEF reset_unread, Reset, Connected, Running, Ended
<1>39. CASE cut
  BY <1>39 DEF cut, Reset
<1>40. CASE UNCHANGED vars
  BY <1>40 DEF vars
<1> QED
  BY <1>1, <1>2, <1>3, <1>4, <1>5, <1>6, <1>7, <1>8, <1>9, <1>10, <1>11, <1>12, <1>13, <1>14, <1>15, <1>16, <1>17, <1>18, <1>19, <1>20, <1>21, <1>22, <1>23, <1>24, <1>25, <1>26, <1>27, <1>28, <1>29, <1>30, <1>31, <1>32, <1>33, <1>34, <1>35, <1>36, <1>37, <1>38, <1>39, <1>40 DEF Next, ClientStep, ChildStep

-----------------------------------------------------------------------------
(* What follows from it.                                                     *)

LEMMA IInvInit == Init => IInv
<1> SUFFICES ASSUME Init  PROVE IInv
  OBVIOUS
<1>1. Kept
  BY DEF Init, Kept
<1>2. blob \in Blobs /\ verb \in Verb /\ StoreWhole
  BY DEF Init, StoreWhole, Verb
<1>3. ChildPlace
  BY DEF Init, ChildPlace
<1>4. ClientPlace /\ TmpHeld /\ SendsStore
  <2>1. /\ cpc = "idle" /\ spc = "idle" /\ nread = 0 /\ tmp = NoFile
    BY DEF Init
  <2> QED
    BY <2>1 DEF ClientPlace, TmpHeld, SendsStore
<1>5. Replies /\ Unanswered /\ OutputHeld
  BY DEF Init, Replies, SecondReply, Unanswered, OutputHeld
<1> QED
  BY <1>1, <1>2, <1>3, <1>4, <1>5 DEF IInv

LEMMA Invariance == Spec => []IInv
  BY IInvInit, IInvStep, PTL DEF Spec

\* Whatever is sent, cut or killed, the store holds the blob, the bytes that were
\* damaged before, or no file.
THEOREM StoredWhole == Spec => []StoreWhole
<1>1. IInv => StoreWhole
  BY DEF IInv
<1> QED
  BY Invariance, <1>1, PTL

\* A child that ends in any way but by a signal has removed its temporary file.
THEOREM TmpsRemoved == Spec => []TmpRemoved
<1>1. IInv => TmpRemoved
  BY DEF IInv, TmpHeld, TmpRemoved
<1> QED
  BY Invariance, <1>1, PTL

\* A blob that was at the client or at the server stays in a file of one of them
\* until the client has said that it may be forgotten.
THEOREM NothingLost == Spec => []NoLoss
<1>1. IInv => NoLoss
  BY DEF IInv, Kept, NoLoss
<1> QED
  BY Invariance, <1>1, PTL

\* A run of the client that is neither killed nor ended by the alarm of a write
\* leaves no part of a blob at its output.
THEOREM OutputsWhole == Spec => OutputWhole
<1>1. ASSUME IInv, IInv', [Next]_vars
      PROVE  [cpc' = "exited" /\ exit_status' \notin {"KILL", "2"} /\ output_fd =>
                output' \in {NoFile, <<>>, blob}]_vars
  <2>1. cpc' = "exited" => output_fd' = output_fd /\ blob' = blob
    BY <1>1
    DEF Next, ClientStep, ChildStep, start, main, stranger, bio4_open_output,
        bio4_connect, make_request, put_trusted, put_untrusted, catch_write_ALRM,
        bio4_give, gave, bio4_take, read_ok_no, bio4_get, bio4_wrap, read_end,
        read_error, read_timeout, kill_client, scan_failed, get, take, put, eat, roll,
        wrap, fs_get_bytes, fs_get_bytes_end, fs_put_open, fs_put_bytes, fs_put_croak,
        arbor_rename, accept, read_reply, read_reply_failed, forgot, kill_child,
        reset_unread, cut, Reset, given, client, files, vars
  <2> QED
    BY <1>1, <2>1 DEF IInv, OutputHeld
<1> QED
  BY Invariance, <1>1, PTL DEF Spec, OutputWhole

-----------------------------------------------------------------------------
(* Answers, when the stored file is not damaged.                             *)

\* Files that are not damaged.
Undamaged == store \in {NoFile, blob}

\* A client with an output path has opened the file, or another program has made
\* it, and then the client has no byte of a blob.
Opened ==
  verb \in Getters =>
    /\ cpc = "open" => output \in {NoFile, Stranger}
    /\ cpc \in {"connect", "request", "reply", "get"} =>
         output_fd \/ (output = Stranger /\ seen = <<>>)
    /\ cpc \in {"took", "reply3"} => output_fd \/ (output = Stranger /\ blob = <<>>)

\* Who has said what may go.
Places ==
  /\ cpc \in {"took", "reply3"} => verb = "take"
  /\ cpc = "get" => verb \in Getters
  /\ cpc = "gave" => input = NoFile /\ store = blob
  /\ spc = "forgot" => store = NoFile

\* Nothing is touched before the child has the bytes, or its client's "ok".
Untouched ==
  /\ verb \notin Putters \cup {"take"} => ~touched
  /\ cpc \notin {"unlink", "gave", "exited"} /\ spc \in {"idle", "scan", "tmp", "recv", "digested"}
       => ~touched

\* A put or give hears an "ok" first, and a "no" from a child that has ended.
Putting ==
  verb \in Putters /\ nread = 0 =>
    /\ ~reset /\ cpc = "reply" /\ spc \in {"tmp", "recv", "digested", "accepted"} => s2c = OK
    /\ cpc = "reply" => s2c \in {<<>>} \cup {OK \o w : w \in SecondReply}
    /\ cpc = "reply" /\ s2c = OK \o NO => ~touched /\ Ended
    /\ cpc \in {"put", "reply2"} /\ s2c = NO => ~touched /\ Ended

\* What a take was sent is what the child has read of the file; the last "ok"
\* follows the unlink.
TakeBytes ==
  verb = "take" =>
    /\ s2c \in Seq(Byte) /\ seen \in Seq(Byte)
    /\ fed \in Seq(Byte) /\ unsent \in Seq(Byte)
    /\ fed = <<>> \/ fed \o unsent = blob

TakeWaits ==
  verb = "take" /\ spc \in {"send", "reply", "forgot"}
    /\ cpc \in {"reply", "get", "took"} =>
         c2s = <<>> /\ reply = <<>> /\ spc # "forgot"

TakeHears ==
  verb = "take" /\ ~reset /\ cpc = "reply" /\ nread = 0
    /\ spc \notin {"idle", "scan"} =>
         \/ s2c = NO /\ Ended /\ ~touched
         \/ s2c = OK \o fed
         \/ s2c = <<>> /\ Ended

TakeReads == verb = "take" /\ ~reset /\ cpc = "get" => seen \o s2c = fed

TakeDone ==
  verb = "take" /\ ~reset /\ cpc \in {"took", "reply3"} =>
    /\ spc = "send" => unsent = <<>>
    /\ nread = 0 => s2c = <<>> \/ (s2c = OK /\ store = NoFile /\ Ended)

Taking == TakeBytes /\ TakeWaits /\ TakeHears /\ TakeReads /\ TakeDone

\* The "ok" to an eat.
Eating ==
  verb = "eat" /\ cpc = "reply" /\ nread = 0 =>
    s2c \in {<<>>, NO} \cup {w \in {OK} : store # NoFile /\ (trust_fs \/ store = blob)}

\* The udig of a wrapped log is sent at once.
Wrapping ==
  verb = "wrap" =>
    /\ s2c \in Seq(Byte) /\ seen \in Seq(Byte)
    /\ ~reset =>
         /\ cpc = "reply" /\ nread = 0 => s2c \in {<<>>, NO, OK, OK \o Udig}
         /\ cpc = "reply" /\ nread = 0 /\ spc = "wrapped" => s2c = OK
         /\ cpc = "wrap" => \/ seen \o s2c = Udig /\ spc # "wrapped"
                            \/ seen = <<>> /\ s2c = <<>>

Denied == cpc = "exited" /\ exit_status = "1" =>
            ~touched /\ (verb \in Putters \cup {"take"} => Ended)

DInv == /\ Undamaged /\ Opened /\ Places /\ Untouched /\ Putting /\ Taking
        /\ Eating /\ Wrapping /\ OkMeansDone /\ Denied

-----------------------------------------------------------------------------
(* Facts about the bytes on their way.                                       *)

\* The first three bytes of an "ok", and what follows them.
LEMMA OkSplits ==
  ASSUME NEW w \in Seq(Byte)
  PROVE  /\ Front_(OK \o w, 3) = OK /\ Rest(OK \o w, 3) = w
         /\ OK \o w # NO /\ OK \o w # <<>> /\ OK \o w \in Seq(Byte)
<1>1. /\ OK \in Seq(Byte) /\ Len(OK) = 3 /\ OK[1] = "o" /\ OK[2] = "k"
      /\ OK[3] = "\n" /\ NO[1] = "n" /\ <<>> \in Seq(Byte)
  BY DEF OK, NO, Byte
<1>2. /\ OK \o w \in Seq(Byte) /\ Len(OK \o w) = 3 + Len(w)
      /\ \A i \in 1..3 : (OK \o w)[i] = OK[i]
      /\ \A i \in 4..(3 + Len(w)) : (OK \o w)[i] = w[i - 3]
  <2>1. /\ OK \o w \in Seq(Byte) /\ Len(OK \o w) = Len(OK) + Len(w)
        /\ \A i \in 1..(Len(OK) + Len(w)) :
             (OK \o w)[i] = IF i <= Len(OK) THEN OK[i] ELSE w[i - Len(OK)]
    BY <1>1, ConcatProperties
  <2>2. Len(w) \in Nat
    BY LenProperties
  <2> QED BY <1>1, <2>1, <2>2
<1> DEFINE x == OK \o w
<1>3. x \in Seq(Byte) /\ Len(x) = 3 + Len(w) /\ Len(w) \in Nat
  BY <1>2, LenProperties
<1> HIDE DEF x
<1>4. SubSeq(x, 1, 3) = OK
  <2>1. SubSeq(x, 1, 3) \in Seq(Byte) /\ Len(SubSeq(x, 1, 3)) = 3
        /\ \A i \in 1..3 : SubSeq(x, 1, 3)[i] = x[i]
    BY <1>3, SubSeqProperties
  <2> QED BY <1>1, <1>2, <2>1, SeqEqual DEF x
<1>5. SubSeq(x, 4, Len(x)) = w
  <2>1. SubSeq(x, 4, Len(x)) \in Seq(Byte) /\ Len(SubSeq(x, 4, Len(x))) = Len(w)
        /\ \A i \in 1..Len(w) : SubSeq(x, 4, Len(x))[i] = x[i + 3]
    BY <1>3, SubSeqProperties
  <2>2. \A i \in 1..Len(w) : x[i + 3] = w[i]
    BY <1>2, <1>3 DEF x
  <2> QED BY <1>3, <2>1, <2>2, SeqEqual
<1> QED BY <1>1, <1>2, <1>3, <1>4, <1>5 DEF Front_, Rest, x

LEMMA BytesAssociate ==
  \A a, b, c \in Seq(Byte) : (a \o b) \o c = a \o (b \o c)
<1> TAKE a, b, c \in Seq(Byte)
<1> QED BY ConcatAssociative, SMTT(60)

\* What was read whole leaves nothing on its way.
LEMMA NothingLeft ==
  ASSUME NEW a \in Seq(Byte), NEW b \in Seq(Byte), NEW c \in Seq(Byte),
         NEW d \in Seq(Byte), a \o b = c, c \o d = a
  PROVE  b = <<>> /\ d = <<>>
<1>1. Len(a) + Len(b) = Len(c) /\ Len(c) + Len(d) = Len(a)
  BY ConcatProperties
<1>2. Len(a) \in Nat /\ Len(b) \in Nat /\ Len(c) \in Nat /\ Len(d) \in Nat
  BY LenProperties
<1>3. Len(b) = 0 /\ Len(d) = 0
  BY <1>1, <1>2
<1> QED BY <1>3, EmptySeq

-----------------------------------------------------------------------------
(* Every step keeps the answers true.                                        *)

\* Only a new run has a new verb; no step but one changes the given.
LEMMA VerbKept ==
  ASSUME [Next]_vars, \A v \in Verbs : ~start(v)
  PROVE  UNCHANGED <<verb, blob, trust_fs>>
<1> USE DEF given, client, vars
<1>1. CASE ClientStep \/ catch_write_ALRM \/ read_timeout \/ stranger \/ kill_client
  BY <1>1 DEF ClientStep, main, bio4_open_output, bio4_connect, make_request,
     put_trusted, put_untrusted, bio4_give, gave, bio4_take, read_ok_no, bio4_get,
     bio4_wrap, read_end, read_error, catch_write_ALRM, read_timeout, stranger,
     kill_client
<1>2. CASE ChildStep \/ kill_child \/ reset_unread \/ cut \/ UNCHANGED vars
  BY <1>2 DEF ChildStep, scan_failed, get, take, put, eat, roll, wrap,
     fs_get_bytes, fs_get_bytes_end, fs_put_open, fs_put_bytes, fs_put_croak,
     arbor_rename, accept, read_reply, read_reply_failed, forgot, kill_child,
     reset_unread, cut, Reset
<1> QED BY <1>1, <1>2 DEF Next

\* A file that is there holds bytes, and a child sends those of the blob.
LEMMA NoFileIsNone == NoFile \notin Seq(Byte)
<1> SUFFICES ASSUME NoFile \in Seq(Byte) PROVE FALSE
  OBVIOUS
<1>1. 1 \in 1..Len(NoFile) /\ NoFile[1] = "no file" /\ "no file" \notin Byte
  BY DEF NoFile, Byte
<1>2. NoFile[1] \in Byte
  BY <1>1, ElementOfSeq
<1> QED BY <1>1, <1>2

LEMMA SendsBlob ==
  ASSUME IInv, Undamaged, spc = "send"
  PROVE  fed \in Seq(Byte) /\ unsent \in Seq(Byte) /\ fed \o unsent = blob
         /\ store = blob
<1>1. fed \in Seq(Byte) /\ unsent \in Seq(Byte) /\ fed \o unsent = store
  BY DEF IInv, SendsStore
<1>2. store # NoFile
  BY <1>1, NoFileIsNone, ConcatProperties
<1> QED BY <1>1, <1>2 DEF Undamaged

\* A client that takes: its own steps.
LEMMA TakeClientStep ==
  ASSUME IInv, Undamaged, Taking, Places,
         verb = "take", verb' = verb, blob' = blob,
         ClientStep \/ catch_write_ALRM \/ read_timeout \/ stranger \/ kill_client
  PROVE  Taking'
<1> USE DEF Exit, ExitAtOnce, cleanup, given, client, child, files, disk, wires, past
<1>0. /\ TakeBytes /\ TakeWaits /\ TakeHears /\ TakeReads /\ TakeDone
      /\ ChildPlace /\ ClientPlace
  BY DEF Taking, IInv
<1>1. ASSUME cpc' \notin {"reply", "get", "took", "reply3"},
             UNCHANGED <<fed, unsent, seen, s2c>>
      PROVE  Taking'
  BY <1>0, <1>1 DEF Taking, TakeBytes, TakeWaits, TakeHears, TakeReads, TakeDone
<1>2. CASE main \/ stranger \/ bio4_open_output \/ bio4_connect \/ read_error
           \/ read_timeout \/ kill_client \/ catch_write_ALRM
  <2>1. cpc' \notin {"reply", "get", "took", "reply3"} /\ UNCHANGED <<fed, unsent, seen, s2c>>
    BY <1>2 DEF main, stranger, bio4_open_output, bio4_connect, read_error,
       read_timeout, kill_client, catch_write_ALRM
  <2> QED BY <1>1, <2>1
<1>3. CASE make_request
  <2>1. /\ UNCHANGED <<fed, unsent, seen, s2c, spc, reply, nread, reset, touched>>
        /\ cpc = "request" /\ cpc' \in {"reply", "exited"}
    BY <1>3 DEF make_request, Write_fails
  <2>2. s2c = <<>> /\ spc \in {"scan", "done", "killed"}
    BY <1>0, <2>1 DEF ClientPlace
  <2> QED
    BY <1>0, <2>1, <2>2
    DEF Taking, TakeBytes, TakeWaits, TakeHears, TakeReads, TakeDone, Ended
<1>4. ~put_trusted /\ ~put_untrusted /\ ~bio4_give /\ ~gave /\ ~bio4_wrap
  BY <1>0 DEF ClientPlace, Putters, put_trusted, put_untrusted, bio4_give, gave,
     bio4_wrap
<1>5. CASE bio4_take
  <2>1. /\ UNCHANGED <<fed, unsent, seen, s2c, spc, reply, nread, reset, touched, store>>
        /\ cpc = "took" /\ cpc' \in {"reply3", "exited"}
    BY <1>5 DEF bio4_take, Write_fails
  <2> QED
    BY <1>0, <2>1
    DEF Taking, TakeBytes, TakeWaits, TakeHears, TakeReads, TakeDone, Ended
<1>6. CASE read_ok_no
  <2>1. PICK k \in 1 .. 3 - nread :
          /\ k <= Len(s2c) /\ s2c' = Rest(s2c, k)
          /\ IF nread + k < 3 THEN nread' = nread + k /\ UNCHANGED <<cpc, exit_status, output>>
             ELSE /\ nread' = 0
                  /\ IF nread = 0 /\ Front_(s2c, 3) = OK THEN Accepted
                     ELSE IF nread = 0 /\ Front_(s2c, 3) = NO THEN Exit("1")
                     ELSE Exit("3")
    BY <1>6 DEF read_ok_no
  <2>2. /\ UNCHANGED <<fed, unsent, seen, spc, reply, c2s, reset, touched, store>>
        /\ cpc \in {"reply", "reply2", "reply3"} /\ ~reset
    BY <1>6 DEF read_ok_no, AwaitsReply
  <2>3. s2c' \in Seq(Byte) /\ nread \in 0..2 /\ s2c # <<>>
    <3>1. s2c \in Seq(Byte) /\ nread \in 0..2
      BY <1>0 DEF TakeBytes, ClientPlace
    <3>2. k \in 1..Len(s2c)
      BY <2>1, <3>1, LenProperties
    <3> QED BY <2>1, <3>1, <3>2, FrontRest
  <2>4. TakeBytes'
    BY <1>0, <2>2, <2>3 DEF TakeBytes
  <2>5. CASE nread' # 0
    <3>1. cpc' = cpc
      BY <2>1, <2>5
    <3> QED
      BY <1>0, <2>2, <2>4, <2>5, <3>1
      DEF Taking, TakeWaits, TakeHears, TakeReads, TakeDone
  <2>6. CASE cpc' = "exited"
    BY <2>4, <2>6 DEF Taking, TakeWaits, TakeHears, TakeReads, TakeDone
  <2>7. CASE nread' = 0 /\ cpc' # "exited"
    <3>1. nread = 0 /\ k = 3 /\ s2c' = Rest(s2c, 3) /\ Front_(s2c, 3) = OK /\ Accepted
      BY <2>1, <2>3, <2>7
    <3>2. /\ cpc = "reply" /\ cpc' = IF blob = <<>> THEN "took" ELSE "get"
      BY <2>7, <3>1 DEF Accepted, Putters
    <3>3. spc \notin {"idle", "scan"} /\ seen = <<>>
      BY <1>0, <2>3, <3>2 DEF ChildPlace, ClientPlace
    <3>4. s2c = OK \o fed
      BY <1>0, <2>2, <2>3, <3>1, <3>2, <3>3, ReplySplits DEF TakeHears
    <3>5. s2c' = fed /\ fed \in Seq(Byte) /\ unsent \in Seq(Byte)
      BY <1>0, <3>1, <3>4, OkSplits DEF TakeBytes
    <3>6. TakeWaits'
      BY <1>0, <2>2, <3>2 DEF TakeWaits
    <3>7. CASE blob = <<>>
      <4>1. fed = <<>> /\ (unsent = <<>> \/ spc # "send")
        <5>1. CASE fed \o unsent = <<>>
          BY <3>5, <5>1, ConcatEqualIffEmpty, ConcatProperties, LenProperties, EmptySeq
        <5>2. CASE fed = <<>> /\ fed \o unsent # <<>>
          <6>1. spc # "send"
            BY <3>7, <5>2, SendsBlob
          <6> QED BY <5>2, <6>1
        <5> QED BY <1>0, <3>7, <5>1, <5>2 DEF TakeBytes
      <4> QED
        BY <2>2, <2>4, <2>7, <3>2, <3>5, <3>6, <3>7, <4>1
        DEF Taking, TakeHears, TakeReads, TakeDone
    <3>8. CASE blob # <<>>
      <4>1. seen' \o s2c' = fed'
        BY <2>2, <3>3, <3>5, ConcatEmptySeq
      <4> QED
        BY <2>4, <3>2, <3>6, <3>8, <4>1 DEF Taking, TakeHears, TakeReads, TakeDone
    <3> QED BY <3>7, <3>8
  <2> QED BY <2>5, <2>6, <2>7
<1>7. ASSUME cpc = "get", ~reset, seen' = blob, seen' \o s2c' = fed,
             s2c' \in Seq(Byte), seen' \in Seq(Byte), s2c' = <<>> \/ fed # <<>>,
             UNCHANGED <<fed, unsent, spc, c2s, reply, store, reset, touched>>,
             cpc' = "took"
      PROVE  Taking'
  <2>1. fed \in Seq(Byte) /\ unsent \in Seq(Byte)
        /\ (fed = <<>> \/ fed \o unsent = blob)
    BY <1>0 DEF TakeBytes
  <2>2. s2c' = <<>> /\ (spc = "send" => unsent = <<>>)
    <3>1. CASE fed \o unsent = blob
      <4>1. s2c' = <<>> /\ unsent = <<>>
        <5>1. PICK a \in Seq(Byte), b \in Seq(Byte) : a = seen' /\ b = s2c'
          BY <1>7
        <5>2. a \o b = fed /\ fed \o unsent = a
          BY <1>7, <3>1, <5>1
        <5> QED BY <2>1, <5>1, <5>2, NothingLeft
      <4> QED BY <4>1
    <3>2. CASE fed \o unsent # blob
      BY <1>7, <2>1, <3>2, SendsBlob
    <3> QED BY <3>1, <3>2
  <2> QED
    BY <1>0, <1>7, <2>2
    DEF Taking, TakeBytes, TakeWaits, TakeHears, TakeReads, TakeDone
<1>8. CASE bio4_get
  <2>1. PICK k \in 1 .. Len(s2c) :
          /\ s2c' = Rest(s2c, k)
          /\ seen' = seen \o Front_(s2c, k)
          /\ IF ~output_fd THEN Exit("3")
             ELSE \/ /\ output' = output \o Front_(s2c, k)
                     /\ IF chew(seen') THEN GotBlob ELSE UNCHANGED <<cpc, exit_status>>
                  \/ cpc' = "exited" /\ exit_status' = "2"
    BY <1>8 DEF bio4_get
  <2>2. /\ UNCHANGED <<fed, unsent, spc, reply, c2s, reset, touched, store, nread>>
        /\ cpc = "get" /\ ~reset
    BY <1>8 DEF bio4_get
  <2>3. /\ s2c \in Seq(Byte) /\ seen \in Seq(Byte) /\ seen \o s2c = fed
    BY <1>0, <2>2 DEF TakeBytes, TakeReads
  <2>4. /\ seen' \in Seq(Byte) /\ s2c' \in Seq(Byte) /\ seen' \o s2c' = fed
    BY <2>1, <2>3, SendMore
  <2>5. fed # <<>>
    <3>1. s2c # <<>>
      BY <2>1
    <3> QED BY <2>3, <3>1, ConcatEqualIffEmpty
  <2>6. TakeBytes'
    BY <1>0, <2>2, <2>4 DEF TakeBytes
  <2>7. CASE cpc' = "took"
    <3>1. seen' = blob
      BY <2>1, <2>2, <2>7 DEF GotBlob, chew
    <3> QED BY <1>7, <2>2, <2>4, <2>5, <2>7, <3>1
  <2>8. CASE cpc' = "get"
    BY <1>0, <2>2, <2>4, <2>6, <2>8
    DEF Taking, TakeWaits, TakeHears, TakeReads, TakeDone
  <2>9. cpc' \in {"took", "get", "exited"}
    BY <2>1, <2>2 DEF GotBlob
  <2>10. CASE cpc' = "exited"
    BY <2>6, <2>10 DEF Taking, TakeWaits, TakeHears, TakeReads, TakeDone
  <2> QED BY <2>7, <2>8, <2>9, <2>10
<1>9. CASE read_end
  <2>1. /\ UNCHANGED <<fed, unsent, seen, s2c, spc, reply, c2s, reset, touched, store>>
        /\ ~reset /\ s2c = <<>>
        /\ \/ cpc' = "exited"
           \/ cpc = "get" /\ chew(seen) /\ cpc' = "took"
    BY <1>9 DEF read_end, GotBlob
  <2>2. CASE cpc' = "exited"
    BY <1>1, <2>1, <2>2
  <2>3. CASE cpc = "get" /\ chew(seen) /\ cpc' = "took"
    <3>1. /\ seen' = blob /\ seen' \o s2c' = fed /\ s2c' = <<>>
          /\ s2c' \in Seq(Byte) /\ seen' \in Seq(Byte)
      BY <1>0, <2>1, <2>3 DEF TakeReads, TakeBytes, chew
    <3> QED BY <1>7, <2>1, <2>3, <3>1
  <2> QED BY <2>1, <2>2, <2>3
<1> QED
  BY <1>2, <1>3, <1>4, <1>5, <1>6, <1>8, <1>9 DEF ClientStep

\* The child of a client that takes, and the connection.
LEMMA TakeChildStep ==
  ASSUME IInv, Undamaged, Taking, Places, Untouched,
         verb = "take", verb' = verb, blob' = blob,
         ChildStep \/ kill_child \/ reset_unread \/ cut \/ UNCHANGED vars
  PROVE  Taking'
<1> USE DEF given, client, child, files, disk, wires, past, Ended
<1>0. /\ TakeBytes /\ TakeWaits /\ TakeHears /\ TakeReads /\ TakeDone
      /\ ChildPlace /\ ClientPlace
  BY DEF Taking, IInv
<1>1. ASSUME UNCHANGED <<cpc, fed, unsent, seen, s2c, nread, c2s, reply, reset, store, touched>>,
             /\ spc' = spc \/ spc' \in {"done", "killed"}
             /\ spc \in {"idle", "scan"} => spc' = spc \/ s2c = <<>>
      PROVE  Taking'
  BY <1>0, <1>1 DEF Taking, TakeBytes, TakeWaits, TakeHears, TakeReads, TakeDone
<1>2. CASE scan_failed \/ read_reply_failed \/ kill_child \/ UNCHANGED vars
  <2>1. /\ UNCHANGED <<cpc, fed, unsent, seen, s2c, nread, c2s, reply, reset, store, touched>>
        /\ spc' = spc \/ spc' \in {"done", "killed"}
    BY <1>2 DEF scan_failed, read_reply_failed, kill_child, vars
  <2>2. spc \in {"idle", "scan"} => s2c = <<>>
    BY <1>0 DEF ChildPlace
  <2> QED BY <1>1, <2>1, <2>2
<1>3. CASE reset_unread \/ cut
  <2>1. /\ UNCHANGED <<cpc, fed, unsent, seen, reply, spc>>
        /\ reset' = TRUE /\ c2s' = <<>> /\ s2c' = <<>>
    BY <1>3 DEF reset_unread, cut, Reset
  <2> QED
    BY <1>0, <2>1 DEF Taking, TakeBytes, TakeWaits, TakeHears, TakeReads, TakeDone
<1>4. ~get /\ ~put /\ ~eat /\ ~roll /\ ~wrap
  <2>1. ASSUME NEW v, Asked(v) PROVE v = "take"
    BY <1>0, <2>1, OneUnit DEF Asked, ChildPlace
  <2> QED BY <1>0, <2>1 DEF get, put, eat, roll, wrap, Putters, ChildPlace
<1>5. ~fs_put_open /\ ~fs_put_bytes /\ ~fs_put_croak /\ ~arbor_rename /\ ~accept
  BY <1>0 DEF fs_put_open, fs_put_bytes, fs_put_croak, arbor_rename, accept,
     ChildPlace, Putters
<1>6. CASE take
  <2>1. /\ UNCHANGED <<cpc, fed, seen, nread, reply, reset, store, touched>>
        /\ spc = "scan" /\ c2s' = Tail(c2s) /\ c2s # <<>>
        /\ IF store = NoFile THEN Say(NO, "done") /\ UNCHANGED unsent
           ELSE Say(OK, "send") /\ unsent' = store
    BY <1>6 DEF take, Asked
  <2>2. /\ s2c = <<>> /\ fed = <<>> /\ reply = <<>> /\ c2s' = <<>>
        /\ cpc \in {"idle", "check", "open", "connect", "request", "reply", "exited"}
    BY <1>0, <2>1, OneUnit DEF ChildPlace
  <2>3. cpc = "reply" => ~touched
    BY <2>1 DEF Untouched
  <2>4. CASE store = NoFile
    <3>1. /\ spc' = "done" /\ UNCHANGED unsent
          /\ IF reset THEN s2c' = <<>> ELSE s2c' = NO
      BY <2>1, <2>2, <2>4, ReplySplits DEF Say
    <3>2. NO \in Seq(Byte) /\ <<>> \in Seq(Byte)
      BY DEF NO, Byte
    <3> QED
      BY <1>0, <2>1, <2>2, <2>3, <3>1, <3>2
      DEF Taking, TakeBytes, TakeWaits, TakeHears, TakeReads, TakeDone
  <2>5. CASE store # NoFile
    <3>1. store = blob /\ blob \in Seq(Byte) /\ <<>> \o blob = blob
      BY <2>5, StoredBytes DEF Undamaged, IInv
    <3>2. /\ unsent' = blob /\ spc' \in {"send", "done"}
          /\ IF reset THEN s2c' = <<>> ELSE s2c' = OK
      BY <2>1, <2>2, <2>5, <3>1, ReplySplits DEF Say
    <3>3. OK \in Seq(Byte) /\ <<>> \in Seq(Byte) /\ OK \o <<>> = OK
      BY ReplySplits DEF OK, Byte
    <3> QED
      BY <1>0, <2>1, <2>2, <3>1, <3>2, <3>3
      DEF Taking, TakeBytes, TakeWaits, TakeHears, TakeReads, TakeDone
  <2> QED BY <2>4, <2>5
<1>7. CASE fs_get_bytes
  <2>1. /\ UNCHANGED <<cpc, seen, nread, c2s, reply, reset, store, touched>>
        /\ spc = "send" /\ unsent # <<>>
    BY <1>7 DEF fs_get_bytes
  <2>2. /\ fed \in Seq(Byte) /\ unsent \in Seq(Byte) /\ fed \o unsent = blob
        /\ s2c \in Seq(Byte) /\ seen \in Seq(Byte)
    BY <1>0, <2>1, SendsBlob DEF TakeBytes
  <2>3. CASE spc' = "done" /\ UNCHANGED <<unsent, fed, s2c>>
    BY <1>1, <2>1, <2>3
  <2>4. ASSUME NEW k \in 1 .. Len(unsent), ~reset, s2c' = s2c \o Front_(unsent, k),
               unsent' = Rest(unsent, k), fed' = fed \o Front_(unsent, k), UNCHANGED spc
        PROVE  Taking'
    <3>1. PICK f \in Seq(Byte) : f = Front_(unsent, k)
      BY <2>2, FrontRest
    <3>2. /\ fed' \in Seq(Byte) /\ unsent' \in Seq(Byte) /\ fed' \o unsent' = blob
      BY <2>2, <2>4, SendMore
    <3>3. s2c' = s2c \o f /\ fed' = fed \o f /\ s2c' \in Seq(Byte)
      BY <2>2, <2>4, <3>1, ConcatProperties
    <3>4. cpc \notin {"took", "reply3"}
      BY <1>0, <2>1, <2>4 DEF TakeDone
    <3>5. TakeHears'
      <4>1. ASSUME cpc = "reply", nread = 0 PROVE s2c' = OK \o fed'
        <5>1. s2c = OK \o fed /\ OK \in Seq(Byte)
          BY <1>0, <2>1, <2>4, <4>1 DEF TakeHears, OK, Byte
        <5>2. (OK \o fed) \o f = OK \o (fed \o f)
          BY <2>2, <5>1, BytesAssociate, Zenon
        <5> QED BY <3>3, <5>1, <5>2
      <4> QED BY <2>1, <4>1 DEF TakeHears
    <3>6. TakeReads'
      <4>1. ASSUME cpc = "get" PROVE seen \o s2c' = fed'
        <5>1. seen \o s2c = fed
          BY <1>0, <2>4, <4>1 DEF TakeReads
        <5>2. (seen \o s2c) \o f = seen \o (s2c \o f)
          BY <2>2, BytesAssociate, Zenon
        <5> QED BY <3>3, <5>1, <5>2
      <4> QED BY <2>1, <4>1 DEF TakeReads
    <3>7. TakeBytes'
      BY <2>1, <2>2, <3>2, <3>3 DEF TakeBytes
    <3>8. TakeWaits' /\ TakeDone'
      BY <1>0, <2>1, <2>4, <3>4 DEF TakeWaits, TakeDone
    <3> QED BY <3>5, <3>6, <3>7, <3>8 DEF Taking
  <2> QED BY <1>7, <2>3, <2>4 DEF fs_get_bytes
<1>8. CASE fs_get_bytes_end
  <2>1. /\ UNCHANGED <<cpc, seen, nread, c2s, s2c, unsent, fed, reply, reset, touched>>
        /\ spc = "send" /\ unsent = <<>> /\ spc' \in {"reply", "done"}
    BY <1>8 DEF fs_get_bytes_end
  <2> QED
    BY <1>0, <2>1 DEF Taking, TakeBytes, TakeWaits, TakeHears, TakeReads, TakeDone
<1>9. CASE read_reply
  <2>1. /\ UNCHANGED <<cpc, seen, nread, s2c, unsent, fed, reset>>
        /\ spc = "reply" /\ c2s # <<>>
    BY <1>9, ReplySplits DEF read_reply
  <2>2. cpc \notin {"reply", "get", "took"}
    BY <1>0, <2>1 DEF TakeWaits
  <2>3. spc' # "send"
    BY <1>9 DEF read_reply, take_reply
  <2> QED
    BY <1>0, <2>1, <2>2, <2>3
    DEF Taking, TakeBytes, TakeWaits, TakeHears, TakeReads, TakeDone
<1>10. CASE forgot
  <2>1. /\ UNCHANGED <<cpc, seen, nread, c2s, unsent, fed, reply, reset, store, touched>>
        /\ spc = "forgot" /\ spc' = "done" /\ store = NoFile
        /\ IF reset THEN s2c' = s2c ELSE s2c' = s2c \o OK
    BY <1>10 DEF forgot, Say, Places
  <2>2. cpc \notin {"reply", "get", "took"}
    BY <1>0, <2>1 DEF TakeWaits
  <2>3. s2c' \in Seq(Byte)
    <3>1. OK \in Seq(Byte)
      BY DEF OK, Byte
    <3> QED BY <1>0, <2>1, <3>1, ConcatProperties DEF TakeBytes
  <2>4. TakeBytes'
    BY <1>0, <2>1, <2>3 DEF TakeBytes
  <2> QED
    BY <1>0, <2>1, <2>2, <2>4, ReplySplits
    DEF Taking, TakeWaits, TakeHears, TakeReads, TakeDone
<1> QED
  BY <1>2, <1>3, <1>4, <1>5, <1>6, <1>7, <1>8, <1>9, <1>10 DEF ChildStep

\* Where the steps of others leave the files and the history.
LEMMA PlaceStep ==
  ASSUME IInv, DInv, [Next]_vars, UNCHANGED <<verb, blob>>,
         \A v \in Verbs : ~start(v)
  PROVE  Undamaged' /\ Opened' /\ Places' /\ Untouched'
<1> USE DEF Exit, ExitAtOnce, cleanup, given, client, child, files, disk, wires, past
<1>0. /\ Undamaged /\ Opened /\ Places /\ Untouched
      /\ ChildPlace /\ ClientPlace /\ TmpHeld
  BY DEF IInv, DInv
<1>1. CASE main \/ stranger \/ bio4_open_output \/ bio4_connect \/ make_request
           \/ read_error \/ read_timeout \/ kill_client \/ catch_write_ALRM
  <2>1. /\ UNCHANGED <<store, touched, seen>>
        /\ cpc' \in {"open", "connect", "request", "reply", "exited"}
        /\ \/ spc' = spc
           \/ spc \in {"idle", "scan"} /\ spc' = "scan"
    BY <1>0, <1>1 DEF main, stranger, bio4_open_output, bio4_connect, make_request,
       read_error, read_timeout, kill_client, catch_write_ALRM, Write_fails,
       ClientPlace
  <2>2. Opened'
    BY <1>0, <1>1, <2>1 DEF main, stranger, bio4_open_output, bio4_connect,
       make_request, read_error, read_timeout, kill_client, catch_write_ALRM,
       Write_fails, ClientPlace, Opened, Getters
  <2>3. cpc \notin {"unlink", "gave", "exited"} \/ cpc' = "exited"
    BY <1>1 DEF main, stranger, bio4_open_output, bio4_connect, make_request,
       read_error, read_timeout, kill_client, catch_write_ALRM, Write_fails
  <2> QED BY <1>0, <2>1, <2>2, <2>3 DEF Undamaged, Places, Untouched
<1>2. CASE put_trusted \/ put_untrusted \/ bio4_give \/ gave
  <2>1. /\ UNCHANGED <<store, spc>> /\ verb \in Putters
        /\ cpc' \in {"put", "reply2", "gave", "exited"}
    BY <1>0, <1>2 DEF put_trusted, put_untrusted, bio4_give, gave, Write_fails,
       ClientPlace, Putters
  <2>2. \/ cpc = "put" /\ UNCHANGED touched /\ cpc' # "gave"
        \/ cpc' = "gave" /\ cpc = "unlink" /\ input' = NoFile
        \/ cpc' = "exited"
    BY <1>2 DEF put_trusted, put_untrusted, bio4_give, gave, Write_fails
  <2>3. cpc = "unlink" => store = blob
    BY <2>1 DEF IInv, Replies
  <2> QED
    BY <1>0, <2>1, <2>2, <2>3
    DEF Undamaged, Opened, Places, Untouched, Getters, Putters
<1>3. CASE bio4_take
  <2>1. /\ UNCHANGED <<store, touched, spc, output_fd>> /\ cpc = "took"
        /\ \/ cpc' = "reply3" /\ UNCHANGED output
           \/ cpc' = "exited"
    BY <1>3 DEF bio4_take, Write_fails
  <2> QED BY <1>0, <2>1 DEF Undamaged, Opened, Places, Untouched
<1>4. CASE read_ok_no
  <2>1. /\ UNCHANGED <<store, touched, spc, output_fd, seen>>
        /\ cpc \in {"reply", "reply2", "reply3"}
        /\ \/ UNCHANGED <<cpc, output>>
           \/ cpc' = "exited"
           \/ Accepted
    BY <1>4 DEF read_ok_no, AwaitsReply
  <2>2. CASE UNCHANGED <<cpc, output>>
    BY <1>0, <2>1, <2>2 DEF Undamaged, Opened, Places, Untouched
  <2>3. CASE cpc' = "exited"
    BY <1>0, <2>1, <2>3 DEF Undamaged, Opened, Places, Untouched
  <2>4. CASE Accepted /\ cpc' # "exited"
    <3>1. /\ UNCHANGED output
          /\ \/ cpc = "reply" /\ verb \in Putters /\ cpc' = "put"
             \/ cpc = "reply" /\ verb = "take"
                /\ cpc' = IF blob = <<>> THEN "took" ELSE "get"
             \/ cpc = "reply" /\ verb = "get" /\ cpc' = "get"
             \/ cpc = "reply" /\ verb = "wrap" /\ cpc' = "wrap"
             \/ cpc = "reply2" /\ verb = "give" /\ cpc' = "unlink"
      BY <2>4 DEF Accepted, Putters
    <3> QED
      BY <1>0, <2>1, <3>1 DEF Undamaged, Opened, Places, Untouched, Getters, Putters
  <2> QED BY <2>1, <2>2, <2>3, <2>4
<1>5. CASE bio4_get
  <2>1. /\ UNCHANGED <<store, touched, spc, output_fd>> /\ cpc = "get"
        /\ \/ cpc' = "exited"
           \/ output_fd /\ cpc' = "get"
           \/ output_fd /\ verb = "take" /\ cpc' = "took"
    <3>1. PICK k \in 1 .. Len(s2c) :
            IF ~output_fd THEN Exit("3")
            ELSE \/ /\ output' = output \o Front_(s2c, k)
                    /\ IF chew(seen') THEN GotBlob ELSE UNCHANGED <<cpc, exit_status>>
                 \/ cpc' = "exited"
      BY <1>5 DEF bio4_get
    <3>2. UNCHANGED <<store, touched, spc, output_fd>> /\ cpc = "get"
      BY <1>5 DEF bio4_get
    <3> QED BY <3>1, <3>2 DEF GotBlob
  <2> QED BY <1>0, <2>1 DEF Undamaged, Opened, Places, Untouched
<1>6. CASE bio4_wrap
  <2>1. /\ UNCHANGED <<store, touched, spc>> /\ cpc = "wrap"
        /\ cpc' \in {"wrap", "exited"}
    BY <1>6 DEF bio4_wrap
  <2> QED
    BY <1>0, <2>1 DEF Undamaged, Opened, Places, Untouched, ClientPlace, Getters
<1>7. CASE read_end
  <2>1. /\ UNCHANGED <<store, touched, spc, output_fd>>
        /\ \/ cpc' = "exited"
           \/ cpc = "get" /\ seen = blob /\ verb = "take" /\ cpc' = "took"
              /\ UNCHANGED output
    BY <1>7 DEF read_end, GotBlob, chew
  <2> QED BY <1>0, <2>1 DEF Undamaged, Opened, Places, Untouched
<1>8. CASE scan_failed \/ get \/ take \/ put \/ eat \/ roll \/ wrap \/ fs_get_bytes
           \/ fs_put_open \/ fs_put_bytes \/ fs_put_croak \/ accept
           \/ read_reply_failed \/ forgot \/ kill_child \/ reset_unread \/ cut
           \/ UNCHANGED vars
  <2>1. UNCHANGED <<cpc, output, output_fd, seen, input, store, touched>>
    BY <1>8 DEF scan_failed, get, take, put, eat, roll, wrap, fs_get_bytes,
       fs_put_open, fs_put_bytes, fs_put_croak, accept, read_reply_failed, forgot,
       kill_child, reset_unread, cut, Reset, vars
  <2>2. spc' # "forgot" \/ spc' = spc
    BY <1>8 DEF scan_failed, get, take, put, eat, roll, wrap, fs_get_bytes,
       fs_put_open, fs_put_bytes, fs_put_croak, accept, read_reply_failed, forgot,
       kill_child, reset_unread, cut, Reset, vars, Say
  <2>3. spc' \in {"idle", "scan", "tmp", "recv", "digested"}
          => spc \in {"idle", "scan", "tmp", "recv", "digested"}
    BY <1>8 DEF scan_failed, get, take, put, eat, roll, wrap, fs_get_bytes,
       fs_put_open, fs_put_bytes, fs_put_croak, accept, read_reply_failed, forgot,
       kill_child, reset_unread, cut, Reset, vars, Say, Asked
  <2> QED
    BY <1>0, <2>1, <2>2, <2>3 DEF Undamaged, Opened, Places, Untouched
<1>9. CASE fs_get_bytes_end
  <2>1. /\ UNCHANGED <<cpc, output, output_fd, seen, input, touched>>
        /\ spc = "send" /\ unsent = <<>> /\ spc' \in {"reply", "done"}
        /\ fed # blob => store' \in {store, NoFile}
        /\ fed = blob => store' = store
    BY <1>9 DEF fs_get_bytes_end
  <2>2. verb \in Getters
    BY <1>0, <2>1 DEF ChildPlace
  <2>3. cpc # "gave"
    BY <1>0, <2>2 DEF ClientPlace, Getters
  <2> QED BY <1>0, <2>1, <2>3 DEF Undamaged, Opened, Places, Untouched
<1>10. CASE arbor_rename
  <2>1. /\ UNCHANGED <<cpc, output, output_fd, seen, input>>
        /\ spc = "digested" /\ spc' = "accepted" /\ store' = blob
        /\ verb \in Putters
    BY <1>0, <1>10 DEF arbor_rename, TmpHeld, ChildPlace
  <2> QED BY <1>0, <2>1 DEF Undamaged, Opened, Places, Untouched
<1>11. CASE read_reply
  <2>1. /\ UNCHANGED <<cpc, output, output_fd, seen, input>>
        /\ spc = "reply" /\ spc' \in {"reply", "done", "forgot"}
        /\ \/ UNCHANGED <<store, touched>> /\ spc' # "forgot"
           \/ verb = "take" /\ store' = NoFile
    BY <1>11 DEF read_reply, take_reply
  <2>2. cpc = "gave" => verb = "give"
    BY <1>0 DEF ClientPlace
  <2> QED BY <1>0, <2>1, <2>2 DEF Undamaged, Opened, Places, Untouched
<1> QED
  BY <1>1, <1>2, <1>3, <1>4, <1>5, <1>6, <1>7, <1>8, <1>9, <1>10, <1>11
  DEF Next, ClientStep, ChildStep

\* A client that puts or gives.
LEMMA PutStep ==
  ASSUME IInv, DInv, [Next]_vars, verb \in Putters, UNCHANGED <<verb, blob>>,
         \A v \in Verbs : ~start(v)
  PROVE  Putting'
<1> USE DEF Exit, ExitAtOnce, cleanup, given, client, child, files, disk, wires, past
<1>0. /\ Putting /\ Untouched /\ Places /\ ChildPlace /\ ClientPlace /\ Replies
      /\ verb \notin Getters /\ verb \notin {"take", "wrap", "eat", "roll", "get"}
      /\ verb' \in Putters
  BY DEF IInv, DInv, Putters, Getters
<1>16. <<>> # NO /\ <<>> # OK \o NO
  <2>1. NO \in Seq(Byte)
    BY DEF NO, Byte
  <2> QED BY <2>1, OkSplits, ReplySplits
<1>1. ASSUME cpc' \notin {"reply", "put", "reply2"} PROVE Putting'
  BY <1>1 DEF Putting
<1>2. ASSUME UNCHANGED <<s2c, nread, reset, store, touched>>,
             cpc' = cpc \/ (cpc = "put" /\ cpc' = "reply2"),
             Ended => Ended',
             spc' \in {"tmp", "recv", "digested", "accepted"}
               => spc \in {"tmp", "recv", "digested", "accepted"}
      PROVE  Putting'
  BY <1>0, <1>2 DEF Putting, SecondReply
<1>3. CASE main \/ stranger \/ bio4_open_output \/ bio4_connect \/ bio4_give \/ gave
           \/ bio4_take \/ bio4_get \/ bio4_wrap \/ read_end \/ read_error
           \/ read_timeout \/ kill_client \/ catch_write_ALRM
  <2>1. cpc' \notin {"reply", "put", "reply2"}
    BY <1>0, <1>3 DEF main, stranger, bio4_open_output, bio4_connect, bio4_give, gave,
       bio4_take, bio4_get, bio4_wrap, read_end, read_error, read_timeout,
       kill_client, catch_write_ALRM, Write_fails, Places, ClientPlace
  <2> QED BY <1>1, <2>1
<1>4. CASE make_request
  <2>1. /\ UNCHANGED <<s2c, nread, reset, store, touched, spc>>
        /\ cpc = "request" /\ cpc' \in {"reply", "exited"}
    BY <1>4 DEF make_request, Write_fails
  <2>2. s2c = <<>> /\ spc \in {"scan", "done", "killed"}
    BY <1>0, <2>1 DEF ClientPlace
  <2> QED BY <1>16, <2>1, <2>2 DEF Putting
<1>5. CASE put_trusted \/ put_untrusted
  <2>1. /\ UNCHANGED <<s2c, nread, reset, store, touched, spc>>
        /\ cpc = "put" /\ cpc' \in {"put", "reply2", "exited"}
    BY <1>5 DEF put_trusted, put_untrusted, Write_fails
  <2> QED BY <1>1, <1>2, <2>1 DEF Ended
<1>6. CASE read_ok_no
  <2>1. PICK k \in 1 .. 3 - nread :
          /\ k <= Len(s2c) /\ s2c' = Rest(s2c, k)
          /\ IF nread + k < 3 THEN nread' = nread + k /\ UNCHANGED <<cpc, exit_status, output>>
             ELSE /\ nread' = 0
                  /\ IF nread = 0 /\ Front_(s2c, 3) = OK THEN Accepted
                     ELSE IF nread = 0 /\ Front_(s2c, 3) = NO THEN Exit("1")
                     ELSE Exit("3")
    BY <1>6 DEF read_ok_no
  <2>2. /\ UNCHANGED <<spc, reset, touched, store>>
        /\ cpc \in {"reply", "reply2", "reply3"} /\ ~reset
    BY <1>6 DEF read_ok_no, AwaitsReply
  <2>3. s2c # <<>> /\ nread \in 0..2
    BY <1>0, <2>1, ReplySplits DEF ClientPlace
  <2>4. CASE nread' # 0
    BY <2>4 DEF Putting
  <2>5. CASE nread' = 0 /\ cpc' = "put"
    <3>1. nread = 0 /\ k = 3 /\ Front_(s2c, 3) = OK /\ Accepted
      BY <1>0, <2>1, <2>2, <2>3, <2>5
    <3>2. cpc = "reply"
      BY <2>5, <3>1 DEF Accepted
    <3>3. PICK w \in SecondReply : s2c = OK \o w
      BY <1>0, <2>3, <3>1, <3>2 DEF Putting
    <3>4. s2c' = w /\ w \in {<<>>, OK, NO}
      BY <2>1, <3>1, <3>3, ReplySplits DEF SecondReply
    <3>5. w = NO => ~touched /\ Ended
      BY <1>0, <3>1, <3>2, <3>3 DEF Putting
    <3> QED BY <2>2, <2>5, <3>4, <3>5 DEF Putting, Ended
  <2>6. cpc' \in {"put", "unlink", "exited"} \/ nread' # 0
    BY <1>0, <2>1, <2>2, <2>3 DEF Accepted
  <2> QED BY <1>1, <2>4, <2>5, <2>6
<1>7. CASE scan_failed \/ read_reply_failed \/ kill_child \/ fs_put_open
           \/ fs_put_bytes \/ UNCHANGED vars
  <2>1. /\ UNCHANGED <<s2c, nread, reset, store, touched, cpc>>
        /\ Ended => Ended'
        /\ spc' \in {"tmp", "recv", "digested", "accepted"}
               => spc \in {"tmp", "recv", "digested", "accepted"}
    BY <1>7 DEF scan_failed, read_reply_failed, kill_child, fs_put_open,
       fs_put_bytes, vars, Ended
  <2> QED BY <1>2, <2>1
<1>8. ~get /\ ~take /\ ~eat /\ ~roll /\ ~wrap
  <2>1. ASSUME NEW v, Asked(v) PROVE v = verb
    BY <2>1, <1>0, OneUnit DEF Asked, ChildPlace
  <2> QED BY <1>0, <2>1 DEF get, take, eat, roll, wrap, ChildPlace
<1>9. ~fs_get_bytes /\ ~fs_get_bytes_end /\ ~forgot
  BY <1>0 DEF fs_get_bytes, fs_get_bytes_end, forgot, ChildPlace
<1>10. CASE put
  <2>1. /\ UNCHANGED <<nread, reset, store, touched, cpc>> /\ spc = "scan"
        /\ Say(OK, "tmp")
    BY <1>10 DEF put, Asked
  <2>2. s2c = <<>> /\ cpc \notin {"put", "reply2"}
    BY <1>0, <2>1 DEF ChildPlace
  <2>3. IF reset THEN s2c' = <<>> /\ spc' = "done" ELSE s2c' = OK /\ spc' = "tmp"
    BY <2>1, <2>2, ReplySplits DEF Say
  <2>4. OK = OK \o <<>> /\ OK # OK \o NO /\ OK \o NO # <<>> /\ <<>> \in SecondReply'
    <3>1. Rest(OK \o <<>>, 3) = <<>> /\ Rest(OK \o NO, 3) = NO /\ OK = OK \o <<>>
      BY ReplySplits
    <3> QED BY <1>16, <3>1 DEF SecondReply
  <2> QED BY <2>1, <2>2, <2>3, <2>4 DEF Putting
<1>11. CASE fs_put_croak
  <2>1. /\ UNCHANGED <<nread, reset, store, touched, cpc>> /\ spc = "recv"
        /\ Say(NO, "done")
    BY <1>11 DEF fs_put_croak
  <2>2. /\ spc' = "done" /\ Ended'
        /\ IF reset THEN s2c' = s2c ELSE s2c' = s2c \o NO
    BY <2>1 DEF Say, Ended
  <2>3. CASE reset
    <3>1. ~touched \/ cpc \notin {"reply", "put", "reply2"}
      BY <1>0, <2>1 DEF Untouched
    <3> QED BY <1>0, <2>1, <2>2, <2>3, <3>1 DEF Putting, SecondReply
  <2>4. CASE ~reset
    <3>1. ~touched \/ cpc \notin {"reply", "put", "reply2"}
      BY <1>0, <2>1 DEF Untouched
    <3>2. cpc = "reply" /\ nread = 0 => s2c' = OK \o NO
      BY <1>0, <2>1, <2>2, <2>4 DEF Putting
    <3>3. NO \in SecondReply'
      BY DEF SecondReply
    <3> QED BY <2>1, <2>2, <3>1, <3>2, <3>3 DEF Putting
  <2> QED BY <2>3, <2>4
<1>12. CASE arbor_rename
  <2>1. /\ UNCHANGED <<nread, reset, cpc, s2c>> /\ spc = "digested" /\ spc' = "accepted"
        /\ store' = blob
    BY <1>12 DEF arbor_rename, IInv, TmpHeld
  <2>2. ~Ended
    BY <2>1 DEF Ended
  <2> QED BY <1>0, <2>1, <2>2 DEF Putting, SecondReply
<1>13. CASE accept
  <2>1. /\ UNCHANGED <<nread, reset, cpc, store, touched>> /\ spc = "accepted"
        /\ spc' \in {"reply", "done"} /\ store = blob
        /\ IF reset THEN s2c' = s2c ELSE s2c' = s2c \o OK
    BY <1>0, <1>13 DEF accept, Say, Replies
  <2>2. ~Ended
    BY <2>1 DEF Ended
  <2>3. CASE reset
    BY <1>0, <2>1, <2>2, <2>3 DEF Putting, SecondReply
  <2>4. CASE ~reset
    <3>1. cpc = "reply" /\ nread = 0 => s2c' = OK \o OK
      BY <1>0, <2>1, <2>4 DEF Putting
    <3>2. cpc \in {"put", "reply2"} /\ nread = 0 => s2c' = OK
      BY <1>0, <2>1, <2>4, ReplySplits DEF Replies
    <3>3. OK \in SecondReply' /\ OK # NO /\ OK \o OK # OK \o NO
      BY <2>1, ReplySplits DEF SecondReply
    <3> QED BY <2>1, <3>1, <3>2, <3>3 DEF Putting
  <2> QED BY <2>3, <2>4
<1>14. CASE read_reply
  <2>1. UNCHANGED <<s2c, nread, reset, store, touched, cpc>> /\ spc = "reply"
        /\ spc' \in {"reply", "done"}
    BY <1>0, <1>14 DEF read_reply
  <2> QED BY <1>2, <2>1 DEF Ended
<1>15. CASE reset_unread \/ cut
  <2>1. s2c' = <<>> /\ reset' = TRUE
    BY <1>15 DEF reset_unread, cut, Reset
  <2> QED BY <1>16, <2>1 DEF Putting
<1> QED
  BY <1>3, <1>4, <1>5, <1>6, <1>7, <1>8, <1>9, <1>10, <1>11, <1>12, <1>13, <1>14, <1>15
  DEF Next, ClientStep, ChildStep

\* A client that eats.
LEMMA EatStep ==
  ASSUME IInv, DInv, [Next]_vars, verb = "eat", UNCHANGED <<verb, blob, trust_fs>>,
         \A v \in Verbs : ~start(v)
  PROVE  Eating'
<1> USE DEF Exit, ExitAtOnce, cleanup, given, client, child, files, disk, wires, past
<1>0. /\ Eating /\ Places /\ ChildPlace /\ ClientPlace
  BY DEF IInv, DInv
<1>1. ASSUME UNCHANGED <<s2c, nread, store, cpc>> PROVE Eating'
  BY <1>0, <1>1 DEF Eating
<1>2. CASE ClientStep \/ catch_write_ALRM \/ read_timeout \/ stranger \/ kill_client
  <2>1. CASE make_request
    <3>1. cpc = "request" /\ UNCHANGED s2c
      BY <2>1 DEF make_request
    <3> QED BY <1>0, <3>1 DEF ClientPlace, Eating
  <2>2. CASE read_ok_no
    <3>1. \/ nread' # 0 \/ cpc' = "exited" \/ cpc' # "reply"
      BY <1>0, <2>2 DEF read_ok_no, Accepted, ClientPlace, AwaitsReply
    <3> QED BY <3>1 DEF Eating
  <2>3. CASE ~make_request /\ ~read_ok_no
    <3>1. cpc' # "reply"
      BY <1>0, <1>2, <2>3 DEF ClientStep, main, bio4_open_output, bio4_connect,
         put_trusted, put_untrusted, bio4_give, gave, bio4_take, bio4_get, bio4_wrap,
         read_end, read_error, catch_write_ALRM, read_timeout, stranger, kill_client,
         Write_fails, GotBlob
    <3> QED BY <3>1 DEF Eating
  <2> QED BY <2>1, <2>2, <2>3
<1>3. CASE eat
  <2>1. spc = "scan" /\ UNCHANGED <<store, nread, cpc>>
    BY <1>3 DEF eat, Asked
  <2>2. s2c = <<>>
    BY <1>0, <2>1 DEF ChildPlace
  <2>3. s2c' = <<>> \/ s2c' = NO \/ (s2c' = OK /\ store # NoFile /\ (trust_fs \/ store = blob))
    <3>1. blob # NoFile
      BY NoFileIsNone, SessionAssumption DEF IInv
    <3> QED BY <1>3, <2>2, <3>1, ReplySplits DEF eat, Say
  <2> QED BY <2>1, <2>3 DEF Eating
<1>4. ~get /\ ~put /\ ~take /\ ~roll /\ ~wrap
  <2>1. ASSUME NEW v, Asked(v) PROVE v = "eat"
    BY <1>0, <2>1, OneUnit DEF Asked, ChildPlace
  <2> QED BY <1>0, <2>1 DEF get, put, take, roll, wrap, Putters, ChildPlace
<1>5. /\ ~fs_put_open /\ ~fs_put_bytes /\ ~fs_put_croak /\ ~arbor_rename /\ ~accept
      /\ ~fs_get_bytes /\ ~fs_get_bytes_end /\ ~read_reply /\ ~forgot
  BY <1>0 DEF fs_put_open, fs_put_bytes, fs_put_croak, arbor_rename, accept,
     fs_get_bytes, fs_get_bytes_end, read_reply, forgot, ChildPlace, Putters, Getters
<1>6. CASE scan_failed \/ read_reply_failed \/ kill_child \/ UNCHANGED vars
  <2>1. UNCHANGED <<s2c, nread, store, cpc>>
    BY <1>6 DEF scan_failed, read_reply_failed, kill_child, vars
  <2> QED BY <1>1, <2>1
<1>7. CASE reset_unread \/ cut
  <2>1. s2c' = <<>>
    BY <1>7 DEF reset_unread, cut, Reset
  <2> QED BY <2>1 DEF Eating
<1> QED BY <1>2, <1>3, <1>4, <1>5, <1>6, <1>7 DEF Next, ChildStep

\* A client that wraps.
LEMMA WrapStep ==
  ASSUME IInv, DInv, [Next]_vars, verb = "wrap", UNCHANGED <<verb, blob>>,
         \A v \in Verbs : ~start(v)
  PROVE  Wrapping'
<1> USE DEF Exit, ExitAtOnce, cleanup, given, client, child, files, disk, wires, past
<1>0. /\ Wrapping /\ Places /\ ChildPlace /\ ClientPlace
      /\ s2c \in Seq(Byte) /\ seen \in Seq(Byte)
      /\ Udig \in Seq(Byte) /\ OK \in Seq(Byte) /\ NO \in Seq(Byte)
      /\ <<>> \in Seq(Byte)
  BY SessionAssumption DEF IInv, DInv, Wrapping, OK, NO, Byte
<1>1. ASSUME UNCHANGED <<s2c, seen>>, cpc' \notin {"reply", "wrap"} PROVE Wrapping'
  BY <1>0, <1>1 DEF Wrapping
<1>2. CASE main \/ stranger \/ bio4_open_output \/ bio4_connect \/ read_end
           \/ read_error \/ read_timeout \/ kill_client \/ catch_write_ALRM
  <2>1. UNCHANGED <<s2c, seen>> /\ cpc' \notin {"reply", "wrap"}
    BY <1>2 DEF main, stranger, bio4_open_output, bio4_connect, read_end, read_error,
       read_timeout, kill_client, catch_write_ALRM, GotBlob
  <2> QED BY <1>1, <2>1
<1>3. ~put_trusted /\ ~put_untrusted /\ ~bio4_give /\ ~gave /\ ~bio4_take /\ ~bio4_get
  BY <1>0 DEF put_trusted, put_untrusted, bio4_give, gave, bio4_take, bio4_get,
     ClientPlace, Places, Putters, Getters
<1>4. CASE make_request
  <2>1. /\ UNCHANGED <<s2c, seen, spc>> /\ cpc = "request" /\ cpc' \in {"reply", "exited"}
    BY <1>4 DEF make_request, Write_fails
  <2>2. s2c = <<>> /\ spc # "wrapped"
    BY <1>0, <2>1 DEF ClientPlace
  <2> QED BY <1>0, <2>1, <2>2 DEF Wrapping
<1>5. CASE read_ok_no
  <2>1. PICK k \in 1 .. 3 - nread :
          /\ k <= Len(s2c) /\ s2c' = Rest(s2c, k)
          /\ IF nread + k < 3 THEN nread' = nread + k /\ UNCHANGED <<cpc, exit_status, output>>
             ELSE /\ nread' = 0
                  /\ IF nread = 0 /\ Front_(s2c, 3) = OK THEN Accepted
                     ELSE IF nread = 0 /\ Front_(s2c, 3) = NO THEN Exit("1")
                     ELSE Exit("3")
    BY <1>5 DEF read_ok_no
  <2>2. /\ UNCHANGED <<spc, reset, seen>> /\ nread \in 0..2
        /\ cpc \in {"reply", "reply2", "reply3"} /\ ~reset
    BY <1>0, <1>5 DEF read_ok_no, AwaitsReply, ClientPlace
  <2>3. s2c' \in Seq(Byte) /\ s2c # <<>>
    <3>1. k \in 1..Len(s2c)
      BY <1>0, <2>1, <2>2, LenProperties
    <3> QED BY <1>0, <2>1, <3>1, FrontRest
  <2>4. CASE nread' # 0
    <3>1. cpc' = cpc
      BY <2>1, <2>4
    <3> QED BY <1>0, <2>2, <2>3, <2>4, <3>1 DEF Wrapping
  <2>5. CASE cpc' \notin {"reply", "wrap"}
    BY <1>0, <2>2, <2>3, <2>5 DEF Wrapping
  <2>6. CASE nread' = 0 /\ cpc' \in {"reply", "wrap"}
    <3>1. nread = 0 /\ k = 3 /\ Front_(s2c, 3) = OK /\ Accepted
      BY <2>1, <2>2, <2>6
    <3>2. cpc = "reply" /\ cpc' = "wrap"
      BY <2>6, <3>1 DEF Accepted, Putters
    <3>3. s2c = OK \/ s2c = OK \o Udig
      BY <1>0, <2>2, <2>3, <3>1, <3>2, ReplySplits DEF Wrapping
    <3>4. seen = <<>>
      BY <1>0, <3>2 DEF ClientPlace
    <3>5. CASE s2c = OK
      <4>1. s2c' = <<>>
        BY <2>1, <3>1, <3>5, ReplySplits
      <4> QED BY <2>2, <2>3, <3>2, <3>4, <4>1 DEF Wrapping
    <3>6. CASE s2c = OK \o Udig /\ s2c # OK
      <4>1. s2c' = Udig /\ <<>> \o Udig = Udig
        BY <1>0, <2>1, <3>1, <3>6, OkSplits, ConcatEmptySeq
      <4>2. spc # "wrapped"
        BY <1>0, <2>2, <3>1, <3>2, <3>6 DEF Wrapping
      <4> QED BY <1>0, <2>2, <2>3, <3>2, <3>4, <4>1, <4>2 DEF Wrapping
    <3> QED BY <3>3, <3>5, <3>6
  <2> QED BY <2>4, <2>5, <2>6
<1>6. CASE bio4_wrap
  <2>1. PICK k \in 1 .. Len(s2c) : s2c' = Rest(s2c, k) /\ seen' = seen \o Front_(s2c, k)
    BY <1>6 DEF bio4_wrap
  <2>2. /\ UNCHANGED <<spc, reset>> /\ ~reset /\ cpc = "wrap"
        /\ cpc' \in {"wrap", "exited"}
    BY <1>6 DEF bio4_wrap
  <2>3. /\ seen' \in Seq(Byte) /\ s2c' \in Seq(Byte) /\ seen' \o s2c' = seen \o s2c
    BY <1>0, <2>1, SendMore
  <2>4. s2c # <<>>
    BY <2>1
  <2> QED BY <1>0, <2>2, <2>3, <2>4 DEF Wrapping
<1>7. CASE scan_failed \/ read_reply_failed \/ kill_child \/ UNCHANGED vars
  <2>1. /\ UNCHANGED <<s2c, seen, nread, cpc, reset>>
        /\ spc' = spc \/ spc' # "wrapped"
    BY <1>7 DEF scan_failed, read_reply_failed, kill_child, vars
  <2> QED BY <1>0, <2>1 DEF Wrapping
<1>8. CASE reset_unread \/ cut
  <2>1. s2c' = <<>> /\ reset' = TRUE /\ UNCHANGED seen
    BY <1>8 DEF reset_unread, cut, Reset
  <2> QED BY <1>0, <2>1 DEF Wrapping
<1>9. ~get /\ ~put /\ ~take /\ ~roll /\ ~eat
  <2>1. ASSUME NEW v, Asked(v) PROVE v = "wrap"
    BY <1>0, <2>1, OneUnit DEF Asked, ChildPlace
  <2> QED BY <1>0, <2>1 DEF get, put, take, roll, eat, Putters, ChildPlace
<1>10. /\ ~fs_put_open /\ ~fs_put_bytes /\ ~fs_put_croak /\ ~arbor_rename /\ ~accept
      /\ ~fs_get_bytes /\ ~fs_get_bytes_end /\ ~read_reply /\ ~forgot
  BY <1>0 DEF fs_put_open, fs_put_bytes, fs_put_croak, arbor_rename, accept,
     fs_get_bytes, fs_get_bytes_end, read_reply, forgot, ChildPlace, Putters, Getters
<1>11. CASE wrap
  <2>1. UNCHANGED <<seen, nread, reset, cpc>>
    BY <1>11 DEF wrap
  <2>2. CASE Asked("wrap")
    <3>1. s2c = <<>> /\ cpc # "wrap"
      BY <1>0, <2>2 DEF ChildPlace, Asked
    <3>2. /\ IF reset THEN s2c' = <<>> /\ spc' = "done"
             ELSE (s2c' = OK /\ spc' = "wrapped") \/ (s2c' = NO /\ spc' = "done")
      BY <1>11, <2>2, <3>1, ReplySplits DEF wrap, Say, Asked
    <3> QED BY <1>0, <2>1, <3>1, <3>2 DEF Wrapping
  <2>3. CASE spc = "wrapped" /\ Say(Udig, "done")
    <3>1. /\ spc' = "done"
          /\ IF reset THEN s2c' = s2c ELSE s2c' = s2c \o Udig
      BY <2>3 DEF Say
    <3>2. s2c' \in Seq(Byte)
      BY <1>0, <3>1, ConcatProperties
    <3>3. <<>> \o Udig = Udig
      BY <1>0, ConcatEmptySeq
    <3>4. ~reset /\ cpc = "wrap" => seen = <<>> /\ s2c = <<>>
      BY <1>0, <2>3 DEF Wrapping
    <3>5. ~reset /\ cpc = "wrap" => seen' \o s2c' = Udig
      BY <2>1, <3>1, <3>3, <3>4
    <3>6. ~reset /\ cpc = "reply" /\ nread = 0 => s2c' = OK \o Udig
      BY <1>0, <2>3, <3>1 DEF Wrapping
    <3> QED BY <1>0, <2>1, <3>1, <3>2, <3>5, <3>6 DEF Wrapping
  <2> QED BY <1>11, <2>2, <2>3 DEF wrap, Asked
<1> QED
  BY <1>2, <1>3, <1>4, <1>5, <1>6, <1>7, <1>8, <1>9, <1>10, <1>11
  DEF Next, ClientStep, ChildStep

\* A run that starts has nothing of the run before it.
LEMMA StartStep ==
  ASSUME IInv, DInv, NEW v \in Verbs, start(v)
  PROVE  DInv'
<1>1. /\ cpc' = "check" /\ spc' = "idle" /\ seen' = <<>> /\ s2c' = <<>>
      /\ fed' = <<>> /\ unsent' = <<>> /\ touched' = FALSE
      /\ UNCHANGED <<store, blob>>
  BY DEF start, given
<1>2. <<>> \in Seq(Byte) /\ Undamaged
  BY DEF DInv
<1>3. Undamaged' /\ Opened' /\ Places' /\ Untouched' /\ Putting'
  BY <1>1, <1>2 DEF Undamaged, Opened, Places, Untouched, Putting
<1>4. Taking'
  BY <1>1, <1>2 DEF Taking, TakeBytes, TakeWaits, TakeHears, TakeReads, TakeDone
<1>5. Eating' /\ Wrapping' /\ OkMeansDone' /\ Denied'
  BY <1>1, <1>2 DEF Eating, Wrapping, OkMeansDone, Denied
<1> QED BY <1>3, <1>4, <1>5 DEF DInv

\* The child of a client that is gone does not undo what the client was told.
LEMMA StaysDone ==
  ASSUME IInv, DInv, [Next]_vars, UNCHANGED <<verb, blob, trust_fs>>,
         \A v \in Verbs : ~start(v), cpc = "exited"
  PROVE  OkMeansDone' /\ Denied'
<1> USE DEF given, client, child, files, disk, wires, past
<1>0. /\ OkMeansDone /\ Denied /\ ChildPlace /\ TmpHeld
      /\ Putters \cap Getters = {} /\ "take" \in Getters /\ "take" \notin Putters
      /\ "eat" \notin Getters /\ "eat" \notin Putters
  BY DEF IInv, DInv, Putters, Getters
<1>1. ~ClientStep /\ ~catch_write_ALRM /\ ~read_timeout /\ ~stranger /\ ~kill_client
  BY DEF ClientStep, main, bio4_open_output, bio4_connect, make_request, put_trusted,
     put_untrusted, bio4_give, gave, bio4_take, read_ok_no, bio4_get, bio4_wrap,
     read_end, read_error, catch_write_ALRM, read_timeout, stranger, kill_client,
     Running, Awaits, AwaitsReply
<1>2. UNCHANGED <<cpc, exit_status, input, output, seen>>
  BY <1>1 DEF Next, ChildStep, scan_failed, get, take, put, eat, roll, wrap,
     fs_get_bytes, fs_get_bytes_end, fs_put_open, fs_put_bytes, fs_put_croak,
     arbor_rename, accept, read_reply, read_reply_failed, forgot, kill_child,
     reset_unread, cut, Reset, vars
<1>3. \/ UNCHANGED <<store, touched>>
      \/ verb \in Getters /\ spc = "send" /\ store' = NoFile /\ UNCHANGED touched
      \/ verb \in Putters /\ spc = "digested" /\ store' = blob
      \/ verb = "take" /\ spc = "reply" /\ store' = NoFile
  BY <1>0, <1>1 DEF Next, ChildStep, scan_failed, get, take, put, eat, roll, wrap,
     fs_get_bytes, fs_get_bytes_end, fs_put_open, fs_put_bytes, fs_put_croak,
     arbor_rename, accept, read_reply, take_reply, read_reply_failed, forgot,
     kill_child, reset_unread, cut, Reset, vars, ChildPlace, TmpHeld
<1>4. Ended => Ended'
  BY <1>1 DEF Next, ChildStep, scan_failed, get, take, put, eat, roll, wrap,
     fs_get_bytes, fs_get_bytes_end, fs_put_open, fs_put_bytes, fs_put_croak,
     arbor_rename, accept, read_reply, read_reply_failed, forgot, kill_child,
     reset_unread, cut, Reset, vars, Asked, Ended
<1>5. OkMeansDone'
  BY <1>0, <1>2, <1>3 DEF OkMeansDone
<1>6. Denied'
  BY <1>0, <1>2, <1>3, <1>4 DEF Denied, Ended
<1> QED BY <1>5, <1>6

\* A reply that ends a run: "ok" when it is done, "no" when it is denied.
LEMMA ReplyEnds ==
  ASSUME IInv, DInv, UNCHANGED <<verb, blob, trust_fs>>,
         read_ok_no, cpc' = "exited"
  PROVE  OkMeansDone' /\ Denied'
<1> USE DEF given, client, child, files, disk, wires, past
<1>0. /\ Replies /\ OutputHeld /\ ChildPlace /\ ClientPlace /\ Opened /\ Places
      /\ Untouched /\ Putting /\ TakeBytes /\ TakeHears /\ TakeDone /\ Eating
      /\ "take" \in Getters /\ "take" \notin Putters
      /\ OK \in Seq(Byte) /\ NO \in Seq(Byte) /\ <<>> \in Seq(Byte)
  BY DEF IInv, DInv, Taking, Putters, Getters, OK, NO, Byte
<1>1. /\ UNCHANGED <<input, output_fd, seen, spc, store, touched>>
      /\ cpc \in {"reply", "reply2", "reply3"} /\ ~reset /\ cpc # "exited"
  BY DEF read_ok_no, AwaitsReply
<1>2. \/ nread = 0 /\ Len(s2c) >= 3 /\ Front_(s2c, 3) = OK /\ Accepted
      \/ nread = 0 /\ Len(s2c) >= 3 /\ Front_(s2c, 3) = NO /\ Exit("1")
      \/ Exit("3")
  <2>1. PICK k \in 1 .. 3 - nread :
          /\ k <= Len(s2c) /\ s2c' = Rest(s2c, k)
          /\ IF nread + k < 3 THEN nread' = nread + k /\ UNCHANGED <<cpc, exit_status, output>>
             ELSE /\ nread' = 0
                  /\ IF nread = 0 /\ Front_(s2c, 3) = OK THEN Accepted
                     ELSE IF nread = 0 /\ Front_(s2c, 3) = NO THEN Exit("1")
                     ELSE Exit("3")
    BY DEF read_ok_no
  <2>2. nread \in 0 .. 2 /\ nread + k >= 3
    BY <1>0, <1>1, <2>1 DEF ClientPlace
  <2> QED BY <2>1, <2>2
<1>3. \A w \in SecondReply : w \in Seq(Byte)
  BY <1>0 DEF SecondReply
<1>4. CASE Exit("3")
  BY <1>4 DEF Exit, OkMeansDone, Denied
<1>5. CASE nread = 0 /\ Len(s2c) >= 3 /\ Front_(s2c, 3) = OK /\ Accepted
  <2>1. s2c # <<>> /\ s2c # NO
    BY <1>5, ReplySplits
  <2>2. exit_status' = "0" /\ output' = output
    BY <1>1, <1>5 DEF Accepted, Exit, cleanup
  <2>3. \/ cpc = "reply" /\ verb \in {"eat", "roll"}
        \/ cpc = "reply2" /\ verb = "put"
        \/ cpc = "reply3"
    BY <1>1, <1>5 DEF Accepted, Putters
  <2>4. CASE cpc = "reply" /\ verb \in {"eat", "roll"}
    <3>1. verb = "eat" => store # NoFile /\ (trust_fs \/ store = blob)
      BY <1>0, <1>5, <2>1, <2>4 DEF Eating
    <3> QED BY <1>1, <2>2, <2>4, <3>1 DEF OkMeansDone, Denied, Getters, Putters
  <2>5. CASE cpc = "reply2" /\ verb = "put"
    <3>1. store = blob
      BY <1>0, <1>5, <2>1, <2>5 DEF Replies, SecondReply, Putters
    <3> QED BY <1>1, <2>2, <2>5, <3>1 DEF OkMeansDone, Denied, Getters, Putters
  <2>6. CASE cpc = "reply3"
    <3>1. verb = "take" /\ store = NoFile
      BY <1>0, <1>1, <1>5, <2>1, <2>6 DEF Places, TakeDone
    <3>2. output = blob \/ (blob = <<>> /\ output = Stranger)
      BY <1>0, <2>6, <3>1 DEF Opened, OutputHeld
    <3> QED BY <1>1, <2>2, <3>1, <3>2 DEF OkMeansDone, Denied, Getters, Putters
  <2> QED BY <2>3, <2>4, <2>5, <2>6
<1>6. CASE nread = 0 /\ Len(s2c) >= 3 /\ Front_(s2c, 3) = NO /\ Exit("1")
  <2>1. s2c # <<>> /\ s2c # OK
    BY <1>6, ReplySplits
  <2>2. \A w \in Seq(Byte) : s2c # OK \o w
    BY <1>6, OkSplits, ReplySplits
  <2>3. ~touched /\ (verb \in Putters \cup {"take"} => Ended)
    <3>1. CASE verb \in Putters
      <4>1. cpc # "reply3" /\ cpc # "reply"
        BY <1>0, <1>3, <1>6, <2>1, <2>2, <3>1 DEF Places, Putting
      <4>2. cpc = "reply2" /\ s2c = NO
        BY <1>0, <1>1, <1>6, <2>1, <3>1, <4>1 DEF Replies, SecondReply
      <4> QED BY <1>0, <1>6, <3>1, <4>2 DEF Putting
    <3>2. CASE verb = "take"
      <4>1. cpc = "reply"
        BY <1>0, <1>1, <1>6, <2>1, <3>2 DEF ClientPlace, TakeDone
      <4>2. spc \notin {"idle", "scan"}
        BY <1>0, <2>1 DEF ChildPlace
      <4> QED BY <1>0, <1>1, <1>6, <2>1, <2>2, <3>2, <4>1, <4>2 DEF TakeHears, TakeBytes
    <3>3. CASE verb \notin Putters \cup {"take"}
      BY <1>0, <3>3 DEF Untouched
    <3> QED BY <3>1, <3>2, <3>3
  <2>4. exit_status' = "1"
    BY <1>6 DEF Exit
  <2> QED BY <1>1, <2>3, <2>4 DEF OkMeansDone, Denied, Ended
<1> QED BY <1>2, <1>4, <1>5, <1>6

\* The other ways a run ends.
LEMMA ClientEnds ==
  ASSUME IInv, DInv, [Next]_vars, UNCHANGED <<verb, blob, trust_fs>>,
         \A v \in Verbs : ~start(v), ~read_ok_no, cpc # "exited", cpc' = "exited"
  PROVE  OkMeansDone' /\ Denied'
<1> USE DEF given, client, child, files, disk, wires, past, Exit, ExitAtOnce, cleanup
<1>0. /\ OutputHeld /\ ClientPlace /\ Opened /\ Places /\ Wrapping
      /\ Getters = {"get", "take"} /\ Putters = {"put", "give"}
  BY DEF IInv, DInv, Getters, Putters
<1>1. ClientStep \/ catch_write_ALRM \/ read_timeout \/ kill_client
  BY DEF Next, ChildStep, stranger, scan_failed, get, take, put, eat, roll, wrap,
     fs_get_bytes, fs_get_bytes_end, fs_put_open, fs_put_bytes, fs_put_croak,
     arbor_rename, accept, read_reply, read_reply_failed, forgot, kill_child,
     reset_unread, cut, Reset, vars
<1>2. ASSUME exit_status' \notin {"0", "1"} PROVE OkMeansDone' /\ Denied'
  BY <1>2 DEF OkMeansDone, Denied
<1>3. CASE main \/ bio4_open_output \/ bio4_connect \/ make_request \/ put_trusted
           \/ put_untrusted \/ bio4_give \/ bio4_take \/ read_error \/ read_timeout
           \/ kill_client \/ catch_write_ALRM
  <2>1. exit_status' \notin {"0", "1"}
    BY <1>3 DEF main, bio4_open_output, bio4_connect, make_request, put_trusted,
       put_untrusted, bio4_give, bio4_take, read_error, read_timeout, kill_client,
       catch_write_ALRM, Write_fails
  <2> QED BY <1>2, <2>1
<1>4. CASE gave
  <2>1. /\ exit_status' \in {"0", "3", "KILL"}
        /\ verb = "give" /\ input' = NoFile /\ store' = blob
    BY <1>0, <1>4 DEF gave, Write_fails, ClientPlace, Places
  <2> QED BY <1>0, <2>1 DEF OkMeansDone, Denied
<1>5. CASE bio4_get
  <2>1. PICK k \in 1 .. Len(s2c) :
          /\ seen' = seen \o Front_(s2c, k)
          /\ IF ~output_fd THEN Exit("3")
             ELSE \/ /\ output' = output \o Front_(s2c, k)
                     /\ IF chew(seen') THEN GotBlob ELSE UNCHANGED <<cpc, exit_status>>
                  \/ cpc' = "exited" /\ exit_status' = "2"
    BY <1>5 DEF bio4_get
  <2>2. cpc = "get" /\ verb \in Getters
    BY <1>0, <1>5 DEF bio4_get, Places
  <2>3. CASE ~output_fd
    <3>1. exit_status' = "3"
      BY <2>1, <2>3
    <3> QED BY <1>2, <3>1
  <2>5. CASE output_fd /\ exit_status' = "2"
    BY <1>2, <2>5
  <2>4. CASE output_fd /\ exit_status' # "2"
    <3>1. chew(seen') /\ GotBlob /\ output' = output \o Front_(s2c, k)
      BY <2>1, <2>4
    <3>2. seen' = blob /\ exit_status' = "0" /\ verb = "get"
      BY <1>0, <2>2, <3>1 DEF chew, GotBlob
    <3>3. output = seen
      BY <1>0, <2>2, <2>4 DEF OutputHeld
    <3>4. output' = blob
      BY <2>1, <3>1, <3>2, <3>3
    <3> QED BY <1>0, <3>2, <3>4 DEF OkMeansDone, Denied
  <2> QED BY <2>3, <2>4, <2>5
<1>6. CASE bio4_wrap
  <2>1. PICK k \in 1 .. Len(s2c) : s2c' = Rest(s2c, k) /\ seen' = seen \o Front_(s2c, k)
    BY <1>6 DEF bio4_wrap
  <2>2. cpc = "wrap" /\ verb = "wrap" /\ ~reset /\ s2c # <<>>
    BY <1>0, <1>6, <2>1 DEF bio4_wrap, ClientPlace
  <2>3. s2c \in Seq(Byte) /\ seen \in Seq(Byte) /\ seen \o s2c = Udig
    BY <1>0, <2>2 DEF Wrapping
  <2>4. seen' \in Seq(Byte) /\ s2c' \in Seq(Byte) /\ seen' \o s2c' = Udig
    BY <2>1, <2>3, SendMore
  <2>5. CASE Len(seen') < Len(Udig)
    <3>1. exit_status' = "3"
      BY <1>6, <2>5 DEF bio4_wrap
    <3> QED BY <1>2, <3>1
  <2>6. CASE ~(Len(seen') < Len(Udig))
    <3>1. exit_status' = "0"
      BY <1>6, <2>6 DEF bio4_wrap
    <3>2. Len(seen') + Len(s2c') = Len(Udig) /\ Len(seen') \in Nat /\ Len(s2c') \in Nat
      BY <2>4, ConcatProperties, LenProperties
    <3>3. Len(s2c') = 0
      BY <2>6, <3>2
    <3>4. s2c' = <<>>
      BY <2>4, <3>3, EmptySeq
    <3>5. seen' = Udig
      BY <2>4, <3>4, ConcatEmptySeq
    <3> QED BY <1>0, <2>2, <3>1, <3>5 DEF OkMeansDone, Denied
  <2> QED BY <2>5, <2>6
<1>7. CASE read_end
  <2>1. CASE cpc = "get" /\ chew(seen) /\ GotBlob /\ output' = output
    <3>1. verb = "get" /\ exit_status' = "0" /\ seen = blob
      BY <1>0, <2>1 DEF GotBlob, chew, Places
    <3>2. output = blob \/ (blob = <<>> /\ output = Stranger)
      BY <1>0, <2>1, <3>1 DEF Opened, OutputHeld
    <3> QED BY <1>0, <2>1, <3>1, <3>2 DEF OkMeansDone, Denied
  <2>2. CASE Exit("3")
    BY <1>2, <2>2
  <2> QED BY <1>7, <2>1, <2>2 DEF read_end
<1> QED BY <1>1, <1>3, <1>4, <1>5, <1>6, <1>7 DEF ClientStep

LEMMA DInvStep ==
  ASSUME IInv, DInv, [Next]_vars
  PROVE  DInv'
<1>1. CASE \E v \in Verbs : start(v)
  BY <1>1, StartStep
<1>2. CASE \A v \in Verbs : ~start(v)
  <2>1. UNCHANGED <<verb, blob, trust_fs>>
    BY <1>2, VerbKept
  <2>2. Undamaged' /\ Opened' /\ Places' /\ Untouched'
    BY <1>2, <2>1, PlaceStep
  <2>3. Putting'
    <3>1. CASE verb \in Putters
      BY <1>2, <2>1, <3>1, PutStep
    <3>2. CASE verb \notin Putters
      BY <2>1, <3>2 DEF Putting, Putters
    <3> QED BY <3>1, <3>2
  <2>4. Taking'
    <3>1. CASE verb = "take" /\ (ClientStep \/ catch_write_ALRM \/ read_timeout
                                   \/ stranger \/ kill_client)
      BY <2>1, <3>1, TakeClientStep DEF DInv
    <3>2. CASE verb = "take" /\ (ChildStep \/ kill_child \/ reset_unread \/ cut
                                   \/ UNCHANGED vars)
      BY <2>1, <3>2, TakeChildStep DEF DInv
    <3>3. CASE verb # "take"
      BY <2>1, <3>3 DEF Taking, TakeBytes, TakeWaits, TakeHears, TakeReads, TakeDone,
         DInv, Places
    <3> QED BY <1>2, <3>1, <3>2, <3>3 DEF Next
  <2>5. Eating'
    <3>1. CASE verb = "eat"
      BY <1>2, <2>1, <3>1, EatStep
    <3>2. CASE verb # "eat"
      BY <2>1, <3>2 DEF Eating
    <3> QED BY <3>1, <3>2
  <2>6. Wrapping'
    <3>1. CASE verb = "wrap"
      BY <1>2, <2>1, <3>1, WrapStep
    <3>2. CASE verb # "wrap"
      BY <2>1, <3>2 DEF Wrapping
    <3> QED BY <3>1, <3>2
  <2>7. OkMeansDone' /\ Denied'
    <3>1. CASE cpc = "exited"
      BY <1>2, <2>1, <3>1, StaysDone
    <3>2. CASE cpc # "exited" /\ cpc' = "exited" /\ read_ok_no
      BY <2>1, <3>2, ReplyEnds
    <3>3. CASE cpc # "exited" /\ cpc' = "exited" /\ ~read_ok_no
      BY <1>2, <2>1, <3>3, ClientEnds
    <3>4. CASE cpc' # "exited"
      BY <3>4 DEF OkMeansDone, Denied
    <3> QED BY <3>1, <3>2, <3>3, <3>4
  <2> QED BY <2>2, <2>3, <2>4, <2>5, <2>6, <2>7 DEF DInv
<1> QED BY <1>1, <1>2

LEMMA DInvInit == Init /\ Undamaged => DInv
<1> SUFFICES ASSUME Init, Undamaged PROVE DInv
  OBVIOUS
<1>1. <<>> \in Seq(Byte)
  OBVIOUS
<1>2. /\ cpc = "idle" /\ spc = "idle" /\ verb = "get" /\ ~touched
      /\ s2c = <<>> /\ seen = <<>>
  BY DEF Init
<1>3. Opened /\ Places /\ Untouched /\ Putting
  BY <1>2 DEF Opened, Places, Untouched, Putting, Putters
<1>4. Taking /\ Eating /\ Wrapping /\ OkMeansDone /\ Denied
  BY <1>2 DEF Taking, TakeBytes, TakeWaits, TakeHears, TakeReads, TakeDone,
     Eating, Wrapping, OkMeansDone, Denied
<1> QED BY <1>3, <1>4 DEF DInv

LEMMA AnswersHold == Spec /\ Undamaged => []DInv
  BY Invariance, DInvInit, DInvStep, PTL DEF Spec

\* The client exits with 0 only when the blob is where the verb should have put it:
\* at the output path of a get, gone from the server of a take, stored by a put, gone
\* from the input path of a give, and the udig of a wrap was read whole.  The stored
\* file is not damaged at first: of one that begins with the blob and goes on with
\* an "ok", a client that takes would hear its last reply in the bytes of the file.
THEOREM OkIsDone == Spec /\ Undamaged => []OkMeansDone
<1>1. DInv => OkMeansDone
  BY DEF DInv
<1> QED BY AnswersHold, <1>1, PTL

\* The client exits with 1, "request denied", only when neither end removed or stored
\* anything, then or later: a child that said "no" has ended.  A damaged file whose
\* bytes read as a "no" is excluded for the same reason.
THEOREM DeniedIsUntouched == Spec /\ Undamaged => []DeniedChangesNothing
<1>1. DInv => DeniedChangesNothing
  BY DEF DInv, Denied, DeniedChangesNothing
<1> QED BY AnswersHold, <1>1, PTL

-----------------------------------------------------------------------------
(* The values of the variables.                                              *)

Cpcs == {"idle", "check", "open", "connect", "request", "reply", "reply2",
         "reply3", "get", "put", "wrap", "unlink", "gave", "took", "exited"}

Spcs == {"idle", "scan", "send", "tmp", "recv", "digested", "accepted",
         "reply", "forgot", "wrapped", "done", "killed"}

\* All but the bytes.
Control ==
  /\ blob \in Blobs /\ {trust_fs, tfs} \subseteq BOOLEAN
  /\ cpc \in Cpcs /\ spc \in Spcs
  /\ exit_status \in {"none", "0", "1", "2", "3", "KILL"}
  /\ output_fd \in BOOLEAN /\ runs \in 0 .. MaxRuns
  /\ {reset, had, told, touched} \subseteq BOOLEAN
  /\ input \in Inputs \cup {NoFile}
  /\ cpc \in {"open", "connect"} /\ verb \in Putters => input # NoFile

\* The bytes that an end holds.
Held ==
  /\ output \in Seq(Byte) \cup {NoFile, Stranger}
  /\ unread \in Seq(Byte) /\ seen \in Seq(Byte)
  /\ tmp \in Seq(Byte) \cup {NoFile}
  /\ unsent \in Seq(Byte) /\ fed \in Seq(Byte)
  /\ reply \in Seq(Byte) /\ Len(reply) <= 4

\* What is on its way to the child: a verb before it has scanned one, at most an
\* "ok" or "no" more than the buffers hold when the client has said its last.
ToChild ==
  /\ c2s \in Seq(Byte \cup Verb)
  /\ spc \notin {"idle", "scan", "done", "killed"} => c2s \in Seq(Byte)
  /\ Len(c2s) <= Wire + 3
  /\ cpc \notin {"reply3", "exited"} => Len(c2s) <= Wire

\* What is on its way to the client: the same.
ToClient ==
  /\ s2c \in Seq(Byte)
  /\ Len(s2c) <= Wire + 3
  /\ spc \notin {"done", "killed"} /\ ~(spc = "reply" /\ verb = "give") => Len(s2c) <= Wire

TInv == Control /\ Held /\ ToChild /\ ToClient

\* Parts of bytes are bytes, and bytes together.
LEMMA Pieces ==
  ASSUME NEW S, NEW s \in Seq(S), NEW k \in 1 .. Len(s)
  PROVE  /\ Front_(s, k) \in Seq(S) /\ Len(Front_(s, k)) = k
         /\ Rest(s, k) \in Seq(S) /\ Len(Rest(s, k)) = Len(s) - k
<1>1. Len(s) \in Nat
  BY LenProperties
<1>2. 1 \in 1 .. Len(s) + 1 /\ k \in 0 .. Len(s) /\ k + 1 \in 1 .. Len(s) + 1
  BY <1>1
<1> QED BY <1>1, <1>2, SubSeqProperties DEF Front_, Rest

\* What a write() that its alarm ended may have written.
LEMMA Beginning ==
  ASSUME NEW S, NEW s \in Seq(S), NEW k \in 1 .. Len(s), NEW j \in 0 .. k
  PROVE  Front_(s, j) \in Seq(S)
<1>1. Len(s) \in Nat
  BY LenProperties
<1>2. 1 \in 1 .. Len(s) + 1 /\ j \in 0 .. Len(s)
  BY <1>1
<1> QED BY <1>2, SubSeqProperties DEF Front_

LEMMA Joins ==
  ASSUME NEW S, NEW s \in Seq(S), NEW t \in Seq(S)
  PROVE  /\ s \o t \in Seq(S) /\ Len(s \o t) = Len(s) + Len(t)
         /\ Len(s) \in Nat /\ Len(t) \in Nat
BY ConcatProperties, LenProperties

LEMMA Replies3 ==
  /\ OK \in Seq(Byte) /\ Len(OK) = 3 /\ NO \in Seq(Byte) /\ Len(NO) = 3
  /\ <<>> \in Seq(Byte) /\ Len(<<>>) = 0
  /\ \A s \in Seq(Byte) : s \in Seq(Byte \cup Verb)
  /\ \A v \in Verb : <<v>> \in Seq(Byte \cup Verb) /\ Len(<<v>>) = 1
BY DEF OK, NO, Byte

\* Clients and children go from place to place.
LEMMA ControlStep ==
  ASSUME IInv, Control, [Next]_vars
  PROVE  Control'
<1> USE DEF given, client, child, files, disk, wires, past, Cpcs, Spcs
<1>0. /\ MaxRuns \in Nat /\ verb \in Verb /\ blob \in Blobs /\ Getters \cap Putters = {}
  BY SessionAssumption DEF IInv, Getters, Putters
<1>1. ASSUME NEW v \in Verbs, start(v)
      PROVE  Control'
  <2>1. /\ cpc' = "check" /\ spc' = "idle" /\ exit_status' = "none"
        /\ output_fd' = FALSE /\ runs' = runs + 1 /\ runs < MaxRuns
        /\ reset' = FALSE /\ touched' = FALSE
        /\ UNCHANGED <<blob, trust_fs, tfs, had, told, input>>
    BY <1>1 DEF start
  <2>2. runs' \in 0 .. MaxRuns
    BY <1>0, <2>1 DEF Control
  <2> QED BY <1>0, <2>1, <2>2 DEF Control
<1>2. CASE ClientStep \/ catch_write_ALRM \/ read_timeout \/ stranger \/ kill_client
  <2>1. /\ UNCHANGED <<given, verb, runs, had, reset>>
        /\ spc' \in {spc, "scan"} /\ touched' \in {touched, TRUE} /\ told' \in {told, TRUE}
        /\ output_fd' \in {output_fd, TRUE} /\ input' \in {input, NoFile}
        /\ input' # input => cpc' = "gave"
    BY <1>2 DEF ClientStep, main, bio4_open_output, bio4_connect, make_request,
       put_trusted, put_untrusted, bio4_give, gave, bio4_take, read_ok_no, bio4_get,
       bio4_wrap, read_end, read_error, catch_write_ALRM, read_timeout, stranger,
       kill_client
  <2>2. /\ cpc' \in Cpcs /\ exit_status' \in {exit_status, "0", "1", "2", "3", "KILL"}
    BY <1>0, <1>2
    DEF ClientStep, main, bio4_open_output, bio4_connect, make_request,
       put_trusted, put_untrusted, bio4_give, gave, bio4_take, read_ok_no, bio4_get,
       bio4_wrap, read_end, read_error, catch_write_ALRM, read_timeout, stranger,
       kill_client, Exit, ExitAtOnce, Write_fails, Accepted, GotBlob, Putters, Control
  <2>3. cpc' \in {"open", "connect"} /\ verb \in Putters => input # NoFile
    BY <1>0, <1>2
    DEF ClientStep, main, bio4_open_output, bio4_connect, make_request,
       put_trusted, put_untrusted, bio4_give, gave, bio4_take, read_ok_no, bio4_get,
       bio4_wrap, read_end, read_error, catch_write_ALRM, read_timeout, stranger,
       kill_client, Exit, ExitAtOnce, Write_fails, Accepted, GotBlob, Control,
       Putters, AwaitsReply
  <2>4. /\ blob' \in Blobs /\ {trust_fs, tfs}' \subseteq BOOLEAN
        /\ runs' \in 0 .. MaxRuns /\ {reset, had}' \subseteq BOOLEAN
    BY <2>1 DEF Control
  <2>5. /\ spc' \in Spcs /\ output_fd' \in BOOLEAN /\ {told, touched}' \subseteq BOOLEAN
        /\ input' \in Inputs \cup {NoFile}
    BY <2>1 DEF Control
  <2>6. exit_status' \in {"none", "0", "1", "2", "3", "KILL"}
    BY <2>2 DEF Control
  <2>7. cpc' \in {"open", "connect"} /\ verb' \in Putters => input' # NoFile
    BY <1>0, <2>1, <2>3 DEF Control
  <2>. HIDE DEF given, client, child, files, disk, wires, past, Cpcs, Spcs
  <2> QED BY <2>2, <2>4, <2>5, <2>6, <2>7 DEF Control
<1>3. CASE ChildStep \/ kill_child \/ reset_unread \/ cut \/ UNCHANGED vars
  <2>1. /\ UNCHANGED <<given, client, had, told>>
        /\ reset' \in {reset, TRUE} /\ touched' \in {touched, TRUE}
    BY <1>3 DEF ChildStep, scan_failed, get, take, put, eat, roll, wrap,
       fs_get_bytes, fs_get_bytes_end, fs_put_open, fs_put_bytes, fs_put_croak,
       arbor_rename, accept, read_reply, take_reply, read_reply_failed, forgot,
       kill_child, reset_unread, cut, Reset, vars
  <2>2. spc' \in Spcs
    BY <1>3 DEF ChildStep, scan_failed, get, take, put, eat, roll, wrap, Say,
       fs_get_bytes, fs_get_bytes_end, fs_put_open, fs_put_bytes, fs_put_croak,
       arbor_rename, accept, read_reply, take_reply, read_reply_failed, forgot,
       kill_child, reset_unread, cut, Reset, vars, Control
  <2> QED BY <2>1, <2>2 DEF Control
<1> QED BY <1>1, <1>2, <1>3 DEF Next

\* The files and the digests hold bytes.
LEMMA HeldStep ==
  ASSUME IInv, TInv, [Next]_vars
  PROVE  Held'
<1> USE DEF given, client, child, files, disk, wires, past
<1>0. /\ Held /\ ToChild /\ ToClient /\ Control /\ OutputHeld /\ StoreWhole
      /\ <<>> \in Seq(Byte) /\ Inputs \subseteq Seq(Byte)
      /\ blob \in Seq(Byte) /\ s2c \in Seq(Byte)
      /\ store \in Seq(Byte) \cup {NoFile}
  BY SessionAssumption DEF IInv, TInv, ToClient, StoreWhole
<1>1. ASSUME output' \in {output, NoFile, <<>>, Stranger},
             UNCHANGED <<unread, seen, tmp, unsent, fed, reply>>
      PROVE  Held'
  BY <1>0, <1>1 DEF Held
<1>2. ASSUME NEW v \in Verbs, start(v)
      PROVE  Held'
  <2>1. /\ output' = output /\ unread' = <<>> /\ seen' = <<>> /\ tmp' = NoFile
        /\ unsent' = <<>> /\ fed' = <<>> /\ reply' = <<>> /\ Len(<<>>) = 0
    BY <1>2, Replies3 DEF start
  <2> QED BY <1>0, <2>1 DEF Held
<1>3. CASE main \/ stranger \/ bio4_open_output \/ make_request \/ catch_write_ALRM
           \/ bio4_give \/ gave \/ bio4_take \/ read_ok_no \/ read_end \/ read_error
           \/ read_timeout \/ kill_client
  <2>1. output' \in {output, NoFile, <<>>, Stranger}
    BY <1>3 DEF main, stranger, bio4_open_output, make_request, catch_write_ALRM,
       bio4_give, gave, bio4_take, read_ok_no, read_end, read_error, read_timeout,
       kill_client, Exit, ExitAtOnce, cleanup, Write_fails, Accepted
  <2>2. UNCHANGED <<unread, seen, tmp, unsent, fed, reply>>
    BY <1>3 DEF main, stranger, bio4_open_output, make_request, catch_write_ALRM,
       bio4_give, gave, bio4_take, read_ok_no, read_end, read_error, read_timeout,
       kill_client
  <2> QED BY <1>1, <2>1, <2>2
<1>4. CASE bio4_connect
  <2>1. /\ output' \in {output, NoFile} /\ UNCHANGED <<seen, tmp, unsent, fed, reply>>
        /\ unread' \in {unread, <<>>} \/ (unread' = input /\ verb \in Putters)
        /\ cpc = "connect"
    BY <1>4 DEF bio4_connect, Exit, cleanup
  <2>2. unread' \in Seq(Byte)
    BY <1>0, <2>1 DEF Control, Held
  <2> QED BY <1>0, <2>1, <2>2 DEF Held
<1>5. CASE put_trusted \/ put_untrusted
  <2>1. /\ output' \in {output, NoFile} /\ UNCHANGED <<tmp, unsent, fed, reply>>
    BY <1>5 DEF put_trusted, put_untrusted, Exit, ExitAtOnce, cleanup, Write_fails
  <2>2. \/ UNCHANGED <<unread, seen>>
        \/ \E k \in 1 .. Len(unread) :
             unread' = Rest(unread, k) /\ seen' \in {seen, seen \o Front_(unread, k)}
    BY <1>5 DEF put_trusted, put_untrusted
  <2>3. unread \in Seq(Byte) /\ seen \in Seq(Byte)
    BY <1>0 DEF Held
  <2>4. ASSUME NEW k \in 1 .. Len(unread)
        PROVE  Rest(unread, k) \in Seq(Byte) /\ seen \o Front_(unread, k) \in Seq(Byte)
    BY <2>3, SendMore
  <2>5. unread' \in Seq(Byte) /\ seen' \in Seq(Byte)
    BY <2>2, <2>3, <2>4
  <2> QED BY <1>0, <2>1, <2>5 DEF Held
<1>6. CASE bio4_get
  <2>1. PICK k \in 1 .. Len(s2c) :
          /\ seen' = seen \o Front_(s2c, k)
          /\ \/ output' \in {output, NoFile}
             \/ \E j \in 0 .. k : output' = output \o Front_(s2c, j) /\ output_fd
    <3>1. PICK k \in 1 .. Len(s2c) :
            /\ seen' = seen \o Front_(s2c, k)
            /\ IF ~output_fd THEN Exit("3")
               ELSE \/ output' = output \o Front_(s2c, k)
                    \/ \E j \in 0 .. k : output' = output \o Front_(s2c, j)
      BY <1>6 DEF bio4_get
    <3>2. CASE ~output_fd
      BY <3>1, <3>2 DEF Exit, cleanup
    <3>3. CASE output_fd
      <4>1. k \in 0 .. k
        OBVIOUS
      <4> QED BY <3>1, <3>3, <4>1
    <3> QED BY <3>2, <3>3
  <2>2. cpc = "get" /\ UNCHANGED <<unread, tmp, unsent, fed, reply>>
    BY <1>6 DEF bio4_get
  <2>3. seen' \in Seq(Byte)
    BY <1>0, <2>1, Pieces, Joins DEF Held
  <2>4. output' \in {output, NoFile} \/ output' \in Seq(Byte)
    <3>1. CASE output' \in {output, NoFile}
      BY <3>1
    <3>2. ASSUME NEW j \in 0 .. k, output' = output \o Front_(s2c, j), output_fd
          PROVE  output' \in Seq(Byte)
      <4>1. output \in Seq(Byte)
        BY <1>0, <2>2, <3>2 DEF OutputHeld, Held
      <4>2. Front_(s2c, j) \in Seq(Byte)
        BY <1>0, Beginning
      <4> QED BY <3>2, <4>1, <4>2, Joins
    <3> QED BY <2>1, <3>1, <3>2
  <2> QED BY <1>0, <2>2, <2>3, <2>4 DEF Held
<1>7. CASE bio4_wrap
  <2>1. PICK k \in 1 .. Len(s2c) : seen' = seen \o Front_(s2c, k)
    BY <1>7 DEF bio4_wrap
  <2>2. output' \in {output, NoFile} /\ UNCHANGED <<unread, tmp, unsent, fed, reply>>
    BY <1>7 DEF bio4_wrap, Exit, cleanup
  <2>3. seen' \in Seq(Byte)
    BY <1>0, <2>1, Pieces, Joins DEF Held
  <2> QED BY <1>0, <2>2, <2>3 DEF Held
<1>8. CASE scan_failed \/ put \/ eat \/ roll \/ wrap \/ fs_get_bytes_end \/ accept
           \/ read_reply_failed \/ forgot \/ kill_child \/ reset_unread \/ cut
           \/ UNCHANGED vars
  <2>1. UNCHANGED <<output, unread, seen, tmp, unsent, fed, reply>>
    BY <1>8 DEF scan_failed, put, eat, roll, wrap, fs_get_bytes_end, accept,
       read_reply_failed, forgot, kill_child, reset_unread, cut, Reset, vars
  <2> QED BY <1>1, <2>1
<1>9. CASE get \/ take
  <2>1. /\ UNCHANGED <<output, unread, seen, tmp, fed, reply>>
        /\ unsent' = unsent \/ (unsent' = store /\ store # NoFile)
    BY <1>9 DEF get, take
  <2> QED BY <1>0, <2>1 DEF Held
<1>10. CASE fs_get_bytes
  <2>1. /\ UNCHANGED <<output, unread, seen, tmp, reply>>
        /\ \/ UNCHANGED <<unsent, fed>>
           \/ \E k \in 1 .. Len(unsent) :
                unsent' = Rest(unsent, k) /\ fed' = fed \o Front_(unsent, k)
    BY <1>10 DEF fs_get_bytes
  <2>2. unsent \in Seq(Byte) /\ fed \in Seq(Byte)
    BY <1>0 DEF Held
  <2>3. ASSUME NEW k \in 1 .. Len(unsent)
        PROVE  Rest(unsent, k) \in Seq(Byte) /\ fed \o Front_(unsent, k) \in Seq(Byte)
    BY <2>2, SendMore
  <2>4. unsent' \in Seq(Byte) /\ fed' \in Seq(Byte)
    BY <2>1, <2>2, <2>3
  <2> QED BY <1>0, <2>1, <2>4 DEF Held
<1>11. CASE fs_put_open \/ fs_put_croak \/ arbor_rename
  <2>1. /\ UNCHANGED <<output, unread, seen, unsent, reply>>
        /\ tmp' \in {<<>>, NoFile} /\ fed' \in {fed, <<>>}
    BY <1>11 DEF fs_put_open, fs_put_croak, arbor_rename
  <2> QED BY <1>0, <2>1 DEF Held
<1>12. CASE fs_put_bytes
  <2>1. PICK k \in 1 .. Len(c2s) : fed' = fed \o Front_(c2s, k)
    BY <1>12 DEF fs_put_bytes
  <2>2. /\ spc = "recv" /\ tmp' = fed' /\ UNCHANGED <<output, unread, seen, unsent, reply>>
    BY <1>12 DEF fs_put_bytes
  <2>3. fed' \in Seq(Byte)
    BY <1>0, <2>1, <2>2, Pieces, Joins DEF Held, ToChild
  <2> QED BY <1>0, <2>2, <2>3 DEF Held
<1>13. CASE read_reply
  <2>1. PICK k \in 1 .. 4 - Len(reply) :
          k <= Len(c2s) /\ reply' = reply \o Front_(c2s, k)
    BY <1>13 DEF read_reply
  <2>2. spc = "reply" /\ UNCHANGED <<output, unread, seen, tmp, unsent, fed>>
    BY <1>13 DEF read_reply
  <2>3. c2s \in Seq(Byte) /\ Len(c2s) \in Nat /\ Len(reply) \in Nat
    BY <1>0, <2>2, LenProperties DEF ToChild, Held
  <2>4. k \in 1 .. Len(c2s)
    BY <2>1, <2>3
  <2>5. Front_(c2s, k) \in Seq(Byte) /\ Len(Front_(c2s, k)) = k
    BY <2>3, <2>4, Pieces
  <2>6. reply' \in Seq(Byte) /\ Len(reply') = Len(reply) + k
    BY <1>0, <2>1, <2>5, Joins DEF Held
  <2>7. Len(reply') <= 4
    BY <2>1, <2>3, <2>6
  <2> QED BY <1>0, <2>2, <2>6, <2>7 DEF Held
<1> QED
  BY <1>2, <1>3, <1>4, <1>5, <1>6, <1>7, <1>8, <1>9, <1>10, <1>11, <1>12, <1>13
  DEF Next, ClientStep, ChildStep

\* What clients write fits, and children read bytes once they have scanned.
LEMMA ToChildStep ==
  ASSUME IInv, TInv, [Next]_vars
  PROVE  ToChild'
<1> USE DEF given, client, child, files, disk, wires, past
<1>0. /\ ToChild /\ ClientPlace /\ ChildPlace /\ verb \in Verb /\ Wire \in Nat /\ Wire >= 3
      /\ c2s \in Seq(Byte \cup Verb) /\ Len(c2s) \in Nat
      /\ unread \in Seq(Byte) /\ unread \in Seq(Byte \cup Verb)
      /\ Len(unread) \in Nat
  BY SessionAssumption, Replies3, LenProperties DEF IInv, TInv, ToChild, Held
<1>1. ASSUME c2s' = <<>> PROVE ToChild'
  BY <1>0, <1>1, Replies3 DEF ToChild
<1>2. ASSUME UNCHANGED c2s,
             cpc \in {"reply3", "exited"} => cpc' \in {"reply3", "exited"},
             spc \in {"idle", "scan", "done", "killed"}
               => spc' \in {"idle", "scan", "done", "killed"}
      PROVE  ToChild'
  BY <1>0, <1>2 DEF ToChild
<1>3. ASSUME NEW k \in 1 .. Len(c2s), c2s' = Rest(c2s, k), cpc' = cpc,
             spc \notin {"idle", "scan", "done", "killed"}
      PROVE  ToChild'
  <2>1. c2s \in Seq(Byte)
    BY <1>0, <1>3 DEF ToChild
  <2>2. c2s' \in Seq(Byte) /\ Len(c2s') = Len(c2s) - k
    BY <1>3, <2>1, Pieces
  <2>3. c2s' \in Seq(Byte \cup Verb) /\ Len(c2s') <= Len(c2s)
    BY <1>0, <2>2, Replies3
  <2> QED BY <1>0, <1>3, <2>2, <2>3 DEF ToChild
<1>4. ASSUME NEW w \in Seq(Byte), c2s' = c2s \o w, spc' = spc,
             Len(c2s) + Len(w) <= Wire
               \/ (cpc \notin {"reply3", "exited"} /\ Len(w) = 3
                     /\ cpc' \in {"reply3", "exited"})
      PROVE  ToChild'
  <2>1. w \in Seq(Byte \cup Verb)
    BY Replies3
  <2>2. c2s' \in Seq(Byte \cup Verb) /\ Len(c2s') = Len(c2s) + Len(w)
    BY <1>0, <1>4, <2>1, Joins
  <2>3. spc' \notin {"idle", "scan", "done", "killed"} => c2s' \in Seq(Byte)
    BY <1>0, <1>4, Joins DEF ToChild
  <2>4. Len(c2s') <= Wire \/ (Len(c2s') <= Wire + 3 /\ cpc' \in {"reply3", "exited"})
    <3>1. CASE Len(c2s) + Len(w) <= Wire
      BY <2>2, <3>1
    <3>2. CASE cpc \notin {"reply3", "exited"} /\ Len(w) = 3 /\ cpc' \in {"reply3", "exited"}
      <4>1. Len(c2s) <= Wire
        BY <1>0, <3>2 DEF ToChild
      <4> QED BY <1>0, <2>2, <3>2, <4>1
    <3> QED BY <1>4, <3>1, <3>2
  <2> QED BY <1>0, <2>2, <2>3, <2>4 DEF ToChild
<1>5. ASSUME NEW v \in Verbs, start(v)
      PROVE  ToChild'
  BY <1>1, <1>5 DEF start
<1>6. CASE main \/ stranger \/ bio4_open_output \/ bio4_connect \/ catch_write_ALRM
           \/ read_ok_no \/ bio4_get \/ bio4_wrap \/ read_end \/ read_error
           \/ read_timeout \/ kill_client
  <2>1. UNCHANGED c2s /\ (spc' = spc \/ spc' = "scan")
    BY <1>6 DEF main, stranger, bio4_open_output, bio4_connect, catch_write_ALRM,
       read_ok_no, bio4_get, bio4_wrap, read_end, read_error, read_timeout,
       kill_client
  <2>2. cpc \in {"reply3", "exited"} => cpc' \in {"reply3", "exited"}
    BY <1>6 DEF main, stranger, bio4_open_output, bio4_connect, catch_write_ALRM,
       read_ok_no, bio4_get, bio4_wrap, read_end, read_error, read_timeout,
       kill_client, Exit, ExitAtOnce, Accepted, Awaits, AwaitsReply, Running
  <2> QED BY <1>2, <2>1, <2>2
<1>7. CASE make_request
  <2>1. /\ cpc = "request" /\ spc' = spc
        /\ c2s' = c2s \/ c2s' = <<verb>>
    BY <1>7 DEF make_request
  <2>2. spc \in {"scan", "done", "killed"} /\ c2s = <<>>
    BY <1>0, <2>1 DEF ClientPlace
  <2>3. <<verb>> \in Seq(Byte \cup Verb) /\ Len(<<verb>>) = 1
    BY <1>0, Replies3
  <2>4. CASE c2s' = <<verb>>
    <3>1. c2s' \in Seq(Byte \cup Verb) /\ Len(c2s') = 1
      BY <2>3, <2>4
    <3> QED BY <1>0, <2>1, <2>2, <3>1 DEF ToChild
  <2> QED BY <1>1, <2>1, <2>2, <2>4
<1>8. CASE put_trusted \/ put_untrusted
  <2>1. cpc = "put" /\ spc' = spc
    BY <1>8 DEF put_trusted, put_untrusted
  <2>2. \/ UNCHANGED c2s
        \/ \E k \in 1 .. Len(unread) :
             Len(c2s) + k <= Wire /\ c2s' = c2s \o Front_(unread, k)
    BY <1>8 DEF put_trusted, put_untrusted
  <2>3. CASE UNCHANGED c2s
    BY <1>2, <2>1, <2>3
  <2>4. ASSUME NEW k \in 1 .. Len(unread), Len(c2s) + k <= Wire,
               c2s' = c2s \o Front_(unread, k)
        PROVE  ToChild'
    <3>1. Front_(unread, k) \in Seq(Byte) /\ Len(Front_(unread, k)) = k
      BY <1>0, Pieces
    <3> QED BY <1>4, <2>1, <2>4, <3>1
  <2> QED BY <2>2, <2>3, <2>4
<1>9. CASE bio4_give \/ gave \/ bio4_take
  <2>1. /\ cpc \in {"unlink", "gave", "took"} /\ spc' = spc
        /\ \/ UNCHANGED c2s
           \/ c2s' = c2s \o OK /\ cpc' \in {"reply3", "exited"}
           \/ c2s' = c2s \o NO /\ cpc' \in {"reply3", "exited"}
    BY <1>9 DEF bio4_give, gave, bio4_take, Exit
  <2>2. cpc \notin {"reply3", "exited"}
    BY <2>1
  <2> QED BY <1>2, <1>4, <2>1, <2>2, Replies3
<1>10. CASE scan_failed \/ fs_get_bytes \/ fs_get_bytes_end \/ fs_put_open
           \/ fs_put_croak \/ arbor_rename \/ accept \/ read_reply_failed \/ forgot
           \/ kill_child \/ UNCHANGED vars
  <2>1. /\ UNCHANGED <<c2s, cpc>>
        /\ spc \in {"idle", "scan", "done", "killed"}
             => spc' \in {"idle", "scan", "done", "killed"}
    BY <1>10 DEF scan_failed, fs_get_bytes, fs_get_bytes_end, fs_put_open,
       fs_put_croak, arbor_rename, accept, read_reply_failed, forgot, kill_child, vars
  <2> QED BY <1>2, <2>1
<1>11. CASE get \/ take \/ put \/ eat \/ roll \/ wrap
  <2>1. CASE spc = "scan" /\ c2s # <<>> /\ c2s' = Tail(c2s)
    <3>1. c2s = <<verb>>
      BY <1>0, <2>1 DEF ChildPlace
    <3>2. c2s' = <<>>
      BY <2>1, <3>1, OneUnit
    <3> QED BY <1>1, <3>2
  <2>2. CASE spc = "wrapped" /\ UNCHANGED <<c2s, cpc>>
    BY <1>2, <2>2
  <2> QED BY <1>11, <2>1, <2>2 DEF get, take, put, eat, roll, wrap, Asked
<1>12. CASE fs_put_bytes
  <2>1. /\ spc = "recv" /\ cpc' = cpc
        /\ \E k \in 1 .. Len(c2s) : c2s' = Rest(c2s, k)
    BY <1>12 DEF fs_put_bytes
  <2> QED BY <1>3, <2>1
<1>13. CASE read_reply
  <2>1. /\ spc = "reply" /\ cpc' = cpc
        /\ \E k \in 1 .. 4 - Len(reply) : k <= Len(c2s) /\ c2s' = Rest(c2s, k)
    BY <1>13 DEF read_reply
  <2>2. Len(reply) \in Nat
    BY LenProperties DEF TInv, Held
  <2>3. \E k \in 1 .. Len(c2s) : c2s' = Rest(c2s, k)
    BY <1>0, <2>1, <2>2
  <2> QED BY <1>3, <2>1, <2>3
<1>14. CASE reset_unread \/ cut
  BY <1>1, <1>14 DEF reset_unread, cut, Reset
<1> QED
  BY <1>5, <1>6, <1>7, <1>8, <1>9, <1>10, <1>11, <1>12, <1>13, <1>14
  DEF Next, ClientStep, ChildStep

\* What children write fits.
LEMMA ToClientStep ==
  ASSUME IInv, TInv, [Next]_vars
  PROVE  ToClient'
<1> USE DEF given, client, child, files, disk, wires, past
<1>0. /\ ToClient /\ ChildPlace /\ Wire \in Nat /\ Wire >= 3
      /\ s2c \in Seq(Byte) /\ Len(s2c) \in Nat /\ OK \in Seq(Byte) /\ NO \in Seq(Byte)
      /\ Len(OK) = 3 /\ Len(NO) = 3 /\ <<>> \in Seq(Byte) /\ Len(<<>>) = 0
      /\ Udig \in Seq(Byte)
  BY SessionAssumption, Replies3, LenProperties DEF IInv, TInv, ToClient
<1> DEFINE Last_ == spc \in {"done", "killed"} \/ (spc = "reply" /\ verb = "give")
<1>1. ASSUME s2c' = <<>> PROVE ToClient'
  BY <1>0, <1>1 DEF ToClient
<1>2. ASSUME UNCHANGED s2c, Last_ => Last_'
      PROVE  ToClient'
  BY <1>0, <1>2 DEF ToClient
<1>3. ASSUME NEW k \in 1 .. Len(s2c), s2c' = Rest(s2c, k), UNCHANGED <<spc, verb>>
      PROVE  ToClient'
  <2>1. s2c' \in Seq(Byte) /\ Len(s2c') = Len(s2c) - k
    BY <1>0, <1>3, Pieces
  <2>2. Len(s2c') <= Len(s2c)
    BY <1>0, <2>1
  <2> QED BY <1>0, <1>3, <2>1, <2>2 DEF ToClient
<1>4. ASSUME NEW w \in Seq(Byte), s2c' = s2c \o w,
             \/ Len(s2c) + Len(w) <= Wire
             \/ ~Last_ /\ Len(w) = 3 /\ Last_'
      PROVE  ToClient'
  <2>1. s2c' \in Seq(Byte) /\ Len(s2c') = Len(s2c) + Len(w)
    BY <1>0, <1>4, Joins
  <2>2. CASE Len(s2c) + Len(w) <= Wire
    <3>1. Len(s2c') <= Wire /\ Len(s2c') <= Wire + 3
      BY <1>0, <2>1, <2>2
    <3> QED BY <2>1, <3>1 DEF ToClient
  <2>3. CASE ~Last_ /\ Len(w) = 3 /\ Last_'
    <3>1. Len(s2c) <= Wire
      BY <1>0, <2>3 DEF ToClient
    <3>2. Len(s2c') <= Wire + 3
      BY <1>0, <2>1, <2>3, <3>1
    <3> QED BY <2>1, <2>3, <3>2 DEF ToClient
  <2> QED BY <1>4, <2>2, <2>3
<1>5. ASSUME s2c = <<>>, NEW w \in {OK, NO}, NEW next, Say(w, next) PROVE ToClient'
  <2>1. CASE reset
    BY <1>1, <1>5, <2>1 DEF Say
  <2>2. CASE ~reset
    <3>0. w \in Seq(Byte) /\ Len(w) = 3 /\ Len(s2c) = 0
      BY <1>0, <1>5
    <3>1. w \in Seq(Byte) /\ Len(w) = 3 /\ Len(s2c) + Len(w) <= Wire
      BY <1>0, <3>0
    <3> QED BY <1>4, <1>5, <2>2, <3>1 DEF Say
  <2> QED BY <2>1, <2>2
<1>6. ASSUME ~Last_, NEW w \in {OK, NO}, NEW next, Say(w, next), UNCHANGED verb,
             next = "done" \/ (next = "reply" /\ verb = "give")
      PROVE  ToClient'
  <2>1. Last_'
    BY <1>6 DEF Say
  <2>2. CASE reset
    BY <1>2, <1>6, <2>1, <2>2 DEF Say
  <2>3. CASE ~reset
    <3>1. w \in Seq(Byte) /\ Len(w) = 3
      BY <1>0, <1>6
    <3> QED BY <1>4, <1>6, <2>1, <2>3, <3>1 DEF Say
  <2> QED BY <2>2, <2>3
<1>7. ASSUME NEW v \in Verbs, start(v)
      PROVE  ToClient'
  BY <1>1, <1>7 DEF start
<1>8. CASE ClientStep \/ catch_write_ALRM \/ read_timeout \/ stranger \/ kill_client
  <2>1. CASE read_ok_no \/ bio4_get \/ bio4_wrap
    <3>1. /\ UNCHANGED <<spc, verb>>
          /\ \E k \in Nat : k >= 1 /\ k <= Len(s2c) /\ s2c' = Rest(s2c, k)
      <4>1. CASE read_ok_no
        <5>1. \E k \in 1 .. 3 - nread : k <= Len(s2c) /\ s2c' = Rest(s2c, k)
          BY <4>1 DEF read_ok_no
        <5>2. nread \in Nat
          BY DEF IInv, ClientPlace
        <5> QED BY <4>1, <5>1, <5>2 DEF read_ok_no
      <4>2. CASE bio4_get \/ bio4_wrap
        <5>1. \E k \in 1 .. Len(s2c) : s2c' = Rest(s2c, k)
          BY <4>2 DEF bio4_get, bio4_wrap
        <5> QED BY <1>0, <4>2, <5>1 DEF bio4_get, bio4_wrap
      <4> QED BY <2>1, <4>1, <4>2
    <3>2. \E k \in 1 .. Len(s2c) : s2c' = Rest(s2c, k)
      BY <1>0, <3>1
    <3> QED BY <1>3, <3>1, <3>2
  <2>2. CASE ~read_ok_no /\ ~bio4_get /\ ~bio4_wrap
    <3>1. /\ UNCHANGED <<s2c, verb>>
          /\ spc' = spc \/ (cpc = "connect" /\ spc' = "scan")
      BY <1>8, <2>2 DEF ClientStep, main, bio4_open_output, bio4_connect, make_request,
         put_trusted, put_untrusted, bio4_give, gave, bio4_take, read_end, read_error,
         catch_write_ALRM, read_timeout, stranger, kill_client
    <3>2. cpc = "connect" => s2c = <<>>
      BY DEF IInv, ChildPlace, ClientPlace
    <3> QED BY <1>1, <1>2, <3>1, <3>2
  <2> QED BY <2>1, <2>2
<1>9. CASE scan_failed \/ fs_get_bytes_end \/ fs_put_open \/ fs_put_bytes
           \/ arbor_rename \/ read_reply \/ read_reply_failed \/ kill_child
           \/ UNCHANGED vars
  <2>1. UNCHANGED <<s2c, verb>>
    BY <1>9 DEF scan_failed, fs_get_bytes_end, fs_put_open, fs_put_bytes,
       arbor_rename, read_reply, read_reply_failed, kill_child, vars
  <2>2. Last_ => Last_'
    BY <1>9, <2>1 DEF scan_failed, fs_get_bytes_end, fs_put_open, fs_put_bytes,
       arbor_rename, read_reply, take_reply, read_reply_failed, kill_child, vars, Ended
  <2> QED BY <1>2, <2>1, <2>2
<1>10. CASE get \/ take \/ put \/ eat \/ roll \/ (wrap /\ spc = "scan")
  <2>1. spc = "scan" /\ UNCHANGED verb
    BY <1>10 DEF get, take, put, eat, roll, wrap, Asked
  <2>2. s2c = <<>>
    BY <1>0, <2>1 DEF ChildPlace
  <2>3. s2c' = s2c \/ \E w \in {OK, NO} : \E next \in Spcs : Say(w, next)
    BY <1>10, <2>1 DEF get, take, put, eat, roll, wrap, Spcs
  <2> QED BY <1>1, <1>5, <2>2, <2>3
<1>11. CASE wrap /\ spc # "scan"
  <2>1. /\ spc = "wrapped" /\ UNCHANGED verb /\ Say(Udig, "done")
        /\ Len(s2c) + Len(Udig) <= Wire \/ reset
    BY <1>11 DEF wrap, Asked
  <2> QED BY <1>0, <1>2, <1>4, <2>1 DEF Say
<1>12. CASE fs_get_bytes
  <2>1. /\ spc = "send" /\ UNCHANGED verb
        /\ \/ UNCHANGED s2c
           \/ \E k \in 1 .. Len(unsent) :
                Len(s2c) + k <= Wire /\ s2c' = s2c \o Front_(unsent, k)
    BY <1>12 DEF fs_get_bytes
  <2>2. CASE UNCHANGED s2c
    BY <1>2, <2>1, <2>2
  <2>3. ASSUME NEW k \in 1 .. Len(unsent), Len(s2c) + k <= Wire,
               s2c' = s2c \o Front_(unsent, k)
        PROVE  ToClient'
    <3>1. unsent \in Seq(Byte)
      BY DEF TInv, Held
    <3>2. Front_(unsent, k) \in Seq(Byte) /\ Len(Front_(unsent, k)) = k
      BY <3>1, Pieces
    <3> QED BY <1>4, <2>3, <3>2
  <2> QED BY <2>1, <2>2, <2>3
<1>13. CASE fs_put_croak \/ accept \/ forgot
  <2>1. ~Last_ /\ UNCHANGED verb
    BY <1>13 DEF fs_put_croak, accept, forgot
  <2>2. \/ Say(NO, "done") \/ Say(OK, "done")
        \/ verb = "give" /\ Say(OK, "reply")
    BY <1>13 DEF fs_put_croak, accept, forgot
  <2> QED BY <1>6, <2>1, <2>2
<1>14. CASE reset_unread \/ cut
  BY <1>1, <1>14 DEF reset_unread, cut, Reset
<1> QED
  BY <1>7, <1>8, <1>9, <1>10, <1>11, <1>12, <1>13, <1>14 DEF Next, ChildStep

LEMMA TInvInit == Init => TInv
<1> SUFFICES ASSUME Init PROVE TInv
  OBVIOUS
<1> USE Replies3, SessionAssumption
<1>1. Control
  <2>1. had \in BOOLEAN /\ {trust_fs, tfs} \subseteq BOOLEAN
    BY DEF Init
  <2>2. /\ blob \in Blobs /\ cpc = "idle" /\ spc = "idle" /\ exit_status = "none"
        /\ output_fd = FALSE /\ runs = 0 /\ input \in Inputs
        /\ reset = FALSE /\ told = FALSE /\ touched = FALSE
    BY DEF Init
  <2>3. runs \in 0 .. MaxRuns
    BY <2>2
  <2>4. {reset, had, told, touched} \subseteq BOOLEAN
    BY <2>1, <2>2
  <2> QED BY <2>1, <2>2, <2>3, <2>4 DEF Control, Cpcs, Spcs
<1>2. Held
  BY DEF Init, Held
<1>3. ToChild /\ ToClient
  BY DEF Init, ToChild, ToClient
<1> QED BY <1>1, <1>2, <1>3 DEF TInv

LEMMA TypesHold == Spec => []TInv
<1>1. ASSUME IInv, TInv, [Next]_vars PROVE TInv'
  BY <1>1, ControlStep, HeldStep, ToChildStep, ToClientStep DEF TInv
<1> QED BY Invariance, TInvInit, <1>1, PTL DEF Spec

\* Every variable has its values: among them, no more than Wire + 3 bytes are on
\* their way in either direction, no client waits for a third part of a reply and no
\* child reads more than four bytes of one.
THEOREM TypeCorrect == Spec => []TypeOK
<1>1. IInv /\ TInv => TypeOK
  <2> SUFFICES ASSUME IInv, TInv PROVE TypeOK
    OBVIOUS
  <2>1. store \in Seq(Byte) \cup {NoFile}
    BY SessionAssumption DEF IInv, StoreWhole
  <2> QED BY <2>1 DEF TypeOK, IInv, ClientPlace, TInv, Control, Cpcs, Spcs, Held,
                      ToChild, ToClient
<1> QED BY Invariance, TypesHold, <1>1, PTL

=============================================================================
