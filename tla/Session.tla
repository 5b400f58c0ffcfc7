-------------------------------- MODULE Session --------------------------------
(***************************************************************************)
(* One blob between a client and a server: the command blobio with its     *)
(* driver bio4 at one end of a TCP connection, a request child of bio4d    *)
(* with a file system digest module (fs_btc20, fs_bc160) at the other, and *)
(* the files of both: the input and output path of the client, the stored  *)
(* blob and the temporary file of the server.  Each end reads what has     *)
(* arrived in pieces of any size and keeps what it has digested so far.    *)
(*                                                                         *)
(* A client runs at most MaxRuns times, one after the other, over the same *)
(* paths.  The disk of the server does not fail and its arborist answers:  *)
(* module BlobStore is about those.                                        *)
(***************************************************************************)
EXTENDS Naturals, Sequences, SequencesExt

CONSTANTS
  Verbs,      \* the verbs clients ask for
  Blobs,      \* the blob the udig names is one of these byte sequences
  Inputs,     \* what the input file may hold
  Rot,        \* the bytes a damaged blob file holds
  Udig,       \* the udig of a wrapped log, the new-line at its end
  Wire,       \* bound: bytes on their way in one direction
  MaxRuns,    \* bound: runs of the client
  Cuts,       \* connections may be refused and reset
  Kills       \* client and child may be killed

Byte == {"a", "b", "o", "k", "n", "\n", "u"}

Verb == {"get", "take", "put", "give", "eat", "roll", "wrap"}

ASSUME SessionAssumption ==
  /\ Verbs \subseteq Verb
  /\ Blobs \cup Inputs \cup {Rot, Udig} \subseteq Seq(Byte)
  /\ Wire \in Nat /\ Wire >= 3 /\ MaxRuns \in Nat
  /\ {Cuts, Kills} \subseteq BOOLEAN

NoFile == <<"no file">>
Stranger == <<"stranger">>    \* a file of another program

OK == <<"o", "k", "\n">>
NO == <<"n", "o", "\n">>

VARIABLES
  blob, trust_fs, \* the blob named by the udig; the server trusts its disk
  tfs,            \* clients trust their input: the query arg tfs
  cpc, verb,      \* where the client is; the verb it was started with
  exit_status,    \* of the last run, "none" in a run, "KILL" of one killed
  input, output,  \* the files at the paths of the client
  output_fd,      \* the client has opened its output file
  unread,         \* what is left to read of the input file
  seen,           \* the client's digest: the bytes it has chewed
  nread,          \* bytes of a reply the client has
  runs,
  spc,            \* where the child is
  store, tmp,     \* the blob's file, the temporary file
  unsent,         \* what is left to read of the blob's file
  fed,            \* the child's digest: the bytes it has eaten
  reply,          \* what the child has of a reply
  c2s, s2c,       \* the bytes on their way
  reset,          \* the connection was reset
  had, told, touched  \* history: the blob was in a file at first; a child was
                      \* told that it may forget; this run changed a file

files  == <<input, output, output_fd, unread>>
disk   == <<store, tmp, unsent>>
wires  == <<c2s, s2c, reset>>
past   == <<had, told, touched>>
given  == <<blob, trust_fs, tfs>>
client == <<cpc, verb, exit_status, files, seen, nread, runs>>
child  == <<spc, disk, fed, reply>>
vars   == <<given, client, child, wires, past>>

Getters == {"get", "take"}
Putters == {"put", "give"}

Ended    == spc \in {"idle", "done", "killed"}     \* no child has the socket
Running  == cpc \notin {"idle", "exited"}
Connected == Running /\ cpc \notin {"check", "open", "connect"}

\* The next k bytes of s, and the rest.
Front_(s, k) == SubSeq(s, 1, k)
Rest(s, k) == SubSeq(s, k + 1, Len(s))

-----------------------------------------------------------------------------
(* The client: the ways out.                                                 *)

\* Mutant: a partial output file stays.
cleanup_keep(status) == UNCHANGED output

\* cleanup(): above 1, the output file is removed, whoever made it.
cleanup(status) ==
  output' = IF status \in {"2", "3"} /\ verb \in Getters THEN NoFile ELSE output

\* main() at its end, or die().
Exit(status) ==
  /\ cpc' = "exited" /\ exit_status' = status
  /\ cleanup(status)

\* die() because the output path is not free, die3(), die_timeout() and signals
\* leave it alone.
ExitAtOnce(status) ==
  /\ cpc' = "exited" /\ exit_status' = status
  /\ UNCHANGED output

\* A write() to a connection that was reset fails, or raises SIGPIPE.
Write_fails == reset /\ (Exit("3") \/ ExitAtOnce("KILL"))

\* Mutant: any byte of the blob will do.
chew_some(bytes) == bytes # <<>> /\ IsPrefix(bytes, blob)

\* chew(): the digest of what was seen is that of the udig.
chew(bytes) == bytes = blob

-----------------------------------------------------------------------------
(* The client: starting.                                                     *)

start(v) ==
  /\ ~Running /\ Ended /\ runs < MaxRuns
  /\ cpc' = "check" /\ verb' = v /\ runs' = runs + 1
  /\ exit_status' = "none" /\ seen' = <<>> /\ nread' = 0
  /\ output_fd' = FALSE /\ unread' = <<>>
  /\ spc' = "idle" /\ unsent' = <<>> /\ fed' = <<>> /\ reply' = <<>>
  /\ tmp' = NoFile           \* each child has one of its own
  /\ c2s' = <<>> /\ s2c' = <<>> /\ reset' = FALSE
  /\ touched' = FALSE
  /\ UNCHANGED <<given, input, output, store, had, told>>

\* The input file must be there; the output file must not: it stays.
main ==
  /\ cpc = "check"
  /\ IF \/ verb \in Putters /\ input = NoFile
        \/ verb \in Getters /\ output # NoFile
     THEN ExitAtOnce("3")
     ELSE cpc' = "open" /\ UNCHANGED <<exit_status, output>>
  /\ UNCHANGED <<given, verb, input, output_fd, unread, seen, nread,
                 runs, child, wires, past>>

\* Another program makes a file of that name after the check.
stranger ==
  /\ cpc = "open" /\ verb \in Getters /\ output = NoFile
  /\ output' = Stranger
  /\ UNCHANGED <<given, cpc, verb, exit_status, input, output_fd,
                 unread, seen, nread, runs, child, wires, past>>

\* O_EXCL: open() fails when the file exists.  It returns -1, and what is
\* tested is fd < -1: the client goes on without a file.
bio4_open_output ==
  /\ cpc = "open" /\ cpc' = "connect"
  /\ IF verb \in Getters /\ output = NoFile
     THEN output' = <<>> /\ output_fd' = TRUE
     ELSE UNCHANGED <<output, output_fd>>
  /\ UNCHANGED <<given, verb, exit_status, input, unread, seen,
                 nread, runs, child, wires, past>>

\* Connect, and open the input file; the server forks a child.
bio4_connect ==
  /\ cpc = "connect"
  /\ \/ /\ cpc' = "request" /\ spc' = "scan"
        /\ unread' = IF verb \in Putters THEN input ELSE <<>>
        /\ UNCHANGED <<exit_status, output>>
     \/ Cuts /\ Exit("3") /\ UNCHANGED <<spc, unread>>
  /\ UNCHANGED <<given, verb, input, output_fd, seen, nread, runs,
                 disk, fed, reply, wires, past>>

-----------------------------------------------------------------------------
(* The client: what it writes.                                               *)

\* The request line, one unit on the wire.
make_request ==
  /\ cpc = "request"
  /\ \/ /\ ~reset
        /\ cpc' = "reply" /\ c2s' = <<verb>>
        /\ UNCHANGED <<exit_status, output>>
     \/ Write_fails /\ UNCHANGED c2s
  /\ UNCHANGED <<given, verb, input, output_fd, unread, seen, nread,
                 runs, child, s2c, reset, past>>

\* The input file, whatever it holds and to its end; then the second reply.
put_trusted ==
  /\ cpc = "put" /\ tfs
  /\ \/ /\ ~reset /\ unread # <<>>
        /\ \E k \in 1 .. Len(unread) :
             /\ Len(c2s) + k <= Wire
             /\ c2s' = c2s \o Front_(unread, k)
             /\ unread' = Rest(unread, k)
        /\ UNCHANGED <<cpc, exit_status, output>>
     \/ /\ unread = <<>> /\ cpc' = "reply2"
        /\ UNCHANGED <<c2s, unread, exit_status, output>>
     \/ unread # <<>> /\ Write_fails /\ UNCHANGED <<c2s, unread>>
  /\ UNCHANGED <<given, verb, input, output_fd, seen, nread, runs,
                 child, s2c, reset, past>>

\* Digested on the way, to the end of the chunk that completes the blob.
put_untrusted ==
  /\ cpc = "put" /\ ~tfs
  /\ \/ /\ ~reset /\ unread # <<>>
        /\ \E k \in 1 .. Len(unread) :
             /\ Len(c2s) + k <= Wire
             /\ c2s' = c2s \o Front_(unread, k)
             /\ unread' = Rest(unread, k) /\ seen' = seen \o Front_(unread, k)
        /\ cpc' = IF chew(seen') THEN "reply2" ELSE "put"
        /\ UNCHANGED <<exit_status, output>>
     \/ /\ unread = <<>> /\ UNCHANGED <<c2s, unread, seen>>
        /\ IF chew(seen) THEN cpc' = "reply2" /\ UNCHANGED <<exit_status, output>>
           ELSE Exit("3")
     \/ unread # <<>> /\ Write_fails /\ UNCHANGED <<c2s, unread, seen>>
  /\ UNCHANGED <<given, verb, input, output_fd, nread, runs, child, s2c, reset, past>>

\* With an --io-timeout, the alarm of a write() to the server that waits, be it
\* of the "no" when an unlink() failed: exit 2.
catch_write_ALRM ==
  /\ cpc \in {"put", "unlink", "gave", "took"} /\ (cpc = "put" => unread # <<>>)
  /\ Len(c2s) >= Wire
  /\ ExitAtOnce("2")
  /\ UNCHANGED <<given, verb, input, output_fd, unread, seen, nread,
                 runs, child, wires, past>>

\* Mutant: the input file is emptied instead.
bio4_give_empties ==
  /\ cpc = "unlink"
  /\ input' = <<>> /\ touched' = TRUE /\ cpc' = "gave"
  /\ UNCHANGED <<given, verb, exit_status, output, output_fd, unread, seen,
                 nread, runs, child, wires, had, told>>

\* The server has the blob: remove the input file, then say so.
bio4_give ==
  /\ cpc = "unlink"
  /\ \/ /\ input' = NoFile /\ touched' = TRUE /\ cpc' = "gave"
        /\ UNCHANGED <<exit_status, output, c2s>>
     \/ /\ c2s' = IF reset THEN c2s ELSE c2s \o NO     \* unlink() fails
        /\ Exit("3") /\ UNCHANGED <<input, touched>>
  /\ UNCHANGED <<given, verb, output_fd, unread, seen, nread, runs,
                 child, s2c, reset, had, told>>

gave ==
  /\ cpc = "gave"
  /\ \/ ~reset /\ c2s' = c2s \o OK /\ Exit("0")
     \/ Write_fails /\ UNCHANGED c2s
  /\ UNCHANGED <<given, verb, input, output_fd, unread, seen, nread,
                 runs, child, s2c, reset, past>>

\* The client has the blob: the server may forget it.
bio4_take ==
  /\ cpc = "took"
  /\ \/ /\ ~reset
        /\ c2s' = c2s \o OK /\ cpc' = "reply3" /\ told' = TRUE
        /\ UNCHANGED <<exit_status, output>>
     \/ Write_fails /\ UNCHANGED <<c2s, told>>
  /\ UNCHANGED <<given, verb, input, output_fd, unread, seen, nread,
                 runs, child, s2c, reset, had, touched>>

-----------------------------------------------------------------------------
(* The client: what it reads.                                                *)

AwaitsReply == cpc \in {"reply", "reply2", "reply3"}
Awaits == AwaitsReply \/ cpc \in {"get", "wrap"}

\* After an "ok".
Accepted ==
  \/ /\ cpc = "reply" /\ verb \in {"get", "take", "put", "give", "wrap"}
     /\ cpc' = IF verb \in Putters THEN "put"
               ELSE IF verb = "take" THEN IF blob = <<>> THEN "took" ELSE "get"
               ELSE verb
     /\ UNCHANGED <<exit_status, output>>
  \/ /\ cpc = "reply2" /\ verb = "give"
     /\ cpc' = "unlink" /\ UNCHANGED <<exit_status, output>>
  \/ /\ \/ cpc = "reply" /\ verb \in {"eat", "roll"}
        \/ cpc = "reply2" /\ verb = "put"
        \/ cpc = "reply3"
     /\ Exit("0")

\* Three bytes.  Each read() is at the start of the buffer: a reply that
\* comes in two parts is never an "ok" or "no".
read_ok_no ==
  /\ AwaitsReply /\ ~reset /\ \E k \in 1 .. 3 - nread :
       /\ k <= Len(s2c) /\ s2c' = Rest(s2c, k)
       /\ IF nread + k < 3 THEN nread' = nread + k /\ UNCHANGED <<cpc, exit_status, output>>
          ELSE /\ nread' = 0
               /\ IF nread = 0 /\ Front_(s2c, 3) = OK THEN Accepted
                  ELSE IF nread = 0 /\ Front_(s2c, 3) = NO THEN Exit("1")
                  ELSE Exit("3")
  /\ UNCHANGED <<given, verb, input, output_fd, unread, seen, runs,
                 child, c2s, reset, past>>

GotBlob == IF verb = "take" THEN cpc' = "took" /\ UNCHANGED exit_status
           ELSE cpc' = "exited" /\ exit_status' = "0"

\* A chunk of the blob: digest it, then write it to the output file.  The alarm
\* is set for that write(), too: die_timeout() leaves what was written.
bio4_get ==
  /\ cpc = "get" /\ ~reset
  /\ \E k \in 1 .. Len(s2c) :
       /\ s2c' = Rest(s2c, k)
       /\ seen' = seen \o Front_(s2c, k)
       /\ IF ~output_fd THEN Exit("3")
          ELSE \/ /\ output' = output \o Front_(s2c, k)
                  /\ IF chew(seen') THEN GotBlob ELSE UNCHANGED <<cpc, exit_status>>
               \/ /\ \E j \in 0 .. k : output' = output \o Front_(s2c, j)
                  /\ cpc' = "exited" /\ exit_status' = "2"
  /\ UNCHANGED <<given, verb, input, output_fd, unread, nread, runs,
                 child, c2s, reset, past>>

\* The udig of a wrapped log, up to its new-line; it is frisked.
bio4_wrap ==
  /\ cpc = "wrap" /\ ~reset
  /\ \E k \in 1 .. Len(s2c) :
       /\ s2c' = Rest(s2c, k)
       /\ seen' = seen \o Front_(s2c, k)
  /\ IF Last(seen') # "\n" THEN UNCHANGED <<cpc, exit_status, output>>
     ELSE IF Len(seen') < Len(Udig) THEN Exit("3") ELSE Exit("0")
  /\ UNCHANGED <<given, verb, input, output_fd, unread, nread, runs,
                 child, c2s, reset, past>>

\* The child has closed: the blob may be complete when it is empty.
read_end ==
  /\ Awaits /\ ~reset /\ s2c = <<>> /\ Ended
  /\ IF cpc = "get" /\ chew(seen) THEN GotBlob /\ UNCHANGED output ELSE Exit("3")
  /\ UNCHANGED <<given, verb, input, output_fd, unread, seen, nread,
                 runs, child, wires, past>>

read_error ==
  /\ Awaits /\ reset /\ Exit("3")
  /\ UNCHANGED <<given, verb, input, output_fd, unread, seen, nread,
                 runs, child, wires, past>>

\* With an --io-timeout.
read_timeout ==
  /\ Awaits /\ ~reset /\ s2c = <<>> /\ ~Ended /\ Exit("3")
  /\ UNCHANGED <<given, verb, input, output_fd, unread, seen, nread,
                 runs, child, wires, past>>

kill_client ==
  /\ Kills /\ Running /\ ExitAtOnce("KILL")
  /\ UNCHANGED <<given, verb, input, output_fd, unread, seen, nread,
                 runs, child, wires, past>>

-----------------------------------------------------------------------------
(* The child: requests and replies.                                          *)

\* A reply, and where the child goes on when it could be written.
Say(w, next) ==
  IF reset THEN spc' = "done" /\ UNCHANGED s2c
  ELSE spc' = next /\ s2c' = s2c \o w

Asked(v) == spc = "scan" /\ c2s # <<>> /\ Head(c2s) = v /\ c2s' = Tail(c2s)

\* Nothing more comes: the client is gone, or is not heard of in time.
Silent == c2s = <<>>

scan_failed ==
  /\ spc = "scan" /\ Silent /\ spc' = "done"
  /\ UNCHANGED <<given, client, disk, fed, reply, wires, past>>

\* The empty blob is always there for a get.
get ==
  /\ Asked("get")
  /\ IF blob = <<>> THEN Say(OK, "done") /\ UNCHANGED unsent
     ELSE IF store = NoFile THEN Say(NO, "done") /\ UNCHANGED unsent
     ELSE Say(OK, "send") /\ unsent' = store
  /\ UNCHANGED <<given, client, store, tmp, fed, reply, reset, past>>

take ==
  /\ Asked("take")
  /\ IF store = NoFile THEN Say(NO, "done") /\ UNCHANGED unsent
     ELSE Say(OK, "send") /\ unsent' = store
  /\ UNCHANGED <<given, client, store, tmp, fed, reply, reset, past>>

put ==
  /\ \E v \in Putters : Asked(v)
  /\ Say(OK, "tmp")
  /\ UNCHANGED <<given, client, disk, fed, reply, reset, past>>

\* A trusted file need only be there.  The digest of 32 bytes is written to an
\* array of 20: the child may be gone at the end of the function.
eat ==
  /\ Asked("eat")
  /\ \/ store = NoFile /\ Say(NO, "done")
     \/ store # NoFile /\ trust_fs /\ Say(OK, "done")
     \/ store = blob /\ ~trust_fs /\ Say(OK, "done")
     \/ store # NoFile /\ ~trust_fs /\ spc' = "done" /\ UNCHANGED s2c
  /\ UNCHANGED <<given, client, disk, fed, reply, reset, past>>

roll ==
  /\ Asked("roll")
  /\ Say(OK, "done") \/ Say(NO, "done")
  /\ UNCHANGED <<given, client, disk, fed, reply, reset, past>>

wrap ==
  /\ \/ Asked("wrap") /\ (Say(OK, "wrapped") \/ Say(NO, "done"))
     \/ /\ spc = "wrapped" /\ (Len(s2c) + Len(Udig) <= Wire \/ reset)
        /\ Say(Udig, "done") /\ UNCHANGED c2s
  /\ UNCHANGED <<given, client, disk, fed, reply, reset, past>>

-----------------------------------------------------------------------------
(* The child: the bytes of the blob.                                         *)

\* Send the file, in timed writes.
fs_get_bytes ==
  /\ spc = "send" /\ unsent # <<>>
  /\ \/ /\ ~reset
        /\ \E k \in 1 .. Len(unsent) :
             /\ Len(s2c) + k <= Wire
             /\ s2c' = s2c \o Front_(unsent, k)
             /\ unsent' = Rest(unsent, k) /\ fed' = fed \o Front_(unsent, k)
        /\ UNCHANGED spc
     \/ /\ reset \/ Len(s2c) = Wire
        /\ spc' = "done" /\ UNCHANGED <<unsent, fed, s2c>>
  /\ UNCHANGED <<given, client, store, tmp, reply, c2s, reset, past>>

\* At its end, bytes that are not the blob's are a panic, and zap_blob() removes
\* the file; trusted bytes are not digested.
fs_get_bytes_end ==
  /\ spc = "send" /\ unsent = <<>>
  /\ IF trust_fs \/ fed = blob
     THEN spc' = (IF verb = "take" THEN "reply" ELSE "done") /\ UNCHANGED store
     ELSE spc' = "done" /\ store' = NoFile
  /\ UNCHANGED <<given, client, tmp, unsent, fed, reply, wires, past>>

fs_put_open ==
  /\ spc = "tmp"
  /\ tmp' = <<>> /\ fed' = <<>>
  /\ spc' = IF blob = <<>> THEN "digested" ELSE "recv"
  /\ UNCHANGED <<given, client, store, unsent, reply, wires, past>>

\* Mutant: the bytes eaten so far begin with the blob.
eat_chunk_prefix(bytes) == IsPrefix(blob, bytes)

\* eat_chunk(): the bytes eaten so far are the blob.
eat_chunk(bytes) == bytes = blob

fs_put_bytes ==
  /\ spc = "recv" /\ ~reset
  /\ \E k \in 1 .. Len(c2s) :
       /\ c2s' = Rest(c2s, k)
       /\ fed' = fed \o Front_(c2s, k)
  /\ tmp' = fed'
  /\ spc' = IF eat_chunk(fed') THEN "digested" ELSE "recv"
  /\ UNCHANGED <<given, client, store, unsent, reply, s2c, reset, past>>

\* Mutant: the temporary file stays.
fs_put_croak_litter ==
  /\ spc = "recv" /\ Silent
  /\ Say(NO, "done") /\ UNCHANGED tmp
  /\ UNCHANGED <<given, client, store, unsent, fed, reply, c2s, reset, past>>

\* Mutant: a silent client is waited for.
fs_put_croak_patient ==
  /\ spc = "recv" /\ Silent /\ (~Running \/ reset)
  /\ Say(NO, "done") /\ tmp' = NoFile
  /\ UNCHANGED <<given, client, store, unsent, fed, reply, c2s, reset, past>>

\* The client is gone or silent: no blob.
fs_put_croak ==
  /\ spc = "recv" /\ Silent
  /\ Say(NO, "done") /\ tmp' = NoFile
  /\ UNCHANGED <<given, client, store, unsent, fed, reply, c2s, reset, past>>

arbor_rename ==
  /\ spc = "digested" /\ spc' = "accepted"
  /\ store' = tmp /\ tmp' = NoFile /\ touched' = TRUE
  /\ UNCHANGED <<given, client, unsent, fed, reply, wires, had, told>>

\* Mutant: the client is told before the blob is renamed.
accept_early ==
  /\ spc = "digested" /\ Say(OK, "accepted")
  /\ UNCHANGED <<given, client, disk, fed, reply, c2s, reset, past>>

accept ==
  /\ spc = "accepted" /\ Say(OK, IF verb = "give" THEN "reply" ELSE "done")
  /\ UNCHANGED <<given, client, disk, fed, reply, c2s, reset, past>>

-----------------------------------------------------------------------------
(* The child: the reply of its client to the bytes.                          *)

\* What read_reply() makes of the bytes it has: two bytes, and four, are good
\* when the third is a carriage return and the fourth is no new-line; of two
\* bytes the others are what was on the stack.
Verdict(b) ==
  LET word == IF Front_(b, 2) = <<"o", "k">> THEN "ok"
              ELSE IF Front_(b, 2) = <<"n", "o">> THEN "no" ELSE "error"
  IN  IF Len(b) < 2 THEN {"more"}
      ELSE IF Len(b) = 2 THEN {word, "error"}
      ELSE IF Len(b) = 3 /\ b[3] = "\n" THEN {word}
      ELSE {"error"}       \* no byte of ours is a carriage return

\* take_reply(): the blob is removed when the client has it.
take_reply(w) ==
  IF w = "ok" THEN store' = NoFile /\ spc' = "forgot" /\ touched' = TRUE
  ELSE spc' = "done" /\ UNCHANGED <<store, touched>>

read_reply ==
  /\ spc = "reply" /\ ~reset
  /\ \E k \in 1 .. 4 - Len(reply) :
       /\ k <= Len(c2s)
       /\ c2s' = Rest(c2s, k) /\ reply' = reply \o Front_(c2s, k)
  /\ \E w \in Verdict(reply') :
       IF w = "more" THEN UNCHANGED <<spc, store, touched>>
       ELSE IF verb = "take" THEN take_reply(w)
       ELSE spc' = "done" /\ UNCHANGED <<store, touched>>     \* give_reply()
  /\ UNCHANGED <<given, client, tmp, unsent, fed, s2c, reset, had, told>>

read_reply_failed ==
  /\ spc = "reply" /\ Silent /\ spc' = "done"
  /\ UNCHANGED <<given, client, disk, fed, reply, wires, past>>

\* Mutant: the client is told "no" when the blob was removed.
forgot_no ==
  /\ spc = "forgot" /\ Say(NO, "done")
  /\ UNCHANGED <<given, client, disk, fed, reply, c2s, reset, past>>

forgot ==
  /\ spc = "forgot" /\ Say(OK, "done")
  /\ UNCHANGED <<given, client, disk, fed, reply, c2s, reset, past>>

kill_child ==
  /\ Kills /\ ~Ended /\ spc' = "killed"
  /\ UNCHANGED <<given, client, disk, fed, reply, wires, past>>

-----------------------------------------------------------------------------
(* The connection.                                                           *)

Reset ==
  /\ ~reset
  /\ reset' = TRUE /\ c2s' = <<>> /\ s2c' = <<>>
  /\ UNCHANGED <<given, client, child, past>>

\* One end closed it before it had read all: the other hears a reset.
reset_unread ==
  /\ \/ Ended /\ spc # "idle" /\ Connected /\ c2s # <<>>
     \/ ~Running /\ ~Ended /\ s2c # <<>>
  /\ Reset

cut == Cuts /\ (Connected \/ ~Ended) /\ Reset

-----------------------------------------------------------------------------

Init ==
  /\ blob \in Blobs /\ trust_fs \in BOOLEAN /\ tfs \in BOOLEAN
  /\ cpc = "idle" /\ verb = "get" /\ exit_status = "none"
  /\ input \in Inputs /\ output = NoFile
  /\ output_fd = FALSE /\ unread = <<>>
  /\ seen = <<>> /\ nread = 0 /\ runs = 0
  /\ spc = "idle" /\ store \in {NoFile, blob, Rot} /\ tmp = NoFile
  /\ unsent = <<>> /\ fed = <<>> /\ reply = <<>>
  /\ c2s = <<>> /\ s2c = <<>> /\ reset = FALSE
  /\ had = (blob \in {input, store}) /\ told = FALSE /\ touched = FALSE

ClientStep ==
  \/ main \/ bio4_open_output \/ bio4_connect \/ make_request \/ put_trusted
  \/ put_untrusted \/ bio4_give \/ gave \/ bio4_take \/ read_ok_no
  \/ bio4_get \/ bio4_wrap \/ read_end \/ read_error

ChildStep ==
  \/ scan_failed \/ get \/ take \/ put \/ eat \/ roll \/ wrap \/ fs_get_bytes
  \/ fs_get_bytes_end \/ fs_put_open \/ fs_put_bytes \/ fs_put_croak \/ arbor_rename \/ accept
  \/ read_reply \/ read_reply_failed \/ forgot

Next ==
  \/ \E v \in Verbs : start(v)
  \/ ClientStep \/ catch_write_ALRM \/ read_timeout \/ stranger \/ kill_client
  \/ ChildStep \/ kill_child
  \/ reset_unread \/ cut

Spec == Init /\ [][Next]_vars

\* Both ends run, the child with its timeouts, and TCP tells of unread bytes.
\* Clients need not be given an --io-timeout: nothing forces theirs.
Fairness == WF_vars(ClientStep) /\ WF_vars(ChildStep) /\ WF_vars(reset_unread)

FairSpec == Spec /\ Fairness

-----------------------------------------------------------------------------
(* Properties.                                                               *)

\* The values each variable takes.
TypeOK ==
  /\ blob \in Blobs /\ {trust_fs, tfs} \subseteq BOOLEAN
  /\ cpc \in {"idle", "check", "open", "connect", "request", "reply", "reply2",
              "reply3", "get", "put", "wrap", "unlink", "gave", "took", "exited"}
  /\ verb \in Verb /\ exit_status \in {"none", "0", "1", "2", "3", "KILL"}
  /\ input \in Inputs \cup {NoFile}
  /\ output \in Seq(Byte) \cup {NoFile, Stranger}
  /\ output_fd \in BOOLEAN /\ unread \in Seq(Byte) /\ seen \in Seq(Byte)
  /\ nread \in 0 .. 2 /\ runs \in 0 .. MaxRuns
  /\ spc \in {"idle", "scan", "send", "tmp", "recv", "digested", "accepted",
              "reply", "forgot", "wrapped", "done", "killed"}
  /\ store \in Seq(Byte) \cup {NoFile} /\ tmp \in Seq(Byte) \cup {NoFile}
  /\ unsent \in Seq(Byte) /\ fed \in Seq(Byte)
  /\ reply \in Seq(Byte) /\ Len(reply) <= 4
  /\ c2s \in Seq(Byte \cup Verb) /\ s2c \in Seq(Byte)
  /\ Len(c2s) <= Wire + 3 /\ Len(s2c) <= Wire + 3
  /\ {reset, had, told, touched} \subseteq BOOLEAN

\* Whatever is cut, killed or refused on the way: until a client has said of
\* its own accord that the server may forget the blob, the blob is in a file
\* of one of them (give removes its input only after the rename, take writes
\* its output before it answers).
NoLoss == had /\ ~told => blob \in {input, output, store}

\* Exit status 0: the blob is where the verb should have put it.  (A file
\* that another program made in the meantime is not written when the blob is
\* empty.)
OkMeansDone ==
  cpc = "exited" /\ exit_status = "0" =>
    /\ verb \in Getters => output = blob \/ (blob = <<>> /\ output = Stranger)
    /\ verb = "take" => store = NoFile
    /\ verb \in Putters => store = blob
    /\ verb = "give" => input = NoFile
    /\ verb = "eat" => store # NoFile /\ (trust_fs \/ store = blob)
    /\ verb = "wrap" => seen = Udig

\* "1 request denied": neither the server nor the client removed or stored
\* anything.
DeniedChangesNothing == cpc = "exited" /\ exit_status = "1" => ~touched

\* A file that was stored holds the blob it is named for.
StoreWhole == store \in {NoFile, Rot, blob}

\* A child that was not killed leaves no temporary file.
TmpRemoved == spc = "done" => tmp = NoFile

\* A run that no signal ended, the alarm of a write() included, leaves the
\* whole blob at its output path, or nothing, or the empty file of a request
\* that was denied.
OutputWhole ==
  [][cpc' = "exited" /\ exit_status' \notin {"KILL", "2"} /\ output_fd =>
       output' \in {NoFile, <<>>, blob}]_vars

\* Runs and children end, with an --io-timeout or without.
SessionEnds == cpc = "check" ~> ~Running /\ Ended

\* ">ok\n # client accepted blob, ok to forget": the blob the server forgets
\* is one the client keeps.
AcceptedIsKept == had /\ told => blob \in {input, output, store}

\* "upon error, unlink() file created by --output-path": a run that the alarm
\* ended leaves no part of a blob, either.
TimeoutCleansUp ==
  [][cpc' = "exited" /\ exit_status' = "2" /\ output_fd =>
       output' \in {NoFile, <<>>, blob}]_vars

\* "unlink() file created by --output-path": a file that others made is not
\* removed.
StrangersFileKept == [][output = Stranger => output' = Stranger]_vars

=============================================================================
