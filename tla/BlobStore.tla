------------------------------- MODULE BlobStore -------------------------------
(***************************************************************************)
(* The file system blob store of bio4d: the request children that run the  *)
(* verbs get, put, give, take, eat and the local "digest" of wrap, the     *)
(* arborist process that renames blobs into the tree and trims it, the     *)
(* pipe and the reply fifos between them, and the master that shuts all of *)
(* them down.                                                              *)
(*                                                                         *)
(* Only the arborist makes and removes directories.  Blobs reach the tree  *)
(* through the arborist but leave it by an unlink() of a request child, so *)
(* the two race.                                                           *)
(***************************************************************************)
EXTENDS Naturals, Sequences

CONSTANTS
  Child,        \* process ids of request children; an id may be used again
  Digest,       \* the digests clients name
  Empty,        \* the digest of the empty blob (may be outside Digest)
  Verbs,        \* the verbs requests carry
  Dir,          \* the directories of the store below data/
  Depth,        \* depth of the directory that holds a blob
  DirAt,        \* DirAt[d][k]: the directory at depth k on the path of d
  Stocked,      \* digests of the blobs stored at first boot
  CrossDevice,  \* tmp/ and data/ are different file systems
  DiskFaults,   \* mkdir(), rename() and copies may fail
  Kills,        \* a request child may be killed while the server is up
  Restarts      \* all processes may be killed at once, and the server started
                \* again

AllVerbs == {"get", "put", "give", "take", "eat", "digest"}

\* Directories form a tree: one that two blobs share is at the same depth for
\* both, below the same directories.
ASSUME TreeAssumption ==
  /\ Depth \in Nat
  /\ DirAt \in [Digest -> [0..Depth -> Dir]]
  /\ \A d, e \in Digest : \A j, k \in 0..Depth :
        DirAt[d][j] = DirAt[e][k] =>
           j = k /\ \A i \in 0..j : DirAt[d][i] = DirAt[e][i]

ASSUME ConfigAssumption ==
  /\ Verbs \subseteq AllVerbs
  /\ Stocked \subseteq Digest
  /\ {CrossDevice, DiskFaults, Kills, Restarts} \subseteq BOOLEAN

VARIABLES
  master,  \* the listen process: "up", "leaving" or "down"
  pc,      \* pc[c]: where request child c is; "idle" before and after it runs
  verb,    \* verb[c], dig[c]: what the client of c asked
  dig,
  ans,     \* ans[c]: the closing "ok" or "no" c wrote, "none" before
  seen,    \* seen[c]: state of the file when c opened it
  landed,  \* landed[c]: the rename or unlink done for c (history)
  tmp,     \* tmp[c]: the temporary file of c
  fifo,    \* fifo[c]: run/arborist-<c>.fifo exists
  reply,   \* reply[c]: the payload waiting in that fifo
  file,    \* file[d]: the file at the blob path of d
  dirs,    \* the directories that exist
  queue,   \* messages in the arborist pipe
  arb      \* the arborist: where it is, its message, its depth, its status

vars == <<master, pc, verb, dig, ans, seen, landed, tmp, fifo, reply,
          file, dirs, queue, arb>>

job  == <<verb, dig, ans, seen>>
disk == <<file, dirs>>
ipc  == <<fifo, reply, queue>>

\* Program points of a request child.
Points == {"idle", "dead", "request", "bytes", "stream", "reply", "send",
           "open", "read", "close", "trim", "answer"}
Alive(c) == pc[c] \notin {"idle", "dead"}

\* A blob file is absent, being copied in, complete but writable, or complete
\* and read only.  Files renamed from tmp/ were created read only.
FileStates == {"none", "torn", "whole", "sealed"}

\* The directories above the blobs of S.
Paths(S) == {DirAt[d][k] : d \in S, k \in 0..Depth}

\* Program points of the arborist.
ArbPoints == {"idle", "open", "mkdir", "move", "copy", "chmod", "reply",
              "rmdir", "lstat", "exited", "panicked"}

Stores == {"put", "give", "digest"}

\* The root directories, which booting makes.
Roots == {DirAt[d][0] : d \in Digest}

Msg == [op : {"R", "M", "T"}, child : Child, dig : Digest]
Arb == [pc : ArbPoints, msg : Msg, lvl : 0..Depth, failed : BOOLEAN]

ArbGone == arb.pc \in {"exited", "panicked"}

\* The pipe or the arborist still holds a rename request of process id c.
Pending(c) ==
  \/ \E i \in 1..Len(queue) : queue[i].child = c
  \/ ~ArbGone /\ arb.pc # "idle" /\ arb.msg.child = c

-----------------------------------------------------------------------------
(* Request children.                                                         *)

Goto(c, from, to) == pc[c] = from /\ pc' = [pc EXCEPT ![c] = to]

Bye(c, a) == ans' = [ans EXCEPT ![c] = a] /\ UNCHANGED <<verb, dig, seen>>

\* A new connection is accepted and its process forked.  A process id is not
\* used again while a request of its former owner is still with the arborist.
fork_accept(c, v, d) ==
  /\ master = "up"
  /\ pc[c] \in {"idle", "dead"}
  /\ ~Pending(c)
  /\ pc' = [pc EXCEPT ![c] = "request"]
  /\ verb' = [verb EXCEPT ![c] = v]
  /\ dig' = [dig EXCEPT ![c] = d]
  /\ ans' = [ans EXCEPT ![c] = "none"]
  /\ seen' = [seen EXCEPT ![c] = "none"]
  /\ landed' = [landed EXCEPT ![c] = FALSE]
  /\ tmp' = [tmp EXCEPT ![c] = "none"]
  /\ UNCHANGED <<master, disk, ipc, arb>>

\* put, give: "ok" to the client, then open the temporary file.
put_request(c) ==
  /\ verb[c] \in {"put", "give"}
  /\ Goto(c, "request", "bytes")
  /\ tmp' = [tmp EXCEPT ![c] = "partial"]
  /\ UNCHANGED <<master, job, landed, disk, ipc, arb>>

\* The bytes read so far have the digest asked for.
put_bytes(c) ==
  /\ Goto(c, "bytes", "send")
  /\ tmp' = [tmp EXCEPT ![c] = "whole"]
  /\ UNCHANGED <<master, job, landed, disk, ipc, arb>>

\* The client closed, failed or timed out before that; the empty blob needs
\* no bytes.
put_bytes_croak(c) ==
  /\ dig[c] # Empty
  /\ Goto(c, "bytes", "idle")
  /\ tmp' = [tmp EXCEPT ![c] = "none"]
  /\ Bye(c, "no")
  /\ UNCHANGED <<master, landed, disk, ipc, arb>>

\* wrap: digest a local file into a temporary file.
digest_local(c) ==
  /\ verb[c] = "digest"
  /\ Goto(c, "request", "send")
  /\ tmp' = [tmp EXCEPT ![c] = "whole"]
  /\ UNCHANGED <<master, job, landed, disk, ipc, arb>>

\* Mutant: the answer of the arborist is not waited for.
arbor_send_async(c) ==
  /\ ~fifo[c] /\ ~ArbGone
  /\ Goto(c, "send", "close")
  /\ queue' = Append(queue, [op |-> IF verb[c] = "digest" THEN "M" ELSE "R",
                             child |-> c, dig |-> dig[c]])
  /\ UNCHANGED <<master, job, landed, tmp, fifo, reply, disk, arb>>

\* Make the reply fifo and write the rename or move request.
arbor_send(c) ==
  /\ ~fifo[c] /\ ~ArbGone
  /\ Goto(c, "send", "open")
  /\ fifo' = [fifo EXCEPT ![c] = TRUE]
  /\ queue' = Append(queue, [op |-> IF verb[c] = "digest" THEN "M" ELSE "R",
                             child |-> c, dig |-> dig[c]])
  /\ UNCHANGED <<master, job, landed, tmp, reply, disk, arb>>

\* mkfifo() finds the fifo of a former process with this id, or the pipe has
\* no reader: the child panics, its temporary file stays.
arbor_send_panic(c) ==
  /\ fifo[c] \/ ArbGone
  /\ Goto(c, "send", "idle")
  /\ UNCHANGED <<master, job, landed, tmp, ipc, disk, arb>>

\* Read the reply and remove the fifo.  The payload is not looked at.
arbor_reply(c) ==
  /\ reply[c] # "none"
  /\ Goto(c, "read", "close")
  /\ reply' = [reply EXCEPT ![c] = "none"]
  /\ fifo' = [fifo EXCEPT ![c] = FALSE]
  /\ UNCHANGED <<master, job, landed, tmp, queue, disk, arb>>

\* put and give unlink the temporary file, which may be gone; digest does not.
put_cleanup(c) ==
  /\ Goto(c, "close", "answer")
  /\ tmp' = IF verb[c] = "digest" THEN tmp ELSE [tmp EXCEPT ![c] = "none"]
  /\ UNCHANGED <<master, job, landed, ipc, disk, arb>>

\* The closing "ok".  A give then waits for the client's own ok or no, which
\* changes nothing.
write_ok(c) ==
  /\ Goto(c, "answer", IF verb[c] = "give" THEN "reply" ELSE "idle")
  /\ Bye(c, "ok")
  /\ UNCHANGED <<master, landed, tmp, ipc, disk, arb>>

\* get, take and eat open the blob file.
get_request(c) ==
  /\ verb[c] \in {"get", "take", "eat"}
  /\ pc[c] = "request"
  /\ \/ verb[c] = "get" /\ dig[c] = Empty
        /\ pc' = [pc EXCEPT ![c] = "idle"] /\ Bye(c, "ok")
     \/ ~(verb[c] = "get" /\ dig[c] = Empty) /\ file[dig[c]] = "none"
        /\ pc' = [pc EXCEPT ![c] = "idle"] /\ Bye(c, "no")
     \/ ~(verb[c] = "get" /\ dig[c] = Empty) /\ file[dig[c]] # "none"
        /\ pc' = [pc EXCEPT ![c] = "stream"]
        /\ seen' = [seen EXCEPT ![c] = file[dig[c]]]
        /\ UNCHANGED <<verb, dig, ans>>
  /\ UNCHANGED <<master, landed, tmp, ipc, disk, arb>>

\* The bytes streamed have the digest of the blob: it was complete, or the
\* copy into it ended before the last read.
get_bytes(c) ==
  /\ seen[c] = "torn" => /\ file[dig[c]] # "torn"
                         /\ ~(arb.pc = "copy" /\ arb.msg.dig = dig[c])
  /\ Goto(c, "stream", IF verb[c] = "take" THEN "reply" ELSE "idle")
  /\ IF verb[c] = "take" THEN UNCHANGED job ELSE Bye(c, "ok")
  /\ UNCHANGED <<master, landed, tmp, ipc, disk, arb>>

\* They do not, for the file was read while it was copied in: get and take
\* remove whatever is at the blob path, and the child panics.
get_bytes_zap(c) ==
  /\ \/ seen[c] = "torn"
     \/ seen[c] = "whole" /\ file[dig[c]] = "torn"
  /\ Goto(c, "stream", "idle")
  /\ file' = IF verb[c] = "eat" THEN file ELSE [file EXCEPT ![dig[c]] = "none"]
  /\ UNCHANGED <<master, job, landed, tmp, ipc, dirs, arb>>

\* Mutant: nothing is trimmed after the unlink.
take_reply_untrimmed(c) ==
  /\ verb[c] = "take"
  /\ Goto(c, "reply", "answer")
  /\ file' = [file EXCEPT ![dig[c]] = "none"]
  /\ landed' = [landed EXCEPT ![c] = TRUE]
  /\ UNCHANGED <<master, job, tmp, ipc, dirs, arb>>

\* The client accepted the taken blob: unlink it, there or not ...
take_reply(c) ==
  /\ verb[c] = "take"
  /\ Goto(c, "reply", "trim")
  /\ file' = [file EXCEPT ![dig[c]] = "none"]
  /\ landed' = [landed EXCEPT ![c] = TRUE]
  /\ UNCHANGED <<master, job, tmp, ipc, dirs, arb>>

\* ... and ask the arborist to trim the directories above it.
arbor_trim(c) ==
  /\ pc[c] = "trim"
  /\ IF ArbGone
     THEN pc' = [pc EXCEPT ![c] = "idle"] /\ UNCHANGED queue
     ELSE /\ pc' = [pc EXCEPT ![c] = "answer"]
          /\ queue' = Append(queue, [op |-> "T", child |-> c, dig |-> dig[c]])
  /\ UNCHANGED <<master, job, landed, tmp, fifo, reply, disk, arb>>

\* The client refuses the taken blob, answers a give, or goes away.
hangup(c) ==
  /\ pc[c] \in {"stream", "reply", "answer"}
  /\ pc' = [pc EXCEPT ![c] = "idle"]
  /\ UNCHANGED <<master, job, landed, tmp, ipc, disk, arb>>

\* Mutant: a leaving master does not signal its process group.
kill_child_leave(c) ==
  /\ Alive(c) /\ Kills
  /\ pc' = [pc EXCEPT ![c] = "dead"]
  /\ reply' = [reply EXCEPT ![c] = "none"]
  /\ UNCHANGED <<master, job, landed, tmp, fifo, queue, disk, arb>>

\* A signal ends the child: SIGTERM from a leaving master, or any other.
\* Its fifo and its temporary file stay.
kill_child(c) ==
  /\ Alive(c)
  /\ Kills \/ master = "leaving"
  /\ pc' = [pc EXCEPT ![c] = "dead"]
  /\ reply' = [reply EXCEPT ![c] = "none"]
  /\ UNCHANGED <<master, job, landed, tmp, fifo, queue, disk, arb>>

-----------------------------------------------------------------------------
(* The arborist.                                                             *)

ArbAt(p) == arb.pc = p

\* Read the next message.
arborist(c) ==
  /\ ArbAt("idle") /\ queue # <<>>
  /\ arb' = [pc |-> IF Head(queue).op = "T" THEN "rmdir" ELSE "open",
             msg |-> Head(queue), lvl |-> IF Head(queue).op = "T"
                                          THEN Depth ELSE 0,
             failed |-> FALSE]
  /\ Head(queue).child = c
  /\ queue' = Tail(queue)
  /\ UNCHANGED <<master, pc, job, landed, tmp, fifo, reply, disk>>

\* Every write side of the pipe is closed.
arborist_eof ==
  /\ ArbAt("idle") /\ queue = <<>>
  /\ master # "up" /\ \A c \in Child : ~Alive(c)
  /\ arb' = [arb EXCEPT !.pc = "exited"]
  /\ UNCHANGED <<master, pc, job, landed, tmp, ipc, disk>>

\* open(reply fifo, O_WRONLY) waits until the child opens the other side, and
\* open(reply fifo, O_RDONLY) of the child waits for the arborist.
rename_open ==
  LET c == arb.msg.child IN
  /\ ArbAt("open") /\ pc[c] = "open"
  /\ pc' = [pc EXCEPT ![c] = "read"]
  /\ arb' = [arb EXCEPT !.pc = "mkdir"]
  /\ UNCHANGED <<master, job, landed, tmp, ipc, disk>>

Fail == arb' = [arb EXCEPT !.pc = "reply", !.failed = TRUE]

\* The directories above depth k on the path of d exist.
Above(d, k) == \A j \in 0..(k-1) : DirAt[d][j] \in dirs

\* rename() finds its source and the directory of its target.
RenameReady == /\ tmp[arb.msg.child] = "whole"
               /\ Above(arb.msg.dig, Depth + 1)

\* Mutant: the loop ends one directory late, or one early.
make_path_to(last) ==
  /\ ArbAt("mkdir") /\ Above(arb.msg.dig, arb.lvl)
  /\ dirs' = dirs \cup {DirAt[arb.msg.dig][arb.lvl]}
  /\ arb' = IF arb.lvl = last THEN [arb EXCEPT !.pc = "move"]
                              ELSE [arb EXCEPT !.lvl = @ + 1]
  /\ UNCHANGED <<master, pc, job, landed, tmp, ipc, file>>
make_path_late  == make_path_to(Depth + 1)
make_path_early == make_path_to(Depth - 1)

\* Make the directories of the path, from the top; EEXIST is fine.
make_path ==
  /\ ArbAt("mkdir") /\ Above(arb.msg.dig, arb.lvl)
  /\ dirs' = dirs \cup {DirAt[arb.msg.dig][arb.lvl]}
  /\ arb' = IF arb.lvl = Depth THEN [arb EXCEPT !.pc = "move"]
                               ELSE [arb EXCEPT !.lvl = @ + 1]
  /\ UNCHANGED <<master, pc, job, landed, tmp, ipc, file>>

\* mkdir() or rename() fails, or tmp/ is on another device than data/.
rename_fault ==
  /\ \/ DiskFaults /\ arb.pc \in {"mkdir", "move", "copy"}
     \/ ArbAt("mkdir") /\ ~Above(arb.msg.dig, arb.lvl)
     \/ ArbAt("move") /\ ~RenameReady
     \/ ArbAt("move") /\ CrossDevice /\ arb.msg.op = "R"
     \/ ArbAt("move") /\ CrossDevice /\ file[arb.msg.dig] = "sealed"
  /\ Fail
  /\ UNCHANGED <<master, pc, job, landed, tmp, ipc, disk>>

Renamed(f) ==
  LET c == arb.msg.child IN
  /\ file' = [file EXCEPT ![arb.msg.dig] = f]
  /\ tmp' = [tmp EXCEPT ![c] = "none"]
  /\ landed' = [landed EXCEPT ![c] = TRUE]
  /\ arb' = [arb EXCEPT !.pc = "chmod"]

\* rename() the temporary file over the blob path.
rename_blob ==
  /\ ArbAt("move") /\ ~CrossDevice /\ RenameReady
  /\ Renamed("sealed")
  /\ UNCHANGED <<master, pc, job, ipc, dirs>>

\* _move() to another device: truncate the target, copy, remove the source.
move_open ==
  /\ ArbAt("move") /\ CrossDevice /\ RenameReady
  /\ arb.msg.op = "M" /\ file[arb.msg.dig] # "sealed"
  /\ file' = [file EXCEPT ![arb.msg.dig] = "torn"]
  /\ arb' = [arb EXCEPT !.pc = "copy"]
  /\ UNCHANGED <<master, pc, job, landed, tmp, ipc, dirs>>

\* An unlink of a request child may have taken the name from under the copy.
move_copy ==
  /\ ArbAt("copy")
  /\ Renamed(IF file[arb.msg.dig] = "none" THEN "none" ELSE "whole")
  /\ UNCHANGED <<master, pc, job, ipc, dirs>>

\* Mutant: the blob is not made read-only.
rename_chmod_not ==
  /\ ArbAt("chmod")
  /\ arb' = [arb EXCEPT !.pc = "reply"]
  /\ UNCHANGED <<master, pc, job, landed, tmp, ipc, disk>>

\* chmod() the blob, which fails when the blob is gone.
rename_chmod ==
  /\ ArbAt("chmod")
  /\ IF file[arb.msg.dig] = "none"
     THEN Fail /\ UNCHANGED file
     ELSE /\ file' = [file EXCEPT ![arb.msg.dig] = "sealed"]
          /\ arb' = [arb EXCEPT !.pc = "reply"]
  /\ UNCHANGED <<master, pc, job, landed, tmp, ipc, dirs>>

\* Write the reply.  A failure panics after it, and SIGPIPE, which the
\* arborist does not ignore, ends it when the child is gone.
rename_reply ==
  LET c == arb.msg.child IN
  /\ ArbAt("reply")
  /\ reply' = IF pc[c] = "read"
              THEN [reply EXCEPT ![c] = IF arb.failed THEN "failed" ELSE "done"]
              ELSE reply
  /\ arb' = [arb EXCEPT !.pc = IF pc[c] = "read" /\ ~arb.failed
                               THEN "idle" ELSE "panicked"]
  /\ UNCHANGED <<master, pc, job, landed, tmp, fifo, queue, disk>>

Occupied(d, k) ==
  \E e \in Digest :
    /\ DirAt[e][k] = DirAt[d][k]
    /\ IF k = Depth THEN file[e] # "none" ELSE DirAt[e][k+1] \in dirs

\* Mutant: the trim removes the blob, too.
trim_rmdir_blob ==
  LET d == arb.msg.dig  k == arb.lvl IN
  /\ ArbAt("rmdir")
  /\ file' = [file EXCEPT ![d] = "none"]
  /\ dirs' = dirs \ {DirAt[d][k]}
  /\ arb' = [arb EXCEPT !.pc = IF k = 0 THEN "idle" ELSE "lstat"]
  /\ UNCHANGED <<master, pc, job, landed, tmp, ipc>>

\* trim_blob_dir: remove empty directories upwards.  ENOTEMPTY ends it and
\* ENOENT does not.  data/ itself always holds another module's root.
trim_rmdir ==
  LET d == arb.msg.dig  k == arb.lvl IN
  /\ ArbAt("rmdir")
  /\ IF DirAt[d][k] \in dirs /\ Occupied(d, k)
     THEN arb' = [arb EXCEPT !.pc = "idle"] /\ UNCHANGED dirs
     ELSE /\ dirs' = dirs \ {DirAt[d][k]}
          /\ arb' = [arb EXCEPT !.pc = IF k = 0 THEN "idle" ELSE "lstat"]
  /\ UNCHANGED <<master, pc, job, landed, tmp, ipc, file>>

\* The parent must be there, or the arborist panics.
trim_lstat ==
  /\ ArbAt("lstat")
  /\ arb' = IF DirAt[arb.msg.dig][arb.lvl - 1] \in dirs
            THEN [arb EXCEPT !.pc = "rmdir", !.lvl = @ - 1]
            ELSE [arb EXCEPT !.pc = "panicked"]
  /\ UNCHANGED <<master, pc, job, landed, tmp, ipc, disk>>

-----------------------------------------------------------------------------
(* The master.                                                               *)

\* leave(): a signal to terminate, or the arborist found dead.
leave ==
  /\ master = "up"
  /\ master' = "leaving"
  /\ UNCHANGED <<pc, job, landed, tmp, ipc, disk, arb>>

leave_exit ==
  /\ master = "leaving" /\ \A c \in Child : ~Alive(c)
  /\ master' = "down"
  /\ UNCHANGED <<pc, job, landed, tmp, ipc, disk, arb>>

crash ==
  /\ Restarts /\ master # "down"
  /\ master' = "down"
  /\ pc' = [c \in Child |-> IF Alive(c) THEN "dead" ELSE pc[c]]
  /\ arb' = [arb EXCEPT !.pc = "exited"]
  /\ queue' = <<>>
  /\ reply' = [c \in Child |-> "none"]
  /\ UNCHANGED <<job, landed, tmp, fifo, disk>>

\* A new server makes the roots of its digest modules, a new pipe and a new
\* arborist.  The former arborist has ended, or waits for ever on a fifo no
\* child will open.
arbor_open ==
  /\ Restarts /\ master = "down"
  /\ ArbGone \/ ArbAt("open")
  /\ master' = "up"
  /\ queue' = <<>>
  /\ arb' = [arb EXCEPT !.pc = "idle"]
  /\ dirs' = dirs \cup Roots
  /\ UNCHANGED <<pc, job, landed, tmp, fifo, reply, file>>

-----------------------------------------------------------------------------

Init ==
  /\ master = "up"
  /\ pc = [c \in Child |-> "idle"]
  /\ verb \in [Child -> {"get"}]
  /\ \E d \in Digest :
       /\ dig = [c \in Child |-> d]
       /\ \E c \in Child :
            arb = [pc |-> "idle", msg |-> [op |-> "T", child |-> c, dig |-> d],
                   lvl |-> 0, failed |-> FALSE]
  /\ ans = [c \in Child |-> "none"]
  /\ seen = [c \in Child |-> "none"]
  /\ landed = [c \in Child |-> FALSE]
  /\ tmp = [c \in Child |-> "none"]
  /\ fifo = [c \in Child |-> FALSE]
  /\ reply = [c \in Child |-> "none"]
  /\ file = [d \in Digest |-> IF d \in Stocked THEN "sealed" ELSE "none"]
  /\ dirs = Roots \cup Paths(Stocked)
  /\ queue = <<>>

\* What a request child does by itself or when its client acts in time.
ChildStep(c) ==
  \/ put_request(c) \/ put_bytes(c) \/ put_bytes_croak(c) \/ digest_local(c)
  \/ arbor_send(c) \/ arbor_send_panic(c) \/ arbor_reply(c) \/ put_cleanup(c)
  \/ write_ok(c) \/ get_request(c) \/ get_bytes(c) \/ get_bytes_zap(c)
  \/ take_reply(c) \/ arbor_trim(c) \/ hangup(c)

ArboristStep ==
  \/ \E c \in Child : arborist(c)
  \/ arborist_eof \/ rename_open \/ make_path \/ rename_fault \/ rename_blob
  \/ move_open \/ move_copy \/ rename_chmod \/ rename_reply \/ trim_rmdir
  \/ trim_lstat

Next ==
  \/ \E c \in Child, v \in Verbs, d \in Digest : fork_accept(c, v, d)
  \/ \E c \in Child : ChildStep(c)
  \/ \E c \in Child : kill_child(c)
  \/ ArboristStep
  \/ leave \/ leave_exit \/ crash \/ arbor_open

Spec == Init /\ [][Next]_vars

\* Clients answer within the network timeout, so a child always moves on; the
\* arborist runs; a dead arborist is reaped; a leaving master ends its
\* children and itself.  Nothing forces requests, signals or reboots.
Fairness ==
  /\ \A c \in Child : WF_vars(ChildStep(c))
  /\ \A c \in Child : WF_vars(master = "leaving" /\ kill_child(c))
  /\ WF_vars(ArboristStep)
  /\ WF_vars(ArbAt("panicked") /\ leave)
  /\ WF_vars(leave_exit)

FairSpec == Spec /\ Fairness

-----------------------------------------------------------------------------
(* Properties.                                                               *)

\* The values each variable takes.
TypeOK ==
  /\ master \in {"up", "leaving", "down"}
  /\ pc \in [Child -> Points]
  /\ verb \in [Child -> AllVerbs]
  /\ dig \in [Child -> Digest]
  /\ ans \in [Child -> {"none", "ok", "no"}]
  /\ seen \in [Child -> FileStates]
  /\ landed \in [Child -> BOOLEAN]
  /\ tmp \in [Child -> {"none", "partial", "whole"}]
  /\ fifo \in [Child -> BOOLEAN]
  /\ reply \in [Child -> {"none", "done", "failed"}]
  /\ file \in [Digest -> FileStates]
  /\ dirs \subseteq Dir
  /\ queue \in Seq(Msg)
  /\ arb \in Arb

\* When the arborist comes to rename(), the directories it made are still
\* there and the child has not unlinked the temporary file: rename_blob has no
\* way to fail but a fault of the disk.
RenamesReady == ArbAt("move") => RenameReady

\* A client told "ok" after the bytes of its blob has had the blob renamed into
\* the store, through chmod races and failed replies.
AckedPutLanded ==
  \A c \in Child : verb[c] \in Stores /\ ans[c] = "ok" => landed[c]

\* A complete blob is never cut by another copy of it: move_open() truncates its
\* target, but the blob of an earlier put is read-only before the arborist takes
\* its next message, so that the second copy fails at open().
CompleteStays ==
  [][\A d \in Digest : file[d] \in {"whole", "sealed"} => file'[d] # "torn"]_vars

\* Why they hold.  Only the arborist touches directories, so the path it has
\* made stays made.
PathMade ==
  /\ ArbAt("open") => arb.lvl = 0
  /\ ArbAt("mkdir") => Above(arb.msg.dig, arb.lvl)
  /\ arb.pc \in {"move", "copy"} => Above(arb.msg.dig, Depth + 1)

\* A child has one rename request at a time, and until the answer it neither
\* unlinks its temporary file nor is its process id given to another.
Renaming == {"open", "mkdir", "move", "copy", "chmod", "reply"}

RequestHeld ==
  /\ \A i \in 1..Len(queue) : queue[i].op # "T" =>
        /\ tmp[queue[i].child] = "whole"
        /\ pc[queue[i].child] \in {"open", "dead"}
        /\ reply[queue[i].child] = "none"
        /\ arb.pc \in Renaming => arb.msg.child # queue[i].child
        /\ \A j \in 1..Len(queue) :
              queue[j].op # "T" /\ queue[j].child = queue[i].child => i = j
  /\ arb.pc \in Renaming =>
        /\ pc[arb.msg.child] \in {"open", "read", "dead"}
        /\ reply[arb.msg.child] = "none"
        /\ arb.pc \notin {"chmod", "reply"} => tmp[arb.msg.child] = "whole"
  /\ \A c \in Child : /\ reply[c] # "none" => pc[c] = "read"
                      /\ pc[c] = "send" => tmp[c] = "whole"

\* With a working disk, each answer follows the rename it answers.
AnswerLanded ==
  /\ arb.pc \in {"chmod", "reply"} => landed[arb.msg.child]
  /\ \A c \in Child :
        /\ reply[c] # "none" => landed[c]
        /\ pc[c] = "close" => landed[c]
        /\ pc[c] = "answer" /\ verb[c] \in Stores => landed[c]
        /\ pc[c] = "stream" => verb[c] \notin Stores
        /\ pc[c] = "trim" => verb[c] = "take"

\* What the store is to its clients.
Service == INSTANCE BlobService WITH
  Client <- Child,
  store  <- {d \in Digest : file[d] # "none"},
  found  <- [c \in Child |-> seen[c] # "none"],
  done   <- landed,
  st     <- [c \in Child |-> IF ans[c] # "none" THEN ans[c]
                             ELSE IF Alive(c) THEN "asked" ELSE "gone"]

\* With tmp/ and data/ on one device and no disk faults, the children, the
\* arborist and their messages keep the promises of BlobService: requests act
\* on the set of blobs in one step, in between being asked and answered.
ServiceSpec == Service!Spec

\* Takes clean up after themselves: with no trim under way, each directory of
\* a server that lost no process, roots aside, leads to a blob.
NoLitter ==
  /\ master = "up" /\ ArbAt("idle") /\ queue = <<>>
  /\ \A c \in Child : pc[c] # "trim"
  => \A x \in dirs \ Roots :
       \E d \in Digest, k \in 0..Depth : DirAt[d][k] = x /\ file[d] # "none"

\* Every request ends, one waiting for the arborist included: the arborist
\* answers, or its death takes the server and so the request down.
RequestsEnd == \A c \in Child : pc[c] = "request" ~> ~Alive(c)

\* The assertion of reap_request(), "unexpected exit of arborist process":
\* no trim is the end of the arborist ...
TrimsSpareArborist ==
  master = "up" => ~(ArbAt("panicked") /\ arb.msg.op = "T")

\* ... and no rename is, as long as the disk works.
RenamesSpareArborist ==
  master = "up" => ~(ArbAt("panicked") /\ arb.failed)

\* fork_arborist(): "arbor shuts down when the read side of the pipe returns 0
\* (EOF)", so a server that is left ends its arborist.
ArboristShutsDown == master = "leaving" ~> ArbGone

\* zap_blob(): "Do a hard delete of a corrupted blob."  What it deletes is not
\* a complete blob.
ZapsCorrupt ==
  [][\A c \in Child : get_bytes_zap(c) => file[dig[c]] = "torn"]_vars

=============================================================================
