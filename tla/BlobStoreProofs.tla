---------------------------- MODULE BlobStoreProofs ----------------------------
(* Theorems about BlobStore, for any tree, any set of blobs, children and    *)
(* verbs, and every combination of the faults unless one is excluded.        *)
EXTENDS BlobStore, SequenceTheorems, TLAPS

-----------------------------------------------------------------------------
(* Types.                                                                    *)

\* trim_blob_dir looks at a parent only below the root.
TypeInv == TypeOK /\ (ArbAt("lstat") => arb.lvl > 0)

\* One step of a request child keeps every variable in its type.
LEMMA ChildStepType ==
  ASSUME TypeOK, NEW c \in Child, ChildStep(c)
  PROVE  TypeOK'
<1> USE DEF TypeOK, Goto, Bye, Points, FileStates, job, disk, ipc, AllVerbs
<1>1. CASE put_request(c) BY <1>1 DEF put_request
<1>2. CASE put_bytes(c) BY <1>2 DEF put_bytes
<1>3. CASE put_bytes_croak(c) BY <1>3 DEF put_bytes_croak
<1>4. CASE digest_local(c) BY <1>4 DEF digest_local
<1>5. CASE arbor_send(c)
  <2> DEFINE m == [op |-> IF verb[c] = "digest" THEN "M" ELSE "R",
                   child |-> c, dig |-> dig[c]]
  <2>1. m \in Msg
    BY DEF Msg
  <2>2. queue' = Append(queue, m)
    BY <1>5 DEF arbor_send
  <2> HIDE DEF m
  <2>3. queue' \in Seq(Msg)
    BY <2>1, <2>2, AppendProperties
  <2>4. /\ pc' = [pc EXCEPT ![c] = "open"] /\ fifo' = [fifo EXCEPT ![c] = TRUE]
        /\ UNCHANGED <<master, job, landed, tmp, reply, disk, arb>>
    BY <1>5 DEF arbor_send
  <2> QED BY <2>3, <2>4
<1>6. CASE arbor_send_panic(c) BY <1>6 DEF arbor_send_panic
<1>7. CASE arbor_reply(c) BY <1>7 DEF arbor_reply
<1>8. CASE put_cleanup(c) BY <1>8 DEF put_cleanup
<1>9. CASE write_ok(c) BY <1>9 DEF write_ok
<1>10. CASE get_request(c)
  <2>1. file[dig[c]] \in FileStates
    OBVIOUS
  <2>2. CASE pc' = [pc EXCEPT ![c] = "stream"]
    BY <1>10, <2>1, <2>2 DEF get_request
  <2>3. CASE pc' = [pc EXCEPT ![c] = "idle"]
    BY <1>10, <2>1, <2>3 DEF get_request
  <2> QED BY <1>10, <2>2, <2>3 DEF get_request
<1>11. CASE get_bytes(c) BY <1>11 DEF get_bytes
<1>12. CASE get_bytes_zap(c) BY <1>12 DEF get_bytes_zap
<1>13. CASE take_reply(c) BY <1>13 DEF take_reply
<1>14. CASE arbor_trim(c)
  <2> DEFINE m == [op |-> "T", child |-> c, dig |-> dig[c]]
  <2>1. m \in Msg
    BY DEF Msg
  <2>2. queue' = queue \/ queue' = Append(queue, m)
    BY <1>14 DEF arbor_trim
  <2> HIDE DEF m
  <2>3. queue' \in Seq(Msg)
    <3>1. Append(queue, m) \in Seq(Msg)
      BY <2>1, AppendProperties
    <3> QED BY <2>2, <3>1
  <2>4. /\ \E p \in Points : pc' = [pc EXCEPT ![c] = p]
        /\ UNCHANGED <<master, job, landed, tmp, fifo, reply, disk, arb>>
    BY <1>14 DEF arbor_trim
  <2> QED BY <2>3, <2>4
<1>15. CASE hangup(c) BY <1>15 DEF hangup
<1> QED
  BY <1>1, <1>2, <1>3, <1>4, <1>5, <1>6, <1>7, <1>8, <1>9, <1>10, <1>11,
     <1>12, <1>13, <1>14, <1>15 DEF ChildStep

\* What an EXCEPT makes of the arborist's record.
LEMMA ArbExcept ==
  ASSUME NEW a \in Arb, NEW p \in ArbPoints, NEW k \in 0..Depth
  PROVE  /\ [a EXCEPT !.pc = p] \in Arb
         /\ [a EXCEPT !.lvl = k] \in Arb
         /\ [a EXCEPT !.pc = p, !.lvl = k] \in Arb
         /\ [a EXCEPT !.pc = p, !.failed = TRUE] \in Arb
BY DEF Arb

\* So does one step of the arborist.
LEMMA ArboristStepType ==
  ASSUME TypeInv, ArboristStep
  PROVE  TypeOK'
<1> USE DEF ArbAt, job, disk, ipc
<1>0. TypeOK /\ (arb.pc = "lstat" => arb.lvl > 0)
  BY DEF TypeInv
<1>1. /\ arb.msg.child \in Child /\ arb.msg.dig \in Digest
      /\ arb.lvl \in 0..Depth /\ arb \in Arb
  BY <1>0, <1>0 DEF TypeOK, Arb, Msg
<1>2. ArbPoints = {"idle", "open", "mkdir", "move", "copy", "chmod", "reply",
                   "rmdir", "lstat", "exited", "panicked"}
  BY DEF ArbPoints
<1>a. \A p \in ArbPoints, k \in 0..Depth :
         /\ [arb EXCEPT !.pc = p] \in Arb
         /\ [arb EXCEPT !.lvl = k] \in Arb
         /\ [arb EXCEPT !.pc = p, !.lvl = k] \in Arb
         /\ [arb EXCEPT !.pc = p, !.failed = TRUE] \in Arb
  BY <1>1, ArbExcept
<1>3. ASSUME NEW c \in Child, arborist(c) PROVE TypeOK'
  <2>1. queue' \in Seq(Msg) /\ Head(queue) \in Msg
    BY <1>0, <1>3, HeadTailProperties DEF arborist, TypeOK
  <2>2. arb' \in Arb
    BY <1>0, <1>3, <1>2, <2>1, TreeAssumption DEF arborist, Arb
  <2> QED BY <1>0, <1>3, <2>1, <2>2 DEF arborist, TypeOK
<1>4. CASE arborist_eof
  <2>1. arb' \in Arb
    BY <1>1, <1>2, <1>a, <1>4 DEF arborist_eof
  <2> QED BY <1>0, <1>4, <2>1 DEF arborist_eof, TypeOK
<1>5. CASE rename_open
  BY <1>0, <1>1, <1>2, <1>a, <1>5 DEF rename_open, TypeOK, Points
<1>6. CASE make_path
  <2>1. DirAt[arb.msg.dig][arb.lvl] \in Dir
    BY <1>1, TreeAssumption
  <2>2. arb' \in Arb
    <3>1. CASE arb.lvl = Depth
      BY <1>2, <1>a, <1>1, <1>6, <3>1 DEF make_path
    <3>2. CASE arb.lvl # Depth
      <4>1. arb.lvl + 1 \in 0..Depth
        BY <1>1, <3>2, TreeAssumption
      <4> QED BY <1>a, <4>1, <1>6, <3>2, <1>2 DEF make_path
    <3> QED BY <3>1, <3>2
  <2> QED BY <1>0, <1>6, <2>1, <2>2 DEF make_path, TypeOK
<1>7. CASE rename_fault BY <1>0, <1>1, <1>2, <1>a, <1>7 DEF rename_fault, Fail, TypeOK
<1>8. CASE rename_blob
  BY <1>0, <1>1, <1>2, <1>a, <1>8 DEF rename_blob, Renamed, TypeOK, FileStates
<1>9. CASE move_open
  BY <1>0, <1>1, <1>2, <1>a, <1>9 DEF move_open, TypeOK, FileStates
<1>10. CASE move_copy
  BY <1>0, <1>1, <1>2, <1>a, <1>10 DEF move_copy, Renamed, TypeOK, FileStates
<1>11. CASE rename_chmod
  BY <1>0, <1>1, <1>2, <1>a, <1>11 DEF rename_chmod, Fail, TypeOK, FileStates
<1>12. CASE rename_reply
  BY <1>0, <1>1, <1>2, <1>a, <1>12 DEF rename_reply, TypeOK
<1>13. CASE trim_rmdir
  BY <1>0, <1>1, <1>2, <1>a, <1>13 DEF trim_rmdir, TypeOK
<1>14. CASE trim_lstat
  <2>1. arb' \in Arb
    <3>1. arb.lvl - 1 \in 0..Depth
      BY <1>0, <1>1, <1>14, TreeAssumption DEF trim_lstat
    <3> QED BY <1>0, <1>1, <1>2, <1>a, <1>14, <3>1 DEF trim_lstat
  <2> QED BY <1>0, <1>14, <2>1 DEF trim_lstat, TypeOK
<1> QED
  BY <1>3, <1>4, <1>5, <1>6, <1>7, <1>8, <1>9, <1>10, <1>11, <1>12, <1>13,
     <1>14 DEF ArboristStep

\* The walk of trim_blob_dir stops at the root.
LEMMA TrimBounded ==
  ASSUME TypeInv, [Next]_vars
  PROVE  ArbAt("lstat")' => arb'.lvl > 0
<1>1. /\ arb \in Arb
      /\ arb.pc = "lstat" => arb.lvl > 0
      /\ arb.lvl \in 0..Depth /\ Depth \in Nat
  BY TreeAssumption DEF TypeInv, TypeOK, Arb, ArbAt
<1>2. CASE trim_rmdir
  BY <1>1, <1>2 DEF trim_rmdir, Arb, ArbAt
<1>3. CASE UNCHANGED arb
  BY <1>1, <1>3 DEF ArbAt
<1>4. CASE arb'.pc # "lstat"
  BY <1>4 DEF ArbAt
<1>5. trim_rmdir \/ UNCHANGED arb \/ arb'.pc # "lstat"
  <2>1. ASSUME NEW c \in Child, ChildStep(c) PROVE UNCHANGED arb
    BY <2>1 DEF ChildStep, put_request, put_bytes, put_bytes_croak,
       digest_local, arbor_send, arbor_send_panic, arbor_reply, put_cleanup,
       write_ok, get_request, get_bytes, get_bytes_zap, take_reply,
       arbor_trim, hangup
  <2>2. ASSUME ArboristStep, ~trim_rmdir PROVE arb'.pc # "lstat"
    <3>1. ASSUME NEW c \in Child, arborist(c) PROVE arb'.pc # "lstat"
      BY <3>1 DEF arborist
    <3>2. CASE arborist_eof \/ rename_open \/ make_path
      BY <1>1, <3>2 DEF arborist_eof, rename_open, make_path, Arb, ArbAt
    <3>3. CASE rename_fault \/ rename_blob \/ move_copy
      BY <1>1, <3>3 DEF rename_fault, rename_blob, move_copy, Renamed, Fail, Arb
    <3>4. CASE move_open \/ rename_chmod
      BY <1>1, <3>4 DEF move_open, rename_chmod, Fail, Arb
    <3>5. CASE rename_reply \/ trim_lstat
      BY <1>1, <3>5 DEF rename_reply, trim_lstat, Arb
    <3> QED BY <2>2, <3>1, <3>2, <3>3, <3>4, <3>5 DEF ArboristStep
  <2>3. ASSUME NEW c \in Child, kill_child(c) PROVE UNCHANGED arb
    BY <2>3 DEF kill_child
  <2>4. ASSUME NEW c \in Child, NEW v \in Verbs, NEW d \in Digest,
               fork_accept(c, v, d)
        PROVE  UNCHANGED arb
    BY <2>4 DEF fork_accept
  <2>5. leave \/ leave_exit => UNCHANGED arb
    BY DEF leave, leave_exit
  <2>6. crash \/ arbor_open => arb'.pc # "lstat"
    BY <1>1 DEF crash, arbor_open, Arb
  <2> QED BY <2>1, <2>2, <2>3, <2>4, <2>5, <2>6 DEF Next, vars
<1> QED BY <1>2, <1>3, <1>4, <1>5

\* Every step keeps every variable in its type.
LEMMA StepType ==
  ASSUME TypeInv, [Next]_vars
  PROVE  TypeInv'
<1>1. TypeOK
  BY DEF TypeInv
<1>2. TypeOK'
  <2>1. ASSUME NEW c \in Child, NEW v \in Verbs, NEW d \in Digest,
               fork_accept(c, v, d)
        PROVE  TypeOK'
    BY <1>1, <2>1, ConfigAssumption
    DEF fork_accept, TypeOK, Points, FileStates, job, disk, ipc
  <2>2. ASSUME NEW c \in Child, ChildStep(c) PROVE TypeOK'
    BY <1>1, <2>2, ChildStepType
  <2>3. ASSUME NEW c \in Child, kill_child(c) PROVE TypeOK'
    BY <1>1, <2>3 DEF kill_child, TypeOK, Points, job, disk
  <2>4. CASE ArboristStep
    BY <2>4, ArboristStepType
  <2>5. CASE leave \/ leave_exit
    BY <1>1, <2>5 DEF leave, leave_exit, TypeOK, job, disk, ipc
  <2>6. CASE crash \/ arbor_open
    <3>1. arb' \in Arb
      <4>1. arb \in Arb /\ arb.lvl \in 0..Depth
        BY <1>1 DEF TypeOK, Arb
      <4>2. {"idle", "exited"} \subseteq ArbPoints
        BY DEF ArbPoints
      <4>3. \A p \in ArbPoints : [arb EXCEPT !.pc = p] \in Arb
        BY <4>1, ArbExcept
      <4> QED BY <2>6, <4>2, <4>3 DEF crash, arbor_open
    <3>2. Roots \subseteq Dir
      BY TreeAssumption DEF Roots
    <3>3. queue' \in Seq(Msg)
      <4>1. queue' = <<>>
        BY <2>6 DEF crash, arbor_open
      <4> QED BY <4>1
    <3>4. CASE crash
      BY <1>1, <3>4, <3>1, <3>3 DEF crash, TypeOK, Points, job, disk
    <3>5. CASE arbor_open
      BY <1>1, <3>5, <3>1, <3>2, <3>3 DEF arbor_open, TypeOK, job
    <3> QED BY <2>6, <3>4, <3>5
  <2>7. CASE UNCHANGED vars
    BY <1>1, <2>7 DEF vars, TypeOK
  <2> QED BY <2>1, <2>2, <2>3, <2>4, <2>5, <2>6, <2>7 DEF Next
<1> QED BY <1>2, TrimBounded DEF TypeInv

\* The first state is typed.
LEMMA InitType ==
  ASSUME Init
  PROVE  TypeInv /\ arb.pc = "idle"
<1>1. arb \in Arb /\ arb.pc = "idle"
  <2>1. PICK d \in Digest, c \in Child :
          arb = [pc |-> "idle", msg |-> [op |-> "T", child |-> c, dig |-> d],
                 lvl |-> 0, failed |-> FALSE]
    BY DEF Init
  <2>2. [op |-> "T", child |-> c, dig |-> d] \in Msg
    BY DEF Msg
  <2>3. 0 \in 0..Depth
    BY TreeAssumption
  <2> QED BY <2>1, <2>2, <2>3 DEF Arb, ArbPoints
<1>2. dirs \subseteq Dir
  <2>1. \A d \in Digest, k \in 0..Depth : DirAt[d][k] \in Dir
    BY TreeAssumption
  <2>2. 0 \in 0..Depth
    BY TreeAssumption
  <2>3. dirs = Roots \cup Paths(Stocked)
    BY DEF Init
  <2> QED BY <2>1, <2>2, <2>3, ConfigAssumption DEF Roots, Paths
<1>3. queue \in Seq(Msg)
  <2>1. queue = <<>>
    BY DEF Init
  <2> QED BY <2>1
<1> QED BY <1>1, <1>2, <1>3
    DEF Init, TypeInv, TypeOK, ArbAt, AllVerbs, Points, FileStates

\* TypeOK holds in every reachable state.
THEOREM TypeCorrect == Spec => []TypeOK
<1>1. Init => TypeInv
  BY InitType
<1>2. TypeInv /\ [Next]_vars => TypeInv'
  BY StepType
<1>3. TypeInv => TypeOK
  BY DEF TypeInv
<1> QED BY <1>1, <1>2, <1>3, PTL DEF Spec

-----------------------------------------------------------------------------
(* The tree.                                                                 *)

\* No directory is without the one above it, and no blob without its directory.
TreeClosed ==
  \A d \in Digest :
    /\ file[d] # "none" => Above(d, Depth + 1)
    /\ \A k \in 0..Depth : DirAt[d][k] \in dirs => Above(d, k)

\* What the steps of others leave of the state of the arborist's directories.
LEMMA TreeFrame ==
  ASSUME TreeClosed, PathMade, UNCHANGED <<arb, dirs>>,
         \A d \in Digest : file'[d] # "none" => file[d] # "none"
  PROVE  TreeClosed' /\ PathMade'
BY DEF TreeClosed, PathMade, Above, ArbAt

\* No step of a child touches a directory, and the only change it makes to a
\* blob file is to remove it.
LEMMA ChildTree ==
  ASSUME TypeOK, NEW c \in Child, ChildStep(c)
  PROVE  /\ UNCHANGED <<arb, dirs>>
         /\ \A d \in Digest : file'[d] # "none" => file[d] # "none"
<1>1. UNCHANGED <<arb, dirs>>
  BY DEF ChildStep, put_request, put_bytes, put_bytes_croak,
     digest_local, arbor_send, arbor_send_panic, arbor_reply, put_cleanup,
     write_ok, get_request, get_bytes, get_bytes_zap, take_reply,
     arbor_trim, hangup, disk
<1>2. UNCHANGED file \/ file' = [file EXCEPT ![dig[c]] = "none"]
  BY DEF ChildStep, put_request, put_bytes, put_bytes_croak,
     digest_local, arbor_send, arbor_send_panic, arbor_reply, put_cleanup,
     write_ok, get_request, get_bytes, get_bytes_zap, take_reply,
     arbor_trim, hangup, disk
<1> QED BY <1>1, <1>2 DEF TypeOK

\* A file may appear where all the directories above it exist.
LEMMA FileAppears ==
  ASSUME TypeOK, TreeClosed, NEW d \in Digest, Above(d, Depth + 1),
         UNCHANGED dirs, NEW f, file' = [file EXCEPT ![d] = f]
  PROVE  TreeClosed'
BY DEF TypeOK, TreeClosed, Above

\* mkdir() below existing directories.
LEMMA DirAppears ==
  ASSUME TreeClosed, NEW d \in Digest, NEW k \in 0..Depth, Above(d, k),
         dirs' = dirs \cup {DirAt[d][k]}, UNCHANGED file
  PROVE  /\ TreeClosed'
         /\ Above(d, k + 1)'
         /\ \A e \in Digest, j \in 0..(Depth + 1) : Above(e, j) => Above(e, j)'
<1>1. \A e \in Digest, j \in 0..(Depth + 1) : Above(e, j) => Above(e, j)'
  BY DEF Above
<1>2. Above(d, k + 1)'
  BY TreeAssumption DEF Above
<1>3. ASSUME NEW e \in Digest, NEW j \in 0..Depth, DirAt[e][j] = DirAt[d][k]
      PROVE  Above(e, j)
  BY <1>3, TreeAssumption DEF Above
<1>4. ASSUME NEW e \in Digest, NEW j \in 0..Depth, DirAt[e][j] \in dirs'
      PROVE  Above(e, j)'
  <2>1. Above(e, j)
    BY <1>3, <1>4 DEF TreeClosed
  <2> QED BY <1>1, <2>1, TreeAssumption
<1>5. ASSUME NEW e \in Digest, file'[e] # "none" PROVE Above(e, Depth + 1)'
  <2>1. Above(e, Depth + 1) /\ Depth + 1 \in 0..(Depth + 1)
    BY <1>5, TreeAssumption DEF TreeClosed
  <2> QED BY <1>1, <2>1
<1> QED BY <1>1, <1>2, <1>4, <1>5 DEF TreeClosed

\* rmdir() of a directory that holds no blob and no directory.
LEMMA DirDisappears ==
  ASSUME TreeClosed, NEW d \in Digest, NEW k \in 0..Depth, ~Occupied(d, k),
         DirAt[d][k] \in dirs,
         dirs' = dirs \ {DirAt[d][k]}, UNCHANGED file
  PROVE  TreeClosed'
<1>1. ASSUME NEW e \in Digest, NEW m \in 0..(Depth + 1), Above(e, m),
             m <= Depth => DirAt[e][m] \in dirs,
             m = Depth + 1 => file[e] # "none"
      PROVE  Above(e, m)'
  <2>1. ASSUME NEW j \in 0..(m - 1), DirAt[e][j] = DirAt[d][k] PROVE FALSE
    <3>1. j = k /\ j \in 0..Depth
      BY <2>1, TreeAssumption
    <3>2. CASE k = Depth
      <4>1. file[e] # "none"
        BY <1>1, <3>1, <3>2, TreeAssumption
      <4> QED BY <2>1, <3>1, <3>2, <4>1 DEF Occupied
    <3>3. CASE k # Depth
      <4>1. k + 1 \in 0..Depth /\ k + 1 <= m
        BY <3>1, <3>3, TreeAssumption
      <4>2. DirAt[e][k + 1] \in dirs
        BY <1>1, <4>1 DEF Above
      <4> QED BY <2>1, <3>1, <3>3, <4>2 DEF Occupied
    <3> QED BY <3>2, <3>3
  <2> QED BY <1>1, <2>1 DEF Above
<1>2. ASSUME NEW e \in Digest, file'[e] # "none" PROVE Above(e, Depth + 1)'
  BY <1>1, <1>2, TreeAssumption DEF TreeClosed
<1>3. ASSUME NEW e \in Digest, NEW j \in 0..Depth, DirAt[e][j] \in dirs'
      PROVE  Above(e, j)'
  BY <1>1, <1>3, TreeAssumption DEF TreeClosed
<1> QED BY <1>2, <1>3 DEF TreeClosed

\* Every step keeps the tree closed, and the path under construction.
LEMMA TreeStep ==
  ASSUME TypeInv, TreeClosed, PathMade, [Next]_vars
  PROVE  TreeClosed' /\ PathMade'
<1>0. /\ TypeOK
      /\ arb \in Arb /\ arb.msg.child \in Child /\ arb.msg.dig \in Digest
      /\ arb.lvl \in 0..Depth /\ Depth \in Nat
  BY TreeAssumption DEF TypeInv, TypeOK, Arb, Msg
<1>1. ASSUME NEW c \in Child, ChildStep(c) PROVE TreeClosed' /\ PathMade'
  BY <1>0, <1>1, ChildTree, TreeFrame
<1>2. CASE (\E c \in Child : kill_child(c)) \/ leave \/ leave_exit
  BY <1>2, TreeFrame DEF kill_child, leave, leave_exit, disk
<1>3. ASSUME NEW c \in Child, NEW v \in Verbs, NEW d \in Digest,
             fork_accept(c, v, d)
      PROVE  TreeClosed' /\ PathMade'
  BY <1>3, TreeFrame DEF fork_accept, disk
<1>4. CASE crash
  BY <1>0, <1>4 DEF crash, TreeClosed, PathMade, Above, ArbAt, disk, Arb
<1>5. CASE arbor_open
  <2>1. ASSUME NEW d \in Digest, NEW k \in 0..(Depth + 1), Above(d, k)
        PROVE  Above(d, k)'
    BY <1>5, <2>1 DEF arbor_open, Above
  <2>2. ASSUME NEW d \in Digest, NEW k \in 0..Depth, DirAt[d][k] \in Roots
        PROVE  k = 0
    BY <2>2, TreeAssumption DEF Roots
  <2>3. TreeClosed'
    BY <1>0, <1>5, <2>1, <2>2 DEF arbor_open, TreeClosed, Above
  <2> QED BY <1>0, <1>5, <2>3 DEF arbor_open, PathMade, ArbAt, Arb
<1>6. ASSUME NEW c \in Child, arborist(c) PROVE TreeClosed' /\ PathMade'
  BY <1>0, <1>6 DEF arborist, TreeClosed, PathMade, Above, ArbAt, disk
<1>7. CASE arborist_eof \/ rename_reply \/ trim_lstat
  BY <1>0, <1>7 DEF arborist_eof, rename_reply, trim_lstat, TreeClosed,
     PathMade, Above, ArbAt, disk, Arb
<1>8. CASE rename_open
  BY <1>0, <1>8 DEF rename_open, TreeClosed, PathMade, Above, ArbAt, disk, Arb
<1>9. CASE rename_fault
  BY <1>0, <1>9 DEF rename_fault, Fail, TreeClosed, PathMade, Above, ArbAt,
     disk, Arb
<1>10. CASE make_path
  <2>0. PICK d \in Digest, k \in 0..Depth : d = arb.msg.dig /\ k = arb.lvl
    BY <1>0
  <2>1. /\ dirs' = dirs \cup {DirAt[d][k]} /\ UNCHANGED file
        /\ Above(d, k)
        /\ IF k = Depth THEN arb' = [arb EXCEPT !.pc = "move"]
                        ELSE arb' = [arb EXCEPT !.lvl = k + 1]
    BY <1>0, <1>10, <2>0 DEF make_path
  <2>2. TreeClosed' /\ Above(d, k + 1)'
    BY <1>0, <2>1, DirAppears
  <2>3. arb'.msg.dig = d
    BY <1>0, <2>0, <2>1 DEF Arb
  <2>4. ArbAt("mkdir")
    BY <1>10 DEF make_path
  <2>5. CASE k = Depth
    <3>1. arb'.pc = "move"
      BY <1>0, <2>1, <2>5 DEF Arb
    <3>2. Above(d, Depth + 1)'
      BY <2>2, <2>5 DEF Above
    <3> QED BY <2>2, <2>3, <3>1, <3>2 DEF PathMade, ArbAt, Above
  <2>6. CASE k # Depth
    <3>1. arb'.pc = "mkdir" /\ arb'.lvl = k + 1
      BY <1>0, <2>0, <2>1, <2>4, <2>6 DEF Arb, ArbAt
    <3>2. \A j \in 0..(arb'.lvl - 1) : DirAt[d][j] \in dirs'
      BY <2>2, <3>1 DEF Above
    <3> QED BY <2>2, <2>3, <3>1, <3>2 DEF PathMade, ArbAt, Above
  <2> QED BY <2>5, <2>6
<1>11. CASE rename_blob \/ move_open \/ move_copy
  <2>1. Above(arb.msg.dig, Depth + 1)
    BY <1>11 DEF rename_blob, move_open, move_copy, RenameReady, PathMade, ArbAt
  <2>2. \E f : file' = [file EXCEPT ![arb.msg.dig] = f]
    BY <1>11 DEF rename_blob, move_open, move_copy, Renamed
  <2>3. UNCHANGED dirs
    BY <1>11 DEF rename_blob, move_open, move_copy
  <2>4. TreeClosed'
    BY <1>0, <2>1, <2>2, <2>3, FileAppears
  <2>5. arb'.pc \in {"chmod", "copy"} /\ arb'.msg = arb.msg
    BY <1>0, <1>11 DEF rename_blob, move_open, move_copy, Renamed, Arb
  <2> QED BY <2>1, <2>3, <2>4, <2>5 DEF PathMade, Above, ArbAt
<1>12. CASE rename_chmod
  <2>1. /\ UNCHANGED dirs /\ arb'.pc = "reply"
        /\ \A d \in Digest : file'[d] # "none" => file[d] # "none"
    BY <1>0, <1>12 DEF rename_chmod, Fail, Arb, TypeOK
  <2> QED BY <2>1 DEF TreeClosed, PathMade, Above, ArbAt
<1>13. CASE trim_rmdir
  <2>0. PICK d \in Digest, k \in 0..Depth : d = arb.msg.dig /\ k = arb.lvl
    BY <1>0
  <2>1. UNCHANGED file /\ arb'.pc \in {"idle", "lstat"}
    BY <1>0, <1>13 DEF trim_rmdir, Arb
  <2>2. \/ UNCHANGED dirs
        \/ /\ dirs' = dirs \ {DirAt[d][k]}
           /\ DirAt[d][k] \in dirs /\ ~Occupied(d, k)
    BY <1>13, <2>0 DEF trim_rmdir
  <2>3. TreeClosed'
    <3>1. CASE UNCHANGED dirs
      BY <2>1, <3>1 DEF TreeClosed, Above
    <3>2. CASE /\ dirs' = dirs \ {DirAt[d][k]}
               /\ DirAt[d][k] \in dirs /\ ~Occupied(d, k)
      BY <1>0, <2>1, <3>2, DirDisappears
    <3> QED BY <2>2, <3>1, <3>2
  <2> QED BY <2>1, <2>3 DEF PathMade, ArbAt
<1>14. CASE UNCHANGED vars
  BY <1>14, TreeFrame DEF vars
<1> QED
  BY <1>1, <1>2, <1>3, <1>4, <1>5, <1>6, <1>7, <1>8, <1>9, <1>10, <1>11,
     <1>12, <1>13, <1>14 DEF Next, ArboristStep

\* The tree of the first boot is closed.
LEMMA InitTree ==
  ASSUME Init
  PROVE  TypeInv /\ TreeClosed /\ PathMade
<1>1. /\ dirs = Roots \cup Paths(Stocked)
      /\ \A d \in Digest : file[d] # "none" => d \in Stocked
      /\ arb.pc = "idle"
  <2>1. dirs = Roots \cup Paths(Stocked)
    BY DEF Init
  <2>2. file = [d \in Digest |-> IF d \in Stocked THEN "sealed" ELSE "none"]
    BY DEF Init
  <2>3. arb.pc = "idle"
    BY InitType
  <2> QED BY <2>1, <2>2, <2>3
<1>2. \A d \in Stocked, k \in 0..Depth : DirAt[d][k] \in dirs
  BY <1>1 DEF Paths
<1>3. ASSUME NEW d \in Digest, NEW k \in 0..Depth, DirAt[d][k] \in dirs
      PROVE  Above(d, k)
  <2>1. CASE DirAt[d][k] \in Roots
    BY <2>1, TreeAssumption DEF Roots, Above
  <2>2. CASE DirAt[d][k] \in Paths(Stocked)
    <3>1. PICK e \in Stocked, j \in 0..Depth : DirAt[d][k] = DirAt[e][j]
      BY <2>2 DEF Paths
    <3>2. \A i \in 0..k : DirAt[d][i] = DirAt[e][i]
      BY <3>1, TreeAssumption, ConfigAssumption
    <3> QED BY <1>2, <3>2, TreeAssumption DEF Above
  <2> QED BY <1>1, <1>3, <2>1, <2>2
<1>4. \A d \in Stocked : Above(d, Depth + 1)
  BY <1>2, TreeAssumption DEF Above
<1>5. TypeInv
  BY InitType
<1> QED BY <1>1, <1>3, <1>4, <1>5 DEF TreeClosed, PathMade, ArbAt

-----------------------------------------------------------------------------
(* Rename requests.                                                          *)

\* A rename request of c is in the pipe or with the arborist.
Held(c) ==
  \/ \E i \in 1..Len(queue) : queue[i].op # "T" /\ queue[i].child = c
  \/ arb.pc \in Renaming /\ arb.msg.child = c

\* What the types say of the messages in the pipe and with the arborist.
LEMMA Messages ==
  ASSUME TypeOK
  PROVE  /\ queue \in Seq(Msg) /\ Len(queue) \in Nat
         /\ \A i \in 1..Len(queue) :
               queue[i] \in Msg /\ queue[i].child \in Child
         /\ arb \in Arb /\ arb.msg \in Msg /\ arb.msg.child \in Child
<1>1. queue \in Seq(Msg)
  BY DEF TypeOK
<1>2. \A i \in 1..Len(queue) : queue[i] \in Msg
  BY <1>1
<1>3. arb \in Arb /\ arb.msg \in Msg
  BY DEF TypeOK, Arb
<1>4. \A m \in Msg : m.child \in Child
  BY DEF Msg
<1> QED BY <1>1, <1>2, <1>3, <1>4

\* A child none of whose requests is held may do as it likes.
LEMMA RequestFrame ==
  ASSUME TypeOK, RequestHeld, NEW c \in Child, ~Held(c),
         UNCHANGED <<queue, arb>>,
         \A x \in Child \ {c} : /\ pc'[x] = pc[x] /\ tmp'[x] = tmp[x]
                                /\ reply'[x] = reply[x],
         reply'[c] # "none" => pc'[c] = "read",
         pc'[c] = "send" => tmp'[c] = "whole"
  PROVE  RequestHeld'
BY Messages DEF RequestHeld, Held

\* Whose requests are not held: who is not waiting for an answer, who has one,
\* and who may get a new process id.
LEMMA NotHeld ==
  ASSUME RequestHeld, NEW c \in Child
  PROVE  /\ pc[c] \notin {"open", "read", "dead"} => ~Held(c)
         /\ reply[c] # "none" => ~Held(c)
         /\ ~Pending(c) => ~Held(c)
BY DEF RequestHeld, Held, Pending, Renaming, ArbGone

\* Appending a message that is a trim, or the first rename request of c.
LEMMA RequestSent ==
  ASSUME TypeOK, RequestHeld, NEW m \in Msg, queue' = Append(queue, m),
         UNCHANGED <<arb, tmp, reply>>,
         ~Held(m.child), reply[m.child] = "none",
         \A x \in Child \ {m.child} : pc'[x] = pc[x],
         m.op # "T" => tmp[m.child] = "whole" /\ pc'[m.child] = "open",
         pc'[m.child] # "send"
  PROVE  RequestHeld'
<1>1. queue \in Seq(Msg) /\ arb.msg.child \in Child /\ m.child \in Child
  BY Messages DEF Msg
<1>2. /\ Len(queue') = Len(queue) + 1
      /\ \A i \in 1..Len(queue) : queue'[i] = queue[i]
      /\ queue'[Len(queue) + 1] = m
  BY <1>1, AppendProperties
<1>3. \A i \in 1..Len(queue) : queue[i].child \in Child
  BY Messages
<1>4. Len(queue) \in Nat
  BY <1>1
<1>5. ASSUME NEW i \in 1..Len(queue'), queue'[i].op # "T"
      PROVE  /\ tmp[queue'[i].child] = "whole"
             /\ pc'[queue'[i].child] \in {"open", "dead"}
             /\ reply[queue'[i].child] = "none"
             /\ arb.pc \in Renaming => arb.msg.child # queue'[i].child
             /\ \A j \in 1..Len(queue') :
                   queue'[j].op # "T" /\ queue'[j].child = queue'[i].child
                   => i = j
  <2>1. CASE i = Len(queue) + 1
    BY <1>1, <1>2, <1>4, <1>5, <2>1 DEF Held
  <2>2. CASE i \in 1..Len(queue)
    <3>1. queue[i].child # m.child
      BY <1>2, <1>5, <2>2 DEF Held
    <3> QED BY <1>2, <1>3, <1>4, <1>5, <2>2, <3>1 DEF RequestHeld
  <2> QED BY <1>2, <1>4, <2>1, <2>2
<1>6. arb.pc \in Renaming =>
        /\ pc'[arb.msg.child] \in {"open", "read", "dead"}
        /\ reply[arb.msg.child] = "none"
        /\ arb.pc \notin {"chmod", "reply"} => tmp[arb.msg.child] = "whole"
  BY <1>1 DEF RequestHeld, Held
<1>7. \A c \in Child : /\ reply[c] # "none" => pc'[c] = "read"
                      /\ pc'[c] = "send" => tmp[c] = "whole"
  BY DEF RequestHeld
<1> QED BY <1>5, <1>6, <1>7 DEF RequestHeld

\* A step of a request child.
LEMMA RequestChildStep ==
  ASSUME TypeOK, RequestHeld, NEW c \in Child, ChildStep(c)
  PROVE  RequestHeld'
<1> USE DEF Goto, Bye, job, disk, ipc
<1>1. CASE put_request(c) \/ put_bytes(c) \/ put_bytes_croak(c)
             \/ digest_local(c) \/ put_cleanup(c)
  <2>1. pc[c] \in {"request", "bytes", "close"}
    BY <1>1 DEF put_request, put_bytes, put_bytes_croak, digest_local, put_cleanup
  <2>2. /\ UNCHANGED <<queue, arb, reply>>
        /\ \A x \in Child \ {c} : pc'[x] = pc[x] /\ tmp'[x] = tmp[x]
        /\ pc'[c] = "send" => tmp'[c] = "whole"
    BY <1>1 DEF TypeOK, put_request, put_bytes, put_bytes_croak, digest_local,
       put_cleanup
  <2>3. ~Held(c) /\ reply[c] = "none"
    BY <2>1, NotHeld DEF RequestHeld
  <2> QED BY <2>2, <2>3, RequestFrame
<1>2. CASE arbor_send_panic(c) \/ write_ok(c) \/ get_request(c) \/ get_bytes(c)
             \/ get_bytes_zap(c) \/ take_reply(c) \/ hangup(c)
  <2>1. pc[c] \in {"send", "answer", "request", "stream", "reply"}
    BY <1>2 DEF arbor_send_panic, write_ok, get_request, get_bytes,
       get_bytes_zap, take_reply, hangup
  <2>2. /\ UNCHANGED <<queue, arb, reply, tmp>>
        /\ \A x \in Child \ {c} : pc'[x] = pc[x]
        /\ pc'[c] # "send"
    BY <1>2 DEF TypeOK, arbor_send_panic, write_ok, get_request, get_bytes,
       get_bytes_zap, take_reply, hangup
  <2>3. ~Held(c) /\ reply[c] = "none"
    BY <2>1, NotHeld DEF RequestHeld
  <2> QED BY <2>2, <2>3, RequestFrame
<1>3. CASE arbor_reply(c)
  <2>1. ~Held(c)
    BY <1>3, NotHeld DEF arbor_reply
  <2>2. /\ UNCHANGED <<queue, arb, tmp>> /\ reply'[c] = "none"
        /\ \A x \in Child \ {c} : pc'[x] = pc[x] /\ reply'[x] = reply[x]
        /\ pc'[c] # "send"
    BY <1>3 DEF TypeOK, arbor_reply
  <2> QED BY <2>1, <2>2, RequestFrame
<1>4. CASE arbor_send(c)
  <2> DEFINE m == [op |-> IF verb[c] = "digest" THEN "M" ELSE "R",
                   child |-> c, dig |-> dig[c]]
  <2>1. m \in Msg /\ m.child = c
    BY DEF TypeOK, Msg
  <2>2. queue' = Append(queue, m) /\ UNCHANGED <<arb, tmp, reply>>
    BY <1>4 DEF arbor_send
  <2>3. pc[c] = "send" /\ pc'[c] = "open" /\ \A x \in Child \ {c} : pc'[x] = pc[x]
    BY <1>4 DEF arbor_send, TypeOK
  <2>4. ~Held(c) /\ reply[c] = "none" /\ tmp[c] = "whole"
    BY <2>3, NotHeld DEF RequestHeld
  <2> HIDE DEF m
  <2> QED BY <2>1, <2>2, <2>3, <2>4, RequestSent
<1>5. CASE arbor_trim(c)
  <2> DEFINE m == [op |-> "T", child |-> c, dig |-> dig[c]]
  <2>1. m \in Msg /\ m.child = c /\ m.op = "T"
    BY DEF TypeOK, Msg
  <2>2. UNCHANGED <<arb, tmp, reply>>
    BY <1>5 DEF arbor_trim
  <2>3. pc[c] = "trim" /\ pc'[c] # "send" /\ \A x \in Child \ {c} : pc'[x] = pc[x]
    BY <1>5 DEF arbor_trim, TypeOK
  <2>4. ~Held(c) /\ reply[c] = "none"
    BY <2>3, NotHeld DEF RequestHeld
  <2>5. queue' = queue \/ queue' = Append(queue, m)
    BY <1>5 DEF arbor_trim
  <2> HIDE DEF m
  <2>6. CASE queue' = queue
    BY <2>2, <2>3, <2>4, <2>6, RequestFrame
  <2>7. CASE queue' = Append(queue, m)
    BY <2>1, <2>2, <2>3, <2>4, <2>7, RequestSent
  <2> QED BY <2>5, <2>6, <2>7
<1> QED BY <1>1, <1>2, <1>3, <1>4, <1>5 DEF ChildStep

\* A step of the arborist.
LEMMA RequestArboristStep ==
  ASSUME TypeOK, RequestHeld, ArboristStep
  PROVE  RequestHeld'
<1>0. /\ queue \in Seq(Msg) /\ Len(queue) \in Nat
      /\ \A i \in 1..Len(queue) : queue[i] \in Msg /\ queue[i].child \in Child
      /\ arb \in Arb /\ arb.msg.child \in Child
  BY Messages
<1>1. ASSUME NEW c \in Child, arborist(c) PROVE RequestHeld'
  <2>1. /\ queue # <<>> /\ queue' = Tail(queue) /\ arb.pc = "idle"
        /\ arb'.msg = Head(queue)
        /\ arb'.pc = IF Head(queue).op = "T" THEN "rmdir" ELSE "open"
        /\ UNCHANGED <<pc, tmp, reply>>
    BY <1>1 DEF arborist, ArbAt
  <2>2. /\ Len(queue') = Len(queue) - 1 /\ Head(queue) = queue[1]
        /\ \A i \in 1..Len(queue') : queue'[i] = queue[i + 1]
        /\ 1 \in 1..Len(queue)
    BY <1>0, <2>1, HeadTailProperties
  <2>3. ASSUME NEW i \in 1..Len(queue'), queue'[i].op # "T"
        PROVE  /\ tmp[queue'[i].child] = "whole"
               /\ pc[queue'[i].child] \in {"open", "dead"}
               /\ reply[queue'[i].child] = "none"
               /\ arb'.pc \in Renaming => arb'.msg.child # queue'[i].child
               /\ \A j \in 1..Len(queue') :
                     queue'[j].op # "T" /\ queue'[j].child = queue'[i].child
                     => i = j
    <3>1. i + 1 \in 1..Len(queue) /\ queue'[i] = queue[i + 1] /\ i + 1 # 1
      BY <1>0, <2>2
    <3>2. /\ tmp[queue[i + 1].child] = "whole"
          /\ pc[queue[i + 1].child] \in {"open", "dead"}
          /\ reply[queue[i + 1].child] = "none"
      BY <2>3, <3>1 DEF RequestHeld
    <3>3. arb'.pc \in Renaming => arb'.msg.child # queue'[i].child
      BY <2>1, <2>2, <2>3, <3>1 DEF RequestHeld, Renaming
    <3>4. ASSUME NEW j \in 1..Len(queue'), queue'[j].op # "T",
                 queue'[j].child = queue'[i].child
          PROVE  i = j
      <4>1. j + 1 \in 1..Len(queue) /\ queue'[j] = queue[j + 1]
        BY <1>0, <2>2
      <4>2. i + 1 = j + 1
        BY <2>3, <3>1, <3>4, <4>1 DEF RequestHeld
      <4> QED BY <4>2, <1>0, <2>2
    <3> QED BY <3>1, <3>2, <3>3, <3>4
  <2>4. arb'.pc \in Renaming =>
          /\ pc[arb'.msg.child] \in {"open", "read", "dead"}
          /\ reply[arb'.msg.child] = "none"
          /\ tmp[arb'.msg.child] = "whole"
    BY <2>1, <2>2 DEF RequestHeld, Renaming
  <2> QED BY <2>1, <2>3, <2>4 DEF RequestHeld
<1>2. CASE arborist_eof \/ trim_rmdir \/ trim_lstat
  <2>1. arb'.pc \notin Renaming /\ UNCHANGED <<queue, pc, tmp, reply>>
    BY <1>0, <1>2 DEF arborist_eof, trim_rmdir, trim_lstat, Renaming, Arb, ipc
  <2> QED BY <2>1 DEF RequestHeld
<1>3. CASE rename_open
  <2>1. /\ arb.pc = "open" /\ arb'.pc = "mkdir" /\ arb'.msg = arb.msg
        /\ pc' = [pc EXCEPT ![arb.msg.child] = "read"]
        /\ pc[arb.msg.child] = "open"
        /\ UNCHANGED <<queue, tmp, reply>>
    BY <1>0, <1>3 DEF rename_open, ArbAt, Arb, ipc
  <2>2. \A x \in Child : pc'[x] = IF x = arb.msg.child THEN "read" ELSE pc[x]
    BY <1>0, <2>1 DEF TypeOK
  <2> QED BY <1>0, <2>1, <2>2 DEF RequestHeld, Renaming
<1>4. CASE make_path \/ move_open \/ rename_chmod
  <2>1. /\ arb.pc \in Renaming /\ arb'.pc \in Renaming
        /\ arb.pc \in {"chmod", "reply"} <=> arb'.pc \in {"chmod", "reply"}
        /\ arb'.msg = arb.msg
        /\ UNCHANGED <<queue, pc, tmp, reply>>
    BY <1>0, <1>4 DEF make_path, move_open, rename_chmod, Fail, ArbAt, Arb,
       ipc, Renaming
  <2> QED BY <2>1 DEF RequestHeld
<1>5. CASE rename_fault
  <2>1. /\ arb.pc \in Renaming /\ arb'.pc = "reply" /\ arb'.msg = arb.msg
        /\ UNCHANGED <<queue, pc, tmp, reply>>
    BY <1>0, <1>5 DEF rename_fault, Fail, ArbAt, Arb, ipc, Renaming
  <2> QED BY <2>1 DEF RequestHeld, Renaming
<1>6. CASE rename_blob \/ move_copy
  <2>1. /\ arb.pc \in Renaming /\ arb'.pc = "chmod" /\ arb'.msg = arb.msg
        /\ tmp' = [tmp EXCEPT ![arb.msg.child] = "none"]
        /\ UNCHANGED <<queue, pc, reply>>
    BY <1>0, <1>6 DEF rename_blob, move_copy, Renamed, ArbAt, Arb, ipc, Renaming
  <2>2. \A x \in Child : x # arb.msg.child => tmp'[x] = tmp[x]
    BY <2>1 DEF TypeOK
  <2>3. pc[arb.msg.child] # "send"
    BY <2>1 DEF RequestHeld
  <2> QED BY <1>0, <2>1, <2>2, <2>3 DEF RequestHeld, Renaming
<1>7. CASE rename_reply
  <2>1. /\ arb.pc = "reply" /\ arb'.pc \notin Renaming
        /\ UNCHANGED <<queue, pc, tmp>>
        /\ \A x \in Child : x # arb.msg.child => reply'[x] = reply[x]
        /\ pc[arb.msg.child] # "read" => UNCHANGED reply
    BY <1>0, <1>7 DEF rename_reply, ArbAt, Arb, Renaming, TypeOK
  <2> QED BY <1>0, <2>1 DEF RequestHeld, Renaming
<1> QED BY <1>1, <1>2, <1>3, <1>4, <1>5, <1>6, <1>7 DEF ArboristStep

\* Every step keeps what RequestHeld says of the requests.
LEMMA RequestStep ==
  ASSUME TypeInv, RequestHeld, [Next]_vars
  PROVE  RequestHeld'
<1>0. /\ TypeOK /\ arb \in Arb /\ arb.msg.child \in Child
      /\ \A i \in 1..Len(queue) : queue[i].child \in Child
  BY Messages DEF TypeInv
<1>1. ASSUME NEW c \in Child, NEW v \in Verbs, NEW d \in Digest,
             fork_accept(c, v, d)
      PROVE  RequestHeld'
  <2>1. /\ ~Held(c) /\ reply[c] = "none"
    BY <1>1, NotHeld DEF fork_accept, RequestHeld
  <2>2. /\ UNCHANGED <<queue, arb, reply>> /\ pc'[c] # "send"
        /\ \A x \in Child \ {c} : pc'[x] = pc[x] /\ tmp'[x] = tmp[x]
    BY <1>0, <1>1 DEF fork_accept, ipc, TypeOK
  <2> QED BY <1>0, <2>1, <2>2, RequestFrame
<1>2. ASSUME NEW c \in Child, kill_child(c) PROVE RequestHeld'
  <2>1. /\ UNCHANGED <<queue, arb, tmp>>
        /\ \A x \in Child : /\ pc'[x] = IF x = c THEN "dead" ELSE pc[x]
                            /\ reply'[x] = IF x = c THEN "none" ELSE reply[x]
    BY <1>0, <1>2 DEF kill_child, TypeOK
  <2> QED BY <1>0, <2>1 DEF RequestHeld
<1>3. CASE leave \/ leave_exit \/ UNCHANGED vars
  <2>1. UNCHANGED <<queue, arb, tmp, pc, reply>>
    BY <1>3 DEF leave, leave_exit, vars, ipc
  <2> QED BY <2>1 DEF RequestHeld
<1>4. CASE crash
  <2>1. /\ queue' = <<>> /\ arb'.pc = "exited"
        /\ \A x \in Child : reply'[x] = "none" /\ pc'[x] # "send"
    BY <1>0, <1>4 DEF crash, Arb, Alive
  <2> QED BY <2>1 DEF RequestHeld, Renaming
<1>5. CASE arbor_open
  <2>1. /\ queue' = <<>> /\ arb'.pc = "idle"
        /\ UNCHANGED <<pc, tmp, reply>>
    BY <1>0, <1>5 DEF arbor_open, Arb
  <2> QED BY <2>1 DEF RequestHeld, Renaming
<1> QED
  BY <1>0, <1>1, <1>2, <1>3, <1>4, <1>5, RequestChildStep, RequestArboristStep
  DEF Next

\* Nothing is requested at first.
LEMMA InitRequest ==
  ASSUME Init
  PROVE  RequestHeld
<1>1. queue = <<>>
  BY DEF Init
<1>2. arb.pc = "idle"
  BY InitType
<1>3. reply = [c \in Child |-> "none"] /\ pc = [c \in Child |-> "idle"]
  BY DEF Init
<1> QED BY <1>1, <1>2, <1>3 DEF RequestHeld, Renaming

\* The arborist's rename() finds its source and the directory of its target.
THEOREM RenamesAlwaysReady == Spec => []RenamesReady
<1> DEFINE I == TypeInv /\ TreeClosed /\ PathMade /\ RequestHeld
<1>1. Init => I
  BY InitTree, InitRequest
<1>2. I /\ [Next]_vars => I'
  BY StepType, TreeStep, RequestStep
<1>3. I => RenamesReady
  BY DEF RenamesReady, RenameReady, PathMade, RequestHeld, Renaming, ArbAt
<1> QED BY <1>1, <1>2, <1>3, PTL DEF Spec

-----------------------------------------------------------------------------
(* Answers.                                                                  *)

\* The disk works: no fault, and renames do not cross devices.
ReliableDisk == ~DiskFaults /\ ~CrossDevice

\* A step of a request child: no store is answered "ok" but from "answer".
LEMMA AnswerChildStep ==
  ASSUME TypeOK, AnswerLanded, AckedPutLanded, NEW c \in Child, ChildStep(c)
  PROVE  AnswerLanded' /\ AckedPutLanded'
<1> USE DEF Goto, Bye, job, disk, ipc
<1> DEFINE Moves(P) == /\ pc'[c] \in P
                       /\ \A x \in Child \ {c} : pc'[x] = pc[x]
<1>0. arb.msg.child \in Child
  BY Messages
<1>1. CASE put_request(c) \/ put_bytes(c) \/ put_bytes_croak(c)
             \/ digest_local(c) \/ arbor_send(c) \/ arbor_send_panic(c)
             \/ hangup(c)
  <2>1. /\ UNCHANGED <<arb, reply, landed, verb>>
        /\ Moves({"bytes", "send", "open", "idle"})
    BY <1>1 DEF TypeOK, put_request, put_bytes, put_bytes_croak, digest_local,
       arbor_send, arbor_send_panic, hangup
  <2>2. UNCHANGED ans \/ ans' = [ans EXCEPT ![c] = "no"]
    BY <1>1 DEF put_request, put_bytes, put_bytes_croak, digest_local,
       arbor_send, arbor_send_panic, hangup
  <2>3. \A x \in Child : ans'[x] = "ok" => ans[x] = "ok"
    BY <2>2 DEF TypeOK
  <2> QED BY <2>1, <2>3 DEF AnswerLanded, AckedPutLanded
<1>2. CASE write_ok(c) \/ put_cleanup(c)
  <2>1. /\ UNCHANGED <<arb, reply, landed, verb>>
        /\ pc[c] \in {"answer", "close"}
        /\ Moves({"reply", "idle", "answer"})
        /\ \A x \in Child \ {c} : ans'[x] = ans[x]
    BY <1>2 DEF TypeOK, write_ok, put_cleanup
  <2>2. verb[c] \in Stores => landed[c]
    BY <2>1 DEF AnswerLanded
  <2> QED BY <2>1, <2>2 DEF AnswerLanded, AckedPutLanded
<1>3. CASE get_request(c) \/ get_bytes(c) \/ get_bytes_zap(c)
  <2>1. /\ UNCHANGED <<arb, reply, landed, verb>>
        /\ pc[c] \in {"request", "stream"}
        /\ Moves({"reply", "idle", "stream"})
        /\ \A x \in Child \ {c} : ans'[x] = ans[x]
    BY <1>3 DEF TypeOK, get_request, get_bytes, get_bytes_zap
  <2>2. verb[c] \notin Stores
    BY <1>3 DEF get_request, get_bytes, get_bytes_zap, AnswerLanded, Stores
  <2> QED BY <2>1, <2>2 DEF AnswerLanded, AckedPutLanded
<1>4. CASE take_reply(c) \/ arbor_trim(c)
  <2>1. /\ UNCHANGED <<arb, reply, ans, verb>>
        /\ Moves({"trim", "answer", "idle"})
        /\ \A x \in Child : landed[x] => landed'[x]
    BY <1>4 DEF TypeOK, take_reply, arbor_trim
  <2>2. verb[c] = "take"
    BY <1>4 DEF take_reply, arbor_trim, AnswerLanded
  <2> QED BY <1>0, <2>1, <2>2 DEF AnswerLanded, AckedPutLanded, Stores
<1>5. CASE arbor_reply(c)
  <2>1. /\ UNCHANGED <<arb, ans, landed, verb>>
        /\ Moves({"close"}) /\ reply[c] # "none"
        /\ \A x \in Child : reply'[x] # "none" => reply[x] # "none"
    BY <1>5 DEF TypeOK, arbor_reply
  <2> QED BY <2>1 DEF AnswerLanded, AckedPutLanded
<1> QED BY <1>1, <1>2, <1>3, <1>4, <1>5 DEF ChildStep

\* A step of the arborist: with a working disk, the only rename it answers is
\* one it did.
LEMMA AnswerArboristStep ==
  ASSUME ReliableDisk, TypeInv, TreeClosed, PathMade, RequestHeld,
         AnswerLanded, AckedPutLanded, ArboristStep
  PROVE  AnswerLanded' /\ AckedPutLanded'
<1>0. TypeOK /\ arb \in Arb /\ arb.msg.child \in Child /\ arb.msg.dig \in Digest
  BY Messages DEF TypeInv, TypeOK, Arb, Msg
<1>1. ASSUME NEW c \in Child, arborist(c)
      PROVE  AnswerLanded' /\ AckedPutLanded'
  <2>1. arb'.pc \notin {"chmod", "reply"} /\ UNCHANGED <<pc, job, landed, reply>>
    BY <1>1 DEF arborist
  <2> QED BY <2>1 DEF AnswerLanded, AckedPutLanded, job
<1>2. CASE arborist_eof \/ make_path \/ move_open \/ trim_rmdir \/ trim_lstat
  <2>1. arb'.pc \notin {"chmod", "reply"} /\ UNCHANGED <<pc, job, landed, reply>>
    BY <1>0, <1>2 DEF arborist_eof, make_path, move_open, trim_rmdir, trim_lstat,
       ArbAt, Arb, ipc
  <2> QED BY <2>1 DEF AnswerLanded, AckedPutLanded, job
<1>3. CASE rename_open
  <2>1. /\ arb'.pc = "mkdir" /\ UNCHANGED <<job, landed, reply>>
        /\ \A x \in Child : pc'[x] \in {pc[x], "read"}
    BY <1>0, <1>3 DEF rename_open, Arb, ipc, TypeOK
  <2> QED BY <2>1 DEF AnswerLanded, AckedPutLanded, job
<1>4. CASE rename_fault
  <2>1. ~DiskFaults /\ ~CrossDevice
    BY DEF ReliableDisk
  <2>2. ArbAt("mkdir") => Above(arb.msg.dig, arb.lvl)
    BY DEF PathMade
  <2>3. ArbAt("move") => RenameReady
    BY DEF PathMade, RequestHeld, Renaming, RenameReady, ArbAt
  <2> QED BY <1>4, <2>1, <2>2, <2>3 DEF rename_fault
<1>5. CASE rename_blob \/ move_copy
  <2>1. /\ UNCHANGED <<pc, job, reply>> /\ arb'.msg = arb.msg
        /\ landed' = [landed EXCEPT ![arb.msg.child] = TRUE]
    BY <1>0, <1>5 DEF rename_blob, move_copy, Renamed, Arb, ipc
  <2>2. landed'[arb.msg.child] /\ \A x \in Child : landed[x] => landed'[x]
    BY <1>0, <2>1 DEF TypeOK
  <2> QED BY <2>1, <2>2 DEF AnswerLanded, AckedPutLanded, job
<1>6. CASE rename_chmod
  <2>1. /\ arb.pc = "chmod" /\ arb'.msg = arb.msg
        /\ UNCHANGED <<pc, job, landed, reply>>
    BY <1>0, <1>6 DEF rename_chmod, Fail, Arb, ArbAt, ipc
  <2> QED BY <2>1 DEF AnswerLanded, AckedPutLanded, job
<1>7. CASE rename_reply
  <2>1. /\ arb.pc = "reply" /\ arb'.pc \notin {"chmod", "reply"}
        /\ UNCHANGED <<pc, job, landed>>
        /\ \A x \in Child : x # arb.msg.child => reply'[x] = reply[x]
    BY <1>0, <1>7 DEF rename_reply, Arb, ArbAt, TypeOK
  <2>2. landed[arb.msg.child]
    BY <2>1 DEF AnswerLanded
  <2> QED BY <2>1, <2>2 DEF AnswerLanded, AckedPutLanded, job
<1> QED BY <1>1, <1>2, <1>3, <1>4, <1>5, <1>6, <1>7 DEF ArboristStep

\* Every step keeps the answers true.
LEMMA AnswerStep ==
  ASSUME ReliableDisk, TypeInv, TreeClosed, PathMade, RequestHeld,
         AnswerLanded, AckedPutLanded, [Next]_vars
  PROVE  AnswerLanded' /\ AckedPutLanded'
<1>0. TypeOK /\ arb \in Arb /\ arb.msg.child \in Child
  BY Messages DEF TypeInv
<1>1. ASSUME NEW c \in Child, NEW v \in Verbs, NEW d \in Digest,
             fork_accept(c, v, d)
      PROVE  AnswerLanded' /\ AckedPutLanded'
  <2>1. /\ UNCHANGED <<arb, reply>>
        /\ pc'[c] = "request" /\ ans'[c] = "none" /\ reply[c] = "none"
        /\ \A x \in Child \ {c} : /\ pc'[x] = pc[x] /\ verb'[x] = verb[x]
                                  /\ ans'[x] = ans[x] /\ landed'[x] = landed[x]
    BY <1>0, <1>1 DEF fork_accept, ipc, TypeOK, RequestHeld
  <2>2. arb.pc \in {"chmod", "reply"} => arb.msg.child # c
    BY <1>1 DEF fork_accept, Pending, ArbGone
  <2> QED BY <1>0, <2>1, <2>2 DEF AnswerLanded, AckedPutLanded
<1>2. ASSUME NEW c \in Child, kill_child(c)
      PROVE  AnswerLanded' /\ AckedPutLanded'
  <2>1. /\ UNCHANGED <<arb, job, landed>>
        /\ \A x \in Child : /\ pc'[x] \in {pc[x], "dead"}
                            /\ reply'[x] \in {reply[x], "none"}
    BY <1>0, <1>2 DEF kill_child, TypeOK
  <2> QED BY <2>1 DEF AnswerLanded, AckedPutLanded, job
<1>3. CASE leave \/ leave_exit \/ UNCHANGED vars
  <2>1. UNCHANGED <<pc, job, landed, reply, arb>>
    BY <1>3 DEF leave, leave_exit, vars, ipc, job
  <2> QED BY <2>1 DEF AnswerLanded, AckedPutLanded, job
<1>4. CASE crash
  <2>1. /\ UNCHANGED <<job, landed>> /\ arb'.pc = "exited"
        /\ \A x \in Child : pc'[x] \in {pc[x], "dead"} /\ reply'[x] = "none"
    BY <1>0, <1>4 DEF crash, Arb
  <2> QED BY <2>1 DEF AnswerLanded, AckedPutLanded, job
<1>5. CASE arbor_open
  <2>1. UNCHANGED <<pc, job, landed, reply>> /\ arb'.pc = "idle"
    BY <1>0, <1>5 DEF arbor_open, Arb
  <2> QED BY <2>1 DEF AnswerLanded, AckedPutLanded, job
<1> QED
  BY <1>0, <1>1, <1>2, <1>3, <1>4, <1>5, AnswerChildStep, AnswerArboristStep
  DEF Next

\* A client told "ok" after the bytes of its blob has had the blob renamed into
\* the store, as long as the disk works.
THEOREM AckedPutsLanded ==
  ASSUME ReliableDisk
  PROVE  Spec => []AckedPutLanded
<1> DEFINE I == /\ TypeInv /\ TreeClosed /\ PathMade /\ RequestHeld
                /\ AnswerLanded /\ AckedPutLanded
<1>1. Init => I
  <2> SUFFICES ASSUME Init PROVE I
    OBVIOUS
  <2>1. arb.pc = "idle"
    BY InitType
  <2>2. /\ reply = [c \in Child |-> "none"] /\ pc = [c \in Child |-> "idle"]
        /\ ans = [c \in Child |-> "none"]
    BY DEF Init
  <2>3. AnswerLanded /\ AckedPutLanded
    BY <2>1, <2>2 DEF AnswerLanded, AckedPutLanded
  <2> QED BY <2>3, InitTree, InitRequest
<1>2. I /\ [Next]_vars => I'
  BY StepType, TreeStep, RequestStep, AnswerStep
<1>3. I => AckedPutLanded
  OBVIOUS
<1> QED BY <1>1, <1>2, <1>3, PTL DEF Spec

-----------------------------------------------------------------------------
(* Copies.                                                                   *)

\* What the types say of the maps of children and of files.
Maps ==
  /\ pc \in [Child -> Points]
  /\ verb \in [Child -> AllVerbs]
  /\ dig \in [Child -> Digest]
  /\ ans \in [Child -> {"none", "ok", "no"}]
  /\ seen \in [Child -> FileStates]
  /\ landed \in [Child -> BOOLEAN]
  /\ file \in [Digest -> FileStates]

LEMMA MapTypes ==
  ASSUME TypeOK
  PROVE  Maps
BY DEF TypeOK, Maps

\* On one device no blob is copied in, so none is partial.
NoCopy ==
  /\ ~ArbAt("copy")
  /\ \A d \in Digest : file[d] # "torn"
  /\ \A c \in Child : seen[c] # "torn"

LEMMA NoCopyStep ==
  ASSUME ReliableDisk, TypeOK, NoCopy, [Next]_vars
  PROVE  NoCopy'
<1> USE DEF NoCopy, job, disk, ipc
<1>0. Maps /\ arb \in Arb /\ arb.msg.dig \in Digest
  BY MapTypes, Messages DEF Msg
<1>1. ASSUME NEW c \in Child, NEW v \in Verbs, NEW d \in Digest,
             fork_accept(c, v, d)
      PROVE  NoCopy'
  BY <1>0, <1>1 DEF fork_accept, Maps, ArbAt
<1>2. ASSUME NEW c \in Child, ChildStep(c) PROVE NoCopy'
  <2>1. UNCHANGED arb
    BY <1>2 DEF ChildStep, put_request, put_bytes, put_bytes_croak,
       digest_local, arbor_send, arbor_send_panic, arbor_reply, put_cleanup,
       write_ok, get_request, get_bytes, get_bytes_zap, take_reply,
       arbor_trim, hangup
  <2>2. \A d \in Digest : file'[d] \in {file[d], "none"}
    BY <1>0, <1>2 DEF ChildStep, put_request, put_bytes, put_bytes_croak,
       digest_local, arbor_send, arbor_send_panic, arbor_reply, put_cleanup,
       write_ok, get_request, get_bytes, get_bytes_zap, take_reply,
       arbor_trim, hangup, Maps
  <2>3. \A x \in Child : seen'[x] = seen[x] \/ \E d \in Digest : seen'[x] = file[d]
    BY <1>0, <1>2 DEF ChildStep, put_request, put_bytes, put_bytes_croak,
       digest_local, arbor_send, arbor_send_panic, arbor_reply, put_cleanup,
       write_ok, get_request, get_bytes, get_bytes_zap, take_reply,
       arbor_trim, hangup, Maps, Bye
  <2> QED BY <2>1, <2>2, <2>3 DEF ArbAt
<1>3. CASE ArboristStep
  <2>1. UNCHANGED seen
    BY <1>3 DEF ArboristStep, arborist, arborist_eof, rename_open, make_path,
       rename_fault, rename_blob, move_open, move_copy, rename_chmod,
       rename_reply, trim_rmdir, trim_lstat
  <2>2. ASSUME NEW c \in Child, arborist(c) PROVE arb'.pc # "copy" /\ UNCHANGED file
    BY <2>2 DEF arborist
  <2>3. CASE arborist_eof \/ rename_open \/ make_path \/ trim_rmdir \/ trim_lstat
             \/ rename_reply \/ rename_fault
    <3>1. arb'.pc # "copy" /\ UNCHANGED file
      BY <1>0, <2>3 DEF arborist_eof, rename_open, make_path, trim_rmdir,
         trim_lstat, rename_reply, rename_fault, Fail, Arb, ArbAt
    <3> QED BY <2>1, <3>1 DEF ArbAt
  <2>4. CASE rename_blob \/ rename_chmod
    <3>1. arb'.pc # "copy" /\ \A d \in Digest : file'[d] \in {file[d], "sealed"}
      BY <1>0, <2>4 DEF rename_blob, rename_chmod, Renamed, Fail, Arb, Maps
    <3> QED BY <2>1, <3>1 DEF ArbAt
  <2>5. ~move_open /\ ~move_copy
    BY DEF ReliableDisk, move_open, move_copy
  <2> QED BY <1>3, <2>1, <2>2, <2>3, <2>4, <2>5 DEF ArboristStep, ArbAt
<1>4. ASSUME NEW c \in Child, kill_child(c) PROVE NoCopy'
  BY <1>4 DEF kill_child, ArbAt
<1>5. CASE leave \/ leave_exit \/ crash \/ arbor_open \/ UNCHANGED vars
  <2>1. arb'.pc # "copy" /\ UNCHANGED <<file, seen>>
    BY <1>0, <1>5 DEF leave, leave_exit, crash, arbor_open, vars, Arb, ArbAt
  <2> QED BY <2>1 DEF ArbAt
<1> QED BY <1>1, <1>2, <1>3, <1>4, <1>5 DEF Next

\* A blob is whole and still writable between its copy and its chmod() only.
Sealing ==
  \A d \in Digest : file[d] = "whole" => ArbAt("chmod") /\ arb.msg.dig = d

\* No second copy cuts a complete blob, whatever fails or is killed, as long as
\* the server does not die between a copy and its chmod(): the arborist takes
\* one message at a time, so no blob is whole and writable when it opens the
\* target of a copy.
THEOREM CompleteBlobsStay ==
  ASSUME ~Restarts
  PROVE  Spec => CompleteStays
<1>1. Init => Sealing
  BY DEF Init, Sealing
<1>2. ASSUME TypeOK, Sealing, [Next]_vars
      PROVE  /\ Sealing'
             /\ \A d \in Digest : file[d] \in {"whole", "sealed"} => file'[d] # "torn"
  <2> DEFINE Stays ==
        \A d \in Digest : file[d] \in {"whole", "sealed"} => file'[d] # "torn"
  <2> USE DEF job, disk, ipc
  <2>0. Maps /\ arb \in Arb /\ arb.msg.dig \in Digest
    BY <1>2, MapTypes, Messages DEF Msg
  <2>1. ASSUME UNCHANGED arb, \A d \in Digest : file'[d] \in {file[d], "none"}
        PROVE  Sealing' /\ Stays
    BY <1>2, <2>1 DEF Sealing, ArbAt
  <2>2. ASSUME ~ArbAt("chmod"),
               \A d \in Digest : file'[d] \in {file[d], "sealed"}
        PROVE  Sealing' /\ Stays
    BY <1>2, <2>2 DEF Sealing
  <2>3. ASSUME NEW c \in Child, ChildStep(c) PROVE Sealing' /\ Stays
    <3>1. UNCHANGED arb
      BY <2>3, <1>2, ChildTree
    <3>2. \A d \in Digest : file'[d] \in {file[d], "none"}
      BY <2>0, <2>3 DEF ChildStep, put_request, put_bytes, put_bytes_croak,
         digest_local, arbor_send, arbor_send_panic, arbor_reply, put_cleanup,
         write_ok, get_request, get_bytes, get_bytes_zap, take_reply,
         arbor_trim, hangup, Maps
    <3> QED BY <2>1, <3>1, <3>2
  <2>4. CASE (\E c \in Child, v \in Verbs, d \in Digest : fork_accept(c, v, d))
             \/ (\E c \in Child : kill_child(c)) \/ leave \/ leave_exit
             \/ UNCHANGED vars
    <3>1. UNCHANGED <<arb, file>>
      BY <2>4 DEF fork_accept, kill_child, leave, leave_exit, vars
    <3> QED BY <2>1, <3>1
  <2>5. ~crash /\ ~arbor_open
    BY DEF crash, arbor_open
  <2>6. CASE (\E c \in Child : arborist(c)) \/ arborist_eof \/ rename_open
             \/ make_path \/ rename_fault \/ rename_reply \/ trim_rmdir
             \/ trim_lstat
    <3>1. ~ArbAt("chmod") /\ UNCHANGED file
      BY <2>6 DEF arborist, arborist_eof, rename_open, make_path, rename_fault,
         rename_reply, trim_rmdir, trim_lstat, ArbAt
    <3> QED BY <2>2, <3>1
  <2>7. CASE rename_blob
    <3>1. ~ArbAt("chmod") /\ \A d \in Digest : file'[d] \in {file[d], "sealed"}
      BY <2>0, <2>7 DEF rename_blob, Renamed, ArbAt, Maps
    <3> QED BY <2>2, <3>1
  <2>8. CASE rename_chmod
    <3>1. /\ file'[arb.msg.dig] \in {"none", "sealed"}
          /\ \A d \in Digest : d # arb.msg.dig => file'[d] = file[d]
      BY <2>0, <2>8 DEF rename_chmod, Maps
    <3> QED BY <1>2, <3>1 DEF Sealing
  <2>9. CASE move_open
    <3>1. /\ ~ArbAt("chmod") /\ file[arb.msg.dig] # "sealed"
          /\ file'[arb.msg.dig] = "torn"
          /\ \A d \in Digest : d # arb.msg.dig => file'[d] = file[d]
      BY <2>0, <2>9 DEF move_open, ArbAt, Maps
    <3> QED BY <1>2, <2>0, <3>1 DEF Sealing
  <2>10. CASE move_copy
    <3>1. /\ ~ArbAt("chmod") /\ arb'.pc = "chmod" /\ arb'.msg = arb.msg
          /\ file'[arb.msg.dig] # "torn"
          /\ \A d \in Digest : d # arb.msg.dig => file'[d] = file[d]
      BY <2>0, <2>10 DEF move_copy, Renamed, ArbAt, Arb, Maps
    <3> QED BY <1>2, <3>1 DEF Sealing, ArbAt
  <2> QED
    BY <1>2, <2>3, <2>4, <2>5, <2>6, <2>7, <2>8, <2>9, <2>10
    DEF Next, ArboristStep
<1> QED BY <1>1, <1>2, TypeCorrect, PTL DEF Spec, CompleteStays

-----------------------------------------------------------------------------
(* Litter.                                                                   *)

\* Why the directory at depth k on the path of d is there: for a blob, or until
\* a trim that its taker will ask for, has asked for, or that is on its way up
\* to it, or for the rename it was just made for.
TrimAsked(d) == \E i \in 1..Len(queue) : queue[i].op = "T" /\ queue[i].dig = d

Accounted(d, k) ==
  \/ file[d] # "none"
  \/ \E c \in Child : pc[c] = "trim" /\ dig[c] = d
  \/ TrimAsked(d)
  \/ arb.pc \in {"mkdir", "move"} /\ arb.msg.dig = d
  \/ arb.pc = "rmdir" /\ arb.msg.dig = d /\ k <= arb.lvl
  \/ arb.pc = "lstat" /\ arb.msg.dig = d /\ k < arb.lvl

Used(x) == \E d \in Digest, k \in 0..Depth : DirAt[d][k] = x /\ Accounted(d, k)

DirsUsed == master = "up" /\ ~ArbGone => \A x \in dirs \ Roots : Used(x)

\* A step that keeps every reason keeps every directory accounted for.
LEMMA UsedFrame ==
  ASSUME DirsUsed, master' = "up" => master = "up", ~ArbGone' => ~ArbGone,
         dirs' \subseteq dirs,
         \A d \in Digest, k \in 0..Depth :
            DirAt[d][k] \in dirs' \ Roots /\ Accounted(d, k) => Used(DirAt[d][k])'
  PROVE  DirsUsed'
<1>1. Roots' = Roots
  BY DEF Roots
<1> QED BY <1>1 DEF DirsUsed, Used

LEMMA UsedMore ==
  ASSUME DirsUsed, master' = "up" => master = "up", ~ArbGone' => ~ArbGone,
         dirs' \subseteq dirs,
         \A d \in Digest, k \in 0..Depth : Accounted(d, k) => Accounted(d, k)'
  PROVE  DirsUsed'
BY UsedFrame DEF Used

\* Messages sent after a trim request do not hide it.
LEMMA TrimSent ==
  ASSUME TypeOK, NEW m \in Msg, queue' = Append(queue, m)
  PROVE  \A d \in Digest :
           TrimAsked(d) \/ (m.op = "T" /\ m.dig = d) => TrimAsked(d)'
<1>1. queue \in Seq(Msg) /\ Len(queue) \in Nat
  BY Messages
<1>2. /\ Len(queue') = Len(queue) + 1
      /\ \A i \in 1..Len(queue) : queue'[i] = queue[i]
      /\ queue'[Len(queue) + 1] = m
  BY <1>1, AppendProperties
<1> QED BY <1>1, <1>2 DEF TrimAsked

LEMMA UsedChildStep ==
  ASSUME TypeOK, NoCopy, DirsUsed, NEW c \in Child, ChildStep(c)
  PROVE  DirsUsed'
<1> USE DEF Goto, Bye, job, disk, ipc
<1>0. Maps
  BY MapTypes
<1>1. UNCHANGED <<arb, dirs, master>> /\ (ArbGone' <=> ArbGone)
  BY ChildTree DEF ArbGone, ChildStep, put_request, put_bytes, put_bytes_croak,
     digest_local, arbor_send, arbor_send_panic, arbor_reply, put_cleanup,
     write_ok, get_request, get_bytes, get_bytes_zap, take_reply,
     arbor_trim, hangup
<1>2. CASE put_request(c) \/ put_bytes(c) \/ put_bytes_croak(c)
           \/ digest_local(c) \/ arbor_send_panic(c) \/ arbor_reply(c)
           \/ put_cleanup(c) \/ write_ok(c) \/ get_request(c) \/ get_bytes(c)
           \/ hangup(c)
  <2>1. /\ UNCHANGED <<file, queue, dig>> /\ pc[c] # "trim"
        /\ \A x \in Child \ {c} : pc'[x] = pc[x]
    BY <1>0, <1>2 DEF put_request, put_bytes, put_bytes_croak, digest_local,
       arbor_send_panic, arbor_reply, put_cleanup, write_ok, get_request,
       get_bytes, hangup, Maps
  <2>2. \A d \in Digest, k \in 0..Depth : Accounted(d, k) => Accounted(d, k)'
    BY <1>1, <2>1 DEF Accounted, TrimAsked
  <2> QED BY <1>1, <2>2, UsedMore
<1>3. CASE arbor_send(c)
  <2> DEFINE m == [op |-> IF verb[c] = "digest" THEN "M" ELSE "R",
                   child |-> c, dig |-> dig[c]]
  <2>1. m \in Msg
    BY <1>0 DEF Maps, Msg
  <2>2. /\ UNCHANGED <<file, dig>> /\ pc[c] # "trim"
        /\ \A x \in Child \ {c} : pc'[x] = pc[x]
        /\ queue' = Append(queue, m)
    BY <1>0, <1>3 DEF arbor_send, Maps
  <2> HIDE DEF m
  <2>3. \A d \in Digest : TrimAsked(d) => TrimAsked(d)'
    BY <2>1, <2>2, TrimSent
  <2>4. \A d \in Digest, k \in 0..Depth : Accounted(d, k) => Accounted(d, k)'
    BY <1>1, <2>2, <2>3 DEF Accounted
  <2> QED BY <1>1, <2>4, UsedMore
<1>4. ~get_bytes_zap(c)
  BY <1>0 DEF get_bytes_zap, NoCopy, Maps
<1>5. CASE take_reply(c)
  <2>1. /\ UNCHANGED <<queue, dig>> /\ pc' = [pc EXCEPT ![c] = "trim"]
        /\ file' = [file EXCEPT ![dig[c]] = "none"] /\ pc[c] = "reply"
    BY <1>5 DEF take_reply
  <2>2. \A d \in Digest, k \in 0..Depth : Accounted(d, k) => Accounted(d, k)'
    BY <1>0, <1>1, <2>1 DEF Accounted, TrimAsked, Maps
  <2> QED BY <1>1, <2>2, UsedMore
<1>6. CASE arbor_trim(c)
  <2> DEFINE m == [op |-> "T", child |-> c, dig |-> dig[c]]
  <2>1. m \in Msg /\ m.op = "T" /\ m.dig = dig[c]
    BY <1>0 DEF Maps, Msg
  <2>2. ~ArbGone => queue' = Append(queue, m)
    BY <1>6 DEF arbor_trim
  <2>3. /\ UNCHANGED <<file, dig>> /\ \A x \in Child \ {c} : pc'[x] = pc[x]
    BY <1>0, <1>6 DEF arbor_trim, Maps
  <2> HIDE DEF m
  <2>4. CASE ArbGone
    BY <1>1, <2>4 DEF DirsUsed
  <2>5. CASE ~ArbGone
    <3>1. \A d \in Digest : TrimAsked(d) \/ dig[c] = d => TrimAsked(d)'
      BY <2>1, <2>2, <2>5, TrimSent
    <3>2. \A d \in Digest, k \in 0..Depth : Accounted(d, k) => Accounted(d, k)'
      BY <1>1, <2>3, <3>1 DEF Accounted
    <3> QED BY <1>1, <3>2, UsedMore
  <2> QED BY <2>4, <2>5
<1> QED BY <1>2, <1>3, <1>4, <1>5, <1>6 DEF ChildStep

\* ENOTEMPTY: what holds the directory where a trim stops holds those above it.
LEMMA TrimStops ==
  ASSUME TypeOK, TreeClosed, DirsUsed, master = "up",
         ArbAt("rmdir"), Occupied(arb.msg.dig, arb.lvl),
         NEW j \in 0..arb.lvl
  PROVE  \E e \in Digest : /\ DirAt[e][j] = DirAt[arb.msg.dig][j]
                           /\ \/ file[e] # "none"
                              \/ \E c \in Child : pc[c] = "trim" /\ dig[c] = e
                              \/ TrimAsked(e)
<1> DEFINE d == arb.msg.dig
<1> DEFINE k == arb.lvl
<1>0. arb \in Arb /\ d \in Digest /\ k \in 0..Depth /\ Depth \in Nat /\ arb.pc = "rmdir"
  BY Messages, TreeAssumption DEF Msg, Arb, ArbAt
<1>1. PICK e \in Digest :
        /\ DirAt[e][k] = DirAt[d][k]
        /\ IF k = Depth THEN file[e] # "none" ELSE DirAt[e][k+1] \in dirs
  BY DEF Occupied
<1> HIDE DEF d, k
<1>2. \A i \in 0..k : DirAt[e][i] = DirAt[d][i]
  BY <1>0, <1>1, TreeAssumption
<1>3. CASE k = Depth
  BY <1>0, <1>1, <1>2, <1>3 DEF d, k
<1>4. CASE k # Depth
  <2>1. k + 1 \in 0..Depth /\ DirAt[e][k+1] \in dirs
    BY <1>0, <1>1, <1>4
  <2>2. DirAt[e][k+1] \notin Roots
    <3>1. 0 \in 0..Depth /\ k + 1 # 0
      BY <1>0
    <3> QED BY <2>1, <3>1, TreeAssumption DEF Roots
  <2>3. ~ArbGone
    BY <1>0 DEF ArbGone
  <2>4. PICK f \in Digest, n \in 0..Depth :
          DirAt[f][n] = DirAt[e][k+1] /\ Accounted(f, n)
    BY <2>1, <2>2, <2>3 DEF DirsUsed, Used
  <2>5. n = k + 1 /\ \A i \in 0..n : DirAt[f][i] = DirAt[e][i]
    BY <2>1, <2>4, TreeAssumption
  <2>6. \/ file[f] # "none" \/ TrimAsked(f)
        \/ \E c \in Child : pc[c] = "trim" /\ dig[c] = f
    BY <1>0, <2>4, <2>5 DEF Accounted, d, k
  <2>7. DirAt[f][j] = DirAt[d][j]
    BY <1>0, <1>2, <2>5 DEF d, k
  <2> QED BY <2>6, <2>7 DEF d
<1> QED BY <1>3, <1>4

LEMMA UsedArboristStep ==
  ASSUME ReliableDisk, TypeInv, TreeClosed, PathMade, RequestHeld, NoCopy,
         DirsUsed, ArboristStep
  PROVE  DirsUsed'
<1> USE DEF job, disk, ipc
<1>0. /\ Maps /\ TypeOK /\ arb \in Arb /\ arb.msg.dig \in Digest
      /\ Depth \in Nat /\ Roots' = Roots
  BY MapTypes, Messages, TreeAssumption DEF TypeInv, Msg, Roots
<1>1. ASSUME NEW c \in Child, arborist(c) PROVE DirsUsed'
  <2>1. /\ UNCHANGED <<master, pc, dig, file, dirs>> /\ arb.pc = "idle"
        /\ queue \in Seq(Msg) /\ queue # <<>> /\ queue' = Tail(queue)
        /\ Head(queue).op = "T" => /\ arb'.pc = "rmdir" /\ arb'.lvl = Depth
                                   /\ arb'.msg = Head(queue)
    BY <1>0, <1>1, Messages DEF arborist, ArbAt
  <2>2. /\ Len(queue') = Len(queue) - 1 /\ Head(queue) = queue[1]
        /\ \A i \in 1..Len(queue') : queue'[i] = queue[i + 1]
        /\ Len(queue) \in Nat
    BY <2>1, HeadTailProperties
  <2>3. ASSUME NEW d \in Digest, TrimAsked(d)
        PROVE  TrimAsked(d)' \/ (arb'.pc = "rmdir" /\ arb'.lvl = Depth /\ arb'.msg.dig = d)
    <3>1. PICK i \in 1..Len(queue) : queue[i].op = "T" /\ queue[i].dig = d
      BY <2>3 DEF TrimAsked
    <3>2. CASE i = 1
      BY <2>1, <2>2, <3>1, <3>2
    <3>3. CASE i # 1
      <4>1. i - 1 \in 1..Len(queue') /\ queue'[i - 1] = queue[i]
        BY <2>2, <3>3
      <4> QED BY <3>1, <4>1 DEF TrimAsked
    <3> QED BY <3>2, <3>3
  <2>4. \A d \in Digest, k \in 0..Depth : Accounted(d, k) => Accounted(d, k)'
    BY <1>0, <2>1, <2>3 DEF Accounted
  <2> QED BY <2>1, <2>4, UsedMore DEF ArbGone
<1>2. CASE arborist_eof \/ rename_reply \/ rename_open
  <2>1. UNCHANGED <<master, dig, file, dirs, queue>>
    BY <1>2 DEF arborist_eof, rename_reply, rename_open
  <2>2. arb.pc \in {"idle", "reply", "open"}
    BY <1>2 DEF arborist_eof, rename_reply, rename_open, ArbAt
  <2>3. \A x \in Child : pc[x] = "trim" => pc'[x] = "trim"
    BY <1>0, <1>2 DEF arborist_eof, rename_reply, rename_open, Maps
  <2>4. \A d \in Digest, k \in 0..Depth : Accounted(d, k) => Accounted(d, k)'
    BY <2>1, <2>2, <2>3 DEF Accounted, TrimAsked
  <2> QED BY <2>1, <2>2, <2>4, UsedMore DEF ArbGone
<1>3. CASE make_path
  <2>1. /\ UNCHANGED <<master, pc, dig, file, queue>> /\ arb.pc = "mkdir"
        /\ arb'.pc \in {"mkdir", "move"} /\ arb'.msg = arb.msg
        /\ dirs' = dirs \cup {DirAt[arb.msg.dig][arb.lvl]} /\ arb.lvl \in 0..Depth
        /\ master = "up" => \A x \in dirs \ Roots : Used(x)
    BY <1>0, <1>3 DEF make_path, ArbAt, Arb, DirsUsed, ArbGone
  <2>2. \A d \in Digest, k \in 0..Depth : Accounted(d, k) => Accounted(d, k)'
    BY <2>1 DEF Accounted, TrimAsked
  <2>3. PICK d \in Digest, k \in 0..Depth : d = arb.msg.dig /\ k = arb.lvl
    BY <1>0, <2>1
  <2>4. ASSUME NEW x \in dirs, Used(x) PROVE Used(x)'
    BY <2>2, <2>4 DEF Used
  <2>5. Accounted(d, k)'
    BY <2>1, <2>3 DEF Accounted
  <2>6. Used(DirAt[d][k])'
    BY <2>5 DEF Used
  <2>7. ASSUME master = "up", NEW x \in dirs' \ Roots PROVE Used(x)'
    <3>1. CASE x \in dirs
      BY <2>1, <2>4, <2>7, <3>1
    <3>2. CASE x = DirAt[d][k]
      BY <2>6, <3>2
    <3> QED BY <2>1, <2>3, <3>1, <3>2
  <2> QED BY <1>0, <2>1, <2>7 DEF DirsUsed
<1>4. ~rename_fault /\ ~move_open /\ ~move_copy
  BY DEF ReliableDisk, NoCopy, move_open, move_copy, rename_fault, PathMade,
     RequestHeld, Renaming, RenameReady, ArbAt
<1>5. CASE rename_blob
  <2>1. /\ UNCHANGED <<master, pc, dig, queue, dirs>> /\ arb.pc = "move"
        /\ file' = [file EXCEPT ![arb.msg.dig] = "sealed"]
    BY <1>0, <1>5 DEF rename_blob, Renamed, ArbAt
  <2>2. \A d \in Digest, k \in 0..Depth : Accounted(d, k) => Accounted(d, k)'
    BY <1>0, <2>1 DEF Accounted, TrimAsked, Maps
  <2> QED BY <2>1, <2>2, UsedMore DEF ArbGone
<1>6. CASE rename_chmod
  <2>1. /\ UNCHANGED <<master, pc, dig, queue, dirs>> /\ arb.pc = "chmod"
        /\ \A d \in Digest : file[d] # "none" => file'[d] # "none"
    BY <1>0, <1>6 DEF rename_chmod, ArbAt, Maps
  <2>2. \A d \in Digest, k \in 0..Depth : Accounted(d, k) => Accounted(d, k)'
    BY <2>1 DEF Accounted, TrimAsked
  <2> QED BY <2>1, <2>2, UsedMore DEF ArbGone
<1>7. CASE trim_rmdir
  <2> DEFINE d == arb.msg.dig
  <2> DEFINE k == arb.lvl
  <2>1. /\ UNCHANGED <<master, pc, dig, queue, file>> /\ arb.pc = "rmdir"
        /\ k \in 0..Depth
    BY <1>0, <1>7 DEF trim_rmdir, ArbAt, Arb
  <2>2. CASE DirAt[d][k] \in dirs /\ Occupied(d, k)
    <3>1. UNCHANGED dirs
      BY <1>7, <2>2 DEF trim_rmdir
    <3>2. CASE master # "up"
      BY <2>1, <3>2 DEF DirsUsed
    <3>3. ASSUME master = "up", NEW e \in Digest, NEW j \in 0..Depth, Accounted(e, j)
          PROVE  Used(DirAt[e][j])'
      <4>1. CASE Accounted(e, j)'
        BY <4>1 DEF Used
      <4>2. CASE e = d /\ j <= k
        <5>1. PICK f \in Digest : /\ DirAt[f][j] = DirAt[d][j]
                                  /\ \/ file[f] # "none"
                                     \/ \E c \in Child : pc[c] = "trim" /\ dig[c] = f
                                     \/ TrimAsked(f)
          BY <1>0, <2>1, <2>2, <3>3, <4>2, TrimStops DEF ArbAt
        <5>2. Accounted(f, j)'
          BY <2>1, <5>1 DEF Accounted, TrimAsked
        <5> QED BY <4>2, <5>1, <5>2 DEF Used
      <4> QED BY <2>1, <3>3, <4>1, <4>2 DEF Accounted, TrimAsked
    <3> QED BY <2>1, <3>1, <3>2, <3>3, UsedFrame DEF ArbGone
  <2>3. CASE ~(DirAt[d][k] \in dirs /\ Occupied(d, k))
    <3>1. /\ dirs' = dirs \ {DirAt[d][k]} /\ arb'.msg = arb.msg /\ arb'.lvl = k
          /\ k # 0 => arb'.pc = "lstat"
      BY <1>0, <1>7, <2>3 DEF trim_rmdir, Arb
    <3> HIDE DEF d, k
    <3>2. ASSUME NEW e \in Digest, NEW j \in 0..Depth,
                 DirAt[e][j] \in dirs' \ Roots, Accounted(e, j)
          PROVE  Used(DirAt[e][j])'
      <4>1. CASE e = d /\ j <= k
        <5>1. j < k
          BY <2>1, <3>1, <3>2, <4>1
        <5>2. Accounted(e, j)'
          BY <2>1, <3>1, <4>1, <5>1 DEF Accounted, d
        <5> QED BY <5>2 DEF Used
      <4>2. CASE ~(e = d /\ j <= k)
        <5>1. Accounted(e, j)'
          BY <2>1, <3>2, <4>2 DEF Accounted, TrimAsked, d, k
        <5> QED BY <5>1 DEF Used
      <4> QED BY <4>1, <4>2
    <3> QED BY <2>1, <3>1, <3>2, UsedFrame DEF ArbGone
  <2> QED BY <2>2, <2>3
<1>8. CASE trim_lstat
  <2>1. /\ UNCHANGED <<master, pc, dig, queue, file, dirs>> /\ arb.pc = "lstat"
        /\ arb.lvl \in 0..Depth /\ arb'.msg = arb.msg
        /\ \/ arb'.pc = "rmdir" /\ arb'.lvl = arb.lvl - 1
           \/ arb'.pc = "panicked"
    BY <1>0, <1>8 DEF trim_lstat, ArbAt, Arb
  <2>2. CASE arb'.pc = "rmdir"
    <3>1. \A d \in Digest, k \in 0..Depth : Accounted(d, k) => Accounted(d, k)'
      BY <1>0, <2>1, <2>2 DEF Accounted, TrimAsked
    <3> QED BY <2>1, <3>1, UsedMore DEF ArbGone
  <2>3. CASE arb'.pc = "panicked"
    BY <2>3 DEF DirsUsed, ArbGone
  <2> QED BY <2>1, <2>2, <2>3
<1> QED BY <1>1, <1>2, <1>3, <1>4, <1>5, <1>6, <1>7, <1>8 DEF ArboristStep

LEMMA UsedStep ==
  ASSUME ReliableDisk, ~Kills, ~Restarts,
         TypeInv, TreeClosed, PathMade, RequestHeld, NoCopy, DirsUsed, [Next]_vars
  PROVE  DirsUsed'
<1> USE DEF job, disk, ipc
<1>0. Maps /\ TypeOK
  BY MapTypes DEF TypeInv
<1>1. ASSUME NEW c \in Child, NEW v \in Verbs, NEW d \in Digest,
             fork_accept(c, v, d)
      PROVE  DirsUsed'
  <2>1. /\ UNCHANGED <<master, file, dirs, queue, arb>> /\ pc[c] # "trim"
        /\ \A x \in Child \ {c} : pc'[x] = pc[x] /\ dig'[x] = dig[x]
    BY <1>0, <1>1 DEF fork_accept, Maps
  <2>2. \A e \in Digest, k \in 0..Depth : Accounted(e, k) => Accounted(e, k)'
    BY <2>1 DEF Accounted, TrimAsked
  <2> QED BY <2>1, <2>2, UsedMore DEF ArbGone
<1>2. ASSUME NEW c \in Child, kill_child(c) PROVE DirsUsed'
  BY <1>2 DEF kill_child, DirsUsed
<1>3. CASE leave \/ leave_exit
  BY <1>3 DEF leave, leave_exit, DirsUsed
<1>4. ~crash /\ ~arbor_open
  BY DEF crash, arbor_open
<1>5. CASE UNCHANGED vars
  BY <1>5, UsedMore DEF vars, Accounted, TrimAsked, ArbGone
<1> QED
  BY <1>0, <1>1, <1>2, <1>3, <1>4, <1>5, UsedChildStep, UsedArboristStep DEF Next

\* Takes clean up after themselves: with no trim under way, each directory of
\* a server that lost no process, roots aside, leads to a blob, whatever gives,
\* puts and takes of neighbours ran at the same time.
THEOREM TakesLeaveNoLitter ==
  ASSUME ReliableDisk, ~Kills, ~Restarts
  PROVE  Spec => []NoLitter
<1> DEFINE I == /\ TypeInv /\ TreeClosed /\ PathMade /\ RequestHeld
                /\ NoCopy /\ DirsUsed
<1>1. Init => I
  <2> SUFFICES ASSUME Init PROVE I
    OBVIOUS
  <2>1. arb.pc = "idle" /\ TypeInv
    BY InitType
  <2>2. /\ file = [d \in Digest |-> IF d \in Stocked THEN "sealed" ELSE "none"]
        /\ seen = [c \in Child |-> "none"] /\ dirs = Roots \cup Paths(Stocked)
    BY DEF Init
  <2>3. NoCopy
    BY <2>1, <2>2 DEF NoCopy, ArbAt
  <2>4. DirsUsed
    BY <2>2, ConfigAssumption DEF DirsUsed, Used, Accounted, Paths
  <2> QED BY <2>3, <2>4, InitTree, InitRequest
<1>2. I /\ [Next]_vars => I'
  BY StepType, TreeStep, RequestStep, NoCopyStep, UsedStep DEF TypeInv
<1>3. I => NoLitter
  <2> SUFFICES ASSUME I, master = "up", ArbAt("idle"), queue = <<>>,
                      \A c \in Child : pc[c] # "trim", NEW x \in dirs \ Roots
               PROVE  \E d \in Digest, k \in 0..Depth :
                         DirAt[d][k] = x /\ file[d] # "none"
    BY DEF NoLitter
  <2>1. PICK d \in Digest, k \in 0..Depth : DirAt[d][k] = x /\ Accounted(d, k)
    BY DEF DirsUsed, Used, ArbGone, ArbAt
  <2>2. ~TrimAsked(d)
    BY DEF TrimAsked
  <2> QED BY <2>1, <2>2 DEF Accounted, ArbAt
<1> QED BY <1>1, <1>2, <1>3, PTL DEF Spec

=============================================================================
