# Verification of blobio

blobio stores immutable blobs under their digests (*udigs*,
`algorithm:digest`) and writes one *blob request record* (BRR) per request to
a log that clients may freeze (*wrap*), fetch and forget (*roll*). This
directory holds TLA+ models of the server `bio4d`, of its client `blobio`, of the
workers of `flowd` and of the PostgreSQL types of udigs, TLC configurations that
check them on small instances, and TLAPS proofs. Every definition that stands
for code is listed with its source lines in `PROJECT.json` under `map`.

## 1. Inventory

### Components of bio4d (`src/bio4d`)

| component | state | operations | talks to |
|---|---|---|---|
| master (`bio4d.c`) | listen socket, pid file, counters | boot, `accept_request`, `fork_accept`, `reap_request`, `heartbeat`, `leave` | forks every other process, reaps them by SIGCHLD; signals its process group when it leaves |
| request child (`bio4d.c`, `req.c`, `net.c`) | request buffer, chat history, exit status bits, timer | scan; `get put give take eat wrap roll cat` | client socket; arborist, BRR logger and text logger through pipes, replies through fifos `run/<process>-<pid>.fifo` |
| digest modules (`fs_sha.c`, `fs_btc20.c`, `fs_bc160.c`) | blob files under `data/<module>_fs/`, temporary files | stream, digest, unlink; ask for rename and trim | arborist |
| arborist (`arbor.c`) | directories under `data/` | rename (`R`), move of a local file (`M`), trim (`T`) | one pipe in, a fifo per request out |
| BRR logger (`brr.c`) | `spool/bio4d.brr`, `spool/bio4d-*.brr` | append a record, freeze the log for a wrap | one pipe in, a fifo per wrap out |
| wrap and roll (`brr.c`) | `spool/wrap/*.brr`, blobs of logs and of sets of logs | freeze, store, move to `spool/wrap`, list, store the set; unlink the logs of a set | BRR logger, digest module |
| framing and file I/O (`io.c`) | none | counted messages on pipes, whole-buffer writes | all |
| set of udigs (`blob_set.c`) | chained hash table | put, exists | roll |
| temporary directories (`tmp.c`) | `tmp/0 ... f` | `tmp_get` | digest modules, wrap |
| text logger (`log.c`), `signal.c`, `ps_title.c`, `macosx.c` | log file | append, roll each day | all |

### flowd (`src/flowd`)

| component | state | operations | talks to |
|---|---|---|---|
| tail (`tail.go`, `file.go`) | the open log, its offset | open, read lines, follow a roll | a channel of lines to the workers |
| flow worker (`server.go`, `compile.go`, `flow.go`) | the current flow, a network of goroutines, the sync maps | compile the rules; take a line, push the flow, resolve it | commands, databases, logs through channels |
| commands and queries (`command.go`, `sql.go`, `flowd-execv.c`) | a pool of processes | run, answer with a detail record (xdr, qdr) | flow workers |
| parser, order of rules (`parser.y`, `tsort.go`) | the syntax trees | parse, sort by dependency | compile |

### The client `blobio` (`src/cli/blobio`)

| component | state | operations | talks to |
|---|---|---|---|
| main (`blobio.c`) | arguments, exit status, the paths of input and output | check the arguments, run the verb of the service, `cleanup`, exit | driver, digest |
| driver `bio4` (`bio4.c`) | the connection, the open files, what it has read of a reply | connect; `get put give take eat wrap roll`: request, replies, blob bytes | a request child of bio4d over TCP |
| driver `fs` (`fs.c`) | the tree of blobs below a local directory | the same verbs without a server | files |
| digests (`btc20.c`, `bc160.c`, `sha.c`) | the digest of the bytes seen so far | `chew`, `empty`, `frisk` | drivers |

### PostgreSQL (`src/sync`, `src/www`)

| component | state | operations | talks to |
|---|---|---|---|
| types of udigs (`pgsql/contrib/udig`) | the values of an indexed column | text forms, casts, comparisons, operators of `udig`, `udig_sha`, `udig_bc160`, `udig_btc20` | PostgreSQL's btree and planner |
| schema and scripts | facts about blobs | copy blobs between services, load records | `blobio`, SQL |

Outside these: scripts in `src/sync` and `src/cli` that drive wrap and roll, and the
monitoring pages of `src/www`.

### Who shares what, and what is hard

* **Blob files** get their names by a `rename()` of the arborist and lose them by
  an `unlink()` of a request child (a take, or a get that read bad bytes). The
  two are not synchronised.
* **Directories** are made and removed by the arborist only. Trims are requests
  like renames, but nobody waits for their completion.
* **Fifos**: both sides wait in `open()` for the other one. A child killed
  meanwhile leaves a process waiting that all other children depend on.
* **The log of records** is appended to and renamed by one process, and stored,
  moved, listed and unlinked by as many children as there are wraps and rolls.
* **Exit status**: the only thing the master learns of a request are 8 bits:
  class, verb and which answer was "no".
* **Timers**: each read and write of a client is bounded by `setitimer()`.
* **flowd's rules** are resolved by a goroutine for each node of their trees. A flow
  ends when all have passed it on, in whatever order their values came.
* **Client and child** share nothing but a TCP connection: each has its own copy of the
  bytes and its own idea of how far the other one got. A give and a take end with one of them removing
  a file because of what the other one said last.
* **The order of udigs** is written ten times, once for each pair of types: a btree
  is only as good as their agreement.
* **Death**: a child by a signal; the arborist or the logger by a panic or SIGPIPE,
  which takes the server down; the host. Files, fifos and frozen logs stay.

### What makes each component correct

* store and arborist: an acknowledged put has been renamed into the store; a blob
  has all its directories; a rename finds its source and directories; a partial
  file is never left; takes leave no litter; answers agree with one atomic effect
  on the set of blobs; requests end; a request does not end the arborist.
* records: each sent record gets into one log, once, and is never destroyed; what is
  in `spool/wrap` is stored; what was rolled stays rolled; the answer of a wrap
  has all earlier ones but what was rolled; a wrap freezes what was sent before
  it; requests end.
* requests: the chat history keeps its grammar; the exit status tells the truth;
  a record is written for each verb that was answered; the counters balance; requests end
  when their clients stop, leave or send all they should.

* flow worker: a flow's values never meet another flow; exactly the commands and queries
  whose rules hold run, once; when the flow resolves, nothing of it is left; it resolves.

* client: until it has said that a blob may be forgotten, the blob is in a file at one end; exit
  status 0 and 1 mean what they say; no part of a blob is left at its output unless the run is killed or timed out in a write; runs end.
* types of udigs: the index is in the documented order, queries are exact whatever types
  they compare and however they are planned, a restored dump is the dump.

The list of what is hard to test, with lines and the properties aimed at it, is
`hazards` in `PROJECT.json`.

## 2. Modules

| module | models | role |
|---|---|---|
| `BlobService` | what the store promises | abstract: a set of blobs and one request per client |
| `BlobStore` | digest module, verbs get put give take eat, the digest of wrap, the arborist, pipe and fifos, leave and restart | detailed; implements `BlobService` |
| `BlobStoreProofs` | | theorems of `BlobStore` |
| `BlobStoreRefines` | | that `BlobStore` implements `BlobService` |
| `WrapRoll` | BRR logger, wrap, roll, the check of take; restart of the host | stores and unlinks of blobs are single steps, as `BlobService` promises |
| `WrapRollProofs` | | theorems of `WrapRoll` |
| `Request` | accept, scan, verbs as scripts of reads and writes, timers, exit status, record, reap | the store is a choice |
| `RequestProofs` | | theorems of `Request` |
| `Rummy` | flowd's three valued logic with values still waited for | the tables, and SQL's logic |
| `RummyProofs` | | theorems of `Rummy` |
| `FlowGraph` | the network of goroutines of a flow worker | extends `Rummy`; configurations are syntax trees of rules |
| `FlowGraphProofs` | | theorems of `FlowGraph` |
| `Session` | a run of `blobio` over its driver `bio4`, the connection, a request child with `fs_btc20` or `fs_bc160`, the files at both ends | both ends of one connection; reboots, directories and other children are `BlobStore`'s |
| `SessionProofs` | | theorems of `Session` |
| `UdigIndex` | the PostgreSQL types of udigs under a unique btree index | the functions of `udig.c`, their families in `udig.sql.in`, and what PostgreSQL does with them |
| `UdigIndexProofs` | | theorems of `UdigIndex` |
| `MCBlobStore`, `MCWrapRoll`, `MCRequest`, `MCFlowGraph`, `MCSession`, `MCUdigIndex` | | model values, symmetry, small trees, small sets of rules, of blobs and of texts |

### BlobStore

`pc[c]` is the place of child `c` in its handler; `tmp`, `fifo`, `reply` are its
temporary file, its fifo and what waits in it; `file[d]` is the file at the path
of digest `d`: `"none"`, `"torn"` (a copy across devices under way, or abandoned),
`"whole"` (complete and writable) or `"sealed"` (complete, read only); `dirs` is the
set of directories; `queue` is the pipe; `arb` the arborist with its message.
`DirAt[d][k]` is the directory at depth `k` on the way to `d`, so two digests may
share some. `landed` and `ans` are histories: the effect and the answer.

A child runs `put_request`, `put_bytes`, `arbor_send`, `rename_open` (a joint step:
both sides of a fifo open together), `arbor_reply`, `put_cleanup`, `write_ok`; or
`get_request`, `get_bytes` or `get_bytes_zap`, and for a take `take_reply` and
`arbor_trim`. The arborist takes a message (`arborist`), makes one directory per
step (`make_path`), renames (`rename_blob`) or copies (`move_open`, `move_copy`),
changes the mode (`rename_chmod`) and answers (`rename_reply`); or removes one
directory per step (`trim_rmdir`, `trim_lstat`). `kill_child`, `leave`, `crash` and
`arbor_open` are the deaths and the restart; `rename_fault` is a failing disk.

Abstracted: blob bytes are right or wrong as a whole; a digest stands for its
path; only the empty digest is distinguished. A process id is not used again
while a request of its former owner is in the pipe: ids wrap around far more slowly
than the arborist works. Its fifo, which stays on disk, may still meet a new owner.

### BlobService

Five kinds of step: a request is asked, has its effect on `store` (`Store`, `Remove`)
or looks (`Find`), is answered, or leaves without an answer. The refinement maps
`store` to the digests that have a file, `found`, `done` and `st` to what child `c` has
seen, to `landed` and to `ans` with the places where `c` is idle or dead. It holds with `tmp/` and `data/` on one device and without disk faults; the runs
with faults show how it fails.

### WrapRoll

A record is its sender, a log is the sequence of its records, the digest of a log
is the log, and the digest of a set is the set. This is what udigs do, short of
collisions; it makes the empty log the only one that can come up twice, as in
reality, for each record holds a time and a client address. `frozen` are the files
`spool/bio4d-<now>-<seq>.brr`, `wrapped` those in `spool/wrap`. A roll that
lists the directory and then unlinks is two kinds of step, as is a wrap that moves its
log and then lists. `rolled`, `taken` and `before` are histories.

`Stamps` is the set of values `<now>` may take in names. The code formats the address
of `time()` there, which is the same at each boot of a fixed binary without address
randomisation: one stamp is the case to look at.

### Request

`Script[v]` is the order of answers, reads and blob bytes of verb `v`; a child
walks it with `at`. `class`, `verb` and `no` are the bits of the exit status; `chat` is the
chat history, `brr` whether the record was sent, `told` whether the client was told anything, if only
by `die_NO()`, which keeps no chat; `fed` changes with each chunk of a put that is not the last. Clients may stall, resume and
leave at any time. What exits without a record and what does not, and in which class,
is taken from each path (`request_no`, `request_incomplete`, `request_timeout`,
`blob_read_failed`, `req_write_error`, `req_write_timeout`, `read_reply_error`,
`request_silent`, `module_panic`). `request_done` packs the chat bits as the code does, with
its test of the third answer as written. The mask of verbs that are recorded is
taken to have all of them. In an answer that does not fit, what matters is whether
a write can wait (`Blocks`): only after bytes of a blob went out.

### FlowGraph

`conf` is the syntax tree of the rules; `Network` is what `compile()` makes of it:
goroutines that ask for each flow (`getters`) and ones that pass values on, and whose
channels each reads. `at[g]` is the flow goroutine `g` is in, `pc[g]` whether it
asks for a flow, reads, fires or sends, `got[g]` what it has read, `val[g]` what it sends;
a channel has no buffer, so `Take` moves sender and receiver together, but a fanout
starts goroutines for its sends, and what these have under way is `put`.

`brr` makes a flow of a line, `push` hands it to one goroutine, `resolve` ends it. Between
them the nodes run: `map` (projections, comparisons), `bool2` with its draining,
`argv`, `wait_fire` and `call`, `fanout_xdr`, `pass` (loggers and mergers), `reduce`.
A sanity test that fails sets `panic`, and nothing happens after it.

Which goroutine reads which (`Sends`) is `compile()`'s `switch`, one disjunct for each kind of
node. `WellFormed` is what the parser guarantees of a configuration, and a constant's assumption: the
root of a tree is a command or query, its when clause is below it, trees share no nodes,
`compile()` reaches every node from the roots, and no value is made of itself: trees have no
cycles, and the parser refuses cycles of commands and queries whose results others use (`tsort`).
TLC checks it of each configuration of the run.

What rules mean is `Rules`: the value of each node for each record, in the order of the records, a lookup being true when the
string was looked up for an earlier one. Sync maps are known by name. When two lookups of
one map are in the rules, which of them finds the other's string in the same flow depends on the order
of the goroutines: the code leaves that open, and `RunsAsRuled` says nothing of such rules (`OwnMaps`).

Abstracted: fields and constants are `"false"` or `"true"`, chosen when they are read, and
so are the result of a command or query, `"OK"` or `"ERR"`, and what each projection takes from it:
true, false, or null for an SQL NULL or no row (`Fire`, `Status`); a query is a command with another kind
of detail record. A line of the tail that cannot be parsed ends flowd (`brr_panic`). Chains of goroutines with one input are one goroutine: a projection with its
comparison or cast and `argv1`, and the error logger with the merger behind it. They
keep order and hold one value each. One worker; the stream of records does not end.

### Session

`cpc` is where the client is in `blobio.c` and `bio4.c`, `spc` where the child is; `c2s` and
`s2c` are the bytes on their way. Both ends read pieces of any size: `seen` is what the client has
digested, `fed` what the child has, `nread` and `reply` are parts of replies. `input` and `output`
are the files of the client, `store` and `tmp` those of the server. `reset` is a connection that was cut
or closed with unread bytes (`reset_unread`): writes to it fail or raise SIGPIPE.

`fs_btc20.c` and `fs_bc160.c` are the same code but for the hash, and `map` names the lines of one or of
the other. Blob bytes are sequences over a few letters, so a digest is equality of sequences; a
request line and its scan are one unit on the wire, for `Request` is about those. `trust_fs` is the server's switch
that its disk need not be digested again, `tfs` the client's query argument that its input need not be. The
client's `cleanup()` removes the file at its output path above exit status 1; a `die()` because the path is not free and
signals leave it alone. `stranger` is another program that makes a file of that name after the check.

`had`, `told` and `touched` are histories: the blob was in a file at first; a client
said that it may be forgotten; this run changed a file.

### UdigIndex

`index` is the sequence of values a btree keeps. PostgreSQL reaches a place in it by comparisons, and
`Places` are all the places such a descent can end at: one if the comparison is monotone along the sequence, more if
not, and then the shape of the tree chooses. Rows come as text (`InsertText`) or by the implicit cast
(`InsertCast`), go by `Delete`; a query reads the index (`IndexScan`) or, written the
other way round, the whole table (`TableScan`), so commutators meet comparisons; `Reload` is a
dump that is restored. One byte stands for the twenty of a digest, and its text has two hex digits for forty.
`Compared` are the pairs of types that queries compare.

## 3. Runs

| run | instance | checks | shows |
|---|---|---|---|
| `BlobStoreService` | 2 children, 1 blob at depth 1, stored at boot; put take get eat digest; kills, crash and restart | `TypeOK`, `AckedPutLanded`, `ServiceSpec` | whatever dies, an "ok" follows the rename, and the store is a set of blobs to its clients |
| `BlobStoreQuiet` | 2 children, 2 blobs of one directory, one of them the empty blob and stored; give get take; fair | `RenamesReady`, `NoLitter`, `RequestsEnd` | trims and renames of neighbours do not destroy each other's directories; takes clean up; requests end |
| `BlobStoreMove` | 2 children, 1 blob, `tmp/` on another device; digest put get eat take; kills, copies that fail | `CompleteStays` | a second put of a blob that is there does not cut it, although the copy opens its target with `O_TRUNC` |
| `BlobStoreTrims` | 2 takes of 2 blobs in one directory | `TrimsSpareArborist` | **violated**: the second trim panics the arborist |
| `BlobStoreLostPut` | 2 puts, failing disk | `AckedPutLanded` | **violated**: the reply of the arborist is not looked at |
| `WrapRollSafety` | 3 requests of put take wrap roll; kills, reboots | `TypeOK`, `LoggedOnce`, `RecordsStored`, `WrapsAccumulate`, `WrapFreezes` | freezing, storing and moving keep records apart and stored; answers accumulate |
| `WrapRollLive` | 4 requests of wrap roll on a server whose log has one record; fair | `RecordsStayRolled`, `LoggedKept`, `RequestsEnd`, `RecordsLogged` | rolled logs with records do not come back; no step loses a record; nobody waits for ever; each record is logged |
| `Request` | 1 slot used three times, all verbs; kills, module panics, fork failures, partial writes; fair | `TypeOK`, `Balanced`, `ChatGrammar`, `NosHaveCounters`, `RecordIffAnswered`, `RequestsEnd` | the exit status and the counters agree with what happened; what was told without a verb (`die_NO()`) has no record; a request ends unless its client sends for ever or a write goes on without a timer |
| `RequestStall` | 1 connection, a write interrupted in the middle; fair | `WritesEnd` | **violated**: the continued write has no timer |
| `Session` | 2 runs over the same paths, all verbs; a blob of two bytes or the empty one; cuts, kills; fair | `TypeOK`, `NoLoss`, `OkMeansDone`, `DeniedChangesNothing`, `StoreWhole`, `TmpRemoved`, `OutputWhole`, `SessionEnds` | a give or take loses nothing before the client says so; 0 and 1 mean what they say; no part of a blob stays but at the output of a client that was killed or timed out in a write; both ends end |
| `UdigIndex` | 3 rows, 3 digests and bad texts, all pairs of types but udig with udig_bc160 on its right | `TypeOK`, `Sorted`, `AnswersExact`, `ReloadKeepsRows` | nine of the comparisons are one order: the index and every query over it are right |
| `FlowRules` | five sets of rules: and, or, an argument vector, a sync map, a command with the result of another as argument; two records for `and` and the sync map, one for the others; fair | `TypeOK`, `NoPanic`, `RunsAsRuled`, `Converged`, `FlowsEnd` | however goroutines interleave, flows do not mix, rules decide what runs, flows resolve |

### Why these bounds

*BlobStore.* The arborist is sequential and each child has one request at a time,
so races are between one arborist message, one child and what a second child left
in the pipe or on the disk. Two ids that are used again give all pairs of verbs, ids
met again with fifos and temporary files left, and unbounded histories. Depth 1 below a
root has a directory to make, one to share and one to trim; digest pairs that share a
directory are the case that matters. `ThreeLevels` is there for a deeper tree.

*WrapRoll.* A child makes one request, so the number of children bounds the number of records.
Three let two wraps overlap with a roll or a put, or follow each other; four are needed
to have a log with a record wrapped, rolled and followed by another wrap, and for these
`WrapRollLive` begins with the record in the log rather than with the put that sends it. `SeqSpan` is the true
one, so numbers repeat by a restart only.

*FlowGraph.* A goroutine knows its inputs and the flow it is in and nothing else, so each kind
of node with its neighbours is an instance of its own. What a flow leaves behind meets the next
one: two records for the node that may answer early and for the one that remembers. Nulls come
from a command that did not run (`Piped`). Combinations of these in one tree multiply the
interleavings and add no new kind of meeting; that the tables treat a null as they should is proved.

*Request.* Requests share nothing but the counters, which the master changes one reap at a time, so one slot
that is used again shows what several would; `MaxAccept` bounds the counters. Three requests
give a failed fork between two others.

*Session.* A connection has one client and one child. The second run meets what the first left at all
paths: input, output, stored blob. Two bytes are enough for a piece to be a part of the blob, the
rest, or all of it; inputs are the blob, less than it, and more than it by so much that the connection is
full (`Wire`, three bytes, also the length of replies and of the udig of a wrap). The damaged blob is as long
as the blob and begins like it.

*UdigIndex.* Order is a matter of three values, so three rows and three digests; these differ in the
first digit or in the second. Texts are good, too short, too long, or hold a character that is no digit.
`Agreed` leaves one pair of types out; with `Disputed` in its place the run refutes
`AnswersExact` (section 5).

### Fairness

Children, the arborist and the logger are processes the kernel runs, so each is
weakly fair. In `BlobStore` the last of a client's bytes or its timeout arrive: each read and
write is timed (`net.c`), and a client that sends for ever bytes that are no blob is taken not to be there. `Request`
is where both are examined. A dead arborist is reaped, a leaving master signals its group
and exits. No fairness is assumed of clients, signals, faults, crashes or restarts, nor
that a write whose buffer is full goes through (`req_write_buffered`).

In `FlowGraph` the goroutines together are weakly fair, as little as "some step is taken
while one can be": commands and queries are taken to end. Nothing makes records arrive.

In `Request` a timer that was set runs out. A put reads chunk after chunk until the digest matches, each with a timer of its
own and without a limit (`eat_chunk`), so its client can keep it for ever (`KeepsSending`). `RequestsEnd` says that any other request ends
or comes to a write without a timer (`Untimed`); `WritesEnd` says that there is no such write, and `RequestStall` refutes it.
The window between `setitimer()` and the system call, in which the alarm would be lost,
is not modelled: the timeouts are seconds long.

In `Session` each end takes its steps, the child its timeouts with them, for bio4d always sets them; TCP tells
of a connection that was closed with unread bytes. The client's own timeouts (`read_timeout`, `catch_write_ALRM`) are
outside fairness, for `--io-timeout` is an option: runs end without it. Cuts, kills and strangers are not forced.

`UdigIndex` has no liveness.

## 4. Proofs

`BlobStoreProofs` proves for all sets of children, digests and directories, any
depth and sharing of directories (`TreeAssumption`), and all verbs and faults:

| theorem | property | assumes |
|---|---|---|
| `TypeCorrect` | `TypeOK` | `TreeAssumption`, `ConfigAssumption` |
| `RenamesAlwaysReady` | `RenamesReady` | the same |
| `AckedPutsLanded` | `AckedPutLanded` | and `ReliableDisk`: no disk faults, one device |

Neither of the last two is inductive. The invariant that is has these parts:

* `TreeClosed` and `PathMade`: the directories above where the arborist is have been made,
  and nobody else touches directories, so at the `rename()` all of them exist. Trims need the
  sharing part of `TreeAssumption`: a directory that is removed is above no other
  one, for `Occupied` looks at everybody's children.
* `RequestHeld`: a child has at most one rename in the pipe or with the arborist, and until
  it is answered the child is in `open` or `read`, or dead, and its temporary file is
  complete. With `PathMade` this gives `RenamesReady`.
* `AnswerLanded`, for `AckedPutLanded`: with a reliable disk and `RenamesReady`, the
  arborist comes to `chmod` only after the rename, so an answer, whatever it says, follows the
  rename. `ReliableDisk` is necessary: `BlobStoreLostPut` is the counterexample without it.

`RummyProofs` proves, for all known values, that the tables of `flow.go` are SQL's logic
(`TablesAreSql`), that an answer found with one side known is the answer whatever the
other side is (`EarlyIsFinal`), which is why `wait_bool2()` may drain that side without looking, and
that with both sides known there is an answer (`BothSidesDecide`).

`UdigIndexProofs` proves for any set of texts and any number of rows:

| theorem | property | assumes |
|---|---|---|
| `TypeCorrect` | `TypeOK` | `HexTextAssumption`, `MaxRowsAssumption` |
| `IndexSorted` | `Sorted` | the same |
| `ReloadKeeps` | `ReloadKeepsRows` | the same |
| `QueriesExact` | `AnswersExact` | and `NoDispute`: no query has a udig left of a udig_bc160, `InFamily`: every query is of a pair the family lists |
| `Bc160Disagrees` | | none: `udig_cmp_bc160` is not the documented order |
| `CanCastTakesMore` | | none: `udig_can_cast` is true of texts that are rejected |

The argument is `CmpIsOrder`: nine comparisons are the documented order, which is a linear preorder
(`OrderTransitive`). A descent then splits a sorted sequence in what is below the key and what is not
(`PlaceSplits`), so inserting and deleting there keeps it sorted, and a scan from there that stops at the
first failure misses nothing (`IndexScanExact`). `RoundTrip` is the text form read back.

`SessionProofs` proves for any blobs, inputs and damaged bytes, any verbs, number of runs and bound on the
wire, with and without cuts and kills, from `SessionAssumption` alone:

| theorem | property |
|---|---|
| `StoredWhole` | `StoreWhole` |
| `TmpsRemoved` | `TmpRemoved` |
| `NothingLost` | `NoLoss` |
| `OutputsWhole` | `OutputWhole` |

`OutputWhole` is not about runs that were killed, nor about those that end in `die_timeout()`: `_write()` has the alarm set when it
writes to the output file, too, and `die_timeout()` does not clean up, so a part of the blob stays (`TimeoutCleansUp`, section 5).

`NoLoss` needs most of the invariant. A give removes its input when it has read the second "ok": `Replies` says
what can be on its way to such a client, piece by piece, and that a second "ok" is there only when the
blob is stored. A take removes the stored blob when it has an answer: `Unanswered` says that nothing of one
is there before the client has told. A child that finds the wrong digest removes the file: `SendsStore` says that
what it sent and what is left are the file, so the file was not the blob (bar a trusted disk, which is not
digested). `OutputHeld` relates output file and digest of the client. The invariant `IInv` holds in the instance of `Session`.

`WrapRollProofs` proves for any verbs and any values of `<now>`, with and without kills and reboots, from
`WrapRollAssumption` and `FewRequests`: there are fewer requests than numbers of frozen logs, 65536, so none comes
up twice in a boot. `seq` wraps around in the code as in the model; a server would have to freeze 65536 logs in one
boot, and have one of that age left in `spool/`, to meet a name again.

| theorem | property | assumes more |
|---|---|---|
| `TypeCorrect` | `TypeOK` | |
| `RecordsAreOnce` | `LoggedOnce` | |
| `WrappedIsStored` | `RecordsStored` | |
| `RolledIsGone` | `RecordsStayRolled` | |
| `WrapsSeeTheLast` | `WrapsAccumulate` | |
| `WrapsFreeze` | `WrapFreezes` | |
| `RecordsKept` | `LoggedKept` | no reboots |

Their invariant follows a record and a log on their way. `PipeOnce`, `RecordPlace`, `LoggedOnce`: a record is with its
child, in the pipe once, in the log once, or in one closed log. `Meeting`: logger and child meet at the fifo,
until one of them dies. `NumbersLast` and `Held`: a number is used up for each wrap that was asked and is no longer in the
pipe, so the name the logger takes is greater than all names of this boot that it or a child
holds; without it a freeze could put another log under a name a child is about to store. `FrozenOnce`: a frozen log
with a record is under one name, and was neither wrapped nor rolled before. `KnownWrapped`: clients know of a log
from the answer to a wrap, when it is in `spool/wrap` or was rolled; hence a take that got through was of a
rolled log, or the empty one. `SentBehind` and `Cleared`: what was sent before a wrap is before it in the pipe, and gone
from pipe and log once it is read. `RecordsKept` adds `NamesCounted`, which
says that the frozen logs with the `<now>` of this boot have numbers it has given. A reboot may give a name again and breaks `LoggedKept` (section 5).

`RequestProofs` proves for any number of slots and any bound on connections, with signals, faults, failing
forks and interrupted writes, from `RequestAssumption` alone:

| theorem | property |
|---|---|
| `TypeCorrect` | `TypeOK` |
| `ChatsObeyGrammar` | `ChatGrammar` |
| `NosAreCounted` | `NosHaveCounters` |
| `RecordsMatchAnswers` | `RecordIffAnswered` |
| `CountersBalance` | `Balanced` |

A child in the middle of its script has said and heard "ok" alone, as often as the steps behind it have one
(`OnScript`, by the table `OksBefore`), and what it writes is what its step has to write (`SaysStep`). So the first "no" is
the last answer, and it is the second one only of the verbs that have a counter for it (`AtEnd`, `NoBits`). `Balanced` is proved
by cardinalities: an accepted connection makes one slot busy, a reap frees one and counts it once.

`BlobStoreProofs` has two more, of histories without some of the faults:

| theorem | property | assumes |
|---|---|---|
| `CompleteBlobsStay` | `CompleteStays` | no restarts |
| `TakesLeaveNoLitter` | `NoLitter` | `ReliableDisk`, no kills, no restarts |

`CompleteStays` holds because the arborist takes one message at a time and makes a file read-only before it takes the next (`Sealing`): the
`open()` of the second copy fails. A server that dies after the copy and before the `chmod()` leaves a complete file that can be written to,
and the next put of the blob cuts it: with `Restarts` the property is refuted, as is that no part of a blob is left by a death
in the middle of a copy.

`NoLitter` speaks of the moment when everybody is idle. The invariant behind it, `DirsUsed`, gives each directory a reason at
any moment: a blob below it, the arborist on its way down to make one, a trim on its way up or still in the pipe.

`BlobStoreRefines` proves `Refines`: under `ReliableDisk`, `Spec => ServiceSpec`, with kills, crashes and restarts. Every
action is shown to be one step of `BlobService` or none: `rename_blob` and `digest_local` are `Store`, the take's `unlink()` is
`Remove`, the look at the file `Find`, answers `SayOk` and `SayNo`, and deaths `Leave`. The invariant says what
lies behind each place of a handler (`Handler`: who has not answered, has not landed, has seen the file) and that a rename in
the pipe is of a blob its child, alive or dead, has not stored yet (`Underway`): so the arborist stores once, on behalf of
that child. `NoCopy` excludes the copies across devices, which are not atomic.

`SessionProofs` proves of what the client is told, with the hypothesis `Undamaged`, that the stored file is
the blob or does not exist when the history begins:

| theorem | property |
|---|---|
| `OkIsDone` | `OkMeansDone` |
| `DeniedIsUntouched` | `DeniedChangesNothing` |

`Undamaged` is necessary: a take of a damaged file that is the blob with `ok\n` behind it takes these bytes for the server's last
reply and exits with 0 while the file is still there. The invariant `DInv` follows each verb through both ends and the
wire (`Putting`, `Taking`, `Eating`, `Wrapping`): an "ok" or "no" in the wire, whole or in pieces, is what the child has done. `TypeCorrect`
is `TypeOK`, without `Undamaged`; its invariant `TInv` bounds what is on the wire in both directions and what either end still reads of a reply.

`FlowGraphProofs` proves for any set of configurations that fulfil `FlowAssumption` and any number of flows:

| theorem | property |
|---|---|
| `NeverPanics` | `NoPanic` |
| `FlowsConverge` | `Converged` |
| `TypeCorrect` | `TypeOK` |
| `RulesDecideRuns` | `RunsAsRuled` |

The invariant `FInv` says of each channel where the value of the current flow is: what was sent is with the reader
(`Direct`), or one passing goroutine or one goroutine of a fanout still has it (`Passed`, `Fanned`), and never both. So nobody can read
twice, nor a value of another flow (`Fresh`), and nobody is more than one flow behind (`Follows`). `Counted` is
`confluent_count`: the goroutines that have not asked for the flow, which is zero exactly when all have (`Count` is the
sum that `compile()` makes). When the detail record is there and all have asked, the goroutines that sent contain `log_fdr()` and
everything they read from; `AllConverge` says that this is the whole network, because `compile()` reaches all nodes from the roots. That
replaces an induction over trees: `WellFormed` says it of every set of nodes.

The last two need to know what the values are (`KInv`). A value read or on its way is the value of the node it
started at (`Carried`, `Source`), and a node has its value when those it is made of have theirs (`Fed`); `Typed` bounds the values by
the kind of node, `Ran` and `Summed` tie `runs` and the detail record to them. Early answers are no exception: what
`wait_bool2()` knows when one side is in is what the table says of both (`Decided`).

`RulesDecideRuns` compares the network with `Rules`, which is a recursive function over records and nodes, so the library
says nothing of it but that it is *chosen* to satisfy its equation. The proof goes three steps. Values *solve* the rules for
the first records of `world` when each is what its node makes of the values it needs (`Obeys`, `Solves`). The invariant is that some function solves the rules for
all records but the current one, that each value there is of the current one obeys them, and that the sync maps hold the
strings looked up (`Ruled`); a record that resolves extends the function (`AddedSolves`). And there is one solution only (`OneSolution`):
of two that differ take the least record where they do, which well-foundedness of the numbers gives, and its nodes
on which both agree; these contain every node whose needs they contain, so by `WellFormed` they are all. The function that exists by the
invariant satisfies the equation of `Rules`, so `Rules` does, so both are the same (`RulesDecide`).

Each step of the proofs that an invariant is kept is one action, or a few that the same facts prove.

Only model-checked: liveness (`RequestsEnd`, `RecordsLogged`, `SessionEnds`, `FlowsEnd`), which the prover does not reach.

## 5. Where code and comments disagree

Three have runs:

| property | code | says otherwise |
|---|---|---|
| `TrimsSpareArborist` | `arbor.c:338`: `lstat()` of a directory another trim has removed panics | `bio4d.c:1121` "unexpected exit of arborist process" |
| `AckedPutLanded` | `arbor.c:570`: the reply is read and ignored | `arbor.c:107` |
| `WritesEnd` | `net.c:280`: a continued write arms the timer with zero | `net.c:200` |

The others are stated in the modules as properties that TLC refutes, too, and that no run checks:

| property | code | says otherwise | to see it |
|---|---|---|---|
| `RenamesSpareArborist` | `arbor.c:91`: a take unlinks the blob before `chmod()`, which panics | as above | put and take of one blob, `DiskFaults` FALSE |
| `ArboristShutsDown` | `arbor.c:54`: the arborist waits in `open()` for a child that was killed | `arbor.c:476` | `Kills` TRUE, fair |
| `ZapsCorrupt` | `fs_sha.c:449`: a get that read during a copy deletes the then complete blob | `fs_sha.c:212` | `CrossDevice` TRUE, get and digest |
| `LoggedKept` | `brr.c:102`: not the time but the address of `time()` is in the name of a frozen log, and `seq` starts at 1: after a reboot a name comes up again | `brr.c:67` | `WrapRollSafety` with `Verbs` put, wrap |
| `AcceptedIsKept` | `blobio.c:167`: after the "ok" of a take, the last reply is lost, the run ends with 3 and `cleanup()` removes the output: both copies are gone | `bio4d.c:537` "client accepted blob, ok to forget" | `Session` with `Verbs` take |
| `StrangersFileKept` | `bio4.c:232`: `fd < -1` is never true, so a file that exists is not noticed, and `cleanup()` removes it | `blobio.c:163` "unlink() file created by --output-path" | `Session` with `Verbs` get |
| `TimeoutCleansUp` | `bio4.c:360`: the alarm of `_write()` ends in `die_timeout()`, which leaves a part of a blob at the output path; it is armed for a write to a file as for one to the network | `blobio.c:165` "upon error, unlink() file created by --output-path", `blobio.c:203` "--io-timeout network only" | `Session` with `Verbs` get |
| `AnswersExact` (`UdigIndex`) | `udig.c:1297`: `_udig_cmp_bc160()` puts a sha and a btc20 before a bc160 | `udig.c:1155` | `Compared <- Disputed` |
| `CanCastIsRight` | `udig.c:1043`: `strcmp()` without `== 0`, so any name but btc20 will do | `udig.c:1000` | `Spec` of `UdigIndex` |
| `WrappedStored` | `bio4d.c:574`: take looks for the wrapped log before it streams, and unlinks after | `bio4d.c:562` | `Verbs` take, wrap, put |
| `RolledStaysRolled` | `brr.c:1094`: an empty log that was rolled is wrapped again | `src/README:71` | `Verbs` wrap, roll |
| `WrapInNextLog` | `bio4d.c:1015`: the record of a wrap follows its answer, another wrap may come between | `src/README:64`, `brr.c:71` | two wraps |
| `RecordsLogged` | `brr.c:124`: the logger waits in `open()` for a wrap that was killed | `src/README:88` | `Kills` TRUE, fair |
| `ThirdNoSeen` | `bio4d.c:1001`: the third answer is looked for one character too early | `bio4d.c:1089` | give or take whose last answer is no |
| `TimeoutsSeen` | `req.c:240`: a timeout of the client's reply is an error | `bio4d.c:1070` | give, stalled client |
| `PutNosCounted` | `bio4d.c:1030`: the "no" of a put comes with class timeout or error, and only successes are counted | `bio4d.c:205` | put, stalled client |
| `ErrorHasNoRecord` | `bio4d.c:1015`: what was answered before an error has a record | `bio4d.c:1069` | any answered request that fails |
| `CatsAreCats` | `bio4d.c:1201`: what fails before a verb is scanned has the verb bits of cat | `bio4d.c:195` | a bad request |

Failed forks are counted as accepted (`bio4d.c:1884`, against `bio4d.c:166`): `Balanced` of `Request` counts them apart (`unforked`).

Seen while modelling, in no property:

* The driver `bio4` reads each part of a reply to the start of its buffer, so an "ok" in two segments is an
  error (`read_ok_no`); the server's `read_reply()` refuses the `ok\r\n` that `req.c:247` allows, and looks at a third byte it
  has not read. `Session` has both as they are.
* An argument that is refused before the output path is looked at makes `die()` remove a file that is there, for
  `rm_output_path_error` is cleared only by that look (`blobio.c:811`); a read timeout is exit status 3, a write timeout 2. A denied get leaves an empty output file.
* A trusted give removes an input that only begins with the blob: `OkMeansDone` holds, for the blob is stored, and the
  bytes behind it are gone.
* `fs_btc20_eat()` and `fs_bc160_eat()` write a digest of 32 bytes to an array of 20 (`fs_btc20.c:702`, `fs_bc160.c:681`):
  `eat` of `Session` may end without a word.
* `wrap --output-path` opens its file twice with `O_EXCL`.

## 6. Not modelled, and why

* The parser of udig sets, message framing, `io.c`, `blob_set.c`, `tmp.c`, the pid file,
  the heartbeat: planned, see below. Restarts take the pid file to be removed, as an
  operator must.
* Pipes have no limit: their readers wait for a child only in the `open()` of a fifo, where
  the child is not writing to a pipe, so a full pipe delays and does not close a circle.
* Disk caches: nothing is `fsync()`ed, so a power failure may lose what was acknowledged;
  `crash` keeps what was renamed.
* In `WrapRoll`: a leaving master (its signals are the kills), takes of the blobs of sets,
  which nothing in wrap or roll depends on but that a roll then answers "no".
* In `Request`: signals other than SIGTERM and SIGKILL to a child; a SIGCHLD in the
  middle of the main loop (the handler and the loop reap alike).
* In `Session`: options, the verbs eat and empty without a service, standard input and output in the place of
  paths; a write that waits is cut in pieces by `Wire` and not by the size of buffers; faults of the client's disk.
* In `UdigIndex`: the functions that take a udig apart and `<>`, which no index uses; locks and transactions of PostgreSQL.
* The driver `fs` and the client's own records: one process, no peer.
* In `FlowGraph`: the counts green, yellow and red, which `log_xdr()` adds to without a lock (a data
  race that only statistics see); the flow a value refers to where no code looks at it.
* Collisions of digests.
* The text logger, titles, signal names, the samples for round robin databases, SQL, scripts,
  web pages: nothing the service promises depends on them.

## 7. Plan

Done: `BlobService`, `BlobStore` and its safety proofs, `WrapRoll`, `Request`, `Rummy` and its
proofs, `FlowGraph`, `Session` and `UdigIndex` with their proofs.

Next modules, in this order:

1. `Framing`: `io_msg_write`, `io_msg_read`, `io_write_buf` with lengths modulo 256 and short
   reads and writes; against a reference definition of a sequence of messages.
2. `UdigSet`: the parser `blob2udig_set` over chunks, and the table of `blob_set.c` as the
   set a roll takes it for. The parser as a recursive function over bounded inputs.
3. `Tail`: the tail of a log that is renamed and started again while it is read, and its
   end of file states.
4. `FlowGraph` with two workers over one sync map, and the end of the stream of records.
5. `Boot`: pid file, heartbeat, `boot` and `leave` of two servers of one root.
6. The driver `fs` beside a server of the same tree; `TmpMap`; the worker protocol of
   `flowd-execv`; the scripts that wrap, roll and copy.

Compositions: `Framing` below the pipe of `WrapRoll`; `UdigSet` below its roll; `Tail`
above the freezing of `WrapRoll`.

Next theorems:

* `Framing`, `UdigSet` and `Tail`, once they are modelled; their recursive functions by the argument of
  `OneSolution`.
