# QuicSync: TLA+ models, checks and proofs

QuicSync copies a directory tree from a *source* to a *destination* in one-way
sync attempts over QUIC. This directory holds the TLA+ models of its core, the
TLC configurations that check them on small instances, and TLAPS proofs for
every instance. Paths below are relative to `src/crates/quicsync-core/src/`
unless they begin with `src/`.

## The system

| Component | State | Operations | Talks to |
|---|---|---|---|
| Types, messages (`types.rs`, `protocol/messages.rs`) | relative paths in component order, index records, operations with ids | comparison, `path`, `id` | everybody |
| Scan and ignore rules (`filesystem/scan.rs`, `ignore.rs`, `metadata.rs`) | stack of directories, matchers with checkpoints | `scan_root`, `decision` | sends records, then `End`, into a bounded channel |
| Path resolution (`filesystem/paths.rs`) | root descriptors | `resolve_parent`, `open_regular`, `decode_relative_path` | commit, staging, transfer |
| Planner (`sync/planner.rs`) | one lookahead per index, next id | `plan`, `read`, `send` | reads two channels, writes one |
| Transfer (`sync/transfer.rs`, `wire.rs`) | one stream, two small channels and a worker thread per direction | `send_file`, `receive_file` | one QUIC stream per file |
| Staging (`filesystem/staging.rs`) | temporary files in `.quicsync` | `receive`, `install`, drop | transfer, commit |
| Commit (`sync/commit.rs`) | operations by id, a stack of directories with deferred actions | `stage`, `commit`, `apply`, `finish` | the live tree |
| Source (`sync/source.rs`) | three futures: scan, index, serve; flags `accepted`, `planned` | `run` | control, index and transfer streams |
| Destination (`sync/destination.rs`) | four futures: scan, index, plan, request; then commit and acknowledge | `serve` | the same, and the commit worker |
| Transport (`transport/quic.rs`) | connection, cancellation token, permits, stream and window limits | dial, accept, `confirm_handshake`, streams, close | source and destination |
| Codec (`protocol/codec.rs`) | bytes of an incomplete frame | `encode`, `decode`, `push`, `finish` | every stream |
| Identity, authorization (`auth.rs`) | key and certificate files, pins | load, create, verify | transport, destination |
| Configuration (`config.rs`), errors (`error.rs`) | none after start | parse, validate | all |
| Programs (`src/apps`) | session tickets in memory | the client's loop over attempts; the daemon's accept loop | source; destination |

What is hard about it:

* **Concurrency.** Seven futures, a job per file on either side and blocking
  workers, joined by bounded channels and by streams that are not ordered among
  each other. `PlanEnd` may arrive before a request that was made earlier.
* **Failure.** Every future may fail; the channels between them close in the
  same way on success and on failure. A peer may vanish at any time, also during
  the commit, which cannot be cancelled.
* **Crashes.** Nothing but the live tree survives. A commit that stops between
  two system calls is repaired, if at all, by the next attempt.
* **Order.** The committer depends on plan order; directory modes and times
  depend on what is done below them; type changes depend on both.
* **Early data.** With a session ticket the source's notification is sent as
  0-RTT data and may be refused later, or arrive again when its sender is gone.
* **Other processes.** The tree is renamed and linked while a path is resolved
  in it; two commands may create the machine's identity at once.

What makes each part correct: the scan lists each managed entry once, in order,
and prunes what it leaves out; the planner emits exactly the difference of the
two indexes, in order, or fails; a transfer stages a whole file or nothing; the
commit turns the old tree into the new one, preserves what is ignored, and can
be repeated from wherever it stopped; an attempt touches the live tree only when
everything is staged, reports success only of a committed tree, and always ends;
attempts of one source are committed in their order, each once; no link diverts
the resolution of a path; a machine has one identity.

`PROJECT.json` lists the components with their status and the hazards, each
with its line and the properties that cover it.

## Modules

| Module | Models | Instance | Proofs |
|---|---|---|---|
| `Paths` | order and nesting of relative paths | | |
| `Operations` | records, operations, and the reference difference of two indexes | | |
| `Planner` | `plan` between its producers and its consumer | `MCPlanner` | `PlannerProofs` |
| `Tree` | a directory tree: what a scan lists, what the resolver accepts, the system calls | | |
| `Scanner` | the traversal: the recursive walk, its stack of ignore rules, limits, errors, the channel | `MCScanner` | `ScannerProofs` |
| `Commit` | `PendingCommit` and `Committer`, system call by system call, attempt after attempt | `MCCommit` | `CommitProofs` |
| `Attempt` | what an attempt promises (abstract) | | |
| `Session` | one attempt: both sides, the connection, control, index and transfer streams | `MCSession` | `SessionProofs` |
| `Transfer` | one file transfer: two tasks, their worker threads, channels, stream and temporary file | `MCTransfer` | `TransferProofs` |
| `FlowControl` | the windows that the streams of a connection share | `MCFlow` | `TransferProofs` |
| `Codec` | framing: encoding, incremental decoding, the reader of a stream | `MCCodec` | `CodecProofs` |
| `Daemon` | one daemon, its clients and the network between them, over many attempts | `MCDaemon` | `DaemonProofs` |
| `Identity` | creation and loading of key and certificate by concurrent commands | `MCIdentity` | `DaemonProofs` |
| `Resolution` | a path resolved one `openat` at a time among other processes | `MCResolution` | `ResolutionProofs` |

How they fit together. `Planner` and `Commit` share `Operations`; `Commit` and
`Scanner` build on `Tree`. `Scanner` shows that the worker sends, in order, what
the rules of the tree imply, which is why `Planner` may take its inputs as sorted
sequences and `Commit` a scan as a set. `Planner` shows that ids and paths go up
along a plan and that the plan is the difference, which is why `Commit` may take
a plan from the reference definition and number its operations by path. `Session` takes the plan
as a constant: which operations there are, and how many index messages must be
read before each. It refines `Attempt`, and shows that nothing is committed
before everything is staged, which is why `Commit` leaves the tree alone until
then. `Transfer` opens up what is one counter per file in `Session`: that
a transfer ends and that an accepted file is whole is what the step from "sent"
to "staged" there takes for granted. `Codec` does the same for the messages on a
stream, which the other modules take as delivered in order and unchanged, and
`FlowControl` for the windows, which `Session` has only for the index stream. `Daemon`
takes an attempt as five steps and asks what many of them do to one root.
`Resolution` shows how far what `Tree` judges at one moment can be turned around by
others while it is resolved: not by links, but by moving the directory the walk is in.

### Planner

A channel is the number of messages put into it and the number taken out;
`srcOpen`, `dstOpen` and `consumerOpen` say whether its far end is alive. `pc`
follows `plan`: two reads, the comparison (`Merge`), the sends. The two reads
before the loop are those at the end of an iteration that consumed both inputs,
so they share the actions. An `Err` in a channel and a dropped sender both make
`read` fail once the earlier messages are read: one action, `SourceFails`.

### Tree and Commit

A tree gives each path of `Universe` an entry. File content and link targets are
numbers; a mode is the owner's digit (7 or 5); modification time 0 stands for
the kernel's clock, other times come from records. The system calls are external
(POSIX): `Succeeds` says when one succeeds, `Effect` what it leaves, including
the touch of the parent's time. An attempt begins with both scans and the plan.
`Stage` puts an operation into the map of `PendingCommit`, in any order, as
transfers end; `StartCommit` follows when the plan is complete there, and the
committer takes the operations by their ids. `Apply` is `Committer::apply` up to its system
calls, which `Execute` makes one by one; `FinishDirectory` is
`finish_directory`, called from the pop loop or from `finish`; a directory's mode and
its time are set by two calls. `Interrupted` is an I/O error or the end of the process,
while staging or between any two calls. `Begin` starts the next attempt, with
nothing kept from the last one. `touched` is a history: the directories whose mode
any attempt has written.
Ignore rules are pairs of a path and whether it is a directory, so a rule that
matches only directories can be told from one that matches both.

### Scanner

`frames` is the call stack of `scan_directory`: its scope, the names not yet
considered, and the length of `scoped` to restore on return. `EnterDirectory` is
the beginning of a call (checkpoint, the directory's own ignore file, the sorted
names), `ConsiderEntry` the decision on one name and `EmitRecord` its record,
`LeaveDirectory` the return. The rules of an ignore file are a matcher: which
paths its last matching pattern ignores, and which it re-includes. The path a matcher
is asked with has lost the directory of the ignore file twice: `scoped_path` takes
it off, and the crate, for which `build_matcher` made it the root, takes it off again,
byte by byte, unless a single name is left (`Stripped`; `Suffixes` says what is left of
one name without another). `EmitFails` is
a channel nobody reads any more, `FileSystemFails` any call that returns an error.
The reference, `Listing`, is `Scan` of module `Tree` under the rules that
the ignore files of the tree, asked in that way, imply for each path: it knows no walk
and no stack.

### Session

`src` and `dst` are the phases of `run_inner` and `serve_inner`. Index progress is
a chain of counters (scanned, sent, read, planned), operations another (emitted,
taken, joined). `transfer[k]` is how far file `k` is: requested, being served,
sent, staged, acknowledged. `control` is the queue towards the source. The
connection has the decision on early data, either side's handshake, the loss of
the network, and either side's cancellation token (`srcCut`, `dstCut`), which the
watcher of `new_early` fires when the peer closes or falls silent. A side that
returns closes the connection. Faults: any error or crash on either side at any
step (`SourceFault`, `DestinationFault`) and loss of the network. The guards
contain the capacity of each channel, the job limits of both sides and the
stream limit of the transport. `faulty` is chosen at the start and never changes:
it says whether faults may happen at all, so that one instance shows both what
holds in spite of faults and what holds without them.

### Transfer

`src` and `dst` are the positions of `send_file` and `receive_file`, `srcWorker` and
`dstWorker` those of the blocking threads. Content and signature are chains of
counters (produced, sent, received, written; signed, sent, received, read), since
channels and stream keep the order; the differences are bounded by `QUEUE` and by
the window. `temp` is the temporary file: none, partial, or complete with a
`StagedFile` that removes it when dropped. A task that fails drops its channel
ends, and its detached worker runs on until it meets that: `Input::read` reports an
error when the channel is empty, a blocking send fails. librsync is external; what
is kept of it is that a patch may end at its terminator before `End` is read.
`faulty` is as in `Session`.

### FlowControl

One direction of a connection, in units of a byte count: what each stream has
left to send and what is sent and not read. `per_stream` and `receive_window` are
the arithmetic of `TransportBounds::tuning`, with the limits that `Limits::validate`
admits. The reader of the index is the one that may wait for the others: it stops
when the channels behind it are full, and they empty only as transfers finish.

### Codec

A message is its kind, the layout of its fields and their values; the layouts are
those of the three `WireMessage` implementations. Reading operators return the set
of results, empty after an error. One read of the stream puts a piece into `input`;
`PushHeader` and `PushPayload` are the two halves of an iteration of `Decoder::push`.
An error drops what the same push had decoded. Varints have `Radix` values per
group and a last group of at most `LastGroup`: 128 and 1 in the program, 8 and 1 in
the instance, where widths of ids, digests and times are one byte. `Send` applies
both limits: the codec's on the payload, the transport's on payload and header
together. `origin` says whether the bytes of a behaviour come from the encoder or
are any bytes; the decoder cannot tell.

### Daemon

A client dials, is connected when its handshake is complete, makes its attempt
and goes on or exits. Its first flight may arrive never, late or twice, and with a
ticket it carries a `StartSync` as early data. The daemon's loop accepts a flight
and serves it to the end before the next: read the notification, look up the
root and the peer, scan, wait for the handshake, commit, acknowledge. A call
may fail at any of these points but in the middle of a commit. `version` counts the commits
to a root, `commits` is the history.

### Identity

`load_or_create`, one system call per step: two `exists`, then either reads of both
files or creation of the key (exclusively), of the certificate (exclusively), and
the removal of the key if the latter fails. Files exist before they are whole. A
process may crash between any two steps, and a call may fail: `exists` by answering
no, a write by leaving its file in part or as a whole. `torn` keeps the steps that
change a file and have failed.

### Resolution

Inodes, so that a descriptor stays with a directory that is moved. `at` is the
directory the walk has reached. Other processes rename onto free and occupied names,
remove, and put links in place. `known` is a history, what has been in the root's
tree at some moment; `strayed` another: a name was looked up in a directory that was no
longer in that tree.

## Runs

| Run | Shows |
|---|---|
| `planner` | Under all interleavings, failing producers and a consumer that hangs up: the plan is ordered (`PlanOrdered`), holds nothing but the difference (`OnlyTheDifference`), is streamed and complete on success (`NothingHeldBack`), and ends, with a failure only if a neighbour failed (`PlanEnds`) |
| `commit` | Between every pair of trees, up to three attempts, staged in any order, one of them interrupted: directories are settled last (`SettledLast`), ignored entries are preserved (`IgnoredPreserved`), every path is old or new and a file is replaced in one step (`OldOrNew`), a commit that succeeds leaves the source's tree (`Converged`), a second one leaves it exactly (`SecondSyncExact`), and a call fails only where something ignored is in the way or in a read-only directory whose mode no attempt has ever written (`BlockedOnly`) |
| `scan` | What is sent is always the beginning of the listing that the ignore files, asked as the code asks them, imply, in order (`BeginsListing`); `End` means all of it, and where taking the scope off twice changes no answer, that is what each file says from its directory on (`AppliesFromItsDirectory`); a scan fails for a cause only, and ends |
| `identity` | All commands that succeed have the same identity; it stays, unless writing its certificate failed; races, and files that cannot be opened, leave both files or none |
| `flow` | Transfers hold at most their windows, which leaves a share free where a frame fits into one; unread index records never block the transfers they wait for |
| `daemon` | Commits of a source are in the order of its attempts, each once, from a fresh listing, for an authorized peer; the daemon is back at its accept again and again, whatever stale and duplicated flights it has to go through |
| `resolution` | No link diverts a walk: unless the directory it is in is itself moved out of the root's tree, what is changed or read has been in that tree; only regular files are read |
| `session` | The staging barrier, the meaning of success, the early-data gate, the control order, termination, success without faults, refinement of `Attempt` |
| `transfer` | No truncated file is accepted, no temporary file is without an owner, tasks return and threads stop, and without faults the chain never blocks itself |
| `codec` | Messages arrive in order and unchanged in pieces of any size; of any bytes, what is accepted is the only encoding of what is returned; at most a frame is buffered |
| `exclusions`, `close` | what the repository says and the code does not do; see Findings |

**Bounds.**

* `planner`: an entry that may be a directory with a child and a second entry, two
  versions of each on the destination side, channel capacity 1, the smallest, where
  waiting is most frequent. Equal, changed, retyped, missing and extra entries all
  meet, also below a retyped directory.
* `commit`: four paths three levels deep and a protected name, with every
  combination of kinds, so a directory with a subtree meets a file, a link, nothing
  or another directory, followed by a sibling that must come after the whole
  subtree; four sets of rules, among them one for directories only and one for
  files only; three attempts (one interrupted, one that repairs, one that finds
  nothing to do).
* `scan`: two directories side by side, so that the rules of the first could leak
  into the second; below the first one a directory of the same name and one whose
  name begins with it, where the second stripping shows; one that is too deep for
  the limits (3 components, 6 bytes); ignore files that ignore, re-include, are invalid or are links; a channel of 2.
* `identity`: three commands and three keys, interchangeable (symmetry): one that
  creates, one that races it, one that comes later.
* `flow`: every combination of frame 1 or 2, one or two transfers and a window of 1
  to 5; 11 records, more than window and channels hold.
* `daemon`: two clients of which one makes two attempts, two roots, each flight
  arriving up to twice, one crash.
* `resolution`: three directories, a link, a pipe, two files, two changes: one to
  divert the walk and one to hide it.
* `session`: four files and a local operation; the source serves 2 files at a time,
  the destination requests 3, and the index window is 1, so every limit is reached.
* `transfer`: 7 chunks and 6 pieces of signature, more than the queues of 2 (as in
  the code) and the window of 2 hold together, so that either chain fills.
* `codec`: three messages per stream out of a set with a frame of exactly the
  limit, one that only the transport refuses, one that the encoder refuses, paths
  at and beyond both limits, and chunks that look like frames; pieces of up to half
  a frame limit. Other bytes: all fields of short frames over zero, one, two and a
  continuation byte, with canonical, padded, overflowing and endless lengths.

`MaxAttempts`, `MaxFaults`, `Attempts`, `MaxArrivals`, `MaxCrashes`, `MaxChanges` and
`MaxSent` are the only artificial bounds; the rest are the program's own limits. Runs
whose system may stop say `CHECK_DEADLOCK FALSE`: a scan that is over, clients with no
attempts left, a resolved path, an idle connection, commands that have ended.

**Fairness.** `Planner`: weak fairness of the two producers sending, of the planner's own
steps, which include reporting a channel that is closed, and of the consumer taking,
which `try_join!` polls until each is done; no producer is taken to fail and no
consumer to hang up. `Scanner`: weak fairness of the worker, a blocking thread, and of
the reader, unless it hangs up. `Session`: weak fairness of the connection's, the
source's and the destination's steps, each taken as a whole; Tokio polls a future
that can move, and QUIC either delivers or, through keep-alive and idle timeout,
reports the loss. `Transfer`: weak fairness of either task, which Tokio polls, and of
either thread, which the system schedules. `FlowControl`: weak fairness of sending, of
either reader and of the transfers; quinn serves streams that can send. `Daemon`: weak
fairness of accepting, of the steps of the attempt that is served (what makes them
possible is `Session`'s subject), and of the failure of a call on whose connection
nobody speaks, which is the idle timeout. A peer that is there keeps its connection
alive (`transport/quic.rs:42`), so the timeout ends no other call, and how long a client
waits is not bounded. Nothing says that a process gives up or that a crashed daemon is
started again. Other faults, crashes and hang-ups are never fair; `Commit`, `Codec`,
`Identity` and `Resolution` state no fairness and no liveness.

## Proofs

All theorems hold for every value of the constants that satisfies the named
assumptions of the modules. The invariants were checked with TLC on the instances
before they were proved.

`SessionProofs`, from `SessionAssumption` (limits and index lengths are positive, the
plan refers to index messages that exist):

* `TypesHold`: the type invariant, capacities of the channels included. It is
  inductive together with `HandInv`: a file in hand is the last one taken.
* `BarrierHolds`: `StagingBarrier`. It speaks of the time after the commit has
  begun, and what makes it true lies before it. `BarrierInv` therefore says that
  an ended plan was read and emitted completely (`PlanInv`), that the files with
  a transfer are those taken and not in hand (`RequestedInv`), that joined
  transfers are staged (`JoinedInv`), and that the destination's phase and the
  state of the tree go together (`PhaseInv`).
* `SuccessHolds` and `ControlHolds`: `SuccessMeansCommitted` and
  `ControlExpected`, from `ControlInv`: as long as the source reads the control
  stream, the unread messages are those that follow the ones it has received,
  and the number sent is determined by the phases; the third is sent only of a
  committed tree.
* `GateHolds`: `OnlyNotificationEarly`, from `GateInv`: the source's handshake is
  complete only when early data is decided; until then, and if it is refused, no
  transfer is past being requested; and a destination that is not confirmed has
  not begun to plan, so it has emitted nothing and holds no file.
* `PromiseHolds`: `Session` implements `Attempt`, step by step under the
  conjunction of these invariants.

`TransferProofs`, from `TransferAssumption` (sizes are naturals, queue and window positive):

* `TypesHold`: the type invariant, with the bound of every queue.
* `WholeHolds`: `WholeOrNothing`. That a destination which succeeded has written
  everything follows from what the other side did long before: `SourceInv` says
  that `TransferEnd` is only sent after a worker that ended well and with all its
  chunks sent, `DestinationInv` that an end seen is an end sent with all before it
  received, and that a worker is done only when it has written what the transfer
  has; `CountsInv` keeps the counters in order.
* `OwnedHolds`: `TempOwned`, from `TempInv`, which gives the file's state for every
  position of task and thread.
* `ShareKept`: `ShareIsKept` of `FlowControl`, from `FlowAssumption` (limits that pass
  `Limits::validate`): the bound by the windows for all of them, the free share for
  those with a frame that fits into one, which the defaults are not. `WindowInv`, no stream has more unread than its window, is
  inductive; the property is a sum over all transfers. The library's sum removes
  the elements of a set one at a time, in an order `CHOOSE` gives: a least
  counterexample shows that this recursion has a solution on every finite set
  (`SumExists`) and is at most the number of terms times their bound (`SumBound`). What is left is
  that the rounded share, as often as there are transfers and once more, fits.

`PlannerProofs`, for sorted indexes of any length and every capacity: `PlansInOrder`
(`PlanOrdered`), `SendsOnlyTheDifference` (`OnlyTheDifference`), `HoldsNothingBack`
(`NothingHeldBack`), and `PlanIsTheDifference`: a plan that ends well is exactly the
difference. The path order is shown to be a strict total order. Each input is cut
where the planner has got to. Between two pairs the indexes are apart at the cuts:
whatever is behind one comes before whatever is ahead of the other, so the smaller
lookahead is the least path not dealt with and comparing the two decides what the
difference says of it. What is behind the cuts is settled, and what was sent lies
behind them. No induction over the indexes is needed: it is the induction over the
planner's steps.

`CommitProofs`, for every finite `Universe` that holds the ancestors of its paths
(`UniverseAssumption`) and all trees over it in which entries lie in directories and
that are normal (`TreesAssumption`: POSIX gives a link mode 0777, and a directory has
no content), any rules, any number of attempts and interruptions:

* `SettlesLast` (`SettledLast`). The ids of a finite plan go up with its order, so the least
  id among the operations left is the first path (`PlanOrder`, `NextIsFirst`), in whatever
  order they were staged. What lies below a directory is contiguous in path order;
  directories on the stack come no later than what is left. So when the first
  operation left is not below the top of the stack, none is.
* `SparesIgnored` (`IgnoredPreserved`). Each call is justified by the plan: it removes
  something the destination listed or installs something the source listed. What
  is left out can be in the way of such a path only where a directory meets
  something else, and there the call fails. The one call that does not look at what
  is there, setting the time of a link, directly follows the call that made the link.
* `NeverHalfWritten` (`OldOrNew`), `Converges` (`Converged`), `SecondIsExact`
  (`SecondSyncExact`) and `FailsOnlyBlocked` (`BlockedOnly`). `CourseInv` keeps an account of
  what is left of an attempt, the operations not applied and the calls not made
  (`Remaining`). `Progress` says of every record the destination lacks that it is due or
  written for good, of every entry that has to go that it is due or gone, of what both
  sides list that it is there but for directory times, and that a directory of the
  source is there or not yet opened. A call keeps the account because of its place
  in the order (`HeadLast`, from the shape of the stack in `StackOK`): at its path only
  what replaces what it removes is left, and nothing at all is left below a directory
  that is settled, so no later call disturbs its time. When nothing is left the
  account is convergence. A call fails only for cause because the account says that
  what it needs is in place, unless it is something the destination leaves out. Since
  a fresh attempt establishes the account from any tree, where the earlier ones
  stopped does not matter. That a directory which is in the way because it is not
  writable was never written by an attempt takes one more invariant, `SealedInv`: a
  directory whose mode an attempt has written is writable, or what is in it is what the
  source has (`Sealed`) and nothing that is left adds or removes a name in it (`Calm`),
  in this attempt or in any later one. The error "operations are not in canonical discovery order"
  is excluded by the same property: a failed commit has a call that failed. If the listings agreed but for directory times when the attempt began,
  only directories are settled (`Settling`), which is why the second sync is exact.

`ScannerProofs`: four theorems about every tree whose entries lie in directories
(`ScannerAssumption`), any rules, limits and capacity.

* `ScanOrdered` (`CanonicalOrder`). Everything sent lies before everything that an
  active call of `scan_directory` has left; the calls are nested (`NestedInv`), so the
  rest of an outer call follows the directory the inner one is in.
* `ScanBeginsListing` (`BeginsListing`) and `ScanFailsForCause` (`FailsForCause`), from
  `WalkInv`, which says where a scan is. Whatever is listed was sent or is ahead: at or
  below an entry that an active call has left, or below the directory being entered
  (`CoverInv`). Every directory that is visited is ahead, or its ignore file was valid and
  each of its entries is acceptable or ahead (`CheckedInv`); this is why success excludes
  an entry that cannot be indexed. `RulesInv` ties the stack of rule sets to the stack of
  calls: they are the exclusions and the ignore files of the calls, without gaps and in
  the order of depth, and each call's checkpoint separates the rules found above it from
  its own, so `restore` removes exactly the latter. The core is `RulesDecide`: under
  `RulesInv` the loop of `decision`, the last match of the last rule set that matches,
  answers as the reference `LeftOut`, which is stated on the tree alone. The loop is a
  recursive function; `LoopIsLast` shows by a least counterexample that it is the closed
  form "the last rule set that matches ignores".
* `FilesApply` (`AppliesFromItsDirectory`). `DeepestDecides` puts the reference in terms of
  the answers at each depth; where the crate's question and the path from the
  directory on have the same answer at every depth, both leave out the same paths.

`CodecProofs`, for every radix that holds the tags, width of a varint, limit and buffer size, all messages
of the protocol's layouts and every stream of bytes (`CodecAssumption`,
`MessagesAssumption`):

* `CodecTyped`: the type invariant, with the bounds of header and payload.
* `CodecReassembled`: `Reassembled`. Whatever pieces a stream arrives in, the reader
  returns what was sent.
* `CodecCanonical`: `Canonical`, of bytes that anybody may have written.

`CodecInv` is inductive: the frames of all messages decoded, then header, payload and
input of the decoder, then what is on its way, are what was written (`Accounted`);
a header is the beginning of a length, or the one the payload has (`Decoding`); what was
written by the encoder is decoded in order (`InOrder`). A step of the decoder keeps it
because of two facts about every level of the format, from varints to frames: what a reader
accepts is what the writer makes of the value (`ParseInv`, `PathInv`, `FieldInv`, `FieldsInv`,
`PayloadInv`), and what the writer makes is read as that value, whatever follows it
(`ParsePut`, `PathPut`, `FieldPut`, `FieldsPut`, `PayloadPut`). Kinds with two layouts need a third:
the wrong layout refuses (`TwoLayouts`). The reading and writing functions are
recursive. That each is what its definition says, and what it computes for every
input, is shown by a least counterexample among the numbers (`LeastNumber`), which needs no
induction theorem with an operator as parameter.

The assumptions are the program's: a length that may occur fits a `u64`, which in the
code is the type of lengths; a byte holds the tags; a path of a message is one
`RelativePath::new` admits. TLC evaluates them on the instance.

`DaemonProofs`: `TypeCorrect`, `AttemptsOrdered`, `PlansFresh`, `OnlyAuthorized`, for any
number of clients, copies of flights and crashes. A client completes the handshake
of an attempt once and then no longer dials it, which ties an attempt to one call.
And about `Identity`, which every command loads or creates first: `IdentityTyped`,
`IdentityUnique`, `IdentityStays`, `PairComplete`. The certificate is
never removed and never changes the key it was made for, and whoever returns an
identity has seen it (`CertificateInv`); as long as writing a certificate has
not failed, the key that a creation removes is its own, and its creator is alone with it
until the certificate is there (`KeyInv`).

`ResolutionProofs`: `StaysConfined` and `ReadsConfined`. As long as a walk has looked up
names only in directories that were then in the root's tree, what it has found there was
in that tree as well, since it follows no link, and is in `known` for good.

Only model-checked: the liveness properties (`PlanEnds`, `ScanEnds`, `AttemptEnds`,
`SyncCompletes`, `TransferStops`, `TransferCompletes`, `FlowCompletes`,
`KeepsAccepting`), since the prover does not handle fairness and ENABLED. Every other
property of a passing run is a theorem. The lemmas on path order are stated in both
`PlannerProofs` and `CommitProofs`, those on least numbers in `TransferProofs` and
`CodecProofs`.

## Findings

1. `exclusions`: the source's `global_exclusions` are applied by the source only
   (`sync/source.rs:48`, `sync/destination.rs:71`), so a path they cover that exists on
   both sides is deleted at the destination; `filesystem/ignore.rs:22` says it "must
   be left alone". `src/docs/architecture.md:61` adds that results are undefined
   if the two policies differ; they do whenever the source configures an exclusion.
2. `close`: the source's close may overtake the stream end it has flushed
   (`transport/quic.rs:627`). The source reports success, the destination a
   failure, of the same committed tree.

Four observations that have no run of their own:

* The rules of a nested ignore file do not always apply from its directory.
  `build_matcher` (`filesystem/ignore.rs:131`) makes the directory the root of the
  matcher and `scoped_path` (`:159`) takes it off the path as well, so the crate finds
  it a second time where a directory has the same name as the one above, or one that
  begins with it: the rule `/x` of `a/.gitignore` leaves out `a/a/x`, and its rule `/a/x`
  does not. The test `nested_gitignore_files_apply_from_their_directory`
  (`src/crates/quicsync-core/tests/filesystem_ignore.rs:75`) has no such names.
  `AppliesFromItsDirectory` excepts these trees by `Misled`, and fails without it.
* `transport/quic.rs:97` says that saturated transfers cannot starve control. With the
  default limits (`config.rs:38`) a stream's share is 64 MiB / 5 = 12.8 MiB and a frame
  16 MiB; the window of a stream is at least a frame, and four transfers that are not
  read use up the window of the connection. `Limits::validate` does not compare the two.
  `ShareIsKept` therefore promises the free share only where a frame fits into one.
  With a frame as large as the window transfers and index can block each other for
  good, which `FlowCompletes` excludes by its premise.
* `filesystem/paths.rs:9` says that every ancestor must still be a real directory beneath
  the root. The walk checks each one when it opens it; a directory that is moved out of
  the root afterwards takes the walk along. `Confined` and `ReadsInside` except that case
  by `strayed`; without it `ReadsInside` fails on the instance, `Confined` only on trees
  with a further directory outside.
* A directory with equal records has no operation, and changes below it touch its
  modification time (`sync/commit.rs:109,138`), which `src/docs/architecture.md:48`
  says is preserved. `Converged` leaves directory times out for that reason, and
  `SecondSyncExact` shows that the next sync repairs them.

## Not modelled

* The size a directory's record carries (`filesystem/metadata.rs:48` records `st_size` for
  every kind, and the planner compares records whole). It is a property of the file
  system and its history, not of the tree, and nothing sets it; the model gives
  every directory the same one. Where two file systems disagree on it, the directory
  is planned and settled by every sync, with no effect on what is below it, and the
  listings of `Converged` and `SecondSyncExact` are equal but for this number.
* Ignore files that differ. Each side reads its own, and they are synced like other
  files, so the two sides may hold different ones during the sync that brings them
  into line. `Commit` has one `rules` for both sides, the case
  `src/docs/architecture.md:61` defines.
* A planner that fails closes the operation channel before `try_join!` drops the other
  futures (`sync/destination.rs:89-94`). `Session` has both as one `DestinationFault`;
  `StagingBarrier` demands the whole plan in either case.
* In `Codec` the check that strings are UTF-8 (`protocol/codec.rs:521`), and the width
  of a failure's code (a `u16`, there a tag of one byte).
* Contents: a file is one value, or a number of chunks; librsync, the globs of the
  crate `ignore`, UTF-8, DER, signatures, TLS and QUIC's packets are libraries, taken
  by what they promise.
* Reading TOML and checking owners and permissions of configuration files happens
  once at start and changes no state. Errors are outcomes; their codes and wording
  are left out.
* `decode_relative_path`, `filesystem_identity` and `Authorizer` are called by tests only.
* Power loss: the order in which the kernel makes writes durable (`auth.rs:646`
  syncs the identity's files but not their directory; staged files are not synced). A
  crash here is the end of a process.
* Temporary files that a crash leaves in `.quicsync` (`filesystem/staging.rs:119`): no
  code removes them, and no later attempt looks at them.
* The root is opened again for the commit (`sync/destination.rs:134`); a root that is
  replaced by another directory between scan and commit is outside the program's
  contract, as is any change of either tree by others during an attempt, but for
  what `Resolution` shows of the walk itself.
* Permission errors during resolution end in the same outcome as other errors.
* Very small limits: the chunk size is the frame limit minus 32, and a limit that
  leaves nothing is an error of every transfer (`sync/transfer.rs:278`). That codec and
  transport count the header differently (`transport/quic.rs:820`) shows in `Codec` as
  a message the encoder makes and `Send` refuses.
* A restarted daemon has lost its TLS cache and refuses early data, which
  fails the client's attempt, as `src/docs/architecture.md:171` says. `Daemon` has the
  cache, but no property is about it.
