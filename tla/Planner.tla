------------------------------ MODULE Planner ------------------------------
(***************************************************************************)
(* The incremental merge planner (sync/planner.rs, `plan`) between its two *)
(* index producers and the consumer of operations (sync/destination.rs).   *)
(*                                                                         *)
(* The three mpsc channels are bounded by Capacity.  A channel is what was *)
(* put into it and how much was taken out.  A producer may stop before End *)
(* (an `Err` in the channel, or a dropped sender: both make `read` fail    *)
(* once the earlier messages are read), and the consumer may drop its      *)
(* receiver.                                                               *)
(***************************************************************************)
EXTENDS Operations

CONSTANTS
    SourceIndexes,       \* the indexes the source may stream
    DestinationIndexes,  \* the indexes the local scan may stream
    Capacity             \* max_parallel_transfers, the channels' capacity

ASSUME IndexesAssumption ==
    \A s \in SourceIndexes \cup DestinationIndexes : Index(s)

ASSUME CapacityAssumption == Capacity \in Nat \ {0}

VARIABLES
    source, destination,       \* the two indexes, without their End
    srcSent, dstSent,          \* messages put into each channel, End included
    srcRead, dstRead,          \* messages the planner has received
    srcOpen, dstOpen,          \* the producer has not failed
    left, right,               \* the lookahead of each input
    a, b,                      \* the pair under comparison
    consumeSource, consumeDestination,
    pc,                        \* where `plan` is
    nextId,                    \* the next OperationId
    output,                    \* every operation sent, ids included
    taken,                     \* how many the consumer has received
    consumerOpen               \* the consumer holds its receiver

channels == <<srcSent, dstSent, srcOpen, dstOpen, taken, consumerOpen>>
merging == <<left, right, a, b, consumeSource, consumeDestination>>
reading == <<srcRead, dstRead>>
planned == <<nextId, output>>
vars == <<source, destination, channels, reading, merging, pc, planned>>

Running == pc \notin {"done", "failed"}

Init ==
    /\ source \in SourceIndexes
    /\ destination \in DestinationIndexes
    /\ srcSent = 0 /\ dstSent = 0
    /\ srcRead = 0 /\ dstRead = 0
    /\ srcOpen = TRUE /\ dstOpen = TRUE
    /\ left = NoRecord /\ right = NoRecord
    /\ a = NoRecord /\ b = NoRecord
    /\ consumeSource = TRUE /\ consumeDestination = TRUE
    /\ pc = "readLeft"
    /\ nextId = 0
    /\ output = <<>>
    /\ taken = 0
    /\ consumerOpen = TRUE

-----------------------------------------------------------------------------
(***************************************************************************)
(* The producers: scan_root for the destination, the index stream's reader *)
(* for the source.  The message after the last record is End.              *)
(***************************************************************************)
SourceSends ==
    /\ Running /\ srcOpen
    /\ srcSent <= Len(source)
    /\ srcSent - srcRead < Capacity
    /\ srcSent' = srcSent + 1
    /\ UNCHANGED <<source, destination, dstSent, srcOpen, dstOpen, taken,
                   consumerOpen, reading, merging, pc, planned>>

DestinationSends ==
    /\ Running /\ dstOpen
    /\ dstSent <= Len(destination)
    /\ dstSent - dstRead < Capacity
    /\ dstSent' = dstSent + 1
    /\ UNCHANGED <<source, destination, srcSent, srcOpen, dstOpen, taken,
                   consumerOpen, reading, merging, pc, planned>>

SourceFails ==
    /\ Running /\ srcOpen
    /\ srcSent <= Len(source)
    /\ srcOpen' = FALSE
    /\ UNCHANGED <<source, destination, srcSent, dstSent, dstOpen, taken,
                   consumerOpen, reading, merging, pc, planned>>

DestinationFails ==
    /\ Running /\ dstOpen
    /\ dstSent <= Len(destination)
    /\ dstOpen' = FALSE
    /\ UNCHANGED <<source, destination, srcSent, dstSent, srcOpen, taken,
                   consumerOpen, reading, merging, pc, planned>>

-----------------------------------------------------------------------------
(***************************************************************************)
(* The consumer: `requesting` receives operations until the channel is     *)
(* empty and its sender is gone, or gives up and drops the receiver.       *)
(***************************************************************************)
ConsumerTakes ==
    /\ consumerOpen
    /\ taken < Len(output)
    /\ taken' = taken + 1
    /\ UNCHANGED <<source, destination, srcSent, dstSent, srcOpen, dstOpen,
                   consumerOpen, reading, merging, pc, planned>>

ConsumerCloses ==
    /\ Running /\ consumerOpen
    /\ consumerOpen' = FALSE
    /\ UNCHANGED <<source, destination, srcSent, dstSent, srcOpen, dstOpen,
                   taken, reading, merging, pc, planned>>

-----------------------------------------------------------------------------
(***************************************************************************)
(* The planner.  The two reads before the loop are the reads at the end of *)
(* an iteration that consumed both inputs, so they share these actions.    *)
(***************************************************************************)
Message(index, n) == IF n <= Len(index) THEN index[n] ELSE NoRecord

\* A dropped producer or an error is never End.
Lost(open, sent, count) == ~open /\ count = sent

\* After the pair is dealt with: which input is read next.
NextRead(fromSource) == IF fromSource THEN "readLeft" ELSE "readRight"

\* Mutant: a closed channel reads as End (`recv()` returning None).
ReadSourceClosedIsEnd ==
    /\ pc = "readLeft"
    /\ srcRead < srcSent \/ ~srcOpen
    /\ srcRead' = IF srcRead < srcSent THEN srcRead + 1 ELSE srcRead
    /\ left' = IF srcRead < srcSent THEN Message(source, srcRead + 1) ELSE NoRecord
    /\ pc' = IF consumeDestination THEN "readRight" ELSE "merge"
    /\ UNCHANGED <<source, destination, channels, dstRead, right, a, b,
                   consumeSource, consumeDestination, planned>>

ReadSource ==
    /\ pc = "readLeft"
    /\ srcRead < srcSent
    /\ srcRead' = srcRead + 1
    /\ left' = Message(source, srcRead + 1)
    /\ pc' = IF consumeDestination THEN "readRight" ELSE "merge"
    /\ UNCHANGED <<source, destination, channels, dstRead, right, a, b,
                   consumeSource, consumeDestination, planned>>

ReadDestination ==
    /\ pc = "readRight"
    /\ dstRead < dstSent
    /\ dstRead' = dstRead + 1
    /\ right' = Message(destination, dstRead + 1)
    /\ pc' = "merge"
    /\ UNCHANGED <<source, destination, channels, srcRead, left, a, b,
                   consumeSource, consumeDestination, planned>>

ReadFails ==
    /\ \/ pc = "readLeft" /\ Lost(srcOpen, srcSent, srcRead)
       \/ pc = "readRight" /\ Lost(dstOpen, dstSent, dstRead)
    /\ pc' = "failed"
    /\ UNCHANGED <<source, destination, channels, reading, merging, planned>>

(***************************************************************************)
(* Pick the smaller lookahead, or both when the paths agree, and compare.  *)
(***************************************************************************)
TakeSource ==
    left # NoRecord /\ (right = NoRecord \/ AtOrBefore(left.path, right.path))

TakeDestination ==
    right # NoRecord /\ (left = NoRecord \/ AtOrBefore(right.path, left.path))

\* Mutant: only extra entries are deleted, a retyped one is left in place.
AfterMergeKeepsRetyped(x, y) ==
    CASE x = y                                -> NextRead(TakeSource)
      [] y # NoRecord /\ x = NoRecord         -> "delete"
      [] OTHER                                -> "upsert"

\* b is removed first when nothing of its kind takes its place.
AfterMerge(x, y) ==
    CASE x = y                                -> NextRead(TakeSource)
      [] y # NoRecord /\ x.kind # y.kind      -> "delete"
      [] OTHER                                -> "upsert"

Merge ==
    /\ pc = "merge"
    /\ left # NoRecord \/ right # NoRecord
    /\ consumeSource' = TakeSource
    /\ consumeDestination' = TakeDestination
    /\ a' = IF TakeSource THEN left ELSE NoRecord
    /\ b' = IF TakeDestination THEN right ELSE NoRecord
    /\ left' = IF TakeSource THEN NoRecord ELSE left
    /\ right' = IF TakeDestination THEN NoRecord ELSE right
    /\ pc' = AfterMerge(a', b')
    /\ UNCHANGED <<source, destination, channels, reading, planned>>

Finish ==
    /\ pc = "merge"
    /\ left = NoRecord /\ right = NoRecord
    /\ pc' = "done"
    /\ UNCHANGED <<source, destination, channels, reading, merging, planned>>

\* A bounded send: it waits for room while the consumer holds the receiver.
CanSend == consumerOpen /\ Len(output) - taken < Capacity

\* Mutant: the id counter is not advanced.
SendSameId(o) ==
    /\ output' = Append(output, [id |-> nextId, operation |-> o])
    /\ nextId' = nextId

Send(o) ==
    /\ output' = Append(output, [id |-> nextId, operation |-> o])
    /\ nextId' = nextId + 1

SendDelete ==
    /\ pc = "delete"
    /\ CanSend
    /\ Send(Delete(b))
    /\ pc' = IF a # NoRecord THEN "upsert" ELSE NextRead(consumeSource)
    /\ UNCHANGED <<source, destination, channels, reading, merging>>

SendUpsert ==
    /\ pc = "upsert"
    /\ CanSend
    /\ Send(Upsert(a, b.kind = "file"))
    /\ pc' = NextRead(consumeSource)
    /\ UNCHANGED <<source, destination, channels, reading, merging>>

\* Mutant: a send refused by a closed channel is tried again.
SendRetries ==
    /\ pc \in {"delete", "upsert"}
    /\ ~consumerOpen
    /\ UNCHANGED vars

SendFails ==
    /\ pc \in {"delete", "upsert"}
    /\ ~consumerOpen
    /\ pc' = "failed"
    /\ UNCHANGED <<source, destination, channels, reading, merging, planned>>

-----------------------------------------------------------------------------
Producing ==
    SourceSends \/ DestinationSends \/ SourceFails \/ DestinationFails

Consuming == ConsumerTakes \/ ConsumerCloses

Planning ==
    \/ ReadSource \/ ReadDestination \/ ReadFails
    \/ Merge \/ Finish
    \/ SendDelete \/ SendUpsert \/ SendFails

\* The plan is over and everything sent was received or discarded.
Ended ==
    /\ ~Running
    /\ consumerOpen => taken = Len(output)
    /\ UNCHANGED vars

Next == Producing \/ Consuming \/ Planning \/ Ended

(***************************************************************************)
(* try_join! polls the producers, the planner and the consumer until each  *)
(* is done: none of them is left unscheduled while it can move on.  Moving *)
(* on is sending, receiving and planning; a failing scan and a consumer    *)
(* that hangs up may happen at any time and never have to.                 *)
(***************************************************************************)
Fairness ==
    /\ WF_vars(SourceSends)
    /\ WF_vars(DestinationSends)
    /\ WF_vars(ConsumerTakes)
    /\ WF_vars(Planning)

Spec == Init /\ [][Next]_vars /\ Fairness

-----------------------------------------------------------------------------
(***************************************************************************)
(* Properties.                                                             *)
(***************************************************************************)

\* The order the committer relies on (`apply` refuses anything else, and
\* PendingCommit sorts by id): ids count up from 0 along the plan, paths never
\* go back, and two operations share a path only as a Delete directly followed
\* by the upsert that replaces what it removed.
PlanOrdered ==
    /\ \A i \in 1..Len(output) : output[i].id = i - 1
    /\ \A i, j \in 1..Len(output) :
          i < j => \/ Before(PathOf(output[i]), PathOf(output[j]))
                   \/ /\ PathOf(output[i]) = PathOf(output[j])
                      /\ j = i + 1
                      /\ output[i].operation.op = "Delete"
                      /\ output[j].operation.op # "Delete"

Records(index) == {index[i] : i \in 1..Len(index)}

Emitted == {output[i].operation : i \in 1..Len(output)}

\* At every moment, however the inputs are interleaved or cut, `plan` has sent
\* only operations of the difference of the two whole indexes: a dropped
\* producer is never taken for the end of its tree.
OnlyTheDifference == Emitted \subseteq Difference(Records(source), Records(destination))

\* The plan is streamed: with one lookahead per input, nothing of the
\* difference that lies before both lookaheads is still unsent.  Once `plan`
\* has returned Ok nothing of the difference is missing.
NothingHeldBack ==
    pc \in {"merge", "done"} =>
        \A o \in Difference(Records(source), Records(destination)) :
            (/\ \A i \in srcRead..Len(source) :
                   i > 0 => Before(o.record.path, source[i].path)
             /\ \A i \in dstRead..Len(destination) :
                   i > 0 => Before(o.record.path, destination[i].path))
            => o \in Emitted

\* With every side scheduled and no side obliged to fail, bounded channels and
\* a one-record lookahead never leave producers, planner and consumer waiting
\* on one another, and `plan` fails only because a neighbour did.
PlanEnds ==
    <>(pc = "done" \/ (pc = "failed" /\ ~(srcOpen /\ dstOpen /\ consumerOpen)))

=============================================================================
