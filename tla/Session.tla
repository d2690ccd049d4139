------------------------------ MODULE Session ------------------------------
(***************************************************************************)
(* One sync attempt between a source (sync/source.rs) and a destination    *)
(* (sync/destination.rs) over one QUIC connection (transport/quic.rs).     *)
(*                                                                         *)
(* Each side runs several futures concurrently.  The source scans, sends   *)
(* its index, and serves transfers while it follows the control stream.    *)
(* The destination scans, reads the index, plans, and requests transfers;  *)
(* only when all of that has succeeded does it commit, acknowledge and     *)
(* wait for the source to close.  The streams of a connection are not      *)
(* ordered among each other: the control stream, the index stream and      *)
(* every transfer are separate pieces of state here.                       *)
(*                                                                         *)
(* What the indexes hold is module Planner's business.  Here an index is a *)
(* number of messages, the last of them End, and the plan is a sequence of *)
(* operations, each with the number of messages of either index that must  *)
(* be read before it can be emitted.                                       *)
(***************************************************************************)
EXTENDS Integers, Sequences, FiniteSets

CONSTANTS
    Plan,               \* the operations: [kind, source, local]
    SourceMessages,     \* length of the source index, its End included
    LocalMessages,      \* length of the destination index, its End included
    SourceLimit,        \* max_parallel_transfers of the source
    DestinationLimit,   \* max_parallel_transfers of the destination
    IndexWindow,        \* index messages in flight on the wire
    Early               \* the source has a ticket and sends StartSync as 0-RTT

ASSUME SessionAssumption ==
    /\ SourceMessages \in Nat \ {0} /\ LocalMessages \in Nat \ {0}
    /\ SourceLimit \in Nat \ {0} /\ DestinationLimit \in Nat \ {0}
    /\ IndexWindow \in Nat \ {0}
    /\ Plan \in Seq([kind : {"file", "local"},
                     source : 1..SourceMessages, local : 1..LocalMessages])
    /\ Early \in BOOLEAN

Operations == 1..Len(Plan)

Files == {k \in Operations : Plan[k].kind = "file"}

VARIABLES
    faulty,         \* local errors, crashes or loss of the network may happen
    \* Connection
    earlyData,      \* "undecided", "accepted" or "rejected" by the server
    srcConfirmed, dstConfirmed,  \* each side's handshake is complete
    lost,           \* the network is gone
    srcCut, dstCut, \* the side knows the connection is over: session.cancel fired
    \* Source
    src,            \* "start", "running", "draining", "closing", "ok", "failed"
    scanned,        \* messages its scan has put into the channel
    indexSent,      \* messages written to the index stream
    accepted, planned,
    srcJoined,      \* transfers whose job the source has joined
    \* Control stream
    notified,       \* StartSync was written
    finished,       \* the source's side is finished (FIN)
    control,        \* messages from destination to source, unread
    \* Destination
    dst,            \* "waiting", "running", "committing", "acking", "closing", "ok", "failed"
    planning,       \* "confirm", "plan" or "end"
    localScanned, localRead,
    indexRead,      \* index messages taken from the stream into the channel
    planRead,       \* of those, read by the planner
    emitted,        \* operations sent by the planner
    taken,          \* operations received by `requesting`
    inHand,         \* the last one is a file waiting for a free job
    dstJoined,      \* transfers staged in PendingCommit
    live,           \* "old", "partial" or "new"
    \* Transfer streams
    transfer        \* per file, how far its transfer is

connection == <<faulty, earlyData, srcConfirmed, dstConfirmed, lost, srcCut, dstCut>>
sourceIndex == <<scanned, indexSent>>
serving == <<accepted, planned, srcJoined>>
sourceControl == <<notified, finished>>
destinationIndex == <<localScanned, localRead, indexRead, planRead>>
requesting == <<taken, inHand, dstJoined>>
sourceSide == <<src, sourceIndex, serving, sourceControl>>
planner == <<planning, destinationIndex, emitted>>
destinationSide == <<dst, planner, requesting, live>>
streams == <<control, transfer>>
vars == <<connection, sourceSide, destinationSide, streams>>

Init ==
    /\ faulty \in BOOLEAN
    /\ earlyData = IF Early THEN "undecided" ELSE "accepted"
    /\ srcConfirmed = ~Early
    /\ dstConfirmed = FALSE
    /\ lost = FALSE /\ srcCut = FALSE /\ dstCut = FALSE
    /\ src = "start"
    /\ scanned = 0 /\ indexSent = 0
    /\ accepted = FALSE /\ planned = FALSE
    /\ srcJoined = {}
    /\ notified = FALSE /\ finished = FALSE
    /\ control = <<>>
    /\ dst = "waiting"
    /\ planning = "confirm"
    /\ localScanned = 0 /\ localRead = 0 /\ indexRead = 0 /\ planRead = 0
    /\ emitted = 0 /\ taken = 0 /\ inHand = FALSE
    /\ dstJoined = {}
    /\ live = "old"
    /\ transfer = [k \in Files |-> "none"]

SrcEnded == src \in {"ok", "failed"}
DstEnded == dst \in {"ok", "failed"}

-----------------------------------------------------------------------------
(***************************************************************************)
(* The connection.  Both sides may use it before the handshake is done:    *)
(* the source with a ticket, the destination through accept_early.         *)
(***************************************************************************)
ServerDecides ==
    /\ earlyData = "undecided"
    /\ earlyData' \in {"accepted", "rejected"}
    /\ UNCHANGED <<faulty, srcConfirmed, dstConfirmed, lost, srcCut, dstCut,
                   sourceSide, destinationSide, streams>>

SourceHandshake ==
    /\ ~srcConfirmed /\ earlyData # "undecided"
    /\ srcConfirmed' = TRUE
    /\ UNCHANGED <<faulty, earlyData, dstConfirmed, lost, srcCut, dstCut,
                   sourceSide, destinationSide, streams>>

DestinationHandshake ==
    /\ ~dstConfirmed /\ srcConfirmed
    /\ dstConfirmed' = TRUE
    /\ UNCHANGED <<faulty, earlyData, srcConfirmed, lost, srcCut, dstCut,
                   sourceSide, destinationSide, streams>>

NetworkLost ==
    /\ faulty /\ ~lost
    /\ lost' = TRUE
    /\ UNCHANGED <<faulty, earlyData, srcConfirmed, dstConfirmed, srcCut, dstCut,
                   sourceSide, destinationSide, streams>>

(***************************************************************************)
(* The watcher of new_early: the peer's close, or its silence for the idle *)
(* timeout, cancels the session.  A side that has ended has closed the     *)
(* connection (cancel on an error, Drop otherwise).                        *)
(***************************************************************************)
\* Mutant: a close by the peer is not taken for the end of the session.
OverWhenLost == lost

OverForSource == lost \/ DstEnded

SourceNotices ==
    /\ ~srcCut /\ ~SrcEnded
    /\ OverForSource
    /\ srcCut' = TRUE
    /\ UNCHANGED <<faulty, earlyData, srcConfirmed, dstConfirmed, lost, dstCut,
                   sourceSide, destinationSide, streams>>

DestinationNotices ==
    /\ ~dstCut /\ ~DstEnded
    /\ lost \/ SrcEnded
    /\ dstCut' = TRUE
    /\ UNCHANGED <<faulty, earlyData, srcConfirmed, dstConfirmed, lost, srcCut,
                   sourceSide, destinationSide, streams>>

-----------------------------------------------------------------------------
(***************************************************************************)
(* The source.                                                             *)
(***************************************************************************)
SendStartSync ==
    /\ src = "start" /\ ~srcCut
    /\ src' = "running"
    /\ notified' = TRUE
    /\ UNCHANGED <<connection, sourceIndex, serving, finished, destinationSide,
                   streams>>

\* The bounded channel between scan and index stream.
ScanHasRoom == scanned - indexSent < SourceLimit

SourceScans ==
    /\ src = "running"
    /\ scanned < SourceMessages
    /\ ScanHasRoom
    /\ scanned' = scanned + 1
    /\ UNCHANGED <<connection, src, indexSent, serving, sourceControl,
                   destinationSide, streams>>

\* Mutant: the source does not wait for its handshake.
GateOpen == ~srcCut

\* confirm_handshake: past the handshake, and early data was not refused.
SourceGate == srcConfirmed /\ earlyData = "accepted" /\ ~srcCut

SendIndex ==
    /\ src = "running" /\ SourceGate
    /\ indexSent < scanned
    /\ indexSent - indexRead < IndexWindow
    /\ indexSent' = indexSent + 1
    /\ UNCHANGED <<connection, src, scanned, serving, sourceControl,
                   destinationSide, streams>>

\* The state machine of `serving`.
Expected(m) ==
    \/ m = "StartAccepted" /\ ~accepted
    \/ m = "PlanEnd" /\ accepted /\ ~planned
    \/ m = "CompleteAck" /\ planned

ReceiveControl ==
    /\ src = "running" /\ SourceGate
    /\ control # <<>>
    /\ control' = Tail(control)
    /\ LET m == Head(control)
       IN  /\ src' = CASE ~Expected(m) -> "failed"
                       [] Expected(m) /\ m = "CompleteAck" -> "draining"
                       [] OTHER -> "running"
           /\ accepted' = (accepted \/ m = "StartAccepted")
           /\ planned' = (planned \/ m = "PlanEnd")
    /\ UNCHANGED <<connection, sourceIndex, srcJoined, sourceControl,
                   destinationSide, transfer>>

SourceJobs ==
    {k \in Files : transfer[k] \in {"serving", "sent", "staged", "acked"}} \ srcJoined

MayAccept == Cardinality(SourceJobs) < SourceLimit

\* Streams are accepted in the order they were opened.
AcceptTransfer(k) ==
    /\ src = "running" /\ SourceGate
    /\ MayAccept
    /\ transfer[k] = "requested"
    /\ \A j \in Files : j < k => transfer[j] # "requested"
    /\ transfer' = [transfer EXCEPT ![k] = "serving"]
    /\ UNCHANGED <<connection, sourceSide, destinationSide, control>>

\* The jobs run in every state of the source until they are joined.
Serving == src \in {"running", "draining"} /\ ~srcCut

\* send_file: the content, then TransferEnd.
SendContent(k) ==
    /\ Serving
    /\ transfer[k] = "serving"
    /\ transfer' = [transfer EXCEPT ![k] = "sent"]
    /\ UNCHANGED <<connection, sourceSide, destinationSide, control>>

\* send_file returns on TransferAccepted.
ReceiveAccepted(k) ==
    /\ Serving
    /\ transfer[k] = "staged"
    /\ transfer' = [transfer EXCEPT ![k] = "acked"]
    /\ UNCHANGED <<connection, sourceSide, destinationSide, control>>

SourceJoins(k) ==
    /\ src \in {"running", "draining"}
    /\ transfer[k] = "acked" /\ k \notin srcJoined
    /\ srcJoined' = srcJoined \cup {k}
    /\ UNCHANGED <<connection, src, sourceIndex, accepted, planned,
                   sourceControl, destinationSide, streams>>

\* record_completion_ack and the FIN of control.close.
CloseControl ==
    /\ src = "draining" /\ ~srcCut
    /\ SourceJobs = {}
    /\ src' = "closing"
    /\ finished' = TRUE
    /\ UNCHANGED <<connection, sourceIndex, serving, notified, destinationSide,
                   streams>>

\* The wait for the peer's transport to take the FIN ends, whatever its result;
\* `run` returns Ok and its caller drops the connection.
SourceSucceeds ==
    /\ src = "closing"
    /\ src' = "ok"
    /\ UNCHANGED <<connection, sourceIndex, serving, sourceControl,
                   destinationSide, streams>>

(***************************************************************************)
(* run_inner returns an error.  Dropping the control stream finishes it,   *)
(* and the FIN may or may not still be delivered.                          *)
(***************************************************************************)
SourceAborts ==
    /\ ~SrcEnded /\ src # "closing"
    /\ src' = "failed"
    /\ finished' \in {finished, notified}
    /\ UNCHANGED <<connection, sourceIndex, serving, notified, destinationSide,
                   streams>>

\* A local error or a crash.
SourceFault == faulty /\ SourceAborts

\* The session is over, or the early notification was refused.
SourceGivesUp ==
    /\ srcCut \/ (src = "running" /\ srcConfirmed /\ earlyData = "rejected")
    /\ SourceAborts

-----------------------------------------------------------------------------
(***************************************************************************)
(* The destination, up to the commit.                                      *)
(***************************************************************************)
\* An unknown root or a peer without authorization is one of the errors of
\* DestinationFault.
ReceiveStartSync ==
    /\ dst = "waiting" /\ ~dstCut
    /\ notified /\ earlyData = "accepted"
    /\ dst' = "running"
    /\ UNCHANGED <<connection, sourceSide, planner, requesting, live, streams>>

DestinationScans ==
    /\ dst = "running"
    /\ localScanned < LocalMessages
    /\ localScanned - localRead < DestinationLimit
    /\ localScanned' = localScanned + 1
    /\ UNCHANGED <<connection, sourceSide, dst, planning, localRead, indexRead,
                   planRead, emitted, requesting, live, streams>>

ReceiveIndex ==
    /\ dst = "running" /\ ~dstCut
    /\ indexRead < indexSent
    /\ indexRead - planRead < DestinationLimit
    /\ indexRead' = indexRead + 1
    /\ UNCHANGED <<connection, sourceSide, dst, planning, localScanned,
                   localRead, planRead, emitted, requesting, live,
                   streams>>

\* Mutant: the end of the plan is not announced.
SendAllButPlanEnd(m) ==
    control' = IF m = "PlanEnd" THEN control ELSE Append(control, m)

SendControl(m) == control' = Append(control, m)

\* The first half of `planning`.
SendStartAccepted ==
    /\ dst = "running" /\ ~dstCut
    /\ planning = "confirm"
    /\ dstConfirmed
    /\ planning' = "plan"
    /\ SendControl("StartAccepted")
    /\ UNCHANGED <<connection, sourceSide, dst, destinationIndex, emitted,
                   requesting, live, transfer>>

\* The next operation's messages are read, or there is none and both are at End.
SourceWanted ==
    IF emitted < Len(Plan) THEN Plan[emitted + 1].source ELSE SourceMessages
LocalWanted ==
    IF emitted < Len(Plan) THEN Plan[emitted + 1].local ELSE LocalMessages

PlannerReadsIndex ==
    /\ dst = "running" /\ planning = "plan"
    /\ planRead < indexRead /\ planRead < SourceWanted
    /\ planRead' = planRead + 1
    /\ UNCHANGED <<connection, sourceSide, dst, planning, localScanned,
                   localRead, indexRead, emitted, requesting, live,
                   streams>>

PlannerReadsLocal ==
    /\ dst = "running" /\ planning = "plan"
    /\ localRead < localScanned /\ localRead < LocalWanted
    /\ localRead' = localRead + 1
    /\ UNCHANGED <<connection, sourceSide, dst, planning, localScanned,
                   indexRead, planRead, emitted, requesting, live,
                   streams>>

EmitOperation ==
    /\ dst = "running" /\ planning = "plan"
    /\ emitted < Len(Plan)
    /\ planRead >= SourceWanted /\ localRead >= LocalWanted
    /\ emitted - taken < DestinationLimit
    /\ emitted' = emitted + 1
    /\ UNCHANGED <<connection, sourceSide, dst, planning, destinationIndex,
                   requesting, live, streams>>

SendPlanEnd ==
    /\ dst = "running" /\ ~dstCut
    /\ planning = "plan"
    /\ emitted = Len(Plan)
    /\ planRead = SourceMessages /\ localRead = LocalMessages
    /\ planning' = "end"
    /\ SendControl("PlanEnd")
    /\ UNCHANGED <<connection, sourceSide, dst, destinationIndex, emitted,
                   requesting, live, transfer>>

\* `requesting` receives an operation; a local one is staged at once.
TakeOperation ==
    /\ dst = "running"
    /\ ~inHand /\ taken < emitted
    /\ taken' = taken + 1
    /\ inHand' = (Plan[taken + 1].kind = "file")
    /\ UNCHANGED <<connection, sourceSide, dst, planner, dstJoined, live,
                   streams>>

DestinationJobs == {k \in Files : transfer[k] # "none"} \ dstJoined

\* Transfer streams the source still counts against its stream limit.
OpenStreams == {k \in Files : transfer[k] \notin {"none", "acked"}}

OpenTransfer ==
    /\ dst = "running" /\ ~dstCut
    /\ inHand
    /\ Cardinality(DestinationJobs) < DestinationLimit
    /\ Cardinality(OpenStreams) < SourceLimit + 1
    /\ transfer' = [transfer EXCEPT ![taken] = "requested"]
    /\ inHand' = FALSE
    /\ UNCHANGED <<connection, sourceSide, dst, planner, taken, dstJoined, live,
                   control>>

\* receive_file: the content is staged, TransferAccepted is sent.
StageContent(k) ==
    /\ dst = "running" /\ ~dstCut
    /\ transfer[k] = "sent"
    /\ transfer' = [transfer EXCEPT ![k] = "staged"]
    /\ UNCHANGED <<connection, sourceSide, destinationSide, control>>

\* The operation channel is empty and its sender is dropped.
PlanDrained == planning = "end" /\ taken = emitted /\ ~inHand

\* A job is joined when its place is needed, or at the end.
DestinationJoins(k) ==
    /\ dst = "running"
    /\ transfer[k] \in {"staged", "acked"} /\ k \notin dstJoined
    /\ \/ inHand /\ Cardinality(DestinationJobs) >= DestinationLimit
       \/ PlanDrained
    /\ dstJoined' = dstJoined \cup {k}
    /\ UNCHANGED <<connection, sourceSide, dst, planner, taken, inHand, live,
                   streams>>

-----------------------------------------------------------------------------
(***************************************************************************)
(* The destination, from the barrier on.                                   *)
(***************************************************************************)
\* Mutant: `requesting` ends without joining its last jobs.
AllRequested ==
    PlanDrained /\ localScanned = LocalMessages /\ indexRead = SourceMessages

\* try_join!: scanning, indexing, planning and requesting have all succeeded.
AllStaged ==
    /\ PlanDrained
    /\ DestinationJobs = {}
    /\ localScanned = LocalMessages /\ indexRead = SourceMessages

BeginCommit ==
    /\ dst = "running"
    /\ AllStaged
    /\ dst' = "committing"
    /\ live' = "partial"
    /\ UNCHANGED <<connection, sourceSide, planner, requesting, streams>>

\* Mutant: the commit's blocking worker outlives a failed `serve`.
EndCommitDetached ==
    /\ dst \in {"committing", "failed"} /\ live = "partial"
    /\ dst' = IF dst = "failed" THEN dst ELSE "acking"
    /\ live' = "new"
    /\ UNCHANGED <<connection, sourceSide, planner, requesting, streams>>

EndCommit ==
    /\ dst = "committing"
    /\ dst' = "acking"
    /\ live' = "new"
    /\ UNCHANGED <<connection, sourceSide, planner, requesting, streams>>

\* Mutant: the acknowledgment does not wait for the commit worker.
CommitStarted == dst \in {"committing", "acking"}

CommitEnded == dst = "acking"

SendCompleteAck ==
    /\ CommitEnded /\ ~dstCut
    /\ dst' = "closing"
    /\ SendControl("CompleteAck")
    /\ UNCHANGED <<connection, sourceSide, planner, requesting, live, transfer>>

\* Mutant: the destination hangs up once it has acknowledged.
NothingMoreToHear == TRUE

\* The destination reads the control stream to its end.
SourceHungUp == finished

DestinationSucceeds ==
    /\ dst = "closing" /\ ~dstCut
    /\ SourceHungUp
    /\ dst' = "ok"
    /\ UNCHANGED <<connection, sourceSide, planner, requesting, live, streams>>

DestinationAborts ==
    /\ ~DstEnded
    /\ dst' = "failed"
    /\ UNCHANGED <<connection, sourceSide, planner, requesting, live, streams>>

\* An error or a crash; in the commit it leaves what was done so far.
DestinationFault == faulty /\ DestinationAborts

\* The session is over.  A running commit does not look at the connection.
DestinationGivesUp == dstCut /\ dst # "committing" /\ DestinationAborts

-----------------------------------------------------------------------------
ConnectionStep ==
    \/ ServerDecides \/ SourceHandshake \/ DestinationHandshake
    \/ SourceNotices \/ DestinationNotices

SourceStep ==
    \/ SendStartSync \/ SourceScans \/ SendIndex \/ ReceiveControl
    \/ \E k \in Files :
          \/ AcceptTransfer(k) \/ SendContent(k) \/ ReceiveAccepted(k)
          \/ SourceJoins(k)
    \/ CloseControl \/ SourceSucceeds \/ SourceGivesUp

DestinationStep ==
    \/ ReceiveStartSync \/ DestinationScans \/ ReceiveIndex \/ SendStartAccepted
    \/ PlannerReadsIndex \/ PlannerReadsLocal \/ EmitOperation \/ SendPlanEnd
    \/ TakeOperation \/ OpenTransfer
    \/ \E k \in Files : StageContent(k) \/ DestinationJoins(k)
    \/ BeginCommit \/ EndCommit \/ SendCompleteAck
    \/ DestinationSucceeds \/ DestinationGivesUp

\* Nothing obliges these to happen.
Fault == NetworkLost \/ SourceFault \/ DestinationFault

Ended == SrcEnded /\ DstEnded /\ UNCHANGED vars

Next == ConnectionStep \/ SourceStep \/ DestinationStep \/ Fault \/ Ended

(***************************************************************************)
(* Tokio polls every future that can move, and QUIC delivers or reports    *)
(* the loss (keep-alive and idle timeout).                                 *)
(***************************************************************************)
Fairness ==
    /\ WF_vars(ConnectionStep)
    /\ WF_vars(SourceStep)
    /\ WF_vars(DestinationStep)

Spec == Init /\ [][Next]_vars /\ Fairness

-----------------------------------------------------------------------------
(***************************************************************************)
(* Properties.                                                             *)
(***************************************************************************)

FlagsOK ==
    /\ faulty \in BOOLEAN
    /\ srcConfirmed \in BOOLEAN /\ dstConfirmed \in BOOLEAN
    /\ lost \in BOOLEAN /\ srcCut \in BOOLEAN /\ dstCut \in BOOLEAN
    /\ accepted \in BOOLEAN /\ planned \in BOOLEAN
    /\ notified \in BOOLEAN /\ finished \in BOOLEAN /\ inHand \in BOOLEAN

PhasesOK ==
    /\ earlyData \in {"undecided", "accepted", "rejected"}
    /\ src \in {"start", "running", "draining", "closing", "ok", "failed"}
    /\ dst \in {"waiting", "running", "committing", "acking", "closing", "ok", "failed"}
    /\ planning \in {"confirm", "plan", "end"}
    /\ live \in {"old", "partial", "new"}

StreamsOK ==
    /\ control \in Seq({"StartAccepted", "PlanEnd", "CompleteAck"})
    /\ transfer \in [Files -> {"none", "requested", "serving", "sent", "staged", "acked"}]
    /\ srcJoined \subseteq Files /\ dstJoined \subseteq Files

ChannelsOK ==
    /\ scanned \in 0..SourceMessages
    /\ indexSent \in 0..scanned /\ scanned - indexSent <= SourceLimit
    /\ indexRead \in 0..indexSent /\ indexSent - indexRead <= IndexWindow
    /\ planRead \in 0..indexRead /\ indexRead - planRead <= DestinationLimit
    /\ localScanned \in 0..LocalMessages
    /\ localRead \in 0..localScanned /\ localScanned - localRead <= DestinationLimit
    /\ emitted \in 0..Len(Plan)
    /\ taken \in 0..emitted /\ emitted - taken <= DestinationLimit

\* The variables have their types, and along every bounded channel (scan,
\* index, planner, `requesting`) the reader never overtakes the writer, nor
\* does the writer run ahead by more than the channel's capacity.
TypeOK == FlagsOK /\ PhasesOK /\ StreamsOK /\ ChannelsOK

\* The live tree is not touched before the whole source index has arrived, the
\* plan has ended and every requested file is staged (try_join! in
\* serve_inner): a failure before that point leaves it as it was.
StagingBarrier ==
    live # "old" =>
        /\ planRead = SourceMessages /\ localRead = LocalMessages
        /\ taken = Len(Plan)
        /\ dstJoined = Files
        /\ \A k \in Files : transfer[k] \in {"staged", "acked"}

\* Whoever reports success, and already the source that has seen CompleteAck,
\* does so of a tree that is committed completely.
SuccessMeansCommitted ==
    src \in {"draining", "closing", "ok"} \/ dst \in {"closing", "ok"} => live = "new"

\* "Only StartSync may precede this gate" (confirm_handshake): until a side's
\* handshake is complete, and if early data is refused, it has sent no index,
\* no control message but StartSync, opened or served no transfer, committed
\* nothing.
OnlyNotificationEarly ==
    /\ ~srcConfirmed \/ earlyData # "accepted" =>
          indexSent = 0 /\ ~accepted /\ SourceJobs = {}
    /\ ~dstConfirmed =>
          /\ control = <<>> /\ live = "old"
          /\ \A k \in Files : transfer[k] = "none"

\* The control messages arrive as the source's state machine wants them, so
\* its "unexpected destination control message" is never raised; in particular
\* CompleteAck never finds a transfer that was not accepted yet.
ControlExpected ==
    src = "running" /\ control # <<>> =>
        /\ Expected(Head(control))
        /\ Head(control) = "CompleteAck" =>
              \A k \in Files : transfer[k] \in {"staged", "acked"}

\* However the two sides, the connection and the transfers interleave, and
\* whatever fails, both sides return: nobody waits for ever.
AttemptEnds == <>(SrcEnded /\ DstEnded)

\* Without faults and with the notification accepted the source reports success
\* of a committed tree: bounded channels, stream limits and the unordered
\* streams never block each other for good.
SyncCompletes ==
    ~faulty => <>((src = "ok" /\ live = "new") \/ earlyData = "rejected")

\* The attempt keeps the promises of module Attempt.
Outcome(side) == IF side \in {"ok", "failed"} THEN side ELSE "running"
Promise == INSTANCE Attempt
    WITH tree <- live, sender <- Outcome(src), receiver <- Outcome(dst)
KeepsPromise == Promise!Spec

(***************************************************************************)
(* Stated by the repository, and violated.                                 *)
(***************************************************************************)

\* quic.rs on ControlChannel::close: "Wait for the peer to take the remaining
\* bytes so closing does not discard them."  The bytes are the FIN that the
\* destination waits for to report success.
CloseDiscardsNothing == ~faulty /\ src = "ok" => dst # "failed"

=============================================================================
