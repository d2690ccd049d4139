---------------------------- MODULE FlowControl ----------------------------
(***************************************************************************)
(* The flow-control windows of one direction of a connection               *)
(* (transport/quic.rs, TransportBounds::tuning), from source to            *)
(* destination: the control stream, the index stream and the transfers     *)
(* share the connection's window, and each has a window of its own.        *)
(*                                                                         *)
(* QUIC itself is external: a receiver grants credit again when the        *)
(* application has read, so what counts against a window is what has been  *)
(* sent and not yet read.  Bytes are counted in units.                     *)
(*                                                                         *)
(* The reader of the index is the only one that may wait for others: it    *)
(* stops when the channels behind it are full, and they empty only as      *)
(* transfers finish (sync/destination.rs).  In the instance every record   *)
(* is a file to transfer.                                                  *)
(***************************************************************************)
EXTENDS Integers, Functions

CONSTANTS
    Limits,     \* the limits a configuration may give
    Messages,   \* units to send on the control stream
    Records,    \* units to send on the index stream, one per record
    Content     \* units to send per file

\* Limits::validate, without the upper bounds.  The frame size and the bytes
\* in flight are not compared with each other.
Valid(l) ==
    l.frame \in Nat \ {0} /\ l.inflight \in Nat \ {0} /\ l.transfers \in Nat \ {0}

ASSUME FlowAssumption ==
    /\ \A l \in Limits : Valid(l)
    /\ Messages \in Nat /\ Records \in Nat /\ Content \in Nat \ {0}

VARIABLES
    limits,
    toSend,     \* per stream, units not yet sent
    unread,     \* per stream, units sent and not yet read
    indexRead,  \* records taken from the index stream
    started,    \* transfers started
    active      \* the transfer streams in use

flowVars == <<limits, toSend, unread, indexRead, started, active>>

Control == 0
IndexStream == 1
Transfers == 2..(limits.transfers + 1)
Streams == {Control, IndexStream} \cup Transfers

FlowInit ==
    /\ limits \in Limits
    /\ toSend = [s \in Streams |-> CASE s = Control     -> Messages
                                     [] s = IndexStream -> Records
                                     [] OTHER           -> 0]
    /\ unread = [s \in Streams |-> 0]
    /\ indexRead = 0 /\ started = 0
    /\ active = {}

-----------------------------------------------------------------------------
\* The share of the window that is one stream's.
Share == limits.inflight \div (limits.transfers + 1)

\* Mutant: the control stream is not counted.
PerStreamWithoutControl ==
    LET share == limits.inflight \div limits.transfers
    IN  IF share >= limits.frame THEN share ELSE limits.frame

\* Mutant: a stream may use the whole connection window.
PerStreamAll == limits.inflight

\* stream_receive_window: the share, but at least one frame.
per_stream == IF Share >= limits.frame THEN Share ELSE limits.frame

receive_window == limits.inflight

InFlight == SumFunction(unread)

HasCredit(s) == unread[s] < per_stream /\ InFlight < receive_window

Send(s) ==
    /\ toSend[s] > 0 /\ HasCredit(s)
    /\ toSend' = [toSend EXCEPT ![s] = @ - 1]
    /\ unread' = [unread EXCEPT ![s] = @ + 1]
    /\ UNCHANGED <<limits, indexRead, started, active>>

\* remote_tx and operation_tx have `capacity` each; the planner looks ahead by
\* one record and `requesting` may hold one while it waits for a job.
Pipeline == 2 * limits.transfers + 2

ReadControl ==
    /\ unread[Control] > 0
    /\ unread' = [unread EXCEPT ![Control] = @ - 1]
    /\ UNCHANGED <<limits, toSend, indexRead, started, active>>

ReadIndex ==
    /\ unread[IndexStream] > 0
    /\ indexRead - started < Pipeline
    /\ unread' = [unread EXCEPT ![IndexStream] = @ - 1]
    /\ indexRead' = indexRead + 1
    /\ UNCHANGED <<limits, toSend, started, active>>

\* A job starts and the source begins to send the file.
StartTransfer(s) ==
    /\ s \notin active
    /\ started < indexRead
    /\ active' = active \cup {s}
    /\ started' = started + 1
    /\ toSend' = [toSend EXCEPT ![s] = Content]
    /\ UNCHANGED <<limits, unread, indexRead>>

\* receive_file reads as it writes; with the last unit the job is done.
ReadContent(s) ==
    /\ s \in active /\ unread[s] > 0
    /\ unread' = [unread EXCEPT ![s] = @ - 1]
    /\ active' = IF toSend[s] = 0 /\ unread[s] = 1 THEN active \ {s} ELSE active
    /\ UNCHANGED <<limits, toSend, indexRead, started>>

FlowNext ==
    \/ \E s \in Streams : Send(s)
    \/ ReadControl \/ ReadIndex
    \/ \E s \in Transfers : StartTransfer(s) \/ ReadContent(s)

(***************************************************************************)
(* Sending is fair per stream only in the weak sense: quinn serves the     *)
(* streams that can send in turn.                                          *)
(***************************************************************************)
FlowSpec ==
    /\ FlowInit /\ [][FlowNext]_flowVars
    /\ WF_flowVars(\E s \in Streams : Send(s))
    /\ WF_flowVars(ReadControl) /\ WF_flowVars(ReadIndex)
    /\ WF_flowVars(\E s \in Transfers : StartTransfer(s) \/ ReadContent(s))

-----------------------------------------------------------------------------
TransferBytes == SumFunctionOnSet(unread, Transfers)

\* Saturated transfers hold at most their windows, and where a frame is not
\* larger than a share that leaves a whole share of the connection's window,
\* rounding included: "no transfer may claim more than its share of it"
\* (quic.rs:96).  With a larger frame each may hold a frame instead.
ShareIsKept ==
    /\ TransferBytes <= limits.transfers * per_stream
    /\ limits.frame <= Share => TransferBytes + Share <= receive_window

\* Where the window holds more than a frame, nothing waits for ever:
\* records nobody reads yet never keep back the content that the jobs they
\* wait for need, and everything is sent and read.
FlowCompletes ==
    limits.frame < limits.inflight =>
        <>(started = Records /\ active = {} /\ InFlight = 0 /\ toSend[Control] = 0)

=============================================================================
