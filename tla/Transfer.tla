------------------------------ MODULE Transfer ------------------------------
(***************************************************************************)
(* One file transfer (sync/transfer.rs) into a temporary file              *)
(* (filesystem/staging.rs).                                                *)
(*                                                                         *)
(* Each side is an async task, send_file or receive_file, and blocking     *)
(* worker threads, joined by channels of capacity Queue.  A whole-file     *)
(* transfer streams content chunks.  An update first sends the signature   *)
(* of the destination's file the other way; the content chunks are then    *)
(* those of the delta.  Channels and stream are first in, first out, so a  *)
(* position in the chain of counters stands for the chunks before it.      *)
(*                                                                         *)
(* A task that returns drops its half of the channels and of the stream.   *)
(* The worker it leaves behind keeps running until it meets that.          *)
(* Dropping a stream finishes it: the peer sees an ordinary end.           *)
(***************************************************************************)
EXTENDS Naturals

CONSTANTS
    Chunks,      \* chunks of the whole file or of the delta
    Signatures,  \* chunks of the signature
    Queue,       \* capacity of the channels to and from a worker
    Window       \* chunks in flight on the stream, per direction

ASSUME TransferAssumption ==
    /\ Chunks \in Nat /\ Signatures \in Nat
    /\ Queue \in Nat \ {0} /\ Window \in Nat \ {0}

VARIABLES
    faulty,          \* files or librsync may fail, the session may be lost
    update,          \* an update with a basis, not a whole file
    cut,             \* the session is cancelled
    \* Source: send_file and its worker
    src,             \* "request", "signature", "content", "ack", "ok", "failed"
    srcWorker,       \* "idle", "reading", "producing", "done", "failed"
    \* Destination: receive_file, its worker, the temporary file
    dst,             \* "request", "signature", "content", "joining", "ok", "failed"
    dstWorker,       \* "idle", "signing", "signed", "writing", "done", "failed"
    temp,            \* "none", "partial" or "staged"
    \* Signature: made, sent, received, read by the source's worker
    signed, sigSent, sigReceived, sigRead,
    sigEndSent, sigEnded,
    \* Content: made, sent, received, written
    produced, sent, received, written,
    endSent, ended,
    accepted         \* TransferAccepted was sent

given == <<faulty, update>>
signature == <<signed, sigSent, sigReceived, sigRead, sigEndSent, sigEnded>>
content == <<produced, sent, received, written, endSent, ended>>
source == <<src, srcWorker>>
destination == <<dst, dstWorker, temp>>
vars == <<given, cut, source, destination, signature, content, accepted>>

Init ==
    /\ faulty \in BOOLEAN
    /\ update \in BOOLEAN
    /\ cut = FALSE
    /\ src = "request" /\ srcWorker = "idle"
    /\ dst = "request" /\ dstWorker = "idle" /\ temp = "none"
    /\ signed = 0 /\ sigSent = 0 /\ sigReceived = 0 /\ sigRead = 0
    /\ sigEndSent = FALSE /\ sigEnded = FALSE
    /\ produced = 0 /\ sent = 0 /\ received = 0 /\ written = 0
    /\ endSent = FALSE /\ ended = FALSE
    /\ accepted = FALSE

SrcEnded == src \in {"ok", "failed"}
DstEnded == dst \in {"ok", "failed"}

-----------------------------------------------------------------------------
(***************************************************************************)
(* The destination asks; for an update it signs its file first.            *)
(***************************************************************************)
SendRequest ==
    /\ dst = "request" /\ ~cut
    /\ dst' = IF update THEN "signature" ELSE "content"
    /\ dstWorker' = IF update THEN "signing" ELSE "writing"
    /\ UNCHANGED <<given, cut, source, temp, signature, content, accepted>>

\* `produce` of the signature.
Sign ==
    /\ dstWorker = "signing"
    /\ signed < Signatures
    /\ dst = "signature" /\ signed - sigSent < Queue
    /\ signed' = signed + 1
    /\ UNCHANGED <<given, cut, source, destination, sigSent, sigReceived, sigRead,
                   sigEndSent, sigEnded, content, accepted>>

SignEnds ==
    /\ dstWorker = "signing"
    /\ signed = Signatures
    /\ dstWorker' = "signed"
    /\ UNCHANGED <<given, cut, source, dst, temp, signature, content, accepted>>

SendSignature ==
    /\ dst = "signature" /\ ~cut /\ src # "failed"
    /\ sigSent < signed
    /\ sigSent - sigReceived < Window
    /\ sigSent' = sigSent + 1
    /\ UNCHANGED <<given, cut, source, destination, signed, sigReceived, sigRead,
                   sigEndSent, sigEnded, content, accepted>>

\* The worker has returned the basis; SignatureEnd, and the patch worker starts.
SendSignatureEnd ==
    /\ dst = "signature" /\ ~cut /\ src # "failed"
    /\ dstWorker = "signed" /\ sigSent = signed
    /\ sigEndSent' = TRUE
    /\ dst' = "content"
    /\ dstWorker' = "writing"
    /\ UNCHANGED <<given, cut, source, temp, signed, sigSent, sigReceived, sigRead,
                   sigEnded, content, accepted>>

-----------------------------------------------------------------------------
(***************************************************************************)
(* The source.                                                             *)
(***************************************************************************)
ReceiveRequest ==
    /\ src = "request" /\ ~cut
    /\ dst # "request"
    /\ src' = IF update THEN "signature" ELSE "content"
    /\ srcWorker' = IF update THEN "reading" ELSE "producing"
    /\ UNCHANGED <<given, cut, destination, signature, content, accepted>>

SignatureRoom == srcWorker = "reading" /\ sigReceived - sigRead < Queue

ReceiveSignature ==
    /\ src = "signature" /\ ~cut
    /\ sigReceived < sigSent /\ SignatureRoom
    /\ sigReceived' = sigReceived + 1
    /\ UNCHANGED <<given, cut, source, destination, signed, sigSent, sigRead,
                   sigEndSent, sigEnded, content, accepted>>

ReceiveSignatureEnd ==
    /\ src = "signature" /\ ~cut
    /\ sigEndSent /\ sigReceived = sigSent /\ SignatureRoom
    /\ sigEnded' = TRUE
    /\ src' = "content"
    /\ UNCHANGED <<given, cut, srcWorker, destination, signed, sigSent,
                   sigReceived, sigRead, sigEndSent, content, accepted>>

\* The worker reads the signature through Input.
ReadSignature ==
    /\ srcWorker = "reading"
    /\ sigRead < sigReceived
    /\ sigRead' = sigRead + 1
    /\ UNCHANGED <<given, cut, source, destination, signed, sigSent, sigReceived,
                   sigEndSent, sigEnded, content, accepted>>

SignatureComplete ==
    /\ srcWorker = "reading"
    /\ sigEnded /\ sigRead = sigReceived
    /\ srcWorker' = "producing"
    /\ UNCHANGED <<given, cut, src, destination, signature, content, accepted>>

\* `produce` of the file or of the delta.
Produce ==
    /\ srcWorker = "producing"
    /\ produced < Chunks
    /\ src # "failed" /\ produced - sent < Queue
    /\ produced' = produced + 1
    /\ UNCHANGED <<given, cut, source, destination, signature, sent, received,
                   written, endSent, ended, accepted>>

ProduceEnds ==
    /\ srcWorker = "producing"
    /\ produced = Chunks
    /\ srcWorker' = "done"
    /\ UNCHANGED <<given, cut, src, destination, signature, content, accepted>>

SendChunk ==
    /\ src = "content" /\ ~cut /\ dst # "failed"
    /\ sent < produced
    /\ sent - received < Window
    /\ sent' = sent + 1
    /\ UNCHANGED <<given, cut, source, destination, signature, produced, received,
                   written, endSent, ended, accepted>>

\* Mutant: the end of the channel is taken for the success of the worker.
ChannelDrained == srcWorker \in {"done", "failed"} /\ sent = produced

\* The channel ends when the worker returns, whatever its result; try_join!
\* wants the result.
ContentComplete == srcWorker = "done" /\ sent = produced

SendEnd ==
    /\ src = "content" /\ ~cut /\ dst # "failed"
    /\ ContentComplete
    /\ endSent' = TRUE
    /\ src' = "ack"
    /\ UNCHANGED <<given, cut, srcWorker, destination, signature, produced, sent,
                   received, written, ended, accepted>>

SourceSucceeds ==
    /\ src = "ack" /\ ~cut
    /\ accepted
    /\ src' = "ok"
    /\ UNCHANGED <<given, cut, srcWorker, destination, signature, content, accepted>>

-----------------------------------------------------------------------------
(***************************************************************************)
(* The destination receives and writes.                                    *)
(***************************************************************************)
ContentRoom == dstWorker = "writing" /\ received - written < Queue

ReceiveChunk ==
    /\ dst = "content" /\ ~cut
    /\ received < sent /\ ContentRoom
    /\ received' = received + 1
    /\ UNCHANGED <<given, cut, source, destination, signature, produced, sent,
                   written, endSent, ended, accepted>>

TransferEnded == endSent /\ received = sent

\* Mutant: an End that finds the patch worker finished is an error.
ReceiveEndStrict ==
    /\ dst = "content" /\ ~cut
    /\ TransferEnded
    /\ \/ /\ ContentRoom
          /\ ended' = TRUE /\ dst' = "joining" /\ UNCHANGED temp
       \/ /\ update /\ dstWorker = "done"
          /\ dst' = "failed" /\ temp' = "none" /\ UNCHANGED ended
    /\ UNCHANGED <<given, cut, source, dstWorker, signature, produced, sent,
                   received, written, endSent, accepted>>

\* A patch worker may have finished already; then End is not delivered.
ReceiveEnd ==
    /\ dst = "content" /\ ~cut
    /\ TransferEnded
    /\ ContentRoom \/ (update /\ dstWorker = "done")
    /\ ended' = TRUE
    /\ dst' = "joining"
    /\ UNCHANGED <<given, cut, source, dstWorker, temp, signature, produced, sent,
                   received, written, endSent, accepted>>

\* receive_in creates the temporary file.
CreateTemp ==
    /\ dstWorker = "writing" /\ temp = "none"
    /\ temp' = "partial"
    /\ UNCHANGED <<given, cut, source, dst, dstWorker, signature, content, accepted>>

Write ==
    /\ dstWorker = "writing" /\ temp = "partial"
    /\ written < received
    /\ written' = written + 1
    /\ UNCHANGED <<given, cut, source, destination, signature, produced, sent,
                   received, endSent, ended, accepted>>

\* io::copy ends at End; a patch at the terminator its last chunk holds.
CopyEnds ==
    IF update THEN written = Chunks ELSE ended /\ written = received

\* Mutant: a file the task no longer wants is kept.
Kept(file) == file

\* A result nobody waits for is dropped, and Drop removes the file.
Handed(file) == IF dst = "failed" THEN "none" ELSE file

WriteEnds ==
    /\ dstWorker = "writing" /\ temp = "partial"
    /\ CopyEnds
    /\ dstWorker' = "done"
    /\ temp' = Handed("staged")
    /\ UNCHANGED <<given, cut, source, dst, signature, content, accepted>>

\* Both halves of try_join! have succeeded.
Accept ==
    /\ dst = "joining" /\ ~cut
    /\ dstWorker = "done"
    /\ accepted' = TRUE
    /\ dst' = "ok"
    /\ UNCHANGED <<given, cut, source, dstWorker, temp, signature, content>>

-----------------------------------------------------------------------------
(***************************************************************************)
(* Failure.                                                                *)
(***************************************************************************)
SessionCut ==
    /\ faulty /\ ~cut
    /\ cut' = TRUE
    /\ UNCHANGED <<given, source, destination, signature, content, accepted>>

\* The peer's end of the stream, or its refusal of what is sent, is met.
SourceFails ==
    /\ ~SrcEnded
    /\ cut \/ srcWorker = "failed" \/ dst = "failed"
    /\ src' = "failed"
    /\ UNCHANGED <<given, cut, srcWorker, destination, signature, content, accepted>>

\* The stream ends before TransferEnd, or the source takes no signature.
SourceIsGone ==
    /\ src = "failed"
    /\ \/ dst \in {"request", "signature", "joining"}
       \/ dst = "content" /\ received = sent /\ ~endSent

DestinationFails ==
    /\ ~DstEnded
    /\ cut \/ dstWorker = "failed" \/ SourceIsGone
    /\ dst' = "failed"
    /\ temp' = IF dstWorker = "done" THEN "none" ELSE temp
    /\ UNCHANGED <<given, cut, source, dstWorker, signature, content, accepted>>

\* A file cannot be opened or read, or the delta cannot be computed.
SourceFault ==
    /\ faulty
    /\ \/ src = "request" /\ src' = "failed" /\ UNCHANGED srcWorker
       \/ srcWorker \in {"reading", "producing"} /\ srcWorker' = "failed" /\ UNCHANGED src
    /\ UNCHANGED <<given, cut, destination, signature, content, accepted>>

\* The basis is missing, the disk is full, the patch does not apply.
DestinationFault ==
    /\ faulty
    /\ dstWorker \in {"signing", "writing"}
    /\ dstWorker' = "failed"
    /\ temp' = "none"
    /\ UNCHANGED <<given, cut, source, dst, signature, content, accepted>>

(***************************************************************************)
(* A worker whose task is gone meets the closed channel: Input reports an  *)
(* error when it is empty, a blocking send fails.                          *)
(***************************************************************************)
SourceWorkerStops ==
    /\ src = "failed"
    /\ \/ srcWorker = "reading" /\ sigRead = sigReceived /\ ~sigEnded
       \/ srcWorker = "producing" /\ produced < Chunks
    /\ srcWorker' = "failed"
    /\ UNCHANGED <<given, cut, src, destination, signature, content, accepted>>

\* Mutant: only a producer notices.
SendersStop == dstWorker = "signing" /\ signed < Signatures

ChannelClosed ==
    \/ dstWorker = "signing" /\ signed < Signatures
    \/ dstWorker = "writing" /\ temp = "partial" /\ written = received /\ ~ended

DestinationWorkerStops ==
    /\ dst = "failed"
    /\ ChannelClosed
    /\ dstWorker' = "failed"
    /\ temp' = "none"
    /\ UNCHANGED <<given, cut, source, dst, signature, content, accepted>>

-----------------------------------------------------------------------------
SourceTask ==
    \/ ReceiveRequest \/ ReceiveSignature \/ ReceiveSignatureEnd
    \/ SendChunk \/ SendEnd \/ SourceSucceeds \/ SourceFails

SourceThread ==
    ReadSignature \/ SignatureComplete \/ Produce \/ ProduceEnds \/ SourceWorkerStops

DestinationTask ==
    \/ SendRequest \/ SendSignature \/ SendSignatureEnd
    \/ ReceiveChunk \/ ReceiveEnd \/ Accept \/ DestinationFails

DestinationThread ==
    Sign \/ SignEnds \/ CreateTemp \/ Write \/ WriteEnds \/ DestinationWorkerStops

WorkersIdle ==
    /\ srcWorker \in {"idle", "done", "failed"}
    /\ dstWorker \in {"idle", "signed", "done", "failed"}

Quiet == SrcEnded /\ DstEnded /\ WorkersIdle

Ended == Quiet /\ UNCHANGED vars

Next ==
    \/ SourceTask \/ SourceThread \/ DestinationTask \/ DestinationThread
    \/ SessionCut \/ SourceFault \/ DestinationFault
    \/ Ended

\* Tasks are polled and threads scheduled whenever they can move.
Fairness ==
    /\ WF_vars(SourceTask) /\ WF_vars(SourceThread)
    /\ WF_vars(DestinationTask) /\ WF_vars(DestinationThread)

Spec == Init /\ [][Next]_vars /\ Fairness

-----------------------------------------------------------------------------
(***************************************************************************)
(* Properties.                                                             *)
(***************************************************************************)

\* The variables have their types, each stage is at most a channel or a window
\* behind the one that feeds it, and no stage overtakes it.
TypeOK ==
    /\ faulty \in BOOLEAN /\ update \in BOOLEAN /\ cut \in BOOLEAN
    /\ src \in {"request", "signature", "content", "ack", "ok", "failed"}
    /\ srcWorker \in {"idle", "reading", "producing", "done", "failed"}
    /\ dst \in {"request", "signature", "content", "joining", "ok", "failed"}
    /\ dstWorker \in {"idle", "signing", "signed", "writing", "done", "failed"}
    /\ temp \in {"none", "partial", "staged"}
    /\ sigEndSent \in BOOLEAN /\ sigEnded \in BOOLEAN
    /\ endSent \in BOOLEAN /\ ended \in BOOLEAN /\ accepted \in BOOLEAN
    /\ signed \in 0..Signatures /\ sigSent \in 0..signed
    /\ sigReceived \in 0..sigSent /\ sigRead \in 0..sigReceived
    /\ signed - sigSent <= Queue /\ sigReceived - sigRead <= Queue
    /\ sigSent - sigReceived <= Window
    /\ produced \in 0..Chunks /\ sent \in 0..produced
    /\ received \in 0..sent /\ written \in 0..received
    /\ produced - sent <= Queue /\ received - written <= Queue
    /\ sent - received <= Window

\* Neither side takes a transfer for successful that left out part of the file:
\* a sender that stops early closes its channel and its stream in the same way
\* as one that is done, and only the worker's result and TransferEnd tell them
\* apart ("transfer ended without marker").
WholeOrNothing ==
    dst = "ok" \/ src = "ok" => written = Chunks /\ endSent

\* A temporary file is always somebody's: of the worker that writes it, of the
\* task that waits for the worker, or of the caller of a receive_file that
\* succeeded.  Whoever fails or is abandoned removes it (Drop of StagedFile).
TempOwned ==
    temp # "none" =>
        \/ dst = "ok"
        \/ dstWorker = "writing"
        \/ dstWorker = "done" /\ dst \in {"content", "joining"}

\* Whatever fails, both tasks return and no worker thread stays blocked on a
\* channel: the blocking pool is not used up by failed transfers.
TransferStops == <>[]Quiet

\* Without faults every transfer succeeds on both sides.
TransferCompletes == ~faulty => <>(src = "ok" /\ dst = "ok")

=============================================================================
