--------------------------- MODULE TransferProofs ---------------------------
(***************************************************************************)
(* Proofs about module Transfer, for files, signatures, queues and windows *)
(* of any size, with or without faults; and about module FlowControl, the  *)
(* windows that all transfers of a connection share, for any limits.       *)
(***************************************************************************)
EXTENDS Transfer, FlowControl, FiniteSetTheorems, WellFoundedInduction, TLAPS

(***************************************************************************)
(* What the end markers and the workers' results say of the counters.  The *)
(* phases of both tasks are tied to them, so that success on either side   *)
(* leads back to the source's worker having produced everything.           *)
(***************************************************************************)
CountsInv ==
    /\ produced \in Nat /\ sent \in Nat /\ received \in Nat /\ written \in Nat
    /\ produced <= Chunks /\ sent <= produced /\ received <= sent /\ written <= received

SourceInv ==
    /\ srcWorker = "done" => produced = Chunks
    /\ endSent => produced = Chunks /\ sent = produced
    /\ src = "ok" => accepted

DestinationInv ==
    /\ ended => endSent /\ received = sent
    /\ dst \in {"joining", "ok"} => ended
    /\ dstWorker = "done" => IF update THEN written = Chunks ELSE ended /\ written = received
    /\ accepted => ended /\ written = Chunks
    /\ dst = "ok" => accepted

WholeInv == CountsInv /\ SourceInv /\ DestinationInv

(***************************************************************************)
(* Which state of the worker a temporary file goes with.                   *)
(***************************************************************************)
TempInv ==
    /\ temp \in {"none", "partial", "staged"}
    /\ temp = "partial" => dstWorker = "writing"
    /\ temp = "staged" => dstWorker = "done" /\ dst # "failed"
    /\ dst \in {"request", "signature"} => dstWorker \notin {"writing", "done"}
    /\ dst \in {"request", "signature", "content", "joining", "ok", "failed"}

Inv == WholeInv /\ TempInv

LEMMA InvInit == Init => Inv
BY TransferAssumption DEF Init, Inv, WholeInv, CountsInv, SourceInv, DestinationInv, TempInv

\* Inv is inductive: one step per action of either task and either thread.
LEMMA InvStep == Inv /\ [Next]_vars => Inv'
<1> SUFFICES ASSUME Inv, [Next]_vars PROVE Inv'
  OBVIOUS
<1> USE TransferAssumption
    DEF Inv, WholeInv, CountsInv, SourceInv, DestinationInv, TempInv,
        given, source, destination, signature, content
<1>1. CASE SendRequest
  BY <1>1 DEF SendRequest
<1>2. CASE Sign
  BY <1>2 DEF Sign
<1>3. CASE SignEnds
  BY <1>3 DEF SignEnds
<1>4. CASE SendSignature
  BY <1>4 DEF SendSignature
<1>5. CASE SendSignatureEnd
  BY <1>5 DEF SendSignatureEnd
<1>6. CASE ReceiveRequest
  BY <1>6 DEF ReceiveRequest
<1>7. CASE ReceiveSignature
  BY <1>7 DEF ReceiveSignature
<1>8. CASE ReceiveSignatureEnd
  BY <1>8 DEF ReceiveSignatureEnd
<1>9. CASE ReadSignature
  BY <1>9 DEF ReadSignature
<1>10. CASE SignatureComplete
  BY <1>10 DEF SignatureComplete
<1>11. CASE Produce
  BY <1>11 DEF Produce
<1>12. CASE ProduceEnds
  BY <1>12 DEF ProduceEnds
<1>13. CASE SendChunk
  BY <1>13 DEF SendChunk
<1>14. CASE SendEnd
  BY <1>14 DEF SendEnd, ContentComplete
<1>15. CASE SourceSucceeds
  BY <1>15 DEF SourceSucceeds
<1>16. CASE ReceiveChunk
  BY <1>16 DEF ReceiveChunk
<1>17. CASE ReceiveEnd
  BY <1>17 DEF ReceiveEnd, TransferEnded, ContentRoom
<1>18. CASE CreateTemp
  BY <1>18 DEF CreateTemp
<1>19. CASE Write
  BY <1>19 DEF Write
<1>20. CASE WriteEnds
  BY <1>20 DEF WriteEnds, CopyEnds, Handed
<1>21. CASE Accept
  BY <1>21 DEF Accept
<1>22. CASE SessionCut
  BY <1>22 DEF SessionCut
<1>23. CASE SourceFails
  BY <1>23 DEF SourceFails, SrcEnded
<1>24. CASE DestinationFails
  BY <1>24 DEF DestinationFails, DstEnded
<1>25. CASE SourceFault
  BY <1>25 DEF SourceFault
<1>26. CASE DestinationFault
  BY <1>26 DEF DestinationFault
<1>27. CASE SourceWorkerStops
  BY <1>27 DEF SourceWorkerStops
<1>28. CASE DestinationWorkerStops
  BY <1>28 DEF DestinationWorkerStops, ChannelClosed
<1>29. CASE UNCHANGED vars
  BY <1>29 DEF vars
<1>30. QED
  BY <1>1, <1>2, <1>3, <1>4, <1>5, <1>6, <1>7, <1>8, <1>9, <1>10,
     <1>11, <1>12, <1>13, <1>14, <1>15, <1>16, <1>17, <1>18, <1>19, <1>20,
     <1>21, <1>22, <1>23, <1>24, <1>25, <1>26, <1>27, <1>28, <1>29
  DEF Next, SourceTask, SourceThread, DestinationTask, DestinationThread, Ended

\* Inv holds in every reachable state.
THEOREM InvCorrect == Spec => []Inv
<1>1. Init => Inv
  BY InvInit
<1>2. Inv /\ [Next]_vars => Inv'
  BY InvStep
<1>3. QED
  BY <1>1, <1>2, PTL DEF Spec

\* A transfer that either side reports as successful has written the whole file.
THEOREM WholeHolds == Spec => []WholeOrNothing
<1>1. Inv => WholeOrNothing
  BY DEF Inv, WholeInv, SourceInv, DestinationInv, WholeOrNothing
<1>2. QED
  BY <1>1, InvCorrect, PTL

\* A temporary file belongs to a running worker, a waiting task or the caller
\* of a receive_file that succeeded.
THEOREM OwnedHolds == Spec => []TempOwned
<1>1. Inv => TempOwned
  BY DEF Inv, TempInv, TempOwned
<1>2. QED
  BY <1>1, InvCorrect, PTL

\* The type invariant is inductive: a stage moves only when the one before it
\* is ahead, and runs ahead only when its channel or window has room.
LEMMA TypeStep == TypeOK /\ [Next]_vars => TypeOK'
<1> SUFFICES ASSUME TypeOK, [Next]_vars PROVE TypeOK'
  OBVIOUS
<1> USE TransferAssumption
    DEF TypeOK, given, source, destination, signature, content
<1>1. CASE SendRequest
  BY <1>1 DEF SendRequest
<1>2. CASE Sign
  BY <1>2 DEF Sign
<1>3. CASE SignEnds
  BY <1>3 DEF SignEnds
<1>4. CASE SendSignature
  BY <1>4 DEF SendSignature
<1>5. CASE SendSignatureEnd
  BY <1>5 DEF SendSignatureEnd
<1>6. CASE ReceiveRequest
  BY <1>6 DEF ReceiveRequest
<1>7. CASE ReceiveSignature
  BY <1>7 DEF ReceiveSignature, SignatureRoom
<1>8. CASE ReceiveSignatureEnd
  BY <1>8 DEF ReceiveSignatureEnd, SignatureRoom
<1>9. CASE ReadSignature
  BY <1>9 DEF ReadSignature
<1>10. CASE SignatureComplete
  BY <1>10 DEF SignatureComplete
<1>11. CASE Produce
  BY <1>11 DEF Produce
<1>12. CASE ProduceEnds
  BY <1>12 DEF ProduceEnds
<1>13. CASE SendChunk
  BY <1>13 DEF SendChunk
<1>14. CASE SendEnd
  BY <1>14 DEF SendEnd, ContentComplete
<1>15. CASE SourceSucceeds
  BY <1>15 DEF SourceSucceeds
<1>16. CASE ReceiveChunk
  BY <1>16 DEF ReceiveChunk, ContentRoom
<1>17. CASE ReceiveEnd
  BY <1>17 DEF ReceiveEnd, TransferEnded, ContentRoom
<1>18. CASE CreateTemp
  BY <1>18 DEF CreateTemp
<1>19. CASE Write
  BY <1>19 DEF Write
<1>20. CASE WriteEnds
  BY <1>20 DEF WriteEnds, CopyEnds, Handed
<1>21. CASE Accept
  BY <1>21 DEF Accept
<1>22. CASE SessionCut
  BY <1>22 DEF SessionCut
<1>23. CASE SourceFails
  BY <1>23 DEF SourceFails, SrcEnded
<1>24. CASE DestinationFails
  BY <1>24 DEF DestinationFails, DstEnded
<1>25. CASE SourceFault
  BY <1>25 DEF SourceFault
<1>26. CASE DestinationFault
  BY <1>26 DEF DestinationFault
<1>27. CASE SourceWorkerStops
  BY <1>27 DEF SourceWorkerStops
<1>28. CASE DestinationWorkerStops
  BY <1>28 DEF DestinationWorkerStops, ChannelClosed
<1>29. CASE UNCHANGED vars
  BY <1>29 DEF vars
<1>30. QED
  BY <1>1, <1>2, <1>3, <1>4, <1>5, <1>6, <1>7, <1>8, <1>9, <1>10,
     <1>11, <1>12, <1>13, <1>14, <1>15, <1>16, <1>17, <1>18, <1>19, <1>20,
     <1>21, <1>22, <1>23, <1>24, <1>25, <1>26, <1>27, <1>28, <1>29
  DEF Next, SourceTask, SourceThread, DestinationTask, DestinationThread, Ended

\* Every queue, window and counter of a transfer stays within its bounds.
THEOREM TypesHold == Spec => []TypeOK
<1>1. ASSUME Init PROVE TypeOK
  <2>1. /\ faulty \in BOOLEAN /\ update \in BOOLEAN /\ cut \in BOOLEAN
        /\ sigEndSent \in BOOLEAN /\ sigEnded \in BOOLEAN
        /\ endSent \in BOOLEAN /\ ended \in BOOLEAN /\ accepted \in BOOLEAN
    BY <1>1, Zenon DEF Init
  <2>2. QED
    BY <1>1, <2>1, TransferAssumption DEF Init, TypeOK
<1>2. QED
  BY <1>1, TypeStep, PTL DEF Spec

-----------------------------------------------------------------------------
(***************************************************************************)
(* The windows of a connection.  What all transfers have under way is a    *)
(* sum over their streams, and the library's sum removes an element CHOOSE *)
(* names at a time: the first lemmas show that this recursion has a        *)
(* solution on every finite set, and bound it by the number of terms.      *)
(***************************************************************************)
\* The element a sum takes next.
Pick(s) == CHOOSE x \in s : TRUE

\* f sums g over the sets of D, an element at a time.
IsSum(f, g, D) ==
    f = [s \in D |-> IF s = {} THEN 0 ELSE g[Pick(s)] + f[s \ {Pick(s)}]]

\* A sum is the function that satisfies its equation.
LEMMA SumUnfold ==
    ASSUME NEW g, NEW S
    PROVE  SumFunctionOnSet(g, S) = (CHOOSE f : IsSum(f, g, SUBSET S))[S]
BY DEF SumFunctionOnSet, FoldFunctionOnSet, MapThenFoldSet, IsSum, Pick

\* A set of numbers that is not empty has a least one.
LEMMA LeastNumber ==
    ASSUME NEW T, T \subseteq Nat, T # {}
    PROVE  \E n \in T : \A m \in T : ~(m < n)
<1>1. PICK n \in T : \A y \in T : ~(<<y, n>> \in OpToRel(<, Nat))
  BY NatLessThanWellFounded, WFMin
<1> QED
  BY <1>1 DEF OpToRel

\* The subsets of S with at most n elements.
Upto(S, n) == {s \in SUBSET S : Cardinality(s) <= n}

\* What is left of a finite set is smaller.
LEMMA SumStep ==
    ASSUME NEW S, IsFiniteSet(S), NEW s \in SUBSET S, s # {}
    PROVE  /\ Pick(s) \in s /\ s \ {Pick(s)} \in SUBSET S
           /\ Cardinality(s) \in Nat /\ Cardinality(s \ {Pick(s)}) \in Nat
           /\ Cardinality(s \ {Pick(s)}) = Cardinality(s) - 1
<1>1. Pick(s) \in s
  BY DEF Pick
<1>2. IsFiniteSet(s) /\ IsFiniteSet(s \ {Pick(s)})
  BY <1>1, FS_Subset, FS_RemoveElement
<1> QED
  BY <1>1, <1>2, FS_RemoveElement, FS_CardinalityType

\* The equation has a solution on every finite set.
LEMMA SumExists ==
    ASSUME NEW g, NEW S, IsFiniteSet(S)
    PROVE  \E f : IsSum(f, g, SUBSET S)
<1>1. \A n \in Nat : \E f : IsSum(f, g, Upto(S, n))
  <2> DEFINE T == {n \in Nat : ~\E f : IsSum(f, g, Upto(S, n))}
  <2> SUFFICES ASSUME T # {} PROVE FALSE
    OBVIOUS
  <2>1. PICK n \in T : \A m \in T : ~(m < n)
    BY LeastNumber
  <2>2. CASE n = 0
    <3> DEFINE f == [s \in Upto(S, 0) |-> 0]
    <3>1. \A s \in Upto(S, 0) : s = {}
      <4> SUFFICES ASSUME NEW s \in Upto(S, 0), s # {} PROVE FALSE
        OBVIOUS
      <4>1. s \in SUBSET S /\ Cardinality(s) <= 0
        BY DEF Upto
      <4>2. Cardinality(s) \in Nat /\ Cardinality(s) - 1 \in Nat
        BY <4>1, SumStep
      <4> QED
        BY <4>1, <4>2
    <3>2. IsSum(f, g, Upto(S, 0))
      BY <3>1 DEF IsSum
    <3> QED
      BY <2>1, <2>2, <3>2
  <2>3. CASE n # 0
    <3>1. n - 1 \in Nat /\ n - 1 < n /\ n - 1 \notin T
      BY <2>1, <2>3
    <3>2. PICK h : IsSum(h, g, Upto(S, n - 1))
      BY <3>1
    <3> DEFINE f == [s \in Upto(S, n) |-> IF s = {} THEN 0 ELSE g[Pick(s)] + h[s \ {Pick(s)}]]
    <3>3. \A s \in Upto(S, n) : s # {} => s \ {Pick(s)} \in Upto(S, n - 1)
      <4> SUFFICES ASSUME NEW s \in Upto(S, n), s # {} PROVE s \ {Pick(s)} \in Upto(S, n - 1)
        OBVIOUS
      <4>1. s \in SUBSET S /\ Cardinality(s) <= n
        BY DEF Upto
      <4> QED
        BY <3>1, <4>1, SumStep DEF Upto
    <3>4. \A s \in Upto(S, n - 1) : s \in Upto(S, n)
      <4> SUFFICES ASSUME NEW s \in Upto(S, n - 1) PROVE s \in Upto(S, n)
        OBVIOUS
      <4>1. Cardinality(s) \in Nat /\ s \in SUBSET S /\ Cardinality(s) <= n - 1
        BY FS_Subset, FS_CardinalityType DEF Upto
      <4> QED
        BY <3>1, <4>1 DEF Upto
    <3>5. \A s \in Upto(S, n - 1) : f[s] = h[s]
      BY <3>2, <3>4 DEF IsSum
    <3>6. f = [s \in Upto(S, n) |-> IF s = {} THEN 0 ELSE g[Pick(s)] + f[s \ {Pick(s)}]]
      BY <3>3, <3>5
    <3>7. IsSum(f, g, Upto(S, n))
      BY <3>6 DEF IsSum
    <3> QED
      BY <2>1, <3>7
  <2> QED
    BY <2>2, <2>3
<1>2. SUBSET S = Upto(S, Cardinality(S)) /\ Cardinality(S) \in Nat
  <2>1. \A s \in SUBSET S : Cardinality(s) <= Cardinality(S)
    BY FS_Subset
  <2> QED
    BY <2>1, FS_CardinalityType DEF Upto
<1> QED
  BY <1>1, <1>2

\* No term above b: no sum above b times the number of terms.
LEMMA SumBound ==
    ASSUME NEW S, IsFiniteSet(S), NEW g, NEW b \in Nat,
           \A x \in S : g[x] \in 0..b
    PROVE  /\ SumFunctionOnSet(g, S) \in Nat
           /\ SumFunctionOnSet(g, S) <= Cardinality(S) * b
<1>1. PICK f : f = CHOOSE h : IsSum(h, g, SUBSET S)
  OBVIOUS
<1>2. IsSum(f, g, SUBSET S)
  BY <1>1, SumExists
<1> DEFINE Good(s) == f[s] \in Nat /\ f[s] <= Cardinality(s) * b
           T == {n \in Nat : \E s \in SUBSET S : Cardinality(s) = n /\ ~Good(s)}
<1>3. T = {}
  <2> SUFFICES ASSUME T # {} PROVE FALSE
    OBVIOUS
  <2>1. PICK n \in T : \A m \in T : ~(m < n)
    BY LeastNumber
  <2>2. PICK s \in SUBSET S : Cardinality(s) = n /\ ~Good(s)
    BY <2>1
  <2>3. f[s] = IF s = {} THEN 0 ELSE g[Pick(s)] + f[s \ {Pick(s)}]
    BY <1>2 DEF IsSum
  <2>4. s # {}
    <3>1. Cardinality({}) = 0
      BY FS_EmptySet
    <3> QED
      BY <2>2, <2>3, <3>1
  <2>5. PICK r : r = s \ {Pick(s)}
    OBVIOUS
  <2>6. /\ Pick(s) \in S /\ r \in SUBSET S
        /\ Cardinality(r) \in Nat /\ Cardinality(r) = n - 1 /\ n \in Nat
    BY <2>2, <2>4, <2>5, SumStep
  <2>7. Good(r)
    BY <2>1, <2>6
  <2>8. PICK k \in Nat : k = n - 1
    BY <2>6
  <2>9. f[r] \in Nat /\ f[r] <= k * b /\ g[Pick(s)] \in 0..b /\ n = k + 1
    BY <2>6, <2>7, <2>8
  <2>10. k * b + b = n * b /\ k * b \in Nat
    BY <2>8, <2>9
  <2>11. f[s] \in Nat /\ f[s] <= n * b
    BY <2>3, <2>4, <2>5, <2>9, <2>10
  <2> QED
    BY <2>2, <2>11
<1>4. Cardinality(S) \in Nat /\ S \in SUBSET S
  BY FS_CardinalityType
<1>5. Good(S)
  BY <1>3, <1>4
<1> QED
  BY <1>1, <1>5, SumUnfold

-----------------------------------------------------------------------------
\* What the steps keep: no stream has more under way than its window.
WindowInv ==
    /\ limits \in Limits
    /\ unread \in [Streams -> Nat]
    /\ \A s \in Streams : unread[s] <= per_stream

\* At first nothing is under way.
LEMMA WindowInit == FlowInit => WindowInv
<1> SUFFICES ASSUME FlowInit PROVE WindowInv
  OBVIOUS
<1>1. limits \in Limits /\ unread = [s \in Streams |-> 0]
  BY DEF FlowInit
<1>2. Valid(limits)
  BY <1>1, FlowAssumption
<1>3. Share \in Nat /\ per_stream \in Nat
  BY <1>2 DEF Valid, Share, per_stream
<1> QED
  BY <1>1, <1>3 DEF WindowInv

\* A stream sends only while its window has room, and reading makes room.
LEMMA WindowStep == WindowInv /\ [FlowNext]_flowVars => WindowInv'
<1> SUFFICES ASSUME WindowInv, [FlowNext]_flowVars PROVE WindowInv'
  OBVIOUS
<1>1. Valid(limits) /\ limits' = limits
  BY FlowAssumption DEF WindowInv, FlowNext, flowVars, Send, ReadControl, ReadIndex, StartTransfer, ReadContent
<1>2. PICK p \in Nat : p = per_stream /\ p = per_stream'
  BY <1>1 DEF Valid, Share, per_stream
<1>3. Streams' = Streams /\ Control \in Streams /\ IndexStream \in Streams /\ Transfers \subseteq Streams
  BY <1>1 DEF Streams, Transfers
<1>4. \/ unread' = unread
      \/ \E s \in Streams : unread[s] < per_stream /\ unread' = [unread EXCEPT ![s] = @ + 1]
      \/ \E s \in Streams : unread[s] > 0 /\ unread' = [unread EXCEPT ![s] = @ - 1]
  BY <1>3 DEF FlowNext, flowVars, Send, HasCredit, ReadControl, ReadIndex, StartTransfer, ReadContent
<1>5. unread' \in [Streams -> Nat] /\ \A s \in Streams : unread'[s] <= p
  BY <1>2, <1>4 DEF WindowInv
<1> QED
  BY <1>1, <1>2, <1>3, <1>5 DEF WindowInv

\* A quotient times its divisor.
LEMMA Quotient ==
    ASSUME NEW x \in Nat, NEW t \in Nat
    PROVE  x \div (t + 1) \in Nat /\ t * (x \div (t + 1)) + (x \div (t + 1)) <= x
<1>1. PICK d \in Nat : d = t + 1 /\ d > 0
  OBVIOUS
<1>2. x \div d \in Nat /\ d * (x \div d) <= x
  BY <1>1
<1>3. PICK q \in Nat : q = x \div d
  BY <1>2
<1>4. t * q + q = d * q
  BY <1>1
<1> QED
  BY <1>1, <1>2, <1>3, <1>4

\* As many transfers as there may be hold no more than a full window each.
LEMMA WindowsHeld ==
    ASSUME WindowInv
    PROVE  /\ TransferBytes \in Nat /\ per_stream \in Nat /\ limits.transfers \in Nat
           /\ TransferBytes <= limits.transfers * per_stream
<1>1. Valid(limits)
  BY FlowAssumption DEF WindowInv
<1>2. PICK t \in Nat : t = limits.transfers
  BY <1>1 DEF Valid
<1>3. PICK b \in Nat : b = per_stream
  BY <1>1 DEF per_stream, Valid, Share
<1>4. IsFiniteSet(Transfers) /\ Cardinality(Transfers) = t
  <2>1. PICK n \in Int : n = t + 1
    OBVIOUS
  <2>2. Transfers = 2..n
    BY <1>2, <2>1 DEF Transfers
  <2>3. IsFiniteSet(2..n) /\ Cardinality(2..n) = IF 2 > n THEN 0 ELSE n - 2 + 1
    BY FS_Interval
  <2> QED
    BY <1>1, <1>2, <2>1, <2>2, <2>3 DEF Valid
<1>5. \A s \in Transfers : unread[s] \in 0..b
  BY <1>3 DEF WindowInv, Streams
<1>6. TransferBytes \in Nat /\ TransferBytes <= t * b
  BY <1>4, <1>5, SumBound DEF TransferBytes
<1> QED
  BY <1>2, <1>3, <1>6

\* Where a frame fits into a share, so many full windows leave a share.
LEMMA WindowShare == WindowInv => ShareIsKept
<1> SUFFICES ASSUME WindowInv PROVE ShareIsKept
  OBVIOUS
<1>1. Valid(limits)
  BY FlowAssumption DEF WindowInv
<1>2. PICK t \in Nat : t = limits.transfers
  BY <1>1 DEF Valid
<1>3. PICK x \in Nat : x = limits.inflight
  BY <1>1 DEF Valid
<1>4. ASSUME limits.frame <= Share PROVE TransferBytes + Share <= receive_window
  <2>1. PICK b \in Nat : b = Share /\ b = per_stream
    BY <1>1, <1>4 DEF per_stream, Valid, Share
  <2>2. t * b + b <= x
    BY <1>2, <1>3, <2>1, Quotient DEF Share
  <2>3. TransferBytes \in Nat /\ TransferBytes <= t * b /\ t * b \in Nat
    BY <1>2, <2>1, WindowsHeld
  <2> QED
    BY <1>3, <2>1, <2>2, <2>3 DEF receive_window
<1> QED
  BY <1>4, WindowsHeld DEF ShareIsKept

\* TransportBounds::tuning, for all limits that pass validation: saturated
\* transfers hold at most their windows, and if a frame fits into a share they
\* leave one share of the connection's window to the control and index streams,
\* the remainder of the division lost.
THEOREM ShareKept == FlowSpec => []ShareIsKept
<1>1. FlowInit => WindowInv
  BY WindowInit
<1>2. WindowInv /\ [FlowNext]_flowVars => WindowInv'
  BY WindowStep
<1>3. WindowInv => ShareIsKept
  BY WindowShare
<1> QED
  BY <1>1, <1>2, <1>3, PTL DEF FlowSpec

=============================================================================
