--------------------------- MODULE SessionProofs ---------------------------
(***************************************************************************)
(* Proofs about module Session, for every plan, every limit and with or    *)
(* without faults and early data.                                          *)
(***************************************************************************)
EXTENDS Session, TLAPS

(***************************************************************************)
(* `requesting` holds a file only after it took it from the channel.  This *)
(* is what makes `taken` an index of `transfer` when a stream is opened.   *)
(***************************************************************************)
HandInv == inHand => taken \in Files

TypeInv == TypeOK /\ HandInv

\* What the assumption on the constants says of the plan.
LEMMA PlanFacts ==
    /\ Len(Plan) \in Nat
    /\ \A k \in 1..Len(Plan) : Plan[k].source \in 1..SourceMessages
                             /\ Plan[k].local \in 1..LocalMessages
    /\ \A k \in Files : k \in 1..Len(Plan)
    /\ \A k \in 1..Len(Plan) : k \in Files <=> Plan[k].kind = "file"
<1> DEFINE Kind == [kind : {"file", "local"},
                   source : 1..SourceMessages, local : 1..LocalMessages]
<1>1. Plan \in Seq(Kind)
  BY SessionAssumption
<1> HIDE DEF Kind
<1>2. Len(Plan) \in Nat /\ \A k \in 1..Len(Plan) : Plan[k] \in Kind
  BY <1>1
<1>3. \A k \in 1..Len(Plan) : Plan[k].source \in 1..SourceMessages
                             /\ Plan[k].local \in 1..LocalMessages
  BY <1>2 DEF Kind
<1>4. QED
  BY <1>2, <1>3 DEF Files, Operations

\* The initial state is of the right type.
LEMMA TypeInit == Init => TypeInv
<1> SUFFICES ASSUME Init PROVE TypeInv
  OBVIOUS
<1>1. FlagsOK
  BY SessionAssumption, Zenon DEF Init, FlagsOK
<1>2. PhasesOK
  BY DEF Init, PhasesOK
<1>3. StreamsOK
  BY DEF Init, StreamsOK
<1>4. ChannelsOK
  BY PlanFacts, SessionAssumption DEF Init, ChannelsOK
<1>5. HandInv
  BY DEF Init, HandInv
<1>6. QED
  BY <1>1, <1>2, <1>3, <1>4, <1>5 DEF TypeInv, TypeOK

\* The connection's steps keep the types.
LEMMA ConnectionType == TypeInv /\ ConnectionStep => TypeInv'
<1> SUFFICES ASSUME TypeInv, ConnectionStep PROVE TypeInv'
  OBVIOUS
<1> USE SessionAssumption, PlanFacts
    DEF connection, sourceSide, destinationSide, streams, sourceIndex, serving,
        sourceControl, planner, destinationIndex, requesting,
        TypeInv, TypeOK, FlagsOK, PhasesOK, StreamsOK, ChannelsOK, HandInv
<1>1. CASE ServerDecides
  BY <1>1 DEF ServerDecides
<1>2. CASE SourceHandshake
  BY <1>2 DEF SourceHandshake
<1>3. CASE DestinationHandshake
  BY <1>3 DEF DestinationHandshake
<1>4. CASE SourceNotices
  BY <1>4 DEF SourceNotices
<1>5. CASE DestinationNotices
  BY <1>5 DEF DestinationNotices
<1>6. QED
  BY <1>1, <1>2, <1>3, <1>4, <1>5 DEF ConnectionStep

\* So do the source's,
LEMMA SourceType == TypeInv /\ SourceStep => TypeInv'
<1> SUFFICES ASSUME TypeInv, SourceStep PROVE TypeInv'
  OBVIOUS
<1> USE SessionAssumption, PlanFacts
    DEF connection, sourceSide, destinationSide, streams, sourceIndex, serving,
        sourceControl, planner, destinationIndex, requesting,
        TypeInv, TypeOK, FlagsOK, PhasesOK, StreamsOK, ChannelsOK, HandInv
<1>1. CASE SendStartSync
  BY <1>1 DEF SendStartSync
<1>2. CASE SourceScans
  BY <1>2 DEF SourceScans, ScanHasRoom
<1>3. CASE SendIndex
  BY <1>3 DEF SendIndex
<1>4. CASE ReceiveControl
  <2>1. control' \in Seq({"StartAccepted", "PlanEnd", "CompleteAck"})
    BY <1>4 DEF ReceiveControl
  <2>2. src' \in {"failed", "draining", "running"}
    BY <1>4 DEF ReceiveControl
  <2>3. accepted' \in BOOLEAN /\ planned' \in BOOLEAN
    BY <1>4, Zenon DEF ReceiveControl
  <2>4. UNCHANGED <<connection, sourceIndex, srcJoined, sourceControl,
                    destinationSide, transfer>>
    BY <1>4, Zenon DEF ReceiveControl
  <2>5. QED
    BY <2>1, <2>2, <2>3, <2>4
<1>5. ASSUME NEW k \in Files, AcceptTransfer(k) PROVE TypeInv'
  BY <1>5 DEF AcceptTransfer
<1>6. ASSUME NEW k \in Files, SendContent(k) PROVE TypeInv'
  BY <1>6 DEF SendContent
<1>7. ASSUME NEW k \in Files, ReceiveAccepted(k) PROVE TypeInv'
  BY <1>7 DEF ReceiveAccepted
<1>8. ASSUME NEW k \in Files, SourceJoins(k) PROVE TypeInv'
  BY <1>8 DEF SourceJoins
<1>9. CASE CloseControl
  BY <1>9 DEF CloseControl
<1>10. CASE SourceSucceeds
  BY <1>10 DEF SourceSucceeds
<1>11. CASE SourceAborts
  BY <1>11 DEF SourceAborts
<1>12. QED
  BY <1>1, <1>2, <1>3, <1>4, <1>5, <1>6, <1>7, <1>8, <1>9, <1>10, <1>11 DEF SourceStep, SourceGivesUp

\* the destination's,
LEMMA DestinationType == TypeInv /\ DestinationStep => TypeInv'
<1> SUFFICES ASSUME TypeInv, DestinationStep PROVE TypeInv'
  OBVIOUS
<1> USE SessionAssumption, PlanFacts
    DEF connection, sourceSide, destinationSide, streams, sourceIndex, serving,
        sourceControl, planner, destinationIndex, requesting,
        TypeInv, TypeOK, FlagsOK, PhasesOK, StreamsOK, ChannelsOK, HandInv
<1>1. CASE ReceiveStartSync
  BY <1>1 DEF ReceiveStartSync
<1>2. CASE DestinationScans
  BY <1>2 DEF DestinationScans
<1>3. CASE ReceiveIndex
  BY <1>3 DEF ReceiveIndex
<1>4. CASE SendStartAccepted
  BY <1>4 DEF SendStartAccepted, SendControl
<1>5. CASE PlannerReadsIndex
  BY <1>5 DEF PlannerReadsIndex
<1>6. CASE PlannerReadsLocal
  BY <1>6 DEF PlannerReadsLocal
<1>7. CASE EmitOperation
  BY <1>7 DEF EmitOperation
<1>8. CASE SendPlanEnd
  BY <1>8 DEF SendPlanEnd, SendControl
<1>9. CASE TakeOperation
  BY <1>9 DEF TakeOperation
<1>10. CASE OpenTransfer
  <2>1. taken \in Files /\ ~inHand'
    BY <1>10 DEF OpenTransfer
  <2>2. transfer' \in [Files -> {"none", "requested", "serving", "sent", "staged", "acked"}]
    BY <1>10, <2>1 DEF OpenTransfer
  <2>3. UNCHANGED <<connection, sourceSide, dst, planner, taken, dstJoined, live,
                    control>>
    BY <1>10, Zenon DEF OpenTransfer
  <2>4. inHand' \in BOOLEAN
    BY <1>10, Zenon DEF OpenTransfer
  <2>5. QED
    BY <2>1, <2>2, <2>3, <2>4, SMTT(60)
<1>11. ASSUME NEW k \in Files, StageContent(k) PROVE TypeInv'
  BY <1>11 DEF StageContent
<1>12. ASSUME NEW k \in Files, DestinationJoins(k) PROVE TypeInv'
  BY <1>12 DEF DestinationJoins
<1>13. CASE BeginCommit
  BY <1>13 DEF BeginCommit
<1>14. CASE EndCommit
  BY <1>14 DEF EndCommit
<1>15. CASE SendCompleteAck
  BY <1>15 DEF SendCompleteAck, SendControl
<1>16. CASE DestinationSucceeds
  BY <1>16 DEF DestinationSucceeds
<1>17. CASE DestinationAborts
  BY <1>17 DEF DestinationAborts
<1>18. QED
  BY <1>1, <1>2, <1>3, <1>4, <1>5, <1>6, <1>7, <1>8, <1>9, <1>10, <1>11, <1>12, <1>13, <1>14, <1>15, <1>16, <1>17 DEF DestinationStep, DestinationGivesUp

\* and the faults.
LEMMA FaultType == TypeInv /\ Fault => TypeInv'
<1> SUFFICES ASSUME TypeInv, Fault PROVE TypeInv'
  OBVIOUS
<1> USE SessionAssumption, PlanFacts
    DEF connection, sourceSide, destinationSide, streams, sourceIndex, serving,
        sourceControl, planner, destinationIndex, requesting,
        TypeInv, TypeOK, FlagsOK, PhasesOK, StreamsOK, ChannelsOK, HandInv
<1>1. CASE NetworkLost
  BY <1>1 DEF NetworkLost
<1>2. CASE SourceAborts
  BY <1>2 DEF SourceAborts
<1>3. CASE DestinationAborts
  BY <1>3 DEF DestinationAborts
<1>4. QED
  BY <1>1, <1>2, <1>3 DEF Fault, SourceFault, DestinationFault

\* The type invariant of Session is inductive with HandInv.
THEOREM TypeCorrect == Spec => []TypeInv
<1>1. Init => TypeInv
  BY TypeInit
<1>2. TypeInv /\ [Next]_vars => TypeInv'
  <2> SUFFICES ASSUME TypeInv, [Next]_vars PROVE TypeInv'
    OBVIOUS
  <2>1. CASE UNCHANGED vars
    BY <2>1 DEF vars, connection, sourceSide, destinationSide, streams,
       sourceIndex, serving, sourceControl, planner, destinationIndex, requesting,
       TypeInv, TypeOK, FlagsOK, PhasesOK, StreamsOK, ChannelsOK, HandInv
  <2>2. QED
    BY <2>1, ConnectionType, SourceType, DestinationType, FaultType DEF Next, Ended
<1>3. QED
  BY <1>1, <1>2, PTL DEF Spec

\* Spec keeps the type invariant, capacities of the channels included.
THEOREM TypesHold == Spec => []TypeOK
BY TypeCorrect, PTL DEF TypeInv

-----------------------------------------------------------------------------
(***************************************************************************)
(* The staging barrier.                                                    *)
(*                                                                         *)
(* StagingBarrier speaks of the state after the commit has begun.  What    *)
(* makes it true happens before: the plan ends only when everything is     *)
(* read and emitted, the files taken and no longer in hand are those with  *)
(* a transfer, a joined transfer is staged; and afterwards the phase of the  *)
(* destination and the state of the tree go together, so nothing of this   *)
(* changes any more.                                                       *)
(***************************************************************************)
PlanInv ==
    planning = "end" =>
        /\ emitted = Len(Plan)
        /\ planRead = SourceMessages /\ localRead = LocalMessages

RequestedInv ==
    \A k \in Files : transfer[k] # "none" <=> k < taken \/ (k = taken /\ ~inHand)

JoinedInv == \A k \in dstJoined : transfer[k] \in {"staged", "acked"}

PhaseInv ==
    /\ dst \in {"waiting", "running"} => live = "old"
    /\ dst = "committing" => live = "partial"
    /\ dst \in {"acking", "closing", "ok"} => live = "new"
    /\ live # "old" => planning = "end" /\ taken = Len(Plan) /\ dstJoined = Files

BarrierInv == PlanInv /\ RequestedInv /\ JoinedInv /\ PhaseInv


\* The barrier's variables, and the steps that leave them alone.
barrierVars == <<planning, emitted, planRead, localRead, taken, inHand, transfer,
                 dstJoined, dst, live>>

\* A step that leaves the barrier's variables alone is one of these.
BarrierIdle ==
    \/ ConnectionStep \/ NetworkLost
    \/ SendStartSync \/ SourceScans \/ SendIndex \/ ReceiveControl
    \/ \E k \in Files : SourceJoins(k)
    \/ CloseControl \/ SourceSucceeds \/ SourceAborts
    \/ DestinationScans \/ ReceiveIndex

LEMMA BarrierFrame == BarrierIdle => UNCHANGED barrierVars
<1> USE DEF barrierVars, destinationSide, planner, destinationIndex, requesting, streams
<1>1. ConnectionStep \/ NetworkLost => UNCHANGED barrierVars
  BY DEF ConnectionStep, ServerDecides, SourceHandshake, DestinationHandshake,
     SourceNotices, DestinationNotices, NetworkLost
<1>2. SendStartSync \/ SourceScans \/ SendIndex \/ ReceiveControl => UNCHANGED barrierVars
  BY DEF SendStartSync, SourceScans, SendIndex, ReceiveControl
<1>3. (\E k \in Files : SourceJoins(k)) \/ CloseControl \/ SourceSucceeds \/ SourceAborts
        => UNCHANGED barrierVars
  BY DEF SourceJoins, CloseControl, SourceSucceeds, SourceAborts
<1>4. DestinationScans \/ ReceiveIndex => UNCHANGED barrierVars
  BY DEF DestinationScans, ReceiveIndex
<1>5. QED
  BY <1>1, <1>2, <1>3, <1>4 DEF BarrierIdle

LEMMA BarrierInit == Init => BarrierInv
BY SessionAssumption, PlanFacts DEF Init, BarrierInv, PlanInv, RequestedInv, JoinedInv, PhaseInv

LEMMA BarrierStep == TypeInv /\ BarrierInv /\ [Next]_vars => BarrierInv'
<1> SUFFICES ASSUME TypeInv, BarrierInv, [Next]_vars PROVE BarrierInv'
  OBVIOUS
<1> USE SessionAssumption, PlanFacts
    DEF TypeInv, TypeOK, PhasesOK, StreamsOK, ChannelsOK, HandInv,
        BarrierInv, PlanInv, RequestedInv, JoinedInv, PhaseInv
<1>1. CASE UNCHANGED barrierVars
  BY <1>1 DEF barrierVars
<1>2. ASSUME NEW k \in Files, AcceptTransfer(k) PROVE BarrierInv'
  BY <1>2 DEF AcceptTransfer, destinationSide, planner, destinationIndex, requesting, streams
<1>3. ASSUME NEW k \in Files, SendContent(k) PROVE BarrierInv'
  BY <1>3 DEF SendContent, destinationSide, planner, destinationIndex, requesting, streams
<1>4. ASSUME NEW k \in Files, ReceiveAccepted(k) PROVE BarrierInv'
  BY <1>4 DEF ReceiveAccepted, destinationSide, planner, destinationIndex, requesting, streams
<1>5. CASE ReceiveStartSync
  BY <1>5 DEF ReceiveStartSync, destinationSide, planner, destinationIndex, requesting, streams
<1>6. CASE SendStartAccepted
  BY <1>6 DEF SendStartAccepted, destinationSide, planner, destinationIndex, requesting, streams
<1>7. CASE PlannerReadsIndex
  BY <1>7 DEF PlannerReadsIndex, SourceWanted, destinationSide, planner, destinationIndex, requesting, streams
<1>8. CASE PlannerReadsLocal
  BY <1>8 DEF PlannerReadsLocal, destinationSide, planner, destinationIndex, requesting, streams
<1>9. CASE EmitOperation
  BY <1>9 DEF EmitOperation, destinationSide, planner, destinationIndex, requesting, streams
<1>10. CASE SendPlanEnd
  BY <1>10 DEF SendPlanEnd, destinationSide, planner, destinationIndex, requesting, streams
<1>11. CASE TakeOperation
  <2>0. ~inHand /\ taken < emitted /\ taken' = taken + 1
    BY <1>11, Zenon DEF TakeOperation
  <2>1. taken \in Nat /\ taken + 1 \in 1..Len(Plan)
    BY <2>0
  <2>2. inHand' <=> taken + 1 \in Files
    BY <1>11, <2>1 DEF TakeOperation
  <2>3. UNCHANGED <<dst, planner, dstJoined, live, streams>>
    BY <1>11 DEF TakeOperation
  <2>4. RequestedInv'
    <3> SUFFICES ASSUME NEW k \in Files
                 PROVE (transfer[k] # "none") <=> (k < taken + 1 \/ (k = taken + 1 /\ ~inHand'))
      BY <2>0, <2>3 DEF streams
    <3>1. k \in Nat /\ (k < taken + 1 <=> k < taken \/ k = taken)
      BY <2>1, PlanFacts, SMTT(60)
    <3>2. transfer[k] # "none" <=> k < taken \/ k = taken
      BY <2>0, Zenon DEF RequestedInv, BarrierInv
    <3>3. QED
      BY <2>2, <3>1, <3>2
  <2>5. dst = "running"
    BY <1>11 DEF TakeOperation
  <2>6. QED
    BY <2>3, <2>4, <2>5 DEF planner, destinationIndex, streams
<1>12. CASE OpenTransfer
  <2>1. /\ inHand /\ ~inHand' /\ taken \in Files /\ dst = "running"
        /\ transfer' = [transfer EXCEPT ![taken] = "requested"]
    BY <1>12 DEF OpenTransfer
  <2>2. UNCHANGED <<dst, planner, taken, dstJoined, live>>
    BY <1>12 DEF OpenTransfer
  <2>3. RequestedInv'
    <3> SUFFICES ASSUME NEW k \in Files
                 PROVE (transfer'[k] # "none") <=> (k < taken \/ k = taken)
      BY <2>1, <2>2
    <3>1. k \in Nat /\ taken \in Nat
      BY <2>1, PlanFacts
    <3>2. transfer[k] # "none" <=> k < taken
      BY <2>1, <3>1
    <3>3. transfer'[k] = IF k = taken THEN "requested" ELSE transfer[k]
      BY <2>1
    <3>4. QED
      BY <3>1, <3>2, <3>3
  <2>4. taken \notin dstJoined
    <3>1. transfer[taken] = "none"
      BY <2>1
    <3>2. QED
      BY <3>1, Zenon DEF JoinedInv
  <2>5. JoinedInv'
    <3> SUFFICES ASSUME NEW k \in dstJoined PROVE transfer'[k] \in {"staged", "acked"}
      BY <2>2
    <3>1. k \in Files /\ k # taken
      BY <2>4
    <3>2. QED
      BY <2>1, <3>1
  <2>6. QED
    BY <2>1, <2>2, <2>3, <2>5 DEF planner, destinationIndex
<1>13. ASSUME NEW k \in Files, StageContent(k) PROVE BarrierInv'
  BY <1>13 DEF StageContent, destinationSide, planner, destinationIndex, requesting, streams
<1>14. ASSUME NEW k \in Files, DestinationJoins(k) PROVE BarrierInv'
  BY <1>14 DEF DestinationJoins, destinationSide, planner, destinationIndex, requesting, streams
<1>15. CASE BeginCommit
  <2>1. /\ planning = "end" /\ taken = Len(Plan) /\ ~inHand
        /\ DestinationJobs = {}
        /\ dst' = "committing" /\ live' = "partial"
    BY <1>15 DEF BeginCommit, AllStaged, PlanDrained
  <2>2. UNCHANGED <<planner, requesting, streams>>
    BY <1>15 DEF BeginCommit
  <2>3. \A k \in Files : transfer[k] # "none"
    BY <2>1
  <2>4. dstJoined = Files
    BY <2>1, <2>3 DEF DestinationJobs
  <2>5. QED
    BY <2>1, <2>2, <2>4 DEF planner, destinationIndex, requesting, streams
<1>16. CASE EndCommit
  BY <1>16 DEF EndCommit, destinationSide, planner, destinationIndex, requesting, streams
<1>17. CASE SendCompleteAck
  BY <1>17 DEF SendCompleteAck, CommitEnded, destinationSide, planner, destinationIndex, requesting, streams
<1>18. CASE DestinationSucceeds
  BY <1>18 DEF DestinationSucceeds, destinationSide, planner, destinationIndex, requesting, streams
<1>19. CASE DestinationAborts
  BY <1>19 DEF DestinationAborts, destinationSide, planner, destinationIndex, requesting, streams
<1>20. QED
  BY <1>1, <1>2, <1>3, <1>4, <1>5, <1>6, <1>7, <1>8, <1>9, <1>10, <1>11, <1>12, <1>13, <1>14, <1>15, <1>16, <1>17, <1>18, <1>19,
     BarrierFrame DEF Next, SourceStep, DestinationStep, Fault, Ended, vars, barrierVars,
     destinationSide, planner, destinationIndex, requesting, streams, BarrierIdle,
     SourceFault, SourceGivesUp, DestinationFault, DestinationGivesUp

\* Every reachable state satisfies the barrier's invariant.
THEOREM BarrierCorrect == Spec => [](TypeInv /\ BarrierInv)
<1>1. TypeInv /\ BarrierInv /\ [Next]_vars => BarrierInv'
  BY BarrierStep
<1>2. QED
  BY <1>1, BarrierInit, TypeCorrect, PTL DEF Spec

\* The live tree is touched only after the last record was read and the last
\* requested file was staged, in every attempt with any plan and any limits.
THEOREM BarrierHolds == Spec => []StagingBarrier
<1>1. TypeInv /\ BarrierInv => StagingBarrier
  BY DEF TypeInv, TypeOK, StreamsOK, BarrierInv, PlanInv, JoinedInv, PhaseInv,
     StagingBarrier
<1>2. QED
  BY <1>1, BarrierCorrect, PTL

-----------------------------------------------------------------------------
(***************************************************************************)
(* The control stream.                                                     *)
(*                                                                         *)
(* The destination sends three messages in order.  As long as the source   *)
(* reads the stream, the unread ones are those that follow the Received    *)
(* ones, and how many were sent is known from the phase of the planner and *)
(* of the destination; the third is sent only of a committed tree.         *)
(***************************************************************************)
Nth(n) == IF n = 1 THEN "StartAccepted" ELSE IF n = 2 THEN "PlanEnd" ELSE "CompleteAck"

Received == IF planned THEN 2 ELSE IF accepted THEN 1 ELSE 0

Sent == Received + Len(control)

Listening == src \in {"start", "running"}

OrderInv ==
    /\ planned => accepted
    /\ \A i \in 1..Len(control) : control[i] = Nth(Received + i)

SentInv ==
    /\ Sent <= 3
    /\ planning = "confirm" <=> Sent = 0
    /\ planning = "plan" <=> Sent = 1
    /\ Sent = 3 => live = "new" /\ dst # "acking"

ControlInv ==
    /\ Listening => OrderInv /\ SentInv
    /\ src \in {"draining", "closing", "ok"} => live = "new"

LEMMA ControlInit == Init => ControlInv
BY DEF Init, ControlInv, Listening, OrderInv, SentInv, Sent, Received

LEMMA ControlStep ==
    TypeInv /\ BarrierInv /\ BarrierInv' /\ ControlInv /\ [Next]_vars => ControlInv'
<1> SUFFICES ASSUME TypeInv, BarrierInv, BarrierInv', ControlInv, [Next]_vars
             PROVE ControlInv'
  OBVIOUS
<1> USE DEF TypeInv, TypeOK, PhasesOK, StreamsOK, BarrierInv, PhaseInv,
        ControlInv, Listening, OrderInv, SentInv, Sent, Received,
        sourceSide, destinationSide, streams, sourceIndex, serving, sourceControl,
        planner, destinationIndex, requesting
<1>1. CASE ConnectionStep \/ NetworkLost
  BY <1>1 DEF ConnectionStep, ServerDecides, SourceHandshake,
     DestinationHandshake, SourceNotices, DestinationNotices, NetworkLost
<1>2. CASE SendStartSync
  BY <1>2 DEF SendStartSync
<1>3. CASE SourceScans \/ SendIndex
  BY <1>3 DEF SourceScans, SendIndex
<1>4. CASE ReceiveControl
  <2>1. src = "running" /\ control # <<>>
    BY <1>4 DEF ReceiveControl
  <2>2. Len(control) \in Nat \ {0} /\ Head(control) = Nth(Received + 1)
    BY <2>1
  <2>3. /\ Len(control') = Len(control) - 1
        /\ \A i \in 1..Len(control') : control'[i] = control[i + 1]
    BY <1>4, <2>2 DEF ReceiveControl
  <2>4. Expected(Head(control))
    BY <2>1, <2>2 DEF Expected, Nth
  <2>5. /\ accepted' <=> accepted \/ Head(control) = "StartAccepted"
        /\ planned' <=> planned \/ Head(control) = "PlanEnd"
        /\ UNCHANGED <<planning, dst, live>>
    BY <1>4 DEF ReceiveControl
  <2>6. CASE Head(control) = "CompleteAck"
    <3>1. src' = "draining"
      BY <1>4, <2>4, <2>6 DEF ReceiveControl
    <3>2. Sent = 3
      BY <2>1, <2>2, <2>6 DEF Nth
    <3>3. QED
      BY <2>1, <2>5, <3>1, <3>2
  <2>7. CASE Head(control) # "CompleteAck"
    <3>1. src' = "running"
      BY <1>4, <2>4, <2>7 DEF ReceiveControl
    <3>2. Received' = Received + 1 /\ (planned' => accepted')
      BY <2>1, <2>2, <2>5, <2>7 DEF Nth
    <3>3. Sent' = Sent
      BY <2>2, <2>3, <3>2
    <3>4. \A i \in 1..Len(control') : control'[i] = Nth(Received' + i)
      <4> SUFFICES ASSUME NEW i \in 1..Len(control')
                   PROVE control'[i] = Nth(Received' + i)
        OBVIOUS
      <4>1. i + 1 \in 1..Len(control) /\ Received + (i + 1) = Received' + i
        BY <2>2, <2>3, <3>2
      <4>2. control[i + 1] = Nth(Received + (i + 1))
        BY <2>1, <4>1
      <4>3. QED
        BY <2>3, <4>1, <4>2
    <3> HIDE DEF Sent, Received
    <3>5. OrderInv'
      BY <3>2, <3>4
    <3>6. SentInv'
      BY <2>1, <2>5, <3>3
    <3>7. QED
      BY <3>1, <3>5, <3>6
  <2>8. QED
    BY <2>6, <2>7
<1>5. ASSUME NEW k \in Files, AcceptTransfer(k) \/ SendContent(k) \/ ReceiveAccepted(k)
      PROVE ControlInv'
  BY <1>5 DEF AcceptTransfer, SendContent, ReceiveAccepted
<1>6. ASSUME NEW k \in Files, SourceJoins(k)
      PROVE ControlInv'
  BY <1>6 DEF SourceJoins
<1>7. CASE CloseControl \/ SourceSucceeds \/ SourceAborts
  BY <1>7 DEF CloseControl, SourceSucceeds, SourceAborts
<1>8. CASE ReceiveStartSync \/ DestinationScans \/ ReceiveIndex
  BY <1>8 DEF ReceiveStartSync, DestinationScans, ReceiveIndex
<1>9. CASE SendStartAccepted
  BY <1>9 DEF SendStartAccepted, SendControl, Nth
<1>10. CASE PlannerReadsIndex \/ PlannerReadsLocal \/ EmitOperation
  BY <1>10 DEF PlannerReadsIndex, PlannerReadsLocal, EmitOperation
<1>11. CASE SendPlanEnd
  BY <1>11 DEF SendPlanEnd, SendControl, Nth
<1>12. CASE TakeOperation \/ OpenTransfer
  BY <1>12 DEF TakeOperation, OpenTransfer
<1>13. ASSUME NEW k \in Files, StageContent(k) \/ DestinationJoins(k)
      PROVE ControlInv'
  BY <1>13 DEF StageContent, DestinationJoins
<1>14. CASE BeginCommit \/ EndCommit
  BY <1>14 DEF BeginCommit, EndCommit
<1>15. CASE SendCompleteAck
  <2>1. /\ dst = "acking" /\ dst' = "closing" /\ live = "new"
        /\ control' = Append(control, "CompleteAck")
    BY <1>15 DEF SendCompleteAck, SendControl, CommitEnded
  <2>2. UNCHANGED <<src, accepted, planned, planning, live>>
    BY <1>15 DEF SendCompleteAck
  <2>3. planning = "end"
    BY <2>1
  <2>4. ASSUME Listening PROVE Sent = 2
    <3>1. Sent \in Nat
      OBVIOUS
    <3> HIDE DEF Sent
    <3>2. Sent <= 3 /\ Sent # 0 /\ Sent # 1 /\ Sent # 3
      BY <2>1, <2>3, <2>4
    <3>3. QED
      BY <3>1, <3>2
  <2>5. /\ Len(control') = Len(control) + 1
        /\ \A i \in 1..Len(control) : control'[i] = control[i]
        /\ control'[Len(control) + 1] = "CompleteAck"
    BY <2>1
  <2>6. ASSUME Listening PROVE OrderInv' /\ Sent' = 3
    <3>1. Received' = Received /\ Received \in Nat /\ Len(control) \in Nat
      BY <2>2
    <3>2. Received + Len(control) = 2
      BY <2>4, <2>6
    <3> HIDE DEF Received
    <3>3. \A i \in 1..Len(control') : control'[i] = Nth(Received' + i)
      BY <2>5, <2>6, <3>1, <3>2 DEF Nth
    <3>4. QED
      BY <2>2, <2>5, <2>6, <3>1, <3>2, <3>3
  <2>7. QED
    BY <2>1, <2>2, <2>3, <2>6
<1>16. CASE DestinationSucceeds \/ DestinationAborts
  BY <1>16 DEF DestinationSucceeds, DestinationAborts
<1>17. CASE UNCHANGED vars
  BY <1>17 DEF vars
<1>18. QED
  BY <1>1, <1>2, <1>3, <1>4, <1>5, <1>6, <1>7, <1>8, <1>9, <1>10, <1>11, <1>12, <1>13, <1>14, <1>15, <1>16, <1>17
  DEF Next, SourceStep, DestinationStep, Fault, Ended, SourceFault, SourceGivesUp,
      DestinationFault, DestinationGivesUp

\* The conjunction of the three invariants is what the remaining theorems use.
Inv == TypeInv /\ BarrierInv /\ ControlInv

\* Inv is an invariant of the attempt.
THEOREM InvCorrect == Spec => []Inv
<1>1. TypeInv /\ BarrierInv /\ BarrierInv' /\ ControlInv /\ [Next]_vars => ControlInv'
  BY ControlStep
<1>2. QED
  BY <1>1, ControlInit, BarrierCorrect, PTL DEF Spec, Inv

\* Neither side reports success, nor has the source seen CompleteAck, unless
\* the tree is committed completely.
THEOREM SuccessHolds == Spec => []SuccessMeansCommitted
<1>1. Inv => SuccessMeansCommitted
  BY DEF Inv, BarrierInv, PhaseInv, ControlInv, SuccessMeansCommitted
<1>2. QED
  BY <1>1, InvCorrect, PTL

\* The source never meets an unexpected control message, and when it reads
\* CompleteAck no transfer is left that it has not accepted.
THEOREM ControlHolds == Spec => []ControlExpected
<1>1. Inv => ControlExpected
  <2> SUFFICES ASSUME Inv, src = "running", control # <<>>
               PROVE /\ Expected(Head(control))
                     /\ Head(control) = "CompleteAck" =>
                           \A k \in Files : transfer[k] \in {"staged", "acked"}
    BY DEF ControlExpected
  <2> USE DEF Inv, TypeInv, TypeOK, StreamsOK, FlagsOK, ControlInv, Listening,
              OrderInv, SentInv
  <2>1. Len(control) \in Nat \ {0} /\ Head(control) = Nth(Received + 1)
    BY DEF Received
  <2>2. Expected(Head(control))
    BY <2>1 DEF Expected, Nth, Received
  <2>3. ASSUME Head(control) = "CompleteAck" PROVE live = "new"
    <3>1. Sent \in Nat /\ Sent >= 3
      BY <2>1, <2>3 DEF Sent, Nth, Received
    <3>2. Sent = 3
      BY <3>1
    <3>3. QED
      BY <3>2
  <2>4. QED
    BY <2>2, <2>3 DEF BarrierInv, PhaseInv, JoinedInv
<1>2. QED
  BY <1>1, InvCorrect, PTL

-----------------------------------------------------------------------------
(***************************************************************************)
(* Before the handshake.  Each side's first step past StartSync waits for  *)
(* its gate, and nothing the gate depends on is ever taken back: what the  *)
(* destination does follows from StartAccepted, which `planning` sends     *)
(* after its gate, and what the source does is guarded by its own.         *)
(***************************************************************************)
SourceGateInv ==
    /\ srcConfirmed => earlyData # "undecided"
    /\ ~(srcConfirmed /\ earlyData = "accepted") =>
          /\ indexSent = 0 /\ ~accepted
          /\ \A k \in Files : transfer[k] \in {"none", "requested"}

DestinationGateInv ==
    ~dstConfirmed =>
        /\ planning = "confirm" /\ control = <<>> /\ live = "old"
        /\ dst \in {"waiting", "running", "failed"}
        /\ emitted = 0 /\ ~inHand
        /\ \A k \in Files : transfer[k] = "none"

GateInv == SourceGateInv /\ DestinationGateInv

\* Nothing has been sent when the attempt starts.
LEMMA GateInit == Init => GateInv
  BY DEF Init, GateInv, SourceGateInv, DestinationGateInv

\* The connection's steps decide the gates and never undo them.
LEMMA GateConnection == GateInv /\ (ConnectionStep \/ NetworkLost) => GateInv'
<1> USE DEF sourceSide, sourceIndex, serving, sourceControl, destinationSide, planner,
            destinationIndex, requesting, streams, GateInv, SourceGateInv, DestinationGateInv
<1>1. ASSUME GateInv, ServerDecides PROVE GateInv'
  BY <1>1 DEF ServerDecides
<1>2. ASSUME GateInv, SourceHandshake PROVE GateInv'
  BY <1>2 DEF SourceHandshake
<1>3. ASSUME GateInv, DestinationHandshake PROVE GateInv'
  BY <1>3 DEF DestinationHandshake
<1>4. ASSUME GateInv, SourceNotices \/ DestinationNotices \/ NetworkLost PROVE GateInv'
  BY <1>4 DEF SourceNotices, DestinationNotices, NetworkLost
<1> QED
  BY <1>1, <1>2, <1>3, <1>4 DEF ConnectionStep

\* The source's steps: the first ones past StartSync are behind its gate.
LEMMA GateSource == TypeInv /\ GateInv /\ (SourceStep \/ SourceFault) => GateInv'
<1> SUFFICES ASSUME TypeInv, GateInv, SourceStep \/ SourceFault PROVE GateInv'
  OBVIOUS
<1> USE DEF connection, sourceIndex, serving, sourceControl, destinationSide, planner,
            requesting, streams, sourceSide
<1>1. StreamsOK /\ SourceGateInv /\ DestinationGateInv
  BY DEF GateInv, TypeInv, TypeOK
<1>2. ASSUME SendStartSync \/ SourceScans \/ CloseControl \/ SourceSucceeds
             \/ SourceGivesUp \/ SourceFault
      PROVE  GateInv'
  BY <1>1, <1>2 DEF SendStartSync, SourceScans, CloseControl, SourceSucceeds, SourceGivesUp,
     SourceFault, SourceAborts, GateInv, SourceGateInv, DestinationGateInv
<1>3. ASSUME SendIndex PROVE GateInv'
  BY <1>1, <1>3 DEF SendIndex, SourceGate, GateInv, SourceGateInv, DestinationGateInv
<1>4. ASSUME ReceiveControl PROVE GateInv'
  BY <1>1, <1>4 DEF ReceiveControl, SourceGate, GateInv, SourceGateInv, DestinationGateInv
<1>5. ASSUME NEW k \in Files, AcceptTransfer(k) PROVE GateInv'
  BY <1>1, <1>5 DEF AcceptTransfer, SourceGate, StreamsOK, GateInv, SourceGateInv,
     DestinationGateInv
<1>6. ASSUME NEW k \in Files, SendContent(k) \/ ReceiveAccepted(k) PROVE GateInv'
  <2>1. transfer[k] \notin {"none", "requested"}
    BY <1>6 DEF SendContent, ReceiveAccepted
  <2>2. srcConfirmed /\ earlyData = "accepted" /\ dstConfirmed
    BY <1>1, <2>1 DEF SourceGateInv, DestinationGateInv
  <2>3. UNCHANGED <<srcConfirmed, earlyData, dstConfirmed>>
    BY <1>6 DEF SendContent, ReceiveAccepted
  <2> QED
    BY <2>2, <2>3 DEF GateInv, SourceGateInv, DestinationGateInv
<1>7. ASSUME NEW k \in Files, SourceJoins(k) PROVE GateInv'
  BY <1>1, <1>7 DEF SourceJoins, GateInv, SourceGateInv, DestinationGateInv
<1> QED
  BY <1>2, <1>3, <1>4, <1>5, <1>6, <1>7 DEF SourceStep

\* The destination's steps: all follow from StartAccepted, behind its gate.
LEMMA GateDestination == TypeInv /\ GateInv /\ (DestinationStep \/ DestinationFault) => GateInv'
<1> SUFFICES ASSUME TypeInv, GateInv, DestinationStep \/ DestinationFault PROVE GateInv'
  OBVIOUS
<1> USE DEF connection, sourceIndex, serving, sourceControl, sourceSide, destinationSide,
            planner, destinationIndex, requesting, streams
<1>1. /\ StreamsOK /\ SourceGateInv /\ DestinationGateInv
      /\ taken \in Nat /\ emitted \in Nat /\ inHand \in BOOLEAN /\ dstConfirmed \in BOOLEAN
      /\ taken <= emitted
  BY SessionAssumption DEF GateInv, TypeInv, TypeOK, ChannelsOK, FlagsOK
<1>2. ASSUME ReceiveStartSync \/ DestinationScans \/ ReceiveIndex \/ PlannerReadsIndex
             \/ PlannerReadsLocal
      PROVE  GateInv'
  BY <1>1, <1>2 DEF ReceiveStartSync, DestinationScans, ReceiveIndex, PlannerReadsIndex,
     PlannerReadsLocal, GateInv, SourceGateInv, DestinationGateInv
<1>3. ASSUME SendStartAccepted \/ SendPlanEnd \/ EmitOperation PROVE GateInv'
  <2>1. dstConfirmed /\ UNCHANGED dstConfirmed
    BY <1>1, <1>3 DEF SendStartAccepted, SendPlanEnd, EmitOperation, DestinationGateInv
  <2>2. UNCHANGED <<srcConfirmed, earlyData, indexSent, accepted, transfer>>
    BY <1>3 DEF SendStartAccepted, SendPlanEnd, EmitOperation
  <2> QED
    BY <1>1, <2>1, <2>2 DEF GateInv, SourceGateInv, DestinationGateInv
<1>4. ASSUME TakeOperation PROVE GateInv'
  <2>1. dstConfirmed /\ UNCHANGED dstConfirmed
    BY <1>1, <1>4 DEF TakeOperation, DestinationGateInv
  <2>2. UNCHANGED <<srcConfirmed, earlyData, indexSent, accepted, transfer>>
    BY <1>4 DEF TakeOperation
  <2> QED
    BY <1>1, <2>1, <2>2 DEF GateInv, SourceGateInv, DestinationGateInv
<1>5. ASSUME OpenTransfer PROVE GateInv'
  <2>1. dstConfirmed /\ UNCHANGED dstConfirmed
    BY <1>1, <1>5 DEF OpenTransfer, DestinationGateInv
  <2>2. /\ UNCHANGED <<srcConfirmed, earlyData, indexSent, accepted>>
        /\ \A k \in Files : transfer'[k] \in {transfer[k], "requested"}
    BY <1>1, <1>5 DEF OpenTransfer, StreamsOK
  <2> QED
    BY <1>1, <2>1, <2>2 DEF GateInv, SourceGateInv, DestinationGateInv
<1>6. ASSUME NEW k \in Files, StageContent(k) PROVE GateInv'
  <2>1. srcConfirmed /\ earlyData = "accepted" /\ dstConfirmed
    BY <1>1, <1>6 DEF StageContent, SourceGateInv, DestinationGateInv
  <2>2. UNCHANGED <<srcConfirmed, earlyData, dstConfirmed>>
    BY <1>6 DEF StageContent
  <2> QED
    BY <2>1, <2>2 DEF GateInv, SourceGateInv, DestinationGateInv
<1>7. ASSUME NEW k \in Files, DestinationJoins(k) PROVE GateInv'
  BY <1>1, <1>7 DEF DestinationJoins, GateInv, SourceGateInv, DestinationGateInv
<1>8. ASSUME BeginCommit \/ EndCommit \/ SendCompleteAck \/ DestinationSucceeds
      PROVE  GateInv'
  <2>1. dstConfirmed /\ UNCHANGED dstConfirmed
    BY <1>1, <1>8 DEF BeginCommit, AllStaged, PlanDrained, EndCommit, SendCompleteAck,
       CommitEnded, DestinationSucceeds, DestinationGateInv
  <2>2. UNCHANGED <<srcConfirmed, earlyData, indexSent, accepted, transfer>>
    BY <1>8 DEF BeginCommit, EndCommit, SendCompleteAck, DestinationSucceeds
  <2> QED
    BY <1>1, <2>1, <2>2 DEF GateInv, SourceGateInv, DestinationGateInv
<1>9. ASSUME DestinationGivesUp \/ DestinationFault PROVE GateInv'
  BY <1>1, <1>9 DEF DestinationGivesUp, DestinationFault, DestinationAborts, GateInv,
     SourceGateInv, DestinationGateInv
<1> QED
  BY <1>2, <1>3, <1>4, <1>5, <1>6, <1>7, <1>8, <1>9 DEF DestinationStep

\* Until its handshake is complete, and if early data is refused, a side of the
\* session does nothing but exchange StartSync, whatever the plan and limits.
THEOREM GateHolds == Spec => []OnlyNotificationEarly
<1>1. TypeInv /\ GateInv /\ [Next]_vars => GateInv'
  <2>1. GateInv /\ UNCHANGED vars => GateInv'
    BY DEF vars, connection, sourceSide, sourceIndex, serving, destinationSide, planner,
           requesting, streams, GateInv, SourceGateInv, DestinationGateInv
  <2> QED
    BY <2>1, GateConnection, GateSource, GateDestination DEF Next, Fault, Ended
<1>2. GateInv => OnlyNotificationEarly
  BY DEF GateInv, SourceGateInv, DestinationGateInv, OnlyNotificationEarly, SourceJobs
<1> QED
  BY <1>1, <1>2, GateInit, TypeCorrect, PTL DEF Spec

-----------------------------------------------------------------------------
(***************************************************************************)
(* The attempt implements module Attempt: the tree is `live`, and a side   *)
(* reports nothing until it has ended.                                     *)
(***************************************************************************)
outcomes == <<live, Outcome(src), Outcome(dst)>>

\* A step within a side's running phases, on an unchanged tree, is a stutter.
LEMMA StepSimulation == Inv /\ [Next]_vars => [Promise!Next]_(Promise!vars)
<1> SUFFICES ASSUME Inv, [Next]_vars, ~UNCHANGED outcomes PROVE Promise!Next
  BY DEF outcomes, Promise!vars
<1> USE DEF Inv, TypeInv, TypeOK, PhasesOK, BarrierInv, PhaseInv, ControlInv, outcomes,
        Outcome, sourceSide, destinationSide, SrcEnded, DstEnded,
        Promise!Next, Promise!BeginCommit, Promise!EndCommit, Promise!SenderSucceeds,
        Promise!ReceiverSucceeds, Promise!SenderFails, Promise!ReceiverFails
<1>1. CASE ConnectionStep \/ NetworkLost
  BY <1>1 DEF ConnectionStep, ServerDecides, SourceHandshake,
     DestinationHandshake, SourceNotices, DestinationNotices, NetworkLost
<1>2. CASE SendStartSync
  BY <1>2 DEF SendStartSync
<1>3. CASE SourceScans \/ SendIndex
  BY <1>3 DEF SourceScans, SendIndex
<1>4. CASE ReceiveControl
  BY <1>4 DEF ReceiveControl
<1>5. ASSUME NEW k \in Files, AcceptTransfer(k) \/ SendContent(k) \/ ReceiveAccepted(k)
      PROVE Promise!Next
  BY <1>5 DEF AcceptTransfer, SendContent, ReceiveAccepted
<1>6. ASSUME NEW k \in Files, SourceJoins(k)
      PROVE Promise!Next
  BY <1>6 DEF SourceJoins
<1>7. CASE CloseControl
  BY <1>7 DEF CloseControl
<1>8. CASE SourceSucceeds
  BY <1>8 DEF SourceSucceeds
<1>9. CASE SourceAborts
  BY <1>9 DEF SourceAborts
<1>10. CASE ReceiveStartSync \/ DestinationScans \/ ReceiveIndex
  BY <1>10 DEF ReceiveStartSync, DestinationScans, ReceiveIndex
<1>11. CASE SendStartAccepted \/ SendPlanEnd
  BY <1>11 DEF SendStartAccepted, SendPlanEnd
<1>12. CASE PlannerReadsIndex \/ PlannerReadsLocal \/ EmitOperation
  BY <1>12 DEF PlannerReadsIndex, PlannerReadsLocal, EmitOperation
<1>13. CASE TakeOperation \/ OpenTransfer
  BY <1>13 DEF TakeOperation, OpenTransfer
<1>14. ASSUME NEW k \in Files, StageContent(k) \/ DestinationJoins(k)
      PROVE Promise!Next
  BY <1>14 DEF StageContent, DestinationJoins
<1>15. CASE BeginCommit
  BY <1>15 DEF BeginCommit
<1>16. CASE EndCommit
  BY <1>16 DEF EndCommit
<1>17. CASE SendCompleteAck
  BY <1>17 DEF SendCompleteAck, CommitEnded
<1>18. CASE DestinationSucceeds
  BY <1>18 DEF DestinationSucceeds
<1>19. CASE DestinationAborts
  BY <1>19 DEF DestinationAborts
<1>20. CASE UNCHANGED vars
  BY <1>20 DEF vars
<1>21. QED
  BY <1>1, <1>2, <1>3, <1>4, <1>5, <1>6, <1>7, <1>8, <1>9, <1>10,
     <1>11, <1>12, <1>13, <1>14, <1>15, <1>16, <1>17, <1>18, <1>19, <1>20
  DEF Next, SourceStep, DestinationStep, Fault, Ended, SourceFault, SourceGivesUp,
      DestinationFault, DestinationGivesUp

\* One attempt keeps the promise of module Attempt: the tree goes from old to
\* new through one commit, success is reported only of the new tree, and a
\* destination that has reported leaves its tree alone.
THEOREM PromiseHolds == Spec => KeepsPromise
<1>1. Init => Promise!Init
  BY DEF Init, Promise!Init, Outcome
<1>2. Inv /\ [Next]_vars => [Promise!Next]_(Promise!vars)
  BY StepSimulation
<1>3. QED
  BY <1>1, <1>2, InvCorrect, PTL DEF Spec, KeepsPromise, Promise!Spec

=============================================================================
