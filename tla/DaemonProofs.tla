---------------------------- MODULE DaemonProofs ----------------------------
(***************************************************************************)
(* The guarantees of a daemon over many attempts, for any number of        *)
(* clients, roots, attempts, copies of a flight and crashes.               *)
(*                                                                         *)
(* A client completes the handshake of an attempt once, and then no longer *)
(* dials it: this ties the attempt to a single call, and what is committed *)
(* to the latest attempt that has passed the gate.                         *)
(*                                                                         *)
(* The second part is about the identity that every command of the program *)
(* loads or creates before it does anything else (module Identity).        *)
(***************************************************************************)
EXTENDS Daemon, Identity, FiniteSetTheorems, TLAPS

\* The calls that have passed the gate.
Gated == {"confirmed", "committing", "acking"}

\* Calls that have read the root and not yet changed it.
Planning == {"started", "confirmed", "committing"}

OneCall == \A k, l \in calls : k = l

CallsInv ==
    \A k \in calls :
        /\ k.phase \in Gated => k.handshake
        /\ k.phase # "accepted" => MaySync(k.flight.client, Root(k))
        /\ k.phase \in Planning => k.base = version[Root(k)]

FlightsInv ==
    /\ \A f \in DOMAIN arrived : f.number <= number[f.client]
    /\ \A i \in 1..Len(incoming) : incoming[i].number <= number[incoming[i].client]

\* An attempt in the past, or one whose handshake is complete.
Spent(f) == f.number <= number[f.client] /\ ~Alive(f, "dialling")

SpentInv ==
    /\ \A k \in calls : k.flight.number <= number[k.flight.client]
    /\ \A k \in calls : k.handshake => Spent(k.flight)
    /\ \A i \in 1..Len(commits) : Spent(commits[i].flight)

\* What is committed is older than what is about to be.
OlderInv ==
    \A i \in 1..Len(commits) : \A k \in calls :
        /\ k.handshake /\ k.phase # "acking"
        /\ k.flight.client = commits[i].flight.client
        => commits[i].flight.number < k.flight.number

NumbersInv == FlightsInv /\ SpentInv /\ OlderInv

IInv ==
    /\ TypeOK
    /\ OneCall /\ CallsInv /\ NumbersInv
    /\ AttemptsInOrder /\ PlansAreFresh /\ AuthorizedOnly

-----------------------------------------------------------------------------
LEMMA InvInit == Init => IInv
<1> SUFFICES ASSUME Init PROVE IInv
  OBVIOUS
<1>1. TypeOK
  BY DEF Init, TypeOK
<1>2. OneCall /\ CallsInv /\ NumbersInv
  BY DEF Init, OneCall, CallsInv, NumbersInv, FlightsInv, SpentInv, OlderInv
<1>3. AttemptsInOrder /\ PlansAreFresh /\ AuthorizedOnly
  BY DEF Init, AttemptsInOrder, PlansAreFresh, AuthorizedOnly
<1> QED
  BY <1>1, <1>2, <1>3 DEF IInv

\* Serve is awaited: the daemon never has two calls.
LEMMA OneCallStep == OneCall /\ [Next]_vars => OneCall'
<1> SUFFICES ASSUME OneCall, [Next]_vars PROVE OneCall'
  OBVIOUS
<1> USE DEF OneCall, vars, clients, process
<1>1. ASSUME NEW c \in Clients, Connect(c) PROVE OneCall'
  BY <1>1 DEF Connect
<1>2. ASSUME NEW c \in Clients, GiveUp(c) PROVE OneCall'
  BY <1>2 DEF GiveUp, Exit
<1>3. ASSUME NEW f \in DOMAIN arrived, Arrive(f) PROVE OneCall'
  BY <1>3 DEF Arrive
<1>4. ASSUME NEW k \in calls, Handshake(k) PROVE OneCall'
  BY <1>4 DEF Handshake, Exit, Fail, AfterError, Advance, Alive
<1>5. ASSUME NEW k \in calls, ReadStartSync(k) PROVE OneCall'
  BY <1>5 DEF ReadStartSync, Fail, AfterError, Advance
<1>6. ASSUME NEW k \in calls, Confirm(k) PROVE OneCall'
  BY <1>6 DEF Confirm, Advance, Confirmed
<1>7. ASSUME NEW k \in calls, BeginCommit(k) PROVE OneCall'
  BY <1>7 DEF BeginCommit, Advance
<1>8. ASSUME NEW k \in calls, EndCommit(k) PROVE OneCall'
  BY <1>8 DEF EndCommit, Advance, Fail, AfterError, Changed
<1>9. ASSUME NEW k \in calls, Complete(k) PROVE OneCall'
  BY <1>9 DEF Complete, Alive
<1>10. ASSUME NEW k \in calls, ServeFails(k) PROVE OneCall'
  BY <1>10 DEF ServeFails, Fail, AfterError
<1>11. CASE Accept
  BY <1>11 DEF Accept, Free
<1>12. CASE AcceptFails
  BY <1>12 DEF AcceptFails, Free, AfterError
<1>13. CASE Crash
  BY <1>13 DEF Crash
<1>14. CASE Restart
  BY <1>14 DEF Restart
<1>15. CASE UNCHANGED vars
  BY <1>15
<1> QED
  BY <1>1, <1>2, <1>3, <1>4, <1>5, <1>6, <1>7, <1>8, <1>9, <1>10, <1>11,
     <1>12, <1>13, <1>14, <1>15
  DEF Next, Loop, Serve, Proceed

\* A crash counts at most one commit.
LEMMA CrashCount ==
    ASSUME OneCall, NEW S \in SUBSET calls
    PROVE  Cardinality(S) \in Nat
<1>1. CASE S = {}
  BY <1>1, FS_EmptySet
<1>2. ASSUME NEW k \in S PROVE Cardinality(S) \in Nat
  <2>1. S = {k}
    BY <1>2 DEF OneCall
  <2> QED
    BY <2>1, FS_Singleton
<1> QED
  BY <1>1, <1>2

\* The steps of serve keep a call's type.
LEMMA CallTypes ==
    ASSUME NEW k \in Call
    PROVE  /\ k.flight \in Flight /\ k.flight.client \in Clients
           /\ k.flight.number \in Nat /\ k.base \in Nat
           /\ [k EXCEPT !.handshake = TRUE] \in Call
           /\ [k EXCEPT !.phase = "confirmed"] \in Call
           /\ [k EXCEPT !.phase = "committing"] \in Call
           /\ [k EXCEPT !.phase = "acking"] \in Call
           /\ \A n \in Nat : [k EXCEPT !.phase = "started", !.base = n] \in Call
BY DEF Call, Flight

LEMMA TypeStep == TypeOK /\ OneCall /\ CallsInv /\ [Next]_vars => TypeOK'
<1> SUFFICES ASSUME TypeOK, OneCall, CallsInv, [Next]_vars PROVE TypeOK'
  OBVIOUS
<1> USE DaemonAssumption DEF TypeOK, vars, clients, process
<1>1. ASSUME NEW c \in Clients, Connect(c) PROVE TypeOK'
  <2>1. [client |-> c, number |-> number[c] + 1, early |-> c \in ticket] \in Flight
    BY DEF Flight
  <2> QED
    BY <1>1, <2>1 DEF Connect
<1>2. ASSUME NEW c \in Clients, GiveUp(c) PROVE TypeOK'
  BY <1>2 DEF GiveUp, Exit
<1>3. ASSUME NEW f \in DOMAIN arrived, Arrive(f) PROVE TypeOK'
  BY <1>3 DEF Arrive
<1>4. ASSUME NEW k \in calls, Handshake(k) PROVE TypeOK'
  <2>1. k.flight.client \in Clients /\ [k EXCEPT !.handshake = TRUE] \in Call
    BY CallTypes
  <2> QED
    BY <1>4, <2>1 DEF Handshake, Exit, Fail, AfterError, Advance
<1>5. ASSUME NEW k \in calls, ReadStartSync(k) PROVE TypeOK'
  <2>1. MaySync(k.flight.client, Root(k)) => version[Root(k)] \in Nat
    BY DEF MaySync
  <2>2. MaySync(k.flight.client, Root(k)) =>
            [k EXCEPT !.phase = "started", !.base = version[Root(k)]] \in Call
    BY <2>1, CallTypes
  <2> QED
    BY <1>5, <2>2 DEF ReadStartSync, Fail, AfterError, Advance
<1>6. ASSUME NEW k \in calls, Confirm(k) PROVE TypeOK'
  BY <1>6, CallTypes DEF Confirm, Advance, Confirmed
<1>7. ASSUME NEW k \in calls, BeginCommit(k) PROVE TypeOK'
  BY <1>7, CallTypes DEF BeginCommit, Advance
<1>8. ASSUME NEW k \in calls, EndCommit(k) PROVE TypeOK'
  <2>1. version[Root(k)] \in Nat
    BY <1>8 DEF EndCommit, CallsInv, MaySync
  <2>2. [k EXCEPT !.phase = "acking"] \in Call
    BY CallTypes
  <2>3. [flight |-> k.flight, base |-> k.base, version |-> version[Root(k)]]
            \in [flight : Flight, base : Nat, version : Nat]
    BY <2>1, CallTypes
  <2>4. commits' \in Seq([flight : Flight, base : Nat, version : Nat])
    <3> DEFINE Entry == [flight : Flight, base : Nat, version : Nat]
               new == [flight |-> k.flight, base |-> k.base, version |-> version[Root(k)]]
    <3>1. commits' = commits \/ commits' = Append(commits, new)
      BY <1>8 DEF EndCommit
    <3>2. commits \in Seq(Entry) /\ new \in Entry
      BY <2>3
    <3> HIDE DEF Entry, new, TypeOK
    <3>3. commits' \in Seq(Entry)
      BY <3>1, <3>2
    <3> QED
      BY <3>3 DEF Entry
  <2>5. version' \in [Roots -> Nat]
    <3>1. version' = [version EXCEPT ![Root(k)] = version[Root(k)] + 1]
      BY <1>8 DEF EndCommit, Changed
    <3>2. version \in [Roots -> Nat] /\ version[Root(k)] + 1 \in Nat
      BY <2>1
    <3> HIDE DEF TypeOK
    <3> QED
      BY <3>1, <3>2
  <2>6. calls' \subseteq Call /\ daemon' = daemon
    BY <1>8, <2>2 DEF EndCommit, Advance, Fail, AfterError
  <2>7. UNCHANGED <<clients, arrived, crashes, remembers, incoming>>
    BY <1>8 DEF EndCommit, Fail
  <2> QED
    BY <2>4, <2>5, <2>6, <2>7
<1>9. ASSUME NEW k \in calls, Complete(k) PROVE TypeOK'
  BY <1>9, CallTypes DEF Complete
<1>10. ASSUME NEW k \in calls, ServeFails(k) PROVE TypeOK'
  BY <1>10 DEF ServeFails, Fail, AfterError
<1>11. CASE Accept
  <2>1. Head(incoming) \in Flight /\ Tail(incoming) \in Seq(Flight)
    BY <1>11 DEF Accept
  <2>2. \A readable \in BOOLEAN :
            [flight |-> Head(incoming), readable |-> readable, handshake |-> FALSE,
             phase |-> "accepted", base |-> 0] \in Call
    BY <2>1 DEF Call
  <2>3. (Head(incoming).early /\ Head(incoming).client \in remembers) \in BOOLEAN
    OBVIOUS
  <2> QED
    BY <1>11, <2>1, <2>2, <2>3 DEF Accept
<1>12. CASE AcceptFails
  BY <1>12 DEF AcceptFails, Free, AfterError
<1>13. CASE Crash
  <2>1. ASSUME NEW r \in Roots
        PROVE  version[r] + Cardinality({k \in calls : k.phase = "committing" /\ Root(k) = r})
                    \in Nat
    <3>1. Cardinality({k \in calls : k.phase = "committing" /\ Root(k) = r}) \in Nat
      BY CrashCount
    <3>2. version[r] \in Nat
      OBVIOUS
    <3> QED
      BY <3>1, <3>2
  <2>2. version' \in [Roots -> Nat]
    BY <1>13, <2>1 DEF Crash
  <2> QED
    BY <1>13, <2>2 DEF Crash
<1>14. CASE Restart
  BY <1>14 DEF Restart
<1>15. CASE UNCHANGED vars
  BY <1>15
<1> QED
  BY <1>1, <1>2, <1>3, <1>4, <1>5, <1>6, <1>7, <1>8, <1>9, <1>10, <1>11,
     <1>12, <1>13, <1>14, <1>15
  DEF Next, Loop, Serve, Proceed

\* Every stage of a call rests on the stages before it, and no commit of
\* another call can come between its scan and its own commit.
LEMMA CallsStep == TypeOK /\ OneCall /\ CallsInv /\ [Next]_vars => CallsInv'
<1> SUFFICES ASSUME TypeOK, OneCall, CallsInv, [Next]_vars PROVE CallsInv'
  OBVIOUS
<1> USE DaemonAssumption
    DEF TypeOK, OneCall, CallsInv, Gated, Planning, Root, vars, clients, process
<1>1. ASSUME NEW c \in Clients, Connect(c) PROVE CallsInv'
  BY <1>1 DEF Connect
<1>2. ASSUME NEW c \in Clients, GiveUp(c) PROVE CallsInv'
  BY <1>2 DEF GiveUp, Exit
<1>3. ASSUME NEW f \in DOMAIN arrived, Arrive(f) PROVE CallsInv'
  BY <1>3 DEF Arrive
<1>4. ASSUME NEW k \in calls, Handshake(k) PROVE CallsInv'
  <2> DEFINE l == [k EXCEPT !.handshake = TRUE]
  <2>1. l.flight = k.flight /\ l.handshake /\ l.base = k.base /\ l.phase = k.phase
    BY DEF Call
  <2>2. calls' \subseteq {l} /\ UNCHANGED version
    BY <1>4 DEF Handshake, Fail, Advance
  <2> HIDE DEF l, TypeOK
  <2> QED
    BY <2>1, <2>2
<1>5. ASSUME NEW k \in calls, ReadStartSync(k) PROVE CallsInv'
  <2> DEFINE l == [k EXCEPT !.phase = "started", !.base = version[Root(k)]]
  <2>1. /\ l.flight = k.flight /\ l.handshake = k.handshake
        /\ l.base = version[Root(k)] /\ l.phase = "started"
    BY DEF Call
  <2>2. /\ calls' = {} \/ (MaySync(k.flight.client, Root(k)) /\ calls' = {l})
        /\ UNCHANGED version
    BY <1>5 DEF ReadStartSync, Fail, Advance
  <2> HIDE DEF l, TypeOK
  <2> QED
    BY <2>1, <2>2
<1>6. ASSUME NEW k \in calls, Confirm(k) PROVE CallsInv'
  <2> DEFINE l == [k EXCEPT !.phase = "confirmed"]
  <2>1. /\ l.flight = k.flight /\ l.handshake = k.handshake
        /\ l.base = k.base /\ l.phase = "confirmed"
    BY DEF Call
  <2>2. calls' = {l} /\ k.handshake /\ k.phase = "started" /\ UNCHANGED version
    BY <1>6 DEF Confirm, Confirmed, Advance
  <2> HIDE DEF l, TypeOK
  <2> QED
    BY <2>1, <2>2
<1>7. ASSUME NEW k \in calls, BeginCommit(k) PROVE CallsInv'
  <2> DEFINE l == [k EXCEPT !.phase = "committing"]
  <2>1. /\ l.flight = k.flight /\ l.handshake = k.handshake
        /\ l.base = k.base /\ l.phase = "committing"
    BY DEF Call
  <2>2. calls' = {l} /\ k.phase = "confirmed" /\ UNCHANGED version
    BY <1>7 DEF BeginCommit, Advance
  <2> HIDE DEF l, TypeOK
  <2> QED
    BY <2>1, <2>2
<1>8. ASSUME NEW k \in calls, EndCommit(k) PROVE CallsInv'
  <2> DEFINE l == [k EXCEPT !.phase = "acking"]
  <2>1. /\ l.flight = k.flight /\ l.handshake = k.handshake
        /\ l.base = k.base /\ l.phase = "acking"
    BY DEF Call
  <2>2. calls' \subseteq {l} /\ k.phase = "committing"
    BY <1>8 DEF EndCommit, Fail, Advance
  <2> HIDE DEF l, TypeOK
  <2> QED
    BY <2>1, <2>2
<1>9. ASSUME NEW k \in calls, Complete(k) PROVE CallsInv'
  BY <1>9 DEF Complete, Alive
<1>10. ASSUME NEW k \in calls, ServeFails(k) PROVE CallsInv'
  BY <1>10 DEF ServeFails, Fail, AfterError
<1>11. CASE Accept
  BY <1>11 DEF Accept, Free
<1>12. CASE AcceptFails
  BY <1>12 DEF AcceptFails, Free, AfterError
<1>13. CASE Crash
  BY <1>13 DEF Crash
<1>14. CASE Restart
  BY <1>14 DEF Restart
<1>15. CASE UNCHANGED vars
  BY <1>15
<1> QED
  BY <1>1, <1>2, <1>3, <1>4, <1>5, <1>6, <1>7, <1>8, <1>9, <1>10, <1>11,
     <1>12, <1>13, <1>14, <1>15
  DEF Next, Loop, Serve, Proceed

\* What is spent stays spent: numbers only grow, and only Connect dials.
LEMMA SpentStays ==
    ASSUME TypeOK, [Next]_vars, NEW f \in Flight, f.number <= number[f.client]
    PROVE  f.number <= number'[f.client] /\ (Spent(f) => Spent(f)')
<1> USE DEF TypeOK, Flight, Spent, Alive, vars, clients, process
<1>1. ASSUME NEW c \in Clients, Connect(c)
      PROVE  f.number <= number'[f.client] /\ (Spent(f) => Spent(f)')
  BY <1>1 DEF Connect
<1>2. ASSUME UNCHANGED number, \A c \in Clients : client'[c] = "dialling" => client[c] = "dialling"
      PROVE  f.number <= number'[f.client] /\ (Spent(f) => Spent(f)')
  BY <1>2
<1>3. ASSUME NEW c \in Clients, GiveUp(c)
      PROVE  /\ UNCHANGED number
             /\ \A d \in Clients : client'[d] = "dialling" => client[d] = "dialling"
  BY <1>3 DEF GiveUp, Exit
<1>4. ASSUME NEW k \in calls, Serve(k)
      PROVE  /\ UNCHANGED number
             /\ \A d \in Clients : client'[d] = "dialling" => client[d] = "dialling"
  BY <1>4 DEF Serve, Proceed, Handshake, Exit, ReadStartSync, Confirm, BeginCommit, EndCommit, Complete,
              ServeFails
<1>5. (\E c \in Clients : Connect(c)) \/ (\E c \in Clients : GiveUp(c))
      \/ (\E k \in calls : Serve(k)) \/ UNCHANGED <<client, number>>
  BY DEF Next, Loop, Arrive, Accept, AcceptFails, Crash, Restart
<1> QED
  BY <1>1, <1>2, <1>3, <1>4, <1>5

\* Where the calls after a step come from.
LEMMA CallsFrom ==
    ASSUME TypeOK, OneCall, CallsInv, [Next]_vars, NEW l \in calls'
    PROVE  \/ /\ incoming # << >> /\ l.flight = Head(incoming) /\ ~l.handshake
              /\ UNCHANGED commits
           \/ \E k \in calls :
                /\ l.flight = k.flight
                /\ l.phase # "acking" => k.phase # "acking" /\ UNCHANGED commits
                /\ l.handshake /\ ~k.handshake =>
                        Alive(k.flight, "dialling") /\ client'[k.flight.client] = "connected"
<1> DEFINE New == /\ incoming # << >> /\ l.flight = Head(incoming) /\ ~l.handshake
                  /\ UNCHANGED commits
           From(k) == /\ l.flight = k.flight
                      /\ l.phase # "acking" => k.phase # "acking" /\ UNCHANGED commits
                      /\ l.handshake /\ ~k.handshake =>
                            Alive(k.flight, "dialling") /\ client'[k.flight.client] = "connected"
<1> USE DEF TypeOK, Call
<1>1. ASSUME NEW k \in calls, Handshake(k) PROVE From(k)
  <2>1. k.flight.client \in Clients
    BY CallTypes
  <2>2. /\ l = [k EXCEPT !.handshake = TRUE]
        /\ client' = [client EXCEPT ![k.flight.client] = "connected"]
    BY <1>1 DEF Handshake, Fail, Advance, OneCall
  <2> QED
    BY <1>1, <2>1, <2>2 DEF Handshake
<1>2. ASSUME NEW k \in calls, ReadStartSync(k) PROVE From(k)
  <2>1. l = [k EXCEPT !.phase = "started", !.base = version[Root(k)]]
    BY <1>2 DEF ReadStartSync, Fail, Advance, OneCall
  <2> QED
    BY <1>2, <2>1 DEF ReadStartSync
<1>3. ASSUME NEW k \in calls, Confirm(k) PROVE From(k)
  BY <1>3 DEF Confirm, Advance, OneCall
<1>4. ASSUME NEW k \in calls, BeginCommit(k) PROVE From(k)
  BY <1>4 DEF BeginCommit, Advance, OneCall
<1>5. ASSUME NEW k \in calls, EndCommit(k) PROVE From(k)
  <2>1. l = [k EXCEPT !.phase = "acking"]
    BY <1>5 DEF EndCommit, Fail, Advance, OneCall
  <2> QED
    BY <2>1
<1>6. ASSUME NEW k \in calls, Complete(k) \/ ServeFails(k) PROVE FALSE
  BY <1>6 DEF Complete, ServeFails, Fail, OneCall
<1>7. CASE Accept
  <2>1. \E r \in BOOLEAN : l = [flight |-> Head(incoming), readable |-> r, handshake |-> FALSE,
                                 phase |-> "accepted", base |-> 0]
    BY <1>7 DEF Accept, Free
  <2> QED
    BY <1>7, <2>1 DEF Accept
<1>8. ASSUME l \in calls, UNCHANGED commits PROVE From(l)
  BY <1>8
<1>9. (\E k \in calls : Serve(k)) \/ Accept \/ (l \in calls /\ UNCHANGED commits)
  BY DEF Next, Loop, Connect, GiveUp, Arrive, AcceptFails, Crash, Restart, vars
<1> QED
  BY <1>1, <1>2, <1>3, <1>4, <1>5, <1>6, <1>7, <1>8, <1>9 DEF Serve, Proceed

\* Where the commits after a step come from.
LEMMA CommitsFrom ==
    ASSUME TypeOK, [Next]_vars
    PROVE  \/ UNCHANGED commits
           \/ \E k \in calls :
                /\ k.phase = "committing"
                /\ commits' = Append(commits,
                        [flight |-> k.flight, base |-> k.base, version |-> version[Root(k)]])
BY DEF Next, vars, Loop, Serve, Proceed, Connect, GiveUp, Arrive, Accept, AcceptFails, Handshake,
       ReadStartSync, Confirm, BeginCommit, EndCommit, Complete, ServeFails, Crash, Restart

LEMMA FlightsStep == TypeOK /\ FlightsInv /\ [Next]_vars => FlightsInv'
<1> SUFFICES ASSUME TypeOK, FlightsInv, [Next]_vars PROVE FlightsInv'
  OBVIOUS
<1> USE DEF TypeOK, FlightsInv
<1>1. ASSUME NEW c \in Clients, Connect(c) PROVE FlightsInv'
  <2> DEFINE new == [client |-> c, number |-> number[c] + 1, early |-> c \in ticket]
  <2>1. DOMAIN arrived' = DOMAIN arrived \cup {new} /\ number' = [number EXCEPT ![c] = @ + 1]
        /\ UNCHANGED incoming
    BY <1>1 DEF Connect
  <2>2. \A d \in Clients : number[d] <= number'[d]
    BY <2>1
  <2>3. new.number <= number'[new.client]
    BY <2>1
  <2>4. \A f \in DOMAIN arrived : f.client \in Clients /\ f.number \in Nat
    BY DEF Flight
  <2>5. \A i \in 1..Len(incoming) : incoming[i] \in Flight
    OBVIOUS
  <2>6. \A i \in 1..Len(incoming) : incoming[i].client \in Clients /\ incoming[i].number \in Nat
    BY <2>5 DEF Flight
  <2>7. \A d \in Clients : number[d] \in Nat /\ number'[d] \in Nat
    BY <2>1
  <2> HIDE DEF new, TypeOK
  <2>8. \A f \in DOMAIN arrived : f.number <= number'[f.client]
    BY <2>2, <2>4, <2>7
  <2>9. \A i \in 1..Len(incoming) : incoming[i].number <= number'[incoming[i].client]
    BY <2>2, <2>6, <2>7
  <2> QED
    BY <2>1, <2>3, <2>8, <2>9
<1>2. ASSUME NEW f \in DOMAIN arrived, Arrive(f) PROVE FlightsInv'
  BY <1>2 DEF Arrive, clients
<1>3. CASE Accept \/ AcceptFails
  <2>1. incoming' = Tail(incoming) /\ incoming # << >> /\ UNCHANGED <<number, arrived>>
    BY <1>3 DEF Accept, AcceptFails, clients
  <2>2. Len(incoming') = Len(incoming) - 1
        /\ \A i \in 1..Len(incoming') : incoming'[i] = incoming[i + 1] /\ i + 1 \in 1..Len(incoming)
    BY <2>1
  <2> QED
    BY <2>1, <2>2
<1>4. CASE Crash
  BY <1>4 DEF Crash, clients
<1>5. ASSUME UNCHANGED <<number, arrived, incoming>> PROVE FlightsInv'
  BY <1>5
<1>6. \/ \E c \in Clients : Connect(c)
      \/ \E f \in DOMAIN arrived : Arrive(f)
      \/ Accept \/ AcceptFails \/ Crash \/ UNCHANGED <<number, arrived, incoming>>
  BY DEF Next, vars, Loop, Serve, Proceed, GiveUp, Exit, Handshake, ReadStartSync, Confirm, BeginCommit,
         EndCommit, Complete, ServeFails, Restart, clients
<1> QED
  BY <1>1, <1>2, <1>3, <1>4, <1>5, <1>6

\* A handshake uses up the attempt it belongs to.
LEMMA NumbersStep == TypeOK /\ OneCall /\ CallsInv /\ NumbersInv /\ [Next]_vars => NumbersInv'
<1> SUFFICES ASSUME TypeOK, OneCall, CallsInv, NumbersInv, [Next]_vars PROVE NumbersInv'
  OBVIOUS
<1> USE DEF NumbersInv
<1>1. FlightsInv'
  BY FlightsStep
<1>2. \A k \in calls : /\ k \in Call
                       /\ k.flight \in Flight /\ k.flight.number <= number[k.flight.client]
  BY CallTypes DEF TypeOK, SpentInv
<1>3. \A i \in 1..Len(commits) : commits[i].flight \in Flight /\ Spent(commits[i].flight)
  <2>1. \A i \in 1..Len(commits) : commits[i] \in [flight : Flight, base : Nat, version : Nat]
    <3> DEFINE Entry == [flight : Flight, base : Nat, version : Nat]
    <3>1. commits \in Seq(Entry)
      BY DEF TypeOK
    <3> HIDE DEF Entry
    <3>2. \A i \in 1..Len(commits) : commits[i] \in Entry
      BY <3>1
    <3> QED
      BY <3>2 DEF Entry
  <2> QED
    BY <2>1 DEF SpentInv
<1>4. incoming # << >> =>
        Head(incoming) \in Flight /\ Head(incoming).number <= number[Head(incoming).client]
  <2>1. incoming # << >> => Head(incoming) = incoming[1] /\ 1 \in 1..Len(incoming)
    BY DEF TypeOK
  <2>2. \A i \in 1..Len(incoming) : incoming[i] \in Flight
    BY DEF TypeOK
  <2> QED
    BY <2>1, <2>2 DEF FlightsInv
<1>5. ASSUME NEW l \in calls'
      PROVE  l.flight.number <= number'[l.flight.client] /\ (l.handshake => Spent(l.flight)')
  <2>1. CASE incoming # << >> /\ l.flight = Head(incoming) /\ ~l.handshake
    BY <2>1, <1>4, SpentStays
  <2>2. ASSUME NEW k \in calls, l.flight = k.flight,
               l.handshake /\ ~k.handshake => client'[k.flight.client] = "connected"
        PROVE  l.flight.number <= number'[l.flight.client] /\ (l.handshake => Spent(l.flight)')
    <3>1. l.flight.number <= number'[l.flight.client]
      BY <2>2, <1>2, SpentStays
    <3>2. k.handshake => Spent(k.flight)'
      BY <1>2, SpentStays DEF SpentInv
    <3>3. client'[k.flight.client] = "connected" => Spent(l.flight)'
      BY <2>2, <3>1 DEF Spent, Alive
    <3> QED
      BY <2>2, <3>1, <3>2, <3>3
  <2> QED
    BY <2>1, <2>2, CallsFrom
<1>6. ASSUME NEW i \in 1..Len(commits') PROVE Spent(commits[i].flight)'
  <2>1. CASE UNCHANGED commits
    BY <2>1, <1>3, SpentStays DEF Spent
  <2>2. ASSUME NEW k \in calls, k.phase = "committing",
               commits' = Append(commits,
                    [flight |-> k.flight, base |-> k.base, version |-> version[Root(k)]])
        PROVE  Spent(commits[i].flight)'
    <3>1. Spent(k.flight)'
      BY <2>2, <1>2, SpentStays DEF SpentInv, CallsInv, Gated
    <3>2. commits'[i].flight = k.flight \/ (i \in 1..Len(commits) /\ commits'[i] = commits[i])
      BY <2>2 DEF TypeOK
    <3> QED
      BY <3>1, <3>2, <1>3, SpentStays DEF Spent
  <2> QED
    BY <2>1, <2>2, CommitsFrom
<1>7. ASSUME NEW i \in 1..Len(commits'), NEW l \in calls', l.handshake, l.phase # "acking",
             l.flight.client = commits'[i].flight.client
      PROVE  commits'[i].flight.number < l.flight.number
  <2>1. PICK k \in calls :
            /\ l.flight = k.flight /\ k.phase # "acking" /\ UNCHANGED commits
            /\ k.handshake \/ Alive(k.flight, "dialling")
    BY <1>7, CallsFrom
  <2>2. CASE k.handshake
    BY <1>7, <2>1, <2>2 DEF OlderInv
  <2>3. CASE Alive(k.flight, "dialling")
    <3>1. PICK g \in Flight : g = commits'[i].flight /\ Spent(g)
      BY <1>3, <2>1
    <3>2. PICK h \in Flight : h = k.flight
      BY <1>2
    <3>3. h.client = g.client
      BY <1>7, <2>1, <3>1, <3>2
    <3>4. number[h.client] = h.number /\ client[h.client] = "dialling"
      BY <2>3, <3>2 DEF Alive
    <3>5. g.number <= number[g.client] /\ g.number # number[g.client]
      BY <3>1, <3>3, <3>4 DEF Spent, Alive
    <3>6. g.number \in Nat /\ h.number \in Nat
      BY DEF Flight
    <3>7. g.number < h.number
      BY <3>3, <3>4, <3>5, <3>6
    <3> QED
      BY <2>1, <3>1, <3>2, <3>7
  <2> QED
    BY <2>1, <2>2, <2>3
<1>8. SpentInv'
  BY <1>5, <1>6 DEF SpentInv
<1>9. OlderInv'
  BY <1>7 DEF OlderInv
<1> QED
  BY <1>1, <1>8, <1>9

\* A commit is appended with what its call guarantees.
LEMMA CommitsStep ==
    ASSUME IInv, [Next]_vars
    PROVE  AttemptsInOrder' /\ PlansAreFresh' /\ AuthorizedOnly'
<1>1. CASE UNCHANGED commits
  BY <1>1 DEF IInv, AttemptsInOrder, PlansAreFresh, AuthorizedOnly
<1>2. ASSUME NEW k \in calls, EndCommit(k), ~UNCHANGED commits
      PROVE  AttemptsInOrder' /\ PlansAreFresh' /\ AuthorizedOnly'
  <2> DEFINE new == [flight |-> k.flight, base |-> k.base, version |-> version[Root(k)]]
  <2>1. commits' = Append(commits, new) /\ k.phase = "committing"
    BY <1>2 DEF EndCommit
  <2>2. commits \in Seq([flight : Flight, base : Nat, version : Nat])
    BY DEF IInv, TypeOK
  <2>3. k.handshake /\ MaySync(k.flight.client, Root(k)) /\ k.base = version[Root(k)]
    BY <2>1 DEF IInv, CallsInv, Gated, Planning
  <2>4. \A i \in 1..Len(commits) :
            commits[i].flight.client = k.flight.client =>
                commits[i].flight.number < k.flight.number
    BY <2>1, <2>3 DEF IInv, NumbersInv, OlderInv
  <2>5. Len(commits') = Len(commits) + 1 /\ commits'[Len(commits) + 1] = new
        /\ \A i \in 1..Len(commits) : commits'[i] = commits[i]
    BY <2>1, <2>2
  <2>6. AttemptsInOrder'
    <3> SUFFICES ASSUME NEW i \in 1..Len(commits'), NEW j \in 1..Len(commits'), i < j,
                        commits'[i].flight.client = commits'[j].flight.client
                 PROVE  commits'[i].flight.number < commits'[j].flight.number
      BY DEF AttemptsInOrder
    <3>1. Len(commits) \in Nat
      BY <2>2
    <3>2. i \in 1..Len(commits) /\ commits'[i] = commits[i]
      BY <2>5, <3>1
    <3>3. CASE j \in 1..Len(commits)
      BY <2>5, <3>2, <3>3 DEF IInv, AttemptsInOrder
    <3>4. CASE j = Len(commits) + 1
      BY <2>4, <2>5, <3>2, <3>4
    <3> QED
      BY <2>5, <3>1, <3>3, <3>4
  <2>7. PlansAreFresh'
    BY <2>2, <2>3, <2>5, SMTT(30) DEF IInv, PlansAreFresh
  <2>8. AuthorizedOnly'
    BY <2>2, <2>3, <2>5, SMTT(30) DEF IInv, AuthorizedOnly, MaySync, Root
  <2> QED
    BY <2>6, <2>7, <2>8
<1>3. UNCHANGED commits \/ \E k \in calls : EndCommit(k)
  BY DEF Next, vars, Loop, Serve, Proceed, Connect, GiveUp, Arrive, Accept, AcceptFails, Handshake,
         ReadStartSync, Confirm, BeginCommit, Complete, ServeFails, Crash, Restart
<1> QED
  BY <1>1, <1>2, <1>3

LEMMA InvStep == IInv /\ [Next]_vars => IInv'
BY OneCallStep, TypeStep, CallsStep, NumbersStep, CommitsStep DEF IInv

LEMMA InvHolds == Spec => []IInv
BY InvInit, InvStep, PTL DEF Spec

-----------------------------------------------------------------------------
\* The types, and that the daemon never leaves its loop.
THEOREM TypeCorrect == Spec => []TypeOK
<1>1. IInv => TypeOK
  BY DEF IInv
<1> QED
  BY <1>1, InvHolds, PTL

\* Delayed and duplicated first flights never repeat an attempt, or carry out
\* an old one after a newer one of the same source.
THEOREM AttemptsOrdered == Spec => []AttemptsInOrder
<1>1. IInv => AttemptsInOrder
  BY DEF IInv
<1> QED
  BY <1>1, InvHolds, PTL

\* Every commit finds the root as its plan's scan has left it.
THEOREM PlansFresh == Spec => []PlansAreFresh
<1>1. IInv => PlansAreFresh
  BY DEF IInv
<1> QED
  BY <1>1, InvHolds, PTL

\* Passing TLS is not enough: a root is changed for its own peers only.
THEOREM OnlyAuthorized == Spec => []AuthorizedOnly
<1>1. IInv => AuthorizedOnly
  BY DEF IInv
<1> QED
  BY <1>1, InvHolds, PTL

-----------------------------------------------------------------------------
(***************************************************************************)
(* The identity of a machine is unique and stays, for any number of        *)
(* commands and keys.                                                      *)
(*                                                                         *)
(* Two arguments.  The certificate is never removed and never changes the  *)
(* key it was made for, and whoever returns an identity has seen that      *)
(* certificate: this needs nothing about the key file and survives I/O     *)
(* errors.  Unless writing the certificate has failed, the process that    *)
(* created the key file is alone with it until the certificate is there or *)
(* the key is removed again.                                               *)
(***************************************************************************)
\* The steps at which a process has created the key file.
Holding == {"writeKey", "openCertificate", "writeCertificate", "removeKey"}

\* What holds of the certificate, whatever fails.
CertificateInv ==
    /\ certificate.whole => certificate.exists
    /\ \A f \in returned : certificate.whole /\ f = certificate.of
    /\ \A p \in Processes :
        /\ pc[p] = "writeCertificate" => certificate.exists /\ certificate.of = mine[p]
        /\ pc[p] = "readKey" /\ mine[p] # None =>
               certificate.whole /\ certificate.of = mine[p]

\* What holds of the key while no certificate was left half written.
KeyInv ==
    /\ key.whole => key.exists
    /\ certificate.exists => key.whole /\ key.of = certificate.of
    /\ \A p \in Processes :
        /\ pc[p] \in Holding => key.exists /\ key.of = mine[p]
        /\ pc[p] \in Holding \ {"writeKey"} => key.whole
        /\ pc[p] \in Holding \ {"writeCertificate"} => ~certificate.exists
    /\ \A p, q \in Processes : pc[p] \in Holding /\ pc[q] \in Holding => p = q

\* Without crashes an unfinished pair of files has somebody working on it.
OwnedInv ==
    /\ ~key.exists => key.of = None
    /\ ~certificate.exists => certificate.of = None
    /\ key.exists /\ ~key.whole => \E p \in Processes : pc[p] = "writeKey"
    /\ key.exists /\ ~certificate.exists =>
           \E p \in Processes : pc[p] \in {"writeKey", "openCertificate", "removeKey"}
    /\ certificate.exists /\ ~certificate.whole =>
           \E p \in Processes : pc[p] = "writeCertificate"

\* Only a process that loads may have read no fingerprint.
CreatingInv == \A p \in Processes : pc[p] \in Creating => mine[p] # None

IdentityInv ==
    /\ IdentityTypeOK
    /\ CreatingInv
    /\ CertificateInv
    /\ "writeCertificate" \notin torn => KeyInv
    /\ torn = {} /\ ~crashed => OwnedInv

-----------------------------------------------------------------------------
\* What the steps write into the two paths are files.
LEMMA FileTypes ==
    /\ NoFile \in File
    /\ \A f \in Fingerprints \cup {None} : Partial(f) \in File /\ Whole(f) \in File
BY DEF NoFile, Partial, Whole, File

\* At first there are no files and nobody has begun.
LEMMA IdentityStarts == IdentityInit => IdentityInv
<1> SUFFICES ASSUME IdentityInit PROVE IdentityInv
  OBVIOUS
<1>1. IdentityTypeOK
  BY FileTypes DEF IdentityInit, IdentityTypeOK, Steps
<1>2. CertificateInv /\ KeyInv /\ OwnedInv /\ CreatingInv
  BY DEF IdentityInit, CertificateInv, KeyInv, OwnedInv, CreatingInv, NoFile, Holding, Creating
<1> QED
  BY <1>1, <1>2 DEF IdentityInv

\* Every step keeps the types, and a creation goes on with the key it has made.
LEMMA IdentityTypeStep ==
    ASSUME IdentityTypeOK, CreatingInv, [IdentityNext]_identityVars
    PROVE  IdentityTypeOK' /\ CreatingInv'
<1> USE FileTypes, IdentityAssumption DEF IdentityTypeOK, CreatingInv, Steps, Creating, Goto, files, local
<1>0. certificate.exists \in BOOLEAN /\ certificate.of \in Fingerprints \cup {None}
  BY DEF File
<1>1. ASSUME NEW p \in Processes, Begin(p) PROVE IdentityTypeOK' /\ CreatingInv'
  BY <1>0, <1>1 DEF Begin, Seen
<1>2. ASSUME NEW p \in Processes, Load(p) PROVE IdentityTypeOK' /\ CreatingInv'
  BY <1>2 DEF Load, Seen
<1>3. ASSUME NEW p \in Processes, Create(p) PROVE IdentityTypeOK' /\ CreatingInv'
  BY <1>3 DEF Create, Seen
<1>4. ASSUME NEW p \in Processes, Refuse(p) PROVE IdentityTypeOK' /\ CreatingInv'
  BY <1>4 DEF Refuse, Seen
<1>5. ASSUME NEW p \in Processes, ReadCertificate(p) PROVE IdentityTypeOK' /\ CreatingInv'
  BY <1>0, <1>5 DEF ReadCertificate
<1>6. ASSUME NEW p \in Processes, ReadKey(p) PROVE IdentityTypeOK' /\ CreatingInv'
  BY <1>6 DEF ReadKey
<1>7. ASSUME NEW p \in Processes, OpenKey(p) PROVE IdentityTypeOK' /\ CreatingInv'
  BY <1>7 DEF OpenKey, MayCreateKey, LeaveKey
<1>8. ASSUME NEW p \in Processes, WriteKey(p) PROVE IdentityTypeOK' /\ CreatingInv'
  BY <1>8 DEF WriteKey
<1>9. ASSUME NEW p \in Processes, OpenCertificate(p) PROVE IdentityTypeOK' /\ CreatingInv'
  BY <1>9 DEF OpenCertificate
<1>10. ASSUME NEW p \in Processes, WriteCertificate(p) PROVE IdentityTypeOK' /\ CreatingInv'
  BY <1>10 DEF WriteCertificate
<1>11. ASSUME NEW p \in Processes, RemoveKey(p) PROVE IdentityTypeOK' /\ CreatingInv'
  BY <1>11 DEF RemoveKey, Remaining
<1>12. ASSUME NEW p \in Processes, IOError(p) PROVE IdentityTypeOK' /\ CreatingInv'
  BY <1>12 DEF IOError, Writing
<1>13. ASSUME NEW p \in Processes, CommandCrash(p) PROVE IdentityTypeOK' /\ CreatingInv'
  BY <1>13 DEF CommandCrash
<1>14. CASE UNCHANGED identityVars
  BY <1>14 DEF identityVars
<1> QED
  BY <1>1, <1>2, <1>3, <1>4, <1>5, <1>6, <1>7, <1>8, <1>9, <1>10, <1>11, <1>12, <1>13, <1>14 DEF IdentityNext

\* The certificate only ever appears and becomes whole.
LEMMA CertificateStep == IdentityTypeOK /\ CertificateInv /\ [IdentityNext]_identityVars => CertificateInv'
<1> SUFFICES ASSUME IdentityTypeOK, CertificateInv, [IdentityNext]_identityVars PROVE CertificateInv'
  OBVIOUS
<1> USE IdentityAssumption DEF IdentityTypeOK, File, CertificateInv, Goto, files, local
<1>1. ASSUME NEW p \in Processes, Begin(p) PROVE CertificateInv'
  BY <1>1 DEF Begin, Seen
<1>2. ASSUME NEW p \in Processes, Load(p) PROVE CertificateInv'
  BY <1>2 DEF Load, Seen
<1>3. ASSUME NEW p \in Processes, Create(p) PROVE CertificateInv'
  BY <1>3 DEF Create, Seen
<1>4. ASSUME NEW p \in Processes, Refuse(p) PROVE CertificateInv'
  BY <1>4 DEF Refuse, Seen
<1>5. ASSUME NEW p \in Processes, ReadCertificate(p) PROVE CertificateInv'
  BY <1>5 DEF ReadCertificate
<1>6. ASSUME NEW p \in Processes, ReadKey(p) PROVE CertificateInv'
  BY <1>6 DEF ReadKey
<1>7. ASSUME NEW p \in Processes, OpenKey(p) PROVE CertificateInv'
  BY <1>7 DEF OpenKey, MayCreateKey, LeaveKey, Partial
<1>8. ASSUME NEW p \in Processes, WriteKey(p) PROVE CertificateInv'
  BY <1>8 DEF WriteKey, Whole
<1>9. ASSUME NEW p \in Processes, OpenCertificate(p) PROVE CertificateInv'
  BY <1>9 DEF OpenCertificate, Partial
<1>10. ASSUME NEW p \in Processes, WriteCertificate(p) PROVE CertificateInv'
  BY <1>10 DEF WriteCertificate, Whole
<1>11. ASSUME NEW p \in Processes, RemoveKey(p) PROVE CertificateInv'
  BY <1>11 DEF RemoveKey, NoFile, Remaining
<1>12. ASSUME NEW p \in Processes, IOError(p) PROVE CertificateInv'
  BY <1>12 DEF IOError, Whole, Writing
<1>13. ASSUME NEW p \in Processes, CommandCrash(p) PROVE CertificateInv'
  BY <1>13 DEF CommandCrash
<1>14. CASE UNCHANGED identityVars
  BY <1>14 DEF identityVars
<1> QED
  BY <1>1, <1>2, <1>3, <1>4, <1>5, <1>6, <1>7, <1>8, <1>9, <1>10, <1>11, <1>12, <1>13, <1>14 DEF IdentityNext

\* The creator of the key is alone with it until the certificate is there.
LEMMA KeyStep ==
    ASSUME IdentityTypeOK, KeyInv, [IdentityNext]_identityVars, "writeCertificate" \notin torn'
    PROVE  KeyInv'
<1> USE IdentityAssumption DEF IdentityTypeOK, File, KeyInv, Holding, Goto, files, local
<1>1. ASSUME NEW p \in Processes, Begin(p) PROVE KeyInv'
  BY <1>1 DEF Begin, Seen
<1>2. ASSUME NEW p \in Processes, Load(p) PROVE KeyInv'
  BY <1>2 DEF Load, Seen
<1>3. ASSUME NEW p \in Processes, Create(p) PROVE KeyInv'
  BY <1>3 DEF Create, Seen
<1>4. ASSUME NEW p \in Processes, Refuse(p) PROVE KeyInv'
  BY <1>4 DEF Refuse, Seen
<1>5. ASSUME NEW p \in Processes, ReadCertificate(p) PROVE KeyInv'
  BY <1>5 DEF ReadCertificate
<1>6. ASSUME NEW p \in Processes, ReadKey(p) PROVE KeyInv'
  BY <1>6 DEF ReadKey
<1>7. ASSUME NEW p \in Processes, OpenKey(p) PROVE KeyInv'
  BY <1>7 DEF OpenKey, MayCreateKey, LeaveKey, Partial
<1>8. ASSUME NEW p \in Processes, WriteKey(p) PROVE KeyInv'
  BY <1>8 DEF WriteKey, Whole
<1>9. ASSUME NEW p \in Processes, OpenCertificate(p) PROVE KeyInv'
  BY <1>9 DEF OpenCertificate, Partial
<1>10. ASSUME NEW p \in Processes, WriteCertificate(p) PROVE KeyInv'
  BY <1>10 DEF WriteCertificate, Whole
<1>11. ASSUME NEW p \in Processes, RemoveKey(p) PROVE KeyInv'
  BY <1>11 DEF RemoveKey, NoFile, Remaining
<1>12. ASSUME NEW p \in Processes, IOError(p) PROVE KeyInv'
  <2>1. pc[p] # "writeCertificate"
    BY <1>12 DEF IOError, Writing
  <2>2. certificate' = certificate
    BY <1>12, <2>1 DEF IOError
  <2>3. CASE pc[p] = "openCertificate"
    <3>1. key' = key /\ pc' = [pc EXCEPT ![p] = "removeKey"] /\ mine' = mine
      BY <1>12, <2>3 DEF IOError
    <3> QED
      BY <2>2, <2>3, <3>1
  <2>4. CASE pc[p] # "openCertificate"
    <3>1. pc' = [pc EXCEPT ![p] = "failed"] /\ mine' = mine
      BY <1>12, <2>1, <2>4 DEF IOError
    <3>2. key' = key \/ (pc[p] = "writeKey" /\ key' = Whole(mine[p]))
      BY <1>12, <2>1, <2>4 DEF IOError
    <3> QED
      BY <2>2, <3>1, <3>2 DEF Whole
  <2> QED
    BY <2>3, <2>4
<1>13. ASSUME NEW p \in Processes, CommandCrash(p) PROVE KeyInv'
  BY <1>13 DEF CommandCrash
<1>14. CASE UNCHANGED identityVars
  BY <1>14 DEF identityVars
<1> QED
  BY <1>1, <1>2, <1>3, <1>4, <1>5, <1>6, <1>7, <1>8, <1>9, <1>10, <1>11, <1>12, <1>13, <1>14 DEF IdentityNext

\* Every step that leaves a file unfinished has its process go on with it.
LEMMA OwnedStep ==
    ASSUME IdentityTypeOK, CertificateInv, KeyInv, OwnedInv, [IdentityNext]_identityVars, torn' = {}, ~crashed'
    PROVE  OwnedInv'
<1> USE IdentityAssumption
    DEF IdentityTypeOK, File, CertificateInv, KeyInv, OwnedInv, Holding, Goto, files, local
<1>1. ASSUME NEW p \in Processes, Begin(p) PROVE OwnedInv'
  BY <1>1 DEF Begin, Seen
<1>2. ASSUME NEW p \in Processes, Load(p) PROVE OwnedInv'
  BY <1>2 DEF Load, Seen
<1>3. ASSUME NEW p \in Processes, Create(p) PROVE OwnedInv'
  BY <1>3 DEF Create, Seen
<1>4. ASSUME NEW p \in Processes, Refuse(p) PROVE OwnedInv'
  BY <1>4 DEF Refuse, Seen
<1>5. ASSUME NEW p \in Processes, ReadCertificate(p) PROVE OwnedInv'
  BY <1>5 DEF ReadCertificate
<1>6. ASSUME NEW p \in Processes, ReadKey(p) PROVE OwnedInv'
  BY <1>6 DEF ReadKey
<1>7. ASSUME NEW p \in Processes, OpenKey(p) PROVE OwnedInv'
  BY <1>7 DEF OpenKey, MayCreateKey, LeaveKey, Partial
<1>8. ASSUME NEW p \in Processes, WriteKey(p) PROVE OwnedInv'
  BY <1>8 DEF WriteKey, Whole
<1>9. ASSUME NEW p \in Processes, OpenCertificate(p) PROVE OwnedInv'
  BY <1>9 DEF OpenCertificate, Partial
<1>10. ASSUME NEW p \in Processes, WriteCertificate(p) PROVE OwnedInv'
  BY <1>10 DEF WriteCertificate, Whole
<1>11. ASSUME NEW p \in Processes, RemoveKey(p) PROVE OwnedInv'
  BY <1>11 DEF RemoveKey, NoFile, Remaining
<1>12. ASSUME NEW p \in Processes, IOError(p) PROVE OwnedInv'
  BY <1>12 DEF IOError, Whole, Writing
<1>13. ASSUME NEW p \in Processes, CommandCrash(p) PROVE OwnedInv'
  BY <1>13 DEF CommandCrash
<1>14. CASE UNCHANGED identityVars
  BY <1>14 DEF identityVars
<1> QED
  BY <1>1, <1>2, <1>3, <1>4, <1>5, <1>6, <1>7, <1>8, <1>9, <1>10, <1>11, <1>12, <1>13, <1>14 DEF IdentityNext

\* What has gone wrong once has gone wrong for good.
LEMMA ErrorsStay ==
    ASSUME [IdentityNext]_identityVars
    PROVE  torn \subseteq torn' /\ (~crashed' => ~crashed)
<1>1. ASSUME NEW p \in Processes, IOError(p) PROVE torn \subseteq torn' /\ crashed' = crashed
  BY <1>1 DEF IOError
<1>2. ASSUME NEW p \in Processes, CommandCrash(p) PROVE torn' = torn /\ crashed'
  BY <1>2 DEF CommandCrash
<1>3. \/ \E p \in Processes : IOError(p) \/ CommandCrash(p)
      \/ torn' = torn /\ crashed' = crashed
  BY DEF IdentityNext, identityVars, Begin, Load, Create, Refuse, ReadCertificate, ReadKey,
         OpenKey, WriteKey, OpenCertificate, WriteCertificate, RemoveKey
<1> QED
  BY <1>1, <1>2, <1>3

\* IdentityInv is inductive.
LEMMA IdentityStep == IdentityInv /\ [IdentityNext]_identityVars => IdentityInv'
BY IdentityTypeStep, CertificateStep, KeyStep, OwnedStep, ErrorsStay DEF IdentityInv

\* IdentityInv holds in every reachable state.
LEMMA IdentityAlways == IdentitySpec => []IdentityInv
BY IdentityStarts, IdentityStep, PTL DEF IdentitySpec

-----------------------------------------------------------------------------
\* The types of the files and of every process's state.
THEOREM IdentityTyped == IdentitySpec => []IdentityTypeOK
<1>1. IdentityInv => IdentityTypeOK
  BY DEF IdentityInv
<1> QED
  BY <1>1, IdentityAlways, PTL

\* However many commands run load_or_create at once, crash or meet I/O errors,
\* they never return two different identities.
THEOREM IdentityUnique == IdentitySpec => []OneIdentity
<1>1. IdentityInv => OneIdentity
  BY DEF IdentityInv, CertificateInv, OneIdentity
<1> QED
  BY <1>1, IdentityAlways, PTL

\* A returned identity survives every crash of every command.
THEOREM IdentityStays == IdentitySpec => []ReturnedStays
<1>1. IdentityInv => ReturnedStays
  BY DEF IdentityInv, CertificateInv, KeyInv, ReturnedStays
<1> QED
  BY <1>1, IdentityAlways, PTL

\* Losing the race to create the identity leaves nothing behind.
THEOREM PairComplete == IdentitySpec => []BothOrNeither
<1>1. IdentityInv => BothOrNeither
  BY DEF IdentityInv, IdentityTypeOK, File, CertificateInv, KeyInv, OwnedInv, BothOrNeither, Creating
<1> QED
  BY <1>1, IdentityAlways, PTL

=============================================================================
