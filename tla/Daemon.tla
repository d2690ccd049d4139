------------------------------- MODULE Daemon -------------------------------
(***************************************************************************)
(* One daemon (apps/quicsyncd/src/main.rs) and the commands that sync to   *)
(* it (apps/quicsync/src/main.rs), over many attempts.  What happens       *)
(* within an attempt is module Session's business: here an attempt is read *)
(* from its notification, confirmed, committed and acknowledged.           *)
(*                                                                         *)
(* The network may lose, delay and duplicate the first flight of a         *)
(* connection, also past the life of the process that sent it; such a      *)
(* flight may carry a StartSync as early data.  A client stands for one    *)
(* source directory with its identity: its fingerprint and its TLS pin.    *)
(***************************************************************************)
EXTENDS Naturals, Sequences, FiniteSets

CONSTANTS
    Clients,
    Roots,
    Authorized,     \* root -> its authorized_peers
    RootOf,         \* client -> the root_id of its source.toml
    Attempts,       \* client -> how many attempts it makes
    MaxArrivals,    \* how often a first flight may arrive
    MaxCrashes      \* how often the daemon may crash

ASSUME DaemonAssumption ==
    /\ Authorized \in [Roots -> SUBSET Clients]
    /\ Attempts \in [Clients -> Nat]
    /\ DOMAIN RootOf = Clients
    /\ MaxArrivals \in Nat \ {0} /\ MaxCrashes \in Nat

VARIABLES
    client,     \* per client: "idle", "dialling" or "connected"
    number,     \* per client, the number of its latest attempt
    ticket,     \* the clients whose process holds a TLS ticket
    arrived,    \* flight -> how often it has arrived, for those ever sent
    daemon,     \* "up" or "crashed"
    crashes,
    incoming,   \* flights waiting in the endpoint
    remembers,  \* the clients whose session is in the daemon's TLS cache
    calls,      \* the attempts being served
    version,    \* root -> how often a commit has changed it
    commits     \* the commits that were completed, in order

clients == <<client, number, ticket>>
process == <<daemon, crashes, remembers>>
vars == <<clients, arrived, process, incoming, calls, version, commits>>

Flight == [client : Clients, number : Nat, early : BOOLEAN]

Call == [flight : Flight,
         readable : BOOLEAN,    \* the server has accepted the early data
         handshake : BOOLEAN,   \* the handshake is complete
         phase : {"accepted", "started", "confirmed", "committing", "acking"},
         base : Nat]            \* the root's version when the scan began

Init ==
    /\ client = [c \in Clients |-> "idle"]
    /\ number = [c \in Clients |-> 0]
    /\ ticket = {}
    /\ arrived = << >>
    /\ daemon = "up" /\ crashes = 0 /\ remembers = {}
    /\ incoming = << >> /\ calls = {}
    /\ version = [r \in Roots |-> 0]
    /\ commits = << >>

Root(k) == RootOf[k.flight.client]

\* The client still waits on the connection that the flight began.
Alive(f, phase) == client[f.client] = phase /\ number[f.client] = f.number

-----------------------------------------------------------------------------
(***************************************************************************)
(* The client.  `sync` makes one attempt per process, `interactive` goes   *)
(* on while attempts succeed; both exit on an error.  Tickets are kept in  *)
(* memory only.                                                            *)
(***************************************************************************)
\* dial: with a ticket StartSync is sent in the first flight.
Connect(c) ==
    LET f == [client |-> c, number |-> number[c] + 1, early |-> c \in ticket]
    IN  /\ client[c] = "idle" /\ number[c] < Attempts[c]
        /\ client' = [client EXCEPT ![c] = "dialling"]
        /\ number' = [number EXCEPT ![c] = @ + 1]
        /\ arrived' = [g \in DOMAIN arrived \cup {f} |-> IF g = f THEN 0 ELSE arrived[g]]
        /\ UNCHANGED <<ticket, process, incoming, calls, version, commits>>

\* The process ends without success: the idle timeout while nobody answers, a
\* close by the daemon, an error of its own, or the user's interrupt.
Exit(c) ==
    /\ client' = [client EXCEPT ![c] = "idle"]
    /\ ticket' = ticket \ {c}
    /\ UNCHANGED number

GiveUp(c) ==
    /\ client[c] # "idle"
    /\ Exit(c)
    /\ UNCHANGED <<arrived, process, incoming, calls, version, commits>>

-----------------------------------------------------------------------------
\* The endpoint buffers a first flight until the daemon accepts it.
Arrive(f) ==
    /\ daemon = "up" /\ arrived[f] < MaxArrivals
    /\ incoming' = Append(incoming, f)
    /\ arrived' = [arrived EXCEPT ![f] = @ + 1]
    /\ UNCHANGED <<clients, process, calls, version, commits>>

\* Mutant: each attempt is served in a task of its own.
FreeAlways == TRUE

\* serve is awaited before the next accept.
Free == calls = {}

\* accept_early: the connection is there before the handshake.
Accept ==
    LET f == Head(incoming)
    IN  /\ daemon = "up" /\ Free /\ incoming # << >>
        /\ incoming' = Tail(incoming)
        /\ \E readable \in {FALSE, f.early /\ f.client \in remembers} :
            calls' = calls \cup
                {[flight |-> f, readable |-> readable, handshake |-> FALSE,
                  phase |-> "accepted", base |-> 0]}
        /\ UNCHANGED <<clients, arrived, process, version, commits>>

\* Mutant: an error leaves the loop.
StopOnError == "stopped"

\* Errors of accept and serve are printed and the loop goes on.
AfterError == daemon

\* serve returns an error; its connection is cancelled and closed.
Fail(k) ==
    /\ calls' = calls \ {k}
    /\ daemon' = AfterError
    /\ UNCHANGED <<crashes, remembers>>

AcceptFails ==
    /\ daemon = "up" /\ Free /\ incoming # << >>
    /\ incoming' = Tail(incoming)
    /\ daemon' = AfterError
    /\ UNCHANGED <<clients, arrived, crashes, remembers, calls, version, commits>>

Advance(k, l) == calls' = (calls \ {k}) \cup {l}

\* listen: the pins of all roots together.
Pinned == UNION {Authorized[r] : r \in Roots}

\* The TLS handshake with a process that still waits for it.  Early data that
\* was refused fails the attempt.
Handshake(k) ==
    LET c == k.flight.client
    IN  /\ ~k.handshake /\ k.phase \in {"accepted", "started"}
        /\ Alive(k.flight, "dialling")
        /\ IF c \in Pinned /\ (k.flight.early => k.readable)
           THEN /\ client' = [client EXCEPT ![c] = "connected"]
                /\ ticket' = ticket \cup {c}
                /\ remembers' = remembers \cup {c}
                /\ Advance(k, [k EXCEPT !.handshake = TRUE])
                /\ UNCHANGED <<number, daemon, crashes>>
           ELSE Exit(c) /\ Fail(k)
        /\ UNCHANGED <<arrived, incoming, version, commits>>

\* Mutant: whoever has passed TLS may sync to every root.
PinnedSuffices(c, r) == r \in Roots /\ c \in Pinned

\* serve_inner: the root named in StartSync, and this peer among its own.
MaySync(c, r) == r \in Roots /\ c \in Authorized[r]

\* StartSync is read, from early data or after the handshake, and authorized;
\* the scan of the destination begins.
ReadStartSync(k) ==
    /\ k.phase = "accepted" /\ (k.readable \/ k.handshake)
    /\ IF MaySync(k.flight.client, Root(k))
       THEN /\ Advance(k, [k EXCEPT !.phase = "started", !.base = version[Root(k)]])
            /\ UNCHANGED process
       ELSE Fail(k)
    /\ UNCHANGED <<clients, arrived, incoming, version, commits>>

\* Mutant: the plan is made without waiting for the handshake.
Unconfirmed(k) == TRUE

\* confirm_handshake.
Confirmed(k) == k.handshake

Confirm(k) ==
    /\ k.phase = "started" /\ Confirmed(k)
    /\ Advance(k, [k EXCEPT !.phase = "confirmed"])
    /\ UNCHANGED <<clients, arrived, process, incoming, version, commits>>

\* Plan and transfers are complete.  The client may be gone by then.
BeginCommit(k) ==
    /\ k.phase = "confirmed"
    /\ Advance(k, [k EXCEPT !.phase = "committing"])
    /\ UNCHANGED <<clients, arrived, process, incoming, version, commits>>

Changed(r) == version' = [version EXCEPT ![r] = @ + 1]

\* The blocking commit cannot be cancelled and is awaited.
EndCommit(k) ==
    /\ k.phase = "committing"
    /\ Changed(Root(k))
    /\ \/ /\ Advance(k, [k EXCEPT !.phase = "acking"])
          /\ commits' = Append(commits,
                [flight |-> k.flight, base |-> k.base, version |-> version[Root(k)]])
          /\ UNCHANGED process
       \/ Fail(k) /\ UNCHANGED commits
    /\ UNCHANGED <<clients, arrived, incoming>>

\* CompleteAck and the source's close end the attempt with success.
Complete(k) ==
    /\ k.phase = "acking" /\ Alive(k.flight, "connected")
    /\ calls' = calls \ {k}
    /\ client' = [client EXCEPT ![k.flight.client] = "idle"]
    /\ ticket' \in {ticket, ticket \ {k.flight.client}}
    /\ UNCHANGED <<number, arrived, process, incoming, version, commits>>

\* The connection is lost or idle too long, or any other step of serve fails.
ServeFails(k) ==
    /\ k.phase # "committing"
    /\ Fail(k)
    /\ UNCHANGED <<clients, arrived, incoming, version, commits>>

\* A crash in the middle of a commit leaves the root changed in part.
Crash ==
    /\ daemon = "up" /\ crashes < MaxCrashes
    /\ daemon' = "crashed" /\ crashes' = crashes + 1
    /\ remembers' = {} /\ incoming' = << >> /\ calls' = {}
    /\ version' = [r \in Roots |->
            version[r] + Cardinality({k \in calls : k.phase = "committing" /\ Root(k) = r})]
    /\ UNCHANGED <<clients, arrived, commits>>

Restart ==
    /\ daemon = "crashed"
    /\ daemon' = "up"
    /\ UNCHANGED <<clients, arrived, crashes, remembers, incoming, calls, version, commits>>

-----------------------------------------------------------------------------
Proceed(k) ==
    \/ Handshake(k) \/ ReadStartSync(k) \/ Confirm(k)
    \/ BeginCommit(k) \/ EndCommit(k) \/ Complete(k)

Serve(k) == Proceed(k) \/ ServeFails(k)

Loop == Accept \/ AcceptFails

Next ==
    \/ \E c \in Clients : Connect(c) \/ GiveUp(c)
    \/ \E f \in DOMAIN arrived : Arrive(f)
    \/ Loop
    \/ \E k \in calls : Serve(k)
    \/ Crash \/ Restart

\* Nobody speaks on the connection: the process has exited, or it waits on
\* another connection than this one, which a copy of its flight began.
Silent(k) ==
    /\ ~Alive(k.flight, "dialling")
    /\ ~(k.handshake /\ Alive(k.flight, "connected"))

(***************************************************************************)
(* The loop accepts while flights wait and an attempt that can go on does  *)
(* (module Session has it in detail).  The idle timeout ends serve on a    *)
(* connection where nobody speaks; a process that is there keeps it alive, *)
(* so no other failure is taken for granted.  Nothing says that a process  *)
(* gives up, or that a crashed daemon is started again.                    *)
(***************************************************************************)
Fairness ==
    /\ WF_vars(Accept)
    /\ WF_vars(\E k \in calls : Proceed(k))
    /\ WF_vars(\E k \in calls : Silent(k) /\ ServeFails(k))

Spec == Init /\ [][Next]_vars /\ Fairness

-----------------------------------------------------------------------------
\* Every value has its type; the daemon never returns from main by itself.
TypeOK ==
    /\ client \in [Clients -> {"idle", "dialling", "connected"}]
    /\ number \in [Clients -> Nat]
    /\ ticket \subseteq Clients /\ remembers \subseteq Clients
    /\ DOMAIN arrived \subseteq Flight
    /\ daemon \in {"up", "crashed"} /\ crashes \in Nat
    /\ incoming \in Seq(Flight)
    /\ calls \subseteq Call
    /\ version \in [Roots -> Nat]
    /\ commits \in Seq([flight : Flight, base : Nat, version : Nat])

\* "Index sends, requests, and commit wait for handshake confirmation"
\* (architecture.md:228): however first flights are delayed, duplicated and
\* kept in the queue, and whoever crashes, an attempt is committed at most
\* once and never after a later attempt of the same source.
AttemptsInOrder ==
    \A i, j \in 1..Len(commits) :
        i < j /\ commits[i].flight.client = commits[j].flight.client =>
            commits[i].flight.number < commits[j].flight.number

\* "One active attempt avoids concurrent commits to the same configured root"
\* (quicsyncd main.rs:66): no commit carries out a plan made from a listing
\* that another commit, complete or not, has overtaken.
PlansAreFresh == \A i \in 1..Len(commits) : commits[i].base = commits[i].version

\* Although one TLS configuration admits the peers of all roots, a commit only
\* changes a root for a peer of that root.
AuthorizedOnly ==
    \A i \in 1..Len(commits) :
        LET c == commits[i].flight.client
        IN  RootOf[c] \in Roots /\ c \in Authorized[RootOf[c]]

\* "It continues accepting fresh attempts after an error" (configuration.md:59):
\* unless it crashes the daemon is back at its accept again and again, with
\* nothing left to serve, whatever stale, duplicated or abandoned flights it had
\* to go through.
KeepsAccepting == []<>(daemon = "crashed" \/ (daemon = "up" /\ calls = {} /\ incoming = << >>))

=============================================================================
