------------------------------ MODULE Attempt ------------------------------
(***************************************************************************)
(* What one sync attempt promises, seen from outside: the destination      *)
(* holds the old tree until a commit begins, the new one once it has ended *)
(* and something in between only meanwhile; either side may fail at any    *)
(* time; neither reports success unless the commit is complete; and a      *)
(* destination that has reported anything leaves its tree alone.           *)
(***************************************************************************)
VARIABLES
    tree,     \* "old", "partial" or "new"
    sender,   \* what the source reports: "running", "ok" or "failed"
    receiver  \* what the destination reports

vars == <<tree, sender, receiver>>

Init == tree = "old" /\ sender = "running" /\ receiver = "running"

BeginCommit ==
    /\ tree = "old" /\ receiver = "running"
    /\ tree' = "partial"
    /\ UNCHANGED <<sender, receiver>>

EndCommit ==
    /\ tree = "partial" /\ receiver = "running"
    /\ tree' = "new"
    /\ UNCHANGED <<sender, receiver>>

SenderSucceeds ==
    /\ sender = "running" /\ tree = "new"
    /\ sender' = "ok"
    /\ UNCHANGED <<tree, receiver>>

ReceiverSucceeds ==
    /\ receiver = "running" /\ tree = "new"
    /\ receiver' = "ok"
    /\ UNCHANGED <<tree, sender>>

SenderFails ==
    /\ sender = "running"
    /\ sender' = "failed"
    /\ UNCHANGED <<tree, receiver>>

ReceiverFails ==
    /\ receiver = "running"
    /\ receiver' = "failed"
    /\ UNCHANGED <<tree, sender>>

Next ==
    \/ BeginCommit \/ EndCommit
    \/ SenderSucceeds \/ ReceiverSucceeds
    \/ SenderFails \/ ReceiverFails

Spec == Init /\ [][Next]_vars

=============================================================================
