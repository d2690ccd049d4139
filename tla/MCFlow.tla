------------------------------- MODULE MCFlow -------------------------------
(***************************************************************************)
(* Every combination of small limits: a frame smaller than, as large as    *)
(* and larger than a stream's share of the connection's window.            *)
(***************************************************************************)
EXTENDS FlowControl

MCLimits ==
    [frame : 1..2, transfers : 1..2, inflight : 1..5]

=============================================================================
