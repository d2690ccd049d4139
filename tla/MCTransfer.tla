----------------------------- MODULE MCTransfer -----------------------------
(***************************************************************************)
(* Content and signature longer than a channel and a window together, so   *)
(* every stage of the chain has to wait for the next.                      *)
(***************************************************************************)
EXTENDS Transfer

=============================================================================
