---------------------------- MODULE MCIdentity ----------------------------
(***************************************************************************)
(* Three commands and as many keys.  Commands and keys are interchangeable *)
(* and no liveness is checked, so their symmetry may be used.              *)
(***************************************************************************)
EXTENDS Identity, TLC

Symmetry == Permutations(Processes) \cup Permutations(Fingerprints)
=============================================================================
