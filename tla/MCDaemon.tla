------------------------------ MODULE MCDaemon ------------------------------
(***************************************************************************)
(* Two roots.  a syncs twice, so that its second attempt may use a ticket; *)
(* b is a peer of the other root only: it passes TLS but not the root's    *)
(* own list.                                                               *)
(***************************************************************************)
EXTENDS Daemon

CONSTANTS a, b, website, notes

MCAuthorized == [r \in Roots |-> IF r = website THEN {a} ELSE {b}]

MCRootOf == [c \in Clients |-> website]

MCAttempts == [c \in Clients |-> IF c = a THEN 2 ELSE 1]
=============================================================================
