----------------------------- MODULE MCSession -----------------------------
(***************************************************************************)
(* A plan of four files and a local operation.  The first file can be      *)
(* requested after one message of each index, the last only after the      *)
(* last source record, so requests overlap indexing on both sides.  There  *)
(* are more files than the destination opens at a time, and it opens more  *)
(* than the source's stream limit admits.                                  *)
(***************************************************************************)
EXTENDS Session

Op(kind, s, l) == [kind |-> kind, source |-> s, local |-> l]

MCPlan ==
    <<Op("file", 1, 1), Op("file", 1, 1), Op("local", 1, 2), Op("file", 2, 2),
      Op("file", 3, 2)>>

=============================================================================
