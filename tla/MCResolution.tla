--------------------------- MODULE MCResolution ---------------------------
(***************************************************************************)
(* The root holds a directory `inner` under x; `outer` lies beside the     *)
(* root, with a file of its own, and `link` leads there.                   *)
(***************************************************************************)
EXTENDS Resolution

CONSTANTS root, inner, outer, file, private, pipe, link, x, y, admin

Nothing == [n \in Names |-> None]

MCTrees ==
    {[d \in Dirs |-> CASE d = root  -> [Nothing EXCEPT ![x] = inner, ![y] = z]
                       [] d = inner -> [Nothing EXCEPT ![x] = file]
                       [] d = outer -> [Nothing EXCEPT ![x] = private]
                       [] OTHER     -> Nothing] : z \in {None, link, pipe}}

MCTarget == [l \in Links |-> outer]

MCPaths == {<<x>>, <<x, x>>, <<y, x>>, <<x, y, x>>, <<admin, x>>}
=============================================================================
