----------------------------- MODULE MCPlanner -----------------------------
(***************************************************************************)
(* Small trees for the planner: entry 1, which may be a directory with a   *)
(* child, and entry 2 next to it.  The destination also has a second       *)
(* version of each record, so equal, changed, retyped, missing and extra   *)
(* entries all meet.                                                       *)
(***************************************************************************)
EXTENDS Planner

Entry(path, kind, data, mtime) ==
    [path |-> path, kind |-> kind, data |-> data, mode |-> 7, mtime |-> mtime]

Leaves(path, versions) ==
    {<<>>} \cup {<<Entry(path, k, v, 1)>> : k \in {"file", "symlink"}, v \in versions}

Directories(path, versions) ==
    {<<Entry(path, "dir", 0, v)>> : v \in versions}

Trees(path, versions, below) ==
    Leaves(path, versions) \cup
    {d \o s : d \in Directories(path, versions), s \in below}

MCSourceIndexes ==
    {t \o u : t \in Trees(<<1>>, {1}, Trees(<<1, 1>>, {1}, {<<>>})),
              u \in Leaves(<<2>>, {1})}

MCDestinationIndexes ==
    {t \o u : t \in Trees(<<1>>, {1, 2}, Leaves(<<1, 1>>, {1})),
              u \in {<<>>, <<Entry(<<2>>, "file", 2, 1)>>}}

=============================================================================
