------------------------------ MODULE MCCommit ------------------------------
(***************************************************************************)
(* Small trees for the committer.  d is an entry that may be a directory,  *)
(* d/git a protected name in it, d/a may again be a directory with the     *)
(* child d/a/x, and d/b is a sibling that comes after that subtree.        *)
(***************************************************************************)
EXTENDS Commit

d == <<1>>
dgit == <<1, 0>>
da == <<1, 1>>
dax == <<1, 1, 1>>
db == <<1, 2>>

File(v) == [kind |-> "file", data |-> v, mode |-> 7, mtime |-> v]
Symlink(v) == [kind |-> "symlink", data |-> v, mode |-> 7, mtime |-> v]
Directory(mode, v) == [kind |-> "dir", data |-> 0, mode |-> mode, mtime |-> v]

MCUniverse == {d, da, dax, db}
MCUniverseGit == {d, dgit, da, dax, db}

\* The trees that hold one of the entries candidates[p], or nothing, at p.
TreesOver(paths, candidates) ==
    {t \in [paths -> UNION {candidates[p] : p \in paths} \cup {Absent}] :
        \A p \in paths :
            /\ t[p] \in candidates[p] \cup {Absent}
            /\ Present(t, p) /\ Len(p) > 1 => t[Parent(p)].kind = "dir"}

MCSourceTrees ==
    TreesOver(Universe,
        [p \in Universe |->
            CASE p = d    -> {File(1), Symlink(1), Directory(7, 1), Directory(5, 1)}
              [] p = da   -> {File(1), Symlink(1), Directory(7, 1)}
              [] p = dax  -> {File(1), Symlink(1)}
              [] p = dgit -> {}
              [] OTHER    -> {File(1)}])

MCLiveTrees ==
    TreesOver(Universe,
        [p \in Universe |->
            CASE p = d    -> {File(2), Symlink(1), Directory(7, 1), Directory(5, 2)}
              [] p = da   -> {File(2), Symlink(2), Directory(7, 1), Directory(7, 2), Directory(5, 2)}
              [] p = dax  -> {File(1), File(2), Symlink(1)}
              [] OTHER    -> {File(2)}])

MCRuleSets ==
    {{}, {<<dax, FALSE>>}, {<<da, TRUE>>}, {<<da, FALSE>>, <<db, FALSE>>}}

MCNoRules == {{}}

MCExclusions == {<<db, FALSE>>}

=============================================================================
