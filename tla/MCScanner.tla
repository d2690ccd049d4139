----------------------------- MODULE MCScanner -----------------------------
(***************************************************************************)
(* Names in byte order: 0 `.git`, 1 `.gitignore`, 2 `a` and 3 `ab`; 4 is   *)
(* `b`, which is left of `ab` without `a`.  Two directories, 2 and 3, so   *)
(* that rules found in the first could leak into the second, and below the *)
(* first a directory 2/2 of the same name and a directory 2/3, which may   *)
(* be too deep for the limits.                                             *)
(***************************************************************************)
EXTENDS Scanner

File(v) == [kind |-> "file", data |-> v, mode |-> 7, mtime |-> 1]
Symlink(v) == [kind |-> "symlink", data |-> v, mode |-> 7, mtime |-> 1]
Socket == [kind |-> "socket", data |-> 0, mode |-> 7, mtime |-> 1]
Directory == [kind |-> "dir", data |-> 0, mode |-> 7, mtime |-> 1]
Deep == [Directory EXCEPT !.mtime = 2]

MCUniverse ==
    {<<0>>, <<0, 2>>, <<1>>, <<2>>, <<2, 1>>, <<2, 2>>, <<2, 2, 3>>, <<2, 3>>, <<2, 3, 2>>,
     <<2, 3, 2, 2>>, <<3>>, <<3, 2>>}

Either(p, isDirs) == {p} \X isDirs

\* The name n on its own and in a directory.
Anywhere(n, isDirs) == Either(<<n>>, isDirs) \cup UNION {Either(<<d, n>>, isDirs) : d \in 2..4}

\* 1: the name 3 anywhere.  2: the name 2.  3: directories named 3, but not the
\* file 3/2.  4: keeps /3.  5: an invalid line.  6: /3.  7: /3/2.
MCContents ==
    [v \in 1..7 |->
        CASE v = 1 -> [ignore |-> Anywhere(3, BOOLEAN), keep |-> {}, valid |-> TRUE]
          [] v = 2 -> [ignore |-> Anywhere(2, BOOLEAN), keep |-> {}, valid |-> TRUE]
          [] v = 3 -> [ignore |-> Anywhere(3, {TRUE}), keep |-> Either(<<3, 2>>, BOOLEAN),
                       valid |-> TRUE]
          [] v = 4 -> [ignore |-> {}, keep |-> Either(<<3>>, BOOLEAN) \cup
                       {<<<<0>>, TRUE>>}, valid |-> TRUE]
          [] v = 6 -> [ignore |-> Either(<<3>>, BOOLEAN), keep |-> {}, valid |-> TRUE]
          [] v = 7 -> [ignore |-> Either(<<3, 2>>, BOOLEAN), keep |-> {}, valid |-> TRUE]
          [] OTHER -> [ignore |-> {}, keep |-> {}, valid |-> FALSE]]

\* A tree is made of its ignore files, what 2/2, 2/3 and 3 are, and the rest.
TreeWith(top, inner, x, y, z) ==
    [p \in MCUniverse |->
        CASE p = <<1>>       -> top
          [] p = <<2, 1>>    -> inner
          [] p = <<2, 2>>    -> x
          [] p = <<2, 2, 3>> -> IF x = Directory THEN File(1) ELSE Absent
          [] p = <<2, 3>>    -> y
          [] p = <<3>>       -> z
          [] p \in {<<0>>, <<2>>} -> Directory
          [] p = <<2, 3, 2>> -> CASE y = Deep      -> Directory
                                  [] y = Directory -> File(1)
                                  [] OTHER         -> Absent
          [] p = <<2, 3, 2, 2>> -> IF y = Deep THEN File(1) ELSE Absent
          [] p = <<3, 2>>    -> IF z = Directory THEN File(1) ELSE Absent
          [] OTHER           -> File(1)]

MCTrees ==
    {TreeWith(top, inner, x, y, z) :
        top \in {Absent, File(1), File(2), File(3)},
        inner \in {Absent, File(2), File(4), File(5), File(6), File(7), Symlink(2)},
        x \in {Absent, Directory, Socket},
        y \in {Directory, Deep, File(1)},
        z \in {Directory, File(1)}}

MCExclusions == {NoRules, MCContents[2], MCContents[5]}

MCNameBytes == [n \in 0..3 |-> IF n \in {1, 3} THEN 2 ELSE 1]

MCSuffixes == [x \in {<<2, 3>>} |-> 4]
=============================================================================
