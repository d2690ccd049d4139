----------------------------- MODULE Resolution -----------------------------
(***************************************************************************)
(* Resolution of a relative path from a held root descriptor               *)
(* (filesystem/paths.rs), one openat at a time, while other processes of   *)
(* the machine rename, remove and link what it walks through.  A behaviour *)
(* is one call: nothing is kept from one to the next but the tree.         *)
(*                                                                         *)
(* Unlike module Tree, which judges a path at one moment, this module has  *)
(* inodes: a descriptor stays with a directory wherever that is moved.  An *)
(* inode is a directory, a regular file, a symbolic link with its target,  *)
(* or something else; a directory maps names to inodes.                    *)
(***************************************************************************)
EXTENDS Naturals, Sequences

CONSTANTS
    Dirs, Files, Links, Others,     \* the inodes
    Names,
    Protected,      \* PROTECTED_COMPONENTS
    Root,           \* the directory of the root descriptor
    Trees,          \* the entries there may be at first
    Target,         \* link -> the directory it leads to
    Paths,          \* the paths that are resolved
    None,
    MaxChanges      \* by other processes

Inodes == Dirs \cup Files \cup Links \cup Others

ASSUME ResolutionAssumption ==
    /\ Root \in Dirs
    /\ None \notin Inodes
    /\ Trees \subseteq [Dirs -> [Names -> Inodes \cup {None}]]
    /\ Target \in [Links -> Dirs]
    /\ Paths \subseteq Seq(Names) \ {<< >>}
    /\ Protected \subseteq Names
    /\ MaxChanges \in Nat

VARIABLES
    entry,      \* directory -> name -> inode
    changes,
    known,      \* history: what has been in the tree of the root
    strayed,    \* history: a name was looked up in a directory that others had
                \* by then moved out of the tree of the root
    path,       \* what is being resolved
    purpose,    \* "mutate": resolve_parent for an operation; "read": open_regular
    at,         \* the directory the descriptor refers to
    depth,      \* components resolved
    state,      \* "idle", "walking", "resolved", "done", "none" or "failed"
    mutated,    \* the directories in which an operation was carried out
    opened      \* the inodes open_regular has returned

others == <<entry, changes, known>>
walk == <<path, purpose, at, depth, state, strayed>>
vars == <<others, walk, mutated, opened>>

\* What is reached from directories S through real entries, not through links.
Closed(S, e) == \A d \in S \cap Dirs : \A n \in Names : e[d][n] # None => e[d][n] \in S

\* The least set of inodes with S and all that is below its directories.
Reach(S, e) ==
    LET closed == {T \in SUBSET Inodes : S \subseteq T /\ Closed(T, e)}
    IN  {i \in Inodes : \A T \in closed : i \in T}

\* The tree of the root.
Held(e) == Reach({Root}, e)

Init ==
    /\ entry \in Trees /\ changes = 0
    /\ known = Held(entry) /\ strayed = FALSE
    /\ path \in Paths /\ purpose \in {"mutate", "read"}
    /\ at = Root /\ depth = 0 /\ state = "idle"
    /\ mutated = {} /\ opened = {}

-----------------------------------------------------------------------------
(***************************************************************************)
(* Other processes: a rename onto a free or an occupied name, a removal    *)
(* (rmdir only of an empty directory), and a new symbolic link.            *)
(***************************************************************************)
ChangedTo(e) ==
    /\ changes < MaxChanges
    /\ entry' = e /\ changes' = changes + 1
    /\ known' = known \cup Held(e)
    /\ UNCHANGED <<walk, mutated, opened>>

Empty(i) == i \in Dirs => \A n \in Names : entry[i][n] = None

\* A directory is not moved below itself.  What a rename replaces is of the same
\* sort, and an empty directory if it is one.
Rename(d, n, e, m) ==
    /\ entry[d][n] # None /\ <<d, n>> # <<e, m>>
    /\ entry[d][n] \in Dirs => e \notin Reach({entry[d][n]}, entry)
    /\ entry[e][m] # None => /\ entry[e][m] \in Dirs <=> entry[d][n] \in Dirs
                             /\ Empty(entry[e][m])
    /\ LET removed == [entry EXCEPT ![d][n] = None]
       IN  ChangedTo([removed EXCEPT ![e][m] = entry[d][n]])

Remove(d, n) ==
    /\ entry[d][n] # None /\ Empty(entry[d][n])
    /\ ChangedTo([entry EXCEPT ![d][n] = None])

Link(d, n, l) ==
    /\ entry[d][n] = None
    /\ ChangedTo([entry EXCEPT ![d][n] = l])

-----------------------------------------------------------------------------
\* reject_protected, then a duplicate of the root descriptor.
Begin ==
    /\ state = "idle"
    /\ at' = Root /\ depth' = 0
    /\ state' = IF \E i \in 1..Len(path) : path[i] \in Protected THEN "failed" ELSE "walking"
    /\ UNCHANGED <<others, path, purpose, strayed, mutated, opened>>

\* Mutant: openat without NOFOLLOW.
Following(i) == IF i \in Links THEN Target[i] ELSE i

\* O_DIRECTORY and O_NOFOLLOW: the inode itself or an error.
OpensAs(i) == i

\* A descriptor stays with its directory, so a directory that is moved away
\* takes the walk along: the names it holds there are looked up all the same.
LooksUp == strayed' = (strayed \/ at \notin Held(entry))

\* The next ancestor.  resolve_parent fails if it is no directory; for
\* open_regular there is then nothing to read.
OpenDirectory ==
    LET i == OpensAs(entry[at][path[depth + 1]])
    IN  /\ state = "walking" /\ depth < Len(path) - 1
        /\ LooksUp
        /\ \/ /\ i \in Dirs
              /\ at' = i /\ depth' = depth + 1
              /\ UNCHANGED state
           \/ /\ i \notin Dirs
              /\ state' = IF purpose = "read" THEN "none" ELSE "failed"
              /\ UNCHANGED <<at, depth>>
        /\ UNCHANGED <<others, path, purpose, mutated, opened>>

\* resolve_parent returns the descriptor and the leaf.
Resolved ==
    /\ state = "walking" /\ depth = Len(path) - 1 /\ purpose = "mutate"
    /\ state' = "resolved"
    /\ UNCHANGED <<others, path, purpose, at, depth, strayed, mutated, opened>>

\* A directory mkdirat may have made.
Fresh ==
    {d \in Dirs \ known : \A n \in Names : /\ entry[d][n] = None
                                           /\ \A e \in Dirs : entry[e][n] # d}

\* The caller's unlinkat, renameat of a staged file, symlinkat or mkdirat of the
\* leaf in the directory it has been given.
Mutate ==
    /\ state = "resolved"
    /\ mutated' = mutated \cup {at}
    /\ \E i \in {None} \cup Files \cup Links \cup Fresh :
        /\ entry' = [entry EXCEPT ![at][path[Len(path)]] = i]
        /\ known' = known \cup Held(entry')
    /\ state' = "done"
    /\ UNCHANGED <<changes, path, purpose, at, depth, strayed, opened>>

\* Mutant: the opened leaf is not checked.
AnyKind == Inodes

\* is_file of the opened descriptor, whatever the name refers to by then.
Readable == Files

\* The leaf of open_regular.  A pipe is opened without waiting and refused; a
\* socket cannot be opened at all.
OpenLeaf ==
    LET i == OpensAs(entry[at][path[Len(path)]])
    IN  /\ state = "walking" /\ depth = Len(path) - 1 /\ purpose = "read"
        /\ LooksUp
        /\ \/ i \in Readable /\ opened' = opened \cup {i} /\ state' = "done"
           \/ i \notin Readable /\ state' = "none" /\ UNCHANGED opened
           \/ i \in Others /\ state' = "failed" /\ UNCHANGED opened
        /\ UNCHANGED <<others, path, purpose, at, depth, mutated>>

Next ==
    \/ Begin \/ OpenDirectory \/ Resolved \/ Mutate \/ OpenLeaf
    \/ \E d, e \in Dirs, n, m \in Names : Rename(d, n, e, m)
    \/ \E d \in Dirs, n \in Names : Remove(d, n) \/ \E l \in Links : Link(d, n, l)

Spec == Init /\ [][Next]_vars

-----------------------------------------------------------------------------
TypeOK ==
    /\ entry \in [Dirs -> [Names -> Inodes \cup {None}]]
    /\ changes \in Nat /\ known \subseteq Inodes /\ strayed \in BOOLEAN
    /\ path \in Paths /\ purpose \in {"mutate", "read"}
    /\ at \in Dirs /\ depth \in 0..(Len(path) - 1)
    /\ state \in {"idle", "walking", "resolved", "done", "none", "failed"}
    /\ mutated \subseteq Dirs /\ opened \subseteq Inodes

\* "a symbolic link can never redirect resolution outside it" (paths.rs:10): the
\* directory an operation is carried out in has been in the tree of the root,
\* however others rename, remove and link between two steps of the walk, unless
\* they moved away the very directory the walk was in and it went on from there.
Confined == ~strayed => mutated \subseteq known

\* Content is read from regular files only, whatever a name refers to when it is
\* opened, and with the same exception only from those that have been in the
\* tree of the root.
ReadsInside ==
    /\ opened \subseteq Files
    /\ ~strayed => opened \subseteq known

=============================================================================
