-------------------------------- MODULE Tree --------------------------------
(***************************************************************************)
(* A directory tree below a configured root: what a scan of it lists       *)
(* (filesystem/scan.rs, ignore.rs), what the path resolver accepts         *)
(* (filesystem/paths.rs), and the system calls the committer makes on it.  *)
(*                                                                         *)
(* A tree gives every path of Universe an entry, Absent where there is     *)
(* none.  The system calls are POSIX, external to the repository.  Each is *)
(* a pair of operators: when the call succeeds, and the tree it leaves.    *)
(***************************************************************************)
EXTENDS Operations

CONSTANTS
    Universe,   \* the paths that may hold an entry
    Protected   \* the names `.git` and `.quicsync`

ASSUME UniverseAssumption ==
    /\ Universe \subseteq RelativePath /\ IsFiniteSet(Universe)
    /\ \A p \in Universe : Ancestors(p) \subseteq Universe

(***************************************************************************)
(* mode is the owner's digit of the permission bits: 7 may write, 5 may    *)
(* only read and search.  mtime 0 is the time of the kernel's clock, which *)
(* no indexed record has; other times come from indexed records.           *)
(***************************************************************************)
Entry == [kind : Kinds \cup {"none"}, data : Nat, mode : Nat, mtime : Nat]

Absent == [kind |-> "none", data |-> 0, mode |-> 0, mtime |-> 0]

Present(t, p) == t[p].kind # "none"

\* Every entry lies in directories.
IsTree(t) ==
    \A p \in Universe : Present(t, p) => \A q \in Ancestors(p) : t[q].kind = "dir"

\* A directory has no content of its own (its size is the file system's affair
\* and left out), and a link grants everything.
IsNormal(t) ==
    \A p \in Universe : /\ t[p].kind = "dir" => t[p].data = 0
                        /\ t[p].kind = "symlink" => t[p].mode = 7

Children(t, p) == {q \in Universe : Present(t, q) /\ Parent(q) = p}

RecordAt(t, p) ==
    [path |-> p, kind |-> t[p].kind, data |-> t[p].data,
     mode |-> t[p].mode, mtime |-> t[p].mtime]

EntryOf(r) ==
    [kind |-> r.kind, data |-> r.data, mode |-> r.mode, mtime |-> r.mtime]

-----------------------------------------------------------------------------
(***************************************************************************)
(* Scanning.  Ignore rules are the pairs <<path, is a directory>> the      *)
(* traversal's matchers ignore (a pattern ending in a slash matches        *)
(* directories only).  Names in Protected are never listed.  An entry that *)
(* is left out is not descended into.                                      *)
(***************************************************************************)
IsProtected(p) == \E i \in 1..Len(p) : p[i] \in Protected

Managed(t, p, rules) ==
    ~IsProtected(p) /\ <<p, t[p].kind = "dir">> \notin rules

Listed(t, p, rules) ==
    /\ Present(t, p)
    /\ \A q \in Ancestors(p) \cup {p} : Managed(t, q, rules)

\* Mutant: the traversal descends into a directory it leaves out.
ScanUnpruned(t, rules) ==
    {RecordAt(t, p) : p \in {q \in Universe : Present(t, q) /\ Managed(t, q, rules)}}

Scan(t, rules) == {RecordAt(t, p) : p \in {q \in Universe : Listed(t, q, rules)}}

-----------------------------------------------------------------------------
(***************************************************************************)
(* resolve_parent: no protected name, and every directory above the leaf   *)
(* is a directory, not a link to one.                                      *)
(***************************************************************************)
Resolves(t, p) ==
    /\ ~IsProtected(p)
    /\ \A q \in Ancestors(p) : t[q].kind = "dir"

ParentWritable(t, p) == Len(p) > 1 => t[Parent(p)].mode = 7

\* Adding or removing a name: the parent must resolve and be writable.
CanModify(t, p) == Resolves(t, p) /\ ParentWritable(t, p)

\* Adding or removing a name sets the parent's modification time.
WithEntry(t, p, e) ==
    [q \in Universe |->
        CASE q = p                           -> e
          [] Len(p) > 1 /\ q = Parent(p)     -> [t[q] EXCEPT !.mtime = 0]
          [] OTHER                           -> t[q]]

(***************************************************************************)
(* The calls, as a name and the record they are made for:                  *)
(*   unlink   unlinkat, no flags          rmdir   unlinkat, AT_REMOVEDIR   *)
(*   mkdir    mkdirat 0700, EEXIST is accepted                             *)
(*   open     openat O_DIRECTORY|O_NOFOLLOW and fchmod(mode | 0700)        *)
(*   rename   renameat of a staged file that already has its metadata      *)
(*   clear    unlinkat, no flags, ENOENT is accepted                       *)
(*   symlink  symlinkat                   utimes  utimensat, no follow     *)
(*   chmod    open as above and fchmod(mode)                               *)
(*   settle   set the modification time of the directory opened for chmod  *)
(***************************************************************************)
CallNames ==
    {"unlink", "rmdir", "mkdir", "open", "rename", "clear", "symlink",
     "utimes", "chmod", "settle"}

Call == [name : CallNames, record : Record]

Succeeds(t, c) ==
    LET p == c.record.path
        kind == t[p].kind
    IN  CASE c.name = "unlink"  -> CanModify(t, p) /\ kind \in {"file", "symlink"}
          [] c.name = "rmdir"   -> CanModify(t, p) /\ kind = "dir" /\ Children(t, p) = {}
          [] c.name = "mkdir"   -> Resolves(t, p) /\ (ParentWritable(t, p) \/ kind # "none")
          [] c.name = "rename"  -> CanModify(t, p) /\ kind # "dir"
          [] c.name = "clear"   -> /\ Resolves(t, p)
                                   /\ \/ kind = "none"
                                      \/ ParentWritable(t, p) /\ kind # "dir"
          [] c.name = "symlink" -> CanModify(t, p) /\ kind = "none"
          [] c.name = "utimes"  -> Resolves(t, p) /\ kind # "none"
          [] OTHER              -> Resolves(t, p) /\ kind = "dir"

\* Mutant: a directory has its final mode while its children are written.
AsRecorded(mode) == mode

\* mode | 0700
OwnerMayWrite(mode) == 7

Effect(t, c) ==
    LET p == c.record.path
        r == c.record
    IN  CASE c.name \in {"unlink", "rmdir"} -> WithEntry(t, p, Absent)
          [] c.name = "mkdir" /\ ~Present(t, p) ->
                WithEntry(t, p, [Absent EXCEPT !.kind = "dir", !.mode = 7])
          [] c.name = "open"    -> [t EXCEPT ![p].mode = OwnerMayWrite(r.mode)]
          [] c.name = "rename"  -> WithEntry(t, p, EntryOf(r))
          [] c.name = "clear" /\ Present(t, p) -> WithEntry(t, p, Absent)
          [] c.name = "symlink" ->
                WithEntry(t, p, [EntryOf(r) EXCEPT !.mode = 7, !.mtime = 0])
          [] c.name = "chmod"   -> [t EXCEPT ![p].mode = r.mode]
          [] c.name \in {"utimes", "settle"} -> [t EXCEPT ![p].mtime = r.mtime]
          [] OTHER              -> t

=============================================================================
