----------------------------- MODULE Operations -----------------------------
(***************************************************************************)
(* Index records and planned operations (types.rs, protocol/messages.rs),  *)
(* and what a plan is meant to contain.                                    *)
(***************************************************************************)
EXTENDS Paths, FiniteSets

Kinds == {"dir", "file", "symlink"}

(***************************************************************************)
(* `IndexRecord`.  data stands for the digest or the symlink target (with  *)
(* the size), mode for the permission bits, mtime for the modification     *)
(* time.  The code only compares and copies them.                          *)
(***************************************************************************)
Record ==
    [path : RelativePath, kind : Kinds, data : Nat, mode : Nat, mtime : Nat]

\* `None` where the code holds an `Option<IndexRecord>`.
NoRecord ==
    [path |-> <<>>, kind |-> "none", data |-> 0, mode |-> 0, mtime |-> 0]

Index(s) ==
    /\ s \in Seq(Record)
    /\ \A i, j \in 1..Len(s) : i < j => Before(s[i].path, s[j].path)

OperationKinds == {"Delete", "UpsertDirectory", "UpsertFile", "UpsertSymlink"}

(***************************************************************************)
(* `Operation`, without its id: a plan is a sequence of numbered           *)
(* operations.  A Delete carries a path and the expected kind only.        *)
(***************************************************************************)
Operation == [op : OperationKinds, record : Record, update : BOOLEAN]

\* What `plan` sends: OperationId and Operation.
Numbered == [id : Nat, operation : Operation]

\* Operation::path.
PathOf(n) == n.operation.record.path

Delete(r) ==
    [op     |-> "Delete",
     record |-> [path |-> r.path, kind |-> r.kind,
                 data |-> 0, mode |-> 0, mtime |-> 0],
     update |-> FALSE]

\* Only UpsertFile has an update flag: the destination can supply a basis.
Upsert(r, update) ==
    [op     |-> CASE r.kind = "dir"  -> "UpsertDirectory"
                  [] r.kind = "file" -> "UpsertFile"
                  [] OTHER           -> "UpsertSymlink",
     record |-> r,
     update |-> r.kind = "file" /\ update]

-----------------------------------------------------------------------------
(***************************************************************************)
(* The reference a plan is checked against, stated on the two indexes as   *)
(* sets of records and not by merging them: remove every destination entry *)
(* that has no source entry of its kind at its path, then write every      *)
(* source record the destination does not hold identically.                *)
(***************************************************************************)
ToDelete(src, dst) ==
    {y \in dst : ~ \E x \in src : x.path = y.path /\ x.kind = y.kind}

\* Mutant: a directory at its path with its mode counts as up to date.
ToUpsertUntimed(src, dst) ==
    {x \in src : ~ \E y \in dst :
        x = y \/ (x.kind = "dir" /\ x = [y EXCEPT !.mtime = x.mtime])}

ToUpsert(src, dst) == src \ dst

\* A regular file at the path on the destination is the delta's basis.
HasBasis(r, dst) == \E y \in dst : y.path = r.path /\ y.kind = "file"

Difference(src, dst) ==
    {Delete(y) : y \in ToDelete(src, dst)} \cup
    {Upsert(x, HasBasis(x, dst)) : x \in ToUpsert(src, dst)}

=============================================================================
