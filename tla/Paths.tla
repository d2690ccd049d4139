------------------------------- MODULE Paths -------------------------------
(***************************************************************************)
(* Root-relative paths (types.rs, `RelativePath`).                         *)
(*                                                                         *)
(* A path is a non-empty sequence of components.  A component stands for   *)
(* one raw file name; it is a natural number because the only things the   *)
(* code does with names are to compare them, bytewise and in a total       *)
(* order, and to test them for equality.                                   *)
(***************************************************************************)
EXTENDS Naturals, Sequences

RelativePath == Seq(Nat) \ {<<>>}

(***************************************************************************)
(* The derived `Ord` of RelativePath: lexicographic in the components, a   *)
(* proper prefix first.  n is the first position at which p and q differ.  *)
(***************************************************************************)
Before(p, q) ==
    \E n \in 1..Len(q) :
        /\ \A i \in 1..(n - 1) : i <= Len(p) /\ p[i] = q[i]
        /\ \/ n = Len(p) + 1
           \/ n <= Len(p) /\ p[n] < q[n]

AtOrBefore(p, q) == ~Before(q, p)

(***************************************************************************)
(* `p.components().starts_with(q.components())`: p is q or lies below it.  *)
(***************************************************************************)
StartsWith(p, q) ==
    /\ Len(q) <= Len(p)
    /\ \A i \in 1..Len(q) : p[i] = q[i]

Below(p, q) == StartsWith(p, q) /\ p # q

Parent(p) == SubSeq(p, 1, Len(p) - 1)

\* `split_last` of the components: the directories above the leaf.
Ancestors(p) == {SubSeq(p, 1, n) : n \in 1..(Len(p) - 1)}

=============================================================================
