---------------------------- MODULE CommitProofs ----------------------------
(***************************************************************************)
(* Proofs about the committer, for every finite universe of paths, every   *)
(* pair of trees, all rules, any number of attempts and wherever each of   *)
(* them stops.                                                             *)
(*                                                                         *)
(* The argument.  The path order is a strict total order in which what     *)
(* lies below a directory is contiguous.  A plan is finite, so what is     *)
(* left of it has a first operation: the one with the fewest before it,    *)
(* which is the one with the least id, in whatever order the plan was      *)
(* staged.  Every directory that waits on the stack comes no later than    *)
(* what is left.  So when the first operation left is not below the top of *)
(* the stack, none is, and the directory may be finished.                  *)
(*                                                                         *)
(* A call of the commit is justified: it removes something listed in the   *)
(* tree the attempt began with, or installs a record of the source's       *)
(* index.  Neither touches what the destination's rules leave out.  What   *)
(* is removed is listed, and what is installed is listed at the source,    *)
(* so its path can be left out at the destination only if it, or           *)
(* something above it, is a directory on one side alone; what is left out  *)
(* is still there, and the call would find it in its way and fail.  The    *)
(* time of a link is set without looking at what is there, so the          *)
(* invariant says that the link was made by the call before.               *)
(*                                                                         *)
(* What an attempt reaches follows from an account of what is left of it:  *)
(* the operations not yet applied and the calls not yet made.  Every       *)
(* record the destination lacked is due or written, every entry that has   *)
(* to go is due or gone, and what both sides listed is still there.  A     *)
(* call keeps the account because it comes in order: nothing that is left  *)
(* is at its path but what must follow it, and a directory is settled when *)
(* nothing below it is left, so that no later call disturbs its time.  So  *)
(* when nothing is left the listings agree.  The same account shows that a *)
(* call finds what it needs in place unless the destination leaves it out. *)
(*                                                                         *)
(* A directory that a commit leaves read-only could stop a later attempt.  *)
(* It is given that mode when nothing below it is left, so by the account  *)
(* its entries are the source's then, and nothing that is left adds or     *)
(* removes a name in it: the directory is sealed.  No call undoes this, an *)
(* attempt that begins later finds nothing there but directories to        *)
(* settle, and settling them needs no write permission above.              *)
(***************************************************************************)
EXTENDS Commit, FiniteSetTheorems, SequenceTheorems, WellFoundedInduction, TLAPS

-----------------------------------------------------------------------------
(***************************************************************************)
(* The path order.                                                         *)
(***************************************************************************)
\* A set of numbers that is not empty has a least one.
LEMMA LeastNumber ==
    ASSUME NEW T \in SUBSET Nat, T # {}
    PROVE  \E x \in T : \A y \in T : x <= y
<1> DEFINE R == OpToRel(<, Nat)
<1>1. IsWellFoundedOn(R, Nat)
  BY NatLessThanWellFounded
<1>2. \A x, y \in Nat : y < x => <<y, x>> \in R
  BY DEF OpToRel
<1> HIDE DEF R
<1>3. PICK x \in T : \A y \in T : ~(<<y, x>> \in R)
  BY <1>1, WFMin
<1>4. \A y \in T : ~(y < x)
  BY <1>2, <1>3
<1> QED
  BY <1>3, <1>4

\* No path comes before itself.
LEMMA BeforeIrreflexive == ASSUME NEW p \in Seq(Nat) PROVE ~Before(p, p)
<1> SUFFICES ASSUME Before(p, p) PROVE FALSE
  OBVIOUS
<1>1. PICK n \in 1..Len(p) : n = Len(p) + 1 \/ (n <= Len(p) /\ p[n] < p[n])
  BY DEF Before
<1>2. Len(p) \in Nat /\ p[n] \in Nat
  OBVIOUS
<1> QED
  BY <1>1, <1>2

\* The path order is transitive.
LEMMA BeforeTransitive ==
    ASSUME NEW p \in Seq(Nat), NEW q \in Seq(Nat), NEW r \in Seq(Nat),
           Before(p, q), Before(q, r)
    PROVE  Before(p, r)
<1>1. PICK m \in 1..Len(q) :
          /\ \A i \in 1..(m - 1) : i <= Len(p) /\ p[i] = q[i]
          /\ m = Len(p) + 1 \/ (m <= Len(p) /\ p[m] < q[m])
  BY DEF Before
<1>2. PICK n \in 1..Len(r) :
          /\ \A i \in 1..(n - 1) : i <= Len(q) /\ q[i] = r[i]
          /\ n = Len(q) + 1 \/ (n <= Len(q) /\ q[n] < r[n])
  BY DEF Before
<1>3. /\ Len(p) \in Nat /\ Len(q) \in Nat /\ Len(r) \in Nat
      /\ \A i \in 1..Len(p) : p[i] \in Nat
      /\ \A i \in 1..Len(q) : q[i] \in Nat
      /\ \A i \in 1..Len(r) : r[i] \in Nat
  OBVIOUS
<1>4. CASE m < n
  <2>1. m \in 1..Len(r) /\ m \in 1..(n - 1)
    BY <1>3, <1>4
  <2>2. q[m] = r[m]
    BY <1>2, <2>1
  <2>3. ASSUME NEW i \in 1..(m - 1) PROVE i <= Len(p) /\ p[i] = r[i]
    <3>1. i \in 1..(n - 1)
      BY <1>4
    <3> QED
      BY <1>1, <1>2, <3>1
  <2> QED
    BY <1>1, <2>1, <2>2, <2>3 DEF Before
<1>5. CASE n <= m
  <2>1. ASSUME NEW i \in 1..(n - 1) PROVE i <= Len(p) /\ p[i] = r[i]
    <3>1. i \in 1..(m - 1)
      BY <1>5
    <3> QED
      BY <1>1, <1>2, <3>1
  <2>2. n <= Len(q) /\ q[n] < r[n]
    <3>1. n # Len(q) + 1
      BY <1>3, <1>5
    <3> QED
      BY <1>2, <3>1
  <2>3. CASE n = m
    <3>1. CASE n = Len(p) + 1
      BY <2>1, <3>1 DEF Before
    <3>2. CASE n <= Len(p) /\ p[n] < q[n]
      <4>1. PICK x, y, z : x = p[n] /\ y = q[n] /\ z = r[n]
        OBVIOUS
      <4>2. x \in Nat /\ y \in Nat /\ z \in Nat
        BY <1>3, <2>2, <3>2, <4>1
      <4>3. x < y /\ y < z
        BY <2>2, <3>2, <4>1
      <4>4. x < z
        BY <4>2, <4>3
      <4> QED
        BY <2>1, <3>2, <4>1, <4>4 DEF Before
    <3> QED
      BY <1>1, <2>3, <3>1, <3>2
  <2>4. CASE n < m
    <3>1. n <= Len(p) /\ p[n] = q[n]
      BY <1>1, <1>2, <1>3, <2>4
    <3> QED
      BY <2>1, <2>2, <3>1 DEF Before
  <2> QED
    BY <1>5, <2>3, <2>4
<1> QED
  BY <1>3, <1>4, <1>5

\* Two paths neither of which comes before the other are equal.
LEMMA BeforeTotal ==
    ASSUME NEW p \in Seq(Nat), NEW q \in Seq(Nat)
    PROVE  p = q \/ Before(p, q) \/ Before(q, p)
<1> SUFFICES ASSUME p # q PROVE Before(p, q) \/ Before(q, p)
  OBVIOUS
<1>1. /\ Len(p) \in Nat /\ Len(q) \in Nat
      /\ \A i \in 1..Len(p) : p[i] \in Nat
      /\ \A i \in 1..Len(q) : q[i] \in Nat
  OBVIOUS
<1> DEFINE T == {n \in Nat : n > 0 /\ (n > Len(p) \/ n > Len(q) \/ p[n] # q[n])}
<1>2. T \in SUBSET Nat /\ Len(p) + 1 \in T
  BY <1>1
<1>3. PICK n \in T : \A y \in T : n <= y
  BY <1>2, LeastNumber
<1>4. \A i \in 1..(n - 1) : i <= Len(p) /\ i <= Len(q) /\ p[i] = q[i]
  BY <1>1, <1>3
<1>5. CASE n > Len(p) /\ n > Len(q)
  <2>1. Len(p) + 1 = n /\ Len(q) + 1 = n
    <3>1. Len(p) + 1 \in T /\ Len(q) + 1 \in T
      BY <1>1
    <3> QED
      BY <1>1, <1>3, <1>5, <3>1
  <2>2. \A i \in 1..Len(p) : p[i] = q[i]
    BY <1>1, <1>4, <2>1
  <2> QED
    BY <1>1, <2>1, <2>2, SeqEqual
<1>6. CASE n > Len(p) /\ n <= Len(q)
  <2>1. n = Len(p) + 1 /\ n \in 1..Len(q)
    BY <1>1, <1>3, <1>4, <1>6
  <2> QED
    BY <1>4, <2>1 DEF Before
<1>7. CASE n <= Len(p) /\ n > Len(q)
  <2>1. n = Len(q) + 1 /\ n \in 1..Len(p)
    BY <1>1, <1>3, <1>4, <1>7
  <2> QED
    BY <1>4, <2>1 DEF Before
<1>8. CASE n <= Len(p) /\ n <= Len(q)
  <2>1. n \in 1..Len(p) /\ n \in 1..Len(q) /\ p[n] # q[n] /\ p[n] \in Nat /\ q[n] \in Nat
    BY <1>1, <1>3, <1>8
  <2>2. p[n] < q[n] \/ q[n] < p[n]
    BY <2>1
  <2> QED
    BY <1>4, <1>8, <2>1, <2>2 DEF Before
<1> QED
  BY <1>1, <1>3, <1>5, <1>6, <1>7, <1>8

\* p comes no later than q.
NotAfter(p, q) == p = q \/ Before(p, q)

\* What lies below a directory is contiguous in path order.
LEMMA Contiguous ==
    ASSUME NEW p \in Seq(Nat), NEW q \in Seq(Nat), NEW r \in Seq(Nat),
           NotAfter(p, q), NotAfter(q, r), StartsWith(r, p)
    PROVE  StartsWith(q, p)
<1>1. /\ Len(p) \in Nat /\ Len(q) \in Nat /\ Len(r) \in Nat
      /\ \A i \in 1..Len(p) : p[i] \in Nat
      /\ \A i \in 1..Len(q) : q[i] \in Nat
      /\ \A i \in 1..Len(r) : r[i] \in Nat
  OBVIOUS
<1>2. Len(p) <= Len(r) /\ \A i \in 1..Len(p) : r[i] = p[i]
  BY DEF StartsWith
<1>3. CASE p = q
  BY <1>1, <1>3 DEF StartsWith
<1>4. CASE q = r
  BY <1>2, <1>4 DEF StartsWith
<1>5. CASE Before(p, q) /\ Before(q, r)
  <2>1. PICK m \in 1..Len(q) :
            /\ \A i \in 1..(m - 1) : i <= Len(p) /\ p[i] = q[i]
            /\ m = Len(p) + 1 \/ (m <= Len(p) /\ p[m] < q[m])
    BY <1>5 DEF Before
  <2>2. PICK n \in 1..Len(r) :
            /\ \A i \in 1..(n - 1) : i <= Len(q) /\ q[i] = r[i]
            /\ n = Len(q) + 1 \/ (n <= Len(q) /\ q[n] < r[n])
    BY <1>5 DEF Before
  <2>3. CASE m = Len(p) + 1
    <3>1. Len(p) <= Len(q) /\ \A i \in 1..Len(p) : p[i] = q[i]
      BY <1>1, <2>1, <2>3
    <3> QED
      BY <3>1 DEF StartsWith
  <2>4. CASE m <= Len(p) /\ p[m] < q[m]
    <3>1. r[m] = p[m] /\ m \in 1..Len(r) /\ m \in 1..Len(p) /\ m \in 1..Len(q)
      BY <1>1, <1>2, <2>4
    <3>2. PICK x, y : x = p[m] /\ y = q[m]
      OBVIOUS
    <3>3. x \in Nat /\ y \in Nat /\ x < y /\ r[m] = x
      BY <1>1, <2>4, <3>1, <3>2
    <3>4. ~(n > m)
      <4>1. n > m => q[m] = r[m]
        BY <1>1, <2>2, <3>1
      <4> QED
        BY <3>2, <3>3, <4>1
    <3>5. n # Len(q) + 1
      BY <1>1, <3>1, <3>4
    <3>6. n <= Len(q) /\ q[n] < r[n]
      BY <2>2, <3>5
    <3>7. n # m
      BY <3>2, <3>3, <3>6
    <3>8. n < m
      BY <3>4, <3>7
    <3>9. p[n] = q[n] /\ r[n] = p[n] /\ n \in 1..Len(p)
      BY <1>1, <1>2, <2>1, <2>4, <3>8
    <3>10. p[n] \in Nat
      BY <1>1, <3>9
    <3> QED
      BY <3>6, <3>9, <3>10
  <2> QED
    BY <2>1, <2>3, <2>4
<1> QED
  BY <1>3, <1>4, <1>5 DEF NotAfter

-----------------------------------------------------------------------------
(***************************************************************************)
(* A plan has a first operation.                                           *)
(***************************************************************************)
\* Finitely many operations, at most one Delete and one upsert of each path.
Orderable(C) ==
    /\ IsFiniteSet(C)
    /\ \A o \in C : Path(o) \in Seq(Nat)
    /\ \A o, x \in C :
          Path(o) = Path(x) /\ (o.op = "Delete" <=> x.op = "Delete") => o = x

\* The operations that come before one of them.
Sooner(C, o) == {y \in C : Precedes(y, o)}

\* Plan order is a strict total order, and the number of operations before one
\* grows with it.
LEMMA PlanOrder ==
    ASSUME NEW C, Orderable(C)
    PROVE  /\ \A x, y \in C : x # y => Precedes(x, y) \/ Precedes(y, x)
           /\ \A x \in C : Cardinality(Sooner(C, x)) \in Nat
           /\ \A x, y \in C :
                 Precedes(x, y) => Cardinality(Sooner(C, x)) < Cardinality(Sooner(C, y))
<1>1. /\ IsFiniteSet(C) /\ \A o \in C : Path(o) \in Seq(Nat)
      /\ \A o, x \in C :
            Path(o) = Path(x) /\ (o.op = "Delete" <=> x.op = "Delete") => o = x
  BY DEF Orderable
<1>2. ASSUME NEW x \in C, NEW y \in C, NEW z \in C, Precedes(x, y), Precedes(y, z)
      PROVE  Precedes(x, z)
  BY <1>1, <1>2, BeforeTransitive DEF Precedes
<1>3. ASSUME NEW x \in C PROVE ~Precedes(x, x)
  BY <1>1, <1>3, BeforeIrreflexive DEF Precedes
<1>4. ASSUME NEW x \in C, NEW y \in C, x # y PROVE Precedes(x, y) \/ Precedes(y, x)
  <2>1. Path(x) = Path(y) \/ Before(Path(x), Path(y)) \/ Before(Path(y), Path(x))
    BY <1>1, BeforeTotal
  <2> QED
    BY <1>1, <1>4, <2>1 DEF Precedes
<1>5. ASSUME NEW o \in C
      PROVE  IsFiniteSet(Sooner(C, o)) /\ Cardinality(Sooner(C, o)) \in Nat
  <2>1. Sooner(C, o) \in SUBSET C
    BY DEF Sooner
  <2>2. IsFiniteSet(Sooner(C, o))
    BY <1>1, <2>1, FS_Subset
  <2> QED
    BY <2>2, FS_CardinalityType
<1>6. ASSUME NEW x \in C, NEW o \in C, Precedes(x, o)
      PROVE  Cardinality(Sooner(C, x)) < Cardinality(Sooner(C, o))
  <2>1. Sooner(C, x) \in SUBSET Sooner(C, o) /\ x \in Sooner(C, o) /\ ~(x \in Sooner(C, x))
    BY <1>2, <1>3, <1>6 DEF Sooner
  <2>2. /\ IsFiniteSet(Sooner(C, o)) /\ Cardinality(Sooner(C, o)) \in Nat
        /\ Cardinality(Sooner(C, x)) \in Nat
    BY <1>5
  <2>3. /\ Cardinality(Sooner(C, x)) <= Cardinality(Sooner(C, o))
        /\ Cardinality(Sooner(C, o)) = Cardinality(Sooner(C, x)) => Sooner(C, o) = Sooner(C, x)
    BY <2>1, <2>2, FS_Subset
  <2> QED
    BY <2>1, <2>2, <2>3
<1> QED
  BY <1>4, <1>5, <1>6

\* Of finitely many operations the one with the fewest before it has none.
LEMMA FirstOperation ==
    ASSUME NEW C, Orderable(C), C # {}
    PROVE  \E o \in C : \A x \in C \ {o} : Precedes(o, x)
<1> DEFINE R == {Cardinality(Sooner(C, o)) : o \in C}
<1>1. PICK n \in R : \A k \in R : n <= k
  <2>1. R \in SUBSET Nat /\ R # {}
    BY PlanOrder
  <2> HIDE DEF R
  <2> QED
    BY <2>1, LeastNumber
<1>2. PICK o \in C : n = Cardinality(Sooner(C, o))
  BY <1>1
<1>3. ASSUME NEW x \in C, Precedes(x, o) PROVE FALSE
  <2>1. Cardinality(Sooner(C, o)) <= Cardinality(Sooner(C, x))
    BY <1>1, <1>2
  <2>2. /\ Cardinality(Sooner(C, x)) < Cardinality(Sooner(C, o))
        /\ Cardinality(Sooner(C, x)) \in Nat /\ Cardinality(Sooner(C, o)) \in Nat
    BY <1>3, PlanOrder
  <2> QED
    BY <2>1, <2>2
<1> QED
  BY <1>3, PlanOrder

\* The operation with the least id is the first one left, whatever the order
\* in which the operations were staged.
LEMMA NextIsFirst ==
    ASSUME Orderable(plan), changes \subseteq plan, NEW o \in changes
    PROVE  IsNext(o) <=> \A x \in changes \ {o} : Precedes(o, x)
<1>1. ASSUME NEW x \in changes \ {o} PROVE Id(o) < Id(x) <=> Precedes(o, x)
  <2>1. PICK m, n : m = Cardinality(Sooner(plan, o)) /\ n = Cardinality(Sooner(plan, x))
    OBVIOUS
  <2>2. Id(o) = m + 1 /\ Id(x) = n + 1
    BY <2>1 DEF Id, Sooner
  <2>3. /\ m \in Nat /\ n \in Nat
        /\ Precedes(o, x) \/ Precedes(x, o)
        /\ Precedes(o, x) => m < n
        /\ Precedes(x, o) => n < m
    BY <2>1, PlanOrder
  <2>4. m < n <=> Precedes(o, x)
    BY <2>3
  <2> QED
    BY <2>2, <2>3, <2>4
<1> QED
  BY <1>1 DEF IsNext

-----------------------------------------------------------------------------
(***************************************************************************)
(* What a plan is made of: src is the source's index, t the tree listed    *)
(* under the rules r.                                                      *)
(***************************************************************************)
\* A Delete names something listed, an upsert a record of the source.
Warranted(o, src, t, r) ==
    /\ o.op \in OperationKinds /\ o.record \in Record /\ Path(o) \in Universe
    /\ o.op = "Delete" => Listed(t, Path(o), r)
    /\ o.op # "Delete" => o.record \in src
    /\ o.op = "UpsertDirectory" => o.record.kind = "dir"
    /\ o.op = "UpsertFile" => o.record.kind = "file"
    /\ o.op = "UpsertSymlink" => o.record.kind = "symlink"

\* A scan lists finitely many records, each of something that is there.
LEMMA ScanFacts ==
    ASSUME NEW t \in [Universe -> Entry], NEW r
    PROVE  /\ IsFiniteSet(Scan(t, r))
           /\ \A x \in Scan(t, r) : /\ x \in Record /\ x.path \in Universe
                                    /\ Listed(t, x.path, r) /\ x = RecordAt(t, x.path)
<1>1. IsFiniteSet(Universe) /\ Universe \subseteq RelativePath
  BY UniverseAssumption
<1> DEFINE L == {q \in Universe : Listed(t, q, r)}
           f == [p \in L |-> RecordAt(t, p)]
<1>2. IsFiniteSet(L)
  <2>1. L \in SUBSET Universe
    OBVIOUS
  <2> HIDE DEF L
  <2> QED
    BY <1>1, <2>1, FS_Subset
<1>3. Scan(t, r) = {RecordAt(t, p) : p \in L}
  BY DEF Scan
<1>4. IsFiniteSet(Scan(t, r))
  <2>1. f \in Surjection(L, Scan(t, r))
    BY <1>3 DEF Surjection
  <2> HIDE DEF f, L
  <2> QED
    BY <1>2, <2>1, FS_Surjection
<1>5. ASSUME NEW x \in Scan(t, r)
      PROVE  /\ x \in Record /\ x.path \in Universe
             /\ Listed(t, x.path, r) /\ x = RecordAt(t, x.path)
  <2>1. PICK p \in Universe : Listed(t, p, r) /\ x = RecordAt(t, p)
    BY DEF Scan
  <2>2. x.path = p
    BY <2>1 DEF RecordAt
  <2>3. t[p] \in Entry /\ t[p].kind # "none"
    BY <2>1 DEF Listed, Present
  <2>4. x \in Record
    BY <1>1, <2>1, <2>3 DEF RecordAt, Record, Entry
  <2> QED
    BY <2>1, <2>2, <2>4
<1> QED
  BY <1>4, <1>5

\* The difference of two listings is a plan.
LEMMA DifferenceFacts ==
    ASSUME NEW s \in [Universe -> Entry], NEW t \in [Universe -> Entry],
           NEW r1, NEW r2, NEW src, NEW dst,
           src = Scan(s, r1), dst = Scan(t, r2)
    PROVE  /\ Orderable(Difference(src, dst))
           /\ \A o \in Difference(src, dst) : Warranted(o, src, t, r2)
<1>1. /\ IsFiniteSet(src)
      /\ \A x \in src : x \in Record /\ x.path \in Universe /\ x = RecordAt(s, x.path)
  BY ScanFacts
<1>2. /\ IsFiniteSet(dst)
      /\ \A x \in dst : /\ x \in Record /\ x.path \in Universe
                        /\ Listed(t, x.path, r2) /\ x = RecordAt(t, x.path)
  BY ScanFacts
<1> DEFINE A == ToDelete(src, dst)
           B == ToUpsert(src, dst)
           f == [y \in A |-> Delete(y)]
           g == [x \in B |-> Upsert(x, HasBasis(x, dst))]
<1>3. A \in SUBSET dst /\ B \in SUBSET src
  BY DEF ToDelete, ToUpsert
<1>4. Difference(src, dst) = {f[y] : y \in A} \cup {g[x] : x \in B}
  BY DEF Difference
<1>5. IsFiniteSet(Difference(src, dst))
  <2>1. f \in Surjection(A, {f[y] : y \in A}) /\ g \in Surjection(B, {g[x] : x \in B})
    BY DEF Surjection
  <2> HIDE DEF A, B, f, g
  <2>2. IsFiniteSet(A) /\ IsFiniteSet(B)
    BY <1>1, <1>2, <1>3, FS_Subset
  <2>3. IsFiniteSet({f[y] : y \in A})
    BY <2>1, <2>2, FS_Surjection
  <2>4. IsFiniteSet({g[x] : x \in B})
    BY <2>1, <2>2, FS_Surjection
  <2>5. \A U, V : IsFiniteSet(U) /\ IsFiniteSet(V) => IsFiniteSet(U \cup V)
    BY FS_Union
  <2> QED
    BY <1>4, <2>3, <2>4, <2>5
<1>6. ASSUME NEW y \in dst
      PROVE  /\ Delete(y).op = "Delete" /\ Delete(y).record \in Record
             /\ Path(Delete(y)) = y.path
  BY <1>2 DEF Delete, Path, Record
<1>7. ASSUME NEW x \in src, NEW u
      PROVE  /\ Upsert(x, u).op \in OperationKinds \ {"Delete"}
             /\ Upsert(x, u).record = x /\ Path(Upsert(x, u)) = x.path
             /\ Upsert(x, u).op = "UpsertDirectory" => x.kind = "dir"
             /\ Upsert(x, u).op = "UpsertFile" => x.kind = "file"
             /\ Upsert(x, u).op = "UpsertSymlink" => x.kind = "symlink"
  <2>1. x.kind \in Kinds
    BY <1>1 DEF Record
  <2> QED
    BY <2>1 DEF Upsert, Path, OperationKinds, Kinds
<1>8. ASSUME NEW o \in Difference(src, dst)
      PROVE  \/ \E y \in dst : o = Delete(y)
             \/ \E x \in src : o = Upsert(x, HasBasis(x, dst))
  BY <1>3 DEF Difference
<1>9. ASSUME NEW o \in Difference(src, dst) PROVE Warranted(o, src, t, r2)
  <2>1. CASE \E y \in dst : o = Delete(y)
    <3>1. PICK y \in dst : o = Delete(y)
      BY <2>1
    <3> QED
      BY <1>2, <1>6, <3>1 DEF Warranted, OperationKinds
  <2>2. CASE \E x \in src : o = Upsert(x, HasBasis(x, dst))
    <3>1. PICK x \in src : o = Upsert(x, HasBasis(x, dst))
      BY <2>2
    <3> QED
      BY <1>1, <1>7, <3>1 DEF Warranted
  <2> QED
    BY <1>8, <2>1, <2>2
<1>10. ASSUME NEW o \in Difference(src, dst), NEW x \in Difference(src, dst),
              Path(o) = Path(x), o.op = "Delete" <=> x.op = "Delete"
       PROVE  o = x
  <2>1. CASE o.op = "Delete"
    <3>1. PICK y \in dst : o = Delete(y)
      BY <1>7, <1>8, <2>1
    <3>2. PICK z \in dst : x = Delete(z)
      BY <1>7, <1>8, <1>10, <2>1
    <3>3. y.path = z.path
      BY <1>6, <1>10, <3>1, <3>2
    <3> QED
      BY <1>2, <3>1, <3>2, <3>3
  <2>2. CASE o.op # "Delete"
    <3>1. PICK y \in src : o = Upsert(y, HasBasis(y, dst))
      BY <1>6, <1>8, <2>2
    <3>2. PICK z \in src : x = Upsert(z, HasBasis(z, dst))
      BY <1>6, <1>8, <1>10, <2>2
    <3>3. y.path = z.path
      BY <1>7, <1>10, <3>1, <3>2
    <3> QED
      BY <1>1, <3>1, <3>2, <3>3
  <2> QED
    BY <2>1, <2>2
<1>11. \A o \in Difference(src, dst) : Path(o) \in Seq(Nat)
  BY <1>9, UniverseAssumption DEF Warranted, RelativePath
<1> QED
  BY <1>5, <1>9, <1>10, <1>11 DEF Orderable

-----------------------------------------------------------------------------
(***************************************************************************)
(* What the calls are made for.                                            *)
(***************************************************************************)
\* The calls that make a directory or set its metadata, and those that wait
\* until nothing below it is left.
Makes == {"mkdir", "open", "chmod", "settle"}
Closes == {"chmod", "settle", "rmdir"}

\* The same, of a call of the commit.
Justified(c, src, t, r) ==
    /\ c.record.path \in Universe
    /\ c.name \in {"unlink", "rmdir"} => Listed(t, c.record.path, r)
    /\ c.name \notin {"unlink", "rmdir"} => c.record \in src
    /\ c.name \in Makes => c.record.kind = "dir"
    /\ c.name = "rename" => c.record.kind = "file"
    /\ c.name \in {"clear", "symlink", "utimes"} => c.record.kind = "symlink"

\* The time of a link is set directly after the link is made, the time of a
\* directory directly after its mode.
Follows(c, i) ==
    /\ c[i].name = "utimes" =>
          i > 1 /\ c[i - 1].name = "symlink" /\ c[i - 1].record = c[i].record
    /\ c[i].name = "settle" =>
          i > 1 /\ c[i - 1].name = "chmod" /\ c[i - 1].record = c[i].record

\* The calls of an operation, or of a directory that waits.
Fits(c, src, t, r) ==
    /\ c \in Seq(Call)
    /\ \A i \in 1..Len(c) : Justified(c[i], src, t, r) /\ Follows(c, i)

\* The names that belong to an operation.
NamesFit(names, op) ==
    /\ names \in Seq(CallNames)
    /\ \A i \in 1..Len(names) :
          /\ names[i] \in {"unlink", "rmdir"} <=> op = "Delete"
          /\ names[i] \in Makes => op = "UpsertDirectory"
          /\ names[i] = "rename" => op = "UpsertFile"
          /\ names[i] \in {"clear", "symlink", "utimes"} => op = "UpsertSymlink"
          /\ names[i] = "utimes" => i > 1 /\ names[i - 1] = "symlink"
          /\ names[i] = "settle" => i > 1 /\ names[i - 1] = "chmod"

\* `apply` makes and defers calls that belong to the operation, and never
\* settles or removes a directory at once.
LEMMA NamesFacts ==
    ASSUME NEW o, o.op \in OperationKinds
    PROVE  /\ NamesFit(ImmediateCalls(o), o.op) /\ NamesFit(DeferredCalls(o), o.op)
           /\ \A i \in 1..Len(ImmediateCalls(o)) :
                 ImmediateCalls(o)[i] \notin Closes
<1>1. NamesFit(<<>>, o.op)
  BY DEF NamesFit
<1>2. o.op = "UpsertDirectory" => NamesFit(<<"mkdir", "open">>, o.op) /\ NamesFit(<<"chmod", "settle">>, o.op)
  <2>1. \A i \in 1..2 : i = 1 \/ i = 2
    OBVIOUS
  <2>2. ASSUME NEW n, n \in Seq(CallNames), Len(n) = 2, n[1] \in {"mkdir", "chmod"},
               n[2] = "open" \/ (n[2] = "settle" /\ n[1] = "chmod"), o.op = "UpsertDirectory"
        PROVE  NamesFit(n, o.op)
    BY <2>1, <2>2 DEF NamesFit, Makes
  <2>3. /\ <<"mkdir", "open">> \in Seq(CallNames) /\ <<"chmod", "settle">> \in Seq(CallNames)
    BY DEF CallNames
  <2>4. /\ Len(<<"mkdir", "open">>) = 2 /\ <<"mkdir", "open">>[1] = "mkdir" /\ <<"mkdir", "open">>[2] = "open"
        /\ Len(<<"chmod", "settle">>) = 2 /\ <<"chmod", "settle">>[1] = "chmod"
        /\ <<"chmod", "settle">>[2] = "settle"
    OBVIOUS
  <2> QED
    BY <2>2, <2>3, <2>4
<1>3. o.op = "Delete" => NamesFit(<<"unlink">>, o.op) /\ NamesFit(<<"rmdir">>, o.op)
  BY DEF NamesFit, CallNames, Makes
<1>4. o.op = "UpsertFile" => NamesFit(<<"rename">>, o.op)
  BY DEF NamesFit, CallNames, Makes
<1>5. o.op = "UpsertSymlink" => NamesFit(SymlinkCalls, o.op)
  <2>1. ASSUME o.op = "UpsertSymlink" PROVE NamesFit(SymlinkCalls, o.op)
    <3>1. SymlinkCalls \in Seq(CallNames) /\ Len(SymlinkCalls) = 3
      BY DEF SymlinkCalls, CallNames
    <3>2. SymlinkCalls[1] = "clear" /\ SymlinkCalls[2] = "symlink" /\ SymlinkCalls[3] = "utimes"
      BY DEF SymlinkCalls
    <3>3. \A i \in 1..3 : i = 1 \/ i = 2 \/ i = 3
      OBVIOUS
    <3> QED
      BY <2>1, <3>1, <3>2, <3>3 DEF NamesFit, Makes
  <2> QED
    BY <2>1
<1>6. NamesFit(DeferredCalls(o), o.op)
  BY <1>1, <1>2, <1>3, <1>4, <1>5 DEF DeferredCalls
<1>7. \/ o.op = "UpsertDirectory" /\ ImmediateCalls(o) = <<"mkdir", "open">>
      \/ ImmediateCalls(o) = <<>>
      \/ o.op = "Delete" /\ ImmediateCalls(o) = <<"unlink">>
      \/ o.op = "UpsertFile" /\ ImmediateCalls(o) = <<"rename">>
      \/ o.op = "UpsertSymlink" /\ ImmediateCalls(o) = SymlinkCalls
  BY DEF ImmediateCalls, OperationKinds
<1>8. NamesFit(ImmediateCalls(o), o.op)
  BY <1>1, <1>2, <1>3, <1>4, <1>5, <1>7
<1>9. \A i \in 1..Len(ImmediateCalls(o)) : ImmediateCalls(o)[i] \notin Closes
  <2>1. CASE o.op = "UpsertDirectory" /\ ImmediateCalls(o) = <<"mkdir", "open">>
    BY <2>1 DEF Closes
  <2>2. CASE ImmediateCalls(o) = <<>>
    BY <2>2
  <2>3. CASE o.op = "Delete" /\ ImmediateCalls(o) = <<"unlink">>
    BY <2>3 DEF Closes
  <2>4. CASE o.op = "UpsertFile" \/ o.op = "UpsertSymlink"
    BY <1>8, <2>4 DEF NamesFit, Makes, Closes
  <2> QED
    BY <1>7, <2>1, <2>2, <2>3, <2>4
<1> QED
  BY <1>6, <1>8, <1>9

\* The calls of a warranted operation are justified.
LEMMA CallsFacts ==
    ASSUME NEW o, NEW src, NEW t, NEW r, Warranted(o, src, t, r),
           NEW names, NamesFit(names, o.op)
    PROVE  /\ Fits(CallsFor(names, o.record), src, t, r)
           /\ Len(CallsFor(names, o.record)) = Len(names)
           /\ \A i \in 1..Len(names) :
                 /\ CallsFor(names, o.record)[i].record = o.record
                 /\ CallsFor(names, o.record)[i].name = names[i]
<1>1. names \in Seq(CallNames) /\ Len(names) \in Nat /\ \A i \in 1..Len(names) : names[i] \in CallNames
  BY DEF NamesFit
<1>2. PICK c : c = CallsFor(names, o.record)
  OBVIOUS
<1>3. c = [i \in 1..Len(names) |-> [name |-> names[i], record |-> o.record]]
  BY <1>2 DEF CallsFor
<1>4. c \in Seq(Call) /\ Len(c) = Len(names)
  <2>1. \A i \in 1..Len(names) : [name |-> names[i], record |-> o.record] \in Call
    BY <1>1 DEF Call, Warranted
  <2> QED
    BY <1>1, <1>3, <2>1
<1>5. \A i \in 1..Len(names) : c[i].record = o.record /\ c[i].name = names[i]
  BY <1>3
<1>6. ASSUME NEW i \in 1..Len(c) PROVE Justified(c[i], src, t, r)
  <2>1. c[i].record = o.record /\ c[i].name = names[i] /\ c[i].record.path = Path(o)
    BY <1>4, <1>5 DEF Path
  <2> QED
    BY <1>4, <2>1 DEF Justified, Warranted, NamesFit
<1>7. ASSUME NEW i \in 1..Len(c) PROVE Follows(c, i)
  <2>1. /\ names[i] = "utimes" => i > 1 /\ names[i - 1] = "symlink"
        /\ names[i] = "settle" => i > 1 /\ names[i - 1] = "chmod"
    BY <1>4 DEF NamesFit
  <2>2. i > 1 => i - 1 \in 1..Len(names)
    BY <1>1, <1>4
  <2> QED
    BY <1>4, <1>5, <2>1, <2>2 DEF Follows
<1> QED
  BY <1>2, <1>4, <1>5, <1>6, <1>7 DEF Fits

-----------------------------------------------------------------------------
(***************************************************************************)
(* Trees and the calls on them.                                            *)
(***************************************************************************)
\* The ancestors of a path.
LEMMA AncestorFacts ==
    ASSUME NEW p \in Universe
    PROVE  /\ Ancestors(p) \subseteq Universe /\ p \notin Ancestors(p)
           /\ Len(p) > 1 => Parent(p) \in Ancestors(p) /\ Parent(p) # p
           /\ \A q \in Ancestors(p) : Ancestors(q) \subseteq Ancestors(p)
           /\ \A q \in Ancestors(p) : p \notin Ancestors(q)
<1>1. p \in Seq(Nat) /\ Len(p) \in Nat /\ Ancestors(p) \subseteq Universe
  BY UniverseAssumption DEF RelativePath
<1>2. ASSUME NEW n \in 1..(Len(p) - 1)
      PROVE  /\ SubSeq(p, 1, n) \in Seq(Nat) /\ Len(SubSeq(p, 1, n)) = n
             /\ \A m \in 1..(n - 1) : SubSeq(SubSeq(p, 1, n), 1, m) = SubSeq(p, 1, m)
  <2>1. PICK q : q = SubSeq(p, 1, n)
    OBVIOUS
  <2>2. q \in Seq(Nat) /\ Len(q) = n /\ \A i \in 1..n : q[i] = p[i]
    BY <1>1, <2>1
  <2>3. ASSUME NEW m \in 1..(n - 1) PROVE SubSeq(q, 1, m) = SubSeq(p, 1, m)
    <3>1. /\ SubSeq(q, 1, m) \in Seq(Nat) /\ Len(SubSeq(q, 1, m)) = m
          /\ \A i \in 1..m : SubSeq(q, 1, m)[i] = q[i]
      BY <2>2
    <3>2. /\ SubSeq(p, 1, m) \in Seq(Nat) /\ Len(SubSeq(p, 1, m)) = m
          /\ \A i \in 1..m : SubSeq(p, 1, m)[i] = p[i]
      BY <1>1
    <3>3. \A i \in 1..m : q[i] = p[i]
      BY <2>2
    <3> QED
      BY <3>1, <3>2, <3>3, SeqEqual
  <2> QED
    BY <2>1, <2>2, <2>3
<1>3. ASSUME NEW q \in Ancestors(p) PROVE q \in Seq(Nat) /\ Len(q) < Len(p)
  <2>1. PICK n \in 1..(Len(p) - 1) : q = SubSeq(p, 1, n)
    BY DEF Ancestors
  <2>2. q \in Seq(Nat) /\ Len(q) = n
    BY <1>2, <2>1
  <2> QED
    BY <1>1, <2>2
<1>4. ASSUME NEW q \in Ancestors(p) PROVE Ancestors(q) \subseteq Ancestors(p)
  <2>1. PICK n \in 1..(Len(p) - 1) : q = SubSeq(p, 1, n)
    BY DEF Ancestors
  <2>2. Len(q) = n
    BY <1>2, <2>1
  <2>3. ASSUME NEW w \in Ancestors(q) PROVE w \in Ancestors(p)
    <3>1. PICK m \in 1..(n - 1) : w = SubSeq(q, 1, m)
      BY <2>2 DEF Ancestors
    <3>2. w = SubSeq(p, 1, m) /\ m \in 1..(Len(p) - 1)
      BY <1>1, <1>2, <2>1, <3>1
    <3> QED
      BY <3>2 DEF Ancestors
  <2> QED
    BY <2>3
<1>5. ASSUME Len(p) > 1 PROVE Parent(p) \in Ancestors(p)
  <2>1. Len(p) - 1 \in 1..(Len(p) - 1)
    BY <1>1, <1>5
  <2> QED
    BY <2>1 DEF Parent, Ancestors
<1>6. p \notin Ancestors(p)
  BY <1>1, <1>3
<1> QED
  BY <1>1, <1>4, <1>5, <1>6

\* A directory with something below it has a child.
LEMMA ChildBelow ==
    ASSUME NEW t, IsTree(t), NEW p \in Universe, NEW q \in Universe, Present(t, q),
           p \in Ancestors(q)
    PROVE  Children(t, p) # {}
<1>1. q \in Seq(Nat) /\ Len(q) \in Nat /\ Ancestors(q) \subseteq Universe
  BY UniverseAssumption DEF RelativePath
<1>2. PICK n \in 1..(Len(q) - 1) : p = SubSeq(q, 1, n)
  BY DEF Ancestors
<1>3. PICK c : c = SubSeq(q, 1, n + 1)
  OBVIOUS
<1>4. c \in Seq(Nat) /\ Len(c) = n + 1 /\ \A i \in 1..(n + 1) : c[i] = q[i]
  BY <1>1, <1>2, <1>3
<1>5. Parent(c) = p
  <2>1. PICK d : d = Parent(c)
    OBVIOUS
  <2>2. d \in Seq(Nat) /\ Len(d) = n /\ \A i \in 1..n : d[i] = c[i]
    BY <1>2, <1>4, <2>1 DEF Parent
  <2>3. p \in Seq(Nat) /\ Len(p) = n /\ \A i \in 1..n : p[i] = q[i]
    BY <1>1, <1>2
  <2>4. \A i \in 1..n : c[i] = q[i]
    BY <1>2, <1>4
  <2> QED
    BY <2>1, <2>2, <2>3, <2>4, SeqEqual
<1>6. CASE n + 1 = Len(q)
  <2>1. c = q
    BY <1>1, <1>4, <1>6, SeqEqual
  <2> QED
    BY <1>5, <2>1 DEF Children
<1>7. CASE n + 1 # Len(q)
  <2>1. n + 1 \in 1..(Len(q) - 1)
    BY <1>1, <1>2, <1>7
  <2>2. c \in Ancestors(q)
    BY <1>3, <2>1 DEF Ancestors
  <2>3. c \in Universe /\ Present(t, c)
    BY <1>1, <2>2 DEF IsTree, Present
  <2> QED
    BY <1>5, <2>3 DEF Children
<1> QED
  BY <1>6, <1>7

\* What a call may leave: a name is added, removed or replaced in a directory
\* that resolves; an entry keeps its kind; or nothing changes.
Renamed(t, u, p) ==
    \E e \in Entry : /\ u = WithEntry(t, p, e) /\ CanModify(t, p)
                     /\ t[p].kind # "dir" \/ Children(t, p) = {}

Retouched(t, u, p) ==
    \E e \in Entry : u = [t EXCEPT ![p] = e] /\ e.kind = t[p].kind

\* Every call that succeeds leaves one of the three.
LEMMA EffectForms ==
    ASSUME NEW t \in [Universe -> Entry], NEW c \in Call, c.record.path \in Universe,
           Succeeds(t, c)
    PROVE  \/ Renamed(t, Effect(t, c), c.record.path)
           \/ Retouched(t, Effect(t, c), c.record.path)
           \/ Effect(t, c) = t
<1>1. PICK p, r : p = c.record.path /\ r = c.record
  OBVIOUS
<1>2. t[p] \in Entry /\ r \in Record /\ c.name \in CallNames /\ p \in Universe
  BY <1>1 DEF Call
<1>3. /\ Absent \in Entry /\ EntryOf(r) \in Entry
      /\ [Absent EXCEPT !.kind = "dir", !.mode = 7] \in Entry
      /\ [EntryOf(r) EXCEPT !.mode = 7, !.mtime = 0] \in Entry
  BY <1>2 DEF Absent, EntryOf, Entry, Record, Kinds
<1>4. /\ [t[p] EXCEPT !.mode = 7] \in Entry /\ [t[p] EXCEPT !.mode = 7].kind = t[p].kind
      /\ [t[p] EXCEPT !.mtime = r.mtime] \in Entry
      /\ [t[p] EXCEPT !.mtime = r.mtime].kind = t[p].kind
      /\ [t[p] EXCEPT !.mode = r.mode] \in Entry /\ [t[p] EXCEPT !.mode = r.mode].kind = t[p].kind
  BY <1>2 DEF Entry, Record
<1>5. CASE c.name \in {"unlink", "rmdir"}
  <2>1. Effect(t, c) = WithEntry(t, p, Absent)
    BY <1>1, <1>5 DEF Effect
  <2>2. CanModify(t, p) /\ (t[p].kind # "dir" \/ Children(t, p) = {})
    BY <1>1, <1>5 DEF Succeeds
  <2> QED
    BY <1>1, <1>3, <2>1, <2>2 DEF Renamed
<1>6. CASE c.name = "mkdir"
  <2>1. CASE Present(t, p)
    <3>1. Effect(t, c) = t
      BY <1>1, <1>6, <2>1 DEF Effect
    <3> QED
      BY <3>1
  <2>2. CASE ~Present(t, p)
    <3>1. Effect(t, c) = WithEntry(t, p, [Absent EXCEPT !.kind = "dir", !.mode = 7])
      BY <1>1, <1>6, <2>2 DEF Effect
    <3>2. CanModify(t, p) /\ t[p].kind # "dir"
      BY <1>1, <1>6, <2>2 DEF Succeeds, CanModify, Present
    <3> QED
      BY <1>1, <1>3, <3>1, <3>2 DEF Renamed
  <2> QED
    BY <2>1, <2>2
<1>7. CASE c.name = "open"
  <2>1. Effect(t, c) = [t EXCEPT ![p] = [t[p] EXCEPT !.mode = 7]]
    BY <1>1, <1>2, <1>7 DEF Effect, OwnerMayWrite
  <2> QED
    BY <1>1, <1>4, <2>1 DEF Retouched
<1>8. CASE c.name = "rename"
  <2>1. Effect(t, c) = WithEntry(t, p, EntryOf(r))
    BY <1>1, <1>8 DEF Effect
  <2>2. CanModify(t, p) /\ t[p].kind # "dir"
    BY <1>1, <1>8 DEF Succeeds
  <2> QED
    BY <1>1, <1>3, <2>1, <2>2 DEF Renamed
<1>9. CASE c.name = "clear"
  <2>1. CASE Present(t, p)
    <3>1. Effect(t, c) = WithEntry(t, p, Absent)
      BY <1>1, <1>9, <2>1 DEF Effect
    <3>2. CanModify(t, p) /\ t[p].kind # "dir"
      BY <1>1, <1>9, <2>1 DEF Succeeds, CanModify, Present
    <3> QED
      BY <1>1, <1>3, <3>1, <3>2 DEF Renamed
  <2>2. CASE ~Present(t, p)
    <3>1. Effect(t, c) = t
      BY <1>1, <1>9, <2>2 DEF Effect
    <3> QED
      BY <3>1
  <2> QED
    BY <2>1, <2>2
<1>10. CASE c.name = "symlink"
  <2>1. Effect(t, c) = WithEntry(t, p, [EntryOf(r) EXCEPT !.mode = 7, !.mtime = 0])
    BY <1>1, <1>10 DEF Effect
  <2>2. CanModify(t, p) /\ t[p].kind # "dir"
    BY <1>1, <1>10 DEF Succeeds
  <2> QED
    BY <1>1, <1>3, <2>1, <2>2 DEF Renamed
<1>11. CASE c.name \in {"utimes", "settle"}
  <2>1. Effect(t, c) = [t EXCEPT ![p] = [t[p] EXCEPT !.mtime = r.mtime]]
    BY <1>1, <1>2, <1>11 DEF Effect
  <2> QED
    BY <1>1, <1>4, <2>1 DEF Retouched
<1>12. CASE c.name = "chmod"
  <2>1. Effect(t, c) = [t EXCEPT ![p] = [t[p] EXCEPT !.mode = r.mode]]
    BY <1>1, <1>2, <1>12 DEF Effect
  <2> QED
    BY <1>1, <1>4, <2>1 DEF Retouched
<1> QED
  BY <1>2, <1>5, <1>6, <1>7, <1>8, <1>9, <1>10, <1>11, <1>12 DEF CallNames

\* A call that succeeds leaves a tree, and touches only its path and, when it
\* adds or removes a name, the directory that holds it.
LEMMA TreeEffect ==
    ASSUME NEW t \in [Universe -> Entry], IsTree(t), NEW u, NEW p \in Universe,
           Renamed(t, u, p) \/ Retouched(t, u, p) \/ u = t
    PROVE  /\ u \in [Universe -> Entry] /\ IsTree(u)
           /\ \A q \in Universe : q # p /\ u[q] # t[q] =>
                 Len(p) > 1 /\ q = Parent(p) /\ CanModify(t, p)
<1>1. CASE u = t
  BY <1>1
<1>2. CASE Retouched(t, u, p)
  <2>1. PICK e \in Entry : u = [t EXCEPT ![p] = e] /\ e.kind = t[p].kind
    BY <1>2 DEF Retouched
  <2>2. u \in [Universe -> Entry] /\ \A q \in Universe : q # p => u[q] = t[q]
    BY <2>1
  <2>3. \A q \in Universe : u[q].kind = t[q].kind
    BY <2>1
  <2>4. IsTree(u)
    BY <2>3, AncestorFacts DEF IsTree, Present
  <2> QED
    BY <2>2, <2>4
<1>3. CASE Renamed(t, u, p)
  <2>1. PICK e \in Entry : /\ u = WithEntry(t, p, e) /\ CanModify(t, p)
                           /\ t[p].kind # "dir" \/ Children(t, p) = {}
    BY <1>3 DEF Renamed
  <2>2. \A q \in Universe : t[q] \in Entry /\ [t[q] EXCEPT !.mtime = 0] \in Entry
                            /\ [t[q] EXCEPT !.mtime = 0].kind = t[q].kind
    BY DEF Entry
  <2>3. u \in [Universe -> Entry]
    BY <2>1, <2>2 DEF WithEntry
  <2>4. /\ u[p] = e
        /\ \A q \in Universe : q # p => u[q].kind = t[q].kind
        /\ \A q \in Universe : q # p /\ u[q] # t[q] => Len(p) > 1 /\ q = Parent(p)
    <3>1. u[p] = e
      <4>1. ~(Len(p) > 1 /\ p = Parent(p))
        BY AncestorFacts
      <4> QED
        BY <2>1, <4>1 DEF WithEntry
    <3>2. ASSUME NEW q \in Universe, q # p, Len(p) > 1 /\ q = Parent(p)
          PROVE  u[q] = [t[q] EXCEPT !.mtime = 0]
      BY <2>1, <3>2 DEF WithEntry
    <3>3. ASSUME NEW q \in Universe, q # p, ~(Len(p) > 1 /\ q = Parent(p))
          PROVE  u[q] = t[q]
      BY <2>1, <3>3 DEF WithEntry
    <3>4. ASSUME NEW q \in Universe, q # p PROVE u[q].kind = t[q].kind
      BY <2>2, <3>2, <3>3, <3>4
    <3> QED
      BY <3>1, <3>3, <3>4
  <2>5. ASSUME NEW q \in Universe, Present(u, q), NEW w \in Ancestors(q)
        PROVE  u[w].kind = "dir"
    <3>1. w \in Universe /\ w # q
      BY AncestorFacts
    <3>2. CASE q = p
      BY <2>1, <2>4, <3>1, <3>2 DEF CanModify, Resolves
    <3>3. CASE q # p
      <4>1. Present(t, q) /\ t[w].kind = "dir"
        BY <2>4, <2>5, <3>3 DEF Present, IsTree
      <4>2. w # p
        <5>1. w = p => t[p].kind = "dir" /\ Children(t, p) # {}
          BY <4>1, ChildBelow
        <5> QED
          BY <2>1, <5>1
      <4> QED
        BY <2>4, <3>1, <4>1, <4>2
    <3> QED
      BY <3>2, <3>3
  <2> QED
    BY <2>1, <2>3, <2>4, <2>5 DEF IsTree
<1> QED
  BY <1>1, <1>2, <1>3

-----------------------------------------------------------------------------
(***************************************************************************)
(* What the destination leaves out is out of the plan's reach.             *)
(***************************************************************************)
\* The source lists p, under at least the destination's rules.  Whatever the
\* destination leaves out on the way to p is of another kind than the source's.
LEMMA LeftOut ==
    ASSUME NEW s \in [Universe -> Entry], IsTree(s), NEW b \in [Universe -> Entry], IsTree(b),
           NEW r, NEW rx, r \subseteq rx, NEW p \in Universe, Listed(s, p, rx),
           NEW q \in Ancestors(p) \cup {p}, Untouchable(b, q, r)
    PROVE  /\ q # p => b[q].kind # "dir"
           /\ q = p => (s[p].kind = "dir") # (b[p].kind = "dir")
<1>1. q \in Universe /\ Ancestors(q) \subseteq Ancestors(p) /\ p \notin Ancestors(q)
      /\ Ancestors(p) \subseteq Universe
  BY AncestorFacts
<1>2. PICK w \in Ancestors(q) \cup {q} : ~Managed(b, w, r)
  BY DEF Untouchable, Listed
<1>3. w \in Ancestors(p) \cup {p} /\ w \in Universe
  BY <1>1, <1>2
<1>4. Managed(s, w, rx)
  BY <1>3 DEF Listed
<1>5. (s[w].kind = "dir") # (b[w].kind = "dir")
  BY <1>2, <1>4 DEF Managed
<1>6. Present(b, q) /\ Present(s, p)
  BY DEF Untouchable, Listed
<1>7. w = q
  <2>1. SUFFICES ASSUME w \in Ancestors(q) PROVE FALSE
    BY <1>2
  <2>2. b[w].kind = "dir" /\ s[w].kind = "dir"
    BY <1>1, <1>6, <2>1 DEF IsTree
  <2> QED
    BY <1>5, <2>2
<1>8. q # p => s[q].kind = "dir"
  BY <1>6 DEF IsTree
<1> QED
  BY <1>5, <1>7, <1>8

\* A call that succeeds leaves alone what the destination leaves out.
LEMMA CallSpares ==
    ASSUME NEW s \in [Universe -> Entry], IsTree(s), NEW b \in [Universe -> Entry], IsTree(b),
           NEW t \in [Universe -> Entry], IsTree(t),
           NEW r, NEW rx, r \subseteq rx, NEW src, src = Scan(s, rx),
           NEW c \in Call, Justified(c, src, b, r), Succeeds(t, c),
           c.name = "utimes" => t[c.record.path].kind = "symlink",
           \A q \in Universe : Untouchable(b, q, r) => t[q] = b[q],
           NEW q \in Universe, Untouchable(b, q, r)
    PROVE  Effect(t, c)[q] = b[q]
<1>1. PICK p : p = c.record.path
  OBVIOUS
<1>2. p \in Universe /\ c.name \in CallNames
  BY <1>1 DEF Justified, Call
<1>3. t[q] = b[q] /\ Present(t, q) /\ ~Listed(b, q, r)
  BY DEF Untouchable, Present
<1>4. c.name \in {"unlink", "rmdir"} => Listed(b, p, r)
  BY <1>1 DEF Justified
<1>5. c.name \notin {"unlink", "rmdir"} => Listed(s, p, rx) /\ c.record.kind = s[p].kind
  <2>1. SUFFICES ASSUME c.name \notin {"unlink", "rmdir"}
                 PROVE  Listed(s, p, rx) /\ c.record.kind = s[p].kind
    OBVIOUS
  <2>2. c.record \in Scan(s, rx)
    BY <2>1 DEF Justified
  <2>3. Listed(s, p, rx) /\ c.record = RecordAt(s, p)
    BY <1>1, <2>2, ScanFacts
  <2> QED
    BY <2>3 DEF RecordAt
<1>6. /\ \A w \in Universe : w # p /\ Effect(t, c)[w] # t[w] =>
            Len(p) > 1 /\ w = Parent(p) /\ CanModify(t, p)
  <2>1. Renamed(t, Effect(t, c), p) \/ Retouched(t, Effect(t, c), p) \/ Effect(t, c) = t
    BY <1>1, <1>2, EffectForms
  <2> QED
    BY <1>2, <2>1, TreeEffect
<1> SUFFICES ASSUME Effect(t, c)[q] # t[q] PROVE FALSE
  BY <1>3
<1>7. CASE q # p
  <2>1. Len(p) > 1 /\ q = Parent(p) /\ CanModify(t, p)
    BY <1>6, <1>7
  <2>2. q \in Ancestors(p) /\ Ancestors(q) \subseteq Ancestors(p)
    BY <1>2, <2>1, AncestorFacts
  <2>3. b[q].kind = "dir"
    BY <1>3, <2>1, <2>2 DEF CanModify, Resolves
  <2>4. CASE c.name \in {"unlink", "rmdir"}
    <3>1. Listed(b, q, r)
      BY <1>3, <1>4, <2>2, <2>3, <2>4 DEF Listed, Present
    <3> QED
      BY <1>3, <3>1
  <2>5. CASE c.name \notin {"unlink", "rmdir"}
    BY <1>2, <1>5, <1>7, <2>2, <2>3, <2>5, LeftOut
  <2> QED
    BY <2>4, <2>5
<1>8. CASE q = p
  <2>1. c.name \notin {"unlink", "rmdir"}
    BY <1>3, <1>4, <1>8
  <2>2. (c.record.kind = "dir") # (t[p].kind = "dir")
    <3>1. (s[p].kind = "dir") # (b[p].kind = "dir")
      BY <1>2, <1>5, <1>8, <2>1, LeftOut
    <3> QED
      BY <1>3, <1>5, <1>8, <2>1, <3>1
  <2>3. t[p].kind # "none"
    BY <1>3, <1>8 DEF Present
  <2>4. CASE c.name = "mkdir"
    <3>1. Effect(t, c) = t
      BY <1>1, <1>3, <1>8, <2>4 DEF Effect
    <3> QED
      BY <3>1
  <2>5. CASE c.name \in {"open", "chmod", "settle"}
    <3>1. c.record.kind = "dir"
      BY <2>5 DEF Justified, Makes
    <3>2. t[p].kind = "dir"
      BY <1>1, <2>5 DEF Succeeds
    <3> QED
      BY <2>2, <3>1, <3>2
  <2>6. CASE c.name = "rename"
    <3>1. c.record.kind = "file" /\ t[p].kind # "dir"
      BY <1>1, <2>6 DEF Justified, Succeeds
    <3> QED
      BY <2>2, <3>1
  <2>7. CASE c.name = "clear"
    <3>1. c.record.kind = "symlink" /\ t[p].kind # "dir"
      BY <1>1, <2>3, <2>7 DEF Justified, Succeeds
    <3> QED
      BY <2>2, <3>1
  <2>8. CASE c.name = "symlink"
    BY <1>1, <2>3, <2>8 DEF Succeeds
  <2>9. CASE c.name = "utimes"
    <3>1. c.record.kind = "symlink" /\ t[p].kind = "symlink"
      BY <1>1, <2>9 DEF Justified
    <3> QED
      BY <2>2, <3>1
  <2> QED
    BY <1>2, <2>1, <2>4, <2>5, <2>6, <2>7, <2>8, <2>9 DEF CallNames
<1> QED
  BY <1>7, <1>8

-----------------------------------------------------------------------------
(***************************************************************************)
(* The inductive invariant.                                                *)
(***************************************************************************)
\* A directory on the stack with the calls that wait for it.
Deferred == [path : Universe, actions : Seq(Call)]

\* Both trees stay trees.
ShapeInv ==
    /\ source \in SourceTrees
    /\ live \in [Universe -> Entry] /\ IsTree(live)
    /\ base \in [Universe -> Entry] /\ IsTree(base)
    /\ pending \in Seq(Deferred) /\ previous \in Seq(Nat)

\* The operations not yet applied: the whole plan until the commit starts.
Unapplied == IF phase = "staging" THEN plan ELSE changes

\* The plan is still warranted by the tree it was made from.
PlanInv ==
    /\ Orderable(plan) /\ changes \subseteq plan
    /\ \A o \in plan : Warranted(o, SourceIndex, base, rules)

\* What is left of the plan comes after what is applied.
QueueInv ==
    /\ \A o \in Unapplied : previous # <<>> => NotAfter(previous, Path(o))
    /\ \A i \in 1..Len(pending), o \in Unapplied : NotAfter(pending[i].path, Path(o))

\* The calls that wait for a directory are justified and name it.
Waits(e, src, t, r) ==
    /\ e \in Deferred /\ Fits(e.actions, src, t, r)
    /\ \A j \in 1..Len(e.actions) : e.actions[j].record.path = e.path

ActionsInv ==
    \A i \in 1..Len(pending) : Waits(pending[i], SourceIndex, base, rules)

\* The calls under way are justified; a link whose time is due is there.
CallsInv ==
    /\ calls \in Seq(Call)
    /\ \A i \in 1..Len(calls) :
          /\ Justified(calls[i], SourceIndex, base, rules)
          /\ i > 1 => Follows(calls, i)
    /\ calls # <<>> /\ calls[1].name = "utimes" =>
          live[calls[1].record.path].kind = "symlink"

\* SettledLast, whatever the phase.
SettleInv ==
    \A i \in 1..Len(calls), o \in Unapplied :
        calls[i].name \in Closes =>
            ~StartsWith(Path(o), calls[i].record.path)

Inv ==
    /\ ShapeInv /\ PlanInv /\ QueueInv /\ ActionsInv /\ CallsInv /\ SettleInv
    /\ IgnoredPreserved

\* The invariant holds before the first attempt.
LEMMA InitInv == Init => Inv
<1> SUFFICES ASSUME Init PROVE Inv
  OBVIOUS
<1>1. ShapeInv
  BY TreesAssumption DEF Init, ShapeInv
<1>2. Orderable({})
  BY FS_EmptySet DEF Orderable
<1>3. PlanInv /\ QueueInv /\ ActionsInv /\ CallsInv /\ SettleInv
  BY <1>2 DEF Init, PlanInv, QueueInv, ActionsInv, CallsInv, SettleInv
<1>4. IgnoredPreserved
  BY DEF Init, IgnoredPreserved
<1> QED
  BY <1>1, <1>3, <1>4 DEF Inv

\* An attempt begins with a warranted plan and an untouched tree.
LEMMA BeginStep == ASSUME Inv, Begin PROVE Inv'
<1>1. /\ base' = live /\ plan' = Difference(SourceIndex, DestinationIndex) /\ changes' = {}
      /\ pending' = <<>> /\ previous' = <<>> /\ calls' = <<>>
      /\ UNCHANGED <<source, rules, live>>
  BY DEF Begin
<1>2. SourceIndex' = SourceIndex
  BY <1>1 DEF SourceIndex, SourceRules
<1>3. ShapeInv'
  BY <1>1 DEF Inv, ShapeInv
<1>4. source \in [Universe -> Entry] /\ live \in [Universe -> Entry]
  BY TreesAssumption DEF Inv, ShapeInv
<1>5. /\ Orderable(Difference(SourceIndex, DestinationIndex))
      /\ \A o \in Difference(SourceIndex, DestinationIndex) :
            Warranted(o, SourceIndex, live, rules)
  BY <1>4, DifferenceFacts DEF SourceIndex, DestinationIndex
<1>6. PlanInv'
  BY <1>1, <1>2, <1>5 DEF PlanInv
<1>7. QueueInv' /\ ActionsInv' /\ CallsInv' /\ SettleInv'
  BY <1>1 DEF QueueInv, ActionsInv, CallsInv, SettleInv
<1>8. IgnoredPreserved'
  BY <1>1 DEF IgnoredPreserved
<1> QED
  BY <1>3, <1>6, <1>7, <1>8 DEF Inv

\* What is left is part of the plan.
LEMMA UnappliedFacts ==
    ASSUME PlanInv
    PROVE  /\ Unapplied \subseteq plan
           /\ \A o \in Unapplied : Path(o) \in Seq(Nat) /\ Warranted(o, SourceIndex, base, rules)
  BY DEF PlanInv, Unapplied, Orderable

\* Steps that stage, start or end the attempt, and stuttering: no operation is
\* added to what is left.
LEMMA EndStep ==
    ASSUME Inv, UNCHANGED <<source, rules, live, base, plan, pending, previous, calls>>,
           changes' \subseteq plan, Unapplied' \subseteq Unapplied
    PROVE  Inv'
<1>1. SourceIndex' = SourceIndex
  BY DEF SourceIndex, SourceRules
<1>2. ShapeInv'
  BY DEF Inv, ShapeInv
<1>3. PlanInv' /\ QueueInv' /\ ActionsInv'
  BY <1>1 DEF Inv, PlanInv, QueueInv, ActionsInv
<1>4. CallsInv'
  BY <1>1 DEF Inv, CallsInv
<1>5. SettleInv' /\ IgnoredPreserved'
  BY DEF Inv, SettleInv, IgnoredPreserved
<1> QED
  BY <1>2, <1>3, <1>4, <1>5 DEF Inv

\* A call that succeeds spares what is left out.
LEMMA ExecuteStep == ASSUME Inv, Execute PROVE Inv'
<1>1. /\ calls # <<>> /\ Succeeds(live, Head(calls))
      /\ live' = Effect(live, Head(calls)) /\ calls' = Tail(calls)
      /\ UNCHANGED <<source, rules, base, phase, plan, changes, pending, previous>>
      /\ Unapplied' = Unapplied
  BY DEF Execute, Unapplied
<1>2. SourceIndex' = SourceIndex
  BY <1>1 DEF SourceIndex, SourceRules
<1>3. PICK c : c = Head(calls)
  OBVIOUS
<1>4. /\ calls \in Seq(Call) /\ Len(calls) \in Nat \ {0} /\ c = calls[1] /\ c \in Call
      /\ 1 \in 1..Len(calls)
  BY <1>1, <1>3 DEF Inv, CallsInv
<1>5. Justified(c, SourceIndex, base, rules) /\ c.record.path \in Universe
  BY <1>4 DEF Inv, CallsInv, Justified
<1>6. c.name = "utimes" => live[c.record.path].kind = "symlink"
  BY <1>1, <1>4 DEF Inv, CallsInv
<1>7. /\ source \in [Universe -> Entry] /\ IsTree(source)
      /\ live \in [Universe -> Entry] /\ IsTree(live)
      /\ base \in [Universe -> Entry] /\ IsTree(base)
  BY TreesAssumption DEF Inv, ShapeInv
<1>8. live' \in [Universe -> Entry] /\ IsTree(live')
  <2>1. \/ Renamed(live, Effect(live, c), c.record.path)
        \/ Retouched(live, Effect(live, c), c.record.path)
        \/ Effect(live, c) = live
    BY <1>1, <1>3, <1>4, <1>5, <1>7, EffectForms
  <2> QED
    BY <1>1, <1>3, <1>5, <1>7, <2>1, TreeEffect
<1>9. ShapeInv'
  <2>1. IsTree(live)'
    BY <1>8 DEF IsTree, Present
  <2> QED
    BY <1>1, <1>8, <2>1 DEF Inv, ShapeInv
<1>10. PlanInv' /\ QueueInv' /\ ActionsInv'
  BY <1>1, <1>2 DEF Inv, PlanInv, QueueInv, ActionsInv
<1>11. /\ calls' \in Seq(Call) /\ Len(calls') = Len(calls) - 1
       /\ \A i \in 1..Len(calls') : calls'[i] = calls[i + 1] /\ i + 1 \in 1..Len(calls)
  BY <1>1, <1>4
<1>12. CallsInv'
  <2>1. ASSUME NEW i \in 1..Len(calls') PROVE Justified(calls'[i], SourceIndex, base, rules)
    BY <1>11 DEF Inv, CallsInv
  <2>2. ASSUME NEW i \in 1..Len(calls') PROVE Follows(calls, i + 1)
    <3>1. i + 1 \in 1..Len(calls) /\ i + 1 > 1
      BY <1>11
    <3> QED
      BY <3>1 DEF Inv, CallsInv
  <2>3. ASSUME NEW i \in 1..Len(calls'), i > 1 PROVE Follows(calls', i)
    <3>1. /\ calls'[i] = calls[i + 1] /\ calls'[i - 1] = calls[(i - 1) + 1]
          /\ (i - 1) + 1 = (i + 1) - 1
      <4>1. i - 1 \in 1..Len(calls')
        BY <1>4, <1>11, <2>3
      <4> QED
        BY <1>11, <4>1
    <3> QED
      BY <2>2, <2>3, <3>1 DEF Follows
  <2>4. ASSUME calls' # <<>>, calls'[1].name = "utimes"
        PROVE  live'[calls'[1].record.path].kind = "symlink"
    <3>1. 1 \in 1..Len(calls')
      BY <1>4, <1>11, <2>4
    <3>2. calls'[1] = calls[2]
      BY <1>11, <3>1
    <3>3. c.name = "symlink" /\ c.record = calls'[1].record
      BY <1>4, <2>2, <2>4, <3>1, <3>2 DEF Follows
    <3>4. c.record.kind = "symlink" /\ c.record \in Record
      BY <1>4, <1>5, <3>3 DEF Justified, Call
    <3>5. PICK p : p = c.record.path
      OBVIOUS
    <3>6. PICK e : e = [EntryOf(c.record) EXCEPT !.mode = 7, !.mtime = 0]
      OBVIOUS
    <3>7. e.kind = "symlink"
      BY <3>4, <3>6 DEF EntryOf
    <3>8. live' = WithEntry(live, p, e)
      BY <1>1, <1>3, <3>3, <3>5, <3>6 DEF Effect
    <3>9. ~(Len(p) > 1 /\ p = Parent(p)) /\ p \in Universe
      BY <1>5, <3>5, AncestorFacts
    <3>10. live'[p] = e
      BY <3>8, <3>9 DEF WithEntry
    <3> QED
      BY <3>3, <3>5, <3>7, <3>10
  <2> QED
    BY <1>1, <1>2, <1>11, <2>1, <2>3, <2>4 DEF CallsInv
<1>13. SettleInv'
  BY <1>1, <1>11 DEF Inv, SettleInv
<1>14. IgnoredPreserved'
  <2>1. \A q \in Universe : Untouchable(base, q, rules) => live[q] = base[q]
    BY DEF Inv, IgnoredPreserved
  <2>2. rules \subseteq SourceRules /\ SourceIndex = Scan(source, SourceRules)
    BY DEF SourceRules, SourceIndex
  <2>3. ASSUME NEW q \in Universe, Untouchable(base, q, rules)
        PROVE  Effect(live, c)[q] = base[q]
    BY <1>1, <1>3, <1>4, <1>5, <1>6, <1>7, <2>1, <2>2, <2>3, CallSpares
  <2> QED
    BY <1>1, <1>3, <2>3 DEF IgnoredPreserved
<1> QED
  BY <1>9, <1>10, <1>12, <1>13, <1>14 DEF Inv

\* Fewer operations are still in order.
LEMMA FewerOperations ==
    ASSUME NEW C, Orderable(C), NEW B \in SUBSET C
    PROVE  Orderable(B)
<1>1. IsFiniteSet(B)
  BY FS_Subset DEF Orderable
<1> QED
  BY <1>1 DEF Orderable

\* The actions of a directory, and more at the same path.
LEMMA WaitsMore ==
    ASSUME NEW src, NEW t, NEW r, NEW e, Waits(e, src, t, r),
           NEW c, Fits(c, src, t, r),
           \A j \in 1..Len(c) : c[j].record.path = e.path
    PROVE  Waits([e EXCEPT !.actions = @ \o c], src, t, r)
<1>1. /\ e \in Deferred /\ e.actions \in Seq(Call) /\ c \in Seq(Call)
      /\ Len(e.actions) \in Nat /\ Len(c) \in Nat
  BY DEF Waits, Deferred, Fits
<1>2. PICK x, y : x = e.actions /\ y = e.actions \o c
  OBVIOUS
<1>3. /\ y \in Seq(Call) /\ Len(y) = Len(x) + Len(c)
      /\ \A j \in 1..Len(x) : y[j] = x[j]
      /\ \A j \in 1..Len(c) : y[Len(x) + j] = c[j]
  BY <1>1, <1>2
<1>4. ASSUME NEW j \in 1..Len(y)
      PROVE  j \in 1..Len(x) \/ \E k \in 1..Len(c) : j = Len(x) + k
  <2>1. j > Len(x) => j - Len(x) \in 1..Len(c) /\ j = Len(x) + (j - Len(x))
    BY <1>1, <1>2, <1>3
  <2> QED
    BY <1>1, <1>2, <2>1
<1>5. ASSUME NEW j \in 1..Len(y)
      PROVE  Justified(y[j], src, t, r) /\ y[j].record.path = e.path
  <2>1. CASE j \in 1..Len(x)
    <3>1. y[j] = e.actions[j] /\ j \in 1..Len(e.actions)
      BY <1>2, <1>3, <2>1
    <3> QED
      BY <3>1 DEF Waits, Fits
  <2>2. ASSUME NEW k \in 1..Len(c), j = Len(x) + k
        PROVE  Justified(y[j], src, t, r) /\ y[j].record.path = e.path
    <3>1. y[j] = c[k]
      BY <1>3, <2>2
    <3> QED
      BY <3>1 DEF Fits
  <2> QED
    BY <1>4, <2>1, <2>2
<1>6. ASSUME NEW j \in 1..Len(y) PROVE Follows(y, j)
  <2>1. CASE j \in 1..Len(x)
    <3>1. Follows(x, j) /\ y[j] = x[j]
      BY <1>2, <1>3, <2>1 DEF Waits, Fits
    <3>2. j > 1 => y[j - 1] = x[j - 1]
      <4>1. j > 1 => j - 1 \in 1..Len(x)
        BY <1>1, <1>2, <2>1
      <4> QED
        BY <1>3, <4>1
    <3> QED
      BY <3>1, <3>2 DEF Follows
  <2>2. ASSUME NEW k \in 1..Len(c), j = Len(x) + k PROVE Follows(y, j)
    <3>1. Follows(c, k) /\ y[j] = c[k]
      BY <1>3, <2>2 DEF Fits
    <3>2. k > 1 => y[j - 1] = c[k - 1] /\ j > 1
      <4>1. k > 1 => k - 1 \in 1..Len(c) /\ j - 1 = Len(x) + (k - 1) /\ j > 1
        BY <1>1, <1>2, <2>2
      <4> QED
        BY <1>3, <4>1
    <3> QED
      BY <3>1, <3>2 DEF Follows
  <2> QED
    BY <1>4, <2>1, <2>2
<1>7. PICK z : z = [e EXCEPT !.actions = y]
  OBVIOUS
<1>8. z \in Deferred /\ z.path = e.path /\ z.actions = y
  BY <1>1, <1>3, <1>7 DEF Deferred
<1>9. Waits(z, src, t, r)
  BY <1>3, <1>5, <1>6, <1>8 DEF Waits, Fits
<1>10. z = [e EXCEPT !.actions = @ \o c]
  BY <1>2, <1>7
<1> QED
  BY <1>9, <1>10

\* `apply` of the first operation left.
LEMMA ApplyStep == ASSUME Inv, NEW o \in changes, Apply(o) PROVE Inv'
<1>1. /\ IsNext(o) /\ changes' = changes \ {o} /\ previous' = Path(o)
      /\ calls' = CallsFor(ImmediateCalls(o), o.record)
      /\ pending' = IF DeferredCalls(o) = <<>> THEN pending
                    ELSE Defer(Path(o), CallsFor(DeferredCalls(o), o.record))
      /\ UNCHANGED <<source, rules, live, base, plan>>
      /\ Unapplied = changes /\ Unapplied' = changes'
  BY DEF Apply, Ready, Unapplied
<1>2. SourceIndex' = SourceIndex
  BY <1>1 DEF SourceIndex, SourceRules
<1>3. /\ ShapeInv /\ PlanInv /\ QueueInv /\ ActionsInv
      /\ pending \in Seq(Deferred) /\ Len(pending) \in Nat
      /\ Warranted(o, SourceIndex, base, rules) /\ Path(o) \in Universe
      /\ o.op \in OperationKinds
  BY DEF Inv, ShapeInv, PlanInv, Warranted
<1>4. Path(o) \in Seq(Nat)
  BY <1>3 DEF PlanInv, Orderable
<1>5. PICK d : d = CallsFor(DeferredCalls(o), o.record)
  OBVIOUS
<1>6. /\ Fits(d, SourceIndex, base, rules)
      /\ \A j \in 1..Len(d) : d[j].record.path = Path(o)
  <2>1. NamesFit(DeferredCalls(o), o.op)
    BY <1>3, NamesFacts
  <2>2. /\ Fits(d, SourceIndex, base, rules) /\ Len(d) = Len(DeferredCalls(o))
        /\ \A j \in 1..Len(DeferredCalls(o)) : d[j].record = o.record
    BY <1>3, <1>5, <2>1, CallsFacts
  <2> QED
    BY <2>2 DEF Path
<1>7. \A x \in changes' : x \in changes /\ NotAfter(Path(o), Path(x))
  <2>1. \A x \in changes \ {o} : Precedes(o, x)
    BY <1>1, <1>3, NextIsFirst DEF PlanInv
  <2> QED
    BY <1>1, <2>1 DEF Precedes, NotAfter
<1>8. PlanInv'
  BY <1>1, <1>2, <1>3 DEF PlanInv
\* Every directory that waits after the step waited before, or is at the path.
<1>9. /\ pending' \in Seq(Deferred)
      /\ \A i \in 1..Len(pending') :
            /\ Waits(pending'[i], SourceIndex, base, rules)
            /\ \/ pending'[i].path = Path(o)
               \/ i \in 1..Len(pending) /\ pending'[i].path = pending[i].path
  <2>1. CASE DeferredCalls(o) = <<>>
    BY <1>1, <1>3, <2>1 DEF ActionsInv
  <2>2. CASE DeferredCalls(o) # <<>> /\ pending # <<>> /\ Top.path = Path(o)
    <3>1. pending' = [pending EXCEPT ![Len(pending)].actions = @ \o d]
      BY <1>1, <1>5, <2>2 DEF Defer
    <3>2. PICK n : n = Len(pending)
      OBVIOUS
    <3>3. n \in 1..Len(pending) /\ Waits(pending[n], SourceIndex, base, rules)
          /\ pending[n].path = Path(o)
      BY <1>3, <2>2, <3>2 DEF ActionsInv, Top
    <3>4. PICK z : z = [pending[n] EXCEPT !.actions = @ \o d]
      OBVIOUS
    <3>5. Waits(z, SourceIndex, base, rules)
      BY <1>6, <3>3, <3>4, WaitsMore
    <3>6. z \in Deferred /\ z.path = Path(o)
      BY <1>3, <3>3, <3>4, <3>5 DEF Waits, Deferred
    <3>7. pending' = [pending EXCEPT ![n] = z]
      BY <1>3, <3>1, <3>2, <3>3, <3>4
    <3>8. /\ pending' \in Seq(Deferred) /\ Len(pending') = Len(pending)
          /\ pending'[n] = z /\ \A i \in 1..Len(pending) : i # n => pending'[i] = pending[i]
      BY <1>3, <3>3, <3>6, <3>7
    <3> QED
      BY <1>3, <3>5, <3>6, <3>8 DEF ActionsInv
  <2>3. CASE DeferredCalls(o) # <<>> /\ ~(pending # <<>> /\ Top.path = Path(o))
    <3>1. PICK z : z = [path |-> Path(o), actions |-> d]
      OBVIOUS
    <3>2. z \in Deferred /\ z.path = Path(o) /\ z.actions = d
      BY <1>3, <1>6, <3>1 DEF Deferred, Fits
    <3>3. Waits(z, SourceIndex, base, rules)
      BY <1>6, <3>2 DEF Waits
    <3>4. pending' = Append(pending, z)
      BY <1>1, <1>5, <2>3, <3>1 DEF Defer
    <3>5. /\ pending' \in Seq(Deferred) /\ Len(pending') = Len(pending) + 1
          /\ pending'[Len(pending) + 1] = z
          /\ \A i \in 1..Len(pending) : pending'[i] = pending[i]
      BY <1>3, <3>2, <3>4
    <3>6. \A i \in 1..Len(pending') : i \in 1..Len(pending) \/ i = Len(pending) + 1
      BY <1>3, <3>5
    <3> QED
      BY <1>3, <3>2, <3>3, <3>5, <3>6 DEF ActionsInv
  <2> QED
    BY <2>1, <2>2, <2>3
<1>10. ShapeInv'
  BY <1>1, <1>3, <1>4, <1>9 DEF ShapeInv, IsTree, Present
<1>11. QueueInv'
  <2>1. ASSUME NEW i \in 1..Len(pending'), NEW x \in changes'
        PROVE  NotAfter(pending'[i].path, Path(x))
    BY <1>1, <1>3, <1>7, <1>9 DEF QueueInv
  <2> QED
    BY <1>1, <1>7, <2>1 DEF QueueInv
<1>12. ActionsInv'
  BY <1>1, <1>2, <1>9 DEF ActionsInv
<1>13. /\ Fits(calls', SourceIndex, base, rules)
       /\ \A i \in 1..Len(calls') : calls'[i].name \notin Closes
  <2>1. /\ NamesFit(ImmediateCalls(o), o.op)
        /\ \A i \in 1..Len(ImmediateCalls(o)) :
              ImmediateCalls(o)[i] \notin Closes
    BY <1>3, NamesFacts
  <2>2. /\ Fits(calls', SourceIndex, base, rules)
        /\ Len(calls') = Len(ImmediateCalls(o))
        /\ \A i \in 1..Len(ImmediateCalls(o)) : calls'[i].name = ImmediateCalls(o)[i]
    BY <1>1, <1>3, <2>1, CallsFacts
  <2> QED
    BY <2>1, <2>2
<1>14. CallsInv'
  <2>1. calls' # <<>> => calls'[1].name # "utimes"
    <3>1. calls' # <<>> => 1 \in 1..Len(calls')
      BY <1>13 DEF Fits
    <3> QED
      BY <1>13, <3>1 DEF Fits, Follows
  <2> QED
    BY <1>1, <1>2, <1>13, <2>1 DEF CallsInv, Fits
<1>15. SettleInv'
  BY <1>13 DEF SettleInv
<1>16. IgnoredPreserved'
  BY <1>1 DEF Inv, IgnoredPreserved
<1> QED
  BY <1>8, <1>10, <1>11, <1>12, <1>14, <1>15, <1>16 DEF Inv

\* No operation that is left is at or below a directory that may be finished:
\* the next one is not, and what lies below a directory is contiguous.
LEMMA NothingBelow ==
    ASSUME ShapeInv, PlanInv, QueueInv, MayFinish, Unapplied = changes, NEW o \in changes
    PROVE  ~StartsWith(Path(o), Top.path)
<1>1. PICK n : n = Len(pending)
  OBVIOUS
<1>2. n \in 1..Len(pending) /\ Top = pending[n] /\ pending # <<>>
  BY <1>1 DEF MayFinish, ShapeInv, Top
<1>3. PICK x \in changes : \A y \in changes \ {x} : Precedes(x, y)
  <2>1. Orderable(changes)
    BY FewerOperations DEF PlanInv
  <2> QED
    BY <2>1, FirstOperation
<1>4. ~StartsWith(Path(x), Top.path)
  <2>1. IsNext(x)
    BY <1>3, NextIsFirst DEF PlanInv
  <2> QED
    BY <1>2, <2>1 DEF MayFinish, InTop
<1>5. /\ Top.path \in Seq(Nat) /\ Path(o) \in Seq(Nat) /\ Path(x) \in Seq(Nat)
  <2>1. Top.path \in Universe
    <3>1. pending \in Seq(Deferred)
      BY DEF ShapeInv
    <3>2. Top \in Deferred
      BY <1>2, <3>1
    <3> QED
      BY <3>2 DEF Deferred
  <2>2. Top.path \in Seq(Nat)
    BY <2>1, UniverseAssumption DEF RelativePath
  <2> QED
    BY <2>2 DEF PlanInv, Orderable
<1>6. NotAfter(Top.path, Path(x)) /\ NotAfter(Path(x), Path(o))
  BY <1>2, <1>3 DEF QueueInv, Precedes, NotAfter
<1> QED
  BY <1>4, <1>5, <1>6, Contiguous

\* `finish_directory` of the top of the stack.
LEMMA FinishStep == ASSUME Inv, FinishDirectory PROVE Inv'
<1>1. /\ MayFinish /\ calls' = Top.actions
      /\ pending' = SubSeq(pending, 1, Len(pending) - 1)
      /\ UNCHANGED <<source, rules, live, base, plan, changes, previous>>
      /\ Unapplied = changes /\ Unapplied' = changes'
  BY DEF FinishDirectory, Ready, Unapplied
<1>2. SourceIndex' = SourceIndex
  BY <1>1 DEF SourceIndex, SourceRules
<1>3. /\ ShapeInv /\ PlanInv /\ QueueInv /\ ActionsInv
      /\ pending \in Seq(Deferred) /\ Len(pending) \in Nat
  BY DEF Inv, ShapeInv
<1>4. pending # <<>> /\ Len(pending) \in 1..Len(pending)
  BY <1>1, <1>3 DEF MayFinish
<1>5. Waits(Top, SourceIndex, base, rules)
  BY <1>3, <1>4 DEF ActionsInv, Top
<1>6. /\ pending' \in Seq(Deferred) /\ Len(pending') = Len(pending) - 1
      /\ \A i \in 1..Len(pending') : i \in 1..Len(pending) /\ pending'[i] = pending[i]
  <2>1. PICK s : s = pending
    OBVIOUS
  <2>2. PICK r : r = SubSeq(s, 1, Len(s) - 1)
    OBVIOUS
  <2>3. pending' = r /\ s \in Seq(Deferred) /\ s # <<>>
    BY <1>1, <1>3, <1>4, <2>1, <2>2
  <2>4. Len(s) \in Nat \ {0}
    BY <2>3
  <2>5. PICK n \in Nat : n = Len(s) - 1
    BY <2>4
  <2>6. r = SubSeq(s, 1, n) /\ n <= Len(s)
    BY <2>2, <2>4, <2>5
  <2>7. r \in Seq(Deferred) /\ Len(r) = n
    BY <2>3, <2>4, <2>5, <2>6
  <2>8. \A i \in 1..n : i \in 1..Len(s) /\ r[i] = s[i]
    BY <2>3, <2>4, <2>5, <2>6
  <2> QED
    BY <2>1, <2>3, <2>5, <2>7, <2>8
<1>7. ShapeInv'
  <2>1. IsTree(live)' /\ IsTree(base)'
    BY <1>1, <1>3 DEF ShapeInv, IsTree, Present
  <2>2. Deferred' = Deferred
    BY DEF Deferred
  <2> QED
    BY <1>1, <1>3, <1>6, <2>1, <2>2 DEF ShapeInv
<1>8. PlanInv'
  BY <1>1, <1>2, <1>3 DEF PlanInv
<1>9. QueueInv'
  BY <1>1, <1>3, <1>6 DEF QueueInv
<1>10. ActionsInv'
  BY <1>1, <1>2, <1>3, <1>6 DEF ActionsInv
<1>11. CallsInv'
  <2>1. Fits(calls', SourceIndex, base, rules)
    BY <1>1, <1>5 DEF Waits
  <2>2. calls' # <<>> => calls'[1].name # "utimes"
    <3>1. calls' # <<>> => 1 \in 1..Len(calls')
      BY <2>1 DEF Fits
    <3> QED
      BY <2>1, <3>1 DEF Fits, Follows
  <2> QED
    BY <1>1, <1>2, <2>1, <2>2 DEF CallsInv, Fits
<1>12. SettleInv'
  <2>1. ASSUME NEW i \in 1..Len(calls'), NEW o \in changes
        PROVE  ~StartsWith(Path(o), calls'[i].record.path)
    <3>1. calls'[i].record.path = Top.path
      BY <1>1, <1>5 DEF Waits
    <3> QED
      BY <1>1, <1>3, <3>1, NothingBelow
  <2> QED
    BY <1>1, <2>1 DEF SettleInv
<1>13. IgnoredPreserved'
  BY <1>1 DEF Inv, IgnoredPreserved
<1> QED
  BY <1>7, <1>8, <1>9, <1>10, <1>11, <1>12, <1>13 DEF Inv

\* Every step keeps the invariant.
LEMMA InvStep == Inv /\ [Next]_vars => Inv'
<1> SUFFICES ASSUME Inv, [Next]_vars PROVE Inv'
  OBVIOUS
<1>1. CASE Begin
  BY <1>1, BeginStep
<1>2. CASE \E o \in changes : Apply(o)
  BY <1>2, ApplyStep
<1>3. CASE (\E o \in changes : Refuse(o)) \/ CallFails \/ Complete \/ Interrupted \/ Idle
           \/ UNCHANGED vars
  <2>1. /\ UNCHANGED <<source, rules, live, base, plan, changes, pending, previous, calls>>
        /\ phase' = "staging" => phase = "staging"
    BY <1>3 DEF Refuse, CallFails, Complete, Interrupted, Idle, vars, committer
  <2>2. changes \subseteq plan
    BY DEF Inv, PlanInv
  <2>3. Unapplied' \subseteq Unapplied
    BY <2>1, <2>2 DEF Unapplied
  <2> QED
    BY <2>1, <2>2, <2>3, EndStep
<1>6. CASE (\E o \in plan : Stage(o)) \/ StartCommit
  <2>1. /\ UNCHANGED <<source, rules, live, base, plan, pending, previous, calls>>
        /\ changes' \subseteq plan /\ Unapplied' = Unapplied
    <3>1. changes \subseteq plan
      BY DEF Inv, PlanInv
    <3> QED
      BY <1>6, <3>1 DEF Stage, StartCommit, committer, Unapplied
  <2> QED
    BY <2>1, EndStep
<1>4. CASE FinishDirectory
  BY <1>4, FinishStep
<1>5. CASE Execute
  BY <1>5, ExecuteStep
<1> QED
  BY <1>1, <1>2, <1>3, <1>4, <1>5, <1>6 DEF Next, Committing

\* The invariant holds throughout.
LEMMA Invariant == Spec => []Inv
  BY InitInv, InvStep, PTL DEF Spec

-----------------------------------------------------------------------------
(***************************************************************************)
(* The setting of an attempt: the source's tree s, listed as src under the *)
(* rules rx, and the destination's tree b as the attempt begins, listed as *)
(* dst under r.                                                            *)
(***************************************************************************)
Setting(s, b, r, rx, src, dst) ==
    /\ s \in [Universe -> Entry] /\ IsTree(s) /\ IsNormal(s)
    /\ b \in [Universe -> Entry] /\ IsTree(b)
    /\ r \subseteq rx
    /\ src = Scan(s, rx) /\ dst = Scan(b, r)

\* A listing holds the record of what is listed, and nothing else.
LEMMA ListingFacts ==
    ASSUME NEW t \in [Universe -> Entry], NEW r
    PROVE  /\ \A x \in Scan(t, r) : /\ x.path \in Universe /\ x.kind \in Kinds
                                    /\ Listed(t, x.path, r) /\ t[x.path] = EntryOf(x)
                                    /\ x \in Record /\ x = RecordAt(t, x.path)
           /\ \A x, y \in Scan(t, r) : x.path = y.path => x = y
           /\ \A p \in Universe : Listed(t, p, r) =>
                 RecordAt(t, p) \in Scan(t, r) /\ RecordAt(t, p).path = p
                 /\ RecordAt(t, p).kind = t[p].kind
<1>1. ASSUME NEW x \in Scan(t, r)
      PROVE  /\ x.path \in Universe /\ x.kind \in Kinds
             /\ Listed(t, x.path, r) /\ t[x.path] = EntryOf(x)
             /\ x \in Record /\ x = RecordAt(t, x.path)
  <2>1. x \in Record /\ x.path \in Universe /\ Listed(t, x.path, r) /\ x = RecordAt(t, x.path)
    BY ScanFacts
  <2>2. PICK p \in Universe : p = x.path
    BY <2>1
  <2>3. t[p] \in Entry
    BY <2>2
  <2>4. t[p] = [kind |-> t[p].kind, data |-> t[p].data, mode |-> t[p].mode, mtime |-> t[p].mtime]
    BY <2>3 DEF Entry
  <2>5. x.kind = t[p].kind /\ x.data = t[p].data /\ x.mode = t[p].mode /\ x.mtime = t[p].mtime
    BY <2>1, <2>2 DEF RecordAt
  <2>6. t[p] = EntryOf(x)
    BY <2>4, <2>5 DEF EntryOf
  <2>7. x.kind \in Kinds
    BY <2>1 DEF Record
  <2> QED
    BY <2>1, <2>2, <2>6, <2>7
<1>2. ASSUME NEW p \in Universe, Listed(t, p, r)
      PROVE  /\ RecordAt(t, p) \in Scan(t, r) /\ RecordAt(t, p).path = p
             /\ RecordAt(t, p).kind = t[p].kind
  BY <1>2 DEF Scan, RecordAt
<1>3. ASSUME NEW x \in Scan(t, r), NEW y \in Scan(t, r), x.path = y.path PROVE x = y
  BY <1>1, <1>3
<1> QED
  BY <1>1, <1>2, <1>3

\* What is listed lies in directories that are listed.
LEMMA ListedAncestors ==
    ASSUME NEW t \in [Universe -> Entry], IsTree(t), NEW r,
           NEW p \in Universe, Listed(t, p, r), NEW a \in Ancestors(p)
    PROVE  a \in Universe /\ t[a].kind = "dir" /\ Listed(t, a, r)
<1>1. a \in Universe /\ Ancestors(a) \subseteq Ancestors(p)
  BY AncestorFacts
<1>2. t[a].kind = "dir"
  BY DEF Listed, IsTree
<1> QED
  BY <1>1, <1>2 DEF Listed, Present

\* What the destination leaves out stays left out as long as it is spared.
LEMMA StillLeftOut ==
    ASSUME NEW b \in [Universe -> Entry], IsTree(b), NEW t, NEW r,
           \A q \in Universe : Untouchable(b, q, r) => t[q] = b[q],
           NEW p \in Universe, Untouchable(b, p, r)
    PROVE  Untouchable(t, p, r)
<1>1. PICK w \in Ancestors(p) \cup {p} : ~Managed(b, w, r)
  BY DEF Untouchable, Listed
<1>2. w \in Universe /\ Present(b, w)
  <2>1. w # p => w \in Universe /\ b[w].kind = "dir"
    BY <1>1, AncestorFacts DEF IsTree, Untouchable
  <2> QED
    BY <1>1, <2>1 DEF Untouchable, Present
<1>3. Untouchable(b, w, r)
  BY <1>1, <1>2 DEF Untouchable, Listed
<1>4. t[w] = b[w] /\ t[p] = b[p]
  BY <1>2, <1>3
<1>5. ~Managed(t, w, r)
  BY <1>1, <1>4 DEF Managed
<1> QED
  BY <1>1, <1>4, <1>5 DEF Untouchable, Listed, Present

-----------------------------------------------------------------------------
(***************************************************************************)
(* What a call does, entry by entry.                                       *)
(***************************************************************************)
SameButTime(d, e) == d.kind = e.kind /\ d.data = e.data /\ d.mode = e.mode

Deletes == {"unlink", "rmdir"}

\* The calls that complete an upsert.
Finals == {"rename", "utimes", "settle"}

\* An entry has the kind, the content and the mode of its record.
LEMMA EntryOfFacts ==
    ASSUME NEW x
    PROVE  /\ SameButTime(x, EntryOf(x)) /\ SameButTime(EntryOf(x), x)
           /\ EntryOf(x).kind = x.kind /\ EntryOf(x).data = x.data /\ EntryOf(x).mode = x.mode
  BY DEF SameButTime, EntryOf

\* Elsewhere only the time of a directory changes, the one that holds the name.
Aside(t, u, p) ==
    \A q \in Universe \ {p} :
        /\ SameButTime(t[q], u[q])
        /\ t[q].kind # "dir" => u[q] = t[q]
        /\ u[q] # t[q] => q \in Ancestors(p)

\* Here, by the name of the call; d is the entry before, e after.
Becomes(name, x, d, e) ==
    /\ name \in Deletes => e = Absent
    /\ name = "unlink" => d.kind \in {"file", "symlink"}
    /\ name = "rmdir" => d.kind = "dir"
    /\ name = "mkdir" => IF d.kind = "none" THEN e.kind = "dir" /\ e.data = 0 ELSE e = d
    /\ name = "open" => d.kind = "dir" /\ e.kind = "dir" /\ e.data = d.data /\ e.mode = 7
    /\ name = "rename" => d.kind # "dir" /\ e = EntryOf(x)
    /\ name = "clear" => d.kind # "dir" /\ e.kind = "none"
    /\ name = "symlink" => d.kind = "none" /\ e = [EntryOf(x) EXCEPT !.mode = 7, !.mtime = 0]
    /\ name = "utimes" => e = [d EXCEPT !.mtime = x.mtime]
    /\ name = "chmod" => d.kind = "dir" /\ e.kind = "dir" /\ e.data = d.data /\ e.mode = x.mode
    /\ name = "settle" => d.kind = "dir" /\ e = [d EXCEPT !.mtime = x.mtime]

\* A call that adds or removes no name changes nothing elsewhere.
Quiet(t, u, c) ==
    c.name \in {"open", "utimes", "chmod", "settle"} \/ (c.name = "mkdir" /\ Present(t, c.record.path)) =>
        \A q \in Universe \ {c.record.path} : u[q] = t[q]

\* A call that succeeds does this to the tree, and nothing else.
LEMMA CallEffect ==
    ASSUME NEW t \in [Universe -> Entry], IsTree(t), NEW c \in Call,
           NEW p \in Universe, p = c.record.path, Succeeds(t, c), NEW u, u = Effect(t, c)
    PROVE  /\ u \in [Universe -> Entry] /\ IsTree(u)
           /\ Aside(t, u, p) /\ Becomes(c.name, c.record, t[p], u[p]) /\ Quiet(t, u, c)
<1>1. u \in [Universe -> Entry] /\ IsTree(u)
  <2>1. Renamed(t, u, p) \/ Retouched(t, u, p) \/ u = t
    BY EffectForms
  <2> QED
    BY <2>1, TreeEffect
<1>2. ASSUME NEW e, u = WithEntry(t, p, e), Resolves(t, p)
      PROVE  u[p] = e /\ Aside(t, u, p)
  <2>1. Ancestors(p) \subseteq Universe /\ (Len(p) > 1 => Parent(p) \in Ancestors(p) /\ Parent(p) # p)
    BY AncestorFacts
  <2>2. u[p] = e
    BY <1>2, <2>1 DEF WithEntry
  <2>3. ASSUME NEW q \in Universe \ {p}
        PROVE  /\ SameButTime(t[q], u[q])
               /\ t[q].kind # "dir" => u[q] = t[q]
               /\ u[q] # t[q] => q \in Ancestors(p)
    <3>1. CASE Len(p) > 1 /\ q = Parent(p)
      <4>1. u[q] = [t[q] EXCEPT !.mtime = 0]
        BY <1>2, <3>1 DEF WithEntry
      <4>2. q \in Ancestors(p) /\ t[q].kind = "dir"
        BY <1>2, <2>1, <3>1 DEF Resolves
      <4>3. t[q] \in Entry
        OBVIOUS
      <4>4. SameButTime(t[q], u[q])
        BY <4>1, <4>3 DEF SameButTime, Entry
      <4> QED
        BY <4>2, <4>4
    <3>2. CASE ~(Len(p) > 1 /\ q = Parent(p))
      <4>1. u[q] = t[q]
        BY <1>2, <3>2 DEF WithEntry
      <4> QED
        BY <4>1 DEF SameButTime
    <3> QED
      BY <3>1, <3>2
  <2> QED
    BY <2>2, <2>3 DEF Aside
<1>3. ASSUME NEW e, u = [t EXCEPT ![p] = e]
      PROVE  u[p] = e /\ Aside(t, u, p) /\ \A q \in Universe \ {p} : u[q] = t[q]
  BY <1>3 DEF Aside, SameButTime
<1>4. c.name \in CallNames /\ t[p] \in Entry
  BY DEF Call
<1>5. CASE c.name \in Deletes
  <2>1. u = WithEntry(t, p, Absent) /\ Resolves(t, p)
    BY <1>5 DEF Effect, Succeeds, CanModify, Deletes
  <2>2. c.name = "unlink" => t[p].kind \in {"file", "symlink"}
    BY DEF Succeeds
  <2>3. c.name = "rmdir" => t[p].kind = "dir"
    BY DEF Succeeds
  <2>4. u[p] = Absent /\ Aside(t, u, p)
    BY <1>2, <2>1
  <2> QED
    BY <1>1, <1>5, <2>2, <2>3, <2>4 DEF Becomes, Quiet, Deletes
<1>6. CASE c.name = "mkdir" /\ ~Present(t, p)
  <2>1. PICK e : e = [Absent EXCEPT !.kind = "dir", !.mode = 7]
    OBVIOUS
  <2>2. u = WithEntry(t, p, e) /\ Resolves(t, p)
    BY <1>6, <2>1 DEF Effect, Succeeds
  <2>3. u[p] = e /\ Aside(t, u, p)
    BY <1>2, <2>2
  <2>4. e.kind = "dir" /\ e.data = 0
    BY <2>1 DEF Absent
  <2> QED
    BY <1>1, <1>6, <2>3, <2>4 DEF Becomes, Quiet, Deletes, Present
<1>7. CASE c.name = "mkdir" /\ Present(t, p)
  <2>1. u = t
    BY <1>7 DEF Effect
  <2> QED
    BY <1>1, <1>7, <2>1 DEF Becomes, Quiet, Deletes, Present, Aside, SameButTime
<1>8. CASE c.name = "open"
  <2>1. PICK e : e = [t[p] EXCEPT !.mode = 7]
    OBVIOUS
  <2>2. u = [t EXCEPT ![p] = e] /\ t[p].kind = "dir"
    BY <1>8, <2>1 DEF Effect, Succeeds, OwnerMayWrite
  <2>3. e.kind = t[p].kind /\ e.data = t[p].data /\ e.mode = 7
    BY <1>4, <2>1 DEF Entry
  <2>4. u[p] = e /\ Aside(t, u, p) /\ \A q \in Universe \ {p} : u[q] = t[q]
    BY <1>3, <2>2
  <2> QED
    BY <1>1, <1>8, <2>2, <2>3, <2>4 DEF Becomes, Quiet, Deletes
<1>9. CASE c.name = "rename"
  <2>1. u = WithEntry(t, p, EntryOf(c.record)) /\ Resolves(t, p) /\ t[p].kind # "dir"
    BY <1>9 DEF Effect, Succeeds, CanModify
  <2>2. u[p] = EntryOf(c.record) /\ Aside(t, u, p)
    BY <1>2, <2>1
  <2> QED
    BY <1>1, <1>9, <2>1, <2>2 DEF Becomes, Quiet, Deletes
<1>10. CASE c.name = "clear" /\ Present(t, p)
  <2>1. u = WithEntry(t, p, Absent) /\ Resolves(t, p) /\ t[p].kind # "dir"
    BY <1>10 DEF Effect, Succeeds, Present
  <2>2. u[p] = Absent /\ Aside(t, u, p) /\ Absent.kind = "none"
    BY <1>2, <2>1 DEF Absent
  <2> QED
    BY <1>1, <1>10, <2>1, <2>2 DEF Becomes, Quiet, Deletes
<1>11. CASE c.name = "clear" /\ ~Present(t, p)
  <2>1. u = t
    BY <1>11 DEF Effect
  <2> QED
    BY <1>1, <1>11, <2>1 DEF Becomes, Quiet, Deletes, Present, Aside, SameButTime
<1>12. CASE c.name = "symlink"
  <2>1. PICK e : e = [EntryOf(c.record) EXCEPT !.mode = 7, !.mtime = 0]
    OBVIOUS
  <2>2. u = WithEntry(t, p, e) /\ Resolves(t, p) /\ t[p].kind = "none"
    BY <1>12, <2>1 DEF Effect, Succeeds, CanModify
  <2>3. u[p] = e /\ Aside(t, u, p)
    BY <1>2, <2>2
  <2> QED
    BY <1>1, <1>12, <2>1, <2>2, <2>3 DEF Becomes, Quiet, Deletes
<1>13. CASE c.name = "utimes"
  <2>1. PICK e : e = [t[p] EXCEPT !.mtime = c.record.mtime]
    OBVIOUS
  <2>2. u = [t EXCEPT ![p] = e]
    BY <1>13, <2>1 DEF Effect
  <2>3. u[p] = e /\ Aside(t, u, p) /\ \A q \in Universe \ {p} : u[q] = t[q]
    BY <1>3, <2>2
  <2> QED
    BY <1>1, <1>13, <2>1, <2>3 DEF Becomes, Quiet, Deletes
<1>14. CASE c.name = "settle"
  <2>1. PICK e : e = [t[p] EXCEPT !.mtime = c.record.mtime]
    OBVIOUS
  <2>2. u = [t EXCEPT ![p] = e] /\ t[p].kind = "dir"
    BY <1>14, <2>1 DEF Effect, Succeeds
  <2>3. u[p] = e /\ Aside(t, u, p) /\ \A q \in Universe \ {p} : u[q] = t[q]
    BY <1>3, <2>2
  <2> QED
    BY <1>1, <1>14, <2>1, <2>2, <2>3 DEF Becomes, Quiet, Deletes
<1>15. CASE c.name = "chmod"
  <2>1. PICK e : e = [t[p] EXCEPT !.mode = c.record.mode]
    OBVIOUS
  <2>2. u = [t EXCEPT ![p] = e] /\ t[p].kind = "dir"
    BY <1>15, <2>1 DEF Effect, Succeeds
  <2>3. e.kind = t[p].kind /\ e.data = t[p].data /\ e.mode = c.record.mode
    BY <1>4, <2>1 DEF Entry
  <2>4. u[p] = e /\ Aside(t, u, p) /\ \A q \in Universe \ {p} : u[q] = t[q]
    BY <1>3, <2>2
  <2> QED
    BY <1>1, <1>15, <2>2, <2>3, <2>4 DEF Becomes, Quiet, Deletes
<1> QED
  BY <1>4, <1>5, <1>6, <1>7, <1>8, <1>9, <1>10, <1>11, <1>12, <1>13, <1>14, <1>15
  DEF CallNames, Deletes

-----------------------------------------------------------------------------
(***************************************************************************)
(* How far an attempt is.  What is left of it is the operations ch that    *)
(* are not yet applied and the calls K that are not yet made.              *)
(***************************************************************************)
Calls(cs) == {cs[i] : i \in 1..Len(cs)}

Left(pd, cs) == Calls(cs) \cup UNION {Calls(pd[k].actions) : k \in 1..Len(pd)}

CallPath(c) == c.record.path

\* The destination lists something at the path, the source nothing of its kind.
Unwanted(p, kind, src, dst) ==
    /\ \E y \in dst : y.path = p /\ y.kind = kind
    /\ ~ \E x \in src : x.path = p /\ x.kind = kind

SoundOp(o, src, dst) ==
    /\ o.op = "Delete" => Unwanted(Path(o), o.record.kind, src, dst)
    /\ o.op # "Delete" => o.record \in src \ dst

SoundCall(c, src, dst) ==
    /\ c.name \in Deletes => /\ Unwanted(CallPath(c), c.record.kind, src, dst)
                             /\ c.name = "rmdir" <=> c.record.kind = "dir"
    /\ c.name \notin Deletes => c.record \in src \ dst

DueDelete(ch, K, p) ==
    \/ \E o \in ch : o.op = "Delete" /\ Path(o) = p
    \/ \E c \in K : c.name \in Deletes /\ CallPath(c) = p

DueOp(ch, x) == \E o \in ch : o.op # "Delete" /\ o.record = x

DueUpsert(ch, K, x) == DueOp(ch, x) \/ \E c \in K : c.name \in Finals /\ c.record = x

\* Nothing is left to do here; nothing is left to do here or below.
AtRest(ch, K, p) == (\A o \in ch : Path(o) # p) /\ (\A c \in K : CallPath(c) # p)

AtRestBelow(ch, K, p) ==
    (\A o \in ch : ~StartsWith(Path(o), p)) /\ (\A c \in K : ~StartsWith(CallPath(c), p))

(***************************************************************************)
(* A record the destination lacks is due or written for good, an entry     *)
(* that has to go is due or gone, and a record that both sides list is     *)
(* there, the time of a directory aside.                                   *)
(***************************************************************************)
Written(ch, K, t, src, dst) ==
    \A x \in src \ dst :
        \/ DueUpsert(ch, K, x)
        \/ /\ t[x.path] = EntryOf(x)
           /\ AtRest(ch, K, x.path)
           /\ x.kind = "dir" => AtRestBelow(ch, K, x.path)

Removed(ch, K, t, src, dst) ==
    \A y \in dst : (\A x \in src : x.path # y.path) =>
        DueDelete(ch, K, y.path) \/ ~Present(t, y.path)

Kept(t, src, dst) ==
    \A x \in src \cap dst : /\ SameButTime(x, t[x.path])
                            /\ x.kind # "dir" => t[x.path] = EntryOf(x)

\* Nothing appears that the source does not list.
NothingNew(t, b, src) ==
    \A p \in Universe : (\A x \in src : x.path # p) /\ ~Present(b, p) => ~Present(t, p)

\* What stands where the source lists an entry is of its kind, goes, or is
\* something the destination leaves out.
KindInv(ch, K, t, src, b, r) ==
    \A x \in src : \/ DueDelete(ch, K, x.path)
                   \/ t[x.path].kind \in {"none", x.kind}
                   \/ Untouchable(b, x.path, r)

\* What has to go is still there, and so is the way to it.
OnItsWay(ch, K, t, b) ==
    \A p \in Universe : DueDelete(ch, K, p) =>
        t[p].kind = b[p].kind /\ \A a \in Ancestors(p) : t[a].kind = "dir"

\* A directory the source lists is there, or not yet made and opened.
Opened(ch, K, t, src) ==
    \A x \in src : x.kind = "dir" =>
        \/ t[x.path].kind = "dir"
        \/ DueOp(ch, x)
        \/ \E c \in K : c.name = "open" /\ c.record = x

\* The two listings differ at most in the times of directories.
SameListing(src, dst) == WithoutDirectoryTimes(src) = WithoutDirectoryTimes(dst)

\* Then only directories are settled, and no other time is disturbed.
Settling(ch, K, t, src, dst) ==
    SameListing(src, dst) =>
        /\ \A o \in ch : o.op = "UpsertDirectory"
        /\ \A c \in K : c.name \in Makes
        /\ \A x \in src : t[x.path].kind = x.kind
        /\ \A x \in src \cap dst : t[x.path] = EntryOf(x)

Sound(ch, K, src, dst) ==
    /\ \A o \in ch : SoundOp(o, src, dst)
    /\ \A c \in K : SoundCall(c, src, dst)

Progress(ch, K, t, src, dst, b, r) ==
    /\ Written(ch, K, t, src, dst) /\ Removed(ch, K, t, src, dst)
    /\ Kept(t, src, dst) /\ NothingNew(t, b, src)
    /\ KindInv(ch, K, t, src, b, r) /\ OnItsWay(ch, K, t, b)
    /\ Opened(ch, K, t, src) /\ Settling(ch, K, t, src, dst)

\* The difference of two listings holds what it must and nothing else.
LEMMA DifferenceSound ==
    ASSUME NEW src, NEW dst,
           \A x \in src : x.kind \in Kinds
    PROVE  /\ \A o \in Difference(src, dst) : SoundOp(o, src, dst)
           /\ \A x \in src \ dst : DueOp(Difference(src, dst), x)
           /\ \A y \in dst : Unwanted(y.path, y.kind, src, dst) =>
                 DueDelete(Difference(src, dst), {}, y.path)
           /\ \A o \in Difference(src, dst) :
                 o.op \notin {"Delete", "UpsertDirectory"} => o.record.kind # "dir"
<1>1. PICK D : D = Difference(src, dst)
  OBVIOUS
<1>2. ASSUME NEW y \in dst
      PROVE  /\ Delete(y).op = "Delete" /\ Path(Delete(y)) = y.path
             /\ Delete(y).record.kind = y.kind
  BY DEF Delete, Path
<1>3. ASSUME NEW x \in src
      PROVE  /\ Upsert(x, HasBasis(x, dst)).op # "Delete"
             /\ Upsert(x, HasBasis(x, dst)).record = x
             /\ x.kind = "dir" => Upsert(x, HasBasis(x, dst)).op = "UpsertDirectory"
  BY DEF Upsert
<1>4. \A o \in D : \/ \E y \in ToDelete(src, dst) : o = Delete(y)
                   \/ \E x \in ToUpsert(src, dst) : o = Upsert(x, HasBasis(x, dst))
  BY <1>1 DEF Difference
<1>5. \A x \in ToUpsert(src, dst) : Upsert(x, HasBasis(x, dst)) \in D
  BY <1>1 DEF Difference
<1>6. \A y \in ToDelete(src, dst) : Delete(y) \in D
  BY <1>1 DEF Difference
<1>7. ASSUME NEW o \in D PROVE SoundOp(o, src, dst)
                               /\ (o.op \notin {"Delete", "UpsertDirectory"} => o.record.kind # "dir")
  <2>1. ASSUME NEW y \in ToDelete(src, dst), o = Delete(y)
        PROVE  o.op = "Delete" /\ Unwanted(Path(o), o.record.kind, src, dst)
    BY <1>2, <2>1 DEF ToDelete, Unwanted
  <2>2. ASSUME NEW x \in ToUpsert(src, dst), o = Upsert(x, HasBasis(x, dst))
        PROVE  o.op # "Delete" /\ o.record \in src \ dst /\ o.record = x
               /\ (x.kind = "dir" => o.op = "UpsertDirectory")
    BY <1>3, <2>2 DEF ToUpsert
  <2> QED
    BY <1>4, <2>1, <2>2 DEF SoundOp
<1>8. ASSUME NEW x \in src \ dst PROVE DueOp(D, x)
  BY <1>3, <1>5 DEF ToUpsert, DueOp
<1>9. ASSUME NEW y \in dst, Unwanted(y.path, y.kind, src, dst) PROVE DueDelete(D, {}, y.path)
  <2>1. y \in ToDelete(src, dst)
    BY <1>9 DEF Unwanted, ToDelete
  <2> QED
    BY <1>2, <1>6, <2>1 DEF DueDelete
<1> QED
  BY <1>1, <1>7, <1>8, <1>9

\* "Starts with" is an order on paths, and the proper prefixes are the ancestors.
LEMMA PrefixFacts ==
    ASSUME NEW p \in Seq(Nat), NEW q \in Seq(Nat), NEW r \in Seq(Nat)
    PROVE  /\ StartsWith(p, p)
           /\ StartsWith(p, q) /\ StartsWith(q, r) => StartsWith(p, r)
           /\ StartsWith(p, q) /\ StartsWith(q, p) => p = q
<1>1. /\ Len(p) \in Nat /\ Len(q) \in Nat /\ Len(r) \in Nat
  OBVIOUS
<1>2. StartsWith(p, p)
  BY <1>1 DEF StartsWith
<1>3. StartsWith(p, q) /\ StartsWith(q, r) => StartsWith(p, r)
  BY <1>1 DEF StartsWith
<1>4. ASSUME StartsWith(p, q), StartsWith(q, p) PROVE p = q
  <2>1. Len(p) = Len(q) /\ \A i \in 1..Len(p) : p[i] = q[i]
    BY <1>1, <1>4 DEF StartsWith
  <2> QED
    BY <2>1, SeqEqual
<1> QED
  BY <1>2, <1>3, <1>4

\* An ancestor lies above its descendants and comes before them.
LEMMA AncestorAbove ==
    ASSUME NEW p \in Universe, NEW a \in Ancestors(p)
    PROVE  /\ a \in Universe /\ a \in Seq(Nat) /\ p \in Seq(Nat)
           /\ StartsWith(p, a) /\ a # p /\ ~NotAfter(p, a)
<1>1. /\ p \in Seq(Nat) /\ Len(p) \in Nat /\ a \in Universe /\ a # p /\ a \in Seq(Nat)
  BY AncestorFacts, UniverseAssumption DEF RelativePath
<1>2. PICK n \in 1..(Len(p) - 1) : a = SubSeq(p, 1, n)
  BY DEF Ancestors
<1>3. Len(a) = n /\ \A i \in 1..n : a[i] = p[i]
  BY <1>1, <1>2
<1>4. StartsWith(p, a)
  BY <1>1, <1>2, <1>3 DEF StartsWith
<1>5. Before(a, p)
  <2>1. n + 1 \in 1..Len(p)
    BY <1>1, <1>2
  <2>2. \A i \in 1..((n + 1) - 1) : i <= Len(a) /\ a[i] = p[i]
    BY <1>1, <1>2, <1>3
  <2> QED
    BY <1>3, <2>1, <2>2 DEF Before
<1>6. ~Before(p, a)
  BY <1>1, <1>5, BeforeTransitive, BeforeIrreflexive
<1> QED
  BY <1>1, <1>4, <1>6 DEF NotAfter

\* Two listings that agree but for the times of directories.
LEMMA SameListingFacts ==
    ASSUME NEW src \in SUBSET Record, NEW dst \in SUBSET Record, SameListing(src, dst), NEW x \in src
    PROVE  \E y \in dst : /\ y.path = x.path /\ SameButTime(x, y)
                          /\ x.kind # "dir" => y = x
<1>1. PICK v : v = IF x.kind = "dir" THEN [x EXCEPT !.mtime = 0] ELSE x
  OBVIOUS
<1>2. v \in WithoutDirectoryTimes(src)
  BY <1>1 DEF WithoutDirectoryTimes
<1>3. v \in WithoutDirectoryTimes(dst)
  BY <1>2 DEF SameListing
<1>4. PICK y \in dst : v = IF y.kind = "dir" THEN [y EXCEPT !.mtime = 0] ELSE y
  BY <1>3 DEF WithoutDirectoryTimes
<1>5. v.path = x.path /\ v.kind = x.kind /\ v.data = x.data /\ v.mode = x.mode
  BY <1>1 DEF Record
<1>6. v.path = y.path /\ v.kind = y.kind /\ v.data = y.data /\ v.mode = y.mode
  BY <1>4 DEF Record
<1>7. x.kind # "dir" => y = x
  BY <1>1, <1>4, <1>5, <1>6
<1> QED
  BY <1>5, <1>6, <1>7 DEF SameButTime

-----------------------------------------------------------------------------
\* At the beginning of an attempt everything is due.
LEMMA BeginProgress ==
    ASSUME NEW s, NEW b, NEW r, NEW rx, NEW src, NEW dst, Setting(s, b, r, rx, src, dst)
    PROVE  /\ Sound(Difference(src, dst), {}, src, dst)
           /\ Progress(Difference(src, dst), {}, b, src, dst, b, r)
<1>1. /\ s \in [Universe -> Entry] /\ b \in [Universe -> Entry] /\ IsTree(b)
      /\ src = Scan(s, rx) /\ dst = Scan(b, r)
  BY DEF Setting
<1>2. /\ \A x \in src : x \in Record /\ x.path \in Universe /\ x.kind \in Kinds
      /\ \A x, y \in src : x.path = y.path => x = y
  BY <1>1, ListingFacts
<1>3. /\ \A y \in dst : y \in Record /\ y.path \in Universe /\ Listed(b, y.path, r) /\ b[y.path] = EntryOf(y)
      /\ \A x, y \in dst : x.path = y.path => x = y
  BY <1>1, ListingFacts
<1>4. \A p \in Universe : Listed(b, p, r) => \E y \in dst : y.path = p /\ y.kind = b[p].kind
  BY <1>1, ListingFacts
<1>5. PICK D : D = Difference(src, dst)
  OBVIOUS
<1>6. /\ \A o \in D : SoundOp(o, src, dst)
      /\ \A x \in src \ dst : DueOp(D, x)
      /\ \A y \in dst : Unwanted(y.path, y.kind, src, dst) => DueDelete(D, {}, y.path)
      /\ \A o \in D : o.op \notin {"Delete", "UpsertDirectory"} => o.record.kind # "dir"
  BY <1>2, <1>5, DifferenceSound
<1>7. Sound(D, {}, src, dst)
  BY <1>6 DEF Sound
<1>8. Written(D, {}, b, src, dst)
  BY <1>6 DEF Written, DueUpsert
<1>9. Removed(D, {}, b, src, dst)
  BY <1>6 DEF Removed, Unwanted
<1>10. \A y \in dst : b[y.path].kind = y.kind /\ SameButTime(y, b[y.path])
  BY <1>3, EntryOfFacts
<1>11. Kept(b, src, dst)
  BY <1>3, <1>10 DEF Kept
<1>12. NothingNew(b, b, src)
  BY DEF NothingNew
<1>13. KindInv(D, {}, b, src, b, r)
  <2>1. ASSUME NEW x \in src, b[x.path].kind \notin {"none", x.kind}, ~Untouchable(b, x.path, r)
        PROVE  DueDelete(D, {}, x.path)
    <3>1. Listed(b, x.path, r)
      BY <2>1 DEF Untouchable, Present
    <3>2. PICK y \in dst : y.path = x.path /\ y.kind = b[x.path].kind
      BY <1>2, <1>4, <3>1
    <3>3. Unwanted(y.path, y.kind, src, dst)
      BY <1>2, <2>1, <3>2 DEF Unwanted
    <3> QED
      BY <1>6, <3>2, <3>3
  <2> QED
    BY <2>1 DEF KindInv
<1>14. OnItsWay(D, {}, b, b)
  <2>1. ASSUME NEW p \in Universe, DueDelete(D, {}, p)
        PROVE  \A a \in Ancestors(p) : b[a].kind = "dir"
    <3>1. PICK o \in D : o.op = "Delete" /\ Path(o) = p
      BY <2>1 DEF DueDelete
    <3>2. PICK y \in dst : y.path = p
      BY <1>6, <3>1 DEF SoundOp, Unwanted
    <3>3. Present(b, p)
      BY <1>3, <3>2 DEF Listed
    <3> QED
      BY <1>1, <3>3 DEF IsTree
  <2> QED
    BY <2>1 DEF OnItsWay
<1>15. Opened(D, {}, b, src)
  BY <1>6, <1>10 DEF Opened
<1>16. Settling(D, {}, b, src, dst)
  <2>1. SUFFICES ASSUME SameListing(src, dst)
                 PROVE  /\ \A o \in D : o.op = "UpsertDirectory"
                        /\ \A x \in src : b[x.path].kind = x.kind
                        /\ \A x \in src \cap dst : b[x.path] = EntryOf(x)
    BY DEF Settling
  <2>2. src \in SUBSET Record /\ dst \in SUBSET Record /\ SameListing(dst, src)
    BY <1>2, <1>3, <2>1 DEF SameListing
  <2>3. \A x \in src : \E y \in dst : /\ y.path = x.path /\ SameButTime(x, y)
                                      /\ x.kind # "dir" => y = x
    BY <2>1, <2>2, SameListingFacts
  <2>4. \A y \in dst : \E x \in src : x.path = y.path /\ SameButTime(y, x)
    BY <2>2, SameListingFacts
  <2>5. ASSUME NEW o \in D PROVE o.op = "UpsertDirectory"
    <3>1. o.op # "Delete"
      BY <1>6, <2>4 DEF SoundOp, Unwanted, SameButTime
    <3>2. o.record \in src \ dst
      BY <1>6, <3>1 DEF SoundOp
    <3>3. o.record.kind = "dir"
      BY <2>3, <3>2
    <3> QED
      BY <1>6, <3>1, <3>3
  <2>6. \A x \in src : b[x.path].kind = x.kind
    BY <1>10, <2>3 DEF SameButTime
  <2> QED
    BY <1>3, <2>5, <2>6
<1> QED
  BY <1>5, <1>7, <1>8, <1>9, <1>11, <1>12, <1>13, <1>14, <1>15, <1>16 DEF Progress

\* The calls N that `apply` makes or defers for an operation.
Stands(o, N) ==
    /\ \A c \in N : c.record = o.record
    /\ o.op = "Delete" => /\ N # {}
                          /\ \A c \in N : /\ c.name \in Deletes
                                          /\ c.name = "rmdir" <=> o.record.kind = "dir"
    /\ o.op # "Delete" => /\ \A c \in N : c.name \notin Deletes
                          /\ \E c \in N : c.name \in Finals
    /\ o.op = "UpsertDirectory" => /\ \E c \in N : c.name = "open"
                                   /\ \A c \in N : c.name \in Makes
    /\ o.op \notin {"Delete", "UpsertDirectory"} => o.record.kind # "dir"

\* Then the calls are due where the operation was.
LEMMA ApplyProgress ==
    ASSUME NEW ch, NEW K, NEW t, NEW src, NEW dst, NEW b, NEW r,
           Sound(ch, K, src, dst), Progress(ch, K, t, src, dst, b, r),
           NEW o \in ch, NEW N, Stands(o, N), NEW C, C = ch \ {o}, NEW L, L = K \cup N
    PROVE  Sound(C, L, src, dst) /\ Progress(C, L, t, src, dst, b, r)
<1>1. \A c \in N : c.record = o.record /\ CallPath(c) = Path(o)
  BY DEF Stands, CallPath, Path
<1>2. Sound(C, L, src, dst)
  <2>1. SoundOp(o, src, dst)
    BY DEF Sound
  <2>2. \A c \in N : SoundCall(c, src, dst)
    BY <1>1, <2>1 DEF SoundOp, SoundCall, Stands
  <2> QED
    BY <2>2 DEF Sound
<1>3. \A p : DueDelete(C, L, p) <=> DueDelete(ch, K, p)
  <2>1. ASSUME NEW p, DueDelete(C, L, p) PROVE DueDelete(ch, K, p)
    BY <1>1, <2>1 DEF DueDelete, Stands
  <2>2. ASSUME NEW p, DueDelete(ch, K, p) PROVE DueDelete(C, L, p)
    BY <1>1, <2>2 DEF DueDelete, Stands
  <2> QED
    BY <2>1, <2>2
<1>4. \A x : DueUpsert(ch, K, x) => DueUpsert(C, L, x)
  BY DEF DueUpsert, DueOp, Stands
<1>5. \A p : AtRest(ch, K, p) => AtRest(C, L, p)
  BY <1>1 DEF AtRest
<1>6. \A p : AtRestBelow(ch, K, p) => AtRestBelow(C, L, p)
  BY <1>1 DEF AtRestBelow
<1>7. Written(C, L, t, src, dst)
  BY <1>4, <1>5, <1>6 DEF Progress, Written
<1>8. Removed(C, L, t, src, dst) /\ KindInv(C, L, t, src, b, r) /\ OnItsWay(C, L, t, b)
  BY <1>3 DEF Progress, Removed, KindInv, OnItsWay
<1>9. Opened(C, L, t, src)
  BY DEF Progress, Opened, DueOp, Stands
<1>10. Settling(C, L, t, src, dst)
  BY DEF Progress, Settling, Stands
<1> QED
  BY <1>2, <1>7, <1>8, <1>9, <1>10 DEF Progress

-----------------------------------------------------------------------------
(***************************************************************************)
(* What holds of the call c that is made next, R being the calls after it. *)
(***************************************************************************)
HeadLast(ch, R, c) ==
    /\ \A o \in ch : /\ NotAfter(CallPath(c), Path(o))
                     /\ Path(o) = CallPath(c) => o.op # "Delete" /\ c.name \in Deletes
    /\ \A d \in R : d.name \in Deletes => CallPath(d) # CallPath(c)
    /\ \A d \in R : d.name = "open" => CallPath(d) = CallPath(c) /\ c.name = "mkdir"
    /\ c.name \in Finals => \A d \in R : CallPath(d) # CallPath(c)
    /\ c.name \in Closes =>
          /\ \A o \in ch : ~StartsWith(Path(o), CallPath(c))
          /\ \A d \in R : StartsWith(CallPath(d), CallPath(c)) => CallPath(d) = CallPath(c)

\* A link whose time is due is there, one that is due has room, and so on.
HeadReady(t, c) ==
    /\ c.name = "utimes" => t[CallPath(c)] = [EntryOf(c.record) EXCEPT !.mtime = 0]
    /\ c.name = "symlink" => t[CallPath(c)].kind = "none"
    /\ c.name = "open" => t[CallPath(c)].kind # "none"
    /\ c.name = "settle" => t[CallPath(c)].mode = c.record.mode

\* A directory of the live tree has no content of its own.
DirsEmpty(t) == \A p \in Universe : t[p].kind = "dir" => t[p].data = 0

\* The state a call is made in.
Making(t, c, ch, R, src, dst, b, r) ==
    /\ t \in [Universe -> Entry] /\ IsTree(t) /\ DirsEmpty(t)
    /\ c \in Call /\ Justified(c, src, b, r)
    /\ Sound(ch, R \cup {c}, src, dst)
    /\ Progress(ch, R \cup {c}, t, src, dst, b, r)
    /\ HeadLast(ch, R, c) /\ HeadReady(t, c)

\* The final call of an upsert leaves the record.
LEMMA FinalCall ==
    ASSUME NEW s, NEW b, NEW r, NEW rx, NEW src, NEW dst, Setting(s, b, r, rx, src, dst),
           NEW t, NEW c, NEW ch, NEW R, Making(t, c, ch, R, src, dst, b, r),
           NEW p \in Universe, p = CallPath(c), c.name \in Finals,
           NEW e, Becomes(c.name, c.record, t[p], e)
    PROVE  e = EntryOf(c.record)
<1>1. /\ s \in [Universe -> Entry] /\ IsNormal(s) /\ src = Scan(s, rx)
  BY DEF Setting
<1>2. c.record \in src
  BY DEF Making, Justified, Finals
<1>3. PICK x : x = c.record
  OBVIOUS
<1>4. x.path = p /\ s[p] = EntryOf(x) /\ x \in Record
  BY <1>1, <1>2, <1>3, ListingFacts DEF CallPath
<1>5. x.kind = "dir" => x.data = 0
  BY <1>1, <1>4, EntryOfFacts DEF IsNormal
<1>6. CASE c.name = "rename"
  BY <1>6 DEF Becomes
<1>7. CASE c.name = "utimes"
  <2>1. t[p] = [EntryOf(x) EXCEPT !.mtime = 0] /\ e = [t[p] EXCEPT !.mtime = x.mtime]
    BY <1>3, <1>7 DEF Making, HeadReady, Becomes
  <2>2. e = EntryOf(x)
    BY <2>1 DEF EntryOf
  <2> QED
    BY <1>3, <2>2
<1>8. CASE c.name = "settle"
  <2>1. PICK d \in Entry : d = t[p]
    BY DEF Making
  <2>2. d.kind = "dir" /\ e = [d EXCEPT !.mtime = x.mtime] /\ x.kind = "dir"
    BY <1>3, <1>8, <2>1 DEF Making, Becomes, Justified, Makes
  <2>3. d.data = 0 /\ d.mode = x.mode
    BY <1>3, <1>8, <2>1, <2>2 DEF Making, DirsEmpty, HeadReady
  <2>4. e = [kind |-> d.kind, data |-> d.data, mode |-> d.mode, mtime |-> x.mtime]
    BY <2>2 DEF Entry
  <2>5. e = EntryOf(x)
    BY <1>5, <2>2, <2>3, <2>4 DEF EntryOf
  <2> QED
    BY <1>3, <2>5
<1> QED
  BY <1>6, <1>7, <1>8 DEF Finals

\* A call that is made advances the attempt.
LEMMA ExecuteProgress ==
    ASSUME NEW s, NEW b, NEW r, NEW rx, NEW src, NEW dst, Setting(s, b, r, rx, src, dst),
           NEW t, NEW c, NEW ch, NEW R, Making(t, c, ch, R, src, dst, b, r),
           Succeeds(t, c), NEW u, u = Effect(t, c)
    PROVE  Progress(ch, R, u, src, dst, b, r) /\ DirsEmpty(u)
<1>1. /\ s \in [Universe -> Entry] /\ src = Scan(s, rx)
      /\ b \in [Universe -> Entry] /\ dst = Scan(b, r)
  BY DEF Setting
<1>2. /\ \A x \in src : x.path \in Universe /\ x.kind \in Kinds
      /\ \A x, y \in src : x.path = y.path => x = y
  BY <1>1, ListingFacts
<1>3. /\ \A y \in dst : y.path \in Universe
      /\ \A x, y \in dst : x.path = y.path => x = y
  BY <1>1, ListingFacts
<1>4. /\ t \in [Universe -> Entry] /\ IsTree(t) /\ DirsEmpty(t)
      /\ c \in Call /\ Justified(c, src, b, r)
      /\ HeadLast(ch, R, c) /\ HeadReady(t, c)
  BY DEF Making
<1>5. PICK p \in Universe : p = CallPath(c)
  BY <1>4 DEF Justified, CallPath
<1>6. PICK K : K = R \cup {c}
  OBVIOUS
<1>7. SoundCall(c, src, dst) /\ Progress(ch, K, t, src, dst, b, r)
  BY <1>6 DEF Making, Sound
<1>8. /\ u \in [Universe -> Entry]
      /\ Aside(t, u, p) /\ Becomes(c.name, c.record, t[p], u[p]) /\ Quiet(t, u, c)
  BY <1>4, <1>5, CallEffect DEF CallPath
<1>9. c.name \in CallNames /\ c.record.path = p
  BY <1>4, <1>5 DEF Call, CallPath
<1>10. \A q \in Universe \ {p} : u[q].kind = t[q].kind
  BY <1>8 DEF Aside, SameButTime
<1>11. c.name \notin Deletes => c.record \in src \ dst /\ \A x \in src : x.path = p => x = c.record
  BY <1>2, <1>7, <1>9 DEF SoundCall
<1>12. \A q : DueDelete(ch, K, q) => DueDelete(ch, R, q) \/ (q = p /\ u[p].kind = "none")
  BY <1>5, <1>6, <1>8 DEF DueDelete, Becomes, Absent
<1>13. ~DueDelete(ch, R, p)
  BY <1>4, <1>5 DEF DueDelete, HeadLast
<1>14. \A q : DueDelete(ch, R, q) => DueDelete(ch, K, q)
  BY <1>6 DEF DueDelete
<1>15. Written(ch, R, u, src, dst)
  <2>1. SUFFICES ASSUME NEW x \in src \ dst, ~DueUpsert(ch, R, x)
                 PROVE  /\ u[x.path] = EntryOf(x)
                        /\ AtRest(ch, R, x.path)
                        /\ x.kind = "dir" => AtRestBelow(ch, R, x.path)
    BY DEF Written
  <2>2. CASE DueUpsert(ch, K, x)
    <3>1. c.name \in Finals /\ c.record = x /\ p = x.path
      BY <1>6, <1>9, <2>1, <2>2 DEF DueUpsert
    <3>2. u[p] = EntryOf(x)
      <4>1. PICK e : e = u[p]
        OBVIOUS
      <4>2. Becomes(c.name, c.record, t[p], e) /\ c.name \in Finals
        BY <1>8, <3>1, <4>1
      <4>3. e = EntryOf(c.record)
        BY <1>5, <4>2, FinalCall
      <4> QED
        BY <3>1, <4>1, <4>3
    <3>3. AtRest(ch, R, p)
      BY <1>4, <1>5, <3>1 DEF AtRest, HeadLast, Finals, Deletes
    <3>4. ASSUME x.kind = "dir" PROVE AtRestBelow(ch, R, p)
      <4>1. c.name = "settle"
        BY <1>4, <3>1, <3>4 DEF Justified, Finals
      <4>2. /\ \A o \in ch : ~StartsWith(Path(o), p)
            /\ \A d \in R : StartsWith(CallPath(d), p) => CallPath(d) = p
        BY <1>4, <1>5, <4>1 DEF HeadLast, Closes
      <4> QED
        BY <3>3, <4>2 DEF AtRestBelow, AtRest
    <3> QED
      BY <3>1, <3>2, <3>3, <3>4
  <2>3. CASE ~DueUpsert(ch, K, x)
    <3>1. /\ t[x.path] = EntryOf(x)
          /\ AtRest(ch, K, x.path)
          /\ x.kind = "dir" => AtRestBelow(ch, K, x.path)
      BY <1>7, <2>1, <2>3 DEF Progress, Written
    <3>2. /\ AtRest(ch, R, x.path)
          /\ x.kind = "dir" => AtRestBelow(ch, R, x.path)
      BY <1>6, <3>1 DEF AtRest, AtRestBelow
    <3>3. x.path \in Universe \ {p}
      BY <1>2, <1>5, <1>6, <3>1 DEF AtRest
    <3>4. t[x.path].kind = x.kind
      BY <3>1, EntryOfFacts
    <3>5. CASE x.kind # "dir"
      BY <1>8, <3>1, <3>2, <3>3, <3>4, <3>5 DEF Aside
    <3>6. CASE x.kind = "dir"
      <4>1. ~StartsWith(p, x.path)
        BY <1>5, <1>6, <3>1, <3>6 DEF AtRestBelow
      <4>2. x.path \notin Ancestors(p)
        BY <4>1, AncestorAbove
      <4>3. u[x.path] = t[x.path]
        BY <1>8, <3>3, <4>2 DEF Aside
      <4> QED
        BY <3>1, <3>2, <4>3
    <3> QED
      BY <3>5, <3>6
  <2> QED
    BY <2>2, <2>3
<1>16. Removed(ch, R, u, src, dst)
  <2>1. SUFFICES ASSUME NEW y \in dst, \A x \in src : x.path # y.path, ~DueDelete(ch, R, y.path)
                 PROVE  ~Present(u, y.path)
    BY DEF Removed
  <2>2. CASE DueDelete(ch, K, y.path)
    BY <1>12, <2>1, <2>2 DEF Present
  <2>3. CASE ~DueDelete(ch, K, y.path)
    <3>1. ~Present(t, y.path)
      BY <1>7, <2>1, <2>3 DEF Progress, Removed
    <3>2. y.path = p => c.name \in Deletes
      BY <1>9, <1>11, <2>1
    <3> QED
      BY <1>3, <1>8, <1>10, <3>1, <3>2 DEF Present, Becomes, Absent
  <2> QED
    BY <2>2, <2>3
<1>17. \A x \in src \cap dst : x.path # p
  BY <1>3, <1>7, <1>9, <1>11 DEF SoundCall, Unwanted, CallPath
<1>18. Kept(u, src, dst)
  <2>1. SUFFICES ASSUME NEW x \in src \cap dst
                 PROVE  SameButTime(x, u[x.path]) /\ (x.kind # "dir" => u[x.path] = EntryOf(x))
    BY DEF Kept
  <2>2. SameButTime(x, t[x.path]) /\ (x.kind # "dir" => t[x.path] = EntryOf(x))
    BY <1>7 DEF Progress, Kept
  <2>3. x.path \in Universe \ {p}
    BY <1>2, <1>17
  <2>4. SameButTime(t[x.path], u[x.path]) /\ (t[x.path].kind # "dir" => u[x.path] = t[x.path])
    BY <1>8, <2>3 DEF Aside
  <2> QED
    BY <2>2, <2>4 DEF SameButTime
<1>19. NothingNew(u, b, src)
  <2>1. SUFFICES ASSUME NEW q \in Universe, \A x \in src : x.path # q, ~Present(b, q)
                 PROVE  ~Present(u, q)
    BY DEF NothingNew
  <2>2. ~Present(t, q)
    BY <1>7, <2>1 DEF Progress, NothingNew
  <2>3. q = p => c.name \in Deletes
    BY <1>9, <1>11, <2>1
  <2> QED
    BY <1>8, <1>10, <2>2, <2>3 DEF Present, Becomes, Absent
<1>20. c.name \notin Deletes => u[p].kind \in {"none", c.record.kind, t[p].kind}
  <2>1. c.name \in Makes => c.record.kind = "dir"
    BY <1>4 DEF Justified
  <2>2. ASSUME c.name = "symlink" PROVE u[p].kind = c.record.kind
    BY <1>8, <2>2 DEF Becomes, EntryOf
  <2>3. ASSUME c.name = "utimes" PROVE u[p].kind = t[p].kind
    <3>1. t[p] \in Entry
      BY <1>4
    <3> QED
      BY <1>8, <2>3, <3>1 DEF Becomes, Entry
  <2>4. ASSUME c.name = "settle" PROVE u[p].kind = t[p].kind
    <3>1. t[p] \in Entry
      BY <1>4
    <3> QED
      BY <1>8, <2>4, <3>1 DEF Becomes, Entry
  <2>5. ASSUME c.name = "rename" PROVE u[p].kind = c.record.kind
    BY <1>8, <2>5, EntryOfFacts DEF Becomes
  <2>6. ASSUME c.name = "mkdir" PROVE u[p].kind \in {"dir", t[p].kind}
    BY <1>8, <2>6 DEF Becomes
  <2>7. c.name \in {"open", "chmod"} => u[p].kind = "dir"
    BY <1>8 DEF Becomes
  <2>8. c.name = "clear" => u[p].kind = "none"
    BY <1>8 DEF Becomes
  <2> QED
    BY <1>9, <2>1, <2>2, <2>3, <2>4, <2>5, <2>6, <2>7, <2>8 DEF CallNames, Deletes, Makes
<1>21. KindInv(ch, R, u, src, b, r)
  <2>1. SUFFICES ASSUME NEW x \in src, ~DueDelete(ch, R, x.path), ~Untouchable(b, x.path, r)
                 PROVE  u[x.path].kind \in {"none", x.kind}
    BY DEF KindInv
  <2>2. CASE DueDelete(ch, K, x.path)
    BY <1>12, <2>1, <2>2
  <2>3. CASE ~DueDelete(ch, K, x.path)
    <3>1. t[x.path].kind \in {"none", x.kind}
      BY <1>7, <2>1, <2>3 DEF Progress, KindInv
    <3>2. CASE x.path # p
      BY <1>2, <1>10, <3>1, <3>2
    <3>3. CASE x.path = p /\ c.name \in Deletes
      BY <1>8, <3>3 DEF Becomes, Absent
    <3>4. CASE x.path = p /\ c.name \notin Deletes
      BY <1>11, <1>20, <3>1, <3>4
    <3> QED
      BY <3>2, <3>3, <3>4
  <2> QED
    BY <2>2, <2>3
<1>22. OnItsWay(ch, R, u, b)
  <2>1. SUFFICES ASSUME NEW q \in Universe, DueDelete(ch, R, q)
                 PROVE  u[q].kind = b[q].kind /\ \A a \in Ancestors(q) : u[a].kind = "dir"
    BY DEF OnItsWay
  <2>2. q # p
    BY <1>13, <2>1
  <2>3. t[q].kind = b[q].kind /\ \A a \in Ancestors(q) : t[a].kind = "dir"
    BY <1>7, <1>14, <2>1 DEF Progress, OnItsWay
  <2>4. u[q].kind = b[q].kind
    BY <1>10, <2>2, <2>3
  <2>5. ASSUME p \in Ancestors(q) PROVE u[p].kind = "dir"
    <3>1. t[p].kind = "dir" /\ StartsWith(q, p)
      BY <2>3, <2>5, AncestorAbove
    <3>2. c.name # "rmdir"
      BY <1>4, <1>5, <2>1, <2>2, <3>1 DEF HeadLast, DueDelete, Closes
    <3>3. c.name \notin {"unlink", "rename", "clear", "symlink"}
      BY <1>8, <3>1 DEF Becomes
    <3>4. c.name \in {"mkdir", "open", "utimes", "chmod", "settle"}
      BY <1>9, <3>2, <3>3 DEF CallNames
    <3>5. c.name \notin Deletes /\ (c.name # "utimes" => c.record.kind = "dir")
      BY <1>4, <3>4 DEF Deletes, Justified, Makes
    <3>6. c.name # "utimes"
      <4>1. ASSUME c.name = "utimes" PROVE FALSE
        <5>1. t[p] = [EntryOf(c.record) EXCEPT !.mtime = 0] /\ c.record.kind = "symlink"
          BY <1>4, <1>5, <4>1 DEF HeadReady, Justified
        <5>2. t[p].kind = "symlink"
          BY <5>1 DEF EntryOf
        <5> QED
          BY <3>1, <5>2
      <4> QED
        BY <4>1
    <3>7. u[p].kind # "none"
      <4>1. c.name = "mkdir" => u[p] = t[p]
        BY <1>8, <3>1 DEF Becomes
      <4>2. c.name \in {"open", "chmod"} => u[p].kind = "dir"
        BY <1>8 DEF Becomes
      <4>3. t[p] \in Entry
        BY <1>4
      <4>4. c.name = "settle" => u[p].kind = t[p].kind
        BY <1>8, <4>3 DEF Becomes, Entry
      <4> QED
        BY <3>1, <3>4, <3>6, <4>1, <4>2, <4>4
    <3> QED
      BY <1>20, <3>1, <3>5, <3>6, <3>7
  <2>6. \A a \in Ancestors(q) : a \in Universe
    BY AncestorFacts
  <2> QED
    BY <1>10, <2>3, <2>4, <2>5, <2>6
<1>23. Opened(ch, R, u, src)
  <2>1. SUFFICES ASSUME NEW x \in src, x.kind = "dir", ~DueOp(ch, x),
                        ~ \E d \in R : d.name = "open" /\ d.record = x
                 PROVE  u[x.path].kind = "dir"
    BY DEF Opened
  <2>2. CASE t[x.path].kind = "dir"
    <3>1. CASE x.path # p
      BY <1>2, <1>10, <2>2, <3>1
    <3>2. CASE x.path = p
      <4>1. c.name \notin Deletes
        <5>1. ASSUME c.name \in Deletes PROVE FALSE
          <6>1. c.name # "unlink"
            BY <1>8, <2>2, <3>2 DEF Becomes
          <6>2. c.name = "rmdir" /\ c.record.kind = "dir"
            BY <1>7, <5>1, <6>1 DEF Deletes, SoundCall
          <6> QED
            BY <1>5, <1>7, <2>1, <3>2, <5>1, <6>2 DEF SoundCall, Unwanted
        <5> QED
          BY <5>1
      <4>2. c.record = x
        BY <1>11, <3>2, <4>1
      <4>3. c.name \in {"mkdir", "open", "chmod", "settle"}
        BY <1>4, <1>9, <2>1, <4>1, <4>2 DEF Justified, CallNames, Deletes
      <4>4. c.name = "mkdir" => u[p] = t[p]
        BY <1>8, <2>2, <3>2 DEF Becomes
      <4>5. c.name \in {"open", "chmod"} => u[p].kind = "dir"
        BY <1>8 DEF Becomes
      <4>6. t[p] \in Entry
        BY <1>4
      <4>7. c.name = "settle" => u[p].kind = t[p].kind
        BY <1>8, <4>6 DEF Becomes, Entry
      <4> QED
        BY <2>2, <3>2, <4>3, <4>4, <4>5, <4>7
    <3> QED
      BY <3>1, <3>2
  <2>3. CASE t[x.path].kind # "dir"
    <3>1. \E d \in K : d.name = "open" /\ d.record = x
      BY <1>7, <2>1, <2>3 DEF Progress, Opened
    <3>2. c.name = "open" /\ x.path = p
      BY <1>6, <1>9, <2>1, <3>1
    <3> QED
      BY <1>8, <3>2 DEF Becomes
  <2> QED
    BY <2>2, <2>3
<1>24. Settling(ch, R, u, src, dst)
  <2>1. SUFFICES ASSUME SameListing(src, dst)
                 PROVE  /\ \A o \in ch : o.op = "UpsertDirectory"
                        /\ \A d \in R : d.name \in Makes
                        /\ \A x \in src : u[x.path].kind = x.kind
                        /\ \A x \in src \cap dst : u[x.path] = EntryOf(x)
    BY DEF Settling
  <2>2. /\ \A o \in ch : o.op = "UpsertDirectory"
        /\ \A d \in K : d.name \in Makes
        /\ \A x \in src : t[x.path].kind = x.kind
        /\ \A x \in src \cap dst : t[x.path] = EntryOf(x)
    BY <1>7, <2>1 DEF Progress, Settling
  <2>3. /\ c.name \in {"mkdir", "open", "chmod", "settle"} /\ c.name \notin Deletes
        /\ c.record.kind = "dir"
    BY <1>4, <1>6, <2>2 DEF Deletes, Justified, Makes
  <2>4. t[p].kind = "dir"
    BY <1>9, <1>11, <2>2, <2>3
  <2>5. \A q \in Universe \ {p} : u[q] = t[q]
    BY <1>8, <1>9, <2>3, <2>4 DEF Quiet, Present
  <2>6. u[p].kind = "dir"
    <3>1. c.name = "mkdir" => u[p] = t[p]
      BY <1>8, <2>4 DEF Becomes
    <3>2. c.name \in {"open", "chmod"} => u[p].kind = "dir"
      BY <1>8 DEF Becomes
    <3>3. t[p] \in Entry
      BY <1>4
    <3>4. c.name = "settle" => u[p].kind = t[p].kind
      BY <1>8, <3>3 DEF Becomes, Entry
    <3> QED
      BY <2>3, <2>4, <3>1, <3>2, <3>4
  <2>7. \A x \in src : u[x.path].kind = x.kind
    BY <1>2, <2>2, <2>4, <2>5, <2>6
  <2>8. \A x \in src \cap dst : u[x.path] = EntryOf(x)
    BY <1>2, <1>17, <2>2, <2>5
  <2> QED
    BY <1>6, <2>2, <2>7, <2>8
<1>25. DirsEmpty(u)
  <2>1. ASSUME NEW q \in Universe \ {p}, u[q].kind = "dir" PROVE u[q].data = 0
    BY <1>4, <1>8, <2>1 DEF Aside, SameButTime, DirsEmpty
  <2>2. ASSUME u[p].kind = "dir" PROVE u[p].data = 0
    <3>1. PICK d \in Entry : d = t[p]
      BY <1>4
    <3>2. d.kind = "dir" => d.data = 0
      BY <1>4, <3>1 DEF DirsEmpty
    <3>3. c.name \notin Deletes \cup {"clear"}
      BY <1>8, <2>2 DEF Becomes, Absent
    <3>4. c.name \notin {"rename", "symlink"}
      <4>1. ASSUME c.name = "rename" PROVE FALSE
        BY <1>4, <1>8, <2>2, <4>1, EntryOfFacts DEF Becomes, Justified
      <4>2. ASSUME c.name = "symlink" PROVE FALSE
        <5>1. u[p] = [EntryOf(c.record) EXCEPT !.mode = 7, !.mtime = 0] /\ c.record.kind = "symlink"
          BY <1>4, <1>8, <4>2 DEF Becomes, Justified
        <5>2. u[p].kind = "symlink"
          BY <5>1 DEF EntryOf
        <5> QED
          BY <2>2, <5>2
      <4> QED
        BY <4>1, <4>2
    <3>5. c.name = "utimes" => u[p].kind = d.kind /\ u[p].data = d.data
      BY <1>8, <3>1 DEF Becomes, Entry
    <3>6. c.name = "settle" => u[p].kind = d.kind /\ u[p].data = d.data
      BY <1>8, <3>1 DEF Becomes, Entry
    <3>7. c.name \in {"open", "chmod"} => d.kind = "dir" /\ u[p].data = d.data
      BY <1>8, <3>1 DEF Becomes
    <3>8. c.name = "mkdir" => u[p].data = 0 \/ u[p] = d
      BY <1>8, <3>1 DEF Becomes
    <3> QED
      BY <1>9, <2>2, <3>2, <3>3, <3>4, <3>5, <3>6, <3>7, <3>8 DEF CallNames, Deletes
  <2> QED
    BY <2>1, <2>2 DEF DirsEmpty
<1> QED
  BY <1>15, <1>16, <1>18, <1>19, <1>21, <1>22, <1>23, <1>24, <1>25 DEF Progress

-----------------------------------------------------------------------------
(***************************************************************************)
(* OldOrNew of a tree t, and what a call leaves of it.                     *)
(***************************************************************************)
NewEntry(s, p, rx) == IF Listed(s, p, rx) THEN s[p] ELSE Absent

Halfway(d, old, new) ==
    /\ \/ d.kind = "none"
       \/ d.kind = old.kind /\ d.data = old.data
       \/ d.kind = new.kind /\ d.data = new.data
    /\ old.kind = "file" /\ new.kind = "file" => d \in {old, new}

OldNew(t, b, s, rx) == \A p \in Universe : Halfway(t[p], b[p], NewEntry(s, p, rx))

\* A call keeps every path between its old and its new content.
LEMMA ExecuteOldNew ==
    ASSUME NEW s, NEW b, NEW r, NEW rx, NEW src, NEW dst, Setting(s, b, r, rx, src, dst),
           NEW t, NEW c, NEW ch, NEW R, Making(t, c, ch, R, src, dst, b, r),
           Succeeds(t, c), NEW u, u = Effect(t, c), OldNew(t, b, s, rx)
    PROVE  OldNew(u, b, s, rx)
<1>1. /\ s \in [Universe -> Entry] /\ src = Scan(s, rx) /\ IsNormal(s)
      /\ b \in [Universe -> Entry] /\ dst = Scan(b, r)
  BY DEF Setting
<1>2. /\ t \in [Universe -> Entry] /\ IsTree(t)
      /\ c \in Call /\ Justified(c, src, b, r) /\ SoundCall(c, src, dst)
  BY DEF Making, Sound
<1>3. PICK p \in Universe : p = CallPath(c)
  BY <1>2 DEF Justified, CallPath
<1>4. Aside(t, u, p) /\ Becomes(c.name, c.record, t[p], u[p]) /\ u \in [Universe -> Entry]
  BY <1>2, <1>3, CallEffect DEF CallPath
<1>5. c.name \in CallNames /\ c.record.path = p
  BY <1>2, <1>3 DEF Call, CallPath
<1>6. ASSUME NEW q \in Universe, q # p PROVE Halfway(u[q], b[q], NewEntry(s, q, rx))
  <2>1. PICK d, e, n : d = t[q] /\ e = u[q] /\ n = NewEntry(s, q, rx)
    OBVIOUS
  <2>2. SameButTime(d, e) /\ (d.kind # "dir" => e = d)
    BY <1>4, <1>6, <2>1 DEF Aside
  <2>3. Halfway(d, b[q], n)
    BY <2>1 DEF OldNew
  <2>4. Halfway(e, b[q], n)
    BY <2>2, <2>3 DEF Halfway, SameButTime
  <2> QED
    BY <2>1, <2>4
<1>7. PICK d, e, n, x : d = t[p] /\ e = u[p] /\ n = NewEntry(s, p, rx) /\ x = c.record
  OBVIOUS
<1>8. Halfway(d, b[p], n) /\ Becomes(c.name, x, d, e) /\ d \in Entry
  BY <1>2, <1>4, <1>7 DEF OldNew
<1>9. CASE c.name \in Deletes
  <2>1. e.kind = "none"
    BY <1>8, <1>9 DEF Becomes, Absent
  <2>2. PICK y \in dst : y.path = p /\ y.kind = x.kind /\ ~ \E z \in src : z.path = p /\ z.kind = y.kind
    BY <1>2, <1>3, <1>7, <1>9 DEF SoundCall, Unwanted
  <2>3. b[p].kind = y.kind
    BY <1>1, <2>2, ListingFacts, EntryOfFacts
  <2>4. n.kind # "none" => \E z \in src : z.path = p /\ z.kind = n.kind
    <3>1. Listed(s, p, rx) => \E z \in src : z.path = p /\ z.kind = s[p].kind
      BY <1>1, ListingFacts
    <3> QED
      BY <1>7, <3>1 DEF NewEntry, Absent
  <2>5. Halfway(e, b[p], n)
    BY <2>1, <2>2, <2>3, <2>4 DEF Halfway
  <2> QED
    BY <1>6, <1>7, <2>5 DEF OldNew
<1>10. CASE c.name \notin Deletes
  <2>1. x \in src /\ x.path = p
    BY <1>2, <1>5, <1>7, <1>10 DEF SoundCall
  <2>2. Listed(s, p, rx) /\ s[p] = EntryOf(x)
    BY <1>1, <2>1, ListingFacts
  <2>3. n = EntryOf(x)
    BY <1>7, <2>2 DEF NewEntry
  <2>4. n.kind = x.kind /\ n.data = x.data /\ (x.kind = "dir" => x.data = 0)
    BY <1>1, <2>2, <2>3, EntryOfFacts DEF IsNormal
  <2>5. c.name # "rename" => x.kind # "file"
    BY <1>2, <1>5, <1>7, <1>10 DEF Justified, CallNames, Deletes, Makes
  <2>6. \/ e.kind = "none"
        \/ e.kind = d.kind /\ e.data = d.data
        \/ e.kind = n.kind /\ e.data = n.data
    <3>1. c.name = "mkdir" => (e.kind = "dir" /\ e.data = 0 /\ x.kind = "dir") \/ e = d
      BY <1>2, <1>7, <1>8 DEF Becomes, Justified, Makes
    <3>2. c.name \in {"open", "chmod"} => e.kind = d.kind /\ e.data = d.data
      BY <1>8 DEF Becomes
    <3>3. c.name = "settle" => e.kind = d.kind /\ e.data = d.data
      BY <1>8 DEF Becomes, Entry
    <3>4. c.name = "utimes" => e.kind = d.kind /\ e.data = d.data
      BY <1>8 DEF Becomes, Entry
    <3>5. c.name = "clear" => e.kind = "none"
      BY <1>8 DEF Becomes
    <3>6. c.name = "rename" => e = n
      BY <1>8, <2>3 DEF Becomes
    <3>7. ASSUME c.name = "symlink" PROVE e.kind = x.kind /\ e.data = x.data
      <4>1. e = [EntryOf(x) EXCEPT !.mode = 7, !.mtime = 0]
        BY <1>8, <3>7 DEF Becomes
      <4> QED
        BY <4>1 DEF EntryOf
    <3> QED
      BY <1>5, <1>10, <2>4, <3>1, <3>2, <3>3, <3>4, <3>5, <3>6, <3>7 DEF CallNames, Deletes
  <2>7. n.kind = "file" => e = n
    BY <1>8, <2>3, <2>4, <2>5 DEF Becomes
  <2>8. Halfway(e, b[p], n)
    BY <1>8, <2>6, <2>7 DEF Halfway
  <2> QED
    BY <1>6, <1>7, <2>8 DEF OldNew
<1> QED
  BY <1>9, <1>10

-----------------------------------------------------------------------------
(***************************************************************************)
(* What an attempt has reached when nothing of it is left.                 *)
(***************************************************************************)
Spared(t, b, r) == \A q \in Universe : Untouchable(b, q, r) => t[q] = b[q]

\* The destination lists the paths of the source, each with the source's record
\* but for the time of a directory both listed before.
LEMMA NothingLeft ==
    ASSUME NEW s, NEW b, NEW r, NEW rx, NEW src, NEW dst, Setting(s, b, r, rx, src, dst),
           NEW t \in [Universe -> Entry], IsTree(t), Spared(t, b, r),
           Progress({}, {}, t, src, dst, b, r)
    PROVE  /\ \A x \in src : /\ RecordAt(t, x.path) \in Scan(t, r)
                             /\ SameButTime(x, t[x.path])
                             /\ x.kind # "dir" \/ x \notin dst => t[x.path] = EntryOf(x)
                             /\ t[x.path] = EntryOf(x) => x \in Scan(t, r)
           /\ \A z \in Scan(t, r) : \E x \in src : x.path = z.path /\ z = RecordAt(t, x.path)
<1>1. /\ s \in [Universe -> Entry] /\ IsTree(s) /\ src = Scan(s, rx)
      /\ b \in [Universe -> Entry] /\ IsTree(b) /\ dst = Scan(b, r) /\ r \subseteq rx
  BY DEF Setting
<1>2. /\ \A x \in src : /\ x \in Record /\ x.path \in Universe /\ x.kind \in Kinds
                        /\ Listed(s, x.path, rx) /\ s[x.path] = EntryOf(x)
      /\ \A p \in Universe : Listed(s, p, rx) => \E x \in src : x.path = p
  BY <1>1, ListingFacts
<1>3. ASSUME NEW x \in src
      PROVE  /\ SameButTime(x, t[x.path])
             /\ x.kind # "dir" \/ x \notin dst => t[x.path] = EntryOf(x)
  <2>1. CASE x \in dst
    BY <2>1 DEF Progress, Kept
  <2>2. CASE x \notin dst
    <3>1. t[x.path] = EntryOf(x)
      BY <2>2 DEF Progress, Written, DueUpsert, DueOp
    <3> QED
      BY <3>1, EntryOfFacts
  <2> QED
    BY <2>1, <2>2
<1>4. \A x \in src : t[x.path].kind = s[x.path].kind
  BY <1>2, <1>3, EntryOfFacts DEF SameButTime
<1>5. ASSUME NEW x \in src PROVE Listed(t, x.path, r)
  <2>1. Present(t, x.path)
    BY <1>2, <1>3 DEF Present, SameButTime, Kinds
  <2>2. ASSUME NEW a \in Ancestors(x.path) \cup {x.path} PROVE Managed(t, a, r)
    <3>1. a \in Universe /\ Listed(s, a, rx)
      BY <1>1, <1>2, ListedAncestors
    <3>2. t[a].kind = s[a].kind
      BY <1>2, <1>4, <3>1
    <3>3. Managed(s, a, rx)
      BY <3>1 DEF Listed
    <3> QED
      BY <1>1, <3>2, <3>3 DEF Managed
  <2> QED
    BY <2>1, <2>2 DEF Listed
<1>6. ASSUME NEW x \in src
      PROVE  /\ RecordAt(t, x.path) \in Scan(t, r)
             /\ t[x.path] = EntryOf(x) => x \in Scan(t, r)
  <2>1. RecordAt(t, x.path) \in Scan(t, r)
    BY <1>2, <1>5, ListingFacts
  <2>2. ASSUME t[x.path] = EntryOf(x) PROVE x = RecordAt(t, x.path)
    <3>1. x = [path |-> x.path, kind |-> x.kind, data |-> x.data, mode |-> x.mode, mtime |-> x.mtime]
      BY <1>2 DEF Record
    <3>2. PICK p : p = x.path
      OBVIOUS
    <3>3. t[p].kind = x.kind /\ t[p].data = x.data /\ t[p].mode = x.mode /\ t[p].mtime = x.mtime
      BY <2>2, <3>2 DEF EntryOf
    <3> QED
      BY <3>1, <3>2, <3>3 DEF RecordAt
  <2> QED
    BY <2>1, <2>2
<1>7. ASSUME NEW z \in Scan(t, r) PROVE \E x \in src : x.path = z.path /\ z = RecordAt(t, x.path)
  <2>1. z.path \in Universe /\ Listed(t, z.path, r) /\ z = RecordAt(t, z.path)
    BY ListingFacts
  <2>2. SUFFICES ASSUME \A x \in src : x.path # z.path PROVE FALSE
    BY <2>1
  <2>3. Present(t, z.path) /\ Present(b, z.path)
    BY <2>1, <2>2 DEF Listed, Progress, NothingNew
  <2>4. CASE Listed(b, z.path, r)
    <3>1. PICK y \in dst : y.path = z.path
      BY <1>1, <2>1, <2>4, ListingFacts
    <3> QED
      BY <2>2, <2>3, <3>1 DEF Progress, Removed, DueDelete
  <2>5. CASE ~Listed(b, z.path, r)
    <3>1. Untouchable(b, z.path, r)
      BY <2>3, <2>5 DEF Untouchable
    <3>2. Untouchable(t, z.path, r)
      BY <1>1, <2>1, <3>1, StillLeftOut DEF Spared
    <3> QED
      BY <2>1, <3>2 DEF Untouchable
  <2> QED
    BY <2>4, <2>5
<1> QED
  BY <1>3, <1>6, <1>7

\* So the listings agree but for those times, and entirely when they agreed
\* so far before.
LEMMA AttemptReaches ==
    ASSUME NEW s, NEW b, NEW r, NEW rx, NEW src, NEW dst, Setting(s, b, r, rx, src, dst),
           NEW t \in [Universe -> Entry], IsTree(t), Spared(t, b, r),
           Progress({}, {}, t, src, dst, b, r)
    PROVE  /\ SameListing(Scan(t, r), src)
           /\ \A x \in src : x \notin dst => x \in Scan(t, r)
           /\ SameListing(src, dst) => Scan(t, r) = src
<1>1. PICK T : T = Scan(t, r)
  OBVIOUS
<1>2. /\ \A x \in src : /\ RecordAt(t, x.path) \in T
                        /\ SameButTime(x, t[x.path])
                        /\ x.kind # "dir" \/ x \notin dst => t[x.path] = EntryOf(x)
                        /\ t[x.path] = EntryOf(x) => x \in T
      /\ \A z \in T : \E x \in src : x.path = z.path /\ z = RecordAt(t, x.path)
  BY <1>1, NothingLeft
<1>3. \A x \in src : x \in Record
  BY ListingFacts DEF Setting
<1>4. ASSUME NEW x \in src, NEW z, z = RecordAt(t, x.path)
      PROVE  (IF x.kind = "dir" THEN [x EXCEPT !.mtime = 0] ELSE x)
             = (IF z.kind = "dir" THEN [z EXCEPT !.mtime = 0] ELSE z)
  <2>1. x = [path |-> x.path, kind |-> x.kind, data |-> x.data, mode |-> x.mode, mtime |-> x.mtime]
    BY <1>3 DEF Record
  <2>2. PICK p, d : p = x.path /\ d = t[p]
    OBVIOUS
  <2>3. z = [path |-> p, kind |-> d.kind, data |-> d.data, mode |-> d.mode, mtime |-> d.mtime]
    BY <1>4, <2>2 DEF RecordAt
  <2>4. x.kind = d.kind /\ x.data = d.data /\ x.mode = d.mode
    BY <1>2, <2>2 DEF SameButTime
  <2>5. x.kind # "dir" => x.mtime = d.mtime
    <3>1. x.kind # "dir" => d = EntryOf(x)
      BY <1>2, <2>2
    <3> QED
      BY <3>1 DEF EntryOf
  <2>6. CASE x.kind # "dir"
    <3>1. x = z
      BY <2>1, <2>2, <2>3, <2>4, <2>5, <2>6
    <3> QED
      BY <3>1
  <2>7. CASE x.kind = "dir"
    <3>1. [x EXCEPT !.mtime = 0] = [path |-> p, kind |-> "dir", data |-> d.data, mode |-> d.mode, mtime |-> 0]
      BY <2>1, <2>2, <2>4, <2>7
    <3>2. [z EXCEPT !.mtime = 0] = [path |-> p, kind |-> "dir", data |-> d.data, mode |-> d.mode, mtime |-> 0]
      BY <2>3, <2>4, <2>7
    <3>3. z.kind = "dir"
      BY <2>3, <2>4, <2>7
    <3> QED
      BY <2>7, <3>1, <3>2, <3>3
  <2> QED
    BY <2>6, <2>7
<1>5. SameListing(T, src)
  <2>1. ASSUME NEW v \in WithoutDirectoryTimes(src) PROVE v \in WithoutDirectoryTimes(T)
    <3>1. PICK x \in src : v = IF x.kind = "dir" THEN [x EXCEPT !.mtime = 0] ELSE x
      BY DEF WithoutDirectoryTimes
    <3>2. PICK z : z = RecordAt(t, x.path)
      OBVIOUS
    <3>3. z \in T /\ v = IF z.kind = "dir" THEN [z EXCEPT !.mtime = 0] ELSE z
      BY <1>2, <1>4, <3>1, <3>2
    <3> QED
      BY <3>3 DEF WithoutDirectoryTimes
  <2>2. ASSUME NEW v \in WithoutDirectoryTimes(T) PROVE v \in WithoutDirectoryTimes(src)
    <3>1. PICK z \in T : v = IF z.kind = "dir" THEN [z EXCEPT !.mtime = 0] ELSE z
      BY DEF WithoutDirectoryTimes
    <3>2. PICK x \in src : z = RecordAt(t, x.path)
      BY <1>2
    <3>3. v = IF x.kind = "dir" THEN [x EXCEPT !.mtime = 0] ELSE x
      BY <1>4, <3>1, <3>2
    <3> QED
      BY <3>3 DEF WithoutDirectoryTimes
  <2> QED
    BY <2>1, <2>2 DEF SameListing
<1>6. ASSUME SameListing(src, dst) PROVE T = src
  <2>1. \A x \in src : t[x.path] = EntryOf(x)
    BY <1>2, <1>6 DEF Progress, Settling
  <2>2. \A x \in src : x \in T
    BY <1>2, <2>1
  <2>3. ASSUME NEW z \in T PROVE z \in src
    <3>1. PICK x \in src : x.path = z.path
      BY <1>2
    <3>2. x \in T
      BY <2>2
    <3>3. x = z
      BY <1>1, <3>1, <3>2, ListingFacts
    <3> QED
      BY <3>3
  <2> QED
    BY <2>2, <2>3
<1> QED
  BY <1>1, <1>2, <1>5, <1>6

-----------------------------------------------------------------------------
\* The parent of a path is above it: a child of a directory lies below it.
LEMMA ChildFacts ==
    ASSUME NEW p \in Universe, NEW q \in Universe, Parent(q) = p
    PROVE  p \in Ancestors(q)
<1>1. /\ p \in Seq(Nat) /\ Len(p) \in Nat \ {0} /\ q \in Seq(Nat) /\ Len(q) \in Nat \ {0}
  BY UniverseAssumption DEF RelativePath
<1>2. Len(q) > 1
  <2>1. PICK n : n = Len(q)
    OBVIOUS
  <2>2. n # 1
    <3>1. SUFFICES ASSUME n = 1 PROVE FALSE
      OBVIOUS
    <3>2. p = SubSeq(q, 1, 0)
      BY <2>1, <3>1 DEF Parent
    <3>3. Len(SubSeq(q, 1, 0)) = 0
      BY <1>1
    <3> QED
      BY <1>1, <3>2, <3>3
  <2>3. n \in Nat \ {0}
    BY <1>1, <2>1
  <2>4. n > 1
    BY <2>2, <2>3
  <2> QED
    BY <2>1, <2>4
<1> QED
  BY <1>2, AncestorFacts

\* A call fails only where the parent cannot be written or something that is
\* left out is in the way.
LEMMA NotBlocked ==
    ASSUME NEW s, NEW b, NEW r, NEW rx, NEW src, NEW dst, Setting(s, b, r, rx, src, dst),
           NEW t, NEW c, NEW ch, NEW R, Making(t, c, ch, R, src, dst, b, r),
           Spared(t, b, r), NEW p \in Universe, p = CallPath(c), ParentWritable(t, p),
           \A q \in Universe : StartsWith(q, p) => ~Untouchable(t, q, r)
    PROVE  Succeeds(t, c)
<1>1. /\ s \in [Universe -> Entry] /\ IsTree(s) /\ src = Scan(s, rx)
      /\ b \in [Universe -> Entry] /\ IsTree(b) /\ dst = Scan(b, r) /\ r \subseteq rx
  BY DEF Setting
<1>2. /\ \A x \in src : x.path \in Universe /\ Listed(s, x.path, rx) /\ x.kind \in Kinds
      /\ \A x, y \in src : x.path = y.path => x = y
      /\ \A q \in Universe : Listed(s, q, rx) => \E x \in src : x.path = q /\ x.kind = s[q].kind
  BY <1>1, ListingFacts
<1>3. /\ \A y \in dst : Listed(b, y.path, r) /\ b[y.path].kind = y.kind /\ y.kind \in Kinds
      /\ \A q \in Universe : Listed(b, q, r) => \E y \in dst : y.path = q
  BY <1>1, ListingFacts, EntryOfFacts
<1>4. /\ t \in [Universe -> Entry] /\ IsTree(t)
      /\ c \in Call /\ Justified(c, src, b, r) /\ SoundCall(c, src, dst)
      /\ HeadLast(ch, R, c) /\ HeadReady(t, c)
  BY DEF Making, Sound
<1>5. PICK K : K = R \cup {c}
  OBVIOUS
<1>6. Progress(ch, K, t, src, dst, b, r) /\ c \in K
  BY <1>5 DEF Making
<1>7. c.name \in CallNames /\ c.record.path = p
  BY <1>4 DEF Call, CallPath
<1>8. \A q \in Universe : StartsWith(q, p) => ~Untouchable(b, q, r)
  BY <1>1, StillLeftOut DEF Spared
<1>9. ~Untouchable(b, p, r)
  <2>1. p \in Seq(Nat)
    BY UniverseAssumption DEF RelativePath
  <2> QED
    BY <1>8, <2>1, PrefixFacts
<1>10. CASE c.name \in Deletes
  <2>1. PICK y \in dst : /\ y.path = p /\ y.kind = c.record.kind
                         /\ ~ \E x \in src : x.path = p /\ x.kind = y.kind
    BY <1>4, <1>10 DEF SoundCall, Unwanted
  <2>2. c.name = "rmdir" <=> y.kind = "dir"
    BY <1>4, <1>10, <2>1 DEF SoundCall
  <2>3. DueDelete(ch, K, p)
    BY <1>6, <1>10 DEF DueDelete
  <2>4. t[p].kind = y.kind /\ \A a \in Ancestors(p) : t[a].kind = "dir"
    BY <1>3, <1>6, <2>1, <2>3 DEF Progress, OnItsWay
  <2>5. ~IsProtected(p)
    BY <1>3, <2>1 DEF Listed, Managed
  <2>6. CanModify(t, p)
    BY <2>4, <2>5 DEF CanModify, Resolves
  <2>7. ASSUME c.name = "rmdir" PROVE Children(t, p) = {}
    <3>1. SUFFICES ASSUME NEW q \in Universe, Present(t, q), Parent(q) = p PROVE FALSE
      BY DEF Children
    <3>2. p \in Ancestors(q) /\ StartsWith(q, p) /\ q # p
      BY <3>1, ChildFacts, AncestorAbove
    <3>3. \A x \in src : x.path # q
      <4>1. ASSUME NEW x \in src, x.path = q PROVE FALSE
        <5>1. s[p].kind = "dir" /\ Listed(s, p, rx)
          BY <1>1, <1>2, <3>2, <4>1, ListedAncestors
        <5>2. \E z \in src : z.path = p /\ z.kind = "dir"
          BY <1>2, <5>1
        <5> QED
          BY <2>1, <2>2, <2>7, <5>2
      <4> QED
        BY <4>1
    <3>4. Present(b, q)
      BY <1>6, <3>1, <3>3 DEF Progress, NothingNew
    <3>5. Listed(b, q, r)
      BY <1>8, <3>2, <3>4 DEF Untouchable
    <3>6. PICK z \in dst : z.path = q
      BY <1>3, <3>5
    <3>7. DueDelete(ch, K, q)
      BY <1>6, <3>1, <3>3, <3>6 DEF Progress, Removed
    <3>8. \/ \E o \in ch : StartsWith(Path(o), p)
          \/ \E d \in R : StartsWith(CallPath(d), p) /\ CallPath(d) # p
      BY <1>5, <3>2, <3>7 DEF DueDelete
    <3> QED
      BY <1>4, <2>7, <3>8 DEF HeadLast, Closes
  <2>8. c.name = "unlink" => y.kind \in {"file", "symlink"}
    BY <1>3, <2>2 DEF Kinds
  <2> QED
    BY <1>7, <1>10, <2>2, <2>4, <2>6, <2>7, <2>8 DEF Succeeds, Deletes
<1>11. CASE c.name \notin Deletes
  <2>1. PICK x \in src : x = c.record /\ x.path = p
    BY <1>4, <1>7, <1>11 DEF SoundCall
  <2>2. ~IsProtected(p)
    BY <1>2, <2>1 DEF Listed, Managed
  <2>3. ASSUME NEW a \in Ancestors(p) PROVE t[a].kind = "dir"
    <3>1. a \in Universe /\ s[a].kind = "dir" /\ Listed(s, a, rx)
      BY <1>1, <1>2, <2>1, ListedAncestors
    <3>2. PICK z \in src : z.path = a /\ z.kind = "dir"
      BY <1>2, <3>1
    <3>3. a # p /\ ~NotAfter(p, a)
      BY AncestorAbove
    <3>4. ~DueOp(ch, z)
      BY <1>4, <3>2, <3>3 DEF DueOp, HeadLast, Path
    <3>5. ~ \E d \in K : d.name = "open" /\ d.record = z
      BY <1>4, <1>5, <1>7, <3>2, <3>3 DEF HeadLast, CallPath
    <3> QED
      BY <1>6, <3>2, <3>4, <3>5 DEF Progress, Opened
  <2>4. Resolves(t, p) /\ CanModify(t, p)
    BY <2>2, <2>3 DEF Resolves, CanModify
  <2>5. ~DueDelete(ch, K, p)
    BY <1>4, <1>5, <1>11 DEF DueDelete, HeadLast
  <2>6. t[p].kind \in {"none", x.kind}
    BY <1>6, <1>9, <2>1, <2>5 DEF Progress, KindInv
  <2>7. CASE c.name = "mkdir"
    BY <1>7, <2>4, <2>7 DEF Succeeds
  <2>8. CASE c.name = "rename"
    <3>1. x.kind = "file"
      BY <1>4, <2>1, <2>8 DEF Justified
    <3> QED
      BY <1>7, <2>4, <2>6, <2>8, <3>1 DEF Succeeds
  <2>9. CASE c.name = "clear"
    <3>1. x.kind = "symlink"
      BY <1>4, <2>1, <2>9 DEF Justified
    <3> QED
      BY <1>7, <2>4, <2>6, <2>9, <3>1 DEF Succeeds
  <2>10. CASE c.name = "symlink"
    BY <1>4, <1>7, <2>4, <2>10 DEF Succeeds, HeadReady
  <2>11. CASE c.name = "utimes"
    <3>1. t[p] = [EntryOf(x) EXCEPT !.mtime = 0] /\ x.kind = "symlink"
      BY <1>4, <2>1, <2>11 DEF HeadReady, Justified
    <3>2. t[p].kind = "symlink"
      BY <3>1 DEF EntryOf
    <3> QED
      BY <1>7, <2>4, <2>11, <3>2 DEF Succeeds
  <2>12. CASE c.name = "open"
    <3>1. t[p].kind # "none" /\ x.kind = "dir"
      BY <1>4, <2>1, <2>12 DEF HeadReady, Justified, Makes
    <3> QED
      BY <1>7, <2>4, <2>6, <2>12, <3>1 DEF Succeeds
  <2>13. CASE c.name \in {"chmod", "settle"}
    <3>1. x.kind = "dir"
      BY <1>4, <2>1, <2>13 DEF Justified, Makes
    <3>2. ~DueOp(ch, x)
      BY <1>4, <2>1, <2>13 DEF DueOp, HeadLast, Path, Deletes
    <3>3. ~ \E d \in K : d.name = "open" /\ d.record = x
      BY <1>4, <1>5, <2>13 DEF HeadLast
    <3>4. t[p].kind = "dir"
      BY <1>6, <2>1, <3>1, <3>2, <3>3 DEF Progress, Opened
    <3> QED
      BY <1>7, <2>4, <2>13, <3>4 DEF Succeeds
  <2> QED
    BY <1>7, <1>11, <2>7, <2>8, <2>9, <2>10, <2>11, <2>12, <2>13 DEF CallNames, Deletes
<1> QED
  BY <1>10, <1>11

-----------------------------------------------------------------------------
(***************************************************************************)
(* The stack of directories and the order of the calls.                    *)
(***************************************************************************)
\* What may come after a call, at the same path.
After(name) ==
    CASE name = "rmdir"   -> {"rename", "clear", "symlink", "utimes"}
      [] name = "clear"   -> {"symlink", "utimes"}
      [] name = "symlink" -> {"utimes"}
      [] name = "mkdir"   -> {"open"}
      [] name = "chmod"   -> {"settle"}
      [] OTHER            -> {}

Chain(c) ==
    \A i, j \in 1..Len(c) :
        i < j => c[j].name \in After(c[i].name) /\ CallPath(c[j]) = CallPath(c[i])

\* A link is made directly after its path is cleared, and a directory opened
\* directly after mkdir.
Linked(c, i) ==
    /\ c[i].name = "symlink" => i > 1 /\ c[i - 1].name = "clear"
    /\ c[i].name = "open" => i > 1 /\ c[i - 1].name = "mkdir"

Waiting(e) ==
    /\ e.actions # <<>> /\ Chain(e.actions)
    /\ \A i \in 1..Len(e.actions) :
          Linked(e.actions, i) /\ e.actions[i].name \notin {"mkdir", "open", "unlink"}

Nested(pd) == \A i, j \in 1..Len(pd) : i < j => Below(pd[j].path, pd[i].path)

\* The calls under way are not above a directory that waits, nor at one, unless
\* they make it.
Apart(pd, cs) ==
    \A i \in 1..Len(cs), k \in 1..Len(pd) :
        \/ ~StartsWith(pd[k].path, CallPath(cs[i]))
        \/ /\ cs[i].name \in {"mkdir", "open"} /\ pd[k].path = CallPath(cs[i])
           /\ \A j \in 1..Len(pd[k].actions) : pd[k].actions[j].name \in {"chmod", "settle"}

\* Only an upsert that replaces what is removed is left at the path of a call.
AheadOfStack(ch, pd) ==
    \A k \in 1..Len(pd), o \in ch : Path(o) = pd[k].path =>
        o.op # "Delete" /\ \A j \in 1..Len(pd[k].actions) : pd[k].actions[j].name = "rmdir"

AheadOfCalls(ch, cs) ==
    \A i \in 1..Len(cs), o \in ch :
        /\ NotAfter(CallPath(cs[i]), Path(o))
        /\ Path(o) = CallPath(cs[i]) => o.op # "Delete" /\ cs[i].name \in Deletes

StackOK(ch, pd, cs) ==
    /\ Chain(cs) /\ \A i \in 1..Len(cs) : i > 1 => Linked(cs, i)
    /\ \A k \in 1..Len(pd) : Waiting(pd[k])
    /\ Nested(pd) /\ Apart(pd, cs) /\ AheadOfStack(ch, pd) /\ AheadOfCalls(ch, cs)

\* The directories that wait, each with calls at its path.
Stacked(pd) ==
    /\ pd \in Seq(Deferred)
    /\ \A k \in 1..Len(pd) : \A j \in 1..Len(pd[k].actions) :
          CallPath(pd[k].actions[j]) = pd[k].path

\* The types of what waits.
LEMMA StackedFacts ==
    ASSUME NEW pd, Stacked(pd), NEW k \in 1..Len(pd)
    PROVE  /\ pd[k] \in Deferred /\ pd[k].path \in Universe /\ pd[k].path \in Seq(Nat)
           /\ pd[k].actions \in Seq(Call) /\ Len(pd[k].actions) \in Nat
<1>1. pd[k] \in Deferred
  BY DEF Stacked
<1>2. pd[k].path \in Universe /\ pd[k].actions \in Seq(Call)
  BY <1>1 DEF Deferred
<1> QED
  BY <1>1, <1>2, UniverseAssumption DEF RelativePath

Shorter(pd, cs, ds) == Left(pd, cs) = Left(pd, ds) \cup {cs[1]}

\* A call that is made leaves the rest in order.
LEMMA TailOK ==
    ASSUME NEW ch, NEW pd, NEW cs \in Seq(Call), cs # <<>>, StackOK(ch, pd, cs), NEW ds, ds = Tail(cs)
    PROVE  StackOK(ch, pd, ds) /\ Shorter(pd, cs, ds)
<1>1. Len(cs) \in Nat \ {0} /\ 1 \in 1..Len(cs)
  OBVIOUS
<1>2. /\ ds \in Seq(Call) /\ Len(ds) = Len(cs) - 1
      /\ \A i \in 1..Len(ds) : i + 1 \in 1..Len(cs) /\ ds[i] = cs[i + 1]
  BY <1>1
<1>3. Chain(ds)
  <2>1. ASSUME NEW i \in 1..Len(ds), NEW j \in 1..Len(ds), i < j
        PROVE  ds[j].name \in After(ds[i].name) /\ CallPath(ds[j]) = CallPath(ds[i])
    <3>1. i + 1 \in 1..Len(cs) /\ j + 1 \in 1..Len(cs) /\ i + 1 < j + 1
          /\ ds[i] = cs[i + 1] /\ ds[j] = cs[j + 1]
      BY <1>2, <2>1
    <3> QED
      BY <3>1 DEF StackOK, Chain
  <2> QED
    BY <2>1 DEF Chain
<1>4. ASSUME NEW i \in 1..Len(ds), i > 1 PROVE Linked(ds, i)
  <2>1. /\ i + 1 \in 1..Len(cs) /\ i + 1 > 1 /\ ds[i] = cs[i + 1]
        /\ i - 1 \in 1..Len(ds) /\ ds[i - 1] = cs[(i - 1) + 1] /\ (i - 1) + 1 = (i + 1) - 1
    <3>1. i - 1 \in 1..Len(ds)
      BY <1>1, <1>2, <1>4
    <3> QED
      BY <1>2, <1>4, <3>1
  <2>2. Linked(cs, i + 1)
    BY <2>1 DEF StackOK
  <2> QED
    BY <1>4, <2>1, <2>2 DEF Linked
<1>5. Apart(pd, ds) /\ AheadOfCalls(ch, ds)
  BY <1>2 DEF StackOK, Apart, AheadOfCalls
<1>6. Calls(cs) = Calls(ds) \cup {cs[1]}
  <2>1. ASSUME NEW d \in Calls(cs) PROVE d \in Calls(ds) \cup {cs[1]}
    <3>1. PICK i \in 1..Len(cs) : d = cs[i]
      BY DEF Calls
    <3>2. i # 1 => i - 1 \in 1..Len(ds) /\ (i - 1) + 1 = i
      BY <1>1, <1>2
    <3>3. i # 1 => ds[i - 1] = cs[i]
      BY <1>2, <3>2
    <3> QED
      BY <3>1, <3>2, <3>3 DEF Calls
  <2>2. ASSUME NEW d \in Calls(ds) PROVE d \in Calls(cs)
    BY <1>2 DEF Calls
  <2>3. cs[1] \in Calls(cs)
    BY <1>1 DEF Calls
  <2> QED
    BY <2>1, <2>2, <2>3
<1>7. Shorter(pd, cs, ds)
  BY <1>6 DEF Left, Shorter
<1> QED
  BY <1>3, <1>4, <1>5, <1>7 DEF StackOK

\* So nothing at the path of the call that is made follows it out of order.
LEMMA HeadIsLast ==
    ASSUME NEW ch, NEW pd, Stacked(pd), NEW cs \in Seq(Call), cs # <<>>, StackOK(ch, pd, cs),
           NEW ds, ds = Tail(cs), NEW c, c = cs[1],
           CallPath(c) \in Seq(Nat),
           c.name \in Closes => \A o \in ch : ~StartsWith(Path(o), CallPath(c))
    PROVE  HeadLast(ch, Left(pd, ds), c)
<1>1. Len(cs) \in Nat \ {0} /\ 1 \in 1..Len(cs)
  OBVIOUS
<1>2. /\ ds \in Seq(Call) /\ Len(ds) = Len(cs) - 1
      /\ \A i \in 1..Len(ds) : i + 1 \in 1..Len(cs) /\ ds[i] = cs[i + 1] /\ 1 < i + 1
  BY <1>1
<1>3. \A d \in Calls(ds) : d.name \in After(c.name) /\ CallPath(d) = CallPath(c)
  BY <1>1, <1>2 DEF StackOK, Chain, Calls
<1>4. ASSUME NEW k \in 1..Len(pd), NEW d \in Calls(pd[k].actions)
      PROVE  /\ CallPath(d) = pd[k].path /\ d.name \notin {"mkdir", "open", "unlink"}
             /\ \/ ~StartsWith(CallPath(d), CallPath(c))
                \/ c.name \in {"mkdir", "open"} /\ d.name \in {"chmod", "settle"}
  <2>1. PICK j \in 1..Len(pd[k].actions) : d = pd[k].actions[j]
    BY DEF Calls
  <2>2. CallPath(d) = pd[k].path /\ d.name \notin {"mkdir", "open", "unlink"}
    BY <2>1 DEF Stacked, StackOK, Waiting
  <2>3. \/ ~StartsWith(pd[k].path, CallPath(c))
        \/ c.name \in {"mkdir", "open"} /\ d.name \in {"chmod", "settle"}
    BY <1>1, <2>1 DEF StackOK, Apart
  <2> QED
    BY <2>2, <2>3
<1>5. \A d \in Left(pd, ds) : d \in Calls(ds) \/ \E k \in 1..Len(pd) : d \in Calls(pd[k].actions)
  BY DEF Left
<1>6. StartsWith(CallPath(c), CallPath(c))
  BY PrefixFacts
<1>8. /\ "open" \in After(c.name) => c.name = "mkdir"
      /\ c.name \in Finals => After(c.name) = {}
      /\ After(c.name) \cap Deletes = {}
  BY DEF After, Deletes, Finals
<1>9. \A o \in ch : /\ NotAfter(CallPath(c), Path(o))
                    /\ Path(o) = CallPath(c) => o.op # "Delete" /\ c.name \in Deletes
  BY <1>1 DEF StackOK, AheadOfCalls
<1>10. \A d \in Left(pd, ds) : d.name \in Deletes => CallPath(d) # CallPath(c)
  BY <1>3, <1>4, <1>5, <1>6, <1>8 DEF Deletes
<1>11. \A d \in Left(pd, ds) : d.name = "open" => CallPath(d) = CallPath(c) /\ c.name = "mkdir"
  BY <1>3, <1>4, <1>5, <1>8, SMTT(30)
<1>12. c.name \in Finals => \A d \in Left(pd, ds) : CallPath(d) # CallPath(c)
  BY <1>3, <1>4, <1>5, <1>6, <1>8 DEF Finals
<1>13. c.name \in Closes =>
          \A d \in Left(pd, ds) : StartsWith(CallPath(d), CallPath(c)) => CallPath(d) = CallPath(c)
  BY <1>3, <1>4, <1>5 DEF Closes
<1> QED
  BY <1>9, <1>10, <1>11, <1>12, <1>13 DEF HeadLast

SameLeft(qd, ds, pd) == Left(qd, ds) = Left(pd, <<>>)

\* Finishing the top of the stack.
LEMMA PopOK ==
    ASSUME NEW ch, NEW pd, Stacked(pd), pd # <<>>, StackOK(ch, pd, <<>>),
           NEW n, n = Len(pd), NEW qd, qd = SubSeq(pd, 1, n - 1), NEW ds, ds = pd[n].actions,
           \A o \in ch : NotAfter(pd[n].path, Path(o)) /\ ~StartsWith(Path(o), pd[n].path),
           \A o \in ch : Path(o) \in Seq(Nat)
    PROVE  StackOK(ch, qd, ds) /\ SameLeft(qd, ds, pd)
<1>1. pd \in Seq(Deferred) /\ n \in Nat \ {0} /\ n \in 1..Len(pd)
  BY DEF Stacked
<1>2. PICK m \in Nat : m = n - 1
  BY <1>1, SMTT(30)
<1>3. qd = SubSeq(pd, 1, m) /\ m <= Len(pd) /\ n = m + 1
  BY <1>1, <1>2
<1>4. /\ qd \in Seq(Deferred) /\ Len(qd) = m
      /\ \A k \in 1..m : k \in 1..Len(pd) /\ qd[k] = pd[k] /\ k < n
  BY <1>1, <1>2, <1>3
<1>5. /\ pd[n].path \in Seq(Nat) /\ ds \in Seq(Call) /\ Len(ds) \in Nat /\ Waiting(pd[n])
      /\ \A k \in 1..Len(pd) : pd[k].path \in Seq(Nat)
  BY <1>1, StackedFacts DEF StackOK
<1>6. \A i \in 1..Len(ds) : CallPath(ds[i]) = pd[n].path
  BY <1>1, <1>5 DEF Stacked
<1>7. Chain(ds) /\ \A i \in 1..Len(ds) : Linked(ds, i)
  BY <1>5 DEF Waiting
<1>8. (\A k \in 1..Len(qd) : Waiting(qd[k])) /\ Nested(qd) /\ AheadOfStack(ch, qd)
  <2>1. \A k \in 1..Len(qd) : Waiting(qd[k])
    BY <1>4 DEF StackOK
  <2>2. Nested(qd)
    BY <1>4 DEF StackOK, Nested
  <2>3. AheadOfStack(ch, qd)
    <3>1. AheadOfStack(ch, pd)
      BY DEF StackOK
    <3>2. \A k \in 1..Len(qd) : k \in 1..Len(pd) /\ qd[k] = pd[k]
      BY <1>4
    <3> QED
      BY <3>1, <3>2 DEF AheadOfStack
  <2> QED
    BY <2>1, <2>2, <2>3
<1>9. Apart(qd, ds)
  <2>1. ASSUME NEW k \in 1..Len(qd) PROVE ~StartsWith(qd[k].path, pd[n].path)
    <3>1. Below(pd[n].path, pd[k].path) /\ pd[k].path \in Seq(Nat) /\ qd[k] = pd[k]
      BY <1>1, <1>4, <1>5 DEF StackOK, Nested
    <3> QED
      BY <1>5, <3>1, PrefixFacts DEF Below
  <2> QED
    BY <1>6, <2>1 DEF Apart
<1>10. AheadOfCalls(ch, ds)
  <2>1. \A o \in ch : Path(o) # pd[n].path
    BY <1>5, PrefixFacts
  <2> QED
    BY <1>6, <2>1 DEF AheadOfCalls
<1>11. Left(qd, ds) = Left(pd, <<>>)
  <2>1. Calls(<<>>) = {}
    BY DEF Calls
  <2>2. \A k \in 1..Len(pd) : k \in 1..m \/ k = n
    BY <1>1, <1>3
  <2>3. ASSUME NEW d \in Left(qd, ds) PROVE d \in Left(pd, <<>>)
    BY <1>1, <1>4 DEF Left
  <2>4. ASSUME NEW d \in Left(pd, <<>>) PROVE d \in Left(qd, ds)
    BY <1>4, <2>1, <2>2 DEF Left
  <2> QED
    BY <2>3, <2>4
<1> QED
  BY <1>7, <1>8, <1>9, <1>10, <1>11 DEF StackOK, SameLeft

\* The names of the calls of one operation.
NamesLinked(names) ==
    /\ Len(names) \in Nat
    /\ \A i, j \in 1..Len(names) : i < j => names[j] \in After(names[i])
    /\ \A i \in 1..Len(names) :
          /\ names[i] = "symlink" => i > 1 /\ names[i - 1] = "clear"
          /\ names[i] = "open" => i > 1 /\ names[i - 1] = "mkdir"

\* The calls of one operation, by name.
CallsAs(c, names, x) ==
    /\ Len(c) = Len(names) /\ Len(names) \in Nat
    /\ \A i \in 1..Len(names) : c[i].name = names[i] /\ c[i].record = x
    /\ Chain(c) /\ \A i \in 1..Len(names) : Linked(c, i)
    /\ \A g \in Calls(c) : \E i \in 1..Len(names) : g = c[i]
    /\ \A i \in 1..Len(names) : c[i] \in Calls(c)

\* The calls of an operation have its names, in their order, and its record.
LEMMA CallsForFacts ==
    ASSUME NEW names, NamesLinked(names), NEW x, NEW d, d = CallsFor(names, x)
    PROVE  CallsAs(d, names, x)
<1>0. PICK m \in Nat : m = Len(names)
  BY DEF NamesLinked
<1>1. d = [i \in 1..m |-> [name |-> names[i], record |-> x]]
  BY <1>0 DEF CallsFor
<1>2. Len(d) = m
  BY <1>1
<1>3. ASSUME NEW i \in 1..m PROVE d[i].name = names[i] /\ d[i].record = x /\ CallPath(d[i]) = x.path
  <2>1. PICK g : g = [name |-> names[i], record |-> x]
    OBVIOUS
  <2>2. d[i] = g
    BY <1>1, <2>1
  <2>3. g.name = names[i] /\ g.record = x
    BY <2>1
  <2> QED
    BY <2>2, <2>3 DEF CallPath
<1>4. Chain(d)
  BY <1>0, <1>2, <1>3 DEF Chain, NamesLinked
<1>5. ASSUME NEW i \in 1..m PROVE Linked(d, i)
  <2>1. i > 1 => i - 1 \in 1..m
    OBVIOUS
  <2> QED
    BY <1>0, <1>3, <2>1 DEF Linked, NamesLinked
<1>6. /\ \A g \in Calls(d) : \E i \in 1..m : g = d[i]
      /\ \A i \in 1..m : d[i] \in Calls(d)
  BY <1>2 DEF Calls
<1> QED
  BY <1>0, <1>2, <1>3, <1>4, <1>5, <1>6 DEF CallsAs

\* `apply`, by the kind of the operation.
LEMMA ApplyCases ==
    ASSUME NEW o, o.op \in OperationKinds
    PROVE  \/ o.op = "Delete" /\ o.record.kind = "dir"
              /\ ImmediateCalls(o) = <<>> /\ DeferredCalls(o) = <<"rmdir">>
           \/ o.op = "Delete" /\ o.record.kind # "dir"
              /\ ImmediateCalls(o) = <<"unlink">> /\ DeferredCalls(o) = <<>>
           \/ o.op = "UpsertDirectory"
              /\ ImmediateCalls(o) = <<"mkdir", "open">> /\ DeferredCalls(o) = <<"chmod", "settle">>
           \/ o.op = "UpsertFile" /\ ReplacingDirectory(Path(o))
              /\ ImmediateCalls(o) = <<>> /\ DeferredCalls(o) = <<"rename">>
           \/ o.op = "UpsertFile" /\ ~ReplacingDirectory(Path(o))
              /\ ImmediateCalls(o) = <<"rename">> /\ DeferredCalls(o) = <<>>
           \/ o.op = "UpsertSymlink" /\ ReplacingDirectory(Path(o))
              /\ ImmediateCalls(o) = <<>> /\ DeferredCalls(o) = SymlinkCalls
           \/ o.op = "UpsertSymlink" /\ ~ReplacingDirectory(Path(o))
              /\ ImmediateCalls(o) = SymlinkCalls /\ DeferredCalls(o) = <<>>
<1>1. SymlinkCalls # <<>>
  BY DEF SymlinkCalls
<1>2. <<"rmdir">> # <<>> /\ <<"rename">> # <<>>
  OBVIOUS
<1>3. CASE o.op = "Delete"
  <2>1. CASE o.record.kind = "dir"
    <3>1. DeferredCalls(o) = <<"rmdir">>
      BY <1>3, <2>1 DEF DeferredCalls
    <3>2. ImmediateCalls(o) = <<>>
      BY <1>2, <1>3, <3>1 DEF ImmediateCalls
    <3> QED
      BY <1>3, <2>1, <3>1, <3>2
  <2>2. CASE o.record.kind # "dir"
    <3>1. DeferredCalls(o) = <<>>
      BY <1>3, <2>2 DEF DeferredCalls
    <3>2. ImmediateCalls(o) = <<"unlink">>
      BY <1>3, <3>1 DEF ImmediateCalls
    <3> QED
      BY <1>3, <2>2, <3>1, <3>2
  <2> QED
    BY <2>1, <2>2
<1>4. CASE o.op = "UpsertDirectory"
  <2>1. DeferredCalls(o) = <<"chmod", "settle">>
    BY <1>4 DEF DeferredCalls
  <2>2. ImmediateCalls(o) = <<"mkdir", "open">>
    BY <1>4 DEF ImmediateCalls
  <2> QED
    BY <1>4, <2>1, <2>2
<1>5. CASE o.op = "UpsertFile"
  <2>1. CASE ReplacingDirectory(Path(o))
    <3>1. DeferredCalls(o) = <<"rename">>
      BY <1>5, <2>1 DEF DeferredCalls
    <3>2. ImmediateCalls(o) = <<>>
      BY <1>2, <1>5, <3>1 DEF ImmediateCalls
    <3> QED
      BY <1>5, <2>1, <3>1, <3>2
  <2>2. CASE ~ReplacingDirectory(Path(o))
    <3>1. DeferredCalls(o) = <<>>
      BY <1>5, <2>2 DEF DeferredCalls
    <3>2. ImmediateCalls(o) = <<"rename">>
      BY <1>5, <3>1 DEF ImmediateCalls
    <3> QED
      BY <1>5, <2>2, <3>1, <3>2
  <2> QED
    BY <2>1, <2>2
<1>6. CASE o.op = "UpsertSymlink"
  <2>1. CASE ReplacingDirectory(Path(o))
    <3>1. DeferredCalls(o) = SymlinkCalls
      BY <1>6, <2>1 DEF DeferredCalls
    <3>2. ImmediateCalls(o) = <<>>
      BY <1>1, <1>6, <3>1 DEF ImmediateCalls
    <3> QED
      BY <1>6, <2>1, <3>1, <3>2
  <2>2. CASE ~ReplacingDirectory(Path(o))
    <3>1. DeferredCalls(o) = <<>>
      BY <1>6, <2>2 DEF DeferredCalls
    <3>2. ImmediateCalls(o) = SymlinkCalls
      BY <1>6, <3>1 DEF ImmediateCalls
    <3> QED
      BY <1>6, <2>2, <3>1, <3>2
  <2> QED
    BY <2>1, <2>2
<1> QED
  BY <1>3, <1>4, <1>5, <1>6 DEF OperationKinds

\* The sequences of names that occur.
LEMMA NameShapes ==
    /\ Len(<<>>) = 0 /\ NamesLinked(<<>>)
    /\ \A a : a \notin {"symlink", "open"} =>
          Len(<<a>>) = 1 /\ <<a>>[1] = a /\ NamesLinked(<<a>>)
    /\ Len(<<"mkdir", "open">>) = 2 /\ NamesLinked(<<"mkdir", "open">>)
    /\ <<"mkdir", "open">>[1] = "mkdir" /\ <<"mkdir", "open">>[2] = "open"
    /\ Len(<<"chmod", "settle">>) = 2 /\ NamesLinked(<<"chmod", "settle">>)
    /\ <<"chmod", "settle">>[1] = "chmod" /\ <<"chmod", "settle">>[2] = "settle"
    /\ Len(SymlinkCalls) = 3 /\ NamesLinked(SymlinkCalls)
    /\ SymlinkCalls[1] = "clear" /\ SymlinkCalls[2] = "symlink" /\ SymlinkCalls[3] = "utimes"
<1>1. Len(<<>>) = 0 /\ NamesLinked(<<>>)
  BY DEF NamesLinked
<1>2. ASSUME NEW a, a \notin {"symlink", "open"}
      PROVE  Len(<<a>>) = 1 /\ <<a>>[1] = a /\ NamesLinked(<<a>>)
  BY <1>2 DEF NamesLinked
<1>3. PICK n : n = <<"mkdir", "open">>
  OBVIOUS
<1>4. Len(n) = 2 /\ n[1] = "mkdir" /\ n[2] = "open"
  BY <1>3
<1>5. NamesLinked(n)
  <2>1. \A i \in 1..2 : i = 1 \/ i = 2
    OBVIOUS
  <2>2. n[2] \in After(n[1])
    BY <1>4 DEF After
  <2> QED
    BY <1>4, <2>1, <2>2 DEF NamesLinked
<1>9. PICK k : k = <<"chmod", "settle">>
  OBVIOUS
<1>10. Len(k) = 2 /\ k[1] = "chmod" /\ k[2] = "settle"
  BY <1>9
<1>11. NamesLinked(k)
  <2>1. \A i \in 1..2 : i = 1 \/ i = 2
    OBVIOUS
  <2>2. k[2] \in After(k[1])
    BY <1>10 DEF After
  <2> QED
    BY <1>10, <2>1, <2>2 DEF NamesLinked
<1>6. PICK m : m = SymlinkCalls
  OBVIOUS
<1>7. Len(m) = 3 /\ m[1] = "clear" /\ m[2] = "symlink" /\ m[3] = "utimes"
  BY <1>6 DEF SymlinkCalls
<1>8. NamesLinked(m)
  <2>1. \A i \in 1..3 : i = 1 \/ i = 2 \/ i = 3
    OBVIOUS
  <2>2. m[2] \in After(m[1]) /\ m[3] \in After(m[1]) /\ m[3] \in After(m[2])
    BY <1>7 DEF After
  <2> QED
    BY <1>7, <2>1, <2>2 DEF NamesLinked
<1> QED
  BY <1>1, <1>2, <1>3, <1>4, <1>5, <1>6, <1>7, <1>8, <1>9, <1>10, <1>11

\* What the calls d that are made and the calls e that are deferred satisfy.
Answers(o, d, e) ==
    /\ Stands(o, Calls(d) \cup Calls(e))
    /\ Len(d) \in Nat /\ Chain(d) /\ \A i \in 1..Len(d) : Linked(d, i) /\ CallPath(d[i]) = Path(o)
    /\ Len(e) \in Nat /\ Chain(e) /\ \A i \in 1..Len(e) : Linked(e, i) /\ CallPath(e[i]) = Path(o)
    /\ \A i \in 1..Len(d) : d[i].name \in Deletes <=> o.op = "Delete"
    /\ \A i \in 1..Len(e) : /\ e[i].name \notin {"mkdir", "open", "unlink"}
                            /\ o.op = "Delete" => e[i].name = "rmdir"
                            /\ o.op = "UpsertDirectory" \/ e[i].name \in After("rmdir") \cup {"rmdir"}
    /\ Len(d) # 0 /\ Len(e) # 0 => /\ \A i \in 1..Len(d) : d[i].name \in {"mkdir", "open"}
                                   /\ \A i \in 1..Len(e) : e[i].name \in {"chmod", "settle"}

\* No calls, one call.
LEMMA FewCalls ==
    ASSUME NEW c, NEW names, NEW x, CallsAs(c, names, x)
    PROVE  /\ Len(names) = 0 => Calls(c) = {}
           /\ Len(names) = 1 => /\ \A g \in Calls(c) : g.name = names[1] /\ g.record = x
                                /\ \E g \in Calls(c) : g.name = names[1]
                                /\ \A i \in 1..Len(names) : c[i].name = names[1]
           /\ Len(names) = 2 => /\ \A g \in Calls(c) : g.name \in {names[1], names[2]} /\ g.record = x
                                /\ \E g \in Calls(c) : g.name = names[2]
                                /\ \A i \in 1..Len(names) : c[i].name \in {names[1], names[2]}
           /\ Len(names) = 3 => /\ \A g \in Calls(c) : g.name \in {names[1], names[2], names[3]} /\ g.record = x
                                /\ \E g \in Calls(c) : g.name = names[3]
                                /\ \A i \in 1..Len(names) : c[i].name \in {names[1], names[2], names[3]}
<1>1. \A i \in 1..1 : i = 1
  OBVIOUS
<1>2. \A i \in 1..2 : i = 1 \/ i = 2
  OBVIOUS
<1>3. \A i \in 1..3 : i = 1 \/ i = 2 \/ i = 3
  OBVIOUS
<1>4. CASE Len(names) = 0
  BY <1>4 DEF CallsAs
<1>5. CASE Len(names) = 1
  BY <1>1, <1>5 DEF CallsAs
<1>6. CASE Len(names) = 2
  BY <1>2, <1>6 DEF CallsAs
<1>7. CASE Len(names) = 3
  BY <1>3, <1>7 DEF CallsAs
<1> QED
  BY <1>4, <1>5, <1>6, <1>7

\* `apply` makes or defers the calls of the operation.
LEMMA ApplyCalls ==
    ASSUME NEW o, o.op \in OperationKinds,
           o.op \notin {"Delete", "UpsertDirectory"} => o.record.kind # "dir",
           NEW d, d = CallsFor(ImmediateCalls(o), o.record),
           NEW e, e = CallsFor(DeferredCalls(o), o.record)
    PROVE  Answers(o, d, e) /\ (Len(e) = 0 <=> DeferredCalls(o) = <<>>)
<1>1. PICK x, I, D : x = o.record /\ I = ImmediateCalls(o) /\ D = DeferredCalls(o)
  OBVIOUS
<1>2. \/ o.op = "Delete" /\ x.kind = "dir" /\ I = <<>> /\ D = <<"rmdir">>
      \/ o.op = "Delete" /\ x.kind # "dir" /\ I = <<"unlink">> /\ D = <<>>
      \/ o.op = "UpsertDirectory" /\ I = <<"mkdir", "open">> /\ D = <<"chmod", "settle">>
      \/ o.op = "UpsertFile" /\ I = <<>> /\ D = <<"rename">>
      \/ o.op = "UpsertFile" /\ I = <<"rename">> /\ D = <<>>
      \/ o.op = "UpsertSymlink" /\ I = <<>> /\ D = SymlinkCalls
      \/ o.op = "UpsertSymlink" /\ I = SymlinkCalls /\ D = <<>>
  BY <1>1, ApplyCases
<1>3. NamesLinked(I) /\ NamesLinked(D)
  <2>1. NamesLinked(<<"rmdir">>) /\ NamesLinked(<<"unlink">>) /\ NamesLinked(<<"rename">>)
    BY NameShapes
  <2> QED
    BY <1>2, <2>1, NameShapes
<1>4. CallsAs(d, I, x) /\ CallsAs(e, D, x)
  BY <1>1, <1>3, CallsForFacts
<1>5. /\ Len(d) = Len(I) /\ Len(I) \in Nat /\ Chain(d) /\ (\A i \in 1..Len(d) : Linked(d, i) /\ CallPath(d[i]) = Path(o))
      /\ Len(e) = Len(D) /\ Len(D) \in Nat /\ Chain(e) /\ (\A i \in 1..Len(e) : Linked(e, i) /\ CallPath(e[i]) = Path(o))
  BY <1>1, <1>4 DEF CallsAs, CallPath, Path
<1>6. PICK N : N = Calls(d) \cup Calls(e)
  OBVIOUS
<1>7. \A g \in N : g.record = x
  <2>1. ASSUME NEW c, NEW names, CallsAs(c, names, x), NEW g \in Calls(c) PROVE g.record = x
    <3>1. PICK i \in 1..Len(names) : g = c[i]
      BY <2>1 DEF CallsAs
    <3> QED
      BY <2>1, <3>1 DEF CallsAs
  <2> QED
    BY <1>4, <1>6, <2>1
<1>8. /\ "rename" \in After("rmdir") /\ "clear" \in After("rmdir") /\ "symlink" \in After("rmdir")
      /\ "utimes" \in After("rmdir")
  BY DEF After
<1>9. SUFFICES /\ Stands(o, N)
               /\ \A i \in 1..Len(d) : d[i].name \in Deletes <=> o.op = "Delete"
               /\ \A i \in 1..Len(e) : /\ e[i].name \notin {"mkdir", "open", "unlink"}
                                       /\ o.op = "Delete" => e[i].name = "rmdir"
                                       /\ o.op = "UpsertDirectory" \/ e[i].name \in After("rmdir") \cup {"rmdir"}
               /\ Len(d) # 0 /\ Len(e) # 0 => /\ \A i \in 1..Len(d) : d[i].name \in {"mkdir", "open"}
                                              /\ \A i \in 1..Len(e) : e[i].name \in {"chmod", "settle"}
               /\ Len(e) = 0 <=> D = <<>>
  BY <1>1, <1>5, <1>6 DEF Answers
<1>10. CASE o.op = "Delete" /\ x.kind = "dir" /\ I = <<>> /\ D = <<"rmdir">>
  <2>1. Len(I) = 0 /\ Len(D) = 1 /\ D[1] = "rmdir"
    BY <1>10
  <2>2. /\ Calls(d) = {}
        /\ \A g \in Calls(e) : g.name = "rmdir"
        /\ \E g \in Calls(e) : g.name = "rmdir"
        /\ \A i \in 1..Len(D) : e[i].name = "rmdir"
    BY <1>4, <2>1, FewCalls
  <2>3. Stands(o, N)
    BY <1>1, <1>6, <1>7, <1>10, <2>2 DEF Stands, Deletes
  <2> QED
    BY <1>5, <1>10, <2>1, <2>2, <2>3
<1>11. CASE o.op = "Delete" /\ x.kind # "dir" /\ I = <<"unlink">> /\ D = <<>>
  <2>1. Len(I) = 1 /\ Len(D) = 0 /\ I[1] = "unlink"
    BY <1>11
  <2>2. /\ Calls(e) = {}
        /\ \A g \in Calls(d) : g.name = "unlink"
        /\ \E g \in Calls(d) : g.name = "unlink"
        /\ \A i \in 1..Len(I) : d[i].name = "unlink"
    BY <1>4, <2>1, FewCalls
  <2>3. Stands(o, N)
    BY <1>1, <1>6, <1>7, <1>11, <2>2 DEF Stands, Deletes
  <2> QED
    BY <1>5, <1>11, <2>1, <2>2, <2>3 DEF Deletes
<1>12. CASE o.op = "UpsertDirectory" /\ I = <<"mkdir", "open">> /\ D = <<"chmod", "settle">>
  <2>1. /\ Len(I) = 2 /\ I[1] = "mkdir" /\ I[2] = "open"
        /\ Len(D) = 2 /\ D[1] = "chmod" /\ D[2] = "settle"
    BY <1>12
  <2>2. /\ \A g \in Calls(d) : g.name \in {"mkdir", "open"}
        /\ \E g \in Calls(d) : g.name = "open"
        /\ \A i \in 1..Len(I) : d[i].name \in {"mkdir", "open"}
    BY <1>4, <2>1, FewCalls
  <2>3. /\ \A g \in Calls(e) : g.name \in {"chmod", "settle"}
        /\ \E g \in Calls(e) : g.name = "settle"
        /\ \A i \in 1..Len(D) : e[i].name \in {"chmod", "settle"}
    BY <1>4, <2>1, FewCalls
  <2>4. Stands(o, N)
    BY <1>1, <1>6, <1>7, <1>12, <2>2, <2>3 DEF Stands, Deletes, Finals, Makes
  <2>5. \A i \in 1..Len(d) : d[i].name \notin Deletes
    BY <1>5, <2>2 DEF Deletes
  <2>6. Len(e) # 0 /\ D # <<>>
    BY <1>5, <1>12, <2>1
  <2> QED
    BY <1>5, <1>12, <2>2, <2>3, <2>4, <2>5, <2>6
<1>13. CASE o.op = "UpsertFile" /\ I = <<>> /\ D = <<"rename">>
  <2>1. Len(I) = 0 /\ Len(D) = 1 /\ D[1] = "rename"
    BY <1>13
  <2>2. /\ Calls(d) = {}
        /\ \A g \in Calls(e) : g.name = "rename"
        /\ \E g \in Calls(e) : g.name = "rename"
        /\ \A i \in 1..Len(D) : e[i].name = "rename"
    BY <1>4, <2>1, FewCalls
  <2>3. Stands(o, N)
    BY <1>1, <1>6, <1>7, <1>13, <2>2 DEF Stands, Deletes, Finals
  <2> QED
    BY <1>5, <1>8, <1>13, <2>1, <2>2, <2>3
<1>14. CASE o.op = "UpsertFile" /\ I = <<"rename">> /\ D = <<>>
  <2>1. Len(I) = 1 /\ Len(D) = 0 /\ I[1] = "rename"
    BY <1>14
  <2>2. /\ Calls(e) = {}
        /\ \A g \in Calls(d) : g.name = "rename"
        /\ \E g \in Calls(d) : g.name = "rename"
        /\ \A i \in 1..Len(I) : d[i].name = "rename"
    BY <1>4, <2>1, FewCalls
  <2>3. Stands(o, N)
    BY <1>1, <1>6, <1>7, <1>14, <2>2 DEF Stands, Deletes, Finals
  <2> QED
    BY <1>5, <1>14, <2>1, <2>2, <2>3 DEF Deletes
<1>15. CASE o.op = "UpsertSymlink" /\ I = <<>> /\ D = SymlinkCalls
  <2>1. Len(I) = 0 /\ Len(D) = 3 /\ D[1] = "clear" /\ D[2] = "symlink" /\ D[3] = "utimes"
    BY <1>15, NameShapes
  <2>2. /\ Calls(d) = {}
        /\ \A g \in Calls(e) : g.name \in {"clear", "symlink", "utimes"}
        /\ \E g \in Calls(e) : g.name = "utimes"
        /\ \A i \in 1..Len(D) : e[i].name \in {"clear", "symlink", "utimes"}
    BY <1>4, <2>1, FewCalls
  <2>3. Stands(o, N)
    BY <1>1, <1>6, <1>7, <1>15, <2>2 DEF Stands, Deletes, Finals
  <2>4. D # <<>>
    BY <2>1, NameShapes
  <2> QED
    BY <1>5, <1>8, <1>15, <2>1, <2>2, <2>3, <2>4
<1>16. CASE o.op = "UpsertSymlink" /\ I = SymlinkCalls /\ D = <<>>
  <2>1. Len(I) = 3 /\ Len(D) = 0 /\ I[1] = "clear" /\ I[2] = "symlink" /\ I[3] = "utimes"
    BY <1>16, NameShapes
  <2>2. /\ Calls(e) = {}
        /\ \A g \in Calls(d) : g.name \in {"clear", "symlink", "utimes"}
        /\ \E g \in Calls(d) : g.name = "utimes"
        /\ \A i \in 1..Len(I) : d[i].name \in {"clear", "symlink", "utimes"}
    BY <1>4, <2>1, FewCalls
  <2>3. Stands(o, N)
    BY <1>1, <1>6, <1>7, <1>16, <2>2 DEF Stands, Deletes, Finals
  <2> QED
    BY <1>5, <1>16, <2>1, <2>2, <2>3 DEF Deletes
<1> QED
  BY <1>2, <1>10, <1>11, <1>12, <1>13, <1>14, <1>15, <1>16

\* The next operation, at or below the top of the stack.
Applying(ch, pd, o, p) ==
    /\ Stacked(pd) /\ StackOK(ch, pd, <<>>)
    /\ o \in ch /\ p = Path(o) /\ p \in Universe
    /\ \A x \in ch \ {o} : Precedes(o, x)
    /\ pd # <<>> => StartsWith(p, pd[Len(pd)].path)

\* Below the top it is below every directory that waits.
LEMMA BelowStack ==
    ASSUME NEW ch, NEW pd, NEW o, NEW p, Applying(ch, pd, o, p),
           pd # <<>> => pd[Len(pd)].path # p, NEW k \in 1..Len(pd)
    PROVE  Below(p, pd[k].path) /\ ~StartsWith(pd[k].path, p) /\ pd[k].path # p
<1>1. pd \in Seq(Deferred) /\ Len(pd) \in Nat /\ pd # <<>>
  BY DEF Applying, Stacked
<1>2. PICK n \in 1..Len(pd) : n = Len(pd)
  BY <1>1
<1>3. pd[n].path \in Seq(Nat) /\ pd[k].path \in Seq(Nat) /\ p \in Seq(Nat)
  BY StackedFacts, UniverseAssumption DEF Applying, RelativePath
<1>4. StartsWith(p, pd[n].path) /\ pd[n].path # p
  BY <1>1, <1>2 DEF Applying
<1>5. StartsWith(pd[n].path, pd[k].path)
  <2>1. CASE k = n
    BY <1>3, <2>1, PrefixFacts
  <2>2. CASE k # n
    <3>1. k < n
      BY <1>1, <1>2, <2>2
    <3> QED
      BY <3>1 DEF Applying, StackOK, Nested, Below
  <2> QED
    BY <2>1, <2>2
<1>6. StartsWith(p, pd[k].path)
  BY <1>3, <1>4, <1>5, PrefixFacts
<1>7. ~StartsWith(pd[k].path, p)
  BY <1>3, <1>4, <1>5, PrefixFacts
<1> QED
  BY <1>3, <1>6, <1>7, PrefixFacts DEF Below

\* The operations after it are ahead of its calls.
LEMMA AheadOfNext ==
    ASSUME NEW ch, NEW pd, NEW o, NEW p, Applying(ch, pd, o, p),
           NEW d, NEW e, Answers(o, d, e), NEW x \in ch \ {o}
    PROVE  /\ \A i \in 1..Len(d) : /\ NotAfter(CallPath(d[i]), Path(x))
                                   /\ Path(x) = CallPath(d[i]) => x.op # "Delete" /\ d[i].name \in Deletes
           /\ Path(x) = p => /\ o.op = "Delete" /\ x.op # "Delete"
                             /\ \A i \in 1..Len(e) : e[i].name = "rmdir"
<1>1. Precedes(o, x) /\ p = Path(o) /\ p \in Seq(Nat)
  BY UniverseAssumption DEF Applying, RelativePath
<1>2. NotAfter(p, Path(x)) /\ (Path(x) = p => o.op = "Delete" /\ x.op # "Delete")
  BY <1>1, BeforeIrreflexive DEF Precedes, NotAfter
<1>3. \A i \in 1..Len(d) : CallPath(d[i]) = p /\ (d[i].name \in Deletes <=> o.op = "Delete")
  BY <1>1 DEF Answers
<1>4. o.op = "Delete" => \A i \in 1..Len(e) : e[i].name = "rmdir"
  BY DEF Answers
<1> QED
  BY <1>2, <1>3, <1>4

Gains(qd, d, e, pd) == Left(qd, d) = Left(pd, <<>>) \cup (Calls(d) \cup Calls(e))

\* Calls are made, none is deferred.
LEMMA KeepOK ==
    ASSUME NEW ch, NEW pd, NEW o, NEW p, Applying(ch, pd, o, p),
           pd # <<>> => pd[Len(pd)].path # p,
           NEW d, NEW e, Answers(o, d, e), Len(e) = 0, NEW C, C = ch \ {o}
    PROVE  StackOK(C, pd, d) /\ Gains(pd, d, e, pd)
<1>1. Chain(d) /\ \A i \in 1..Len(d) : Linked(d, i) /\ CallPath(d[i]) = p
  BY DEF Answers, Applying
<1>2. Apart(pd, d)
  BY <1>1, BelowStack DEF Apart
<1>3. (\A k \in 1..Len(pd) : Waiting(pd[k])) /\ Nested(pd)
  BY DEF Applying, StackOK
<1>4. AheadOfStack(C, pd)
  BY DEF Applying, StackOK, AheadOfStack
<1>5. AheadOfCalls(C, d)
  BY AheadOfNext DEF AheadOfCalls
<1>6. Calls(<<>>) = {} /\ Calls(e) = {}
  BY DEF Calls
<1>7. Gains(pd, d, e, pd)
  BY <1>6 DEF Gains, Left
<1> QED
  BY <1>1, <1>2, <1>3, <1>4, <1>5, <1>7 DEF StackOK

\* A directory is put on the stack.
LEMMA PushOK ==
    ASSUME NEW ch, NEW pd, NEW o, NEW p, Applying(ch, pd, o, p),
           pd # <<>> => pd[Len(pd)].path # p,
           NEW d, NEW e \in Seq(Call), Answers(o, d, e), Len(e) # 0, NEW C, C = ch \ {o},
           NEW z \in Deferred, z.path = p, z.actions = e, NEW qd, qd = Append(pd, z)
    PROVE  StackOK(C, qd, d) /\ Gains(qd, d, e, pd)
<1>1. /\ Chain(d) /\ \A i \in 1..Len(d) : Linked(d, i) /\ CallPath(d[i]) = p
  BY DEF Answers, Applying
<1>2. PICK n \in Nat : n = Len(pd)
  BY DEF Applying, Stacked
<1>3. /\ qd \in Seq(Deferred) /\ Len(qd) = n + 1 /\ qd[n + 1] = z
      /\ \A k \in 1..n : qd[k] = pd[k]
  BY <1>2 DEF Applying, Stacked
<1>4. \A k \in 1..Len(qd) : k \in 1..n \/ k = n + 1
  BY <1>3
<1>5. Waiting(z)
  <2>1. e # <<>>
    OBVIOUS
  <2> QED
    BY <2>1 DEF Waiting, Answers
<1>6. \A k \in 1..Len(qd) : Waiting(qd[k])
  BY <1>2, <1>3, <1>4, <1>5 DEF Applying, StackOK
<1>7. Nested(qd)
  <2>1. ASSUME NEW i \in 1..Len(qd), NEW j \in 1..Len(qd), i < j
        PROVE  Below(qd[j].path, qd[i].path)
    <3>1. i \in 1..n
      BY <1>3, <2>1
    <3>2. CASE j \in 1..n
      BY <1>2, <1>3, <2>1, <3>1, <3>2 DEF Applying, StackOK, Nested
    <3>3. CASE j = n + 1
      BY <1>2, <1>3, <3>1, <3>3, BelowStack
    <3> QED
      BY <1>4, <3>2, <3>3
  <2> QED
    BY <2>1 DEF Nested
<1>8. Apart(qd, d)
  <2>1. ASSUME NEW i \in 1..Len(d), NEW k \in 1..Len(qd)
        PROVE  \/ ~StartsWith(qd[k].path, CallPath(d[i]))
               \/ /\ d[i].name \in {"mkdir", "open"} /\ qd[k].path = CallPath(d[i])
                  /\ \A j \in 1..Len(qd[k].actions) : qd[k].actions[j].name \in {"chmod", "settle"}
    <3>1. CASE k \in 1..n
      <4>1. qd[k] = pd[k] /\ ~StartsWith(pd[k].path, p)
        BY <1>2, <1>3, <3>1, BelowStack
      <4> QED
        BY <1>1, <4>1
    <3>2. CASE k = n + 1
      <4>1. Len(d) # 0
        BY DEF Answers
      <4> QED
        BY <1>1, <1>3, <3>2, <4>1 DEF Answers
    <3> QED
      BY <1>4, <3>1, <3>2
  <2> QED
    BY <2>1 DEF Apart
<1>9. AheadOfStack(C, qd)
  <2>1. ASSUME NEW k \in 1..Len(qd), NEW x \in C, Path(x) = qd[k].path
        PROVE  x.op # "Delete" /\ \A j \in 1..Len(qd[k].actions) : qd[k].actions[j].name = "rmdir"
    <3>1. CASE k \in 1..n
      BY <1>2, <1>3, <2>1, <3>1 DEF Applying, StackOK, AheadOfStack
    <3>2. CASE k = n + 1
      BY <1>3, <2>1, <3>2, AheadOfNext
    <3> QED
      BY <1>4, <3>1, <3>2
  <2> QED
    BY <2>1 DEF AheadOfStack
<1>10. AheadOfCalls(C, d)
  BY AheadOfNext DEF AheadOfCalls
<1>11. Left(qd, d) = Left(pd, <<>>) \cup Calls(d) \cup Calls(e)
  <2>1. Calls(<<>>) = {}
    BY DEF Calls
  <2>2. ASSUME NEW g \in Left(qd, d) PROVE g \in Left(pd, <<>>) \cup Calls(d) \cup Calls(e)
    BY <1>2, <1>3, <1>4 DEF Left
  <2>3. ASSUME NEW g \in Left(pd, <<>>) \cup Calls(d) \cup Calls(e) PROVE g \in Left(qd, d)
    <3>1. n + 1 \in 1..Len(qd) /\ \A k \in 1..n : k \in 1..Len(qd)
      BY <1>3
    <3>2. g \in Calls(e) => g \in Left(qd, d)
      BY <1>3, <3>1 DEF Left
    <3>3. g \in Calls(d) => g \in Left(qd, d)
      BY DEF Left
    <3>4. ASSUME NEW k \in 1..n, g \in Calls(pd[k].actions) PROVE g \in Left(qd, d)
      BY <1>3, <3>1, <3>4 DEF Left
    <3> QED
      BY <1>2, <2>1, <3>2, <3>3, <3>4 DEF Left
  <2> QED
    BY <2>2, <2>3
<1> QED
  BY <1>1, <1>6, <1>7, <1>8, <1>9, <1>10, <1>11 DEF StackOK, Gains

\* The calls e are added to those of the top of the stack.
Grown(pd, n, p, e, z, qd) ==
    /\ n \in 1..Len(pd) /\ n = Len(pd) /\ pd[n].path = p
    /\ z \in Deferred /\ z.path = p /\ z.actions = pd[n].actions \o e
    /\ qd = [pd EXCEPT ![n] = z]

\* What replaces a directory waits for its removal.
LEMMA MoreOK ==
    ASSUME NEW ch, NEW pd, NEW o, NEW p, Applying(ch, pd, o, p), o.op # "UpsertDirectory",
           NEW d, NEW e, e \in Seq(Call), Answers(o, d, e), Len(e) # 0, NEW C, C = ch \ {o},
           NEW n, NEW z, NEW qd, Grown(pd, n, p, e, z, qd)
    PROVE  StackOK(C, qd, d) /\ Gains(qd, d, e, pd)
<1> /\ n \in 1..Len(pd) /\ n = Len(pd) /\ pd[n].path = p
    /\ z \in Deferred /\ z.path = p /\ z.actions = pd[n].actions \o e
    /\ qd = [pd EXCEPT ![n] = z]
  BY DEF Grown
<1>1. /\ pd \in Seq(Deferred) /\ qd \in Seq(Deferred) /\ Len(qd) = Len(pd) /\ qd[n] = z
      /\ \A k \in 1..Len(pd) : k # n => qd[k] = pd[k]
  BY DEF Applying, Stacked
<1>2. \A k \in 1..Len(pd) : qd[k].path = pd[k].path
  BY <1>1
<1>3. PICK y, a : y = pd[n].actions /\ a = z.actions
  OBVIOUS
<1>4. y \in Seq(Call) /\ Len(y) \in Nat /\ Len(e) \in Nat
  BY <1>3, StackedFacts DEF Applying
<1>5. /\ a \in Seq(Call) /\ Len(a) = Len(y) + Len(e)
      /\ \A j \in 1..Len(y) : a[j] = y[j]
      /\ \A j \in 1..Len(e) : a[Len(y) + j] = e[j]
  BY <1>3, <1>4
<1>6. ASSUME NEW j \in 1..Len(a)
      PROVE  j \in 1..Len(y) \/ \E k \in 1..Len(e) : j = Len(y) + k
  <2>1. CASE j <= Len(y)
    BY <1>4, <2>1
  <2>2. CASE ~(j <= Len(y))
    <3>1. j - Len(y) \in 1..Len(e) /\ j = Len(y) + (j - Len(y))
      BY <1>4, <1>5, <2>2
    <3> QED
      BY <3>1
  <2> QED
    BY <2>1, <2>2
<1>7. /\ o.op # "Delete" /\ y # <<>>
      /\ \A j \in 1..Len(y) : y[j].name = "rmdir" /\ CallPath(y[j]) = p
      /\ \A i, j \in 1..Len(y) : i < j => y[j].name \in After(y[i].name)
  BY <1>3 DEF Applying, StackOK, AheadOfStack, Stacked, Waiting, Chain
<1>8. /\ \A j \in 1..Len(e) : /\ e[j].name \in After("rmdir") \cup {"rmdir"}
                              /\ e[j].name \notin Deletes
                              /\ Linked(e, j) /\ CallPath(e[j]) = p
      /\ Chain(e)
  <2>1. \A j \in 1..Len(e) : e[j] \in Calls(e)
    BY DEF Calls
  <2>2. \A j \in 1..Len(e) : e[j].name \notin Deletes
    BY <1>7, <2>1 DEF Answers, Stands
  <2> QED
    BY <2>2 DEF Answers, Applying
<1>9. \A j \in 1..Len(e) : e[j].name \in After("rmdir")
  BY <1>8 DEF Deletes
<1>10. Chain(a)
  <2>1. ASSUME NEW i \in 1..Len(a), NEW j \in 1..Len(a), i < j
        PROVE  a[j].name \in After(a[i].name) /\ CallPath(a[j]) = CallPath(a[i])
    <3>1. CASE j \in 1..Len(y)
      <4>1. i \in 1..Len(y)
        BY <1>4, <1>5, <2>1, <3>1
      <4> QED
        BY <1>5, <1>7, <2>1, <3>1, <4>1
    <3>2. ASSUME NEW k \in 1..Len(e), j = Len(y) + k, i \in 1..Len(y)
          PROVE  a[j].name \in After(a[i].name) /\ CallPath(a[j]) = CallPath(a[i])
      <4>1. a[j] = e[k] /\ a[i] = y[i]
        BY <1>5, <3>2
      <4>2. e[k].name \in After("rmdir") /\ CallPath(e[k]) = p
        BY <1>8, <1>9
      <4>3. y[i].name = "rmdir" /\ CallPath(y[i]) = p
        BY <1>7, <3>2
      <4> QED
        BY <4>1, <4>2, <4>3
    <3>3. ASSUME NEW k \in 1..Len(e), j = Len(y) + k, NEW m \in 1..Len(e), i = Len(y) + m
          PROVE  a[j].name \in After(a[i].name) /\ CallPath(a[j]) = CallPath(a[i])
      <4>1. a[j] = e[k] /\ a[i] = e[m] /\ m < k
        BY <1>4, <1>5, <2>1, <3>3, SMTT(30)
      <4> QED
        BY <1>8, <4>1 DEF Chain
    <3> QED
      BY <1>6, <3>1, <3>2, <3>3
  <2> QED
    BY <2>1 DEF Chain
<1>11. ASSUME NEW j \in 1..Len(a)
       PROVE  Linked(a, j) /\ a[j].name \notin {"mkdir", "open", "unlink"}
  <2>1. CASE j \in 1..Len(y)
    <3>1. a[j] = y[j] /\ y[j].name = "rmdir"
      BY <1>5, <1>7, <2>1
    <3> QED
      BY <3>1 DEF Linked
  <2>2. ASSUME NEW k \in 1..Len(e), j = Len(y) + k
        PROVE  Linked(a, j) /\ a[j].name \notin {"mkdir", "open", "unlink"}
    <3>1. a[j] = e[k] /\ Linked(e, k) /\ e[k].name \notin {"mkdir", "open", "unlink"}
      BY <1>5, <1>8, <2>2 DEF Answers
    <3>2. k > 1 => a[j - 1] = e[k - 1] /\ j > 1
      <4>1. k > 1 => k - 1 \in 1..Len(e) /\ j - 1 = Len(y) + (k - 1) /\ j > 1
        BY <1>4, <2>2
      <4> QED
        BY <1>5, <4>1
    <3> QED
      BY <3>1, <3>2 DEF Linked
  <2> QED
    BY <1>6, <2>1, <2>2
<1>12. Waiting(z)
  <2>1. a # <<>>
    BY <1>4, <1>5
  <2> QED
    BY <1>3, <1>10, <1>11, <2>1 DEF Waiting
<1>13. \A k \in 1..Len(qd) : Waiting(qd[k])
  BY <1>1, <1>12 DEF Applying, StackOK
<1>14. Nested(qd)
  BY <1>1, <1>2 DEF Applying, StackOK, Nested
<1>15. Len(d) = 0
  <2>1. 1 \in 1..Len(e)
    BY <1>4
  <2>2. e[1].name \notin {"chmod", "settle"}
    BY <1>9, <2>1 DEF After
  <2> QED
    BY <2>1, <2>2 DEF Answers
<1>16. Chain(d) /\ (\A i \in 1..Len(d) : i > 1 => Linked(d, i)) /\ Apart(qd, d) /\ AheadOfCalls(C, d)
  BY <1>15 DEF Chain, Apart, AheadOfCalls
<1>17. AheadOfStack(C, qd)
  <2>1. ASSUME NEW k \in 1..Len(qd), NEW x \in C, Path(x) = qd[k].path
        PROVE  x.op # "Delete" /\ \A j \in 1..Len(qd[k].actions) : qd[k].actions[j].name = "rmdir"
    <3>1. k # n
      BY <1>1, <1>7, <2>1, AheadOfNext
    <3> QED
      BY <1>1, <2>1, <3>1 DEF Applying, StackOK, AheadOfStack
  <2> QED
    BY <2>1 DEF AheadOfStack
<1>18. Left(qd, d) = Left(pd, <<>>) \cup Calls(d) \cup Calls(e)
  <2>1. Calls(<<>>) = {}
    BY DEF Calls
  <2>2. Calls(a) = Calls(y) \cup Calls(e)
    <3>1. ASSUME NEW g \in Calls(a) PROVE g \in Calls(y) \cup Calls(e)
      <4>1. PICK j \in 1..Len(a) : g = a[j]
        BY DEF Calls
      <4>2. CASE j \in 1..Len(y)
        BY <1>5, <4>1, <4>2 DEF Calls
      <4>3. ASSUME NEW k \in 1..Len(e), j = Len(y) + k PROVE g \in Calls(e)
        BY <1>5, <4>1, <4>3 DEF Calls
      <4> QED
        BY <1>6, <4>2, <4>3
    <3>2. ASSUME NEW g \in Calls(y) PROVE g \in Calls(a)
      <4>1. \A j \in 1..Len(y) : j \in 1..Len(a)
        BY <1>4, <1>5
      <4> QED
        BY <1>5, <4>1 DEF Calls
    <3>3. ASSUME NEW g \in Calls(e) PROVE g \in Calls(a)
      <4>1. \A j \in 1..Len(e) : Len(y) + j \in 1..Len(a)
        BY <1>4, <1>5
      <4> QED
        BY <1>5, <4>1 DEF Calls
    <3> QED
      BY <3>1, <3>2, <3>3
  <2>3. Calls(qd[n].actions) = Calls(pd[n].actions) \cup Calls(e)
    BY <1>1, <1>3, <2>2
  <2>4. ASSUME NEW g \in Left(qd, d) PROVE g \in Left(pd, <<>>) \cup Calls(d) \cup Calls(e)
    <3>1. CASE g \in Calls(d)
      BY <3>1
    <3>2. ASSUME NEW k \in 1..Len(pd), g \in Calls(qd[k].actions)
          PROVE  g \in Left(pd, <<>>) \cup Calls(e)
      <4>1. g \in Calls(pd[k].actions) \/ g \in Calls(e)
        BY <1>1, <2>3, <3>2
      <4> QED
        BY <4>1 DEF Left
    <3> QED
      BY <1>1, <3>1, <3>2 DEF Left
  <2>5. ASSUME NEW g \in Left(pd, <<>>) \cup Calls(d) \cup Calls(e) PROVE g \in Left(qd, d)
    <3>1. CASE g \in Calls(d)
      BY <3>1 DEF Left
    <3>2. CASE g \in Calls(e)
      <4>1. g \in Calls(qd[n].actions) /\ n \in 1..Len(qd)
        BY <1>1, <2>3, <3>2
      <4> QED
        BY <4>1 DEF Left
    <3>3. ASSUME NEW k \in 1..Len(pd), g \in Calls(pd[k].actions) PROVE g \in Left(qd, d)
      <4>1. g \in Calls(qd[k].actions) /\ k \in 1..Len(qd)
        BY <1>1, <2>3, <3>3
      <4> QED
        BY <4>1 DEF Left
    <3> QED
      BY <2>1, <3>1, <3>2, <3>3 DEF Left
  <2> QED
    BY <2>4, <2>5
<1> QED
  BY <1>13, <1>14, <1>16, <1>17, <1>18 DEF StackOK, Gains

-----------------------------------------------------------------------------
(***************************************************************************)
(* The invariant of an attempt.                                            *)
(***************************************************************************)
Remaining == Left(pending, calls)

BaseIndex == Scan(base, rules)

\* The calls come in order.
OrderInv ==
    /\ StackOK(Unapplied, pending, calls)
    /\ calls # <<>> => HeadReady(live, calls[1])

\* What is left is sound, and what is not left is done, as long as nothing
\* that was staged has been dropped.
DueInv ==
    /\ Sound(Unapplied, Remaining, SourceIndex, BaseIndex)
    /\ phase \notin {"idle", "stopped"} =>
          Progress(Unapplied, Remaining, live, SourceIndex, BaseIndex, base, rules)

ContentInv == DirsEmpty(live) /\ OldNew(live, base, source, SourceRules)

\* How an attempt begins and ends.
PhaseInv ==
    /\ earlier = "done" => SameListing(SourceIndex, BaseIndex)
    /\ phase = "done" => changes = {} /\ pending = <<>> /\ calls = <<>>
    /\ phase = "failed" => calls # <<>> /\ ~Succeeds(live, calls[1])
    /\ phase = "idle" => calls = <<>> /\ pending = <<>> /\ changes = {}

CourseInv == OrderInv /\ DueInv /\ ContentInv /\ PhaseInv

\* The setting of the attempt under way, and of one that begins now.
LEMMA InvSetting ==
    ASSUME Inv
    PROVE  /\ Setting(source, base, rules, SourceRules, SourceIndex, BaseIndex)
           /\ Setting(source, live, rules, SourceRules, SourceIndex, DestinationIndex)
           /\ Spared(live, base, rules) /\ Stacked(pending)
           /\ live \in [Universe -> Entry] /\ IsTree(live)
<1>1. /\ source \in [Universe -> Entry] /\ IsTree(source) /\ IsNormal(source)
      /\ live \in [Universe -> Entry] /\ IsTree(live)
      /\ base \in [Universe -> Entry] /\ IsTree(base)
      /\ pending \in Seq(Deferred)
  BY TreesAssumption DEF Inv, ShapeInv
<1>2. /\ SourceIndex = Scan(source, SourceRules) /\ rules \subseteq SourceRules
      /\ BaseIndex = Scan(base, rules) /\ DestinationIndex = Scan(live, rules)
  BY DEF SourceIndex, SourceRules, BaseIndex, DestinationIndex
<1>3. Spared(live, base, rules)
  BY DEF Inv, IgnoredPreserved, Spared
<1>4. Stacked(pending)
  BY <1>1 DEF Inv, ActionsInv, Waits, Stacked, CallPath
<1> QED
  BY <1>1, <1>2, <1>3, <1>4 DEF Setting

\* The call that is made next, if there is one.
LEMMA InvMaking ==
    ASSUME Inv, CourseInv, calls # <<>>, phase \notin {"idle", "stopped"}, NEW R, R = Left(pending, Tail(calls))
    PROVE  /\ Making(live, calls[1], Unapplied, R, SourceIndex, BaseIndex, base, rules)
           /\ calls \in Seq(Call) /\ Head(calls) = calls[1]
           /\ CallPath(calls[1]) \in Universe
           /\ StackOK(Unapplied, pending, Tail(calls))
           /\ Remaining = R \cup {calls[1]}
<1>1. calls \in Seq(Call) /\ 1 \in 1..Len(calls) /\ Len(calls) \in Nat /\ Head(calls) = calls[1]
  BY DEF Inv, CallsInv
<1>2. PICK c : c = calls[1]
  OBVIOUS
<1>3. c \in Call /\ Justified(c, SourceIndex, base, rules) /\ CallPath(c) \in Universe
  BY <1>1, <1>2 DEF Inv, CallsInv, Justified, CallPath
<1>4. CallPath(c) \in Seq(Nat)
  BY <1>3, UniverseAssumption DEF RelativePath
<1>5. Stacked(pending) /\ live \in [Universe -> Entry] /\ IsTree(live)
  BY InvSetting
<1>6. StackOK(Unapplied, pending, calls)
  BY DEF CourseInv, OrderInv
<1>7. StackOK(Unapplied, pending, Tail(calls)) /\ Remaining = R \cup {c}
  <2>1. PICK ch, pd, cs, ds : ch = Unapplied /\ pd = pending /\ cs = calls /\ ds = Tail(cs)
    OBVIOUS
  <2>2. cs \in Seq(Call) /\ cs # <<>> /\ StackOK(ch, pd, cs) /\ ds = Tail(cs)
    BY <1>1, <1>6, <2>1
  <2>3. StackOK(ch, pd, ds) /\ Shorter(pd, cs, ds)
    BY <2>2, TailOK
  <2> QED
    BY <1>2, <2>1, <2>3 DEF Remaining, Shorter
<1>8. c.name \in Closes => \A o \in Unapplied : ~StartsWith(Path(o), CallPath(c))
  BY <1>1, <1>2 DEF Inv, SettleInv, CallPath
<1>9. HeadLast(Unapplied, R, c)
  BY <1>1, <1>2, <1>4, <1>5, <1>6, <1>8, HeadIsLast
<1>10. HeadReady(live, c) /\ DirsEmpty(live)
  BY <1>2 DEF CourseInv, OrderInv, ContentInv
<1>11. /\ Sound(Unapplied, R \cup {c}, SourceIndex, BaseIndex)
       /\ Progress(Unapplied, R \cup {c}, live, SourceIndex, BaseIndex, base, rules)
  BY <1>7 DEF CourseInv, DueInv
<1>12. Making(live, c, Unapplied, R, SourceIndex, BaseIndex, base, rules)
  BY <1>3, <1>5, <1>9, <1>10, <1>11 DEF Making
<1> QED
  BY <1>1, <1>2, <1>3, <1>7, <1>12

\* Nothing is left when nothing is on the stack.
LEMMA EmptyStack == \A ch : StackOK(ch, <<>>, <<>>) /\ Left(<<>>, <<>>) = {}
<1>1. Calls(<<>>) = {} /\ Left(<<>>, <<>>) = {}
  BY DEF Calls, Left
<1>2. ASSUME NEW ch PROVE StackOK(ch, <<>>, <<>>)
  BY DEF StackOK, Chain, Nested, Apart, AheadOfStack, AheadOfCalls
<1> QED
  BY <1>1, <1>2

\* Before the first attempt.
LEMMA InitCourse == Init => CourseInv
<1> SUFFICES ASSUME Init PROVE CourseInv
  OBVIOUS
<1>1. /\ live = base /\ phase = "idle" /\ earlier = "idle"
      /\ changes = {} /\ pending = <<>> /\ calls = <<>> /\ live \in LiveTrees
  BY DEF Init
<1>2. OrderInv
  BY <1>1, EmptyStack DEF OrderInv
<1>3. DueInv
  BY <1>1, EmptyStack DEF DueInv, Sound, Remaining, Unapplied
<1>4. ContentInv
  <2>1. DirsEmpty(live)
    BY <1>1, TreesAssumption DEF DirsEmpty, IsNormal
  <2>2. OldNew(live, base, source, SourceRules)
    BY <1>1 DEF OldNew, Halfway
  <2> QED
    BY <2>1, <2>2 DEF ContentInv
<1>5. PhaseInv
  BY <1>1 DEF PhaseInv
<1> QED
  BY <1>2, <1>3, <1>4, <1>5 DEF CourseInv

\* What a finished attempt has reached.
LEMMA DoneReaches ==
    ASSUME Inv, CourseInv, phase = "done"
    PROVE  /\ SameListing(DestinationIndex, SourceIndex)
           /\ \A x \in SourceIndex : x \notin BaseIndex => x \in DestinationIndex
           /\ SameListing(SourceIndex, BaseIndex) => DestinationIndex = SourceIndex
<1>1. Unapplied = {} /\ Remaining = {}
  BY EmptyStack DEF CourseInv, PhaseInv, Remaining, Unapplied
<1>2. Progress({}, {}, live, SourceIndex, BaseIndex, base, rules)
  BY <1>1 DEF CourseInv, DueInv
<1>3. DestinationIndex = Scan(live, rules)
  BY DEF DestinationIndex
<1> QED
  BY <1>2, <1>3, InvSetting, AttemptReaches

\* A fresh attempt.
LEMMA BeginCourse == ASSUME Inv, CourseInv, Begin PROVE CourseInv'
<1>1. /\ base' = live /\ phase' = "staging" /\ earlier' = phase
      /\ Unapplied' = Difference(SourceIndex, DestinationIndex)
      /\ pending' = <<>> /\ calls' = <<>>
      /\ UNCHANGED <<source, rules, live>>
  BY DEF Begin, Unapplied
<1>2. SourceIndex' = SourceIndex /\ SourceRules' = SourceRules /\ BaseIndex' = DestinationIndex
  BY <1>1 DEF SourceIndex, SourceRules, BaseIndex, DestinationIndex
<1>3. Remaining' = {}
  BY <1>1, EmptyStack DEF Remaining
<1>4. OrderInv'
  BY <1>1, EmptyStack DEF OrderInv
<1>5. DueInv'
  <2>1. /\ Sound(Difference(SourceIndex, DestinationIndex), {}, SourceIndex, DestinationIndex)
        /\ Progress(Difference(SourceIndex, DestinationIndex), {}, live,
                    SourceIndex, DestinationIndex, live, rules)
    BY InvSetting, BeginProgress
  <2> QED
    BY <1>1, <1>2, <1>3, <2>1 DEF DueInv
<1>6. ContentInv'
  <2>1. OldNew(live, live, source, SourceRules) /\ DirsEmpty(live)
    BY DEF OldNew, Halfway, CourseInv, ContentInv
  <2> QED
    BY <1>1, <1>2, <2>1 DEF ContentInv
<1>7. PhaseInv'
  <2>1. phase = "done" => SameListing(SourceIndex, DestinationIndex)
    BY DoneReaches DEF SameListing
  <2> QED
    BY <1>1, <1>2, <2>1 DEF PhaseInv
<1> QED
  BY <1>4, <1>5, <1>6, <1>7 DEF CourseInv

\* The account holds for fewer operations, where it says nothing of the rest.
LEMMA FewerLeft ==
    ASSUME NEW ch, NEW C, C \subseteq ch, NEW pd, NEW cs, NEW K, NEW src, NEW dst,
           StackOK(ch, pd, cs), Sound(ch, K, src, dst)
    PROVE  StackOK(C, pd, cs) /\ Sound(C, K, src, dst)
<1>1. AheadOfStack(C, pd) /\ AheadOfCalls(C, cs)
  BY DEF StackOK, AheadOfStack, AheadOfCalls
<1> QED
  BY <1>1 DEF StackOK, Sound

\* Staging, the start and the end of an attempt: what is left stays, or is
\* dropped when the attempt is stopped.
LEMMA EndCourse ==
    ASSUME Inv, CourseInv, UNCHANGED <<source, rules, live, base, earlier, pending, calls>>,
           Unapplied' \subseteq Unapplied,
           phase' # "stopped" => Unapplied' = Unapplied,
           phase' # phase => phase \in {"staging", "committing"},
           \/ phase' \in {"stopped", "committing"}
           \/ phase' = phase /\ changes' = changes
           \/ phase' = "staging" /\ phase = "staging"
           \/ phase' = "done" /\ changes' = {} /\ pending = <<>> /\ calls = <<>>
           \/ phase' = "failed" /\ calls # <<>> /\ ~Succeeds(live, calls[1])
    PROVE  CourseInv'
<1>1. SourceIndex' = SourceIndex /\ SourceRules' = SourceRules /\ BaseIndex' = BaseIndex
      /\ Remaining' = Remaining
  BY DEF SourceIndex, SourceRules, BaseIndex, Remaining
<1>2. ContentInv'
  BY <1>1 DEF CourseInv, ContentInv
<1>3. /\ StackOK(Unapplied, pending, calls)'
      /\ Sound(Unapplied, Remaining, SourceIndex, BaseIndex)'
  <2>1. PICK C : C = Unapplied'
    OBVIOUS
  <2>2. StackOK(C, pending, calls) /\ Sound(C, Remaining, SourceIndex, BaseIndex)
    BY <2>1, FewerLeft DEF CourseInv, OrderInv, DueInv
  <2> QED
    BY <1>1, <2>1, <2>2
<1>4. OrderInv'
  BY <1>3 DEF CourseInv, OrderInv
<1>5. DueInv'
  <2>1. ASSUME phase' \notin {"idle", "stopped"}
        PROVE  Progress(Unapplied, Remaining, live, SourceIndex, BaseIndex, base, rules)'
    <3>1. Unapplied' = Unapplied /\ phase \notin {"idle", "stopped"}
      BY <2>1
    <3> QED
      BY <1>1, <3>1 DEF CourseInv, DueInv
  <2> QED
    BY <1>3, <2>1 DEF DueInv
<1>6. PhaseInv'
  BY <1>1 DEF CourseInv, PhaseInv
<1> QED
  BY <1>2, <1>4, <1>5, <1>6 DEF CourseInv

\* What makes a call ready when the one before it is made: t is the tree before,
\* u the tree after the call c, d the call that follows.
LEMMA NextReady ==
    ASSUME NEW t, NEW u, NEW c, NEW d, NEW p, p = CallPath(c), p = CallPath(d),
           Becomes(c.name, c.record, t[p], u[p]),
           d.name = "utimes" => c.name = "symlink" /\ c.record = d.record /\ c.record.mode = 7,
           d.name = "settle" => c.name = "chmod" /\ c.record = d.record,
           d.name = "symlink" => c.name = "clear",
           d.name = "open" => c.name = "mkdir"
    PROVE  HeadReady(u, d)
<1>1. ASSUME d.name = "utimes" PROVE u[p] = [EntryOf(d.record) EXCEPT !.mtime = 0]
  <2>1. u[p] = [EntryOf(d.record) EXCEPT !.mode = 7, !.mtime = 0]
    BY <1>1 DEF Becomes
  <2>2. d.record.mode = 7
    BY <1>1
  <2>3. PICK x : x = d.record
    OBVIOUS
  <2>4. [EntryOf(x) EXCEPT !.mode = 7] = EntryOf(x)
    BY <2>2, <2>3 DEF EntryOf
  <2>5. [EntryOf(x) EXCEPT !.mode = 7, !.mtime = 0] = [EntryOf(x) EXCEPT !.mtime = 0]
    BY <2>4
  <2> QED
    BY <2>1, <2>3, <2>5
<1>2. d.name = "symlink" => u[p].kind = "none"
  BY DEF Becomes
<1>3. d.name = "open" => u[p].kind # "none"
  BY DEF Becomes
<1>4. d.name = "settle" => u[p].mode = d.record.mode
  BY DEF Becomes
<1> QED
  BY <1>1, <1>2, <1>3, <1>4 DEF HeadReady

\* The first call of a sequence that links each call to the one before it.
LEMMA FirstReady ==
    ASSUME NEW cs, cs # <<>>, cs \in Seq(Call), Follows(cs, 1), Linked(cs, 1), NEW t
    PROVE  HeadReady(t, cs[1])
  BY DEF Follows, Linked, HeadReady

\* One call on the live tree.
LEMMA ExecuteCourse == ASSUME Inv, CourseInv, Execute PROVE CourseInv'
<1>1. /\ calls # <<>> /\ phase = "committing" /\ calls' = Tail(calls)
      /\ Succeeds(live, Head(calls)) /\ live' = Effect(live, Head(calls))
      /\ UNCHANGED <<source, rules, base, phase, earlier, changes, pending>>
      /\ Unapplied' = Unapplied
  BY DEF Execute, Unapplied
<1>2. /\ SourceIndex' = SourceIndex /\ SourceRules' = SourceRules /\ BaseIndex' = BaseIndex
  BY <1>1 DEF SourceIndex, SourceRules, BaseIndex
<1>3. PICK R : R = Left(pending, Tail(calls))
  OBVIOUS
<1>4. PICK c : c = calls[1]
  OBVIOUS
<1>5. /\ Making(live, c, Unapplied, R, SourceIndex, BaseIndex, base, rules)
      /\ calls \in Seq(Call) /\ Head(calls) = c /\ CallPath(c) \in Universe
      /\ StackOK(Unapplied, pending, Tail(calls))
      /\ Remaining = R \cup {c}
  BY <1>1, <1>3, <1>4, InvMaking
<1>6. /\ Setting(source, base, rules, SourceRules, SourceIndex, BaseIndex)
      /\ live \in [Universe -> Entry] /\ IsTree(live)
  BY InvSetting
<1>7. PICK u : u = Effect(live, c)
  OBVIOUS
<1>8. live' = u /\ Succeeds(live, c) /\ Remaining' = R
  BY <1>1, <1>3, <1>5, <1>7 DEF Remaining
<1>9. Progress(Unapplied, R, u, SourceIndex, BaseIndex, base, rules) /\ DirsEmpty(u)
  BY <1>5, <1>6, <1>7, <1>8, ExecuteProgress
<1>10. OldNew(u, base, source, SourceRules)
  BY <1>5, <1>6, <1>7, <1>8, ExecuteOldNew DEF CourseInv, ContentInv
<1>11. ContentInv'
  <2>1. DirsEmpty(live)'
    BY <1>8, <1>9 DEF DirsEmpty
  <2>2. OldNew(live, base, source, SourceRules)'
    BY <1>1, <1>2, <1>8, <1>10 DEF OldNew, Halfway, NewEntry, Listed, Managed, Present
  <2> QED
    BY <2>1, <2>2 DEF ContentInv
<1>12. DueInv'
  <2>1. Sound(Unapplied, R, SourceIndex, BaseIndex)
    BY <1>5 DEF Making, Sound
  <2> QED
    BY <1>1, <1>2, <1>8, <1>9, <2>1 DEF DueInv
<1>13. PhaseInv'
  BY <1>1, <1>2 DEF CourseInv, PhaseInv
<1>14. OrderInv'
  <2>1. StackOK(Unapplied, pending, calls)'
    BY <1>1, <1>5
  <2>2. ASSUME calls' # <<>> PROVE HeadReady(live', calls'[1])
    <3>1. PICK cs, ds : cs = calls /\ ds = Tail(cs)
      OBVIOUS
    <3>2. /\ cs \in Seq(Call) /\ cs # <<>> /\ ds # <<>> /\ ds = Tail(cs)
      BY <1>1, <1>5, <2>2, <3>1
    <3>3. Len(cs) \in Nat /\ 2 \in 1..Len(cs) /\ 1 \in 1..Len(cs) /\ ds[1] = cs[2]
      BY <3>2
    <3>4. PICK d : d = cs[2]
      OBVIOUS
    <3>5. /\ Follows(cs, 2) /\ Linked(cs, 2) /\ Chain(cs)
      BY <3>1, <3>3 DEF Inv, CallsInv, CourseInv, OrderInv, StackOK
    <3>6. PICK p \in Universe : p = CallPath(c)
      BY <1>5
    <3>7. CallPath(d) = p /\ c = cs[1]
      BY <1>4, <3>1, <3>3, <3>4, <3>5, <3>6 DEF Chain
    <3>8. Becomes(c.name, c.record, live[p], u[p])
      <4>1. c \in Call
        BY <1>5 DEF Making
      <4> QED
        BY <1>6, <1>7, <1>8, <3>6, <4>1, CallEffect DEF CallPath
    <3>9. /\ d.name = "utimes" => c.name = "symlink" /\ c.record = d.record
          /\ d.name = "settle" => c.name = "chmod" /\ c.record = d.record
          /\ d.name = "symlink" => c.name = "clear"
          /\ d.name = "open" => c.name = "mkdir"
      <4>1. 2 - 1 = 1
        OBVIOUS
      <4> QED
        BY <3>4, <3>5, <3>7, <4>1 DEF Follows, Linked
    <3>10. ASSUME d.name = "utimes" PROVE c.record.mode = 7
      <4>1. c.record \in SourceIndex /\ c.record.kind = "symlink"
        BY <1>5, <3>9, <3>10 DEF Making, Justified
      <4>2. source \in [Universe -> Entry] /\ SourceIndex = Scan(source, SourceRules) /\ IsNormal(source)
        BY <1>6 DEF Setting
      <4>3. source[p] = EntryOf(c.record)
        BY <3>6, <4>1, <4>2, ListingFacts DEF CallPath
      <4> QED
        BY <4>1, <4>2, <4>3, EntryOfFacts DEF IsNormal
    <3>11. HeadReady(u, d)
      BY <3>6, <3>7, <3>8, <3>9, <3>10, NextReady
    <3> QED
      BY <1>1, <1>8, <3>1, <3>3, <3>4, <3>11
  <2> QED
    BY <2>1, <2>2 DEF OrderInv
<1> QED
  BY <1>11, <1>12, <1>13, <1>14 DEF CourseInv

\* The live tree stays, and so does what is left to do.
LEMMA SameTree ==
    ASSUME Inv, CourseInv, UNCHANGED <<source, rules, live, base, phase, earlier>>,
           phase = "committing"
    PROVE  ContentInv' /\ PhaseInv' /\ SourceIndex' = SourceIndex /\ BaseIndex' = BaseIndex
<1>1. SourceIndex' = SourceIndex /\ SourceRules' = SourceRules /\ BaseIndex' = BaseIndex
  BY DEF SourceIndex, SourceRules, BaseIndex
<1>2. ContentInv'
  BY <1>1 DEF CourseInv, ContentInv
<1>3. PhaseInv'
  BY <1>1 DEF CourseInv, PhaseInv
<1> QED
  BY <1>1, <1>2, <1>3

\* `finish_directory` of the top of the stack.
LEMMA FinishCourse ==
    ASSUME Inv, CourseInv, FinishDirectory PROVE CourseInv' /\ Remaining' = Remaining
<1>1. /\ MayFinish /\ calls' = Top.actions /\ calls = <<>> /\ phase = "committing"
      /\ pending' = SubSeq(pending, 1, Len(pending) - 1)
      /\ UNCHANGED <<source, rules, live, base, phase, earlier, changes>>
      /\ Unapplied = changes /\ Unapplied' = changes
  BY DEF FinishDirectory, Ready, Unapplied
<1>2. ContentInv' /\ PhaseInv' /\ SourceIndex' = SourceIndex /\ BaseIndex' = BaseIndex
  BY <1>1, SameTree
<1>3. PICK ch, pd, n, qd, ds : /\ ch = changes /\ pd = pending /\ n = Len(pd)
                               /\ qd = SubSeq(pd, 1, n - 1) /\ ds = pd[n].actions
  OBVIOUS
<1>4. /\ pending' = qd /\ calls' = ds /\ Stacked(pd) /\ pd # <<>> /\ StackOK(ch, pd, <<>>)
  BY <1>1, <1>3, InvSetting DEF Top, MayFinish, CourseInv, OrderInv
<1>5. n \in 1..Len(pd) /\ pd \in Seq(Deferred)
  BY <1>3, <1>4 DEF Stacked
<1>6. ASSUME NEW o \in ch
      PROVE  /\ NotAfter(pd[n].path, Path(o)) /\ ~StartsWith(Path(o), pd[n].path)
             /\ Path(o) \in Seq(Nat)
  <2>1. NotAfter(pd[n].path, Path(o)) /\ Path(o) \in Seq(Nat)
    BY <1>1, <1>3, <1>5, UnappliedFacts DEF Inv, QueueInv
  <2>2. ~StartsWith(Path(o), Top.path)
    BY <1>1, <1>3, NothingBelow DEF Inv
  <2> QED
    BY <1>3, <2>1, <2>2 DEF Top
<1>7. StackOK(ch, qd, ds) /\ SameLeft(qd, ds, pd)
  BY <1>3, <1>4, <1>6, PopOK
<1>8. Remaining' = Remaining
  BY <1>1, <1>3, <1>4, <1>7 DEF Remaining, SameLeft
<1>9. DueInv'
  BY <1>1, <1>2, <1>8 DEF CourseInv, DueInv
<1>10. HeadReady(live, ds[1])
  <2>1. Waits(pd[n], SourceIndex, base, rules) /\ Waiting(pd[n])
    BY <1>3, <1>4, <1>5 DEF Inv, ActionsInv, StackOK
  <2>2. Fits(ds, SourceIndex, base, rules) /\ ds # <<>>
        /\ \A i \in 1..Len(ds) : Linked(ds, i)
    BY <1>3, <2>1 DEF Waits, Waiting
  <2>3. ds \in Seq(Call) /\ 1 \in 1..Len(ds)
    BY <2>2 DEF Fits
  <2>4. Follows(ds, 1) /\ Linked(ds, 1)
    BY <2>2, <2>3 DEF Fits
  <2> QED
    BY <2>2, <2>3, <2>4, FirstReady
<1>11. OrderInv'
  BY <1>1, <1>3, <1>4, <1>7, <1>10 DEF OrderInv
<1> QED
  BY <1>2, <1>8, <1>9, <1>11 DEF CourseInv

\* An operation at the path of the top of the stack replaces the directory that
\* is removed there: it is deferred, and it is not a directory itself.
LEMMA AtTheTop ==
    ASSUME Inv, CourseInv, calls = <<>>, NEW o \in Unapplied, pending # <<>>, Top.path = Path(o)
    PROVE  DeferredCalls(o) # <<>> /\ o.op # "UpsertDirectory"
<1>1. PICK n, p : n = Len(pending) /\ p = Path(o)
  OBVIOUS
<1>2. pending \in Seq(Deferred) /\ n \in 1..Len(pending) /\ Top = pending[n] /\ pending[n].path = p
  BY <1>1 DEF Inv, ShapeInv, Top
<1>3. PICK a : a = pending[n].actions
  OBVIOUS
<1>4. StackOK(Unapplied, pending, calls) /\ Sound(Unapplied, Remaining, SourceIndex, BaseIndex)
  BY DEF CourseInv, OrderInv, DueInv
<1>5. o.op # "Delete" /\ \A j \in 1..Len(a) : a[j].name = "rmdir"
  BY <1>1, <1>2, <1>3, <1>4 DEF StackOK, AheadOfStack
<1>6. a # <<>> /\ a \in Seq(Call) /\ Stacked(pending)
  BY <1>2, <1>3, <1>4, InvSetting, StackedFacts DEF StackOK, Waiting
<1>7. 1 \in 1..Len(a)
  BY <1>6
<1>8. a[1].name = "rmdir" /\ a[1] \in Remaining /\ CallPath(a[1]) = p
  <2>1. a[1] \in Calls(a)
    BY <1>7 DEF Calls
  <2>2. a[1] \in Left(pending, calls)
    BY <1>2, <1>3, <2>1 DEF Left
  <2> QED
    BY <1>2, <1>3, <1>5, <1>6, <1>7, <2>2 DEF Remaining, Stacked
<1>9. ReplacingDirectory(Path(o))
  BY <1>1, <1>2, <1>3, <1>5, <1>7 DEF ReplacingDirectory
<1>10. Warranted(o, SourceIndex, base, rules) /\ SoundOp(o, SourceIndex, BaseIndex)
       /\ o.op \in OperationKinds
  BY <1>4, UnappliedFacts DEF Inv, Sound, Warranted
<1>11. o.op # "UpsertDirectory"
  <2>1. ~ \E x \in SourceIndex : x.path = p /\ x.kind = "dir"
    <3>1. SoundCall(a[1], SourceIndex, BaseIndex)
      BY <1>4, <1>8 DEF Sound
    <3> QED
      BY <1>8, <3>1 DEF SoundCall, Deletes, Unwanted
  <2>2. o.record \in SourceIndex /\ o.record.path = p
    BY <1>1, <1>5, <1>10 DEF Warranted, Path
  <2> QED
    BY <1>10, <2>1, <2>2 DEF Warranted
<1>12. DeferredCalls(o) # <<>>
  <2>1. DeferredCalls(o) = <<"rename">> \/ DeferredCalls(o) = SymlinkCalls
    BY <1>5, <1>9, <1>10, <1>11, ApplyCases
  <2>2. Len(<<"rename">>) # 0 /\ Len(SymlinkCalls) # 0 /\ Len(<<>>) = 0
    BY NameShapes
  <2> QED
    BY <2>1, <2>2
<1> QED
  BY <1>11, <1>12

\* `apply` of the first operation left.
LEMMA ApplyCourse ==
    ASSUME Inv, CourseInv, NEW o \in changes, Apply(o)
    PROVE  CourseInv' /\ \E N : Stands(o, N) /\ Remaining' = Remaining \cup N
<1>1. /\ IsNext(o) /\ InTop(Path(o)) /\ calls = <<>> /\ phase = "committing"
      /\ changes' = changes \ {o}
      /\ calls' = CallsFor(ImmediateCalls(o), o.record)
      /\ pending' = IF DeferredCalls(o) = <<>> THEN pending
                    ELSE Defer(Path(o), CallsFor(DeferredCalls(o), o.record))
      /\ UNCHANGED <<source, rules, live, base, phase, earlier>>
      /\ Unapplied = changes /\ Unapplied' = changes'
  BY DEF Apply, Ready, Unapplied
<1>2. ContentInv' /\ PhaseInv' /\ SourceIndex' = SourceIndex /\ BaseIndex' = BaseIndex
  BY <1>1, SameTree
<1>3. PICK d, e, p : /\ d = CallsFor(ImmediateCalls(o), o.record)
                     /\ e = CallsFor(DeferredCalls(o), o.record) /\ p = Path(o)
  OBVIOUS
<1>4. PICK ch, pd, C, qd : ch = changes /\ pd = pending /\ C = ch \ {o} /\ qd = pending'
  OBVIOUS
<1>5. Warranted(o, SourceIndex, base, rules) /\ o.op \in OperationKinds /\ p \in Universe
  BY <1>1, <1>3, UnappliedFacts DEF Inv, Warranted
<1>6. /\ Fits(d, SourceIndex, base, rules) /\ e \in Seq(Call)
  BY <1>3, <1>5, NamesFacts, CallsFacts DEF Fits
<1>7. Answers(o, d, e) /\ (Len(e) = 0 <=> DeferredCalls(o) = <<>>)
  <2>1. o.op \notin {"Delete", "UpsertDirectory"} => o.record.kind # "dir"
    BY <1>5 DEF Warranted, OperationKinds
  <2> QED
    BY <1>3, <1>5, <2>1, ApplyCalls
<1>8. pd \in Seq(Deferred) /\ Stacked(pd) /\ StackOK(ch, pd, <<>>)
  BY <1>1, <1>4, InvSetting DEF CourseInv, OrderInv, Inv, ShapeInv
<1>9. Applying(ch, pd, o, p)
  <2>1. \A x \in changes \ {o} : Precedes(o, x)
    BY <1>1, NextIsFirst DEF Inv, PlanInv
  <2> QED
    BY <1>1, <1>3, <1>4, <1>5, <1>8, <2>1 DEF Applying, InTop, Top
<1>10. StackOK(C, qd, d) /\ Gains(qd, d, e, pd)
  <2>1. CASE DeferredCalls(o) = <<>>
    <3>1. pd # <<>> => pd[Len(pd)].path # p
      BY <1>1, <1>3, <1>4, <2>1, AtTheTop DEF Top
    <3>2. qd = pd /\ Len(e) = 0
      BY <1>1, <1>4, <1>7, <2>1
    <3>3. StackOK(C, pd, d) /\ Gains(pd, d, e, pd)
      BY <1>4, <1>7, <1>9, <3>1, <3>2, KeepOK
    <3> QED
      BY <3>2, <3>3
  <2>2. CASE DeferredCalls(o) # <<>> /\ pending # <<>> /\ Top.path = Path(o)
    <3>1. qd = [pending EXCEPT ![Len(pending)].actions = @ \o e]
      BY <1>1, <1>3, <1>4, <2>2 DEF Defer
    <3>2. PICK n : n = Len(pd)
      OBVIOUS
    <3>3. n \in 1..Len(pd) /\ pd[n].path = p /\ pd[n] \in Deferred
      BY <1>3, <1>4, <1>8, <2>2, <3>2 DEF Top
    <3>4. PICK z : z = [pd[n] EXCEPT !.actions = @ \o e]
      OBVIOUS
    <3>5. z \in Deferred /\ z.path = p /\ z.actions = pd[n].actions \o e
      <4>1. pd[n].actions \in Seq(Call) /\ pd[n].actions \o e \in Seq(Call)
        BY <1>6, <3>3 DEF Deferred
      <4> QED
        BY <3>3, <3>4, <4>1 DEF Deferred
    <3>6. qd = [pd EXCEPT ![n] = z]
      BY <1>4, <1>8, <3>1, <3>2, <3>3, <3>4
    <3>7. o.op # "UpsertDirectory" /\ Len(e) # 0
      BY <1>1, <1>7, <2>2, AtTheTop
    <3>8. Grown(pd, n, p, e, z, qd)
      BY <3>2, <3>3, <3>5, <3>6 DEF Grown
    <3> QED
      BY <1>4, <1>6, <1>7, <1>9, <3>7, <3>8, MoreOK
  <2>3. CASE DeferredCalls(o) # <<>> /\ ~(pending # <<>> /\ Top.path = Path(o))
    <3>1. PICK z : z = [path |-> p, actions |-> e]
      OBVIOUS
    <3>2. z \in Deferred /\ z.path = p /\ z.actions = e
      BY <1>5, <1>6, <3>1 DEF Deferred
    <3>3. qd = Append(pd, z)
      BY <1>1, <1>3, <1>4, <2>3, <3>1 DEF Defer
    <3>4. (pd # <<>> => pd[Len(pd)].path # p) /\ Len(e) # 0
      BY <1>3, <1>4, <1>7, <2>3 DEF Top
    <3> QED
      BY <1>4, <1>6, <1>7, <1>9, <3>2, <3>3, <3>4, PushOK
  <2> QED
    BY <2>1, <2>2, <2>3
<1>11. PICK K, N, L : K = Left(pd, <<>>) /\ N = Calls(d) \cup Calls(e) /\ L = K \cup N
  OBVIOUS
<1>12. Remaining = K /\ Remaining' = L
  BY <1>1, <1>3, <1>4, <1>10, <1>11 DEF Remaining, Gains
<1>13. /\ Sound(ch, K, SourceIndex, BaseIndex)
       /\ Progress(ch, K, live, SourceIndex, BaseIndex, base, rules)
  BY <1>1, <1>4, <1>12 DEF CourseInv, DueInv
<1>14. Sound(C, L, SourceIndex, BaseIndex) /\ Progress(C, L, live, SourceIndex, BaseIndex, base, rules)
  <2>1. Stands(o, N)
    BY <1>7, <1>11 DEF Answers
  <2> QED
    BY <1>4, <1>11, <1>13, <2>1, ApplyProgress
<1>15. DueInv'
  BY <1>1, <1>2, <1>4, <1>12, <1>14 DEF DueInv
<1>16. d # <<>> => HeadReady(live, d[1])
  <2>1. SUFFICES ASSUME d # <<>> PROVE HeadReady(live, d[1])
    OBVIOUS
  <2>2. d \in Seq(Call) /\ 1 \in 1..Len(d)
    BY <1>6, <2>1 DEF Fits
  <2>3. Follows(d, 1) /\ Linked(d, 1)
    BY <1>6, <1>7, <2>2 DEF Fits, Answers
  <2> QED
    BY <2>1, <2>2, <2>3, FirstReady
<1>17. OrderInv'
  BY <1>1, <1>3, <1>4, <1>10, <1>16 DEF OrderInv
<1>18. Stands(o, N) /\ Remaining' = Remaining \cup N
  BY <1>7, <1>11, <1>12 DEF Answers
<1> QED
  BY <1>2, <1>15, <1>17, <1>18 DEF CourseInv

\* What is left of the plan never comes before what was applied last.
LEMMA InOrder == ASSUME Inv, NEW o \in Unapplied PROVE ~OutOfOrder(Path(o))
<1>1. SUFFICES ASSUME OutOfOrder(Path(o)) PROVE FALSE
  OBVIOUS
<1>2. previous # <<>> /\ Before(Path(o), previous) /\ NotAfter(previous, Path(o))
  BY <1>1 DEF OutOfOrder, Inv, QueueInv
<1>3. previous \in Seq(Nat) /\ Path(o) \in Seq(Nat)
  BY UnappliedFacts DEF Inv, ShapeInv
<1> QED
  BY <1>2, <1>3, BeforeTransitive, BeforeIrreflexive DEF NotAfter

\* Every step keeps the attempt on its course.
LEMMA CourseStep == Inv /\ CourseInv /\ [Next]_vars => CourseInv'
<1> SUFFICES ASSUME Inv, CourseInv, [Next]_vars PROVE CourseInv'
  OBVIOUS
<1>1. CASE Begin
  BY <1>1, BeginCourse
<1>2. CASE \E o \in changes : Apply(o)
  BY <1>2, ApplyCourse
<1>3. CASE \E o \in changes : Refuse(o)
  BY <1>3, InOrder DEF Refuse, Ready, Unapplied
<1>4. CASE FinishDirectory
  BY <1>4, FinishCourse
<1>5. CASE Execute
  BY <1>5, ExecuteCourse
<1>6. CASE CallFails
  <2>1. Head(calls) = calls[1]
    BY <1>6 DEF CallFails, Inv, CallsInv
  <2>2. /\ UNCHANGED <<source, rules, live, base, earlier, pending, calls>>
        /\ phase = "committing" /\ phase' = "failed" /\ Unapplied' = Unapplied
        /\ calls # <<>> /\ ~Succeeds(live, calls[1])
    BY <1>6, <2>1 DEF CallFails, committer, Unapplied
  <2> QED
    BY <2>2, EndCourse
<1>7. CASE Complete
  <2>1. /\ UNCHANGED <<source, rules, live, base, earlier, pending, calls>>
        /\ phase = "committing" /\ phase' = "done" /\ Unapplied' = Unapplied
        /\ changes' = {} /\ pending = <<>> /\ calls = <<>>
    BY <1>7 DEF Complete, Ready, committer, Unapplied
  <2> QED
    BY <2>1, EndCourse
<1>8. CASE Interrupted
  <2>1. changes \subseteq plan
    BY DEF Inv, PlanInv
  <2>2. /\ UNCHANGED <<source, rules, live, base, earlier, pending, calls>>
        /\ phase \in {"staging", "committing"} /\ phase' = "stopped"
        /\ Unapplied' \subseteq Unapplied
    BY <1>8, <2>1 DEF Interrupted, Active, committer, Unapplied
  <2> QED
    BY <2>2, EndCourse
<1>9. CASE Idle \/ UNCHANGED vars
  <2>1. /\ UNCHANGED <<source, rules, live, base, earlier, changes, pending, calls, phase>>
        /\ Unapplied' = Unapplied
    BY <1>9 DEF Idle, vars, committer, Unapplied
  <2> QED
    BY <2>1, EndCourse
<1>10. CASE (\E o \in plan : Stage(o)) \/ StartCommit
  <2>1. /\ UNCHANGED <<source, rules, live, base, earlier, pending, calls>>
        /\ phase = "staging" /\ phase' \in {"staging", "committing"}
        /\ Unapplied' = Unapplied
    BY <1>10 DEF Stage, StartCommit, committer, Unapplied
  <2> QED
    BY <2>1, EndCourse
<1> QED
  BY <1>1, <1>2, <1>3, <1>4, <1>5, <1>6, <1>7, <1>8, <1>9, <1>10 DEF Next, Committing

\* So every attempt is on its course, wherever the earlier ones stopped.
LEMMA Course == Spec => [](Inv /\ CourseInv)
<1>1. Init => Inv /\ CourseInv
  BY InitInv, InitCourse
<1>2. (Inv /\ CourseInv) /\ [Next]_vars => (Inv /\ CourseInv)'
  BY InvStep, CourseStep
<1> QED
  BY <1>1, <1>2, PTL DEF Spec

-----------------------------------------------------------------------------
(***************************************************************************)
(* A directory whose mode a commit has written, and which is not writable, *)
(* is sealed: what is in it is what the source has, and nothing that is    *)
(* left adds or removes a name in it.                                      *)
(***************************************************************************)
Sealed(q, t, src, r) ==
    \A p \in Universe : Parent(p) = q =>
        /\ \A x \in src : x.path = p =>
              (x.kind = "dir" /\ t[p].kind = "dir") \/ t[p] = EntryOf(x)
        /\ (\A x \in src : x.path # p) => ~Listed(t, p, r)

Calm(q, ch, K) ==
    /\ \A o \in ch : Parent(Path(o)) = q => o.op = "UpsertDirectory"
    /\ \A c \in K : Parent(CallPath(c)) = q => c.name \in Makes

\* A directory the source lists, and sealed as long as it is not writable.
Held(q, ch, K, t, src, r) ==
    /\ q \in Universe /\ t[q].kind = "dir"
    /\ \E x \in src : x.path = q /\ x.kind = "dir"
    /\ t[q].mode # 7 => Sealed(q, t, src, r) /\ Calm(q, ch, K)

SealedInv == \A q \in touched : Held(q, Unapplied, Remaining, live, SourceIndex, rules)

\* A directory is sealed when nothing below it is left.
LEMMA SealedNow ==
    ASSUME NEW s, NEW b, NEW r, NEW rx, NEW src, NEW dst, Setting(s, b, r, rx, src, dst),
           NEW t, Spared(t, b, r), NEW ch, NEW K, Progress(ch, K, t, src, dst, b, r),
           NEW q,
           \A o \in ch : Parent(Path(o)) # q,
           \A c \in K : Parent(CallPath(c)) # q
    PROVE  Sealed(q, t, src, r)
<1>1. /\ b \in [Universe -> Entry] /\ IsTree(b) /\ dst = Scan(b, r)
  BY DEF Setting
<1>2. SUFFICES ASSUME NEW p \in Universe, Parent(p) = q
               PROVE  /\ \A x \in src : x.path = p =>
                            (x.kind = "dir" /\ t[p].kind = "dir") \/ t[p] = EntryOf(x)
                      /\ (\A x \in src : x.path # p) => ~Listed(t, p, r)
  BY DEF Sealed
<1>3. ASSUME NEW x \in src, x.path = p
      PROVE  (x.kind = "dir" /\ t[p].kind = "dir") \/ t[p] = EntryOf(x)
  <2>1. CASE x \in dst
    BY <1>3, <2>1 DEF Progress, Kept, SameButTime
  <2>2. CASE x \notin dst
    <3>1. ~DueUpsert(ch, K, x)
      BY <1>2, <1>3 DEF DueUpsert, DueOp, Path, CallPath
    <3> QED
      BY <1>3, <2>2, <3>1 DEF Progress, Written
  <2> QED
    BY <2>1, <2>2
<1>4. ASSUME \A x \in src : x.path # p, Listed(t, p, r) PROVE FALSE
  <2>1. Present(t, p) /\ Present(b, p)
    BY <1>4 DEF Listed, Progress, NothingNew
  <2>2. CASE Listed(b, p, r)
    <3>1. PICK y \in dst : y.path = p
      BY <1>1, <2>2, ListingFacts
    <3>2. ~DueDelete(ch, K, p)
      BY <1>2 DEF DueDelete
    <3> QED
      BY <1>4, <2>1, <3>1, <3>2 DEF Progress, Removed
  <2>3. CASE ~Listed(b, p, r)
    <3>1. Untouchable(b, p, r)
      BY <2>1, <2>3 DEF Untouchable
    <3>2. Untouchable(t, p, r)
      BY <1>1, <3>1, StillLeftOut DEF Spared
    <3> QED
      BY <1>4, <3>2 DEF Untouchable
  <2> QED
    BY <2>2, <2>3
<1> QED
  BY <1>3, <1>4

\* It stays so while its directories stay directories and the rest of its
\* entries stay as they are.
LEMMA SealedKept ==
    ASSUME NEW t, IsTree(t), NEW u, IsTree(u), NEW q, NEW src, NEW r, Sealed(q, t, src, r),
           \A p \in Universe : Parent(p) = q =>
               u[p].kind = t[p].kind /\ (t[p].kind # "dir" => u[p] = t[p])
    PROVE  Sealed(q, u, src, r)
<1>1. SUFFICES ASSUME NEW p \in Universe, Parent(p) = q
               PROVE  /\ \A x \in src : x.path = p =>
                            (x.kind = "dir" /\ u[p].kind = "dir") \/ u[p] = EntryOf(x)
                      /\ (\A x \in src : x.path # p) => ~Listed(u, p, r)
  BY DEF Sealed
<1>2. u[p].kind = t[p].kind /\ (t[p].kind # "dir" => u[p] = t[p])
  BY <1>1
<1>3. ASSUME NEW x \in src, x.path = p
      PROVE  (x.kind = "dir" /\ u[p].kind = "dir") \/ u[p] = EntryOf(x)
  <2>1. (x.kind = "dir" /\ t[p].kind = "dir") \/ t[p] = EntryOf(x)
    BY <1>1, <1>3 DEF Sealed
  <2>2. EntryOf(x).kind = x.kind
    BY EntryOfFacts
  <2> QED
    BY <1>2, <2>1, <2>2
<1>4. ASSUME \A x \in src : x.path # p, Listed(u, p, r) PROVE FALSE
  <2>1. Present(u, p) /\ Present(t, p)
    BY <1>2, <1>4 DEF Listed, Present
  <2>2. ASSUME NEW a \in Ancestors(p) \cup {p} PROVE Managed(t, a, r)
    <3>1. (t[a].kind = "dir") <=> (u[a].kind = "dir")
      BY <1>2, <2>1 DEF IsTree
    <3>2. Managed(u, a, r)
      BY <1>4 DEF Listed
    <3>3. (t[a].kind = "dir") = (u[a].kind = "dir")
      BY <3>1
    <3> QED
      BY <3>2, <3>3 DEF Managed
  <2>3. Listed(t, p, r)
    BY <2>1, <2>2 DEF Listed
  <2> QED
    BY <1>1, <1>4, <2>3 DEF Sealed
<1> QED
  BY <1>3, <1>4

\* A later attempt finds nothing to do in it but to settle its directories.
LEMMA SealedCalm ==
    ASSUME NEW s, NEW t, NEW r, NEW rx, NEW src, NEW dst, Setting(s, t, r, rx, src, dst),
           NEW q, Sealed(q, t, src, r)
    PROVE  \A o \in Difference(src, dst) : Parent(Path(o)) = q => o.op = "UpsertDirectory"
<1>1. /\ s \in [Universe -> Entry] /\ IsTree(s) /\ src = Scan(s, rx)
      /\ t \in [Universe -> Entry] /\ IsTree(t) /\ dst = Scan(t, r) /\ r \subseteq rx
  BY DEF Setting
<1>2. \A x \in src : /\ x \in Record /\ x.path \in Universe /\ x.kind \in Kinds
                     /\ Listed(s, x.path, rx) /\ s[x.path] = EntryOf(x)
  BY <1>1, ListingFacts
<1>3. SUFFICES ASSUME NEW o \in Difference(src, dst), Parent(Path(o)) = q
               PROVE  o.op = "UpsertDirectory"
  OBVIOUS
<1>4. SoundOp(o, src, dst) /\ Warranted(o, src, t, r)
  BY <1>1, <1>2, DifferenceSound, DifferenceFacts
<1>5. PICK p \in Universe : p = Path(o)
  BY <1>4 DEF Warranted
<1>6. CASE o.op = "Delete"
  <2>1. PICK y \in dst : y.path = p /\ y.kind = o.record.kind
    BY <1>4, <1>5, <1>6 DEF SoundOp, Unwanted
  <2>2. Listed(t, p, r) /\ y.kind = t[p].kind
    BY <1>1, <2>1, ListingFacts, EntryOfFacts
  <2>3. PICK x \in src : x.path = p
    BY <1>3, <1>5, <2>2 DEF Sealed
  <2>4. x.kind = t[p].kind
    BY <1>3, <1>5, <2>3, EntryOfFacts DEF Sealed
  <2> QED
    BY <1>4, <1>5, <1>6, <2>1, <2>2, <2>3, <2>4 DEF SoundOp, Unwanted
<1>7. CASE o.op \notin {"Delete", "UpsertDirectory"}
  <2>1. PICK x \in src : x = o.record
    BY <1>4, <1>7 DEF SoundOp
  <2>2. x \notin dst /\ x.path = p /\ x.kind # "dir"
    BY <1>4, <1>5, <1>7, <2>1 DEF SoundOp, Warranted, OperationKinds, Path
  <2>3. t[p] = EntryOf(x)
    BY <1>3, <1>5, <2>2 DEF Sealed
  <2>4. Present(t, p) /\ t[p].kind = s[p].kind
    BY <1>2, <2>2, <2>3, EntryOfFacts DEF Present, Kinds
  <2>5. ASSUME NEW a \in Ancestors(p) \cup {p} PROVE Managed(t, a, r)
    <3>1. Listed(s, p, rx) /\ Present(s, p)
      BY <1>2, <2>2 DEF Listed
    <3>2. Managed(s, a, rx) /\ t[a].kind = s[a].kind
      <4>1. a # p => s[a].kind = "dir" /\ t[a].kind = "dir"
        BY <1>1, <2>4, <3>1 DEF IsTree
      <4> QED
        BY <2>4, <3>1, <4>1 DEF Listed
    <3> QED
      BY <1>1, <3>2 DEF Managed
  <2>6. Listed(t, p, r)
    BY <2>4, <2>5 DEF Listed
  <2>7. RecordAt(t, p) \in dst
    BY <1>1, <2>6, ListingFacts
  <2>8. x = RecordAt(t, p)
    <3>1. x = [path |-> x.path, kind |-> x.kind, data |-> x.data, mode |-> x.mode, mtime |-> x.mtime]
      BY <1>2 DEF Record
    <3>2. t[p].kind = x.kind /\ t[p].data = x.data /\ t[p].mode = x.mode /\ t[p].mtime = x.mtime
      BY <2>3 DEF EntryOf
    <3> QED
      BY <2>2, <3>1, <3>2 DEF RecordAt
  <2> QED
    BY <2>2, <2>7, <2>8
<1> QED
  BY <1>6, <1>7

\* A call at a directory that is held leaves it one, with the mode it has
\* unless the call sets it, and leaves what it contains alone.
LEMMA CallAtHeld ==
    ASSUME NEW s, NEW b, NEW r, NEW rx, NEW src, NEW dst, Setting(s, b, r, rx, src, dst),
           NEW t, NEW c, NEW ch, NEW R, Making(t, c, ch, R, src, dst, b, r),
           NEW q \in Universe, q = CallPath(c), t[q].kind = "dir",
           \E x \in src : x.path = q /\ x.kind = "dir",
           Succeeds(t, c), NEW u, u = Effect(t, c)
    PROVE  /\ c.name \in Makes /\ u[q].kind = "dir"
           /\ \A p \in Universe \ {q} : u[p] = t[p]
           /\ c.name \notin {"open", "chmod"} => u[q].mode = t[q].mode
<1>1. /\ Becomes(c.name, c.record, t[q], u[q]) /\ Quiet(t, u, c) /\ c.name \in CallNames
      /\ t[q] \in Entry
  BY CallEffect DEF Making, CallPath, Call
<1>2. PICK x \in src : x.path = q /\ x.kind = "dir"
  OBVIOUS
<1>3. c.name \notin Deletes => c.record = x
  <2>1. src = Scan(s, rx) /\ s \in [Universe -> Entry]
    BY DEF Setting
  <2> QED
    BY <1>2, <2>1, ListingFacts DEF Making, Justified, Deletes, CallPath
<1>4. c.name # "rmdir"
  BY <1>2 DEF Making, Sound, SoundCall, Deletes, Unwanted
<1>5. c.name \notin {"unlink", "rename", "clear", "symlink"}
  BY <1>1 DEF Becomes
<1>6. c.name # "utimes"
  BY <1>2, <1>3 DEF Making, Justified, Deletes
<1>7. c.name \in Makes
  BY <1>1, <1>4, <1>5, <1>6 DEF CallNames, Makes
<1>8. \A p \in Universe \ {q} : u[p] = t[p]
  BY <1>1, <1>7 DEF Quiet, Makes, Present, CallPath
<1>9. u[q].kind = "dir" /\ (c.name \notin {"open", "chmod"} => u[q].mode = t[q].mode)
  <2>1. CASE c.name = "mkdir"
    BY <1>1, <2>1 DEF Becomes
  <2>2. CASE c.name = "settle"
    <3>1. PICK d \in Entry : d = t[q]
      BY <1>1
    <3>2. u[q] = [d EXCEPT !.mtime = c.record.mtime]
      BY <1>1, <2>2, <3>1 DEF Becomes
    <3>3. u[q].kind = d.kind /\ u[q].mode = d.mode
      BY <3>1, <3>2 DEF Entry
    <3> QED
      BY <3>1, <3>3
  <2>3. CASE c.name \in {"open", "chmod"}
    BY <1>1, <2>3 DEF Becomes
  <2> QED
    BY <1>7, <2>1, <2>2, <2>3 DEF Makes
<1> QED
  BY <1>7, <1>8, <1>9

\* A call made anywhere keeps a directory that is held so.
LEMMA HeldStays ==
    ASSUME NEW s, NEW b, NEW r, NEW rx, NEW src, NEW dst, Setting(s, b, r, rx, src, dst),
           NEW t, NEW c, NEW ch, NEW R, Making(t, c, ch, R, src, dst, b, r),
           CallPath(c) \in Universe, Succeeds(t, c), NEW u, u = Effect(t, c),
           NEW q, Held(q, ch, R \cup {c}, t, src, r),
           q = CallPath(c) => c.name \notin {"open", "chmod"}
    PROVE  Held(q, ch, R, u, src, r)
<1>1. /\ q \in Universe /\ t[q].kind = "dir"
      /\ \E x \in src : x.path = q /\ x.kind = "dir"
      /\ t[q].mode # 7 => Sealed(q, t, src, r) /\ Calm(q, ch, R \cup {c})
  BY DEF Held
<1>2. PICK p \in Universe : p = CallPath(c)
  OBVIOUS
<1>3. t \in [Universe -> Entry] /\ IsTree(t) /\ c \in Call
  BY DEF Making
<1>4. u \in [Universe -> Entry] /\ IsTree(u) /\ Aside(t, u, p)
      /\ Becomes(c.name, c.record, t[p], u[p])
  BY <1>2, <1>3, CallEffect DEF CallPath
<1>5. Calm(q, ch, R \cup {c}) => Calm(q, ch, R)
  BY DEF Calm
<1>6. CASE q = p
  <2>1. /\ u[q].kind = "dir" /\ u[q].mode = t[q].mode
        /\ \A w \in Universe \ {q} : u[w] = t[w]
    BY <1>1, <1>2, <1>6, CallAtHeld
  <2>2. ASSUME NEW w \in Universe, Parent(w) = q PROVE u[w] = t[w]
    <3>1. w # q
      BY <1>1, <2>2, ChildFacts, AncestorFacts
    <3> QED
      BY <2>1, <3>1
  <2>3. Sealed(q, t, src, r) => Sealed(q, u, src, r)
    BY <1>3, <1>4, <2>2, SealedKept
  <2> QED
    BY <1>1, <1>5, <2>1, <2>3 DEF Held
<1>7. CASE q # p
  <2>1. u[q].kind = "dir" /\ u[q].mode = t[q].mode
    BY <1>1, <1>4, <1>7 DEF Aside, SameButTime
  <2>2. SUFFICES ASSUME t[q].mode # 7 PROVE Sealed(q, u, src, r)
    BY <1>1, <1>5, <2>1 DEF Held
  <2>3. Sealed(q, t, src, r) /\ Calm(q, ch, R \cup {c})
    BY <1>1, <2>2
  <2>4. ASSUME NEW w \in Universe, Parent(w) = q
        PROVE  u[w].kind = t[w].kind /\ (t[w].kind # "dir" => u[w] = t[w])
    <3>1. CASE w # p
      BY <1>4, <3>1 DEF Aside, SameButTime
    <3>2. CASE w = p
      <4>1. c.name \in Makes
        BY <1>2, <2>3, <2>4, <3>2 DEF Calm
      <4>2. c.record \in src /\ c.record.kind = "dir" /\ c.record.path = p
        BY <1>2, <4>1 DEF Making, Justified, Makes, CallPath
      <4>3. t[p].kind = "dir"
        BY <2>3, <2>4, <3>2, <4>2, EntryOfFacts DEF Sealed
      <4>4. u[p].kind = "dir"
        BY <1>2, <4>2, <4>3, CallAtHeld
      <4> QED
        BY <3>2, <4>3, <4>4
    <3> QED
      BY <3>1, <3>2
  <2> QED
    BY <1>3, <1>4, <2>3, <2>4, SealedKept
<1> QED
  BY <1>6, <1>7

\* A directory is held when the commit opens it, and when it is given its mode.
LEMMA HeldNow ==
    ASSUME NEW s, NEW b, NEW r, NEW rx, NEW src, NEW dst, Setting(s, b, r, rx, src, dst),
           NEW t, NEW c, NEW ch, NEW R, Making(t, c, ch, R, src, dst, b, r),
           NEW q \in Universe, q = CallPath(c), Succeeds(t, c), NEW u, u = Effect(t, c),
           Spared(u, b, r), c.name \in {"open", "chmod"},
           \A o \in ch : Path(o) \in Universe, \A d \in R : CallPath(d) \in Universe
    PROVE  Held(q, ch, R, u, src, r)
<1>1. Becomes(c.name, c.record, t[q], u[q])
  BY CallEffect DEF Making, CallPath
<1>2. u[q].kind = "dir" /\ (c.name = "open" => u[q].mode = 7)
  BY <1>1 DEF Becomes
<1>3. c.record \in src /\ c.record.path = q /\ c.record.kind = "dir"
  BY DEF Making, Justified, Makes, CallPath
<1>4. ASSUME c.name = "chmod" PROVE Sealed(q, u, src, r) /\ Calm(q, ch, R)
  <2>1. /\ \A o \in ch : ~StartsWith(Path(o), q)
        /\ \A d \in R : StartsWith(CallPath(d), q) => CallPath(d) = q
    BY <1>4 DEF Making, HeadLast, Closes
  <2>2. ASSUME NEW w \in Universe, Parent(w) = q PROVE StartsWith(w, q) /\ w # q
    BY <2>2, ChildFacts, AncestorFacts, AncestorAbove
  <2>3. \A o \in ch : Parent(Path(o)) # q
    BY <2>1, <2>2
  <2>4. \A d \in R : Parent(CallPath(d)) # q
    BY <2>1, <2>2
  <2>5. Progress(ch, R, u, src, dst, b, r)
    BY ExecuteProgress
  <2>6. Sealed(q, u, src, r)
    BY <2>3, <2>4, <2>5, SealedNow
  <2> QED
    BY <2>3, <2>4, <2>6 DEF Calm
<1> QED
  BY <1>2, <1>3, <1>4 DEF Held

\* What is left is at paths of the universe.
LEMMA RemainingFacts ==
    ASSUME Inv PROVE \A d \in Remaining : CallPath(d) \in Universe
<1>1. \A i \in 1..Len(calls) : CallPath(calls[i]) \in Universe
  BY DEF Inv, CallsInv, Justified, CallPath
<1>2. ASSUME NEW k \in 1..Len(pending), NEW j \in 1..Len(pending[k].actions)
      PROVE  CallPath(pending[k].actions[j]) \in Universe
  BY DEF Inv, ActionsInv, Waits, Fits, Justified, CallPath
<1> QED
  BY <1>1, <1>2 DEF Remaining, Left, Calls

\* One call on the live tree.
LEMMA ExecuteSealed == ASSUME Inv, CourseInv, SealedInv, Execute, Inv' PROVE SealedInv'
<1>1. PICK R, c, u, ch : /\ R = Left(pending, Tail(calls)) /\ c = calls[1]
                         /\ u = Effect(live, c) /\ ch = Unapplied
  OBVIOUS
<1>2. /\ calls # <<>> /\ phase = "committing" /\ calls' = Tail(calls)
      /\ Succeeds(live, Head(calls)) /\ live' = Effect(live, Head(calls))
      /\ touched' = IF Head(calls).name \in {"open", "chmod"}
                    THEN touched \cup {Path(Head(calls))} ELSE touched
      /\ UNCHANGED <<source, rules, base, phase, pending>> /\ Unapplied' = Unapplied
  BY DEF Execute, Unapplied
<1>3. /\ Making(live, c, ch, R, SourceIndex, BaseIndex, base, rules)
      /\ calls \in Seq(Call) /\ Head(calls) = c /\ CallPath(c) \in Universe
      /\ Remaining = R \cup {c}
  BY <1>1, <1>2, InvMaking
<1>4. /\ Setting(source, base, rules, SourceRules, SourceIndex, BaseIndex)
  BY InvSetting
<1>5. live' = u /\ Remaining' = R /\ SourceIndex' = SourceIndex /\ Succeeds(live, c)
  BY <1>1, <1>2, <1>3 DEF Remaining, SourceIndex, SourceRules
<1>6. Spared(u, base, rules)
  BY <1>2, <1>5 DEF Inv, IgnoredPreserved, Spared
<1>7. /\ \A o \in ch : Path(o) \in Universe
      /\ \A d \in R : CallPath(d) \in Universe
  BY <1>1, <1>3, UnappliedFacts, RemainingFacts DEF Inv, Warranted
<1>8. ASSUME NEW q \in touched' PROVE Held(q, ch, R, u, SourceIndex, rules)
  <2>1. CASE q = CallPath(c) /\ c.name \in {"open", "chmod"}
    BY <1>1, <1>3, <1>4, <1>5, <1>6, <1>7, <2>1, HeldNow
  <2>2. CASE ~(q = CallPath(c) /\ c.name \in {"open", "chmod"})
    <3>1. q \in touched
      BY <1>2, <1>3, <1>8, <2>2 DEF CallPath, Path
    <3>2. Held(q, ch, R \cup {c}, live, SourceIndex, rules)
      BY <1>1, <1>3, <3>1 DEF SealedInv
    <3> QED
      BY <1>1, <1>3, <1>4, <1>5, <2>2, <3>2, HeldStays
  <2> QED
    BY <2>1, <2>2
<1> QED
  BY <1>1, <1>2, <1>5, <1>8 DEF SealedInv

\* The tree stays, and only directories are made and settled by what is added
\* to what is left.
LEMMA SameSealed ==
    ASSUME SealedInv, UNCHANGED <<source, rules, live, touched>>,
           \A q : /\ Calm(q, Unapplied, Remaining) => Calm(q, Unapplied', Remaining')
    PROVE  SealedInv'
<1>1. SourceIndex' = SourceIndex
  BY DEF SourceIndex, SourceRules
<1>2. PICK ch, K : ch = Unapplied' /\ K = Remaining'
  OBVIOUS
<1>3. ASSUME NEW q \in touched PROVE Held(q, ch, K, live, SourceIndex, rules)
  BY <1>2 DEF SealedInv, Held
<1> QED
  BY <1>1, <1>2, <1>3 DEF SealedInv

\* `apply` of the next operation adds the calls that stand for it.
LEMMA ApplyLeft ==
    ASSUME Inv, CourseInv, NEW o \in changes, Apply(o)
    PROVE  \A q : Calm(q, Unapplied, Remaining) => Calm(q, Unapplied', Remaining')
<1>1. /\ phase = "committing" /\ calls = <<>> /\ changes' = changes \ {o}
      /\ UNCHANGED <<source, rules, live, base, phase, earlier, touched>>
      /\ Unapplied = changes /\ Unapplied' = changes'
  BY DEF Apply, Ready, Unapplied
<1>2. PICK N : Stands(o, N) /\ Remaining' = Remaining \cup N
  BY ApplyCourse
<1>3. ASSUME NEW q, Calm(q, Unapplied, Remaining), NEW c \in Remaining', Parent(CallPath(c)) = q
      PROVE  c.name \in Makes
  <2>1. CASE c \in Remaining
    BY <1>3, <2>1 DEF Calm
  <2>2. CASE c \in N
    <3>1. CallPath(c) = Path(o)
      BY <1>2, <2>2 DEF Stands, CallPath, Path
    <3>2. o.op = "UpsertDirectory"
      BY <1>1, <1>3, <3>1 DEF Calm
    <3> QED
      BY <1>2, <2>2, <3>2 DEF Stands
  <2> QED
    BY <1>2, <2>1, <2>2
<1>4. ASSUME NEW q, Calm(q, Unapplied, Remaining), NEW x \in Unapplied', Parent(Path(x)) = q
      PROVE  x.op = "UpsertDirectory"
  BY <1>1, <1>4 DEF Calm
<1> QED
  BY <1>3, <1>4 DEF Calm

\* An attempt that begins finds every sealed directory calm.
LEMMA BeginSealed == ASSUME Inv, SealedInv, Begin PROVE SealedInv'
<1>1. /\ Unapplied' = Difference(SourceIndex, DestinationIndex)
      /\ pending' = <<>> /\ calls' = <<>> /\ UNCHANGED <<source, rules, live, touched>>
  BY DEF Begin, Unapplied
<1>2. Remaining' = {} /\ SourceIndex' = SourceIndex
  BY <1>1, EmptyStack DEF Remaining, SourceIndex, SourceRules
<1>3. PICK ch : ch = Difference(SourceIndex, DestinationIndex)
  OBVIOUS
<1>4. ASSUME NEW q \in touched PROVE Held(q, ch, {}, live, SourceIndex, rules)
  <2>1. ASSUME Sealed(q, live, SourceIndex, rules) PROVE Calm(q, ch, {})
    BY <1>3, <2>1, InvSetting, SealedCalm DEF Calm
  <2> QED
    BY <2>1 DEF SealedInv, Held
<1> QED
  BY <1>1, <1>2, <1>3, <1>4 DEF SealedInv

\* Every step keeps what is sealed so.
LEMMA SealedStep == Inv /\ CourseInv /\ SealedInv /\ [Next]_vars /\ Inv' => SealedInv'
<1> SUFFICES ASSUME Inv, CourseInv, SealedInv, [Next]_vars, Inv' PROVE SealedInv'
  OBVIOUS
<1>1. CASE Begin
  BY <1>1, BeginSealed
<1>2. CASE \E o \in changes : Apply(o)
  <2>1. PICK o \in changes : Apply(o)
    BY <1>2
  <2>2. UNCHANGED <<source, rules, live, touched>>
    BY <2>1 DEF Apply
  <2> QED
    BY <2>1, <2>2, ApplyLeft, SameSealed
<1>3. CASE FinishDirectory
  <2>1. /\ UNCHANGED <<source, rules, live, touched>> /\ Unapplied' = Unapplied
    BY <1>3 DEF FinishDirectory, Unapplied
  <2>2. Remaining' = Remaining
    BY <1>3, FinishCourse
  <2> QED
    BY <2>1, <2>2, SameSealed
<1>4. CASE Execute
  BY <1>4, ExecuteSealed
<1>5. CASE \/ \E o \in changes : Refuse(o)
           \/ CallFails \/ Complete \/ Interrupted \/ Idle \/ UNCHANGED vars
           \/ \E o \in plan : Stage(o)
           \/ StartCommit
  <2>1. changes \subseteq plan
    BY DEF Inv, PlanInv
  <2>2. /\ UNCHANGED <<source, rules, live, touched, pending, calls>>
        /\ Unapplied' \subseteq Unapplied
    <3>1. CASE \/ \E o \in changes : Refuse(o)
               \/ CallFails \/ Complete \/ Interrupted \/ Idle \/ UNCHANGED vars
      <4>1. /\ UNCHANGED <<source, rules, live, touched, pending, calls, plan, changes>>
            /\ phase' = "staging" => phase = "staging"
        BY <3>1 DEF Refuse, CallFails, Complete, Interrupted, Idle, vars, committer
      <4> QED
        BY <2>1, <4>1 DEF Unapplied
    <3>2. CASE (\E o \in plan : Stage(o)) \/ StartCommit
      BY <3>2 DEF Stage, StartCommit, committer, Unapplied
    <3> QED
      BY <1>5, <3>1, <3>2
  <2>3. Remaining' = Remaining
    BY <2>2 DEF Remaining
  <2>4. \A q : Calm(q, Unapplied, Remaining) => Calm(q, Unapplied', Remaining')
    BY <2>2, <2>3 DEF Calm
  <2> QED
    BY <2>2, <2>4, SameSealed
<1> QED
  BY <1>1, <1>2, <1>3, <1>4, <1>5 DEF Next, Committing

\* So every directory the commits have written is held, throughout.
LEMMA SealedThroughout == Spec => [](Inv /\ CourseInv /\ SealedInv)
<1>1. Init => SealedInv
  BY DEF Init, SealedInv
<1>2. SealedInv /\ (Inv /\ CourseInv) /\ (Inv /\ CourseInv)' /\ [Next]_vars => SealedInv'
  BY SealedStep
<1> QED
  BY <1>1, <1>2, Course, PTL DEF Spec

-----------------------------------------------------------------------------
\* A directory is settled or removed only when nothing at or below it is left
\* to apply, for every pair of trees, all rules and wherever commits stop.
THEOREM SettlesLast == Spec => []SettledLast
<1>1. Inv => SettledLast
  BY DEF Inv, SettleInv, SettledLast, Closes, Unapplied
<1> QED
  BY <1>1, Invariant, PTL

\* Nothing the destination's rules or the protected names keep out of its
\* index is ever touched by a commit.
THEOREM SparesIgnored == Spec => []IgnoredPreserved
<1>1. Inv => IgnoredPreserved
  BY DEF Inv
<1> QED
  BY <1>1, Invariant, PTL

\* Wherever an attempt stops, a path holds its old content, its new content or
\* nothing, and a regular file that is updated is never without the whole old
\* or the whole new file: `install` replaces it by one rename, and nothing the
\* committer does before or after touches its path.
THEOREM NeverHalfWritten == Spec => []OldOrNew
<1>1. ASSUME Inv, CourseInv PROVE OldOrNew
  <2>1. ASSUME NEW p \in Universe PROVE Halfway(live[p], base[p], SourceEntry(p))
    BY <1>1 DEF CourseInv, ContentInv, OldNew, NewEntry, SourceEntry
  <2> QED
    BY <2>1 DEF OldOrNew, Halfway, Present
<1> QED
  BY <1>1, Course, PTL

\* A commit that succeeds leaves the destination listing what the source lists,
\* the times of directories it had no reason to write aside, whatever earlier
\* attempts left behind and however many of a directory's children changed
\* between `mkdir` and `finish_directory`.
THEOREM Converges == Spec => []Converged
<1>1. ASSUME Inv, CourseInv PROVE Converged
  <2>1. SUFFICES ASSUME phase = "done"
                 PROVE  /\ SameListing(DestinationIndex, SourceIndex)
                        /\ \A x \in SourceIndex : x \notin Scan(base, rules) => x \in DestinationIndex
    BY DEF Converged, SameListing
  <2> QED
    BY <1>1, <2>1, DoneReaches DEF BaseIndex
<1> QED
  BY <1>1, Course, PTL

\* A sync that follows a successful one leaves the two listings equal, the
\* times of directories included.
THEOREM SecondIsExact == Spec => []SecondSyncExact
<1>1. ASSUME Inv, CourseInv PROVE SecondSyncExact
  <2>1. SUFFICES ASSUME phase = "done", earlier = "done" PROVE DestinationIndex = SourceIndex
    BY DEF SecondSyncExact
  <2>2. SameListing(SourceIndex, BaseIndex)
    BY <1>1, <2>1 DEF CourseInv, PhaseInv
  <2> QED
    BY <1>1, <2>1, <2>2, DoneReaches
<1> QED
  BY <1>1, Course, PTL

\* A call of the commit fails only where something the destination leaves out is
\* in the way, or the parent directory is not writable and no commit has ever
\* written its mode.  A directory that a commit has written and left read-only is
\* sealed: its entries are the source's, so neither this attempt nor a later one,
\* wherever the earlier ones stopped, has a name to add or to remove in it.  Nor
\* does `apply` ever meet its own error: what is left never comes before what
\* was applied last, in whatever order the operations were staged.
THEOREM FailsOnlyBlocked == Spec => []BlockedOnly
<1>1. ASSUME Inv, CourseInv, SealedInv PROVE BlockedOnly
  <2>1. SUFFICES ASSUME phase = "failed"
                 PROVE  /\ calls # <<>>
                        /\ \/ /\ ~ParentWritable(live, Path(Head(calls)))
                              /\ Parent(Path(Head(calls))) \notin touched
                           \/ \E q \in Universe : /\ StartsWith(q, Path(Head(calls)))
                                                  /\ Untouchable(live, q, rules)
    BY DEF BlockedOnly
  <2>2. calls # <<>> /\ ~Succeeds(live, calls[1])
    BY <1>1, <2>1 DEF CourseInv, PhaseInv
  <2>3. PICK R, c, p, ch : /\ R = Left(pending, Tail(calls)) /\ c = calls[1] /\ p = CallPath(c)
                           /\ ch = Unapplied
    OBVIOUS
  <2>4. /\ Making(live, c, ch, R, SourceIndex, BaseIndex, base, rules)
        /\ Head(calls) = c /\ p \in Universe /\ Remaining = R \cup {c}
    BY <1>1, <2>1, <2>2, <2>3, InvMaking
  <2>5. /\ Setting(source, base, rules, SourceRules, SourceIndex, BaseIndex)
        /\ Spared(live, base, rules)
    BY <1>1, InvSetting
  <2>6. \/ ~ParentWritable(live, p)
        \/ \E q \in Universe : StartsWith(q, p) /\ Untouchable(live, q, rules)
    BY <2>2, <2>3, <2>4, <2>5, NotBlocked
  <2>7. ASSUME ~ParentWritable(live, p), Parent(p) \in touched PROVE FALSE
    <3>1. /\ live[Parent(p)].mode # 7
          /\ Held(Parent(p), ch, R \cup {c}, live, SourceIndex, rules)
      BY <1>1, <2>3, <2>4, <2>7 DEF ParentWritable, SealedInv
    <3>2. /\ Sealed(Parent(p), live, SourceIndex, rules)
          /\ Calm(Parent(p), ch, R \cup {c})
      BY <3>1 DEF Held
    <3>3. c.name \in Makes
      BY <2>3, <3>2 DEF Calm
    <3>4. c.record \in SourceIndex /\ c.record.path = p /\ c.record.kind = "dir"
      BY <2>3, <2>4, <3>3 DEF Making, Justified, Makes, CallPath
    <3>5. live[p].kind = "dir"
      BY <2>4, <3>2, <3>4, EntryOfFacts DEF Sealed
    <3>6. Resolves(live, p)
      <4>1. Listed(source, p, SourceRules)
        BY <2>5, <3>4, ListingFacts DEF Setting
      <4> QED
        BY <2>4, <3>5, <4>1 DEF Resolves, Making, IsTree, Present, Listed, Managed
    <3>7. Succeeds(live, c)
      BY <2>3, <3>3, <3>5, <3>6 DEF Succeeds, Makes, CallPath
    <3> QED
      BY <2>2, <2>3, <3>7
  <2> QED
    BY <2>2, <2>3, <2>4, <2>6, <2>7 DEF CallPath, Path
<1> QED
  BY <1>1, SealedThroughout, PTL

=============================================================================
