--------------------------- MODULE PlannerProofs ---------------------------
(***************************************************************************)
(* Proofs about the merge planner, for every pair of sorted indexes, every *)
(* channel capacity and every interleaving.                                *)
(*                                                                         *)
(* The argument.  The path order is a strict total order, found from its   *)
(* definition.  Each input is cut where the planner has got to (SFrom and  *)
(* DFrom).  Between two pairs the indexes are apart at the cuts: whatever  *)
(* is behind one comes before whatever is ahead of the other, so the       *)
(* smaller lookahead is the least path not yet dealt with, no other record *)
(* has it, and comparing the two lookaheads decides what the difference of *)
(* the whole indexes says of that path.  Everything behind the cuts is     *)
(* settled, and everything sent lies behind them.                          *)
(***************************************************************************)
EXTENDS Planner, SequenceTheorems, WellFoundedInduction, TLAPS

\* A set of numbers that is not empty has a least one.
LEMMA LeastNumber ==
    ASSUME NEW T \in SUBSET Nat, T # {}
    PROVE  \E x \in T : \A y \in T : x <= y
<1> DEFINE R == OpToRel(<, Nat)
<1>1. IsWellFoundedOn(R, Nat)
  BY NatLessThanWellFounded
<1>2. \A x, y \in Nat : y < x => <<y, x>> \in R
  BY DEF OpToRel
<1> HIDE DEF R
<1>3. PICK x \in T : \A y \in T : ~(<<y, x>> \in R)
  BY <1>1, WFMin
<1>4. \A y \in T : ~(y < x)
  BY <1>2, <1>3
<1> QED
  BY <1>3, <1>4

\* No path comes before itself.
LEMMA BeforeIrreflexive == ASSUME NEW p \in Seq(Nat) PROVE ~Before(p, p)
<1> SUFFICES ASSUME Before(p, p) PROVE FALSE
  OBVIOUS
<1>1. PICK n \in 1..Len(p) : n = Len(p) + 1 \/ (n <= Len(p) /\ p[n] < p[n])
  BY DEF Before
<1>2. Len(p) \in Nat /\ p[n] \in Nat
  OBVIOUS
<1> QED
  BY <1>1, <1>2

\* The path order is transitive.
LEMMA BeforeTransitive ==
    ASSUME NEW p \in Seq(Nat), NEW q \in Seq(Nat), NEW r \in Seq(Nat),
           Before(p, q), Before(q, r)
    PROVE  Before(p, r)
<1>1. PICK m \in 1..Len(q) :
          /\ \A i \in 1..(m - 1) : i <= Len(p) /\ p[i] = q[i]
          /\ m = Len(p) + 1 \/ (m <= Len(p) /\ p[m] < q[m])
  BY DEF Before
<1>2. PICK n \in 1..Len(r) :
          /\ \A i \in 1..(n - 1) : i <= Len(q) /\ q[i] = r[i]
          /\ n = Len(q) + 1 \/ (n <= Len(q) /\ q[n] < r[n])
  BY DEF Before
<1>3. /\ Len(p) \in Nat /\ Len(q) \in Nat /\ Len(r) \in Nat
      /\ \A i \in 1..Len(p) : p[i] \in Nat
      /\ \A i \in 1..Len(q) : q[i] \in Nat
      /\ \A i \in 1..Len(r) : r[i] \in Nat
  OBVIOUS
<1>4. CASE m < n
  <2>1. m \in 1..Len(r) /\ m \in 1..(n - 1)
    BY <1>3, <1>4
  <2>2. q[m] = r[m]
    BY <1>2, <2>1
  <2>3. ASSUME NEW i \in 1..(m - 1) PROVE i <= Len(p) /\ p[i] = r[i]
    <3>1. i \in 1..(n - 1)
      BY <1>4
    <3> QED
      BY <1>1, <1>2, <3>1
  <2> QED
    BY <1>1, <2>1, <2>2, <2>3 DEF Before
<1>5. CASE n <= m
  <2>1. ASSUME NEW i \in 1..(n - 1) PROVE i <= Len(p) /\ p[i] = r[i]
    <3>1. i \in 1..(m - 1)
      BY <1>5
    <3> QED
      BY <1>1, <1>2, <3>1
  <2>2. n <= Len(q) /\ q[n] < r[n]
    <3>1. n # Len(q) + 1
      BY <1>3, <1>5
    <3> QED
      BY <1>2, <3>1
  <2>3. CASE n = m
    <3>1. CASE n = Len(p) + 1
      BY <2>1, <3>1 DEF Before
    <3>2. CASE n <= Len(p) /\ p[n] < q[n]
      <4>1. PICK x, y, z : x = p[n] /\ y = q[n] /\ z = r[n]
        OBVIOUS
      <4>2. x \in Nat /\ y \in Nat /\ z \in Nat
        BY <1>3, <2>2, <3>2, <4>1
      <4>3. x < y /\ y < z
        BY <2>2, <3>2, <4>1
      <4>4. x < z
        BY <4>2, <4>3
      <4> QED
        BY <2>1, <3>2, <4>1, <4>4 DEF Before
    <3> QED
      BY <1>1, <2>3, <3>1, <3>2
  <2>4. CASE n < m
    <3>1. n <= Len(p) /\ p[n] = q[n]
      BY <1>1, <1>2, <1>3, <2>4
    <3> QED
      BY <2>1, <2>2, <3>1 DEF Before
  <2> QED
    BY <1>5, <2>3, <2>4
<1> QED
  BY <1>3, <1>4, <1>5

\* Two paths neither of which comes before the other are equal.
LEMMA BeforeTotal ==
    ASSUME NEW p \in Seq(Nat), NEW q \in Seq(Nat)
    PROVE  p = q \/ Before(p, q) \/ Before(q, p)
<1> SUFFICES ASSUME p # q PROVE Before(p, q) \/ Before(q, p)
  OBVIOUS
<1>1. /\ Len(p) \in Nat /\ Len(q) \in Nat
      /\ \A i \in 1..Len(p) : p[i] \in Nat
      /\ \A i \in 1..Len(q) : q[i] \in Nat
  OBVIOUS
<1> DEFINE T == {n \in Nat : n > 0 /\ (n > Len(p) \/ n > Len(q) \/ p[n] # q[n])}
<1>2. T \in SUBSET Nat /\ Len(p) + 1 \in T
  BY <1>1
<1>3. PICK n \in T : \A y \in T : n <= y
  BY <1>2, LeastNumber
<1>4. \A i \in 1..(n - 1) : i <= Len(p) /\ i <= Len(q) /\ p[i] = q[i]
  BY <1>1, <1>3
<1>5. CASE n > Len(p) /\ n > Len(q)
  <2>1. Len(p) + 1 = n /\ Len(q) + 1 = n
    <3>1. Len(p) + 1 \in T /\ Len(q) + 1 \in T
      BY <1>1
    <3> QED
      BY <1>1, <1>3, <1>5, <3>1
  <2>2. \A i \in 1..Len(p) : p[i] = q[i]
    BY <1>1, <1>4, <2>1
  <2> QED
    BY <1>1, <2>1, <2>2, SeqEqual
<1>6. CASE n > Len(p) /\ n <= Len(q)
  <2>1. n = Len(p) + 1 /\ n \in 1..Len(q)
    BY <1>1, <1>3, <1>4, <1>6
  <2> QED
    BY <1>4, <2>1 DEF Before
<1>7. CASE n <= Len(p) /\ n > Len(q)
  <2>1. n = Len(q) + 1 /\ n \in 1..Len(p)
    BY <1>1, <1>3, <1>4, <1>7
  <2> QED
    BY <1>4, <2>1 DEF Before
<1>8. CASE n <= Len(p) /\ n <= Len(q)
  <2>1. n \in 1..Len(p) /\ n \in 1..Len(q) /\ p[n] # q[n] /\ p[n] \in Nat /\ q[n] \in Nat
    BY <1>1, <1>3, <1>8
  <2>2. p[n] < q[n] \/ q[n] < p[n]
    BY <2>1
  <2> QED
    BY <1>4, <1>8, <2>1, <2>2 DEF Before
<1> QED
  BY <1>1, <1>3, <1>5, <1>6, <1>7, <1>8

-----------------------------------------------------------------------------
(***************************************************************************)
(* Two indexes cut at positions s and d.                                   *)
(***************************************************************************)
\* What is behind one cut comes before what is ahead of the other.
Apart(S, D, s, d) ==
    \A i \in 1..Len(S), j \in 1..Len(D) :
        /\ i < s /\ d <= j => Before(S[i].path, D[j].path)
        /\ j < d /\ s <= i => Before(D[j].path, S[i].path)

\* p comes before everything ahead of the cuts.
Ahead(p, S, D, s, d) ==
    /\ \A i \in 1..Len(S) : s <= i => Before(p, S[i].path)
    /\ \A j \in 1..Len(D) : d <= j => Before(p, D[j].path)

\* p comes after everything behind the cuts.
Past(p, S, D, s, d) ==
    /\ \A i \in 1..Len(S) : i < s => Before(S[i].path, p)
    /\ \A j \in 1..Len(D) : j < d => Before(D[j].path, p)

\* A cut stays at n, or moves to n2 past the one record of path p.
Passes(p, S, n, n2) ==
    \/ n2 = n
    \/ n2 = n + 1 /\ n \in 1..Len(S) /\ S[n].path = p

\* What an index holds, and in which order.
LEMMA IndexFacts ==
    ASSUME NEW S, Index(S)
    PROVE  /\ Len(S) \in Nat
           /\ \A i \in 1..Len(S) : /\ S[i] \in Record /\ S[i].path \in Seq(Nat)
                                   /\ S[i] # NoRecord /\ S[i].kind # "none"
           /\ \A i, j \in 1..Len(S) : i < j => Before(S[i].path, S[j].path)
<1>1. S \in Seq(Record) /\ \A i, j \in 1..Len(S) : i < j => Before(S[i].path, S[j].path)
  BY DEF Index
<1>2. Len(S) \in Nat /\ \A i \in 1..Len(S) : S[i] \in Record
  BY <1>1
<1>3. \A r \in Record : r.path \in Seq(Nat) /\ r.kind # "none"
  BY DEF Record, Kinds, RelativePath
<1>4. NoRecord.kind = "none"
  BY DEF NoRecord
<1> QED
  BY <1>1, <1>2, <1>3, <1>4

\* The cuts that pass a path leave the indexes apart.
LEMMA PairEnds ==
    ASSUME NEW S, NEW D, Index(S), Index(D), NEW p \in Seq(Nat),
           NEW s \in Nat, NEW d \in Nat, NEW s2 \in Nat, NEW d2 \in Nat,
           Past(p, S, D, s, d), Ahead(p, S, D, s2, d2),
           Passes(p, S, s, s2), Passes(p, D, d, d2)
    PROVE  Apart(S, D, s2, d2)
<1> SUFFICES ASSUME NEW i \in 1..Len(S), NEW j \in 1..Len(D)
             PROVE  /\ i < s2 /\ d2 <= j => Before(S[i].path, D[j].path)
                    /\ j < d2 /\ s2 <= i => Before(D[j].path, S[i].path)
  BY DEF Apart
<1>1. /\ i \in Nat /\ j \in Nat
      /\ S[i].path \in Seq(Nat) /\ D[j].path \in Seq(Nat)
  <2>1. S[i].path \in Seq(Nat)
    BY IndexFacts
  <2>2. D[j].path \in Seq(Nat)
    BY IndexFacts
  <2> QED
    BY <2>1, <2>2
<1>2. i < s2 => S[i].path = p \/ Before(S[i].path, p)
  BY <1>1 DEF Past, Passes
<1>3. j < d2 => D[j].path = p \/ Before(D[j].path, p)
  BY <1>1 DEF Past, Passes
<1>4. (d2 <= j => Before(p, D[j].path)) /\ (s2 <= i => Before(p, S[i].path))
  BY DEF Ahead
<1>5. i < s2 /\ d2 <= j => Before(S[i].path, D[j].path)
  BY <1>1, <1>2, <1>4, BeforeTransitive
<1>6. j < d2 /\ s2 <= i => Before(D[j].path, S[i].path)
  BY <1>1, <1>3, <1>4, BeforeTransitive
<1> QED
  BY <1>5, <1>6

\* The least path at the cuts divides the indexes.
LEMMA PairStarts ==
    ASSUME NEW S, NEW D, Index(S), Index(D), NEW p \in Seq(Nat),
           NEW s \in Nat \ {0}, NEW d \in Nat \ {0}, NEW s2 \in Nat, NEW d2 \in Nat,
           Apart(S, D, s, d), Passes(p, S, s, s2), Passes(p, D, d, d2),
           s2 = s + 1 \/ d2 = d + 1,
           s2 = s /\ s \in 1..Len(S) => Before(p, S[s].path),
           d2 = d /\ d \in 1..Len(D) => Before(p, D[d].path)
    PROVE  Past(p, S, D, s, d) /\ Ahead(p, S, D, s2, d2)
<1>1. /\ Len(S) \in Nat /\ Len(D) \in Nat
      /\ \A i \in 1..Len(S) : S[i].path \in Seq(Nat)
      /\ \A j \in 1..Len(D) : D[j].path \in Seq(Nat)
      /\ \A i, j \in 1..Len(S) : i < j => Before(S[i].path, S[j].path)
      /\ \A i, j \in 1..Len(D) : i < j => Before(D[i].path, D[j].path)
  BY IndexFacts
<1>2. ASSUME NEW i \in 1..Len(S), i < s PROVE Before(S[i].path, p)
  <2>1. CASE s2 = s + 1
    BY <1>1, <1>2, <2>1 DEF Passes
  <2>2. CASE d2 = d + 1
    BY <1>1, <1>2, <2>2 DEF Passes, Apart
  <2> QED
    BY <2>1, <2>2
<1>3. ASSUME NEW j \in 1..Len(D), j < d PROVE Before(D[j].path, p)
  <2>1. CASE s2 = s + 1
    BY <1>1, <1>3, <2>1 DEF Passes, Apart
  <2>2. CASE d2 = d + 1
    BY <1>1, <1>3, <2>2 DEF Passes
  <2> QED
    BY <2>1, <2>2
<1>4. ASSUME NEW i \in 1..Len(S), s2 <= i PROVE Before(p, S[i].path)
  <2>1. CASE s2 = s + 1
    <3>1. s \in 1..Len(S) /\ S[s].path = p /\ s < i
      BY <1>1, <1>4, <2>1 DEF Passes
    <3> QED
      BY <1>1, <3>1
  <2>2. CASE s2 = s
    <3>1. s \in 1..Len(S) /\ Before(p, S[s].path) /\ (i = s \/ s < i)
      BY <1>1, <1>4, <2>2
    <3>2. s < i => Before(S[s].path, S[i].path)
      BY <1>1, <3>1
    <3> QED
      BY <1>1, <3>1, <3>2, BeforeTransitive
  <2> QED
    BY <2>1, <2>2 DEF Passes
<1>5. ASSUME NEW j \in 1..Len(D), d2 <= j PROVE Before(p, D[j].path)
  <2>1. CASE d2 = d + 1
    <3>1. d \in 1..Len(D) /\ D[d].path = p /\ d < j
      BY <1>1, <1>5, <2>1 DEF Passes
    <3> QED
      BY <1>1, <3>1
  <2>2. CASE d2 = d
    <3>1. d \in 1..Len(D) /\ Before(p, D[d].path) /\ (j = d \/ d < j)
      BY <1>1, <1>5, <2>2
    <3>2. d < j => Before(D[d].path, D[j].path)
      BY <1>1, <3>1
    <3> QED
      BY <1>1, <3>1, <3>2, BeforeTransitive
  <2> QED
    BY <2>1, <2>2 DEF Passes
<1> QED
  BY <1>2, <1>3, <1>4, <1>5 DEF Past, Ahead

\* No record but those the cuts pass has the path.
LEMMA PairAlone ==
    ASSUME NEW S, NEW D, Index(S), Index(D), NEW p \in Seq(Nat),
           NEW s \in Nat, NEW d \in Nat, NEW s2 \in Nat, NEW d2 \in Nat,
           Past(p, S, D, s, d), Ahead(p, S, D, s2, d2),
           Passes(p, S, s, s2), Passes(p, D, d, d2)
    PROVE  /\ \A i \in 1..Len(S) : S[i].path = p => i = s /\ s2 = s + 1
           /\ \A j \in 1..Len(D) : D[j].path = p => j = d /\ d2 = d + 1
<1>1. ~Before(p, p)
  BY BeforeIrreflexive
<1>2. ASSUME NEW i \in 1..Len(S), S[i].path = p PROVE i = s /\ s2 = s + 1
  <2>1. ~(i < s) /\ ~(s2 <= i)
    BY <1>1, <1>2 DEF Past, Ahead
  <2> QED
    BY <2>1 DEF Passes
<1>3. ASSUME NEW j \in 1..Len(D), D[j].path = p PROVE j = d /\ d2 = d + 1
  <2>1. ~(j < d) /\ ~(d2 <= j)
    BY <1>1, <1>3 DEF Past, Ahead
  <2> QED
    BY <2>1 DEF Passes
<1> QED
  BY <1>2, <1>3


\* A path before, or at, one that is ahead of everything is ahead of everything.
LEMMA AheadOfMore ==
    ASSUME NEW S, NEW D, Index(S), Index(D), NEW p \in Seq(Nat), NEW q \in Seq(Nat),
           NEW s \in Nat, NEW d \in Nat, Ahead(p, S, D, s, d), q = p \/ Before(q, p)
    PROVE  Ahead(q, S, D, s, d)
<1>1. ASSUME NEW i \in 1..Len(S), s <= i PROVE Before(q, S[i].path)
  <2>1. S[i].path \in Seq(Nat) /\ Before(p, S[i].path)
    BY <1>1, IndexFacts DEF Ahead
  <2> QED
    BY <2>1, BeforeTransitive
<1>2. ASSUME NEW j \in 1..Len(D), d <= j PROVE Before(q, D[j].path)
  <2>1. D[j].path \in Seq(Nat) /\ Before(p, D[j].path)
    BY <1>2, IndexFacts DEF Ahead
  <2> QED
    BY <2>1, BeforeTransitive
<1> QED
  BY <1>1, <1>2 DEF Ahead

\* Everything of the difference behind the cuts is among the operations E.
Settled(E, S, D, s, d) ==
    /\ \A i \in 1..Len(S) :
          i < s /\ S[i] \in ToUpsert(Records(S), Records(D))
          => Upsert(S[i], HasBasis(S[i], Records(D))) \in E
    /\ \A j \in 1..Len(D) :
          j < d /\ D[j] \in ToDelete(Records(S), Records(D)) => Delete(D[j]) \in E

\* What the difference says of the records the cuts pass: what one side holds
\* at a path is compared with what the other holds there, or with nothing.
Compared(S, D, s, d, s2, d2) ==
    /\ s2 = s + 1 =>
          /\ S[s] \in Records(S)
          /\ S[s] \in ToUpsert(Records(S), Records(D)) <=> ~(d2 = d + 1 /\ D[d] = S[s])
          /\ HasBasis(S[s], Records(D)) <=> (d2 = d + 1 /\ D[d].kind = "file")
    /\ d2 = d + 1 =>
          /\ D[d] \in Records(D)
          /\ D[d] \in ToDelete(Records(S), Records(D))
             <=> ~(s2 = s + 1 /\ S[s].kind = D[d].kind)

LEMMA PairDifference ==
    ASSUME NEW S, NEW D, Index(S), Index(D), NEW p \in Seq(Nat),
           NEW s \in Nat, NEW d \in Nat, NEW s2 \in Nat, NEW d2 \in Nat,
           Past(p, S, D, s, d), Ahead(p, S, D, s2, d2),
           Passes(p, S, s, s2), Passes(p, D, d, d2)
    PROVE  Compared(S, D, s, d, s2, d2)
<1>1. /\ \A i \in 1..Len(S) : S[i].path = p => i = s /\ s2 = s + 1
      /\ \A j \in 1..Len(D) : D[j].path = p => j = d /\ d2 = d + 1
  BY PairAlone
<1>2. s2 = s + 1 => s \in 1..Len(S) /\ S[s].path = p
  BY DEF Passes
<1>3. d2 = d + 1 => d \in 1..Len(D) /\ D[d].path = p
  BY DEF Passes
<1>4. ASSUME s2 = s + 1
      PROVE  /\ S[s] \in Records(S)
             /\ S[s] \in Records(D) <=> (d2 = d + 1 /\ D[d] = S[s])
             /\ HasBasis(S[s], Records(D)) <=> (d2 = d + 1 /\ D[d].kind = "file")
  <2>1. S[s] \in Records(S)
    BY <1>2, <1>4 DEF Records
  <2>2. S[s] \in Records(D) => (d2 = d + 1 /\ D[d] = S[s])
    BY <1>1, <1>2, <1>4 DEF Records
  <2>3. (d2 = d + 1 /\ D[d] = S[s]) => S[s] \in Records(D)
    BY <1>3 DEF Records
  <2>4. HasBasis(S[s], Records(D)) => (d2 = d + 1 /\ D[d].kind = "file")
    BY <1>1, <1>2, <1>4 DEF Records, HasBasis
  <2>5. (d2 = d + 1 /\ D[d].kind = "file") => HasBasis(S[s], Records(D))
    BY <1>2, <1>3, <1>4 DEF Records, HasBasis
  <2> QED
    BY <2>1, <2>2, <2>3, <2>4, <2>5
<1>5. ASSUME d2 = d + 1
      PROVE  /\ D[d] \in Records(D)
             /\ (\E x \in Records(S) : x.path = D[d].path /\ x.kind = D[d].kind)
                <=> (s2 = s + 1 /\ S[s].kind = D[d].kind)
  <2>1. D[d] \in Records(D)
    BY <1>3, <1>5 DEF Records
  <2>2. ASSUME NEW x \in Records(S), x.path = D[d].path, x.kind = D[d].kind
        PROVE  s2 = s + 1 /\ S[s].kind = D[d].kind
    BY <1>1, <1>3, <1>5, <2>2 DEF Records
  <2>3. ASSUME s2 = s + 1, S[s].kind = D[d].kind
        PROVE  \E x \in Records(S) : x.path = D[d].path /\ x.kind = D[d].kind
    BY <1>2, <1>3, <1>5, <2>3 DEF Records
  <2> QED
    BY <2>1, <2>2, <2>3
<1>6. s2 = s + 1 => (S[s] \in ToUpsert(Records(S), Records(D))
                     <=> ~(d2 = d + 1 /\ D[d] = S[s]))
  BY <1>4 DEF ToUpsert
<1>7. d2 = d + 1 => (D[d] \in ToDelete(Records(S), Records(D))
                     <=> ~(s2 = s + 1 /\ S[s].kind = D[d].kind))
  BY <1>5 DEF ToDelete
<1> QED
  BY <1>4, <1>5, <1>6, <1>7 DEF Compared

\* The cuts move over records whose operations are sent.
LEMMA PairSettles ==
    ASSUME NEW S, NEW D, NEW E, NEW E2, E \subseteq E2,
           NEW s \in Nat, NEW d \in Nat, NEW s2 \in Nat, NEW d2 \in Nat,
           Len(S) \in Nat, Len(D) \in Nat,
           Settled(E, S, D, s, d), s2 \in {s, s + 1}, d2 \in {d, d + 1},
           s2 = s + 1 /\ S[s] \in ToUpsert(Records(S), Records(D))
              => Upsert(S[s], HasBasis(S[s], Records(D))) \in E2,
           d2 = d + 1 /\ D[d] \in ToDelete(Records(S), Records(D))
              => Delete(D[d]) \in E2
    PROVE  Settled(E2, S, D, s2, d2)
<1>1. ASSUME NEW i \in 1..Len(S), i < s2, S[i] \in ToUpsert(Records(S), Records(D))
      PROVE  Upsert(S[i], HasBasis(S[i], Records(D))) \in E2
  <2>1. i < s \/ (i = s /\ s2 = s + 1)
    BY <1>1
  <2>2. i < s => Upsert(S[i], HasBasis(S[i], Records(D))) \in E
    BY <1>1 DEF Settled
  <2> QED
    BY <1>1, <2>1, <2>2
<1>2. ASSUME NEW j \in 1..Len(D), j < d2, D[j] \in ToDelete(Records(S), Records(D))
      PROVE  Delete(D[j]) \in E2
  <2>1. j < d \/ (j = d /\ d2 = d + 1)
    BY <1>2
  <2>2. j < d => Delete(D[j]) \in E
    BY <1>2 DEF Settled
  <2> QED
    BY <1>2, <2>1, <2>2
<1> QED
  BY <1>1, <1>2 DEF Settled

-----------------------------------------------------------------------------
(***************************************************************************)
(* The inductive invariant.                                                *)
(***************************************************************************)
InPair == pc \in {"delete", "upsert"}

\* The cuts: what each input still has ahead of the planner.  A record is
\* behind them once it is consumed, and only read once its turn comes.
SFrom == IF pc = "readLeft" \/ (InPair /\ consumeSource)
         THEN srcRead + 1 ELSE srcRead

DFrom == IF pc = "readRight" \/ ((InPair \/ pc = "readLeft") /\ consumeDestination)
         THEN dstRead + 1 ELSE dstRead

\* The path of the pair under comparison.
PairPath == IF consumeSource THEN a.path ELSE b.path

ShapeInv ==
    /\ source \in SourceIndexes /\ destination \in DestinationIndexes
    /\ srcSent \in Nat /\ srcRead \in Nat
    /\ srcRead <= srcSent /\ srcSent <= Len(source) + 1
    /\ dstSent \in Nat /\ dstRead \in Nat
    /\ dstRead <= dstSent /\ dstSent <= Len(destination) + 1
    /\ consumeSource \in BOOLEAN /\ consumeDestination \in BOOLEAN
    /\ pc \in {"readLeft", "readRight", "merge", "delete", "upsert", "done", "failed"}
    /\ output \in Seq(Numbered) /\ nextId = Len(output)

\* The lookaheads and the pair are the records at the cuts.
LookInv ==
    /\ pc = "readLeft" => consumeSource
    /\ pc = "merge" \/ pc = "readRight" \/ (InPair /\ ~consumeSource)
       => srcRead > 0 /\ left = Message(source, srcRead)
    /\ pc = "merge" \/ ((InPair \/ pc = "readLeft") /\ ~consumeDestination)
       => dstRead > 0 /\ right = Message(destination, dstRead)
    /\ InPair =>
          /\ consumeSource \/ consumeDestination
          /\ consumeSource => srcRead \in 1..Len(source) /\ a = source[srcRead]
          /\ ~consumeSource => a = NoRecord
          /\ consumeDestination =>
                dstRead \in 1..Len(destination) /\ b = destination[dstRead]
          /\ ~consumeDestination => b = NoRecord
          /\ consumeSource /\ consumeDestination => a.path = b.path
          /\ pc = "delete" => consumeDestination /\ a.kind # b.kind
          /\ pc = "upsert" => consumeSource /\ a # b
    /\ pc = "done" => srcRead > Len(source) /\ dstRead > Len(destination)

\* An operation of the pair at p, or of an earlier one: only the Delete that
\* makes room for the upsert to come has the pair's path.
Earlier(i, p) ==
    \/ Before(PathOf(output[i]), p)
    \/ /\ pc = "upsert" /\ i = Len(output)
       /\ PathOf(output[i]) = p /\ output[i].operation.op = "Delete"

\* Between pairs the indexes are apart at the cuts and the whole output is
\* behind them; in a pair, its path divides the two.
OrderInv ==
    /\ PlanOrdered
    /\ pc \in {"readLeft", "readRight", "merge"} =>
          /\ Apart(source, destination, SFrom, DFrom)
          /\ \A i \in 1..Len(output) :
                Ahead(PathOf(output[i]), source, destination, SFrom, DFrom)
    /\ InPair =>
          /\ Past(PairPath, source, destination, srcRead, dstRead)
          /\ Ahead(PairPath, source, destination, SFrom, DFrom)
          /\ \A i \in 1..Len(output) : Earlier(i, PairPath)

\* Behind the cuts everything is settled, but for the pair in hand.
SettledInv ==
    /\ OnlyTheDifference
    /\ InPair => Settled(Emitted, source, destination, srcRead, dstRead)
    /\ pc \notin {"delete", "upsert", "failed"} =>
          Settled(Emitted, source, destination, SFrom, DFrom)
    /\ pc = "upsert" /\ consumeDestination /\ a.kind # b.kind => Delete(b) \in Emitted

PlanInv == ShapeInv /\ LookInv /\ OrderInv /\ SettledInv

\* The types the shape gives.
LEMMA ShapeFacts ==
    ASSUME ShapeInv
    PROVE  /\ Index(source) /\ Index(destination)
           /\ Len(source) \in Nat /\ Len(destination) \in Nat
           /\ Len(output) \in Nat /\ SFrom \in Nat /\ DFrom \in Nat
           /\ \A i \in 1..Len(output) :
                 output[i] \in Numbered /\ PathOf(output[i]) \in Seq(Nat)
<1>1. Index(source) /\ Index(destination)
  BY IndexesAssumption DEF ShapeInv
<1>2. Len(source) \in Nat /\ Len(destination) \in Nat
  BY <1>1, IndexFacts
<1>3. Len(output) \in Nat /\ \A i \in 1..Len(output) : output[i] \in Numbered
  BY DEF ShapeInv
<1>4. \A n \in Numbered : PathOf(n) \in Seq(Nat)
  BY DEF Numbered, Operation, Record, RelativePath, PathOf
<1>5. SFrom \in Nat /\ DFrom \in Nat
  BY DEF ShapeInv, SFrom, DFrom
<1> QED
  BY <1>1, <1>2, <1>3, <1>4, <1>5

\* What PairEnds, PairAlone and PairDifference ask of the cuts.
LEMMA PairFacts ==
    ASSUME ShapeInv, LookInv, OrderInv, InPair
    PROVE  /\ PairPath \in Seq(Nat)
           /\ srcRead \in Nat /\ dstRead \in Nat
           /\ Past(PairPath, source, destination, srcRead, dstRead)
           /\ Ahead(PairPath, source, destination, SFrom, DFrom)
           /\ Passes(PairPath, source, srcRead, SFrom)
           /\ Passes(PairPath, destination, dstRead, DFrom)
           /\ consumeSource => /\ SFrom = srcRead + 1 /\ a = source[srcRead]
                               /\ a \in Record /\ a.path = PairPath /\ a # NoRecord
           /\ ~consumeSource => SFrom = srcRead /\ SFrom # srcRead + 1 /\ a = NoRecord
           /\ consumeDestination =>
                 /\ DFrom = dstRead + 1 /\ b = destination[dstRead]
                 /\ b \in Record /\ b.path = PairPath /\ b # NoRecord
           /\ ~consumeDestination =>
                 DFrom = dstRead /\ DFrom # dstRead + 1 /\ b = NoRecord
<1>1. /\ srcRead \in Nat /\ dstRead \in Nat
      /\ consumeSource \in BOOLEAN /\ consumeDestination \in BOOLEAN
  BY DEF ShapeInv
<1>2. /\ consumeSource \/ consumeDestination
      /\ consumeSource => srcRead \in 1..Len(source) /\ a = source[srcRead]
      /\ ~consumeSource => a = NoRecord
      /\ consumeDestination =>
            dstRead \in 1..Len(destination) /\ b = destination[dstRead]
      /\ ~consumeDestination => b = NoRecord
      /\ consumeSource /\ consumeDestination => a.path = b.path
  BY DEF LookInv
<1>3. consumeSource => a \in Record /\ a.path \in Seq(Nat) /\ a # NoRecord
  BY <1>2, ShapeFacts, IndexFacts
<1>4. consumeDestination => b \in Record /\ b.path \in Seq(Nat) /\ b # NoRecord
  BY <1>2, ShapeFacts, IndexFacts
<1>5. /\ consumeSource => a.path = PairPath
      /\ consumeDestination => b.path = PairPath
      /\ PairPath \in Seq(Nat)
  BY <1>2, <1>3, <1>4 DEF PairPath
<1>6. /\ consumeSource => SFrom = srcRead + 1
      /\ ~consumeSource => SFrom = srcRead /\ SFrom # srcRead + 1
      /\ consumeDestination => DFrom = dstRead + 1
      /\ ~consumeDestination => DFrom = dstRead /\ DFrom # dstRead + 1
  BY <1>1 DEF SFrom, DFrom, InPair
<1>7. /\ Passes(PairPath, source, srcRead, SFrom)
      /\ Passes(PairPath, destination, dstRead, DFrom)
  BY <1>2, <1>5, <1>6 DEF Passes
<1>8. /\ Past(PairPath, source, destination, srcRead, dstRead)
      /\ Ahead(PairPath, source, destination, SFrom, DFrom)
  BY DEF OrderInv
<1> QED
  BY <1>1, <1>2, <1>3, <1>4, <1>5, <1>6, <1>7, <1>8

\* `plan` starts before both indexes with nothing sent.
LEMMA InitInv == Init => PlanInv
<1> SUFFICES ASSUME Init PROVE PlanInv
  OBVIOUS
<1>1. Index(source) /\ Index(destination) /\ Len(source) \in Nat /\ Len(destination) \in Nat
  <2>1. Index(source) /\ Index(destination)
    BY IndexesAssumption DEF Init
  <2> QED
    BY <2>1, IndexFacts
<1>2. ShapeInv
  BY <1>1 DEF Init, ShapeInv
<1>3. LookInv
  BY DEF Init, LookInv, InPair
<1>4. SFrom = 1 /\ DFrom = 1 /\ output = <<>> /\ Len(output) = 0
  BY DEF Init, SFrom, DFrom, InPair
<1>5. OrderInv
  <2>1. Apart(source, destination, 1, 1)
    BY <1>1 DEF Apart
  <2> QED
    BY <1>4, <2>1 DEF Init, OrderInv, PlanOrdered, InPair
<1>6. SettledInv
  <2>1. Settled(Emitted, source, destination, 1, 1)
    BY <1>1 DEF Settled
  <2>2. Emitted = {}
    BY <1>4 DEF Emitted
  <2> QED
    BY <1>4, <2>1, <2>2 DEF Init, SettledInv, OnlyTheDifference, InPair
<1> QED
  BY <1>2, <1>3, <1>5, <1>6 DEF PlanInv

\* Steps that leave the output and the indexes alone, and the cuts where they
\* matter.
LEMMA SameCuts ==
    ASSUME ShapeInv, OrderInv, SettledInv, ~InPair, ~InPair',
           UNCHANGED <<source, destination, output>>,
           pc' # "failed" => UNCHANGED <<SFrom, DFrom>> /\ pc # "failed",
           pc' \in {"readLeft", "readRight", "merge"}
              => pc \in {"readLeft", "readRight", "merge"}
    PROVE  OrderInv' /\ SettledInv'
<1>1. /\ PlanOrdered' = PlanOrdered /\ Emitted' = Emitted
      /\ OnlyTheDifference' = OnlyTheDifference
      /\ \A i \in 1..Len(output) : PathOf(output'[i]) = PathOf(output[i])
  BY DEF PlanOrdered, Emitted, OnlyTheDifference
<1>2. OrderInv'
  BY <1>1 DEF OrderInv
<1>3. SettledInv'
  BY <1>1 DEF SettledInv, InPair
<1> QED
  BY <1>2, <1>3

-----------------------------------------------------------------------------
(***************************************************************************)
(* One step per action.                                                    *)
(***************************************************************************)
\* The neighbours only fill and empty the channels.
LEMMA NeighboursStep ==
    ASSUME PlanInv, Producing \/ Consuming \/ Ended \/ UNCHANGED vars
    PROVE  PlanInv'
<1>1. UNCHANGED <<source, destination, srcRead, dstRead, left, right, a, b,
                  consumeSource, consumeDestination, pc, nextId, output>>
  BY DEF Producing, Consuming, Ended, SourceSends, DestinationSends, SourceFails,
         DestinationFails, ConsumerTakes, ConsumerCloses, vars, channels, reading,
         merging, planned
<1>2. /\ srcSent' \in {srcSent, srcSent + 1}
      /\ dstSent' \in {dstSent, dstSent + 1}
      /\ srcSent' # srcSent => srcSent <= Len(source)
      /\ dstSent' # dstSent => dstSent <= Len(destination)
  BY DEF Producing, Consuming, Ended, SourceSends, DestinationSends, SourceFails,
         DestinationFails, ConsumerTakes, ConsumerCloses, vars, channels, reading,
         merging, planned
<1>3. ShapeInv'
  <2>1. ShapeInv /\ Len(source) \in Nat /\ Len(destination) \in Nat
    BY ShapeFacts DEF PlanInv
  <2>2. /\ srcSent' \in Nat /\ srcRead' <= srcSent' /\ srcSent' <= Len(source)' + 1
        /\ dstSent' \in Nat /\ dstRead' <= dstSent' /\ dstSent' <= Len(destination)' + 1
    BY <1>1, <1>2, <2>1 DEF ShapeInv
  <2> QED
    BY <1>1, <2>1, <2>2 DEF ShapeInv
<1>4. LookInv'
  <2>1. LookInv' = LookInv
    BY <1>1 DEF LookInv, InPair
  <2> QED
    BY <2>1 DEF PlanInv
<1>5. /\ UNCHANGED <<SFrom, DFrom, PairPath, InPair, PlanOrdered, Emitted>>
      /\ OnlyTheDifference' = OnlyTheDifference
  BY <1>1 DEF SFrom, DFrom, PairPath, InPair, PlanOrdered, Emitted, OnlyTheDifference
<1>6. OrderInv'
  <2>1. OrderInv' = OrderInv
    BY <1>1, <1>5 DEF OrderInv, Earlier
  <2> QED
    BY <2>1 DEF PlanInv
<1>7. SettledInv'
  <2>1. SettledInv' = SettledInv
    BY <1>1, <1>5 DEF SettledInv
  <2> QED
    BY <2>1 DEF PlanInv
<1> QED
  BY <1>3, <1>4, <1>6, <1>7 DEF PlanInv

\* A failed plan keeps what it has sent.
LEMMA FailStep == ASSUME PlanInv, ReadFails \/ SendFails PROVE PlanInv'
<1>1. /\ pc' = "failed"
      /\ UNCHANGED <<source, destination, srcSent, dstSent, srcRead, dstRead,
                     consumeSource, consumeDestination, nextId, output>>
  BY DEF ReadFails, SendFails, channels, reading, merging, planned
<1>2. ShapeInv'
  BY <1>1 DEF PlanInv, ShapeInv
<1>3. LookInv' /\ ~InPair'
  BY <1>1 DEF LookInv, InPair
<1>4. /\ PlanOrdered' = PlanOrdered
      /\ OnlyTheDifference' = OnlyTheDifference
  BY <1>1 DEF PlanOrdered, Emitted, OnlyTheDifference
<1>5. OrderInv' /\ SettledInv'
  BY <1>1, <1>3, <1>4 DEF PlanInv, OrderInv, SettledInv
<1> QED
  BY <1>2, <1>3, <1>5 DEF PlanInv

\* Both inputs at End: `plan` returns Ok.
LEMMA FinishStep == ASSUME PlanInv, Finish PROVE PlanInv'
<1>1. /\ pc = "merge" /\ pc' = "done"
      /\ UNCHANGED <<source, destination, srcSent, dstSent, srcRead, dstRead,
                     consumeSource, consumeDestination, nextId, output>>
  BY DEF Finish, channels, reading, merging, planned
<1>2. ShapeInv'
  BY <1>1 DEF PlanInv, ShapeInv
<1>3. LookInv' /\ ~InPair /\ ~InPair' /\ UNCHANGED <<SFrom, DFrom>>
  <2>1. ~InPair /\ ~InPair' /\ UNCHANGED <<SFrom, DFrom>>
    BY <1>1 DEF InPair, SFrom, DFrom
  <2>2. /\ left = NoRecord /\ left = Message(source, srcRead) /\ srcRead > 0
        /\ right = NoRecord /\ right = Message(destination, dstRead) /\ dstRead > 0
    BY <1>1 DEF Finish, PlanInv, LookInv
  <2>3. /\ Index(source) /\ Len(source) \in Nat /\ srcRead \in Nat
        /\ Index(destination) /\ Len(destination) \in Nat /\ dstRead \in Nat
    BY ShapeFacts DEF PlanInv, ShapeInv
  <2>4. srcRead > Len(source) /\ dstRead > Len(destination)
    BY <2>2, <2>3, IndexFacts DEF Message
  <2> QED
    BY <1>1, <2>1, <2>4 DEF LookInv
<1>4. OrderInv' /\ SettledInv'
  BY <1>1, <1>3, SameCuts DEF PlanInv
<1> QED
  BY <1>2, <1>3, <1>4 DEF PlanInv

\* A read moves the lookahead up to the cut.
LEMMA ReadSourceStep == ASSUME PlanInv, ReadSource PROVE PlanInv'
<1>1. /\ pc = "readLeft" /\ pc' = IF consumeDestination THEN "readRight" ELSE "merge"
      /\ srcRead < srcSent /\ srcRead' = srcRead + 1
      /\ left' = Message(source, srcRead + 1)
      /\ UNCHANGED <<source, destination, srcSent, dstSent, dstRead, right, a, b,
                     consumeSource, consumeDestination, nextId, output>>
  BY DEF ReadSource, channels, planned
<1>2. ShapeInv /\ LookInv /\ OrderInv /\ SettledInv
  BY DEF PlanInv
<1>3. ShapeInv'
  BY <1>1, <1>2 DEF ShapeInv
<1>4. pc \notin {"delete", "upsert"} /\ pc' \notin {"delete", "upsert"}
  BY <1>1
<1>5. UNCHANGED <<SFrom, DFrom>> /\ ~InPair /\ ~InPair'
  BY <1>1, <1>2, <1>4 DEF SFrom, DFrom, InPair, ShapeInv
<1>6. LookInv'
  <2>1. srcRead' > 0 /\ left' = Message(source', srcRead')
    BY <1>1, <1>2 DEF ShapeInv
  <2>2. ~consumeDestination' => dstRead' > 0 /\ right' = Message(destination', dstRead')
    BY <1>1, <1>2 DEF LookInv
  <2>3. pc' = "merge" => ~consumeDestination'
    BY <1>1
  <2> QED
    BY <1>1, <1>5, <2>1, <2>2, <2>3 DEF LookInv
<1>7. OrderInv' /\ SettledInv'
  BY <1>1, <1>2, <1>5, SameCuts
<1> QED
  BY <1>3, <1>6, <1>7 DEF PlanInv

\* The same for the destination's lookahead.
LEMMA ReadDestinationStep == ASSUME PlanInv, ReadDestination PROVE PlanInv'
<1>1. /\ pc = "readRight" /\ pc' = "merge"
      /\ dstRead < dstSent /\ dstRead' = dstRead + 1
      /\ right' = Message(destination, dstRead + 1)
      /\ UNCHANGED <<source, destination, srcSent, dstSent, srcRead, left, a, b,
                     consumeSource, consumeDestination, nextId, output>>
  BY DEF ReadDestination, channels, planned
<1>2. ShapeInv /\ LookInv /\ OrderInv /\ SettledInv
  BY DEF PlanInv
<1>3. ShapeInv'
  BY <1>1, <1>2 DEF ShapeInv
<1>4. UNCHANGED <<SFrom, DFrom>> /\ ~InPair /\ ~InPair'
  BY <1>1, <1>2 DEF SFrom, DFrom, InPair, ShapeInv
<1>5. LookInv'
  <2>1. dstRead' > 0 /\ right' = Message(destination', dstRead')
    BY <1>1, <1>2 DEF ShapeInv
  <2>2. srcRead' > 0 /\ left' = Message(source', srcRead')
    BY <1>1, <1>2 DEF LookInv
  <2> QED
    BY <1>1, <1>4, <2>1, <2>2 DEF LookInv
<1>6. OrderInv' /\ SettledInv'
  BY <1>1, <1>2, <1>4, SameCuts
<1> QED
  BY <1>3, <1>5, <1>6 DEF PlanInv

\* What `merge` takes: the smaller lookahead, both when their paths agree.
LEMMA MergeTakes ==
    ASSUME ShapeInv, LookInv, pc = "merge", left # NoRecord \/ right # NoRecord
    PROVE  /\ TakeSource \/ TakeDestination
           /\ TakeSource => srcRead \in 1..Len(source) /\ left = source[srcRead]
           /\ TakeDestination =>
                 dstRead \in 1..Len(destination) /\ right = destination[dstRead]
           /\ TakeSource /\ TakeDestination => left.path = right.path
           /\ ~TakeSource /\ srcRead \in 1..Len(source) =>
                 Before(right.path, source[srcRead].path)
           /\ ~TakeDestination /\ dstRead \in 1..Len(destination) =>
                 Before(left.path, destination[dstRead].path)
<1>1. /\ srcRead \in Nat \ {0} /\ dstRead \in Nat \ {0}
      /\ left = Message(source, srcRead) /\ right = Message(destination, dstRead)
  BY DEF ShapeInv, LookInv
<1>2. Index(source) /\ Index(destination) /\ Len(source) \in Nat /\ Len(destination) \in Nat
  BY ShapeFacts
<1>3. /\ left # NoRecord <=> srcRead \in 1..Len(source)
      /\ left # NoRecord => left = source[srcRead] /\ left.path \in Seq(Nat)
  BY <1>1, <1>2, IndexFacts DEF Message
<1>4. /\ right # NoRecord <=> dstRead \in 1..Len(destination)
      /\ right # NoRecord => right = destination[dstRead] /\ right.path \in Seq(Nat)
  BY <1>1, <1>2, IndexFacts DEF Message
<1>5. CASE left = NoRecord \/ right = NoRecord
  BY <1>3, <1>4, <1>5 DEF TakeSource, TakeDestination
<1>6. CASE left # NoRecord /\ right # NoRecord
  <2>1. ~(Before(left.path, right.path) /\ Before(right.path, left.path))
    BY <1>3, <1>4, <1>6, BeforeTransitive, BeforeIrreflexive
  <2>2. \/ left.path = right.path
        \/ Before(left.path, right.path) \/ Before(right.path, left.path)
    BY <1>3, <1>4, <1>6, BeforeTotal
  <2>3. /\ TakeSource <=> ~Before(right.path, left.path)
        /\ TakeDestination <=> ~Before(left.path, right.path)
    BY <1>6 DEF TakeSource, TakeDestination, AtOrBefore
  <2> QED
    BY <1>3, <1>4, <1>6, <2>1, <2>2, <2>3
<1> QED
  BY <1>5, <1>6

\* The pair `plan` picks divides both indexes; an equal pair ends at once.
LEMMA MergeStep == ASSUME PlanInv, Merge PROVE PlanInv'
<1>1. /\ pc = "merge" /\ (left # NoRecord \/ right # NoRecord)
      /\ consumeSource' = TakeSource /\ consumeDestination' = TakeDestination
      /\ a' = (IF TakeSource THEN left ELSE NoRecord)
      /\ b' = (IF TakeDestination THEN right ELSE NoRecord)
      /\ left' = (IF TakeSource THEN NoRecord ELSE left)
      /\ right' = (IF TakeDestination THEN NoRecord ELSE right)
      /\ pc' = AfterMerge(a', b')
      /\ UNCHANGED <<source, destination, srcSent, dstSent, srcRead, dstRead,
                     nextId, output>>
  BY DEF Merge, channels, reading, planned
<1>2. ShapeInv /\ LookInv /\ OrderInv /\ SettledInv
  BY DEF PlanInv
<1>3. /\ TakeSource \/ TakeDestination
      /\ TakeSource => srcRead \in 1..Len(source) /\ left = source[srcRead]
      /\ TakeDestination =>
            dstRead \in 1..Len(destination) /\ right = destination[dstRead]
      /\ TakeSource /\ TakeDestination => left.path = right.path
      /\ ~TakeSource /\ srcRead \in 1..Len(source) =>
            Before(right.path, source[srcRead].path)
      /\ ~TakeDestination /\ dstRead \in 1..Len(destination) =>
            Before(left.path, destination[dstRead].path)
  BY <1>1, <1>2, MergeTakes
<1>4. /\ srcRead \in Nat \ {0} /\ dstRead \in Nat \ {0}
      /\ left = Message(source, srcRead) /\ right = Message(destination, dstRead)
  BY <1>1, <1>2 DEF ShapeInv, LookInv
<1>5. /\ Index(source) /\ Index(destination)
      /\ Len(source) \in Nat /\ Len(destination) \in Nat
  BY <1>2, ShapeFacts
<1>6. /\ TakeSource => left.path \in Seq(Nat) /\ left # NoRecord /\ left.kind # "none"
      /\ TakeDestination => right.path \in Seq(Nat) /\ right # NoRecord /\ right.kind # "none"
  BY <1>3, <1>5, IndexFacts
<1>7. TakeSource \in BOOLEAN /\ TakeDestination \in BOOLEAN
  BY DEF TakeSource, TakeDestination
<1>8. NoRecord.kind = "none"
  BY DEF NoRecord
\* The pair's path and the cuts after it.
<1>9. PICK p : p = IF TakeSource THEN left.path ELSE right.path
  OBVIOUS
<1>10. PICK s2 : s2 = IF TakeSource THEN srcRead + 1 ELSE srcRead
  OBVIOUS
<1>11. PICK d2 : d2 = IF TakeDestination THEN dstRead + 1 ELSE dstRead
  OBVIOUS
<1>12. /\ p \in Seq(Nat) /\ s2 \in Nat /\ d2 \in Nat
       /\ s2 = srcRead + 1 \/ d2 = dstRead + 1
       /\ Passes(p, source, srcRead, s2) /\ Passes(p, destination, dstRead, d2)
       /\ s2 = srcRead /\ srcRead \in 1..Len(source) => Before(p, source[srcRead].path)
       /\ d2 = dstRead /\ dstRead \in 1..Len(destination)
             => Before(p, destination[dstRead].path)
  <2>1. p \in Seq(Nat) /\ s2 \in Nat /\ d2 \in Nat
    BY <1>3, <1>4, <1>6, <1>9, <1>10, <1>11
  <2>2. s2 = srcRead + 1 \/ d2 = dstRead + 1
    BY <1>3, <1>10, <1>11
  <2>3. (TakeSource => p = left.path) /\ (TakeDestination => p = right.path)
    BY <1>3, <1>9
  <2>4. Passes(p, source, srcRead, s2) /\ Passes(p, destination, dstRead, d2)
    BY <1>3, <1>10, <1>11, <2>3 DEF Passes
  <2>5. (s2 = srcRead => ~TakeSource) /\ (d2 = dstRead => ~TakeDestination)
    BY <1>4, <1>10, <1>11
  <2> QED
    BY <1>3, <2>1, <2>2, <2>3, <2>4, <2>5
<1>13. SFrom = srcRead /\ DFrom = dstRead /\ ~InPair
  BY <1>1 DEF SFrom, DFrom, InPair
<1>14. Past(p, source, destination, srcRead, dstRead) /\ Ahead(p, source, destination, s2, d2)
  <2>1. Apart(source, destination, srcRead, dstRead)
    BY <1>1, <1>2, <1>13 DEF OrderInv
  <2> QED
    BY <1>4, <1>5, <1>12, <2>1, PairStarts
<1>15. ASSUME NEW i \in 1..Len(output) PROVE Before(PathOf(output[i]), p)
  <2>1. Ahead(PathOf(output[i]), source, destination, srcRead, dstRead)
    BY <1>1, <1>2, <1>13 DEF OrderInv
  <2>2. /\ s2 = srcRead + 1 => srcRead \in 1..Len(source) /\ source[srcRead].path = p
        /\ d2 = dstRead + 1 => dstRead \in 1..Len(destination) /\ destination[dstRead].path = p
    BY <1>4, <1>12 DEF Passes
  <2>3. srcRead <= srcRead /\ dstRead <= dstRead
    BY <1>4
  <2> QED
    BY <1>12, <2>1, <2>2, <2>3 DEF Ahead
<1>16. PlanOrdered' /\ OnlyTheDifference' /\ Emitted' = Emitted
  <2>1. PlanOrdered' = PlanOrdered /\ OnlyTheDifference' = OnlyTheDifference /\ Emitted' = Emitted
    BY <1>1 DEF PlanOrdered, OnlyTheDifference, Emitted
  <2> QED
    BY <1>2, <2>1 DEF OrderInv, SettledInv
<1>17. Settled(Emitted, source, destination, srcRead, dstRead)
  BY <1>1, <1>2, <1>13 DEF SettledInv
<1>18. ShapeInv' <=> pc' \in {"readLeft", "readRight", "merge", "delete", "upsert",
                              "done", "failed"}
  BY <1>1, <1>2, <1>7 DEF ShapeInv
<1>19. CASE a' = b'
  <2>1. TakeSource /\ TakeDestination /\ left = right
    BY <1>1, <1>3, <1>6, <1>19
  <2>2. pc' = "readLeft" /\ consumeSource' /\ consumeDestination'
    BY <1>1, <1>19, <2>1 DEF AfterMerge, NextRead
  <2>3. ShapeInv' /\ LookInv' /\ ~InPair'
    BY <1>18, <2>2 DEF LookInv, InPair
  <2>4. /\ s2 = srcRead + 1 /\ d2 = dstRead + 1
        /\ SFrom' = s2 /\ DFrom' = d2
    BY <1>1, <1>10, <1>11, <2>1, <2>2 DEF SFrom, DFrom
  <2>5. Apart(source, destination, s2, d2)
    BY <1>4, <1>5, <1>12, <1>14, PairEnds
  <2>6. ASSUME NEW i \in 1..Len(output)
        PROVE  Ahead(PathOf(output[i]), source, destination, s2, d2)
    BY <1>2, <1>5, <1>12, <1>14, <1>15, AheadOfMore, ShapeFacts
  <2>7. OrderInv'
    BY <1>1, <1>16, <2>3, <2>4, <2>5, <2>6 DEF OrderInv
  <2>8. Settled(Emitted, source, destination, s2, d2)
    <3>1. source[srcRead] = destination[dstRead]
      BY <1>3, <2>1
    <3>2. srcRead \in Nat /\ dstRead \in Nat
      BY <1>4
    <3>3. /\ source[srcRead] \in ToUpsert(Records(source), Records(destination))
             <=> ~(d2 = dstRead + 1 /\ destination[dstRead] = source[srcRead])
          /\ destination[dstRead] \in ToDelete(Records(source), Records(destination))
             <=> ~(s2 = srcRead + 1 /\ source[srcRead].kind = destination[dstRead].kind)
      <4>1. Compared(source, destination, srcRead, dstRead, s2, d2)
        BY <1>5, <1>12, <1>14, <3>2, PairDifference
      <4> QED
        BY <2>4, <4>1 DEF Compared
    <3>4. /\ ~(source[srcRead] \in ToUpsert(Records(source), Records(destination)))
          /\ ~(destination[dstRead] \in ToDelete(Records(source), Records(destination)))
      BY <2>4, <3>1, <3>3
    <3> QED
      BY <1>5, <1>12, <1>17, <2>4, <3>2, <3>4, PairSettles
  <2>9. SettledInv'
    BY <1>1, <1>16, <2>2, <2>3, <2>4, <2>8 DEF SettledInv
  <2> QED
    BY <2>3, <2>7, <2>9 DEF PlanInv
<1>20. CASE a' # b'
  <2>1. /\ pc' \in {"delete", "upsert"} /\ InPair'
        /\ pc' = "delete" <=> (b' # NoRecord /\ a'.kind # b'.kind)
    BY <1>1, <1>20 DEF AfterMerge, InPair
  <2>2. ShapeInv'
    BY <1>18, <2>1
  <2>3. /\ consumeSource' \/ consumeDestination'
        /\ consumeSource' => srcRead' \in 1..Len(source)' /\ a' = source'[srcRead']
        /\ ~consumeSource' => a' = NoRecord
        /\ consumeDestination' =>
              dstRead' \in 1..Len(destination)' /\ b' = destination'[dstRead']
        /\ ~consumeDestination' => b' = NoRecord
        /\ consumeSource' /\ consumeDestination' => a'.path = b'.path
    BY <1>1, <1>3
  <2>4. /\ ~consumeSource' => srcRead' > 0 /\ left' = Message(source', srcRead')
        /\ ~consumeDestination' => dstRead' > 0 /\ right' = Message(destination', dstRead')
    BY <1>1, <1>4
  <2>5. pc' = "delete" => consumeDestination' /\ a'.kind # b'.kind
    BY <2>1, <2>3
  <2>6. pc' = "upsert" => consumeSource' /\ a' # b'
    BY <1>1, <1>3, <1>6, <1>8, <1>20, <2>1
  <2>7. LookInv'
    BY <2>1, <2>3, <2>4, <2>5, <2>6 DEF LookInv
  <2>8. SFrom' = s2 /\ DFrom' = d2 /\ PairPath' = p
    BY <1>1, <1>3, <1>9, <1>10, <1>11, <2>1 DEF SFrom, DFrom, PairPath
  <2>9. OrderInv'
    BY <1>1, <1>14, <1>15, <1>16, <2>1, <2>8 DEF OrderInv, Earlier
  <2>10. pc' = "upsert" /\ consumeDestination' => a'.kind = b'.kind
    BY <1>1, <1>6, <2>1
  <2>11. SettledInv'
    BY <1>1, <1>16, <1>17, <2>1, <2>10 DEF SettledInv
  <2> QED
    BY <2>2, <2>7, <2>9, <2>11 DEF PlanInv
<1> QED
  BY <1>19, <1>20

\* A send appends one operation with the next id.
LEMMA SendFacts ==
    ASSUME ShapeInv, NEW o \in Operation, Send(o)
    PROVE  /\ output' \in Seq(Numbered) /\ nextId' = Len(output')
           /\ Len(output) \in Nat /\ Len(output') = Len(output) + 1
           /\ \A i \in 1..Len(output) : output'[i] = output[i]
           /\ output'[Len(output) + 1] = [id |-> Len(output), operation |-> o]
           /\ Emitted' = Emitted \cup {o}
<1>1. /\ output \in Seq(Numbered) /\ Len(output) \in Nat
      /\ nextId = Len(output) /\ nextId' = nextId + 1
      /\ output' = Append(output, [id |-> nextId, operation |-> o])
  BY DEF ShapeInv, Send
<1>2. PICK n : n = [id |-> nextId, operation |-> o]
  OBVIOUS
<1>3. n \in Numbered /\ n.operation = o
  BY <1>1, <1>2 DEF Numbered
<1>4. /\ output' \in Seq(Numbered) /\ Len(output') = Len(output) + 1
      /\ \A i \in 1..Len(output) : output'[i] = output[i]
      /\ output'[Len(output) + 1] = n
  BY <1>1, <1>2, <1>3
<1>5. Emitted' = Emitted \cup {o}
  <2>1. ASSUME NEW x \in Emitted' PROVE x \in Emitted \cup {o}
    <3>1. PICK i \in 1..Len(output') : x = output'[i].operation
      BY DEF Emitted
    <3>2. i \in 1..Len(output) \/ i = Len(output) + 1
      BY <1>1, <1>4, <3>1
    <3> QED
      BY <1>3, <1>4, <3>1, <3>2 DEF Emitted
  <2>2. ASSUME NEW x \in Emitted PROVE x \in Emitted'
    <3>1. PICK i \in 1..Len(output) : x = output[i].operation
      BY DEF Emitted
    <3>2. i \in 1..Len(output') /\ output'[i].operation = x
      BY <1>1, <1>4, <3>1
    <3> QED
      BY <3>2 DEF Emitted
  <2>3. o \in Emitted'
    <3>1. Len(output) + 1 \in 1..Len(output')
      BY <1>1, <1>4
    <3> QED
      BY <1>3, <1>4, <3>1 DEF Emitted
  <2> QED
    BY <2>1, <2>2, <2>3
<1> QED
  BY <1>1, <1>2, <1>4, <1>5

\* An operation of the pair keeps the plan in order.
LEMMA SendOrdered ==
    ASSUME ShapeInv, OrderInv, InPair, NEW o \in Operation, Send(o),
           o.record.path = PairPath, pc = "upsert" => o.op # "Delete"
    PROVE  PlanOrdered'
<1>1. /\ Len(output) \in Nat /\ Len(output') = Len(output) + 1
      /\ \A i \in 1..Len(output) : output'[i] = output[i]
      /\ output'[Len(output) + 1] = [id |-> Len(output), operation |-> o]
  BY SendFacts
<1>2. PlanOrdered /\ \A i \in 1..Len(output) : Earlier(i, PairPath)
  BY DEF OrderInv
<1>3. PICK n : n = [id |-> Len(output), operation |-> o]
  OBVIOUS
<1>4. n.id = Len(output) /\ PathOf(n) = PairPath /\ n.operation = o
  BY <1>3 DEF PathOf
<1>5. ASSUME NEW i \in 1..Len(output') PROVE output'[i].id = i - 1
  <2>1. i \in 1..Len(output) \/ i = Len(output) + 1
    BY <1>1
  <2>2. CASE i \in 1..Len(output)
    BY <1>1, <1>2, <2>2 DEF PlanOrdered
  <2>3. CASE i = Len(output) + 1
    BY <1>1, <1>3, <1>4, <2>3
  <2> QED
    BY <2>1, <2>2, <2>3
<1>6. ASSUME NEW i \in 1..Len(output'), NEW j \in 1..Len(output'), i < j
      PROVE  \/ Before(PathOf(output'[i]), PathOf(output'[j]))
             \/ /\ PathOf(output'[i]) = PathOf(output'[j])
                /\ j = i + 1
                /\ output'[i].operation.op = "Delete"
                /\ output'[j].operation.op # "Delete"
  <2>1. i \in 1..Len(output) /\ (j \in 1..Len(output) \/ j = Len(output) + 1)
    BY <1>1, <1>6
  <2>2. CASE j \in 1..Len(output)
    <3>1. output'[i] = output[i] /\ output'[j] = output[j]
      BY <1>1, <2>1, <2>2
    <3> QED
      BY <1>2, <1>6, <2>1, <2>2, <3>1 DEF PlanOrdered
  <2>3. CASE j = Len(output) + 1
    <3>1. output'[i] = output[i] /\ output'[j] = n
      BY <1>1, <1>3, <2>1, <2>3
    <3>2. Earlier(i, PairPath)
      BY <1>2, <2>1
    <3> QED
      BY <1>4, <2>3, <3>1, <3>2 DEF Earlier
  <2> QED
    BY <2>1, <2>2, <2>3
<1> QED
  BY <1>5, <1>6 DEF PlanOrdered

\* After the last operation of a pair the planner reads on: the cuts have
\* passed the pair, and what it called for is sent.
LEMMA PairEndsStep ==
    ASSUME PlanInv, InPair, NEW o \in Operation, Send(o), o.record.path = PairPath,
           PlanOrdered', OnlyTheDifference',
           UNCHANGED <<source, destination, srcRead, dstRead,
                       consumeSource, consumeDestination>>,
           pc' = NextRead(consumeSource),
           consumeSource /\ a # b => Upsert(a, b.kind = "file") \in Emitted',
           consumeDestination /\ a.kind # b.kind => Delete(b) \in Emitted'
    PROVE  OrderInv' /\ SettledInv'
<1>1. ShapeInv /\ LookInv /\ OrderInv /\ SettledInv
  BY DEF PlanInv
<1>2. /\ Len(output) \in Nat /\ Len(output') = Len(output) + 1
      /\ \A i \in 1..Len(output) : output'[i] = output[i]
      /\ output'[Len(output) + 1] = [id |-> Len(output), operation |-> o]
      /\ Emitted' = Emitted \cup {o}
  BY <1>1, SendFacts
<1>3. /\ PairPath \in Seq(Nat)
      /\ srcRead \in Nat /\ dstRead \in Nat
      /\ Past(PairPath, source, destination, srcRead, dstRead)
      /\ Ahead(PairPath, source, destination, SFrom, DFrom)
      /\ Passes(PairPath, source, srcRead, SFrom)
      /\ Passes(PairPath, destination, dstRead, DFrom)
      /\ consumeSource => SFrom = srcRead + 1 /\ a = source[srcRead] /\ a # NoRecord
      /\ ~consumeSource => SFrom = srcRead /\ SFrom # srcRead + 1 /\ a = NoRecord
      /\ consumeDestination =>
            DFrom = dstRead + 1 /\ b = destination[dstRead] /\ b # NoRecord
      /\ ~consumeDestination =>
            DFrom = dstRead /\ DFrom # dstRead + 1 /\ b = NoRecord
  BY <1>1, PairFacts
<1>4. /\ Index(source) /\ Index(destination)
      /\ Len(source) \in Nat /\ Len(destination) \in Nat
      /\ SFrom \in Nat /\ DFrom \in Nat
      /\ \A i \in 1..Len(output) : PathOf(output[i]) \in Seq(Nat)
  BY <1>1, ShapeFacts
<1>5. /\ consumeSource \in BOOLEAN /\ consumeDestination \in BOOLEAN
      /\ consumeSource \/ consumeDestination
  BY <1>1 DEF ShapeInv, LookInv
<1>6. pc' \in {"readLeft", "readRight"} /\ ~InPair'
  BY DEF NextRead, InPair
<1>7. SFrom' = SFrom /\ DFrom' = DFrom
  <2>1. CASE consumeSource
    BY <1>3, <2>1 DEF SFrom, DFrom, InPair, NextRead
  <2>2. CASE ~consumeSource
    BY <1>3, <1>5, <2>2 DEF SFrom, DFrom, InPair, NextRead
  <2> QED
    BY <2>1, <2>2
<1>8. Apart(source, destination, SFrom, DFrom)
  BY <1>3, <1>4, PairEnds
<1>9. ASSUME NEW i \in 1..Len(output')
      PROVE  Ahead(PathOf(output'[i]), source, destination, SFrom, DFrom)
  <2>1. i \in 1..Len(output) \/ i = Len(output) + 1
    BY <1>2
  <2>2. CASE i \in 1..Len(output)
    <3>1. output'[i] = output[i] /\ PathOf(output[i]) \in Seq(Nat)
      BY <1>2, <1>4, <2>2
    <3>2. PathOf(output[i]) = PairPath \/ Before(PathOf(output[i]), PairPath)
      BY <1>1, <2>2 DEF OrderInv, Earlier
    <3> QED
      BY <1>3, <1>4, <3>1, <3>2, AheadOfMore
  <2>3. CASE i = Len(output) + 1
    <3>1. PathOf(output'[i]) = PairPath
      BY <1>2, <2>3 DEF PathOf
    <3> QED
      BY <1>3, <3>1
  <2> QED
    BY <2>1, <2>2, <2>3
<1>10. OrderInv'
  BY <1>6, <1>7, <1>8, <1>9 DEF OrderInv
<1>11. Settled(Emitted', source, destination, SFrom, DFrom)
  <2>1. Compared(source, destination, srcRead, dstRead, SFrom, DFrom)
    BY <1>3, <1>4, PairDifference
  <2>2. NoRecord.kind # "file"
    BY DEF NoRecord
  <2>3. ASSUME SFrom = srcRead + 1,
               source[srcRead] \in ToUpsert(Records(source), Records(destination))
        PROVE  Upsert(source[srcRead], HasBasis(source[srcRead], Records(destination)))
               \in Emitted'
    <3>1. consumeSource /\ a = source[srcRead]
      BY <1>3, <1>5, <2>3
    <3>2. a # b
      BY <1>3, <1>5, <2>1, <2>3, <3>1 DEF Compared
    <3>3. HasBasis(a, Records(destination)) <=> b.kind = "file"
      BY <1>3, <1>5, <2>1, <2>2, <2>3, <3>1 DEF Compared
    <3>4. HasBasis(a, Records(destination)) = (b.kind = "file")
      BY <3>3 DEF HasBasis
    <3> QED
      BY <3>1, <3>2, <3>4
  <2>4. ASSUME DFrom = dstRead + 1,
               destination[dstRead] \in ToDelete(Records(source), Records(destination))
        PROVE  Delete(destination[dstRead]) \in Emitted'
    <3>1. consumeDestination /\ b = destination[dstRead]
      BY <1>3, <1>5, <2>4
    <3>2. a.kind # b.kind
      <4>1. CASE consumeSource
        BY <1>3, <2>1, <2>4, <3>1, <4>1 DEF Compared
      <4>2. CASE ~consumeSource
        <5>1. b.kind # "none"
          BY <1>1, <1>4, <3>1, IndexFacts DEF LookInv
        <5>2. a.kind = "none"
          BY <1>3, <4>2 DEF NoRecord
        <5> QED
          BY <5>1, <5>2
      <4> QED
        BY <4>1, <4>2
    <3> QED
      BY <3>1, <3>2
  <2>5. Settled(Emitted, source, destination, srcRead, dstRead) /\ Emitted \subseteq Emitted'
    BY <1>1, <1>2 DEF SettledInv
  <2>6. SFrom \in {srcRead, srcRead + 1} /\ DFrom \in {dstRead, dstRead + 1}
    BY <1>3
  <2> QED
    BY <1>3, <1>4, <2>3, <2>4, <2>5, <2>6, PairSettles
<1>12. SettledInv'
  BY <1>6, <1>7, <1>11 DEF SettledInv
<1> QED
  BY <1>10, <1>12

\* The Delete of a pair, its only operation or followed by the upsert.
LEMMA SendDeleteStep == ASSUME PlanInv, SendDelete PROVE PlanInv'
<1>1. /\ pc = "delete" /\ Send(Delete(b))
      /\ pc' = IF a # NoRecord THEN "upsert" ELSE NextRead(consumeSource)
      /\ UNCHANGED <<source, destination, srcSent, dstSent, srcRead, dstRead,
                     left, right, a, b, consumeSource, consumeDestination>>
  BY DEF SendDelete, channels, reading, merging
<1>2. ShapeInv /\ LookInv /\ OrderInv /\ SettledInv /\ InPair
  BY <1>1 DEF PlanInv, InPair
<1>3. /\ srcRead \in Nat /\ dstRead \in Nat /\ PairPath \in Seq(Nat)
      /\ Past(PairPath, source, destination, srcRead, dstRead)
      /\ Ahead(PairPath, source, destination, SFrom, DFrom)
      /\ Passes(PairPath, source, srcRead, SFrom)
      /\ Passes(PairPath, destination, dstRead, DFrom)
      /\ consumeSource => a # NoRecord /\ a = source[srcRead]
      /\ ~consumeSource => a = NoRecord /\ SFrom # srcRead + 1
      /\ consumeDestination => /\ DFrom = dstRead + 1 /\ b = destination[dstRead]
                               /\ b \in Record /\ b.path = PairPath
  BY <1>2, PairFacts
<1>4. consumeSource \in BOOLEAN /\ consumeDestination /\ a.kind # b.kind
  BY <1>1, <1>2 DEF ShapeInv, LookInv
<1>5. Delete(b) \in Operation /\ Delete(b).record.path = PairPath /\ Delete(b).op = "Delete"
  BY <1>3, <1>4 DEF Delete, Operation, OperationKinds, Record
<1>6. /\ output' \in Seq(Numbered) /\ nextId' = Len(output')
      /\ Len(output) \in Nat /\ Len(output') = Len(output) + 1
      /\ \A i \in 1..Len(output) : output'[i] = output[i]
      /\ output'[Len(output) + 1] = [id |-> Len(output), operation |-> Delete(b)]
      /\ Emitted' = Emitted \cup {Delete(b)}
  BY <1>1, <1>2, <1>5, SendFacts
<1>7. PlanOrdered'
  BY <1>1, <1>2, <1>5, SendOrdered
<1>8. OnlyTheDifference'
  <2>1. Compared(source, destination, srcRead, dstRead, SFrom, DFrom)
    BY <1>2, <1>3, ShapeFacts, PairDifference
  <2>2. b \in ToDelete(Records(source), Records(destination))
    BY <1>3, <1>4, <2>1 DEF Compared
  <2>3. Delete(b) \in Difference(Records(source), Records(destination))
    BY <2>2 DEF Difference
  <2> QED
    BY <1>1, <1>2, <1>6, <2>3 DEF SettledInv, OnlyTheDifference
<1>9. Delete(b) \in Emitted'
  BY <1>6
<1>10. ShapeInv'
  <2>1. pc' \in {"readLeft", "readRight", "upsert"}
    BY <1>1 DEF NextRead
  <2> QED
    BY <1>1, <1>2, <1>6, <2>1 DEF ShapeInv
<1>11. CASE a # NoRecord
  <2>1. pc' = "upsert" /\ InPair' /\ consumeSource
    BY <1>1, <1>3, <1>4, <1>11 DEF InPair
  <2>2. LookInv'
    BY <1>1, <1>2, <1>4, <2>1 DEF LookInv
  <2>3. SFrom' = SFrom /\ DFrom' = DFrom /\ PairPath' = PairPath
    BY <1>1, <1>2, <2>1 DEF SFrom, DFrom, PairPath
  <2>4. ASSUME NEW i \in 1..Len(output') PROVE Earlier(i, PairPath)'
    <3>1. i \in 1..Len(output) \/ i = Len(output) + 1
      BY <1>6
    <3>2. CASE i \in 1..Len(output)
      <4>1. Before(PathOf(output[i]), PairPath)
        BY <1>1, <1>2, <3>2 DEF OrderInv, Earlier
      <4> QED
        BY <1>6, <2>3, <3>2, <4>1 DEF Earlier
    <3>3. CASE i = Len(output) + 1
      <4>1. PathOf(output'[i]) = PairPath /\ output'[i].operation.op = "Delete"
        BY <1>5, <1>6, <3>3 DEF PathOf
      <4> QED
        BY <1>6, <2>1, <2>3, <3>3, <4>1 DEF Earlier
    <3> QED
      BY <3>1, <3>2, <3>3
  <2>5. OrderInv'
    BY <1>1, <1>3, <1>7, <2>1, <2>3, <2>4 DEF OrderInv
  <2>6. Settled(Emitted', source, destination, srcRead, dstRead)
    <3>1. Settled(Emitted, source, destination, srcRead, dstRead)
      BY <1>2 DEF SettledInv
    <3> QED
      BY <1>6, <3>1 DEF Settled
  <2>7. SettledInv'
    BY <1>1, <1>8, <1>9, <2>1, <2>6 DEF SettledInv
  <2> QED
    BY <1>10, <2>2, <2>5, <2>7 DEF PlanInv
<1>12. CASE a = NoRecord
  <2>1. ~consumeSource /\ pc' = NextRead(consumeSource) /\ pc' = "readRight"
    BY <1>1, <1>3, <1>4, <1>12 DEF NextRead
  <2>2. LookInv'
    BY <1>1, <1>2, <2>1 DEF LookInv, InPair
  <2>3. OrderInv' /\ SettledInv'
    BY <1>1, <1>2, <1>5, <1>7, <1>8, <1>9, <2>1, PairEndsStep
  <2> QED
    BY <1>10, <2>2, <2>3 DEF PlanInv
<1> QED
  BY <1>11, <1>12

\* The upsert of a pair ends it.
LEMMA SendUpsertStep == ASSUME PlanInv, SendUpsert PROVE PlanInv'
<1>1. /\ pc = "upsert" /\ Send(Upsert(a, b.kind = "file"))
      /\ pc' = NextRead(consumeSource)
      /\ UNCHANGED <<source, destination, srcSent, dstSent, srcRead, dstRead,
                     left, right, a, b, consumeSource, consumeDestination>>
  BY DEF SendUpsert, channels, reading, merging
<1>2. ShapeInv /\ LookInv /\ OrderInv /\ SettledInv /\ InPair
  BY <1>1 DEF PlanInv, InPair
<1>3. /\ srcRead \in Nat /\ dstRead \in Nat /\ PairPath \in Seq(Nat)
      /\ Past(PairPath, source, destination, srcRead, dstRead)
      /\ Ahead(PairPath, source, destination, SFrom, DFrom)
      /\ Passes(PairPath, source, srcRead, SFrom)
      /\ Passes(PairPath, destination, dstRead, DFrom)
      /\ consumeSource => /\ SFrom = srcRead + 1 /\ a = source[srcRead]
                          /\ a \in Record /\ a.path = PairPath
      /\ consumeDestination => DFrom = dstRead + 1 /\ b = destination[dstRead]
      /\ ~consumeDestination => DFrom # dstRead + 1 /\ b = NoRecord
  BY <1>2, PairFacts
<1>4. consumeSource /\ a # b /\ consumeDestination \in BOOLEAN
  BY <1>1, <1>2 DEF ShapeInv, LookInv
<1>5. PICK u : u = (b.kind = "file")
  OBVIOUS
<1>6. PICK o : o = Upsert(a, u)
  OBVIOUS
<1>7. o \in Operation /\ o.record.path = PairPath /\ o.op # "Delete"
  <2>1. o.op \in OperationKinds /\ o.op # "Delete"
    BY <1>6 DEF Upsert, OperationKinds
  <2>2. o.record = a /\ o.update \in BOOLEAN
    BY <1>6 DEF Upsert
  <2>3. o \in Operation
    BY <1>3, <1>4, <1>6, <2>1, <2>2 DEF Upsert, Operation
  <2> QED
    BY <1>3, <1>4, <2>1, <2>2, <2>3
<1>8. Send(o)
  BY <1>1, <1>5, <1>6
<1>9. /\ output' \in Seq(Numbered) /\ nextId' = Len(output')
      /\ Emitted' = Emitted \cup {o}
  BY <1>2, <1>7, <1>8, SendFacts
<1>10. PlanOrdered'
  BY <1>2, <1>7, <1>8, SendOrdered
<1>11. OnlyTheDifference'
  <2>1. Compared(source, destination, srcRead, dstRead, SFrom, DFrom)
    BY <1>2, <1>3, ShapeFacts, PairDifference
  <2>2. NoRecord.kind # "file"
    BY DEF NoRecord
  <2>3. a \in ToUpsert(Records(source), Records(destination))
    BY <1>3, <1>4, <2>1 DEF Compared
  <2>4. HasBasis(a, Records(destination)) <=> b.kind = "file"
    BY <1>3, <1>4, <2>1, <2>2 DEF Compared
  <2>5. HasBasis(a, Records(destination)) = u
    BY <1>5, <2>4 DEF HasBasis
  <2>6. o \in Difference(Records(source), Records(destination))
    BY <1>6, <2>3, <2>5 DEF Difference
  <2> QED
    BY <1>1, <1>2, <1>9, <2>6 DEF SettledInv, OnlyTheDifference
<1>12. /\ Upsert(a, b.kind = "file") \in Emitted'
       /\ consumeDestination /\ a.kind # b.kind => Delete(b) \in Emitted'
  BY <1>1, <1>2, <1>5, <1>6, <1>9 DEF SettledInv
<1>13. pc' = "readLeft"
  BY <1>1, <1>4 DEF NextRead
<1>14. ShapeInv'
  BY <1>1, <1>2, <1>9, <1>13 DEF ShapeInv
<1>15. LookInv'
  BY <1>1, <1>2, <1>4, <1>13 DEF LookInv, InPair
<1>16. OrderInv' /\ SettledInv'
  BY <1>1, <1>2, <1>7, <1>8, <1>10, <1>11, <1>12, PairEndsStep DEF PlanInv
<1> QED
  BY <1>14, <1>15, <1>16 DEF PlanInv

-----------------------------------------------------------------------------
\* The invariant is inductive.
LEMMA PlanInvariant == Spec => []PlanInv
<1>1. PlanInv /\ [Next]_vars => PlanInv'
  BY NeighboursStep, FailStep, FinishStep, ReadSourceStep, ReadDestinationStep,
     MergeStep, SendDeleteStep, SendUpsertStep DEF Next, Planning
<1> QED
  BY <1>1, InitInv, PTL DEF Spec

\* What lies before both lookaheads is behind the cuts, and so settled.
LEMMA SettledIsSent == PlanInv => NothingHeldBack
<1> SUFFICES ASSUME PlanInv, pc \in {"merge", "done"},
                    NEW o \in Difference(Records(source), Records(destination)),
                    \A i \in srcRead..Len(source) :
                        i > 0 => Before(o.record.path, source[i].path),
                    \A i \in dstRead..Len(destination) :
                        i > 0 => Before(o.record.path, destination[i].path)
             PROVE  o \in Emitted
  BY DEF NothingHeldBack
<1>1. /\ Index(source) /\ Index(destination)
      /\ Len(source) \in Nat /\ Len(destination) \in Nat
      /\ srcRead \in Nat /\ dstRead \in Nat
  BY ShapeFacts DEF PlanInv, ShapeInv
<1>2. SFrom = srcRead /\ DFrom = dstRead
  BY DEF SFrom, DFrom, InPair
<1>3. Settled(Emitted, source, destination, srcRead, dstRead)
  BY <1>2 DEF PlanInv, SettledInv
<1>4. CASE \E x \in ToUpsert(Records(source), Records(destination)) :
              o = Upsert(x, HasBasis(x, Records(destination)))
  <2>1. PICK x \in ToUpsert(Records(source), Records(destination)) :
            o = Upsert(x, HasBasis(x, Records(destination)))
    BY <1>4
  <2>2. PICK i \in 1..Len(source) : x = source[i]
    BY DEF ToUpsert, Records
  <2>3. o.record.path = source[i].path /\ source[i].path \in Seq(Nat)
    BY <1>1, <2>1, <2>2, IndexFacts DEF Upsert
  <2>4. i < srcRead
    <3>1. ~Before(o.record.path, source[i].path)
      BY <2>3, BeforeIrreflexive
    <3> QED
      BY <1>1, <3>1
  <2> QED
    BY <1>3, <2>1, <2>2, <2>4 DEF Settled
<1>5. CASE \E y \in ToDelete(Records(source), Records(destination)) : o = Delete(y)
  <2>1. PICK y \in ToDelete(Records(source), Records(destination)) : o = Delete(y)
    BY <1>5
  <2>2. PICK j \in 1..Len(destination) : y = destination[j]
    BY DEF ToDelete, Records
  <2>3. o.record.path = destination[j].path /\ destination[j].path \in Seq(Nat)
    BY <1>1, <2>1, <2>2, IndexFacts DEF Delete
  <2>4. j < dstRead
    <3>1. ~Before(o.record.path, destination[j].path)
      BY <2>3, BeforeIrreflexive
    <3> QED
      BY <1>1, <3>1
  <2> QED
    BY <1>3, <2>1, <2>2, <2>4 DEF Settled
<1> QED
  BY <1>4, <1>5 DEF Difference

\* `plan` sends operations in the order the committer relies on, whatever the
\* indexes, the channels' capacity and the interleaving of the tasks.
THEOREM PlansInOrder == Spec => []PlanOrdered
<1>1. PlanInv => PlanOrdered
  BY DEF PlanInv, OrderInv
<1> QED
  BY <1>1, PlanInvariant, PTL

\* `plan` never sends an operation the whole indexes do not call for, a cut
\* input included.
THEOREM SendsOnlyTheDifference == Spec => []OnlyTheDifference
<1>1. PlanInv => OnlyTheDifference
  BY DEF PlanInv, SettledInv
<1> QED
  BY <1>1, PlanInvariant, PTL

\* `plan` has sent everything the indexes call for before its lookaheads.
THEOREM HoldsNothingBack == Spec => []NothingHeldBack
  BY SettledIsSent, PlanInvariant, PTL

\* A plan that returns Ok is the whole difference of the two indexes, and
\* nothing else.
THEOREM PlanIsTheDifference ==
    Spec => [](pc = "done" => Emitted = Difference(Records(source), Records(destination)))
<1>1. ASSUME PlanInv, pc = "done"
      PROVE  Emitted = Difference(Records(source), Records(destination))
  <2>1. /\ Len(source) \in Nat /\ srcRead \in Nat /\ srcRead > Len(source)
        /\ Len(destination) \in Nat /\ dstRead \in Nat /\ dstRead > Len(destination)
    BY <1>1, ShapeFacts DEF PlanInv, ShapeInv, LookInv
  <2>2. srcRead..Len(source) = {} /\ dstRead..Len(destination) = {}
    BY <2>1
  <2>3. Difference(Records(source), Records(destination)) \subseteq Emitted
    BY <1>1, <2>2, SettledIsSent DEF NothingHeldBack
  <2>4. Emitted \subseteq Difference(Records(source), Records(destination))
    BY <1>1 DEF PlanInv, SettledInv, OnlyTheDifference
  <2> QED
    BY <2>3, <2>4
<1> QED
  BY <1>1, PlanInvariant, PTL

=============================================================================
