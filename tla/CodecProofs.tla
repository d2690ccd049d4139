---------------------------- MODULE CodecProofs ----------------------------
(***************************************************************************)
(* The wire format is canonical and a stream is reassembled from whatever  *)
(* pieces it arrives in, for every radix, group count, limit, set of kinds *)
(* and layouts that the assumptions of module Codec allow.                 *)
(*                                                                         *)
(* The argument goes up through the format.  At each level (varint, bytes, *)
(* tag, path, field, layout, payload, frame) two facts are shown: what a   *)
(* reader accepts is what the writer makes of the value it returns, and    *)
(* what the writer makes, whatever follows it, is read as that value and   *)
(* no other.  The first makes accepted bytes canonical; with the second, a *)
(* decoder that has part of a frame knows which frame that is.             *)
(*                                                                         *)
(* The inductive invariant then says that the frames of the messages       *)
(* decoded, followed by the header, payload and input the decoder holds    *)
(* and the bytes on their way, are the bytes put on the stream.            *)
(***************************************************************************)
EXTENDS Codec, SequenceTheorems, FiniteSetTheorems, WellFoundedInduction, TLAPS

\* A set of numbers that is not empty has a least one.
LEMMA LeastNumber ==
    ASSUME NEW T, T \subseteq Nat, T # {}
    PROVE  \E n \in T : \A m \in T : ~(m < n)
<1>1. PICK n \in T : \A y \in T : ~(<<y, n>> \in OpToRel(<, Nat))
  BY NatLessThanWellFounded, WFMin
<1> QED
  BY <1>1 DEF OpToRel

\* Quotient and remainder, and the number they come from.
LEMMA DivMod ==
    ASSUME NEW r \in Nat, r > 1, NEW v \in Nat
    PROVE  /\ v \div r \in Nat /\ v % r \in 0..(r - 1)
           /\ v = r * (v \div r) + (v % r)
           /\ v >= r => v \div r < v /\ v \div r > 0
<1>1. v \div r \in Nat /\ v % r \in 0..(r - 1) /\ v = r * (v \div r) + (v % r)
  OBVIOUS
<1>2. ASSUME v >= r PROVE v \div r < v /\ v \div r > 0
  <2>1. PICK q \in Nat : q = v \div r
    BY <1>1
  <2>2. PICK m \in 0..(r - 1) : m = v % r
    BY <1>1
  <2>3. v = r * q + m
    BY <1>1, <2>1, <2>2
  <2>4. q # 0
    BY <1>2, <2>3
  <2>5. r * q >= 2 * q
    OBVIOUS
  <2> QED
    BY <2>1, <2>2, <2>3, <2>4, <2>5
<1> QED
  BY <1>1, <1>2

\* A number is given by its quotient and its remainder.
LEMMA DivModUnique ==
    ASSUME NEW r \in Nat, r > 1, NEW q \in Nat, NEW m \in 0..(r - 1)
    PROVE  (r * q + m) \div r = q /\ (r * q + m) % r = m
OBVIOUS

-----------------------------------------------------------------------------
(***************************************************************************)
(* Recursive functions.  What a recursive definition gives is a function   *)
(* that satisfies its equation, provided there is one: this is shown once, *)
(* for equations that lead from a number to a smaller one.                 *)
(***************************************************************************)
Solves(f, D, V, B, b, p, G) ==
    /\ f \in [D -> V]
    /\ \A n \in D : f[n] = IF n \in B THEN b[n] ELSE G[n][f[p[n]]]

\* p leads from every number outside B to a smaller one.
Descends(p, B) == \A n \in Nat \ B : p[n] \in Nat /\ p[n] < n

\* Two solutions agree where both are defined.
LEMMA SolutionsAgree ==
    ASSUME NEW V, NEW B, NEW b, NEW p, NEW G,
           Descends(p, B),
           NEW i \in Nat, NEW j \in Nat, NEW f, NEW g,
           Solves(f, 0..i, V, B, b, p, G), Solves(g, 0..j, V, B, b, p, G)
    PROVE  \A n \in Nat : n <= i /\ n <= j => f[n] = g[n]
<1> USE DEF Descends
<1> DEFINE T == {n \in Nat : n <= i /\ n <= j /\ f[n] # g[n]}
<1> SUFFICES ASSUME T # {} PROVE FALSE
  OBVIOUS
<1>1. PICK n \in T : \A m \in T : ~(m < n)
  BY LeastNumber
<1>2. n \in 0..i /\ n \in 0..j /\ n \in Nat
  OBVIOUS
<1>3. f[n] = (IF n \in B THEN b[n] ELSE G[n][f[p[n]]])
      /\ g[n] = (IF n \in B THEN b[n] ELSE G[n][g[p[n]]])
  BY <1>2 DEF Solves
<1>4. n \notin B => f[p[n]] = g[p[n]]
  BY <1>1, <1>2
<1> QED
  BY <1>3, <1>4

\* An equation that leads to smaller numbers has a solution.
LEMMA Recursion ==
    ASSUME NEW V, NEW B, NEW b, NEW p, NEW G,
           \A n \in B : b[n] \in V,
           Descends(p, B),
           \A n \in Nat, y \in V : G[n][y] \in V
    PROVE  \E f : Solves(f, Nat, V, B, b, p, G)
<1>0. \A n \in Nat \ B : p[n] \in Nat /\ p[n] < n
  BY DEF Descends
<1> DEFINE Sol(f, n) == Solves(f, 0..n, V, B, b, p, G)
<1>1. \A n \in Nat : \E f : Sol(f, n)
  <2> DEFINE T == {n \in Nat : ~\E f : Sol(f, n)}
  <2> SUFFICES ASSUME T # {} PROVE FALSE
    OBVIOUS
  <2>1. PICK n \in T : \A m \in T : ~(m < n)
    BY LeastNumber
  <2>2. PICK h : n # 0 => Sol(h, n - 1)
    <3>1. CASE n = 0
      BY <3>1
    <3>2. CASE n # 0
      BY <2>1, <3>2
    <3> QED
      BY <3>1, <3>2
  <2> DEFINE last == IF n \in B THEN b[n] ELSE G[n][h[p[n]]]
             f == [m \in 0..n |-> IF m = n THEN last ELSE h[m]]
  <2>3. n \in 0..n /\ n \in Nat /\ f[n] = last
    OBVIOUS
  <2>4. \A m \in 0..n : m # n => n # 0 /\ m \in 0..(n - 1) /\ f[m] = h[m]
    OBVIOUS
  <2>5. last \in V
    <3>1. CASE n \in B
      BY <3>1
    <3>2. CASE n \notin B
      <4>1. p[n] \in 0..(n - 1) /\ n # 0
        BY <1>0, <3>2
      <4>2. h[p[n]] \in V
        BY <2>2, <4>1 DEF Solves
      <4> QED
        BY <3>2, <4>2
    <3> QED
      BY <3>1, <3>2
  <2>6. \A m \in 0..n : f[m] \in V
    BY <2>2, <2>3, <2>4, <2>5 DEF Solves
  <2>7. f \in [0..n -> V]
    BY <2>6
  <2> HIDE DEF f
  <2>8. \A m \in 0..n : f[m] = IF m \in B THEN b[m] ELSE G[m][f[p[m]]]
    <3> SUFFICES ASSUME NEW m \in 0..n PROVE f[m] = IF m \in B THEN b[m] ELSE G[m][f[p[m]]]
      OBVIOUS
    <3>1. m \notin B => p[m] \in 0..n /\ p[m] # n /\ f[p[m]] = h[p[m]]
      BY <1>0, <2>4
    <3>2. CASE m = n
      BY <2>3, <3>1, <3>2
    <3>3. CASE m # n
      BY <2>2, <2>4, <3>1, <3>3 DEF Solves
    <3> QED
      BY <3>2, <3>3
  <2>9. Sol(f, n)
    BY <2>7, <2>8 DEF Solves
  <2> QED
    BY <2>1, <2>9
<1> DEFINE Part(n) == CHOOSE f : Sol(f, n)
           whole == [n \in Nat |-> Part(n)[n]]
<1>2. \A n \in Nat : Sol(Part(n), n)
  BY <1>1
<1>3. \A n \in Nat : whole[n] = Part(n)[n]
  OBVIOUS
<1> HIDE DEF Part, Sol
<1>4. \A n \in Nat : whole[n] \in V
  BY <1>2, <1>3 DEF Sol, Solves
<1>5. whole \in [Nat -> V]
  BY <1>4
<1> HIDE DEF whole
<1>6. ASSUME NEW n \in Nat PROVE whole[n] = IF n \in B THEN b[n] ELSE G[n][whole[p[n]]]
  <2>1. n \in 0..n
    OBVIOUS
  <2>2. Part(n)[n] = IF n \in B THEN b[n] ELSE G[n][Part(n)[p[n]]]
    BY <1>2, <2>1 DEF Sol, Solves
  <2>3. CASE n \in B
    BY <1>3, <2>2, <2>3
  <2>4. CASE n \notin B
    <3>1. p[n] \in Nat /\ p[n] <= n /\ p[n] <= p[n]
      BY <1>0, <2>4
    <3>2. Part(n)[p[n]] = Part(p[n])[p[n]]
      <4>1. PICK k \in Nat : k = p[n]
        BY <3>1
      <4>2. /\ Solves(Part(n), 0..n, V, B, b, p, G)
            /\ Solves(Part(k), 0..k, V, B, b, p, G)
        BY <1>2 DEF Sol
      <4>3. \A m \in Nat : m <= n /\ m <= k => Part(n)[m] = Part(k)[m]
        BY <4>2, SolutionsAgree
      <4> QED
        BY <3>1, <4>1, <4>3
    <3> QED
      BY <1>3, <2>2, <2>4, <3>1, <3>2
  <2> QED
    BY <2>3, <2>4
<1> QED
  BY <1>5, <1>6 DEF Solves


-----------------------------------------------------------------------------
(***************************************************************************)
(* Varints.                                                                *)
(***************************************************************************)
\* The equation of put_varint.
IsPut(f) ==
    f = [v \in Nat |-> IF v < Radix THEN <<v>>
                       ELSE <<Radix + (v % Radix)>> \o f[v \div Radix]]

\* put_varint is a function that satisfies its equation, if there is one.
LEMMA PutUnfold == put_varint = CHOOSE f : IsPut(f)
BY DEF put_varint, IsPut

\* put_varint satisfies its equation and writes bytes.
LEMMA PutVarint ==
    /\ put_varint \in [Nat -> Seq(Byte)]
    /\ \A v \in Nat : put_varint[v] = IF v < Radix THEN <<v>>
                                      ELSE <<Radix + (v % Radix)>> \o put_varint[v \div Radix]
<1> DEFINE V == Seq(Byte)
           B == 0..(Radix - 1)
           b == [v \in B |-> <<v>>]
           p == [v \in Nat |-> v \div Radix]
           G == [v \in Nat |-> [y \in V |-> <<Radix + (v % Radix)>> \o y]]
<1>0. Radix \in Nat /\ Radix > 1
  BY CodecAssumption
<1>1. \A v \in Nat : v % Radix \in 0..(Radix - 1) /\ v \div Radix \in Nat
                     /\ (v >= Radix => v \div Radix < v)
  BY <1>0, DivMod
<1>2. \A v \in B : v \in Byte /\ b[v] \in V
  BY <1>0 DEF Byte
<1>3. Descends(p, B)
  BY <1>0, <1>1 DEF Descends
<1>4. \A v \in Nat : <<Radix + (v % Radix)>> \in V
  BY <1>0, <1>1 DEF Byte
<1>5. \A v \in Nat, y \in V : G[v][y] = <<Radix + (v % Radix)>> \o y
  OBVIOUS
<1>6. \A v \in Nat, y \in V : G[v][y] \in V
  BY <1>4, <1>5
<1>7. \A v \in B : b[v] = <<v>>
  OBVIOUS
<1>8. \A v \in Nat : p[v] = v \div Radix
  OBVIOUS
<1> HIDE DEF b, p, G
<1>9. PICK f : Solves(f, Nat, V, B, b, p, G)
  BY <1>2, <1>3, <1>6, Recursion
<1>10. f \in [Nat -> V] /\ \A v \in Nat : f[v] = IF v \in B THEN b[v] ELSE G[v][f[p[v]]]
  BY <1>9 DEF Solves
<1>11. ASSUME NEW v \in Nat
       PROVE  f[v] = IF v < Radix THEN <<v>> ELSE <<Radix + (v % Radix)>> \o f[v \div Radix]
  <2>1. v \in B <=> v < Radix
    BY <1>0
  <2>2. f[p[v]] \in V
    BY <1>1, <1>8, <1>10
  <2> QED
    BY <1>5, <1>7, <1>8, <1>10, <2>1, <2>2, ZenonT(60)
<1>12. IsPut(f)
  BY <1>10, <1>11 DEF IsPut
<1>13. IsPut(put_varint)
  BY <1>12, PutUnfold
<1>14. \A v \in Nat : put_varint[v] = IF v < Radix THEN <<v>>
                                      ELSE <<Radix + (v % Radix)>> \o put_varint[v \div Radix]
  BY <1>13 DEF IsPut
<1>15. \A v \in Nat : put_varint[v] \in V
  <2> DEFINE T == {v \in Nat : put_varint[v] \notin V}
  <2> SUFFICES ASSUME T # {} PROVE FALSE
    OBVIOUS
  <2>1. PICK v \in T : \A m \in T : ~(m < v)
    BY LeastNumber
  <2>2. v \in Nat /\ put_varint[v] \notin V /\ \A m \in Nat : m < v => put_varint[m] \in V
    BY <2>1
  <2> HIDE DEF T
  <2>3. CASE v < Radix
    <3>1. v \in Byte
      BY <1>0, <1>2, <2>2, <2>3
    <3>2. <<v>> \in V
      BY <3>1
    <3> QED
      BY <1>14, <2>2, <2>3, <3>2
  <2>4. CASE ~(v < Radix)
    <3>1. PICK q \in Nat : q = v \div Radix /\ q < v
      <4>1. v >= Radix
        BY <1>0, <2>2, <2>4
      <4> QED
        BY <1>0, <2>2, <4>1, DivMod
    <3>2. PICK h \in V : h = <<Radix + (v % Radix)>>
      BY <1>4, <2>2
    <3>3. put_varint[v] = h \o put_varint[q]
      BY <1>14, <2>2, <2>4, <3>1, <3>2
    <3>4. put_varint[q] \in V
      BY <2>2, <3>1
    <3> QED
      BY <2>2, <3>3, <3>4, ConcatProperties
  <2> QED
    BY <2>3, <2>4
<1>16. put_varint \in [Nat -> V]
  BY <1>13, <1>15 DEF IsPut
<1> QED
  BY <1>14, <1>16

\* MaxNumber satisfies its equation.
LEMMA MaxNumberDef ==
    /\ MaxNumber[0] = LastGroup
    /\ \A n \in Nat : MaxNumber[n] \in Nat
    /\ \A n \in Nat \ {0} : MaxNumber[n] = (Radix - 1) + Radix * MaxNumber[n - 1]
<1> DEFINE IsMax(f) == f = [n \in Nat |-> IF n = 0 THEN LastGroup
                                          ELSE (Radix - 1) + Radix * f[n - 1]]
           b == [n \in {0} |-> LastGroup]
           p == [n \in Nat |-> n - 1]
           G == [n \in Nat |-> [y \in Nat |-> (Radix - 1) + Radix * y]]
<1>0. Radix \in Nat /\ Radix > 1 /\ LastGroup \in Nat
  BY CodecAssumption
<1>1. \A y \in Nat : (Radix - 1) + Radix * y \in Nat
  BY <1>0
<1>2. \A n \in Nat, y \in Nat : G[n][y] = (Radix - 1) + Radix * y
  OBVIOUS
<1>3. /\ \A n \in {0} : b[n] = LastGroup
      /\ \A n \in Nat : p[n] = n - 1
  OBVIOUS
<1>4. Descends(p, {0})
  BY DEF Descends
<1> HIDE DEF b, p, G
<1>5. PICK f : Solves(f, Nat, Nat, {0}, b, p, G)
  <2>1. \A n \in {0} : b[n] \in Nat
    BY <1>0, <1>3
  <2>2. \A n \in Nat, y \in Nat : G[n][y] \in Nat
    BY <1>1, <1>2
  <2> QED
    BY <1>4, <2>1, <2>2, Recursion
<1>6. f \in [Nat -> Nat] /\ \A n \in Nat : f[n] = IF n \in {0} THEN b[n] ELSE G[n][f[p[n]]]
  BY <1>5 DEF Solves
<1>7. \A n \in Nat : f[n] = IF n = 0 THEN LastGroup ELSE (Radix - 1) + Radix * f[n - 1]
  <2> TAKE n \in Nat
  <2>1. n # 0 => n - 1 \in Nat /\ f[n - 1] \in Nat
    BY <1>6
  <2>2. CASE n = 0
    BY <1>3, <1>6, <2>2
  <2>3. CASE n # 0
    <3>1. f[n] = G[n][f[n - 1]]
      BY <1>3, <1>6, <2>3
    <3> QED
      BY <1>2, <2>1, <2>3, <3>1
  <2> QED
    BY <2>2, <2>3
<1>8. IsMax(f)
  BY <1>6, <1>7
<1>9. MaxNumber = CHOOSE h : IsMax(h)
  BY DEF MaxNumber
<1>10. IsMax(MaxNumber)
  <2> HIDE DEF IsMax
  <2> QED
    BY <1>8, <1>9
<1>11. \A n \in Nat : MaxNumber[n] = IF n = 0 THEN LastGroup
                                     ELSE (Radix - 1) + Radix * MaxNumber[n - 1]
  BY <1>10
<1> HIDE DEF IsMax
<1>12. \A n \in Nat : MaxNumber[n] \in Nat
  <2> DEFINE T == {n \in Nat : MaxNumber[n] \notin Nat}
  <2> SUFFICES ASSUME T # {} PROVE FALSE
    OBVIOUS
  <2>1. PICK n \in T : \A m \in T : ~(m < n)
    BY LeastNumber
  <2>2. n # 0
    BY <1>0, <1>11
  <2>3. n - 1 \in Nat /\ MaxNumber[n - 1] \in Nat
    BY <2>1, <2>2
  <2> QED
    BY <1>1, <1>11, <2>2, <2>3
<1> QED
  BY <1>11, <1>12


\* The groups of a varint that parse_varint takes as a whole.
Canonic(g) ==
    /\ g \in Seq(Byte) /\ Len(g) \in Nat \ {0}
    /\ \A i \in 1..(Len(g) - 1) : g[i] >= Radix
    /\ g[Len(g)] < Radix
    /\ Len(g) > 1 => g[Len(g)] # 0

\* A number of one group, and one of more.
LEMMA PutSmall ==
    ASSUME NEW v \in Nat, v < Radix
    PROVE  put_varint[v] = <<v>> /\ v \in Byte
<1>1. Radix \in Nat
  BY CodecAssumption
<1>2. v \in Byte
  BY <1>1 DEF Byte
<1> QED
  BY <1>2, PutVarint

\* m is the first group of v and q is the number the other groups make.
Grouped(v, q, m) ==
    /\ v = Radix * q + m /\ q > 0 /\ q < v
    /\ Radix + m \in Byte
    /\ put_varint[q] \in Seq(Byte)
    /\ put_varint[v] = <<Radix + m>> \o put_varint[q]
    /\ Len(put_varint[v]) = Len(put_varint[q]) + 1
    /\ put_varint[v][1] = Radix + m
    /\ \A i \in 1..Len(put_varint[q]) : put_varint[v][i + 1] = put_varint[q][i]

\* A number of more than one group splits into the first and the rest.
LEMMA PutLarge ==
    ASSUME NEW v \in Nat, v >= Radix
    PROVE  \E q \in Nat, m \in 0..(Radix - 1) : Grouped(v, q, m)
<1>0. Radix \in Nat /\ Radix > 1
  BY CodecAssumption
<1>1. PICK q \in Nat : q = v \div Radix /\ q > 0 /\ q < v
  BY <1>0, DivMod
<1>2. PICK m \in 0..(Radix - 1) : m = v % Radix
  BY <1>0, DivMod
<1>3. v = Radix * q + m
  BY <1>0, <1>1, <1>2, DivMod
<1>4. ~(v < Radix)
  BY <1>0
<1>5. put_varint[v] = <<Radix + m>> \o put_varint[q] /\ put_varint[q] \in Seq(Byte)
  BY <1>1, <1>2, <1>4, PutVarint
<1>6. Radix + m \in Byte
  BY <1>0, <1>2 DEF Byte
<1>7. PICK g \in Seq(Byte) : g = put_varint[q]
  BY <1>5
<1>8. PICK a \in Byte : a = Radix + m
  BY <1>6
<1>9. PICK h : h = <<a>> \o g
  OBVIOUS
<1>10. Len(h) = Len(g) + 1 /\ h[1] = a /\ \A i \in 1..Len(g) : h[i + 1] = g[i]
  BY <1>9
<1>11. put_varint[v] = h
  BY <1>5, <1>7, <1>8, <1>9
<1> QED
  BY <1>1, <1>3, <1>5, <1>6, <1>7, <1>8, <1>10, <1>11 DEF Grouped

\* put_varint writes canonical groups.
LEMMA PutCanonic ==
    \A v \in Nat : /\ Canonic(put_varint[v])
                   /\ v # 0 => put_varint[v][Len(put_varint[v])] # 0
<1> DEFINE Good(v) == /\ Canonic(put_varint[v])
                      /\ v # 0 => put_varint[v][Len(put_varint[v])] # 0
           T == {v \in Nat : ~Good(v)}
<1> SUFFICES ASSUME T # {} PROVE FALSE
  OBVIOUS
<1>1. PICK v \in T : \A m \in T : ~(m < v)
  BY LeastNumber
<1>2. v \in Nat /\ ~Good(v) /\ \A m \in Nat : m < v => Good(m)
  BY <1>1
<1> HIDE DEF T
<1>0. Radix \in Nat /\ Radix > 1
  BY CodecAssumption
<1>3. CASE v < Radix
  <2>1. PICK g : g = put_varint[v]
    OBVIOUS
  <2>2. g = <<v>> /\ v \in Byte
    BY <1>2, <1>3, <2>1, PutSmall
  <2>3. g \in Seq(Byte) /\ Len(g) = 1 /\ g[1] = v
    BY <2>2
  <2>4. Canonic(g) /\ (v # 0 => g[Len(g)] # 0)
    BY <1>0, <1>3, <2>3 DEF Canonic
  <2> QED
    BY <1>2, <2>1, <2>4
<1>4. CASE v >= Radix
  <2>1. PICK q \in Nat, m \in 0..(Radix - 1) : Grouped(v, q, m)
    BY <1>2, <1>4, PutLarge
  <2>2. Good(q) /\ q > 0
    BY <1>2, <2>1 DEF Grouped
  <2>3. PICK g, h : g = put_varint[v] /\ h = put_varint[q]
    OBVIOUS
  <2>4. /\ h \in Seq(Byte) /\ Len(h) \in Nat \ {0} /\ h[Len(h)] < Radix /\ h[Len(h)] # 0
        /\ \A i \in 1..(Len(h) - 1) : h[i] >= Radix
    BY <2>2, <2>3 DEF Canonic
  <2>5. /\ Len(g) = Len(h) + 1 /\ g[1] = Radix + m
        /\ \A i \in 1..Len(h) : g[i + 1] = h[i]
    BY <2>1, <2>3 DEF Grouped
  <2>6. g \in Seq(Byte)
    BY <1>2, <2>3, PutVarint
  <2>7. g[Len(g)] = h[Len(h)]
    BY <2>4, <2>5
  <2>8. ASSUME NEW i \in 1..(Len(g) - 1) PROVE g[i] >= Radix
    <3>1. CASE i = 1
      BY <1>0, <2>5, <3>1
    <3>2. CASE i # 1
      <4>1. i - 1 \in 1..(Len(h) - 1) /\ i - 1 \in 1..Len(h)
        BY <2>4, <2>5, <3>2
      <4>2. g[i] = h[i - 1]
        BY <2>5, <4>1
      <4> QED
        BY <2>4, <4>1, <4>2
    <3> QED
      BY <3>1, <3>2
  <2>9. Canonic(g) /\ g[Len(g)] # 0
    BY <2>4, <2>5, <2>6, <2>7, <2>8 DEF Canonic
  <2> QED
    BY <1>2, <2>3, <2>9
<1> QED
  BY <1>0, <1>2, <1>3, <1>4

\* Different numbers have different varints.
LEMMA PutInjective ==
    ASSUME NEW v \in Nat, NEW w \in Nat, put_varint[v] = put_varint[w]
    PROVE  v = w
<1> DEFINE Good(x) == \A y \in Nat : put_varint[x] = put_varint[y] => x = y
           T == {x \in Nat : ~Good(x)}
<1> SUFFICES ASSUME T # {} PROVE FALSE
  OBVIOUS
<1>1. PICK x \in T : \A m \in T : ~(m < x)
  BY LeastNumber
<1>2. x \in Nat /\ \A m \in Nat : m < x => Good(m)
  BY <1>1
<1>3. PICK y \in Nat : put_varint[x] = put_varint[y] /\ x # y
  BY <1>1
<1> HIDE DEF T
<1>0. Radix \in Nat /\ Radix > 1
  BY CodecAssumption
<1>4. ASSUME NEW z \in Nat PROVE z < Radix <=> Len(put_varint[z]) = 1
  <2>1. CASE z < Radix
    BY <2>1, PutSmall
  <2>2. CASE z >= Radix
    <3>1. PICK q \in Nat : Len(put_varint[z]) = Len(put_varint[q]) + 1
      BY <2>2, PutLarge DEF Grouped
    <3>2. Len(put_varint[q]) \in Nat \ {0}
      BY PutCanonic DEF Canonic
    <3> QED
      BY <1>0, <2>2, <3>1, <3>2
  <2> QED
    BY <1>0, <2>1, <2>2
<1>5. x < Radix <=> y < Radix
  BY <1>2, <1>3, <1>4
<1>6. CASE x < Radix
  <2>1. <<x>> = <<y>>
    BY <1>2, <1>3, <1>5, <1>6, PutSmall
  <2> QED
    BY <1>3, <2>1
<1>7. CASE x >= Radix
  <2>0. y >= Radix
    BY <1>0, <1>2, <1>5, <1>7
  <2>1. PICK q \in Nat, m \in 0..(Radix - 1) : Grouped(x, q, m)
    BY <1>2, <1>7, PutLarge
  <2>2. PICK u \in Nat, n \in 0..(Radix - 1) : Grouped(y, u, n)
    BY <2>0, PutLarge
  <2>3. m = n
    <3>1. Radix + m = Radix + n
      BY <1>3, <2>1, <2>2 DEF Grouped
    <3> QED
      BY <1>0, <3>1
  <2>4. put_varint[q] = put_varint[u]
    <3>1. PICK g \in Seq(Byte) : g = put_varint[q]
      BY <2>1 DEF Grouped
    <3>2. PICK h \in Seq(Byte) : h = put_varint[u]
      BY <2>2 DEF Grouped
    <3>3. PICK a \in Seq(Byte) : a = put_varint[x]
      BY <1>2, PutVarint
    <3>4. Len(a) = Len(g) + 1 /\ \A i \in 1..Len(g) : a[i + 1] = g[i]
      BY <2>1, <3>1, <3>3 DEF Grouped
    <3>5. Len(a) = Len(h) + 1 /\ \A i \in 1..Len(h) : a[i + 1] = h[i]
      BY <1>3, <2>2, <3>2, <3>3 DEF Grouped
    <3>6. Len(g) = Len(h)
      BY <3>4, <3>5
    <3>7. \A i \in 1..Len(g) : g[i] = h[i]
      BY <3>4, <3>5, <3>6
    <3>8. g = h
      BY <3>6, <3>7, SeqEqual
    <3> QED
      BY <3>1, <3>2, <3>8
  <2>5. q = u
    BY <1>2, <2>1, <2>4 DEF Grouped
  <2> QED
    BY <1>3, <2>1, <2>2, <2>3, <2>5 DEF Grouped
<1> QED
  BY <1>0, <1>2, <1>6, <1>7


\* A quotient is below a bound that the number is below.
LEMMA QuotientBound ==
    ASSUME NEW r \in Nat, r > 1, NEW q \in Nat, NEW m \in Nat, NEW b \in Nat,
           r * q + m <= (r - 1) + r * b
    PROVE  q <= b
<1> SUFFICES ASSUME q >= b + 1 PROVE FALSE
  OBVIOUS
<1>1. PICK d \in Nat : q = b + 1 + d
  <2>1. q - b - 1 \in Nat
    OBVIOUS
  <2> QED
    BY <2>1
<1>2. r * q = r * b + r + r * d /\ r * d \in Nat /\ r * b \in Nat
  BY <1>1
<1> QED
  BY <1>2

\* How many groups a number has, and what the last of them may be.
LEMMA PutWidth ==
    \A k \in Nat : \A v \in Nat : v <= MaxNumber[k] =>
        /\ Len(put_varint[v]) <= k + 1
        /\ Len(put_varint[v]) = k + 1 => put_varint[v][Len(put_varint[v])] <= LastGroup
<1> DEFINE Narrow(v, k) ==
              /\ Len(put_varint[v]) <= k + 1
              /\ Len(put_varint[v]) = k + 1 => put_varint[v][Len(put_varint[v])] <= LastGroup
           Good(k) == \A v \in Nat : v <= MaxNumber[k] => Narrow(v, k)
           T == {k \in Nat : ~Good(k)}
<1> SUFFICES ASSUME T # {} PROVE FALSE
  OBVIOUS
<1>1. PICK k \in T : \A j \in T : ~(j < k)
  BY LeastNumber
<1>2. k \in Nat /\ \A j \in Nat : j < k => Good(j)
  BY <1>1
<1>3. PICK v \in Nat : v <= MaxNumber[k] /\ ~Narrow(v, k)
  BY <1>1
<1> HIDE DEF T
<1>0. Radix \in Nat /\ Radix > 1 /\ LastGroup \in 0..(Radix - 1)
  BY CodecAssumption
<1>4. CASE v < Radix
  <2>1. put_varint[v] = <<v>>
    BY <1>4, PutSmall
  <2>2. Len(put_varint[v]) = 1 /\ put_varint[v][1] = v
    BY <2>1
  <2>3. k = 0 => v <= LastGroup
    BY <1>3, MaxNumberDef
  <2> QED
    BY <1>2, <1>3, <2>2, <2>3
<1>5. CASE v >= Radix
  <2>1. PICK q \in Nat, m \in 0..(Radix - 1) : Grouped(v, q, m)
    BY <1>5, PutLarge
  <2>2. k # 0
    BY <1>0, <1>3, <1>5, MaxNumberDef
  <2>3. PICK b \in Nat : b = MaxNumber[k - 1]
    BY <1>2, <2>2, MaxNumberDef
  <2>4. MaxNumber[k] = (Radix - 1) + Radix * b
    BY <1>2, <2>2, <2>3, MaxNumberDef
  <2>5. v = Radix * q + m
    BY <2>1 DEF Grouped
  <2>6. q <= b
    BY <1>0, <1>3, <2>4, <2>5, QuotientBound
  <2>7. Narrow(q, k - 1)
    BY <1>2, <2>2, <2>3, <2>6
  <2>8. PICK g \in Seq(Byte) : g = put_varint[q]
    BY PutVarint
  <2>9. PICK h \in Seq(Byte) : h = put_varint[v]
    BY PutVarint
  <2>10. Len(h) = Len(g) + 1 /\ Len(g) \in Nat \ {0} /\ \A i \in 1..Len(g) : h[i + 1] = g[i]
    BY <2>1, <2>8, <2>9, PutCanonic DEF Grouped, Canonic
  <2>11. h[Len(h)] = g[Len(g)]
    BY <2>10
  <2>12. Len(g) <= k /\ (Len(g) = k => g[Len(g)] <= LastGroup)
    BY <1>2, <2>7, <2>8
  <2>13. Len(h) <= k + 1 /\ (Len(h) = k + 1 => h[Len(h)] <= LastGroup)
    BY <1>2, <2>10, <2>11, <2>12
  <2> QED
    BY <1>3, <2>9, <2>13
<1> QED
  BY <1>0, <1>4, <1>5

-----------------------------------------------------------------------------
(***************************************************************************)
(* The value of groups: FoldRight takes them from the first to the last.   *)
(***************************************************************************)
FoldsOn(f, g, D) ==
    f = [s \in D |-> IF s = {} THEN 0 ELSE (g[Min(s)] % Radix) + Radix * f[s \ {Min(s)}]]

\* The value of groups as the fold defines it.
LEMMA VarintValueUnfold ==
    ASSUME NEW g
    PROVE  VarintValue(g) = (CHOOSE f : FoldsOn(f, g, SUBSET DOMAIN g))[DOMAIN g]
BY DEF VarintValue, FoldRight, MapThenFoldSet, FoldsOn


\* The subsets of S with at most n elements.
Upto(S, n) == {s \in SUBSET S : Cardinality(s) <= n}

\* The least element of a set of positions, and what is left without it.
LEMMA FoldStep ==
    ASSUME NEW n \in Nat, NEW s \in SUBSET (1..n), s # {}
    PROVE  /\ Min(s) \in s /\ \A x \in s : Min(s) <= x
           /\ s \ {Min(s)} \in SUBSET (1..n)
           /\ Cardinality(s) \in Nat /\ Cardinality(s \ {Min(s)}) \in Nat
           /\ Cardinality(s \ {Min(s)}) = Cardinality(s) - 1
<1>0. s \subseteq Nat
  OBVIOUS
<1>1. PICK k \in s : \A m \in s : ~(m < k)
  BY <1>0, LeastNumber
<1>2. k \in s /\ \A x \in s : k <= x
  BY <1>0, <1>1
<1>3. Min(s) \in s /\ \A x \in s : Min(s) <= x
  BY <1>2 DEF Min
<1>4. IsFiniteSet(1..n)
  BY FS_Interval
<1>5. IsFiniteSet(s)
  BY <1>4, FS_Subset
<1>6. IsFiniteSet(s \ {Min(s)}) /\ Cardinality(s \ {Min(s)}) = Cardinality(s) - 1
  BY <1>3, <1>5, FS_RemoveElement
<1> QED
  BY <1>3, <1>5, <1>6, FS_CardinalityType

\* The equation has a solution.
LEMMA FoldExists ==
    ASSUME NEW n \in Nat, NEW g
    PROVE  \E f : FoldsOn(f, g, SUBSET (1..n))
<1> DEFINE S == 1..n
<1>1. \A k \in Nat : \E f : FoldsOn(f, g, Upto(S, k))
  <2> DEFINE T == {k \in Nat : ~\E f : FoldsOn(f, g, Upto(S, k))}
  <2> SUFFICES ASSUME T # {} PROVE FALSE
    OBVIOUS
  <2>1. PICK k \in T : \A m \in T : ~(m < k)
    BY LeastNumber
  <2>2. CASE k = 0
    <3> DEFINE f == [s \in Upto(S, 0) |-> 0]
    <3>1. \A s \in Upto(S, 0) : s = {}
      <4> SUFFICES ASSUME NEW s \in Upto(S, 0), s # {} PROVE FALSE
        OBVIOUS
      <4>1. s \in SUBSET S /\ Cardinality(s) <= 0
        BY DEF Upto
      <4>2. Cardinality(s) \in Nat /\ Cardinality(s) - 1 \in Nat
        <5>1. s \in SUBSET (1..n) /\ s # {}
          BY <4>1
        <5>2. /\ Cardinality(s) \in Nat /\ Cardinality(s \ {Min(s)}) \in Nat
              /\ Cardinality(s \ {Min(s)}) = Cardinality(s) - 1
          BY <5>1, FoldStep
        <5> QED
          BY <5>2
      <4> QED
        BY <4>1, <4>2
    <3>2. FoldsOn(f, g, Upto(S, 0))
      BY <3>1 DEF FoldsOn
    <3> QED
      BY <2>1, <2>2, <3>2
  <2>3. CASE k # 0
    <3>1. k - 1 \in Nat /\ k - 1 < k /\ k - 1 \notin T /\ k \in Nat
      BY <2>1, <2>3
    <3>2. PICK h : FoldsOn(h, g, Upto(S, k - 1))
      BY <3>1
    <3> DEFINE f == [s \in Upto(S, k) |->
                        IF s = {} THEN 0 ELSE (g[Min(s)] % Radix) + Radix * h[s \ {Min(s)}]]
    <3>3. \A s \in Upto(S, k) : s # {} => s \ {Min(s)} \in Upto(S, k - 1)
      <4> SUFFICES ASSUME NEW s \in Upto(S, k), s # {} PROVE s \ {Min(s)} \in Upto(S, k - 1)
        OBVIOUS
      <4>1. s \in SUBSET S /\ Cardinality(s) <= k
        BY DEF Upto
      <4>2. /\ s \ {Min(s)} \in SUBSET S
            /\ Cardinality(s) \in Nat /\ Cardinality(s \ {Min(s)}) = Cardinality(s) - 1
        BY <4>1, FoldStep
      <4> QED
        BY <3>1, <4>1, <4>2 DEF Upto
    <3>4. \A s \in Upto(S, k - 1) : s \in Upto(S, k)
      <4> SUFFICES ASSUME NEW s \in Upto(S, k - 1) PROVE s \in Upto(S, k)
        OBVIOUS
      <4>1. s \in SUBSET S /\ Cardinality(s) <= k - 1
        BY DEF Upto
      <4>2. Cardinality(s) \in Nat
        <5>1. IsFiniteSet(1..n)
          BY FS_Interval
        <5> QED
          BY <4>1, <5>1, FS_Subset, FS_CardinalityType
      <4> QED
        BY <3>1, <4>1, <4>2 DEF Upto
    <3>5. \A s \in Upto(S, k - 1) : f[s] = h[s]
      BY <3>2, <3>4 DEF FoldsOn
    <3>6. f = [s \in Upto(S, k) |->
                  IF s = {} THEN 0 ELSE (g[Min(s)] % Radix) + Radix * f[s \ {Min(s)}]]
      BY <3>3, <3>5
    <3>7. FoldsOn(f, g, Upto(S, k))
      BY <3>6 DEF FoldsOn
    <3> QED
      BY <2>1, <3>7
  <2> QED
    BY <2>2, <2>3
<1>2. SUBSET S = Upto(S, n)
  <2>1. IsFiniteSet(S) /\ Cardinality(S) = n
    BY FS_Interval
  <2>2. \A s \in SUBSET S : Cardinality(s) <= n
    BY <2>1, FS_Subset
  <2> QED
    BY <2>2 DEF Upto
<1> QED
  BY <1>1, <1>2

\* The value from the i-th group on, for each i.
LEMMA VarintValueSteps ==
    ASSUME NEW g \in Seq(Byte)
    PROVE  \E f : /\ VarintValue(g) = f[1..Len(g)]
                  /\ f[(Len(g) + 1)..Len(g)] = 0
                  /\ \A i \in 1..Len(g) :
                        f[i..Len(g)] = (g[i] % Radix) + Radix * f[(i + 1)..Len(g)]
<1>1. PICK n \in Nat : n = Len(g) /\ DOMAIN g = 1..n
  OBVIOUS
<1>2. PICK f : f = CHOOSE h : FoldsOn(h, g, SUBSET DOMAIN g)
  OBVIOUS
<1>3. \E h : FoldsOn(h, g, SUBSET DOMAIN g)
  BY <1>1, FoldExists
<1>4. FoldsOn(f, g, SUBSET DOMAIN g)
  BY <1>2, <1>3
<1>5. \A s \in SUBSET (1..n) :
          f[s] = IF s = {} THEN 0 ELSE (g[Min(s)] % Radix) + Radix * f[s \ {Min(s)}]
  BY <1>1, <1>4 DEF FoldsOn
<1>6. VarintValue(g) = f[1..n]
  BY <1>1, <1>2, VarintValueUnfold
<1>7. f[(n + 1)..n] = 0
  <2>1. (n + 1)..n = {}
    OBVIOUS
  <2> QED
    BY <1>5, <2>1
<1>8. ASSUME NEW i \in 1..n
      PROVE  f[i..n] = (g[i] % Radix) + Radix * f[(i + 1)..n]
  <2>1. PICK s \in SUBSET (1..n) : s = i..n
    OBVIOUS
  <2>2. i \in s /\ \A x \in s : i <= x
    BY <2>1
  <2>3. Min(s) \in s /\ \A x \in s : Min(s) <= x
    BY <2>2, FoldStep
  <2>4. Min(s) = i
    BY <2>1, <2>2, <2>3
  <2>5. s \ {i} = (i + 1)..n
    BY <2>1
  <2> QED
    BY <1>5, <2>1, <2>2, <2>4, <2>5
<1> QED
  BY <1>1, <1>6, <1>7, <1>8


\* The value of canonical groups is the number they are the varint of.
LEMMA CanonicValue ==
    ASSUME NEW g, Canonic(g)
    PROVE  VarintValue(g) \in Nat /\ put_varint[VarintValue(g)] = g
<1>0. Radix \in Nat /\ Radix > 1
  BY CodecAssumption
<1>1. PICK n \in Nat \ {0} : n = Len(g)
  BY DEF Canonic
<1>2. /\ g \in Seq(Byte) /\ g[n] < Radix /\ (n > 1 => g[n] # 0)
      /\ \A i \in 1..(n - 1) : g[i] >= Radix
  BY <1>1 DEF Canonic
<1>3. PICK f : /\ VarintValue(g) = f[1..n]
               /\ f[(n + 1)..n] = 0
               /\ \A i \in 1..n : f[i..n] = (g[i] % Radix) + Radix * f[(i + 1)..n]
  BY <1>1, <1>2, VarintValueSteps
<1> DEFINE Good(i) == /\ f[i..n] \in Nat
                      /\ put_varint[f[i..n]] = SubSeq(g, i, n)
                      /\ n > 1 => f[i..n] > 0
           T == {d \in Nat : d < n /\ ~Good(n - d)}
<1>4. T = {}
  <2> SUFFICES ASSUME T # {} PROVE FALSE
    OBVIOUS
  <2>1. PICK d \in T : \A m \in T : ~(m < d)
    BY LeastNumber
  <2>2. d \in Nat /\ d < n /\ ~Good(n - d) /\ \A m \in Nat : m < d => Good(n - m)
    BY <2>1
  <2> HIDE DEF T
  <2>3. PICK i \in 1..n : i = n - d /\ i \in Nat /\ ~Good(i)
    BY <2>2
  <2>4. g[i] \in Byte /\ g[i] \in Nat
    BY <1>0, <1>1, <1>2, <2>3 DEF Byte
  <2>5. CASE i = n
    <3>1. g[n] % Radix = g[n] /\ g[n] \in Nat /\ g[n] < Radix
      BY <1>0, <1>2, <2>4, <2>5
    <3>2. f[n..n] = g[n]
      <4>1. f[n..n] = g[n] + Radix * f[(n + 1)..n]
        <5>1. n \in 1..n
          OBVIOUS
        <5>2. f[n..n] = (g[n] % Radix) + Radix * f[(n + 1)..n]
          BY <1>3, <5>1, Zenon
        <5> QED
          BY <3>1, <5>2
      <4>2. Radix * 0 = 0
        BY <1>0
      <4> QED
        BY <1>3, <3>1, <4>1, <4>2
    <3>3. put_varint[g[n]] = <<g[n]>>
      BY <3>1, PutSmall
    <3>4. SubSeq(g, n, n) = <<g[n]>>
      <4>1. n \in 1..Len(g) /\ n \in n..Len(g) /\ n < n + 1
        BY <1>1
      <4>2. SubSeq(g, n, n) = <<g[n]>> \o SubSeq(g, n + 1, n)
        BY <1>2, <4>1, SubSeqRecursiveFirst
      <4>3. SubSeq(g, n + 1, n) = << >>
        BY <4>1, SubSeqEmpty
      <4>4. <<g[n]>> \o << >> = <<g[n]>>
        OBVIOUS
      <4> QED
        BY <4>2, <4>3, <4>4
    <3>5. Good(n)
      BY <1>2, <3>1, <3>2, <3>3, <3>4
    <3> QED
      BY <2>3, <2>5, <3>5
  <2>6. CASE i # n
    <3>1. i < n /\ n > 1 /\ i + 1 = n - (d - 1) /\ d - 1 \in Nat
      BY <2>2, <2>3, <2>6
    <3>2. Good(i + 1)
      BY <2>2, <3>1
    <3>3. PICK w \in Nat : w = f[(i + 1)..n] /\ w > 0 /\ put_varint[w] = SubSeq(g, i + 1, n)
      BY <3>1, <3>2
    <3>4. g[i] >= Radix
      BY <1>2, <2>3, <3>1
    <3>5. PICK a \in 0..(Radix - 1) : g[i] = Radix + a
      <4>1. PICK c \in Nat : c = g[i]
        BY <2>4
      <4>2. c - Radix \in 0..(Radix - 1) /\ c = Radix + (c - Radix)
        BY <1>0, <2>4, <3>4, <4>1 DEF Byte
      <4> QED
        BY <4>1, <4>2
    <3>6. g[i] % Radix = a
      BY <1>0, <3>5
    <3>7. PICK v \in Nat : v = Radix * w + a /\ v = f[i..n]
      <4>1. f[i..n] = a + Radix * w
        BY <1>3, <2>3, <3>3, <3>6
      <4>2. Radix * w \in Nat
        BY <1>0, <3>3
      <4> QED
        BY <1>0, <4>1, <4>2
    <3>8. v >= Radix
      <4>1. Radix * w >= Radix /\ Radix * w \in Nat
        BY <1>0, <3>3, SMTT(30)
      <4> QED
        BY <1>0, <3>7, <4>1
    <3>9. PICK q \in Nat, m \in 0..(Radix - 1) : Grouped(v, q, m)
      BY <3>8, PutLarge
    <3>10. v = Radix * q + m
      BY <3>9 DEF Grouped
    <3>11. q = w /\ m = a
      <4>1. v \div Radix = q /\ v % Radix = m
        BY <1>0, <3>10, DivModUnique
      <4>2. v = Radix * w + a
        BY <3>7
      <4>3. v \div Radix = w /\ v % Radix = a
        BY <1>0, <4>2, DivModUnique
      <4> QED
        BY <4>1, <4>3
    <3>12. put_varint[v] = <<g[i]>> \o SubSeq(g, i + 1, n)
      BY <3>3, <3>5, <3>9, <3>11 DEF Grouped
    <3>13. SubSeq(g, i, n) = <<g[i]>> \o SubSeq(g, i + 1, n)
      <4>1. i \in 1..Len(g) /\ n \in i..Len(g)
        BY <1>1, <2>3
      <4> QED
        BY <1>2, <4>1, SubSeqRecursiveFirst
    <3>14. v > 0
      BY <1>0, <3>8
    <3> QED
      BY <2>3, <3>7, <3>12, <3>13, <3>14
  <2> QED
    BY <2>5, <2>6
<1>5. Good(1)
  <2>1. n - 1 \in Nat /\ n - 1 < n /\ n - (n - 1) = 1
    OBVIOUS
  <2> QED
    BY <1>4, <2>1
<1>6. SubSeq(g, 1, n) = g
  BY <1>1, <1>2, SubSeqFull
<1> QED
  BY <1>3, <1>5, <1>6


-----------------------------------------------------------------------------
(***************************************************************************)
(* Reading a varint takes exactly what writing it made.                    *)
(***************************************************************************)
Pair(value, rest) == [value |-> value, rest |-> rest]

\* The two parts of a concatenation.
LEMMA ConcatParts ==
    ASSUME NEW S, NEW s \in Seq(S), NEW t \in Seq(S)
    PROVE  /\ SubSeq(s \o t, 1, Len(s)) = s
           /\ SubSeq(s \o t, Len(s) + 1, Len(s \o t)) = t
<1>1. PICK c \in Seq(S) : c = s \o t
  BY ConcatProperties
<1>2. PICK m \in Nat, n \in Nat : m = Len(s) /\ n = Len(t)
  OBVIOUS
<1>3. Len(c) = m + n /\ \A i \in 1..(m + n) : c[i] = IF i <= m THEN s[i] ELSE t[i - m]
  BY <1>1, <1>2, ConcatProperties
<1>4. \A i \in 1..(m + n) : c[i] \in S
  BY <1>1, <1>3
<1>5. SubSeq(c, 1, m) = s
  <2>1. /\ SubSeq(c, 1, m) \in Seq(S) /\ Len(SubSeq(c, 1, m)) = m
        /\ \A i \in 1..m : SubSeq(c, 1, m)[i] = c[i]
    <3>1. \A i \in 1..m : c[i] \in S
      BY <1>4
    <3>2. /\ SubSeq(c, 1, m) \in Seq(S)
          /\ Len(SubSeq(c, 1, m)) = IF 1 <= m THEN m - 1 + 1 ELSE 0
          /\ \A i \in 1..(m - 1 + 1) : SubSeq(c, 1, m)[i] = c[1 + i - 1]
      BY <3>1, SubSeqProperties
    <3> QED
      BY <3>2
  <2>2. \A i \in 1..m : c[i] = s[i]
    BY <1>3
  <2> QED
    BY <1>2, <2>1, <2>2, SeqEqual
<1>6. SubSeq(c, m + 1, m + n) = t
  <2>1. /\ SubSeq(c, m + 1, m + n) \in Seq(S) /\ Len(SubSeq(c, m + 1, m + n)) = n
        /\ \A i \in 1..n : SubSeq(c, m + 1, m + n)[i] = c[m + i]
    <3>1. PICK p \in Int, q \in Int : p = m + 1 /\ q = m + n
      OBVIOUS
    <3>2. \A i \in p..q : c[i] \in S
      BY <1>4, <3>1
    <3>3. /\ SubSeq(c, p, q) \in Seq(S)
          /\ Len(SubSeq(c, p, q)) = IF p <= q THEN q - p + 1 ELSE 0
          /\ \A i \in 1..(q - p + 1) : SubSeq(c, p, q)[i] = c[p + i - 1]
      BY <3>2, SubSeqProperties
    <3>4. q - p + 1 = n /\ (p <= q <=> n # 0) /\ \A i \in 1..n : p + i - 1 = m + i
      BY <3>1
    <3> QED
      BY <3>1, <3>3, <3>4
  <2>2. \A i \in 1..n : c[m + i] = t[i]
    BY <1>3
  <2> QED
    BY <1>2, <2>1, <2>2, SeqEqual
<1> QED
  BY <1>1, <1>2, <1>3, <1>5, <1>6

\* A sequence is its two parts.
LEMMA SplitAt ==
    ASSUME NEW S, NEW s \in Seq(S), NEW n \in 0..Len(s)
    PROVE  /\ SubSeq(s, 1, n) \in Seq(S) /\ Len(SubSeq(s, 1, n)) = n
           /\ SubSeq(s, n + 1, Len(s)) \in Seq(S)
           /\ Len(SubSeq(s, n + 1, Len(s))) = Len(s) - n
           /\ s = SubSeq(s, 1, n) \o SubSeq(s, n + 1, Len(s))
           /\ \A i \in 1..n : SubSeq(s, 1, n)[i] = s[i]
<1>1. PICK l \in Nat : l = Len(s)
  OBVIOUS
<1>2. \A i \in 1..l : s[i] \in S
  BY <1>1
<1>3. /\ SubSeq(s, 1, n) \in Seq(S) /\ Len(SubSeq(s, 1, n)) = n
      /\ \A i \in 1..n : SubSeq(s, 1, n)[i] = s[i]
  <2>1. \A i \in 1..n : s[i] \in S
    BY <1>1, <1>2
  <2>2. /\ SubSeq(s, 1, n) \in Seq(S)
        /\ Len(SubSeq(s, 1, n)) = IF 1 <= n THEN n - 1 + 1 ELSE 0
        /\ \A i \in 1..(n - 1 + 1) : SubSeq(s, 1, n)[i] = s[1 + i - 1]
    BY <1>1, <2>1, SubSeqProperties
  <2> QED
    BY <1>1, <2>2
<1>4. SubSeq(s, n + 1, l) \in Seq(S) /\ Len(SubSeq(s, n + 1, l)) = l - n
  <2>1. \A i \in (n + 1)..l : s[i] \in S
    BY <1>1, <1>2
  <2>2. /\ SubSeq(s, n + 1, l) \in Seq(S)
        /\ Len(SubSeq(s, n + 1, l)) = IF n + 1 <= l THEN l - (n + 1) + 1 ELSE 0
    BY <1>1, <2>1, SubSeqProperties
  <2> QED
    BY <1>1, <2>2
<1>5. SubSeq(s, 1, n) \o SubSeq(s, n + 1, l) = SubSeq(s, 1, l)
  <2>1. 1 \in 1..(Len(s) + 1) /\ n \in (1 - 1)..Len(s) /\ l \in n..Len(s)
    BY <1>1
  <2> QED
    BY <2>1, ConcatAdjacentSubSeq
<1>6. SubSeq(s, 1, l) = s
  BY <1>1, SubSeqFull
<1> QED
  BY <1>1, <1>3, <1>4, <1>5, <1>6

\* What parse_varint accepts is the varint of what it returns.
LEMMA ParseInv ==
    ASSUME NEW x \in Seq(Byte), NEW r \in parse_varint(x)
    PROVE  /\ r.value \in Nat /\ r.rest \in Seq(Byte)
           /\ r = Pair(r.value, r.rest)
           /\ x = put_varint[r.value] \o r.rest
<1>0. Radix \in Nat /\ Radix > 1 /\ MaxVarint \in Nat
  BY CodecAssumption
<1>1. PICK n \in Ends(x) :
          /\ \A j \in Ends(x) : n <= j
          /\ ~(n > 1 /\ x[n] = 0)
          /\ r = [value |-> VarintValue(SubSeq(x, 1, n)), rest |-> SubSeq(x, n + 1, Len(x))]
  BY DEF parse_varint
<1>2. n \in 1..Len(x) /\ n <= MaxVarint /\ x[n] < Radix /\ n \in 0..Len(x) /\ n \in Nat
  BY DEF Ends
<1>3. PICK g : g = SubSeq(x, 1, n)
  OBVIOUS
<1>4. PICK t : t = SubSeq(x, n + 1, Len(x))
  OBVIOUS
<1>5. g \in Seq(Byte) /\ Len(g) = n /\ t \in Seq(Byte) /\ x = g \o t
      /\ \A i \in 1..n : g[i] = x[i]
  BY <1>2, <1>3, <1>4, SplitAt
<1>6. ASSUME NEW i \in 1..(n - 1) PROVE g[i] >= Radix
  <2>1. i \in 1..Len(x) /\ i \in 1..n /\ i <= MaxVarint /\ i \in Nat /\ i < n
    BY <1>0, <1>2
  <2>2. x[i] \in Byte
    BY <2>1
  <2>3. ~(x[i] < Radix)
    BY <1>1, <1>2, <2>1 DEF Ends
  <2> QED
    BY <1>0, <1>5, <2>1, <2>2, <2>3 DEF Byte
<1>7. Canonic(g)
  <2>1. n \in 1..n /\ g[n] = x[n]
    BY <1>2, <1>5
  <2> QED
    BY <1>1, <1>2, <1>5, <1>6, <2>1 DEF Canonic
<1>8. VarintValue(g) \in Nat /\ put_varint[VarintValue(g)] = g
  BY <1>7, CanonicValue
<1>9. r.value = VarintValue(g) /\ r.rest = t
  BY <1>1, <1>3, <1>4
<1>10. r = Pair(r.value, r.rest)
  BY <1>1 DEF Pair
<1> QED
  BY <1>5, <1>8, <1>9, <1>10

\* What put_varint writes, parse_varint reads, and leaves what follows.
LEMMA ParsePut ==
    ASSUME NEW v \in Nat, v <= u64_MAX, NEW t \in Seq(Byte)
    PROVE  parse_varint(put_varint[v] \o t) = {Pair(v, t)}
<1>0. Radix \in Nat /\ Radix > 1 /\ MaxVarint \in Nat \ {0} /\ LastGroup \in Nat
  BY CodecAssumption
<1>1. PICK g : g = put_varint[v]
  OBVIOUS
<1>2. Canonic(g)
  BY <1>1, PutCanonic
<1>3. PICK n \in Nat \ {0} : n = Len(g)
  BY <1>2 DEF Canonic
<1>4. /\ g \in Seq(Byte) /\ g[n] < Radix /\ (n > 1 => g[n] # 0)
      /\ \A i \in 1..(n - 1) : g[i] >= Radix
  BY <1>2, <1>3 DEF Canonic
<1>5. n <= MaxVarint /\ (n = MaxVarint => g[n] <= LastGroup)
  <2>1. PICK k \in Nat : k = MaxVarint - 1
    BY <1>0
  <2>2. v <= MaxNumber[k]
    BY <2>1 DEF u64_MAX
  <2>3. Len(g) <= k + 1 /\ (Len(g) = k + 1 => g[Len(g)] <= LastGroup)
    BY <1>1, <2>2, PutWidth
  <2> QED
    BY <1>0, <1>3, <2>1, <2>3
<1>6. PICK x \in Seq(Byte) : x = g \o t
  BY <1>4, ConcatProperties
<1>7. /\ Len(x) \in Nat /\ Len(x) >= n
      /\ \A i \in 1..n : x[i] = g[i]
  BY <1>3, <1>4, <1>6, ConcatProperties
<1>8. SubSeq(x, 1, n) = g /\ SubSeq(x, n + 1, Len(x)) = t
  BY <1>3, <1>4, <1>6, ConcatParts
<1>9. n \in 1..n /\ n \in 1..Len(x) /\ x[n] = g[n] /\ g[n] \in Nat
  <2>1. g[n] \in Byte
    BY <1>3, <1>4
  <2> QED
    BY <1>0, <1>7, <2>1 DEF Byte
<1>10. n \in Ends(x)
  BY <1>4, <1>5, <1>9 DEF Ends
<1>11. \A j \in Ends(x) : n <= j /\ j \in Nat
  <2> SUFFICES ASSUME NEW j \in Ends(x) PROVE n <= j /\ j \in Nat
    OBVIOUS
  <2>1. j \in 1..Len(x) /\ x[j] < Radix /\ j \in Nat
    BY DEF Ends
  <2>2. ASSUME j < n PROVE FALSE
    <3>1. j \in 1..(n - 1) /\ j \in 1..n /\ j \in 1..Len(g)
      BY <1>3, <2>1, <2>2
    <3>2. g[j] \in Byte
      BY <1>4, <3>1
    <3>3. g[j] >= Radix /\ g[j] < Radix
      BY <1>4, <1>7, <2>1, <3>1
    <3> QED
      BY <1>0, <3>2, <3>3 DEF Byte
  <2> QED
    BY <2>1, <2>2
<1>12. {i \in Ends(x) : /\ \A j \in Ends(x) : i <= j
                        /\ ~(i = MaxVarint /\ x[i] > LastGroup)
                        /\ ~(i > 1 /\ x[i] = 0)} = {n}
  <2>1. ~(n = MaxVarint /\ x[n] > LastGroup) /\ ~(n > 1 /\ x[n] = 0)
    BY <1>0, <1>4, <1>5, <1>9
  <2>2. \A i \in Ends(x) : (\A j \in Ends(x) : i <= j) => i = n
    BY <1>10, <1>11
  <2>3. \A j \in Ends(x) : n <= j
    BY <1>11
  <2> QED
    BY <1>10, <2>1, <2>2, <2>3
<1>13. parse_varint(x) = {[value |-> VarintValue(SubSeq(x, 1, n)),
                           rest |-> SubSeq(x, n + 1, Len(x))]}
  BY <1>12 DEF parse_varint
<1>14. VarintValue(g) = v
  <2>1. VarintValue(g) \in Nat /\ put_varint[VarintValue(g)] = put_varint[v]
    BY <1>1, <1>2, CanonicValue
  <2> QED
    BY <2>1, PutInjective
<1> QED
  BY <1>1, <1>6, <1>8, <1>13, <1>14 DEF Pair


-----------------------------------------------------------------------------
(***************************************************************************)
(* Sequences put one after the other.                                      *)
(***************************************************************************)
IsFlatten(f, ss) ==
    f = [i \in 1..Len(ss) |-> IF i = 1 THEN ss[i] ELSE f[i - 1] \o ss[i]]

\* FlattenSeq as the recursion defines it.
LEMMA FlattenUnfold ==
    ASSUME NEW ss, Len(ss) # 0
    PROVE  FlattenSeq(ss) = (CHOOSE f : IsFlatten(f, ss))[Len(ss)]
BY DEF FlattenSeq, IsFlatten

\* f joins the first n sequences, one after the other.
Flattens(f, ss, n) ==
    /\ FlattenSeq(ss) = f[n] /\ f[1] = ss[1]
    /\ \A i \in 2..n : f[i] = f[i - 1] \o ss[i]

\* FlattenSeq takes a sequence at a time.
LEMMA FlattenSteps ==
    ASSUME NEW A, NEW ss \in Seq(Seq(A)), NEW n \in Nat \ {0}, n = Len(ss)
    PROVE  \E f : Flattens(f, ss, n) /\ \A i \in 1..n : f[i] \in Seq(A)
<1>1. \A i \in 1..n : ss[i] \in Seq(A)
  OBVIOUS
<1> DEFINE V == Seq(A)
           B == {0, 1}
           b == [i \in B |-> ss[1]]
           p == [i \in Nat |-> i - 1]
           G == [i \in Nat |-> [y \in V |-> IF i \in 1..n THEN y \o ss[i] ELSE y]]
<1>2. \A i \in Nat, y \in V : G[i][y] = IF i \in 1..n THEN y \o ss[i] ELSE y
  OBVIOUS
<1>3. \A i \in Nat, y \in V : G[i][y] \in V
  BY <1>1, <1>2, ConcatProperties
<1>4. \A i \in B : b[i] = ss[1] /\ b[i] \in V
  BY <1>1
<1>5. \A i \in Nat : p[i] = i - 1
  OBVIOUS
<1>6. Descends(p, B)
  BY <1>5 DEF Descends
<1> HIDE DEF b, p, G
<1>7. PICK h : Solves(h, Nat, V, B, b, p, G)
  BY <1>3, <1>4, <1>6, Recursion
<1>8. h \in [Nat -> V] /\ \A i \in Nat : h[i] = IF i \in B THEN b[i] ELSE G[i][h[p[i]]]
  BY <1>7 DEF Solves
<1> DEFINE k == [i \in 1..n |-> h[i]]
<1>9. \A i \in 1..n : k[i] = h[i]
  OBVIOUS
<1>10. ASSUME NEW i \in 1..n PROVE h[i] = IF i = 1 THEN ss[i] ELSE k[i - 1] \o ss[i]
  <2>1. CASE i = 1
    BY <1>4, <1>8, <2>1
  <2>2. CASE i # 1
    <3>1. i \notin B /\ i \in Nat /\ i - 1 \in 1..n /\ i - 1 \in Nat
      BY <2>2
    <3>2. h[i] = G[i][h[i - 1]] /\ h[i - 1] \in V
      BY <1>5, <1>8, <3>1
    <3>3. k[i - 1] = h[i - 1]
      BY <3>1
    <3> HIDE DEF k
    <3> QED
      BY <1>2, <2>2, <3>1, <3>2, <3>3
  <2> QED
    BY <2>1, <2>2
<1>11. IsFlatten(k, ss)
  BY <1>10 DEF IsFlatten
<1> HIDE DEF k
<1>12. PICK f : f = CHOOSE j : IsFlatten(j, ss)
  OBVIOUS
<1>13. IsFlatten(f, ss)
  BY <1>11, <1>12
<1>14. FlattenSeq(ss) = f[n]
  BY <1>12, FlattenUnfold
<1>15. \A i \in 1..n : f[i] = IF i = 1 THEN ss[i] ELSE f[i - 1] \o ss[i]
  BY <1>13 DEF IsFlatten
<1>16. \A i \in 1..n : f[i] \in Seq(A)
  <2> DEFINE T == {i \in 1..n : f[i] \notin Seq(A)}
  <2> SUFFICES ASSUME T # {} PROVE FALSE
    OBVIOUS
  <2>0. T \subseteq Nat
    OBVIOUS
  <2>1. PICK i \in T : \A j \in T : ~(j < i)
    BY <2>0, LeastNumber
  <2>2. i \in 1..n /\ f[i] \notin Seq(A) /\ \A j \in 1..n : j < i => f[j] \in Seq(A)
    BY <2>1
  <2> HIDE DEF T
  <2>3. i # 1
    BY <1>1, <1>15, <2>2
  <2>4. i - 1 \in 1..n /\ i - 1 < i
    BY <2>2, <2>3
  <2>5. f[i] = f[i - 1] \o ss[i] /\ f[i - 1] \in Seq(A) /\ ss[i] \in Seq(A)
    BY <1>1, <1>15, <2>2, <2>3, <2>4
  <2> QED
    BY <2>2, <2>5, ConcatProperties
<1>17. 1 \in 1..n /\ \A i \in 2..n : i \in 1..n /\ i # 1
  OBVIOUS
<1>18. f[1] = ss[1]
  BY <1>15, <1>17
<1>19. \A i \in 2..n : f[i] = f[i - 1] \o ss[i]
  BY <1>15, <1>17
<1> QED
  BY <1>14, <1>16, <1>18, <1>19 DEF Flattens

\* Nothing and one more.
LEMMA FlattenEmpty == FlattenSeq(<< >>) = << >>
BY DEF FlattenSeq

\* Sequences over A give a sequence over A.
LEMMA FlattenType ==
    ASSUME NEW A, NEW ss \in Seq(Seq(A))
    PROVE  FlattenSeq(ss) \in Seq(A)
<1>1. CASE Len(ss) = 0
  <2>1. ss = << >>
    BY <1>1, EmptySeq
  <2> QED
    BY <2>1, FlattenEmpty, EmptySeq
<1>2. CASE Len(ss) # 0
  <2>1. PICK n \in Nat \ {0} : n = Len(ss)
    BY <1>2
  <2>2. PICK f : Flattens(f, ss, n) /\ \A i \in 1..n : f[i] \in Seq(A)
    BY <2>1, FlattenSteps
  <2>3. n \in 1..n
    OBVIOUS
  <2> QED
    BY <2>2, <2>3 DEF Flattens
<1> QED
  BY <1>1, <1>2

\* One more sequence is put at the end.
LEMMA FlattenAppend ==
    ASSUME NEW A, NEW ss \in Seq(Seq(A)), NEW x \in Seq(A)
    PROVE  FlattenSeq(Append(ss, x)) = FlattenSeq(ss) \o x
<1>1. PICK tt \in Seq(Seq(A)) : tt = Append(ss, x)
  BY AppendProperties
<1>2. PICK n \in Nat : n = Len(ss)
  OBVIOUS
<1>3. Len(tt) = n + 1 /\ tt[n + 1] = x /\ \A i \in 1..n : tt[i] = ss[i]
  BY <1>1, <1>2, AppendProperties
<1>4. PICK h : /\ FlattenSeq(tt) = h[n + 1] /\ h[1] = tt[1]
               /\ \A i \in 2..(n + 1) : h[i] = h[i - 1] \o tt[i]
  <2>1. PICK k \in Nat \ {0} : k = n + 1
    OBVIOUS
  <2>2. \E h : Flattens(h, tt, k)
    BY <1>3, <2>1, FlattenSteps
  <2> QED
    BY <2>1, <2>2 DEF Flattens
<1>5. CASE n = 0
  <2>1. ss = << >>
    BY <1>2, <1>5, EmptySeq
  <2>2. FlattenSeq(ss) = << >> /\ << >> \o x = x
    BY <2>1, FlattenEmpty, ConcatEmptySeq
  <2> QED
    BY <1>1, <1>3, <1>4, <1>5, <2>2
<1>6. CASE n # 0
  <2>1. PICK f : /\ FlattenSeq(ss) = f[n] /\ f[1] = ss[1]
                 /\ \A i \in 2..n : f[i] = f[i - 1] \o ss[i]
    <3>1. \E f : Flattens(f, ss, n)
      BY <1>2, <1>6, FlattenSteps
    <3> QED
      BY <3>1 DEF Flattens
  <2>2. \A i \in 1..n : h[i] = f[i]
    <3> DEFINE T == {i \in 1..n : h[i] # f[i]}
    <3> SUFFICES ASSUME T # {} PROVE FALSE
      OBVIOUS
    <3>0. T \subseteq Nat
      OBVIOUS
    <3>1. PICK i \in T : \A j \in T : ~(j < i)
      BY <3>0, LeastNumber
    <3>2. i \in 1..n /\ h[i] # f[i] /\ \A j \in 1..n : j < i => h[j] = f[j]
      BY <3>1
    <3> HIDE DEF T
    <3>3. i # 1
      <4>1. 1 \in 1..n
        BY <1>6
      <4> QED
        BY <1>3, <1>4, <2>1, <3>2, <4>1
    <3>4. i - 1 \in 1..n /\ i - 1 < i /\ i \in 2..n /\ i \in 2..(n + 1)
      BY <3>2, <3>3
    <3>5. h[i] = h[i - 1] \o tt[i] /\ f[i] = f[i - 1] \o ss[i]
      BY <1>4, <2>1, <3>4
    <3> QED
      BY <1>3, <3>2, <3>4, <3>5
  <2>3. n \in 1..n /\ n + 1 \in 2..(n + 1)
    BY <1>6
  <2>4. h[n + 1] = h[n] \o tt[n + 1]
    <3>1. h[n + 1] = h[(n + 1) - 1] \o tt[n + 1]
      BY <1>4, <2>3
    <3>2. (n + 1) - 1 = n
      OBVIOUS
    <3> QED
      BY <3>1, <3>2
  <2> QED
    BY <1>1, <1>3, <1>4, <2>1, <2>2, <2>3, <2>4
<1> QED
  BY <1>5, <1>6


\* What the first n sequences make, and what follows.
First(ss, n) == FlattenSeq(SubSeq(ss, 1, n))
\* What comes after the first n sequences.
After(ss, n) == FlattenSeq(SubSeq(ss, n + 1, Len(ss)))

\* A part one longer.
LEMMA SubSeqAppend ==
    ASSUME NEW S, NEW s \in Seq(S), NEW m \in Nat \ {0}, NEW k \in Nat, m <= k + 1, k < Len(s)
    PROVE  /\ SubSeq(s, m, k) \in Seq(S)
           /\ s[k + 1] \in S
           /\ SubSeq(s, m, k + 1) = Append(SubSeq(s, m, k), s[k + 1])
<1>1. PICK n \in Nat : n = Len(s)
  OBVIOUS
<1>2. PICK j \in Nat : j = k + 1
  OBVIOUS
<1>3. m \in 1..Len(s) /\ j \in m..Len(s) /\ j \in 1..Len(s) /\ j - 1 = k
  BY <1>1, <1>2
<1>4. SubSeq(s, m, j) = SubSeq(s, m, j - 1) \o <<s[j]>>
  BY <1>3, SubSeqRecursiveSecond
<1>5. \A i \in m..k : s[i] \in S
  BY <1>1, <1>2, <1>3
<1>6. SubSeq(s, m, k) \in Seq(S)
  BY <1>5, SubSeqProperties
<1>7. s[j] \in S
  BY <1>3
<1>8. Append(SubSeq(s, m, k), s[j]) = SubSeq(s, m, k) \o <<s[j]>>
  BY <1>6, <1>7, AppendIsConcat
<1> QED
  BY <1>2, <1>3, <1>4, <1>6, <1>7, <1>8

\* One more sequence.
LEMMA FirstStep ==
    ASSUME NEW A, NEW ss \in Seq(Seq(A)), NEW n \in Nat, n < Len(ss)
    PROVE  First(ss, n + 1) = First(ss, n) \o ss[n + 1]
<1>1. PICK x \in Seq(A) : x = ss[n + 1]
  <2>1. n + 1 \in 1..Len(ss)
    OBVIOUS
  <2> QED
    BY <2>1
<1>2. PICK f \in Seq(Seq(A)) : f = SubSeq(ss, 1, n) /\ SubSeq(ss, 1, n + 1) = Append(f, x)
  <2>1. /\ SubSeq(ss, 1, n) \in Seq(Seq(A))
        /\ SubSeq(ss, 1, n + 1) = Append(SubSeq(ss, 1, n), ss[n + 1])
    <3>1. ss \in Seq(Seq(A)) /\ 1 \in Nat \ {0} /\ n \in Nat /\ 1 <= n + 1 /\ n < Len(ss)
      OBVIOUS
    <3> QED
      BY ONLY <3>1, SubSeqAppend
  <2> QED
    BY <1>1, <2>1
<1> QED
  BY <1>1, <1>2, FlattenAppend DEF First

\* The first n sequences and the others make the whole.
LEMMA FlattenSplit ==
    ASSUME NEW A, NEW ss \in Seq(Seq(A)), NEW n \in 0..Len(ss)
    PROVE  /\ First(ss, n) \in Seq(A) /\ After(ss, n) \in Seq(A)
           /\ FlattenSeq(ss) = First(ss, n) \o After(ss, n)
<1>1. PICK l \in Nat : l = Len(ss)
  OBVIOUS
<1>2. n \in Nat /\ n <= l
  BY <1>1
<1>3. \A j \in Nat, k \in Nat : j <= k /\ k <= l => SubSeq(ss, j + 1, k) \in Seq(Seq(A))
  <2> SUFFICES ASSUME NEW j \in Nat, NEW k \in Nat, j <= k, k <= l
               PROVE  SubSeq(ss, j + 1, k) \in Seq(Seq(A))
    OBVIOUS
  <2>1. \A i \in (j + 1)..k : ss[i] \in Seq(A)
    BY <1>1
  <2> QED
    BY <2>1, SubSeqProperties
<1>4. SubSeq(ss, 1, n) \in Seq(Seq(A)) /\ SubSeq(ss, n + 1, l) \in Seq(Seq(A))
  <2>1. 0 + 1 = 1 /\ 0 <= n /\ n <= l /\ l <= l
    BY <1>2
  <2> QED
    BY <1>2, <1>3, <2>1
<1>5. First(ss, n) \in Seq(A) /\ After(ss, n) \in Seq(A)
  BY <1>1, <1>4, FlattenType DEF First, After
<1> DEFINE Tail2(k) == FlattenSeq(SubSeq(ss, n + 1, k))
           Good(k) == First(ss, k) = First(ss, n) \o Tail2(k)
           T == {d \in Nat : n + d <= l /\ ~Good(n + d)}
<1>6. T = {}
  <2> SUFFICES ASSUME T # {} PROVE FALSE
    OBVIOUS
  <2>1. PICK d \in T : \A m \in T : ~(m < d)
    BY LeastNumber
  <2>2. d \in Nat /\ n + d <= l /\ ~Good(n + d) /\ \A m \in Nat : m < d => Good(n + m)
    <3>1. \A m \in Nat : m < d => n + m <= l
      BY <1>2
    <3> HIDE DEF Good
    <3> QED
      BY <2>1, <3>1
  <2> HIDE DEF T
  <2>3. CASE d = 0
    <3>1. SubSeq(ss, n + 1, n) = << >>
      BY <1>2, SubSeqEmpty
    <3>2. Tail2(n) = << >>
      BY <3>1, FlattenEmpty
    <3>3. First(ss, n) \o << >> = First(ss, n)
      BY <1>5, ConcatEmptySeq
    <3>4. n + d = n
      BY <1>2, <2>3
    <3> QED
      BY <2>2, <3>2, <3>3, <3>4
  <2>4. CASE d # 0
    <3>1. PICK k \in Nat : k = n + (d - 1) /\ n + d = k + 1 /\ Good(k) /\ k < l /\ n <= k
      <4>1. d - 1 \in Nat /\ d - 1 < d /\ n + (d - 1) \in Nat
            /\ n + d = (n + (d - 1)) + 1 /\ n + (d - 1) < l /\ n <= n + (d - 1)
        BY <1>2, <2>2, <2>4
      <4> HIDE DEF Good
      <4> QED
        BY <2>2, <4>1
    <3>2. PICK x \in Seq(A) : x = ss[k + 1]
      <4>1. k + 1 \in 1..Len(ss)
        BY <1>1, <3>1
      <4> QED
        BY <4>1
    <3>3. First(ss, k + 1) = First(ss, k) \o x
      BY <1>1, <3>1, <3>2, FirstStep
    <3>4. PICK f \in Seq(Seq(A)) : f = SubSeq(ss, n + 1, k) /\ SubSeq(ss, n + 1, k + 1) = Append(f, x)
      <4>1. n + 1 \in Nat \ {0} /\ n + 1 <= k + 1 /\ k < Len(ss)
        BY <1>1, <1>2, <3>1
      <4>2. /\ SubSeq(ss, n + 1, k) \in Seq(Seq(A))
            /\ SubSeq(ss, n + 1, k + 1) = Append(SubSeq(ss, n + 1, k), ss[k + 1])
        <5>1. PICK m \in Nat \ {0} : m = n + 1
          BY <4>1
        <5>2. ss \in Seq(Seq(A)) /\ m \in Nat \ {0} /\ k \in Nat /\ m <= k + 1 /\ k < Len(ss)
          BY <4>1, <5>1
        <5>3. /\ SubSeq(ss, m, k) \in Seq(Seq(A))
              /\ SubSeq(ss, m, k + 1) = Append(SubSeq(ss, m, k), ss[k + 1])
          BY ONLY <5>2, SubSeqAppend
        <5> QED
          BY <5>1, <5>3
      <4> QED
        BY <3>2, <4>2
    <3>5. Tail2(k + 1) = Tail2(k) \o x /\ Tail2(k) \in Seq(A)
      BY <3>4, FlattenAppend, FlattenType
    <3> HIDE DEF Tail2
    <3>6. (First(ss, n) \o Tail2(k)) \o x = First(ss, n) \o (Tail2(k) \o x)
      <4>1. First(ss, n) \in Seq(A) /\ Tail2(k) \in Seq(A) /\ x \in Seq(A)
        BY <1>5, <3>5
      <4> QED
        BY ONLY <4>1, ConcatAssociative, SMTT(30)
    <3>7. Good(k + 1)
      BY <3>1, <3>3, <3>5, <3>6
    <3> QED
      BY <2>2, <3>1, <3>7
  <2> QED
    BY <2>3, <2>4
<1>7. Good(l)
  <2>1. PICK d \in Nat : n + d = l
    <3>1. l - n \in Nat /\ n + (l - n) = l
      BY <1>2
    <3> QED
      BY <3>1
  <2> HIDE DEF Good
  <2>2. n + d <= l
    BY <2>1
  <2>3. Good(n + d)
    BY <1>6, <2>2
  <2> QED
    BY <2>1, <2>3
<1>8. SubSeq(ss, 1, l) = ss
  BY <1>1, SubSeqFull
<1> QED
  BY <1>1, <1>5, <1>7, <1>8 DEF First, After

\* What follows begins with the next sequence.
LEMMA AfterStep ==
    ASSUME NEW A, NEW ss \in Seq(Seq(A)), NEW n \in Nat, n < Len(ss)
    PROVE  After(ss, n) = ss[n + 1] \o After(ss, n + 1)
<1>1. n \in 0..Len(ss) /\ n + 1 \in 0..Len(ss) /\ n + 1 \in 1..Len(ss)
  OBVIOUS
<1>2. PICK x \in Seq(A) : x = ss[n + 1]
  BY <1>1
<1>3. PICK f \in Seq(A) : f = First(ss, n)
  BY <1>1, FlattenSplit
<1>4. PICK a \in Seq(A) : a = After(ss, n)
  BY <1>1, FlattenSplit
<1>5. PICK b \in Seq(A) : b = After(ss, n + 1)
  BY <1>1, FlattenSplit
<1>6. FlattenSeq(ss) = f \o a
  BY <1>1, <1>3, <1>4, FlattenSplit
<1>7. FlattenSeq(ss) = (f \o x) \o b
  <2>1. FlattenSeq(ss) = First(ss, n + 1) \o After(ss, n + 1)
    BY <1>1, FlattenSplit
  <2>2. First(ss, n + 1) = f \o x
    BY <1>2, <1>3, FirstStep
  <2> QED
    BY <1>5, <2>1, <2>2
<1>8. (f \o x) \o b = f \o (x \o b)
  <2>1. f \in Seq(A) /\ x \in Seq(A) /\ b \in Seq(A)
    OBVIOUS
  <2> QED
    BY ONLY <2>1, ConcatAssociative
<1>9. x \o b \in Seq(A)
  BY ConcatProperties
<1>10. a = x \o b
  BY <1>6, <1>7, <1>8, <1>9, ConcatSimplifications
<1> QED
  BY <1>2, <1>4, <1>5, <1>10

\* Nothing follows the last one, and nothing precedes the first.
LEMMA FlattenEnds ==
    ASSUME NEW A, NEW ss \in Seq(Seq(A))
    PROVE  /\ After(ss, Len(ss)) = << >> /\ First(ss, Len(ss)) = FlattenSeq(ss)
           /\ After(ss, 0) = FlattenSeq(ss) /\ First(ss, 0) = << >>
<1>1. PICK n \in Nat : n = Len(ss)
  OBVIOUS
<1>2. SubSeq(ss, n + 1, n) = << >> /\ SubSeq(ss, 1, 0) = << >>
  BY SubSeqEmpty
<1>3. SubSeq(ss, 1, n) = ss /\ 0 + 1 = 1
  BY <1>1, SubSeqFull
<1> QED
  BY <1>1, <1>2, <1>3, FlattenEmpty DEF First, After


-----------------------------------------------------------------------------
(***************************************************************************)
(* Fields.  Two facts for each reading operator: what it returns was       *)
(* written by its counterpart, which is where the bytes it took come from; *)
(* and what the counterpart writes, it reads.                              *)
(***************************************************************************)
Undone(r, x, w) ==
    /\ r = Pair(r.value, r.rest)
    /\ r.rest \in Seq(Byte) /\ w \in Seq(Byte)
    /\ x = w \o r.rest

\* Concatenation of bytes.
LEMMA Assoc ==
    \A s, t, u \in Seq(Byte) : (s \o t) \o u = s \o (t \o u) /\ s \o t \in Seq(Byte)
<1> SUFFICES ASSUME NEW s \in Seq(Byte), NEW t \in Seq(Byte), NEW u \in Seq(Byte)
             PROVE  (s \o t) \o u = s \o (t \o u) /\ s \o t \in Seq(Byte)
  OBVIOUS
<1>1. s \in Seq(Byte) /\ t \in Seq(Byte) /\ u \in Seq(Byte)
  OBVIOUS
<1> QED
  BY ONLY <1>1, ConcatAssociative, ConcatProperties

\* How joining three sequences associates.
Joined(s, t, u) == (s \o t) \o u = s \o (t \o u) /\ s \o t \in Seq(Byte)

\* Joining is associative.
LEMMA Joins == ASSUME NEW s \in Seq(Byte), NEW t \in Seq(Byte), NEW u \in Seq(Byte)
               PROVE  Joined(s, t, u)
BY Assoc DEF Joined

\* The length of two sequences together.
Sized(s, t) ==
    /\ s \o t \in Seq(Byte)
    /\ Len(s) \in Nat /\ Len(t) \in Nat /\ Len(s \o t) = Len(s) + Len(t)
    /\ Len(s) > 0 => (s \o t)[1] = s[1]
    /\ SubSeq(s \o t, 1, Len(s)) = s
    /\ SubSeq(s \o t, Len(s) + 1, Len(s \o t)) = t

\* Lengths add up, and neither part is longer than the whole.
LEMMA Sizes == ASSUME NEW s \in Seq(Byte), NEW t \in Seq(Byte)
               PROVE  Sized(s, t)
<1>1. s \o t \in Seq(Byte) /\ Len(s \o t) = Len(s) + Len(t)
  BY ConcatProperties
<1>2. ASSUME Len(s) > 0 PROVE (s \o t)[1] = s[1]
  <2>1. 1 \in 1..(Len(s) + Len(t)) /\ 1 <= Len(s)
    BY <1>2
  <2> QED
    BY <2>1, ConcatProperties
<1> QED
  BY <1>1, <1>2, ConcatParts DEF Sized

\* What take returns is the beginning of what it was given.
LEMMA TakeInv ==
    ASSUME NEW x \in Seq(Byte), NEW n \in Nat, NEW r \in take(n, x)
    PROVE  r.value \in Seq(Byte) /\ Len(r.value) = n /\ Undone(r, x, r.value)
<1>1. /\ n <= Len(x)
      /\ r = [value |-> SubSeq(x, 1, n), rest |-> SubSeq(x, n + 1, Len(x))]
  <2>1. Len(x) \in Nat
    OBVIOUS
  <2> QED
    BY <2>1 DEF take
<1>2. n \in 0..Len(x)
  BY <1>1
<1>3. r.value = SubSeq(x, 1, n) /\ r.rest = SubSeq(x, n + 1, Len(x))
  BY <1>1
<1>4. r = Pair(r.value, r.rest)
  BY <1>1 DEF Pair
<1>5. PICK a, b : a = SubSeq(x, 1, n) /\ b = SubSeq(x, n + 1, Len(x))
  OBVIOUS
<1>6. a \in Seq(Byte) /\ Len(a) = n /\ b \in Seq(Byte) /\ x = a \o b
  BY <1>2, <1>5, SplitAt
<1>7. r.value = a /\ r.rest = b
  BY <1>3, <1>5
<1> QED
  BY <1>4, <1>6, <1>7 DEF Undone

\* take returns the bytes that are in front.
LEMMA TakePut ==
    ASSUME NEW b \in Seq(Byte), NEW t \in Seq(Byte), NEW n \in Nat, n = Len(b)
    PROVE  take(n, b \o t) = {Pair(b, t)}
<1>1. PICK x \in Seq(Byte) : x = b \o t
  BY ConcatProperties
<1>2. Len(x) \in Nat /\ n <= Len(x)
  BY <1>1, ConcatProperties
<1>3. SubSeq(x, 1, n) = b /\ SubSeq(x, n + 1, Len(x)) = t
  BY <1>1, ConcatParts
<1>4. take(n, x) = {[value |-> SubSeq(x, 1, n), rest |-> SubSeq(x, n + 1, Len(x))]}
  BY <1>2 DEF take
<1> QED
  BY <1>1, <1>3, <1>4 DEF Pair

\* write_bytes writes bytes.
LEMMA WriteBytes ==
    ASSUME NEW b \in Seq(Byte)
    PROVE  /\ write_bytes(b) \in Seq(Byte)
           /\ put_varint[Len(b)] \in Seq(Byte)
           /\ Len(write_bytes(b)) > Len(b)
<1>1. PICK g \in Seq(Byte) : g = put_varint[Len(b)] /\ Len(g) \in Nat \ {0}
  BY PutCanonic DEF Canonic
<1>2. g \o b \in Seq(Byte) /\ Len(g \o b) = Len(g) + Len(b)
  BY ConcatProperties
<1> QED
  BY <1>1, <1>2 DEF write_bytes

\* What read_bytes returns is what write_bytes would have written.
LEMMA ReadBytesInv ==
    ASSUME NEW m, NEW x \in Seq(Byte), NEW r \in read_bytes(m, x)
    PROVE  r.value \in Seq(Byte) /\ Undone(r, x, write_bytes(r.value))
<1>1. PICK l \in parse_varint(x) : r \in take(l.value, l.rest)
  BY DEF read_bytes, bounded_length
<1>2. /\ l.value \in Nat /\ l.rest \in Seq(Byte)
      /\ x = put_varint[l.value] \o l.rest
  BY ParseInv
<1>3. r.value \in Seq(Byte) /\ Len(r.value) = l.value /\ Undone(r, l.rest, r.value)
  BY <1>1, <1>2, TakeInv
<1>4. r = Pair(r.value, r.rest) /\ r.rest \in Seq(Byte) /\ l.rest = r.value \o r.rest
  BY <1>3 DEF Undone
<1>5. PICK g \in Seq(Byte) : g = put_varint[l.value]
  BY <1>2, PutVarint
<1>6. x = (g \o r.value) \o r.rest /\ g \o r.value \in Seq(Byte)
  <2>1. PICK a \in Seq(Byte), b \in Seq(Byte) : a = r.value /\ b = r.rest
    BY <1>3, <1>4
  <2>2. (g \o a) \o b = g \o (a \o b) /\ g \o a \in Seq(Byte)
    BY Assoc
  <2>3. x = g \o (a \o b)
    BY <1>2, <1>4, <1>5, <2>1
  <2> QED
    BY <2>1, <2>2, <2>3
<1>7. write_bytes(r.value) = g \o r.value
  BY <1>3, <1>5 DEF write_bytes
<1> QED
  BY <1>3, <1>4, <1>6, <1>7 DEF Undone

\* read_bytes returns what write_bytes has written.
LEMMA ReadBytesPut ==
    ASSUME NEW m \in Int, NEW b \in Seq(Byte), NEW t \in Seq(Byte),
           Len(b) <= m, Len(b) <= u64_MAX
    PROVE  read_bytes(m, write_bytes(b) \o t) = {Pair(b, t)}
<1>1. PICK n \in Nat : n = Len(b)
  OBVIOUS
<1>2. PICK g \in Seq(Byte) : g = put_varint[n]
  BY PutVarint
<1>3. PICK u \in Seq(Byte) : u = b \o t
  BY ConcatProperties
<1>4. write_bytes(b) \o t = put_varint[n] \o u
  <2>1. (g \o b) \o t = g \o (b \o t)
    BY Assoc, SMTT(30)
  <2> QED
    BY <1>1, <1>2, <1>3, <2>1 DEF write_bytes
<1>5. parse_varint(put_varint[n] \o u) = {Pair(n, u)}
  BY <1>1, ParsePut
<1>6. bounded_length(m, put_varint[n] \o u) = {Pair(n, u)}
  BY <1>1, <1>5 DEF bounded_length, Pair
<1>7. take(n, u) = {Pair(b, t)}
  BY <1>1, <1>3, TakePut
<1>8. Pair(n, u).value = n /\ Pair(n, u).rest = u
  BY DEF Pair
<1> QED
  BY <1>4, <1>6, <1>7, <1>8 DEF read_bytes

\* A tag that is read is one of the tags that may be there.
LEMMA ReadTagInv ==
    ASSUME NEW tags, NEW x \in Seq(Byte), NEW r \in read_tag(tags, x)
    PROVE  /\ r.value \in Seq(Byte) /\ Len(r.value) = 1 /\ r.value[1] \in tags
           /\ Undone(r, x, r.value)
<1>1. r \in take(1, x) /\ r.value[1] \in tags
  BY DEF read_tag
<1> QED
  BY <1>1, TakeInv

\* A tag that may be there is read, another one is refused.
LEMMA ReadTagPut ==
    ASSUME NEW tags, NEW b \in Seq(Byte), NEW t \in Seq(Byte), Len(b) = 1
    PROVE  /\ b[1] \in tags => read_tag(tags, b \o t) = {Pair(b, t)}
           /\ b[1] \notin tags => read_tag(tags, b \o t) = {}
<1>1. take(1, b \o t) = {Pair(b, t)}
  BY TakePut
<1> QED
  BY <1>1 DEF read_tag, Pair


-----------------------------------------------------------------------------
(***************************************************************************)
(* Components of a path, read one after the other.                         *)
(***************************************************************************)
NextComponent(S) ==
    UNION {{[value |-> Append(path.value, next.value), rest |-> next.rest] :
              next \in read_bytes(MaxPath - PathBytes(path.value), path.rest)} :
           path \in S}

\* The equation of read_components.
IsComponents(f, c, x) ==
    f = [n \in 0..c |-> IF n = 0 THEN {[value |-> << >>, rest |-> x]}
                        ELSE NextComponent(f[n - 1])]

\* The equation, element by element.
ReadsComponents(f, c, x) ==
    /\ f[0] = {[value |-> << >>, rest |-> x]}
    /\ \A n \in 1..c : f[n] = NextComponent(f[n - 1])

\* read_components is a function that satisfies its equation, if there is one.
LEMMA ComponentsUnfold ==
    ASSUME NEW c, NEW x
    PROVE  read_components(c, x) = (CHOOSE f : IsComponents(f, c, x))[c]
BY DEF read_components, IsComponents, NextComponent

\* The recursion of read_components has a solution, which it computes.
LEMMA ComponentsSteps ==
    ASSUME NEW c \in Nat, NEW x
    PROVE  \E f : ReadsComponents(f, c, x) /\ read_components(c, x) = f[c]
<1> DEFINE T == {k \in Nat : ~ \E f : ReadsComponents(f, k, x)}
<1>1. T = {}
  <2> SUFFICES ASSUME T # {} PROVE FALSE
    OBVIOUS
  <2>1. PICK k \in T : \A j \in T : ~(j < k)
    BY LeastNumber
  <2>2. k \in Nat /\ ~ \E f : ReadsComponents(f, k, x)
    OBVIOUS
  <2>3. \A j \in Nat : j < k => \E f : ReadsComponents(f, j, x)
    BY <2>1
  <2> HIDE DEF T
  <2>4. CASE k = 0
    <3> DEFINE g == [n \in {0} |-> {[value |-> << >>, rest |-> x]}]
    <3>1. g[0] = {[value |-> << >>, rest |-> x]}
      OBVIOUS
    <3> HIDE DEF g
    <3>2. ReadsComponents(g, 0, x)
      BY <3>1 DEF ReadsComponents
    <3> QED
      BY <2>2, <2>4, <3>2
  <2>5. CASE k # 0
    <3>1. k - 1 \in Nat /\ k - 1 < k
      BY <2>2, <2>5
    <3>2. PICK f : ReadsComponents(f, k - 1, x)
      BY <2>3, <3>1
    <3>3. PICK y : y = NextComponent(f[k - 1])
      OBVIOUS
    <3> DEFINE g == [n \in 0..k |-> IF n = k THEN y ELSE f[n]]
    <3>4. \A n \in 0..k : g[n] = IF n = k THEN y ELSE f[n]
      OBVIOUS
    <3> HIDE DEF g
    <3>5. g[0] = {[value |-> << >>, rest |-> x]}
      BY <2>2, <2>5, <3>2, <3>4 DEF ReadsComponents
    <3>6. ASSUME NEW n \in 1..k PROVE g[n] = NextComponent(g[n - 1])
      <4>1. n \in 0..k /\ n - 1 \in 0..k /\ n - 1 # k
        BY <2>2
      <4>2. g[n - 1] = f[n - 1]
        BY <3>4, <4>1
      <4>3. CASE n = k
        BY <3>3, <3>4, <4>1, <4>2, <4>3
      <4>4. CASE n # k
        <5>1. n \in 1..(k - 1)
          BY <2>2, <4>4
        <5>2. f[n] = NextComponent(f[n - 1])
          BY <3>2, <5>1 DEF ReadsComponents
        <5> QED
          BY <3>4, <4>1, <4>2, <4>4, <5>2
      <4> QED
        BY <4>3, <4>4
    <3>7. ReadsComponents(g, k, x)
      BY <3>5, <3>6 DEF ReadsComponents
    <3> QED
      BY <2>2, <3>7
  <2> QED
    BY <2>4, <2>5
<1>2. PICK f : ReadsComponents(f, c, x)
  BY <1>1
<1> HIDE DEF T
<1> DEFINE g == [n \in 0..c |-> f[n]]
<1>3. \A n \in 0..c : g[n] = f[n]
  OBVIOUS
<1>4. \A n \in 0..c : f[n] = IF n = 0 THEN {[value |-> << >>, rest |-> x]}
                             ELSE NextComponent(g[n - 1])
  <2> SUFFICES ASSUME NEW n \in 0..c, n # 0 PROVE f[n] = NextComponent(g[n - 1])
    BY <1>2 DEF ReadsComponents
  <2>1. n \in 1..c /\ n - 1 \in 0..c
    OBVIOUS
  <2>2. f[n] = NextComponent(f[n - 1])
    BY <1>2, <2>1 DEF ReadsComponents
  <2> HIDE DEF g
  <2> QED
    BY <1>3, <2>1, <2>2
<1>5. g = [n \in 0..c |-> IF n = 0 THEN {[value |-> << >>, rest |-> x]}
                          ELSE NextComponent(g[n - 1])]
  BY <1>4
<1>6. IsComponents(g, c, x)
  BY <1>5 DEF IsComponents
<1> HIDE DEF g
<1>7. PICK h : h = CHOOSE j : IsComponents(j, c, x)
  OBVIOUS
<1>8. IsComponents(h, c, x)
  BY <1>6, <1>7
<1>9. read_components(c, x) = h[c]
  BY <1>7, ComponentsUnfold
<1>10. \A n \in 0..c : h[n] = IF n = 0 THEN {[value |-> << >>, rest |-> x]}
                              ELSE NextComponent(h[n - 1])
  BY <1>8 DEF IsComponents
<1>11. 0 \in 0..c /\ \A n \in 1..c : n \in 0..c /\ n # 0
  OBVIOUS
<1>12. h[0] = {[value |-> << >>, rest |-> x]}
  BY <1>10, <1>11
<1>13. \A n \in 1..c : h[n] = NextComponent(h[n - 1])
  BY <1>10, <1>11
<1>14. ReadsComponents(h, c, x)
  BY <1>12, <1>13 DEF ReadsComponents
<1> QED
  BY <1>9, <1>14

\* The written components of a path.
Written(path) == [i \in DOMAIN path |-> write_bytes(path[i])]

\* The components as they are written, each with its length.
LEMMA WrittenType ==
    ASSUME NEW path \in Seq(Seq(Byte))
    PROVE  /\ Written(path) \in Seq(Seq(Byte)) /\ Len(Written(path)) = Len(path)
           /\ \A i \in 1..Len(path) : Written(path)[i] = write_bytes(path[i])
<1>1. PICK n \in Nat : n = Len(path) /\ DOMAIN path = 1..n
  OBVIOUS
<1>2. \A i \in 1..n : path[i] \in Seq(Byte)
  BY <1>1
<1>3. \A i \in 1..n : write_bytes(path[i]) \in Seq(Byte)
  BY <1>2, WriteBytes
<1>4. Written(path) = [i \in 1..n |-> write_bytes(path[i])]
  BY <1>1 DEF Written
<1>5. Written(path) \in [1..n -> Seq(Byte)]
  BY <1>3, <1>4
<1>6. Written(path) \in Seq(Seq(Byte)) /\ Len(Written(path)) = n
  BY <1>5, SeqDef, LenProperties
<1> QED
  BY <1>1, <1>4, <1>6

\* One more component is written behind the others.
LEMMA WrittenAppend ==
    ASSUME NEW path \in Seq(Seq(Byte)), NEW b \in Seq(Byte)
    PROVE  /\ Append(path, b) \in Seq(Seq(Byte))
           /\ FlattenSeq(Written(Append(path, b))) = FlattenSeq(Written(path)) \o write_bytes(b)
<1>1. PICK n \in Nat : n = Len(path)
  OBVIOUS
<1>2. PICK q \in Seq(Seq(Byte)) : q = Append(path, b)
  BY AppendProperties
<1>3. Len(q) = n + 1 /\ q[n + 1] = b /\ \A i \in 1..n : q[i] = path[i]
  BY <1>1, <1>2, AppendProperties
<1>4. PICK v \in Seq(Seq(Byte)) : v = Written(path)
  BY WrittenType
<1>5. PICK w \in Seq(Seq(Byte)) : w = Written(q)
  BY WrittenType
<1>6. PICK y \in Seq(Byte) : y = write_bytes(b)
  BY WriteBytes
<1>7. /\ Len(v) = n /\ \A i \in 1..n : v[i] = write_bytes(path[i])
      /\ Len(w) = n + 1 /\ \A i \in 1..(n + 1) : w[i] = write_bytes(q[i])
  BY <1>1, <1>3, <1>4, <1>5, WrittenType
<1>8. PICK z \in Seq(Seq(Byte)) : z = Append(v, y)
  BY AppendProperties
<1>9. Len(z) = n + 1 /\ z[n + 1] = y /\ \A i \in 1..n : z[i] = v[i]
  BY <1>7, <1>8, AppendProperties
<1>10. \A i \in 1..(n + 1) : w[i] = z[i]
  <2> SUFFICES ASSUME NEW i \in 1..(n + 1) PROVE w[i] = z[i]
    OBVIOUS
  <2>1. CASE i = n + 1
    BY <1>3, <1>6, <1>7, <1>9, <2>1
  <2>2. CASE i # n + 1
    <3>1. i \in 1..n
      BY <2>2
    <3> QED
      BY <1>3, <1>7, <1>9, <3>1
  <2> QED
    BY <2>1, <2>2
<1>11. w = z
  BY <1>7, <1>9, <1>10, SeqEqual
<1>12. FlattenSeq(z) = FlattenSeq(v) \o y
  BY <1>8, FlattenAppend
<1> QED
  BY <1>2, <1>4, <1>5, <1>6, <1>11, <1>12

\* What read_components returns was written by write_path.
LEMMA ComponentsInv ==
    ASSUME NEW x \in Seq(Byte), NEW c \in Nat, NEW r \in read_components(c, x)
    PROVE  /\ r.value \in Seq(Seq(Byte)) /\ Len(r.value) = c
           /\ Undone(r, x, FlattenSeq(Written(r.value)))
<1> DEFINE Good(n, s) ==
             /\ s.value \in Seq(Seq(Byte)) /\ Len(s.value) = n
             /\ Undone(s, x, FlattenSeq(Written(s.value)))
<1>1. PICK f : ReadsComponents(f, c, x) /\ read_components(c, x) = f[c]
  BY ComponentsSteps
<1>2. ASSUME NEW s \in f[0] PROVE Good(0, s)
  <2>1. s = [value |-> << >>, rest |-> x]
    BY <1>1 DEF ReadsComponents
  <2>2. s.value = << >> /\ s.rest = x /\ s = Pair(s.value, s.rest)
    BY <2>1 DEF Pair
  <2>3. << >> \in Seq(Seq(Byte)) /\ Len(<< >>) = 0 /\ << >> \in Seq(Byte)
    BY EmptySeq
  <2>4. Written(<< >>) = << >>
    <3>1. Written(<< >>) \in Seq(Seq(Byte)) /\ Len(Written(<< >>)) = 0
      BY <2>3, WrittenType
    <3> QED
      BY <3>1, EmptySeq
  <2>5. << >> \o x = x
    BY ConcatEmptySeq
  <2> QED
    BY <2>2, <2>3, <2>4, <2>5, FlattenEmpty DEF Undone
<1>3. ASSUME NEW n \in 1..c, \A s \in f[n - 1] : Good(n - 1, s), NEW s \in f[n]
      PROVE  Good(n, s)
  <2>1. s \in NextComponent(f[n - 1])
    BY <1>1 DEF ReadsComponents
  <2>2. PICK path \in f[n - 1] :
          \E next \in read_bytes(MaxPath - PathBytes(path.value), path.rest) :
            s = [value |-> Append(path.value, next.value), rest |-> next.rest]
    BY <2>1 DEF NextComponent
  <2>3. PICK next \in read_bytes(MaxPath - PathBytes(path.value), path.rest) :
            s = [value |-> Append(path.value, next.value), rest |-> next.rest]
    BY <2>2
  <2>4. Good(n - 1, path)
    BY <1>3
  <2>5. PICK p \in Seq(Seq(Byte)), u \in Seq(Byte) : p = path.value /\ u = path.rest
    BY <2>4 DEF Undone
  <2>6. PICK w \in Seq(Byte) : w = FlattenSeq(Written(p)) /\ x = w \o u
    BY <2>4, <2>5 DEF Undone
  <2>7. next.value \in Seq(Byte) /\ Undone(next, u, write_bytes(next.value))
    BY <2>3, <2>5, ReadBytesInv
  <2>8. PICK b \in Seq(Byte), y \in Seq(Byte), t \in Seq(Byte) :
          /\ b = next.value /\ y = write_bytes(b) /\ t = next.rest /\ u = y \o t
    BY <2>7 DEF Undone
  <2>9. s.value = Append(p, b) /\ s.rest = t /\ s = Pair(s.value, s.rest)
    BY <2>3, <2>5, <2>8 DEF Pair
  <2>10. /\ Append(p, b) \in Seq(Seq(Byte)) /\ Len(Append(p, b)) = n
    BY <2>4, <2>5, AppendProperties
  <2>11. FlattenSeq(Written(Append(p, b))) = w \o y
    BY <2>6, <2>8, WrittenAppend
  <2>12. x = (w \o y) \o t /\ w \o y \in Seq(Byte)
    <3>1. x = w \o (y \o t)
      BY <2>6, <2>8
    <3>2. Joined(w, y, t)
      BY Joins
    <3> QED
      BY <3>1, <3>2 DEF Joined
  <2> QED
    BY <2>9, <2>10, <2>11, <2>12 DEF Undone
<1> HIDE DEF Good
<1> DEFINE T == {n \in 0..c : ~ \A s \in f[n] : Good(n, s)}
<1>4. T = {}
  <2> SUFFICES ASSUME T # {} PROVE FALSE
    OBVIOUS
  <2>0. T \subseteq Nat
    OBVIOUS
  <2>1. PICK n \in T : \A j \in T : ~(j < n)
    BY <2>0, LeastNumber
  <2>2. n \in 0..c /\ ~ \A s \in f[n] : Good(n, s)
    OBVIOUS
  <2>3. \A j \in 0..c : j < n => \A s \in f[j] : Good(j, s)
    BY <2>1
  <2> HIDE DEF T
  <2>4. n # 0
    BY <1>2, <2>2
  <2>5. n \in 1..c /\ n - 1 \in 0..c /\ n - 1 < n
    BY <2>2, <2>4
  <2> QED
    BY <1>3, <2>2, <2>3, <2>5
<1>5. c \in 0..c
  OBVIOUS
<1>6. Good(c, r)
  BY <1>1, <1>4, <1>5
<1> QED
  BY <1>6 DEF Good

\* The components before one leave room for it.
LEMMA RoomLeft ==
    ASSUME NEW path \in Seq(Seq(Byte)), NEW n \in Nat, n < Len(path), PathBytes(path) <= MaxPath
    PROVE  /\ MaxPath - PathBytes(SubSeq(path, 1, n)) \in Int
           /\ Len(path[n + 1]) <= MaxPath - PathBytes(SubSeq(path, 1, n))
           /\ Len(path[n + 1]) <= u64_MAX
<1>1. n \in 0..Len(path) /\ n + 1 \in 0..Len(path) /\ n + 1 \in 1..Len(path)
  OBVIOUS
<1>2. PICK b \in Seq(Byte) : b = path[n + 1]
  BY <1>1
<1>3. PICK f \in Seq(Byte) : f = First(path, n)
  BY <1>1, FlattenSplit
<1>4. PICK a \in Seq(Byte) : a = After(path, n + 1)
  BY <1>1, FlattenSplit
<1>5. FlattenSeq(path) = (f \o b) \o a
  <2>1. FlattenSeq(path) = First(path, n + 1) \o After(path, n + 1)
    BY <1>1, FlattenSplit
  <2>2. First(path, n + 1) = f \o b
    BY <1>2, <1>3, FirstStep
  <2> QED
    BY <1>4, <2>1, <2>2
<1>6. Len((f \o b) \o a) = Len(f) + Len(b) + Len(a)
  <2>1. f \in Seq(Byte) /\ b \in Seq(Byte) /\ a \in Seq(Byte)
    OBVIOUS
  <2>2. f \o b \in Seq(Byte) /\ Len(f \o b) = Len(f) + Len(b)
    BY ConcatProperties
  <2>3. Len((f \o b) \o a) = Len(f \o b) + Len(a)
    BY <2>2, ConcatProperties
  <2> QED
    BY <2>2, <2>3
<1>7. PathBytes(path) = Len(f) + Len(b) + Len(a)
  BY <1>5, <1>6 DEF PathBytes
<1>8. PathBytes(SubSeq(path, 1, n)) = Len(f)
  BY <1>3 DEF PathBytes, First
<1>9. PICK i \in Nat, j \in Nat, k \in Nat : i = Len(f) /\ j = Len(b) /\ k = Len(a)
  OBVIOUS
<1>10. i + j + k <= MaxPath /\ MaxPath \in Nat /\ MaxPath <= MaxFrame /\ MaxFrame \in Nat
       /\ MaxFrame <= u64_MAX
  BY <1>7, <1>9, CodecAssumption
<1>11. u64_MAX \in Nat
  BY CodecAssumption, MaxNumberDef DEF u64_MAX
<1> QED
  BY <1>2, <1>8, <1>9, <1>10, <1>11

\* What write_path wrote, read_components reads.
LEMMA ComponentsPut ==
    ASSUME NEW path \in Seq(Seq(Byte)), PathBytes(path) <= MaxPath, NEW t \in Seq(Byte)
    PROVE  read_components(Len(path), FlattenSeq(Written(path)) \o t) = {Pair(path, t)}
<1>1. PICK c \in Nat : c = Len(path)
  OBVIOUS
<1>2. PICK w \in Seq(Seq(Byte)) : w = Written(path)
  BY WrittenType
<1>3. Len(w) = c /\ \A i \in 1..c : w[i] = write_bytes(path[i])
  BY <1>1, <1>2, WrittenType
<1>4. PICK x : x = FlattenSeq(w) \o t
  OBVIOUS
<1>5. PICK f : ReadsComponents(f, c, x) /\ read_components(c, x) = f[c]
  BY ComponentsSteps
<1> DEFINE Good(n) == f[n] = {Pair(SubSeq(path, 1, n), After(w, n) \o t)}
<1>6. Good(0)
  <2>1. SubSeq(path, 1, 0) = << >> /\ After(w, 0) = FlattenSeq(w)
    BY SubSeqEmpty, FlattenEnds
  <2> QED
    BY <1>4, <1>5, <2>1 DEF ReadsComponents, Pair
<1>7. ASSUME NEW n \in 0..(c - 1), Good(n) PROVE Good(n + 1)
  <2>1. n \in Nat /\ n < Len(path) /\ n < Len(w) /\ n + 1 \in 1..c /\ (n + 1) - 1 = n
        /\ n + 1 \in 0..Len(w)
    BY <1>1, <1>3
  <2>2. PICK p : p = SubSeq(path, 1, n)
    OBVIOUS
  <2>3. PICK b \in Seq(Byte) : b = path[n + 1]
    BY <1>1, <2>1
  <2>4. PICK y \in Seq(Byte) : y = write_bytes(b)
    BY WriteBytes
  <2>5. PICK a \in Seq(Byte) : a = After(w, n + 1)
    BY <2>1, FlattenSplit
  <2>6. PICK u \in Seq(Byte) : u = a \o t
    BY ConcatProperties
  <2>7. After(w, n) \o t = y \o u
    <3>1. After(w, n) = y \o a
      BY <1>3, <2>1, <2>3, <2>4, <2>5, AfterStep
    <3>2. Joined(y, a, t)
      BY Joins
    <3> QED
      BY <2>6, <3>1, <3>2 DEF Joined
  <2>8. f[n] = {Pair(p, y \o u)}
    BY <1>7, <2>2, <2>7
  <2>9. f[n + 1] = NextComponent(f[n])
    BY <1>5, <2>1 DEF ReadsComponents
  <2>10. PICK m : m = MaxPath - PathBytes(p)
    OBVIOUS
  <2>11. m \in Int /\ Len(b) <= m /\ Len(b) <= u64_MAX
    BY <2>1, <2>2, <2>3, <2>10, RoomLeft
  <2>12. read_bytes(m, y \o u) = {Pair(b, u)}
    BY <2>4, <2>11, ReadBytesPut
  <2>13. NextComponent({Pair(p, y \o u)}) = {Pair(Append(p, b), u)}
    <3>1. PICK z : z = Pair(p, y \o u)
      OBVIOUS
    <3>2. z.value = p /\ z.rest = y \o u /\ Pair(b, u).value = b /\ Pair(b, u).rest = u
      BY <3>1 DEF Pair
    <3>3. NextComponent({z}) = {[value |-> Append(z.value, next.value), rest |-> next.rest] :
                                  next \in read_bytes(MaxPath - PathBytes(z.value), z.rest)}
      BY DEF NextComponent
    <3>4. read_bytes(MaxPath - PathBytes(z.value), z.rest) = {Pair(b, u)}
      BY <2>10, <2>12, <3>2
    <3>5. NextComponent({z}) = {[value |-> Append(z.value, next.value), rest |-> next.rest] :
                                  next \in {Pair(b, u)}}
      BY <3>3, <3>4
    <3>6. @ = {[value |-> Append(p, b), rest |-> u]}
      BY <3>2
    <3> QED
      BY <3>1, <3>5, <3>6 DEF Pair
  <2>14. SubSeq(path, 1, n + 1) = Append(p, b)
    <3>1. path \in Seq(Seq(Byte)) /\ 1 \in Nat \ {0} /\ n \in Nat /\ 1 <= n + 1 /\ n < Len(path)
      BY <2>1
    <3>2. SubSeq(path, 1, n + 1) = Append(SubSeq(path, 1, n), path[n + 1])
      BY ONLY <3>1, SubSeqAppend, SMTT(30)
    <3> QED
      BY <2>2, <2>3, <3>2
  <2> QED
    BY <2>5, <2>6, <2>8, <2>9, <2>13, <2>14
<1>8. Good(c)
  <2> HIDE DEF Good
  <2> DEFINE T == {n \in 0..c : ~Good(n)}
  <2> SUFFICES ASSUME T # {} PROVE FALSE
    BY SMTT(30)
  <2>0. T \subseteq Nat
    OBVIOUS
  <2>1. PICK n \in T : \A j \in T : ~(j < n)
    BY <2>0, LeastNumber
  <2>2. n \in 0..c /\ ~Good(n) /\ \A j \in 0..c : j < n => Good(j)
    BY <2>1
  <2> HIDE DEF T
  <2>3. n # 0
    BY <1>6, <2>2
  <2>4. n - 1 \in 0..(c - 1) /\ n - 1 \in 0..c /\ n - 1 < n /\ (n - 1) + 1 = n
    BY <2>2, <2>3
  <2>5. Good(n - 1)
    BY <2>2, <2>4
  <2>6. Good((n - 1) + 1)
    BY <1>7, <2>4, <2>5
  <2> QED
    BY <2>2, <2>4, <2>6
<1>9. SubSeq(path, 1, c) = path /\ After(w, c) = << >>
  BY <1>1, <1>3, SubSeqFull, FlattenEnds
<1>10. << >> \o t = t
  BY ConcatEmptySeq
<1> QED
  BY <1>1, <1>2, <1>4, <1>5, <1>8, <1>9, <1>10

\* write_path in terms of the written components.
LEMMA WritePath ==
    ASSUME NEW path \in Seq(Seq(Byte))
    PROVE  /\ put_varint[Len(path)] \in Seq(Byte) /\ FlattenSeq(Written(path)) \in Seq(Byte)
           /\ write_path(path) = put_varint[Len(path)] \o FlattenSeq(Written(path))
           /\ write_path(path) \in Seq(Byte)
<1>1. put_varint[Len(path)] \in Seq(Byte)
  BY PutVarint
<1>2. FlattenSeq(Written(path)) \in Seq(Byte)
  BY WrittenType, FlattenType
<1>3. write_path(path) = put_varint[Len(path)] \o FlattenSeq(Written(path))
  BY DEF write_path, Written
<1>4. PICK a \in Seq(Byte), b \in Seq(Byte) :
        a = put_varint[Len(path)] /\ b = FlattenSeq(Written(path))
  BY <1>1, <1>2
<1>5. Joined(a, b, b)
  BY Joins
<1> QED
  BY <1>1, <1>2, <1>3, <1>4, <1>5 DEF Joined

\* What read_path returns was written by write_path.
LEMMA PathInv ==
    ASSUME NEW x \in Seq(Byte), NEW r \in read_path(x)
    PROVE  r.value \in Seq(Seq(Byte)) /\ Undone(r, x, write_path(r.value))
<1>1. PICK l \in parse_varint(x) : r \in read_components(l.value, l.rest)
  BY DEF read_path, bounded_length
<1>2. /\ l.value \in Nat /\ l.rest \in Seq(Byte)
      /\ x = put_varint[l.value] \o l.rest
  BY ParseInv
<1>3. PICK path \in Seq(Seq(Byte)) : path = r.value /\ Len(path) = l.value
  BY <1>1, <1>2, ComponentsInv
<1>4. Undone(r, l.rest, FlattenSeq(Written(path)))
  BY <1>1, <1>2, <1>3, ComponentsInv
<1>5. PICK g \in Seq(Byte), w \in Seq(Byte), t \in Seq(Byte) :
        /\ g = put_varint[Len(path)] /\ w = FlattenSeq(Written(path)) /\ t = r.rest
        /\ l.rest = w \o t
  BY <1>4, WritePath DEF Undone
<1>6. x = g \o (w \o t)
  BY <1>2, <1>3, <1>5
<1>7. Joined(g, w, t)
  BY Joins
<1>8. write_path(path) = g \o w
  BY <1>5, WritePath
<1>9. r = Pair(r.value, r.rest)
  BY <1>4 DEF Undone
<1> QED
  BY <1>3, <1>5, <1>6, <1>7, <1>8, <1>9 DEF Undone, Joined

\* What write_path wrote, read_path reads.
LEMMA PathPut ==
    ASSUME NEW path \in Seq(Seq(Byte)), IsRelativePath(path), PathFits(path), NEW t \in Seq(Byte)
    PROVE  read_path(write_path(path) \o t) = {Pair(path, t)}
<1>1. PICK n \in Nat : n = Len(path)
  OBVIOUS
<1>2. n <= MaxComponents /\ n <= u64_MAX /\ PathBytes(path) <= MaxPath
  <2>1. n <= MaxComponents /\ PathBytes(path) <= MaxPath
    BY <1>1 DEF PathFits
  <2>2. u64_MAX \in Nat /\ MaxComponents \in Nat /\ MaxComponents <= u64_MAX
    BY CodecAssumption, MaxNumberDef DEF u64_MAX
  <2> QED
    BY <2>1, <2>2
<1>3. PICK g \in Seq(Byte), w \in Seq(Byte) :
        g = put_varint[n] /\ w = FlattenSeq(Written(path)) /\ write_path(path) = g \o w
  BY <1>1, WritePath
<1>4. PICK u \in Seq(Byte) : u = w \o t
  BY ConcatProperties
<1>5. PICK x : x = write_path(path) \o t
  OBVIOUS
<1>6. x = g \o u
  <2>1. Joined(g, w, t)
    BY Joins
  <2> QED
    BY <1>3, <1>4, <1>5, <2>1 DEF Joined
<1>7. parse_varint(x) = {Pair(n, u)}
  BY <1>2, <1>3, <1>6, ParsePut
<1>8. PICK z : z = Pair(n, u)
  OBVIOUS
<1>9. z.value = n /\ z.rest = u
  BY <1>8 DEF Pair
<1>10. bounded_length(MaxComponents, x) = {z}
  BY <1>2, <1>7, <1>8, <1>9 DEF bounded_length
<1>11. read_components(z.value, z.rest) = {Pair(path, t)}
  BY <1>1, <1>2, <1>3, <1>4, <1>9, ComponentsPut
<1>12. read_path(x) = {p \in read_components(z.value, z.rest) : IsRelativePath(p.value)}
  <2>1. UNION {read_components(count.value, count.rest) : count \in {z}}
          = read_components(z.value, z.rest)
    OBVIOUS
  <2> QED
    BY <1>10, <2>1 DEF read_path
<1>13. Pair(path, t).value = path
  BY DEF Pair
<1>14. {p \in {Pair(path, t)} : IsRelativePath(p.value)} = {Pair(path, t)}
  BY <1>13
<1> QED
  BY <1>5, <1>11, <1>12, <1>14

\* The types a field may have.
FieldTypes == {"fixed", "bytes", "path", "entry", "upsert", "delete", "phase", "code"}

\* A tag is a byte.
LEMMA TagBytes ==
    ASSUME NEW type \in FieldTypes, type \notin {"fixed", "bytes", "path"}
    PROVE  Tags[type] \subseteq Byte
<1>1. Radix \in Nat /\ Radix >= 8
  BY CodecAssumption
<1>2. 1..9 \subseteq Byte /\ {1, 2, 3, 5} \subseteq Byte /\ {4} \subseteq Byte /\ 1..3 \subseteq Byte
  BY <1>1 DEF Byte
<1>3. Tags[type] \in {1..3, {1, 2, 3, 5}, {4}, 1..9}
  BY DEF Tags, FieldTypes
<1> QED
  BY <1>2, <1>3

\* The values that are not optional.
PlainValues == Seq(Byte) \cup Seq(Seq(Byte))

\* What read_plain returns was written by write_plain.
LEMMA PlainInv ==
    ASSUME NEW type, NEW x \in Seq(Byte), NEW r \in read_plain(type, x)
    PROVE  r.value \in PlainValues /\ Undone(r, x, write_plain(type, r.value))
<1>1. CASE type = "fixed"
  <2>1. r \in take(FixedBytes, x) /\ write_plain(type, r.value) = r.value
    BY <1>1 DEF read_plain, write_plain
  <2>2. FixedBytes \in Nat
    BY CodecAssumption
  <2> QED
    BY <2>1, <2>2, TakeInv DEF PlainValues
<1>2. CASE type = "bytes"
  <2>1. r \in read_bytes(MaxFrame, x) /\ write_plain(type, r.value) = write_bytes(r.value)
    BY <1>2 DEF read_plain, write_plain
  <2> QED
    BY <2>1, ReadBytesInv DEF PlainValues
<1>3. CASE type = "path"
  <2>1. r \in read_path(x) /\ write_plain(type, r.value) = write_path(r.value)
    BY <1>3 DEF read_plain, write_plain
  <2> QED
    BY <2>1, PathInv DEF PlainValues
<1>4. CASE type \notin {"fixed", "bytes", "path"}
  <2>1. r \in read_tag(Tags[type], x) /\ write_plain(type, r.value) = r.value
    BY <1>4 DEF read_plain, write_plain
  <2> QED
    BY <2>1, ReadTagInv DEF PlainValues
<1> QED
  BY <1>1, <1>2, <1>3, <1>4

\* A tag written for a type.
LEMMA TagValue ==
    ASSUME NEW type \in FieldTypes, type \notin {"fixed", "bytes", "path"},
           NEW value, IsPlain(type, value)
    PROVE  /\ value \in Seq(Byte) /\ Len(value) = 1 /\ value[1] \in Tags[type]
           /\ write_plain(type, value) = value
<1>1. value \in [1..1 -> Tags[type]] /\ write_plain(type, value) = value
  BY DEF IsPlain, write_plain
<1>2. value \in Seq(Tags[type]) /\ Len(value) = 1
  BY <1>1, SeqDef, LenProperties
<1>3. value[1] \in Tags[type]
  BY <1>1
<1>4. value \in [1..1 -> Byte]
  BY <1>1, TagBytes
<1>5. value \in Seq(Byte)
  BY <1>4, SeqDef
<1> QED
  BY <1>1, <1>2, <1>3, <1>5

\* What write_plain wrote, read_plain reads.
LEMMA PlainPut ==
    ASSUME NEW type \in FieldTypes, NEW value, IsPlain(type, value),
           type = "path" => PathFits(value), NEW t \in Seq(Byte)
    PROVE  /\ write_plain(type, value) \in Seq(Byte)
           /\ Len(write_plain(type, value)) <= MaxFrame =>
                read_plain(type, write_plain(type, value) \o t) = {Pair(value, t)}
<1>1. CASE type = "fixed"
  <2>1. FixedBytes \in Nat
    BY CodecAssumption
  <2>2. value \in [1..FixedBytes -> Byte] /\ write_plain(type, value) = value
        /\ read_plain(type, value \o t) = take(FixedBytes, value \o t)
    BY <1>1 DEF IsPlain, write_plain, read_plain
  <2>3. value \in Seq(Byte) /\ Len(value) = FixedBytes
    BY <2>1, <2>2, SeqDef, LenProperties
  <2> QED
    BY <2>1, <2>2, <2>3, TakePut
<1>2. CASE type = "bytes"
  <2>1. value \in Seq(Byte) /\ write_plain(type, value) = write_bytes(value)
        /\ read_plain(type, write_bytes(value) \o t) = read_bytes(MaxFrame, write_bytes(value) \o t)
    BY <1>2 DEF IsPlain, write_plain, read_plain
  <2>2. write_bytes(value) \in Seq(Byte) /\ Len(write_bytes(value)) > Len(value)
    BY <2>1, WriteBytes
  <2>3. PICK n \in Nat, m \in Nat : n = Len(value) /\ m = Len(write_bytes(value))
    BY <2>1, <2>2
  <2>4. MaxFrame \in Nat /\ u64_MAX \in Nat /\ MaxFrame <= u64_MAX
    BY CodecAssumption, MaxNumberDef DEF u64_MAX
  <2>5. m <= MaxFrame => n <= MaxFrame /\ n <= u64_MAX
    BY <2>2, <2>3, <2>4
  <2>6. MaxFrame \in Int
    BY <2>4
  <2>7. m <= MaxFrame => read_bytes(MaxFrame, write_bytes(value) \o t) = {Pair(value, t)}
    BY <2>1, <2>3, <2>5, <2>6, ReadBytesPut
  <2> QED
    BY <2>1, <2>2, <2>3, <2>7
<1>3. CASE type = "path"
  <2>1. /\ value \in Seq(Seq(Byte)) /\ IsRelativePath(value) /\ PathFits(value)
        /\ write_plain(type, value) = write_path(value)
        /\ read_plain(type, write_path(value) \o t) = read_path(write_path(value) \o t)
    BY <1>3 DEF IsPlain, write_plain, read_plain
  <2> QED
    BY <2>1, WritePath, PathPut
<1>4. CASE type \notin {"fixed", "bytes", "path"}
  <2>1. /\ value \in Seq(Byte) /\ Len(value) = 1 /\ value[1] \in Tags[type]
        /\ write_plain(type, value) = value
    BY <1>4, TagValue
  <2>2. read_plain(type, value \o t) = read_tag(Tags[type], value \o t)
    BY <1>4 DEF read_plain
  <2> QED
    BY <2>1, <2>2, ReadTagPut
<1> QED
  BY <1>1, <1>2, <1>3, <1>4

\* The fields a layout may have.
FieldSet == [type : FieldTypes, optional : BOOLEAN]

\* A sequence of one byte.
LEMMA OneByte ==
    /\ <<0>> \in Seq(Byte) /\ Len(<<0>>) = 1
    /\ <<1>> \in Seq(Byte) /\ Len(<<1>>) = 1
    /\ \A s \in Seq(Byte) : Len(s) = 1 => s = <<s[1]>>
<1>1. 0 \in Byte /\ 1 \in Byte
  BY CodecAssumption DEF Byte
<1> QED
  BY <1>1

\* The values of all fields.
FieldValues == PlainValues \cup {<< >>} \cup {<<v>> : v \in PlainValues}

\* What read_field returns was written by write_field.
LEMMA FieldInv ==
    ASSUME NEW field, NEW x \in Seq(Byte), NEW r \in read_field(field, x)
    PROVE  r.value \in FieldValues /\ Undone(r, x, write_field(field, r.value))
<1>1. CASE ~field.optional
  <2>1. r \in read_plain(field.type, x) /\ write_field(field, r.value) = write_plain(field.type, r.value)
    BY <1>1 DEF read_field, write_field
  <2> QED
    BY <2>1, PlainInv DEF FieldValues
<1>2. CASE field.optional
  <2>1. PICK tag \in read_tag({0, 1}, x) :
          r \in IF tag.value = <<0>> THEN {[value |-> << >>, rest |-> tag.rest]}
                ELSE {[value |-> <<some.value>>, rest |-> some.rest] :
                        some \in read_plain(field.type, tag.rest)}
    BY <1>2 DEF read_field
  <2>2. tag.value \in Seq(Byte) /\ Len(tag.value) = 1 /\ tag.value[1] \in {0, 1}
        /\ Undone(tag, x, tag.value)
    BY ReadTagInv
  <2>3. tag.value \in {<<0>>, <<1>>}
    BY <2>2, OneByte
  <2>4. tag.rest \in Seq(Byte) /\ x = tag.value \o tag.rest
    BY <2>2 DEF Undone
  <2>5. CASE tag.value = <<0>>
    <3>1. r = [value |-> << >>, rest |-> tag.rest]
      BY <2>1, <2>5
    <3>2. r.value = << >> /\ r.rest = tag.rest /\ r = Pair(r.value, r.rest)
      BY <3>1 DEF Pair
    <3>3. write_field(field, r.value) = <<0>>
      BY <1>2, <3>2 DEF write_field
    <3> QED
      BY <2>4, <2>5, <3>2, <3>3, OneByte DEF Undone, FieldValues
  <2>6. CASE tag.value # <<0>>
    <3>1. PICK some \in read_plain(field.type, tag.rest) :
            r = [value |-> <<some.value>>, rest |-> some.rest]
      BY <2>1, <2>6
    <3>2. some.value \in PlainValues /\ Undone(some, tag.rest, write_plain(field.type, some.value))
      BY <2>4, PlainInv
    <3>3. PICK w \in Seq(Byte), t \in Seq(Byte) :
            /\ w = write_plain(field.type, some.value) /\ t = some.rest
            /\ tag.rest = w \o t
      BY <3>2 DEF Undone
    <3>4. r.value = <<some.value>> /\ r.rest = t /\ r = Pair(r.value, r.rest)
      BY <3>1, <3>3 DEF Pair
    <3>5. PICK o \in Seq(Byte) : o = <<1>>
      BY OneByte
    <3>6. write_field(field, r.value) = o \o w
      <4>1. r.value # << >> /\ r.value[1] = some.value
        BY <3>4
      <4> QED
        BY <1>2, <3>3, <3>5, <4>1 DEF write_field
    <3>7. x = o \o (w \o t)
      BY <2>3, <2>4, <2>6, <3>3, <3>5
    <3>8. Joined(o, w, t)
      BY Joins
    <3>9. r.value \in FieldValues
      BY <3>2, <3>4 DEF FieldValues
    <3> QED
      BY <3>4, <3>6, <3>7, <3>8, <3>9 DEF Undone, Joined
  <2> QED
    BY <2>5, <2>6
<1> QED
  BY <1>1, <1>2

\* What write_field wrote, read_field reads.
LEMMA FieldPut ==
    ASSUME NEW field \in FieldSet, NEW value, IsField(field, value), FieldFits(field, value),
           NEW t \in Seq(Byte)
    PROVE  /\ write_field(field, value) \in Seq(Byte)
           /\ Len(write_field(field, value)) <= MaxFrame =>
                read_field(field, write_field(field, value) \o t) = {Pair(value, t)}
<1>0. field.type \in FieldTypes /\ field.optional \in BOOLEAN
  BY DEF FieldSet
<1>1. CASE ~field.optional
  <2>1. /\ IsPlain(field.type, value) /\ (field.type = "path" => PathFits(value))
        /\ write_field(field, value) = write_plain(field.type, value)
        /\ \A x : read_field(field, x) = read_plain(field.type, x)
    BY <1>1 DEF IsField, FieldFits, write_field, read_field
  <2> QED
    BY <1>0, <2>1, PlainPut
<1>2. CASE field.optional /\ value = << >>
  <2>1. PICK o \in Seq(Byte) : o = <<0>> /\ Len(o) = 1 /\ o[1] = 0
    BY OneByte
  <2>2. write_field(field, value) = o
    BY <1>2, <2>1 DEF write_field
  <2>3. PICK z : z = Pair(o, t)
    OBVIOUS
  <2>4. read_tag({0, 1}, o \o t) = {z}
    BY <2>1, <2>3, ReadTagPut
  <2>5. z.value = <<0>> /\ z.rest = t
    BY <2>1, <2>3 DEF Pair
  <2>6. read_field(field, o \o t) = {[value |-> << >>, rest |-> t]}
    <3>1. read_field(field, o \o t)
            = UNION {IF tag.value = <<0>> THEN {[value |-> << >>, rest |-> tag.rest]}
                ELSE {[value |-> <<some.value>>, rest |-> some.rest] :
                        some \in read_plain(field.type, tag.rest)} : tag \in {z}}
      BY <1>2, <2>4 DEF read_field
    <3>2. @ = IF z.value = <<0>> THEN {[value |-> << >>, rest |-> z.rest]}
                ELSE {[value |-> <<some.value>>, rest |-> some.rest] :
                        some \in read_plain(field.type, z.rest)}
      OBVIOUS
    <3> QED
      BY <2>5, <3>1, <3>2
  <2> QED
    BY <1>2, <2>2, <2>6 DEF Pair
<1>3. CASE field.optional /\ value # << >>
  <2>1. value = <<value[1]>> /\ IsPlain(field.type, value[1])
    BY <1>3 DEF IsField
  <2>2. PICK v : v = value[1]
    OBVIOUS
  <2>3. value = <<v>> /\ IsPlain(field.type, v)
    BY <2>1, <2>2
  <2>4. field.type = "path" => PathFits(v)
    <3>1. 1 \in DOMAIN value
      BY <2>3
    <3> QED
      BY <1>3, <2>2, <3>1 DEF FieldFits
  <2>5. PICK o \in Seq(Byte) : o = <<1>> /\ Len(o) = 1 /\ o[1] = 1
    BY OneByte
  <2>6. PICK w \in Seq(Byte) : w = write_plain(field.type, v)
    BY <1>0, <2>3, <2>4, PlainPut
  <2>7. write_field(field, value) = o \o w
    BY <1>3, <2>2, <2>5, <2>6 DEF write_field
  <2>8. PICK u \in Seq(Byte) : u = w \o t
    BY ConcatProperties
  <2>9. Joined(o, w, t)
    BY Joins
  <2>10. Len(o \o w) = 1 + Len(w)
    BY <2>5, ConcatProperties
  <2>11. ASSUME Len(o \o w) <= MaxFrame
         PROVE  read_field(field, o \o u) = {Pair(value, t)}
    <3>1. Len(w) <= MaxFrame
      <4>1. PICK n \in Nat : n = Len(w)
        OBVIOUS
      <4>2. MaxFrame \in Nat
        BY CodecAssumption
      <4> QED
        BY <2>10, <2>11, <4>1, <4>2
    <3>2. read_plain(field.type, u) = {Pair(v, t)}
      BY <1>0, <2>3, <2>4, <2>6, <2>8, <3>1, PlainPut
    <3>3. PICK z : z = Pair(o, u)
      OBVIOUS
    <3>4. read_tag({0, 1}, o \o u) = {z}
      BY <2>5, <3>3, ReadTagPut
    <3>5. z.value # <<0>> /\ z.rest = u
      <4>1. z.value = o /\ z.rest = u
        BY <3>3 DEF Pair
      <4> QED
        BY <2>5, <4>1
    <3>6. read_field(field, o \o u)
            = UNION {IF tag.value = <<0>> THEN {[value |-> << >>, rest |-> tag.rest]}
                ELSE {[value |-> <<some.value>>, rest |-> some.rest] :
                        some \in read_plain(field.type, tag.rest)} : tag \in {z}}
      BY <1>3, <3>4 DEF read_field
    <3>7. @ = IF z.value = <<0>> THEN {[value |-> << >>, rest |-> z.rest]}
                ELSE {[value |-> <<some.value>>, rest |-> some.rest] :
                        some \in read_plain(field.type, z.rest)}
      OBVIOUS
    <3>8. @ = {[value |-> <<some.value>>, rest |-> some.rest] :
                        some \in read_plain(field.type, u)}
      BY <3>5
    <3>9. @ = {[value |-> <<some.value>>, rest |-> some.rest] : some \in {Pair(v, t)}}
      BY <3>2
    <3>10. @ = {[value |-> <<v>>, rest |-> t]}
      BY DEF Pair
    <3> QED
      BY <2>3, <3>6, <3>7, <3>8, <3>9, <3>10 DEF Pair
  <2> QED
    BY <2>7, <2>8, <2>9, <2>11 DEF Joined
<1> QED
  BY <1>0, <1>1, <1>2, <1>3

\* Every layout is made of such fields.
LEMMA Layouts ==
    ASSUME NEW on, NEW kind, NEW layout \in Fields(on, kind)
    PROVE  layout \in Seq(FieldSet)
<1>1. \A type \in FieldTypes : Field(type) \in FieldSet /\ Maybe(type) \in FieldSet
  BY DEF FieldSet, Field, Maybe
<1>2. RecordFields \in Seq(FieldSet)
  BY <1>1 DEF RecordFields, FieldTypes
<1>3. OperationFields \subseteq Seq(FieldSet)
  <2>1. <<Field("upsert"), Field("fixed")>> \in Seq(FieldSet)
        /\ <<Field("delete"), Field("fixed"), Field("path"), Field("entry")>> \in Seq(FieldSet)
    BY <1>1 DEF FieldTypes
  <2>2. <<Field("upsert"), Field("fixed")>> \o RecordFields \in Seq(FieldSet)
    BY <1>2, <2>1, ConcatProperties
  <2> QED
    BY <2>1, <2>2 DEF OperationFields
<1>4. FailureFields \in Seq(FieldSet)
  BY <1>1 DEF FailureFields, FieldTypes
<1>5. RequestFields \in Seq(FieldSet)
  BY <1>1 DEF RequestFields, FieldTypes
<1>6. << >> \in Seq(FieldSet) /\ <<Field("bytes")>> \in Seq(FieldSet) /\ <<Field("fixed")>> \in Seq(FieldSet)
  BY <1>1 DEF FieldTypes
<1>7. ControlFields(kind) \subseteq Seq(FieldSet)
  BY <1>3, <1>4, <1>6 DEF ControlFields
<1>8. IndexFields(kind) \subseteq Seq(FieldSet)
  BY <1>2, <1>6 DEF IndexFields
<1>9. TransferFields(kind) \subseteq Seq(FieldSet)
  BY <1>5, <1>6 DEF TransferFields
<1> QED
  BY <1>7, <1>8, <1>9 DEF Fields

-----------------------------------------------------------------------------
(***************************************************************************)
(* Fields of a message, read one after the other.                          *)
(***************************************************************************)
NextField(l, n, S) ==
    UNION {{[value |-> Append(read.value, next.value), rest |-> next.rest] :
              next \in read_field(l[n], read.rest)} :
           read \in S}

\* The equation of read_fields.
IsFields(f, l, c, x) ==
    f = [n \in 0..c |-> IF n = 0 THEN {[value |-> << >>, rest |-> x]}
                        ELSE NextField(l, n, f[n - 1])]

\* The equation, element by element.
ReadsFields(f, l, c, x) ==
    /\ f[0] = {[value |-> << >>, rest |-> x]}
    /\ \A n \in 1..c : f[n] = NextField(l, n, f[n - 1])

\* read_fields is a function that satisfies its equation, if there is one.
LEMMA FieldsUnfold ==
    ASSUME NEW l, NEW c, c = Len(l), NEW x
    PROVE  read_fields(l, x) = (CHOOSE f : IsFields(f, l, c, x))[c]
BY DEF read_fields, IsFields, NextField

\* The recursion of read_fields has a solution, which it computes.
LEMMA FieldsSteps ==
    ASSUME NEW l, NEW c \in Nat, c = Len(l), NEW x
    PROVE  \E f : ReadsFields(f, l, c, x) /\ read_fields(l, x) = f[c]
<1> DEFINE T == {k \in Nat : ~ \E f : ReadsFields(f, l, k, x)}
<1>1. T = {}
  <2> SUFFICES ASSUME T # {} PROVE FALSE
    OBVIOUS
  <2>1. PICK k \in T : \A j \in T : ~(j < k)
    BY LeastNumber
  <2>2. k \in Nat /\ ~ \E f : ReadsFields(f, l, k, x)
    OBVIOUS
  <2>3. \A j \in Nat : j < k => \E f : ReadsFields(f, l, j, x)
    BY <2>1
  <2> HIDE DEF T
  <2>4. CASE k = 0
    <3> DEFINE g == [n \in {0} |-> {[value |-> << >>, rest |-> x]}]
    <3>1. g[0] = {[value |-> << >>, rest |-> x]}
      OBVIOUS
    <3> HIDE DEF g
    <3>2. ReadsFields(g, l, 0, x)
      BY <3>1 DEF ReadsFields
    <3> QED
      BY <2>2, <2>4, <3>2
  <2>5. CASE k # 0
    <3>1. k - 1 \in Nat /\ k - 1 < k
      BY <2>2, <2>5
    <3>2. PICK f : ReadsFields(f, l, k - 1, x)
      BY <2>3, <3>1
    <3>3. PICK y : y = NextField(l, k, f[k - 1])
      OBVIOUS
    <3> DEFINE g == [n \in 0..k |-> IF n = k THEN y ELSE f[n]]
    <3>4. \A n \in 0..k : g[n] = IF n = k THEN y ELSE f[n]
      OBVIOUS
    <3> HIDE DEF g
    <3>5. g[0] = {[value |-> << >>, rest |-> x]}
      BY <2>2, <2>5, <3>2, <3>4 DEF ReadsFields
    <3>6. ASSUME NEW n \in 1..k PROVE g[n] = NextField(l, n, g[n - 1])
      <4>1. n \in 0..k /\ n - 1 \in 0..k /\ n - 1 # k
        BY <2>2
      <4>2. g[n - 1] = f[n - 1]
        BY <3>4, <4>1
      <4>3. CASE n = k
        BY <3>3, <3>4, <4>1, <4>2, <4>3
      <4>4. CASE n # k
        <5>1. n \in 1..(k - 1)
          BY <2>2, <4>4
        <5>2. f[n] = NextField(l, n, f[n - 1])
          BY <3>2, <5>1 DEF ReadsFields
        <5> QED
          BY <3>4, <4>1, <4>2, <4>4, <5>2
      <4> QED
        BY <4>3, <4>4
    <3>7. ReadsFields(g, l, k, x)
      BY <3>5, <3>6 DEF ReadsFields
    <3> QED
      BY <2>2, <3>7
  <2> QED
    BY <2>4, <2>5
<1>2. PICK f : ReadsFields(f, l, c, x)
  BY <1>1
<1> HIDE DEF T
<1> DEFINE g == [n \in 0..c |-> f[n]]
<1>3. \A n \in 0..c : g[n] = f[n]
  OBVIOUS
<1>4. \A n \in 0..c : f[n] = IF n = 0 THEN {[value |-> << >>, rest |-> x]}
                             ELSE NextField(l, n, g[n - 1])
  <2> SUFFICES ASSUME NEW n \in 0..c, n # 0 PROVE f[n] = NextField(l, n, g[n - 1])
    BY <1>2 DEF ReadsFields
  <2>1. n \in 1..c /\ n - 1 \in 0..c
    OBVIOUS
  <2>2. f[n] = NextField(l, n, f[n - 1])
    BY <1>2, <2>1 DEF ReadsFields
  <2> HIDE DEF g
  <2> QED
    BY <1>3, <2>1, <2>2
<1>5. g = [n \in 0..c |-> IF n = 0 THEN {[value |-> << >>, rest |-> x]}
                          ELSE NextField(l, n, g[n - 1])]
  BY <1>4
<1>6. IsFields(g, l, c, x)
  BY <1>5 DEF IsFields
<1> HIDE DEF g
<1>7. PICK h : h = CHOOSE j : IsFields(j, l, c, x)
  OBVIOUS
<1>8. IsFields(h, l, c, x)
  BY <1>6, <1>7
<1>9. read_fields(l, x) = h[c]
  BY <1>7, FieldsUnfold
<1>10. \A n \in 0..c : h[n] = IF n = 0 THEN {[value |-> << >>, rest |-> x]}
                              ELSE NextField(l, n, h[n - 1])
  BY <1>8 DEF IsFields
<1>11. 0 \in 0..c /\ \A n \in 1..c : n \in 0..c /\ n # 0
  OBVIOUS
<1>12. h[0] = {[value |-> << >>, rest |-> x]}
  BY <1>10, <1>11
<1>13. \A n \in 1..c : h[n] = NextField(l, n, h[n - 1])
  BY <1>10, <1>11
<1>14. ReadsFields(h, l, c, x)
  BY <1>12, <1>13 DEF ReadsFields
<1> QED
  BY <1>9, <1>14

\* The written fields of a message.
WrittenFields(l, v) == [i \in DOMAIN v |-> write_field(l[i], v[i])]

\* The first n fields are written as bytes.
FieldBytes(l, v, n) == \A i \in 1..n : write_field(l[i], v[i]) \in Seq(Byte)

\* The fields of a message as they are written.
LEMMA WrittenFieldsType ==
    ASSUME NEW l, NEW S, NEW v \in Seq(S), FieldBytes(l, v, Len(v))
    PROVE  /\ WrittenFields(l, v) \in Seq(Seq(Byte)) /\ Len(WrittenFields(l, v)) = Len(v)
           /\ \A i \in 1..Len(v) : WrittenFields(l, v)[i] = write_field(l[i], v[i])
<1>1. PICK n \in Nat : n = Len(v) /\ DOMAIN v = 1..n
  OBVIOUS
<1>2. \A i \in 1..n : write_field(l[i], v[i]) \in Seq(Byte)
  BY <1>1 DEF FieldBytes
<1>3. WrittenFields(l, v) = [i \in 1..n |-> write_field(l[i], v[i])]
  BY <1>1 DEF WrittenFields
<1>4. WrittenFields(l, v) \in [1..n -> Seq(Byte)]
  BY <1>2, <1>3
<1>5. WrittenFields(l, v) \in Seq(Seq(Byte)) /\ Len(WrittenFields(l, v)) = n
  BY <1>4, SeqDef, LenProperties
<1> QED
  BY <1>1, <1>3, <1>5

\* One more field is written behind the others.
LEMMA WrittenFieldsAppend ==
    ASSUME NEW l, NEW S, NEW v \in Seq(S), FieldBytes(l, v, Len(v)),
           NEW b \in S, write_field(l[Len(v) + 1], b) \in Seq(Byte)
    PROVE  /\ Append(v, b) \in Seq(S) /\ Len(Append(v, b)) = Len(v) + 1
           /\ FieldBytes(l, Append(v, b), Len(v) + 1)
           /\ FlattenSeq(WrittenFields(l, Append(v, b)))
                = FlattenSeq(WrittenFields(l, v)) \o write_field(l[Len(v) + 1], b)
<1>1. PICK n \in Nat : n = Len(v)
  OBVIOUS
<1>2. PICK q \in Seq(S) : q = Append(v, b)
  BY AppendProperties
<1>3. Len(q) = n + 1 /\ q[n + 1] = b /\ \A i \in 1..n : q[i] = v[i]
  BY <1>1, <1>2, AppendProperties
<1>4. FieldBytes(l, q, n + 1)
  <2> SUFFICES ASSUME NEW i \in 1..(n + 1) PROVE write_field(l[i], q[i]) \in Seq(Byte)
    BY DEF FieldBytes
  <2>1. CASE i = n + 1
    BY <1>1, <1>3, <2>1
  <2>2. CASE i # n + 1
    <3>1. i \in 1..n
      BY <2>2
    <3> QED
      BY <1>1, <1>3, <3>1 DEF FieldBytes
  <2> QED
    BY <2>1, <2>2
<1>5. PICK u \in Seq(Seq(Byte)) : u = WrittenFields(l, v)
  BY WrittenFieldsType
<1>6. PICK w \in Seq(Seq(Byte)) : w = WrittenFields(l, q)
  BY <1>3, <1>4, WrittenFieldsType
<1>7. PICK y \in Seq(Byte) : y = write_field(l[n + 1], b)
  BY <1>1
<1>8. /\ Len(u) = n /\ \A i \in 1..n : u[i] = write_field(l[i], v[i])
  BY <1>1, <1>5, WrittenFieldsType
<1>9. Len(w) = n + 1 /\ \A i \in 1..(n + 1) : w[i] = write_field(l[i], q[i])
  <2>1. FieldBytes(l, q, Len(q))
    BY <1>3, <1>4
  <2>2. Len(w) = Len(q) /\ \A i \in 1..Len(q) : w[i] = write_field(l[i], q[i])
    BY <1>6, <2>1, WrittenFieldsType
  <2> QED
    BY <1>3, <2>2
<1>10. PICK z \in Seq(Seq(Byte)) : z = Append(u, y)
  BY AppendProperties
<1>11. Len(z) = n + 1 /\ z[n + 1] = y /\ \A i \in 1..n : z[i] = u[i]
  BY <1>8, <1>10, AppendProperties
<1>12. \A i \in 1..(n + 1) : w[i] = z[i]
  <2> SUFFICES ASSUME NEW i \in 1..(n + 1) PROVE w[i] = z[i]
    OBVIOUS
  <2>1. CASE i = n + 1
    BY <1>3, <1>7, <1>9, <1>11, <2>1
  <2>2. CASE i # n + 1
    <3>1. i \in 1..n
      BY <2>2
    <3> QED
      BY <1>3, <1>8, <1>9, <1>11, <3>1
  <2> QED
    BY <2>1, <2>2
<1>13. w = z
  BY <1>9, <1>11, <1>12, SeqEqual
<1>14. FlattenSeq(z) = FlattenSeq(u) \o y
  BY <1>10, FlattenAppend
<1> QED
  BY <1>1, <1>2, <1>3, <1>4, <1>5, <1>6, <1>7, <1>13, <1>14

\* No field, no byte.
LEMMA WrittenNone ==
    ASSUME NEW l
    PROVE  FieldBytes(l, << >>, 0) /\ FlattenSeq(WrittenFields(l, << >>)) = << >>
<1>1. << >> \in Seq(FieldValues) /\ Len(<< >>) = 0 /\ FieldBytes(l, << >>, 0)
  BY EmptySeq DEF FieldBytes
<1>2. WrittenFields(l, << >>) \in Seq(Seq(Byte)) /\ Len(WrittenFields(l, << >>)) = 0
  BY <1>1, WrittenFieldsType
<1>3. WrittenFields(l, << >>) = << >>
  BY <1>2, EmptySeq
<1> QED
  BY <1>1, <1>3, FlattenEmpty

\* What reading the first n fields returns.
FieldsDone(l, x, n, s) ==
    /\ s.value \in Seq(FieldValues) /\ Len(s.value) = n
    /\ FieldBytes(l, s.value, n)
    /\ Undone(s, x, FlattenSeq(WrittenFields(l, s.value)))

\* What read_fields returns was written field by field.
LEMMA FieldsInv ==
    ASSUME NEW l, NEW c \in Nat, c = Len(l), NEW x \in Seq(Byte), NEW r \in read_fields(l, x)
    PROVE  FieldsDone(l, x, c, r)
<1>1. PICK f : ReadsFields(f, l, c, x) /\ read_fields(l, x) = f[c]
  BY FieldsSteps
<1>2. ASSUME NEW s \in f[0] PROVE FieldsDone(l, x, 0, s)
  <2>1. s = [value |-> << >>, rest |-> x]
    BY <1>1 DEF ReadsFields
  <2>2. s.value = << >> /\ s.rest = x /\ s = Pair(s.value, s.rest)
    BY <2>1 DEF Pair
  <2>3. << >> \in Seq(FieldValues) /\ Len(<< >>) = 0 /\ << >> \in Seq(Byte)
    BY EmptySeq
  <2>4. << >> \o x = x
    BY ConcatEmptySeq
  <2> QED
    BY <2>2, <2>3, <2>4, WrittenNone DEF Undone, FieldsDone
<1>3. ASSUME NEW n \in 1..c, \A s \in f[n - 1] : FieldsDone(l, x, n - 1, s), NEW s \in f[n]
      PROVE  FieldsDone(l, x, n, s)
  <2>1. s \in NextField(l, n, f[n - 1])
    BY <1>1 DEF ReadsFields
  <2>2. PICK read \in f[n - 1] :
          \E next \in read_field(l[n], read.rest) :
            s = [value |-> Append(read.value, next.value), rest |-> next.rest]
    BY <2>1 DEF NextField
  <2>3. PICK next \in read_field(l[n], read.rest) :
            s = [value |-> Append(read.value, next.value), rest |-> next.rest]
    BY <2>2
  <2>4. FieldsDone(l, x, n - 1, read)
    BY <1>3
  <2>5. PICK p \in Seq(FieldValues), u \in Seq(Byte) :
          p = read.value /\ u = read.rest /\ Len(p) = n - 1 /\ FieldBytes(l, p, n - 1)
    BY <2>4 DEF Undone, FieldsDone
  <2>6. PICK w \in Seq(Byte) : w = FlattenSeq(WrittenFields(l, p)) /\ x = w \o u
    BY <2>4, <2>5 DEF Undone, FieldsDone
  <2>7. next.value \in FieldValues /\ Undone(next, u, write_field(l[n], next.value))
    BY <2>3, <2>5, FieldInv
  <2>8. PICK b \in FieldValues, y \in Seq(Byte), t \in Seq(Byte) :
          /\ b = next.value /\ y = write_field(l[n], b) /\ t = next.rest /\ u = y \o t
    BY <2>7 DEF Undone
  <2>9. s.value = Append(p, b) /\ s.rest = t /\ s = Pair(s.value, s.rest)
    BY <2>3, <2>5, <2>8 DEF Pair
  <2>10. Len(p) + 1 = n
    BY <2>5
  <2>11. write_field(l[Len(p) + 1], b) = y /\ FieldBytes(l, p, Len(p))
    BY <2>5, <2>8, <2>10
  <2>12. /\ Append(p, b) \in Seq(FieldValues) /\ Len(Append(p, b)) = n
         /\ FieldBytes(l, Append(p, b), n)
         /\ FlattenSeq(WrittenFields(l, Append(p, b))) = w \o y
    BY <2>6, <2>10, <2>11, WrittenFieldsAppend, ZenonT(60)
  <2>13. x = w \o (y \o t)
    BY <2>6, <2>8
  <2>14. Joined(w, y, t)
    BY Joins
  <2> QED
    BY <2>9, <2>12, <2>13, <2>14 DEF Undone, Joined, FieldsDone
<1> DEFINE T == {n \in 0..c : ~ \A s \in f[n] : FieldsDone(l, x, n, s)}
<1>4. T = {}
  <2> SUFFICES ASSUME T # {} PROVE FALSE
    OBVIOUS
  <2>0. T \subseteq Nat
    OBVIOUS
  <2>1. PICK n \in T : \A j \in T : ~(j < n)
    BY <2>0, LeastNumber
  <2>2. n \in 0..c /\ ~ \A s \in f[n] : FieldsDone(l, x, n, s)
    OBVIOUS
  <2>3. \A j \in 0..c : j < n => \A s \in f[j] : FieldsDone(l, x, j, s)
    BY <2>1
  <2> HIDE DEF T
  <2>4. n # 0
    BY <1>2, <2>2
  <2>5. n \in 1..c /\ n - 1 \in 0..c /\ n - 1 < n
    BY <2>2, <2>4
  <2> QED
    BY <1>3, <2>2, <2>3, <2>5
<1>5. c \in 0..c
  OBVIOUS
<1> QED
  BY <1>1, <1>4, <1>5

\* What was written field by field, read_fields reads.
LEMMA FieldsPut ==
    ASSUME NEW l \in Seq(FieldSet), NEW v \in Seq(FieldValues), Len(v) = Len(l),
           FieldBytes(l, v, Len(v)),
           \A i \in 1..Len(v) : \A t \in Seq(Byte) :
               read_field(l[i], write_field(l[i], v[i]) \o t) = {Pair(v[i], t)}
    PROVE  read_fields(l, FlattenSeq(WrittenFields(l, v))) = {Pair(v, << >>)}
<1>1. PICK c \in Nat : c = Len(l) /\ c = Len(v)
  OBVIOUS
<1>2. PICK w \in Seq(Seq(Byte)) : w = WrittenFields(l, v)
  BY WrittenFieldsType
<1>3. Len(w) = c /\ \A i \in 1..c : w[i] = write_field(l[i], v[i])
  BY <1>1, <1>2, WrittenFieldsType
<1>4. PICK x : x = FlattenSeq(w)
  OBVIOUS
<1>5. PICK f : ReadsFields(f, l, c, x) /\ read_fields(l, x) = f[c]
  BY <1>1, FieldsSteps
<1> DEFINE Good(n) == f[n] = {Pair(SubSeq(v, 1, n), After(w, n))}
<1>6. Good(0)
  <2>1. SubSeq(v, 1, 0) = << >> /\ After(w, 0) = FlattenSeq(w)
    BY SubSeqEmpty, FlattenEnds
  <2> QED
    BY <1>4, <1>5, <2>1 DEF ReadsFields, Pair
<1>7. ASSUME NEW n \in 0..(c - 1), Good(n) PROVE Good(n + 1)
  <2>1. n \in Nat /\ n < Len(v) /\ n < Len(w) /\ n + 1 \in 1..c /\ (n + 1) - 1 = n
        /\ n + 1 \in 0..Len(w)
    BY <1>1, <1>3
  <2>2. PICK p : p = SubSeq(v, 1, n)
    OBVIOUS
  <2>3. PICK b : b = v[n + 1]
    OBVIOUS
  <2>4. PICK y : y = write_field(l[n + 1], b)
    OBVIOUS
  <2>5. PICK a \in Seq(Byte) : a = After(w, n + 1)
    BY <2>1, FlattenSplit
  <2>7. After(w, n) = y \o a
    BY <1>3, <2>1, <2>3, <2>4, <2>5, AfterStep
  <2>8. f[n] = {Pair(p, y \o a)}
    BY <1>7, <2>2, <2>7
  <2>9. f[n + 1] = NextField(l, n + 1, f[n])
    BY <1>5, <2>1 DEF ReadsFields
  <2>12. read_field(l[n + 1], y \o a) = {Pair(b, a)}
    BY <1>1, <2>1, <2>3, <2>4
  <2>13. NextField(l, n + 1, {Pair(p, y \o a)}) = {Pair(Append(p, b), a)}
    <3>1. PICK z : z = Pair(p, y \o a)
      OBVIOUS
    <3>2. z.value = p /\ z.rest = y \o a /\ Pair(b, a).value = b /\ Pair(b, a).rest = a
      BY <3>1 DEF Pair
    <3>3. NextField(l, n + 1, {z}) = {[value |-> Append(z.value, next.value), rest |-> next.rest] :
                                  next \in read_field(l[n + 1], z.rest)}
      BY DEF NextField
    <3>4. read_field(l[n + 1], z.rest) = {Pair(b, a)}
      BY <2>12, <3>2
    <3>5. NextField(l, n + 1, {z}) = {[value |-> Append(z.value, next.value), rest |-> next.rest] :
                                  next \in {Pair(b, a)}}
      BY <3>3, <3>4
    <3>6. @ = {[value |-> Append(p, b), rest |-> a]}
      BY <3>2
    <3> QED
      BY <3>1, <3>5, <3>6 DEF Pair
  <2>14. SubSeq(v, 1, n + 1) = Append(p, b)
    <3>1. v \in Seq(FieldValues) /\ 1 \in Nat \ {0} /\ n \in Nat /\ 1 <= n + 1 /\ n < Len(v)
      BY <2>1
    <3>2. SubSeq(v, 1, n + 1) = Append(SubSeq(v, 1, n), v[n + 1])
      BY ONLY <3>1, SubSeqAppend
    <3> QED
      BY <2>2, <2>3, <3>2
  <2> QED
    BY <2>5, <2>8, <2>9, <2>13, <2>14
<1>8. Good(c)
  <2> HIDE DEF Good
  <2> DEFINE T == {n \in 0..c : ~Good(n)}
  <2> SUFFICES ASSUME T # {} PROVE FALSE
    BY SMTT(30)
  <2>0. T \subseteq Nat
    OBVIOUS
  <2>1. PICK n \in T : \A j \in T : ~(j < n)
    BY <2>0, LeastNumber
  <2>2. n \in 0..c /\ ~Good(n) /\ \A j \in 0..c : j < n => Good(j)
    BY <2>1
  <2> HIDE DEF T
  <2>3. n # 0
    BY <1>6, <2>2
  <2>4. n - 1 \in 0..(c - 1) /\ n - 1 \in 0..c /\ n - 1 < n /\ (n - 1) + 1 = n
    BY <2>2, <2>3
  <2>5. Good(n - 1)
    BY <2>2, <2>4
  <2>6. Good((n - 1) + 1)
    BY <1>7, <2>4, <2>5
  <2> QED
    BY <2>2, <2>4, <2>6
<1>9. SubSeq(v, 1, c) = v /\ After(w, c) = << >>
  BY <1>1, <1>3, SubSeqFull, FlattenEnds
<1> QED
  BY <1>1, <1>2, <1>4, <1>5, <1>8, <1>9

\* A first field that is not read leaves no message.
LEMMA FieldsWrong ==
    ASSUME NEW l, NEW c \in Nat, c = Len(l), c > 0, NEW x, read_field(l[1], x) = {}
    PROVE  read_fields(l, x) = {}
<1>1. PICK f : ReadsFields(f, l, c, x) /\ read_fields(l, x) = f[c]
  BY FieldsSteps
<1>2. f[1] = {}
  <2>1. PICK z : z = [value |-> << >>, rest |-> x]
    OBVIOUS
  <2>2. f[0] = {z} /\ z.rest = x
    BY <1>1, <2>1 DEF ReadsFields
  <2>3. 1 \in 1..c /\ 1 - 1 = 0
    OBVIOUS
  <2>4. f[1] = NextField(l, 1, {z})
    BY <1>1, <2>2, <2>3 DEF ReadsFields
  <2> QED
    BY <2>2, <2>4 DEF NextField
<1> DEFINE T == {n \in 1..c : f[n] # {}}
<1>3. T = {}
  <2> SUFFICES ASSUME T # {} PROVE FALSE
    OBVIOUS
  <2>0. T \subseteq Nat
    OBVIOUS
  <2>1. PICK n \in T : \A j \in T : ~(j < n)
    BY <2>0, LeastNumber
  <2>2. n \in 1..c /\ f[n] # {} /\ \A j \in 1..c : j < n => f[j] = {}
    BY <2>1
  <2> HIDE DEF T
  <2>3. n # 1
    BY <1>2, <2>2
  <2>4. n - 1 \in 1..c /\ n - 1 < n
    BY <2>2, <2>3
  <2>5. f[n] = NextField(l, n, f[n - 1]) /\ f[n - 1] = {}
    BY <1>1, <2>2, <2>4 DEF ReadsFields
  <2> QED
    BY <2>2, <2>5 DEF NextField
<1>4. c \in 1..c
  OBVIOUS
<1> QED
  BY <1>1, <1>3, <1>4

-----------------------------------------------------------------------------
(***************************************************************************)
(* Messages.                                                               *)
(***************************************************************************)
Message(kind, layout, fields) == [kind |-> kind, layout |-> layout, fields |-> fields]

\* A payload is its kind, its version and its fields.
LEMMA PayloadParts ==
    ASSUME NEW b \in Seq(Byte), Len(b) >= 3
    PROVE  /\ b[1] \in Byte /\ <<b[1]>> \in Seq(Byte)
           /\ SubSeq(b, 2, 3) \in Seq(Byte) /\ SubSeq(b, 4, Len(b)) \in Seq(Byte)
           /\ b = (<<b[1]>> \o SubSeq(b, 2, 3)) \o SubSeq(b, 4, Len(b))
<1>1. PICK n \in Nat : n = Len(b) /\ n >= 3
  OBVIOUS
<1>2. 1 \in 0..Len(b) /\ 3 \in 0..Len(b) /\ 1 \in 1..Len(b) /\ n \in 0..Len(b)
  BY <1>1
<1>3. b[1] \in Byte
  BY <1>2
<1>4. SubSeq(b, 1, 1) = <<b[1]>>
  <2>1. SubSeq(b, 1, 1) \in Seq(Byte) /\ Len(SubSeq(b, 1, 1)) = 1
        /\ \A i \in 1..1 : SubSeq(b, 1, 1)[i] = b[i]
    BY <1>2, SplitAt
  <2>2. PICK s : s = SubSeq(b, 1, 1)
    OBVIOUS
  <2>3. s \in Seq(Byte) /\ Len(s) = 1 /\ \A i \in 1..1 : s[i] = b[i]
    BY <2>1, <2>2
  <2>4. s[1] = b[1]
    BY <2>3
  <2>5. s = <<s[1]>>
    BY <2>3, OneByte
  <2> QED
    BY <2>2, <2>4, <2>5
<1>5. SubSeq(b, 1, 3) = SubSeq(b, 1, 1) \o SubSeq(b, 2, 3)
  <2>1. 1 \in 1..(Len(b) + 1) /\ 1 \in (1 - 1)..Len(b) /\ 3 \in 1..Len(b) /\ 1 + 1 = 2
    BY <1>1
  <2> QED
    BY <2>1, ConcatAdjacentSubSeq
<1>6. b = SubSeq(b, 1, 3) \o SubSeq(b, 4, Len(b)) /\ SubSeq(b, 4, Len(b)) \in Seq(Byte)
  <2>1. 3 + 1 = 4
    OBVIOUS
  <2> QED
    BY <1>2, <2>1, SplitAt
<1>7. SubSeq(b, 2, 3) \in Seq(Byte)
  <2>1. \A i \in 2..3 : i \in 1..Len(b)
    BY <1>1
  <2>2. \A i \in 2..3 : b[i] \in Byte
    BY <2>1
  <2> QED
    BY <2>2, SubSeqProperties
<1> QED
  BY <1>3, <1>4, <1>5, <1>6, <1>7

\* What decode_payload returns is encoded by the payload it came from.
LEMMA PayloadInv ==
    ASSUME NEW on, NEW b \in Seq(Byte), Len(b) >= 3, NEW m \in decode_payload(on, b)
    PROVE  Payload(m) = b
<1>0. PICK layout \in Fields(on, b[1]) :
        /\ SubSeq(b, 2, 3) = CURRENT_VERSION
        /\ \E read \in read_fields(layout, SubSeq(b, 4, Len(b))) :
             read.rest = << >> /\ m = [kind |-> b[1], layout |-> layout, fields |-> read.value]
  BY DEF decode_payload
<1>1. PICK read \in read_fields(layout, SubSeq(b, 4, Len(b))) :
        /\ SubSeq(b, 2, 3) = CURRENT_VERSION
        /\ read.rest = << >>
        /\ m = [kind |-> b[1], layout |-> layout, fields |-> read.value]
  BY <1>0
<1>2. layout \in Seq(FieldSet) /\ Len(layout) \in Nat
  BY Layouts
<1>3. PICK x \in Seq(Byte) : x = SubSeq(b, 4, Len(b))
  BY PayloadParts
<1>4. FieldsDone(layout, x, Len(layout), read)
  BY <1>1, <1>2, <1>3, FieldsInv
<1>5. FlattenSeq(WrittenFields(layout, read.value)) \in Seq(Byte)
      /\ x = FlattenSeq(WrittenFields(layout, read.value)) \o << >>
  BY <1>1, <1>4 DEF FieldsDone, Undone
<1>6. x = FlattenSeq(WrittenFields(layout, read.value))
  BY <1>5, ConcatEmptySeq
<1>7. m.kind = b[1] /\ m.layout = layout /\ m.fields = read.value
  BY <1>1
<1>8. encode_fields(m) = x
  BY <1>6, <1>7 DEF encode_fields, WrittenFields
<1>9. Payload(m) = (<<b[1]>> \o SubSeq(b, 2, 3)) \o SubSeq(b, 4, Len(b))
  BY <1>1, <1>3, <1>7, <1>8 DEF Payload
<1> QED
  BY <1>9, PayloadParts

\* A kind with a layout is a byte.
LEMMA KindByte ==
    ASSUME NEW on, NEW kind, NEW layout \in Fields(on, kind)
    PROVE  kind \in Byte
<1>1. 1..15 \subseteq Byte
  BY CodecAssumption DEF Byte
<1>2. kind \in {3, 7, 11, 13, 10, 15, 1, 2, 4, 8, 5, 6}
  BY DEF Fields, ControlFields, IndexFields, TransferFields
<1> QED
  BY <1>1, <1>2

\* A kind with two layouts tells them apart by the tag they begin with.
LEMMA TwoLayouts ==
    ASSUME NEW on, NEW kind, NEW l \in Fields(on, kind), NEW k \in Fields(on, kind), l # k
    PROVE  /\ Len(l) > 0 /\ Len(k) > 0
           /\ <<l[1], k[1]>> \in {<<Field("upsert"), Field("delete")>>, <<Field("delete"), Field("upsert")>>}
<1>1. l \in OperationFields /\ k \in OperationFields
  <2>1. \A F, G : F \in {G} => F = G
    OBVIOUS
  <2> QED
    BY DEF Fields, ControlFields, IndexFields, TransferFields
<1>2. PICK p, q, r : p = <<Field("upsert"), Field("fixed")>> /\ q = RecordFields
                  /\ r = <<Field("delete"), Field("fixed"), Field("path"), Field("entry")>>
  OBVIOUS
<1>3. OperationFields = {p \o q, r}
  BY <1>2 DEF OperationFields
<1>4. FieldTypes \subseteq FieldTypes /\ Field("upsert") \in FieldSet /\ Field("fixed") \in FieldSet
  BY DEF FieldSet, Field, FieldTypes
<1>5. p \in Seq(FieldSet) /\ Len(p) = 2 /\ p[1] = Field("upsert")
  BY <1>2, <1>4
<1>6. q \in Seq(FieldSet)
  <2>1. \A type \in FieldTypes : Field(type) \in FieldSet /\ Maybe(type) \in FieldSet
    BY DEF FieldSet, Field, Maybe
  <2> QED
    BY <1>2, <2>1 DEF RecordFields, FieldTypes
<1>7. Len(p \o q) > 0 /\ (p \o q)[1] = Field("upsert")
  <2>1. Len(p \o q) = Len(p) + Len(q)
        /\ \A i \in 1..(Len(p) + Len(q)) : (p \o q)[i] = IF i <= Len(p) THEN p[i] ELSE q[i - Len(p)]
    BY <1>5, <1>6, ConcatProperties
  <2>2. Len(q) \in Nat
    BY <1>6
  <2>3. 1 \in 1..(Len(p) + Len(q)) /\ 1 <= Len(p)
    BY <1>5, <2>2
  <2>4. (p \o q)[1] = p[1]
    BY <2>1, <2>3
  <2> QED
    BY <1>5, <2>1, <2>2, <2>4
<1>8. Len(r) > 0 /\ r[1] = Field("delete")
  BY <1>2
<1> QED
  BY <1>1, <1>3, <1>7, <1>8, SMTT(30)

\* A sequence is no longer than what it is a part of.
LEMMA FlattenLength ==
    ASSUME NEW ss \in Seq(Seq(Byte)), NEW i \in 1..Len(ss)
    PROVE  Len(ss[i]) <= Len(FlattenSeq(ss))
<1>1. PICK n \in Nat : n = i - 1 /\ i = n + 1
  OBVIOUS
<1>2. n < Len(ss) /\ n \in 0..Len(ss) /\ n + 1 \in 0..Len(ss)
  BY <1>1
<1>3. PICK b \in Seq(Byte), f \in Seq(Byte), a \in Seq(Byte) :
        b = ss[i] /\ f = First(ss, n) /\ a = After(ss, n + 1)
  <2>1. ss[i] \in Seq(Byte)
    OBVIOUS
  <2> QED
    BY <1>2, <2>1, FlattenSplit
<1>4. FlattenSeq(ss) = (f \o b) \o a
  <2>1. FlattenSeq(ss) = First(ss, n + 1) \o After(ss, n + 1)
    BY <1>2, FlattenSplit
  <2>2. First(ss, n + 1) = f \o b
    BY <1>1, <1>2, <1>3, FirstStep
  <2> QED
    BY <1>3, <2>1, <2>2
<1>5. PICK e : e = f \o b
  OBVIOUS
<1>6. e \in Seq(Byte) /\ Len(e) = Len(f) + Len(b) /\ Len(f) \in Nat /\ Len(b) \in Nat
  BY <1>5, Sizes DEF Sized
<1>7. Len(e \o a) = Len(e) + Len(a) /\ Len(a) \in Nat
  BY <1>6, Sizes DEF Sized
<1>8. Len(b) <= Len(e \o a)
  BY <1>6, <1>7
<1> QED
  BY <1>3, <1>4, <1>5, <1>8

\* The values of a message are values of fields.
LEMMA FieldValue ==
    ASSUME NEW field \in FieldSet, NEW value, IsField(field, value)
    PROVE  value \in FieldValues
<1>1. ASSUME NEW type \in FieldTypes, NEW v, IsPlain(type, v)
      PROVE  v \in PlainValues
  <2>1. CASE type = "fixed"
    <3>1. v \in [1..FixedBytes -> Byte] /\ FixedBytes \in Nat
      BY <1>1, <2>1, CodecAssumption DEF IsPlain
    <3> QED
      BY <3>1, SeqDef DEF PlainValues
  <2>2. CASE type = "bytes"
    BY <1>1, <2>2 DEF IsPlain, PlainValues
  <2>3. CASE type = "path"
    BY <1>1, <2>3 DEF IsPlain, PlainValues
  <2>4. CASE type \notin {"fixed", "bytes", "path"}
    BY <1>1, <2>4, TagValue DEF PlainValues
  <2> QED
    BY <2>1, <2>2, <2>3, <2>4
<1>2. field.type \in FieldTypes
  BY DEF FieldSet
<1> QED
  BY <1>1, <1>2 DEF IsField, FieldValues

\* The message is made of a kind, a layout and as many fields.
LEMMA MessageParts ==
    ASSUME NEW on, NEW m, IsMessage(on, m), Encodes(m)
    PROVE  /\ m = Message(m.kind, m.layout, m.fields)
           /\ m.layout \in Fields(on, m.kind) /\ m.layout \in Seq(FieldSet)
           /\ m.fields \in Seq(FieldValues) /\ Len(m.fields) = Len(m.layout)
           /\ FieldBytes(m.layout, m.fields, Len(m.fields))
           /\ \A i \in 1..Len(m.fields) :
                /\ IsField(m.layout[i], m.fields[i]) /\ FieldFits(m.layout[i], m.fields[i])
<1>1. PICK l, v : l = m.layout /\ v = m.fields
  OBVIOUS
<1>2. m = [kind |-> m.kind, layout |-> l, fields |-> [i \in DOMAIN l |-> v[i]]]
      /\ l \in Fields(on, m.kind) /\ \A i \in DOMAIN l : IsField(l[i], v[i])
  BY <1>1 DEF IsMessage
<1>3. l \in Seq(FieldSet)
  BY <1>2, Layouts
<1>4. PICK n \in Nat : n = Len(l) /\ DOMAIN l = 1..n
  BY <1>3
<1>5. v = [i \in 1..n |-> v[i]]
  BY <1>1, <1>2, <1>4
<1>6. \A i \in 1..n : l[i] \in FieldSet /\ IsField(l[i], v[i])
  BY <1>2, <1>3, <1>4
<1>7. \A i \in 1..n : v[i] \in FieldValues
  BY <1>6, FieldValue
<1>8. v \in [1..n -> FieldValues]
  BY <1>5, <1>7
<1>9. v \in Seq(FieldValues) /\ Len(v) = n /\ DOMAIN v = 1..n
  BY <1>8, SeqDef, LenProperties
<1>10. \A i \in 1..n : FieldFits(l[i], v[i])
  BY <1>1, <1>9 DEF Encodes
<1>11. \A i \in 1..n : write_field(l[i], v[i]) \in Seq(Byte)
  <2> SUFFICES ASSUME NEW i \in 1..n PROVE write_field(l[i], v[i]) \in Seq(Byte)
    OBVIOUS
  <2>1. << >> \in Seq(Byte)
    BY EmptySeq
  <2> QED
    BY <1>6, <1>10, <2>1, FieldPut
<1>12. FieldBytes(l, v, n)
  BY <1>11 DEF FieldBytes
<1>13. m = Message(m.kind, m.layout, m.fields)
  BY <1>1, <1>2, <1>4, <1>5 DEF Message
<1> QED
  BY <1>1, <1>2, <1>3, <1>4, <1>6, <1>9, <1>10, <1>12, <1>13

\* A payload that encode makes is one that decode_payload accepts, with the
\* message it was made of as its only result.
LEMMA PayloadPut ==
    ASSUME NEW on, NEW m, IsMessage(on, m), Encodes(m)
    PROVE  /\ Payload(m) \in Seq(Byte) /\ Len(Payload(m)) \in 3..MaxFrame
           /\ decode_payload(on, Payload(m)) = {m}
<1>1. PICK k, l, v : k = m.kind /\ l = m.layout /\ v = m.fields
  OBVIOUS
<1>2. /\ m = Message(k, l, v) /\ l \in Fields(on, k) /\ l \in Seq(FieldSet)
      /\ v \in Seq(FieldValues) /\ Len(v) = Len(l) /\ FieldBytes(l, v, Len(v))
      /\ \A i \in 1..Len(v) : IsField(l[i], v[i]) /\ FieldFits(l[i], v[i])
  BY <1>1, MessageParts
<1>3. PICK n \in Nat : n = Len(v) /\ n = Len(l)
  BY <1>2
<1>4. PICK w \in Seq(Seq(Byte)) : w = WrittenFields(l, v)
  BY <1>2, WrittenFieldsType
<1>5. Len(w) = n /\ \A i \in 1..n : w[i] = write_field(l[i], v[i])
  BY <1>2, <1>3, <1>4, WrittenFieldsType
<1>6. PICK x \in Seq(Byte) : x = FlattenSeq(w)
  BY FlattenType
<1>7. encode_fields(m) = x
  BY <1>1, <1>4, <1>6 DEF encode_fields, WrittenFields
<1>8. k \in Byte
  BY <1>2, KindByte
<1>9. PICK a, c : a = <<k>> /\ c = CURRENT_VERSION
  OBVIOUS
<1>90. a \in Seq(Byte) /\ Len(a) = 1 /\ a[1] = k /\ c \in Seq(Byte) /\ Len(c) = 2
  <2>1. 0 \in Byte /\ 1 \in Byte
    BY CodecAssumption DEF Byte
  <2>2. c = <<1, 0>>
    BY <1>9 DEF CURRENT_VERSION
  <2> QED
    BY <1>8, <1>9, <2>1, <2>2
<1>10. PICK h \in Seq(Byte) : h = a \o c /\ Len(h) = 3 /\ h[1] = k
  <2>1. Sized(a, c)
    BY <1>90, Sizes
  <2>2. a \o c \in Seq(Byte)
    BY <2>1 DEF Sized
  <2>3. Len(a \o c) = 3
    BY <1>90, <2>1 DEF Sized
  <2>4. (a \o c)[1] = k
    BY <1>90, <2>1 DEF Sized
  <2> QED
    BY <2>2, <2>3, <2>4, Zenon
<1>100. Sized(h, x)
  BY Sizes
<1>11. PICK b \in Seq(Byte) : b = h \o x /\ b = Payload(m)
  BY <1>1, <1>7, <1>9, <1>10, <1>100 DEF Payload, Sized
<1>12. Len(b) = 3 + Len(x) /\ Len(b) \in Nat /\ Len(x) \in Nat
  BY <1>10, <1>11, <1>100 DEF Sized
<1>13. Len(b) <= MaxFrame /\ MaxFrame \in Nat /\ Len(b) >= 3
  BY <1>11, <1>12, CodecAssumption DEF Encodes
<1>14. b[1] = k
  BY <1>10, <1>11, <1>100 DEF Sized
<1>15. SubSeq(b, 1, 3) = h /\ SubSeq(b, 4, Len(b)) = x
  <2>1. 3 + 1 = 4
    OBVIOUS
  <2> QED
    BY <1>10, <1>11, <1>100, <2>1 DEF Sized
<1>16. SubSeq(b, 2, 3) = CURRENT_VERSION
  <2>1. PICK d \in Seq(Byte) : d = SubSeq(b, 2, 3)
    BY <1>13, PayloadParts
  <2>2. b = (a \o d) \o x
    <3>1. b = (<<b[1]>> \o SubSeq(b, 2, 3)) \o SubSeq(b, 4, Len(b))
      BY <1>13, PayloadParts
    <3> QED
      BY <1>9, <1>14, <1>15, <2>1, <3>1
  <2>3. PICK e \in Seq(Byte) : e = a \o d
    <3>1. Sized(a, d)
      BY <1>90, Sizes
    <3> QED
      BY <3>1 DEF Sized
  <2>4. h \o x = e \o x
    BY <1>11, <2>2, <2>3
  <2>5. h = e
    BY <2>4, ConcatSimplifications
  <2>6. c = d
    BY <1>10, <1>90, <2>3, <2>5, ConcatSimplifications
  <2> QED
    BY <1>9, <2>1, <2>6
<1>17. ASSUME NEW i \in 1..n, NEW t \in Seq(Byte)
       PROVE  read_field(l[i], write_field(l[i], v[i]) \o t) = {Pair(v[i], t)}
  <2>1. l[i] \in FieldSet /\ IsField(l[i], v[i]) /\ FieldFits(l[i], v[i])
    BY <1>2, <1>3
  <2>2. Len(w[i]) <= Len(x) /\ Len(w[i]) \in Nat
    <3>1. i \in 1..Len(w)
      BY <1>5
    <3>2. w[i] \in Seq(Byte)
      BY <3>1
    <3> QED
      BY <1>6, <3>1, <3>2, FlattenLength
  <2>3. Len(write_field(l[i], v[i])) <= MaxFrame
    BY <1>5, <1>12, <1>13, <2>2
  <2> QED
    BY <2>1, <2>3, FieldPut
<1>18. read_fields(l, x) = {Pair(v, << >>)}
  <2>1. \A i \in 1..Len(v) : \A t \in Seq(Byte) :
               read_field(l[i], write_field(l[i], v[i]) \o t) = {Pair(v[i], t)}
    BY <1>3, <1>17
  <2> QED
    BY <1>2, <1>4, <1>6, <2>1, FieldsPut
<1>19. ASSUME NEW o \in Fields(on, k), o # l
       PROVE  read_fields(o, x) = {}
  <2>1. /\ Len(o) > 0 /\ Len(l) > 0
        /\ \/ l[1] = Field("upsert") /\ o[1] = Field("delete")
           \/ l[1] = Field("delete") /\ o[1] = Field("upsert")
    BY <1>2, <1>19, TwoLayouts
  <2>2. o \in Seq(FieldSet) /\ Len(o) \in Nat
    BY Layouts
  <2>3. 1 \in 1..n /\ 0 < Len(w) /\ 0 + 1 = 1 /\ 1 \in 0..Len(w) /\ 0 \in Nat
    BY <1>3, <1>5, <2>1
  <2>4. PICK y \in Seq(Byte), t \in Seq(Byte) : y = w[1] /\ t = After(w, 1)
    <3>1. w[1] \in Seq(Byte)
      BY <1>5, <2>3
    <3> QED
      BY <2>3, <3>1, FlattenSplit
  <2>5. x = y \o t
    <3>1. After(w, 0) = y \o t
      BY <2>3, <2>4, AfterStep
    <3> QED
      BY <1>6, <3>1, FlattenEnds
  <2>6. PICK type \in {"upsert", "delete"} : l[1] = Field(type) /\ o[1] # Field(type)
    BY <2>1 DEF Field
  <2>7. PICK other \in {"upsert", "delete"} : o[1] = Field(other) /\ other # type
    BY <2>1, <2>6
  <2>8. IsPlain(type, v[1]) /\ write_field(l[1], v[1]) = write_plain(type, v[1])
    <3>1. IsField(l[1], v[1])
      BY <1>2, <1>3, <2>3
    <3>2. Field(type).type = type /\ ~Field(type).optional
      BY DEF Field
    <3> QED
      BY <2>6, <3>1, <3>2 DEF IsField, write_field
  <2>9. type \in FieldTypes /\ type \notin {"fixed", "bytes", "path"}
        /\ other \notin {"fixed", "bytes", "path"}
    BY DEF FieldTypes
  <2>10. v[1] = y /\ Len(y) = 1 /\ y[1] \in Tags[type]
    BY <1>5, <2>3, <2>4, <2>8, <2>9, TagValue
  <2>11. y[1] \notin Tags[other]
    <3>1. Tags["upsert"] = {1, 2, 3, 5} /\ Tags["delete"] = {4}
      BY DEF Tags
    <3>2. CASE type = "upsert"
      <4>1. other = "delete" /\ y[1] \in {1, 2, 3, 5}
        BY <2>7, <2>10, <3>1, <3>2
      <4>2. y[1] # 4
        BY <4>1
      <4> QED
        BY <3>1, <4>1, <4>2
    <3>3. CASE type = "delete"
      <4>1. other = "upsert" /\ y[1] = 4
        BY <2>7, <2>10, <3>1, <3>3
      <4>2. y[1] \notin {1, 2, 3, 5}
        BY <4>1
      <4> QED
        BY <3>1, <4>1, <4>2
    <3> QED
      BY <3>2, <3>3
  <2>12. read_tag(Tags[other], y \o t) = {}
    BY <2>10, <2>11, ReadTagPut
  <2>13. read_field(o[1], x) = {}
    <3>1. Field(other).type = other /\ ~Field(other).optional
      BY DEF Field
    <3> QED
      BY <2>5, <2>7, <2>9, <2>12, <3>1 DEF read_field, read_plain
  <2> QED
    BY <2>1, <2>2, <2>13, FieldsWrong
<1>20. decode_payload(on, b) = {m}
  <2> DEFINE D(o) == {[kind |-> b[1], layout |-> o, fields |-> read.value] :
                        read \in {r \in read_fields(o, SubSeq(b, 4, Len(b))) : r.rest = << >>}}
  <2>1. decode_payload(on, b) = UNION {D(o) : o \in Fields(on, k)}
    BY <1>14, <1>16 DEF decode_payload
  <2>2. D(l) = {m}
    <3>1. Pair(v, << >>).value = v /\ Pair(v, << >>).rest = << >>
      BY DEF Pair
    <3>2. {r \in read_fields(l, SubSeq(b, 4, Len(b))) : r.rest = << >>} = {Pair(v, << >>)}
      BY <1>15, <1>18, <3>1
    <3>3. D(l) = {[kind |-> b[1], layout |-> l, fields |-> read.value] : read \in {Pair(v, << >>)}}
      BY <3>2
    <3>4. @ = {[kind |-> b[1], layout |-> l, fields |-> v]}
      BY <3>1
    <3> QED
      BY <1>2, <1>14, <3>3, <3>4 DEF Message
  <2>3. \A o \in Fields(on, k) : o # l => D(o) = {}
    BY <1>15, <1>19
  <2> HIDE DEF D
  <2> QED
    BY <1>2, <2>1, <2>2, <2>3, ZenonT(60)
<1> QED
  BY <1>11, <1>12, <1>13, <1>20

-----------------------------------------------------------------------------
(***************************************************************************)
(* Frames.                                                                 *)
(***************************************************************************)
\* The messages that have a frame.
Framed ==
    {m \in [kind : Byte, layout : Seq(FieldSet), fields : Seq(FieldValues)] :
        Payload(m) \in Seq(Byte) /\ Len(Payload(m)) \in 3..MaxFrame}

\* What can be sent has a frame.
LEMMA SentFramed ==
    ASSUME NEW on, NEW m, IsMessage(on, m), Encodes(m)
    PROVE  m \in Framed
<1>1. /\ m = Message(m.kind, m.layout, m.fields) /\ m.layout \in Fields(on, m.kind)
      /\ m.layout \in Seq(FieldSet) /\ m.fields \in Seq(FieldValues)
  BY MessageParts
<1>2. m.kind \in Byte
  BY <1>1, KindByte
<1>3. m \in [kind : Byte, layout : Seq(FieldSet), fields : Seq(FieldValues)]
  BY <1>1, <1>2 DEF Message
<1> QED
  BY <1>3, PayloadPut DEF Framed

\* What is decoded has a frame, with the payload it was decoded from.
LEMMA DecodedFramed ==
    ASSUME NEW on, NEW b \in Seq(Byte), Len(b) \in 3..MaxFrame, NEW m \in decode_payload(on, b)
    PROVE  m \in Framed /\ Payload(m) = b
<1>1. Len(b) >= 3
  BY CodecAssumption
<1>2. Payload(m) = b
  BY <1>1, PayloadInv
<1>3. PICK layout \in Fields(on, b[1]) :
        \E read \in read_fields(layout, SubSeq(b, 4, Len(b))) :
           m = [kind |-> b[1], layout |-> layout, fields |-> read.value]
  BY DEF decode_payload
<1>4. PICK read \in read_fields(layout, SubSeq(b, 4, Len(b))) :
           m = [kind |-> b[1], layout |-> layout, fields |-> read.value]
  BY <1>3
<1>5. layout \in Seq(FieldSet) /\ Len(layout) \in Nat
  BY Layouts
<1>6. PICK x \in Seq(Byte) : x = SubSeq(b, 4, Len(b))
  BY <1>1, PayloadParts
<1>7. FieldsDone(layout, x, Len(layout), read)
  BY <1>5, <1>6, FieldsInv
<1>8. read.value \in Seq(FieldValues)
  BY <1>7 DEF FieldsDone
<1>9. b[1] \in Byte
  BY <1>1, PayloadParts
<1>10. m \in [kind : Byte, layout : Seq(FieldSet), fields : Seq(FieldValues)]
  BY <1>4, <1>5, <1>8, <1>9
<1> QED
  BY <1>2, <1>10 DEF Framed

\* A frame is a length and a payload of that length.
LEMMA EncodeFramed ==
    ASSUME NEW m \in Framed
    PROVE  /\ Payload(m) \in Seq(Byte) /\ Len(Payload(m)) \in 3..MaxFrame
           /\ Len(Payload(m)) \in Nat /\ Len(Payload(m)) <= u64_MAX
           /\ encode(m) = put_varint[Len(Payload(m))] \o Payload(m)
           /\ put_varint[Len(Payload(m))] \in Seq(Byte)
           /\ encode(m) \in Seq(Byte) /\ Len(encode(m)) > 0
<1>1. PICK b \in Seq(Byte) : b = Payload(m) /\ Len(b) \in 3..MaxFrame
  BY DEF Framed
<1>2. Len(b) \in Nat /\ Len(b) <= u64_MAX
  <2>1. MaxFrame \in Nat /\ u64_MAX \in Nat /\ MaxFrame <= u64_MAX
    BY CodecAssumption, MaxNumberDef DEF u64_MAX
  <2> QED
    BY <1>1, <2>1
<1>3. write_bytes(b) \in Seq(Byte) /\ put_varint[Len(b)] \in Seq(Byte) /\ Len(write_bytes(b)) > Len(b)
  BY WriteBytes
<1>4. Len(write_bytes(b)) > 0
  <2>1. Len(write_bytes(b)) \in Nat
    BY <1>3
  <2> QED
    BY <1>2, <1>3, <2>1
<1> QED
  BY <1>1, <1>2, <1>3, <1>4 DEF encode, write_bytes

\* The frames of messages, and the bytes they make.
Encoded(ms) == [i \in DOMAIN ms |-> encode(ms[i])]
Frames(ms) == FlattenSeq(Encoded(ms))

\* Messages that can be framed give bytes.
LEMMA EncodedType ==
    ASSUME NEW ms \in Seq(Framed)
    PROVE  /\ Encoded(ms) \in Seq(Seq(Byte)) /\ Len(Encoded(ms)) = Len(ms)
           /\ \A i \in 1..Len(ms) : Encoded(ms)[i] = encode(ms[i])
           /\ Frames(ms) \in Seq(Byte)
<1>1. PICK n \in Nat : n = Len(ms) /\ DOMAIN ms = 1..n
  OBVIOUS
<1>2. \A i \in 1..n : ms[i] \in Framed
  BY <1>1
<1>3. \A i \in 1..n : encode(ms[i]) \in Seq(Byte)
  BY <1>2, EncodeFramed
<1>4. Encoded(ms) = [i \in 1..n |-> encode(ms[i])]
  BY <1>1 DEF Encoded
<1>5. Encoded(ms) \in [1..n -> Seq(Byte)]
  BY <1>3, <1>4
<1>6. Encoded(ms) \in Seq(Seq(Byte)) /\ Len(Encoded(ms)) = n
  BY <1>5, SeqDef, LenProperties
<1>7. FlattenSeq(Encoded(ms)) \in Seq(Byte)
  BY <1>6, FlattenType
<1> QED
  BY <1>1, <1>4, <1>6, <1>7 DEF Frames

\* One more message, one more frame.
LEMMA FramesAppend ==
    ASSUME NEW ms \in Seq(Framed), NEW m \in Framed
    PROVE  Append(ms, m) \in Seq(Framed) /\ Frames(Append(ms, m)) = Frames(ms) \o encode(m)
<1>1. PICK n \in Nat : n = Len(ms)
  OBVIOUS
<1>2. PICK q \in Seq(Framed) : q = Append(ms, m)
  BY AppendProperties
<1>3. Len(q) = n + 1 /\ q[n + 1] = m /\ \A i \in 1..n : q[i] = ms[i]
  BY <1>1, <1>2, AppendProperties
<1>4. PICK v \in Seq(Seq(Byte)) : v = Encoded(ms)
  BY EncodedType
<1>5. PICK w \in Seq(Seq(Byte)) : w = Encoded(q)
  BY EncodedType
<1>6. PICK y \in Seq(Byte) : y = encode(m)
  BY EncodeFramed
<1>7. /\ Len(v) = n /\ \A i \in 1..n : v[i] = encode(ms[i])
  BY <1>1, <1>4, EncodedType
<1>8. Len(w) = n + 1 /\ \A i \in 1..(n + 1) : w[i] = encode(q[i])
  BY <1>3, <1>5, EncodedType
<1>9. PICK z \in Seq(Seq(Byte)) : z = Append(v, y)
  BY AppendProperties
<1>10. Len(z) = n + 1 /\ z[n + 1] = y /\ \A i \in 1..n : z[i] = v[i]
  BY <1>7, <1>9, AppendProperties
<1>11. \A i \in 1..(n + 1) : w[i] = z[i]
  <2> SUFFICES ASSUME NEW i \in 1..(n + 1) PROVE w[i] = z[i]
    OBVIOUS
  <2>1. CASE i = n + 1
    BY <1>3, <1>6, <1>8, <1>10, <2>1
  <2>2. CASE i # n + 1
    <3>1. i \in 1..n
      BY <2>2
    <3> QED
      BY <1>3, <1>7, <1>8, <1>10, <3>1
  <2> QED
    BY <2>1, <2>2
<1>12. w = z
  <2>1. w \in Seq(Seq(Byte)) /\ z \in Seq(Seq(Byte)) /\ Len(w) = Len(z)
        /\ \A i \in 1..Len(w) : w[i] = z[i]
    BY <1>8, <1>10, <1>11
  <2> QED
    BY ONLY <2>1, SeqEqual
<1>13. FlattenSeq(z) = FlattenSeq(v) \o y
  BY <1>9, FlattenAppend
<1> QED
  BY <1>2, <1>4, <1>5, <1>6, <1>12, <1>13 DEF Frames

\* No message, no bytes.
LEMMA FramesEmpty == Frames(<< >>) = << >>
<1>1. << >> \in Seq(Framed) /\ Len(<< >>) = 0
  BY EmptySeq
<1>2. Encoded(<< >>) \in Seq(Seq(Byte)) /\ Len(Encoded(<< >>)) = 0
  BY <1>1, EncodedType
<1>3. Encoded(<< >>) = << >>
  BY <1>2, EmptySeq
<1> QED
  BY <1>3, FlattenEmpty DEF Frames

\* The frames after the first n begin with the next one.
LEMMA FramesSplit ==
    ASSUME NEW ms \in Seq(Framed), NEW n \in 0..Len(ms)
    PROVE  /\ SubSeq(ms, 1, n) \in Seq(Framed)
           /\ Frames(SubSeq(ms, 1, n)) \in Seq(Byte)
           /\ After(Encoded(ms), n) \in Seq(Byte)
           /\ Frames(ms) = Frames(SubSeq(ms, 1, n)) \o After(Encoded(ms), n)
           /\ n = Len(ms) => After(Encoded(ms), n) = << >>
           /\ n < Len(ms) => After(Encoded(ms), n) = encode(ms[n + 1]) \o After(Encoded(ms), n + 1)
                             /\ After(Encoded(ms), n + 1) \in Seq(Byte)
<1>1. PICK w \in Seq(Seq(Byte)) : w = Encoded(ms)
  BY EncodedType
<1>2. PICK l \in Nat : l = Len(ms) /\ l = Len(w)
  BY <1>1, EncodedType
<1>3. \A i \in 1..l : w[i] = encode(ms[i])
  BY <1>1, <1>2, EncodedType
<1>4. n \in 0..Len(w) /\ n \in Nat
  BY <1>2
<1>5. PICK p : p = SubSeq(ms, 1, n)
  OBVIOUS
<1>6. p \in Seq(Framed) /\ Len(p) = n /\ \A i \in 1..n : p[i] = ms[i]
  BY <1>5, SplitAt
<1>7. PICK f \in Seq(Seq(Byte)) : f = Encoded(p)
  BY <1>6, EncodedType
<1>8. Len(f) = n /\ \A i \in 1..n : f[i] = encode(p[i])
  BY <1>6, <1>7, EncodedType
<1>9. PICK g : g = SubSeq(w, 1, n)
  OBVIOUS
<1>10. g \in Seq(Seq(Byte)) /\ Len(g) = n /\ \A i \in 1..n : g[i] = w[i]
  BY <1>4, <1>9, SplitAt
<1>11. f = g
  <2>1. \A i \in 1..n : f[i] = g[i]
    <3> SUFFICES ASSUME NEW i \in 1..n PROVE f[i] = g[i]
      OBVIOUS
    <3>1. i \in 1..l
      BY <1>2, <1>4
    <3> QED
      BY <1>3, <1>6, <1>8, <1>10, <3>1
  <2> QED
    BY <1>7, <1>8, <1>10, <2>1, SeqEqual
<1>12. Frames(p) = First(w, n)
  BY <1>7, <1>9, <1>11 DEF Frames, First
<1>13. /\ First(w, n) \in Seq(Byte) /\ After(w, n) \in Seq(Byte)
       /\ FlattenSeq(w) = First(w, n) \o After(w, n)
  BY <1>4, FlattenSplit
<1>14. n = l => After(w, n) = << >>
  BY <1>2, FlattenEnds
<1>15. ASSUME n < l
       PROVE  After(w, n) = encode(ms[n + 1]) \o After(w, n + 1) /\ After(w, n + 1) \in Seq(Byte)
  <2>1. n + 1 \in 1..l /\ n + 1 \in 0..Len(w) /\ n < Len(w)
    BY <1>2, <1>4, <1>15
  <2>2. After(w, n) = w[n + 1] \o After(w, n + 1)
    BY <1>4, <2>1, AfterStep
  <2>3. After(w, n + 1) \in Seq(Byte)
    BY <2>1, FlattenSplit
  <2> QED
    BY <1>3, <2>1, <2>2, <2>3
<1> QED
  BY <1>1, <1>2, <1>5, <1>6, <1>12, <1>13, <1>14, <1>15 DEF Frames

-----------------------------------------------------------------------------
(***************************************************************************)
(* The length in front of a payload, byte by byte.                         *)
(***************************************************************************)
Continues(h) == \A i \in 1..Len(h) : h[i] >= Radix

\* The limits are numbers of the program.
LEMMA Limits ==
    /\ MaxFrame \in Nat /\ u64_MAX \in Nat /\ MaxFrame <= u64_MAX
    /\ Radix \in Nat /\ Byte \subseteq Nat
    /\ \A n \in 3..MaxFrame : n \in Nat /\ n <= u64_MAX
<1>1. MaxFrame \in Nat /\ MaxFrame <= u64_MAX /\ Radix \in Nat
  BY CodecAssumption
<1>2. u64_MAX \in Nat
  BY CodecAssumption, MaxNumberDef DEF u64_MAX
<1>3. Byte \subseteq Nat
  BY <1>1 DEF Byte
<1> QED
  BY <1>1, <1>2, <1>3

\* Two lengths with what follows them make the same bytes.
SameStart(a, s, b, t) == put_varint[a] \o s = put_varint[b] \o t

\* What two lengths begin determines them.
LEMMA SameLength ==
    ASSUME NEW a \in Nat, a <= u64_MAX, NEW b \in Nat, b <= u64_MAX,
           NEW s \in Seq(Byte), NEW t \in Seq(Byte), SameStart(a, s, b, t)
    PROVE  a = b /\ s = t
<1>1. {Pair(a, s)} = {Pair(b, t)}
  <2>1. put_varint[a] \o s = put_varint[b] \o t
    BY DEF SameStart
  <2> QED
    BY <2>1, ParsePut
<1>2. Pair(a, s) = Pair(b, t)
  BY <1>1
<1> QED
  BY <1>2 DEF Pair

\* The position of the last byte of a length among the bytes of a stream.
LengthIn(g, x) ==
    /\ Len(g) \in 1..Len(x) /\ x[Len(g)] < Radix
    /\ \A i \in 1..(Len(g) - 1) : x[i] >= Radix
    /\ \A i \in 1..Len(g) : x[i] = g[i]

\* The length of a frame stands in front of it, and nothing shorter does.
LEMMA LengthBytes ==
    ASSUME NEW v \in Nat, NEW t \in Seq(Byte)
    PROVE  LengthIn(put_varint[v], put_varint[v] \o t)
<1>0. PICK g \in Seq(Byte) : g = put_varint[v]
  BY PutVarint
<1> DEFINE x == g \o t
<1>1. Canonic(g)
  BY <1>0, PutCanonic
<1>2. PICK n \in Nat \ {0}, m \in Nat : n = Len(g) /\ m = Len(t)
  BY <1>1 DEF Canonic
<1>3. Len(x) = n + m /\ \A i \in 1..(n + m) : x[i] = IF i <= n THEN g[i] ELSE t[i - n]
  BY <1>2, ConcatProperties
<1>4. n \in 1..(n + m) /\ \A i \in 1..n : i \in 1..(n + m) /\ i <= n
  OBVIOUS
<1>5. \A i \in 1..n : x[i] = g[i]
  BY <1>3, <1>4
<1>6. n \in 1..n /\ \A i \in 1..(n - 1) : i \in 1..n
  OBVIOUS
<1>7. x[n] < Radix /\ \A i \in 1..(n - 1) : x[i] >= Radix
  BY <1>1, <1>2, <1>5, <1>6 DEF Canonic
<1>8. LengthIn(g, x)
  <2> HIDE DEF x
  <2> QED
    BY <1>2, <1>3, <1>4, <1>5, <1>7 DEF LengthIn
<1> QED
  BY <1>0, <1>8

\* A length is no longer than the header of the decoder.
LEMMA LengthFits ==
    ASSUME NEW v \in Nat, v <= u64_MAX
    PROVE  Len(put_varint[v]) <= MaxVarint
<1>1. MaxVarint - 1 \in Nat /\ (MaxVarint - 1) + 1 = MaxVarint
  BY CodecAssumption
<1> QED
  BY <1>1, PutWidth DEF u64_MAX

\* A header of continuation bytes with one more byte.
LEMMA HeaderBytes ==
    ASSUME NEW h \in Seq(Byte), Continues(h), NEW c \in Byte, NEW x \in Seq(Byte), x = Append(h, c)
    PROVE  /\ Len(x) = Len(h) + 1 /\ x[Len(h) + 1] = c /\ x = h \o <<c>> /\ <<c>> \in Seq(Byte)
           /\ \A i \in 1..Len(h) : x[i] >= Radix
<1>1. Len(x) = Len(h) + 1 /\ x[Len(h) + 1] = c /\ \A i \in 1..Len(h) : x[i] = h[i]
  BY AppendProperties
<1>2. x = h \o <<c>>
  BY AppendIsConcat
<1>3. <<c>> \in Seq(Byte)
  OBVIOUS
<1> QED
  BY <1>1, <1>2, <1>3 DEF Continues

\* What parse_varint finds in a header is all of it.
LEMMA HeaderEnd ==
    ASSUME NEW h \in Seq(Byte), Continues(h), NEW c \in Byte, NEW x \in Seq(Byte), x = Append(h, c),
           NEW r \in parse_varint(x)
    PROVE  r.value \in Nat /\ x = put_varint[r.value]
<1>1. PICK v \in Nat, t \in Seq(Byte) : v = r.value /\ t = r.rest /\ x = put_varint[v] \o t
  <2>1. r.value \in Nat /\ r.rest \in Seq(Byte) /\ x = put_varint[r.value] \o r.rest
    BY ParseInv
  <2> QED
    BY <2>1, Zenon
<1>2. PICK g \in Seq(Byte) : g = put_varint[v]
  BY PutVarint
<1>3. Len(g) \in 1..Len(x) /\ x[Len(g)] < Radix
  <2>1. LengthIn(put_varint[v], put_varint[v] \o t)
    BY LengthBytes
  <2> QED
    BY <1>1, <1>2, <2>1 DEF LengthIn
<1>4. PICK n \in Nat, m \in Nat : n = Len(h) /\ m = Len(g)
  OBVIOUS
<1>5. Len(x) = n + 1 /\ \A i \in 1..n : x[i] >= Radix /\ x[i] \in Nat
  <2>1. Len(x) = n + 1 /\ \A i \in 1..n : x[i] >= Radix
    BY <1>4, HeaderBytes
  <2>2. \A i \in 1..n : x[i] \in Byte
    BY <2>1
  <2>3. Byte \subseteq Nat
    BY CodecAssumption DEF Byte
  <2> QED
    BY <2>1, <2>2, <2>3
<1>6. m = n + 1
  <2>1. m \in 1..(n + 1) /\ x[m] < Radix
    BY <1>3, <1>4, <1>5
  <2>2. Radix \in Nat
    BY CodecAssumption
  <2>3. m \notin 1..n
    BY <1>5, <2>1, <2>2
  <2> QED
    BY <2>1, <2>3
<1>7. Len(t) = 0
  <2>1. Sized(g, t)
    BY Sizes
  <2>2. Len(x) = m + Len(t) /\ Len(t) \in Nat
    BY <1>1, <1>2, <1>4, <2>1 DEF Sized
  <2> QED
    BY <1>5, <1>6, <2>2
<1>8. t = << >>
  BY <1>7, EmptySeq
<1>9. g \o << >> = g
  BY ConcatEmptySeq
<1> QED
  BY <1>1, <1>2, <1>8, <1>9

\* One more byte of an unfinished length.
HeaderPlus(h, c, x) == Continues(h) /\ x = Append(h, c)
\* x is where the length v begins.
BeginsLength(x, s, v, t) == x \o s = put_varint[v] \o t

\* While the bytes are those of a length, there is room for them, and its last
\* byte ends it.
LEMMA HeaderOfLength ==
    ASSUME NEW h \in Seq(Byte), NEW c \in Byte, NEW x \in Seq(Byte), HeaderPlus(h, c, x),
           NEW s \in Seq(Byte), NEW v \in Nat, v <= u64_MAX, NEW t \in Seq(Byte),
           BeginsLength(x, s, v, t)
    PROVE  Len(h) < MaxVarint /\ (c < Radix => x = put_varint[v])
<1>1. PICK g \in Seq(Byte) : g = put_varint[v]
  BY PutVarint
<1>2. PICK y \in Seq(Byte) : y = x \o s /\ y = g \o t
  <2>1. Sized(x, s)
    BY Sizes
  <2> QED
    BY <1>1, <2>1 DEF Sized, BeginsLength
<1>3. PICK n \in Nat, m \in Nat, k \in Nat : n = Len(h) /\ m = Len(g) /\ k = Len(s)
  OBVIOUS
<1>4. /\ m \in 1..Len(y) /\ y[m] < Radix
      /\ \A i \in 1..(m - 1) : y[i] >= Radix
      /\ \A i \in 1..m : y[i] = g[i]
  <2>1. LengthIn(put_varint[v], put_varint[v] \o t)
    BY LengthBytes
  <2>2. LengthIn(g, y)
    BY <1>1, <1>2, <2>1
  <2> QED
    BY <1>3, <2>2 DEF LengthIn
<1>5. Len(x) = n + 1 /\ x[n + 1] = c /\ \A i \in 1..n : x[i] >= Radix
  BY <1>3, HeaderBytes DEF HeaderPlus
<1>6. Len(y) = (n + 1) + k /\ \A i \in 1..(n + 1) : y[i] = x[i]
  <2>0. /\ Len(x \o s) = Len(x) + Len(s)
        /\ \A i \in 1..(Len(x) + Len(s)) : (x \o s)[i] = IF i <= Len(x) THEN x[i] ELSE s[i - Len(x)]
    BY ConcatProperties
  <2>1. /\ Len(y) = Len(x) + Len(s)
        /\ \A i \in 1..(Len(x) + Len(s)) : y[i] = IF i <= Len(x) THEN x[i] ELSE s[i - Len(x)]
    BY <1>2, <2>0
  <2>2. \A i \in 1..(n + 1) : i \in 1..(Len(x) + Len(s)) /\ i <= Len(x)
    BY <1>3, <1>5
  <2> QED
    BY <1>3, <1>5, <2>1, <2>2
<1>7. Radix \in Nat /\ \A i \in 1..Len(y) : y[i] \in Nat
  <2>1. \A i \in 1..Len(y) : y[i] \in Byte
    OBVIOUS
  <2>2. Byte \subseteq Nat /\ Radix \in Nat
    BY CodecAssumption DEF Byte
  <2> QED
    BY <2>1, <2>2
<1>8. n < m
  <2> SUFFICES ASSUME ~(n < m) PROVE FALSE
    OBVIOUS
  <2>1. m \in 1..n /\ m \in 1..(n + 1)
    BY <1>4
  <2>2. y[m] >= Radix
    BY <1>5, <1>6, <2>1
  <2> QED
    BY <1>4, <1>7, <2>2
<1>9. m <= MaxVarint /\ MaxVarint \in Nat
  BY <1>1, <1>3, LengthFits, CodecAssumption
<1>10. ASSUME c < Radix PROVE x = g
  <2>1. m = n + 1
    <3> SUFFICES ASSUME m # n + 1 PROVE FALSE
      OBVIOUS
    <3>1. n + 1 \in 1..(m - 1) /\ n + 1 \in 1..(n + 1)
      BY <1>8
    <3>2. y[n + 1] >= Radix /\ y[n + 1] = c
      BY <1>4, <1>5, <1>6, <3>1
    <3>3. n + 1 \in 1..Len(y)
      BY <1>4, <3>1
    <3> QED
      BY <1>7, <1>10, <3>2, <3>3
  <2>2. Len(x) = Len(g) /\ \A i \in 1..Len(x) : x[i] = g[i]
    BY <1>3, <1>4, <1>5, <1>6, <2>1
  <2> QED
    BY <2>2, SeqEqual
<1> QED
  BY <1>1, <1>3, <1>8, <1>9, <1>10

-----------------------------------------------------------------------------
(***************************************************************************)
(* What the reader holds: bytes on their way, and messages in order.       *)
(***************************************************************************)
Buf(h, p, i, w) == h \o (p \o (i \o w))

\* What a decoder holds and has before it are bytes.
LEMMA BufType ==
    ASSUME NEW h \in Seq(Byte), NEW p \in Seq(Byte), NEW i \in Seq(Byte), NEW w \in Seq(Byte)
    PROVE  Buf(h, p, i, w) \in Seq(Byte)
<1>1. PICK a \in Seq(Byte) : a = i \o w
  BY Sizes DEF Sized
<1>2. PICK b \in Seq(Byte) : b = p \o a
  BY Sizes DEF Sized
<1>3. h \o b \in Seq(Byte)
  BY Sizes DEF Sized
<1> QED
  BY <1>1, <1>2, <1>3 DEF Buf

\* New bytes come behind everything that is under way.
Behind(h, p, i, w, e) == Buf(h, p, i, w \o e) = Buf(h, p, i, w) \o e

\* Bytes sent are put behind the others.
LEMMA BufSend ==
    ASSUME NEW h \in Seq(Byte), NEW p \in Seq(Byte), NEW i \in Seq(Byte), NEW w \in Seq(Byte),
           NEW e \in Seq(Byte)
    PROVE  Behind(h, p, i, w, e)
<1>1. Joined(i, w, e)
  BY Joins
<1>2. PICK a \in Seq(Byte) : a = i \o w
  BY <1>1 DEF Joined
<1>3. i \o (w \o e) = a \o e
  BY <1>1, <1>2 DEF Joined
<1>4. Joined(p, a, e)
  BY Joins
<1>5. PICK b \in Seq(Byte) : b = p \o a
  BY <1>4 DEF Joined
<1>6. p \o (a \o e) = b \o e
  BY <1>4, <1>5 DEF Joined
<1>7. Joined(h, b, e)
  BY Joins
<1>8. h \o (b \o e) = (h \o b) \o e
  BY <1>7 DEF Joined
<1> QED
  BY <1>2, <1>3, <1>5, <1>6, <1>8 DEF Buf, Behind

\* The stream hands over its first bytes.
LEMMA BufReceive ==
    ASSUME NEW h \in Seq(Byte), NEW p \in Seq(Byte), NEW w \in Seq(Byte), NEW n \in 0..Len(w)
    PROVE  /\ SubSeq(w, 1, n) \in Seq(Byte) /\ Len(SubSeq(w, 1, n)) = n
           /\ SubSeq(w, n + 1, Len(w)) \in Seq(Byte)
           /\ Buf(h, p, SubSeq(w, 1, n), SubSeq(w, n + 1, Len(w))) = Buf(h, p, << >>, w)
<1>1. /\ SubSeq(w, 1, n) \in Seq(Byte) /\ Len(SubSeq(w, 1, n)) = n
      /\ SubSeq(w, n + 1, Len(w)) \in Seq(Byte)
      /\ w = SubSeq(w, 1, n) \o SubSeq(w, n + 1, Len(w))
  BY SplitAt, ZenonT(60)
<1>2. << >> \o w = w
  BY ConcatEmptySeq
<1> QED
  BY <1>1, <1>2 DEF Buf

\* A byte goes from the input to the header.
HeaderMoved(h, i, w) ==
    /\ Head(i) \in Byte /\ Tail(i) \in Seq(Byte) /\ Append(h, Head(i)) \in Seq(Byte)
    /\ Tail(i) \o w \in Seq(Byte)
    /\ Buf(Append(h, Head(i)), << >>, Tail(i), w) = Append(h, Head(i)) \o (Tail(i) \o w)
    /\ Buf(h, << >>, i, w) = Append(h, Head(i)) \o (Tail(i) \o w)

\* A byte moves to the header.
LEMMA BufHeader ==
    ASSUME NEW h \in Seq(Byte), NEW i \in Seq(Byte), i # << >>, NEW w \in Seq(Byte)
    PROVE  HeaderMoved(h, i, w)
<1>1. PICK c \in Byte, r \in Seq(Byte) : c = Head(i) /\ r = Tail(i)
  BY HeadTailProperties
<1>2. PICK o : o = <<c>>
  OBVIOUS
<1>3. o \in Seq(Byte) /\ Len(o) = 1 /\ o[1] = c
  BY <1>2
<1>4. i = o \o r
  <2>1. PICK n \in Nat : n = Len(i)
    OBVIOUS
  <2>2. Len(r) = n - 1 /\ \A j \in 1..(n - 1) : r[j] = i[j + 1]
    BY <1>1, <2>1, HeadTailProperties
  <2>3. n > 0 /\ i[1] = c
    BY <1>1, <2>1, EmptySeq
  <2>4. PICK k \in Seq(Byte) : k = o \o r /\ Len(k) = n
        /\ \A j \in 1..n : k[j] = IF j <= 1 THEN o[j] ELSE r[j - 1]
    <3>1. o \o r \in Seq(Byte) /\ Len(o \o r) = Len(o) + Len(r)
          /\ \A j \in 1..(Len(o) + Len(r)) :
               (o \o r)[j] = IF j <= Len(o) THEN o[j] ELSE r[j - Len(o)]
      BY <1>3, ConcatProperties
    <3>2. Len(o) + Len(r) = n
      BY <1>3, <2>1, <2>2
    <3>3. \A j \in 1..n : (o \o r)[j] = IF j <= 1 THEN o[j] ELSE r[j - 1]
      BY <1>3, <3>1, <3>2
    <3>4. o \o r \in Seq(Byte) /\ Len(o \o r) = n
      BY <3>1, <3>2
    <3> QED
      BY <3>3, <3>4, Zenon
  <2>5. \A j \in 1..n : k[j] = i[j]
    <3> SUFFICES ASSUME NEW j \in 1..n PROVE k[j] = i[j]
      OBVIOUS
    <3>1. CASE j = 1
      BY <1>3, <2>3, <2>4, <3>1
    <3>2. CASE j # 1
      <4>1. j - 1 \in 1..(n - 1) /\ (j - 1) + 1 = j /\ ~(j <= 1)
        BY <3>2
      <4> QED
        BY <2>2, <2>4, <4>1
    <3> QED
      BY <3>1, <3>2
  <2> QED
    BY <2>1, <2>4, <2>5, SeqEqual
<1>5. PICK a \in Seq(Byte) : a = r \o w
  BY Sizes DEF Sized
<1>6. i \o w = o \o a
  <2>1. Joined(o, r, w)
    BY <1>3, Joins
  <2> QED
    BY <1>4, <1>5, <2>1 DEF Joined
<1>7. h \o (o \o a) = (h \o o) \o a /\ h \o o \in Seq(Byte)
  <2>1. Joined(h, o, a)
    BY <1>3, Joins
  <2> QED
    BY <2>1 DEF Joined
<1>8. Append(h, c) = h \o o
  BY <1>2, AppendIsConcat
<1>9. << >> \o (i \o w) = i \o w /\ << >> \o a = a
  <2>1. i \o w \in Seq(Byte)
    BY Sizes DEF Sized
  <2> QED
    BY <2>1, ConcatEmptySeq
<1> QED
  BY <1>1, <1>5, <1>6, <1>7, <1>8, <1>9 DEF Buf, HeaderMoved

\* Bytes go from the input to the payload.
PayloadMoved(h, p, i, w, n, q, r) ==
    /\ q \in Seq(Byte) /\ r \in Seq(Byte)
    /\ q = p \o SubSeq(i, 1, n) /\ r = SubSeq(i, n + 1, Len(i))
    /\ Len(q) = Len(p) + n
    /\ Buf(h, q, r, w) = Buf(h, p, i, w)

\* Bytes move to the payload.
LEMMA BufPayload ==
    ASSUME NEW h \in Seq(Byte), NEW p \in Seq(Byte), NEW i \in Seq(Byte), NEW w \in Seq(Byte),
           NEW n \in 0..Len(i)
    PROVE  \E q, r : PayloadMoved(h, p, i, w, n, q, r)
<1>1. PICK a, b : a = SubSeq(i, 1, n) /\ b = SubSeq(i, n + 1, Len(i))
  OBVIOUS
<1>2. a \in Seq(Byte) /\ Len(a) = n /\ b \in Seq(Byte) /\ Len(b) = Len(i) - n /\ i = a \o b
  BY <1>1, SplitAt, ZenonT(60)
<1>3. PICK e \in Seq(Byte) : e = p \o a /\ Len(e) = Len(p) + n
  BY <1>2, Sizes, ZenonT(60) DEF Sized
<1>4. PICK d \in Seq(Byte) : d = b \o w
  BY <1>2, Sizes DEF Sized
<1>5. i \o w = a \o d
  <2>1. Joined(a, b, w)
    BY <1>2, Joins
  <2> QED
    BY <1>2, <1>4, <2>1 DEF Joined
<1>6. p \o (a \o d) = e \o d
  <2>1. Joined(p, a, d)
    BY <1>2, Joins
  <2> QED
    BY <1>3, <2>1 DEF Joined
<1>7. PayloadMoved(h, p, i, w, n, e, b)
  BY <1>1, <1>2, <1>3, <1>4, <1>5, <1>6 DEF Buf, PayloadMoved
<1> QED
  BY <1>7

\* A finished frame leaves the bytes under way.
FrameLeaves(f, h, p, i, w) ==
    f \o Buf(h, p, i, w) = (f \o (h \o p)) \o Buf(<< >>, << >>, i, w)

\* A complete frame leaves the reader.
LEMMA BufFrame ==
    ASSUME NEW f \in Seq(Byte), NEW h \in Seq(Byte), NEW p \in Seq(Byte), NEW i \in Seq(Byte),
           NEW w \in Seq(Byte)
    PROVE  FrameLeaves(f, h, p, i, w)
<1>1. PICK a \in Seq(Byte) : a = i \o w
  BY Sizes DEF Sized
<1>2. Buf(<< >>, << >>, i, w) = a
  BY <1>1, ConcatEmptySeq DEF Buf
<1>3. PICK e \in Seq(Byte) : e = h \o p
  BY Sizes DEF Sized
<1>4. h \o (p \o a) = e \o a
  <2>1. Joined(h, p, a)
    BY Joins
  <2> QED
    BY <1>3, <2>1 DEF Joined
<1>5. f \o (e \o a) = (f \o e) \o a
  <2>1. Joined(f, e, a)
    BY Joins
  <2> QED
    BY <2>1 DEF Joined
<1> QED
  BY <1>1, <1>2, <1>3, <1>4, <1>5 DEF Buf, FrameLeaves

\* The messages handed over, waiting and just decoded.
All(g, p, d) == g \o p \o d

\* All messages of the decoder are messages.
LEMMA AllType ==
    ASSUME NEW g \in Seq(Framed), NEW p \in Seq(Framed), NEW d \in Seq(Framed)
    PROVE  All(g, p, d) \in Seq(Framed)
BY ConcatProperties DEF All

\* Returning what was decoded loses nothing.
LEMMA AllReturn ==
    ASSUME NEW g \in Seq(Framed), NEW d \in Seq(Framed)
    PROVE  All(g, << >>, d) = g \o d /\ All(g, d, << >>) = g \o d
<1>1. g \o d \in Seq(Framed)
  BY ConcatProperties
<1>2. g \o << >> = g /\ (g \o d) \o << >> = g \o d
  BY <1>1, ConcatEmptySeq
<1> QED
  BY <1>2 DEF All

\* A decoded message comes last.
LEMMA AllAppend ==
    ASSUME NEW g \in Seq(Framed), NEW d \in Seq(Framed), NEW m \in Framed
    PROVE  Append(d, m) \in Seq(Framed) /\ g \o Append(d, m) = Append(g \o d, m)
<1>1. PICK o : o = <<m>>
  OBVIOUS
<1>2. o \in Seq(Framed)
  BY <1>1
<1>3. Append(d, m) = d \o o /\ Append(d, m) \in Seq(Framed)
  BY <1>1, AppendIsConcat, AppendProperties
<1>4. PICK e \in Seq(Framed) : e = g \o d
  BY ConcatProperties
<1>5. Append(e, m) = e \o o
  BY <1>1, AppendIsConcat
<1>6. (g \o d) \o o = g \o (d \o o)
  <2>1. g \in Seq(Framed) /\ d \in Seq(Framed) /\ o \in Seq(Framed)
    BY <1>2
  <2> QED
    BY ONLY <2>1, ConcatAssociative
<1> QED
  BY <1>3, <1>4, <1>5, <1>6

\* Taking a message from the queue leaves the order alone.
LEMMA AllTake ==
    ASSUME NEW g \in Seq(Framed), NEW p \in Seq(Framed), NEW d \in Seq(Framed), p # << >>
    PROVE  /\ Append(g, Head(p)) \in Seq(Framed) /\ Tail(p) \in Seq(Framed)
           /\ All(Append(g, Head(p)), Tail(p), d) = All(g, p, d)
<1>1. PICK m \in Framed, t \in Seq(Framed) : m = Head(p) /\ t = Tail(p)
  BY HeadTailProperties
<1>2. PICK q \in Seq(Framed) : q = Append(g, m)
  BY AppendProperties
<1>3. PICK n \in Nat, k \in Nat : n = Len(g) /\ k = Len(p)
  OBVIOUS
<1>4. k > 0 /\ p[1] = m /\ Len(t) = k - 1 /\ \A j \in 1..(k - 1) : t[j] = p[j + 1]
  BY <1>1, <1>3, EmptySeq, HeadTailProperties
<1>5. Len(q) = n + 1 /\ q[n + 1] = m /\ \A j \in 1..n : q[j] = g[j]
  BY <1>2, <1>3, AppendProperties
<1>6. PICK a \in Seq(Framed) : a = q \o t /\ Len(a) = n + k
        /\ \A j \in 1..(n + k) : a[j] = IF j <= n + 1 THEN q[j] ELSE t[j - (n + 1)]
  <2>1. q \o t \in Seq(Framed) /\ Len(q \o t) = Len(q) + Len(t)
        /\ \A j \in 1..(Len(q) + Len(t)) :
             (q \o t)[j] = IF j <= Len(q) THEN q[j] ELSE t[j - Len(q)]
    BY ConcatProperties
  <2>2. Len(q) + Len(t) = n + k
    BY <1>4, <1>5
  <2> QED
    BY <1>5, <2>1, <2>2, ZenonT(30)
<1>7. PICK b \in Seq(Framed) : b = g \o p /\ Len(b) = n + k
        /\ \A j \in 1..(n + k) : b[j] = IF j <= n THEN g[j] ELSE p[j - n]
  <2>1. g \o p \in Seq(Framed) /\ Len(g \o p) = Len(g) + Len(p)
        /\ \A j \in 1..(Len(g) + Len(p)) :
             (g \o p)[j] = IF j <= Len(g) THEN g[j] ELSE p[j - Len(g)]
    BY ConcatProperties
  <2> QED
    BY <1>3, <2>1, Zenon
<1>8. \A j \in 1..(n + k) : a[j] = b[j]
  <2> SUFFICES ASSUME NEW j \in 1..(n + k) PROVE a[j] = b[j]
    OBVIOUS
  <2>1. CASE j <= n
    BY <1>5, <1>6, <1>7, <2>1
  <2>2. CASE j = n + 1
    <3>1. j - n = 1 /\ ~(j <= n) /\ j <= n + 1
      BY <2>2
    <3> QED
      BY <1>4, <1>5, <1>6, <1>7, <2>2, <3>1
  <2>3. CASE j > n + 1
    <3>1. ~(j <= n) /\ ~(j <= n + 1) /\ j - (n + 1) \in 1..(k - 1) /\ (j - (n + 1)) + 1 = j - n
      BY <2>3
    <3> QED
      BY <1>4, <1>6, <1>7, <3>1
  <2> QED
    BY <2>1, <2>2, <2>3
<1>9. a = b
  BY <1>6, <1>7, <1>8, SeqEqual
<1> QED
  BY <1>1, <1>2, <1>6, <1>7, <1>9 DEF All

\* The messages decoded are the first ones sent.
Pre(d, ms) == Len(d) <= Len(ms) /\ \A i \in 1..Len(d) : d[i] = ms[i]

\* What it means to be a beginning of the messages sent.
LEMMA PreFacts ==
    ASSUME NEW d \in Seq(Framed), NEW ms \in Seq(Framed), Pre(d, ms)
    PROVE  /\ Len(d) \in 0..Len(ms) /\ d = SubSeq(ms, 1, Len(d))
           /\ IsPrefix(d, ms)
           /\ Len(d) = Len(ms) => d = ms
           /\ \A m \in Framed : Pre(d, Append(ms, m))
           /\ \A m \in Framed : Len(d) < Len(ms) /\ m = ms[Len(d) + 1] => Pre(Append(d, m), ms)
<1>1. PICK n \in Nat, l \in Nat : n = Len(d) /\ l = Len(ms)
  OBVIOUS
<1>2. n <= l /\ \A i \in 1..n : d[i] = ms[i]
  BY <1>1 DEF Pre
<1>3. n \in 0..Len(ms) /\ n \in 0..Len(d)
  BY <1>1, <1>2
<1>4. PICK p : p = SubSeq(ms, 1, n)
  OBVIOUS
<1>5. p \in Seq(Framed) /\ Len(p) = n /\ \A i \in 1..n : p[i] = ms[i]
  BY <1>3, <1>4, SplitAt
<1>6. d = p
  BY <1>1, <1>2, <1>5, SeqEqual
<1>7. SubSeq(d, 1, n) = d
  BY <1>1, SubSeqFull
<1>8. IsPrefix(d, ms)
  BY <1>1, <1>2, <1>4, <1>6, <1>7 DEF IsPrefix
<1>9. n = l => d = ms
  BY <1>1, <1>2, SeqEqual
<1>10. ASSUME NEW m \in Framed PROVE Pre(d, Append(ms, m))
  <2>1. Len(Append(ms, m)) = l + 1 /\ \A i \in 1..l : Append(ms, m)[i] = ms[i]
    BY <1>1, AppendProperties
  <2>2. \A i \in 1..n : i \in 1..l
    BY <1>2
  <2> QED
    BY <1>1, <1>2, <2>1, <2>2 DEF Pre
<1>11. ASSUME NEW m \in Framed, n < l, m = ms[n + 1] PROVE Pre(Append(d, m), ms)
  <2>1. Len(Append(d, m)) = n + 1 /\ Append(d, m)[n + 1] = m /\ \A i \in 1..n : Append(d, m)[i] = d[i]
    BY <1>1, AppendProperties
  <2>2. ASSUME NEW i \in 1..(n + 1) PROVE Append(d, m)[i] = ms[i]
    <3>1. CASE i = n + 1
      BY <1>11, <2>1, <3>1
    <3>2. CASE i # n + 1
      <4>1. i \in 1..n
        BY <3>2
      <4> QED
        BY <1>2, <2>1, <4>1
    <3> QED
      BY <3>1, <3>2
  <2> QED
    BY <1>1, <1>11, <2>1, <2>2 DEF Pre
<1> QED
  BY <1>1, <1>3, <1>4, <1>6, <1>8, <1>9, <1>10, <1>11

\* Messages the encoder has sent.
Sendable(on, ms) == \A i \in 1..Len(ms) : IsMessage(on, ms[i]) /\ Encodes(ms[i])

\* The frame that the bytes under way begin with.
Upcoming(on, ms, d, buf, m, v, b, rest) ==
    /\ Len(d) < Len(ms) /\ m = ms[Len(d) + 1]
    /\ v = Len(b) /\ v \in 3..MaxFrame /\ v <= u64_MAX
    /\ decode_payload(on, b) = {m}
    /\ buf = put_varint[v] \o (b \o rest)
    /\ put_varint[v] \in Seq(Byte)

\* The bytes that are not decoded yet are those of the messages to come.
LEMMA NextFrame ==
    ASSUME NEW on, NEW ms \in Seq(Framed), Sendable(on, ms), NEW d \in Seq(Framed), Pre(d, ms),
           NEW buf \in Seq(Byte), Frames(ms) = Frames(d) \o buf
    PROVE  \/ d = ms /\ buf = << >>
           \/ \E m \in Framed, v \in Nat, b \in Seq(Byte), rest \in Seq(Byte) :
                Upcoming(on, ms, d, buf, m, v, b, rest)
<1>1. PICK n \in Nat, l \in Nat : n = Len(d) /\ l = Len(ms)
  OBVIOUS
<1>2. n \in 0..Len(ms) /\ d = SubSeq(ms, 1, n) /\ (n = l => d = ms)
  BY <1>1, PreFacts
<1>3. PICK a \in Seq(Byte), f \in Seq(Byte) :
        a = After(Encoded(ms), n) /\ f = Frames(d) /\ Frames(ms) = f \o a
  BY <1>2, FramesSplit
<1>4. buf = a
  <2>1. f \o buf = f \o a
    BY <1>3
  <2> QED
    BY <2>1, ConcatSimplifications
<1>5. CASE n = l
  BY <1>1, <1>2, <1>3, <1>4, <1>5, FramesSplit
<1>6. CASE n # l
  <2>1. n < l /\ n + 1 \in 1..l
    BY <1>1, <1>2, <1>6
  <2>2. PICK m \in Framed : m = ms[n + 1] /\ IsMessage(on, m) /\ Encodes(m)
    BY <1>1, <2>1 DEF Sendable
  <2>3. PICK r \in Seq(Byte) : a = encode(m) \o r
    BY <1>1, <1>2, <1>3, <2>1, <2>2, FramesSplit
  <2>4. PICK b \in Seq(Byte) : b = Payload(m)
    BY EncodeFramed
  <2>5. PICK v \in Nat : v = Len(b)
    OBVIOUS
  <2>6. PICK g \in Seq(Byte) : g = put_varint[v]
    BY PutVarint
  <2>7. v \in 3..MaxFrame /\ v <= u64_MAX /\ encode(m) = g \o b
    BY <2>4, <2>5, <2>6, EncodeFramed
  <2>8. decode_payload(on, b) = {m}
    BY <2>2, <2>4, PayloadPut
  <2>9. a = g \o (b \o r)
    <3>1. Joined(g, b, r)
      BY Joins
    <3> QED
      BY <2>3, <2>7, <3>1 DEF Joined
  <2>10. Upcoming(on, ms, d, buf, m, v, b, r)
    BY <1>1, <1>4, <2>1, <2>2, <2>5, <2>6, <2>7, <2>8, <2>9 DEF Upcoming
  <2> QED
    BY <2>10
<1> QED
  BY <1>5, <1>6

-----------------------------------------------------------------------------
(***************************************************************************)
(* The inductive invariant.                                                *)
(***************************************************************************)
Typed ==
    /\ stream \in {"control", "index", "transfer"} /\ origin \in {"encoder", "other"}
    /\ sender \in {"open", "finished", "failed"} /\ reader \in {"reading", "closed", "refused"}
    /\ written \in Seq(Byte) /\ wire \in Seq(Byte) /\ input \in Seq(Byte)
    /\ header \in Seq(Byte) /\ payload \in Seq(Byte)
    /\ sent \in Seq(Framed) /\ got \in Seq(Framed)
    /\ pending \in Seq(Framed) /\ decoded \in Seq(Framed)

\* A push decodes into its own list, which it hands over when its input is used.
Pushing ==
    /\ input = << >> => decoded = << >>
    /\ input # << >> => pending = << >> /\ reader = "reading"

\* The header is the beginning of a length, or the length of the payload.
Decoding ==
    /\ Len(header) <= MaxVarint
    /\ expected = None => payload = << >> /\ Continues(header)
    /\ expected # None => /\ expected \in 3..MaxFrame /\ Len(payload) < expected
                          /\ header = put_varint[expected]

\* Nothing of what was written is lost or made up.
Accounted ==
    reader # "refused" =>
        written = Frames(All(got, pending, decoded)) \o Buf(header, payload, input, wire)

\* What was written is what the messages sent make, and they are decoded in order.
InOrder ==
    /\ Sendable(stream, sent)
    /\ written = Frames(sent)
    /\ Pre(All(got, pending, decoded), sent)
    /\ reader # "refused"

\* What the end of a stream says of the messages returned.
Ended ==
    reader = "closed" =>
        /\ sender # "open" /\ pending = << >> /\ input = << >>
        /\ origin = "encoder" /\ sender = "finished" => got = sent

\* The inductive invariant.
CodecInv ==
    /\ Typed /\ Pushing /\ Decoding /\ Accounted /\ Ended
    /\ origin = "encoder" => InOrder

\* At first there are no bytes and no messages.
LEMMA CodecInit == Init => CodecInv
<1> SUFFICES ASSUME Init PROVE CodecInv
  OBVIOUS
<1>1. /\ sent = << >> /\ sender = "open" /\ input = << >> /\ header = << >> /\ expected = None
      /\ payload = << >> /\ decoded = << >> /\ pending = << >> /\ got = << >> /\ reader = "reading"
      /\ wire = written /\ stream \in {"control", "index", "transfer"}
      /\ (origin = "encoder" /\ written = << >>) \/ (origin = "other" /\ written \in RawStreams[stream])
  BY DEF Init
<1>2. << >> \in Seq(Byte) /\ << >> \in Seq(Framed) /\ Len(<< >>) = 0
  BY EmptySeq
<1>3. written \in Seq(Byte)
  BY <1>1, <1>2, MessagesAssumption
<1>4. Typed
  BY <1>1, <1>2, <1>3 DEF Typed
<1>5. Pushing /\ Ended
  BY <1>1 DEF Pushing, Ended
<1>6. Decoding
  BY <1>1, <1>2, CodecAssumption DEF Decoding, Continues
<1>7. All(<< >>, << >>, << >>) = << >>
  BY <1>2, AllReturn, ConcatEmptySeq
<1>8. Accounted
  <2>1. << >> \o written = written
    BY <1>3, ConcatEmptySeq
  <2>2. Buf(<< >>, << >>, << >>, written) = written
    BY <2>1 DEF Buf
  <2> QED
    BY <1>1, <1>7, <2>1, <2>2, FramesEmpty DEF Accounted
<1>9. origin = "encoder" => InOrder
  BY <1>1, <1>2, <1>7, FramesEmpty DEF InOrder, Sendable, Pre
<1> QED
  BY <1>4, <1>5, <1>6, <1>8, <1>9 DEF CodecInv

-----------------------------------------------------------------------------
(***************************************************************************)
(* One lemma for each action.                                              *)
(***************************************************************************)
LEMMA SendStep ==
    ASSUME CodecInv, NEW message \in Messages[stream], Send(message)
    PROVE  CodecInv'
<1>1. /\ origin = "encoder" /\ sender = "open"
      /\ stream' = stream /\ origin' = origin /\ input' = input /\ header' = header
      /\ expected' = expected /\ payload' = payload /\ decoded' = decoded
      /\ pending' = pending /\ got' = got /\ reader' = reader
  BY DEF Send, decoder
<1>2. Typed /\ Pushing /\ Decoding /\ Accounted /\ Ended /\ InOrder
  BY <1>1 DEF CodecInv
<1>3. reader # "closed"
  BY <1>1, <1>2 DEF Ended
<1>4. Pushing' /\ Decoding'
  BY <1>1, <1>2 DEF Pushing, Decoding
<1>5. Ended'
  BY <1>1, <1>3 DEF Ended
<1>6. CASE Encodes(message) /\ Len(encode(message)) <= MaxFrame
  <2>1. /\ sent' = Append(sent, message) /\ wire' = wire \o encode(message)
        /\ written' = written \o encode(message) /\ sender' = sender
    BY <1>6 DEF Send
  <2>2. IsMessage(stream, message)
    BY <1>2, MessagesAssumption DEF Typed
  <2>3. message \in Framed
    BY <1>6, <2>2, SentFramed
  <2>4. PICK e \in Seq(Byte) : e = encode(message)
    BY <2>3, EncodeFramed
  <2>5. sent' \in Seq(Framed) /\ Frames(sent') = Frames(sent) \o e
    BY <1>2, <2>1, <2>3, <2>4, FramesAppend DEF Typed
  <2>6. wire' \in Seq(Byte) /\ written' \in Seq(Byte)
    <3>1. Sized(wire, e) /\ Sized(written, e)
      BY <1>2, Sizes DEF Typed
    <3> QED
      BY <2>1, <2>4, <3>1 DEF Sized
  <2>7. Typed'
    BY <1>1, <1>2, <2>1, <2>5, <2>6 DEF Typed
  <2>8. PICK a : a = All(got, pending, decoded)
    OBVIOUS
  <2>9. a \in Seq(Framed) /\ All(got', pending', decoded') = a
    BY <1>1, <1>2, <2>8, AllType DEF Typed
  <2>10. Accounted'
    <3> SUFFICES ASSUME reader # "refused"
                 PROVE  written' = Frames(a) \o Buf(header, payload, input, wire')
      BY <1>1, <2>9 DEF Accounted
    <3>1. PICK f \in Seq(Byte), b \in Seq(Byte) :
            f = Frames(a) /\ b = Buf(header, payload, input, wire)
      BY <1>2, <2>9, EncodedType, BufType DEF Typed
    <3>2. written = f \o b
      BY <1>2, <2>8, <3>1 DEF Accounted
    <3>3. Buf(header, payload, input, wire') = b \o e
      <4>1. Buf(header, payload, input, wire \o e) = Buf(header, payload, input, wire) \o e
        <5>1. Behind(header, payload, input, wire, e)
          BY <1>2, BufSend DEF Typed
        <5> QED
          BY <5>1 DEF Behind
      <4> QED
        BY <2>1, <2>4, <3>1, <4>1
    <3>4. Joined(f, b, e)
      BY Joins
    <3> QED
      BY <2>1, <2>4, <3>1, <3>2, <3>3, <3>4 DEF Joined
  <2>11. InOrder'
    <3>1. Sendable(stream, sent')
      <4>1. PICK n \in Nat : n = Len(sent)
        BY <1>2 DEF Typed
      <4>2. Len(sent') = n + 1 /\ sent'[n + 1] = message /\ \A i \in 1..n : sent'[i] = sent[i]
        BY <1>2, <2>1, <2>3, <4>1, AppendProperties DEF Typed
      <4>3. ASSUME NEW i \in 1..(n + 1) PROVE IsMessage(stream, sent'[i]) /\ Encodes(sent'[i])
        <5>1. CASE i = n + 1
          BY <1>6, <2>2, <4>2, <5>1
        <5>2. CASE i # n + 1
          <6>1. i \in 1..n
            BY <5>2
          <6> QED
            BY <1>2, <4>1, <4>2, <6>1 DEF InOrder, Sendable
        <5> QED
          BY <5>1, <5>2
      <4> QED
        BY <4>2, <4>3 DEF Sendable
    <3>2. written' = Frames(sent')
      BY <1>2, <2>1, <2>4, <2>5 DEF InOrder
    <3>3. Pre(a, sent')
      <4>1. Pre(a, sent)
        BY <1>2, <2>8 DEF InOrder
      <4> QED
        BY <1>2, <2>1, <2>3, <2>9, <4>1, PreFacts DEF Typed
    <3> QED
      BY <1>1, <1>2, <2>9, <3>1, <3>2, <3>3 DEF InOrder
  <2> QED
    BY <1>4, <1>5, <2>7, <2>10, <2>11 DEF CodecInv
<1>7. CASE ~(Encodes(message) /\ Len(encode(message)) <= MaxFrame)
  <2>1. sender' = "failed" /\ sent' = sent /\ written' = written /\ wire' = wire
    BY <1>7 DEF Send
  <2>2. Typed'
    BY <1>1, <1>2, <2>1 DEF Typed
  <2>3. Accounted' /\ InOrder'
    BY <1>1, <1>2, <2>1 DEF Accounted, InOrder
  <2> QED
    BY <1>4, <1>5, <2>2, <2>3 DEF CodecInv
<1> QED
  BY <1>6, <1>7

\* The encoder ends its stream.
LEMMA FinishStep ==
    ASSUME CodecInv, Finish
    PROVE  CodecInv'
<1>1. /\ sender = "open" /\ sender' \in {"finished", "failed"}
      /\ stream' = stream /\ origin' = origin /\ input' = input /\ header' = header
      /\ expected' = expected /\ payload' = payload /\ decoded' = decoded
      /\ pending' = pending /\ got' = got /\ reader' = reader
      /\ sent' = sent /\ written' = written /\ wire' = wire
  BY DEF Finish, decoder
<1>2. Typed /\ Pushing /\ Decoding /\ Accounted /\ Ended /\ (origin = "encoder" => InOrder)
  BY DEF CodecInv
<1>3. Typed'
  BY <1>1, <1>2 DEF Typed
<1>4. Pushing' /\ Decoding' /\ Accounted'
  BY <1>1, <1>2 DEF Pushing, Decoding, Accounted
<1>5. Ended'
  BY <1>1, <1>2 DEF Ended
<1>6. origin' = "encoder" => InOrder'
  BY <1>1, <1>2 DEF InOrder
<1> QED
  BY <1>3, <1>4, <1>5, <1>6 DEF CodecInv

\* The stream brings its next bytes.
LEMMA ReceiveStep ==
    ASSUME CodecInv, Receive
    PROVE  CodecInv'
<1>1. /\ reader = "reading" /\ pending = << >> /\ input = << >>
      /\ stream' = stream /\ origin' = origin /\ header' = header
      /\ expected' = expected /\ payload' = payload /\ decoded' = decoded
      /\ pending' = pending /\ got' = got /\ reader' = reader
      /\ sent' = sent /\ written' = written /\ sender' = sender
  BY DEF Receive, decoder, outgoing
<1>2. Typed /\ Pushing /\ Decoding /\ Accounted /\ Ended /\ (origin = "encoder" => InOrder)
  BY DEF CodecInv
<1>3. PICK n \in 1..BufferSize :
        n <= Len(wire) /\ input' = SubSeq(wire, 1, n) /\ wire' = SubSeq(wire, n + 1, Len(wire))
  BY DEF Receive
<1>4. n \in 0..Len(wire) /\ n # 0
  <2>1. Len(wire) \in Nat /\ BufferSize \in Nat
    BY <1>2, CodecAssumption DEF Typed
  <2> QED
    BY <1>3, <2>1
<1>5. /\ input' \in Seq(Byte) /\ wire' \in Seq(Byte) /\ Len(input') = n
      /\ Buf(header, payload, input', wire') = Buf(header, payload, input, wire)
  BY <1>1, <1>2, <1>3, <1>4, BufReceive DEF Typed
<1>6. Typed'
  BY <1>1, <1>2, <1>5 DEF Typed
<1>7. Pushing'
  <2>1. input' # << >>
    BY <1>4, <1>5
  <2> QED
    BY <1>1, <2>1 DEF Pushing
<1>8. Decoding' /\ Ended'
  BY <1>1, <1>2 DEF Decoding, Ended
<1>9. Accounted'
  BY <1>1, <1>2, <1>5 DEF Accounted
<1>10. origin' = "encoder" => InOrder'
  BY <1>1, <1>2 DEF InOrder
<1> QED
  BY <1>6, <1>7, <1>8, <1>9, <1>10 DEF CodecInv

\* The caller takes a message that is already decoded.
LEMMA TakeStep ==
    ASSUME CodecInv, Take
    PROVE  CodecInv'
<1>1. /\ reader = "reading" /\ pending # << >>
      /\ got' = Append(got, Head(pending)) /\ pending' = Tail(pending)
      /\ stream' = stream /\ origin' = origin /\ header' = header
      /\ expected' = expected /\ payload' = payload /\ decoded' = decoded
      /\ input' = input /\ wire' = wire /\ reader' = reader
      /\ sent' = sent /\ written' = written /\ sender' = sender
  BY DEF Take, decoder, outgoing
<1>2. Typed /\ Pushing /\ Decoding /\ Accounted /\ Ended /\ (origin = "encoder" => InOrder)
  BY DEF CodecInv
<1>3. /\ got' \in Seq(Framed) /\ pending' \in Seq(Framed)
      /\ All(got', pending', decoded') = All(got, pending, decoded)
  BY <1>1, <1>2, AllTake DEF Typed
<1>4. Typed'
  BY <1>1, <1>2, <1>3 DEF Typed
<1>5. Pushing' /\ Decoding' /\ Ended'
  BY <1>1, <1>2 DEF Pushing, Decoding, Ended
<1>6. Accounted'
  BY <1>1, <1>2, <1>3 DEF Accounted
<1>7. origin' = "encoder" => InOrder'
  BY <1>1, <1>2, <1>3 DEF InOrder
<1> QED
  BY <1>4, <1>5, <1>6, <1>7 DEF CodecInv

\* With an encoder on the other side, what the reader holds begins the next frame.
LEMMA UpcomingNow ==
    ASSUME CodecInv, origin = "encoder"
    PROVE  \/ All(got, pending, decoded) = sent /\ Buf(header, payload, input, wire) = << >>
           \/ \E m \in Framed, v \in Nat, b \in Seq(Byte), rest \in Seq(Byte) :
                Upcoming(stream, sent, All(got, pending, decoded), Buf(header, payload, input, wire),
                         m, v, b, rest)
<1>1. Typed /\ Accounted /\ InOrder
  BY DEF CodecInv
<1>2. PICK a \in Seq(Framed), u \in Seq(Byte) :
        a = All(got, pending, decoded) /\ u = Buf(header, payload, input, wire)
  BY <1>1, AllType, BufType DEF Typed
<1>3. sent \in Seq(Framed) /\ Sendable(stream, sent) /\ Pre(a, sent) /\ Frames(sent) = Frames(a) \o u
  BY <1>1, <1>2 DEF Typed, InOrder, Accounted
<1> QED
  BY <1>2, <1>3, NextFrame

\* The payload that is complete is that of the next message.
LEMMA UpcomingPayload ==
    ASSUME CodecInv, origin = "encoder", expected # None, NEW bytes \in Seq(Byte), NEW r \in Seq(Byte),
           Len(bytes) = expected,
           Buf(header, bytes, r, wire) = Buf(header, payload, input, wire)
    PROVE  \E m \in Framed : /\ decode_payload(stream, bytes) = {m}
                             /\ Len(All(got, pending, decoded)) < Len(sent)
                             /\ m = sent[Len(All(got, pending, decoded)) + 1]
<1>1. Typed /\ Decoding
  BY DEF CodecInv
<1>2. PICK x \in Nat : x = expected /\ x \in 3..MaxFrame /\ x <= u64_MAX /\ header = put_varint[x]
  <2>1. expected \in 3..MaxFrame /\ header = put_varint[expected]
    BY <1>1 DEF Decoding
  <2> QED
    BY <2>1, Limits
<1>3. PICK w \in Seq(Byte) : w = r \o wire
  <2>1. Sized(r, wire)
    BY <1>1, Sizes DEF Typed
  <2> QED
    BY <2>1 DEF Sized
<1>4. Sized(bytes, w)
  BY Sizes
<1>5. PICK y \in Seq(Byte) : y = bytes \o w
  BY <1>4 DEF Sized
<1>6. Buf(header, payload, input, wire) = put_varint[x] \o y
  BY <1>2, <1>3, <1>5 DEF Buf
<1>7. ~(Buf(header, payload, input, wire) = << >>)
  <2>1. put_varint[x] \in Seq(Byte) /\ Len(put_varint[x]) \in Nat \ {0}
    BY PutCanonic DEF Canonic
  <2>2. Sized(put_varint[x], y)
    BY <2>1, Sizes
  <2>3. Len(put_varint[x] \o y) # 0
    BY <2>1, <2>2 DEF Sized
  <2> QED
    BY <1>6, <2>3
<1>8. PICK m \in Framed, v \in Nat, b \in Seq(Byte), rest \in Seq(Byte) :
        Upcoming(stream, sent, All(got, pending, decoded), Buf(header, payload, input, wire), m, v, b, rest)
  BY <1>7, UpcomingNow
<1>9. Sized(b, rest)
  BY Sizes
<1>10. PICK z \in Seq(Byte) : z = b \o rest
  BY <1>9 DEF Sized
<1>11. put_varint[x] \o y = put_varint[v] \o z /\ v <= u64_MAX /\ v = Len(b)
  BY <1>6, <1>8, <1>10 DEF Upcoming
<1>12. x = v /\ y = z
  <2>1. SameStart(x, y, v, z)
    BY <1>11 DEF SameStart
  <2> QED
    BY <1>2, <1>11, <2>1, SameLength
<1>13. bytes = b
  <2>1. bytes = SubSeq(y, 1, Len(bytes))
    BY <1>4, <1>5 DEF Sized
  <2>2. b = SubSeq(z, 1, Len(b))
    BY <1>9, <1>10 DEF Sized
  <2> QED
    BY <1>2, <1>11, <1>12, <2>1, <2>2
<1> QED
  BY <1>8, <1>13 DEF Upcoming

\* The stream has ended: between two frames or within one.
LEMMA ClosedStep ==
    ASSUME CodecInv, Closed
    PROVE  CodecInv'
<1>1. /\ reader = "reading" /\ pending = << >> /\ input = << >> /\ reader' = "closed"
      /\ sender = "failed" \/ (sender = "finished" /\ wire = << >>)
      /\ stream' = stream /\ origin' = origin /\ header' = header
      /\ expected' = expected /\ payload' = payload /\ decoded' = decoded
      /\ pending' = pending /\ got' = got /\ input' = input /\ wire' = wire
      /\ sent' = sent /\ written' = written /\ sender' = sender
  BY DEF Closed, decoder, outgoing
<1>2. Typed /\ Pushing /\ Decoding /\ Accounted /\ Ended /\ (origin = "encoder" => InOrder)
  BY DEF CodecInv
<1>3. Typed'
  BY <1>1, <1>2 DEF Typed
<1>4. Pushing' /\ Decoding' /\ Accounted'
  BY <1>1, <1>2 DEF Pushing, Decoding, Accounted
<1>5. ASSUME origin = "encoder", sender = "finished" PROVE got = sent
  <2>1. All(got, pending, decoded) = got
    <3>1. decoded = << >>
      BY <1>1, <1>2 DEF Pushing
    <3>2. got \in Seq(Framed) /\ << >> \in Seq(Framed)
      BY <1>2, EmptySeq DEF Typed
    <3>3. got \o << >> = got
      BY <3>2, ConcatEmptySeq
    <3> QED
      BY <1>1, <3>1, <3>2, <3>3, AllReturn
  <2>2. Buf(header, payload, input, wire) = header \o payload
    <3>1. input = << >> /\ wire = << >>
      BY <1>1, <1>5
    <3>2. << >> \o << >> = << >> /\ payload \o << >> = payload
      BY <1>2, EmptySeq, ConcatEmptySeq DEF Typed
    <3> QED
      BY <3>1, <3>2 DEF Buf
  <2>3. ASSUME NEW m \in Framed, NEW v \in Nat, NEW b \in Seq(Byte), NEW rest \in Seq(Byte),
               Upcoming(stream, sent, got, header \o payload, m, v, b, rest)
        PROVE  FALSE
    <3>1. v <= u64_MAX /\ v = Len(b) /\ header \o payload = put_varint[v] \o (b \o rest)
      BY <2>3 DEF Upcoming
    <3>2. Sized(b, rest)
      BY Sizes
    <3>3. PICK z \in Seq(Byte) : z = b \o rest /\ Len(z) = Len(b) + Len(rest) /\ Len(rest) \in Nat
      BY <3>2 DEF Sized
    <3>4. CASE expected = None
      <4>1. payload = << >> /\ Continues(header) /\ header \in Seq(Byte)
        BY <1>2, <3>4 DEF Decoding, Typed
      <4>2. header = put_varint[v] \o z
        BY <3>1, <3>3, <4>1, ConcatEmptySeq
      <4>3. LengthIn(put_varint[v], header)
        BY <4>2, LengthBytes
      <4>4. PICK k \in 1..Len(header) : header[k] < Radix
        BY <4>3 DEF LengthIn
      <4>5. PICK c \in Byte : c = header[k] /\ c >= Radix
        BY <4>1 DEF Continues
      <4>6. c \in Nat /\ Radix \in Nat
        BY Limits
      <4> QED
        BY <4>4, <4>5, <4>6
    <3>5. CASE expected # None
      <4>1. expected \in 3..MaxFrame /\ Len(payload) < expected /\ header = put_varint[expected]
        BY <1>2, <3>5 DEF Decoding
      <4>3. expected \in Nat /\ expected <= u64_MAX
        BY <4>1, Limits
      <4>4. SameStart(expected, payload, v, z)
        BY <3>1, <3>3, <4>1 DEF SameStart
      <4>5. payload \in Seq(Byte)
        BY <1>2 DEF Typed
      <4>6. expected = v /\ payload = z
        BY <3>1, <4>3, <4>4, <4>5, SameLength
      <4> QED
        BY <3>1, <3>3, <4>1, <4>6
    <3> QED
      BY <3>4, <3>5
  <2> QED
    BY <1>5, <2>1, <2>2, <2>3, UpcomingNow
<1>6. Ended'
  BY <1>1, <1>5 DEF Ended
<1>7. origin' = "encoder" => InOrder'
  BY <1>1, <1>2 DEF InOrder
<1> QED
  BY <1>3, <1>4, <1>6, <1>7 DEF CodecInv

\* What push has decoded is handed over when its input is used.
LEMMA ReturnStep ==
    ASSUME CodecInv, input # << >>, NEW ms \in Seq(Framed), NEW r \in Seq(Byte),
           Return(ms, r), got' = got, reader' = reader
    PROVE  /\ input' = r /\ pending' \in Seq(Framed) /\ decoded' \in Seq(Framed)
           /\ All(got', pending', decoded') = got \o ms
           /\ All(got, pending, decoded) = got \o decoded
           /\ Pushing'
<1>1. Typed /\ Pushing
  BY DEF CodecInv
<1>2. pending = << >> /\ reader = "reading" /\ got \in Seq(Framed) /\ decoded \in Seq(Framed)
  BY <1>1 DEF Typed, Pushing
<1>3. << >> \in Seq(Framed)
  BY EmptySeq
<1>4. CASE r = << >>
  <2>1. input' = << >> /\ decoded' = << >> /\ pending' = ms
    BY <1>4 DEF Return
  <2> QED
    BY <1>2, <1>3, <1>4, <2>1, AllReturn DEF Pushing
<1>5. CASE r # << >>
  <2>1. input' = r /\ decoded' = ms /\ pending' = << >>
    BY <1>2, <1>5 DEF Return
  <2> QED
    BY <1>2, <1>3, <1>5, <2>1, AllReturn DEF Pushing
<1> QED
  BY <1>4, <1>5

\* A push that fails, of bytes that encode did not write.
LEMMA RefuseStep ==
    ASSUME CodecInv, origin # "encoder", Refuse, UNCHANGED <<stream, outgoing, wire, got>>
    PROVE  CodecInv'
<1>1. /\ reader' = "refused" /\ input' = << >> /\ decoded' = << >>
      /\ header' = << >> /\ expected' = None /\ payload' = << >> /\ pending' = pending
      /\ stream' = stream /\ origin' = origin /\ wire' = wire /\ got' = got
      /\ sent' = sent /\ written' = written /\ sender' = sender
  BY DEF Refuse, outgoing
<1>2. Typed
  BY DEF CodecInv
<1>3. << >> \in Seq(Byte) /\ << >> \in Seq(Framed) /\ Len(<< >>) = 0
  BY EmptySeq
<1>4. Typed'
  BY <1>1, <1>2, <1>3 DEF Typed
<1>5. Pushing' /\ Ended' /\ Accounted'
  BY <1>1 DEF Pushing, Ended, Accounted
<1>6. Decoding'
  BY <1>1, <1>3, CodecAssumption DEF Decoding, Continues
<1> QED
  BY <1>1, <1>4, <1>5, <1>6 DEF CodecInv

\* What a push leaves alone.
LEMMA PushRest ==
    ASSUME CodecInv, input # << >>, reader' = reader, UNCHANGED <<stream, outgoing, wire, got>>,
           input' \in Seq(Byte), header' \in Seq(Byte), payload' \in Seq(Byte),
           pending' \in Seq(Framed), decoded' \in Seq(Framed)
    PROVE  Typed' /\ Ended'
<1>1. /\ stream' = stream /\ origin' = origin /\ wire' = wire /\ got' = got
      /\ sent' = sent /\ written' = written /\ sender' = sender
  BY DEF outgoing
<1>2. Typed /\ Pushing
  BY DEF CodecInv
<1>3. reader = "reading"
  BY <1>2 DEF Pushing
<1>4. Typed'
  BY <1>1, <1>2 DEF Typed
<1> QED
  BY <1>3, <1>4 DEF Ended

\* One byte of a length.
LEMMA PushHeaderStep ==
    ASSUME CodecInv, PushHeader
    PROVE  CodecInv'
<1>1. /\ input # << >> /\ expected = None /\ UNCHANGED <<stream, outgoing, wire, got>>
      /\ stream' = stream /\ origin' = origin /\ wire' = wire /\ got' = got
      /\ sent' = sent /\ written' = written /\ sender' = sender
  BY DEF PushHeader, outgoing
<1>2. Typed /\ Pushing /\ Decoding /\ Accounted /\ (origin = "encoder" => InOrder)
  BY DEF CodecInv
<1>3. payload = << >> /\ Continues(header) /\ Len(header) <= MaxVarint
  BY <1>1, <1>2 DEF Decoding
<1>4. PICK c \in Byte, t \in Seq(Byte), x \in Seq(Byte), y \in Seq(Byte) :
        /\ c = Head(input) /\ t = Tail(input) /\ x = Append(header, c) /\ y = t \o wire
        /\ Buf(x, << >>, t, wire) = x \o y
        /\ Buf(header, << >>, input, wire) = x \o y
  <2>1. header \in Seq(Byte) /\ input \in Seq(Byte) /\ wire \in Seq(Byte)
    BY <1>2 DEF Typed
  <2>2. PICK t : t = Tail(input)
    OBVIOUS
  <2>3. PICK c : c = Head(input)
    OBVIOUS
  <2>5. HeaderMoved(header, input, wire)
    BY <1>1, <2>1, BufHeader
  <2>4. /\ c \in Byte /\ t \in Seq(Byte) /\ Append(header, c) \in Seq(Byte)
        /\ t \o wire \in Seq(Byte)
        /\ Buf(Append(header, c), << >>, t, wire) = Append(header, c) \o (t \o wire)
        /\ Buf(header, << >>, input, wire) = Append(header, c) \o (t \o wire)
    BY <2>2, <2>3, <2>5, Zenon DEF HeaderMoved
  <2> QED
    BY <2>2, <2>3, <2>4, Zenon
<1>5. PICK n \in Nat : n = Len(header)
  BY <1>2 DEF Typed
<1>6. /\ Len(x) = n + 1 /\ x[n + 1] = c /\ \A i \in 1..n : x[i] >= Radix
  <2>1. header \in Seq(Byte)
    BY <1>2 DEF Typed
  <2> QED
    BY <1>3, <1>4, <1>5, <2>1, HeaderBytes
<1>7. MaxVarint \in Nat /\ decoded \in Seq(Framed) /\ payload \in Seq(Byte) /\ header \in Seq(Byte)
  BY <1>2, CodecAssumption DEF Typed
<1> DEFINE lengths == {length \in parse_varint(x) : check_frame_length(length.value)}
<1>8. \/ /\ n < MaxVarint /\ c >= Radix
         /\ header' = x /\ Return(decoded, t) /\ UNCHANGED <<expected, payload, reader>>
      \/ /\ n < MaxVarint /\ c < Radix
         /\ \E length \in lengths :
              /\ header' = x /\ expected' = length.value
              /\ Return(decoded, t) /\ UNCHANGED <<payload, reader>>
      \/ /\ ~(n < MaxVarint) \/ (c < Radix /\ lengths = {})
         /\ Refuse
  BY <1>4, <1>5 DEF PushHeader, HeaderRoom
<1> HIDE DEF lengths
<1>9. ASSUME header' = x, Return(decoded, t), UNCHANGED <<payload, reader>>
      PROVE  /\ Typed' /\ Pushing' /\ Ended' /\ Accounted' /\ (origin' = "encoder" => InOrder')
  <2>1. /\ input' = t /\ pending' \in Seq(Framed) /\ decoded' \in Seq(Framed)
        /\ All(got', pending', decoded') = All(got, pending, decoded)
        /\ Pushing'
    BY <1>1, <1>7, <1>9, ReturnStep
  <2>2. Typed' /\ Ended'
    BY <1>1, <1>7, <1>9, <2>1, PushRest
  <2>3. Buf(header', payload', input', wire') = Buf(header, payload, input, wire)
    BY <1>1, <1>3, <1>4, <1>9, <2>1
  <2>4. Accounted'
    BY <1>1, <1>2, <1>9, <2>1, <2>3 DEF Accounted
  <2>5. origin' = "encoder" => InOrder'
    BY <1>1, <1>2, <1>9, <2>1 DEF InOrder
  <2> QED
    BY <2>1, <2>2, <2>4, <2>5
<1>10. CASE /\ n < MaxVarint /\ c >= Radix
            /\ header' = x /\ Return(decoded, t) /\ UNCHANGED <<expected, payload, reader>>
  <2>1. \A i \in 1..(n + 1) : x[i] >= Radix
    <3> SUFFICES ASSUME NEW i \in 1..(n + 1) PROVE x[i] >= Radix
      OBVIOUS
    <3>1. CASE i = n + 1
      BY <1>6, <1>10, <3>1
    <3>2. CASE i # n + 1
      <4>1. i \in 1..n
        BY <3>2
      <4> QED
        BY <1>6, <4>1
    <3> QED
      BY <3>1, <3>2
  <2>2. Decoding'
    <3>1. Continues(x) /\ Len(x) <= MaxVarint
      BY <1>6, <1>7, <1>10, <2>1 DEF Continues
    <3> QED
      BY <1>1, <1>3, <1>10, <3>1 DEF Decoding
  <2> QED
    BY <1>9, <1>10, <2>2 DEF CodecInv
<1>11. CASE /\ n < MaxVarint /\ c < Radix
            /\ \E length \in lengths :
                 /\ header' = x /\ expected' = length.value
                 /\ Return(decoded, t) /\ UNCHANGED <<payload, reader>>
  <2>1. PICK length \in lengths :
                 /\ header' = x /\ expected' = length.value
                 /\ Return(decoded, t) /\ UNCHANGED <<payload, reader>>
    BY <1>11
  <2>2. length \in parse_varint(x) /\ length.value \in 3..MaxFrame
    BY DEF lengths, check_frame_length, KindBytes, VersionBytes
  <2>3. x = put_varint[length.value]
    BY <1>3, <1>4, <1>7, <2>2, HeaderEnd, ZenonT(60)
  <2>4. Len(x) <= MaxVarint
    BY <1>6, <1>7, <1>11
  <2>5. expected' \in 3..MaxFrame /\ expected' # None /\ Len(payload') < expected'
    <3>1. PICK v \in 3..MaxFrame : v = expected'
      BY <2>1, <2>2
    <3>2. v \in Nat /\ v # -1 /\ 0 < v
      BY Limits
    <3>3. Len(payload') = 0
      BY <1>3, <2>1
    <3> QED
      BY <3>1, <3>2, <3>3 DEF None
  <2>6. Decoding'
    BY <2>1, <2>3, <2>4, <2>5 DEF Decoding
  <2> QED
    BY <1>9, <2>1, <2>6 DEF CodecInv
<1>12. CASE /\ ~(n < MaxVarint) \/ (c < Radix /\ lengths = {})
            /\ Refuse
  <2>1. ASSUME origin = "encoder" PROVE FALSE
    <3>1. Sized(x, y)
      BY Sizes
    <3>2. Buf(header, payload, input, wire) = x \o y
      BY <1>3, <1>4
    <3>3. x \o y # << >>
      <4>1. Len(x \o y) # 0
        BY <1>6, <3>1 DEF Sized
      <4> QED
        BY <4>1
    <3>4. PICK m \in Framed, v \in Nat, b \in Seq(Byte), rest \in Seq(Byte) :
            Upcoming(stream, sent, All(got, pending, decoded), x \o y, m, v, b, rest)
      BY <2>1, <3>2, <3>3, UpcomingNow
    <3>5. Sized(b, rest)
      BY Sizes
    <3>6. PICK z \in Seq(Byte) : z = b \o rest
      BY <3>5 DEF Sized
    <3>7. v \in 3..MaxFrame /\ v <= u64_MAX /\ x \o y = put_varint[v] \o z
      BY <3>4, <3>6 DEF Upcoming
    <3>8. n < MaxVarint /\ (c < Radix => x = put_varint[v])
      <4>1. BeginsLength(x, y, v, z)
        BY <3>7 DEF BeginsLength
      <4>2. HeaderPlus(header, c, x)
        BY <1>3, <1>4 DEF HeaderPlus
      <4> QED
        BY <1>5, <1>7, <3>7, <4>1, <4>2, HeaderOfLength
    <3>9. c < Radix => lengths # {}
      <4> SUFFICES ASSUME c < Radix PROVE lengths # {}
        OBVIOUS
      <4>1. << >> \in Seq(Byte) /\ x \o << >> = x
        BY EmptySeq, ConcatEmptySeq
      <4>2. put_varint[v] \o << >> = x
        BY <3>8, <4>1
      <4>3. Pair(v, << >>) \in parse_varint(x)
        BY <3>7, <4>1, <4>2, ParsePut
      <4>4. Pair(v, << >>).value = v
        BY DEF Pair
      <4>5. Pair(v, << >>) \in lengths
        BY <3>7, <4>3, <4>4 DEF lengths, check_frame_length, KindBytes, VersionBytes
      <4> QED
        BY <4>5
    <3> QED
      BY <1>12, <3>8, <3>9
  <2> QED
    BY <1>1, <1>12, <2>1, RefuseStep
<1> QED
  BY <1>8, <1>10, <1>11, <1>12

\* Bytes of a payload.
LEMMA PushPayloadStep ==
    ASSUME CodecInv, PushPayload
    PROVE  CodecInv'
<1>1. /\ input # << >> /\ expected # None /\ UNCHANGED <<stream, outgoing, wire, got>>
      /\ stream' = stream /\ origin' = origin /\ wire' = wire /\ got' = got
      /\ sent' = sent /\ written' = written /\ sender' = sender
  BY DEF PushPayload, outgoing
<1>2. Typed /\ Pushing /\ Decoding /\ Accounted /\ (origin = "encoder" => InOrder)
  BY DEF CodecInv
<1>3. reader = "reading"
  BY <1>1, <1>2 DEF Pushing
<1>4. /\ header \in Seq(Byte) /\ payload \in Seq(Byte) /\ input \in Seq(Byte) /\ wire \in Seq(Byte)
      /\ got \in Seq(Framed) /\ decoded \in Seq(Framed) /\ sent \in Seq(Framed)
      /\ pending \in Seq(Framed)
  BY <1>2 DEF Typed
<1>5. PICK e \in Nat : e = expected /\ e \in 3..MaxFrame /\ header = put_varint[e] /\ Len(payload) < e
  <2>1. expected \in 3..MaxFrame /\ header = put_varint[expected] /\ Len(payload) < expected
    BY <1>1, <1>2 DEF Decoding
  <2>2. expected \in Nat
    BY <2>1, Limits
  <2> QED
    BY <2>1, <2>2
<1>6. PICK p \in Nat, l \in Nat : p = Len(payload) /\ l = Len(input) /\ l # 0 /\ p < e
  BY <1>1, <1>4, <1>5, EmptySeq
<1>7. PICK n \in 0..l : n = (IF e - p < l THEN e - p ELSE l) /\ n <= e - p
  BY <1>6
<1>8. PICK bytes \in Seq(Byte), r \in Seq(Byte) :
        /\ bytes = payload \o SubSeq(input, 1, n) /\ r = SubSeq(input, n + 1, Len(input))
        /\ Len(bytes) = p + n
        /\ Buf(header, bytes, r, wire) = Buf(header, payload, input, wire)
  <2>1. n \in 0..Len(input)
    BY <1>6, <1>7
  <2>2. PICK q, r : PayloadMoved(header, payload, input, wire, n, q, r)
    BY <1>4, <2>1, BufPayload
  <2> QED
    BY <1>6, <2>2 DEF PayloadMoved
<1>9. \/ /\ Len(bytes) < expected
         /\ payload' = bytes /\ Return(decoded, r) /\ UNCHANGED <<header, expected, reader>>
      \/ /\ Len(bytes) = expected
         /\ \E message \in decode_payload(stream, bytes) :
              Return(Append(decoded, message), r) /\ reset /\ UNCHANGED reader
      \/ /\ Len(bytes) = expected /\ decode_payload(stream, bytes) = {}
         /\ Refuse
  <2> DEFINE taken == IF expected - Len(payload) < Len(input) THEN expected - Len(payload) ELSE Len(input)
  <2>1. taken = n
    BY <1>5, <1>6, <1>7
  <2>2. \/ /\ Len(payload \o SubSeq(input, 1, taken)) < expected
           /\ payload' = payload \o SubSeq(input, 1, taken)
           /\ Return(decoded, SubSeq(input, taken + 1, Len(input)))
           /\ UNCHANGED <<header, expected, reader>>
        \/ /\ Len(payload \o SubSeq(input, 1, taken)) = expected
           /\ \E message \in decode_payload(stream, payload \o SubSeq(input, 1, taken)) :
                /\ Return(Append(decoded, message), SubSeq(input, taken + 1, Len(input)))
                /\ reset /\ UNCHANGED reader
        \/ /\ Len(payload \o SubSeq(input, 1, taken)) = expected
           /\ decode_payload(stream, payload \o SubSeq(input, 1, taken)) = {}
           /\ Refuse
    BY DEF PushPayload
  <2> HIDE DEF taken
  <2> QED
    BY <1>8, <2>1, <2>2
<1>10. PICK a \in Seq(Framed) : a = All(got, pending, decoded)
  BY <1>4, AllType
<1>11. CASE /\ Len(bytes) < expected
            /\ payload' = bytes /\ Return(decoded, r) /\ UNCHANGED <<header, expected, reader>>
  <2>1. /\ input' = r /\ pending' \in Seq(Framed) /\ decoded' \in Seq(Framed)
        /\ All(got', pending', decoded') = All(got, pending, decoded)
        /\ Pushing'
    BY <1>1, <1>4, <1>11, ReturnStep
  <2>2. Typed' /\ Ended'
    BY <1>1, <1>4, <1>11, <2>1, PushRest
  <2>3. Decoding'
    BY <1>2, <1>1, <1>11 DEF Decoding
  <2>4. Accounted'
    BY <1>1, <1>2, <1>8, <1>11, <2>1 DEF Accounted
  <2>5. origin' = "encoder" => InOrder'
    BY <1>1, <1>2, <1>11, <2>1 DEF InOrder
  <2> QED
    BY <2>1, <2>2, <2>3, <2>4, <2>5 DEF CodecInv
<1>12. CASE /\ Len(bytes) = expected
            /\ \E message \in decode_payload(stream, bytes) :
                 Return(Append(decoded, message), r) /\ reset /\ UNCHANGED reader
  <2>1. PICK m \in decode_payload(stream, bytes) :
          Return(Append(decoded, m), r) /\ reset /\ UNCHANGED reader
    BY <1>12
  <2>2. m \in Framed /\ Payload(m) = bytes
    BY <1>5, <1>12, DecodedFramed
  <2>3. Append(decoded, m) \in Seq(Framed) /\ got \o Append(decoded, m) = Append(got \o decoded, m)
    BY <1>4, <2>2, AllAppend
  <2>4. /\ input' = r /\ pending' \in Seq(Framed) /\ decoded' \in Seq(Framed)
        /\ All(got', pending', decoded') = got \o Append(decoded, m)
        /\ All(got, pending, decoded) = got \o decoded
        /\ Pushing'
    BY <1>1, <2>1, <2>3, ReturnStep
  <2>5. All(got', pending', decoded') = Append(a, m)
    BY <1>10, <2>3, <2>4
  <2>6. << >> \in Seq(Byte) /\ Len(<< >>) = 0 /\ header' = << >> /\ expected' = None /\ payload' = << >>
    BY <2>1, EmptySeq DEF reset
  <2>7. Typed' /\ Ended'
    BY <1>1, <2>1, <2>4, <2>6, PushRest
  <2>8. Decoding'
    BY <2>6, CodecAssumption DEF Decoding, Continues
  <2>9. Accounted'
    <3>1. encode(m) = header \o bytes
      BY <1>5, <1>12, <2>2, EncodeFramed
    <3>2. PICK f \in Seq(Byte) : f = Frames(a)
      BY EncodedType
    <3>3. written = f \o Buf(header, bytes, r, wire)
      BY <1>2, <1>3, <1>8, <1>10, <3>2 DEF Accounted
    <3>4. @ = (f \o (header \o bytes)) \o Buf(<< >>, << >>, r, wire)
      <4>1. FrameLeaves(f, header, bytes, r, wire)
        BY <1>4, BufFrame
      <4> QED
        BY <4>1 DEF FrameLeaves
    <3>5. Frames(Append(a, m)) = f \o (header \o bytes)
      BY <2>2, <3>1, <3>2, FramesAppend
    <3>6. written = Frames(Append(a, m)) \o Buf(<< >>, << >>, r, wire)
      BY <3>3, <3>4, <3>5
    <3> QED
      BY <1>1, <2>4, <2>5, <2>6, <3>6 DEF Accounted
  <2>10. origin' = "encoder" => InOrder'
    <3> SUFFICES ASSUME origin = "encoder" PROVE InOrder'
      BY <1>1
    <3>1. PICK k \in Framed : /\ decode_payload(stream, bytes) = {k}
                              /\ Len(a) < Len(sent) /\ k = sent[Len(a) + 1]
      BY <1>1, <1>8, <1>10, <1>12, UpcomingPayload
    <3>2. m = k
      BY <3>1
    <3>3. Pre(a, sent)
      BY <1>2, <1>10 DEF InOrder
    <3>4. Pre(Append(a, m), sent)
      BY <1>4, <3>1, <3>2, <3>3, PreFacts
    <3> QED
      BY <1>1, <1>2, <2>1, <2>5, <3>4 DEF InOrder
  <2> QED
    BY <2>4, <2>7, <2>8, <2>9, <2>10 DEF CodecInv
<1>13. CASE /\ Len(bytes) = expected /\ decode_payload(stream, bytes) = {}
            /\ Refuse
  <2>1. ASSUME origin = "encoder" PROVE FALSE
    <3>1. PICK k \in Framed : decode_payload(stream, bytes) = {k}
      BY <1>1, <1>8, <1>13, <2>1, UpcomingPayload
    <3> QED
      BY <1>13, <3>1
  <2> QED
    BY <1>1, <1>13, <2>1, RefuseStep
<1> QED
  BY <1>9, <1>11, <1>12, <1>13

\* Every step preserves the invariant.
LEMMA CodecStep == CodecInv /\ [Next]_vars => CodecInv'
<1> SUFFICES ASSUME CodecInv, [Next]_vars PROVE CodecInv'
  OBVIOUS
<1>1. CASE \E message \in Messages[stream] : Send(message)
  BY <1>1, SendStep
<1>2. CASE Finish
  BY <1>2, FinishStep
<1>3. CASE Receive
  BY <1>3, ReceiveStep
<1>4. CASE Closed
  BY <1>4, ClosedStep
<1>5. CASE PushHeader
  BY <1>5, PushHeaderStep
<1>6. CASE PushPayload
  BY <1>6, PushPayloadStep
<1>7. CASE Take
  BY <1>7, TakeStep
<1>8. CASE UNCHANGED vars
  <2>1. /\ stream' = stream /\ origin' = origin /\ wire' = wire /\ got' = got
        /\ sent' = sent /\ written' = written /\ sender' = sender /\ input' = input
        /\ header' = header /\ expected' = expected /\ payload' = payload /\ decoded' = decoded
        /\ pending' = pending /\ reader' = reader
    BY <1>8 DEF vars, outgoing, decoder
  <2>2. Typed /\ Pushing /\ Decoding /\ Accounted /\ Ended /\ (origin = "encoder" => InOrder)
    BY DEF CodecInv
  <2>3. Typed' /\ Pushing' /\ Decoding' /\ Accounted' /\ Ended'
    BY <2>1, <2>2 DEF Typed, Pushing, Decoding, Accounted, Ended
  <2>4. origin' = "encoder" => InOrder'
    BY <2>1, <2>2 DEF InOrder
  <2> QED
    BY <2>3, <2>4 DEF CodecInv
<1> QED
  BY <1>1, <1>2, <1>3, <1>4, <1>5, <1>6, <1>7, <1>8 DEF Next, Stopped

\* The invariant holds of every state.
LEMMA CodecAlways == Spec => []CodecInv
BY CodecInit, CodecStep, PTL DEF Spec

-----------------------------------------------------------------------------
(***************************************************************************)
(* The properties.                                                         *)
(***************************************************************************)
\* The decoder buffers at most one frame: a header of MAX_VARINT_BYTES and less
\* than the payload it announced, which is within the limits of check_frame_length.
THEOREM CodecTyped == Spec => []TypeOK
<1>1. CodecInv => TypeOK
  <2> SUFFICES ASSUME CodecInv PROVE TypeOK
    OBVIOUS
  <2>1. Typed /\ Decoding
    BY DEF CodecInv
  <2>2. wire \in Seq(Byte) /\ input \in Seq(Byte)
    BY <2>1 DEF Typed
  <2>3. Range(wire) \subseteq Byte /\ Range(input) \subseteq Byte
    BY <2>2 DEF Range
  <2> QED
    BY <2>1, <2>3 DEF TypeOK, Typed, Decoding
<1> QED
  BY <1>1, CodecAlways, PTL

\* Bytes the decoder accepts are those encode makes of what it returns, whoever
\* wrote them and however the stream cut them.
THEOREM CodecCanonical == Spec => []Canonical
<1>1. CodecInv => Canonical
  <2> SUFFICES ASSUME CodecInv, reader # "refused"
               PROVE  written = FlattenSeq([i \in DOMAIN Decoded |-> encode(Decoded[i])])
                                  \o header \o payload \o input \o wire
    BY DEF Canonical
  <2>1. Typed /\ Accounted
    BY DEF CodecInv
  <2>2. /\ header \in Seq(Byte) /\ payload \in Seq(Byte) /\ input \in Seq(Byte) /\ wire \in Seq(Byte)
        /\ got \in Seq(Framed) /\ decoded \in Seq(Framed) /\ pending \in Seq(Framed)
    BY <2>1 DEF Typed
  <2>3. PICK a \in Seq(Framed) : a = All(got, pending, decoded)
    BY <2>2, AllType
  <2>4. PICK f \in Seq(Byte) : f = Frames(a)
    BY EncodedType
  <2>5. FlattenSeq([i \in DOMAIN Decoded |-> encode(Decoded[i])]) = f
    BY <2>3, <2>4 DEF Decoded, All, Frames, Encoded
  <2>6. written = f \o (header \o (payload \o (input \o wire)))
    BY <2>1, <2>3, <2>4 DEF Accounted, Buf
  <2>7. PICK iw \in Seq(Byte) : iw = input \o wire
    BY <2>2, Sizes DEF Sized
  <2>8. PICK fh \in Seq(Byte) : fh = f \o header
    BY <2>2, Sizes DEF Sized
  <2>9. PICK pw \in Seq(Byte) : pw = payload \o iw
    BY <2>2, Sizes DEF Sized
  <2>10. Joined(f, header, pw)
    BY <2>2, Joins
  <2>11. Joined(fh, payload, iw)
    BY <2>2, Joins
  <2>12. PICK fp \in Seq(Byte) : fp = fh \o payload
    BY <2>11 DEF Joined
  <2>13. Joined(fp, input, wire)
    BY <2>2, Joins
  <2>14. written = f \o (header \o pw)
    BY <2>6, <2>7, <2>9
  <2>15. @ = fh \o pw
    BY <2>8, <2>10 DEF Joined
  <2>16. @ = fp \o iw
    BY <2>9, <2>11, <2>12 DEF Joined
  <2>17. @ = (fp \o input) \o wire
    BY <2>7, <2>13 DEF Joined
  <2> QED
    BY <2>5, <2>8, <2>12, <2>14, <2>15, <2>16, <2>17
<1> QED
  BY <1>1, CodecAlways, PTL

\* Whatever the pieces of the stream, the reader gets the messages that were sent,
\* in order; it refuses none, and a stream that was finished delivered them all.
THEOREM CodecReassembled == Spec => []Reassembled
<1>1. CodecInv => Reassembled
  <2> SUFFICES ASSUME CodecInv, origin = "encoder"
               PROVE  /\ IsPrefix(Decoded, sent)
                      /\ reader # "refused"
                      /\ reader = "closed" /\ sender = "finished" => got = sent
    BY DEF Reassembled
  <2>1. Typed /\ InOrder /\ Ended
    BY DEF CodecInv
  <2>2. PICK a \in Seq(Framed) : a = All(got, pending, decoded)
    BY <2>1, AllType DEF Typed
  <2>3. Pre(a, sent) /\ sent \in Seq(Framed)
    BY <2>1, <2>2 DEF InOrder, Typed
  <2>4. IsPrefix(a, sent)
    BY <2>3, PreFacts
  <2>5. Decoded = a
    BY <2>2 DEF Decoded, All
  <2> QED
    BY <2>1, <2>4, <2>5 DEF InOrder, Ended
<1> QED
  BY <1>1, CodecAlways, PTL

=============================================================================
