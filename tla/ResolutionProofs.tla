-------------------------- MODULE ResolutionProofs --------------------------
(***************************************************************************)
(* Resolution stays within what the root has held, for trees and paths of  *)
(* any size and any changes by other processes.                            *)
(*                                                                         *)
(* The tree of the root is closed under real entries, whatever is renamed, *)
(* and `known` has all of it at any time.  A walk that follows no link     *)
(* takes one real entry after the other: from a directory that is in the   *)
(* tree when the name is looked up it comes to something that is in it.    *)
(***************************************************************************)
EXTENDS Resolution, TLAPS

Inv ==
    /\ TypeOK
    /\ Held(entry) \subseteq known
    /\ ~strayed => at \in known
    /\ Confined /\ ReadsInside

Tree == [Dirs -> [Names -> Inodes \cup {None}]]

\* Reach adds to a set what makes it closed.
LEMMA ReachClosed ==
    ASSUME NEW S \in SUBSET Inodes, NEW e \in Tree
    PROVE  S \subseteq Reach(S, e) /\ Closed(Reach(S, e), e) /\ Reach(S, e) \subseteq Inodes
<1>1. S \subseteq Reach(S, e) /\ Reach(S, e) \subseteq Inodes
  BY DEF Reach
<1>2. ASSUME NEW d \in Reach(S, e) \cap Dirs, NEW n \in Names, e[d][n] # None
      PROVE  e[d][n] \in Reach(S, e)
  <2>1. e[d][n] \in Inodes
    BY <1>2 DEF Tree
  <2>2. ASSUME NEW T \in SUBSET Inodes, S \subseteq T, Closed(T, e)
        PROVE  e[d][n] \in T
    BY <1>2, <2>2 DEF Reach, Closed
  <2> QED
    BY <2>1, <2>2 DEF Reach
<1> QED
  BY <1>1, <1>2 DEF Closed

\* The root is in its tree, and with a directory every entry of it.
LEMMA HeldClosed ==
    ASSUME NEW e \in Tree
    PROVE  Root \in Held(e) /\ Closed(Held(e), e) /\ Held(e) \subseteq Inodes
<1>1. {Root} \in SUBSET Inodes
  BY ResolutionAssumption DEF Inodes
<1> QED
  BY <1>1, ReachClosed DEF Held

\* The invariant holds at first.
LEMMA InvInit == Init => Inv
<1> SUFFICES ASSUME Init PROVE Inv
  OBVIOUS
<1> USE ResolutionAssumption
<1>1. entry \in Tree /\ {Root} \in SUBSET Inodes
  BY DEF Init, Tree, Inodes
<1>2. Root \in known /\ Held(entry) \subseteq known /\ known \subseteq Inodes
  BY <1>1, HeldClosed DEF Init
<1>3. Len(path) \in Nat \ {0}
  BY DEF Init
<1>4. TypeOK
  <2>1. entry \in [Dirs -> [Names -> Inodes \cup {None}]] /\ known \subseteq Inodes
    BY <1>1, <1>2 DEF Tree
  <2>2. depth \in 0..(Len(path) - 1) /\ changes \in Nat
    BY <1>3 DEF Init
  <2>3. path \in Paths /\ purpose \in {"mutate", "read"} /\ at \in Dirs /\ state = "idle"
        /\ strayed = FALSE /\ mutated = {} /\ opened = {}
    BY DEF Init
  <2> QED
    BY <2>1, <2>2, <2>3 DEF TypeOK
<1> QED
  BY <1>2, <1>4 DEF Init, Inv, Confined, ReadsInside

\* A change of the tree only adds to what is known.
LEMMA ChangeStep ==
    ASSUME Inv, NEW e \in Tree, ChangedTo(e)
    PROVE  Inv'
<1>1. known \subseteq known' /\ Held(entry') \subseteq known' /\ known' \subseteq Inodes
  BY HeldClosed DEF ChangedTo, Inv, TypeOK
<1>2. TypeOK'
  BY <1>1 DEF ChangedTo, Inv, TypeOK, Tree, walk
<1> QED
  BY <1>1, <1>2 DEF ChangedTo, Inv, Confined, ReadsInside, walk

\* The entries of a tree, and a tree with another entry.
LEMMA EntryTypes ==
    ASSUME NEW e \in Tree, NEW d \in Dirs, NEW n \in Names, NEW i \in Inodes \cup {None}
    PROVE  e[d][n] \in Inodes \cup {None} /\ [e EXCEPT ![d][n] = i] \in Tree
BY DEF Tree

\* What is looked up in the tree of the root has been in it.
LEMMA FoundKnown ==
    ASSUME Inv, NEW n \in Names, at \in Held(entry), entry[at][n] \in Inodes
    PROVE  entry[at][n] \in known
<1>1. Closed(Held(entry), entry) /\ entry \in Tree /\ at \in Dirs
  BY HeldClosed DEF Inv, TypeOK, Tree
<1>2. entry[at][n] # None
  BY ResolutionAssumption
<1>3. entry[at][n] \in Held(entry)
  BY <1>1, <1>2 DEF Closed
<1> QED
  BY <1>3 DEF Inv

\* Every step keeps the invariant.
LEMMA InvStep == Inv /\ [Next]_vars => Inv'
<1> SUFFICES ASSUME Inv, [Next]_vars PROVE Inv'
  OBVIOUS
<1> USE ResolutionAssumption
<1>1. entry \in Tree /\ at \in Dirs /\ path \in Seq(Names) /\ Len(path) \in Nat \ {0}
  BY DEF Inv, TypeOK, Tree
<1>2. \A i \in 1..Len(path) : path[i] \in Names
  BY <1>1
<1>3. CASE Begin
  <2>1. at' \in known /\ depth' \in 0..(Len(path) - 1)
    BY <1>1, <1>3, HeldClosed DEF Begin, Inv
  <2> QED
    BY <1>1, <1>3, <2>1 DEF Begin, others, Inv, TypeOK, Confined, ReadsInside
<1>4. CASE OpenDirectory
  <2>1. depth + 1 \in 1..Len(path) /\ path[depth + 1] \in Names
    BY <1>1, <1>2, <1>4 DEF OpenDirectory, Inv, TypeOK
  <2>2. strayed' = (strayed \/ at \notin Held(entry))
    BY <1>4 DEF OpenDirectory, LooksUp
  <2>3. at' \in Dirs /\ depth' \in 0..(Len(path) - 1)
    BY <1>1, <1>4 DEF OpenDirectory, OpensAs, Inv, TypeOK
  <2>4. ~strayed' => at' \in known
    <3>1. SUFFICES ASSUME ~strayed' PROVE at' \in known
      OBVIOUS
    <3>2. ~strayed /\ at \in Held(entry)
      BY <2>2, <3>1
    <3>3. at' = at \/ (at' = entry[at][path[depth + 1]] /\ at' \in Inodes)
      BY <1>4, <2>3 DEF OpenDirectory, OpensAs, Inodes
    <3> QED
      BY <2>1, <3>2, <3>3, FoundKnown DEF Inv
  <2>5. strayed' \in BOOLEAN /\ (strayed => strayed')
    BY <2>2
  <2> QED
    BY <1>4, <2>3, <2>4, <2>5 DEF OpenDirectory, others, Inv, TypeOK, Confined, ReadsInside
<1>5. CASE Resolved
  BY <1>5 DEF Resolved, others, Inv, TypeOK, Confined, ReadsInside
<1>6. CASE Mutate
  <2>1. path[Len(path)] \in Names
    BY <1>1, <1>2
  <2>2. entry' \in Tree /\ known' = known \cup Held(entry')
    <3>1. PICK i \in {None} \cup Files \cup Links \cup Fresh :
            /\ entry' = [entry EXCEPT ![at][path[Len(path)]] = i]
            /\ known' = known \cup Held(entry')
      BY <1>6 DEF Mutate
    <3>2. i \in Inodes \cup {None}
      BY DEF Fresh, Inodes
    <3> QED
      BY <1>1, <2>1, <3>1, <3>2, EntryTypes
  <2>3. known \subseteq known' /\ Held(entry') \subseteq known' /\ known' \subseteq Inodes
    BY <2>2, HeldClosed DEF Inv, TypeOK
  <2>4. TypeOK'
    BY <1>1, <1>6, <2>2, <2>3 DEF Mutate, Inv, TypeOK, Tree
  <2>5. strayed' = strayed /\ at' = at /\ opened' = opened /\ mutated' = mutated \cup {at}
    BY <1>6 DEF Mutate
  <2>6. Confined' /\ ReadsInside'
    BY <2>3, <2>5 DEF Inv, Confined, ReadsInside
  <2> QED
    BY <2>3, <2>4, <2>5, <2>6 DEF Inv
<1>7. CASE OpenLeaf
  <2>1. path[Len(path)] \in Names
    BY <1>1, <1>2
  <2>2. strayed' = (strayed \/ at \notin Held(entry))
    BY <1>7 DEF OpenLeaf, LooksUp
  <2>3. \/ opened' = opened
        \/ /\ entry[at][path[Len(path)]] \in Files
           /\ opened' = opened \cup {entry[at][path[Len(path)]]}
    BY <1>7 DEF OpenLeaf, OpensAs, Readable
  <2>4. ReadsInside'
    <3>1. opened' \subseteq Files
      BY <2>3 DEF Inv, ReadsInside
    <3>2. ASSUME ~strayed' PROVE opened' \subseteq known
      <4>1. ~strayed /\ at \in Held(entry)
        BY <2>2, <3>2
      <4>2. entry[at][path[Len(path)]] \in Files => entry[at][path[Len(path)]] \in known
        BY <2>1, <4>1, FoundKnown DEF Inodes
      <4> QED
        BY <2>3, <4>1, <4>2 DEF Inv, ReadsInside
    <3>3. known' = known
      BY <1>7 DEF OpenLeaf, others
    <3> QED
      BY <3>1, <3>2, <3>3 DEF ReadsInside
  <2>5. opened' \subseteq Inodes
    BY <2>4 DEF ReadsInside, Inodes
  <2>6. strayed' \in BOOLEAN /\ (strayed => strayed')
    BY <2>2
  <2> QED
    BY <1>7, <2>4, <2>5, <2>6 DEF OpenLeaf, others, Inv, TypeOK, Confined
<1>8. ASSUME NEW d \in Dirs, NEW e \in Dirs, NEW n \in Names, NEW m \in Names, Rename(d, n, e, m)
      PROVE  Inv'
  <2>1. entry[d][n] \in Inodes \cup {None} /\ [entry EXCEPT ![d][n] = None] \in Tree
    BY <1>1, EntryTypes
  <2>2. [[entry EXCEPT ![d][n] = None] EXCEPT ![e][m] = entry[d][n]] \in Tree
    BY <2>1, EntryTypes
  <2> QED
    BY <1>8, <2>2, ChangeStep DEF Rename
<1>9. ASSUME NEW d \in Dirs, NEW n \in Names, Remove(d, n) PROVE Inv'
  <2>1. [entry EXCEPT ![d][n] = None] \in Tree
    BY <1>1, EntryTypes
  <2> QED
    BY <1>9, <2>1, ChangeStep DEF Remove
<1>10. ASSUME NEW d \in Dirs, NEW n \in Names, NEW l \in Links, Link(d, n, l) PROVE Inv'
  <2>1. [entry EXCEPT ![d][n] = l] \in Tree
    BY <1>1, EntryTypes DEF Inodes
  <2> QED
    BY <1>10, <2>1, ChangeStep DEF Link
<1>11. CASE UNCHANGED vars
  BY <1>11 DEF vars, others, walk, Inv, TypeOK, Confined, ReadsInside
<1> QED
  BY <1>3, <1>4, <1>5, <1>6, <1>7, <1>8, <1>9, <1>10, <1>11 DEF Next

\* The invariant of the module.
LEMMA InvHolds == Spec => []Inv
BY InvInit, InvStep, PTL DEF Spec

-----------------------------------------------------------------------------
\* The types of the tree, the walk and the histories.
THEOREM TypeCorrect == Spec => []TypeOK
<1>1. Inv => TypeOK
  BY DEF Inv
<1> QED
  BY <1>1, InvHolds, PTL

\* No operation is carried out in a directory that has never been in the tree of
\* the root, unless the walk went on from a directory moved out of it.
THEOREM StaysConfined == Spec => []Confined
<1>1. Inv => Confined
  BY DEF Inv
<1> QED
  BY <1>1, InvHolds, PTL

\* Nothing but regular files is read and, with the same exception, nothing that
\* has never been in the tree of the root.
THEOREM ReadsConfined == Spec => []ReadsInside
<1>1. Inv => ReadsInside
  BY DEF Inv
<1> QED
  BY <1>1, InvHolds, PTL
=============================================================================
