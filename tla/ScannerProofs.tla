--------------------------- MODULE ScannerProofs ---------------------------
(***************************************************************************)
(* A scan lists every tree in canonical order, whatever its rules, its     *)
(* depth, the capacity of the channel, and the moment it fails or is hung  *)
(* up on (ScanOrdered); what it lists is the beginning, and in the end the *)
(* whole, of what the tree's ignore files imply (ScanBeginsListing), which *)
(* is what they say from their directories on (FilesApply); and it fails   *)
(* only for a cause (ScanFailsForCause).                                   *)
(*                                                                         *)
(* The order rests on Inv: every record sent so far lies before every      *)
(* entry that an active call of scan_directory still has to consider; the  *)
(* entries of a call follow the directory it has descended into.           *)
(*                                                                         *)
(* The rest adds WalkInv: whatever is listed was sent or is still ahead,   *)
(* and the rule sets in force are those of the exclusions and of the       *)
(* ignore files of the active calls, in that order.  Hence `decision`,     *)
(* which asks them one after the other, answers as the reference LeftOut   *)
(* does, which looks at the whole tree.                                    *)
(***************************************************************************)
EXTENDS Scanner, WellFoundedInduction, SequenceTheorems, TLAPS

FrameType == [scope : Seq(Nat), left : SUBSET Nat, checkpoint : Nat]

Messages == {RecordAt(tree, p) : p \in Seq(Nat)} \cup {End, Err}

ShapeInv ==
    /\ frames \in Seq(FrameType)
    /\ sent \in Seq(Messages)
    /\ \E S : scoped \in Seq(S)
    /\ pc = "start" => sent = << >> /\ frames = << >>
    /\ pc \in {"enter", "entries", "emit"} => frames # << >>

\* What a call restores is still there.
CheckpointInv ==
    /\ \A k \in 1..Len(frames) : frames[k].checkpoint <= Len(scoped)
    /\ \A l \in 1..Len(frames) : \A k \in 1..(l - 1) :
            frames[k].checkpoint <= frames[l].checkpoint

\* Each frame lies below the frames it was called from, in an entry before the
\* ones they have left.
NestedInv ==
    \A l \in 1..Len(frames) : \A k \in 1..(l - 1) :
        LET outer == frames[k].scope
            inner == frames[l].scope
        IN  /\ Len(outer) < Len(inner) /\ StartsWith(inner, outer)
            /\ \A m \in frames[k].left : inner[Len(outer) + 1] < m

AheadInv ==
    \A i \in 1..Len(sent) : \A k \in 1..Len(frames) : \A m \in frames[k].left :
        Before(sent[i].path, Append(frames[k].scope, m))

\* A directory is entered right after its own record was sent.
EnterInv ==
    pc = "enter" => \A i \in 1..Len(sent) :
        sent[i].path = Top.scope \/ Before(sent[i].path, Top.scope)

Inv == ShapeInv /\ CheckpointInv /\ NestedInv /\ AheadInv /\ EnterInv /\ CanonicalOrder

-----------------------------------------------------------------------------
\* The order of a path and what lies below its siblings' siblings.
LEMMA BelowBefore ==
    ASSUME NEW p \in Seq(Nat), NEW s \in Seq(Nat), NEW m \in Nat,
           Len(s) < Len(p), StartsWith(p, s), p[Len(s) + 1] < m
    PROVE  Before(p, Append(s, m))
<1> DEFINE n == Len(s) + 1
           q == Append(s, m)
<1>1. Len(q) = n /\ q[n] = m /\ n \in 1..Len(q) /\ Len(s) \in Nat /\ Len(p) \in Nat
  OBVIOUS
<1>2. \A i \in 1..Len(s) : q[i] = s[i]
  OBVIOUS
<1>3. \A i \in 1..(n - 1) : i <= Len(p) /\ p[i] = q[i]
  BY <1>1, <1>2 DEF StartsWith
<1>4. n <= Len(p) /\ p[n] < q[n]
  BY <1>1
<1> HIDE DEF q
<1>5. Before(p, q)
  BY <1>1, <1>3, <1>4 DEF Before
<1> QED
  BY <1>5 DEF q

\* A path below s comes after s and after what is before s.
LEMMA ChildAfter ==
    ASSUME NEW q \in Seq(Nat), NEW s \in Seq(Nat), NEW m \in Nat,
           q = s \/ Before(q, s)
    PROVE  Before(q, Append(s, m))
<1> DEFINE c == Append(s, m)
<1>1. Len(c) = Len(s) + 1 /\ Len(s) \in Nat /\ Len(q) \in Nat
  OBVIOUS
<1>2. \A i \in 1..Len(s) : c[i] = s[i]
  OBVIOUS
<1> HIDE DEF c
<1>3. CASE q = s
  <2>1. Len(s) + 1 \in 1..Len(c)
    BY <1>1
  <2>2. \A i \in 1..(Len(s) + 1 - 1) : i <= Len(q) /\ q[i] = c[i]
    BY <1>1, <1>2, <1>3
  <2>3. Len(s) + 1 = Len(q) + 1
    BY <1>3
  <2>4. Before(q, c)
    BY <2>1, <2>2, <2>3 DEF Before
  <2> QED
    BY <2>4 DEF c
<1>4. CASE Before(q, s)
  <2>1. PICK n \in 1..Len(s) :
            /\ \A i \in 1..(n - 1) : i <= Len(q) /\ q[i] = s[i]
            /\ n = Len(q) + 1 \/ (n <= Len(q) /\ q[n] < s[n])
    BY <1>4 DEF Before
  <2>2. n \in 1..Len(c) /\ c[n] = s[n]
    BY <1>1, <1>2
  <2>3. \A i \in 1..(n - 1) : i <= Len(q) /\ q[i] = c[i]
    BY <1>1, <1>2, <2>1
  <2>4. Before(q, c)
    BY <2>1, <2>2, <2>3 DEF Before
  <2> QED
    BY <2>4 DEF c
<1> QED
  BY <1>3, <1>4

\* The end marker and an error carry no path.
LEMMA EmptyBefore ==
    ASSUME NEW s \in Seq(Nat), NEW m \in Nat
    PROVE  Before(<< >>, Append(s, m))
<1>1. 1 \in 1..Len(Append(s, m)) /\ Len(<< >>) = 0
  OBVIOUS
<1>2. \A i \in 1..(1 - 1) : FALSE
  OBVIOUS
<1> QED
  BY <1>1, <1>2 DEF Before

\* A path and what is appended to it.
LEMMA AppendStarts ==
    ASSUME NEW s \in Seq(Nat), NEW n \in Nat
    PROVE  LET c == Append(s, n)
           IN  c \in Seq(Nat) /\ Len(c) = Len(s) + 1 /\ Len(s) \in Nat
               /\ StartsWith(c, s) /\ c[Len(s) + 1] = n
               /\ \A i \in 1..Len(s) : c[i] = s[i]
BY DEF StartsWith

\* Every message has a path, and appending one changes no other.
LEMMA MessagePaths ==
    /\ \A r \in Messages : r.path \in Seq(Nat)
    /\ End.path = << >> /\ Err.path = << >> /\ End.kind \notin Kinds /\ Err.kind \notin Kinds
    /\ \A p : RecordAt(tree, p).path = p
<1>1. End.path = << >> /\ Err.path = << >> /\ End.kind \notin Kinds /\ Err.kind \notin Kinds
  BY DEF End, Err, NoRecord, Kinds
<1>2. \A p : RecordAt(tree, p).path = p
  BY DEF RecordAt
<1>3. << >> \in Seq(Nat)
  OBVIOUS
<1> QED
  BY <1>1, <1>2, <1>3 DEF Messages

-----------------------------------------------------------------------------
\* Nothing is sent before the scan starts.
LEMMA InvInit == Init => Inv
<1> SUFFICES ASSUME Init PROVE Inv
  OBVIOUS
<1>1. << >> \in Seq({})
  OBVIOUS
<1>2. ShapeInv
  BY <1>1 DEF Init, ShapeInv
<1> QED
  BY <1>2 DEF Init, Inv, CheckpointInv, NestedInv, AheadInv, EnterInv, CanonicalOrder

\* Frames with the same scopes and no more entries keep the order.
LEMMA ShrinkStep ==
    ASSUME Inv, UNCHANGED <<sent, tree>>,
           frames' \in Seq(FrameType), Len(frames') <= Len(frames),
           \A k \in 1..Len(frames') :
                frames'[k].scope = frames[k].scope /\ frames'[k].left \subseteq frames[k].left
    PROVE  NestedInv' /\ AheadInv' /\ CanonicalOrder'
<1>1. Len(frames') \in Nat /\ Len(frames) \in Nat
  BY DEF Inv, ShapeInv
<1>2. \A k \in 1..Len(frames') : k \in 1..Len(frames)
  BY <1>1
<1>3. NestedInv'
  <2> SUFFICES ASSUME NEW l \in 1..Len(frames'), NEW k \in 1..(l - 1)
               PROVE  /\ Len(frames'[k].scope) < Len(frames'[l].scope)
                      /\ StartsWith(frames'[l].scope, frames'[k].scope)
                      /\ \A m \in frames'[k].left :
                            frames'[l].scope[Len(frames'[k].scope) + 1] < m
    BY DEF NestedInv
  <2>1. k \in 1..Len(frames') /\ l \in 1..Len(frames)
    BY <1>1
  <2> QED
    BY <2>1 DEF Inv, NestedInv
<1>4. AheadInv'
  BY <1>2 DEF Inv, AheadInv
<1>5. CanonicalOrder'
  BY DEF Inv, CanonicalOrder
<1> QED
  BY <1>3, <1>4, <1>5

\* fs is the frames without entry n of the innermost one.
Trimmed(fs, n) ==
    /\ fs \in Seq(FrameType) /\ Len(fs) = Len(frames) /\ Len(frames) \in Nat \ {0}
    /\ \A k \in 1..Len(frames) :
        /\ fs[k].scope = frames[k].scope /\ fs[k].checkpoint = frames[k].checkpoint
        /\ fs[k].left = IF k = Len(frames) THEN frames[k].left \ {n} ELSE frames[k].left

\* Removing an entry changes nothing else.
LEMMA WithoutShape ==
    ASSUME Inv, frames # << >>, NEW n
    PROVE  Trimmed(WithoutEntry(n), n)
<1> DEFINE fs == WithoutEntry(n)
<1>1. frames \in Seq(FrameType) /\ Len(frames) \in Nat \ {0}
  BY DEF Inv, ShapeInv
<1>2. \A k \in 1..Len(frames) : frames[k] \in FrameType
  BY <1>1
<1> DEFINE old == frames[Len(frames)]
           new == [old EXCEPT !.left = old.left \ {n}]
<1>3. old \in FrameType
  BY <1>1, <1>2
<1> HIDE DEF old
<1>4. /\ new \in FrameType /\ new.left = old.left \ {n}
      /\ new.scope = old.scope /\ new.checkpoint = old.checkpoint
  BY <1>3 DEF FrameType
<1>5. fs = [frames EXCEPT ![Len(frames)] = new]
  BY DEF WithoutEntry, old
<1> HIDE DEF new
<1>6. fs \in Seq(FrameType) /\ Len(fs) = Len(frames)
  BY <1>1, <1>4, <1>5
<1>7. \A k \in 1..Len(frames) : fs[k] = IF k = Len(frames) THEN new ELSE frames[k]
  BY <1>1, <1>5
<1> QED
  <2> HIDE DEF fs
  <2>1. Trimmed(fs, n)
    BY <1>1, <1>4, <1>6, <1>7 DEF old, Trimmed
  <2> QED
    BY <2>1 DEF fs

\* Steps that leave frames, rules and channel contents alone.
LEMMA QuietStep ==
    ASSUME Inv, UNCHANGED <<tree, frames, scoped, sent>>,
           pc' = pc \/ pc' = "error"
    PROVE  Inv'
BY DEF Inv, ShapeInv, CheckpointInv, NestedInv, AheadInv, EnterInv, CanonicalOrder, Messages, Top

\* The root is entered with nothing sent.
LEMMA StartStep ==
    ASSUME Inv, Start, exclusions.valid
    PROVE  Inv'
<1> DEFINE rules == << [scope |-> << >>, matcher |-> exclusions] >>
<1>1. /\ sent' = << >> /\ UNCHANGED tree /\ pc' = "enter"
      /\ scoped' = << >> \/ scoped' = rules
      /\ frames' = << Frame(<< >>, Len(scoped')) >>
  BY DEF Start, Fail, Inv, ShapeInv, input, channel
<1>2. (\E S : scoped' \in Seq(S)) /\ Len(scoped') \in Nat
  <2>1. CASE scoped' = << >>
    <3>1. << >> \in Seq({}) /\ Len(<< >>) \in Nat
      OBVIOUS
    <3> QED
      BY <2>1, <3>1
  <2>2. CASE scoped' = rules
    <3> DEFINE x == [scope |-> << >>, matcher |-> exclusions]
    <3> HIDE DEF x
    <3>1. <<x>> \in Seq({x}) /\ Len(<<x>>) \in Nat
      OBVIOUS
    <3> QED
      BY <2>2, <3>1 DEF x
  <2> QED
    BY <1>1, <2>1, <2>2
<1> HIDE DEF rules
<1>3. Frame(<< >>, Len(scoped')) \in FrameType /\ Frame(<< >>, Len(scoped')).checkpoint = Len(scoped')
      /\ Frame(<< >>, Len(scoped')).left = {}
  BY <1>2 DEF Frame, FrameType
<1>4. frames' \in Seq(FrameType) /\ Len(frames') = 1 /\ frames'[1] = Frame(<< >>, Len(scoped'))
  BY <1>1, <1>3
<1>5. ShapeInv'
  BY <1>1, <1>2, <1>4 DEF ShapeInv
<1>6. CheckpointInv'
  BY <1>2, <1>3, <1>4 DEF CheckpointInv
<1>7. NestedInv'
  BY <1>4 DEF NestedInv
<1>8. Len(sent') = 0
  BY <1>1
<1>9. AheadInv' /\ EnterInv' /\ CanonicalOrder'
  BY <1>8 DEF AheadInv, EnterInv, CanonicalOrder
<1> QED
  BY <1>5, <1>6, <1>7, <1>9 DEF Inv

\* The entries of a directory come after the directory.
LEMMA EnterStep ==
    ASSUME Inv, EnterDirectory, pc' # "error"
    PROVE  Inv'
<1> DEFINE N == Len(frames)
           scope == Top.scope
           names == {p[Len(p)] : p \in Children(tree, scope)}
<1>1. /\ pc = "enter" /\ pc' = "entries"
      /\ frames' = [frames EXCEPT ![N].left = names]
      /\ scoped' = scoped \/ scoped' = Append(scoped, ScopedRuleSet(scope))
      /\ UNCHANGED <<tree, sent>>
  BY DEF EnterDirectory, Fail, input, channel
<1>2. frames \in Seq(FrameType) /\ N \in Nat \ {0}
  BY <1>1 DEF Inv, ShapeInv
<1>3. \A k \in 1..N : frames[k] \in FrameType
  BY <1>2
<1>4. names \subseteq Nat
  BY UniverseAssumption DEF Children, RelativePath
<1>5. Top \in FrameType /\ scope \in Seq(Nat)
  BY <1>2, <1>3 DEF Top, FrameType
<1> DEFINE new == [Top EXCEPT !.left = names]
<1> HIDE DEF names
<1>6. new \in FrameType /\ new.left = names /\ new.scope = scope /\ new.checkpoint = Top.checkpoint
  BY <1>4, <1>5 DEF FrameType
<1>7. frames' = [frames EXCEPT ![N] = new]
  BY <1>1 DEF Top
<1> HIDE DEF new
<1>8. frames' \in Seq(FrameType) /\ Len(frames') = N
      /\ \A k \in 1..N : frames'[k] = IF k = N THEN new ELSE frames[k]
  BY <1>2, <1>6, <1>7
<1>9. (\E S : scoped' \in Seq(S)) /\ Len(scoped) \in Nat /\ Len(scoped') \in Nat
      /\ Len(scoped) <= Len(scoped')
  <2> DEFINE x == ScopedRuleSet(scope)
  <2> HIDE DEF x
  <2>1. PICK S : scoped \in Seq(S)
    BY DEF Inv, ShapeInv
  <2>2. scoped \in Seq(S \cup {x}) /\ Append(scoped, x) \in Seq(S \cup {x})
        /\ Len(Append(scoped, x)) = Len(scoped) + 1 /\ Len(scoped) \in Nat
    BY <2>1
  <2> QED
    BY <1>1, <2>1, <2>2, SMTT(60) DEF x
<1>10. ShapeInv'
  BY <1>1, <1>2, <1>8, <1>9 DEF Inv, ShapeInv, Messages
<1>11. \A k \in 1..N : frames'[k].scope = frames[k].scope /\ frames'[k].checkpoint = frames[k].checkpoint
  BY <1>6, <1>8 DEF Top
<1>12. CheckpointInv'
  <2>1. \A k \in 1..N : frames[k].checkpoint \in Nat
    BY <1>3 DEF FrameType
  <2>2. \A k \in 1..N : frames'[k].checkpoint <= Len(scoped')
    BY <1>9, <1>11, <2>1 DEF Inv, CheckpointInv
  <2>3. \A l \in 1..N : \A k \in 1..(l - 1) : k \in 1..N
    BY <1>2
  <2> QED
    BY <1>8, <1>11, <2>2, <2>3 DEF Inv, CheckpointInv
<1>13. NestedInv'
  <2>1. \A l \in 1..N : \A k \in 1..(l - 1) : k \in 1..N /\ k # N
    BY <1>2
  <2> QED
    BY <1>8, <1>11, <2>1 DEF Inv, NestedInv
<1>14. AheadInv'
  <2> SUFFICES ASSUME NEW i \in 1..Len(sent), NEW k \in 1..N, NEW m \in frames'[k].left
               PROVE  Before(sent[i].path, Append(frames[k].scope, m))
    BY <1>1, <1>8, <1>11 DEF AheadInv
  <2>1. CASE k # N
    BY <2>1, <1>8 DEF Inv, AheadInv
  <2>2. CASE k = N
    <3>1. m \in Nat /\ frames[k].scope = scope
      BY <2>2, <1>4, <1>6, <1>8 DEF Top
    <3>2. sent[i].path = scope \/ Before(sent[i].path, scope)
      BY <1>1 DEF Inv, EnterInv
    <3>3. sent[i].path \in Seq(Nat)
      BY MessagePaths DEF Inv, ShapeInv
    <3> QED
      BY <1>5, <3>1, <3>2, <3>3, ChildAfter
  <2> QED
    BY <2>1, <2>2
<1>15. EnterInv' /\ CanonicalOrder'
  BY <1>1 DEF Inv, EnterInv, CanonicalOrder
<1> QED
  BY <1>10, <1>12, <1>13, <1>14, <1>15 DEF Inv

\* What is decided about an entry takes it off the list or leaves all alone.
LEMMA ConsiderStep ==
    ASSUME Inv, NEW n \in DOMAIN NameBytes, ConsiderEntry(n), pc' # "error"
    PROVE  Inv'
<1>1. /\ pc = "entries" /\ UNCHANGED <<tree, scoped, sent>>
      /\ \/ pc' = "emit" /\ UNCHANGED frames
         \/ pc' = "entries" /\ frames' = WithoutEntry(n)
  BY DEF ConsiderEntry, Fail, input, channel
<1>2. frames # << >>
  BY <1>1 DEF Inv, ShapeInv
<1>3. CASE pc' = "emit" /\ UNCHANGED frames
  BY <1>1, <1>2, <1>3
     DEF Inv, ShapeInv, CheckpointInv, NestedInv, AheadInv, EnterInv, CanonicalOrder, Messages
<1>4. CASE pc' = "entries" /\ frames' = WithoutEntry(n)
  <2>0. PICK fs : fs = WithoutEntry(n)
    OBVIOUS
  <2>1. /\ fs \in Seq(FrameType) /\ Len(fs) = Len(frames) /\ Len(frames) \in Nat \ {0}
        /\ \A k \in 1..Len(frames) :
            /\ fs[k].scope = frames[k].scope /\ fs[k].checkpoint = frames[k].checkpoint
            /\ fs[k].left = IF k = Len(frames) THEN frames[k].left \ {n} ELSE frames[k].left
    <3>1. Trimmed(fs, n)
      BY <1>2, <2>0, WithoutShape
    <3> QED
      BY <3>1 DEF Trimmed
  <2>2. frames' = fs
    BY <1>4, <2>0
  <2>3. NestedInv' /\ AheadInv' /\ CanonicalOrder'
    <3>1. \A k \in 1..Len(frames') :
            frames'[k].scope = frames[k].scope /\ frames'[k].left \subseteq frames[k].left
      BY <2>1, <2>2
    <3>2. Len(frames') <= Len(frames)
      BY <2>1, <2>2
    <3> QED
      BY <1>1, <2>1, <2>2, <3>1, <3>2, ShrinkStep
  <2>4. frames' # << >>
    BY <2>1, <2>2
  <2>5. ShapeInv'
    BY <1>1, <1>4, <2>1, <2>2, <2>4 DEF Inv, ShapeInv, Messages
  <2>6. CheckpointInv'
    <3>1. \A l \in 1..Len(frames) : \A k \in 1..(l - 1) : k \in 1..Len(frames)
      BY <2>1
    <3> QED
      BY <1>1, <2>1, <2>2, <3>1 DEF Inv, CheckpointInv
  <2>7. EnterInv'
    BY <1>4 DEF EnterInv
  <2> QED
    BY <2>3, <2>5, <2>6, <2>7 DEF Inv
<1> QED
  BY <1>1, <1>3, <1>4

\* A record follows all that was sent and precedes all that is left, in every
\* active directory.
LEMMA EmitStep ==
    ASSUME Inv, NEW n \in DOMAIN NameBytes, EmitRecord(n)
    PROVE  Inv'
<1> DEFINE N == Len(frames)
           S == Len(sent)
           c == Current(n)
           r == RecordAt(tree, c)
           inner == Frame(c, Len(scoped))
<1>0. PICK fs : fs = WithoutEntry(n)
  OBVIOUS
<1>1. /\ pc = "emit" /\ n \in Top.left /\ \A m \in Top.left : n <= m
      /\ sent' = Append(sent, r) /\ UNCHANGED <<tree, scoped>>
      /\ \/ frames' = fs /\ pc' = "entries"
         \/ frames' = Append(fs, inner) /\ pc' = "enter"
  BY <1>0 DEF EmitRecord, NextEntry, input
<1>2. frames # << >> /\ frames \in Seq(FrameType) /\ N \in Nat \ {0}
  BY <1>1 DEF Inv, ShapeInv
<1>3. \A k \in 1..N : frames[k] \in FrameType
  BY <1>2
<1>4. Top = frames[N] /\ Top \in FrameType
  BY <1>2, <1>3 DEF Top
<1>5. Top.scope \in Seq(Nat) /\ Top.left \subseteq Nat /\ n \in Nat
  BY <1>1, <1>4 DEF FrameType
<1>6. /\ fs \in Seq(FrameType) /\ Len(fs) = N
      /\ \A k \in 1..N :
            /\ fs[k].scope = frames[k].scope /\ fs[k].checkpoint = frames[k].checkpoint
            /\ fs[k].left = IF k = N THEN frames[k].left \ {n} ELSE frames[k].left
  <2>1. Trimmed(fs, n)
    BY <1>0, <1>2, WithoutShape
  <2> QED
    BY <2>1 DEF Trimmed
<1>7. /\ c \in Seq(Nat) /\ Len(c) = Len(Top.scope) + 1 /\ Len(Top.scope) \in Nat
      /\ StartsWith(c, Top.scope) /\ c[Len(Top.scope) + 1] = n
      /\ \A i \in 1..Len(Top.scope) : c[i] = Top.scope[i]
  BY <1>5, AppendStarts DEF Current
<1>8. r \in Messages /\ r.path = c
  BY <1>7, MessagePaths DEF Messages
<1>9. \A i \in 1..S : Before(sent[i].path, c)
  BY <1>1, <1>2, <1>4 DEF Inv, AheadInv, Current
<1>10. Len(scoped) \in Nat
  BY DEF Inv, ShapeInv
<1>11. inner \in FrameType /\ inner.scope = c /\ inner.left = {} /\ inner.checkpoint = Len(scoped)
  BY <1>7, <1>10 DEF Frame, FrameType
<1> HIDE DEF c, r, inner
<1>12. \A k \in 1..N : /\ Len(frames[k].scope) < Len(c) /\ StartsWith(c, frames[k].scope)
                       /\ \A m \in fs[k].left : c[Len(frames[k].scope) + 1] < m
  <2> SUFFICES ASSUME NEW k \in 1..N
               PROVE  /\ Len(frames[k].scope) < Len(c) /\ StartsWith(c, frames[k].scope)
                      /\ \A m \in fs[k].left : c[Len(frames[k].scope) + 1] < m
    OBVIOUS
  <2>1. CASE k = N
    <3>1. \A m \in fs[k].left : m \in Top.left /\ m # n
      BY <1>4, <1>6, <2>1
    <3>2. \A m \in fs[k].left : n < m
      BY <1>1, <1>5, <3>1
    <3> QED
      BY <1>4, <1>7, <2>1, <3>2
  <2>2. CASE k # N
    <3> DEFINE outer == frames[k].scope
    <3>1. k \in 1..(N - 1) /\ N \in 1..N
      BY <1>2, <2>2
    <3>2. /\ Len(outer) < Len(Top.scope) /\ StartsWith(Top.scope, outer)
          /\ \A m \in frames[k].left : Top.scope[Len(outer) + 1] < m
      BY <1>4, <3>1 DEF Inv, NestedInv
    <3>3. outer \in Seq(Nat) /\ Len(outer) \in Nat
      BY <1>3 DEF FrameType
    <3> HIDE DEF outer
    <3>4. Len(outer) + 1 \in 1..Len(Top.scope)
      BY <1>7, <3>2, <3>3
    <3>5. c[Len(outer) + 1] = Top.scope[Len(outer) + 1]
      BY <1>7, <3>4
    <3>6. StartsWith(c, outer) /\ Len(outer) < Len(c)
      BY <1>7, <3>2, <3>3 DEF StartsWith
    <3>7. fs[k].left = frames[k].left
      BY <1>6, <2>2
    <3> QED
      BY <3>2, <3>5, <3>6, <3>7 DEF outer
  <2> QED
    BY <2>1, <2>2
<1>13. sent \in Seq(Messages) /\ S \in Nat
  BY DEF Inv, ShapeInv
<1>14. /\ sent' \in Seq(Messages) /\ Len(sent') = S + 1 /\ sent'[S + 1] = r
       /\ \A i \in 1..S : sent'[i] = sent[i]
  BY <1>1, <1>8, <1>13
<1>15. /\ frames' \in Seq(FrameType) /\ Len(frames') \in {N, N + 1} /\ Len(frames') \in Nat
       /\ \A k \in 1..N : frames'[k] = fs[k]
       /\ Len(frames') = N + 1 => frames'[N + 1] = inner
       /\ pc' = "enter" => Len(frames') = N + 1
  <2>1. CASE frames' = fs /\ pc' = "entries"
    BY <1>2, <1>6, <2>1
  <2>2. CASE frames' = Append(fs, inner) /\ pc' = "enter"
    <3>1. /\ Append(fs, inner) \in Seq(FrameType) /\ Len(Append(fs, inner)) = N + 1
          /\ Append(fs, inner)[N + 1] = inner
          /\ \A k \in 1..N : Append(fs, inner)[k] = fs[k]
      BY <1>2, <1>6, <1>11
    <3> QED
      BY <1>2, <2>2, <3>1
  <2> QED
    BY <1>1, <2>1, <2>2
<1>16. \A k \in 1..Len(frames') : k \in 1..N \/ (k = N + 1 /\ Len(frames') = N + 1)
  BY <1>2, <1>15
<1>17. ShapeInv'
  BY <1>1, <1>2, <1>14, <1>15 DEF Inv, ShapeInv, Messages
<1>18. CheckpointInv'
  <2>1. \A k \in 1..Len(frames') : frames'[k].checkpoint <= Len(scoped')
    <3>1. \A k \in 1..N : frames'[k].checkpoint = frames[k].checkpoint
      BY <1>6, <1>15
    <3>2. \A k \in 1..N : frames[k].checkpoint <= Len(scoped)
      BY DEF Inv, CheckpointInv
    <3> QED
      BY <1>1, <1>10, <1>11, <1>15, <1>16, <3>1, <3>2
  <2>2. \A l \in 1..Len(frames') : \A k \in 1..(l - 1) :
            frames'[k].checkpoint <= frames'[l].checkpoint
    <3> SUFFICES ASSUME NEW l \in 1..Len(frames'), NEW k \in 1..(l - 1)
                 PROVE  frames'[k].checkpoint <= frames'[l].checkpoint
      OBVIOUS
    <3>1. k \in 1..N
      BY <1>2, <1>16
    <3>2. CASE l \in 1..N
      <4>1. frames[k].checkpoint <= frames[l].checkpoint
        BY <3>2 DEF Inv, CheckpointInv
      <4>2. /\ frames'[k].checkpoint = frames[k].checkpoint
            /\ frames'[l].checkpoint = frames[l].checkpoint
        BY <1>6, <1>15, <3>1, <3>2
      <4> QED
        BY <4>1, <4>2
    <3>3. CASE l = N + 1 /\ Len(frames') = N + 1
      BY <1>1, <1>11, <1>15, <2>1, <3>1, <3>3
    <3> QED
      BY <1>16, <3>2, <3>3
  <2> QED
    BY <2>1, <2>2 DEF CheckpointInv
<1>19. NestedInv'
  <2> SUFFICES ASSUME NEW l \in 1..Len(frames'), NEW k \in 1..(l - 1)
               PROVE  /\ Len(frames'[k].scope) < Len(frames'[l].scope)
                      /\ StartsWith(frames'[l].scope, frames'[k].scope)
                      /\ \A m \in frames'[k].left :
                            frames'[l].scope[Len(frames'[k].scope) + 1] < m
    BY DEF NestedInv
  <2>1. k \in 1..N /\ frames'[k].scope = frames[k].scope /\ frames'[k].left = fs[k].left
    <3>1. k \in 1..N
      BY <1>2, <1>16
    <3> QED
      BY <1>6, <1>15, <3>1
  <2>2. CASE l \in 1..N
    <3>1. frames'[l].scope = frames[l].scope /\ fs[k].left \subseteq frames[k].left
      BY <1>6, <1>15, <2>1, <2>2
    <3> QED
      BY <2>1, <2>2, <3>1 DEF Inv, NestedInv
  <2>3. CASE l = N + 1 /\ Len(frames') = N + 1
    BY <1>11, <1>12, <1>15, <2>1, <2>3
  <2> QED
    BY <1>16, <2>2, <2>3
<1>20. AheadInv'
  <2> SUFFICES ASSUME NEW i \in 1..(S + 1), NEW k \in 1..N, NEW m \in fs[k].left
               PROVE  Before(sent'[i].path, Append(frames[k].scope, m))
    <3>1. ASSUME NEW k \in 1..Len(frames'), NEW m \in frames'[k].left
          PROVE  k \in 1..N /\ m \in fs[k].left /\ frames'[k].scope = frames[k].scope
      <4>1. CASE k = N + 1 /\ Len(frames') = N + 1
        BY <1>11, <1>15, <3>1, <4>1
      <4>2. CASE k \in 1..N
        BY <1>6, <1>15, <3>1, <4>2
      <4> QED
        BY <1>16, <4>1, <4>2
    <3> QED
      BY <1>14, <3>1 DEF AheadInv
  <2>1. m \in frames[k].left /\ m \in Nat /\ frames[k].scope \in Seq(Nat)
    BY <1>3, <1>6 DEF FrameType
  <2>2. CASE i \in 1..S
    BY <1>14, <2>1, <2>2 DEF Inv, AheadInv
  <2>3. CASE i = S + 1
    <3>1. Before(c, Append(frames[k].scope, m))
      BY <1>7, <1>12, <2>1, BelowBefore
    <3> QED
      BY <1>8, <1>14, <2>3, <3>1
  <2> QED
    BY <1>13, <2>2, <2>3
<1>21. EnterInv'
  <2> SUFFICES ASSUME pc' = "enter", NEW i \in 1..(S + 1)
               PROVE  sent'[i].path = c \/ Before(sent'[i].path, c)
    BY <1>11, <1>14, <1>15 DEF EnterInv, Top
  <2> QED
    BY <1>8, <1>9, <1>13, <1>14
<1>22. CanonicalOrder'
  <2> SUFFICES ASSUME NEW i \in 1..(S + 1), NEW j \in 1..(S + 1), i < j, sent'[j].kind \in Kinds
               PROVE  Before(sent'[i].path, sent'[j].path)
    BY <1>14 DEF CanonicalOrder
  <2>1. i \in 1..S
    BY <1>13
  <2>2. CASE j \in 1..S
    BY <1>14, <2>1, <2>2 DEF Inv, CanonicalOrder
  <2>3. CASE j = S + 1
    BY <1>8, <1>9, <1>14, <2>1, <2>3
  <2> QED
    BY <1>13, <2>2, <2>3
<1> QED
  BY <1>17, <1>18, <1>19, <1>20, <1>21, <1>22 DEF Inv

\* Returning from a directory drops its frame and the rules found in it.
LEMMA LeaveStep ==
    ASSUME Inv, LeaveDirectory
    PROVE  Inv'
<1> DEFINE N == Len(frames)
           kept == Top.checkpoint
<1>1. /\ pc = "entries" /\ UNCHANGED <<tree, sent>>
      /\ scoped' = SubSeq(scoped, 1, kept)
      /\ frames' = SubSeq(frames, 1, N - 1)
      /\ pc' = IF N = 1 THEN "end" ELSE "entries"
  BY DEF LeaveDirectory, Restore, input, channel
<1>2. frames \in Seq(FrameType) /\ N \in Nat \ {0}
  BY <1>1 DEF Inv, ShapeInv
<1>3. \A k \in 1..N : frames[k] \in FrameType
  BY <1>2
<1>4. kept \in Nat /\ kept <= Len(scoped) /\ Len(scoped) \in Nat
  BY <1>2, <1>3 DEF Inv, ShapeInv, CheckpointInv, Top, FrameType
<1>5. /\ frames' \in Seq(FrameType) /\ Len(frames') = N - 1
      /\ \A k \in 1..(N - 1) : frames'[k] = frames[k]
  <2> DEFINE M == N - 1
  <2>1. M \in Nat /\ M <= N
    BY <1>2
  <2> HIDE DEF M
  <2>2. /\ SubSeq(frames, 1, M) \in Seq(FrameType) /\ Len(SubSeq(frames, 1, M)) = M
        /\ \A k \in 1..M : SubSeq(frames, 1, M)[k] = frames[k]
    BY <1>2, <2>1
  <2> QED
    BY <1>1, <2>2 DEF M
<1>6. (\E S : scoped' \in Seq(S)) /\ Len(scoped') = kept
  <2>1. PICK S : scoped \in Seq(S)
    BY DEF Inv, ShapeInv
  <2> HIDE DEF kept
  <2>2. SubSeq(scoped, 1, kept) \in Seq(S) /\ Len(SubSeq(scoped, 1, kept)) = kept
    BY <1>4, <2>1
  <2> QED
    BY <1>1, <2>2
<1>7. NestedInv' /\ AheadInv' /\ CanonicalOrder'
  <2>1. \A k \in 1..Len(frames') :
            frames'[k].scope = frames[k].scope /\ frames'[k].left \subseteq frames[k].left
    BY <1>5
  <2> QED
    BY <1>1, <1>2, <1>5, <2>1, ShrinkStep
<1>8. ShapeInv'
  <2>1. pc' \in {"end", "entries"} /\ (pc' = "entries" => frames' # << >>)
    <3>1. CASE N = 1
      BY <1>1, <3>1
    <3>2. CASE N # 1
      <4>1. Len(frames') # 0
        BY <1>2, <1>5, <3>2
      <4>2. frames' # << >>
        BY <4>1
      <4> QED
        BY <1>1, <3>2, <4>2
    <3> QED
      BY <3>1, <3>2
  <2> QED
    BY <1>1, <1>5, <1>6, <2>1 DEF Inv, ShapeInv, Messages
<1>9. CheckpointInv'
  <2>1. \A k \in 1..(N - 1) : k \in 1..N /\ frames[k].checkpoint <= kept
    BY <1>2 DEF Inv, CheckpointInv, Top
  <2>2. \A l \in 1..(N - 1) : \A k \in 1..(l - 1) : k \in 1..(N - 1)
    BY <1>2
  <2> QED
    BY <1>5, <1>6, <2>1, <2>2 DEF Inv, CheckpointInv
<1>10. EnterInv'
  BY <1>1 DEF EnterInv
<1> QED
  BY <1>7, <1>8, <1>9, <1>10 DEF Inv

\* The last message is the end marker or an error, before every record.
LEMMA LastStep ==
    ASSUME Inv, NEW m \in {End, Err}, UNCHANGED <<tree, frames, scoped>>,
           sent' = Append(sent, m), pc' \in {"ok", "failed"}
    PROVE  Inv'
<1> DEFINE S == Len(sent)
<1>1. sent \in Seq(Messages) /\ S \in Nat /\ frames \in Seq(FrameType)
  BY DEF Inv, ShapeInv
<1>2. m \in Messages /\ m.path = << >> /\ m.kind \notin Kinds
  BY MessagePaths DEF Messages
<1>3. /\ sent' \in Seq(Messages) /\ Len(sent') = S + 1 /\ sent'[S + 1] = m
      /\ \A i \in 1..S : sent'[i] = sent[i]
  BY <1>1, <1>2
<1>4. \A i \in 1..(S + 1) : i \in 1..S \/ i = S + 1
  BY <1>1
<1>5. ShapeInv'
  BY <1>3 DEF Inv, ShapeInv, Messages
<1>6. CheckpointInv' /\ NestedInv' /\ EnterInv'
  BY DEF Inv, CheckpointInv, NestedInv, EnterInv
<1>7. AheadInv'
  <2> SUFFICES ASSUME NEW i \in 1..(S + 1), NEW k \in 1..Len(frames), NEW e \in frames[k].left
               PROVE  Before(sent'[i].path, Append(frames[k].scope, e))
    BY <1>3 DEF AheadInv
  <2>1. frames[k].scope \in Seq(Nat) /\ e \in Nat
    <3>1. frames[k] \in FrameType
      BY <1>1
    <3> QED
      BY <3>1 DEF FrameType
  <2>2. CASE i \in 1..S
    BY <1>3, <2>2 DEF Inv, AheadInv
  <2>3. CASE i = S + 1
    BY <1>2, <1>3, <2>1, <2>3, EmptyBefore
  <2> QED
    BY <1>4, <2>2, <2>3
<1>8. CanonicalOrder'
  <2> SUFFICES ASSUME NEW i \in 1..(S + 1), NEW j \in 1..(S + 1), i < j, sent'[j].kind \in Kinds
               PROVE  Before(sent'[i].path, sent'[j].path)
    BY <1>3 DEF CanonicalOrder
  <2>1. j \in 1..S /\ i \in 1..S
    BY <1>1, <1>2, <1>3, <1>4
  <2> QED
    BY <1>3, <2>1 DEF Inv, CanonicalOrder
<1> QED
  BY <1>5, <1>6, <1>7, <1>8 DEF Inv

-----------------------------------------------------------------------------
\* Every step keeps the order.
LEMMA InvStep == Inv /\ [Next]_vars => Inv'
<1> SUFFICES ASSUME Inv, [Next]_vars PROVE Inv'
  OBVIOUS
<1>1. CASE Start
  <2>1. CASE exclusions.valid
    BY <1>1, <2>1, StartStep
  <2>2. CASE ~exclusions.valid
    BY <1>1, <2>2, QuietStep DEF Start, Fail, input, channel
  <2> QED
    BY <2>1, <2>2
<1>2. CASE EnterDirectory
  <2>1. CASE pc' # "error"
    BY <1>2, <2>1, EnterStep
  <2>2. CASE pc' = "error"
    BY <1>2, <2>2, QuietStep DEF EnterDirectory, Fail, input, channel
  <2> QED
    BY <2>1, <2>2
<1>3. CASE LeaveDirectory
  BY <1>3, LeaveStep
<1>4. ASSUME NEW n \in DOMAIN NameBytes, ConsiderEntry(n) PROVE Inv'
  <2>1. CASE pc' # "error"
    BY <1>4, <2>1, ConsiderStep
  <2>2. CASE pc' = "error"
    BY <1>4, <2>2, QuietStep DEF ConsiderEntry, Fail, input, channel
  <2> QED
    BY <2>1, <2>2
<1>5. ASSUME NEW n \in DOMAIN NameBytes, EmitRecord(n) PROVE Inv'
  BY <1>5, EmitStep
<1>6. CASE EmitEnd
  BY <1>6, LastStep DEF EmitEnd, input
<1>7. CASE EmitFails \/ FileSystemFails
  BY <1>7, QuietStep DEF EmitFails, FileSystemFails, Fail, input, channel
<1>8. CASE ReportError
  <2>1. CASE UNCHANGED sent
    BY <1>8, <2>1 DEF ReportError, input, Inv, ShapeInv, CheckpointInv, NestedInv,
                      AheadInv, EnterInv, CanonicalOrder, Messages
  <2>2. CASE sent' = Append(sent, Err)
    BY <1>8, <2>2, LastStep DEF ReportError, input
  <2> QED
    BY <1>8, <2>1, <2>2 DEF ReportError, Failure
<1>9. CASE Receive \/ HangUp
  BY <1>9, QuietStep DEF Receive, HangUp, input
<1>10. CASE UNCHANGED vars
  BY <1>10, QuietStep DEF vars, input, channel
<1> QED
  BY <1>1, <1>2, <1>3, <1>4, <1>5, <1>6, <1>7, <1>8, <1>9, <1>10 DEF Next, Worker

\* The index stream and the planner receive every tree in canonical path order,
\* each path once (scan.rs:105 sorts the entries of one directory at a time).
THEOREM ScanOrdered == Spec => []CanonicalOrder
<1>1. Inv => CanonicalOrder
  BY DEF Inv
<1> QED
  BY InvInit, InvStep, <1>1, PTL DEF Spec

-----------------------------------------------------------------------------
Running == pc \in {"enter", "entries", "emit", "end", "ok"}

(***************************************************************************)
(* What a scan has still ahead of it: whatever is at or below an entry     *)
(* that an active call has left, and all below a directory it enters.      *)
(***************************************************************************)
Ahead(fs, entering, p) ==
    \/ \E k \in 1..Len(fs) : \E m \in fs[k].left : StartsWith(p, Append(fs[k].scope, m))
    \/ entering /\ Below(p, fs[Len(fs)].scope)

\* The active calls are in a directory, the one above it, and so on to the root.
Place(fs) ==
    \A k \in 1..Len(fs) :
        /\ Len(fs[k].scope) = k - 1 /\ fs[k].scope \in Visited
        /\ \A m \in fs[k].left : /\ Append(fs[k].scope, m) \in Universe
                                 /\ Present(tree, Append(fs[k].scope, m))

Acceptable(c) == ~OverLimit(c) /\ ~Unsupported(c)

\* The entry that is sent next has passed all tests.
Passed(top) ==
    \A n \in top.left : (\A m \in top.left : n <= m) =>
        Managed(tree, Append(top.scope, n), Rules) /\ Acceptable(Append(top.scope, n))

(***************************************************************************)
(* The rule sets in force, by the depth at which they were found: 0 for    *)
(* the exclusions, k for the ignore file of the k-th active call.          *)
(***************************************************************************)
RuleSet(fs, k) ==
    IF k = 0 THEN [scope |-> <<>>, matcher |-> exclusions] ELSE ScopedRuleSet(fs[k].scope)

HasRules(fs, k) == IF k = 0 THEN exclusions # NoRules ELSE HasIgnoreFile(fs[k].scope)

\* e is the number of calls that have read their directory.
InForce(g, sc, fs, e) ==
    /\ g \in [1..Len(sc) -> 0..e]
    /\ \A i, j \in 1..Len(sc) : i < j => g[i] < g[j]
    /\ \A i \in 1..Len(sc) : HasRules(fs, g[i]) /\ sc[i] = RuleSet(fs, g[i])
    /\ \A k \in 0..e : HasRules(fs, k) => \E i \in 1..Len(sc) : g[i] = k
    /\ \A k \in 1..Len(fs) : \A i \in 1..Len(sc) : i <= fs[k].checkpoint <=> g[i] < k

Collected(sc, fs, e) == \E g \in [1..Len(sc) -> 0..e] : InForce(g, sc, fs, e)

\* Everything listed is sent or ahead.
ListedPath(p) == p \in Universe /\ Listed(tree, p, Rules)

Covered(fs, entering, S) ==
    \A p \in Universe : ListedPath(p) => RecordAt(tree, p) \in S \/ Ahead(fs, entering, p)

\* Every directory that is visited was found acceptable, or is ahead.
Clean(fs, entering, d) ==
    /\ HasIgnoreFile(d) => RulesAt(d).valid
    /\ \A c \in Children(tree, d) : Acceptable(c) \/ Ahead(fs, entering, c)

Checked(fs, entering) ==
    \A d \in Visited :
        \/ Ahead(fs, entering, d) \/ (entering /\ d = fs[Len(fs)].scope)
        \/ Clean(fs, entering, d)

\* The parts of the inductive invariant.
InputInv == tree \in Trees /\ exclusions \in Exclusions

PlaceInv == Place(frames)

PassedInv == pc = "emit" => Passed(Top)

RulesInv ==
    pc \in {"enter", "entries", "emit"} =>
        Collected(scoped, frames, IF pc = "enter" THEN Len(frames) - 1 ELSE Len(frames))

CoverInv == Running => Covered(frames, pc = "enter", SentRecords)

CheckedInv == Running => exclusions.valid /\ Checked(frames, pc = "enter")

CauseInv == pc \in {"error", "failed"} => ~open \/ faulted \/ Unscannable

SentInv ==
    /\ SentRecords \subseteq Listing
    /\ \A r \in Listing \ SentRecords : \A q \in SentRecords : Before(q.path, r.path)

EndInv ==
    /\ \A i \in 1..Len(sent) : sent[i].kind = "End" => pc = "ok"
    /\ pc = "ok" => sent # << >> /\ sent[Len(sent)] = End
    /\ pc \in {"end", "ok"} => frames = << >>

WalkInv ==
    /\ InputInv /\ PlaceInv /\ PassedInv /\ RulesInv /\ CoverInv /\ CheckedInv
    /\ CauseInv /\ SentInv /\ EndInv

\* A set of numbers up to n that is not empty has a greatest one.
LEMMA GreatestNumber ==
    ASSUME NEW n \in Nat, NEW S \in SUBSET (0..n), S # {}
    PROVE  \E k \in S : \A l \in S : l <= k
<1> DEFINE T == {m \in Nat : \A l \in S : l <= m}
<1>1. n \in T /\ T \subseteq Nat
  OBVIOUS
<1>2. PICK m \in T : \A x \in T : ~(x < m)
  <2>1. PICK m \in T : \A x \in T : ~(<<x, m>> \in OpToRel(<, Nat))
    BY <1>1, NatLessThanWellFounded, WFMin
  <2> QED
    BY <1>1, <2>1 DEF OpToRel
<1>3. m \in S
  <2> SUFFICES ASSUME m \notin S PROVE FALSE
    OBVIOUS
  <2>1. \A l \in S : l <= m - 1
    BY <1>2
  <2>2. m - 1 \in Nat
    <3>1. PICK l \in S : TRUE
      OBVIOUS
    <3>2. l >= 0 /\ l <= m - 1 /\ l \in Nat /\ m \in Nat
      BY <2>1
    <3> QED
      BY <3>2
  <2> QED
    BY <1>2, <2>1, <2>2
<1> QED
  BY <1>2, <1>3

\* The longest prefix of p that a matcher knows decides on p.
Longest(m, p, isDir, n) ==
    n \in Matches(m, p, isDir) /\ \A l \in Matches(m, p, isDir) : l <= n

\* What the matcher's answer is, without the choice in its definition.
LEMMA VerdictFacts ==
    ASSUME NEW m, NEW p, Len(p) \in Nat, NEW isDir
    PROVE  /\ Verdict(m, p, isDir) \in {"None", "Ignore", "Whitelist"}
           /\ Verdict(m, p, isDir) = "None" <=> Matches(m, p, isDir) = {}
           /\ Verdict(m, p, isDir) = "Ignore" <=>
                \E n \in Nat : /\ Longest(m, p, isDir, n)
                               /\ <<SubSeq(p, 1, n), n < Len(p) \/ isDir>> \in m.ignore
<1> DEFINE hits == Matches(m, p, isDir)
           top == CHOOSE k \in hits : \A l \in hits : l <= k
           Ignores(n) == <<SubSeq(p, 1, n), n < Len(p) \/ isDir>> \in m.ignore
<1>0. Len(p) \in Nat
  OBVIOUS
<1>1. hits \in SUBSET (0..Len(p))
  BY DEF Matches
<1>2. Verdict(m, p, isDir) = CASE hits = {} -> "None"
                               [] hits # {} /\ Ignores(top) -> "Ignore"
                               [] OTHER -> "Whitelist"
  BY DEF Verdict
<1> HIDE DEF Ignores
<1>3. hits # {} => top \in hits /\ \A l \in hits : l <= top
  <2> HIDE DEF hits
  <2> QED
    BY <1>0, <1>1, GreatestNumber
<1>4. \A n \in Nat : Longest(m, p, isDir, n) => n = top /\ hits # {}
  <2> HIDE DEF top
  <2> QED
    BY <1>0, <1>1, <1>3 DEF Longest
<1>5. hits # {} => top \in Nat /\ Longest(m, p, isDir, top)
  <2> HIDE DEF top
  <2> QED
    BY <1>0, <1>1, <1>3 DEF Longest
<1> HIDE DEF hits, top
<1>6. Verdict(m, p, isDir) = "Ignore" <=> hits # {} /\ Ignores(top)
  BY <1>2
<1>7. (hits # {} /\ Ignores(top)) <=> \E n \in Nat : Longest(m, p, isDir, n) /\ Ignores(n)
  BY <1>4, <1>5
<1>8. Verdict(m, p, isDir) \in {"None", "Ignore", "Whitelist"} /\ (Verdict(m, p, isDir) = "None" <=> hits = {})
  BY <1>2
<1> QED
  BY <1>6, <1>7, <1>8 DEF Ignores, hits

-----------------------------------------------------------------------------
\* What the i-th rule set in force says of p.
Asked(i, p, isDir) == ScopedVerdict(scoped[i], p, isDir)

\* The last rule set that matches p ignores it.
LastIgnores(n, p, isDir) ==
    \E i \in 1..n : /\ Asked(i, p, isDir) = "Ignore"
                    /\ \A j \in (i + 1)..n : Asked(j, p, isDir) = "None"

\* The equation of the loop of `decision`.
IsLoop(f, p, isDir) ==
    f = [n \in 0..Len(scoped) |->
            IF n = 0 THEN FALSE
            ELSE CASE Asked(n, p, isDir) = "Ignore"    -> TRUE
                   [] Asked(n, p, isDir) = "Whitelist" -> FALSE
                   [] OTHER -> f[n - 1]]

\* The loop is the function that satisfies its equation.
LEMMA LoopUnfold ==
    ASSUME NEW p, NEW isDir
    PROVE  IgnoredBy(p, isDir) = (CHOOSE f : IsLoop(f, p, isDir))[Len(scoped)]
BY DEF IgnoredBy, IsLoop, Asked

\* One more rule set.
LEMMA LastIgnoresStep ==
    ASSUME NEW p, NEW isDir, NEW n \in Nat \ {0},
           \A i \in 1..n : Asked(i, p, isDir) \in {"None", "Ignore", "Whitelist"}
    PROVE  LastIgnores(n, p, isDir) <=>
                \/ Asked(n, p, isDir) = "Ignore"
                \/ Asked(n, p, isDir) = "None" /\ LastIgnores(n - 1, p, isDir)
<1>1. n \in 1..n /\ \A j \in (n + 1)..n : FALSE
  OBVIOUS
<1>2. Asked(n, p, isDir) = "Ignore" => LastIgnores(n, p, isDir)
  BY <1>1 DEF LastIgnores
<1>3. ASSUME Asked(n, p, isDir) = "None", LastIgnores(n - 1, p, isDir)
      PROVE  LastIgnores(n, p, isDir)
  <2>1. PICK i \in 1..(n - 1) : /\ Asked(i, p, isDir) = "Ignore"
                                /\ \A j \in (i + 1)..(n - 1) : Asked(j, p, isDir) = "None"
    BY <1>3 DEF LastIgnores
  <2>2. i \in 1..n /\ \A j \in (i + 1)..n : j \in (i + 1)..(n - 1) \/ j = n
    OBVIOUS
  <2> QED
    BY <1>3, <2>1, <2>2 DEF LastIgnores
<1>4. ASSUME LastIgnores(n, p, isDir), Asked(n, p, isDir) # "Ignore"
      PROVE  Asked(n, p, isDir) = "None" /\ LastIgnores(n - 1, p, isDir)
  <2>1. PICK i \in 1..n : /\ Asked(i, p, isDir) = "Ignore"
                          /\ \A j \in (i + 1)..n : Asked(j, p, isDir) = "None"
    BY <1>4 DEF LastIgnores
  <2>2. i # n
    BY <1>4, <2>1
  <2>3. i \in 1..(n - 1) /\ n \in (i + 1)..n /\ \A j \in (i + 1)..(n - 1) : j \in (i + 1)..n
    BY <2>2
  <2> QED
    BY <2>1, <2>3 DEF LastIgnores
<1> QED
  BY <1>2, <1>3, <1>4

\* What the loop of `decision` computes.
LEMMA LoopIsLast ==
    ASSUME NEW p \in Seq(Nat), NEW isDir, Len(scoped) \in Nat,
           \A i \in 1..Len(scoped) : Asked(i, p, isDir) \in {"None", "Ignore", "Whitelist"}
    PROVE  IgnoredBy(p, isDir) <=> LastIgnores(Len(scoped), p, isDir)
<1> DEFINE f == [n \in 0..Len(scoped) |-> LastIgnores(n, p, isDir)]
<1>0. PICK N \in Nat : N = Len(scoped)
  OBVIOUS
<1>1. ASSUME NEW n \in 0..N
      PROVE  LastIgnores(n, p, isDir) =
                IF n = 0 THEN FALSE
                ELSE CASE Asked(n, p, isDir) = "Ignore"    -> TRUE
                       [] Asked(n, p, isDir) = "Whitelist" -> FALSE
                       [] OTHER -> f[n - 1]
  <2>1. CASE n = 0
    BY <2>1 DEF LastIgnores
  <2>2. CASE n # 0
    <3>1. n \in Nat \ {0} /\ n - 1 \in 0..N /\ n \in 1..N /\ \A i \in 1..n : i \in 1..N
      BY <2>2
    <3>2. f[n - 1] = LastIgnores(n - 1, p, isDir)
      BY <1>0, <3>1
    <3> HIDE DEF f
    <3>3. LastIgnores(n, p, isDir) <=>
                \/ Asked(n, p, isDir) = "Ignore"
                \/ Asked(n, p, isDir) = "None" /\ LastIgnores(n - 1, p, isDir)
      BY <1>0, <3>1, LastIgnoresStep
    <3>4. Asked(n, p, isDir) \in {"None", "Ignore", "Whitelist"}
      BY <1>0, <3>1
    <3>5. LastIgnores(n, p, isDir) \in BOOLEAN /\ LastIgnores(n - 1, p, isDir) \in BOOLEAN
      BY DEF LastIgnores
    <3>6. CASE Asked(n, p, isDir) = "Ignore"
      BY <2>2, <3>3, <3>5, <3>6
    <3>7. CASE Asked(n, p, isDir) = "Whitelist"
      BY <2>2, <3>3, <3>5, <3>7
    <3>8. CASE Asked(n, p, isDir) = "None"
      BY <2>2, <3>2, <3>3, <3>5, <3>8
    <3> QED
      BY <3>4, <3>6, <3>7, <3>8
  <2> QED
    BY <2>1, <2>2
<1>2. IsLoop(f, p, isDir)
  BY <1>0, <1>1 DEF IsLoop
<1>3. PICK h : h = CHOOSE g : IsLoop(g, p, isDir)
  OBVIOUS
<1>4. IsLoop(h, p, isDir)
  <2> HIDE DEF f
  <2> QED
    BY <1>2, <1>3
<1>5. \A n \in 0..N : f[n] = LastIgnores(n, p, isDir)
  BY <1>0
<1> HIDE DEF f
<1>6. \A n \in 0..N : h[n] = f[n]
  <2> SUFFICES ASSUME NEW x \in 0..N, h[x] # f[x] PROVE FALSE
    OBVIOUS
  <2> DEFINE T == {m \in 0..N : h[m] # f[m]}
  <2>1. x \in T /\ T \subseteq Nat
    OBVIOUS
  <2>2. PICK n \in T : \A y \in T : ~(y < n)
    <3>1. PICK n \in T : \A y \in T : ~(<<y, n>> \in OpToRel(<, Nat))
      BY <2>1, NatLessThanWellFounded, WFMin
    <3> QED
      BY <2>1, <3>1 DEF OpToRel
  <2>3. n # 0 => n - 1 \in 0..N /\ h[n - 1] = f[n - 1]
    BY <2>2
  <2>4. /\ h[n] = IF n = 0 THEN FALSE
                  ELSE CASE Asked(n, p, isDir) = "Ignore"    -> TRUE
                         [] Asked(n, p, isDir) = "Whitelist" -> FALSE
                         [] OTHER -> h[n - 1]
        /\ f[n] = IF n = 0 THEN FALSE
                  ELSE CASE Asked(n, p, isDir) = "Ignore"    -> TRUE
                         [] Asked(n, p, isDir) = "Whitelist" -> FALSE
                         [] OTHER -> f[n - 1]
    BY <1>0, <1>2, <1>4 DEF IsLoop
  <2>5. h[n] = f[n]
    BY <2>3, <2>4
  <2> QED
    BY <2>2, <2>5
<1> QED
  <2>1. N \in 0..N
    OBVIOUS
  <2>2. IgnoredBy(p, isDir) = h[N]
    BY <1>0, <1>3, LoopUnfold
  <2> QED
    BY <1>0, <1>5, <1>6, <2>1, <2>2

-----------------------------------------------------------------------------
\* The lexicographically greatest of a set of pairs, by their first components.
Greatest(D, G) ==
    \E c \in D : /\ \A e \in D : e[1] < c[1] \/ (e[1] = c[1] /\ e[2] <= c[2])
                 /\ c \in G

GreatestByFirst(D, G, g, M) ==
    \E i \in 1..M :
        /\ \E c \in D : /\ c[1] = g[i] /\ c \in G
                        /\ \A e \in D : e[1] = g[i] => e[2] <= c[2]
        /\ \A j \in (i + 1)..M : \A e \in D : e[1] # g[j]

\* Both say the same if g lists the first components in increasing order.
LEMMA LexicographicMax ==
    ASSUME NEW N \in Nat, NEW M \in Nat, NEW g \in [1..M -> 0..N],
           \A i, j \in 1..M : i < j => g[i] < g[j],
           NEW D \in SUBSET ((0..N) \X (0..N)), NEW G,
           \A c \in D : \E i \in 1..M : g[i] = c[1]
    PROVE  Greatest(D, G) <=> GreatestByFirst(D, G, g, M)
<1>0. \A c \in D : c[1] \in 0..N /\ c[2] \in 0..N
  OBVIOUS
<1>1. ASSUME NEW c \in D, c \in G,
             \A e \in D : e[1] < c[1] \/ (e[1] = c[1] /\ e[2] <= c[2])
      PROVE  \E i \in 1..M :
                  /\ \E d \in D : /\ d[1] = g[i] /\ d \in G
                                  /\ \A e \in D : e[1] = g[i] => e[2] <= d[2]
                  /\ \A j \in (i + 1)..M : \A e \in D : e[1] # g[j]
  <2>1. PICK i \in 1..M : g[i] = c[1]
    OBVIOUS
  <2>2. \A e \in D : e[1] = g[i] => e[2] <= c[2]
    BY <1>0, <1>1, <2>1
  <2>3. ASSUME NEW j \in (i + 1)..M, NEW e \in D, e[1] = g[j] PROVE FALSE
    <3>1. j \in 1..M /\ i < j
      OBVIOUS
    <3>2. g[i] < g[j] /\ g[i] \in 0..N /\ g[j] \in 0..N
      BY <3>1
    <3>3. PICK x \in Nat, y \in Nat : x = c[1] /\ y = e[1]
      BY <1>0
    <3>4. y < x \/ y = x
      BY <1>1, <3>3
    <3>5. x = g[i] /\ y = g[j] /\ x < y
      BY <2>1, <2>3, <3>2, <3>3
    <3> QED
      BY ONLY <3>3, <3>4, <3>5
  <2> QED
    BY <1>1, <2>1, <2>2, <2>3
<1>2. ASSUME NEW i \in 1..M, NEW c \in D, c[1] = g[i], c \in G,
             \A e \in D : e[1] = g[i] => e[2] <= c[2],
             \A j \in (i + 1)..M : \A e \in D : e[1] # g[j]
      PROVE  \A e \in D : e[1] < c[1] \/ (e[1] = c[1] /\ e[2] <= c[2])
  <2> SUFFICES ASSUME NEW e \in D
               PROVE  e[1] < c[1] \/ (e[1] = c[1] /\ e[2] <= c[2])
    OBVIOUS
  <2>1. PICK k \in 1..M : g[k] = e[1]
    OBVIOUS
  <2>2. k <= i
    <3>1. k > i => k \in (i + 1)..M
      OBVIOUS
    <3> QED
      BY <1>2, <2>1, <3>1
  <2>3. CASE k = i
    BY <1>2, <2>1, <2>3
  <2>4. CASE k < i
    BY <1>2, <2>1, <2>4
  <2> QED
    BY <2>2, <2>3, <2>4
<1> QED
  BY <1>1, <1>2 DEF Greatest, GreatestByFirst

\* A part of a sequence.
LEMMA Part ==
    ASSUME NEW p \in Seq(Nat), NEW a \in Nat, NEW b \in Nat, a <= b, b <= Len(p)
    PROVE  LET r == SubSeq(p, a + 1, b)
           IN  r \in Seq(Nat) /\ Len(r) = b - a /\ \A i \in 1..(b - a) : r[i] = p[a + i]
<1>0. PICK m \in Int : m = a + 1
  OBVIOUS
<1>1. \A i \in m..b : i \in 1..Len(p)
  BY <1>0
<1>2. \A i \in m..b : p[i] \in Nat
  BY <1>1
<1>3. /\ SubSeq(p, m, b) \in Seq(Nat)
      /\ Len(SubSeq(p, m, b)) = IF m <= b THEN b - m + 1 ELSE 0
      /\ \A i \in 1..(b - m + 1) : SubSeq(p, m, b)[i] = p[m + i - 1]
  BY <1>2, SubSeqProperties
<1>4. b - m + 1 = b - a /\ (IF m <= b THEN b - m + 1 ELSE 0) = b - a
  BY <1>0
<1>5. \A i \in 1..(b - a) : m + i - 1 = a + i
  BY <1>0
<1> QED
  BY <1>0, <1>3, <1>4, <1>5

\* The crate asks for a path that is not longer than the one it is given.
LEMMA StrippedLength ==
    ASSUME NEW root \in Seq(Nat), NEW q \in Seq(Nat)
    PROVE  Len(Stripped(root, q)) \in 0..Len(q)
<1>1. PICK k \in Nat : k = Len(root)
  OBVIOUS
<1>2. PICK L \in Nat : L = Len(q)
  OBVIOUS
<1>3. PICK rest : rest = SubSeq(q, k + 1, L)
  OBVIOUS
<1>4. CASE k = 0 \/ k > L \/ L < 2 \/ SubSeq(q, 1, k - 1) # SubSeq(root, 1, k - 1)
  <2>1. Stripped(root, q) = q
    BY <1>1, <1>2, <1>4 DEF Stripped
  <2> QED
    BY <2>1
<1>5. CASE ~(k = 0 \/ k > L \/ L < 2 \/ SubSeq(q, 1, k - 1) # SubSeq(root, 1, k - 1))
  <2>1. rest \in Seq(Nat) /\ Len(rest) = L - k /\ k >= 1 /\ k <= L
    BY <1>2, <1>3, <1>5, Part
  <2> DEFINE pair == <<root[k], q[k]>>
  <2>2. Stripped(root, q) = CASE q[k] = root[k] -> rest
                              [] q[k] # root[k] /\ pair \in DOMAIN Suffixes ->
                                    <<Suffixes[pair]>> \o rest
                              [] OTHER -> q
    BY <1>1, <1>2, <1>3, <1>5 DEF Stripped
  <2>3. \/ Stripped(root, q) = rest \/ Stripped(root, q) = q
        \/ pair \in DOMAIN Suffixes /\ Stripped(root, q) = <<Suffixes[pair]>> \o rest
    BY <2>2
  <2> HIDE DEF pair
  <2>4. pair \in DOMAIN Suffixes => Len(<<Suffixes[pair]>> \o rest) = 1 + (L - k)
    <3> SUFFICES ASSUME pair \in DOMAIN Suffixes
                 PROVE  Len(<<Suffixes[pair]>> \o rest) = 1 + (L - k)
      OBVIOUS
    <3>1. PICK x \in Nat : x = Suffixes[pair]
      BY ScannerAssumption
    <3>2. <<x>> \in Seq(Nat) /\ Len(<<x>>) = 1
      BY ONLY <3>1
    <3>3. PICK one \in Seq(Nat) : one = <<x>> /\ Len(one) = 1
      BY ONLY <3>2
    <3>4. Len(one \o rest) = 1 + Len(rest)
      BY ONLY <2>1, <3>3, ConcatProperties
    <3> QED
      BY ONLY <2>1, <3>1, <3>3, <3>4
  <2> QED
    BY <1>2, <2>1, <2>3, <2>4
<1> QED
  BY <1>4, <1>5

\* The path asked about at one depth.
LEMMA AskedLength ==
    ASSUME NEW p \in Seq(Nat), NEW s \in 0..Len(p), Len(p) > 0
    PROVE  Len(AskedAt(s, p)) \in 0..Len(p)
<1>0. PICK L \in Nat : L = Len(p) /\ L > 0
  OBVIOUS
<1>1. PICK a \in Nat : a = Above(s) /\ a < L
  BY <1>0 DEF Above
<1>2. SubSeq(p, 1, a) \in Seq(Nat)
  BY <1>0, <1>1
<1>3. SubSeq(p, a + 1, L) \in Seq(Nat) /\ Len(SubSeq(p, a + 1, L)) = L - a
  BY <1>0, <1>1, Part
<1>4. AskedAt(s, p) = Stripped(SubSeq(p, 1, a), SubSeq(p, a + 1, L))
  BY <1>0, <1>1 DEF AskedAt, From
<1>5. PICK root \in Seq(Nat) : root = SubSeq(p, 1, a)
  BY <1>2
<1>6. PICK q \in Seq(Nat) : q = SubSeq(p, a + 1, L) /\ Len(q) = L - a
  BY <1>3
<1>7. Len(AskedAt(s, p)) \in 0..(L - a)
  BY <1>4, <1>5, <1>6, StrippedLength
<1> QED
  BY <1>0, <1>1, <1>7

\* The verdict of the rules found at one depth, in terms of Deciding.
IgnoredAt(s, p, isDir) ==
    \E c \in Deciding(p, isDir) :
        /\ c[1] = s
        /\ Ignoring(c, p, isDir)
        /\ \A e \in Deciding(p, isDir) : e[1] = s => e[2] <= c[2]

SilentAt(s, p, isDir) == \A e \in Deciding(p, isDir) : e[1] # s

\* The answer of the rules at one depth.
LEMMA VerdictAt ==
    ASSUME NEW p \in Seq(Nat), NEW isDir, NEW s \in 0..Len(p), Len(p) > 0,
           HasMatcher(s, p),
           NEW v, v = Verdict(Matcher(s, p), AskedAt(s, p), isDir)
    PROVE  /\ v \in {"None", "Ignore", "Whitelist"}
           /\ v = "None" <=> SilentAt(s, p, isDir)
           /\ v = "Ignore" <=> IgnoredAt(s, p, isDir)
<1>0. PICK L \in Nat : L = Len(p) /\ L > 0
  OBVIOUS
<1>1. PICK q : q = AskedAt(s, p)
  OBVIOUS
<1>2. Len(q) \in Nat /\ Len(q) <= L
  BY <1>0, <1>1, AskedLength
<1>3. PICK m : m = Matcher(s, p)
  OBVIOUS
<1>4. PICK H : H = Matches(m, q, isDir)
  OBVIOUS
<1>5. PICK D : D = Deciding(p, isDir)
  OBVIOUS
<1>6. \A k \in H : k \in Nat /\ k \in 0..L
  BY <1>2, <1>4 DEF Matches
<1>7. \A k : k \in H <=> <<s, k>> \in D
  <2> SUFFICES ASSUME NEW k PROVE k \in H <=> <<s, k>> \in D
    OBVIOUS
  <2>1. <<s, k>> \in D <=> k \in 0..L /\ k \in Matches(Matcher(s, p), AskedAt(s, p), isDir)
    BY <1>0, <1>5 DEF Deciding
  <2> QED
    BY <1>1, <1>3, <1>4, <1>6, <2>1
<1>8. \A c \in D : c = <<c[1], c[2]>> /\ c[2] \in Nat
  BY <1>0, <1>5 DEF Deciding
<1>9. \A c \in D : c[1] = s => c[2] \in H /\ c = <<s, c[2]>>
  BY <1>7, <1>8
<1> DEFINE Ignores(k) == <<SubSeq(q, 1, k), k < Len(q) \/ isDir>> \in m.ignore
<1>10. /\ v \in {"None", "Ignore", "Whitelist"}
       /\ v = "None" <=> H = {}
       /\ v = "Ignore" <=> \E k \in H : (\A l \in H : l <= k) /\ Ignores(k)
  <2>1. v = Verdict(m, q, isDir)
    BY <1>1, <1>3
  <2>2. /\ v \in {"None", "Ignore", "Whitelist"}
        /\ v = "None" <=> H = {}
        /\ v = "Ignore" <=> \E k \in Nat : Longest(m, q, isDir, k) /\ Ignores(k)
    BY <1>2, <1>4, <2>1, VerdictFacts, ZenonT(60)
  <2>3. \A k \in Nat : Longest(m, q, isDir, k) <=> k \in H /\ \A l \in H : l <= k
    BY <1>4 DEF Longest
  <2> HIDE DEF Ignores
  <2> QED
    BY <1>6, <2>2, <2>3
<1>11. \A k \in H : Ignores(k) <=> Ignoring(<<s, k>>, p, isDir)
  BY <1>1, <1>3 DEF Ignoring
<1> HIDE DEF Ignores
<1>12. H = {} <=> SilentAt(s, p, isDir)
  <2>1. ASSUME NEW k \in H PROVE ~SilentAt(s, p, isDir)
    <3>1. <<s, k>> \in D /\ <<s, k>>[1] = s
      BY <1>7
    <3> QED
      BY <1>5, <3>1 DEF SilentAt
  <2>2. ASSUME NEW e \in D, e[1] = s PROVE H # {}
    BY <1>9, <2>2
  <2> QED
    BY <1>5, <2>1, <2>2 DEF SilentAt
<1>13. ASSUME NEW k \in H, \A l \in H : l <= k, Ignores(k)
       PROVE  IgnoredAt(s, p, isDir)
  <2>1. PICK c : c = <<s, k>>
    OBVIOUS
  <2>2. c \in D /\ c[1] = s /\ c[2] = k /\ Ignoring(c, p, isDir)
    BY <1>7, <1>11, <1>13, <2>1
  <2>3. \A e \in D : e[1] = s => e[2] <= c[2]
    BY <1>9, <1>13, <2>2
  <2> QED
    BY <1>5, <2>2, <2>3 DEF IgnoredAt
<1>14. ASSUME IgnoredAt(s, p, isDir)
       PROVE  \E k \in H : (\A l \in H : l <= k) /\ Ignores(k)
  <2>1. PICK c \in D : /\ c[1] = s /\ Ignoring(c, p, isDir)
                       /\ \A e \in D : e[1] = s => e[2] <= c[2]
    BY <1>5, <1>14 DEF IgnoredAt
  <2>2. PICK k \in H : k = c[2] /\ c = <<s, k>>
    BY <1>9, <2>1
  <2>3. Ignores(k)
    BY <1>11, <2>1, <2>2
  <2>4. ASSUME NEW l \in H PROVE l <= k
    <3>1. <<s, l>> \in D /\ <<s, l>>[1] = s /\ <<s, l>>[2] = l
      BY <1>7
    <3> QED
      BY <2>1, <2>2, <3>1
  <2> QED
    BY <2>3, <2>4
<1> QED
  BY <1>10, <1>12, <1>13, <1>14


\* The rules at a depth other than 0 come from an ignore file.
LEMMA RulesBelow ==
    ASSUME NEW fs, NEW k, k # 0
    PROVE  /\ HasRules(fs, k) <=> HasIgnoreFile(fs[k].scope)
           /\ RuleSet(fs, k) = [scope |-> fs[k].scope, matcher |-> RulesAt(fs[k].scope)]
BY DEF HasRules, RuleSet, ScopedRuleSet, HasIgnoreFile

\* The rules at depth 0 are the exclusions.
LEMMA RulesAbove ==
    ASSUME NEW fs
    PROVE  /\ HasRules(fs, 0) <=> exclusions # NoRules
           /\ RuleSet(fs, 0) = [scope |-> << >>, matcher |-> exclusions]
BY DEF HasRules, RuleSet

\* The rules in force while a directory is read decide on its entries as all
\* ignore files above them and the exclusions together do.
LEMMA RulesDecide ==
    ASSUME NEW p \in Seq(Nat), NEW isDir, Len(p) > 0, Len(p) = Len(frames),
           Len(scoped) \in Nat,
           \A k \in 1..Len(p) : frames[k].scope = SubSeq(p, 1, k - 1),
           NEW g, InForce(g, scoped, frames, Len(frames))
    PROVE  IgnoredBy(p, isDir) <=> LeftOut(p, isDir)
<1>0. PICK N \in Nat : N = Len(p) /\ N > 0 /\ N = Len(frames)
  OBVIOUS
<1>1. PICK M \in Nat : M = Len(scoped)
  OBVIOUS
<1>2. /\ g \in [1..M -> 0..N]
      /\ \A i, j \in 1..M : i < j => g[i] < g[j]
      /\ \A i \in 1..M : HasRules(frames, g[i]) /\ scoped[i] = RuleSet(frames, g[i])
      /\ \A k \in 0..N : HasRules(frames, k) => \E i \in 1..M : g[i] = k
  BY <1>0, <1>1 DEF InForce
<1>3. \A k \in 0..N : k > 0 => k \in 1..Len(p) /\ frames[k].scope = SubSeq(p, 1, k - 1)
  BY <1>0
<1>4. \A s \in 0..N : HasRules(frames, s) => HasMatcher(s, p)
  <2> USE DEF HasMatcher
  <2> SUFFICES ASSUME NEW s \in 0..N, HasRules(frames, s), s > 0
               PROVE  HasIgnoreFile(SubSeq(p, 1, s - 1))
    OBVIOUS
  <2>1. HasIgnoreFile(frames[s].scope)
    BY RulesBelow
  <2> QED
    BY <1>3, <2>1
<1>5. ASSUME NEW i \in 1..M
      PROVE  /\ Asked(i, p, isDir) \in {"None", "Ignore", "Whitelist"}
             /\ Asked(i, p, isDir) = "None" <=> SilentAt(g[i], p, isDir)
             /\ Asked(i, p, isDir) = "Ignore" <=> IgnoredAt(g[i], p, isDir)
  <2>1. PICK s \in 0..N : s = g[i] /\ HasRules(frames, s) /\ scoped[i] = RuleSet(frames, s)
    BY <1>2
  <2>2. PICK a \in Nat : a = Above(s) /\ a < N
    BY <1>0 DEF Above
  <2>3. SubSeq(p, 1, a) \in Seq(Nat) /\ Len(SubSeq(p, 1, a)) = a
        /\ \A j \in 1..a : SubSeq(p, 1, a)[j] = p[j]
    BY <1>0, <2>2
  <2>4. scoped[i].scope = SubSeq(p, 1, a) /\ scoped[i].matcher = Matcher(s, p)
    <3>1. CASE s = 0
      <4>1. SubSeq(p, 1, a) = << >>
        BY <2>2, <2>3, <3>1 DEF Above
      <4>2. scoped[i] = [scope |-> << >>, matcher |-> exclusions]
        BY <2>1, <3>1, RulesAbove
      <4>3. Matcher(s, p) = exclusions
        BY <3>1 DEF Matcher
      <4>4. scoped[i].scope = << >> /\ scoped[i].matcher = exclusions
        BY <4>2
      <4> QED
        BY <4>1, <4>3, <4>4
    <3>2. CASE s # 0
      <4>1. PICK x : x = frames[s].scope
        OBVIOUS
      <4>2. x = SubSeq(p, 1, s - 1) /\ a = s - 1
        BY <1>3, <2>2, <3>2, <4>1 DEF Above
      <4>3. scoped[i] = [scope |-> x, matcher |-> RulesAt(x)]
        BY <2>1, <3>2, <4>1, RulesBelow
      <4> QED
        BY <3>2, <4>2, <4>3 DEF Matcher
    <3> QED
      BY <3>1, <3>2
  <2>5. PICK q : q = SubSeq(p, 1, a)
    OBVIOUS
  <2>6. Below(p, q)
    BY <1>0, <2>2, <2>3, <2>5 DEF Below, StartsWith
  <2>7. Asked(i, p, isDir) = Verdict(Matcher(s, p), AskedAt(s, p), isDir)
    <3>1. AskedAt(s, p) = Stripped(q, SubSeq(p, Len(q) + 1, Len(p)))
      BY <2>2, <2>3, <2>5 DEF AskedAt, From
    <3> QED
      BY <2>4, <2>5, <2>6, <3>1 DEF Asked, ScopedVerdict
  <2>8. HasMatcher(s, p)
    BY <1>4, <2>1
  <2> QED
    BY <1>0, <2>1, <2>2, <2>7, <2>8, VerdictAt
<1>6. IgnoredBy(p, isDir) <=> LastIgnores(M, p, isDir)
  BY <1>1, <1>5, LoopIsLast
<1>7. PICK D : D = Deciding(p, isDir)
  OBVIOUS
<1> DEFINE G == {c \in D : Ignoring(c, p, isDir)}
<1>8. D \in SUBSET ((0..N) \X (0..N))
  BY <1>0, <1>7 DEF Deciding
<1>9. ASSUME NEW c \in D PROVE \E i \in 1..M : g[i] = c[1]
  <2>1. PICK s \in 0..N : s = c[1]
    BY <1>8
  <2>2. /\ s > 0 => HasIgnoreFile(SubSeq(p, 1, s - 1))
        /\ c[2] \in Matches(Matcher(s, p), AskedAt(s, p), isDir)
    BY <1>7, <2>1 DEF Deciding, HasMatcher
  <2>3. CASE s > 0
    <3>1. HasIgnoreFile(frames[s].scope)
      BY <1>3, <2>2, <2>3
    <3>2. HasRules(frames, s)
      BY <2>3, <3>1, RulesBelow
    <3> QED
      BY <1>2, <2>1, <3>2
  <2>4. CASE s = 0
    <3>1. exclusions # NoRules
      <4> SUFFICES ASSUME exclusions = NoRules PROVE FALSE
        OBVIOUS
      <4>1. Matcher(s, p).ignore = {} /\ Matcher(s, p).keep = {}
        BY <2>4 DEF Matcher, NoRules
      <4> QED
        BY <2>2, <4>1 DEF Matches
    <3>2. HasRules(frames, s)
      BY <2>4, <3>1, RulesAbove
    <3> QED
      BY <1>2, <2>1, <3>2
  <2> QED
    BY <2>3, <2>4
<1>10. LeftOut(p, isDir) <=>
            \E c \in D : /\ \A e \in D : e[1] < c[1] \/ (e[1] = c[1] /\ e[2] <= c[2])
                         /\ c \in G
  BY <1>7 DEF LeftOut
<1>11. \A i \in 1..M :
            /\ IgnoredAt(g[i], p, isDir) <=>
                    \E c \in D : /\ c[1] = g[i] /\ c \in G
                                 /\ \A e \in D : e[1] = g[i] => e[2] <= c[2]
            /\ SilentAt(g[i], p, isDir) <=> \A e \in D : e[1] # g[i]
  BY <1>7 DEF IgnoredAt, SilentAt
<1> HIDE DEF G
<1>13. \A i \in 1..M : \A j \in (i + 1)..M : j \in 1..M
  OBVIOUS
<1>12. LeftOut(p, isDir) <=>
            \E i \in 1..M : /\ IgnoredAt(g[i], p, isDir)
                            /\ \A j \in (i + 1)..M : SilentAt(g[j], p, isDir)
  <2>1. LeftOut(p, isDir) <=>
            \E i \in 1..M :
                  /\ \E c \in D : /\ c[1] = g[i] /\ c \in G
                                  /\ \A e \in D : e[1] = g[i] => e[2] <= c[2]
                  /\ \A j \in (i + 1)..M : \A e \in D : e[1] # g[j]
    <3>1. \A c \in D : \E i \in 1..M : g[i] = c[1]
      BY <1>9
    <3>2. Greatest(D, G) <=> GreatestByFirst(D, G, g, M)
      BY <1>2, <1>8, <3>1, LexicographicMax
    <3> QED
      BY <1>10, <3>2 DEF Greatest, GreatestByFirst
  <2> QED
    BY <1>11, <1>13, <2>1
<1>14. LastIgnores(M, p, isDir) <=>
            \E i \in 1..M : /\ IgnoredAt(g[i], p, isDir)
                            /\ \A j \in (i + 1)..M : SilentAt(g[j], p, isDir)
  BY <1>5, <1>13 DEF LastIgnores
<1> QED
  BY <1>6, <1>12, <1>14


-----------------------------------------------------------------------------
\* The active calls lie on the path to an entry of the innermost one.
EntryFacts(n, p) ==
    /\ p = Current(n) /\ p \in Seq(Nat) /\ n \in Nat /\ p \in Universe /\ Present(tree, p)
    /\ Len(p) = Len(frames) /\ Len(p) \in Nat \ {0}
    /\ \A k \in 1..Len(p) : frames[k].scope = SubSeq(p, 1, k - 1)
    /\ Top.scope \in Visited /\ Top.scope \in Seq(Nat) /\ Parent(p) = Top.scope
    /\ p \in Children(tree, Top.scope)

\* Every entry of the innermost call has such a path.
LEMMA EntryPath ==
    ASSUME Inv, PlaceInv, frames # << >>, NEW n \in Top.left
    PROVE  \E p : EntryFacts(n, p)
<1>1. PICK N \in Nat \ {0} : N = Len(frames)
  BY DEF Inv, ShapeInv
<1>2. frames \in Seq(FrameType) /\ \A k \in 1..N : frames[k] \in FrameType
  BY <1>1 DEF Inv, ShapeInv
<1>3. N \in 1..N /\ Top = frames[N]
  BY <1>1 DEF Top
<1>4. PICK s \in Seq(Nat) : s = Top.scope
  BY <1>2, <1>3 DEF FrameType
<1>5. n \in Nat
  BY <1>2, <1>3 DEF FrameType
<1>6. Len(s) = N - 1 /\ s \in Visited /\ Append(s, n) \in Universe /\ Present(tree, Append(s, n))
  BY <1>1, <1>3, <1>4 DEF PlaceInv, Place
<1>7. PICK p \in Seq(Nat) : p = Append(s, n) /\ Len(p) = N /\ \A i \in 1..(N - 1) : p[i] = s[i]
  <2>1. Append(s, n) \in Seq(Nat) /\ Len(Append(s, n)) = N /\ \A i \in 1..(N - 1) : Append(s, n)[i] = s[i]
    BY <1>1, <1>4, <1>5, <1>6
  <2> QED
    BY <2>1
<1>8. ASSUME NEW k \in 1..N PROVE frames[k].scope = SubSeq(p, 1, k - 1)
  <2>1. PICK f \in Seq(Nat) : f = frames[k].scope /\ Len(f) = k - 1
    <3>1. frames[k].scope \in Seq(Nat) /\ Len(frames[k].scope) = k - 1
      BY <1>1, <1>2 DEF FrameType, PlaceInv, Place
    <3> QED
      BY <3>1
  <2>2. \A i \in 1..(k - 1) : f[i] = s[i]
    <3>1. CASE k = N
      BY <1>3, <1>4, <2>1, <3>1
    <3>2. CASE k # N
      <4>1. k \in 1..(N - 1)
        BY <1>1, <3>2
      <4>2. StartsWith(s, f)
        BY <1>1, <1>3, <1>4, <2>1, <4>1 DEF Inv, NestedInv
      <4> QED
        BY <2>1, <4>2 DEF StartsWith
    <3> QED
      BY <3>1, <3>2
  <2>3. PICK K \in Nat : K = k - 1 /\ K <= N - 1
    BY <1>1
  <2>4. PICK q : q = SubSeq(p, 1, K)
    OBVIOUS
  <2>5. q \in Seq(Nat) /\ Len(q) = K /\ \A i \in 1..K : q[i] = p[i]
    BY <1>1, <1>7, <2>3, <2>4
  <2>6. \A i \in 1..K : i \in 1..(N - 1)
    BY <1>1, <2>3
  <2>7. \A i \in 1..K : f[i] = q[i]
    BY <1>7, <2>2, <2>3, <2>5, <2>6
  <2>8. f = q
    BY <2>1, <2>3, <2>5, <2>7, SeqEqual
  <2> QED
    BY <2>1, <2>3, <2>4, <2>8
<1>9. Parent(p) = s
  BY <1>3, <1>4, <1>7, <1>8 DEF Parent
<1>10. EntryFacts(n, p)
  BY <1>1, <1>4, <1>5, <1>6, <1>7, <1>8, <1>9 DEF EntryFacts, Current, Children
<1> QED
  BY <1>10

\* `decision` answers as the reference does.
LEMMA ManagedDecision ==
    ASSUME Inv, RulesInv, pc = "entries", NEW n, NEW p, EntryFacts(n, p)
    PROVE  decision(p) = "Managed" <=> Managed(tree, p, Rules)
<1>1. PICK g : InForce(g, scoped, frames, Len(frames))
  BY DEF RulesInv, Collected
<1>2. Len(scoped) \in Nat
  BY DEF Inv, ShapeInv
<1>3. PICK b \in BOOLEAN : b = (tree[p].kind = "dir")
  OBVIOUS
<1>4. IgnoredBy(p, b) <=> LeftOut(p, b)
  <2>1. /\ p \in Seq(Nat) /\ Len(p) > 0 /\ Len(p) = Len(frames)
        /\ \A k \in 1..Len(p) : frames[k].scope = SubSeq(p, 1, k - 1)
    BY DEF EntryFacts
  <2> QED
    BY <1>1, <1>2, <2>1, RulesDecide
<1>5. <<p, b>> \in Rules <=> LeftOut(p, b)
  BY DEF Rules, EntryFacts
<1>6. decision(p) = "Managed" <=> ~IsProtected(p) /\ ~IgnoredBy(p, b)
  BY <1>3 DEF decision
<1>7. Managed(tree, p, Rules) <=> ~IsProtected(p) /\ <<p, b>> \notin Rules
  BY <1>3 DEF Managed
<1> QED
  BY <1>4, <1>5, <1>6, <1>7


-----------------------------------------------------------------------------
\* What lies below a path has it among its ancestors.
LEMMA PrefixAncestor ==
    ASSUME NEW p \in Seq(Nat), NEW c \in Seq(Nat), c # << >>, StartsWith(p, c), p # c
    PROVE  c \in Ancestors(p) /\ Ancestors(c) \subseteq Ancestors(p) /\ Len(c) < Len(p)
           /\ StartsWith(Parent(p), c)
<1>1. PICK n \in Nat : n = Len(c) /\ n > 0
  OBVIOUS
<1>2. PICK L \in Nat : L = Len(p)
  OBVIOUS
<1>3. n <= L /\ \A i \in 1..n : p[i] = c[i]
  BY <1>1, <1>2 DEF StartsWith
<1>4. n # L
  BY <1>1, <1>2, <1>3, SeqEqual
<1>5. n < L
  BY <1>1, <1>2, <1>3, <1>4
<1>6. ASSUME NEW k \in Nat, k <= n PROVE SubSeq(p, 1, k) = SubSeq(c, 1, k)
  <2>1. PICK x : x = SubSeq(p, 1, k)
    OBVIOUS
  <2>2. PICK y : y = SubSeq(c, 1, k)
    OBVIOUS
  <2>3. x \in Seq(Nat) /\ Len(x) = k /\ \A i \in 1..k : x[i] = p[i]
    BY <1>1, <1>2, <1>5, <1>6, <2>1
  <2>4. y \in Seq(Nat) /\ Len(y) = k /\ \A i \in 1..k : y[i] = c[i]
    BY <1>1, <1>6, <2>2
  <2>5. \A i \in 1..k : x[i] = y[i]
    <3>1. \A i \in 1..k : i \in 1..n
      BY <1>6
    <3> QED
      BY <1>3, <2>3, <2>4, <3>1
  <2>6. x = y
    BY <2>3, <2>4, <2>5, SeqEqual
  <2> QED
    BY <2>1, <2>2, <2>6
<1>7. SubSeq(c, 1, n) = c
  BY <1>1, SubSeqFull
<1>8. c = SubSeq(p, 1, n) /\ n \in 1..(L - 1)
  BY <1>1, <1>2, <1>5, <1>6, <1>7
<1>9. c \in Ancestors(p)
  BY <1>2, <1>8 DEF Ancestors
<1>10. Ancestors(c) \subseteq Ancestors(p)
  <2> SUFFICES ASSUME NEW q \in Ancestors(c) PROVE q \in Ancestors(p)
    OBVIOUS
  <2>1. PICK k \in 1..(n - 1) : q = SubSeq(c, 1, k)
    BY <1>1 DEF Ancestors
  <2>2. k \in Nat /\ k <= n /\ k \in 1..(L - 1)
    BY <1>1, <1>2, <1>5
  <2>3. q = SubSeq(p, 1, k)
    BY <1>6, <2>1, <2>2
  <2> QED
    BY <1>2, <2>2, <2>3 DEF Ancestors
<1>11. StartsWith(Parent(p), c)
  <2>1. PICK K \in Nat : K = L - 1
    BY <1>1, <1>5
  <2>2. PICK x : x = SubSeq(p, 1, K)
    OBVIOUS
  <2>3. x \in Seq(Nat) /\ Len(x) = K /\ \A i \in 1..K : x[i] = p[i]
    BY <1>2, <2>1, <2>2, SMTT(30)
  <2>4. n <= K /\ \A i \in 1..n : i \in 1..K
    BY <1>1, <1>2, <1>5, <2>1
  <2>5. x = Parent(p)
    BY <1>2, <2>1, <2>2 DEF Parent
  <2>6. StartsWith(x, c)
    BY <1>1, <1>3, <2>3, <2>4 DEF StartsWith
  <2> QED
    BY <2>5, <2>6
<1> QED
  BY <1>1, <1>2, <1>5, <1>9, <1>10, <1>11

\* What it takes to be listed or visited.
LEMMA ListingFacts ==
    /\ \A r : r \in Listing <=> \E p : ListedPath(p) /\ r = RecordAt(tree, p)
    /\ \A d : d \in Visited <=> d = << >> \/ (ListedPath(d) /\ tree[d].kind = "dir")
    /\ \A p : ListedPath(p) => /\ p \in Seq(Nat) /\ p # << >> /\ p \in Universe /\ Present(tree, p)
                               /\ Managed(tree, p, Rules)
<1>1. \A r : r \in Listing <=> \E p : ListedPath(p) /\ r = RecordAt(tree, p)
  BY DEF Listing, Scan, ListedPath
<1>2. \A p : RecordAt(tree, p).path = p /\ RecordAt(tree, p).kind = tree[p].kind
  BY DEF RecordAt
<1>3. ASSUME NEW d PROVE d \in Visited <=> d = << >> \/ (ListedPath(d) /\ tree[d].kind = "dir")
  <2>1. d \in Visited <=> d = << >> \/ \E r \in Listing : r.kind = "dir" /\ d = r.path
    BY DEF Visited
  <2> QED
    BY <1>1, <1>2, <2>1
<1>4. \A p : ListedPath(p) => /\ p \in Seq(Nat) /\ p # << >> /\ p \in Universe /\ Present(tree, p)
                              /\ Managed(tree, p, Rules)
  BY UniverseAssumption DEF ListedPath, Listed, RelativePath
<1> QED
  BY <1>1, <1>3, <1>4

\* Whatever lies above something listed is a listed directory.
LEMMA ListedAbove ==
    ASSUME tree \in Trees, NEW p, ListedPath(p), NEW c \in Seq(Nat), c # << >>,
           StartsWith(p, c)
    PROVE  ListedPath(c) /\ (p # c => tree[c].kind = "dir")
<1>1. p \in Universe /\ p \in Seq(Nat) /\ Present(tree, p)
  BY ListingFacts
<1>2. CASE p = c
  BY <1>2
<1>3. CASE p # c
  <2>1. c \in Ancestors(p) /\ Ancestors(c) \subseteq Ancestors(p)
    BY <1>1, <1>3, PrefixAncestor
  <2>2. c \in Universe
    BY <1>1, <2>1, UniverseAssumption
  <2>3. tree[c].kind = "dir"
    BY <1>1, <2>1, ScannerAssumption DEF IsTree
  <2>4. Listed(tree, c, Rules)
    BY <2>1, <2>3 DEF ListedPath, Listed, Present
  <2> QED
    BY <2>2, <2>3, <2>4 DEF ListedPath
<1> QED
  BY <1>2, <1>3

\* What is above an entry of d is d or above d.
LEMMA ChildAncestors ==
    ASSUME NEW p \in Seq(Nat), p # << >>, NEW d, d = Parent(p), NEW q \in Ancestors(p)
    PROVE  d # << >> /\ (q = d \/ q \in Ancestors(d))
<1>1. PICK L \in Nat : L = Len(p) /\ L > 0
  OBVIOUS
<1>2. PICK k \in 1..(L - 1) : q = SubSeq(p, 1, k)
  BY <1>1 DEF Ancestors
<1>3. PICK K \in Nat : K = L - 1
  BY <1>1
<1>4. d = SubSeq(p, 1, K)
  BY <1>1, <1>3 DEF Parent
<1>5. d \in Seq(Nat) /\ Len(d) = K /\ \A i \in 1..K : d[i] = p[i]
  BY <1>1, <1>3, <1>4, SMTT(30)
<1>6. d # << >>
  BY <1>2, <1>3, <1>5
<1>7. CASE k = K
  BY <1>2, <1>4, <1>6, <1>7
<1>8. CASE k # K
  <2>1. PICK y : y = SubSeq(d, 1, k)
    OBVIOUS
  <2>2. k \in Nat /\ k <= K /\ k \in 1..(K - 1) /\ k <= L
    BY <1>1, <1>3, <1>8
  <2>3. y \in Seq(Nat) /\ Len(y) = k /\ \A i \in 1..k : y[i] = d[i]
    BY <1>5, <2>1, <2>2
  <2>4. q \in Seq(Nat) /\ Len(q) = k /\ \A i \in 1..k : q[i] = p[i]
    BY <1>1, <1>2, <2>2
  <2>5. \A i \in 1..k : y[i] = q[i]
    <3>1. \A i \in 1..k : i \in 1..K
      BY <2>2
    <3> QED
      BY <1>5, <2>3, <2>4, <3>1
  <2>6. y = q
    BY <2>3, <2>4, <2>5, SeqEqual
  <2> QED
    BY <1>5, <1>6, <2>1, <2>2, <2>6 DEF Ancestors
<1> QED
  BY <1>7, <1>8

\* A managed entry of a directory that is visited is listed.
LEMMA ListedChild ==
    ASSUME NEW d \in Visited, NEW p \in Children(tree, d), Managed(tree, p, Rules)
    PROVE  ListedPath(p)
<1>1. p \in Universe /\ Present(tree, p) /\ Parent(p) = d
  BY DEF Children
<1>2. p \in Seq(Nat) /\ p # << >>
  BY <1>1, UniverseAssumption DEF RelativePath
<1>3. ASSUME NEW q \in Ancestors(p) PROVE Managed(tree, q, Rules)
  <2>1. d # << >> /\ (q = d \/ q \in Ancestors(d))
    BY <1>1, <1>2, ChildAncestors
  <2>2. ListedPath(d)
    BY <2>1, ListingFacts
  <2> QED
    BY <2>1, <2>2 DEF ListedPath, Listed
<1> QED
  BY <1>1, <1>3 DEF ListedPath, Listed


-----------------------------------------------------------------------------
\* With an entry gone, only what is at or below it is no longer ahead.
LEMMA AheadTrim ==
    ASSUME frames # << >>, NEW n, NEW fs, Trimmed(fs, n), NEW p, Ahead(frames, FALSE, p)
    PROVE  Ahead(fs, FALSE, p) \/ StartsWith(p, Current(n))
<1>1. Len(fs) = Len(frames)
  BY DEF Trimmed
<1>2. PICK k \in 1..Len(frames) : \E m \in frames[k].left : StartsWith(p, Append(frames[k].scope, m))
  BY DEF Ahead
<1>5. PICK m \in frames[k].left : StartsWith(p, Append(frames[k].scope, m))
  BY <1>2
<1>3. CASE k = Len(frames) /\ m = n
  BY <1>5, <1>3 DEF Current, Top
<1>4. CASE ~(k = Len(frames) /\ m = n)
  <2>1. fs[k].scope = frames[k].scope /\ m \in fs[k].left
    BY <1>4 DEF Trimmed
  <2> QED
    BY <1>1, <1>5, <2>1 DEF Ahead
<1> QED
  BY <1>3, <1>4

\* A directory is entered: what lies below it is at or below one of its entries.
LEMMA AheadEntered ==
    ASSUME tree \in Trees, NEW fs, Len(fs) = Len(frames), Len(frames) \in Nat \ {0},
           Top.scope \in Seq(Nat), Top.left \subseteq Nat,
           \A k \in 1..Len(frames) : fs[k].scope = frames[k].scope,
           \A k \in 1..Len(frames) : k # Len(frames) => fs[k].left = frames[k].left,
           fs[Len(frames)].left = {q[Len(q)] : q \in Children(tree, Top.scope)},
           NEW p \in Universe, Present(tree, p), Ahead(frames, TRUE, p)
    PROVE  Ahead(fs, FALSE, p)
<1>0. PICK N \in Nat \ {0} : N = Len(frames)
  OBVIOUS
<1>1. PICK s \in Seq(Nat) : s = Top.scope /\ s = fs[N].scope /\ s = frames[N].scope
  BY <1>0 DEF Top
<1>2. p \in Seq(Nat) /\ p # << >>
  BY UniverseAssumption DEF RelativePath
<1>3. CASE \E k \in 1..N : k # N /\ \E m \in frames[k].left : StartsWith(p, Append(frames[k].scope, m))
  BY <1>0, <1>3 DEF Ahead
<1>4. ASSUME StartsWith(p, s), Len(s) < Len(p) PROVE Ahead(fs, FALSE, p)
  <2>0. Len(s) \in Nat /\ Len(p) \in Nat
    BY <1>1, <1>2
  <2>1. PICK L \in Nat : L = Len(s) /\ L + 1 <= Len(p) /\ L + 1 \in 1..Len(p)
    <3>1. Len(s) + 1 <= Len(p) /\ Len(s) + 1 \in 1..Len(p)
      BY <1>4, <2>0
    <3> QED
      BY <2>0, <3>1
  <2>2. PICK m \in Nat : m = p[L + 1]
    BY <1>2, <2>1
  <2>3. PICK c : c = Append(s, m)
    OBVIOUS
  <2>4. c \in Seq(Nat) /\ Len(c) = L + 1 /\ c[L + 1] = m /\ \A i \in 1..L : c[i] = s[i]
    BY <1>1, <2>1, <2>2, <2>3
  <2>5. StartsWith(p, c)
    <3>1. \A i \in 1..(L + 1) : i \in 1..L \/ i = L + 1
      BY <2>1
    <3>2. \A i \in 1..L : p[i] = s[i]
      BY <1>4, <2>1 DEF StartsWith
    <3> QED
      BY <2>1, <2>2, <2>4, <3>1, <3>2 DEF StartsWith
  <2>6. c # << >>
    BY <2>1, <2>4
  <2>7. c \in Universe /\ Present(tree, c)
    <3>1. CASE p = c
      BY <3>1
    <3>2. CASE p # c
      <4>1. c \in Ancestors(p)
        BY <1>2, <2>4, <2>5, <2>6, <3>2, PrefixAncestor
      <4>2. tree[c].kind = "dir"
        BY <4>1, ScannerAssumption DEF IsTree
      <4> QED
        BY <4>1, <4>2, UniverseAssumption DEF Present
    <3> QED
      BY <3>1, <3>2
  <2>8. Parent(c) = s
    <3>1. PICK x : x = SubSeq(c, 1, L)
      OBVIOUS
    <3>2. x \in Seq(Nat) /\ Len(x) = L /\ \A i \in 1..L : x[i] = c[i]
      BY <2>1, <2>4, <3>1
    <3>3. x = s
      BY <1>1, <2>1, <2>4, <3>2, SeqEqual
    <3>4. Len(c) - 1 = L
      BY <2>1, <2>4
    <3> QED
      BY <3>1, <3>3, <3>4 DEF Parent
  <2>9. c \in Children(tree, s)
    BY <2>7, <2>8 DEF Children
  <2>10. m \in fs[N].left
    BY <1>0, <1>1, <2>4, <2>9
  <2> QED
    BY <1>0, <1>1, <2>3, <2>5, <2>10 DEF Ahead
<1>5. CASE \E m \in frames[N].left : StartsWith(p, Append(s, m))
  <2>1. PICK m \in Nat : StartsWith(p, Append(s, m))
    BY <1>0, <1>5 DEF Top
  <2>2. PICK c : c = Append(s, m)
    OBVIOUS
  <2>3. Len(c) = Len(s) + 1 /\ \A i \in 1..Len(s) : c[i] = s[i] /\ i \in 1..Len(c)
    BY <1>1, <2>1, <2>2
  <2>4. StartsWith(p, s) /\ Len(s) < Len(p)
    BY <1>1, <1>2, <2>1, <2>2, <2>3 DEF StartsWith
  <2> QED
    BY <1>4, <2>4
<1>6. CASE Below(p, s)
  <2>1. StartsWith(p, s) /\ p # s
    BY <1>6 DEF Below
  <2>2. Len(s) <= Len(p) /\ \A i \in 1..Len(s) : p[i] = s[i]
    BY <2>1 DEF StartsWith
  <2>3. Len(s) # Len(p)
    BY <1>1, <1>2, <2>1, <2>2, SeqEqual
  <2>4. Len(s) < Len(p)
    BY <1>1, <1>2, <2>2, <2>3
  <2> QED
    BY <1>4, <2>1, <2>4
<1>7. \/ \E k \in 1..N : \E m \in frames[k].left : StartsWith(p, Append(frames[k].scope, m))
      \/ Below(p, s)
  BY <1>0, <1>1 DEF Ahead
<1> QED
  BY <1>0, <1>1, <1>3, <1>5, <1>6, <1>7

\* The order of records extends to all that lies below.
LEMMA BeforeBelow ==
    ASSUME NEW q \in Seq(Nat), NEW s \in Seq(Nat), NEW p \in Seq(Nat),
           Before(q, s), StartsWith(p, s)
    PROVE  Before(q, p)
<1>1. PICK n \in 1..Len(s) :
            /\ \A i \in 1..(n - 1) : i <= Len(q) /\ q[i] = s[i]
            /\ n = Len(q) + 1 \/ (n <= Len(q) /\ q[n] < s[n])
  BY DEF Before
<1>2. n \in 1..Len(p) /\ p[n] = s[n] /\ \A i \in 1..(n - 1) : p[i] = s[i]
  <2>1. PICK a \in Nat : a = Len(s)
    OBVIOUS
  <2>2. PICK b \in Nat : b = Len(p)
    OBVIOUS
  <2>3. a <= b /\ \A i \in 1..a : p[i] = s[i]
    BY <2>1, <2>2 DEF StartsWith
  <2>4. n \in 1..a /\ n \in 1..b
    BY <2>1, <2>3
  <2>5. \A i \in 1..(n - 1) : i \in 1..a
    BY <2>1, <2>4
  <2> QED
    BY <2>2, <2>3, <2>4, <2>5
<1> QED
  BY <1>1, <1>2 DEF Before

\* A directory comes before what lies below it.
LEMMA PrefixBefore ==
    ASSUME NEW s \in Seq(Nat), NEW p \in Seq(Nat), Below(p, s)
    PROVE  Before(s, p)
<1>1. StartsWith(p, s) /\ p # s
  BY DEF Below
<1>2. Len(s) <= Len(p) /\ \A i \in 1..Len(s) : p[i] = s[i]
  BY <1>1 DEF StartsWith
<1>3. Len(s) # Len(p)
  BY <1>1, <1>2, SeqEqual
<1>4. PICK n \in 1..Len(p) : n = Len(s) + 1
  BY <1>2, <1>3
<1>5. \A i \in 1..(n - 1) : i <= Len(s) /\ s[i] = p[i]
  BY <1>2, <1>4
<1> QED
  BY <1>4, <1>5 DEF Before


-----------------------------------------------------------------------------
\* Nothing a scan does changes what it reads.
LEMMA SameInput ==
    ASSUME UNCHANGED <<tree, exclusions>>
    PROVE  /\ Rules' = Rules /\ Visited' = Visited /\ Listing' = Listing
           /\ Unscannable' <=> Unscannable
<1>1. tree' = tree /\ exclusions' = exclusions
  OBVIOUS
<1>2. Rules' = Rules
  <2>1. \A s, p : Matcher(s, p)' = Matcher(s, p) /\ (HasMatcher(s, p)' <=> HasMatcher(s, p))
    BY <1>1 DEF Matcher, HasMatcher, HasIgnoreFile, RulesAt
  <2>2. \A p, d : Deciding(p, d)' = Deciding(p, d)
    BY <2>1 DEF Deciding
  <2>3. \A c, p, d : Ignoring(c, p, d)' <=> Ignoring(c, p, d)
    BY <2>1 DEF Ignoring
  <2>4. \A p, d : LeftOut(p, d)' <=> LeftOut(p, d)
    BY <2>2, <2>3 DEF LeftOut
  <2> QED
    BY <2>4 DEF Rules
<1>3. Listing' = Listing
  BY <1>1, <1>2 DEF Listing
<1>4. Visited' = Visited
  BY <1>3 DEF Visited
<1>5. Unscannable' <=> Unscannable
  BY <1>1, <1>4 DEF Unscannable, HasIgnoreFile, RulesAt, Unsupported
<1> QED
  BY <1>2, <1>3, <1>4, <1>5

\* What holds of the new frames, rules and records holds in the new state.
LEMMA CarryPlace ==
    ASSUME UNCHANGED <<tree, exclusions>>, NEW fs, fs = frames', Place(fs)
    PROVE  PlaceInv'
<1>1. Visited' = Visited /\ tree' = tree
  BY SameInput
<1> QED
  BY <1>1 DEF PlaceInv, Place

\* The same for the entry that is sent next.
LEMMA CarryPassed ==
    ASSUME UNCHANGED <<tree, exclusions>>, NEW top, pc' = "emit" => top = Top' /\ Passed(top)
    PROVE  PassedInv'
<1>1. Rules' = Rules /\ tree' = tree
  BY SameInput
<1> QED
  BY <1>1 DEF PassedInv, Passed, Acceptable, Unsupported

\* The same for the rules in force.
LEMMA CarryRules ==
    ASSUME UNCHANGED <<tree, exclusions>>, NEW fs, fs = frames', NEW sc, sc = scoped',
           pc' \in {"enter", "entries", "emit"} =>
                Collected(sc, fs, IF pc' = "enter" THEN Len(fs) - 1 ELSE Len(fs))
    PROVE  RulesInv'
<1>1. exclusions' = exclusions /\ tree' = tree
  BY SameInput
<1>2. pc' \in {"enter", "entries", "emit"} =>
            Collected(scoped', frames', IF pc' = "enter" THEN Len(frames') - 1 ELSE Len(frames'))
  OBVIOUS
<1> QED
  BY ONLY <1>1, <1>2, ZenonT(60)
     DEF RulesInv, Collected, InForce, HasRules, RuleSet, HasIgnoreFile, ScopedRuleSet, RulesAt

\* The same for what is listed.
LEMMA CarryCover ==
    ASSUME UNCHANGED <<tree, exclusions>>, NEW fs, fs = frames', NEW S, S = SentRecords',
           Running' => Covered(fs, pc' = "enter", S)
    PROVE  CoverInv'
<1>1. Rules' = Rules /\ tree' = tree
  BY SameInput
<1> QED
  BY <1>1 DEF CoverInv, Covered, ListedPath

\* The same for the directories that are visited.
LEMMA CarryChecked ==
    ASSUME UNCHANGED <<tree, exclusions>>, NEW fs, fs = frames',
           Running' => exclusions.valid /\ Checked(fs, pc' = "enter")
    PROVE  CheckedInv'
<1>1. Visited' = Visited /\ tree' = tree /\ exclusions' = exclusions
  BY SameInput
<1> QED
  BY <1>1 DEF CheckedInv, Checked, Clean, HasIgnoreFile, RulesAt, Acceptable, Unsupported


\* What is ahead follows, in path order, all that was sent.
OrderedSoFar == \A r \in Listing \ SentRecords : \A q \in SentRecords : Before(q.path, r.path)

\* Together with the order of what is ahead, CoverInv gives the order.
LEMMA AheadIsLater == Inv /\ CoverInv /\ Running => OrderedSoFar
<1> SUFFICES ASSUME Inv, CoverInv, Running, NEW r \in Listing \ SentRecords, NEW q \in SentRecords
             PROVE  Before(q.path, r.path)
  BY DEF OrderedSoFar
<1>1. PICK p : ListedPath(p) /\ r = RecordAt(tree, p)
  BY ListingFacts
<1>2. p \in Seq(Nat) /\ r.path = p /\ p \in Universe
  BY <1>1, ListingFacts DEF RecordAt
<1>3. PICK i \in 1..Len(sent) : q = sent[i]
  BY DEF SentRecords
<1>4. q.path \in Seq(Nat)
  <2>1. q \in Messages
    BY <1>3 DEF Inv, ShapeInv
  <2> QED
    BY <2>1, MessagePaths
<1>5. Ahead(frames, pc = "enter", p)
  BY <1>1, <1>2 DEF CoverInv, Covered
<1>6. frames \in Seq(FrameType)
  BY DEF Inv, ShapeInv
<1>7. ASSUME NEW k \in 1..Len(frames), NEW m \in frames[k].left, StartsWith(p, Append(frames[k].scope, m))
      PROVE  Before(q.path, p)
  <2>1. frames[k] \in FrameType
    BY <1>6
  <2>2. frames[k].scope \in Seq(Nat) /\ m \in Nat
    BY <2>1 DEF FrameType
  <2>3. PICK c \in Seq(Nat) : c = Append(frames[k].scope, m)
    BY <2>2, AppendStarts
  <2>4. Before(q.path, c)
    BY <1>3, <2>3 DEF Inv, AheadInv
  <2> QED
    BY <1>2, <1>4, <1>7, <2>3, <2>4, BeforeBelow
<1>8. ASSUME pc = "enter", Below(p, Top.scope) PROVE Before(q.path, p)
  <2>1. frames # << >>
    BY <1>8 DEF Inv, ShapeInv
  <2>2. Top \in FrameType
    BY <1>6, <2>1 DEF Top
  <2>3. PICK s \in Seq(Nat) : s = Top.scope
    BY <2>2 DEF FrameType
  <2>4. q.path = s \/ Before(q.path, s)
    BY <1>3, <1>8, <2>3 DEF Inv, EnterInv
  <2>5. Below(p, s) /\ StartsWith(p, s)
    BY <1>8, <2>3 DEF Below
  <2> QED
    BY <1>2, <1>4, <2>4, <2>5, BeforeBelow, PrefixBefore
<1> QED
  BY <1>2, <1>5, <1>7, <1>8 DEF Ahead, Top

\* The same in the next state.
LEMMA AheadIsLaterNext == Inv' /\ CoverInv' /\ Running' => OrderedSoFar'
BY AheadIsLater, PTL

\* What is sent joins what was sent.
LEMMA SentGrows ==
    ASSUME Inv, NEW r, sent' = Append(sent, r)
    PROVE  /\ r.kind \in Kinds => SentRecords' = SentRecords \cup {r}
           /\ r.kind \notin Kinds => SentRecords' = SentRecords
           /\ Len(sent') = Len(sent) + 1 /\ sent'[Len(sent) + 1] = r /\ Len(sent) \in Nat
           /\ \A i \in 1..Len(sent) : sent'[i] = sent[i]
<1>1. PICK S \in Nat : S = Len(sent)
  BY DEF Inv, ShapeInv
<1>2. Len(sent') = S + 1 /\ sent'[S + 1] = r /\ \A i \in 1..S : sent'[i] = sent[i]
  BY <1>1 DEF Inv, ShapeInv
<1>3. \A i \in 1..(S + 1) : i \in 1..S \/ i = S + 1
  BY <1>1
<1>4. 1..S \subseteq 1..(S + 1) /\ S + 1 \in 1..(S + 1)
  BY <1>1
<1>5. \A x : x \in SentRecords' <=> \E i \in 1..(S + 1) : sent'[i].kind \in Kinds /\ x = sent'[i]
  BY <1>2 DEF SentRecords
<1>6. \A x : x \in SentRecords <=> \E i \in 1..S : sent[i].kind \in Kinds /\ x = sent[i]
  BY <1>1 DEF SentRecords
<1>7. \A x : x \in SentRecords' <=> x \in SentRecords \/ (r.kind \in Kinds /\ x = r)
  BY <1>2, <1>3, <1>4, <1>5, <1>6
<1> QED
  BY <1>1, <1>2, <1>7

\* A step's last part: the order of what was sent.
LEMMA Closing ==
    ASSUME Inv', UNCHANGED <<tree, exclusions>>, InputInv, SentInv,
           PlaceInv', PassedInv', RulesInv', CoverInv', CheckedInv', CauseInv', EndInv',
           SentRecords' \subseteq Listing, ~Running' => SentRecords' = SentRecords
    PROVE  WalkInv'
<1>1. InputInv'
  BY DEF InputInv
<1>2. Listing' = Listing
  BY SameInput
<1>3. OrderedSoFar'
  <2>1. CASE Running'
    BY <2>1, AheadIsLaterNext
  <2>2. CASE ~Running'
    BY <1>2, <2>2 DEF SentInv, OrderedSoFar
  <2> QED
    BY <2>1, <2>2
<1>4. SentInv'
  BY <1>2, <1>3 DEF SentInv, OrderedSoFar
<1> QED
  BY <1>1, <1>4 DEF WalkInv


-----------------------------------------------------------------------------
\* The reader's steps.
LEMMA ReaderWalk ==
    ASSUME Inv', WalkInv, UNCHANGED <<tree, exclusions, frames, scoped, sent, faulted, pc>>,
           open' => open
    PROVE  WalkInv'
<1>1. SentRecords' = SentRecords /\ Top' = Top /\ (Running' <=> Running)
  BY DEF SentRecords, Top, Running
<1>2. PlaceInv' /\ PassedInv' /\ RulesInv' /\ CoverInv' /\ CheckedInv'
  BY <1>1, CarryPlace, CarryPassed, CarryRules, CarryCover, CarryChecked
     DEF WalkInv, PlaceInv, PassedInv, RulesInv, CoverInv, CheckedInv
<1>3. CauseInv'
  BY SameInput DEF WalkInv, CauseInv
<1>4. EndInv'
  BY DEF WalkInv, EndInv
<1> QED
  BY <1>1, <1>2, <1>3, <1>4, Closing DEF WalkInv, SentInv

\* The worker gives up.
LEMMA FailWalk ==
    ASSUME Inv', WalkInv, UNCHANGED <<tree, exclusions, frames, scoped, sent>>,
           pc' = "error", pc # "ok", ~open' \/ faulted' \/ Unscannable
    PROVE  WalkInv'
<1>1. SentRecords' = SentRecords /\ ~Running'
  BY DEF SentRecords, Running
<1>2. PlaceInv' /\ PassedInv' /\ RulesInv' /\ CoverInv' /\ CheckedInv'
  <2>1. PlaceInv'
    BY CarryPlace DEF WalkInv, PlaceInv
  <2> QED
    BY <1>1, <2>1 DEF PassedInv, RulesInv, CoverInv, CheckedInv
<1>3. CauseInv'
  BY SameInput DEF CauseInv
<1>4. EndInv'
  BY DEF WalkInv, EndInv
<1> QED
  BY <1>1, <1>2, <1>3, <1>4, Closing DEF WalkInv, SentInv

\* The error is reported.
LEMMA ReportWalk ==
    ASSUME Inv, Inv', WalkInv, ReportError
    PROVE  WalkInv'
<1>1. /\ UNCHANGED <<tree, exclusions, frames, scoped, open, faulted>>
      /\ pc = "error" /\ pc' = "failed"
      /\ UNCHANGED sent \/ sent' = Append(sent, Err)
  BY DEF ReportError, input, Failure
<1>2. ~Running'
  BY <1>1 DEF Running
<1>3. SentRecords' = SentRecords /\ \A i \in 1..Len(sent') : sent'[i].kind # "End"
  <2>1. \A i \in 1..Len(sent) : sent[i].kind # "End"
    BY <1>1 DEF WalkInv, EndInv
  <2>2. CASE UNCHANGED sent
    BY <2>1, <2>2 DEF SentRecords
  <2>3. CASE sent' = Append(sent, Err)
    <3>1. Err.kind \notin Kinds /\ Err.kind # "End"
      BY DEF Err, NoRecord, Kinds
    <3>2. /\ SentRecords' = SentRecords /\ Len(sent') = Len(sent) + 1 /\ Len(sent) \in Nat
          /\ sent'[Len(sent) + 1] = Err /\ \A i \in 1..Len(sent) : sent'[i] = sent[i]
      BY <2>3, <3>1, SentGrows
    <3>3. \A i \in 1..Len(sent') : i \in 1..Len(sent) \/ i = Len(sent) + 1
      BY <3>2
    <3> QED
      BY <2>1, <3>1, <3>2, <3>3
  <2> QED
    BY <1>1, <2>2, <2>3
<1>4. PlaceInv' /\ PassedInv' /\ RulesInv' /\ CoverInv' /\ CheckedInv'
  <2>1. PlaceInv'
    BY <1>1, CarryPlace DEF WalkInv, PlaceInv
  <2> QED
    BY <1>1, <1>2, <2>1 DEF PassedInv, RulesInv, CoverInv, CheckedInv
<1>5. CauseInv'
  BY <1>1, SameInput DEF WalkInv, CauseInv
<1>6. EndInv'
  BY <1>1, <1>3 DEF EndInv
<1> QED
  BY <1>1, <1>2, <1>3, <1>4, <1>5, <1>6, Closing DEF WalkInv, SentInv

\* The end marker is sent when nothing is left.
LEMMA EndWalk ==
    ASSUME Inv, Inv', WalkInv, EmitEnd
    PROVE  WalkInv'
<1>1. /\ UNCHANGED <<tree, exclusions, frames, scoped, open, faulted>>
      /\ pc = "end" /\ pc' = "ok" /\ sent' = Append(sent, End)
  BY DEF EmitEnd, input
<1>2. End.kind \notin Kinds
  BY DEF End, NoRecord, Kinds
<1>3. /\ SentRecords' = SentRecords /\ Len(sent') = Len(sent) + 1 /\ Len(sent) \in Nat
      /\ sent'[Len(sent) + 1] = End
  BY <1>1, <1>2, SentGrows
<1>4. Running /\ Running'
  BY <1>1 DEF Running
<1>5. PlaceInv'
  BY <1>1, CarryPlace DEF WalkInv, PlaceInv
<1>6. PassedInv' /\ RulesInv'
  BY <1>1 DEF PassedInv, RulesInv
<1>7. CoverInv'
  <2>1. Covered(frames, FALSE, SentRecords)
    BY <1>1, <1>4 DEF WalkInv, CoverInv
  <2>2. (pc' = "enter") = FALSE
    BY <1>1
  <2> QED
    BY <1>1, <1>3, <2>1, <2>2, CarryCover
<1>8. CheckedInv'
  <2>1. exclusions.valid /\ Checked(frames, FALSE)
    BY <1>1, <1>4 DEF WalkInv, CheckedInv
  <2>2. (pc' = "enter") = FALSE
    BY <1>1
  <2> QED
    BY <1>1, <2>1, <2>2, CarryChecked
<1>9. CauseInv'
  BY <1>1 DEF CauseInv
<1>10. EndInv'
  <2>1. sent' # << >>
    BY <1>3
  <2> QED
    BY <1>1, <1>3, <2>1 DEF WalkInv, EndInv
<1> QED
  BY <1>1, <1>3, <1>4, <1>5, <1>6, <1>7, <1>8, <1>9, <1>10, Closing DEF WalkInv, SentInv


\* All paths lie below the root.
LEMMA StartWalk ==
    ASSUME Inv, Inv', WalkInv, Start, exclusions.valid
    PROVE  WalkInv'
<1>1. /\ pc = "start" /\ pc' = "enter" /\ UNCHANGED <<tree, exclusions, sent, open, faulted>>
      /\ scoped' = IF exclusions = NoRules THEN << >>
                   ELSE << [scope |-> << >>, matcher |-> exclusions] >>
      /\ frames' = << Frame(<< >>, Len(scoped')) >>
  BY DEF Start, Fail, input, channel
<1>2. PICK fs : fs = frames'
  OBVIOUS
<1>3. PICK sc : sc = scoped'
  OBVIOUS
<1>4. Len(fs) = 1 /\ fs[1].scope = << >> /\ fs[1].left = {} /\ fs[1].checkpoint = Len(sc)
  BY <1>1, <1>2, <1>3 DEF Frame
<1>5. << >> \in Visited
  BY ListingFacts
<1>6. Place(fs)
  <2>1. \A k \in 1..1 : k = 1
    OBVIOUS
  <2>2. Len(fs[1].scope) = 1 - 1
    BY <1>4
  <2> QED
    BY <1>4, <1>5, <2>1, <2>2 DEF Place
<1>7. Collected(sc, fs, 0)
  <2>1. PICK M \in 0..1 : M = Len(sc) /\ (M = 0 <=> exclusions = NoRules)
                          /\ (M = 1 => sc[1] = [scope |-> << >>, matcher |-> exclusions])
    <3>1. CASE exclusions = NoRules
      BY <1>1, <1>3, <3>1
    <3>2. CASE exclusions # NoRules
      <4>1. PICK x : x = [scope |-> << >>, matcher |-> exclusions]
        OBVIOUS
      <4>2. sc = <<x>>
        BY <1>1, <1>3, <3>2, <4>1
      <4>3. Len(sc) = 1 /\ sc[1] = x
        BY <4>2
      <4> QED
        BY <3>2, <4>1, <4>3
    <3> QED
      BY <3>1, <3>2
  <2> DEFINE g == [i \in 1..M |-> 0]
  <2>2. g \in [1..Len(sc) -> 0..0] /\ \A i \in 1..M : g[i] = 0 /\ i = 1 /\ M = 1
    BY <2>1
  <2>3. HasRules(fs, 0) <=> exclusions # NoRules
    BY RulesAbove
  <2>4. RuleSet(fs, 0) = [scope |-> << >>, matcher |-> exclusions]
    BY RulesAbove
  <2> HIDE DEF g
  <2>5. \A i, j \in 1..M : ~(i < j)
    BY <2>1
  <2>6. \A i \in 1..M : HasRules(fs, g[i]) /\ sc[i] = RuleSet(fs, g[i])
    <3> SUFFICES ASSUME NEW i \in 1..M PROVE HasRules(fs, g[i]) /\ sc[i] = RuleSet(fs, g[i])
      OBVIOUS
    <3>1. g[i] = 0 /\ i = 1 /\ M = 1
      BY <2>2
    <3>2. exclusions # NoRules /\ sc[1] = [scope |-> << >>, matcher |-> exclusions]
      BY <2>1, <3>1
    <3> QED
      BY <2>3, <2>4, <3>1, <3>2
  <2>7. \A k \in 0..0 : HasRules(fs, k) => \E i \in 1..M : g[i] = k
    <3> SUFFICES ASSUME HasRules(fs, 0) PROVE \E i \in 1..M : g[i] = 0
      OBVIOUS
    <3>1. M = 1
      BY <2>1, <2>3
    <3> QED
      BY <2>2, <3>1
  <2>8. \A k \in 1..Len(fs) : \A i \in 1..M : i <= fs[k].checkpoint <=> g[i] < k
    <3>1. \A k \in 1..Len(fs) : k = 1
      BY <1>4
    <3>2. \A i \in 1..M : i <= M /\ g[i] < 1
      BY <2>2
    <3> QED
      BY <1>4, <2>1, <3>1, <3>2
  <2> QED
    BY <2>1, <2>2, <2>5, <2>6, <2>7, <2>8 DEF Collected, InForce
<1>8. \A p \in Universe : Ahead(fs, TRUE, p)
  <2> SUFFICES ASSUME NEW p \in Universe PROVE Below(p, << >>)
    BY <1>4 DEF Ahead
  <2>1. p \in Seq(Nat) /\ p # << >>
    BY UniverseAssumption DEF RelativePath
  <2> QED
    BY <2>1 DEF Below, StartsWith
<1>9. Covered(fs, TRUE, SentRecords')
  BY <1>8 DEF Covered
<1>10. Checked(fs, TRUE)
  BY <1>4, <1>8, ListingFacts DEF Checked
<1>11. SentRecords' = SentRecords /\ Running'
  BY <1>1 DEF SentRecords, Running
<1>12. (pc' = "enter") = TRUE /\ Len(fs) - 1 = 0
  BY <1>1, <1>4
<1>13. PlaceInv' /\ CoverInv' /\ CheckedInv'
  BY <1>1, <1>2, <1>6, <1>9, <1>10, <1>12, CarryPlace, CarryCover, CarryChecked
<1>14. RulesInv'
  BY <1>1, <1>2, <1>3, <1>7, <1>12, CarryRules
<1>15. PassedInv' /\ CauseInv'
  BY <1>1 DEF PassedInv, CauseInv
<1>16. EndInv'
  BY <1>1 DEF WalkInv, EndInv
<1> QED
  BY <1>1, <1>11, <1>13, <1>14, <1>15, <1>16, Closing DEF WalkInv, SentInv


\* One more rule set, found by the innermost call.
LEMMA CollectedEnter ==
    ASSUME NEW N \in Nat \ {0}, N = Len(frames), NEW fs, Len(fs) = N,
           \A k \in 1..N : fs[k].scope = frames[k].scope /\ fs[k].checkpoint = frames[k].checkpoint,
           \A k \in 1..N : frames[k].checkpoint \in Nat /\ frames[k].checkpoint <= Len(scoped),
           Len(scoped) \in Nat, NEW sc,
           Collected(scoped, frames, N - 1),
           \/ HasIgnoreFile(Top.scope) /\ sc = Append(scoped, ScopedRuleSet(Top.scope))
           \/ ~HasIgnoreFile(Top.scope) /\ sc = scoped,
           NEW S, scoped \in Seq(S)
    PROVE  Collected(sc, fs, N)
<1>1. PICK M \in Nat : M = Len(scoped)
  OBVIOUS
<1>2. PICK g \in [1..M -> 0..(N - 1)] : InForce(g, scoped, frames, N - 1)
  BY <1>1 DEF Collected
<1>3. /\ \A i, j \in 1..M : i < j => g[i] < g[j]
      /\ \A i \in 1..M : HasRules(frames, g[i]) /\ scoped[i] = RuleSet(frames, g[i])
      /\ \A k \in 0..(N - 1) : HasRules(frames, k) => \E i \in 1..M : g[i] = k
      /\ \A k \in 1..N : \A i \in 1..M : i <= frames[k].checkpoint <=> g[i] < k
  BY <1>1, <1>2 DEF InForce
<1>4. \A k \in 0..N : (HasRules(fs, k) <=> HasRules(frames, k)) /\ RuleSet(fs, k) = RuleSet(frames, k)
  <2> SUFFICES ASSUME NEW k \in 0..N
               PROVE  (HasRules(fs, k) <=> HasRules(frames, k)) /\ RuleSet(fs, k) = RuleSet(frames, k)
    OBVIOUS
  <2>1. CASE k = 0
    BY <2>1, RulesAbove
  <2>2. CASE k # 0
    <3>1. fs[k].scope = frames[k].scope
      BY <2>2
    <3>2. HasRules(fs, k) <=> HasRules(frames, k)
      BY <2>2, <3>1 DEF HasRules
    <3>3. RuleSet(fs, k) = RuleSet(frames, k)
      BY <2>2, <3>1 DEF RuleSet
    <3> QED
      BY <3>2, <3>3
  <2> QED
    BY <2>1, <2>2
<1>5. Top.scope = frames[N].scope /\ N # 0
  BY DEF Top
<1>6. (HasRules(fs, N) <=> HasIgnoreFile(Top.scope)) /\ RuleSet(fs, N) = ScopedRuleSet(Top.scope)
  BY <1>4, <1>5, RulesBelow DEF ScopedRuleSet
<1>7. \A k \in 0..N : k \in 0..(N - 1) \/ k = N
  OBVIOUS
<1>8. \A i \in 1..M : g[i] \in 0..N /\ g[i] \in 0..(N - 1)
  OBVIOUS
<1>9. CASE ~HasIgnoreFile(Top.scope) /\ sc = scoped
  <2>1. g \in [1..Len(sc) -> 0..N]
    BY <1>1, <1>8, <1>9
  <2>2. \A k \in 0..N : HasRules(fs, k) => \E i \in 1..M : g[i] = k
    BY <1>3, <1>4, <1>6, <1>7, <1>9
  <2>3. \A i \in 1..M : HasRules(fs, g[i]) /\ scoped[i] = RuleSet(fs, g[i])
    BY <1>3, <1>4, <1>8
  <2> QED
    BY <1>1, <1>3, <1>9, <2>1, <2>2, <2>3 DEF Collected, InForce
<1>10. CASE HasIgnoreFile(Top.scope) /\ sc = Append(scoped, ScopedRuleSet(Top.scope))
  <2>0. PICK x : x = ScopedRuleSet(Top.scope)
    OBVIOUS
  <2>1. Len(sc) = M + 1 /\ sc[M + 1] = x /\ \A i \in 1..M : sc[i] = scoped[i]
    BY <1>1, <1>10, <2>0
  <2> DEFINE h == [i \in 1..(M + 1) |-> IF i = M + 1 THEN N ELSE g[i]]
  <2>2. h \in [1..(M + 1) -> 0..N]
    BY <1>8
  <2>3. h[M + 1] = N /\ \A i \in 1..M : h[i] = g[i]
    OBVIOUS
  <2>4. \A i \in 1..(M + 1) : i \in 1..M \/ i = M + 1
    OBVIOUS
  <2> HIDE DEF h
  <2>5. \A i, j \in 1..(M + 1) : i < j => h[i] < h[j]
    <3> SUFFICES ASSUME NEW i \in 1..(M + 1), NEW j \in 1..(M + 1), i < j PROVE h[i] < h[j]
      OBVIOUS
    <3>1. i \in 1..M
      OBVIOUS
    <3>2. h[i] = g[i] /\ g[i] < N
      BY <1>8, <2>3, <3>1
    <3>3. CASE j \in 1..M
      BY <1>3, <2>3, <3>1, <3>3
    <3>4. CASE j = M + 1
      BY <2>3, <3>2, <3>4
    <3> QED
      BY <2>4, <3>3, <3>4
  <2>6. \A i \in 1..(M + 1) : HasRules(fs, h[i]) /\ sc[i] = RuleSet(fs, h[i])
    <3> SUFFICES ASSUME NEW i \in 1..(M + 1) PROVE HasRules(fs, h[i]) /\ sc[i] = RuleSet(fs, h[i])
      OBVIOUS
    <3>1. CASE i \in 1..M
      BY <1>3, <1>4, <1>8, <2>1, <2>3, <3>1
    <3>2. CASE i = M + 1
      BY <1>6, <1>10, <2>0, <2>1, <2>3, <3>2
    <3> QED
      BY <2>4, <3>1, <3>2
  <2>7. \A k \in 0..N : HasRules(fs, k) => \E i \in 1..(M + 1) : h[i] = k
    <3> SUFFICES ASSUME NEW k \in 0..N, HasRules(fs, k) PROVE \E i \in 1..(M + 1) : h[i] = k
      OBVIOUS
    <3>0. M + 1 \in 1..(M + 1) /\ \A i \in 1..M : i \in 1..(M + 1)
      OBVIOUS
    <3>1. CASE k \in 0..(N - 1)
      <4>1. PICK i \in 1..M : g[i] = k
        BY <1>3, <1>4, <3>1
      <4> QED
        BY <2>3, <3>0, <4>1
    <3>2. CASE k = N
      BY <2>3, <3>0, <3>2
    <3> QED
      BY <1>7, <3>1, <3>2
  <2>8. \A k \in 1..N : \A i \in 1..(M + 1) : i <= fs[k].checkpoint <=> h[i] < k
    <3> SUFFICES ASSUME NEW k \in 1..N, NEW i \in 1..(M + 1)
                 PROVE  i <= fs[k].checkpoint <=> h[i] < k
      OBVIOUS
    <3>1. PICK c \in Nat : c = fs[k].checkpoint /\ c = frames[k].checkpoint /\ c <= M
      BY <1>1
    <3>2. CASE i \in 1..M
      BY <1>3, <2>3, <3>1, <3>2
    <3>3. CASE i = M + 1
      BY <2>3, <3>1, <3>3
    <3> QED
      BY <2>4, <3>2, <3>3
  <2>9. h \in [1..Len(sc) -> 0..N]
    BY <2>1, <2>2
  <2>10. InForce(h, sc, fs, N)
    <3>1. PICK K \in Nat : K = M + 1 /\ K = Len(sc)
      BY <2>1
    <3>2. /\ \A i, j \in 1..K : i < j => h[i] < h[j]
          /\ \A i \in 1..K : HasRules(fs, h[i]) /\ sc[i] = RuleSet(fs, h[i])
          /\ \A k \in 0..N : HasRules(fs, k) => \E i \in 1..K : h[i] = k
          /\ \A k \in 1..N : \A i \in 1..K : i <= fs[k].checkpoint <=> h[i] < k
      BY <2>5, <2>6, <2>7, <2>8, <3>1
    <3> QED
      BY <2>9, <3>1, <3>2 DEF InForce
  <2> QED
    BY <2>9, <2>10 DEF Collected
<1> QED
  BY <1>9, <1>10

\* The entries of a directory take the place of all that lies below it.
LEMMA EnterWalk ==
    ASSUME Inv, Inv', WalkInv, EnterDirectory, pc' # "error"
    PROVE  WalkInv'
<1> DEFINE scope == Top.scope
           names == {p[Len(p)] : p \in Children(tree, scope)}
<1>1. /\ pc = "enter" /\ pc' = "entries" /\ UNCHANGED <<tree, exclusions, sent, open, faulted>>
      /\ HasIgnoreFile(scope) => RulesAt(scope).valid
      /\ frames' = [frames EXCEPT ![Len(frames)].left = names]
      /\ \/ HasIgnoreFile(scope) /\ scoped' = Append(scoped, ScopedRuleSet(scope))
         \/ ~HasIgnoreFile(scope) /\ scoped' = scoped
  BY DEF EnterDirectory, Fail, input, channel
<1>2. PICK N \in Nat \ {0} : N = Len(frames)
  <2>1. pc = "enter"
    BY <1>1
  <2>2. Len(frames) \in Nat \ {0}
    BY <2>1 DEF Inv, ShapeInv
  <2> QED
    BY <2>2
<1>3. frames \in Seq(FrameType) /\ \A k \in 1..N : frames[k] \in FrameType
  BY <1>2 DEF Inv, ShapeInv
<1>4. Top = frames[N] /\ Top \in FrameType /\ N \in 1..N
  BY <1>2, <1>3 DEF Top
<1>5. PICK s \in Seq(Nat) : s = scope /\ s = frames[N].scope
  BY <1>4 DEF FrameType
<1>6. PICK fs : fs = frames'
  OBVIOUS
<1>7. PICK sc : sc = scoped'
  OBVIOUS
<1> HIDE DEF names
<1>8. /\ Len(fs) = N
      /\ \A k \in 1..N : /\ fs[k].scope = frames[k].scope /\ fs[k].checkpoint = frames[k].checkpoint
                         /\ k # N => fs[k].left = frames[k].left
      /\ fs[N].left = names
  <2>1. PICK old \in FrameType : old = frames[N]
    BY <1>3, <1>4
  <2>2. PICK new : new = [old EXCEPT !.left = names]
    OBVIOUS
  <2>3. new.left = names /\ new.scope = old.scope /\ new.checkpoint = old.checkpoint
    BY <2>1, <2>2 DEF FrameType
  <2>4. fs = [frames EXCEPT ![N] = new]
    BY <1>1, <1>2, <1>6, <2>1, <2>2
  <2>5. Len(fs) = N /\ \A k \in 1..N : fs[k] = IF k = N THEN new ELSE frames[k]
    BY <1>2, <1>3, <2>4
  <2> QED
    BY <1>4, <2>1, <2>3, <2>5
<1>9. tree \in Trees /\ PlaceInv /\ Running /\ Running'
  BY <1>1 DEF WalkInv, InputInv, Running
<1>10. Place(fs)
  <2> SUFFICES ASSUME NEW k \in 1..N
               PROVE  /\ Len(fs[k].scope) = k - 1 /\ fs[k].scope \in Visited
                      /\ \A m \in fs[k].left : /\ Append(fs[k].scope, m) \in Universe
                                               /\ Present(tree, Append(fs[k].scope, m))
    BY <1>8 DEF Place
  <2>1. Len(frames[k].scope) = k - 1 /\ frames[k].scope \in Visited
    BY <1>2, <1>9 DEF PlaceInv, Place
  <2>2. CASE k # N
    BY <1>2, <1>8, <1>9, <2>2 DEF PlaceInv, Place
  <2>3. CASE k = N
    <3> SUFFICES ASSUME NEW m \in names PROVE Append(s, m) \in Universe /\ Present(tree, Append(s, m))
      BY <1>5, <1>8, <2>1, <2>3
    <3>1. PICK c \in Children(tree, s) : m = c[Len(c)]
      BY <1>5 DEF names
    <3>2. c \in Universe /\ Present(tree, c) /\ Parent(c) = s
      BY DEF Children
    <3>3. c \in Seq(Nat) /\ c # << >>
      BY <3>2, UniverseAssumption DEF RelativePath
    <3>4. PICK L \in Nat : L = Len(c) - 1 /\ Len(c) = L + 1
      BY <3>3
    <3>5. s = SubSeq(c, 1, L)
      BY <3>2, <3>4 DEF Parent
    <3>6. Len(s) = L /\ \A i \in 1..L : s[i] = c[i]
      BY <3>3, <3>4, <3>5
    <3>7. PICK a : a = Append(s, m)
      OBVIOUS
    <3>8. m \in Nat
      BY <3>1, <3>3, <3>4
    <3>9. a \in Seq(Nat) /\ Len(a) = L + 1 /\ a[L + 1] = m /\ \A i \in 1..L : a[i] = s[i]
      BY <3>4, <3>6, <3>7, <3>8
    <3>10. \A i \in 1..(L + 1) : a[i] = c[i]
      <4>1. \A i \in 1..(L + 1) : i \in 1..L \/ i = L + 1
        BY <3>4
      <4> QED
        BY <3>1, <3>4, <3>6, <3>9, <4>1
    <3>11. a = c
      BY <3>3, <3>4, <3>9, <3>10, SeqEqual
    <3> QED
      BY <3>2, <3>7, <3>11
  <2> QED
    BY <2>2, <2>3
<1>11. ASSUME NEW p \in Universe, Present(tree, p), Ahead(frames, TRUE, p)
       PROVE  Ahead(fs, FALSE, p)
  <2>1. Top.scope \in Seq(Nat) /\ Top.left \subseteq Nat
    BY <1>4 DEF FrameType
  <2>2. fs[N].left = {q[Len(q)] : q \in Children(tree, Top.scope)}
    BY <1>8 DEF names
  <2> QED
    BY <1>2, <1>8, <1>9, <1>11, <2>1, <2>2, AheadEntered
<1>12. Covered(fs, FALSE, SentRecords)
  <2>1. Covered(frames, TRUE, SentRecords)
    BY <1>1, <1>9 DEF WalkInv, CoverInv
  <2>2. \A p \in Universe : ListedPath(p) => Present(tree, p)
    BY ListingFacts
  <2> QED
    BY <1>11, <2>1, <2>2 DEF Covered
<1>13. ASSUME NEW c \in Children(tree, s) PROVE Ahead(fs, FALSE, c)
  <2>1. c \in Universe /\ Present(tree, c) /\ Parent(c) = s
    BY DEF Children
  <2>2. c \in Seq(Nat) /\ c # << >>
    BY <2>1, UniverseAssumption DEF RelativePath
  <2>3. PICK L \in Nat : L = Len(c) - 1
    BY <2>2
  <2>4. s = SubSeq(c, 1, L)
    BY <2>1, <2>3 DEF Parent
  <2>5. Len(s) = L /\ \A i \in 1..L : s[i] = c[i]
    BY <2>2, <2>3, <2>4
  <2>6. Below(c, s)
    BY <2>2, <2>3, <2>5 DEF Below, StartsWith
  <2>7. Ahead(frames, TRUE, c)
    BY <1>2, <1>5, <2>6 DEF Ahead
  <2> QED
    BY <1>11, <2>1, <2>7
<1>14. Checked(fs, FALSE) /\ exclusions.valid
  <2>1. Checked(frames, TRUE) /\ exclusions.valid
    BY <1>1, <1>9 DEF WalkInv, CheckedInv
  <2> SUFFICES ASSUME NEW d \in Visited PROVE Ahead(fs, FALSE, d) \/ Clean(fs, FALSE, d)
    BY <2>1 DEF Checked
  <2>2. CASE d = s
    BY <1>1, <1>5, <1>13, <2>2 DEF Clean
  <2>3. CASE Ahead(frames, TRUE, d) /\ d # << >>
    <3>1. d \in Universe /\ Present(tree, d)
      BY <2>3, ListingFacts
    <3> QED
      BY <1>11, <2>3, <3>1
  <2>4. CASE Clean(frames, TRUE, d)
    <3>1. \A c \in Children(tree, d) : c \in Universe /\ Present(tree, c)
      BY DEF Children
    <3> QED
      BY <1>11, <2>4, <3>1 DEF Clean
  <2>5. ~(Ahead(frames, TRUE, << >>))
    <3> SUFFICES ASSUME Ahead(frames, TRUE, << >>) PROVE FALSE
      OBVIOUS
    <3>1. ASSUME NEW k \in 1..N, NEW m \in frames[k].left, StartsWith(<< >>, Append(frames[k].scope, m))
          PROVE  FALSE
      <4>1. frames[k].scope \in Seq(Nat) /\ m \in Nat
        BY <1>3 DEF FrameType
      <4>2. PICK x : x = frames[k].scope
        OBVIOUS
      <4>3. Len(Append(x, m)) = Len(x) + 1 /\ Len(x) \in Nat
        BY <4>1, <4>2
      <4>4. Len(<< >>) = 0
        OBVIOUS
      <4> QED
        BY <3>1, <4>2, <4>3, <4>4 DEF StartsWith
    <3>2. ~Below(<< >>, s)
      <4> SUFFICES ASSUME StartsWith(<< >>, s), s # << >> PROVE FALSE
        BY DEF Below
      <4>1. Len(s) \in Nat /\ Len(s) # 0 /\ Len(<< >>) = 0
        OBVIOUS
      <4> QED
        BY <4>1 DEF StartsWith
    <3> QED
      BY <1>2, <1>5, <3>1, <3>2 DEF Ahead
  <2>6. frames[Len(frames)].scope = s
    BY <1>2, <1>5
  <2> QED
    BY <2>1, <2>2, <2>3, <2>4, <2>5, <2>6 DEF Checked
<1>15. Collected(sc, fs, N)
  <2>1. Collected(scoped, frames, N - 1)
    BY <1>1, <1>2 DEF WalkInv, RulesInv
  <2>2. Len(scoped) \in Nat /\ \A k \in 1..N : frames[k].checkpoint \in Nat /\ frames[k].checkpoint <= Len(scoped)
    BY <1>2, <1>3, SMTT(30) DEF Inv, ShapeInv, CheckpointInv, FrameType
  <2>3. PICK S : scoped \in Seq(S)
    BY DEF Inv, ShapeInv
  <2> QED
    BY <1>1, <1>2, <1>7, <1>8, <2>1, <2>2, <2>3, CollectedEnter
<1>16. SentRecords' = SentRecords /\ (pc' = "enter") = FALSE
  BY <1>1 DEF SentRecords
<1>17. PlaceInv' /\ CoverInv' /\ CheckedInv'
  BY <1>1, <1>6, <1>10, <1>12, <1>14, <1>16, CarryPlace, CarryCover, CarryChecked
<1>18. RulesInv'
  BY <1>1, <1>6, <1>7, <1>8, <1>15, <1>16, CarryRules
<1>19. PassedInv' /\ CauseInv'
  BY <1>1 DEF PassedInv, CauseInv
<1>20. EndInv'
  BY <1>1 DEF WalkInv, EndInv
<1> QED
  BY <1>1, <1>9, <1>16, <1>17, <1>18, <1>19, <1>20, Closing DEF WalkInv, SentInv


\* A call that has not read its directory brings no rules.
LEMMA CollectedCall ==
    ASSUME NEW N \in Nat \ {0}, N = Len(frames), NEW fs, Len(fs) \in {N, N + 1},
           \A k \in 1..N : fs[k].scope = frames[k].scope /\ fs[k].checkpoint = frames[k].checkpoint,
           Len(fs) = N + 1 => fs[N + 1].checkpoint = Len(scoped),
           Len(scoped) \in Nat, Collected(scoped, frames, N)
    PROVE  Collected(scoped, fs, N)
<1>1. PICK M \in Nat : M = Len(scoped)
  OBVIOUS
<1>2. PICK g \in [1..M -> 0..N] : InForce(g, scoped, frames, N)
  BY <1>1 DEF Collected
<1>3. /\ \A i, j \in 1..M : i < j => g[i] < g[j]
      /\ \A i \in 1..M : HasRules(frames, g[i]) /\ scoped[i] = RuleSet(frames, g[i])
      /\ \A k \in 0..N : HasRules(frames, k) => \E i \in 1..M : g[i] = k
      /\ \A k \in 1..N : \A i \in 1..M : i <= frames[k].checkpoint <=> g[i] < k
  BY <1>1, <1>2 DEF InForce
<1>4. \A k \in 0..N : (HasRules(fs, k) <=> HasRules(frames, k)) /\ RuleSet(fs, k) = RuleSet(frames, k)
  <2> SUFFICES ASSUME NEW k \in 0..N
               PROVE  (HasRules(fs, k) <=> HasRules(frames, k)) /\ RuleSet(fs, k) = RuleSet(frames, k)
    OBVIOUS
  <2>1. CASE k = 0
    BY <2>1, RulesAbove
  <2>2. CASE k # 0
    <3>1. fs[k].scope = frames[k].scope
      BY <2>2
    <3>2. HasRules(fs, k) <=> HasRules(frames, k)
      BY <2>2, <3>1 DEF HasRules
    <3>3. RuleSet(fs, k) = RuleSet(frames, k)
      BY <2>2, <3>1 DEF RuleSet
    <3> QED
      BY <3>2, <3>3
  <2> QED
    BY <2>1, <2>2
<1>5. \A i \in 1..M : g[i] \in 0..N
  OBVIOUS
<1>6. \A i \in 1..M : HasRules(fs, g[i]) /\ scoped[i] = RuleSet(fs, g[i])
  BY <1>3, <1>4, <1>5
<1>7. \A k \in 0..N : HasRules(fs, k) => \E i \in 1..M : g[i] = k
  BY <1>3, <1>4
<1>8. \A k \in 1..Len(fs) : \A i \in 1..M : i <= fs[k].checkpoint <=> g[i] < k
  <2> SUFFICES ASSUME NEW k \in 1..Len(fs), NEW i \in 1..M
               PROVE  i <= fs[k].checkpoint <=> g[i] < k
    OBVIOUS
  <2>1. CASE k \in 1..N
    BY <1>3, <2>1
  <2>2. CASE k = N + 1 /\ Len(fs) = N + 1
    <3>1. fs[k].checkpoint = M /\ i <= M
      BY <1>1, <2>2
    <3>2. g[i] < k
      BY <1>5, <2>2
    <3> QED
      BY <3>1, <3>2
  <2>3. k \in 1..N \/ (k = N + 1 /\ Len(fs) = N + 1)
    OBVIOUS
  <2> QED
    BY <2>1, <2>2, <2>3
<1> QED
  BY <1>1, <1>2, <1>3, <1>6, <1>7, <1>8 DEF Collected, InForce

\* The calls that are left keep their rules, and no other rules remain.
LEMMA CollectedLeave ==
    ASSUME NEW N \in Nat \ {0}, N = Len(frames), NEW fs, Len(fs) = N - 1,
           \A k \in 1..(N - 1) : fs[k] = frames[k],
           NEW kept \in Nat, kept = frames[N].checkpoint, kept <= Len(scoped), Len(scoped) \in Nat,
           NEW sc, Len(sc) = kept, \A i \in 1..kept : sc[i] = scoped[i],
           Collected(scoped, frames, N)
    PROVE  Collected(sc, fs, N - 1)
<1>1. PICK M \in Nat : M = Len(scoped)
  OBVIOUS
<1>2. PICK g \in [1..M -> 0..N] : InForce(g, scoped, frames, N)
  BY <1>1 DEF Collected
<1>3. /\ \A i, j \in 1..M : i < j => g[i] < g[j]
      /\ \A i \in 1..M : HasRules(frames, g[i]) /\ scoped[i] = RuleSet(frames, g[i])
      /\ \A k \in 0..N : HasRules(frames, k) => \E i \in 1..M : g[i] = k
      /\ \A k \in 1..N : \A i \in 1..M : i <= frames[k].checkpoint <=> g[i] < k
  BY <1>1, <1>2 DEF InForce
<1>4. PICK E \in Nat : E = N - 1 /\ N = E + 1
  <2>1. N - 1 \in Nat /\ N = (N - 1) + 1
    OBVIOUS
  <2> QED
    BY <2>1
<1>5. \A k \in 0..E : (HasRules(fs, k) <=> HasRules(frames, k)) /\ RuleSet(fs, k) = RuleSet(frames, k)
  <2> SUFFICES ASSUME NEW k \in 0..E
               PROVE  (HasRules(fs, k) <=> HasRules(frames, k)) /\ RuleSet(fs, k) = RuleSet(frames, k)
    OBVIOUS
  <2>1. CASE k = 0
    BY <2>1, RulesAbove
  <2>2. CASE k # 0
    <3>1. fs[k] = frames[k]
      BY <1>4, <2>2
    <3>2. HasRules(fs, k) <=> HasRules(frames, k)
      BY <2>2, <3>1 DEF HasRules
    <3>3. RuleSet(fs, k) = RuleSet(frames, k)
      BY <2>2, <3>1 DEF RuleSet
    <3> QED
      BY <3>2, <3>3
  <2> QED
    BY <2>1, <2>2
<1>6. \A i \in 1..M : i <= kept <=> g[i] < N
  BY <1>3
<1>7. \A i \in 1..kept : i \in 1..M /\ g[i] \in 0..E
  <2> SUFFICES ASSUME NEW i \in 1..kept PROVE i \in 1..M /\ g[i] \in 0..E
    OBVIOUS
  <2>1. i \in 1..M /\ i <= kept
    BY <1>1
  <2>2. g[i] < N /\ g[i] \in 0..N
    BY <1>6, <2>1
  <2> QED
    BY <1>4, <2>1, <2>2
<1> DEFINE h == [i \in 1..kept |-> g[i]]
<1>8. h \in [1..kept -> 0..E] /\ \A i \in 1..kept : h[i] = g[i]
  BY <1>7
<1> HIDE DEF h
<1>9. \A i, j \in 1..kept : i < j => h[i] < h[j]
  BY <1>3, <1>7, <1>8
<1>10. \A i \in 1..kept : HasRules(fs, h[i]) /\ sc[i] = RuleSet(fs, h[i])
  <2> SUFFICES ASSUME NEW i \in 1..kept PROVE HasRules(fs, h[i]) /\ sc[i] = RuleSet(fs, h[i])
    OBVIOUS
  <2>1. i \in 1..M /\ h[i] = g[i] /\ g[i] \in 0..E /\ sc[i] = scoped[i]
    BY <1>7, <1>8
  <2> QED
    BY <1>3, <1>5, <2>1
<1>11. \A k \in 0..E : HasRules(fs, k) => \E i \in 1..kept : h[i] = k
  <2> SUFFICES ASSUME NEW k \in 0..E, HasRules(fs, k) PROVE \E i \in 1..kept : h[i] = k
    OBVIOUS
  <2>1. k \in 0..N /\ k < N
    BY <1>4
  <2>2. PICK i \in 1..M : g[i] = k
    BY <1>3, <1>5, <2>1
  <2>3. i \in 1..kept
    BY <1>6, <2>1, <2>2
  <2> QED
    BY <1>8, <2>2, <2>3
<1>12. \A k \in 1..E : \A i \in 1..kept : i <= fs[k].checkpoint <=> h[i] < k
  <2> SUFFICES ASSUME NEW k \in 1..E, NEW i \in 1..kept PROVE i <= fs[k].checkpoint <=> h[i] < k
    OBVIOUS
  <2>1. k \in 1..N /\ fs[k] = frames[k] /\ i \in 1..M /\ h[i] = g[i]
    BY <1>4, <1>7, <1>8
  <2> QED
    BY <1>3, <2>1
<1>13. InForce(h, sc, fs, E)
  BY <1>4, <1>8, <1>9, <1>10, <1>11, <1>12 DEF InForce
<1> QED
  BY <1>4, <1>8, <1>13 DEF Collected


\* The innermost call returns: it has nothing left.
LEMMA LeaveWalk ==
    ASSUME Inv, Inv', WalkInv, LeaveDirectory
    PROVE  WalkInv'
<1> DEFINE kept == Top.checkpoint
<1>1. /\ pc = "entries" /\ Top.left = {} /\ UNCHANGED <<tree, exclusions, sent, open, faulted>>
      /\ scoped' = SubSeq(scoped, 1, kept)
      /\ frames' = SubSeq(frames, 1, Len(frames) - 1)
      /\ pc' = IF Len(frames) = 1 THEN "end" ELSE "entries"
  BY DEF LeaveDirectory, Restore, input, channel
<1>2. PICK N \in Nat \ {0} : N = Len(frames)
  <2>1. Len(frames) \in Nat \ {0}
    BY <1>1 DEF Inv, ShapeInv
  <2> QED
    BY <2>1
<1>3. frames \in Seq(FrameType) /\ \A k \in 1..N : frames[k] \in FrameType
  BY <1>2 DEF Inv, ShapeInv
<1>4. Top = frames[N] /\ Top \in FrameType /\ N \in 1..N
  BY <1>2, <1>3 DEF Top
<1>5. kept \in Nat /\ kept <= Len(scoped) /\ Len(scoped) \in Nat /\ kept = frames[N].checkpoint
  BY <1>2, <1>4 DEF Inv, ShapeInv, CheckpointInv, FrameType
<1>6. PICK fs : fs = frames'
  OBVIOUS
<1>7. PICK sc : sc = scoped'
  OBVIOUS
<1>8. Len(fs) = N - 1 /\ \A k \in 1..(N - 1) : fs[k] = frames[k]
  <2>1. PICK E \in Nat : E = N - 1 /\ E <= N
    <3>1. N - 1 \in Nat /\ N - 1 <= N
      OBVIOUS
    <3> QED
      BY <3>1
  <2>2. fs = SubSeq(frames, 1, E)
    BY <1>1, <1>2, <1>6, <2>1
  <2>3. Len(fs) = E /\ \A k \in 1..E : fs[k] = frames[k]
    BY <1>2, <1>3, <2>1, <2>2
  <2> QED
    BY <2>1, <2>3
<1>9. Len(sc) = kept /\ \A i \in 1..kept : sc[i] = scoped[i]
  <2>1. PICK S : scoped \in Seq(S)
    BY DEF Inv, ShapeInv
  <2>2. PICK K \in Nat : K = kept /\ K <= Len(scoped)
    BY <1>5
  <2>3. sc = SubSeq(scoped, 1, K)
    BY <1>1, <1>7, <2>2
  <2>4. Len(sc) = K /\ \A i \in 1..K : sc[i] = scoped[i]
    BY <2>1, <2>2, <2>3
  <2> QED
    BY <2>2, <2>4
<1>10. \A k \in 1..(N - 1) : k \in 1..N /\ k # N
  BY <1>2
<1>11. Place(fs)
  BY <1>2, <1>8, <1>10 DEF WalkInv, PlaceInv, Place
<1>12. \A p : Ahead(frames, FALSE, p) => Ahead(fs, FALSE, p)
  <2> SUFFICES ASSUME NEW p, NEW k \in 1..N, NEW m \in frames[k].left,
                      StartsWith(p, Append(frames[k].scope, m))
               PROVE  Ahead(fs, FALSE, p)
    BY <1>2 DEF Ahead
  <2>1. k # N
    BY <1>1, <1>4
  <2>2. k \in 1..(N - 1)
    BY <2>1
  <2> QED
    BY <1>8, <2>2 DEF Ahead
<1>13. Running /\ Running' /\ (pc = "enter") = FALSE /\ (pc' = "enter") = FALSE
  BY <1>1 DEF Running
<1>14. SentRecords' = SentRecords
  BY <1>1 DEF SentRecords
<1>15. Covered(fs, FALSE, SentRecords)
  BY <1>12, <1>13 DEF WalkInv, CoverInv, Covered
<1>16. Checked(fs, FALSE) /\ exclusions.valid
  <2>1. Checked(frames, FALSE) /\ exclusions.valid
    BY <1>13 DEF WalkInv, CheckedInv
  <2> QED
    BY <1>12, <2>1 DEF Checked, Clean
<1>17. Collected(sc, fs, N - 1)
  <2>1. Collected(scoped, frames, N)
    BY <1>1, <1>2 DEF WalkInv, RulesInv
  <2> HIDE DEF kept
  <2> QED
    BY <1>2, <1>5, <1>8, <1>9, <2>1, CollectedLeave
<1>18. PlaceInv' /\ CoverInv' /\ CheckedInv'
  BY <1>1, <1>6, <1>11, <1>13, <1>14, <1>15, <1>16, CarryPlace, CarryCover, CarryChecked
<1>19. RulesInv'
  BY <1>1, <1>6, <1>7, <1>8, <1>13, <1>17, CarryRules
<1>20. PassedInv' /\ CauseInv'
  BY <1>1 DEF PassedInv, CauseInv
<1>21. EndInv'
  <2>1. pc' = "end" => frames' = << >>
    <3> SUFFICES ASSUME pc' = "end" PROVE frames' = << >>
      OBVIOUS
    <3>1. N = 1
      BY <1>1, <1>2
    <3>2. frames' \in Seq(FrameType)
      BY DEF Inv, ShapeInv
    <3>3. Len(frames') = 0
      BY <1>6, <1>8, <3>1
    <3> QED
      BY <3>2, <3>3
  <2> QED
    BY <1>1, <2>1 DEF WalkInv, EndInv
<1> QED
  BY <1>1, <1>13, <1>14, <1>18, <1>19, <1>20, <1>21, Closing DEF WalkInv, SentInv

\* An entry is refused, found managed, or left out with all that lies below it.
LEMMA ConsiderWalk ==
    ASSUME Inv, Inv', WalkInv, NEW n \in DOMAIN NameBytes, ConsiderEntry(n)
    PROVE  WalkInv'
<1>1. pc = "entries" /\ n \in Top.left /\ \A m \in Top.left : n <= m
  BY DEF ConsiderEntry, NextEntry
<1>2. frames # << >> /\ PlaceInv /\ RulesInv /\ tree \in Trees
  BY <1>1 DEF Inv, ShapeInv, WalkInv, InputInv
<1>3. PICK c : EntryFacts(n, c)
  BY <1>1, <1>2, EntryPath
<1>4. /\ c = Current(n) /\ c \in Seq(Nat) /\ n \in Nat /\ c \in Universe /\ Present(tree, c)
      /\ Top.scope \in Visited /\ c \in Children(tree, Top.scope)
      /\ Len(frames) \in Nat \ {0} /\ c # << >>
  BY <1>3 DEF EntryFacts
<1>5. decision(c) = "Managed" <=> Managed(tree, c, Rules)
  BY <1>1, <1>2, <1>3, ManagedDecision
<1>6. /\ UNCHANGED <<tree, exclusions, scoped, sent, open, faulted>>
      /\ \/ Refused(c) /\ pc' = "error" /\ UNCHANGED frames
         \/ ~Refused(c) /\ decision(c) = "Managed" /\ pc' = "emit" /\ UNCHANGED frames
         \/ ~Refused(c) /\ decision(c) # "Managed" /\ pc' = pc /\ frames' = WithoutEntry(n)
  BY <1>4 DEF ConsiderEntry, Fail, input, channel
<1>7. CASE Refused(c) /\ pc' = "error" /\ UNCHANGED frames
  <2>1. ~open' \/ Unscannable
    BY <1>4, <1>6, <1>7 DEF Refused, Unscannable
  <2> QED
    BY <1>1, <1>6, <1>7, <2>1, FailWalk
<1>8. SentRecords' = SentRecords /\ Running /\ (pc = "enter") = FALSE
  BY <1>1, <1>6 DEF SentRecords, Running
<1>9. /\ Covered(frames, FALSE, SentRecords) /\ Checked(frames, FALSE) /\ exclusions.valid
      /\ Collected(scoped, frames, Len(frames))
  BY <1>1, <1>8 DEF WalkInv, CoverInv, CheckedInv, RulesInv
<1>10. ~Refused(c) => Acceptable(c)
  BY DEF Refused, Acceptable
<1>11. CASE ~Refused(c) /\ decision(c) = "Managed" /\ pc' = "emit" /\ UNCHANGED frames
  <2>1. Passed(Top)
    <3> SUFFICES ASSUME NEW k \in Top.left, \A m \in Top.left : k <= m
                 PROVE  Managed(tree, Append(Top.scope, k), Rules) /\ Acceptable(Append(Top.scope, k))
      BY DEF Passed
    <3>1. k \in Nat
      <4>1. Top \in FrameType
        BY <1>2, <1>4 DEF Inv, ShapeInv, Top
      <4> QED
        BY <4>1 DEF FrameType
    <3>2. k = n
      BY <1>1, <1>4, <3>1
    <3> QED
      BY <1>4, <1>5, <1>10, <1>11, <3>2 DEF Current
  <2>2. Top' = Top /\ Running' /\ (pc' = "enter") = FALSE
    BY <1>11 DEF Top, Running
  <2>3. PassedInv'
    BY <1>6, <2>1, <2>2, CarryPassed
  <2>4. PlaceInv' /\ CoverInv' /\ CheckedInv'
    BY <1>2, <1>6, <1>8, <1>9, <1>11, <2>2, CarryPlace, CarryCover, CarryChecked DEF PlaceInv
  <2>5. RulesInv'
    BY <1>6, <1>9, <1>11, <2>2, CarryRules
  <2>6. CauseInv'
    BY <1>11 DEF CauseInv
  <2>7. EndInv'
    BY <1>1, <1>6, <1>11 DEF WalkInv, EndInv
  <2> QED
    BY <1>6, <1>8, <2>2, <2>3, <2>4, <2>5, <2>6, <2>7, Closing DEF WalkInv, SentInv
<1>12. CASE ~Refused(c) /\ decision(c) # "Managed" /\ pc' = pc /\ frames' = WithoutEntry(n)
  <2>1. PICK fs : fs = frames' /\ Trimmed(fs, n)
    BY <1>2, <1>12, WithoutShape
  <2>2. \A p : Ahead(frames, FALSE, p) => Ahead(fs, FALSE, p) \/ StartsWith(p, c)
    BY <1>2, <1>4, <2>1, AheadTrim
  <2>3. ASSUME NEW p, ListedPath(p) PROVE ~StartsWith(p, c)
    <3> SUFFICES ASSUME StartsWith(p, c) PROVE FALSE
      OBVIOUS
    <3>1. ListedPath(c)
      BY <1>2, <1>4, <2>3, ListedAbove
    <3> QED
      BY <1>5, <1>12, <3>1, ListingFacts
  <2>4. Covered(fs, FALSE, SentRecords)
    BY <1>9, <2>2, <2>3 DEF Covered
  <2>5. ASSUME NEW d \in Visited PROVE ~StartsWith(d, c)
    <3>1. CASE d = << >>
      <4>1. Len(c) \in Nat /\ Len(c) # 0 /\ Len(<< >>) = 0
        BY <1>4
      <4> QED
        BY <3>1, <4>1 DEF StartsWith
    <3>2. CASE d # << >>
      <4>1. ListedPath(d)
        BY <3>2, ListingFacts
      <4> QED
        BY <2>3, <4>1
    <3> QED
      BY <3>1, <3>2
  <2>6. ASSUME NEW d \in Visited, NEW x \in Children(tree, d), StartsWith(x, c) PROVE x = c
    <3> SUFFICES ASSUME x # c PROVE FALSE
      OBVIOUS
    <3>1. x \in Universe /\ Parent(x) = d
      BY DEF Children
    <3>2. x \in Seq(Nat)
      BY <3>1, UniverseAssumption DEF RelativePath
    <3>3. StartsWith(d, c)
      BY <1>4, <2>6, <3>1, <3>2, PrefixAncestor
    <3> QED
      BY <2>5, <3>3
  <2>7. Checked(fs, FALSE)
    <3> SUFFICES ASSUME NEW d \in Visited PROVE Ahead(fs, FALSE, d) \/ Clean(fs, FALSE, d)
      BY DEF Checked
    <3>1. CASE Ahead(frames, FALSE, d)
      BY <2>2, <2>5, <3>1
    <3>2. CASE Clean(frames, FALSE, d)
      BY <1>10, <1>12, <2>2, <2>6, <3>2 DEF Clean
    <3> QED
      BY <1>9, <3>1, <3>2 DEF Checked
  <2>8. Len(fs) = Len(frames)
        /\ \A k \in 1..Len(frames) : fs[k].scope = frames[k].scope /\ fs[k].left \subseteq frames[k].left
                                     /\ fs[k].checkpoint = frames[k].checkpoint
    BY <2>1 DEF Trimmed
  <2>9. Place(fs)
    BY <1>2, <2>8 DEF PlaceInv, Place
  <2>10. Collected(scoped, fs, Len(frames))
    <3>1. PICK N \in Nat \ {0} : N = Len(frames)
      BY <1>4
    <3>2. Len(scoped) \in Nat /\ Len(fs) # N + 1 /\ Len(fs) \in {N, N + 1}
      BY <2>8, <3>1 DEF Inv, ShapeInv
    <3> QED
      BY <1>9, <2>8, <3>1, <3>2, CollectedCall
  <2>11. Running' /\ (pc' = "enter") = FALSE /\ pc' = "entries"
    BY <1>1, <1>12 DEF Running
  <2>12. PlaceInv' /\ CoverInv' /\ CheckedInv'
    BY <1>6, <1>8, <1>9, <2>1, <2>4, <2>7, <2>9, <2>11, CarryPlace, CarryCover, CarryChecked
  <2>13. RulesInv'
    BY <1>6, <2>1, <2>8, <2>10, <2>11, CarryRules
  <2>14. PassedInv' /\ CauseInv'
    BY <2>11 DEF PassedInv, CauseInv
  <2>15. EndInv'
    BY <1>1, <1>6, <2>11 DEF WalkInv, EndInv
  <2> QED
    BY <1>6, <1>8, <2>11, <2>12, <2>13, <2>14, <2>15, Closing DEF WalkInv, SentInv
<1> QED
  BY <1>6, <1>7, <1>11, <1>12


\* An entry is sent, and if it is a directory all below it is entered.
LEMMA EmitWalk ==
    ASSUME Inv, Inv', WalkInv, NEW n \in DOMAIN NameBytes, EmitRecord(n)
    PROVE  WalkInv'
<1>1. pc = "emit" /\ n \in Top.left /\ \A m \in Top.left : n <= m
  BY DEF EmitRecord, NextEntry
<1>2. frames # << >> /\ PlaceInv /\ tree \in Trees /\ Passed(Top)
  BY <1>1 DEF Inv, ShapeInv, WalkInv, InputInv, PassedInv
<1>3. PICK c : EntryFacts(n, c)
  BY <1>1, <1>2, EntryPath
<1>4. /\ c = Current(n) /\ c \in Seq(Nat) /\ n \in Nat /\ c \in Universe /\ Present(tree, c)
      /\ Top.scope \in Visited /\ c \in Children(tree, Top.scope)
      /\ c # << >> /\ Len(c) = Len(frames) /\ Len(frames) \in Nat \ {0}
  BY <1>3 DEF EntryFacts
<1>5. Managed(tree, c, Rules) /\ Acceptable(c)
  BY <1>1, <1>2, <1>4 DEF Passed, Current
<1>6. ListedPath(c) /\ tree[c].kind \in Kinds
  BY <1>4, <1>5, ListedChild DEF Acceptable, Unsupported
<1>7. PICK r : r = RecordAt(tree, c) /\ r.kind = tree[c].kind
  <2>1. RecordAt(tree, c).kind = tree[c].kind
    BY DEF RecordAt
  <2> QED
    BY <2>1
<1>8. PICK f0 : f0 = WithoutEntry(n) /\ Trimmed(f0, n)
  BY <1>2, WithoutShape
<1>9. PICK inner : inner = Frame(c, Len(scoped)) /\ inner.scope = c /\ inner.left = {}
                   /\ inner.checkpoint = Len(scoped)
  <2>1. /\ Frame(c, Len(scoped)).scope = c /\ Frame(c, Len(scoped)).left = {}
        /\ Frame(c, Len(scoped)).checkpoint = Len(scoped)
    BY DEF Frame
  <2> QED
    BY <2>1
<1>10. PICK N \in Nat \ {0} : N = Len(frames)
  BY <1>4
<1>11. /\ UNCHANGED <<tree, exclusions, scoped, open, faulted>> /\ sent' = Append(sent, r)
       /\ \/ tree[c].kind = "dir" /\ frames' = Append(f0, inner) /\ pc' = "enter"
          \/ tree[c].kind # "dir" /\ frames' = f0 /\ pc' = "entries"
  BY <1>4, <1>7, <1>8, <1>9 DEF EmitRecord, input
<1>12. PICK fs : fs = frames'
  OBVIOUS
<1>13. PICK E \in BOOLEAN : E = (pc' = "enter") /\ (E <=> tree[c].kind = "dir")
  <2>1. (pc' = "enter") \in BOOLEAN
    OBVIOUS
  <2>2. (pc' = "enter") <=> tree[c].kind = "dir"
    BY <1>11
  <2> QED
    BY <2>1, <2>2
<1>14. /\ f0 \in Seq(FrameType) /\ Len(f0) = N
       /\ \A k \in 1..N : /\ f0[k].scope = frames[k].scope /\ f0[k].checkpoint = frames[k].checkpoint
                          /\ f0[k].left \subseteq frames[k].left
  BY <1>8, <1>10 DEF Trimmed
<1>15. /\ Len(fs) \in {N, N + 1} /\ (E <=> Len(fs) = N + 1)
       /\ \A k \in 1..N : fs[k] = f0[k]
       /\ E => fs[N + 1] = inner
  <2>1. CASE E
    <3>1. fs = Append(f0, inner)
      BY <1>11, <1>12, <1>13, <2>1
    <3>2. Len(fs) = N + 1 /\ fs[N + 1] = inner /\ \A k \in 1..N : fs[k] = f0[k]
      BY <1>10, <1>14, <3>1
    <3> QED
      BY <2>1, <3>2
  <2>2. CASE ~E
    <3>1. fs = f0
      BY <1>11, <1>12, <1>13, <2>2
    <3> QED
      BY <1>10, <1>14, <2>2, <3>1
  <2> QED
    BY <2>1, <2>2
<1>16. \A k \in 1..Len(fs) : k \in 1..N \/ (E /\ k = N + 1)
  BY <1>10, <1>15
<1>17. ASSUME NEW p, Ahead(f0, FALSE, p) PROVE Ahead(fs, E, p)
  <2>1. PICK k \in 1..N : \E m \in f0[k].left : StartsWith(p, Append(f0[k].scope, m))
    BY <1>14, <1>17 DEF Ahead
  <2>2. k \in 1..Len(fs) /\ fs[k] = f0[k]
    BY <1>10, <1>15
  <2> QED
    BY <2>1, <2>2 DEF Ahead
<1>18. ASSUME NEW p \in Universe, Present(tree, p), Ahead(frames, FALSE, p), p # c
       PROVE  Ahead(fs, E, p)
  <2>1. CASE Ahead(f0, FALSE, p)
    BY <1>17, <2>1
  <2>2. CASE StartsWith(p, c)
    <3>1. p \in Seq(Nat)
      BY UniverseAssumption DEF RelativePath
    <3>2. c \in Ancestors(p)
      BY <1>4, <1>18, <2>2, <3>1, PrefixAncestor
    <3>3. tree[c].kind = "dir"
      BY <1>2, <1>18, <3>2, ScannerAssumption DEF IsTree
    <3>4. E /\ fs[Len(fs)].scope = c
      BY <1>9, <1>13, <1>15, <3>3
    <3>5. Below(p, c)
      BY <1>18, <2>2 DEF Below
    <3> QED
      BY <3>4, <3>5 DEF Ahead
  <2>3. Ahead(f0, FALSE, p) \/ StartsWith(p, c)
    BY <1>2, <1>4, <1>8, <1>18, AheadTrim
  <2> QED
    BY <2>1, <2>2, <2>3
<1>19. Running /\ (pc = "enter") = FALSE /\ Running'
  BY <1>1, <1>11 DEF Running
<1>20. /\ Covered(frames, FALSE, SentRecords) /\ Checked(frames, FALSE) /\ exclusions.valid
       /\ Collected(scoped, frames, N)
  BY <1>1, <1>10, <1>19 DEF WalkInv, CoverInv, CheckedInv, RulesInv
<1>21. /\ SentRecords' = SentRecords \cup {r}
       /\ Len(sent') = Len(sent) + 1 /\ sent'[Len(sent) + 1] = r /\ Len(sent) \in Nat
       /\ \A i \in 1..Len(sent) : sent'[i] = sent[i]
  BY <1>6, <1>7, <1>11, SentGrows
<1>22. PICK S : S = SentRecords' /\ S = SentRecords \cup {r}
  BY <1>21
<1>23. Covered(fs, E, S)
  <2> SUFFICES ASSUME NEW p \in Universe, ListedPath(p)
               PROVE  RecordAt(tree, p) \in S \/ Ahead(fs, E, p)
    BY DEF Covered
  <2>1. CASE p = c
    BY <1>7, <1>22, <2>1
  <2>2. CASE p # c
    <3>1. Present(tree, p)
      BY ListingFacts
    <3>2. RecordAt(tree, p) \in SentRecords \/ Ahead(frames, FALSE, p)
      BY <1>20 DEF Covered
    <3> QED
      BY <1>18, <1>22, <2>2, <3>1, <3>2
  <2> QED
    BY <2>1, <2>2
<1>24. Checked(fs, E)
  <2> SUFFICES ASSUME NEW d \in Visited
               PROVE  \/ Ahead(fs, E, d) \/ (E /\ d = fs[Len(fs)].scope)
                      \/ Clean(fs, E, d)
    BY DEF Checked
  <2>1. CASE d = c
    <3>1. tree[c].kind = "dir"
      BY <1>4, <2>1, ListingFacts
    <3> QED
      BY <1>9, <1>13, <1>15, <2>1, <3>1
  <2>2. CASE Ahead(frames, FALSE, d) /\ d # c /\ d # << >>
    <3>1. d \in Universe /\ Present(tree, d)
      BY <2>2, ListingFacts
    <3> QED
      BY <1>18, <2>2, <3>1
  <2>3. CASE Clean(frames, FALSE, d)
    <3>1. \A x \in Children(tree, d) : x \in Universe /\ Present(tree, x)
      BY DEF Children
    <3>2. \A x \in Children(tree, d) : Acceptable(x) \/ Ahead(fs, E, x)
      BY <1>5, <1>18, <2>3, <3>1 DEF Clean
    <3> QED
      BY <2>3, <3>2 DEF Clean
  <2>4. CASE Ahead(frames, FALSE, << >>) /\ d = << >>
    <3>1. Ahead(f0, FALSE, << >>) \/ StartsWith(<< >>, c)
      BY <1>2, <1>4, <1>8, <2>4, AheadTrim
    <3>2. Len(c) \in Nat /\ Len(c) # 0 /\ Len(<< >>) = 0
      BY <1>4
    <3>3. ~StartsWith(<< >>, c)
      BY <3>2 DEF StartsWith
    <3> QED
      BY <1>17, <2>4, <3>1, <3>3
  <2> QED
    BY <1>20, <2>1, <2>2, <2>3, <2>4 DEF Checked
<1>25. Place(fs)
  <2> SUFFICES ASSUME NEW k \in 1..Len(fs)
               PROVE  /\ Len(fs[k].scope) = k - 1 /\ fs[k].scope \in Visited
                      /\ \A m \in fs[k].left : /\ Append(fs[k].scope, m) \in Universe
                                               /\ Present(tree, Append(fs[k].scope, m))
    BY DEF Place
  <2>1. CASE k \in 1..N
    <3>1. fs[k].scope = frames[k].scope /\ fs[k].left \subseteq frames[k].left
      BY <1>14, <1>15, <2>1
    <3> QED
      BY <1>2, <1>10, <2>1, <3>1 DEF PlaceInv, Place
  <2>2. CASE E /\ k = N + 1
    <3>1. fs[k].scope = c /\ fs[k].left = {}
      BY <1>9, <1>15, <2>2
    <3>2. c \in Visited
      BY <1>6, <1>13, <2>2, ListingFacts
    <3> QED
      BY <1>4, <1>10, <2>2, <3>1, <3>2
  <2> QED
    BY <1>16, <2>1, <2>2
<1>26. Collected(scoped, fs, N)
  <2>1. \A k \in 1..N : fs[k].scope = frames[k].scope /\ fs[k].checkpoint = frames[k].checkpoint
    BY <1>14, <1>15
  <2>2. Len(fs) = N + 1 => fs[N + 1].checkpoint = Len(scoped)
    BY <1>9, <1>15
  <2>3. Len(scoped) \in Nat
    BY DEF Inv, ShapeInv
  <2> QED
    BY <1>10, <1>15, <1>20, <2>1, <2>2, <2>3, CollectedCall
<1>27. N = IF pc' = "enter" THEN Len(fs) - 1 ELSE Len(fs)
  <2>1. CASE E
    <3>1. pc' = "enter" /\ Len(fs) = N + 1
      BY <1>13, <1>15, <2>1
    <3> QED
      BY <3>1
  <2>2. CASE ~E
    <3>1. pc' # "enter" /\ Len(fs) = N
      BY <1>13, <1>15, <2>2
    <3> QED
      BY <3>1
  <2> QED
    BY <1>13, <2>1, <2>2
<1>28. PlaceInv'
  BY <1>11, <1>12, <1>25, CarryPlace
<1>29. CoverInv'
  BY <1>11, <1>12, <1>13, <1>22, <1>23, CarryCover
<1>30. CheckedInv'
  BY <1>11, <1>12, <1>13, <1>20, <1>24, CarryChecked
<1>31. RulesInv'
  <2>1. scoped' = scoped /\ UNCHANGED <<tree, exclusions>>
    BY <1>11
  <2> QED
    BY <1>12, <1>26, <1>27, <2>1, CarryRules
<1>32. PassedInv' /\ CauseInv'
  BY <1>11 DEF PassedInv, CauseInv
<1>33. EndInv'
  <2>1. \A i \in 1..Len(sent) : sent[i].kind # "End"
    BY <1>1 DEF WalkInv, EndInv
  <2>2. r.kind # "End"
    BY <1>6, <1>7 DEF Kinds
  <2>3. \A i \in 1..Len(sent') : i \in 1..Len(sent) \/ i = Len(sent) + 1
    BY <1>21
  <2>4. \A i \in 1..Len(sent') : sent'[i].kind # "End"
    BY <1>21, <2>1, <2>2, <2>3
  <2> QED
    BY <1>11, <2>4 DEF EndInv
<1>34. SentRecords' \subseteq Listing
  <2>1. r \in Listing
    BY <1>6, <1>7, ListingFacts
  <2> QED
    BY <1>21, <2>1 DEF WalkInv, SentInv
<1> QED
  BY <1>11, <1>19, <1>28, <1>29, <1>30, <1>31, <1>32, <1>33, <1>34, Closing DEF WalkInv

-----------------------------------------------------------------------------
\* Nothing is sent before the scan starts.
LEMMA WalkInit == Init => WalkInv
<1> SUFFICES ASSUME Init PROVE WalkInv
  OBVIOUS
<1>1. Len(sent) = 0 /\ Len(frames) = 0 /\ pc = "start"
  BY DEF Init
<1>2. SentRecords = {}
  BY <1>1 DEF SentRecords
<1>3. ~Running
  BY <1>1 DEF Running
<1>4. InputInv
  BY DEF Init, InputInv
<1>5. PlaceInv /\ PassedInv /\ RulesInv /\ CoverInv /\ CheckedInv /\ CauseInv
  BY <1>1, <1>3 DEF PlaceInv, Place, PassedInv, RulesInv, CoverInv, CheckedInv, CauseInv
<1>6. SentInv /\ EndInv
  BY <1>1, <1>2 DEF SentInv, EndInv
<1> QED
  BY <1>4, <1>5, <1>6 DEF WalkInv

\* Every step keeps the inductive invariant.
LEMMA WalkStep == Inv /\ WalkInv /\ [Next]_vars => WalkInv'
<1> SUFFICES ASSUME Inv, WalkInv, [Next]_vars PROVE WalkInv'
  OBVIOUS
<1>0. Inv'
  BY InvStep
<1>1. CASE Start
  <2>1. CASE exclusions.valid
    BY <1>0, <1>1, <2>1, StartWalk
  <2>2. CASE ~exclusions.valid
    <3>1. /\ UNCHANGED <<tree, exclusions, frames, scoped, sent>> /\ pc' = "error" /\ pc # "ok"
          /\ Unscannable
      BY <1>1, <2>2 DEF Start, Fail, input, channel, Unscannable
    <3> QED
      BY <1>0, <3>1, FailWalk
  <2> QED
    BY <2>1, <2>2
<1>2. CASE EnterDirectory
  <2>1. CASE pc' # "error"
    BY <1>0, <1>2, <2>1, EnterWalk
  <2>2. CASE pc' = "error"
    <3>1. /\ UNCHANGED <<tree, exclusions, frames, scoped, sent>> /\ pc = "enter"
          /\ HasIgnoreFile(Top.scope) /\ ~RulesAt(Top.scope).valid
      BY <1>2, <2>2 DEF EnterDirectory, Fail, input, channel
    <3>2. Top.scope \in Visited
      <4>1. Len(frames) \in Nat \ {0}
        BY <3>1 DEF Inv, ShapeInv
      <4> QED
        BY <4>1 DEF WalkInv, PlaceInv, Place, Top
    <3>3. Unscannable
      BY <3>1, <3>2 DEF Unscannable
    <3> QED
      BY <1>0, <2>2, <3>1, <3>3, FailWalk
  <2> QED
    BY <2>1, <2>2
<1>3. CASE LeaveDirectory
  BY <1>0, <1>3, LeaveWalk
<1>4. ASSUME NEW n \in DOMAIN NameBytes, ConsiderEntry(n) PROVE WalkInv'
  BY <1>0, <1>4, ConsiderWalk
<1>5. ASSUME NEW n \in DOMAIN NameBytes, EmitRecord(n) PROVE WalkInv'
  BY <1>0, <1>5, EmitWalk
<1>6. CASE EmitEnd
  BY <1>0, <1>6, EndWalk
<1>7. CASE EmitFails
  <2>1. /\ UNCHANGED <<tree, exclusions, frames, scoped, sent>> /\ pc' = "error" /\ pc # "ok"
        /\ ~open'
    BY <1>7 DEF EmitFails, Fail, input, channel
  <2> QED
    BY <1>0, <2>1, FailWalk
<1>8. CASE FileSystemFails
  <2>1. /\ UNCHANGED <<tree, exclusions, frames, scoped, sent>> /\ pc' = "error" /\ pc # "ok"
        /\ faulted'
    BY <1>8 DEF FileSystemFails, input, channel
  <2> QED
    BY <1>0, <2>1, FailWalk
<1>9. CASE ReportError
  BY <1>0, <1>9, ReportWalk
<1>10. CASE Receive \/ HangUp
  <2>1. UNCHANGED <<tree, exclusions, frames, scoped, sent, faulted, pc>> /\ (open' => open)
    BY <1>10 DEF Receive, HangUp, input
  <2> QED
    BY <1>0, <2>1, ReaderWalk
<1>11. CASE UNCHANGED vars
  <2>1. UNCHANGED <<tree, exclusions, frames, scoped, sent, faulted, pc>> /\ (open' => open)
    BY <1>11 DEF vars, input, channel
  <2> QED
    BY <1>0, <2>1, ReaderWalk
<1> QED
  BY <1>1, <1>2, <1>3, <1>4, <1>5, <1>6, <1>7, <1>8, <1>9, <1>10, <1>11 DEF Next, Worker

\* Once a scan has succeeded nothing is ahead of it.
LEMMA NothingAhead ==
    ASSUME WalkInv, pc = "ok"
    PROVE  \A p : ~Ahead(frames, FALSE, p)
<1>1. Len(frames) = 0
  BY DEF WalkInv, EndInv
<1> QED
  BY <1>1 DEF Ahead

\* What a scan has sent is, at every moment, the beginning of the listing that
\* the ignore files of the tree and the exclusions imply, whatever the tree and
\* the rules are and wherever the scan is cut off; success means all of it
\* (scan.rs:36, "Success emits End; errors never emit End").
THEOREM ScanBeginsListing == Spec => []BeginsListing
<1>1. Inv /\ WalkInv => BeginsListing
  <2> SUFFICES ASSUME Inv, WalkInv PROVE BeginsListing
    OBVIOUS
  <2>1. pc = "ok" <=> \E i \in 1..Len(sent) : sent[i].kind = "End"
    <3>1. Len(sent) \in Nat /\ (sent # << >> => Len(sent) \in 1..Len(sent)) /\ End.kind = "End"
      BY DEF Inv, ShapeInv, End, NoRecord
    <3> QED
      BY <3>1 DEF WalkInv, EndInv
  <2>2. ASSUME pc = "ok" PROVE SentRecords = Listing
    <3>1. Running /\ (pc = "enter") = FALSE
      BY <2>2 DEF Running
    <3>2. Covered(frames, FALSE, SentRecords)
      BY <3>1 DEF WalkInv, CoverInv
    <3>3. ASSUME NEW r \in Listing PROVE r \in SentRecords
      <4>1. PICK p : ListedPath(p) /\ r = RecordAt(tree, p)
        BY ListingFacts
      <4> QED
        BY <2>2, <3>2, <4>1, NothingAhead DEF Covered, ListedPath
    <3> QED
      BY <3>3 DEF WalkInv, SentInv
  <2> QED
    BY <2>1, <2>2 DEF BeginsListing, WalkInv, SentInv, EndInv
<1> QED
  BY InvInit, InvStep, WalkInit, WalkStep, <1>1, PTL DEF Spec

\* The reference in terms of the answers at each depth: the deepest rules that
\* have an opinion decide.
LEMMA DeepestDecides ==
    ASSUME NEW p \in Seq(Nat), Len(p) > 0, NEW isDir
    PROVE  LeftOut(p, isDir) <=>
               \E s \in 0..Len(p) :
                   /\ Says(s, AskedAt(s, p), p, isDir) = "Ignore"
                   /\ \A t \in (s + 1)..Len(p) : Says(t, AskedAt(t, p), p, isDir) = "None"
<1>0. PICK N \in Nat : N = Len(p) /\ N > 0
  OBVIOUS
<1>1. PICK D : D = Deciding(p, isDir)
  OBVIOUS
<1>2. D \subseteq (0..N) \X (0..N)
  BY <1>0, <1>1 DEF Deciding
<1>3. \A c \in D : c[1] \in 0..N /\ c[2] \in 0..N
  BY <1>2
<1>4. ASSUME NEW s \in 0..N
      PROVE  /\ Says(s, AskedAt(s, p), p, isDir) = "None" <=> SilentAt(s, p, isDir)
             /\ Says(s, AskedAt(s, p), p, isDir) = "Ignore" <=> IgnoredAt(s, p, isDir)
  <2>1. CASE HasMatcher(s, p)
    <3>1. PICK v : v = Verdict(Matcher(s, p), AskedAt(s, p), isDir)
      OBVIOUS
    <3>2. Says(s, AskedAt(s, p), p, isDir) = v
      BY <2>1, <3>1 DEF Says
    <3>3. (v = "None" <=> SilentAt(s, p, isDir)) /\ (v = "Ignore" <=> IgnoredAt(s, p, isDir))
      BY <1>0, <2>1, <3>1, VerdictAt
    <3> QED
      BY <3>2, <3>3
  <2>2. CASE ~HasMatcher(s, p)
    <3>1. Says(s, AskedAt(s, p), p, isDir) = "None"
      BY <2>2 DEF Says
    <3>2. \A e \in D : e[1] # s
      BY <1>1, <2>2 DEF Deciding
    <3> QED
      BY <1>1, <3>1, <3>2 DEF SilentAt, IgnoredAt
  <2> QED
    BY <2>1, <2>2
<1>5. ASSUME LeftOut(p, isDir)
      PROVE  \E s \in 0..N : IgnoredAt(s, p, isDir) /\ \A t \in (s + 1)..N : SilentAt(t, p, isDir)
  <2>1. PICK c \in D : /\ \A e \in D : e[1] < c[1] \/ (e[1] = c[1] /\ e[2] <= c[2])
                       /\ Ignoring(c, p, isDir)
    BY <1>1, <1>5 DEF LeftOut
  <2>2. IgnoredAt(c[1], p, isDir)
    <3>1. \A e \in D : e[1] = c[1] => e[2] <= c[2]
      BY <1>3, <2>1
    <3> QED
      BY <1>1, <2>1, <3>1 DEF IgnoredAt
  <2>3. PICK s \in 0..N : s = c[1]
    BY <1>3
  <2>4. ASSUME NEW t \in (s + 1)..N, NEW e \in D PROVE e[1] # t
    <3>1. PICK x \in 0..N : x = e[1]
      BY <1>3
    <3>2. x < s \/ x = s
      BY <2>1, <2>3, <3>1
    <3>3. x # t
      BY <3>2
    <3> QED
      BY <3>1, <3>3
  <2> QED
    BY <1>1, <2>2, <2>3, <2>4 DEF SilentAt
<1>6. ASSUME NEW s \in 0..N, IgnoredAt(s, p, isDir), \A t \in (s + 1)..N : SilentAt(t, p, isDir)
      PROVE  LeftOut(p, isDir)
  <2>1. PICK c \in D : /\ c[1] = s /\ Ignoring(c, p, isDir)
                       /\ \A e \in D : e[1] = s => e[2] <= c[2]
    BY <1>1, <1>6 DEF IgnoredAt
  <2>2. ASSUME NEW e \in D PROVE e[1] < c[1] \/ (e[1] = c[1] /\ e[2] <= c[2])
    <3>1. e[1] \notin (s + 1)..N
      BY <1>1, <1>6 DEF SilentAt
    <3>2. PICK x \in 0..N : x = e[1]
      BY <1>3
    <3>3. x < s \/ x = s
      BY <3>1, <3>2
    <3> QED
      BY <2>1, <3>2, <3>3
  <2> QED
    BY <1>1, <2>1, <2>2 DEF LeftOut
<1>7. \A s \in 0..N : \A t \in (s + 1)..N : t \in 0..N
  OBVIOUS
<1> QED
  BY <1>0, <1>4, <1>5, <1>6, <1>7

\* Where the second stripping of a scope changes no answer, a scan that succeeds
\* has sent what is managed if each ignore file applies from its directory on,
\* for every tree and all rules (tests/filesystem_ignore.rs:75).
THEOREM FilesApply == Spec => []AppliesFromItsDirectory
<1>1. InputInv /\ BeginsListing => AppliesFromItsDirectory
  <2> SUFFICES ASSUME tree \in Trees, ~Misled PROVE
        Listing = Scan(tree, {r \in Universe \X BOOLEAN : LeftOutByFiles(r[1], r[2])})
    BY DEF AppliesFromItsDirectory, BeginsListing, InputInv
  <2> DEFINE B == {r \in Universe \X BOOLEAN : LeftOutByFiles(r[1], r[2])}
  <2>1. ASSUME NEW q \in Universe, Present(tree, q), NEW isDir, isDir = (tree[q].kind = "dir")
        PROVE  LeftOut(q, isDir) <=> LeftOutByFiles(q, isDir)
    <3>1. q \in Seq(Nat) /\ Len(q) > 0
      BY UniverseAssumption DEF RelativePath
    <3>2. \A s \in 0..Len(q) :
              Says(s, AskedAt(s, q), q, isDir) = Says(s, From(s, q), q, isDir)
      BY <2>1 DEF Misled
    <3>3. \A s \in 0..Len(q) : \A t \in (s + 1)..Len(q) : t \in 0..Len(q)
      BY <3>1
    <3> QED
      BY <3>1, <3>2, <3>3, DeepestDecides DEF LeftOutByFiles
  <2>2. ASSUME NEW q \in Universe, Present(tree, q)
        PROVE  Managed(tree, q, Rules) <=> Managed(tree, q, B)
    <3>1. PICK isDir \in BOOLEAN : isDir = (tree[q].kind = "dir")
      OBVIOUS
    <3>2. <<q, isDir>> \in Rules <=> LeftOut(q, isDir)
      BY DEF Rules
    <3>3. <<q, isDir>> \in B <=> LeftOutByFiles(q, isDir)
      OBVIOUS
    <3> QED
      BY <2>1, <2>2, <3>1, <3>2, <3>3 DEF Managed
  <2> HIDE DEF B
  <2>3. ASSUME NEW p \in Universe PROVE Listed(tree, p, Rules) <=> Listed(tree, p, B)
    <3>1. ASSUME Present(tree, p), NEW q \in Ancestors(p) \cup {p}
          PROVE  q \in Universe /\ Present(tree, q)
      <4>1. CASE q \in Ancestors(p)
        <5>1. q \in Universe
          BY <4>1, UniverseAssumption
        <5>2. tree[q].kind = "dir"
          BY <3>1, <4>1, ScannerAssumption DEF IsTree
        <5> QED
          BY <5>1, <5>2 DEF Present
      <4> QED
        BY <3>1, <4>1
    <3> QED
      BY <2>2, <3>1 DEF Listed
  <2>4. Scan(tree, Rules) = Scan(tree, B)
    BY <2>3 DEF Scan
  <2> QED
    BY <2>4 DEF Listing, B
<1>2. Spec => []InputInv
  BY InvInit, InvStep, WalkInit, WalkStep, PTL DEF Spec, WalkInv
<1> QED
  BY <1>1, <1>2, ScanBeginsListing, PTL

\* A scan fails only because its reader is gone, a call failed, or the tree
\* cannot be indexed, and a tree that cannot is never reported as complete:
\* every directory on the way was read and every entry in it tested.
THEOREM ScanFailsForCause == Spec => []FailsForCause
<1>1. Inv /\ WalkInv => FailsForCause
  <2> SUFFICES ASSUME Inv, WalkInv PROVE FailsForCause
    OBVIOUS
  <2>1. ASSUME pc = "ok" PROVE ~Unscannable
    <3>1. Running /\ (pc = "enter") = FALSE
      BY <2>1 DEF Running
    <3>2. Checked(frames, FALSE) /\ exclusions.valid
      BY <3>1 DEF WalkInv, CheckedInv
    <3>3. \A d \in Visited : /\ HasIgnoreFile(d) => RulesAt(d).valid
                             /\ \A c \in Children(tree, d) : Acceptable(c)
      BY <2>1, <3>2, NothingAhead DEF Checked, Clean
    <3> QED
      BY <3>2, <3>3 DEF Unscannable, Acceptable
  <2> QED
    BY <2>1 DEF FailsForCause, WalkInv, CauseInv
<1> QED
  BY InvInit, InvStep, WalkInit, WalkStep, <1>1, PTL DEF Spec

=============================================================================
