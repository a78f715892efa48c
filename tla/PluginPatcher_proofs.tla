------------------------ MODULE PluginPatcher_proofs ------------------------
(***************************************************************************)
(* What PluginPatcher writes, proved for every parsed plugin and every     *)
(* sequence of calls.                                                      *)
(***************************************************************************)
EXTENDS PluginPatcher, SequenceFacts, FiniteSetTheorems

(***************************************************************************)
(* Lengths of streams.                                                     *)
(***************************************************************************)

LengthStep(s, f, i) == IF i = 0 THEN 0 ELSE f[i - 1] + PieceLen(s[i])

\* The recursion of LengthUpTo has a solution.
LEMMA LengthRecursion ==
    ASSUME NEW s, Len(s) \in Nat
    PROVE  /\ LengthUpTo(s)[0] = 0
           /\ \A i \in 1..Len(s) : LengthUpTo(s)[i] = LengthUpTo(s)[i - 1] + PieceLen(s[i])
<1>. DEFINE Good(f, m) == f = [i \in 0..m |-> LengthStep(s, f, i)]
            T == {m \in Nat : \E f : Good(f, m)}
<1>1. 0 \in T
  <2>1. Good([i \in 0..0 |-> 0], 0)
    BY DEF LengthStep
  <2>. QED
    BY <2>1
<1>2. ASSUME NEW m \in Nat, m \in T PROVE m + 1 \in T
  <2>1. PICK f : Good(f, m)
    BY <1>2
  <2>. DEFINE h == [i \in 0..(m + 1) |-> IF i = m + 1 THEN LengthStep(s, f, i) ELSE f[i]]
  <2>2. \A i \in 0..(m + 1) : h[i] = LengthStep(s, h, i)
    <3>1. \A i \in 0..m : f[i] = LengthStep(s, f, i)
      BY <2>1
    <3>2. \A i \in 0..(m + 1) : i # 0 => i - 1 \in 0..m /\ h[i - 1] = f[i - 1]
      OBVIOUS
    <3>3. \A i \in 0..(m + 1) : LengthStep(s, h, i) = LengthStep(s, f, i)
      <4>. HIDE DEF h
      <4>. QED
        BY <3>2 DEF LengthStep
    <3>. QED
      BY <3>1, <3>3
  <2>3. h = [i \in 0..(m + 1) |-> LengthStep(s, h, i)]
    BY <2>2
  <2>4. \E ff : Good(ff, m + 1)
    <3>. HIDE DEF h
    <3>. QED
      BY <2>3, Zenon
  <2>. QED
    BY <2>4
<1>3. Len(s) \in T
  <2>1. \A m \in 0..(Len(s) - 1) : m \in T => m + 1 \in T
    BY <1>2
  <2>2. Len(s) \in 0..Len(s)
    OBVIOUS
  <2>. HIDE DEF T
  <2>3. \A m \in 0..Len(s) : m \in T
    BY <1>1, <2>1, UpToInduction
  <2>. QED
    BY <2>2, <2>3
<1>4. PICK f : Good(f, Len(s))
  BY <1>3
<1>. DEFINE up == CHOOSE ff : ff = [i \in 0..Len(s) |->
                                      IF i = 0 THEN 0 ELSE ff[i - 1] + PieceLen(s[i])]
<1>5. up = [i \in 0..Len(s) |-> IF i = 0 THEN 0 ELSE up[i - 1] + PieceLen(s[i])]
  BY <1>4, Zenon DEF LengthStep
<1>6. LengthUpTo(s) = up
  BY DEF LengthUpTo
<1>. HIDE DEF up
<1>7. \A i \in 0..Len(s) : up[i] = IF i = 0 THEN 0 ELSE up[i - 1] + PieceLen(s[i])
  BY <1>5
<1>. QED
  BY <1>6, <1>7

\* Every piece has a length, and a group a size.
Weighted(P) == \A x \in P : PieceLen(x) \in Nat \ {0} /\ x.size \in Nat

\* The length grows with every piece.
LEMMA LengthsGrow ==
    ASSUME NEW P, Weighted(P), NEW s \in Seq(P)
    PROVE  /\ \A i \in 0..Len(s) : LengthUpTo(s)[i] \in Nat
           /\ \A i, j \in 0..Len(s) : i < j => LengthUpTo(s)[i] < LengthUpTo(s)[j]
<1>1. Len(s) \in Nat /\ \A i \in 1..Len(s) : PieceLen(s[i]) \in Nat \ {0}
  BY DEF Weighted
<1>. DEFINE u == LengthUpTo(s)
<1>2. u[0] = 0 /\ \A i \in 1..Len(s) : u[i] = u[i - 1] + PieceLen(s[i])
  BY <1>1, LengthRecursion
<1>. HIDE DEF u
<1>. DEFINE T == {n \in 0..Len(s) : /\ u[n] \in Nat
                                    /\ \A i \in 0..(n - 1) : u[i] \in Nat /\ u[i] < u[n]}
<1>3. 0 \in T
  BY <1>1, <1>2
<1>4. ASSUME NEW n \in 0..(Len(s) - 1), n \in T PROVE n + 1 \in T
  <2>1. n + 1 \in 1..Len(s) /\ (n + 1) - 1 = n /\ n + 1 \in 0..Len(s)
    BY <1>1
  <2>2. u[n + 1] = u[n] + PieceLen(s[n + 1]) /\ PieceLen(s[n + 1]) \in Nat \ {0}
    BY <1>1, <1>2, <2>1
  <2>3. u[n] \in Nat /\ \A i \in 0..(n - 1) : u[i] \in Nat /\ u[i] < u[n]
    BY <1>4
  <2>4. \A i \in 0..n : i \in 0..(n - 1) \/ i = n
    OBVIOUS
  <2>5. \A i \in 0..n : u[i] \in Nat /\ u[i] < u[n + 1]
    BY <2>2, <2>3, <2>4
  <2>. QED
    BY <2>1, <2>2, <2>3, <2>5
<1>5. \A n \in 0..Len(s) : n \in T
  <2>. HIDE DEF T
  <2>. QED
    BY <1>1, <1>3, <1>4, UpToInduction
<1>6. \A i, j \in 0..Len(s) : i < j => i \in 0..(j - 1)
  OBVIOUS
<1>. QED
  BY <1>5, <1>6 DEF u

\* The lengths of a concatenation.
LEMMA LengthsConcat ==
    ASSUME NEW P, Weighted(P), NEW a \in Seq(P), NEW b \in Seq(P)
    PROVE  /\ \A i \in 0..Len(a) : LengthUpTo(a \o b)[i] = LengthUpTo(a)[i]
           /\ \A i \in 0..Len(b) :
                 LengthUpTo(a \o b)[Len(a) + i] = LengthUpTo(a)[Len(a)] + LengthUpTo(b)[i]
<1>. DEFINE c == a \o b
<1>1. /\ c \in Seq(P) /\ Len(c) = Len(a) + Len(b)
      /\ \A i \in 1..Len(a) : c[i] = a[i]
      /\ \A i \in 1..Len(b) : c[Len(a) + i] = b[i]
      /\ Len(a) \in Nat /\ Len(b) \in Nat /\ Len(c) \in Nat
  BY ConcatAt
<1>. HIDE DEF c
<1>. DEFINE ua == LengthUpTo(a)
            ub == LengthUpTo(b)
            uc == LengthUpTo(c)
<1>2. /\ ua[0] = 0 /\ \A i \in 1..Len(a) : ua[i] = ua[i - 1] + PieceLen(a[i])
      /\ ub[0] = 0 /\ \A i \in 1..Len(b) : ub[i] = ub[i - 1] + PieceLen(b[i])
      /\ uc[0] = 0 /\ \A i \in 1..Len(c) : uc[i] = uc[i - 1] + PieceLen(c[i])
  BY <1>1, LengthRecursion
<1>3. /\ \A i \in 0..Len(a) : ua[i] \in Nat
      /\ \A i \in 0..Len(b) : ub[i] \in Nat
  BY <1>1, LengthsGrow
<1>4. \A i \in 1..Len(b) : PieceLen(b[i]) \in Nat
  BY DEF Weighted
<1>. HIDE DEF ua, ub, uc
<1>5. \A i \in 0..Len(a) : uc[i] = ua[i]
  <2>. DEFINE T == {i \in 0..Len(a) : uc[i] = ua[i]}
  <2>1. 0 \in T
    BY <1>1, <1>2
  <2>2. ASSUME NEW n \in 0..(Len(a) - 1), n \in T PROVE n + 1 \in T
    <3>1. /\ n + 1 \in 1..Len(a) /\ (n + 1) - 1 = n /\ n + 1 \in 1..Len(c)
          /\ n + 1 \in 0..Len(a)
      BY <1>1
    <3>2. uc[n + 1] = uc[n] + PieceLen(c[n + 1]) /\ ua[n + 1] = ua[n] + PieceLen(a[n + 1])
      BY <1>2, <3>1
    <3>3. c[n + 1] = a[n + 1] /\ uc[n] = ua[n]
      BY <1>1, <2>2, <3>1
    <3>. QED
      BY <3>1, <3>2, <3>3
  <2>3. \A n \in 0..Len(a) : n \in T
    <3>. HIDE DEF T
    <3>. QED
      BY <1>1, <2>1, <2>2, UpToInduction
  <2>. QED
    BY <2>3
<1>6. \A i \in 0..Len(b) : uc[Len(a) + i] = ua[Len(a)] + ub[i]
  <2>. DEFINE T == {i \in 0..Len(b) : uc[Len(a) + i] = ua[Len(a)] + ub[i]}
  <2>0. Len(a) \in 0..Len(a) /\ ua[Len(a)] \in Nat
    BY <1>1, <1>3
  <2>1. 0 \in T
    <3>1. Len(a) + 0 = Len(a) /\ 0 \in 0..Len(b)
      BY <1>1
    <3>. QED
      BY <1>2, <1>5, <2>0, <3>1
  <2>2. ASSUME NEW n \in 0..(Len(b) - 1), n \in T PROVE n + 1 \in T
    <3>1. /\ n + 1 \in 1..Len(b) /\ (n + 1) - 1 = n /\ n + 1 \in 0..Len(b) /\ n \in 0..Len(b)
          /\ Len(a) + (n + 1) \in 1..Len(c) /\ (Len(a) + (n + 1)) - 1 = Len(a) + n
      BY <1>1
    <3>2. uc[Len(a) + (n + 1)] = uc[Len(a) + n] + PieceLen(c[Len(a) + (n + 1)])
      BY <1>2, <3>1
    <3>3. c[Len(a) + (n + 1)] = b[n + 1]
      BY <1>1, <3>1
    <3>4. ub[n + 1] = ub[n] + PieceLen(b[n + 1])
      BY <1>2, <3>1
    <3>5. uc[Len(a) + n] = ua[Len(a)] + ub[n]
      BY <2>2
    <3>6. ub[n] \in Nat /\ PieceLen(b[n + 1]) \in Nat
      BY <1>3, <1>4, <3>1
    <3>7. uc[Len(a) + (n + 1)] = ua[Len(a)] + ub[n + 1]
      BY <2>0, <3>2, <3>3, <3>4, <3>5, <3>6
    <3>. QED
      BY <3>1, <3>7
  <2>3. \A n \in 0..Len(b) : n \in T
    <3>. HIDE DEF T
    <3>. QED
      BY <1>1, <2>1, <2>2, UpToInduction
  <2>. QED
    BY <2>3
<1>. QED
  BY <1>5, <1>6 DEF c, ua, ub, uc

(***************************************************************************)
(* What the sizes of the groups in a stream cover.                         *)
(***************************************************************************)

\* No piece claims more than there is.
Closed(s) == \A i \in 1..Len(s) : Offset(s, i) + s[i].size <= StreamLen(s)

\* Offsets in a concatenation.
LEMMA OffsetsConcat ==
    ASSUME NEW P, Weighted(P), NEW a \in Seq(P), NEW b \in Seq(P)
    PROVE  /\ \A i \in 1..Len(a) : Offset(a \o b, i) = Offset(a, i)
           /\ \A i \in 1..Len(b) : Offset(a \o b, Len(a) + i) = StreamLen(a) + Offset(b, i)
           /\ StreamLen(a \o b) = StreamLen(a) + StreamLen(b)
           /\ StreamLen(a) \in Nat /\ StreamLen(b) \in Nat
           /\ \A i \in 1..Len(a) : Offset(a, i) \in Nat /\ Offset(a, i) < StreamLen(a)
           /\ \A i \in 1..Len(b) : Offset(b, i) \in Nat /\ Offset(b, i) < StreamLen(b)
<1>1. Len(a) \in Nat /\ Len(b) \in Nat /\ Len(a \o b) = Len(a) + Len(b)
  BY ConcatAt
<1>2. /\ \A i \in 0..Len(a) : LengthUpTo(a \o b)[i] = LengthUpTo(a)[i]
      /\ \A i \in 0..Len(b) :
            LengthUpTo(a \o b)[Len(a) + i] = LengthUpTo(a)[Len(a)] + LengthUpTo(b)[i]
  BY LengthsConcat
<1>3. /\ \A i \in 0..Len(a) : LengthUpTo(a)[i] \in Nat
      /\ \A i, j \in 0..Len(a) : i < j => LengthUpTo(a)[i] < LengthUpTo(a)[j]
  BY LengthsGrow
<1>4. /\ \A i \in 0..Len(b) : LengthUpTo(b)[i] \in Nat
      /\ \A i, j \in 0..Len(b) : i < j => LengthUpTo(b)[i] < LengthUpTo(b)[j]
  BY LengthsGrow
<1>5. /\ \A i \in 1..Len(a) : i - 1 \in 0..Len(a) /\ i - 1 < Len(a)
      /\ \A i \in 1..Len(b) : /\ i - 1 \in 0..Len(b) /\ i - 1 < Len(b)
                              /\ (Len(a) + i) - 1 = Len(a) + (i - 1)
      /\ Len(a) \in 0..Len(a) /\ Len(b) \in 0..Len(b)
  BY <1>1
<1>6. \A i \in 1..Len(a) : Offset(a \o b, i) = Offset(a, i)
  BY <1>2, <1>5 DEF Offset
<1>7. \A i \in 1..Len(b) : Offset(a \o b, Len(a) + i) = StreamLen(a) + Offset(b, i)
  BY <1>2, <1>5 DEF Offset, StreamLen
<1>8. StreamLen(a \o b) = StreamLen(a) + StreamLen(b)
  BY <1>1, <1>2, <1>5 DEF StreamLen
<1>9. /\ StreamLen(a) \in Nat
      /\ \A i \in 1..Len(a) : Offset(a, i) \in Nat /\ Offset(a, i) < StreamLen(a)
  BY <1>3, <1>5 DEF Offset, StreamLen
<1>10. /\ StreamLen(b) \in Nat
       /\ \A i \in 1..Len(b) : Offset(b, i) \in Nat /\ Offset(b, i) < StreamLen(b)
  BY <1>4, <1>5 DEF Offset, StreamLen
<1>. QED
  BY <1>6, <1>7, <1>8, <1>9, <1>10

\* Within each half of a concatenation the same groups enclose the same
\* pieces; a closed first half encloses nothing of the second.
LEMMA EnclosesConcat ==
    ASSUME NEW P, Weighted(P), NEW a \in Seq(P), NEW b \in Seq(P)
    PROVE  /\ \A i, j \in 1..Len(a) : Encloses(a \o b, i, j) <=> Encloses(a, i, j)
           /\ \A i, j \in 1..Len(b) :
                 Encloses(a \o b, Len(a) + i, Len(a) + j) <=> Encloses(b, i, j)
           /\ Closed(a) => \A i \in 1..Len(a), j \in 1..Len(b) :
                              ~Encloses(a \o b, i, Len(a) + j)
           /\ Closed(a) /\ Closed(b) => Closed(a \o b)
<1>. DEFINE c == a \o b
<1>1. /\ Len(c) = Len(a) + Len(b)
      /\ \A i \in 1..Len(a) : c[i] = a[i]
      /\ \A i \in 1..Len(b) : c[Len(a) + i] = b[i]
      /\ Len(a) \in Nat /\ Len(b) \in Nat
  BY ConcatAt
<1>2. /\ \A i \in 1..Len(a) : Offset(c, i) = Offset(a, i)
      /\ \A i \in 1..Len(b) : Offset(c, Len(a) + i) = StreamLen(a) + Offset(b, i)
      /\ StreamLen(c) = StreamLen(a) + StreamLen(b)
      /\ StreamLen(a) \in Nat /\ StreamLen(b) \in Nat
      /\ \A i \in 1..Len(a) : Offset(a, i) \in Nat /\ Offset(a, i) < StreamLen(a)
      /\ \A i \in 1..Len(b) : Offset(b, i) \in Nat /\ Offset(b, i) < StreamLen(b)
  BY OffsetsConcat
<1>. HIDE DEF c
<1>3. /\ \A i \in 1..Len(a) : a[i].size \in Nat
      /\ \A i \in 1..Len(b) : b[i].size \in Nat
  BY DEF Weighted
<1>4. \A i, j \in 1..Len(a) : Encloses(c, i, j) <=> Encloses(a, i, j)
  BY <1>1, <1>2 DEF Encloses
<1>5. ASSUME NEW i \in 1..Len(b), NEW j \in 1..Len(b)
      PROVE  Encloses(c, Len(a) + i, Len(a) + j) <=> Encloses(b, i, j)
  <2>1. c[Len(a) + i] = b[i] /\ (Len(a) + i < Len(a) + j <=> i < j)
    BY <1>1
  <2>2. /\ Offset(c, Len(a) + i) = StreamLen(a) + Offset(b, i)
        /\ Offset(c, Len(a) + j) = StreamLen(a) + Offset(b, j)
        /\ Offset(b, i) \in Nat /\ Offset(b, j) \in Nat /\ b[i].size \in Nat
    BY <1>2, <1>3
  <2>3. Offset(c, Len(a) + j) < Offset(c, Len(a) + i) + b[i].size
          <=> Offset(b, j) < Offset(b, i) + b[i].size
    <3>1. \A x, y, z, w \in Nat : x + y < (x + z) + w <=> y < z + w
      OBVIOUS
    <3>2. StreamLen(a) \in Nat
      BY <1>2
    <3>. QED
      BY <2>2, <3>1, <3>2
  <2>. QED
    BY <2>1, <2>3 DEF Encloses
<1>6. ASSUME Closed(a), NEW i \in 1..Len(a), NEW j \in 1..Len(b)
      PROVE  ~Encloses(c, i, Len(a) + j)
  <2>1. c[i] = a[i] /\ Offset(c, i) = Offset(a, i)
    BY <1>1, <1>2
  <2>2. Offset(c, Len(a) + j) = StreamLen(a) + Offset(b, j)
    BY <1>2
  <2>3. Offset(a, i) + a[i].size <= StreamLen(a)
    BY <1>6 DEF Closed
  <2>4. /\ StreamLen(a) \in Nat /\ Offset(b, j) \in Nat
        /\ Offset(a, i) \in Nat /\ a[i].size \in Nat
    BY <1>2, <1>3
  <2>. QED
    BY <2>1, <2>2, <2>3, <2>4 DEF Encloses
<1>7. ASSUME Closed(a), Closed(b) PROVE Closed(c)
  <2>1. SUFFICES ASSUME NEW k \in 1..Len(c)
                 PROVE  Offset(c, k) + c[k].size <= StreamLen(c)
    BY DEF Closed
  <2>2. CASE k \in 1..Len(a)
    <3>1. c[k] = a[k] /\ Offset(c, k) = Offset(a, k) /\ Offset(a, k) \in Nat /\ a[k].size \in Nat
      BY <1>1, <1>2, <1>3, <2>2
    <3>2. Offset(a, k) + a[k].size <= StreamLen(a)
      BY <1>7, <2>1, <2>2, <3>1 DEF Closed
    <3>. QED
      BY <1>2, <3>1, <3>2
  <2>3. CASE k \notin 1..Len(a)
    <3>. DEFINE i == k - Len(a)
    <3>1. i \in 1..Len(b) /\ k = Len(a) + i
      BY <1>1, <2>3
    <3>. HIDE DEF i
    <3>2. /\ c[k] = b[i] /\ Offset(c, k) = StreamLen(a) + Offset(b, i)
          /\ Offset(b, i) \in Nat /\ b[i].size \in Nat
      BY <1>1, <1>2, <1>3, <3>1
    <3>3. Offset(b, i) + b[i].size <= StreamLen(b)
      BY <1>7, <2>1, <3>1, <3>2 DEF Closed
    <3>. QED
      BY <1>2, <3>2, <3>3
  <2>. QED
    BY <2>2, <2>3
<1>. QED
  BY <1>4, <1>5, <1>6, <1>7 DEF c

\* The innermost group that encloses piece j is the one its node is from; a
\* piece that no group encloses is a child of r.
NestedAt(t, s, r, j) ==
    \/ /\ \A i \in 1..(j - 1) : ~Encloses(s, i, j)
       /\ ParentOf(t, s[j].node) = r
    \/ \E i \in 1..(j - 1) :
          /\ Encloses(s, i, j)
          /\ \A k \in 1..(j - 1) : Encloses(s, k, j) => k <= i
          /\ ParentOf(t, s[j].node) = s[i].node
Nested(t, s, r) == \A j \in 1..Len(s) : NestedAt(t, s, r, j)

\* What a group encloses ends inside of it.
Contained(s) ==
    \A i, j \in 1..Len(s) :
        Encloses(s, i, j) => Offset(s, j) + s[j].size <= Offset(s, i) + s[i].size

\* A reader finds the children of r and what is in them where they belong.
Readable(t, s, r) == Nested(t, s, r) /\ Contained(s)

\* The last child of r ends where the stream ends.
ReachesEnd(t, s, r) ==
    \/ StreamLen(s) = 0
    \/ \E j \in 1..Len(s) :
          /\ ParentOf(t, s[j].node) = r
          /\ Offset(s, j) + s[j].size = StreamLen(s)

\* What is shifted behind another stream keeps its parents.
LEMMA NestedShift ==
    ASSUME NEW t, NEW P, NEW a \in Seq(P), NEW b \in Seq(P), NEW r, NEW j \in 1..Len(b),
           \A i \in 1..Len(b) : Encloses(a \o b, Len(a) + i, Len(a) + j) <=> Encloses(b, i, j),
           \A i \in 1..Len(a) : ~Encloses(a \o b, i, Len(a) + j),
           NestedAt(t, b, r, j)
    PROVE  NestedAt(t, a \o b, r, Len(a) + j)
<1>. DEFINE c == a \o b
            m == Len(a) + j
<1>1. /\ \A i \in 1..Len(b) : c[Len(a) + i] = b[i]
      /\ Len(a) \in Nat /\ Len(b) \in Nat /\ j \in Nat
  BY ConcatAt
<1>2. \A k \in 1..(m - 1) : k \in 1..Len(a) \/ (k - Len(a) \in 1..(j - 1) /\ Len(a) + (k - Len(a)) = k)
  BY <1>1
<1>3. \A i \in 1..(j - 1) : i \in 1..Len(b) /\ Len(a) + i \in 1..(m - 1)
  BY <1>1
<1>4. c[m] = b[j]
  BY <1>1
<1>5. \A i \in 1..Len(b) : Encloses(c, Len(a) + i, m) <=> Encloses(b, i, j)
  OBVIOUS
<1>6. \A i \in 1..Len(a) : ~Encloses(c, i, m)
  OBVIOUS
<1>. HIDE DEF c, m
<1>7. CASE /\ \A i \in 1..(j - 1) : ~Encloses(b, i, j)
           /\ ParentOf(t, b[j].node) = r
  <2>1. ASSUME NEW k \in 1..(m - 1) PROVE ~Encloses(c, k, m)
    <3>1. ASSUME k - Len(a) \in 1..(j - 1), Len(a) + (k - Len(a)) = k PROVE ~Encloses(c, k, m)
      <4>1. k - Len(a) \in 1..Len(b)
        BY <1>3, <3>1
      <4>2. Encloses(c, k, m) <=> Encloses(b, k - Len(a), j)
        BY <1>5, <3>1, <4>1
      <4>. QED
        BY <1>7, <3>1, <4>2
    <3>. QED
      BY <1>2, <1>6, <3>1
  <2>. QED
    BY <1>4, <1>7, <2>1 DEF NestedAt, c, m
<1>8. ASSUME NEW i \in 1..(j - 1), Encloses(b, i, j),
             \A k \in 1..(j - 1) : Encloses(b, k, j) => k <= i,
             ParentOf(t, b[j].node) = b[i].node
      PROVE  NestedAt(t, c, r, m)
  <2>1. Len(a) + i \in 1..(m - 1) /\ c[Len(a) + i] = b[i] /\ Encloses(c, Len(a) + i, m)
    BY <1>1, <1>3, <1>5, <1>8
  <2>2. ASSUME NEW k \in 1..(m - 1), Encloses(c, k, m) PROVE k <= Len(a) + i
    <3>1. k \in 1..Len(a) => k <= Len(a) + i
      BY <1>1
    <3>2. ASSUME k - Len(a) \in 1..(j - 1), Len(a) + (k - Len(a)) = k PROVE k <= Len(a) + i
      <4>1. k - Len(a) \in 1..Len(b)
        BY <1>3, <3>2
      <4>2. Encloses(b, k - Len(a), j)
        BY <1>5, <2>2, <3>2, <4>1
      <4>3. k - Len(a) <= i
        BY <1>8, <3>2, <4>2
      <4>. QED
        BY <1>1, <4>3
    <3>. QED
      BY <1>2, <3>1, <3>2
  <2>3. ParentOf(t, c[m].node) = c[Len(a) + i].node
    BY <1>4, <1>8, <2>1
  <2>. QED
    BY <2>1, <2>2, <2>3 DEF NestedAt
<1>. QED
  BY <1>7, <1>8 DEF NestedAt, c, m

\* And the other way round: what has its parents behind another stream has
\* them without it.
LEMMA NestedUnshift ==
    ASSUME NEW t, NEW P, NEW a \in Seq(P), NEW b \in Seq(P), NEW r, NEW j \in 1..Len(b),
           \A i \in 1..Len(b) : Encloses(a \o b, Len(a) + i, Len(a) + j) <=> Encloses(b, i, j),
           \A i \in 1..Len(a) : ~Encloses(a \o b, i, Len(a) + j),
           NestedAt(t, a \o b, r, Len(a) + j)
    PROVE  NestedAt(t, b, r, j)
<1>. DEFINE c == a \o b
            m == Len(a) + j
<1>1. /\ \A i \in 1..Len(b) : c[Len(a) + i] = b[i]
      /\ Len(a) \in Nat /\ Len(b) \in Nat /\ j \in Nat
  BY ConcatAt
<1>2. \A k \in 1..(m - 1) : k \in 1..Len(a) \/ (k - Len(a) \in 1..(j - 1) /\ Len(a) + (k - Len(a)) = k)
  BY <1>1
<1>3. \A i \in 1..(j - 1) : i \in 1..Len(b) /\ Len(a) + i \in 1..(m - 1)
  BY <1>1
<1>4. c[m] = b[j]
  BY <1>1
<1>5. \A i \in 1..Len(b) : Encloses(c, Len(a) + i, m) <=> Encloses(b, i, j)
  OBVIOUS
<1>6. \A i \in 1..Len(a) : ~Encloses(c, i, m)
  OBVIOUS
<1>. HIDE DEF c, m
<1>7. CASE /\ \A k \in 1..(m - 1) : ~Encloses(c, k, m)
           /\ ParentOf(t, c[m].node) = r
  <2>1. \A i \in 1..(j - 1) : ~Encloses(b, i, j)
    BY <1>3, <1>5, <1>7
  <2>. QED
    BY <1>4, <1>7, <2>1 DEF NestedAt
<1>8. ASSUME NEW k \in 1..(m - 1), Encloses(c, k, m),
             \A n \in 1..(m - 1) : Encloses(c, n, m) => n <= k,
             ParentOf(t, c[m].node) = c[k].node
      PROVE  NestedAt(t, b, r, j)
  <2>. DEFINE i == k - Len(a)
  <2>1. i \in 1..(j - 1) /\ Len(a) + i = k
    BY <1>2, <1>6, <1>8
  <2>. HIDE DEF i
  <2>2. i \in 1..Len(b) /\ c[k] = b[i] /\ Encloses(b, i, j)
    BY <1>1, <1>3, <1>5, <1>8, <2>1
  <2>3. ASSUME NEW n \in 1..(j - 1), Encloses(b, n, j) PROVE n <= i
    <3>1. Encloses(c, Len(a) + n, m) /\ Len(a) + n \in 1..(m - 1)
      BY <1>3, <1>5, <2>3
    <3>2. Len(a) + n <= Len(a) + i
      BY <1>8, <2>1, <3>1
    <3>. QED
      BY <1>1, <2>1, <3>2
  <2>4. ParentOf(t, b[j].node) = b[i].node
    BY <1>4, <1>8, <2>2
  <2>. QED
    BY <2>1, <2>2, <2>3, <2>4 DEF NestedAt
<1>. QED
  <2>1. NestedAt(t, c, r, m)
    BY DEF c, m
  <2>. QED
    BY <1>7, <1>8, <2>1 DEF NestedAt

\* The same groups enclose a piece of the first half.
LEMMA NestedFirst ==
    ASSUME NEW t, NEW P, Weighted(P), NEW a \in Seq(P), NEW b \in Seq(P), NEW r,
           NEW j \in 1..Len(a)
    PROVE  NestedAt(t, a \o b, r, j) <=> NestedAt(t, a, r, j)
<1>. DEFINE c == a \o b
<1>1. \A i \in 1..(j - 1) : i \in 1..Len(a)
  BY ConcatAt
<1>2. \A i \in 1..Len(a) : c[i] = a[i]
  BY ConcatAt
<1>3. \A i, k \in 1..Len(a) : Encloses(c, i, k) <=> Encloses(a, i, k)
  BY EnclosesConcat
<1>. HIDE DEF c
<1>4. NestedAt(t, c, r, j) <=> NestedAt(t, a, r, j)
  BY <1>1, <1>2, <1>3 DEF NestedAt
<1>. QED
  BY <1>4 DEF c

\* Streams behind each other, the first of them closed, are readable if each
\* of them is.
LEMMA ReadableConcat ==
    ASSUME NEW t, NEW P, Weighted(P), NEW a \in Seq(P), NEW b \in Seq(P), NEW r,
           Closed(a)
    PROVE  Readable(t, a \o b, r) <=> Readable(t, a, r) /\ Readable(t, b, r)
<1>. DEFINE c == a \o b
<1>1. /\ Len(c) = Len(a) + Len(b)
      /\ \A i \in 1..Len(a) : c[i] = a[i]
      /\ \A i \in 1..Len(b) : c[Len(a) + i] = b[i]
      /\ Len(a) \in Nat /\ Len(b) \in Nat
  BY ConcatAt
<1>2. /\ \A i, j \in 1..Len(a) : Encloses(c, i, j) <=> Encloses(a, i, j)
      /\ \A i, j \in 1..Len(b) : Encloses(c, Len(a) + i, Len(a) + j) <=> Encloses(b, i, j)
      /\ \A i \in 1..Len(a), j \in 1..Len(b) : ~Encloses(c, i, Len(a) + j)
  BY EnclosesConcat
<1>3. /\ \A i \in 1..Len(a) : Offset(c, i) = Offset(a, i)
      /\ \A i \in 1..Len(b) : Offset(c, Len(a) + i) = StreamLen(a) + Offset(b, i)
      /\ StreamLen(a) \in Nat
      /\ \A i \in 1..Len(b) : Offset(b, i) \in Nat
  BY OffsetsConcat
<1>4. \A i \in 1..Len(b) : b[i].size \in Nat
  BY DEF Weighted
<1>5. \A j \in 1..Len(a) : NestedAt(t, c, r, j) <=> NestedAt(t, a, r, j)
  BY NestedFirst
<1>6. ASSUME NEW j \in 1..Len(b) PROVE NestedAt(t, c, r, Len(a) + j) <=> NestedAt(t, b, r, j)
  <2>1. \A i \in 1..Len(b) : Encloses(c, Len(a) + i, Len(a) + j) <=> Encloses(b, i, j)
    BY <1>2
  <2>2. \A i \in 1..Len(a) : ~Encloses(c, i, Len(a) + j)
    BY <1>2
  <2>. QED
    BY <2>1, <2>2, NestedShift, NestedUnshift
<1>. HIDE DEF c
<1>7. \A k \in 1..Len(c) : \/ k \in 1..Len(a)
                           \/ \E j \in 1..Len(b) : k = Len(a) + j
  <2>1. \A k \in 1..Len(c) : k \in 1..Len(a) \/ (k - Len(a) \in 1..Len(b) /\ k = Len(a) + (k - Len(a)))
    BY <1>1
  <2>. QED
    BY <2>1
<1>8. /\ \A j \in 1..Len(a) : j \in 1..Len(c)
      /\ \A j \in 1..Len(b) : Len(a) + j \in 1..Len(c)
  BY <1>1
<1>9. Nested(t, c, r) <=> Nested(t, a, r) /\ Nested(t, b, r)
  BY <1>5, <1>6, <1>7, <1>8 DEF Nested
<1>10. ASSUME NEW i \in 1..Len(b), NEW j \in 1..Len(b)
       PROVE  Offset(c, Len(a) + j) + c[Len(a) + j].size <= Offset(c, Len(a) + i) + c[Len(a) + i].size
                <=> Offset(b, j) + b[j].size <= Offset(b, i) + b[i].size
  <2>1. \A x, y, z, v, w \in Nat : (x + y) + z <= (x + v) + w <=> y + z <= v + w
    OBVIOUS
  <2>2. /\ Offset(c, Len(a) + j) = StreamLen(a) + Offset(b, j)
        /\ Offset(c, Len(a) + i) = StreamLen(a) + Offset(b, i)
        /\ c[Len(a) + j] = b[j] /\ c[Len(a) + i] = b[i]
    BY <1>1, <1>3
  <2>3. /\ StreamLen(a) \in Nat /\ Offset(b, j) \in Nat /\ Offset(b, i) \in Nat
        /\ b[j].size \in Nat /\ b[i].size \in Nat
    BY <1>3, <1>4
  <2>4. (StreamLen(a) + Offset(b, j)) + b[j].size <= (StreamLen(a) + Offset(b, i)) + b[i].size
          <=> Offset(b, j) + b[j].size <= Offset(b, i) + b[i].size
    BY <2>1, <2>3
  <2>. QED
    BY <2>2, <2>4
<1>11. Contained(c) => Contained(a) /\ Contained(b)
  BY <1>1, <1>2, <1>3, <1>8, <1>10 DEF Contained
<1>12. ASSUME Contained(a), Contained(b) PROVE Contained(c)
  <2>. SUFFICES ASSUME NEW i \in 1..Len(c), NEW j \in 1..Len(c), Encloses(c, i, j)
                PROVE  Offset(c, j) + c[j].size <= Offset(c, i) + c[i].size
    BY DEF Contained
  <2>1. CASE i \in 1..Len(a) /\ j \in 1..Len(a)
    BY <1>1, <1>2, <1>3, <1>12, <2>1 DEF Contained
  <2>2. CASE i \in 1..Len(a) /\ j \notin 1..Len(a)
    BY <1>2, <1>7, <2>2
  <2>3. CASE i \notin 1..Len(a) /\ j \in 1..Len(a)
    <3>1. i < j
      BY DEF Encloses
    <3>. QED
      BY <1>1, <2>3, <3>1
  <2>4. CASE i \notin 1..Len(a) /\ j \notin 1..Len(a)
    <3>1. PICK x \in 1..Len(b) : i = Len(a) + x
      BY <1>7, <2>4
    <3>2. PICK y \in 1..Len(b) : j = Len(a) + y
      BY <1>7, <2>4
    <3>3. Offset(b, y) + b[y].size <= Offset(b, x) + b[x].size
      BY <1>2, <1>12, <3>1, <3>2 DEF Contained
    <3>. QED
      BY <1>10, <3>1, <3>2, <3>3
  <2>. QED
    BY <2>1, <2>2, <2>3, <2>4
<1>. QED
  BY <1>9, <1>11, <1>12 DEF Readable, c

\* The last child of the second stream is the last of both, unless there is
\* nothing in it.
LEMMA EndConcat ==
    ASSUME NEW t, NEW P, Weighted(P), NEW a \in Seq(P), NEW b \in Seq(P), NEW r,
           ReachesEnd(t, a, r), ReachesEnd(t, b, r)
    PROVE  ReachesEnd(t, a \o b, r)
<1>. DEFINE c == a \o b
<1>1. /\ Len(c) = Len(a) + Len(b)
      /\ \A i \in 1..Len(a) : c[i] = a[i]
      /\ \A i \in 1..Len(b) : c[Len(a) + i] = b[i]
      /\ Len(a) \in Nat /\ Len(b) \in Nat
  BY ConcatAt
<1>2. /\ \A i \in 1..Len(a) : Offset(c, i) = Offset(a, i)
      /\ \A i \in 1..Len(b) : Offset(c, Len(a) + i) = StreamLen(a) + Offset(b, i)
      /\ StreamLen(c) = StreamLen(a) + StreamLen(b)
      /\ StreamLen(a) \in Nat /\ StreamLen(b) \in Nat
      /\ \A i \in 1..Len(b) : Offset(b, i) \in Nat
  BY OffsetsConcat
<1>3. \A i \in 1..Len(b) : b[i].size \in Nat
  BY DEF Weighted
<1>4. /\ \A j \in 1..Len(a) : j \in 1..Len(c)
      /\ \A j \in 1..Len(b) : Len(a) + j \in 1..Len(c)
  BY <1>1
<1>. HIDE DEF c
<1>5. CASE StreamLen(b) = 0
  <2>1. StreamLen(c) = StreamLen(a)
    BY <1>2, <1>5
  <2>. QED
    BY <1>1, <1>2, <1>4, <2>1 DEF ReachesEnd, c
<1>6. CASE StreamLen(b) # 0
  <2>1. PICK j \in 1..Len(b) : /\ ParentOf(t, b[j].node) = r
                               /\ Offset(b, j) + b[j].size = StreamLen(b)
    BY <1>6 DEF ReachesEnd
  <2>2. Offset(c, Len(a) + j) + c[Len(a) + j].size = StreamLen(c)
    BY <1>1, <1>2, <1>3, <2>1
  <2>3. ParentOf(t, c[Len(a) + j].node) = r /\ Len(a) + j \in 1..Len(c)
    BY <1>1, <1>4, <2>1
  <2>. QED
    BY <2>2, <2>3 DEF ReachesEnd, c
<1>. QED
  BY <1>5, <1>6

\* A cast leaves a number alone if it fits, and makes it smaller otherwise.
LEMMA CastFacts ==
    ASSUME NEW n \in Nat
    PROVE  /\ n % U32 \in Nat /\ n % U32 < U32 /\ n % U32 <= n
           /\ n < U32 => n % U32 = n
<1>1. U32 \in Nat \ {0}
  BY PatcherAssumption
<1>. QED
  BY <1>1

\* A group header and its children are c.
HeaderAndChildren(g, s, c) ==
    /\ Len(c) = 1 + Len(s) /\ Len(s) \in Nat /\ StreamLen(s) \in Nat
    /\ c[1].node = g /\ c[1].kind = "group" /\ c[1].size = (1 + StreamLen(s)) % U32
    /\ Offset(c, 1) = 0 /\ StreamLen(c) = 1 + StreamLen(s)
    /\ \A i \in 1..Len(s) :
          /\ 1 + i \in 1..Len(c) /\ c[1 + i] = s[i] /\ s[i].size \in Nat
          /\ Offset(c, 1 + i) = 1 + Offset(s, i)
          /\ Offset(s, i) \in Nat /\ Offset(s, i) < StreamLen(s)
    /\ \A i, j \in 1..Len(s) : Encloses(c, 1 + i, 1 + j) <=> Encloses(s, i, j)
    /\ \A k \in 1..Len(c) : k = 1 \/ (k - 1 \in 1..Len(s) /\ 1 + (k - 1) = k)

\* Where its pieces are.
LEMMA GroupPlaces ==
    ASSUME NEW P, Weighted(P), NEW s \in Seq(P), NEW g,
           GroupPiece(g, (1 + StreamLen(s)) % U32) \in P
    PROVE  /\ WithGroupHeader(g, s) \in Seq(P)
           /\ HeaderAndChildren(g, s, WithGroupHeader(g, s))
<1>. DEFINE x == GroupPiece(g, (1 + StreamLen(s)) % U32)
            a == <<x>>
            c == a \o s
<1>1. /\ x.kind = "group" /\ x.node = g /\ x.size = (1 + StreamLen(s)) % U32
      /\ PieceLen(x) = 1
  BY DEF GroupPiece, PieceLen
<1>2. x \in P
  OBVIOUS
<1>. HIDE DEF x
<1>3. a \in Seq(P) /\ Len(a) = 1 /\ a[1] = x
  BY <1>2
<1>. HIDE DEF a
<1>4. /\ c \in Seq(P) /\ Len(c) = 1 + Len(s) /\ c[1] = x
      /\ \A i \in 1..Len(s) : c[1 + i] = s[i]
      /\ Len(s) \in Nat
  BY <1>3, ConcatAt
<1>5. /\ \A i \in 1..Len(a) : Offset(c, i) = Offset(a, i)
      /\ \A i \in 1..Len(s) : Offset(c, Len(a) + i) = StreamLen(a) + Offset(s, i)
      /\ StreamLen(c) = StreamLen(a) + StreamLen(s)
      /\ StreamLen(s) \in Nat
      /\ \A i \in 1..Len(s) : Offset(s, i) \in Nat /\ Offset(s, i) < StreamLen(s)
  <2>1. a \in Seq(P)
    BY <1>3
  <2>. QED
    BY <2>1, OffsetsConcat
<1>6. \A i, j \in 1..Len(s) : Encloses(c, Len(a) + i, Len(a) + j) <=> Encloses(s, i, j)
  BY <1>3, EnclosesConcat
<1>7. StreamLen(a) = 1 /\ Offset(a, 1) = 0
  <2>1. LengthUpTo(a)[0] = 0 /\ \A i \in 1..Len(a) : LengthUpTo(a)[i] = LengthUpTo(a)[i - 1] + PieceLen(a[i])
    BY <1>3, LengthRecursion
  <2>2. 1 \in 1..Len(a) /\ 1 - 1 = 0 /\ 0 + 1 = 1
    BY <1>3
  <2>. QED
    BY <1>1, <1>3, <2>1, <2>2 DEF StreamLen, Offset
<1>8. /\ Offset(c, 1) = 0 /\ StreamLen(c) = 1 + StreamLen(s)
      /\ \A i \in 1..Len(s) : Offset(c, 1 + i) = 1 + Offset(s, i)
  BY <1>3, <1>5, <1>7
<1>9. \A i, j \in 1..Len(s) : Encloses(c, 1 + i, 1 + j) <=> Encloses(s, i, j)
  BY <1>3, <1>6
<1>. HIDE DEF c
<1>10. \A k \in 1..Len(c) : k = 1 \/ (k - 1 \in 1..Len(s) /\ 1 + (k - 1) = k)
  BY <1>4
<1>11. \A i \in 1..Len(s) : 1 + i \in 1..Len(c) /\ s[i].size \in Nat
  BY <1>4 DEF Weighted
<1>12. HeaderAndChildren(g, s, c)
  BY <1>1, <1>4, <1>5, <1>8, <1>9, <1>10, <1>11 DEF HeaderAndChildren
<1>13. WithGroupHeader(g, s) = c
  BY DEF WithGroupHeader, c, a, x
<1>. QED
  BY <1>4, <1>12, <1>13

\* A cast size never ends behind the children.
LEMMA GroupClosed ==
    ASSUME NEW s, NEW g, NEW c, HeaderAndChildren(g, s, c), Closed(s)
    PROVE  Closed(c)
<1>1. Offset(c, 1) + c[1].size <= StreamLen(c)
  <2>1. 1 + StreamLen(s) \in Nat
    BY DEF HeaderAndChildren
  <2>2. /\ (1 + StreamLen(s)) % U32 \in Nat
        /\ (1 + StreamLen(s)) % U32 <= 1 + StreamLen(s)
    BY <2>1, CastFacts
  <2>. QED
    BY <2>2 DEF HeaderAndChildren
<1>2. ASSUME NEW i \in 1..Len(s)
      PROVE  Offset(c, 1 + i) + c[1 + i].size <= StreamLen(c)
  <2>1. c[1 + i] = s[i] /\ Offset(c, 1 + i) = 1 + Offset(s, i) /\ s[i].size \in Nat
        /\ Offset(s, i) \in Nat /\ StreamLen(c) = 1 + StreamLen(s) /\ StreamLen(s) \in Nat
    BY DEF HeaderAndChildren
  <2>2. Offset(s, i) + s[i].size <= StreamLen(s)
    BY DEF Closed
  <2>. QED
    BY <2>1, <2>2
<1>3. \A k \in 1..Len(c) : k = 1 \/ (k - 1 \in 1..Len(s) /\ 1 + (k - 1) = k)
  BY DEF HeaderAndChildren
<1>. QED
  BY <1>1, <1>2, <1>3 DEF Closed

\* A group header whose size fits, in front of what is readable in the group.
LEMMA FittingGroup ==
    ASSUME NEW t, NEW s, NEW g, NEW c, HeaderAndChildren(g, s, c),
           1 + StreamLen(s) < U32, Closed(s), Readable(t, s, g)
    PROVE  Readable(t, c, ParentOf(t, g)) /\ ReachesEnd(t, c, ParentOf(t, g))
<1>1. /\ Len(c) = 1 + Len(s) /\ Len(s) \in Nat /\ StreamLen(s) \in Nat
      /\ c[1].node = g /\ c[1].kind = "group"
      /\ Offset(c, 1) = 0 /\ StreamLen(c) = 1 + StreamLen(s)
      /\ \A i \in 1..Len(s) :
            /\ 1 + i \in 1..Len(c) /\ c[1 + i] = s[i] /\ s[i].size \in Nat
            /\ Offset(c, 1 + i) = 1 + Offset(s, i)
            /\ Offset(s, i) \in Nat /\ Offset(s, i) < StreamLen(s)
      /\ \A i, j \in 1..Len(s) : Encloses(c, 1 + i, 1 + j) <=> Encloses(s, i, j)
      /\ \A k \in 1..Len(c) : k = 1 \/ (k - 1 \in 1..Len(s) /\ 1 + (k - 1) = k)
  BY DEF HeaderAndChildren
<1>2. c[1].size = 1 + StreamLen(s)
  <2>1. 1 + StreamLen(s) \in Nat
    BY <1>1
  <2>. QED
    BY <2>1, CastFacts DEF HeaderAndChildren
<1>3. Nested(t, s, g) /\ Contained(s)
  BY DEF Readable
<1>4. \A j \in 1..Len(s) : Encloses(c, 1, 1 + j)
  BY <1>1, <1>2 DEF Encloses
<1>5. NestedAt(t, c, ParentOf(t, g), 1)
  BY <1>1 DEF NestedAt
<1>6. ASSUME NEW j \in 1..Len(s) PROVE NestedAt(t, c, ParentOf(t, g), 1 + j)
  <2>. DEFINE m == 1 + j
  <2>1. /\ \A k \in 1..(m - 1) : k = 1 \/ (k - 1 \in 1..(j - 1) /\ 1 + (k - 1) = k)
        /\ 1 \in 1..(m - 1)
        /\ \A i \in 1..(j - 1) : i \in 1..Len(s) /\ 1 + i \in 1..(m - 1)
    BY <1>1
  <2>2. c[m] = s[j] /\ Encloses(c, 1, m)
    BY <1>1, <1>4
  <2>3. \A i \in 1..Len(s) : Encloses(c, 1 + i, m) <=> Encloses(s, i, j)
    BY <1>1
  <2>4. NestedAt(t, s, g, j)
    BY <1>3 DEF Nested
  <2>. HIDE DEF m
  <2>5. CASE /\ \A i \in 1..(j - 1) : ~Encloses(s, i, j)
             /\ ParentOf(t, s[j].node) = g
    <3>1. ASSUME NEW k \in 1..(m - 1), Encloses(c, k, m) PROVE k <= 1
      <4>1. ASSUME k - 1 \in 1..(j - 1), 1 + (k - 1) = k PROVE FALSE
        <5>1. k - 1 \in 1..Len(s)
          BY <2>1, <4>1
        <5>2. Encloses(s, k - 1, j)
          BY <2>3, <3>1, <4>1, <5>1
        <5>. QED
          BY <2>5, <4>1, <5>2
      <4>. QED
        BY <2>1, <4>1
    <3>2. ParentOf(t, c[m].node) = c[1].node
      BY <1>1, <2>2, <2>5
    <3>3. 1 \in 1..(m - 1) /\ Encloses(c, 1, m)
      BY <2>1, <2>2
    <3>4. \E i \in 1..(m - 1) :
             /\ Encloses(c, i, m)
             /\ \A k \in 1..(m - 1) : Encloses(c, k, m) => k <= i
             /\ ParentOf(t, c[m].node) = c[i].node
      BY <3>1, <3>2, <3>3
    <3>. QED
      BY <3>4, Zenon DEF NestedAt, m
  <2>6. ASSUME NEW i \in 1..(j - 1), Encloses(s, i, j),
               \A k \in 1..(j - 1) : Encloses(s, k, j) => k <= i,
               ParentOf(t, s[j].node) = s[i].node
        PROVE  NestedAt(t, c, ParentOf(t, g), m)
    <3>1. 1 + i \in 1..(m - 1) /\ c[1 + i] = s[i] /\ Encloses(c, 1 + i, m)
      BY <1>1, <2>1, <2>3, <2>6
    <3>2. ASSUME NEW k \in 1..(m - 1), Encloses(c, k, m) PROVE k <= 1 + i
      <4>1. ASSUME k - 1 \in 1..(j - 1), 1 + (k - 1) = k PROVE k <= 1 + i
        <5>1. k - 1 \in 1..Len(s)
          BY <2>1, <4>1
        <5>2. Encloses(s, k - 1, j)
          BY <2>3, <3>2, <4>1, <5>1
        <5>3. k - 1 <= i
          BY <2>6, <4>1, <5>2
        <5>. QED
          BY <5>3
      <4>. QED
        BY <2>1, <4>1
    <3>3. ParentOf(t, c[m].node) = c[1 + i].node
      BY <2>2, <2>6, <3>1
    <3>. QED
      BY <3>1, <3>2, <3>3 DEF NestedAt
  <2>7. \/ /\ \A i \in 1..(j - 1) : ~Encloses(s, i, j)
           /\ ParentOf(t, s[j].node) = g
        \/ \E i \in 1..(j - 1) :
              /\ Encloses(s, i, j)
              /\ \A k \in 1..(j - 1) : Encloses(s, k, j) => k <= i
              /\ ParentOf(t, s[j].node) = s[i].node
    BY <2>4 DEF NestedAt
  <2>. QED
    BY <2>5, <2>6, <2>7 DEF m
<1>7. Nested(t, c, ParentOf(t, g))
  BY <1>1, <1>5, <1>6 DEF Nested
<1>8. Contained(c)
  <2>. SUFFICES ASSUME NEW i \in 1..Len(c), NEW j \in 1..Len(c), Encloses(c, i, j)
                PROVE  Offset(c, j) + c[j].size <= Offset(c, i) + c[i].size
    BY DEF Contained
  <2>1. CASE i = 1
    <3>1. Closed(c)
      BY GroupClosed
    <3>2. Offset(c, j) + c[j].size <= StreamLen(c)
      BY <3>1 DEF Closed
    <3>. QED
      BY <1>1, <1>2, <2>1, <3>2
  <2>2. CASE i # 1
    <3>. DEFINE x == i - 1
                y == j - 1
    <3>1. j # 1
      BY <1>1, <2>2 DEF Encloses
    <3>2. x \in 1..Len(s) /\ y \in 1..Len(s) /\ i = 1 + x /\ j = 1 + y
      BY <1>1, <2>2, <3>1
    <3>. HIDE DEF x, y
    <3>3. Offset(s, y) + s[y].size <= Offset(s, x) + s[x].size
      BY <1>1, <1>3, <3>2 DEF Contained
    <3>4. /\ Offset(c, j) = 1 + Offset(s, y) /\ c[j].size = s[y].size
          /\ Offset(c, i) = 1 + Offset(s, x) /\ c[i].size = s[x].size
          /\ Offset(s, x) \in Nat /\ Offset(s, y) \in Nat
          /\ s[x].size \in Nat /\ s[y].size \in Nat
      BY <1>1, <3>2
    <3>5. \A o1, o2, z1, z2 \in Nat : o1 + z1 <= o2 + z2 => (1 + o1) + z1 <= (1 + o2) + z2
      OBVIOUS
    <3>. QED
      BY <3>3, <3>4, <3>5
  <2>. QED
    BY <2>1, <2>2
<1>9. ReachesEnd(t, c, ParentOf(t, g))
  <2>1. 1 \in 1..Len(c) /\ Offset(c, 1) + c[1].size = StreamLen(c)
    BY <1>1, <1>2
  <2>. QED
    BY <1>1, <2>1 DEF ReachesEnd
<1>. QED
  BY <1>7, <1>8, <1>9 DEF Readable

\* And the other way round: if a group is readable then its children are, and
\* its size fits, because it covers the last of them.
LEMMA ReadableGroupFits ==
    ASSUME NEW t, NEW s, NEW g, NEW c, HeaderAndChildren(g, s, c),
           \A j \in 1..Len(s) : s[j].node # g /\ ParentOf(t, s[j].node) # ParentOf(t, g),
           Readable(t, s, g) => ReachesEnd(t, s, g),
           Readable(t, c, ParentOf(t, g))
    PROVE  Readable(t, s, g) /\ 1 + StreamLen(s) < U32
<1>1. /\ Len(c) = 1 + Len(s) /\ Len(s) \in Nat /\ StreamLen(s) \in Nat
      /\ c[1].node = g /\ c[1].kind = "group"
      /\ Offset(c, 1) = 0 /\ StreamLen(c) = 1 + StreamLen(s)
      /\ \A i \in 1..Len(s) :
            /\ 1 + i \in 1..Len(c) /\ c[1 + i] = s[i] /\ s[i].size \in Nat
            /\ Offset(c, 1 + i) = 1 + Offset(s, i)
            /\ Offset(s, i) \in Nat /\ Offset(s, i) < StreamLen(s)
      /\ \A i, j \in 1..Len(s) : Encloses(c, 1 + i, 1 + j) <=> Encloses(s, i, j)
  BY DEF HeaderAndChildren
<1>2. c[1].size \in Nat /\ c[1].size < U32
  <2>1. 1 + StreamLen(s) \in Nat
    BY <1>1
  <2>. QED
    BY <2>1, CastFacts DEF HeaderAndChildren
<1>3. Nested(t, c, ParentOf(t, g)) /\ Contained(c)
  BY DEF Readable
\* The innermost group around a piece of s.
<1>4. ASSUME NEW j \in 1..Len(s)
      PROVE  \E k \in 1..j :
                /\ Encloses(c, k, 1 + j)
                /\ \A n \in 1..j : Encloses(c, n, 1 + j) => n <= k
                /\ ParentOf(t, s[j].node) = c[k].node
  <2>1. NestedAt(t, c, ParentOf(t, g), 1 + j)
    BY <1>1, <1>3 DEF Nested
  <2>2. (1 + j) - 1 = j /\ c[1 + j] = s[j]
    BY <1>1
  <2>3. ParentOf(t, s[j].node) # ParentOf(t, g)
    OBVIOUS
  <2>. QED
    BY <2>1, <2>2, <2>3 DEF NestedAt
<1>5. Nested(t, s, g)
  <2>. SUFFICES ASSUME NEW j \in 1..Len(s) PROVE NestedAt(t, s, g, j)
    BY DEF Nested
  <2>1. PICK k \in 1..j : /\ Encloses(c, k, 1 + j)
                          /\ \A n \in 1..j : Encloses(c, n, 1 + j) => n <= k
                          /\ ParentOf(t, s[j].node) = c[k].node
    BY <1>4
  <2>2. \A i \in 1..(j - 1) : i \in 1..Len(s) /\ 1 + i \in 1..j
    BY <1>1
  <2>3. \A i \in 1..(j - 1) : Encloses(s, i, j) => Encloses(c, 1 + i, 1 + j) /\ 1 + i <= k
    BY <1>1, <2>1, <2>2
  <2>4. CASE k = 1
    <3>1. \A i \in 1..(j - 1) : ~Encloses(s, i, j)
      BY <2>3, <2>4
    <3>. QED
      BY <1>1, <2>1, <2>4, <3>1 DEF NestedAt
  <2>5. CASE k # 1
    <3>. DEFINE i == k - 1
    <3>1. i \in 1..(j - 1) /\ 1 + i = k
      BY <2>5
    <3>. HIDE DEF i
    <3>2. i \in 1..Len(s) /\ c[k] = s[i] /\ Encloses(s, i, j)
      BY <1>1, <2>1, <2>2, <3>1
    <3>3. \A n \in 1..(j - 1) : Encloses(s, n, j) => n <= i
      BY <2>3, <3>1
    <3>. QED
      BY <2>1, <3>1, <3>2, <3>3 DEF NestedAt
  <2>. QED
    BY <2>4, <2>5
<1>6. Contained(s)
  <2>. SUFFICES ASSUME NEW i \in 1..Len(s), NEW j \in 1..Len(s), Encloses(s, i, j)
                PROVE  Offset(s, j) + s[j].size <= Offset(s, i) + s[i].size
    BY DEF Contained
  <2>1. Offset(c, 1 + j) + c[1 + j].size <= Offset(c, 1 + i) + c[1 + i].size
    BY <1>1, <1>3 DEF Contained
  <2>2. /\ Offset(c, 1 + j) = 1 + Offset(s, j) /\ c[1 + j] = s[j]
        /\ Offset(c, 1 + i) = 1 + Offset(s, i) /\ c[1 + i] = s[i]
        /\ Offset(s, i) \in Nat /\ Offset(s, j) \in Nat /\ s[i].size \in Nat /\ s[j].size \in Nat
    BY <1>1
  <2>3. \A o1, o2, z1, z2 \in Nat : (1 + o1) + z1 <= (1 + o2) + z2 => o1 + z1 <= o2 + z2
    OBVIOUS
  <2>. QED
    BY <2>1, <2>2, <2>3
<1>7. Readable(t, s, g)
  BY <1>5, <1>6 DEF Readable
<1>8. 1 + StreamLen(s) < U32
  <2>1. CASE StreamLen(s) = 0
    BY <2>1, PatcherAssumption
  <2>2. CASE StreamLen(s) # 0
    <3>1. PICK j \in 1..Len(s) : /\ ParentOf(t, s[j].node) = g
                                 /\ Offset(s, j) + s[j].size = StreamLen(s)
      BY <1>7, <2>2 DEF ReachesEnd
    <3>2. PICK k \in 1..j : /\ Encloses(c, k, 1 + j)
                            /\ ParentOf(t, s[j].node) = c[k].node
      BY <1>4
    <3>3. k = 1
      <4>. SUFFICES ASSUME k # 1 PROVE FALSE
        OBVIOUS
      <4>. DEFINE i == k - 1
      <4>1. i \in 1..Len(s) /\ k = 1 + i
        BY <1>1
      <4>. HIDE DEF i
      <4>2. c[k] = s[i] /\ s[i].node # g
        BY <1>1, <4>1
      <4>. QED
        BY <3>1, <3>2, <4>2
    <3>4. 1 \in 1..Len(c) /\ 1 + j \in 1..Len(c)
      BY <1>1
    <3>5. Offset(c, 1 + j) + c[1 + j].size <= Offset(c, 1) + c[1].size
      BY <1>3, <3>2, <3>3, <3>4 DEF Contained
    <3>6. /\ Offset(c, 1 + j) = 1 + Offset(s, j) /\ c[1 + j] = s[j] /\ Offset(c, 1) = 0
          /\ Offset(s, j) \in Nat /\ s[j].size \in Nat
      BY <1>1
    <3>7. U32 \in Nat /\ StreamLen(s) \in Nat
      BY <1>1, PatcherAssumption
    <3>8. (1 + Offset(s, j)) + s[j].size <= 0 + c[1].size
      BY <3>5, <3>6
    <3>. HIDE DEF ReachesEnd
    <3>. QED
      BY <1>2, <3>1, <3>6, <3>7, <3>8
  <2>. QED
    BY <2>1, <2>2
<1>. QED
  BY <1>7, <1>8

(***************************************************************************)
(* The tree of a parsed plugin: what is inside a group has a smaller range.*)
(***************************************************************************)

Rank(t, n) == t.end[n] - t.start[n]

\* The children of a group.
LEMMA KidsFacts ==
    ASSUME NEW t, IsPlugin(t), NEW g \in Groups(t)
    PROVE  /\ t.kids[g] \in Seq(Nodes(t)) /\ Len(t.kids[g]) \in Nat
           /\ DOMAIN t.kids[g] = 1..Len(t.kids[g])
           /\ \A i \in 1..Len(t.kids[g]) :
                 /\ t.kids[g][i] \in Nodes(t) /\ t.kids[g][i] \in ToSet(t.kids[g])
                 /\ t.kids[g][i] \in Groups(t) => t.kids[g][i] \in SubGroups(t, g)
                 /\ t.kids[g][i] \notin Groups(t) => t.kids[g][i] \in OwnRecords(t, g)
           /\ Injective(t.kids[g])
<1>1. t.kids[g] \in Seq(Nodes(t))
  BY DEF IsPlugin
<1>. DEFINE list == t.kids[g]
<1>. HIDE DEF list
<1>2. list \in Seq(Nodes(t))
  BY <1>1 DEF list
<1>3. Len(list) \in Nat /\ DOMAIN list = 1..Len(list) /\ \A i \in 1..Len(list) : list[i] \in Nodes(t)
  BY <1>2
<1>4. \A i \in 1..Len(list) : list[i] \in ToSet(list)
  BY <1>3 DEF ToSet
<1>5. OneBehindTheOther(t, list)
  BY DEF IsPlugin, list
<1>6. \A i \in 1..Len(list) : /\ t.start[list[i]] \in Int /\ t.end[list[i]] \in Int
                             /\ t.start[list[i]] < t.end[list[i]]
  BY <1>3 DEF IsPlugin
<1>7. Injective(list)
  <2>1. ASSUME NEW i \in 1..Len(list), NEW j \in 1..Len(list), i < j PROVE list[i] # list[j]
    <3>1. t.end[list[i]] <= t.start[list[j]]
      BY <1>3, <1>5, <2>1 DEF OneBehindTheOther
    <3>. QED
      BY <1>6, <3>1
  <2>2. \A i, j \in 1..Len(list) : i = j \/ i < j \/ j < i
    BY <1>3
  <2>. QED
    BY <2>1, <2>2 DEF Injective
<1>8. \A i \in 1..Len(list) :
         /\ list[i] \in Groups(t) => list[i] \in ToSet(list) \intersect Groups(t)
         /\ list[i] \notin Groups(t) => list[i] \in ToSet(list) \intersect Records(t)
  BY <1>3, <1>4 DEF Nodes
<1>. QED
  BY <1>2, <1>3, <1>4, <1>7, <1>8 DEF SubGroups, OwnRecords, list

\* Subgroups are groups with a smaller range.
LEMMA SubGroupRank ==
    ASSUME NEW t, IsPlugin(t), NEW g \in Groups(t), NEW s \in SubGroups(t, g)
    PROVE  /\ s \in Groups(t) /\ s \in ToSet(t.kids[g])
           /\ Rank(t, s) \in Nat /\ Rank(t, g) \in 0..t.length
           /\ Rank(t, s) < Rank(t, g)
<1>1. s \in Groups(t) /\ s \in ToSet(t.kids[g])
  BY DEF SubGroups
<1>2. s \in Nodes(t) /\ g \in Nodes(t)
  BY <1>1 DEF Nodes
<1>3. /\ t.start[s] \in 0..t.length /\ t.end[s] \in 0..t.length /\ t.start[s] < t.end[s]
      /\ t.start[g] \in 0..t.length /\ t.end[g] \in 0..t.length /\ t.start[g] < t.end[g]
      /\ t.length \in Nat
  BY <1>2 DEF IsPlugin
<1>4. t.start[g] + 1 <= t.start[s] /\ t.end[s] <= t.end[g]
  BY <1>1 DEF IsPlugin, Within
<1>. QED
  BY <1>1, <1>3, <1>4 DEF Rank

\* Every group has a rank.
LEMMA RankType ==
    ASSUME NEW t, IsPlugin(t), NEW g \in Groups(t)
    PROVE  Rank(t, g) \in 0..t.length /\ t.length \in Nat
<1>1. /\ t.start[g] \in 0..t.length /\ t.end[g] \in 0..t.length /\ t.start[g] < t.end[g]
      /\ t.length \in Nat
  BY DEF IsPlugin, Nodes
<1>. QED
  BY <1>1 DEF Rank

\* Induction from the subgroups to the group.
LEMMA TreeInduction ==
    ASSUME NEW t, IsPlugin(t), NEW T,
           \A g \in Groups(t) : (\A s \in SubGroups(t, g) : s \in T) => g \in T
    PROVE  Groups(t) \subseteq T
<1>. DEFINE Bad == {n \in Nat : \E g \in Groups(t) : g \notin T /\ Rank(t, g) = n}
<1>. SUFFICES ASSUME NEW h \in Groups(t), h \notin T PROVE FALSE
  OBVIOUS
<1>1. Bad \subseteq Nat /\ Bad # {}
  <2>1. Rank(t, h) \in Nat
    BY RankType
  <2>. QED
    BY <2>1
<1>2. PICK m \in Bad : \A k \in Bad : m <= k
  <2>. HIDE DEF Bad
  <2>. QED
    BY <1>1, LeastElement
<1>3. PICK g \in Groups(t) : g \notin T /\ Rank(t, g) = m
  BY <1>2
<1>4. PICK s \in SubGroups(t, g) : s \notin T
  BY <1>3
<1>5. s \in Groups(t) /\ Rank(t, s) \in Nat /\ Rank(t, s) < m
  BY <1>3, SubGroupRank
<1>6. Rank(t, s) \in Bad
  BY <1>4, <1>5
<1>7. m \in Nat
  BY <1>2
<1>. HIDE DEF Bad
<1>. QED
  BY <1>2, <1>5, <1>6, <1>7

(***************************************************************************)
(* The recursive functions on the tree have what their definitions say as  *)
(* their values: one step for each of them, and one existence proof.       *)
(***************************************************************************)

BelowStep(t, f, g) == {g} \union UNION {f[s] : s \in SubGroups(t, g)}

CopyStep(t, f, g) ==
    WithGroupHeader(g, FlattenSeq([i \in 1..Len(t.kids[g]) |->
       LET n == t.kids[g][i]
       IN  IF n \in Groups(t) THEN f[n] ELSE <<RecordPiece(n, SourceBody)>>]))

WriteStep(p, touched, f, g) ==
    IF g \notin touched THEN Verbatim(p.plugin)[g]
    ELSE WithGroupHeader(g, FlattenSeq([i \in 1..Len(Visited(p, g)) |->
           LET n == Visited(p, g)[i]
           IN  IF n \in Groups(p.plugin) THEN f[n] ELSE <<WriteRecord(p, n)>>]))

MarkStep(p, f, g) ==
    LET kids    == p.plugin.kids
        subs    == {i \in DOMAIN kids[g] : kids[g][i] \in Groups(p.plugin)}
        hits    == {i \in subs : f[kids[g][i]].reordered}
        visited == {i \in subs : \A j \in hits : i <= j}
        here    == g \in DOMAIN p.groupOrders \/ hits # {}
    IN  [reordered |-> here,
         touched   |-> (UNION {f[kids[g][i]].touched : i \in visited})
                         \union (IF here THEN {g} ELSE {})]

TreeStep(name, p, touched, f, g) ==
    CASE name = "below" -> BelowStep(p.plugin, f, g)
      [] name = "copy"  -> CopyStep(p.plugin, f, g)
      [] name = "write" -> WriteStep(p, touched, f, g)
      [] name = "mark"  -> MarkStep(p, f, g)

\* The children that write_group visits are children.
VisitsChildren(p) ==
    \A g \in Groups(p.plugin) : \A i \in 1..Len(Visited(p, g)) :
        Visited(p, g)[i] \in ToSet(p.plugin.kids[g])

\* A step depends on the values for the subgroups only.
LEMMA StepAgrees ==
    ASSUME NEW p, IsPlugin(p.plugin), VisitsChildren(p), NEW touched,
           NEW name \in {"below", "copy", "write", "mark"},
           NEW f, NEW h, NEW g \in Groups(p.plugin),
           \A s \in SubGroups(p.plugin, g) : f[s] = h[s]
    PROVE  TreeStep(name, p, touched, f, g) = TreeStep(name, p, touched, h, g)
<1>. DEFINE t == p.plugin
<1>1. /\ DOMAIN t.kids[g] = 1..Len(t.kids[g])
      /\ \A i \in 1..Len(t.kids[g]) : t.kids[g][i] \in Groups(t) => t.kids[g][i] \in SubGroups(t, g)
  BY KidsFacts
<1>2. BelowStep(t, f, g) = BelowStep(t, h, g)
  <2>1. {f[s] : s \in SubGroups(t, g)} = {h[s] : s \in SubGroups(t, g)}
    OBVIOUS
  <2>. QED
    BY <2>1 DEF BelowStep
<1>3. CopyStep(t, f, g) = CopyStep(t, h, g)
  <2>1. \A i \in 1..Len(t.kids[g]) : t.kids[g][i] \in Groups(t) => f[t.kids[g][i]] = h[t.kids[g][i]]
    BY <1>1
  <2>2. [i \in 1..Len(t.kids[g]) |->
           LET n == t.kids[g][i] IN IF n \in Groups(t) THEN f[n] ELSE <<RecordPiece(n, SourceBody)>>]
        = [i \in 1..Len(t.kids[g]) |->
           LET n == t.kids[g][i] IN IF n \in Groups(t) THEN h[n] ELSE <<RecordPiece(n, SourceBody)>>]
    <3>. HIDE DEF t
    <3>. QED
      BY <2>1
  <2>. QED
    BY <2>2 DEF CopyStep
<1>4. WriteStep(p, touched, f, g) = WriteStep(p, touched, h, g)
  <2>1. ASSUME NEW i \in 1..Len(Visited(p, g)), Visited(p, g)[i] \in Groups(t)
        PROVE  f[Visited(p, g)[i]] = h[Visited(p, g)[i]]
    <3>1. Visited(p, g)[i] \in SubGroups(t, g)
      BY <2>1 DEF VisitsChildren, SubGroups
    <3>. QED
      BY <3>1
  <2>2. [i \in 1..Len(Visited(p, g)) |->
           LET n == Visited(p, g)[i] IN IF n \in Groups(t) THEN f[n] ELSE <<WriteRecord(p, n)>>]
        = [i \in 1..Len(Visited(p, g)) |->
           LET n == Visited(p, g)[i] IN IF n \in Groups(t) THEN h[n] ELSE <<WriteRecord(p, n)>>]
    <3>. HIDE DEF t
    <3>. QED
      BY <2>1
  <2>. QED
    BY <2>2 DEF WriteStep
<1>5. MarkStep(p, f, g) = MarkStep(p, h, g)
  <2>. DEFINE subs == {i \in DOMAIN t.kids[g] : t.kids[g][i] \in Groups(t)}
              hits(q) == {i \in subs : q[t.kids[g][i]].reordered}
              visited(q) == {i \in subs : \A j \in hits(q) : i <= j}
  <2>1. \A i \in subs : f[t.kids[g][i]] = h[t.kids[g][i]]
    BY <1>1
  <2>. HIDE DEF subs
  <2>2. hits(f) = hits(h)
    BY <2>1
  <2>. HIDE DEF hits
  <2>3. visited(f) = visited(h)
    BY <2>2
  <2>4. \A i \in visited(f) : f[t.kids[g][i]] = h[t.kids[g][i]]
    BY <2>1
  <2>. HIDE DEF visited
  <2>5. {f[t.kids[g][i]].touched : i \in visited(f)} = {h[t.kids[g][i]].touched : i \in visited(h)}
    BY <2>3, <2>4
  <2>6. \A q : MarkStep(p, q, g) =
           [reordered |-> g \in DOMAIN p.groupOrders \/ hits(q) # {},
            touched |-> (UNION {q[t.kids[g][i]].touched : i \in visited(q)})
              \union (IF g \in DOMAIN p.groupOrders \/ hits(q) # {} THEN {g} ELSE {})]
    BY DEF MarkStep, visited, hits, subs
  <2>. QED
    BY <2>2, <2>5, <2>6
<1>. QED
  BY <1>2, <1>3, <1>4, <1>5 DEF TreeStep

\* The recursion has a solution.
LEMMA TreeRecursion ==
    ASSUME NEW p, IsPlugin(p.plugin), VisitsChildren(p), NEW touched,
           NEW name \in {"below", "copy", "write", "mark"}
    PROVE  \E f : f = [g \in Groups(p.plugin) |-> TreeStep(name, p, touched, f, g)]
<1>. DEFINE t == p.plugin
            Step(f, g) == TreeStep(name, p, touched, f, g)
            T == {n \in Nat : \E f : /\ f = [g \in Groups(t) |-> f[g]]
                                     /\ \A g \in Groups(t) : Rank(t, g) < n => f[g] = Step(f, g)}
<1>1. ASSUME NEW f, NEW h, NEW g \in Groups(t),
             \A s \in Groups(t) : Rank(t, s) < Rank(t, g) => f[s] = h[s]
      PROVE  Step(f, g) = Step(h, g)
  <2>1. \A s \in SubGroups(t, g) : s \in Groups(t) /\ Rank(t, s) < Rank(t, g)
    BY SubGroupRank
  <2>2. \A s \in SubGroups(t, g) : f[s] = h[s]
    BY <1>1, <2>1
  <2>. QED
    BY <2>2, StepAgrees
<1>2. t.length \in Nat \/ Groups(t) = {}
  BY RankType
<1>3. \A g \in Groups(t) : Rank(t, g) \in Nat
  BY RankType
<1>. HIDE DEF t, Step
<1>4. 0 \in T
  <2>. DEFINE f == [g \in Groups(t) |-> 0]
  <2>1. f = [g \in Groups(t) |-> f[g]]
    OBVIOUS
  <2>2. \A g \in Groups(t) : ~(Rank(t, g) < 0)
    BY <1>3
  <2>. HIDE DEF f
  <2>. QED
    BY <2>1, <2>2
<1>5. ASSUME NEW n \in Nat, n \in T PROVE n + 1 \in T
  <2>1. PICK f : /\ f = [g \in Groups(t) |-> f[g]]
                 /\ \A g \in Groups(t) : Rank(t, g) < n => f[g] = Step(f, g)
    BY <1>5
  <2>. DEFINE h == [g \in Groups(t) |-> IF Rank(t, g) = n THEN Step(f, g) ELSE f[g]]
  <2>2. h = [g \in Groups(t) |-> h[g]]
    OBVIOUS
  <2>3. \A g \in Groups(t) : h[g] = IF Rank(t, g) = n THEN Step(f, g) ELSE f[g]
    OBVIOUS
  <2>. HIDE DEF h
  <2>4. ASSUME NEW g \in Groups(t), Rank(t, g) < n + 1 PROVE h[g] = Step(h, g)
    <3>1. Rank(t, g) = n \/ Rank(t, g) < n
      BY <1>3, <2>4
    <3>2. \A s \in Groups(t) : Rank(t, s) < Rank(t, g) => h[s] = f[s]
      BY <1>3, <2>3, <3>1
    <3>3. Step(h, g) = Step(f, g)
      BY <1>1, <3>2
    <3>4. Rank(t, g) < n => Rank(t, g) # n
      BY <1>3
    <3>. QED
      BY <2>1, <2>3, <3>1, <3>3, <3>4
  <2>. QED
    BY <2>2, <2>4
<1>6. \E n \in T : \A g \in Groups(t) : Rank(t, g) < n
  <2>1. CASE Groups(t) = {}
    BY <1>4, <2>1
  <2>2. CASE Groups(t) # {}
    <3>1. t.length + 1 \in Nat /\ t.length + 1 \in 0..(t.length + 1)
      BY <1>2, <2>2
    <3>2. \A m \in 0..((t.length + 1) - 1) : m \in T => m + 1 \in T
      BY <1>5
    <3>3. t.length + 1 \in T
      <4>. HIDE DEF T
      <4>. QED
        BY <1>4, <3>1, <3>2, UpToInduction
    <3>4. \A g \in Groups(t) : Rank(t, g) \in 0..t.length
      BY RankType DEF t
    <3>5. \A g \in Groups(t) : Rank(t, g) < t.length + 1
      BY <1>2, <2>2, <3>4
    <3>. QED
      BY <3>3, <3>5
  <2>. QED
    BY <2>1, <2>2
<1>7. PICK f : /\ f = [g \in Groups(t) |-> f[g]]
               /\ \A g \in Groups(t) : f[g] = Step(f, g)
  <2>1. PICK n \in T : \A g \in Groups(t) : Rank(t, g) < n
    BY <1>6
  <2>2. PICK f : /\ f = [g \in Groups(t) |-> f[g]]
                 /\ \A g \in Groups(t) : Rank(t, g) < n => f[g] = Step(f, g)
    BY <2>1
  <2>. QED
    BY <2>1, <2>2
<1>8. f = [g \in Groups(t) |-> Step(f, g)]
  <2>1. [g \in Groups(t) |-> f[g]] = [g \in Groups(t) |-> Step(f, g)]
    BY <1>7, Zenon
  <2>. QED
    BY <1>7, <2>1
<1>. QED
  BY <1>8, Zenon DEF t, Step

\* A patcher without registered orders visits the children as they are.
LEMMA PlainVisits ==
    ASSUME NEW t, IsPlugin(t)
    PROVE  \E p : p.plugin = t /\ IsPlugin(p.plugin) /\ VisitsChildren(p)
<1>. DEFINE p == [plugin |-> t, groupOrders |-> <<>>]
<1>1. p.plugin = t /\ p.groupOrders = <<>> /\ DOMAIN <<>> = {}
  OBVIOUS
<1>. HIDE DEF p
<1>2. ASSUME NEW g \in Groups(t), NEW i \in 1..Len(Visited(p, g))
      PROVE  Visited(p, g)[i] \in ToSet(t.kids[g])
  <2>1. Visited(p, g) = t.kids[g]
    BY <1>1 DEF Visited
  <2>. QED
    BY <2>1, KidsFacts
<1>3. VisitsChildren(p)
  BY <1>1, <1>2 DEF VisitsChildren
<1>. QED
  BY <1>1, <1>3

\* Below, by what is below the subgroups.
LEMMA BelowIs ==
    ASSUME NEW t, IsPlugin(t), NEW g \in Groups(t)
    PROVE  Below(t)[g] = {g} \union UNION {Below(t)[s] : s \in SubGroups(t, g)}
<1>1. PICK p : p.plugin = t /\ IsPlugin(p.plugin) /\ VisitsChildren(p)
  BY PlainVisits
<1>2. PICK f : f = [h \in Groups(p.plugin) |-> TreeStep("below", p, {}, f, h)]
  BY <1>1, TreeRecursion
<1>3. \A ff, h : TreeStep("below", p, {}, ff, h) = BelowStep(t, ff, h)
  BY <1>1 DEF TreeStep
<1>4. f = [h \in Groups(t) |-> BelowStep(t, f, h)]
  BY <1>1, <1>2, <1>3
<1>. DEFINE v == CHOOSE ff : ff = [h \in Groups(t) |-> BelowStep(t, ff, h)]
<1>5. v = [h \in Groups(t) |-> BelowStep(t, v, h)]
  BY <1>4, Zenon
<1>6. Below(t) = v
  BY DEF Below, BelowStep
<1>. HIDE DEF v
<1>7. Below(t)[g] = BelowStep(t, Below(t), g)
  BY <1>5, <1>6
<1>. QED
  BY <1>7 DEF BelowStep

\* The copy of a group, by the copies of its children.
LEMMA VerbatimIs ==
    ASSUME NEW t, IsPlugin(t), NEW g \in Groups(t)
    PROVE  Verbatim(t)[g] = CopyStep(t, Verbatim(t), g)
<1>1. PICK p : p.plugin = t /\ IsPlugin(p.plugin) /\ VisitsChildren(p)
  BY PlainVisits
<1>2. PICK f : f = [h \in Groups(p.plugin) |-> TreeStep("copy", p, {}, f, h)]
  BY <1>1, TreeRecursion
<1>3. \A ff, h : TreeStep("copy", p, {}, ff, h) = CopyStep(t, ff, h)
  BY <1>1 DEF TreeStep
<1>4. f = [h \in Groups(t) |-> CopyStep(t, f, h)]
  BY <1>1, <1>2, <1>3
<1>. DEFINE v == CHOOSE ff : ff = [h \in Groups(t) |-> CopyStep(t, ff, h)]
<1>5. v = [h \in Groups(t) |-> CopyStep(t, v, h)]
  BY <1>4, Zenon
<1>6. Verbatim(t) = v
  BY DEF Verbatim, CopyStep
<1>. HIDE DEF v
<1>. QED
  BY <1>5, <1>6

\* What write_group makes of a group, by what it makes of the children.
LEMMA WriteGroupIs ==
    ASSUME NEW p, IsPlugin(p.plugin), VisitsChildren(p), NEW touched, NEW g \in Groups(p.plugin)
    PROVE  WriteGroup(p, touched)[g] = WriteStep(p, touched, WriteGroup(p, touched), g)
<1>2. PICK f : f = [h \in Groups(p.plugin) |-> TreeStep("write", p, touched, f, h)]
  BY TreeRecursion
<1>3. \A ff, h : TreeStep("write", p, touched, ff, h) = WriteStep(p, touched, ff, h)
  BY DEF TreeStep
<1>4. f = [h \in Groups(p.plugin) |-> WriteStep(p, touched, f, h)]
  BY <1>2, <1>3
<1>. DEFINE v == CHOOSE ff : ff = [h \in Groups(p.plugin) |-> WriteStep(p, touched, ff, h)]
<1>5. v = [h \in Groups(p.plugin) |-> WriteStep(p, touched, v, h)]
  BY <1>4, Zenon
<1>6. WriteGroup(p, touched) = v
  BY DEF WriteGroup, WriteStep
<1>. HIDE DEF v
<1>. QED
  BY <1>5, <1>6

\* What mark_reordered finds in a group, by what it finds in the subgroups.
LEMMA MarkReorderedIs ==
    ASSUME NEW p, IsPlugin(p.plugin), VisitsChildren(p), NEW g \in Groups(p.plugin)
    PROVE  MarkReordered(p)[g] = MarkStep(p, MarkReordered(p), g)
<1>2. PICK f : f = [h \in Groups(p.plugin) |-> TreeStep("mark", p, {}, f, h)]
  BY TreeRecursion
<1>3. \A ff, h : TreeStep("mark", p, {}, ff, h) = MarkStep(p, ff, h)
  BY DEF TreeStep
<1>4. f = [h \in Groups(p.plugin) |-> MarkStep(p, f, h)]
  BY <1>2, <1>3
<1>. DEFINE v == CHOOSE ff : ff = [h \in Groups(p.plugin) |-> MarkStep(p, ff, h)]
<1>5. v = [h \in Groups(p.plugin) |-> MarkStep(p, v, h)]
  BY <1>4, Zenon
<1>6. MarkReordered(p) = v
  BY DEF MarkReordered, MarkStep
<1>. HIDE DEF v
<1>. QED
  BY <1>5, <1>6

(***************************************************************************)
(* The registered edits.                                                   *)
(***************************************************************************)

\* An order that reorder_group_records has accepted.
OrderOK(t, g, order) ==
    g \in Groups(t) /\ order \in Seq(FormIds) /\ OrderError(t, g, order) = "ok"

\* What a patcher holds after any calls.
PatcherOK(p) ==
    /\ p.plugin \in Plugins
    /\ \A f \in DOMAIN p.patches : f \in FormIds /\ p.patches[f] \in Replacements
    /\ \A g \in DOMAIN p.groupOrders : OrderOK(p.plugin, g, p.groupOrders[g])
    /\ p.headerPatch = <<>> \/ \E n \in Nat : p.headerPatch = <<n>>

\* What the checks of an order establish.
LEMMA OrderFacts ==
    ASSUME NEW t, NEW g, NEW order, OrderError(t, g, order) = "ok"
    PROVE  /\ SubGroups(t, g) = {}
           /\ \A r, s \in OwnRecords(t, g) : t.form[r] = t.form[s] => r = s
           /\ IsInjective(order) /\ ToSet(order) \subseteq FormsOf(t, g)
           /\ Len(order) = Cardinality(FormsOf(t, g))
BY DEF OrderError

\* An accepted order names every record of the group.
LEMMA OrderIsComplete ==
    ASSUME NEW t, IsPlugin(t), NEW g \in Groups(t), NEW order,
           OrderOK(t, g, order)
    PROVE  ToSet(order) = FormsOf(t, g)
<1>1. /\ IsInjective(order) /\ ToSet(order) \subseteq FormsOf(t, g)
      /\ Len(order) = Cardinality(FormsOf(t, g))
  BY OrderFacts DEF OrderOK
<1>2. order \in Seq(FormIds) /\ Len(order) \in Nat /\ DOMAIN order = 1..Len(order)
  BY DEF OrderOK
<1>. DEFINE R == OwnRecords(t, g)
            F == FormsOf(t, g)
            N == 1..Len(order)
            f == [r \in R |-> t.form[r]]
<1>3. IsFiniteSet(R)
  <2>1. R \subseteq Nodes(t)
    BY DEF OwnRecords, Nodes
  <2>2. IsFiniteSet(Nodes(t))
    BY DEF IsPlugin
  <2>. QED
    BY <2>1, <2>2, FS_Subset
<1>4. f \in Surjection(R, F)
  <2>1. f \in [R -> F]
    BY DEF FormsOf
  <2>2. \A x \in F : \E r \in R : f[r] = x
    BY DEF FormsOf
  <2>. QED
    BY <2>1, <2>2 DEF Surjection
<1>5. IsFiniteSet(F)
  <2>. HIDE DEF R, F, f
  <2>. QED
    BY <1>3, <1>4, FS_Surjection
<1>6. order \in Injection(N, F)
  <2>1. order = [i \in N |-> order[i]]
    BY <1>2
  <2>2. \A i \in N : order[i] \in F
    BY <1>1, <1>2 DEF ToSet
  <2>3. order \in [N -> F]
    <3>. HIDE DEF N, F
    <3>. QED
      BY <2>1, <2>2, Zenon
  <2>. QED
    BY <1>1, <2>3 DEF Injection
<1>7. Cardinality(N) = Len(order)
  <2>1. Cardinality(1..Len(order)) = IF 1 > Len(order) THEN 0 ELSE Len(order) - 1 + 1
    BY <1>2, FS_Interval
  <2>. QED
    BY <1>2, <2>1
<1>8. order \in Surjection(N, F)
  <2>. HIDE DEF N, F
  <2>1. Cardinality(N) = Cardinality(F)
    BY <1>1, <1>7 DEF F
  <2>. QED
    BY <1>5, <1>6, <2>1, FS_Injection
<1>9. F \subseteq ToSet(order)
  BY <1>2, <1>8 DEF Surjection, ToSet
<1>. QED
  BY <1>1, <1>9

\* find meets the one record of a group with the FormID.
LEMMA RecordIsFound ==
    ASSUME NEW t, IsPlugin(t), NEW g \in Groups(t), NEW order,
           OrderOK(t, g, order), NEW x \in FormsOf(t, g)
    PROVE  RecordWithForm(t, g, x) \in OwnRecords(t, g) /\ t.form[RecordWithForm(t, g, x)] = x
<1>. DEFINE list == t.kids[g]
            at == {i \in DOMAIN list : list[i] \in Records(t) /\ t.form[list[i]] = x}
<1>1. DOMAIN list = 1..Len(list) /\ Injective(list)
  BY KidsFacts
<1>2. PICK r \in OwnRecords(t, g) : t.form[r] = x
  BY DEF FormsOf
<1>3. PICK i \in DOMAIN list : list[i] = r
  BY <1>2 DEF OwnRecords, ToSet
<1>4. r \in Records(t)
  BY <1>2 DEF OwnRecords
<1>5. \A j \in at : list[j] \in OwnRecords(t, g) /\ t.form[list[j]] = x
  BY DEF OwnRecords, ToSet
<1>6. \A r1, r2 \in OwnRecords(t, g) : t.form[r1] = t.form[r2] => r1 = r2
  BY OrderFacts DEF OrderOK
<1>7. at = {i}
  <2>1. i \in at
    BY <1>2, <1>3, <1>4
  <2>2. ASSUME NEW j \in at PROVE j = i
    <3>1. list[j] = list[i]
      BY <1>2, <1>3, <1>5, <1>6
    <3>. QED
      BY <1>1, <1>3, <3>1 DEF Injective
  <2>. HIDE DEF at
  <2>. QED
    BY <2>1, <2>2
<1>8. i \in Int
  BY <1>1, <1>3
<1>9. Min(at) = i
  <2>. HIDE DEF at
  <2>. QED
    BY <1>7, <1>8 DEF Min
<1>10. RecordWithForm(t, g, x) = list[Min(at)]
  BY DEF RecordWithForm
<1>. HIDE DEF at, list
<1>. QED
  BY <1>2, <1>3, <1>9, <1>10

\* write_group visits every child once.
LEMMA VisitedFacts ==
    ASSUME NEW p, IsPlugin(p.plugin), PatcherOK(p), NEW g \in Groups(p.plugin)
    PROVE  /\ Visited(p, g) \in Seq(Nodes(p.plugin))
           /\ Injective(Visited(p, g))
           /\ \A n : In(Visited(p, g), n) <=> In(p.plugin.kids[g], n)
<1>. DEFINE t == p.plugin
            order == p.groupOrders[g]
<1>1. CASE g \notin DOMAIN p.groupOrders
  <2>1. Visited(p, g) = t.kids[g]
    BY <1>1 DEF Visited
  <2>. QED
    BY <2>1, KidsFacts
<1>2. CASE g \in DOMAIN p.groupOrders
  <2>1. OrderOK(t, g, order)
    BY <1>2 DEF PatcherOK
  <2>2. Len(order) \in Nat /\ DOMAIN order = 1..Len(order)
    BY <2>1 DEF OrderOK
  <2>3. ToSet(order) = FormsOf(t, g)
    BY <2>1, OrderIsComplete
  <2>4. /\ SubGroups(t, g) = {}
        /\ \A r, s \in OwnRecords(t, g) : t.form[r] = t.form[s] => r = s
        /\ \A i, j \in 1..Len(order) : order[i] = order[j] => i = j
    BY <2>1, <2>2, OrderFacts DEF OrderOK, IsInjective
  <2>. DEFINE found(i) == RecordWithForm(t, g, order[i])
              vis == [i \in 1..Len(order) |-> found(i)]
  <2>5. Visited(p, g) = vis
    BY <1>2 DEF Visited
  <2>6. \A i \in 1..Len(order) : order[i] \in FormsOf(t, g)
    BY <2>2, <2>3 DEF ToSet
  <2>7. \A i \in 1..Len(order) : found(i) \in OwnRecords(t, g) /\ t.form[found(i)] = order[i]
    BY <2>1, <2>6, RecordIsFound
  <2>8. OwnRecords(t, g) \subseteq Nodes(t)
    BY DEF OwnRecords, Nodes
  <2>. HIDE DEF found, t, order
  <2>9. vis \in Seq(Nodes(t)) /\ Len(vis) = Len(order) /\ \A i \in 1..Len(order) : vis[i] = found(i)
    <3>1. \A i \in 1..Len(order) : found(i) \in Nodes(t)
      BY <2>7, <2>8
    <3>. QED
      BY <2>2, <3>1
  <2>. HIDE DEF vis
  <2>10. Injective(vis)
    BY <2>4, <2>7, <2>9 DEF Injective
  <2>11. /\ DOMAIN t.kids[g] = 1..Len(t.kids[g])
         /\ \A i \in 1..Len(t.kids[g]) :
              /\ t.kids[g][i] \in Groups(t) => t.kids[g][i] \in SubGroups(t, g)
              /\ t.kids[g][i] \notin Groups(t) => t.kids[g][i] \in OwnRecords(t, g)
    BY KidsFacts DEF t
  <2>12. ASSUME NEW n, In(vis, n) PROVE In(t.kids[g], n)
    <3>1. n \in OwnRecords(t, g)
      BY <2>7, <2>9, <2>12 DEF In
    <3>. QED
      BY <2>11, <3>1 DEF OwnRecords, ToSet, In
  <2>13. ASSUME NEW n, In(t.kids[g], n) PROVE In(vis, n)
    <3>1. n \in OwnRecords(t, g)
      BY <2>4, <2>11, <2>13 DEF In
    <3>2. t.form[n] \in ToSet(order)
      BY <2>3, <3>1 DEF FormsOf
    <3>3. PICK i \in 1..Len(order) : order[i] = t.form[n]
      BY <2>2, <3>2 DEF ToSet
    <3>4. found(i) = n
      BY <2>4, <2>7, <3>1, <3>3
    <3>. QED
      BY <2>9, <3>4 DEF In
  <2>. QED
    BY <2>5, <2>9, <2>10, <2>12, <2>13 DEF t
<1>. QED
  BY <1>1, <1>2

\* In particular, it visits children only.
LEMMA VisitedChildren ==
    ASSUME NEW p, IsPlugin(p.plugin), PatcherOK(p)
    PROVE  VisitsChildren(p)
<1>1. ASSUME NEW g \in Groups(p.plugin), NEW i \in 1..Len(Visited(p, g))
      PROVE  Visited(p, g)[i] \in ToSet(p.plugin.kids[g])
  <2>1. In(p.plugin.kids[g], Visited(p, g)[i])
    <3>1. In(Visited(p, g), Visited(p, g)[i])
      BY DEF In
    <3>2. \A n : In(Visited(p, g), n) <=> In(p.plugin.kids[g], n)
      BY VisitedFacts
    <3>. QED
      BY <3>1, <3>2
  <2>. QED
    BY <2>1, KidsFacts DEF In
<1>. QED
  BY <1>1 DEF VisitsChildren

(***************************************************************************)
(* What is inside a group, and where.                                      *)
(***************************************************************************)

\* What is below a group below g is below g.
LEMMA BelowTransitive ==
    ASSUME NEW t, IsPlugin(t), NEW g \in Groups(t), NEW h \in Below(t)[g]
    PROVE  /\ h \in Groups(t) /\ h \in Below(t)[h] /\ g \in Below(t)[g]
           /\ Below(t)[h] \subseteq Below(t)[g] /\ RecordsBelow(t, h) \subseteq RecordsBelow(t, g)
<1>. DEFINE B == Below(t)
            T == {x \in Groups(t) : \A y \in B[x] : y \in Groups(t) /\ B[y] \subseteq B[x]}
<1>1. \A x \in Groups(t) : B[x] = {x} \union UNION {B[s] : s \in SubGroups(t, x)}
  BY BelowIs
<1>. HIDE DEF B
<1>2. ASSUME NEW x \in Groups(t), \A s \in SubGroups(t, x) : s \in T
      PROVE  x \in T
  <2>1. B[x] = {x} \union UNION {B[s] : s \in SubGroups(t, x)}
    BY <1>1
  <2>2. ASSUME NEW y \in B[x] PROVE y \in Groups(t) /\ B[y] \subseteq B[x]
    <3>1. CASE y = x
      BY <3>1
    <3>2. CASE y # x
      <4>1. PICK s \in SubGroups(t, x) : y \in B[s]
        BY <2>1, <3>2
      <4>2. y \in Groups(t) /\ B[y] \subseteq B[s]
        BY <1>2, <4>1
      <4>3. B[s] \subseteq B[x]
        BY <2>1
      <4>. QED
        BY <4>2, <4>3
    <3>. QED
      BY <3>1, <3>2
  <2>. QED
    BY <2>2
<1>3. Groups(t) \subseteq T
  <2>. HIDE DEF T
  <2>1. \A x \in Groups(t) : (\A s \in SubGroups(t, x) : s \in T) => x \in T
    BY <1>2
  <2>. QED
    BY <2>1, TreeInduction
<1>4. h \in Groups(t) /\ B[h] \subseteq B[g]
  BY <1>3 DEF B
<1>5. h \in B[h] /\ g \in B[g]
  BY <1>1, <1>4
<1>6. RecordsBelow(t, h) \subseteq RecordsBelow(t, g)
  BY <1>4 DEF RecordsBelow, B
<1>. QED
  BY <1>4, <1>5, <1>6 DEF B

\* The groups and records below g are its own and those below its subgroups.
LEMMA BelowSubGroup ==
    ASSUME NEW t, IsPlugin(t), NEW g \in Groups(t)
    PROVE  /\ g \in Below(t)[g] /\ OwnRecords(t, g) \subseteq RecordsBelow(t, g)
           /\ \A s \in SubGroups(t, g) :
                 /\ s \in Groups(t) /\ Below(t)[s] \subseteq Below(t)[g]
                 /\ RecordsBelow(t, s) \subseteq RecordsBelow(t, g)
           /\ \A h \in Below(t)[g] : h # g => \E s \in SubGroups(t, g) : h \in Below(t)[s]
<1>1. Below(t)[g] = {g} \union UNION {Below(t)[s] : s \in SubGroups(t, g)}
  BY BelowIs
<1>2. \A s \in SubGroups(t, g) : s \in Groups(t)
  BY DEF SubGroups
<1>3. \A s \in SubGroups(t, g) : Below(t)[s] \subseteq Below(t)[g]
  BY <1>1
<1>4. \A s \in SubGroups(t, g) : RecordsBelow(t, s) \subseteq RecordsBelow(t, g)
  BY <1>3 DEF RecordsBelow
<1>5. OwnRecords(t, g) \subseteq RecordsBelow(t, g)
  BY <1>1 DEF RecordsBelow
<1>6. \A h \in Below(t)[g] : h # g => \E s \in SubGroups(t, g) : h \in Below(t)[s]
  BY <1>1
<1>. QED
  BY <1>1, <1>2, <1>3, <1>4, <1>5, <1>6

NodesIn(t, n) == IF n \in Groups(t) THEN Below(t)[n] \union RecordsBelow(t, n) ELSE {n}

\* The nodes in a group are the group and the nodes in its children.
LEMMA NodesInGroup ==
    ASSUME NEW t, IsPlugin(t), NEW g \in Groups(t)
    PROVE  NodesIn(t, g) = {g} \union UNION {NodesIn(t, n) : n \in ToSet(t.kids[g])}
<1>1. Below(t)[g] = {g} \union UNION {Below(t)[s] : s \in SubGroups(t, g)}
  BY BelowIs
<1>2. RecordsBelow(t, g) = OwnRecords(t, g) \union UNION {RecordsBelow(t, s) : s \in SubGroups(t, g)}
  BY <1>1 DEF RecordsBelow
<1>3. ToSet(t.kids[g]) = SubGroups(t, g) \union OwnRecords(t, g)
  BY KidsFacts DEF SubGroups, OwnRecords, ToSet
<1>4. \A n \in SubGroups(t, g) : NodesIn(t, n) = Below(t)[n] \union RecordsBelow(t, n)
  BY DEF NodesIn, SubGroups
<1>5. \A n \in OwnRecords(t, g) : NodesIn(t, n) = {n}
  BY DEF NodesIn, OwnRecords, IsPlugin
<1>6. NodesIn(t, g) = Below(t)[g] \union RecordsBelow(t, g)
  BY DEF NodesIn
<1>7. ASSUME NEW x \in NodesIn(t, g)
      PROVE  x \in {g} \union UNION {NodesIn(t, n) : n \in ToSet(t.kids[g])}
  BY <1>1, <1>2, <1>3, <1>4, <1>5, <1>6, <1>7
<1>8. ASSUME NEW n \in ToSet(t.kids[g]), NEW x \in NodesIn(t, n) PROVE x \in NodesIn(t, g)
  BY <1>1, <1>2, <1>3, <1>4, <1>5, <1>6, <1>8
<1>9. g \in NodesIn(t, g)
  BY <1>1, <1>6
<1>. QED
  BY <1>7, <1>8, <1>9

\* They are nodes, and lie in its range.
LEMMA NodesInRange ==
    ASSUME NEW t, IsPlugin(t), NEW m \in Nodes(t), NEW n \in NodesIn(t, m)
    PROVE  /\ n \in Nodes(t)
           /\ t.start[m] <= t.start[n] /\ t.end[n] <= t.end[m]
<1>. DEFINE Inside(a, x) == x \in Nodes(t) /\ t.start[a] <= t.start[x] /\ t.end[x] <= t.end[a]
            T == {g \in Groups(t) : \A x \in NodesIn(t, g) : Inside(g, x)}
<1>1. \A x \in Nodes(t) : t.start[x] \in Int /\ t.end[x] \in Int
  BY DEF IsPlugin
<1>2. ASSUME NEW g \in Groups(t), \A s \in SubGroups(t, g) : s \in T PROVE g \in T
  <2>1. g \in Nodes(t)
    BY DEF Nodes
  <2>2. ASSUME NEW k \in ToSet(t.kids[g]) PROVE Inside(g, k) /\ \A x \in NodesIn(t, k) : Inside(k, x)
    <3>1. k \in Nodes(t)
      BY KidsFacts DEF ToSet
    <3>2. t.start[g] + 1 <= t.start[k] /\ t.end[k] <= t.end[g]
      BY DEF IsPlugin, Within
    <3>3. Inside(g, k)
      BY <1>1, <2>1, <3>1, <3>2
    <3>4. CASE k \in Groups(t)
      <4>1. k \in SubGroups(t, g)
        BY <3>4 DEF SubGroups
      <4>. QED
        BY <1>2, <3>3, <4>1
    <3>5. CASE k \notin Groups(t)
      <4>1. NodesIn(t, k) = {k} /\ Inside(k, k)
        BY <1>1, <3>1, <3>5 DEF NodesIn
      <4>. QED
        BY <3>3, <4>1
    <3>. QED
      BY <3>4, <3>5
  <2>3. ASSUME NEW k \in Nodes(t), NEW x, Inside(g, k), Inside(k, x) PROVE Inside(g, x)
    BY <1>1, <2>1, <2>3
  <2>4. Inside(g, g)
    BY <1>1, <2>1
  <2>5. \A k \in ToSet(t.kids[g]) : k \in Nodes(t)
    BY <2>2
  <2>. HIDE DEF Inside
  <2>6. \A k \in ToSet(t.kids[g]) : \A x \in NodesIn(t, k) : Inside(g, x)
    BY <2>2, <2>3, <2>5
  <2>7. \A x \in NodesIn(t, g) : x = g \/ \E k \in ToSet(t.kids[g]) : x \in NodesIn(t, k)
    BY NodesInGroup
  <2>. QED
    BY <2>4, <2>6, <2>7
<1>3. Groups(t) \subseteq T
  <2>. HIDE DEF T
  <2>. QED
    BY <1>2, TreeInduction
<1>4. CASE m \in Groups(t)
  BY <1>3, <1>4
<1>5. CASE m \notin Groups(t)
  BY <1>1, <1>5 DEF NodesIn
<1>. QED
  BY <1>4, <1>5

\* Of two nodes one behind the other the insides are disjoint.
LEMMA SiblingsDisjoint ==
    ASSUME NEW t, IsPlugin(t), NEW list \in Seq(Nodes(t)), OneBehindTheOther(t, list),
           NEW i \in 1..Len(list), NEW j \in 1..Len(list), i # j
    PROVE  NodesIn(t, list[i]) \intersect NodesIn(t, list[j]) = {}
<1>. SUFFICES ASSUME NEW n \in NodesIn(t, list[i]), n \in NodesIn(t, list[j]) PROVE FALSE
  OBVIOUS
<1>1. list[i] \in Nodes(t) /\ list[j] \in Nodes(t)
  OBVIOUS
<1>2. /\ n \in Nodes(t)
      /\ t.start[list[i]] <= t.start[n] /\ t.end[n] <= t.end[list[i]]
      /\ t.start[list[j]] <= t.start[n] /\ t.end[n] <= t.end[list[j]]
  BY <1>1, NodesInRange
<1>3. \A x \in Nodes(t) : t.start[x] \in Int /\ t.end[x] \in Int /\ t.start[x] < t.end[x]
  BY DEF IsPlugin
<1>4. i < j => t.end[list[i]] <= t.start[list[j]]
  BY DEF OneBehindTheOther
<1>5. j < i => t.end[list[j]] <= t.start[list[i]]
  BY DEF OneBehindTheOther
<1>6. i < j \/ j < i
  OBVIOUS
<1>. QED
  BY <1>1, <1>2, <1>3, <1>4, <1>5, <1>6

\* The parent of a child, and of a group on top.
LEMMA ParentIs ==
    ASSUME NEW t, IsPlugin(t)
    PROVE  /\ \A g \in Groups(t) : \A n \in ToSet(t.kids[g]) : ParentOf(t, n) = g
           /\ \A n \in ToSet(t.top) : ParentOf(t, n) = "top"
<1>1. ASSUME NEW g \in Groups(t), NEW n \in ToSet(t.kids[g]) PROVE ParentOf(t, n) = g
  <2>1. n \notin ToSet(t.top)
    BY DEF IsPlugin
  <2>2. \A h \in Groups(t) : n \in ToSet(t.kids[h]) => h = g
    BY DEF IsPlugin
  <2>3. (CHOOSE h \in Groups(t) : n \in ToSet(t.kids[h])) = g
    BY <2>2
  <2>. QED
    BY <2>1, <2>3 DEF ParentOf
<1>. QED
  BY <1>1 DEF ParentOf

\* Nothing in a group has the parent that the group has.
LEMMA ParentsInside ==
    ASSUME NEW t, IsPlugin(t), NEW g \in Groups(t), NEW n \in NodesIn(t, g), n # g
    PROVE  ParentOf(t, n) # ParentOf(t, g)
<1>. DEFINE Inside(x) == \A m \in NodesIn(t, x) : m = x \/ ParentOf(t, m) \in NodesIn(t, x)
            T == {x \in Groups(t) : Inside(x)}
<1>1. ASSUME NEW x \in Groups(t), \A s \in SubGroups(t, x) : s \in T
      PROVE  x \in T
  <2>. SUFFICES ASSUME NEW m \in NodesIn(t, x), m # x PROVE ParentOf(t, m) \in NodesIn(t, x)
    OBVIOUS
  <2>1. NodesIn(t, x) = {x} \union UNION {NodesIn(t, k) : k \in ToSet(t.kids[x])}
    BY NodesInGroup
  <2>2. PICK k \in ToSet(t.kids[x]) : m \in NodesIn(t, k)
    BY <2>1
  <2>3. CASE m = k
    <3>1. ParentOf(t, m) = x
      BY <2>3, ParentIs
    <3>. QED
      BY <2>1, <3>1
  <2>4. CASE m # k
    <3>1. k \in Groups(t)
      BY <2>2, <2>4 DEF NodesIn
    <3>2. k \in SubGroups(t, x)
      BY <3>1 DEF SubGroups
    <3>3. ParentOf(t, m) \in NodesIn(t, k)
      BY <1>1, <2>2, <2>4, <3>2
    <3>. QED
      BY <2>1, <3>3
  <2>. QED
    BY <2>3, <2>4
<1>2. Groups(t) \subseteq T
  <2>. HIDE DEF T
  <2>. QED
    BY <1>1, TreeInduction
<1>3. ParentOf(t, n) \in NodesIn(t, g)
  BY <1>2
<1>4. ParentOf(t, g) \notin NodesIn(t, g)
  <2>. SUFFICES ASSUME ParentOf(t, g) \in NodesIn(t, g) PROVE FALSE
    OBVIOUS
  <2>1. g \in Nodes(t)
    BY DEF Nodes
  <2>2. ParentOf(t, g) \in Nodes(t) /\ t.start[g] <= t.start[ParentOf(t, g)]
    BY <2>1, NodesInRange
  <2>3. g \notin ToSet(t.top)
    BY <2>2, ParentIs DEF IsPlugin
  <2>4. PICK h \in Groups(t) : g \in ToSet(t.kids[h])
    BY <2>1, <2>3 DEF IsPlugin
  <2>5. ParentOf(t, g) = h
    BY <2>4, ParentIs
  <2>6. t.start[h] + 1 <= t.start[g]
    BY <2>4 DEF IsPlugin, Within
  <2>7. t.start[g] \in Int /\ t.start[h] \in Int
    BY <2>1, <2>2, <2>5 DEF IsPlugin
  <2>. QED
    BY <2>2, <2>5, <2>6, <2>7
<1>. QED
  BY <1>3, <1>4

(***************************************************************************)
(* What the walk over the reordered groups marks.                          *)
(***************************************************************************)

\* A group leads to an order iff it has one or a subgroup leads to one.
LEMMA ReorderedIs ==
    ASSUME NEW p, IsPlugin(p.plugin), NEW g \in Groups(p.plugin)
    PROVE  /\ Reordered(p, g) <=> \/ g \in DOMAIN p.groupOrders
                                  \/ \E s \in SubGroups(p.plugin, g) : Reordered(p, s)
           /\ \A h \in Below(p.plugin)[g] : Reordered(p, h) => Reordered(p, g)
<1>. DEFINE B == Below(p.plugin)
<1>1. /\ g \in B[g]
      /\ \A s \in SubGroups(p.plugin, g) : B[s] \subseteq B[g]
      /\ \A h \in B[g] : h # g => \E s \in SubGroups(p.plugin, g) : h \in B[s]
  BY BelowSubGroup
<1>2. \A h \in B[g] : B[h] \subseteq B[g]
  BY BelowTransitive
<1>3. \A h : Reordered(p, h) <=> \E x \in B[h] : x \in DOMAIN p.groupOrders
  BY DEF Reordered
<1>. HIDE DEF B
<1>4. ASSUME Reordered(p, g), g \notin DOMAIN p.groupOrders
      PROVE  \E s \in SubGroups(p.plugin, g) : Reordered(p, s)
  <2>1. PICK x \in B[g] : x \in DOMAIN p.groupOrders
    BY <1>3, <1>4
  <2>2. PICK s \in SubGroups(p.plugin, g) : x \in B[s]
    BY <1>1, <1>4, <2>1
  <2>. QED
    BY <1>3, <2>1, <2>2
<1>5. g \in DOMAIN p.groupOrders => Reordered(p, g)
  BY <1>1, <1>3
<1>6. \A s \in SubGroups(p.plugin, g) : Reordered(p, s) => Reordered(p, g)
  BY <1>1, <1>3
<1>7. \A h \in B[g] : Reordered(p, h) => Reordered(p, g)
  BY <1>2, <1>3
<1>. QED
  BY <1>4, <1>5, <1>6, <1>7 DEF B

\* The subgroups that report a reorder to g, and those that are asked.
SubsAt(p, g) == {i \in DOMAIN p.plugin.kids[g] : p.plugin.kids[g][i] \in Groups(p.plugin)}
HitsAt(p, f, g) == {i \in SubsAt(p, g) : f[p.plugin.kids[g][i]].reordered}
VisitedAt(p, f, g) == {i \in SubsAt(p, g) : \A j \in HitsAt(p, f, g) : i <= j}

\* What a group marks, by what its subgroups mark.
LEMMA MarkStepIs ==
    ASSUME NEW p, NEW f, NEW g
    PROVE  /\ MarkStep(p, f, g).reordered <=> (g \in DOMAIN p.groupOrders \/ HitsAt(p, f, g) # {})
           /\ (g \in DOMAIN p.groupOrders \/ HitsAt(p, f, g) # {}) => g \in MarkStep(p, f, g).touched
           /\ \A i \in VisitedAt(p, f, g) :
                 f[p.plugin.kids[g][i]].touched \subseteq MarkStep(p, f, g).touched
           /\ \A y \in MarkStep(p, f, g).touched :
                 \/ y = g /\ MarkStep(p, f, g).reordered
                 \/ \E i \in VisitedAt(p, f, g) : y \in f[p.plugin.kids[g][i]].touched
<1>. DEFINE kids    == p.plugin.kids[g]
            visited == VisitedAt(p, f, g)
            here    == g \in DOMAIN p.groupOrders \/ HitsAt(p, f, g) # {}
            below   == UNION {f[kids[i]].touched : i \in visited}
            m       == MarkStep(p, f, g)
<1>1. m = [reordered |-> here, touched |-> below \union (IF here THEN {g} ELSE {})]
  BY DEF MarkStep, VisitedAt, HitsAt, SubsAt
<1>2. \A i \in visited : f[kids[i]].touched \subseteq below
  OBVIOUS
<1>3. here <=> (g \in DOMAIN p.groupOrders \/ HitsAt(p, f, g) # {})
  OBVIOUS
<1>. HIDE DEF m, below, here
<1>4. m.touched = below \union (IF here THEN {g} ELSE {})
  BY <1>1
<1>5. m.reordered = here
  BY <1>1, Zenon
<1>6. here => g \in m.touched
  BY <1>4, Zenon
<1>7. below \subseteq m.touched
  BY <1>4, Zenon
<1>9. \A y \in m.touched : (y = g /\ m.reordered) \/ \E i \in visited : y \in f[kids[i]].touched
  <2>1. \A y \in below : \E i \in visited : y \in f[kids[i]].touched
    BY DEF below
  <2>2. \A y \in m.touched : y \in below \/ (here /\ y = g)
    BY <1>4, Zenon
  <2>. QED
    BY <1>5, <2>1, <2>2, Zenon
<1>. HIDE DEF visited
<1>8. \A i \in visited : f[kids[i]].touched \subseteq m.touched
  BY <1>2, <1>7
<1>. QED
  BY <1>3, <1>5, <1>6, <1>8, <1>9, Zenon DEF m, visited, kids

\* The marks: what is reordered, and what any group marks for itself.
LEMMA MarksReordered ==
    ASSUME NEW p, IsPlugin(p.plugin), PatcherOK(p), NEW g \in Groups(p.plugin)
    PROVE  /\ MarkReordered(p)[g].reordered <=> Reordered(p, g)
           /\ Reordered(p, g) => g \in MarkReordered(p)[g].touched
<1>. DEFINE t == p.plugin
            M == MarkReordered(p)
            T == {x \in Groups(t) : M[x].reordered <=> Reordered(p, x)}
            Subs(x) == SubsAt(p, x)
            Hits(x) == HitsAt(p, M, x)
<1>1. \A x \in Groups(t) : M[x] = MarkStep(p, M, x)
  BY VisitedChildren, MarkReorderedIs
<1>2. \A x \in Groups(t) :
         /\ M[x].reordered <=> (x \in DOMAIN p.groupOrders \/ Hits(x) # {})
         /\ (x \in DOMAIN p.groupOrders \/ Hits(x) # {}) => x \in M[x].touched
  <2>. HIDE DEF M
  <2>1. ASSUME NEW x
        PROVE  /\ MarkStep(p, M, x).reordered <=> (x \in DOMAIN p.groupOrders \/ Hits(x) # {})
               /\ (x \in DOMAIN p.groupOrders \/ Hits(x) # {}) => x \in MarkStep(p, M, x).touched
    BY MarkStepIs, Zenon
  <2>. HIDE DEF Hits
  <2>. QED
    BY <1>1, <2>1
<1>3. ASSUME NEW x \in Groups(t), \A s \in SubGroups(t, x) : s \in T
      PROVE  x \in T
  <2>1. \A i \in DOMAIN t.kids[x] : t.kids[x][i] \in Groups(t) => t.kids[x][i] \in SubGroups(t, x)
    BY KidsFacts
  <2>2. \A s \in SubGroups(t, x) : \E i \in Subs(x) : t.kids[x][i] = s
    BY KidsFacts DEF SubGroups, ToSet, SubsAt
  <2>3. \A s \in SubGroups(t, x) : M[s].reordered <=> Reordered(p, s)
    BY <1>3
  <2>4. Hits(x) # {} <=> \E s \in SubGroups(t, x) : Reordered(p, s)
    <3>1. ASSUME NEW i \in Hits(x) PROVE \E s \in SubGroups(t, x) : Reordered(p, s)
      BY <2>1, <2>3 DEF HitsAt, SubsAt
    <3>2. ASSUME NEW s \in SubGroups(t, x), Reordered(p, s) PROVE Hits(x) # {}
      <4>1. PICK i \in Subs(x) : t.kids[x][i] = s
        BY <2>2
      <4>2. M[t.kids[x][i]].reordered
        BY <2>3, <3>2, <4>1
      <4>. QED
        BY <4>1, <4>2 DEF HitsAt
    <3>. QED
      BY <3>1, <3>2
  <2>. QED
    BY <1>2, <2>4, ReorderedIs
<1>4. Groups(t) \subseteq T
  <2>. HIDE DEF T
  <2>1. \A x \in Groups(t) : (\A s \in SubGroups(t, x) : s \in T) => x \in T
    BY <1>3
  <2>. QED
    BY <2>1, TreeInduction
<1>5. M[g].reordered <=> Reordered(p, g)
  BY <1>4
<1>. QED
  BY <1>2, <1>5

\* What a group marks lies below it, and so does everything in between.
LEMMA MarksAreClosed ==
    ASSUME NEW p, IsPlugin(p.plugin), PatcherOK(p), NEW g \in Groups(p.plugin),
           NEW y \in MarkReordered(p)[g].touched
    PROVE  /\ y \in Below(p.plugin)[g] /\ MarkReordered(p)[g].reordered
           /\ \A z \in Below(p.plugin)[g] :
                 y \in Below(p.plugin)[z] => z \in MarkReordered(p)[g].touched
<1>. DEFINE t == p.plugin
            B == Below(t)
            M == MarkReordered(p)
            Between(x, n) == /\ n \in B[x] /\ M[x].reordered
                             /\ \A z \in B[x] : n \in B[z] => z \in M[x].touched
            T == {x \in Groups(t) : \A n \in M[x].touched : Between(x, n)}
<1>1. \A x \in Groups(t) : M[x] = MarkStep(p, M, x)
  BY VisitedChildren, MarkReorderedIs
<1>2. ASSUME NEW x \in Groups(t), \A s \in SubGroups(t, x) : s \in T
      PROVE  x \in T
  <2>. SUFFICES ASSUME NEW n \in M[x].touched PROVE Between(x, n)
    OBVIOUS
  <2>. DEFINE kids    == t.kids[x]
              hits    == HitsAt(p, M, x)
              visited == VisitedAt(p, M, x)
  <2>1. /\ M[x].reordered <=> (x \in DOMAIN p.groupOrders \/ hits # {})
        /\ M[x].reordered => x \in M[x].touched
        /\ \A i \in visited : M[kids[i]].touched \subseteq M[x].touched
        /\ (n = x /\ M[x].reordered) \/ \E i \in visited : n \in M[kids[i]].touched
    <3>. HIDE DEF M
    <3>1. M[x] = MarkStep(p, M, x)
      BY <1>1
    <3>2. /\ MarkStep(p, M, x).reordered <=> (x \in DOMAIN p.groupOrders \/ hits # {})
          /\ (x \in DOMAIN p.groupOrders \/ hits # {}) => x \in MarkStep(p, M, x).touched
          /\ \A i \in visited : M[kids[i]].touched \subseteq MarkStep(p, M, x).touched
          /\ \A m \in MarkStep(p, M, x).touched :
                (m = x /\ MarkStep(p, M, x).reordered) \/ \E i \in visited : m \in M[kids[i]].touched
      BY MarkStepIs, Zenon
    <3>. HIDE DEF hits, visited, kids
    <3>. QED
      BY <3>1, <3>2
  <2>2. /\ x \in B[x]
        /\ \A s \in SubGroups(t, x) : s \in Groups(t) /\ B[s] \subseteq B[x]
        /\ \A z \in B[x] : z # x => \E s \in SubGroups(t, x) : z \in B[s]
    BY BelowSubGroup
  <2>3. CASE n = x /\ M[x].reordered
    <3>1. ASSUME NEW z \in B[x], x \in B[z] PROVE z = x
      <4>. SUFFICES ASSUME z # x PROVE FALSE
        OBVIOUS
      <4>1. PICK s \in SubGroups(t, x) : z \in B[s]
        BY <2>2
      <4>2. x \in B[s]
        BY <2>2, <3>1, <4>1, BelowTransitive
      <4>3. s \in Nodes(t) /\ x \in NodesIn(t, s) /\ s \in ToSet(t.kids[x]) /\ x \in Nodes(t)
        BY <2>2, <4>2 DEF Nodes, NodesIn, SubGroups
      <4>4. t.start[s] <= t.start[x]
        BY <4>3, NodesInRange
      <4>5. t.start[x] + 1 <= t.start[s]
        BY <4>3 DEF IsPlugin, Within
      <4>6. t.start[s] \in Int /\ t.start[x] \in Int
        BY <4>3 DEF IsPlugin
      <4>. QED
        BY <4>4, <4>5, <4>6
    <3>. QED
      BY <2>1, <2>2, <2>3, <3>1
  <2>4. ASSUME NEW i \in visited, n \in M[kids[i]].touched PROVE Between(x, n)
    <3>1. i \in 1..Len(kids) /\ kids[i] \in SubGroups(t, x) /\ i \in SubsAt(p, x)
      BY KidsFacts DEF VisitedAt, SubsAt
    <3>2. Between(kids[i], n)
      BY <1>2, <2>4, <3>1
    <3>3. i \in hits
      BY <3>1, <3>2 DEF HitsAt
    <3>4. M[x].reordered /\ x \in M[x].touched
      BY <2>1, <3>3
    <3>5. ASSUME NEW z \in B[x], n \in B[z] PROVE z \in M[x].touched
      <4>1. CASE z = x
        BY <3>4, <4>1
      <4>2. CASE z # x
        <5>1. PICK s \in SubGroups(t, x) : z \in B[s]
          BY <2>2, <4>2
        <5>2. n \in B[s] /\ n \in B[kids[i]] /\ s \in Groups(t) /\ kids[i] \in Groups(t)
          BY <2>2, <3>1, <3>2, <3>5, <5>1, BelowTransitive
        <5>3. PICK j \in 1..Len(kids) : kids[j] = s
          BY KidsFacts DEF SubGroups, ToSet
        <5>4. n \in NodesIn(t, kids[i]) /\ n \in NodesIn(t, kids[j])
          BY <5>2, <5>3 DEF NodesIn
        <5>5. kids \in Seq(Nodes(t)) /\ OneBehindTheOther(t, kids)
          BY KidsFacts DEF IsPlugin
        <5>6. i = j
          <6>. HIDE DEF kids
          <6>. QED
            BY <3>1, <5>4, <5>5, SiblingsDisjoint
        <5>. QED
          BY <2>1, <3>2, <3>5, <5>1, <5>3, <5>6
      <4>. QED
        BY <4>1, <4>2
    <3>. QED
      BY <2>2, <3>1, <3>2, <3>4, <3>5
  <2>. HIDE DEF Between
  <2>. QED
    BY <2>1, <2>3, <2>4
<1>3. Groups(t) \subseteq T
  <2>. HIDE DEF T
  <2>. QED
    BY <1>2, TreeInduction
<1>. QED
  BY <1>3

(***************************************************************************)
(* Streams that hold a part of the tree.                                   *)
(***************************************************************************)

\* The pieces a plugin may be written with.
Bodies == Replacements \union {SourceBody}
Pieces(t) ==
    {x \in [kind : {"record", "group"}, node : Nodes(t), body : Bodies, size : Nat] :
        /\ x.kind = "record" <=> x.node \in Records(t)
        /\ x.kind = "record" => x.size # 0}

\* The nodes of the stream are S, each of them once.
HoldsNodes(s, S) ==
    /\ \A i \in 1..Len(s) : s[i].node \in S
    /\ \A n \in S : \E i \in 1..Len(s) : s[i].node = n
    /\ \A i, j \in 1..Len(s) : s[i].node = s[j].node => i = j

\* The nodes S as children of r and in the tree's nesting, if none of the
\* groups is too long: L are those whose size is cut off.
Good(t, s, r, S, L) ==
    /\ s \in Seq(Pieces(t))
    /\ Closed(s) /\ HoldsNodes(s, S)
    /\ Readable(t, s, r) <=> L = {}
    /\ L = {} => ReachesEnd(t, s, r)

\* Of the groups A, those that V writes longer than a u32 can say.
TooLong(V, A) == {h \in A : ~(StreamLen(V[h]) < U32)}

\* Every such piece has a length.
LEMMA PiecesWeighted ==
    ASSUME NEW t
    PROVE  Weighted(Pieces(t))
BY DEF Weighted, Pieces, PieceLen

\* Streams with different nodes behind each other.
LEMMA HoldsConcat ==
    ASSUME NEW P, NEW a \in Seq(P), NEW b \in Seq(P), NEW S, NEW R, S \intersect R = {},
           HoldsNodes(a, S), HoldsNodes(b, R)
    PROVE  HoldsNodes(a \o b, S \union R)
<1>. DEFINE c == a \o b
<1>1. /\ Len(c) = Len(a) + Len(b)
      /\ \A i \in 1..Len(a) : c[i] = a[i]
      /\ \A i \in 1..Len(b) : c[Len(a) + i] = b[i]
      /\ Len(a) \in Nat /\ Len(b) \in Nat
  BY ConcatAt
<1>. HIDE DEF c
<1>2. \A k \in 1..Len(c) : \/ k \in 1..Len(a) /\ c[k] = a[k]
                           \/ \E i \in 1..Len(b) : k = Len(a) + i /\ c[k] = b[i]
  <2>1. \A k \in 1..Len(c) : k \in 1..Len(a) \/ (k - Len(a) \in 1..Len(b) /\ k = Len(a) + (k - Len(a)))
    BY <1>1
  <2>. QED
    BY <1>1, <2>1
<1>3. /\ \A i \in 1..Len(a) : i \in 1..Len(c)
      /\ \A i \in 1..Len(b) : Len(a) + i \in 1..Len(c)
  BY <1>1
<1>4. /\ \A i \in 1..Len(a) : a[i].node \in S
      /\ \A i \in 1..Len(b) : b[i].node \in R
  BY DEF HoldsNodes
<1>5. ASSUME NEW k \in 1..Len(c) PROVE c[k].node \in S \union R
  BY <1>2, <1>4
<1>6. ASSUME NEW n \in S \union R PROVE \E i \in 1..Len(c) : c[i].node = n
  <2>1. CASE n \in S
    <3>1. PICK i \in 1..Len(a) : a[i].node = n
      BY <2>1 DEF HoldsNodes
    <3>. QED
      BY <1>1, <1>3, <3>1
  <2>2. CASE n \in R
    <3>1. PICK i \in 1..Len(b) : b[i].node = n
      BY <2>2 DEF HoldsNodes
    <3>. QED
      BY <1>1, <1>3, <3>1
  <2>. QED
    BY <2>1, <2>2
<1>7. ASSUME NEW k \in 1..Len(c), NEW m \in 1..Len(c), c[k].node = c[m].node PROVE k = m
  <2>1. CASE c[k].node \in S
    <3>1. k \in 1..Len(a) /\ c[k] = a[k]
      BY <1>2, <1>4, <2>1
    <3>2. m \in 1..Len(a) /\ c[m] = a[m]
      BY <1>2, <1>4, <1>7, <2>1
    <3>. QED
      BY <1>7, <3>1, <3>2 DEF HoldsNodes
  <2>2. CASE c[k].node \notin S
    <3>1. PICK i \in 1..Len(b) : k = Len(a) + i /\ c[k] = b[i]
      BY <1>2, <1>4, <2>2
    <3>2. PICK j \in 1..Len(b) : m = Len(a) + j /\ c[m] = b[j]
      BY <1>2, <1>4, <1>7, <2>2
    <3>. QED
      BY <1>7, <3>1, <3>2 DEF HoldsNodes
  <2>. QED
    BY <2>1, <2>2
<1>. QED
  BY <1>5, <1>6, <1>7 DEF HoldsNodes, c

\* Two parts of the tree.
LEMMA GoodConcat ==
    ASSUME NEW t, NEW r, NEW a, NEW b, NEW S, NEW R, S \intersect R = {}, NEW K, NEW L,
           Good(t, a, r, S, K), Good(t, b, r, R, L)
    PROVE  Good(t, a \o b, r, S \union R, K \union L)
<1>1. a \in Seq(Pieces(t)) /\ b \in Seq(Pieces(t))
  BY DEF Good
<1>2. /\ Closed(a) /\ Closed(b) /\ HoldsNodes(a, S) /\ HoldsNodes(b, R)
      /\ Readable(t, a, r) <=> K = {}
      /\ Readable(t, b, r) <=> L = {}
      /\ K = {} => ReachesEnd(t, a, r)
      /\ L = {} => ReachesEnd(t, b, r)
  BY DEF Good
<1>. DEFINE P == Pieces(t)
<1>. HIDE DEF P
<1>3. Weighted(P) /\ a \in Seq(P) /\ b \in Seq(P)
  BY <1>1, PiecesWeighted DEF P
<1>4. a \o b \in Seq(P)
  BY <1>3, ConcatAt
<1>5. Closed(a \o b)
  BY <1>2, <1>3, EnclosesConcat
<1>6. Readable(t, a \o b, r) <=> Readable(t, a, r) /\ Readable(t, b, r)
  BY <1>2, <1>3, ReadableConcat
<1>7. HoldsNodes(a \o b, S \union R)
  BY <1>2, <1>3, HoldsConcat
<1>8. K \union L = {} <=> K = {} /\ L = {}
  OBVIOUS
<1>9. ReachesEnd(t, a, r) /\ ReachesEnd(t, b, r) => ReachesEnd(t, a \o b, r)
  BY <1>3, EndConcat
<1>10. /\ Readable(t, a \o b, r) <=> K \union L = {}
       /\ K \union L = {} => ReachesEnd(t, a \o b, r)
  BY <1>2, <1>6, <1>8, <1>9
<1>. QED
  BY <1>4, <1>5, <1>7, <1>10 DEF Good, P

\* Any number of parts, with no node in two of them.
GoodParts(t, r, N, e, S, L) ==
    /\ N \in Nat
    /\ \A i \in 1..N : Good(t, e[i], r, S[i], L[i])
    /\ \A i, j \in 1..N : i # j => S[i] \intersect S[j] = {}

\* They are flattened to one.
LEMMA GoodFlatten ==
    ASSUME NEW t, NEW r, NEW N, NEW e, NEW S, NEW L, GoodParts(t, r, N, e, S, L)
    PROVE  Good(t, FlattenSeq([i \in 1..N |-> e[i]]), r,
                UNION {S[i] : i \in 1..N}, UNION {L[i] : i \in 1..N})
<1>0. /\ N \in Nat
      /\ \A i \in 1..N : Good(t, e[i], r, S[i], L[i])
      /\ \A i, j \in 1..N : i # j => S[i] \intersect S[j] = {}
  BY DEF GoodParts
<1>. USE <1>0
<1>. DEFINE flat(n) == FlattenSeq([i \in 1..n |-> e[i]])
            all(n) == UNION {S[i] : i \in 1..n}
            long(n) == UNION {L[i] : i \in 1..n}
            T == {n \in 0..N : Good(t, flat(n), r, all(n), long(n))}
<1>1. 0 \in T
  <2>1. flat(0) = <<>>
    BY FlattenNone
  <2>2. (\A n : n \notin all(0)) /\ long(0) = {}
    OBVIOUS
  <2>3. <<>> \in Seq(Pieces(t)) /\ Len(<<>>) = 0
    OBVIOUS
  <2>4. Readable(t, <<>>, r)
    BY <2>3 DEF Readable, Nested, Contained
  <2>5. ReachesEnd(t, <<>>, r)
    <3>1. LengthUpTo(<<>>)[0] = 0
      BY <2>3, LengthRecursion
    <3>. QED
      BY <2>3, <3>1 DEF ReachesEnd, StreamLen
  <2>6. Closed(<<>>) /\ HoldsNodes(<<>>, all(0))
    BY <2>2, <2>3 DEF Closed, HoldsNodes
  <2>. HIDE DEF all, long
  <2>7. Good(t, <<>>, r, all(0), long(0))
    BY <2>2, <2>3, <2>4, <2>5, <2>6 DEF Good
  <2>. HIDE DEF flat
  <2>. QED
    BY <2>1, <2>7
<1>2. ASSUME NEW n \in 0..(N - 1), n \in T PROVE n + 1 \in T
  <2>. DEFINE P == Pieces(t)
  <2>1. \A i \in 1..(n + 1) : i \in 1..N
    OBVIOUS
  <2>2. \A i \in 1..(n + 1) : e[i] \in Seq(P)
    BY <2>1 DEF Good
  <2>3. flat(n + 1) = flat(n) \o e[n + 1]
    <3>. HIDE DEF P
    <3>1. n \in Nat
      OBVIOUS
    <3>. QED
      BY <2>2, <3>1, FlattenNext
  <2>4. n + 1 \in 1..N /\ n + 1 \in 0..N
    OBVIOUS
  <2>5. all(n + 1) = all(n) \union S[n + 1] /\ long(n + 1) = long(n) \union L[n + 1]
    <3>1. \A i \in 1..(n + 1) : i \in 1..n \/ i = n + 1
      OBVIOUS
    <3>2. 1..n \subseteq 1..(n + 1) /\ n + 1 \in 1..(n + 1)
      OBVIOUS
    <3>3. all(n + 1) = all(n) \union S[n + 1]
      BY <3>1, <3>2
    <3>4. long(n + 1) = long(n) \union L[n + 1]
      BY <3>1, <3>2
    <3>. QED
      BY <3>3, <3>4
  <2>6. all(n) \intersect S[n + 1] = {}
    <3>1. \A i \in 1..n : i \in 1..N /\ i # n + 1
      OBVIOUS
    <3>. QED
      BY <2>4, <3>1
  <2>. HIDE DEF flat, all, long
  <2>7. Good(t, flat(n), r, all(n), long(n))
    BY <1>2
  <2>8. Good(t, e[n + 1], r, S[n + 1], L[n + 1])
    BY <2>4
  <2>9. Good(t, flat(n) \o e[n + 1], r, all(n) \union S[n + 1], long(n) \union L[n + 1])
    BY <2>6, <2>7, <2>8, GoodConcat
  <2>. QED
    BY <2>3, <2>4, <2>5, <2>9
<1>3. \A n \in 0..N : n \in T
  <2>. HIDE DEF T
  <2>. QED
    BY <1>1, <1>2, UpToInduction
<1>4. Good(t, flat(N), r, all(N), long(N))
  <2>1. N \in 0..N
    OBVIOUS
  <2>. QED
    BY <1>3, <2>1
<1>. QED
  BY <1>4

\* A record that is a child of g.
LEMMA GoodRecord ==
    ASSUME NEW t, IsPlugin(t), NEW g \in Groups(t), NEW n \in OwnRecords(t, g), NEW body \in Bodies
    PROVE  Good(t, <<RecordPiece(n, body)>>, g, NodesIn(t, n), {})
<1>. DEFINE x == RecordPiece(n, body)
            s == <<x>>
<1>1. n \in ToSet(t.kids[g]) /\ n \in Records(t) /\ n \in Nodes(t) /\ n \notin Groups(t)
  BY DEF OwnRecords, Nodes, IsPlugin
<1>2. body.len \in Nat \ {0}
  BY PatcherAssumption DEF Bodies, SourceBody
<1>3. x \in Pieces(t) /\ x.kind = "record" /\ x.node = n /\ x.size \in Nat /\ PieceLen(x) = x.size
  BY <1>1, <1>2 DEF RecordPiece, Pieces, PieceLen
<1>4. NodesIn(t, n) = {n}
  BY <1>1 DEF NodesIn
<1>5. ParentOf(t, n) = g
  BY <1>1, ParentIs
<1>. HIDE DEF x
<1>6. s \in Seq(Pieces(t)) /\ Len(s) = 1 /\ s[1] = x
  BY <1>3
<1>. HIDE DEF s
<1>7. (\A i \in 1..Len(s) : i = 1) /\ 1 \in 1..Len(s)
  BY <1>6
<1>8. Offset(s, 1) = 0 /\ StreamLen(s) = x.size
  <2>1. LengthUpTo(s)[0] = 0 /\ LengthUpTo(s)[1] = LengthUpTo(s)[1 - 1] + PieceLen(s[1])
    BY <1>6, <1>7, LengthRecursion
  <2>2. 1 - 1 = 0
    OBVIOUS
  <2>. QED
    BY <1>3, <1>6, <2>1, <2>2 DEF Offset, StreamLen
<1>9. Closed(s)
  BY <1>3, <1>6, <1>7, <1>8 DEF Closed
<1>10. Readable(t, s, g)
  <2>1. NestedAt(t, s, g, 1)
    BY <1>3, <1>5, <1>6 DEF NestedAt
  <2>2. \A i, j \in 1..Len(s) : ~Encloses(s, i, j)
    BY <1>3, <1>6, <1>7 DEF Encloses
  <2>. QED
    BY <1>7, <2>1, <2>2 DEF Readable, Nested, Contained
<1>11. ReachesEnd(t, s, g)
  BY <1>3, <1>5, <1>6, <1>7, <1>8 DEF ReachesEnd
<1>12. HoldsNodes(s, {n})
  BY <1>3, <1>6, <1>7 DEF HoldsNodes
<1>. QED
  BY <1>4, <1>6, <1>9, <1>10, <1>11, <1>12 DEF Good, s, x

\* The children of g, each once and in any order, with what they are written
\* as and which groups among them are too long.
GoodKids(t, g, list, e, L) ==
    /\ list \in Seq(Nodes(t)) /\ Injective(list)
    /\ \A n : In(list, n) <=> In(t.kids[g], n)
    /\ \A i \in 1..Len(list) : Good(t, e[i], g, NodesIn(t, list[i]), L[i])

GroupOf(g, list, e) == WithGroupHeader(g, FlattenSeq([i \in 1..Len(list) |-> e[i]]))
LongIn(g, w, list, L) ==
    (IF StreamLen(w) < U32 THEN {} ELSE {g}) \union UNION {L[i] : i \in 1..Len(list)}

\* The group with them.
LEMMA GoodGroup ==
    ASSUME NEW t, IsPlugin(t), NEW g \in Groups(t), NEW list, NEW e, NEW L,
           GoodKids(t, g, list, e, L), NEW w, w = GroupOf(g, list, e)
    PROVE  Good(t, w, ParentOf(t, g), NodesIn(t, g), LongIn(g, w, list, L))
<1>0. /\ list \in Seq(Nodes(t)) /\ Injective(list)
      /\ \A n : In(list, n) <=> In(t.kids[g], n)
      /\ \A i \in 1..Len(list) : Good(t, e[i], g, NodesIn(t, list[i]), L[i])
  BY DEF GoodKids
<1>. USE <1>0
<1>. DEFINE kids == t.kids[g]
            S == [i \in 1..Len(list) |-> NodesIn(t, list[i])]
            s == FlattenSeq([i \in 1..Len(list) |-> e[i]])
<1>1. kids \in Seq(Nodes(t)) /\ Len(kids) \in Nat /\ DOMAIN kids = 1..Len(kids)
  BY KidsFacts
<1>2. Len(list) \in Nat
  OBVIOUS
<1>3. ASSUME NEW i \in 1..Len(list), NEW j \in 1..Len(list), i # j
      PROVE  S[i] \intersect S[j] = {}
  <2>1. In(list, list[i]) /\ In(list, list[j])
    BY DEF In
  <2>2. PICK a \in 1..Len(kids) : kids[a] = list[i]
    BY <2>1 DEF In
  <2>3. PICK b \in 1..Len(kids) : kids[b] = list[j]
    BY <2>1 DEF In
  <2>4. list[i] # list[j]
    BY <1>3 DEF Injective
  <2>5. a # b
    BY <2>2, <2>3, <2>4
  <2>6. OneBehindTheOther(t, kids)
    BY DEF IsPlugin
  <2>. HIDE DEF kids
  <2>7. NodesIn(t, kids[a]) \intersect NodesIn(t, kids[b]) = {}
    BY <1>1, <2>5, <2>6, SiblingsDisjoint
  <2>. QED
    BY <2>2, <2>3, <2>7
<1>4. \A i \in 1..Len(list) : Good(t, e[i], g, S[i], L[i])
  OBVIOUS
<1>5. UNION {S[i] : i \in 1..Len(list)} = UNION {NodesIn(t, n) : n \in ToSet(kids)}
  <2>1. \A n : n \in ToSet(kids) <=> \E i \in 1..Len(list) : list[i] = n
    BY <1>1 DEF In, ToSet
  <2>2. \A i \in 1..Len(list) : S[i] = NodesIn(t, list[i])
    OBVIOUS
  <2>. HIDE DEF S, kids
  <2>. QED
    BY <2>1, <2>2
<1>. DEFINE long == UNION {L[i] : i \in 1..Len(list)}
<1>6. Good(t, s, g, UNION {S[i] : i \in 1..Len(list)}, long)
  <2>. DEFINE N == Len(list)
  <2>1. N \in Nat
    BY <1>2
  <2>. HIDE DEF S, N
  <2>2. GoodParts(t, g, N, e, S, L)
    BY <1>3, <1>4, <2>1 DEF N, GoodParts
  <2>3. Good(t, FlattenSeq([i \in 1..N |-> e[i]]), g,
             UNION {S[i] : i \in 1..N}, UNION {L[i] : i \in 1..N})
    BY <2>2, GoodFlatten
  <2>. QED
    BY <2>3 DEF N
<1>. DEFINE inside == UNION {NodesIn(t, n) : n \in ToSet(kids)}
            x == GroupPiece(g, (1 + StreamLen(s)) % U32)
            P == Pieces(t)
<1>. HIDE DEF s, S, long
<1>7. /\ s \in Seq(P) /\ Closed(s) /\ HoldsNodes(s, inside)
      /\ Readable(t, s, g) <=> long = {}
      /\ long = {} => ReachesEnd(t, s, g)
  BY <1>5, <1>6 DEF Good
<1>8. Weighted(P)
  BY PiecesWeighted
<1>9. StreamLen(s) \in Nat
  <2>. HIDE DEF P
  <2>. QED
    BY <1>7, <1>8, OffsetsConcat
<1>10. x \in P /\ x.node = g
  <2>1. 1 + StreamLen(s) \in Nat
    BY <1>9
  <2>2. (1 + StreamLen(s)) % U32 \in Nat
    BY <2>1, CastFacts
  <2>. QED
    BY <2>2 DEF GroupPiece, Pieces, Nodes, Bodies, IsPlugin
<1>. DEFINE c == WithGroupHeader(g, s)
<1>11. c \in Seq(P) /\ HeaderAndChildren(g, s, c)
  <2>. HIDE DEF P, c
  <2>1. GroupPiece(g, (1 + StreamLen(s)) % U32) \in P
    BY <1>10
  <2>. HIDE DEF x
  <2>. QED
    BY <1>7, <1>8, <2>1, GroupPlaces DEF c
<1>12. g \notin inside
  <2>1. ASSUME NEW n \in ToSet(kids), g \in NodesIn(t, n) PROVE FALSE
    <3>1. n \in Nodes(t) /\ g \in Nodes(t)
      BY <1>1 DEF ToSet, Nodes
    <3>2. t.start[n] <= t.start[g]
      BY <2>1, <3>1, NodesInRange
    <3>3. t.start[g] + 1 <= t.start[n]
      BY DEF IsPlugin, Within
    <3>4. t.start[g] \in Int /\ t.start[n] \in Int
      BY <3>1 DEF IsPlugin
    <3>. QED
      BY <3>2, <3>3, <3>4
  <2>. QED
    BY <2>1
<1>13. HoldsNodes(<<x>>, {g})
  BY <1>10 DEF HoldsNodes
<1>14. HoldsNodes(c, NodesIn(t, g))
  <2>1. NodesIn(t, g) = {g} \union inside
    BY NodesInGroup
  <2>2. {g} \intersect inside = {}
    BY <1>12
  <2>3. c = <<x>> \o s
    BY DEF WithGroupHeader
  <2>4. <<x>> \in Seq(P)
    BY <1>10
  <2>. HIDE DEF c, P, inside, x
  <2>5. HoldsNodes(<<x>> \o s, {g} \union inside)
    BY <1>7, <1>13, <2>2, <2>4, HoldsConcat
  <2>. QED
    BY <2>1, <2>3, <2>5
<1>15. StreamLen(c) = 1 + StreamLen(s) /\ Closed(c)
  <2>. HIDE DEF c
  <2>. QED
    BY <1>7, <1>11, GroupClosed DEF HeaderAndChildren
<1>16. \A j \in 1..Len(s) : s[j].node # g /\ ParentOf(t, s[j].node) # ParentOf(t, g)
  <2>1. \A j \in 1..Len(s) : s[j].node \in inside
    BY <1>7 DEF HoldsNodes
  <2>2. inside \subseteq NodesIn(t, g)
    BY NodesInGroup
  <2>. HIDE DEF inside
  <2>. QED
    BY <1>12, <2>1, <2>2, ParentsInside
<1>17. ASSUME long = {}, StreamLen(c) < U32
       PROVE  Readable(t, c, ParentOf(t, g)) /\ ReachesEnd(t, c, ParentOf(t, g))
  <2>. HIDE DEF c
  <2>. QED
    BY <1>7, <1>11, <1>15, <1>17, FittingGroup
<1>18. ASSUME Readable(t, c, ParentOf(t, g))
       PROVE  long = {} /\ StreamLen(c) < U32
  <2>. HIDE DEF c
  <2>. QED
    BY <1>7, <1>11, <1>15, <1>16, <1>18, ReadableGroupFits
<1>. DEFINE L2 == (IF StreamLen(c) < U32 THEN {} ELSE {g}) \union long
<1>19. L2 = {} <=> long = {} /\ StreamLen(c) < U32
  <2>. HIDE DEF c
  <2>. QED
    OBVIOUS
<1>20. Good(t, c, ParentOf(t, g), NodesIn(t, g), L2)
  <2>. HIDE DEF c, L2, P
  <2>1. c \in Seq(Pieces(t))
    BY <1>11 DEF P
  <2>. QED
    BY <1>14, <1>15, <1>17, <1>18, <1>19, <2>1 DEF Good
<1>21. w = c
  BY DEF s, GroupOf
<1>. QED
  BY <1>20, <1>21 DEF long, LongIn

\* The source of a group holds what is in the group, and every size in it fits.
LEMMA VerbatimGood ==
    ASSUME NEW t \in Plugins, IsPlugin(t), NEW g \in Groups(t)
    PROVE  Good(t, Verbatim(t)[g], ParentOf(t, g), NodesIn(t, g), {})
<1>. DEFINE T == {h \in Groups(t) : Good(t, Verbatim(t)[h], ParentOf(t, h), NodesIn(t, h), {})}
<1>1. ASSUME NEW h \in Groups(t), \A s \in SubGroups(t, h) : s \in T PROVE h \in T
  <2>. DEFINE list == t.kids[h]
              e == [i \in 1..Len(list) |->
                      LET n == list[i]
                      IN  IF n \in Groups(t) THEN Verbatim(t)[n] ELSE <<RecordPiece(n, SourceBody)>>]
              L == [i \in 1..Len(list) |-> {}]
  <2>1. Verbatim(t)[h] = WithGroupHeader(h, FlattenSeq(e))
    BY VerbatimIs DEF CopyStep
  <2>2. list \in Seq(Nodes(t)) /\ Injective(list)
    BY KidsFacts
  <2>3. ASSUME NEW i \in 1..Len(list) PROVE Good(t, e[i], h, NodesIn(t, list[i]), L[i])
    <3>1. CASE list[i] \in Groups(t)
      <4>1. list[i] \in SubGroups(t, h) /\ list[i] \in ToSet(t.kids[h])
        BY <3>1, KidsFacts
      <4>2. Good(t, Verbatim(t)[list[i]], ParentOf(t, list[i]), NodesIn(t, list[i]), {})
        BY <1>1, <4>1
      <4>3. ParentOf(t, list[i]) = h
        BY <4>1, ParentIs
      <4>. QED
        BY <3>1, <4>2, <4>3
    <3>2. CASE list[i] \notin Groups(t)
      <4>1. list[i] \in OwnRecords(t, h) /\ SourceBody \in Bodies
        BY <3>2, KidsFacts DEF Bodies
      <4>2. e[i] = <<RecordPiece(list[i], SourceBody)>> /\ L[i] = {}
        BY <3>2
      <4>. HIDE DEF list, e, L
      <4>. QED
        BY <4>1, <4>2, GoodRecord
    <3>. QED
      BY <3>1, <3>2
  <2>4. [i \in 1..Len(list) |-> e[i]] = e /\ UNION {L[i] : i \in 1..Len(list)} = {}
    OBVIOUS
  <2>5. \A n : In(list, n) <=> In(t.kids[h], n)
    OBVIOUS
  <2>6. StreamLen(Verbatim(t)[h]) < U32
    BY SourceAssumption
  <2>. DEFINE w == Verbatim(t)[h]
  <2>. HIDE DEF list, e, L, w
  <2>7. w = GroupOf(h, list, e)
    BY <2>1, <2>4 DEF w, GroupOf
  <2>8. GoodKids(t, h, list, e, L)
    BY <2>2, <2>3, <2>5 DEF GoodKids
  <2>9. Good(t, w, ParentOf(t, h), NodesIn(t, h), LongIn(h, w, list, L))
    BY <2>7, <2>8, GoodGroup
  <2>10. LongIn(h, w, list, L) = {}
    BY <2>4, <2>6 DEF w, LongIn
  <2>. QED
    BY <2>9, <2>10 DEF w
<1>2. Groups(t) \subseteq T
  <2>. HIDE DEF T
  <2>. QED
    BY <1>1, TreeInduction
<1>. QED
  BY <1>2

\* The groups around a touched group are touched.
ClosedUpwards(t, touched) ==
    \A g \in Groups(t) : \A h \in Below(t)[g] : h \in touched => g \in touched

\* What write_group makes of a group holds what is in it too; its sizes fit
\* unless a walked group becomes too long.
LEMMA WriteGroupGood ==
    ASSUME NEW p, IsPlugin(p.plugin), PatcherOK(p), NEW touched,
           ClosedUpwards(p.plugin, touched), NEW g \in Groups(p.plugin)
    PROVE  Good(p.plugin, WriteGroup(p, touched)[g], ParentOf(p.plugin, g), NodesIn(p.plugin, g),
                TooLong(WriteGroup(p, touched), Below(p.plugin)[g]))
<1>. DEFINE t == p.plugin
            W == WriteGroup(p, touched)
            long(h) == TooLong(W, Below(t)[h])
            T == {h \in Groups(t) : Good(t, W[h], ParentOf(t, h), NodesIn(t, h), long(h))}
<1>0. VisitsChildren(p) /\ t \in Plugins /\ IsPlugin(t)
  BY VisitedChildren DEF PatcherOK
<1>1. ASSUME NEW h \in Groups(t), \A s \in SubGroups(t, h) : s \in T PROVE h \in T
  <2>. DEFINE list == Visited(p, h)
              e == [i \in 1..Len(list) |->
                      LET n == list[i]
                      IN  IF n \in Groups(t) THEN W[n] ELSE <<WriteRecord(p, n)>>]
              L == [i \in 1..Len(list) |-> IF list[i] \in Groups(t) THEN long(list[i]) ELSE {}]
  <2>0. \A x \in Groups(t) : W[x] = WriteStep(p, touched, W, x)
    BY <1>0, WriteGroupIs
  <2>1. CASE h \notin touched
    <3>1. \A x \in Groups(t) : x \notin touched => W[x] = Verbatim(t)[x]
      BY <2>0 DEF WriteStep
    <3>2. \A x \in Below(t)[h] : x \in Groups(t) /\ x \notin touched
      BY <2>1, BelowTransitive DEF ClosedUpwards
    <3>3. \A x \in Groups(t) : StreamLen(Verbatim(t)[x]) < U32
      BY <1>0, SourceAssumption
    <3>. HIDE DEF W, t
    <3>4. long(h) = {}
      BY <3>1, <3>2, <3>3 DEF TooLong
    <3>5. Good(t, Verbatim(t)[h], ParentOf(t, h), NodesIn(t, h), {})
      BY <1>0, VerbatimGood DEF t
    <3>6. W[h] = Verbatim(t)[h]
      BY <2>1, <3>1
    <3>. QED
      BY <3>4, <3>5, <3>6
  <2>2. CASE h \in touched
    <3>1. W[h] = WithGroupHeader(h, FlattenSeq(e))
      BY <2>0, <2>2 DEF WriteStep
    <3>2. list \in Seq(Nodes(t)) /\ Injective(list) /\ \A n : In(list, n) <=> In(t.kids[h], n)
      BY VisitedFacts
    <3>3. ASSUME NEW i \in 1..Len(list) PROVE Good(t, e[i], h, NodesIn(t, list[i]), L[i])
      <4>0. list[i] \in ToSet(t.kids[h]) /\ list[i] \in Nodes(t)
        BY <1>0, <3>2 DEF VisitsChildren
      <4>1. CASE list[i] \in Groups(t)
        <5>1. list[i] \in SubGroups(t, h)
          BY <4>0, <4>1 DEF SubGroups
        <5>2. Good(t, W[list[i]], ParentOf(t, list[i]), NodesIn(t, list[i]), long(list[i]))
          BY <1>1, <5>1
        <5>3. ParentOf(t, list[i]) = h
          BY <4>0, ParentIs
        <5>4. e[i] = W[list[i]] /\ L[i] = long(list[i])
          BY <4>1
        <5>. QED
          BY <5>2, <5>3, <5>4
      <4>2. CASE list[i] \notin Groups(t)
        <5>. DEFINE f == t.form[list[i]]
                    body == IF f \in DOMAIN p.patches THEN p.patches[f] ELSE SourceBody
        <5>1. list[i] \in OwnRecords(t, h)
          BY <4>0, <4>2 DEF OwnRecords, Nodes
        <5>2. body \in Bodies
          BY DEF Bodies, PatcherOK
        <5>3. e[i] = <<RecordPiece(list[i], body)>> /\ L[i] = {}
          BY <4>2 DEF WriteRecord
        <5>. HIDE DEF list, e, L, body, t
        <5>. QED
          BY <5>1, <5>2, <5>3, GoodRecord DEF t
      <4>. QED
        BY <4>1, <4>2
    <3>4. [i \in 1..Len(list) |-> e[i]] = e
      OBVIOUS
    <3>. DEFINE w == W[h]
                all == UNION {L[i] : i \in 1..Len(list)}
    <3>5. LongIn(h, w, list, L) = long(h)
      <4>1. Below(t)[h] = {h} \union UNION {Below(t)[s] : s \in SubGroups(t, h)}
        BY BelowIs
      <4>2. ASSUME NEW x \in all
            PROVE  \E s \in SubGroups(t, h) : x \in long(s)
        <5>1. PICK i \in 1..Len(list) : x \in L[i]
          OBVIOUS
        <5>2. list[i] \in Groups(t) /\ x \in long(list[i])
          BY <5>1
        <5>3. list[i] \in SubGroups(t, h)
          BY <1>0, <5>2 DEF VisitsChildren, SubGroups
        <5>. QED
          BY <5>2, <5>3
      <4>3. ASSUME NEW s \in SubGroups(t, h) PROVE long(s) \subseteq all
        <5>1. s \in Groups(t) /\ s \in ToSet(t.kids[h])
          BY DEF SubGroups
        <5>2. In(t.kids[h], s)
          BY <5>1, KidsFacts DEF In, ToSet
        <5>3. PICK i \in 1..Len(list) : list[i] = s
          BY <3>2, <5>2 DEF In
        <5>4. L[i] = long(s)
          BY <5>1, <5>3
        <5>. QED
          BY <5>4
      <4>. HIDE DEF all, W, t
      <4>4. \A x : x \in long(h) <=> \/ x = h /\ ~(StreamLen(W[h]) < U32)
                                     \/ \E s \in SubGroups(t, h) : x \in long(s)
        BY <4>1 DEF TooLong
      <4>. HIDE DEF long
      <4>5. \A x : x \in all <=> \E s \in SubGroups(t, h) : x \in long(s)
        BY <4>2, <4>3
      <4>6. LongIn(h, w, list, L) = (IF StreamLen(w) < U32 THEN {} ELSE {h}) \union all
        BY DEF LongIn, all
      <4>. QED
        BY <4>4, <4>5, <4>6
    <3>. HIDE DEF list, e, W, L, w, t, long
    <3>6. w = GroupOf(h, list, e)
      BY <3>1, <3>4 DEF w, GroupOf
    <3>7. GoodKids(t, h, list, e, L)
      BY <3>2, <3>3 DEF GoodKids
    <3>8. Good(t, w, ParentOf(t, h), NodesIn(t, h), LongIn(h, w, list, L))
      BY <1>0, <3>6, <3>7, GoodGroup
    <3>. QED
      BY <3>5, <3>8 DEF w
  <2>. QED
    BY <2>1, <2>2
<1>2. Groups(t) \subseteq T
  <2>. HIDE DEF T
  <2>. QED
    BY <1>1, TreeInduction
<1>. QED
  BY <1>2

(***************************************************************************)
(* The whole stream.                                                       *)
(***************************************************************************)

AllNodes(t) == AllGroups(t) \union AllRecords(t)

\* The nodes of the tree are its groups and its records.
LEMMA AllNodesFacts ==
    ASSUME NEW t, IsPlugin(t)
    PROVE  /\ AllGroups(t) \subseteq Groups(t) /\ AllRecords(t) \subseteq Records(t)
           /\ AllNodes(t) = UNION {NodesIn(t, g) : g \in ToSet(t.top)}
<1>1. ToSet(t.top) \subseteq Groups(t)
  BY DEF IsPlugin, ToSet
<1>. DEFINE T == {g \in Groups(t) : Below(t)[g] \subseteq Groups(t)}
<1>2. ASSUME NEW g \in Groups(t), \A s \in SubGroups(t, g) : s \in T PROVE g \in T
  <2>1. Below(t)[g] = {g} \union UNION {Below(t)[s] : s \in SubGroups(t, g)}
    BY BelowIs
  <2>2. \A s \in SubGroups(t, g) : Below(t)[s] \subseteq Groups(t)
    BY <1>2
  <2>. QED
    BY <2>1, <2>2
<1>3. Groups(t) \subseteq T
  <2>. HIDE DEF T
  <2>. QED
    BY <1>2, TreeInduction
<1>4. AllGroups(t) \subseteq Groups(t)
  BY <1>1, <1>3 DEF AllGroups
<1>5. AllRecords(t) \subseteq Records(t)
  BY DEF AllRecords, RecordsBelow, OwnRecords
<1>6. \A g \in ToSet(t.top) : NodesIn(t, g) = Below(t)[g] \union RecordsBelow(t, g)
  BY <1>1 DEF NodesIn
<1>7. AllNodes(t) = UNION {NodesIn(t, g) : g \in ToSet(t.top)}
  BY <1>6 DEF AllNodes, AllGroups, AllRecords
<1>. QED
  BY <1>4, <1>5, <1>7

\* The top of the tree are groups.
LEMMA TopFacts ==
    ASSUME NEW t, IsPlugin(t)
    PROVE  \A g \in ToSet(t.top) : g \in Groups(t)
<1>1. t.top \in Seq(Groups(t))
  BY DEF IsPlugin
<1>2. \A i \in DOMAIN t.top : t.top[i] \in Groups(t)
  BY <1>1
<1>. QED
  BY <1>2 DEF ToSet

\* Every group is on top or in a group, so the walk from the top meets it.
LEMMA EveryGroupIsReached ==
    ASSUME NEW t, IsPlugin(t)
    PROVE  Groups(t) \subseteq AllGroups(t)
<1>. DEFINE Far == {Rank(t, g) : g \in Groups(t) \ AllGroups(t)}
<1>. SUFFICES ASSUME NEW x \in Groups(t), x \notin AllGroups(t) PROVE FALSE
  OBVIOUS
<1>1. Far \subseteq 0..t.length /\ t.length \in Nat /\ Far # {}
  BY RankType
<1>2. PICK m \in Far : \A k \in Far : k <= m
  <2>. HIDE DEF Far
  <2>. QED
    BY <1>1, GreatestElement
<1>3. PICK g \in Groups(t) \ AllGroups(t) : Rank(t, g) = m
  BY <1>2
<1>4. g \in Below(t)[g]
  BY <1>3, BelowSubGroup
<1>5. g \notin ToSet(t.top)
  BY <1>3, <1>4 DEF AllGroups
<1>6. PICK h \in Groups(t) : g \in ToSet(t.kids[h])
  BY <1>3, <1>5 DEF IsPlugin, Nodes
<1>7. g \in SubGroups(t, h)
  BY <1>3, <1>6 DEF SubGroups
<1>8. Rank(t, g) \in Nat /\ Rank(t, h) \in Nat /\ Rank(t, g) < Rank(t, h)
  BY <1>7, SubGroupRank, RankType
<1>9. h \notin AllGroups(t)
  <2>. SUFFICES ASSUME h \in AllGroups(t) PROVE FALSE
    OBVIOUS
  <2>1. PICK r \in ToSet(t.top) : h \in Below(t)[r]
    BY DEF AllGroups
  <2>2. r \in Groups(t)
    BY <2>1, TopFacts
  <2>3. Below(t)[h] \subseteq Below(t)[r]
    BY <2>1, <2>2, BelowTransitive
  <2>4. g \in Below(t)[h]
    BY <1>3, <1>4, <1>7, BelowSubGroup
  <2>. QED
    BY <1>3, <2>1, <2>3, <2>4 DEF AllGroups
<1>10. Rank(t, h) \in Far
  BY <1>9
<1>. HIDE DEF Far
<1>. QED
  BY <1>2, <1>3, <1>8, <1>10

\* The groups around a walked group are walked too.
LEMMA TouchedIsClosed ==
    ASSUME NEW p, IsPlugin(p.plugin), PatcherOK(p)
    PROVE  Touched(p) \subseteq Groups(p.plugin) /\ ClosedUpwards(p.plugin, Touched(p))
<1>. DEFINE t == p.plugin
            B == Below(t)
            M == MarkReordered(p)
<1>1. \A r \in ToSet(t.top) : r \in Groups(t)
  BY TopFacts
<1>2. \A r \in ToSet(t.top) : M[r].touched \subseteq Groups(t)
  BY <1>1, MarksAreClosed, BelowTransitive
<1>3. Touched(p) \subseteq Groups(t)
  <2>1. PatchTouched(p) \subseteq Groups(t)
    BY DEF PatchTouched
  <2>. QED
    BY <1>2, <2>1 DEF Touched
<1>4. ASSUME NEW g \in Groups(t), NEW h \in B[g], h \in Touched(p) PROVE g \in Touched(p)
  <2>1. CASE h \in PatchTouched(p)
    <3>1. RecordsBelow(t, h) \subseteq RecordsBelow(t, g)
      BY BelowTransitive
    <3>. QED
      BY <2>1, <3>1 DEF PatchTouched, Touched
  <2>2. CASE h \notin PatchTouched(p)
    <3>1. PICK r \in ToSet(t.top) : h \in M[r].touched
      BY <1>4, <2>2 DEF Touched
    <3>2. PICK q \in ToSet(t.top) : g \in B[q]
      BY EveryGroupIsReached DEF AllGroups
    <3>3. h \in B[r] /\ h \in B[q]
      BY <1>1, <3>1, <3>2, MarksAreClosed, BelowTransitive
    <3>4. r = q
      <4>. DEFINE top == t.top
      <4>1. top \in Seq(Nodes(t)) /\ OneBehindTheOther(t, top) /\ DOMAIN top = 1..Len(top)
        BY DEF IsPlugin, Nodes
      <4>2. PICK i \in DOMAIN top : top[i] = r
        BY <3>1 DEF ToSet
      <4>3. PICK j \in DOMAIN top : top[j] = q
        BY <3>2 DEF ToSet
      <4>4. h \in NodesIn(t, r) /\ h \in NodesIn(t, q)
        BY <1>1, <3>1, <3>2, <3>3 DEF NodesIn
      <4>. HIDE DEF top
      <4>. QED
        BY <4>1, <4>2, <4>3, <4>4, SiblingsDisjoint
    <3>5. g \in M[r].touched
      BY <1>1, <3>1, <3>2, <3>4, MarksAreClosed
    <3>. QED
      BY <3>1, <3>5 DEF Touched
  <2>. QED
    BY <2>1, <2>2
<1>. QED
  BY <1>3, <1>4 DEF ClosedUpwards

\* Without edits no group is walked.
LEMMA NothingIsTouched ==
    ASSUME NEW p, IsPlugin(p.plugin), PatcherOK(p), NothingRegistered(p)
    PROVE  Touched(p) = {}
<1>1. PatchTouched(p) = {}
  BY DEF PatchTouched, NothingRegistered
<1>2. ASSUME NEW r \in ToSet(p.plugin.top), NEW g \in MarkReordered(p)[r].touched PROVE FALSE
  <2>1. r \in Groups(p.plugin)
    BY TopFacts
  <2>2. Reordered(p, r)
    BY <1>2, <2>1, MarksAreClosed, MarksReordered
  <2>. QED
    BY <2>2 DEF Reordered, NothingRegistered
<1>. QED
  BY <1>1, <1>2 DEF Touched

\* The groups on top, one behind the other.
LEMMA TopGood ==
    ASSUME NEW t, IsPlugin(t), NEW W, NEW long,
           \A g \in Groups(t) : Good(t, W[g], ParentOf(t, g), NodesIn(t, g), long[g])
    PROVE  Good(t, TopGroups(t, W), "top", AllNodes(t), UNION {long[g] : g \in ToSet(t.top)})
<1>. DEFINE list == t.top
            N == Len(list)
            e == [i \in 1..N |-> W[list[i]]]
            S == [i \in 1..N |-> NodesIn(t, list[i])]
            L == [i \in 1..N |-> long[list[i]]]
<1>1. list \in Seq(Groups(t)) /\ OneBehindTheOther(t, list)
  BY DEF IsPlugin
<1>2. N \in Nat /\ DOMAIN list = 1..N /\ \A i \in 1..N : list[i] \in Groups(t)
  BY <1>1
<1>3. list \in Seq(Nodes(t))
  BY <1>1 DEF Nodes
<1>4. ASSUME NEW i \in 1..N, NEW j \in 1..N, i # j PROVE S[i] \intersect S[j] = {}
  <2>. HIDE DEF list
  <2>. QED
    BY <1>1, <1>3, <1>4, SiblingsDisjoint
<1>5. ASSUME NEW i \in 1..N PROVE Good(t, e[i], "top", S[i], L[i])
  <2>1. ParentOf(t, list[i]) = "top"
    BY <1>2, ParentIs DEF ToSet
  <2>2. Good(t, W[list[i]], ParentOf(t, list[i]), NodesIn(t, list[i]), long[list[i]])
    BY <1>2
  <2>. QED
    BY <2>1, <2>2
<1>6. UNION {S[i] : i \in 1..N} = AllNodes(t)
  <2>1. \A n : n \in ToSet(list) <=> \E i \in 1..N : list[i] = n
    BY <1>2 DEF ToSet
  <2>2. \A i \in 1..N : S[i] = NodesIn(t, list[i])
    OBVIOUS
  <2>3. AllNodes(t) = UNION {NodesIn(t, g) : g \in ToSet(list)}
    BY AllNodesFacts
  <2>. HIDE DEF S, list
  <2>. QED
    BY <2>1, <2>2, <2>3
<1>7. UNION {L[i] : i \in 1..N} = UNION {long[g] : g \in ToSet(t.top)}
  <2>1. \A n : n \in ToSet(list) <=> \E i \in 1..N : list[i] = n
    BY <1>2 DEF ToSet
  <2>2. \A i \in 1..N : L[i] = long[list[i]]
    OBVIOUS
  <2>3. UNION {L[i] : i \in 1..N} = UNION {long[g] : g \in ToSet(list)}
    <3>. HIDE DEF L, list
    <3>. QED
      BY <2>1, <2>2
  <2>. QED
    BY <2>3
<1>8. [i \in 1..N |-> e[i]] = [i \in 1..Len(t.top) |-> W[t.top[i]]]
  OBVIOUS
<1>. HIDE DEF N, e, S, L
<1>9. GoodParts(t, "top", N, e, S, L)
  BY <1>2, <1>4, <1>5 DEF GoodParts
<1>10. Good(t, FlattenSeq([i \in 1..N |-> e[i]]), "top",
            UNION {S[i] : i \in 1..N}, UNION {L[i] : i \in 1..N})
  BY <1>9, GoodFlatten
<1>. QED
  BY <1>6, <1>7, <1>8, <1>10 DEF TopGroups

\* The groups of the source and those that write_group makes of them.
LEMMA SourceTopGood ==
    ASSUME NEW t \in Plugins, IsPlugin(t)
    PROVE  Good(t, TopGroups(t, Verbatim(t)), "top", AllNodes(t), {})
<1>. DEFINE long == [g \in Groups(t) |-> {}]
<1>1. \A g \in Groups(t) : Good(t, Verbatim(t)[g], ParentOf(t, g), NodesIn(t, g), long[g])
  BY VerbatimGood
<1>2. UNION {long[g] : g \in ToSet(t.top)} = {}
  BY TopFacts
<1>. HIDE DEF long
<1>3. Good(t, TopGroups(t, Verbatim(t)), "top", AllNodes(t), UNION {long[g] : g \in ToSet(t.top)})
  BY <1>1, TopGood
<1>. QED
  BY <1>2, <1>3

LEMMA WrittenTopGood ==
    ASSUME NEW p, IsPlugin(p.plugin), PatcherOK(p), NEW touched, ClosedUpwards(p.plugin, touched)
    PROVE  Good(p.plugin, TopGroups(p.plugin, WriteGroup(p, touched)), "top", AllNodes(p.plugin),
                TooLong(WriteGroup(p, touched), AllGroups(p.plugin)))
<1>. DEFINE t == p.plugin
            W == WriteGroup(p, touched)
            long == [g \in Groups(t) |-> TooLong(W, Below(t)[g])]
<1>1. \A g \in Groups(t) : Good(t, W[g], ParentOf(t, g), NodesIn(t, g), long[g])
  BY WriteGroupGood
<1>2. UNION {long[g] : g \in ToSet(t.top)} = TooLong(W, AllGroups(t))
  <2>1. \A g \in ToSet(t.top) : long[g] = TooLong(W, Below(t)[g])
    BY TopFacts
  <2>. HIDE DEF long, t, W
  <2>. QED
    BY <2>1 DEF AllGroups, TooLong
<1>. HIDE DEF long, W
<1>3. Good(t, TopGroups(t, W), "top", AllNodes(t), UNION {long[g] : g \in ToSet(t.top)})
  BY <1>1, TopGood
<1>. QED
  BY <1>2, <1>3 DEF W

\* A header and good top groups.
GoodStream(t, s, L) ==
    \E h : \E body :
        /\ s = <<h>> \o body /\ h.kind = "tes4" /\ PieceLen(h) = 1 /\ h.size = 1
        /\ Good(t, body, "top", AllNodes(t), L)

\* The walked groups that are too long for a u32.
CutOff(p) == TooLong(WriteGroup(p, Touched(p)), Touched(p))

LEMMA NoneIsCutOff ==
    ASSUME NEW p
    PROVE  SizesFit(p) <=> CutOff(p) = {}
BY DEF SizesFit, CutOff, TooLong

\* Only walked groups are.
LEMMA OnlyTouchedIsTooLong ==
    ASSUME NEW p, IsPlugin(p.plugin), PatcherOK(p)
    PROVE  TooLong(WriteGroup(p, Touched(p)), AllGroups(p.plugin)) = CutOff(p)
<1>. DEFINE t == p.plugin
            W == WriteGroup(p, Touched(p))
<1>1. AllGroups(t) = Groups(t) /\ Touched(p) \subseteq Groups(t)
  BY AllNodesFacts, EveryGroupIsReached, TouchedIsClosed
<1>2. \A g \in Groups(t) : W[g] = WriteStep(p, Touched(p), W, g)
  BY VisitedChildren, WriteGroupIs
<1>3. \A g \in Groups(t) : g \notin Touched(p) => W[g] = Verbatim(t)[g]
  BY <1>2 DEF WriteStep
<1>4. \A g \in Groups(t) : StreamLen(Verbatim(t)[g]) < U32
  BY SourceAssumption DEF PatcherOK
<1>. HIDE DEF W
<1>5. \A g \in Groups(t) : ~(StreamLen(W[g]) < U32) => g \in Touched(p)
  BY <1>3, <1>4
<1>. QED
  BY <1>1, <1>5 DEF W, CutOff, TooLong

\* It is what write_to writes.
LEMMA StreamGood ==
    ASSUME NEW p, IsPlugin(p.plugin), PatcherOK(p)
    PROVE  GoodStream(p.plugin, Stream(p), CutOff(p))
<1>. DEFINE t == p.plugin
<1>1. Good(t, TopGroups(t, Verbatim(t)), "top", AllNodes(t), {})
  BY SourceTopGood DEF PatcherOK
<1>2. Good(t, TopGroups(t, WriteGroup(p, Touched(p))), "top", AllNodes(t), CutOff(p))
  BY WrittenTopGood, TouchedIsClosed, OnlyTouchedIsTooLong
<1>3. \A x, y, z : LET h == HeaderPiece(x, y, z)
                   IN  h.kind = "tes4" /\ PieceLen(h) = 1 /\ h.size = 1
  BY DEF HeaderPiece, PieceLen
<1>4. SourceHeader(t).kind = "tes4" /\ PieceLen(SourceHeader(t)) = 1 /\ SourceHeader(t).size = 1
  BY <1>3 DEF SourceHeader
<1>5. LET h == WriteHeader(p, Touched(p))
      IN  h.kind = "tes4" /\ PieceLen(h) = 1 /\ h.size = 1
  BY <1>3, <1>4 DEF WriteHeader
<1>6. CASE NothingRegistered(p)
  <2>1. Stream(p) = <<SourceHeader(t)>> \o TopGroups(t, Verbatim(t))
    BY <1>6 DEF Stream, SourceStream
  <2>2. CutOff(p) = {}
    BY <1>6, NothingIsTouched DEF CutOff, TooLong
  <2>. QED
    BY <1>1, <1>4, <2>1, <2>2 DEF GoodStream
<1>7. CASE ~NothingRegistered(p)
  <2>1. Stream(p) = <<WriteHeader(p, Touched(p))>> \o TopGroups(t, WriteGroup(p, Touched(p)))
    BY <1>7 DEF Stream
  <2>. QED
    BY <1>2, <1>5, <2>1 DEF GoodStream
<1>. QED
  BY <1>6, <1>7

\* A stream is as long as it has nodes.
LEMMA NodesCounted ==
    ASSUME NEW t, NEW s, NEW r, NEW S, NEW L, Good(t, s, r, S, L)
    PROVE  Cardinality(S) = Len(s) /\ Len(s) \in Nat
<1>1. Len(s) \in Nat
  BY DEF Good
<1>. DEFINE N == Len(s)
            f == [i \in 1..N |-> s[i].node]
<1>2. HoldsNodes(s, S)
  BY DEF Good
<1>3. f \in [1..N -> S] /\ (\A i, j \in 1..N : f[i] = f[j] => i = j) /\ (\A n \in S : \E i \in 1..N : f[i] = n)
  BY <1>2 DEF HoldsNodes
<1>4. f \in Bijection(1..N, S)
  <2>1. DOMAIN f = 1..N
    OBVIOUS
  <2>. HIDE DEF f, N
  <2>2. IsInjective(f)
    BY <1>3, <2>1 DEF IsInjective
  <2>. QED
    BY <1>3, <2>2 DEF Bijection, Injection, Surjection
<1>5. ExistsBijection(1..N, S)
  BY <1>4 DEF ExistsBijection
<1>. HIDE DEF f
<1>. QED
  BY <1>1, <1>5, FS_CountingElements

\* The header counts the nodes.
LEMMA RecordCountIs ==
    ASSUME NEW t, IsPlugin(t)
    PROVE  RecordCount(t) = Cardinality(AllNodes(t))
<1>1. AllGroups(t) \subseteq Nodes(t) /\ AllRecords(t) \subseteq Nodes(t)
      /\ AllGroups(t) \intersect AllRecords(t) = {}
  BY AllNodesFacts DEF Nodes, IsPlugin
<1>2. IsFiniteSet(Nodes(t))
  BY DEF IsPlugin
<1>3. IsFiniteSet(AllGroups(t)) /\ IsFiniteSet(AllRecords(t))
  BY <1>1, <1>2, FS_Subset
<1>4. /\ Cardinality(AllNodes(t))
           = Cardinality(AllGroups(t)) + Cardinality(AllRecords(t))
             - Cardinality(AllGroups(t) \intersect AllRecords(t))
      /\ Cardinality(AllGroups(t)) \in Nat /\ Cardinality(AllRecords(t)) \in Nat
  BY <1>3, FS_Union, FS_CardinalityType DEF AllNodes
<1>5. Cardinality(AllGroups(t) \intersect AllRecords(t)) = 0
  BY <1>1, FS_EmptySet
<1>. QED
  BY <1>4, <1>5 DEF RecordCount

\* A reader takes the innermost enclosing group for the parent.
LEMMA ReaderIsRight ==
    ASSUME NEW t, NEW s, NEW j \in Nat
    PROVE  NestedAt(t, s, "top", j) <=> ReadParent(s, j) = ParentOf(t, s[j].node)
<1>. DEFINE around == {i \in 1..(j - 1) : Encloses(s, i, j)}
<1>1. CASE around = {}
  <2>1. \A i \in 1..(j - 1) : ~Encloses(s, i, j)
    BY <1>1
  <2>2. ReadParent(s, j) = "top"
    BY <1>1 DEF ReadParent
  <2>. QED
    BY <2>1, <2>2 DEF NestedAt
<1>2. CASE around # {}
  <2>1. around \subseteq 0..j /\ around \subseteq Int
    OBVIOUS
  <2>2. PICK i \in around : \A k \in around : k <= i
    <3>. HIDE DEF around
    <3>. QED
      BY <1>2, <2>1, GreatestElement
  <2>3. (CHOOSE m \in around : \A k \in around : k <= m) = i
    <3>. HIDE DEF around
    <3>1. ASSUME NEW m \in around, \A k \in around : k <= m PROVE m = i
      BY <2>1, <2>2, <3>1
    <3>. QED
      BY <2>2, <3>1
  <2>4. ReadParent(s, j) = s[i].node
    BY <1>2, <2>3 DEF ReadParent
  <2>5. /\ i \in 1..(j - 1) /\ Encloses(s, i, j)
        /\ \A k \in 1..(j - 1) : Encloses(s, k, j) => k <= i
    BY <2>2
  <2>6. ASSUME NEW m \in 1..(j - 1), Encloses(s, m, j),
               \A k \in 1..(j - 1) : Encloses(s, k, j) => k <= m
        PROVE  m = i
    BY <2>5, <2>6
  <2>. HIDE DEF around
  <2>. QED
    BY <2>4, <2>5, <2>6 DEF NestedAt
<1>. QED
  BY <1>1, <1>2

\* What the places in a good stream are.
LEMMA GoodStreamFacts ==
    ASSUME NEW t, NEW h, NEW b, NEW L, h.kind = "tes4", PieceLen(h) = 1, h.size = 1,
           Good(t, b, "top", AllNodes(t), L)
    PROVE  /\ Len(b) \in Nat /\ Len(<<h>> \o b) = 1 + Len(b) /\ (<<h>> \o b)[1] = h
           /\ \A j \in 1..Len(b) : (<<h>> \o b)[1 + j] = b[j] /\ b[j] \in Pieces(t)
           /\ Tail(<<h>> \o b) = b
           /\ \A j \in 1..Len(b) :
                 /\ NestedAt(t, <<h>> \o b, "top", 1 + j) <=> NestedAt(t, b, "top", j)
                 /\ Offset(<<h>> \o b, 1 + j) = 1 + Offset(b, j) /\ Offset(b, j) \in Nat
           /\ \A i, j \in 1..Len(b) :
                 Encloses(<<h>> \o b, 1 + i, 1 + j) <=> Encloses(b, i, j)
<1>. DEFINE P == Pieces(t) \union {h}
            a == <<h>>
            s == a \o b
<1>1. Weighted(P)
  BY PiecesWeighted DEF Weighted
<1>2. b \in Seq(Pieces(t))
  BY DEF Good
<1>3. a \in Seq(P) /\ b \in Seq(P) /\ Len(a) = 1 /\ a[1] = h
  BY <1>2
<1>4. Len(b) \in Nat /\ \A j \in 1..Len(b) : b[j] \in Pieces(t)
  BY <1>2
<1>. HIDE DEF P
<1>5. /\ Len(s) = 1 + Len(b) /\ s[1] = h
      /\ \A j \in 1..Len(b) : s[1 + j] = b[j]
  <2>. HIDE DEF a
  <2>1. a \in Seq(P) /\ b \in Seq(P)
    BY <1>3
  <2>2. /\ Len(s) = Len(a) + Len(b)
        /\ \A j \in 1..Len(a) : s[j] = a[j]
        /\ \A j \in 1..Len(b) : s[Len(a) + j] = b[j]
    BY <2>1, ConcatAt
  <2>. HIDE DEF s
  <2>. QED
    BY <1>3, <2>2
<1>6. Closed(a) /\ StreamLen(a) = 1
  <2>1. LengthUpTo(a)[0] = 0 /\ LengthUpTo(a)[1] = LengthUpTo(a)[1 - 1] + PieceLen(a[1])
    BY <1>3, LengthRecursion
  <2>2. 1 - 1 = 0
    OBVIOUS
  <2>3. Offset(a, 1) = 0 /\ StreamLen(a) = 1
    BY <1>3, <2>1, <2>2 DEF Offset, StreamLen
  <2>. QED
    BY <1>3, <2>3 DEF Closed
<1>7. Tail(s) = b
  <2>1. s \in Seq(P) /\ s # <<>>
    BY <1>3
  <2>. HIDE DEF s
  <2>2. /\ Tail(s) \in Seq(P) /\ Len(Tail(s)) = Len(s) - 1
        /\ \A j \in 1..Len(Tail(s)) : Tail(s)[j] = s[j + 1]
    BY <2>1
  <2>3. Len(Tail(s)) = Len(b)
    BY <1>4, <1>5, <2>2
  <2>4. \A j \in 1..Len(b) : Tail(s)[j] = b[j]
    BY <1>4, <1>5, <2>2, <2>3
  <2>. DEFINE x == Tail(s)
  <2>5. x \in Seq(P)
    BY <2>2
  <2>. HIDE DEF x
  <2>6. b = [j \in 1..Len(b) |-> b[j]] /\ x = [j \in 1..Len(x) |-> x[j]]
    BY <1>2, <2>5
  <2>. QED
    BY <2>3, <2>4, <2>6, Zenon DEF x
<1>8. /\ \A i, j \in 1..Len(b) : Encloses(s, Len(a) + i, Len(a) + j) <=> Encloses(b, i, j)
      /\ \A i \in 1..Len(a), j \in 1..Len(b) : ~Encloses(s, i, Len(a) + j)
  <2>. HIDE DEF a
  <2>. QED
    BY <1>1, <1>3, <1>6, EnclosesConcat
<1>9. ASSUME NEW j \in 1..Len(b) PROVE NestedAt(t, s, "top", 1 + j) <=> NestedAt(t, b, "top", j)
  <2>1. /\ \A i \in 1..Len(b) : Encloses(a \o b, Len(a) + i, Len(a) + j) <=> Encloses(b, i, j)
        /\ \A i \in 1..Len(a) : ~Encloses(a \o b, i, Len(a) + j)
    BY <1>8
  <2>. HIDE DEF a
  <2>2. NestedAt(t, a \o b, "top", Len(a) + j) <=> NestedAt(t, b, "top", j)
    BY <1>3, <2>1, NestedShift, NestedUnshift
  <2>. QED
    BY <1>3, <2>2
<1>10. /\ \A j \in 1..Len(b) : Offset(s, 1 + j) = 1 + Offset(b, j) /\ Offset(b, j) \in Nat
       /\ \A i, j \in 1..Len(b) : Encloses(s, 1 + i, 1 + j) <=> Encloses(b, i, j)
  <2>1. \A j \in 1..Len(b) :
           Offset(s, Len(a) + j) = StreamLen(a) + Offset(b, j) /\ Offset(b, j) \in Nat
    <3>. HIDE DEF a
    <3>1. a \in Seq(P) /\ b \in Seq(P)
      BY <1>3
    <3>. QED
      BY <1>1, <3>1, OffsetsConcat
  <2>. HIDE DEF a, s
  <2>. QED
    BY <1>3, <1>6, <1>8, <2>1
<1>. QED
  BY <1>4, <1>5, <1>7, <1>9, <1>10

\* A reader finds the tree in a good stream if and only if no size is cut off.
LEMMA ReaderFindsTree ==
    ASSUME NEW t, IsPlugin(t), NEW s, NEW L, GoodStream(t, s, L)
    PROVE  FindsTree(t, s) <=> L = {}
<1>1. PICK h : \E b : /\ s = <<h>> \o b /\ h.kind = "tes4" /\ PieceLen(h) = 1 /\ h.size = 1
                      /\ Good(t, b, "top", AllNodes(t), L)
  BY DEF GoodStream
<1>2. PICK b : /\ s = <<h>> \o b /\ h.kind = "tes4" /\ PieceLen(h) = 1 /\ h.size = 1
               /\ Good(t, b, "top", AllNodes(t), L)
  BY <1>1
<1>3. /\ Len(b) \in Nat /\ Len(s) = 1 + Len(b) /\ s[1] = h
      /\ \A j \in 1..Len(b) : s[1 + j] = b[j] /\ b[j] \in Pieces(t)
      /\ \A j \in 1..Len(b) :
            /\ NestedAt(t, s, "top", 1 + j) <=> NestedAt(t, b, "top", j)
            /\ Offset(s, 1 + j) = 1 + Offset(b, j) /\ Offset(b, j) \in Nat
      /\ \A i, j \in 1..Len(b) : Encloses(s, 1 + i, 1 + j) <=> Encloses(b, i, j)
  BY <1>2, GoodStreamFacts
<1>. DEFINE body == {i \in 1..Len(s) : s[i].kind # "tes4"}
<1>4. \A i \in 1..Len(s) : i = 1 \/ (i - 1 \in 1..Len(b) /\ i = 1 + (i - 1))
  BY <1>3
<1>5. \A j \in 1..Len(b) : b[j].kind # "tes4"
  BY <1>3 DEF Pieces
<1>6. body = 2..Len(s)
  <2>1. 1 \notin body
    BY <1>2, <1>3
  <2>2. \A i \in 2..Len(s) : i - 1 \in 1..Len(b) /\ i = 1 + (i - 1) /\ i \in 1..Len(s)
    BY <1>3
  <2>3. \A i \in 2..Len(s) : i \in body
    BY <1>3, <1>5, <2>2
  <2>4. \A i \in 1..Len(s) : i # 1 => i \in 2..Len(s)
    BY <1>3
  <2>. QED
    BY <2>1, <2>3, <2>4
<1>7. \A i \in body : i - 1 \in 1..Len(b) /\ i = 1 + (i - 1) /\ i \in Nat
  BY <1>3, <1>6
<1>8. \A j \in 1..Len(b) : 1 + j \in body
  BY <1>3, <1>6
<1>. HIDE DEF body
<1>9. (\A i \in body : ReadParent(s, i) = ParentOf(t, s[i].node)) <=> Nested(t, b, "top")
  <2>1. \A i \in body : ReadParent(s, i) = ParentOf(t, s[i].node) <=> NestedAt(t, s, "top", i)
    BY <1>7, ReaderIsRight
  <2>2. \A i \in body : NestedAt(t, s, "top", i) <=> NestedAt(t, b, "top", i - 1)
    BY <1>3, <1>7
  <2>3. \A j \in 1..Len(b) : (1 + j) - 1 = j
    BY <1>3
  <2>. QED
    BY <1>7, <1>8, <2>1, <2>2, <2>3 DEF Nested
<1>. DEFINE Covers == \A i, j \in body : Encloses(s, i, j) =>
                         Offset(s, j) + s[j].size <= Offset(s, i) + s[i].size
<1>14. Covers <=> Contained(b)
  <2>1. ASSUME NEW i \in 1..Len(b), NEW j \in 1..Len(b)
        PROVE  (Encloses(s, 1 + i, 1 + j) =>
                  Offset(s, 1 + j) + s[1 + j].size <= Offset(s, 1 + i) + s[1 + i].size)
               <=> (Encloses(b, i, j) => Offset(b, j) + b[j].size <= Offset(b, i) + b[i].size)
    <3>1. /\ Offset(s, 1 + j) = 1 + Offset(b, j) /\ s[1 + j] = b[j]
          /\ Offset(s, 1 + i) = 1 + Offset(b, i) /\ s[1 + i] = b[i]
          /\ Encloses(s, 1 + i, 1 + j) <=> Encloses(b, i, j)
      BY <1>3
    <3>2. /\ Offset(b, j) \in Nat /\ Offset(b, i) \in Nat
          /\ b[j].size \in Nat /\ b[i].size \in Nat
      BY <1>3 DEF Pieces
    <3>3. \A x, y, v, w \in Nat : (1 + x) + y <= (1 + v) + w <=> x + y <= v + w
      OBVIOUS
    <3>4. (1 + Offset(b, j)) + b[j].size <= (1 + Offset(b, i)) + b[i].size
            <=> Offset(b, j) + b[j].size <= Offset(b, i) + b[i].size
      BY <3>2, <3>3
    <3>. QED
      BY <3>1, <3>4
  <2>2. ASSUME Covers PROVE Contained(b)
    BY <1>8, <2>1, <2>2 DEF Contained
  <2>3. ASSUME Contained(b), NEW i \in body, NEW j \in body, Encloses(s, i, j)
        PROVE  Offset(s, j) + s[j].size <= Offset(s, i) + s[i].size
    <3>. DEFINE x == i - 1
                y == j - 1
    <3>1. x \in 1..Len(b) /\ y \in 1..Len(b) /\ i = 1 + x /\ j = 1 + y
      BY <1>7
    <3>. HIDE DEF x, y
    <3>2. Encloses(b, x, y) => Offset(b, y) + b[y].size <= Offset(b, x) + b[x].size
      BY <2>3, <3>1 DEF Contained
    <3>. QED
      BY <2>1, <2>3, <3>1, <3>2
  <2>. QED
    BY <2>2, <2>3
<1>10. {s[i].node : i \in body} = AllNodes(t)
  <2>1. HoldsNodes(b, AllNodes(t))
    BY <1>2 DEF Good
  <2>2. \A i \in body : s[i] = b[i - 1]
    BY <1>3, <1>7
  <2>3. \A i \in body : s[i].node \in AllNodes(t)
    BY <1>7, <2>1, <2>2 DEF HoldsNodes
  <2>4. ASSUME NEW n \in AllNodes(t) PROVE \E i \in body : s[i].node = n
    <3>1. PICK j \in 1..Len(b) : b[j].node = n
      BY <2>1 DEF HoldsNodes
    <3>. QED
      BY <1>3, <1>8, <3>1
  <2>. QED
    BY <2>3, <2>4
<1>11. Cardinality(body) = RecordCount(t)
  <2>1. Cardinality(AllNodes(t)) = Len(b)
    BY <1>2, NodesCounted
  <2>2. Cardinality(2..Len(s)) = IF 2 > Len(s) THEN 0 ELSE Len(s) - 2 + 1
    BY <1>3, FS_Interval
  <2>3. Cardinality(2..Len(s)) = Len(b)
    BY <1>3, <2>2
  <2>. QED
    BY <1>6, <2>1, <2>3, RecordCountIs
<1>12. Readable(t, b, "top") <=> L = {}
  BY <1>2 DEF Good
<1>13. FindsTree(t, s) <=>
          /\ \A i \in body : ReadParent(s, i) = ParentOf(t, s[i].node)
          /\ Covers
  <2>1. {s[i].node : i \in body} = AllGroups(t) \union AllRecords(t)
    BY <1>10 DEF AllNodes
  <2>. HIDE DEF Covers
  <2>. QED
    BY <1>11, <2>1, Zenon DEF FindsTree, body, Covers
<1>. HIDE DEF Covers
<1>. QED
  BY <1>9, <1>12, <1>13, <1>14 DEF Readable

\* The next object id is above every object id of the plugin's own records.
LEMMA NextObjectIdIs ==
    ASSUME NEW p, IsPlugin(p.plugin), PatcherOK(p)
    PROVE  /\ NextObjectId(p) \in Nat /\ NextObjectId(p) >= p.plugin.next
           /\ \A r \in AllRecords(p.plugin) :
                 p.plugin.form[r].file = OwnIndex(p) => p.plugin.form[r].object < NextObjectId(p)
<1>. DEFINE t == p.plugin
            own == {t.form[r].object : r \in {r \in AllRecords(t) : t.form[r].file = OwnIndex(p)}}
            ids == {t.next, MinNextId} \union {o + 1 : o \in own}
            N == t.next + MaxObjectId + 1 + MinNextId
<1>1. t.next \in Nat /\ MaxObjectId \in Nat /\ MinNextId \in Nat
  BY DEF IsPlugin, MaxObjectId, MinNextId
<1>2. \A r \in AllRecords(t) : t.form[r].object \in 0..MaxObjectId
  <2>1. \A r \in AllRecords(t) : t.form[r] \in FormIds
    BY AllNodesFacts DEF IsPlugin
  <2>. QED
    BY <2>1, PatcherAssumption
<1>3. own \subseteq 0..MaxObjectId
  BY <1>2
<1>4. ids \subseteq 0..N /\ ids # {} /\ N \in Nat /\ t.next \in ids /\ \A o \in own : o + 1 \in ids
  <2>. HIDE DEF own
  <2>. QED
    BY <1>1, <1>3
<1>5. \A r \in AllRecords(t) : t.form[r].file = OwnIndex(p) => t.form[r].object \in own
  OBVIOUS
<1>6. NextObjectId(p) = Max(ids)
  BY DEF NextObjectId
<1>. HIDE DEF ids, own, N
<1>7. \E m \in ids : \A k \in ids : k <= m
  BY <1>4, GreatestElement
<1>8. \A k \in ids : k \in Nat
  BY <1>4
<1>9. Max(ids) \in ids /\ \A k \in ids : Max(ids) >= k
  <2>1. \E m \in ids : \A k \in ids : m >= k
    BY <1>7, <1>8
  <2>. QED
    BY <2>1 DEF Max
<1>10. NextObjectId(p) \in Nat /\ \A k \in ids : NextObjectId(p) >= k
  BY <1>6, <1>8, <1>9
<1>11. \A o \in own : o \in Nat /\ o < NextObjectId(p)
  <2>1. \A o \in own : o \in Nat /\ o + 1 \in ids
    <3>1. 0..MaxObjectId \subseteq Nat
      BY <1>1
    <3>. QED
      BY <1>3, <1>4, <3>1
  <2>2. \A o \in own : NextObjectId(p) >= o + 1
    BY <1>10, <2>1
  <2>. QED
    BY <1>10, <2>1, <2>2
<1>. QED
  BY <1>4, <1>5, <1>10, <1>11

\* A patcher that holds edits recounts its header: the counters fit the tree.
LEMMA HeaderPieceFits ==
    ASSUME NEW p, IsPlugin(p.plugin), PatcherOK(p), NEW s, NEW L, GoodStream(p.plugin, s, L),
           s[1] = HeaderPiece(RecordCount(p.plugin), NextObjectId(p), OwnIndex(p))
    PROVE  LET header == s[1].node
           IN  /\ header[1] = Len(s) - 1
               /\ header[2] >= p.plugin.next
               /\ \A i \in 2..Len(s) :
                     s[i].kind = "record" =>
                        LET f == p.plugin.form[s[i].node]
                        IN  f.file = header[3] => f.object < header[2]
<1>. DEFINE t == p.plugin
<1>1. PICK h : \E b : /\ s = <<h>> \o b /\ h.kind = "tes4" /\ PieceLen(h) = 1 /\ h.size = 1
                      /\ Good(t, b, "top", AllNodes(t), L)
  BY DEF GoodStream
<1>2. PICK b : /\ s = <<h>> \o b /\ h.kind = "tes4" /\ PieceLen(h) = 1 /\ h.size = 1
               /\ Good(t, b, "top", AllNodes(t), L)
  BY <1>1
<1>3. /\ Len(b) \in Nat /\ Len(s) = 1 + Len(b)
      /\ \A j \in 1..Len(b) : s[1 + j] = b[j] /\ b[j] \in Pieces(t)
  BY <1>2, GoodStreamFacts
<1>4. s[1].node = <<RecordCount(t), NextObjectId(p), OwnIndex(p)>>
  BY DEF HeaderPiece
<1>5. RecordCount(t) = Len(b)
  BY <1>2, NodesCounted, RecordCountIs
<1>6. \A i \in 2..Len(s) : i - 1 \in 1..Len(b) /\ i = 1 + (i - 1)
  BY <1>3
<1>7. \A i \in 2..Len(s) : s[i] = b[i - 1]
  BY <1>3, <1>6
<1>8. ASSUME NEW i \in 2..Len(s), s[i].kind = "record"
      PROVE  s[i].node \in AllRecords(t)
  <2>1. HoldsNodes(b, AllNodes(t))
    BY <1>2 DEF Good
  <2>2. b[i - 1].node \in AllNodes(t)
    BY <1>6, <2>1 DEF HoldsNodes
  <2>3. b[i - 1] \in Pieces(t)
    BY <1>3, <1>6
  <2>4. b[i - 1].node \in Records(t)
    BY <1>7, <1>8, <2>3 DEF Pieces
  <2>5. Groups(t) \intersect Records(t) = {}
    BY DEF IsPlugin
  <2>6. AllGroups(t) \subseteq Groups(t)
    BY AllNodesFacts
  <2>. QED
    BY <1>7, <2>2, <2>4, <2>5, <2>6 DEF AllNodes
<1>9. /\ NextObjectId(p) >= t.next
      /\ \A r \in AllRecords(t) : t.form[r].file = OwnIndex(p) => t.form[r].object < NextObjectId(p)
  BY NextObjectIdIs
<1>10. s[1].node[1] = Len(s) - 1
  BY <1>3, <1>4, <1>5
<1>11. s[1].node[2] = NextObjectId(p) /\ s[1].node[3] = OwnIndex(p)
  BY <1>4
<1>. QED
  BY <1>8, <1>9, <1>10, <1>11

\* Equal groups make equal streams.
LEMMA TopGroupsAgree ==
    ASSUME NEW t, IsPlugin(t), NEW V, NEW W, \A g \in ToSet(t.top) : V[g] = W[g]
    PROVE  TopGroups(t, V) = TopGroups(t, W)
<1>1. \A i \in 1..Len(t.top) : t.top[i] \in ToSet(t.top)
  BY DEF IsPlugin, ToSet
<1>2. [i \in 1..Len(t.top) |-> V[t.top[i]]] = [i \in 1..Len(t.top) |-> W[t.top[i]]]
  BY <1>1
<1>. QED
  BY <1>2, Zenon DEF TopGroups

\* Whatever is behind the header piece.
LEMMA TailIs ==
    ASSUME NEW t, NEW h, NEW b, NEW L, h.kind = "tes4", PieceLen(h) = 1, h.size = 1,
           Good(t, b, "top", AllNodes(t), L)
    PROVE  Tail(<<h>> \o b) = b /\ (<<h>> \o b)[1] = h
BY GoodStreamFacts

\* The header pieces are no records and 1 unit long.
LEMMA HeaderPieceShape ==
    ASSUME NEW count, NEW next, NEW masters
    PROVE  /\ HeaderPiece(count, next, masters).kind = "tes4"
           /\ PieceLen(HeaderPiece(count, next, masters)) = 1
           /\ HeaderPiece(count, next, masters).size = 1
BY DEF HeaderPiece, PieceLen

\* The parts of a stream.
LEMMA StreamParts ==
    ASSUME NEW p, IsPlugin(p.plugin), PatcherOK(p)
    PROVE  /\ Tail(SourceStream(p.plugin)) = TopGroups(p.plugin, Verbatim(p.plugin))
           /\ NothingRegistered(p) => Stream(p) = SourceStream(p.plugin)
           /\ ~NothingRegistered(p) =>
                 /\ Tail(Stream(p)) = TopGroups(p.plugin, WriteGroup(p, Touched(p)))
                 /\ Stream(p)[1] = WriteHeader(p, Touched(p))
<1>. DEFINE t == p.plugin
<1>1. Good(t, TopGroups(t, Verbatim(t)), "top", AllNodes(t), {})
  BY SourceTopGood DEF PatcherOK
<1>2. Good(t, TopGroups(t, WriteGroup(p, Touched(p))), "top", AllNodes(t), CutOff(p))
  BY WrittenTopGood, TouchedIsClosed, OnlyTouchedIsTooLong
<1>3. Tail(SourceStream(t)) = TopGroups(t, Verbatim(t))
  <2>. DEFINE h == SourceHeader(t)
  <2>1. h.kind = "tes4" /\ PieceLen(h) = 1 /\ h.size = 1
    BY HeaderPieceShape DEF SourceHeader
  <2>2. SourceStream(t) = <<h>> \o TopGroups(t, Verbatim(t))
    BY DEF SourceStream
  <2>. HIDE DEF h
  <2>. QED
    BY <1>1, <2>1, <2>2, TailIs
<1>4. ASSUME ~NothingRegistered(p)
      PROVE  /\ Tail(Stream(p)) = TopGroups(t, WriteGroup(p, Touched(p)))
             /\ Stream(p)[1] = WriteHeader(p, Touched(p))
  <2>. DEFINE h == WriteHeader(p, Touched(p))
  <2>1. h.kind = "tes4" /\ PieceLen(h) = 1 /\ h.size = 1
    BY HeaderPieceShape DEF WriteHeader, SourceHeader
  <2>2. Stream(p) = <<h>> \o TopGroups(t, WriteGroup(p, Touched(p)))
    BY <1>4 DEF Stream
  <2>. HIDE DEF h
  <2>3. Tail(Stream(p)) = TopGroups(t, WriteGroup(p, Touched(p))) /\ Stream(p)[1] = h
    BY <1>2, <2>1, <2>2, TailIs
  <2>. QED
    BY <2>3 DEF h
<1>5. NothingRegistered(p) => Stream(p) = SourceStream(t)
  BY DEF Stream
<1>. QED
  BY <1>3, <1>4, <1>5

\* Groups that are not touched are copied.
LEMMA UntouchedIsCopied ==
    ASSUME NEW p, IsPlugin(p.plugin), PatcherOK(p), NEW touched,
           NEW g \in Groups(p.plugin), g \notin touched
    PROVE  WriteGroup(p, touched)[g] = Verbatim(p.plugin)[g]
<1>1. WriteGroup(p, touched)[g] = WriteStep(p, touched, WriteGroup(p, touched), g)
  BY VisitedChildren, WriteGroupIs
<1>. QED
  BY <1>1 DEF WriteStep

\* A stream with a changed group has recounted counters.
LEMMA HeaderFits ==
    ASSUME NEW p, IsPlugin(p.plugin), PatcherOK(p),
           Tail(Stream(p)) # Tail(SourceStream(p.plugin))
    PROVE  LET s == Stream(p)
               header == s[1].node
           IN  /\ header[1] = Len(s) - 1
               /\ header[2] >= p.plugin.next
               /\ \A i \in 2..Len(s) :
                     s[i].kind = "record" =>
                        LET f == p.plugin.form[s[i].node]
                        IN  f.file = header[3] => f.object < header[2]
<1>. DEFINE t == p.plugin
<1>1. ~NothingRegistered(p)
  BY StreamParts
<1>2. ASSUME Touched(p) = {} PROVE FALSE
  <2>1. \A g \in ToSet(t.top) : WriteGroup(p, Touched(p))[g] = Verbatim(t)[g]
    <3>1. \A g \in ToSet(t.top) : g \in Groups(t)
      BY TopFacts
    <3>. QED
      BY <1>2, <3>1, UntouchedIsCopied
  <2>2. TopGroups(t, WriteGroup(p, Touched(p))) = TopGroups(t, Verbatim(t))
    BY <2>1, TopGroupsAgree
  <2>. QED
    BY <1>1, <2>2, StreamParts
<1>3. WriteHeader(p, Touched(p)) = HeaderPiece(RecordCount(t), NextObjectId(p), OwnIndex(p))
  BY <1>2 DEF WriteHeader
<1>4. Stream(p)[1] = HeaderPiece(RecordCount(t), NextObjectId(p), OwnIndex(p))
  BY <1>1, <1>3, StreamParts
<1>5. GoodStream(t, Stream(p), CutOff(p))
  BY StreamGood
<1>. QED
  BY <1>4, <1>5, HeaderPieceFits

(***************************************************************************)
(* The edits in the stream.                                                *)
(***************************************************************************)
\* A group without an edit below it comes out as in the source.
LEMMA CleanIsCopied ==
    ASSUME NEW p, IsPlugin(p.plugin), PatcherOK(p), NEW touched, NEW g \in Groups(p.plugin),
           ~Reordered(p, g), g \notin PatchTouched(p)
    PROVE  WriteGroup(p, touched)[g] = Verbatim(p.plugin)[g]
<1>. DEFINE t == p.plugin
            W == WriteGroup(p, touched)
            V == Verbatim(t)
            T == {x \in Groups(t) : ~Reordered(p, x) /\ x \notin PatchTouched(p) => W[x] = V[x]}
<1>1. \A x \in Groups(t) : W[x] = WriteStep(p, touched, W, x) /\ V[x] = CopyStep(t, V, x)
  BY VisitedChildren, WriteGroupIs, VerbatimIs
<1>2. ASSUME NEW x \in Groups(t), \A s \in SubGroups(t, x) : s \in T
      PROVE  x \in T
  <2>. SUFFICES ASSUME ~Reordered(p, x), x \notin PatchTouched(p) PROVE W[x] = V[x]
    OBVIOUS
  <2>1. x \notin DOMAIN p.groupOrders /\ \A s \in SubGroups(t, x) : ~Reordered(p, s)
    BY ReorderedIs
  <2>2. Visited(p, x) = t.kids[x]
    BY <2>1 DEF Visited
  <2>3. \A r \in RecordsBelow(t, x) : t.form[r] \notin DOMAIN p.patches
    BY DEF PatchTouched
  <2>4. \A s \in SubGroups(t, x) : s \in Groups(t) /\ s \notin PatchTouched(p)
    BY <2>3, BelowSubGroup DEF PatchTouched
  <2>5. \A s \in SubGroups(t, x) : W[s] = V[s]
    BY <1>2, <2>1, <2>4
  <2>6. \A r \in OwnRecords(t, x) : WriteRecord(p, r) = RecordPiece(r, SourceBody)
    BY <2>3, BelowSubGroup DEF WriteRecord
  <2>. DEFINE w(i) == LET n == t.kids[x][i]
                      IN  IF n \in Groups(t) THEN W[n] ELSE <<WriteRecord(p, n)>>
              v(i) == LET n == t.kids[x][i]
                      IN  IF n \in Groups(t) THEN V[n] ELSE <<RecordPiece(n, SourceBody)>>
  <2>7. \A i \in 1..Len(t.kids[x]) : w(i) = v(i)
    BY <2>5, <2>6, KidsFacts
  <2>8. CASE x \in touched
    <3>1. W[x] = WithGroupHeader(x, FlattenSeq([i \in 1..Len(t.kids[x]) |-> w(i)]))
      BY <1>1, <2>2, <2>8 DEF WriteStep
    <3>2. V[x] = WithGroupHeader(x, FlattenSeq([i \in 1..Len(t.kids[x]) |-> v(i)]))
      BY <1>1 DEF CopyStep
    <3>. HIDE DEF w, v
    <3>3. [i \in 1..Len(t.kids[x]) |-> w(i)] = [i \in 1..Len(t.kids[x]) |-> v(i)]
      BY <2>7
    <3>. QED
      BY <3>1, <3>2, <3>3, Zenon
  <2>9. CASE x \notin touched
    BY <1>1, <2>9 DEF WriteStep
  <2>. QED
    BY <2>8, <2>9
<1>3. Groups(t) \subseteq T
  <2>. HIDE DEF T
  <2>1. \A x \in Groups(t) : (\A s \in SubGroups(t, x) : s \in T) => x \in T
    BY <1>2
  <2>. QED
    BY <2>1, TreeInduction
<1>. QED
  BY <1>3

\* Without reordered siblings, every group that leads to an order is marked.
LEMMA MarksReachOrders ==
    ASSUME NEW p, IsPlugin(p.plugin), PatcherOK(p), NoSiblingReorders(p),
           NEW g \in Groups(p.plugin), NEW h \in Below(p.plugin)[g], Reordered(p, h)
    PROVE  h \in MarkReordered(p)[g].touched
<1>. DEFINE t == p.plugin
            B == Below(t)
            M == MarkReordered(p)
            T == {x \in Groups(t) : \A y \in B[x] : Reordered(p, y) => y \in M[x].touched}
<1>1. ASSUME NEW x \in Groups(t), \A s \in SubGroups(t, x) : s \in T
      PROVE  x \in T
  <2>. SUFFICES ASSUME NEW y \in B[x], Reordered(p, y) PROVE y \in M[x].touched
    OBVIOUS
  <2>1. CASE y = x
    BY <2>1, MarksReordered
  <2>2. CASE y # x
    <3>1. PICK s \in SubGroups(t, x) : y \in B[s]
      BY <2>2, BelowSubGroup
    <3>2. s \in Groups(t) /\ Reordered(p, s)
      BY <3>1, BelowSubGroup, ReorderedIs
    <3>3. y \in M[s].touched
      BY <1>1, <3>1
    <3>. DEFINE kids    == t.kids[x]
                subs    == SubsAt(p, x)
                hits    == HitsAt(p, M, x)
                visited == VisitedAt(p, M, x)
    <3>4. \A i \in visited : M[kids[i]].touched \subseteq MarkStep(p, M, x).touched
      <4>. HIDE DEF M
      <4>. QED
        BY MarkStepIs
    <3>5. MarkStep(p, M, x) = M[x]
      BY VisitedChildren, MarkReorderedIs
    <3>6. PICK i \in subs : kids[i] = s
      BY <3>1, KidsFacts DEF SubGroups, ToSet, SubsAt
    <3>7. \A j \in hits : j = i
      <4>. SUFFICES ASSUME NEW j \in hits PROVE j = i
        OBVIOUS
      <4>1. j \in DOMAIN kids /\ kids[j] \in Groups(t) /\ M[kids[j]].reordered
        BY DEF HitsAt, SubsAt
      <4>2. kids[j] \in SubGroups(t, x)
        BY <4>1, KidsFacts
      <4>3. Reordered(p, kids[j])
        BY <4>1, MarksReordered
      <4>4. kids[j] = s
        BY <3>1, <3>2, <4>2, <4>3 DEF NoSiblingReorders
      <4>5. Injective(kids)
        BY KidsFacts
      <4>6. i \in 1..Len(kids) /\ j \in 1..Len(kids)
        <5>1. i \in DOMAIN kids
          BY DEF SubsAt
        <5>2. DOMAIN kids = 1..Len(kids)
          BY KidsFacts
        <5>. QED
          BY <4>1, <5>1, <5>2
      <4>. HIDE DEF kids
      <4>. QED
        BY <3>6, <4>4, <4>5, <4>6 DEF Injective
    <3>8. i \in Nat
      BY KidsFacts DEF SubsAt
    <3>9. i \in visited
      BY <3>7, <3>8 DEF VisitedAt
    <3>. QED
      BY <3>3, <3>4, <3>5, <3>6, <3>9
  <2>. QED
    BY <2>1, <2>2
<1>2. Groups(t) \subseteq T
  <2>. HIDE DEF T
  <2>1. \A x \in Groups(t) : (\A s \in SubGroups(t, x) : s \in T) => x \in T
    BY <1>1
  <2>. QED
    BY <2>1, TreeInduction
<1>. QED
  BY <1>2

\* A group of the stream that is not touched has no edit below it.
LEMMA UntouchedIsClean ==
    ASSUME NEW p, IsPlugin(p.plugin), PatcherOK(p), NoSiblingReorders(p),
           NEW g \in AllGroups(p.plugin), g \notin Touched(p)
    PROVE  ~Reordered(p, g) /\ g \notin PatchTouched(p)
<1>1. PICK r \in ToSet(p.plugin.top) : g \in Below(p.plugin)[r]
  BY DEF AllGroups
<1>2. r \in Groups(p.plugin)
  BY <1>1, TopFacts
<1>3. Reordered(p, g) => g \in MarkReordered(p)[r].touched
  BY <1>1, <1>2, MarksReachOrders
<1>4. g \notin MarkReordered(p)[r].touched /\ g \notin PatchTouched(p)
  BY <1>1 DEF Touched
<1>. QED
  BY <1>3, <1>4

\* Every edit is in the groups of the stream.
LEMMA TouchedGroupsAreIntended ==
    ASSUME NEW p, IsPlugin(p.plugin), PatcherOK(p), NoSiblingReorders(p),
           NEW g \in AllGroups(p.plugin)
    PROVE  WriteGroup(p, Touched(p))[g] = WriteGroup(p, Groups(p.plugin))[g]
<1>. DEFINE t == p.plugin
            A == AllGroups(t)
            W == WriteGroup(p, Touched(p))
            U == WriteGroup(p, Groups(t))
            T == {x \in Groups(t) : x \in A => W[x] = U[x]}
<1>1. \A x \in Groups(t) : W[x] = WriteStep(p, Touched(p), W, x) /\ U[x] = WriteStep(p, Groups(t), U, x)
  BY VisitedChildren, WriteGroupIs
<1>2. \A x \in A : x \in Groups(t) /\ \A s \in SubGroups(t, x) : s \in A
  <2>. SUFFICES ASSUME NEW x \in A PROVE x \in Groups(t) /\ \A s \in SubGroups(t, x) : s \in A
    OBVIOUS
  <2>1. PICK r \in ToSet(t.top) : x \in Below(t)[r]
    BY DEF AllGroups
  <2>2. r \in Groups(t)
    BY <2>1, TopFacts
  <2>3. x \in Groups(t) /\ Below(t)[x] \subseteq Below(t)[r]
    BY <2>1, <2>2, BelowTransitive
  <2>4. \A s \in SubGroups(t, x) : s \in Below(t)[x]
    BY <2>3, BelowSubGroup
  <2>. QED
    BY <2>1, <2>3, <2>4 DEF AllGroups
<1>3. ASSUME NEW x \in Groups(t), \A s \in SubGroups(t, x) : s \in T
      PROVE  x \in T
  <2>. SUFFICES ASSUME x \in A PROVE W[x] = U[x]
    OBVIOUS
  <2>1. CASE x \notin Touched(p)
    <3>1. ~Reordered(p, x) /\ x \notin PatchTouched(p)
      BY <2>1, UntouchedIsClean
    <3>. QED
      BY <3>1, CleanIsCopied
  <2>2. CASE x \in Touched(p)
    <3>. DEFINE list == Visited(p, x)
                w(i) == LET n == list[i]
                        IN  IF n \in Groups(t) THEN W[n] ELSE <<WriteRecord(p, n)>>
                u(i) == LET n == list[i]
                        IN  IF n \in Groups(t) THEN U[n] ELSE <<WriteRecord(p, n)>>
    <3>1. \A s \in SubGroups(t, x) : W[s] = U[s]
      BY <1>2, <1>3
    <3>2. \A i \in 1..Len(list) : list[i] \in Groups(t) => list[i] \in SubGroups(t, x)
      BY VisitedChildren DEF VisitsChildren, SubGroups
    <3>3. \A i \in 1..Len(list) : w(i) = u(i)
      BY <3>1, <3>2
    <3>4. W[x] = WithGroupHeader(x, FlattenSeq([i \in 1..Len(list) |-> w(i)]))
      BY <1>1, <2>2 DEF WriteStep
    <3>5. U[x] = WithGroupHeader(x, FlattenSeq([i \in 1..Len(list) |-> u(i)]))
      BY <1>1 DEF WriteStep
    <3>. HIDE DEF w, u
    <3>6. [i \in 1..Len(list) |-> w(i)] = [i \in 1..Len(list) |-> u(i)]
      BY <3>3
    <3>. QED
      BY <3>4, <3>5, <3>6, Zenon
  <2>. QED
    BY <2>1, <2>2
<1>4. Groups(t) \subseteq T
  <2>. HIDE DEF T
  <2>1. \A x \in Groups(t) : (\A s \in SubGroups(t, x) : s \in T) => x \in T
    BY <1>3
  <2>. QED
    BY <2>1, TreeInduction
<1>. QED
  BY <1>2, <1>4

\* So the stream is the intended one.
LEMMA StreamIsIntended ==
    ASSUME NEW p, IsPlugin(p.plugin), PatcherOK(p), NoSiblingReorders(p)
    PROVE  Tail(Stream(p)) = IntendedGroups(p)
<1>. DEFINE t == p.plugin
            U == WriteGroup(p, Groups(t))
<1>1. \A g \in ToSet(t.top) : g \in Groups(t) /\ g \in AllGroups(t)
  <2>1. \A g \in ToSet(t.top) : g \in Groups(t)
    BY TopFacts
  <2>2. \A g \in ToSet(t.top) : g \in Below(t)[g]
    BY <2>1, BelowSubGroup
  <2>. QED
    BY <2>1, <2>2 DEF AllGroups
<1>2. CASE NothingRegistered(p)
  <2>1. \A g \in Groups(t) : ~Reordered(p, g) /\ g \notin PatchTouched(p)
    BY <1>2 DEF NothingRegistered, Reordered, PatchTouched
  <2>2. \A g \in ToSet(t.top) : Verbatim(t)[g] = U[g]
    BY <1>1, <2>1, CleanIsCopied
  <2>3. TopGroups(t, Verbatim(t)) = TopGroups(t, U)
    BY <2>2, TopGroupsAgree
  <2>. QED
    BY <1>2, <2>3, StreamParts DEF IntendedGroups
<1>3. CASE ~NothingRegistered(p)
  <2>1. \A g \in ToSet(t.top) : WriteGroup(p, Touched(p))[g] = U[g]
    BY <1>1, TouchedGroupsAreIntended
  <2>2. TopGroups(t, WriteGroup(p, Touched(p))) = TopGroups(t, U)
    BY <2>1, TopGroupsAgree
  <2>. QED
    BY <1>3, <2>2, StreamParts DEF IntendedGroups
<1>. QED
  BY <1>2, <1>3

\* The tail of what was written before a failure is a prefix of the tail.
LEMMA TailOfPart ==
    ASSUME NEW P, NEW s \in Seq(P), NEW n \in 1..Len(s)
    PROVE  IsPrefix(Tail(SubSeq(s, 1, n)), Tail(s))
<1>. DEFINE part == SubSeq(s, 1, n)
            a == Tail(part)
            b == Tail(s)
<1>1. Len(s) \in Nat /\ n \in Nat \ {0} /\ n <= Len(s) /\ s # <<>>
  OBVIOUS
<1>2. part \in Seq(P) /\ Len(part) = n /\ \A i \in 1..n : part[i] = s[i]
  BY <1>1
<1>3. b \in Seq(P) /\ Len(b) = Len(s) - 1 /\ \A i \in 1..(Len(s) - 1) : b[i] = s[i + 1]
  BY <1>1
<1>4. a \in Seq(P) /\ Len(a) = n - 1 /\ \A i \in 1..(n - 1) : a[i] = part[i + 1]
  <2>. HIDE DEF part
  <2>1. part # <<>>
    BY <1>1, <1>2
  <2>. QED
    BY <1>1, <1>2, <2>1
<1>5. \A i \in 1..(n - 1) : a[i] = b[i]
  <2>. SUFFICES ASSUME NEW i \in 1..(n - 1) PROVE a[i] = b[i]
    OBVIOUS
  <2>1. i + 1 \in 1..n /\ i \in 1..(Len(s) - 1)
    BY <1>1
  <2>. HIDE DEF a, b, part
  <2>. QED
    BY <1>2, <1>3, <1>4, <2>1
<1>. HIDE DEF a, b
<1>6. Len(a) <= Len(b)
  BY <1>1, <1>3, <1>4
<1>7. SubSeq(a, 1, Len(a)) = SubSeq(b, 1, Len(a))
  <2>1. Len(a) \in Nat /\ Len(b) \in Nat
    BY <1>1, <1>3, <1>4
  <2>2. SubSeq(a, 1, Len(a)) = [i \in 1..Len(a) |-> a[i]]
    BY <1>4, <2>1
  <2>3. SubSeq(b, 1, Len(a)) = [i \in 1..Len(a) |-> b[i]]
    BY <1>3, <1>6, <2>1
  <2>4. \A i \in 1..Len(a) : a[i] = b[i]
    BY <1>4, <1>5
  <2>. QED
    BY <2>2, <2>3, <2>4
<1>. QED
  BY <1>6, <1>7 DEF IsPrefix, a, b, part

\* What a failed write leaves is a prefix of the stream.
LEMMA PartIsIntended ==
    ASSUME NEW p, IsPlugin(p.plugin), PatcherOK(p), NoSiblingReorders(p),
           NEW n \in 0..(Len(Stream(p)) - 1), SubSeq(Stream(p), 1, n) # <<>>
    PROVE  IsPrefix(Tail(SubSeq(Stream(p), 1, n)), IntendedGroups(p))
<1>. DEFINE t == p.plugin
            s == Stream(p)
<1>1. GoodStream(t, s, CutOff(p))
  BY StreamGood
<1>2. PICK h : \E b : s = <<h>> \o b /\ Good(t, b, "top", AllNodes(t), CutOff(p))
  BY <1>1 DEF GoodStream
<1>3. PICK b : s = <<h>> \o b /\ Good(t, b, "top", AllNodes(t), CutOff(p))
  BY <1>2
<1>4. b \in Seq(Pieces(t))
  BY <1>3 DEF Good
<1>5. s \in Seq({h} \union Pieces(t))
  <2>1. <<h>> \in Seq({h} \union Pieces(t)) /\ b \in Seq({h} \union Pieces(t))
    BY <1>4
  <2>. QED
    BY <1>3, <2>1, ConcatAt
<1>6. Tail(s) = IntendedGroups(p)
  BY StreamIsIntended
<1>. HIDE DEF s
<1>7. n # 0
  <2>1. SubSeq(s, 1, n) # <<>>
    BY DEF s
  <2>. QED
    BY <1>5, <2>1
<1>8. n \in 1..Len(s)
  <2>1. n \in 0..(Len(s) - 1)
    BY DEF s
  <2>. QED
    BY <1>5, <1>7, <2>1
<1>. DEFINE Q == {h} \union Pieces(t)
<1>9. s \in Seq(Q)
  BY <1>5
<1>. HIDE DEF Q
<1>10. IsPrefix(Tail(SubSeq(s, 1, n)), Tail(s))
  BY <1>8, <1>9, TailOfPart
<1>. QED
  BY <1>6, <1>10 DEF s

(***************************************************************************)
(* The patcher after any calls, and what the last call has written.        *)
(***************************************************************************)
TypeOK ==
    /\ patcher = [plugin |-> patcher.plugin, patches |-> patcher.patches,
                  groupOrders |-> patcher.groupOrders, headerPatch |-> patcher.headerPatch]
    /\ PatcherOK(patcher)

Inv ==
    /\ TypeOK
    /\ result = "written" => out = Stream(patcher)
    /\ result = "io error" => \E n \in 0..(Len(Stream(patcher)) - 1) :
                                 out = SubSeq(Stream(patcher), 1, n)

\* A new patcher holds no edits.
LEMMA InitInv == Init => Inv
<1>. SUFFICES ASSUME Init PROVE Inv
  OBVIOUS
<1>1. PICK t \in Plugins :
         patcher = [plugin |-> t, patches |-> <<>>, groupOrders |-> <<>>, headerPatch |-> <<>>]
  BY DEF Init
<1>2. /\ patcher.plugin = t /\ patcher.patches = <<>> /\ patcher.groupOrders = <<>>
      /\ patcher.headerPatch = <<>>
  BY <1>1
<1>3. PatcherOK(patcher)
  BY <1>2 DEF PatcherOK
<1>4. result = "new"
  BY DEF Init
<1>. QED
  BY <1>1, <1>2, <1>3, <1>4 DEF Inv, TypeOK

\* Every call keeps the patcher well formed, and a write leaves the stream.
LEMMA NextInv == Inv /\ [Next]_vars => Inv'
<1>. SUFFICES ASSUME Inv, [Next]_vars PROVE Inv'
  OBVIOUS
<1>. DEFINE p == patcher
<1>1. /\ p = [plugin |-> p.plugin, patches |-> p.patches,
              groupOrders |-> p.groupOrders, headerPatch |-> p.headerPatch]
      /\ PatcherOK(p)
  BY DEF Inv, TypeOK
<1>2. CASE ReplaceRecord
  <2>1. PICK f \in FormIds, body \in Replacements :
           /\ patcher' = [p EXCEPT !.patches = Put(p.patches, f, body)]
           /\ result' = "ok"
    BY <1>2 DEF ReplaceRecord
  <2>2. /\ patcher' = [plugin |-> p.plugin, patches |-> Put(p.patches, f, body),
                       groupOrders |-> p.groupOrders, headerPatch |-> p.headerPatch]
    BY <1>1, <2>1
  <2>3. \A x \in DOMAIN Put(p.patches, f, body) :
           x \in FormIds /\ Put(p.patches, f, body)[x] \in Replacements
    BY <1>1 DEF Put, PatcherOK
  <2>4. /\ patcher'.plugin = p.plugin /\ patcher'.patches = Put(p.patches, f, body)
        /\ patcher'.groupOrders = p.groupOrders /\ patcher'.headerPatch = p.headerPatch
    BY <2>2
  <2>5. PatcherOK(patcher')
    BY <1>1, <2>3, <2>4 DEF PatcherOK
  <2>6. TypeOK'
    BY <2>2, <2>4, <2>5 DEF TypeOK
  <2>. QED
    BY <2>1, <2>6 DEF Inv
<1>3. CASE ReorderGroupRecords
  <2>1. PICK g \in Groups(p.plugin), order \in UNION {[1..n -> FormIds] : n \in 0..MaxOrder} :
           /\ result' = OrderError(p.plugin, g, order)
           /\ patcher' = IF result' = "ok"
                         THEN [p EXCEPT !.groupOrders = Put(p.groupOrders, g, order)]
                         ELSE p
    BY <1>3 DEF ReorderGroupRecords
  <2>2. result' \notin {"written", "io error"}
    BY <2>1 DEF OrderError
  <2>3. CASE result' # "ok"
    <3>1. patcher' = p
      BY <2>1, <2>3
    <3>2. TypeOK'
      BY <1>1, <3>1 DEF TypeOK
    <3>. QED
      BY <2>2, <3>2 DEF Inv
  <2>4. CASE result' = "ok"
    <3>1. order \in Seq(FormIds)
      <4>1. PICK n \in 0..MaxOrder : order \in [1..n -> FormIds]
        BY <2>1
      <4>2. n \in Nat
        BY <4>1, PatcherAssumption
      <4>. QED
        BY <4>1, <4>2
    <3>2. OrderOK(p.plugin, g, order)
      BY <2>1, <2>4, <3>1 DEF OrderOK
    <3>3. \A x \in DOMAIN Put(p.groupOrders, g, order) :
             OrderOK(p.plugin, x, Put(p.groupOrders, g, order)[x])
      BY <1>1, <3>2 DEF Put, PatcherOK
    <3>4. patcher' = [plugin |-> p.plugin, patches |-> p.patches,
                      groupOrders |-> Put(p.groupOrders, g, order), headerPatch |-> p.headerPatch]
      BY <1>1, <2>1, <2>4
    <3>5. /\ patcher'.plugin = p.plugin /\ patcher'.patches = p.patches
          /\ patcher'.groupOrders = Put(p.groupOrders, g, order) /\ patcher'.headerPatch = p.headerPatch
      BY <3>4
    <3>6. PatcherOK(patcher')
      BY <1>1, <3>3, <3>5 DEF PatcherOK
    <3>7. TypeOK'
      BY <3>4, <3>5, <3>6 DEF TypeOK
    <3>. QED
      BY <2>2, <3>7 DEF Inv
  <2>. QED
    BY <2>3, <2>4
<1>4. CASE PatchHeader
  <2>1. PICK n \in MasterCounts \union {p.plugin.masters} :
           patcher' = [p EXCEPT !.headerPatch = <<n>>] /\ result' = "ok"
    BY <1>4 DEF PatchHeader
  <2>2. n \in Nat
    <3>1. IsPlugin(p.plugin)
      BY <1>1, PatcherAssumption DEF PatcherOK
    <3>. QED
      BY <2>1, <3>1, PatcherAssumption DEF IsPlugin
  <2>3. patcher' = [plugin |-> p.plugin, patches |-> p.patches,
                    groupOrders |-> p.groupOrders, headerPatch |-> <<n>>]
    BY <1>1, <2>1
  <2>4. /\ patcher'.plugin = p.plugin /\ patcher'.patches = p.patches
        /\ patcher'.groupOrders = p.groupOrders /\ patcher'.headerPatch = <<n>>
    BY <2>3
  <2>5. PatcherOK(patcher')
    BY <1>1, <2>2, <2>4 DEF PatcherOK
  <2>6. TypeOK'
    BY <2>3, <2>4, <2>5 DEF TypeOK
  <2>. QED
    BY <2>1, <2>6 DEF Inv
<1>5. CASE WriteTo
  <2>1. patcher' = p /\ out' = Stream(p) /\ result' = "written"
    BY <1>5 DEF WriteTo
  <2>2. TypeOK'
    BY <1>1, <2>1 DEF TypeOK
  <2>3. out' = Stream(patcher')
    BY <2>1
  <2>. QED
    BY <2>1, <2>2, <2>3 DEF Inv
<1>6. CASE WriteToFails
  <2>1. /\ patcher' = p /\ result' = "io error"
        /\ \E n \in 0..(Len(Stream(p)) - 1) : out' = SubSeq(Stream(p), 1, n)
    BY <1>6 DEF WriteToFails
  <2>2. TypeOK'
    BY <1>1, <2>1 DEF TypeOK
  <2>3. \E n \in 0..(Len(Stream(patcher')) - 1) : out' = SubSeq(Stream(patcher'), 1, n)
    BY <2>1
  <2>. QED
    BY <2>1, <2>2, <2>3 DEF Inv
<1>7. CASE UNCHANGED vars
  BY <1>7 DEF vars, Inv, TypeOK
<1>. QED
  BY <1>2, <1>3, <1>4, <1>5, <1>6, <1>7 DEF Next

\* The invariant holds in every state.
LEMMA InvHolds == Spec => []Inv
BY InitInv, NextInv, PTL DEF Spec

\* The patcher holds accepted orders, registered bodies and one header patch.
THEOREM TypeCorrect == Spec => []TypeOK
<1>1. Inv => TypeOK
  BY DEF Inv
<1>. QED
  BY InvHolds, <1>1, PTL

\* The plugin of a well-formed patcher is a plugin.
LEMMA ItsPlugin == ASSUME NEW p, PatcherOK(p) PROVE IsPlugin(p.plugin)
BY PatcherAssumption DEF PatcherOK

\* write_to with mark_touched and mark_reordered: as long as no two sibling
\* groups are both reordered, the stream holds every registered edit, and a
\* failed write leaves a prefix of it.
THEOREM EditsWritten == Spec => []EditsAreWrittenWithoutSiblingReorders
<1>1. Inv => EditsAreWrittenWithoutSiblingReorders
  <2>. SUFFICES ASSUME Inv, NoSiblingReorders(patcher)
                PROVE  /\ result = "written" => Tail(out) = IntendedGroups(patcher)
                       /\ (result = "io error" /\ out # <<>>) =>
                             IsPrefix(Tail(out), IntendedGroups(patcher))
    BY DEF EditsAreWrittenWithoutSiblingReorders
  <2>1. PatcherOK(patcher) /\ IsPlugin(patcher.plugin)
    BY ItsPlugin DEF Inv, TypeOK
  <2>2. result = "written" => Tail(out) = IntendedGroups(patcher)
    BY <2>1, StreamIsIntended DEF Inv
  <2>3. ASSUME result = "io error", out # <<>>
        PROVE  IsPrefix(Tail(out), IntendedGroups(patcher))
    <3>1. PICK n \in 0..(Len(Stream(patcher)) - 1) : out = SubSeq(Stream(patcher), 1, n)
      BY <2>3 DEF Inv
    <3>. QED
      BY <2>1, <2>3, <3>1, PartIsIntended
  <2>. QED
    BY <2>2, <2>3
<1>. QED
  BY InvHolds, <1>1, PTL

\* write_group's recomputed sizes: a reader finds every group and record of the
\* stream inside the group it came from, each of them once, if and only if the
\* cast to a u32 (patcher.rs:329) changes the size of no walked group.
THEOREM ReaderFindsTheTree == Spec => []ReaderFindsTheSameTree
<1>1. Inv => ReaderFindsTheSameTree
  <2>. SUFFICES ASSUME Inv, result = "written"
                PROVE  SizesFit(patcher) <=> FindsTree(patcher.plugin, out)
    BY DEF ReaderFindsTheSameTree
  <2>1. PatcherOK(patcher) /\ IsPlugin(patcher.plugin) /\ out = Stream(patcher)
    BY ItsPlugin DEF Inv, TypeOK
  <2>2. GoodStream(patcher.plugin, out, CutOff(patcher))
    BY <2>1, StreamGood
  <2>. QED
    BY <2>1, <2>2, ReaderFindsTree, NoneIsCutOff
<1>. QED
  BY InvHolds, <1>1, PTL

\* updated_payload: a stream with a re-serialised group has counters that count
\* its groups and records, and a next object id above those of its own records.
THEOREM CountersFit == Spec => []HeaderCountsTheStream
<1>1. Inv => HeaderCountsTheStream
  <2>. SUFFICES ASSUME Inv, result = "written", Tail(out) # Tail(SourceStream(patcher.plugin))
                PROVE  LET header == out[1].node
                       IN  /\ header[1] = Len(out) - 1
                           /\ header[2] >= patcher.plugin.next
                           /\ \A i \in 2..Len(out) :
                                 out[i].kind = "record" =>
                                    LET f == patcher.plugin.form[out[i].node]
                                    IN  f.file = header[3] => f.object < header[2]
    BY DEF HeaderCountsTheStream
  <2>1. PatcherOK(patcher) /\ IsPlugin(patcher.plugin) /\ out = Stream(patcher)
    BY ItsPlugin DEF Inv, TypeOK
  <2>. QED
    BY <2>1, HeaderFits
<1>. QED
  BY InvHolds, <1>1, PTL
=============================================================================
