---------------------------- MODULE SequenceFacts ----------------------------
(***************************************************************************)
(* Facts about numbers and sequences that the proofs about the plugin      *)
(* modules rest on: induction up to a bound, the least and the greatest    *)
(* element, and what Append, \o and FlattenSeq yield.                      *)
(***************************************************************************)
EXTENDS Integers, SequencesExt, WellFoundedInduction, TLAPS

(***************************************************************************)
(* Induction over a set of numbers.                                        *)
(***************************************************************************)
LEMMA LeastElement ==
    ASSUME NEW T, T \subseteq Nat, T # {}
    PROVE  \E m \in T : \A k \in T : m <= k
<1>1. \E m \in T : \A k \in T : <<k, m>> \notin OpToRel(<, Nat)
  BY NatLessThanWellFounded, WFMin
<1>2. \A m, n \in Nat : m < n => <<m, n>> \in OpToRel(<, Nat)
  BY DEF OpToRel
<1>3. \E m \in T : \A k \in T : ~(k < m)
  BY <1>1, <1>2, Zenon
<1>. QED
  BY <1>3

\* Induction over 0..N, from the least number that is not in T.
LEMMA UpToInduction ==
    ASSUME NEW N \in Nat, NEW T, 0 \in T, \A n \in 0..(N - 1) : n \in T => n + 1 \in T
    PROVE  \A n \in 0..N : n \in T
<1>. DEFINE Bad == {n \in 0..N : n \notin T}
<1>. SUFFICES ASSUME Bad # {} PROVE FALSE
  OBVIOUS
<1>1. Bad \subseteq Nat
  OBVIOUS
<1>2. PICK m \in Bad : \A k \in Bad : m <= k
  <2>. HIDE DEF Bad
  <2>. QED
    BY <1>1, LeastElement
<1>3. m # 0 /\ m - 1 \in 0..(N - 1) /\ m - 1 \in 0..N
  BY <1>2
<1>4. m - 1 \notin T
  BY <1>2, <1>3
<1>5. ~(m <= m - 1)
  BY <1>2
<1>. QED
  BY <1>2, <1>3, <1>4, <1>5

\* A non-empty set of numbers up to N has a greatest one.
LEMMA GreatestElement ==
    ASSUME NEW N \in Nat, NEW T, T \subseteq 0..N, T # {}
    PROVE  \E m \in T : \A k \in T : k <= m
<1>. DEFINE D == {d \in 0..N : N - d \in T}
<1>1. D \subseteq Nat
  OBVIOUS
<1>2. D # {}
  <2>1. PICK k \in T : TRUE
    OBVIOUS
  <2>2. N - k \in 0..N /\ N - (N - k) = k
    OBVIOUS
  <2>. QED
    BY <2>1, <2>2
<1>3. PICK d \in D : \A c \in D : d <= c
  <2>. HIDE DEF D
  <2>. QED
    BY <1>1, <1>2, LeastElement
<1>4. ASSUME NEW k \in T PROVE k <= N - d
  <2>1. k \in 0..N /\ N - k \in 0..N /\ N - (N - k) = k
    OBVIOUS
  <2>2. d <= N - k
    BY <1>3, <2>1
  <2>. QED
    BY <2>1, <2>2
<1>. QED
  BY <1>3, <1>4

\* x is in the list; and no element is in it twice.
In(list, x) == \E i \in 1..Len(list) : list[i] = x
Injective(list) == \A i, j \in 1..Len(list) : list[i] = list[j] => i = j

\* What Append adds.
LEMMA AppendMembers ==
    ASSUME NEW S, NEW list \in Seq(S), NEW x \in S
    PROVE  /\ Append(list, x) \in Seq(S)
           /\ \A y : In(Append(list, x), y) <=> In(list, y) \/ y = x
           /\ Injective(list) /\ ~In(list, x) => Injective(Append(list, x))
<1>1. /\ Append(list, x) \in Seq(S)
      /\ Len(Append(list, x)) = Len(list) + 1
      /\ \A i \in 1..Len(list) : Append(list, x)[i] = list[i]
      /\ Append(list, x)[Len(list) + 1] = x
      /\ Len(list) \in Nat
  OBVIOUS
<1>. DEFINE new == Append(list, x)
<1>2. \A i \in 1..(Len(list) + 1) : i \in 1..Len(list) \/ i = Len(list) + 1
  BY <1>1
<1>3. 1..Len(list) \subseteq 1..(Len(list) + 1) /\ Len(list) + 1 \in 1..(Len(list) + 1)
  BY <1>1
<1>. HIDE DEF new
<1>4. \A y : In(new, y) <=> In(list, y) \/ y = x
  BY <1>1, <1>2, <1>3 DEF In, new
<1>5. Injective(list) /\ ~In(list, x) => Injective(new)
  BY <1>1, <1>2, <1>3 DEF In, Injective, new
<1>. QED
  BY <1>1, <1>4, <1>5 DEF new

(***************************************************************************)
(* FlattenSeq: what is in the flattened list is in one of the lists.       *)
(***************************************************************************)
FlattenStep(seqs, f, n) == IF n = 1 THEN seqs[n] ELSE f[n - 1] \o seqs[n]

\* The recursion of FlattenSeq has a solution, so FlattenSeq is what it says.
LEMMA FlattenRecursion ==
    ASSUME NEW seqs, Len(seqs) \in Nat \ {0}
    PROVE  \E f : /\ f = [n \in 1..Len(seqs) |-> FlattenStep(seqs, f, n)]
                  /\ FlattenSeq(seqs) = f[Len(seqs)]
<1>. DEFINE Good(f, m) == f = [n \in 1..m |-> FlattenStep(seqs, f, n)]
            T == {m \in Nat : \E f : Good(f, m)}
<1>1. 0 \in T
  <2>1. Good([n \in 1..0 |-> <<>>], 0)
    OBVIOUS
  <2>. QED
    BY <2>1
<1>2. ASSUME NEW m \in Nat, m \in T PROVE m + 1 \in T
  <2>1. PICK f : Good(f, m)
    BY <1>2
  <2>. DEFINE h == [n \in 1..(m + 1) |-> IF n = m + 1 THEN FlattenStep(seqs, f, n) ELSE f[n]]
  <2>2. \A n \in 1..(m + 1) : h[n] = FlattenStep(seqs, h, n)
    <3>1. \A n \in 1..m : f[n] = FlattenStep(seqs, f, n)
      BY <2>1
    <3>2. \A n \in 1..(m + 1) : n # 1 => n - 1 \in 1..m /\ h[n - 1] = f[n - 1]
      OBVIOUS
    <3>3. \A n \in 1..(m + 1) : FlattenStep(seqs, h, n) = FlattenStep(seqs, f, n)
      <4>. HIDE DEF h
      <4>. QED
        BY <3>2 DEF FlattenStep
    <3>. QED
      BY <3>1, <3>3
  <2>3. h = [n \in 1..(m + 1) |-> FlattenStep(seqs, h, n)]
    BY <2>2
  <2>4. \E ff : Good(ff, m + 1)
    <3>. HIDE DEF h
    <3>. QED
      BY <2>3, Zenon
  <2>. QED
    BY <2>4
<1>3. Len(seqs) \in T
  <2>1. \A n \in 0..(Len(seqs) - 1) : n \in T => n + 1 \in T
    BY <1>2
  <2>2. Len(seqs) \in Nat /\ Len(seqs) \in 0..Len(seqs)
    OBVIOUS
  <2>. HIDE DEF T
  <2>3. \A n \in 0..Len(seqs) : n \in T
    BY <1>1, <2>1, <2>2, UpToInduction
  <2>. QED
    BY <2>2, <2>3
<1>4. PICK f : Good(f, Len(seqs))
  BY <1>3
<1>. DEFINE up == CHOOSE ff : ff = [n \in 1..Len(seqs) |->
                                      IF n = 1 THEN seqs[n] ELSE ff[n - 1] \o seqs[n]]
<1>5. up = [n \in 1..Len(seqs) |-> IF n = 1 THEN seqs[n] ELSE up[n - 1] \o seqs[n]]
  BY <1>4, Zenon DEF FlattenStep
<1>6. FlattenSeq(seqs) = up[Len(seqs)]
  BY DEF FlattenSeq
<1>. QED
  BY <1>5, <1>6, Zenon DEF FlattenStep

\* The elements of a concatenation by place.
LEMMA ConcatAt ==
    ASSUME NEW S, NEW a \in Seq(S), NEW b \in Seq(S)
    PROVE  /\ a \o b \in Seq(S)
           /\ Len(a) \in Nat /\ Len(b) \in Nat /\ Len(a \o b) = Len(a) + Len(b)
           /\ \A i \in 1..Len(a) : (a \o b)[i] = a[i]
           /\ \A i \in 1..Len(b) : (a \o b)[Len(a) + i] = b[i]
OBVIOUS

\* The members of a concatenation.
LEMMA ConcatMembers ==
    ASSUME NEW S, NEW a \in Seq(S), NEW b \in Seq(S)
    PROVE  /\ a \o b \in Seq(S)
           /\ \A x : In(a \o b, x) <=> In(a, x) \/ In(b, x)
<1>1. /\ a \o b \in Seq(S)
      /\ Len(a \o b) = Len(a) + Len(b)
      /\ \A i \in 1..Len(a) : (a \o b)[i] = a[i]
      /\ \A i \in 1..Len(b) : (a \o b)[Len(a) + i] = b[i]
      /\ Len(a) \in Nat /\ Len(b) \in Nat
  BY ConcatAt
<1>. DEFINE c == a \o b
<1>2. \A i \in 1..(Len(a) + Len(b)) : i \in 1..Len(a) \/ i - Len(a) \in 1..Len(b)
  BY <1>1
<1>3. \A i \in 1..(Len(a) + Len(b)) : Len(a) + (i - Len(a)) = i
  BY <1>1
<1>4. /\ 1..Len(a) \subseteq 1..(Len(a) + Len(b))
      /\ \A i \in 1..Len(b) : Len(a) + i \in 1..(Len(a) + Len(b))
  BY <1>1
<1>. HIDE DEF c
<1>5. ASSUME NEW x PROVE In(c, x) => In(a, x) \/ In(b, x)
  BY <1>1, <1>2, <1>3 DEF In, c
<1>6. ASSUME NEW x PROVE In(a, x) \/ In(b, x) => In(c, x)
  BY <1>1, <1>4 DEF In, c
<1>. QED
  BY <1>1, <1>5, <1>6 DEF c

\* The members of a flattened sequence.
LEMMA FlattenMembers ==
    ASSUME NEW S, NEW gs \in Seq(Seq(S))
    PROVE  /\ FlattenSeq(gs) \in Seq(S)
           /\ \A x : In(FlattenSeq(gs), x) <=> \E i \in 1..Len(gs) : In(gs[i], x)
<1>1. Len(gs) \in Nat
  OBVIOUS
<1>2. CASE Len(gs) = 0
  <2>1. FlattenSeq(gs) = gs /\ gs = <<>>
    BY <1>2 DEF FlattenSeq
  <2>2. <<>> \in Seq(S) /\ Len(<<>>) = 0
    OBVIOUS
  <2>. QED
    BY <2>1, <2>2 DEF In
<1>3. CASE Len(gs) # 0
  <2>1. Len(gs) \in Nat \ {0}
    BY <1>1, <1>3
  <2>2. PICK f : /\ f = [n \in 1..Len(gs) |-> FlattenStep(gs, f, n)]
                 /\ FlattenSeq(gs) = f[Len(gs)]
    BY <2>1, FlattenRecursion
  <2>3. \A n \in 1..Len(gs) : f[n] = FlattenStep(gs, f, n)
    BY <2>2
  <2>. DEFINE Good(n) == /\ f[n] \in Seq(S)
                         /\ \A x : In(f[n], x) <=> \E i \in 1..n : In(gs[i], x)
              T == {n \in 0..Len(gs) : n = 0 \/ Good(n)}
  <2>4. 0 \in T
    BY <1>1
  <2>5. ASSUME NEW n \in 0..(Len(gs) - 1), n \in T PROVE n + 1 \in T
    <3>1. n + 1 \in 1..Len(gs) /\ n + 1 \in 0..Len(gs) /\ (n + 1) - 1 = n
          /\ gs[n + 1] \in Seq(S)
      BY <1>1
    <3>2. \A i \in 1..(n + 1) : i \in 1..n \/ i = n + 1
      OBVIOUS
    <3>3. 1..n \subseteq 1..(n + 1) /\ n + 1 \in 1..(n + 1)
      OBVIOUS
    <3>4. CASE n = 0
      <4>1. f[n + 1] = gs[n + 1]
        BY <2>3, <3>1, <3>4 DEF FlattenStep
      <4>2. \A i \in 1..(n + 1) : i = n + 1
        BY <3>4
      <4>. QED
        BY <4>1, <4>2, <3>1, <3>3
    <3>5. CASE n # 0
      <4>1. n + 1 # 1
        BY <3>5
      <4>2. f[n + 1] = f[n] \o gs[n + 1]
        BY <2>3, <3>1, <4>1 DEF FlattenStep
      <4>3. Good(n)
        BY <2>5, <3>5
      <4>4. /\ f[n + 1] \in Seq(S)
            /\ \A x : In(f[n + 1], x) <=> In(f[n], x) \/ In(gs[n + 1], x)
        BY <3>1, <4>2, <4>3, ConcatMembers
      <4>5. \A x : In(f[n + 1], x) <=> \E i \in 1..(n + 1) : In(gs[i], x)
        BY <3>2, <3>3, <4>3, <4>4
      <4>. QED
        BY <3>1, <4>4, <4>5
    <3>. QED
      BY <3>4, <3>5
  <2>6. \A n \in 0..Len(gs) : n \in T
    <3>. HIDE DEF T
    <3>. QED
      BY <1>1, <2>4, <2>5, UpToInduction
  <2>7. Good(Len(gs))
    <3>1. Len(gs) \in 0..Len(gs)
      BY <1>1
    <3>2. Len(gs) \in T
      <4>. HIDE DEF T
      <4>. QED
        BY <2>6, <3>1
    <3>. HIDE DEF Good
    <3>. QED
      BY <1>3, <3>2
  <2>. QED
    BY <2>2, <2>7
<1>. QED
  BY <1>2, <1>3

\* A list more is flattened behind the others.
LEMMA FlattenAppend ==
    ASSUME NEW S, NEW gs \in Seq(Seq(S)), NEW x \in Seq(S)
    PROVE  FlattenSeq(Append(gs, x)) = FlattenSeq(gs) \o x
<1>. DEFINE new == Append(gs, x)
<1>1. /\ Len(gs) \in Nat /\ Len(new) = Len(gs) + 1
      /\ \A i \in 1..Len(gs) : new[i] = gs[i]
      /\ new[Len(gs) + 1] = x
  OBVIOUS
<1>. HIDE DEF new
<1>2. PICK f : /\ f = [n \in 1..Len(new) |-> FlattenStep(new, f, n)]
               /\ FlattenSeq(new) = f[Len(new)]
  <2>1. Len(new) \in Nat \ {0}
    BY <1>1
  <2>. QED
    BY <2>1, FlattenRecursion
<1>3. \A n \in 1..Len(new) : f[n] = FlattenStep(new, f, n)
  BY <1>2
<1>4. CASE Len(gs) = 0
  <2>1. FlattenSeq(gs) = <<>>
    BY <1>4 DEF FlattenSeq
  <2>2. f[1] = x /\ Len(new) = 1
    BY <1>1, <1>3, <1>4 DEF FlattenStep
  <2>3. <<>> \o x = x
    OBVIOUS
  <2>. QED
    BY <1>2, <2>1, <2>2, <2>3 DEF new
<1>5. CASE Len(gs) # 0
  <2>1. PICK h : /\ h = [n \in 1..Len(gs) |-> FlattenStep(gs, h, n)]
                 /\ FlattenSeq(gs) = h[Len(gs)]
    <3>1. Len(gs) \in Nat \ {0}
      BY <1>1, <1>5
    <3>. QED
      BY <3>1, FlattenRecursion
  <2>2. \A n \in 1..Len(gs) : h[n] = FlattenStep(gs, h, n)
    BY <2>1
  <2>. DEFINE T == {n \in 0..Len(gs) : n = 0 \/ f[n] = h[n]}
  <2>3. 0 \in T
    BY <1>1
  <2>4. ASSUME NEW n \in 0..(Len(gs) - 1), n \in T PROVE n + 1 \in T
    <3>1. n + 1 \in 1..Len(gs) /\ n + 1 \in 1..Len(new) /\ n + 1 \in 0..Len(gs) /\ (n + 1) - 1 = n
      BY <1>1
    <3>2. f[n + 1] = FlattenStep(new, f, n + 1) /\ h[n + 1] = FlattenStep(gs, h, n + 1)
      BY <1>3, <2>2, <3>1
    <3>3. n + 1 # 1 => f[n] = h[n]
      BY <2>4
    <3>4. new[n + 1] = gs[n + 1]
      BY <1>1, <3>1
    <3>5. FlattenStep(new, f, n + 1) = FlattenStep(gs, h, n + 1)
      BY <3>1, <3>3, <3>4 DEF FlattenStep
    <3>. QED
      BY <3>1, <3>2, <3>5
  <2>5. \A n \in 0..Len(gs) : n \in T
    <3>. HIDE DEF T
    <3>. QED
      BY <1>1, <2>3, <2>4, UpToInduction
  <2>6. f[Len(gs)] = h[Len(gs)]
    BY <1>1, <1>5, <2>5
  <2>7. f[Len(gs) + 1] = f[Len(gs)] \o x
    <3>1. Len(gs) + 1 \in 1..Len(new) /\ Len(gs) + 1 # 1 /\ (Len(gs) + 1) - 1 = Len(gs)
      BY <1>1, <1>5
    <3>. QED
      BY <1>1, <1>3, <3>1 DEF FlattenStep
  <2>. QED
    BY <1>1, <1>2, <2>1, <2>6, <2>7 DEF new
<1>. QED
  BY <1>4, <1>5

\* The same for a list that is given by its elements.
LEMMA FlattenNext ==
    ASSUME NEW S, NEW N \in Nat, NEW e, \A i \in 1..(N + 1) : e[i] \in Seq(S)
    PROVE  /\ FlattenSeq([i \in 1..N |-> e[i]]) \in Seq(S)
           /\ FlattenSeq([i \in 1..(N + 1) |-> e[i]]) = FlattenSeq([i \in 1..N |-> e[i]]) \o e[N + 1]
<1>. DEFINE gs == [i \in 1..N |-> e[i]]
<1>1. gs \in Seq(Seq(S)) /\ Len(gs) = N /\ \A i \in 1..N : gs[i] = e[i]
  OBVIOUS
<1>2. e[N + 1] \in Seq(S)
  OBVIOUS
<1>. HIDE DEF gs
<1>3. [i \in 1..(N + 1) |-> e[i]] = Append(gs, e[N + 1])
  <2>. DEFINE new == Append(gs, e[N + 1])
              T == Seq(S)
  <2>1. gs \in Seq(T) /\ e[N + 1] \in T
    BY <1>1, <1>2
  <2>. HIDE DEF T
  <2>2. /\ new \in Seq(T) /\ Len(new) = N + 1
        /\ \A i \in 1..N : new[i] = gs[i]
        /\ new[N + 1] = e[N + 1]
    BY <1>1, <2>1
  <2>. HIDE DEF new
  <2>3. new = [i \in 1..(N + 1) |-> new[i]]
    BY <2>2
  <2>4. \A i \in 1..(N + 1) : new[i] = e[i]
    <3>1. \A i \in 1..(N + 1) : i \in 1..N \/ i = N + 1
      OBVIOUS
    <3>. QED
      BY <1>1, <2>2, <3>1
  <2>. QED
    BY <2>3, <2>4 DEF new
<1>4. FlattenSeq(Append(gs, e[N + 1])) = FlattenSeq(gs) \o e[N + 1]
  BY <1>1, <1>2, FlattenAppend
<1>5. FlattenSeq(gs) \in Seq(S)
  BY <1>1, FlattenMembers
<1>. QED
  BY <1>3, <1>4, <1>5 DEF gs

\* Nothing flattens to nothing.
LEMMA FlattenNone ==
    ASSUME NEW e
    PROVE  FlattenSeq([i \in 1..0 |-> e[i]]) = <<>>
<1>1. [i \in 1..0 |-> e[i]] = <<>>
  OBVIOUS
<1>2. Len(<<>>) = 0
  OBVIOUS
<1>. QED
  BY <1>1, <1>2 DEF FlattenSeq

\* The part n of a flattened list is found behind the parts before it.
PartsInPlace(e, N) ==
    LET flat(n) == FlattenSeq([i \in 1..n |-> e[i]])
    IN  /\ Len(flat(0)) = 0
        /\ \A n \in 1..N :
              /\ Len(flat(n - 1)) \in Nat /\ Len(e[n]) \in Nat
              /\ Len(flat(n)) = Len(flat(n - 1)) + Len(e[n])
              /\ Len(flat(n)) <= Len(flat(N))
              /\ \A j \in 1..Len(e[n]) : flat(N)[Len(flat(n - 1)) + j] = e[n][j]

\* FlattenSeq keeps the order of the parts and the elements of each.
LEMMA FlattenAt ==
    ASSUME NEW S, NEW N \in Nat, NEW e, \A i \in 1..N : e[i] \in Seq(S)
    PROVE  FlattenSeq([i \in 1..N |-> e[i]]) \in Seq(S) /\ PartsInPlace(e, N)
<1>. DEFINE F == [n \in 0..N |-> FlattenSeq([i \in 1..n |-> e[i]])]
            Placed(m) == /\ F[m] \in Seq(S)
                         /\ Len(F[0]) = 0
                         /\ \A n \in 1..m :
                               /\ Len(F[n - 1]) \in Nat /\ Len(e[n]) \in Nat
                               /\ Len(F[n]) = Len(F[n - 1]) + Len(e[n])
                               /\ Len(F[n]) <= Len(F[m])
                               /\ \A j \in 1..Len(e[n]) : F[m][Len(F[n - 1]) + j] = e[n][j]
            T == {m \in 0..N : Placed(m)}
<1>1. \A n \in 0..N : F[n] = FlattenSeq([i \in 1..n |-> e[i]])
  OBVIOUS
<1>2. F[0] = <<>>
  BY <1>1, FlattenNone
<1>3. ASSUME NEW m \in 0..(N - 1) PROVE F[m] \in Seq(S) /\ F[m + 1] = F[m] \o e[m + 1]
  <2>1. m \in Nat /\ m \in 0..N /\ m + 1 \in 0..N /\ \A i \in 1..(m + 1) : e[i] \in Seq(S)
    OBVIOUS
  <2>2. /\ FlattenSeq([i \in 1..m |-> e[i]]) \in Seq(S)
        /\ FlattenSeq([i \in 1..(m + 1) |-> e[i]]) = FlattenSeq([i \in 1..m |-> e[i]]) \o e[m + 1]
    BY <2>1, FlattenNext
  <2>. QED
    BY <1>1, <2>1, <2>2
<1>. HIDE DEF F
<1>4. Placed(0)
  BY <1>2
<1>5. ASSUME NEW m \in 0..(N - 1), Placed(m) PROVE Placed(m + 1)
  <2>1. m \in Nat /\ m + 1 \in 1..N /\ e[m + 1] \in Seq(S)
    OBVIOUS
  <2>. DEFINE a == F[m]
              b == e[m + 1]
              c == F[m + 1]
  <2>2. a \in Seq(S) /\ b \in Seq(S) /\ c = a \o b
    BY <1>3, <2>1
  <2>3. /\ Len(F[0]) = 0
        /\ \A n \in 1..m :
              /\ Len(F[n - 1]) \in Nat /\ Len(e[n]) \in Nat
              /\ Len(F[n]) = Len(F[n - 1]) + Len(e[n])
              /\ Len(F[n]) <= Len(a)
              /\ \A j \in 1..Len(e[n]) : a[Len(F[n - 1]) + j] = e[n][j]
    BY <1>5
  <2>4. F[m] = a /\ F[m + 1] = c /\ e[m + 1] = b
    OBVIOUS
  <2>. HIDE DEF a, b, c
  <2>5. /\ c \in Seq(S) /\ Len(a) \in Nat /\ Len(b) \in Nat /\ Len(c) = Len(a) + Len(b)
        /\ \A j \in 1..Len(a) : c[j] = a[j]
        /\ \A j \in 1..Len(b) : c[Len(a) + j] = b[j]
    BY <2>2, ConcatAt
  <2>6. ASSUME NEW n \in 1..(m + 1)
        PROVE  /\ Len(F[n - 1]) \in Nat /\ Len(e[n]) \in Nat
               /\ Len(F[n]) = Len(F[n - 1]) + Len(e[n])
               /\ Len(F[n]) <= Len(c)
               /\ \A j \in 1..Len(e[n]) : c[Len(F[n - 1]) + j] = e[n][j]
    <3>1. CASE n = m + 1
      <4>1. n - 1 = m
        BY <2>1, <3>1
      <4>2. F[n - 1] = a /\ F[n] = c /\ e[n] = b
        BY <2>4, <3>1, <4>1
      <4>. QED
        BY <2>5, <4>2
    <3>2. CASE n # m + 1
      <4>1. n \in 1..m
        BY <2>1, <3>2
      <4>. DEFINE x == Len(F[n - 1])
                  y == Len(e[n])
      <4>2. /\ x \in Nat /\ y \in Nat /\ Len(F[n]) = x + y /\ Len(F[n]) <= Len(a)
            /\ \A j \in 1..y : a[x + j] = e[n][j]
        BY <2>3, <4>1
      <4>. HIDE DEF x, y
      <4>3. Len(F[n]) <= Len(c)
        BY <2>5, <4>2
      <4>4. \A j \in 1..y : x + j \in 1..Len(a)
        BY <2>5, <4>2
      <4>5. \A j \in 1..y : c[x + j] = e[n][j]
        BY <2>5, <4>2, <4>4
      <4>. QED
        BY <4>2, <4>3, <4>5 DEF x, y
    <3>. QED
      BY <3>1, <3>2
  <2>. QED
    BY <2>3, <2>4, <2>5, <2>6
<1>. HIDE DEF Placed
<1>6. 0 \in T /\ \A m \in 0..(N - 1) : m \in T => m + 1 \in T
  BY <1>4, <1>5
<1>. HIDE DEF T
<1>7. \A n \in 0..N : n \in T
  BY <1>6, UpToInduction
<1>8. Placed(N)
  BY <1>7 DEF T
<1>9. FlattenSeq([i \in 1..N |-> e[i]]) \in Seq(S)
  BY <1>1, <1>8 DEF Placed
<1>10. PartsInPlace(e, N)
  <2>. DEFINE flat(n) == FlattenSeq([i \in 1..n |-> e[i]])
  <2>1. \A n \in 0..N : F[n] = flat(n)
    BY <1>1
  <2>2. 0 \in 0..N /\ N \in 0..N /\ \A n \in 1..N : n \in 0..N /\ n - 1 \in 0..N
    OBVIOUS
  <2>. HIDE DEF flat
  <2>3. Len(flat(0)) = 0
    BY <1>8, <2>1, <2>2 DEF Placed
  <2>4. ASSUME NEW n \in 1..N
        PROVE  /\ Len(flat(n - 1)) \in Nat /\ Len(e[n]) \in Nat
               /\ Len(flat(n)) = Len(flat(n - 1)) + Len(e[n])
               /\ Len(flat(n)) <= Len(flat(N))
               /\ \A j \in 1..Len(e[n]) : flat(N)[Len(flat(n - 1)) + j] = e[n][j]
    <3>1. F[n] = flat(n) /\ F[n - 1] = flat(n - 1) /\ F[N] = flat(N)
      BY <2>1, <2>2
    <3>2. /\ Len(F[n - 1]) \in Nat /\ Len(e[n]) \in Nat
          /\ Len(F[n]) = Len(F[n - 1]) + Len(e[n])
          /\ Len(F[n]) <= Len(F[N])
          /\ \A j \in 1..Len(e[n]) : F[N][Len(F[n - 1]) + j] = e[n][j]
      BY <1>8 DEF Placed
    <3>. QED
      BY <3>1, <3>2
  <2>. QED
    BY <2>3, <2>4 DEF PartsInPlace, flat
<1>. QED
  BY <1>9, <1>10

\* Pairs behind each other.
LEMMA FlattenPairs ==
    ASSUME NEW S, NEW N \in Nat, NEW e, \A i \in 1..N : e[i] \in Seq(S) /\ Len(e[i]) = 2
    PROVE  LET all == FlattenSeq([i \in 1..N |-> e[i]])
           IN  /\ all \in Seq(S) /\ Len(all) = 2 * N
               /\ \A i \in 1..N : all[2 * i - 1] = e[i][1] /\ all[2 * i] = e[i][2]
<1>. DEFINE flat(n) == FlattenSeq([i \in 1..n |-> e[i]])
            all == flat(N)
            F == [n \in 0..N |-> Len(flat(n))]
            T == {n \in 0..N : F[n] = 2 * n}
<1>1. all \in Seq(S) /\ PartsInPlace(e, N)
  BY FlattenAt
<1>2. /\ F[0] = 0
      /\ \A n \in 1..N :
            /\ F[n] = F[n - 1] + 2
            /\ all[F[n - 1] + 1] = e[n][1] /\ all[F[n - 1] + 2] = e[n][2]
  <2>1. /\ Len(flat(0)) = 0
        /\ \A n \in 1..N :
              /\ Len(flat(n)) = Len(flat(n - 1)) + 2
              /\ all[Len(flat(n - 1)) + 1] = e[n][1] /\ all[Len(flat(n - 1)) + 2] = e[n][2]
    <3>1. /\ Len(flat(0)) = 0
          /\ \A n \in 1..N :
                /\ Len(flat(n)) = Len(flat(n - 1)) + Len(e[n])
                /\ \A j \in 1..Len(e[n]) : all[Len(flat(n - 1)) + j] = e[n][j]
      BY <1>1 DEF PartsInPlace
    <3>. HIDE DEF flat, all
    <3>2. \A n \in 1..N : Len(e[n]) = 2
      OBVIOUS
    <3>3. ASSUME NEW n \in 1..N
          PROVE  /\ Len(flat(n)) = Len(flat(n - 1)) + 2
                 /\ all[Len(flat(n - 1)) + 1] = e[n][1] /\ all[Len(flat(n - 1)) + 2] = e[n][2]
      <4>1. Len(e[n]) = 2
        BY <3>2
      <4>2. 1 \in 1..Len(e[n]) /\ 2 \in 1..Len(e[n])
        BY <4>1
      <4>. QED
        BY <3>1, <4>1, <4>2
    <3>. QED
      BY <3>1, <3>3
  <2>2. \A n \in 0..N : F[n] = Len(flat(n))
    OBVIOUS
  <2>3. 0 \in 0..N /\ \A n \in 1..N : n \in 0..N /\ n - 1 \in 0..N
    OBVIOUS
  <2>. HIDE DEF F, flat, all
  <2>. QED
    BY <2>1, <2>2, <2>3
<1>3. F[N] = Len(all)
  OBVIOUS
<1>. HIDE DEF F, flat, all
<1>4. 0 \in T
  BY <1>2
<1>5. \A n \in 0..(N - 1) : n \in T => n + 1 \in T
  <2>. SUFFICES ASSUME NEW n \in 0..(N - 1), n \in T PROVE n + 1 \in T
    OBVIOUS
  <2>1. n + 1 \in 1..N /\ (n + 1) - 1 = n /\ n + 1 \in 0..N
    OBVIOUS
  <2>2. F[n + 1] = F[n] + 2
    BY <1>2, <2>1
  <2>3. F[n] = 2 * n
    OBVIOUS
  <2>4. F[n + 1] = 2 * (n + 1)
    BY <2>2, <2>3
  <2>. QED
    BY <2>1, <2>4
<1>. HIDE DEF T
<1>6. \A n \in 0..N : n \in T
  BY <1>4, <1>5, UpToInduction
<1>7. \A n \in 0..N : F[n] = 2 * n
  BY <1>6 DEF T
<1>8. Len(all) = 2 * N
  BY <1>3, <1>7
<1>9. ASSUME NEW i \in 1..N PROVE all[2 * i - 1] = e[i][1] /\ all[2 * i] = e[i][2]
  <2>1. i - 1 \in 0..N
    OBVIOUS
  <2>2. F[i - 1] = 2 * (i - 1)
    BY <1>7, <2>1
  <2>3. F[i - 1] + 1 = 2 * i - 1 /\ F[i - 1] + 2 = 2 * i
    BY <2>2
  <2>. QED
    BY <1>2, <2>3
<1>10. all \in Seq(S)
  BY <1>1
<1>. QED
  BY <1>8, <1>9, <1>10 DEF all, flat
=============================================================================
