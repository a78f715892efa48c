------------------------ MODULE PatcherHeader_proofs ------------------------
(***************************************************************************)
(* Proofs about PatcherHeader for every header record and every patch: the *)
(* one-pass walk yields what each frame should become, and a second pass   *)
(* over the result changes nothing.                                        *)
(***************************************************************************)
EXTENDS PatcherHeader, SequenceFacts

MastersOf(p) == {Frame("MAST", name) : name \in ToSet(p.masters)}

\* Every frame a header may come to hold.
Frames ==
    (UNION {ToSet(h) : h \in Headers})
      \union {Frame("HEDR", "current"), Frame("DATA", "zero")}
      \union {Frame("SNAM", p.description) : p \in Patches}
      \union (UNION {MastersOf(p) : p \in Patches})

\* The headers a patch may meet consist of frames.
LEMMA HeadersHoldFrames == \A h \in Headers : h \in Seq(Frames)
<1>1. \A h \in Headers : ToSet(h) \subseteq Frames
  BY DEF Frames
<1>. QED
  BY <1>1, HeaderAssumption

-----------------------------------------------------------------------------
(***************************************************************************)
(* The frames of a master list: MAST and DATA in turn.                     *)
(***************************************************************************)
MasterPair(names, i) == <<Frame("MAST", names[i]), Frame("DATA", "zero")>>

Alternates(m) ==
    \A i \in 1..Len(m) : /\ m[i].sig \in {"MAST", "DATA"}
                         /\ i = 1 => m[i].sig = "MAST"
                         /\ i = Len(m) => m[i].sig = "DATA"
                         /\ m[i].sig = "DATA" => i > 1 /\ m[i - 1].sig = "MAST"

\* One more master keeps masters and their data alternating.
LEMMA PairAlternates ==
    ASSUME NEW m \in Seq(Frames), Alternates(m), NEW x, NEW y,
           x \in Frames, y \in Frames, x.sig = "MAST", y.sig = "DATA"
    PROVE  m \o <<x, y>> \in Seq(Frames) /\ Alternates(m \o <<x, y>>)
<1>. DEFINE pair == <<x, y>>
            new == m \o pair
<1>1. pair \in Seq(Frames) /\ Len(pair) = 2 /\ pair[1] = x /\ pair[2] = y
  OBVIOUS
<1>. HIDE DEF pair
<1>2. /\ new \in Seq(Frames) /\ Len(m) \in Nat /\ Len(new) = Len(m) + 2
      /\ \A i \in 1..Len(m) : new[i] = m[i]
      /\ new[Len(m) + 1] = x /\ new[Len(m) + 2] = y
  <2>1. 1 \in 1..Len(pair) /\ 2 \in 1..Len(pair)
    BY <1>1
  <2>2. pair \in Seq(Frames)
    BY <1>1
  <2>3. /\ new \in Seq(Frames) /\ Len(m) \in Nat /\ Len(new) = Len(m) + Len(pair)
        /\ \A i \in 1..Len(m) : new[i] = m[i]
        /\ \A i \in 1..Len(pair) : new[Len(m) + i] = pair[i]
    BY <2>2, ConcatAt
  <2>. HIDE DEF new
  <2>. QED
    BY <1>1, <2>1, <2>3
<1>. HIDE DEF new
<1>3. Alternates(new)
  <2>. SUFFICES ASSUME NEW i \in 1..Len(new)
                PROVE  /\ new[i].sig \in {"MAST", "DATA"}
                       /\ i = 1 => new[i].sig = "MAST"
                       /\ i = Len(new) => new[i].sig = "DATA"
                       /\ new[i].sig = "DATA" => i > 1 /\ new[i - 1].sig = "MAST"
    BY DEF Alternates
  <2>1. CASE i \in 1..Len(m)
    <3>1. (i - 1 \in 1..Len(m) \/ i = 1) /\ i # Len(new)
      BY <2>1, <1>2
    <3>2. /\ m[i].sig \in {"MAST", "DATA"}
          /\ i = 1 => m[i].sig = "MAST"
          /\ m[i].sig = "DATA" => i > 1 /\ m[i - 1].sig = "MAST"
      BY <2>1 DEF Alternates
    <3>3. new[i] = m[i] /\ (i - 1 \in 1..Len(m) => new[i - 1] = m[i - 1])
      BY <1>2, <2>1
    <3>. QED
      BY <3>1, <3>2, <3>3
  <2>2. CASE i = Len(m) + 1
    BY <1>2, <2>2
  <2>3. CASE i = Len(m) + 2
    <3>1. i - 1 = Len(m) + 1 /\ i > 1 /\ i # 1
      BY <1>2, <2>3
    <3>. QED
      BY <1>2, <2>3, <3>1
  <2>. QED
    BY <1>2, <2>1, <2>2, <2>3
<1>. QED
  BY <1>2, <1>3 DEF new, pair

\* The frames of a replacement list alternate between MAST and DATA.
LEMMA MasterFramesAlternate ==
    ASSUME NEW p \in Patches, p.masters # None
    PROVE  MasterFrames(p.masters) \in Seq(Frames) /\ Alternates(MasterFrames(p.masters))
<1>. DEFINE names == p.masters
            e == [i \in 1..Len(names) |-> MasterPair(names, i)]
            M(n) == FlattenSeq([i \in 1..n |-> e[i]])
            T == {n \in 0..Len(names) : M(n) \in Seq(Frames) /\ Alternates(M(n))}
<1>1. Len(names) \in Nat /\ \A i \in 1..Len(names) : names[i] \in ToSet(names)
  BY HeaderAssumption DEF ToSet
<1>2. \A i \in 1..Len(names) : /\ Frame("MAST", names[i]) \in Frames
                               /\ Frame("DATA", "zero") \in Frames
  <2>1. \A i \in 1..Len(names) : Frame("MAST", names[i]) \in MastersOf(p)
    BY <1>1 DEF MastersOf
  <2>2. MastersOf(p) \subseteq Frames
    BY DEF Frames
  <2>3. Frame("DATA", "zero") \in Frames
    BY DEF Frames
  <2>. QED
    BY <2>1, <2>2, <2>3
<1>3. \A i \in 1..Len(names) : e[i] \in Seq(Frames)
  BY <1>2 DEF MasterPair
<1>. HIDE DEF names
<1>4. 0 \in T
  <2>1. M(0) = <<>>
    BY FlattenNone
  <2>2. <<>> \in Seq(Frames) /\ Alternates(<<>>)
    BY DEF Alternates
  <2>3. 0 \in 0..Len(names)
    BY <1>1
  <2>. HIDE DEF M
  <2>. QED
    BY <2>1, <2>2, <2>3
<1>5. ASSUME NEW n \in 0..(Len(names) - 1), n \in T PROVE n + 1 \in T
  <2>1. n \in Nat /\ n + 1 \in 1..Len(names) /\ n + 1 \in 0..Len(names)
        /\ \A i \in 1..(n + 1) : e[i] \in Seq(Frames)
    BY <1>1, <1>3
  <2>2. e[n + 1] = <<Frame("MAST", names[n + 1]), Frame("DATA", "zero")>>
    BY <2>1 DEF MasterPair
  <2>. HIDE DEF e
  <2>3. M(n + 1) = M(n) \o e[n + 1]
    BY <2>1, FlattenNext
  <2>. HIDE DEF M
  <2>4. M(n) \in Seq(Frames) /\ Alternates(M(n))
    BY <1>5
  <2>5. Frame("MAST", names[n + 1]).sig = "MAST" /\ Frame("DATA", "zero").sig = "DATA"
    BY DEF Frame
  <2>6. M(n + 1) \in Seq(Frames) /\ Alternates(M(n + 1))
    BY <1>2, <2>1, <2>2, <2>3, <2>4, <2>5, PairAlternates
  <2>. QED
    BY <2>1, <2>6
<1>6. Len(names) \in T
  <2>1. Len(names) \in 0..Len(names)
    BY <1>1
  <2>. HIDE DEF T
  <2>. QED
    BY <1>1, <1>4, <1>5, <2>1, UpToInduction
<1>7. M(Len(names)) = MasterFrames(names)
  <2>1. [i \in 1..Len(names) |-> e[i]] = [i \in 1..Len(names) |->
             <<Frame("MAST", names[i]), Frame("DATA", "zero")>>]
    BY DEF MasterPair
  <2>. QED
    BY <2>1 DEF MasterFrames
<1>. QED
  BY <1>6, <1>7 DEF names

-----------------------------------------------------------------------------
(***************************************************************************)
(* What a frame becomes, said without FirstOf: by the frames before it.    *)
(***************************************************************************)
Earlier(s, n, sig) == \E j \in 1..(n - 1) : s[j].sig = sig

\* FirstOf finds the first frame of a signature.
LEMMA FirstOfFacts ==
    ASSUME NEW s, Len(s) \in Nat, NEW sig
    PROVE  /\ FirstOf(s, sig) = 0 <=> ~Earlier(s, Len(s) + 1, sig)
           /\ \A i \in 1..Len(s) :
                 i = FirstOf(s, sig) <=> s[i].sig = sig /\ ~Earlier(s, i, sig)
<1>. DEFINE hits == {i \in 1..Len(s) : s[i].sig = sig}
<1>1. CASE hits = {}
  <2>1. FirstOf(s, sig) = 0
    BY <1>1 DEF FirstOf
  <2>2. \A i \in 1..Len(s) : s[i].sig # sig
    BY <1>1
  <2>3. 1..((Len(s) + 1) - 1) = 1..Len(s)
    OBVIOUS
  <2>. QED
    BY <2>1, <2>2, <2>3 DEF Earlier
<1>2. CASE hits # {}
  <2>. DEFINE first == CHOOSE i \in hits : \A j \in hits : i <= j
  <2>1. FirstOf(s, sig) = first
    BY <1>2 DEF FirstOf
  <2>2. hits \subseteq Nat
    OBVIOUS
  <2>3. \E i \in hits : \A j \in hits : i <= j
    <3>. HIDE DEF hits
    <3>. QED
      BY <1>2, <2>2, LeastElement
  <2>4. first \in hits /\ \A j \in hits : first <= j
    BY <2>3, Zenon
  <2>. HIDE DEF first
  <2>5. first \in 1..Len(s) /\ s[first].sig = sig
        /\ \A j \in 1..Len(s) : s[j].sig = sig => first <= j
    BY <2>4
  <2>6. Earlier(s, Len(s) + 1, sig) /\ first # 0
    BY <2>5 DEF Earlier
  <2>7. ~Earlier(s, first, sig)
    BY <2>5 DEF Earlier
  <2>8. ASSUME NEW i \in 1..Len(s), s[i].sig = sig, ~Earlier(s, i, sig) PROVE i = first
    <3>1. first <= i
      BY <2>5, <2>8
    <3>2. ~(first \in 1..(i - 1))
      BY <2>5, <2>8 DEF Earlier
    <3>. QED
      BY <2>5, <3>1, <3>2
  <2>. QED
    BY <2>1, <2>5, <2>6, <2>7, <2>8
<1>. QED
  BY <1>1, <1>2

\* The frames that are replaced, and what becomes of them.
IsFirst(s, i, sig) == s[i].sig = sig /\ ~Earlier(s, i, sig)
IsMasterData(s, i) == s[i].sig = "DATA" /\ i > 1 /\ s[i - 1].sig = "MAST"

\* What a patch makes of one frame, case by case.
LEMMA BecomesFacts ==
    ASSUME NEW s \in Seq(Frames), NEW i \in 1..Len(s)
    PROVE  Becomes(patch, s, i) =
             IF IsFirst(s, i, "HEDR") THEN <<Frame("HEDR", "current")>>
             ELSE IF ReplacesMasters /\ s[i].sig = "MAST"
             THEN IF Earlier(s, i, "MAST") THEN <<>> ELSE MasterFrames(patch.masters)
             ELSE IF ReplacesMasters /\ IsMasterData(s, i) THEN <<>>
             ELSE IF ReplacesDescription /\ IsFirst(s, i, "SNAM")
             THEN <<Frame("SNAM", patch.description)>>
             ELSE <<s[i]>>
<1>1. Len(s) \in Nat
  OBVIOUS
<1>2. \A sig : i = FirstOf(s, sig) <=> s[i].sig = sig /\ ~Earlier(s, i, sig)
  BY <1>1, FirstOfFacts
<1>. QED
  BY <1>2 DEF Becomes, ReplacesMasters, ReplacesDescription, IsFirst, IsMasterData

\* A frame becomes frames.
LEMMA BecomesFrames ==
    ASSUME NEW s \in Seq(Frames), NEW i \in 1..Len(s), patch \in Patches
    PROVE  Becomes(patch, s, i) \in Seq(Frames)
<1>1. s[i] \in Frames
  OBVIOUS
<1>2. <<s[i]>> \in Seq(Frames) /\ <<>> \in Seq(Frames)
  BY <1>1
<1>3. Frame("HEDR", "current") \in Frames /\ Frame("SNAM", patch.description) \in Frames
  BY DEF Frames
<1>4. <<Frame("HEDR", "current")>> \in Seq(Frames) /\ <<Frame("SNAM", patch.description)>> \in Seq(Frames)
  BY <1>3
<1>5. ReplacesMasters => MasterFrames(patch.masters) \in Seq(Frames)
  BY MasterFramesAlternate DEF ReplacesMasters
<1>. QED
  BY <1>2, <1>4, <1>5, BecomesFacts

\* What the first n frames become.
Upto(p, s, n) == FlattenSeq([i \in 1..n |-> Becomes(p, s, i)])

\* What a patch makes of a header grows frame by frame.
LEMMA UptoFacts ==
    ASSUME NEW s \in Seq(Frames), patch \in Patches
    PROVE  /\ Upto(patch, s, 0) = <<>>
           /\ \A n \in 0..Len(s) : Upto(patch, s, n) \in Seq(Frames)
           /\ \A n \in 0..(Len(s) - 1) : Upto(patch, s, n + 1) = Upto(patch, s, n) \o Becomes(patch, s, n + 1)
<1>. DEFINE e == [i \in 1..Len(s) |-> Becomes(patch, s, i)]
<1>1. Len(s) \in Nat /\ \A i \in 1..Len(s) : e[i] \in Seq(Frames)
  BY BecomesFrames
<1>2. \A n \in 0..Len(s) : Upto(patch, s, n) = FlattenSeq([i \in 1..n |-> e[i]])
  <2>. SUFFICES ASSUME NEW n \in 0..Len(s)
                PROVE  Upto(patch, s, n) = FlattenSeq([i \in 1..n |-> e[i]])
    OBVIOUS
  <2>1. [i \in 1..n |-> Becomes(patch, s, i)] = [i \in 1..n |-> e[i]]
    BY <1>1
  <2>. QED
    BY <2>1 DEF Upto
<1>3. Upto(patch, s, 0) = <<>>
  <2>1. 0 \in 0..Len(s)
    BY <1>1
  <2>2. Upto(patch, s, 0) = FlattenSeq([i \in 1..0 |-> e[i]])
    BY <1>2, <2>1
  <2>. HIDE DEF e
  <2>. QED
    BY <2>2, FlattenNone
<1>4. ASSUME NEW n \in 0..(Len(s) - 1)
      PROVE  Upto(patch, s, n) \in Seq(Frames) /\ Upto(patch, s, n + 1) = Upto(patch, s, n) \o Becomes(patch, s, n + 1)
  <2>1. n \in Nat /\ n \in 0..Len(s) /\ n + 1 \in 0..Len(s) /\ n + 1 \in 1..Len(s)
        /\ \A i \in 1..(n + 1) : e[i] \in Seq(Frames)
    BY <1>1
  <2>2. e[n + 1] = Becomes(patch, s, n + 1)
    BY <2>1
  <2>. HIDE DEF e
  <2>3. /\ FlattenSeq([i \in 1..n |-> e[i]]) \in Seq(Frames)
        /\ FlattenSeq([i \in 1..(n + 1) |-> e[i]]) = FlattenSeq([i \in 1..n |-> e[i]]) \o e[n + 1]
    BY <2>1, FlattenNext
  <2>. QED
    BY <1>2, <2>1, <2>2, <2>3
<1>5. Upto(patch, s, Len(s)) \in Seq(Frames)
  <2>1. CASE Len(s) = 0
    <3>1. <<>> \in Seq(Frames)
      OBVIOUS
    <3>. QED
      BY <1>3, <2>1, <3>1
  <2>2. CASE Len(s) # 0
    <3>1. Len(s) - 1 \in 0..(Len(s) - 1) /\ (Len(s) - 1) + 1 = Len(s) /\ Len(s) \in 1..Len(s)
      BY <1>1, <2>2
    <3>2. Upto(patch, s, Len(s)) = Upto(patch, s, Len(s) - 1) \o Becomes(patch, s, Len(s))
          /\ Upto(patch, s, Len(s) - 1) \in Seq(Frames)
      BY <1>4, <3>1
    <3>3. Becomes(patch, s, Len(s)) \in Seq(Frames)
      BY <3>1, BecomesFrames
    <3>. QED
      BY <3>2, <3>3
  <2>. QED
    BY <2>1, <2>2
<1>6. \A n \in 0..Len(s) : n \in 0..(Len(s) - 1) \/ n = Len(s)
  BY <1>1
<1>. QED
  BY <1>3, <1>4, <1>5, <1>6

-----------------------------------------------------------------------------
(***************************************************************************)
(* What is known of the frames a header becomes: the first HEDR is         *)
(* current, the first SNAM is the new description, and the MAST frames are *)
(* one list of masters.                                                    *)
(***************************************************************************)
Lacks(t, sig) == \A i \in 1..Len(t) : t[i].sig # sig

FirstIs(t, sig, x) == \E h \in 1..Len(t) : t[h] = x /\ ~Earlier(t, h, sig)

BlockAt(t, m, b) ==
    /\ b + Len(m) <= Len(t)
    /\ \A i \in 1..Len(m) : t[b + i] = m[i]
    /\ \A i \in 1..Len(t) : t[i].sig = "MAST" => i > b /\ i <= b + Len(m)

HasBlock(t, m) == \E b \in Nat : BlockAt(t, m, b)

\* Which signatures came before the next frame.
LEMMA EarlierNext ==
    ASSUME NEW s, NEW n \in Nat, NEW sig
    PROVE  /\ ~Earlier(s, 1, sig)
           /\ Earlier(s, (n + 1) + 1, sig) <=> Earlier(s, n + 1, sig) \/ s[n + 1].sig = sig
<1>1. 1..(1 - 1) = {} /\ (n + 1) - 1 = n /\ ((n + 1) + 1) - 1 = n + 1
  OBVIOUS
<1>2. \A j \in 1..(n + 1) : j \in 1..n \/ j = n + 1
  OBVIOUS
<1>3. 1..n \subseteq 1..(n + 1) /\ n + 1 \in 1..(n + 1)
  OBVIOUS
<1>. QED
  BY <1>1, <1>2, <1>3 DEF Earlier

\* A frame of a concatenation is one of the left or of the right part.
LEMMA ConcatIndex ==
    ASSUME NEW u \in Seq(Frames), NEW v \in Seq(Frames), NEW i \in 1..Len(u \o v)
    PROVE  \/ i \in 1..Len(u) /\ (u \o v)[i] = u[i]
           \/ i - Len(u) \in 1..Len(v) /\ (u \o v)[i] = v[i - Len(u)]
<1>. DEFINE w == u \o v
<1>1. /\ Len(u) \in Nat /\ Len(v) \in Nat /\ Len(w) = Len(u) + Len(v)
      /\ \A j \in 1..Len(u) : w[j] = u[j]
      /\ \A j \in 1..Len(v) : w[Len(u) + j] = v[j]
  BY ConcatAt
<1>. HIDE DEF w
<1>2. i \in 1..Len(u) \/ i - Len(u) \in 1..Len(v)
  BY <1>1 DEF w
<1>3. Len(u) + (i - Len(u)) = i
  BY <1>1 DEF w
<1>. QED
  BY <1>1, <1>2, <1>3 DEF w

\* What both parts lack, their concatenation lacks.
LEMMA ConcatLacks ==
    ASSUME NEW u \in Seq(Frames), NEW v \in Seq(Frames), NEW sig, Lacks(u, sig), Lacks(v, sig)
    PROVE  Lacks(u \o v, sig)
BY ConcatIndex DEF Lacks

\* The first frame of a signature in a concatenation.
LEMMA ConcatFirst ==
    ASSUME NEW u \in Seq(Frames), NEW v \in Seq(Frames), NEW sig, NEW x,
           FirstIs(u, sig, x) \/ (Lacks(u, sig) /\ FirstIs(v, sig, x))
    PROVE  FirstIs(u \o v, sig, x)
<1>. DEFINE w == u \o v
<1>1. /\ Len(u) \in Nat /\ Len(v) \in Nat /\ Len(w) = Len(u) + Len(v)
      /\ \A j \in 1..Len(u) : w[j] = u[j]
      /\ \A j \in 1..Len(v) : w[Len(u) + j] = v[j]
  BY ConcatAt
<1>. HIDE DEF w
<1>2. CASE FirstIs(u, sig, x)
  <2>1. PICK h \in 1..Len(u) : u[h] = x /\ ~Earlier(u, h, sig)
    BY <1>2 DEF FirstIs
  <2>2. h \in 1..Len(w) /\ w[h] = x
    BY <1>1, <2>1
  <2>3. \A j \in 1..(h - 1) : j \in 1..Len(u)
    BY <1>1
  <2>4. ~Earlier(w, h, sig)
    BY <1>1, <2>1, <2>3 DEF Earlier
  <2>. QED
    BY <2>2, <2>4 DEF FirstIs, w
<1>3. CASE Lacks(u, sig) /\ FirstIs(v, sig, x)
  <2>1. PICK h \in 1..Len(v) : v[h] = x /\ ~Earlier(v, h, sig)
    BY <1>3 DEF FirstIs
  <2>2. Len(u) + h \in 1..Len(w) /\ w[Len(u) + h] = x
    BY <1>1, <2>1
  <2>3. ASSUME NEW j \in 1..((Len(u) + h) - 1) PROVE w[j].sig # sig
    <3>1. CASE j \in 1..Len(u)
      BY <1>1, <1>3, <3>1 DEF Lacks
    <3>2. CASE j \notin 1..Len(u)
      <4>1. j - Len(u) \in 1..(h - 1) /\ j - Len(u) \in 1..Len(v) /\ Len(u) + (j - Len(u)) = j
        BY <1>1, <3>2
      <4>2. w[j] = v[j - Len(u)]
        BY <1>1, <4>1
      <4>. QED
        BY <2>1, <4>1, <4>2 DEF Earlier
    <3>. QED
      BY <3>1, <3>2
  <2>4. ~Earlier(w, Len(u) + h, sig)
    BY <2>3 DEF Earlier
  <2>. QED
    BY <2>2, <2>4 DEF FirstIs, w
<1>. QED
  BY <1>2, <1>3

\* A block of masters stays one when the frames around it have no masters.
LEMMA ConcatBlock ==
    ASSUME NEW u \in Seq(Frames), NEW v \in Seq(Frames), NEW m \in Seq(Frames),
           \/ HasBlock(u, m) /\ Lacks(v, "MAST")
           \/ Lacks(u, "MAST") /\ v = m
    PROVE  HasBlock(u \o v, m)
<1>. DEFINE w == u \o v
<1>1. /\ Len(u) \in Nat /\ Len(v) \in Nat /\ Len(m) \in Nat /\ Len(w) = Len(u) + Len(v)
      /\ \A j \in 1..Len(u) : w[j] = u[j]
      /\ \A j \in 1..Len(v) : w[Len(u) + j] = v[j]
  BY ConcatAt
<1>2. \A i \in 1..Len(w) : \/ i \in 1..Len(u) /\ w[i] = u[i]
                           \/ i - Len(u) \in 1..Len(v) /\ w[i] = v[i - Len(u)]
  BY ConcatIndex
<1>. HIDE DEF w
<1>3. CASE HasBlock(u, m) /\ Lacks(v, "MAST")
  <2>1. PICK b \in Nat : BlockAt(u, m, b)
    BY <1>3 DEF HasBlock
  <2>2. b + Len(m) <= Len(w)
    BY <1>1, <2>1 DEF BlockAt
  <2>3. \A i \in 1..Len(m) : b + i \in 1..Len(u)
    BY <1>1, <2>1 DEF BlockAt
  <2>4. \A i \in 1..Len(m) : w[b + i] = m[i]
    BY <1>1, <2>1, <2>3 DEF BlockAt
  <2>5. \A i \in 1..Len(w) : w[i].sig = "MAST" => i > b /\ i <= b + Len(m)
    BY <1>2, <1>3, <2>1 DEF BlockAt, Lacks
  <2>. QED
    BY <2>2, <2>4, <2>5 DEF BlockAt, HasBlock, w
<1>4. CASE Lacks(u, "MAST") /\ v = m
  <2>1. Len(u) + Len(m) <= Len(w)
    BY <1>1, <1>4
  <2>2. \A i \in 1..Len(m) : w[Len(u) + i] = m[i]
    BY <1>1, <1>4
  <2>3. \A i \in 1..Len(w) : w[i].sig = "MAST" => i > Len(u) /\ i <= Len(u) + Len(m)
    BY <1>1, <1>2, <1>4 DEF Lacks
  <2>. QED
    BY <1>1, <2>1, <2>2, <2>3 DEF BlockAt, HasBlock, w
<1>. QED
  BY <1>3, <1>4

-----------------------------------------------------------------------------
(***************************************************************************)
(* The same, for what the first n frames become.                           *)
(***************************************************************************)
LEMMA UptoFirst ==
    ASSUME NEW s \in Seq(Frames), patch \in Patches, NEW sig, NEW x, x \in Frames, x.sig = sig,
           \A i \in 1..Len(s) : /\ s[i].sig # sig => Lacks(Becomes(patch, s, i), sig)
                                /\ IsFirst(s, i, sig) => Becomes(patch, s, i) = <<x>>
    PROVE  \A n \in 0..Len(s) : IF Earlier(s, n + 1, sig) THEN FirstIs(Upto(patch, s, n), sig, x)
                                ELSE Lacks(Upto(patch, s, n), sig)
<1>. DEFINE Good(n) == IF Earlier(s, n + 1, sig) THEN FirstIs(Upto(patch, s, n), sig, x)
                       ELSE Lacks(Upto(patch, s, n), sig)
            T == {n \in 0..Len(s) : Good(n)}
<1>1. Len(s) \in Nat
  OBVIOUS
<1>2. 0 \in T
  <2>1. ~Earlier(s, 0 + 1, sig)
    BY DEF Earlier
  <2>2. Lacks(<<>>, sig) /\ Upto(patch, s, 0) = <<>> /\ 0 \in 0..Len(s)
    BY <1>1, UptoFacts DEF Lacks
  <2>. QED
    BY <2>1, <2>2
<1>3. ASSUME NEW n \in 0..(Len(s) - 1), n \in T PROVE n + 1 \in T
  <2>1. n \in Nat /\ n \in 0..Len(s) /\ n + 1 \in 0..Len(s) /\ n + 1 \in 1..Len(s)
    BY <1>1
  <2>. DEFINE u == Upto(patch, s, n)
              v == Becomes(patch, s, n + 1)
  <2>2. u \in Seq(Frames) /\ v \in Seq(Frames) /\ Upto(patch, s, n + 1) = u \o v
    BY <2>1, UptoFacts, BecomesFrames
  <2>3. Earlier(s, (n + 1) + 1, sig) <=> Earlier(s, n + 1, sig) \/ s[n + 1].sig = sig
    BY <2>1, EarlierNext
  <2>4. IF Earlier(s, n + 1, sig) THEN FirstIs(u, sig, x) ELSE Lacks(u, sig)
    BY <1>3
  <2>5. s[n + 1].sig # sig => Lacks(v, sig)
    BY <2>1
  <2>6. s[n + 1].sig = sig /\ ~Earlier(s, n + 1, sig) => v = <<x>>
    BY <2>1 DEF IsFirst
  <2>7. FirstIs(<<x>>, sig, x)
    <3>1. 1 \in 1..Len(<<x>>) /\ <<x>>[1] = x
      OBVIOUS
    <3>2. ~Earlier(<<x>>, 1, sig)
      BY DEF Earlier
    <3>. QED
      BY <3>1, <3>2 DEF FirstIs
  <2>. HIDE DEF u, v
  <2>8. CASE Earlier(s, n + 1, sig)
    <3>1. FirstIs(u \o v, sig, x)
      BY <2>2, <2>4, <2>8, ConcatFirst
    <3>. QED
      BY <2>1, <2>2, <2>3, <2>8, <3>1
  <2>9. CASE ~Earlier(s, n + 1, sig) /\ s[n + 1].sig = sig
    <3>1. FirstIs(v, sig, x) /\ Lacks(u, sig)
      BY <2>4, <2>6, <2>7, <2>9
    <3>2. FirstIs(u \o v, sig, x)
      BY <2>2, <3>1, ConcatFirst
    <3>. QED
      BY <2>1, <2>2, <2>3, <2>9, <3>2
  <2>10. CASE ~Earlier(s, n + 1, sig) /\ s[n + 1].sig # sig
    <3>1. Lacks(u \o v, sig)
      BY <2>2, <2>4, <2>5, <2>10, ConcatLacks
    <3>. QED
      BY <2>1, <2>2, <2>3, <2>10, <3>1
  <2>. QED
    BY <2>8, <2>9, <2>10
<1>4. \A n \in 0..Len(s) : n \in T
  <2>. HIDE DEF T
  <2>. QED
    BY <1>1, <1>2, <1>3, UpToInduction
<1>. QED
  BY <1>4

\* Once a master was met, the masters written are one block, the replacements.
LEMMA UptoBlock ==
    ASSUME NEW s \in Seq(Frames), patch \in Patches, ReplacesMasters
    PROVE  \A n \in 0..Len(s) :
              IF Earlier(s, n + 1, "MAST") THEN HasBlock(Upto(patch, s, n), MasterFrames(patch.masters))
              ELSE Lacks(Upto(patch, s, n), "MAST")
<1>. DEFINE m == MasterFrames(patch.masters)
            Good(n) == IF Earlier(s, n + 1, "MAST") THEN HasBlock(Upto(patch, s, n), m)
                       ELSE Lacks(Upto(patch, s, n), "MAST")
            T == {n \in 0..Len(s) : Good(n)}
<1>1. Len(s) \in Nat /\ m \in Seq(Frames)
  BY MasterFramesAlternate DEF ReplacesMasters
<1>2. 0 \in T
  <2>1. ~Earlier(s, 0 + 1, "MAST")
    BY DEF Earlier
  <2>2. Lacks(<<>>, "MAST") /\ Upto(patch, s, 0) = <<>> /\ 0 \in 0..Len(s)
    BY <1>1, UptoFacts DEF Lacks
  <2>. QED
    BY <2>1, <2>2
<1>3. ASSUME NEW n \in 0..(Len(s) - 1), n \in T PROVE n + 1 \in T
  <2>1. n \in Nat /\ n \in 0..Len(s) /\ n + 1 \in 0..Len(s) /\ n + 1 \in 1..Len(s)
    BY <1>1
  <2>. DEFINE u == Upto(patch, s, n)
              v == Becomes(patch, s, n + 1)
  <2>2. u \in Seq(Frames) /\ v \in Seq(Frames) /\ Upto(patch, s, n + 1) = u \o v
    BY <2>1, UptoFacts, BecomesFrames
  <2>3. Earlier(s, (n + 1) + 1, "MAST") <=> Earlier(s, n + 1, "MAST") \/ s[n + 1].sig = "MAST"
    BY <2>1, EarlierNext
  <2>4. IF Earlier(s, n + 1, "MAST") THEN HasBlock(u, m) ELSE Lacks(u, "MAST")
    BY <1>3
  <2>5. s[n + 1].sig # "MAST" => Lacks(v, "MAST")
    BY <2>1, BecomesFacts DEF Lacks, IsFirst, Frame
  <2>6. s[n + 1].sig = "MAST" => v = IF Earlier(s, n + 1, "MAST") THEN <<>> ELSE m
    BY <2>1, BecomesFacts DEF IsFirst
  <2>7. Lacks(<<>>, "MAST")
    BY DEF Lacks
  <2>. HIDE DEF u, v, m
  <2>8. CASE Earlier(s, n + 1, "MAST")
    <3>1. HasBlock(u \o v, m)
      BY <1>1, <2>2, <2>4, <2>5, <2>6, <2>7, <2>8, ConcatBlock
    <3>. QED
      BY <2>1, <2>2, <2>3, <2>8, <3>1
  <2>9. CASE ~Earlier(s, n + 1, "MAST") /\ s[n + 1].sig = "MAST"
    <3>1. HasBlock(u \o v, m)
      BY <1>1, <2>2, <2>4, <2>6, <2>9, ConcatBlock
    <3>. QED
      BY <2>1, <2>2, <2>3, <2>9, <3>1
  <2>10. CASE ~Earlier(s, n + 1, "MAST") /\ s[n + 1].sig # "MAST"
    <3>1. Lacks(u \o v, "MAST")
      BY <2>2, <2>4, <2>5, <2>10, ConcatLacks
    <3>. QED
      BY <2>1, <2>2, <2>3, <2>10, <3>1
  <2>. QED
    BY <2>8, <2>9, <2>10
<1>4. \A n \in 0..Len(s) : n \in T
  <2>. HIDE DEF T
  <2>. QED
    BY <1>1, <1>2, <1>3, UpToInduction
<1>. QED
  BY <1>4

-----------------------------------------------------------------------------
(***************************************************************************)
(* A header that was patched is settled, and a settled one stays as it is. *)
(***************************************************************************)
Current == Frame("HEDR", "current")
Description == Frame("SNAM", patch.description)

Settled(t) ==
    /\ ~Lacks(t, "HEDR") => FirstIs(t, "HEDR", Current)
    /\ ReplacesDescription => FirstIs(t, "SNAM", Description)
    /\ ReplacesMasters => HasBlock(t, MasterFrames(patch.masters))

MissingDescription(s) ==
    IF ReplacesDescription /\ ~Earlier(s, Len(s) + 1, "SNAM") THEN <<Description>> ELSE <<>>
MissingMasters(s) ==
    IF ReplacesMasters /\ ~Earlier(s, Len(s) + 1, "MAST") THEN MasterFrames(patch.masters)
    ELSE <<>>

\* The intended header: the walked frames and what the source lacked.
LEMMA IntendedParts ==
    ASSUME NEW s \in Seq(Frames)
    PROVE  Intended(patch, s) = (Upto(patch, s, Len(s)) \o MissingDescription(s)) \o MissingMasters(s)
<1>1. Len(s) \in Nat
  OBVIOUS
<1>2. \A sig : FirstOf(s, sig) = 0 <=> ~Earlier(s, Len(s) + 1, sig)
  BY <1>1, FirstOfFacts
<1>. QED
  BY <1>2 DEF Intended, Upto, MissingDescription, MissingMasters, Description,
     ReplacesMasters, ReplacesDescription

\* The frames the patcher writes on its own account.
LEMMA OwnFrames ==
    ASSUME patch \in Patches
    PROVE  /\ Current \in Frames /\ Current.sig = "HEDR"
           /\ Description \in Frames /\ Description.sig = "SNAM"
           /\ <<Current>> \in Seq(Frames) /\ <<Description>> \in Seq(Frames)
           /\ \A sig : sig # "SNAM" => Lacks(<<Description>>, sig)
           /\ FirstIs(<<Description>>, "SNAM", Description)
<1>1. /\ Current \in Frames /\ Description \in Frames
  BY DEF Frames, Current, Description
<1>2. Current.sig = "HEDR" /\ Description.sig = "SNAM"
  BY DEF Current, Description, Frame
<1>3. 1 \in 1..Len(<<Description>>) /\ <<Description>>[1] = Description /\ Len(<<Description>>) = 1
  OBVIOUS
<1>4. ~Earlier(<<Description>>, 1, "SNAM")
  BY DEF Earlier
<1>5. \A sig : sig # "SNAM" => Lacks(<<Description>>, sig)
  BY <1>2, <1>3 DEF Lacks
<1>. QED
  BY <1>1, <1>2, <1>3, <1>4, <1>5 DEF FirstIs

\* The frames of a replacement list are masters and their data.
LEMMA MasterFramesLack ==
    ASSUME patch \in Patches, ReplacesMasters, NEW sig, sig \notin {"MAST", "DATA"}
    PROVE  Lacks(MasterFrames(patch.masters), sig)
<1>1. Alternates(MasterFrames(patch.masters))
  BY MasterFramesAlternate DEF ReplacesMasters
<1>. QED
  BY <1>1 DEF Alternates, Lacks

\* A patched header has all that its patch asks for.
LEMMA IntendedIsSettled ==
    ASSUME NEW s \in Seq(Frames), patch \in Patches
    PROVE  Intended(patch, s) \in Seq(Frames) /\ Settled(Intended(patch, s))
<1>. DEFINE u == Upto(patch, s, Len(s))
            a == MissingDescription(s)
            b == MissingMasters(s)
            m == MasterFrames(patch.masters)
<1>1. Intended(patch, s) = (u \o a) \o b
  BY IntendedParts
<1>2. Len(s) \in Nat /\ Len(s) \in 0..Len(s)
  OBVIOUS
<1>3. u \in Seq(Frames)
  BY <1>2, UptoFacts
<1>4. a \in Seq(Frames) /\ \A sig : sig # "SNAM" => Lacks(a, sig)
  <2>1. <<>> \in Seq(Frames) /\ \A sig : Lacks(<<>>, sig)
    BY DEF Lacks
  <2>. QED
    BY <2>1, OwnFrames DEF MissingDescription
<1>5. ReplacesMasters => m \in Seq(Frames)
  BY MasterFramesAlternate DEF ReplacesMasters
<1>6. b \in Seq(Frames) /\ Lacks(b, "HEDR") /\ Lacks(b, "SNAM")
  <2>1. <<>> \in Seq(Frames) /\ \A sig : Lacks(<<>>, sig)
    BY DEF Lacks
  <2>. QED
    BY <1>5, <2>1, MasterFramesLack DEF MissingMasters
<1>7. IF Earlier(s, Len(s) + 1, "HEDR") THEN FirstIs(u, "HEDR", Current) ELSE Lacks(u, "HEDR")
  <2>1. ASSUME NEW i \in 1..Len(s), s[i].sig # "HEDR" PROVE Lacks(Becomes(patch, s, i), "HEDR")
    <3>1. CASE ReplacesMasters /\ s[i].sig = "MAST" /\ ~Earlier(s, i, "MAST")
      BY <2>1, <3>1, BecomesFacts, MasterFramesLack DEF IsFirst
    <3>2. CASE ~(ReplacesMasters /\ s[i].sig = "MAST" /\ ~Earlier(s, i, "MAST"))
      BY <2>1, <3>2, BecomesFacts DEF IsFirst, Lacks, Frame
    <3>. QED
      BY <3>1, <3>2
  <2>2. \A i \in 1..Len(s) : IsFirst(s, i, "HEDR") => Becomes(patch, s, i) = <<Current>>
    BY BecomesFacts DEF Current
  <2>3. Current \in Frames /\ Current.sig = "HEDR"
    BY OwnFrames
  <2>. HIDE DEF u
  <2>. QED
    BY <1>2, <2>1, <2>2, <2>3, UptoFirst DEF u
<1>8. ReplacesDescription =>
         IF Earlier(s, Len(s) + 1, "SNAM") THEN FirstIs(u, "SNAM", Description) ELSE Lacks(u, "SNAM")
  <2>. SUFFICES ASSUME ReplacesDescription
                PROVE  IF Earlier(s, Len(s) + 1, "SNAM") THEN FirstIs(u, "SNAM", Description)
                       ELSE Lacks(u, "SNAM")
    OBVIOUS
  <2>1. ASSUME NEW i \in 1..Len(s), s[i].sig # "SNAM" PROVE Lacks(Becomes(patch, s, i), "SNAM")
    <3>1. CASE ReplacesMasters /\ s[i].sig = "MAST" /\ ~Earlier(s, i, "MAST")
      BY <2>1, <3>1, BecomesFacts, MasterFramesLack DEF IsFirst
    <3>2. CASE ~(ReplacesMasters /\ s[i].sig = "MAST" /\ ~Earlier(s, i, "MAST"))
      BY <2>1, <3>2, BecomesFacts DEF IsFirst, Lacks, Frame
    <3>. QED
      BY <3>1, <3>2
  <2>2. \A i \in 1..Len(s) : IsFirst(s, i, "SNAM") => Becomes(patch, s, i) = <<Description>>
    BY BecomesFacts DEF Description, IsFirst, IsMasterData
  <2>3. Description \in Frames /\ Description.sig = "SNAM"
    BY OwnFrames
  <2>. QED
    BY <1>2, <2>1, <2>2, <2>3, UptoFirst
<1>9. ReplacesMasters =>
         IF Earlier(s, Len(s) + 1, "MAST") THEN HasBlock(u, m) ELSE Lacks(u, "MAST")
  BY <1>2, UptoBlock
<1>10. /\ ReplacesDescription /\ ~Earlier(s, Len(s) + 1, "SNAM") => FirstIs(a, "SNAM", Description)
       /\ ReplacesMasters => b = IF Earlier(s, Len(s) + 1, "MAST") THEN <<>> ELSE m
  BY OwnFrames DEF MissingDescription, MissingMasters
<1>11. Lacks(<<>>, "MAST")
  BY DEF Lacks
<1>. HIDE DEF u, a, b, m
<1>12. u \o a \in Seq(Frames) /\ (u \o a) \o b \in Seq(Frames)
  BY <1>3, <1>4, <1>6
<1>. DEFINE t == (u \o a) \o b
<1>13. ~Lacks(t, "HEDR") => FirstIs(t, "HEDR", Current)
  <2>1. CASE Earlier(s, Len(s) + 1, "HEDR")
    <3>1. FirstIs(u \o a, "HEDR", Current)
      BY <1>3, <1>4, <1>7, <2>1, ConcatFirst
    <3>. QED
      BY <1>6, <1>12, <3>1, ConcatFirst
  <2>2. CASE ~Earlier(s, Len(s) + 1, "HEDR")
    <3>1. Lacks(u \o a, "HEDR")
      BY <1>3, <1>4, <1>7, <2>2, ConcatLacks
    <3>. QED
      BY <1>6, <1>12, <3>1, ConcatLacks
  <2>. QED
    BY <2>1, <2>2
<1>14. ReplacesDescription => FirstIs(t, "SNAM", Description)
  <2>1. ReplacesDescription => FirstIs(u \o a, "SNAM", Description)
    BY <1>3, <1>4, <1>8, <1>10, ConcatFirst
  <2>. QED
    BY <1>6, <1>12, <2>1, ConcatFirst
<1>15. ReplacesMasters => HasBlock(t, m)
  <2>. SUFFICES ASSUME ReplacesMasters PROVE HasBlock(t, m)
    OBVIOUS
  <2>1. CASE Earlier(s, Len(s) + 1, "MAST")
    <3>1. HasBlock(u \o a, m)
      BY <1>3, <1>4, <1>5, <1>9, <2>1, ConcatBlock
    <3>2. Lacks(b, "MAST")
      BY <1>10, <1>11, <2>1
    <3>. QED
      BY <1>5, <1>6, <1>12, <3>1, <3>2, ConcatBlock
  <2>2. CASE ~Earlier(s, Len(s) + 1, "MAST")
    <3>1. Lacks(u \o a, "MAST")
      BY <1>3, <1>4, <1>9, <2>2, ConcatLacks
    <3>2. b = m
      BY <1>10, <2>2
    <3>. QED
      BY <1>5, <1>6, <1>12, <3>1, <3>2, ConcatBlock
  <2>. QED
    BY <2>1, <2>2
<1>. QED
  BY <1>1, <1>12, <1>13, <1>14, <1>15 DEF Settled, m

\* A prefix and the part that follows it are a longer prefix.
LEMMA PrefixAndPart ==
    ASSUME NEW S, NEW t \in Seq(S), NEW a \in 0..Len(t), NEW m \in Seq(S), a + Len(m) <= Len(t),
           \A i \in 1..Len(m) : t[a + i] = m[i]
    PROVE  SubSeq(t, 1, a) \o m = SubSeq(t, 1, a + Len(m))
<1>. DEFINE u == SubSeq(t, 1, a)
            w == SubSeq(t, 1, a + Len(m))
<1>1. Len(t) \in Nat /\ Len(m) \in Nat /\ a + Len(m) \in 0..Len(t)
  OBVIOUS
<1>2. u \in Seq(S) /\ Len(u) = a /\ \A i \in 1..a : u[i] = t[i]
  BY <1>1
<1>3. w \in Seq(S) /\ Len(w) = a + Len(m) /\ \A i \in 1..(a + Len(m)) : w[i] = t[i]
  BY <1>1
<1>. HIDE DEF u, w
<1>. DEFINE v == u \o m
<1>4. /\ v \in Seq(S) /\ Len(v) = a + Len(m)
      /\ \A i \in 1..a : v[i] = u[i]
      /\ \A i \in 1..Len(m) : v[a + i] = m[i]
  <2>0. u \in Seq(S)
    BY <1>2
  <2>1. /\ v \in Seq(S) /\ Len(v) = Len(u) + Len(m)
        /\ \A i \in 1..Len(u) : v[i] = u[i]
        /\ \A i \in 1..Len(m) : v[Len(u) + i] = m[i]
    BY <2>0, ConcatAt
  <2>. HIDE DEF v
  <2>. QED
    BY <1>2, <2>1
<1>. HIDE DEF v
<1>5. ASSUME NEW i \in 1..(a + Len(m)) PROVE v[i] = w[i]
  <2>1. CASE i \in 1..a
    BY <1>2, <1>3, <1>4, <2>1
  <2>2. CASE i \notin 1..a
    <3>1. i - a \in 1..Len(m) /\ a + (i - a) = i
      BY <1>1, <2>2
    <3>2. v[i] = m[i - a] /\ t[i] = m[i - a]
      BY <1>4, <3>1
    <3>. QED
      BY <1>3, <3>2
  <2>. QED
    BY <2>1, <2>2
<1>6. v = [i \in 1..(a + Len(m)) |-> v[i]] /\ w = [i \in 1..(a + Len(m)) |-> w[i]]
  BY <1>3, <1>4
<1>7. v = w
  BY <1>5, <1>6
<1>. QED
  BY <1>7 DEF u, v, w

\* There is one first frame of a signature.
LEMMA FirstIsUnique ==
    ASSUME NEW t \in Seq(Frames), NEW sig, NEW x, x.sig = sig, FirstIs(t, sig, x),
           NEW i \in 1..Len(t), IsFirst(t, i, sig)
    PROVE  t[i] = x
<1>1. PICK h \in 1..Len(t) : t[h] = x /\ ~Earlier(t, h, sig)
  BY DEF FirstIs
<1>2. t[i].sig = sig /\ ~Earlier(t, i, sig)
  BY DEF IsFirst
<1>3. ~(h \in 1..(i - 1)) /\ ~(i \in 1..(h - 1))
  BY <1>1, <1>2 DEF Earlier
<1>4. h = i
  BY <1>3
<1>. QED
  BY <1>1, <1>4

\* What the frames of a settled header become: the master list becomes
\* itself at its first frame, and every other frame stays.
LEMMA SettledFrames ==
    ASSUME NEW t \in Seq(Frames), patch \in Patches, Settled(t),
           NEW m \in Seq(Frames), NEW b \in Nat,
           ReplacesMasters => m = MasterFrames(patch.masters) /\ BlockAt(t, m, b),
           ~ReplacesMasters => Len(m) = 0
    PROVE  \A i \in 1..Len(t) :
              Becomes(patch, t, i) = IF i > b /\ i <= b + Len(m) THEN IF i = b + 1 THEN m ELSE <<>>
                              ELSE <<t[i]>>
<1>. SUFFICES ASSUME NEW i \in 1..Len(t)
              PROVE  Becomes(patch, t, i) =
                        IF i > b /\ i <= b + Len(m) THEN IF i = b + 1 THEN m ELSE <<>>
                        ELSE <<t[i]>>
  OBVIOUS
<1>1. IsFirst(t, i, "HEDR") => t[i] = Current
  <2>1. IsFirst(t, i, "HEDR") => ~Lacks(t, "HEDR")
    BY DEF IsFirst, Lacks
  <2>2. IsFirst(t, i, "HEDR") => FirstIs(t, "HEDR", Current)
    BY <2>1 DEF Settled
  <2>. QED
    BY <2>2, FirstIsUnique, OwnFrames
<1>2. ReplacesDescription /\ IsFirst(t, i, "SNAM") => t[i] = Description
  BY FirstIsUnique, OwnFrames DEF Settled
<1>3. CASE ~ReplacesMasters
  <2>1. ~(i > b /\ i <= b + Len(m))
    BY <1>3
  <2>. QED
    BY <1>1, <1>2, <1>3, <2>1, BecomesFacts DEF Current, Description
<1>4. CASE ReplacesMasters /\ ~(i > b /\ i <= b + Len(m))
  <2>1. t[i].sig # "MAST"
    BY <1>4 DEF BlockAt
  <2>2. ~IsMasterData(t, i)
    <3>. SUFFICES ASSUME IsMasterData(t, i) PROVE FALSE
      OBVIOUS
    <3>1. i > 1 /\ t[i - 1].sig = "MAST" /\ i - 1 \in 1..Len(t)
      BY DEF IsMasterData
    <3>2. i - 1 > b /\ i - 1 <= b + Len(m)
      BY <1>4, <3>1 DEF BlockAt
    <3>3. i - 1 = b + Len(m) /\ Len(m) \in 1..Len(m)
      BY <1>4, <3>2
    <3>4. t[i - 1] = m[Len(m)]
      BY <1>4, <3>3 DEF BlockAt
    <3>5. m[Len(m)].sig = "DATA"
      BY <1>4, <3>3, MasterFramesAlternate DEF Alternates, ReplacesMasters
    <3>. QED
      BY <3>1, <3>4, <3>5
  <2>. QED
    BY <1>1, <1>2, <1>4, <2>1, <2>2, BecomesFacts DEF Current, Description
<1>5. CASE ReplacesMasters /\ i > b /\ i <= b + Len(m)
  <2>1. Alternates(m) /\ BlockAt(t, m, b)
    BY <1>5, MasterFramesAlternate DEF ReplacesMasters
  <2>2. i - b \in 1..Len(m) /\ b + (i - b) = i
    BY <1>5
  <2>3. t[i] = m[i - b]
    BY <2>1, <2>2 DEF BlockAt
  <2>4. t[i].sig \in {"MAST", "DATA"}
    BY <2>1, <2>2, <2>3 DEF Alternates
  <2>5. CASE i = b + 1
    <3>1. t[i].sig = "MAST"
      <4>1. i - b = 1
        BY <2>5
      <4>. QED
        BY <2>1, <2>2, <2>3, <4>1 DEF Alternates
    <3>2. ~Earlier(t, i, "MAST")
      <4>1. \A j \in 1..(i - 1) : j \in 1..Len(t) /\ ~(j > b)
        BY <2>5
      <4>. QED
        BY <2>1, <4>1 DEF BlockAt, Earlier
    <3>. QED
      BY <1>5, <2>5, <3>1, <3>2, BecomesFacts DEF IsFirst
  <2>6. CASE i # b + 1
    <3>1. b + 1 \in 1..(i - 1) /\ 1 \in 1..Len(m)
      BY <1>5, <2>6
    <3>2. t[b + 1].sig = "MAST"
      BY <2>1, <3>1 DEF BlockAt, Alternates
    <3>3. Earlier(t, i, "MAST")
      BY <3>1, <3>2 DEF Earlier
    <3>4. t[i].sig = "DATA" => IsMasterData(t, i)
      <4>. SUFFICES ASSUME t[i].sig = "DATA" PROVE IsMasterData(t, i)
        OBVIOUS
      <4>1. (i - b) - 1 \in 1..Len(m) /\ i > 1 /\ b + ((i - b) - 1) = i - 1
        BY <2>2, <2>6
      <4>2. m[(i - b) - 1].sig = "MAST"
        BY <2>1, <2>2, <2>3 DEF Alternates
      <4>3. t[i - 1] = m[(i - b) - 1]
        BY <2>1, <4>1 DEF BlockAt
      <4>. QED
        BY <4>1, <4>2, <4>3 DEF IsMasterData
    <3>. QED
      BY <1>5, <2>4, <2>6, <3>3, <3>4, BecomesFacts DEF IsFirst
  <2>. QED
    BY <2>5, <2>6
<1>. QED
  BY <1>3, <1>4, <1>5

\* Patching a header that has all its patch asks for changes nothing.
LEMMA SettledStays ==
    ASSUME NEW t \in Seq(Frames), patch \in Patches, Settled(t)
    PROVE  Intended(patch, t) = t
<1>1. PICK m \in Seq(Frames) : \E b \in Nat :
         /\ ReplacesMasters => m = MasterFrames(patch.masters) /\ BlockAt(t, m, b)
         /\ ~ReplacesMasters => m = <<>> /\ b = 0
  <2>1. CASE ReplacesMasters
    <3>1. PICK c \in Nat : BlockAt(t, MasterFrames(patch.masters), c)
      BY <2>1 DEF Settled, HasBlock
    <3>2. MasterFrames(patch.masters) \in Seq(Frames)
      BY <2>1, MasterFramesAlternate DEF ReplacesMasters
    <3>. QED
      BY <2>1, <3>1, <3>2
  <2>2. CASE ~ReplacesMasters
    <3>1. <<>> \in Seq(Frames) /\ 0 \in Nat
      OBVIOUS
    <3>. QED
      BY <2>2, <3>1
  <2>. QED
    BY <2>1, <2>2
<1>2. PICK b \in Nat :
         /\ ReplacesMasters => m = MasterFrames(patch.masters) /\ BlockAt(t, m, b)
         /\ ~ReplacesMasters => m = <<>> /\ b = 0
  BY <1>1
<1>3. Len(m) \in Nat /\ Len(t) \in Nat /\ b + Len(m) <= Len(t) /\ (~ReplacesMasters => Len(m) = 0)
  BY <1>2 DEF BlockAt
<1>4. \A i \in 1..Len(t) :
         Becomes(patch, t, i) = IF i > b /\ i <= b + Len(m) THEN IF i = b + 1 THEN m ELSE <<>>
                         ELSE <<t[i]>>
  BY <1>2, <1>3, SettledFrames
<1>. DEFINE E(n) == IF n > b /\ n < b + Len(m) THEN b + Len(m) ELSE n
            T == {n \in 0..Len(t) : Upto(patch, t, n) = SubSeq(t, 1, E(n))}
<1>5. 0 \in T
  <2>1. Upto(patch, t, 0) = <<>> /\ E(0) = 0 /\ 0 \in 0..Len(t)
    BY <1>3, UptoFacts
  <2>2. SubSeq(t, 1, 0) = <<>>
    OBVIOUS
  <2>. QED
    BY <2>1, <2>2
<1>6. ASSUME NEW n \in 0..(Len(t) - 1), n \in T PROVE n + 1 \in T
  <2>1. n \in 0..Len(t) /\ n + 1 \in 0..Len(t) /\ n + 1 \in 1..Len(t)
    BY <1>3
  <2>2. Upto(patch, t, n + 1) = SubSeq(t, 1, E(n)) \o Becomes(patch, t, n + 1)
    BY <1>6, UptoFacts
  <2>3. CASE ~(n + 1 > b /\ n + 1 <= b + Len(m))
    <3>1. E(n) = n /\ E(n + 1) = n + 1
      BY <1>3, <2>3
    <3>2. Becomes(patch, t, n + 1) = <<t[n + 1]>>
      BY <1>4, <2>1, <2>3
    <3>. DEFINE x == t[n + 1]
                one == <<x>>
    <3>3. one \in Seq(Frames) /\ Len(one) = 1 /\ one[1] = t[n + 1]
      BY <2>1
    <3>4. \A i \in 1..Len(one) : t[n + i] = one[i]
      BY <3>3
    <3>5. n + Len(one) <= Len(t) /\ n + Len(one) = n + 1
      BY <2>1, <3>3
    <3>. HIDE DEF one
    <3>6. SubSeq(t, 1, n) \o one = SubSeq(t, 1, n + Len(one))
      BY <2>1, <3>3, <3>4, <3>5, PrefixAndPart
    <3>7. Upto(patch, t, n + 1) = SubSeq(t, 1, E(n + 1))
      BY <2>2, <3>1, <3>2, <3>5, <3>6 DEF one
    <3>. QED
      BY <2>1, <3>7
  <2>4. CASE n = b /\ Len(m) > 0
    <3>1. E(n) = n /\ E(n + 1) = b + Len(m)
      BY <1>3, <2>4
    <3>2. Becomes(patch, t, n + 1) = m
      BY <1>3, <1>4, <2>1, <2>4
    <3>3. \A i \in 1..Len(m) : t[b + i] = m[i]
      BY <1>2, <1>3, <2>4 DEF BlockAt
    <3>4. SubSeq(t, 1, b) \o m = SubSeq(t, 1, b + Len(m))
      BY <1>3, <2>1, <2>4, <3>3, PrefixAndPart
    <3>. QED
      BY <2>1, <2>2, <2>4, <3>1, <3>2, <3>4
  <2>5. CASE n > b /\ n + 1 <= b + Len(m)
    <3>1. E(n) = b + Len(m) /\ E(n + 1) = b + Len(m)
      BY <1>3, <2>5
    <3>2. Becomes(patch, t, n + 1) = <<>>
      BY <1>3, <1>4, <2>1, <2>5
    <3>3. SubSeq(t, 1, b + Len(m)) \in Seq(Frames)
      BY <1>3
    <3>4. SubSeq(t, 1, b + Len(m)) \o <<>> = SubSeq(t, 1, b + Len(m))
      BY <3>3
    <3>. QED
      BY <2>1, <2>2, <3>1, <3>2, <3>4
  <2>. QED
    BY <1>3, <2>3, <2>4, <2>5
<1>7. Len(t) \in T
  <2>1. Len(t) \in 0..Len(t)
    BY <1>3
  <2>. HIDE DEF T
  <2>. QED
    BY <1>3, <1>5, <1>6, <2>1, UpToInduction
<1>8. Upto(patch, t, Len(t)) = t
  <2>1. E(Len(t)) = Len(t)
    BY <1>3
  <2>2. SubSeq(t, 1, Len(t)) = t
    OBVIOUS
  <2>. QED
    BY <1>7, <2>1, <2>2
<1>9. MissingDescription(t) = <<>>
  <2>. SUFFICES ASSUME ReplacesDescription PROVE Earlier(t, Len(t) + 1, "SNAM")
    BY DEF MissingDescription
  <2>1. PICK h \in 1..Len(t) : t[h] = Description
    BY DEF Settled, FirstIs
  <2>2. h \in 1..((Len(t) + 1) - 1) /\ t[h].sig = "SNAM"
    BY <1>3, <2>1, OwnFrames
  <2>. QED
    BY <2>2 DEF Earlier
<1>10. MissingMasters(t) = <<>>
  <2>. SUFFICES ASSUME ReplacesMasters, ~Earlier(t, Len(t) + 1, "MAST") PROVE m = <<>>
    BY <1>2 DEF MissingMasters
  <2>1. CASE Len(m) = 0
    BY <2>1
  <2>2. CASE Len(m) # 0
    <3>1. 1 \in 1..Len(m) /\ b + 1 \in 1..((Len(t) + 1) - 1)
      BY <1>3, <2>2
    <3>2. t[b + 1] = m[1] /\ m[1].sig = "MAST"
      BY <1>2, <3>1, MasterFramesAlternate DEF BlockAt, Alternates, ReplacesMasters
    <3>. QED
      BY <3>1, <3>2 DEF Earlier
  <2>. QED
    BY <2>1, <2>2
<1>11. (t \o <<>>) \o <<>> = t
  OBVIOUS
<1>. QED
  BY <1>8, <1>9, <1>10, <1>11, IntendedParts

-----------------------------------------------------------------------------
(***************************************************************************)
(* The walk: its output is what the frames so far become, and its flags    *)
(* say which frames it has met.                                            *)
(***************************************************************************)
Met(n) ==
    /\ "hedr" \in seen <=> Earlier(source, n, "HEDR")
    /\ ReplacesMasters => ("masters" \in seen <=> Earlier(source, n, "MAST"))
    /\ ReplacesDescription => ("description" \in seen <=> Earlier(source, n, "SNAM"))
    /\ followsMaster <=> n > 1 /\ source[n - 1].sig = "MAST"

WalkInv ==
    /\ source \in Seq(Frames) /\ patch \in Patches
    /\ status \in {"walking", "built", "written", "error"}
    /\ pos \in 1..(Len(source) + 1)
    /\ status = "walking" => output = Upto(patch, source, pos - 1) /\ Met(pos)
    /\ status = "built" => output = Intended(patch, source)
    /\ status = "written" => written.frames = Intended(patch, source)
    /\ round \in Nat
    /\ round > 1 => Intended(patch, source) = source

\* The walk starts with nothing written.
LEMMA WalkInitInv == InitHeader => WalkInv
<1>. SUFFICES ASSUME InitHeader PROVE WalkInv
  OBVIOUS
<1>1. source \in Seq(Frames) /\ patch \in Patches /\ pos = 1 /\ status = "walking" /\ round = 1
      /\ output = <<>> /\ seen = {} /\ followsMaster = FALSE
  BY HeadersHoldFrames DEF InitHeader
<1>2. Upto(patch, source, 0) = <<>>
  BY <1>1, UptoFacts
<1>3. pos \in 1..(Len(source) + 1) /\ pos - 1 = 0
  BY <1>1
<1>4. Met(1)
  <2>1. \A sig : ~Earlier(source, 1, sig)
    BY DEF Earlier
  <2>2. ~followsMaster
    BY <1>1, Zenon
  <2>. QED
    BY <1>1, <2>1, <2>2 DEF Met
<1>. QED
  BY <1>1, <1>2, <1>3, <1>4 DEF WalkInv

\* A step of the walk appends what the frame at its position becomes.
LEMMA WalkStep ==
    ASSUME WalkInv, Walking, Advance(Becomes(patch, source, pos)), status' = "walking",
           "hedr" \in seen' <=> "hedr" \in seen \/ Sub.sig = "HEDR",
           ReplacesMasters => ("masters" \in seen' <=> "masters" \in seen \/ Sub.sig = "MAST"),
           ReplacesDescription =>
              ("description" \in seen' <=> "description" \in seen \/ Sub.sig = "SNAM")
    PROVE  WalkInv'
<1>1. /\ source' = source /\ patch' = patch /\ round' = round /\ pos' = pos + 1
      /\ output' = output \o Becomes(patch, source, pos)
      /\ followsMaster' = (source[pos].sig = "MAST")
  BY DEF Advance, Sub
<1>2. /\ source \in Seq(Frames) /\ patch \in Patches /\ Len(source) \in Nat
      /\ pos \in 1..Len(source) /\ pos - 1 \in 0..(Len(source) - 1) /\ (pos - 1) + 1 = pos
      /\ output = Upto(patch, source, pos - 1) /\ Met(pos)
  BY DEF WalkInv, Walking
<1>3. Upto(patch, source, pos) = Upto(patch, source, pos - 1) \o Becomes(patch, source, pos)
  BY <1>2, UptoFacts
<1>4. pos' - 1 = pos /\ pos' \in 1..(Len(source) + 1)
  BY <1>1, <1>2
<1>8. Met(pos)'
  <2>1. \A sig : Earlier(source, pos + 1, sig) <=> Earlier(source, pos, sig) \/ source[pos].sig = sig
    <3>1. pos - 1 \in Nat
      BY <1>2
    <3>. QED
      BY <1>2, <3>1, EarlierNext
  <2>2. \A n, sig : Earlier(source, n, sig)' <=> Earlier(source, n, sig)
    BY <1>1 DEF Earlier
  <2>3. pos + 1 > 1 /\ (pos + 1) - 1 = pos
    BY <1>2
  <2>4. /\ "hedr" \in seen' <=> Earlier(source, pos + 1, "HEDR")
        /\ ReplacesMasters => ("masters" \in seen' <=> Earlier(source, pos + 1, "MAST"))
        /\ ReplacesDescription => ("description" \in seen' <=> Earlier(source, pos + 1, "SNAM"))
    BY <1>2, <2>1 DEF Met, Sub
  <2>5. followsMaster' <=> source[pos].sig = "MAST"
    BY <1>1
  <2>. QED
    BY <1>1, <2>3, <2>4, <2>5 DEF Met, Earlier, ReplacesMasters, ReplacesDescription
<1>. QED
  BY <1>1, <1>2, <1>3, <1>4, <1>8 DEF WalkInv

\* Each frame that is walked appends what it is to become.
LEMMA WalkKeepsInv ==
    ASSUME WalkInv, UpdateHedr \/ ReplaceMaster \/ DropMasterData \/ ReplaceDescription \/ CopyFrame
    PROVE  WalkInv'
<1>1. /\ Walking /\ status = "walking" /\ source \in Seq(Frames) /\ pos \in 1..Len(source)
      /\ Met(pos)
  BY DEF WalkInv, Walking, UpdateHedr, ReplaceMaster, DropMasterData, ReplaceDescription, CopyFrame
<1>2. Becomes(patch, source, pos) =
         IF IsFirst(source, pos, "HEDR") THEN <<Frame("HEDR", "current")>>
         ELSE IF ReplacesMasters /\ source[pos].sig = "MAST"
         THEN IF Earlier(source, pos, "MAST") THEN <<>> ELSE MasterFrames(patch.masters)
         ELSE IF ReplacesMasters /\ IsMasterData(source, pos) THEN <<>>
         ELSE IF ReplacesDescription /\ IsFirst(source, pos, "SNAM")
         THEN <<Frame("SNAM", patch.description)>>
         ELSE <<source[pos]>>
  BY <1>1, BecomesFacts
<1>3. /\ UpdatesHedr <=> IsFirst(source, pos, "HEDR")
      /\ MasterData <=> IsMasterData(source, pos)
      /\ ReplacesThisDescription <=> ReplacesDescription /\ IsFirst(source, pos, "SNAM")
  BY <1>1 DEF Met, UpdatesHedr, MasterData, ReplacesThisDescription, IsFirst, IsMasterData, Sub
<1>4. CASE UpdateHedr
  <2>1. Advance(Becomes(patch, source, pos)) /\ Sub.sig = "HEDR" /\ seen' = seen \union {"hedr"}
        /\ status' = "walking"
    BY <1>1, <1>2, <1>3, <1>4 DEF UpdateHedr, UpdatesHedr
  <2>. QED
    BY <1>1, <2>1, WalkStep
<1>5. CASE ReplaceMaster
  <2>1. Advance(Becomes(patch, source, pos))
    BY <1>1, <1>2, <1>5 DEF ReplaceMaster, Met, Sub, IsFirst
  <2>2. Sub.sig = "MAST" /\ seen' = seen \union {"masters"} /\ status' = "walking"
    BY <1>1, <1>5 DEF ReplaceMaster
  <2>. QED
    BY <1>1, <2>1, <2>2, WalkStep
<1>6. CASE DropMasterData
  <2>1. Advance(Becomes(patch, source, pos)) /\ Sub.sig = "DATA" /\ seen' = seen
        /\ status' = "walking"
    BY <1>1, <1>2, <1>3, <1>6 DEF DropMasterData, MasterData, IsMasterData, IsFirst, Sub
  <2>. QED
    BY <1>1, <2>1, WalkStep
<1>7. CASE ReplaceDescription
  <2>1. Advance(Becomes(patch, source, pos)) /\ Sub.sig = "SNAM"
        /\ seen' = seen \union {"description"} /\ status' = "walking"
    BY <1>1, <1>2, <1>3, <1>7
       DEF ReplaceDescription, ReplacesThisDescription, IsFirst, IsMasterData, Sub
  <2>. QED
    BY <1>1, <2>1, WalkStep
<1>8. CASE CopyFrame
  <2>1. Advance(Becomes(patch, source, pos)) /\ seen' = seen /\ status' = "walking"
    BY <1>1, <1>2, <1>3, <1>8 DEF CopyFrame, Sub
  <2>2. /\ Sub.sig = "HEDR" => "hedr" \in seen
        /\ ReplacesMasters => Sub.sig # "MAST"
        /\ ReplacesDescription /\ Sub.sig = "SNAM" => "description" \in seen
    BY <1>8 DEF CopyFrame, UpdatesHedr, ReplacesThisDescription
  <2>. QED
    BY <1>1, <2>1, <2>2, WalkStep
<1>. QED
  BY <1>4, <1>5, <1>6, <1>7, <1>8

\* The end of the walk adds what was missing.
LEMMA FinishKeepsInv == ASSUME WalkInv, FinishPayload PROVE WalkInv'
<1>1. /\ source' = source /\ patch' = patch /\ round' = round /\ pos' = pos
      /\ status = "walking" /\ pos > Len(source)
  BY DEF FinishPayload
<1>2. /\ source \in Seq(Frames) /\ Len(source) \in Nat /\ pos = Len(source) + 1
      /\ pos - 1 = Len(source)
      /\ output = Upto(patch, source, Len(source)) /\ Met(Len(source) + 1)
  <2>1. source \in Seq(Frames) /\ pos \in 1..(Len(source) + 1)
    BY DEF WalkInv
  <2>2. Len(source) \in Nat /\ pos = Len(source) + 1 /\ pos - 1 = Len(source)
    BY <1>1, <2>1
  <2>. QED
    BY <1>1, <2>1, <2>2 DEF WalkInv
<1>3. CASE status' = "error"
  BY <1>1, <1>3 DEF WalkInv
<1>4. CASE status' = "built"
  <2>1. output' = (output
           \o (IF ReplacesDescription /\ "description" \notin seen
               THEN <<Frame("SNAM", patch.description)>> ELSE <<>>))
           \o (IF ReplacesMasters /\ "masters" \notin seen
               THEN MasterFrames(patch.masters) ELSE <<>>)
    BY <1>4 DEF FinishPayload
  <2>2. output' = (Upto(patch, source, Len(source)) \o MissingDescription(source))
                     \o MissingMasters(source)
    BY <1>2, <2>1 DEF Met, MissingDescription, MissingMasters, Description
  <2>3. output' = Intended(patch, source)
    BY <1>2, <2>2, IntendedParts
  <2>. QED
    BY <1>1, <1>4, <2>3 DEF WalkInv
<1>. QED
  BY <1>3, <1>4 DEF FinishPayload

\* Writing the record keeps the invariant.
LEMMA WriteKeepsInv == ASSUME WalkInv, WriteUpdated PROVE WalkInv'
<1>1. /\ source' = source /\ patch' = patch /\ round' = round /\ pos' = pos
      /\ status' = "written" /\ output = Intended(patch, source)
  BY DEF WriteUpdated, WalkInv
<1>2. written'.frames = output
  BY DEF WriteUpdated
<1>. QED
  BY <1>1, <1>2 DEF WalkInv

\* The written header may be the source of a second patch.
LEMMA AgainKeepsInv == ASSUME WalkInv, PatchAgain PROVE WalkInv'
<1>. DEFINE new == Intended(patch, source)
<1>1. /\ source' = new /\ patch' = patch /\ round' = round + 1 /\ pos' = 1 /\ output' = <<>>
      /\ seen' = {} /\ followsMaster' = FALSE /\ status' = "walking"
  BY DEF PatchAgain, WalkInv
<1>2. patch \in Patches /\ source \in Seq(Frames) /\ round \in Nat
  BY DEF WalkInv
<1>3. new \in Seq(Frames) /\ Settled(new)
  BY <1>2, IntendedIsSettled
<1>. HIDE DEF new
<1>4. Intended(patch, new) = new /\ Upto(patch, new, 0) = <<>>
  BY <1>2, <1>3, SettledStays, UptoFacts
<1>5. Len(new) \in Nat
  BY <1>3
<1>6. Met(1)'
  <2>1. \A sig : ~Earlier(new, 1, sig)
    BY DEF Earlier
  <2>2. ~followsMaster'
    BY <1>1, Zenon
  <2>. QED
    BY <1>1, <2>1, <2>2 DEF Met, Earlier
<1>7. pos' \in 1..(Len(source') + 1) /\ pos' - 1 = 0
  BY <1>1, <1>5
<1>. QED
  BY <1>1, <1>2, <1>3, <1>4, <1>6, <1>7 DEF WalkInv

\* The invariant holds on every walk over every header.
THEOREM WalkInvHolds == HeaderSpec => []WalkInv
<1>1. WalkInv /\ [NextHeader]_headerVars => WalkInv'
  <2>. SUFFICES ASSUME WalkInv, [NextHeader]_headerVars PROVE WalkInv'
    OBVIOUS
  <2>1. CASE UNCHANGED headerVars
    BY <2>1 DEF headerVars, WalkInv, Met, Earlier, ReplacesMasters, ReplacesDescription
  <2>2. CASE RejectShortHedr
    BY <2>2 DEF RejectShortHedr, WalkInv
  <2>. QED
    BY <2>1, <2>2, WalkKeepsInv, FinishKeepsInv, WriteKeepsInv, AgainKeepsInv DEF NextHeader
<1>. QED
  BY <1>1, WalkInitInv, PTL DEF HeaderSpec

\* Only the specified fields of the header change, and patching the result
\* again changes nothing (updated_payload, write_updated).
THEOREM OnlySpecifiedChange == HeaderSpec => []OnlySpecifiedFieldsChange
<1>1. WalkInv => OnlySpecifiedFieldsChange
  BY DEF WalkInv, OnlySpecifiedFieldsChange
<1>. QED
  BY <1>1, WalkInvHolds, PTL

\* The COMPRESSED flag says how the body was written, whatever flags the
\* patch sets or clears (write_updated).
THEOREM FlagMatchesBody == HeaderSpec => []CompressedFlagMatchesBody
<1>1. InitHeader => CompressedFlagMatchesBody
  BY DEF InitHeader, CompressedFlagMatchesBody
<1>2. CompressedFlagMatchesBody /\ [NextHeader]_headerVars => CompressedFlagMatchesBody'
  <2>. SUFFICES ASSUME CompressedFlagMatchesBody, [NextHeader]_headerVars
                PROVE  CompressedFlagMatchesBody'
    OBVIOUS
  <2>1. CASE WriteUpdated
    BY <2>1 DEF WriteUpdated, PlainFlags, CompressedFlagMatchesBody
  <2>2. CASE UNCHANGED <<status, written>>
    BY <2>2 DEF CompressedFlagMatchesBody
  <2>3. CASE status' # "written"
    BY <2>3 DEF CompressedFlagMatchesBody
  <2>. QED
    BY <2>1, <2>2, <2>3 DEF NextHeader, headerVars, UpdateHedr, RejectShortHedr, ReplaceMaster,
       DropMasterData, ReplaceDescription, CopyFrame, FinishPayload, PatchAgain, Advance, Walking
<1>. QED
  BY <1>1, <1>2, PTL DEF HeaderSpec
=============================================================================
