---------------------------- MODULE Eslify_proofs ----------------------------
(***************************************************************************)
(* Proofs about the renaming of Eslify for every list of groups.           *)
(***************************************************************************)
EXTENDS Eslify, SequenceFacts, FiniteSetTheorems

(***************************************************************************)
(* The remap table of PluginWriter::eslify: it renames exactly the         *)
(* plugin's own FormIDs, to different ones, from the first of the range    *)
(* on, with no gap above the number of records.                            *)
(***************************************************************************)
LEMMA OwnedIsFinite ==
    ASSUME NEW gs, Len(AllRecords(gs)) \in Nat, NEW count
    PROVE  IsFiniteSet(Owned(gs, count)) /\ Cardinality(Owned(gs, count)) \in Nat
<1>1. IsFiniteSet(1..Len(AllRecords(gs)))
  BY FS_Interval
<1>2. Owned(gs, count) \subseteq 1..Len(AllRecords(gs))
  BY DEF Owned
<1>3. IsFiniteSet(Owned(gs, count))
  BY <1>1, <1>2, FS_Subset
<1>. QED
  BY <1>3, FS_CardinalityType

Before(owned, n) == {i \in owned : i < n}

\* Ranks in a finite set of numbers are below its size and differ.
LEMMA RankFacts ==
    ASSUME NEW owned, IsFiniteSet(owned), owned \subseteq Nat
    PROVE  \A m \in owned :
              /\ Cardinality(Before(owned, m)) \in Nat
              /\ Cardinality(Before(owned, m)) < Cardinality(owned)
              /\ \A n \in owned :
                    m < n => Cardinality(Before(owned, m)) < Cardinality(Before(owned, n))
<1>. SUFFICES ASSUME NEW m \in owned
              PROVE  /\ Cardinality(Before(owned, m)) \in Nat
                     /\ Cardinality(Before(owned, m)) < Cardinality(owned)
                     /\ \A n \in owned :
                           m < n => Cardinality(Before(owned, m)) < Cardinality(Before(owned, n))
  OBVIOUS
<1>1. ASSUME NEW T, T \subseteq owned, m \in T, Before(owned, m) \subseteq T
      PROVE  /\ Cardinality(Before(owned, m)) \in Nat
             /\ Cardinality(Before(owned, m)) < Cardinality(T)
  <2>1. IsFiniteSet(T)
    BY <1>1, FS_Subset
  <2>2. m \notin Before(owned, m)
    BY DEF Before
  <2>3. Before(owned, m) # T
    BY <1>1, <2>2
  <2>4. /\ IsFiniteSet(Before(owned, m))
        /\ Cardinality(Before(owned, m)) <= Cardinality(T)
        /\ Cardinality(Before(owned, m)) = Cardinality(T) => Before(owned, m) = T
    BY <1>1, <2>1, FS_Subset
  <2>5. Cardinality(Before(owned, m)) \in Nat /\ Cardinality(T) \in Nat
    BY <2>1, <2>4, FS_CardinalityType
  <2>. QED
    BY <2>3, <2>4, <2>5
<1>2. Before(owned, m) \subseteq owned
  BY DEF Before
<1>3. Cardinality(Before(owned, m)) \in Nat /\ Cardinality(Before(owned, m)) < Cardinality(owned)
  BY <1>1, <1>2
<1>4. ASSUME NEW n \in owned, m < n
      PROVE  Cardinality(Before(owned, m)) < Cardinality(Before(owned, n))
  <2>1. Before(owned, n) \subseteq owned /\ m \in Before(owned, n)
        /\ Before(owned, m) \subseteq Before(owned, n)
    <3>1. m \in Nat /\ n \in Nat /\ \A i \in owned : i \in Nat
      OBVIOUS
    <3>2. \A i \in owned : i < m => i < n
      BY <1>4, <3>1
    <3>. QED
      BY <1>4, <3>2 DEF Before
  <2>. QED
    BY <1>1, <2>1
<1>. QED
  BY <1>3, <1>4

\* The table renames exactly the own records, into the light range from min
\* on, and gives no number twice.
LEMMA RemapFacts ==
    ASSUME NEW gs, Len(AllRecords(gs)) \in Nat, NEW count, NEW min \in Nat
    PROVE  LET table == RemapTable(gs, count, min)
           IN  /\ \A f : f \in DOMAIN table <=>
                     \E i \in 1..Len(AllRecords(gs)) :
                        AllRecords(gs)[i].form = f /\ f.file = count
               /\ \A f \in DOMAIN table :
                     /\ table[f].file = EslFile
                     /\ table[f].object \in Nat
                     /\ table[f].object >= min
                     /\ table[f].object < min + Cardinality(Owned(gs, count))
                     /\ table[f] = FormId(EslFile, table[f].object)
                     /\ \A h \in DOMAIN table : f # h => table[f].object # table[h].object
<1>. DEFINE all == AllRecords(gs)
            owned == Owned(gs, count)
            At(f) == {i \in owned : all[i].form = f}
            last(f) == Max(At(f))
            rank(f) == Cardinality(Before(owned, last(f)))
            table == RemapTable(gs, count, min)
<1>1. owned \subseteq Nat /\ owned \subseteq 0..Len(all) /\ IsFiniteSet(owned)
      /\ Cardinality(owned) \in Nat
  <2>1. owned \subseteq 1..Len(all)
    BY DEF Owned
  <2>2. IsFiniteSet(owned) /\ Cardinality(owned) \in Nat
    BY OwnedIsFinite
  <2>3. 1..Len(all) \subseteq Nat /\ 1..Len(all) \subseteq 0..Len(all)
    OBVIOUS
  <2>. HIDE DEF owned, all
  <2>. QED
    BY <2>1, <2>2, <2>3
<1>2. /\ DOMAIN table = {all[i].form : i \in owned}
      /\ \A f \in DOMAIN table : table[f] = FormId(EslFile, min + rank(f))
  BY DEF RemapTable, Before
<1>3. \A f : f \in DOMAIN table <=> \E i \in 1..Len(all) : all[i].form = f /\ f.file = count
  BY <1>2 DEF Owned
<1>. HIDE DEF all, owned, table
<1>4. ASSUME NEW f \in DOMAIN table PROVE last(f) \in owned /\ all[last(f)].form = f
  <2>1. At(f) # {} /\ At(f) \subseteq 0..Len(all)
    BY <1>1, <1>2
  <2>2. Len(all) \in Nat
    BY DEF all
  <2>. HIDE DEF At
  <2>3. \E m \in At(f) : \A k \in At(f) : k <= m
    BY <2>1, <2>2, GreatestElement
  <2>4. At(f) \subseteq Nat
    BY <2>1
  <2>5. \E m \in At(f) : \A k \in At(f) : m >= k
    BY <2>3, <2>4
  <2>6. Max(At(f)) \in At(f)
    BY <2>5, Zenon DEF Max
  <2>. QED
    BY <2>6 DEF At
<1>. HIDE DEF last
<1>5. ASSUME NEW f \in DOMAIN table
      PROVE  rank(f) \in Nat /\ rank(f) < Cardinality(owned)
  BY <1>1, <1>4, RankFacts
<1>6. ASSUME NEW f \in DOMAIN table, NEW h \in DOMAIN table, f # h PROVE rank(f) # rank(h)
  <2>1. last(f) \in owned /\ last(h) \in owned /\ last(f) # last(h)
    BY <1>4, <1>6
  <2>2. last(f) < last(h) \/ last(h) < last(f)
    <3>1. last(f) \in Nat /\ last(h) \in Nat
      BY <1>1, <2>1
    <3>. QED
      BY <2>1, <3>1
  <2>3. rank(f) < rank(h) \/ rank(h) < rank(f)
    BY <1>1, <2>1, <2>2, RankFacts
  <2>4. rank(f) \in Nat /\ rank(h) \in Nat
    BY <1>5
  <2>. QED
    BY <2>3, <2>4
<1>. HIDE DEF rank
<1>7. ASSUME NEW f \in DOMAIN table
      PROVE  table[f].file = EslFile /\ table[f].object = min + rank(f)
             /\ table[f] = FormId(EslFile, table[f].object)
  <2>1. table[f] = FormId(EslFile, min + rank(f))
    BY <1>2 DEF rank
  <2>. QED
    BY <2>1 DEF FormId
<1>8. ASSUME NEW f \in DOMAIN table
      PROVE  /\ table[f].object \in Nat /\ table[f].object >= min
             /\ table[f].object < min + Cardinality(owned)
  BY <1>1, <1>5, <1>7
<1>9. ASSUME NEW f \in DOMAIN table, NEW h \in DOMAIN table, f # h
      PROVE  table[f].object # table[h].object
  BY <1>5, <1>6, <1>7, <1>9
<1>. QED
  BY <1>3, <1>7, <1>8, <1>9 DEF table, owned, all

(***************************************************************************)
(* eslify applied: a group keeps its length, and every record has the      *)
(* FormID that the table gives it.                                         *)
(***************************************************************************)
\* A record has a FormID and words.
IsRecord(r) == {"form", "words"} \subseteq DOMAIN r

\* Renaming touches the FormID and the references of a record only.
LEMMA RemapRecordFields ==
    ASSUME NEW table, NEW r, IsRecord(r)
    PROVE  /\ RemapRecord(table, r).form = Renamed(table, r.form)
           /\ RemapRecord(table, r).words =
                 [i \in 1..Len(r.words) |-> RemapWord(table, r.words[i])]
           /\ DOMAIN RemapRecord(table, r) = DOMAIN r
           /\ \A k \in DOMAIN r : k \notin {"form", "words"} => RemapRecord(table, r)[k] = r[k]
BY DEF RemapRecord, IsRecord

\* eslify renames each record of each group in place.
LEMMA EslifiedForms ==
    ASSUME NEW gs, NEW count, NEW min, NEW g \in 1..Len(gs),
           \A i \in 1..Len(gs[g]) : IsRecord(gs[g][i]), Len(gs[g]) \in Nat
    PROVE  /\ Len(EslifiedGroups(gs, count, min)[g]) = Len(gs[g])
           /\ \A i \in 1..Len(gs[g]) :
                 EslifiedGroups(gs, count, min)[g][i] =
                    RemapRecord(RemapTable(gs, count, min), gs[g][i])
BY DEF EslifiedGroups, ApplyRemap

\* The records of a single group are the group.
LEMMA FlattenOne ==
    ASSUME NEW group
    PROVE  AllRecords(<<group>>) = group
<1>1. Len(<<group>>) = 1 /\ <<group>>[1] = group
  OBVIOUS
<1>2. PICK f : /\ f = [n \in 1..Len(<<group>>) |-> FlattenStep(<<group>>, f, n)]
               /\ FlattenSeq(<<group>>) = f[Len(<<group>>)]
  BY <1>1, FlattenRecursion
<1>3. \A n \in 1..Len(<<group>>) : f[n] = FlattenStep(<<group>>, f, n)
  BY <1>2
<1>4. f[1] = group
  BY <1>1, <1>3 DEF FlattenStep
<1>. QED
  BY <1>1, <1>2, <1>4 DEF AllRecords
=============================================================================
