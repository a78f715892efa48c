------------------------ MODULE PluginWriter_proofs ------------------------
(***************************************************************************)
(* Proofs about PluginWriter for every set of groups a caller may build,   *)
(* every game context and every size of the light range.                   *)
(***************************************************************************)
EXTENDS PluginWriter, Eslify_proofs

\* The records of all groups.
Records == UNION {ToSet(g) : g \in Groups}

\* The records a caller may add, as the proofs need them.
LEMMA RecordFacts ==
    /\ Groups \subseteq Seq(Records)
    /\ \A r \in Records : /\ IsRecord(r)
                          /\ "id" \in DOMAIN r
                          /\ r.form.file \in 0..(U8 - 1)
                          /\ r.form.file # EslFile
                          /\ r.form.object \in Nat
<1>1. \A g \in Groups : ToSet(g) \subseteq Records
  BY DEF Records
<1>2. \A g \in Groups : g \in Seq(Records)
  BY <1>1, GroupsAssumption
<1>. QED
  BY <1>2, GroupsAssumption DEF Records, IsRecord

\* ToSet and In say the same of a sequence.
LEMMA ToSetMembers ==
    ASSUME NEW S, NEW list \in Seq(S)
    PROVE  \A x : x \in ToSet(list) <=> In(list, x)
BY DEF ToSet, In

-----------------------------------------------------------------------------
(***************************************************************************)
(* The next free object ID of the header is above every object ID the      *)
(* plugin uses itself.                                                     *)
(***************************************************************************)
LEMMA GreatestObject ==
    ASSUME NEW N \in Nat, NEW v, \A i \in 1..N : v[i] \in Nat, NEW P, P \subseteq 1..N, P # {}
    PROVE  \E m \in {v[i] : i \in P} : \A k \in {v[i] : i \in P} : m >= k
<1>. DEFINE V(n) == {v[i] : i \in {i \in P : i <= n}}
            T == {n \in 0..N : V(n) = {} \/ \E m \in V(n) : \A k \in V(n) : m >= k}
<1>1. 0 \in T
  <2>1. V(0) = {}
    OBVIOUS
  <2>. QED
    BY <2>1
<1>2. ASSUME NEW n \in 0..(N - 1), n \in T PROVE n + 1 \in T
  <2>1. n + 1 \in 0..N /\ \A i \in P : i <= n + 1 <=> i <= n \/ i = n + 1
    OBVIOUS
  <2>2. CASE n + 1 \notin P
    <3>1. {i \in P : i <= n + 1} = {i \in P : i <= n}
      BY <2>1, <2>2
    <3>. QED
      BY <1>2, <2>1, <3>1
  <2>3. CASE n + 1 \in P
    <3>1. \A k : k \in V(n + 1) <=> k \in V(n) \/ k = v[n + 1]
      BY <2>1, <2>3
    <3>2. \A k \in V(n) : k \in Nat
      OBVIOUS
    <3>3. v[n + 1] \in Nat
      BY <2>3
    <3>4. CASE \E m \in V(n) : \A k \in V(n) : m >= k
      <4>1. PICK m \in V(n) : \A k \in V(n) : m >= k
        BY <3>4
      <4>. DEFINE top == IF m >= v[n + 1] THEN m ELSE v[n + 1]
      <4>2. top \in V(n + 1) /\ \A k \in V(n + 1) : top >= k
        <5>. HIDE DEF V
        <5>. QED
          BY <3>1, <3>2, <3>3, <4>1
      <4>. QED
        BY <2>1, <4>2
    <3>5. CASE V(n) = {}
      <4>1. v[n + 1] \in V(n + 1) /\ \A k \in V(n + 1) : v[n + 1] >= k
        <5>. HIDE DEF V
        <5>. QED
          BY <3>1, <3>3, <3>5
      <4>. QED
        BY <2>1, <4>1
    <3>. QED
      BY <1>2, <3>4, <3>5
  <2>. QED
    BY <2>2, <2>3
<1>3. N \in T
  <2>. HIDE DEF T
  <2>1. N \in 0..N
    OBVIOUS
  <2>. QED
    BY <1>1, <1>2, <2>1, UpToInduction
<1>4. V(N) = {v[i] : i \in P}
  <2>1. \A i \in P : i <= N
    OBVIOUS
  <2>. QED
    BY <2>1
<1>5. V(N) # {}
  BY <1>4
<1>. HIDE DEF V
<1>. QED
  BY <1>3, <1>4, <1>5

\* The next object ID is above those of all own records (next_object_id).
LEMMA NextIsFree ==
    ASSUME NEW gs \in Seq(Seq(Records)), NEW count
    PROVE  \A r \in ToSet(AllRecords(gs)) :
              r.form.file = count => r.form.object < NextObjectId(gs, count)
<1>. DEFINE all == AllRecords(gs)
            v == [i \in 1..Len(all) |-> all[i].form.object]
<1>1. all \in Seq(Records)
  BY FlattenMembers DEF AllRecords
<1>. SUFFICES ASSUME NEW r \in ToSet(AllRecords(gs)), r.form.file = count
              PROVE  r.form.object < NextObjectId(gs, count)
  OBVIOUS
<1>2. PICK i \in 1..Len(all) : all[i] = r
  BY <1>1, ToSetMembers DEF In
<1>3. i \in Owned(gs, count) /\ Owned(gs, count) \subseteq 1..Len(all)
  BY <1>2 DEF Owned
<1>4. Len(all) \in Nat /\ \A j \in 1..Len(all) : v[j] \in Nat /\ v[j] = all[j].form.object
  BY <1>1, RecordFacts
<1>5. OwnObjects(gs, count) = {v[j] : j \in Owned(gs, count)}
  BY <1>3 DEF OwnObjects
<1>6. r.form.object \in OwnObjects(gs, count) /\ r.form.object \in Nat
  BY <1>2, <1>3, <1>4 DEF OwnObjects
<1>. HIDE DEF all, v
<1>7. OwnObjects(gs, count) \subseteq Nat
  BY <1>3, <1>4, <1>5
<1>8. \E m \in OwnObjects(gs, count) : \A k \in OwnObjects(gs, count) : m >= k
  <2>1. Owned(gs, count) # {}
    BY <1>3
  <2>2. \A j \in 1..Len(all) : v[j] \in Nat
    BY <1>4
  <2>. DEFINE P == Owned(gs, count)
  <2>. HIDE DEF P
  <2>3. P \subseteq 1..Len(all) /\ P # {} /\ Len(all) \in Nat
    BY <1>3, <1>4, <2>1 DEF P
  <2>4. \E m \in {v[j] : j \in P} : \A k \in {v[j] : j \in P} : m >= k
    BY <2>2, <2>3, GreatestObject
  <2>5. \E m \in {v[j] : j \in Owned(gs, count)} :
           \A k \in {v[j] : j \in Owned(gs, count)} : m >= k
    BY <2>4 DEF P
  <2>. QED
    BY <1>5, <2>5
<1>9. /\ Max(OwnObjects(gs, count)) \in OwnObjects(gs, count)
      /\ \A k \in OwnObjects(gs, count) : Max(OwnObjects(gs, count)) >= k
  BY <1>8, Zenon DEF Max
<1>10. NextObjectId(gs, count) = 1 + Max(OwnObjects(gs, count))
  BY <1>3 DEF NextObjectId
<1>. QED
  BY <1>6, <1>7, <1>9, <1>10

-----------------------------------------------------------------------------
(***************************************************************************)
(* The invariant: until eslify the groups are the caller's, and every      *)
(* serialised plugin fits its header.                                      *)
(***************************************************************************)
Fits(p) ==
    p # NoFile =>
        /\ p.complete => p.tes4.count = Len(AllRecords(p.groups))
        /\ ~p.tes4.light =>
             \A r \in ToSet(AllRecords(p.groups)) :
                r.form.file = Len(p.tes4.masters) => r.form.object < p.tes4.next

CallersGroups == ~light => groups \in Seq(Groups)

WriterInv ==
    /\ masters \in Seq(MasterNames)
    /\ light \in BOOLEAN
    /\ CallersGroups
    /\ eslified = 0 => ~light
    /\ eslified \in Nat
    /\ ctx \in Contexts
    /\ Fits(memory) /\ Fits(file)

\* A plugin cut off after n groups fits the header of the whole.
LEMMA PartFits ==
    ASSUME WriterInv, NEW n \in 0..Len(groups), ~light
    PROVE  \A r \in ToSet(AllRecords(SubSeq(groups, 1, n))) :
              r.form.file = Len(masters) => r.form.object < NextObjectId(groups, MasterCount)
<1>1. groups \in Seq(Seq(Records))
  BY RecordFacts DEF WriterInv, CallersGroups
<1>. DEFINE part == SubSeq(groups, 1, n)
<1>2. /\ part \in Seq(Seq(Records))
      /\ Len(part) = n
      /\ \A i \in 1..n : part[i] = groups[i] /\ i \in 1..Len(groups)
  BY <1>1
<1>. HIDE DEF part
<1>3. ASSUME NEW r \in ToSet(AllRecords(part)), r.form.file = Len(masters)
      PROVE  r.form.object < NextObjectId(groups, MasterCount)
  <2>1. AllRecords(part) \in Seq(Records) /\ AllRecords(groups) \in Seq(Records)
    BY <1>1, <1>2, FlattenMembers DEF AllRecords
  <2>2. In(AllRecords(part), r)
    BY <1>3, <2>1, ToSetMembers
  <2>3. PICK i \in 1..n : In(part[i], r)
    BY <1>2, <2>2, FlattenMembers DEF AllRecords
  <2>4. In(AllRecords(groups), r)
    BY <1>1, <1>2, <2>3, FlattenMembers DEF AllRecords
  <2>5. r \in ToSet(AllRecords(groups)) /\ r \in Records
    BY <2>1, <2>4, ToSetMembers DEF In
  <2>6. Len(masters) \in 0..(U8 - 1)
    BY <1>3, <2>5, RecordFacts
  <2>7. MasterCount = Len(masters)
    BY <2>6, WriterAssumption DEF MasterCount
  <2>. QED
    BY <1>1, <1>3, <2>5, <2>7, NextIsFree
<1>. QED
  BY <1>3 DEF part

\* Whatever part of the plugin reached the file, its header fits it.
LEMMA SerialisedFits ==
    ASSUME WriterInv
    PROVE  /\ Fits(Serialised) /\ Fits(NoFile)
           /\ \A n \in 0..Len(groups) :
                 Fits([tes4 |-> Tes4, groups |-> SubSeq(groups, 1, n), complete |-> FALSE])
<1>1. Fits(NoFile)
  BY DEF Fits
<1>2. \A n \in 0..Len(groups) :
         Fits([tes4 |-> Tes4, groups |-> SubSeq(groups, 1, n), complete |-> FALSE])
  <2>. SUFFICES ASSUME NEW n \in 0..Len(groups)
                PROVE  Fits([tes4 |-> Tes4, groups |-> SubSeq(groups, 1, n), complete |-> FALSE])
    OBVIOUS
  <2>. DEFINE part == SubSeq(groups, 1, n)
              p == [tes4 |-> Tes4, groups |-> part, complete |-> FALSE]
  <2>1. ~light => \A r \in ToSet(AllRecords(part)) :
           r.form.file = Len(masters) => r.form.object < NextObjectId(groups, MasterCount)
    BY PartFits
  <2>. HIDE DEF part
  <2>2. Fits(p)
    BY <2>1 DEF Fits, Tes4
  <2>. QED
    BY <2>2 DEF part
<1>3. Fits(Serialised)
  <2>1. Serialised.complete /\ Serialised.groups = groups /\ Serialised.tes4 = Tes4
    BY DEF Serialised
  <2>2. Tes4.count = Len(AllRecords(groups)) /\ Tes4.light = light /\ Tes4.masters = masters
        /\ Tes4.next = NextObjectId(groups, MasterCount)
    BY DEF Tes4
  <2>3. ASSUME ~light
        PROVE  \A r \in ToSet(AllRecords(groups)) :
                  r.form.file = Len(masters) => r.form.object < NextObjectId(groups, MasterCount)
    <3>1. groups \in Seq(Groups)
      BY <2>3 DEF WriterInv, CallersGroups
    <3>2. Len(groups) \in 0..Len(groups) /\ SubSeq(groups, 1, Len(groups)) = groups
      BY <3>1
    <3>. QED
      BY <2>3, <3>2, PartFits
  <2>. QED
    BY <2>1, <2>2, <2>3 DEF Fits
<1>. QED
  BY <1>1, <1>2, <1>3

\* A new writer satisfies the invariant.
LEMMA WriterInitInv == Init => WriterInv
<1>1. Init => Fits(memory) /\ Fits(file)
  BY DEF Init, Fits
<1>2. <<>> \in Seq(Groups) /\ <<>> \in Seq(MasterNames)
  OBVIOUS
<1>3. Init => masters \in Seq(MasterNames) /\ groups \in Seq(Groups)
  BY <1>2 DEF Init
<1>4. Init => light \in BOOLEAN /\ ~light
  BY Zenon DEF Init
<1>5. Init => eslified \in Nat /\ ctx \in Contexts
  BY DEF Init
<1>. QED
  BY <1>1, <1>3, <1>4, <1>5 DEF WriterInv, CallersGroups

\* Every call keeps the invariant.
LEMMA WriterStepKeepsInv == WriterInv /\ [Next]_vars => WriterInv'
<1>. SUFFICES ASSUME WriterInv, [Next]_vars PROVE WriterInv'
  OBVIOUS
<1>. USE DEF WriterInv, CallersGroups
<1>. HIDE DEF Fits
<1>1. CASE AddMaster
  BY <1>1 DEF AddMaster
<1>2. CASE AddGroup
  BY <1>2 DEF AddGroup
<1>3. CASE EslifyUnsupported \/ EslifyTooMany
  BY <1>3 DEF EslifyUnsupported, EslifyTooMany
<1>4. CASE Eslify
  BY <1>4 DEF Eslify
<1>5. CASE WriteToVec
  BY <1>5, SerialisedFits DEF WriteToVec
<1>6. CASE WriteToFile
  BY <1>6, SerialisedFits DEF WriteToFile
<1>7. CASE WriteToFileFails
  <2>1. Fits(file')
    BY <1>7, SerialisedFits DEF WriteToFileFails
  <2>. QED
    BY <1>7, <2>1 DEF WriteToFileFails
<1>8. CASE UNCHANGED vars
  BY <1>8 DEF vars
<1>. QED
  BY <1>1, <1>2, <1>3, <1>4, <1>5, <1>6, <1>7, <1>8 DEF Next

\* The invariant holds whatever is added, eslified and written.
THEOREM WriterInvHolds == Spec => []WriterInv
BY WriterInitInv, WriterStepKeepsInv, PTL DEF Spec

\* The header of a plugin counts its records and its next object ID is free
\* (PluginWriter::write_to_vec, write_to_file, serialise_tes4).
THEOREM HeaderFits == Spec => []HeaderFitsRecords
<1>1. WriterInv => HeaderFitsRecords
  BY DEF WriterInv, HeaderFitsRecords, Fits
<1>. QED
  BY <1>1, WriterInvHolds, PTL

-----------------------------------------------------------------------------
(***************************************************************************)
(* One eslify renames the caller's records one to one, and every reference *)
(* with its record.                                                        *)
(***************************************************************************)
Table == RemapTable(groups, MasterCount, ctx.min)

\* Both are renamed, to different numbers, or one is: to the light range,
\* which no record of the caller is in.
LEMMA RenamedForms ==
    ASSUME WriterInv, ~light, Cardinality(Owned(groups, MasterCount)) <= EslCapacity
    PROVE  \A r \in Records :
              /\ Renamed(Table, r.form).file = EslFile =>
                    Renamed(Table, r.form).object \in ctx.min..EslMax
              /\ \A q \in Records :
                    r.form # q.form => Renamed(Table, r.form) # Renamed(Table, q.form)
<1>1. groups \in Seq(Seq(Records)) /\ ctx.min \in 1..(EslObjects - 1)
  BY RecordFacts, WriterAssumption DEF WriterInv, CallersGroups
<1>2. AllRecords(groups) \in Seq(Records)
  BY <1>1, FlattenMembers DEF AllRecords
<1>3. Len(AllRecords(groups)) \in Nat /\ ctx.min \in Nat
  BY <1>1, <1>2, FormIdAssumption
<1>4. Cardinality(Owned(groups, MasterCount)) \in Nat
  BY <1>3, OwnedIsFinite
<1>5. \A f \in DOMAIN Table :
         /\ Table[f].file = EslFile
         /\ Table[f].object \in Nat /\ Table[f].object >= ctx.min
         /\ Table[f].object < ctx.min + Cardinality(Owned(groups, MasterCount))
         /\ \A h \in DOMAIN Table : f # h => Table[f].object # Table[h].object
  BY <1>3, RemapFacts DEF Table
<1>6. \A f \in DOMAIN Table : Table[f].object \in ctx.min..EslMax
  BY <1>1, <1>3, <1>4, <1>5, FormIdAssumption DEF EslCapacity, EslMax
<1>7. ASSUME NEW r \in Records, NEW q \in Records, r.form # q.form
      PROVE  Renamed(Table, r.form) # Renamed(Table, q.form)
  <2>1. r.form.file # EslFile /\ q.form.file # EslFile
    BY RecordFacts
  <2>2. r.form \in DOMAIN Table /\ q.form \in DOMAIN Table => Table[r.form] # Table[q.form]
    BY <1>5, <1>7
  <2>. QED
    BY <1>5, <1>7, <2>1, <2>2 DEF Renamed
<1>8. ASSUME NEW r \in Records, Renamed(Table, r.form).file = EslFile
      PROVE  Renamed(Table, r.form).object \in ctx.min..EslMax
  BY <1>6, <1>8, RecordFacts DEF Renamed
<1>. QED
  BY <1>7, <1>8

\* The records after eslify are the renamed records.
LEMMA EslifiedMembers ==
    ASSUME WriterInv, ~light
    PROVE  \A x \in ToSet(AllRecords(EslifiedGroups(groups, MasterCount, ctx.min))) :
              \E r \in Records : x = RemapRecord(Table, r)
<1>. DEFINE new == EslifiedGroups(groups, MasterCount, ctx.min)
            S == {RemapRecord(Table, r) : r \in Records}
<1>1. groups \in Seq(Seq(Records))
  BY RecordFacts DEF WriterInv, CallersGroups
<1>2. new = [g \in 1..Len(groups) |-> [i \in 1..Len(groups[g]) |-> RemapRecord(Table, groups[g][i])]]
  BY DEF EslifiedGroups, ApplyRemap, Table
<1>3. ASSUME NEW g \in 1..Len(groups)
      PROVE  [i \in 1..Len(groups[g]) |-> RemapRecord(Table, groups[g][i])] \in Seq(S)
  <2>1. groups[g] \in Seq(Records)
    BY <1>1
  <2>2. Len(groups[g]) \in Nat /\ \A i \in 1..Len(groups[g]) : groups[g][i] \in Records
    BY <2>1
  <2>3. \A i \in 1..Len(groups[g]) : RemapRecord(Table, groups[g][i]) \in S
    BY <2>2
  <2>. HIDE DEF S
  <2>. QED
    BY <2>2, <2>3
<1>4. new \in Seq(Seq(S))
  <2>1. Len(groups) \in Nat
    BY <1>1
  <2>. HIDE DEF S, new
  <2>. QED
    BY <1>2, <1>3, <2>1
<1>. HIDE DEF new
<1>5. AllRecords(new) \in Seq(S)
  <2>. HIDE DEF S
  <2>. QED
    BY <1>4, FlattenMembers DEF AllRecords
<1>6. \A x \in ToSet(AllRecords(new)) : x \in S
  <2>. HIDE DEF S
  <2>. QED
    BY <1>5 DEF ToSet
<1>. QED
  BY <1>6 DEF new

\* eslify renames records and their references alike.
LEMMA EslifyFollows ==
    ASSUME WriterInv, eslified = 0, Eslify
    PROVE  ReferencesFollowTheirRecords'
<1>. DEFINE all == ToSet(AllRecords(groups'))
            W(id) == CHOOSE x \in all : x.id = id
<1>1. ~light /\ Cardinality(Owned(groups, MasterCount)) <= EslCapacity
      /\ groups' = EslifiedGroups(groups, MasterCount, ctx.min) /\ ctx' = ctx
  BY DEF Eslify, WriterInv
<1>2. \A x \in all : \E r \in Records : x = RemapRecord(Table, r)
  BY <1>1, EslifiedMembers
<1>3. \A r \in Records : /\ RemapRecord(Table, r).form = Renamed(Table, r.form)
                         /\ RemapRecord(Table, r).words =
                               [i \in 1..Len(r.words) |-> RemapWord(Table, r.words[i])]
                         /\ RemapRecord(Table, r).id = r.id
  <2>. SUFFICES ASSUME NEW r \in Records
                PROVE  /\ RemapRecord(Table, r).form = Renamed(Table, r.form)
                       /\ RemapRecord(Table, r).words =
                               [i \in 1..Len(r.words) |-> RemapWord(Table, r.words[i])]
                       /\ RemapRecord(Table, r).id = r.id
    OBVIOUS
  <2>1. IsRecord(r) /\ "id" \in DOMAIN r
    BY RecordFacts
  <2>. QED
    BY <2>1, RemapRecordFields
<1>. HIDE DEF all
<1>4. \A r, q \in Records : (r.id = q.id => r = q) /\ (r.form = q.form => r = q)
  BY GroupsAssumption DEF Records
<1>5. \A x \in all : W(x.id) = x
  <2>. SUFFICES ASSUME NEW x \in all PROVE W(x.id) = x
    OBVIOUS
  <2>1. W(x.id) \in all /\ W(x.id).id = x.id
    BY Zenon
  <2>. DEFINE y == W(x.id)
  <2>. HIDE DEF y
  <2>2. y \in all /\ y.id = x.id
    BY <2>1 DEF y
  <2>3. PICK r \in Records : x = RemapRecord(Table, r)
    BY <1>2
  <2>4. PICK q \in Records : y = RemapRecord(Table, q)
    BY <1>2, <2>2
  <2>5. r.id = q.id
    BY <1>3, <2>2, <2>3, <2>4
  <2>6. r = q
    BY <1>4, <2>5
  <2>. QED
    BY <2>3, <2>4, <2>6 DEF y
<1>6. ASSUME NEW x \in all, NEW y \in all, x.id # y.id PROVE x.form # y.form
  <2>1. PICK r \in Records : x = RemapRecord(Table, r)
    BY <1>2
  <2>2. PICK q \in Records : y = RemapRecord(Table, q)
    BY <1>2
  <2>3. r.form # q.form
    BY <1>3, <1>4, <1>6, <2>1, <2>2
  <2>4. Renamed(Table, r.form) # Renamed(Table, q.form)
    BY <1>1, <2>3, RenamedForms
  <2>. QED
    BY <1>3, <2>1, <2>2, <2>4
<1>7. ASSUME NEW x \in all, x.form.file = EslFile PROVE x.form.object \in ctx.min..EslMax
  <2>1. PICK r \in Records : x = RemapRecord(Table, r)
    BY <1>2
  <2>. QED
    BY <1>1, <1>3, <1>7, <2>1, RenamedForms
<1>8. ASSUME NEW x \in all, NEW w \in ToSet(x.words), NEW y \in all, w.kind = "ref", w.to = y.id
      PROVE  w.form = y.form
  <2>1. PICK r \in Records : x = RemapRecord(Table, r)
    BY <1>2
  <2>2. PICK q \in Records : y = RemapRecord(Table, q)
    BY <1>2
  <2>3. x.words = [i \in 1..Len(r.words) |-> RemapWord(Table, r.words[i])]
    BY <1>3, <2>1
  <2>4. PICK i \in 1..Len(r.words) : w = RemapWord(Table, r.words[i])
    BY <2>3 DEF ToSet
  <2>. DEFINE v == r.words[i]
  <2>5. /\ {"kind", "form", "to"} \subseteq DOMAIN v
        /\ v.kind = "ref" /\ v.to = q.id => v.form = q.form
    BY <2>4, GroupsAssumption DEF Records
  <2>. HIDE DEF v
  <2>6. w = RemapWord(Table, v)
    BY <2>4 DEF v
  <2>7. v.kind # "odd" /\ v.kind = "ref"
    BY <1>8, <2>5, <2>6 DEF RemapWord
  <2>8. w.to = v.to /\ w.form = Renamed(Table, v.form)
    BY <2>5, <2>6, <2>7 DEF RemapWord
  <2>9. v.to = q.id
    BY <1>3, <1>8, <2>2, <2>8
  <2>. QED
    BY <1>3, <2>2, <2>5, <2>7, <2>8, <2>9
<1>9. Present' = {x.id : x \in all} /\ \A id : Written(id)' = W(id)
  BY DEF Present, Written, all
<1>10. \A id \in Present' : \E x \in all : id = x.id /\ Written(id)' = x
  BY <1>5, <1>9
<1>11. \A a, b \in Present' : a # b => Written(a)'.form # Written(b)'.form
  BY <1>6, <1>10
<1>12. \A a \in Present' : Written(a)'.form.file = EslFile =>
                              Written(a)'.form.object \in ctx.min..EslMax
  BY <1>7, <1>10
<1>13. \A r \in all : \A w \in ToSet(r.words) :
          (w.kind = "ref" /\ w.to \in Present') => w.form = Written(w.to)'.form
  BY <1>8, <1>10
<1>. QED
  BY <1>1, <1>11, <1>12, <1>13 DEF ReferencesFollowTheirRecords, all, EslMax

\* No call separates a reference from its record.
LEMMA StepFollows ==
    WriterInv /\ ReferencesFollowTheirRecords /\ [Next]_vars => ReferencesFollowTheirRecords'
<1>. SUFFICES ASSUME WriterInv, ReferencesFollowTheirRecords, [Next]_vars
              PROVE  ReferencesFollowTheirRecords'
  OBVIOUS
<1>1. CASE outcome' # "eslified" \/ eslified' # 1
  BY <1>1 DEF ReferencesFollowTheirRecords
<1>2. CASE UNCHANGED vars
  <2>1. /\ groups' = groups /\ ctx' = ctx
        /\ outcome' = outcome /\ eslified' = eslified
    BY <1>2 DEF vars
  <2>2. Present' = Present /\ \A id : Written(id)' = Written(id)
    BY <2>1 DEF Present, Written
  <2>. QED
    BY <2>1, <2>2 DEF ReferencesFollowTheirRecords, EslMax
<1>3. CASE Eslify /\ eslified' = 1
  <2>1. eslified = 0
    BY <1>3 DEF Eslify, WriterInv
  <2>. QED
    BY <1>3, <2>1, EslifyFollows
<1>. QED
  BY <1>1, <1>2, <1>3 DEF Next, AddMaster, AddGroup, EslifyUnsupported, EslifyTooMany, Eslify,
     WriteToVec, WriteToFile, WriteToFileFails

\* After one eslify no two records share a FormID, those of the plugin are in
\* the light range, and references name the records they meant
\* (PluginWriter::eslify, remap_form_ids_in_bytes).
THEOREM ReferencesFollow == Spec => []ReferencesFollowTheirRecords
<1>1. Init => ReferencesFollowTheirRecords
  BY DEF Init, ReferencesFollowTheirRecords
<1>. QED
  BY <1>1, WriterInvHolds, StepFollows, PTL DEF Spec
=============================================================================
