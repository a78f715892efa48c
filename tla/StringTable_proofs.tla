------------------------- MODULE StringTable_proofs -------------------------
(***************************************************************************)
(* Proofs about StringTable for every width of the identifiers and every   *)
(* set of payloads, and about LocalizationSet for all sets of languages,   *)
(* handles and texts and every installation: sets do not disturb each      *)
(* other, and files that were cut off are never read as shorter tables.    *)
(***************************************************************************)
EXTENDS StringTable, LocalizationSet, FiniteSetTheorems, WellFoundedInduction, TLAPS
Lists == INSTANCE SequenceFacts

(***************************************************************************)
(* The inductive invariant: the counter is in range and ahead of every     *)
(* identifier of the table's history.                                      *)
(***************************************************************************)
Inv == TableTypeOK /\ NextIdIsAhead

\* The empty table satisfies the invariant.
LEMMA InitInv == InitTable => Inv
BY StringTableAssumption
   DEF InitTable, Inv, TableTypeOK, NextIdIsAhead, NoStrings, TableIds

\* What raising the counter does: it stays in range, never falls, and is
\* above the identifier unless it has saturated.
LEMMA RaisedIsAhead ==
    ASSUME next_id \in 1..MaxId, NEW id \in TableIds
    PROVE  /\ Raised(id) \in 1..MaxId
           /\ Raised(id) >= next_id
           /\ id < Raised(id) \/ Raised(id) = MaxId
BY StringTableAssumption DEF Raised, Saturated, TableIds

\* A string that is put under an identifier keeps the invariant, whether the
\* caller or the allocation chose the identifier.
LEMMA PutKeepsInv ==
    ASSUME Inv, NEW id \in TableIds, NEW payload \in Payloads,
           entries' = Put(id, payload), next_id' = Raised(id), removed' = removed \ {id}
    PROVE  Inv'
<1>1. next_id \in 1..MaxId /\ removed \subseteq TableIds /\ DOMAIN entries \subseteq TableIds
  BY DEF Inv, TableTypeOK
<1>2. next_id' \in 1..MaxId /\ next_id' >= next_id /\ (id < next_id' \/ next_id' = MaxId)
  BY <1>1, RaisedIsAhead
<1>3. DOMAIN entries' = DOMAIN entries \union {id}
  BY DEF Put
<1>4. entries' \in [DOMAIN entries' -> Payloads]
  BY <1>3 DEF Put, Inv, TableTypeOK
<1>5. TableTypeOK'
  BY <1>1, <1>2, <1>3, <1>4 DEF TableTypeOK, TableIds
<1>6. NextIdIsAhead'
  <2>. SUFFICES ASSUME NEW x \in DOMAIN entries' \union removed'
                PROVE  x < next_id' \/ next_id' = MaxId
    BY DEF NextIdIsAhead
  <2>1. CASE x = id
    BY <2>1, <1>2
  <2>2. CASE x # id
    <3>1. x \in DOMAIN entries \union removed /\ x \in TableIds
      BY <2>2, <1>1, <1>3
    <3>2. x < next_id \/ next_id = MaxId
      BY <3>1 DEF Inv, NextIdIsAhead
    <3>. QED
      BY <3>1, <3>2, <1>1, <1>2, StringTableAssumption DEF TableIds
  <2>. QED
    BY <2>1, <2>2
<1>. QED
  BY <1>5, <1>6 DEF Inv

\* remove leaves the counter above the identifier it retires.
LEMMA RemoveKeepsInv ==
    ASSUME Inv, NEW id \in TableIds, Remove(id)
    PROVE  Inv'
BY DEF Inv, TableTypeOK, NextIdIsAhead, Remove, TableIds

\* A rebuilt table starts its counter above all of its identifiers.
LEMMA RebuildKeepsInv ==
    ASSUME Inv, Rebuild
    PROVE  Inv'
<1>1. PICK next \in TableIds : Rebuilt(next) /\ next_id' = next
  BY DEF Rebuild
<1>2. entries' = entries /\ removed' = {}
  BY DEF Rebuild
<1>3. next_id' \in 1..MaxId
  BY <1>1, StringTableAssumption DEF Rebuilt, TableIds
<1>4. \A id \in DOMAIN entries : id < next_id' \/ next_id' = MaxId
  <2>. SUFFICES ASSUME NEW id \in DOMAIN entries
                PROVE  id < next_id' \/ next_id' = MaxId
    OBVIOUS
  <2>1. id \in 0..MaxId
    BY DEF Inv, TableTypeOK, TableIds
  <2>2. Saturated(id) <= next_id'
    BY <1>1 DEF Rebuilt
  <2>. QED
    BY <2>1, <2>2, <1>3, StringTableAssumption DEF Saturated
<1>. QED
  BY <1>2, <1>3, <1>4 DEF Inv, TableTypeOK, NextIdIsAhead

\* Every call keeps the invariant.
LEMMA StepKeepsInv == Inv /\ [NextTable]_tableVars => Inv'
<1>. SUFFICES ASSUME Inv, [NextTable]_tableVars PROVE Inv'
  OBVIOUS
<1>1. ASSUME NEW id \in TableIds, NEW payload \in Payloads, Insert(id, payload)
      PROVE  Inv'
  BY <1>1, PutKeepsInv DEF Insert
<1>2. ASSUME NEW payload \in Payloads, TryInsertNew(payload)
      PROVE  Inv'
  BY <1>2, PutKeepsInv DEF TryInsertNew
<1>3. CASE Exhausted
  BY <1>3 DEF Exhausted, Inv, TableTypeOK, NextIdIsAhead
<1>4. ASSUME NEW id \in TableIds, Remove(id) PROVE Inv'
  BY <1>4, RemoveKeepsInv
<1>5. CASE Rebuild
  BY <1>5, RebuildKeepsInv
<1>6. CASE UNCHANGED tableVars
  BY <1>6 DEF tableVars, Inv, TableTypeOK, NextIdIsAhead
<1>. QED
  BY <1>1, <1>2, <1>3, <1>4, <1>5, <1>6 DEF NextTable

\* The inductive invariant holds in every history of a table.
THEOREM InvHolds == TableSpec => []Inv
<1>. QED
  BY InitInv, StepKeepsInv, PTL DEF TableSpec

\* The type invariant: identifiers stay in the machine word and next_id never
\* wraps to 0 (StringTable::insert, try_insert_new, parse).
THEOREM TypeCorrect == TableSpec => []TableTypeOK
<1>1. Inv => TableTypeOK
  BY DEF Inv
<1>. QED
  BY <1>1, InvHolds, PTL

\* next_id is above every identifier that is or was in the table, or has
\* saturated (StringTable::insert, try_insert_new, remove).
THEOREM NextIdAhead == TableSpec => []NextIdIsAhead
<1>1. Inv => NextIdIsAhead
  BY DEF Inv
<1>. QED
  BY <1>1, InvHolds, PTL

-----------------------------------------------------------------------------
\* The outcome of a step tells which call it was.
LEMMA AllocatedByTryInsertNew ==
    ASSUME NextTable, outcome'.op = "allocated"
    PROVE  \E payload \in Payloads : TryInsertNew(payload)
<1>1. ASSUME NEW id \in TableIds, NEW payload \in Payloads PROVE ~Insert(id, payload)
  BY DEF Insert, Outcome
<1>2. ASSUME NEW id \in TableIds PROVE ~Remove(id)
  BY DEF Remove, Outcome
<1>3. ~Exhausted /\ ~Rebuild
  BY DEF Exhausted, Rebuild, Outcome
<1>. QED
  BY <1>1, <1>2, <1>3 DEF NextTable

\* What the search returns is free and nonzero.
LEMMA FreshIsFree ==
    ASSUME Inv, NEW id \in TableIds, Fresh(id)
    PROVE  id \notin DOMAIN entries /\ id # 0
BY StringTableAssumption DEF Fresh, First, Lowest, Gaps, Inv, TableTypeOK

\* An allocation leaves every string of the table where it is, at the limit of
\* the identifier space included (StringTable::try_insert_new).
LEMMA StepReplacesNothing ==
    Inv /\ [NextTable]_tableVars => [ReplacesNothing]_tableVars
<1>. SUFFICES ASSUME Inv, NextTable, outcome'.op = "allocated"
              PROVE  /\ outcome'.id \in DOMAIN entries' \ (DOMAIN entries \union {0})
                     /\ \A id \in DOMAIN entries : entries'[id] = entries[id]
  BY DEF ReplacesNothing
<1>1. PICK payload \in Payloads : TryInsertNew(payload)
  BY AllocatedByTryInsertNew
<1>2. PICK id \in TableIds : /\ Fresh(id)
                             /\ entries' = Put(id, payload)
                             /\ outcome' = Outcome("allocated", id)
  BY <1>1 DEF TryInsertNew
<1>3. id \notin DOMAIN entries /\ id # 0
  BY <1>2, FreshIsFree
<1>4. outcome'.id = id
  BY <1>2 DEF Outcome
<1>. QED
  BY <1>2, <1>3, <1>4 DEF Put

\* Until the counter saturates a removed identifier is not handed out again
\* (StringTable::try_insert_new after remove).
THEOREM RetiredForGood == TableSpec => RemovedIdsStayRetired
<1>1. ASSUME Inv, [NextTable]_tableVars
      PROVE  [outcome'.op = "allocated" /\ next_id < MaxId => outcome'.id \notin removed]_tableVars
  <2>1. CASE UNCHANGED tableVars
    BY <2>1
  <2>2. CASE NextTable /\ outcome'.op = "allocated" /\ next_id < MaxId
    <3>1. PICK payload \in Payloads : TryInsertNew(payload)
      BY <2>2, AllocatedByTryInsertNew
    <3>2. PICK id \in TableIds : Fresh(id) /\ outcome' = Outcome("allocated", id)
      BY <3>1 DEF TryInsertNew
    <3>3. next_id \in 1..MaxId
      BY <1>1 DEF Inv, TableTypeOK
    <3>4. First = next_id
      BY <3>3, StringTableAssumption DEF First
    <3>5. \A x \in DOMAIN entries \union removed : x < next_id
      BY <1>1, <2>2, <3>3, StringTableAssumption DEF Inv, NextIdIsAhead
    <3>6. next_id \notin DOMAIN entries \union removed
      BY <3>5, <3>3, StringTableAssumption
    <3>7. id = next_id
      BY <3>2, <3>4, <3>6 DEF Fresh
    <3>. QED
      BY <3>2, <3>6, <3>7 DEF Outcome
  <2>3. CASE ~(outcome'.op = "allocated" /\ next_id < MaxId)
    BY <2>3
  <2>. QED
    BY <1>1, <2>1, <2>2, <2>3
<1>. QED
  BY <1>1, InvHolds, PTL DEF TableSpec, RemovedIdsStayRetired

\* Where there is a gap there is a lowest one.
LEMMA LowestGapExists ==
    ASSUME Gaps # {}
    PROVE  \E id \in TableIds : Lowest(id)
<1>1. Gaps \subseteq Nat
  BY StringTableAssumption DEF Gaps
<1>2. \E id \in Gaps : \A gap \in Gaps : <<gap, id>> \notin OpToRel(<, Nat)
  BY <1>1, NatLessThanWellFounded, WFMin
<1>3. \A m, n \in Nat : m < n => <<m, n>> \in OpToRel(<, Nat)
  BY DEF OpToRel
<1>4. \E id \in Gaps : \A gap \in Gaps : ~(gap < id)
  BY <1>1, <1>2, <1>3, Zenon
<1>5. PICK id \in Gaps : \A gap \in Gaps : ~(gap < id)
  BY <1>4
<1>6. \A gap \in Gaps : id <= gap
  BY <1>1, <1>5
<1>7. id \in TableIds
  BY <1>5, StringTableAssumption DEF Gaps, TableIds
<1>. QED
  BY <1>6, <1>7 DEF Lowest

\* No call is refused while an identifier is free (StringTable::try_insert_new
\* at the limit).
LEMMA StepRefusesWhenFull ==
    Inv /\ [NextTable]_tableVars => [RefusesWhenFull]_tableVars
<1>. SUFFICES ASSUME Inv, NextTable, outcome'.op = "exhausted"
              PROVE  1..MaxId \subseteq DOMAIN entries
  BY DEF RefusesWhenFull
<1>1. ASSUME NEW id \in TableIds, NEW payload \in Payloads PROVE ~Insert(id, payload)
  BY DEF Insert, Outcome
<1>2. ASSUME NEW payload \in Payloads PROVE ~TryInsertNew(payload)
  BY DEF TryInsertNew, Outcome
<1>3. ASSUME NEW id \in TableIds PROVE ~Remove(id)
  BY DEF Remove, Outcome
<1>4. ~Rebuild
  BY DEF Rebuild, Outcome
<1>5. Exhausted
  BY <1>1, <1>2, <1>3, <1>4 DEF NextTable
<1>6. First \in TableIds
  BY StringTableAssumption DEF First, Inv, TableTypeOK, TableIds
<1>7. First \in DOMAIN entries
  BY <1>5, <1>6 DEF Exhausted, Fresh
<1>8. \A id \in TableIds : ~Lowest(id)
  BY <1>5, <1>7 DEF Exhausted, Fresh
<1>9. Gaps = {}
  BY <1>8, LowestGapExists
<1>. QED
  BY <1>9 DEF Gaps

\* An allocation finds a free identifier whenever there is one and takes
\* nothing else, at the limit of the identifier space included
\* (StringTable::try_insert_new).
THEOREM FreeIdsAreFound == TableSpec => AllocationFindsFreeIds
<1>1. Inv /\ [NextTable]_tableVars => [ReplacesNothing /\ RefusesWhenFull]_tableVars
  BY StepReplacesNothing, StepRefusesWhenFull
<1>. QED
  BY <1>1, InvHolds, PTL DEF TableSpec, AllocationFindsFreeIds

-----------------------------------------------------------------------------
(***************************************************************************)
(* A string of a set is owned, or borrowed from the language the set was   *)
(* opened from.                                                            *)
(***************************************************************************)
Homes(h) ==
    \A k \in DOMAIN sets[h] : \A id \in DOMAIN sets[h][k] :
        sets[h][k][id].home = Heap \/ sets[h][k][id].home = origin[h]

SetsInv ==
    /\ DOMAIN sets = Handles
    /\ DOMAIN origin = Handles
    /\ DOMAIN files = Languages
    /\ \A h \in Handles : IsOpen(h) => DOMAIN sets[h] = Kinds
    /\ \A h \in Handles : origin[h] \in Languages \union {Heap}
    /\ \A h \in Handles : Homes(h)

\* Before anything is opened the invariant holds.
LEMMA SetsInitInv == Init => SetsInv
<1>. SUFFICES ASSUME Init PROVE SetsInv
  OBVIOUS
<1>1. sets = [h \in Handles |-> NoSet] /\ origin = [h \in Handles |-> Heap]
      /\ DOMAIN files = Languages
  BY DEF Init
<1>2. DOMAIN NoSet = {}
  BY DEF NoSet
<1>. QED
  BY <1>1, <1>2 DEF SetsInv, Homes, IsOpen

\* What it takes for a set to be in order, given where it comes from.
SetOK(set, home) ==
    /\ set # NoSet => DOMAIN set = Kinds
    /\ home \in Languages \union {Heap}
    /\ \A k \in DOMAIN set : \A id \in DOMAIN set[k] :
           set[k][id].home = Heap \/ set[k][id].home = home

\* The invariant is one of each set.
LEMMA SetsInvIsPointwise ==
    SetsInv <=> /\ DOMAIN sets = Handles /\ DOMAIN origin = Handles
                /\ DOMAIN files = Languages
                /\ \A h \in Handles : SetOK(sets[h], origin[h])
BY DEF SetsInv, SetOK, Homes, IsOpen

\* A step that replaces one set as a whole.
LEMMA ReplaceKeepsInv ==
    ASSUME SetsInv, NEW h \in Handles, SetOK(sets'[h], origin'[h]),
           DOMAIN sets' = Handles, DOMAIN origin' = Handles, DOMAIN files' = Languages,
           \A g \in Handles : g # h => sets'[g] = sets[g] /\ origin'[g] = origin[g]
    PROVE  SetsInv'
<1>1. \A g \in Handles : SetOK(sets[g], origin[g])
  BY SetsInvIsPointwise
<1>2. \A g \in Handles : SetOK(sets'[g], origin'[g])
  <2>. SUFFICES ASSUME NEW g \in Handles PROVE SetOK(sets'[g], origin'[g])
    OBVIOUS
  <2>. QED
    BY <1>1
<1>. QED
  BY <1>2 DEF SetsInv, SetOK, Homes, IsOpen

\* Text, for given files.
TextIn(fs, kind, s) ==
    IF s.home = Heap THEN s.text
    ELSE LET file == fs[s.home][kind]
         IN  [i \in 1..s.len |-> IF s.at + i - 1 <= Len(file) THEN file[s.at + i - 1]
                                                             ELSE Nul]

\* The texts of a set do not depend on the files of other languages.
LEMMA SameFilesSameContents ==
    ASSUME SetsInv, NEW h \in Handles, sets'[h] = sets[h], IsOpen(h),
           origin[h] = Heap \/ files'[origin[h]] = files[origin[h]]
    PROVE  AllContents(h)' = AllContents(h)
<1>1. DOMAIN sets[h] = Kinds
  BY DEF SetsInv
<1>2. ASSUME NEW k \in Kinds, NEW id \in DOMAIN sets[h][k]
      PROVE  TextIn(files', k, sets[h][k][id]) = TextIn(files, k, sets[h][k][id])
  <2>. DEFINE s == sets[h][k][id]
  <2>1. s.home = Heap \/ s.home = origin[h]
    BY <1>1 DEF SetsInv, Homes
  <2>. HIDE DEF s
  <2>2. CASE s.home = Heap
    BY <2>2 DEF TextIn, s
  <2>3. CASE s.home # Heap
    <3>1. files'[s.home] = files[s.home]
      BY <2>1, <2>3
    <3>. QED
      BY <3>1 DEF TextIn, s
  <2>. QED
    BY <2>2, <2>3
<1>3. AllContents(h) = [k \in Kinds |-> [id \in DOMAIN sets[h][k] |-> TextIn(files, k, sets[h][k][id])]]
  BY DEF AllContents, Contents, Text, TextIn
<1>4. AllContents(h)' =
         [k \in Kinds |-> [id \in DOMAIN sets'[h][k] |-> TextIn(files', k, sets'[h][k][id])]]
  BY DEF AllContents, Contents, Text, TextIn
<1>5. \A k \in Kinds : [id \in DOMAIN sets[h][k] |-> TextIn(files', k, sets[h][k][id])] =
                      [id \in DOMAIN sets[h][k] |-> TextIn(files, k, sets[h][k][id])]
  BY <1>2
<1>. QED
  BY <1>3, <1>4, <1>5

\* Each operation keeps the invariant: an opened set borrows from its language
\* only, an edited string and those of a copy are owned.
LEMMA OpenKeepsInv ==
    ASSUME SetsInv, NEW h \in Handles, NEW lang \in Languages, Open(h, lang)
    PROVE  SetsInv'
<1>. DEFINE new == [k \in Kinds |-> Opened(lang, k)]
<1>1. sets' = [sets EXCEPT ![h] = new] /\ origin' = [origin EXCEPT ![h] = lang] /\ files' = files
  BY DEF Open
<1>2. \A k \in Kinds : \A id \in DOMAIN Opened(lang, k) : Opened(lang, k)[id].home = lang
  BY DEF Opened, Borrowed, NoEntries
<1>3. SetOK(new, lang)
  BY <1>2 DEF SetOK
<1>. HIDE DEF new
<1>4. /\ DOMAIN sets' = Handles /\ DOMAIN origin' = Handles /\ DOMAIN files' = Languages
      /\ sets'[h] = new /\ origin'[h] = lang
      /\ \A g \in Handles : g # h => sets'[g] = sets[g] /\ origin'[g] = origin[g]
  BY <1>1 DEF SetsInv
<1>5. SetOK(sets'[h], origin'[h])
  BY <1>3, <1>4
<1>. QED
  BY <1>4, <1>5, ReplaceKeepsInv

\* The strings of a table are owned, or were in the set before.
AtHome(h, k, table) ==
    \A x \in DOMAIN table : table[x].home = Heap
        \/ (x \in DOMAIN sets[h][k] /\ table[x] = sets[h][k][x])

\* Replacing one table of a set by such a table keeps the invariant.
LEMMA TableKeepsInv ==
    ASSUME SetsInv, NEW h \in Handles, IsOpen(h), origin' = origin, files' = files,
           NEW k \in Kinds, NEW table, AtHome(h, k, table),
           sets' = [sets EXCEPT ![h][k] = table]
    PROVE  SetsInv'
<1>. DEFINE new == [sets[h] EXCEPT ![k] = table]
<1>1. DOMAIN sets[h] = Kinds /\ Homes(h) /\ origin[h] \in Languages \union {Heap}
  BY DEF SetsInv
<1>2. DOMAIN new = Kinds /\ new[k] = table /\ \A j \in Kinds : j # k => new[j] = sets[h][j]
  BY <1>1
<1>3. /\ DOMAIN sets' = Handles /\ sets'[h] = new
      /\ \A g \in Handles : g # h => sets'[g] = sets[g]
  BY DEF SetsInv
<1>. HIDE DEF new
<1>4. \A j \in Kinds : \A x \in DOMAIN new[j] :
         new[j][x].home = Heap \/ new[j][x].home = origin[h]
  BY <1>1, <1>2 DEF Homes, AtHome
<1>5. SetOK(new, origin[h])
  BY <1>1, <1>2, <1>4 DEF SetOK
<1>6. SetOK(sets'[h], origin'[h]) /\ DOMAIN origin' = Handles /\ DOMAIN files' = Languages
  BY <1>3, <1>5 DEF SetsInv
<1>. QED
  BY <1>3, <1>6, ReplaceKeepsInv

\* An edit puts an owned string into one table, or takes one out.
LEMMA EditKeepsInv ==
    ASSUME SetsInv, NEW h \in Handles, Edit(h)
    PROVE  SetsInv'
<1>1. IsOpen(h) /\ origin' = origin /\ files' = files
  BY DEF Edit
<1>2. PICK k \in Kinds, id \in Ids :
         \/ \E text \in Texts :
               sets' = [sets EXCEPT ![h][k] =
                           [x \in DOMAIN @ \union {id} |->
                               IF x = id THEN Owned(text) ELSE @[x]]]
         \/ /\ id \in DOMAIN sets[h][k]
            /\ sets' = [sets EXCEPT ![h][k] = [x \in DOMAIN @ \ {id} |-> @[x]]]
  BY DEF Edit
<1>3. CASE \E text \in Texts :
               sets' = [sets EXCEPT ![h][k] =
                           [x \in DOMAIN @ \union {id} |->
                               IF x = id THEN Owned(text) ELSE @[x]]]
  <2>1. PICK text \in Texts :
               sets' = [sets EXCEPT ![h][k] =
                           [x \in DOMAIN sets[h][k] \union {id} |->
                               IF x = id THEN Owned(text) ELSE sets[h][k][x]]]
    BY <1>3
  <2>. DEFINE table == [x \in DOMAIN sets[h][k] \union {id} |->
                           IF x = id THEN Owned(text) ELSE sets[h][k][x]]
  <2>2. AtHome(h, k, table)
    BY DEF AtHome, Owned
  <2>3. sets' = [sets EXCEPT ![h][k] = table]
    BY <2>1
  <2>. HIDE DEF table
  <2>. QED
    BY <1>1, <2>2, <2>3, TableKeepsInv
<1>4. CASE sets' = [sets EXCEPT ![h][k] = [x \in DOMAIN @ \ {id} |-> @[x]]]
  <2>. DEFINE table == [x \in DOMAIN sets[h][k] \ {id} |-> sets[h][k][x]]
  <2>1. sets' = [sets EXCEPT ![h][k] = table]
    BY <1>4
  <2>2. AtHome(h, k, table)
    BY DEF AtHome
  <2>. HIDE DEF table
  <2>. QED
    BY <1>1, <2>1, <2>2, TableKeepsInv
<1>. QED
  BY <1>2, <1>3, <1>4

\* A copy owns all of its strings.
LEMMA CloneKeepsInv ==
    ASSUME SetsInv, NEW h \in Handles, NEW copy \in Handles, Clone(h, copy)
    PROVE  SetsInv'
<1>. DEFINE new == [k \in Kinds |-> [id \in DOMAIN sets[h][k] |-> Owned(Text(k, sets[h][k][id]))]]
<1>1. sets' = [sets EXCEPT ![copy] = new] /\ origin' = [origin EXCEPT ![copy] = Heap]
      /\ files' = files
  BY DEF Clone
<1>2. SetOK(new, Heap)
  BY DEF Owned, SetOK
<1>. HIDE DEF new
<1>3. /\ DOMAIN sets' = Handles /\ DOMAIN origin' = Handles /\ DOMAIN files' = Languages
      /\ sets'[copy] = new /\ origin'[copy] = Heap
      /\ \A g \in Handles : g # copy => sets'[g] = sets[g] /\ origin'[g] = origin[g]
  BY <1>1 DEF SetsInv
<1>4. SetOK(sets'[copy], origin'[copy])
  BY <1>2, <1>3
<1>. QED
  BY <1>3, <1>4, ReplaceKeepsInv

\* A set that is dropped has no strings.
LEMMA DropKeepsInv ==
    ASSUME SetsInv, NEW h \in Handles, Drop(h)
    PROVE  SetsInv'
<1>1. sets' = [sets EXCEPT ![h] = NoSet] /\ origin' = origin /\ files' = files
  BY DEF Drop
<1>2. DOMAIN NoSet = {}
  BY DEF NoSet
<1>3. /\ DOMAIN sets' = Handles /\ DOMAIN origin' = Handles /\ DOMAIN files' = Languages
      /\ sets'[h] = NoSet /\ origin'[h] \in Languages \union {Heap}
      /\ \A g \in Handles : g # h => sets'[g] = sets[g] /\ origin'[g] = origin[g]
  BY <1>1 DEF SetsInv
<1>4. SetOK(sets'[h], origin'[h])
  BY <1>2, <1>3 DEF SetOK
<1>. QED
  BY <1>3, <1>4, ReplaceKeepsInv

\* A process that dies leaves no sets.
LEMMA DeadKeepsInv ==
    ASSUME SetsInv, NEW reason, Dead(reason)
    PROVE  SetsInv'
<1>1. sets' = [h \in Handles |-> NoSet] /\ origin' = origin /\ files' = files
  BY DEF Dead
<1>2. DOMAIN NoSet = {}
  BY DEF NoSet
<1>. QED
  BY <1>1, <1>2 DEF SetsInv, Homes, IsOpen

\* Writing files does not touch the sets.
LEMMA SaveKeepsInv ==
    ASSUME SetsInv, UNCHANGED <<sets, origin>>, DOMAIN files' = DOMAIN files
    PROVE  SetsInv'
BY DEF SetsInv, Homes, IsOpen

\* Every step keeps the invariant.
LEMMA SetsStepKeepsInv == SetsInv /\ [Next]_vars => SetsInv'
<1>. SUFFICES ASSUME SetsInv, [Next]_vars PROVE SetsInv'
  OBVIOUS
<1>1. ASSUME NEW h \in Handles, NEW lang \in Languages,
             Open(h, lang) \/ OpenFails(h, lang) \/ SaveStarts(h, lang)
      PROVE  SetsInv'
  BY <1>1, OpenKeepsInv, SaveKeepsInv DEF OpenFails, SaveStarts
<1>2. ASSUME NEW h \in Handles, Edit(h) \/ Drop(h) \/ CloneFaults(h) PROVE SetsInv'
  BY <1>2, EditKeepsInv, DropKeepsInv, DeadKeepsInv DEF CloneFaults
<1>3. ASSUME NEW h \in Handles, NEW copy \in Handles, Clone(h, copy) PROVE SetsInv'
  BY <1>3, CloneKeepsInv
<1>4. CASE CreateFile \/ WriteCell
  <2>1. UNCHANGED <<sets, origin>> /\ DOMAIN files' = DOMAIN files
    BY <1>4 DEF CreateFile, WriteCell
  <2>. QED
    BY <2>1, SaveKeepsInv
<1>5. CASE BuildImage \/ SaveFails \/ UNCHANGED vars
  <2>1. UNCHANGED <<sets, origin, files>>
    BY <1>5 DEF BuildImage, SaveFails, vars
  <2>. QED
    BY <2>1, SaveKeepsInv
<1>6. CASE Fault \/ Killed
  BY <1>6, DeadKeepsInv DEF Fault, Killed
<1>. QED
  BY <1>1, <1>2, <1>3, <1>4, <1>5, <1>6 DEF Next

\* A step leaves a set alone unless it edits it or saves to its files.
LEMMA StepLeavesOtherSets ==
    ASSUME SetsInv, [Next]_vars, NEW h \in Handles, IsOpen(h), sets'[h] # NoSet,
           event' # Event("edited", h, "none"), save = NoSave \/ origin[h] # save.lang
    PROVE  AllContents(h)' = AllContents(h)
<1>1. ASSUME UNCHANGED files, sets'[h] = sets[h] PROVE AllContents(h)' = AllContents(h)
  BY <1>1, SameFilesSameContents
<1>2. ASSUME NEW g \in Handles, NEW new, g # h, sets' = [sets EXCEPT ![g] = new]
      PROVE  sets'[h] = sets[h]
  BY <1>2 DEF SetsInv
<1>3. ASSUME NEW g \in Handles, NEW lang \in Languages,
             Open(g, lang) \/ OpenFails(g, lang) \/ SaveStarts(g, lang)
      PROVE  AllContents(h)' = AllContents(h)
  BY <1>1, <1>2, <1>3 DEF Open, OpenFails, SaveStarts
<1>4. ASSUME NEW g \in Handles, Edit(g) PROVE AllContents(h)' = AllContents(h)
  <2>1. g # h /\ files' = files
    BY <1>4 DEF Edit
  <2>2. sets'[h] = sets[h]
    BY <1>4, <2>1 DEF Edit, SetsInv
  <2>. QED
    BY <1>1, <2>1, <2>2
<1>5. ASSUME NEW g \in Handles, Drop(g) PROVE AllContents(h)' = AllContents(h)
  <2>1. sets' = [sets EXCEPT ![g] = NoSet] /\ files' = files
    BY <1>5 DEF Drop
  <2>2. g # h
    BY <2>1 DEF SetsInv
  <2>. QED
    BY <1>1, <1>2, <2>1, <2>2
<1>6. ASSUME NEW reason, Dead(reason) PROVE FALSE
  BY <1>6 DEF Dead
<1>7. ASSUME NEW g \in Handles, NEW copy \in Handles, Clone(g, copy)
      PROVE  AllContents(h)' = AllContents(h)
  BY <1>1, <1>2, <1>7 DEF Clone
<1>8. CASE CreateFile \/ WriteCell
  <2>1. save # NoSave /\ sets' = sets
    BY <1>8 DEF CreateFile, WriteCell
  <2>2. \A l \in Languages : l # save.lang => files'[l] = files[l]
    BY <1>8 DEF CreateFile, WriteCell, SetsInv
  <2>3. origin[h] = Heap \/ files'[origin[h]] = files[origin[h]]
    BY <2>1, <2>2 DEF SetsInv
  <2>. QED
    BY <2>1, <2>3, SameFilesSameContents
<1>9. CASE BuildImage \/ SaveFails \/ UNCHANGED vars
  BY <1>1, <1>9 DEF BuildImage, SaveFails, vars
<1>. QED
  BY <1>3, <1>4, <1>5, <1>6, <1>7, <1>8, <1>9 DEF Next, CloneFaults, Fault, Killed

\* Edits and saves of one set do not change the strings of another, and a
\* copy is independent of everything (bethkit_localization_set_clone).
THEOREM SetsAreIndependent == Spec => OtherSetsAreUntouched
<1>. DEFINE Untouched ==
        \A h \in Handles :
          (/\ IsOpen(h) /\ sets'[h] # NoSet
           /\ event' # Event("edited", h, "none")
           /\ save = NoSave \/ origin[h] # save.lang)
            => AllContents(h)' = AllContents(h)
<1>1. SetsInv /\ [Next]_vars => [Untouched]_vars
  BY StepLeavesOtherSets
<1>. QED
  BY <1>1, SetsInitInv, SetsStepKeepsInv, PTL DEF Spec, OtherSetsAreUntouched

-----------------------------------------------------------------------------
(***************************************************************************)
(* The file of a table, and what a reader makes of a part of it.           *)
(***************************************************************************)
Sorted(s) == \A i, j \in DOMAIN s : i < j => s[i] < s[j]

\* Every finite set of identifiers can be listed in ascending order.
LEMMA SortedExists ==
    ASSUME NEW D \in SUBSET Nat, IsFiniteSet(D)
    PROVE  \E s \in [1..Cardinality(D) -> D] : Sorted(s)
<1>. DEFINE N == Cardinality(D)
            Listed(n) == \A X \in SUBSET Nat : IsFiniteSet(X) /\ Cardinality(X) = n
                            => \E s \in [1..n -> X] : Sorted(s)
            T == {n \in 0..N : Listed(n)}
<1>1. N \in Nat
  BY FS_CardinalityType
<1>2. Listed(0)
  <2>. SUFFICES ASSUME NEW X \in SUBSET Nat PROVE \E s \in [1..0 -> X] : Sorted(s)
    OBVIOUS
  <2>1. [i \in 1..0 |-> 0] \in [1..0 -> X] /\ Sorted([i \in 1..0 |-> 0])
    BY DEF Sorted
  <2>. QED
    BY <2>1
<1>3. ASSUME NEW n \in Nat, Listed(n) PROVE Listed(n + 1)
  <2>. SUFFICES ASSUME NEW X \in SUBSET Nat, IsFiniteSet(X), Cardinality(X) = n + 1
                PROVE  \E s \in [1..(n + 1) -> X] : Sorted(s)
    OBVIOUS
  <2>1. X # {}
    BY FS_EmptySet
  <2>2. PICK m \in X : \A k \in X : m <= k
    BY <2>1, Lists!LeastElement
  <2>. DEFINE Y == X \ {m}
  <2>3. IsFiniteSet(Y) /\ Cardinality(Y) = n
    <3>1. IsFiniteSet(Y) /\ Cardinality(Y) = IF m \in X THEN Cardinality(X) - 1 ELSE Cardinality(X)
      BY FS_RemoveElement
    <3>. HIDE DEF Y
    <3>2. Cardinality(Y) = (n + 1) - 1
      BY <3>1
    <3>. QED
      BY <3>1, <3>2
  <2>4. PICK s \in [1..n -> Y] : Sorted(s)
    BY <1>3, <2>3
  <2>. DEFINE z == [i \in 1..(n + 1) |-> IF i = 1 THEN m ELSE s[i - 1]]
  <2>5. \A i \in 1..(n + 1) : i # 1 => i - 1 \in 1..n
    OBVIOUS
  <2>6. \A i \in 1..n : s[i] \in X /\ m < s[i]
    <3>. SUFFICES ASSUME NEW i \in 1..n PROVE s[i] \in X /\ m < s[i]
      OBVIOUS
    <3>1. s[i] \in X /\ s[i] # m
      BY <2>4
    <3>2. s[i] \in Nat /\ m \in Nat /\ m <= s[i]
      BY <2>2, <3>1
    <3>. QED
      BY <3>1, <3>2
  <2>7. z \in [1..(n + 1) -> X]
    BY <2>2, <2>5, <2>6
  <2>8. ASSUME NEW i \in 1..(n + 1), NEW j \in 1..(n + 1), i < j PROVE z[i] < z[j]
    <3>1. j # 1 /\ j - 1 \in 1..n /\ z[j] = s[j - 1]
      BY <2>8
    <3>2. CASE i = 1
      BY <2>6, <3>1, <3>2
    <3>3. CASE i # 1
      <4>1. i - 1 \in 1..n /\ z[i] = s[i - 1] /\ i - 1 < j - 1
        BY <2>8, <3>3
      <4>. QED
        BY <2>4, <3>1, <4>1 DEF Sorted
    <3>. QED
      BY <3>2, <3>3
  <2>9. Sorted(z)
    BY <2>8 DEF Sorted
  <2>. HIDE DEF z
  <2>. QED
    BY <2>7, <2>9
<1>. HIDE DEF Listed
<1>4. 0 \in T /\ \A n \in 0..(N - 1) : n \in T => n + 1 \in T
  BY <1>1, <1>2, <1>3
<1>. HIDE DEF T
<1>5. \A n \in 0..N : n \in T
  BY <1>1, <1>4, Lists!UpToInduction
<1>6. Listed(N)
  BY <1>1, <1>5 DEF T
<1>. QED
  BY <1>6 DEF Listed

\* write_to takes each identifier once.
LEMMA AscendingIs ==
    ASSUME NEW D \in SUBSET Nat, IsFiniteSet(D)
    PROVE  /\ Cardinality(D) \in Nat /\ Ascending(D) \in [1..Cardinality(D) -> D]
           /\ \A i, j \in 1..Cardinality(D) : Ascending(D)[i] = Ascending(D)[j] => i = j
           /\ \A d \in D : \E i \in 1..Cardinality(D) : Ascending(D)[i] = d
<1>. DEFINE n == Cardinality(D)
            s == Ascending(D)
<1>1. n \in Nat
  BY FS_CardinalityType
<1>2. \E z \in [1..n -> D] : \A i, j \in DOMAIN z : i < j => z[i] < z[j]
  BY SortedExists DEF Sorted
<1>3. s \in [1..n -> D] /\ \A i, j \in DOMAIN s : i < j => s[i] < s[j]
  BY <1>2 DEF Ascending
<1>. HIDE DEF s
<1>4. \A i, j \in 1..n : s[i] = s[j] => i = j
  <2>. SUFFICES ASSUME NEW i \in 1..n, NEW j \in 1..n, s[i] = s[j] PROVE i = j
    OBVIOUS
  <2>1. s[i] \in Nat /\ s[j] \in Nat /\ i \in Nat /\ j \in Nat
    <3>1. s[i] \in D /\ s[j] \in D
      BY <1>3
    <3>2. \A d \in D : d \in Nat
      OBVIOUS
    <3>3. i \in Nat /\ j \in Nat
      BY <1>1
    <3>. QED
      BY <3>1, <3>2, <3>3
  <2>2. ~(i < j) /\ ~(j < i)
    BY <1>3, <2>1
  <2>. QED
    BY <2>1, <2>2
<1>5. s \in Injection(1..n, D)
  BY <1>3, <1>4 DEF Injection, IsInjective
<1>6. Cardinality(1..n) = n
  <2>1. Cardinality(1..n) = IF 1 > n THEN 0 ELSE n - 1 + 1
    BY <1>1, FS_Interval
  <2>. QED
    BY <1>1, <2>1
<1>7. s \in Surjection(1..n, D)
  <2>. DEFINE I == 1..n
  <2>1. s \in Injection(I, D) /\ Cardinality(I) = Cardinality(D)
    BY <1>5, <1>6
  <2>. HIDE DEF I
  <2>2. s \in Surjection(I, D)
    BY <2>1, FS_Injection
  <2>. QED
    BY <2>2 DEF I
<1>8. \A d \in D : \E i \in 1..n : s[i] = d
  BY <1>7 DEF Surjection
<1>. QED
  BY <1>1, <1>3, <1>4, <1>8 DEF s

\* A table: words name finitely many texts.
TableOK(table) ==
    /\ IsFiniteSet(DOMAIN table) /\ DOMAIN table \in SUBSET Nat
    /\ table \in [DOMAIN table -> Seq(Int)]

\* f begins with the directory of the table, and the texts are where it says.
Start(f, i) == 2 + 2 * f[1] + f[2 * i + 2] + 1
FrameAt(kind, table, i) == Framed(kind, table[Ascending(DOMAIN table)[i]])
Laid(kind, table, f) ==
    LET n == Cardinality(DOMAIN table)
    IN  /\ f \in Seq(Int) /\ Len(f) >= 2 + 2 * n /\ f[1] = n
        /\ \A i \in 1..n :
              /\ f[2 * i + 1] = Ascending(DOMAIN table)[i] /\ f[2 * i + 2] \in Nat
              /\ \A j \in 1..Len(FrameAt(kind, table, i)) :
                    /\ Start(f, i) + j - 1 \in 1..Len(f)
                    /\ f[Start(f, i) + j - 1] = FrameAt(kind, table, i)[j]

\* A frame of a text ends in a zero.
LEMMA FrameIs ==
    ASSUME NEW kind, NEW text \in Seq(Int)
    PROVE  /\ Framed(kind, text) \in Seq(Int) /\ Len(text) \in Nat
           /\ ~LengthPrefixed(kind) =>
                 /\ Len(Framed(kind, text)) = Len(text) + 1
                 /\ \A j \in 1..Len(text) : Framed(kind, text)[j] = text[j]
                 /\ Framed(kind, text)[Len(text) + 1] = Nul
           /\ LengthPrefixed(kind) =>
                 /\ Len(Framed(kind, text)) = Len(text) + 2
                 /\ Framed(kind, text)[1] = Len(text) + 1
                 /\ \A j \in 1..Len(text) : Framed(kind, text)[j + 1] = text[j]
<1>1. <<Nul>> \in Seq(Int) /\ Len(<<Nul>>) = 1 /\ <<Nul>>[1] = Nul /\ Len(text) \in Nat
  BY DEF Nul
<1>2. /\ text \o <<Nul>> \in Seq(Int) /\ Len(text \o <<Nul>>) = Len(text) + 1
      /\ \A j \in 1..Len(text) : (text \o <<Nul>>)[j] = text[j]
      /\ (text \o <<Nul>>)[Len(text) + 1] = Nul
  BY <1>1
<1>3. CASE ~LengthPrefixed(kind)
  <2>1. Framed(kind, text) = <<>> \o text \o <<Nul>>
    BY <1>3 DEF Framed
  <2>2. <<>> \o text = text
    OBVIOUS
  <2>. QED
    BY <1>2, <1>3, <2>1, <2>2, <1>1
<1>4. CASE LengthPrefixed(kind)
  <2>. DEFINE a == <<Len(text) + 1>> \o text
  <2>1. Framed(kind, text) = a \o <<Nul>>
    BY <1>4 DEF Framed
  <2>2. /\ a \in Seq(Int) /\ Len(a) = Len(text) + 1 /\ a[1] = Len(text) + 1
        /\ \A j \in 1..Len(text) : a[j + 1] = text[j]
    BY <1>1
  <2>. HIDE DEF a
  <2>3. /\ a \o <<Nul>> \in Seq(Int) /\ Len(a \o <<Nul>>) = Len(text) + 2
        /\ \A j \in 1..(Len(text) + 1) : (a \o <<Nul>>)[j] = a[j]
    BY <1>1, <2>2
  <2>4. \A j \in 1..Len(text) : j + 1 \in 1..(Len(text) + 1)
    BY <1>1
  <2>5. 1 \in 1..(Len(text) + 1)
    BY <1>1
  <2>. QED
    BY <1>1, <1>4, <2>1, <2>2, <2>3, <2>4, <2>5
<1>. QED
  BY <1>3, <1>4

\* c is a, and b behind it.
Joined(a, b, c) ==
    /\ c \in Seq(Int) /\ Len(a) \in Nat /\ Len(b) \in Nat /\ Len(c) = Len(a) + Len(b)
    /\ \A i \in 1..Len(a) : c[i] = a[i]
    /\ \A i \in 1..Len(b) : c[Len(a) + i] = b[i]

\* What a concatenation is.
LEMMA JoinedIs == \A a, b \in Seq(Int) : Joined(a, b, a \o b)
BY Lists!ConcatAt DEF Joined

\* The parts of a file: two words, the directory, and the texts.
FileOf(n, size, directory, texts) == <<n, size>> \o directory \o texts

Parts(n, directory, texts, f) ==
    /\ f \in Seq(Int) /\ Len(f) = 2 + 2 * n + Len(texts) /\ f[1] = n
    /\ \A i \in 1..(2 * n) : f[2 + i] = directory[i]
    /\ \A j \in 1..Len(texts) : f[2 + 2 * n + j] = texts[j]

\* They are found at these places.
LEMMA PartsOfAFile ==
    ASSUME NEW n \in Nat, NEW size \in Nat, NEW directory \in Seq(Int), NEW texts \in Seq(Int),
           Len(directory) = 2 * n
    PROVE  Parts(n, directory, texts, FileOf(n, size, directory, texts))
<1>. DEFINE h == <<n, size>>
            a == h \o directory
            f == a \o texts
<1>1. h \in Seq(Int) /\ Len(h) = 2 /\ h[1] = n
  OBVIOUS
<1>. HIDE DEF h
<1>2. /\ a \in Seq(Int) /\ Len(a) = Len(h) + Len(directory)
      /\ \A i \in 1..Len(h) : a[i] = h[i]
      /\ \A i \in 1..Len(directory) : a[Len(h) + i] = directory[i]
  <2>1. Joined(h, directory, a)
    BY <1>1, JoinedIs, Zenon
  <2>. HIDE DEF a
  <2>. QED
    BY <2>1 DEF Joined
<1>. HIDE DEF a
<1>3. /\ f \in Seq(Int) /\ Len(f) = Len(a) + Len(texts) /\ Len(a) \in Nat
      /\ \A i \in 1..Len(a) : f[i] = a[i]
      /\ \A j \in 1..Len(texts) : f[Len(a) + j] = texts[j]
  <2>1. Joined(a, texts, f)
    BY <1>2, JoinedIs, Zenon
  <2>. HIDE DEF f
  <2>. QED
    BY <2>1 DEF Joined
<1>. HIDE DEF f
<1>4. Len(a) = 2 + 2 * n
  BY <1>1, <1>2
<1>5. f[1] = n
  <2>1. 1 \in 1..Len(a) /\ 1 \in 1..Len(h)
    BY <1>1, <1>4
  <2>. QED
    BY <1>1, <1>2, <1>3, <2>1
<1>6. ASSUME NEW i \in 1..(2 * n) PROVE f[2 + i] = directory[i]
  <2>1. 2 + i \in 1..Len(a) /\ i \in 1..Len(directory)
    BY <1>4
  <2>2. a[2 + i] = directory[i]
    BY <1>1, <1>2, <2>1
  <2>. QED
    BY <1>3, <2>1, <2>2
<1>7. \A j \in 1..Len(texts) : f[2 + 2 * n + j] = texts[j]
  BY <1>3, <1>4
<1>8. Len(f) = 2 + 2 * n + Len(texts)
  BY <1>3, <1>4
<1>9. FileOf(n, size, directory, texts) = f
  BY DEF FileOf, f, a, h
<1>10. Parts(n, directory, texts, f)
  BY <1>3, <1>5, <1>6, <1>7, <1>8 DEF Parts
<1>. QED
  BY <1>9, <1>10

\* write_to lays a table out.
LEMMA ImageIsLaid ==
    ASSUME NEW kind, NEW table, TableOK(table)
    PROVE  Laid(kind, table, Image(kind, table))
<1>. DEFINE n == Cardinality(DOMAIN table)
            ids == Ascending(DOMAIN table)
            e == [i \in 1..n |-> Framed(kind, table[ids[i]])]
            blob(m) == Lists!FlattenSeq([i \in 1..m |-> e[i]])
            d == [i \in 1..n |-> <<ids[i], Len(blob(i - 1))>>]
            B == [m \in 0..n |-> Len(blob(m))]
            directory == Lists!FlattenSeq([i \in 1..n |-> d[i]])
            f == Image(kind, table)
<1>1. n \in Nat /\ ids \in [1..n -> DOMAIN table]
  BY AscendingIs DEF TableOK
<1>2. \A i \in 1..n : e[i] \in Seq(Int) /\ e[i] = FrameAt(kind, table, i)
  <2>. SUFFICES ASSUME NEW i \in 1..n PROVE e[i] \in Seq(Int) /\ e[i] = FrameAt(kind, table, i)
    OBVIOUS
  <2>1. table[ids[i]] \in Seq(Int)
    BY <1>1 DEF TableOK
  <2>. QED
    BY <2>1, FrameIs DEF FrameAt
<1>3. f = <<n, Len(blob(n))>> \o directory \o blob(n)
  <2>. DEFINE old(m) == Seqs!FlattenSeq([i \in 1..m |-> Framed(kind, table[ids[i]])])
              oldd == [i \in 1..n |-> <<ids[i], Len(old(i - 1))>>]
  <2>1. \A s : Seqs!FlattenSeq(s) = Lists!FlattenSeq(s)
    BY DEF Seqs!FlattenSeq, Lists!FlattenSeq
  <2>2. ASSUME NEW m \in 0..n PROVE old(m) = blob(m)
    <3>1. [i \in 1..m |-> Framed(kind, table[ids[i]])] = [i \in 1..m |-> e[i]]
      <4>1. 1..m \subseteq 1..n
        BY <1>1
      <4>. QED
        BY <4>1
    <3>. HIDE DEF e
    <3>. QED
      BY <2>1, <3>1
  <2>3. f = <<n, Len(old(n))>> \o Seqs!FlattenSeq(oldd) \o old(n)
    BY DEF Image
  <2>4. n \in 0..n /\ \A i \in 1..n : i - 1 \in 0..n
    BY <1>1
  <2>. HIDE DEF old, blob
  <2>5. oldd = d /\ d = [i \in 1..n |-> d[i]]
    BY <2>2, <2>4
  <2>. HIDE DEF d, oldd
  <2>6. Seqs!FlattenSeq(oldd) = directory
    BY <2>1, <2>5
  <2>. HIDE DEF directory
  <2>. QED
    BY <2>2, <2>3, <2>4, <2>6
<1>4. blob(n) \in Seq(Int) /\ Lists!PartsInPlace(e, n)
  <2>. HIDE DEF e
  <2>. QED
    BY <1>1, <1>2, Lists!FlattenAt
<1>. HIDE DEF f, e
<1>5. /\ Len(blob(0)) = 0
      /\ \A m \in 1..n :
            /\ Len(blob(m - 1)) \in Nat /\ Len(e[m]) \in Nat
            /\ Len(blob(m)) = Len(blob(m - 1)) + Len(e[m])
            /\ Len(blob(m)) <= Len(blob(n))
            /\ \A j \in 1..Len(e[m]) : blob(n)[Len(blob(m - 1)) + j] = e[m][j]
  BY <1>4 DEF Lists!PartsInPlace
<1>6. \A m \in 0..n : B[m] = Len(blob(m))
  OBVIOUS
<1>7. \A m \in 1..n : m \in 0..n /\ m - 1 \in 0..n
  BY <1>1
<1>. DEFINE texts == blob(n)
<1>8. texts \in Seq(Int) /\ Len(texts) \in Nat
  BY <1>4
<1>9. \A i \in 1..n : d[i] = <<ids[i], B[i - 1]>>
  BY <1>6, <1>7
<1>10. f = <<n, Len(texts)>> \o directory \o texts
  BY <1>3
<1>11. B[n] = Len(texts)
  BY <1>1, <1>6
<1>. HIDE DEF B, d, blob
<1>12. \A m \in 1..n :
          /\ B[m - 1] \in Nat /\ Len(e[m]) \in Nat
          /\ B[m] = B[m - 1] + Len(e[m])
          /\ B[m] <= Len(texts)
          /\ \A j \in 1..Len(e[m]) : texts[B[m - 1] + j] = e[m][j]
  BY <1>5, <1>6, <1>7 DEF texts
<1>. HIDE DEF texts
<1>13. \A i \in 1..n : ids[i] \in Int /\ d[i] \in Seq(Int) /\ Len(d[i]) = 2 /\ d[i][1] = ids[i] /\ d[i][2] = B[i - 1]
  <2>. SUFFICES ASSUME NEW i \in 1..n
                PROVE  ids[i] \in Int /\ d[i] \in Seq(Int) /\ Len(d[i]) = 2 /\ d[i][1] = ids[i] /\ d[i][2] = B[i - 1]
    OBVIOUS
  <2>1. ids[i] \in DOMAIN table /\ DOMAIN table \subseteq Nat
    BY <1>1 DEF TableOK
  <2>2. ids[i] \in Int /\ B[i - 1] \in Int /\ d[i] = <<ids[i], B[i - 1]>>
    BY <1>9, <1>12, <2>1
  <2>. HIDE DEF ids
  <2>. QED
    BY <2>2
<1>14. /\ directory \in Seq(Int) /\ Len(directory) = 2 * n
       /\ \A i \in 1..n : directory[2 * i - 1] = d[i][1] /\ directory[2 * i] = d[i][2]
  <2>. HIDE DEF ids
  <2>1. \A i \in 1..n : d[i] \in Seq(Int) /\ Len(d[i]) = 2
    BY <1>13
  <2>. QED
    BY <1>1, <2>1, Lists!FlattenPairs
<1>. HIDE DEF n, ids, directory
<1>15. /\ f \in Seq(Int) /\ Len(f) = 2 + 2 * n + Len(texts) /\ f[1] = n
       /\ \A i \in 1..(2 * n) : f[2 + i] = directory[i]
       /\ \A j \in 1..Len(texts) : f[2 + 2 * n + j] = texts[j]
  <2>1. n \in Nat /\ Len(texts) \in Nat /\ directory \in Seq(Int) /\ texts \in Seq(Int) /\ Len(directory) = 2 * n
    BY <1>1, <1>8, <1>14
  <2>. DEFINE size == Len(texts)
              g == FileOf(n, size, directory, texts)
  <2>2. f = g /\ size \in Nat
    BY <1>10, <2>1 DEF FileOf
  <2>3. /\ g \in Seq(Int) /\ Len(g) = 2 + 2 * n + Len(texts) /\ g[1] = n
        /\ \A i \in 1..(2 * n) : g[2 + i] = directory[i]
        /\ \A j \in 1..Len(texts) : g[2 + 2 * n + j] = texts[j]
    <3>1. Parts(n, directory, texts, g)
      <4>. HIDE DEF size
      <4>. QED
        BY <2>1, <2>2, PartsOfAFile
    <3>. HIDE DEF g
    <3>. QED
      BY <3>1 DEF Parts
  <2>. HIDE DEF g
  <2>. QED
    BY <2>2, <2>3
<1>16. ASSUME NEW i \in 1..n
       PROVE  /\ f[2 * i + 1] = ids[i] /\ f[2 * i + 2] = B[i - 1] /\ B[i - 1] \in Nat
              /\ \A j \in 1..Len(e[i]) :
                    /\ Start(f, i) + j - 1 \in 1..Len(f)
                    /\ f[Start(f, i) + j - 1] = e[i][j]
  <2>1. /\ 2 * i - 1 \in 1..(2 * n) /\ 2 * i \in 1..(2 * n)
        /\ 2 + (2 * i - 1) = 2 * i + 1 /\ 2 + 2 * i = 2 * i + 2
    BY <1>1
  <2>2. f[2 * i + 1] = ids[i] /\ f[2 * i + 2] = B[i - 1] /\ B[i - 1] \in Nat
    <3>1. f[2 + (2 * i - 1)] = directory[2 * i - 1] /\ f[2 + 2 * i] = directory[2 * i]
      BY <1>15, <2>1
    <3>2. directory[2 * i - 1] = ids[i] /\ directory[2 * i] = B[i - 1]
      BY <1>13, <1>14
    <3>3. B[i - 1] \in Nat
      BY <1>12
    <3>. QED
      BY <2>1, <3>1, <3>2, <3>3
  <2>3. Start(f, i) = 2 + 2 * n + B[i - 1] + 1
    BY <1>15, <2>2 DEF Start
  <2>4. ASSUME NEW j \in 1..Len(e[i])
        PROVE  Start(f, i) + j - 1 \in 1..Len(f) /\ f[Start(f, i) + j - 1] = e[i][j]
    <3>1. Start(f, i) + j - 1 = 2 + 2 * n + (B[i - 1] + j)
      BY <1>1, <2>2, <2>3
    <3>2. B[i - 1] + j \in 1..Len(texts)
      <4>. DEFINE b == B[i - 1]
                  k == Len(e[i])
      <4>1. b \in Nat /\ k \in Nat /\ b + k <= Len(texts) /\ j \in 1..k
        <5>1. b \in Nat /\ k \in Nat /\ B[i] = b + k /\ B[i] <= Len(texts)
          BY <1>12
        <5>. QED
          BY <5>1
      <4>. HIDE DEF b, k
      <4>2. b + j \in 1..Len(texts)
        BY <1>8, <4>1
      <4>. QED
        BY <4>2 DEF b
    <3>3. 2 + 2 * n + (B[i - 1] + j) \in 1..Len(f)
      <4>. DEFINE p == B[i - 1] + j
      <4>1. p \in 1..Len(texts)
        BY <3>2
      <4>. HIDE DEF p
      <4>2. 2 + 2 * n + p \in 1..Len(f)
        BY <1>1, <1>8, <1>15, <4>1
      <4>. QED
        BY <4>2 DEF p
    <3>4. f[2 + 2 * n + (B[i - 1] + j)] = texts[B[i - 1] + j]
      BY <1>15, <3>2
    <3>. QED
      BY <1>12, <3>1, <3>3, <3>4
  <2>. QED
    BY <2>2, <2>4
<1>17. Len(f) >= 2 + 2 * n
  BY <1>1, <1>8, <1>15
<1>18. \A i \in 1..n : e[i] = FrameAt(kind, table, i)
  BY <1>2
<1>19. /\ f \in Seq(Int) /\ Len(f) >= 2 + 2 * n /\ f[1] = n
       /\ \A i \in 1..n :
              /\ f[2 * i + 1] = ids[i] /\ f[2 * i + 2] \in Nat
              /\ \A j \in 1..Len(FrameAt(kind, table, i)) :
                    /\ Start(f, i) + j - 1 \in 1..Len(f)
                    /\ f[Start(f, i) + j - 1] = FrameAt(kind, table, i)[j]
  <2>1. ASSUME NEW i \in 1..n
        PROVE  /\ f[2 * i + 1] = ids[i] /\ f[2 * i + 2] \in Nat
               /\ \A j \in 1..Len(e[i]) :
                     /\ Start(f, i) + j - 1 \in 1..Len(f)
                     /\ f[Start(f, i) + j - 1] = e[i][j]
    BY <1>16
  <2>2. ASSUME NEW i \in 1..n
        PROVE  /\ f[2 * i + 1] = ids[i] /\ f[2 * i + 2] \in Nat
               /\ \A j \in 1..Len(FrameAt(kind, table, i)) :
                     /\ Start(f, i) + j - 1 \in 1..Len(f)
                     /\ f[Start(f, i) + j - 1] = FrameAt(kind, table, i)[j]
    BY <1>18, <2>1
  <2>. QED
    BY <1>15, <1>17, <2>2
<1>. QED
  BY <1>19 DEF Laid, n, ids, f

\* f is the file g, or was cut off while g was written.
Cut(f, g) ==
    /\ f \in Seq(Int) /\ Len(f) \in Nat /\ Len(g) \in Nat /\ Len(f) <= Len(g)
    /\ \A i \in 1..Len(f) : f[i] = g[i]

\* A frame lies at s.
FramedAt(frame, g, s) ==
    /\ s \in Nat \ {0}
    /\ \A j \in 1..Len(frame) : s + j - 1 \in 1..Len(g) /\ g[s + j - 1] = frame[j]

\* The range that is read at s, and that it holds the text.
RangeIsTyped(kind, f, s) ==
    /\ TextStart(kind, s) \in Nat \ {0}
    /\ TextEnd(kind, f, s) - TextStart(kind, s) \in Nat
RangeHolds(kind, f, s, text) ==
    /\ TextEnd(kind, f, s) - TextStart(kind, s) = Len(text)
    /\ \A j \in 1..Len(text) : /\ TextStart(kind, s) + j - 1 \in 1..Len(f)
                               /\ f[TextStart(kind, s) + j - 1] = text[j]

\* read_payload finds a text with its length in front of it, or refuses it.
LEMMA PrefixedIsRead ==
    ASSUME NEW kind, LengthPrefixed(kind), NEW text \in Seq(Int), NEW f, NEW g, NEW s,
           Cut(f, g), FramedAt(Framed(kind, text), g, s), TextEnd(kind, f, s) # Refused
    PROVE  RangeIsTyped(kind, f, s) /\ RangeHolds(kind, f, s, text)
<1>. DEFINE frame == Framed(kind, text)
            L == Len(text)
<1>1. /\ L \in Nat /\ Len(frame) = L + 2 /\ frame[1] = L + 1
      /\ \A j \in 1..L : frame[j + 1] = text[j]
  BY FrameIs
<1>. HIDE DEF frame
<1>2. /\ s \in Nat \ {0} /\ Len(f) \in Nat
      /\ \A j \in 1..Len(frame) : s + j - 1 \in 1..Len(g) /\ g[s + j - 1] = frame[j]
      /\ \A i \in 1..Len(f) : f[i] = g[i]
  BY DEF FramedAt, Cut, frame
<1>3. s <= Len(f)
  <2>. SUFFICES ASSUME s > Len(f) PROVE FALSE
    BY <1>2
  <2>. QED
    BY DEF TextEnd
<1>4. f[s] = L + 1
  <2>1. 1 \in 1..Len(frame) /\ s + 1 - 1 = s /\ s \in 1..Len(f)
    BY <1>1, <1>2, <1>3
  <2>2. g[s + 1 - 1] = frame[1]
    BY <1>2, <2>1
  <2>3. f[s] = g[s]
    BY <1>2, <2>1
  <2>. QED
    BY <1>1, <2>1, <2>2, <2>3
<1>5. L + 1 # 0 /\ ~(s > Len(f))
  BY <1>1, <1>2, <1>3
<1>6. s + (L + 1) <= Len(f) /\ TextEnd(kind, f, s) = s + (L + 1)
  <2>1. TextEnd(kind, f, s) = IF s + f[s] > Len(f) THEN Refused ELSE s + f[s]
    BY <1>4, <1>5 DEF TextEnd
  <2>2. ~(s + (L + 1) > Len(f)) /\ TextEnd(kind, f, s) = s + (L + 1)
    BY <1>4, <2>1
  <2>. QED
    BY <1>1, <1>2, <2>2
<1>7. TextStart(kind, s) = s + 1
  BY DEF TextStart
<1>8. \A j \in 1..L : (s + 1) + j - 1 \in 1..Len(f) /\ f[(s + 1) + j - 1] = text[j]
  <2>. SUFFICES ASSUME NEW j \in 1..L
                PROVE  (s + 1) + j - 1 \in 1..Len(f) /\ f[(s + 1) + j - 1] = text[j]
    OBVIOUS
  <2>1. j + 1 \in 1..Len(frame) /\ s + (j + 1) - 1 = (s + 1) + j - 1
    BY <1>1, <1>2
  <2>2. (s + 1) + j - 1 \in 1..Len(f)
    BY <1>1, <1>2, <1>6
  <2>3. g[s + (j + 1) - 1] = frame[j + 1] /\ frame[j + 1] = text[j]
    BY <1>1, <1>2, <2>1
  <2>. QED
    BY <1>2, <2>1, <2>2, <2>3
<1>9. RangeIsTyped(kind, f, s)
  <2>1. s + 1 \in Nat \ {0} /\ (s + (L + 1)) - (s + 1) \in Nat
    BY <1>1, <1>2
  <2>. QED
    BY <1>6, <1>7, <2>1 DEF RangeIsTyped
<1>10. RangeHolds(kind, f, s, text)
  <2>1. (s + (L + 1)) - (s + 1) = L
    BY <1>1, <1>2
  <2>. QED
    BY <1>6, <1>7, <1>8, <2>1 DEF RangeHolds
<1>. QED
  BY <1>9, <1>10

\* read_payload finds the zero behind a text, or refuses it; a text that holds
\* a zero is read up to it.
LEMMA TerminatedIsRead ==
    ASSUME NEW kind, ~LengthPrefixed(kind), NEW text \in Seq(Int), NEW f, NEW g, NEW s,
           Cut(f, g), FramedAt(Framed(kind, text), g, s), TextEnd(kind, f, s) # Refused
    PROVE  /\ RangeIsTyped(kind, f, s)
           /\ (\A j \in 1..Len(text) : text[j] # Nul) => RangeHolds(kind, f, s, text)
<1>. DEFINE frame == Framed(kind, text)
            L == Len(text)
            ends == {e \in s..Len(f) : f[e] = Nul}
            e == Sets!Min(ends)
<1>1. /\ L \in Nat /\ Len(frame) = L + 1 /\ frame[L + 1] = Nul
      /\ \A j \in 1..L : frame[j] = text[j]
  BY FrameIs
<1>. HIDE DEF frame
<1>2. /\ s \in Nat \ {0} /\ Len(f) \in Nat
      /\ \A j \in 1..Len(frame) : s + j - 1 \in 1..Len(g) /\ g[s + j - 1] = frame[j]
      /\ \A i \in 1..Len(f) : f[i] = g[i]
  BY DEF FramedAt, Cut, frame
<1>3. ends # {} /\ TextEnd(kind, f, s) = e
  BY DEF TextEnd
<1>4. e \in ends /\ \A x \in ends : e <= x
  <2>1. ends \subseteq Nat
    BY <1>2
  <2>. HIDE DEF ends
  <2>2. \E m \in ends : \A x \in ends : m <= x
    BY <1>3, <2>1, Lists!LeastElement
  <2>. QED
    BY <2>2 DEF Sets!Min
<1>. HIDE DEF e
<1>5. e \in s..Len(f) /\ e \in Int /\ f[e] = Nul /\ s <= e /\ e <= Len(f)
  BY <1>2, <1>4
<1>6. TextStart(kind, s) = s
  BY DEF TextStart
<1>7. RangeIsTyped(kind, f, s)
  <2>1. e - s \in Nat
    BY <1>2, <1>5
  <2>. QED
    BY <1>2, <1>3, <1>6, <2>1 DEF RangeIsTyped
<1>8. ASSUME \A j \in 1..L : text[j] # Nul PROVE RangeHolds(kind, f, s, text)
  <2>1. ASSUME NEW j \in 1..(L + 1), s + j - 1 <= Len(f)
        PROVE  s + j - 1 \in 1..Len(f) /\ f[s + j - 1] = frame[j]
    <3>1. j \in 1..Len(frame) /\ s + j - 1 \in 1..Len(f)
      BY <1>1, <1>2, <2>1
    <3>. QED
      BY <1>2, <3>1
  <2>2. e >= s + L
    <3>. SUFFICES ASSUME e < s + L PROVE FALSE
      BY <1>1, <1>2, <1>5
    <3>. DEFINE j == e - s + 1
    <3>1. j \in 1..L /\ j \in 1..(L + 1) /\ s + j - 1 = e
      BY <1>1, <1>2, <1>5
    <3>. HIDE DEF j
    <3>2. f[e] = frame[j]
      BY <1>5, <2>1, <3>1
    <3>. QED
      BY <1>1, <1>5, <1>8, <3>1, <3>2
  <2>3. s + L \in ends
    <3>1. L + 1 \in 1..(L + 1) /\ s + (L + 1) - 1 = s + L /\ s + L <= Len(f) /\ s + L \in s..Len(f)
      BY <1>1, <1>2, <1>5, <2>2
    <3>2. f[s + (L + 1) - 1] = frame[L + 1]
      BY <2>1, <3>1
    <3>3. f[s + L] = Nul
      BY <1>1, <3>1, <3>2
    <3>. QED
      BY <3>1, <3>3
  <2>4. e = s + L
    <3>1. e <= s + L
      BY <1>4, <2>3
    <3>2. L \in Nat /\ s \in Nat /\ e \in Int
      BY <1>1, <1>2, <1>5
    <3>. HIDE DEF L
    <3>. QED
      BY <2>2, <3>1, <3>2
  <2>5. e - s = L
    BY <1>1, <1>2, <2>4
  <2>6. ASSUME NEW j \in 1..L PROVE s + j - 1 \in 1..Len(f) /\ f[s + j - 1] = text[j]
    <3>1. j \in 1..(L + 1) /\ s + j - 1 <= Len(f)
      BY <1>1, <1>2, <1>5, <2>4
    <3>. QED
      BY <1>1, <2>1, <3>1
  <2>. QED
    BY <1>3, <1>6, <2>5, <2>6 DEF RangeHolds
<1>. QED
  BY <1>7, <1>8

\* What the reader makes of a file that was perhaps cut off: the identifiers of
\* the table, each with a range, which holds its text.
ReadBack(kind, table, f) ==
    /\ DOMAIN Ranges(kind, f) = DOMAIN table
    /\ \A id \in DOMAIN table :
          /\ Ranges(kind, f)[id].at \in Nat \ {0} /\ Ranges(kind, f)[id].len \in Nat
          /\ (kind = "STRINGS" => \A j \in 1..Len(table[id]) : table[id][j] # Nul) =>
                /\ Ranges(kind, f)[id].len = Len(table[id])
                /\ \A j \in 1..Len(table[id]) :
                      /\ Ranges(kind, f)[id].at + j - 1 \in 1..Len(f)
                      /\ f[Ranges(kind, f)[id].at + j - 1] = table[id][j]

\* parse never reads a shorter table than the one that was stored.
LEMMA WholeOrRefused ==
    ASSUME NEW kind \in Kinds, NEW table, TableOK(table), NEW f, NEW g,
           Laid(kind, table, g), Cut(f, g), Parses(kind, f)
    PROVE  ReadBack(kind, table, f)
<1>. DEFINE n == Cardinality(DOMAIN table)
            ids == Ascending(DOMAIN table)
            R == Ranges(kind, f)
<1>1. /\ n \in Nat /\ ids \in [1..n -> DOMAIN table]
      /\ \A i, j \in 1..n : ids[i] = ids[j] => i = j
      /\ \A d \in DOMAIN table : \E i \in 1..n : ids[i] = d
  BY AscendingIs DEF TableOK
<1>2. /\ g \in Seq(Int) /\ Len(g) >= 2 + 2 * n /\ g[1] = n
      /\ \A i \in 1..n :
            /\ g[2 * i + 1] = ids[i] /\ g[2 * i + 2] \in Nat
            /\ \A j \in 1..Len(FrameAt(kind, table, i)) :
                  /\ Start(g, i) + j - 1 \in 1..Len(g)
                  /\ g[Start(g, i) + j - 1] = FrameAt(kind, table, i)[j]
  BY DEF Laid
<1>3. /\ f \in Seq(Int) /\ Len(f) \in Nat /\ Len(g) \in Nat /\ Len(f) <= Len(g)
      /\ \A i \in 1..Len(f) : f[i] = g[i]
  BY DEF Cut
<1>4. /\ Len(f) >= 2 /\ 2 + 2 * f[1] <= Len(f)
      /\ \A i \in 1..f[1] : TextEnd(kind, f, DirectoryStart(f, i)) # Refused
  BY DEF Parses, DirectoryFits
<1>5. f[1] = n /\ 2 + 2 * n <= Len(f)
  <2>1. 1 \in 1..Len(f)
    BY <1>3, <1>4
  <2>2. f[1] = n
    BY <1>2, <1>3, <2>1
  <2>. QED
    BY <1>4, <2>2
<1>. HIDE DEF n, ids
<1>6. ASSUME NEW i \in 1..n
      PROVE  /\ DirectoryId(f, i) = ids[i]
             /\ DirectoryStart(f, i) = Start(g, i) /\ Start(g, i) \in Nat \ {0}
  <2>1. 2 * i + 1 \in 1..Len(f) /\ 2 * i + 2 \in 1..Len(f)
    BY <1>1, <1>3, <1>5
  <2>2. f[2 * i + 1] = ids[i] /\ f[2 * i + 2] = g[2 * i + 2] /\ g[2 * i + 2] \in Nat
    BY <1>2, <1>3, <2>1
  <2>3. 2 + 2 * n + g[2 * i + 2] + 1 \in Nat \ {0}
    BY <1>1, <2>2
  <2>. QED
    BY <1>2, <1>5, <2>2, <2>3 DEF DirectoryId, DirectoryStart, Start
<1>7. ASSUME NEW i \in 1..n
      PROVE  /\ R[ids[i]] = [at |-> TextStart(kind, Start(g, i)),
                             len |-> TextEnd(kind, f, Start(g, i)) - TextStart(kind, Start(g, i))]
             /\ ids[i] \in DOMAIN R
  <2>. DEFINE S == {DirectoryId(f, j) : j \in 1..f[1]}
              same == {j \in 1..f[1] : DirectoryId(f, j) = ids[i]}
              newest(id) == Sets!Max({j \in 1..f[1] : DirectoryId(f, j) = id})
              range(start) == [at  |-> TextStart(kind, start),
                               len |-> TextEnd(kind, f, start) - TextStart(kind, start)]
  <2>1. R = [id \in S |-> range(DirectoryStart(f, newest(id)))]
    BY DEF Ranges
  <2>2. ids[i] \in S
    BY <1>5, <1>6
  <2>3. same = {i}
    BY <1>1, <1>5, <1>6
  <2>4. Sets!Max(same) = i
    <3>1. i >= i
      BY <1>1
    <3>. HIDE DEF same
    <3>. QED
      BY <2>3, <3>1 DEF Sets!Max
  <2>5. newest(ids[i]) = i
    BY <2>4
  <2>. HIDE DEF S, newest, same, range
  <2>6. R[ids[i]] = range(DirectoryStart(f, i))
    BY <2>1, <2>2, <2>5
  <2>7. R[ids[i]] = range(Start(g, i))
    BY <1>6, <2>6
  <2>8. ids[i] \in DOMAIN R
    BY <2>1, <2>2
  <2>. QED
    BY <2>7, <2>8 DEF range
<1>8. DOMAIN R = DOMAIN table
  <2>1. DOMAIN R = {DirectoryId(f, j) : j \in 1..f[1]}
    BY DEF Ranges
  <2>2. DOMAIN R = {ids[j] : j \in 1..n}
    BY <1>5, <1>6, <2>1
  <2>. HIDE DEF R
  <2>3. \A j \in 1..n : ids[j] \in DOMAIN table
    BY <1>1
  <2>4. \A d \in DOMAIN table : \E j \in 1..n : ids[j] = d
    BY <1>1
  <2>. QED
    BY <2>2, <2>3, <2>4
<1>. HIDE DEF R
<1>9. ASSUME NEW i \in 1..n
      PROVE  /\ table[ids[i]] \in Seq(Int)
             /\ RangeIsTyped(kind, f, Start(g, i))
             /\ (kind = "STRINGS" => \A j \in 1..Len(table[ids[i]]) : table[ids[i]][j] # Nul)
                   => RangeHolds(kind, f, Start(g, i), table[ids[i]])
  <2>. DEFINE text == table[ids[i]]
              s == Start(g, i)
  <2>1. text \in Seq(Int)
    BY <1>1 DEF TableOK
  <2>2. FrameAt(kind, table, i) = Framed(kind, text)
    BY DEF FrameAt, ids
  <2>3. FramedAt(Framed(kind, text), g, s)
    <3>1. s \in Nat \ {0}
      BY <1>6
    <3>2. \A j \in 1..Len(FrameAt(kind, table, i)) :
             s + j - 1 \in 1..Len(g) /\ g[s + j - 1] = FrameAt(kind, table, i)[j]
      BY <1>2
    <3>. HIDE DEF s, text
    <3>. QED
      BY <2>2, <3>1, <3>2 DEF FramedAt
  <2>4. TextEnd(kind, f, s) # Refused
    BY <1>4, <1>5, <1>6
  <2>. HIDE DEF text, s
  <2>5. CASE LengthPrefixed(kind)
    BY <2>1, <2>3, <2>4, <2>5, PrefixedIsRead DEF text, s
  <2>6. CASE ~LengthPrefixed(kind)
    <3>1. kind = "STRINGS"
      BY <2>6 DEF LengthPrefixed, Kinds, KindOrder, Seqs!ToSet
    <3>2. /\ RangeIsTyped(kind, f, s)
          /\ (\A j \in 1..Len(text) : text[j] # Nul) => RangeHolds(kind, f, s, text)
      BY <2>1, <2>3, <2>4, <2>6, TerminatedIsRead
    <3>. QED
      BY <2>1, <3>1, <3>2 DEF text, s
  <2>. QED
    BY <2>5, <2>6
<1>10. ASSUME NEW i \in 1..n
       PROVE  /\ R[ids[i]].at \in Nat \ {0} /\ R[ids[i]].len \in Nat
              /\ (kind = "STRINGS" => \A j \in 1..Len(table[ids[i]]) : table[ids[i]][j] # Nul) =>
                    /\ R[ids[i]].len = Len(table[ids[i]])
                    /\ \A j \in 1..Len(table[ids[i]]) :
                          /\ R[ids[i]].at + j - 1 \in 1..Len(f)
                          /\ f[R[ids[i]].at + j - 1] = table[ids[i]][j]
  <2>1. /\ R[ids[i]].at = TextStart(kind, Start(g, i))
        /\ R[ids[i]].len = TextEnd(kind, f, Start(g, i)) - TextStart(kind, Start(g, i))
    <3>. DEFINE x == TextStart(kind, Start(g, i))
                y == TextEnd(kind, f, Start(g, i)) - TextStart(kind, Start(g, i))
                r == R[ids[i]]
    <3>1. r = [at |-> x, len |-> y]
      BY <1>7
    <3>. HIDE DEF x, y, r
    <3>2. r.at = x /\ r.len = y
      BY <3>1
    <3>. QED
      BY <3>2 DEF x, y, r
  <2>. QED
    BY <1>9, <2>1 DEF RangeIsTyped, RangeHolds
<1>11. ASSUME NEW id \in DOMAIN table
       PROVE  /\ R[id].at \in Nat \ {0} /\ R[id].len \in Nat
              /\ (kind = "STRINGS" => \A j \in 1..Len(table[id]) : table[id][j] # Nul) =>
                    /\ R[id].len = Len(table[id])
                    /\ \A j \in 1..Len(table[id]) :
                          /\ R[id].at + j - 1 \in 1..Len(f)
                          /\ f[R[id].at + j - 1] = table[id][j]
  <2>1. PICK i \in 1..n : ids[i] = id
    BY <1>1
  <2>. QED
    BY <1>10, <2>1
<1>. QED
  BY <1>8, <1>11 DEF ReadBack, R

-----------------------------------------------------------------------------
(***************************************************************************)
(* A file holds the table that was last written to it, or a part of that.  *)
(***************************************************************************)
StringOK(s) == s.at \in Nat \ {0} /\ s.len \in Nat /\ s.text \in Seq(Int)

EntriesOK(table) ==
    /\ IsFiniteSet(DOMAIN table) /\ DOMAIN table \in SUBSET Nat
    /\ \A id \in DOMAIN table : StringOK(table[id])

\* The file holds what is stored, perhaps cut off.
FileOK(kind, file, table) ==
    TableOK(table) /\ (file = Absent \/ Cut(file, Image(kind, table)))

\* What is left to write completes the file.
SaveOK(s, fs, tables) ==
    \/ s = NoSave
    \/ /\ s \in [set : Handles, lang : Languages, kind : 1..3,
                 phase : {"create", "build", "write"}, left : Seq(Int)]
       /\ LET kind == KindOrder[s.kind]
              file == fs[s.lang][kind]
          IN  /\ s.phase = "build" => file = <<>>
              /\ s.phase = "write" =>
                    /\ file \in Seq(Int) /\ s.left # <<>>
                    /\ Joined(file, s.left, Image(kind, tables[s.lang][kind]))

FilesOK(fs, tables) ==
    /\ DOMAIN fs = Languages /\ DOMAIN tables = Languages
    /\ \A lang \in Languages : DOMAIN tables[lang] = Kinds /\ DOMAIN fs[lang] = Kinds
    /\ \A lang \in Languages, k \in Kinds : FileOK(k, fs[lang][k], tables[lang][k])

SetsOK(ss) == \A h \in Handles : \A k \in DOMAIN ss[h] : EntriesOK(ss[h][k])

WritesInv ==
    /\ SetsInv
    /\ FilesOK(files, stored)
    /\ SetsOK(sets)
    /\ SaveOK(save, files, stored)
    /\ save # NoSave => IsOpen(save.set)

\* The kinds are those a save writes in turn.
LEMMA KindsInTurn ==
    Len(KindOrder) = 3 /\ \A i \in 1..3 : KindOrder[i] \in Kinds
BY DEF KindOrder, Kinds, Seqs!ToSet

\* What is in a file are cells.
LEMMA FilesAreCells ==
    ASSUME WritesInv, NEW lang \in Languages, NEW k \in Kinds
    PROVE  files[lang][k] \in Seq(Int) /\ Len(files[lang][k]) \in Nat
<1>1. <<-1>> \in Seq(Int)
  OBVIOUS
<1>2. FileOK(k, files[lang][k], stored[lang][k])
  BY DEF WritesInv, FilesOK
<1>3. files[lang][k] \in Seq(Int)
  BY <1>1, <1>2 DEF FileOK, Cut, Absent
<1>. QED
  BY <1>3

\* A string reads as a text, from whatever its file has become.
LEMMA TextIsTyped ==
    ASSUME WritesInv, NEW h \in Handles, IsOpen(h), NEW k \in Kinds, NEW id \in DOMAIN sets[h][k]
    PROVE  Text(k, sets[h][k][id]) \in Seq(Int)
<1>. DEFINE s == sets[h][k][id]
            file == files[s.home][k]
<1>1. DOMAIN sets[h] = Kinds
  BY DEF WritesInv, SetsInv
<1>2. StringOK(s)
  BY <1>1 DEF WritesInv, SetsOK, EntriesOK
<1>3. s.home = Heap \/ s.home \in Languages
  <2>1. s.home = Heap \/ s.home = origin[h]
    BY <1>1 DEF WritesInv, SetsInv, Homes
  <2>2. origin[h] \in Languages \union {Heap}
    BY DEF WritesInv, SetsInv
  <2>. HIDE DEF s
  <2>. QED
    BY <2>1, <2>2
<1>. HIDE DEF s
<1>4. CASE s.home = Heap
  BY <1>2, <1>4 DEF Text, StringOK, s
<1>5. CASE s.home # Heap
  <2>. DEFINE t == [i \in 1..s.len |-> IF s.at + i - 1 <= Len(file) THEN file[s.at + i - 1] ELSE Nul]
  <2>1. Text(k, s) = t
    BY <1>5 DEF Text
  <2>2. file \in Seq(Int) /\ Len(file) \in Nat
    BY <1>3, <1>5, FilesAreCells
  <2>. HIDE DEF file
  <2>3. s.len \in Nat /\ s.at \in Nat \ {0}
    BY <1>2 DEF StringOK
  <2>4. \A i \in 1..s.len : s.at + i - 1 <= Len(file) => file[s.at + i - 1] \in Int
    <3>. DEFINE a == s.at
                l == s.len
    <3>1. a \in Nat \ {0} /\ l \in Nat
      BY <2>3
    <3>. HIDE DEF a, l
    <3>2. \A i \in 1..l : a + i - 1 <= Len(file) => a + i - 1 \in 1..Len(file)
      BY <2>2, <3>1
    <3>3. \A i \in 1..l : a + i - 1 <= Len(file) => file[a + i - 1] \in Int
      BY <2>2, <3>2
    <3>. QED
      BY <3>3 DEF a, l
  <2>5. Nul \in Int
    BY DEF Nul
  <2>6. t \in [1..s.len -> Int]
    BY <2>4, <2>5
  <2>. HIDE DEF t
  <2>7. t \in Seq(Int)
    BY <2>3, <2>6
  <2>. QED
    BY <2>1, <2>7 DEF s
<1>. QED
  BY <1>4, <1>5

\* A file that opens gives the table that is stored.
LEMMA OpenedReads ==
    ASSUME WritesInv, NEW lang \in Languages, NEW k \in Kinds,
           files[lang][k] # Absent, Parses(k, files[lang][k])
    PROVE  ReadBack(k, stored[lang][k], files[lang][k])
<1>. DEFINE table == stored[lang][k]
            f == files[lang][k]
            g == Image(k, table)
<1>1. TableOK(table) /\ Cut(f, g)
  BY DEF WritesInv, FilesOK, FileOK
<1>2. Laid(k, table, g)
  BY <1>1, ImageIsLaid
<1>. HIDE DEF table, f, g
<1>3. Parses(k, f)
  BY DEF f
<1>4. ReadBack(k, table, f)
  BY <1>1, <1>2, <1>3, WholeOrRefused
<1>. QED
  BY <1>4 DEF table, f

\* The entries of an opened table.
LEMMA OpenedOK ==
    ASSUME WritesInv, NEW lang \in Languages, NEW k \in Kinds, FileParses(lang, k)
    PROVE  EntriesOK(Opened(lang, k))
<1>1. CASE files[lang][k] = Absent
  <2>1. Opened(lang, k) = NoEntries
    BY <1>1 DEF Opened
  <2>2. DOMAIN NoEntries = {}
    BY DEF NoEntries
  <2>3. IsFiniteSet({})
    BY FS_EmptySet
  <2>. QED
    BY <2>1, <2>2, <2>3 DEF EntriesOK
<1>2. CASE files[lang][k] # Absent
  <2>. DEFINE table == stored[lang][k]
              R == Ranges(k, files[lang][k])
  <2>1. ReadBack(k, table, files[lang][k])
    BY <1>2, OpenedReads DEF FileParses
  <2>2. DOMAIN R = DOMAIN table /\ \A id \in DOMAIN table : R[id].at \in Nat \ {0} /\ R[id].len \in Nat
    BY <2>1 DEF ReadBack
  <2>3. Opened(lang, k) = [id \in DOMAIN R |-> Borrowed(lang, R[id])]
    BY <1>2 DEF Opened
  <2>4. IsFiniteSet(DOMAIN table) /\ DOMAIN table \in SUBSET Nat
    BY DEF WritesInv, FilesOK, FileOK, TableOK
  <2>. HIDE DEF R, table
  <2>5. ASSUME NEW id \in DOMAIN table PROVE StringOK(Borrowed(lang, R[id]))
    <3>1. /\ Borrowed(lang, R[id]).at = R[id].at /\ Borrowed(lang, R[id]).len = R[id].len
          /\ Borrowed(lang, R[id]).text = <<>>
      BY DEF Borrowed
    <3>2. <<>> \in Seq(Int)
      OBVIOUS
    <3>. QED
      BY <2>2, <3>1, <3>2 DEF StringOK
  <2>6. DOMAIN Opened(lang, k) = DOMAIN table
    BY <2>2, <2>3
  <2>7. \A id \in DOMAIN table : StringOK(Opened(lang, k)[id])
    BY <2>2, <2>3, <2>5
  <2>. QED
    BY <2>4, <2>6, <2>7 DEF EntriesOK
<1>. QED
  BY <1>1, <1>2

\* A table of a set is replaced by one that is in order.
LEMMA ReplaceSetIsOK ==
    ASSUME SetsOK(sets), DOMAIN sets = Handles, NEW h \in Handles, NEW new,
           \A k \in DOMAIN new : EntriesOK(new[k])
    PROVE  SetsOK([sets EXCEPT ![h] = new])
<1>. DEFINE ss == [sets EXCEPT ![h] = new]
<1>1. ss[h] = new /\ \A g \in Handles : g # h => ss[g] = sets[g]
  OBVIOUS
<1>. HIDE DEF ss
<1>2. ASSUME NEW g \in Handles, NEW k \in DOMAIN ss[g] PROVE EntriesOK(ss[g][k])
  <2>1. CASE g = h
    BY <1>1, <2>1
  <2>2. CASE g # h
    BY <1>1, <2>2 DEF SetsOK
  <2>. QED
    BY <2>1, <2>2
<1>3. SetsOK(ss)
  BY <1>2 DEF SetsOK
<1>. QED
  BY <1>3 DEF ss

\* An edit leaves the entries in order.
LEMMA EditedIsOK ==
    ASSUME WritesInv, NEW h \in Handles, Edit(h)
    PROVE  SetsOK(sets')
<1>1. DOMAIN sets = Handles /\ SetsOK(sets) /\ DOMAIN sets[h] = Kinds
  BY DEF WritesInv, SetsInv, Edit
<1>2. PICK k \in Kinds, id \in Ids :
         \/ \E text \in Texts :
               sets' = [sets EXCEPT ![h][k] =
                           [x \in DOMAIN @ \union {id} |->
                               IF x = id THEN Owned(text) ELSE @[x]]]
         \/ /\ id \in DOMAIN sets[h][k]
            /\ sets' = [sets EXCEPT ![h][k] = [x \in DOMAIN @ \ {id} |-> @[x]]]
  BY DEF Edit
<1>3. EntriesOK(sets[h][k]) /\ id \in Nat
  BY <1>1, LocalizationAssumption DEF SetsOK
<1>4. ASSUME NEW table, EntriesOK(table), sets' = [sets EXCEPT ![h][k] = table]
      PROVE  SetsOK(sets')
  <2>. DEFINE new == [sets[h] EXCEPT ![k] = table]
  <2>1. sets' = [sets EXCEPT ![h] = new]
    BY <1>4
  <2>2. \A j \in DOMAIN new : EntriesOK(new[j])
    BY <1>1, <1>4 DEF SetsOK
  <2>. HIDE DEF new
  <2>. QED
    BY <1>1, <2>1, <2>2, ReplaceSetIsOK
<1>. DEFINE old == sets[h][k]
<1>5. CASE \E text \in Texts :
               sets' = [sets EXCEPT ![h][k] =
                           [x \in DOMAIN @ \union {id} |->
                               IF x = id THEN Owned(text) ELSE @[x]]]
  <2>1. PICK text \in Texts :
               sets' = [sets EXCEPT ![h][k] =
                           [x \in DOMAIN @ \union {id} |->
                               IF x = id THEN Owned(text) ELSE @[x]]]
    BY <1>5
  <2>. DEFINE table == [x \in DOMAIN old \union {id} |-> IF x = id THEN Owned(text) ELSE old[x]]
  <2>2. sets' = [sets EXCEPT ![h][k] = table]
    BY <2>1
  <2>3. StringOK(Owned(text))
    <3>1. text \in Seq(Nat)
      BY LocalizationAssumption
    <3>2. text \in Seq(Int) /\ Len(text) \in Nat
      BY <3>1
    <3>3. Owned(text).at = 1 /\ Owned(text).len = Len(text) /\ Owned(text).text = text
      BY DEF Owned
    <3>. QED
      BY <3>2, <3>3 DEF StringOK
  <2>. HIDE DEF old
  <2>4. EntriesOK(old)
    BY <1>3 DEF old
  <2>5. DOMAIN table = DOMAIN old \union {id}
    OBVIOUS
  <2>6. IsFiniteSet(DOMAIN old \union {id}) /\ DOMAIN old \union {id} \in SUBSET Nat
    BY <1>3, <2>4, FS_AddElement DEF EntriesOK
  <2>7. \A x \in DOMAIN table : StringOK(table[x])
    BY <2>3, <2>4 DEF EntriesOK
  <2>. HIDE DEF table
  <2>8. EntriesOK(table)
    BY <2>5, <2>6, <2>7 DEF EntriesOK
  <2>. QED
    BY <1>4, <2>2, <2>8
<1>6. CASE sets' = [sets EXCEPT ![h][k] = [x \in DOMAIN @ \ {id} |-> @[x]]]
  <2>. DEFINE table == [x \in DOMAIN old \ {id} |-> old[x]]
  <2>1. sets' = [sets EXCEPT ![h][k] = table]
    BY <1>6
  <2>. HIDE DEF old
  <2>2. EntriesOK(old)
    BY <1>3 DEF old
  <2>3. DOMAIN table = DOMAIN old \ {id} /\ \A x \in DOMAIN table : StringOK(table[x])
    BY <2>2 DEF EntriesOK
  <2>4. IsFiniteSet(DOMAIN old \ {id}) /\ DOMAIN old \ {id} \in SUBSET Nat
    BY <2>2, FS_RemoveElement DEF EntriesOK
  <2>. HIDE DEF table
  <2>5. EntriesOK(table)
    BY <2>3, <2>4 DEF EntriesOK
  <2>. QED
    BY <1>4, <2>1, <2>5
<1>. QED
  BY <1>2, <1>5, <1>6

\* So does every other step.
LEMMA EntriesStayOK ==
    ASSUME WritesInv, [Next]_vars
    PROVE  SetsOK(sets')
<1>1. DOMAIN sets = Handles /\ SetsOK(sets)
  BY DEF WritesInv, SetsInv
<1>2. DOMAIN NoSet = {}
  BY DEF NoSet
<1>3. ASSUME NEW h \in Handles, NEW lang \in Languages, Open(h, lang) PROVE SetsOK(sets')
  <2>. DEFINE new == [k \in Kinds |-> Opened(lang, k)]
  <2>1. sets' = [sets EXCEPT ![h] = new] /\ \A k \in Kinds : FileParses(lang, k)
    BY <1>3 DEF Open
  <2>2. \A k \in DOMAIN new : EntriesOK(new[k])
    BY <2>1, OpenedOK
  <2>. HIDE DEF new
  <2>. QED
    BY <1>1, <2>1, <2>2, ReplaceSetIsOK
<1>4. ASSUME NEW h \in Handles, NEW copy \in Handles, Clone(h, copy) PROVE SetsOK(sets')
  <2>. DEFINE new == [k \in Kinds |-> [id \in DOMAIN sets[h][k] |-> Owned(Text(k, sets[h][k][id]))]]
  <2>1. sets' = [sets EXCEPT ![copy] = new] /\ IsOpen(h)
    BY <1>4 DEF Clone
  <2>2. DOMAIN sets[h] = Kinds
    BY <2>1 DEF WritesInv, SetsInv
  <2>3. ASSUME NEW k \in Kinds PROVE EntriesOK(new[k])
    <3>1. EntriesOK(sets[h][k])
      BY <1>1, <2>2 DEF SetsOK
    <3>2. ASSUME NEW id \in DOMAIN sets[h][k] PROVE StringOK(Owned(Text(k, sets[h][k][id])))
      <4>. DEFINE text == Text(k, sets[h][k][id])
      <4>1. text \in Seq(Int)
        BY <2>1, TextIsTyped
      <4>. HIDE DEF text
      <4>2. Len(text) \in Nat
        BY <4>1
      <4>3. Owned(text).at = 1 /\ Owned(text).len = Len(text) /\ Owned(text).text = text
        BY DEF Owned
      <4>4. StringOK(Owned(text))
        BY <4>1, <4>2, <4>3 DEF StringOK
      <4>. QED
        BY <4>4 DEF text
    <3>3. new[k] = [id \in DOMAIN sets[h][k] |-> Owned(Text(k, sets[h][k][id]))]
      OBVIOUS
    <3>. HIDE DEF new
    <3>4. DOMAIN new[k] = DOMAIN sets[h][k] /\ \A id \in DOMAIN sets[h][k] : StringOK(new[k][id])
      BY <3>2, <3>3
    <3>. QED
      BY <3>1, <3>4 DEF EntriesOK
  <2>4. DOMAIN new = Kinds
    OBVIOUS
  <2>. HIDE DEF new
  <2>. QED
    BY <1>1, <2>1, <2>3, <2>4, ReplaceSetIsOK
<1>5. ASSUME NEW h \in Handles, Drop(h) PROVE SetsOK(sets')
  <2>1. sets' = [sets EXCEPT ![h] = NoSet]
    BY <1>5 DEF Drop
  <2>. QED
    BY <1>1, <1>2, <2>1, ReplaceSetIsOK
<1>6. ASSUME NEW reason, Dead(reason) PROVE SetsOK(sets')
  BY <1>2, <1>6 DEF Dead, SetsOK
<1>7. ASSUME sets' = sets PROVE SetsOK(sets')
  BY <1>1, <1>7
<1>. QED
  BY <1>3, <1>4, <1>5, <1>6, <1>7, EditedIsOK
     DEF Next, OpenFails, SaveStarts, CloneFaults, CreateFile, BuildImage, Fault, Killed,
         WriteCell, SaveFails, vars

\* The image of a table in order, of which nothing or everything is written.
LEMMA ImageIsCells ==
    ASSUME NEW k, NEW table, TableOK(table)
    PROVE  /\ Image(k, table) \in Seq(Int) /\ Image(k, table) # <<>>
           /\ Cut(<<>>, Image(k, table)) /\ Joined(<<>>, Image(k, table), Image(k, table))
<1>. DEFINE g == Image(k, table)
            n == Cardinality(DOMAIN table)
<1>1. Laid(k, table, g) /\ n \in Nat
  BY ImageIsLaid, AscendingIs DEF TableOK
<1>. HIDE DEF g
<1>2. g \in Seq(Int) /\ Len(g) >= 2 + 2 * n
  BY <1>1 DEF Laid
<1>. HIDE DEF n
<1>3. Len(g) \in Nat /\ Len(g) >= 2
  BY <1>1, <1>2
<1>4. g # <<>>
  BY <1>3
<1>5. <<>> \in Seq(Int) /\ Len(<<>>) = 0 /\ 1..0 = {}
  OBVIOUS
<1>6. Cut(<<>>, g)
  BY <1>3, <1>5 DEF Cut
<1>7. Joined(<<>>, g, g)
  <2>1. \A i \in 1..Len(g) : 0 + i = i
    BY <1>3
  <2>2. Len(g) = 0 + Len(g)
    BY <1>3
  <2>. QED
    BY <1>2, <1>3, <1>5, <2>1, <2>2 DEF Joined
<1>. QED
  BY <1>2, <1>4, <1>6, <1>7 DEF g

\* The entry of a language and a kind is replaced.
Replaced(all, lang, k, one) == [all EXCEPT ![lang][k] = one]

\* One file is replaced.
LEMMA ReplaceFileIsOK ==
    ASSUME NEW fs, NEW tables, FilesOK(fs, tables), NEW lang \in Languages, NEW k \in Kinds,
           NEW f, FileOK(k, f, tables[lang][k])
    PROVE  /\ FilesOK(Replaced(fs, lang, k, f), tables)
           /\ Replaced(fs, lang, k, f)[lang][k] = f
<1>. DEFINE new == Replaced(fs, lang, k, f)
<1>1. /\ DOMAIN new = Languages /\ new[lang][k] = f
      /\ \A l \in Languages : DOMAIN new[l] = Kinds
      /\ \A l \in Languages, j \in Kinds : (l # lang \/ j # k) => new[l][j] = fs[l][j]
  BY DEF FilesOK, Replaced
<1>. HIDE DEF new
<1>2. ASSUME NEW l \in Languages, NEW j \in Kinds PROVE FileOK(j, new[l][j], tables[l][j])
  <2>1. CASE l = lang /\ j = k
    BY <1>1, <2>1
  <2>2. CASE l # lang \/ j # k
    BY <1>1, <2>2 DEF FilesOK
  <2>. QED
    BY <2>1, <2>2
<1>3. FilesOK(new, tables)
  BY <1>1, <1>2 DEF FilesOK
<1>. QED
  BY <1>1, <1>3 DEF new

\* The table that is stored in a file is replaced.
LEMMA ReplaceTableIsOK ==
    ASSUME NEW fs, NEW tables, FilesOK(fs, tables), NEW lang \in Languages, NEW k \in Kinds,
           NEW table, FileOK(k, fs[lang][k], table)
    PROVE  /\ FilesOK(fs, Replaced(tables, lang, k, table))
           /\ Replaced(tables, lang, k, table)[lang][k] = table
<1>. DEFINE new == Replaced(tables, lang, k, table)
<1>1. /\ DOMAIN new = Languages /\ new[lang][k] = table
      /\ \A l \in Languages : DOMAIN new[l] = Kinds
      /\ \A l \in Languages, j \in Kinds : (l # lang \/ j # k) => new[l][j] = tables[l][j]
  BY DEF FilesOK, Replaced
<1>. HIDE DEF new
<1>2. ASSUME NEW l \in Languages, NEW j \in Kinds PROVE FileOK(j, fs[l][j], new[l][j])
  <2>1. CASE l = lang /\ j = k
    BY <1>1, <2>1
  <2>2. CASE l # lang \/ j # k
    BY <1>1, <2>2 DEF FilesOK
  <2>. QED
    BY <2>1, <2>2
<1>3. FilesOK(fs, new)
  BY <1>1, <1>2 DEF FilesOK
<1>. QED
  BY <1>1, <1>3 DEF new

\* A save as a record.
Saves == [set : Handles, lang : Languages, kind : 1..3,
          phase : {"create", "build", "write"}, left : Seq(Int)]

\* A file that is created is empty, and is so until the table is collected.
LEMMA CreatedIsOK ==
    ASSUME WritesInv, CreateFile
    PROVE  FilesOK(files', stored') /\ SaveOK(save', files', stored') /\ save'.set = save.set
<1>. DEFINE lang == save.lang
            k == SavedKind
<1>1. /\ save # NoSave /\ files' = [files EXCEPT ![lang][k] = <<>>]
      /\ save' = [save EXCEPT !.phase = "build"] /\ stored' = stored
  BY DEF CreateFile
<1>2. save \in Saves
  BY <1>1 DEF WritesInv, SaveOK, Saves
<1>3. lang \in Languages /\ k \in Kinds
  BY <1>2, KindsInTurn DEF Saves, SavedKind
<1>4. save' \in Saves /\ save'.lang = lang /\ KindOrder[save'.kind] = k
      /\ save'.phase = "build" /\ save'.set = save.set
  BY <1>1, <1>2 DEF Saves, SavedKind
<1>. HIDE DEF lang, k
<1>5. FilesOK(files, stored) /\ TableOK(stored[lang][k])
  BY <1>3 DEF WritesInv, FilesOK, FileOK
<1>6. FileOK(k, <<>>, stored[lang][k])
  BY <1>5, ImageIsCells DEF FileOK
<1>7. FilesOK(files', stored) /\ files'[lang][k] = <<>>
  <2>1. files' = Replaced(files, lang, k, <<>>)
    BY <1>1 DEF Replaced
  <2>. QED
    BY <1>3, <1>5, <1>6, <2>1, ReplaceFileIsOK
<1>8. SaveOK(save', files', stored')
  BY <1>4, <1>7 DEF SaveOK, Saves
<1>. QED
  BY <1>1, <1>4, <1>7, <1>8

\* The table that is collected is what the file is going to hold.
LEMMA BuiltIsOK ==
    ASSUME WritesInv, BuildImage
    PROVE  FilesOK(files', stored') /\ SaveOK(save', files', stored') /\ save'.set = save.set
<1>. DEFINE lang == save.lang
            k == SavedKind
            table == Contents(sets[save.set][k], k)
<1>1. /\ save # NoSave /\ save.phase = "build" /\ files' = files
      /\ save' = [save EXCEPT !.phase = "write", !.left = Image(k, table)]
      /\ stored' = [stored EXCEPT ![lang][k] = table]
  BY DEF BuildImage
<1>2. save \in Saves /\ files[lang][k] = <<>> /\ IsOpen(save.set)
  BY <1>1 DEF WritesInv, SaveOK, Saves, SavedKind
<1>3. lang \in Languages /\ k \in Kinds /\ save.set \in Handles
  BY <1>2, KindsInTurn DEF Saves, SavedKind
<1>4. TableOK(table)
  <2>1. DOMAIN sets[save.set] = Kinds
    BY <1>2, <1>3 DEF WritesInv, SetsInv
  <2>2. EntriesOK(sets[save.set][k])
    BY <1>3, <2>1 DEF WritesInv, SetsOK
  <2>3. \A id \in DOMAIN sets[save.set][k] : Text(k, sets[save.set][k][id]) \in Seq(Int)
    BY <1>2, <1>3, TextIsTyped
  <2>4. /\ DOMAIN table = DOMAIN sets[save.set][k]
        /\ \A id \in DOMAIN sets[save.set][k] : table[id] = Text(k, sets[save.set][k][id])
    BY DEF Contents
  <2>5. table = [id \in DOMAIN table |-> table[id]]
    BY DEF Contents
  <2>. HIDE DEF table
  <2>6. table \in [DOMAIN table -> Seq(Int)]
    BY <2>3, <2>4, <2>5
  <2>. QED
    BY <2>2, <2>4, <2>6 DEF EntriesOK, TableOK
<1>. DEFINE image == Image(k, table)
<1>5. /\ image \in Seq(Int) /\ image # <<>> /\ Cut(<<>>, image) /\ Joined(<<>>, image, image)
  <2>. HIDE DEF table, k
  <2>. QED
    BY <1>4, ImageIsCells
<1>6. <<>> \in Seq(Int)
  OBVIOUS
<1>7. FileOK(k, files[lang][k], table)
  BY <1>2, <1>4, <1>5 DEF FileOK
<1>8. save' = [save EXCEPT !.phase = "write", !.left = image]
  BY <1>1
<1>. HIDE DEF image
<1>9. save' \in Saves /\ save'.lang = lang /\ KindOrder[save'.kind] = k
      /\ save'.phase = "write" /\ save'.left = image /\ save'.set = save.set
  BY <1>2, <1>5, <1>8 DEF Saves, SavedKind
<1>. HIDE DEF lang, k, table
<1>10. FilesOK(files, stored') /\ stored'[lang][k] = table
  <2>1. FilesOK(files, stored)
    BY DEF WritesInv
  <2>2. stored' = Replaced(stored, lang, k, table)
    BY <1>1 DEF Replaced
  <2>. QED
    BY <1>3, <1>7, <2>1, <2>2, ReplaceTableIsOK
<1>11. Joined(files'[lang][k], save'.left, Image(k, stored'[lang][k]))
  BY <1>1, <1>2, <1>5, <1>9, <1>10 DEF image
<1>12. SaveOK(save', files', stored')
  BY <1>1, <1>2, <1>5, <1>6, <1>9, <1>11 DEF SaveOK, Saves
<1>. QED
  BY <1>1, <1>9, <1>10, <1>12

\* A cell moves from what is left into the file.
LEMMA CellMoves ==
    ASSUME NEW file \in Seq(Int), NEW left \in Seq(Int), left # <<>>, NEW image,
           Joined(file, left, image)
    PROVE  /\ Append(file, Head(left)) \in Seq(Int) /\ Cut(Append(file, Head(left)), image)
           /\ Tail(left) \in Seq(Int) /\ (Len(left) > 1 => Tail(left) # <<>>)
           /\ Joined(Append(file, Head(left)), Tail(left), image)
<1>. DEFINE a == Append(file, Head(left))
            b == Tail(left)
            m == Len(file)
            n == Len(left)
<1>1. m \in Nat /\ n \in Nat /\ n >= 1
  OBVIOUS
<1>2. /\ image \in Seq(Int) /\ Len(image) = m + n
      /\ \A i \in 1..m : image[i] = file[i]
      /\ \A i \in 1..n : image[m + i] = left[i]
  BY DEF Joined
<1>3. Head(left) = left[1] /\ left[1] \in Int
  BY <1>1
<1>4. a \in Seq(Int) /\ Len(a) = m + 1 /\ a[m + 1] = left[1] /\ \A i \in 1..m : a[i] = file[i]
  BY <1>3
<1>5. b \in Seq(Int) /\ Len(b) = n - 1 /\ \A i \in 1..(n - 1) : b[i] = left[i + 1]
  BY <1>1
<1>. HIDE DEF a, b, m, n
<1>6. ASSUME NEW i \in 1..(m + 1) PROVE image[i] = a[i]
  <2>1. CASE i = m + 1
    <3>1. 1 \in 1..n /\ m + 1 = i
      BY <1>1, <2>1
    <3>2. image[m + 1] = left[1]
      BY <1>2, <3>1
    <3>. QED
      BY <1>4, <2>1, <3>2
  <2>2. CASE i # m + 1
    <3>1. i \in 1..m
      BY <1>1, <2>2
    <3>. QED
      BY <1>2, <1>4, <3>1
  <2>. QED
    BY <2>1, <2>2
<1>7. ASSUME NEW i \in 1..(n - 1) PROVE image[(m + 1) + i] = b[i]
  <2>1. i + 1 \in 1..n /\ m + (i + 1) = (m + 1) + i
    BY <1>1
  <2>2. image[m + (i + 1)] = left[i + 1]
    BY <1>2, <2>1
  <2>. QED
    BY <1>5, <2>1, <2>2
<1>8. Len(image) = (m + 1) + (n - 1) /\ m + 1 \in Nat /\ n - 1 \in Nat /\ Len(image) \in Nat
      /\ m + 1 <= Len(image)
  BY <1>1, <1>2
<1>9. Cut(a, image)
  BY <1>4, <1>6, <1>8 DEF Cut
<1>10. Joined(a, b, image)
  BY <1>2, <1>4, <1>5, <1>6, <1>7, <1>8 DEF Joined
<1>11. n > 1 => b # <<>>
  <2>1. n > 1 => Len(b) # 0
    BY <1>1, <1>5
  <2>. QED
    BY <2>1
<1>. QED
  BY <1>4, <1>5, <1>9, <1>10, <1>11 DEF a, b, n

\* Every cell that is written continues the image.
LEMMA WrittenIsOK ==
    ASSUME WritesInv, WriteCell
    PROVE  FilesOK(files', stored') /\ SaveOK(save', files', stored')
           /\ (save' # NoSave => save'.set = save.set)
<1>. DEFINE lang == save.lang
            k == SavedKind
            file == files[lang][k]
            image == Image(k, stored[lang][k])
            new == Append(file, Head(save.left))
<1>1. /\ save # NoSave /\ save.phase = "write" /\ stored' = stored
      /\ files' = [files EXCEPT ![lang][k] = Append(@, Head(save.left))]
  BY DEF WriteCell
<1>2. /\ save \in Saves /\ save.left # <<>> /\ file \in Seq(Int)
      /\ Joined(file, save.left, image)
  BY <1>1 DEF WritesInv, SaveOK, Saves, SavedKind
<1>3. lang \in Languages /\ k \in Kinds /\ save.left \in Seq(Int) /\ save.kind \in 1..3
  BY <1>2, KindsInTurn DEF Saves, SavedKind
<1>4. FilesOK(files, stored) /\ TableOK(stored[lang][k])
  BY <1>3 DEF WritesInv, FilesOK, FileOK
<1>5. files' = [files EXCEPT ![lang][k] = new]
  BY <1>1
<1>6. /\ new \in Seq(Int) /\ Cut(new, image)
      /\ Tail(save.left) \in Seq(Int) /\ (Len(save.left) > 1 => Tail(save.left) # <<>>)
      /\ Joined(new, Tail(save.left), image)
  <2>. HIDE DEF file, image
  <2>. QED
    BY <1>2, <1>3, CellMoves
<1>. HIDE DEF new, file
<1>7. FileOK(k, new, stored[lang][k])
  BY <1>4, <1>6 DEF FileOK
<1>8. FilesOK(files', stored) /\ files'[lang][k] = new
  <2>. HIDE DEF lang, k, image
  <2>1. files' = Replaced(files, lang, k, new)
    BY <1>5 DEF Replaced
  <2>. QED
    BY <1>3, <1>4, <1>7, <2>1, ReplaceFileIsOK
<1>9. CASE Len(save.left) > 1
  <2>1. save' = [save EXCEPT !.left = Tail(@)]
    BY <1>9 DEF WriteCell
  <2>2. /\ save' \in Saves /\ save'.lang = lang /\ KindOrder[save'.kind] = k
        /\ save'.phase = "write" /\ save'.left = Tail(save.left) /\ save'.set = save.set
    BY <1>1, <1>2, <1>6, <2>1 DEF Saves, SavedKind
  <2>3. Joined(files'[lang][k], save'.left, Image(k, stored'[lang][k]))
    BY <1>1, <1>6, <1>8, <2>2
  <2>4. files'[lang][k] \in Seq(Int) /\ save'.left # <<>>
    BY <1>6, <1>8, <1>9, <2>2
  <2>. HIDE DEF lang, k, image
  <2>5. SaveOK(save', files', stored')
    BY <2>2, <2>3, <2>4 DEF SaveOK, Saves
  <2>. QED
    BY <1>1, <1>8, <2>2, <2>5
<1>10. CASE ~(Len(save.left) > 1) /\ save.kind < Len(KindOrder)
  <2>1. save' = [save EXCEPT !.kind = @ + 1, !.phase = "create", !.left = <<>>]
    BY <1>10 DEF WriteCell
  <2>2. save.kind + 1 \in 1..3
    BY <1>3, <1>10, KindsInTurn
  <2>3. <<>> \in Seq(Int)
    OBVIOUS
  <2>4. save' \in Saves /\ save'.phase = "create" /\ save'.set = save.set
    BY <1>2, <2>1, <2>2, <2>3 DEF Saves
  <2>5. SaveOK(save', files', stored')
    BY <2>4 DEF SaveOK, Saves
  <2>. QED
    BY <1>1, <1>8, <2>4, <2>5
<1>11. CASE ~(Len(save.left) > 1) /\ ~(save.kind < Len(KindOrder))
  <2>1. save' = NoSave
    BY <1>11 DEF WriteCell
  <2>. QED
    BY <1>1, <1>8, <2>1 DEF SaveOK
<1>. QED
  BY <1>9, <1>10, <1>11

\* Nothing is open, nothing is saved, and the files hold what is installed.
LEMMA WritesInitInv == Init => WritesInv
<1>. SUFFICES ASSUME Init PROVE WritesInv
  OBVIOUS
<1>1. /\ stored \in Installed /\ save = NoSave /\ sets = [h \in Handles |-> NoSet]
      /\ files = [lang \in Languages |-> [k \in Kinds |->
                    IF stored[lang][k] = NoEntries THEN Absent
                                                   ELSE Image(k, stored[lang][k])]]
  BY DEF Init
<1>2. /\ DOMAIN stored = Languages
      /\ \A lang \in Languages : /\ DOMAIN stored[lang] = Kinds
                                 /\ \A k \in Kinds : IsTable(stored[lang][k])
  BY <1>1, LocalizationAssumption
<1>3. ASSUME NEW lang \in Languages, NEW k \in Kinds
      PROVE  FileOK(k, files[lang][k], stored[lang][k])
  <2>. DEFINE table == stored[lang][k]
              file == files[lang][k]
  <2>1. TableOK(table)
    <3>1. /\ IsFiniteSet(DOMAIN table) /\ DOMAIN table \subseteq Nat
          /\ table \in [DOMAIN table -> Seq(Nat)]
      BY <1>2 DEF IsTable
    <3>2. Seq(Nat) \subseteq Seq(Int)
      OBVIOUS
    <3>. QED
      BY <3>1, <3>2 DEF TableOK
  <2>2. file = Absent \/ file = Image(k, table)
    BY <1>1
  <2>. HIDE DEF table, file
  <2>3. CASE file = Absent
    BY <2>1, <2>3 DEF FileOK, table, file
  <2>4. CASE file = Image(k, table)
    <3>1. Image(k, table) \in Seq(Int)
      BY <2>1, ImageIsCells
    <3>2. Len(file) \in Nat
      BY <2>4, <3>1
    <3>3. Cut(file, Image(k, table))
      BY <2>4, <3>1, <3>2 DEF Cut
    <3>. QED
      BY <2>1, <3>3 DEF FileOK, table, file
  <2>. QED
    BY <2>2, <2>3, <2>4
<1>4. DOMAIN files = Languages /\ \A lang \in Languages : DOMAIN files[lang] = Kinds
  BY <1>1
<1>5. FilesOK(files, stored)
  BY <1>2, <1>3, <1>4 DEF FilesOK
<1>6. SetsOK(sets)
  BY <1>1 DEF SetsOK, NoSet
<1>7. SetsInv
  BY SetsInitInv
<1>. QED
  BY <1>1, <1>5, <1>6, <1>7 DEF WritesInv, SaveOK

\* Every step keeps the invariant.
LEMMA WritesStepKeepsInv == WritesInv /\ [Next]_vars => WritesInv'
<1>. SUFFICES ASSUME WritesInv, [Next]_vars PROVE WritesInv'
  OBVIOUS
<1>1. SetsInv'
  BY SetsStepKeepsInv DEF WritesInv
<1>2. SetsOK(sets')
  BY EntriesStayOK
<1>3. DOMAIN sets = Handles /\ DOMAIN sets' = Handles
  BY <1>1 DEF WritesInv, SetsInv
<1>4. save # NoSave => save.set \in Handles /\ sets[save.set] # NoSet
  BY DEF WritesInv, SaveOK, IsOpen
<1>. DEFINE Kept(s) == s # NoSave => sets'[s.set] # NoSet
<1>5. ASSUME FilesOK(files', stored'), SaveOK(save', files', stored'), Kept(save')
      PROVE  WritesInv'
  BY <1>1, <1>2, <1>5 DEF WritesInv, IsOpen
<1>6. FilesOK(files, stored) /\ SaveOK(save, files, stored)
  BY DEF WritesInv
<1>7. ASSUME UNCHANGED <<files, stored, save>>, Kept(save) PROVE WritesInv'
  BY <1>5, <1>6, <1>7
<1>8. ASSUME NEW h \in Handles, NEW new, sets' = [sets EXCEPT ![h] = new], save.set # h
      PROVE  Kept(save)
  BY <1>3, <1>4, <1>8
<1>9. ASSUME NEW h \in Handles, NEW new, sets' = [sets EXCEPT ![h] = new], ~IsOpen(h)
      PROVE  Kept(save)
  BY <1>3, <1>4, <1>9 DEF IsOpen
<1>10. ASSUME sets' = sets PROVE Kept(save)
  BY <1>4, <1>10
<1>. HIDE DEF Kept
<1>11. ASSUME NEW h \in Handles, NEW lang \in Languages, Open(h, lang) PROVE WritesInv'
  <2>1. UNCHANGED <<files, stored, save>> /\ ~IsOpen(h)
    BY <1>11 DEF Open
  <2>2. sets' = [sets EXCEPT ![h] = [k \in Kinds |-> Opened(lang, k)]]
    BY <1>11 DEF Open
  <2>. QED
    BY <1>7, <1>9, <2>1, <2>2
<1>12. ASSUME NEW h \in Handles, NEW lang \in Languages, OpenFails(h, lang) PROVE WritesInv'
  BY <1>7, <1>10, <1>12 DEF OpenFails
<1>13. ASSUME NEW h \in Handles, NEW lang \in Languages, SaveStarts(h, lang) PROVE WritesInv'
  <2>1. /\ UNCHANGED <<files, stored, sets>> /\ sets[h] # NoSet
        /\ save' = [set |-> h, lang |-> lang, kind |-> 1, phase |-> "create", left |-> <<>>]
    BY <1>13 DEF SaveStarts, IsOpen
  <2>2. <<>> \in Seq(Int)
    OBVIOUS
  <2>3. save' \in Saves /\ save'.phase = "create" /\ save'.set = h
    BY <2>1, <2>2 DEF Saves
  <2>4. SaveOK(save', files', stored')
    BY <2>3 DEF SaveOK, Saves
  <2>5. Kept(save')
    BY <2>1, <2>3 DEF Kept
  <2>. QED
    BY <1>5, <1>6, <2>1, <2>4, <2>5
<1>14. ASSUME NEW h \in Handles, Edit(h) PROVE WritesInv'
  <2>1. UNCHANGED <<files, stored, save>> /\ save.set # h
    BY <1>14 DEF Edit
  <2>2. \A g \in Handles : g # h => sets'[g] = sets[g]
    BY <1>3, <1>14 DEF Edit
  <2>3. Kept(save)
    BY <1>4, <2>1, <2>2 DEF Kept
  <2>. QED
    BY <1>7, <2>1, <2>3
<1>15. ASSUME NEW h \in Handles, Drop(h) PROVE WritesInv'
  <2>1. UNCHANGED <<files, stored, save>> /\ save.set # h /\ sets' = [sets EXCEPT ![h] = NoSet]
    BY <1>15 DEF Drop
  <2>. QED
    BY <1>7, <1>8, <2>1
<1>16. ASSUME NEW h \in Handles, NEW copy \in Handles, Clone(h, copy) PROVE WritesInv'
  <2>. DEFINE new == [k \in Kinds |-> [id \in DOMAIN sets[h][k] |-> Owned(Text(k, sets[h][k][id]))]]
  <2>1. UNCHANGED <<files, stored, save>> /\ ~IsOpen(copy) /\ sets' = [sets EXCEPT ![copy] = new]
    BY <1>16 DEF Clone
  <2>. HIDE DEF new
  <2>. QED
    BY <1>7, <1>9, <2>1
<1>17. ASSUME NEW reason, Dead(reason) PROVE WritesInv'
  <2>1. files' = files /\ stored' = stored /\ save' = NoSave
    BY <1>17 DEF Dead
  <2>2. SaveOK(save', files', stored') /\ Kept(save')
    BY <2>1 DEF SaveOK, Kept
  <2>. QED
    BY <1>5, <1>6, <2>1, <2>2
<1>18. ASSUME CreateFile \/ BuildImage \/ WriteCell PROVE WritesInv'
  <2>1. FilesOK(files', stored') /\ SaveOK(save', files', stored')
        /\ (save' # NoSave => save'.set = save.set)
    BY <1>18, CreatedIsOK, BuiltIsOK, WrittenIsOK
  <2>2. sets' = sets /\ save # NoSave
    BY <1>18 DEF CreateFile, BuildImage, WriteCell
  <2>3. Kept(save')
    BY <1>4, <2>1, <2>2 DEF Kept
  <2>. QED
    BY <1>5, <2>1, <2>3
<1>19. ASSUME SaveFails PROVE WritesInv'
  <2>1. files' = files /\ stored' = stored /\ save' = NoSave
    BY <1>19 DEF SaveFails
  <2>2. SaveOK(save', files', stored') /\ Kept(save')
    BY <2>1 DEF SaveOK, Kept
  <2>. QED
    BY <1>5, <1>6, <2>1, <2>2
<1>20. CASE UNCHANGED vars
  BY <1>7, <1>10, <1>20 DEF vars
<1>. QED
  BY <1>11, <1>12, <1>13, <1>14, <1>15, <1>16, <1>17, <1>18, <1>19, <1>20
     DEF Next, CloneFaults, Fault, Killed

\* A set that was opened from files that parse reads as what is stored.
LEMMA OpenedReadsAsStored ==
    ASSUME WritesInv, NEW h \in Handles, NEW lang \in Languages, Open(h, lang), NEW k \in Kinds,
           Representable(k, stored[lang][k])
    PROVE  Contents(sets'[h][k], k) = IF files[lang][k] = Absent THEN NoEntries ELSE stored[lang][k]
<1>1. FileParses(lang, k) /\ sets'[h][k] = Opened(lang, k) /\ files' = files
  BY DEF Open, WritesInv, SetsInv
<1>2. CASE files[lang][k] = Absent
  <2>1. Opened(lang, k) = NoEntries
    BY <1>2 DEF Opened
  <2>2. Contents(NoEntries, k) = NoEntries
    BY DEF Contents, NoEntries
  <2>. QED
    BY <1>1, <1>2, <2>1, <2>2
<1>3. CASE files[lang][k] # Absent
  <2>. DEFINE table == stored[lang][k]
              file == files[lang][k]
              R == Ranges(k, file)
  <2>1. ReadBack(k, table, file)
    BY <1>1, <1>3, OpenedReads DEF FileParses
  <2>2. TableOK(table) /\ lang # Heap
    BY LocalizationAssumption DEF WritesInv, FilesOK, FileOK, Heap
  <2>3. k = "STRINGS" => \A id \in DOMAIN table : \A j \in 1..Len(table[id]) : table[id][j] # Nul
    BY <2>2 DEF Representable, Seqs!ToSet, TableOK
  <2>4. /\ DOMAIN R = DOMAIN table
        /\ \A id \in DOMAIN table :
              /\ R[id].len = Len(table[id])
              /\ \A j \in 1..Len(table[id]) : /\ R[id].at + j - 1 \in 1..Len(file)
                                              /\ file[R[id].at + j - 1] = table[id][j]
    BY <2>1, <2>3 DEF ReadBack
  <2>5. Opened(lang, k) = [id \in DOMAIN R |-> Borrowed(lang, R[id])]
    BY <1>3 DEF Opened
  <2>6. file \in Seq(Int) /\ Len(file) \in Nat
    BY FilesAreCells
  <2>. HIDE DEF R
  <2>7. ASSUME NEW id \in DOMAIN table
        PROVE  Text(k, Borrowed(lang, R[id])) = table[id]
    <3>. DEFINE s == Borrowed(lang, R[id])
                text == table[id]
                t == [i \in 1..s.len |-> IF s.at + i - 1 <= Len(file) THEN file[s.at + i - 1] ELSE Nul]
    <3>1. s.home = lang /\ s.at = R[id].at /\ s.len = R[id].len
      BY DEF Borrowed
    <3>. HIDE DEF s
    <3>2. Text(k, s) = t
      BY <2>2, <3>1 DEF Text
    <3>3. text \in Seq(Int)
      BY <2>2 DEF TableOK
    <3>. HIDE DEF file, table, text
    <3>4. s.len = Len(text) /\ \A j \in 1..Len(text) : s.at + j - 1 \in 1..Len(file)
                                                      /\ file[s.at + j - 1] = text[j]
      BY <2>4, <3>1 DEF text
    <3>5. \A j \in 1..Len(text) : s.at + j - 1 <= Len(file)
      BY <2>6, <3>4
    <3>6. t = [i \in 1..Len(text) |-> text[i]]
      BY <3>4, <3>5
    <3>7. text = [i \in 1..Len(text) |-> text[i]]
      BY <3>3
    <3>. QED
      BY <3>2, <3>6, <3>7 DEF s, text
  <2>8. table = [id \in DOMAIN table |-> table[id]]
    BY <2>2 DEF TableOK
  <2>. DEFINE open == Opened(lang, k)
  <2>9. DOMAIN open = DOMAIN table /\ \A id \in DOMAIN table : open[id] = Borrowed(lang, R[id])
    BY <2>4, <2>5
  <2>. HIDE DEF open, table, file
  <2>10. Contents(open, k) = [id \in DOMAIN table |-> Text(k, open[id])]
    BY <2>9 DEF Contents
  <2>11. Contents(open, k) = [id \in DOMAIN table |-> table[id]]
    BY <2>7, <2>9, <2>10
  <2>. QED
    BY <1>1, <1>3, <2>8, <2>11 DEF open, table, file
<1>. QED
  BY <1>2, <1>3

\* A table that opens is one that was stored as a whole, wherever a save of it
\* was cut off: what was not written out is refused, never read as less.
THEOREM TablesAreWhole == Spec => OpenedTablesAreWhole
<1>. DEFINE Whole ==
        event'.op = "opened" =>
          \A k \in Kinds :
             LET table == stored[event'.lang][k]
             IN  Representable(k, table) =>
                     Contents(sets'[event'.set][k], k) =
                         IF files[event'.lang][k] = Absent THEN NoEntries ELSE table
<1>1. WritesInv /\ [Next]_vars => [Whole]_vars
  <2>. SUFFICES ASSUME WritesInv, Next, event'.op = "opened" PROVE Whole
    BY DEF vars
  <2>1. ASSUME NEW h \in Handles, NEW lang \in Languages, Open(h, lang) PROVE Whole
    <3>1. event'.lang = lang /\ event'.set = h
      BY <2>1 DEF Open, Event
    <3>. QED
      BY <2>1, <3>1, OpenedReadsAsStored
  <2>2. ASSUME NEW reason, Dead(reason), reason # "opened" PROVE FALSE
    BY <2>2 DEF Dead, Event
  <2>3. PICK h \in Handles, lang \in Languages : Open(h, lang)
    BY <2>2 DEF Next, OpenFails, SaveStarts, Edit, Drop, CloneFaults, Clone, CreateFile,
                BuildImage, Fault, Killed, WriteCell, SaveFails, Event, Quiet
  <2>. QED
    BY <2>1, <2>3
<1>. QED
  BY <1>1, WritesInitInv, WritesStepKeepsInv, PTL DEF Spec, OpenedTablesAreWhole

=============================================================================
