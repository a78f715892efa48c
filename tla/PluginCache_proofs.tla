------------------------- MODULE PluginCache_proofs -------------------------
(***************************************************************************)
(* Proofs about LoadOrder, PluginCache and LightLoad for every set of      *)
(* plugins, names and drafts, and every size of the index and slot spaces. *)
(***************************************************************************)
EXTENDS LightLoad, Eslify_proofs

(***************************************************************************)
(* THE LOAD ORDER                                                          *)
(***************************************************************************)

(***************************************************************************)
(* The inductive invariant: the indices given out are those below the      *)
(* counters, and the slot table is the inverse of the entries' slots.      *)
(***************************************************************************)
Inv ==
    /\ entries \in Seq(Entries)
    /\ regularIndex \in 0..EslFile
    /\ lightSlotCounter \in 0..LightSlots
    /\ byLightSlot \in [0..(lightSlotCounter - 1) -> 1..Len(entries)]
    /\ \A i \in Regulars : entries[i].index < regularIndex /\ entries[i].slot = NoSlot
    /\ \A i, j \in Regulars : i # j => entries[i].index # entries[j].index
    /\ \A i \in Lights : entries[i].index = EslFile
    /\ SlotTableMatchesEntries

\* A number below the limit of its width is not changed by the cast.
LEMMA NoWrapAround == \A n, m \in Nat : n < m => n % m = n
OBVIOUS

\* The empty load order satisfies the invariant.
LEMMA InitInv == InitLoadOrder => Inv
BY LoadOrderAssumption, FormIdAssumption
   DEF InitLoadOrder, Inv, Regulars, Lights, SlotTableMatchesEntries, EmptyTable

\* A light plugin takes the next slot, which nobody has.
LEMMA LightPushKeepsInv ==
    ASSUME Inv, NEW name \in Names, PushLight(name)
    PROVE  Inv'
<1>1. lightSlotCounter' = lightSlotCounter + 1
  <2>1. lightSlotCounter' = (lightSlotCounter + 1) % U16 /\ lightSlotCounter < LightSlots
    BY DEF PushLight, HasFreeSlot
  <2>2. lightSlotCounter + 1 \in Nat /\ U16 \in Nat
    BY LoadOrderAssumption DEF Inv
  <2>3. lightSlotCounter + 1 < U16
    BY <2>1, LoadOrderAssumption DEF Inv
  <2>. QED
    BY <2>1, <2>2, <2>3, NoWrapAround
<1>2. entries' = Append(entries, [name |-> Lower[name], index |-> EslFile,
                                  kind |-> "Light", slot |-> lightSlotCounter])
  BY DEF PushLight, Append_
<1>3. byLightSlot' = Set(byLightSlot, lightSlotCounter, Len(entries) + 1)
  BY DEF PushLight, NextEntry
<1>4. regularIndex' = regularIndex /\ lightSlotCounter < LightSlots
  BY DEF PushLight, HasFreeSlot
<1>5. [name |-> Lower[name], index |-> EslFile, kind |-> "Light",
       slot |-> lightSlotCounter] \in Entries
  BY LoadOrderAssumption, FormIdAssumption DEF Inv, Entries, Kinds
<1>6. /\ entries' \in Seq(Entries)
      /\ Len(entries') = Len(entries) + 1
      /\ \A i \in 1..Len(entries) : entries'[i] = entries[i]
      /\ entries'[Len(entries) + 1].kind = "Light"
      /\ entries'[Len(entries) + 1].index = EslFile
      /\ entries'[Len(entries) + 1].slot = lightSlotCounter
  BY <1>2, <1>5 DEF Inv
<1>7. Regulars' = Regulars /\ Lights' = Lights \union {Len(entries) + 1}
  <2>1. Len(entries) \in Nat
    BY DEF Inv
  <2>2. Len(entries') = Len(entries) + 1
    BY <1>6
  <2>3. 1..Len(entries') = 1..Len(entries) \union {Len(entries) + 1}
    BY <2>1, <2>2
  <2>4. \A i \in 1..Len(entries) : entries'[i] = entries[i]
    BY <1>6
  <2>5. entries'[Len(entries) + 1].kind = "Light"
    BY <1>6
  <2>. QED
    BY <2>3, <2>4, <2>5 DEF Regulars, Lights, LightAt
<1>8. /\ byLightSlot' \in [0..lightSlotCounter -> 1..(Len(entries) + 1)]
      /\ \A s \in 0..(lightSlotCounter - 1) : byLightSlot'[s] = byLightSlot[s]
      /\ byLightSlot'[lightSlotCounter] = Len(entries) + 1
  BY <1>3 DEF Inv, Set
<1>9. Regulars \subseteq 1..Len(entries) /\ Lights \subseteq 1..Len(entries)
  BY DEF Regulars, Lights
<1>10. Len(entries) \in Nat /\ lightSlotCounter \in Nat
  BY LoadOrderAssumption DEF Inv
<1>11. DOMAIN byLightSlot' = DOMAIN byLightSlot \union {lightSlotCounter}
       /\ DOMAIN byLightSlot = 0..(lightSlotCounter - 1)
  BY <1>8, <1>10 DEF Inv
<1>12. \A i \in Lights' : entries'[i].slot \in DOMAIN byLightSlot'
                          /\ byLightSlot'[entries'[i].slot] = i
  <2>1. \A i \in Lights : /\ entries'[i] = entries[i]
                          /\ entries[i].slot \in DOMAIN byLightSlot
                          /\ byLightSlot[entries[i].slot] = i
    BY <1>6, <1>9 DEF Inv, SlotTableMatchesEntries
  <2>. QED
    BY <2>1, <1>6, <1>7, <1>8, <1>11
<1>13. \A s \in DOMAIN byLightSlot' :
          byLightSlot'[s] \in Lights' /\ entries'[byLightSlot'[s]].slot = s
  <2>1. \A s \in DOMAIN byLightSlot : /\ byLightSlot'[s] = byLightSlot[s]
                                      /\ byLightSlot[s] \in Lights
                                      /\ entries'[byLightSlot[s]] = entries[byLightSlot[s]]
                                      /\ entries[byLightSlot[s]].slot = s
    BY <1>6, <1>8, <1>9, <1>11 DEF Inv, SlotTableMatchesEntries
  <2>. QED
    BY <2>1, <1>6, <1>7, <1>8, <1>11
<1>14. SlotTableMatchesEntries'
  BY <1>12, <1>13 DEF SlotTableMatchesEntries
<1>15. lightSlotCounter' \in 0..LightSlots
       /\ byLightSlot' \in [0..(lightSlotCounter' - 1) -> 1..Len(entries')]
  <2>1. lightSlotCounter' - 1 = lightSlotCounter /\ lightSlotCounter' \in 0..LightSlots
    BY <1>1, <1>4, <1>10, LoadOrderAssumption
  <2>. QED
    BY <2>1, <1>6, <1>8
<1>16. \A i \in Regulars' \union Lights : entries'[i] = entries[i]
  BY <1>6, <1>7, <1>9
<1>17. \A i \in Regulars' : entries'[i].index < regularIndex' /\ entries'[i].slot = NoSlot
  BY <1>4, <1>7, <1>16 DEF Inv
<1>18. \A i, j \in Regulars' : i # j => entries'[i].index # entries'[j].index
  BY <1>7, <1>16 DEF Inv
<1>19. \A i \in Lights' : entries'[i].index = EslFile
  BY <1>6, <1>7, <1>16 DEF Inv
<1>. QED
  BY <1>4, <1>6, <1>14, <1>15, <1>17, <1>18, <1>19 DEF Inv

\* A regular plugin takes the next index, which nobody has.
LEMMA RegularPushKeepsInv ==
    ASSUME Inv, NEW name \in Names, NEW kind \in Kinds, kind # "Light",
           PushRegular(name, kind)
    PROVE  Inv'
<1>1. regularIndex' = regularIndex + 1 /\ regularIndex < EslFile
  <2>1. regularIndex' = (regularIndex + 1) % U8 /\ regularIndex < EslFile
    BY DEF PushRegular, HasFreeIndex
  <2>2. regularIndex + 1 \in Nat /\ U8 \in Nat
    BY LoadOrderAssumption, FormIdAssumption DEF Inv
  <2>3. regularIndex + 1 < U8
    BY <2>1, LoadOrderAssumption, FormIdAssumption DEF Inv
  <2>. QED
    BY <2>1, <2>2, <2>3, NoWrapAround
<1>2. entries' = Append(entries, [name |-> Lower[name], index |-> regularIndex,
                                  kind |-> kind, slot |-> NoSlot])
  BY DEF PushRegular, Append_
<1>3. lightSlotCounter' = lightSlotCounter /\ byLightSlot' = byLightSlot
  BY DEF PushRegular
<1>4. [name |-> Lower[name], index |-> regularIndex, kind |-> kind,
       slot |-> NoSlot] \in Entries
  BY LoadOrderAssumption DEF Inv, Entries, NoSlot
<1>5. /\ entries' \in Seq(Entries)
      /\ Len(entries') = Len(entries) + 1
      /\ \A i \in 1..Len(entries) : entries'[i] = entries[i]
      /\ entries'[Len(entries) + 1].kind = kind
      /\ entries'[Len(entries) + 1].index = regularIndex
      /\ entries'[Len(entries) + 1].slot = NoSlot
  BY <1>2, <1>4 DEF Inv
<1>6. Lights' = Lights /\ Regulars' = Regulars \union {Len(entries) + 1}
  <2>1. Len(entries) \in Nat
    BY DEF Inv
  <2>2. Len(entries') = Len(entries) + 1
    BY <1>5
  <2>3. 1..Len(entries') = 1..Len(entries) \union {Len(entries) + 1}
    BY <2>1, <2>2
  <2>4. \A i \in 1..Len(entries) : entries'[i] = entries[i]
    BY <1>5
  <2>5. entries'[Len(entries) + 1].kind # "Light"
    BY <1>5
  <2>. QED
    BY <2>3, <2>4, <2>5 DEF Regulars, Lights, LightAt
<1>7. Regulars \subseteq 1..Len(entries) /\ Lights \subseteq 1..Len(entries)
  BY DEF Regulars, Lights
<1>8. SlotTableMatchesEntries'
  <2>1. \A i \in Lights : /\ entries'[i] = entries[i]
                          /\ entries[i].slot \in DOMAIN byLightSlot
                          /\ byLightSlot[entries[i].slot] = i
    BY <1>5, <1>7 DEF Inv, SlotTableMatchesEntries
  <2>2. \A s \in DOMAIN byLightSlot : /\ byLightSlot[s] \in Lights
                                      /\ entries[byLightSlot[s]].slot = s
    BY DEF Inv, SlotTableMatchesEntries
  <2>3. \A s \in DOMAIN byLightSlot : entries'[byLightSlot[s]].slot = s
    BY <2>1, <2>2
  <2>4. \A i \in Lights' : entries'[i].slot \in DOMAIN byLightSlot'
                           /\ byLightSlot'[entries'[i].slot] = i
    BY <2>1, <1>3, <1>6
  <2>5. \A s \in DOMAIN byLightSlot' : /\ byLightSlot'[s] \in Lights'
                                       /\ entries'[byLightSlot'[s]].slot = s
    BY <2>2, <2>3, <1>3, <1>6
  <2>. QED
    BY <2>4, <2>5 DEF SlotTableMatchesEntries
<1>12. Len(entries) \in Nat /\ regularIndex \in Nat
       /\ \A i \in 1..Len(entries) : entries[i].index \in Nat
  <2>1. \A i \in 1..Len(entries) : entries[i] \in Entries
    BY DEF Inv
  <2>2. \A i \in 1..Len(entries) : entries[i].index \in Nat
    BY <2>1 DEF Entries
  <2>3. Len(entries) \in Nat /\ regularIndex \in Nat
    BY FormIdAssumption DEF Inv
  <2>. QED
    BY <2>2, <2>3
<1>13. /\ Len(entries) + 1 \notin Regulars
       /\ \A i \in Regulars : /\ entries'[i] = entries[i]
                              /\ entries[i].index \in Nat
                              /\ entries[i].index < regularIndex
  BY <1>5, <1>7, <1>12 DEF Inv
<1>9. byLightSlot' \in [0..(lightSlotCounter' - 1) -> 1..Len(entries')]
  <2>1. 1..Len(entries) \subseteq 1..Len(entries')
    BY <1>5, <1>12
  <2>2. byLightSlot \in [0..(lightSlotCounter - 1) -> 1..Len(entries)]
    BY DEF Inv
  <2>3. byLightSlot \in [0..(lightSlotCounter - 1) -> 1..Len(entries')]
    BY <2>1, <2>2
  <2>. QED
    BY <2>3, <1>3
<1>10. \A i \in Regulars' : entries'[i].index < regularIndex' /\ entries'[i].slot = NoSlot
  <2>1. \A i \in Regulars : entries'[i].index < regularIndex' /\ entries'[i].slot = NoSlot
    BY <1>1, <1>12, <1>13 DEF Inv
  <2>2. entries'[Len(entries) + 1].index < regularIndex'
        /\ entries'[Len(entries) + 1].slot = NoSlot
    BY <1>1, <1>5, <1>12
  <2>. QED
    BY <2>1, <2>2, <1>6
<1>11. \A i, j \in Regulars' : i # j => entries'[i].index # entries'[j].index
  <2>1. \A i, j \in Regulars : i # j => entries'[i].index # entries'[j].index
    BY <1>13 DEF Inv
  <2>2. \A i \in Regulars : entries'[i].index # entries'[Len(entries) + 1].index
    BY <1>5, <1>12, <1>13
  <2>. QED
    BY <2>1, <2>2, <1>6
<1>14. \A i \in Lights' : entries'[i].index = EslFile
  BY <1>5, <1>6, <1>7 DEF Inv
<1>15. regularIndex' \in 0..EslFile /\ lightSlotCounter' \in 0..LightSlots
  BY <1>1, <1>3, <1>12, FormIdAssumption DEF Inv
<1>16. entries' \in Seq(Entries)
  BY <1>5
<1>. QED
  BY <1>8, <1>9, <1>10, <1>11, <1>14, <1>15, <1>16 DEF Inv

Rejected == PushRejected("LightSlotOverflow") \/ PushRejected("LoadOrderIndexFull")

\* A refused push leaves the load order as it was.
LEMMA RejectedPushStutters ==
    Rejected => UNCHANGED <<entries, byName, regularIndex, lightSlotCounter, byLightSlot>>
BY DEF Rejected, PushRejected

\* Every push keeps the invariant.
LEMMA StepKeepsInv == Inv /\ [NextLoadOrder]_loadOrderVars => Inv'
<1>. SUFFICES ASSUME Inv, [NextLoadOrder]_loadOrderVars PROVE Inv'
  OBVIOUS
<1>1. CASE UNCHANGED loadOrderVars
  BY <1>1 DEF loadOrderVars, Inv, Regulars, Lights, LightAt, SlotTableMatchesEntries
<1>2. CASE NextLoadOrder
  <2>1. PICK name \in Names, kind \in Kinds : Push(name, kind)
    BY <1>2 DEF NextLoadOrder
  <2>2. CASE kind = "Light" /\ PushLight(name)
    BY <2>2, LightPushKeepsInv
  <2>3. CASE kind # "Light" /\ PushRegular(name, kind)
    BY <2>3, RegularPushKeepsInv
  <2>4. CASE Rejected
    BY <2>4, RejectedPushStutters
       DEF Inv, Regulars, Lights, LightAt, SlotTableMatchesEntries
  <2>. QED
    BY <2>1, <2>2, <2>3, <2>4 DEF Push, Rejected
<1>. QED
  BY <1>1, <1>2

\* The invariant holds in every reachable state.
THEOREM InvIsInvariant == SpecLoadOrder => []Inv
BY InitInv, StepKeepsInv, PTL DEF SpecLoadOrder

-----------------------------------------------------------------------------
(***************************************************************************)
(* No two regular plugins share a file index, none has the sentinel, and   *)
(* no two light plugins share a slot (LoadOrder::push).                    *)
(***************************************************************************)
LEMMA InvImpliesUnique == Inv => IndicesAreUnique
<1>. SUFFICES ASSUME Inv PROVE IndicesAreUnique
  OBVIOUS
<1>1. \A i \in Regulars : entries[i].index < EslFile /\ entries[i].slot = NoSlot
  <2>. SUFFICES ASSUME NEW i \in Regulars
               PROVE entries[i].index < EslFile /\ entries[i].slot = NoSlot
    OBVIOUS
  <2>1. entries[i] \in Entries
    BY DEF Inv, Regulars
  <2>. QED
    BY <2>1, FormIdAssumption DEF Inv, Entries
<1>2. \A i \in Lights : entries[i].index = EslFile
                        /\ entries[i].slot \in 0..(LightSlots - 1)
  BY LoadOrderAssumption DEF Inv, SlotTableMatchesEntries
<1>3. \A i, j \in Lights : i # j => entries[i].slot # entries[j].slot
  BY DEF Inv, SlotTableMatchesEntries
<1>. QED
  BY <1>1, <1>2, <1>3 DEF Inv, IndicesAreUnique

\* No two regular plugins share a file index, none takes the sentinel of light
\* plugins, and no two light plugins share a slot (LoadOrder::push).
THEOREM UniqueIndices == SpecLoadOrder => []IndicesAreUnique
BY InvIsInvariant, InvImpliesUnique, PTL

(***************************************************************************)
(* The slot table of LoadOrder is the inverse of the entries' slots.       *)
(***************************************************************************)
THEOREM SlotTable == SpecLoadOrder => []SlotTableMatchesEntries
<1>1. Inv => SlotTableMatchesEntries
  BY DEF Inv
<1>. QED
  BY InvIsInvariant, <1>1, PTL

(***************************************************************************)
(* Every index and every slot that push handed out names one plugin, and   *)
(* the slot table leads resolve to it.                                     *)
(***************************************************************************)
THEOREM Consistent == SpecLoadOrder => []LoadOrderIsConsistent
<1>1. IndicesAreUnique /\ SlotTableMatchesEntries => LoadOrderIsConsistent
  BY DEF LoadOrderIsConsistent
<1>. QED
  BY UniqueIndices, SlotTable, <1>1, PTL

(***************************************************************************)
(* A light slot never changes its owner, so a light FormID that resolves   *)
(* keeps resolving to the same plugin (LoadOrder::resolve).                *)
(***************************************************************************)
LEMMA StepKeepsOwners == Inv /\ [NextLoadOrder]_loadOrderVars => [SlotsKeepTheirOwners]_loadOrderVars
<1>. SUFFICES ASSUME Inv, NextLoadOrder PROVE SlotsKeepTheirOwners
  OBVIOUS
<1>1. PICK name \in Names, kind \in Kinds : Push(name, kind)
  BY DEF NextLoadOrder
<1>2. \A s \in DOMAIN byLightSlot : byLightSlot[s] \in 1..Len(entries)
  BY DEF Inv
<1>3. CASE PushLight(name)
  <2>1. \A i \in 1..Len(entries) : entries'[i] = entries[i]
    BY <1>3 DEF PushLight, Append_, Inv
  <2>2. \A s \in DOMAIN byLightSlot : s \in DOMAIN byLightSlot' /\ byLightSlot'[s] = byLightSlot[s]
    BY <1>3 DEF PushLight, Set, Inv
  <2>. QED
    BY <2>1, <2>2, <1>2 DEF SlotsKeepTheirOwners
<1>4. CASE PushRegular(name, kind)
  <2>1. \A i \in 1..Len(entries) : entries'[i] = entries[i]
    BY <1>4 DEF PushRegular, Append_, Inv
  <2>. QED
    BY <2>1, <1>2, <1>4 DEF SlotsKeepTheirOwners, PushRegular
<1>5. CASE Rejected
  BY <1>5, <1>2, RejectedPushStutters DEF SlotsKeepTheirOwners
<1>. QED
  BY <1>1, <1>3, <1>4, <1>5 DEF Push, Rejected

\* A light slot keeps its owner across every push (by_light_slot).
THEOREM StableResolution == SpecLoadOrder => ResolutionIsStable
<1>1. Inv /\ [NextLoadOrder]_loadOrderVars => [SlotsKeepTheirOwners]_loadOrderVars
  BY StepKeepsOwners
<1>. QED
  BY InvIsInvariant, <1>1, PTL DEF SpecLoadOrder, ResolutionIsStable

(***************************************************************************)
(* THE PLUGIN CACHE                                                        *)
(***************************************************************************)

(***************************************************************************)
(* Vec::retain: Without(list, g) keeps everything but g, once each.        *)
(***************************************************************************)
WithoutStep(list, g, f, n) ==
    IF n = 0 THEN <<>>
    ELSE IF list[n] = g THEN f[n - 1]
    ELSE Append(f[n - 1], list[n])

\* The recursion of Without has a solution, so Without is what it says.
LEMMA WithoutRecursion ==
    ASSUME NEW list, Len(list) \in Nat, NEW g
    PROVE  \E f : /\ f = [n \in 0..Len(list) |-> WithoutStep(list, g, f, n)]
                  /\ Without(list, g) = f[Len(list)]
<1>. DEFINE Good(f, m) == f = [n \in 0..m |-> WithoutStep(list, g, f, n)]
            T == {m \in Nat : \E f : Good(f, m)}
<1>1. 0 \in T
  <2>1. Good([n \in 0..0 |-> <<>>], 0)
    BY DEF WithoutStep
  <2>. QED
    BY <2>1
<1>2. ASSUME NEW m \in Nat, m \in T PROVE m + 1 \in T
  <2>1. PICK f : Good(f, m)
    BY <1>2
  <2>. DEFINE h == [n \in 0..(m + 1) |-> IF n = m + 1 THEN WithoutStep(list, g, f, n)
                                        ELSE f[n]]
  <2>2. \A n \in 0..(m + 1) : h[n] = WithoutStep(list, g, h, n)
    <3>1. \A n \in 0..m : f[n] = WithoutStep(list, g, f, n)
      BY <2>1
    <3>2. \A n \in 0..(m + 1) : n # 0 => n - 1 \in 0..m /\ h[n - 1] = f[n - 1]
      OBVIOUS
    <3>3. \A n \in 0..(m + 1) : WithoutStep(list, g, h, n) = WithoutStep(list, g, f, n)
      BY <3>2 DEF WithoutStep
    <3>. QED
      BY <3>1, <3>3
  <2>3. h = [n \in 0..(m + 1) |-> WithoutStep(list, g, h, n)]
    BY <2>2
  <2>4. \E ff : Good(ff, m + 1)
    <3>. HIDE DEF h
    <3>. QED
      BY <2>3, Zenon
  <2>. QED
    BY <2>4
<1>3. Len(list) \in T
  BY <1>1, <1>2, UpToInduction
<1>4. PICK f : Good(f, Len(list))
  BY <1>3
<1>. DEFINE up == CHOOSE v : v = [n \in 0..Len(list) |-> IF n = 0 THEN <<>>
                                    ELSE IF list[n] = g THEN v[n - 1]
                                    ELSE Append(v[n - 1], list[n])]
<1>5. up = [n \in 0..Len(list) |-> IF n = 0 THEN <<>>
                                    ELSE IF list[n] = g THEN up[n - 1]
                                    ELSE Append(up[n - 1], list[n])]
  BY <1>4, Zenon DEF WithoutStep
<1>6. Without(list, g) = up[Len(list)]
  BY DEF Without
<1>. QED
  BY <1>5, <1>6, Zenon DEF WithoutStep

\* Without removes all copies of one identifier and keeps the rest in order.
LEMMA WithoutMembers ==
    ASSUME NEW S, NEW list \in Seq(S), Injective(list), NEW g
    PROVE  /\ Without(list, g) \in Seq(S)
           /\ Injective(Without(list, g))
           /\ \A y : In(Without(list, g), y) <=> In(list, y) /\ y # g
<1>1. Len(list) \in Nat
  OBVIOUS
<1>2. PICK f : /\ f = [n \in 0..Len(list) |-> WithoutStep(list, g, f, n)]
               /\ Without(list, g) = f[Len(list)]
  BY <1>1, WithoutRecursion
<1>3. \A n \in 0..Len(list) : f[n] = WithoutStep(list, g, f, n)
  BY <1>2
<1>. DEFINE Earlier(n, y) == \E i \in 1..n : list[i] = y
            Good(n) == /\ f[n] \in Seq(S)
                       /\ Injective(f[n])
                       /\ \A y : In(f[n], y) <=> Earlier(n, y) /\ y # g
            T == {n \in 0..Len(list) : Good(n)}
<1>4. 0 \in T
  <2>1. f[0] = <<>>
    BY <1>1, <1>3 DEF WithoutStep
  <2>2. Good(0)
    BY <2>1 DEF In, Injective
  <2>. QED
    BY <2>2, <1>1
<1>5. ASSUME NEW n \in 0..(Len(list) - 1), n \in T PROVE n + 1 \in T
  <2>1. Good(n)
    BY <1>5
  <2>2. n + 1 \in 0..Len(list) /\ n + 1 \in 1..Len(list) /\ n + 1 # 0 /\ (n + 1) - 1 = n
    BY <1>1
  <2>3. f[n + 1] = IF list[n + 1] = g THEN f[n] ELSE Append(f[n], list[n + 1])
    BY <1>3, <2>2 DEF WithoutStep
  <2>4. list[n + 1] \in S
    BY <2>2
  <2>5. \A i \in 1..(n + 1) : i \in 1..n \/ i = n + 1
    BY <1>1
  <2>6. 1..n \subseteq 1..(n + 1) /\ n + 1 \in 1..(n + 1) /\ 1..n \subseteq 1..Len(list)
        /\ n + 1 \notin 1..n
    BY <1>1
  <2>7. \A y : Earlier(n + 1, y) <=> Earlier(n, y) \/ y = list[n + 1]
    BY <2>5, <2>6
  <2>8. ~Earlier(n, list[n + 1])
    BY <2>2, <2>6 DEF Injective
  <2>. HIDE DEF Earlier
  <2>9. CASE list[n + 1] = g
    BY <2>1, <2>2, <2>3, <2>7, <2>9
  <2>10. CASE list[n + 1] # g
    <3>1. f[n + 1] = Append(f[n], list[n + 1])
      BY <2>3, <2>10
    <3>2. ~In(f[n], list[n + 1])
      BY <2>1, <2>8
    <3>3. /\ f[n + 1] \in Seq(S)
          /\ \A y : In(f[n + 1], y) <=> In(f[n], y) \/ y = list[n + 1]
          /\ Injective(f[n + 1])
      BY <2>1, <2>4, <3>1, <3>2, AppendMembers
    <3>. QED
      BY <2>1, <2>2, <2>7, <2>10, <3>3
  <2>. QED
    BY <2>9, <2>10
<1>6. Good(Len(list))
  <2>. HIDE DEF Good
  <2>1. \A n \in 0..Len(list) : n \in T
    <3>. HIDE DEF T
    <3>. QED
      BY <1>1, <1>4, <1>5, UpToInduction
  <2>. QED
    BY <1>1, <2>1
<1>. QED
  BY <1>2, <1>6 DEF In

(***************************************************************************)
(* The indexing loop.  IndexUpTo is what its definition says.              *)
(***************************************************************************)
IndexStep(entry, first, triples, f, n) ==
    IF n = 0 THEN first
    ELSE IF triples[n].global = None THEN f[n - 1]
    ELSE Index(entry, f[n - 1], triples[n])

\* The indexing loop satisfies its own recursion.
LEMMA IndexRecursion ==
    ASSUME NEW entry, NEW first, NEW triples, Len(triples) \in Nat
    PROVE  IndexUpTo(entry, first, triples) =
             [n \in 0..Len(triples) |->
                 IndexStep(entry, first, triples, IndexUpTo(entry, first, triples), n)]
<1>. DEFINE Good(f, m) == f = [n \in 0..m |-> IndexStep(entry, first, triples, f, n)]
            T == {m \in Nat : \E f : Good(f, m)}
<1>1. 0 \in T
  <2>1. Good([n \in 0..0 |-> first], 0)
    BY DEF IndexStep
  <2>. QED
    BY <2>1
<1>2. ASSUME NEW m \in Nat, m \in T PROVE m + 1 \in T
  <2>1. PICK f : Good(f, m)
    BY <1>2
  <2>. DEFINE h == [n \in 0..(m + 1) |-> IF n = m + 1 THEN IndexStep(entry, first, triples, f, n)
                                        ELSE f[n]]
  <2>2. \A n \in 0..(m + 1) : h[n] = IndexStep(entry, first, triples, h, n)
    <3>1. \A n \in 0..m : f[n] = IndexStep(entry, first, triples, f, n)
      BY <2>1
    <3>2. \A n \in 0..(m + 1) : n # 0 => n - 1 \in 0..m /\ h[n - 1] = f[n - 1]
      OBVIOUS
    <3>3. \A n \in 0..(m + 1) :
             IndexStep(entry, first, triples, h, n) = IndexStep(entry, first, triples, f, n)
      <4>. HIDE DEF h
      <4>. QED
        BY <3>2 DEF IndexStep
    <3>. QED
      BY <3>1, <3>3
  <2>3. h = [n \in 0..(m + 1) |-> IndexStep(entry, first, triples, h, n)]
    BY <2>2
  <2>4. \E ff : Good(ff, m + 1)
    <3>. HIDE DEF h
    <3>. QED
      BY <2>3, Zenon
  <2>. QED
    BY <2>4
<1>3. Len(triples) \in T
  BY <1>1, <1>2, UpToInduction
<1>4. PICK f : Good(f, Len(triples))
  BY <1>3
<1>. DEFINE up == CHOOSE ff : ff = [n \in 0..Len(triples) |->
                                      IF n = 0 THEN first
                                      ELSE IF triples[n].global = None THEN ff[n - 1]
                                      ELSE Index(entry, ff[n - 1], triples[n])]
<1>5. up = [n \in 0..Len(triples) |-> IF n = 0 THEN first
                                      ELSE IF triples[n].global = None THEN up[n - 1]
                                      ELSE Index(entry, up[n - 1], triples[n])]
  BY <1>4, Zenon DEF IndexStep
<1>6. IndexUpTo(entry, first, triples) = up
  BY Zenon DEF IndexUpTo
<1>. QED
  BY <1>5, <1>6, Zenon DEF IndexStep

(***************************************************************************)
(* The relation of the two indices that the loop keeps: every list is free *)
(* of duplicates and holds records of its signature, and every record is   *)
(* in the list of its own.                                                 *)
(***************************************************************************)
ListsMatch(global, sigs) ==
    /\ \A s \in DOMAIN sigs :
          /\ sigs[s] \in Seq(DOMAIN global)
          /\ Injective(sigs[s])
          /\ \A g : In(sigs[s], g) => global[g].sig = s
    /\ \A g \in DOMAIN global : /\ global[g].sig \in DOMAIN sigs
                                /\ In(sigs[global[g].sig], g)

Cleaned(global, sigs, g) ==
    IF g \in DOMAIN global
    THEN Set(sigs, global[g].sig, Without(sigs[global[g].sig], g))
    ELSE sigs

\* A record that changes hands leaves the list of its old type.
LEMMA CleanedLists ==
    ASSUME NEW global, NEW sigs, ListsMatch(global, sigs), NEW g
    PROVE  /\ DOMAIN Cleaned(global, sigs, g) = DOMAIN sigs
           /\ \A s \in DOMAIN sigs :
                 /\ Cleaned(global, sigs, g)[s] \in Seq(DOMAIN global)
                 /\ Injective(Cleaned(global, sigs, g)[s])
                 /\ \A y : In(Cleaned(global, sigs, g)[s], y) <=> In(sigs[s], y) /\ y # g
<1>1. CASE g \notin DOMAIN global
  <2>1. Cleaned(global, sigs, g) = sigs
    BY <1>1 DEF Cleaned
  <2>2. \A s \in DOMAIN sigs : \A y : In(sigs[s], y) => y \in DOMAIN global
    BY DEF ListsMatch, In
  <2>3. \A s \in DOMAIN sigs : \A y : In(sigs[s], y) => y # g
    BY <1>1, <2>2
  <2>. QED
    BY <2>1, <2>3 DEF ListsMatch
<1>2. CASE g \in DOMAIN global
  <2>. DEFINE old == global[g].sig
              new == Without(sigs[old], g)
  <2>1. old \in DOMAIN sigs
    BY <1>2 DEF ListsMatch
  <2>2. sigs[old] \in Seq(DOMAIN global) /\ Injective(sigs[old])
    BY <2>1 DEF ListsMatch
  <2>3. /\ new \in Seq(DOMAIN global)
        /\ Injective(new)
        /\ \A y : In(new, y) <=> In(sigs[old], y) /\ y # g
    BY <2>2, WithoutMembers
  <2>4. Cleaned(global, sigs, g) = Set(sigs, old, new)
    BY <1>2 DEF Cleaned
  <2>. HIDE DEF new
  <2>5. \A s \in DOMAIN sigs : s # old => \A y : In(sigs[s], y) => y # g
    BY DEF ListsMatch
  <2>. HIDE DEF old
  <2>6. /\ DOMAIN Cleaned(global, sigs, g) = DOMAIN sigs
        /\ Cleaned(global, sigs, g)[old] = new
        /\ \A s \in DOMAIN sigs : s # old => Cleaned(global, sigs, g)[s] = sigs[s]
    <3>1. DOMAIN sigs \union {old} = DOMAIN sigs
      BY <2>1
    <3>2. DOMAIN Set(sigs, old, new) = DOMAIN sigs \union {old}
      BY DEF Set
    <3>3. Set(sigs, old, new)[old] = new
      BY DEF Set
    <3>4. \A s \in DOMAIN sigs : s # old => Set(sigs, old, new)[s] = sigs[s]
      BY DEF Set
    <3>. QED
      BY <2>4, <3>1, <3>2, <3>3, <3>4
  <2>. QED
    BY <2>3, <2>5, <2>6 DEF ListsMatch
<1>. QED
  BY <1>1, <1>2

\* What indexing one record does to both indices.
LEMMA IndexValue ==
    ASSUME NEW entry, NEW index, NEW t
    PROVE  /\ Index(entry, index, t).global =
                 Set(index.global, t.global, [entry |-> entry, raw |-> t.raw, sig |-> t.sig])
           /\ Index(entry, index, t).sigs =
                 LET clean == Cleaned(index.global, index.sigs, t.global)
                 IN  Set(clean, t.sig, Append(ListOf(clean, t.sig), t.global))
BY DEF Index, Cleaned

\* Indexing one record keeps the type lists in step with the winners.
LEMMA IndexKeepsLists ==
    ASSUME NEW entry, NEW index, NEW t, ListsMatch(index.global, index.sigs)
    PROVE  ListsMatch(Index(entry, index, t).global, Index(entry, index, t).sigs)
<1>. DEFINE global == index.global
            sigs   == index.sigs
            g      == t.global
            clean  == Cleaned(global, sigs, g)
            list   == ListOf(clean, t.sig)
            won    == [entry |-> entry, raw |-> t.raw, sig |-> t.sig]
            global2 == Set(global, g, won)
            sigs2   == Set(clean, t.sig, Append(list, g))
            D == DOMAIN global \union {g}
<1>1. Index(entry, index, t).global = global2 /\ Index(entry, index, t).sigs = sigs2
  BY IndexValue
<1>2. /\ DOMAIN clean = DOMAIN sigs
      /\ \A s \in DOMAIN sigs : /\ clean[s] \in Seq(DOMAIN global)
                                /\ Injective(clean[s])
                                /\ \A y : In(clean[s], y) <=> In(sigs[s], y) /\ y # g
  BY CleanedLists
<1>3. /\ DOMAIN global2 = D
      /\ global2[g].sig = t.sig
      /\ \A y \in DOMAIN global : y # g => global2[y] = global[y]
  BY DEF Set
<1>. HIDE DEF clean
<1>4. /\ DOMAIN sigs2 = DOMAIN sigs \union {t.sig}
      /\ sigs2[t.sig] = Append(list, g)
      /\ \A s \in DOMAIN sigs : s # t.sig => sigs2[s] = clean[s]
  BY <1>2 DEF Set
<1>5. /\ list \in Seq(DOMAIN global)
      /\ Injective(list)
      /\ \A y : In(list, y) <=> t.sig \in DOMAIN sigs /\ In(sigs[t.sig], y) /\ y # g
  <2>1. CASE t.sig \in DOMAIN sigs
    <3>1. list = clean[t.sig]
      BY <2>1, <1>2 DEF ListOf
    <3>. HIDE DEF list, sigs, global, g
    <3>. QED
      BY <2>1, <3>1, <1>2
  <2>2. CASE t.sig \notin DOMAIN sigs
    <3>1. list = <<>>
      BY <2>2, <1>2 DEF ListOf
    <3>2. Len(<<>>) = 0 /\ <<>> \in Seq(DOMAIN global)
      OBVIOUS
    <3>. HIDE DEF list, sigs, global, g
    <3>. QED
      BY <2>2, <3>1, <3>2 DEF In, Injective
  <2>. QED
    BY <2>1, <2>2
<1>6. \A s \in DOMAIN sigs : \A y : In(sigs[s], y) => y \in DOMAIN global /\ global[y].sig = s
  BY DEF ListsMatch, In
<1>. HIDE DEF global, sigs, list, won, global2, sigs2
<1>7. Seq(DOMAIN global) \subseteq Seq(D)
  OBVIOUS
<1>8. /\ Append(list, g) \in Seq(D)
      /\ Injective(Append(list, g))
      /\ \A y : In(Append(list, g), y) <=> In(list, y) \/ y = g
  <2>1. list \in Seq(D) /\ g \in D
    BY <1>5, <1>7
  <2>2. ~In(list, g)
    BY <1>5
  <2>. QED
    BY <2>1, <2>2, <1>5, AppendMembers
<1>. HIDE DEF D
<1>9. \A s \in DOMAIN sigs2 :
         /\ sigs2[s] \in Seq(D)
         /\ Injective(sigs2[s])
         /\ \A y : In(sigs2[s], y) => global2[y].sig = s
  <2>1. \A y : In(sigs2[t.sig], y) => global2[y].sig = t.sig
    BY <1>3, <1>4, <1>5, <1>6, <1>8
  <2>2. \A s \in DOMAIN sigs : s # t.sig => \A y : In(sigs2[s], y) => global2[y].sig = s
    BY <1>2, <1>3, <1>4, <1>6
  <2>3. \A s \in DOMAIN sigs : s # t.sig => sigs2[s] \in Seq(D) /\ Injective(sigs2[s])
    BY <1>2, <1>4, <1>7
  <2>. QED
    BY <1>4, <1>8, <2>1, <2>2, <2>3
<1>10. ASSUME NEW y \in D PROVE global2[y].sig \in DOMAIN sigs2 /\ In(sigs2[global2[y].sig], y)
  <2>1. CASE y = g
    BY <2>1, <1>3, <1>4, <1>8
  <2>2. CASE y # g
    <3>1. y \in DOMAIN global /\ global2[y] = global[y]
      BY <1>3, <2>2 DEF D
    <3>2. global[y].sig \in DOMAIN sigs /\ In(sigs[global[y].sig], y)
      BY <3>1 DEF ListsMatch, global, sigs
    <3>3. CASE global[y].sig = t.sig
      BY <2>2, <3>1, <3>2, <3>3, <1>4, <1>5, <1>8
    <3>4. CASE global[y].sig # t.sig
      BY <2>2, <3>1, <3>2, <3>4, <1>2, <1>4
    <3>. QED
      BY <3>3, <3>4
  <2>. QED
    BY <2>1, <2>2
<1>11. ListsMatch(global2, sigs2)
  BY <1>3, <1>9, <1>10 DEF ListsMatch
<1>. QED
  BY <1>1, <1>11

\* What the loop has done after n triples: nothing is forgotten, a winner is
\* the old one or one of the triples, and every triple wins.
Taken(entry, first, triples, index, n) ==
    /\ DOMAIN first.global \subseteq DOMAIN index.global
    /\ \A g \in DOMAIN index.global :
          \/ g \in DOMAIN first.global /\ index.global[g] = first.global[g]
          \/ \E k \in 1..n : /\ triples[k].global = g /\ g # None
                             /\ index.global[g].entry = entry
                             /\ index.global[g].raw = triples[k].raw
    /\ \A k \in 1..n :
          triples[k].global # None =>
             /\ triples[k].global \in DOMAIN index.global
             /\ index.global[triples[k].global].entry = entry

\* Indexing one record makes it win.
LEMMA IndexTakes ==
    ASSUME NEW entry, NEW first, NEW triples, NEW index, NEW n \in Nat,
           Taken(entry, first, triples, index, n),
           triples[n + 1].global # None
    PROVE  Taken(entry, first, triples, Index(entry, index, triples[n + 1]), n + 1)
<1>. DEFINE t == triples[n + 1]
            g == t.global
            new == Index(entry, index, t)
<1>1. new.global = Set(index.global, g, [entry |-> entry, raw |-> t.raw, sig |-> t.sig])
  BY IndexValue
<1>2. /\ DOMAIN new.global = DOMAIN index.global \union {g}
      /\ new.global[g].entry = entry /\ new.global[g].raw = t.raw
      /\ \A y \in DOMAIN index.global : y # g => new.global[y] = index.global[y]
  <2>. HIDE DEF new, g
  <2>. QED
    BY <1>1 DEF Set
<1>3. /\ \A k \in 1..(n + 1) : k \in 1..n \/ k = n + 1
      /\ 1..n \subseteq 1..(n + 1) /\ n + 1 \in 1..(n + 1)
  OBVIOUS
<1>. HIDE DEF new
<1>4. DOMAIN first.global \subseteq DOMAIN new.global
  BY <1>2 DEF Taken
<1>5. ASSUME NEW y \in DOMAIN new.global
      PROVE  \/ y \in DOMAIN first.global /\ new.global[y] = first.global[y]
             \/ \E k \in 1..(n + 1) : /\ triples[k].global = y /\ y # None
                                      /\ new.global[y].entry = entry
                                      /\ new.global[y].raw = triples[k].raw
  <2>1. CASE y = g
    BY <2>1, <1>2, <1>3
  <2>2. CASE y # g
    <3>1. y \in DOMAIN index.global /\ new.global[y] = index.global[y]
      BY <1>2, <2>2
    <3>. QED
      BY <3>1, <1>3 DEF Taken
  <2>. QED
    BY <2>1, <2>2
<1>6. ASSUME NEW k \in 1..(n + 1), triples[k].global # None
      PROVE  /\ triples[k].global \in DOMAIN new.global
             /\ new.global[triples[k].global].entry = entry
  <2>1. CASE triples[k].global = g
    BY <2>1, <1>2
  <2>2. CASE triples[k].global # g
    <3>1. k \in 1..n
      BY <2>2, <1>3
    <3>. QED
      BY <2>2, <3>1, <1>2, <1>6 DEF Taken
  <2>. QED
    BY <2>1, <2>2
<1>. QED
  BY <1>4, <1>5, <1>6 DEF Taken, new

\* After the loop every record of the plugin has won, and the lists fit.
LEMMA LoopTakes ==
    ASSUME NEW entry, NEW first, NEW triples, Len(triples) \in Nat,
           ListsMatch(first.global, first.sigs)
    PROVE  LET index == IndexUpTo(entry, first, triples)[Len(triples)]
           IN  /\ ListsMatch(index.global, index.sigs)
               /\ Taken(entry, first, triples, index, Len(triples))
<1>. DEFINE f == IndexUpTo(entry, first, triples)
            Good(n) == /\ ListsMatch(f[n].global, f[n].sigs)
                       /\ Taken(entry, first, triples, f[n], n)
            T == {n \in 0..Len(triples) : Good(n)}
<1>1. \A n \in 0..Len(triples) : f[n] = IndexStep(entry, first, triples, f, n)
  <2>1. f = [n \in 0..Len(triples) |-> IndexStep(entry, first, triples, f, n)]
    BY IndexRecursion
  <2>. HIDE DEF f
  <2>. QED
    BY <2>1
<1>. HIDE DEF f
<1>2. 0 \in T
  <2>1. f[0] = first
    BY <1>1 DEF IndexStep
  <2>2. Taken(entry, first, triples, first, 0)
    BY DEF Taken
  <2>. QED
    BY <2>1, <2>2
<1>3. ASSUME NEW n \in 0..(Len(triples) - 1), n \in T PROVE n + 1 \in T
  <2>1. n + 1 \in 0..Len(triples) /\ n + 1 # 0 /\ (n + 1) - 1 = n /\ n \in Nat
    OBVIOUS
  <2>2. f[n + 1] = IF triples[n + 1].global = None THEN f[n]
                   ELSE Index(entry, f[n], triples[n + 1])
    BY <1>1, <2>1 DEF IndexStep
  <2>3. CASE triples[n + 1].global = None
    <3>1. \A k \in 1..(n + 1) : k \in 1..n \/ k = n + 1
      OBVIOUS
    <3>2. 1..n \subseteq 1..(n + 1)
      OBVIOUS
    <3>3. Taken(entry, first, triples, f[n], n + 1)
      BY <1>3, <2>3, <3>1, <3>2 DEF Taken
    <3>. QED
      BY <1>3, <2>1, <2>2, <2>3, <3>3
  <2>4. CASE triples[n + 1].global # None
    <3>1. f[n + 1] = Index(entry, f[n], triples[n + 1])
      BY <2>2, <2>4
    <3>2. ListsMatch(f[n + 1].global, f[n + 1].sigs)
      BY <1>3, <3>1, IndexKeepsLists
    <3>3. Taken(entry, first, triples, f[n + 1], n + 1)
      BY <1>3, <2>1, <2>4, <3>1, IndexTakes
    <3>. QED
      BY <2>1, <3>2, <3>3
  <2>. QED
    BY <2>3, <2>4
<1>4. \A n \in 0..Len(triples) : n \in T
  <2>. HIDE DEF T
  <2>. QED
    BY <1>2, <1>3, UpToInduction
<1>. QED
  BY <1>4 DEF f

(***************************************************************************)
(* Resolution in an explicit load order.  It only depends on the names of  *)
(* the plugins and the slots, and a push moves neither.                    *)
(***************************************************************************)
ResolveIn(ents, slots, form, source, masters) ==
    IF form.file = EslFile
    THEN IF EslSlot(form) \in DOMAIN slots
         THEN GlobalFormId(ents[slots[EslSlot(form)]].name, EslObject(form))
         ELSE None
    ELSE ResolveRegular(form, source, masters)

OwnerIn(slots, form, i) ==
    form.file = EslFile =>
        EslSlot(form) \in DOMAIN slots /\ slots[EslSlot(form)] <= i

\* Resolution, with the load order it uses made explicit.
LEMMA ResolveIsResolveIn ==
    ASSUME NEW form, NEW source, NEW masters
    PROVE  /\ Resolve(form, source, masters) =
                 ResolveIn(entries, byLightSlot, form, source, masters)
           /\ Resolve(form, source, masters)' =
                 ResolveIn(entries', byLightSlot', form, source, masters)
BY DEF Resolve, ResolveIn, ResolveLight, ResolveRegular

\* What a push does to the load order as far as resolution is concerned.
Grows(name) ==
    /\ Len(entries') = Len(entries) + 1
    /\ entries'[Len(entries) + 1].name = Lower[name]
    /\ \A i \in 1..Len(entries) : entries'[i] = entries[i]
    /\ \A s \in DOMAIN byLightSlot :
          /\ s \in DOMAIN byLightSlot'
          /\ byLightSlot'[s] = byLightSlot[s]
          /\ entries'[byLightSlot[s]] = entries[byLightSlot[s]]
    /\ \A s \in DOMAIN byLightSlot' \ DOMAIN byLightSlot : byLightSlot'[s] = Len(entries) + 1

\* A push changes the resolution of no FormID that resolved before.
LEMMA PushGrows ==
    ASSUME Inv, NEW name \in Names, NEW kind \in Kinds, Push(name, kind), pushed' = "ok"
    PROVE  Grows(name)
<1>1. \A s \in DOMAIN byLightSlot : byLightSlot[s] \in 1..Len(entries)
  BY DEF Inv
<1>2. entries \in Seq(Entries)
  BY DEF Inv
<1>3. CASE PushLight(name)
  <2>. DEFINE new == [name |-> Lower[name], index |-> EslFile, kind |-> "Light",
                      slot |-> lightSlotCounter]
  <2>1. entries' = Append(entries, new)
    BY <1>3 DEF PushLight, Append_
  <2>2. byLightSlot' = Set(byLightSlot, lightSlotCounter, Len(entries) + 1)
    BY <1>3 DEF PushLight, NextEntry
  <2>3. DOMAIN byLightSlot = 0..(lightSlotCounter - 1) /\ lightSlotCounter \in Nat
    BY LoadOrderAssumption DEF Inv
  <2>4. /\ Len(entries') = Len(entries) + 1
        /\ \A i \in 1..Len(entries) : entries'[i] = entries[i]
        /\ entries'[Len(entries) + 1] = new
    <3>. HIDE DEF new
    <3>. QED
      BY <1>2, <2>1
  <2>5. /\ DOMAIN byLightSlot' = DOMAIN byLightSlot \union {lightSlotCounter}
        /\ byLightSlot'[lightSlotCounter] = Len(entries) + 1
        /\ \A s \in DOMAIN byLightSlot : s # lightSlotCounter /\ byLightSlot'[s] = byLightSlot[s]
    BY <2>2, <2>3 DEF Set
  <2>6. new.name = Lower[name]
    OBVIOUS
  <2>. HIDE DEF new
  <2>7. \A s \in DOMAIN byLightSlot :
           /\ s \in DOMAIN byLightSlot'
           /\ byLightSlot'[s] = byLightSlot[s]
           /\ entries'[byLightSlot[s]] = entries[byLightSlot[s]]
    BY <1>1, <2>4, <2>5
  <2>8. \A s \in DOMAIN byLightSlot' \ DOMAIN byLightSlot : byLightSlot'[s] = Len(entries) + 1
    BY <2>5
  <2>9. entries'[Len(entries) + 1].name = Lower[name]
    BY <2>4, <2>6
  <2>. QED
    BY <2>4, <2>7, <2>8, <2>9 DEF Grows
<1>4. CASE PushRegular(name, kind)
  <2>. DEFINE new == [name |-> Lower[name], index |-> regularIndex, kind |-> kind,
                      slot |-> NoSlot]
  <2>1. entries' = Append(entries, new) /\ byLightSlot' = byLightSlot
    BY <1>4 DEF PushRegular, Append_
  <2>2. /\ Len(entries') = Len(entries) + 1
        /\ \A i \in 1..Len(entries) : entries'[i] = entries[i]
        /\ entries'[Len(entries) + 1] = new
    <3>. HIDE DEF new
    <3>. QED
      BY <1>2, <2>1
  <2>. QED
    BY <1>1, <2>1, <2>2 DEF Grows
<1>. QED
  BY <1>3, <1>4 DEF Push, PushRejected

\* A refused push leaves the load order as it was.
LEMMA RefusedPush ==
    ASSUME NEW name, NEW kind, Push(name, kind), pushed' # "ok"
    PROVE  UNCHANGED <<entries, byName, regularIndex, lightSlotCounter, byLightSlot>>
BY DEF Push, PushLight, PushRegular, Append_, PushRejected

\* What has an owner keeps it, and what gets one had none before.
LEMMA GrowthKeepsOwners ==
    ASSUME Inv, NEW name, Grows(name), NEW form, NEW source, NEW masters
    PROVE  /\ ResolveIn(entries, byLightSlot, form, source, masters) # None =>
                 ResolveIn(entries', byLightSlot', form, source, masters) =
                    ResolveIn(entries, byLightSlot, form, source, masters)
           /\ \A i \in 1..Len(entries) :
                 OwnerIn(byLightSlot', form, i) =>
                    /\ OwnerIn(byLightSlot, form, i)
                    /\ ResolveIn(entries', byLightSlot', form, source, masters) =
                          ResolveIn(entries, byLightSlot, form, source, masters)
<1>1. CASE form.file # EslFile
  BY <1>1 DEF ResolveIn, OwnerIn
<1>2. CASE form.file = EslFile
  <2>. DEFINE s == EslSlot(form)
  <2>1. s \in DOMAIN byLightSlot =>
          ResolveIn(entries', byLightSlot', form, source, masters) =
             ResolveIn(entries, byLightSlot, form, source, masters)
    BY <1>2 DEF ResolveIn, Grows
  <2>2. s \notin DOMAIN byLightSlot => ResolveIn(entries, byLightSlot, form, source, masters) = None
    BY <1>2 DEF ResolveIn
  <2>3. ASSUME NEW i \in 1..Len(entries), OwnerIn(byLightSlot', form, i)
        PROVE  OwnerIn(byLightSlot, form, i) /\ s \in DOMAIN byLightSlot
    <3>1. s \in DOMAIN byLightSlot' /\ byLightSlot'[s] <= i
      BY <1>2, <2>3 DEF OwnerIn
    <3>2. Len(entries) \in Nat
      BY DEF Inv
    <3>3. s \in DOMAIN byLightSlot
      BY <3>1, <3>2 DEF Grows
    <3>. QED
      BY <3>1, <3>3 DEF Grows, OwnerIn
  <2>. HIDE DEF s
  <2>. QED
    BY <2>1, <2>2, <2>3
<1>. QED
  BY <1>1, <1>2

(***************************************************************************)
(* The inductive invariant of the cache, with its state as arguments.      *)
(***************************************************************************)
WellFormed(S) ==
    \A p \in S : p.kind \in Kinds /\ p.records \in Seq(ToSet(p.records))

RecordsAt(list, i) == list[i].plugin.records

\* A winner is a record of its plugin that still resolves to its FormID.
Found(ents, slots, list, global) ==
    \A g \in DOMAIN global :
        LET i == global[g].entry
        IN  /\ g # None /\ ~IsNull(global[g].raw)
            /\ i \in 1..Len(list)
            /\ ResolveIn(ents, slots, global[g].raw, list[i].name, list[i].plugin.masters) = g
            /\ \E k \in 1..Len(RecordsAt(list, i)) : RecordsAt(list, i)[k].raw = global[g].raw

\* LaterPluginWins
Covered(ents, slots, list, global) ==
    \A i \in 1..Len(list) : \A k \in 1..Len(RecordsAt(list, i)) :
        LET raw == RecordsAt(list, i)[k].raw
            g   == ResolveIn(ents, slots, raw, list[i].name, list[i].plugin.masters)
        IN  ~IsNull(raw) /\ OwnerIn(slots, raw, i) /\ g # None
               => g \in DOMAIN global /\ global[g].entry >= i

CacheInv(S) ==
    /\ Inv
    /\ cached \in Seq([name : Names, plugin : S])
    /\ Len(cached) = Len(entries)
    /\ \A i \in 1..Len(cached) : cached[i].name = entries[i].name
    /\ ListsMatch(byGlobal, bySignature)
    /\ Found(entries, byLightSlot, cached, byGlobal)
    /\ Covered(entries, byLightSlot, cached, byGlobal)
    /\ byEditorId \in {Unbuilt, EditorIndex}

\* The winner of g after add is a record of the plugin that was added.
NewWinner(g, name, plugin) ==
    \E k \in 1..Len(plugin.records) :
        /\ g # None /\ ~IsNull(plugin.records[k].raw)
        /\ g = ResolveIn(entries', byLightSlot', plugin.records[k].raw,
                         Lower[name], plugin.masters)
        /\ byGlobal'[g].entry = Len(cached) + 1
        /\ byGlobal'[g].raw = plugin.records[k].raw

\* What add does: the plugin is cached, its records win, the others stay.
LEMMA AddIndexes ==
    ASSUME NEW S, WellFormed(S), CacheInv(S), NEW name \in Names, NEW plugin \in S,
           Add(name, plugin), pushed' = "ok"
    PROVE  /\ cached' = Append(cached, [name |-> Lower[name], plugin |-> plugin])
           /\ byEditorId' = Unbuilt
           /\ ListsMatch(byGlobal', bySignature')
           /\ DOMAIN byGlobal \subseteq DOMAIN byGlobal'
           /\ \A g \in DOMAIN byGlobal' :
                 \/ g \in DOMAIN byGlobal /\ byGlobal'[g] = byGlobal[g]
                 \/ NewWinner(g, name, plugin)
           /\ \A k \in 1..Len(plugin.records) :
                 LET g == ResolveIn(entries', byLightSlot', plugin.records[k].raw,
                                    Lower[name], plugin.masters)
                 IN  ~IsNull(plugin.records[k].raw) /\ g # None =>
                        g \in DOMAIN byGlobal' /\ byGlobal'[g].entry = Len(cached) + 1
<1>. DEFINE n == Len(plugin.records)
            Owner(k) == ResolveIn(entries', byLightSlot', plugin.records[k].raw,
                                  Lower[name], plugin.masters)
            triples == Triples(name, plugin)
            entry == Len(cached) + 1
            first == [global |-> byGlobal, sigs |-> bySignature]
            index == IndexUpTo(entry, first, triples)[Len(triples)]
<1>1. n \in Nat
  BY DEF WellFormed
<1>2. /\ triples = [k \in 1..n |->
            [global |-> IF IsNull(plugin.records[k].raw) THEN None ELSE Owner(k),
             raw |-> plugin.records[k].raw, sig |-> plugin.records[k].sig]]
  BY ResolveIsResolveIn DEF Triples
<1>3. /\ cached' = Append(cached, [name |-> Lower[name], plugin |-> plugin])
      /\ byGlobal' = index.global
      /\ bySignature' = index.sigs
      /\ byEditorId' = Unbuilt
  BY DEF Add, IndexAll, Invalidated
<1>. HIDE DEF n, Owner, triples
<1>4. Len(triples) = n
  BY <1>1, <1>2
<1>5. first.global = byGlobal /\ first.sigs = bySignature
  OBVIOUS
<1>. HIDE DEF first, entry
<1>6. ListsMatch(index.global, index.sigs) /\ Taken(entry, first, triples, index, n)
  <2>1. ListsMatch(first.global, first.sigs) /\ Len(triples) \in Nat
    BY <1>1, <1>4, <1>5 DEF CacheInv
  <2>. QED
    BY <2>1, <1>4, LoopTakes
<1>. HIDE DEF index
<1>7. \A k \in 1..n : /\ triples[k].raw = plugin.records[k].raw
                      /\ triples[k].global = IF IsNull(plugin.records[k].raw) THEN None ELSE Owner(k)
  BY <1>2
<1>8. DOMAIN byGlobal \subseteq DOMAIN byGlobal'
  BY <1>3, <1>5, <1>6 DEF Taken
<1>9. ASSUME NEW g \in DOMAIN byGlobal'
      PROVE  \/ g \in DOMAIN byGlobal /\ byGlobal'[g] = byGlobal[g]
             \/ \E k \in 1..n : /\ g # None /\ ~IsNull(plugin.records[k].raw)
                                /\ g = Owner(k)
                                /\ byGlobal'[g].entry = entry
                                /\ byGlobal'[g].raw = plugin.records[k].raw
  BY <1>3, <1>5, <1>6, <1>7 DEF Taken
<1>10. ASSUME NEW k \in 1..n, ~IsNull(plugin.records[k].raw), Owner(k) # None
       PROVE  Owner(k) \in DOMAIN byGlobal' /\ byGlobal'[Owner(k)].entry = entry
  BY <1>3, <1>6, <1>7, <1>10 DEF Taken
<1>11. ListsMatch(byGlobal', bySignature')
  BY <1>3, <1>6
<1>. QED
  BY <1>3, <1>8, <1>9, <1>10, <1>11 DEF n, Owner, entry, NewWinner

\* add keeps the invariant of the cache.
LEMMA AddKeepsInv ==
    ASSUME NEW S, WellFormed(S), CacheInv(S), NEW name \in Names, NEW plugin \in S,
           Add(name, plugin), Inv', pushed' = "ok"
    PROVE  CacheInv(S)'
<1>. DEFINE new == [name |-> Lower[name], plugin |-> plugin]
            n == Len(cached)
<1>1. Grows(name) /\ Len(cached) = Len(entries) /\ Len(cached) \in Nat
  <2>1. plugin.kind \in Kinds /\ Push(name, plugin.kind)
    BY DEF WellFormed, Add
  <2>. QED
    BY <2>1, PushGrows DEF CacheInv
<1>2. cached' = Append(cached, new)
  BY AddIndexes
<1>3. new \in [name : Names, plugin : S] /\ new.name = Lower[name] /\ new.plugin = plugin
  BY LoadOrderAssumption
<1>. HIDE DEF new
<1>4. /\ cached' \in Seq([name : Names, plugin : S])
      /\ Len(cached') = n + 1
      /\ \A i \in 1..n : cached'[i] = cached[i]
      /\ cached'[n + 1] = new
  BY <1>2, <1>3 DEF CacheInv
<1>5. Len(cached') = Len(entries')
  BY <1>1, <1>4 DEF Grows
<1>6. /\ \A i \in 1..(n + 1) : i \in 1..n \/ i = n + 1
      /\ 1..n \subseteq 1..(n + 1) /\ n + 1 \in 1..(n + 1) /\ n + 1 \notin 1..n
  BY <1>1
<1>10. \A g \in DOMAIN byGlobal' :
          \/ g \in DOMAIN byGlobal /\ byGlobal'[g] = byGlobal[g]
          \/ NewWinner(g, name, plugin)
  BY AddIndexes
<1>7. Found(entries', byLightSlot', cached', byGlobal')
  <2>. SUFFICES ASSUME NEW g \in DOMAIN byGlobal'
       PROVE LET i == byGlobal'[g].entry
             IN  /\ g # None /\ ~IsNull(byGlobal'[g].raw)
                 /\ i \in 1..Len(cached')
                 /\ ResolveIn(entries', byLightSlot', byGlobal'[g].raw, cached'[i].name,
                              cached'[i].plugin.masters) = g
                 /\ \E k \in 1..Len(RecordsAt(cached', i)) :
                       RecordsAt(cached', i)[k].raw = byGlobal'[g].raw
    BY DEF Found
  <2>1. CASE g \in DOMAIN byGlobal /\ byGlobal'[g] = byGlobal[g]
    <3>. DEFINE i == byGlobal[g].entry
                raw == byGlobal[g].raw
    <3>1. /\ g # None /\ ~IsNull(raw)
          /\ i \in 1..n
          /\ ResolveIn(entries, byLightSlot, raw, cached[i].name, cached[i].plugin.masters) = g
          /\ \E k \in 1..Len(RecordsAt(cached, i)) : RecordsAt(cached, i)[k].raw = raw
      BY <2>1 DEF CacheInv, Found
    <3>2. cached'[i] = cached[i] /\ RecordsAt(cached', i) = RecordsAt(cached, i)
      BY <1>4, <3>1 DEF RecordsAt
    <3>3. Inv
      BY DEF CacheInv
    <3>. HIDE DEF i, raw
    <3>4. ResolveIn(entries', byLightSlot', raw, cached[i].name, cached[i].plugin.masters) = g
      BY <1>1, <3>1, <3>3, GrowthKeepsOwners
    <3>. QED
      BY <2>1, <1>4, <1>6, <3>1, <3>2, <3>4 DEF i, raw
  <2>2. CASE NewWinner(g, name, plugin)
    BY <2>2, <1>3, <1>4, <1>6 DEF RecordsAt, NewWinner
  <2>. QED
    BY <2>1, <2>2, <1>10
<1>8. Covered(entries', byLightSlot', cached', byGlobal')
  <2>. SUFFICES ASSUME NEW i \in 1..Len(cached'), NEW k \in 1..Len(RecordsAt(cached', i)),
                       ~IsNull(RecordsAt(cached', i)[k].raw),
                       OwnerIn(byLightSlot', RecordsAt(cached', i)[k].raw, i),
                       ResolveIn(entries', byLightSlot', RecordsAt(cached', i)[k].raw,
                                 cached'[i].name, cached'[i].plugin.masters) # None
                PROVE  LET g == ResolveIn(entries', byLightSlot', RecordsAt(cached', i)[k].raw,
                                          cached'[i].name, cached'[i].plugin.masters)
                       IN  g \in DOMAIN byGlobal' /\ byGlobal'[g].entry >= i
    BY DEF Covered
  <2>1. CASE i = n + 1
    <3>1. RecordsAt(cached', i) = plugin.records /\ cached'[i].name = Lower[name]
          /\ cached'[i].plugin.masters = plugin.masters
      BY <2>1, <1>3, <1>4 DEF RecordsAt
    <3>2. \A k2 \in 1..Len(plugin.records) :
             LET g == ResolveIn(entries', byLightSlot', plugin.records[k2].raw,
                                Lower[name], plugin.masters)
             IN  ~IsNull(plugin.records[k2].raw) /\ g # None =>
                    g \in DOMAIN byGlobal' /\ byGlobal'[g].entry = n + 1
      BY AddIndexes
    <3>. QED
      BY <2>1, <3>1, <3>2, <1>1
  <2>2. CASE i \in 1..n
    <3>. DEFINE raw == RecordsAt(cached, i)[k].raw
                g == ResolveIn(entries, byLightSlot, raw, cached[i].name, cached[i].plugin.masters)
    <3>1. cached'[i] = cached[i] /\ RecordsAt(cached', i) = RecordsAt(cached, i)
      BY <1>4, <2>2 DEF RecordsAt
    <3>2. Inv /\ i \in 1..Len(entries)
      BY <1>1, <2>2 DEF CacheInv
    <3>3. /\ OwnerIn(byLightSlot, raw, i)
          /\ ResolveIn(entries', byLightSlot', raw, cached[i].name, cached[i].plugin.masters) = g
      BY <1>1, <3>1, <3>2, GrowthKeepsOwners
    <3>4. g # None /\ ~IsNull(raw)
      BY <3>1, <3>3
    <3>5. g \in DOMAIN byGlobal /\ byGlobal[g].entry >= i /\ byGlobal[g].entry \in 1..n
      BY <2>2, <3>1, <3>3, <3>4 DEF CacheInv, Covered, Found
    <3>. HIDE DEF g
    <3>6. g \in DOMAIN byGlobal' /\ (byGlobal'[g] = byGlobal[g] \/ byGlobal'[g].entry = n + 1)
      <4>1. DOMAIN byGlobal \subseteq DOMAIN byGlobal'
        BY AddIndexes
      <4>. QED
        BY <3>5, <4>1, <1>10 DEF NewWinner
    <3>7. g \in DOMAIN byGlobal' /\ byGlobal'[g].entry >= i
      BY <1>1, <2>2, <3>5, <3>6
    <3>. QED
      BY <3>1, <3>3, <3>7
  <2>. QED
    BY <2>1, <2>2, <1>4, <1>6
<1>9. byEditorId' = Unbuilt /\ ListsMatch(byGlobal', bySignature')
  BY AddIndexes
<1>11. \A i \in 1..Len(cached') : cached'[i].name = entries'[i].name
  <2>1. \A i \in 1..n : cached[i].name = entries[i].name
    BY DEF CacheInv
  <2>. QED
    BY <1>1, <1>3, <1>4, <1>6, <2>1 DEF Grows
<1>. QED
  BY <1>4, <1>5, <1>7, <1>8, <1>9, <1>11 DEF CacheInv

(***************************************************************************)
(* The steps of a cache that takes plugins of S: add, find_by_editor_id,   *)
(* and steps of others.                                                    *)
(***************************************************************************)
CacheStep(S) ==
    \/ \E name \in Names, plugin \in S : Len(entries) < MaxEntries /\ Add(name, plugin)
    \/ FindByEditorId
    \/ UNCHANGED vars

\* A step of the cache is a step of its load order.
LEMMA CacheStepIsLoadOrderStep ==
    ASSUME NEW S, WellFormed(S), CacheStep(S)
    PROVE  [NextLoadOrder]_loadOrderVars
<1>1. CASE \E name \in Names, plugin \in S : Len(entries) < MaxEntries /\ Add(name, plugin)
  <2>1. PICK name \in Names, plugin \in S : Len(entries) < MaxEntries /\ Add(name, plugin)
    BY <1>1
  <2>2. plugin.kind \in Kinds /\ Push(name, plugin.kind)
    BY <2>1 DEF WellFormed, Add
  <2>. QED
    BY <2>1, <2>2 DEF NextLoadOrder
<1>2. CASE FindByEditorId
  BY <1>2 DEF FindByEditorId
<1>3. CASE UNCHANGED vars
  BY <1>3 DEF vars
<1>. QED
  BY <1>1, <1>2, <1>3 DEF CacheStep

\* The EditorID index depends on the records and the winners only.
LEMMA SameRecordsSameEditorIds ==
    ASSUME UNCHANGED <<cached, byGlobal>>
    PROVE  EditorIndex' = EditorIndex
<1>1. ASSUME NEW i, NEW k PROVE WonBy(i, k)' = WonBy(i, k)
  BY DEF WonBy
<1>2. Winning' = Winning
  BY <1>1 DEF Winning
<1>3. ASSUME NEW p PROVE EditorIdAt(p)' = EditorIdAt(p)
  BY DEF EditorIdAt
<1>4. ASSUME NEW e PROVE LastNamed(e)' = LastNamed(e)
  BY <1>2, <1>3 DEF LastNamed
<1>. QED
  BY <1>1, <1>2, <1>3, <1>4 DEF EditorIndex

\* Every call of the cache keeps its invariant.
LEMMA CacheStepKeepsInv ==
    ASSUME NEW S, WellFormed(S), CacheInv(S), CacheStep(S)
    PROVE  CacheInv(S)'
<1>1. Inv'
  BY CacheStepIsLoadOrderStep, StepKeepsInv DEF CacheInv
<1>2. ASSUME UNCHANGED <<cached, byGlobal, bySignature>>, UNCHANGED <<entries, byLightSlot>>,
             byEditorId' \in {Unbuilt, EditorIndex, byEditorId}
      PROVE  CacheInv(S)'
  <2>1. EditorIndex' = EditorIndex
    BY <1>2, SameRecordsSameEditorIds
  <2>2. byEditorId' \in {Unbuilt, EditorIndex'}
    BY <1>2, <2>1 DEF CacheInv
  <2>. QED
    BY <1>1, <1>2, <2>2 DEF CacheInv
<1>3. CASE \E name \in Names, plugin \in S : Len(entries) < MaxEntries /\ Add(name, plugin)
  <2>1. PICK name \in Names, plugin \in S : Add(name, plugin)
    BY <1>3
  <2>2. CASE pushed' = "ok"
    BY <2>1, <2>2, <1>1, AddKeepsInv
  <2>3. CASE pushed' # "ok"
    <3>1. UNCHANGED cacheVars /\ Push(name, plugin.kind)
      BY <2>1, <2>3 DEF Add
    <3>2. UNCHANGED <<entries, byLightSlot>>
      BY <2>3, <3>1, RefusedPush
    <3>. QED
      BY <1>2, <3>1, <3>2 DEF cacheVars
  <2>. QED
    BY <2>2, <2>3
<1>4. CASE FindByEditorId
  BY <1>2, <1>4 DEF FindByEditorId, loadOrderVars
<1>5. CASE UNCHANGED vars
  BY <1>2, <1>5 DEF vars, loadOrderVars, cacheVars
<1>. QED
  BY <1>3, <1>4, <1>5 DEF CacheStep

\* The empty cache satisfies the invariant.
LEMMA CacheInitInv ==
    ASSUME NEW S, Init
    PROVE  CacheInv(S)
<1>1. Inv
  BY InitInv DEF Init
<1>2. /\ entries = <<>> /\ cached = <<>> /\ byGlobal = <<>> /\ bySignature = <<>>
      /\ byEditorId = Unbuilt
  BY DEF Init, InitLoadOrder
<1>3. DOMAIN <<>> = {} /\ Len(<<>>) = 0 /\ <<>> \in Seq([name : Names, plugin : S])
  OBVIOUS
<1>4. ListsMatch(byGlobal, bySignature)
  BY <1>2, <1>3 DEF ListsMatch
<1>5. Found(entries, byLightSlot, cached, byGlobal)
  BY <1>2, <1>3 DEF Found
<1>6. Covered(entries, byLightSlot, cached, byGlobal)
  BY <1>2, <1>3 DEF Covered
<1>. QED
  BY <1>1, <1>2, <1>3, <1>4, <1>5, <1>6 DEF CacheInv

-----------------------------------------------------------------------------
(***************************************************************************)
(* What the invariant says of lookups.                                     *)
(***************************************************************************)
LEMMA InvImpliesPartition ==
    ASSUME NEW S, CacheInv(S)
    PROVE  TypeListsPartitionWinners
<1>1. ListsMatch(byGlobal, bySignature)
  BY DEF CacheInv
<1>2. ASSUME NEW g \in DOMAIN byGlobal, NEW s \in DOMAIN bySignature
      PROVE  Cardinality({i \in DOMAIN bySignature[s] : bySignature[s][i] = g})
                = IF s = byGlobal[g].sig THEN 1 ELSE 0
  <2>. DEFINE list == bySignature[s]
              hits == {i \in DOMAIN list : list[i] = g}
  <2>1. list \in Seq(DOMAIN byGlobal) /\ Injective(list) /\ (In(list, g) => byGlobal[g].sig = s)
    BY <1>1 DEF ListsMatch
  <2>2. DOMAIN list = 1..Len(list)
    BY <2>1
  <2>. HIDE DEF list
  <2>3. CASE s = byGlobal[g].sig
    <3>1. In(list, g)
      BY <1>1, <2>3 DEF ListsMatch, list
    <3>2. PICK i \in 1..Len(list) : list[i] = g
      BY <3>1 DEF In
    <3>3. hits = {i}
      BY <2>1, <2>2, <3>2 DEF Injective
    <3>4. Cardinality({i}) = 1
      BY FS_Singleton
    <3>. QED
      BY <2>3, <3>3, <3>4 DEF list
  <2>4. CASE s # byGlobal[g].sig
    <3>1. hits = {}
      BY <2>1, <2>2, <2>4 DEF In
    <3>2. Cardinality({}) = 0
      BY FS_EmptySet
    <3>. QED
      BY <2>4, <3>1, <3>2 DEF list
  <2>. QED
    BY <2>3, <2>4
<1>3. \A s \in DOMAIN bySignature : ToSet(bySignature[s]) \subseteq DOMAIN byGlobal
  BY <1>1 DEF ListsMatch, ToSet
<1>. QED
  BY <1>1, <1>2, <1>3 DEF TypeListsPartitionWinners, ListsMatch

\* The latest plugin that has a record wins it (PluginCache::add).
LEMMA InvImpliesLaterWins ==
    ASSUME NEW S, WellFormed(S), CacheInv(S)
    PROVE  LaterPluginWins
<1>. SUFFICES ASSUME NEW i \in 1..Len(cached), NEW r \in ToSet(cached[i].plugin.records),
                     ~IsNull(r.raw), OwnerLoaded(r.raw, i),
                     Resolve(r.raw, cached[i].name, cached[i].plugin.masters) # None
              PROVE  LET g == Resolve(r.raw, cached[i].name, cached[i].plugin.masters)
                     IN  g \in DOMAIN byGlobal /\ byGlobal[g].entry >= i
  BY DEF LaterPluginWins
<1>1. cached[i] \in [name : Names, plugin : S]
  <2>. DEFINE X == [name : Names, plugin : S]
  <2>1. cached \in Seq(X)
    BY DEF CacheInv
  <2>. HIDE DEF X
  <2>2. cached[i] \in X
    BY <2>1
  <2>. QED
    BY <2>2 DEF X
<1>2. cached[i].plugin.records \in Seq(ToSet(cached[i].plugin.records))
  BY <1>1 DEF WellFormed
<1>3. PICK k \in 1..Len(RecordsAt(cached, i)) : RecordsAt(cached, i)[k] = r
  BY <1>2 DEF ToSet, RecordsAt
<1>4. OwnerIn(byLightSlot, r.raw, i)
  BY DEF OwnerLoaded, OwnerIn
<1>5. Resolve(r.raw, cached[i].name, cached[i].plugin.masters) =
         ResolveIn(entries, byLightSlot, r.raw, cached[i].name, cached[i].plugin.masters)
  BY ResolveIsResolveIn
<1>. QED
  BY <1>3, <1>4, <1>5 DEF CacheInv, Covered

\* The first record with a FormID is where find_record finds it.
LEMMA FindRecordFinds ==
    ASSUME NEW plugin, NEW raw,
           \E k \in 1..Len(plugin.records) : plugin.records[k].raw = raw
    PROVE  \E j \in 1..Len(plugin.records) :
              FindRecord(plugin, raw) = plugin.records[j] /\ plugin.records[j].raw = raw
<1>. DEFINE hits == {i \in 1..Len(plugin.records) : plugin.records[i].raw = raw}
<1>1. hits \subseteq Nat /\ hits # {}
  OBVIOUS
<1>2. \E m \in hits : \A j \in hits : m <= j
  <2>. HIDE DEF hits
  <2>. QED
    BY <1>1, LeastElement
<1>3. Min(hits) \in hits
  BY <1>2, Zenon DEF Min
<1>4. FindRecord(plugin, raw) = plugin.records[Min(hits)]
  BY <1>1 DEF FindRecord
<1>. QED
  BY <1>3, <1>4

\* resolve_record finds a record that has the identifier it was asked for.
LEMMA WinnerIsFound ==
    ASSUME NEW S, CacheInv(S), NEW g \in DOMAIN byGlobal
    PROVE  LET i == byGlobal[g].entry
           IN  /\ i \in 1..Len(cached) /\ ~IsNull(byGlobal[g].raw)
               /\ ResolveIn(entries, byLightSlot, byGlobal[g].raw, cached[i].name,
                            cached[i].plugin.masters) = g
               /\ \E j \in 1..Len(RecordsAt(cached, i)) :
                     /\ ResolveRecord(g) = RecordsAt(cached, i)[j]
                     /\ RecordsAt(cached, i)[j].raw = byGlobal[g].raw
<1>. DEFINE i == byGlobal[g].entry
            raw == byGlobal[g].raw
<1>1. /\ i \in 1..Len(cached) /\ ~IsNull(raw)
      /\ ResolveIn(entries, byLightSlot, raw, cached[i].name, cached[i].plugin.masters) = g
      /\ \E k \in 1..Len(RecordsAt(cached, i)) : RecordsAt(cached, i)[k].raw = raw
  BY DEF CacheInv, Found
<1>2. PICK k \in 1..Len(RecordsAt(cached, i)) : RecordsAt(cached, i)[k].raw = raw
  BY <1>1
<1>3. ResolveRecord(g) = FindRecord(cached[i].plugin, raw)
  BY DEF ResolveRecord
<1>4. \E j \in 1..Len(cached[i].plugin.records) :
         /\ FindRecord(cached[i].plugin, raw) = cached[i].plugin.records[j]
         /\ cached[i].plugin.records[j].raw = raw
  <2>. DEFINE p == cached[i].plugin
  <2>1. \E j \in 1..Len(p.records) : p.records[j].raw = raw
    BY <1>2 DEF RecordsAt
  <2>2. \E j \in 1..Len(p.records) :
           FindRecord(p, raw) = p.records[j] /\ p.records[j].raw = raw
    <3>. HIDE DEF p, i, raw
    <3>. QED
      BY <2>1, FindRecordFinds
  <2>. QED
    BY <2>2
<1>. QED
  BY <1>1, <1>3, <1>4 DEF RecordsAt

\* Every indexed identifier leads to its record (PluginCache::resolve_record).
LEMMA InvImpliesLookups ==
    ASSUME NEW S, CacheInv(S)
    PROVE  LookupsFindTheirRecord
<1>. SUFFICES ASSUME NEW g \in DOMAIN byGlobal
              PROVE  LET e == cached[byGlobal[g].entry]
                         r == ResolveRecord(g)
                     IN  r # NoRecord /\ Resolve(r.raw, e.name, e.plugin.masters) = g
  BY DEF LookupsFindTheirRecord
<1>. DEFINE r == ResolveRecord(g)
            e == cached[byGlobal[g].entry]
<1>1. /\ r.raw = byGlobal[g].raw /\ ~IsNull(byGlobal[g].raw)
      /\ ResolveIn(entries, byLightSlot, byGlobal[g].raw, e.name, e.plugin.masters) = g
  BY WinnerIsFound
<1>2. IsNull(NoRecord.raw)
  BY DEF IsNull, NoRecord, FormId
<1>3. r # NoRecord
  BY <1>1, <1>2
<1>4. Resolve(r.raw, e.name, e.plugin.masters) = ResolveIn(entries, byLightSlot, r.raw, e.name, e.plugin.masters)
  BY ResolveIsResolveIn
<1>. QED
  BY <1>1, <1>3, <1>4

\* What the loop of build_editor_id_index goes over.
LEMMA WinningMembers ==
    \A p : p \in Winning <=>
        \E i \in 1..Len(cached) : \E k \in 1..Len(RecordsAt(cached, i)) :
            p = <<i, k>> /\ WonBy(i, k) # {} /\ RecordsAt(cached, i)[k].edid # NoEditorId
BY DEF Winning, RecordsAt

\* Among the winning records with an EditorID there is a last one.
LEMMA LastNamedExists ==
    ASSUME NEW S, WellFormed(S), CacheInv(S), NEW p0 \in Winning
    PROVE  /\ LastNamed(EditorIdAt(p0)) \in Winning
           /\ EditorIdAt(LastNamed(EditorIdAt(p0))) = EditorIdAt(p0)
<1>. DEFINE e == EditorIdAt(p0)
            W == {p \in Winning : EditorIdAt(p) = e}
            I == {p[1] : p \in W}
<1>1. \A p \in W : /\ p[1] \in 1..Len(cached) /\ p[2] \in 1..Len(RecordsAt(cached, p[1]))
                   /\ p = <<p[1], p[2]>>
  BY WinningMembers
<1>2. Len(cached) \in Nat
  BY DEF CacheInv
<1>3. PICK i \in I : \A j \in I : j <= i
  <2>1. I \subseteq 0..Len(cached) /\ I # {}
    BY <1>1, <1>2
  <2>. HIDE DEF I
  <2>. QED
    BY <1>2, <2>1, GreatestElement
<1>. DEFINE K == {p[2] : p \in {p \in W : p[1] = i}}
<1>4. i \in 1..Len(cached)
  BY <1>1, <1>3
<1>5. Len(RecordsAt(cached, i)) \in Nat
  <2>. DEFINE X == [name : Names, plugin : S]
  <2>1. cached \in Seq(X)
    BY DEF CacheInv
  <2>2. cached[i] \in X
    <3>. HIDE DEF X
    <3>. QED
      BY <1>4, <2>1
  <2>3. cached[i].plugin.records \in Seq(ToSet(cached[i].plugin.records))
    BY <2>2 DEF WellFormed
  <2>. QED
    BY <2>3 DEF RecordsAt
<1>6. PICK k \in K : \A j \in K : j <= k
  <2>1. K # {} /\ K \subseteq 0..Len(RecordsAt(cached, i))
    BY <1>1, <1>3, <1>5
  <2>. HIDE DEF K
  <2>. QED
    BY <1>5, <2>1, GreatestElement
<1>7. PICK q \in W : q[1] = i /\ q[2] = k
  BY <1>6
<1>8. \A p \in W : ~After(p, q)
  <2>. SUFFICES ASSUME NEW p \in W PROVE ~After(p, q)
    OBVIOUS
  <2>1. p[1] \in I /\ (p[1] = i => p[2] \in K) /\ p[1] \in 1..Len(cached)
        /\ p[2] \in 1..Len(RecordsAt(cached, p[1]))
    BY <1>1
  <2>2. p[1] <= i /\ (p[1] = i => p[2] <= k)
    BY <1>3, <1>6, <2>1
  <2>3. i \in Nat /\ k \in Nat /\ p[1] \in Nat /\ (p[1] = i => p[2] \in Nat)
    BY <1>1, <1>2, <1>4, <1>5, <1>7, <2>1
  <2>. QED
    BY <1>7, <2>2, <2>3 DEF After
<1>9. \E p \in Winning : /\ EditorIdAt(p) = e
                         /\ \A q2 \in Winning : EditorIdAt(q2) = e => ~After(q2, p)
  BY <1>7, <1>8
<1>. HIDE DEF e
<1>10. LastNamed(e) \in Winning /\ EditorIdAt(LastNamed(e)) = e
  BY <1>9, Zenon DEF LastNamed
<1>. QED
  BY <1>10 DEF e

\* A record that won an identifier is the one the lookup returns.
LEMMA IndexedEditorId ==
    ASSUME NEW S, WellFormed(S), \A p \in S : OneRecordPerForm(p), CacheInv(S),
           NEW i \in 1..Len(cached), NEW k \in 1..Len(RecordsAt(cached, i)),
           NEW g \in WonBy(i, k)
    PROVE  g \in DOMAIN byGlobal /\ ResolveRecord(g) = RecordsAt(cached, i)[k]
<1>1. g \in DOMAIN byGlobal /\ byGlobal[g].entry = i /\ byGlobal[g].raw = RecordsAt(cached, i)[k].raw
  BY DEF WonBy, RecordsAt
<1>2. PICK j \in 1..Len(RecordsAt(cached, i)) :
         /\ ResolveRecord(g) = RecordsAt(cached, i)[j]
         /\ RecordsAt(cached, i)[j].raw = byGlobal[g].raw
  BY <1>1, WinnerIsFound
<1>3. ~IsNull(byGlobal[g].raw)
  BY <1>1, WinnerIsFound
<1>4. cached[i].plugin \in S
  <2>. DEFINE X == [name : Names, plugin : S]
  <2>1. cached \in Seq(X)
    BY DEF CacheInv
  <2>2. cached[i] \in X
    <3>. HIDE DEF X
    <3>. QED
      BY <2>1
  <2>. QED
    BY <2>2
<1>5. OneRecordPerForm(cached[i].plugin)
  BY <1>4
<1>6. j = k
  BY <1>1, <1>2, <1>3, <1>5 DEF OneRecordPerForm, RecordsAt
<1>. QED
  BY <1>1, <1>2, <1>6

\* find_by_editor_id answers with a winner that has the EditorID.
LEMMA InvImpliesEditorIds ==
    ASSUME NEW S, WellFormed(S), \A p \in S : OneRecordPerForm(p), CacheInv(S)
    PROVE  EditorIdsFindWinners
<1>. SUFFICES ASSUME byEditorId # Unbuilt, NEW e \in EditorIds
              PROVE  LET having == {g \in DOMAIN byGlobal : ResolveRecord(g).edid = e}
                     IN  IF having = {} THEN EditorIdAnswer(e) = NoRecord
                         ELSE EditorIdAnswer(e).edid = e /\ byEditorId[e] \in having
  BY DEF EditorIdsFindWinners
<1>1. byEditorId = EditorIndex
  BY DEF CacheInv
<1>. DEFINE having == {g \in DOMAIN byGlobal : ResolveRecord(g).edid = e}
<1>2. e # NoEditorId
  BY CacheAssumption
<1>3. ASSUME NEW p \in Winning, EditorIdAt(p) = e
      PROVE  e \in DOMAIN byEditorId /\ byEditorId[e] \in having
  <2>. DEFINE last == LastNamed(e)
              g == CHOOSE h \in WonBy(last[1], last[2]) : TRUE
  <2>1. last \in Winning /\ EditorIdAt(last) = e
    BY <1>3, LastNamedExists
  <2>2. e \in DOMAIN EditorIndex /\ EditorIndex[e] = g
    <3>. HIDE DEF last
    <3>1. e \in {EditorIdAt(q) : q \in Winning}
      BY <1>3
    <3>. QED
      BY <3>1 DEF EditorIndex, last
  <2>. HIDE DEF last
  <2>7. PICK i \in 1..Len(cached) : \E k \in 1..Len(RecordsAt(cached, i)) :
           last = <<i, k>> /\ WonBy(i, k) # {}
    BY <2>1, WinningMembers
  <2>3. PICK k \in 1..Len(RecordsAt(cached, i)) : last = <<i, k>> /\ WonBy(i, k) # {}
    BY <2>7
  <2>4. g \in WonBy(i, k)
    BY <2>3
  <2>5. RecordsAt(cached, i)[k].edid = e
    BY <2>1, <2>3 DEF EditorIdAt, RecordsAt
  <2>. HIDE DEF g
  <2>6. g \in DOMAIN byGlobal /\ ResolveRecord(g).edid = e
    BY <2>4, <2>5, IndexedEditorId
  <2>. QED
    BY <1>1, <2>2, <2>6
<1>4. ASSUME NEW g \in having PROVE \E p \in Winning : EditorIdAt(p) = e
  <2>. DEFINE i == byGlobal[g].entry
  <2>1. i \in 1..Len(cached)
    BY WinnerIsFound
  <2>2. PICK j \in 1..Len(RecordsAt(cached, i)) :
           /\ ResolveRecord(g) = RecordsAt(cached, i)[j]
           /\ RecordsAt(cached, i)[j].raw = byGlobal[g].raw
    BY WinnerIsFound
  <2>3. g \in WonBy(i, j) /\ RecordsAt(cached, i)[j].edid = e
    BY <2>2 DEF WonBy, RecordsAt
  <2>. HIDE DEF i
  <2>4. <<i, j>> \in Winning
    BY <1>2, <2>1, <2>3, WinningMembers
  <2>5. EditorIdAt(<<i, j>>) = e
    BY <2>3 DEF EditorIdAt, RecordsAt
  <2>. QED
    BY <2>4, <2>5
<1>5. CASE having = {}
  <2>1. \A p \in Winning : EditorIdAt(p) # e
    BY <1>3, <1>5
  <2>2. e \notin DOMAIN byEditorId
    BY <1>1, <2>1 DEF EditorIndex
  <2>. QED
    BY <1>5, <2>2 DEF EditorIdAnswer
<1>6. CASE having # {}
  <2>1. e \in DOMAIN byEditorId /\ byEditorId[e] \in having
    BY <1>3, <1>4, <1>6
  <2>. QED
    BY <1>6, <2>1 DEF EditorIdAnswer
<1>. QED
  BY <1>5, <1>6

-----------------------------------------------------------------------------
(***************************************************************************)
(* The abstract promise: the winner of a record only moves to the plugin   *)
(* that is added.                                                          *)
(***************************************************************************)
Winner == [g \in DOMAIN byGlobal |-> byGlobal[g].entry]

\* A step of the cache is a step of WinningOverrides or leaves it alone.
LEMMA CacheStepOverrides ==
    ASSUME NEW S, WellFormed(S), CacheInv(S), CacheStep(S)
    PROVE  [Overrides!AddPlugin]_<<Len(cached), Winner>>
<1>1. ASSUME UNCHANGED <<cached, byGlobal>> PROVE UNCHANGED <<Len(cached), Winner>>
  BY <1>1 DEF Winner
<1>2. CASE \E name \in Names, plugin \in S : Len(entries) < MaxEntries /\ Add(name, plugin)
  <2>1. PICK name \in Names, plugin \in S : Add(name, plugin)
    BY <1>2
  <2>2. CASE pushed' = "ok"
    <3>. DEFINE new == [name |-> Lower[name], plugin |-> plugin]
    <3>1. cached' = Append(cached, new) /\ DOMAIN byGlobal \subseteq DOMAIN byGlobal'
      BY <2>1, <2>2, AddIndexes
    <3>2. \A g \in DOMAIN byGlobal' :
             \/ g \in DOMAIN byGlobal /\ byGlobal'[g] = byGlobal[g]
             \/ NewWinner(g, name, plugin)
      BY <2>1, <2>2, AddIndexes
    <3>3. Len(cached') = Len(cached) + 1
      <4>. HIDE DEF new
      <4>1. cached \in Seq([name : Names, plugin : S])
        BY DEF CacheInv
      <4>2. new \in [name : Names, plugin : S]
        BY LoadOrderAssumption DEF new
      <4>. QED
        BY <3>1, <4>1, <4>2
    <3>4. \A g \in DOMAIN byGlobal' :
             \/ byGlobal'[g].entry = Len(cached')
             \/ g \in DOMAIN byGlobal /\ byGlobal'[g].entry = byGlobal[g].entry
      BY <3>2, <3>3 DEF NewWinner
    <3>. QED
      BY <3>1, <3>3, <3>4 DEF Overrides!AddPlugin, Winner
  <2>3. CASE pushed' # "ok"
    BY <1>1, <2>1, <2>3 DEF Add, cacheVars
  <2>. QED
    BY <2>2, <2>3
<1>3. CASE FindByEditorId
  BY <1>1, <1>3 DEF FindByEditorId
<1>4. CASE UNCHANGED vars
  BY <1>1, <1>4 DEF vars, cacheVars
<1>. QED
  BY <1>2, <1>3, <1>4 DEF CacheStep

-----------------------------------------------------------------------------
(***************************************************************************)
(* The cache itself.                                                       *)
(***************************************************************************)
LEMMA PluginsAreWellFormed == WellFormed(Plugins)
BY CacheAssumption DEF WellFormed

\* The steps of PluginCache are those of a cache over Plugins.
LEMMA NextIsCacheStep == [Next]_vars => CacheStep(Plugins)
BY DEF Next, AddPlugin, CacheStep

\* The invariant holds after any sequence of adds and lookups.
THEOREM CacheInvHolds == Spec => []CacheInv(Plugins)
<1>1. Init => CacheInv(Plugins)
  BY CacheInitInv
<1>2. CacheInv(Plugins) /\ [Next]_vars => CacheInv(Plugins)'
  BY NextIsCacheStep, PluginsAreWellFormed, CacheStepKeepsInv
<1>. QED
  BY <1>1, <1>2, PTL DEF Spec

\* However often overrides change the type of a record, it is in one list of
\* by_signature, once, that of its winner (PluginCache::add).
THEOREM CachePartition == Spec => []TypeListsPartitionWinners
<1>1. CacheInv(Plugins) => TypeListsPartitionWinners
  BY InvImpliesPartition
<1>. QED
  BY <1>1, CacheInvHolds, PTL

\* A lookup by FormID or EditorID answers with the record of the last plugin
\* that defines it (PluginCache::resolve_record, find_by_editor_id).
THEOREM CacheFindsWinners == Spec => []WinnersAreFound
<1>1. CacheInv(Plugins) => WinnersAreFound
  BY PluginsAreWellFormed, PluginsAssumption, InvImpliesLaterWins, InvImpliesLookups,
     InvImpliesEditorIds DEF WinnersAreFound
<1>. QED
  BY <1>1, CacheInvHolds, PTL

\* The cache implements WinningOverrides (PluginCache::add).
THEOREM CacheOverrides == Spec => ImplementsOverrides
<1>1. Init => Overrides!Init
  BY DEF Init, Overrides!Init
<1>2. CacheInv(Plugins) /\ [Next]_vars => [Overrides!AddPlugin]_<<Len(cached), Winner>>
  BY NextIsCacheStep, PluginsAreWellFormed, CacheStepOverrides
<1>3. CacheInv(Plugins) /\ [Next]_vars =>
         [Overrides!AddPlugin]_<<Len(cached), [g \in DOMAIN byGlobal |-> byGlobal[g].entry]>>
  BY <1>2 DEF Winner
<1>. QED
  BY <1>1, <1>3, CacheInvHolds, PTL DEF Spec, ImplementsOverrides, Overrides!Spec

-----------------------------------------------------------------------------
(***************************************************************************)
(* A cache that also takes plugins from PluginWriter::eslify.              *)
(***************************************************************************)
TableOf(d) == RemapTable(<<d.group>>, Len(d.masters), d.min)

\* What is known of the remap table of a draft.
LEMMA DraftTable ==
    ASSUME NEW d \in Drafts
    PROVE  /\ \A f : f \in DOMAIN TableOf(d) <=>
                 \E i \in 1..Len(d.group) : d.group[i].form = f /\ f.file = Len(d.masters)
           /\ \A f \in DOMAIN TableOf(d) :
                 /\ TableOf(d)[f].file = EslFile
                 /\ TableOf(d)[f].object \in 0..(EslObjects - 1)
                 /\ \A h \in DOMAIN TableOf(d) : f # h => TableOf(d)[f] # TableOf(d)[h]
<1>1. AllRecords(<<d.group>>) = d.group
  BY FlattenOne
<1>2. Len(d.group) \in Nat /\ d.min \in Nat
      /\ Cardinality(Owned(<<d.group>>, Len(d.masters))) <= EslObjects - d.min
  BY DraftAssumption
<1>3. Cardinality(Owned(<<d.group>>, Len(d.masters))) \in Nat
  BY <1>1, <1>2, OwnedIsFinite
<1>4. /\ \A f : f \in DOMAIN TableOf(d) <=>
            \E i \in 1..Len(d.group) : d.group[i].form = f /\ f.file = Len(d.masters)
      /\ \A f \in DOMAIN TableOf(d) :
            /\ TableOf(d)[f].file = EslFile
            /\ TableOf(d)[f].object \in Nat
            /\ TableOf(d)[f].object < d.min + Cardinality(Owned(<<d.group>>, Len(d.masters)))
            /\ \A h \in DOMAIN TableOf(d) :
                  f # h => TableOf(d)[f].object # TableOf(d)[h].object
  BY <1>1, <1>2, RemapFacts DEF TableOf
<1>5. ASSUME NEW f \in DOMAIN TableOf(d) PROVE TableOf(d)[f].object \in 0..(EslObjects - 1)
  BY <1>2, <1>3, <1>4, FormIdAssumption
<1>6. ASSUME NEW f \in DOMAIN TableOf(d), NEW h \in DOMAIN TableOf(d), f # h
      PROVE  TableOf(d)[f] # TableOf(d)[h]
  <2>1. TableOf(d)[f].object # TableOf(d)[h].object
    BY <1>4, <1>6
  <2>. QED
    BY <2>1
<1>. QED
  BY <1>4, <1>5, <1>6

\* What eslify makes of the group of a draft.
LEMMA DraftForms ==
    ASSUME NEW d \in Drafts
    PROVE  LET group == EslifiedGroups(<<d.group>>, Len(d.masters), d.min)[1]
           IN  /\ Len(group) = Len(d.group) /\ Len(d.group) \in Nat
               /\ \A i \in 1..Len(d.group) : group[i].form = Renamed(TableOf(d), d.group[i].form)
<1>. DEFINE group == EslifiedGroups(<<d.group>>, Len(d.masters), d.min)[1]
<1>1. Len(d.group) \in Nat /\ \A i \in 1..Len(d.group) : IsRecord(d.group[i])
  <2>1. Len(d.group) \in Nat
    BY DraftAssumption
  <2>2. \A i \in 1..Len(d.group) : {"form", "words"} \subseteq DOMAIN d.group[i]
    BY DraftAssumption, Zenon
  <2>. QED
    BY <2>1, <2>2, Zenon DEF IsRecord
<1>2. 1 \in 1..Len(<<d.group>>) /\ <<d.group>>[1] = d.group
  OBVIOUS
<1>3. /\ Len(group) = Len(d.group)
      /\ \A i \in 1..Len(d.group) : group[i] = RemapRecord(TableOf(d), d.group[i])
  BY <1>1, <1>2, EslifiedForms DEF TableOf
<1>4. \A i \in 1..Len(d.group) : group[i].form = Renamed(TableOf(d), d.group[i].form)
  <2>. SUFFICES ASSUME NEW i \in 1..Len(d.group)
                PROVE  group[i].form = Renamed(TableOf(d), d.group[i].form)
    OBVIOUS
  <2>1. IsRecord(d.group[i]) /\ group[i] = RemapRecord(TableOf(d), d.group[i])
    BY <1>1, <1>3
  <2>2. ASSUME NEW table, NEW r, IsRecord(r)
        PROVE  RemapRecord(table, r).form = Renamed(table, r.form)
    BY <2>2, RemapRecordFields, Zenon
  <2>3. RemapRecord(TableOf(d), d.group[i]).form = Renamed(TableOf(d), d.group[i].form)
    BY <2>1, <2>2, Zenon
  <2>. QED
    BY <2>1, <2>3, Zenon
<1>. QED
  BY <1>1, <1>3, <1>4

\* What an eslified draft looks like when it is loaded.
LEMMA EslifiedRecords ==
    ASSUME NEW d \in Drafts
    PROVE  /\ EslifiedPlugin(d).kind = "Light"
           /\ EslifiedPlugin(d).masters = d.masters
           /\ Len(EslifiedPlugin(d).records) = Len(d.group)
           /\ EslifiedPlugin(d).records \in Seq(ToSet(EslifiedPlugin(d).records))
           /\ \A i \in 1..Len(d.group) :
                 EslifiedPlugin(d).records[i].raw = Renamed(TableOf(d), d.group[i].form)
<1>. DEFINE group == EslifiedGroups(<<d.group>>, Len(d.masters), d.min)[1]
<1>1. Len(d.group) \in Nat
  BY DraftForms
<1>3. Len(group) = Len(d.group)
  BY DraftForms
<1>4. \A i \in 1..Len(d.group) : group[i].form = Renamed(TableOf(d), d.group[i].form)
  BY DraftForms
<1>5. EslifiedPlugin(d) =
        [kind |-> "Light", masters |-> d.masters,
         records |-> [i \in 1..Len(group) |-> [raw |-> group[i].form, sig |-> group[i].sig,
                                               edid |-> group[i].edid]]]
  BY DEF EslifiedPlugin
<1>. HIDE DEF group
<1>6. EslifiedPlugin(d).records = [i \in 1..Len(d.group) |->
          [raw |-> group[i].form, sig |-> group[i].sig, edid |-> group[i].edid]]
  BY <1>3, <1>5
<1>. DEFINE recs == EslifiedPlugin(d).records
<1>7. DOMAIN recs = 1..Len(d.group) /\ \A i \in 1..Len(d.group) : recs[i].raw = group[i].form
  BY <1>6
<1>8. recs \in Seq(ToSet(recs)) /\ Len(recs) = Len(d.group)
  <2>1. recs = [i \in 1..Len(d.group) |-> recs[i]]
    BY <1>6
  <2>. HIDE DEF recs
  <2>2. \A i \in 1..Len(d.group) : recs[i] \in ToSet(recs)
    BY <1>7 DEF ToSet
  <2>. QED
    BY <1>1, <2>1, <2>2
<1>. QED
  BY <1>4, <1>5, <1>7, <1>8

\* eslify keeps the FormIDs of a draft apart.
LEMMA EslifiedFormsDiffer ==
    ASSUME NEW d \in Drafts
    PROVE  OneRecordPerForm(EslifiedPlugin(d))
<1>. SUFFICES ASSUME NEW i \in 1..Len(d.group), NEW j \in 1..Len(d.group), i # j
              PROVE  Renamed(TableOf(d), d.group[i].form) # Renamed(TableOf(d), d.group[j].form)
  BY EslifiedRecords DEF OneRecordPerForm
<1>. DEFINE f == d.group[i].form
            h == d.group[j].form
<1>1. f # h /\ f.file \in 0..Len(d.masters) /\ h.file \in 0..Len(d.masters)
      /\ Len(d.masters) \in 0..(EslFile - 1)
  BY DraftAssumption
<1>2. f.file # EslFile /\ h.file # EslFile
  BY <1>1, FormIdAssumption
<1>. HIDE DEF f, h
<1>3. /\ f \in DOMAIN TableOf(d) => TableOf(d)[f].file = EslFile
      /\ h \in DOMAIN TableOf(d) => TableOf(d)[h].file = EslFile
      /\ f \in DOMAIN TableOf(d) /\ h \in DOMAIN TableOf(d) => TableOf(d)[f] # TableOf(d)[h]
  BY <1>1, DraftTable
<1>4. Renamed(TableOf(d), f) # Renamed(TableOf(d), h)
  BY <1>1, <1>2, <1>3 DEF Renamed
<1>. QED
  BY <1>4 DEF f, h

LightPlugins == Plugins \union {EslifiedPlugin(d) : d \in Drafts}

\* Eslified plugins are plugins with one record per FormID.
LEMMA LightPluginsAreWellFormed ==
    WellFormed(LightPlugins) /\ \A p \in LightPlugins : OneRecordPerForm(p)
<1>1. \A d \in Drafts : /\ EslifiedPlugin(d).kind \in Kinds
                        /\ EslifiedPlugin(d).records \in Seq(ToSet(EslifiedPlugin(d).records))
  BY EslifiedRecords DEF Kinds
<1>. QED
  BY <1>1, CacheAssumption, PluginsAssumption, EslifiedFormsDiffer DEF WellFormed, LightPlugins

(***************************************************************************)
(* The invariant of the light way: the cache's, every draft's position     *)
(* holds the plugin eslify made of it, and the first slot was taken by     *)
(* then.                                                                   *)
(***************************************************************************)
DraftsAreCached ==
    \A i \in DOMAIN drafts : /\ i \in 1..Len(cached)
                             /\ drafts[i] \in Drafts
                             /\ cached[i].plugin = EslifiedPlugin(drafts[i])
                             /\ 0 \in DOMAIN byLightSlot /\ byLightSlot[0] <= i

LightInv == CacheInv(LightPlugins) /\ DraftsAreCached

\* The steps of LightLoad are those of a cache over the eslified plugins.
LEMMA NextLightIsCacheStep == [NextLight]_lightVars => CacheStep(LightPlugins)
<1>1. AddEslified => CacheStep(LightPlugins)
  <2>. SUFFICES ASSUME AddEslified PROVE CacheStep(LightPlugins)
    OBVIOUS
  <2>1. PICK d \in Drafts : Add(d.name, EslifiedPlugin(d))
    BY DEF AddEslified
  <2>2. Len(entries) < MaxEntries
    BY DEF AddEslified
  <2>3. d.name \in Names /\ EslifiedPlugin(d) \in LightPlugins
    BY DraftAssumption DEF LightPlugins
  <2>. QED
    BY <2>1, <2>2, <2>3 DEF CacheStep
<1>2. AddOther => CacheStep(LightPlugins)
  BY DEF AddOther, AddPlugin, CacheStep, LightPlugins
<1>3. Lookup => CacheStep(LightPlugins)
  BY DEF Lookup, CacheStep
<1>4. UNCHANGED lightVars => CacheStep(LightPlugins)
  BY DEF lightVars, CacheStep
<1>. QED
  BY <1>1, <1>2, <1>3, <1>4 DEF NextLight

\* Plugins are only appended.
LEMMA CacheStepAppends ==
    ASSUME NEW S, WellFormed(S), CacheInv(S), CacheStep(S)
    PROVE  \A i \in 1..Len(cached) : i \in 1..Len(cached') /\ cached'[i] = cached[i]
<1>1. CASE \E name \in Names, plugin \in S : Len(entries) < MaxEntries /\ Add(name, plugin)
  <2>1. PICK name \in Names, plugin \in S : Add(name, plugin)
    BY <1>1
  <2>2. CASE pushed' = "ok"
    <3>. DEFINE new == [name |-> Lower[name], plugin |-> plugin]
    <3>1. cached' = Append(cached, new)
      BY <2>1, <2>2 DEF Add
    <3>2. cached \in Seq([name : Names, plugin : S])
      BY DEF CacheInv
    <3>3. new \in [name : Names, plugin : S]
      BY LoadOrderAssumption
    <3>. HIDE DEF new
    <3>. QED
      BY <3>1, <3>2, <3>3
  <2>3. CASE pushed' # "ok"
    BY <2>1, <2>3 DEF Add, cacheVars
  <2>. QED
    BY <2>2, <2>3
<1>2. CASE FindByEditorId
  BY <1>2 DEF FindByEditorId
<1>3. CASE UNCHANGED vars
  BY <1>3 DEF vars, cacheVars
<1>. QED
  BY <1>1, <1>2, <1>3 DEF CacheStep

\* A slot that is taken stays with its plugin.
LEMMA CacheStepKeepsSlots ==
    ASSUME NEW S, WellFormed(S), CacheInv(S), CacheStep(S)
    PROVE  \A s \in DOMAIN byLightSlot : s \in DOMAIN byLightSlot' /\ byLightSlot'[s] = byLightSlot[s]
<1>1. CASE \E name \in Names, plugin \in S : Len(entries) < MaxEntries /\ Add(name, plugin)
  <2>1. PICK name \in Names, plugin \in S : Add(name, plugin)
    BY <1>1
  <2>2. Push(name, plugin.kind) /\ plugin.kind \in Kinds /\ Inv
    BY <2>1 DEF Add, WellFormed, CacheInv
  <2>3. CASE pushed' = "ok"
    BY <2>2, <2>3, PushGrows DEF Grows
  <2>4. CASE pushed' # "ok"
    BY <2>2, <2>4, RefusedPush
  <2>. QED
    BY <2>3, <2>4
<1>2. CASE FindByEditorId
  BY <1>2 DEF FindByEditorId, loadOrderVars
<1>3. CASE UNCHANGED vars
  BY <1>3 DEF vars, loadOrderVars
<1>. QED
  BY <1>1, <1>2, <1>3 DEF CacheStep

\* A light plugin that is taken leaves no question who has the first slot.
LEMMA LightPushTakesFirstSlot ==
    ASSUME Inv, NEW name, PushLight(name)
    PROVE  0 \in DOMAIN byLightSlot'
<1>1. byLightSlot' = Set(byLightSlot, lightSlotCounter, NextEntry)
  BY DEF PushLight
<1>2. DOMAIN byLightSlot = 0..(lightSlotCounter - 1) /\ lightSlotCounter \in Nat
  BY LoadOrderAssumption DEF Inv
<1>3. DOMAIN byLightSlot' = DOMAIN byLightSlot \union {lightSlotCounter}
  BY <1>1 DEF Set
<1>. QED
  BY <1>2, <1>3

\* Eslifying and loading drafts keeps the invariant.
LEMMA LightStepKeepsInv == LightInv /\ [NextLight]_lightVars => LightInv'
<1>. SUFFICES ASSUME LightInv, [NextLight]_lightVars PROVE LightInv'
  OBVIOUS
<1>1. CacheStep(LightPlugins) /\ WellFormed(LightPlugins) /\ CacheInv(LightPlugins)
  BY NextLightIsCacheStep, LightPluginsAreWellFormed DEF LightInv
<1>2. CacheInv(LightPlugins)'
  BY <1>1, CacheStepKeepsInv
<1>3. \A i \in 1..Len(cached) : i \in 1..Len(cached') /\ cached'[i] = cached[i]
  BY <1>1, CacheStepAppends
<1>6. \A s \in DOMAIN byLightSlot : s \in DOMAIN byLightSlot' /\ byLightSlot'[s] = byLightSlot[s]
  BY <1>1, CacheStepKeepsSlots
<1>4. CASE UNCHANGED drafts
  <2>1. ASSUME NEW i \in DOMAIN drafts
        PROVE  /\ i \in 1..Len(cached') /\ drafts[i] \in Drafts
               /\ cached'[i].plugin = EslifiedPlugin(drafts[i])
               /\ 0 \in DOMAIN byLightSlot' /\ byLightSlot'[0] <= i
    BY <1>3, <1>6 DEF LightInv, DraftsAreCached
  <2>. QED
    BY <1>2, <1>4, <2>1 DEF LightInv, DraftsAreCached
<1>5. CASE AddEslified /\ pushed' = "ok"
  <2>1. PICK d \in Drafts : Add(d.name, EslifiedPlugin(d)) /\ drafts' = Set(drafts, Len(cached'), d)
    BY <1>5 DEF AddEslified
  <2>. DEFINE new == [name |-> Lower[d.name], plugin |-> EslifiedPlugin(d)]
  <2>2. cached' = Append(cached, new) /\ new.plugin = EslifiedPlugin(d)
    BY <1>5, <2>1 DEF Add
  <2>3. cached \in Seq([name : Names, plugin : LightPlugins])
    BY <1>1 DEF CacheInv
  <2>4. new \in [name : Names, plugin : LightPlugins]
    BY LoadOrderAssumption, DraftAssumption DEF LightPlugins
  <2>. HIDE DEF new
  <2>5. Len(cached') \in 1..Len(cached') /\ cached'[Len(cached')] = new
    BY <2>2, <2>3, <2>4
  <2>6. /\ DOMAIN drafts' = DOMAIN drafts \union {Len(cached')}
        /\ drafts'[Len(cached')] = d
        /\ \A i \in DOMAIN drafts : i # Len(cached') => drafts'[i] = drafts[i]
    BY <2>1 DEF Set
  <2>7. ASSUME NEW i \in DOMAIN drafts, i # Len(cached')
        PROVE  /\ i \in 1..Len(cached') /\ drafts'[i] \in Drafts
               /\ cached'[i].plugin = EslifiedPlugin(drafts'[i])
               /\ 0 \in DOMAIN byLightSlot' /\ byLightSlot'[0] <= i
    BY <1>3, <1>6, <2>6, <2>7 DEF LightInv, DraftsAreCached
  <2>8. 0 \in DOMAIN byLightSlot' /\ byLightSlot'[0] <= Len(cached')
    <3>1. PushLight(d.name) /\ Inv
      BY <1>1, <1>5, <2>1, EslifiedRecords DEF Add, Push, PushRejected, CacheInv
    <3>2. 0 \in DOMAIN byLightSlot'
      BY <3>1, LightPushTakesFirstSlot
    <3>3. Inv' /\ Len(cached') = Len(entries')
      BY <1>2 DEF CacheInv
    <3>4. \A s \in DOMAIN byLightSlot' : byLightSlot'[s] \in 1..Len(entries')
      BY <3>3 DEF Inv
    <3>. QED
      BY <3>2, <3>3, <3>4
  <2>9. DraftsAreCached'
    BY <2>2, <2>5, <2>6, <2>7, <2>8 DEF DraftsAreCached
  <2>. QED
    BY <1>2, <2>9 DEF LightInv
<1>. QED
  BY <1>4, <1>5 DEF NextLight, AddEslified, AddOther, Lookup, lightVars

\* The invariant holds whatever is eslified, added and looked up.
THEOREM LightInvHolds == SpecLight => []LightInv
<1>1. InitLight => LightInv
  <2>. SUFFICES ASSUME InitLight PROVE LightInv
    OBVIOUS
  <2>1. CacheInv(LightPlugins)
    BY CacheInitInv DEF InitLight
  <2>2. drafts = <<>>
    BY DEF InitLight
  <2>3. DOMAIN drafts = {}
    BY <2>2
  <2>. QED
    BY <2>1, <2>3 DEF LightInv, DraftsAreCached
<1>. QED
  BY <1>1, LightStepKeepsInv, PTL DEF SpecLight

\* The own records of a draft are found under the plugin with the first slot.
LEMMA LightInvImpliesOwners ==
    ASSUME LightInv
    PROVE  FirstSlotOwnsItsRecords
<1>. SUFFICES ASSUME NEW i \in DOMAIN drafts
              PROVE  LET d == drafts[i]
                     IN  /\ \A raw \in OwnRaws(d) :
                               /\ 0 \in DOMAIN byLightSlot
                               /\ OwnerOf(i, raw) = entries[byLightSlot[0]].name
                               /\ Resolve(raw, cached[i].name, d.masters) \in DOMAIN byGlobal
                         /\ \A k \in 1..Len(d.group) :
                               LET f == d.group[k].form
                               IN  f.file < Len(d.masters) =>
                                     Resolve(f, cached[i].name, d.masters) \in DOMAIN byGlobal
  BY DEF FirstSlotOwnsItsRecords
<1>. DEFINE d == drafts[i]
<1>1. /\ i \in 1..Len(cached) /\ d \in Drafts /\ cached[i].plugin = EslifiedPlugin(d)
      /\ 0 \in DOMAIN byLightSlot /\ byLightSlot[0] <= i
  BY DEF LightInv, DraftsAreCached
<1>. HIDE DEF d
<1>2. cached[i].plugin.masters = d.masters
  BY <1>1, EslifiedRecords
<1>3. /\ Len(d.masters) \in 0..(EslFile - 1)
      /\ \A k \in 1..Len(d.group) : /\ d.group[k].form.file \in 0..Len(d.masters)
                                    /\ ~IsNull(d.group[k].form)
  BY <1>1, DraftAssumption
<1>4. ASSUME NEW raw \in OwnRaws(d)
      PROVE  /\ OwnerOf(i, raw) = entries[byLightSlot[0]].name
             /\ Resolve(raw, cached[i].name, d.masters) \in DOMAIN byGlobal
  <2>1. PICK k \in 1..Len(d.group) :
           d.group[k].form.file = Len(d.masters) /\ raw = Renamed(TableOf(d), d.group[k].form)
    <3>. DEFINE group == EslifiedGroups(<<d.group>>, Len(d.masters), d.min)[1]
    <3>1. raw \in {group[k].form : k \in {k \in 1..Len(group) :
                                            d.group[k].form.file = Len(d.masters)}}
      BY <1>4 DEF OwnRaws
    <3>2. /\ Len(group) = Len(d.group)
          /\ \A k \in 1..Len(d.group) : group[k].form = Renamed(TableOf(d), d.group[k].form)
      BY <1>1, DraftForms
    <3>. HIDE DEF group
    <3>. QED
      BY <3>1, <3>2
  <2>2. d.group[k].form \in DOMAIN TableOf(d)
    BY <1>1, <2>1, DraftTable
  <2>3. raw.file = EslFile /\ raw.object \in 0..(EslObjects - 1)
    BY <1>1, <2>1, <2>2, DraftTable DEF Renamed
  <2>4. EslSlot(raw) = 0 /\ ~IsNull(raw)
    <3>1. EslSlot(raw) = 0
      BY <2>3, FormIdAssumption DEF EslSlot
    <3>2. EslFile # 0
      BY <1>3, FormIdAssumption
    <3>. QED
      BY <2>3, <3>1, <3>2 DEF IsNull
  <2>. DEFINE g == GlobalFormId(entries[byLightSlot[0]].name, EslObject(raw))
  <2>5. Resolve(raw, cached[i].name, d.masters) = g
    BY <1>1, <2>3, <2>4 DEF Resolve, ResolveLight
  <2>6. g # None /\ g.plugin = entries[byLightSlot[0]].name
    BY DEF GlobalFormId, None
  <2>7. ResolveIn(entries, byLightSlot, raw, cached[i].name, d.masters) = g
    BY <2>5, ResolveIsResolveIn
  <2>8. OwnerIn(byLightSlot, raw, i)
    BY <1>1, <2>4 DEF OwnerIn
  <2>9. k \in 1..Len(RecordsAt(cached, i)) /\ RecordsAt(cached, i)[k].raw = raw
    BY <1>1, <2>1, EslifiedRecords DEF RecordsAt
  <2>. HIDE DEF g
  <2>10. g \in DOMAIN byGlobal
    BY <1>1, <1>2, <2>4, <2>6, <2>7, <2>8, <2>9 DEF LightInv, CacheInv, Covered
  <2>. QED
    BY <1>2, <2>5, <2>6, <2>10 DEF OwnerOf
<1>5. ASSUME NEW k \in 1..Len(d.group), d.group[k].form.file < Len(d.masters)
      PROVE  Resolve(d.group[k].form, cached[i].name, d.masters) \in DOMAIN byGlobal
  <2>. DEFINE f == d.group[k].form
              g == ResolveIn(entries, byLightSlot, f, cached[i].name, d.masters)
  <2>1. f.file # Len(d.masters) /\ f.file # EslFile /\ ~IsNull(f)
    BY <1>3, <1>5, FormIdAssumption
  <2>2. f \notin DOMAIN TableOf(d)
    BY <1>1, <2>1, DraftTable
  <2>3. /\ k \in 1..Len(RecordsAt(cached, i))
        /\ RecordsAt(cached, i)[k].raw = f
        /\ cached[i].plugin.masters = d.masters
    BY <1>1, <2>2, EslifiedRecords DEF RecordsAt, Renamed
  <2>4. OwnerIn(byLightSlot, f, i)
    BY <2>1 DEF OwnerIn
  <2>5. g # None
    BY <1>5, <2>1 DEF ResolveIn, ResolveRegular, GlobalFormId, None
  <2>6. Resolve(f, cached[i].name, d.masters) = g
    BY ResolveIsResolveIn
  <2>. HIDE DEF f
  <2>7. g \in DOMAIN byGlobal
    BY <1>1, <2>1, <2>3, <2>4, <2>5 DEF LightInv, CacheInv, Covered
  <2>. QED
    BY <2>6, <2>7 DEF f
<1>. QED
  BY <1>1, <1>4, <1>5 DEF d

\* The records a light plugin defines are found and belong to the plugin that
\* has slot 0, and its overrides reach their masters (PluginWriter::eslify,
\* PluginCache::add).
THEOREM LightOwners == SpecLight => []FirstSlotOwnsItsRecords
<1>1. LightInv => FirstSlotOwnsItsRecords
  BY LightInvImpliesOwners
<1>. QED
  BY <1>1, LightInvHolds, PTL

-----------------------------------------------------------------------------
(***************************************************************************)
(* What the cache promises holds with eslified plugins among the added     *)
(* ones.                                                                   *)
(***************************************************************************)
LEMMA LightInvIsCacheInv ==
    LightInv => /\ CacheInv(LightPlugins)
                /\ WellFormed(LightPlugins)
                /\ \A p \in LightPlugins : OneRecordPerForm(p)
BY LightPluginsAreWellFormed DEF LightInv

\* The by_signature lists stay a partition of the winners when eslified
\* plugins are added (PluginCache::add).
THEOREM LightPartition == SpecLight => []TypeListsPartitionWinners
<1>1. LightInv => TypeListsPartitionWinners
  BY LightInvIsCacheInv, InvImpliesPartition
<1>. QED
  BY <1>1, LightInvHolds, PTL

\* Lookups find the winners among eslified and other plugins
\* (PluginCache::resolve_record, find_by_editor_id).
THEOREM LightFindsWinners == SpecLight => []WinnersAreFound
<1>1. LightInv => WinnersAreFound
  BY LightInvIsCacheInv, InvImpliesLaterWins, InvImpliesLookups, InvImpliesEditorIds
     DEF WinnersAreFound
<1>. QED
  BY <1>1, LightInvHolds, PTL

\* With eslified plugins too, the cache implements WinningOverrides.
THEOREM LightOverrides == SpecLight => ImplementsOverrides
<1>1. InitLight => Overrides!Init
  BY DEF InitLight, Init, Overrides!Init
<1>2. LightInv /\ [NextLight]_lightVars => [Overrides!AddPlugin]_<<Len(cached), Winner>>
  BY LightInvIsCacheInv, NextLightIsCacheStep, CacheStepOverrides
<1>3. LightInv /\ [NextLight]_lightVars =>
         [Overrides!AddPlugin]_<<Len(cached), [g \in DOMAIN byGlobal |-> byGlobal[g].entry]>>
  BY <1>2 DEF Winner
<1>. QED
  BY <1>1, <1>3, LightInvHolds, PTL DEF SpecLight, ImplementsOverrides, Overrides!Spec

\* The load order inside the cache hands out every index and slot once.
THEOREM LightConsistent == SpecLight => []LoadOrderIsConsistent
<1>1. LightInv => LoadOrderIsConsistent
  BY LightInvIsCacheInv, InvImpliesUnique DEF CacheInv, Inv, LoadOrderIsConsistent
<1>. QED
  BY <1>1, LightInvHolds, PTL

\* A slot keeps its owner while plugins are added and records looked up, so a
\* light FormID keeps its meaning (LoadOrder::resolve).
THEOREM LightStable == SpecLight => ResolutionIsStable
<1>1. LightInv /\ [NextLight]_lightVars => [SlotsKeepTheirOwners]_loadOrderVars
  BY LightInvIsCacheInv, NextLightIsCacheStep, CacheStepIsLoadOrderStep, StepKeepsOwners
     DEF CacheInv
<1>. QED
  BY <1>1, LightInvHolds, PTL DEF SpecLight, ResolutionIsStable
=============================================================================
