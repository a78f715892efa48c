----------------------------- MODULE LoadOrder -----------------------------
(***************************************************************************)
(* LoadOrder (load_order.rs): the list of active plugins, the indices and  *)
(* light slots handed out to them, and the resolution of a raw FormID to   *)
(* the plugin that owns the record.  Plugins are only ever appended.       *)
(***************************************************************************)
EXTENDS FormIds, Sequences

CONSTANTS
    Names,        \* plugin filenames as callers spell them
    Lower,        \* str::to_lowercase on Names
    MaxEntries,   \* bound: plugins pushed in one behaviour
    LightSlots,   \* size of the slot space (0x1000)
    U8, U16       \* the ranges of the counters' machine types

\* Regular plugins take the indices below EslFile.
ASSUME LoadOrderAssumption ==
    /\ Lower \in [Names -> Names]
    /\ MaxEntries \in Nat
    /\ LightSlots \in Nat \ {0}
    /\ U8 \in Nat /\ U16 \in Nat
    /\ EslFile < U8 /\ LightSlots < U16

VARIABLES
    entries,          \* the plugins in load order
    byName,           \* canonical name -> position in entries
    regularIndex,     \* next file index of a regular plugin
    lightSlotCounter, \* next light slot
    byLightSlot,      \* light slot -> position in entries
    pushed            \* outcome of the last push

loadOrderVars ==
    <<entries, byName, regularIndex, lightSlotCounter, byLightSlot, pushed>>

-----------------------------------------------------------------------------
None   == [none |-> TRUE]   \* Option::None
NoSlot == -1                \* the light_slot of a regular plugin

Kinds == {"Plugin", "Master", "Light", "Medium", "Update"}

Entries == [name : Names, index : Nat, kind : Kinds, slot : Nat \union {NoSlot}]

EmptyTable == [x \in {} |-> x]

Set(f, k, v) == [x \in DOMAIN f \union {k} |-> IF x = k THEN v ELSE f[x]]

InitLoadOrder ==
    /\ entries = <<>>
    /\ byName = EmptyTable
    /\ regularIndex = 0
    /\ lightSlotCounter = 0
    /\ byLightSlot = EmptyTable
    /\ pushed = "none"

NextEntry == Len(entries) + 1

Append_(name, index, kind, slot) ==
    /\ entries' = Append(entries, [name |-> Lower[name], index |-> index,
                                   kind |-> kind, slot |-> slot])
    /\ byName' = Set(byName, Lower[name], NextEntry)
    /\ pushed' = "ok"

\* Mutants: the limits are off by one, or absent.
NoSlotLimit        == TRUE
IndexLimitOffByOne == regularIndex <= EslFile

HasFreeSlot  == lightSlotCounter < LightSlots
HasFreeIndex == regularIndex < EslFile

PushLight(name) ==
    /\ HasFreeSlot
    /\ byLightSlot' = Set(byLightSlot, lightSlotCounter, NextEntry)
    /\ lightSlotCounter' = (lightSlotCounter + 1) % U16
    /\ Append_(name, EslFile, "Light", lightSlotCounter)
    /\ UNCHANGED regularIndex

PushRegular(name, kind) ==
    /\ HasFreeIndex
    /\ regularIndex' = (regularIndex + 1) % U8
    /\ Append_(name, regularIndex, kind, NoSlot)
    /\ UNCHANGED <<lightSlotCounter, byLightSlot>>

PushRejected(error) ==
    /\ pushed' = error
    /\ UNCHANGED <<entries, byName, regularIndex, lightSlotCounter, byLightSlot>>

\* LoadOrder::push
Push(name, kind) ==
    \/ kind = "Light" /\ PushLight(name)
    \/ kind = "Light" /\ ~HasFreeSlot /\ PushRejected("LightSlotOverflow")
    \/ kind # "Light" /\ PushRegular(name, kind)
    \/ kind # "Light" /\ ~HasFreeIndex /\ PushRejected("LoadOrderIndexFull")

-----------------------------------------------------------------------------
GlobalFormId(name, object) == [plugin |-> name, object |-> object]

\* LoadOrder::resolve for a FormID read from the plugin named source.
ResolveLight(form) ==
    IF EslSlot(form) \in DOMAIN byLightSlot
    THEN GlobalFormId(entries[byLightSlot[EslSlot(form)]].name, EslObject(form))
    ELSE None

ResolveRegular(form, source, masters) ==
    IF form.file < Len(masters)
    THEN GlobalFormId(Lower[masters[form.file + 1]], form.object)
    ELSE IF form.file = Len(masters)
    THEN GlobalFormId(Lower[source], form.object)
    ELSE None

Resolve(form, source, masters) ==
    IF form.file = EslFile THEN ResolveLight(form)
    ELSE ResolveRegular(form, source, masters)

-----------------------------------------------------------------------------
NextLoadOrder ==
    \E name \in Names, kind \in Kinds :
        Len(entries) < MaxEntries /\ Push(name, kind)

SpecLoadOrder == InitLoadOrder /\ [][NextLoadOrder]_loadOrderVars

-----------------------------------------------------------------------------
\* Properties.

LightAt(i)   == entries[i].kind = "Light"
Lights       == {i \in 1..Len(entries) : LightAt(i)}
Regulars     == {i \in 1..Len(entries) : ~LightAt(i)}

\* Type invariant.
LoadOrderTypeOK ==
    /\ entries \in Seq(Entries)
    /\ byName \in [DOMAIN byName -> 1..Len(entries)]
    /\ regularIndex \in 0..EslFile
    /\ lightSlotCounter \in 0..LightSlots
    /\ byLightSlot \in [0..(lightSlotCounter - 1) -> 1..Len(entries)]
    /\ pushed \in {"none", "ok", "LightSlotOverflow", "LoadOrderIndexFull"}

\* The two halves of LoadOrderIsConsistent.
\*
\* No two regular plugins share a file index, none takes the sentinel byte
\* ("would consume file index 0xFE", load_order.rs:89), and no two light
\* plugins share a slot, however many pushes fail at the limits in between.
IndicesAreUnique ==
    /\ \A i \in Regulars : entries[i].index < EslFile /\ entries[i].slot = NoSlot
    /\ \A i, j \in Regulars : i # j => entries[i].index # entries[j].index
    /\ \A i \in Lights : entries[i].index = EslFile
                         /\ entries[i].slot \in 0..(LightSlots - 1)
    /\ \A i, j \in Lights : i # j => entries[i].slot # entries[j].slot

\* The slot table is the inverse of the slots in the entries.
SlotTableMatchesEntries ==
    /\ \A i \in Lights : entries[i].slot \in DOMAIN byLightSlot
                         /\ byLightSlot[entries[i].slot] = i
    /\ \A s \in DOMAIN byLightSlot :
          byLightSlot[s] \in Lights /\ entries[byLightSlot[s]].slot = s

\* The two ways from a FormID to a plugin (push and resolve) agree: every
\* index and every slot names one plugin, and the slot table leads to it.
LoadOrderIsConsistent == IndicesAreUnique /\ SlotTableMatchesEntries

\* A light FormID that has an owner keeps it: no later push, successful or
\* rejected, moves a slot to another plugin.
SlotsKeepTheirOwners ==
    \A s \in DOMAIN byLightSlot :
        /\ s \in DOMAIN byLightSlot'
        /\ entries'[byLightSlot'[s]].name = entries[byLightSlot[s]].name

ResolutionIsStable == [][SlotsKeepTheirOwners]_loadOrderVars
=============================================================================
