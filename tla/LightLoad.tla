----------------------------- MODULE LightLoad -----------------------------
(***************************************************************************)
(* The way of a light plugin: PluginWriter::eslify renames its records, it *)
(* is written, opened again, and added to a PluginCache, where a light     *)
(* FormID is resolved through the slot of its owner.                       *)
(***************************************************************************)
EXTENDS PluginCache, Eslify

CONSTANTS
    Drafts,   \* plugins before eslify: [name, masters, group, min]
    MaxDrafts \* bound: drafts added in one behaviour

\* A draft refers to its masters and itself, has every FormID once, and has no
\* more records of its own than eslify accepts.
ASSUME DraftAssumption ==
    \A d \in Drafts :
        /\ d.name \in Names
        /\ Len(d.masters) \in 0..(EslFile - 1)
        /\ d.min \in Nat
        /\ Cardinality(Owned(<<d.group>>, Len(d.masters))) <= EslObjects - d.min
        /\ d.group \in Seq(ToSet(d.group))
        /\ \A i \in 1..Len(d.group) :
              /\ {"form", "words"} \subseteq DOMAIN d.group[i]
              /\ d.group[i].form.file \in 0..Len(d.masters)
              /\ ~IsNull(d.group[i].form)
              /\ \A j \in 1..Len(d.group) : i # j => d.group[i].form # d.group[j].form

VARIABLE drafts   \* position in cached -> the draft it was written from

lightVars == <<vars, drafts>>

\* What the reader finds in the file eslify and write_to_vec produced.
EslifiedPlugin(d) ==
    LET group == EslifiedGroups(<<d.group>>, Len(d.masters), d.min)[1]
    IN  [kind |-> "Light", masters |-> d.masters,
         records |-> [i \in 1..Len(group) |->
                        [raw |-> group[i].form, sig |-> group[i].sig,
                         edid |-> group[i].edid]]]

InitLight == Init /\ drafts = <<>>

AddEslified ==
    /\ Len(entries) < MaxEntries
    /\ Cardinality(DOMAIN drafts) < MaxDrafts
    /\ \E d \in Drafts :
          /\ Add(d.name, EslifiedPlugin(d))
          /\ drafts' = IF pushed' = "ok" THEN Set(drafts, Len(cached'), d) ELSE drafts

AddOther == AddPlugin /\ UNCHANGED drafts

Lookup == FindByEditorId /\ UNCHANGED drafts

NextLight == AddEslified \/ AddOther \/ Lookup

SpecLight == InitLight /\ [][NextLight]_lightVars

-----------------------------------------------------------------------------
\* Properties.

\* The raw FormIDs under which eslify put the draft's own records.
OwnRaws(d) ==
    LET group == EslifiedGroups(<<d.group>>, Len(d.masters), d.min)[1]
    IN  {group[i].form : i \in {i \in 1..Len(group) :
                                   d.group[i].form.file = Len(d.masters)}}

OwnerOf(i, raw) == Resolve(raw, cached[i].name, cached[i].plugin.masters).plugin

\* eslify writes slot 0 into the FormIDs of the records a light plugin defines,
\* and the slot tells their owner: whichever plugin they come from and whatever
\* was added since, they are found, and belong to the light plugin that was
\* added first, to their own one only if it is that ("so that the ESL slot is
\* available when resolving this plugin's own ESL-encoded FormIDs",
\* cache.rs:133).  Overrides of a master keep their owner whatever slot the
\* plugin has.
FirstSlotOwnsItsRecords ==
    \A i \in DOMAIN drafts :
        LET d == drafts[i]
        IN  /\ \A raw \in OwnRaws(d) :
                  /\ 0 \in DOMAIN byLightSlot
                  /\ OwnerOf(i, raw) = entries[byLightSlot[0]].name
                  /\ Resolve(raw, cached[i].name, d.masters) \in DOMAIN byGlobal
            /\ \A k \in 1..Len(d.group) :
                  LET f == d.group[k].form
                  IN  f.file < Len(d.masters) =>
                        Resolve(f, cached[i].name, d.masters) \in DOMAIN byGlobal
=============================================================================
