-------------------------- MODULE RecordMigration --------------------------
(***************************************************************************)
(* Opening an editor on a record (editor.rs): the after-load callbacks of  *)
(* the schema run in their order, each on the subrecords that its field    *)
(* had before the first of them ran, and every output is applied at once.  *)
(* An error leaves the editor unopened.  A record that was opened, saved   *)
(* and loaded again is opened again.                                       *)
(***************************************************************************)
EXTENDS AfterLoadHandlers

CONSTANTS
    Sources,    \* [root, bindings, game, record, configured, facts]
    MaxOpens    \* bound: how often one record is opened

VARIABLES
    source,     \* the schema, the inputs of the handlers and the loaded record
    record,     \* the record as it is now
    binding,    \* the callback that runs, 0 for the generic ones
    targets,    \* the subrecords it is still to be run on, 0 for the record
    status,     \* "opening", "open" or "failed"
    opens       \* number of times the record was opened

vars == <<source, record, binding, targets, status, opens>>

-----------------------------------------------------------------------------

\* The registered handlers.
Handle(name, i) ==
    CASE name = "legacy_ctda_run_on" -> LegacyCtda(i)
      [] name = "legacy_efit_actor_value" -> LegacyEfit(i)
      [] name = "inert_modern_efit" -> VerifyModernEfit(i)
      [] name = "embedded_script_type" -> EmbeddedScript(i)
      [] name = "oblivion_efit_actor_value" -> OblivionEfit(i)
      [] name = "inert_oblivion_efix" -> VerifyOblivionEfix(i)
      [] name = "remove_orphaned_keyword_array" -> RemoveOrphanedKeywordArray(i)
      [] name = "inert_body_template" -> VerifyInertBodyTemplate(i)
      [] name = "message_display_time" -> Message(i)
      [] name = "remove_empty_default_objects" -> DefaultObjectArray(i)
      [] name = "skyrim_weapon_flags" -> SkyrimWeapon(i)
      [] name = "light_defaults" -> Light(i)
      [] name = "skyrim_cell" -> SkyrimCell(i)
      [] name = "fallout_cell" -> FalloutCell(i)
      [] name = "oblivion_cell" -> OblivionCell(i)
      [] name = "oblivion_path_grid" -> OblivionPathGrid(i)
      [] name = "oblivion_inter_cell_connections" -> OblivionInterCellConnections(i)
      [] name = "legacy_effect_shader_birth_ratios" -> LegacyEffectShader(i)
      [] name = "legacy_faction" -> LegacyFaction(i)
      [] name = "legacy_water" -> LegacyWater(i)
      [] name = "oblivion_reference" -> OblivionReference(i)
      [] name = "oblivion_leveled_list" -> OblivionLeveledList(i)
      [] name = "oblivion_magic_effect" -> OblivionMagicEffect(i)
      [] name = "legacy_npc" -> LegacyNpc(i)
      [] name = "legacy_info" -> LegacyInfo(i)
      [] name = "legacy_sound" -> LegacySound(i)
      [] name = "legacy_weapon" -> LegacyWeapon(i)
      [] name = "legacy_package" -> LegacyPackage(i)
      [] name = "fallout_leveled_list" -> FalloutLeveledList(i)
      [] name = "fallout_npc" -> FalloutNpc(i)
      [] name = "legacy_magic_effect" -> LegacyMagicEffect(i)
      [] name = "skyrim_reference" -> SkyrimReference(i)
      [] name = "fallout_reference" -> FalloutReference(i)
      [] name = "fallout_scene_behavior" -> FalloutSceneBehavior(i)
      [] name = "remove_offset_data" -> RemoveOffsetData(i)
      [] name = "remove_worldspace_offset_data" -> RemoveWorldspaceOffsetData(i)
      [] name = "worldspace" -> Worldspace(i)
      [] name = "region_point_order" -> RegionPointOrder(i)

Invoke(name, path, target) ==
    Handle(name, [game |-> source.game, record |-> record, target |-> target, path |-> path,
                  configured |-> source.configured, facts |-> source.facts])

-----------------------------------------------------------------------------
(* The callbacks.                                                          *)

Root == source.root

RecordPath == <<record.sig>>

FieldPaths == {leaf.path : leaf \in Range(Leaves(Root))}

\* after_load_anchor_path: the innermost subrecord that the path is in, the
\* path itself if there is none.
Anchor(b) ==
    LET around == {path \in FieldPaths : IsPrefix(path, b.path)}
    IN  IF b.suffix # <<>> THEN b.path \o b.suffix
        ELSE IF around = {} THEN b.path
        ELSE CHOOSE path \in around : \A other \in around : Len(other) <= Len(path)

TargetsOf(b) ==
    IF b.path = RecordPath /\ Anchor(b) = b.path
    THEN <<0>>
    ELSE AssignedTo(Root, record.subs, Anchor(b))

\* The output of the handler is applied to the record.
Applied(name, path, target) ==
    \E result \in {ApplyOutput(Root, record, target, Invoke(name, path, target))} :
        /\ record' = result.record
        /\ status' = IF result.ok THEN status ELSE "failed"

Init ==
    /\ source \in Sources
    /\ record = source.record
    /\ binding = 0
    /\ targets = <<>>
    /\ status = "opening"
    /\ opens = 1

\* apply_generic_after_load_callbacks
GenericCallback ==
    /\ status = "opening" /\ binding = 0
    /\ IF record.sig = "WRLD"
       THEN Applied("remove_worldspace_offset_data", RecordPath, 0)
       ELSE UNCHANGED <<record, status>>
    /\ binding' = 1
    /\ UNCHANGED <<source, targets, opens>>

\* The first of the targets of a callback: they are found now.
FirstTarget ==
    /\ status = "opening" /\ binding \in DOMAIN source.bindings /\ targets = <<>>
    /\ LET b == source.bindings[binding]
           found == TargetsOf(b)
       IN  IF found = <<>>
           THEN binding' = binding + 1 /\ UNCHANGED <<record, status, targets>>
           ELSE /\ Applied(b.handler, b.path, Head(found))
                /\ targets' = Tail(found)
                /\ binding' = IF Len(found) = 1 THEN binding + 1 ELSE binding
    /\ UNCHANGED <<source, opens>>

NextTarget ==
    /\ status = "opening" /\ targets # <<>>
    /\ LET b == source.bindings[binding]
       IN  /\ Applied(b.handler, b.path, Head(targets))
           /\ targets' = Tail(targets)
           /\ binding' = IF Len(targets) = 1 THEN binding + 1 ELSE binding
    /\ UNCHANGED <<source, opens>>

Opened ==
    /\ status = "opening" /\ binding > Len(source.bindings)
    /\ status' = "open"
    /\ UNCHANGED <<source, record, binding, targets, opens>>

\* The record is saved, loaded and opened again.
Reopen ==
    /\ status = "open" /\ opens < MaxOpens
    /\ opens' = opens + 1
    /\ status' = "opening"
    /\ binding' = 0
    /\ UNCHANGED <<source, record, targets>>

Next == GenericCallback \/ FirstTarget \/ NextTarget \/ Opened \/ Reopen

Spec == Init /\ [][Next]_vars

-----------------------------------------------------------------------------
(* Properties.                                                             *)

\* What xEdit's rules themselves do again at every load: a birth ratio that is
\* still a fraction after the conversion (LegacyEffectShader), region ends that
\* are not numbers (RegionPointOrder), and all but the first of several
\* subrecords of which the handler removes the first.
Drifts ==
    LET subs == source.record.subs
    IN  \/ \E sub \in Range(subs) : sub.sig = "DATA" /\ record.sig = "EFSH"
               /\ \E k \in 1..2 : sub.data.ratio[k] \in 1..12 \/ sub.data.ratio[k] < 0
        \/ \E sub \in Range(subs) : sub.sig = "RPLD"
               /\ \E point \in Range(sub.data.points) : NaN \in {point.x, point.y}
        \/ \E k, l \in DOMAIN subs : k # l /\ subs[k].sig = subs[l].sig /\ subs[k].sig \in source.removes

\* Migrating is idempotent: opening a record that was opened and saved before
\* changes nothing, so a plugin does not change by being loaded and saved.
ReopenChangesNothing == [][opens > 1 /\ ~Drifts => record' = record]_vars

\* The subrecords that the schema declares but finds in no field.
Misplaced(subs) ==
    LET match == Interpret(Root, subs)
    IN  {k \in DOMAIN subs : subs[k].sig \in Declared(Root) /\ match.path[k] = None}

Others(subs) == SelectSeq(subs, LAMBDA sub : sub.sig \notin source.writes)

\* schema_insertion_index: no migration makes a subrecord unreachable that the
\* schema could read before, wherever the record had its other subrecords; and
\* those that its rule is not about, unknown ones included, stay as they are
\* and in their order.
MigrationKeepsFields ==
    [][/\ Cardinality(Misplaced(record'.subs)) <= Cardinality(Misplaced(record.subs))
       /\ Others(record'.subs) = Others(record.subs)]_vars

\* Old visual data alone is read as the damage field, which has the same
\* signature: LegacyWater then finds no field to remove.
LoneVisualData ==
    record.sig = "WATR" /\ Cardinality({k \in DOMAIN record.subs : record.subs[k].sig = "DATA"}) = 1

\* A handler, which looks for subrecords by their signatures, only asks for
\* mutations of fields that the schema finds: if all subrecords are in the
\* schema's order, an editor that cannot be opened is one a handler refused.
MutationsApply ==
    [][status' = "failed" =>
        \/ LoneVisualData
        \/ Misplaced(record.subs) # {}
        \/ binding = 0
        \/ LET b == source.bindings[binding]
               target == IF targets = <<>> THEN Head(TargetsOf(b)) ELSE Head(targets)
           IN  Invoke(b.handler, b.path, target) = Failure]_vars

\* Of the subrecords the schema finds.
Holds(sig, P(_)) ==
    \A k \in DOMAIN record.subs \ Misplaced(record.subs) : record.subs[k].sig = sig => P(record.subs[k].data)

Lacks(sig) == \A sub \in Range(record.subs) : sub.sig # sig

\* The old forms of each record that no editor shows.
IsCurrent ==
    /\ Holds("CTDA", LAMBDA data : 2 \notin data.flags)
    /\ Holds("SCHR", LAMBDA data : data.type # 1)
    /\ record.sig = "DOBJ" => Holds("DNAM", LAMBDA data : 0 \notin Range(data.uses))
    /\ record.sig = "SCEN" => Holds("VNAM", LAMBDA data : data.size >= 16 => \A k \in 1..2 : data.behavior[k] <= 3)
    /\ record.sig = "LIGH" => Holds("DATA", LAMBDA data : 0 \notin {data.falloff, data.fov})
    /\ record.sig = "MESG" => (Lacks("TNAM") <=> \E sub \in Range(record.subs) : sub.sig = "DNAM" /\ 1 \in sub.data.flags)
    /\ record.sig = "CELL" /\ source.game \in Skyrim => Holds("XCLW", LAMBDA data : data.height # -MaxFloat)
    /\ record.sig = "CELL" /\ source.game \in Skyrim \union Fallout3Nv =>
          (Lacks("XCLW") => Holds("DATA", LAMBDA data : 2 \notin data.flags))
    /\ record.sig = "PGRD" => /\ Holds("PGRP", LAMBDA data : Compressed \in record.flags)
                              /\ Holds("PGRI", LAMBDA data : \A k, l \in DOMAIN data.entries :
                                    data.entries[k] = data.entries[l] => k = l)
    /\ record.sig = "SOUN" => (Lacks("SNDX") \/ ~Lacks("SNDD"))
    /\ record.sig = "WATR" => (~Lacks("DNAM") \/ Holds("DATA", LAMBDA data : data.size # 186))
    /\ record.sig = "REFR" /\ source.game \notin Fallout3Nv => Holds("XLOC", LAMBDA data : data.level # 0)
    /\ record.sig = "NPC_" => (Lacks("KWDA") \/ ~Lacks("KSIZ"))
    /\ Holds("LVLO", LAMBDA data : record.version < ModernVersion => data.size > 10 /\ data.chance = 0)

\* An editor is open on the current form of its record only, whatever mixture
\* of old and new subrecords the file held.
OpenRecordIsCurrent == status = "open" /\ Deleted \notin record.flags => IsCurrent
=============================================================================
