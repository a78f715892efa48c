------------------------- MODULE MCRecordMigration -------------------------
(***************************************************************************)
(* Records for RecordMigration: for every handler old, new and mixed forms *)
(* of its record, with unknown subrecords between them, for the games it   *)
(* serves and one that it does not.                                        *)
(***************************************************************************)
EXTENDS RecordMigration

Leaf(sig, field) == Subrecord(<<sig, field>>, field, FALSE)

\* A record of single fields in this order.
Flat(sig, fields) == Sequence(<<sig>>, [k \in DOMAIN fields |-> Leaf(sig, fields[k])])

OnPath(handler, path) == [handler |-> handler, path |-> path, suffix |-> <<>>]

Unknown == Sub("ZZZZ", [size |-> 1])
Name == Sub("EDID", [size |-> 1, code |-> "RSFI"])

Record(sig, subs) == [sig |-> sig, flags |-> {}, version |-> 40, subs |-> subs]

\* The subsequences of a list of subrecords, with the unknown one in front or
\* behind.
Sublists(list) == {SelectSeq(list, LAMBDA sub : sub \in kept) : kept \in SUBSET Range(list)}

Cases(root, bindings, games, lists, facts, writes, removes) ==
    {[root |-> root, bindings |-> bindings, game |-> game, configured |-> configured, facts |-> facts,
      record |-> [Record(root.path[1], list) EXCEPT !.flags = flags],
      writes |-> writes, removes |-> removes] :
        game \in games, configured \in BOOLEAN, list \in lists, flags \in {{}, {Deleted}}}

\* A handler of a whole record.
RecordCases(handler, sig, fields, games, lists, facts, writes, removes) ==
    Cases(Flat(sig, fields), <<OnPath(handler, <<sig>>)>>, games, lists, facts, writes, removes)

\* A handler of one field of a record.
FieldCases(handler, sig, path, fields, games, lists, facts) ==
    Cases(Flat(sig, fields), <<OnPath(handler, <<sig>> \o path)>>, games, lists, facts, {path[1]}, {})

NoFacts == [none |-> TRUE]

-----------------------------------------------------------------------------

Ctda(size, flags) == Sub("CTDA", [size |-> size, flags |-> flags, runOn |-> 0])

Conditions == Cases(
    Sequence(<<"INFO">>, <<Leaf("INFO", "EDID"),
        Repeat(<<"INFO", "conditions">>, 0, -1, Subrecord(<<"INFO", "conditions", "CTDA">>, "CTDA", FALSE))>>),
    <<OnPath("legacy_ctda_run_on", <<"INFO", "conditions", "CTDA">>)>>, {"Fallout3", "SkyrimSe"},
    {<<Name, Ctda(20, {2, 32}), Unknown, Ctda(28, {})>>, <<Ctda(24, {2}), Ctda(22, {2})>>, <<Ctda(0, {})>>}, NoFacts, {"CTDA"}, {})

Efid(form) == Sub("EFID", [size |-> 4, form |-> form])
Efit(size, value) == Sub("EFIT", [size |-> size, value |-> value, code |-> 1])

Effects(handler, games, lists, facts) == Cases(
    Sequence(<<"ALCH">>, <<Leaf("ALCH", "EDID"),
        Repeat(<<"ALCH", "effects">>, 0, -1, Sequence(<<"ALCH", "effect">>, <<
            Subrecord(<<"ALCH", "effect", "EFID">>, "EFID", TRUE), Subrecord(<<"ALCH", "effect", "EFIT">>, "EFIT", FALSE)>>))>>),
    <<OnPath(handler, <<"ALCH", "effect", "EFIT">>)>>, games, lists, facts, {"EFIT"}, {})

EffectItems ==
    Effects("legacy_efit_actor_value", {"FalloutNv", "Fallout4"},
        {<<Efid(form), Efit(size, 5), Efid(2), Efit(20, 7)>> : form \in 1..4, size \in {20, 24}},
        [effects |-> (1 :> 5 @@ 2 :> 9 @@ 3 :> Huge)])
    \union Effects("oblivion_efit_actor_value", {"Oblivion", "Fallout3"},
        {<<Efid(1), Efit(24, value)>> : value \in {5, 9}} \union {<<Efid(1), Efit(20, 5)>>},
        [effects |-> (1 :> [usesActorValue |-> TRUE, item |-> <<9>>])])
    \union Effects("oblivion_efit_actor_value", {"Oblivion"}, {<<Efid(1), Efit(24, 5)>>},
        [effects |-> (1 :> [usesActorValue |-> TRUE, item |-> <<>>])])
    \union Effects("inert_modern_efit", {"SkyrimSe", "Fallout3"}, {<<Efid(1), Efit(12, 5)>>, <<Efid(1), Efit(16, 5)>>},
        [expectedSize |-> 12])
    \union FieldCases("inert_oblivion_efix", "SPEL", <<"EFIX">>, <<"EFIX">>, {"Oblivion", "Fallout3"},
        {<<Unknown, Sub("EFIX", [size |-> 4])>>}, NoFacts)

Schr(type) == Sub("SCHR", [size |-> 20, type |-> type])

Scripts == Cases(
    Sequence(<<"QUST">>, <<Leaf("QUST", "EDID"), Sequence(<<"QUST", "Embedded Script">>, <<
        Subrecord(<<"QUST", "Embedded Script", "SCHR">>, "SCHR", FALSE)>>)>>),
    <<[handler |-> "embedded_script_type", path |-> <<"QUST", "Embedded Script">>, suffix |-> <<"SCHR">>]>>,
    {"Fallout3", "SkyrimSe"}, {<<Name, Schr(1), Unknown>>, <<Schr(0)>>, <<Schr(1), Schr(1)>>}, NoFacts, {"SCHR"}, {})

-----------------------------------------------------------------------------

Kwda == Sub("KWDA", [size |-> 8])
Ksiz == Sub("KSIZ", [size |-> 4])

Keywords ==
    RecordCases("remove_orphaned_keyword_array", "AMMO", <<"EDID", "KSIZ", "KWDA", "DATA">>, {"Fallout4", "Fallout3"},
        Sublists(<<Unknown, Ksiz, Kwda, Sub("DATA", [size |-> 4])>>), NoFacts, {"KWDA"}, {"KWDA"})
    \union RecordCases("inert_body_template", "RACE", <<"EDID">>, {"SkyrimLe", "Fallout4"}, {<<Name>>}, NoFacts, {}, {})

Messages == RecordCases("message_display_time", "MESG", <<"EDID", "DNAM", "TNAM">>, {"SkyrimSe", "Oblivion"},
    {<<Unknown>> \o SelectSeq(<<Sub("DNAM", [size |-> 4, flags |-> flags]), Sub("TNAM", [size |-> 4]), Name>>,
        LAMBDA sub : sub.sig \in sigs) : flags \in {{}, {1}, {2}}, sigs \in SUBSET {"DNAM", "TNAM", "EDID"}},
    NoFacts, {"DNAM", "TNAM"}, {})

DefaultObjects == FieldCases("remove_empty_default_objects", "DOBJ", <<"DNAM">>, <<"EDID", "DNAM">>, {"Starfield", "Fallout3"},
    {<<Unknown, Sub("DNAM", [size |-> size, uses |-> uses])>> : size \in {16, 15}, uses \in {<<3, 4>>, <<0, 4>>, <<3, 0, 4>>}},
    NoFacts)

Weapons ==
    FieldCases("skyrim_weapon_flags", "WEAP", <<"DNAM">>, <<"EDID", "DNAM">>, {"SkyrimVr", "Fallout4"},
        {<<Name, Sub("DNAM", [size |-> size, flags |-> flags, flags2 |-> flags2])>> :
            size \in {100, 90}, flags \in {{}, {64, 1}}, flags2 \in {{}, {256}}}, NoFacts)
    \union RecordCases("legacy_weapon", "WEAP", <<"EDID", "DNAM">>, {"Fallout3", "Oblivion"},
        {<<Unknown, Sub("DNAM", [size |-> size, multiplier |-> <<first, 0>>])>> : size \in {4, 60, 204}, first \in {0, 500}},
        NoFacts, {"DNAM"}, {})

Lights == UNION {
    RecordCases("light_defaults", "LIGH", <<"EDID", "DATA", "FNAM">>, {game, "Starfield"},
        Sublists(<<Unknown, Sub("FNAM", [size |-> 4, fade |-> 0]), Sub("DATA", [size |-> size, falloff |-> 0, fov |-> fov])>>),
        [fade |-> fade], {"DATA", "FNAM"}, {}) :
    game \in {"Oblivion", "SkyrimSe", "Fallout4", "Fallout76"}, size \in {32, 48, 64, 72}, fov \in {0, 1000}, fade \in BOOLEAN}

CellData(size, flags) == Sub("DATA", [size |-> size, flags |-> flags])
Height(height) == Sub("XCLW", [size |-> 4, height |-> height])

Cells ==
    RecordCases("skyrim_cell", "CELL", <<"EDID", "DATA", "XCLL", "XCLW">>, {"SkyrimSe", "Fallout3"},
        UNION {Sublists(<<Unknown, CellData(size, flags), Height(height)>>) :
            size \in 1..2, flags \in {{}, {2}}, height \in {-MaxFloat, 5}}, NoFacts, {"DATA", "XCLW"}, {})
    \union RecordCases("fallout_cell", "CELL", <<"EDID", "DATA", "XCLW", "XNAM">>, {"FalloutNv"},
        UNION {Sublists(<<Unknown, CellData(1, flags), Height(5), Sub("XNAM", Zeros(1))>>) : flags \in {{}, {2}}},
        NoFacts, {"XCLW", "XNAM"}, {})
    \union UNION {RecordCases("oblivion_cell", "CELL", <<"EDID", "DATA", "XCLC", "XCLL">>, {"Oblivion"},
        UNION {Sublists(<<Unknown, CellData(size, flags), Sub("XCLC", Zeros(8)), Sub("XCLL", Zeros(36))>>) :
            size \in 0..1, flags \in {{}, {1}, {2}}}, [parentGroup |-> group], {"DATA", "XCLC", "XCLL"}, {}) : group \in {0, 1}}

-----------------------------------------------------------------------------

Points(size, counts) == Sub("PGRP", [size |-> size, counts |-> counts])
Connections(list) == Sub("PGRR", [size |-> 2 * Len(list), list |-> list])
Entry(point, x) == [point |-> point, x |-> x, y |-> 7, z |-> 7]
Entries(list) == Sub("PGRI", [size |-> 16 * Len(list), entries |-> list])

PathGrids == Cases(
    Flat("PGRD", <<"DATA", "PGRP", "PGAG", "PGRR", "PGRI">>),
    <<OnPath("oblivion_path_grid", <<"PGRD">>),
      OnPath("oblivion_inter_cell_connections", <<"PGRD", "PGRI", "payload">>)>>, {"Oblivion", "Fallout3"},
    UNION {Sublists(<<Unknown, Points(size, <<2, 1>>), Sub("PGAG", Zeros(1)), Connections(list), Entries(entries)>>) :
        size \in {32, 40}, list \in {<<1, NoPoint, 0>>, <<NoPoint, 1, NoPoint>>, <<1, 0>>},
        entries \in {<<Entry(1, 3), Entry(1, 4)>>, <<Entry(1, -3), Entry(1, 4)>>, <<Entry(1, 4), Entry(2, 4), Entry(1, 4)>>}},
    NoFacts, {"PGAG", "PGRP", "PGRR", "PGRI"}, {})

Shaders == RecordCases("legacy_effect_shader_birth_ratios", "EFSH", <<"EDID", "DATA">>, {"Fallout3", "SkyrimSe"},
    {<<Name, Sub("DATA", [size |-> size, ratio |-> <<first, 500>>])>> : size \in {100, 128, 200}, first \in {0, 500, 10, -500, 2000}},
    NoFacts, {"DATA"}, {})

Old(sig) == Sub(sig, [size |-> 4])

Removals ==
    RecordCases("legacy_faction", "FACT", <<"EDID", "CNAM", "RNAM">>, {"Fallout3", "SkyrimSe"},
        {<<Unknown, Old("CNAM"), Old("RNAM")>>, <<Old("CNAM"), Name, Old("CNAM")>>}, NoFacts, {"CNAM"}, {"CNAM"})
    \union RecordCases("oblivion_reference", "REFR", <<"EDID", "NAME", "XPCI">>, {"Oblivion", "Fallout3"},
        {<<Old("XPCI"), Unknown>>, <<Name>>, <<>>}, NoFacts, {"XPCI"}, {"XPCI"})
    \union UNION {RecordCases("remove_offset_data", "TES4", <<"HEDR", "OFST", "CNAM">>, {"Oblivion"},
        {<<Old("HEDR"), Old("OFST"), Unknown>>}, [removeOffsets |-> remove], {"OFST"}, {"OFST"}) : remove \in BOOLEAN}
    \union UNION {RecordCases("worldspace", "WRLD", <<"EDID", "RNAM", "CLSZ", "OFST">>,
        {"SkyrimLe", "SkyrimSe", "Fallout4", "Starfield", "Fallout3"},
        Sublists(<<Old("RNAM"), Unknown, Old("CLSZ"), Old("OFST")>>), [removeOffsets |-> remove, loadOrder |-> order],
        {"RNAM", "CLSZ", "OFST"}, {}) : remove \in BOOLEAN, order \in {<<>>, <<0>>, <<1>>}}

Water == Cases(
    Sequence(<<"WATR">>, <<Leaf("WATR", "EDID"), Subrecord(<<"WATR", "damage">>, "DATA", FALSE),
        Sequence(<<"WATR", "visual">>, <<Subrecord(<<"WATR", "visual", "new">>, "DNAM", FALSE),
            Subrecord(<<"WATR", "visual", "old">>, "DATA", FALSE)>>), Leaf("WATR", "GNAM")>>),
    <<OnPath("legacy_water", <<"WATR">>)>>, {"FalloutNv", "SkyrimSe"},
    Sublists(<<Unknown, Sub("DATA", [size |-> 2, damage |-> 1]), Sub("DATA", [size |-> 186, damage |-> 6, visual |-> 4]), Old("GNAM")>>)
        \union {<<Old("DNAM"), Sub("DATA", [size |-> 186, damage |-> 6, visual |-> 4])>>},
    NoFacts, {"DATA", "DNAM"}, {})

LeveledLists ==
    RecordCases("oblivion_leveled_list", "LVSP", <<"EDID", "LVLD", "LVLF", "LVLO", "DATA">>, {"Oblivion", "SkyrimSe"},
        UNION {Sublists(<<Old("DATA"), Unknown, Sub("LVLD", [size |-> 1, calculated |-> calculated]),
            Sub("LVLF", [size |-> size, flags |-> IF size = 0 THEN {} ELSE {2}])>>) :
            calculated \in BOOLEAN, size \in 0..1}, NoFacts, {"DATA", "LVLD", "LVLF"}, {"DATA"})
    \union UNION {
        {[c EXCEPT !.record.version = version] : version \in {68, 69}, c \in Cases(
            Sequence(<<sig>>, <<Leaf(sig, "EDID"), Repeat(<<sig, "entries">>, 0, -1, Leaf(sig, "LVLO"))>>),
            <<OnPath("fallout_leveled_list", <<sig>>)>>, {"Fallout4", "Fallout76", "SkyrimSe"},
            {<<Sub("LVLO", [size |-> size, chance |-> 0]), Unknown, Sub("LVLO", [size |-> 12, chance |-> 3])>> : size \in 10..12},
            NoFacts, {"LVLO"}, {})} : sig \in {"LVLN"}}

MagicEffects ==
    UNION {RecordCases("oblivion_magic_effect", "MGEF", <<"EDID", "DATA">>, {"Oblivion", "Fallout4"},
        {<<Sub("EDID", [size |-> 5, code |-> code]), Unknown, Sub("DATA", [size |-> size, flags |-> {131072}])>> :
            code \in {"RSSH", "REAN", "other"}, size \in {2, 4}}, [file |-> file], {"DATA"}, {}) :
        file \in {"Oblivion.esm", "mod.esp"}}
    \union RecordCases("legacy_magic_effect", "MGEF", <<"EDID", "DATA">>, {"Fallout3", "FalloutNv", "Oblivion"},
        {<<Unknown, Sub("DATA", [size |-> size, archetype |-> archetype, value |-> 47])>> :
            size \in {68, 72}, archetype \in {1, 11, 12, 24, 35, 36, 40}}, NoFacts, {"DATA"}, {})

Npcs ==
    RecordCases("legacy_npc", "NPC_", <<"EDID", "NAM5">>, {"FalloutNv", "Fallout4"},
        {<<Unknown, Sub("NAM5", [size |-> size, value |-> value])>> : size \in 1..2, value \in {255, 256}}, NoFacts, {"NAM5"}, {})
    \union UNION {RecordCases("fallout_npc", "NPC_", <<"EDID", "KSIZ", "KWDA", "MSDK", "MSDV">>, {"Fallout76", "Oblivion"},
        UNION {Sublists(<<Kwda, Unknown, Sub("MSDK", [size |-> 12, list |-> keys]), Sub("MSDV", [size |-> 12, list |-> <<11, 12, 13>>])>>) :
            keys \in {<<1, 2, 3>>, <<2, 1, 3>>, <<3, 1, 2>>, <<2, 2, 1>>}}, [master |-> master], {"KWDA", "MSDK", "MSDV"}, {"KWDA"}) :
        master \in {<<>>, <<1, 2>>, <<2, 3, 1>>, <<2, 2>>}}

Infos == RecordCases("legacy_info", "INFO", <<"DATA", "EDID", "SNDD", "DNAM">>, {"Fallout3", "SkyrimSe"},
    UNION {Sublists(<<Unknown, Sub("DATA", [size |-> size, type |-> 3, flags |-> flags]), Old("SNDD"), Old("DNAM")>>) :
        size \in {2, 4}, flags \in {{}, {128}}}, NoFacts, {"DATA", "SNDD", "DNAM"}, {})

Sounds == RecordCases("legacy_sound", "SOUN", <<"EDID", "SNDD", "SNDX", "ANAM", "GNAM", "HNAM">>, {"Fallout3", "SkyrimSe"},
    UNION {Sublists(<<Unknown, Sub("SNDX", [size |-> 12, sound |-> 3]), Sub("ANAM", [size |-> 10, values |-> <<1, 1, 1, 1, 1>>]),
        Sub("GNAM", [size |-> size, values |-> <<3>>]), Sub("HNAM", [size |-> 4, values |-> <<4>>])>>) : size \in {2, 3}},
    NoFacts, {"SNDD", "SNDX", "ANAM", "GNAM", "HNAM"}, {})

LegacyPackages == RecordCases("legacy_package", "PACK",
    <<"EDID", "PKDT", "PLDT", "PLD2", "PSDT", "PTDT", "PKED", "PKFD", "PKPT">>, {"FalloutNv", "Oblivion"},
    {<<Sub("PKDT", [size |-> size, type |-> type]), Unknown>> \o places : size \in {4, 12}, type \in {0, 1, 3, 4, 13, 5},
        places \in {<<>>, <<Old("PLD2"), Old("PSDT")>>, <<Old("PSDT"), Old("PTDT")>>, <<Sub("PLDT", [size |-> 12, type |-> 0]), Old("PKPT")>>}},
    NoFacts, {"PLDT", "PTDT", "PKED", "PKFD", "PKPT"}, {})

Lock(level) == Sub("XLOC", [size |-> 12, level |-> level])
Base(form) == Sub("NAME", [size |-> 4, form |-> form])

References ==
    RecordCases("skyrim_reference", "REFR", <<"NAME", "XPTL", "XLOC">>, {"SkyrimSe", "Oblivion"},
        UNION {Sublists(<<Base(1), Old("XPTL"), Unknown, Lock(level)>>) : level \in 0..1}, NoFacts, {"XPTL", "XLOC"}, {"XPTL"})
    \union RecordCases("fallout_reference", "REFR", <<"RCLR", "NAME", "XAMT", "XAMC", "XLOC">>, {"Fallout3", "Fallout76", "SkyrimSe"},
        UNION {Sublists(<<Old("RCLR"), Base(form), Unknown, Old("XAMT"), Old("XAMC"), Lock(0)>>) : form \in 1..3},
        [bases |-> (1 :> "WEAP" @@ 2 :> "MISC")], {"RCLR", "XAMT", "XAMC", "XLOC"}, {})

Behavior(size, first, second) == Sub("VNAM", [size |-> size, behavior |-> <<first, second>>])

Scenes == Cases(Flat("SCEN", <<"EDID", "VNAM">>),
    <<OnPath("fallout_scene_behavior", <<"SCEN", "VNAM", "Player Dialogue">>),
      OnPath("fallout_scene_behavior", <<"SCEN", "VNAM", "Observe Combat">>)>>, {"Fallout4", "Fallout76"},
    {<<Unknown, Behavior(size, first, second)>> : size \in {8, 12, 16}, first \in 3..4, second \in 3..4}, NoFacts, {"VNAM"}, {})

Point(x, y) == [x |-> x, y |-> y]

Regions == Cases(
    Sequence(<<"REGN">>, <<Leaf("REGN", "EDID"), Repeat(<<"REGN", "areas">>, 0, -1, Leaf("REGN", "RPLD"))>>),
    <<OnPath("region_point_order", <<"REGN", "RPLD">>)>>, {"Oblivion", "SkyrimSe"},
    {<<Name, Sub("RPLD", [size |-> 24, points |-> <<first, Point(1, 1), Point(0, 0)>>]), Unknown,
       Sub("RPLD", [size |-> 8, points |-> <<Point(3, 3)>>])>> :
        first \in {Point(x, y) : x \in {0, 1004, -4000, NaN}, y \in {-4000, 0, 900, 4000}}}, NoFacts, {"RPLD"}, {})

MCSources ==
    UNION {Conditions, EffectItems, Scripts, Keywords, Messages, DefaultObjects, Weapons, Lights, Cells, PathGrids, Shaders,
           Removals, Water, LeveledLists, MagicEffects, Npcs, Infos, Sounds, LegacyPackages, References, Scenes, Regions}
=============================================================================
