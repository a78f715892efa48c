-------------------------- MODULE MCFormattedField --------------------------
(***************************************************************************)
(* One field or more per formatter, with the values and the surroundings   *)
(* its cases tell apart.  Base holds everything a surrounding can say.     *)
(*   indexLed      the edit text begins with the number                    *)
(*   lossy         values whose edit text stands for another value         *)
(*   copied        the control reads the displayed texts                   *)
(*   validated     the formatter answers Validation                        *)
(*   distinct      the phases in which no two values look alike            *)
(*   linked        the value can be followed                               *)
(***************************************************************************)
EXTENDS FormattedField, TLC

Quest == [isQuest |-> TRUE, stages |-> <<<<1, Name("Start")>>, <<10, Name("End")>>>>,
          objectives |-> <<<<1, Name("Find")>>, <<4, Name("Bring")>>>>,
          aliases |-> <<<<0, Name("Hero")>>, <<3, Name("Villain")>>>>,
          script |-> "resolved", variables |-> <<<<2, Name("bDone")>>, <<5, Name("iCount")>>>>]
Renamed == [Quest EXCEPT !.stages = <<<<1, Name("Begin")>>>>, !.aliases = <<<<3, Name("Hero")>>>>]
NotQuest == [Quest EXCEPT !.isQuest = FALSE, !.script = "invalid"]
NoScript == [Quest EXCEPT !.script = "missing"]

Part(item, id, base, construction) == [item |-> item, id |-> id, base |-> base, construction |-> construction]
Mesh(external) == [external |-> external, triangles |-> 2, links |-> <<<<1, 1>>, <<1, 5>>, <<9, 0>>>>]

Base ==
    [game |-> "SkyrimSe", link |-> Quest, allowNone |-> TRUE, objectives |-> FALSE,
     questSource |-> "direct", own |-> 1, parent |-> 2, direct |-> 0, parentFallback |-> TRUE,
     quests |-> (1 :> Quest @@ 2 :> Renamed), string |-> Name("parameter"), scoped |-> TRUE, record |-> "QUST",
     stars |-> <<<<1, Name("Sol")>>, <<2, Name("Rigel")>>>>,
     mods |-> <<<<1, Name("Sharp")>>, <<2, Name("Heavy")>>, <<2, Empty>>, <<1, Name("Light")>>>>, slot |-> 2, flat |-> FALSE,
     appearance |-> "race", entry |-> Name("an entry"), entries |-> <<<<1, Name("Scar")>>>>, otherEntries |-> <<<<2, Name("Paint")>>>>,
     oppositeGender |-> FALSE, collection |-> TRUE, resolvedEdit |-> FALSE, hex |-> FALSE,
     folder |-> "meshes", cell |-> 7, table |-> <<<<1, Name("Speed")>>, <<3, Name("Weight")>>>>, remapping |-> FALSE,
     prefix |-> TRUE, plain |-> FALSE, nextObjectId |-> 9, resource |-> Name("a file"),
     wwise |-> "known", wwiseName |-> Name("Bang"), wwisePath |-> Name("a path"),
     angleSummary |-> FALSE, validates |-> TRUE,
     pairs |-> <<<<5, Name("GetIsID"), Name("Actor")>>, <<6, Decimal(3), Name("Actor")>>, <<9, Name("GetIsID"), Name("Place")>>>>,
     latitude |-> TRUE, perk |-> [entryPoint |-> 0, function |-> 1],
     tables |-> [conditions |-> <<0, 1, 9>>, captions |-> <<<<Name("Owner"), Name("Target")>>, <<Name("Owner"), Empty>>>>,
                 functionTables |-> <<0, 1, 9>>,
                 functionNames |-> <<<<Name("Set"), Name("Add"), Name("Spell")>>, <<Name("Set"), Name("Add"), Name("Leveled")>>>>,
                 types |-> <<0, 0, 1>>, entryTypes |-> <<0, 1, 0>>, parameterTypes |-> <<1, 1, 2>>,
                 parameters |-> <<Name("None"), Name("Float"), Name("Item")>>],
     mesh |-> Mesh(TRUE), meshes |-> (1 :> 3), ownMesh |-> 8, vertices |-> <<<<0, 0>>, <<4, 4>>>>, target |-> "navmesh",
     index |-> (<<"simple_group", 1>> :> 11 @@ <<"modulation", 2>> :> 12 @@ <<"complex_group", 1>> :> 13),
     complex |-> TRUE, byName |-> TRUE, hasValue |-> FALSE, prefixIndex |-> "modulation",
     reference |-> "self", nodes |-> (<<"self", 1>> :> Text("node", 1) @@ <<"other", 1>> :> Text("node", 5)),
     parts |-> <<Part(FALSE, 1, 3, 0), Part(TRUE, 2, 3, 0), Part(TRUE, 1, 4, 6), Part(TRUE, 1, 5, 0)>>,
     arrayInScope |-> TRUE, elements |-> 2, forms |-> {1, 2}, named |-> {1}, alpha |-> TRUE,
     functions |-> <<<<1, Name("GetStage")>>, <<2, Name("GetDead")>>>>, place |-> 0, count |-> 2]

Field(bindings, values, contexts) ==
    [allowed |-> {}, bindings |-> bindings, values |-> values, contexts |-> contexts, indexLed |-> FALSE, lossy |-> {},
     copied |-> FALSE, normalized |-> FALSE, validated |-> FALSE, distinct |-> {}, linked |-> FALSE]

IndexLed(f) == [f EXCEPT !.indexLed = TRUE]
Lossy(f, values) == [f EXCEPT !.lossy = values]
Copied(f) == [f EXCEPT !.copied = TRUE]
Validated(f) == [f EXCEPT !.validated = TRUE]
Distinct(f, phases) == [f EXCEPT !.distinct = phases]
Linked(f) == [f EXCEPT !.linked = TRUE]

\* A surrounding with some of what it says replaced.
With(changes) == changes @@ Base

Links == <<Base, With([link |-> Renamed]), With([link |-> NotQuest]), With([link |-> NoLink])>>
Games(games) == [k \in DOMAIN games |-> With([game |-> games[k]])]

-----------------------------------------------------------------------------

Indexes == {-12, -3, -1, 0, 1, 3, 10}
Sources == <<Base, With([direct |-> 1]), With([questSource |-> "none"]), With([questSource |-> "record_form_id"]),
             With([questSource |-> "parent"]), With([parentFallback |-> FALSE])>>

LinkFields ==
    [stage |-> Copied(Validated(IndexLed(Field(<<"ctda_quest_stage">>, Indexes, Links)))),
     linkedStage |-> Copied(Validated(IndexLed(Field(<<"linked_quest_stage">>, Indexes \ {-3},
         Links \o <<With([objectives |-> TRUE]), With([allowNone |-> FALSE])>>)))),
     contextStage |-> Copied(Validated(IndexLed(Field(<<"ctda_context_quest_stage">>, {0, 1, 10}, Sources)))),
     overlay |-> Field(<<"overlay_ctda_quest">>, {0, 1}, Sources),
     \* The prefix of an objective has no sign.
     objective |-> Copied(Validated(IndexLed(Field(<<"ctda_quest_objective">>, {0, 1, 4}, Links)))),
     negativeObjective |-> Field(<<"ctda_quest_objective">>, {-1}, Links),
     \* A variable with number zero cannot be given by its number.
     variable |-> Copied(Validated(Field(<<"ctda_variable_name">>, {0, 2, 5, 7}, Links \o <<With([link |-> NoScript])>>))),
     string |-> Lossy(Field(<<"ctda_string_parameter">>, {0, 5}, <<Base>>), {5}),
     questAlias |-> Copied(Validated(Field(<<"quest_alias">>, Indexes,
         Links \o Games(<<"Fallout4", "Starfield">>)))),
     vmadAlias |-> Copied(Field(<<"vmad_object_alias">>, Indexes,
         Links \o Games(<<"Fallout4", "Starfield", "Fallout3">>))),
     conditionAlias |-> Copied(Field(<<"ctda_condition_alias">>, Indexes, Links \o <<With([record |-> "INFO"]), With([record |-> "COBJ"])>>)),
     \* Without its scope an alias has no text, which is read as none.
     unscopedAlias |-> Lossy(Field(<<"vmad_object_alias">>, {-1, 1}, <<With([scoped |-> FALSE])>>), {1}),
     unscopedCondition |-> Lossy(Field(<<"ctda_condition_alias">>, {-1, 1},
         <<With([record |-> "none"]), With([record |-> "INFO", link |-> NoLink])>>), {1}),
     star |-> Copied(Validated(Field(<<"star_id">>, {-1, 0, 1, 2}, <<Base, With([stars |-> <<>>])>>))),
     filterMod |-> Copied(IndexLed(Field(<<"legendary_filter_mod">>, {0, 1, 2}, <<Base, With([slot |-> 1]), With([slot |-> 3])>>))),
     \* A flat filter is shown by the name of the mod alone, which is read as zero.
     flatFilterMod |-> Lossy(Field(<<"legendary_filter_mod">>, {0, 1, 2}, <<With([flat |-> TRUE])>>), {1, 2}),
     appearance |-> Validated(IndexLed(Field(<<"npc_appearance_index">>, {0, 1, 2},
         <<Base, With([oppositeGender |-> TRUE]), With([collection |-> FALSE]), With([appearance |-> "no race"]),
           With([resolvedEdit |-> TRUE])>>))),
     hexAppearance |-> Field(<<"npc_appearance_index">>, {0, 1, 2},
         <<With([hex |-> TRUE]), With([hex |-> TRUE, resolvedEdit |-> TRUE])>>),
     \* An entry the application names by itself has no number in its text.
     namedAppearance |-> Lossy(Field(<<"npc_appearance_index">>, {0, 1}, <<With([appearance |-> "none", resolvedEdit |-> TRUE])>>), {1}),
     mesh |-> Copied(Field(<<"combined_mesh_id">>, {0, 3, 7}, <<Base>>)),
     objectMod |-> Copied(Validated(Field(<<"object_mod_property">>, {0, 1, 3}, <<Base>>))),
     untypedObjectMod |-> IndexLed(Field(<<"object_mod_property">>, {0, 1, 3}, <<With([table |-> <<>>])>>)),
     \* Six decimals, and one text for every colour.
     colour |-> IndexLed(Field(<<"color_or_float">>, {0, 2}, <<Base, With([remapping |-> TRUE])>>)),
     smallFloat |-> Lossy(Field(<<"color_or_float">>, {3}, <<With([remapping |-> TRUE])>>), {3})]

-----------------------------------------------------------------------------

Bytes == {0, 1, 3, 8, 32, 64, 65, 127, 128, 192, 200, 254}
LookupContexts == <<Base, With([angleSummary |-> TRUE]), With([table |-> <<<<1, Name("Speed")>>, <<1, Name("Weight")>>>>])>>

ValueFields ==
    [landscape |-> Distinct(IndexLed(Field(<<"landscape_position">>, {-1, 0, 17, 288, 289}, <<Base>>)), {"Display"}),
     moons |-> Distinct(Field(<<"climate_moons">>, Bytes, Games(<<"SkyrimSe", "Fallout3">>)), {"Display"}),
     time |-> Distinct(Field(<<"climate_time">>, {0, 1, 6, 143, 144}, <<Base>>), {"Display", "Summary"}),
     alocTime |-> Distinct(Field(<<"aloc_time">>, {0, 1, 128, 255}, <<Base>>), {"Display"}),
     idleGroup |-> Validated(Field(<<"idle_animation_group">>, Bytes \cup {7, 20}, Games(<<"SkyrimSe", "Fallout3">>))),
     weather |-> Validated(Field(<<"weather_classification">>, Bytes, Games(<<"SkyrimSe", "Oblivion">>))),
     cloudSpeed |-> Copied(Distinct(Field(<<"cloud_speed">>, Bytes \cup {126, 253}, <<Base>>), {"Display", "EditValue"})),
     \* The largest byte is read as the one before it.
     fastCloud |-> Lossy(Field(<<"cloud_speed">>, {254, 255}, <<Base>>), {255}),
     scaled |-> Copied(Distinct(Field(<<"scaled_int4">>, {-1, 0, 1, 10000}, <<Base>>), {"Display"})),
     hidden |-> Field(<<"hide_ffff">>, {0, 65535}, <<Base>>),
     fixedHex |-> Distinct(Field(<<"fixed_hex_integer">>, {0, 9, 10, 18, 200}, <<Base>>), {"Display"}),
     plainHex |-> Copied(Field(<<"fixed_hex_integer">>, {0, 9, 10, 18, 200}, <<With([prefix |-> FALSE, plain |-> TRUE])>>)),
     \* Hexadecimal digits are read as decimal ones, again and again: 25 would
     \* become 19 and then 13.
     bareHex |-> Lossy(Field(<<"fixed_hex_integer">>, {0, 9, 10, 18}, <<With([prefix |-> FALSE])>>), {18}),
     nextObject |-> Field(<<"next_object_id">>, {0, 9, 2048}, <<Base, With([nextObjectId |-> 0])>>),
     resource |-> Field(<<"resource_hash">>, {0, 9, 40000}, <<Base, With([resource |-> Empty])>>),
     wwise |-> Field(<<"wwise_guid">>, {0, 1, 2}, <<Base, With([wwise |-> "unused"]), With([wwise |-> "unknown"])>>),
     bracedWwise |-> Field(<<"wwise_guid">>, {1}, <<With([wwiseName |-> Text("brace", 1)])>>),
     lookup |-> Copied(Validated(Field(<<"integer_lookup">>, {0, 1, 2, 3}, LookupContexts))),
     \* The whole part of a float.
     floatLookup |-> Copied(Lossy(Field(<<"float_bits_lookup">>, {0, 1, 2, 3, 4, 6},
         <<With([table |-> <<<<2, Name("Speed")>>, <<6, Name("Weight")>>>>])>>), {1, 3})),
     \* Of two names that differ in case only the second is read as the first,
     \* and so is its value; as the names of an event they are refused.
     caseLookup |-> Lossy(Validated(Field(<<"integer_lookup">>, {0, 1, 2, 3},
         <<With([table |-> <<<<1, Name("Speed")>>, <<3, Capitals("Speed")>>>>])>>)), {3}),
     caseEvent |-> Field(<<"event_function_member">>, {5},
         <<With([pairs |-> <<<<5, Name("GetIsID"), Name("Actor")>>, <<6, Capitals("GetIsID"), Name("Actor")>>>>])>>),
     event |-> Copied(Field(<<"event_function_member">>, {0, 5, 6, 9, 15}, <<Base>>)),
     angle |-> Copied(Field(<<"angle_degrees">>, {-720, -361, -180, 0, 90, 360, 361}, <<Base>>)),
     direction |-> Copied([Field(<<"angle_degrees">>, {-90, 0, 359, 360, 450}, <<Base>>) EXCEPT !.normalized = TRUE]),
     date |-> Distinct(Field(<<"timestamp_date">>, {0, 1, 33, 512, 5000}, <<Base>>), {"Display"}),
     latitude |-> Copied(Field(<<"geographic_coordinate">>,
         {-90 * Degree, -Degree - 240, -7198, 0, 2, 7199, 7200, 45 * Degree + 7199, 90 * Degree, 100 * Degree}, <<Base>>)),
     \* Sixty seconds carried into a negative number of degrees.
     southernCarry |-> Field(<<"geographic_coordinate">>, {-7199, -2 * Degree + 1}, <<Base>>),
     longitude |-> Copied(Field(<<"geographic_coordinate">>, {-180 * Degree, 100 * Degree, 200 * Degree}, <<With([latitude |-> FALSE])>>)),
     \* East by half a turn is read as west by half a turn.
     antimeridian |-> Field(<<"geographic_coordinate">>, {180 * Degree}, <<With([latitude |-> FALSE])>>),
     ctdaType |-> Validated(Field(<<"ctda_type">>, {0, 1, 33, 64, 96, 131, 160, 176, 191}, <<Base>>)),
     legacyType |-> Validated(Field(<<"ctda_type">>, {0, 1, 34, 68, 99, 128, 165}, Games(<<"Fallout3">>))),
     \* Bits that the older games do not know, and unknown operators.
     lossyType |-> Lossy(Field(<<"ctda_type">>, {8, 16, 192}, Games(<<"Fallout3">>)), {8, 16, 192}),
     unknownType |-> Lossy(Field(<<"ctda_type">>, {192, 225}, <<Base>>), {192, 225}),
     oblivionType |-> IndexLed(Field(<<"ctda_type">>, {0, 8, 64, 192}, Games(<<"Oblivion">>)))]

-----------------------------------------------------------------------------

Perks == <<Base, With([perk |-> [entryPoint |-> 1, function |-> 2]]), With([perk |-> [entryPoint |-> 2, function |-> 9]]), With([perk |-> NoLink])>>

Edges == <<Base, With([mesh |-> Mesh(FALSE)]), With([mesh |-> NoLink])>>

Condition(type, function, first, second, runOn, reference) ==
    [type |-> type, function |-> function, first |-> first, second |-> second, runOn |-> runOn, reference |-> reference, comparison |-> 1]

Conditions ==
    {Condition(type, function, 4, -1, 0, 0) : type \in Operators \cup {1, 97}, function \in {1, 2, 7}}
    \cup {Condition(0, 1, first, second, 2, reference) : first \in {4, 5}, second \in {-1, 6}, reference \in {1, 3}}

ElementFields ==
    [runOn |-> Copied(Validated(Field(<<"run_on">>, 0..3, Perks))),
     function |-> Copied(Validated(Field(<<"function">>, 0..3, Perks))),
     parameterType |-> Copied(Validated(Field(<<"parameter_type">>, 0..3, Perks))),
     edge |-> Linked(IndexLed(Field(<<"navmesh_edge">>, {-1, 0, 1, 2, 3}, <<Base>>))),
     localEdge |-> IndexLed(Field(<<"navmesh_edge">>, {-1, 0, 1, 2}, Edges)),
     \* Every negative edge has the text of none.
     negativeEdge |-> Lossy(Field(<<"navmesh_edge">>, {-2}, <<Base>>), {-2}),
     legacyEdge |-> Validated(Field(<<"legacy_navmesh_edge">>, {-1, 0, 1, 2, 3}, <<Base, With([mesh |-> Mesh(FALSE)])>>)),
     vertex |-> IndexLed(Field(<<"navmesh_vertex">>, {-1, 0, 1, 2}, <<Base, With([game |-> "Fallout4"])>>)),
     triangle |-> Distinct(Field(<<"navmesh_triangle">>, {-1, 0, 2, 3},
         <<Base, With([target |-> "other"]), With([target |-> "unknown"])>>), {"Display"}),
     caseFunction |-> Lossy(Field(<<"ctda_function">>, {1, 2},
         <<With([functions |-> <<<<1, Name("GetDead")>>, <<2, Capitals("GetDead")>>>>])>>), {2}),
     indexed |-> Linked(Field(<<"indexed_record">>, 0..2, <<Base, With([index |-> <<"simple_group", 2>> :> 12])>>)),
     avmd |-> Linked(Field(<<"avmd_entry">>, 0..2,
         <<Base, With([byName |-> FALSE]), With([hasValue |-> TRUE]), With([complex |-> FALSE]), With([byName |-> FALSE, prefixIndex |-> "other"])>>)),
     snapNode |-> Linked(Field(<<"snap_node">>, 0..1, <<Base, With([reference |-> "other"]), With([reference |-> "missing"])>>)),
     blueprint |-> Linked(Field(<<"blueprint_component">>, {-1, 1, 2, 3}, <<Base>>)),
     element |-> Field(<<"local_array_element">>, {-1, 0, 1, 2}, <<Base, With([arrayInScope |-> FALSE])>>),
     ctdaFunction |-> Copied(Validated(Field(<<"ctda_function">>, {0, 1, 2}, Games(<<"SkyrimSe", "FalloutNv">>)))),
     item |-> Distinct(Field(<<"item_summary">>, [form : {1, 2}, count : 0..1], <<Base>>), {"Summary"}),
     relation |-> Distinct(Field(<<"faction_relation">>, [form : {1, 2}, reaction : {1}, modifier : 0..1], Games(<<"Oblivion">>)), {"Summary"}),
     reaction |-> Distinct(Field(<<"faction_relation">>, [form : {1, 2}, reaction : 0..3, modifier : {1}], <<Base>>), {"Summary"}),
     property |-> Distinct(Field(<<"linked_float_property">>, [form : {1}, value : 0..1, curve : {2, 3}], Games(<<"Starfield">>)), {"Summary"}),
     script |-> Distinct(Field(<<"script_summary">>, {[compiled |-> FALSE, lines |-> -1], [compiled |-> FALSE, lines |-> 0],
         [compiled |-> TRUE, lines |-> 0], [compiled |-> TRUE, lines |-> 1], [compiled |-> TRUE, lines |-> 2]}, <<Base>>), {"Summary"}),
     rgb |-> Distinct(Field(<<"rgb">>, [1..4 -> {0, 1}], <<Base>>), {"Summary"}),
     vector |-> Distinct(Field(<<"vec3">>, [1..3 -> {0, 1}], <<Base>>), {"Summary"}),
     condition |-> Distinct(Field(<<"ctda_condition">>, Conditions, <<Base>>), {"Display", "Summary"}),
     word |-> [Field(<<>>, {Empty, Name("Known"), Name("Unknown")}, <<Base>>) EXCEPT !.allowed = {Name("Known")}],
     \* Two formatters of one path: the second fails on the text of the first.
     chained |-> Field(<<"integer_lookup", "ctda_function">>, {1, 2}, <<Base>>)]

MCFields == LinkFields @@ ValueFields @@ ElementFields
=============================================================================
