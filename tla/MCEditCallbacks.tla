-------------------------- MODULE MCEditCallbacks ---------------------------
(***************************************************************************)
(* The records whose callbacks EditCallbacks runs, with the tables and the *)
(* member orders of the packages in the repository's tests cut down to the *)
(* cases they tell apart.                                                  *)
(***************************************************************************)
EXTENDS EditCallbacks, TLC

Schema(name, members, callbacks, fields, defaults, values, facts) ==
    [name |-> name, game |-> "SkyrimSe", version |-> 44, configured |-> TRUE, scoped |-> FALSE, containers |-> [none |-> {}],
     members |-> members, callbacks |-> callbacks, record |-> fields, defaults |-> defaults, values |-> values, facts |-> facts]

Single(field) == [k \in {field} |-> <<"value">>]

Value(v) == [value |-> v]

-----------------------------------------------------------------------------

CtdaValue == [type : SUBSET {"global", "legacy"}, comparison : {0, 5}, runOn : 0..2, reference : {0, 7}]

Conditions ==
    {Schema("condition", [CTDA |-> <<"type", "comparison", "runOn", "reference">>],
        <<"CTDA", "type">> :> <<"ctda_type">> @@ <<"CTDA", "runOn">> :> <<"ctda_run_on">>,
        [CTDA |-> <<[type |-> {}, comparison |-> 5, runOn |-> 2, reference |-> 7]>>],
        [CTDA |-> [type |-> {}, comparison |-> 0, runOn |-> 0, reference |-> 0]],
        [CTDA |-> CtdaValue],
        [referenceRunOn |-> 2, subjectRunOn |-> 1, nullReference |-> 0, comparisonDefault |-> 0, legacyUseGlobal |-> legacy]) :
        legacy \in BOOLEAN}

Effect(archetype, item, value, weight) ==
    [assocItem |-> item, secondWeight |-> weight, archetype |-> archetype,
     actorValue |-> [kind |-> "int", value |-> value], secondActorValue |-> [kind |-> "int", value |-> 3]]

MagicEffects ==
    {[Schema("magic effect", [DATA |-> <<"assocItem", "secondWeight", "archetype", "actorValue", "secondActorValue">>],
        <<"DATA", "assocItem">> :> <<"magic_effect_assoc_item">>
            @@ <<"DATA", "secondWeight">> :> <<"magic_effect_second_av_weight">>
            @@ <<"DATA", "archetype">> :> <<"magic_effect_archetype">>,
        [DATA |-> <<Effect(0, 0, 4, 0)>>], [DATA |-> Effect(0, 0, 0, 0)],
        [DATA |-> {Effect(archetype, item, 4, weight) : archetype \in {0, 11, 24, 36, 255}, item \in {0, 6}, weight \in {0, 2}}],
        [unsetArchetype |-> 0, genericArchetype |-> 255, hasSecond |-> game \notin {"Fallout3", "FalloutNv"}])
        EXCEPT !.game = game, !.version = version] :
        game \in {"Fallout3", "FalloutNv", "SkyrimSe", "Fallout4", "Fallout76", "Oblivion"}, version \in {76, 77}}

-----------------------------------------------------------------------------

PerkData(point, function, count) == [entryPoint |-> point, function |-> function, conditionCount |-> count]

LegacyPerks ==
    {[Schema("legacy perk",
        [DATA |-> <<"entryPoint", "function", "conditionCount">>, EPFT |-> <<"value">>],
        <<"DATA", "entryPoint">> :> <<"legacy_perk_entry_point">> @@ <<"DATA", "function">> :> <<"legacy_perk_function">>
            @@ <<"EPFT", "value">> :> <<"legacy_perk_parameter_type">>,
        [DATA |-> <<PerkData(0, 0, 3)>>, PRKC |-> conditions, EPFT |-> type,
         EPFD |-> IF type = <<>> THEN <<>> ELSE <<Value(1)>>, EPF2 |-> <<>>, EPF3 |-> <<>>, SCHR |-> <<>>],
        [field \in {"EPFT", "EPFD", "EPF2", "EPF3", "SCHR"} |-> Value(0)],
        [DATA |-> {PerkData(point, function, count) : point \in 0..3, function \in 0..4, count \in {1, 3}},
         EPFT |-> {Value(t) : t \in 0..4}],
        [functionParameterTypes |-> <<1, 2, 4, 0>>, functionTypes |-> <<0, 0, 1, 2>>, forceRebuild |-> {1},
         entryConditions |-> <<0, 1, 2>>, entryFunctionTypes |-> <<0, 1, 2>>,
         conditionSlots |-> <<<<1, 2, 3>>, <<1, 4, 0>>, <<0, 0, 0>>>>, conditionalSlots |-> <<<<1, 1>>>>,
         dataTypes |-> {1, 2}, scriptType |-> 4, supportedTypes |-> {0, 1, 2, 4}])
        EXCEPT !.containers = ("embedded script" :> {"SCHR"}), !.scoped = TRUE] :
        type \in {<<Value(1)>>, <<>>}, conditions \in {<<>>, <<[index |-> 0], [index |-> 1], [index |-> 2]>>}}

Perks ==
    {[Schema("perk", [PRKE |-> <<"type">>, DATA |-> <<"function">>], <<"PRKE", "type">> :> <<"perk_effect_type">>,
        [PRKE |-> <<[type |-> 0]>>, DATA |-> <<[function |-> 5]>>, PRKC |-> <<[index |-> 0]>>, EPFT |-> <<Value(1)>>, EPFD |-> <<Value(1)>>],
        [DATA |-> [function |-> 0], EPFT |-> Value(0)],
        [PRKE |-> {[type |-> t] : t \in 0..2}, DATA |-> {[function |-> 3]}],
        [entryPointType |-> 2, entryPointFunction |-> 2])
        EXCEPT !.containers = ("conditions" :> {"PRKC"} @@ "parameters" :> {"EPFT", "EPFD"}), !.scoped = scoped, !.configured = configured] :
        scoped \in BOOLEAN, configured \in BOOLEAN}

-----------------------------------------------------------------------------

Text(first) == [first |-> first, rest |-> "x"]

Settings ==
    {Schema("setting", Single("EDID"), <<"EDID", "value">> :> <<"game_setting_editor_id">>,
        [EDID |-> <<Value(Text("f"))>>, DATA |-> data], [DATA |-> Value(0)],
        [EDID |-> {Value(Text(c)) : c \in {"f", "i"}}], [none |-> TRUE]) : data \in {<<>>, <<Value(3)>>}}

Quests == {Schema("quest", [VMAD |-> <<"name", "script">>], <<"VMAD", "name">> :> <<"quest_script_name">>,
    [VMAD |-> <<[name |-> Text("f"), script |-> 8]>>], [VMAD |-> [name |-> Text(""), script |-> 0]],
    [VMAD |-> [name : {Text(""), Text("f"), Text("g")}, script : {8, 9}]], [none |-> TRUE])}

Siblings ==
    {Schema("siblings", [DATA |-> <<"first", "second", "third">>],
        <<"DATA", "first">> :> <<handler>> @@ <<"DATA", "second">> :> <<"reset_sibling_default", "refresh_sibling_unions", "invalidate_conflicts">>,
        [DATA |-> <<[first |-> 1, second |-> 1, third |-> 1]>>, ANAM |-> <<Value(1)>>, BNAM |-> <<>>],
        [DATA |-> [first |-> 0, second |-> 0, third |-> 0], ANAM |-> Value(0), BNAM |-> Value(0)],
        [DATA |-> [first : 0..2, second : 0..1, third : {1}]],
        [target |-> <<"DATA", "third">>, mappings |-> <<<<1, 4>>, <<2, 5>>, <<2, 6>>>>, container |-> "choice", sortInfo |-> TRUE,
         defaults |-> <<[selector |-> 1, field |-> "ANAM"], [selector |-> 2, field |-> "BNAM"]>>]) :
        handler \in {"map_sibling_integer", "sort_info_group"}}
    \union {[s EXCEPT !.containers = ("choice" :> {"ANAM", "BNAM"}), !.callbacks = (<<"DATA", "first">> :> <<"select_optional_sibling_default">>)] :
        s \in {Schema("siblings", [DATA |-> <<"first">>], <<"DATA", "first">> :> <<"map_sibling_integer">>,
            [DATA |-> <<[first |-> 1]>>, ANAM |-> <<Value(1)>>, BNAM |-> <<>>], [ANAM |-> Value(0), BNAM |-> Value(0)],
            [DATA |-> [first : 0..2]], [container |-> "choice", defaults |-> <<[selector |-> 1, field |-> "ANAM"], [selector |-> 2, field |-> "BNAM"]>>])}}

Lists == {<<>>, <<1>>, <<1, 2>>}

Counters ==
    {Schema("counters", [DATA |-> <<"includeCount", "propertyCount", "includes", "properties">>],
        <<"DATA", "payload">> :> <<"sync_container_counts">>,
        [DATA |-> <<[includeCount |-> 0, propertyCount |-> 1, includes |-> <<>>, properties |-> <<1>>]>>],
        [DATA |-> [includeCount |-> 0]],
        [DATA |-> [includeCount : 0..2, propertyCount : 0..2, includes : Lists, properties : Lists]],
        [counters |-> <<[counter |-> "includeCount", array |-> "includes"], [counter |-> "propertyCount", array |-> "properties"]>>])}
    \union {Schema("counter", [KWDA |-> <<"list">>], <<"KWDA", "list">> :> <<"sync_count">>,
        [KSIZ |-> size, KWDA |-> <<[list |-> <<1>>]>>], [KSIZ |-> Value(0)], [KWDA |-> [list : Lists]],
        [counts |-> "array", multiplier |-> 2, counterMissing |-> FALSE, counterNested |-> FALSE, counter |-> <<"KSIZ">>,
         counterRequired |-> required]) : required \in BOOLEAN, size \in {<<>>, <<Value(2)>>}}

HeadPart ==
    {Schema("head part", Single("INDX"), <<"record">> :> <<"head_parts">>,
        [INDX |-> <<Value(1)>>, MODL |-> model, MODT |-> model, ICON |-> icon], [none |-> 0],
        [INDX |-> {Value(k) : k \in 0..2}], [modelFields |-> <<"MODL", "MODT">>, iconFields |-> {"ICON"}, earValue |-> 2]) :
        model \in {<<>>, <<Value(1)>>}, icon \in {<<>>, <<Value(1)>>}}

MCSchemas == UNION {Conditions, MagicEffects, LegacyPerks, Perks, Settings, Quests, Siblings, Counters, HeadPart}
=============================================================================
