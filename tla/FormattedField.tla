--------------------------- MODULE FormattedField ---------------------------
(***************************************************************************)
(* A field in the grid of an editor: SemanticContext::format_value_as      *)
(* shows it, parse_edit_value takes the text of its control, resolve_link  *)
(* follows it (context.rs).  What surrounds the field, its siblings and    *)
(* what the application knows of other records, may change between the     *)
(* moment a text is shown and the moment it is submitted.                  *)
(***************************************************************************)
EXTENDS ValueFormats

CONSTANTS
    Fields,     \* per name: allowed, bindings, values, contexts, and what a property says of it
    MaxTokens   \* bound: how long a text may grow

VARIABLES
    field,      \* the name of the field
    at,         \* the place of what surrounds it in Fields[field].contexts
    value,      \* what the record holds
    text,       \* the text in the control, NoText when there is none
    shown,      \* history: [value, at, phase] the text was shown for
    again       \* history: the value is the result of submitting its own edit text

vars == <<field, at, value, text, shown, again>>

NotShown == [phase |-> "none"]

-----------------------------------------------------------------------------
(* invoke_with_records.                                                    *)

\* The texts of numbers.
FormatNumber(h, phase, n, c) ==
    CASE h = "ctda_quest_stage" -> CtdaQuestStage(phase, n, c)
      [] h = "linked_quest_stage" -> LinkedQuestStage(phase, n, c)
      [] h = "ctda_context_quest_stage" -> CtdaContextQuestStage(phase, n, c)
      [] h = "ctda_quest_objective" -> CtdaQuestObjective(phase, n, c)
      [] h = "ctda_variable_name" -> CtdaVariableName(phase, n, c)
      [] h = "overlay_ctda_quest" -> OverlayCtdaQuest(phase, n, c)
      [] h = "ctda_string_parameter" -> CtdaStringParameter(phase, n, c)
      [] h = "quest_alias" -> QuestAlias(phase, n, c)
      [] h = "vmad_object_alias" -> VmadObjectAlias(phase, n, c)
      [] h = "ctda_condition_alias" -> CtdaConditionAlias(phase, n, c)
      [] h = "star_id" -> StarId(phase, n, c)
      [] h = "legendary_filter_mod" -> LegendaryFilterMod(phase, n, c)
      [] h = "npc_appearance_index" -> NpcAppearanceIndex(phase, n, c)
      [] h = "combined_mesh_id" -> CombinedMeshId(phase, n, c)
      [] h = "object_mod_property" -> ObjectModProperty(phase, n, c)
      [] h = "color_or_float" -> ColorOrFloat(phase, n, c)
      [] h = "landscape_position" -> LandscapePosition(phase, n, c)
      [] h = "climate_moons" -> ClimateMoons(phase, n, c)
      [] h = "climate_time" -> ClimateTime(phase, n, c)
      [] h = "aloc_time" -> AlocTime(phase, n, c)
      [] h = "idle_animation_group" -> IdleAnimationGroup(phase, n, c)
      [] h = "weather_classification" -> WeatherClassification(phase, n, c)
      [] h = "cloud_speed" -> CloudSpeed(phase, n, c)
      [] h = "scaled_int4" -> ScaledInt4(phase, n, c)
      [] h = "hide_ffff" -> HideFfff(phase, n, c)
      [] h = "fixed_hex_integer" -> FixedHexInteger(phase, n, c)
      [] h = "next_object_id" -> NextObjectId(phase, n, c)
      [] h = "resource_hash" -> ResourceHash(phase, n, c)
      [] h = "wwise_guid" -> WwiseGuid(phase, n, c)
      [] h = "integer_lookup" -> IntegerLookup(phase, n, c)
      [] h = "float_bits_lookup" -> FloatBitsLookup(phase, n, c)
      [] h = "event_function_member" -> EventFunctionMember(phase, n, c)
      [] h = "ctda_type" -> CtdaType(phase, n, c)
      [] h = "angle_degrees" -> AngleDegrees(phase, n, c)
      [] h = "timestamp_date" -> TimestampDate(phase, n, c)
      [] h = "geographic_coordinate" -> GeographicCoordinate(phase, n, c)
      [] h \in {"run_on", "function", "parameter_type"} -> LegacyPerkContextual(h, phase, n, c)
      [] h = "ctda_function" -> CtdaFunction(phase, n, c)
      [] h = "navmesh_edge" -> NavmeshEdge(phase, n, c)
      [] h = "legacy_navmesh_edge" -> LegacyNavmeshEdge(phase, n, c)
      [] h = "navmesh_vertex" -> NavmeshVertex(phase, n, c)
      [] h = "navmesh_triangle" -> NavmeshTriangle(phase, n, c)
      [] h = "indexed_record" -> IndexedRecordName(phase, n, c)
      [] h = "avmd_entry" -> AvmdEntryReference(phase, n, c)
      [] h = "snap_node" -> SnapNodeSummary(phase, n, c)
      [] h = "blueprint_component" -> BlueprintComponentSummary(phase, n, c)
      [] OTHER -> NoText

\* The texts of structures.
FormatStructure(h, phase, v, c) ==
    CASE h = "item_summary" -> ItemSummary(phase, v, c)
      [] h = "faction_relation" -> FactionRelation(phase, v, c)
      [] h = "linked_float_property" -> LinkedFloatProperty(phase, v, c)
      [] h = "script_summary" -> ScriptSummary(phase, v, c)
      [] h = "rgb" -> Rgb(phase, v, c)
      [] h = "vec3" -> Vec3(phase, v, c)
      [] h = "ctda_condition" -> CtdaCondition(phase, v, c)

Structures == {"item_summary", "faction_relation", "linked_float_property", "script_summary", "rgb", "vec3", "ctda_condition"}

Format(h, phase, v, c) == IF h \in Structures THEN FormatStructure(h, phase, v, c) ELSE FormatNumber(h, phase, v, c)

\* ParseEditValue.
Parse(h, t, c) ==
    CASE h \in {"ctda_quest_stage", "linked_quest_stage", "ctda_context_quest_stage"} -> ParseStage(t)
      [] h = "ctda_quest_objective" -> ParseObjective(t)
      [] h = "ctda_variable_name" -> ParseVariableName(t, c)
      [] h = "ctda_string_parameter" -> ParseStringParameter(t)
      [] h = "quest_alias" -> ParseQuestAlias(t, c)
      [] h \in {"vmad_object_alias", "ctda_condition_alias"} -> ParseVmadAlias(t, c)
      [] h = "star_id" -> ParseStarId(t)
      [] h = "legendary_filter_mod" -> ParseLegendaryFilterMod(t)
      [] h = "npc_appearance_index" -> ParseNpcAppearanceIndex(t, c)
      [] h = "combined_mesh_id" -> ParseCombinedMeshId(t)
      [] h = "object_mod_property" -> ParseObjectModProperty(t, c)
      [] h = "color_or_float" -> ParseColorOrFloat(t)
      [] h \in {"landscape_position", "climate_moons", "climate_time", "aloc_time", "idle_animation_group",
                "weather_classification"} -> ParseInteger(t)
      [] h = "cloud_speed" -> ParseCloudSpeed(t)
      [] h = "scaled_int4" -> ParseScaledInt4(t)
      [] h \in {"hide_ffff", "resource_hash"} -> ParseNothing(t)
      [] h = "fixed_hex_integer" -> ParseFixedHex(t, c)
      [] h = "next_object_id" -> ParseNextObjectId(t, c)
      [] h = "wwise_guid" -> ParseWwiseGuid(t)
      [] h = "integer_lookup" -> ParseIntegerLookup(t, c)
      [] h = "float_bits_lookup" -> ParseFloatBitsLookup(t, c)
      [] h = "event_function_member" -> ParseEventFunctionMember(t, c)
      [] h = "ctda_type" -> ParseCtdaType(t, c)
      [] h = "angle_degrees" -> ParseAngleDegrees(t)
      [] h = "timestamp_date" -> ParseTimestampDate(t)
      [] h = "geographic_coordinate" -> ParseGeographicCoordinate(t, c)
      [] h \in {"run_on", "function", "parameter_type"} -> ParseLegacyPerkContextual(h, t, c)
      [] h = "ctda_function" -> ParseCtdaFunction(t, c)
      [] h = "navmesh_edge" -> ParseNavmeshEdge(t)
      [] h = "legacy_navmesh_edge" -> ParseLegacyNavmeshEdge(t)
      [] h = "navmesh_vertex" -> ParseNavmeshVertex(t)
      [] OTHER -> Refused

\* ReferenceResolution: what a value leads to.
ResolveLink(h, n, c) ==
    CASE h = "navmesh_edge" -> ResolveNavmeshEdge(n, c)
      [] h = "indexed_record" -> IndexedRecord("simple_group", n, c)
      [] h = "avmd_entry" -> AvmdEntry(n, c)
      [] h = "snap_node" -> SnapNode(n, c)
      [] h = "blueprint_component" -> BlueprintComponent(n, c)
      [] h = "local_array_element" -> LocalArrayElement(n, c)
      [] h \in {"vmad_object_alias", "quest_alias"} -> IF ResolveAliasLink(n, c) THEN <<"alias", n>> ELSE NoTarget
      [] h = "legendary_filter_mod" -> IF ResolveLegendaryLink(n, c) THEN <<"mod", n>> ELSE NoTarget
      [] OTHER -> NoTarget

FirstTarget(targets) ==
    LET found == {k \in DOMAIN targets : targets[k] # NoTarget}
    IN  IF found = {} THEN NoTarget ELSE targets[Min(found)]

\* resolve_link_with_scope: the first callback of a path that finds a target.
FieldLink(f, n, c) == FirstTarget([k \in DOMAIN f.bindings |-> ResolveLink(f.bindings[k], n, c)])

-----------------------------------------------------------------------------
(* The callbacks of one path in their order.  What one of them prints is   *)
(* what the next is given; a number's formatter fails on a text.           *)

Here == Fields[field].contexts[at]

\* A string that must be one of the allowed ones.
StringEnumeration(allowed, phase, v) ==
    IF phase \in {"Display", "Summary"} /\ v # Empty /\ v \notin allowed THEN Warning("unknown") \o v ELSE v

FormatValue(f, phase, v, c) ==
    LET Then(t, h) == IF t # NoText THEN Failed ELSE Format(h, phase, v, c)
    IN  FoldLeft(Then, IF f.allowed = {} THEN NoText ELSE StringEnumeration(f.allowed, phase, v), f.bindings)

LastAnswer(f, t, answers) ==
    IF \E k \in DOMAIN answers : ~answers[k].ok THEN Refused
    ELSE IF answers # <<>> THEN answers[Len(answers)]
    ELSE IF f.allowed # {} THEN Parsed(t)
    ELSE Refused

\* All callbacks are given the text of the control; an overlay is not asked,
\* and the last answer counts.
ParseEditValue(f, t, c) ==
    LET parsers == SelectSeq(f.bindings, LAMBDA h : h # "overlay_ctda_quest")
    IN  LastAnswer(f, t, [k \in DOMAIN parsers |-> Parse(parsers[k], t, c)])

\* apply_normalizers, when the record is read.
Loaded(f, v) == IF f.normalized THEN NormalizeRadians(v) ELSE v

-----------------------------------------------------------------------------

Init ==
    /\ field \in DOMAIN Fields
    /\ at \in DOMAIN Fields[field].contexts
    /\ \E v \in Fields[field].values : value = Loaded(Fields[field], v)
    /\ text = NoText
    /\ shown = NotShown
    /\ again = FALSE

\* The control is filled.
Show(phase) ==
    /\ text = NoText
    /\ text' = FormatValue(Fields[field], phase, value, Here)
    /\ text' \notin {NoText, Failed}
    /\ Len(text') <= MaxTokens
    /\ shown' = [phase |-> phase, value |-> value, at |-> at]
    /\ UNCHANGED <<field, at, value, again>>

\* A sibling is edited, or the application learns of a record or forgets it.
ContextChanges ==
    /\ at' \in DOMAIN Fields[field].contexts \ {at}
    /\ again' = FALSE
    /\ UNCHANGED <<field, value, text, shown>>

\* A refused text leaves the value alone.
Submit ==
    /\ text # NoText
    /\ \E result \in {ParseEditValue(Fields[field], text, Here)} :
          /\ value' = IF result.ok THEN result.value ELSE value
          /\ again' = (result.ok /\ shown.phase = "EditValue" /\ shown.at = at)
    /\ text' = NoText
    /\ shown' = NotShown
    /\ UNCHANGED <<field, at>>

Next == (\E phase \in Shown : Show(phase)) \/ ContextChanges \/ Submit

Spec == Init /\ [][Next]_vars

-----------------------------------------------------------------------------
(* Properties.                                                             *)

Submitted == text # NoText /\ text' = NoText

\* parse_edit_value of what format_value_as gave: a text that was shown to be
\* edited and is submitted as it is changes nothing, and neither does one that
\* begins with the number after what surrounds the field has changed.  The
\* values a text cannot tell (Fields[field].lossy) are listed with each field;
\* where such a text does change the value it was shown for it does so once:
\* the text of the result stands for the result.
EditTextKeepsValue ==
    [][/\ Submitted
       /\ shown.phase = "EditValue"
       /\ \/ (shown.at = at \/ Fields[field].indexLed) /\ value \notin Fields[field].lossy
          \/ shown.at = at /\ again
       => value' = value]_vars

\* Where the control reads what is displayed (names of tables, degrees,
\* coordinates), the value a displayed text is read as is displayed the same way.
DisplayedTextsAreShownAgain ==
    [][Submitted /\ shown.phase = "Display" /\ shown.at = at /\ Fields[field].copied
       => FormatValue(Fields[field], "Display", value', Here) = text]_vars

HasWarning(t) == \E k \in DOMAIN t : t[k][1] = "warn"

\* A value is warned of where it is displayed exactly when it is reported as
\* invalid.
WarningsAreReported ==
    Fields[field].validated =>
        \A h \in ToSet(Fields[field].bindings) :
            HasWarning(Format(h, "Display", value, Here)) <=> HasWarning(Format(h, "Validation", value, Here))

\* Different values are summarised, or shown, differently: an operator, a
\* triangle or an amount is not lost on its way to the grid.
TextsTellValuesApart ==
    \A phase \in Fields[field].distinct : \A other \in Fields[field].values :
        other # value => FormatValue(Fields[field], phase, other, Here) # FormatValue(Fields[field], phase, value, Here)

NamesTarget(t, link) ==
    CASE link = NoTarget -> TRUE
      [] link # NoTarget /\ link[1] = "mesh" -> <<"in mesh", Tail(link)>> \in ToSet(t)
      [] link # NoTarget /\ link[1] = "record" -> <<"name of", link>> \in ToSet(t)
      [] OTHER -> \E k \in DOMAIN t : t[k][1] \in {"name", "node", "hex"}

\* A value that can be followed to another record, mesh, node or part is
\* displayed with a text that names it.
LinksMatchTexts ==
    Fields[field].linked =>
        NamesTarget(Format(Fields[field].bindings[1], "Display", value, Here), FieldLink(Fields[field], value, Here))

\* What is displayed of a value tells what it is: whether it is valid, which
\* one it is, and what it leads to (format_value_as, resolve_field_link).
DisplayTellsTheValue == WarningsAreReported /\ TextsTellValuesApart /\ LinksMatchTexts
=============================================================================
