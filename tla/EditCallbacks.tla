--------------------------- MODULE EditCallbacks ----------------------------
(***************************************************************************)
(* RecordEditor::set with the callbacks of the edited value (editor.rs):   *)
(* the members of the new value are visited in their order, a member that  *)
(* differs from its old value runs its callbacks, and what they ask for is *)
(* applied to the member, to the struct or, at last, to the other fields.  *)
(* Callbacks see the record as it was before the edit, and what they       *)
(* change runs no further callbacks.                                       *)
(*                                                                         *)
(* The fields of a record, or of the one effect of it that is edited, are  *)
(* a function from their names to the sequence of their occurrences; an    *)
(* occurrence is a function from member names to values.  An invocation of *)
(* an after-set handler (handler.rs) is [game, version, value, old,        *)
(* record, field, configured, facts]: record is what the handler sees of   *)
(* the fields, field the name of the edited one, configured says that the  *)
(* package names the paths the handler expects, facts are the tables it    *)
(* gives.                                                                  *)
(***************************************************************************)
EXTENDS Integers, Sequences, SequencesExt, FiniteSets

CONSTANTS
    Schemas     \* see MCEditCallbacks

VARIABLES
    schema,     \* the fields, their members and callbacks
    record,     \* the occurrences of each field
    mixed       \* history: an edit changed two members that have callbacks

vars == <<schema, record, mixed>>

-----------------------------------------------------------------------------
(* The after-set handlers.                                                  *)

None == [kind |-> "none"]
Failure == [kind |-> "error"]
Mutations(list) == [kind |-> "mutations", list |-> list]

\* HandlerMutation.  A path is <<field>> or <<field, member>>.
SetTo(path, value) == [op |-> "Set", path |-> path, value |-> value]
SetIfEqual(path, expected, value) == [op |-> "SetIfEqual", path |-> path, expected |-> expected, value |-> value]
ResetToDefault(path) == [op |-> "ResetToDefault", path |-> path]
RemoveField(field) == [op |-> "Remove", path |-> <<field>>]
InsertDefault(field) == [op |-> "InsertDefault", path |-> <<field>>]
RemoveContainer(container) == [op |-> "RemoveContainer", path |-> <<container>>]
RemoveContainerOccurrence(field, occurrence) ==
    [op |-> "RemoveContainerOccurrence", path |-> <<field>>, occurrence |-> occurrence]
SynchronizePresence(field, present, value) ==
    [op |-> "SynchronizePresence", path |-> <<field>>, present |-> present, value |-> value]
SynchronizeCount(field, value, removeWhenZero) ==
    [op |-> "SynchronizeCount", path |-> <<field>>, value |-> value, removeWhenZero |-> removeWhenZero]

\* What a handler that does nothing without a cause returns.
When(condition, list) == IF condition THEN Mutations(list) ELSE None

Optional(condition, list) == IF condition THEN list ELSE <<>>

Present(i, field) == i.record[field] # <<>>

-----------------------------------------------------------------------------
(* Conditions.                                                             *)

\* Mutant: only a condition that ran on its reference loses it.
CtdaRunOnFromReference(i) ==
    IF ~i.configured THEN Failure
    ELSE When(i.old = i.facts.referenceRunOn /\ i.value # i.old, <<SetTo(<<"CTDA", "reference">>, i.facts.nullReference)>>)

\* The reference belongs to one way of running only.
CtdaRunOn(i) ==
    IF ~i.configured THEN Failure
    ELSE When(i.old # i.value /\ i.value # i.facts.referenceRunOn,
              <<SetTo(<<"CTDA", "reference">>, i.facts.nullReference)>>)

\* The type is a set of flags.  The comparison value is a number or a global;
\* games with an old flag for the run-on field move it there.
CtdaType(i) ==
    IF ~i.configured THEN Failure
    ELSE IF i.old = i.value THEN None
    ELSE LET global == Optional(("global" \in i.old) # ("global" \in i.value),
                                <<SetTo(<<"CTDA", "comparison">>, i.facts.comparisonDefault)>>)
             moved == Optional(i.facts.legacyUseGlobal /\ "legacy" \in i.value,
                               <<SetTo(<<"CTDA", "runOn">>, i.facts.subjectRunOn),
                                 SetTo(<<"CTDA", "type">>, i.value \ {"legacy"})>>)
         IN  When(global \o moved # <<>>, global \o moved)

-----------------------------------------------------------------------------
(* Settings, scripts, siblings.                                            *)

\* A text is [first, rest]; the first letter of a setting's name is its type.
GameSettingEditorId(i) ==
    IF ~i.configured THEN Failure
    ELSE When(i.old.first # i.value.first, <<RemoveField("DATA"), InsertDefault("DATA")>>)

\* A text that has no first letter is empty.
QuestScriptName(i) ==
    IF ~i.configured THEN Failure
    ELSE When((i.old.first = "") # (i.value.first = ""), <<ResetToDefault(<<"VMAD", "script">>)>>)

ResetSiblingDefault(i) ==
    IF ~i.configured THEN Failure ELSE Mutations(<<ResetToDefault(i.facts.target)>>)

\* facts.mappings is a sequence of pairs, of which the first counts.
MapSiblingInteger(i) ==
    LET k == SelectInSeq(i.facts.mappings, LAMBDA pair : pair[1] = i.value)
    IN  IF k = 0 \/ ~i.configured THEN Failure
        ELSE Mutations(<<SetTo(i.facts.target, i.facts.mappings[k][2])>>)

SelectOptionalSiblingDefault(i) ==
    LET selected == {k \in DOMAIN i.facts.defaults : i.facts.defaults[k].selector = i.value}
    IN  IF ~i.configured \/ Cardinality(selected) > 1 THEN Failure
        ELSE Mutations(<<RemoveContainer(i.facts.container)>>
                       \o Optional(selected # {}, <<InsertDefault(i.facts.defaults[CHOOSE k \in selected : TRUE].field)>>))

\* Only the plugin can sort a group, see INFO sorting.
SortInfoGroup(i) == IF i.facts.sortInfo /\ i.old # i.value THEN Failure ELSE None

\* The editor selects unions from the new values, conflicts are not cached.
RefreshSiblingUnions(i) == None
InvalidateConflicts(i) == None

-----------------------------------------------------------------------------
(* Counters.                                                               *)

\* Of an array, or of the subrecords of a signature.
SynchronizeCountAfterSet(i) ==
    LET length == IF i.facts.counts = "array" THEN Len(i.value) ELSE Len(i.record[i.facts.counts])
        count == length * i.facts.multiplier
    IN  IF ~i.configured THEN Failure
        ELSE IF i.facts.counterMissing THEN None
        ELSE IF i.facts.counterNested THEN Mutations(<<SetTo(i.facts.counter, count)>>)
        ELSE Mutations(<<SynchronizeCount(i.facts.counter[1], count, ~i.facts.counterRequired)>>)

\* facts.counters are pairs of a counter and an array of the edited struct.
SynchronizeContainerCounts(i) ==
    LET wrong == SelectSeq(i.facts.counters, LAMBDA c : i.value[c.counter] # Len(i.value[c.array]))
    IN  IF ~i.configured THEN Failure
        ELSE Mutations([k \in DOMAIN wrong |-> SetTo(<<i.field, wrong[k].counter>>, Len(i.value[wrong[k].array]))])

-----------------------------------------------------------------------------
(* Magic effects.                                                          *)

NoForm == 0

MagicEffectAssocItem(i) ==
    IF ~i.configured THEN Failure
    ELSE When(i.value # NoForm, <<SetIfEqual(<<"DATA", "archetype">>, i.facts.unsetArchetype, i.facts.genericArchetype)>>)

MagicEffectSecondAvWeight(i) ==
    IF i.value = 0 THEN None
    ELSE IF ~i.configured THEN Failure
    ELSE Mutations(<<SetIfEqual(<<"DATA", "archetype">>, 0, 255)>>)

\* magic_effect_actor_value
ArchetypeActorValue(game, archetype) ==
    CASE game \in {"Fallout3", "FalloutNv"} ->
            CASE archetype = 11 -> 48 [] archetype = 12 -> 49 [] archetype = 24 -> 47
              [] archetype = 36 /\ game = "FalloutNv" -> 51 [] OTHER -> -1
      [] OTHER ->
            CASE archetype \in {6, 8} -> 0 [] archetype \in {7, 24, 38, 42} -> 1
              [] archetype = 11 -> 54 [] archetype = 21 -> 53 [] OTHER -> -1

\* magic_effect_actor_value_owned: a number, or a form identifier.
ActorValueKind(game, version) ==
    CASE game \in {"SkyrimLe", "SkyrimSe", "SkyrimVr", "Fallout3", "FalloutNv"} -> "int"
      [] game \in {"Fallout4", "Fallout4Vr"} \/ (game = "Fallout76" /\ version >= 77) -> "form"
      [] game = "Fallout76" -> "uint"
      [] OTHER -> "none"

MagicEffectArchetype(i) ==
    LET kind == ActorValueKind(i.game, i.version)
        ActorValue(value) == [kind |-> kind, value |-> value]
    IN  IF i.old = i.value \/ i.old >= 255 \/ i.value >= 255 THEN None
        ELSE IF ~i.configured \/ kind = "none" THEN Failure
        ELSE Mutations(<<SetTo(<<"DATA", "assocItem">>, NoForm),
                         SetTo(<<"DATA", "actorValue">>, ActorValue(ArchetypeActorValue(i.game, i.value)))>>
                       \o Optional(i.facts.hasSecond, <<SetTo(<<"DATA", "secondActorValue">>, ActorValue(-1)),
                                                        SetTo(<<"DATA", "secondWeight">>, 0)>>))

-----------------------------------------------------------------------------
(* Perks.  facts has the tables that the package gives; types, functions,  *)
(* conditions and entry points are numbered from 0.                        *)

PerkEffectType(i) ==
    IF ~i.configured THEN Failure
    ELSE When(i.old # i.value,
              <<ResetToDefault(<<"DATA">>), RemoveContainer("conditions"), RemoveContainer("parameters")>>
              \o Optional(i.value = i.facts.entryPointType,
                          <<InsertDefault("EPFT"), SetTo(<<"DATA", "function">>, i.facts.entryPointFunction)>>))

At(table, index) == table[index + 1]
InTable(table, index) == index \in 0..(Len(table) - 1)

\* legacy_perk_parameter_type
ParameterType(i) == IF Present(i, "EPFT") THEN i.record["EPFT"][1].value ELSE 0

ScriptFields == <<"EPF2", "EPF3", "SCHR">>

\* Mutant: what belonged to the old parameter type stays.
ParameterMutationsAdding(i, type) ==
    CASE type \in i.facts.dataTypes -> <<InsertDefault("EPFD")>>
      [] type = i.facts.scriptType -> [k \in 1..3 |-> InsertDefault(ScriptFields[k])]
      [] OTHER -> <<>>

\* legacy_perk_parameter_mutations: the fields that belong to the parameter
\* type in place of those that the record has.
ParameterMutations(i, type) ==
    LET present == SelectSeq(<<"EPFD", "EPF2", "EPF3">>, LAMBDA field : Present(i, field))
    IN  [k \in DOMAIN present |-> RemoveField(present[k])]
        \o <<RemoveContainer("embedded script")>>
        \o CASE type \in i.facts.dataTypes -> <<InsertDefault("EPFD")>>
             [] type = i.facts.scriptType -> [k \in 1..3 |-> InsertDefault(ScriptFields[k])]
             [] OTHER -> <<>>

\* legacy_perk_set_parameter_type
SetParameterType(i, old, new) ==
    IF ~InTable(i.facts.functionParameterTypes, new) THEN <<>>
    ELSE LET type == At(i.facts.functionParameterTypes, new)
         IN  <<IF Present(i, "EPFT") THEN SetTo(<<"EPFT", "value">>, type) ELSE SynchronizePresence("EPFT", TRUE, [value |-> type])>>
             \o Optional(ParameterType(i) # type \/ (old # new /\ new \in i.facts.forceRebuild), ParameterMutations(i, type))

\* The number of conditions that a row of slots has a place for.
Places(slots) == Cardinality({k \in 1..3 : \A l \in 1..k : slots[l] # 0})

\* The conditions that a new entry point has no place for, or another one.
ConditionGoes(i, index, old, new) ==
    \/ index \notin 0..(Places(new) - 1)
    \/ \E pair \in Range(i.facts.conditionalSlots) : index = pair[1] /\ At(old, pair[2]) # At(new, pair[2])

LegacyPerkEntryPoint(i) ==
    LET conditions == i.facts.entryConditions
        current == i.record["DATA"][1].function
        required == At(i.facts.entryFunctionTypes, i.value)
        fitting == {f \in DOMAIN i.facts.functionTypes : i.facts.functionTypes[f] = required}
        selected == IF current + 1 \in fitting THEN current ELSE (CHOOSE f \in fitting : \A g \in fitting : f <= g) - 1
        old == At(i.facts.conditionSlots, At(conditions, i.old))
        new == At(i.facts.conditionSlots, At(conditions, i.value))
        items == i.record["PRKC"]
        going == Reverse(SelectSeq([k \in DOMAIN items |-> k], LAMBDA k : ConditionGoes(i, items[k].index, old, new)))
    IN  IF ~i.configured THEN Failure
        ELSE IF i.old = i.value THEN None
        ELSE IF ~InTable(conditions, i.old) \/ ~InTable(conditions, i.value) THEN Failure
        ELSE IF fitting = {} THEN Failure
        ELSE Mutations(Optional(selected # current,
                                <<SetTo(<<"DATA", "function">>, selected)>> \o SetParameterType(i, current, selected))
                       \o <<SetTo(<<"DATA", "conditionCount">>, Places(new))>>
                       \o [k \in DOMAIN going |-> RemoveContainerOccurrence("PRKC", going[k] - 1)])

LegacyPerkFunction(i) ==
    IF ~i.configured THEN Failure
    ELSE LET list == SetParameterType(i, i.old, i.value) IN When(list # <<>>, list)

LegacyPerkParameterType(i) ==
    IF ~i.configured THEN Failure
    ELSE When(i.old # i.value /\ i.value \in i.facts.supportedTypes, ParameterMutations(i, i.value))

-----------------------------------------------------------------------------

\* The ear has no model beside its icon: all model fields that the record has
\* are removed, the last one first.
HeadParts(i) ==
    LET fields == SelectSeq(i.facts.modelFields, LAMBDA field : Present(i, field))
    IN  IF ~i.configured THEN Failure
        ELSE IF ~Present(i, "INDX") THEN None
        ELSE When(/\ i.record["INDX"][1].value = i.facts.earValue
                  /\ fields # <<>>
                  /\ \E field \in i.facts.iconFields : Present(i, field),
                  [k \in DOMAIN fields |-> RemoveField(Reverse(fields)[k])])

-----------------------------------------------------------------------------
(* RecordEditor::set.                                                       *)

Handle(name, i) ==
    CASE name = "ctda_run_on" -> CtdaRunOn(i)
      [] name = "ctda_type" -> CtdaType(i)
      [] name = "game_setting_editor_id" -> GameSettingEditorId(i)
      [] name = "quest_script_name" -> QuestScriptName(i)
      [] name = "reset_sibling_default" -> ResetSiblingDefault(i)
      [] name = "map_sibling_integer" -> MapSiblingInteger(i)
      [] name = "select_optional_sibling_default" -> SelectOptionalSiblingDefault(i)
      [] name = "sort_info_group" -> SortInfoGroup(i)
      [] name = "refresh_sibling_unions" -> RefreshSiblingUnions(i)
      [] name = "invalidate_conflicts" -> InvalidateConflicts(i)
      [] name = "sync_count" -> SynchronizeCountAfterSet(i)
      [] name = "sync_container_counts" -> SynchronizeContainerCounts(i)
      [] name = "magic_effect_assoc_item" -> MagicEffectAssocItem(i)
      [] name = "magic_effect_second_av_weight" -> MagicEffectSecondAvWeight(i)
      [] name = "magic_effect_archetype" -> MagicEffectArchetype(i)
      [] name = "perk_effect_type" -> PerkEffectType(i)
      [] name = "legacy_perk_entry_point" -> LegacyPerkEntryPoint(i)
      [] name = "legacy_perk_function" -> LegacyPerkFunction(i)
      [] name = "legacy_perk_parameter_type" -> LegacyPerkParameterType(i)
      [] name = "head_parts" -> HeadParts(i)

Invocation(seen, field, value, old) ==
    [game |-> schema.game, version |-> schema.version, configured |-> schema.configured, facts |-> schema.facts,
     record |-> seen, field |-> field, value |-> value, old |-> old]

Handlers(path) == IF path \in DOMAIN schema.callbacks THEN schema.callbacks[path] ELSE <<>>

Combined(outputs) ==
    IF Failure \in Range(outputs) THEN Failure
    ELSE Mutations(FlattenSeq([k \in DOMAIN outputs |-> IF outputs[k] = None THEN <<>> ELSE outputs[k].list]))

\* The mutations of all callbacks of a path in their order, Failure if one
\* of them fails.
Answers(seen, path, value, old) ==
    Combined([k \in DOMAIN Handlers(path) |-> Handle(Handlers(path)[k], Invocation(seen, path[1], value, old))])

-----------------------------------------------------------------------------
(* apply_after_set_tree.  An edit is [value, queue, ok].                   *)

Default(field) == schema.defaults[field]

Within(m, field) == Len(m.path) = 2 /\ m.path[1] = field

\* apply_local_set_mutations and apply_local_default_mutations on the members
\* of a struct: those mutations of the queue with these ops, of these members.
ApplyLocal(e, field, ops, members) ==
    LET Here(m) == m.op \in ops /\ Within(m, field) /\ m.path[2] \in members
        Change(value, m) ==
            CASE m.op = "ResetToDefault" -> [value EXCEPT ![m.path[2]] = Default(field)[m.path[2]]]
              [] m.op = "Set" -> [value EXCEPT ![m.path[2]] = m.value]
              [] m.op = "SetIfEqual" -> IF value[m.path[2]] = m.expected THEN [value EXCEPT ![m.path[2]] = m.value] ELSE value
    IN  [e EXCEPT !.value = FoldLeft(Change, @, SelectSeq(e.queue, Here)),
                  !.queue = SelectSeq(@, LAMBDA m : ~Here(m))]

ApplySets(e, field) ==
    ApplyLocal(e, field, {"Set", "SetIfEqual"}, DOMAIN e.value)

\* The mutations of the member itself, and the resets of its siblings.
AnsweredMember(e, field, member, answer) ==
    LET own == {"Set", "SetIfEqual", "ResetToDefault"}
    IN  IF answer = Failure THEN [e EXCEPT !.ok = FALSE]
        ELSE [ApplyLocal(ApplyLocal([e EXCEPT !.queue = answer.list], field, own, {member}),
                         field, {"ResetToDefault"}, DOMAIN e.value)
              EXCEPT !.queue = e.queue \o @]

VisitMember(e, field, member, old) ==
    IF ~e.ok \/ e.value[member] = old[member] THEN e
    ELSE AnsweredMember(e, field, member, Answers(record, <<field, member>>, e.value[member], old[member]))

AnsweredStruct(e, field, answer) ==
    IF answer = Failure THEN [e EXCEPT !.ok = FALSE]
    ELSE ApplySets([e EXCEPT !.queue = @ \o answer.list], field)

\* The callbacks of the struct itself, after those of its members.
VisitPayload(e, field, old) ==
    IF ~e.ok \/ e.value = old THEN e
    ELSE AnsweredStruct(e, field, Answers(record, <<field, "payload">>, e.value, old))

VisitStruct(field, value, old) ==
    LET Visit(e, member) == VisitMember(e, field, member, old)
    IN  VisitPayload(ApplySets(FoldLeft(Visit, [value |-> value, queue |-> <<>>, ok |-> TRUE], schema.members[field]), field),
                     field, old)

-----------------------------------------------------------------------------
(* apply_local_mutations_with_scope and apply_after_set_callbacks on the   *)
(* other fields.  A candidate is [record, ok].                             *)

Rejected(c) == [c EXCEPT !.ok = FALSE]

ApplyMutation(c, m) ==
    LET field == m.path[1]
        found == IF m.op = "RemoveContainer" THEN <<>> ELSE c.record[field]
    IN  CASE ~c.ok -> c
          [] c.ok /\ m.op \in {"Set", "SetIfEqual", "ResetToDefault", "Remove"} /\ found = <<>> -> Rejected(c)
          [] c.ok /\ m.op = "Set" /\ found # <<>> -> [c EXCEPT !.record[field][1][m.path[2]] = m.value]
          [] c.ok /\ m.op = "SetIfEqual" /\ found # <<>> ->
                IF found[1][m.path[2]] = m.expected THEN [c EXCEPT !.record[field][1][m.path[2]] = m.value] ELSE c
          [] c.ok /\ m.op = "ResetToDefault" /\ found # <<>> ->
                IF schema.scoped THEN [c EXCEPT !.record[field][1] = Default(field)] ELSE Rejected(c)
          [] c.ok /\ m.op = "Remove" /\ found # <<>> -> [c EXCEPT !.record[field] = Tail(@)]
          [] c.ok /\ m.op = "InsertDefault" -> [c EXCEPT !.record[field] = Append(@, Default(field))]
          [] c.ok /\ m.op = "RemoveContainer" ->
                [c EXCEPT !.record = [f \in DOMAIN @ |-> IF f \in schema.containers[field] THEN <<>> ELSE @[f]]]
          [] c.ok /\ m.op = "RemoveContainerOccurrence" ->
                IF m.occurrence < Len(found) THEN [c EXCEPT !.record[field] = RemoveAt(@, m.occurrence + 1)] ELSE Rejected(c)
          [] c.ok /\ m.op = "SynchronizePresence" ->
                [c EXCEPT !.record[field] = IF ~m.present /\ @ # <<>> THEN Tail(@) ELSE IF m.present /\ @ = <<>> THEN <<m.value>> ELSE @]
          [] c.ok /\ m.op = "SynchronizeCount" ->
                [c EXCEPT !.record[field] = IF m.value = 0 /\ m.removeWhenZero THEN <<>> ELSE <<[value |-> m.value]>>]

ApplyMutations(c, list) == FoldLeft(ApplyMutation, c, list)

AnsweredRecord(c, answer) == IF answer = Failure THEN Rejected(c) ELSE ApplyMutations(c, answer.list)

\* The callbacks of the whole record, which see the changed record.
AfterSetCallbacks(c) ==
    IF ~c.ok THEN c ELSE AnsweredRecord(c, Answers(c.record, <<"record">>, None, None))

\* The edited value in its field, and what its queue asks of the other fields.
Placed(field, e) ==
    IF ~e.ok THEN [record |-> record, ok |-> FALSE]
    ELSE AfterSetCallbacks(ApplyMutations([record |-> [record EXCEPT ![field][1] = e.value], ok |-> TRUE], e.queue))

\* The new record, and whether the edit succeeded.
Edited(field, value) == Placed(field, VisitStruct(field, value, record[field][1]))

-----------------------------------------------------------------------------

Init ==
    /\ schema \in Schemas
    /\ record = schema.record
    /\ mixed = FALSE

\* The members with callbacks that a value changes.
Concerned(field, value) ==
    {member \in Range(schema.members[field]) :
        value[member] # record[field][1][member] /\ <<field, member>> \in DOMAIN schema.callbacks}

\* RecordEditor::set on the first occurrence of a field: all or nothing.
Set(field, value) ==
    /\ record[field] # <<>>
    /\ \E result \in {Edited(field, value)} :
          /\ record' = IF result.ok THEN result.record ELSE record
          /\ mixed' = (mixed \/ (result.ok /\ Cardinality(Concerned(field, value)) > 1))
    /\ UNCHANGED schema

Next == \E field \in DOMAIN schema.values : \E value \in schema.values[field] : Set(field, value)

Spec == Init /\ [][Next]_vars

-----------------------------------------------------------------------------
(* Properties.                                                             *)

Holds(field) == record[field] # <<>>

\* The effect of a legacy perk has the parameter fields of its parameter type
\* and no other ones, and conditions only for the places that its entry point
\* has, after any sequence of edits each of which changes one of entry point,
\* function and parameter type.  (An edit of two of them selects the function
\* from the one before the edit.)
PerkEffectFits ==
    schema.name = "legacy perk" /\ ~mixed =>
        LET type == IF Holds("EPFT") THEN record["EPFT"][1].value ELSE 0
            Fits(fields) == \A field \in {"EPFD", "EPF2", "EPF3", "SCHR"} :
                                Len(record[field]) = IF field \in fields THEN 1 ELSE 0
        IN  /\ type \in schema.facts.supportedTypes =>
                    Fits(CASE type \in schema.facts.dataTypes -> {"EPFD"}
                           [] type = schema.facts.scriptType -> Range(ScriptFields)
                           [] OTHER -> {})
            /\ \A item \in Range(record["PRKC"]) : 
                    item.index < Places(At(schema.facts.conditionSlots, At(schema.facts.entryConditions, record["DATA"][1].entryPoint)))

\* A condition that comes to run on something else loses the reference it ran
\* on, whatever else the edit changes and whatever reference it gives.  (Where
\* a type can move the run-on field, that runs no callback and the reference
\* stays.)
ReferenceFollowsRunOn ==
    schema.name = "condition" /\ ~schema.facts.legacyUseGlobal =>
        LET new == record'["CTDA"][1]
        IN  new.runOn \notin {record["CTDA"][1].runOn, schema.facts.referenceRunOn}
            => new.reference = schema.facts.nullReference

\* sync_container_counts: both counters of a struct are the lengths of its two
\* arrays, whichever of the four an edit gives.
CountersFit ==
    schema.name = "counters" =>
        LET data == record["DATA"][1]
        IN  data.includeCount = Len(data.includes) /\ data.propertyCount = Len(data.properties)

\* An edit of the archetype alone leaves the associated item empty and the
\* actor values those of the new archetype, though edits of the others may turn
\* an unset archetype into the generic one.
ArchetypeFits ==
    schema.name = "magic effect" /\ ~mixed' =>
        LET old == record["DATA"][1]
            new == record'["DATA"][1]
        IN  new.archetype # old.archetype /\ new.archetype < 255 /\ old.archetype < 255 =>
                /\ new.assocItem = NoForm
                /\ new.actorValue.value = ArchetypeActorValue(schema.game, new.archetype)
                /\ schema.facts.hasSecond => new.secondWeight = 0

\* After any sequence of edits of the record the fields that depend on others
\* are those that their callbacks ask for (edit.legacy_perk_*,
\* edit.sync_container_counts).
DependentFieldsFit == PerkEffectFits /\ CountersFit

\* No edit leaves a value behind that belonged to the old value of another one
\* (edit.ctda_run_on, edit.magic_effect_archetype), also where it changes both.
DependentValuesFollow == [][ReferenceFollowsRunOn /\ ArchetypeFits]_vars
=============================================================================
