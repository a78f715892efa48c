---------------------------- MODULE RecordMetadata ----------------------------
(***************************************************************************)
(* What a context tells of a record besides its fields: grid cell, FormID, *)
(* identity, editor ID and index keys of the record, the conflict priority *)
(* and removability of a value and the sorting of an array                 *)
(* (bethkit-semantic/src/context.rs, the metadata handlers of handler.rs). *)
(* The package binds each question to a handler with a configuration; the  *)
(* context asks the handler it holds when the question is put.             *)
(*                                                                         *)
(* A record is [signature, deleted, formVersion, subs], where subs gives   *)
(* the first subrecord of each signature as what its payload reads as, or  *)
(* Cut if that is too short or no text; the payload with the coordinates   *)
(* may be cut behind its first byte, which has the flags of a cell.        *)
(***************************************************************************)
EXTENDS HandlerRegistry, Integers, Sequences, SequencesExt

CONSTANTS
    Records,         \* the records that are asked for
    Values,          \* the values whose priority and removability is asked for
    CoordinateMin    \* the least coordinate: -2^31 in the code

Cut == None
Refused == [type |-> "refused"]
Nothing == [type |-> "none"]
Answer(type, value) == [type |-> type, value |-> value]

-----------------------------------------------------------------------------
\* The configuration of a handler: a missing or unsuitable entry is refused.

Configured(config, key, suitable) == key \in DOMAIN config /\ config[key] \in suitable

ConfiguredOr(config, key, default) == IF key \in DOMAIN config THEN config[key] ELSE default

-----------------------------------------------------------------------------
\* The handlers.

\* Where the grid coordinates of a record are.
GridSubrecord(signature) ==
    CASE signature = "CELL" -> "DATA"
      [] signature = "LAND" -> "INTV"
      [] signature = "PGRD" -> "DATA"

\* morrowind_grid_cell: interior cells and the path grids of interiors, which
\* are at the origin, have none.
MorrowindGridCell(record) ==
    LET sub == GridSubrecord(record.signature)
        data == record.subs[sub]
    IN  IF record.signature \notin {"CELL", "LAND", "PGRD"} THEN Refused
        ELSE IF sub \notin DOMAIN record.subs THEN Nothing
        ELSE IF ~data.whole THEN Refused
        ELSE IF record.signature = "CELL" /\ data.interior THEN Nothing
        ELSE IF record.signature = "PGRD" /\ data.x = 0 /\ data.y = 0 THEN Nothing
        ELSE Answer("grid", [x |-> data.x, y |-> data.y])

GridRange == (-512)..511

\* Mutant: a coordinate may be one more than the ten bits it gets hold.
WideGridFormId(base, grid) ==
    IF grid.x \notin (-512)..512 \/ grid.y \notin (-512)..512 THEN Nothing
    ELSE Answer("form", base * 65536 + (grid.x + 512) * 1024 + (grid.y + 512))

\* grid_cell_form_id: the sums overlap, base and x share four bits.
GridCellFormId(base, grid) ==
    IF grid.x \notin GridRange \/ grid.y \notin GridRange THEN Nothing
    ELSE Answer("form", base * 65536 + (grid.x + 512) * 1024 + (grid.y + 512))

MorrowindGridFormId(record, config) ==
    LET grid == MorrowindGridCell(record) IN
    IF ~Configured(config, "base", 0..255) THEN Refused
    ELSE IF grid.type # "grid" THEN grid
    ELSE GridCellFormId(config.base, grid.value)

\* A reference of this file has the file index 255.
MorrowindReferenceFormId(record) ==
    IF "FRMR" \notin DOMAIN record.subs THEN Nothing
    ELSE LET form == record.subs["FRMR"] IN
         IF form = Cut THEN Refused
         ELSE Answer("reference", IF form.file = 0 THEN [form EXCEPT !.file = 255] ELSE form)

\* grid_cell_sort_key: the coordinates from the least one on, in as many digits
\* as the largest needs, so that keys compare as texts the way pairs do.
GridCellSortKey(grid) == <<grid.x - CoordinateMin, grid.y - CoordinateMin>>

EditorIdText(record) ==
    IF "NAME" \in DOMAIN record.subs THEN record.subs["NAME"] ELSE ""

MorrowindGridIdentity(record, config) ==
    LET grid == MorrowindGridCell(record) IN
    CASE grid = Refused -> Refused
      [] grid = Nothing ->
           IF ~ConfiguredOr(config, "fallback_to_editor_id", FALSE) THEN Answer("text", "")
           ELSE IF EditorIdText(record) = Cut THEN Refused
           ELSE Answer("text", EditorIdText(record))
      [] OTHER -> Answer("key", <<ConfiguredOr(config, "prefix", "")>>
                                \o GridCellSortKey(grid.value))

MorrowindScriptEditorId(record) ==
    IF record.signature # "SCPT" THEN Refused
    ELSE IF "SCHD" \notin DOMAIN record.subs THEN Answer("text", "")
    ELSE IF record.subs["SCHD"] = Cut THEN Refused
    ELSE Answer("text", record.subs["SCHD"])

IntegerRecordIndexKey(record, config) ==
    IF ~Configured(config, "sub_signature", {"DATA", "FNAM"}) \/ "index" \notin DOMAIN config
    THEN Refused
    ELSE LET signature == config["sub_signature"] IN
         IF signature \notin DOMAIN record.subs THEN Answer("keys", {})
         ELSE IF record.subs[signature] = Cut THEN Refused
         ELSE Answer("keys", {[index |-> config["index"], key |-> record.subs[signature]]})

AvmdIndices == <<"simple_group", "complex_group", "modulation">>

StarfieldAvmdIndexKey(record) ==
    IF record.signature # "AVMD" THEN Refused
    ELSE IF ~({"MNAM", "TNAM"} \subseteq DOMAIN record.subs) THEN Answer("keys", {})
    ELSE IF record.subs["MNAM"] = Cut THEN Refused
    ELSE IF record.subs["MNAM"] \notin DOMAIN AvmdIndices THEN Answer("keys", {})
    ELSE IF record.subs["TNAM"] = Cut THEN Refused
    ELSE IF record.subs["TNAM"] = "" THEN Answer("keys", {})
    ELSE Answer("keys", {[index |-> AvmdIndices[record.subs["MNAM"]],
                          key |-> record.subs["TNAM"]]})

ModernGames == {"SkyrimLe", "SkyrimSe", "SkyrimVr", "Fallout4", "Fallout4Vr", "Fallout76", "Starfield"}

ModelInfoConflictPriority(record, game) ==
    Answer("priority",
           IF game \in ModernGames /\ record.formVersion < 38 THEN "Ignore" ELSE "Normal")

IsEmptyValue(value) ==
    value.type \in {"Bytes", "String", "Array", "Struct"} /\ value.content = <<>>

IgnoreEmptyConflictPriority(value) ==
    IF value = None THEN Refused
    ELSE Answer("priority", IF IsEmptyValue(value) THEN "Ignore" ELSE "Normal")

\* The water height counts only in exterior cells.
CellWaterConflictPriority(record) ==
    LET interior ==
            /\ ~record.deleted
            /\ "DATA" \in DOMAIN record.subs
            /\ record.subs["DATA"].interior
    IN  IF record.signature # "CELL" THEN Refused
        ELSE Answer("priority", IF interior THEN "Ignore" ELSE "Normal")

RemovableWhenZero(value) ==
    IF value = None \/ value.type \notin {"Int", "UInt", "Enumeration"} THEN Refused
    ELSE Answer("boolean", value.content = 0)

ConstantMetadataBoolean(config) ==
    IF Configured(config, "value", BOOLEAN) THEN Answer("boolean", config["value"]) ELSE Refused

\* The built-in handlers of these questions; a handler of the client answers
\* nothing of its own.
Handle(id, config, record, value, game) ==
    CASE id = "metadata.morrowind.grid_cell" -> MorrowindGridCell(record)
      [] id = "metadata.morrowind.grid_form_id" -> MorrowindGridFormId(record, config)
      [] id = "metadata.morrowind.reference_form_id" -> MorrowindReferenceFormId(record)
      [] id = "metadata.null_form_id" -> Answer("form", 0)
      [] id = "metadata.morrowind.grid_identity" -> MorrowindGridIdentity(record, config)
      [] id = "metadata.morrowind.script_editor_id" -> MorrowindScriptEditorId(record)
      [] id = "metadata.integer_index_key" -> IntegerRecordIndexKey(record, config)
      [] id = "metadata.starfield.avmd_index_key" -> StarfieldAvmdIndexKey(record)
      [] id = "metadata.constant_boolean" -> ConstantMetadataBoolean(config)
      [] id = "conflict.model_info_form_version" -> ModelInfoConflictPriority(record, game)
      [] id = "conflict.ignore_empty" -> IgnoreEmptyConflictPriority(value)
      [] id = "conflict.cell_water_height" -> CellWaterConflictPriority(record)
      [] id = "edit.removable_when_zero" -> RemovableWhenZero(value)
      [] OTHER -> Nothing

-----------------------------------------------------------------------------
\* The questions of a context.

\* invoke: the handler of the binding in the registry, if its version will do.
Invoke(context, binding, record, value) ==
    IF ~Require(context.registry, binding.handler, binding.minimum) THEN Refused
    ELSE IF context.registry.handlers[binding.handler].custom THEN Nothing
    ELSE Handle(binding.handler, binding.config, record, value, context.package.game)

BindingsAt(context, path, callback) ==
    SelectSeq(context.package.bindings, LAMBDA b : b.path = path /\ b.callback = callback)

Executable(bindings) == SelectSeq(bindings, LAMBDA b : b.executable)

\* The types of answer that each question about a record takes.
RecordQuestions ==
    [grid_cell |-> {"grid", "none"}, form_id |-> {"form", "reference", "none"},
     identity |-> {"text", "key"}, get_editor_id |-> {"text"}, index_keys |-> {"keys"}]

\* record_grid_cell, record_form_id and so on: one binding, which can be
\* executed, on the record itself.
AskRecord(context, record, question) ==
    LET bindings == BindingsAt(context, <<record.signature>>, question)
        answer == Invoke(context, bindings[1], record, None)
    IN  IF bindings = <<>> THEN Nothing
        ELSE IF Len(bindings) > 1 \/ ~bindings[1].executable THEN Refused
        ELSE IF answer.type \in RecordQuestions[question] THEN answer
        ELSE Refused

\* array_is_sorted.
AskSorted(context, record, path) ==
    LET bindings == BindingsAt(context, path, "is_sorted")
        answer == Invoke(context, bindings[1], record, None)
    IN  IF bindings = <<>> THEN Nothing
        ELSE IF Len(bindings) > 1 \/ ~bindings[1].executable THEN Refused
        ELSE IF answer.type = "boolean" THEN answer
        ELSE Refused

\* conflict_priority and is_removable: the bindings that can be executed run
\* one after the other, and the last decides.
AskValue(context, record, path, value, callback, type, default) ==
    FoldLeft(LAMBDA before, b :
                 IF before = Refused THEN Refused
                 ELSE LET answer == Invoke(context, b, record, value) IN
                      IF answer.type = type THEN answer ELSE Refused,
             Answer(type, default),
             Executable(BindingsAt(context, path, callback)))

AskPriority(context, record, path, value) ==
    IF path \notin DOMAIN context.package.priorities THEN Refused
    ELSE AskValue(context, record, path, value, "conflict_priority", "priority",
                  context.package.priorities[path])

AskRemovable(context, record, path, value) ==
    AskValue(context, record, path, value, "is_removeable", "boolean", TRUE)

-----------------------------------------------------------------------------

\* The contexts there are.
LiveContexts == {contexts[c] : c \in {d \in Contexts : contexts[d] # None}}

\* Two records of one plugin get one FormID only if they are of one kind and at
\* one place, negative coordinates and the edges of the grid included
\* (grid_cell_form_id, handler.rs:2692), as long as the bases of the kinds are
\* sixteen apart.
GridIdsIdentifyCells ==
    \A context \in LiveContexts :
        LET id == [r \in Records |-> AskRecord(context, r, "form_id")]
            grid == [r \in Records |-> AskRecord(context, r, "grid_cell")]
            placed == {r \in Records : grid[r].type = "grid" /\ id[r].type = "form"}
        IN  \A r, s \in placed :
                id[r] = id[s] => r.signature = s.signature /\ grid[r] = grid[s]

Before(p, q) == p[1] < q[1] \/ (p[1] = q[1] /\ p[2] < q[2])

\* The identity keys of two records sort the way their places do, so that equal
\* keys mean equal places (grid_cell_sort_key, handler.rs:2701).
IdentitiesSortByPlace ==
    \A context \in LiveContexts :
        LET key == [r \in Records |-> AskRecord(context, r, "identity")]
            grid == [r \in Records |-> AskRecord(context, r, "grid_cell").value]
            keyed == {r \in Records : key[r].type = "key"}
        IN  \A r, s \in keyed :
                r.signature = s.signature =>
                    (Before(Tail(key[r].value), Tail(key[s].value))
                     <=> Before(<<grid[r].x, grid[r].y>>, <<grid[s].x, grid[s].y>>))

\* The water of a cell is left out of conflicts exactly if the cell has no
\* place on the grid: two handlers read the same flag, the one from the first
\* byte and the other from four (handler.rs:1995, 2666).
InteriorCellsAgree ==
    \A context \in LiveContexts : \A r \in Records :
        /\ context.package.wellBound
        /\ r.signature = "CELL" /\ "DATA" \in DOMAIN r.subs /\ ~r.deleted /\ r.subs["DATA"].whole
        => LET water == AskPriority(context, r, <<"CELL", "water">>, None)
               grid == AskRecord(context, r, "grid_cell")
           IN  water.value = "Ignore" <=> grid.type # "grid"

\* A record that is whole is never refused, whatever the client has registered
\* and set, in a context whose package binds each question once; a question
\* that the package does not bind has no answer, which is no error.
WholeRecordsAreAnswered ==
    \A context \in LiveContexts : \A r \in Records :
        r.whole /\ context.package.wellBound =>
            /\ \A question \in DOMAIN RecordQuestions :
                   AskRecord(context, r, question) # Refused
            /\ \A path \in {p \in DOMAIN context.package.priorities : p[1] = r.signature} :
                   /\ AskSorted(context, r, path) # Refused
                   /\ \A value \in Values :
                          /\ AskPriority(context, r, path, value) # Refused
                          /\ AskRemovable(context, r, path, value) # Refused

\* A record that is whole gets an answer, and the answers tell its place: its
\* FormID, its identity and its conflicts say the same of where it is
\* (context.rs record_form_id, record_identity, conflict_priority).
AnswersFitTheRecord ==
    /\ WholeRecordsAreAnswered
    /\ GridIdsIdentifyCells /\ IdentitiesSortByPlace /\ InteriorCellsAgree
=============================================================================
