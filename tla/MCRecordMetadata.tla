--------------------------- MODULE MCRecordMetadata ---------------------------
(***************************************************************************)
(* Two packages: one that binds every question once and requires a version *)
(* of its handlers, and one that binds some twice or to what cannot run.   *)
(***************************************************************************)
EXTENDS RecordMetadata, TLC

CONSTANTS t1, t2

MCLinkHandlers == {"format.item_summary", "resolve.navmesh_edge"}
MCServiceHandlers == {"format.wwise_guid"}
MCPlainHandlers ==
    {"metadata.morrowind.grid_cell", "metadata.morrowind.grid_form_id",
     "metadata.morrowind.reference_form_id", "metadata.null_form_id",
     "metadata.morrowind.grid_identity", "metadata.morrowind.script_editor_id",
     "metadata.integer_index_key", "metadata.starfield.avmd_index_key",
     "metadata.constant_boolean", "conflict.model_info_form_version",
     "conflict.ignore_empty", "conflict.cell_water_height", "edit.removable_when_zero"}

Bind(path, callback, handler, config) ==
    [path |-> path, callback |-> callback, handler |-> handler, minimum |-> 1,
     executable |-> TRUE, config |-> config]
NoConfig == [x \in {} |-> x]
Water == <<"CELL", "water">>
Model == <<"STAT", "model">>
List == <<"FLST", "list">>

Grid(signature, base, fallback) ==
    <<Bind(<<signature>>, "grid_cell", "metadata.morrowind.grid_cell", NoConfig),
      Bind(<<signature>>, "form_id", "metadata.morrowind.grid_form_id", [base |-> base]),
      Bind(<<signature>>, "identity", "metadata.morrowind.grid_identity",
           [prefix |-> signature, fallback_to_editor_id |-> fallback])>>

GoodBindings ==
    Grid("CELL", 160, TRUE) \o Grid("LAND", 176, FALSE) \o Grid("PGRD", 192, FALSE) \o
    <<Bind(<<"REFR">>, "form_id", "metadata.morrowind.reference_form_id", NoConfig),
      Bind(<<"TES3">>, "form_id", "metadata.null_form_id", NoConfig),
      Bind(<<"SCPT">>, "get_editor_id", "metadata.morrowind.script_editor_id", NoConfig),
      Bind(<<"STAT">>, "index_keys", "metadata.integer_index_key",
           ("sub_signature" :> "FNAM" @@ "index" :> "biome")),
      Bind(<<"AVMD">>, "index_keys", "metadata.starfield.avmd_index_key", NoConfig),
      Bind(Water, "conflict_priority", "conflict.cell_water_height", NoConfig),
      Bind(Model, "conflict_priority", "conflict.ignore_empty", NoConfig),
      Bind(Model, "conflict_priority", "conflict.model_info_form_version", NoConfig),
      Bind(List, "is_removeable", "edit.removable_when_zero", NoConfig),
      Bind(List, "is_sorted", "metadata.constant_boolean", [value |-> FALSE])>>

Stopped(binding) == [binding EXCEPT !.executable = FALSE]
BadBindings ==
    Grid("CELL", 256, TRUE) \o Grid("LAND", 176, FALSE) \o Grid("LAND", 176, FALSE) \o
    Grid("SCPT", 10, TRUE) \o
    <<Stopped(Bind(<<"REFR">>, "form_id", "metadata.morrowind.reference_form_id", NoConfig)),
      Bind(<<"STAT">>, "index_keys", "metadata.integer_index_key", NoConfig),
      Stopped(Bind(Water, "conflict_priority", "conflict.cell_water_height", NoConfig)),
      Bind(Model, "conflict_priority", "metadata.null_form_id", NoConfig),
      Bind(List, "is_sorted", "metadata.constant_boolean", NoConfig)>>

MCPriorities == (Water :> "Normal") @@ (Model :> "Critical") @@ (List :> "Normal")

MCPackages ==
    {[table |-> t2, worldspaces |-> TRUE, game |-> "SkyrimSe", wellBound |-> TRUE,
      decoders |-> [zero |-> 1], bindings |-> GoodBindings, priorities |-> MCPriorities,
      handlers |-> (Condition :> 1) @@ (Worldspace :> 2) @@ (SortInfo :> 1)],
     [table |-> None, worldspaces |-> FALSE, game |-> "SkyrimSe", wellBound |-> TRUE,
      decoders |-> NoConfig, bindings |-> GoodBindings, priorities |-> MCPriorities,
      handlers |-> Worldspace :> 1],
     [table |-> None, worldspaces |-> FALSE, game |-> "Morrowind", wellBound |-> FALSE,
      decoders |-> [zero |-> 1], bindings |-> BadBindings, priorities |-> MCPriorities,
      handlers |-> Condition :> 2],
     [table |-> t2, worldspaces |-> FALSE, game |-> "Morrowind", wellBound |-> FALSE,
      decoders |-> [other |-> 1], bindings |-> BadBindings, priorities |-> MCPriorities,
      handlers |-> NoConfig]}

At(x, y) == [interior |-> FALSE, x |-> x, y |-> y, whole |-> TRUE]
Of(signature, subs) ==
    [signature |-> signature, deleted |-> FALSE, formVersion |-> 38, whole |-> TRUE, subs |-> subs]
CellAt(x, y) == Of("CELL", [DATA |-> At(x, y), NAME |-> "balmora"])
CutRecord(record) == [record EXCEPT !.whole = FALSE]

MCRecords ==
    {CellAt(x, y) : x \in {-513, -512, -1, 511}, y \in {-512, 0, 511}} \cup
    {Of("LAND", [INTV |-> At(x, y)]) : x \in {-512, 511}, y \in {-512, 511}} \cup
    {Of("LAND", [INTV |-> At(-1, 512)]), Of("LAND", [INTV |-> At(0, -512)]),
     Of("PGRD", [DATA |-> At(0, 0)]), Of("PGRD", [DATA |-> At(-512, 2)]),
     Of("CELL", [DATA |-> [At(3, 4) EXCEPT !.interior = TRUE], NAME |-> "vivec"]),
     [Of("CELL", [DATA |-> [At(3, 4) EXCEPT !.interior = TRUE]]) EXCEPT !.deleted = TRUE],
     CutRecord(Of("CELL", [DATA |-> [At(0, 0) EXCEPT !.interior = TRUE, !.whole = FALSE]])),
     CutRecord(Of("CELL", [NAME |-> Cut])),
     Of("REFR", [FRMR |-> [file |-> 0, object |-> 5]]), Of("REFR", NoConfig),
     CutRecord(Of("REFR", [FRMR |-> Cut])), Of("TES3", NoConfig),
     Of("SCPT", [SCHD |-> "hello"]), Of("SCPT", NoConfig), CutRecord(Of("SCPT", [SCHD |-> Cut])),
     Of("STAT", [FNAM |-> 7]), CutRecord(Of("STAT", [FNAM |-> Cut])),
     [Of("STAT", NoConfig) EXCEPT !.formVersion = 37],
     Of("AVMD", [MNAM |-> 3, TNAM |-> "entry"]), Of("AVMD", [MNAM |-> 4, TNAM |-> "entry"]),
     Of("AVMD", [MNAM |-> 1, TNAM |-> ""]), Of("AVMD", [MNAM |-> 1]), Of("FLST", NoConfig)}

MCDecoders == [zero |-> 1]
MCCoordinateMin == -2048

MCValues ==
    {[type |-> "Int", content |-> 0], [type |-> "Enumeration", content |-> 2]}
=============================================================================
