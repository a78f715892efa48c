# TLA+ specification of bethkit

bethkit reads, edits and writes the plugin, string and archive files of
Bethesda games.  This directory holds TLA+ modules for the parts of it whose
correctness depends on sequences of calls, on the agreement of two programs,
on limits or on failures; the TLC models that check them; and TLAPS proofs for
the load order, the plugin cache, the plugin writer, the plugin patcher, the
header patcher, the string table, the localization set and the handler registry.
All paths below are relative to `crates/` of the repository.

- [Inventory](#inventory)
- [Modules and how they correspond to the
  code](#modules-and-how-they-correspond-to-the-code)
- [Runs](#runs)
- [Proofs](#proofs)
- [Finding and observations](#finding-and-observations)
- [What is not modelled](#what-is-not-modelled)
- [Plan](#plan)

## Inventory

| component | state | operations | interacts with | what is hard | correct if |
|---|---|---|---|---|---|
| plugin patcher `bethkit-core/src/patcher.rs`, `patcher_header.rs` | registered replacements by FormID, group orders by source range, one header patch | `replace_record`, `reorder_group_records`, `patch_header`, `write_to` | borrows a parsed plugin; INFO sorting and the C interface call it | edits meet only when written; nested sizes; verbatim and rewritten parts side by side; a writer that fails halfway | every edit is in the stream, nothing else changes, sizes and counters fit |
| load order `load_order.rs`, FormIDs `types.rs` | entries, name and slot tables, two counters | `push`, `resolve` | owned by the cache | two index spaces that fill up at different times, widths of 8 and 16 bits, the sentinel 0xFE | indices unique, slots keep their owner, a refused push leaves nothing |
| plugin cache `cache.rs`, `plugin.rs` | load order, plugins, three indices, a lazily built EditorID index | `add`, `resolve_record`, `find_by_editor_id`, `records_of_type` | load order, parsed plugins; semantic context, C interface | overrides that change types; index invalidation; limits | the latest plugin wins in every index |
| plugin writer `writer.rs` | masters, groups, flags | `add_master`, `add_group`, `eslify`, `write_to_vec`, `write_to_file` | files; produces what the cache loads | renumbering with references in both directions; failures after truncation | references follow, IDs are distinct, header fits |
| string table `strings.rs` | identifier to bytes, `next_id` | `insert`, `try_insert_new`, `remove`, `write_to`, `open_as` | localization set | saturation at `u32::MAX`, gaps, reloading forgets removals | nothing replaced, nothing refused too early, identifiers stay retired |
| localization set `localized.rs`, `bethkit-ffi/src/strings.rs` | three tables, borrowed from mappings or owned | `open`, `set`, `write`, clone, free | files, memory maps, other sets | crash or failure between files and cells; truncating a mapped file | torn files are refused, sets are independent |
| record view and decoder `bethkit-semantic/src/view.rs`, `grammar.rs`, `decode_retention.rs`, `legacy_payload.rs` | none (pure), retention budgets | matching subrecords to a schema, decoding payloads, validation, occurrences | schema registry, handlers | greedy matching with repeats and choices; conditions and selectors that read other parts; decoding with and without keeping values | every subrecord has one path or is unknown; view and editor mean the same part |
| record editor `editor.rs`, `editor_address.rs`, `editor_union.rs` | candidate record, decoded values, codecs | opening, `set`, `set_parsed_value`, `set_record_editor_id`, `insert`, `remove`, the same by address, re-encoding | grammar, view, handlers (callbacks), patcher | callbacks that insert and remove while indices are in use; repeat scopes; payloads rewritten whole for one part; transactions | lossless, local, all or nothing, what is written is what the view reads |
| semantic handlers `handler.rs` | a registry with three settings, copied into contexts and editors | after-load, after-set, formatting, parsing, links, selectors, counts, metadata | editor, view, context | cross-field dependencies; texts parsed later than shown; settings that replace handlers | migrations are idempotent, dependent fields fit, texts stand for their values, copies are up to date |
| INFO sorting `info_sort.rs` | plans and prepared edits, based on opened plugins | `plan_info_group_sort`, `edit_info_previous`, `apply` | patcher, several plugins | cycles, missing and shared predecessors, overridden links, two registrations per edit | only cycles are refused, chains are kept, what is applied is written |
| context `context.rs` | handlers, decoders, registry, encoding | making contexts, views and editors; formatting, parsing; questions about a record | handlers, schema | required versions, bindings with unsuitable configurations | an answer fits the record |
| analysis, cleaning, plugin encoding | none between calls | read-only passes over all records | cache, view | - | reports agree with the cache |
| schema packages, registry, expressions `bethkit-schema` | process-wide catalog, lazily built indices | `embedded`, lookups, validation, evaluation | semantic crate | expressions that read parts before and behind | an expression never reads outside of its payload |
| record and group parser `record.rs`, `group.rs`, `plugin.rs`, `bethkit-io` | lazily decompressed and parsed subrecords | `Plugin::from_bytes`, `Record::subrecords` | everything | nested bounds | children fill their parent exactly |
| archives `bethkit-bsa` | none between calls | read and write BSA and BA2 | files | offsets computed before data is written | what was written reads back |
| C interface `bethkit-ffi` | handles, a thread-local error, string cursors, snapshots | about 200 functions | all of the above | sticky errors, batches with a failing record | no result lost or repeated |

There is no concurrency to model in bethkit: it is a library, editing
operations take `&mut self`, and what threads share is read-only except for
cells of the standard library that are filled once (`OnceLock`).  What makes it
hard is the length of legal call sequences, state kept by index while other
code inserts and removes, pairs of programs that must agree (decoder and
encoder, formatter and parser, view and editor, planner and patcher), limits,
and files that are written in place.

## Modules and how they correspond to the code

`PROJECT.json` maps each definition to its source lines.  Every module is
parameterised by constants; the `MC...` modules give them values, and the
`..._proofs` modules prove what holds for all of them.  A helper of one line
stands in the lines of the definition that uses it.

### Plugins and strings (`bethkit-core`)

| module | models | state | actions |
|---|---|---|---|
| `PatcherHeader` | `patcher_header.rs` | source frames, the walk (position, `follows_master`, what was seen, output), the patch | one per branch of the loop, `FinishPayload`, `RejectShortHedr`; then the next round patches the written header again |
| `PluginPatcher` | `patcher.rs`, iteration of `group.rs` | `patcher` (the plugin tree, `patches`, `groupOrders`, `headerPatch`), the stream `out`, the `result` | `ReplaceRecord`, `ReorderGroupRecords`, `PatchHeader`, `WriteTo`, `WriteToFails` |
| `FormIds` | `types.rs` | - | FormIDs and the light range as arithmetic |
| `LoadOrder` | `load_order.rs` | `entries`, `byName`, `regularIndex`, `lightSlotCounter`, `byLightSlot` | `Push` (light, regular, rejected); `Resolve` is an operator |
| `PluginCache` | `cache.rs`, `find_record` of `plugin.rs` | extends `LoadOrder`; plugins and indices | `AddPlugin`, `FindByEditorId` |
| `WinningOverrides` | abstract: what a cache promises | a map from records to winners | a plugin is added and wins, or is refused |
| `Eslify`, `PluginWriter` | `writer.rs` | masters, groups, light flag, the last results in memory and on disk | `AddMaster`, `AddGroup`, `Eslify` and its two refusals, `WriteToVec`, `WriteToFile`, `WriteToFileFails` |
| `LightLoad` | composition of writer and cache | extends `PluginCache`, uses `Eslify` | plugins written by `eslify` are added next to others |
| `StringTable` | allocation in `strings.rs` | `entries`, `next_id`, the identifiers removed (ghost) | `Insert`, `TryInsertNew`, `Exhausted`, `Remove`, `Rebuild` |
| `LocalizationSet` | file format in `strings.rs` (`Image`, `Parsed`: sequences of cells), `localized.rs`, clone and free of the C interface | files, sets, the running save | `Open`, `Edit`, `Clone`, `Drop`, `CreateFile`, `WriteCell`, `SaveFails`, `Killed`, faults |

### Records (`bethkit-semantic`, `bethkit-schema`)

| module | models | state | actions |
|---|---|---|---|
| `Grammar` | `grammar.rs`, node kinds of `model.rs` | - | the greedy matcher as a recursive operator |
| `RecordEditor` | `editor.rs`, `editor_address.rs`: subrecords | record, decoded values, codecs, one address | `Set`, `SetParsedValue`, `InsertField`, `RemoveField`, `Snapshot`, `SetAt`, `RemoveAddressed`, `InsertAddressed`, `SetInlineEncodingAt`, `SetStringAtWithEncoding` |
| `RecordValidation` | `view.rs`: `validate_with_mode`, repeated structures | extends `RecordEditor` | - (the view of every state of the editor) |
| `EditCallbacks` | the after-set handlers; `apply_after_set_tree` and the callbacks of `set` in `editor.rs` | the fields of one record, their members | `Set` |
| `Migration`, `AfterLoadHandlers` | the after-load handlers and how an output is applied | - | one operator per handler, answering an invocation |
| `RecordMigration` | `RecordEditor::new` with its callbacks | record, running callback and its targets, status | one callback on one subrecord; opening done or failed; opening again |
| `UnionSelectors` | `model.rs`, `expression.rs`, `editor_union.rs`, sizes in `view.rs`; the selector, count and inclusion handlers | - | the expression evaluator, fixed sizes; one operator per handler |
| `PayloadCodec` | decoding in `view.rs`, encoding in `editor.rs`, retention, legacy payloads | - | `DecodeNode`, `EncodeNode` and what they rest on |
| `PayloadEdit` | parts of payloads in `editor.rs` | subrecords, the values held, the last edit | `Set`, `SetParsedValue`, `SetNested`, `SetNestedIfEqual`, `SetRecordEditorId`, `ResetToDefault`, bytes of a sibling |
| `LinkFormats`, `ValueFormats` | the formatters, parsers and link resolvers of `handler.rs` | - | one operator per handler and phase |
| `FormattedField` | `format_value_as`, `parse_edit_value`, `resolve_link` of `context.rs` | value, text in the control, surroundings | `Show`, typing, `Submit`, a change of the surroundings |
| `HandlerRegistry` | the registry, context and editor creation | registered instances with their settings; copies | every setter, `register`, new contexts and editors |
| `RecordMetadata` | the metadata handlers and the questions of `context.rs` | extends `HandlerRegistry` | - (the answers in every state of the registry) |
| `InfoSort` | `info_sort.rs`, registration at `patcher.rs` | plugins, prepared edits and plans, what each patcher holds | plan, prepare, apply, save |

**How they compose.**  `LightLoad` feeds the writer's output to the cache;
`MCPluginPatcher` and `MCLocalizationSet` run two modules side by side, each
behaviour about one of them (`part`).  `InfoSort` has the patcher's view of
orders and records without its stream, which is `PluginPatcher`'s.
`RecordEditor`, `EditCallbacks`, `PayloadEdit` and `RecordMigration` are four
models of one editor, each with the whole control of one concern: subrecords
and scopes, members and callbacks, payload bytes, and opening.  What joins
them is the interface of the code: mutations.

**What is abstracted.**  Outside of `PayloadCodec` a payload is a small number
or a record of the fields that handlers read. In `PayloadCodec` it is a
sequence of bytes, and a byte has `Radix` values, eight in the run, so that
widths, signs and overflows happen with small numbers; a letter, a hash and a
pair of flag bits are small codes there too. Names, EditorIDs and signatures
are strings that are only compared. A text is a sequence of tokens (digits,
names, marks), because formatters and parsers differ in which of them they
read. Lookup tables are cut to entries that the code tells apart. A frame or a
piece of a stream has a length in abstract units, so that announced sizes can
be wrong; a group header announces its size `% U32`. String files keep their
cells, because tearing is about cells. Names are compared as the code does,
exactly or without case: capitals are spelled out for the names a formatter's
text may have in another case (`AnyCase`). Widths are constants, and a cast
that the models have is `% width`. Not all casts are there: the string tables
count without a bound (see the observations), and so does the record count of
the writer's header (`writer.rs:314`), which 2^32 records would need more than
96 GiB to exceed; the sizes of records and groups in the writer's output are
not modelled. Two errors of the patcher are left out: its node count has the
same limit (`patcher_header.rs:75`), and a registered record that is no longer
in its group cannot be, as orders are checked when they are registered and the
plugin is borrowed (`patcher.rs:308`). The coordinates of a cell go down to
`CoordinateMin`, which stands for -2^31, and angles and times are counted in
halves.

**What is kept.**  The control flow of each operation, with its early errors
in their order.  An operation that takes `&mut self` is one action, since
nobody can see its middle; an edit computes its candidate by operators and
commits it in the action.  Opening a record is not one action but one per
callback and subrecord, as an error in the middle discards the editor.  A save
of a localization set is one action per file creation and per cell, as the
process may die between them.  Definitions marked as mutants are deliberate
mistakes that a property must detect; no specification uses them.

**The callback loop** (`RunCallbacks`, `ApplyReply`, `ApplyToIndex` of
`RecordEditor`).  An edit first applies the mutations that its payload's
callbacks return, each in the innermost repeated group around its path, then
runs the record-level callbacks bound to the changed field or above it, one
after the other, each on the candidate that the former left.  A mutation in a
group names a local occurrence; `RecordOccurrence` maps it to the one in the
record.  The grammar is matched again before each mutation.

**Payload edits** (`Rewrite`, `FindPart`, `Rewritten`, `Replacement` of
`PayloadEdit`).  A part is found by its path and a count of occurrences over
arrays, union variants and payloads; the value held is changed there, the
callbacks' wishes for other parts are granted on the value, and the payload is
encoded anew.  What the view decodes from these bytes is compared with what
the editor holds.

## Runs

Eleven runs check what holds, one shows a disagreement between the code and
its documentation.

| run | what it asks | bounds |
|---|---|---|
| `patcher` | Do replacements, group orders and a header patch, registered in any order, arrive in the stream and nothing else (`EditsAreWrittenWithoutSiblingReorders`)? Does a reader that trusts the written sizes find the same tree exactly if these fit their field (`ReaderFindsTheSameTree`) and does the header count it (`HeaderCountsTheStream`)? Does a header patch, applied twice, change only what it names (`OnlySpecifiedFieldsChange`, `CompressedFlagMatchesBody`)? | a plugin with nested groups and one with mixed children, order lists of up to 2, a failing writer, sizes modulo 9, which some replacements exceed; headers of up to 3 frames, two rounds |
| `plugin_cache` | Do the two ways from a FormID to a plugin agree (`LoadOrderIsConsistent`, `ResolutionIsStable`)? Do all lookups find the last plugin (`WinnersAreFound`, `TypeListsPartitionWinners`), so that the cache refines `WinningOverrides` (`ImplementsOverrides`)? Are the records of every light plugin found, and whose are they (`FirstSlotOwnsItsRecords`)? | six plugins under three names (one in two spellings), two of them made light by `eslify` and added at most twice; 2 regular indices, 2 light slots, up to 4 additions |
| `writer` | Do references follow renumbered records and are the numbers distinct (`ReferencesFollowTheirRecords`)? Does the header fit (`HeaderFitsRecords`)? | three groups, one master, three kinds of games, two calls of `eslify`, a light range of up to 6 numbers |
| `strings` | Is a free identifier found and no string replaced (`AllocationFindsFreeIds`), does a removed one stay retired (`RemovedIdsStayRetired`)? Is a table that opens one that was stored whole (`OpenedTablesAreWhole`), are sets independent (`OtherSetsAreUntouched`)? | identifiers 0..4, histories of any length; two languages, two sets, two calls, every save cut off or killed at every cell |
| `record_editor` | Is an edit lossless (`LosslessEdit`) and local to its group (`GroupEditIsLocal`)? Do counters and decoded values follow (`CounterFollowsItems`, `DecodedFollowsRecord`)? Do view and editor number the same fields (`ViewAndEditorAgree`), and does validation stay clean (`ValidRecordsStayValid`)? | three calls on small schemas of a package, a message, a form list, a perk and nested repeats, up to 5 subrecords at the start |
| `record_migration` | Is an open record current (`OpenRecordIsCurrent`)? Does loading it again change nothing (`ReopenChangesNothing`)? Is nothing lost (`MigrationKeepsFields`)? Do mutations always find their fields (`MutationsApply`)? | for every handler old, new and mixed forms, for the games it serves and one more; two openings |
| `edit_callbacks` | After any sequence of edits, are dependent fields those that their callbacks ask for (`DependentFieldsFit`), and does no value stay that belonged to the old value of another (`DependentValuesFollow`)? | a perk effect, a condition, a magic effect, counted arrays, head parts and others; edits of any number of members, histories of any length |
| `field_texts` | Does a displayed text tell its value (`DisplayTellsTheValue`)? Does an edit text that is submitted unchanged keep it, also after its surroundings changed (`EditTextKeepsValue`)? Are displayed texts stable where controls read them (`DisplayedTextsAreShownAgain`)? | names that are typed in another case; a field or more per formatter, its boundary values, two to four surroundings; texts of up to 4 tokens for those typed freely |
| `payload_edit` | Is what the editor encodes what the view decodes, with and without keeping values (`EditsReadBack`)? Do model-information counts follow (`CountsFollowArrays`)? Does an edit of a part leave the other parts alone (`OnlyTheEditedPartChanges`)? | bytes of 8 values; schemas that use every kind of node, count, string layout and selector; one to three edits each |
| `info_sort` | Are only cycles refused (`OnlyCyclesAreRefused`)? Does a plan keep the chains and is it stable (`PlansFollowTheLinks`)? Is what was applied written, the last order of a group included (`AppliedLinksAreWritten`)? | three or four records in every linking, two plugins, two topics; two plans or edits in any overlap |
| `record_metadata` | Is every copy of a registry up to date with what was configured and required (`RegistryIsConsistent`)? Does an answer fit the record (`AnswersFitTheRecord`)? | five calls of setters, registrations, contexts and editors; records on both sides of every limit |
| `patcher_sibling_reorders` | Is every registered edit written (`EveryEditIsWritten`)? It is not, see below. | as `patcher` |

**Why the bounds are enough.**  The header walk carries state from one frame to
the next only (`follows_master`) and "seen" flags, so three frames reach every
pair of neighbours in front of every flag.  The patcher's plugins have a group
in a group and two sibling groups, which is what the marking and the sizes
distinguish; sizes wrap at 9, which the replacements in one plugin just do not
reach, while in the other the outer group gets 9 or 11 units long.  The index
spaces of the load order are so small that both overflow within four additions,
and the proofs cover all sizes.  Two calls of `eslify` meet records that are
already light.  Five identifiers let `next_id` saturate with and without gaps.
Two sets and two languages are the smallest world in which a set is saved over
the files of another.  In the editor, three calls let an address be issued, the
record change under it and the address be used.  Two openings are the question
of idempotence.  Formatters have no memory, so one field and one text at a time
reach everything.  A payload edit starts from a value the previous one left, so
that the second edit meets what the first may have left wrong; eight byte
values are the fewest with which a two-byte integer, a sign and a count beyond
the payload differ.  Plans are prepared from the opened plugins, so two
overlapping ones show what the last registration overwrites.  Symmetry is not
used.

**Deadlock.**  Where calls are bounded the behaviour ends at the bound and
deadlock checking is off; in `writer`, `strings` and `edit_callbacks` it is on.

**Type invariants.**  Those of the string table (`TableTypeOK`) and of the
registry (`TypeOK`) are proved, and every inductive invariant below begins with
the types of its variables.  No run has a type invariant among its properties:
TLC evaluates every operator on every reachable state and stops at an operand
of the wrong type.

**Fairness and liveness.**  No specification assumes fairness.  The modelled
operations are calls of a library: nothing obliges a caller to make the next
one, and each call ends by itself, which the operators show by being total.
A property that something eventually happens would state an assumption on the
caller, not a promise of the code.

## Proofs

The theorems hold for every value of the constants that satisfies the named
assumptions, which TLC evaluates on the constants of the runs.  All are about
the specifications that the runs check, or about the part of them that one
component takes.

| proof module | about | theorems | inductive invariant |
|---|---|---|---|
| `PluginCache_proofs` | `LoadOrder`, `PluginCache`, `LightLoad` | `UniqueIndices`, `SlotTable`, `Consistent`, `StableResolution`; for the cache `CachePartition`, `CacheFindsWinners`, `CacheOverrides`; for plugins made by `eslify` also `LightOwners`, `LightPartition`, `LightFindsWinners`, `LightOverrides`, `LightConsistent`, `LightStable` | `Inv`, `CacheInv`, `LightInv` |
| `PluginWriter_proofs` | `PluginWriter` | `HeaderFits`, `ReferencesFollow` | `WriterInv` |
| `PluginPatcher_proofs` | `PluginPatcher` | `TypeCorrect`, `EditsWritten`, `ReaderFindsTheTree`, `CountersFit` | `Inv` |
| `PatcherHeader_proofs` | `PatcherHeader` | `OnlySpecifiedChange`, `FlagMatchesBody` | `WalkInv` |
| `StringTable_proofs` | `StringTable`, `LocalizationSet` | `TypeCorrect`, `NextIdAhead`, `FreeIdsAreFound`, `RetiredForGood`; `SetsAreIndependent`, `TablesAreWhole` | `Inv`, `SetsInv`, `WritesInv` |
| `HandlerRegistry_proofs` | `HandlerRegistry` | `TypeCorrect`, `Consistent` | `Inv` |
| `Eslify_proofs`, `SequenceFacts` | the renaming of `eslify`; sequences | lemmas only | - |

**Loops and recursion.**  `SequenceFacts` has what the proofs need of sequences
of any length.  The induction theorems of the library take an operator, which
the provers do not instantiate; `UpToInduction` is about a set of numbers
instead and follows from the least number outside of it (`LeastElement`).  A
recursive function is first shown to exist, by building it one argument at a
time (`FlattenRecursion`, `WithoutRecursion`, `IndexRecursion`); what it
computes is then proved by `UpToInduction` over its argument.

**Load order** (`UniqueIndices`, `SlotTable`, `Consistent`, `StableResolution`;
assumptions `LoadOrderAssumption`, `FormIdAssumption`: the spaces are natural
numbers, and the casts are wide enough for them).  Uniqueness alone is not
inductive: a push could reuse an index unless the counter is above all indices
given out.  `Inv` therefore says that every regular index is below
`regularIndex`, that the slot table is a function on exactly the slots below
`lightSlotCounter` and that it is the inverse of the entries' slots.  Each kind
of push keeps it (`LightPushKeepsInv`, `RegularPushKeepsInv`,
`RejectedPushStutters`), where `NoWrapAround` removes the casts.  `Consistent`
is the property that `plugin_cache` checks.  `StableResolution` is an action
property: a light push writes to a slot that the table did not have
(`StepKeepsOwners`).

**Plugin cache** (assumptions `CacheAssumption`: plugins hold sequences of
records; `PluginsAssumption`: one record per FormID in a plugin).  `CacheInv`
joins the invariant of the load order with four facts about the indices: the
cached plugins are the entries; the type lists hold each winner once, under its
type (`ListsMatch`); every indexed identifier is that of a record of the plugin
named as its winner (`Found`); every record that resolves, through a light slot
that was taken when its plugin was added, is indexed, and no later plugin than
the winner has it (`Covered`).  The last two mention the load order, so a push
must not change what was resolved before: `PushGrows` shows that it only adds
one entry and at most one slot, which leads to this entry.  The loop of `add`
is followed record by record (`IndexKeepsLists`, `IndexTakes`, `LoopTakes`).
The EditorID index is unbuilt or what the current records give, hence never
stale. `CachePartition` and `CacheFindsWinners` follow from the invariant.
`CacheOverrides` is the refinement of `WinningOverrides`, with the winner of
each identifier as the abstract state: a successful `add` is one `AddPlugin`
and every other call leaves the abstract state alone (`CacheStepOverrides`).
Without `PluginsAssumption` `find_by_editor_id` can answer with a record of
another EditorID, as `find_record` returns the first record of a FormID; only
this part needs it.

**Light plugins** (assumption `DraftAssumption`: the drafts are groups that
`eslify` accepts, that is few enough own records, no null FormIDs, no FormID
twice).  `RemapFacts` shows that the renaming is injective and stays in the
light range, so an eslified plugin is again one with a record per FormID
(`LightPluginsAreWellFormed`), and all of the above holds for a cache that
loads them (`SpecLight`, which is the specification of the run).  `LightInv`
adds which draft each cached plugin was made from, and that slot 0 is taken by
then, by a plugin that stays there (`LightPushTakesFirstSlot`,
`CacheStepKeepsSlots`).  `LightOwners` says of the records of every eslified
plugin that they are found and belong to the plugin with slot 0.

**Plugin writer** (assumptions `WriterAssumption`; `GroupsAssumption`: callers
add records with distinct FormIDs below the light index, whose references hold
the FormID of the record they mean).  `HeaderFits` needs `WriterInv`: whatever
is in memory and in the file fits its header (`Fits`), half-written files
included, and a writer on which `eslify` never succeeded is not light.
`NextIsFree` is about the maximum that `next_object_id` computes over all
groups.  `ReferencesFollow` is inductive given `WriterInv`: `eslify` maps each
FormID by one injective function, in records and in references alike.

**Plugin patcher** (`EditsWritten`, `ReaderFindsTheTree`, `CountersFit`;
assumptions `PatcherAssumption` and, for the sizes, `SourceAssumption`).  A
plugin is any finite tree, of any depth and with any numbers of groups and
records, that the parser can have made (`IsPlugin`): `parse_children` gives
siblings source ranges behind each other and inside their group, behind its
header.  Replacement bodies have any positive length.  The inductive invariant
`Inv` says what the patcher holds (`PatcherOK`: orders that passed the checks
of `reorder_group_records`, bodies that were registered) and that `out` is the
stream, or the part of it that the writer took.  What is left is about one
patcher and its stream.

- The tree functions (`Below`, `Verbatim`, `WriteGroup`, `MarkReordered`) are
  recursive functions.  A group's range is longer than that of its subgroups
  (`SubGroupRank`), so each of them has a solution (`TreeRecursion`, once for
  all four, with `StepAgrees`), and what holds of a group when it holds of its
  subgroups holds of all (`TreeInduction`).
- `ReaderFindsTheTree`: `Good` says of a part of a stream that it holds a set
  of nodes once each, that no declared size ends behind it, and that the
  innermost declared size around each piece is that of its parent, or else the
  piece is a child of the group that the part is written for.  It holds of one
  record and of what follows a good part (`GoodConcat`, `GoodFlatten`), and a
  recomputed header makes a good part of its children one of the group
  (`GoodGroup`). The size is cast to a u32, so `Good` also names the groups
  that are too long for it (`TooLong`), and says these things of the part
  exactly if there are none.  A group that fits, with readable children, is
  readable (`FittingGroup`); one that is readable fits and has readable
  children, since its size has to cover the last of them (`ReadableGroupFits`),
  so no group hides the fault of another.  What is copied fits, as the sizes of
  the source were read from u32 fields (`SourceAssumption`): only walked groups
  count (`OnlyTouchedIsTooLong`), which is `SizesFit` (`NoneIsCutOff`).
  Offsets are sums of lengths (`LengthsConcat`).  That no node is written twice
  needs the source ranges (`SiblingsDisjoint`) and, in a reordered group, the
  checks of the order (`OrderIsComplete`, `VisitedFacts`).
- `CountersFit`: the stream holds the nodes of the tree once each, so it is as
  long as the counter says (`NodesCounted`, `RecordCountIs`).  With nothing
  touched every group is copied, so that the old counters still fit.
- `EditsWritten`: a group that is not touched has no edit below it
  (`UntouchedIsClean`) and is then the same walked or copied
  (`CleanIsCopied`).  The first half needs the hypothesis that no two siblings
  lead to an order (`MarksReachOrders`): the walk then stops at the only
  subgroup there is to find.  Without the hypothesis it is false, which is the
  finding below.

**Header patcher** (assumption `HeaderAssumption`: headers and master lists are
sequences).  `WalkInv` says that after each frame the output is what the
frames before it become, taken one by one (`Upto`), and that the flags of the
loop say what was met.  At the end this is `Intended`, which the run's property
compares the written header with.  Patching again must change nothing: a header
is `Settled` if its first `HEDR` is current, its first `SNAM` is the
replacement and its masters are exactly one block with the replacement list.
What a patch yields is settled (`IntendedIsSettled`), and a settled header
becomes itself (`SettledStays`).

**String table** (`TypeCorrect`, `NextIdAhead`, `FreeIdsAreFound`,
`RetiredForGood`; assumption `StringTableAssumption`: the largest identifier is
a positive natural number).  The inductive invariant is `TableTypeOK /\
NextIdIsAhead`: `next_id` is above all identifiers that are or were in the
table, or has saturated (`RaisedIsAhead`, `PutKeepsInv`, `RemoveKeepsInv`,
`RebuildKeepsInv`).  Without it a removed identifier could be `next_id`.
`Rebuild` (reloading a file, or copying a set) recomputes `next_id` from the
entries and starts a new history, so `RetiredForGood` is about one history.
`FreeIdsAreFound` joins two facts about a step: what the search returns was
free (`FreshIsFree`, `StepReplacesNothing`), and a refusal means that no gap
is left, since a non-empty set of identifiers has a least element
(`LowestGapExists`, `StepRefusesWhenFull`).

**Localization set** (`SetsAreIndependent` and `TablesAreWhole`, the action
properties `OtherSetsAreUntouched` and `OpenedTablesAreWhole`; assumption
`LocalizationAssumption`, which `TablesAreWhole` uses: the tables installed are
finite maps from words to byte strings, edits use words and bytes, and no
language has the name by which the model marks owned strings).  `SetsInv`: each
string of a set is owned, or borrowed from the language that the set was opened
from.  What a set reads as then depends on its own strings and the files of
that language only (`SameFilesSameContents`), and a step changes the strings of
the set it edits and the files of the language it saves to
(`StepLeavesOtherSets`).

`TablesAreWhole` relates the writer and the reader of the file format.
`WritesInv` adds that every file is absent or a prefix of the image of the
table stored in it (`FilesOK`), and that during a save the file and what is
left to write are that image together (`SaveOK`); for the latter a set that is
being saved has to stay open, and its texts, borrowed from files that may since
have been truncated, have to read as byte strings (`SetsOK`, `TextIsTyped`).
The rest is about one file.  `ImageIsLaid`: in an image the directory lists the
identifiers, each with the place where its frame begins; this needs that the
identifiers of a finite set can be listed in order (`SortedExists`,
`AscendingIs`) and sums of lengths (`FlattenAt`, `FlattenPairs`).
`WholeOrRefused`: a prefix that parses has the whole directory, each identifier
once, and each frame to its end, since a length that points behind the end is
refused (`PrefixedIsRead`), and so is a text without its zero
(`TerminatedIsRead`).  Only a text of a `.STRINGS` file that itself holds a
zero is cut, which the property excludes (`Representable`).

**Handler registry** (`TypeCorrect`, `Consistent`; assumption
`HandlerSetsAreDisjoint`: no handler is of two kinds).  `RegistryIsConsistent`
compares the handlers with what was set.  It is not inductive, because the
setters do not look at what was set but at fields of the registry that keep it.
`Inv` adds that these fields agree with the history (`Settled`), for the
registry and for each copy in a context or an editor, and that only editors
have a load order.

**Only model-checked.**

- `Grammar`, `RecordEditor`, `RecordValidation`, `UnionSelectors`,
  `PayloadCodec`, `PayloadEdit` and `InfoSort` use recursive operators over
  schemas, values and links, which the prover does not accept.
- `RecordMigration`, `EditCallbacks`, `FormattedField` and `RecordMetadata`:
  their properties go over about 200 handlers, each right for reasons of its
  own, on the records that TLC enumerates.  A proof for all records would be
  one case per handler with assumptions as long as the handlers.
- Liveness does not arise, see above.

## Finding and observations

`patcher_sibling_reorders` (`bethkit-core/src/patcher.rs:389`): the walk that
marks reordered groups stops at the first marked sibling, so the order of a
second reordered sibling group is not written, although patcher.rs:8-9 promises
it.  `EditsAreWrittenWithoutSiblingReorders` shows that nothing else is lost.

The following was seen while modelling.  The models do what the code does, and
the properties are stated around it; where the code's documentation promises
nothing else it is a note for maintainers, not an error.

Plugins and strings:

- `eslify` writes slot 0, and the load order takes these bits for the slot of
  the owner (`load_order.rs:171`, `cache.rs:133`): the own records of the second
  light plugin go to the first.  This is what `FirstSlotOwnsItsRecords` states;
  the cache promises no more.
- A group that replacements make longer than 4 GiB gets a size of its length
  modulo 2^32 (`patcher.rs:329`), and `write_to` reports no error; a reader
  then finds another tree.  `ReaderFindsTheSameTree` says that this is the only
  case.
- `write_to` casts the number of strings, their lengths and the offsets to 32
  bits (`strings.rs:287-297`).  `LocalizationSet` counts without a bound: what is
  checked and proved of its files is about tables below 4 GiB.
- After `eslify` the next object ID of the header is searched under the old
  file index and is the default, 0x800, although a record may have it
  (`writer.rs:316`, `399`).  `HeaderFitsRecords` is about plugins that were not
  made light.
- For Skyrim SE `eslify` numbers from 1 (`types.rs:360`), while
  `writer.rs:195-196` documents a range from 0x800.  A second `eslify` numbers
  new records from the start of the range again (`writer.rs:246`).
- With 256 masters the number of masters wraps at eight bits (`writer.rs:220`);
  the run has at most one.
- `write_to_file` truncates its target first (`writer.rs:285`), and a
  localization set that is written back to the files it was opened from
  truncates the mapping it reads from (`localized.rs:259`).  No property is
  claimed of such a save.
- A failed save can leave tables of two generations, or miss one, and the set
  opens without an error (`localized.rs:260`).
- One raw FormID under two types in one plugin makes `records_of_type` yield a
  record of another type (`cache.rs:186`, `plugin.rs:270`).  The sources of the
  run have distinct FormIDs.

Record editor:

- Codecs go by subrecord index and do not move when a callback of `set`
  inserts or removes a subrecord (`editor.rs:196`); an insertion that finds the
  list too short panics after it has committed the record (`editor.rs:383`).
- `remove` of the type of a package input runs its callback in the scope of
  the removed group, which is then that of the next input, and fails for the
  last one (`editor.rs:393-408`, `3536`).
- `insert` of a field of a repeated group goes into the first group, while its
  decoded value is stored as the last occurrence (`editor.rs:355-373`), so
  `DecodedFollowsRecord` leaves `insert` out.  `insert` does not ask whether the
  schema has room for one more.
- An address is checked against a hash of the record's structure: after a
  removal and an insertion of the same kind it is accepted again
  (`address.rs:46`).
- A scaled float is normalised again whenever a sibling is edited
  (`editor.rs:1010`, `view.rs:1930`).
- A part below a union that is selected by the record can be edited where the
  search has no subrecord index and takes another variant (`editor.rs:1539`);
  resets look through every union before they reach the part
  (`editor.rs:1671`).
- `set_record_editor_id` writes the payload without its source subrecord, so
  that a legacy layout, an extra zero byte or a codec is not kept
  (`editor.rs:3634`).
- An edit that changes two members with callbacks at once selects the function
  of a perk from the old entry point; setting the run-on field and the
  reference together loses the reference; type changes of a condition do not
  run the callbacks of the fields they change.

Payloads:

- A selector callback sees only the candidate bytes of its union while
  encoding; unions selected by a sibling's text are refused by `set`; negative
  integers of less than eight bytes, and absent conditional fields, are refused.
- Array counts that are expressions or callbacks are not compared with the
  array that is encoded.
- Fixed strings without a terminator read back their padding; an inserted one
  takes the extra zero byte.  Slots of a star array may move.
- The second exception in the selection of a condition's parameters cannot be
  reached.

Migrations:

- Effect shaders and regions with values that are not numbers drift with each
  load; of several duplicates one is removed per load; a water record with
  visual data alone stays as it is.
- A record whose subrecords are out of the schema's order may be impossible to
  open, because a handler finds a subrecord that its mutation cannot.

Texts and links:

- Of two names of a lookup table that differ in case only, which the table
  accepts, the second is read as the first.
- Some edit texts do not parse back or stand for another value: angles,
  negative coordinates below one degree, climate times, landscape positions out
  of range, navmesh edges.  They are listed per field as `lossy` in
  `MCFormattedField`.  `E180` is read as `W180`, and a fraction that is rounded
  up to a full degree is added to the degrees with their sign, so south and west
  it makes their number smaller.

INFO sorting:

- A refused group order leaves the record registered, although a prepared edit
  is called transactional (`info_sort.rs:33`, `64`).
- Records that follow the same one swap with each sort; two edits prepared from
  the same plugins keep only the later order (`LastOrdersAreWritten`), which was
  planned without the links of the earlier edit; the order of a second topic may
  be lost to the finding above.

Registry and metadata:

- Setters and new contexts replace handlers that a client registered under the
  same id; `set_remove_offset_data` after a load order forgets the latter; the
  table of a registry survives into the context of a package without one.
- The last binding for removability and priority decides; an exterior path
  grid at (0,0) counts as none; grids whose bases are less than 16 apart share
  FormIDs.

Validation:

- A missing required field of a later repeat is not reported if an earlier one
  has it; string enumerations bound to a scalar's `/payload` path are not
  validated; nested repeats merge the occurrences of different outer ones,
  unlike `view.rs:535` says; `array_element_field` sees the first array only.

## What is not modelled

`PROJECT.json` lists every component with its status.  Left out of modelled
components:

- form-version and record conditions of structural nodes in `Grammar`, the
  budget of expression operations, custom decoders, opaque text and code pages;
- addresses inside a payload; the composition of subrecord insertion with
  payload bytes in one model of the editor;
- the wording of summaries beyond what their properties tell apart, and the
  contents of built-in tables;
- `extract_strings` and `apply_edits` of a localization set; `set_description`
  and `set_localized` of the writer.

Memory maps are modelled from their use: a read behind the end of a truncated
mapping gives zeros or ends the process.

Not modelled: the parser of records and groups (a pure function of bytes; what
the patcher writes is parsed in `ReaderFindsTheSameTree`), the validation of
schema packages and the catalog (its only shared state is in cells of the
standard library), analysis, cleaning and encoding detection (read-only folds
over all records), archives, and the C interface with its string cursor.
Text encoding tables and the lists of implicit masters have no state and
nothing to check beyond their data.

## Plan

What would add most, in this order:

1. Proofs about the grid identifiers of `RecordMetadata`.
2. `StringCursor` (`bethkit-ffi/src/schema_string_cursor.rs`): batches with a
   failing record and the pending error, as a refinement of an iterator that
   delivers each record once.
3. `GroupParser`, composed with `PluginPatcher`; addresses inside payloads in
   `PayloadEdit`.
4. Analysis, cleaning and plugin encoding as operators over `PluginCache`.
5. `ArchiveWriter`: the two-pass layout of BSA and BA2 against a reader.
