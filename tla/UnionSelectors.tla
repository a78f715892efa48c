--------------------------- MODULE UnionSelectors ----------------------------
(***************************************************************************)
(* The schema of one payload: its nodes, their fixed sizes, and the        *)
(* expressions by which conditions, counts and selectors read a payload    *)
(* (bethkit-schema, expression.rs; view.rs and editor_union.rs for sizes). *)
(*                                                                         *)
(* And the callbacks that choose a union's variant, count an array's       *)
(* elements or say whether an element belongs to it (bethkit-semantic,     *)
(* handler.rs).                                                            *)
(*                                                                         *)
(* A byte has Radix values, an i64 eight of them.  Expressions are trees   *)
(* of records by their op, as in the schema package; the budget of         *)
(* operations is left out.                                                 *)
(*                                                                         *)
(* A callback is asked about bytes of the payload, in a record: those of   *)
(* its subrecords that stand before the payload, its flags and its game,   *)
(* and the fields that were read before the union.  An answer is an        *)
(* integer, or NoResult for an error.                                      *)
(*                                                                         *)
(* A letter, a name or a hash is a small number here, so that it is a byte *)
(* of any Radix; so are the two bits of a condition's flags.               *)
(***************************************************************************)
EXTENDS Integers, Sequences, SequencesExt, FiniteSetsExt, TLC

CONSTANT Radix   \* the values of a byte

ASSUME RadixAssumption == Radix \in Nat \ {0, 1}

\* "No value" of the code's optional numbers.
NoByte == -1
NoLength == -1
NoSize == -1
NoIndex == -1
NoCondition == [op |-> "None"]

Take(s, n) == SubSeq(s, 1, IF n < Len(s) THEN n ELSE Len(s))
Drop(s, n) == SubSeq(s, n + 1, Len(s))

(***************************************************************************)
(* Nodes.                                                                  *)
(***************************************************************************)
Node(path, kind) == [path |-> path, kind |-> kind, condition |-> NoCondition, callbacks |-> {}]

Primitive(path, type) == [type |-> type, length |-> NoLength] @@ Node(path, "Primitive")
Integer(path, width, signed) ==
    [width |-> width, signed |-> signed, big |-> FALSE] @@ Primitive(path, "Integer")
Struct(path, fields) == [fields |-> fields] @@ Node(path, "Struct")
Array(path, count, element) == [count |-> count, element |-> element] @@ Node(path, "Array")
Union(path, selector, variants) ==
    [selector |-> selector, variants |-> variants] @@ Node(path, "Union")

\* A string that ends with its payload.
PlainString ==
    [localized |-> FALSE, zero |-> FALSE, prefixWidth |-> 0, prefixOffset |-> 0,
     fixed |-> NoLength, trailing |-> NoByte]

FieldsOf(node) == IF "fields" \in DOMAIN node THEN node.fields ELSE <<>>

(***************************************************************************)
(* Integers.                                                               *)
(***************************************************************************)

\* The number little-endian or big-endian bytes stand for.
Number(bytes, big) ==
    FoldRight(LAMBDA b, n : Radix * n + b, IF big THEN Reverse(bytes) ELSE bytes, 0)

Signed(n, width) == IF 2 * n < Radix ^ width THEN n ELSE n - Radix ^ width

\* The u64 an i64 is cast to.
Unsigned(n) == IF n < 0 THEN n + Radix ^ 8 ELSE n

Digits(n, width, big) ==
    LET little == [i \in 1..width |-> (n \div Radix ^ (i - 1)) % Radix]
    IN IF big THEN Reverse(little) ELSE little

(***************************************************************************)
(* Sizes.                                                                  *)
(***************************************************************************)
HasTrailing(string) == IF string.trailing = NoByte THEN 0 ELSE 1

SumOfSizes(sizes) ==
    IF NoSize \in Range(sizes) THEN NoSize ELSE FoldLeft(LAMBDA a, b : a + b, 0, sizes)

PrimitiveSize(node) ==
    CASE node.type \in {"Integer", "Enumeration", "Flags", "Float"} -> node.width
      [] node.type = "FormId" -> 4
      [] node.type \in {"Bytes", "Unused"} -> node.length
      [] node.type = "String" ->
            IF node.string.localized \/ node.string.fixed = NoLength THEN NoSize
            ELSE node.string.fixed + HasTrailing(node.string)
      [] OTHER -> NoSize

\* The size the view knows before it decodes: it looks past conditions.
RECURSIVE FixedNodeSize(_)
FixedNodeSize(node) ==
    CASE node.kind = "Primitive" -> PrimitiveSize(node)
      [] node.kind = "Struct" ->
            SumOfSizes([i \in DOMAIN node.fields |-> FixedNodeSize(node.fields[i])])
      [] node.kind = "Array" /\ node.count.type = "Fixed" ->
            IF FixedNodeSize(node.element) = NoSize THEN NoSize
            ELSE FixedNodeSize(node.element) * node.count.count
      [] node.kind = "Terminated" /\ FixedNodeSize(node.child) # NoSize ->
            FixedNodeSize(node.child) + 1
      [] OTHER -> NoSize

\* The size the editor trusts when it looks for a field behind a union: a
\* union's, when all variants have the same, but never a string's.
RECURSIVE LayoutSize(_)
LayoutSize(node) ==
    LET sizes == [i \in DOMAIN node.variants |-> LayoutSize(node.variants[i])]
    IN CASE node.condition # NoCondition -> NoSize
         [] node.kind = "Primitive" -> IF node.type = "String" THEN NoSize ELSE PrimitiveSize(node)
         [] node.kind = "Struct" ->
                SumOfSizes([i \in DOMAIN node.fields |-> LayoutSize(node.fields[i])])
         [] node.kind = "Union" ->
                IF sizes # <<>> /\ Range(sizes) = {sizes[1]} THEN sizes[1] ELSE NoSize
         [] OTHER -> NoSize

\* The bytes before each field in a layout, NoSize behind one of unknown size.
FieldOffset(fields, i) == SumOfSizes([j \in 1 .. (i - 1) |-> LayoutSize(fields[j])])

\* Where the node at a path starts; only structs are looked into.
RECURSIVE FixedOffset(_, _)
FixedOffset(node, path) ==
    LET inside == {i \in DOMAIN FieldsOf(node) : FixedOffset(node.fields[i], path) # NoSize}
        i == Min(inside)
    IN CASE node.condition # NoCondition -> NoSize
         [] node.path = path -> 0
         [] node.kind # "Struct" \/ inside = {} -> NoSize
         [] OTHER -> SumOfSizes(<<FieldOffset(node.fields, i), FixedOffset(node.fields[i], path)>>)

Covers(start, size, offset) ==
    start # NoSize /\ size # NoSize /\ start <= offset /\ offset < start + size

\* The little-endian integer of that width at an offset: a set of one node,
\* or none.
RECURSIVE IntegerAt(_, _, _)
IntegerAt(node, offset, width) ==
    LET fits == \/ node.type \in {"Integer", "Enumeration", "Flags"} /\ node.width = width /\ ~node.big
                \/ node.type = "FormId" /\ width = 4
    IN CASE node.condition # NoCondition -> {}
         [] node.kind = "Struct" ->
                UNION {IntegerAt(node.fields[i], offset - FieldOffset(node.fields, i), width) :
                          i \in {i \in DOMAIN node.fields :
                                   Covers(FieldOffset(node.fields, i), LayoutSize(node.fields[i]), offset)}}
         [] node.kind = "Primitive" -> IF offset = 0 /\ fits THEN {node} ELSE {}
         [] OTHER -> {}

(***************************************************************************)
(* Expressions.                                                            *)
(***************************************************************************)
NoResult == [type |-> "None"]
IntResult(n) == [type |-> "Int", int |-> n]
BoolResult(b) == [type |-> "Bool", bool |-> b]

\* An i64, or an error when it overflows.
Checked(n) == IF -(Radix ^ 8 \div 2) <= n /\ n < Radix ^ 8 \div 2 THEN IntResult(n) ELSE NoResult

\* Division towards zero.
Quotient(a, b) ==
    LET Abs(n) == IF n < 0 THEN -n ELSE n
    IN IF b = 0 THEN NoResult
       ELSE Checked(IF (a < 0) = (b < 0) THEN Abs(a) \div Abs(b) ELSE -(Abs(a) \div Abs(b)))

\* The bits of the u64 a number is cast to.
BitAt(n, bit) == (Unsigned(n) \div 2 ^ bit) % 2 = 1
RECURSIVE BitCount(_)
BitCount(n) == IF n = 0 THEN 0 ELSE (Unsigned(n) % 2) + BitCount(Unsigned(n) \div 2)

ReadUnsigned(payload, offset, width) ==
    LET n == Number(SubSeq(payload, offset + 1, offset + width), FALSE)
    IN IF offset + width > Len(payload) \/ width \notin {1, 2, 4, 8} THEN NoResult ELSE Checked(n)

\* Both results, when they are integers.
Both(left, right, result) == IF left.type = "Int" /\ right.type = "Int" THEN result ELSE NoResult

\* The values of an And or an Or in turn: the first that is no truth value is
\* an error, the first that decides ends the evaluation.
ShortCircuit(results, decides) ==
    LET stops == {i \in DOMAIN results : results[i] \in {NoResult, BoolResult(decides)}
                                           \/ results[i].type = "Int"}
    IN IF stops = {} THEN BoolResult(~decides)
       ELSE IF results[Min(stops)].type = "Bool" THEN BoolResult(decides) ELSE NoResult

\* The result of an expression in ctx: [payload, numbers, formVersion,
\* signature], the numbers by path; NoResult for an error.
RECURSIVE Evaluate(_, _)
Evaluate(e, ctx) ==
    LET left == Evaluate(e.left, ctx)
        right == Evaluate(e.right, ctx)
        value == Evaluate(e.value, ctx)
        results == [i \in DOMAIN e.values |-> Evaluate(e.values[i], ctx)]
        hits == {i \in DOMAIN e.cases : e.cases[i].input = value.int}
    IN CASE e.op = "Bool" -> BoolResult(e.value)
         [] e.op = "Int" -> IntResult(e.value)
         [] e.op = "PayloadLength" -> IntResult(Len(ctx.payload))
         [] e.op = "FormVersion" -> IntResult(ctx.formVersion)
         [] e.op = "RecordSignature" -> BoolResult(ctx.signature = e.signature)
         [] e.op = "ReadUnsigned" -> ReadUnsigned(ctx.payload, e.offset, e.width)
         [] e.op = "ReadField" ->
                IF e.path \in DOMAIN ctx.numbers THEN IntResult(ctx.numbers[e.path]) ELSE NoResult
         [] e.op \in {"Equal", "NotEqual"} ->
                IF left = NoResult \/ right = NoResult THEN NoResult
                ELSE BoolResult((left = right) = (e.op = "Equal"))
         [] e.op = "LessThan" -> Both(left, right, BoolResult(left.int < right.int))
         [] e.op = "Add" -> Both(left, right, Checked(left.int + right.int))
         [] e.op = "Subtract" -> Both(left, right, Checked(left.int - right.int))
         [] e.op = "Multiply" -> Both(left, right, Checked(left.int * right.int))
         [] e.op = "Divide" -> Both(left, right, Quotient(left.int, right.int))
         [] e.op = "And" -> ShortCircuit(results, FALSE)
         [] e.op = "Or" -> ShortCircuit(results, TRUE)
         [] e.op = "Not" -> IF value.type = "Bool" THEN BoolResult(~value.bool) ELSE NoResult
         [] e.op = "BitSet" ->
                IF value.type = "Int" THEN BoolResult(BitAt(value.int, e.bit)) ELSE NoResult
         [] e.op = "BitCount" ->
                IF value.type = "Int" THEN IntResult(BitCount(value.int)) ELSE NoResult
         [] e.op = "IntegerLookup" ->
                IF value.type # "Int" THEN NoResult
                ELSE IntResult(IF hits = {} THEN e.default ELSE e.cases[Min(hits)].output)
         [] e.op = "Select" ->
                IF value.type # "Bool" THEN NoResult
                ELSE Evaluate(IF value.bool THEN e.ifTrue ELSE e.ifFalse, ctx)

(***************************************************************************)
(* Reads past a union: the editor asks a selector about the bytes of one   *)
(* variant only, and puts the numbers of the fixed integers behind them    *)
(* into the expression.                                                    *)
(***************************************************************************)

\* The operands of an expression, by their field.
Operands(e) ==
    CASE e.op \in {"Equal", "NotEqual", "LessThan", "Add", "Subtract", "Multiply", "Divide"} ->
            {"left", "right"}
      [] e.op \in {"BitSet", "Not", "BitCount", "IntegerLookup"} -> {"value"}
      [] e.op = "Select" -> {"value", "ifTrue", "ifFalse"}
      [] OTHER -> {}

\* The reads of an expression, as <<offset, width>>.
RECURSIVE ReadsOf(_)
ReadsOf(e) ==
    CASE e.op = "ReadUnsigned" -> {<<e.offset, e.width>>}
      [] e.op \in {"And", "Or"} -> UNION {ReadsOf(e.values[i]) : i \in DOMAIN e.values}
      [] OTHER -> UNION {ReadsOf(e[operand]) : operand \in Operands(e)}

\* The expression with the reads in known replaced by their numbers.
RECURSIVE ResolveReads(_, _)
ResolveReads(e, known) ==
    CASE e.op = "ReadUnsigned" ->
            IF <<e.offset, e.width>> \in DOMAIN known
            THEN [op |-> "Int", value |-> known[<<e.offset, e.width>>]] ELSE e
      [] e.op \in {"And", "Or"} ->
            [e EXCEPT !.values = [i \in DOMAIN @ |-> ResolveReads(@[i], known)]]
      [] OTHER -> [operand \in Operands(e) |-> ResolveReads(e[operand], known)] @@ e

\* The number of the integer a read finds, as the read sees it.
Cast(targets, numbers, width) ==
    LET known == {n \in targets : n.path \in DOMAIN numbers}
    IN IF known = {} THEN NoResult
       ELSE Checked(Unsigned(numbers[(CHOOSE n \in known : TRUE).path]) % Radix ^ width)

\* The expression with the numbers of the integers behind the union, which
\* starts at base.
Resolved(schema, base, expression, size, numbers) ==
    LET Known(read) == Cast(IntegerAt(schema, base + read[1], read[2]), numbers, read[2])
        known == {read \in ReadsOf(expression) : read[1] + read[2] > size /\ Known(read) # NoResult}
    IN IF base = NoSize THEN expression
       ELSE ResolveReads(expression, [read \in known |-> Known(read).int])

\* A selector's expression for a candidate of size bytes.
UnionExpression(schema, node, expression, size, numbers) ==
    Resolved(schema, FixedOffset(schema, node.path), expression, size, numbers)

-----------------------------------------------------------------------------

CONSTANTS
    AliasVariant, PackdataVariant,   \* variants of every condition parameter
    ConditionFunctions,              \* id -> [variant, aliasable, name]
    ResolvedSignature(_)             \* the signature of a FormID's record, "" for none

\* The bytes of the nearest subrecord of that signature before the payload,
\* as a sequence of one; of the whole record when the payload's place is not
\* known.
SourceBytes(ask, signature) ==
    LET subs == ask.record.subs
        end == IF ask.at = NoIndex THEN Len(subs) ELSE ask.at - 1
        found == {i \in DOMAIN subs : i <= end /\ subs[i].sig = signature}
    IN IF found = {} THEN <<>> ELSE <<subs[Max(found)].data>>

ByteOf(source, offset, default) ==
    IF source = <<>> \/ offset >= Len(source[1]) THEN default ELSE source[1][offset + 1]

\* Its byte at an offset, or the default.
SourceByte(ask, signature, offset, default) == ByteOf(SourceBytes(ask, signature), offset, default)

FirstByte(ask, signature, default) == SourceByte(ask, signature, 0, default)

TextOf(source) ==
    IF source = <<>> THEN <<>>
    ELSE Take(source[1], Min({i \in DOMAIN source[1] : source[1][i] = 0} \cup {Len(source[1]) + 1}) - 1)

\* Its text up to the first zero byte, the empty one without it.
SourceText(ask, signature) == TextOf(SourceBytes(ask, signature))

\* The value of a key in a table, or the default.
Lookup(table, key, default) == IF key \in DOMAIN table THEN table[key] ELSE default
Truth(b) == IntResult(IF b THEN 1 ELSE 0)

(***************************************************************************)
(* Conditions: the payload names a function, whose parameter may be taken  *)
(* from an alias or from package data.                                     *)
(***************************************************************************)
AliasFlag == 2      \* 0x02
PackdataFlag == 4   \* 0x08
RunOnPackage == 5

NewestGames == {"Fallout4", "Fallout4Vr", "Fallout76", "Starfield"}

HasFlag(n, flag) == (n \div flag) % 2 = 1

\* An integer at a configured place of the payload.
ConfiguredInteger(place, bytes) ==
    LET n == Number(SubSeq(bytes, place.offset + 1, place.offset + place.width), place.big)
    IN IF place.offset + place.width > Len(bytes) THEN NoResult
       ELSE IF place.signed THEN IntResult(Signed(n, place.width)) ELSE Checked(n)

CtdaFlagVariant(game, name, flags, runOn, base) ==
    IF HasFlag(flags, AliasFlag)
    THEN IF game \in NewestGames /\ runOn = RunOnPackage /\ name = "GetIsCurrentPackage"
         THEN base ELSE AliasVariant
    ELSE IF HasFlag(flags, PackdataFlag) THEN PackdataVariant ELSE base

CtdaVariant(game, id, flags, runOn) ==
    LET function == ConditionFunctions[id.int]
    IN IF id = NoResult THEN NoResult
       ELSE IF id.int \notin DOMAIN ConditionFunctions THEN IntResult(0)
       ELSE IF ~function.aliasable THEN IntResult(function.variant)
       ELSE IF NoResult \in {flags, runOn} THEN NoResult
       ELSE IntResult(CtdaFlagVariant(game, function.name, flags.int, runOn.int, function.variant))

SelectCtdaParameter(selector, ask) ==
    CtdaVariant(ask.record.game, ConfiguredInteger(selector.function, ask.bytes),
                ConfiguredInteger(selector.typeAt, ask.bytes), ConfiguredInteger(selector.runOn, ask.bytes))

\* The owner of an item: an actor, a faction or neither.
SelectCoedOwner(selector, ask) ==
    LET id == Number(SubSeq(ask.bytes, selector.offset + 1, selector.offset + 4), FALSE)
    IN IF selector.offset + 4 > Len(ask.bytes) THEN NoResult
       ELSE IntResult(CASE ResolvedSignature(id) = "NPC_" -> 1
                        [] ResolvedSignature(id) = "FACT" -> 2
                        [] OTHER -> 0)

(***************************************************************************)
(* Selectors that look at an earlier subrecord.                            *)
(***************************************************************************)
\* By the number in the first bytes of a source, 0 without it.
ByNumber(source, width, table) ==
    IF source = <<>> THEN IntResult(0)
    ELSE IF Len(source[1]) < width THEN NoResult
    ELSE IntResult(Lookup(table, Number(Take(source[1], width), FALSE), 0))

SelectNoteData(ask) == ByNumber(SourceBytes(ask, "DNAM"), 1, 0 :> 1 @@ 1 :> 2 @@ 3 :> 3)

\* By a hash.
ByHash(ask, signature, table) == ByNumber(SourceBytes(ask, signature), 4, table)

SelectSoundDescriptorData(ask) == ByHash(ask, "CNAM", 2 :> 1)
SelectAudioEffectData(ask) == ByHash(ask, "KNAM", 2 :> 1 @@ 3 :> 2)

\* By a name.
Named(ask, signature, table) == IntResult(Lookup(table, SourceText(ask, signature), 0))

\* Star, orbited, orbital, block editor, overlay and pattern components.
ComponentNames == [name \in {<<i>> : i \in 1..6} |-> name[1]]

SelectStarfieldComponentData(ask) == Named(ask, "BFCB", ComponentNames)
SelectStarfieldComponentDat2(ask) == Named(ask, "BFCB", <<7>> :> 1)

\* Bool, Int, Float and ObjectList.
SelectPackageInputValue(ask) ==
    Named(ask, "ANAM", <<1>> :> 1 @@ <<2>> :> 2 @@ <<3>> :> 3 @@ <<4>> :> 3)

SelectObmeParameter(ask, offset) == IntResult(SourceByte(ask, "EFME", offset, 0))

\* By the first letter of the editor ID, where 1 is s, 2 f, 3 b and 4 u.
SelectGameSettingValue(ask) ==
    IntResult(Lookup(<<1>> :> 0 @@ <<2>> :> 2 @@ <<3>> :> 3 @@ <<4>> :> 4, Take(SourceText(ask, "EDID"), 1), 1))

SelectLegacyNoteVoice(ask) == Truth(FirstByte(ask, "DATA", NoByte) = 3)

\* By a letter, where 1 is l and 2 is f.
SelectMorrowindGlobalValue(ask) ==
    IntResult(Lookup(1 :> 1 @@ 2 :> 2, FirstByte(ask, "FNAM", NoByte), 0))

SelectPerkEffectData(ask) == IntResult(FirstByte(ask, "PRKE", 0))

EffectRange == 1   \* type 8

\* A value in two parts is of another type for some functions.
EntryPointVariant(game, type, function) ==
    CASE type = 2 /\ game \in {"Fallout3", "FalloutNv"} /\ function = 5 -> 5
      [] /\ type = 2
         /\ game \in {"SkyrimLe", "SkyrimSe", "SkyrimVr"} \cup NewestGames
         /\ function \in {5, 12, 13, 14} -> 8
      [] OTHER -> type

SelectPerkEntryPointData(ask) ==
    IntResult(EntryPointVariant(ask.record.game, FirstByte(ask, "EPFT", 0), SourceByte(ask, "DATA", 1, 0)))

SelectPerkEpf3(ask) == Truth(FirstByte(ask, "EPFT", NoByte) = EffectRange)

(***************************************************************************)
(* Selectors that look at the record's flags or at an earlier field.       *)
(***************************************************************************)
SelectOblivionMiscActorValue(ask) ==
    Truth(HasFlag(ask.record.flags, 64) /\ HasFlag(ask.record.flags, 128))

SelectRecordFlag(selector, ask) ==
    Truth(\A bit \in selector.mask : HasFlag(ask.record.flags, 2 ^ bit))

\* The text of the first field at a path, searched depth first, as a sequence
\* of one; a value of another kind ends the search among its siblings.
RECURSIVE ScopedString(_, _, _)
ScopedString(fields, values, path) ==
    LET Below(i) ==
            CASE values[i].kind = "Struct" /\ FieldsOf(fields[i]) # <<>> ->
                    ScopedString(fields[i].fields, values[i].values, path)
              [] values[i].kind = "Array" /\ fields[i].kind = "Array" ->
                    ScopedString([j \in DOMAIN values[i].elements |->
                                    [fields[i].element EXCEPT !.path = <<>>]],
                                 values[i].elements, path)
              [] OTHER -> <<>>
        stops == {i \in DOMAIN values : fields[i].path = path \/ Below(i) # <<>>}
        i == Min(stops)
    IN IF stops = {} THEN <<>>
       ELSE IF fields[i].path # path THEN Below(i)
       ELSE IF values[i].kind = "String" THEN <<values[i].text>> ELSE <<>>

\* The text a selector names, if it was read before.
ScopedText(selector, ask) ==
    IF ask.scoped THEN ScopedString(ask.fields, ask.values, selector.path) ELSE <<>>

SelectEmptyString(selector, ask) ==
    LET text == ScopedText(selector, ask)
    IN IF text = <<>> THEN NoResult ELSE Truth(text[1] = <<>>)

\* Look-at chain, morph driver, pose deformer and spring bone.
SelectBoneModifierType(selector, ask) ==
    LET text == ScopedText(selector, ask)
    IN IF text = <<>> THEN NoResult
       ELSE IntResult(Lookup([name \in {<<i>> : i \in 1..4} |-> name[1]], text[1], 0))

(***************************************************************************)
(* Counts and elements.                                                    *)
(***************************************************************************)

\* The count in the header of that index, after the number of headers.
ModelInfoArrayCount(count, ask) ==
    LET Word(i) == Number(SubSeq(ask.bytes, 4 * i + 1, 4 * i + 4), FALSE)
        headers == IF Len(ask.bytes) < 4 THEN 0 ELSE Word(0)
    IN IntResult(IF headers <= count.header \/ Len(ask.bytes) < 4 * count.header + 8 THEN 0
                 ELSE Word(count.header + 1))

\* The columns between a worldspace's bounds.  A bound is one signed byte,
\* the cell its coordinate lies in.
Columns(min, max) ==
    IF min = <<>> THEN IntResult(0)
    ELSE IF min[1] = <<>> THEN NoResult
    ELSE IF max = <<>> THEN IntResult(0)
    ELSE IF max[1] = <<>> THEN NoResult
    ELSE IntResult((Signed(max[1][1], 1) - Signed(min[1][1], 1) + 1) % Radix ^ 4)

WorldspaceOffsetColumnCount(ask) == Columns(SourceBytes(ask, "NAM0"), SourceBytes(ask, "NAM9"))

PointSize == 2   \* 16, with the number of connections at 12

\* The connections of the path grid point with the outer index.
OblivionPathGridConnectionCount(ask) ==
    LET n == SourceByte(ask, "PGRP", PointSize * Last(ask.indices) + PointSize - 1, NoByte)
    IN IF ask.indices = <<>> THEN NoResult ELSE IF n = NoByte THEN NoResult ELSE IntResult(n)

\* Whether the star slot at the start of the bytes is the outer index.
StarSlotIncluded(bytes, indices) ==
    IF indices = <<>> \/ Len(bytes) < 4 THEN NoResult
    ELSE Truth(Number(Take(bytes, 4), FALSE) = Last(indices))

\* The slot a new element gets: the index around the innermost.
StarSlotDefault(indices) ==
    IF Len(indices) < 2 THEN NoResult ELSE IntResult(indices[Len(indices) - 1])

(***************************************************************************)
(* The registered callbacks.                                               *)
(***************************************************************************)
InvokeSelector(selector, ask) ==
    CASE selector.handler = "select.ctda_parameter" -> SelectCtdaParameter(selector, ask)
      [] selector.handler = "select.coed_owner" -> SelectCoedOwner(selector, ask)
      [] selector.handler = "select.note_data" -> SelectNoteData(ask)
      [] selector.handler = "select.sound_descriptor_data" -> SelectSoundDescriptorData(ask)
      [] selector.handler = "select.audio_effect_data" -> SelectAudioEffectData(ask)
      [] selector.handler = "select.starfield_component_data" -> SelectStarfieldComponentData(ask)
      [] selector.handler = "select.starfield_component_dat2" -> SelectStarfieldComponentDat2(ask)
      [] selector.handler = "select.oblivion_obme_efit_parameter" -> SelectObmeParameter(ask, 4)
      [] selector.handler = "select.oblivion_obme_efix_parameter" -> SelectObmeParameter(ask, 5)
      [] selector.handler = "select.game_setting_value" -> SelectGameSettingValue(ask)
      [] selector.handler = "select.legacy_note_voice" -> SelectLegacyNoteVoice(ask)
      [] selector.handler = "select.package_input_value" -> SelectPackageInputValue(ask)
      [] selector.handler = "select.morrowind_global_value" -> SelectMorrowindGlobalValue(ask)
      [] selector.handler = "select.oblivion_misc_actor_value" -> SelectOblivionMiscActorValue(ask)
      [] selector.handler = "select.record_flag" -> SelectRecordFlag(selector, ask)
      [] selector.handler = "select.perk_effect_data" -> SelectPerkEffectData(ask)
      [] selector.handler = "select.perk_entry_point_data" -> SelectPerkEntryPointData(ask)
      [] selector.handler = "select.perk_epf3" -> SelectPerkEpf3(ask)
      [] selector.handler = "select.empty_string" -> SelectEmptyString(selector, ask)
      [] selector.handler = "select.bone_modifier_type" -> SelectBoneModifierType(selector, ask)

InvokeCount(count, ask) ==
    CASE count.handler = "array.model_info_header_count" -> ModelInfoArrayCount(count, ask)
      [] count.handler = "array.worldspace_offset_columns" -> WorldspaceOffsetColumnCount(ask)
      [] count.handler = "array.oblivion_path_grid_connections" ->
            OblivionPathGridConnectionCount(ask)

=============================================================================
