----------------------------- MODULE PayloadCodec -----------------------------
(***************************************************************************)
(* How the bytes of a subrecord become a value and how a value becomes     *)
(* bytes again.  The view decodes, the editor encodes: they are two        *)
(* programs over the same schema nodes, and the properties of PayloadEdit  *)
(* are about their agreement.                                              *)
(*                                                                         *)
(* A context says what both know of the record: its subrecords, which one  *)
(* the payload is (at), form version, signature, flags, game, and whether  *)
(* the plugin is localized.                                                *)
(***************************************************************************)
EXTENDS UnionSelectors

(***************************************************************************)
(* Values.  Enumerations are integers and flags unsigned ones once they    *)
(* are owned.                                                              *)
(***************************************************************************)
IntValue(n) == [kind |-> "Int", number |-> n]
UIntValue(n) == [kind |-> "UInt", number |-> n]
FloatValue(n) == [kind |-> "Float", float |-> n]
FormIdValue(n) == [kind |-> "FormId", id |-> n]
BytesValue(bs) == [kind |-> "Bytes", bytes |-> bs]
StringValue(t) == [kind |-> "String", text |-> t]
StructValue(vs) == [kind |-> "Struct", values |-> vs]
ArrayValue(es) == [kind |-> "Array", elements |-> es]
Absent == [kind |-> "Absent"]

Refused == [ok |-> FALSE]

\* A decoded part: its value, the bytes used, the numbers read by path and
\* the variants chosen.
Part(value, used, numbers, chosen) ==
    [ok |-> TRUE, value |-> value, used |-> used, numbers |-> numbers, chosen |-> chosen]

Localized(ctx, node) == node.string.localized /\ ctx.localized

(***************************************************************************)
(* Sizes of primitives.                                                    *)
(***************************************************************************)

FirstZero(bs) ==
    LET zeros == {i \in DOMAIN bs : bs[i] = 0}
    IN IF zeros = {} THEN Len(bs) + 1 ELSE CHOOSE i \in zeros : \A j \in zeros : i <= j

\* A length prefix, which must lie within the data.
StringLength(string, data) ==
    IF Len(data) < string.prefixWidth THEN NoSize
    ELSE Number(Take(data, string.prefixWidth), FALSE)

\* The bytes a primitive takes from data: its own size, or everything.
PrimitiveDataSize(ctx, node, data) ==
    IF node.type # "String"
    THEN IF PrimitiveSize(node) = NoSize THEN Len(data) ELSE PrimitiveSize(node)
    ELSE LET string == node.string
         IN CASE Localized(ctx, node) -> 4
              [] string.prefixWidth > 0 ->
                    IF StringLength(string, data) = NoSize THEN NoSize
                    ELSE string.prefixOffset + StringLength(string, data) + HasTrailing(string)
              [] string.fixed # NoLength -> string.fixed + HasTrailing(string)
              [] string.zero ->
                    (IF FirstZero(data) > Len(data) THEN Len(data) ELSE FirstZero(data))
                    + HasTrailing(string)
              [] OTHER -> Len(data)

(***************************************************************************)
(* Primitives.                                                             *)
(***************************************************************************)

\* A packed integer: the low two bits of the first byte give its width.
PackedWidth(data) ==
    CASE Head(data) % 4 \in {0, 3} -> 1
      [] Head(data) % 4 = 1 -> 2
      [] OTHER -> 4
DecodePacked(data) ==
    IF data = <<>> \/ Len(data) < PackedWidth(data) THEN NoResult
    ELSE IntResult(Number(Take(data, PackedWidth(data)), FALSE) \div 4)

\* The text bytes of a string's representation: without the structural
\* terminator and the length prefix, and up to a zero byte.
StringBody(string, data) ==
    LET trailing == HasTrailing(string)
        whole == Take(data, Len(data) - trailing)
        body == IF string.prefixWidth > 0 THEN Drop(whole, string.prefixOffset) ELSE whole
    IN IF \/ trailing = 1 /\ (data = <<>> \/ Last(data) # string.trailing)
          \/ /\ string.prefixWidth > 0
             /\ \/ Len(whole) < string.prefixOffset
                \/ StringLength(string, whole) = NoSize
                \/ string.prefixOffset + StringLength(string, whole) # Len(whole)
          \/ /\ string.prefixWidth = 0 /\ string.fixed # NoLength
             /\ Len(whole) # string.fixed
       THEN NoResult
       ELSE [type |-> "Body",
             body |-> IF string.zero THEN Take(body, FirstZero(body) - 1) ELSE body]

\* A string: the identifier of a localized one, the text of any other.
DecodeString(ctx, node, data) ==
    LET Text(body) == IF body = NoResult THEN Absent ELSE StringValue(body.body)
    IN IF Localized(ctx, node) THEN UIntValue(Number(data, FALSE)) ELSE Text(StringBody(node.string, data))

\* A float stands for its bit pattern, times the scale it is read with.
DecodeFloat(node, data) == FloatValue(Number(data, node.big) * node.scale)

\* A packed integer fills its bytes.
PackedValue(packed, data) ==
    IF packed = NoResult \/ PackedWidth(data) # Len(data) THEN Absent ELSE UIntValue(packed.int)

\* The value of a primitive of exactly these bytes, or none.
PrimitiveValue(ctx, node, data) ==
    LET n == Number(data, node.big)
    IN CASE node.type = "Integer" -> IF node.signed THEN IntValue(Signed(n, node.width)) ELSE UIntValue(n)
         [] node.type = "Enumeration" -> IntValue(IF node.signed THEN Signed(n, node.width) ELSE n)
         [] node.type = "Flags" -> UIntValue(n)
         [] node.type = "PackedUnsigned" -> PackedValue(DecodePacked(data), data)
         [] node.type = "Float" -> DecodeFloat(node, data)
         [] node.type = "FormId" -> FormIdValue(Number(data, FALSE))
         [] node.type \in {"Bytes", "Unused"} -> BytesValue(data)
         [] node.type = "String" -> DecodeString(ctx, node, data)

(***************************************************************************)
(* Selections the view makes while it decodes.                             *)
(***************************************************************************)

EvalContext(ctx, payload, numbers) ==
    [payload |-> payload, numbers |-> numbers, formVersion |-> ctx.record.formVersion,
     signature |-> ctx.record.signature]

\* A callback is asked about the record, the subrecord, these bytes and the
\* siblings in scope.
Ask(ctx, bytes, scope, indices) ==
    [record |-> ctx.record, at |-> ctx.at, bytes |-> bytes, indices |-> indices,
     scoped |-> scope.scoped, fields |-> scope.fields, values |-> scope.values]
NoScope == [scoped |-> FALSE, fields |-> <<>>, values |-> <<>>]
ScopeOf(fields, values) == [scoped |-> TRUE, fields |-> fields, values |-> values]

\* Whether a node takes part at all, by its condition on the whole payload.
NodeApplies(ctx, node, numbers) ==
    LET OnlyBool(out) == IF out.type = "Bool" THEN out ELSE NoResult
    IN IF node.condition = NoCondition THEN BoolResult(TRUE)
       ELSE OnlyBool(Evaluate(node.condition, EvalContext(ctx, ctx.payload, numbers)))

VariantIndex(node, out) ==
    IF out.type = "Int" /\ out.int \in 0 .. (Len(node.variants) - 1) THEN out.int + 1 ELSE 0

\* The variant's index: an expression reads from the union on, a callback is
\* given the whole payload.
SelectUnionIndex(ctx, node, current, scope, indices, numbers) ==
    VariantIndex(node, IF node.selector.type = "Expression"
                       THEN Evaluate(node.selector.expression, EvalContext(ctx, current, numbers))
                       ELSE InvokeSelector(node.selector, Ask(ctx, ctx.payload, scope, indices)))

\* The number an expression or a callback gives for an array.
DynamicCount(ctx, node, indices, numbers) ==
    IF node.count.type = "Expression"
    THEN Evaluate(node.count.expression, EvalContext(ctx, ctx.payload, numbers))
    ELSE InvokeCount(node.count, Ask(ctx, ctx.payload, NoScope, indices))

\* The bytes of a count of this width with the terminator that has to follow.
ArrayPrefixSize(count, width, current) ==
    IF width = 0 \/ count.terminator = NoByte THEN width
    ELSE IF Len(current) > width /\ current[width + 1] = count.terminator
    THEN width + 1 ELSE NoSize

\* The number an array's count gives.
CountNumber(ctx, node, current, indices, numbers) ==
    LET count == node.count
    IN CASE count.type \in {"Prefixed", "SquaredPrefixed"} ->
                IF Len(current) < count.width THEN NoResult
                ELSE IntResult(Number(Take(current, count.width), FALSE))
         [] count.type = "PackedPrefixed" -> DecodePacked(current)
         [] count.type \in {"Expression", "Callback"} -> DynamicCount(ctx, node, indices, numbers)
         [] count.type = "Fixed" -> IntResult(count.count)
         [] OTHER -> IntResult(0)

\* The bytes an array's count takes.
CountSize(count, current) ==
    ArrayPrefixSize(count, CASE count.type \in {"Prefixed", "SquaredPrefixed"} -> count.width
                             [] count.type = "PackedPrefixed" -> PackedWidth(current)
                             [] OTHER -> 0, current)

\* The elements n announces behind the prefix; open for an array that ends
\* with its payload.
Announced(count, current, n, prefix) ==
    LET squared == count.type = "SquaredPrefixed" \/ (count.type = "PackedPrefixed" /\ count.square)
    IN IF n.type # "Int" THEN Refused
       ELSE IF n.int < 0 \/ prefix = NoSize \/ prefix > Len(current) THEN Refused
       ELSE [ok |-> TRUE, prefix |-> prefix, open |-> count.type = "Remainder",
             count |-> IF squared THEN n.int * n.int ELSE n.int]

\* The bytes of an array's count prefix and the elements it announces.
CountOf(ctx, node, current, indices, numbers) ==
    Announced(node.count, current, CountNumber(ctx, node, current, indices, numbers), CountSize(node.count, current))

\* Script fragments may stop before the count their flags announce.
MayStopEarly(node) == "info_fragments" \in node.callbacks

\* Whether the next element still belongs to the array.
ShouldInclude(ctx, node, remaining, indices) ==
    IF "array.should_include" \notin node.callbacks \/ ~ctx.retention.materializes
    THEN IntResult(1) ELSE StarSlotIncluded(remaining, indices)

(***************************************************************************)
(* Decoding without keeping values: arrays of plain integers and bytes are *)
(* skipped over, unless a selector, a condition or a count may look at     *)
(* their numbers.                                                          *)
(***************************************************************************)

\* The size of a node every bit pattern is valid for.
RECURSIVE UnconstrainedSize(_)
UnconstrainedSize(node) ==
    CASE node.condition # NoCondition -> NoSize
      [] node.kind = "Primitive" ->
            IF node.type \in {"Integer", "Bytes"} THEN PrimitiveSize(node) ELSE NoSize
      [] node.kind = "Struct" ->
            SumOfSizes([i \in DOMAIN node.fields |-> UnconstrainedSize(node.fields[i])])
      [] node.kind = "Array" ->
            IF node.count.type = "Fixed" /\ UnconstrainedSize(node.element) # NoSize
            THEN UnconstrainedSize(node.element) * node.count.count ELSE NoSize
      [] OTHER -> NoSize

\* The bytes of elements that can be skipped, when they are all there.
ArrayBytes(ctx, element, counted, available) ==
    LET size == UnconstrainedSize(element)
        count == IF ~counted.open THEN counted.count
                 ELSE IF size > 0 /\ available % size = 0 THEN available \div size ELSE -1
    IN IF \/ ctx.retention.materializes \/ ctx.retention.tracksNumeric
          \/ size = NoSize \/ count = -1 \/ size * count > available
       THEN NoSize ELSE size * count

\* What may be left out of a payload's decoding: nothing when a callback may
\* observe it, and numbers only when nothing reads them.
RECURSIVE Observed(_)
Observed(node) ==
    LET own == CASE node.callbacks \cap {"float.normalizer", "array.should_include"} # {} -> {"values"}
                 [] node.kind = "Array" ->
                        CASE node.count.type = "Callback" -> {"values"}
                          [] node.count.type = "Expression" -> {"numbers"}
                          [] OTHER -> {}
                 [] node.kind = "Union" ->
                        IF node.selector.type = "Callback" THEN {"values"} ELSE {"numbers"}
                 [] node.kind = "Custom" -> {"values"}
                 [] OTHER -> {}
        below == CASE node.kind \in {"Struct", "OptionalStruct"} ->
                        UNION {Observed(node.fields[i]) : i \in DOMAIN node.fields}
                   [] node.kind = "Array" -> Observed(node.element)
                   [] node.kind = "Union" ->
                        UNION {Observed(node.variants[i]) : i \in DOMAIN node.variants}
                   [] node.kind = "Terminated" -> Observed(node.child)
                   [] OTHER -> {}
    IN own \cup below \cup (IF node.condition = NoCondition THEN {} ELSE {"numbers"})

Full == [materializes |-> TRUE, tracksNumeric |-> TRUE]

RetentionFor(node) ==
    IF "values" \in Observed(node) THEN Full
    ELSE [materializes |-> FALSE, tracksNumeric |-> "numbers" \in Observed(node)]

(***************************************************************************)
(* Decoding.                                                               *)
(***************************************************************************)

\* The number a value adds to the numbers read so far.
NumberOf(value) ==
    CASE value.kind \in {"Int", "UInt"} -> <<value.number>>
      [] value.kind = "FormId" -> <<value.id>>
      [] OTHER -> <<>>

\* A decoded part with its number recorded under the node's path.
Record(ctx, node, part) ==
    IF ~part.ok \/ NumberOf(part.value) = <<>> \/ ~ctx.retention.tracksNumeric THEN part
    ELSE [part EXCEPT !.numbers = node.path :> NumberOf(part.value)[1] @@ @]

RECURSIVE DecodeNode(_, _, _, _, _, _)
RECURSIVE DecodeElements(_, _, _, _, _, _, _)

\* The parts of a struct or an array as one.
Whole(state, struct) ==
    IF ~state.ok THEN Refused
    ELSE Part(IF struct THEN StructValue(state.values) ELSE ArrayValue(state.values),
              state.used, state.numbers, state.chosen)

\* What a decoded part adds to the ones before it.
Extended(state, part) ==
    [state EXCEPT !.values = Append(@, part.value), !.used = @ + part.used,
                  !.numbers = part.numbers, !.chosen = @ \o part.chosen]

\* The state after a field.  A field that does not apply is absent; from the
\* first optional field that finds no bytes or too few, the rest of an
\* optional struct is.
AfterField(state, applies, ends, part) ==
    IF applies = NoResult THEN Refused
    ELSE IF ~applies.bool THEN [state EXCEPT !.values = Append(@, Absent)]
    ELSE IF ends THEN [state EXCEPT !.values = Append(@, Absent), !.cut = TRUE]
    ELSE IF part.ok THEN Extended(state, part) ELSE Refused

\* Whether an optional struct ends before a field.
EndsBefore(node, i, remaining, cut) ==
    /\ node.kind = "OptionalStruct" /\ i >= node.optionalFrom
    /\ cut \/ remaining = <<>> \/ FixedNodeSize(node.fields[i]) > Len(remaining)

\* The fields of a struct.
DecodeFields(ctx, node, current, indices, start) ==
    LET Step(state, i) ==
            LET remaining == Drop(current, state.used)
            IN AfterField(state, NodeApplies(ctx, node.fields[i], state.numbers),
                          EndsBefore(node, i, remaining, state.cut),
                          DecodeNode(ctx, node.fields[i], remaining,
                                     ScopeOf(Take(node.fields, i - 1), state.values), indices, state.numbers))
    IN FoldLeft(LAMBDA state, i : IF state.ok THEN Step(state, i) ELSE state,
                start, [i \in DOMAIN node.fields |-> i])

\* Whether an array ends where remaining is left: at its count, or with the
\* payload where it may.
ArrayEnds(node, counted, n, remaining) ==
    \/ ~counted.open /\ n = counted.count
    \/ remaining = <<>> /\ (counted.open \/ MayStopEarly(node))

\* The elements of an array from the state on; the first that does not belong
\* ends it.
DecodeElements(ctx, node, current, scope, indices, counted, state) ==
    LET n == Len(state.values)
        remaining == Drop(current, state.used)
        After(included, part) ==
            IF included = NoResult THEN Refused
            ELSE IF included.int = 0 THEN state
            ELSE IF ~part.ok THEN Refused
            ELSE IF part.used > Len(remaining) \/ (part.used = 0 /\ counted.open) THEN Refused
            ELSE DecodeElements(ctx, node, current, scope, indices, counted, Extended(state, part))
    IN IF ArrayEnds(node, counted, n, remaining) THEN state
       ELSE After(ShouldInclude(ctx, node, remaining, indices),
                  DecodeNode(ctx, node.element, remaining, scope, Append(indices, n), state.numbers))

\* An array behind its count, or skipped over.
DecodeArray(ctx, node, current, scope, indices, start, counted) ==
    LET After(skipped) ==
            IF skipped # NoSize THEN Part(Absent, counted.prefix + skipped, start.numbers, <<>>)
            ELSE Whole(DecodeElements(ctx, node, current, scope, indices, counted,
                                      [start EXCEPT !.used = counted.prefix]), FALSE)
    IN IF ~counted.ok THEN Refused
       ELSE After(ArrayBytes(ctx, node.element, counted, Len(current) - counted.prefix))

\* The selected variant, which is remembered with the array indices it is at.
DecodeUnion(ctx, node, current, scope, indices, numbers) ==
    LET Chosen(variant, index) ==
            IF variant.ok THEN [variant EXCEPT !.chosen = Append(@, <<node.path, indices, index>>)] ELSE Refused
        Variant(index) ==
            IF index = 0 THEN Refused
            ELSE Chosen(DecodeNode(ctx, node.variants[index], current, scope, indices, numbers), index)
    IN Variant(SelectUnionIndex(ctx, node, current, scope, indices, numbers))

\* A primitive of so many bytes.
DecodePrimitive(ctx, node, current, numbers, size) ==
    LET Valued(value) == IF value = Absent THEN Refused ELSE Part(value, size, numbers, <<>>)
    IN IF size = NoSize \/ size > Len(current) THEN Refused
       ELSE Valued(PrimitiveValue(ctx, node, Take(current, size)))

\* A node with the byte behind it.
WithTerminator(node, current, child) ==
    IF ~child.ok THEN Refused
    ELSE IF child.used >= Len(current) \/ current[child.used + 1] # node.terminator THEN Refused
    ELSE [child EXCEPT !.used = @ + 1]

\* One node read at the start of current: scope is what a selector sees.
DecodeNode(ctx, node, current, scope, indices, numbers) ==
    LET start == [ok |-> TRUE, values |-> <<>>, used |-> 0, numbers |-> numbers, chosen |-> <<>>, cut |-> FALSE]
        applies == NodeApplies(ctx, node, numbers)
    IN CASE applies = NoResult -> Refused
         [] ~applies.bool -> Part(Absent, 0, numbers, <<>>)
         [] node.kind = "Primitive" ->
               Record(ctx, node, DecodePrimitive(ctx, node, current, numbers, PrimitiveDataSize(ctx, node, current)))
         [] node.kind \in {"Struct", "OptionalStruct"} ->
               Whole(DecodeFields(ctx, node, current, indices, start), TRUE)
         [] node.kind = "Array" ->
               DecodeArray(ctx, node, current, scope, indices, start, CountOf(ctx, node, current, indices, numbers))
         [] node.kind = "Union" ->
               Record(ctx, node, DecodeUnion(ctx, node, current, scope, indices, numbers))
         [] node.kind = "Terminated" ->
               Record(ctx, node, WithTerminator(node, current, DecodeNode(ctx, node.child, current, scope, indices, numbers)))
         [] node.kind = "Custom" -> Record(ctx, node, Part(UIntValue(0), 0, numbers, <<>>))
         [] OTHER -> Refused

\* Critical data of the sixteen-byte layout: three padding bytes before the
\* effect and none at the end.
LegacyNode(ctx, node, length) ==
    IF "weapon_critical_data" \in node.callbacks /\ length = 16
    THEN [node EXCEPT !.fields = [Take(@, 6) EXCEPT ![5].length = 3]]
    ELSE node

\* A fixed-length string may carry one zero byte more than its length.
FixedStringTerminator(node, data) ==
    /\ node.kind = "Primitive" /\ node.type = "String"
    /\ ~node.string.localized /\ ~node.string.zero
    /\ node.string.prefixWidth = 0 /\ node.string.trailing = NoByte
    /\ node.string.fixed # NoLength /\ Len(data) = node.string.fixed + 1
    /\ Last(data) = 0

\* Empty payloads of model information and of ignored FormIDs are kept.
MayBeEmpty(node) == "model_info" \in node.callbacks \/ "unused_form_id" \in node.callbacks

\* The view of one subrecord: every byte has to be used.
View(ctx, schema, data, retention) ==
    LET node == LegacyNode(ctx, schema, Len(data))
        extra == IF FixedStringTerminator(node, data) THEN 1 ELSE 0
        bytes == Take(data, Len(data) - extra)
        Used(part) == IF ~part.ok THEN Refused ELSE IF part.used # Len(bytes) THEN Refused ELSE part
    IN IF data = <<>> /\ MayBeEmpty(node) THEN Part(Absent, 0, <<>>, <<>>)
       ELSE Used(DecodeNode([payload |-> bytes, retention |-> retention] @@ ctx, node,
                            bytes, ScopeOf(<<>>, <<>>), <<>>, <<>>))

(***************************************************************************)
(* Encoding.                                                               *)
(***************************************************************************)

Encoded(bytes) == [ok |-> TRUE, bytes |-> bytes]

\* The two parts one after the other.
Then(a, b) == IF a.ok /\ b.ok THEN Encoded(a.bytes \o b.bytes) ELSE Refused

\* A u64 has to fit the width; a negative number is a large one and fits only
\* eight bytes.
EncodeInteger(n, width, big) ==
    IF Unsigned(n) < Radix ^ width THEN Encoded(Digits(Unsigned(n), width, big)) ELSE Refused

\* A packed integer in its smallest width.
EncodePacked(n) ==
    CASE 4 * n < Radix -> Encoded(Digits(4 * n, 1, FALSE))
      [] 4 * n < Radix ^ 2 -> Encoded(Digits(4 * n + 1, 2, FALSE))
      [] 4 * n < Radix ^ 4 -> Encoded(Digits(4 * n + 2, 4, FALSE))
      [] OTHER -> Refused

\* A text with its zero byte, padded to its fixed length, after its length
\* prefix and before its structural terminator.
EncodeString(string, text) ==
    LET zeroed == IF string.zero THEN Append(text, 0) ELSE text
        padded == IF string.fixed = NoLength THEN zeroed
                  ELSE zeroed \o [i \in 1 .. (string.fixed - Len(zeroed)) |-> 0]
        prefix == Digits(Len(padded), string.prefixWidth, FALSE)
                  \o [i \in 1 .. (string.prefixOffset - string.prefixWidth) |-> 0]
        trailing == IF string.trailing = NoByte THEN <<>> ELSE <<string.trailing>>
    IN IF \/ string.fixed # NoLength /\ Len(zeroed) > string.fixed
          \/ string.prefixWidth > 0 /\ Len(padded) >= Radix ^ string.prefixWidth
       THEN Refused
       ELSE Encoded(prefix \o padded \o trailing)

\* A value as a primitive: its kind has to be the primitive's.
EncodePrimitive(ctx, node, value) ==
    CASE node.type = "Integer" /\ value.kind \in {"Int", "UInt"} ->
            EncodeInteger(value.number, node.width, node.big)
      [] node.type = "Enumeration" /\ value.kind = "Int" ->
            EncodeInteger(value.number, node.width, node.big)
      [] node.type = "Flags" /\ value.kind = "UInt" ->
            EncodeInteger(value.number, node.width, node.big)
      [] node.type = "PackedUnsigned" /\ value.kind = "UInt" -> EncodePacked(value.number)
      [] node.type = "Float" /\ value.kind = "Float" ->
            Encoded(Digits(value.float, node.width, node.big))
      [] node.type = "FormId" /\ value.kind = "FormId" -> Encoded(Digits(value.id, 4, FALSE))
      [] node.type \in {"Bytes", "Unused"} /\ value.kind = "Bytes" ->
            IF node.length \in {NoLength, Len(value.bytes)} THEN Encoded(value.bytes) ELSE Refused
      [] node.type = "String" /\ value.kind = "UInt" /\ Localized(ctx, node) ->
            EncodeInteger(value.number, 4, FALSE)
      [] node.type = "String" /\ value.kind = "String" /\ ~Localized(ctx, node) ->
            EncodeString(node.string, value.text)
      [] OTHER -> Refused

\* The side of a square of that many elements.
SquareSide(n) == {side \in 0..n : side * side = n}

\* The count prefix of so many elements, with its terminator; an array whose
\* count is read elsewhere, or is the rest of the payload, has none.
EncodeCount(count, n) ==
    LET square == SquareSide(n)
        side == CHOOSE s \in square : TRUE
        end == Encoded(IF count.type \in {"Prefixed", "PackedPrefixed", "SquaredPrefixed"}
                          /\ count.terminator # NoByte
                       THEN <<count.terminator>> ELSE <<>>)
    IN CASE count.type = "Fixed" -> IF n = count.count THEN Encoded(<<>>) ELSE Refused
         [] count.type = "Prefixed" -> Then(EncodeInteger(n, count.width, FALSE), end)
         [] count.type = "PackedPrefixed" /\ ~count.square -> Then(EncodePacked(n), end)
         [] count.type \in {"PackedPrefixed", "SquaredPrefixed"} /\ square = {} -> Refused
         [] count.type = "PackedPrefixed" -> Then(EncodePacked(side), end)
         [] count.type = "SquaredPrefixed" -> Then(EncodeInteger(side, count.width, FALSE), end)
         [] OTHER -> Encoded(<<>>)

\* The numbers of a value by the paths an expression may read; every variant
\* of a union gets the union's number, and later fields win.
RECURSIVE NumbersOf(_, _)
NumbersOf(node, value) ==
    LET All(nodes, values) ==
            FoldLeft(LAMBDA acc, i : NumbersOf(nodes[i], values[i]) @@ acc, <<>>,
                     [i \in 1..Len(nodes) |-> i])
    IN CASE node.kind = "Primitive" ->
                IF NumberOf(value) = <<>> THEN <<>> ELSE node.path :> NumberOf(value)[1]
         [] node.kind \in {"Struct", "OptionalStruct"} /\ value.kind = "Struct" ->
                IF Len(node.fields) = Len(value.values) THEN All(node.fields, value.values) ELSE <<>>
         [] node.kind = "Array" /\ value.kind = "Array" ->
                All([i \in DOMAIN value.elements |-> node.element], value.elements)
         [] node.kind = "Union" ->
                All(node.variants, [i \in DOMAIN node.variants |-> value])
         [] node.kind = "Terminated" -> NumbersOf(node.child, value)
         [] OTHER -> <<>>

RECURSIVE EncodeNode(_, _, _, _, _)
RECURSIVE EncodeFields(_, _, _, _, _)
RECURSIVE Convertible(_, _, _, _)

\* A mutated outcome: the first variant that can hold the value is taken.
AnyCandidate(ctx, node, value, numbers, scope, i) ==
    IF EncodeNode(ctx, node.variants[i], value, numbers, scope).ok THEN "match" ELSE "skip"

\* A callback is given the candidate's bytes, an expression also the fixed
\* integers that follow the union.
AskCandidate(ctx, node, bytes, numbers, scope) ==
    IF node.selector.type = "Expression"
    THEN Evaluate(UnionExpression(ctx.schema, node, node.selector.expression, Len(bytes), numbers),
                  EvalContext(ctx, bytes, numbers))
    ELSE InvokeSelector(node.selector, Ask(ctx, bytes, scope, <<>>))

Verdict(node, candidate, out, i) ==
    CASE ~candidate.ok -> "skip"
      [] candidate.ok /\ out.type = "Int" -> IF out.int = i - 1 THEN "match" ELSE "skip"
      [] candidate.ok /\ out.type # "Int" -> IF node.selector.type = "Callback" THEN "abort" ELSE "skip"

OutcomeOf(ctx, node, candidate, numbers, scope, i) ==
    Verdict(node, candidate, AskCandidate(ctx, node, candidate.bytes, numbers, scope), i)

\* What asking about the candidate variant i says: its own encoding selects
\* it, it is passed over, or a callback fails and ends the search.
CandidateOutcome(ctx, node, value, numbers, scope, i) ==
    OutcomeOf(ctx, node, EncodeNode(ctx, node.variants[i], value, numbers, scope), numbers, scope, i)

\* The first variant that encodes the value and is selected by what it
\* encodes to; 0 when there is none.
SelectUnionVariant(ctx, node, value, numbers, scope) ==
    LET First(decisive) ==
            IF decisive = {} THEN 0
            ELSE LET first == CHOOSE d \in decisive : \A e \in decisive : d[1] <= e[1]
                 IN IF first[2] = "match" THEN first[1] ELSE 0
    IN First({outcome \in {<<i, CandidateOutcome(ctx, node, value, numbers, scope, i)>> : i \in DOMAIN node.variants} :
                outcome[2] # "skip"})

\* Whether a value can be turned into the form the siblings after it are
\* given; unions inside it are selected once more, without siblings.
Convertible(ctx, node, value, numbers) ==
    CASE node.kind \in {"Struct", "OptionalStruct"} /\ value.kind = "Struct" ->
            /\ Len(node.fields) = Len(value.values)
            /\ \A i \in DOMAIN node.fields :
                  Convertible(ctx, node.fields[i], value.values[i], numbers)
      [] node.kind = "Array" /\ value.kind = "Array" ->
            \A i \in DOMAIN value.elements :
                Convertible(ctx, node.element, value.elements[i], numbers)
      [] node.kind = "Union" ->
            \E i \in {SelectUnionVariant(ctx, node, value, numbers, NoScope)} :
                i # 0 /\ Convertible(ctx, node.variants[i], value, numbers)
      [] node.kind = "Terminated" -> Convertible(ctx, node.child, value, numbers)
      [] OTHER -> TRUE

ThenRest(own, convertible, rest) == IF own.ok /\ convertible THEN Then(own, rest) ELSE Refused

\* The fields of a struct from the i-th on.  Conditions play no part: a field
\* has to have a value, except for the end of an optional struct.
EncodeFields(ctx, node, values, numbers, i) ==
    IF i > Len(node.fields) THEN Encoded(<<>>)
    ELSE IF node.kind = "OptionalStruct" /\ i >= node.optionalFrom /\ values[i] = Absent
    THEN IF \A j \in i .. Len(values) : values[j] = Absent THEN Encoded(<<>>) ELSE Refused
    ELSE LET field == node.fields[i]
             \* a union is in the scope of later selectors as its bytes only
             before == [j \in 1 .. (i - 1) |->
                          IF node.fields[j].kind = "Union" THEN BytesValue(<<>>) ELSE values[j]]
         IN ThenRest(EncodeNode(ctx, field, values[i], numbers, ScopeOf(Take(node.fields, i - 1), before)),
                     field.kind = "Union" \/ Convertible(ctx, field, values[i], numbers),
                     EncodeFields(ctx, node, values, numbers, i + 1))

\* The count and the elements after it.
EncodeElements(ctx, node, elements, numbers, scope) ==
    FoldLeft(LAMBDA acc, e : IF acc.ok THEN Then(acc, EncodeNode(ctx, node.element, e, numbers, scope))
                             ELSE acc,
             EncodeCount(node.count, Len(elements)), elements)

\* The value as the variant selected for it.
EncodeUnion(ctx, node, value, numbers, scope) ==
    LET As(i) == IF i = 0 THEN Refused ELSE EncodeNode(ctx, node.variants[i], value, numbers, scope)
    IN As(SelectUnionVariant(ctx, node, value, numbers, scope))

\* A value as the bytes of a node.
EncodeNode(ctx, node, value, numbers, scope) ==
    CASE node.kind = "Primitive" -> EncodePrimitive(ctx, node, value)
      [] node.kind \in {"Struct", "OptionalStruct"} ->
            IF value.kind # "Struct" THEN Refused
            ELSE IF Len(value.values) # Len(node.fields) THEN Refused
            ELSE EncodeFields(ctx, node, value.values, numbers, 1)
      [] node.kind = "Array" ->
            IF value.kind # "Array" THEN Refused
            ELSE EncodeElements(ctx, node, value.elements, numbers, scope)
      [] node.kind = "Union" ->
            EncodeUnion(ctx, node, value, numbers, scope)
      [] node.kind = "Terminated" ->
            Then(EncodeNode(ctx, node.child, value, numbers, scope), Encoded(<<node.terminator>>))
      [] node.kind = "Custom" -> IF value = UIntValue(0) THEN Encoded(<<>>) ELSE Refused
      [] OTHER -> Refused

\* The payload that replaces data: in the layout data has, with the extra
\* zero byte data ends with.
EncodePayload(ctx, schema, data, value, numbers) ==
    LET node == LegacyNode(ctx, schema, Len(data))
    IN Then(EncodeNode(ctx, node, value, numbers, NoScope),
            Encoded(IF FixedStringTerminator(node, data) THEN <<0>> ELSE <<>>))

==============================================================================
