----------------------------- MODULE MCPayloadEdit -----------------------------
(***************************************************************************)
(* Small schemas that between them use every kind of node, count, string   *)
(* layout and selector, with records to open and edits to make.  A byte    *)
(* has eight values.                                                       *)
(***************************************************************************)
EXTENDS PayloadEdit

Root == <<"p">>
In(name) == <<"p", name>>
Under(outer, name) == <<"p", outer, name>>

U8(name) == Integer(In(name), 1, FALSE)
U16(name) == Integer(In(name), 2, FALSE)
BytesNode(path, length) == [length |-> length] @@ Primitive(path, "Bytes")
FormIdNode(path) == Primitive(path, "FormId")
FloatNode(path, scale) == [width |-> 1, scale |-> scale, big |-> FALSE] @@ Primitive(path, "Float")
StringNode(path, string) == [string |-> string @@ PlainString] @@ Primitive(path, "String")
ZString(path) == StringNode(path, [zero |-> TRUE])
With(node, callbacks) == [node EXCEPT !.callbacks = callbacks]
When(node, e) == [node EXCEPT !.condition = e]

Literal(n) == [op |-> "Int", value |-> n]
Read(name) == [op |-> "ReadField", path |-> In(name)]
Equals(l, r) == [op |-> "Equal", left |-> l, right |-> r]
By(e) == [type |-> "Expression", expression |-> e]
Calls(handler) == [type |-> "Callback", handler |-> handler]

Remainder == [type |-> "Remainder"]
FixedCount(n) == [type |-> "Fixed", count |-> n]
Prefixed(width, terminator) == [type |-> "Prefixed", width |-> width, terminator |-> terminator]
Squared == [type |-> "SquaredPrefixed", width |-> 1, terminator |-> NoByte]
Packed(square) == [type |-> "PackedPrefixed", square |-> square, terminator |-> NoByte]
Counted(e) == [type |-> "Expression", expression |-> e]
CountedBy(handler) == [type |-> "Callback", handler |-> handler]

Payload(data) == [sig |-> "PAYL", data |-> data]
Other(sig, data) == [sig |-> sig, data |-> data]
Sets(node, values) == [node |-> node, values |-> values]
U(n) == UIntValue(n)
Us(ns) == ArrayValue([i \in DOMAIN ns |-> U(ns[i])])

\* A case with what most of them share.
Case(schema, records, parts) ==
    [schema |-> schema, subs |-> records, parts |-> parts, wholes |-> {}, others |-> {},
     wishes |-> {<<>>}, mutated |-> {}, names |-> {}, bindings |-> <<>>,
     payloads |-> 2, edits |-> 4, localized |-> FALSE,
     record |-> [formVersion |-> 44, signature |-> "TEST", flags |-> 0, game |-> "SkyrimSe"]]

Plain(schema, payloads, parts) == Case(schema, {<<Payload(p)>> : p \in payloads}, parts)

(***************************************************************************)
(* Unions selected by expressions.                                         *)
(***************************************************************************)

\* By an earlier field: a byte, two bytes or a list.
ByEarlierField ==
    LET x == Integer(Under("u", "x"), 1, FALSE)
        y == Integer(Under("u", "y"), 2, FALSE)
        e == Integer(Under("u", "e"), 1, FALSE)
        z == Array(Under("u", "z"), Prefixed(1, NoByte), e)
        union == Union(In("u"), By(Read("k")), <<x, y, z>>)
        schema == Struct(Root, <<U8("k"), union, U8("t")>>)
    IN [Plain(schema, {<<0, 3, 1>>, <<1, 3, 0, 1>>, <<2, 2, 4, 5, 1>>},
              {Sets(U8("k"), {U(1), U(2)}), Sets(x, {U(2), U(7)}), Sets(y, {U(5), U(9)}),
               Sets(z, {Us(<<>>), Us(<<1>>)}), Sets(e, {U(6)}),
               Sets(U8("t"), {U(2), U(8)})})
        EXCEPT !.wholes = {StructValue(<<U(0), U(4), U(0)>>), StructValue(<<U(2), Us(<<3>>), U(0)>>),
                           StructValue(<<U(1), U(4)>>)}]

\* By a field behind the union, which the editor finds in the fixed layout.
ByLaterField ==
    LET x == Integer(Under("u", "x"), 2, FALSE)
        y == BytesNode(Under("u", "y"), 2)
        ahead == [op |-> "ReadUnsigned", offset |-> 3, width |-> 1]
        chosen == [op |-> "Select", value |-> Equals(ahead, Literal(1)), ifTrue |-> Literal(1), ifFalse |-> Literal(0)]
        schema == Struct(Root, <<Union(In("u"), By(chosen), <<x, y>>), U8("m"), U8("k")>>)
    IN [Plain(schema, {<<3, 0, 5, 0>>, <<3, 0, 5, 1>>},
              {Sets(x, {U(1), U(9)}), Sets(y, {BytesValue(<<1, 1>>), BytesValue(<<1>>)}),
               Sets(U8("k"), {U(1), U(2)}), Sets(U8("m"), {U(1)})})
        EXCEPT !.wholes = {StructValue(<<BytesValue(<<2, 2>>), U(0), U(1)>>)}]

(***************************************************************************)
(* Arrays.                                                                 *)
(***************************************************************************)

Lists ==
    LET e == Integer(Under("a", "e"), 1, FALSE)
        n == Integer(<<"p", "b", "s", "n">>, 1, FALSE)
        t == ZString(<<"p", "b", "s", "t">>)
        schema == Struct(Root, <<Array(In("a"), Prefixed(1, 7), e),
                                 Array(In("b"), Remainder, Struct(Under("b", "s"), <<n, t>>))>>)
    IN Plain(schema, {<<2, 7, 1, 2, 3, 4, 0, 5, 0>>, <<0, 7>>},
             {Sets(schema.fields[1], {Us(<<>>), Us(<<1, 2, 3>>)}), Sets(e, {U(0), U(8)}),
              Sets(schema.fields[2], {ArrayValue(<<>>)}), Sets(n, {U(1)}),
              Sets(t, {StringValue(<<>>), StringValue(<<3, 3>>)})})

Matrices ==
    LET Of(count, data) ==
            LET e == Integer(Under("a", "e"), 1, FALSE)
                schema == Struct(Root, <<Array(In("a"), count, e), U8("t")>>)
            IN Plain(schema, {data},
                     {Sets(schema.fields[1], {Us(<<>>), Us(<<1, 2>>), Us(<<1, 2, 3, 4>>)}),
                      Sets(e, {U(5)}), Sets(U8("t"), {U(3)})})
    IN {Of(Squared, <<1, 2, 0>>), Of(Packed(TRUE), <<4, 2, 0>>), Of(Packed(FALSE), <<4, 2, 0>>),
        Of(FixedCount(2), <<1, 2, 0>>)}

\* As many elements as the flags have bits: script fragments, and an array
\* that may not stop early.
Fragments ==
    LET e == Integer(Under("a", "e"), 1, FALSE)
        counted == Counted([op |-> "BitCount", value |-> Read("f")])
        schema(callbacks) == Struct(Root, <<U8("f"), With(Array(In("a"), counted, e), callbacks)>>)
    IN {Plain(schema(callbacks), {<<3, 1, 2>>, <<3, 1>>},
              {Sets(U8("f"), {U(1), U(7)}), Sets(e, {U(4)}),
               Sets(schema(callbacks).fields[2], {Us(<<>>), Us(<<1, 2, 3>>)})}) :
        callbacks \in {{}, {"info_fragments"}}}

ModelInfo ==
    LET Word(path) == Integer(path, 4, FALSE)
        Listed(name, header) == Array(In(name), [header |-> header] @@ CountedBy("array.model_info_header_count"),
                                      Integer(Under(name, "e"), 1, FALSE))
        schema == With(Struct(Root, <<Array(In("h"), Prefixed(4, NoByte), Word(Under("h", "e"))),
                                      Listed("t", 0), Listed("a", 1), Listed("m", 3)>>),
                       {"model_info"})
    IN [Plain(schema, {<<>>, <<0, 0, 0, 0>>, <<1, 0, 0, 0, 1, 0, 0, 0, 5>>},
              {Sets(schema.fields[i], {Us(<<>>), Us(<<1, 2>>)}) : i \in 2..4}
              \cup {Sets(schema.fields[1], {Us(<<>>), Us(<<1>>)})})
        EXCEPT !.wholes = {StructValue(<<Us(<<>>), Us(<<1>>), Us(<<>>), Us(<<2>>)>>)}]

\* Slots that belong to the array of their own index.
StarSlots ==
    LET slot == With([Integer(<<"p", "a", "s", "k">>, 4, FALSE) EXCEPT !.type = "Enumeration"],
                     {"value.set_default"})
        n == Integer(<<"p", "a", "s", "n">>, 1, FALSE)
        inner(count) == With(Array(In("a"), count, Struct(Under("a", "s"), <<slot, n>>)),
                             {"array.should_include"})
    IN {Plain(Array(Root, FixedCount(2), inner(count)),
              {<<0, 0, 0, 0, 5, 1, 0, 0, 0, 6>>, <<1, 0, 0, 0, 5>>},
              {Sets(slot, {IntValue(0), IntValue(1)}), Sets(n, {U(3)})}) :
        count \in {FixedCount(1), Remainder}}

\* Counted by subrecords before the payload.
CountedOutside ==
    LET e == Integer(Under("a", "e"), 1, FALSE)
        Rows(handler) == Array(Root, FixedCount(2), Array(In("a"), CountedBy(handler), e))
        parts == {Sets(e, {U(3)}), Sets(Rows("").element, {Us(<<>>), Us(<<6>>)})}
    IN {[Case(Rows("array.oblivion_path_grid_connections"),
              {<<Other("PGRP", <<0, 1, 0, 2>>), Payload(<<4, 5, 6>>)>>}, parts)
         EXCEPT !.others = {<<0, 2, 0, 1>>, <<0, 1>>}],
        [Case(Rows("array.worldspace_offset_columns"),
              {<<Other("NAM0", <<7>>), Other("NAM9", <<0>>), Payload(<<1, 2, 3, 4>>)>>}, parts)
         EXCEPT !.others = {<<1>>, <<4>>}]}

(***************************************************************************)
(* Structs, strings and integers.                                          *)
(***************************************************************************)

Optional ==
    LET schema == [optionalFrom |-> 2, fields |-> <<U8("a"), U16("b"), BytesNode(In("c"), 1)>>]
                  @@ Node(Root, "OptionalStruct")
    IN Plain(schema, {<<1>>, <<1, 2, 0>>, <<1, 2, 0, 3>>},
             {Sets(U8("a"), {U(5)}), Sets(U16("b"), {U(9), Absent}),
              Sets(schema.fields[3], {BytesValue(<<4>>), Absent})})

Conditional ==
    LET y == When(U8("y"), Equals(Read("k"), Literal(1)))
    IN Plain(Struct(Root, <<U8("k"), y, U8("z")>>), {<<0, 3>>, <<1, 3, 4>>},
             {Sets(U8("k"), {U(0), U(1)}), Sets(y, {U(5)}), Sets(U8("z"), {U(6)})})

Strings ==
    LET Of(string, data) ==
            LET s == StringNode(In("s"), string)
            IN Plain(Struct(Root, <<s, U8("t")>>), {data},
                     {Sets(s, {StringValue(<<>>), StringValue(<<5>>), StringValue(<<5, 6, 1>>)}),
                      Sets(U8("t"), {U(2)})})
        localized == StringNode(In("s"), [localized |-> TRUE, zero |-> TRUE])
    IN {Of([zero |-> TRUE], <<3, 4, 0, 1>>),
        Of([fixed |-> 2], <<3, 4, 1>>),
        Of([fixed |-> 3, zero |-> TRUE], <<3, 0, 6, 1>>),
        Of([prefixWidth |-> 1, prefixOffset |-> 1], <<2, 3, 4, 1>>),
        Of([prefixWidth |-> 1, prefixOffset |-> 2, zero |-> TRUE, trailing |-> 7], <<2, 0, 3, 0, 7, 1>>),
        [Plain(Struct(Root, <<localized, U8("t")>>), {<<3, 1, 0, 0, 1>>},
               {Sets(localized, {U(9), StringValue(<<1>>)}), Sets(U8("t"), {U(2)})})
         EXCEPT !.localized = TRUE]}

\* A whole payload of fixed length, with the extra zero it may end with; the
\* subrecord behind may have that length too.
FixedStrings ==
    LET s == StringNode(Root, [fixed |-> 2])
    IN [Case(s, {<<Payload(<<3, 4>>)>>, <<Payload(<<3, 4, 0>>)>>,
                 <<Payload(<<3, 4>>), Other("TAIL", <<1, 1, 0>>)>>}, {})
        EXCEPT !.wholes = {StringValue(<<>>), StringValue(<<5>>), StringValue(<<5, 6, 7>>)}]

Critical ==
    LET flags == [U8("f") EXCEPT !.type = "Flags"]
        crit == [FloatNode(In("c"), 1) EXCEPT !.width = 4]
        schema == With(Struct(Root, <<U16("d"), BytesNode(In("x"), 2), crit, flags,
                                      BytesNode(In("y"), 7), FormIdNode(In("e")),
                                      BytesNode(In("z"), 4)>>), {"weapon_critical_data"})
    IN Plain(schema, {[i \in 1..24 |-> i % 8], [i \in 1..16 |-> i % 8]},
             {Sets(U16("d"), {U(9)}), Sets(flags, {U(1)}), Sets(FormIdNode(In("e")), {FormIdValue(70)})})

Numbers ==
    LET signed == Integer(In("s"), 1, TRUE)
        big == [U16("b") EXCEPT !.big = TRUE]
        custom == Node(In("v"), "Custom")
        ended == [child |-> U8("n"), terminator |-> 7] @@ Node(In("e"), "Terminated")
        packed == Primitive(In("k"), "PackedUnsigned")
    IN Plain(Struct(Root, <<signed, big, custom, ended, packed>>),
             {<<1, 2, 3, 4, 7, 4>>, <<7, 2, 3, 4, 7, 5, 1>>},
             {Sets(signed, {IntValue(3), IntValue(-1)}), Sets(big, {U(10), U(64)}),
              Sets(U8("n"), {U(5)}), Sets(packed, {U(1), U(4), U(20)}), Sets(custom, {U(0)})})

(***************************************************************************)
(* Unions selected by callbacks.                                           *)
(***************************************************************************)

\* Nine variants of different shapes.
Variants ==
    <<Integer(Under("u", "a"), 1, FALSE), Integer(Under("u", "b"), 2, FALSE),
      BytesNode(Under("u", "c"), 1), BytesNode(Under("u", "d"), 2), FormIdNode(Under("u", "e")),
      ZString(Under("u", "f")), Struct(Under("u", "g"), <<Integer(<<"p", "u", "g", "i">>, 1, FALSE)>>),
      BytesNode(Under("u", "h"), 3), Integer(Under("u", "i"), 3, FALSE)>>

Chosen(selector) == Struct(Root, <<U8("t"), Union(In("u"), selector, Variants)>>)

VariantEdits ==
    {Sets(U8("t"), {U(2)}), Sets(Variants[1], {U(1), U(9)}), Sets(Variants[2], {U(9)}),
     Sets(Variants[3], {BytesValue(<<4>>)}), Sets(Variants[4], {BytesValue(<<4, 4>>)}),
     Sets(Variants[7].fields[1], {U(6)}), Sets(Chosen(Calls("")).fields[2], {U(5), BytesValue(<<1, 1>>)})}

\* The payloads Variants reads for some index.
SomePayloads == {<<1, 3>>, <<1, 3, 0>>, <<1, 1, 2, 0>>, <<1, 0, 2, 0, 0>>}

\* Selected by an earlier subrecord of that signature, which may change.
Keyed(handler, sig, keys) ==
    [Case(Chosen(Calls(handler)),
          {<<Other(sig, key), Payload(data)>> : key \in keys, data \in SomePayloads},
          VariantEdits)
     EXCEPT !.others = keys, !.payloads = 1]

\* Two payloads, each behind a subrecord of its own.
KeyedTwice(handler, sig, keys) ==
    [Case(Chosen(Calls(handler)),
          {<<Other(sig, key1), Payload(<<1, 3>>), Other(sig, key2), Payload(<<1, 3, 0>>)>> :
                 key1 \in keys, key2 \in keys},
          {Sets(U8("t"), {U(2)}), Sets(Variants[2], {U(7)}), Sets(Variants[3], {BytesValue(<<4>>)})})
     EXCEPT !.others = keys, !.payloads = 1]

BySubrecord ==
    {Keyed("select.note_data", "DNAM", {<<0>>, <<1>>, <<3>>}),
     Keyed("select.sound_descriptor_data", "CNAM", {<<2, 0, 0, 0>>, <<1, 0, 0, 0>>}),
     Keyed("select.audio_effect_data", "KNAM", {<<2, 0, 0, 0>>, <<3, 0, 0, 0>>}),
     Keyed("select.starfield_component_data", "BFCB", {<<1, 0>>, <<4>>}),
     Keyed("select.starfield_component_dat2", "BFCB", {<<7, 0>>, <<4>>}),
     Keyed("select.oblivion_obme_efit_parameter", "EFME", {<<0, 0, 0, 0, 2>>, <<0>>}),
     Keyed("select.oblivion_obme_efix_parameter", "EFME", {<<0, 0, 0, 0, 2, 1>>, <<0>>}),
     Keyed("select.game_setting_value", "EDID", {<<1, 5>>, <<2>>, <<6>>}),
     Keyed("select.legacy_note_voice", "DATA", {<<3>>, <<0>>}),
     Keyed("select.package_input_value", "ANAM", {<<1>>, <<4>>}),
     Keyed("select.morrowind_global_value", "FNAM", {<<1>>, <<2>>, <<>>}),
     Keyed("select.perk_effect_data", "PRKE", {<<0>>, <<1>>, <<2>>}),
     Keyed("select.perk_entry_point_data", "EPFT", {<<2>>, <<1>>}),
     Keyed("select.perk_epf3", "EPFT", {<<0>>, <<1>>}),
     KeyedTwice("select.note_data", "DNAM", {<<0>>, <<1>>}),
     KeyedTwice("select.perk_effect_data", "PRKE", {<<0>>, <<1>>, <<2>>})}

\* An entry point whose function decides between two ranges.
PerkRange ==
    {[Case(Chosen(Calls("select.perk_entry_point_data")),
           {<<Other("DATA", <<0, 5>>), Other("EPFT", <<2>>), Payload(data)>> : data \in SomePayloads},
           VariantEdits)
      EXCEPT !.others = {<<0, 5>>, <<2>>}, !.payloads = 1, !.record.game = game] :
     game \in {"Fallout3", "SkyrimSe", "Oblivion"}}

ByFlags ==
    {[Plain(Chosen(selector), SomePayloads, VariantEdits) EXCEPT !.record.flags = flags] :
        selector \in {Calls("select.oblivion_misc_actor_value"), [mask |-> {1}] @@ Calls("select.record_flag")},
        flags \in {0, 2, 192}}

\* Selected by a text before the union.
ByText ==
    LET Of(handler) ==
            LET s == ZString(In("s"))
                selector == [path |-> In("s")] @@ Calls(handler)
            IN Plain(Struct(Root, <<s, Union(In("u"), selector, Variants)>>),
                     {<<0, 3, 0>>, <<1, 0, 3, 0>>, <<5, 0, 3>>},
                     {Sets(s, {StringValue(<<>>), StringValue(<<1>>)}), Sets(Variants[2], {U(5)})})
    IN {Of("select.empty_string"), Of("select.bone_modifier_type")}

\* Selected by the payload's own bytes.
Place(offset) == [offset |-> offset, width |-> 1, big |-> FALSE, signed |-> FALSE]
ByOwnBytes ==
    LET ctda == [function |-> Place(1), typeAt |-> Place(0), runOn |-> Place(2)] @@ Calls("select.ctda_parameter")
        condition == Struct(Root, <<U8("t"), U8("f"), U8("r"), Union(In("u"), ctda, Variants)>>)
        coed == [offset |-> 0] @@ Calls("select.coed_owner")
        owner == Struct(Root, <<FormIdNode(In("o")), Union(In("u"), coed, Variants)>>)
    IN {[Plain(condition, {<<0, 1, 0, 3, 0>>, <<2, 1, 0, 3>>, <<2, 1, 5, 3, 0>>, <<0, 6, 0, 3>>, <<4, 1, 0, 3>>},
               {Sets(U8("t"), {U(2)}), Sets(Variants[2], {U(7)})})
         EXCEPT !.record.game = "Fallout4"],
        Plain(owner, {<<1, 0, 0, 0, 3, 0>>, <<2, 0, 0, 0, 3>>, <<3, 0, 0, 0, 3>>},
              {Sets(FormIdNode(In("o")), {FormIdValue(2)}), Sets(Variants[1], {U(5)})})}

\* Function 1 takes an alias or package data, 2 does not.
MCConditionFunctions ==
    1 :> [variant |-> 1, aliasable |-> TRUE, name |-> "GetIsCurrentPackage"]
    @@ 2 :> [variant |-> 3, aliasable |-> FALSE, name |-> "GetActorValue"]
MCResolvedSignature(id) == CASE id = 1 -> "NPC_" [] id = 2 -> "FACT" [] OTHER -> ""

(***************************************************************************)
(* Parts that callbacks change.                                            *)
(***************************************************************************)

Reset(node, occurrence) == Wish("ResetToDefault", node, occurrence, Absent, Absent)
Put(node, occurrence, value) == Wish("Set", node, occurrence, value, Absent)
PutIf(node, occurrence, expected, value) == Wish("SetIfEqual", node, occurrence, value, expected)

\* Rows of a number and a union, which a reset has to pass.
Wished ==
    LET row(name) == <<"p", "r", "s", name>>
        n == Integer(row("n"), 1, FALSE)
        x == Integer(Append(row("u"), "x"), 1, FALSE)
        y == Integer(Append(row("u"), "y"), 2, FALSE)
        union == Union(row("u"), By(Read("k")), <<x, y>>)
        rows == Array(In("r"), Prefixed(1, NoByte), Struct(Under("r", "s"), <<n, union>>))
        schema == Struct(Root, <<U8("k"), rows>>)
    IN [Plain(schema, {<<0, 2, 3, 4, 5, 6>>, <<1, 1, 3, 4, 0>>, <<1, 0>>},
              {Sets(n, {U(1)}), Sets(U8("k"), {U(0)})})
        EXCEPT !.wishes = {<<>>, <<Reset(n, 1), Put(n, 0, U(7))>>, <<Reset(union, 0)>>,
                           <<PutIf(x, 1, U(6), U(2)), PutIf(n, 0, U(1), U(2))>>, <<Reset(n, 4)>>},
               !.mutated = {Sets(n, {U(3), U(5)}), Sets(x, {U(6), U(7)}), Sets(union, {U(1)})},
               !.payloads = 1, !.edits = 3]

\* A slot's default depends on the row it is in.
WishedSlots ==
    {[c EXCEPT !.wishes = {<<>>, <<Reset(c.schema.element.element.fields[1], 1)>>},
               !.mutated = {Sets(c.schema.element.element.fields[2], {U(4)})}, !.edits = 3] : c \in StarSlots}

\* Parts of one of several payloads.
Mutated ==
    {[c EXCEPT !.mutated = c.parts, !.parts = {}, !.edits = 2] : c \in {ByEarlierField, Lists, Critical}}
    \cup {[KeyedTwice("select.perk_effect_data", "PRKE", {<<0>>, <<1>>})
           EXCEPT !.mutated = {Sets(U8("t"), {U(2)}), Sets(Variants[2], {U(7)})}]}

\* A record with its name in a field.
NameOf(payloads, string) ==
    LET name == StringNode(In("n"), string)
    IN [Plain(Struct(Root, <<name, U8("t")>>), payloads, {Sets(U8("t"), {U(2)})})
        EXCEPT !.names = {Sets(name, {StringValue(<<1>>), StringValue(<<1, 2, 3, 4>>)})},
               !.bindings = <<"executable">>]
NamedRecords ==
    LET short == NameOf({<<3, 4, 0, 1>>}, [fixed |-> 3, zero |-> TRUE])
    IN {short, NameOf({<<3, 0, 1>>}, [zero |-> TRUE]),
        [short EXCEPT !.bindings = <<"executable", "executable">>], [short EXCEPT !.bindings = <<"metadata">>]}

MCCases ==
    {ByEarlierField, ByLaterField, Lists, ModelInfo, Optional, Conditional, FixedStrings, Critical, Numbers}
    \cup Matrices \cup Fragments \cup StarSlots \cup CountedOutside \cup Strings
    \cup BySubrecord \cup PerkRange \cup ByFlags \cup ByText \cup ByOwnBytes
    \cup {Wished} \cup WishedSlots \cup Mutated \cup NamedRecords

\* A float shown scaled beside an integer.
ScaledFloat ==
    LET schema == Struct(Root, <<FloatNode(In("f"), 2), U8("n")>>)
    IN Plain(schema, {<<1, 3>>}, {Sets(schema.fields[1], {FloatValue(4)}), Sets(U8("n"), {U(5)})})
MCScaledCases == {ScaledFloat}

\* A payload of one variant behind another that could be read as it.
MCMisledCases == {KeyedTwice("select.morrowind_global_value", "FNAM", {<<1>>, <<2>>, <<>>})}
==============================================================================
