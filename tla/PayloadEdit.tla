------------------------------ MODULE PayloadEdit ------------------------------
(***************************************************************************)
(* A record with payloads of one schema under edit.  The editor holds the  *)
(* value each payload had when the record was opened, changes a part of    *)
(* it, and writes the whole payload anew from the value: what it writes    *)
(* has to be what the view reads.                                          *)
(*                                                                         *)
(* A case is a schema with a record to open, the values a caller may set   *)
(* and the bytes a subrecord before a payload may be given; the grammar of *)
(* the record and the callbacks that change other fields are the concern   *)
(* of RecordEditor and EditCallbacks.                                      *)
(***************************************************************************)
EXTENDS PayloadCodec

CONSTANT Cases   \* the schemas with their records and edits

VARIABLES
    case,   \* the case under edit
    subs,   \* the record's subrecords: signature and bytes
    held,   \* the values the editor holds, one for each payload
    last,   \* the last accepted edit
    edits   \* how many there were

vars == <<case, subs, held, last, edits>>

IsPayload(sub) == sub.sig = "PAYL"

\* The places of the payloads, in order.
PlacesIn(ss) == SetToSortSeq({i \in DOMAIN ss : IsPayload(ss[i])}, LAMBDA i, j : i < j)

\* What a codec knows when it works on the subrecord at place at of ss.
ContextIn(ss, at) ==
    [record |-> [subs |-> ss] @@ case.record, at |-> at, localized |-> case.localized,
     schema |-> case.schema]

ViewIn(ss, at, retention) == View(ContextIn(ss, at), case.schema, ss[at].data, retention)

(***************************************************************************)
(* Defaults.                                                               *)
(***************************************************************************)

Default(value) == [ok |-> TRUE, value |-> value]

DefaultPrimitive(ctx, node) ==
    CASE node.type = "Integer" -> IF node.signed THEN IntValue(0) ELSE UIntValue(0)
      [] node.type \in {"PackedUnsigned", "Flags"} -> UIntValue(0)
      [] node.type = "Enumeration" -> IntValue(0)
      [] node.type = "Float" -> FloatValue(0)
      [] node.type = "FormId" -> FormIdValue(0)
      [] node.type \in {"Bytes", "Unused"} ->
            BytesValue([i \in 1 .. (IF node.length = NoLength THEN 0 ELSE node.length) |-> 0])
      [] OTHER -> IF Localized(ctx, node) THEN UIntValue(0) ELSE StringValue(<<>>)

\* A default union is selected over no bytes and without siblings.
DefaultUnionIndex(ctx, node, numbers) ==
    VariantIndex(node, AskCandidate(ctx, node, <<>>, numbers, NoScope))

\* A star slot's number is a callback's.
WithSlot(own, node, slot) ==
    IF ~own.ok \/ "value.set_default" \notin node.callbacks THEN own
    ELSE IF slot = NoResult THEN Refused ELSE Default(IntValue(slot.int))

\* The default of a node: arrays are empty unless their length is fixed.
RECURSIVE DefaultValue(_, _, _, _)
DefaultValue(ctx, node, numbers, indices) ==
    LET All(nodes, Inner(_), Make(_)) ==
            LET outs == [i \in DOMAIN nodes |-> DefaultValue(ctx, nodes[i], numbers, Inner(i))]
            IN IF \A i \in DOMAIN outs : outs[i].ok
               THEN Default(Make([i \in DOMAIN outs |-> outs[i].value])) ELSE Refused
        Variant(index) == IF index = 0 THEN Refused ELSE DefaultValue(ctx, node.variants[index], numbers, indices)
    IN WithSlot(CASE node.kind = "Primitive" -> Default(DefaultPrimitive(ctx, node))
                  [] node.kind \in {"Struct", "OptionalStruct"} ->
                        All(node.fields, LAMBDA i : indices, StructValue)
                  [] node.kind = "Array" ->
                        All([i \in 1 .. (IF node.count.type = "Fixed" THEN node.count.count ELSE 0)
                                |-> node.element],
                            LAMBDA i : Append(indices, i - 1), ArrayValue)
                  [] node.kind = "Union" -> Variant(DefaultUnionIndex(ctx, node, numbers))
                  [] node.kind = "Terminated" -> DefaultValue(ctx, node.child, numbers, indices)
                  [] OTHER -> Refused,
                node, StarSlotDefault(indices))

(***************************************************************************)
(* Setting a part of a value.                                              *)
(***************************************************************************)

\* Whether a path is a node's own or lies under it.
Within(path, parent) == IsPrefix(parent, path)

\* A search: found at the array indices where, with the part it found there, or
\* still left occurrences to pass; failed when a union on the way selects no
\* variant.
Search(found, left, where, part, value) ==
    [ok |-> TRUE, found |-> found, left |-> left, where |-> where, part |-> part, value |-> value]
NotFound(left, value) == Search(FALSE, left, <<>>, Absent, value)
Failed == [NotFound(0, Absent) EXCEPT !.ok = FALSE]

\* The part at a path that a value is to replace, or the path's default.
Target(path, value, numbers) == [path |-> path, value |-> value, numbers |-> numbers, reset |-> FALSE]
ResetTarget(path, numbers) == [Target(path, Absent, numbers) EXCEPT !.reset = TRUE]

\* A mutated replacement: it does not stop at the element it is meant for.
RECURSIVE ReplaceEvery(_, _, _, _, _, _)
ReplaceEvery(ctx, node, value, target, left, indices) ==
    LET Inner(child, v, ix) == ReplaceEvery(ctx, child, v, target, left, ix)
        on == {i \in DOMAIN FieldsOf(node) : Within(target.path, node.fields[i].path)}
    IN CASE node.path = target.path -> Search(TRUE, 0, indices, value, target.value)
         [] value.kind = "Struct" /\ on # {} ->
                LET i == CHOOSE i \in on : TRUE
                    out == Inner(node.fields[i], value.values[i], indices)
                IN [out EXCEPT !.value = [value EXCEPT !.values[i] = out.value]]
         [] value.kind = "Array" ->
                LET outs == [i \in DOMAIN value.elements |->
                               Inner(node.element, value.elements[i], Append(indices, i - 1))]
                IN IF outs = <<>> THEN NotFound(left, value)
                   ELSE [outs[1] EXCEPT !.value = ArrayValue([i \in DOMAIN outs |-> outs[i].value])]
         [] OTHER -> NotFound(left, value)

\* The part that was found is replaced; a default knows its array indices.
Replaced(ctx, node, value, target, indices) ==
    LET By(new) == IF new.ok THEN Search(TRUE, 0, indices, value, new.value) ELSE Failed
    IN By(IF target.reset THEN DefaultValue(ctx, node, target.numbers, indices) ELSE Default(target.value))

\* The value with its left-th part at the target's path replaced.  A union on
\* the way is selected by its value and without siblings; a reset looks into
\* every union before its part, also where the part cannot be.
RECURSIVE Rewrite(_, _, _, _, _, _)
Rewrite(ctx, node, value, target, left, indices) ==
    LET Each(nodes, values, Inner(_)) ==
            FoldLeft(LAMBDA acc, i :
                        IF ~acc.ok \/ acc.found THEN acc
                        ELSE LET step == Rewrite(ctx, nodes[i], values[i], target, acc.left, Inner(i))
                             IN IF ~step.ok THEN Failed
                                ELSE [step EXCEPT !.value = [acc.value EXCEPT ![i] = step.value]],
                     NotFound(left, values),
                     [i \in DOMAIN values |-> i])
        Variant(index) ==
            IF index = 0 THEN Failed ELSE Rewrite(ctx, node.variants[index], value, target, left, indices)
        fields == Each(node.fields, value.values, LAMBDA i : indices)
        elements == Each([i \in DOMAIN value.elements |-> node.element], value.elements,
                         LAMBDA i : Append(indices, i - 1))
    IN CASE ~target.reset /\ ~Within(target.path, node.path) -> NotFound(left, value)
         [] node.path = target.path ->
                IF left = 0 THEN Replaced(ctx, node, value, target, indices)
                ELSE NotFound(left - 1, value)
         [] node.kind \in {"Struct", "OptionalStruct"} /\ value.kind = "Struct" ->
                IF fields.ok THEN [fields EXCEPT !.value = StructValue(@)] ELSE Failed
         [] node.kind = "Array" /\ value.kind = "Array" ->
                IF elements.ok THEN [elements EXCEPT !.value = ArrayValue(@)] ELSE Failed
         [] node.kind = "Union" -> Variant(SelectUnionVariant(ctx, node, value, target.numbers, NoScope))
         [] node.kind = "Terminated" -> Rewrite(ctx, node.child, value, target, left, indices)
         [] OTHER -> NotFound(left, value)

\* A search by an edit does not say which subrecord it looks into.
Unplaced(ctx) == [ctx EXCEPT !.at = NoIndex]

\* The numbers an expression may read: those of all values held, the later
\* payload's where two give one, under those of the new value.
NumbersWith(node, value) ==
    NumbersOf(node, value)
    @@ FoldLeft(LAMBDA acc, v : NumbersOf(case.schema, v) @@ acc, <<>>, held)

\* The scaled float a caller sets, as it is stored.
NormalizeValue(node, value) ==
    IF node.kind = "Primitive" /\ value.kind = "Float"
    THEN FloatValue(value.float \div node.scale) ELSE value

\* A mutated count update: only headers that are there are set.
CountPresentHeaders(value) ==
    LET Size(i) == Len(value.values[i].elements)
        counts == 1 :> Size(2) @@ 2 :> Size(3) @@ 4 :> Size(4)
    IN [value EXCEPT !.values[1].elements =
            [i \in DOMAIN @ |-> IF i \in DOMAIN counts THEN UIntValue(counts[i]) ELSE @[i]]]

\* Model information counts its arrays in its headers once one changes: as
\* many headers as the arrays need are added.
UpdateModelInfoCounts(value) ==
    LET Size(i) == Len(value.values[i].elements)
        minimum == IF Size(4) > 0 THEN 4 ELSE IF Size(3) > 0 THEN 2
                   ELSE IF Size(2) > 0 THEN 1 ELSE 0
        headers == value.values[1].elements
        padded == headers \o [i \in 1 .. (minimum - Len(headers)) |-> UIntValue(0)]
        counts == 1 :> Size(2) @@ 2 :> Size(3) @@ 4 :> Size(4)
    IN [value EXCEPT !.values[1].elements =
            [i \in DOMAIN padded |->
                IF i \in DOMAIN counts THEN UIntValue(counts[i]) ELSE padded[i]]]

\* A mutation that the payload's own callback asks for: a reset, or a value
\* for a part, only in place of the expected one if one is given.
Wish(op, node, occurrence, value, expected) ==
    [op |-> op, path |-> node.path, occurrence |-> occurrence, value |-> value, expected |-> expected]

Grant(wish, value, search) ==
    IF ~search.found THEN Refused
    ELSE Default(IF wish.op = "SetIfEqual" /\ search.part # wish.expected THEN value ELSE search.value)

\* One wish granted: a part that is not there makes the edit fail.
Granted(ctx, value, wish, numbers) ==
    Grant(wish, value,
          Rewrite(Unplaced(ctx), case.schema, value,
                  IF wish.op = "ResetToDefault" THEN ResetTarget(wish.path, numbers)
                  ELSE Target(wish.path, wish.value, NumbersWith(case.schema, value)),
                  wish.occurrence, <<>>))

RECURSIVE GrantInTurn(_, _, _, _)
GrantInTurn(ctx, result, wishes, numbers) ==
    IF wishes = <<>> \/ ~result.ok THEN result
    ELSE GrantInTurn(ctx, Granted(ctx, result.value, Head(wishes), numbers), Tail(wishes), numbers)

\* All of them: first the resets, then the others.
GrantAll(ctx, value, wishes, numbers) ==
    GrantInTurn(ctx, Default(value),
                SelectSeq(wishes, LAMBDA w : w.op = "ResetToDefault")
                \o SelectSeq(wishes, LAMBDA w : w.op # "ResetToDefault"), numbers)

\* The callbacks of a payload run when it changes.
AfterSet(ctx, value, old, wishes) ==
    IF value = old THEN [ok |-> TRUE, value |-> value]
    ELSE IF "model_info" \in case.schema.callbacks
    THEN [ok |-> TRUE, value |-> UpdateModelInfoCounts(value)]
    ELSE GrantAll(ctx, value, wishes, NumbersWith(case.schema, value))

New(bytes, convertible, value) ==
    IF bytes.ok /\ convertible THEN [ok |-> TRUE, bytes |-> bytes.bytes, value |-> value] ELSE Refused

\* A value with its bytes in place of data: every union in it has to be
\* selected again.
Encode(ctx, node, data, value, numbers) ==
    New(EncodePayload(ctx, node, data, value, numbers), Convertible(ctx, node, value, numbers), value)

\* The payload at place at written with this value.
Rewritten(at, value) ==
    LET ctx == ContextIn(subs, at)
        node == LegacyNode(ctx, case.schema, Len(subs[at].data))
    IN Encode(ctx, node, subs[at].data, value, NumbersWith(case.schema, value))

RewrittenAs(at, final) == IF final.ok THEN Rewritten(at, final.value) ELSE Refused

\* What becomes of it when a caller gives the value: its unions are selected
\* once for that and once for what callbacks make of it.
Replacement(at, value, old, wishes) ==
    LET ctx == ContextIn(subs, at)
        node == LegacyNode(ctx, case.schema, Len(subs[at].data))
    IN IF Convertible(ctx, node, value, NumbersWith(case.schema, value))
       THEN RewrittenAs(at, AfterSet(ctx, value, old, wishes)) ELSE Refused

EncodeDefault(ctx, data, default) ==
    IF default.ok THEN Encode(ctx, case.schema, data, default.value, NumbersWith(case.schema, default.value))
    ELSE Refused

\* The default payload for place at of the record ss, by the subrecord that
\* is there now.
DefaultPayload(at) ==
    LET ctx == ContextIn(subs, at)
        data == IF at <= Len(subs) THEN subs[at].data ELSE <<>>
    IN EncodeDefault(ctx, data, DefaultValue(ctx, case.schema, NumbersWith([kind |-> "None"], Absent), <<>>))

(***************************************************************************)
(* Requests.                                                               *)
(***************************************************************************)

NoTarget == [path |-> <<>>, where |-> <<>>]

Request(op, k, target) == [op |-> op, k |-> k, target |-> target]

\* Payload k gets new bytes and a new value; a refused request changes
\* nothing.
Commit(op, k, target, new) ==
    IF new.ok
    THEN /\ subs' = [subs EXCEPT ![PlacesIn(subs)[k]].data = new.bytes]
         /\ held' = [held EXCEPT ![k] = new.value]
         /\ last' = Request(op, k, target)
         /\ edits' = edits + 1
         /\ UNCHANGED case
    ELSE UNCHANGED vars

\* set: the whole value of payload k.
Set(k, value, wishes) ==
    Commit("Set", k, NoTarget,
           Replacement(PlacesIn(subs)[k], NormalizeValue(case.schema, value), held[k], wishes))

RECURSIVE FindFrom(_, _, _, _)
FindFrom(search, path, value, placed) ==
    LET k == search.k + 1
        ctx == ContextIn(subs, PlacesIn(subs)[k])
    IN IF ~search.ok \/ search.found \/ search.k = Len(held) THEN search
       ELSE FindFrom([k |-> k] @@ Rewrite(IF placed THEN ctx ELSE Unplaced(ctx), case.schema, held[k],
                                          Target(path, value, NumbersWith(case.schema, held[k])),
                                          search.left, <<>>),
                     path, value, placed)

\* The first payload in which the occurrence-th part at a path is, counted
\* over all payloads; placed says whether the search knows where a payload is.
FindPart(path, value, occurrence, placed) ==
    FindFrom([k |-> 0] @@ NotFound(occurrence, Absent), path, value, placed)

Reach(search, path) == [path |-> path, where |-> search.where]

\* set_parsed_value: the occurrence-th part at a path.
SetParsedValue(node, value, occurrence, wishes) ==
    \E search \in {FindPart(node.path, NormalizeValue(node, value), occurrence, FALSE)} :
       Commit(IF wishes = <<>> THEN "SetParsedValue" ELSE "Set", search.k, Reach(search, node.path),
              IF search.found
              THEN Replacement(PlacesIn(subs)[search.k], search.value, held[search.k], wishes)
              ELSE Refused)

\* A Set mutation of a part by a callback of another field: no callbacks of
\* the payload run, and a part that has the value already is not written.
SetNested(node, value, occurrence) ==
    \E search \in {FindPart(node.path, value, occurrence, TRUE)} :
       /\ search.found => search.part # value
       /\ Commit("SetNested", search.k, Reach(search, node.path),
                 IF search.found THEN Rewritten(PlacesIn(subs)[search.k], search.value) ELSE Refused)

\* A SetIfEqual mutation.
SetNestedIfEqual(node, expected, value, occurrence) ==
    \E search \in {FindPart(node.path, value, occurrence, TRUE)} :
       /\ search.found => search.part = expected
       /\ Commit("SetNested", search.k, Reach(search, node.path),
                 IF search.found THEN Rewritten(PlacesIn(subs)[search.k], search.value) ELSE Refused)

\* A part of the only payload, which is written without regard to the bytes it
\* has now.
WithName(search) ==
    LET ctx == Unplaced(ContextIn(subs, PlacesIn(subs)[1]))
        numbers == NumbersWith(case.schema, search.value)
    IN IF Len(held) # 1 \/ ~search.found THEN Refused
       ELSE New(EncodeNode(ctx, case.schema, search.value, numbers, NoScope),
                Convertible(ctx, case.schema, search.value, numbers), search.value)

\* set_record_editor_id: one binding, which can be executed, names the part.
SetRecordEditorId(node, name) ==
    \E search \in {FindPart(node.path, name, 0, FALSE)} :
       Commit("SetNested", 1, Reach(search, node.path),
              IF case.bindings = <<"executable">> THEN WithName(search) ELSE Refused)

\* A ResetToDefault mutation for payload k.
ResetToDefault(k) ==
    Commit("ResetToDefault", k, NoTarget, DefaultPayload(PlacesIn(subs)[k]))

\* An InsertDefault mutation: after the last payload.
InsertDefault ==
    LET at == Last(PlacesIn(subs)) + 1
    IN \E new \in {DefaultPayload(at)} :
          /\ subs' = IF new.ok THEN InsertAt(subs, at, [sig |-> "PAYL", data |-> new.bytes]) ELSE subs
          /\ held' = IF new.ok THEN Append(held, new.value) ELSE held
          /\ last' = IF new.ok THEN Request("InsertDefault", Len(held) + 1, NoTarget) ELSE last
          /\ edits' = IF new.ok THEN edits + 1 ELSE edits
          /\ UNCHANGED case

\* A subrecord that payloads are selected by gets other bytes.
SetOther(i, data) ==
    /\ ~IsPayload(subs[i]) /\ subs[i].data # data
    /\ subs' = [subs EXCEPT ![i].data = data]
    /\ last' = Request("SetOther", 1, NoTarget)
    /\ edits' = edits + 1
    /\ UNCHANGED <<case, held>>

\* A record is opened when its payloads can be read.
Init ==
    /\ case \in Cases
    /\ subs \in case.subs
    /\ \E views \in {[k \in DOMAIN PlacesIn(subs) |-> ViewIn(subs, PlacesIn(subs)[k], Full)]} :
          /\ \A k \in DOMAIN views : views[k].ok
          /\ held = [k \in DOMAIN views |-> views[k].value]
    /\ last = Request("Open", 1, NoTarget)
    /\ edits = 0

\* At most case.edits accepted edits are made.
Next ==
    /\ edits < case.edits
    /\ \/ \E k \in DOMAIN held, value \in case.wholes, wishes \in case.wishes : Set(k, value, wishes)
       \/ \E part \in case.parts, occurrence \in 0..1, wishes \in case.wishes :
             \E value \in part.values : SetParsedValue(part.node, value, occurrence, wishes)
       \/ \E part \in case.mutated, occurrence \in 0..2 : \E value \in part.values :
             \/ SetNested(part.node, value, occurrence)
             \/ \E expected \in part.values : SetNestedIfEqual(part.node, expected, value, occurrence)
       \/ \E part \in case.names : \E name \in part.values : SetRecordEditorId(part.node, name)
       \/ \E k \in DOMAIN held : ResetToDefault(k)
       \/ Len(held) < case.payloads /\ InsertDefault
       \/ \E i \in DOMAIN subs, data \in case.others : SetOther(i, data)

Spec == Init /\ [][Next]_vars

(***************************************************************************)
(* Properties.                                                             *)
(***************************************************************************)

Written == {"Set", "SetParsedValue", "SetNested", "ResetToDefault", "InsertDefault"}

\* The payload the last accepted edit wrote.
LastView == ViewIn(subs, PlacesIn(subs)[last.k], Full)

\* A node that is read by its own bytes alone: no count, condition or end of
\* an array is decided elsewhere.
RECURSIVE SelfDescribed(_)
SelfDescribed(node) ==
    /\ node.condition = NoCondition
    /\ "array.should_include" \notin node.callbacks
    /\ node.kind \in {"Struct", "OptionalStruct"} =>
          \A i \in DOMAIN node.fields : SelfDescribed(node.fields[i])
    /\ node.kind = "Array" =>
          node.count.type \notin {"Expression", "Callback"} /\ SelfDescribed(node.element)
    /\ node.kind = "Union" =>
          \A i \in DOMAIN node.variants : SelfDescribed(node.variants[i])
    /\ node.kind = "Terminated" => SelfDescribed(node.child)

\* A value without the zeros that pad texts of a fixed length: the view keeps
\* them unless the text is zero-terminated.
RECURSIVE Unpadded(_)
Unpadded(value) ==
    CASE value.kind = "String" ->
            StringValue(Take(value.text, Max({0} \cup {i \in DOMAIN value.text : value.text[i] # 0})))
      [] value.kind = "Struct" -> StructValue([i \in DOMAIN value.values |-> Unpadded(value.values[i])])
      [] value.kind = "Array" -> ArrayValue([i \in DOMAIN value.elements |-> Unpadded(value.elements[i])])
      [] OTHER -> value

\* The view reads what the last edit wrote as the value the editor keeps.
ReadsAsHeld == \E view \in {LastView} : view.ok /\ Unpadded(view.value) = Unpadded(held[last.k])

\* What the editor writes is what it holds: the view reads an accepted edit,
\* and every default, back as the value the editor keeps, for every schema
\* whose payloads can be read by their own bytes; the unions among them may be
\* selected by other fields, by later bytes or by other subrecords
\* (encode_node against decode_node, select_union_variant against
\* select_union_index).
WrittenReadsAsHeld ==
    last.op \in Written /\ SelfDescribed(case.schema) => ReadsAsHeld

\* Model information, whose counts lie elsewhere in the payload, reads back as
\* well: the counts follow the arrays (edit.model_info_counts).
CountsFollowArrays ==
    last.op \in {"Set", "SetParsedValue"}
        /\ "model_info" \in case.schema.callbacks /\ held[last.k] # Absent
    => ReadsAsHeld

\* A payload decoded only to be checked, without keeping values, is accepted
\* and used up exactly when the full decoding accepts it
\* (decode_retention.rs, validate).
DiscardingReadsTheSame ==
    \A i \in DOMAIN subs : IsPayload(subs[i]) =>
        \E full \in {ViewIn(subs, i, Full)} : \E thin \in {ViewIn(subs, i, RetentionFor(case.schema))} :
            full.ok = thin.ok /\ (full.ok => full.used = thin.used)

\* Whatever is written can be read, with and without its values.
EditsReadBack == WrittenReadsAsHeld /\ DiscardingReadsTheSame

\* The part of a value that an edit means, in place of its value.
Touched == [kind |-> "Touched"]

\* The parts of a value around a path and its array indices, as large as they
\* can be; chosen are the variants the view found.
RECURSIVE PartsAround(_, _, _, _, _)
PartsAround(node, value, target, indices, chosen) ==
    LET variant == {c \in Range(chosen) : c[1] = node.path /\ c[2] = indices}
    IN CASE node.path = target.path ->
                {<<node.path, indices, IF indices = target.where THEN Touched ELSE value>>}
         [] ~Within(target.path, node.path) -> {<<node.path, indices, value>>}
         [] value.kind = "Struct" /\ node.kind \in {"Struct", "OptionalStruct"} ->
                UNION {PartsAround(node.fields[i], value.values[i], target, indices, chosen) :
                         i \in DOMAIN value.values}
         [] value.kind = "Array" /\ node.kind = "Array" ->
                UNION {PartsAround(node.element, value.elements[i], target,
                                   Append(indices, i - 1), chosen) :
                         i \in DOMAIN value.elements}
         [] node.kind = "Union" /\ variant # {} ->
                PartsAround(node.variants[(CHOOSE c \in variant : TRUE)[3]], value, target,
                            indices, chosen)
         [] node.kind = "Terminated" -> PartsAround(node.child, value, target, indices, chosen)
         [] OTHER -> {}

\* Those parts of a payload as it is viewed.  Counts that follow the arrays
\* are left out.
PartsOf(view, target) ==
    IF ~view.ok THEN {}
    ELSE {part \in PartsAround(case.schema, view.value, target, <<>>, view.chosen) :
             ~("model_info" \in case.schema.callbacks /\ part[1] = case.schema.fields[1].path)}

\* Those of the k-th payload of record ss.
PartsIn(ss, k, target) == PartsOf(ViewIn(ss, PlacesIn(ss)[k], Full), target)

Reached(target) == <<target.path, target.where, Touched>>

\* An edit of one part that the payload has changes that part only: every
\* other field of the payload reads as before (set_parsed_value writes the
\* whole payload anew from the value the editor holds).
OnlyTheEditedPartChanges ==
    [][ /\ edits' > edits /\ last'.op \in {"SetParsedValue", "SetNested"}
        /\ SelfDescribed(case.schema)
        => \E before \in {PartsIn(subs, last'.k, last'.target)} :
           \E after \in {PartsIn(subs', last'.k, last'.target)} :
              Reached(last'.target) \in before /\ after # {} => after = before ]_vars

==============================================================================
