-------------------------- MODULE RecordValidation --------------------------
(***************************************************************************)
(* What a RecordView says of the record that an editor holds (view.rs): the *)
(* diagnostics of validate_with_mode and the occurrences of a repeated      *)
(* structure, whose fields are formatted and followed one by one.  The      *)
(* value of a payload is a number, or the tree package.inner gives it.      *)
(***************************************************************************)
EXTENDS RecordEditor

\* A nested value: a scalar, named fields, or the elements of an array.
Scalar(v) == [kind |-> "scalar", v |-> v]

Struct(fields) == [kind |-> "struct", fields |-> fields]

Array(items) == [kind |-> "array", items |-> items]

Named(path, value) == [path |-> path, value |-> value]

\* The value of a field at path.
Tree(path, v) ==
    IF path \in DOMAIN package.inner /\ v \in DOMAIN package.inner[path]
    THEN package.inner[path][v]
    ELSE Scalar(v)

-----------------------------------------------------------------------------
(* validate_with_mode.                                                     *)

Strict == "strict"
XEditCompatible == "xedit"

Diagnostic(severity, code, path) == [severity |-> severity, code |-> code, path |-> path]

SubtreeIsAssigned(node, assigned) == \E leaf \in Range(Leaves(node)) : leaf.path \in assigned

RECURSIVE Collect(_, _, _, _)

CollectAll(nodes, assigned, active) ==
    FoldLeft(LAMBDA found, node : found \o Collect(node, assigned, active, FALSE), <<>>, nodes)

\* missing_required_subrecords: a field is missed if the containers around it
\* are used; one assigned in any occurrence of a repeat is missed in none.
Collect(node, assigned, active, root) ==
    CASE node.kind = "subrecord" ->
            IF active /\ node.required /\ node.path \notin assigned THEN <<node.path>> ELSE <<>>
      [] node.kind \in {"sequence", "unordered"} ->
            CollectAll(node.kids, assigned,
                       active /\ (root \/ node.required \/ SubtreeIsAssigned(node, assigned)))
      [] node.kind \in {"choice", "selected"} ->
            CollectAll(SelectSeq(node.kids, LAMBDA kid : SubtreeIsAssigned(kid, assigned)), assigned, active)
      [] node.kind = "repeat" ->
            CollectAll(node.kids, assigned, active /\ SubtreeIsAssigned(node.kids[1], assigned))

MissingRequired(match) ==
    Collect(Root, Range(match.path) \ {None}, TRUE, TRUE) \o match.violations

\* The callbacks that run during validation; each answers a value with a text
\* (empty, a warning or another), with something else, or fails.
Validators(path) == SelectSeq(package.validators, LAMBDA b : b.path = path)

Output(b, value) ==
    IF \E a \in b.answers : a.value = value
    THEN (CHOOSE a \in b.answers : a.value = value).output
    ELSE "none"

\* callback_validation_severity
CallbackDiagnostics(path, value) ==
    LET bindings == SelectSeq(Validators(path), LAMBDA b : Output(b, value) \notin {"none", "empty"})
    IN  [k \in DOMAIN bindings |->
            Diagnostic(IF Output(bindings[k], value) = "warning" THEN "warning" ELSE "error",
                       "CallbackValidation", path)]

\* A string primitive with allowed values; the path of a subrecord is none.
EnumerationDiagnostics(path, value) ==
    IF /\ path \in DOMAIN package.allowed
       /\ value.kind = "scalar" /\ value.v # Default
       /\ value.v \notin package.allowed[path]
    THEN <<Diagnostic("error", "InvalidStringEnumeration", path)>>
    ELSE <<>>

RECURSIVE ValidateValue(_, _)
RECURSIVE ValidateDescendants(_)

ValidateDescendants(value) ==
    CASE value.kind = "struct" ->
            FoldLeft(LAMBDA found, f : found \o ValidateValue(f.path, f.value), <<>>, value.fields)
      [] value.kind = "array" ->
            FoldLeft(LAMBDA found, v : found \o ValidateDescendants(v), <<>>, value.items)
      [] value.kind = "scalar" -> <<>>

\* validate_callback_value
ValidateValue(path, value) ==
    EnumerationDiagnostics(path, value) \o CallbackDiagnostics(path, value) \o ValidateDescendants(value)

\* A field of fields().
ValidateField(subs, match, i) ==
    CASE match.path[i] # None -> ValidateValue(match.path[i], Tree(match.path[i], subs[i].v))
      [] match.path[i] = None /\ subs[i].sig \in Declared(Root) ->
            <<Diagnostic("error", "InvalidOrder", None)>>
      [] match.path[i] = None /\ subs[i].sig \notin Declared(Root) ->
            <<Diagnostic("warning", "UnknownSubrecord", None)>>

InvalidPayload == <<Diagnostic("error", "InvalidPayload", None)>>

MissingDiagnostics(match, mode, deleted) ==
    LET missing == IF deleted THEN <<>> ELSE MissingRequired(match)
    IN  [k \in DOMAIN missing |->
            Diagnostic(IF mode = Strict THEN "error" ELSE "warning", "MissingRequired", missing[k])]

FieldDiagnostics(subs, list, match) ==
    IF Decodable(subs, list)
    THEN FlattenSeq([i \in DOMAIN subs |-> ValidateField(subs, match, i)])
    ELSE InvalidPayload

Validate(subs, list, mode, deleted) ==
    LET match == Matched(subs)
    IN  IF match.ok
        THEN MissingDiagnostics(match, mode, deleted) \o FieldDiagnostics(subs, list, match)
        ELSE InvalidPayload

IsValid(subs, list, mode, deleted) ==
    \A d \in Range(Validate(subs, list, mode, deleted)) : d.severity # "error"

-----------------------------------------------------------------------------
(* Occurrences.                                                            *)

\* The payload of a group is the group.
SameNode(path, target) == target = path \/ target = PayloadPath(path)

ScopesFor(match, i, path) == {scope \in match.scopes[i] : SameNode(scope.path, path)}

\* Mutant: the occurrences come in no particular order.
UnorderedStructures(match, path) ==
    LET Occurrences(i) == {scope.occurrence : scope \in ScopesFor(match, i, path)}
        found == SetToSortSeq(UNION {Occurrences(i) : i \in DOMAIN match.path}, LAMBDA a, b : a > b)
    IN  [k \in DOMAIN found |->
            InOrder({i \in DOMAIN match.path : found[k] \in Occurrences(i)}, Len(match.path))]

\* repeated_structures: the indices of the fields of each occurrence, in the
\* order of the occurrences that have one.
RepeatedStructures(match, path) ==
    LET Occurrences(i) == {scope.occurrence : scope \in ScopesFor(match, i, path)}
        found == SetToSortSeq(UNION {Occurrences(i) : i \in DOMAIN match.path}, LAMBDA a, b : a < b)
    IN  [k \in DOMAIN found |->
            InOrder({i \in DOMAIN match.path : found[k] \in Occurrences(i)}, Len(match.path))]

NoField == 0

\* find_named_value among the fields at these indices.
FindField(match, indices, path) ==
    LET found == SelectSeq(indices, LAMBDA i : SameNode(match.path[i], path))
    IN  IF found = <<>> THEN NoField ELSE Head(found)

\* What the formatter, or the link handler, of a field in an occurrence is
\* given (format_repeated_field_as, resolve_repeated_field_link): the field
\* and the occurrence it is in.  Occurrences count from 0.
RepeatedField(match, path, occurrence, field) ==
    LET structures == RepeatedStructures(match, path)
        active == structures[occurrence + 1]
    IN  IF occurrence < Len(structures) /\ FindField(match, active, field) # NoField
        THEN [field |-> FindField(match, active, field), active |-> active]
        ELSE [field |-> NoField, active |-> <<>>]

\* What the formatter of an occurrence is given (format_repeated_structure_as):
\* its fields, and its place among how many.
RepeatedSummary(match, path, occurrence) ==
    LET structures == RepeatedStructures(match, path)
    IN  [fields |-> structures[occurrence + 1], index |-> occurrence, count |-> Len(structures)]

-----------------------------------------------------------------------------
(* Elements of arrays.                                                     *)

NoValue == [kind |-> "none"]

\* The first of the values that is one.
FirstValue(values) ==
    LET found == SelectSeq(values, LAMBDA v : v # NoValue)
    IN  IF found = <<>> THEN NoValue ELSE Head(found)

RECURSIVE FindValue(_, _)

\* find_named_value
FindValue(value, path) ==
    CASE value.kind = "struct" ->
            FirstValue([k \in DOMAIN value.fields |->
                IF SameNode(value.fields[k].path, path)
                THEN value.fields[k].value
                ELSE FindValue(value.fields[k].value, path)])
      [] value.kind = "array" -> FirstValue([k \in DOMAIN value.items |-> FindValue(value.items[k], path)])
      [] value.kind = "scalar" -> NoValue

\* structural_callback_scope: the occurrences of every repeated structure, in
\* an array each, then the fields.
StructuralScope(subs, match) ==
    LET groups == SetToSeq({scope.path : scope \in UNION Range(match.scopes)})
        fields == [i \in DOMAIN subs |-> Named(match.path[i], Tree(match.path[i], subs[i].v))]
        Occurrence(indices) == Struct([k \in DOMAIN indices |-> fields[indices[k]]])
        Occurrences(structures) == Array([k \in DOMAIN structures |-> Occurrence(structures[k])])
    IN  Struct([g \in DOMAIN groups |->
                    Named(groups[g], Occurrences(RepeatedStructures(match, groups[g])))] \o fields)

\* array_element_field, of format_array_element_field_as and
\* resolve_array_element_field_link
ArrayElementField(scope, array, index, field) ==
    LET found == FindValue(scope, array)
    IN  IF found.kind # "array" THEN NoValue
        ELSE IF index >= Len(found.items) THEN NoValue
        ELSE FindValue(found.items[index + 1], field)

-----------------------------------------------------------------------------
(* Properties.                                                             *)

\* validate after an edit: where a field keeps its place, a record without
\* errors gets none but those of the value that was written.  (insert does not
\* ask whether the schema has room for one more.)
ValidRecordsStayValid ==
    [][/\ Succeeded({"set", "insert_at", "recode", "remove"})
       /\ call'.op = "remove" => ~LeafAt(call'.path).required
       /\ IsValid(record, <<>>, Strict, FALSE)
       => \A d \in Range(Validate(record', <<>>, Strict, FALSE)) :
             d.severity = "error" => d.code # "MissingRequired" /\ d.path # None /\ Within(d.path, call'.path)]_vars

\* The view counts the occurrences of a repeat by their places in a list, the
\* editor by the numbers of their scopes: the field that is formatted for an
\* occurrence is the one a mutation in the scope of that number changes, and
\* the last of them is the last in the record.
OccurrencesAgree ==
    LET match == Matched(record)
    IN  \A group \in {scope.path : scope \in UNION Range(match.scopes)} :
        \A k \in DOMAIN RepeatedStructures(match, group) :
            LET summary == RepeatedSummary(match, group, k - 1)
                scope == [path |-> group, occurrence |-> k - 1]
            IN  /\ \A path \in {p \in FieldPaths : Within(p, group)} :
                      RepeatedField(match, group, k - 1, path).field = ScopedIndex(match, scope, path, 0)
                /\ Max(Range(summary.fields)) = Max({i \in DOMAIN record : ScopesFor(match, i, group) # {}})
                       <=> summary.index + 1 = summary.count

\* validate and format_array_element_field_as reach the same values: an error
\* in an array of a field that is there once is that of an element that can be
\* shown.
ReportedElementsCanBeShown ==
    LET match == Matched(record)
        scope == StructuralScope(record, match)
    IN  \A array \in package.arrays :
            match.ok /\ Count(match, Containing(array)) = 1 =>
                \A d \in Range(Validate(record, <<>>, Strict, FALSE)) :
                    Within(d.path, array) => \E index \in 0..2 :
                        LET value == ArrayElementField(scope, array, index, d.path)
                        IN  value # NoValue /\ d \in Range(ValidateValue(d.path, value))

\* What a view shows of a record and what its editor changes are the same
\* fields (view.rs repeated_structures and array_element_field against
\* editor.rs apply_mutation_in_scope and validate).
ViewAndEditorAgree == OccurrencesAgree /\ ReportedElementsCanBeShown
=============================================================================
