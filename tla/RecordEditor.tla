---------------------------- MODULE RecordEditor ----------------------------
(***************************************************************************)
(* The lossless editor of one record (editor.rs, editor_address.rs): the   *)
(* record's subrecords, the values decoded from them by path and           *)
(* occurrence, and the text codec of every subrecord.  An edit builds a    *)
(* candidate, lets the callbacks that the schema binds to the edited field *)
(* change it and commits it only if everything succeeded.  A payload is    *)
(* one value; a text also has the codec of its bytes.                      *)
(***************************************************************************)
EXTENDS Grammar, FiniteSets

CONSTANTS
    Packages,   \* schemas: [root, texts, afterLoad, callbacks, sources, values, parsed]
    MaxCalls    \* bound: calls on one editor

VARIABLES
    package,    \* the schema of the record, with the records and values to try
    record,     \* the subrecords
    decoded,    \* <<path, occurrence>> -> value
    codecs,     \* the explicit codec per subrecord index
    address,    \* the address issued by the last snapshot; index 0 before it
    call,       \* the last call: [op, outcome, path, occurrence, scopes]
    calls       \* number of calls so far

vars == <<package, record, decoded, codecs, address, call, calls>>

-----------------------------------------------------------------------------
(* Fields.                                                                 *)

Utf8 == "utf8"
Legacy == "windows-1252"    \* the schema's own encoding
Binary == "binary"          \* the payload is no text
NoCodec == "none"

Unencodable == -1
Default == 0

\* A value that is neither absent nor equal to a decoded one.
Missing == -2

Payload(value, enc) == [v |-> value, enc |-> enc]

Field(sig, payload) == [sig |-> sig, v |-> payload.v, enc |-> payload.enc]

Root == package.root

RecordPath == Root.path

Matched(subs) == Interpret(Root, subs)

Readable(subs) == Matched(subs).ok

\* The path of a payload below the path of its subrecord.
PayloadPath(path) == Append(path, "payload")

Within(path, parent) == IsPrefix(parent, path)

LeafAt(path) == CHOOSE leaf \in Range(Leaves(Root)) : leaf.path = path

FieldPaths == {leaf.path : leaf \in Range(Leaves(Root))}

\* The subrecord whose path contains path.
Containing(path) == CHOOSE field \in FieldPaths : Within(path, field)

\* The indices of a sequence of that length that are in the set.
InOrder(indices, length) == SelectSeq([i \in 1..length |-> i], LAMBDA i : i \in indices)

AssignedTo(match, path) == {i \in DOMAIN match.path : match.path[i] = path}

\* Those of the indices that lie in all of the scopes.
InScopes(match, indices, scopes) == {i \in indices : scopes \subseteq match.scopes[i]}

\* The element of a sequence that counts from 0, 0 if there is none.
Nth(indices, n) == IF n < Len(indices) THEN indices[n + 1] ELSE 0

\* assigned_subrecord_index; 0 if there is none.
IndexOf(match, path, occurrence) ==
    Nth(InOrder(AssignedTo(match, path), Len(match.path)), occurrence)

Count(match, path) == Cardinality(AssignedTo(match, path))

OccurrenceAt(match, index) ==
    Cardinality({i \in 1..(index - 1) : match.path[i] = match.path[index]})

\* The position a new occurrence of path gets among the subrecords at these
\* indices, if leaves are the fields in their schema order.
Position(leaves, match, path, otherwise, indices) ==
    LET Rank(p) == CHOOSE r \in DOMAIN leaves : leaves[r].path = p
        Ranked(i) == \E leaf \in Range(leaves) : leaf.path = match.path[i]
        later == {i \in indices : Ranked(i) /\ Rank(match.path[i]) > Rank(path)}
        same == {i \in AssignedTo(match, path) \cap indices : \A j \in later : i < j}
    IN  IF same # {} THEN Max(same) + 1 ELSE IF later # {} THEN Min(later) ELSE otherwise

\* schema_insertion_index
InsertionIndex(match, path) ==
    Position(Leaves(Root), match, path, Len(match.path) + 1, DOMAIN match.path)

InScope(match, scope) == {i \in DOMAIN match.scopes : scope \in match.scopes[i]}

RECURSIVE NodeAt(_, _)

NodeAt(node, path) ==
    IF node.path = path
    THEN node
    ELSE NodeAt(CHOOSE kid \in Range(node.kids) : Within(path, kid.path), path)

\* scoped_schema_insertion_index; scope has at least one subrecord.
ScopedInsertionIndex(match, path, scope) ==
    LET inside == InScope(match, scope)
        together == {i \in inside : Min(inside)..i \subseteq inside}
    IN  Position(Leaves(NodeAt(Root, scope.path)), match, path, Max(together) + 1, inside)

-----------------------------------------------------------------------------
(* Text codecs.  A text holds letters that no two codecs write alike.      *)

CodecAt(list, index) == IF index \in DOMAIN list THEN list[index] ELSE NoCodec

IsText(path) == path \in package.texts

\* RecordView::fields succeeds: no text is read with a codec that rejects it.
Decodable(subs, list) ==
    LET match == Matched(subs)
    IN  /\ match.ok
        /\ \A i \in DOMAIN subs :
              IsText(match.path[i]) /\ CodecAt(list, i) = Utf8 => subs[i].enc = Utf8

\* The codec the view selects for the text at an index under PreferUtf8.
SelectedCodec(subs, index) ==
    IF IsText(Matched(subs).path[index]) /\ subs[index].enc = Utf8 THEN Utf8 ELSE NoCodec

\* encode_node_at: index is that of the codec to use, 0 for none.
Encode(list, path, value, index) ==
    Payload(value, CASE ~IsText(path) -> Binary
                     [] IsText(path) /\ CodecAt(list, index) # NoCodec -> CodecAt(list, index)
                     [] IsText(path) /\ CodecAt(list, index) = NoCodec -> Legacy)

-----------------------------------------------------------------------------
(* Decoded values by path and occurrence.                                  *)

\* decoded_values: the values of the subrecords with a path.
ValuesOf(match, subs) ==
    LET fields == {i \in DOMAIN subs : match.path[i] # None}
    IN  [key \in {<<match.path[i], OccurrenceAt(match, i)>> : i \in fields} |->
            subs[IndexOf(match, key[1], key[2])].v]

DecodedOf(subs) == ValuesOf(Matched(subs), subs)

Lookup(values, path, occurrence) ==
    IF <<path, occurrence>> \in DOMAIN values THEN values[<<path, occurrence>>] ELSE Missing

With(values, path, occurrence, value) ==
    [key \in DOMAIN values \union {<<path, occurrence>>} |->
        IF key = <<path, occurrence>> THEN value ELSE values[key]]

Without(values, keys) == [key \in DOMAIN values \ keys |-> values[key]]

\* remove_decoded_occurrence
RemoveOccurrence(values, path, occurrence) ==
    LET kept == DOMAIN values \ {<<path, occurrence>>}
        Moved(key) == IF key[1] = path /\ key[2] > occurrence THEN <<path, key[2] - 1>> ELSE key
    IN  [key \in {Moved(k) : k \in kept} |-> values[CHOOSE k \in kept : Moved(k) = key]]

\* Mutant: the occurrences from the inserted one on are not moved up.
InsertUnshifted(values, path, occurrence, value) == With(values, path, occurrence, value)

\* insert_decoded_occurrence
InsertOccurrence(values, path, occurrence, value) ==
    LET Moved(key) == IF key[1] = path /\ key[2] >= occurrence THEN <<path, key[2] + 1>> ELSE key
        moved == [key \in {Moved(k) : k \in DOMAIN values} |->
                    values[CHOOSE k \in DOMAIN values : Moved(k) = key]]
    IN  With(moved, path, occurrence, value)

\* The occurrences of path that have a decoded value, in order.
DecodedOccurrences(values, path) ==
    SetToSortSeq({key[2] : key \in {k \in DOMAIN values : k[1] = path}}, LAMBDA a, b : a < b)
-----------------------------------------------------------------------------
(* Mutations: the changes a callback asks for, applied to a candidate      *)
(* [rec, dec, list, ok] of subrecords, decoded values and text codecs.     *)

Mutation(op, path, occurrence, value, extra) ==
    [op |-> op, path |-> path, occurrence |-> occurrence, value |-> value, extra |-> extra]

Candidate(rec, dec, list) == [rec |-> rec, dec |-> dec, list |-> list, ok |-> TRUE]

Rejected(e) == [e EXCEPT !.ok = FALSE]

Require(condition, e, result) == IF condition THEN result ELSE Rejected(e)

\* Writes value to the subrecord at index, which is that occurrence of path.
Rewrite(e, path, index, occurrence, value) ==
    Require(index > 0 /\ value # Unencodable, e,
        [e EXCEPT !.rec[index] = Field(@.sig, Encode(e.list, path, value, index)),
                  !.dec = With(@, path, occurrence, value)])

Erase(e, path, index, occurrence) ==
    Require(index > 0, e,
        [e EXCEPT !.rec = RemoveAt(@, index), !.dec = RemoveOccurrence(@, path, occurrence)])

\* A new subrecord; dec already has its value.
Place(e, path, index, payload, dec) ==
    Require(payload.v # Unencodable, e,
        [e EXCEPT !.rec = InsertAt(@, index, Field(LeafAt(path).sig, payload)), !.dec = dec])

\* HandlerMutation::Insert: behind the fields of the same path.
InsertPlain(e, match, path, value) ==
    Place(e, path, InsertionIndex(match, path), Encode(e.list, path, value, 0),
          With(e.dec, path, Count(match, path), value))

\* insert_default without a scope: the codec is that of the field at index.
InsertDefaultPlain(e, match, path, index) ==
    Place(e, path, index, Encode(e.list, path, Default, index),
          InsertOccurrence(e.dec, path, Count(match, path), Default))

\* insert_in_scope: the new field is at index.
InsertScoped(e, match, path, value, index) ==
    Place(e, path, index, Encode(e.list, path, value, index),
          InsertOccurrence(e.dec, path, Cardinality({i \in AssignedTo(match, path) : i < index}), value))

\* An insertion in the scope, if there is one; its value is the default one
\* if the mutation asks for that.
InsertMutation(e, match, m, scopes) ==
    LET scope == CHOOSE s \in scopes : TRUE
    IN  CASE scopes = {} /\ m.op = "Insert" -> InsertPlain(e, match, m.path, m.value)
          [] scopes = {} /\ m.op = "InsertDefault" ->
                InsertDefaultPlain(e, match, m.path, InsertionIndex(match, m.path))
          [] scopes # {} ->
                Require(InScope(match, scope) # {}, e,
                    InsertScoped(e, match, m.path, IF m.op = "InsertDefault" THEN Default ELSE m.value,
                                 ScopedInsertionIndex(match, m.path, scope)))

\* apply_nested_set and apply_nested_set_if_equal: found are the occurrences
\* of the containing field at path that have a decoded value.
SetNested(e, match, m, path, found) ==
    LET reached == 1..(IF m.occurrence < Len(found) THEN m.occurrence + 1 ELSE Len(found))
        occurrence == found[m.occurrence + 1]
        old == e.dec[<<path, occurrence>>]
        applies == m.op = "Set" \/ old = m.extra
    IN  IF m.occurrence >= Len(found) \/ \E k \in reached : IndexOf(match, path, found[k]) = 0
        THEN Rejected(e)
        ELSE IF old = m.value \/ ~applies
             THEN e
             ELSE Rewrite(e, path, IndexOf(match, path, occurrence), occurrence, m.value)

\* Mutant: the removals run forwards, each shifting the indices of the next.
EraseForwards(e, match, indices) ==
    LET Step(c, i) == IF i \in DOMAIN c.rec THEN Erase(c, match.path[i], i, OccurrenceAt(match, i)) ELSE c
    IN  FoldLeft(Step, e, InOrder(indices, Len(e.rec)))

\* Removes the subrecords at these indices, from the last one to the first.
EraseAll(e, match, indices) ==
    LET Step(c, i) == Erase(c, match.path[i], i, OccurrenceAt(match, i))
    IN  FoldLeft(Step, e, Reverse(InOrder(indices, Len(e.rec))))

RECURSIVE EraseEach(_, _, _)

EraseFirst(e, match, found, path, scopes) ==
    IF found = {}
    THEN e
    ELSE EraseEach(Erase(e, path, Min(found), OccurrenceAt(match, Min(found))), path, scopes)

\* RemoveAll: removes the first one, matches the grammar again, and so on;
\* in the scope only, if there is one.
EraseEach(e, path, scopes) ==
    LET match == Matched(e.rec)
    IN  Require(match.ok, e, EraseFirst(e, match, InScopes(match, AssignedTo(match, path), scopes), path, scopes))

FieldsBelow(match, path) ==
    {i \in DOMAIN match.path : match.path[i] # None /\ Within(match.path[i], path)}

\* remove_container_occurrence
ContainerOccurrence(match, m, scopes) ==
    InScopes(match, InScope(match, [path |-> m.path, occurrence |-> m.occurrence]), scopes)

WantsCount(m) == m.value # 0 \/ m.extra = 0

WantsPresence(m) == m.extra = 1

\* SynchronizeCount and SynchronizePresence for the field at index, 0 if there
\* is none; without a scope a new one gets the occurrence that was asked for.
Synchronize(e, match, m, scopes, index, wanted) ==
    CASE index = 0 /\ wanted /\ scopes = {} ->
            Place(e, m.path, InsertionIndex(match, m.path), Encode(e.list, m.path, m.value, 0),
                  With(e.dec, m.path, m.occurrence, m.value))
      [] index = 0 /\ wanted /\ scopes # {} -> InsertMutation(e, match, m, scopes)
      [] index > 0 /\ ~wanted -> Erase(e, m.path, index, m.occurrence)
      [] index > 0 /\ wanted /\ m.op = "SynchronizeCount" -> Rewrite(e, m.path, index, m.occurrence, m.value)
      [] OTHER -> e

\* apply_mutations_with_values and apply_mutation_in_scope for one mutation;
\* its field is at index, 0 if there is none.
ApplyToIndex(e, match, m, scopes, index) ==
    CASE m.op = "Set" /\ m.path \in FieldPaths -> Rewrite(e, m.path, index, m.occurrence, m.value)
      [] m.op = "SetIfEqual" \/ (m.op = "Set" /\ m.path \notin FieldPaths) ->
            SetNested(e, match, m, Containing(m.path), DecodedOccurrences(e.dec, Containing(m.path)))
      [] m.op = "ReplacePayload" ->
            Require(index > 0, e,
                [e EXCEPT !.rec[index] = Field(@.sig, Payload(m.value, Encode(e.list, m.path, 0, 0).enc)),
                          !.dec = Without(@, {<<m.path, m.occurrence>>})])
      [] m.op = "ResetToDefault" ->
            Require(scopes # {}, e, Rewrite(e, m.path, index, m.occurrence, Default))
      [] m.op \in {"Insert", "InsertDefault"} -> InsertMutation(e, match, m, scopes)
      [] m.op = "Remove" -> Erase(e, m.path, index, m.occurrence)
      [] m.op = "RemoveAll" -> EraseEach(e, m.path, scopes)
      [] m.op = "RemoveContainer" -> EraseAll(e, match, InScopes(match, FieldsBelow(match, m.path), scopes))
      [] m.op = "RemoveContainerOccurrence" ->
            Require(ContainerOccurrence(match, m, scopes) # {}, e,
                EraseAll(e, match, ContainerOccurrence(match, m, scopes)))
      [] m.op = "SynchronizeCount" -> Synchronize(e, match, m, scopes, index, WantsCount(m))
      [] m.op = "SynchronizePresence" -> Synchronize(e, match, m, scopes, index, WantsPresence(m))
      [] OTHER -> Rejected(e)

-----------------------------------------------------------------------------
(* Mutations inside one occurrence of a repeated group.                    *)

\* scoped_assignment: the index of a local occurrence in scope, 0 if there is none.
ScopedIndex(match, scope, path, occurrence) ==
    Nth(InOrder(AssignedTo(match, Containing(path)) \cap InScope(match, scope), Len(match.path)),
        occurrence)

\* Mutant: the local occurrence is taken for the one in the record.
LocalOccurrence(match, m, scopes) == m

\* The mutation with the record-wide occurrence of its field, or one that no
\* field has; the other mutations need none.
RecordOccurrence(match, m, scopes) ==
    LET index == ScopedIndex(match, CHOOSE scope \in scopes : TRUE, m.path, m.occurrence)
    IN  IF scopes = {} \/ m.op \in {"Insert", "InsertDefault", "RemoveAll", "RemoveContainer",
                                     "RemoveContainerOccurrence"}
        THEN m
        ELSE [m EXCEPT !.occurrence = IF index = 0 THEN Len(match.path) ELSE OccurrenceAt(match, index)]

ApplyMapped(e, match, m, scopes) ==
    IF e.ok /\ match.ok
    THEN ApplyToIndex(e, match, m, scopes, IndexOf(match, m.path, m.occurrence))
    ELSE Rejected(e)

\* A mutation of the record, or of one group of it if scopes has one.
Apply(e, m, scopes) ==
    LET match == Matched(e.rec) IN ApplyMapped(e, match, RecordOccurrence(match, m, scopes), scopes)

\* The innermost of the scopes around a path; a set of at most one.
ScopeOf(scopes, path) ==
    LET around == {scope \in scopes : Within(path, scope.path)}
    IN  {scope \in around : \A other \in around : Len(scope.path) >= Len(other.path)}

Located(mutation, scopes) == [mutation |-> mutation, scopes |-> scopes]

\* apply_local_mutations_with_scope: each in its innermost scope.
LocatedAround(changed, mutations) ==
    [k \in DOMAIN mutations |-> Located(mutations[k], ScopeOf(changed.scopes, mutations[k].path))]

\* A reply of callbacks: their mutations, or an error.
ApplyReply(e, reply) ==
    Require(reply.ok, e, FoldLeft(LAMBDA c, l : Apply(c, l.mutation, l.scopes), e, reply.mutations))

-----------------------------------------------------------------------------
(* The callbacks of the schema: [path, handler, field, sig, values].       *)

NoChange == [ok |-> TRUE, mutations |-> <<>>]
HandlerError == [ok |-> FALSE, mutations |-> <<>>]
Changes(mutations) == [ok |-> TRUE, mutations |-> mutations]

\* edit.sync_record_counts: the counter field is the number of subrecords sig.
SynchronizeRecordCounts(b, subs) ==
    LET number == Cardinality({i \in DOMAIN subs : subs[i].sig = b.sig})
    IN  Changes(<<Mutation("SynchronizeCount", b.field, 0, number, 1)>>)

\* edit.package_input_type: the type of an input decides whether a value follows.
PackageInputType(b, value, old, subs, index) ==
    LET present == index < Len(subs) /\ subs[index + 1].sig = b.sig
        wanted == value \in b.values
    IN  IF old = Missing \/ value = Missing
        THEN HandlerError
        ELSE Changes(CASE old = value \/ (~wanted /\ ~present) -> <<>>
                       [] old # value /\ wanted /\ present ->
                            <<Mutation("ResetToDefault", b.field, 0, Default, 0)>>
                       [] old # value /\ wanted /\ ~present ->
                            <<Mutation("InsertDefault", b.field, 0, Default, 0)>>
                       [] old # value /\ ~wanted /\ present ->
                            <<Mutation("Remove", b.field, 0, Default, 0)>>)

\* edit.message_display_time: a message box has no display time.
MessageDisplayTime(b, value, old) ==
    LET before == IF old = Missing THEN 0 ELSE old % 2
    IN  IF value = Missing \/ before = value % 2
        THEN NoChange
        ELSE Changes(<<Mutation("SynchronizePresence", b.field, 0, Default, 1 - (value % 2))>>)

\* edit.form_list_editor_id: a list that becomes ordered, or ceases to be, is
\* cleared; the ordered names are in values.
FormListEditorId(b, value, old) ==
    IF value = Missing \/ old = Missing \/ ((value \in b.values) <=> (old \in b.values))
    THEN NoChange
    ELSE Changes(<<Mutation("RemoveAll", b.field, 0, Default, 0)>>)

Invoke(b, value, old, subs, index) ==
    CASE b.handler = "edit.sync_record_counts" -> SynchronizeRecordCounts(b, subs)
      [] b.handler = "edit.package_input_type" -> PackageInputType(b, value, old, subs, index)
      [] b.handler = "edit.message_display_time" -> MessageDisplayTime(b, value, old)
      [] b.handler = "edit.form_list_editor_id" -> FormListEditorId(b, value, old)

\* changed_field_at
Changed(match, index) ==
    [path |-> match.path[index], occurrence |-> OccurrenceAt(match, index),
     scopes |-> match.scopes[index]]

\* scoped_record
ScopedRecord(subs, scopes) ==
    LET inside == InOrder(InScopes(Matched(subs), DOMAIN subs, scopes), Len(subs))
    IN  IF scopes = {} THEN subs ELSE [k \in DOMAIN inside |-> subs[inside[k]]]

\* Mutant: the callbacks bound to the record or to a container do not run.
ConcernsField(b, changed) == b.path = changed.path

Concerns(b, changed) == b.path = RecordPath \/ Within(changed.path, b.path)

\* What a callback answers for the scope around its field, whose record is
\* source; the field is at index.
Answer(e, b, changed, scopes, source, index) ==
    LET exact == b.path = changed.path
        Before(values) == IF exact THEN Lookup(values, b.path, changed.occurrence) ELSE Missing
        reply == Invoke(b, Before(e.dec), Before(decoded), source, index)
    IN  IF exact /\ index = 0
        THEN HandlerError
        ELSE [reply EXCEPT !.mutations = [k \in DOMAIN @ |-> Located(@[k], scopes)]]

AnswerIn(e, b, changed, scopes, source) ==
    Answer(e, b, changed, scopes, source,
           IndexOf(Matched(source), b.path, IF scopes = {} THEN changed.occurrence ELSE 0))

RunCallback(e, b, changed, scopes) ==
    IF Concerns(b, changed) /\ ~Readable(e.rec)
    THEN HandlerError
    ELSE IF Concerns(b, changed)
         THEN AnswerIn(e, b, changed, scopes, ScopedRecord(e.rec, scopes))
         ELSE NoChange

RECURSIVE RunCallbacks(_, _, _, _)

\* apply_after_set_callbacks: applies a reply, then runs the next callback.
RunCallbacks(e, reply, bindings, changed) ==
    LET applied == ApplyReply(e, reply)
    IN  IF ~applied.ok \/ bindings = <<>>
        THEN applied
        ELSE RunCallbacks(applied,
                          RunCallback(applied, Head(bindings), changed,
                                      ScopeOf(changed.scopes, Head(bindings).path)),
                          Tail(bindings), changed)

-----------------------------------------------------------------------------
(* Opening a record.                                                       *)

EmptyTable == [key \in {} |-> 0]

HasSig(subs, sig) == \E i \in DOMAIN subs : subs[i].sig = sig

ValueOf(subs, sig) == subs[CHOOSE i \in DOMAIN subs : subs[i].sig = sig
                                /\ \A j \in 1..(i - 1) : subs[j].sig # sig].v

\* migrate.message_display_time: a message is a box or has a display time;
\* paths are those of the flags and the time.
MessageAfterLoad(subs, paths) ==
    LET flags == IF HasSig(subs, "DNAM") THEN ValueOf(subs, "DNAM") ELSE 0
        box == flags % 2 = 1
    IN  CASE box # HasSig(subs, "TNAM") -> <<>>
          [] box /\ HasSig(subs, "TNAM") -> <<Mutation("Remove", paths[2], 0, Default, 0)>>
          [] ~box /\ ~HasSig(subs, "TNAM") /\ HasSig(subs, "DNAM") ->
                <<Mutation("Set", paths[1], 0, flags + 1, 0)>>
          [] ~box /\ ~HasSig(subs, "TNAM") /\ ~HasSig(subs, "DNAM") ->
                <<Mutation("Insert", paths[1], 0, 1, 0)>>

\* apply_after_load_callbacks, before anything is decoded.
AfterLoad(subs) ==
    IF package.afterLoad = <<>>
    THEN subs
    ELSE FoldLeft(LAMBDA c, m : Apply(c, m, {}), Candidate(subs, EmptyTable, <<>>),
                  MessageAfterLoad(subs, package.afterLoad)).rec

NoAddress == [index |-> 0, structure |-> <<>>]

NoCall == [op |-> "open", outcome |-> "ok", path |-> None, scopes |-> {}]

\* new: the record is migrated, then decoded.
Init ==
    /\ package \in Packages
    /\ \E source \in package.sources : record = AfterLoad(source)
    /\ decoded = DecodedOf(record)
    /\ codecs = [i \in DOMAIN record |-> SelectedCodec(record, i)]
    /\ address = NoAddress
    /\ call = NoCall
    /\ calls = 0

-----------------------------------------------------------------------------
(* Edits.  Each builds a candidate.                                        *)

Unchanged(list) == Candidate(record, decoded, list)

\* apply_after_set_tree: the callbacks bound to the payload of a field.
PayloadReply(path, value, old, index) ==
    LET bindings == SelectSeq(package.callbacks, LAMBDA b : b.path = PayloadPath(path))
        replies == [k \in DOMAIN bindings |-> Invoke(bindings[k], value, old, record, index)]
    IN  IF old = value
        THEN NoChange
        ELSE [ok |-> \A k \in DOMAIN replies : replies[k].ok,
              mutations |-> FlattenSeq([k \in DOMAIN replies |-> replies[k].mutations])]

\* The changed field of the candidate is new: its mutations and its callbacks.
FinishChange(e, changed, reply) ==
    IF ~reply.ok \/ changed.path = None
    THEN Rejected(e)
    ELSE RunCallbacks(e, [reply EXCEPT !.mutations = LocatedAround(changed, @)], package.callbacks, changed)

Finish(e, match, index, reply) ==
    Require(match.ok, e, FinishChange(e, Changed(match, index), reply))

\* set; extra are the mutations a parsed value brings along.
Replaced(list, path, occurrence, value, extra) ==
    LET index == IndexOf(Matched(record), path, occurrence)
        reply == PayloadReply(path, value, Lookup(decoded, path, occurrence), index)
        e == Candidate([record EXCEPT ![index] = Field(@.sig, Encode(list, path, value, index))],
                       With(decoded, path, occurrence, value), list)
    IN  IF path = None \/ value = Unencodable \/ ~Readable(record) \/ index = 0
        THEN Rejected(Unchanged(list))
        ELSE Finish(e, Matched(e.rec), index, [reply EXCEPT !.mutations = @ \o extra])

\* set_parsed_value: the occurrence counts the decoded fields only.
Parsed(p) ==
    LET found == SelectSeq(DecodedOccurrences(decoded, p.path), LAMBDA o : o < Count(Matched(record), p.path))
    IN  IF p.occurrence < Len(found)
        THEN Replaced(codecs, p.path, found[p.occurrence + 1], p.value, p.mutations)
        ELSE Rejected(Unchanged(codecs))

\* A new field at index, which is that occurrence of its path.
Inserted(path, index, value, dec) ==
    LET subs == InsertAt(record, index, Field(LeafAt(path).sig, Encode(codecs, path, value, 0)))
    IN  Finish(Candidate(subs, dec, codecs), Matched(subs), index, PayloadReply(path, value, Missing, index))

\* insert
Appended(path, value) ==
    IF value = Unencodable \/ ~Readable(record)
    THEN Rejected(Unchanged(codecs))
    ELSE Inserted(path, InsertionIndex(Matched(record), path), value,
                  With(decoded, path, Count(Matched(record), path), value))

\* remove
Removed(path, occurrence) ==
    LET index == IndexOf(Matched(record), path, occurrence)
    IN  IF path = None \/ ~Readable(record) \/ index = 0
        THEN Rejected(Unchanged(codecs))
        ELSE RunCallbacks(Candidate(RemoveAt(record, index),
                                    RemoveOccurrence(decoded, path, occurrence), codecs),
                          NoChange, package.callbacks, Changed(Matched(record), index))

-----------------------------------------------------------------------------
(* Addresses.                                                              *)

\* What structure_hash covers.
Structure(subs) ==
    LET match == Matched(subs)
    IN  [i \in DOMAIN subs |-> [sig |-> subs[i].sig, path |-> match.path[i], scopes |-> match.scopes[i]]]

\* addressed_field finds the field.
AddressHolds(list) == Decodable(record, list) /\ Structure(record) = address.structure

AddressPath == address.structure[address.index].path

\* set_at for the whole subrecord
ReplacedAt(list, value) ==
    IF AddressHolds(list)
    THEN Replaced(list, AddressPath, OccurrenceAt(Matched(record), address.index), value, <<>>)
    ELSE Rejected(Unchanged(list))

\* set_inline_encoding_at gives this list of codecs, and keeps it if all can be read.
Recoded(codec) == IF address.index \in DOMAIN codecs THEN [codecs EXCEPT ![address.index] = codec] ELSE codecs

CanRecode(codec) ==
    /\ AddressHolds(codecs)
    /\ IsText(AddressPath)
    /\ address.index \in DOMAIN codecs
    /\ Decodable(record, Recoded(codec))

\* Mutant: only asks whether the schema can still be followed.
StaysReadable(index, path) ==
    Readable(InsertAt(record, index, Field(LeafAt(path).sig, Payload(Default, Binary))))

\* The other fields keep their paths if one is inserted at index.
KeepsAssignments(index, path) ==
    LET before == Matched(record)
        after == Matched(InsertAt(record, index, Field(LeafAt(path).sig, Payload(Default, Binary))))
    IN  /\ after.ok
        /\ \A i \in DOMAIN record : before.path[i] = after.path[IF i < index THEN i ELSE i + 1]

\* insert_at before a whole subrecord
InsertedBefore(index, path, value) ==
    IF AddressHolds(codecs) /\ path # None /\ value # Unencodable /\ KeepsAssignments(index, path)
    THEN Inserted(path, index, value, InsertOccurrence(decoded, path, OccurrenceAt(Matched(record), index), value))
    ELSE Rejected(Unchanged(codecs))

-----------------------------------------------------------------------------
(* The calls.                                                              *)

\* A call on a field in these groups; list are the codecs if it succeeds.
Finished(op, path, scopes, e, list) ==
    /\ calls' = calls + 1
    /\ call' = [op |-> op, outcome |-> IF e.ok THEN "ok" ELSE "error", path |-> path, scopes |-> scopes]
    /\ record' = IF e.ok THEN e.rec ELSE record
    /\ decoded' = IF e.ok THEN e.dec ELSE decoded
    /\ codecs' = IF e.ok THEN list ELSE codecs
    /\ UNCHANGED package

\* The codec list is too short for an index that the callbacks shifted: the
\* insertion panics after the record has been replaced.
Panicked(op, path, e) ==
    /\ calls' = calls + 1
    /\ call' = [op |-> op, outcome |-> "panic", path |-> path, scopes |-> {}]
    /\ record' = e.rec
    /\ decoded' = e.dec
    /\ UNCHANGED <<package, codecs>>

InsertedAt(op, path, index, e) ==
    IF e.ok /\ index > Len(codecs) + 1
    THEN Panicked(op, path, e)
    ELSE Finished(op, path, {}, e, IF e.ok THEN InsertAt(codecs, index, NoCodec) ELSE codecs)

CodecRemoved(index) == IF index \in DOMAIN codecs THEN RemoveAt(codecs, index) ELSE codecs

ScopesOf(index) == IF index \in DOMAIN record THEN Matched(record).scopes[index] ELSE {}

MayCall == calls < MaxCalls

Set ==
    /\ MayCall
    /\ \E path \in FieldPaths : \E occurrence \in 0..Count(Matched(record), path), value \in package.values[path] :
           /\ Finished("set", path, ScopesOf(IndexOf(Matched(record), path, occurrence)),
                       Replaced(codecs, path, occurrence, value, <<>>), codecs)
           /\ UNCHANGED address

SetParsedValue ==
    /\ MayCall
    /\ \E p \in package.parsed : Finished("set_parsed", p.path, {}, Parsed(p), codecs) /\ UNCHANGED address

InsertField ==
    /\ MayCall
    /\ \E path \in FieldPaths : \E value \in package.values[path] :
           /\ InsertedAt("insert", path, InsertionIndex(Matched(record), path), Appended(path, value))
           /\ UNCHANGED address

RemoveField ==
    /\ MayCall
    /\ \E path \in FieldPaths : \E occurrence \in 0..Count(Matched(record), path) :
           LET index == IndexOf(Matched(record), path, occurrence)
           IN  /\ Finished("remove", path, ScopesOf(index), Removed(path, occurrence), CodecRemoved(index))
               /\ UNCHANGED address

\* fields, and the address of one of them
Snapshot ==
    /\ MayCall
    /\ Decodable(record, codecs)
    /\ \E index \in DOMAIN record : address' = [index |-> index, structure |-> Structure(record)]
    /\ Finished("fields", None, {}, Unchanged(codecs), codecs)

SetAt ==
    /\ MayCall
    /\ address # NoAddress /\ AddressPath # None
    /\ \E value \in package.values[AddressPath] :
          Finished("set", AddressPath, ScopesOf(address.index), ReplacedAt(codecs, value), codecs)
    /\ UNCHANGED address

RemoveAddressed ==
    /\ MayCall
    /\ address # NoAddress
    /\ LET e == IF AddressHolds(codecs)
                THEN Removed(AddressPath, OccurrenceAt(Matched(record), address.index))
                ELSE Rejected(Unchanged(codecs))
       IN  Finished("remove", AddressPath, ScopesOf(address.index), e, CodecRemoved(address.index))
    /\ UNCHANGED address

InsertAddressed ==
    /\ MayCall
    /\ address # NoAddress /\ AddressPath # None
    /\ \E value \in package.values[AddressPath] :
          InsertedAt("insert_at", AddressPath, address.index,
                     InsertedBefore(address.index, AddressPath, value))
    /\ UNCHANGED address

SetInlineEncodingAt ==
    /\ MayCall
    /\ address # NoAddress
    /\ \E codec \in {Utf8, Legacy} :
          LET e == IF CanRecode(codec) THEN Unchanged(codecs) ELSE Rejected(Unchanged(codecs))
          IN  Finished("recode", AddressPath, {}, e, Recoded(codec))
    /\ UNCHANGED address

SetStringAtWithEncoding ==
    /\ MayCall
    /\ address # NoAddress /\ AddressPath # None
    /\ \E codec \in {Utf8, Legacy}, value \in package.values[AddressPath] :
          LET e == IF CanRecode(codec)
                   THEN ReplacedAt(Recoded(codec), value)
                   ELSE Rejected(Unchanged(codecs))
          IN  Finished("recode", AddressPath, ScopesOf(address.index), e, Recoded(codec))
    /\ UNCHANGED address

Next ==
    \/ Set
    \/ SetParsedValue
    \/ InsertField
    \/ RemoveField
    \/ Snapshot
    \/ SetAt
    \/ RemoveAddressed
    \/ InsertAddressed
    \/ SetInlineEncodingAt
    \/ SetStringAtWithEncoding

Spec == Init /\ [][Next]_vars

-----------------------------------------------------------------------------
(* Properties.                                                             *)

Succeeded(op) == call'.op \in op /\ call'.outcome = "ok" /\ calls' # calls

\* The signatures an edit of path may write: its own and those of the fields
\* the callbacks of path, and the mutations of a parsed value, are about.
MayWrite(path) ==
    LET bound == {b \in Range(package.callbacks) :
                    Within(path, b.path) \/ b.path = PayloadPath(path)}
        extra == UNION {Range(p.mutations) : p \in {q \in package.parsed : q.path = path}}
        paths == {path} \union {b.field : b \in bound} \union
                 (IF call'.op = "set_parsed" THEN {m.path : m \in extra} ELSE {})
    IN  {leaf.sig : leaf \in {l \in Range(Leaves(Root)) : \E p \in paths : Within(l.path, p) \/ Within(p, l.path)}}

\* RecordEditor is a lossless editor: an edit keeps every subrecord that is
\* neither its own field nor one its callbacks are about, byte by byte and in
\* order, whatever the indices those callbacks shift; unknown ones too.
LosslessEdit ==
    [][LET written == IF call'.path = None THEN {} ELSE MayWrite(call'.path)
           Kept(subs) == SelectSeq(subs, LAMBDA s : s.sig \notin written)
       IN  Kept(record') = Kept(record)]_vars

\* edit.sync_record_counts: after every successful edit the counter field is
\* there exactly if it has something to count, and has the right value.
CounterFollowsItems ==
    \A b \in {c \in Range(package.callbacks) : c.handler = "edit.sync_record_counts"} :
        call.op \in {"set", "set_parsed", "insert", "insert_at", "remove"} /\ call.outcome # "error" =>
            LET number == Cardinality({i \in DOMAIN record : record[i].sig = b.sig})
            IN  IF number = 0
                THEN Count(Matched(record), b.field) = 0
                ELSE Count(Matched(record), b.field) = 1 /\ record[IndexOf(Matched(record), b.field, 0)].v = number

Group(subs, scope) == ScopedRecord(subs, {scope})

\* apply_mutation_in_scope: setting a field of one group of a repeated field
\* changes no other group, the callbacks included.
GroupEditIsLocal ==
    [][Succeeded({"set"}) =>
        LET cleared == {b.field : b \in Range(package.callbacks)}
        IN  \A scope \in UNION Range(Matched(record).scopes) \ call'.scopes :
                scope.path \notin cleared => Group(record', scope) = Group(record, scope)]_vars

\* Every decoded value is that of the record.
Agrees(dec, subs) ==
    LET current == DecodedOf(subs)
    IN  \A key \in DOMAIN dec : key \in DOMAIN current /\ current[key] = dec[key]

\* The values a callback is given as old ones, and a parsed edit builds on,
\* stay those of the record through every mutation of a set or an addressed
\* insertion.
DecodedFollowsRecord ==
    [][Succeeded({"set", "set_parsed", "insert_at"}) /\ Agrees(decoded, record) =>
        Agrees(decoded', record')]_vars

=============================================================================
