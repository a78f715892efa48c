----------------------------- MODULE Migration -----------------------------
(***************************************************************************)
(* What the normalisations of a freshly loaded record have in common: the  *)
(* invocation a handler is given, the outputs it may return (handler.rs),  *)
(* and how the record editor applies an output before any value of the     *)
(* record has been decoded (editor.rs).                                    *)
(*                                                                         *)
(* A record is [sig, flags, version, subs], a subrecord is [sig, data].    *)
(* data is a record of the fields the handlers read, with the payload's    *)
(* size in bytes; a word of flags is the set of its masks.  An invocation  *)
(* is [game, record, target, path, configured, facts]: target is the index *)
(* of the subrecord it is about, 0 for the whole record; configured says   *)
(* that the package names the fields the handler expects; facts are the    *)
(* other inputs, such as the answers of the form link resolver.            *)
(***************************************************************************)
EXTENDS Grammar, FiniteSets

Fallout3Nv == {"Fallout3", "FalloutNv"}
Skyrim == {"SkyrimLe", "SkyrimSe", "SkyrimVr"}
Fallout4s == {"Fallout4", "Fallout4Vr"}
Modern == Skyrim \union Fallout4s \union {"Fallout76"}
Games == Modern \union Fallout3Nv \union {"Oblivion", "Starfield"}

Deleted == "deleted"
Compressed == "compressed"

\* A subrecord.
Sub(sig, data) == [sig |-> sig, data |-> data]

Zeros(size) == [size |-> size, zero |-> TRUE]

-----------------------------------------------------------------------------
(* What a handler sees.                                                    *)

Subs(i) == i.record.subs

Target(i) == Subs(i)[i.target]

Has(i, sig) == \E sub \in Range(Subs(i)) : sub.sig = sig

\* The payload of the first subrecord of that signature.
DataOf(i, sig) == Subs(i)[SelectInSeq(Subs(i), LAMBDA sub : sub.sig = sig)].data

IsDeleted(i) == Deleted \in i.record.flags

\* Deleted, or without any subrecord.
IsEmpty(i) == IsDeleted(i) \/ Subs(i) = <<>>

OnRecord(i, games, sigs) == i.game \in games /\ i.record.sig \in sigs /\ i.target = 0

OnField(i, games, sig) == i.game \in games /\ i.target # 0 /\ Target(i).sig = sig

\* The path of a field of the record.
Path(i, name) == <<i.record.sig, name>>

-----------------------------------------------------------------------------
(* HandlerOutput and HandlerMutation.                                      *)

Nothing == [kind |-> "none"]
Failure == [kind |-> "error"]

SubrecordPayload(data) == [kind |-> "payload", data |-> data]

\* No mutations are no output.
Mutations(list) == IF list = <<>> THEN Nothing ELSE [kind |-> "mutations", list |-> list]

SetRecordFlags(flags) == [op |-> "SetRecordFlags", flags |-> flags]
Set(path, occurrence, data) == [op |-> "Set", path |-> path, occurrence |-> occurrence, data |-> data]
Insert(path, data) == [op |-> "Insert", path |-> path, data |-> data]
ReplacePayload(path, occurrence, data) ==
    [op |-> "ReplacePayload", path |-> path, occurrence |-> occurrence, data |-> data]
InsertPayload(path, data) == [op |-> "InsertPayload", path |-> path, data |-> data]
RemoveField(path, occurrence) == [op |-> "Remove", path |-> path, occurrence |-> occurrence]
RemoveFirstBySignature(sig) == [op |-> "RemoveFirstBySignature", sig |-> sig]

\* The mutations of one condition of a handler.
If(condition, list) == IF condition THEN list ELSE <<>>

RemoveFirstIf(condition, i, sig) == If(condition /\ Has(i, sig), <<RemoveFirstBySignature(sig)>>)

-----------------------------------------------------------------------------
(* apply_mutations_with_values, for a record none of whose values has been *)
(* decoded: a candidate is [record, decoded, ok], decoded says whether a   *)
(* mutation has added a value since.                                       *)

AssignedTo(root, subs, path) ==
    LET match == Interpret(root, subs)
    IN  SelectSeq([index \in DOMAIN subs |-> index], LAMBDA index : match.path[index] = path)

\* Mutant: a new field is put behind everything.
AppendedAt(root, subs, path) == Len(subs) + 1

\* The place among subrecords that are assigned to these paths: behind those of
\* the same path, before the first of a later one.
PlaceAmong(leaves, assigned, path) ==
    LET Rank(p) == CHOOSE r \in DOMAIN leaves : leaves[r].path = p
        later == {k \in DOMAIN assigned : assigned[k] # None /\ Rank(assigned[k]) > Rank(path)}
        same == {k \in DOMAIN assigned : assigned[k] = path /\ \A l \in later : k < l}
    IN  IF same # {} THEN Max(same) + 1 ELSE IF later # {} THEN Min(later) ELSE Len(assigned) + 1

\* schema_insertion_index
InsertionIndex(root, subs, path) == PlaceAmong(Leaves(root), Interpret(root, subs).path, path)

SignatureOf(root, path) == (CHOOSE leaf \in Range(Leaves(root)) : leaf.path = path).sig

Rejected(e) == [e EXCEPT !.ok = FALSE]

\* The occurrence of a path that the mutation names, 0 if there is none.
AtOccurrence(found, m) == IF m.occurrence < Len(found) THEN found[m.occurrence + 1] ELSE 0

PlaceField(e, root, m) ==
    [e EXCEPT !.record.subs =
        InsertAt(@, InsertionIndex(root, @, m.path), Sub(SignatureOf(root, m.path), m.data))]

WithoutFirst(subs, sig) ==
    LET first == SelectInSeq(subs, LAMBDA sub : sub.sig = sig)
    IN  IF first = 0 THEN subs ELSE RemoveAt(subs, first)

\* A mutation, of the subrecord k if it is about one that is there.
ApplyAt(e, root, m, k) ==
    CASE m.op = "SetRecordFlags" -> [e EXCEPT !.record.flags = m.flags]
      [] m.op \in {"Set", "ReplacePayload", "Remove"} /\ k = 0 -> Rejected(e)
      [] m.op = "Set" /\ k # 0 -> [e EXCEPT !.record.subs[k].data = m.data, !.decoded = TRUE]
      [] m.op = "ReplacePayload" /\ k # 0 -> [e EXCEPT !.record.subs[k].data = m.data]
      [] m.op = "Remove" /\ k # 0 -> [e EXCEPT !.record.subs = RemoveAt(@, k)]
      [] m.op \in {"InsertPayload", "RemoveFirstBySignature"} /\ e.decoded -> Rejected(e)
      [] m.op = "Insert" \/ (m.op = "InsertPayload" /\ ~e.decoded) ->
            [PlaceField(e, root, m) EXCEPT !.decoded = @ \/ m.op = "Insert"]
      [] m.op = "RemoveFirstBySignature" /\ ~e.decoded -> [e EXCEPT !.record.subs = WithoutFirst(@, m.sig)]

ApplyMutation(e, root, m) ==
    ApplyAt(e, root, m, AtOccurrence(AssignedTo(root, e.record.subs, m.path), m))

ApplyMutations(root, record, list) ==
    LET Step(e, m) == IF e.ok THEN ApplyMutation(e, root, m) ELSE e
    IN  FoldLeft(Step, [record |-> record, decoded |-> FALSE, ok |-> TRUE], list)

\* A record one of whose mutations was refused is left alone.
AllOrNothing(record, e) == [record |-> IF e.ok THEN e.record ELSE record, ok |-> e.ok]

\* apply_after_load_output: the record and whether the editor can be opened.
ApplyOutput(root, record, target, output) ==
    CASE output.kind = "none" -> [record |-> record, ok |-> TRUE]
      [] output.kind = "error" -> [record |-> record, ok |-> FALSE]
      [] output.kind = "payload" ->
            IF target = 0
            THEN [record |-> record, ok |-> FALSE]
            ELSE [record |-> [record EXCEPT !.subs[target].data = output.data], ok |-> TRUE]
      [] output.kind = "mutations" -> AllOrNothing(record, ApplyMutations(root, record, output.list))
=============================================================================
