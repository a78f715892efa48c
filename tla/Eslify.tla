------------------------------- MODULE Eslify -------------------------------
(***************************************************************************)
(* The renaming behind PluginWriter::eslify (writer.rs): the records of a  *)
(* plugin move to FormIDs of the light range, and the words of every       *)
(* record that hold one of the old FormIDs follow.                         *)
(*                                                                         *)
(* A group is the sequence of its records in depth-first order.  A word of *)
(* subrecord data is a FormID; kind says what its author meant: a          *)
(* reference to the record `to` at an offset that is a multiple of four    *)
(* ("ref"), or at another offset ("odd"), or a number that is no reference *)
(* at all ("data").                                                        *)
(***************************************************************************)
EXTENDS FormIds, SequencesExt

AllRecords(gs) == FlattenSeq(gs)

\* The positions of the records that belong to the plugin itself.
Owned(gs, count) ==
    {i \in 1..Len(AllRecords(gs)) : AllRecords(gs)[i].form.file = count}

\* The remap table: the owned records get the light object IDs from min on, in
\* order, in slot 0.  A FormID that occurs twice keeps the later number.
RemapTable(gs, count, min) ==
    LET all   == AllRecords(gs)
        owned == Owned(gs, count)
    IN  [f \in {all[i].form : i \in owned} |->
           LET last == Max({i \in owned : all[i].form = f})
           IN  FormId(EslFile, min + Cardinality({i \in owned : i < last}))]

Renamed(table, f) == IF f \in DOMAIN table THEN table[f] ELSE f

\* Mutant: subrecord data is not scanned.
RemapNoWord(table, w) == w

\* remap_form_ids_in_bytes sees only aligned words, and sees all of them.
RemapWord(table, w) ==
    IF w.kind = "odd" THEN w ELSE [w EXCEPT !.form = Renamed(table, w.form)]

RemapRecord(table, r) ==
    [r EXCEPT !.form  = Renamed(table, r.form),
              !.words = [i \in 1..Len(r.words) |-> RemapWord(table, r.words[i])]]

ApplyRemap(table, gs) ==
    [g \in 1..Len(gs) |-> [i \in 1..Len(gs[g]) |-> RemapRecord(table, gs[g][i])]]

\* The groups after eslify, for a plugin with this many masters.
EslifiedGroups(gs, count, min) == ApplyRemap(RemapTable(gs, count, min), gs)
=============================================================================
