--------------------------- MODULE MCRecordEditor ---------------------------
(***************************************************************************)
(* Small schemas for RecordEditor, cut from those of the records named:    *)
(* every kind of node, callback and text that RecordEditor distinguishes,  *)
(* with source records that hold unknown subrecords and both text codecs.  *)
(***************************************************************************)
EXTENDS RecordValidation

Bin(sig, value) == Field(sig, Payload(value, Binary))

Text(sig, value, codec) == Field(sig, Payload(value, codec))

Binding(path, handler, field, sig, values) ==
    [path |-> path, handler |-> handler, field |-> field, sig |-> sig, values |-> values]

NoValues == [path \in {} |-> {}]

-----------------------------------------------------------------------------
(* A package: inputs of a type and perhaps a value, with a counter.        *)

Count_ == <<"PACK", "count">>
Input == <<"PACK", "inputs", "input">>
Type == Input \o <<"type">>
Value == Input \o <<"value">>
Name == <<"PACK", "name">>

Pack ==
    [root |-> Sequence(<<"PACK">>, <<
        Subrecord(Count_, "NCNT", FALSE),
        Repeat(<<"PACK", "inputs">>, 0, -1, Sequence(Input, <<
            Subrecord(Type, "ANAM", TRUE),
            Subrecord(Value, "CNAM", FALSE)>>)),
        Subrecord(Name, "FULL", FALSE)>>),
     inner |-> NoValues,
     allowed |-> NoValues,
     validators |-> <<>>,
     arrays |-> {},
     texts |-> {Name},
     afterLoad |-> <<>>,
     callbacks |-> <<
        Binding(Type, "edit.package_input_type", Value, "CNAM", {1, 2}),
        Binding(<<"PACK">>, "edit.sync_record_counts", Count_, "ANAM", {})>>,
     sources |-> {
        <<Bin("ANAM", 1), Bin("CNAM", 7), Bin("ZZZZ", 9), Bin("ANAM", 0), Text("FULL", 5, Utf8)>>,
        <<Bin("NCNT", 2), Bin("ANAM", 0), Bin("ANAM", 2), Bin("CNAM", 7), Text("FULL", 5, Legacy)>>},
     values |-> (Count_ :> {5} @@ Type :> {0, 1, 2} @@ Value :> {Unencodable, 3} @@ Name :> {6}),
     parsed |-> {
        [path |-> Name, occurrence |-> 0, value |-> 6, mutations |-> <<
            Mutation("RemoveContainerOccurrence", Input, 1, Default, 0)>>],
        [path |-> Value, occurrence |-> 0, value |-> 4, mutations |-> <<
            Mutation("SetIfEqual", PayloadPath(Type), 0, 2, 1),
            Mutation("ReplacePayload", Type, 0, 8, 0)>>],
        [path |-> Name, occurrence |-> 0, value |-> 8, mutations |-> <<
            Mutation("RemoveContainer", Input, 0, Default, 0),
            Mutation("Insert", Type, 0, 2, 0),
            Mutation("Set", Name, 0, 5, 0)>>]}]

-----------------------------------------------------------------------------
(* A message: a box or a display time.                                     *)

Waits == <<"MESG", "time", "waits">>

Wait(kind, length) ==
    Struct(<<Named(Waits \o <<"kind">>, Scalar(kind)), Named(Waits \o <<"length">>, Scalar(length))>>)

Time(waits) == Struct(<<Named(Waits, Array(waits))>>)

Mesg ==
    [root |-> Sequence(<<"MESG">>, <<
        Subrecord(<<"MESG", "flags">>, "DNAM", FALSE),
        Subrecord(<<"MESG", "time">>, "TNAM", FALSE),
        Subrecord(<<"MESG", "name">>, "FULL", FALSE)>>),
     inner |-> (<<"MESG", "time">> :>
        (2 :> Time(<<Wait(1, 4), Wait(7, 4)>>) @@ 3 :> Time(<<Wait(1, 5)>>) @@ 4 :> Time(<<Wait(0, 4), Wait(1, 6)>>))),
     allowed |-> (Waits \o <<"kind">> :> {1}),
     validators |-> <<
        [path |-> Waits \o <<"length">>, answers |-> {
            [value |-> Scalar(5), output |-> "warning"], [value |-> Scalar(6), output |-> "text"]}],
        [path |-> <<"MESG", "flags">>, answers |-> {
            [value |-> Scalar(0), output |-> "empty"], [value |-> Scalar(3), output |-> "failure"]}]>>,
     arrays |-> {Waits},
     texts |-> {<<"MESG", "name">>},
     afterLoad |-> <<<<"MESG", "flags">>, <<"MESG", "time">>>>,
     callbacks |-> <<
        Binding(PayloadPath(<<"MESG", "flags">>), "edit.message_display_time",
                <<"MESG", "time">>, "TNAM", {})>>,
     sources |-> {
        <<Bin("ZZZZ", 9), Bin("DNAM", 1), Bin("TNAM", 3), Text("FULL", 5, Utf8)>>,
        <<Bin("DNAM", 0), Bin("TNAM", 3), Text("FULL", 5, Utf8)>>,
        <<Bin("DNAM", 0), Text("FULL", 5, Legacy)>>,
        <<Text("FULL", 5, Utf8)>>},
     values |-> (<<"MESG", "flags">> :> {0, 1, 3} @@ <<"MESG", "time">> :> {2, 4} @@
                 <<"MESG", "name">> :> {6}),
     parsed |-> {}]

-----------------------------------------------------------------------------
(* A form list in any order: odd names are those of ordered lists.         *)

Flst ==
    [root |-> Unordered(<<"FLST">>, <<
        Subrecord(<<"FLST", "id">>, "EDID", FALSE),
        Repeat(<<"FLST", "forms">>, 0, -1, Subrecord(<<"FLST", "forms", "form">>, "LNAM", FALSE)),
        Subrecord(<<"FLST", "name">>, "FULL", FALSE)>>),
     inner |-> NoValues,
     allowed |-> NoValues,
     validators |-> <<>>,
     arrays |-> {},
     texts |-> {<<"FLST", "name">>},
     afterLoad |-> <<>>,
     callbacks |-> <<
        Binding(<<"FLST", "id">>, "edit.form_list_editor_id", <<"FLST", "forms", "form">>, "LNAM", {1})>>,
     sources |-> {
        <<Text("FULL", 5, Utf8), Bin("EDID", 0), Bin("LNAM", 1), Bin("ZZZZ", 9), Bin("LNAM", 2)>>,
        <<Bin("EDID", 1), Bin("LNAM", 1), Text("FULL", 5, Utf8)>>},
     values |-> (<<"FLST", "id">> :> {0, 1} @@ <<"FLST", "forms", "form">> :> {3} @@
                 <<"FLST", "name">> :> {6}),
     parsed |-> {}]

-----------------------------------------------------------------------------
(* Perk effects: the type of an effect selects the field that follows it.  *)

Effect == <<"PERK", "effects", "effect">>

Perk ==
    [root |-> Sequence(<<"PERK">>, <<
        Repeat(<<"PERK", "effects">>, 1, 2, Sequence(Effect, <<
            Subrecord(Effect \o <<"header">>, "PRKE", TRUE),
            SelectedChoice(Effect \o <<"data">>, Effect \o <<"header">>, <<
                Subrecord(Effect \o <<"data", "quest">>, "DATQ", FALSE),
                Choice(Effect \o <<"data", "other">>, <<
                    Subrecord(Effect \o <<"data", "other", "spell">>, "DATS", FALSE),
                    Subrecord(Effect \o <<"data", "other", "entry">>, "DATE", FALSE)>>)>>)>>))>>),
     inner |-> NoValues,
     allowed |-> NoValues,
     validators |-> <<>>,
     arrays |-> {},
     texts |-> {},
     afterLoad |-> <<>>,
     callbacks |-> <<>>,
     sources |-> {
        <<Bin("PRKE", 1), Bin("DATE", 4), Bin("PRKE", 0), Bin("DATQ", 5)>>,
        <<Bin("PRKE", 0), Bin("PRKE", 1), Bin("DATS", 4), Bin("DATE", 6)>>},
     values |-> (Effect \o <<"header">> :> {} @@ Effect \o <<"data", "quest">> :> {1} @@
                 Effect \o <<"data", "other", "spell">> :> {2} @@
                 Effect \o <<"data", "other", "entry">> :> {3}),
     parsed |-> {
        [path |-> Effect \o <<"data", "quest">>, occurrence |-> 0, value |-> 1, mutations |-> <<
            Mutation("SynchronizePresence", Effect \o <<"data", "quest">>, 0, Default, 0),
            Mutation("InsertDefault", Effect \o <<"data", "quest">>, 0, Default, 0),
            Mutation("ResetToDefault", Effect \o <<"data", "quest">>, 0, Default, 0)>>]}]

MCPackages == {Pack, Mesg, Flst, Perk}
=============================================================================
