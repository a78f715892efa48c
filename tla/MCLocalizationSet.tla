-------------------------- MODULE MCLocalizationSet --------------------------
(***************************************************************************)
(* One table by itself, and two sets over the files of two languages:      *)
(* English lacks a file, German is complete and has other texts.  A        *)
(* behaviour is about the one or the other.                                *)
(***************************************************************************)
EXTENDS LocalizationSet, StringTable

VARIABLE part

MCInstalled ==
    {[lang \in Languages |-> [k \in Kinds |->
        IF lang = "german" THEN [id \in {1} |-> <<102>>]
        ELSE IF k # "DLSTRINGS" THEN [id \in {1} |-> <<101>>] ELSE NoEntries]]}

MCTexts == {<<>>, <<101>>}

MCInit == Init /\ InitTable /\ part \in {"table", "sets"}

MCNext ==
    /\ UNCHANGED part
    /\ \/ part = "sets"  /\ Next /\ UNCHANGED tableVars
       \/ part = "table" /\ NextTable /\ UNCHANGED vars

MCSpec == MCInit /\ [][MCNext]_<<vars, tableVars, part>>
=============================================================================
