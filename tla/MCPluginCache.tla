--------------------------- MODULE MCPluginCache ---------------------------
(***************************************************************************)
(* Three names, one of them in two spellings, and plugins that disagree    *)
(* about types and EditorIDs: a base, a patch that overrides it, a light   *)
(* plugin that is addressed through its slot, one that overrides records   *)
(* of two light slots, and two that were moved to the light range by       *)
(* eslify.  Three plugins fill the regular indices and the slots, the      *)
(* fourth is rejected.                                                     *)
(***************************************************************************)
EXTENDS LightLoad, TLC

Record(file, object, sig, edid) ==
    [raw |-> FormId(file, object), sig |-> sig, edid |-> edid]

MCLower == "Base.esm" :> "base.esm" @@ "base.esm" :> "base.esm"
               @@ "mod.esp" :> "mod.esp" @@ "one.esl" :> "one.esl"
MCNames == DOMAIN MCLower

Base == [kind |-> "Master", masters |-> <<>>,
         records |-> <<Record(0, 1, "NPC_", "a"), Record(0, 2, "WEAP", "b"),
                       Record(1, 2, "WEAP", "a")>>]

\* Overrides both records of the base, one of them under a new type, and
\* moves the EditorIDs around; the null record is skipped.
Patch == [kind |-> "Plugin", masters |-> <<"Base.esm">>,
          records |-> <<Record(0, 1, "WEAP", "b"), Record(0, 0, "NPC_", "c"),
                        Record(1, 1, "NPC_", "a")>>]

Light == [kind |-> "Light", masters |-> <<"Base.esm">>,
          records |-> <<Record(EslFile, 1, "NPC_", "c"),
                        Record(0, 2, "NPC_", NoEditorId)>>]

\* Slot 0 and slot 1 of the light plugins.
LightPatch == [kind |-> "Light", masters |-> <<>>,
               records |-> <<Record(EslFile, 1, "WEAP", "c"),
                             Record(EslFile, 5, "NPC_", "a")>>]

MCPlugins == {Base, Patch, Light, LightPatch}

Draft(index, object, sig, edid) ==
    [form |-> FormId(index, object), sig |-> sig, edid |-> edid, words |-> <<>>]

MCDrafts ==
    {[name |-> "one.esl", masters |-> <<"Base.esm">>, min |-> 1,
      group |-> <<Draft(0, 1, "NPC_", "a"), Draft(1, 2, "WEAP", "b")>>],
     [name |-> "mod.esp", masters |-> <<"Base.esm">>, min |-> 2,
      group |-> <<Draft(1, 5, "WEAP", "c"), Draft(1, 6, "NPC_", NoEditorId)>>]}
=============================================================================
