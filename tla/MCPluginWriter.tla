--------------------------- MODULE MCPluginWriter ---------------------------
(***************************************************************************)
(* Three groups of one or two records, a plugin with at most one master:   *)
(* references forwards, backwards and to a group not added yet, a number   *)
(* that looks like a FormID, an override of the master, and more records   *)
(* than the light range holds when all groups are added.                   *)
(***************************************************************************)
EXTENDS PluginWriter, TLC

Word(kind, index, object, to) == [kind |-> kind, form |-> FormId(index, object), to |-> to]
Rec(id, index, object, words) == [id |-> id, form |-> FormId(index, object), words |-> words]

First  == <<Rec("a", 1, 1, <<Word("ref", 1, 2, "b"), Word("data", 1, 1, "none")>>),
            Rec("b", 1, 2, <<Word("ref", 0, 1, "x"), Word("odd", 1, 1, "a")>>)>>
Second == <<Rec("c", 1, 5, <<Word("ref", 1, 1, "a"), Word("ref", 1, 6, "d")>>)>>
Third  == <<Rec("x", 0, 1, <<Word("ref", 1, 5, "c")>>),
            Rec("d", 1, 6, <<Word("ref", 1, 6, "d")>>)>>

\* Skyrim SE, another game with light plugins, a game without.
MCContexts == {[light |-> TRUE, min |-> 1], [light |-> TRUE, min |-> 4],
               [light |-> FALSE, min |-> 4]}

MCGroups == {First, Second, Third}
=============================================================================
