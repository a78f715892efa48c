-------------------------- MODULE MCPluginPatcher --------------------------
(***************************************************************************)
(* Two plugins: one with a group that nests two sibling groups next to a   *)
(* flat group, one with a FormID that occurs twice in one group.  And, in  *)
(* behaviours of their own, header records: every one of at most MaxFrames *)
(* frames over a small alphabet, patched by every combination of the       *)
(* optional fields, twice.                                                 *)
(***************************************************************************)
EXTENDS PluginPatcher, PatcherHeader, TLC

CONSTANT MaxFrames   \* bound: the longest header record

VARIABLE part

Form(file, object) == [file |-> file, object |-> object]

MCFormIds == {Form(0, 1), Form(1, 2048), Form(1, 2049), Form(1, 3000)}

\* top: g1 [g2 [r1 r2] g3 [r3 r5]]  g4 [r4]; r1 and r4 share a FormID.
Nested ==
    [top |-> <<"g1", "g4">>,
     kids |-> ("g1" :> <<"g2", "g3">> @@ "g2" :> <<"r1", "r2">>
               @@ "g3" :> <<"r3", "r5">> @@ "g4" :> <<"r4">>),
     form |-> ("r1" :> Form(0, 1) @@ "r2" :> Form(1, 2048) @@ "r3" :> Form(1, 2049)
               @@ "r4" :> Form(0, 1) @@ "r5" :> Form(1, 2048)),
     start |-> ("g1" :> 1 @@ "g2" :> 2 @@ "r1" :> 3 @@ "r2" :> 4 @@ "g3" :> 5
                @@ "r3" :> 6 @@ "r5" :> 7 @@ "g4" :> 8 @@ "r4" :> 9),
     end |-> ("g1" :> 8 @@ "g2" :> 5 @@ "r1" :> 4 @@ "r2" :> 5 @@ "g3" :> 8
              @@ "r3" :> 7 @@ "r5" :> 8 @@ "g4" :> 10 @@ "r4" :> 10),
     length |-> 10, count |-> 0, next |-> 2, masters |-> 1]

\* top: g1 [r1 g2 [r2]]  g3 [r3 r4 ], r3 and r4 have the same FormID.
Mixed ==
    [top |-> <<"g1", "g3">>,
     kids |-> ("g1" :> <<"r1", "g2">> @@ "g2" :> <<"r2">> @@ "g3" :> <<"r3", "r4">>),
     form |-> ("r1" :> Form(0, 1) @@ "r2" :> Form(1, 2048)
               @@ "r3" :> Form(1, 2049) @@ "r4" :> Form(1, 2049)),
     start |-> ("g1" :> 1 @@ "r1" :> 2 @@ "g2" :> 3 @@ "r2" :> 4
                @@ "g3" :> 5 @@ "r3" :> 6 @@ "r4" :> 7),
     end |-> ("g1" :> 5 @@ "r1" :> 3 @@ "g2" :> 5 @@ "r2" :> 5
              @@ "g3" :> 8 @@ "r3" :> 7 @@ "r4" :> 8),
     length |-> 8, count |-> 7, next |-> 5, masters |-> 1]

MCPlugins == {Nested, Mixed}

MCReplacements == {[name |-> "long", len |-> 3]}

-----------------------------------------------------------------------------
MCFrames ==
    {Frame("HEDR", v) : v \in {"stale", "short"}}
      \union {Frame("MAST", "m1"), Frame("DATA", "size"),
              Frame("SNAM", "old"), Frame("ONAM", "x")}

MCHeaders == UNION {[1..n -> MCFrames] : n \in 0..MaxFrames}
               \union {<<Frame("HEDR", "current"), Frame("MAST", "m1"),
                         Frame("DATA", "zero"), Frame("SNAM", "new")>>}

MCPatches ==
    [masters : {None, <<>>, <<"m1", "m2">>}, description : {None, "new"},
     flags_set : {{}, {"COMPRESSED"}}, flags_clear : {{}, {"COMPRESSED"}}]

-----------------------------------------------------------------------------
\* The part that does not move starts in one state.
MCInit ==
    /\ Init /\ InitHeader
    /\ \/ part = "stream" /\ source = <<>> /\ ~zlib
                           /\ patch = [masters |-> None, description |-> None,
                                       flags_set |-> {}, flags_clear |-> {}]
       \/ part = "header" /\ patcher.plugin = Nested

MCNext ==
    /\ UNCHANGED part
    /\ \/ part = "stream" /\ Next /\ UNCHANGED headerVars
       \/ part = "header" /\ NextHeader /\ UNCHANGED vars

MCSpec == MCInit /\ [][MCNext]_<<vars, headerVars, part>>
=============================================================================
