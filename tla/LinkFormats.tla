---------------------------- MODULE LinkFormats ----------------------------
(***************************************************************************)
(* The formatters, edit parsers and link resolvers of handler.rs for       *)
(* numbers that stand for something in another record: quest stages,       *)
(* objectives and aliases, script variables, stars, legendary mods, NPC    *)
(* appearances, combined meshes, object mod properties, colours.           *)
(*                                                                         *)
(* c is what the invocation gives: the game, what the package configures,  *)
(* the siblings it is shown, and what the application's resolver knows.    *)
(* c.link is the record a sibling refers to, NoLink without a resolver,    *)
(* scope or target: [isQuest, stages, objectives, aliases, script], lists  *)
(* of <<index, label>>.                                                    *)
(*                                                                         *)
(* Texts as the formatters of handler.rs print them and the edit parsers   *)
(* read them.  A text is a sequence of tokens: what was printed, not its   *)
(* characters.                                                             *)
(*   <<"dec", n>>   a decimal number     <<"hex", n>>  hexadecimal digits  *)
(*   <<"name", w>>  a word               <<"warn", w>> a warning           *)
(* An edit parser answers [ok |-> TRUE, value |-> v] or Refused.           *)
(***************************************************************************)
EXTENDS Integers, Sequences, SequencesExt

CONSTANT IntMax   \* the largest number of four signed bytes

ASSUME IntMaxAssumption == IntMax \in Nat \ {0}

Empty == <<>>
Decimal(n) == <<<<"dec", n>>>>
Hex(n) == <<<<"hex", n>>>>
Name(word) == <<<<"name", word>>>>
Warning(word) == <<<<"warn", word>>>>

Refused == [ok |-> FALSE]
Parsed(v) == [ok |-> TRUE, value |-> v]

\* What a parser that falls back to a value instead of refusing answers.
OrElse(result, v) == IF result.ok THEN result ELSE Parsed(v)

Shown == {"Display", "Summary", "EditValue"}

\* The text of a number nothing is known of: only what is displayed carries
\* the warning, which is also the answer to a validation.
Unresolved(phase, n, warning) ==
    CASE phase = "Display" -> Decimal(n) \o Warning(warning)
      [] phase \in {"Summary", "EditValue"} -> Decimal(n)
      [] phase = "Validation" -> Warning(warning)
      [] OTHER -> Empty

Label(phase, text) == IF phase \in Shown THEN text ELSE Empty

\* A number filled up to three characters, and a label: the zeros go before
\* the sign of a short negative number.
IndexedLabel(n, label) ==
    <<IF n \in -9 .. -1 THEN <<"dash", n>> ELSE <<"dec", n>>>> \o label

-----------------------------------------------------------------------------
(* Parsers.                                                                *)

\* The number a text begins with.
SignedPrefix(text) ==
    IF text # Empty /\ text[1][1] = "dec" THEN Parsed(text[1][2]) ELSE Refused

UnsignedPrefix(text) ==
    IF text # Empty /\ text[1][1] = "dec" /\ text[1][2] >= 0 THEN Parsed(text[1][2]) ELSE Refused

Within(result, low, high) == IF result.ok /\ result.value \in low .. high THEN result ELSE Refused

I32(result) == Within(result, -IntMax - 1, IntMax)
U32(result) == Within(result, 0, 2 * IntMax + 1)

\* The digits of a hexadecimal number read as decimal ones.
HexAsDecimal(n) ==
    IF n < 0 \/ n >= 256 \/ n % 16 > 9 \/ n \div 16 > 9 THEN Refused ELSE Parsed(10 * (n \div 16) + (n % 16))

\* A whole text that is one number, decimal or hexadecimal after a dollar sign.
DelphiInteger(text) ==
    IF Len(text) = 1 /\ text[1][1] = "dec" THEN Parsed(text[1][2])
    ELSE IF Len(text) = 1 /\ text[1][1] = "hex" THEN HexAsDecimal(text[1][2])
    ELSE IF Len(text) = 2 /\ text[1] = <<"name", "$">> /\ text[2][1] = "hex" THEN Parsed(text[2][2])
    ELSE Refused

\* The place of the first entry of a lookup table <<value, name>> with the
\* name, of the first with the name in whatever case, and of the first with
\* the value; 0 for none.  Name(word) and Capitals(word) differ in case only.
Capitals(word) == <<<<"NAME", word>>>>
AnyCase(text) == [k \in DOMAIN text |-> IF text[k][1] = "NAME" THEN <<"name", text[k][2]>> ELSE text[k]]
SameName(a, b) == AnyCase(a) = AnyCase(b)

Named(table, text) == SelectInSeq(table, LAMBDA e : e[2] = text)
NamedInAnyCase(table, text) == SelectInSeq(table, LAMBDA e : SameName(e[2], text))
Valued(table, n) == SelectInSeq(table, LAMBDA e : e[1] = n)

-----------------------------------------------------------------------------
NoLink == [none |-> TRUE]

Skyrims == {"SkyrimLe", "SkyrimSe", "SkyrimVr"}
PlayerGames == {"Fallout4", "Fallout4Vr", "Fallout76", "Starfield"}
FalloutGames == {"Fallout3", "FalloutNv", "Fallout4", "Fallout4Vr", "Fallout76"}

SortKey(n) == Hex(n)

\* The first entry with the index, in the lists in their order.
Entries(lists, n) == SelectSeq(FlattenSeq(lists), LAMBDA e : e[1] = n)

\* The three ways to miss an entry of a quest differ in their warning only.
Listed(phase, n, link, lists) ==
    IF link = NoLink THEN Unresolved(phase, n, "could not resolve")
    ELSE IF ~link.isQuest THEN Unresolved(phase, n, "not a quest")
    ELSE LET found == Entries(lists, n)
         IN  IF found = <<>> THEN Unresolved(phase, n, "not found")
             ELSE Label(phase, IndexedLabel(n, found[1][2]))

NoneText(phase, n) ==
    CASE phase \in {"Display", "Summary"} -> Decimal(n) \o Name("NONE")
      [] phase = "EditValue" -> Decimal(n)
      [] OTHER -> Empty

Stages(link) == IF link = NoLink THEN <<>> ELSE link.stages
Objectives(link) == IF link = NoLink THEN <<>> ELSE link.objectives
Aliases(link) == IF link = NoLink THEN <<>> ELSE link.aliases

-----------------------------------------------------------------------------
(* Stages, objectives, variables.                                          *)

CtdaQuestStage(phase, n, c) ==
    IF phase = "SortKey" THEN SortKey(n)
    ELSE IF n < 0 THEN NoneText(phase, n)
    ELSE Listed(phase, n, c.link, <<Stages(c.link)>>)

LinkedQuestStage(phase, n, c) ==
    IF phase = "SortKey" THEN SortKey(n)
    ELSE IF c.allowNone /\ n < 0 THEN NoneText(phase, n)
    ELSE Listed(phase, n, c.link,
                <<Stages(c.link)>> \o IF c.objectives THEN <<Objectives(c.link)>> ELSE <<>>)

\* Where the quest of a condition comes from: a reference, 0 for none.
ConditionQuest(c) ==
    CASE c.questSource = "none" -> 0
      [] c.questSource = "record_form_id" -> c.own
      [] c.questSource = "parent" -> c.parent
      [] OTHER -> IF c.direct # 0 THEN c.direct ELSE IF c.parentFallback THEN c.parent ELSE 0

\* c.quests are the quests the resolver knows.
QuestOf(c, form) == IF form \in DOMAIN c.quests THEN c.quests[form] ELSE NoLink

CtdaContextQuestStage(phase, n, c) ==
    IF phase = "SortKey" THEN SortKey(n)
    ELSE LET quest == QuestOf(c, ConditionQuest(c))
         IN  Listed(phase, n, quest, <<Stages(quest)>>)

CtdaQuestObjective(phase, n, c) ==
    IF phase = "SortKey" THEN SortKey(n) ELSE Listed(phase, n, c.link, <<Objectives(c.link)>>)

\* A variable is shown by its name alone.  link.script is "missing",
\* "invalid", or "resolved" with the variables.
CtdaVariableName(phase, n, c) ==
    IF phase = "SortKey" THEN SortKey(n)
    ELSE IF c.link = NoLink THEN Unresolved(phase, n, "could not resolve")
    ELSE IF c.link.script # "resolved" THEN Unresolved(phase, n, c.link.script)
    ELSE LET k == Valued(c.link.variables, n)
         IN  IF k = 0 THEN Unresolved(phase, n, "not found") ELSE Label(phase, c.link.variables[k][2])

ParseStage(text) == I32(SignedPrefix(text))
ParseObjective(text) == U32(UnsignedPrefix(text))

\* Any number but zero is the index itself.
ParseVariableName(text, c) ==
    LET number == DelphiInteger(text)
    IN  IF number.ok /\ number.value # 0 THEN number
        ELSE IF c.link = NoLink THEN Refused
        ELSE IF c.link.script # "resolved" THEN Refused
        ELSE LET k == NamedInAnyCase(c.link.variables, text)
             IN  IF k = 0 THEN Refused ELSE Parsed(c.link.variables[k][1])

\* A condition that has no quest of its own shows the one of its context.
OverlayCtdaQuest(phase, form, c) ==
    LET quest == ConditionQuest(c)
    IN  IF form # 0 \/ quest = 0 THEN Empty
        ELSE CASE phase \in {"Display", "Summary"} -> IF QuestOf(c, quest) = NoLink THEN Hex(quest) ELSE Name("quest")
               [] phase = "Validation" -> IF QuestOf(c, quest) = NoLink THEN Warning("could not resolve") ELSE Empty
               [] phase = "SortKey" -> SortKey(quest)
               [] OTHER -> Empty

\* The text of a condition's string parameter is a sibling; the number that
\* stands in its place is written as zero.
CtdaStringParameter(phase, n, c) ==
    IF phase \in Shown \cup {"SortKey", "NativeValue"} THEN c.string ELSE Empty

ParseStringParameter(text) == Parsed(0)

-----------------------------------------------------------------------------
(* Aliases.                                                                *)

QuestAliasSentinels(game) ==
    CASE game \in FalloutGames -> <<<<-1, Name("None")>>, <<-2, Name("Player")>>>>
      [] game = "Starfield" ->
             <<<<-1, Name("None")>>, <<-2, Name("Player")>>, <<-3, Name("Non-Actor Track")>>,
               <<-4, Name("Play Audio At Player")>>, <<-5, Name("Dialogue For Scene")>>>>
      [] OTHER -> <<<<-1, Name("None")>>>>

QuestAlias(phase, n, c) ==
    LET sentinel == Valued(QuestAliasSentinels(c.game), n)
    IN  IF phase = "SortKey" THEN SortKey(n)
        ELSE IF sentinel # 0 THEN Label(phase, QuestAliasSentinels(c.game)[sentinel][2])
        ELSE Listed(phase, n, c.link, <<Aliases(c.link)>>)

ParseQuestAlias(text, c) ==
    LET k == Named(QuestAliasSentinels(c.game), text)
    IN  IF k # 0 THEN Parsed(QuestAliasSentinels(c.game)[k][1]) ELSE OrElse(I32(SignedPrefix(text)), -1)

IsVmadSentinel(n, game) == n = -1 \/ (n = -2 /\ game \in PlayerGames)

UnresolvedVmadAlias(phase, n, game) ==
    IF n = -1
    THEN IF phase = "Summary" /\ game \in Skyrims \cup {"Starfield"} THEN Empty ELSE Label(phase, Name("None"))
    ELSE IF n = -2 /\ game \in PlayerGames
    THEN CASE phase \in {"Display", "Summary"} -> Name("Player")
           [] phase = "EditValue" -> Decimal(n)
           [] OTHER -> Empty
    ELSE Unresolved(phase, n, "could not resolve")

ResolvedAlias(phase, n, game, link) ==
    LET found == Entries(<<Aliases(link)>>, n)
    IN  IF (IsVmadSentinel(n, game) /\ phase # "NativeValue") \/ link = NoLink
        THEN UnresolvedVmadAlias(phase, n, game)
        ELSE IF ~link.isQuest \/ found = <<>>
        THEN IF phase \in {"Display", "Summary", "Validation"}
             THEN Unresolved(phase, n, IF link.isQuest THEN "not found" ELSE "not a quest")
             ELSE UnresolvedVmadAlias(phase, n, game)
        ELSE CASE phase = "Validation" -> Empty
               [] phase = "Summary" /\ game \in Skyrims -> found[1][2]
               [] OTHER -> IndexedLabel(n, found[1][2])

\* c.scoped: the caller gave the siblings and the quest is among them.
VmadObjectAlias(phase, n, c) ==
    IF ~c.scoped THEN Empty
    ELSE IF phase = "SortKey" THEN SortKey(n)
    ELSE ResolvedAlias(phase, n, c.game, c.link)

\* c.record is the signature of the record, "none" when the caller has none
\* to read; c.link its quest.
CtdaConditionAlias(phase, n, c) ==
    IF phase = "SortKey" THEN SortKey(n)
    ELSE IF c.record = "none" THEN Empty
    ELSE IF c.record \notin {"QUST", "SCEN", "PACK", "INFO"} THEN Label(phase, Decimal(n))
    ELSE IF c.record = "INFO" /\ c.link = NoLink THEN Empty
    ELSE ResolvedAlias(phase, n, c.game, c.link)

ParseVmadAlias(text, c) ==
    IF text = Name("None") THEN Parsed(-1)
    ELSE IF text = Name("Player") /\ c.game \in PlayerGames THEN Parsed(-2)
    ELSE OrElse(I32(SignedPrefix(text)), -1)

\* An alias that is there can be gone to.
ResolveAliasLink(n, c) ==
    n >= 0 /\ c.scoped /\ c.link # NoLink /\ c.link.isQuest /\ Entries(<<Aliases(c.link)>>, n) # <<>>

-----------------------------------------------------------------------------
(* Stars, legendary mods, appearances.                                     *)

StarId(phase, n, c) ==
    IF phase = "SortKey" THEN SortKey(n)
    ELSE IF n = -1 THEN IF phase \in {"Display", "EditValue"} THEN Name("Universe") ELSE Empty
    ELSE LET k == Valued(c.stars, n)
         IN  IF k = 0 THEN Unresolved(phase, n, "could not resolve")
             ELSE Label(phase, Decimal(n) \o c.stars[k][2])

ParseStarId(text) ==
    IF text \in {Name("None"), Name("Universe")} THEN Parsed(-1) ELSE OrElse(SignedPrefix(text), -1)

\* The mods of a slot: flat, they follow the first one of the slot in one
\* list of <<slot, name>>; nested, they are the list of the slot.  A mod whose
\* record the resolver does not know has no name.
LegendaryMod(offset, c) ==
    LET first == SelectInSeq(c.mods, LAMBDA m : m[1] = c.slot)
        inSlot == SelectSeq(c.mods, LAMBDA m : m[1] = c.slot)
    IN  IF offset < 0 THEN Empty
        ELSE IF c.flat
        THEN IF first # 0 /\ first + offset \in DOMAIN c.mods THEN c.mods[first + offset][2] ELSE Empty
        ELSE IF offset + 1 \in DOMAIN inSlot THEN inSlot[offset + 1][2] ELSE Empty

LegendaryFilterMod(phase, n, c) ==
    LET mod == LegendaryMod(n, c)
    IN  IF c.flat THEN IF mod = Empty THEN Name("Unknown Ref") ELSE mod
        ELSE IF phase = "SortKey" THEN SortKey(n)
        ELSE IF mod = Empty
        THEN IF phase = "Summary" THEN Empty ELSE Unresolved(phase, n, "could not resolve")
        ELSE CASE phase \in {"Display", "EditValue"} -> Decimal(n) \o mod
               [] phase = "Summary" -> mod
               [] OTHER -> Empty

ParseLegendaryFilterMod(text) == OrElse(UnsignedPrefix(text), 0)

ResolveLegendaryLink(n, c) == LegendaryMod(n, [c EXCEPT !.flat = TRUE]) # Empty

\* c.appearance is "none" when the resolver gives one entry at a time,
\* c.entry; else what it says of the NPC's race.
AppearanceNumber(n, c) == IF c.hex THEN Hex(n) ELSE Decimal(n)

AppearanceMissing(phase, n, c, warning) ==
    CASE phase = "Display" -> AppearanceNumber(n, c) \o Warning(warning)
      [] phase \in {"Summary", "EditValue"} -> AppearanceNumber(n, c)
      [] phase = "Validation" -> Warning(warning)
      [] OTHER -> Empty

NpcAppearance(phase, n, c) ==
    LET entries == c.entries \o IF c.oppositeGender THEN c.otherEntries ELSE <<>>
        k == Valued(entries, n)
    IN  CASE c.appearance # "race" -> AppearanceMissing(phase, n, c, c.appearance)
          [] ~c.collection -> AppearanceMissing(phase, n, c, "no collection")
          [] k = 0 -> AppearanceMissing(phase, n, c, "not found")
          [] phase = "EditValue" /\ ~c.resolvedEdit -> AppearanceNumber(n, c)
          [] OTHER -> Label(phase, AppearanceNumber(n, c) \o entries[k][2])

NpcAppearanceIndex(phase, n, c) ==
    IF phase = "SortKey" THEN SortKey(n)
    ELSE IF c.appearance = "none" /\ c.entry # Empty
    THEN IF phase = "EditValue" /\ ~c.resolvedEdit THEN AppearanceNumber(n, c) ELSE Label(phase, c.entry)
    ELSE NpcAppearance(phase, n, c)

ParseNpcAppearanceIndex(text, c) ==
    IF ~c.hex THEN OrElse(UnsignedPrefix(text), 0)
    ELSE IF text # Empty /\ text[1][1] = "hex" THEN OrElse(U32(Parsed(text[1][2])), 0)
    ELSE Parsed(0)

-----------------------------------------------------------------------------
(* Meshes, object mods, colours.                                           *)

\* The file of a combined mesh: folder, cell, mesh.
CombinedMeshId(phase, n, c) ==
    CASE phase \in Shown -> Name(c.folder) \o Hex(c.cell) \o Hex(n)
      [] phase \in {"SortKey", "NativeValue"} -> Hex(n)
      [] OTHER -> Empty

ParseCombinedMeshId(text) ==
    IF Len(text) = 3 /\ text[3][1] = "hex" THEN OrElse(U32(Parsed(text[3][2])), 0) ELSE Parsed(0)

\* c.table is <<>> when the package has none for the form type.
ObjectModProperty(phase, n, c) ==
    LET k == Valued(c.table, n)
    IN  IF c.table = <<>> THEN Label(IF phase = "SortKey" THEN "Display" ELSE phase, Decimal(n))
        ELSE IF k # 0 THEN Label(phase, c.table[k][2])
        ELSE CASE phase = "EditValue" -> Decimal(n)
               [] phase \in {"Display", "Summary", "Validation"} -> Warning("unknown")
               [] OTHER -> Empty

ParseObjectModProperty(text, c) ==
    LET k == Named(c.table, text)
    IN  IF k # 0 THEN Parsed(c.table[k][1]) ELSE OrElse(DelphiInteger(text), 0)

\* Six decimals of a float: the bits they keep.
SixDecimals(bits) == bits - (bits % 2)

ColorOrFloat(phase, n, c) ==
    CASE phase \in Shown -> IF c.remapping THEN <<<<"float", SixDecimals(n)>>>> ELSE <<<<"rgba", n>>>>
      [] phase = "SortKey" -> Hex(n)
      [] OTHER -> Empty

\* The text says what it is, whatever the flag says by now.
ParseColorOrFloat(text) ==
    IF text # Empty /\ text[1][1] \in {"rgba", "float"} THEN Parsed(text[1][2]) ELSE Parsed(0)
=============================================================================
