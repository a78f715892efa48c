-------------------------- MODULE AfterLoadHandlers --------------------------
(***************************************************************************)
(* The after-load handlers of handler.rs: those of Oblivion, Fallout 3 and *)
(* New Vegas records and of references and worldspaces of several games;   *)
(* then those of Skyrim, Fallout 4 and 76 and Starfield records, and of    *)
(* lights and regions of all games.  Floating-point numbers are counted in *)
(* thousandths.                                                            *)
(***************************************************************************)
EXTENDS Migration

One == 1000
Huge == -2              \* an unsigned number above the signed range
MaxFloat == 999999999   \* f32::MAX

-----------------------------------------------------------------------------
(* Single fields.                                                          *)

\* CTDA: the "run on target" flag becomes the run-on field.
LegacyCtda(i) ==
    LET condition == Target(i).data
    IN  IF ~OnField(i, Fallout3Nv, "CTDA") \/ condition.size = 0
        THEN Failure
        ELSE IF 2 \notin condition.flags
        THEN Nothing
        ELSE IF condition.size < 24 /\ condition.size # 20
        THEN Failure
        ELSE SubrecordPayload(
                [condition EXCEPT !.size = IF @ = 20 THEN 28 ELSE @, !.flags = @ \ {2}, !.runOn = 1])

\* The output for an effect item whose actor value should be value.
WithActorValue(item, value) ==
    IF value = Huge THEN Failure
    ELSE IF item.value = value THEN Nothing
    ELSE SubrecordPayload([item EXCEPT !.value = value])

\* EFIT: the actor value is that of the effect named by the EFID before it.
LegacyEfit(i) ==
    LET before == Subs(i)[i.target - 1]
        effects == i.facts.effects
    IN  IF i.game \notin Fallout3Nv THEN Failure
        ELSE IF IsDeleted(i) THEN Nothing
        ELSE IF ~OnField(i, Fallout3Nv, "EFIT") \/ Target(i).data.size # 20 THEN Failure
        ELSE IF i.target = 1 \/ before.sig # "EFID" \/ before.data.size # 4 THEN Nothing
        ELSE IF before.data.form \notin DOMAIN effects THEN Nothing
        ELSE WithActorValue(Target(i).data, effects[before.data.form])

\* SCHR of an embedded script: type 1 becomes 0.
EmbeddedScript(i) ==
    IF \/ i.game \notin Fallout3Nv \/ ~i.configured \/ Last(i.path) # "Embedded Script"
       \/ ~OnField(i, Fallout3Nv, "SCHR") \/ Target(i).data.size # 20
    THEN Failure
    ELSE IF Target(i).data.type # 1
    THEN Nothing
    ELSE SubrecordPayload([Target(i).data EXCEPT !.type = 0])

-----------------------------------------------------------------------------
(* Records.                                                                *)

FalloutCell(i) ==
    IF ~OnRecord(i, Fallout3Nv, {"CELL"}) THEN Failure
    ELSE IF IsEmpty(i) THEN Nothing
    ELSE IF ~i.configured THEN Failure
    ELSE IF ~Has(i, "DATA") \/ 2 \notin DataOf(i, "DATA").flags THEN Nothing
    ELSE Mutations(If(~Has(i, "XCLW"), <<Insert(Path(i, "XCLW"), [size |-> 4, height |-> MaxFloat])>>)
                   \o If(~Has(i, "XNAM"), <<Insert(Path(i, "XNAM"), Zeros(1))>>))

\* A payload of that size has the ratio at offset 124 + 4 * (k - 1).
BirthRatio(data, k) == data.size >= 124 + 4 * k

\* Mutant: ratios of zero or more than one are converted too.
ConvertedAlways(data, k) == BirthRatio(data, k)

\* A birth ratio that is still a fraction.
IsFraction(data, k) == BirthRatio(data, k) /\ data.ratio[k] # 0 /\ data.ratio[k] <= One

LegacyEffectShader(i) ==
    LET data == DataOf(i, "DATA")
    IN  IF ~OnRecord(i, Fallout3Nv, {"EFSH"}) THEN Failure
        ELSE IF IsEmpty(i) THEN Nothing
        ELSE IF ~i.configured THEN Failure
        ELSE IF ~Has(i, "DATA") \/ ~\E k \in 1..2 : IsFraction(data, k) THEN Nothing
        ELSE Mutations(<<ReplacePayload(Path(i, "DATA"), 0,
                [data EXCEPT !.ratio = [k \in 1..2 |-> IF IsFraction(data, k) THEN 78 * @[k] ELSE @[k]]])>>)

LegacyFaction(i) ==
    IF ~OnRecord(i, Fallout3Nv, {"FACT"}) THEN Failure
    ELSE IF IsEmpty(i) THEN Nothing
    ELSE IF ~i.configured THEN Failure
    ELSE Mutations(RemoveFirstIf(TRUE, i, "CNAM"))

\* The 186 bytes of old visual data end with the damage.
LegacyWater(i) ==
    LET isOld(sub) == sub.sig = "DATA" /\ sub.data.size = 186
        old == Subs(i)[SelectInSeq(Subs(i), isOld)].data
        damage == [size |-> 2, damage |-> old.damage]
    IN  IF ~OnRecord(i, Fallout3Nv, {"WATR"}) THEN Failure
        ELSE IF IsEmpty(i) THEN Nothing
        ELSE IF ~i.configured THEN Failure
        ELSE IF Has(i, "DNAM") \/ SelectInSeq(Subs(i), isOld) = 0 THEN Nothing
        ELSE Mutations(<<
                RemoveField(<<"WATR", "visual", "old">>, 0),
                IF \E sub \in Range(Subs(i)) : sub.sig = "DATA" /\ sub.data.size = 2
                THEN ReplacePayload(<<"WATR", "damage">>, 0, damage)
                ELSE InsertPayload(<<"WATR", "damage">>, damage),
                InsertPayload(<<"WATR", "visual", "new">>,
                              [size |-> 196, visual |-> old.visual, tail |-> <<1000, 500, 250>>])>>)

LegacyNpc(i) ==
    LET data == DataOf(i, "NAM5")
    IN  IF ~OnRecord(i, Fallout3Nv, {"NPC_"}) THEN Failure
        ELSE IF IsEmpty(i) THEN Nothing
        ELSE IF ~i.configured THEN Failure
        ELSE IF ~Has(i, "NAM5") \/ data.size < 2 \/ data.value <= 255 THEN Nothing
        ELSE Mutations(<<ReplacePayload(Path(i, "NAM5"), 0, [data EXCEPT !.value = 255])>>)

\* A payload holds its type in byte 0 and its flags in byte 2.
LegacyInfo(i) ==
    LET data == DataOf(i, "DATA")
        challenge == Has(i, "DATA") /\ data.size >= 3 /\ 128 \in data.flags
    IN  IF ~OnRecord(i, Fallout3Nv, {"INFO"}) THEN Failure
        ELSE IF IsEmpty(i) THEN Nothing
        ELSE IF ~i.configured THEN Failure
        ELSE Mutations(RemoveFirstIf(~challenge, i, "DNAM")
                       \o RemoveFirstIf(TRUE, i, "SNDD")
                       \o If(Has(i, "DATA") /\ data.size >= 1 /\ data.type = 3,
                             <<ReplacePayload(Path(i, "DATA"), 0, [data EXCEPT !.type = 0])>>))

\* copy_legacy_sound_value: the old fields with their sizes and the values
\* the new one has without them.
SoundFields == [ANAM |-> 10, GNAM |-> 2, HNAM |-> 4]
SoundDefaults == [ANAM |-> <<100, 50, 20, 5, 0>>, GNAM |-> <<80>>, HNAM |-> <<128>>]

\* SNDX and the old fields become SNDD.
LegacySound(i) ==
    LET old == {sig \in DOMAIN SoundFields : Has(i, sig)}
    IN  IF ~OnRecord(i, Fallout3Nv, {"SOUN"}) THEN Failure
        ELSE IF IsEmpty(i) THEN Nothing
        ELSE IF ~i.configured THEN Failure
        ELSE IF Has(i, "SNDD") \/ ~Has(i, "SNDX") THEN Nothing
        ELSE IF DataOf(i, "SNDX").size # 12 \/ \E sig \in old : DataOf(i, sig).size # SoundFields[sig] THEN Failure
        ELSE Mutations(RemoveFirstIf(TRUE, i, "SNDX")
                \o RemoveFirstIf(TRUE, i, "ANAM") \o RemoveFirstIf(TRUE, i, "GNAM") \o RemoveFirstIf(TRUE, i, "HNAM")
                \o <<InsertPayload(Path(i, "SNDD"),
                        [size |-> 36, sound |-> DataOf(i, "SNDX").sound,
                         values |-> [sig \in DOMAIN SoundFields |->
                                        IF sig \in old THEN DataOf(i, sig).values ELSE SoundDefaults[sig]]])>>)

\* The animation multipliers of a payload are at bytes 4 and 60.
LegacyWeapon(i) ==
    LET data == DataOf(i, "DNAM")
        zero == {k \in 1..2 : data.size >= <<8, 64>>[k] /\ data.multiplier[k] = 0}
    IN  IF ~OnRecord(i, Fallout3Nv, {"WEAP"}) \/ ~i.configured THEN Failure
        ELSE IF IsEmpty(i) \/ ~Has(i, "DNAM") THEN Nothing
        ELSE IF zero = {} THEN Nothing
        ELSE Mutations(<<ReplacePayload(Path(i, "DNAM"), 0,
                [data EXCEPT !.multiplier = [k \in 1..2 |-> IF k \in zero THEN One ELSE @[k]]])>>)

\* push_package_insert
InsertIfAbsent(i, sig, data) == If(~Has(i, sig), <<InsertPayload(Path(i, sig), data)>>)

\* A first location, or a second one before the schedule.
HasLocations(i) ==
    \/ Has(i, "PLDT")
    \/ \E schedule, second \in DOMAIN Subs(i) :
          /\ Subs(i)[schedule].sig = "PSDT" /\ Subs(i)[second].sig = "PLD2" /\ second < schedule
          /\ \A k \in 1..(schedule - 1) : Subs(i)[k].sig # "PSDT"

InsertLocation(i, type) ==
    If(~HasLocations(i), <<InsertPayload(Path(i, "PLDT"), [size |-> 12, type |-> type])>>)

\* The fields that a package of a type must have.
PackageInserts(i, type) ==
    CASE type = 0 -> InsertIfAbsent(i, "PTDT", Zeros(16))
      [] type = 1 -> InsertIfAbsent(i, "PKFD", Zeros(4))
      [] type = 3 -> InsertIfAbsent(i, "PTDT", Zeros(16)) \o InsertIfAbsent(i, "PKED", Zeros(0))
      [] type = 4 -> InsertLocation(i, 3)
      [] type = 13 -> InsertLocation(i, 6) \o InsertIfAbsent(i, "PKPT", Zeros(2))
      [] OTHER -> <<>>

LegacyPackage(i) ==
    IF ~OnRecord(i, Fallout3Nv, {"PACK"}) \/ ~i.configured THEN Failure
    ELSE IF IsEmpty(i) \/ ~Has(i, "PKDT") THEN Nothing
    ELSE IF DataOf(i, "PKDT").size < 5 THEN Nothing
    ELSE Mutations(PackageInserts(i, DataOf(i, "PKDT").type))

\* legacy_magic_effect_actor_value; the empty sequence is no value.
ActorValueOf(game, archetype) ==
    CASE archetype \in {1, 2, 3, 13, 16, 17, 18, 19, 30, 31, 32, 33} -> <<-1>>
      [] archetype = 11 -> <<48>>
      [] archetype = 12 -> <<49>>
      [] archetype = 24 -> <<47>>
      [] archetype = 35 /\ game = "FalloutNv" -> <<-1>>
      [] archetype = 36 /\ game = "FalloutNv" -> <<51>>
      [] OTHER -> <<>>

LegacyMagicEffect(i) ==
    LET data == DataOf(i, "DATA")
        expected == ActorValueOf(i.game, data.archetype)
    IN  IF ~OnRecord(i, Fallout3Nv, {"MGEF"}) THEN Failure
        ELSE IF IsEmpty(i) THEN Nothing
        ELSE IF ~i.configured THEN Failure
        ELSE IF ~Has(i, "DATA") \/ data.size < 72 THEN Nothing
        ELSE IF expected = <<>> \/ expected = <<data.value>> THEN Nothing
        ELSE Mutations(<<ReplacePayload(Path(i, "DATA"), 0, [data EXCEPT !.value = expected[1]])>>)

-----------------------------------------------------------------------------
(* References: a lock level of 0 becomes 1, ammunition belongs to weapons. *)

NormalLock(i) ==
    LET lock == DataOf(i, "XLOC")
    IN  If(Has(i, "XLOC") /\ lock.size > 0 /\ lock.level = 0,
           <<ReplacePayload(Path(i, "XLOC"), 0, [lock EXCEPT !.level = 1])>>)

SkyrimReference(i) ==
    IF ~OnRecord(i, Skyrim, {"REFR"}) THEN Failure
    ELSE IF IsEmpty(i) THEN Nothing
    ELSE IF ~i.configured THEN Failure
    ELSE IF ~Has(i, "XLOC") THEN Nothing
    ELSE Mutations(NormalLock(i) \o RemoveFirstIf(TRUE, i, "XPTL"))

\* The base object of the reference is known and is no weapon.
BaseIsNoWeapon(i) ==
    /\ Has(i, "NAME") /\ DataOf(i, "NAME").size >= 4
    /\ DataOf(i, "NAME").form \in DOMAIN i.facts.bases
    /\ i.facts.bases[DataOf(i, "NAME").form] # "WEAP"

FalloutReference(i) ==
    LET ammunition == Has(i, "XAMT") /\ BaseIsNoWeapon(i)
    IN  IF ~OnRecord(i, Games \ (Skyrim \union {"Oblivion", "Starfield"}), {"REFR"}) \/ ~i.configured THEN Failure
        ELSE IF IsEmpty(i) THEN Nothing
        ELSE IF i.game \notin Fallout3Nv THEN Mutations(NormalLock(i))
        ELSE Mutations(RemoveFirstIf(TRUE, i, "RCLR")
                       \o RemoveFirstIf(ammunition, i, "XAMT") \o RemoveFirstIf(ammunition, i, "XAMC"))

-----------------------------------------------------------------------------
(* Stored offsets, which the handlers may be asked to drop.                *)

RemoveOffsetData(i) ==
    IF ~OnRecord(i, Games, {"TES4"}) THEN Failure
    ELSE Mutations(RemoveFirstIf(i.facts.removeOffsets, i, "OFST"))

RemoveWorldspaceOffsetData(i) ==
    IF ~OnRecord(i, Games, {"WRLD"}) THEN Failure
    ELSE Mutations(RemoveFirstIf(i.facts.removeOffsets, i, "OFST"))

\* facts.loadOrder is the position of the record's file, <<>> if it is unknown.
Worldspace(i) ==
    IF ~OnRecord(i, Modern \union {"Starfield"}, {"WRLD"}) THEN Failure
    ELSE IF Has(i, "RNAM") /\ i.game \in {"SkyrimSe", "SkyrimVr"} /\ i.facts.loadOrder = <<>> THEN Failure
    ELSE Mutations(
            RemoveFirstIf(i.facts.removeOffsets /\ i.game = "Starfield", i, "OFST")
            \o RemoveFirstIf(\/ i.game \in Fallout4s \union {"SkyrimLe"}
                             \/ i.game \in {"SkyrimSe", "SkyrimVr"} /\ i.facts.loadOrder = <<0>>, i, "RNAM")
            \o RemoveFirstIf(\/ i.game \in Fallout4s
                             \/ i.game = "Starfield" /\ i.facts.removeOffsets, i, "CLSZ"))

-----------------------------------------------------------------------------
(* Oblivion.                                                                *)

Oblivion == {"Oblivion"}

\* EFIT: effects that use an actor value get the associated item of the
\* magic effect with their code.
OblivionEfit(i) ==
    LET item == Target(i).data
        effects == i.facts.effects
    IN  IF ~OnField(i, Oblivion, "EFIT") \/ item.size # 24 THEN Failure
        ELSE IF item.code \notin DOMAIN effects THEN Nothing
        ELSE IF ~effects[item.code].usesActorValue \/ effects[item.code].item = <<>> THEN Nothing
        ELSE WithActorValue(item, effects[item.code].item[1])

VerifyOblivionEfix(i) == IF OnField(i, Oblivion, "EFIX") THEN Nothing ELSE Failure

\* An interior cell has lighting, an exterior one a grid, and water if it is
\* in a group of type 1.
OblivionCell(i) ==
    LET data == DataOf(i, "DATA")
    IN  IF ~OnRecord(i, Oblivion, {"CELL"}) \/ ~i.configured THEN Failure
        ELSE IF IsEmpty(i) \/ ~Has(i, "DATA") THEN Nothing
        ELSE IF data.size = 0 THEN Nothing
        ELSE IF 1 \in data.flags
        THEN Mutations(If(~Has(i, "XCLL"), <<InsertPayload(Path(i, "XCLL"), Zeros(36))>>))
        ELSE Mutations(If(~Has(i, "XCLC"), <<InsertPayload(Path(i, "XCLC"), Zeros(8))>>)
                       \o If(2 \notin data.flags /\ i.facts.parentGroup = 1,
                             <<ReplacePayload(Path(i, "DATA"), 0, [data EXCEPT !.flags = @ \union {2}])>>))

-----------------------------------------------------------------------------
(* Path grids.  The connections of all points are one list; counts has the *)
(* number that each point owns.  NoPoint marks an unused connection.       *)

NoPoint == 65535

SumTo(counts, k) == FoldLeft(LAMBDA sum, count : sum + count, 0, SubSeq(counts, 1, k))

\* The connections up to the last used one.
RetainedConnections(list) ==
    SubSeq(list, 1, SelectLastInSeq(list, LAMBDA c : c # NoPoint))

\* normalize_oblivion_point_connections: what is kept of each point's list.
RetainedPerPoint(points, connections) ==
    [k \in DOMAIN points.counts |->
        RetainedConnections(SubSeq(connections.list, SumTo(points.counts, k - 1) + 1, SumTo(points.counts, k)))]

ConnectionsFit(points, connections) ==
    /\ points.size = 16 * Len(points.counts)
    /\ connections.size = 2 * Len(connections.list)
    /\ SumTo(points.counts, Len(points.counts)) = Len(connections.list)

NormalConnections(i) ==
    LET points == DataOf(i, "PGRP")
        connections == DataOf(i, "PGRR")
        retained == RetainedPerPoint(points, connections)
        counts == [k \in DOMAIN retained |-> Len(retained[k])]
        list == FlattenSeq(retained)
    IN  IF ~Has(i, "PGRR") THEN <<>>
        ELSE If(ConnectionsFit(points, connections) /\ counts # points.counts,
               <<ReplacePayload(Path(i, "PGRP"), 0, [points EXCEPT !.counts = counts]),
                 ReplacePayload(Path(i, "PGRR"), 0, [size |-> 2 * Len(list), list |-> list])>>)

OblivionPathGrid(i) ==
    IF ~OnRecord(i, Oblivion, {"PGRD"}) \/ ~i.configured THEN Failure
    ELSE IF IsEmpty(i) \/ ~Has(i, "PGRP") THEN Nothing
    ELSE Mutations(
            If(~Has(i, "PGAG"), <<InsertPayload(Path(i, "PGAG"), Zeros((DataOf(i, "PGRP").size \div 16 + 7) \div 8))>>)
            \o If(Compressed \notin i.record.flags, <<SetRecordFlags(i.record.flags \union {Compressed})>>)
            \o NormalConnections(i))

\* oblivion_path_grid_float_sort_key: a coordinate in ten-millionths is
\* printed with six decimals, and a negative one with its sign.
SortKey(value) == <<value < 0, ((IF value < 0 THEN -value ELSE value) + 5) \div 10>>

EntryKey(entry) == <<entry.point, SortKey(entry.x), SortKey(entry.y), SortKey(entry.z)>>

\* Mutant: only entries next to each other are compared.
LastOfNeighbours(entries) ==
    LET kept == {k \in DOMAIN entries : k + 1 \in DOMAIN entries => EntryKey(entries[k + 1]) # EntryKey(entries[k])}
    IN  [k \in 1..Cardinality(kept) |-> entries[SetToSortSeq(kept, <)[k]]]

\* deduplicate_oblivion_inter_cell_connections: the last of equal entries.
LastEntries(entries) ==
    LET kept == {k \in DOMAIN entries : \A l \in DOMAIN entries : l > k => EntryKey(entries[l]) # EntryKey(entries[k])}
    IN  [k \in 1..Cardinality(kept) |-> entries[SetToSortSeq(kept, <)[k]]]

OblivionInterCellConnections(i) ==
    LET data == Target(i).data
        entries == LastEntries(data.entries)
    IN  IF ~i.configured \/ ~OnField(i, Oblivion, "PGRI") \/ i.path # <<"PGRD", "PGRI", "payload">> THEN Failure
        ELSE IF data.size % 16 # 0 \/ Len(entries) = Len(data.entries) THEN Nothing
        ELSE SubrecordPayload([size |-> 16 * Len(entries), entries |-> entries])

-----------------------------------------------------------------------------

\* A reference, deleted or not.
OblivionReference(i) ==
    IF ~OnRecord(i, Oblivion, {"ACHR", "REFR"}) THEN Failure
    ELSE IF Subs(i) = <<>> THEN Nothing
    ELSE IF ~i.configured THEN Failure
    ELSE Mutations(RemoveFirstIf(TRUE, i, "XPCI"))

\* The top bit of the chance becomes the first flag.
OblivionLeveledList(i) ==
    LET chance == DataOf(i, "LVLD")
        flagged == Has(i, "LVLD") /\ chance.size > 0 /\ chance.calculated
        flags == DataOf(i, "LVLF")
    IN  IF ~OnRecord(i, Oblivion, {"LVLC", "LVLI", "LVSP"}) THEN Failure
        ELSE IF IsEmpty(i) THEN Nothing
        ELSE IF ~i.configured THEN Failure
        ELSE Mutations(RemoveFirstIf(TRUE, i, "DATA")
                \o If(flagged, <<
                    ReplacePayload(Path(i, "LVLD"), 0, [chance EXCEPT !.calculated = FALSE]),
                    IF Has(i, "LVLF")
                    THEN ReplacePayload(Path(i, "LVLF"), 0,
                            [size |-> IF flags.size = 0 THEN 1 ELSE flags.size, flags |-> flags.flags \union {1}])
                    ELSE InsertPayload(Path(i, "LVLF"), [size |-> 1, flags |-> {1}])>>))

\* The flags an effect of Oblivion.esm should have; code is its editor ID
\* in capitals.
MagicEffectFlags(code, flags) ==
    CASE code \in {"RSFI", "RSFR", "RSPA", "RSSH"} -> flags \union {8}
      [] code = "REAN" -> flags \ {131072}
      [] OTHER -> flags

OblivionMagicEffect(i) ==
    LET data == DataOf(i, "DATA")
        flags == MagicEffectFlags(DataOf(i, "EDID").code, data.flags)
    IN  IF ~OnRecord(i, Oblivion, {"MGEF"}) \/ ~i.configured THEN Failure
        ELSE IF IsEmpty(i) \/ i.facts.file # "Oblivion.esm" \/ ~Has(i, "EDID") \/ ~Has(i, "DATA") THEN Nothing
        ELSE IF data.size < 4 \/ flags = data.flags THEN Nothing
        ELSE Mutations(<<ReplacePayload(Path(i, "DATA"), 0, [data EXCEPT !.flags = flags])>>)

-----------------------------------------------------------------------------

-----------------------------------------------------------------------------
(* Handlers that only check that there is nothing to do.                   *)

\* facts.expectedSize is that of the package, 0 if it gives none.
VerifyModernEfit(i) ==
    IF OnField(i, Modern, "EFIT") /\ i.facts.expectedSize \in {0, Target(i).data.size} THEN Nothing ELSE Failure

VerifyInertBodyTemplate(i) ==
    IF OnRecord(i, Modern, {"ARMA"}) \/ OnRecord(i, Skyrim, {"RACE"}) THEN Nothing ELSE Failure

-----------------------------------------------------------------------------

\* Mutant: occurrences that count from one.
RemoveSecondKeywordArray(i) ==
    IF ~OnRecord(i, Modern, {"ALCH", "AMMO", "ARMO", "MISC"}) /\ ~OnRecord(i, Skyrim, {"NPC_"}) THEN Failure
    ELSE IF IsDeleted(i) \/ Has(i, "KSIZ") \/ ~Has(i, "KWDA") THEN Nothing
    ELSE IF ~i.configured THEN Failure
    ELSE Mutations(<<RemoveField(Path(i, "KWDA"), 1)>>)

RemoveOrphanedKeywordArray(i) ==
    IF ~OnRecord(i, Modern, {"ALCH", "AMMO", "ARMO", "MISC"}) /\ ~OnRecord(i, Skyrim, {"NPC_"}) THEN Failure
    ELSE IF IsDeleted(i) \/ Has(i, "KSIZ") \/ ~Has(i, "KWDA") THEN Nothing
    ELSE IF ~i.configured THEN Failure
    ELSE Mutations(<<RemoveField(Path(i, "KWDA"), 0)>>)

\* A message is a box, or it has a display time.
Message(i) ==
    LET flags == IF Has(i, "DNAM") THEN DataOf(i, "DNAM").flags ELSE {}
    IN  IF ~OnRecord(i, Games \ {"Oblivion", "Starfield"}, {"MESG"}) THEN Failure
        ELSE IF IsDeleted(i) THEN Nothing
        ELSE IF Has(i, "DNAM") /\ DataOf(i, "DNAM").size # 4 THEN Failure
        ELSE IF (1 \in flags) # Has(i, "TNAM") THEN Nothing
        ELSE IF ~i.configured THEN Failure
        ELSE Mutations(<<
                IF 1 \in flags
                THEN RemoveField(Path(i, "TNAM"), 0)
                ELSE IF Has(i, "DNAM")
                     THEN Set(Path(i, "DNAM"), 0, [size |-> 4, flags |-> flags \union {1}])
                     ELSE Insert(Path(i, "DNAM"), [size |-> 4, flags |-> {1}])>>)

\* Entries of the default object array with use code 0 are dropped.
DefaultObjectArray(i) ==
    LET data == Target(i).data
        used == SelectSeq(data.uses, LAMBDA use : use # 0)
    IN  IF i.record.sig # "DOBJ" \/ ~OnField(i, Modern \union {"Starfield"}, "DNAM") \/ data.size % 8 # 0 THEN Failure
        ELSE IF used = data.uses THEN Nothing
        ELSE SubrecordPayload([size |-> 8 * Len(used), uses |-> used])

SkyrimWeapon(i) ==
    LET data == Target(i).data
        normal == [data EXCEPT !.flags = @ \ {64}, !.flags2 = @ \ {256}]
    IN  IF i.record.sig # "WEAP" \/ i.game \notin Skyrim THEN Failure
        ELSE IF IsDeleted(i) THEN Nothing
        ELSE IF ~OnField(i, Skyrim, "DNAM") \/ data.size # 100 THEN Failure
        ELSE IF normal = data THEN Nothing
        ELSE SubrecordPayload(normal)

\* The size of a light's data.
LightSizeFits(game, size) ==
    CASE game \in Oblivion \union Fallout3Nv -> size = 32
      [] game \in Skyrim -> size = 48
      [] game \in Fallout4s -> size = 64
      [] game = "Fallout76" -> size >= 64

\* A light without falloff or field of view, and one without a fade value if
\* the package names that field.
Light(i) ==
    LET data == DataOf(i, "DATA")
        normal == [data EXCEPT !.falloff = IF @ = 0 THEN One ELSE @, !.fov = IF @ = 0 THEN 90 * One ELSE @]
    IN  IF ~OnRecord(i, Games \ {"Starfield"}, {"LIGH"}) THEN Failure
        ELSE IF IsDeleted(i) THEN Nothing
        ELSE IF ~i.configured THEN Failure
        ELSE IF Has(i, "DATA") /\ ~LightSizeFits(i.game, data.size) THEN Failure
        ELSE Mutations((IF Has(i, "DATA") THEN If(normal # data, <<ReplacePayload(Path(i, "DATA"), 0, normal)>>) ELSE <<>>)
                       \o If(i.facts.fade /\ ~Has(i, "FNAM"), <<Insert(Path(i, "FNAM"), [size |-> 4, fade |-> One])>>))

\* Flags get their second byte; water gets a height, the lowest one means 0.
SkyrimCell(i) ==
    LET data == DataOf(i, "DATA")
        wet == Has(i, "DATA") /\ data.size > 0 /\ 2 \in data.flags
    IN  IF ~OnRecord(i, Skyrim, {"CELL"}) THEN Failure
        ELSE IF IsEmpty(i) THEN Nothing
        ELSE IF ~i.configured THEN Failure
        ELSE Mutations((IF Has(i, "DATA")
                        THEN If(data.size = 1, <<ReplacePayload(Path(i, "DATA"), 0, [data EXCEPT !.size = 2])>>)
                        ELSE <<>>)
                       \o If(wet /\ ~Has(i, "XCLW"), <<Insert(Path(i, "XCLW"), [size |-> 4, height |-> MaxFloat])>>)
                       \o If(Has(i, "XCLW") /\ DataOf(i, "XCLW") = [size |-> 4, height |-> -MaxFloat],
                             <<ReplacePayload(Path(i, "XCLW"), 0, [size |-> 4, height |-> 0])>>))

-----------------------------------------------------------------------------

ModernVersion == 69

\* Byte 10 of every entry of an old list is 0; facts.version is the form
\* version.
FalloutLeveledList(i) ==
    LET entries == SelectSeq(Subs(i), LAMBDA sub : sub.sig = "LVLO")
        Step(list, k) ==
            list \o If(entries[k].data.size <= 10 \/ entries[k].data.chance # 0,
                       <<ReplacePayload(Path(i, "LVLO"), k - 1,
                            [entries[k].data EXCEPT !.size = IF @ <= 10 THEN 11 ELSE @, !.chance = 0])>>)
    IN  IF \/ ~OnRecord(i, Fallout4s, {"LVLN", "LVLI"}) /\ ~OnRecord(i, {"Fallout76"}, {"LVLN", "LVLI", "LVLP"})
           \/ ~i.configured
        THEN Failure
        ELSE IF i.record.version >= ModernVersion \/ IsEmpty(i) \/ i.record.sig = "LVLP" THEN Nothing
        ELSE Mutations(FoldLeft(Step, <<>>, [k \in DOMAIN entries |-> k]))

\* The order of a morph key: its position among the keys of the master, the
\* unknown ones behind them.
MorphOrder(master, keys) ==
    [k \in DOMAIN keys |->
        IF Contains(master, keys[k])
        THEN SelectInSeq(master, LAMBDA key : key = keys[k])
        ELSE Len(master) + Cardinality({l \in 1..k : ~Contains(master, keys[l])})]

\* append_fallout_npc_morph_mutations: keys and values in the master's order.
MorphMutations(i, master) ==
    LET keys == DataOf(i, "MSDK")
        values == DataOf(i, "MSDV")
        order == MorphOrder(master, keys.list)
        unknown == {k \in DOMAIN keys.list : ~Contains(master, keys.list[k])}
        at == SortSeq([k \in DOMAIN keys.list |-> k], LAMBDA k, l : order[k] < order[l])
        Reordered(data) == [data EXCEPT !.list = [k \in DOMAIN @ |-> @[at[k]]]]
    IN  IF \/ ~Has(i, "MSDK") \/ ~Has(i, "MSDV")
           \/ keys.size % 4 # 0 \/ keys.size # values.size \/ Len(keys.list) < Len(master)
           \/ ~IsInjective(master)
           \/ \A k \in DOMAIN keys.list \ unknown : order[k] = k
           \/ Len(master) + Cardinality(unknown) # Len(keys.list)
        THEN <<>>
        ELSE <<ReplacePayload(Path(i, "MSDK"), 0, Reordered(keys)),
               ReplacePayload(Path(i, "MSDV"), 0, Reordered(values))>>

\* facts.master are the morph keys of the overridden record, <<>> without one.
FalloutNpc(i) ==
    IF ~OnRecord(i, Fallout4s \union {"Fallout76"}, {"NPC_"}) \/ ~i.configured THEN Failure
    ELSE IF IsEmpty(i) THEN Nothing
    ELSE Mutations(RemoveFirstIf(~Has(i, "KSIZ"), i, "KWDA") \o MorphMutations(i, i.facts.master))

\* Two fields of the behaviour settings, each with a binding of its own, are
\* at most 3; the first is at byte 8.
FalloutSceneBehavior(i) ==
    LET field == IF Last(i.path) = "Player Dialogue" THEN 1 ELSE 2
        data == Target(i).data
    IN  IF ~i.configured \/ i.record.sig # "SCEN" \/ ~OnField(i, Fallout4s, "VNAM") THEN Failure
        ELSE IF data.size < 8 + 4 * field \/ data.behavior[field] <= 3 THEN Nothing
        ELSE SubrecordPayload([data EXCEPT !.behavior[field] = 3])

-----------------------------------------------------------------------------
(* Regions: the points run from the lesser to the greater end.             *)
(* Coordinates are in ten-millionths; NaN is not a number.                 *)

NaN == -1000000000

Abs(value) == IF value < 0 THEN -value ELSE value

\* region_comparison_value: six decimals are displayed, except by Oblivion.
ComparisonValue(value, rounded) ==
    IF ~rounded \/ value = NaN THEN value
    ELSE 10 * (IF value < 0 THEN -((5 - value) \div 10) ELSE (value + 5) \div 10)

\* system_math_single_compare: within a ten-thousandth of each other, or of
\* the smaller one; what is not a number is greater.
SingleCompare(left, right) ==
    LET smaller == IF Abs(left) < Abs(right) THEN Abs(left) ELSE Abs(right)
    IN  IF NaN \in {left, right} THEN "greater"
        ELSE IF 10000 * Abs(left - right) <= smaller \/ Abs(left - right) <= 1000 THEN "equal"
        ELSE IF left < right THEN "less" ELSE "greater"

RegionRuns(first, last, rounded) ==
    LET x == SingleCompare(ComparisonValue(first.x, rounded), ComparisonValue(last.x, rounded))
    IN  IF x = "equal"
        THEN SingleCompare(ComparisonValue(first.y, rounded), ComparisonValue(last.y, rounded))
        ELSE x

RegionPointOrder(i) ==
    LET data == Target(i).data
    IN  IF i.record.sig # "REGN" \/ ~OnField(i, Games, "RPLD") \/ data.size % 8 # 0 THEN Failure
        ELSE IF Len(data.points) <= 1 THEN Nothing
        ELSE IF RegionRuns(Head(data.points), Last(data.points), i.game # "Oblivion") # "greater" THEN Nothing
        ELSE SubrecordPayload([data EXCEPT !.points = Reverse(@)])

=============================================================================
