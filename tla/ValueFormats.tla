---------------------------- MODULE ValueFormats -----------------------------
(***************************************************************************)
(* The formatters and edit parsers of handler.rs for values that stand for *)
(* themselves: packed numbers, times, lookup tables, scaled and            *)
(* hexadecimal numbers, hashes, angles and coordinates, the operator and   *)
(* flags of a condition, the entry points of perks.                        *)
(*                                                                         *)
(* c is what the invocation gives, as in LinkFormats.  Units: an angle is  *)
(* a whole number of degrees, a coordinate of half seconds, a float looked *)
(* up by its bits of halves; a cloud speed is told by its distance from    *)
(* the middle.                                                             *)
(*                                                                         *)
(* And for values that point at elements: navmesh edges, vertices and      *)
(* triangles, snap nodes, blueprint parts, records by an index key,        *)
(* elements of an array of the same record; and the texts of conditions.   *)
(* A link is a tuple that names its target, NoTarget for none.             *)
(***************************************************************************)
EXTENDS LinkFormats

NoText == <<<<"none", 0>>>>     \* the handler has no text for the phase
Failed == <<<<"error", 0>>>>    \* the handler answers an error

Text(kind, v) == <<<<kind, v>>>>

\* Elements of a sequence counted from zero.
Has(seq, i) == i \in 0 .. Len(seq) - 1
At(seq, i) == seq[i + 1]
FirstOf(places) == IF places = {} THEN Refused ELSE Parsed(Min(places) - 1)

Bit(n, mask) == (n \div mask) % 2 = 1

Magnitude(n) == IF n < 0 THEN -n ELSE n
Signed(n, m) == IF n < 0 THEN -m ELSE m

\* Half of n, a tie to the even number.
HalfToEven(n) == IF n % 4 = 1 THEN (n - 1) \div 2 ELSE (n + 1) \div 2

\* Whole turns are taken off until the value is within half a turn.
Wrap(n, half, full) ==
    LET m == Magnitude(n) IN IF m <= half THEN n ELSE Signed(n, ((m - half - 1) % full) + 1 + half - full)

\* The first token of a text, if it is of the kind.
Token(text, kind) == IF text # Empty /\ text[1][1] = kind THEN Parsed(text[1][2]) ELSE Refused

ParseInteger(text) == DelphiInteger(text)
ParseNothing(text) == Refused

Legacy(c) == c.game \in {"Fallout3", "FalloutNv", "Oblivion"}
FalloutLegacy(c) == c.game \in {"Fallout3", "FalloutNv"}

-----------------------------------------------------------------------------
(* Packed numbers and times.                                               *)

\* A hexadecimal sort key and the number itself everywhere it is not shown.
Numbered(phase, n, displayed, invalid) ==
    CASE phase \in {"Display", "Summary"} -> displayed
      [] phase = "SortKey" -> Hex(n)
      [] phase \in {"EditValue", "NativeValue"} -> Decimal(n)
      [] phase = "Validation" -> invalid
      [] OTHER -> NoText

\* Row and column of a grid of 17; division is towards zero.
LandscapePosition(phase, n, c) ==
    LET row == Signed(n, Magnitude(n) \div 17)
        column == Signed(n, Magnitude(n) % 17)
    IN  IF phase = "SortKey" THEN Hex(row) \o Hex(column)
        ELSE Numbered(phase, n, Decimal(n) \o Text("row", row) \o Text("column", column),
                      IF n \in 0 .. 288 THEN Empty ELSE Warning("out of range"))

ClimateMoons(phase, n, c) ==
    LET masser == IF FalloutLegacy(c) THEN 128 ELSE 64
        secunda == IF FalloutLegacy(c) THEN 64 ELSE 128
        moons == {m \in {"Masser", "Secunda"} : Bit(n, IF m = "Masser" THEN masser ELSE secunda)}
    IN  Numbered(phase, n, Text("moons", moons) \o Decimal(n % 64), Empty)

TimeOfDay(phase, n, text) ==
    CASE phase \in {"Display", "Summary"} -> text
      [] phase = "SortKey" -> Hex(n)
      [] phase \in {"EditValue", "NativeValue", "Validation"} -> Empty
      [] OTHER -> NoText

\* Seconds of the day: ten minutes each, and 256 parts.
ClimateTime(phase, n, c) ==
    TimeOfDay(phase, n, IF n \in 0 .. 143 THEN Text("time", 600 * n) ELSE Decimal(n))

AlocTime(phase, n, c) == TimeOfDay(phase, n, Text("time", ((n % 256) * 86400) \div 256))

\* A number with a name, some of whose upper bits do not count.
Classified(phase, n, masked, names, suffix) ==
    LET known == masked \in names
    IN  Numbered(phase, n, (IF known THEN Text("class", masked) ELSE Warning("unknown")) \o suffix,
                 IF known THEN Empty ELSE Warning("unknown"))

IdleGroups(c) == IF FalloutLegacy(c) THEN 0 .. 7 \cup {20, 21} ELSE 0 .. 6

IdleAnimationGroup(phase, n, c) ==
    Classified(phase, n, IF FalloutLegacy(c) THEN n % 64 ELSE n % 128, IdleGroups(c),
               IF Bit(n, 128) THEN Empty ELSE Name("Must return a file"))

Weathers(c) == {0, 1, 2, 4, 8} \cup IF c.game = "Oblivion" THEN {3} ELSE {}

WeatherClassification(phase, n, c) == Classified(phase, n, n % 64, Weathers(c), Empty)

-----------------------------------------------------------------------------
(* Scaled, hexadecimal and hashed numbers.                                 *)

CloudSpeed(phase, n, c) ==
    CASE phase \in Shown -> Text("speed", n - 127)
      [] phase = "Validation" -> Empty
      [] OTHER -> NoText

ParseCloudSpeed(text) ==
    LET speed == Token(text, "speed")
    IN  IF speed.ok THEN Parsed(Min({speed.value + 127, 254})) ELSE Refused

\* Four decimals.
ScaledInt4(phase, n, c) ==
    CASE phase \in Shown -> Text("fixed", n)
      [] phase = "SortKey" -> Name(IF n < 0 THEN "-" ELSE "+") \o Text("fixed", n)
      [] phase = "Validation" -> Empty
      [] phase = "NativeValue" -> Decimal(n)
      [] OTHER -> NoText

ParseScaledInt4(text) == Token(text, "fixed")

HideFfff(phase, n, c) ==
    CASE phase \in {"Display", "Summary"} -> IF n = 65535 THEN Name("None") ELSE Decimal(n)
      [] phase = "SortKey" -> Hex(n)
      [] OTHER -> NoText

\* c.prefix: the edit text begins with a dollar sign; c.plain: the parser
\* expects the digits alone.
FixedHexInteger(phase, n, c) ==
    CASE phase \in {"Display", "Summary", "SortKey"} -> Hex(n)
      [] phase = "EditValue" -> (IF c.prefix THEN Name("$") ELSE Empty) \o Hex(n)
      [] phase = "NativeValue" -> Decimal(n)
      [] phase = "Validation" -> Empty
      [] OTHER -> NoText

ParsePlainHex(text) == OrElse(Token(text, "hex"), 0)

ParseFixedHex(text, c) == IF c.plain THEN ParsePlainHex(text) ELSE ParseInteger(text)

NextObjectId(phase, n, c) ==
    CASE phase \in {"Display", "SortKey"} -> Hex(n)
      [] phase = "EditValue" -> Name("$") \o Hex(n)
      [] phase \in {"Summary", "NativeValue", "Validation"} -> Empty
      [] OTHER -> NoText

\* c.nextObjectId is what the application knows of the plugin, 0 for nothing.
ParseNextObjectId(text, c) ==
    IF text = Name("?") THEN Parsed(IF c.nextObjectId = 0 THEN 2048 ELSE c.nextObjectId)
    ELSE U32(DelphiInteger(text))

\* c.resource is the file or folder the application knows by the hash.
ResourceHash(phase, n, c) ==
    CASE phase = "EditValue" -> Decimal(n)
      [] phase \in {"Display", "Summary", "SortKey"} -> IF c.resource = Empty THEN Text("hash", n) ELSE c.resource
      [] OTHER -> Empty

\* c.wwise is "unused" without a resolver, "unknown" when it does not know
\* the identifier, else "known" with a name and a path, both perhaps empty.
WwiseGuid(phase, n, c) ==
    LET canonical == Text("guid", n)
    IN  CASE phase \notin Shown \cup {"SortKey", "NativeValue"} -> NoText
          [] phase \in {"SortKey", "NativeValue"} \/ c.wwise = "unused" -> canonical
          [] phase \in Shown /\ c.wwise # "unused" ->
                 IF n = 0 THEN Empty
                 ELSE IF c.wwise = "unknown" THEN canonical
                 ELSE IF phase = "Summary" /\ c.wwiseName # Empty THEN c.wwiseName
                 ELSE c.wwiseName \o canonical \o c.wwisePath

\* What stands between the first braces, those of a name too.
ParseWwiseGuid(text) ==
    LET k == SelectInSeq(text, LAMBDA t : t[1] \in {"guid", "brace"})
    IN  IF text = Empty THEN Parsed(0) ELSE IF k = 0 THEN Refused ELSE Token(SubSeq(text, k, k), "guid")

-----------------------------------------------------------------------------
(* Lookup tables of <<value, name>>.                                       *)

IsLookupTable(table) ==
    /\ table # <<>>
    /\ \A i, j \in DOMAIN table : i # j => table[i][1] # table[j][1] /\ table[i][2] # table[j][2]

\* k is the place of the number's name, 0 for none.
LookupText(phase, n, k, c) ==
    CASE ~IsLookupTable(c.table) -> Failed
      [] phase \in Shown /\ k # 0 -> c.table[k][2]
      [] phase = "Display" -> Warning("unknown")
      [] phase = "Summary" -> IF c.angleSummary THEN Warning("unknown") ELSE Decimal(n)
      [] phase = "EditValue" -> Decimal(n)
      [] phase = "SortKey" -> Hex(n)
      [] phase = "NativeValue" -> Empty
      [] phase = "Validation" -> IF k = 0 /\ c.validates THEN Warning("unknown") ELSE Empty
      [] OTHER -> NoText

IntegerLookup(phase, n, c) == LookupText(phase, n, Valued(c.table, n), c)

ParseIntegerLookup(text, c) ==
    LET k == NamedInAnyCase(c.table, text)
    IN  IF ~IsLookupTable(c.table) THEN Refused
        ELSE IF k # 0 THEN Parsed(c.table[k][1]) ELSE DelphiInteger(text)

\* The numbers of the field and of the table are floats: they are compared,
\* and shown, by the integer next to them.
FloatBitsLookup(phase, n, c) ==
    LET value == HalfToEven(n)
    IN  LookupText(phase, value, SelectInSeq(c.table, LAMBDA e : HalfToEven(e[1]) = value), c)

ParseFloatBitsLookup(text, c) ==
    LET k == NamedInAnyCase(c.table, text)
        number == DelphiInteger(text)
    IN  IF ~IsLookupTable(c.table) THEN Refused
        ELSE IF k # 0 THEN Parsed(c.table[k][1])
        ELSE IF number.ok THEN Parsed(2 * number.value) ELSE Refused

\* A function and a member in the two halves of one number.
Half == 4

\* The distinct ones of these pairs of a value and its name, in the order they
\* are met: names that are numbers do not count, and one of two that
\* contradict each other fails.
EventComponents(pairs) ==
    LET Insert(names, pair) ==
            LET value == pair[1]
                name == pair[2]
                k == IF names.ok THEN Valued(names.value, value) ELSE 0
            IN  IF ~names.ok \/ name = Empty \/ DelphiInteger(name).ok THEN names
                ELSE IF k # 0 THEN IF names.value[k][2] = name THEN names ELSE Refused
                ELSE IF NamedInAnyCase(names.value, name) # 0 THEN Refused
                ELSE Parsed(Append(names.value, <<value, name>>))
    IN  FoldLeft(Insert, Parsed(<<>>), pairs)

EventFunctions(c) == EventComponents([k \in DOMAIN c.pairs |-> <<c.pairs[k][1] % Half, c.pairs[k][2]>>])
EventMembers(c) == EventComponents([k \in DOMAIN c.pairs |-> <<c.pairs[k][1] \div Half, c.pairs[k][3]>>])
EventNamesAreUsable(c) ==
    LET Usable(names) == names.ok /\ names.value # <<>> IN Usable(EventFunctions(c)) /\ Usable(EventMembers(c))

ComponentText(names, n) == LET k == Valued(names, n) IN IF k = 0 THEN Decimal(n) ELSE names[k][2]

EventFunctionMember(phase, n, c) ==
    LET functions == EventFunctions(c).value
        members == EventMembers(c).value
    IN  IF ~EventNamesAreUsable(c) THEN Failed
        ELSE CASE phase \in Shown -> ComponentText(functions, n % Half) \o Name(":") \o ComponentText(members, n \div Half)
               [] phase = "SortKey" -> Hex(n)
               [] phase = "NativeValue" -> Empty
               [] phase = "Validation" -> IF Valued(functions, n % Half) = 0 \/ Valued(members, n \div Half) = 0
                                          THEN Warning("unknown") ELSE Empty
               [] OTHER -> NoText

ParseEventComponent(names, text) ==
    LET k == NamedInAnyCase(names, text) IN IF k = 0 THEN DelphiInteger(text) ELSE Parsed(names[k][1])

ParseEventFunctionMember(text, c) ==
    LET colon == SelectInSeq(text, LAMBDA t : t = <<"name", ":">>)
        function == ParseEventComponent(EventFunctions(c).value, SubSeq(text, 1, colon - 1))
        member == ParseEventComponent(EventMembers(c).value, SubSeq(text, colon + 1, Len(text)))
    IN  IF ~EventNamesAreUsable(c) THEN Refused
        ELSE IF colon = 0 THEN Parsed(0)
        ELSE IF function.ok /\ member.ok THEN Parsed(function.value + Half * member.value) ELSE Refused

-----------------------------------------------------------------------------
(* The type of a condition: an operator in its upper bits, flags in its    *)
(* lower ones.                                                             *)

Operators == {0, 32, 64, 96, 128, 160}

Operator(n, c) == IF Legacy(c) THEN n - (n % 16) ELSE n - (n % 32)

\* The place of a flag in the edit text, by the bit of the flag.
\* Mutant: the bits of the older games are written in the order of the newer.
ModernTypeFlags(c) == <<<<1, 4>>, <<2, 5>>, <<4, 6>>>>
TypeFlags(c) ==
    IF Legacy(c) THEN <<<<1, 4>>, <<4, 5>>, <<2, 6>>>>
    ELSE <<<<1, 4>>, <<2, 5>>, <<4, 6>>, <<8, 7>>, <<16, 8>>>>

\* Equal, greater, lesser.
OperatorBits(n) ==
    CASE n - (n % 32) = 0 -> {1}
      [] n - (n % 32) = 64 -> {2}
      [] n - (n % 32) = 96 -> {1, 2}
      [] n - (n % 32) = 128 -> {3}
      [] n - (n % 32) = 160 -> {1, 3}
      [] OTHER -> {}

CtdaTypeEdit(n, c) == OperatorBits(n) \cup {flag[2] : flag \in {f \in ToSet(TypeFlags(c)) : Bit(n, f[1])}}

OddFlag(n, c) == IF Legacy(c) /\ Bit(n, 8) THEN Warning("flag") ELSE Empty

CtdaTypeWarning(n, c) == (IF Operator(n, c) \in Operators THEN Empty ELSE Warning("operator")) \o OddFlag(n, c)

CtdaType(phase, n, c) ==
    LET flags == {m \in {1, 2, 4} \cup IF Legacy(c) THEN {} ELSE {8, 16} : Bit(n, m)}
    IN  CASE phase \in {"Display", "Summary"} ->
                 (IF Operator(n, c) \in Operators THEN Text("operator", Operator(n, c)) ELSE Warning("operator"))
                 \o (IF flags = {} THEN Empty ELSE Text("flags", flags)) \o OddFlag(n, c)
          [] phase = "SortKey" -> Hex(n)
          [] phase = "EditValue" -> IF c.game = "Oblivion" THEN Decimal(n) ELSE Text("bits", CtdaTypeEdit(n, c))
          [] phase = "NativeValue" -> Decimal(n)
          [] phase = "Validation" -> CtdaTypeWarning(n, c)
          [] OTHER -> NoText

ParsedOperator(bits) ==
    LET operator == bits \cap {1, 2, 3}
    IN  CASE operator = {1, 2} -> 96
          [] operator = {1, 3} -> 160
          [] operator \in {{2, 3}, {}} -> 32
          [] operator = {2} -> 64
          [] operator = {3} -> 128
          [] OTHER -> 0

ParsedFlags(bits, c) ==
    SumSet({flag[1] : flag \in {f \in ToSet(TypeFlags(c)) : f[2] \in bits}})

\* Any text but one of bits has none.
ParseCtdaType(text, c) ==
    LET number == DelphiInteger(text)
        bits == OrElse(Token(text, "bits"), {}).value
    IN  IF c.game = "Oblivion" THEN IF number.ok /\ number.value >= 0 THEN number ELSE Refused
        ELSE Parsed(ParsedOperator(bits) + ParsedFlags(bits, c))

-----------------------------------------------------------------------------
(* Angles, dates, coordinates.                                             *)

\* Displayed in degrees; the edit text is the float itself.
AngleDegrees(phase, n, c) ==
    IF phase \in {"Display", "Summary"} THEN Text("degrees", Wrap(n, 360, 360)) ELSE Text("float", n)

ParseAngleDegrees(text) == Within(Token(text, "degrees"), -360, 360)

\* The full turn is no turn.
NormalizeRadians(n) == n % 360

TimestampDate(phase, n, c) ==
    IF phase \notin {"Display", "Summary"} THEN Text("bytes", n)
    ELSE IF n = 0 THEN Name("None")
    ELSE Text("date", <<2000 + ((n \div 512) % 128), (n \div 32) % 16, n % 32>>)

ParseTimestampDate(text) == IF text = Empty THEN Parsed(0) ELSE Token(text, "bytes")

Degree == 7200

HalfTurn(c) == IF c.latitude THEN 90 ELSE 180

\* Seconds rounded up to sixty are carried into the minutes, and those into
\* the degrees, which are negative in the south and west.
GeographicCoordinate(phase, n, c) ==
    LET half == HalfTurn(c) * Degree
        coordinate == Wrap(n, half, 2 * half)
        degrees == Signed(coordinate, Magnitude(coordinate) \div Degree)
        rest == Magnitude(coordinate) % Degree
        minutes == rest \div 120
        seconds == HalfToEven(rest % 120)
        carried == seconds = 60
        full == carried /\ minutes = 59
    IN  IF phase \notin {"Display", "Summary"} THEN Text("float", n)
        ELSE Text("coordinate",
                  <<Magnitude(IF full THEN degrees + 1 ELSE degrees),
                    IF full THEN 0 ELSE IF carried THEN minutes + 1 ELSE minutes,
                    IF carried THEN 0 ELSE seconds,
                    coordinate < 0>>)

\* Mutant: the direction is not read.
ParseUnsignedCoordinate(text, c) ==
    LET t == Token(text, "coordinate")
    IN  IF t.ok THEN Parsed(t.value[1] * Degree + t.value[2] * 120 + t.value[3] * 2) ELSE Refused

\* Half a turn east is half a turn west.
ParseGeographicCoordinate(text, c) ==
    LET t == Token(text, "coordinate")
        value == t.value[1] * Degree + t.value[2] * 120 + t.value[3] * 2
    IN  IF ~t.ok \/ value > HalfTurn(c) * Degree THEN Refused
        ELSE Parsed(IF t.value[4] \/ value = 180 * Degree THEN -value ELSE value)

-----------------------------------------------------------------------------
(* Perks of the older games.  c.perk is the entry point and function in    *)
(* the data before the field, NoLink without any; c.tables what the        *)
(* package says of them, counted from zero.                                *)

\* Mutant: a value that does not fit is shown with its warning only.
QuietPerkValue(phase, n, name, fits) ==
    CASE phase = "Display" -> name \o IF fits THEN Empty ELSE Warning("out of bounds")
      [] phase = "Validation" -> Empty
      [] OTHER -> name

KnownPerkValue(phase, n, name, fits) ==
    LET warning == IF fits THEN Empty ELSE Warning("out of bounds")
    IN  CASE phase = "Display" -> name \o warning
          [] phase \in {"Summary", "EditValue"} -> name
          [] phase = "Validation" -> warning
          [] OTHER -> Decimal(n)

\* The captions of the entry point's conditions, and the names of the
\* functions in its table; refused where the tables do not know it.
PerkCaptions(c) ==
    IF ~Has(c.tables.conditions, c.perk.entryPoint) THEN Refused
    ELSE LET condition == At(c.tables.conditions, c.perk.entryPoint)
         IN  IF Has(c.tables.captions, condition) THEN Parsed(At(c.tables.captions, condition)) ELSE Refused

PerkFunctionNames(c) ==
    IF ~Has(c.tables.entryTypes, c.perk.entryPoint) THEN Refused
    ELSE LET table == At(c.tables.functionTables, c.perk.entryPoint)
         IN  IF Has(c.tables.functionNames, table) THEN Parsed(At(c.tables.functionNames, table)) ELSE Refused

\* Functions come in types, and an entry point takes those of one type.
FitsEntryPoint(n, c) ==
    Has(c.tables.types, n) /\ At(c.tables.types, n) = At(c.tables.entryTypes, c.perk.entryPoint)

PerkRunOn(phase, n, c) ==
    LET captions == PerkCaptions(c)
    IN  IF ~captions.ok THEN Unresolved(phase, n, "unknown entry point")
        ELSE IF ~Has(captions.value, n) THEN Unresolved(phase, n, "out of bounds")
        ELSE IF At(captions.value, n) = Empty THEN Unresolved(phase, n, "out of bounds")
        ELSE KnownPerkValue(phase, n, At(captions.value, n), TRUE)

PerkFunction(phase, n, c) ==
    LET names == PerkFunctionNames(c)
    IN  IF ~names.ok THEN Unresolved(phase, n, "unknown entry point")
        ELSE IF ~Has(c.tables.types, n) THEN Unresolved(phase, n, "unknown function")
        ELSE KnownPerkValue(phase, n, At(names.value, n), FitsEntryPoint(n, c))

PerkParameterType(phase, n, c) ==
    IF ~Has(c.tables.types, c.perk.function) THEN Unresolved(phase, n, "unknown function")
    ELSE IF ~Has(c.tables.parameters, n) THEN Unresolved(phase, n, "unknown parameter type")
    ELSE KnownPerkValue(phase, n, At(c.tables.parameters, n), n = At(c.tables.parameterTypes, c.perk.function))

LegacyPerkContextual(h, phase, n, c) ==
    CASE phase = "SortKey" -> Hex(n)
      [] phase = "NativeValue" -> Empty
      [] phase \notin {"SortKey", "NativeValue"} ->
             IF c.perk = NoLink THEN Unresolved(phase, n, "could not resolve")
             ELSE CASE h = "run_on" -> PerkRunOn(phase, n, c)
                    [] h = "function" -> PerkFunction(phase, n, c)
                    [] h = "parameter_type" -> PerkParameterType(phase, n, c)

\* A number is taken as it is; a name only where it fits.
ParsePerkName(h, text, c) ==
    CASE h = "run_on" ->
             LET captions == PerkCaptions(c)
             IN  IF captions.ok THEN FirstOf({k \in DOMAIN captions.value : SameName(captions.value[k], text)}) ELSE Refused
      [] h = "function" ->
             LET names == PerkFunctionNames(c)
             IN  IF names.ok
                 THEN FirstOf({k \in DOMAIN names.value : SameName(names.value[k], text) /\ FitsEntryPoint(k - 1, c)})
                 ELSE Refused
      [] h = "parameter_type" ->
             LET named == FirstOf({k \in DOMAIN c.tables.parameters : SameName(c.tables.parameters[k], text)})
             IN  IF Has(c.tables.types, c.perk.function) /\ named.ok
                    /\ named.value = At(c.tables.parameterTypes, c.perk.function)
                 THEN named ELSE Refused

ParseLegacyPerkContextual(h, text, c) ==
    IF Len(text) = 1 /\ text[1][1] = "dec" THEN Parsed(text[1][2])
    ELSE IF text = Empty THEN IF h = "run_on" THEN Parsed(0) ELSE Refused
    ELSE IF c.perk = NoLink THEN Refused
    ELSE ParsePerkName(h, text, c)

-----------------------------------------------------------------------------

NoTarget == <<>>

-----------------------------------------------------------------------------
(* Navmeshes.  c.mesh is NoLink without scope or place in it; else whether *)
(* the edge's flag says it is external, how many triangles the mesh has,   *)
(* and its external links <<mesh, triangle>>.  c.meshes are the meshes the *)
(* resolver knows, with their number of triangles.                         *)

NoEdge == [known |-> FALSE]

\* triangle is negative and mesh 0 where there is none.
EdgeState(n, c) ==
    IF c.mesh = NoLink THEN NoEdge
    ELSE IF ~c.mesh.external THEN [known |-> TRUE, external |-> FALSE, triangle |-> n, mesh |-> 0]
    ELSE IF ~Has(c.mesh.links, n) THEN [known |-> TRUE, external |-> TRUE, triangle |-> -1, mesh |-> 0]
    ELSE LET link == At(c.mesh.links, n)
         IN  [known |-> TRUE, external |-> TRUE, triangle |-> link[2],
              mesh |-> IF link[1] \in DOMAIN c.meshes THEN link[1] ELSE 0]

\* The triangle of another mesh an edge leads to.
LeadsOut(state) == state.known /\ state.triangle >= 0 /\ state.mesh # 0

NavmeshEdge(phase, n, c) ==
    LET state == EdgeState(n, c)
        out == IF LeadsOut(state) THEN Text("in mesh", <<state.mesh, state.triangle>>) ELSE Empty
    IN  CASE phase \in {"Display", "Summary"} -> IF n < 0 THEN Name("None") ELSE Decimal(n) \o out
          [] phase = "SortKey" -> IF LeadsOut(state) THEN out
                                  ELSE IF ~state.known \/ state.external THEN Hex(0) \o Hex(n)
                                  ELSE Text("own mesh", c.ownMesh) \o Hex(n)
          [] phase = "EditValue" -> IF n < 0 THEN Empty ELSE Decimal(n)
          [] OTHER -> NoText

ParseNavmeshEdge(text) ==
    IF text = Empty \/ SameName(text, Name("None")) THEN Parsed(-1) ELSE OrElse(DelphiInteger(text), 0)

\* An edge can be followed to a triangle that is there.
ResolveNavmeshEdge(n, c) ==
    LET state == EdgeState(n, c)
    IN  CASE n < 0 \/ ~state.known -> NoTarget
          [] state.known /\ state.triangle < 0 -> NoTarget
          [] state.known /\ state.external ->
                 IF state.mesh # 0 /\ state.triangle < c.meshes[state.mesh]
                 THEN <<"mesh", state.mesh, state.triangle>> ELSE NoTarget
          [] OTHER -> IF state.triangle < c.mesh.triangles THEN <<"mesh", 0, state.triangle>> ELSE NoTarget

\* In the older games a local edge has no text but its number.
LegacyNavmeshEdge(phase, n, c) ==
    LET exists == Has(c.mesh.links, n)
        state == EdgeState(n, c)
    IN  CASE c.mesh = NoLink -> Empty
          [] phase \notin Shown \cup {"SortKey", "Validation"} -> NoText
          [] phase = "EditValue" -> Empty
          [] ~c.mesh.external -> IF phase \in {"Display", "Summary"} THEN Decimal(n) ELSE Empty
          [] phase \in {"Display", "Summary"} ->
                 Decimal(n) \o (IF LeadsOut(state) THEN Text("in mesh", <<state.mesh, state.triangle>>)
                                ELSE IF ~exists /\ phase = "Display" THEN Warning("missing") ELSE Empty)
          [] phase = "SortKey" -> IF LeadsOut(state) THEN Text("in mesh", <<state.mesh, state.triangle>>) ELSE Empty
          [] phase = "Validation" -> IF exists THEN Empty ELSE Warning("missing")

ParseLegacyNavmeshEdge(text) == DelphiInteger(text)

\* c.vertices is how many vertices are in scope, with their coordinates.
NavmeshVertex(phase, n, c) ==
    LET vertex == IF n >= 0 /\ Has(c.vertices, n) THEN Text("at", At(c.vertices, n)) ELSE Empty
    IN  CASE phase \in {"Display", "Summary"} -> Decimal(n) \o vertex
          [] phase = "SortKey" -> IF vertex = Empty THEN Hex(n) ELSE IF c.game \in Skyrims THEN vertex ELSE Empty
          [] phase = "EditValue" -> Decimal(n)
          [] OTHER -> NoText

ParseNavmeshVertex(text) == OrElse(DelphiInteger(text), 0)

\* c.target is what the reference beside the number leads to: "unknown",
\* "other", or "navmesh"; c.meshes[1] its triangles, if they are known.
NavmeshTriangle(phase, n, c) ==
    LET default == IF phase = "Validation" THEN Empty ELSE Decimal(n)
        warning == Warning("not a navmesh")
    IN  CASE phase = "SortKey" -> Hex(n)
          [] phase = "EditValue" -> Decimal(n)
          [] phase \notin {"Display", "Summary", "Validation"} -> NoText
          [] c.target = "other" -> IF phase = "Display" THEN Decimal(n) \o warning
                                   ELSE IF phase = "Validation" THEN warning ELSE default
          [] c.target = "unknown" \/ phase # "Validation" \/ n < 0 -> default
          [] OTHER -> IF 1 \in DOMAIN c.meshes /\ n >= c.meshes[1] THEN Warning("triangle not found") ELSE default

-----------------------------------------------------------------------------
(* Records by key and elements of records.                                 *)

\* c.index: the records the application finds by a key, per index.
IndexedRecord(index, key, c) ==
    IF <<index, key>> \in DOMAIN c.index THEN <<"record", c.index[<<index, key>>]>> ELSE NoTarget

\* Shown only: the name of what the link leads to.
NameOf(phase, link) == IF phase = "Display" /\ link # NoTarget THEN Text("name of", link) ELSE NoText

IndexedRecordName(phase, n, c) == NameOf(phase, IndexedRecord("simple_group", n, c))

AvmdIndexes == <<"simple_group", "complex_group", "modulation">>

\* An entry of a complex group names another record: by its own name, when
\* it has no value, else by the prefix of the value.
AvmdEntry(n, c) ==
    IF ~c.complex THEN NoTarget
    ELSE IF c.byName
    THEN LET found == SelectSeq(AvmdIndexes, LAMBDA i : IndexedRecord(i, n, c) # NoTarget)
         IN  IF c.hasValue \/ found = <<>> THEN NoTarget ELSE IndexedRecord(found[1], n, c)
    ELSE IF c.prefixIndex \in ToSet(AvmdIndexes) THEN IndexedRecord(c.prefixIndex, n, c) ELSE NoTarget

AvmdEntryReference(phase, n, c) == NameOf(phase, AvmdEntry(n, c))

\* c.reference is the record the node is on, "self", or "missing" beside a
\* node that needs one; c.nodes what the application knows: a summary or none.
SnapNode(n, c) ==
    IF c.reference # "missing" /\ <<c.reference, n>> \in DOMAIN c.nodes THEN <<"node", c.reference, n>> ELSE NoTarget

SnapNodeSummary(phase, n, c) ==
    LET node == SnapNode(n, c)
    IN  IF phase # "Display" \/ node = NoTarget THEN NoText
        ELSE IF c.nodes[<<c.reference, n>>] = Empty THEN NoText
        ELSE c.nodes[<<c.reference, n>>]

\* The first part of the blueprint with the number, in the order of the tree.
BlueprintComponent(n, c) ==
    LET k == SelectInSeq(c.parts, LAMBDA p : p.item /\ p.id = n)
    IN  IF n < 0 \/ k = 0 THEN NoTarget ELSE <<"part", k>>

BlueprintComponentSummary(phase, n, c) ==
    LET part == BlueprintComponent(n, c)
    IN  IF phase # "Display" \/ part = NoTarget THEN NoText
        ELSE Decimal(n) \o Hex(c.parts[part[2]].base)
             \o (IF c.parts[part[2]].construction = 0 THEN Empty ELSE Hex(c.parts[part[2]].construction))

\* An element of the array the package configures.
LocalArrayElement(n, c) ==
    IF n < 0 \/ ~c.arrayInScope \/ n >= c.elements THEN NoTarget ELSE <<"element", n>>

-----------------------------------------------------------------------------
(* Summaries of structures.  A form is shown by its name if it is known.   *)

FormText(form, c) == IF form \in c.forms THEN Text("form", form) ELSE Hex(form)

\* Nothing is summarised without the linked record.
LinkedSummary(phase, v, c, rest) ==
    IF phase # "Summary" \/ v.form \notin c.forms THEN NoText ELSE rest

ItemSummary(phase, v, c) == LinkedSummary(phase, v, c, Decimal(v.count) \o Text("form", v.form))

FactionRelation(phase, v, c) ==
    LinkedSummary(phase, v, c,
                  (IF c.game = "Oblivion" THEN Decimal(v.modifier) ELSE Text("reaction", v.reaction)) \o Text("form", v.form))

LinkedFloatProperty(phase, v, c) ==
    IF v.form \notin c.named THEN NoText
    ELSE LinkedSummary(phase, v, c,
             Text("form", v.form) \o Text("float", v.value)
                 \o (IF c.game \in {"Fallout76", "Starfield"} /\ v.curve \in c.forms
                     THEN Text("curve", v.curve) ELSE Empty))

\* c.lines are the lines of the source that are no comments, -1 without one.
ScriptSummary(phase, v, c) ==
    IF phase # "Summary" THEN NoText
    ELSE IF ~v.compiled THEN IF v.lines >= 0 THEN Name("Source not compiled") ELSE Name("Empty")
    ELSE IF v.lines <= 0 THEN Name("Source missing")
    ELSE IF v.lines = 1 THEN Name("the line") ELSE Decimal(v.lines)

\* Channels of a colour, coordinates of a vector.
Components(phase, v, n) ==
    IF phase # "Summary" THEN NoText ELSE Text("components", SubSeq(v, 1, n))

Rgb(phase, v, c) == Components(phase, v, IF c.alpha THEN 4 ELSE 3)
Vec3(phase, v, c) == Components(phase, v, 3)

-----------------------------------------------------------------------------
(* Conditions.  A parameter is NoLink where the selected variant of its    *)
(* union is not shown.                                                     *)

FunctionName(n, c) == LET k == Valued(c.functions, n) IN IF k = 0 THEN Empty ELSE c.functions[k][2]

CtdaFunction(phase, n, c) ==
    LET name == FunctionName(n, c)
    IN  CASE phase \in Shown /\ name # Empty -> name
          [] phase = "Display" -> Warning("unknown")
          [] phase = "Summary" -> IF c.game = "FalloutNv" THEN Warning("unknown") ELSE Decimal(n)
          [] phase = "EditValue" -> Decimal(n)
          [] phase = "SortKey" -> Hex(n)
          [] phase = "Validation" -> IF name = Empty THEN Warning("unknown") ELSE Empty
          [] phase = "NativeValue" -> Empty
          [] OTHER -> NoText

ParseCtdaFunction(text, c) ==
    LET k == NamedInAnyCase(c.functions, text) IN IF k = 0 THEN DelphiInteger(text) ELSE Parsed(c.functions[k][1])

ConditionFunctionText(n, c) ==
    IF FunctionName(n, c) # Empty THEN FunctionName(n, c)
    ELSE IF c.game = "FalloutNv" THEN Warning("unknown") \o Decimal(n) ELSE Decimal(n)

\* Whom the condition is about.
RunOnText(v, c) ==
    LET runOn == IF c.game = "FalloutNv" /\ v.function \in {106, 285} THEN 0 ELSE v.runOn
    IN  IF v.runOn < 0 \/ v.reference < 0
        THEN Name(IF Bit(v.type, 2) THEN "Target" ELSE "Subject")
        ELSE IF runOn = 2 THEN FormText(v.reference, c) ELSE Text("run on", v.runOn)

OperatorText(type) ==
    IF type - (type % 32) \in Operators THEN Text("operator", type - (type % 32)) ELSE Empty

ParameterTexts(v) ==
    IF v.first < 0 THEN Empty
    ELSE Text("first", v.first) \o IF v.second < 0 THEN Empty ELSE Text("second", v.second)

\* Joined to the next condition of the list, if there is one.
CtdaCondition(phase, v, c) ==
    IF phase \notin Shown \cup {"SortKey"} THEN NoText
    ELSE RunOnText(v, c) \o ConditionFunctionText(v.function, c) \o ParameterTexts(v)
         \o OperatorText(v.type) \o Text("comparison", v.comparison)
         \o (IF c.place + 1 < c.count THEN Name(IF Bit(v.type, 1) THEN "OR" ELSE "AND") ELSE Empty)

=============================================================================
