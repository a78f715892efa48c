--------------------------- MODULE LocalizationSet ---------------------------
(***************************************************************************)
(* LocalizationSet (localized.rs) over the file system: sets of three      *)
(* string tables that are opened from sibling files, edited, copied        *)
(* (bethkit_localization_set_clone) and saved to the files of a language.  *)
(*                                                                         *)
(* A table that was opened borrows its strings from the mapped file; an    *)
(* edited string is owned.  A save truncates and writes the three files    *)
(* one after the other, and may fail, or the process may die, at any cell. *)
(* Other sets may be opened, also by other threads, while it runs.         *)
(*                                                                         *)
(* A file (strings.rs) is a sequence of cells: the number of strings, the  *)
(* size of the texts, an identifier and an offset for each string, and the *)
(* texts.  A cell is one byte of a text or one of the 32-bit words around  *)
(* them; a word that is cut counts as missing.                             *)
(***************************************************************************)
EXTENDS Integers, Sequences, FiniteSets
Seqs == INSTANCE SequencesExt
Sets == INSTANCE FiniteSetsExt

CONSTANTS
    Languages,
    Handles,           \* sets in memory
    Installed,         \* what may be installed: language -> kind -> table
    Ids, Texts,        \* identifiers and contents an edit may use
    MaxCalls           \* bound on edits and saves

KindOrder == <<"STRINGS", "DLSTRINGS", "ILSTRINGS">>
Kinds == Seqs!ToSet(KindOrder)

\* A table holds finitely many texts; identifiers are words, texts are bytes.
\* Sizes have no bound, so tables stay below the 4 GiB of the casts in write_to.
IsTable(table) ==
    /\ IsFiniteSet(DOMAIN table) /\ DOMAIN table \subseteq Nat
    /\ table \in [DOMAIN table -> Seq(Nat)]

\* "heap" marks the strings a set owns.
ASSUME LocalizationAssumption ==
    /\ \A stock \in Installed :
          /\ DOMAIN stock = Languages
          /\ \A lang \in Languages : /\ DOMAIN stock[lang] = Kinds
                                     /\ \A k \in Kinds : IsTable(stock[lang][k])
    /\ Ids \subseteq Nat /\ Texts \subseteq Seq(Nat)
    /\ "heap" \notin Languages

VARIABLES
    files,    \* language -> kind -> the cells of the file, or Absent
    sets,     \* handle -> kind -> identifier -> string, or NoSet
    save,     \* the save that runs, or NoSave
    stored,   \* ghost: language -> kind -> the table last written there
    origin,   \* ghost: the language a set was opened from, Heap for a copy
    event,    \* what the last step did, to which set and language
    calls     \* edits and saves so far

vars == <<files, sets, save, stored, origin, event, calls>>

-----------------------------------------------------------------------------
\* The format of a file.
Nul == 0
NoEntries == [id \in {} |-> <<>>]
Refused == 0    \* the end of a text that cannot be read

\* .DLSTRINGS and .ILSTRINGS store the length before the text.
LengthPrefixed(kind) == kind \in {"DLSTRINGS", "ILSTRINGS"}

-----------------------------------------------------------------------------
\* write_to.

\* One text in the file; the length counts the terminator.
Framed(kind, text) ==
    (IF LengthPrefixed(kind) THEN <<Len(text) + 1>> ELSE <<>>) \o text \o <<Nul>>

\* The identifiers in ascending order.
Ascending(S) ==
    CHOOSE s \in [1..Cardinality(S) -> S] : \A i, j \in DOMAIN s : i < j => s[i] < s[j]

Image(kind, table) ==
    LET ids       == Ascending(DOMAIN table)
        count     == Cardinality(DOMAIN table)
        blob(n)   == Seqs!FlattenSeq([i \in 1..n |-> Framed(kind, table[ids[i]])])
        directory == Seqs!FlattenSeq([i \in 1..count |-> <<ids[i], Len(blob(i - 1))>>])
    IN  <<count, Len(blob(count))>> \o directory \o blob(count)

-----------------------------------------------------------------------------
\* parse and from_bytes.

DirectoryFits(file) == Len(file) >= 2 /\ 2 + 2 * file[1] <= Len(file)
DirectoryId(file, i) == file[2 * i + 1]
DirectoryStart(file, i) == 2 + 2 * file[1] + file[2 * i + 2] + 1

\* Where the text at the given position starts, behind its length.
TextStart(kind, start) == IF LengthPrefixed(kind) THEN start + 1 ELSE start

\* Mutant: the end of the file ends a text, too.
TextEndLenient(kind, file, start) ==
    LET ends == {e \in start..Len(file) : file[e] = Nul}
    IN  IF start > Len(file) THEN Refused
        ELSE IF LengthPrefixed(kind)
        THEN start + (IF file[start] = 0 THEN 1 ELSE file[start])
        ELSE IF ends = {} THEN Len(file) + 1 ELSE Sets!Min(ends)

\* The position behind the text (read_payload).
TextEnd(kind, file, start) ==
    LET ends == {e \in start..Len(file) : file[e] = Nul}
    IN  IF start > Len(file) THEN Refused
        ELSE IF ~LengthPrefixed(kind)
        THEN IF ends = {} THEN Refused ELSE Sets!Min(ends)
        ELSE IF file[start] = 0 THEN start + 1
        ELSE IF start + file[start] > Len(file) THEN Refused
        ELSE start + file[start]

Parses(kind, file) ==
    /\ DirectoryFits(file)
    /\ \A i \in 1..file[1] : TextEnd(kind, file, DirectoryStart(file, i)) # Refused

\* The place of each string; the last entry of an identifier replaces others.
Ranges(kind, file) ==
    LET ids     == {DirectoryId(file, i) : i \in 1..file[1]}
        Newest(id) == Sets!Max({i \in 1..file[1] : DirectoryId(file, i) = id})
        Range_(start) == [at  |-> TextStart(kind, start),
                          len |-> TextEnd(kind, file, start) - TextStart(kind, start)]
    IN  [id \in ids |-> Range_(DirectoryStart(file, Newest(id)))]

Slice(file, range) == SubSeq(file, range.at, range.at + range.len - 1)

Parsed(kind, file) ==
    LET ranges == Ranges(kind, file)
    IN  [id \in DOMAIN ranges |-> Slice(file, ranges[id])]

-----------------------------------------------------------------------------
Absent == <<-1>>
Heap == "heap"

Owned(text) == [home |-> Heap, at |-> 1, len |-> Len(text), text |-> text]
Borrowed(lang, range) ==
    [home |-> lang, at |-> range.at, len |-> range.len, text |-> <<>>]

NoSet == [k \in {} |-> NoEntries]
NoSave == [set |-> "none"]
Event(op, h, lang) == [op |-> op, set |-> h, lang |-> lang]
Quiet == Event("quiet", "none", "none")

IsOpen(h) == sets[h] # NoSet

\* The mapping behind a borrowed string is backed by the file to its last
\* byte.
Readable(kind, s) ==
    s.home = Heap \/ s.len = 0 \/ s.at + s.len - 1 <= Len(files[s.home][kind])

\* What a string reads as.  Behind the end of a file that was truncated under
\* its mapping a read gives zeros within the last page (and faults beyond it).
Text(kind, s) ==
    IF s.home = Heap THEN s.text
    ELSE LET file == files[s.home][kind]
         IN  [i \in 1..s.len |-> IF s.at + i - 1 <= Len(file) THEN file[s.at + i - 1]
                                                             ELSE Nul]

Contents(table, kind) == [id \in DOMAIN table |-> Text(kind, table[id])]

-----------------------------------------------------------------------------
\* Languages of which a plugin comes with some files, possibly not all.
Init ==
    /\ stored \in Installed
    /\ files = [lang \in Languages |-> [k \in Kinds |->
                  IF stored[lang][k] = NoEntries THEN Absent
                                                 ELSE Image(k, stored[lang][k])]]
    /\ sets = [h \in Handles |-> NoSet]
    /\ save = NoSave
    /\ origin = [h \in Handles |-> Heap]
    /\ event = Quiet
    /\ calls = 0

Opened(lang, kind) ==
    IF files[lang][kind] = Absent THEN NoEntries
    ELSE LET ranges == Ranges(kind, files[lang][kind])
         IN  [id \in DOMAIN ranges |-> Borrowed(lang, ranges[id])]

FileParses(lang, kind) ==
    files[lang][kind] = Absent \/ Parses(kind, files[lang][kind])

Open(h, lang) ==
    /\ ~IsOpen(h)
    /\ \A k \in Kinds : FileParses(lang, k)
    /\ sets' = [sets EXCEPT ![h] = [k \in Kinds |-> Opened(lang, k)]]
    /\ origin' = [origin EXCEPT ![h] = lang]
    /\ event' = Event("opened", h, lang)
    /\ UNCHANGED <<files, save, stored, calls>>

OpenFails(h, lang) ==
    /\ ~IsOpen(h)
    /\ \E k \in Kinds : ~FileParses(lang, k)
    /\ event' = Event("refused", h, lang)
    /\ UNCHANGED <<files, sets, save, stored, origin, calls>>

\* LocalizationSet::set, one of apply_edits, insert_new or remove.
Edit(h) ==
    /\ IsOpen(h) /\ save.set # h
    /\ calls < MaxCalls
    /\ \E k \in Kinds, id \in Ids :
          \/ \E text \in Texts :
                sets' = [sets EXCEPT ![h][k] =
                            [x \in DOMAIN @ \union {id} |->
                                IF x = id THEN Owned(text) ELSE @[x]]]
          \/ /\ id \in DOMAIN sets[h][k]
             /\ sets' = [sets EXCEPT ![h][k] = [x \in DOMAIN @ \ {id} |-> @[x]]]
    /\ calls' = calls + 1
    /\ event' = Event("edited", h, "none")
    /\ UNCHANGED <<files, save, stored, origin>>

AllReadable(h) ==
    \A k \in Kinds : \A id \in DOMAIN sets[h][k] : Readable(k, sets[h][k][id])

\* Mutant: the copy shares the mapping of the original.
CloneShared(h, copy) ==
    /\ IsOpen(h) /\ ~IsOpen(copy)
    /\ sets' = [sets EXCEPT ![copy] = sets[h]]
    /\ origin' = [origin EXCEPT ![copy] = Heap]
    /\ event' = Event("cloned", copy, "none")
    /\ UNCHANGED <<files, save, stored, calls>>

Clone(h, copy) ==
    /\ IsOpen(h) /\ ~IsOpen(copy)
    /\ sets' = [sets EXCEPT ![copy] =
                  [k \in Kinds |-> [id \in DOMAIN sets[h][k] |->
                                       Owned(Text(k, sets[h][k][id]))]]]
    /\ origin' = [origin EXCEPT ![copy] = Heap]
    /\ event' = Event("cloned", copy, "none")
    /\ UNCHANGED <<files, save, stored, calls>>

Drop(h) ==
    /\ IsOpen(h) /\ save.set # h
    /\ sets' = [sets EXCEPT ![h] = NoSet]
    /\ event' = Quiet
    /\ UNCHANGED <<files, save, stored, origin, calls>>

-----------------------------------------------------------------------------
\* LocalizationSet::write.

SaveStarts(h, lang) ==
    /\ IsOpen(h) /\ save = NoSave
    /\ calls < MaxCalls
    /\ calls' = calls + 1
    /\ save' = [set |-> h, lang |-> lang, kind |-> 1, phase |-> "create", left |-> <<>>]
    /\ event' = Quiet
    /\ UNCHANGED <<files, sets, stored, origin>>

SavedKind == KindOrder[save.kind]

\* File::create of the next file.
CreateFile ==
    /\ save # NoSave /\ save.phase = "create"
    /\ files' = [files EXCEPT ![save.lang][SavedKind] = <<>>]
    /\ save' = [save EXCEPT !.phase = "build"]
    /\ event' = Quiet
    /\ UNCHANGED <<sets, stored, origin, calls>>

Unreadable ==
    LET table == sets[save.set][SavedKind]
    IN  {id \in DOMAIN table : ~Readable(SavedKind, table[id])}

\* write_to collects the strings of the table.
BuildImage ==
    /\ save # NoSave /\ save.phase = "build"
    /\ Unreadable = {}
    /\ LET table == Contents(sets[save.set][SavedKind], SavedKind)
       IN  /\ save' = [save EXCEPT !.phase = "write", !.left = Image(SavedKind, table)]
           /\ stored' = [stored EXCEPT ![save.lang][SavedKind] = table]
    /\ event' = Quiet
    /\ UNCHANGED <<files, sets, origin, calls>>

\* The process dies: it reads a mapping of the file it has just truncated, or
\* is killed.
Dead(reason) ==
    /\ sets' = [h \in Handles |-> NoSet]
    /\ save' = NoSave
    /\ event' = Event(reason, "none", "none")
    /\ UNCHANGED <<files, stored, origin, calls>>

Fault ==
    /\ save # NoSave /\ save.phase = "build"
    /\ Unreadable # {}
    /\ Dead("fault")

\* A copy that reads behind the end of a file.
CloneFaults(h) == IsOpen(h) /\ ~AllReadable(h) /\ Dead("fault")

Killed == save # NoSave /\ Dead("killed")

WriteCell ==
    /\ save # NoSave /\ save.phase = "write"
    /\ files' = [files EXCEPT ![save.lang][SavedKind] = Append(@, Head(save.left))]
    /\ IF Len(save.left) > 1
       THEN save' = [save EXCEPT !.left = Tail(@)] /\ event' = Quiet
       ELSE IF save.kind < Len(KindOrder)
       THEN /\ save' = [save EXCEPT !.kind = @ + 1, !.phase = "create", !.left = <<>>]
            /\ event' = Quiet
       ELSE save' = NoSave /\ event' = Event("saved", save.set, save.lang)
    /\ UNCHANGED <<sets, stored, origin, calls>>

\* An I/O error: the files that were written stay.
SaveFails ==
    /\ save # NoSave /\ save.phase \in {"create", "write"}
    /\ save' = NoSave
    /\ event' = Event("Io", save.set, save.lang)
    /\ UNCHANGED <<files, sets, stored, origin, calls>>

Next ==
    \/ \E h \in Handles, lang \in Languages :
          Open(h, lang) \/ OpenFails(h, lang) \/ SaveStarts(h, lang)
    \/ \E h \in Handles : Edit(h) \/ Drop(h) \/ CloneFaults(h)
    \/ \E h, copy \in Handles : Clone(h, copy)
    \/ CreateFile \/ BuildImage \/ Fault \/ Killed \/ WriteCell \/ SaveFails

Spec == Init /\ [][Next]_vars

-----------------------------------------------------------------------------
\* Properties.

\* A zero-terminated string cannot hold a zero.
Representable(kind, table) ==
    kind = "STRINGS" => \A id \in DOMAIN table : Nul \notin Seqs!ToSet(table[id])

\* However a save was cut off, a table that opens is one that was stored as a
\* whole: truncated or half-written files are refused (parse_directory and
\* read_payload), never read as a shorter table.
OpenedTablesAreWhole ==
    [][event'.op = "opened" =>
         \A k \in Kinds :
            LET table == stored[event'.lang][k]
            IN  Representable(k, table) =>
                    Contents(sets'[event'.set][k], k) =
                        IF files[event'.lang][k] = Absent THEN NoEntries ELSE table]_vars

\* The strings of a set change only through edits of that set, unless the
\* files it was opened from are being saved to; those of a copy never do
\* ("Later mutations affect only the copy", bethkit-ffi/src/strings.rs:353).
AllContents(h) == [k \in Kinds |-> Contents(sets[h][k], k)]

OtherSetsAreUntouched ==
    [][\A h \in Handles :
          (/\ IsOpen(h) /\ sets'[h] # NoSet
           /\ event' # Event("edited", h, "none")
           /\ save = NoSave \/ origin[h] # save.lang)
            => AllContents(h)' = AllContents(h)]_vars

=============================================================================
