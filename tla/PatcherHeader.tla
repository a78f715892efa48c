--------------------------- MODULE PatcherHeader ---------------------------
(***************************************************************************)
(* The targeted TES4 header update of PluginPatcher (patcher_header.rs).   *)
(* The header record is a sequence of subrecord frames.  The loop walks    *)
(* the frames once and copies, rewrites or drops each of them according    *)
(* to what it has already seen; write_updated then decides whether the     *)
(* payload may stay zlib-compressed.                                       *)
(*                                                                         *)
(* A frame is [sig, val].  A HEDR frame's val says whether its counters    *)
(* are "stale" or "current" for the plugin's groups, or "short" when the   *)
(* frame is too small to hold them.  MAST and SNAM carry a name, every     *)
(* other frame an opaque value.                                            *)
(***************************************************************************)
EXTENDS Integers, SequencesExt

CONSTANTS
    Headers,      \* the header records that may be read: sequences of frames
    Patches,      \* the header patches the caller may register
    None,         \* an absent optional field of a patch
    MaxRounds     \* bound: how often the output is patched again

ASSUME HeaderAssumption ==
    /\ MaxRounds \in Nat \ {0}
    /\ \A h \in Headers : h \in Seq(ToSet(h))
    /\ \A p \in Patches : p.masters # None => p.masters \in Seq(ToSet(p.masters))

VARIABLES
    source,       \* the frames of the header record that was parsed
    zlib,         \* whether the source record carries the COMPRESSED flag
    patch,        \* the registered PluginHeaderPatch
    pos,          \* the next frame of source
    output,       \* the frames written so far
    seen,         \* which of "hedr", "masters", "description" were met
    followsMaster,\* whether the previous frame was a MAST
    status,       \* "walking", "built", "written" or "error"
    written,      \* the record write_updated emitted
    round         \* how many times a header has been patched

headerVars == <<source, zlib, patch, pos, output, seen, followsMaster, status,
                written, round>>

-----------------------------------------------------------------------------
\* What the walk distinguishes.

Frame(sig, val) == [sig |-> sig, val |-> val]

ReplacesMasters     == patch.masters # None
ReplacesDescription == patch.description # None

Sub == source[pos]

\* Mutant: any DATA is taken for a master's.
AnyData == Sub.sig = "DATA"

\* The DATA frame that belongs to the MAST before it.
MasterData == followsMaster /\ Sub.sig = "DATA"

\* append_masters: every master is followed by its eight zero bytes of DATA.
MasterFrames(names) ==
    FlattenSeq([i \in 1..Len(names) |->
                  <<Frame("MAST", names[i]), Frame("DATA", "zero")>>])

-----------------------------------------------------------------------------
InitHeader ==
    /\ source \in Headers
    /\ zlib \in BOOLEAN
    /\ patch \in Patches
    /\ pos = 1
    /\ output = <<>>
    /\ seen = {}
    /\ followsMaster = FALSE
    /\ status = "walking"
    /\ written = None
    /\ round = 1

Advance(frames) ==
    /\ output' = output \o frames
    /\ pos' = pos + 1
    /\ followsMaster' = (Sub.sig = "MAST")
    /\ UNCHANGED <<source, zlib, patch, written, round>>

Walking == status = "walking" /\ pos <= Len(source)

UpdatesHedr == Sub.sig = "HEDR" /\ "hedr" \notin seen

UpdateHedr ==
    /\ Walking /\ UpdatesHedr
    /\ Sub.val # "short"
    /\ Advance(<<Frame("HEDR", "current")>>)
    /\ seen' = seen \union {"hedr"}
    /\ UNCHANGED status

RejectShortHedr ==
    /\ Walking /\ UpdatesHedr
    /\ Sub.val = "short"
    /\ status' = "error"
    /\ UNCHANGED <<source, zlib, patch, pos, output, seen, followsMaster,
                   written, round>>

\* The first MAST becomes the whole replacement list, the others vanish.
ReplaceMaster ==
    /\ Walking /\ Sub.sig = "MAST" /\ ReplacesMasters
    /\ Advance(IF "masters" \in seen THEN <<>> ELSE MasterFrames(patch.masters))
    /\ seen' = seen \union {"masters"}
    /\ UNCHANGED status

DropMasterData ==
    /\ Walking /\ MasterData /\ ReplacesMasters
    /\ Advance(<<>>)
    /\ UNCHANGED <<seen, status>>

ReplacesThisDescription ==
    Sub.sig = "SNAM" /\ ReplacesDescription /\ "description" \notin seen

ReplaceDescription ==
    /\ Walking /\ ReplacesThisDescription
    /\ Advance(<<Frame("SNAM", patch.description)>>)
    /\ seen' = seen \union {"description"}
    /\ UNCHANGED status

CopyFrame ==
    /\ Walking
    /\ ~UpdatesHedr
    /\ ~(ReplacesMasters /\ (Sub.sig = "MAST" \/ MasterData))
    /\ ~ReplacesThisDescription
    /\ Advance(<<Sub>>)
    /\ UNCHANGED <<seen, status>>

\* The end of updated_payload: a missing HEDR is an error; a replacement
\* that met no frame to replace is appended, the description first.
FinishPayload ==
    /\ status = "walking" /\ pos > Len(source)
    /\ IF "hedr" \notin seen
       THEN /\ status' = "error"
            /\ UNCHANGED output
       ELSE /\ status' = "built"
            /\ output' = output
                 \o (IF ReplacesDescription /\ "description" \notin seen
                     THEN <<Frame("SNAM", patch.description)>> ELSE <<>>)
                 \o (IF ReplacesMasters /\ "masters" \notin seen
                     THEN MasterFrames(patch.masters) ELSE <<>>)
    /\ UNCHANGED <<source, zlib, patch, pos, seen, followsMaster, written, round>>

\* flags_set, then flags_clear, applied to the source record's flags.
PatchedFlags(flags) == (flags \union patch.flags_set) \ patch.flags_clear

SourceFlags == IF zlib THEN {"COMPRESSED"} ELSE {}

\* Mutant: the flag survives a payload that is written plain.
FlagsKept(flags) == flags

PlainFlags(flags) == flags \ {"COMPRESSED"}

\* write_updated: an unchanged compressed payload is copied as it is on disk,
\* any other payload is written plain with the COMPRESSED flag cleared.
WriteUpdated ==
    /\ status = "built"
    /\ LET flags == PatchedFlags(SourceFlags)
           keep  == "COMPRESSED" \in flags /\ zlib /\ output = source
       IN  written' = IF keep
                      THEN [flags |-> flags, body |-> "zlib", frames |-> source]
                      ELSE [flags |-> PlainFlags(flags),
                            body |-> "plain", frames |-> output]
    /\ status' = "written"
    /\ UNCHANGED <<source, zlib, patch, pos, output, seen, followsMaster, round>>

\* The written plugin is opened and patched again with the same patch.
PatchAgain ==
    /\ status = "written" /\ round < MaxRounds
    /\ source' = written.frames
    /\ zlib' = ("COMPRESSED" \in written.flags)
    /\ pos' = 1
    /\ output' = <<>>
    /\ seen' = {}
    /\ followsMaster' = FALSE
    /\ status' = "walking"
    /\ round' = round + 1
    /\ UNCHANGED <<patch, written>>

NextHeader ==
    \/ UpdateHedr \/ RejectShortHedr \/ ReplaceMaster \/ DropMasterData
    \/ ReplaceDescription \/ CopyFrame \/ FinishPayload
    \/ WriteUpdated \/ PatchAgain

HeaderSpec == InitHeader /\ [][NextHeader]_headerVars

-----------------------------------------------------------------------------
\* Properties.

FirstOf(s, sig) ==
    LET hits == {i \in 1..Len(s) : s[i].sig = sig}
    IN  IF hits = {} THEN 0 ELSE CHOOSE i \in hits : \A j \in hits : i <= j

\* What the header should become, frame by frame: the position of a frame
\* decides, no state of the walk.
Becomes(p, s, i) ==
    CASE s[i].sig = "HEDR" /\ i = FirstOf(s, "HEDR") -> <<Frame("HEDR", "current")>>
      [] s[i].sig = "MAST" /\ p.masters # None ->
            IF i = FirstOf(s, "MAST") THEN MasterFrames(p.masters) ELSE <<>>
      [] s[i].sig = "DATA" /\ p.masters # None /\ i > 1 /\ s[i - 1].sig = "MAST" -> <<>>
      [] s[i].sig = "SNAM" /\ p.description # None /\ i = FirstOf(s, "SNAM") ->
            <<Frame("SNAM", p.description)>>
      [] OTHER -> <<s[i]>>

Intended(p, s) ==
    FlattenSeq([i \in 1..Len(s) |-> Becomes(p, s, i)])
      \o (IF p.description # None /\ FirstOf(s, "SNAM") = 0
          THEN <<Frame("SNAM", p.description)>> ELSE <<>>)
      \o (IF p.masters # None /\ FirstOf(s, "MAST") = 0
          THEN MasterFrames(p.masters) ELSE <<>>)

\* Only the specified fields change: every other frame keeps its bytes and
\* its place ("Unrelated subrecord bytes and their order are preserved",
\* patcher.rs:208); and applying the patch again to what was written changes
\* nothing: no master, DATA or SNAM frame accumulates.
OnlySpecifiedFieldsChange ==
    status = "written" => /\ written.frames = Intended(patch, source)
                          /\ round > 1 => written.frames = source

\* A reader of the written record decompresses exactly the payloads that
\* are compressed, whatever flag bits the patch sets or clears.
CompressedFlagMatchesBody ==
    status = "written" =>
        (("COMPRESSED" \in written.flags) <=> (written.body = "zlib"))

=============================================================================
