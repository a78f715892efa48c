---------------------------- MODULE PluginWriter ----------------------------
(***************************************************************************)
(* PluginWriter (writer.rs): builds a plugin from scratch, may move its    *)
(* records into the light FormID range (eslify) and serialises it, to      *)
(* memory or to a file.                                                    *)
(*                                                                         *)
(* Records are those of module Eslify, with an identity (id) that only     *)
(* their author knows.  set_localized and set_description set a field that *)
(* is copied to the header and are left out.                               *)
(***************************************************************************)
EXTENDS Eslify

CONSTANTS
    Groups,        \* groups a caller may add
    MasterNames,   \* masters a caller may add
    MaxGroups, MaxMasters, MaxEslify,  \* bounds on the calls
    Contexts,      \* game contexts: [light, min], see supports_light and
                   \* light_min_object_id
    DefaultNextId, \* 0x800
    U8             \* the master count is cast to u8

ASSUME WriterAssumption ==
    /\ \A c \in Contexts : c.light \in BOOLEAN /\ c.min \in 1..(EslObjects - 1)
    /\ U8 \in Nat \ {0}

\* The records of the groups a caller builds: one FormID for each record,
\* none in the light range yet, and a reference holds the FormID of the
\* record it means.
ASSUME GroupsAssumption ==
    /\ \A g \in Groups : g \in Seq(ToSet(g))
    /\ \A r, q \in UNION {ToSet(g) : g \in Groups} :
          /\ {"id", "form", "words"} \subseteq DOMAIN r
          /\ r.form.file \in (0..(U8 - 1)) \ {EslFile} /\ r.form.object \in Nat
          /\ r.id = q.id => r = q
          /\ r.form = q.form => r = q
          /\ \A i \in 1..Len(r.words) :
                /\ {"kind", "form", "to"} \subseteq DOMAIN r.words[i]
                /\ r.words[i].kind = "ref" /\ r.words[i].to = q.id => r.words[i].form = q.form

VARIABLES
    ctx,         \* the game context of the writer
    masters,     \* header.masters
    groups,      \* the groups added so far
    light,       \* light_flag_set
    memory,      \* the last result of write_to_vec
    file,        \* what write_to_file left on disk
    outcome,     \* the last call and how it ended
    eslified     \* how often eslify succeeded

vars == <<ctx, masters, groups, light, memory, file, outcome, eslified>>

-----------------------------------------------------------------------------
EslMax == EslObjects - 1
EslCapacity == EslMax - ctx.min + 1

MasterCount == Len(masters) % U8

-----------------------------------------------------------------------------
\* Serialisation.

OwnObjects(gs, count) == {AllRecords(gs)[i].form.object : i \in Owned(gs, count)}

\* Mutant: the highest object ID itself.
LastObjectId(gs, count) ==
    IF Owned(gs, count) = {} THEN DefaultNextId ELSE Max(OwnObjects(gs, count))

NextObjectId(gs, count) ==
    IF Owned(gs, count) = {} THEN DefaultNextId ELSE 1 + Max(OwnObjects(gs, count))

Tes4 == [masters |-> masters, light |-> light,
         count |-> Len(AllRecords(groups)),
         next |-> NextObjectId(groups, MasterCount)]

Serialised == [tes4 |-> Tes4, groups |-> groups, complete |-> TRUE]

NoFile == [complete |-> FALSE]

-----------------------------------------------------------------------------
Init ==
    /\ ctx \in Contexts
    /\ masters = <<>> /\ groups = <<>>
    /\ light = FALSE
    /\ memory = NoFile /\ file = NoFile
    /\ outcome = "new"
    /\ eslified = 0

AddMaster ==
    /\ Len(masters) < MaxMasters
    /\ \E name \in MasterNames : masters' = Append(masters, name)
    /\ outcome' = "edited"
    /\ UNCHANGED <<ctx, groups, light, memory, file, eslified>>

\* Groups are moved into the writer: the caller has each of them once.
AddGroup ==
    /\ Len(groups) < MaxGroups
    /\ \E g \in Groups :
          /\ \A i \in 1..Len(groups) :
                {r.id : r \in ToSet(groups[i])} \cap {r.id : r \in ToSet(g)} = {}
          /\ groups' = Append(groups, g)
    /\ outcome' = "edited"
    /\ UNCHANGED <<ctx, masters, light, memory, file, eslified>>

EslifyUnsupported ==
    /\ ~ctx.light
    /\ outcome' = "UnsupportedGame"
    /\ UNCHANGED <<ctx, masters, groups, light, memory, file, eslified>>

EslifyTooMany ==
    /\ ctx.light
    /\ Cardinality(Owned(groups, MasterCount)) > EslCapacity
    /\ outcome' = "EslRecordLimitExceeded"
    /\ UNCHANGED <<ctx, masters, groups, light, memory, file, eslified>>

Eslify ==
    /\ eslified < MaxEslify
    /\ ctx.light
    /\ Cardinality(Owned(groups, MasterCount)) <= EslCapacity
    /\ groups' = EslifiedGroups(groups, MasterCount, ctx.min)
    /\ light' = TRUE
    /\ outcome' = "eslified"
    /\ eslified' = eslified + 1
    /\ UNCHANGED <<ctx, masters, memory, file>>

WriteToVec ==
    /\ memory' = Serialised
    /\ outcome' = "written"
    /\ UNCHANGED <<ctx, masters, groups, light, file, eslified>>

WriteToFile ==
    /\ file' = Serialised
    /\ outcome' = "written"
    /\ UNCHANGED <<ctx, masters, groups, light, memory, eslified>>

\* write_to_file fails: the file cannot be created and keeps its old content,
\* or it is truncated and receives nothing, or the header and some groups.
WriteToFileFails ==
    /\ file' \in {file, NoFile}
                  \union {[tes4 |-> Tes4, groups |-> SubSeq(groups, 1, n),
                           complete |-> FALSE] : n \in 0..Len(groups)}
    /\ outcome' = "Io"
    /\ UNCHANGED <<ctx, masters, groups, light, memory, eslified>>

Next ==
    \/ AddMaster \/ AddGroup
    \/ EslifyUnsupported \/ EslifyTooMany \/ Eslify
    \/ WriteToVec \/ WriteToFile \/ WriteToFileFails

Spec == Init /\ [][Next]_vars

-----------------------------------------------------------------------------
\* Properties.

\* The records of the writer by identity.
Written(id) == CHOOSE r \in ToSet(AllRecords(groups)) : r.id = id
Present == {r.id : r \in ToSet(AllRecords(groups))}

\* After one eslify no two records of the plugin share a FormID, all of them
\* fit the light range, and every aligned reference still names the record it
\* was meant for, wherever the records stand ("internal FormID
\* cross-references are also updated", writer.rs:251).
ReferencesFollowTheirRecords ==
    (outcome = "eslified" /\ eslified = 1) =>
        /\ \A a, b \in Present : a # b => Written(a).form # Written(b).form
        /\ \A a \in Present :
              Written(a).form.file = EslFile =>
                  Written(a).form.object \in ctx.min..EslMax
        /\ \A r \in ToSet(AllRecords(groups)) :
            \A w \in ToSet(r.words) :
                (w.kind = "ref" /\ w.to \in Present) => w.form = Written(w.to).form

\* The header of a serialised plugin fits its records: it counts them, and a
\* new record numbered from next collides with none of the plugin's own, as
\* long as the plugin has not been moved to the light range.
HeaderFitsRecords ==
    \A p \in {memory, file} :
        p # NoFile =>
            /\ p.complete => p.tes4.count = Len(AllRecords(p.groups))
            /\ ~p.tes4.light =>
                 \A r \in ToSet(AllRecords(p.groups)) :
                    r.form.file = Len(p.tes4.masters) => r.form.object < p.tes4.next

=============================================================================
