--------------------------- MODULE PluginPatcher ---------------------------
(***************************************************************************)
(* PluginPatcher (patcher.rs): sparse edits registered against a parsed    *)
(* plugin and written out as a stream.  Groups without a registered edit   *)
(* below them are copied from the source bytes, the others are walked and  *)
(* get a recomputed size.                                                  *)
(*                                                                         *)
(* A plugin is a tree of groups and records.  The stream is a sequence of  *)
(* pieces, one per header or record; the length of a piece counts          *)
(* abstract units of bytes, so that a group size can be right or wrong.    *)
(* The frames of the TES4 header are the subject of PatcherHeader; here    *)
(* the header piece carries what depends on the groups: its counters.      *)
(***************************************************************************)
EXTENDS Integers, SequencesExt

CONSTANTS
    Plugins,      \* parsed plugins, see IsPlugin
    Replacements, \* record bodies a caller may register: [name, len]
    MasterCounts, \* sizes of the replacement master lists
    FormIds,      \* FormIDs a caller may name: [file, object]
    U32,          \* how many values a u32 has: group sizes are written modulo U32
    MaxOrder      \* bound: longest order list passed to the patcher

MaxObjectId == 2 ^ 24 - 1
MinNextId   == 2049       \* 0x801

-----------------------------------------------------------------------------
\* The parsed tree t: the children of each group, the FormID of each record,
\* and the source range of both, start inclusive and end exclusive.

Groups(t)  == DOMAIN t.kids
Records(t) == DOMAIN t.form
Nodes(t)   == Groups(t) \union Records(t)

SubGroups(t, g)  == ToSet(t.kids[g]) \intersect Groups(t)
OwnRecords(t, g) == ToSet(t.kids[g]) \intersect Records(t)
FormsOf(t, g)    == {t.form[r] : r \in OwnRecords(t, g)}

\* parse_children: a node starts where the one before it ends.
OneBehindTheOther(t, list) ==
    \A i, j \in DOMAIN list : i < j => t.end[list[i]] <= t.start[list[j]]

Within(t, list, first, last) ==
    \A n \in ToSet(list) : first <= t.start[n] /\ t.end[n] <= last

\* Children lie in the range of their group, behind its header, and every node
\* is a child in exactly one place.
IsPlugin(t) ==
    /\ IsFiniteSet(Nodes(t)) /\ Groups(t) \intersect Records(t) = {}
    /\ t.top \in Seq(Groups(t))
    /\ t.kids \in [Groups(t) -> Seq(Nodes(t))]
    /\ t.form \in [Records(t) -> FormIds]
    /\ t.length \in Nat
    /\ t.start \in [Nodes(t) -> 0..t.length] /\ t.end \in [Nodes(t) -> 0..t.length]
    /\ \A n \in Nodes(t) : t.start[n] < t.end[n]
    /\ OneBehindTheOther(t, t.top)
    /\ \A g \in Groups(t) :
          /\ OneBehindTheOther(t, t.kids[g])
          /\ Within(t, t.kids[g], t.start[g] + 1, t.end[g])
          /\ ToSet(t.kids[g]) \intersect ToSet(t.top) = {}
    /\ \A g, h \in Groups(t) : ToSet(t.kids[g]) \intersect ToSet(t.kids[h]) # {} => g = h
    /\ Nodes(t) = ToSet(t.top) \union UNION {ToSet(t.kids[g]) : g \in Groups(t)}
    /\ t.next \in Nat /\ t.masters \in Nat
    /\ "top" \notin Nodes(t)

ASSUME PatcherAssumption ==
    /\ \A t \in Plugins : IsPlugin(t)
    /\ \A b \in Replacements : b.name # "source" /\ b.len \in Nat \ {0}
    /\ \A f \in FormIds : f.object \in 0..MaxObjectId
    /\ MasterCounts \subseteq Nat
    /\ U32 \in Nat /\ U32 > 1
    /\ MaxOrder \in Nat

VARIABLES
    patcher,      \* [plugin, patches, groupOrders, headerPatch]: the borrowed
                  \* plugin; FormID -> replacement body; group -> registered
                  \* order of its records; <<>> or <<number of masters>>
    out,          \* what the last write_to put into its writer
    result        \* outcome of the last call

vars == <<patcher, out, result>>

-----------------------------------------------------------------------------
Below(t) ==
    LET below[g \in Groups(t)] == {g} \union UNION {below[s] : s \in SubGroups(t, g)}
    IN  below

RecordsBelow(t, g) == UNION {OwnRecords(t, h) : h \in Below(t)[g]}

AllGroups(t)  == UNION {Below(t)[g] : g \in ToSet(t.top)}
AllRecords(t) == UNION {RecordsBelow(t, g) : g \in ToSet(t.top)}

-----------------------------------------------------------------------------
\* The stream.

SourceBody == [name |-> "source", len |-> 1]

RecordPiece(r, body) == [kind |-> "record", node |-> r, body |-> body, size |-> body.len]
GroupPiece(g, size)  == [kind |-> "group", node |-> g, body |-> SourceBody, size |-> size]
HeaderPiece(count, next, masters) ==
    [kind |-> "tes4", node |-> <<count, next, masters>>, body |-> SourceBody, size |-> 1]

PieceLen(piece) == IF piece.kind = "record" THEN piece.size ELSE 1

\* The length of the first i pieces, and of all of them.
LengthUpTo(s) ==
    LET upTo[i \in 0..Len(s)] == IF i = 0 THEN 0 ELSE upTo[i - 1] + PieceLen(s[i])
    IN  upTo
StreamLen(s) == LengthUpTo(s)[Len(s)]

\* Mutant: the size of the source group is kept.
WithSourceSize(g, children) == <<GroupPiece(g, 1 + Len(children))>> \o children

\* A group header is 1 unit long; its size counts itself and the children, and
\* is cast to a u32.
WithGroupHeader(g, children) ==
    <<GroupPiece(g, (1 + StreamLen(children)) % U32)>> \o children

\* Group::source_bytes.  By SourceAssumption the cast changes no size here.
Verbatim(t) ==
    LET copy[g \in Groups(t)] ==
          WithGroupHeader(g, FlattenSeq([i \in 1..Len(t.kids[g]) |->
            LET n == t.kids[g][i]
            IN  IF n \in Groups(t) THEN copy[n] ELSE <<RecordPiece(n, SourceBody)>>]))
    IN  copy

\* The sizes of the source were read from u32 fields (group.rs:196).
ASSUME SourceAssumption ==
    \A t \in Plugins : \A g \in Groups(t) : StreamLen(Verbatim(t)[g]) < U32

\* write_record
WriteRecord(p, r) ==
    LET f == p.plugin.form[r]
    IN  RecordPiece(r, IF f \in DOMAIN p.patches THEN p.patches[f] ELSE SourceBody)

\* Mutant: only direct records mark their group.
PatchTouchedDirectly(p) ==
    {g \in Groups(p.plugin) :
        \E r \in OwnRecords(p.plugin, g) : p.plugin.form[r] \in DOMAIN p.patches}

\* mark_touched: the groups with a patched record anywhere below them.
PatchTouched(p) ==
    {g \in Groups(p.plugin) :
        \E r \in RecordsBelow(p.plugin, g) : p.plugin.form[r] \in DOMAIN p.patches}

\* mark_reordered: `any` stops at the first subgroup that reports a reorder,
\* so the subgroups after it are not visited and not marked.
MarkReordered(p) ==
    LET kids == p.plugin.kids
        mark[g \in Groups(p.plugin)] ==
          LET subs    == {i \in DOMAIN kids[g] : kids[g][i] \in Groups(p.plugin)}
              hits    == {i \in subs : mark[kids[g][i]].reordered}
              visited == {i \in subs : \A j \in hits : i <= j}
              here    == g \in DOMAIN p.groupOrders \/ hits # {}
          IN  [reordered |-> here,
               touched   |-> (UNION {mark[kids[g][i]].touched : i \in visited})
                               \union (IF here THEN {g} ELSE {})]
    IN  mark

Touched(p) ==
    PatchTouched(p) \union UNION {MarkReordered(p)[g].touched : g \in ToSet(p.plugin.top)}

\* group.records().find: the first direct record of g with FormID f.  There is
\* one, as the plugin is borrowed and the order was checked when registered.
RecordWithForm(t, g, f) ==
    t.kids[g][Min({i \in DOMAIN t.kids[g] :
                     t.kids[g][i] \in Records(t) /\ t.form[t.kids[g][i]] = f})]

\* The children write_group visits, in the order it visits them.
Visited(p, g) ==
    IF g \in DOMAIN p.groupOrders
    THEN [i \in 1..Len(p.groupOrders[g]) |-> RecordWithForm(p.plugin, g, p.groupOrders[g][i])]
    ELSE p.plugin.kids[g]

\* write_group
WriteGroup(p, touched) ==
    LET write[g \in Groups(p.plugin)] ==
          IF g \notin touched THEN Verbatim(p.plugin)[g]
          ELSE WithGroupHeader(g, FlattenSeq([i \in 1..Len(Visited(p, g)) |->
                 LET n == Visited(p, g)[i]
                 IN  IF n \in Groups(p.plugin) THEN write[n] ELSE <<WriteRecord(p, n)>>]))
    IN  write

\* updated_payload's counters, over every group and record of the plugin.
OwnIndex(p) == IF p.headerPatch = <<>> THEN p.plugin.masters ELSE p.headerPatch[1]

\* Mutant: groups are not counted.
RecordCountOnly(t) == Cardinality(AllRecords(t))

\* The error for more than u32::MAX groups and records is left out: their
\* headers alone would be 96 GiB.
RecordCount(t) == Cardinality(AllGroups(t)) + Cardinality(AllRecords(t))

NextObjectId(p) ==
    LET own == {p.plugin.form[r].object : r \in
                  {r \in AllRecords(p.plugin) : p.plugin.form[r].file = OwnIndex(p)}}
    IN  Max({p.plugin.next, MinNextId} \union {o + 1 : o \in own})

SourceHeader(t) == HeaderPiece(t.count, t.next, t.masters)

WriteHeader(p, touched) ==
    IF p.headerPatch # <<>> \/ touched # {}
    THEN HeaderPiece(RecordCount(p.plugin), NextObjectId(p), OwnIndex(p))
    ELSE SourceHeader(p.plugin)

\* The top-level groups, each as write makes it.
TopGroups(t, write) == FlattenSeq([i \in 1..Len(t.top) |-> write[t.top[i]]])

\* Everything write_to hands to a writer that accepts every byte.
SourceStream(t) == <<SourceHeader(t)>> \o TopGroups(t, Verbatim(t))

NothingRegistered(p) ==
    DOMAIN p.patches = {} /\ DOMAIN p.groupOrders = {} /\ p.headerPatch = <<>>

Stream(p) ==
    IF NothingRegistered(p) THEN SourceStream(p.plugin)
    ELSE <<WriteHeader(p, Touched(p))>> \o TopGroups(p.plugin, WriteGroup(p, Touched(p)))

-----------------------------------------------------------------------------
\* The calls.

Init ==
    /\ \E t \in Plugins :
          patcher = [plugin |-> t, patches |-> <<>>, groupOrders |-> <<>>, headerPatch |-> <<>>]
    /\ out = <<>>
    /\ result = "new"

Put(f, k, v) == [x \in DOMAIN f \union {k} |-> IF x = k THEN v ELSE f[x]]

ReplaceRecord ==
    \E f \in FormIds, body \in Replacements :
        /\ patcher' = [patcher EXCEPT !.patches = Put(patcher.patches, f, body)]
        /\ result' = "ok"
        /\ out' = <<>>

\* The checks of reorder_group_records.
OrderError(t, g, order) ==
    CASE SubGroups(t, g) # {} -> "nested groups"
      [] \E r, s \in OwnRecords(t, g) : r # s /\ t.form[r] = t.form[s] -> "duplicate in group"
      [] ~(IsInjective(order) /\ ToSet(order) \subseteq FormsOf(t, g)) -> "bad order"
      [] Len(order) # Cardinality(FormsOf(t, g)) -> "incomplete order"
      [] OTHER -> "ok"

ReorderGroupRecords ==
    \E g \in Groups(patcher.plugin), order \in UNION {[1..n -> FormIds] : n \in 0..MaxOrder} :
        /\ result' = OrderError(patcher.plugin, g, order)
        /\ patcher' = IF result' = "ok"
                      THEN [patcher EXCEPT !.groupOrders = Put(patcher.groupOrders, g, order)]
                      ELSE patcher
        /\ out' = <<>>

\* A patch without masters keeps the original list.
PatchHeader ==
    \E n \in MasterCounts \union {patcher.plugin.masters} :
        /\ patcher' = [patcher EXCEPT !.headerPatch = <<n>>]
        /\ result' = "ok"
        /\ out' = <<>>

WriteTo ==
    /\ out' = Stream(patcher)
    /\ result' = "written"
    /\ UNCHANGED patcher

\* The writer fails after some of the pieces; the patcher is unchanged and
\* may be asked to write again.
WriteToFails ==
    \E n \in 0..(Len(Stream(patcher)) - 1) :
        /\ out' = SubSeq(Stream(patcher), 1, n)
        /\ result' = "io error"
        /\ UNCHANGED patcher

Next ==
    \/ ReplaceRecord \/ ReorderGroupRecords \/ PatchHeader
    \/ WriteTo \/ WriteToFails

Spec == Init /\ [][Next]_vars

-----------------------------------------------------------------------------
\* Properties.

\* What the stream promises: every edit applied, as if every group were
\* walked ("explicitly reordered groups are re-serialised", patcher.rs:9).
IntendedGroups(p) == TopGroups(p.plugin, WriteGroup(p, Groups(p.plugin)))

\* Every registered replacement and order appears in the written stream.
EveryEditIsWritten ==
    result = "written" => Tail(out) = IntendedGroups(patcher)

\* g is a group with a registered order, or leads to one.
Reordered(p, g) == Below(p.plugin)[g] \intersect DOMAIN p.groupOrders # {}

\* At most one subgroup of each group leads to a registered order.
NoSiblingReorders(p) ==
    \A g \in Groups(p.plugin) : \A r, s \in SubGroups(p.plugin, g) :
        Reordered(p, r) /\ Reordered(p, s) => r = s

\* As long as no two sibling groups are both reordered, every edit is in the
\* stream, and a failed write leaves a prefix of it.
EditsAreWrittenWithoutSiblingReorders ==
    NoSiblingReorders(patcher) =>
        /\ result = "written" => Tail(out) = IntendedGroups(patcher)
        /\ (result = "io error" /\ out # <<>>) => IsPrefix(Tail(out), IntendedGroups(patcher))

\* The offset at which a reader finds piece i.
Offset(s, i) == LengthUpTo(s)[i - 1]

\* The size that group i declares covers piece j.
Encloses(s, i, j) ==
    /\ s[i].kind = "group" /\ i < j
    /\ Offset(s, j) < Offset(s, i) + s[i].size

\* The group a reader takes to be the direct parent of piece j: the innermost
\* one whose declared size still covers it.
ReadParent(s, j) ==
    LET around == {i \in 1..(j - 1) : Encloses(s, i, j)}
    IN  IF around = {} THEN "top"
        ELSE s[CHOOSE i \in around : \A k \in around : k <= i].node

ParentOf(t, n) ==
    IF n \in ToSet(t.top) THEN "top"
    ELSE CHOOSE g \in Groups(t) : n \in ToSet(t.kids[g])

\* Reading stream s, every group and record is found in the group it came
\* from, what a group covers ends inside of it, and no node is lost or doubled.
FindsTree(t, s) ==
    LET body == {i \in 1..Len(s) : s[i].kind # "tes4"}
    IN  /\ \A i \in body : ReadParent(s, i) = ParentOf(t, s[i].node)
        /\ \A i, j \in body : Encloses(s, i, j) =>
              Offset(s, j) + s[j].size <= Offset(s, i) + s[i].size
        /\ {s[i].node : i \in body} = AllGroups(t) \union AllRecords(t)
        /\ Cardinality(body) = RecordCount(t)

\* Every group that is walked is short enough for its size to be a u32.
SizesFit(p) == \A g \in Touched(p) : StreamLen(WriteGroup(p, Touched(p))[g]) < U32

\* A reader of the written stream finds the same tree ("Group sizes are
\* recomputed from the actual emitted children", patcher.rs:11), whatever the
\* sizes of the replacements, exactly if every walked group fits a u32: one
\* group that the replacements make longer is cut off by the cast
\* (patcher.rs:329), and no other size then hides it from a reader.
ReaderFindsTheSameTree ==
    result = "written" => (SizesFit(patcher) <=> FindsTree(patcher.plugin, out))

\* Whenever a write re-serialises a group it also recounts the header, and
\* the counters fit the stream: each group and record is counted and no
\* record of the plugin itself has an object ID at or above the next one.
HeaderCountsTheStream ==
    (result = "written" /\ Tail(out) # Tail(SourceStream(patcher.plugin))) =>
        LET header == out[1].node
        IN  /\ header[1] = Len(out) - 1
            /\ header[2] >= patcher.plugin.next
            /\ \A i \in 2..Len(out) :
                  out[i].kind = "record" =>
                     LET f == patcher.plugin.form[out[i].node]
                     IN  f.file = header[3] => f.object < header[2]

=============================================================================
