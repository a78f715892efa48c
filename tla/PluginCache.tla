---------------------------- MODULE PluginCache ----------------------------
(***************************************************************************)
(* PluginCache (cache.rs): the records of several plugins, indexed by the  *)
(* plugin and object that own them.  A load order is part of the cache.    *)
(*                                                                         *)
(* A plugin is its kind, its masters and its records in depth-first order; *)
(* a record is its raw FormID, its signature and its EditorID.             *)
(***************************************************************************)
EXTENDS LoadOrder, SequencesExt

CONSTANTS
    Plugins,     \* plugins that may be added: [kind, masters, records]
    EditorIds,   \* EditorIDs callers ask for
    NoEditorId   \* the record has no readable EDID

\* The records of a plugin are a list, and nobody asks for an absent EditorID.
ASSUME CacheAssumption ==
    /\ NoEditorId \notin EditorIds
    /\ \A p \in Plugins :
          /\ p.kind \in Kinds
          /\ p.records \in Seq(ToSet(p.records))

\* No two records of a plugin have the same FormID (a null one aside).
OneRecordPerForm(plugin) ==
    \A i, j \in 1..Len(plugin.records) :
        (i # j /\ plugin.records[i].raw = plugin.records[j].raw)
            => IsNull(plugin.records[i].raw)

ASSUME PluginsAssumption == \A p \in Plugins : OneRecordPerForm(p)

VARIABLES
    cached,      \* the CacheEntry list: [name, plugin]
    byGlobal,    \* GlobalFormId -> [entry, raw, sig]
    bySignature, \* signature -> sequence of GlobalFormIds
    byEditorId   \* the lazily built index, or Unbuilt

cacheVars == <<cached, byGlobal, bySignature, byEditorId>>
vars == <<loadOrderVars, cacheVars>>

Unbuilt == [unbuilt |-> TRUE]

-----------------------------------------------------------------------------
Init ==
    /\ InitLoadOrder
    /\ cached = <<>>
    /\ byGlobal = <<>>
    /\ bySignature = <<>>
    /\ byEditorId = Unbuilt

\* The GlobalFormId, raw FormID and signature of every record of a plugin,
\* resolved in the load order that already contains it.  Null records and
\* those without an owner have none and are passed over.
Triples(name, plugin) ==
    [i \in 1..Len(plugin.records) |->
        LET r == plugin.records[i]
        IN  [global |-> IF IsNull(r.raw) THEN None
                        ELSE Resolve(r.raw, Lower[name], plugin.masters)',
             raw |-> r.raw, sig |-> r.sig]]

ListOf(sigs, sig) == IF sig \in DOMAIN sigs THEN sigs[sig] ELSE <<>>

\* Vec::retain of everything but g.
Without(list, g) ==
    LET upTo[n \in 0..Len(list)] ==
          IF n = 0 THEN <<>>
          ELSE IF list[n] = g THEN upTo[n - 1]
          ELSE Append(upTo[n - 1], list[n])
    IN  upTo[Len(list)]

\* Mutant: the list of the new signature is cleaned, not that of the old one.
IndexCleansNew(entry, index, t) ==
    LET clean == Set(index.sigs, t.sig, Without(ListOf(index.sigs, t.sig), t.global))
    IN  [global |-> Set(index.global, t.global,
                        [entry |-> entry, raw |-> t.raw, sig |-> t.sig]),
         sigs   |-> Set(clean, t.sig, Append(ListOf(clean, t.sig), t.global))]

\* One iteration of the indexing loop: the record leaves the list of the
\* signature it had, joins that of the one it has, and wins.
Index(entry, index, t) ==
    LET known == t.global \in DOMAIN index.global
        old   == index.global[t.global].sig
        clean == IF known
                 THEN Set(index.sigs, old, Without(index.sigs[old], t.global))
                 ELSE index.sigs
    IN  [global |-> Set(index.global, t.global,
                        [entry |-> entry, raw |-> t.raw, sig |-> t.sig]),
         sigs   |-> Set(clean, t.sig, Append(ListOf(clean, t.sig), t.global))]

\* The index after the first n triples, for every n.
IndexUpTo(entry, first, triples) ==
    LET upTo[n \in 0..Len(triples)] ==
          IF n = 0 THEN first
          ELSE IF triples[n].global = None THEN upTo[n - 1]
          ELSE Index(entry, upTo[n - 1], triples[n])
    IN  upTo

\* Mutant: the index starts over with every plugin.
IndexAllAnew(entry, triples) ==
    IndexUpTo(entry, [global |-> <<>>, sigs |-> <<>>], triples)[Len(triples)]

IndexAll(entry, triples) ==
    IndexUpTo(entry, [global |-> byGlobal, sigs |-> bySignature], triples)[Len(triples)]

\* The EditorID index after a plugin was added; mutant: it is kept.
IndexKept == byEditorId
Invalidated == Unbuilt

\* PluginCache::add.  A rejected push leaves the cache as it was.
Add(name, plugin) ==
    /\ Push(name, plugin.kind)
    /\ IF pushed' = "ok"
       THEN LET index == IndexAll(Len(cached) + 1, Triples(name, plugin))
            IN  /\ cached' = Append(cached, [name |-> Lower[name], plugin |-> plugin])
                /\ byGlobal' = index.global
                /\ bySignature' = index.sigs
                /\ byEditorId' = Invalidated
       ELSE UNCHANGED cacheVars

-----------------------------------------------------------------------------
\* Lookups.

NoRecord == [raw |-> FormId(0, 0), sig |-> "none", edid |-> NoEditorId]

\* Plugin::find_record: the first record with that raw FormID.
FindRecord(plugin, raw) ==
    LET hits == {i \in 1..Len(plugin.records) : plugin.records[i].raw = raw}
    IN  IF hits = {} THEN NoRecord ELSE plugin.records[Min(hits)]

ResolveRecord(g) ==
    IF g \in DOMAIN byGlobal
    THEN FindRecord(cached[byGlobal[g].entry].plugin, byGlobal[g].raw)
    ELSE NoRecord

RecordsOfType(sig) == {ResolveRecord(g) : g \in ToSet(ListOf(bySignature, sig))}

\* The records that won with the raw FormID of record k of entry i: the one
\* it was indexed under, when it is a winner.
WonBy(i, k) ==
    {g \in DOMAIN byGlobal :
        byGlobal[g].entry = i /\ byGlobal[g].raw = cached[i].plugin.records[k].raw}

\* The positions of the winning records that have an EditorID.
Winning ==
    UNION {{<<i, k>> : k \in {k \in 1..Len(cached[i].plugin.records) :
                                 /\ WonBy(i, k) # {}
                                 /\ cached[i].plugin.records[k].edid # NoEditorId}} :
           i \in 1..Len(cached)}

EditorIdAt(p) == cached[p[1]].plugin.records[p[2]].edid

\* q comes after p: in a later plugin, or later in the same one.
After(q, p) == q[1] > p[1] \/ (q[1] = p[1] /\ q[2] > p[2])

\* The last winning record with this EditorID.
LastNamed(edid) ==
    CHOOSE p \in Winning :
        /\ EditorIdAt(p) = edid
        /\ \A q \in Winning : EditorIdAt(q) = edid => ~After(q, p)

\* The closure of find_by_editor_id: later records overwrite earlier ones.
EditorIndex ==
    [edid \in {EditorIdAt(p) : p \in Winning} |->
        LET last == LastNamed(edid)
        IN  CHOOSE g \in WonBy(last[1], last[2]) : TRUE]

\* find_by_editor_id builds the index on its first call and keeps it.
FindByEditorId ==
    /\ byEditorId = Unbuilt
    /\ byEditorId' = EditorIndex
    /\ UNCHANGED <<loadOrderVars, cached, byGlobal, bySignature>>

EditorIdAnswer(edid) ==
    IF edid \in DOMAIN byEditorId THEN ResolveRecord(byEditorId[edid]) ELSE NoRecord

-----------------------------------------------------------------------------
AddPlugin ==
    \E name \in Names, plugin \in Plugins :
        Len(entries) < MaxEntries /\ Add(name, plugin)

Next == AddPlugin \/ FindByEditorId

Spec == Init /\ [][Next]_vars

-----------------------------------------------------------------------------
\* Properties.

\* The type lists partition the winning records: each record is in exactly one
\* list, once, that of the signature its winner has, however often overrides
\* changed its type ("ensures we clean the correct bucket", cache.rs:161), and
\* no list names a record that is not indexed.
TypeListsPartitionWinners ==
    /\ \A g \in DOMAIN byGlobal :
          \A s \in DOMAIN bySignature :
             Cardinality({i \in DOMAIN bySignature[s] : bySignature[s][i] = g})
                = IF s = byGlobal[g].sig THEN 1 ELSE 0
    /\ \A g \in DOMAIN byGlobal : byGlobal[g].sig \in DOMAIN bySignature
    /\ \A s \in DOMAIN bySignature : ToSet(bySignature[s]) \subseteq DOMAIN byGlobal

\* The plugin a raw FormID refers to had been loaded when entry i was added.
OwnerLoaded(raw, i) ==
    raw.file = EslFile =>
        EslSlot(raw) \in DOMAIN byLightSlot /\ byLightSlot[EslSlot(raw)] <= i

\* Every non-null record whose owner is known is indexed, and no later plugin
\* that defines it lost to an earlier one ("the plugin added later wins",
\* cache.rs:29).
LaterPluginWins ==
    \A i \in 1..Len(cached) :
        \A r \in ToSet(cached[i].plugin.records) :
            LET g == Resolve(r.raw, cached[i].name, cached[i].plugin.masters)
            IN  (~IsNull(r.raw) /\ OwnerLoaded(r.raw, i) /\ g # None)
                   => g \in DOMAIN byGlobal /\ byGlobal[g].entry >= i

\* Following an index entry into its plugin finds a record that resolves to
\* the FormID asked for.
LookupsFindTheirRecord ==
    \A g \in DOMAIN byGlobal :
        LET e == cached[byGlobal[g].entry]
            r == ResolveRecord(g)
        IN  r # NoRecord /\ Resolve(r.raw, e.name, e.plugin.masters) = g

\* An EditorID index never outlives the records it was built from ("
\* invalidated whenever a new plugin is added", cache.rs:34): at any time a
\* record found by its EditorID has that EditorID and is a winner, and every
\* EditorID of a winner is found.
EditorIdsFindWinners ==
    byEditorId # Unbuilt =>
        \A e \in EditorIds :
            LET having == {g \in DOMAIN byGlobal : ResolveRecord(g).edid = e}
            IN  IF having = {} THEN EditorIdAnswer(e) = NoRecord
                ELSE EditorIdAnswer(e).edid = e /\ byEditorId[e] \in having

\* Whichever way a caller asks, after any sequence of adds and lookups it gets
\* the record of the last plugin that defines it (add, resolve_record and
\* find_by_editor_id).
WinnersAreFound ==
    LaterPluginWins /\ LookupsFindTheirRecord /\ EditorIdsFindWinners

\* The cache implements the abstract promise of WinningOverrides: the winner
\* of a record only ever moves to a later plugin, whatever add indexes.
Overrides == INSTANCE WinningOverrides WITH
    loaded <- Len(cached),
    winner <- [g \in DOMAIN byGlobal |-> byGlobal[g].entry]

ImplementsOverrides == Overrides!Spec
=============================================================================
