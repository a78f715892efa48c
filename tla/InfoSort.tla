------------------------------- MODULE InfoSort -------------------------------
(***************************************************************************)
(* The order of the INFO records below a dialogue topic                    *)
(* (bethkit-semantic/src/info_sort.rs).  A PNAM field names the INFO that  *)
(* its record follows.  A plan walks the group of one topic through the    *)
(* plugins up to the target, places every record behind the latest version *)
(* of the one it follows, and keeps the records of the target.  Plans and  *)
(* edits of a PNAM are prepared from the plugins as they were opened,      *)
(* registered on a patcher, which may refuse the order, and written when   *)
(* the patcher is saved; several may be prepared before one is applied.    *)
(*                                                                         *)
(* A record is [id, signature, previous]: its identity in the load order,  *)
(* and its PNAM: none, one that is too short, null, one that resolves to   *)
(* nothing, or the identity of a record, in the group or elsewhere.        *)
(***************************************************************************)
EXTENDS Naturals, Sequences, FiniteSets, SequencesExt

CONSTANTS
    Loads,         \* the plugins that may be opened: sequences of plugins
    Topics,        \* the topics that are sorted
    Ids,           \* the records that are edited
    Links,         \* the previous records that edits ask for
    MaxCalls       \* the plans and edits that are prepared in all

VARIABLES
    files,      \* files[p]: the topic-child groups of plugin p, in order
    prepared,   \* the plans and edits that wait to be applied
    patcher,    \* patcher[p]: what is registered for plugin p
    applied,    \* applied[p]: what was applied since the last save
    result,     \* what the last call answered
    calls       \* how many plans and edits were prepared

vars == <<files, prepared, patcher, applied, result, calls>>

NoField == "no PNAM"
Short == "short"
NullLink == "null"
Unresolved == "unresolved"
NoFields == {NoField, Short, NullLink, Unresolved}

Refused == [status |-> "refused"]
Nothing == [status |-> "nothing"]
NoRecord == [id |-> "none"]
NoPatches == [records |-> <<>>, orders |-> <<>>]

-----------------------------------------------------------------------------

\* The groups of a plugin whose label resolves to the topic.
TopicGroups(file, dial) == {g \in DOMAIN file : file[g].topic = dial}

\* The groups of a plugin with a record of this identity.
GroupsHolding(file, id) ==
    {g \in DOMAIN file : \E i \in DOMAIN file[g].records : file[g].records[i].id = id}

\* One record of a group as a node of the sort; the edited record stands for
\* every record of its FormID in the target.
InfoNode(p, target, record, edited) ==
    [plugin |-> p,
     id |-> record.id,
     signature |-> record.signature,
     previous |-> IF p = target /\ record.id = edited.id THEN edited.previous
                  ELSE record.previous]

\* The records of the topic in all plugins up to the target, in load order.
InfoNodes(plugins, target, dial, edited) ==
    FlattenSeq([p \in 1..target |->
        FlattenSeq([g \in DOMAIN plugins[p] |->
            IF plugins[p][g].topic # dial THEN <<>>
            ELSE [i \in DOMAIN plugins[p][g].records |->
                     InfoNode(p, target, plugins[p][g].records[i], edited)]])])

\* The last node of each identity.
LatestByIdentity(nodes) ==
    [id \in {nodes[i].id : i \in DOMAIN nodes} |->
        CHOOSE i \in DOMAIN nodes :
            nodes[i].id = id /\ \A j \in DOMAIN nodes : nodes[j].id = id => j <= i]

\* Mutant: a record whose previous one is elsewhere goes to the end.
AppendStrangers(i, nodes, latest, ordered) ==
    IF nodes[i].previous \in DOMAIN latest
    THEN SelectInSeq(ordered, LAMBDA k : k = latest[nodes[i].previous]) + 1
    ELSE Len(ordered) + 1

\* Where a node goes, when the nodes that precede it are in place.
InsertionPoint(i, nodes, latest, ordered) ==
    LET previous == nodes[i].previous IN
    IF previous \in DOMAIN latest
    THEN IF latest[previous] \notin ToSet(ordered) THEN Len(ordered) + 1
         ELSE SelectInSeq(ordered, LAMBDA k : k = latest[previous]) + 1
    ELSE IF previous = NoField THEN Len(ordered) + 1
    ELSE 1

\* Mutant: a record that is met again is skipped.
RECURSIVE SkipCycles(_, _, _, _, _)
SkipCycles(i, nodes, latest, open, sort) ==
    LET previous == nodes[i].previous
        before == IF previous \in DOMAIN latest
                  THEN SkipCycles(latest[previous], nodes, latest, open \cup {i}, sort)
                  ELSE sort
    IN  IF i \in ToSet(sort.ordered) \/ i \in open THEN sort
        ELSE [before EXCEPT !.ordered =
                 InsertAt(@, InsertionPoint(i, nodes, latest, @), i)]

\* Places node i, the nodes that it follows first.  "open" are the nodes whose
\* placement has begun: to meet one of them again is a cycle.
RECURSIVE InsertInfoNode(_, _, _, _, _)
InsertInfoNode(i, nodes, latest, open, sort) ==
    LET previous == nodes[i].previous
        before == IF previous \in DOMAIN latest
                  THEN InsertInfoNode(latest[previous], nodes, latest, open \cup {i}, sort)
                  ELSE sort
    IN  IF sort.cyclic \/ i \in ToSet(sort.ordered) THEN sort
        ELSE IF i \in open THEN [sort EXCEPT !.cyclic = TRUE]
        ELSE IF before.cyclic THEN before
        ELSE [before EXCEPT !.ordered =
                 InsertAt(@, InsertionPoint(i, nodes, latest, @), i)]

\* All nodes in chain order, or the discovery of a cycle.
SortNodes(nodes) ==
    FoldLeft(LAMBDA sort, i : InsertInfoNode(i, nodes, LatestByIdentity(nodes), {}, sort),
             [ordered |-> <<>>, cyclic |-> FALSE],
             [i \in DOMAIN nodes |-> i])

RecordIds(records) == [i \in DOMAIN records |-> records[i].id]

\* The plan for the topic's group in the target plugin.
PlanWithOverride(plugins, target, dial, edited) ==
    LET nodes == InfoNodes(plugins, target, dial, edited)
        sort == SortNodes(nodes)
        own == SelectSeq(sort.ordered, LAMBDA i : nodes[i].plugin = target)
        ids == [k \in DOMAIN own |-> nodes[own[k]].id]
        g == CHOOSE g \in TopicGroups(plugins[target], dial) : TRUE
        current == RecordIds(plugins[target][g].records)
    IN  IF TopicGroups(plugins[target], dial) = {} THEN Nothing
        ELSE IF \/ \E p \in 1..target : Cardinality(TopicGroups(plugins[p], dial)) > 1
                \/ \E i \in DOMAIN nodes :
                       nodes[i].signature # "INFO" \/ nodes[i].previous = Short
                \/ sort.cyclic
                \/ Len(ids) # Len(current)
        THEN Refused
        ELSE [status |-> "planned", group |-> g, ids |-> ids, changed |-> ids # current]

\* plan_info_group_sort.
PlanInfoGroupSort(plugins, target, dial) ==
    PlanWithOverride(plugins, target, dial, NoRecord)

\* edit_info_previous: the record that gets the new PNAM and the plan for the
\* group that holds it, if sorting is on.
EditInfoPrevious(plugins, target, id, link, sortInfo) ==
    LET groups == GroupsHolding(plugins[target], id)
        g == CHOOSE g \in groups : TRUE
        group == plugins[target][g]
        record == group.records[SelectInSeq(group.records, LAMBDA r : r.id = id)]
        edited == [id |-> id, previous |-> link]
        plan == IF sortInfo THEN PlanWithOverride(plugins, target, group.topic, edited)
                ELSE Nothing
        answer(changed, order) ==
            [status |-> "edit", target |-> target, group |-> g, record |-> edited,
             changed |-> changed, plan |-> order, base |-> plugins]
    IN  IF Cardinality(groups) # 1 THEN Refused
        ELSE IF group.topic = Unresolved \/ record.previous = Short THEN Refused
        ELSE IF record.previous = link THEN answer(FALSE, Nothing)
        ELSE IF record.signature # "INFO" \/ plan = Refused THEN Refused
        ELSE answer(TRUE, plan)

-----------------------------------------------------------------------------

\* PluginPatcher.reorder_group_records: a complete order of a flat group
\* without duplicates.
AcceptsOrder(group, ids) ==
    /\ ~group.nested
    /\ IsInjective(RecordIds(group.records))
    /\ IsInjective(ids)
    /\ ToSet(ids) = ToSet(RecordIds(group.records))

\* InfoGroupSortPlan.apply: a plan that changes nothing is not registered.
NeedsOrder(plan) == plan.status = "planned" /\ plan.changed

\* What a patcher has registered once the record of an edit is.
WithRecord(patches, record) ==
    [patches EXCEPT !.records =
        [id \in DOMAIN @ \cup {record.id} |->
            IF id = record.id THEN record.previous ELSE @[id]]]

\* Mutant: a second order of a group is not registered.
FirstOrderStays(patches, g, ids) ==
    IF g \in DOMAIN patches.orders THEN patches
    ELSE [patches EXCEPT !.orders = [h \in DOMAIN @ \cup {g} |-> IF h = g THEN ids ELSE @[h]]]

WithOrder(patches, g, ids) ==
    [patches EXCEPT !.orders = [h \in DOMAIN @ \cup {g} |-> IF h = g THEN ids ELSE @[h]]]

\* InfoPreviousEdit.apply and InfoGroupSortPlan.apply: the record is registered
\* first, then the order, which the group may refuse.
ApplyTo(patches, file, job) ==
    LET recorded == IF job.record = NoRecord THEN patches ELSE WithRecord(patches, job.record)
        accepted == AcceptsOrder(file[job.group], job.plan.ids)
    IN  IF ~job.changed THEN [patches |-> patches, answer |-> "applied"]
        ELSE IF ~NeedsOrder(job.plan) THEN [patches |-> recorded, answer |-> "applied"]
        ELSE IF accepted
        THEN [patches |-> WithOrder(recorded, job.group, job.plan.ids), answer |-> "applied"]
        ELSE [patches |-> recorded, answer |-> "refused"]

\* PluginPatcher.write_to for the topic groups of one plugin, which are
\* siblings: a group is walked if one of its records is replaced or if it is
\* the first with an order; the order of another group is not written.
Written(file, patches) ==
    LET replace(r) == IF r.id \in DOMAIN patches.records
                      THEN [r EXCEPT !.previous = patches.records[r.id]] ELSE r
        walked(g) ==
            \/ \E i \in DOMAIN file[g].records : file[g].records[i].id \in DOMAIN patches.records
            \/ \A h \in DOMAIN patches.orders : g <= h
        ordered(g) ==
            IF g \in DOMAIN patches.orders /\ walked(g)
            THEN [k \in DOMAIN patches.orders[g] |->
                     file[g].records[SelectInSeq(file[g].records,
                                                 LAMBDA r : r.id = patches.orders[g][k])]]
            ELSE file[g].records
    IN  [g \in DOMAIN file |->
            [file[g] EXCEPT !.records = [i \in DOMAIN ordered(g) |-> replace(ordered(g)[i])]]]

-----------------------------------------------------------------------------

Init ==
    /\ files \in Loads
    /\ prepared = {}
    /\ patcher = [p \in DOMAIN files |-> NoPatches]
    /\ applied = [p \in DOMAIN files |-> <<>>]
    /\ result = "none"
    /\ calls = 0

\* The answer of a call that prepares something.
Prepare(job) ==
    /\ calls < MaxCalls
    /\ calls' = calls + 1
    /\ prepared' = IF job.status = "edit" THEN prepared \cup {job} ELSE prepared
    /\ result' = job.status
    /\ UNCHANGED <<files, patcher, applied>>

EditPrevious(p, id, link, sortInfo) ==
    Prepare(EditInfoPrevious(files, p, id, link, sortInfo))

SortGroup(p, dial) ==
    LET plan == PlanInfoGroupSort(files, p, dial) IN
    Prepare(IF plan.status # "planned" THEN plan
            ELSE [status |-> "edit", target |-> p, group |-> plan.group, record |-> NoRecord,
                  changed |-> plan.changed, plan |-> plan, base |-> files])

\* The group is the one the job was made for, in the plugin as it is now.
Apply(job) ==
    LET p == job.target
        outcome == ApplyTo(patcher[p], files[p], job)
    IN  /\ prepared' = prepared \ {job}
        /\ patcher' = [patcher EXCEPT ![p] = outcome.patches]
        /\ applied' = [applied EXCEPT ![p] = Append(@, job)]
        /\ result' = outcome.answer
        /\ UNCHANGED <<files, calls>>

\* The patched plugin is written and opened again.
Save(p) ==
    /\ applied[p] # <<>>
    /\ files' = [files EXCEPT ![p] = Written(@, patcher[p])]
    /\ patcher' = [patcher EXCEPT ![p] = NoPatches]
    /\ applied' = [applied EXCEPT ![p] = <<>>]
    /\ result' = "saved"
    /\ UNCHANGED <<prepared, calls>>

Next ==
    \/ \E p \in DOMAIN files, id \in Ids, link \in Links, sortInfo \in BOOLEAN :
           EditPrevious(p, id, link, sortInfo)
    \/ \E p \in DOMAIN files, dial \in Topics : SortGroup(p, dial)
    \/ \E job \in prepared : Apply(job)
    \/ \E p \in DOMAIN files : Save(p)

Spec == Init /\ [][Next]_vars

-----------------------------------------------------------------------------

\* The last version of each record up to the target.
LatestVersion(nodes) ==
    FoldLeft(LAMBDA seen, node : [id \in DOMAIN seen \cup {node.id} |->
                                     IF id = node.id THEN node ELSE seen[id]],
             <<>>, nodes)

\* The links between the latest versions of the records of a topic.
LinkTo(nodes) ==
    LET latest == LatestVersion(nodes) IN
    [id \in {i \in DOMAIN latest : latest[i].previous \in DOMAIN latest} |->
        latest[id].previous]

\* The records that a record follows, itself included.
Chain(link, id) ==
    LET reached[n \in Nat] ==
            IF n = 0 THEN {id}
            ELSE LET before == reached[n - 1] IN
                 before \cup {link[x] : x \in before \cap DOMAIN link}
    IN  reached[Cardinality(DOMAIN link)]

\* Some record follows itself.
Cyclic(link) == \E id \in DOMAIN link : id \in Chain(link, link[id])

\* The chain of the record begins with one that has a PNAM field.
HeadHasField(nodes, id) ==
    LET link == LinkTo(nodes)
        head == CHOOSE x \in Chain(link, id) : x \notin DOMAIN link
    IN  LatestVersion(nodes)[head].previous # NoField

\* Directly behind each record come all those that follow it; the chains that
\* begin with a PNAM come before the ones that begin without.
InChainOrder(ids, nodes) ==
    LET followers(i) == {k \in DOMAIN ids \ {i} : ids[i] \in Chain(LinkTo(nodes), ids[k])} IN
    /\ ~Cyclic(LinkTo(nodes))
    /\ \A i \in DOMAIN ids : followers(i) = (i + 1)..(i + Cardinality(followers(i)))
    /\ \A i, j \in DOMAIN ids :
           i < j /\ HeadHasField(nodes, ids[j]) => HeadHasField(nodes, ids[i])

\* A planned order keeps the records of every chain together, in the order of
\* their links, also where a chain runs through records of the masters only
\* (insert_info_node, info_sort.rs:520).
PlansKeepChains ==
    \A p \in DOMAIN files, dial \in Topics :
        LET plan == PlanInfoGroupSort(files, p, dial)
            nodes == InfoNodes(files, p, dial, NoRecord)
        IN  plan.status = "planned" /\ IsInjective(plan.ids) => InChainOrder(plan.ids, nodes)

\* Of groups that can be read, those are refused, and only those, in which the
\* latest versions of some records follow each other in a circle: a circle of
\* versions that a later plugin has overridden is none (info_sort.rs:530).
OnlyCyclesAreRefused ==
    \A p \in DOMAIN files, dial \in Topics :
        LET nodes == InfoNodes(files, p, dial, NoRecord)
            readable ==
                /\ TopicGroups(files[p], dial) # {}
                /\ \A q \in 1..p : Cardinality(TopicGroups(files[q], dial)) <= 1
                /\ \A i \in DOMAIN nodes :
                       nodes[i].signature = "INFO" /\ nodes[i].previous # Short
        IN  readable => (PlanInfoGroupSort(files, p, dial) = Refused <=> Cyclic(LinkTo(nodes)))

\* No record is followed by two, and at most one chain begins with a PNAM.
Unbranched(nodes) ==
    LET latest == LatestVersion(nodes)
        link == LinkTo(nodes)
    IN  /\ IsInjective(link)
        /\ Cardinality({id \in DOMAIN latest \ DOMAIN link : latest[id].previous # NoField}) <= 1

\* Once sorted, unbranched chains stay as they are: sorting the sorted group
\* plans no change (the "changed" flag, info_sort.rs:342).
SortedGroupsStay ==
    \A p \in DOMAIN files, dial \in Topics :
        LET plan == PlanInfoGroupSort(files, p, dial)
            nodes == InfoNodes(files, p, dial, NoRecord)
            sorted == [files EXCEPT ![p] = Written(@, WithOrder(NoPatches, plan.group, plan.ids))]
        IN  plan.status = "planned" /\ Unbranched(nodes) /\ IsInjective(plan.ids)
            => ~PlanInfoGroupSort(sorted, p, dial).changed

\* What plan_group_sort proposes is an order of the chains, and one that a
\* second sort would propose again.
PlansFollowTheLinks == PlansKeepChains /\ SortedGroupsStay

Saved(p) == applied[p] # <<>> /\ applied'[p] = <<>>

\* An edit or a sort that was prepared from the plugins as they are and is all
\* that was applied leaves the written group in chain order.
FreshSortsAreWritten ==
    \A p \in DOMAIN files :
        Saved(p) /\ Len(applied[p]) = 1 =>
              LET job == applied[p][1]
                  group == files'[p][job.group]
              IN  /\ job.base = files
                  /\ job.plan.status = "planned"
                  /\ AcceptsOrder(files[p][job.group], job.plan.ids)
                  => InChainOrder(RecordIds(group.records),
                                  InfoNodes(files', p, group.topic, NoRecord))

\* Whatever orders were registered, refused or not written besides, a save
\* keeps the records of every group and writes the last applied PNAM of each.
LastLinksAreWritten ==
    \A p \in DOMAIN files :
        Saved(p) =>
              \A g \in DOMAIN files[p] :
                  LET before == files[p][g].records
                      after == files'[p][g].records
                      edits(id) == SelectSeq(applied[p],
                                             LAMBDA j : j.changed /\ j.record.id = id)
                      expected(r) == IF edits(r.id) = <<>> THEN r
                                     ELSE [r EXCEPT !.previous = Last(edits(r.id)).record.previous]
                  IN  /\ Len(after) = Len(before)
                      /\ \A r \in ToSet(after) :
                             Cardinality({i \in DOMAIN after : after[i] = r})
                             = Cardinality({i \in DOMAIN before : expected(before[i]) = r})

\* Of the orders that a group took since the last save the last one is written,
\* whatever it was planned from: it replaces an order that was applied before
\* and that it did not know of, and a plan that had nothing to change, or that
\* the group refused, replaces none.  (Of orders of two sibling groups one may
\* not be written.)
LastOrdersAreWritten ==
    \A p \in DOMAIN files :
        LET orders == SelectSeq(applied[p], LAMBDA j : /\ j.changed /\ NeedsOrder(j.plan)
                                                      /\ AcceptsOrder(files[p][j.group], j.plan.ids))
        IN  /\ Saved(p)
            /\ orders # <<>>
            /\ \A j \in ToSet(orders) : j.group = Last(orders).group
            => RecordIds(files'[p][Last(orders).group].records) = Last(orders).plan.ids

\* What a patcher writes is what was applied to it, the last order and the last
\* link of each record (PreparedInfoEdit::apply, info_sort.rs:52, then
\* PluginPatcher::write_to).
AppliedLinksAreWritten ==
    [][FreshSortsAreWritten /\ LastLinksAreWritten /\ LastOrdersAreWritten]_vars

=============================================================================
