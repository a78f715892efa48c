---------------------------- MODULE StringTable ----------------------------
(***************************************************************************)
(* StringTable (strings.rs): the strings of one table by identifier, and   *)
(* the counter new identifiers come from.  Identifiers are machine words:  *)
(* the counter saturates at the last one, and from then on allocation      *)
(* looks for the lowest gap.  Identifier 0 is never allocated, but a       *)
(* caller or a file may use it.                                            *)
(***************************************************************************)
EXTENDS Integers

CONSTANTS
    MaxId,      \* the last identifier (u32::MAX)
    Payloads    \* what strings may hold

ASSUME StringTableAssumption == MaxId \in Nat \ {0}

VARIABLES
    entries,    \* identifier -> payload
    next_id,    \* the identifier to try first
    removed,    \* ghost: identifiers taken out since the table was built
    outcome     \* of the last call

tableVars == <<entries, next_id, removed, outcome>>

TableIds == 0..MaxId

-----------------------------------------------------------------------------
NoStrings == [id \in {} |-> {}]

Outcome(op, id) == [op |-> op, id |-> id]

InitTable ==
    /\ entries = NoStrings
    /\ next_id = 1
    /\ removed = {}
    /\ outcome = Outcome("new", 0)

Put(id, payload) ==
    [x \in DOMAIN entries \union {id} |-> IF x = id THEN payload ELSE entries[x]]

\* id.saturating_add(1)
Saturated(id) == IF id < MaxId THEN id + 1 ELSE MaxId

Raised(id) == IF Saturated(id) > next_id THEN Saturated(id) ELSE next_id

Insert(id, payload) ==
    /\ entries' = Put(id, payload)
    /\ next_id' = Raised(id)
    /\ removed' = removed \ {id}
    /\ outcome' = Outcome("inserted", id)

-----------------------------------------------------------------------------
\* try_insert_new.

First == IF next_id > 1 THEN next_id ELSE 1

\* The scan over the keys in ascending order stops at the first gap.
Gaps == (1..MaxId) \ DOMAIN entries
Lowest(id) == id \in Gaps /\ \A gap \in Gaps : id <= gap

\* Mutant: the counter is taken without a look at the entries.
FreshUnseen(id) == id = First

Fresh(id) == IF First \in DOMAIN entries THEN Lowest(id) ELSE id = First

TryInsertNew(payload) ==
    \E id \in TableIds :
        /\ Fresh(id)
        /\ entries' = Put(id, payload)
        /\ next_id' = Raised(id)
        /\ removed' = removed \ {id}
        /\ outcome' = Outcome("allocated", id)

Exhausted ==
    /\ \A id \in TableIds : ~Fresh(id)
    /\ outcome' = Outcome("exhausted", 0)
    /\ UNCHANGED <<entries, next_id, removed>>

-----------------------------------------------------------------------------
\* Mutant: the identifier of the last string is given back.
RemoveAndReuse(id) ==
    /\ id \in DOMAIN entries
    /\ entries' = [x \in DOMAIN entries \ {id} |-> entries[x]]
    /\ next_id' = IF id + 1 = next_id /\ id > 0 THEN id ELSE next_id
    /\ removed' = removed \union {id}
    /\ outcome' = Outcome("removed", id)

Remove(id) ==
    /\ id \in DOMAIN entries
    /\ entries' = [x \in DOMAIN entries \ {id} |-> entries[x]]
    /\ removed' = removed \union {id}
    /\ outcome' = Outcome("removed", id)
    /\ UNCHANGED next_id

\* The counter of a table that is filled from nothing.
Rebuilt(next) ==
    /\ next \in {1} \union {Saturated(id) : id \in DOMAIN entries}
    /\ next >= 1 /\ \A id \in DOMAIN entries : Saturated(id) <= next

\* The table is copied, or saved and opened: its entries are inserted into an
\* empty table.
Rebuild ==
    /\ \E next \in TableIds : Rebuilt(next) /\ next_id' = next
    /\ removed' = {}
    /\ outcome' = Outcome("rebuilt", 0)
    /\ UNCHANGED entries

NextTable ==
    \/ \E id \in TableIds, payload \in Payloads : Insert(id, payload)
    \/ \E payload \in Payloads : TryInsertNew(payload)
    \/ Exhausted
    \/ \E id \in TableIds : Remove(id)
    \/ Rebuild

TableSpec == InitTable /\ [][NextTable]_tableVars

-----------------------------------------------------------------------------
\* Properties.

\* Type invariant; identifiers never leave the machine word and the counter
\* never becomes 0.
TableTypeOK ==
    /\ DOMAIN entries \subseteq TableIds
    /\ entries \in [DOMAIN entries -> Payloads]
    /\ next_id \in 1..MaxId
    /\ removed \subseteq TableIds

\* The counter is above every identifier that is or was in the table, or has
\* saturated (insert, parse and remove, which leaves it alone).
NextIdIsAhead ==
    \A id \in DOMAIN entries \union removed : id < next_id \/ next_id = MaxId

\* A successful allocation takes a nonzero identifier that was free and leaves
\* every string where it is.
ReplacesNothing ==
    outcome'.op = "allocated" =>
        /\ outcome'.id \in DOMAIN entries' \ (DOMAIN entries \union {0})
        /\ \A id \in DOMAIN entries : entries'[id] = entries[id]

\* An allocation fails only when every nonzero identifier is taken.
RefusesWhenFull == outcome'.op = "exhausted" => 1..MaxId \subseteq DOMAIN entries

\* "Inserts payload under a fresh nonzero identifier without replacing an
\* entry" (strings.rs:243), as long as there is one: also where the counter has
\* saturated and the search has wrapped to the lowest gap.
AllocationFindsFreeIds == [][ReplacesNothing /\ RefusesWhenFull]_tableVars

\* Until the counter has saturated, try_insert_new never hands out an
\* identifier that was removed: a plugin may still refer to it.
RemovedIdsStayRetired ==
    [][outcome'.op = "allocated" /\ next_id < MaxId => outcome'.id \notin removed]_tableVars

=============================================================================
