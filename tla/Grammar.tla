------------------------------ MODULE Grammar ------------------------------
(***************************************************************************)
(* The ordered matching of a record's subrecords against its schema        *)
(* (grammar.rs).  A subrecord is [sig, v, enc]: its signature and the      *)
(* value and text codec of its payload.  A schema node is one of the       *)
(* records below; a path is the sequence of its steps.  Expressions are    *)
(* abstracted to the value of one field read at the current position.      *)
(***************************************************************************)
EXTENDS Integers, Sequences, SequencesExt

Subrecord(path, sig, required) ==
    [kind |-> "subrecord", path |-> path, sig |-> sig, required |-> required]

Sequence(path, kids) == [kind |-> "sequence", path |-> path, required |-> FALSE, kids |-> kids]

Unordered(path, kids) == [kind |-> "unordered", path |-> path, required |-> FALSE, kids |-> kids]

Choice(path, kids) == [kind |-> "choice", path |-> path, kids |-> kids]

\* The alternative is the value of the last assigned field with path selector.
SelectedChoice(path, selector, kids) ==
    [kind |-> "selected", path |-> path, selector |-> selector, kids |-> kids]

\* A negative maximum is no limit.
Repeat(path, minimum, maximum, kid) ==
    [kind |-> "repeat", path |-> path, minimum |-> minimum, maximum |-> maximum, kids |-> <<kid>>]

-----------------------------------------------------------------------------
RECURSIVE Leaves(_)

\* The subrecord nodes below node in schema order.
Leaves(node) ==
    IF node.kind = "subrecord"
    THEN <<node>>
    ELSE FoldLeft(LAMBDA found, kid : found \o Leaves(kid), <<>>, node.kids)

Declared(root) == {leaf.sig : leaf \in Range(Leaves(root))}

-----------------------------------------------------------------------------
(* A match state: the next subrecord, the assignments so far in order, the *)
(* repeats entered, the repeats with too few occurrences, and whether an   *)
(* expression failed.                                                      *)

Start == [cursor |-> 1, history |-> <<>>, scopes |-> <<>>, violations |-> <<>>, failed |-> FALSE]

Failed(state) == [state EXCEPT !.failed = TRUE]

Assigned(state) == Len(state.history)

MatchesMore(a, b) ==
    \/ Assigned(a) > Assigned(b)
    \/ Assigned(a) = Assigned(b) /\ a.cursor > b.cursor

\* The best of the candidates, the earliest of those that match alike.
Best(candidates, state) ==
    IF \E candidate \in Range(candidates) : candidate.failed
    THEN Failed(state)
    ELSE FoldLeft(LAMBDA best, c : IF MatchesMore(c, best) THEN c ELSE best, state, candidates)

NextDeclared(subs, from, declared) ==
    LET known == {i \in from..Len(subs) : subs[i].sig \in declared}
    IN  IF known = {} THEN Len(subs) + 1 ELSE CHOOSE i \in known : \A j \in known : i <= j

MatchSubrecord(node, state, subs, declared) ==
    LET at == NextDeclared(subs, state.cursor, declared)
        skipped == [state EXCEPT !.cursor = at]
    IN  IF at > Len(subs) \/ subs[at].sig # node.sig
        THEN skipped
        ELSE [skipped EXCEPT
                !.cursor = at + 1,
                !.history = Append(@, [index |-> at, path |-> node.path, scopes |-> state.scopes])]

\* repeat_anchor_matches
AnchorMatches(kid, state, subs, declared) ==
    LET at == NextDeclared(subs, state.cursor, declared)
    IN  \/ kid.kind # "sequence"
        \/ kid.kids = <<>>
        \/ kid.kids[1].kind # "subrecord"
        \/ ~kid.kids[1].required
        \/ at <= Len(subs) /\ subs[at].sig = kid.kids[1].sig

RECURSIVE Match(_, _, _, _)
RECURSIVE MatchUnordered(_, _, _, _)
RECURSIVE MatchRepeat(_, _, _, _, _)

\* The best of the tried alternatives, then those that are left.
TakeBest(kids, tried, state, subs, declared) ==
    LET best == Best(SelectSeq(tried, LAMBDA c : c.failed \/ Assigned(c) > Assigned(state)), state)
        taken == CHOOSE i \in DOMAIN kids : tried[i] = best /\ \A j \in 1..(i - 1) : tried[j] # best
    IN  IF best.failed \/ best = state
        THEN best
        ELSE MatchUnordered(RemoveAt(kids, taken), best, subs, declared)

MatchUnordered(kids, state, subs, declared) ==
    TakeBest(kids, [i \in DOMAIN kids |-> Match(kids[i], state, subs, declared)], state, subs, declared)

MatchSelected(node, state, subs, declared) ==
    LET read == SelectSeq(state.history, LAMBDA entry : entry.path = node.selector)
        choice == subs[Last(read).index].v
    IN  IF read = <<>> \/ choice \notin 0..(Len(node.kids) - 1)
        THEN Failed(state)
        ELSE Match(node.kids[choice + 1], state, subs, declared)

MatchRepeat(node, state, count, subs, declared) ==
    LET kid == node.kids[1]
        entered == [state EXCEPT !.scopes = Append(@, [path |-> kid.path, occurrence |-> count])]
        inside == Match(kid, entered, subs, declared)
        again == /\ node.maximum < 0 \/ count < node.maximum
                 /\ AnchorMatches(kid, state, subs, declared)
    IN  IF again /\ inside.failed
        THEN Failed(state)
        ELSE IF again /\ Assigned(inside) > Assigned(state)
             THEN MatchRepeat(node, [inside EXCEPT !.scopes = state.scopes], count + 1, subs, declared)
             ELSE IF count < node.minimum
                  THEN [state EXCEPT !.violations = Append(@, node.path)]
                  ELSE state

Match(node, state, subs, declared) ==
    CASE state.failed -> state
      [] ~state.failed /\ node.kind = "subrecord" -> MatchSubrecord(node, state, subs, declared)
      [] ~state.failed /\ node.kind = "sequence" ->
            FoldLeft(LAMBDA s, kid : Match(kid, s, subs, declared), state, node.kids)
      [] ~state.failed /\ node.kind = "unordered" -> MatchUnordered(node.kids, state, subs, declared)
      [] ~state.failed /\ node.kind = "choice" ->
            Best([i \in DOMAIN node.kids |-> Match(node.kids[i], state, subs, declared)], state)
      [] ~state.failed /\ node.kind = "selected" -> MatchSelected(node, state, subs, declared)
      [] ~state.failed /\ node.kind = "repeat" -> MatchRepeat(node, state, 0, subs, declared)

-----------------------------------------------------------------------------
None == <<>>

\* The path and the repeat scopes of every subrecord.
Assignments(end, subs) ==
    LET Entry(i) == {entry \in Range(end.history) : entry.index = i}
    IN  [ok |-> ~end.failed,
         violations |-> end.violations,
         path |-> [i \in DOMAIN subs |->
                     IF Entry(i) = {} THEN None ELSE (CHOOSE entry \in Entry(i) : TRUE).path],
         scopes |-> [i \in DOMAIN subs |-> UNION {Range(entry.scopes) : entry \in Entry(i)}]]

\* interpret
Interpret(root, subs) == Assignments(Match(root, Start, subs, Declared(root)), subs)
=============================================================================
