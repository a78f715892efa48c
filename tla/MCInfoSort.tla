------------------------------ MODULE MCInfoSort ------------------------------
(***************************************************************************)
(* One plugin alone, a master with a plugin that overrides some of its     *)
(* records, two topics in one plugin, and groups that are refused.         *)
(***************************************************************************)
EXTENDS InfoSort

Info(id, previous) == [id |-> id, signature |-> "INFO", previous |-> previous]
Topic(dial, records) == [topic |-> dial, nested |-> FALSE, records |-> records]

\* Three records of one plugin in any order, linked in any way to each other.
Alone ==
    {<< <<Topic("d", <<Info("a", x), Info("b", y), Info("c", z)>>)>> >> :
        x, y, z \in {NoField, NullLink, "a", "b", "c"}}

\* A master with two records, and a plugin that overrides one and adds one.
Overriding ==
    {<< <<Topic("d", <<Info("a", x), Info("b", y)>>)>>,
        <<Topic("d", <<Info("c", "a"), Info("b", z)>>)>> >> :
        x, y \in {NoField, NullLink, "b", "a"}, z \in {NoField, Unresolved, "a", "c"}}

\* Two topics of one plugin, and what refuses a plan or an order.
Special ==
    LET ab(x) == <<Info("b", "a"), Info("a", x)>>
        c == <<Info("c", "e"), Info("e", NullLink)>>
        one(group) == <<<<group>>>>
    IN  {<< <<Topic("d", ab(NullLink)), Topic("t", c)>> >>,
         << <<Topic("d", ab("elsewhere")), Topic("d", c)>> >>,
         << <<>>, <<Topic("d", ab(NoField))>> >>,
         << <<Topic("d", ab(NoField))>>, <<Topic("t", c)>> >>,
         << <<Topic("d", c), Topic("d", ab(NoField))>>, <<Topic("d", ab(NoField))>> >>,
         << <<Topic("d", ab(NoField)), Topic("t", ab(NoField))>> >>,
         one(Topic("d", <<Info("a", Short), Info("b", NullLink)>>)),
         one(Topic(Unresolved, ab(NoField))),
         one(Topic("d", <<Info("a", "b"), [Info("b", NoField) EXCEPT !.signature = "DIAL"]>>)),
         one(Topic("d", <<Info("a", "b"), Info("b", NoField), Info("a", NullLink)>>)),
         one([Topic("d", ab(NoField)) EXCEPT !.nested = TRUE])}

MCLoads == Alone \cup Overriding \cup Special
=============================================================================
