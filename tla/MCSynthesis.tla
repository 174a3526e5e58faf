------------------------------ MODULE MCSynthesis ------------------------------
\* One group item of one publication whose content can be corrected, with a
\* term of each type that is mapped from the start.
EXTENDS Synthesis, TLC
CONSTANTS p1, i1, g1, a, b, lt, et, c1, c2
MCPubOf == [i \in {i1} |-> p1]
MCTerms == [t \in TermTypes |-> IF t = "lean" THEN {lt} ELSE {et}]
Item(m, ctx) == [practice |-> lt, effect |-> et, magnitude |-> m, other |-> None, unit |-> "mj",
                 direction |-> "cannot_determine", mechanism |-> None, context |-> ctx]
MCContents == {Item(1, "hot"), Item(2, "hot")}
MCFirstItems == [i \in {i1} |-> Item(1, "hot")]
MCFirstCats == [k \in Kinds |-> [x \in {a} |-> "n"]]
MCFirstMappings == [m \in Keys |-> [category |-> a, state |-> "approved"]]
Symm == Permutations(Clients)
===============================================================================
