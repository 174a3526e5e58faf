------------------------------ MODULE MCScreening ------------------------------
\* A publication of 1999, and criteria a reviewer judges, a rule that excludes
\* it, and a rule that includes it.
EXTENDS Screening, TLC
CONSTANTS p1, p2, r1, r2, c1, c2, k1, k2
MCPubs == {p1}
MCTwoPubs == {p1, p2}
MCTwoMetadata == [p \in MCTwoPubs |-> [f \in RuleFields |-> Absent]]
MCReviewers == {r1, r2}
Rule(op, y) == [field |-> "publication_year", op |-> op, shape |-> "scalar", type |-> "int", items |-> {y}]
Row(t, s, req, rule) ==
  [type |-> t, stage |-> s, active |-> TRUE, required |-> req,
   mode |-> IF rule = NoRule THEN "manual" ELSE "metadata_rule", rule |-> rule]
MCRows == {Row("exclusion", "full_text", TRUE, NoRule),
           Row("exclusion", "both", FALSE, Rule("less_than", 2000)),
           Row("inclusion", "both", FALSE, Rule("exists", 2000))}
MCMetadata == [p \in MCPubs |-> [f \in RuleFields |-> IF f = "publication_year" THEN 1999 ELSE Absent]]
MCInputs == {"met"}
MCVotes == {"include", "exclude"}
Symm == Permutations(Reviewers) \cup Permutations(Criteria)
===============================================================================
