------------------------------- MODULE MCEvidence -------------------------------
\* A template with a required field, a constrained one and a relationship
\* group, its successor, and payloads that are whole, incomplete and wrong.
EXTENDS Evidence, TLC
CONSTANTS p1, r1, r2, c1, c2
Val(slots, fits) == [status |-> "present", slots |-> slots, fits |-> fits, unit |-> None,
                     origin |-> "reported", source |-> TRUE, note |-> FALSE]
Field(type, required) == [type |-> type, required |-> required, order |-> IF type = "integer" THEN 1 ELSE 2,
                          allowed |-> {"present", "not_reported"}]
Template(min, active) ==
  [fields |-> [year |-> Field("integer", TRUE), saving |-> Field("number_with_unit", FALSE)], active |-> active, published |-> TRUE,
   groups |-> [rel |-> [min |-> min, max |-> 1, fields |-> [effect |-> Field("enum", TRUE)]]]]
MCCatalog == [v \in {"1.0.0", "2.0.0"} |-> IF v = "1.0.0" THEN Template(1, TRUE) ELSE Template(0, FALSE)]
OpenCatalog == [v \in {"1.0.0", "2.0.0"} |-> IF v = "1.0.0" THEN Template(1, TRUE) ELSE Template(0, TRUE)]
Relation(v) == [group |-> "rel", index |-> 1, values |-> [effect |-> v]]
MCForms ==
  {[values |-> [year |-> Val({"int"}, TRUE)], items |-> <<Relation(Val({"text"}, TRUE))>>],
   [values |-> [year |-> Val({"int"}, TRUE)], items |-> <<>>],
   [values |-> [year |-> Val({"int"}, FALSE)], items |-> <<>>]}
MCQaCatalog == [t \in {"qa1"} |-> [active |-> TRUE, criteria |-> [q1 |-> TRUE, q2 |-> FALSE]]]
Yes == [value |-> "YES", justified |-> FALSE]
MCAnswerSheets == {[q1 |-> Yes], [q2 |-> Yes]}
Symm == Permutations(Clients) \cup Permutations(Reviewers)
===============================================================================
