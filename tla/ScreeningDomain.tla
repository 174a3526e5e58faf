---------------------------- MODULE ScreeningDomain ----------------------------
(***************************************************************************)
(* Screening criteria and the rules that evaluate them: the value types of *)
(* the screening domain, what its validators accept, and the evaluator of  *)
(* metadata rules.  Names, descriptions and notes are left out; a criterion *)
(* is what decides whether it applies, must be assessed, or explains an     *)
(* exclusion.                                                              *)
(***************************************************************************)
EXTENDS Integers, FiniteSets

CONSTANT Absent   \* a metadata field without a value (None)

Stages == {"title_abstract", "full_text"}
CriterionStages == Stages \cup {"both"}
CriterionTypes == {"inclusion", "exclusion"}
Outcomes == {"include", "exclude", "uncertain"}
AssessmentValues == {"met", "not_met", "uncertain", "not_assessed"}
EvaluationModes == {"manual", "metadata_rule"}

RuleFields == {"publication_year", "language", "document_type", "open_access",
               "doi", "abstract"}

PresenceOperators == {"exists", "not_exists"}
EqualityOperators == {"equals", "not_equals", "in", "not_in"}
ComparisonOperators == {"greater_than", "greater_than_or_equal",
                        "less_than", "less_than_or_equal"}
RuleOperators == PresenceOperators \cup EqualityOperators \cup ComparisonOperators

NoRule == [field |-> "none", op |-> "none", shape |-> "none", type |-> "none", items |-> {}]

(* The type a field compares with; a boolean is not accepted for the year.  *)
FieldType(field) ==
  CASE field = "publication_year" -> "int"
    [] field = "open_access" -> "bool"
    [] OTHER -> "str"

(* What MetadataRule accepts.  The operand of a rule is none, a scalar or a *)
(* list; items holds its values and type their common type.                 *)
ValidRule(rule) ==
  /\ rule.field \in RuleFields /\ rule.op \in RuleOperators
  /\ \/ rule.op \in PresenceOperators /\ rule.shape = "none"
     \/ /\ rule.field \notin {"doi", "abstract"}
        /\ rule.op \in ComparisonOperators
        /\ rule.field = "publication_year" /\ rule.type = "int"
        /\ rule.shape # "none" /\ Cardinality(rule.items) = 1
     \/ /\ rule.field \notin {"doi", "abstract"}
        /\ rule.op \in EqualityOperators
        /\ rule.type = FieldType(rule.field)
        /\ IF rule.op \in {"in", "not_in"} THEN rule.shape = "list"
           ELSE rule.shape # "none" /\ Cardinality(rule.items) = 1

(* What ScreeningCriterion accepts: an automatic criterion carries a rule   *)
(* and a manual one does not.                                               *)
ValidCriterion(c) ==
  /\ c.type \in CriterionTypes /\ c.stage \in CriterionStages
  /\ IF c.mode = "manual" THEN c.rule = NoRule ELSE ValidRule(c.rule)

AppliesTo(c, stage) == c.stage \in {stage, "both"}

-----------------------------------------------------------------------------
Holds(rule, actual) ==
  LET operand == CHOOSE v \in rule.items : TRUE
  IN CASE rule.op = "equals"                -> actual = operand
       [] rule.op = "not_equals"            -> actual # operand
       [] rule.op = "in"                    -> actual \in rule.items
       [] rule.op = "not_in"                -> actual \notin rule.items
       [] rule.op = "greater_than"          -> actual > operand
       [] rule.op = "greater_than_or_equal" -> actual >= operand
       [] rule.op = "less_than"             -> actual < operand
       [] rule.op = "less_than_or_equal"    -> actual <= operand

(* The value of a rule for one publication: a missing value can only be     *)
(* asked about by exists and not_exists, and is not assessed otherwise.     *)
Evaluate(rule, metadata) ==
  LET actual == metadata[rule.field]
      met(b) == IF b THEN "met" ELSE "not_met"
  IN CASE rule.op = "exists"     -> met(actual # Absent)
       [] rule.op = "not_exists" -> met(actual = Absent)
       [] OTHER -> IF actual = Absent THEN "not_assessed" ELSE met(Holds(rule, actual))
===============================================================================
