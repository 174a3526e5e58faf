----------------------------- MODULE EvidenceDomain -----------------------------
(***************************************************************************)
(* Extraction and quality assessment without their tables: which values a  *)
(* field admits, when a revision is complete, which answers an assessment  *)
(* accepts.                                                                *)
(*                                                                         *)
(* A value is the record of what the validators look at: its status, the   *)
(* typed columns that are filled, whether the typed value satisfies the    *)
(* field's range, length, pattern or value list, the unit, the origin, and *)
(* whether a source and a note are given.  Keys are the domain of a        *)
(* function, so a duplicate key is not expressible: the code rejects it    *)
(* when the revision is built; order is the place of a field in its list.  *)
(***************************************************************************)
EXTENDS Naturals, Sequences, FiniteSets

CONSTANT None   \* a missing value

Statuses == {"unassessed", "present", "not_reported", "not_applicable", "unclear"}
Slots == {"text", "int", "float", "bool", "json"}
DataTypes ==
  {"text", "long_text", "identifier", "url", "integer", "decimal", "boolean", "date",
   "enum", "multi_enum", "number_with_unit", "repeating_group"}

Values ==
  [status : Statuses, slots : SUBSET Slots, fits : BOOLEAN, unit : {None, "listed", "unlisted"},
   origin : {None, "reported", "reviewer_coded"}, source : BOOLEAN, note : BOOLEAN]

(* The v0.4.8 snapshot of a missing value, admitted only while history is read. *)
LegacySnapshot(v) ==
  /\ v.status \in {"not_reported", "not_applicable"} /\ v.origin = "reported"
  /\ v.slots = {} /\ v.unit = None

(* An extracted value has the provenance its status calls for. *)
Sourced(v) == (v.origin = "reported" => v.source) /\ (v.origin = "reviewer_coded" => v.note)

Consistent(v) ==
  CASE v.status = "unassessed" -> v.slots = {} /\ v.origin = None /\ ~v.source /\ ~v.note
    [] v.status = "present" -> v.slots # {} /\ v.origin # None /\ Sourced(v)
    [] v.status = "unclear" ->
         /\ v.note
         /\ IF v.slots # {} THEN v.origin # None /\ Sourced(v) ELSE v.origin = None /\ ~v.source
    [] OTHER -> v.slots = {} /\ v.origin = None /\ ~v.source

(* A row that was stored is read back when it is consistent or a legacy one. *)
Readable(v) == Consistent(v) \/ LegacySnapshot(v)

-----------------------------------------------------------------------------
(* Fields and templates. *)

(* Where a value of each type is looked for; the other columns are ignored.  *)
SlotsOf(type) ==
  CASE type \in {"integer"} -> {"int"}
    [] type \in {"decimal", "number_with_unit"} -> {"int", "float"}
    [] type = "boolean" -> {"bool"}
    [] type = "multi_enum" -> {"json"}
    [] type = "repeating_group" -> {}
    [] OTHER -> {"text"}

(* The content of dates and booleans is not looked at. *)
HasConstraint(type) == type \notin {"boolean", "date", "repeating_group"}

ValueErrors(f, v) ==
  LET filled == v.slots \cap SlotsOf(f.type) # {}
  IN {e \in {"value", "unit", "content"} :
        CASE e = "value" -> v.status = "present" /\ ~filled /\ f.type # "repeating_group"
          [] e = "unit" -> /\ f.type = "number_with_unit"
                           /\ v.unit = "unlisted" \/ (v.status = "present" /\ v.unit = None)
          [] e = "content" -> HasConstraint(f.type) /\ filled /\ ~v.fits}

FieldErrors(f, v) ==
  IF v.status = "unassessed" THEN {e \in {"unassessed"} : f.required}
  ELSE IF v.status \notin f.allowed THEN {"status"}
  ELSE IF v.status \in {"not_reported", "not_applicable"} THEN {}
  ELSE ValueErrors(f, v)

(* fields and values are functions of the field keys; values of keys the     *)
(* template does not know are ignored.                                       *)
FieldsErrors(fields, values) ==
  UNION {IF k \in DOMAIN values THEN FieldErrors(fields[k], values[k])
         ELSE {e \in {"missing"} : fields[k].required} : k \in DOMAIN fields}

ItemsOf(g, items) == {i \in DOMAIN items : items[i].group = g}

GroupErrors(g, group, items) ==
  LET mine == ItemsOf(g, items)
  IN {e \in {"too_few"} : Cardinality(mine) < group.min}
     \cup {e \in {"too_many"} : group.max # None /\ Cardinality(mine) > group.max}
     \cup {e \in {"index"} : Cardinality({items[i].index : i \in mine}) < Cardinality(mine)}
     \cup UNION {FieldsErrors(group.fields, items[i].values) : i \in mine}

(* validate_revision *)
RevisionErrors(template, form) ==
  FieldsErrors(template.fields, form.values)
  \cup UNION {GroupErrors(g, template.groups[g], form.items) : g \in DOMAIN template.groups}

(* A draft may lack what is still to be filled in, and nothing else.          *)
Lenient == {"missing", "too_few", "unassessed"}

\* Mutant: a draft may hold anything.
VerdictUnchecked(template, form, mark) ==
  IF RevisionErrors(template, form) = {} THEN "complete"
  ELSE IF mark THEN "rejected" ELSE "in_progress"

Verdict(template, form, mark) ==
  LET errors == RevisionErrors(template, form)
  IN IF errors = {} THEN "complete"
     ELSE IF mark \/ errors \ Lenient # {} THEN "rejected"
     ELSE "in_progress"

(* A form reaches the service only when every value in it can be built.       *)
WellFormed(form) ==
  /\ IsFiniteSet(DOMAIN form.items)
  /\ \A k \in DOMAIN form.values : Consistent(form.values[k])
  /\ \A i \in DOMAIN form.items : /\ form.items[i].index >= 1
                                  /\ \A k \in DOMAIN form.items[i].values : Consistent(form.items[i].values[k])

ValidField(f) ==
  /\ f.type \in DataTypes /\ f.required \in BOOLEAN /\ f.allowed \subseteq Statuses /\ f.order \in Nat

ValidGroup(group) ==
  /\ group.min \in Nat /\ (group.max # None => group.max \in Nat /\ group.max >= group.min)
  /\ \A k \in DOMAIN group.fields : ValidField(group.fields[k])

ValidTemplate(template) ==
  /\ \A k \in DOMAIN template.fields : ValidField(template.fields[k])
  /\ \A g \in DOMAIN template.groups : ValidGroup(template.groups[g])

-----------------------------------------------------------------------------
(* Quality assessment.  A template is [tool, active, criteria], criteria a    *)
(* function from criterion ids to whether an answer is required; an answer is *)
(* its value and whether it is justified.                                     *)

AnswerValues == {"YES", "NO", "CANNOT_DETERMINE"}

ValidAnswer(a) == a.value \in {"NO", "CANNOT_DETERMINE"} => a.justified

\* Mutant: the required criteria are not looked at.
AcceptsPartial(template, answers) ==
  /\ DOMAIN answers \subseteq DOMAIN template.criteria
  /\ \A k \in DOMAIN answers : ValidAnswer(answers[k])

Accepts(template, answers) ==
  /\ DOMAIN answers \subseteq DOMAIN template.criteria
  /\ \A k \in DOMAIN answers : ValidAnswer(answers[k])
  /\ \A k \in DOMAIN template.criteria : template.criteria[k] => k \in DOMAIN answers

===============================================================================
