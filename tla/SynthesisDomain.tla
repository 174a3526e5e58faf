---------------------------- MODULE SynthesisDomain ----------------------------
(***************************************************************************)
(* Evidence synthesis without its tables: the vocabularies, what one       *)
(* extracted group item contributes to the matrix, and the hashes of a     *)
(* snapshot.                                                               *)
(*                                                                         *)
(* A group item is a record of the values the synthesis reads, with None   *)
(* where a field was left empty.  A hash is modelled by what it covers:    *)
(* two hashes are equal iff the canonical payloads are.                    *)
(***************************************************************************)
EXTENDS Naturals, Sequences, FiniteSets

CONSTANT None   \* a missing value

TermTypes == {"lean", "energy"}
Directions == {"positive", "negative", "no_effect", "mixed", "cannot_determine"}
Characters == {"empirical", "qualitative", "estimated", "postulated"}
ApprovalStates == {"pending", "approved", "rejected"}
Impacts == {"ENABLE", "STRENGTHEN", "WEAKEN", "CONDITION"}
GapTypes == {"thematic", "mechanism", "methodological", "contextual", "inconsistent_evidence"}
LinkTypes == {"analytical_relation", "mechanism_pathway", "context_factor_link"}
EnergyUnits == {"j", "kj", "mj", "gj", "wh", "kwh", "mwh"}
Kinds == {"lean", "energy", "mechanism", "context"}

(* A conversion is identified by what it converts and into which unit.      *)
Convertible(magnitude, unit, target) ==
  magnitude # None /\ unit \in EnergyUnits /\ target \in EnergyUnits

Convert(magnitude, unit, target) == [of |-> <<magnitude, unit>>, to |-> target]

(* effect_magnitude, or else the first other number of the item.            *)
Magnitude(item) == IF item.magnitude # None THEN item.magnitude ELSE item.other

Direction(item) ==
  IF item.direction = "cannot_determine" /\ Magnitude(item) # None THEN "positive" ELSE item.direction

(* The category of a term: its mapping, when the category still exists.     *)
Classified(mapping, live) == IF mapping # None /\ mapping.category \in live THEN mapping.category ELSE None

IsApproved(mapping, live) == Classified(mapping, live) # None /\ mapping.state = "approved"

(* An item without a practice or an effect makes no relation.               *)
MakesRelation(item) == item.practice # None /\ item.effect # None

(* _build_analytical_relation_from_item: categories through the mappings of *)
(* the two terms, approved when both mappings are; a conversion is carried  *)
(* over only from the same magnitude and unit.                              *)
BuildRelation(item, rev, old, lean, energy, leanCats, energyCats) ==
  [rev |-> rev, practice |-> item.practice, effect |-> item.effect,
   lean |-> Classified(lean, leanCats), energy |-> Classified(energy, energyCats),
   direction |-> Direction(item), magnitude |-> Magnitude(item), unit |-> item.unit,
   state |-> IF IsApproved(lean, leanCats) /\ IsApproved(energy, energyCats)
             THEN "approved" ELSE "pending",
   converted |-> IF old # None /\ old.unit = item.unit /\ old.magnitude = Magnitude(item)
                 THEN old.converted ELSE None]

(* A source text that was left empty is stored as such. *)
ContextText(item) == item.context
MechanismText(item) == item.mechanism

-----------------------------------------------------------------------------
(* Hashes of a snapshot. *)

(* One dataset item per group item of a COMPLETE revision; the revision id   *)
(* and the order of the items are not part of it.                            *)
DatasetItems(pub, items) == {[pub |-> pub, item |-> i, values |-> items[i]] : i \in DOMAIN items}

(* latest: publication -> the items of its latest COMPLETE revision, or None. *)
DatasetHash(latest) == UNION {DatasetItems(p, latest[p]) : p \in {q \in DOMAIN latest : latest[q] # None}}

(* Categories with their texts and mappings with their state, sorted.         *)
ClassificationVersion(categories, mappings) ==
  [categories |-> {<<k, c, categories[k][c]>> : k \in Kinds, c \in UNION {DOMAIN categories[q] : q \in Kinds}},
   mappings |-> {<<m, mappings[m]>> : m \in {n \in DOMAIN mappings : mappings[n] # None}}]

ContentHash(content) == content

===============================================================================
