------------------------------- MODULE Synthesis -------------------------------
(***************************************************************************)
(* Evidence synthesis of one project: analytical categories and the         *)
(* mapping of source terms to them, the relations of the Lean x Energy      *)
(* matrix materialised from the extraction revisions, mechanism pathways    *)
(* and context links laid over the relations, research gaps with their      *)
(* evidence, and snapshots.                                                 *)
(*                                                                         *)
(* Nothing here runs in one transaction from read to write: a handler reads *)
(* on some connections, computes, and writes on another.  So a handler is   *)
(* a step that reads and a step that writes; a workspace that is only       *)
(* looked at synchronises its rows in the same way.  Category and gap       *)
(* handlers, and those that check nothing before they write, are one step.  *)
(*                                                                         *)
(* A group item keeps its id from revision to revision and has at most one  *)
(* relation, a relation at most one pathway and one context link (UNIQUE    *)
(* constraints), so all three are functions of the item.                    *)
(***************************************************************************)
EXTENDS SynthesisDomain, FiniteSetsExt, SequencesExt

CONSTANTS
  Pubs,          \* publications of the corpus
  Items,         \* group items of their extraction records
  PubOf,         \* the publication a group item belongs to
  Contents,      \* contents a reviewer can give a group item
  Terms,         \* Terms[t]: source terms of type t
  Cats,          \* category ids
  Names,         \* texts of a category
  Gaps,          \* research gaps
  Clients,       \* requests in flight
  FirstItems,    \* items of the revision every publication starts with
  FirstCats,     \* categories defined at the start
  FirstMappings, \* mappings made at the start
  MaxRevisions, MaxOps, MaxSnapshots   \* bounds

Keys == UNION {{<<t, s>> : s \in Terms[t]} : t \in TermTypes}

ASSUME SynthesisAssumption ==
  /\ PubOf \in [Items -> Pubs] /\ IsFiniteSet(Items)
  /\ FirstItems \in [Items -> Contents] /\ FirstCats \in [Kinds -> [Cats -> Names \cup {None}]]
  /\ FirstMappings \in [Keys -> [category : Cats, state : ApprovalStates] \cup {None}]
  /\ \A x \in Contents : /\ x.practice \in Terms["lean"] \cup {None}
                         /\ x.effect \in Terms["energy"] \cup {None}
                         /\ x.direction \in Directions
  /\ \A t \in TermTypes : None \notin Terms[t]
  /\ None \notin Cats /\ None \notin Names
  /\ MaxRevisions \in Nat /\ MaxOps \in Nat /\ MaxSnapshots \in Nat

VARIABLES
  active,      \* publications not superseded
  revisions,   \* extraction_revisions by publication
  categories,  \* the four category tables
  mappings,    \* synthesis_term_mappings
  relations,   \* synthesis_analytical_relations
  pathways,    \* synthesis_mechanism_pathways
  links,       \* synthesis_relation_context_links
  gaps,        \* synthesis_research_gaps
  gapLinks,    \* synthesis_research_gap_links
  snapshots,   \* synthesis_snapshots
  call,        \* what every request in flight has read
  ops          \* requests begun

evidence == <<active, revisions>>
classes == <<categories, mappings>>
rows == <<relations, pathways, links>>
gapTables == <<gaps, gapLinks>>
vars == <<active, revisions, categories, mappings, relations, pathways, links,
          gaps, gapLinks, snapshots, call, ops>>

NoCall == [pc |-> "idle"]

(* Every request counts once. *)
Begins(c) == call[c] = NoCall /\ ops < MaxOps /\ ops' = ops + 1
Waits(c, q) == call' = [call EXCEPT ![c] = q]
Ends(c) == call' = [call EXCEPT ![c] = NoCall] /\ UNCHANGED ops
AtOnce == ops < MaxOps /\ ops' = ops + 1 /\ UNCHANGED call

-----------------------------------------------------------------------------
(* The evidence underneath. *)

(* The active-only boundary: with no active publication left there is none. *)
ActiveIds == IF active = {} THEN Pubs ELSE active

Revise(p, status, items) ==
  /\ AtOnce
  /\ Len(revisions[p]) < MaxRevisions
  /\ revisions' = [revisions EXCEPT ![p] = Append(@, [status |-> status, items |-> items])]
  /\ UNCHANGED <<active, classes, rows, gapTables, snapshots>>

Supersede(p) ==
  /\ AtOnce
  /\ p \in active /\ active' = active \ {p}
  /\ UNCHANGED <<revisions, classes, rows, gapTables, snapshots>>

CompleteRevisions(p) == {n \in DOMAIN revisions[p] : revisions[p][n].status = "complete"}

\* Mutant: drafts count.
LatestAny(p) == IF p \notin ActiveIds THEN 0 ELSE Len(revisions[p])

(* get_latest_complete_revision behind the active boundary; 0 if there is none. *)
LatestComplete(p) ==
  IF p \notin ActiveIds \/ CompleteRevisions(p) = {} THEN 0 ELSE Max(CompleteRevisions(p))

ItemsAt(p, n) == IF n = 0 THEN <<>> ELSE revisions[p][n].items

-----------------------------------------------------------------------------
(* Categories.  The four kinds have handlers of their own that differ in     *)
(* what a deletion takes along.                                              *)

(* An id that is taken is a conflict; the text of a category may change.     *)
Inserted(k, id, name) ==
  /\ AtOnce
  /\ categories[k][id] = None
  /\ categories' = [categories EXCEPT ![k][id] = name]
  /\ UNCHANGED <<evidence, mappings, rows, gapTables, snapshots>>

Updated(k, id, name) ==
  /\ AtOnce
  /\ categories[k][id] \notin {None, name}
  /\ categories' = [categories EXCEPT ![k][id] = name]
  /\ UNCHANGED <<evidence, mappings, rows, gapTables, snapshots>>

CreateLeanCategory(id, name) == Inserted("lean", id, name)
CreateEnergyCategory(id, name) == Inserted("energy", id, name)
CreateMechanismCategory(id, name) == Inserted("mechanism", id, name)
CreateContextCategory(id, name) == Inserted("context", id, name)

UpdateLeanCategory(id, name) == Updated("lean", id, name)
UpdateEnergyCategory(id, name) == Updated("energy", id, name)
UpdateMechanismCategory(id, name) == Updated("mechanism", id, name)
UpdateContextCategory(id, name) == Updated("context", id, name)

Live(k) == {id \in Cats : categories[k][id] # None}

CategoryGone(k, id) ==
  /\ AtOnce
  /\ categories[k][id] # None
  /\ categories' = [categories EXCEPT ![k][id] = None]
  /\ UNCHANGED <<evidence, gapTables, snapshots>>

WithoutMappings(t, id) ==
  [m \in Keys |-> IF m[1] = t /\ mappings[m] # None /\ mappings[m].category = id THEN None ELSE mappings[m]]

(* The reference is cleared; the approval of the row is left alone.          *)
Cleared(table, field, id) ==
  [i \in Items |-> IF table[i] # None /\ table[i][field] = id
                   THEN [table[i] EXCEPT ![field] = None] ELSE table[i]]

DeleteLeanCategory(id) ==
  /\ CategoryGone("lean", id)
  /\ mappings' = WithoutMappings("lean", id)
  /\ relations' = Cleared(relations, "lean", id)
  /\ UNCHANGED <<pathways, links>>

DeleteEnergyCategory(id) ==
  /\ CategoryGone("energy", id)
  /\ mappings' = WithoutMappings("energy", id)
  /\ relations' = Cleared(relations, "energy", id)
  /\ UNCHANGED <<pathways, links>>

DeleteMechanismCategory(id) ==
  /\ CategoryGone("mechanism", id)
  /\ pathways' = Cleared(pathways, "category", id)
  /\ UNCHANGED <<mappings, relations, links>>

DeleteContextCategory(id) ==
  /\ CategoryGone("context", id)
  /\ links' = Cleared(links, "category", id)
  /\ UNCHANGED <<mappings, relations, pathways>>

-----------------------------------------------------------------------------
(* Term mappings. *)

(* A mapping that changes its category goes back to pending.                 *)
NewMapping(m, id) ==
  IF mappings[m] # None /\ mappings[m].category = id THEN mappings[m]
  ELSE [category |-> id, state |-> "pending"]

SetTermMapping(c, m, id) ==
  /\ Begins(c) /\ id \in Live(m[1])
  /\ Waits(c, [pc |-> "mapping", key |-> m, row |-> NewMapping(m, id)])
  /\ UNCHANGED <<evidence, classes, rows, gapTables, snapshots>>

ApproveTermMapping(c, m) ==
  /\ Begins(c) /\ mappings[m] # None
  /\ Waits(c, [pc |-> "mapping", key |-> m, row |-> [mappings[m] EXCEPT !.state = "approved"]])
  /\ UNCHANGED <<evidence, classes, rows, gapTables, snapshots>>

SaveTermMapping(c) ==
  /\ call[c].pc = "mapping" /\ Ends(c)
  /\ mappings' = [mappings EXCEPT ![call[c].key] = call[c].row]
  /\ UNCHANGED <<evidence, categories, rows, gapTables, snapshots>>

-----------------------------------------------------------------------------
(* The matrix. *)

(* The relations of the latest COMPLETE revisions, by item.                  *)
BuiltRelations ==
  LET here == {i \in Items : /\ i \in DOMAIN ItemsAt(PubOf[i], LatestComplete(PubOf[i]))
                             /\ MakesRelation(ItemsAt(PubOf[i], LatestComplete(PubOf[i]))[i])}
  IN [i \in here |->
        LET n == LatestComplete(PubOf[i])
            item == ItemsAt(PubOf[i], n)[i]
        IN BuildRelation(item, n, relations[i],
                         mappings[<<"lean", item.practice>>], mappings[<<"energy", item.effect>>],
                         Live("lean"), Live("energy"))]

(* ON CONFLICT DO UPDATE: a missing conversion keeps the stored one.         *)
Upserted(row, old) ==
  [row EXCEPT !.converted = IF row.converted = None /\ old # None THEN old.converted ELSE @]

SyncRelations(c) ==
  /\ Begins(c)
  /\ Waits(c, [pc |-> "relations", built |-> BuiltRelations])
  /\ UNCHANGED <<evidence, classes, rows, gapTables, snapshots>>

SaveRelations(c) ==
  /\ call[c].pc = "relations" /\ Ends(c)
  /\ relations' = [i \in Items |-> IF i \in DOMAIN call[c].built
                                   THEN Upserted(call[c].built[i], relations[i]) ELSE relations[i]]
  /\ UNCHANGED <<evidence, classes, pathways, links, gapTables, snapshots>>

ConvertUnit(c, i, target) ==
  /\ Begins(c) /\ relations[i] # None
  /\ Convertible(relations[i].magnitude, relations[i].unit, target)
  /\ Waits(c, [pc |-> "convert", item |-> i,
               value |-> Convert(relations[i].magnitude, relations[i].unit, target)])
  /\ UNCHANGED <<evidence, classes, rows, gapTables, snapshots>>

SaveConvertedValue(c) ==
  /\ call[c].pc = "convert" /\ Ends(c)
  /\ relations' = [relations EXCEPT ![call[c].item].converted = call[c].value]
  /\ UNCHANGED <<evidence, classes, pathways, links, gapTables, snapshots>>

ActiveRows(table) == {i \in Items : table[i] # None /\ PubOf[i] \in ActiveIds}

-----------------------------------------------------------------------------
(* Mechanism pathways. *)

(* The text comes from the revision the relation was built from.             *)
SourceMechanism(i) ==
  LET own == relations[i].rev
      n == IF own \in CompleteRevisions(PubOf[i]) THEN own ELSE LatestComplete(PubOf[i])
  IN [rev |-> IF n = 0 THEN own ELSE n,
      text |-> IF i \in DOMAIN ItemsAt(PubOf[i], n)
               THEN MechanismText(ItemsAt(PubOf[i], n)[i]) ELSE None]

(* The researcher's category is retained while it exists.                    *)
SyncedPathway(i) ==
  LET old == pathways[i]
      keep == old # None /\ old.category \in Live("mechanism")
  IN [rev |-> SourceMechanism(i).rev, text |-> SourceMechanism(i).text,
      category |-> IF keep THEN old.category ELSE None,
      synthesized |-> old # None /\ old.synthesized,
      state |-> IF keep THEN old.state ELSE "pending"]

SyncPathways(c) ==
  /\ Begins(c)
  /\ Waits(c, [pc |-> "pathways", built |-> [i \in ActiveRows(relations) |-> SyncedPathway(i)]])
  /\ UNCHANGED <<evidence, classes, rows, gapTables, snapshots>>

AssignMechanism(c, i, id, synthesized) ==
  /\ Begins(c) /\ pathways[i] # None
  /\ id # None => id \in Live("mechanism")
  /\ Waits(c, [pc |-> "pathways",
               built |-> [j \in {i} |->
                 [pathways[j] EXCEPT !.category = id, !.synthesized = synthesized, !.state = "pending"]]])
  /\ UNCHANGED <<evidence, classes, rows, gapTables, snapshots>>

ApproveMechanism(c, i) ==
  /\ Begins(c) /\ pathways[i] # None /\ pathways[i].category # None
  /\ Waits(c, [pc |-> "pathways", built |-> [j \in {i} |-> [pathways[j] EXCEPT !.state = "approved"]]])
  /\ UNCHANGED <<evidence, classes, rows, gapTables, snapshots>>

SavePathways(c) ==
  /\ call[c].pc = "pathways" /\ Ends(c)
  /\ pathways' = [i \in Items |-> IF i \in DOMAIN call[c].built THEN call[c].built[i] ELSE pathways[i]]
  /\ UNCHANGED <<evidence, classes, relations, links, gapTables, snapshots>>

-----------------------------------------------------------------------------
(* Context links. *)

(* The text comes from the latest revision, which need not be the one the    *)
(* relation was built from.                                                  *)
SyncedLink(i) ==
  LET n == LatestComplete(PubOf[i])
      old == links[i]
      keep == old # None /\ old.category \in Live("context")
  IN [rev |-> IF n = 0 THEN relations[i].rev ELSE n,
      text |-> IF i \in DOMAIN ItemsAt(PubOf[i], n) THEN ContextText(ItemsAt(PubOf[i], n)[i])
               ELSE IF n = 0 /\ old # None THEN old.text ELSE None,
      category |-> IF keep THEN old.category ELSE None,
      impact |-> IF old = None THEN "ENABLE" ELSE old.impact,
      state |-> IF keep THEN old.state ELSE "pending"]

\* Mutant: the connection does not enforce foreign keys.
NoForeignKey(id) == TRUE

(* A link may only name a category that exists when it is written.           *)
ForeignKeyHolds(id) == id = None \/ id \in Live("context")

(* create_link: an upsert per relation that keeps the id of a stored link.   *)
CreateLink(i, row) ==
  links' = [links EXCEPT ![i] =
    [id |-> IF @ = None THEN ops ELSE @.id, rev |-> row.rev, text |-> row.text,
     category |-> row.category, impact |-> row.impact, state |-> row.state]]

SyncLinks(c) ==
  /\ Begins(c) /\ ActiveRows(relations) # {}
  /\ Waits(c, [pc |-> "links", todo |-> [i \in ActiveRows(relations) |-> SyncedLink(i)]])
  /\ UNCHANGED <<evidence, classes, rows, gapTables, snapshots>>

(* One link per connection; a violated foreign key ends the request there.   *)
SaveSyncedLink(c, i) ==
  /\ call[c].pc = "links" /\ i \in DOMAIN call[c].todo
  /\ LET todo == call[c].todo
     IN IF ForeignKeyHolds(todo[i].category)
        THEN /\ CreateLink(i, todo[i])
             /\ Waits(c, IF Cardinality(DOMAIN todo) = 1 THEN NoCall
                         ELSE [pc |-> "links", todo |-> [j \in DOMAIN todo \ {i} |-> todo[j]]])
        ELSE UNCHANGED links /\ Waits(c, NoCall)
  /\ UNCHANGED <<ops, evidence, classes, relations, pathways, gapTables, snapshots>>

AssignContext(c, i, id, impact) ==
  /\ Begins(c) /\ id \in Live("context")
  /\ links[i] # None \/ relations[i] # None
  /\ Waits(c, [pc |-> "assign", item |-> i, category |-> id, impact |-> impact,
               known |-> IF links[i] = None THEN None ELSE links[i].id,
               row |-> IF links[i] # None THEN None
                       ELSE [rev |-> relations[i].rev, text |-> None, category |-> id,
                             impact |-> impact, state |-> "pending"]])
  /\ UNCHANGED <<evidence, classes, rows, gapTables, snapshots>>

(* A link that was known is remapped by its id, another one is created.      *)
SaveAssignment(c) ==
  /\ call[c].pc = "assign" /\ Ends(c)
  /\ LET q == call[c]
         i == q.item
     IN IF ~ForeignKeyHolds(q.category) THEN UNCHANGED links
        ELSE IF q.known = None THEN CreateLink(i, q.row)
        ELSE links' = [links EXCEPT ![i] =
               IF @ # None /\ @.id = q.known
               THEN [@ EXCEPT !.category = q.category, !.impact = q.impact] ELSE @]
  /\ UNCHANGED <<evidence, classes, relations, pathways, gapTables, snapshots>>

UnassignContext(i) ==
  /\ AtOnce
  /\ links[i] # None
  /\ links' = [links EXCEPT ![i] = None]
  /\ UNCHANGED <<evidence, classes, relations, pathways, gapTables, snapshots>>

-----------------------------------------------------------------------------
(* Research gaps. *)

CreateGap(g, type) ==
  /\ AtOnce
  /\ gaps[g] = None
  /\ gaps' = [gaps EXCEPT ![g] = type]
  /\ UNCHANGED <<evidence, classes, rows, gapLinks, snapshots>>

UpdateGap(g, type) ==
  /\ AtOnce
  /\ gaps[g] \notin {None, type}
  /\ gaps' = [gaps EXCEPT ![g] = type]
  /\ UNCHANGED <<evidence, classes, rows, gapLinks, snapshots>>

\* Mutant: the links of the gap stay.
DeleteGapOnly(g) ==
  /\ AtOnce
  /\ gaps[g] # None
  /\ gaps' = [gaps EXCEPT ![g] = None]
  /\ UNCHANGED <<evidence, classes, rows, gapLinks, snapshots>>

DeleteGap(g) ==
  /\ AtOnce
  /\ gaps[g] # None
  /\ gaps' = [gaps EXCEPT ![g] = None]
  /\ gapLinks' = {l \in gapLinks : l.gap # g}
  /\ UNCHANGED <<evidence, classes, rows, snapshots>>

(* What a gap can point at: a row, identified by its item, and a context     *)
(* link by its own id as well, because it can be deleted and made again.     *)
Targets ==
  {[type |-> "analytical_relation", item |-> i, id |-> 0] : i \in {j \in Items : relations[j] # None}}
  \cup {[type |-> "mechanism_pathway", item |-> i, id |-> 0] : i \in {j \in Items : pathways[j] # None}}
  \cup {[type |-> "context_factor_link", item |-> i, id |-> links[i].id] :
          i \in {j \in Items : links[j] # None}}

\* Mutant: the revision the artifact carries, whatever is in it.
ResolvedAsStored(i) == IF relations[i] = None THEN 0 ELSE LatestAny(PubOf[i])

(* The latest COMPLETE revision, if the item is in it; otherwise 0.          *)
ResolvedRevision(i) ==
  LET n == LatestComplete(PubOf[i])
  IN IF i \in DOMAIN ItemsAt(PubOf[i], n) THEN n ELSE 0

IsLinkable(t) == PubOf[t.item] \in ActiveIds /\ ResolvedRevision(t.item) # 0

LinkOf(g, t) == {l \in gapLinks : l.gap = g /\ l.target = t}

LinkEvidence(c, g, t) ==
  /\ Begins(c)
  /\ gaps[g] # None /\ t \in Targets /\ IsLinkable(t)
  /\ ~\E l \in LinkOf(g, t) : l.rev = ResolvedRevision(t.item)
  /\ Waits(c, [pc |-> "evidence", gap |-> g, target |-> t, rev |-> ResolvedRevision(t.item),
               known |-> {l.id : l \in LinkOf(g, t)}])
  /\ UNCHANGED <<evidence, classes, rows, gapTables, snapshots>>

(* A known link advances to the resolved revision by its id; a new one is    *)
(* inserted unless the same evidence is linked by now (DO NOTHING) or the    *)
(* gap is gone (foreign key).                                                *)
SaveEvidence(c) ==
  /\ call[c].pc = "evidence" /\ Ends(c)
  /\ LET q == call[c]
     IN gapLinks' =
          IF q.known # {}
          THEN {IF l.id \in q.known /\ l.gap = q.gap /\ l.target = q.target
                THEN [l EXCEPT !.rev = q.rev] ELSE l : l \in gapLinks}
          ELSE IF gaps[q.gap] # None /\ LinkOf(q.gap, q.target) = {}
          THEN gapLinks \cup {[id |-> ops, gap |-> q.gap, target |-> q.target, rev |-> q.rev]}
          ELSE gapLinks
  /\ UNCHANGED <<evidence, classes, rows, gaps, snapshots>>

UnlinkEvidence(l) ==
  /\ AtOnce
  /\ l \in gapLinks /\ gapLinks' = gapLinks \ {l}
  /\ UNCHANGED <<evidence, classes, rows, gaps, snapshots>>

-----------------------------------------------------------------------------
(* Snapshots. *)

InSnapshot(table) == [i \in {j \in Items : table[j] # None /\ PubOf[j] \in active} |-> table[i]]

(* _assemble_content; here a corpus without active publications is empty.    *)
Content ==
  [relations |-> InSnapshot(relations), pathways |-> InSnapshot(pathways),
   links |-> InSnapshot(links), gaps |-> gaps,
   gapLinks |-> {l \in gapLinks : PubOf[l.target.item] \in active},
   mappings |-> mappings, categories |-> categories]

Versions == {s.version : s \in snapshots}
NextVersion == IF snapshots = {} THEN 1 ELSE Max(Versions) + 1

CreateSnapshot(c) ==
  /\ Begins(c)
  /\ Waits(c, [pc |-> "snapshot", content |-> Content, version |-> NextVersion])
  /\ UNCHANGED <<evidence, classes, rows, gapTables, snapshots>>

(* The dataset is hashed after the content was assembled.                    *)
ExtractionDatasetHash ==
  DatasetHash([p \in active |-> IF LatestComplete(p) = 0 THEN None ELSE ItemsAt(p, LatestComplete(p))])

\* Mutant: no UNIQUE constraint on the version.
VersionAlwaysFree(n) == TRUE

VersionFree(n) == n \notin Versions

SaveSnapshot(c) ==
  /\ call[c].pc = "snapshot" /\ Ends(c)
  /\ Cardinality(snapshots) < MaxSnapshots
  /\ snapshots' = IF VersionFree(call[c].version)
                  THEN snapshots \cup {[version |-> call[c].version, client |-> c,
                                        content |-> ContentHash(call[c].content),
                                        dataset |-> ExtractionDatasetHash,
                                        classification |-> ClassificationVersion(categories, mappings)]}
                  ELSE snapshots
  /\ UNCHANGED <<evidence, classes, rows, gapTables>>

-----------------------------------------------------------------------------
Init ==
  /\ active = Pubs
  /\ revisions = [p \in Pubs |-> <<[status |-> "complete",
                                    items |-> [i \in {j \in Items : PubOf[j] = p} |-> FirstItems[i]]]>>]
  /\ categories = FirstCats
  /\ mappings = FirstMappings
  /\ relations = [i \in Items |-> None]
  /\ pathways = [i \in Items |-> None]
  /\ links = [i \in Items |-> None]
  /\ gaps = [g \in Gaps |-> None]
  /\ gapLinks = {}
  /\ snapshots = {}
  /\ call = [c \in Clients |-> NoCall]
  /\ ops = 0

ItemsOf(p) == {i \in Items : PubOf[i] = p}

Extraction ==
  \/ \E p \in Pubs, status \in {"draft", "complete"} :
       \E S \in SUBSET ItemsOf(p) : \E items \in [S -> Contents] : Revise(p, status, items)
  \/ \E p \in Pubs : Supersede(p)

EditCategories ==
  \/ \E id \in Cats, name \in Names :
       \/ CreateLeanCategory(id, name) \/ UpdateLeanCategory(id, name)
       \/ CreateEnergyCategory(id, name) \/ UpdateEnergyCategory(id, name)
       \/ CreateMechanismCategory(id, name) \/ UpdateMechanismCategory(id, name)
       \/ CreateContextCategory(id, name) \/ UpdateContextCategory(id, name)
  \/ \E id \in Cats : \/ DeleteLeanCategory(id) \/ DeleteEnergyCategory(id)
                      \/ DeleteMechanismCategory(id) \/ DeleteContextCategory(id)

Classify(c) ==
  \/ \E m \in Keys : ApproveTermMapping(c, m) \/ \E id \in Cats : SetTermMapping(c, m, id)
  \/ SaveTermMapping(c)

Matrix(c) ==
  \/ SyncRelations(c) \/ SaveRelations(c)
  \/ \E i \in Items, target \in {"kwh"} : ConvertUnit(c, i, target)
  \/ SaveConvertedValue(c)

Mechanisms(c) ==
  \/ SyncPathways(c) \/ SavePathways(c)
  \/ \E i \in Items : \/ ApproveMechanism(c, i)
                      \/ \E id \in Cats \cup {None}, s \in {FALSE} : AssignMechanism(c, i, id, s)

Contexts(c) ==
  \/ SyncLinks(c) \/ SaveAssignment(c)
  \/ \E i \in Items : \/ SaveSyncedLink(c, i)
                      \/ \E id \in Cats : AssignContext(c, i, id, "WEAKEN")

EditGaps ==
  \/ \E g \in Gaps : \/ \E type \in {"thematic", "mechanism"} : CreateGap(g, type) \/ UpdateGap(g, type)
                     \/ DeleteGap(g)
  \/ \E l \in gapLinks : UnlinkEvidence(l)

Evidence(c) ==
  \/ \E g \in Gaps, t \in Targets : LinkEvidence(c, g, t)
  \/ SaveEvidence(c)

Next ==
  \/ Extraction \/ EditCategories \/ EditGaps
  \/ \E i \in Items : UnassignContext(i)
  \/ \E c \in Clients : \/ Classify(c) \/ Matrix(c) \/ Mechanisms(c) \/ Contexts(c) \/ Evidence(c)
                        \/ CreateSnapshot(c) \/ SaveSnapshot(c)

Spec == Init /\ [][Next]_vars

-----------------------------------------------------------------------------
(* Views: what the workspaces compute from the tables, each on its own. *)

(* get_workspace_classifications: the terms found in the evidence, and those *)
(* that are mapped although no evidence has them any more.                   *)
TermsFound(t) ==
  LET term(item) == IF t = "lean" THEN item.practice ELSE item.effect
      found(p) == ItemsAt(p, LatestComplete(p))
  IN UNION {{term(found(p)[i]) : i \in DOMAIN found(p)} : p \in ActiveIds} \ {None}

ClassifiedTerms(t) == TermsFound(t) \cup {s \in Terms[t] : mappings[<<t, s>>] # None}

(* get_matrix: every active relation is in one cell or unclassified.         *)
IsClassified(i) ==
  relations[i].lean # None /\ relations[i].energy # None /\ relations[i].state = "approved"

Cell(l, e) ==
  {i \in ActiveRows(relations) : IsClassified(i) /\ relations[i].lean = l /\ relations[i].energy = e}

Unclassified == {i \in ActiveRows(relations) : ~IsClassified(i)}

\* Mutant: the query forgets the approval.
CellRowsAnyState(l, e) ==
  {i \in Items : relations[i] # None /\ relations[i].lean = l /\ relations[i].energy = e}

(* get_matrix_cell_detail: its own query, then the active ones.              *)
CellRows(l, e) ==
  {i \in Items : /\ relations[i] # None /\ relations[i].lean = l /\ relations[i].energy = e
                 /\ relations[i].state = "approved"}

CellDetail(l, e) == {i \in CellRows(l, e) : PubOf[i] \in ActiveIds}

(* get_mechanism_workspace_data: the approved pathways by their chain.       *)
Chain(l, m, e) ==
  {i \in ActiveRows(pathways) : /\ pathways[i].state = "approved" /\ pathways[i].category = m
                                /\ i \in ActiveRows(relations)
                                /\ relations[i].lean = l /\ relations[i].energy = e}

MechanismStats ==
  LET here == ActiveRows(pathways)
  IN [total |-> Cardinality(here),
      mapped |-> Cardinality({i \in here : pathways[i].category # None}),
      unmapped |-> Cardinality({i \in here : pathways[i].category = None}),
      approved |-> Cardinality({i \in here : pathways[i].state = "approved"})]

ContextSummary ==
  LET here == ActiveRows(links)
  IN [evidence |-> Cardinality(here), publications |-> Cardinality({PubOf[i] : i \in here}),
      categories |-> Cardinality({links[i].category : i \in here} \ {None})]

(* list_linkable_evidence_candidates with their traceable flag.              *)
Candidates == {[target |-> t, traceable |-> ResolvedRevision(t.item) # 0] :
                 t \in {u \in Targets : PubOf[u.item] \in ActiveIds}}

(* get_research_gap_workspace_data: the links that are shown under a gap.    *)
GapWorkspace(g) == {l \in gapLinks : l.gap = g /\ PubOf[l.target.item] \in ActiveIds}

-----------------------------------------------------------------------------
(* Rows as their models accept them. *)

OrNone(S) == S \cup {None}

MappingRows == [category : Cats, state : ApprovalStates]

RelationRows ==
  [rev : Nat, practice : Terms["lean"], effect : Terms["energy"],
   lean : OrNone(Cats), energy : OrNone(Cats), direction : Directions,
   magnitude : {Magnitude(x) : x \in Contents}, unit : {x.unit : x \in Contents},
   converted : OrNone({Convert(Magnitude(x), x.unit, u) : x \in Contents, u \in EnergyUnits}),
   state : ApprovalStates]

PathwayRows ==
  [rev : Nat, text : OrNone({x.mechanism : x \in Contents}), category : OrNone(Cats),
   synthesized : BOOLEAN, state : ApprovalStates]

LinkRows ==
  [id : Nat, rev : Nat, text : OrNone({x.context : x \in Contents}), category : OrNone(Cats),
   impact : Impacts, state : ApprovalStates]

GapLinkRows ==
  [id : Nat, gap : Gaps, target : [type : LinkTypes, item : Items, id : Nat], rev : Nat]

RevisionRows ==
  [status : {"draft", "complete"}, items : UNION {[S -> Contents] : S \in SUBSET Items}]

(* A missing row or column is none of the values it stands for.               *)
ASSUME MissingAssumption == None \notin Nat \cup GapTypes \cup RelationRows

(* The tables hold what their columns can, no pathway or context link is      *)
(* without its relation, and no gap link without its gap.                     *)
TypeOK ==
  /\ active \subseteq Pubs
  /\ revisions \in [Pubs -> Seq(RevisionRows)]
  /\ categories \in [Kinds -> [Cats -> OrNone(Names)]]
  /\ mappings \in [Keys -> OrNone(MappingRows)]
  /\ relations \in [Items -> OrNone(RelationRows)]
  /\ pathways \in [Items -> OrNone(PathwayRows)]
  /\ links \in [Items -> OrNone(LinkRows)]
  /\ \A i \in Items : relations[i] = None => pathways[i] = None /\ links[i] = None
  /\ gaps \in [Gaps -> OrNone(GapTypes)]
  /\ gapLinks \subseteq GapLinkRows /\ \A l \in gapLinks : gaps[l.gap] # None
  /\ \A s \in snapshots : s.version \in Nat

(* Evidence behind a research gap is never a draft: the revision a gap link  *)
(* carries is COMPLETE and has the group item in it, whatever was revised,   *)
(* superseded or linked again since (services/synthesis_gap_service.py).     *)
GapEvidenceIsComplete ==
  \A l \in gapLinks : /\ l.rev \in CompleteRevisions(PubOf[l.target.item])
                      /\ l.target.item \in DOMAIN ItemsAt(PubOf[l.target.item], l.rev)

(* A context link never names a category that does not exist, although the   *)
(* category may be deleted between the check and the write of an assignment  *)
(* or of a synchronisation (services/synthesis_context_service.py).          *)
ContextCategoryExists ==
  \A i \in Items : links[i] # None => links[i].category \in Live("context") \cup {None}

(* The views agree: a cell of the matrix counts the relations its drill-down *)
(* lists, every pathway of a chain is counted as mapped and approved, and a  *)
(* candidate is flagged traceable iff linking it would be accepted.          *)
ViewsAgree ==
  /\ \A l \in Live("lean"), e \in Live("energy") : Cell(l, e) = CellDetail(l, e)
  /\ Unclassified \cap UNION {Cell(l, e) : l \in Cats, e \in Cats} = {}
  /\ MechanismStats.mapped + MechanismStats.unmapped = MechanismStats.total
  /\ Cardinality(UNION {Chain(l, m, e) : l \in Cats, m \in Cats, e \in Cats}) <= MechanismStats.approved
  /\ {k.target : k \in {j \in Candidates : j.traceable}} = {t \in Targets : IsLinkable(t)}
  /\ \A t \in TermTypes : TermsFound(t) \subseteq ClassifiedTerms(t)
  /\ ContextSummary.categories <= ContextSummary.evidence
  /\ active # {} => \A l \in Content.gapLinks : l \in GapWorkspace(l.gap)

(* What is stored under a version is one snapshot. *)
StoredVersion(S) == IF Cardinality(S) = 1 THEN (CHOOSE s \in S : TRUE).version ELSE 0

(* The snapshots of a project are an append-only log of versions 1, 2, 3, ..., *)
(* although concurrent creators read the same highest version: a refinement   *)
(* of VersionLog (services/synthesis_snapshot_service.py).                     *)
Log == INSTANCE VersionLog WITH
         Number <- StoredVersion,
         log <- [n \in 1 .. Cardinality(snapshots) |-> {s \in snapshots : s.version = n}]
SnapshotLog == Log!Spec

(* A conversion that is stored with a relation was calculated from the        *)
(* magnitude and the unit the relation has.                                   *)
ConversionIsOfMagnitude ==
  \A i \in Items : relations[i] # None /\ relations[i].converted # None =>
    relations[i].converted.of = <<relations[i].magnitude, relations[i].unit>>

===============================================================================
