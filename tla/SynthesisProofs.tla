---------------------------- MODULE SynthesisProofs ----------------------------
(***************************************************************************)
(* Theorems about Synthesis, for every corpus, vocabulary, set of clients   *)
(* and number of requests.                                                  *)
(***************************************************************************)
EXTENDS Synthesis, SetFacts

\* The invariant, in parts that depend on few tables each.
EvidenceOK == active \subseteq Pubs /\ revisions \in [Pubs -> Seq(RevisionRows)]

ClassesOK ==
  /\ categories \in [Kinds -> [Cats -> OrNone(Names)]]
  /\ mappings \in [Keys -> OrNone(MappingRows)]

\* A relation has the magnitude and the unit of one content, so that a
\* conversion of it is one of a content.
Measured(row) == \E x \in Contents : row.magnitude = Magnitude(x) /\ row.unit = x.unit

RowsOK ==
  /\ relations \in [Items -> OrNone(RelationRows)]
  /\ \A i \in Items : relations[i] # None => Measured(relations[i])
  /\ pathways \in [Items -> OrNone(PathwayRows)]
  /\ links \in [Items -> OrNone(LinkRows)]
  /\ \A i \in Items : relations[i] = None => pathways[i] = None /\ links[i] = None

GapsOK ==
  /\ gaps \in [Gaps -> OrNone(GapTypes)]
  /\ gapLinks \subseteq GapLinkRows /\ \A l \in gapLinks : gaps[l.gap] # None

\* The versions are numbered without gaps, and each was given once.
SnapshotsOK ==
  /\ IsFiniteSet(snapshots)
  /\ Versions = 1 .. Cardinality(snapshots)
  /\ \A s, t \in snapshots : s.version = t.version => s = t

\* A complete revision with the item in it.
Backed(item, rev) ==
  rev \in CompleteRevisions(PubOf[item]) /\ item \in DOMAIN ItemsAt(PubOf[item], rev)

LinkForms ==
  [rev : Nat, text : OrNone({x.context : x \in Contents}), category : OrNone(Cats),
   impact : Impacts, state : ApprovalStates]

Related == {i \in Items : relations[i] # None}

\* What a request in flight has read and is about to write.
RequestOK(q) ==
  /\ q.pc = "mapping" => q.key \in Keys /\ q.row \in MappingRows
  /\ q.pc = "relations" =>
       /\ DOMAIN q.built \subseteq Items
       /\ \A i \in DOMAIN q.built : q.built[i] \in RelationRows /\ Measured(q.built[i])
  /\ q.pc = "convert" =>
       /\ q.item \in Related
       /\ q.value \in {Convert(Magnitude(x), x.unit, u) : x \in Contents, u \in EnergyUnits}
  /\ q.pc = "pathways" =>
       DOMAIN q.built \subseteq Related /\ \A i \in DOMAIN q.built : q.built[i] \in PathwayRows
  /\ q.pc = "links" =>
       DOMAIN q.todo \subseteq Related /\ \A i \in DOMAIN q.todo : q.todo[i] \in LinkForms
  /\ q.pc = "assign" =>
       /\ q.item \in Related /\ q.category \in Cats /\ q.impact \in Impacts
       /\ q.known = None => q.row \in LinkForms /\ q.row.category = q.category
  /\ q.pc = "evidence" =>
       /\ q.gap \in Gaps /\ q.target \in [type : LinkTypes, item : Items, id : Nat]
       /\ q.rev \in Nat /\ Backed(q.target.item, q.rev)
  /\ q.pc = "snapshot" => q.version \in 1 .. Cardinality(snapshots) + 1

CallsOK ==
  /\ call = [c \in Clients |-> call[c]]
  /\ \A c \in Clients : RequestOK(call[c])

IInv ==
  /\ EvidenceOK /\ ClassesOK /\ RowsOK /\ ops \in Nat
  /\ ContextCategoryExists
  /\ GapsOK /\ GapEvidenceIsComplete
  /\ SnapshotsOK
  /\ CallsOK

-----------------------------------------------------------------------------
(* Lemmas about the operators.                                              *)

\* The latest complete revision is a complete revision, and 0 stands for none.
LEMMA LatestIsComplete ==
  ASSUME EvidenceOK, NEW p \in Pubs
  PROVE  /\ CompleteRevisions(p) \subseteq 1 .. Len(revisions[p])
         /\ LatestComplete(p) \in Nat
         /\ LatestComplete(p) # 0 => LatestComplete(p) \in CompleteRevisions(p)
<1>1. revisions[p] \in Seq(RevisionRows)
  BY DEF EvidenceOK
<1>2. Len(revisions[p]) \in Nat /\ DOMAIN revisions[p] = 1 .. Len(revisions[p])
  BY <1>1
<1>3. CompleteRevisions(p) \in SUBSET DOMAIN revisions[p]
  BY DEF CompleteRevisions
<1>4. CASE CompleteRevisions(p) = {}
  BY <1>2, <1>3, <1>4 DEF LatestComplete
<1>5. CASE CompleteRevisions(p) # {}
  <2>1. Max(CompleteRevisions(p)) \in CompleteRevisions(p)
    BY <1>1, <1>3, <1>5, MaxOfPositions
  <2>2. LatestComplete(p) \in {0, Max(CompleteRevisions(p))}
    BY DEF LatestComplete
  <2>3. QED
    BY <1>2, <1>3, <2>1, <2>2
<1>6. QED
  BY <1>4, <1>5

\* What a revision holds for an item is one of the contents.
LEMMA ItemHasContent ==
  ASSUME EvidenceOK, NEW p \in Pubs, NEW n \in {0} \cup CompleteRevisions(p),
         NEW i \in DOMAIN ItemsAt(p, n)
  PROVE  /\ n # 0 /\ n \in CompleteRevisions(p)
         /\ i \in Items /\ ItemsAt(p, n)[i] \in Contents
<1>1. n # 0
  BY DEF ItemsAt
<1>2. n \in CompleteRevisions(p)
  BY <1>1
<1>3. n \in DOMAIN revisions[p] /\ revisions[p] \in Seq(RevisionRows)
  BY <1>2 DEF CompleteRevisions, EvidenceOK
<1>4. revisions[p][n] \in RevisionRows
  BY <1>3
<1>5. PICK S \in SUBSET Items : revisions[p][n].items \in [S -> Contents]
  BY <1>4 DEF RevisionRows
<1>6. ItemsAt(p, n) = revisions[p][n].items
  BY <1>1 DEF ItemsAt
<1>7. QED
  BY <1>1, <1>2, <1>5, <1>6

\* What the columns of a content can hold.
LEMMA ContentColumns ==
  ASSUME NEW x \in Contents
  PROVE  /\ x.practice # None => x.practice \in Terms["lean"] /\ <<"lean", x.practice>> \in Keys
         /\ x.effect # None => x.effect \in Terms["energy"] /\ <<"energy", x.effect>> \in Keys
         /\ Direction(x) \in Directions
<1>1. /\ x.practice \in Terms["lean"] \cup {None} /\ x.effect \in Terms["energy"] \cup {None}
      /\ x.direction \in Directions
  BY SynthesisAssumption DEF SynthesisAssumption
<1>2. "lean" \in TermTypes /\ "energy" \in TermTypes
  BY DEF TermTypes
<1>3. Direction(x) \in Directions
  BY <1>1 DEF Direction, Directions
<1>4. QED
  BY <1>1, <1>2, <1>3 DEF Keys

\* A category that is read off a mapping exists at that moment.
LEMMA ClassifiedIsCategory ==
  ASSUME ClassesOK, NEW m \in Keys, NEW k \in Kinds
  PROVE  Classified(mappings[m], Live(k)) \in OrNone(Cats)
BY DEF Classified, Live, OrNone

\* Every relation that is built is a row, and one content was measured.
LEMMA BuiltIsRow ==
  ASSUME EvidenceOK, ClassesOK, RowsOK
  PROVE  /\ DOMAIN BuiltRelations \subseteq Items
         /\ \A i \in DOMAIN BuiltRelations :
              BuiltRelations[i] \in RelationRows /\ Measured(BuiltRelations[i])
<1>1. DOMAIN BuiltRelations \subseteq Items
  BY DEF BuiltRelations
<1>2. SUFFICES ASSUME NEW i \in DOMAIN BuiltRelations
               PROVE  BuiltRelations[i] \in RelationRows /\ Measured(BuiltRelations[i])
  BY <1>1
<1> DEFINE p == PubOf[i]
           n == LatestComplete(p)
           x == ItemsAt(p, n)[i]
<1>3. i \in Items /\ i \in DOMAIN ItemsAt(p, n) /\ MakesRelation(x)
  BY DEF BuiltRelations
<1>4. p \in Pubs
  BY <1>3, SynthesisAssumption DEF SynthesisAssumption
<1>5. n \in Nat /\ n \in {0} \cup CompleteRevisions(p)
  BY <1>4, LatestIsComplete
<1>6. x \in Contents
  BY <1>3, <1>4, <1>5, ItemHasContent
<1> DEFINE lean == mappings[<<"lean", x.practice>>]
           energy == mappings[<<"energy", x.effect>>]
           old == relations[i]
           row == BuildRelation(x, n, old, lean, energy, Live("lean"), Live("energy"))
<1>7. BuiltRelations[i] = row
  BY <1>3 DEF BuiltRelations
<1>8. /\ x.practice \in Terms["lean"] /\ x.effect \in Terms["energy"]
      /\ <<"lean", x.practice>> \in Keys /\ <<"energy", x.effect>> \in Keys
      /\ Direction(x) \in Directions
  BY <1>3, <1>6, ContentColumns DEF MakesRelation
<1>9. Classified(lean, Live("lean")) \in OrNone(Cats) /\ Classified(energy, Live("energy")) \in OrNone(Cats)
  BY <1>8, ClassifiedIsCategory DEF Kinds
<1>10. old # None => old.converted \in OrNone({Convert(Magnitude(y), y.unit, u) : y \in Contents, u \in EnergyUnits})
  BY <1>3 DEF RowsOK, OrNone, RelationRows
<1> HIDE DEF x, n, p, lean, energy, old
<1>11. row.converted \in OrNone({Convert(Magnitude(y), y.unit, u) : y \in Contents, u \in EnergyUnits})
  BY <1>10 DEF BuildRelation, OrNone
<1>12. row.state \in ApprovalStates
  BY DEF BuildRelation, ApprovalStates
<1>13. row.magnitude = Magnitude(x) /\ row.unit = x.unit
  BY DEF BuildRelation
<1>14. row \in [rev : Nat, practice : Terms["lean"], effect : Terms["energy"],
               lean : OrNone(Cats), energy : OrNone(Cats), direction : Directions,
               magnitude : {Magnitude(y) : y \in Contents}, unit : {y.unit : y \in Contents},
               converted : OrNone({Convert(Magnitude(y), y.unit, u) : y \in Contents, u \in EnergyUnits}),
               state : ApprovalStates]
  BY <1>5, <1>6, <1>8, <1>9, <1>11, <1>12, <1>13 DEF BuildRelation
<1>15. QED
  BY <1>6, <1>7, <1>13, <1>14 DEF RelationRows, Measured

\* A synchronised pathway is a row.
LEMMA SyncedPathwayIsRow ==
  ASSUME EvidenceOK, ClassesOK, RowsOK, NEW i \in Related
  PROVE  SyncedPathway(i) \in PathwayRows
<1> DEFINE p == PubOf[i]
           own == relations[i].rev
           n == IF own \in CompleteRevisions(p) THEN own ELSE LatestComplete(p)
           old == pathways[i]
<1>1. i \in Items /\ p \in Pubs /\ relations[i] \in RelationRows /\ own \in Nat
  BY SynthesisAssumption DEF SynthesisAssumption, Related, RowsOK, OrNone, RelationRows
<1>2. n \in Nat /\ n \in {0} \cup CompleteRevisions(p)
  BY <1>1, LatestIsComplete
<1>3. i \in DOMAIN ItemsAt(p, n) => ItemsAt(p, n)[i] \in Contents
  BY <1>1, <1>2, ItemHasContent
<1>4. SourceMechanism(i).rev \in Nat /\ SourceMechanism(i).text \in OrNone({x.mechanism : x \in Contents})
  BY <1>1, <1>2, <1>3 DEF SourceMechanism, MechanismText, OrNone
<1>5. old \in OrNone(PathwayRows)
  BY <1>1 DEF RowsOK
<1>6. old # None => old.category \in OrNone(Cats) /\ old.synthesized \in BOOLEAN /\ old.state \in ApprovalStates
  BY <1>5 DEF OrNone, PathwayRows
<1> DEFINE keep == old # None /\ old.category \in Live("mechanism")
<1>7. /\ (IF keep THEN old.category ELSE None) \in OrNone(Cats)
      /\ (old # None /\ old.synthesized) \in BOOLEAN
      /\ (IF keep THEN old.state ELSE "pending") \in ApprovalStates
  BY <1>6 DEF OrNone, ApprovalStates
<1>8. SyncedPathway(i) =
        [rev |-> SourceMechanism(i).rev, text |-> SourceMechanism(i).text,
         category |-> IF keep THEN old.category ELSE None,
         synthesized |-> old # None /\ old.synthesized,
         state |-> IF keep THEN old.state ELSE "pending"]
  BY DEF SyncedPathway
<1> HIDE DEF keep, old
<1>9. QED
  BY <1>4, <1>7, <1>8 DEF PathwayRows

\* A synchronised context link is what a link can be made from.
LEMMA SyncedLinkIsForm ==
  ASSUME EvidenceOK, ClassesOK, RowsOK, NEW i \in Related
  PROVE  SyncedLink(i) \in LinkForms
<1> DEFINE p == PubOf[i]
           n == LatestComplete(p)
           old == links[i]
           keep == old # None /\ old.category \in Live("context")
           text == IF i \in DOMAIN ItemsAt(p, n) THEN ContextText(ItemsAt(p, n)[i])
                   ELSE IF n = 0 /\ old # None THEN old.text ELSE None
<1>1. i \in Items /\ p \in Pubs /\ relations[i] \in RelationRows /\ relations[i].rev \in Nat
  BY SynthesisAssumption DEF SynthesisAssumption, Related, RowsOK, OrNone, RelationRows
<1>2. n \in Nat /\ n \in {0} \cup CompleteRevisions(p)
  BY <1>1, LatestIsComplete
<1>3. i \in DOMAIN ItemsAt(p, n) => ItemsAt(p, n)[i] \in Contents
  BY <1>1, <1>2, ItemHasContent
<1>4. old \in OrNone(LinkRows)
  BY <1>1 DEF RowsOK
<1>5. old # None => /\ old.text \in OrNone({x.context : x \in Contents})
                    /\ old.category \in OrNone(Cats)
                    /\ old.impact \in Impacts /\ old.state \in ApprovalStates
  BY <1>4 DEF OrNone, LinkRows
<1>6. text \in OrNone({x.context : x \in Contents})
  BY <1>3, <1>5 DEF ContextText, OrNone
<1>7. /\ (IF keep THEN old.category ELSE None) \in OrNone(Cats)
      /\ (IF old = None THEN "ENABLE" ELSE old.impact) \in Impacts
      /\ (IF keep THEN old.state ELSE "pending") \in ApprovalStates
  BY <1>5 DEF OrNone, ApprovalStates, Impacts
<1>8. (IF n = 0 THEN relations[i].rev ELSE n) \in Nat
  BY <1>1, <1>2
<1>9. SyncedLink(i) =
        [rev |-> IF n = 0 THEN relations[i].rev ELSE n, text |-> text,
         category |-> IF keep THEN old.category ELSE None,
         impact |-> IF old = None THEN "ENABLE" ELSE old.impact,
         state |-> IF keep THEN old.state ELSE "pending"]
  BY DEF SyncedLink
<1> HIDE DEF keep, old, text, n
<1>10. QED
  BY <1>6, <1>7, <1>8, <1>9 DEF LinkForms

\* Evidence that can be linked is backed by the revision it resolves to.
LEMMA LinkableIsBacked ==
  ASSUME EvidenceOK, NEW i \in Items, ResolvedRevision(i) # 0
  PROVE  ResolvedRevision(i) \in Nat /\ Backed(i, ResolvedRevision(i))
<1> DEFINE p == PubOf[i]
           n == LatestComplete(p)
<1>1. p \in Pubs
  BY SynthesisAssumption DEF SynthesisAssumption
<1>2. ResolvedRevision(i) = n /\ i \in DOMAIN ItemsAt(p, n)
  BY DEF ResolvedRevision
<1>3. n \in Nat /\ n \in CompleteRevisions(p)
  BY <1>1, <1>2, LatestIsComplete
<1>4. QED
  BY <1>2, <1>3 DEF Backed

\* What a research gap can point at is typed.
LEMMA TargetType ==
  ASSUME RowsOK, NEW t \in Targets
  PROVE  t \in [type : LinkTypes, item : Items, id : Nat]
<1>1. \A i \in Items : links[i] # None => links[i].id \in Nat
  BY DEF RowsOK, OrNone, LinkRows
<1>2. QED
  BY <1>1 DEF Targets, LinkTypes

\* The initial state.
LEMMA InitOK == Init => IInv
<1> SUFFICES ASSUME Init PROVE IInv
  OBVIOUS
<1>1. EvidenceOK
  <2>1. ASSUME NEW p \in Pubs
        PROVE  revisions[p] \in Seq(RevisionRows)
    <3> DEFINE row == [status |-> "complete",
                       items |-> [i \in {j \in Items : PubOf[j] = p} |-> FirstItems[i]]]
    <3>1. [i \in {j \in Items : PubOf[j] = p} |-> FirstItems[i]] \in [{j \in Items : PubOf[j] = p} -> Contents]
      BY SynthesisAssumption DEF SynthesisAssumption
    <3>2. row \in RevisionRows
      BY <3>1 DEF RevisionRows
    <3>3. revisions[p] = <<row>>
      BY DEF Init
    <3> HIDE DEF row
    <3>4. QED
      BY <3>2, <3>3
  <2>2. QED
    BY <2>1 DEF EvidenceOK, Init
<1>2. ClassesOK
  BY SynthesisAssumption DEF SynthesisAssumption, Init, ClassesOK, OrNone, MappingRows
<1>3. RowsOK /\ ContextCategoryExists
  BY DEF Init, RowsOK, OrNone, ContextCategoryExists
<1>4. GapsOK /\ GapEvidenceIsComplete
  BY DEF Init, GapsOK, OrNone, GapEvidenceIsComplete
<1>5. SnapshotsOK
  BY FS_EmptySet DEF Init, SnapshotsOK, Versions
<1>6. CallsOK
  BY DEF Init, CallsOK, RequestOK, NoCall
<1>7. QED
  BY <1>1, <1>2, <1>3, <1>4, <1>5, <1>6 DEF IInv, Init

-----------------------------------------------------------------------------
(* What every step leaves to the requests in flight: a relation stays, a     *)
(* complete revision stays as it is, and snapshots are only added.           *)
Grown ==
  /\ Related \subseteq Related'
  /\ \A i \in Items, n \in Nat : Backed(i, n) => Backed(i, n)'
  /\ Cardinality(snapshots) \in Nat /\ Cardinality(snapshots') \in Nat
  /\ Cardinality(snapshots) <= Cardinality(snapshots')

LEMMA RequestKept ==
  ASSUME Grown, NEW q, RequestOK(q)
  PROVE  RequestOK(q)'
<1>1. q.pc = "convert" => q.item \in Related'
  BY DEF RequestOK, Grown
<1>2. q.pc = "pathways" => DOMAIN q.built \subseteq Related'
  BY DEF RequestOK, Grown
<1>3. q.pc = "links" => DOMAIN q.todo \subseteq Related'
  BY DEF RequestOK, Grown
<1>4. q.pc = "assign" => q.item \in Related'
  BY DEF RequestOK, Grown
<1>5. q.pc = "evidence" => Backed(q.target.item, q.rev)'
  BY DEF RequestOK, Grown
<1>6. q.pc = "snapshot" => q.version \in 1 .. Cardinality(snapshots') + 1
  BY DEF RequestOK, Grown
<1>7. QED
  BY <1>1, <1>2, <1>3, <1>4, <1>5, <1>6 DEF RequestOK, Measured

LEMMA CallsKept ==
  ASSUME CallsOK, Grown, UNCHANGED call
  PROVE  CallsOK'
BY RequestKept DEF CallsOK

\* One request moves on, and what it now holds is in order.
LEMMA CallsMoved ==
  ASSUME CallsOK, Grown, NEW c \in Clients, NEW q, Waits(c, q), RequestOK(q)'
  PROVE  CallsOK'
<1>1. \A d \in Clients : RequestOK(call[d])'
  <2> SUFFICES ASSUME NEW d \in Clients PROVE RequestOK(call[d])'
    OBVIOUS
  <2>1. CASE d = c
    <3>1. call'[d] = q
      BY <2>1 DEF Waits, CallsOK
    <3>2. QED
      BY <3>1 DEF RequestOK
  <2>2. CASE d # c
    <3>1. call'[d] = call[d]
      BY <2>2 DEF Waits, CallsOK
    <3>2. RequestOK(call[d])
      BY DEF CallsOK
    <3> DEFINE r == call[d]
    <3>3. RequestOK(r) /\ call'[d] = r
      BY <3>1, <3>2
    <3>4. QED
      BY <3>1, <3>2, RequestKept DEF RequestOK
  <2>3. QED
    BY <2>1, <2>2
<1>2. call' = [d \in Clients |-> call'[d]]
  BY DEF Waits, CallsOK
<1>3. QED
  BY <1>1, <1>2 DEF CallsOK

LEMMA EndedIsOK == RequestOK(NoCall) /\ RequestOK(NoCall)'
BY DEF RequestOK, NoCall

LEMMA CountOfSnapshots ==
  ASSUME SnapshotsOK
  PROVE  Cardinality(snapshots) \in Nat
BY FS_CardinalityType DEF SnapshotsOK

\* A step that leaves the tables alone keeps what it says of them.
LEMMA SameTables ==
  ASSUME IInv, UNCHANGED <<evidence, classes, rows, gapTables, snapshots>>
  PROVE  /\ EvidenceOK' /\ ClassesOK' /\ RowsOK' /\ ContextCategoryExists'
         /\ GapsOK' /\ GapEvidenceIsComplete' /\ SnapshotsOK' /\ Grown
<1> USE DEF IInv, evidence, classes, rows, gapTables
<1>1. EvidenceOK' /\ ClassesOK' /\ RowsOK'
  BY DEF EvidenceOK, ClassesOK, RowsOK, Measured
<1>2. ContextCategoryExists' /\ GapsOK' /\ SnapshotsOK'
  BY DEF ContextCategoryExists, Live, GapsOK, SnapshotsOK, Versions
<1>3. GapEvidenceIsComplete'
  BY DEF GapEvidenceIsComplete, CompleteRevisions, ItemsAt
<1>4. Grown
  BY CountOfSnapshots DEF Grown, Related, Backed, CompleteRevisions, ItemsAt
<1>5. QED
  BY <1>1, <1>2, <1>3, <1>4

\* A request that reads and then waits with something in order.
LEMMA BeginStep ==
  ASSUME IInv, NEW c \in Clients, NEW q, RequestOK(q), Begins(c), Waits(c, q),
         UNCHANGED <<evidence, classes, rows, gapTables, snapshots>>
  PROVE  IInv'
<1>1. Grown /\ RequestOK(q)'
  BY SameTables, RequestKept
<1>2. CallsOK'
  BY <1>1, CallsMoved DEF IInv
<1>3. ops' \in Nat
  BY DEF IInv, Begins
<1>4. QED
  BY <1>2, <1>3, SameTables DEF IInv

-----------------------------------------------------------------------------
(* One table, or a few, at a time.                                           *)

LEMMA SameEvidence ==
  ASSUME IInv, UNCHANGED evidence
  PROVE  EvidenceOK' /\ \A i \in Items, n \in Nat : Backed(i, n) => Backed(i, n)'
BY DEF IInv, evidence, EvidenceOK, Backed, CompleteRevisions, ItemsAt

LEMMA SameClasses ==
  ASSUME IInv, UNCHANGED classes
  PROVE  ClassesOK'
BY DEF IInv, classes, ClassesOK

LEMMA SameRows ==
  ASSUME IInv, UNCHANGED rows
  PROVE  RowsOK' /\ Related \subseteq Related'
BY DEF IInv, rows, RowsOK, Measured, Related

LEMMA SameGaps ==
  ASSUME IInv, UNCHANGED <<evidence, gapTables>>
  PROVE  GapsOK' /\ GapEvidenceIsComplete'
BY DEF IInv, evidence, gapTables, GapsOK, GapEvidenceIsComplete, CompleteRevisions, ItemsAt

LEMMA SameSnapshots ==
  ASSUME IInv, UNCHANGED snapshots
  PROVE  /\ SnapshotsOK' /\ Cardinality(snapshots) \in Nat /\ Cardinality(snapshots') \in Nat
         /\ Cardinality(snapshots) <= Cardinality(snapshots')
BY CountOfSnapshots DEF IInv, SnapshotsOK, Versions

-----------------------------------------------------------------------------
(* The evidence underneath.                                                  *)

\* A new revision leaves the earlier ones, and so whatever they back, alone.
LEMMA ReviseKeeps ==
  ASSUME IInv, NEW p \in Pubs, NEW status \in {"draft", "complete"},
         NEW S \in SUBSET ItemsOf(p), NEW items \in [S -> Contents], Revise(p, status, items)
  PROVE  EvidenceOK' /\ \A i \in Items, n \in Nat : Backed(i, n) => Backed(i, n)'
<1> DEFINE row == [status |-> status, items |-> items]
<1>1. row \in RevisionRows
  BY DEF RevisionRows, ItemsOf
<1>2. revisions \in [Pubs -> Seq(RevisionRows)]
  BY DEF IInv, EvidenceOK
<1>3. revisions' = [revisions EXCEPT ![p] = Append(@, row)]
  BY DEF Revise
<1> HIDE DEF row
<1>4. revisions' \in [Pubs -> Seq(RevisionRows)]
  BY <1>1, <1>2, <1>3
<1>5. \A q \in Pubs : \A n \in DOMAIN revisions[q] :
        n \in DOMAIN revisions'[q] /\ revisions'[q][n] = revisions[q][n]
  BY <1>1, <1>2, <1>3
<1>6. ASSUME NEW i \in Items, NEW n \in Nat, Backed(i, n)
      PROVE  Backed(i, n)'
  <2>1. PubOf[i] \in Pubs
    BY SynthesisAssumption DEF SynthesisAssumption
  <2>2. n \in DOMAIN revisions[PubOf[i]]
    BY <1>6 DEF Backed, CompleteRevisions
  <2>3. n \in DOMAIN revisions'[PubOf[i]] /\ revisions'[PubOf[i]][n] = revisions[PubOf[i]][n]
    BY <1>5, <2>1, <2>2
  <2>4. QED
    BY <1>6, <2>3 DEF Backed, CompleteRevisions, ItemsAt
<1>7. EvidenceOK'
  BY <1>4 DEF EvidenceOK, IInv, Revise
<1>8. QED
  BY <1>6, <1>7

LEMMA ExtractionStep ==
  ASSUME IInv, Extraction
  PROVE  IInv'
<1>1. CASE \E p \in Pubs, status \in {"draft", "complete"} :
             \E S \in SUBSET ItemsOf(p) : \E items \in [S -> Contents] : Revise(p, status, items)
  <2>1. PICK p \in Pubs, status \in {"draft", "complete"} :
               \E S \in SUBSET ItemsOf(p) : \E items \in [S -> Contents] : Revise(p, status, items)
    BY <1>1
  <2>2. PICK S \in SUBSET ItemsOf(p) : \E items \in [S -> Contents] : Revise(p, status, items)
    BY <2>1
  <2>0. PICK items \in [S -> Contents] : Revise(p, status, items)
    BY <2>2
  <2>3. EvidenceOK' /\ \A i \in Items, n \in Nat : Backed(i, n) => Backed(i, n)'
    BY <2>0, ReviseKeeps
  <2>4. /\ UNCHANGED classes /\ UNCHANGED rows /\ UNCHANGED gapTables /\ UNCHANGED snapshots
        /\ UNCHANGED call /\ ops' = ops + 1
    BY <2>0 DEF Revise, AtOnce
  <2>5. Grown /\ ClassesOK' /\ RowsOK' /\ SnapshotsOK'
    BY <2>3, <2>4, SameRows, SameClasses, SameSnapshots DEF Grown
  <2>6. ContextCategoryExists' /\ GapsOK'
    BY <2>4 DEF IInv, ContextCategoryExists, Live, GapsOK, classes, rows, gapTables
  <2>7. GapEvidenceIsComplete'
    <3>1. \A l \in gapLinks : l.target.item \in Items /\ l.rev \in Nat /\ Backed(l.target.item, l.rev)
      BY DEF IInv, GapsOK, GapLinkRows, GapEvidenceIsComplete, Backed
    <3>2. \A l \in gapLinks : Backed(l.target.item, l.rev)'
      BY <2>3, <3>1
    <3>3. QED
      BY <2>4, <3>2 DEF GapEvidenceIsComplete, Backed, gapTables
  <2>8. CallsOK'
    BY <2>4, <2>5, CallsKept DEF IInv
  <2>9. QED
    BY <2>3, <2>4, <2>5, <2>6, <2>7, <2>8 DEF IInv
<1>2. CASE \E p \in Pubs : Supersede(p)
  <2>1. /\ active' \subseteq active /\ UNCHANGED revisions
        /\ UNCHANGED classes /\ UNCHANGED rows /\ UNCHANGED gapTables /\ UNCHANGED snapshots
        /\ UNCHANGED call /\ ops' = ops + 1
    BY <1>2 DEF Supersede, AtOnce
  <2>2. EvidenceOK' /\ \A i \in Items, n \in Nat : Backed(i, n) => Backed(i, n)'
    BY <2>1 DEF IInv, EvidenceOK, Backed, CompleteRevisions, ItemsAt
  <2>3. Grown /\ ClassesOK' /\ RowsOK' /\ SnapshotsOK'
    BY <2>1, <2>2, SameRows, SameClasses, SameSnapshots DEF Grown
  <2>4. ContextCategoryExists' /\ GapsOK' /\ GapEvidenceIsComplete'
    BY <2>1 DEF IInv, ContextCategoryExists, Live, GapsOK, GapEvidenceIsComplete, CompleteRevisions,
                ItemsAt, classes, rows, gapTables
  <2>5. CallsOK'
    BY <2>1, <2>3, CallsKept DEF IInv
  <2>6. QED
    BY <2>1, <2>2, <2>3, <2>4, <2>5 DEF IInv
<1>3. QED
  BY <1>1, <1>2 DEF Extraction

-----------------------------------------------------------------------------
(* Categories and the mapping of terms.                                      *)

\* A category that is created, or that gets another text, exists.
LEMMA NamedStep ==
  ASSUME IInv, NEW k \in Kinds, NEW id \in Cats, NEW name \in Names,
         Inserted(k, id, name) \/ Updated(k, id, name)
  PROVE  IInv'
<1>1. /\ categories' = [categories EXCEPT ![k][id] = name]
      /\ UNCHANGED <<evidence, mappings, rows, gapTables, snapshots>> /\ UNCHANGED call /\ ops' = ops + 1
  BY DEF Inserted, Updated, AtOnce
<1>2. categories \in [Kinds -> [Cats -> OrNone(Names)]] /\ name # None /\ name \in OrNone(Names)
  BY SynthesisAssumption DEF IInv, ClassesOK, SynthesisAssumption, OrNone
<1>3. ClassesOK'
  BY <1>1, <1>2 DEF IInv, ClassesOK
<1>4. Live("context") \subseteq Live("context")'
  BY <1>1, <1>2 DEF Live, Kinds
<1>5. ContextCategoryExists'
  BY <1>1, <1>4 DEF IInv, ContextCategoryExists, rows
<1>6. Grown /\ EvidenceOK' /\ RowsOK' /\ GapsOK' /\ GapEvidenceIsComplete' /\ SnapshotsOK'
  BY <1>1, SameEvidence, SameRows, SameGaps, SameSnapshots DEF Grown
<1>7. QED
  BY <1>1, <1>3, <1>5, <1>6, CallsKept DEF IInv

\* Clearing a reference changes neither which rows there are nor their other
\* columns.
LEMMA ClearedRelation ==
  ASSUME RowsOK, NEW id, NEW field \in {"lean", "energy"}
  PROVE  /\ Cleared(relations, field, id) \in [Items -> OrNone(RelationRows)]
         /\ \A i \in Items : Cleared(relations, field, id)[i] = None <=> relations[i] = None
         /\ \A i \in Items : relations[i] # None => Measured(Cleared(relations, field, id)[i])
<1> SUFFICES ASSUME NEW i \in Items
             PROVE  LET row == Cleared(relations, field, id)[i]
                    IN /\ row \in OrNone(RelationRows) /\ (row = None <=> relations[i] = None)
                       /\ relations[i] # None => Measured(row)
  BY DEF Cleared
<1> DEFINE old == relations[i]
           new == [old EXCEPT ![field] = None]
           row == Cleared(relations, field, id)[i]
<1>1. old \in OrNone(RelationRows) /\ (old # None => Measured(old))
  BY DEF RowsOK
<1>2. row = IF old # None /\ old[field] = id THEN new ELSE old
  BY DEF Cleared
<1>3. None \notin RelationRows
  BY MissingAssumption
<1>4. old # None => new \in RelationRows /\ Measured(new)
  <2> HIDE DEF old
  <2>1. CASE field = "lean"
    BY <1>1, <2>1 DEF OrNone, RelationRows, Measured
  <2>2. CASE field = "energy"
    BY <1>1, <2>2 DEF OrNone, RelationRows, Measured
  <2>3. QED
    BY <2>1, <2>2
<1> HIDE DEF old, new, row
<1>5. /\ row \in OrNone(RelationRows) /\ (row = None <=> old = None)
      /\ old # None => Measured(row)
  BY <1>1, <1>2, <1>3, <1>4 DEF OrNone
<1>6. QED
  BY <1>5 DEF old, row

\* The mappings that are left when a category goes are mappings.
LEMMA MappingsLeft ==
  ASSUME ClassesOK, NEW t, NEW id
  PROVE  WithoutMappings(t, id) \in [Keys -> OrNone(MappingRows)]
BY DEF ClassesOK, WithoutMappings, OrNone

\* What every deletion of a category leaves alone.
LEMMA GoneFrame ==
  ASSUME IInv, NEW k \in Kinds, NEW id \in Cats, CategoryGone(k, id),
         mappings' \in [Keys -> OrNone(MappingRows)]
  PROVE  /\ ClassesOK' /\ EvidenceOK' /\ GapsOK' /\ GapEvidenceIsComplete' /\ SnapshotsOK'
         /\ ops' \in Nat /\ UNCHANGED call
         /\ Related \subseteq Related' => Grown
         /\ k # "context" => Live("context")' = Live("context")
         /\ k = "context" => Live("context")' = Live("context") \ {id}
<1>1. /\ categories' = [categories EXCEPT ![k][id] = None] /\ UNCHANGED <<evidence, gapTables, snapshots>>
      /\ UNCHANGED call /\ ops' = ops + 1
  BY DEF CategoryGone, AtOnce
<1>2. categories \in [Kinds -> [Cats -> OrNone(Names)]]
  BY DEF IInv, ClassesOK
<1>3. categories' \in [Kinds -> [Cats -> OrNone(Names)]]
  BY <1>1, <1>2 DEF OrNone
<1>4. ClassesOK'
  BY <1>3 DEF ClassesOK
<1>5. \A c \in Cats : categories'["context"][c] =
        IF k = "context" /\ c = id THEN None ELSE categories["context"][c]
  BY <1>1, <1>2 DEF Kinds
<1>6. /\ k # "context" => Live("context")' = Live("context")
      /\ k = "context" => Live("context")' = Live("context") \ {id}
  BY <1>5 DEF Live
<1>7. /\ EvidenceOK' /\ GapsOK' /\ GapEvidenceIsComplete' /\ SnapshotsOK'
      /\ Related \subseteq Related' => Grown
  BY <1>1, SameEvidence, SameGaps, SameSnapshots DEF Grown
<1>8. ops' \in Nat
  BY <1>1 DEF IInv
<1>9. QED
  BY <1>1, <1>4, <1>6, <1>7, <1>8

LEMMA MatrixCategoryGone ==
  ASSUME IInv, NEW id \in Cats, DeleteLeanCategory(id) \/ DeleteEnergyCategory(id)
  PROVE  IInv'
<1>1. PICK k \in {"lean", "energy"} :
        /\ CategoryGone(k, id) /\ mappings' = WithoutMappings(k, id)
        /\ relations' = Cleared(relations, k, id) /\ UNCHANGED <<pathways, links>>
  BY DEF DeleteLeanCategory, DeleteEnergyCategory
<1>2. mappings' \in [Keys -> OrNone(MappingRows)]
  BY <1>1, MappingsLeft DEF IInv
<1>3. k \in Kinds /\ k # "context"
  BY DEF Kinds
<1>4. /\ relations' \in [Items -> OrNone(RelationRows)]
      /\ \A i \in Items : relations'[i] = None <=> relations[i] = None
      /\ \A i \in Items : relations[i] # None => Measured(relations'[i])
  BY <1>1, ClearedRelation DEF IInv
<1>5. RowsOK'
  BY <1>1, <1>4 DEF IInv, RowsOK, Measured
<1>6. Related \subseteq Related'
  BY <1>4 DEF Related
<1>7. ContextCategoryExists'
  BY <1>1, <1>2, <1>3, GoneFrame DEF IInv, ContextCategoryExists
<1>8. QED
  BY <1>1, <1>2, <1>3, <1>5, <1>6, <1>7, GoneFrame, CallsKept DEF IInv

LEMMA MechanismCategoryGone ==
  ASSUME IInv, NEW id \in Cats, DeleteMechanismCategory(id)
  PROVE  IInv'
<1>1. /\ CategoryGone("mechanism", id) /\ pathways' = Cleared(pathways, "category", id)
      /\ UNCHANGED <<mappings, relations, links>>
  BY DEF DeleteMechanismCategory
<1>2. mappings' \in [Keys -> OrNone(MappingRows)]
  BY <1>1 DEF IInv, ClassesOK
<1>3. \A i \in Items : /\ pathways'[i] \in OrNone(PathwayRows)
                       /\ pathways[i] = None => pathways'[i] = None
  <2> SUFFICES ASSUME NEW i \in Items
               PROVE  /\ pathways'[i] \in OrNone(PathwayRows)
                      /\ pathways[i] = None => pathways'[i] = None
    OBVIOUS
  <2>1. pathways[i] \in OrNone(PathwayRows)
    BY DEF IInv, RowsOK
  <2>2. pathways'[i] = IF pathways[i] # None /\ pathways[i]["category"] = id
                       THEN [pathways[i] EXCEPT !["category"] = None] ELSE pathways[i]
    BY <1>1 DEF Cleared
  <2>3. pathways[i] # None => [pathways[i] EXCEPT !["category"] = None] \in PathwayRows
    BY <2>1 DEF OrNone, PathwayRows
  <2>4. QED
    BY <2>1, <2>2, <2>3 DEF OrNone
<1>4. RowsOK' /\ Related \subseteq Related'
  BY <1>1, <1>3 DEF IInv, RowsOK, Measured, Related, Cleared
<1>5. ContextCategoryExists'
  BY <1>1, <1>2, GoneFrame DEF IInv, ContextCategoryExists, Kinds
<1>6. QED
  BY <1>1, <1>2, <1>4, <1>5, GoneFrame, CallsKept DEF IInv, Kinds

\* The links of a context category lose it in the step that deletes it.
LEMMA ContextCategoryGone ==
  ASSUME IInv, NEW id \in Cats, DeleteContextCategory(id)
  PROVE  IInv'
<1>1. /\ CategoryGone("context", id) /\ links' = Cleared(links, "category", id)
      /\ UNCHANGED <<mappings, relations, pathways>>
  BY DEF DeleteContextCategory
<1>2. mappings' \in [Keys -> OrNone(MappingRows)]
  BY <1>1 DEF IInv, ClassesOK
<1>3. Live("context")' = Live("context") \ {id}
  BY <1>1, <1>2, GoneFrame DEF Kinds
<1>4. \A i \in Items : /\ links'[i] \in OrNone(LinkRows)
                       /\ links[i] = None => links'[i] = None
                       /\ links'[i] # None => links'[i].category \in Live("context")' \cup {None}
  <2> SUFFICES ASSUME NEW i \in Items
               PROVE  /\ links'[i] \in OrNone(LinkRows)
                      /\ links[i] = None => links'[i] = None
                      /\ links'[i] # None => links'[i].category \in Live("context")' \cup {None}
    OBVIOUS
  <2>1. /\ links[i] \in OrNone(LinkRows)
        /\ links[i] # None => links[i].category \in Live("context") \cup {None}
    BY DEF IInv, RowsOK, ContextCategoryExists
  <2>2. links'[i] = IF links[i] # None /\ links[i]["category"] = id
                    THEN [links[i] EXCEPT !["category"] = None] ELSE links[i]
    BY <1>1 DEF Cleared
  <2>3. links[i] # None => /\ [links[i] EXCEPT !["category"] = None] \in LinkRows
                           /\ [links[i] EXCEPT !["category"] = None].category = None
                           /\ links[i]["category"] = links[i].category
    BY <2>1 DEF OrNone, LinkRows
  <2>4. QED
    BY <1>3, <2>1, <2>2, <2>3 DEF OrNone
<1>5. RowsOK' /\ Related \subseteq Related'
  BY <1>1, <1>4 DEF IInv, RowsOK, Measured, Related, Cleared
<1>6. ContextCategoryExists'
  BY <1>4 DEF ContextCategoryExists
<1>7. QED
  BY <1>1, <1>2, <1>5, <1>6, GoneFrame, CallsKept DEF IInv, Kinds

LEMMA CategoriesStep ==
  ASSUME IInv, EditCategories
  PROVE  IInv'
<1>1. CASE \E id \in Cats, name \in Names, k \in Kinds : Inserted(k, id, name) \/ Updated(k, id, name)
  BY <1>1, NamedStep
<1>2. CASE \E id \in Cats : \/ DeleteLeanCategory(id) \/ DeleteEnergyCategory(id)
                            \/ DeleteMechanismCategory(id) \/ DeleteContextCategory(id)
  BY <1>2, MatrixCategoryGone, MechanismCategoryGone, ContextCategoryGone
<1>3. QED
  BY <1>1, <1>2 DEF EditCategories, Kinds, CreateLeanCategory, CreateEnergyCategory,
     CreateMechanismCategory, CreateContextCategory, UpdateLeanCategory, UpdateEnergyCategory,
     UpdateMechanismCategory, UpdateContextCategory

LEMMA ClassifyStep ==
  ASSUME IInv, NEW c \in Clients, Classify(c)
  PROVE  IInv'
<1>1. ASSUME NEW m \in Keys, NEW id \in Cats, SetTermMapping(c, m, id)
      PROVE  IInv'
  <2> DEFINE q == [pc |-> "mapping", key |-> m, row |-> NewMapping(m, id)]
  <2>1. NewMapping(m, id) \in MappingRows
    BY DEF NewMapping, IInv, ClassesOK, OrNone, MappingRows, ApprovalStates
  <2>2. RequestOK(q)
    BY <2>1 DEF RequestOK
  <2>3. QED
    BY <1>1, <2>2, BeginStep DEF SetTermMapping
<1>2. ASSUME NEW m \in Keys, ApproveTermMapping(c, m)
      PROVE  IInv'
  <2> DEFINE row == [mappings[m] EXCEPT !.state = "approved"]
             q == [pc |-> "mapping", key |-> m, row |-> row]
  <2>1. mappings[m] # None /\ mappings[m] \in OrNone(MappingRows)
    BY <1>2 DEF ApproveTermMapping, IInv, ClassesOK
  <2>2. row \in MappingRows
    BY <2>1 DEF OrNone, MappingRows, ApprovalStates
  <2>3. RequestOK(q)
    BY <2>2 DEF RequestOK
  <2>4. QED
    BY <1>2, <2>3, BeginStep DEF ApproveTermMapping
<1>3. CASE SaveTermMapping(c)
  <2>1. call[c].key \in Keys /\ call[c].row \in MappingRows
    BY <1>3 DEF SaveTermMapping, IInv, CallsOK, RequestOK
  <2>2. /\ mappings' = [mappings EXCEPT ![call[c].key] = call[c].row] /\ Waits(c, NoCall) /\ UNCHANGED ops
        /\ UNCHANGED <<evidence, categories, rows, gapTables, snapshots>>
    BY <1>3 DEF SaveTermMapping, Ends, Waits
  <2>3. ClassesOK'
    BY <2>1, <2>2 DEF IInv, ClassesOK, OrNone
  <2>4. ContextCategoryExists'
    BY <2>2 DEF IInv, ContextCategoryExists, Live, rows
  <2>5. Grown /\ EvidenceOK' /\ RowsOK' /\ GapsOK' /\ GapEvidenceIsComplete' /\ SnapshotsOK'
    BY <2>2, SameEvidence, SameRows, SameGaps, SameSnapshots DEF Grown
  <2>6. CallsOK'
    BY <2>2, <2>5, CallsMoved, EndedIsOK DEF IInv
  <2>7. QED
    BY <2>2, <2>3, <2>4, <2>5, <2>6 DEF IInv
<1>4. QED
  BY <1>1, <1>2, <1>3 DEF Classify

-----------------------------------------------------------------------------
(* The rows of the matrix, of the pathways and of the context links.         *)

\* A request that ends by writing rows which are in order.
LEMMA RowsWritten ==
  ASSUME IInv, NEW c \in Clients, Waits(c, NoCall), UNCHANGED ops,
         UNCHANGED <<evidence, classes, gapTables, snapshots>>,
         RowsOK', Related \subseteq Related', ContextCategoryExists'
  PROVE  IInv'
<1>1. Grown /\ EvidenceOK' /\ ClassesOK' /\ GapsOK' /\ GapEvidenceIsComplete' /\ SnapshotsOK'
  BY SameEvidence, SameClasses, SameGaps, SameSnapshots DEF Grown
<1>2. CallsOK'
  BY <1>1, CallsMoved, EndedIsOK DEF IInv
<1>3. QED
  BY <1>1, <1>2 DEF IInv

\* An upsert stores a row, whatever conversion it keeps.
LEMMA UpsertIsRow ==
  ASSUME NEW row \in RelationRows, Measured(row), NEW old \in OrNone(RelationRows)
  PROVE  Upserted(row, old) \in RelationRows /\ Measured(Upserted(row, old))
<1>1. /\ row.converted \in OrNone({Convert(Magnitude(x), x.unit, u) : x \in Contents, u \in EnergyUnits})
      /\ old # None => old.converted \in OrNone({Convert(Magnitude(x), x.unit, u) : x \in Contents, u \in EnergyUnits})
  BY DEF OrNone, RelationRows
<1> DEFINE value == IF row.converted = None /\ old # None THEN old.converted ELSE row.converted
<1>2. value \in OrNone({Convert(Magnitude(x), x.unit, u) : x \in Contents, u \in EnergyUnits})
  BY <1>1
<1>3. Upserted(row, old) = [row EXCEPT !.converted = value]
  BY DEF Upserted, RelationRows
<1> HIDE DEF value
<1>4. [row EXCEPT !.converted = value] \in RelationRows
  BY <1>2 DEF RelationRows
<1>5. [row EXCEPT !.converted = value].magnitude = row.magnitude
      /\ [row EXCEPT !.converted = value].unit = row.unit
  BY DEF RelationRows
<1>6. QED
  BY <1>3, <1>4, <1>5 DEF Measured

LEMMA SaveRelationsStep ==
  ASSUME IInv, NEW c \in Clients, SaveRelations(c)
  PROVE  IInv'
<1> DEFINE built == call[c].built
<1>1. /\ DOMAIN built \subseteq Items
      /\ \A i \in DOMAIN built : built[i] \in RelationRows /\ Measured(built[i])
  BY DEF SaveRelations, IInv, CallsOK, RequestOK
<1>2. /\ relations' = [i \in Items |-> IF i \in DOMAIN built THEN Upserted(built[i], relations[i]) ELSE relations[i]]
      /\ UNCHANGED <<evidence, classes, pathways, links, gapTables, snapshots>>
      /\ Waits(c, NoCall) /\ UNCHANGED ops
  BY DEF SaveRelations, Ends, Waits
<1> HIDE DEF built
<1>3. \A i \in Items : /\ relations'[i] \in OrNone(RelationRows)
                       /\ relations'[i] # None => Measured(relations'[i])
                       /\ relations[i] # None => relations'[i] # None
  <2> SUFFICES ASSUME NEW i \in Items
               PROVE  /\ relations'[i] \in OrNone(RelationRows)
                      /\ relations'[i] # None => Measured(relations'[i])
                      /\ relations[i] # None => relations'[i] # None
    OBVIOUS
  <2>1. relations[i] \in OrNone(RelationRows) /\ (relations[i] # None => Measured(relations[i]))
    BY DEF IInv, RowsOK
  <2>2. CASE i \in DOMAIN built
    <3>1. Upserted(built[i], relations[i]) \in RelationRows /\ Measured(Upserted(built[i], relations[i]))
      BY <1>1, <2>1, <2>2, UpsertIsRow
    <3>2. QED
      BY <1>2, <2>2, <3>1, MissingAssumption DEF OrNone
  <2>3. CASE i \notin DOMAIN built
    BY <1>2, <2>1, <2>3
  <2>4. QED
    BY <2>2, <2>3
<1>4. RowsOK' /\ Related \subseteq Related'
  BY <1>2, <1>3 DEF IInv, RowsOK, Related, Measured
<1>5. ContextCategoryExists'
  BY <1>2 DEF IInv, ContextCategoryExists, Live, classes
<1>6. QED
  BY <1>2, <1>4, <1>5, RowsWritten

LEMMA SaveConvertedStep ==
  ASSUME IInv, NEW c \in Clients, SaveConvertedValue(c)
  PROVE  IInv'
<1> DEFINE i == call[c].item
           value == call[c].value
           row == [relations[i] EXCEPT !.converted = value]
<1>1. /\ i \in Related
      /\ value \in {Convert(Magnitude(x), x.unit, u) : x \in Contents, u \in EnergyUnits}
  BY DEF SaveConvertedValue, IInv, CallsOK, RequestOK
<1>2. /\ relations' = [relations EXCEPT ![i].converted = value]
      /\ UNCHANGED <<evidence, classes, pathways, links, gapTables, snapshots>>
      /\ Waits(c, NoCall) /\ UNCHANGED ops
  BY DEF SaveConvertedValue, Ends, Waits
<1> HIDE DEF i, value
<1>3. i \in Items /\ relations[i] \in RelationRows /\ Measured(relations[i])
  BY <1>1 DEF Related, IInv, RowsOK, OrNone
<1>4. row \in RelationRows /\ Measured(row)
  BY <1>1, <1>3 DEF RelationRows, OrNone, Measured
<1>5. relations' = [relations EXCEPT ![i] = row]
  BY <1>2, <1>3
<1> HIDE DEF row
<1>6. row # None
  BY <1>4, MissingAssumption
<1>7. RowsOK' /\ Related \subseteq Related'
  BY <1>2, <1>3, <1>4, <1>5, <1>6 DEF IInv, RowsOK, Related, Measured, OrNone
<1>8. ContextCategoryExists'
  BY <1>2 DEF IInv, ContextCategoryExists, Live, classes
<1>9. QED
  BY <1>2, <1>7, <1>8, RowsWritten

LEMMA MatrixStep ==
  ASSUME IInv, NEW c \in Clients, Matrix(c)
  PROVE  IInv'
<1>1. CASE SyncRelations(c)
  <2> DEFINE q == [pc |-> "relations", built |-> BuiltRelations]
  <2>1. RequestOK(q)
    BY BuiltIsRow DEF RequestOK, IInv
  <2>2. QED
    BY <1>1, <2>1, BeginStep DEF SyncRelations
<1>2. ASSUME NEW i \in Items, ConvertUnit(c, i, "kwh")
      PROVE  IInv'
  <2> DEFINE value == Convert(relations[i].magnitude, relations[i].unit, "kwh")
             q == [pc |-> "convert", item |-> i, value |-> value]
  <2>1. i \in Related /\ Measured(relations[i])
    BY <1>2 DEF ConvertUnit, Related, IInv, RowsOK
  <2>2. value \in {Convert(Magnitude(x), x.unit, u) : x \in Contents, u \in EnergyUnits}
    BY <2>1 DEF Measured, EnergyUnits
  <2>3. RequestOK(q)
    BY <2>1, <2>2 DEF RequestOK
  <2>4. QED
    BY <1>2, <2>3, BeginStep DEF ConvertUnit
<1>3. QED
  BY <1>1, <1>2, SaveRelationsStep, SaveConvertedStep DEF Matrix

LEMMA SavePathwaysStep ==
  ASSUME IInv, NEW c \in Clients, SavePathways(c)
  PROVE  IInv'
<1> DEFINE built == call[c].built
<1>1. DOMAIN built \subseteq Related /\ \A i \in DOMAIN built : built[i] \in PathwayRows
  BY DEF SavePathways, IInv, CallsOK, RequestOK
<1>2. /\ pathways' = [i \in Items |-> IF i \in DOMAIN built THEN built[i] ELSE pathways[i]]
      /\ UNCHANGED <<evidence, classes, relations, links, gapTables, snapshots>>
      /\ Waits(c, NoCall) /\ UNCHANGED ops
  BY DEF SavePathways, Ends, Waits
<1> HIDE DEF built
<1>3. RowsOK' /\ Related \subseteq Related'
  BY <1>1, <1>2 DEF IInv, RowsOK, Related, Measured, OrNone
<1>4. ContextCategoryExists'
  BY <1>2 DEF IInv, ContextCategoryExists, Live, classes
<1>5. QED
  BY <1>2, <1>3, <1>4, RowsWritten

LEMMA MechanismsStep ==
  ASSUME IInv, NEW c \in Clients, Mechanisms(c)
  PROVE  IInv'
<1>1. CASE SyncPathways(c)
  <2> DEFINE built == [i \in ActiveRows(relations) |-> SyncedPathway(i)]
             q == [pc |-> "pathways", built |-> built]
  <2>1. ActiveRows(relations) \subseteq Related
    BY DEF ActiveRows, Related
  <2>2. \A i \in DOMAIN built : built[i] \in PathwayRows
    BY <2>1, SyncedPathwayIsRow DEF IInv
  <2>3. RequestOK(q)
    BY <2>1, <2>2 DEF RequestOK
  <2>4. QED
    BY <1>1, <2>3, BeginStep DEF SyncPathways
<1>2. ASSUME NEW i \in Items, pathways[i] # None
      PROVE  i \in Related /\ pathways[i] \in PathwayRows
  BY <1>2 DEF IInv, RowsOK, Related, OrNone
<1>3. ASSUME NEW i \in Items, NEW row, pathways[i] # None, row \in PathwayRows
      PROVE  RequestOK([pc |-> "pathways", built |-> [j \in {i} |-> row]])
  BY <1>2, <1>3 DEF RequestOK
<1>4. ASSUME NEW i \in Items, ApproveMechanism(c, i)
      PROVE  IInv'
  <2> DEFINE row == [pathways[i] EXCEPT !.state = "approved"]
             q == [pc |-> "pathways", built |-> [j \in {i} |-> row]]
  <2>1. pathways[i] # None
    BY <1>4 DEF ApproveMechanism
  <2>2. row \in PathwayRows
    BY <1>2, <2>1 DEF PathwayRows, ApprovalStates
  <2>3. RequestOK(q)
    BY <1>3, <2>1, <2>2
  <2> HIDE DEF row
  <2>4. QED
    BY <1>4, <2>3, BeginStep DEF ApproveMechanism, row
<1>5. ASSUME NEW i \in Items, NEW id \in Cats \cup {None}, AssignMechanism(c, i, id, FALSE)
      PROVE  IInv'
  <2> DEFINE row == [pathways[i] EXCEPT !.category = id, !.synthesized = FALSE, !.state = "pending"]
             q == [pc |-> "pathways", built |-> [j \in {i} |-> row]]
  <2>1. pathways[i] # None
    BY <1>5 DEF AssignMechanism
  <2>2. row \in PathwayRows
    BY <1>2, <2>1 DEF PathwayRows, ApprovalStates, OrNone
  <2>3. RequestOK(q)
    BY <1>3, <2>1, <2>2
  <2> HIDE DEF row
  <2>4. QED
    BY <1>5, <2>3, BeginStep DEF AssignMechanism, row
<1>6. QED
  BY <1>1, <1>4, <1>5, SavePathwaysStep DEF Mechanisms

-----------------------------------------------------------------------------
(* Context links.                                                            *)

\* A link that is written belongs to a relation and names a category that exists.
Written(i, row) ==
  i \in Related /\ row \in LinkRows /\ row.category \in Live("context") \cup {None}

\* A request that goes on after it wrote a link, or none.
LEMMA LinkWritten ==
  ASSUME IInv, NEW c \in Clients, NEW q, Waits(c, q), RequestOK(q), UNCHANGED ops,
         UNCHANGED <<evidence, classes, relations, pathways, gapTables, snapshots>>,
         UNCHANGED links \/ \E i \in Items : \E row : Written(i, row) /\ links' = [links EXCEPT ![i] = row]
  PROVE  IInv'
<1>1. links \in [Items -> OrNone(LinkRows)] /\ UNCHANGED Related
  BY DEF IInv, RowsOK, Related
<1>2. Live("context")' = Live("context")
  BY DEF Live, classes
<1>3. \A i \in Items : \/ links'[i] = links[i]
                       \/ Written(i, links'[i])
  BY <1>1
<1>4. links' \in [Items -> OrNone(LinkRows)]
  <2>1. CASE UNCHANGED links
    BY <1>1, <2>1
  <2>2. ASSUME NEW i \in Items, NEW row, Written(i, row), links' = [links EXCEPT ![i] = row]
        PROVE  links' \in [Items -> OrNone(LinkRows)]
    BY <1>1, <2>2 DEF Written, OrNone
  <2>3. QED
    BY <2>1, <2>2
<1>5. RowsOK'
  BY <1>3, <1>4 DEF IInv, RowsOK, Measured, Written, Related
<1>6. ContextCategoryExists'
  BY <1>2, <1>3 DEF IInv, ContextCategoryExists, Written
<1>7. Grown /\ EvidenceOK' /\ ClassesOK' /\ GapsOK' /\ GapEvidenceIsComplete' /\ SnapshotsOK'
  BY <1>1, SameEvidence, SameClasses, SameGaps, SameSnapshots DEF Grown
<1>8. CallsOK'
  BY <1>7, CallsMoved, RequestKept DEF IInv
<1>9. QED
  BY <1>5, <1>6, <1>7, <1>8 DEF IInv

\* create_link stores a link of the given form, under the id it has or a new one.
LEMMA CreatedLink ==
  ASSUME IInv, NEW i \in Related, NEW row \in LinkForms, ForeignKeyHolds(row.category), CreateLink(i, row)
  PROVE  \E new : Written(i, new) /\ links' = [links EXCEPT ![i] = new]
<1> DEFINE id == IF links[i] = None THEN ops ELSE links[i].id
           new == [id |-> id, rev |-> row.rev, text |-> row.text, category |-> row.category,
                   impact |-> row.impact, state |-> row.state]
<1>1. i \in Items /\ links[i] \in OrNone(LinkRows) /\ links \in [Items -> OrNone(LinkRows)]
  BY DEF Related, IInv, RowsOK
<1>2. id \in Nat
  BY <1>1 DEF IInv, OrNone, LinkRows
<1>3. links' = [links EXCEPT ![i] = new]
  BY <1>1 DEF CreateLink
<1> HIDE DEF id
<1>4. new \in LinkRows
  BY <1>2 DEF LinkForms, LinkRows
<1>5. new.category \in Live("context") \cup {None}
  BY DEF ForeignKeyHolds
<1> HIDE DEF new
<1>6. QED
  BY <1>3, <1>4, <1>5 DEF Written

LEMMA SaveSyncedLinkStep ==
  ASSUME IInv, NEW c \in Clients, NEW i \in Items, SaveSyncedLink(c, i)
  PROVE  IInv'
<1> DEFINE todo == call[c].todo
           rest == [j \in DOMAIN todo \ {i} |-> todo[j]]
           q == [pc |-> "links", todo |-> rest]
<1>1. /\ i \in DOMAIN todo
      /\ UNCHANGED <<ops, evidence, classes, relations, pathways, gapTables, snapshots>>
      /\ \/ /\ ForeignKeyHolds(todo[i].category) /\ CreateLink(i, todo[i])
            /\ Waits(c, NoCall) \/ Waits(c, q)
         \/ UNCHANGED links /\ Waits(c, NoCall)
  BY DEF SaveSyncedLink
<1>2. DOMAIN todo \subseteq Related /\ \A j \in DOMAIN todo : todo[j] \in LinkForms
  BY DEF SaveSyncedLink, IInv, CallsOK, RequestOK
<1> HIDE DEF todo
<1>3. DOMAIN rest \subseteq Related /\ \A j \in DOMAIN rest : rest[j] \in LinkForms
  BY <1>2
<1> HIDE DEF rest
<1>4. RequestOK(q)
  BY <1>3 DEF RequestOK
<1>5. UNCHANGED links \/ \E new : Written(i, new) /\ links' = [links EXCEPT ![i] = new]
  <2>1. i \in Related /\ todo[i] \in LinkForms
    BY <1>1, <1>2
  <2> DEFINE row == todo[i]
  <2>2. row \in LinkForms /\ (UNCHANGED links \/ (ForeignKeyHolds(row.category) /\ CreateLink(i, row)))
    BY <1>1, <2>1
  <2> HIDE DEF row
  <2>3. QED
    BY <2>1, <2>2, CreatedLink
<1> HIDE DEF q
<1>6. QED
  BY <1>1, <1>4, <1>5, LinkWritten, EndedIsOK

LEMMA SaveAssignmentStep ==
  ASSUME IInv, NEW c \in Clients, SaveAssignment(c)
  PROVE  IInv'
<1> DEFINE q == call[c]
           i == q.item
           new == [links[i] EXCEPT !.category = q.category, !.impact = q.impact]
<1>1. /\ i \in Related /\ q.category \in Cats /\ q.impact \in Impacts
      /\ q.known = None => q.row \in LinkForms /\ q.row.category = q.category
  BY DEF SaveAssignment, IInv, CallsOK, RequestOK
<1>2. /\ Waits(c, NoCall)
      /\ UNCHANGED <<ops, evidence, classes, relations, pathways, gapTables, snapshots>>
      /\ \/ UNCHANGED links
         \/ ForeignKeyHolds(q.category) /\ q.known = None /\ CreateLink(i, q.row)
         \/ /\ ForeignKeyHolds(q.category)
            /\ links' = [links EXCEPT ![i] =
                 IF @ # None /\ @.id = q.known
                 THEN [@ EXCEPT !.category = q.category, !.impact = q.impact] ELSE @]
  BY DEF SaveAssignment, Ends, Waits
<1>3. i \in Items /\ links \in [Items -> OrNone(LinkRows)]
  BY <1>1 DEF Related, IInv, RowsOK
<1> HIDE DEF q, i
<1>4. CASE ForeignKeyHolds(q.category) /\ q.known = None /\ CreateLink(i, q.row)
  <2>1. \E row : Written(i, row) /\ links' = [links EXCEPT ![i] = row]
    BY <1>1, <1>4, CreatedLink
  <2>2. QED
    BY <1>2, <1>3, <2>1, LinkWritten, EndedIsOK
<1>5. CASE /\ ForeignKeyHolds(q.category)
           /\ links' = [links EXCEPT ![i] =
                IF @ # None /\ @.id = q.known
                THEN [@ EXCEPT !.category = q.category, !.impact = q.impact] ELSE @]
  <2>1. CASE links[i] # None /\ links[i].id = q.known
    <3>1. links' = [links EXCEPT ![i] = new]
      BY <1>3, <1>5, <2>1
    <3>2. new \in LinkRows /\ new.category = q.category
      BY <1>1, <1>3, <2>1 DEF OrNone, LinkRows
    <3>3. Written(i, new)
      BY <1>1, <1>5, <3>2 DEF Written, ForeignKeyHolds
    <3> HIDE DEF new
    <3>4. QED
      BY <1>2, <1>3, <3>1, <3>3, LinkWritten, EndedIsOK
  <2>2. CASE ~(links[i] # None /\ links[i].id = q.known)
    <3>1. UNCHANGED links
      BY <1>3, <1>5, <2>2
    <3>2. QED
      BY <1>2, <3>1, LinkWritten, EndedIsOK
  <2>3. QED
    BY <2>1, <2>2
<1>6. CASE UNCHANGED links
  BY <1>2, <1>6, LinkWritten, EndedIsOK
<1>7. QED
  BY <1>2, <1>4, <1>5, <1>6

LEMMA ContextsStep ==
  ASSUME IInv, NEW c \in Clients, Contexts(c)
  PROVE  IInv'
<1>1. CASE SyncLinks(c)
  <2> DEFINE todo == [i \in ActiveRows(relations) |-> SyncedLink(i)]
             q == [pc |-> "links", todo |-> todo]
  <2>1. ActiveRows(relations) \subseteq Related
    BY DEF ActiveRows, Related
  <2>2. \A i \in DOMAIN todo : todo[i] \in LinkForms
    BY <2>1, SyncedLinkIsForm DEF IInv
  <2>3. RequestOK(q)
    BY <2>1, <2>2 DEF RequestOK
  <2>4. QED
    BY <1>1, <2>3, BeginStep DEF SyncLinks
<1>2. ASSUME NEW i \in Items, NEW id \in Cats, AssignContext(c, i, id, "WEAKEN")
      PROVE  IInv'
  <2> DEFINE known == IF links[i] = None THEN None ELSE links[i].id
             form == [rev |-> relations[i].rev, text |-> None, category |-> id,
                      impact |-> "WEAKEN", state |-> "pending"]
             row == IF links[i] # None THEN None ELSE form
             q == [pc |-> "assign", item |-> i, category |-> id, impact |-> "WEAKEN",
                   known |-> known, row |-> row]
  <2>1. i \in Related /\ relations[i] \in RelationRows
    BY <1>2 DEF AssignContext, IInv, RowsOK, Related, OrNone
  <2>2. known = None => row = form
    <3>1. links[i] # None => links[i].id \in Nat
      BY DEF IInv, RowsOK, OrNone, LinkRows
    <3>2. QED
      BY <3>1, MissingAssumption
  <2>3. form \in LinkForms /\ form.category = id
    BY <2>1 DEF LinkForms, RelationRows, OrNone, Impacts, ApprovalStates
  <2> HIDE DEF known, form, row
  <2>4. RequestOK(q)
    BY <2>1, <2>2, <2>3 DEF RequestOK, Impacts
  <2>5. QED
    BY <1>2, <2>4, BeginStep DEF AssignContext, known, row, form
<1>3. QED
  BY <1>1, <1>2, SaveSyncedLinkStep, SaveAssignmentStep DEF Contexts

LEMMA UnassignStep ==
  ASSUME IInv, NEW i \in Items, UnassignContext(i)
  PROVE  IInv'
<1>1. /\ links' = [links EXCEPT ![i] = None] /\ ops' = ops + 1
      /\ UNCHANGED <<evidence, classes, relations, pathways, gapTables, snapshots, call>>
  BY DEF UnassignContext, AtOnce
<1>2. links \in [Items -> OrNone(LinkRows)] /\ UNCHANGED Related
  BY <1>1 DEF IInv, RowsOK, Related
<1>3. RowsOK'
  BY <1>1, <1>2 DEF IInv, RowsOK, Measured, OrNone
<1>4. ContextCategoryExists'
  BY <1>1, <1>2 DEF IInv, ContextCategoryExists, Live, classes
<1>5. Grown /\ EvidenceOK' /\ ClassesOK' /\ GapsOK' /\ GapEvidenceIsComplete' /\ SnapshotsOK'
  BY <1>1, <1>2, SameEvidence, SameClasses, SameGaps, SameSnapshots DEF Grown
<1>6. CallsOK' /\ ops' \in Nat
  BY <1>1, <1>5, CallsKept DEF IInv
<1>7. QED
  BY <1>3, <1>4, <1>5, <1>6 DEF IInv

-----------------------------------------------------------------------------
(* Research gaps and their evidence.                                         *)

\* A step outside the requests that changes only research gaps and their links.
LEMMA GapsWritten ==
  ASSUME IInv, UNCHANGED <<evidence, classes, rows, snapshots>>,
         GapsOK', GapEvidenceIsComplete', ops' = ops + 1, UNCHANGED call
  PROVE  IInv'
<1>1. Related \subseteq Related' /\ RowsOK'
  BY SameRows
<1>2. Grown /\ EvidenceOK' /\ ClassesOK' /\ SnapshotsOK'
  BY <1>1, SameEvidence, SameClasses, SameSnapshots DEF Grown
<1>3. ContextCategoryExists'
  BY DEF IInv, ContextCategoryExists, Live, classes, rows
<1>4. CallsOK' /\ ops' \in Nat
  BY <1>2, CallsKept DEF IInv
<1>5. QED
  BY <1>1, <1>2, <1>3, <1>4 DEF IInv

LEMMA GapsStep ==
  ASSUME IInv, EditGaps
  PROVE  IInv'
<1> USE DEF AtOnce
<1>1. gaps \in [Gaps -> OrNone(GapTypes)] /\ gapLinks \subseteq GapLinkRows
      /\ \A l \in gapLinks : l.gap \in Gaps /\ gaps[l.gap] # None
  BY DEF IInv, GapsOK, GapLinkRows
<1>2. None \notin GapTypes
  BY MissingAssumption
<1>3. ASSUME NEW g \in Gaps, NEW type \in {"thematic", "mechanism"}, CreateGap(g, type) \/ UpdateGap(g, type)
      PROVE  IInv'
  <2>1. /\ gaps' = [gaps EXCEPT ![g] = type] /\ UNCHANGED <<evidence, classes, rows, gapLinks, snapshots>>
        /\ ops' = ops + 1 /\ UNCHANGED call
    BY <1>3 DEF CreateGap, UpdateGap
  <2>2. type \in GapTypes
    BY DEF GapTypes
  <2>3. GapsOK'
    BY <1>1, <1>2, <2>1, <2>2 DEF GapsOK, OrNone
  <2>4. GapEvidenceIsComplete'
    BY <2>1 DEF IInv, GapEvidenceIsComplete, evidence, CompleteRevisions, ItemsAt
  <2>5. QED
    BY <2>1, <2>3, <2>4, GapsWritten
<1>4. ASSUME NEW g \in Gaps, DeleteGap(g)
      PROVE  IInv'
  <2>1. /\ gaps' = [gaps EXCEPT ![g] = None] /\ gapLinks' = {l \in gapLinks : l.gap # g}
        /\ UNCHANGED <<evidence, classes, rows, snapshots>> /\ ops' = ops + 1 /\ UNCHANGED call
    BY <1>4 DEF DeleteGap
  <2>2. GapsOK'
    BY <1>1, <2>1 DEF GapsOK, OrNone
  <2>3. GapEvidenceIsComplete'
    BY <2>1 DEF IInv, GapEvidenceIsComplete, evidence, CompleteRevisions, ItemsAt
  <2>4. QED
    BY <2>1, <2>2, <2>3, GapsWritten
<1>5. ASSUME NEW l \in gapLinks, UnlinkEvidence(l)
      PROVE  IInv'
  <2>1. /\ gapLinks' = gapLinks \ {l} /\ UNCHANGED <<evidence, classes, rows, gaps, snapshots>>
        /\ ops' = ops + 1 /\ UNCHANGED call
    BY <1>5 DEF UnlinkEvidence
  <2>2. GapsOK'
    BY <1>1, <2>1 DEF GapsOK
  <2>3. GapEvidenceIsComplete'
    BY <2>1 DEF IInv, GapEvidenceIsComplete, evidence, CompleteRevisions, ItemsAt
  <2>4. QED
    BY <2>1, <2>2, <2>3, GapsWritten
<1>6. QED
  BY <1>3, <1>4, <1>5 DEF EditGaps

\* What a request writes was backed when it was resolved, and still is.
LEMMA SaveEvidenceStep ==
  ASSUME IInv, NEW c \in Clients, SaveEvidence(c)
  PROVE  IInv'
<1> DEFINE q == call[c]
           moved(l) == l.id \in q.known /\ l.gap = q.gap /\ l.target = q.target
           new == [id |-> ops, gap |-> q.gap, target |-> q.target, rev |-> q.rev]
<1>1. /\ q.gap \in Gaps /\ q.target \in [type : LinkTypes, item : Items, id : Nat]
      /\ q.rev \in Nat /\ Backed(q.target.item, q.rev)
  BY DEF SaveEvidence, IInv, CallsOK, RequestOK
<1>2. /\ Waits(c, NoCall) /\ UNCHANGED <<ops, evidence, classes, rows, gaps, snapshots>>
      /\ \/ gapLinks' = {IF moved(l) THEN [l EXCEPT !.rev = q.rev] ELSE l : l \in gapLinks}
         \/ gaps[q.gap] # None /\ gapLinks' = gapLinks \cup {new}
         \/ gapLinks' = gapLinks
  BY DEF SaveEvidence, Ends, Waits
<1>3. \A l \in gapLinks : l \in GapLinkRows /\ gaps[l.gap] # None /\ Backed(l.target.item, l.rev)
  BY DEF IInv, GapsOK, GapEvidenceIsComplete, Backed
<1> HIDE DEF q
<1>4. ASSUME NEW m \in gapLinks'
      PROVE  m \in GapLinkRows /\ gaps[m.gap] # None /\ Backed(m.target.item, m.rev)
  <2>1. CASE m \in gapLinks
    BY <1>3, <2>1
  <2>2. CASE gaps[q.gap] # None /\ m = new
    <3>1. new \in GapLinkRows
      BY <1>1 DEF GapLinkRows, IInv
    <3>2. QED
      BY <1>1, <2>2, <3>1
  <2>3. ASSUME NEW l \in gapLinks, moved(l), m = [l EXCEPT !.rev = q.rev]
        PROVE  m \in GapLinkRows /\ gaps[m.gap] # None /\ Backed(m.target.item, m.rev)
    <3>1. l \in GapLinkRows /\ gaps[l.gap] # None /\ l.target = q.target
      BY <1>3, <2>3
    <3>2. m \in GapLinkRows /\ m.gap = l.gap /\ m.target = q.target /\ m.rev = q.rev
      BY <1>1, <2>3, <3>1 DEF GapLinkRows
    <3>3. QED
      BY <1>1, <3>1, <3>2
  <2>4. m \in gapLinks \/ (gaps[q.gap] # None /\ m = new)
        \/ \E l \in gapLinks : moved(l) /\ m = [l EXCEPT !.rev = q.rev]
    <3> HIDE DEF new
    <3>1. QED
      BY <1>2
  <2>5. QED
    BY <2>1, <2>2, <2>3, <2>4
<1>5. GapsOK'
  BY <1>2, <1>4 DEF IInv, GapsOK
<1>6. GapEvidenceIsComplete'
  BY <1>2, <1>4 DEF GapEvidenceIsComplete, Backed, evidence, CompleteRevisions, ItemsAt
<1>7. RowsOK' /\ Grown /\ EvidenceOK' /\ ClassesOK' /\ SnapshotsOK'
  BY <1>2, SameRows, SameEvidence, SameClasses, SameSnapshots DEF Grown
<1>8. ContextCategoryExists'
  BY <1>2 DEF IInv, ContextCategoryExists, Live, classes, rows
<1>9. CallsOK' /\ ops' \in Nat
  BY <1>2, <1>7, CallsMoved, EndedIsOK DEF IInv
<1>10. QED
  BY <1>5, <1>6, <1>7, <1>8, <1>9 DEF IInv

LEMMA EvidenceStep ==
  ASSUME IInv, NEW c \in Clients, Evidence(c)
  PROVE  IInv'
<1>1. ASSUME NEW g \in Gaps, NEW t \in Targets, LinkEvidence(c, g, t)
      PROVE  IInv'
  <2> DEFINE n == ResolvedRevision(t.item)
             known == {l.id : l \in LinkOf(g, t)}
             q == [pc |-> "evidence", gap |-> g, target |-> t, rev |-> n, known |-> known]
  <2>1. t \in [type : LinkTypes, item : Items, id : Nat]
    BY TargetType DEF IInv
  <2>2. n \in Nat /\ Backed(t.item, n)
    BY <1>1, <2>1, LinkableIsBacked DEF LinkEvidence, IsLinkable, IInv
  <2> HIDE DEF n, known
  <2>3. RequestOK(q)
    BY <2>1, <2>2 DEF RequestOK
  <2>4. QED
    BY <1>1, <2>3, BeginStep DEF LinkEvidence, n, known
<1>2. QED
  BY <1>1, SaveEvidenceStep DEF Evidence

-----------------------------------------------------------------------------
(* Snapshots.                                                                *)

\* The next version is the number of snapshots plus one.
LEMMA NextVersionIsNext ==
  ASSUME SnapshotsOK
  PROVE  NextVersion = Cardinality(snapshots) + 1
<1> DEFINE n == Cardinality(snapshots)
<1>1. n \in Nat /\ (snapshots = {} <=> n = 0)
  BY FS_CardinalityType, FS_EmptySet DEF SnapshotsOK
<1>2. Versions = 1 .. n
  BY DEF SnapshotsOK
<1> HIDE DEF n
<1>3. CASE n = 0
  BY <1>1, <1>3 DEF NextVersion, n
<1>4. CASE n # 0
  <2>1. Versions \in SUBSET Nat /\ Versions # {} /\ \A v \in Versions : v <= n
    BY <1>1, <1>2, <1>4
  <2>2. Max(Versions) \in Versions /\ \A v \in Versions : Max(Versions) >= v
    BY <1>1, <2>1, MaxOfSet
  <2>3. n \in Versions
    BY <1>1, <1>2, <1>4
  <2>4. Max(Versions) = n
    BY <1>1, <1>2, <2>2, <2>3
  <2>5. QED
    BY <1>1, <1>4, <2>4 DEF NextVersion, n
<1>5. QED
  BY <1>3, <1>4 DEF n

\* A snapshot is stored under the next version or not at all, whichever of the
\* concurrent creators comes first.
LEMMA SnapshotStored ==
  ASSUME IInv, NEW c \in Clients, SaveSnapshot(c)
  PROVE  \/ UNCHANGED snapshots
         \/ \E s : /\ s \notin snapshots /\ s.version = Cardinality(snapshots) + 1
                   /\ snapshots' = snapshots \cup {s}
<1> DEFINE n == Cardinality(snapshots)
           s == [version |-> call[c].version, client |-> c,
                 content |-> ContentHash(call[c].content), dataset |-> ExtractionDatasetHash,
                 classification |-> ClassificationVersion(categories, mappings)]
<1>1. n \in Nat /\ Versions = 1 .. n
  BY CountOfSnapshots DEF IInv, SnapshotsOK
<1>2. call[c].version \in 1 .. n + 1
  BY DEF SaveSnapshot, IInv, CallsOK, RequestOK
<1>3. snapshots' = IF VersionFree(call[c].version) THEN snapshots \cup {s} ELSE snapshots
  BY DEF SaveSnapshot
<1>4. s.version = call[c].version
  OBVIOUS
<1> HIDE DEF s, n
<1>5. CASE VersionFree(call[c].version)
  <2>1. s.version = n + 1
    BY <1>1, <1>2, <1>4, <1>5 DEF VersionFree
  <2>2. s \notin snapshots
    BY <1>4, <1>5 DEF VersionFree, Versions
  <2>3. QED
    BY <1>3, <1>5, <2>1, <2>2 DEF n
<1>6. QED
  BY <1>3, <1>5

\* Such a step keeps the numbering.
LEMMA NumberingKept ==
  ASSUME SnapshotsOK, NEW s, s \notin snapshots, s.version = Cardinality(snapshots) + 1,
         snapshots' = snapshots \cup {s}
  PROVE  /\ SnapshotsOK' /\ Cardinality(snapshots) \in Nat
         /\ Cardinality(snapshots') = Cardinality(snapshots) + 1
<1>1. Cardinality(snapshots) \in Nat
  BY CountOfSnapshots
<1>2. IsFiniteSet(snapshots') /\ Cardinality(snapshots') = Cardinality(snapshots) + 1
  BY FS_AddElement DEF SnapshotsOK
<1>3. Versions' = Versions \cup {s.version}
  BY DEF Versions
<1>4. Versions' = 1 .. Cardinality(snapshots')
  BY <1>1, <1>2, <1>3 DEF SnapshotsOK
<1>5. \A t \in snapshots : t.version # s.version
  <2>1. \A t \in snapshots : t.version \in 1 .. Cardinality(snapshots)
    BY DEF SnapshotsOK, Versions
  <2>2. QED
    BY <1>1, <2>1
<1>6. \A t, u \in snapshots' : t.version = u.version => t = u
  BY <1>5 DEF SnapshotsOK
<1>7. QED
  BY <1>1, <1>2, <1>4, <1>6 DEF SnapshotsOK

LEMMA SnapshotStep ==
  ASSUME IInv, NEW c \in Clients, CreateSnapshot(c) \/ SaveSnapshot(c)
  PROVE  IInv'
<1>1. CASE CreateSnapshot(c)
  <2> DEFINE v == NextVersion
             content == Content
             q == [pc |-> "snapshot", content |-> content, version |-> v]
  <2>1. v \in 1 .. Cardinality(snapshots) + 1
    BY NextVersionIsNext, CountOfSnapshots DEF IInv
  <2> HIDE DEF v, content
  <2>2. RequestOK(q)
    BY <2>1 DEF RequestOK
  <2>3. QED
    BY <1>1, <2>2, BeginStep DEF CreateSnapshot, v, content
<1>2. CASE SaveSnapshot(c)
  <2>1. Waits(c, NoCall) /\ UNCHANGED <<ops, evidence, classes, rows, gapTables>>
    BY <1>2 DEF SaveSnapshot, Ends, Waits
  <2>2. /\ SnapshotsOK' /\ Cardinality(snapshots) \in Nat /\ Cardinality(snapshots') \in Nat
        /\ Cardinality(snapshots) <= Cardinality(snapshots')
    <3>1. CASE UNCHANGED snapshots
      BY <3>1, SameSnapshots
    <3>2. CASE \E s : /\ s \notin snapshots /\ s.version = Cardinality(snapshots) + 1
                      /\ snapshots' = snapshots \cup {s}
      <4>1. PICK s : /\ s \notin snapshots /\ s.version = Cardinality(snapshots) + 1
                     /\ snapshots' = snapshots \cup {s}
        BY <3>2
      <4>2. /\ SnapshotsOK' /\ Cardinality(snapshots) \in Nat
            /\ Cardinality(snapshots') = Cardinality(snapshots) + 1
        BY <4>1, NumberingKept DEF IInv
      <4>3. QED
        BY <4>2
    <3>3. QED
      BY <1>2, <3>1, <3>2, SnapshotStored
  <2>3. RowsOK' /\ EvidenceOK' /\ ClassesOK' /\ GapsOK' /\ GapEvidenceIsComplete' /\ Grown
    BY <2>1, <2>2, SameRows, SameEvidence, SameClasses, SameGaps DEF Grown
  <2>4. ContextCategoryExists'
    BY <2>1 DEF IInv, ContextCategoryExists, Live, classes, rows
  <2>5. CallsOK' /\ ops' \in Nat
    BY <2>1, <2>3, CallsMoved, EndedIsOK DEF IInv
  <2>6. QED
    BY <2>2, <2>3, <2>4, <2>5 DEF IInv
<1>3. QED
  BY <1>1, <1>2

-----------------------------------------------------------------------------
(* The theorems.                                                             *)

LEMMA NextOK == IInv /\ [Next]_vars => IInv'
<1> SUFFICES ASSUME IInv, [Next]_vars PROVE IInv'
  OBVIOUS
<1>1. CASE UNCHANGED vars
  <2>1. UNCHANGED <<evidence, classes, rows, gapTables, snapshots, call, ops>>
    BY <1>1 DEF vars, evidence, classes, rows, gapTables
  <2>2. CallsOK'
    BY <2>1, SameTables, CallsKept DEF IInv
  <2>3. QED
    BY <2>1, <2>2, SameTables DEF IInv
<1>2. CASE Extraction
  BY <1>2, ExtractionStep
<1>3. CASE EditCategories
  BY <1>3, CategoriesStep
<1>4. CASE EditGaps
  BY <1>4, GapsStep
<1>5. ASSUME NEW i \in Items, UnassignContext(i)
      PROVE  IInv'
  BY <1>5, UnassignStep
<1>6. ASSUME NEW c \in Clients,
             \/ Classify(c) \/ Matrix(c) \/ Mechanisms(c) \/ Contexts(c) \/ Evidence(c)
             \/ CreateSnapshot(c) \/ SaveSnapshot(c)
      PROVE  IInv'
  BY <1>6, ClassifyStep, MatrixStep, MechanismsStep, ContextsStep, EvidenceStep, SnapshotStep
<1>7. QED
  BY <1>1, <1>2, <1>3, <1>4, <1>5, <1>6 DEF Next

\* Every table, and every request in flight, is in the states the parts of IInv
\* allow, whatever the other requests do between its read and its write.
THEOREM Invariant == Spec => []IInv
BY InitOK, NextOK, PTL DEF Spec

\* Every table holds what its columns can, and the rows that name each other are
\* there (the synthesis_*_repository.py files).
THEOREM TypeCorrect == Spec => []TypeOK
<1>1. IInv => TypeOK
  <2> SUFFICES ASSUME IInv PROVE TypeOK
    OBVIOUS
  <2>1. \A s \in snapshots : s.version \in Nat
    <3>1. Versions \subseteq Nat
      BY CountOfSnapshots DEF IInv, SnapshotsOK
    <3>2. QED
      BY <3>1 DEF Versions
  <2>2. QED
    BY <2>1 DEF IInv, EvidenceOK, ClassesOK, RowsOK, GapsOK, TypeOK
<1>2. QED
  BY <1>1, Invariant, PTL

\* What a research gap cites is a complete revision with the item in it, for every
\* interleaving of linking, revising and superseding
\* (services/synthesis_gap_service.py).
THEOREM GapsCiteCompleteEvidence == Spec => []GapEvidenceIsComplete
<1>1. IInv => GapEvidenceIsComplete
  BY DEF IInv
<1>2. QED
  BY <1>1, Invariant, PTL

\* A context link names a category that exists or none, although its category may
\* go between a request's check and its write (services/synthesis_context_service.py).
THEOREM LinksNameLiveCategories == Spec => []ContextCategoryExists
<1>1. IInv => ContextCategoryExists
  BY DEF IInv
<1>2. QED
  BY <1>1, Invariant, PTL

-----------------------------------------------------------------------------
(* The refinement of the append-only log.                                    *)

LogOf(S) == [n \in 1 .. Cardinality(S) |-> {s \in S : s.version = n}]

LEMMA LengthOfLog ==
  ASSUME NEW S, Cardinality(S) \in Nat
  PROVE  LogOf(S) \in Seq(SUBSET S) /\ Len(LogOf(S)) = Cardinality(S)
<1> DEFINE n == Cardinality(S)
           F == [k \in 1 .. n |-> {s \in S : s.version = k}]
<1>1. F \in [1 .. n -> SUBSET S] /\ n \in Nat
  OBVIOUS
<1> HIDE DEF n, F
<1>2. F \in Seq(SUBSET S) /\ Len(F) = n
  BY <1>1
<1>3. QED
  BY <1>2 DEF n, F, LogOf

LEMMA LogGrows ==
  ASSUME SnapshotsOK, NEW s, s \notin snapshots, s.version = Cardinality(snapshots) + 1,
         snapshots' = snapshots \cup {s}
  PROVE  /\ Len(LogOf(snapshots')) = Len(LogOf(snapshots)) + 1
         /\ SubSeq(LogOf(snapshots'), 1, Len(LogOf(snapshots))) = LogOf(snapshots)
         /\ StoredVersion(LogOf(snapshots')[Len(LogOf(snapshots'))]) = Len(LogOf(snapshots'))
<1> DEFINE n == Cardinality(snapshots)
           L == LogOf(snapshots)
           M == LogOf(snapshots')
<1>1. n \in Nat /\ Cardinality(snapshots') = n + 1
  BY NumberingKept
<1>2. L \in Seq(SUBSET snapshots) /\ Len(L) = n
  BY <1>1, LengthOfLog
<1>3. M \in Seq(SUBSET snapshots') /\ Len(M) = n + 1
  <2>1. Cardinality(snapshots') \in Nat
    BY <1>1
  <2>2. M \in Seq(SUBSET snapshots') /\ Len(M) = Cardinality(snapshots')
    BY <2>1, LengthOfLog
  <2>3. QED
    BY <1>1, <2>2
<1>4. \A k \in 1 .. n : L[k] = {t \in snapshots : t.version = k}
  BY DEF LogOf
<1>5. \A k \in 1 .. n + 1 : M[k] = {t \in snapshots' : t.version = k}
  BY <1>1 DEF LogOf
<1>6. \A t \in snapshots : t.version \in 1 .. n
  BY DEF SnapshotsOK, Versions
<1>7. ASSUME NEW k \in 1 .. n
      PROVE  M[k] = L[k]
  <2>1. k \in 1 .. n + 1 /\ s.version # k
    BY <1>1
  <2>2. {t \in snapshots' : t.version = k} = {t \in snapshots : t.version = k}
    BY <2>1
  <2>3. QED
    BY <1>4, <1>5, <2>1, <2>2
<1>8. M[n + 1] = {s}
  <2>1. n + 1 \in 1 .. n + 1 /\ s.version = n + 1 /\ \A t \in snapshots : t.version # n + 1
    BY <1>1, <1>6
  <2>2. {t \in snapshots' : t.version = n + 1} = {s}
    BY <2>1
  <2>3. QED
    BY <1>5, <2>1, <2>2
<1>9. StoredVersion(M[n + 1]) = n + 1
  <2>1. Cardinality({s}) = 1
    BY FS_Singleton
  <2>2. (CHOOSE t \in {s} : TRUE) = s
    OBVIOUS
  <2>3. QED
    BY <1>8, <2>1, <2>2 DEF StoredVersion
<1> HIDE DEF n, L, M
<1>10. SubSeq(M, 1, n) = L
  BY <1>1, <1>2, <1>3, <1>7
<1>11. QED
  BY <1>2, <1>3, <1>9, <1>10 DEF L, M

\* Only SaveSnapshot touches the snapshots.
LEMMA SnapshotsLeft ==
  ASSUME [Next]_vars, \A c \in Clients : ~SaveSnapshot(c)
  PROVE  UNCHANGED snapshots
<1>1. CASE Extraction
  BY <1>1 DEF Extraction, Revise, Supersede
<1>2. CASE EditCategories
  BY <1>2 DEF EditCategories, Inserted, Updated, CategoryGone, CreateLeanCategory, CreateEnergyCategory,
     CreateMechanismCategory, CreateContextCategory, UpdateLeanCategory, UpdateEnergyCategory,
     UpdateMechanismCategory, UpdateContextCategory, DeleteLeanCategory, DeleteEnergyCategory,
     DeleteMechanismCategory, DeleteContextCategory
<1>3. CASE EditGaps \/ \E i \in Items : UnassignContext(i)
  BY <1>3 DEF EditGaps, CreateGap, UpdateGap, DeleteGap, UnlinkEvidence, UnassignContext
<1>4. ASSUME NEW c \in Clients, Classify(c) \/ Matrix(c) \/ Mechanisms(c)
      PROVE  UNCHANGED snapshots
  BY <1>4 DEF Classify, SetTermMapping, ApproveTermMapping, SaveTermMapping, Matrix, SyncRelations,
     SaveRelations, ConvertUnit, SaveConvertedValue, Mechanisms, SyncPathways, SavePathways,
     ApproveMechanism, AssignMechanism
<1>5. ASSUME NEW c \in Clients, Contexts(c) \/ Evidence(c) \/ CreateSnapshot(c)
      PROVE  UNCHANGED snapshots
  BY <1>5 DEF Contexts, SyncLinks, SaveAssignment, SaveSyncedLink, AssignContext, Evidence,
     LinkEvidence, SaveEvidence, CreateSnapshot
<1>6. CASE UNCHANGED vars
  BY <1>6 DEF vars
<1>7. QED
  BY <1>1, <1>2, <1>3, <1>4, <1>5, <1>6 DEF Next

\* The snapshots are versions 1, 2, 3, ..., each stored once, and none ever changes
\* or goes (services/synthesis_snapshot_service.py).
THEOREM SnapshotsAreALog == Spec => SnapshotLog
<1>1. Init => Log!Init
  <2>1. Cardinality({}) = 0
    BY FS_EmptySet
  <2>2. QED
    BY <2>1 DEF Init, Log!Init
<1>2. IInv /\ [Next]_vars => [Log!Add]_(LogOf(snapshots))
  <2> SUFFICES ASSUME IInv, [Next]_vars PROVE Log!Add \/ UNCHANGED LogOf(snapshots)
    OBVIOUS
  <2>1. CASE UNCHANGED snapshots
    BY <2>1
  <2>2. CASE \E s : /\ s \notin snapshots /\ s.version = Cardinality(snapshots) + 1
                    /\ snapshots' = snapshots \cup {s}
    <3>1. Log!Add
      BY <2>2, LogGrows DEF IInv, Log!Add, LogOf
    <3>2. QED
      BY <3>1
  <2>3. QED
    BY <2>1, <2>2, SnapshotStored, SnapshotsLeft
<1>3. QED
  BY <1>1, <1>2, Invariant, PTL DEF Spec, SnapshotLog, Log!Spec, LogOf

-----------------------------------------------------------------------------
(* The views.                                                                *)

\* A table split in two by a condition.
LEMMA CountOfSplit ==
  ASSUME NEW S, IsFiniteSet(S), NEW T \in SUBSET S
  PROVE  Cardinality(T) + Cardinality(S \ T) = Cardinality(S)
<1>1. IsFiniteSet(T) /\ IsFiniteSet(S \ T)
  BY FS_Subset
<1>2. T \cup (S \ T) = S /\ T \cap (S \ T) = {}
  OBVIOUS
<1>3. Cardinality(T \cup (S \ T)) = Cardinality(T) + Cardinality(S \ T) - Cardinality(T \cap (S \ T))
  BY <1>1, FS_Union
<1>4. Cardinality({}) = 0 /\ Cardinality(T) \in Nat /\ Cardinality(S \ T) \in Nat
  BY <1>1, FS_EmptySet, FS_CardinalityType
<1>5. Cardinality(T \cup (S \ T)) = Cardinality(S) /\ Cardinality(T \cap (S \ T)) = 0
  BY <1>2, <1>4, Zenon
<1>6. QED
  BY <1>3, <1>4, <1>5

\* The matrix, its drill-down, the chains and the counts beside them agree in
\* every state, as do the flag of a candidate and the check of a link
\* (services/synthesis_matrix_service.py, services/synthesis_gap_service.py).
THEOREM ViewsAlwaysAgree == Spec => []ViewsAgree
<1>1. \A l \in Live("lean"), e \in Live("energy") : Cell(l, e) = CellDetail(l, e)
  BY SynthesisAssumption DEF SynthesisAssumption, Live, Cell, CellDetail, CellRows, ActiveRows, IsClassified
<1>2. Unclassified \cap UNION {Cell(l, e) : l \in Cats, e \in Cats} = {}
  BY DEF Unclassified, Cell
<1>3. MechanismStats.mapped + MechanismStats.unmapped = MechanismStats.total
  <2> DEFINE here == ActiveRows(pathways)
             mapped == {i \in here : pathways[i].category # None}
             unmapped == {i \in here : pathways[i].category = None}
  <2>1. IsFiniteSet(here)
    BY SynthesisAssumption, FS_Subset DEF SynthesisAssumption, ActiveRows
  <2>2. unmapped = here \ mapped /\ mapped \in SUBSET here
    OBVIOUS
  <2>3. /\ MechanismStats.mapped = Cardinality(mapped) /\ MechanismStats.total = Cardinality(here)
        /\ MechanismStats.unmapped = Cardinality(unmapped)
    BY DEF MechanismStats
  <2> HIDE DEF mapped, unmapped, here
  <2>4. QED
    BY <2>1, <2>2, <2>3, CountOfSplit
<1>4. Cardinality(UNION {Chain(l, m, e) : l \in Cats, m \in Cats, e \in Cats}) <= MechanismStats.approved
  <2> DEFINE here == ActiveRows(pathways)
             chains == UNION {Chain(l, m, e) : l \in Cats, m \in Cats, e \in Cats}
             approved == {i \in here : pathways[i].state = "approved"}
  <2>1. IsFiniteSet(approved)
    BY SynthesisAssumption, FS_Subset DEF SynthesisAssumption, ActiveRows
  <2>2. chains \in SUBSET approved
    BY DEF Chain
  <2>3. MechanismStats.approved = Cardinality(approved)
    BY DEF MechanismStats
  <2> HIDE DEF chains, approved
  <2>4. Cardinality(chains) <= Cardinality(approved)
    BY <2>1, <2>2, FS_Subset
  <2>5. QED
    BY <2>3, <2>4 DEF chains
<1>5. {k.target : k \in {j \in Candidates : j.traceable}} = {t \in Targets : IsLinkable(t)}
  <2> DEFINE flag(t) == [target |-> t, traceable |-> ResolvedRevision(t.item) # 0]
             traceable == {k.target : k \in {j \in Candidates : j.traceable}}
  <2>1. \A t : flag(t).target = t /\ (flag(t).traceable <=> ResolvedRevision(t.item) # 0)
    OBVIOUS
  <2>2. Candidates = {flag(t) : t \in {u \in Targets : PubOf[u.item] \in ActiveIds}}
    BY DEF Candidates
  <2> HIDE DEF flag
  <2>3. ASSUME NEW t \in Targets, IsLinkable(t)
        PROVE  t \in traceable
    <3>1. flag(t) \in Candidates /\ flag(t).traceable
      BY <2>1, <2>2, <2>3 DEF IsLinkable
    <3>2. QED
      BY <2>1, <3>1
  <2>4. ASSUME NEW t \in traceable
        PROVE  t \in Targets /\ IsLinkable(t)
    BY <2>1, <2>2 DEF IsLinkable
  <2>5. QED
    BY <2>3, <2>4
<1>6. \A t \in TermTypes : TermsFound(t) \subseteq ClassifiedTerms(t)
  BY DEF ClassifiedTerms
<1>7. ContextSummary.categories <= ContextSummary.evidence
  <2> DEFINE here == ActiveRows(links)
             all == {links[i].category : i \in here}
             named == all \ {None}
  <2>1. IsFiniteSet(here)
    BY SynthesisAssumption, FS_Subset DEF SynthesisAssumption, ActiveRows
  <2>2. IsFiniteSet(all) /\ Cardinality(all) <= Cardinality(here)
    <3> DEFINE f == [i \in here |-> links[i].category]
    <3>1. f \in Surjection(here, all)
      BY DEF Surjection
    <3> HIDE DEF here, all
    <3>2. QED
      BY <2>1, <3>1, FS_Surjection
  <2>3. IsFiniteSet(named) /\ Cardinality(named) <= Cardinality(all)
    BY <2>2, FS_Subset
  <2>4. /\ Cardinality(named) \in Nat /\ Cardinality(all) \in Nat /\ Cardinality(here) \in Nat
    BY <2>1, <2>2, <2>3, FS_CardinalityType
  <2>5. ContextSummary.categories = Cardinality(named) /\ ContextSummary.evidence = Cardinality(here)
    BY DEF ContextSummary
  <2> HIDE DEF here, all, named
  <2>6. QED
    BY <2>2, <2>3, <2>4, <2>5
<1>8. active # {} => \A l \in Content.gapLinks : l \in GapWorkspace(l.gap)
  BY DEF Content, GapWorkspace, ActiveIds
<1>9. ViewsAgree
  BY <1>1, <1>2, <1>3, <1>4, <1>5, <1>6, <1>7, <1>8 DEF ViewsAgree
<1>10. QED
  BY <1>9, PTL

================================================================================
