------------------------------- MODULE Evidence --------------------------------
(***************************************************************************)
(* Quality assessment and data extraction of the publications that full-   *)
(* text screening included: the two project configurations, the append-    *)
(* only assessments and revisions, the gates in front of them, and the     *)
(* views and datasets computed from them.                                  *)
(*                                                                         *)
(* A request handler reads on connections of its own and writes in one     *)
(* transaction at its end, so it is a step that checks, for a submission a *)
(* second step that reads the record and its history, and a step that      *)
(* writes; other requests run in between.                                  *)
(*                                                                         *)
(* Screening is what these services read of it: the full-text decisions of *)
(* every reviewer, the roster, and for a roster a resolution, which holds  *)
(* as long as no decision follows it (see module Screening).  Timestamps   *)
(* are the order of the rows.                                              *)
(***************************************************************************)
EXTENDS EvidenceDomain, FiniteSetsExt, SequencesExt

CONSTANTS
  Pubs,          \* publications
  Reviewers,     \* reviewer ids; a request without a reviewer sends Anyone
  Anyone,
  Observed,      \* the publication whose revision log is compared, any of them
  Clients,       \* concurrent requests
  Catalog,       \* Catalog[v]: an extraction template version with its flags
  QaCatalog,     \* QaCatalog[t]: a quality assessment template
  Forms,         \* extraction payloads clients send
  AnswerSheets,  \* quality assessment payloads clients send
  Votes,         \* full-text outcomes
  MaxOps,        \* bound on requests and changes of the surroundings
  MaxRows, MaxRevisions   \* bounds on votes and assessments, and on a revision log

ASSUME EvidenceAssumption ==
  /\ Anyone \notin Reviewers /\ Observed \in Pubs
  /\ \A v \in DOMAIN Catalog : ValidTemplate(Catalog[v]) /\ {Catalog[v].active, Catalog[v].published} \subseteq BOOLEAN
  /\ \A f \in Forms : WellFormed(f)
  /\ None \notin DOMAIN Catalog \cup DOMAIN QaCatalog
  /\ IsFiniteSet(Pubs)
  /\ Votes \subseteq {"include", "exclude", "uncertain"} /\ None \notin {"include", "exclude", "uncertain"}
  /\ None \notin [version : DOMAIN Catalog, status : {"in_progress", "complete"}]
  /\ {MaxOps, MaxRows, MaxRevisions} \subseteq Nat

VARIABLES
  exists,        \* the row of the project
  seeded,        \* extraction_template_versions: the versions registered so far
  input,         \* active canonical publications, and whether review is done
  roster,        \* active full-text reviewers
  votes,         \* votes[p]: the full-text decisions on p
  resolved,      \* resolved[p]: a conflict resolution, and the votes it has seen
  config,        \* project_extraction_configurations
  records,       \* extraction_records
  revisions,     \* extraction_revisions with their values and items
  qaConfig,      \* project_quality_assessment_configurations
  assessments,   \* quality_assessments with their responses
  call,          \* what every request in flight has read
  ops            \* requests begun and changes of the surroundings

screening == <<input, roster, votes, resolved>>
extraction == <<config, records, revisions>>
quality == <<qaConfig, assessments>>
vars == <<exists, seeded, screening, extraction, quality, call, ops>>

NoCall == [pc |-> "idle"]

Counted == ops < MaxOps /\ ops' = ops + 1

-----------------------------------------------------------------------------
(* The full-text outcome as the gates read it. *)

IndicesOf(log, r) == {i \in DOMAIN log : r = Anyone \/ log[i].by = r}

(* The outcome of the latest decision, found as the maximum. *)
LatestVote(p, r) ==
  IF IndicesOf(votes[p], r) = {} THEN None ELSE votes[p][Max(IndicesOf(votes[p], r))].outcome

ProjectOutcome(p) ==
  LET latest == {LatestVote(p, r) : r \in roster}
      current == resolved[p] # None /\ resolved[p].seen = Len(votes[p])
  IN CASE None \in latest -> [status |-> "incomplete", outcome |-> None]
       [] None \notin latest /\ Cardinality(latest) = 1 ->
            [status |-> "agreement", outcome |-> CHOOSE o \in latest : TRUE]
       [] OTHER ->
            IF current THEN [status |-> "resolved", outcome |-> resolved[p].outcome]
            ELSE IF resolved[p] = None THEN [status |-> "conflict", outcome |-> None]
            ELSE [status |-> "stale_resolution", outcome |-> None]

ScreeningOutcome(p, r) ==
  IF roster # {} THEN ProjectOutcome(p)
  ELSE [status |-> IF LatestVote(p, r) = None THEN "incomplete" ELSE "agreement",
        outcome |-> LatestVote(p, r)]

(* QA replays the decisions: an include adds the publication, any other       *)
(* decision of the reviewer takes it out.                                     *)
Replayed(p, r) == FoldLeft(LAMBDA in, d : IF d.by = r THEN d.outcome = "include" ELSE in, FALSE, votes[p])

QaEligible(r) == {p \in input.pubs : Replayed(p, r)}

-----------------------------------------------------------------------------
(* The gates. *)

AssessedBy(p, r) == {i \in DOMAIN assessments : assessments[i].pub = p /\ (r = Anyone \/ assessments[i].by = r)}

(* A request without a reviewer has never assessed anything.                  *)
HasCompletedAssessment(p, r) == r # Anyone /\ AssessedBy(p, r) # {}

\* Mutant: the gate of quality assessment is not asked.
EvaluateUngated(p, r) ==
  IF config = None THEN "no_extraction_configuration"
  ELSE IF p \notin input.pubs THEN "screening_incomplete"
  ELSE IF ScreeningOutcome(p, r).outcome # "include" THEN "screening_not_included"
  ELSE "eligible"

Evaluate(p, r) ==
  LET s == ScreeningOutcome(p, r)
  IN IF config = None THEN "no_extraction_configuration"
     ELSE IF p \notin input.pubs THEN "screening_incomplete"
     ELSE IF s.status \in {"incomplete", "conflict", "stale_resolution"} THEN s.status
     ELSE IF s.outcome # "include" THEN s.outcome
     ELSE IF qaConfig # None /\ ~HasCompletedAssessment(p, r) THEN "qa_incomplete"
     ELSE "eligible"

EligiblePublications(r) == {p \in input.pubs : input.ready /\ Evaluate(p, r) = "eligible"}

-----------------------------------------------------------------------------
(* Catalogs and configurations. *)

(* The seed registers a version once and never changes it.                    *)
Seed(v) ==
  /\ v \notin seeded
  /\ seeded' = seeded \cup {v}
  /\ UNCHANGED <<exists, screening, extraction, quality, call, ops>>

Offered(v) == v \in seeded /\ Catalog[v].active /\ Catalog[v].published

(* The template may not change once there are records.                        *)
ChangeAllowed(v) ==
  config = None \/ config = v \/ \A p \in Pubs : records[p] = None

ConfigureCheck(c, v) ==
  /\ call[c] = NoCall /\ Counted
  /\ exists /\ Offered(v) /\ ChangeAllowed(v)
  /\ call' = [call EXCEPT ![c] = [pc |-> "configure", version |-> v]]
  /\ UNCHANGED <<exists, seeded, screening, extraction, quality>>

(* The row refers to the project: after a deletion the write fails.            *)
ConfigureWrite(c) ==
  /\ call[c].pc = "configure"
  /\ config' = IF exists THEN call[c].version ELSE config
  /\ call' = [call EXCEPT ![c] = NoCall]
  /\ UNCHANGED <<exists, seeded, screening, records, revisions, quality, ops>>

(* Activity is asked only of a template the project does not have yet.         *)
QaConfigure(c, t) ==
  /\ call[c] = NoCall /\ Counted
  /\ exists /\ qaConfig # t => QaCatalog[t].active
  /\ call' = [call EXCEPT ![c] = [pc |-> "qa_configure", template |-> t]]
  /\ UNCHANGED <<exists, seeded, screening, extraction, quality>>

QaConfigureWrite(c) ==
  /\ call[c].pc = "qa_configure"
  /\ qaConfig' = call[c].template
  /\ call' = [call EXCEPT ![c] = NoCall]
  /\ UNCHANGED <<exists, seeded, screening, extraction, assessments, ops>>

-----------------------------------------------------------------------------
(* Quality assessment. *)

AssessCheck(c, p, r, answers) ==
  /\ call[c] = NoCall /\ Counted
  /\ exists /\ p \in QaEligible(r)
  /\ qaConfig # None /\ Accepts(QaCatalog[qaConfig], answers)
  /\ call' = [call EXCEPT ![c] = [pc |-> "assess", pub |-> p, by |-> r,
                                  template |-> qaConfig, answers |-> answers]]
  /\ UNCHANGED <<exists, seeded, screening, extraction, quality>>

(* The insert verifies every criterion against the template once more; it     *)
(* does not look at the project.                                              *)
AssessWrite(c) ==
  /\ call[c].pc = "assess" /\ Len(assessments) < MaxRows
  /\ DOMAIN call[c].answers \subseteq DOMAIN QaCatalog[call[c].template].criteria
  /\ assessments' = Append(assessments, [pub |-> call[c].pub, by |-> call[c].by,
                                         template |-> call[c].template, answers |-> call[c].answers])
  /\ call' = [call EXCEPT ![c] = NoCall]
  /\ UNCHANGED <<exists, seeded, screening, extraction, qaConfig, ops>>

-----------------------------------------------------------------------------
(* Extraction. *)

(* submit_revision: the configuration, the gate and the template version.     *)
SubmitCheck(c, p, r, form, mark) ==
  /\ call[c] = NoCall /\ Counted
  /\ Evaluate(p, r) = "eligible" /\ Offered(config)
  /\ call' = [call EXCEPT ![c] = [pc |-> "gated", pub |-> p, by |-> r, version |-> config,
                                  form |-> form, mark |-> mark]]
  /\ UNCHANGED <<exists, seeded, screening, extraction, quality>>

(* The record header or a new one, the next index, and the verdict on the form.*)
SubmitRead(c) ==
  /\ call[c].pc = "gated"
  /\ LET q == call[c]
         status == Verdict(Catalog[q.version], q.form, q.mark)
     IN call' = [call EXCEPT ![c] =
          IF status = "rejected" THEN NoCall
          ELSE [pc |-> "append", pub |-> q.pub, new |-> records[q.pub] = None, version |-> q.version,
                revision |-> [index |-> Len(revisions[q.pub]) + 1, by |-> q.by,
                              status |-> status, form |-> q.form]]]
  /\ UNCHANGED <<exists, seeded, screening, extraction, quality, ops>>

\* Mutant: the index is stored as it was read.
AppendableAnyIndex(q) ==
  /\ exists
  /\ q.new <=> records[q.pub] = None

(* append_revision fails when the new header is no longer new, when the header *)
(* is gone, or when another revision has taken the index.                      *)
Appendable(q) ==
  /\ exists
  /\ q.new <=> records[q.pub] = None
  /\ q.revision.index = Len(revisions[q.pub]) + 1

\* Mutant: the header keeps its status.
HeaderAfterStale(q) ==
  IF q.new THEN [version |-> q.version, status |-> "not_started"] ELSE records[q.pub]

HeaderAfter(q) ==
  IF q.new THEN [version |-> q.version, status |-> q.revision.status]
  ELSE [records[q.pub] EXCEPT !.status = q.revision.status]

(* One transaction: header, revision, values and the status of the header.     *)
SubmitAppend(c) ==
  /\ call[c].pc = "append"
  /\ IF Appendable(call[c])
     THEN LET q == call[c]
          IN /\ Len(revisions[q.pub]) < MaxRevisions
             /\ records' = [records EXCEPT ![q.pub] = HeaderAfter(q)]
             /\ revisions' = [revisions EXCEPT ![q.pub] = Append(@, q.revision)]
     ELSE UNCHANGED <<records, revisions>>
  /\ call' = [call EXCEPT ![c] = NoCall]
  /\ UNCHANGED <<exists, seeded, screening, config, quality, ops>>

-----------------------------------------------------------------------------
(* What happens around these services. *)

Vote(p, r, o) ==
  /\ exists /\ Counted /\ Len(votes[p]) < MaxRows
  /\ votes' = [votes EXCEPT ![p] = Append(@, [by |-> r, outcome |-> o])]
  /\ UNCHANGED <<exists, seeded, input, roster, resolved, extraction, quality, call>>

Resolve(p, o) ==
  /\ exists /\ Counted /\ roster # {}
  /\ ProjectOutcome(p).status \in {"conflict", "stale_resolution"}
  /\ resolved' = [resolved EXCEPT ![p] = [outcome |-> o, seen |-> Len(votes[p])]]
  /\ UNCHANGED <<exists, seeded, input, roster, votes, extraction, quality, call>>

(* A merge takes a publication out of the active corpus; a new duplicate       *)
(* candidate withdraws readiness.                                              *)
InputChanges(pubs, ready) ==
  /\ exists /\ Counted
  /\ pubs \subseteq input.pubs /\ <<pubs, ready>> # <<input.pubs, input.ready>>
  /\ input' = [pubs |-> pubs, ready |-> ready]
  /\ UNCHANGED <<exists, seeded, roster, votes, resolved, extraction, quality, call>>

(* delete_project: one transaction over all tables of the project.             *)
DeleteProject ==
  /\ exists
  /\ exists' = FALSE
  /\ config' = None /\ qaConfig' = None /\ assessments' = <<>>
  /\ records' = [p \in Pubs |-> None]
  /\ revisions' = [p \in Pubs |-> <<>>]
  /\ votes' = [p \in Pubs |-> <<>>] /\ resolved' = [p \in Pubs |-> None]
  /\ input' = [pubs |-> {}, ready |-> FALSE] /\ roster' = {}
  /\ UNCHANGED <<seeded, call, ops>>

-----------------------------------------------------------------------------
Init ==
  /\ exists = TRUE /\ seeded = {}
  /\ input = [pubs |-> Pubs, ready |-> TRUE]
  /\ roster \in {{}, Reviewers}
  /\ votes = [p \in Pubs |-> <<>>] /\ resolved = [p \in Pubs |-> None]
  /\ config = None /\ qaConfig = None
  /\ records = [p \in Pubs |-> None]
  /\ revisions = [p \in Pubs |-> <<>>]
  /\ assessments = <<>>
  /\ call = [c \in Clients |-> NoCall]
  /\ ops = 0

Request(c) ==
  \/ \E v \in DOMAIN Catalog : ConfigureCheck(c, v)
  \/ \E t \in DOMAIN QaCatalog : QaConfigure(c, t)
  \/ \E p \in Pubs, r \in Reviewers :
       \/ \E answers \in AnswerSheets : AssessCheck(c, p, r, answers)
       \/ \E form \in Forms, mark \in BOOLEAN : SubmitCheck(c, p, r, form, mark)

Finish(c) ==
  ConfigureWrite(c) \/ QaConfigureWrite(c) \/ AssessWrite(c) \/ SubmitRead(c) \/ SubmitAppend(c)

Surroundings ==
  \/ \E v \in DOMAIN Catalog : Seed(v)
  \/ \E p \in Pubs, o \in Votes : Resolve(p, o) \/ \E r \in Reviewers : Vote(p, r, o)
  \/ \E pubs \in SUBSET Pubs, ready \in BOOLEAN : InputChanges(pubs, ready)
  \/ DeleteProject

Next == (\E c \in Clients : Request(c) \/ Finish(c)) \/ Surroundings

Spec == Init /\ [][Next]_vars

-----------------------------------------------------------------------------
(* Views, each computed along a path of its own. *)

LatestRevision(p, r) == LET mine == IndicesOf(revisions[p], r) IN IF mine = {} THEN 0 ELSE Max(mine)

LatestComplete(p, r) ==
  LET mine == {i \in IndicesOf(revisions[p], r) : revisions[p][i].status = "complete"}
  IN IF mine = {} THEN 0 ELSE Max(mine)

StatusOf(p) ==
  IF LatestRevision(p, Anyone) = 0 THEN "not_started" ELSE revisions[p][LatestRevision(p, Anyone)].status

Progress(r) ==
  [s \in {"not_started", "in_progress", "complete"} |->
     Cardinality({p \in EligiblePublications(r) : StatusOf(p) = s})]

Summaries(r) == {[pub |-> p, status |-> StatusOf(p), index |-> LatestRevision(p, Anyone)] : p \in EligiblePublications(r)}

(* One row per item of the latest revision, complete or not.                   *)
MatrixRows(r) ==
  UNION {{<<p, i>> : i \in IF LatestRevision(p, Anyone) = 0 THEN {}
                           ELSE DOMAIN revisions[p][LatestRevision(p, Anyone)].form.items} : p \in EligiblePublications(r)}

(* The dataset: the reviewer's own latest revision, when its status is asked for;*)
(* the template it names is the project's, not the record's.                     *)
ReadModels(r, statuses) ==
  {[pub |-> p, index |-> LatestRevision(p, r), template |-> config] :
     p \in {q \in EligiblePublications(r) : LatestRevision(q, r) # 0
                                             /\ revisions[q][LatestRevision(q, r)].status \in statuses}}

Relationships(r, statuses) ==
  UNION {{<<m.pub, i>> : i \in DOMAIN revisions[m.pub][m.index].form.items} : m \in ReadModels(r, statuses)}

(* The columns of one field in the CSV, and its cells in a row: the unit is     *)
(* inserted in front of the five columns of provenance.                         *)
Provenance == <<"page", "section", "locator", "quote", "note">>

\* Mutant: the unit is the last column of the header.
ValueHeadersUnitLast(k, f) ==
  LET all == [i \in 1 .. 8 |-> <<k, (<<"value", "status", "origin">> \o Provenance)[i]>>]
  IN IF f.type = "number_with_unit" THEN Append(all, <<k, "unit">>) ELSE all

ValueHeaders(k, f) ==
  LET all == [i \in 1 .. 8 |-> <<k, (<<"value", "status", "origin">> \o Provenance)[i]>>]
  IN IF f.type = "number_with_unit" THEN InsertAt(all, Len(all) - 4, <<k, "unit">>) ELSE all

ValueCells(f, v) ==
  LET head == IF v = None THEN <<"empty", "unassessed", None>>
              ELSE <<IF v.slots = {} THEN "empty" ELSE "typed", v.status, v.origin>>
      unit == IF f.type # "number_with_unit" THEN <<>> ELSE IF v = None THEN <<"empty">> ELSE <<v.unit>>
  IN head \o unit \o <<"page", "section", "locator", "quote", "note">>

CsvFields(fields) == SetToSortSeq(DOMAIN fields, LAMBDA a, b : fields[a].order < fields[b].order)

CsvHeader(fields) ==
  FlattenSeq([i \in DOMAIN CsvFields(fields) |-> ValueHeaders(CsvFields(fields)[i], fields[CsvFields(fields)[i]])])

CsvRow(fields, values) ==
  FlattenSeq([i \in DOMAIN CsvFields(fields) |->
    LET k == CsvFields(fields)[i] IN ValueCells(fields[k], IF k \in DOMAIN values THEN values[k] ELSE None)])

(* The fields of all groups in one header, the first definition of a key wins.  *)
RelationshipFields(template) ==
  [k \in UNION {DOMAIN template.groups[g].fields : g \in DOMAIN template.groups} |->
     LET first == CHOOSE g \in DOMAIN template.groups : k \in DOMAIN template.groups[g].fields
     IN template.groups[first].fields[k]]

(* Without a configuration the overview counts nothing; the list of records    *)
(* below does not look at the configuration.                                   *)
QaOverview(r) ==
  IF qaConfig = None THEN [total |-> 0, assessed |-> 0]
  ELSE [total |-> Cardinality(QaEligible(r)),
        assessed |-> Cardinality({p \in QaEligible(r) : AssessedBy(p, r) # {}})]

QaRecords(r, filter) ==
  {p \in QaEligible(r) : CASE filter = "assessed" -> AssessedBy(p, r) # {}
                           [] filter = "unassessed" -> AssessedBy(p, r) = {}
                           [] OTHER -> TRUE}

(* What the synthesis may quote: an item or a field of a revision of an active *)
(* publication, the latest complete one unless it names another.               *)
Traceable(p, index, item) ==
  LET target == IF index # 0 THEN index ELSE LatestComplete(p, Anyone)
  IN p \in input.pubs /\ target \in DOMAIN revisions[p] /\ item \in DOMAIN revisions[p][target].form.items

TraceableField(p, index, field) ==
  LET target == IF index # 0 THEN index ELSE LatestComplete(p, Anyone)
  IN p \in input.pubs /\ target \in DOMAIN revisions[p] /\ field \in DOMAIN revisions[p][target].form.values

(* The quality profile of a publication: the latest assessment of anyone.      *)
QaProfile(p, r) == IF p \notin input.pubs \/ AssessedBy(p, r) = {} THEN 0 ELSE Max(AssessedBy(p, r))

-----------------------------------------------------------------------------
(* Properties. *)

(* Every row is one the validators accept: forms that can be read back, answers *)
(* that belong to their template and cover what it requires.                    *)
TypeOK ==
  /\ exists \in BOOLEAN /\ seeded \subseteq DOMAIN Catalog
  /\ config \in DOMAIN Catalog \cup {None} /\ qaConfig \in DOMAIN QaCatalog \cup {None}
  /\ \A p \in Pubs :
       /\ records[p] # None => /\ records[p].version \in DOMAIN Catalog
                               /\ records[p].status \in {"in_progress", "complete"}
       /\ \A i \in DOMAIN revisions[p] : \A k \in DOMAIN revisions[p][i].form.values :
            Readable(revisions[p][i].form.values[k])
  /\ \A i \in DOMAIN assessments :
       LET a == assessments[i]
       IN /\ DOMAIN a.answers \subseteq DOMAIN QaCatalog[a.template].criteria
          /\ \A k \in DOMAIN QaCatalog[a.template].criteria :
               QaCatalog[a.template].criteria[k] => k \in DOMAIN a.answers
  /\ ops \in 0 .. MaxOps

RevisionNumber(e) == e.index

(* The revisions of a publication are an append-only log numbered without gaps *)
(* although every submitter picks its number before its transaction: two that  *)
(* read the same history cannot both be stored (extraction_repository.py).     *)
RevisionLog == INSTANCE VersionLog WITH Number <- RevisionNumber, log <- revisions[Observed]

RevisionLogs == RevisionLog!DiscardableSpec

(* The header of a publication exists exactly when it has revisions, carries   *)
(* the status of the last one, and nothing of either outlives the project -    *)
(* whichever submissions and deletions ran in between.                         *)
HeaderMirrorsLog ==
  \A p \in Pubs :
    /\ records[p] # None <=> revisions[p] # <<>>
    /\ records[p] # None => records[p].status = Last(revisions[p]).status
    /\ ~exists => records[p] = None /\ config = None

(* A stored revision is what the template of its record calls for, read the    *)
(* other way round: a complete one has every required field with a permitted   *)
(* status, a present one in the column its type is read from, and the required *)
(* number of items; a draft lacks fields or items but holds no wrong value.    *)
Decided(f, values, k) ==
  /\ k \in DOMAIN values /\ values[k].status \in f.allowed
  /\ values[k].status = "present" => values[k].slots \cap SlotsOf(f.type) # {} \/ f.type = "repeating_group"

Sound(f, values, k) ==
  k \in DOMAIN values /\ values[k].status # "unassessed" =>
    /\ values[k].status \in f.allowed
    /\ HasConstraint(f.type) /\ values[k].slots \cap SlotsOf(f.type) # {} =>
         values[k].fits \/ values[k].status \notin {"present", "unclear"}

Whole(fields, values) == \A k \in DOMAIN fields : fields[k].required => Decided(fields[k], values, k)
Clean(fields, values) == \A k \in DOMAIN fields : Sound(fields[k], values, k)

RevisionsFitRecord ==
  \A p \in Pubs : records[p] # None =>
    LET template == Catalog[records[p].version]
    IN \A i \in DOMAIN revisions[p] :
         LET form == revisions[p][i].form
             of(g) == {j \in DOMAIN form.items : form.items[j].group = g}
         IN /\ Clean(template.fields, form.values)
            /\ \A g \in DOMAIN template.groups :
                 /\ \A j \in of(g) : Clean(template.groups[g].fields, form.items[j].values)
                 /\ template.groups[g].max # None => Cardinality(of(g)) <= template.groups[g].max
            /\ revisions[p][i].status = "complete" =>
                 /\ Whole(template.fields, form.values)
                 /\ \A g \in DOMAIN template.groups :
                      /\ Cardinality(of(g)) >= template.groups[g].min
                      /\ \A j \in of(g) : Whole(template.groups[g].fields, form.items[j].values)

(* The gates agree although each finds the latest decision its own way.  With  *)
(* one reviewer at a time, what extraction offers is what quality assessment    *)
(* lists as assessed; the overview counts the assessed records of the list, and *)
(* the others once quality assessment is configured (before, it counts none of  *)
(* the records the list shows); the counts of progress add up to the list; an   *)
(* item of the dataset is in the matrix when nobody else has revised it since,  *)
(* and the synthesis can trace it; and a request without a reviewer is offered  *)
(* nothing once quality assessment is configured.                               *)
GatesAgree ==
  /\ \A r \in Reviewers :
       /\ Cardinality(QaRecords(r, "assessed")) = QaOverview(r).assessed
       /\ qaConfig # None =>
            Cardinality(QaRecords(r, "unassessed")) = QaOverview(r).total - QaOverview(r).assessed
       /\ input.ready /\ roster = {} /\ config # None =>
            EligiblePublications(r) = IF qaConfig = None THEN QaEligible(r) ELSE QaRecords(r, "assessed")
       /\ \A p \in QaRecords(r, "assessed") : QaProfile(p, r) # 0 /\ QaProfile(p, Anyone) >= QaProfile(p, r)
       /\ \A m \in ReadModels(r, {"complete"}) :
            /\ \A i \in DOMAIN revisions[m.pub][m.index].form.items :
                 /\ Traceable(m.pub, m.index, i)
                 /\ m.index = LatestRevision(m.pub, Anyone) => <<m.pub, i>> \in MatrixRows(r)
            /\ \A k \in DOMAIN revisions[m.pub][m.index].form.values : TraceableField(m.pub, m.index, k)
  /\ \A r \in Reviewers \cup {Anyone} :
       /\ Progress(r)["not_started"] + Progress(r)["in_progress"] + Progress(r)["complete"] =
            Cardinality(Summaries(r))
       /\ Relationships(r, {"complete"}) \subseteq Relationships(r, {"complete", "in_progress"})
  /\ qaConfig # None => EligiblePublications(Anyone) = {}

(* A row of the CSV has its cells under the header they belong to, in both     *)
(* files, although header and row are put together by separate functions and   *)
(* a number with a unit has one column more.                                   *)
RowsFitHeader ==
  config # None =>
    LET fields == Catalog[config].fields
        header == CsvHeader(fields)
        relations == RelationshipFields(Catalog[config])
    IN \A p \in Pubs : \A n \in DOMAIN revisions[p] :
         LET form == revisions[p][n].form
             row == CsvRow(fields, form.values)
         IN /\ Len(row) = Len(header)
            /\ \A i \in DOMAIN header :
                 /\ header[i][2] = "status" => row[i] = IF header[i][1] \in DOMAIN form.values
                                                       THEN form.values[header[i][1]].status ELSE "unassessed"
                 /\ header[i][2] = "note" => row[i] = "note"
            /\ \A j \in DOMAIN form.items :
                 Len(CsvRow(relations, form.items[j].values)) = Len(CsvHeader(relations))

(* The change-lock: what a project is configured for is what its records were   *)
(* made for (extraction_configuration_service.py:52).                           *)
EvidenceLocked == \A p \in Pubs : records[p] # None => records[p].version = config

===============================================================================
