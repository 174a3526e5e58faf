------------------------------- MODULE Screening -------------------------------
(***************************************************************************)
(* Two-stage screening of one project by several reviewers: criteria,      *)
(* reviewer rosters, append-only decisions, conflicts and their            *)
(* resolution, eligibility for full text, and the reports derived from it.  *)
(*                                                                         *)
(* Every operation is a request handler on a worker thread.  A handler     *)
(* reads on one connection and writes on another, so it is a step that     *)
(* checks and a step that writes, and the handlers of other requests run   *)
(* in between.  The reads of one check are a single step.                  *)
(*                                                                         *)
(* Abstractions.  The canonical input set is what the corpus hands over:   *)
(* a set of publications and whether it is ready.  A decision is           *)
(* identified by its position in the append-only table, which is also the  *)
(* order of decided_at: clock ties and clock steps are left out.  The      *)
(* decision-set key is a hash of what it covers, so a key is that record.   *)
(***************************************************************************)
EXTENDS ScreeningDomain, Sequences, FiniteSetsExt, SequencesExt

CONSTANTS
  Pubs,            \* canonical publications
  Reviewers,       \* reviewer ids
  Deciders,        \* concurrent requests that decide or note availability
  Resolvers,       \* concurrent requests that resolve conflicts
  Criteria,        \* criterion ids
  CriterionRows,   \* payloads of the criterion endpoints
  InputValues,     \* assessment values a client sends
  Votes,           \* outcomes a client sends
  Metadata,        \* Metadata[p]: rule field -> value or Absent
  MaxDecisions, MaxResolutions, MaxEdits   \* bounds

ASSUME ScreeningAssumption ==
  /\ Metadata \in [Pubs -> [RuleFields -> UNION {{Metadata[p][f]} : p \in Pubs, f \in RuleFields}]]
  /\ CriterionRows \subseteq [type : CriterionTypes, stage : CriterionStages, active : BOOLEAN,
                             required : BOOLEAN, mode : EvaluationModes, rule : {c.rule : c \in CriterionRows}]
  /\ InputValues \subseteq AssessmentValues /\ Votes \subseteq Outcomes
  /\ IsFiniteSet(Pubs) /\ IsFiniteSet(Criteria)
  /\ MaxDecisions \in Nat /\ MaxResolutions \in Nat /\ MaxEdits \in Nat

VARIABLES
  input,         \* get_input_set: the canonical publications and readiness
  roster,        \* screening_reviewer_assignments: active reviewers by stage
  criteria,      \* screening_criteria
  decisions,     \* screening_decisions with their assessments and reasons
  resolutions,   \* screening_conflict_resolutions with their links
  availability,  \* full_text_availability
  call,          \* what every request in flight has read
  edits          \* roster, criterion and corpus changes made

tables == <<input, roster, criteria, decisions, resolutions, availability>>
vars == <<input, roster, criteria, decisions, resolutions, availability, call, edits>>

TA == "title_abstract"
FT == "full_text"
NoCriterion == [type |-> "none"]
NoCall == [pc |-> "idle"]
Statuses == {"unknown", "to_retrieve", "available", "unavailable"}

(* decided_at and resolved_at: the next timestamp. *)
Now == Len(decisions) + Len(resolutions) + 1

Clients == Deciders \cup Resolvers

-----------------------------------------------------------------------------
(* Criteria. *)

ActiveCriteria(stage) ==
  {k \in Criteria : /\ criteria[k] # NoCriterion
                    /\ criteria[k].active /\ AppliesTo(criteria[k], stage)}

AutomaticCriteria(stage) == {k \in ActiveCriteria(stage) : criteria[k].mode = "metadata_rule"}

Automatic(p, stage) ==
  [k \in AutomaticCriteria(stage) |-> Evaluate(criteria[k].rule, Metadata[p])]

(* No edit waits for the decisions in flight: each notes which of its reasons *)
(* are edited behind its back.                                                *)
Noticing(q, k) ==
  IF q.pc = "decide" /\ k \in q.reasons THEN [q EXCEPT !.edited = @ \cup {k}] ELSE q

Saved(k, c) ==
  /\ edits < MaxEdits /\ edits' = edits + 1
  /\ criteria' = [criteria EXCEPT ![k] = c]
  /\ call' = [d \in Clients |-> Noticing(call[d], k)]
  /\ UNCHANGED <<input, roster, decisions, resolutions, availability>>

\* Mutant: the payload is stored unvalidated.
CriterionCreateUnchecked(k, c) ==
  criteria[k] = NoCriterion /\ Saved(k, c)

CriterionCreate(k, c) ==
  criteria[k] = NoCriterion /\ ValidCriterion(c) /\ Saved(k, c)

CriterionUpdate(k, c) ==
  criteria[k] # NoCriterion /\ ValidCriterion(c) /\ Saved(k, c)

Deactivated(c) == [c EXCEPT !.active = FALSE]

CriterionDeactivate(k) ==
  criteria[k] # NoCriterion /\ criteria[k].active /\ Saved(k, Deactivated(criteria[k]))

-----------------------------------------------------------------------------
(* Rosters and the corpus. *)

(* replace_active deactivates every assignment of the stage and activates   *)
(* the given ones on one connection; only the active ones are ever read.    *)
Reassigned(stage, active) == [roster EXCEPT ![stage] = active]

ReplaceRoster(stage, active) ==
  /\ edits < MaxEdits /\ edits' = edits + 1
  /\ active # roster[stage]
  /\ roster' = Reassigned(stage, active)
  /\ UNCHANGED <<input, criteria, decisions, resolutions, availability, call>>

(* The corpus side: duplicate review may block the input and unblock it, and *)
(* a late merge takes a publication out of it.                               *)
InputChanges(ready, pubs) ==
  /\ edits < MaxEdits /\ edits' = edits + 1
  /\ pubs \subseteq input.pubs /\ <<ready, pubs>> # <<input.ready, input.pubs>>
  /\ input' = [ready |-> ready, pubs |-> pubs]
  /\ UNCHANGED <<roster, criteria, decisions, resolutions, availability, call>>

-----------------------------------------------------------------------------
(* Decision history. *)

History(p, stage, r) ==
  {i \in DOMAIN decisions : /\ decisions[i].pub = p
                            /\ decisions[i].stage = stage
                            /\ decisions[i].reviewer = r}

LatestDecision(p, stage, r) ==
  IF History(p, stage, r) = {} THEN 0 ELSE Max(History(p, stage, r))

(* list_by_project: the decisions newest first, of which those of the stage    *)
(* are listed, at these places.                                                *)
Newest == Reverse(decisions)
ListByProject(stage) == {n \in DOMAIN Newest : Newest[n].stage = stage}

\* Mutant: the list is read oldest first.
FirstListedOldest(p, stage, r) ==
  IF History(p, stage, r) = {} THEN 0 ELSE Min(History(p, stage, r))

(* The services keep the first decision they meet for a publication. *)
FirstListed(p, stage, r) ==
  LET mine == {n \in ListByProject(stage) : Newest[n].reviewer = r /\ Newest[n].pub = p}
  IN IF mine = {} THEN 0 ELSE Len(decisions) + 1 - Min(mine)

(* latest_decisions_for_stage_all_reviewers: rank 1 of every reviewer. *)
LatestAll(p, stage) == {LatestDecision(p, stage, r) : r \in Reviewers} \ {0}

LatestResolution(p, stage) ==
  LET mine == {i \in DOMAIN resolutions : resolutions[i].pub = p /\ resolutions[i].stage = stage}
  IN IF mine = {} THEN 0 ELSE Max(mine)

-----------------------------------------------------------------------------
(* Conflicts. *)

(* The reviewers whose decisions a publication waits for.  At full text these *)
(* are the roster reviewers whose own title and abstract decision was include.*)
Expected(p, stage) ==
  {r \in roster[stage] :
     stage = FT => \E i \in LatestAll(p, TA) : decisions[i].reviewer = r /\ decisions[i].outcome = "include"}

HasRecord(p, stage) == input.ready /\ p \in input.pubs /\ Expected(p, stage) # {}

ByReviewer(p, stage) == [r \in Expected(p, stage) |-> LatestDecision(p, stage, r)]

(* compute_decision_set_key: the expected reviewers and, for each, the id and *)
(* the outcome of its latest decision, or PENDING.                            *)
DecisionSetKey(p, stage) ==
  [pub |-> p, stage |-> stage,
   latest |-> [r \in Expected(p, stage) |->
                 LET i == LatestDecision(p, stage, r)
                 IN IF i = 0 THEN <<0, "PENDING">> ELSE <<i, decisions[i].outcome>>]]

OutcomesOf(ids) == {decisions[i].outcome : i \in ids}

ConflictStatus(p, stage) ==
  LET ids == Range(ByReviewer(p, stage))
      res == LatestResolution(p, stage)
  IN CASE 0 \in ids -> "incomplete"
       [] 0 \notin ids /\ Cardinality(OutcomesOf(ids)) = 1 -> "agreement"
       [] 0 \notin ids /\ Cardinality(OutcomesOf(ids)) > 1 ->
            IF res = 0 THEN "conflict"
            ELSE IF resolutions[res].key = DecisionSetKey(p, stage) THEN "resolved"
            ELSE "stale_resolution"

Conflicts(stage, status) ==
  {p \in input.pubs : HasRecord(p, stage) /\ ConflictStatus(p, stage) = status}

(* The project outcome of a publication.  Without a record - nobody is        *)
(* expected - it is the latest decision of whichever reviewer made one.       *)
ProjectOutcome(p, stage) ==
  IF ~HasRecord(p, stage)
  THEN IF LatestAll(p, stage) = {} THEN [status |-> "incomplete", outcome |-> "none"]
       ELSE [status |-> "agreement", outcome |-> decisions[Max(LatestAll(p, stage))].outcome]
  ELSE LET status == ConflictStatus(p, stage)
       IN [status |-> status,
           outcome |-> CASE status = "agreement" -> decisions[Max(Range(ByReviewer(p, stage)))].outcome
                         [] status = "resolved" -> resolutions[LatestResolution(p, stage)].outcome
                         [] OTHER -> "none"]

IsFinal(o) == o.status \in {"agreement", "resolved"}

-----------------------------------------------------------------------------
(* Eligibility. *)

HasActiveRoster(stage) == roster[stage] # {}

(* get_outcome of the adapter: the project's outcome under a roster, the      *)
(* reviewer's own latest decision without one.                                *)
OutcomeFor(p, stage, r) ==
  IF HasActiveRoster(stage) THEN ProjectOutcome(p, stage)
  ELSE IF History(p, stage, r) = {} THEN [status |-> "incomplete", outcome |-> "none"]
  ELSE [status |-> "agreement", outcome |-> decisions[Max(History(p, stage, r))].outcome]

\* Mutant: any decision lets a publication in.
WithOutcomeAnyVote(stage, r, outcome) ==
  IF ~input.ready THEN {}
  ELSE {p \in input.pubs : FirstListed(p, stage, r) # 0}

WithOutcome(stage, r, outcome) ==
  IF ~input.ready THEN {}
  ELSE IF HasActiveRoster(stage)
  THEN {p \in input.pubs : /\ IsFinal(ProjectOutcome(p, stage))
                           /\ ProjectOutcome(p, stage).outcome = outcome}
  ELSE {p \in input.pubs : /\ FirstListed(p, stage, r) # 0
                           /\ decisions[FirstListed(p, stage, r)].outcome = outcome}

EligiblePublications(stage, r) == WithOutcome(stage, r, "include")
ExcludedPublications(stage, r) == WithOutcome(stage, r, "exclude")

StageReadiness(stage, r) ==
  IF ~input.ready THEN "input_not_ready"
  ELSE IF HasActiveRoster(TA) /\ Conflicts(TA, "conflict") # {} THEN "unresolved_conflict"
  ELSE IF HasActiveRoster(TA) /\ Conflicts(TA, "stale_resolution") # {} THEN "stale_resolution"
  ELSE IF stage = TA \/ EligiblePublications(TA, r) # {} THEN "ready"
  ELSE IF ListByProject(TA) = {} THEN "waiting_for_previous_stage"
  ELSE "no_eligible_publications"

FullTextReadiness(r) ==
  LET adapter == StageReadiness(FT, r)
      open == \E p \in input.pubs : \/ FirstListed(p, TA, r) = 0
                                    \/ decisions[FirstListed(p, TA, r)].outcome = "uncertain"
  IN IF adapter \in {"input_not_ready", "unresolved_conflict", "stale_resolution"} THEN adapter
     ELSE IF EligiblePublications(TA, r) # {} THEN "ready"
     ELSE IF open \/ adapter = "waiting_for_previous_stage" THEN "waiting_for_title_abstract"
     ELSE "no_eligible_publications"

(* get_record: the checks in front of every full-text write. *)
FullTextRecord(p, r) == FullTextReadiness(r) = "ready" /\ p \in EligiblePublications(TA, r)

-----------------------------------------------------------------------------
(* Decisions. *)

AssessmentInputs == UNION {[S -> InputValues] : S \in SUBSET Criteria}

Assessed(values, automatic) ==
  [k \in DOMAIN values \cup DOMAIN automatic |->
     IF k \in DOMAIN automatic THEN automatic[k] ELSE values[k]]

\* Mutant: the reasons are only counted.
ValidReasonsNamed(p, outcome, values, reasons) ==
  IF outcome # "exclude" THEN reasons = {} ELSE reasons # {}

(* A full-text exclusion names at least one unmet inclusion criterion or met  *)
(* exclusion criterion; no other outcome names any.                           *)
ValidReasons(p, outcome, values, reasons) ==
  LET assessed == Assessed(values, Automatic(p, FT))
  IN IF outcome # "exclude" THEN reasons = {}
     ELSE /\ reasons # {}
          /\ \A k \in reasons :
               /\ k \in ActiveCriteria(FT) /\ k \in DOMAIN assessed
               /\ \/ criteria[k].type = "inclusion" /\ assessed[k] = "not_met"
                  \/ criteria[k].type = "exclusion" /\ assessed[k] = "met"

(* The input set is read, and for full text the reviewer's queue, and the     *)
(* exclusion reasons are checked against the criteria of this moment.         *)
TitleAbstractBegin(c, p, r, outcome, values) ==
  /\ call[c] = NoCall
  /\ input.ready /\ p \in input.pubs
  /\ call' = [call EXCEPT ![c] = [pc |-> "decide", pub |-> p, stage |-> TA, reviewer |-> r,
                                  outcome |-> outcome, values |-> values, reasons |-> {},
                                  edited |-> {}]]
  /\ UNCHANGED <<tables, edits>>

FullTextBegin(c, p, r, outcome, values, reasons) ==
  /\ call[c] = NoCall
  /\ FullTextRecord(p, r)
  /\ ValidReasons(p, outcome, values, reasons)
  /\ call' = [call EXCEPT ![c] = [pc |-> "decide", pub |-> p, stage |-> FT, reviewer |-> r,
                                  outcome |-> outcome, values |-> values, reasons |-> reasons,
                                  edited |-> {}]]
  /\ UNCHANGED <<tables, edits>>

(* record_decision reads the publication and the criteria again; a criterion  *)
(* sent by the client must be an active manual one of this stage, and every   *)
(* active required criterion of the stage must come out assessed.             *)
Accepted(q) ==
  LET assessed == Assessed(q.values, Automatic(q.pub, q.stage))
  IN /\ q.pub \in input.pubs
     /\ \A k \in DOMAIN q.values : k \in ActiveCriteria(q.stage) /\ criteria[k].mode = "manual"
     /\ \A k \in ActiveCriteria(q.stage) :
          criteria[k].required => k \in DOMAIN assessed /\ assessed[k] # "not_assessed"

(* The row that is saved, with the snapshot of every assessed criterion; the  *)
(* reasons edited since they were checked are not stored.                     *)
DecisionRow(q) ==
  LET assessed == Assessed(q.values, Automatic(q.pub, q.stage))
  IN [pub |-> q.pub, stage |-> q.stage, reviewer |-> q.reviewer, outcome |-> q.outcome,
      assessed |-> [k \in DOMAIN assessed |-> [value |-> assessed[k], snapshot |-> criteria[k]]],
      reasons |-> q.reasons, edited |-> q.edited, at |-> Now]

DecisionSave(c) ==
  /\ call[c].pc = "decide"
  /\ IF Accepted(call[c])
     THEN /\ Len(decisions) < MaxDecisions
          /\ decisions' = Append(decisions, DecisionRow(call[c]))
     ELSE UNCHANGED decisions
  /\ call' = [call EXCEPT ![c] = NoCall]
  /\ UNCHANGED <<input, roster, criteria, resolutions, availability, edits>>

(* save_availability: the same record check, then an upsert of the status.    *)
AvailabilityBegin(c, p, r, status) ==
  /\ call[c] = NoCall
  /\ FullTextRecord(p, r)
  /\ availability[p] # status
  /\ call' = [call EXCEPT ![c] = [pc |-> "availability", pub |-> p, status |-> status]]
  /\ UNCHANGED <<tables, edits>>

AvailabilitySave(c) ==
  /\ call[c].pc = "availability"
  /\ availability' = [availability EXCEPT ![call[c].pub] = call[c].status]
  /\ call' = [call EXCEPT ![c] = NoCall]
  /\ UNCHANGED <<input, roster, criteria, decisions, resolutions, edits>>

-----------------------------------------------------------------------------
(* Resolving a conflict: the resolver loads it with its key, sends the        *)
(* outcome back with that key, and the handler checks and then inserts.       *)

ConflictLoad(c, p, stage) ==
  /\ call[c] = NoCall
  /\ HasRecord(p, stage) /\ ConflictStatus(p, stage) \in {"conflict", "stale_resolution"}
  /\ call' = [call EXCEPT ![c] = [pc |-> "loaded", pub |-> p, stage |-> stage,
                                  seen |-> DecisionSetKey(p, stage)]]
  /\ UNCHANGED <<tables, edits>>

\* Mutant: the key the resolver sends is not compared.
ResolvableBlind(p, stage, expected) ==
  /\ p \in input.pubs /\ HasActiveRoster(stage) /\ HasRecord(p, stage)
  /\ ConflictStatus(p, stage) \in {"conflict", "stale_resolution"}

Resolvable(p, stage, expected) ==
  /\ p \in input.pubs
  /\ HasActiveRoster(stage)
  /\ HasRecord(p, stage)
  /\ expected = DecisionSetKey(p, stage)
  /\ ConflictStatus(p, stage) \in {"conflict", "stale_resolution"}

ResolveCheck(c, outcome) ==
  /\ call[c].pc = "loaded"
  /\ LET q == call[c]
     IN call' = [call EXCEPT ![c] =
          IF Resolvable(q.pub, q.stage, q.seen)
          THEN [pc |-> "resolve", pub |-> q.pub, stage |-> q.stage, seen |-> q.seen,
                key |-> DecisionSetKey(q.pub, q.stage), outcome |-> outcome,
                links |-> Range(ByReviewer(q.pub, q.stage))]
          ELSE NoCall]
  /\ UNCHANGED <<tables, edits>>

(* seen is what the resolver was shown: it is not stored, the links are.      *)
ResolveSave(c) ==
  /\ call[c].pc = "resolve" /\ Len(resolutions) < MaxResolutions
  /\ resolutions' = Append(resolutions,
       [pub |-> call[c].pub, stage |-> call[c].stage, key |-> call[c].key,
        outcome |-> call[c].outcome, links |-> call[c].links, seen |-> call[c].seen, at |-> Now])
  /\ call' = [call EXCEPT ![c] = NoCall]
  /\ UNCHANGED <<input, roster, criteria, decisions, availability, edits>>

-----------------------------------------------------------------------------
Init ==
  /\ input = [ready |-> TRUE, pubs |-> Pubs]
  /\ roster = [s \in Stages |-> {}]
  /\ criteria = [k \in Criteria |-> NoCriterion]
  /\ decisions = <<>> /\ resolutions = <<>>
  /\ availability = [p \in Pubs |-> "unknown"]
  /\ call = [c \in Clients |-> NoCall]
  /\ edits = 0

Configure ==
  \/ \E k \in Criteria : \/ \E row \in CriterionRows : CriterionCreate(k, row) \/ CriterionUpdate(k, row)
                         \/ CriterionDeactivate(k)
  \/ \E stage \in Stages, active \in SUBSET Reviewers : ReplaceRoster(stage, active)
  \/ \E ready \in BOOLEAN, pubs \in SUBSET Pubs : InputChanges(ready, pubs)

Decide(c) ==
  \/ \E p \in Pubs, r \in Reviewers, o \in Votes, v \in AssessmentInputs :
       \/ TitleAbstractBegin(c, p, r, o, v)
       \/ \E reasons \in SUBSET Criteria : FullTextBegin(c, p, r, o, v, reasons)
  \/ \E p \in Pubs, r \in Reviewers : AvailabilityBegin(c, p, r, "available")
  \/ DecisionSave(c) \/ AvailabilitySave(c)

Resolve(c) ==
  \/ \E p \in Pubs, stage \in Stages : ConflictLoad(c, p, stage)
  \/ \E o \in Votes : ResolveCheck(c, o)
  \/ ResolveSave(c)

Next ==
  \/ Configure
  \/ \E c \in Deciders : Decide(c)
  \/ \E c \in Resolvers : Resolve(c)

Spec == Init /\ [][Next]_vars

-----------------------------------------------------------------------------
(* Reports: read-only views, each computed along a path of its own. *)

Count(ids, outcome) == Cardinality({i \in ids : decisions[i].outcome = outcome})

(* latest: publication -> decision id or 0. *)
Progress(pubs, latest) ==
  LET ids == {latest[p] : p \in pubs} \ {0}
  IN [total |-> Cardinality(pubs), screened |-> Cardinality(ids),
      remaining |-> Cardinality({p \in pubs : latest[p] = 0}),
      included |-> Count(ids, "include"), excluded |-> Count(ids, "exclude"),
      uncertain |-> Count(ids, "uncertain")]

TitleAbstractProgress(r) == Progress(input.pubs, [p \in Pubs |-> FirstListed(p, TA, r)])
FullTextProgress(r) ==
  Progress(EligiblePublications(TA, r), [p \in Pubs |-> FirstListed(p, FT, r)])

(* The reviewer's report: the funnel is always the reviewer's own. *)
Report(r) ==
  LET ta == [p \in Pubs |-> LatestDecision(p, TA, r)]
      ft == [p \in Pubs |-> LatestDecision(p, FT, r)]
      eligible == {p \in input.pubs : ta[p] # 0 /\ decisions[ta[p]].outcome = "include"}
  IN [titleAbstract |-> Progress(input.pubs, ta), fullText |-> Progress(eligible, ft)]

(* The exclusion reasons of every full-text exclusion ever made, by criterion *)
(* snapshot; reading the assessment of a reason that has none raises.         *)
ReasonKeys(i) == {<<k, decisions[i].assessed[k].snapshot>> : k \in decisions[i].reasons}

FullTextExclusions(r) ==
  {i \in DOMAIN decisions : /\ decisions[i].reviewer = r /\ decisions[i].stage = FT
                            /\ decisions[i].outcome = "exclude"}

ReasonCounts(r) ==
  [key \in UNION {ReasonKeys(i) : i \in FullTextExclusions(r)} |->
     Cardinality({i \in FullTextExclusions(r) : key \in ReasonKeys(i)})]

Metrics(stage) ==
  [s \in {"incomplete", "agreement", "conflict", "resolved", "stale_resolution"} |->
     Cardinality(Conflicts(stage, s))]

ProjectSummary(stage) ==
  LET records == {p \in input.pubs : HasRecord(p, stage)}
      final(o) == {p \in records : /\ IsFinal(ProjectOutcome(p, stage))
                                   /\ ProjectOutcome(p, stage).outcome = o}
  IN [total |-> Cardinality(records),
      pending |-> Cardinality({p \in records : ~IsFinal(ProjectOutcome(p, stage))}),
      include |-> Cardinality(final("include")), exclude |-> Cardinality(final("exclude")),
      uncertain |-> Cardinality(final("uncertain"))]

(* One row of the audit: the revision of its reviewer, and whether it is the  *)
(* latest one.                                                                *)
AuditRow(i) ==
  LET d == decisions[i]
      older == {j \in History(d.pub, d.stage, d.reviewer) : j < i}
  IN [revision |-> Cardinality(older) + 1,
      previous |-> IF older = {} THEN "none" ELSE decisions[Max(older)].outcome,
      latest |-> \A j \in History(d.pub, d.stage, d.reviewer) : j <= i]

(* A resolution is current in the audit when it is what resolves its record   *)
(* now, and in a publication's history when its key is the current one.       *)
AuditCurrent(x) ==
  LET v == resolutions[x]
  IN /\ x = LatestResolution(v.pub, v.stage)
     /\ HasRecord(v.pub, v.stage) /\ ConflictStatus(v.pub, v.stage) = "resolved"

HistoryCurrent(x) ==
  HasRecord(resolutions[x].pub, resolutions[x].stage)
  /\ resolutions[x].key = DecisionSetKey(resolutions[x].pub, resolutions[x].stage)

-----------------------------------------------------------------------------
(* The status of the workflow, from counts of the current publications.       *)

InputPublications == IF input.ready THEN input.pubs ELSE {}

StageCounts(stage, r) ==
  LET having(S) == Cardinality(UNION {Conflicts(stage, s) : s \in S})
  IN IF HasActiveRoster(stage)
     THEN [evaluated |-> having({"agreement", "resolved"}), conflict |-> having({"conflict"}),
           stale |-> having({"stale_resolution"})]
     ELSE [evaluated |-> Cardinality({p \in InputPublications : LatestDecision(p, stage, r) # 0}),
           conflict |-> 0, stale |-> 0]

TitleAbstractStatus(r) ==
  LET n == StageCounts(TA, r)
  IN IF n.stale > 0 THEN "stale_resolution"
     ELSE IF n.conflict > 0 THEN "unresolved_conflict"
     ELSE IF n.evaluated = 0 THEN "not_started"
     ELSE IF n.evaluated < Cardinality(InputPublications) THEN "in_progress" ELSE "completed"

FullTextStatus(r) ==
  LET ta == TitleAbstractStatus(r)
      n == StageCounts(FT, r)
      eligible == Cardinality(EligiblePublications(TA, r))
  IN IF ta \in {"unresolved_conflict", "stale_resolution"} THEN ta
     ELSE IF ta # "completed" /\ eligible = 0 THEN "waiting_for_title_abstract"
     ELSE IF n.stale > 0 THEN "stale_resolution"
     ELSE IF n.conflict > 0 THEN "unresolved_conflict"
     ELSE IF n.evaluated = 0 THEN "ready"
     ELSE IF n.evaluated < eligible THEN "in_progress" ELSE "completed"

QualityStatus(r) == IF FullTextStatus(r) = "completed" THEN "ready" ELSE "waiting_for_full_text"

-----------------------------------------------------------------------------
(* Properties. *)

DecisionRows ==
  [pub : Pubs, stage : Stages, reviewer : Reviewers, outcome : Outcomes,
   assessed : UNION {[S -> [value : AssessmentValues, snapshot : CriterionRows
                              \cup {Deactivated(c) : c \in CriterionRows}]] : S \in SUBSET Criteria},
   reasons : SUBSET Criteria, edited : SUBSET Criteria, at : Nat \ {0}]

(* Every table holds rows the domain's validators accept: only valid criteria, *)
(* decisions by known reviewers, resolutions linked to existing decisions.     *)
TypeOK ==
  /\ input.ready \in BOOLEAN /\ input.pubs \subseteq Pubs
  /\ roster \in [Stages -> SUBSET Reviewers]
  /\ \A k \in Criteria : criteria[k] # NoCriterion => ValidCriterion(criteria[k])
  /\ \A i \in DOMAIN decisions : decisions[i] \in DecisionRows
  /\ \A x \in DOMAIN resolutions : /\ resolutions[x].outcome \in Outcomes
                                   /\ resolutions[x].links \subseteq DOMAIN decisions
  /\ availability \in [Pubs -> Statuses]
  /\ edits \in 0 .. MaxEdits

(* A conflict counts as resolved only by a resolution made on exactly the      *)
(* decisions that are now the latest of every expected reviewer, which the     *)
(* resolver was shown and which disagree - whatever decisions and roster       *)
(* changes ran between loading, checking and inserting.                        *)
ResolvedIsWhatWasSeen ==
  \A p \in Pubs, stage \in Stages :
    HasRecord(p, stage) /\ ConflictStatus(p, stage) = "resolved" =>
      LET x == resolutions[LatestResolution(p, stage)]
      IN /\ DOMAIN x.seen.latest = Expected(p, stage)
         /\ \A r \in Expected(p, stage) : x.seen.latest[r][1] = LatestDecision(p, stage, r)
         /\ x.links = {LatestDecision(p, stage, r) : r \in Expected(p, stage)}
         /\ Cardinality(OutcomesOf(x.links)) > 1

(* Full-text work - a decision, or a note about availability - is only ever    *)
(* done on a publication that a reviewer had included on title and abstract,   *)
(* or that a resolution had included: whatever rosters and votes change        *)
(* between the check and the save, nobody screens a publication nobody let in. *)
IncludedBefore(p, t) ==
  \/ \E j \in DOMAIN decisions : /\ decisions[j].at < t /\ decisions[j].pub = p
                                 /\ decisions[j].stage = TA /\ decisions[j].outcome = "include"
  \/ \E x \in DOMAIN resolutions : /\ resolutions[x].at < t /\ resolutions[x].pub = p
                                   /\ resolutions[x].stage = TA /\ resolutions[x].outcome = "include"

FullTextFollowsInclude ==
  /\ \A i \in DOMAIN decisions :
       decisions[i].stage = FT => IncludedBefore(decisions[i].pub, decisions[i].at)
  /\ \A p \in Pubs : availability[p] # "unknown" => IncludedBefore(p, Now)

(* Every exclusion reason that is stored refers to an assessment in the same   *)
(* decision, one that explains an exclusion, whatever else is edited, voted or *)
(* resolved between the check of the reasons and the save, which evaluates the *)
(* criteria again on a connection of its own.  Only an edit of that very       *)
(* criterion in between breaks it, as nothing looks at the reasons again.      *)
ReasonIsAssessed ==
  \A i \in DOMAIN decisions : \A k \in decisions[i].reasons \ decisions[i].edited :
    /\ k \in DOMAIN decisions[i].assessed
    /\ LET a == decisions[i].assessed[k]
       IN <<a.snapshot.type, a.value>> \in {<<"inclusion", "not_met">>, <<"exclusion", "met">>}

(* The views agree although each finds the latest decision its own way: the    *)
(* overview and the report, the project summary and the queue of full text,    *)
(* the metrics and the summary, the audit and the history, the status of the   *)
(* workflow and the progress; and the funnel of a reviewer narrows at every    *)
(* stage.  Only the tables matter, and a request has not touched them before   *)
(* its last step: without it the same tables are there with no request in      *)
(* flight, and those states are the ones looked at.                            *)
ReportsAgree ==
  input.ready /\ (\A c \in Clients : call[c] = NoCall) =>
    /\ \A r \in Reviewers :
         LET report == Report(r)
         IN /\ report.titleAbstract = TitleAbstractProgress(r)
            /\ ~HasActiveRoster(TA) => report.fullText = FullTextProgress(r)
            /\ report.fullText.total = report.titleAbstract.included
            /\ \A p \in Pubs : ~HasActiveRoster(TA) =>
                 (p \in EligiblePublications(TA, r)
                    <=> p \in input.pubs /\ OutcomeFor(p, TA, r).outcome = "include")
            /\ HasActiveRoster(TA) =>
                 /\ Cardinality(EligiblePublications(TA, r)) = ProjectSummary(TA).include
                 /\ Cardinality(ExcludedPublications(TA, r)) = ProjectSummary(TA).exclude
            /\ (\A i \in FullTextExclusions(r) : decisions[i].reasons \subseteq DOMAIN decisions[i].assessed) =>
                 MapThenSumSet(LAMBDA key : ReasonCounts(r)[key], DOMAIN ReasonCounts(r)) =
                   MapThenSumSet(LAMBDA i : Cardinality(decisions[i].reasons), FullTextExclusions(r))
    /\ \A r \in Reviewers :
         LET counts == StageCounts(TA, r)
         IN /\ ~HasActiveRoster(TA) => counts.evaluated = TitleAbstractProgress(r).screened
            /\ HasActiveRoster(TA) =>
                 counts.evaluated = ProjectSummary(TA).total - ProjectSummary(TA).pending
            /\ ~HasActiveRoster(FT) =>
                 /\ StageCounts(FT, r).evaluated >= FullTextProgress(r).screened
                 /\ StageCounts(FT, r).evaluated >= Cardinality(EligiblePublications(FT, r))
            /\ QualityStatus(r) = "ready" =>
                 StageCounts(FT, r).conflict + StageCounts(FT, r).stale = 0
    /\ \A stage \in Stages :
         ProjectSummary(stage).pending =
           Metrics(stage)["incomplete"] + Metrics(stage)["conflict"] + Metrics(stage)["stale_resolution"]
    /\ \A i \in DOMAIN decisions :
         AuditRow(i).latest <=> i \in LatestAll(decisions[i].pub, decisions[i].stage)
    /\ \A x \in DOMAIN resolutions : AuditCurrent(x) => HistoryCurrent(x)

(* Full text is completed when every publication that title and abstract let   *)
(* in has a full-text outcome; quality assessment waits for it.                *)
CompletedMeansScreened ==
  \A r \in Reviewers : FullTextStatus(r) = "completed" =>
    \A p \in EligiblePublications(TA, r) : IsFinal(OutcomeFor(p, FT, r))

(* The studies included in the synthesis are among the records screened at     *)
(* full text, as the flow diagram draws them.                                  *)
IncludedWasScreened ==
  \A r \in Reviewers : Cardinality(EligiblePublications(FT, r)) <= StageCounts(FT, r).evaluated

===============================================================================
