----------------------------- MODULE ImportAccounts -----------------------------
(***************************************************************************)
(* What the project reports of its imports: the summary of its sources, the*)
(* detail of an import under review, the duplicate groups and whether they *)
(* block screening, the PRISMA accounting and flow diagram, the accounting *)
(* of the recovery tool, and the integrity audit.  Each of them counts rows*)
(* of several tables that the actions of Imports change one by one.        *)
(***************************************************************************)
EXTENDS Imports

SkipsOf(i, match) == {s \in skips : s.import = i /\ s.match = match}
Audited(i) == SourcesOf(i) # {} \/ \E s \in skips : s.import = i

\* Repeated occurrences are audited but not persisted twice.
Occurrences(i) == Cardinality(SourcesOf(i)) + Cardinality(SkipsOf(i, "repeated_occurrence"))

----------------------------------------------------------------------------
(* The list of imports, the detail of one, and the summary of a source *)

ReviewStatus(i) ==
  IF i \in DOMAIN reviews THEN reviews[i]
  ELSE IF history[i].status = "success" THEN "not_required" ELSE "pending"

EffectiveStatus(i) ==
  IF i \notin DOMAIN reviews THEN history[i].status
  ELSE IF reviews[i] = "accepted" THEN "success" ELSE "rejected"

ActiveImports == {i \in Imported : EffectiveStatus(i) # "rejected"}

Detail(i) ==
  [review_status |-> ReviewStatus(i), effective_status |-> EffectiveStatus(i),
   can_accept |-> Reviewable(i), can_reject |-> Reviewable(i) /\ ~ Blocked(i),
   source_record_count |-> Occurrences(i), canonical_publication_count |-> history[i].count,
   exact_doi |-> Cardinality(SkipsOf(i, "exact_doi"))]

\* How far the recovery of an import's records has come.
RecoveryStatus(i) ==
  LET given == SourcesOf(i) \cap DOMAIN approvals
      executed == {o \in given : approvals[o] = "executed"}
  IN IF SourcesOf(i) = {} THEN None
     ELSE IF executed # {} THEN (IF executed = given THEN "recovered" ELSE "partially_recovered")
     ELSE IF given # {} THEN "approved_pending_execution" ELSE "not_started"

SourceSummary(label) ==
  LET mine == {i \in ActiveImports : history[i].label = label}
      having(status) == Cardinality({i \in mine : EffectiveStatus(i) = status})
  IN [successful |-> having("success"), warning |-> having("warning"), failed |-> having("failed"),
      records_added |-> MapThenSumSet(LAMBDA i : history[i].count,
                                      {i \in mine : EffectiveStatus(i) \in {"success", "warning"}})]

Summaries ==
  [total_records |-> Cardinality(DOMAIN rows),
   sources |-> [l \in {history[i].label : i \in ActiveImports} |-> SourceSummary(l)]]

----------------------------------------------------------------------------
(* Duplicate groups: the candidates, and merges that are no candidate now *)

GroupStatus(g) ==
  IF g \in MergedGroups THEN "merged"
  ELSE IF g \in DOMAIN decided THEN decided[g] ELSE "pending"

GroupList == [g \in Candidates \cup MergedGroups |-> GroupStatus(g)]

Readiness ==
  LET list == GroupList
      having(status) == Cardinality({g \in DOMAIN list : list[g] = status})
  IN [pending |-> having("pending"), unmerged |-> having("approve"), merged |-> having("merged"),
      rejected |-> having("reject"), total |-> Cardinality(DOMAIN list)]

----------------------------------------------------------------------------
(* PRISMA *)

Identified(i) == IF Audited(i) THEN Occurrences(i) ELSE history[i].count

IdentifiedBy(kind) ==
  MapThenSumSet(Identified, {i \in Imported : history[i].kind = kind /\ history[i].status # "failed"})

RejectedImportRemoved == MapThenSumSet(Identified, Rejected)
RemovedRows == {r \in DOMAIN rows : rows[r].status = "removed"}
RemovedPrescreening == Cardinality(DOMAIN archive) + Cardinality(RemovedRows) + RejectedImportRemoved

\* A publication that is not superseded and that no source record names.
WithoutSource ==
  {r \in Live(rows) : \A o \in DOMAIN sources : sources[o].canonical # r}

SkipCount(match) == Cardinality({s \in skips : s.match = match})

SourceAccounting ==
  [identified |-> Cardinality(DOMAIN sources) + SkipCount("repeated_occurrence"),
   persisted |-> Cardinality(DOMAIN sources), exact |-> SkipCount("exact_doi"),
   repeated |-> SkipCount("repeated_occurrence"),
   recovered |-> Cardinality({o \in DOMAIN sources : sources[o].status = "recovered"}),
   canonical |-> Cardinality(Corpus(rows)), historical |-> Cardinality(WithoutSource)]

MergedDuplicates == MapThenSumSet(LAMBDA m : Cardinality(m.members) - 1, merges)

Metrics ==
  [identified |-> IdentifiedBy("provider") + IdentifiedBy("file"),
   before_dedup |-> Cardinality(DOMAIN rows) - Cardinality(RemovedRows),
   removed_prescreening |-> RemovedPrescreening, after_dedup |-> Cardinality(Corpus(rows)),
   merged_duplicates |-> MergedDuplicates, sources |-> SourceAccounting, groups |-> Readiness]

\* The boxes of the identification stage.
FlowBoxes(metrics, duplicates) ==
  [databases |-> IdentifiedBy("provider"), other_methods |-> IdentifiedBy("file"),
   after_deduplication |-> metrics.after_dedup, removed |-> metrics.removed_prescreening,
   duplicates_removed |-> IF duplicates # 0 THEN duplicates
                          ELSE metrics.before_dedup - metrics.after_dedup]

FlowOf(metrics) ==
  FlowBoxes(metrics, metrics.sources.exact + metrics.sources.repeated + metrics.merged_duplicates)

FlowModel == FlowOf(Metrics)

\* The recovery tool counts from the tables, and takes every publication that
\* is not superseded for an active one.
PrismaReconciliation == [SourceAccounting EXCEPT !.canonical = Cardinality(Live(rows))]

----------------------------------------------------------------------------
(* Integrity audit.  A merge whose members are not all there is not looked  *)
(* at further.                                                              *)

MergeErrors(m) ==
  IF ~ (m.members \subseteq DOMAIN rows) THEN {"member_missing"}
  ELSE {e \in {"canonical_superseded", "supersession_invalid"} :
         IF e = "canonical_superseded" THEN rows[m.canonical].superseded # None
         ELSE \E r \in m.members \ {m.canonical} : rows[r].superseded # m.canonical}

SupersessionErrors(r) ==
  LET s == rows[r].superseded
  IN IF s = None THEN {}
     ELSE IF s = r THEN {"self"}
     ELSE IF s \notin DOMAIN rows THEN {"broken"}
     ELSE IF rows[s].superseded # None THEN {"chain"} ELSE {}

\* The groups the audit builds: records that share an identifier.
AuditGroups == IdentifierGroups(rows, Corpus(rows))

\* Publications without provenance, and members of these groups outside the
\* corpus.
CollectionErrors ==
  {e \in {"provenance_missing", "candidate_member_missing"} :
     IF e = "provenance_missing" THEN \E r \in DOMAIN rows : rows[r].prov = {}
     ELSE \E g \in AuditGroups : ~ (g \subseteq Corpus(rows))}

AuditErrors ==
  CollectionErrors
    \cup UNION ({MergeErrors(m) : m \in merges} \cup {SupersessionErrors(r) : r \in DOMAIN rows})

\* A decision on a group of equal or similar titles is orphaned to the audit
\* even while duplicate review lists the group.
AuditWarnings ==
  LET imported == MapThenSumSet(LAMBDA i : history[i].count, {i \in Imported : history[i].status # "failed"})
      wrong == [record_count_mismatch |-> Imported # {} /\ imported # Cardinality(DOMAIN rows),
                normalization_count_mismatch |-> normalized \notin {None, Cardinality(Corpus(rows))},
                decision_orphaned |-> ~ (DOMAIN decided \subseteq AuditGroups \cup MergedGroups)]
  IN {w \in DOMAIN wrong : wrong[w]}

----------------------------------------------------------------------------
(* Properties *)

\* The entries of a file: its TY lines, or the @ signs outside braces that do
\* not start a comment.
Entries(format, c) ==
  LET count(k, n) == Cardinality({i \in 1..n : c[i].kind = k})
  IN IF format = "ris" THEN Cardinality({i \in DOMAIN c : c[i].kind = "tag" /\ c[i].tag = "TY"})
     ELSE Cardinality({i \in DOMAIN c : /\ c[i].kind = "at" /\ c[i + 1].word # "comment"
                                        /\ count("open", i) = count("close", i)})

\* Every entry of an imported file is accounted for, as a source record or a
\* repeated occurrence; so are all publications of the sources summary, until a
\* merge changes the identifier a record is imported again by.
EntriesAreCounted ==
  /\ \A i \in Imported : history[i].file # None =>
       /\ history[i].status # "failed" => Occurrences(i) = Entries(history[i].label, Files[history[i].file].content)
       /\ Identified(i) = Occurrences(i)
  /\ IdentifiedBy("provider") + IdentifiedBy("file") + Cardinality(SourcesOf(NoImport))
       = SourceAccounting.identified
  /\ merges = {} /\ reconciled = {} =>
       LET summaries == Summaries
       IN summaries.total_records = Cardinality(RecoveredRecords)
            + MapThenSumSet(LAMBDA l : summaries.sources[l].records_added, DOMAIN summaries.sources)

\* The flow diagram balances, and agrees with the recovery tool, as long as no
\* import was rejected, no record removed or reconciled, no import held a
\* provider's record twice or again with other bibliographic data, and none
\* made a publication of a record that it counts as repeated, which it does
\* when merges have changed the identifier of its publication twice.
ImportedOnce ==
  /\ SkipCount("provider_key_duplicate") = 0
  /\ \A o, q \in DOMAIN sources :
       sources[o].status = "imported" /\ sources[q].status = "imported"
         /\ sources[q].canonical = sources[o].canonical => q = o
  /\ merges # {} => \A r \in DOMAIN rows :
       \E o \in DOMAIN sources : sources[o].canonical = r /\ sources[o].status # "linked"

Balanced(flow, removed) ==
  flow.databases + flow.other_methods + Cardinality(SourcesOf(NoImport))
    = flow.after_deduplication + flow.duplicates_removed + removed

FlowBalances ==
  Rejected = {} /\ touched = {} /\ reconciled = {} /\ ImportedOnce =>
    /\ Balanced(FlowModel, 0)
    /\ PrismaReconciliation = SourceAccounting

\* The reports on the imports of a project agree with its tables and with each
\* other: no entry of a file is lost between the parser, the source records,
\* the skip audit and the accounting, whatever order files, searches, merges
\* and recoveries come in; and a merged group is no candidate again.
AccountsAgree ==
  exists /\ LegacyRows = <<>> =>
    /\ EntriesAreCounted /\ FlowBalances
    /\ reconciled = {} => Candidates \cap MergedGroups = {}

\* As long as nothing was reconciled, the integrity audit finds no error on
\* merges but those of a canonical publication that was merged again: an
\* import, a rejection, a recovery or a removal never breaks a merge.  It warns
\* of the number of publications only after a rejection, a recovery, or a merge
\* whose records may be imported again, and of a stale normalization only after
\* a merge, a removal or a recovery.
AuditFindsOnlyChains ==
  exists /\ reconciled = {} =>
    /\ AuditErrors \in {{}, {"canonical_superseded", "chain"}}
    /\ "record_count_mismatch" \in AuditWarnings =>
         Rejected # {} \/ RecoveredRecords # {} \/ merges # {} \/ LegacyRows # <<>>
    /\ "normalization_count_mismatch" \in AuditWarnings =>
         merges # {} \/ touched # {} \/ RecoveredRecords # {}

\* A removed publication counts once as removed before screening, as the test
\* of the removal workflow asserts.
RemovedCountedOnce ==
  exists => RemovedPrescreening = Cardinality(DOMAIN archive \cup RemovedRows) + RejectedImportRemoved

\* The identified records are the remaining and the removed ones, as a PRISMA
\* flow diagram has it.
FlowAlwaysBalances == exists => Balanced(FlowModel, FlowModel.removed)

\* The integrity audit permits no chain of supersessions.
AuditHasNoErrors == exists => AuditErrors = {}

================================================================================
