-------------------------------- MODULE Imports --------------------------------
(***************************************************************************)
(* How publications enter a project and leave it again: a search keeps its *)
(* results as snapshots, an import turns snapshots or the records of a file*)
(* into publications and leaves a source record or a skip audit for each of*)
(* them, a warning import is accepted or rejected, and the records of a    *)
(* rejected one can be recovered.  Duplicate review, pre-screening and the *)
(* later stages are what a rejection looks at of them.                     *)
(*                                                                         *)
(* Every action is one transaction of the code; a request that imports the *)
(* results of several providers is one action for each of them.  Recovery  *)
(* is run by an operator with the server stopped.                          *)
(***************************************************************************)
EXTENDS ImportDomain

CONSTANTS
  Hits,          \* Hits[p]: result lists provider p may answer with
  Query,         \* the canonical query
  Files,         \* [name, format, content]: files a user can upload
  ValidDois,     \* DOI values the normalisation accepts
  LegacyRows,    \* rows from before publications named their import
  MaxBatch,      \* bound on the records of one provider import
  MaxImports,    \* bound on the import history
  MaxOps         \* bound on the operations

Providers == DOMAIN Hits
NoImport == 0

\* The rows of an earlier version are rows, of no import and not merged.
IsLegacyRow(row) ==
  /\ row = [lead |-> row.lead, prov |-> row.prov, doi |-> row.doi, work |-> row.work,
            import |-> NoImport, superseded |-> None, status |-> "retained"]
  /\ row.lead \in row.prov

\* A provider answers with a sequence of publications, and a file is a sequence
\* of lines or tokens; nothing that can be the id of a row is None.
ASSUME ImportsAssumption ==
  /\ {MaxBatch, MaxImports, MaxOps} \subseteq Nat
  /\ IsFiniteSet(Providers) /\ Providers \cap FileLabels = {} /\ "file" \notin Providers \cup FileLabels
  /\ \A p \in Providers : \A h \in Hits[p] : h \in Seq(ToSet(h)) /\ \A d \in ToSet(h) : IsPublication(d)
  /\ \A f \in DOMAIN Files :
       /\ Files[f].format \in FileLabels
       /\ Files[f].content \in Seq(ToSet(Files[f].content))
       /\ Files[f].format = "ris" =>
            \A line \in ToSet(Files[f].content) :
              line.kind \in {"tag", "text", "malformed", "ignored"} /\ line.value \in Seq(ToSet(line.value))
  /\ IsFiniteSet(DOMAIN LegacyRows) /\ LegacyRows = [r \in DOMAIN LegacyRows |-> LegacyRows[r]]
  /\ \A r \in DOMAIN LegacyRows : r # None /\ r[1] \in Providers /\ IsLegacyRow(LegacyRows[r])

\* No record of a RIS file is None, which says that none is open.
ASSUME OpenRecordAssumption ==
  \A f \in DOMAIN Files : Files[f].format = "ris" =>
    LET lines == ToSet(Files[f].content)
        words == UNION {ToSet(line.value) : line \in lines}
    IN \A S \in SUBSET ({line.tag : line \in lines} \cup {"TY"}) : None \notin [S -> Seq(Seq(words))]

VARIABLES
  exists,        \* the row of the project
  snapshots,     \* search_result_snapshots
  rows,          \* project_publications
  history,       \* import_history; an import is its place in it
  sources,       \* import_source_records, by source occurrence
  skips,         \* import_skip_audit
  reviews,       \* import_review_decisions
  decided,       \* duplicate_review_decisions: the decision on a group
  observed,      \* duplicate_candidate_group_snapshots
  merges,        \* duplicate_group_merges
  archive,       \* pre_screening_archive: the row as it was removed
  touched,       \* rows with a pre-screening decision
  used,          \* rows later stages refer to
  approvals,     \* import_recovery_approvals, and whether they were executed
  reconciled,    \* corpus_reconciliation_runs: <<import, rows>>
  normalized,    \* normalization_executions: the records it processed
  ops            \* operations so far

review == <<decided, observed, merges>>
prescreening == <<archive, touched, used>>
vars ==
  <<exists, snapshots, rows, history, sources, skips, reviews, review, prescreening, approvals, reconciled, normalized, ops>>

Imported == DOMAIN history
Rejected == {i \in DOMAIN reviews : reviews[i] = "rejected"}
Owned(i) == {r \in DOMAIN rows : rows[r].import = i}
SourcesOf(i) == {o \in DOMAIN sources : sources[o].import = i}
RecoveredRecords == {o \in DOMAIN sources : sources[o].status = "recovered"}

Tick == exists /\ ops < MaxOps /\ ops' = ops + 1

\* The entries of f, and those of g under other keys.
Written(f, g) == [x \in DOMAIN f \cup DOMAIN g |-> IF x \in DOMAIN f THEN f[x] ELSE g[x]]

SourceRecord(i, canonical, status) == [import |-> i, canonical |-> canonical, status |-> status]
Skip(i, o, match) == [import |-> i, occ |-> o, match |-> match]
HistoryEntry(kind, label, file, count, status) ==
  [kind |-> kind, label |-> label, file |-> file, count |-> count, status |-> status]

\* New publications have not been normalized.
ForgetNormalization(changed) == normalized' = IF changed THEN None ELSE normalized

\* Every change of the active publications records the groups it produces.
Materialize ==
  observed' = observed \cup BuildGroups(rows', Corpus(rows')) \cup {m.members : m \in merges'}

----------------------------------------------------------------------------
(* Search *)

\* The providers of the request answer or fail; every merged result that can
\* match the query is kept.
Search ==
  /\ Tick
  /\ \E ps \in SUBSET Providers \ {{}} :
       \E answer \in [ps -> (UNION {Hits[p] : p \in Providers}) \cup {None}] :
         /\ \A p \in ps : answer[p] \in Hits[p] \cup {None}
         /\ LET order == SetToSeq(ps)
                found == SearchResults(Query,
                           [i \in DOMAIN order |->
                              [provider |-> order[i], failed |-> answer[order[i]] = None,
                               hits |-> answer[order[i]]]])
            IN snapshots' = snapshots \cup found
  /\ UNCHANGED <<exists, rows, history, sources, skips, reviews, review, prescreening, approvals, reconciled, normalized>>

----------------------------------------------------------------------------
(* Imports *)

Keys == {rows[r].lead : r \in DOMAIN rows}

\* The fingerprint covers the bibliographic record, not its provenance; the
\* leading key stands for the identifier the provider gives the record.
Fingerprint(d) == <<d.prov[1], d.doi, d.work, d.text.abstract>>

NewRow(lead, prov, doi, work, i) ==
  [lead |-> lead, prov |-> prov, doi |-> doi, work |-> work, import |-> i,
   superseded |-> None, status |-> "retained"]

\* A row that is inserted again keeps its import, its status and its place in
\* a merge, and gets the document of the import.
Upserted(old, new) ==
  [r \in DOMAIN old \cup DOMAIN new |->
     IF r \in DOMAIN old \cap DOMAIN new
     THEN [new[r] EXCEPT !.superseded = old[r].superseded, !.status = old[r].status,
                         !.import = IF old[r].import = NoImport THEN @ ELSE old[r].import]
     ELSE IF r \in DOMAIN new THEN new[r] ELSE old[r]]

\* The positions of a batch whose provider key no row leads with.
Inserted(batch) ==
  {n \in DOMAIN batch : batch[n].prov[1] \notin Keys \cup {batch[m].prov[1] : m \in 1..(n - 1)}}

RowOf(d) == d.prov[1]

ProviderSource(now, batch, n, i) ==
  LET d == batch[n]
      fresh == RowOf(d) \in {RowOf(batch[m]) : m \in Inserted(batch)}
      owners == DoiOwners(now, d.doi)
      holders == {r \in DOMAIN now : now[r].lead = d.prov[1]}
  IN IF fresh THEN {SourceRecord(i, RowOf(d), "imported")}
     ELSE {SourceRecord(i, Canonical(now, r), "linked") : r \in owners}
          \cup {SourceRecord(i, r, "linked") : r \in IF owners = {} THEN holders ELSE {}}

\* import_search_results, for one provider of the request.
ImportProvider(p, batch) ==
  LET i == Len(history) + 1
      occ(n) == Occurrence(p, "provider", [m \in DOMAIN batch |-> Fingerprint(batch[m])], n)
      new == {n \in DOMAIN batch : occ(n) \notin DOMAIN sources}
      now == Upserted(rows, [r \in {RowOf(batch[n]) : n \in Inserted(batch)} |->
               LET d == batch[CHOOSE n \in Inserted(batch) : RowOf(batch[n]) = r]
               IN NewRow(d.prov[1], ToSet(d.prov), d.doi, d.work, i)])
  IN /\ Tick /\ i <= MaxImports
     /\ rows' = now
     /\ \E src \in [{occ(n) : n \in new} -> UNION {ProviderSource(now, batch, n, i) : n \in new}] :
          /\ \A n \in new : src[occ(n)] \in ProviderSource(now, batch, n, i)
          /\ sources' = Written(src, sources)
          /\ skips' = skips
               \cup {Skip(i, occ(n), "repeated_occurrence") : n \in DOMAIN batch \ new}
               \cup {Skip(i, occ(n), IF DoiOwners(now, batch[n].doi) # {} THEN "exact_doi" ELSE "provider_key_duplicate") :
                       n \in {m \in new : src[occ(m)].status = "linked"}}
     /\ history' = Append(history, HistoryEntry("provider", p, None, Cardinality(Inserted(batch)), "success"))
     /\ ForgetNormalization(Inserted(batch) # {})
     /\ UNCHANGED <<exists, snapshots, reviews, decided, merges, prescreening, approvals, reconciled>>
     /\ Materialize

ImportResults ==
  \E p \in Providers : LET own == {d \in snapshots : d.prov[1][1] = p} IN
    \E k \in 1..MaxBatch : \E batch \in [1..k -> own] : ImportProvider(p, batch)

\* What the files give: their records with occurrence, DOI, title and key.  The
\* fingerprint of a record of a file is a hash of the record as parsed.
Formats == INSTANCE FileFormats

RawRecords(reads) == SetToSeq(UNION {ToSet(reads[f].raw) : f \in DOMAIN reads})
RawFingerprints(read, raws) ==
  [n \in DOMAIN read.docs |-> CHOOSE h \in DOMAIN raws : raws[h] = read.raw[n]]

Upload(file, read, fingerprints) ==
  [ok |-> read.ok, format |-> file.format,
   entries |-> [n \in DOMAIN read.docs |->
     [occ |-> Occurrence(file.format, file.name, fingerprints, n), doi |-> read.docs[n].doi,
      work |-> read.docs[n].title, key |-> <<file.format, read.docs[n].key>>]]]

UploadsOf(files, reads, raws) ==
  [f \in DOMAIN files |-> Upload(files[f], reads[f], RawFingerprints(reads[f], raws))]

Uploaded(files, reads) == UploadsOf(files, reads, RawRecords(reads))

Uploads == Uploaded(Files, [f \in DOMAIN Files |-> Formats!ReadFile(Files[f])])

Records(f) == DOMAIN Uploads[f].entries

\* File rows are numbered by import and place in the file.
FileRow(i, n) == <<"file", i, n>>

ASSUME IdentifiersAssumption ==
  \A f \in DOMAIN Files : \A n \in Records(f) :
    Uploads[f].entries[n].occ # None /\ \A i \in 1..MaxImports : FileRow(i, n) # None

\* What becomes of the n-th record of a file: repeated when its occurrence is
\* known, linked when its DOI is, to a row of the project or to an earlier
\* record of the file, and otherwise a new row.
Repeated(es) == {n \in DOMAIN es : es[n].occ \in DOMAIN sources}
OwnersOf(e) == DoiOwners(rows, e.doi)
EarlierInFile(es, n) ==
  {m \in 1..(n - 1) \ Repeated(es) : Valid(es[n].doi) /\ es[m].doi = es[n].doi}
NewInFile(es) ==
  {n \in DOMAIN es \ Repeated(es) : OwnersOf(es[n]) = {} /\ EarlierInFile(es, n) = {}}

\* A row of a file has the DOI, the citation key or the title as its provenance.
RowOfEntry(e, i) == NewRow(e.key, {e.key}, e.doi, e.work, i)

LinkTargets(es, n, i) ==
  IF OwnersOf(es[n]) # {} THEN {Canonical(rows, r) : r \in OwnersOf(es[n])}
  ELSE {FileRow(i, CHOOSE m \in EarlierInFile(es, n) : \A k \in EarlierInFile(es, n) : m <= k)}

\* A record without a valid DOI whose title another record has.
TitleCandidate(es, n) ==
  /\ ~ Valid(es[n].doi)
  /\ \/ \E r \in DOMAIN rows : rows[r].work = es[n].work
     \/ \E m \in DOMAIN es \ {n} : es[m].work = es[n].work

ImportEntries(f, format, es) ==
  LET i == Len(history) + 1
      linked == DOMAIN es \ (Repeated(es) \cup NewInFile(es))
      warns == \/ linked # {} \/ Repeated(es) # {}
               \/ \E n \in NewInFile(es) : TitleCandidate(es, n)
               \/ \E n \in DOMAIN es : es[n].doi = Bad
  IN /\ rows' = Written([r \in {FileRow(i, n) : n \in NewInFile(es)} |-> RowOfEntry(es[r[3]], i)], rows)
     /\ \E target \in [linked -> UNION {LinkTargets(es, n, i) : n \in linked}] :
          /\ \A n \in linked : target[n] \in LinkTargets(es, n, i)
          /\ sources' = Written([o \in {es[n].occ : n \in linked \cup NewInFile(es)} |->
               LET n == CHOOSE m \in DOMAIN es : es[m].occ = o
               IN IF n \in linked THEN SourceRecord(i, target[n], "linked")
                  ELSE SourceRecord(i, FileRow(i, n), "imported")], sources)
     /\ skips' = skips
          \cup {Skip(i, es[n].occ, "repeated_occurrence") : n \in Repeated(es)}
          \cup {Skip(i, es[n].occ, "exact_doi") : n \in linked}
     /\ history' = Append(history, HistoryEntry("file", format, f, Cardinality(NewInFile(es)),
                                                IF warns THEN "warning" ELSE "success"))
     /\ ForgetNormalization(NewInFile(es) # {})
     /\ UNCHANGED <<exists, snapshots, reviews, decided, merges, prescreening, approvals, reconciled>>
     /\ Materialize

ImportUpload(f, upload) == upload.ok /\ ImportEntries(f, upload.format, upload.entries)

ImportFile(f) == Tick /\ Len(history) < MaxImports /\ ImportUpload(f, Uploads[f])

\* A file that cannot be read leaves only a failed import.
FailUpload(f) ==
  /\ Tick /\ Len(history) < MaxImports /\ ~ Uploads[f].ok
  /\ history' = Append(history, HistoryEntry("file", Files[f].format, f, 0, "failed"))
  /\ UNCHANGED <<exists, snapshots, rows, sources, skips, reviews, review, prescreening, approvals, reconciled, normalized>>

\* Looking at the records of an import that owns none claims the rows without
\* an import that name its source in their provenance, either format for a file.
View(i) ==
  /\ Tick /\ Owned(i) = {}
  /\ rows' = [r \in DOMAIN rows |->
       IF rows[r].import = NoImport /\ \E k \in rows[r].prov :
                              k[1] \in (IF history[i].kind = "file" THEN FileLabels ELSE {history[i].label})
       THEN [rows[r] EXCEPT !.import = i] ELSE rows[r]]
  /\ rows' # rows
  /\ UNCHANGED <<exists, snapshots, history, sources, skips, reviews, review, prescreening, approvals, reconciled, normalized>>

----------------------------------------------------------------------------
(* Import review *)

Reviewable(i) == history[i].status = "warning" /\ i \notin DOMAIN reviews

Accept(i) ==
  /\ Tick /\ Reviewable(i)
  /\ reviews' = Put(reviews, i, "accepted")
  /\ UNCHANGED <<exists, snapshots, rows, history, sources, skips, review, prescreening, approvals, reconciled, normalized>>

\* Groups that have a decision, found among the groups of all publications
\* and among the groups ever recorded.
DecidedGroupsNow == DOMAIN decided \cap BuildGroups(rows, DOMAIN rows)

DecidedGroups == DOMAIN decided \cap (observed \cup BuildGroups(rows, DOMAIN rows))

SharedRowsNone(i) == {}

SharedRows(i) ==
  {r \in Owned(i) : \E o \in DOMAIN sources : sources[o].import # i /\ sources[o].canonical = r}

MergedRows(i) ==
  {r \in Owned(i) : \/ \E m \in merges : r \in m.members
                    \/ rows[r].superseded # None
                    \/ \E s \in DOMAIN rows : rows[s].superseded = r}

\* What forbids the rejection of import i.
Blocked(i) ==
  IF Owned(i) = {} THEN SourcesOf(i) = {} /\ history[i].count > 0
  ELSE \/ SharedRows(i) # {}
       \/ SourcesOf(i) \cap DOMAIN approvals # {}
       \/ MergedRows(i) # {}
       \/ \E g \in DecidedGroups : g \cap Owned(i) # {}
       \/ Owned(i) \cap (touched \cup DOMAIN archive \cup used) # {}

\* The rows go, the source records and the skip audit stay.
Reject(i) ==
  /\ Tick /\ Reviewable(i) /\ ~ Blocked(i)
  /\ reviews' = Put(reviews, i, "rejected")
  /\ rows' = Restrict(rows, DOMAIN rows \ Owned(i))
  /\ UNCHANGED <<decided, merges>>
  /\ IF Owned(i) = {} THEN UNCHANGED observed ELSE Materialize
  /\ ForgetNormalization(Owned(i) # {})
  /\ UNCHANGED <<exists, snapshots, history, sources, skips, prescreening, approvals, reconciled>>

----------------------------------------------------------------------------
(* Duplicate review, pre-screening and later stages *)

Candidates == BuildGroups(rows, Corpus(rows))

MergedGroups == {m.members : m \in merges}

DecideGroup(g) ==
  /\ Tick /\ g \in Candidates \ MergedGroups
  /\ \E decision \in {"approve", "reject"} : decided' = Put(decided, g, decision)
  /\ UNCHANGED <<exists, snapshots, rows, history, sources, skips, reviews, observed, merges, prescreening, approvals, reconciled, normalized>>

\* A merge approves the group; the canonical record is the one with the
\* smallest of random ids, any of them.
Merge(g) ==
  /\ Tick /\ g \in Candidates \ MergedGroups /\ Mergeable(rows, g)
  /\ g \in DOMAIN decided => decided[g] = "approve"
  /\ \E c \in g, lead \in UNION {rows[r].prov : r \in g} :
       /\ rows' = [r \in DOMAIN rows |->
                     IF r = c THEN MergedRow(rows, g, c, lead)
                     ELSE IF r \in g THEN [rows[r] EXCEPT !.superseded = c] ELSE rows[r]]
       /\ merges' = merges \cup {[canonical |-> c, members |-> g]}
  /\ decided' = Put(decided, g, "approve")
  /\ UNCHANGED <<exists, snapshots, history, sources, skips, reviews, prescreening, approvals, reconciled, normalized>>
  /\ Materialize

RemoveRecord(r) ==
  /\ Tick /\ r \notin used
  /\ rows' = [rows EXCEPT ![r].status = "removed"]
  /\ archive' = Put(archive, r, rows[r])
  /\ touched' = touched \cup {r}
  /\ UNCHANGED <<exists, snapshots, history, sources, skips, reviews, decided, merges, used, approvals, reconciled, normalized>>
  /\ Materialize

\* A record that was reconciled away comes back from the archive as a new row,
\* unless a row leads with its key; the archive forgets it in any case.
RestoreRecord(i, r) ==
  /\ Tick /\ r \notin used
  /\ rows' = IF r \in DOMAIN rows THEN [rows EXCEPT ![r].status = "retained"]
             ELSE LET d == archive[r] IN
                  IF d.lead \in Keys THEN rows ELSE Put(rows, r, NewRow(d.lead, d.prov, d.doi, d.work, i))
  /\ archive' = Restrict(archive, DOMAIN archive \ {r})
  /\ touched' = touched \cup {r}
  /\ UNCHANGED <<exists, snapshots, history, sources, skips, reviews, decided, merges, used, approvals, reconciled, normalized>>
  /\ Materialize

\* Normalization rewrites the corpus to what the imports made of it already.
Normalize ==
  /\ Tick
  /\ normalized' = Cardinality(Corpus(rows))
  /\ UNCHANGED <<exists, snapshots, rows, history, sources, skips, reviews, decided, merges, prescreening, approvals, reconciled>>
  /\ Materialize

\* Screening and what follows it refer to publications of the corpus.
Use(r) ==
  /\ Tick /\ r \in Corpus(rows) \ used
  /\ used' = used \cup {r}
  /\ UNCHANGED <<exists, snapshots, rows, history, sources, skips, reviews, review, archive, touched, approvals, reconciled, normalized>>

----------------------------------------------------------------------------
(* Recovery: ris_import_reconciliation *)

\* An occurrence that was imported or skipped before is taken at the word of the
\* audit; otherwise a DOI or a title that the publications or the earlier
\* records of the file have decides.
InAudit(e) ==
  \/ e.occ \in DOMAIN sources /\ sources[e.occ].canonical \in DOMAIN rows
  \/ \E s \in skips : s.occ = e.occ

DoiKnown(es, n) ==
  /\ Valid(es[n].doi)
  /\ \/ \E r \in Live(rows) : rows[r].doi = es[n].doi
     \/ \E m \in 1..(n - 1) : es[m].doi = es[n].doi

TitleKnown(es, n) ==
  LET alike(w) == w = es[n].work \/ {w, es[n].work} \in SimilarWorks
  IN \/ \E r \in Live(rows) : alike(rows[r].work)
     \/ \E m \in 1..(n - 1) : alike(es[m].work)

Classification(es, n) ==
  IF InAudit(es[n]) \/ DoiKnown(es, n) THEN "confirmed_duplicate"
  ELSE IF es[n].work = None THEN "insufficient_evidence"
  ELSE IF TitleKnown(es, n) THEN "ambiguous_potential_duplicate"
  ELSE "confirmed_distinct_publication"

\* A reviewer's decision on an occurrence replaces an earlier one, executed or not.
DecideRecovery(f, n) ==
  /\ Tick /\ Files[f].format = "ris"
  /\ \E decision \in {"approved", "rejected"} :
       approvals' = Put(approvals, Uploads[f].entries[n].occ, decision)
  /\ approvals' # approvals
  /\ UNCHANGED <<exists, snapshots, rows, history, sources, skips, reviews, review, prescreening, reconciled, normalized>>

\* The key of a recovered row is its source label and its occurrence.
RecoveredRow(e) ==
  NewRow(<<e.key[1], e.occ>>, {<<e.key[1], e.occ>>}, e.doi, e.work, NoImport)

\* All approvals must be in the report on the file; those of distinct records
\* become rows without an import, whose source record is marked or created.
RecoverEntries(es) ==
  LET approved == {o \in DOMAIN approvals : approvals[o] # "rejected"}
      chosen == {n \in DOMAIN es : /\ es[n].occ \in approved /\ approvals[es[n].occ] = "approved"
                                   /\ Classification(es, n) = "confirmed_distinct_publication"}
      recovered == {es[n].occ : n \in chosen}
      place(o) == CHOOSE n \in chosen : es[n].occ = o
  IN /\ approved \subseteq {es[n].occ : n \in DOMAIN es}
     /\ recovered # {}
     /\ \A n \in chosen : OwnersOf(es[n]) = {}
     /\ rows' = Written([o \in recovered \ DOMAIN rows |-> RecoveredRow(es[place(o)])], rows)
     /\ sources' = Written([o \in recovered |->
                      SourceRecord(IF o \in DOMAIN sources THEN sources[o].import ELSE NoImport, o, "recovered")],
                           sources)
     /\ approvals' = [o \in DOMAIN approvals |-> IF o \in recovered THEN "executed" ELSE approvals[o]]
     /\ UNCHANGED <<exists, snapshots, history, skips, reviews, review, prescreening, reconciled, normalized>>

ExecuteRecovery(f) == Tick /\ RecoverEntries(Uploads[f].entries)

----------------------------------------------------------------------------
(* Reconciliation: an operator deletes rows of one import that pre-screening*)
(* removed, after the archive has them; what was merged into them is active *)
(* again, and nothing else that names them is looked at.                    *)

SameDocument(a, b) == a.lead = b.lead /\ a.prov = b.prov /\ a.doi = b.doi /\ a.work = b.work

Reconcilable(i, R) ==
  R # {} /\ R \cap used = {} /\ \A r \in R : rows[r].import = i /\ rows[r].status = "removed"

\* A request that was executed before changes nothing.
Reconcile(i, R) ==
  /\ Tick /\ Reconcilable(i, R) /\ <<i, R>> \notin reconciled
  /\ \A r \in R \cap DOMAIN archive : SameDocument(archive[r], rows[r])
  /\ archive' = Written(archive, [r \in R |-> rows[r]])
  /\ rows' = [r \in DOMAIN rows \ R |->
                IF rows[r].superseded \in R THEN [rows[r] EXCEPT !.superseded = None] ELSE rows[r]]
  /\ reconciled' = reconciled \cup {<<i, R>>}
  /\ UNCHANGED <<exists, snapshots, history, sources, skips, reviews, review, touched, used, approvals, normalized>>

----------------------------------------------------------------------------
(* Deletion of the project: what names a repository of the deletion goes;  *)
(* the source records, the skip audit, the recorded groups, the archive and*)
(* the approvals are not among them.                                       *)

DeleteProject ==
  /\ Tick
  /\ exists' = FALSE
  /\ rows' = <<>> /\ history' = <<>> /\ reviews' = <<>>
  /\ snapshots' = {} /\ decided' = <<>> /\ merges' = {} /\ touched' = {} /\ used' = {} /\ normalized' = None
  /\ UNCHANGED <<sources, skips, observed, archive, approvals, reconciled>>

----------------------------------------------------------------------------
Init ==
  /\ exists = TRUE /\ snapshots = {} /\ rows = LegacyRows /\ history = <<>>
  /\ sources = <<>> /\ skips = {} /\ reviews = <<>> /\ approvals = <<>>
  /\ decided = <<>> /\ observed = {} /\ merges = {}
  /\ archive = <<>> /\ touched = {} /\ used = {} /\ reconciled = {} /\ normalized = None /\ ops = 0

Next ==
  \/ Search \/ ImportResults \/ Normalize \/ DeleteProject
  \/ \E f \in DOMAIN Files : \/ ImportFile(f) \/ FailUpload(f) \/ ExecuteRecovery(f)
                           \/ \E n \in Records(f) : DecideRecovery(f, n)
  \/ \E i \in Imported : \/ View(i) \/ Accept(i) \/ Reject(i)
                        \/ \E r \in DOMAIN rows \cup DOMAIN archive : RestoreRecord(i, r)
                        \/ \E R \in SUBSET Owned(i) : Reconcile(i, R)
  \/ \E g \in Candidates : DecideGroup(g) \/ Merge(g)
  \/ \E r \in DOMAIN rows : RemoveRecord(r) \/ Use(r)

Spec == Init /\ [][Next]_vars

----------------------------------------------------------------------------
(* Properties *)

\* The type invariant.
TypeOK ==
  /\ exists \in BOOLEAN /\ ops \in 0..MaxOps /\ Len(history) <= MaxImports
  /\ \A r \in DOMAIN rows : /\ rows[r].import \in 0..MaxImports
                            /\ rows[r].superseded \in {None} \cup (DOMAIN rows \ {r})
                            /\ rows[r].lead \in rows[r].prov
                            /\ rows[r].status \in {"retained", "removed"}
  /\ \A o \in DOMAIN sources : sources[o].status \in {"imported", "linked", "recovered"}
  /\ DOMAIN reviews \subseteq Imported
  /\ normalized \in Nat \cup {None}

\* Every source record points to a publication of the project, unless its
\* import was rejected and the record not recovered, or a reviewer removed the
\* publication before screening: rejections, merges and recoveries never leave
\* the audit of another import dangling.
SourceKeepsItsRow ==
  exists => \A o \in DOMAIN sources :
    \/ sources[o].canonical \in DOMAIN rows
    \/ sources[o].import \in Rejected /\ sources[o].status # "recovered"
    \/ sources[o].canonical \in touched

\* A publication disappears only with the rejection of the import whose own
\* record introduced it, and only while no merge and no later stage refers to
\* it and no reviewer has decided on its group, unless a recovery or a
\* reconciliation formed a group that was not recorded; or with a
\* reconciliation, and then it was removed before screening and the archive
\* has it.
RejectionIsSafe ==
  [][exists' => \A r \in DOMAIN rows \ DOMAIN rows' :
       \/ /\ \E o \in DOMAIN sources :
               /\ sources[o].import \in Rejected' \ Rejected
               /\ sources[o].canonical = r /\ sources[o].status = "imported"
          /\ RecoveredRecords = {} /\ reconciled = {} => \A g \in DOMAIN decided : r \notin g
          /\ \A m \in merges : r \notin m.members
          /\ r \notin DOMAIN archive \cup used
       \/ rows[r].status = "removed" /\ r \in DOMAIN archive' \ used]_vars

\* A rejection is refused when a publication of the import has a duplicate
\* decision, as the notes of the release that introduced it state.
DecidedPublicationsStay ==
  [][exists' /\ reviews' # reviews =>
       \A r \in DOMAIN rows \ DOMAIN rows' : \A g \in DOMAIN decided : r \notin g]_vars

\* The candidate groups are the components of the pairs that share an
\* identifier or a title or have similar titles, as the comment on the
\* builder's loop says of the comparisons it leaves out.
BuilderIsExact ==
  LET S == Corpus(rows)
  IN Candidates = Groups(UnionAll(Certain(rows, S), SimilarTitle(rows, S)))

\* An import never replaces the document of a publication that is there: a
\* record that is imported again is skipped.
ReimportIsSkipped ==
  [][\A r \in DOMAIN rows \cap DOMAIN rows' :
       Len(history') > Len(history) => rows'[r].prov = rows[r].prov /\ rows'[r].lead = rows[r].lead]_vars

\* A rejection removes only publications its own import introduced, from
\* before the imports were recorded on them as well.
RejectionTakesOwnRows ==
  [][\A r \in DOMAIN rows \ DOMAIN rows' : exists' => r \notin DOMAIN LegacyRows]_vars

\* What leaves the archive while the project exists is a publication again.
RestoreBringsBack == [][exists' => DOMAIN archive \ DOMAIN archive' \subseteq DOMAIN rows']_vars

\* Nothing of a deleted project is left.
DeletionLeavesNothing == ~ exists => sources = <<>> /\ skips = {} /\ observed = {} /\ archive = <<>> /\ approvals = <<>>

================================================================================
