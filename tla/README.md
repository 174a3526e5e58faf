# slr-platform: TLA+ models and proofs

The repository is a platform for systematic literature reviews: a FastAPI backend over
SQLite that searches bibliographic providers, imports and deduplicates records, screens
them in two stages, extracts data and reports PRISMA numbers, and a React frontend.
This directory models the parts where threads, crashes and the order of steps decide
whether a review's numbers can be trusted.

Line numbers below refer to `src/`; a service is named by its file in `app/services`.
`PROJECT.json` gives for every definition of a module the source lines it stands for.

## 1. Inventory

How the program runs. One process, one SQLite file (WAL, 10 s busy timeout). Endpoints
declared `def` run in a thread pool, so any two of them interleave between statements;
`async def` endpoints and the fetch-all task run on the event loop and interleave only at
an `await`. `SqliteTransactionManager` opens `BEGIN IMMEDIATE`: what runs on its
connection is atomic and excludes other writers. Most repositories open a connection of
their own per call, so a handler that makes two calls without a transaction sees two
states.

| Component | State | Operations | What is hard | What makes it correct |
|---|---|---|---|---|
| Fetch-all search (`fetch_all_search.py`) | registry of jobs and the project's slot in memory; checkpoints, snapshots and audits in SQLite | start, resume, cancel, status; the paging task | process death between page, checkpoint and snapshot; the cancel handler is another thread; hand-over of rows on resume | a resume skips and replays nothing, finished jobs keep every record, the slot is an exact lock |
| Pre-screening (`pre_screening_review_service.py`) | row status, archive, decision log | remove, restore | checks and timestamp come before the transaction | archive, log and row agree; a screened record is not removed |
| Duplicate review (`project_duplicate_service.py`) | decisions and merges by group id, membership snapshots, `superseded_by` | decide, merge, bulk merge | a group id is a hash of members that change; check-then-save | merged records stay represented through later merges and imports; decisions are about known records |
| Derived-state rebuild (`corpus_derived_state_service.py`) | the same | rebuild | which persisted decisions are tainted | nothing about a removed record survives |
| Corpus finalization (`corpus_finalization_service.py`) | events and their members | finalize | five reads, one insert, no unique constraint | one event, which admits the active corpus |
| Screening gate (`screening_input_service.py`, `duplicate_readiness_service.py`) | derived | readiness, input set | three reads on three connections | decisions only on a ready input |
| Screening, both stages (`screening_decision_service.py`, `title_abstract_screening_service.py`, `full_text_screening_service.py`) | append-only decisions with assessments and reasons, availability, criteria | decide, set availability, edit criteria | the check and the insert are on different connections; a criterion changes in between | full-text work only where a title and abstract include exists; a stored reason explains an exclusion |
| Multi-reviewer screening and conflicts (`multi_reviewer_screening_service.py`, `conflict_resolution_service.py`) | rosters, resolutions | roster, conflicts, resolve | a resolution made for decisions that have changed | a resolution counts only for the decision set it was made for |
| Import, import review, recovery (`project_import_service.py`, `import_review_service.py`, `scripts/ris_import_reconciliation.py`) | publications, source records, skip audits, history, review decisions, approvals | import, accept, reject, claim, recover | rejection deletes rows others refer to; records of a rejected import come back | a rejection leaves no dangling reference; the accounts of PRISMA agree with the tables |
| File parsers (`providers/import_file`) | none | parse | a malformed file | every record or none |
| Search providers (`providers`, `providers/search`) | per-call state; the Crossref candidate plan and its cursor | search, page, retry | a page fails after others; a cursor leads back; the index grows | a call delivers a stretch of the provider's results or nothing |
| Search engine and merger | per request | search, merge, enrich | partial failure of a fan-out | first provider owns a record |
| Normalization | execution rows | run | runs over the active set | a changed corpus makes it stale |
| Extraction, quality assessment (`extraction_execution_service.py`, `quality_assessment_execution_service.py`) | configurations, append-only revisions and assessments, record headers | configure, submit, finalise | the next revision number is read before the transaction; the project is deleted meanwhile | gapless logs, a header that mirrors them, revisions that fit their template |
| Synthesis and snapshots (`synthesis_*_service.py`) | categories, mappings, relations, pathways, context links, gaps and their evidence, numbered snapshots | synchronise, assign, classify, link, snapshot | a row read is written back after the category or revision under it changed; concurrent snapshot numbers | gap evidence is complete, context categories exist, snapshots are an append-only log |
| PRISMA metrics, reports, workflow status, audit tools | none | read | counts from several tables | views of one fact agree |
| Projects and deletion | every table | delete | handlers still running | no orphan rows |
| Frontend (`ProjectContext.tsx`) | fetch-all job id, poll timer, versions | start, poll, cancel, switch project | late answers, project switch | the result shown is the current project's |

`PROJECT.json` lists every component with its status, and under "hazards" each place
where the code is exposed, with the properties that watch it.

## 2. Modules

| Module | What it is | Uses | Runs | Proofs |
|---|---|---|---|---|
| `FetchAll` | the fetch-all job | | `FetchAllCrash`, `FetchAllCancel`, `FetchAllLive`, `FetchAllLost` | `FetchAllProofs` |
| `Corpus` | pre-screening, duplicates, rebuild, finalisation, screening gate | | `CorpusConcurrent`, `CorpusReimported` | `CorpusProofs` |
| `Screening` | both stages, rosters, conflicts, reports, workflow status | `ScreeningDomain` (criteria and rules) | `Screening` | `ScreeningProofs` |
| `Imports` | imports, review, recovery, reconciliation, deletion | `ImportDomain` (candidate groups, merge policy), `SearchDomain` (engine, query evaluation), `FileFormats` (parsers); `ImportAccounts` adds PRISMA and the audit | `Imports` | `ImportsProofs` |
| `Paging` | one provider, its page loop and HTTP attempts | `RecordStream` (the abstract specification it implements), `CrossrefPlan` (candidate plan) | `Paging`, `PagingBrowser` | `PagingProofs` |
| `Evidence` | extraction and quality assessment | `EvidenceDomain` (validation), `VersionLog` (abstract) | `Evidence` | `EvidenceProofs` |
| `Synthesis` | matrix, mechanisms, contexts, gaps, snapshots | `SynthesisDomain`, `VersionLog` | `Synthesis` | `SynthesisProofs` |

Each `MC` module gives the constants of one instance. `SetFacts` has the lemmas that the proof
modules share: the largest and the smallest of a set of numbers, induction over numbers and
finite sets, what a fold returns, sums and counting in two ways. `RecordStream` and `VersionLog` are
abstract specifications: a provider's results as a stream that a caller reads in order,
and a history whose entries are numbered 1, 2, 3, ... and never change. The detailed
modules are shown to implement them (`StreamSpec`, `SnapshotLog`, `RevisionLogs`).

How the modules meet. `FetchAll` sees one call of a provider as one step: that step is a
call of `Paging`. `Corpus` has an import as "one more row": that row is a row of
`Imports`. `Screening` gets from `Corpus` an input set and whether it is ready;
`Evidence` gets votes, a roster and a resolution from `Screening`; `Synthesis` gets
revisions from `Evidence`. Each interface is an action of the later module that changes
its inputs freely, so its properties hold for whatever the earlier one does.

Left in the plan: the polling of the frontend over the statuses of `FetchAll`; a
composition of `Corpus` and `Screening` with the locals of both.

## 3. FetchAll: the fetch-all job

`FetchAll.tla` is one project's job registry and its database. Three things act: the task
(`_run`, `_run_single_provider`, `_finalize_job`), one `request_cancel` call in a worker
thread, and the process, which may die.

* Volatile state is `job`, `ps` (the list `FetchAllJob.providers`), `active`
  (`_active_by_project`), and the program counters `task` and `cancel` with their locals;
  durable state is `cps` (`search_run_checkpoints`), `snaps` (`search_result_snapshots`)
  and `audit`. `Crash` keeps only the durable variables.
* The task's steps are separated where it awaits or where a worker thread can see a
  difference: `BeginJob`, per provider `SkipCancelled`, `CarryOver` or `BeginProvider`,
  per turn `LoopCancelled`, `LoopLimit` or `Request`, one action per outcome of a page
  (`PageNext`, `PageLast`, `PageEmpty`, `PageRepeated`, `FetchFails`,
  `PlanIncompatible`), then `WriteCheckpoint`. A page hands out any next cursor, also an
  earlier one (`NextCursors`); `task.asked` are the cursors of the turn (`seen_cursors`)
  with which the repeated ones are told. An empty page writes its next cursor before that
  test, as lines 1139-1149 do.
* A page is received in one step. The code awaits the enricher between two records
  (line 1081) and a cancel handler runs in another thread, so a row built at that moment
  can count a part of the page with the cursor the page was asked with. The model leaves
  this moment out: such a row has the cursor of `CancelBuild` before the page, and no
  property of a run with a cancel is about its counts.
* `_finalize_job` is `FinalizeStatus`, `WriteAudit` per provider, `PersistSnapshot` per
  record, `PublishResult`; `ReleaseSlot` is the `finally` clause and `JobFails` the
  defensive `except`.
* `request_cancel` is `CancelBegin`, then per provider `CancelCheck`, `CancelMark`,
  `CancelBuild`, `CancelSave`: test, assignment, row and write are four moments.
* `answered`, `admitted` and `high` are history: they record what providers answered,
  what checkpoints counted and how far they went since the provider last sent the run
  back, and no action reads them.
* The publication merged from the copies of several providers is validated once more and
  is not saved when the query refuses it (lines 1216-1223): `Refuted` names, for each job,
  the records of which this is so, and `Dropped` when it happens.

Abstractions: a record is its DOI, a cursor is a page number, a run id is the job that
drew it; progress counters, messages, enrichment, pruning of finished jobs and a
malformed candidate plan are left out.

Instance (`MCFetchAll`): two providers, one of them Crossref (whose diagnostics are
checkpointed), two pages each, three records of which one is rejected, one repeats inside
each provider's pages and one comes from both, which the first job refuses once it is
merged. Two pages are the least with a cursor that moves, one that leads back and a last
page; the overlap is what makes counting hard.

| Run | Bounds | Shows |
|---|---|---|
| `FetchAllCrash` | 3 jobs, 1 fault anywhere, a budget of 1 page an execution | types; the slot is an exact lock; rows never point past an unanswered page; no page is replayed unless the provider sent the run back to it; Crossref counts are distinct records; a row that cannot be resumed was closed; a published audit equals its checkpoint |
| `FetchAllCancel` | 2 jobs, 1 cancel, no fault | a finished job keeps every record but those the query refused once merged; rows that a cancel handler writes late never point past an unanswered page either |
| `FetchAllLive` | 1 job, 1 fault, 1 cancel | the slot is given back |
| `FetchAllLost` | 2 jobs, 1 fault | a finding, section 10 |

One fault suffices for what these runs check: after a crash only the tables remain, so a
second crash adds a history that a run with one more job already has. Three jobs are a
search, its resume, and the resume of that. With a budget of one page a
provider's turn in `FetchAllCrash` ends at the limit after its page and goes on in a resume,
where rows matter most; the other runs have a budget of two. `NoCursorReplay`, `NoRunStranded` and the
counts hold without a cancel only: with one in the bounds TLC finds `NoCursorReplay`
violated (`FetchAllReplay.cfg`), and `NoRunStranded` too, because the handler tests and
assigns the status without a lock (lines 628-631). `OneRunPerProvider` is broken by a death
or a late cancel handler during a resume (section 10); section 11 has the conditions under
which it holds.

`CHECK_DEADLOCK FALSE` because the model stops when its jobs are used up.

Fairness. `FairSpec` has weak fairness on the task's steps and on the cancel handler's
steps, nothing else. The event loop runs every ready task, each awaited request returns
or raises (the HTTP client has a 30 s timeout and a bounded number of retries), and a
worker thread is scheduled by the operating system. Nothing is assumed about users,
crashes or errors.

Only one cancel handler runs at a time, and only one project is modelled; jobs of
different projects share no state but the registry.

## 4. Corpus: from import to screening

`Corpus.tla` has the project's rows (`row`: status, `superseded_by`, identifiers), the
pre-screening `archive` and `log`, duplicate `decision`s, `merges` and membership
`snapshots`, formally `screened` records, and the `final`ization. Each worker thread has
a program counter and the locals a handler carries from one connection to the next.

* A handler that is one transaction is one action: `Import`, `MergeGroup`. An import also
  takes a record that is in the project: it is told from the others by the source its
  document lists first, and a merge may list another member's first, so that the canonical
  record can be imported over its own merged document. `replaced` records where this happened.
* A handler that checks first and writes later is split where the code changes
  connections: `EditBegin` and `RemoveCommit` or `RestoreCommit`; `DecideFind`,
  `DecideCheck`, `DecideSave`; `RebuildBegin`, `RebuildCommit`; `ScreenRead`,
  `ScreenDecisions`, `ScreenMerges`, `ScreenRecheck`, `ScreenSave`; `FinalizeBegin`,
  `FinalizeRows`, `FinalizeCount`, `FinalizePrepare`, `FinalizeSave`.
* `Materialized` is the trailing `materialize_candidate_group_projection` of every
  transaction that changes the active set, inside the action.
* `GroupsOf` is the declarative form of the union-find: connected components of "shares
  a strong identifier". A group id is a hash of the members, so a group is its members.
* `clock` numbers the timestamps in the order they are drawn, which is not the order in
  which they are written.

Abstractions: a record is the rank of its UUID (the canonical record is the least);
reviewer, stage, outcome and criteria of a formal decision are left out, as are groups
proposed by title similarity, source-record columns and the physical deletion of a
record. `_ensure_modifiable` runs twice in a removal and is taken as one test: neither of
the two facts it tests is ever undone. The reads inside `prepared_records` are taken as
one. `finalize_corpus`, the rebuild and physical deletion have no router at this commit;
the first two are modelled as the library operations that the tests and tools call.

Instance (`MCCorpus`): three records of one work, two identifiers, the first and the last
record linked only through the middle one. This is the least population in which a group
grows, splits when its link is removed, and a canonical record is merged again into an
older one. The number of calls that take several steps is bounded (`MaxCalls`); imports
and merges are not.

| Run | Bounds | Shows |
|---|---|---|
| `CorpusConcurrent` | 2 symmetric threads, 3 calls | types; superseded records stay represented, also through imports that replace a merged document; the archive holds exactly the removed records; decided groups are on file |
| `CorpusReimported` | 1 thread, 2 calls | a finding, section 10 |

Three calls in two threads are two that overlap and one that sets the stage. What a handler
establishes by a check on one connection and a write on another does not survive a second
handler, and the code does not serialise its handlers. These properties are stated in the module and
belong to no passing run; `CorpusRaces.cfg` violates each of them (section 10).

There is no liveness here: these are request handlers that promise no scheduling.

## 5. Screening: decisions, conflicts, reports

`Screening.tla` is the two-stage screening of one project: `criteria`, the `roster` of each
stage, the append-only `decisions` with their assessments and reasons, `resolutions` with
the decisions they were made for, full-text `availability`, and the corpus as `input` (a
set of publications and whether it is ready). `ScreeningDomain` has the evaluation of a
metadata rule, the rules of a criterion and the effect of an assessment.

* A request is a step that checks on one connection and a step that writes on another:
  `TitleAbstractBegin` or `FullTextBegin`, then `DecisionSave`; `AvailabilityBegin`,
  `AvailabilitySave`; `ConflictLoad`, `ResolveCheck`, `ResolveSave` (the client looks at a
  conflict, sends the key of what it saw, the handler compares, then inserts). `call`
  holds what each request in flight has read.
* Criteria and rosters are one step each (`CriterionCreate`, `CriterionUpdate`,
  `CriterionDeactivate`, `ReplaceRoster`).
* `Report`, `Metrics`, `ProjectSummary`, `StageCounts`, the two histories and the workflow
  status are operators over the tables, each written as its service computes it. Services
  find "the latest decision" in four different ways; `ReportsAgree` says they come to the
  same.

| Run | Bounds | Shows |
|---|---|---|
| `Screening` | 1 publication, 2 symmetric reviewers, 1 deciding and 1 resolving request in flight, 2 symmetric criteria out of three kinds, 3 decisions, 1 resolution, 2 edits | a resolution that counts was made for the decisions that stand; full-text work follows an include; a stored reason not edited in flight explains an exclusion; all reports agree |

One publication is enough, since no handler relates two publications but by adding counts;
three decisions are two that conflict and one that makes a resolution stale.
Criteria are edited at any moment, also while a decision is in flight: the full-text handler
validates the reasons against the criteria it read (`full_text_screening_service.py:392-428`)
and the decision service reads them again (`screening_decision_service.py:121`, `:182`). A
reason whose own criterion was edited in between is stored although nothing assesses it as one.
A request and its decision therefore remember the criteria edited meanwhile (`edited`, history
that no guard reads), and `ReasonIsAssessed` is about all other reasons: an edit of another
criterion breaks none. The report of reasons leaves the unassessed ones out, so `ReportsAgree`
adds the reasons up when every stored one is assessed.

## 6. Imports: how publications come and go

`Imports.tla` has the tables that an import, its review and its recovery share: `rows`,
`history`, `sources`, `skips`, `reviews`, the duplicate review tables, the archive, and the
operator's `approvals` and `reconciled` runs. Every action is one transaction of the code:
`Search`, `ImportProvider` (a request for several providers commits provider by provider),
`ImportFile`, `FailUpload`, `Accept`, `Reject`, `DecideGroup`, `Merge`, `RemoveRecord`,
`RestoreRecord`, `Normalize`, `Use` (a later stage refers to a row), `DecideRecovery`,
`ExecuteRecovery`, `Reconcile`, `DeleteProject`.

* `FileFormats` are the RIS and BibTeX parsers as folds over lines and tokens, `SearchDomain`
  is the search engine (fan-out, merge by DOI, enrichment of abstracts, the three-valued
  query filter), `ImportDomain` has the candidate groups of duplicate review with the title
  comparisons the builder saves, and the merge policy.
* `ImportAccounts` computes from the tables what the program reports: the detail of an
  import, the sources summary, source accounting, the PRISMA flow and the integrity audit.

| Run | Bounds | Shows |
|---|---|---|
| `Imports` | 5 operations, 2 imports, 2 records a batch, 2 providers, 4 files | a source record keeps its publication; a rejection removes only what nothing refers to; the reports agree with the tables and with each other; the audit fails only for a canonical record merged again |

Five operations are enough for two imports that overlap, a merge or a removal, a rejection
and a recovery. The files are small but awkward: a title in two tags, an ignored line, a
continuation line, a record without end, a BibTeX comment with an entry in it, a record
twice in one file. `AccountsAgree` and `AuditFindsOnlyChains` name the cases in which the
code's reports do not balance (section 10); outside them they must. `RejectionIsSafe` has the
same shape: a reviewer's decision protects a publication as long as every candidate group was
recorded, which a recovery and a reconciliation do not do (`ImportsDecided` in section 10).

Recovery and reconciliation are scripts run with the server stopped, so they do not
interleave with handlers, and neither do the actions of this module: each is one
`BEGIN IMMEDIATE` transaction.

## 7. Paging: one provider below the job

`Paging.tla` is `search_with_raw` of the three providers over the `_get` of their clients.
`Call` starts a call; while it waits, `Retry`, `Refuse`, or a page (`CrossrefPage`,
`OpenAlexPage`, `SemanticScholarPage`) ends an attempt and `Publish` lets the provider's
index grow. A cursor is a place in the results. `CrossrefPlan` builds the list of candidate
queries a Crossref call walks through.

`RecordStream` is the promise: a call delivers every mappable record between the caller's
cursor and the place it reached, and its new cursor is not past that place. One thing is
excepted: a call may give a query up and go on with the next one of the plan, and then says
where (`left`). Only Crossref does, when a page with results carries the very cursor it was
asked with: the provider takes the query as complete (`providers/search/crossref.py:348-355`)
and what it had left is never asked for. `StreamSpec` says `Paging` implements this, with the
`INSTANCE` taking the variables of the same names: nothing else is passed over, and what is
given up is named when the call returns, not before.

`PositivePlan` refuses a group without a positive child, at any depth, as the code raises a
`ValueError` for it (`rendering/crossref.py:309-311`).

| Run | Bounds | Shows |
|---|---|---|
| `Paging` | 3 providers, up to 3 results a query, pages of 2, 3 results and 4 requests a call, 2 attempts, cursors may lead back | the stream is implemented; every call ends; candidate plans of 180 shapes, with NOTs and groups of nothing but NOTs among them, cover their axes within the limit or are refused |
| `PagingBrowser` | the same without cursors that lead back, 2 results a call | a finding, section 10 |

Two results a page and three in all give a full page, a short page and a page that ends a
call in its middle; four requests allow an exhausted query followed by another.

Fairness: `WF_vars(Attempt)` only. An HTTP request ends because the clients have time-outs;
retries are counted (`retry_attempts`, `max_attempts`). Nothing is assumed about answers but
that a wait between two attempts ends: the clients honour a `Retry-After` header without an
upper bound (`providers/crossref.py:88-103`), so `CallEnds` is about the number of steps and
says nothing of their time.

## 8. Evidence: extraction and quality assessment

`Evidence.tla` has the two configurations, the record headers with their append-only
`revisions`, and the assessments. A submission is `SubmitCheck`, `SubmitRead`,
`SubmitAppend`; an assessment `AssessCheck`, `AssessWrite`; a configuration
`ConfigureCheck`, `ConfigureWrite`. Votes, resolutions, merges and the deletion of the
project run in between. `EvidenceDomain` is the validation of templates and payloads.

| Run | Bounds | Shows |
|---|---|---|
| `Evidence` | 1 publication, 2 reviewers, 2 symmetric requests, 7 operations, 2 votes or assessments a reviewer, 3 revisions | the header mirrors the log; every revision fits the template of its record; the gates and the datasets agree; an exported row has the columns of its header; the logs implement `VersionLog` |

Two requests and three revisions are the least for two submissions that read the same last
revision and a third that follows the one that won. `VersionLog` here allows a log to go as
a whole, which the deletion of the project does (`DiscardableSpec`).

## 9. Synthesis: matrix, mechanisms, contexts, gaps, snapshots

`Synthesis.tla` has the four category tables, the term `mappings`, the `relations`,
`pathways` and context `links` of the group items, the `gaps` with their evidence, and the
numbered `snapshots`. A handler reads in one step and writes in another (`SyncRelations`,
`SaveRelations`; `SyncPathways` or `AssignMechanism`, `SavePathways`; `SetTermMapping`,
`SaveTermMapping`; `LinkEvidence`, `SaveEvidence`; `CreateSnapshot`, `SaveSnapshot`; ...).
Extraction revisions and merges of publications move underneath.

| Run | Bounds | Shows |
|---|---|---|
| `Synthesis` | 1 item, 1 category a kind, 1 gap, 2 symmetric requests, 5 operations, 2 revisions, 2 snapshots | gap evidence is complete; a context link names a live category; the matrix and its drill-downs agree; snapshots implement `VersionLog` |

Five operations let two requests overlap around a change of the category or the revision
they read, with one operation that sets the stage and one that looks at the result.

The modules of sections 5 to 9 have a `TypeOK` that no listed run repeats: each is
proved (section 11).

In all runs `CHECK_DEADLOCK FALSE` because the operations are bounded and users may stop.

## 10. Where the code and its documents disagree

Three are listed runs with a finding in `PROJECT.json`.

* `FetchAllLost`: kept records are saved only at finalisation, while checkpoints count
  them page by page. A process death loses them; the resumed job completes without them.
* `CorpusReimported`: importing the canonical record of a merge once more replaces its merged
  document, with the identifiers of the merged members
  (`project_publication_repository.py:1078`).
* `PagingBrowser`: a browser that asks for more results of a one-query Crossref search
  sends the cursor the provider gave it, and the provider refuses it
  (`providers/search/crossref.py:230` against `docs/DECISIONS.md:1512`).

The others have a configuration beside the listed runs. TLC finds the named property
violated with `tlc -config X.cfg` on the module's `MC` module. `ImportsDisagreements.cfg` and
`CorpusRaces.cfg` name eight and six properties, each violated: keep the line of one and
comment the others out.

| Configuration | Property | What happens |
|---|---|---|
| `FetchAllReplay` | `NoCursorReplay` | a late cancel handler writes an old row over the resumed run's newer one, and the next resume replays pages |
| `FetchAllSecondRun` | `OneRunPerProvider` | a death while a resume moves rows to the new job leaves rows under the old one; resuming the new job starts a second run |
| `FetchAllNoResult` | `TerminalStatusCarriesResult` | the status is terminal before the result is set; the frontend stops polling at the first terminal status (`ProjectContext.tsx:1051`) |
| `CorpusRaces` | `MergedGroupStaysApproved` | a merge commits between the look of `record_decision` and its save (`project_duplicate_service.py:386`) |
| `CorpusRaces` | `ScreenedRecordIsNotRemoved` | a formal decision falls between the checks of a removal and its transaction (`pre_screening_review_service.py:108`) |
| `CorpusRaces` | `LogAgreesWithRow` | two edits of a record commit in the other order than their timestamps (`pre_screening_review_service.py:260`) |
| `CorpusRaces` | `DecisionsNeedReadyInput` | readiness, read on three connections, is gone when the decision is saved (`screening_input_service.py:99`) |
| `CorpusRaces` | `FinalizationIsExact` | a removal falls between the reads of a finalisation (`corpus_finalization_service.py:132`) |
| `CorpusRaces` | `FinalizedOnce` | two finalisations both find none (`corpus_finalization_service.py:128`) |
| `CorpusRebuilt` | `RebuildForgetsRemovedDecisions` | a decision on a group that has since grown survives the rebuild although it contains a removed record |
| `CorpusFrozen` | `PopulationIsFrozen` | a merge after finalisation shrinks the frozen population |
| `ScreeningCompleted` | `CompletedMeansScreened` | full text is reported completed with publications not decided |
| `ScreeningIncluded` | `IncludedWasScreened` | more studies included than screened at full text |
| `ImportsDecided` | `DecidedPublicationsStay` | a recovery forms a candidate group that nothing records, and neither does the decision a reviewer makes on it; once another file has changed the group, the rejection of an import finds no decision and deletes the publication (`import_review_service.py:547-585`; `docs/releases/v0.7.4.md:52`) |
| `ImportsDisagreements` | `BuilderIsExact` | the builder stops comparing the titles of a file once its records are in one group (`duplicate_group_builder.py:307-310`), also where another file would be linked; the comments at 230 and 308 call it exact |
| `ImportsDisagreements` | `RemovedCountedOnce` | a soft removal is counted in the archive and by its status (`prisma_metrics_service.py:301-303`; `tests/integration/test_pre_screening_review_workflow.py:171` asserts 1) |
| `ImportsDisagreements` | `FlowAlwaysBalances` | links by provider key are no duplicates, two snapshots of one provider record are two imports of one row, duplicates of a rejected import count as rejected too |
| `ImportsDisagreements` | `ReimportIsSkipped` | a re-import replaces a row whose first provenance differs (`project_publication_repository.py:1065-1083`; `IMPLEMENTATION_PLAN.md:326`) |
| `ImportsDisagreements` | `RejectionTakesOwnRows` | a rejection deletes a row from before imports were recorded, with `LegacyRows <- MCLegacy` (`project_publication_repository.py:728`; `docs/DATA_INTEGRITY_CLEANUP.md:305`) |
| `ImportsDisagreements` | `DeletionLeavesNothing` | tables without a foreign key keep rows of a deleted project (`docs/DECISIONS.md:35-37`) |
| `ImportsDisagreements` | `AuditHasNoErrors` | merging a canonical record again makes the chain the audit forbids |
| `ImportsDisagreements` | `RestoreBringsBack` | an archive entry goes although its publication does not come back |
| `SynthesisConverted` | `ConversionIsOfMagnitude` | a conversion is stored with a magnitude it was not calculated from (`synthesis_matrix_repository.py:80`) |
| `EvidenceLocked` | `EvidenceLocked` | the template is changed between the lock test and the write while a first record is made (`extraction_configuration_service.py:52`, `:64`) |

Other things the models show, each a line to read when the code is next touched:

* When two merges have changed the identifier of a publication twice, a re-import of its file
  counts the record as repeated and yet inserts a publication for it, which then has no source
  record: `ImportedOnce` leaves this case out of the balance of the flow.
* After a rejection the audit warns of the record count for good, and the same file imports
  again only as repeated occurrences. `compute_prisma_reconciliation` counts removed rows as
  active.
* The audit builds its groups without titles (`integrity_audit_service.py:274`): it reports a
  decision on a group of equal or similar titles as orphaned while duplicate review lists the group.
* A project without a configured assessment tool lists publications as eligible for assessment
  and counts none in its overview (`quality_assessment_execution_service.py:234-237`).
* RIS continuation lines that start with `%`, `#` or `//` are dropped; the last of a repeated
  BibTeX field wins.
* One untitled OpenAlex or Semantic Scholar record fails its page on every retry, Crossref
  skips it; a Crossref page that repeats its cursor ends its query, whatever was left
  (`providers/search/crossref.py:348`); a change of OpenAlex's count loses the call; after a failed "load more" the next
  cursor is null.
* Synthesis: a synchronisation that overlaps an assignment writes the old row back
  (`synthesis_mechanism_service.py:276`), a relation of a vanished item stays
  (`synthesis_matrix_service.py:308`), content and hash of a snapshot are read at different
  times (`synthesis_snapshot_service.py:371-383`), an approval overwrites a mapping set
  meanwhile (`synthesis_classification_service.py:459-493`).
* An assessment in flight outlives the deletion of its project
  (`sqlite_quality_assessment_repository.py:426`); `confirm_template_change` has no effect.

## 11. Proofs

All theorems hold for every value of the constants that satisfies the named assumptions,
which TLC evaluates in the runs. They ask what the declarations of the constants say (the
bounds are naturals, a table of constants has its shape) and that a missing value is none of
the values it stands for; beyond that

* `FetchAllAssumption`: the sequence of providers has no repeat, the records are finitely many;
* `CorpusAssumption`: records are positive naturals, finitely many;
* `BoundsAssumption` of `Paging`: the bounds are positive;
* `ImportsAssumption`, `IdentifiersAssumption`, `OpenRecordAssumption`: providers are finitely
  many, an answer and a file are sequences, the rows of an earlier version are rows, and no
  identifier of a row or of a source occurrence and no record of a RIS file is the missing value;
* `ScreeningAssumption`: publications and criteria are finitely many;
* `EvidenceAssumption`: publications are finitely many, templates are ones their validators
  accept, payloads well formed;
* `SynthesisAssumption`: finitely many group items, whose texts are among the terms.

A theorem of the form `Spec /\ []C => []P` says that `P` holds in every execution in which
`C` does; the condition is part of the theorem where the code needs it, and section 10 has the
executions that break `P` without it.

`FetchAllProofs`
* `TypeCorrect`. `TypeOK` is not inductive: an action uses the job and the provider its
  program counter points at. `Control` says what each counter guarantees (a page loop has
  a cursor and a run id, a saving handler has a run id); `TypeInv == TypeOK /\ Control` is
  inductive.
* `SlotIsExact`. `SlotInv` adds which counters a running job may be at.
* `ResumeIsComplete` (`ResumeNeverSkips`). A row is written from the task's state or from
  a row a cancel handler carries, and a resume copies rows back into the state. `ResumeInv`
  therefore demands of every place that holds a cursor (rows, the state, the resume's
  source, the handler's row, the task's pending write) that the pages before it were
  answered in its run.
* `RunsMoveForward`, `CountsAreDistinct`, `InterruptedRunsResume` and `AuditsMatch`, for
  executions in which no cancel is requested (`Uncalled`), with any number of failures, deaths
  and resumes. They share `UndisturbedInv` (`Undisturbed`): what a row promises (`RowOK`: its
  cursor is not behind the highest one written since the provider last sent the run back, it is closed if it cannot be resumed, its
  count is the number of its identities), that the source of a resume is what the tables hold
  (`SourceOK`), and for every provider of a live task whether its turn is over, running or to
  come (`Did`, `Works`, `Waits` in `LiveOK`), with the relation of state and row each implies.
  A cancel handler breaks these relations because it writes a row it built earlier.
* `RecordsAreKept` (`FinishedJobKeepsEveryRecord`), for executions in which nothing fails
  (`Unfailing`), cancel handlers included. `KeepingInv`: a record that a checkpoint counts is
  in a snapshot, or in the memory of a task that will come to write it. The merge by DOI
  leaves one copy of a record, so the invariant speaks of any provider's list; a record whose
  merged publication the query refuses may be in no snapshot, which the property excepts.
  `DrawnInv` adds that a job with a result has a run for each provider. `FetchAllLost` shows what a death does.
* `RunsAreContinued` (`OneRunPerProvider`), for one search, started once and resumed any
  number of times (`StartedOnce`), without failure or cancel. `SingleInv`: runs are drawn by
  the job that was started, and between jobs a row of one provider means a row of each, so
  that a resume finds a run for every provider.

`CorpusProofs`
* `TypeCorrect`: `Held` says what each thread carries at each counter.
* `MergedRecordsAreCovered`: the canonical record is the least member, which exists by the
  well-foundedness of `<`, and carries the identifiers of the others until an import replaces
  its document; the inductive invariant adds that a record with no row
  supersedes nothing and is superseded by nothing.
* `ArchiveIsExact`, and `DecisionsAreOnFile` (live groups are always among the snapshots, and
  a thread about to decide holds one).
* All four are for any number of threads, interleaved wherever the code changes connections.
  What holds only as long as handlers take turns is not a theorem: the code does not make
  them.

`ScreeningProofs`, for any number of reviewers and of requests in flight. `IInv` says of every
table that its rows were accepted, and of every request in flight (`RequestOK`) what it was let
in by, in terms that later steps cannot undo: the tables only grow, so "an include exists that
is older than now" stays true although rosters and votes change.
* `TypeCorrect`: rows are well formed and links lead to decisions that exist.
* `ResolutionsStandOnTheirVotes` (`ResolvedIsWhatWasSeen`): a resolution is stored with the key
  of the decisions its resolver was shown (`MadeOnWhatWasSeen`), the status compares keys, and a
  key names the decisions it was computed from.
* `FullTextWasLetIn` (`FullTextFollowsInclude`) needs that what counts as included for a reviewer
  or for the project always rests on a decision or a resolution on file: the lemmas on the
  latest and first listed decisions give it.
* `ReportsAlwaysAgree` (`ReportsAgree`): the first decision a history lists is the latest one
  (`FirstListedIsLatest`), a publication has one latest decision (`LatestAreCounted`), a conflict
  has one of five statuses (`StatusIsOneOfFive`), and what is pending in one view is undecided in
  the other (`PendingIsUndecided`). The exclusion reasons of a stage add up because reason by
  reason and decision by decision are two counts of one set of pairs (`DoubleCount`).
* `ReasonsAreAssessed` (`ReasonIsAssessed`): the assessment is computed again when the decision is
  saved, from the criteria of that moment. The invariant says of a request in flight that each
  of its reasons is assessed as one under the criteria as they are, or has been edited since
  they were read.

`EvidenceProofs`. `IInv` keeps with every submission in flight that its form was judged by a
version that could be offered (`Fits`, `Publishable`), and with every log that it is numbered
from 1 and mirrored by its header, which the tests of the record and of the next number inside
`append_revision`'s transaction protect when two submissions have read the same last revision or the
project is gone.
* `TypeCorrect`, `HeadersMirrorLogs` (`HeaderMirrorsLog`).
* `RevisionsAreALog` (`RevisionLogs`): every step of `Evidence` appends one entry to the log of a
  publication, drops it with the project, or leaves it: it implements `VersionLog!DiscardableSpec`.
* `RevisionsFit` (`RevisionsFitRecord`) assumes that at most one template version is active and
  published, as the catalog that the application seeds has it
  (`extraction_template_seed_service.py:185`). With two, a configuration changed between the
  check and the first write can give a record a version its revision was not judged by.

* `GatesAlwaysAgree` (`GatesAgree`): the gates of extraction and quality assessment, the progress
  counts, the datasets and what synthesis traces back are functions of the same votes, rosters and
  logs; the overview of a project without a configured tool is zero whatever the others say, and
  is compared only with one. It needs an invariant of its own, `VotesOK`: votes, resolutions and the input are of known
  publications, reviewers and outcomes.

`ImportsProofs`, for any files, answers of providers, queries and bounds. `IInv` is a conjunction:
`HistoryInv`, `RowsInv`, `LedgerInv` (what the tables hold), `IdsInv` (a row of a file names an import
of the history, so that the rows of the next import are new), `KeepInv`, `OwnInv` (every row of a file
was introduced by its import, touched before screening, or recovered), `ObservedInv` (every group that
is there or has a decision was recorded), `MergesInv` (supersession and merges are the same fact),
`CountInv` and `NormalizedInv`. One lemma per action shows what it does with the rows (`Grows` for the
imports and the recovery), one per conjunct that it can disturb.
* `InvariantHolds`, `TypeCorrect`.
* `SourcesKeepTheirRows` (`SourceKeepsItsRow`): a rejection deletes only rows no other import's source
  names, a merge moves the names along, and `Canonical` is in the table.
* `RejectionsAreSafe` (`RejectionIsSafe`) assumes `LegacyRows = <<>>`: a row of an earlier version can be
  claimed by an import that did not bring it and deleted with it (`RejectionTakesOwnRows` in section 10).
* `AuditIsExplained` (`AuditFindsOnlyChains`): errors from `MergesInv`, warnings from `CountInv` and
  `NormalizedInv`. `MergedGroupsAreNoCandidates` is the last part of `AccountsAgree`.
* `AccountsAlwaysAgree` (`AccountsAgree`): the reports of `ImportAccounts` agree with the tables and
  with each other. `AccountsInv`, next to `IInv`, says what the reports add up: the source records
  and the repeated occurrences of a file import are together the occurrences of its file
  (`FilesInv`), while nothing is merged an import owns as many publications as its history counts
  (`AdditionsInv`), every publication has one record that introduced it (`IntroducedInv`). Every
  total is then a sum over disjoint sets and so the size of their union (`DisjointSetsAdd`).
  That the RIS parser finds as many records as the file has `TY` lines is proved by induction over
  the lines (`RisFilesAreCounted`), from `OpenRecordAssumption`: the value that stands for "no
  record is open" is no record. For BibTeX it is the hypothesis `BibtexFilesAreCounted`: the
  parser finds an entry for every `@` outside braces that opens one. The files of the run
  satisfy it; a file does not when a brace is part of a citation key or of a quoted value, or
  when something stands between `@` and `comment`.
* The model's folds (`FoldLeft`, `MapThenSumSet`) enter the proofs by the lemmas of `SetFacts`, which
  take steps as functions and properties as sets.

`SynthesisProofs`. `IInv` holds the tables' types, the numbering of the snapshots, and for every
request in flight that what it will write still has the rows it refers to.
* `TypeCorrect`: also no pathway or link without its relation, no gap link without its gap.
* `GapsCiteCompleteEvidence` (`GapEvidenceIsComplete`): revisions are only appended, so a
  revision that was complete when a request read it is complete when it writes.
* `LinksNameLiveCategories` (`ContextCategoryExists`): the foreign key refuses the write whose
  category has gone, and a deletion clears the links.
* `SnapshotsAreALog` (`SnapshotLog`): the log has in place `n` the set of snapshots stored as
  version `n`, one as long as `SnapshotsOK` holds, so that two creators with one number would
  show as a changed entry.
* `ViewsAlwaysAgree` (`ViewsAgree`): the counts by cardinalities of finite sets, the lists by
  what each filter reads.

`PagingProofs`
* `TypeCorrect`, `NothingIsSkipped` (no mappable record before the caller's cursor is
  missing but what lies behind a place where a query was given up), `OnlyRepeatsSkip` (OpenAlex,
  Semantic Scholar and a Crossref whose cursors never lead back give nothing up, so that
  nothing at all is missing) and `Implements` (`StreamSpec`): the page loops of the three
  providers implement
  `RecordStream` for all holdings, bounds and orders of failures. A call delivers only when
  it returns, so the step that returns must know what the earlier pages of the call read.
  The inductive invariant is `IInv == TypeOK /\ Stream!NothingSkipped /\ CallOK`, where
  `CallOK` says of a waiting call that `delivered` with the works mapped so far is
  `delivered` with all works from the caller's cursor to some result `r` of the query asked
  (`Covered`). `NothingSkipped` is needed because a cursor that leads back lets a call read
  again what lies before the caller's cursor. `leaving` holds what a call has given up so far. The step lemmas rest on how `Between` splits at
  a place and on its indifference to growth behind the cursor.

Only model-checked
* `SlotEventuallyFree` and `CallEnds`: liveness under fairness is out of the prover's reach.
* `PlanRepresentsEveryAxis`: a recursive definition over plans of bounded shape; induction
  over data is out of reach.
* `RowsFitHeader` of `Evidence`: a dataset's rows are sorted by TLC's `SortSeq`, which has no
  definition a prover could use, and joined by `FlattenSeq`, which is recursive.
* The count of a BibTeX file's entries, the hypothesis of `AccountsAlwaysAgree`: the parser skips
  from token to token by braces, the count tells entries by depth, and they differ on the files
  named above.

## 12. Not modelled

* Exports, and the column layout, pagination, sorting and search of lists: formatting of data
  that is only read.
* The text of a rendered query, the mapping of a response's fields to a publication, the
  ranking of results and the choice among conflicting metadata fields: wide conversions with no
  state; the models keep identity, title and DOI of a record.
* Uncertainty experiments: offline analysis of replay files.
* The pages of the frontend. Its polling of a job is left in the plan.
* Migrations, maintenance scripts other than the recovery and the reconciliation, container
  files: run once, offline.
* In `Corpus`, physical deletion of a single publication and its re-creation from the
  archive, which no router asks for; `Imports` has the reconciliation that deletes rows and
  the restoration that brings them back.
* Busy time-outs of SQLite outside `FetchAll`, where they are its database errors: a request
  that hits one changes nothing and returns an error.
