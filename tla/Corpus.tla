-------------------------------- MODULE Corpus --------------------------------
(***************************************************************************)
(* The corpus of one project between import and screening: publication     *)
(* rows, pre-screening removal and restoration, duplicate decisions and    *)
(* merges, the rebuild of derived state, corpus finalisation, and the      *)
(* formal screening decisions that all of these must respect.              *)
(*                                                                         *)
(* Every operation is a synchronous request handler on a worker thread.    *)
(* A handler that opens one BEGIN IMMEDIATE transaction for its reads and  *)
(* writes is one action of an idle thread; a handler that reads on          *)
(* connections of its own and writes later is several, and the handlers of *)
(* other threads run in between.                                           *)
(*                                                                         *)
(* Abstractions.  A record is the rank of its UUID; its document is the    *)
(* set of strong identifiers it carries; groups proposed on title          *)
(* similarity alone are left out.  A group id is a hash of its members, so *)
(* a group is the set of its members.  Reviewers, stages and outcomes of a *)
(* formal decision are left out: a record has one or it has none.          *)
(***************************************************************************)
EXTENDS Integers, FiniteSets

CONSTANTS
  Records,      \* records, ordered as their UUIDs are
  Keys,         \* strong identifiers: normalised DOI, PMID, OpenAlex id
  Identifiers,  \* Identifiers[r]: the identifiers record r is imported with
  Workers,      \* threads of the request pool
  MaxCalls      \* bound: calls of the handlers that take more than one step

ASSUME CorpusAssumption ==
  /\ Records \subseteq Nat \ {0} /\ IsFiniteSet(Records)
  /\ Identifiers \in [Records -> SUBSET Keys]
  /\ MaxCalls \in Nat

NoRecord == 0

VARIABLES
  row,        \* project_publications: status, superseded_by and document
  archive,    \* pre_screening_archive: archived record ids
  log,        \* pre_screening_decisions: the latest one of every record
  decision,   \* duplicate_review_decisions, by group
  merges,     \* duplicate_group_merges: the merged groups
  snapshots,  \* candidate group snapshots: every membership ever observed
  screened,   \* screening_decisions: records with a formal decision
  final,      \* corpus_finalizations: how many, when, and the latest members
  worker,     \* program counter and local reads of every thread
  clock,      \* wall clock, as the number of timestamps drawn
  calls,      \* multi-step calls made
  replaced    \* records whose merged document a later import has replaced

corpus == <<row, archive, log, replaced>>
duplicates == <<decision, merges, snapshots>>
vars == <<row, archive, log, decision, merges, snapshots, screened, final,
          worker, clock, calls, replaced>>

-----------------------------------------------------------------------------
Groups == {g \in SUBSET Records : \E r, s \in g : r # s}

NoRow == [status |-> "absent", by |-> NoRecord, keys |-> {}]

Idle == [pc |-> "idle", rec |-> NoRecord, group |-> {}, verdict |-> "none", at |-> 0,
         open |-> {}, rows |-> 0, dups |-> 0, kept |-> {}, gone |-> {}]

Present    == {r \in Records : row[r].status # "absent"}
Removed    == {r \in Records : row[r].status = "removed"}
Superseded == {r \in Records : row[r].by # NoRecord}

\* get_active_publications.
Active == {r \in Records : row[r].status = "retained" /\ row[r].by = NoRecord}

\* DuplicateGroupBuilder: the connected components, of two records or more,
\* of the relation "carry a common strong identifier".
Apart(S, T) == \A r \in S, s \in T : row[r].keys \cap row[s].keys = {}

GroupsOf(S) ==
  {g \in Groups :
     /\ g \subseteq S /\ Apart(g, S \ g)
     /\ \A h \in SUBSET g : h # {} /\ h # g => ~Apart(h, g \ h)}

Canonical(g) == CHOOSE r \in g : \A s \in g : r <= s

\* materialize_candidate_group_projection, at the end of every transaction
\* that changes the active set: each group in the response is observed.
Materialized == snapshots' = snapshots \cup GroupsOf(Active)' \cup merges'

-----------------------------------------------------------------------------
Init ==
  /\ row = [r \in Records |-> NoRow]
  /\ archive = {}
  /\ log = [r \in Records |-> [status |-> "none", at |-> 0]]
  /\ decision = [g \in Groups |-> "none"]
  /\ merges = {} /\ snapshots = {} /\ screened = {}
  /\ final = [count |-> 0, at |-> 0, admitted |-> {}]
  /\ worker = [w \in Workers |-> Idle]
  /\ clock = 0 /\ calls = 0 /\ replaced = {}

At(w, pc) == worker[w].pc = pc
Call(w) == At(w, "idle") /\ calls < MaxCalls /\ calls' = calls + 1
Move(w, me) == worker' = [worker EXCEPT ![w] = me]
Return(w) == Move(w, Idle)

\* An import, one transaction that writes the row and refreshes the
\* projection.  Nothing locks it.  A record that is in the project is skipped
\* when a document has its source first among its provenance, and a merged
\* document has the source of any of its members first: then the row of the
\* canonical is written again, which keeps its status and its superseded_by
\* and replaces the document.
Import(w, r) ==
  /\ At(w, "idle")
  /\ row' = [row EXCEPT ![r] = [status |-> IF row[r].status = "absent" THEN "retained" ELSE row[r].status,
                                by |-> row[r].by, keys |-> Identifiers[r]]]
  /\ row' # row
  /\ replaced' = IF r \in Present THEN replaced \cup {r} ELSE replaced
  /\ UNCHANGED <<archive, log, decision, merges>>
  /\ Materialized
  /\ UNCHANGED <<screened, final, worker, clock, calls>>

-----------------------------------------------------------------------------
(* Pre-screening removal and restoration.  The checks and the timestamp    *)
(* come before the transaction that applies the change.                    *)

\* _ensure_modifiable.  It runs twice in a removal; a finalisation and a
\* formal decision are never undone, so the two runs are one.
Modifiable(r) == final.count = 0 /\ r \notin screened

EditBegin(w, r, pc) ==
  /\ Call(w)
  /\ r \in Present /\ Modifiable(r)
  /\ Move(w, [worker[w] EXCEPT !.pc = pc, !.rec = r, !.at = clock + 1])
  /\ clock' = clock + 1
  /\ UNCHANGED <<corpus, duplicates, screened, final>>

\* save_decision appends; the latest decision is the one with the latest
\* decided_at, which is not always the last one written.
Logged(w, status) ==
  log' = [log EXCEPT ![worker[w].rec] =
            IF worker[w].at >= @.at THEN [status |-> status, at |-> worker[w].at] ELSE @]

RemoveCommit(w) ==
  /\ At(w, "remove")
  /\ archive' = archive \cup {worker[w].rec}
  /\ Logged(w, "removed")
  /\ row' = [row EXCEPT ![worker[w].rec].status = "removed"]
  /\ UNCHANGED <<decision, merges, replaced>>
  /\ Materialized
  /\ Return(w)
  /\ UNCHANGED <<screened, final, clock, calls>>

\* Mutants: the archived copy is left behind; the groups are not observed.
RestoreCommitKeepsArchive(w) ==
  /\ At(w, "restore")
  /\ archive' = archive
  /\ Logged(w, "retained")
  /\ row' = [row EXCEPT ![worker[w].rec].status = "retained"]
  /\ UNCHANGED <<decision, merges, replaced>>
  /\ Materialized
  /\ Return(w)
  /\ UNCHANGED <<screened, final, clock, calls>>

RestoreCommitNoProjection(w) ==
  /\ At(w, "restore")
  /\ archive' = archive \ {worker[w].rec}
  /\ Logged(w, "retained")
  /\ row' = [row EXCEPT ![worker[w].rec].status = "retained"]
  /\ UNCHANGED <<duplicates, replaced>>
  /\ Return(w)
  /\ UNCHANGED <<screened, final, clock, calls>>

RestoreCommit(w) ==
  /\ At(w, "restore")
  /\ archive' = archive \ {worker[w].rec}
  /\ Logged(w, "retained")
  /\ row' = [row EXCEPT ![worker[w].rec].status = "retained"]
  /\ UNCHANGED <<decision, merges, replaced>>
  /\ Materialized
  /\ Return(w)
  /\ UNCHANGED <<screened, final, clock, calls>>

-----------------------------------------------------------------------------
(* Duplicate review.                                                       *)

\* record_decision: find the group, look for a merge, save; a connection each.
DecideFind(w, g, verdict) ==
  /\ Call(w)
  /\ g \in GroupsOf(Active) \cup merges
  /\ Move(w, [worker[w] EXCEPT !.pc = "decideCheck", !.group = g, !.verdict = verdict])
  /\ UNCHANGED <<corpus, duplicates, screened, final, clock>>

DecideCheck(w) ==
  /\ At(w, "decideCheck")
  /\ Move(w, IF worker[w].group \in merges THEN Idle
             ELSE [worker[w] EXCEPT !.pc = "decideSave"])
  /\ UNCHANGED <<corpus, duplicates, screened, final, clock, calls>>

DecideSave(w) ==
  /\ At(w, "decideSave")
  /\ decision' = [decision EXCEPT ![worker[w].group] = worker[w].verdict]
  /\ Return(w)
  /\ UNCHANGED <<corpus, merges, snapshots, screened, final, clock, calls>>

\* Mutant: the canonical document does not take over the members' identifiers.
MergeGroupKeepsDocument(w, g) ==
  /\ At(w, "idle")
  /\ g \in GroupsOf(Active) /\ g \notin merges
  /\ decision[g] \in {"none", "approve"}
  /\ decision' = [decision EXCEPT ![g] = "approve"]
  /\ merges' = merges \cup {g}
  /\ row' = [r \in Records |->
       IF r \in g /\ r # Canonical(g) THEN [row[r] EXCEPT !.by = Canonical(g)] ELSE row[r]]
  /\ UNCHANGED <<archive, log, replaced>>
  /\ Materialized
  /\ UNCHANGED <<screened, final, worker, clock, calls>>

\* merge_group, one transaction.  A group that is not live is found only
\* through its merge, and then refused.  The merge policy may also refuse
\* the documents, which changes nothing.
MergeGroup(w, g) ==
  /\ At(w, "idle")
  /\ g \in GroupsOf(Active) /\ g \notin merges
  /\ decision[g] \in {"none", "approve"}
  /\ decision' = [decision EXCEPT ![g] = "approve"]
  /\ merges' = merges \cup {g}
  /\ row' = [r \in Records |->
       IF r \notin g THEN row[r]
       ELSE IF r = Canonical(g)
            THEN [row[r] EXCEPT !.keys = UNION {row[s].keys : s \in g}]
            ELSE [row[r] EXCEPT !.by = Canonical(g)]]
  /\ UNCHANGED <<archive, log, replaced>>
  /\ Materialized
  /\ UNCHANGED <<screened, final, worker, clock, calls>>

-----------------------------------------------------------------------------
(* Rebuild of the derived state: the lock is tested before the transaction.*)

RebuildBegin(w) ==
  /\ Call(w)
  /\ final.count = 0
  /\ Move(w, [worker[w] EXCEPT !.pc = "rebuild"])
  /\ UNCHANGED <<corpus, duplicates, screened, final, clock>>

\* Groups of the whole population, removed and superseded rows included.
Tainted == {g \in GroupsOf(Present) : g \cap Removed # {}}

\* Normalising the active rows changes no identifier the groups are built
\* from; reconcile_with_active_corpus then deletes tainted state.
RebuildCommit(w) ==
  /\ At(w, "rebuild")
  /\ merges' = {g \in merges \ Tainted : g \cap Removed = {}}
  /\ decision' = [g \in Groups |-> IF g \in Tainted THEN "none" ELSE decision[g]]
  /\ UNCHANGED corpus
  /\ Materialized
  /\ Return(w)
  /\ UNCHANGED <<screened, final, clock, calls>>

-----------------------------------------------------------------------------
(* A formal screening decision.  Readiness is derived from reads on        *)
(* separate connections; the record is looked up again; then it is saved.  *)

ScreenRead(w, r) ==
  /\ Call(w)
  /\ r \in Active
  /\ Move(w, [worker[w] EXCEPT !.pc = "screenDecisions", !.rec = r, !.open = GroupsOf(Active)])
  /\ UNCHANGED <<corpus, duplicates, screened, final, clock>>

ScreenDecisions(w) ==
  /\ At(w, "screenDecisions")
  /\ Move(w, [worker[w] EXCEPT !.pc = "screenMerges", !.open = {g \in @ : decision[g] # "reject"}])
  /\ UNCHANGED <<corpus, duplicates, screened, final, clock, calls>>

\* evaluate_duplicate_readiness, then the filter on admitted records.
ScreenMerges(w) ==
  /\ At(w, "screenMerges")
  /\ Move(w, IF /\ worker[w].open \subseteq merges
                /\ final.count = 0 \/ worker[w].rec \in final.admitted
             THEN [Idle EXCEPT !.pc = "screenRecheck", !.rec = worker[w].rec] ELSE Idle)
  /\ UNCHANGED <<corpus, duplicates, screened, final, clock, calls>>

ScreenRecheck(w) ==
  /\ At(w, "screenRecheck")
  /\ Move(w, IF worker[w].rec \in Active THEN [worker[w] EXCEPT !.pc = "screenSave"] ELSE Idle)
  /\ UNCHANGED <<corpus, duplicates, screened, final, clock, calls>>

ScreenSave(w) ==
  /\ At(w, "screenSave")
  /\ screened' = screened \cup {worker[w].rec}
  /\ Return(w)
  /\ UNCHANGED <<corpus, duplicates, final, clock, calls>>

-----------------------------------------------------------------------------
(* finalize_corpus: a chain of reads, then one insert.                     *)

FinalizeBegin(w) ==
  /\ Call(w) /\ final.count = 0
  /\ Move(w, [worker[w] EXCEPT !.pc = "finalizeRows"])
  /\ UNCHANGED <<corpus, duplicates, screened, final, clock>>

\* Mutant: the superseded rows are taken off the source count.
FinalizeRowsNet(w) ==
  /\ At(w, "finalizeRows")
  /\ Move(w, [worker[w] EXCEPT !.pc = "finalizeCount",
                               !.rows = Cardinality(Active) - Cardinality(Superseded)])
  /\ UNCHANGED <<corpus, duplicates, screened, final, clock, calls>>

FinalizeRows(w) ==
  /\ At(w, "finalizeRows")
  /\ Move(w, [worker[w] EXCEPT !.pc = "finalizeCount", !.rows = Cardinality(Present)])
  /\ UNCHANGED <<corpus, duplicates, screened, final, clock, calls>>

FinalizeCount(w) ==
  /\ At(w, "finalizeCount")
  /\ Move(w, [worker[w] EXCEPT !.pc = "finalizePrepare", !.dups = Cardinality(Superseded)])
  /\ UNCHANGED <<corpus, duplicates, screened, final, clock, calls>>

\* prepared_records: the disposition comes from the latest logged decision,
\* not from the row.  Its reads are taken as one.
FinalizePrepare(w) ==
  /\ At(w, "finalizePrepare")
  /\ Move(w, [worker[w] EXCEPT !.pc = "finalizeSave", !.at = clock + 1,
       !.kept = {r \in Present \ Superseded : log[r].status # "removed"},
       !.gone = {r \in Present \ Superseded : log[r].status = "removed"}])
  /\ clock' = clock + 1
  /\ UNCHANGED <<corpus, duplicates, screened, final, calls>>

\* The counts must add up, or nothing is saved.  The latest event counts.
FinalizeSave(w) ==
  /\ At(w, "finalizeSave")
  /\ final' =
       LET me == worker[w]
       IN  IF me.dups + Cardinality(me.gone) + Cardinality(me.kept) # me.rows THEN final
           ELSE [count |-> final.count + 1,
                 at |-> IF me.at >= final.at THEN me.at ELSE final.at,
                 admitted |-> IF me.at >= final.at THEN me.kept ELSE final.admitted]
  /\ Return(w)
  /\ UNCHANGED <<corpus, duplicates, screened, clock, calls>>

-----------------------------------------------------------------------------
Next ==
  \E w \in Workers :
    \/ \E r \in Records : Import(w, r)
    \/ \E g \in Groups : MergeGroup(w, g)
    \/ \E r \in Records : EditBegin(w, r, "remove")
    \/ \E r \in Records : EditBegin(w, r, "restore")
    \/ RemoveCommit(w) \/ RestoreCommit(w)
    \/ \E g \in Groups, v \in {"approve", "reject"} : DecideFind(w, g, v)
    \/ DecideCheck(w) \/ DecideSave(w)
    \/ RebuildBegin(w) \/ RebuildCommit(w)
    \/ \E r \in Records : ScreenRead(w, r)
    \/ ScreenDecisions(w) \/ ScreenMerges(w) \/ ScreenRecheck(w) \/ ScreenSave(w)
    \/ FinalizeBegin(w) \/ FinalizeRows(w) \/ FinalizeCount(w) \/ FinalizePrepare(w) \/ FinalizeSave(w)

Spec == Init /\ [][Next]_vars

-----------------------------------------------------------------------------
(* Properties.                                                             *)

Row == [status : {"absent", "retained", "removed"}, by : Records \cup {NoRecord},
        keys : SUBSET Keys]

PCs == {"idle", "remove", "restore", "decideCheck", "decideSave", "rebuild",
        "screenDecisions", "screenMerges", "screenRecheck", "screenSave",
        "finalizeRows", "finalizeCount", "finalizePrepare", "finalizeSave"}

WorkerRecord ==
  [pc : PCs, rec : Records \cup {NoRecord}, group : Groups \cup {{}},
   verdict : {"none", "approve", "reject"}, at : Nat, open : SUBSET Groups,
   rows : Nat, dups : Nat, kept : SUBSET Records, gone : SUBSET Records]

\* Every table and every handler's locals keep their shape.
TypeOK ==
  /\ row \in [Records -> Row]
  /\ archive \subseteq Records
  /\ log \in [Records -> [status : {"none", "retained", "removed"}, at : Nat]]
  /\ decision \in [Groups -> {"none", "approve", "reject"}]
  /\ merges \subseteq Groups /\ snapshots \subseteq Groups /\ screened \subseteq Records
  /\ final \in [count : Nat, at : Nat, admitted : SUBSET Records]
  /\ worker \in [Workers -> WorkerRecord]
  /\ clock \in Nat /\ calls \in Nat /\ replaced \subseteq Records

\* A superseded record's place is taken by an older one that carries all its
\* identifiers, through any chain of merges, removals and restorations, unless
\* an import has replaced the merged document.  So a later import of the same
\* work is grouped with the record that stands for it, and following
\* superseded_by ends.
CanonicalStandsForMerged ==
  \A r \in Superseded :
    /\ row[r].by < r
    /\ row[r].by \notin replaced => row[r].keys \subseteq row[row[r].by].keys

\* An import of a record that is in the project changes nothing: a document
\* does not lose the identifiers a merge gave it.
ReimportIsSkipped == [][\A r \in Present : row[r].keys \subseteq row'[r].keys]_vars

\* The archive holds exactly the removed records, whatever edits interleave:
\* a removed record can be shown and restored, a retained one is not listed.
ArchiveMirrorsStatus == archive = Removed

\* A group a reviewer decided or merged has an observed membership: import
\* review relies on it to refuse deleting a record that a decision is about,
\* long after the live groups have changed.
DecidedGroupIsObserved ==
  \A g \in Groups : decision[g] # "none" \/ g \in merges => g \in snapshots

-----------------------------------------------------------------------------
(* What the code means to keep and two handlers break: each is violated on   *)
(* its own by two threads (CorpusRaces.cfg), the last two by one.            *)

\* A merged group keeps the approval it was merged under: broken by a merge
\* between the look of record_decision and its save.
MergedGroupStaysApproved == \A g \in merges : decision[g] = "approve"

\* A record with a formal screening decision is not removed before screening:
\* broken by a decision between the check of a removal and its transaction.
ScreenedRecordIsNotRemoved == screened \cap Removed = {}

\* The row and the decision log tell the same story: finalisation reads the
\* log, every list and count reads the row.  Broken by two edits of a record
\* that commit in the other order than their timestamps.
LogAgreesWithRow ==
  \A r \in Present : row[r].status = "removed" <=> log[r].status = "removed"

\* A formal decision is saved only for an active record, at a moment when
\* every live group is merged or rejected: broken by anything between the
\* reads of readiness and the save.
Ready == \A g \in GroupsOf(Active) : g \in merges \/ decision[g] = "reject"

DecisionsNeedReadyInput ==
  [][screened' # screened => Ready /\ screened' \ screened \subseteq Active]_vars

\* A finalisation admits exactly the active corpus of the moment it is saved,
\* although it is put together from five reads of three tables: broken by a
\* removal between its reads and its insert.
FinalizationIsExact == [][final' # final => final'.admitted = Active]_vars

\* Once the corpus is finalised, no event adds to or replaces the admitted set:
\* broken by two finalisations that both find none.
FinalizedOnce == [][final.count > 0 => final' = final]_vars

RebuildEnds == \E w \in Workers : At(w, "rebuild") /\ worker'[w].pc # "rebuild"

\* A rebuild leaves no reviewer decision about a removed publication: broken by
\* an import that makes the decided group grow (CorpusRebuilt.cfg).
RebuildForgetsRemovedDecisions ==
  [][RebuildEnds =>
       \A g \in Groups : g \cap Removed # {} => decision'[g] = "none"]_vars

\* Finalisation freezes the screening population, who was in it stays in it:
\* broken by a merge after finalisation (CorpusFrozen.cfg).
Population == Active \cap final.admitted

PopulationIsFrozen == [][final.count > 0 => Population \subseteq Population']_vars
===============================================================================
