------------------------------- MODULE FetchAll -------------------------------
(***************************************************************************)
(* The "fetch all available results" job of one project: an asyncio task   *)
(* that pages through every selected provider, a durable checkpoint row    *)
(* per search run, resume from those rows, cooperative cancellation from a *)
(* thread-pool handler, and finalisation into result snapshots.            *)
(*                                                                         *)
(* Three things run concurrently: the task (event loop), one cancel        *)
(* handler (a plain `def` endpoint, so a worker thread), and the process   *)
(* itself, which may die and come back with only the database.             *)
(*                                                                         *)
(* Abstractions.  A record is its DOI; a cursor is the number of the page  *)
(* it asks for, NoCursor is None.  A run id is the job that drew it, so    *)
(* <<p, k>> is the run provider p was given by job k.  Counters that only  *)
(* feed the progress display (raw, mapped, malformed) are left out, and so *)
(* is the registry's pruning of finished jobs.                             *)
(***************************************************************************)
EXTENDS Integers, Sequences, FiniteSets

CONSTANTS
  Providers,   \* the providers a strategy selects
  Order,       \* the sequence in which the provider factory returns them
  Crossref,    \* providers whose per-record diagnostics are checkpointed
  Records,     \* records, identified by normalised DOI
  Rejected,    \* records the canonical query or the local filters drop
  LastPage,    \* number of pages a provider holds
  Content,     \* Content[p][n]: the records on page n of provider p
  Refuted,     \* <<j, r>>: what job j merges for r from several providers fails the query
  MaxPages,    \* max_pages_per_provider, the per-execution page budget
  MaxRecords,  \* max_records_per_provider, the per-execution record budget
  MaxJobs,     \* bound: jobs created, started or resumed
  MaxStarts,   \* bound: jobs started from scratch
  MaxFaults,   \* bound: process deaths and database or factory errors
  MaxCancels   \* bound: cancel requests

Jobs  == 1 .. MaxJobs
Pages == 1 .. LastPage

NoCursor == 0
NoJob    == 0
NoRun    == 0

ASSUME FetchAllAssumption ==
  /\ MaxJobs \in Nat /\ MaxStarts \in Nat /\ MaxFaults \in Nat /\ MaxCancels \in Nat
  /\ LastPage \in Nat \ {0} /\ MaxPages \in Nat \ {0} /\ MaxRecords \in Nat \ {0}
  /\ Order \in Seq(Providers) /\ Crossref \subseteq Providers
  /\ \A i, j \in 1 .. Len(Order) : Order[i] = Order[j] => i = j
  /\ Rejected \subseteq Records /\ IsFiniteSet(Records)
  /\ Content \in [Providers -> [Pages -> SUBSET Records]]
  /\ Refuted \subseteq Jobs \X Records

VARIABLES
  \* volatile: the in-process registry and the two threads of control
  job,      \* _jobs: status, cancel_requested, whether resumed, whether result is set
  ps,       \* FetchAllJob.providers of every job
  active,   \* _active_by_project for the one project
  task,     \* program counter of the task running _run
  source,   \* the checkpoints start_resume_job hands to the task
  cancel,   \* program counter of a request_cancel call
  \* durable: the SQLite tables
  cps,      \* search_run_checkpoints
  snaps,    \* search_result_snapshots
  audit,    \* retrieved_count of search_run_audits
  \* history, for the properties only
  answered, \* pages a provider has answered in a run
  admitted, \* records a run's checkpoint has ever counted as kept
  high,     \* the furthest page position a run's checkpoint has reached since
            \* the provider last sent the run back to an earlier page
  \* bounds
  faults, cancels

durable  == <<cps, snaps, audit>>
history  == <<answered, admitted, high>>
bounds   == <<faults, cancels>>
vars == <<job, ps, active, task, source, cancel, cps, snaps, audit,
          answered, admitted, high, faults, cancels>>

-----------------------------------------------------------------------------
(* Shapes of the records.                                                  *)

ProviderStatus == {"pending", "running", "complete", "partial", "cancelled", "failed"}
JobStatus      == {"none", "running", "completed", "cancelled", "failed", "gone"}
Cursors        == {NoCursor} \cup Pages

Checkpoint ==
  [job : Jobs \cup {NoJob}, cursor : Cursors, fetched : Nat, kept : Nat,
   status : ProviderStatus, resumable : BOOLEAN, diag : SUBSET Records]

ProviderState ==
  [status : ProviderStatus, resumable : BOOLEAN, cursor : Cursors,
   fetched : Nat, kept : Nat, recs : SUBSET Records, seen : SUBSET Records,
   run : Jobs \cup {NoRun}, start : Cursors, execPages : Nat, execFetched : Nat]

NoCheckpoint ==
  [job |-> NoJob, cursor |-> NoCursor, fetched |-> 0, kept |-> 0,
   status |-> "pending", resumable |-> FALSE, diag |-> {}]

FreshProvider ==
  [status |-> "pending", resumable |-> FALSE, cursor |-> NoCursor,
   fetched |-> 0, kept |-> 0, recs |-> {}, seen |-> {},
   run |-> NoRun, start |-> NoCursor, execPages |-> 0, execFetched |-> 0]

NoSource  == [p \in Providers |-> [run |-> NoRun, cp |-> NoCheckpoint]]
IdleTask  == [step |-> "idle", job |-> NoJob, i |-> 1, after |-> "loop",
              cur |-> NoCursor, res |-> FALSE, asked |-> {}]
IdleCancel == [step |-> "idle", job |-> NoJob, i |-> 1, n |-> 0,
               run |-> NoRun, row |-> NoCheckpoint]

\* Position of a cursor on the line of pages: None lies beyond the last page.
Position(c) == IF c = NoCursor THEN LastPage + 1 ELSE c

-----------------------------------------------------------------------------
Init ==
  /\ job = [j \in Jobs |-> [status |-> "none", cancelled |-> FALSE,
                            resumed |-> FALSE, result |-> FALSE]]
  /\ ps = [j \in Jobs |-> [p \in Providers |-> FreshProvider]]
  /\ active = NoJob
  /\ task = IdleTask
  /\ source = NoSource
  /\ cancel = IdleCancel
  /\ cps = [p \in Providers |-> [k \in Jobs |-> NoCheckpoint]]
  /\ snaps = [p \in Providers |-> [k \in Jobs |-> {}]]
  /\ audit = [p \in Providers |-> [k \in Jobs |-> 0]]
  /\ answered = [p \in Providers |-> [k \in Jobs |-> {}]]
  /\ admitted = [p \in Providers |-> [k \in Jobs |-> {}]]
  /\ high = [p \in Providers |-> [k \in Jobs |-> 0]]
  /\ faults = 0 /\ cancels = 0

\* Moving the task's program counter.
Goto(step) == task' = [task EXCEPT !.step = step]

\* Hand a checkpoint to WriteCheckpoint, which continues at `after`.
GotoWrite(cur, res, after) ==
  task' = [task EXCEPT !.step = "write", !.cur = cur, !.res = res, !.after = after]

\* The provider the task is at, and its mutable state.
Prov  == Order[task.i]
State == ps[task.job][Prov]

\* _save_checkpoint, first half: draw a run id if there is none, set the
\* resumable flag, and build the row from the state as it is now.
Prepared(j, p, res) ==
  [ps EXCEPT ![j][p].run = IF @ = NoRun THEN j ELSE @, ![j][p].resumable = res]

RunOf(j, p) == IF ps[j][p].run = NoRun THEN j ELSE ps[j][p].run

Row(j, p, cur, res) ==
  LET s == ps[j][p]
  IN  [job |-> j, cursor |-> cur, fetched |-> s.fetched, kept |-> s.kept,
       status |-> s.status, resumable |-> res,
       diag |-> IF p \in Crossref THEN s.seen ELSE {}]

\* Second half: one upsert, keyed by the run id, that replaces every column
\* whatever the row held.
Upsert(p, k, row) ==
  /\ cps' = [cps EXCEPT ![p][k] = row]
  /\ high' = [high EXCEPT ![p][k] =
                IF Position(row.cursor) > @ THEN Position(row.cursor) ELSE @]

-----------------------------------------------------------------------------
(* Starting and resuming: async handlers, so one step of the event loop.   *)

\* Job ids are drawn in order.
Unused(j) == job[j].status = "none" /\ \A i \in 1 .. j - 1 : job[i].status # "none"

\* Mutant: the one-job-per-project check is gone.
NewJobUnchecked(j, resumed) ==
  /\ Unused(j)
  /\ job' = [job EXCEPT ![j].status = "running", ![j].resumed = resumed]
  /\ active' = j
  /\ task' = [IdleTask EXCEPT !.step = "init", !.job = j]
  /\ UNCHANGED <<ps, cancel, durable, history, bounds>>

NewJob(j, resumed) ==
  /\ active = NoJob
  /\ Unused(j)
  /\ job' = [job EXCEPT ![j].status = "running", ![j].resumed = resumed]
  /\ active' = j
  /\ task' = [IdleTask EXCEPT !.step = "init", !.job = j]
  /\ UNCHANGED <<ps, cancel, durable, history, bounds>>

Start(j) ==
  /\ Cardinality({i \in Jobs : job[i].status # "none" /\ ~job[i].resumed}) < MaxStarts
  /\ NewJob(j, FALSE)
  /\ source' = NoSource

\* start_resume_job for a chosen past job; without an id the code picks the
\* latest one, which is one of these choices.  A job has one row per provider.
Resume(j, old) ==
  /\ \E p \in Providers, k \in Jobs : cps[p][k].job = old /\ cps[p][k].resumable
  /\ NewJob(j, TRUE)
  /\ source' = [p \in Providers |->
       IF \E k \in Jobs : cps[p][k].job = old
       THEN LET k == CHOOSE k \in Jobs : cps[p][k].job = old
            IN  [run |-> k, cp |-> cps[p][k]]
       ELSE [run |-> NoRun, cp |-> NoCheckpoint]]

-----------------------------------------------------------------------------
(* The task: _run, its provider loop and its page loop.                    *)

Closed == {"complete", "partial", "failed"}

\* Mutants: a closed provider is opened again; the identities of rejected
\* records are not restored.
RestoredReopens(p) ==
  LET c == source[p].cp
      k == source[p].run
  IN  IF k = NoRun THEN FreshProvider
      ELSE [FreshProvider EXCEPT
              !.status = "pending", !.resumable = TRUE, !.cursor = c.cursor,
              !.fetched = c.fetched, !.kept = c.kept,
              !.recs = snaps[p][k], !.seen = snaps[p][k] \cup c.diag, !.run = k]

RestoredForgets(p) ==
  LET c == source[p].cp
      k == source[p].run
  IN  IF k = NoRun THEN FreshProvider
      ELSE [FreshProvider EXCEPT
              !.status = IF c.status \in Closed /\ ~c.resumable THEN c.status ELSE "pending",
              !.resumable = c.resumable, !.cursor = c.cursor,
              !.fetched = c.fetched, !.kept = c.kept,
              !.recs = snaps[p][k], !.seen = snaps[p][k], !.run = k]

\* The state a provider starts a job with: its checkpoint's counters, the
\* records its run has in snapshots, and the identities already counted.
Restored(p) ==
  LET c == source[p].cp
      k == source[p].run
  IN  IF k = NoRun THEN FreshProvider
      ELSE [FreshProvider EXCEPT
              !.status = IF c.status \in Closed /\ ~c.resumable THEN c.status ELSE "pending",
              !.resumable = c.resumable, !.cursor = c.cursor,
              !.fetched = c.fetched, !.kept = c.kept,
              !.recs = snaps[p][k], !.seen = snaps[p][k] \cup c.diag, !.run = k]

BeginJob ==
  /\ task.step = "init"
  /\ ps' = [ps EXCEPT ![task.job] = [p \in Providers |-> Restored(p)]]
  /\ source' = NoSource
  /\ Goto("provider")
  /\ UNCHANGED <<job, active, cancel, durable, history, bounds>>

AtProvider == task.step = "provider" /\ task.i <= Len(Order)

\* A cancel arrived before this provider's turn.
SkipCancelled ==
  /\ AtProvider /\ job[task.job].cancelled
  /\ ps' = [ps EXCEPT ![task.job][Prov].status = "cancelled",
                      ![task.job][Prov].resumable = TRUE]
  /\ GotoWrite(IF State.cursor = NoCursor THEN 1 ELSE State.cursor, TRUE, "provider")
  /\ UNCHANGED <<job, active, source, cancel, durable, history, bounds>>

\* Nothing left to do for this provider: its row only moves to the new job.
CarryOver ==
  /\ AtProvider /\ ~job[task.job].cancelled
  /\ State.status \in Closed /\ ~State.resumable
  /\ GotoWrite(State.cursor, FALSE, "provider")
  /\ UNCHANGED <<job, ps, active, source, cancel, durable, history, bounds>>

\* Mutant: a provider with nothing left to do is run again.
BeginProviderAlways ==
  /\ AtProvider /\ ~job[task.job].cancelled
  /\ LET c == IF State.cursor = NoCursor THEN 1 ELSE State.cursor
     IN  /\ ps' = [ps EXCEPT ![task.job][Prov] =
                     [State EXCEPT !.status = "running", !.cursor = c, !.start = c,
                        !.run = IF State.run = NoRun THEN task.job ELSE State.run]]
         /\ GotoWrite(c, TRUE, "loop")
  /\ UNCHANGED <<job, active, source, cancel, durable, history, bounds>>

BeginProvider ==
  /\ AtProvider /\ ~job[task.job].cancelled
  /\ ~(State.status \in Closed /\ ~State.resumable)
  /\ LET c == IF State.cursor = NoCursor THEN 1 ELSE State.cursor
     IN  /\ ps' = [ps EXCEPT ![task.job][Prov] =
                     [State EXCEPT !.status = "running", !.cursor = c, !.start = c,
                        !.run = IF State.run = NoRun THEN task.job ELSE State.run]]
         /\ GotoWrite(c, TRUE, "loop")
  /\ UNCHANGED <<job, active, source, cancel, durable, history, bounds>>

WriteCheckpoint ==
  /\ task.step = "write"
  /\ ps' = Prepared(task.job, Prov, task.res)
  /\ Upsert(Prov, RunOf(task.job, Prov), Row(task.job, Prov, task.cur, task.res))
  /\ admitted' = [admitted EXCEPT ![Prov][RunOf(task.job, Prov)] = @ \cup State.recs]
  /\ task' = [task EXCEPT !.step = task.after,
                          !.i = IF task.after = "provider" THEN task.i + 1 ELSE task.i,
                          !.asked = IF task.after = "provider" THEN {} ELSE task.asked]
  /\ UNCHANGED <<job, active, source, cancel, snaps, audit, answered, bounds>>

\* End the provider's loop with this status and checkpoint.
StopProvider(status, cur, res, save) ==
  /\ ps' = [ps EXCEPT ![task.job][Prov].status = status,
                      ![task.job][Prov].resumable = res]
  /\ GotoWrite(cur, save, "provider")
  /\ UNCHANGED <<job, active, source, cancel, durable, history, bounds>>

LoopCancelled ==
  /\ task.step = "loop" /\ job[task.job].cancelled
  /\ StopProvider("cancelled", State.cursor, TRUE, TRUE)

\* The page or record budget is spent, or max_seconds has elapsed, which may
\* happen at any turn.  Resumable only if this execution made progress.
LoopLimit ==
  /\ task.step = "loop" /\ ~job[task.job].cancelled
  /\ LET progress == State.cursor # State.start \/ State.execFetched > 0
     IN  StopProvider("partial", State.cursor, progress, progress)

\* task.asked is seen_cursors and the current cursor, which the code adds to
\* it only when it goes on to another page.
Request ==
  /\ task.step = "loop" /\ ~job[task.job].cancelled
  /\ State.execPages < MaxPages /\ State.execFetched < MaxRecords
  /\ task' = [task EXCEPT !.step = "await", !.asked = @ \cup {State.cursor}]
  /\ UNCHANGED <<job, ps, active, source, cancel, durable, history, bounds>>

\* The records of a page not seen in this run are counted, and those that
\* match are kept; then the cursor moves.  A next cursor that is an earlier
\* page takes the run back, and `high` with it.
Received(s, new, cursor, status, resumable) ==
  [s EXCEPT !.execPages = @ + 1, !.execFetched = @ + Cardinality(new),
            !.fetched = @ + Cardinality(new), !.kept = @ + Cardinality(new \ Rejected),
            !.recs = @ \cup (new \ Rejected), !.seen = @ \cup new,
            !.cursor = cursor, !.status = status, !.resumable = resumable]

Receive(records, cursor, status, resumable) ==
  /\ ps' = [ps EXCEPT ![task.job][Prov] =
              Received(State, records \ State.seen, cursor, status, resumable)]
  /\ answered' = [answered EXCEPT ![Prov][State.run] = @ \cup {State.cursor}]
  /\ high' = [high EXCEPT ![Prov][State.run] =
                IF cursor # NoCursor /\ cursor < @ THEN cursor ELSE @]
  /\ UNCHANGED <<job, active, source, cancel, durable, admitted, bounds>>

\* The next cursors a provider may hand out: the page after this one, or any
\* page before it.
NextCursors == {c \in Pages : c <= State.cursor + 1}

\* Mutant: the in-flight checkpoint is not marked resumable.
PageNextNotResumable ==
  /\ task.step = "await"
  /\ \E c \in NextCursors \ task.asked :
       /\ Receive(Content[Prov][State.cursor], c, State.status, State.resumable)
       /\ GotoWrite(c, FALSE, "loop")

PageNext ==
  /\ task.step = "await"
  /\ \E c \in NextCursors \ task.asked :
       /\ Receive(Content[Prov][State.cursor], c, State.status, State.resumable)
       /\ GotoWrite(c, TRUE, "loop")

\* Mutant: the last page is treated as one that has a successor.
PageLastAdvances ==
  /\ task.step = "await"
  /\ Receive(Content[Prov][State.cursor], State.cursor + 1, "complete", FALSE)
  /\ GotoWrite(NoCursor, FALSE, "provider")

\* No further cursor: the real last page, or the provider's retrieval cap.
PageLast ==
  /\ task.step = "await"
  /\ Receive(Content[Prov][State.cursor], NoCursor, "complete", FALSE)
  /\ GotoWrite(NoCursor, FALSE, "provider")

\* An empty page that claims more, with whatever cursor it carries: the test
\* for a repeated cursor comes later.  The state says not resumable, the
\* checkpoint call that follows says resumable.
PageEmpty ==
  /\ task.step = "await"
  /\ \E c \in NextCursors :
       /\ Receive({}, c, "partial", FALSE)
       /\ GotoWrite(c, TRUE, "provider")

\* The provider hands out a cursor it already served in this execution.
PageRepeated ==
  /\ task.step = "await"
  /\ \E c \in NextCursors \cap task.asked :
       /\ Receive(Content[Prov][State.cursor], c, "partial", FALSE)
       /\ GotoWrite(c, FALSE, "provider")

\* Mutant: a page that fails is skipped instead of kept for the resume.
FetchFailsSkips ==
  /\ task.step = "await" /\ State.cursor < LastPage
  /\ StopProvider(IF State.fetched > 0 THEN "partial" ELSE "failed",
                  State.cursor + 1, TRUE, TRUE)

\* Retries are exhausted: keep the cursor so the page can be asked for again.
FetchFails ==
  /\ task.step = "await"
  /\ StopProvider(IF State.fetched > 0 THEN "partial" ELSE "failed",
                  State.cursor, TRUE, TRUE)

\* The pinned candidate plan no longer matches the physical cursor.
PlanIncompatible ==
  /\ task.step = "await" /\ Prov \in Crossref
  /\ StopProvider("failed", State.cursor, FALSE, FALSE)

-----------------------------------------------------------------------------
(* _finalize_job.  The status turns terminal first, the result comes last. *)

ProvidersRun == {Order[i] : i \in 1 .. Len(Order)}

FinalizeStatus ==
  /\ task.step = "provider" /\ task.i > Len(Order)
  /\ job' = [job EXCEPT ![task.job].status =
       IF \/ job[task.job].cancelled
          \/ \E p \in ProvidersRun : ps[task.job][p].status = "cancelled"
       THEN "cancelled" ELSE "completed"]
  /\ task' = [task EXCEPT !.step = "audit", !.i = 1]
  /\ UNCHANGED <<ps, active, source, cancel, durable, history, bounds>>

\* Mutant: the audit counts this execution only.
WriteAuditExecution ==
  /\ task.step = "audit" /\ task.i <= Len(Order)
  /\ audit' = [audit EXCEPT ![Prov][State.run] = State.execFetched]
  /\ task' = [task EXCEPT !.i = @ + 1]
  /\ UNCHANGED <<job, ps, active, source, cancel, cps, snaps, history, bounds>>

\* One audit row per provider, each a transaction of its own.
WriteAudit ==
  /\ task.step = "audit" /\ task.i <= Len(Order)
  /\ audit' = [audit EXCEPT ![Prov][State.run] = State.fetched]
  /\ task' = [task EXCEPT !.i = @ + 1]
  /\ UNCHANGED <<job, ps, active, source, cancel, cps, snaps, history, bounds>>

AuditsWritten ==
  /\ task.step = "audit" /\ task.i > Len(Order)
  /\ Goto("persist")
  /\ UNCHANGED <<job, ps, active, source, cancel, durable, history, bounds>>

\* ResultMerger folds equal DOIs into the first provider that kept them.
Owns(j, i, r) ==
  /\ r \in ps[j][Order[i]].recs
  /\ \A h \in 1 .. i - 1 : r \notin ps[j][Order[h]].recs

\* A publication merged from the copies of several providers is validated
\* again, and is not saved when it no longer matches the query; a copy that
\* was not merged with another has passed that test already.
Dropped(j, r) ==
  /\ <<j, r>> \in Refuted
  /\ \E p, q \in ProvidersRun : p # q /\ r \in ps[j][p].recs /\ r \in ps[j][q].recs

\* Mutant: only the first provider's records are persisted.
UnsavedFirstOnly(j) ==
  {x \in {1} \X Records :
     /\ Owns(j, x[1], x[2]) /\ ~Dropped(j, x[2])
     /\ x[2] \notin snaps[Order[x[1]]][ps[j][Order[x[1]]].run]}

Unsaved(j) ==
  {x \in (1 .. Len(Order)) \X Records :
     /\ Owns(j, x[1], x[2]) /\ ~Dropped(j, x[2])
     /\ x[2] \notin snaps[Order[x[1]]][ps[j][Order[x[1]]].run]}

PersistSnapshot ==
  /\ task.step = "persist"
  /\ \E x \in Unsaved(task.job) :
       LET p == Order[x[1]]
       IN  snaps' = [snaps EXCEPT ![p][ps[task.job][p].run] = @ \cup {x[2]}]
  /\ UNCHANGED <<job, ps, active, task, source, cancel, cps, audit, history, bounds>>

PublishResult ==
  /\ task.step = "persist" /\ Unsaved(task.job) = {}
  /\ job' = [job EXCEPT ![task.job].result = TRUE]
  /\ Goto("release")
  /\ UNCHANGED <<ps, active, source, cancel, durable, history, bounds>>

\* Mutant: the slot is not released when the job fails.
JobFailsHoldsSlot ==
  /\ task.step \in {"init", "write", "audit", "persist"} /\ faults < MaxFaults
  /\ job' = [job EXCEPT ![task.job].status = "failed"]
  /\ faults' = faults + 1
  /\ Goto("idle")
  /\ UNCHANGED <<ps, active, source, cancel, durable, history, cancels>>

\* The defensive except of _run: the provider factory or a write raised.
JobFails ==
  /\ task.step \in {"init", "write", "audit", "persist"} /\ faults < MaxFaults
  /\ ps' = IF task.step = "write" THEN Prepared(task.job, Prov, task.res) ELSE ps
  /\ job' = [job EXCEPT ![task.job].status = "failed"]
  /\ faults' = faults + 1
  /\ Goto("release")
  /\ UNCHANGED <<active, source, cancel, durable, history, cancels>>

ReleaseSlot ==
  /\ task.step = "release"
  /\ active' = IF active = task.job THEN NoJob ELSE active
  /\ task' = IdleTask
  /\ source' = NoSource
  /\ UNCHANGED <<job, ps, cancel, durable, history, bounds>>

-----------------------------------------------------------------------------
(* request_cancel, in a worker thread: between any two of its steps the    *)
(* task may run.                                                           *)

CancelBegin(j) ==
  /\ cancel.step = "idle" /\ cancels < MaxCancels
  /\ job[j].status = "running"
  /\ job' = [job EXCEPT ![j].cancelled = TRUE]
  \* job.providers is still empty until the task has begun
  /\ cancel' = [IdleCancel EXCEPT !.step = "check", !.job = j,
                   !.n = IF task.step = "init" THEN 0 ELSE Len(Order)]
  /\ cancels' = cancels + 1
  /\ UNCHANGED <<ps, active, task, source, durable, history, faults>>

CancelTarget == Order[cancel.i]

CancelCheck ==
  /\ cancel.step = "check" /\ cancel.i <= cancel.n
  /\ cancel' = IF ps[cancel.job][CancelTarget].status = "running"
               THEN [cancel EXCEPT !.step = "mark"]
               ELSE [cancel EXCEPT !.i = @ + 1]
  /\ UNCHANGED <<job, ps, active, task, source, durable, history, bounds>>

CancelMark ==
  /\ cancel.step = "mark"
  /\ ps' = [ps EXCEPT ![cancel.job][CancelTarget].status = "cancelled",
                      ![cancel.job][CancelTarget].resumable = TRUE]
  /\ cancel' = [cancel EXCEPT !.step = "build"]
  /\ UNCHANGED <<job, active, task, source, durable, history, bounds>>

\* Mutant: the row of the cancel counts the page in flight as answered.
CancelBuildAhead ==
  /\ cancel.step = "build"
  /\ LET j == cancel.job
         p == CancelTarget
         c == ps[j][p].cursor
     IN  /\ ps' = Prepared(j, p, TRUE)
         /\ cancel' = [cancel EXCEPT !.step = "save", !.run = RunOf(j, p),
                          !.row = Row(j, p, IF c \in 1 .. LastPage - 1 THEN c + 1 ELSE c, TRUE)]
  /\ UNCHANGED <<job, active, task, source, durable, history, bounds>>

\* The row is built from one moment's state and written in a later one.
CancelBuild ==
  /\ cancel.step = "build"
  /\ LET j == cancel.job
         p == CancelTarget
     IN  /\ ps' = Prepared(j, p, TRUE)
         /\ cancel' = [cancel EXCEPT !.step = "save", !.run = RunOf(j, p),
                          !.row = Row(j, p, ps[j][p].cursor, TRUE)]
  /\ UNCHANGED <<job, active, task, source, durable, history, bounds>>

CancelSave ==
  /\ cancel.step = "save"
  /\ Upsert(CancelTarget, cancel.run, cancel.row)
  /\ cancel' = [cancel EXCEPT !.step = "check", !.i = @ + 1]
  /\ UNCHANGED <<job, ps, active, task, source, snaps, audit, answered, admitted, bounds>>

\* The write raises: the handler answers 500 and is gone.
CancelFails ==
  /\ cancel.step = "save" /\ faults < MaxFaults
  /\ faults' = faults + 1
  /\ cancel' = IdleCancel
  /\ UNCHANGED <<job, ps, active, task, source, durable, history, cancels>>

CancelReturn ==
  /\ cancel.step = "check" /\ cancel.i > cancel.n
  /\ cancel' = IdleCancel
  /\ UNCHANGED <<job, ps, active, task, source, durable, history, bounds>>

-----------------------------------------------------------------------------
\* The process dies; the next one starts with the database and nothing else.
Crash ==
  /\ faults < MaxFaults
  /\ faults' = faults + 1
  /\ job' = [j \in Jobs |-> IF job[j].status = "none" THEN job[j]
             ELSE [job[j] EXCEPT !.status = "gone", !.cancelled = FALSE, !.result = FALSE]]
  /\ ps' = [j \in Jobs |-> [p \in Providers |-> FreshProvider]]
  /\ active' = NoJob /\ task' = IdleTask /\ source' = NoSource /\ cancel' = IdleCancel
  /\ UNCHANGED <<durable, history, cancels>>

TaskStep ==
  \/ BeginJob \/ SkipCancelled \/ CarryOver \/ BeginProvider \/ WriteCheckpoint
  \/ LoopCancelled \/ LoopLimit \/ Request
  \/ PageNext \/ PageLast \/ PageEmpty \/ PageRepeated \/ FetchFails \/ PlanIncompatible
  \/ FinalizeStatus \/ WriteAudit \/ AuditsWritten \/ PersistSnapshot \/ PublishResult \/ ReleaseSlot

CancelStep == CancelCheck \/ CancelMark \/ CancelBuild \/ CancelSave \/ CancelReturn

Next ==
  \/ \E j \in Jobs : Start(j)
  \/ \E j, old \in Jobs : Resume(j, old)
  \/ TaskStep
  \/ JobFails
  \/ \E j \in Jobs : CancelBegin(j)
  \/ CancelStep
  \/ CancelFails
  \/ Crash

Spec == Init /\ [][Next]_vars

\* The event loop keeps running its one task, every awaited request returns
\* or raises (the HTTP client has a 30 s timeout), and a handler thread runs on.
Fairness == WF_vars(TaskStep) /\ WF_vars(CancelStep)

FairSpec == Spec /\ Fairness

-----------------------------------------------------------------------------
(* Properties.                                                             *)

JobRecord == [status : JobStatus, cancelled : BOOLEAN, resumed : BOOLEAN, result : BOOLEAN]

TaskSteps == {"idle", "init", "provider", "write", "loop", "await", "audit", "persist", "release"}

TaskRecord ==
  [step : TaskSteps, job : Jobs \cup {NoJob}, i : 1 .. Len(Order) + 1,
   after : {"loop", "provider"}, cur : Cursors, res : BOOLEAN, asked : SUBSET Pages]

CancelRecord ==
  [step : {"idle", "check", "mark", "build", "save"}, job : Jobs \cup {NoJob},
   i : 1 .. Len(Order) + 1, n : 0 .. Len(Order), run : Jobs \cup {NoRun}, row : Checkpoint]

\* Every variable keeps the shape the code's dataclasses and tables give it.
TypeOK ==
  /\ job \in [Jobs -> JobRecord]
  /\ ps \in [Jobs -> [Providers -> ProviderState]]
  /\ active \in Jobs \cup {NoJob}
  /\ task \in TaskRecord
  /\ source \in [Providers -> [run : Jobs \cup {NoRun}, cp : Checkpoint]]
  /\ cancel \in CancelRecord
  /\ cps \in [Providers -> [Jobs -> Checkpoint]]
  /\ snaps \in [Providers -> [Jobs -> SUBSET Records]]
  /\ audit \in [Providers -> [Jobs -> Nat]]
  /\ answered \in [Providers -> [Jobs -> SUBSET Pages]]
  /\ admitted \in [Providers -> [Jobs -> SUBSET Records]]
  /\ high \in [Providers -> [Jobs -> 0 .. LastPage + 1]]
  /\ faults \in Nat /\ cancels \in Nat

\* _active_by_project is an exact lock: a running job holds the slot, and a
\* held slot has a live task that will release it.  Otherwise two tasks page
\* the same run, or the project answers 409 for ever.
SlotIsHeld ==
  /\ \A j \in Jobs : job[j].status = "running" => active = j
  /\ active # NoJob => task.job = active /\ task.step # "idle"

\* A resume starts at the cursor of a row, so a row may never point past a page
\* the provider has not answered: that page's records would be lost for ever,
\* whatever mixture of failures, cancels and restarts wrote the row.
ResumeNeverSkips ==
  \A p \in Providers, k \in Jobs :
    cps[p][k].cursor # NoCursor => 1 .. cps[p][k].cursor - 1 \subseteq answered[p][k]

\* Resuming never asks a provider for a page its run has durably passed,
\* unless the provider itself sent the run back to it.
NoCursorReplay ==
  task.step = "await" => State.cursor >= high[Prov][State.run]

\* A run whose row says complete is never reopened, by any later job.
CompleteIsFinal ==
  [][\A p \in Providers, k \in Jobs :
       cps[p][k].status = "complete" => cps'[p][k].status = "complete"]_vars

\* fetched_count counts distinct records: for Crossref it is the number of
\* checkpointed identities, across resumes and restarts (WP2.1).
CrossrefCountsDistinct ==
  \A p \in Crossref, k \in Jobs : cps[p][k].fetched = Cardinality(cps[p][k].diag)

\* A row that cannot be resumed says why: the run was closed, it was not
\* merely interrupted.
NoRunStranded ==
  \A p \in Providers, k \in Jobs :
    cps[p][k].job # NoJob /\ ~cps[p][k].resumable => cps[p][k].status \in Closed

\* A job that finished, by completing or by a cancel, leaves every record its
\* runs ever counted as kept in a snapshot of some run, unless a finished job
\* merged it from several providers and the merged publication was refuted.
FinishedJobKeepsEveryRecord ==
  active = NoJob =>
    \A j \in Jobs, p \in ProvidersRun, r \in Records :
      /\ job[j].result
      /\ cps[p][ps[j][p].run].job = j
      /\ r \in admitted[p][ps[j][p].run]
      => \/ \E q \in Providers, k \in Jobs : r \in snaps[q][k]
         \/ \E i \in Jobs : job[i].result /\ Dropped(i, r)

\* Once a job has published its result, the audit of a run reports what its
\* checkpoint counted over all the jobs that worked on it, not over the last
\* one.  (A late cancel handler may still rewrite the row of a cancelled job.)
AuditMatchesCheckpoint ==
  \A p \in Providers, k \in Jobs :
    LET j == cps[p][k].job
    IN  j # NoJob /\ job[j].result /\ ~job[j].cancelled => audit[p][k] = cps[p][k].fetched

\* Resuming a search continues each provider's run: a search started once
\* never opens a second run for a provider.
OneRunPerProvider ==
  \A p \in Providers, k, l \in Jobs :
    cps[p][k].job # NoJob /\ cps[p][l].job # NoJob => k = l

\* What get_status answers, between any two steps of the task.  A job the
\* registry does not know is reconstructed from its rows, without a result.
RowStatuses(j) ==
  {cps[x[1]][x[2]].status : x \in {y \in Providers \X Jobs : cps[y[1]][y[2]].job = j}}

ReportedStatus(j) ==
  IF job[j].status # "gone" THEN job[j].status
  ELSE CASE RowStatuses(j) = {}            -> "unknown"
         [] RowStatuses(j) = {"complete"}  -> "completed"
         [] "cancelled" \in RowStatuses(j) -> "cancelled"
         [] "failed" \in RowStatuses(j)    -> "failed"
         [] OTHER                          -> "completed"

\* A status request that sees a job finished also gets its result.
TerminalStatusCarriesResult ==
  \A j \in Jobs :
    ReportedStatus(j) \in {"completed", "cancelled"} => job[j].result

\* Whatever the providers, the database and a cancel do, a job that took the
\* project's slot gives it back.
SlotEventuallyFree == \A j \in Jobs : active = j ~> active # j
=============================================================================
