---------------------------- MODULE FetchAllProofs ----------------------------
(***************************************************************************)
(* Theorems about FetchAll, for every number of providers, pages, records, *)
(* jobs, faults and cancels.                                               *)
(***************************************************************************)
EXTENDS FetchAll, SetFacts, FiniteSetTheorems, TLAPS

\* What the program counters promise about the state they will touch.
Control ==
  /\ task.step # "idle" => task.job \in Jobs
  /\ task.step \in {"write", "loop", "await"} => task.i <= Len(Order)
  /\ task.step \in {"loop", "await"} \/ (task.step = "write" /\ task.after = "loop") =>
       State.cursor # NoCursor /\ State.run # NoRun
  /\ cancel.step # "idle" => cancel.job \in Jobs
  /\ cancel.step \in {"mark", "build", "save"} => cancel.i <= cancel.n
  /\ cancel.step = "save" => cancel.run \in Jobs

TypeInv == TypeOK /\ Control

-----------------------------------------------------------------------------
(* Lemmas about the operators.                                             *)

\* The bounds and the page numbers are what the arithmetic needs them to be.
LEMMA ConstantTypes ==
  /\ LastPage \in Nat /\ LastPage >= 1
  /\ MaxJobs \in Nat
  /\ Len(Order) \in Nat
  /\ \A i \in 1 .. Len(Order) : Order[i] \in Providers
  /\ NoJob \notin Jobs /\ NoRun \notin Jobs /\ NoCursor \notin Pages
  /\ 1 \in Pages
BY FetchAllAssumption DEF FetchAllAssumption, Jobs, Pages, NoJob, NoRun, NoCursor

\* How many records of a page are new, or kept, is a natural number.
LEMMA CountIsNat ==
  ASSUME NEW S \in SUBSET Records
  PROVE  Cardinality(S) \in Nat
BY FetchAllAssumption, FS_Subset, FS_CardinalityType DEF FetchAllAssumption

\* A job starts a provider from a well-formed state.
LEMMA RestoredType ==
  ASSUME TypeOK, NEW p \in Providers
  PROVE  Restored(p) \in ProviderState
<1> DEFINE c == source[p].cp
           k == source[p].run
<1>1. /\ k \in Jobs \cup {NoRun} /\ c \in Checkpoint
      /\ snaps \in [Providers -> [Jobs -> SUBSET Records]]
  BY DEF TypeOK
<1>2. FreshProvider \in ProviderState
  BY ConstantTypes DEF FreshProvider, ProviderState, ProviderStatus, Cursors, NoRun, NoCursor
<1>3. CASE k = NoRun
  BY <1>2, <1>3 DEF Restored
<1>4. CASE k # NoRun
  <2>1. /\ c.status \in ProviderStatus /\ c.resumable \in BOOLEAN /\ c.cursor \in Cursors
        /\ c.fetched \in Nat /\ c.kept \in Nat /\ c.diag \in SUBSET Records
    BY <1>1 DEF Checkpoint
  <2>2. k \in Jobs /\ snaps[p][k] \in SUBSET Records
    BY <1>1, <1>4
  <2>3. "pending" \in ProviderStatus
    BY DEF ProviderStatus
  <2> DEFINE st == IF c.status \in Closed /\ ~c.resumable THEN c.status ELSE "pending"
  <2>4. st \in ProviderStatus
    BY <2>1, <2>3
  <2>5. Restored(p) =
          [status |-> st, resumable |-> c.resumable, cursor |-> c.cursor,
           fetched |-> c.fetched, kept |-> c.kept, recs |-> snaps[p][k],
           seen |-> snaps[p][k] \cup c.diag, run |-> k, start |-> NoCursor,
           execPages |-> 0, execFetched |-> 0]
    BY <1>4 DEF Restored, FreshProvider
  <2> HIDE DEF st, c, k
  <2>6. QED
    BY <2>1, <2>2, <2>4, <2>5 DEF ProviderState, Cursors
<1>5. QED
  BY <1>3, <1>4

-----------------------------------------------------------------------------
(* Type correctness.                                                       *)

\* The row _save_checkpoint builds is well formed, and so is what it leaves in
\* memory, whichever thread of control calls it.
LEMMA RowType ==
  ASSUME TypeOK, NEW j \in Jobs, NEW p \in Providers, NEW cur \in Cursors, NEW res \in BOOLEAN
  PROVE  /\ Row(j, p, cur, res) \in Checkpoint
         /\ RunOf(j, p) \in Jobs
         /\ Prepared(j, p, res) \in [Jobs -> [Providers -> ProviderState]]
<1>1. ps \in [Jobs -> [Providers -> ProviderState]]
  BY DEF TypeOK
<1>2. ps[j][p] \in ProviderState
  BY <1>1
<1>3. Row(j, p, cur, res) \in Checkpoint
  BY <1>2 DEF Row, Checkpoint, ProviderState
<1>4. RunOf(j, p) \in Jobs
  BY <1>2 DEF RunOf, ProviderState
<1>5. Prepared(j, p, res) =
        [ps EXCEPT ![j][p] = [@ EXCEPT !.run = RunOf(j, p), !.resumable = res]]
  BY <1>1, <1>2 DEF Prepared, RunOf, ProviderState
<1>6. [ps[j][p] EXCEPT !.run = RunOf(j, p), !.resumable = res] \in ProviderState
  BY <1>2, <1>4 DEF ProviderState
<1>7. QED
  BY <1>1, <1>3, <1>4, <1>5, <1>6

\* An upsert keeps the tables well formed.
LEMMA UpsertType ==
  ASSUME TypeOK, NEW p \in Providers, NEW k \in Jobs, NEW row \in Checkpoint,
         Upsert(p, k, row)
  PROVE  /\ cps' \in [Providers -> [Jobs -> Checkpoint]]
         /\ high' \in [Providers -> [Jobs -> 0 .. LastPage + 1]]
<1>1. row.cursor \in Cursors
  BY DEF Checkpoint
<1>2. Position(row.cursor) \in 0 .. LastPage + 1
  BY <1>1, ConstantTypes DEF Position, Cursors, Pages, NoCursor
<1>3. high[p][k] \in 0 .. LastPage + 1
  BY DEF TypeOK
<1>4. QED
  BY <1>2, <1>3 DEF TypeOK, Upsert

\* What the loop's counters say of the provider at hand.
LEMMA StateType ==
  ASSUME TypeInv, task.step \in {"write", "loop", "await"}
  PROVE  /\ task.job \in Jobs /\ task.i \in 1 .. Len(Order)
         /\ Prov \in Providers /\ State \in ProviderState
<1>1. task.job \in Jobs /\ task.i <= Len(Order)
  BY DEF TypeInv, Control
<1>2. task.i \in 1 .. Len(Order)
  BY <1>1, ConstantTypes DEF TypeInv, TypeOK, TaskRecord
<1>3. QED
  BY <1>1, <1>2, ConstantTypes DEF TypeInv, TypeOK, Prov, State

LEMMA InitType == Init => TypeInv
<1> SUFFICES ASSUME Init PROVE TypeInv
  OBVIOUS
<1>1. /\ FreshProvider \in ProviderState /\ NoCheckpoint \in Checkpoint
      /\ IdleTask \in TaskRecord
  BY ConstantTypes DEF FreshProvider, ProviderState, ProviderStatus, NoCheckpoint, Checkpoint,
     Cursors, IdleTask, TaskRecord, TaskSteps, NoRun, NoCursor, NoJob
<1>2. IdleCancel \in CancelRecord
  BY <1>1, ConstantTypes DEF IdleCancel, CancelRecord, NoRun, NoJob
<1>3. NoSource \in [Providers -> [run : Jobs \cup {NoRun}, cp : Checkpoint]]
  BY <1>1 DEF NoSource
<1>4. TypeOK
  BY <1>1, <1>2, <1>3, ConstantTypes DEF Init, TypeOK, JobRecord, JobStatus, NoJob
<1>5. Control
  BY DEF Init, Control, IdleTask, IdleCancel
<1>6. QED
  BY <1>4, <1>5 DEF TypeInv

LEMMA StartType ==
  ASSUME TypeInv, NEW j \in Jobs, NEW old \in Jobs, Start(j) \/ Resume(j, old)
  PROVE  TypeInv'
<1> USE DEF TypeInv
<1>0. \E b \in BOOLEAN : NewJob(j, b)
  <2>1. CASE Start(j)
    BY <2>1 DEF Start
  <2>2. CASE Resume(j, old)
    BY <2>2 DEF Resume
  <2>3. QED
    BY <2>1, <2>2
<1>1. PICK b \in BOOLEAN : NewJob(j, b)
  BY <1>0
<1>2. job' \in [Jobs -> JobRecord] /\ active' \in Jobs
  <2>1. job[j] \in JobRecord
    BY DEF TypeOK
  <2>2. job' = [job EXCEPT ![j] = [@ EXCEPT !.status = "running", !.resumed = b]]
    BY <1>1, <2>1 DEF NewJob, TypeOK, JobRecord
  <2>3. [job[j] EXCEPT !.status = "running", !.resumed = b] \in JobRecord
    BY <2>1 DEF JobRecord, JobStatus
  <2>4. QED
    BY <1>1, <2>2, <2>3 DEF NewJob, TypeOK
<1>3. task' \in TaskRecord /\ task'.step = "init" /\ task'.job = j
  <2>1. IdleTask \in TaskRecord
    BY ConstantTypes DEF IdleTask, TaskRecord, TaskSteps, Cursors
  <2>2. task' = [IdleTask EXCEPT !.step = "init", !.job = j]
    BY <1>1 DEF NewJob
  <2>3. QED
    BY <2>1, <2>2 DEF TaskRecord, TaskSteps
<1>4. source' \in [Providers -> [run : Jobs \cup {NoRun}, cp : Checkpoint]]
  <2>0. NoCheckpoint \in Checkpoint
    BY ConstantTypes DEF NoCheckpoint, Checkpoint, ProviderStatus, Cursors
  <2>1. CASE Start(j)
    BY <2>0, <2>1 DEF Start, NoSource
  <2>2. CASE Resume(j, old)
    <3> DEFINE row(p) == CHOOSE k \in Jobs : cps[p][k].job = old
               src(p) == IF \E k \in Jobs : cps[p][k].job = old
                         THEN [run |-> row(p), cp |-> cps[p][row(p)]]
                         ELSE [run |-> NoRun, cp |-> NoCheckpoint]
    <3>1. ASSUME NEW p \in Providers
          PROVE  src(p) \in [run : Jobs \cup {NoRun}, cp : Checkpoint]
      <4>1. CASE \E kk \in Jobs : cps[p][kk].job = old
        <5>1. row(p) \in Jobs
          BY <4>1
        <5>2. cps[p][row(p)] \in Checkpoint
          BY <5>1 DEF TypeOK
        <5>3. QED
          BY <4>1, <5>1, <5>2
      <4>2. CASE ~ \E kk \in Jobs : cps[p][kk].job = old
        BY <2>0, <4>2
      <4>3. QED
        BY <4>1, <4>2
    <3>2. source' = [p \in Providers |-> src(p)]
      BY <2>2 DEF Resume
    <3> HIDE DEF src
    <3>3. QED
      BY <3>1, <3>2
  <2>3. QED
    BY <2>1, <2>2
<1>5. UNCHANGED <<ps, cancel, cps, snaps, audit, answered, admitted, high, faults, cancels>>
  BY <1>1 DEF NewJob, durable, history, bounds
<1>6. TypeOK'
  BY <1>2, <1>3, <1>4, <1>5 DEF TypeOK
<1>7. Control'
  BY <1>3, <1>5 DEF Control
<1>8. QED
  BY <1>6, <1>7

LEMMA BeginJobType == ASSUME TypeInv, BeginJob PROVE TypeInv'
<1> USE DEF TypeInv
<1>1. ps' \in [Jobs -> [Providers -> ProviderState]]
  BY RestoredType DEF BeginJob, TypeOK
<1>2. task' \in TaskRecord /\ task'.step = "provider" /\ task'.job = task.job
  BY DEF BeginJob, Goto, TypeOK, TaskRecord, TaskSteps
<1>3. NoCheckpoint \in Checkpoint
  BY ConstantTypes DEF NoCheckpoint, Checkpoint, ProviderStatus, Cursors
<1>4. source' \in [Providers -> [run : Jobs \cup {NoRun}, cp : Checkpoint]]
  BY <1>3 DEF BeginJob, NoSource
<1>5. UNCHANGED <<job, active, cancel, cps, snaps, audit, answered, admitted, high, faults, cancels>>
  BY DEF BeginJob, durable, history, bounds
<1>6. TypeOK'
  BY <1>1, <1>2, <1>4, <1>5 DEF TypeOK
<1>7. Control'
  BY <1>2, <1>5 DEF Control, BeginJob
<1>8. QED
  BY <1>6, <1>7

LEMMA SkipCancelledType == ASSUME TypeInv, SkipCancelled PROVE TypeInv'
<1> USE DEF TypeInv
<1>1. task.job \in Jobs /\ task.i \in 1 .. Len(Order) /\ Prov \in Providers
  BY ConstantTypes DEF SkipCancelled, AtProvider, Control, TypeOK, TaskRecord, Prov
<1>2. State \in ProviderState
  BY <1>1 DEF State, TypeOK
<1>3. ps' = [ps EXCEPT ![task.job][Prov] = [@ EXCEPT !.status = "cancelled", !.resumable = TRUE]]
  BY <1>1, <1>2 DEF SkipCancelled, State, TypeOK, ProviderState
<1>4. [State EXCEPT !.status = "cancelled", !.resumable = TRUE] \in ProviderState
  BY <1>2 DEF ProviderState, ProviderStatus
<1>5. ps' \in [Jobs -> [Providers -> ProviderState]]
  BY <1>1, <1>3, <1>4 DEF TypeOK, State
<1>6. task' \in TaskRecord /\ task'.step = "write" /\ task'.after = "provider"
      /\ task'.job = task.job /\ task'.i = task.i
  BY <1>2, ConstantTypes DEF SkipCancelled, GotoWrite, TypeOK, TaskRecord, TaskSteps,
     ProviderState, Cursors
<1>7. UNCHANGED <<job, active, source, cancel, cps, snaps, audit, answered, admitted, high, faults, cancels>>
  BY DEF SkipCancelled, durable, history, bounds
<1>8. TypeOK'
  BY <1>5, <1>6, <1>7 DEF TypeOK
<1>9. Control'
  BY <1>1, <1>6, <1>7, ConstantTypes DEF Control
<1>10. QED
  BY <1>8, <1>9

LEMMA CarryOverType == ASSUME TypeInv, CarryOver PROVE TypeInv'
<1> USE DEF TypeInv
<1>1. task.job \in Jobs /\ task.i \in 1 .. Len(Order) /\ Prov \in Providers
  BY ConstantTypes DEF CarryOver, AtProvider, Control, TypeOK, TaskRecord, Prov
<1>2. State.cursor \in Cursors
  BY <1>1 DEF State, TypeOK, ProviderState
<1>3. task' \in TaskRecord /\ task'.step = "write" /\ task'.after = "provider"
      /\ task'.job = task.job /\ task'.i = task.i
  BY <1>2 DEF CarryOver, GotoWrite, TypeOK, TaskRecord, TaskSteps
<1>4. UNCHANGED <<job, ps, active, source, cancel, cps, snaps, audit, answered, admitted, high, faults, cancels>>
  BY DEF CarryOver, durable, history, bounds
<1>5. TypeOK'
  BY <1>3, <1>4 DEF TypeOK
<1>6. Control'
  BY <1>1, <1>3, <1>4, ConstantTypes DEF Control
<1>7. QED
  BY <1>5, <1>6

LEMMA BeginProviderType == ASSUME TypeInv, BeginProvider PROVE TypeInv'
<1> USE DEF TypeInv
<1> DEFINE c == IF State.cursor = NoCursor THEN 1 ELSE State.cursor
           s == [State EXCEPT !.status = "running", !.cursor = c, !.start = c,
                   !.run = IF State.run = NoRun THEN task.job ELSE State.run]
<1>1. task.job \in Jobs /\ task.i \in 1 .. Len(Order) /\ Prov \in Providers
  BY ConstantTypes DEF BeginProvider, AtProvider, Control, TypeOK, TaskRecord, Prov
<1>2. State \in ProviderState
  BY <1>1 DEF State, TypeOK
<1>3. c \in Pages
  BY <1>2, ConstantTypes DEF ProviderState, Cursors
<1>4. s \in ProviderState /\ s.cursor = c /\ s.run \in Jobs
  BY <1>1, <1>2, <1>3 DEF ProviderState, ProviderStatus, Cursors
<1>5. ps' = [ps EXCEPT ![task.job][Prov] = s] /\ GotoWrite(c, TRUE, "loop")
  BY DEF BeginProvider
<1> HIDE DEF c, s
<1>6. /\ ps' \in [Jobs -> [Providers -> ProviderState]]
      /\ ps'[task.job][Prov] = s
  BY <1>1, <1>4, <1>5 DEF TypeOK
<1>7. task' \in TaskRecord /\ task'.step = "write" /\ task'.job = task.job /\ task'.i = task.i
  BY <1>3, <1>5 DEF GotoWrite, TypeOK, TaskRecord, TaskSteps, Cursors
<1>8. UNCHANGED <<job, active, source, cancel, cps, snaps, audit, answered, admitted, high, faults, cancels>>
  BY DEF BeginProvider, durable, history, bounds
<1>9. TypeOK'
  BY <1>6, <1>7, <1>8 DEF TypeOK
<1>10. State' = s
  BY <1>6, <1>7 DEF State, Prov
<1>11. Control'
  BY <1>1, <1>3, <1>4, <1>7, <1>8, <1>10, ConstantTypes DEF Control
<1>12. QED
  BY <1>9, <1>11

\* Ending a provider's loop.
LEMMA StopType ==
  ASSUME TypeInv, task.step \in {"loop", "await"},
         NEW status \in ProviderStatus, NEW cur \in Cursors,
         NEW res \in BOOLEAN, NEW save \in BOOLEAN,
         StopProvider(status, cur, res, save)
  PROVE  TypeInv'
<1> USE DEF TypeInv
<1>1. task.job \in Jobs /\ task.i \in 1 .. Len(Order) /\ Prov \in Providers /\ State \in ProviderState
  BY StateType
<1>2. ps' = [ps EXCEPT ![task.job][Prov] = [@ EXCEPT !.status = status, !.resumable = res]]
  BY <1>1 DEF StopProvider, State, TypeOK, ProviderState
<1>3. [State EXCEPT !.status = status, !.resumable = res] \in ProviderState
  BY <1>1 DEF ProviderState
<1>4. ps' \in [Jobs -> [Providers -> ProviderState]]
  BY <1>1, <1>2, <1>3 DEF TypeOK, State
<1>5. task' \in TaskRecord /\ task'.step = "write" /\ task'.after = "provider"
      /\ task'.job = task.job /\ task'.i = task.i
  BY DEF StopProvider, GotoWrite, TypeOK, TaskRecord, TaskSteps
<1>6. UNCHANGED <<job, active, source, cancel, cps, snaps, audit, answered, admitted, high, faults, cancels>>
  BY DEF StopProvider, durable, history, bounds
<1>7. TypeOK'
  BY <1>4, <1>5, <1>6 DEF TypeOK
<1>8. Control'
  BY <1>1, <1>5, <1>6, ConstantTypes DEF Control
<1>9. QED
  BY <1>7, <1>8

\* What Receive makes of a provider state.
LEMMA ReceivedType ==
  ASSUME NEW s \in ProviderState, NEW new \in SUBSET Records,
         NEW cursor \in Cursors, NEW status \in ProviderStatus, NEW resumable \in BOOLEAN
  PROVE  LET t == Received(s, new, cursor, status, resumable)
         IN  t \in ProviderState /\ t.cursor = cursor /\ t.run = s.run
<1>1. /\ Cardinality(new) \in Nat
      /\ Cardinality(new \ Rejected) \in Nat
  BY CountIsNat
<1> DEFINE pages   == s.execPages + 1
           records == s.execFetched + Cardinality(new)
           fetched == s.fetched + Cardinality(new)
           kept    == s.kept + Cardinality(new \ Rejected)
           recs    == s.recs \cup (new \ Rejected)
           seen    == s.seen \cup new
<1>2. /\ pages \in Nat /\ records \in Nat /\ fetched \in Nat /\ kept \in Nat
      /\ recs \in SUBSET Records /\ seen \in SUBSET Records
  BY <1>1 DEF ProviderState
<1>3. Received(s, new, cursor, status, resumable) =
        [s EXCEPT !.execPages = pages, !.execFetched = records, !.fetched = fetched,
           !.kept = kept, !.recs = recs, !.seen = seen,
           !.cursor = cursor, !.status = status, !.resumable = resumable]
  BY Zenon DEF Received
<1> HIDE DEF pages, records, fetched, kept, recs, seen
<1>4. QED
  BY <1>2, <1>3 DEF ProviderState

\* Receiving a page.
LEMMA ReceiveType ==
  ASSUME TypeInv, task.step = "await",
         NEW records \in SUBSET Records, NEW cursor \in Cursors,
         NEW status \in ProviderStatus, NEW resumable \in BOOLEAN,
         NEW res \in BOOLEAN, NEW after \in {"loop", "provider"},
         after = "loop" => cursor # NoCursor,
         Receive(records, cursor, status, resumable), GotoWrite(cursor, res, after)
  PROVE  TypeInv'
<1> USE DEF TypeInv
<1> DEFINE s == Received(State, records \ State.seen, cursor, status, resumable)
<1>1. task.job \in Jobs /\ task.i \in 1 .. Len(Order) /\ Prov \in Providers /\ State \in ProviderState
  BY StateType
<1>3. /\ ps' = [ps EXCEPT ![task.job][Prov] = s]
      /\ answered' = [answered EXCEPT ![Prov][State.run] = @ \cup {State.cursor}]
  BY DEF Receive
<1>4. records \ State.seen \in SUBSET Records
  OBVIOUS
<1>5. s \in ProviderState /\ s.cursor = cursor /\ s.run = State.run
  BY <1>1, <1>4, ReceivedType
<1> HIDE DEF s
<1>6. /\ ps' \in [Jobs -> [Providers -> ProviderState]]
      /\ ps'[task.job][Prov] = s
  BY <1>1, <1>3, <1>5 DEF TypeOK
<1>7. State.cursor \in Pages /\ State.run \in Jobs
  BY <1>1 DEF Control, ProviderState, Cursors
<1>8. answered' \in [Providers -> [Jobs -> SUBSET Pages]]
  BY <1>1, <1>3, <1>7 DEF TypeOK
<1>9. task' \in TaskRecord /\ task'.step = "write" /\ task'.after = after
      /\ task'.job = task.job /\ task'.i = task.i
  BY DEF GotoWrite, TypeOK, TaskRecord, TaskSteps
<1>10. UNCHANGED <<job, active, source, cancel, cps, snaps, audit, admitted, faults, cancels>>
  BY DEF Receive, durable, bounds
<1>15. high' \in [Providers -> [Jobs -> 0 .. LastPage + 1]]
  <2> DEFINE h == IF cursor # NoCursor /\ cursor < high[Prov][State.run]
                  THEN cursor ELSE high[Prov][State.run]
  <2>1. h \in 0 .. LastPage + 1
    BY <1>1, <1>7, ConstantTypes DEF TypeOK, Cursors, Pages, NoCursor
  <2>2. high' = [high EXCEPT ![Prov][State.run] = h]
    BY Zenon DEF Receive
  <2> HIDE DEF h
  <2>3. QED
    BY <1>1, <1>7, <2>1, <2>2 DEF TypeOK
<1>11. TypeOK'
  BY <1>6, <1>8, <1>9, <1>10, <1>15 DEF TypeOK
<1>12. State' = s
  BY <1>6, <1>9 DEF State, Prov
<1>13. Control'
  BY <1>1, <1>5, <1>7, <1>9, <1>10, <1>12, ConstantTypes DEF Control
<1>14. QED
  BY <1>11, <1>13

\* Inside the page loop there is a page to ask for.
LEMMA LoopState ==
  ASSUME TypeInv, task.step \in {"loop", "await"}
  PROVE  /\ State.cursor \in Pages /\ State.cursor # NoCursor
         /\ State.cursor \in Cursors /\ State.status \in ProviderStatus
         /\ State.resumable \in BOOLEAN /\ State.start \in Cursors
         /\ Content[Prov][State.cursor] \in SUBSET Records
         /\ \A c \in NextCursors : c \in Cursors /\ c # NoCursor
<1>1. State \in ProviderState /\ Prov \in Providers
  BY StateType
<1>2. State.cursor # NoCursor
  BY <1>1 DEF TypeInv, Control
<1>3. State.cursor \in Pages
  BY <1>1, <1>2 DEF ProviderState, Cursors
<1>4. Content[Prov][State.cursor] \in SUBSET Records
  BY <1>1, <1>3, FetchAllAssumption DEF FetchAllAssumption
<1>5. \A c \in NextCursors : c \in Cursors /\ c # NoCursor
  BY DEF NextCursors, Pages, Cursors, NoCursor
<1>6. QED
  BY <1>1, <1>2, <1>3, <1>4, <1>5 DEF ProviderState

\* The actions that end a provider's loop or receive a page.
LEMMA LoopType ==
  ASSUME TypeInv,
         LoopCancelled \/ LoopLimit \/ PageNext \/ PageLast \/ PageEmpty \/ PageRepeated
         \/ FetchFails \/ PlanIncompatible
  PROVE  TypeInv'
<1>0. /\ "partial" \in ProviderStatus /\ "failed" \in ProviderStatus
      /\ "complete" \in ProviderStatus /\ "cancelled" \in ProviderStatus
      /\ NoCursor \in Cursors
  BY DEF ProviderStatus, Cursors
<1>1. ASSUME task.step \in {"loop", "await"}
      PROVE  /\ State.cursor \in Pages /\ State.cursor # NoCursor
             /\ State.cursor \in Cursors /\ State.status \in ProviderStatus
             /\ State.resumable \in BOOLEAN /\ State.start \in Cursors
             /\ Content[Prov][State.cursor] \in SUBSET Records
             /\ \A c \in NextCursors : c \in Cursors /\ c # NoCursor
  BY <1>1, LoopState
<1>2. CASE LoopCancelled
  BY <1>0, <1>1, <1>2, StopType DEF LoopCancelled
<1>3. CASE LoopLimit
  <2> DEFINE progress == State.cursor # State.start \/ State.execFetched > 0
  <2>1. StopProvider("partial", State.cursor, progress, progress) /\ task.step \in {"loop", "await"}
    BY <1>3 DEF LoopLimit
  <2>2. progress \in BOOLEAN
    OBVIOUS
  <2> HIDE DEF progress
  <2>3. QED
    BY <1>0, <1>1, <2>1, <2>2, StopType
<1>4. CASE PageNext
  <2>1. task.step = "await"
    BY <1>4 DEF PageNext
  <2>2. PICK c \in NextCursors :
          /\ Receive(Content[Prov][State.cursor], c, State.status, State.resumable)
          /\ GotoWrite(c, TRUE, "loop")
    BY <1>4 DEF PageNext
  <2>3. QED
    BY <1>1, <2>1, <2>2, ReceiveType
<1>5. CASE PageLast
  BY <1>0, <1>1, <1>5, ReceiveType DEF PageLast
<1>6. CASE PageEmpty
  <2>1. task.step = "await"
    BY <1>6 DEF PageEmpty
  <2>2. PICK c \in NextCursors : Receive({}, c, "partial", FALSE) /\ GotoWrite(c, TRUE, "provider")
    BY <1>6 DEF PageEmpty
  <2>3. {} \in SUBSET Records
    OBVIOUS
  <2>4. QED
    BY <1>0, <1>1, <2>1, <2>2, <2>3, ReceiveType
<1>7. CASE PageRepeated
  <2>1. task.step = "await"
    BY <1>7 DEF PageRepeated
  <2>2. PICK c \in NextCursors :
          /\ Receive(Content[Prov][State.cursor], c, "partial", FALSE)
          /\ GotoWrite(c, FALSE, "provider")
    BY <1>7 DEF PageRepeated
  <2>4. QED
    BY <1>0, <1>1, <2>1, <2>2, ReceiveType
<1>8. CASE FetchFails
  <2> DEFINE st == IF State.fetched > 0 THEN "partial" ELSE "failed"
  <2>1. StopProvider(st, State.cursor, TRUE, TRUE) /\ task.step \in {"loop", "await"}
    BY <1>8 DEF FetchFails
  <2>2. st \in ProviderStatus
    BY <1>0
  <2> HIDE DEF st
  <2>3. QED
    BY <1>0, <1>1, <2>1, <2>2, StopType
<1>9. CASE PlanIncompatible
  BY <1>0, <1>1, <1>9, StopType DEF PlanIncompatible
<1>10. QED
  BY <1>2, <1>3, <1>4, <1>5, <1>6, <1>7, <1>8, <1>9

LEMMA WriteCheckpointType == ASSUME TypeInv, WriteCheckpoint PROVE TypeInv'
<1> USE DEF TypeInv
<1>1. /\ task.job \in Jobs /\ task.i \in 1 .. Len(Order)
      /\ Prov \in Providers /\ State \in ProviderState
  BY StateType DEF WriteCheckpoint
<1>2. task.cur \in Cursors /\ task.res \in BOOLEAN /\ task.after \in {"loop", "provider"}
  BY DEF TypeOK, TaskRecord
<1> DEFINE k   == RunOf(task.job, Prov)
           row == Row(task.job, Prov, task.cur, task.res)
<1>3. k \in Jobs /\ row \in Checkpoint
      /\ ps' \in [Jobs -> [Providers -> ProviderState]]
  BY <1>1, <1>2, RowType DEF WriteCheckpoint
<1>4. Upsert(Prov, k, row) /\ admitted' = [admitted EXCEPT ![Prov][k] = @ \cup State.recs]
  BY DEF WriteCheckpoint
<1> HIDE DEF k, row
<1>5. /\ cps' \in [Providers -> [Jobs -> Checkpoint]]
      /\ high' \in [Providers -> [Jobs -> 0 .. LastPage + 1]]
  BY <1>1, <1>3, <1>4, UpsertType
<1>6. admitted' \in [Providers -> [Jobs -> SUBSET Records]]
  <2>1. State.recs \in SUBSET Records
    BY <1>1 DEF ProviderState
  <2>2. QED
    BY <1>1, <1>3, <1>4, <2>1 DEF TypeOK
<1>7. /\ task' \in TaskRecord /\ task'.step = task.after /\ task'.job = task.job
      /\ task'.i = IF task.after = "provider" THEN task.i + 1 ELSE task.i
  <2> DEFINE i == IF task.after = "provider" THEN task.i + 1 ELSE task.i
  <2>1. i \in 1 .. Len(Order) + 1 /\ task.after \in TaskSteps
    BY <1>1, <1>2, ConstantTypes DEF TaskSteps
  <2> DEFINE asked == IF task.after = "provider" THEN {} ELSE task.asked
  <2>5. asked \in SUBSET Pages
    BY DEF TypeOK, TaskRecord
  <2>2. task' = [task EXCEPT !.step = task.after, !.i = i, !.asked = asked]
    BY Zenon DEF WriteCheckpoint
  <2> HIDE DEF i, asked
  <2>3. task' \in TaskRecord /\ task'.step = task.after /\ task'.job = task.job /\ task'.i = i
    BY <2>1, <2>2, <2>5 DEF TypeOK, TaskRecord
  <2>4. QED
    BY <2>3 DEF i
<1>8. UNCHANGED <<job, active, source, cancel, snaps, audit, answered, faults, cancels>>
  BY DEF WriteCheckpoint, bounds
<1>9. TypeOK'
  BY <1>3, <1>5, <1>6, <1>7, <1>8 DEF TypeOK
<1>10. task.after = "loop" =>
         State'.cursor # NoCursor /\ State'.run # NoRun
  <2> SUFFICES ASSUME task.after = "loop"
               PROVE  State'.cursor # NoCursor /\ State'.run # NoRun
    OBVIOUS
  <2>1. State.cursor # NoCursor /\ State.run # NoRun
    BY DEF Control, WriteCheckpoint
  <2>2. ps' = Prepared(task.job, Prov, task.res) /\ State' = ps'[task.job][Prov]
    BY <1>7 DEF WriteCheckpoint, State, Prov
  <2>3. State' = [State EXCEPT !.run = State.run, !.resumable = task.res]
    BY <1>1, <2>1, <2>2 DEF Prepared, State, TypeOK, ProviderState
  <2>4. QED
    BY <1>1, <2>1, <2>3 DEF ProviderState
<1>11. Control'
  BY <1>1, <1>2, <1>7, <1>8, <1>10, ConstantTypes DEF Control
<1>12. QED
  BY <1>9, <1>11

\* The rest of the task.
LEMMA FinishType ==
  ASSUME TypeInv,
         Request \/ FinalizeStatus \/ WriteAudit \/ AuditsWritten \/ PersistSnapshot
         \/ PublishResult \/ ReleaseSlot
  PROVE  TypeInv'
<1> USE DEF TypeInv
<1>1. task \in TaskRecord /\ (task.step # "idle" => task.job \in Jobs)
  BY DEF TypeOK, Control
<1>2. ASSUME NEW j \in Jobs, NEW st \in JobStatus
      PROVE  /\ [job EXCEPT ![j].status = st] \in [Jobs -> JobRecord]
             /\ [job EXCEPT ![j].result = TRUE] \in [Jobs -> JobRecord]
  <2>1. job[j] \in JobRecord
    BY DEF TypeOK
  <2>2. /\ [job[j] EXCEPT !.status = st] \in JobRecord
        /\ [job[j] EXCEPT !.result = TRUE] \in JobRecord
    BY <2>1 DEF JobRecord
  <2>3. /\ [job EXCEPT ![j].status = st] = [job EXCEPT ![j] = [job[j] EXCEPT !.status = st]]
        /\ [job EXCEPT ![j].result = TRUE] = [job EXCEPT ![j] = [job[j] EXCEPT !.result = TRUE]]
    BY DEF TypeOK
  <2>4. QED
    BY <2>2, <2>3 DEF TypeOK
<1>3. CASE Request
  <2>1. task' \in TaskRecord /\ task'.step = "await" /\ task'.job = task.job /\ task'.i = task.i
    <3>1. State.cursor \in Pages /\ task.asked \subseteq Pages
      BY <1>1, <1>3, LoopState DEF Request, TaskRecord
    <3>2. PICK a \in SUBSET Pages : a = task.asked \cup {State.cursor}
      BY <3>1
    <3>3. task' = [task EXCEPT !.step = "await", !.asked = a]
      BY <1>3, <3>2 DEF Request
    <3>4. QED
      BY <1>1, <3>3 DEF TaskRecord, TaskSteps
  <2>2. UNCHANGED <<job, ps, active, source, cancel, cps, snaps, audit, answered, admitted, high, faults, cancels>>
    BY <1>3 DEF Request, durable, history, bounds
  <2>3. State' = State
    BY <2>1, <2>2 DEF State, Prov
  <2>4. TypeOK'
    BY <2>1, <2>2 DEF TypeOK
  <2>5. Control'
    BY <1>3, <2>1, <2>2, <2>3 DEF Control, Request
  <2>6. QED
    BY <2>4, <2>5
<1>4. CASE FinalizeStatus
  <2>1. task' \in TaskRecord /\ task'.step = "audit" /\ task'.job = task.job
    <3>1. task' = [task EXCEPT !.step = "audit", !.i = 1]
      BY <1>4 DEF FinalizeStatus
    <3>2. 1 \in 1 .. Len(Order) + 1 /\ "audit" \in TaskSteps
      BY ConstantTypes DEF TaskSteps
    <3>3. QED
      BY <1>1, <3>1, <3>2 DEF TaskRecord
  <2>2. task.job \in Jobs
    BY <1>1, <1>4 DEF FinalizeStatus
  <2>3. job' \in [Jobs -> JobRecord]
    BY <1>2, <1>4, <2>2 DEF FinalizeStatus, JobStatus
  <2>4. UNCHANGED <<ps, active, source, cancel, cps, snaps, audit, answered, admitted, high, faults, cancels>>
    BY <1>4 DEF FinalizeStatus, durable, history, bounds
  <2>5. TypeOK'
    BY <2>1, <2>3, <2>4 DEF TypeOK
  <2>6. Control'
    BY <2>1, <2>2, <2>4 DEF Control
  <2>7. QED
    BY <2>5, <2>6
<1>5. CASE WriteAudit
  <2>1. task.job \in Jobs /\ task.i \in 1 .. Len(Order) /\ Prov \in Providers
    BY <1>1, <1>5, ConstantTypes DEF WriteAudit, TaskRecord, Prov
  <2>2. State.fetched \in Nat
    BY <2>1 DEF State, TypeOK, ProviderState
  <2>3. audit' \in [Providers -> [Jobs -> Nat]]
    BY <1>5, <2>1, <2>2 DEF WriteAudit, TypeOK
  <2>4. task' \in TaskRecord /\ task'.step = "audit" /\ task'.job = task.job
    BY <1>1, <1>5, <2>1, ConstantTypes DEF WriteAudit, TaskRecord
  <2>5. UNCHANGED <<job, ps, active, source, cancel, cps, snaps, answered, admitted, high, faults, cancels>>
    BY <1>5 DEF WriteAudit, history, bounds
  <2>6. TypeOK'
    BY <2>3, <2>4, <2>5 DEF TypeOK
  <2>7. Control'
    BY <2>1, <2>4, <2>5 DEF Control
  <2>8. QED
    BY <2>6, <2>7
<1>6. CASE AuditsWritten
  <2>1. task' \in TaskRecord /\ task'.step = "persist" /\ task'.job = task.job
    BY <1>1, <1>6 DEF AuditsWritten, Goto, TaskRecord, TaskSteps
  <2>2. UNCHANGED <<job, ps, active, source, cancel, cps, snaps, audit, answered, admitted, high, faults, cancels>>
    BY <1>6 DEF AuditsWritten, durable, history, bounds
  <2>3. TypeOK'
    BY <2>1, <2>2 DEF TypeOK
  <2>4. Control'
    BY <1>1, <1>6, <2>1, <2>2 DEF Control, AuditsWritten
  <2>5. QED
    BY <2>3, <2>4
<1>7. CASE PersistSnapshot
  <2>1. PICK x \in Unsaved(task.job) :
          snaps' = [snaps EXCEPT ![Order[x[1]]][ps[task.job][Order[x[1]]].run] = @ \cup {x[2]}]
    BY <1>7 DEF PersistSnapshot
  <2>2. x[1] \in 1 .. Len(Order) /\ x[2] \in Records
    BY DEF Unsaved
  <2>3. Order[x[1]] \in Providers
    BY <2>2, ConstantTypes
  <2>4. snaps' \in [Providers -> [Jobs -> SUBSET Records]]
    <3> DEFINE p == Order[x[1]]
               k == ps[task.job][Order[x[1]]].run
               r == x[2]
    <3>1. snaps' = [snaps EXCEPT ![p][k] = @ \cup {r}] /\ p \in Providers /\ r \in Records
      BY <2>1, <2>2, <2>3
    <3> HIDE DEF p, k, r
    <3>2. [snaps[p] EXCEPT ![k] = @ \cup {r}] \in [Jobs -> SUBSET Records]
      <4> DEFINE g == snaps[p]
                 h == [g EXCEPT ![k] = @ \cup {r}]
      <4>1. g \in [Jobs -> SUBSET Records]
        BY <3>1 DEF TypeOK
      <4> HIDE DEF g
      <4>2. ASSUME NEW l \in Jobs PROVE h[l] \in SUBSET Records
        BY <3>1, <4>1
      <4>3. h = [l \in Jobs |-> h[l]]
        BY <4>1
      <4> HIDE DEF h
      <4>4. h \in [Jobs -> SUBSET Records]
        BY <4>2, <4>3
      <4>5. QED
        BY <4>4 DEF g, h
    <3>3. QED
      BY <3>1, <3>2 DEF TypeOK
  <2>5. UNCHANGED <<job, ps, active, task, source, cancel, cps, audit, answered, admitted, high, faults, cancels>>
    BY <1>7 DEF PersistSnapshot, history, bounds
  <2>6. TypeOK'
    BY <2>4, <2>5 DEF TypeOK
  <2>7. Control'
    BY <1>7, <2>5 DEF Control, PersistSnapshot
  <2>8. QED
    BY <2>6, <2>7
<1>8. CASE PublishResult
  <2>1. task' \in TaskRecord /\ task'.step = "release" /\ task'.job = task.job /\ task.job \in Jobs
    BY <1>1, <1>8 DEF PublishResult, Goto, TaskRecord, TaskSteps
  <2>2. job' \in [Jobs -> JobRecord]
    BY <1>2, <1>8, <2>1 DEF PublishResult, JobStatus
  <2>3. UNCHANGED <<ps, active, source, cancel, cps, snaps, audit, answered, admitted, high, faults, cancels>>
    BY <1>8 DEF PublishResult, durable, history, bounds
  <2>4. TypeOK'
    BY <2>1, <2>2, <2>3 DEF TypeOK
  <2>5. Control'
    BY <2>1, <2>3 DEF Control
  <2>6. QED
    BY <2>4, <2>5
<1>9. CASE ReleaseSlot
  <2>1. NoCheckpoint \in Checkpoint
    BY ConstantTypes DEF NoCheckpoint, Checkpoint, ProviderStatus, Cursors
  <2>2. /\ task' = IdleTask /\ task' \in TaskRecord
        /\ source' \in [Providers -> [run : Jobs \cup {NoRun}, cp : Checkpoint]]
    BY <1>9, <2>1, ConstantTypes DEF ReleaseSlot, IdleTask, TaskRecord, TaskSteps, NoSource, Cursors
  <2>3. active' \in Jobs \cup {NoJob}
    BY <1>9 DEF ReleaseSlot, TypeOK
  <2>4. UNCHANGED <<job, ps, cancel, cps, snaps, audit, answered, admitted, high, faults, cancels>>
    BY <1>9 DEF ReleaseSlot, durable, history, bounds
  <2>5. TypeOK'
    BY <2>2, <2>3, <2>4 DEF TypeOK
  <2>6. Control'
    BY <2>2, <2>4 DEF Control, IdleTask
  <2>7. QED
    BY <2>5, <2>6
<1>10. QED
  BY <1>3, <1>4, <1>5, <1>6, <1>7, <1>8, <1>9

\* The cancel handler.
LEMMA CancelType ==
  ASSUME TypeInv,
         CancelCheck \/ CancelMark \/ CancelBuild \/ CancelSave \/ CancelFails \/ CancelReturn
  PROVE  TypeInv'
<1> USE DEF TypeInv
<1>1. /\ cancel.step \in {"mark", "build", "save"} =>
           cancel.job \in Jobs /\ cancel.i \in 1 .. Len(Order) /\ CancelTarget \in Providers
      /\ cancel \in CancelRecord
  BY ConstantTypes DEF TypeOK, Control, CancelRecord, CancelTarget
<1>2. /\ NoCheckpoint \in Checkpoint /\ IdleCancel \in CancelRecord
  BY ConstantTypes DEF NoCheckpoint, Checkpoint, ProviderStatus, Cursors, IdleCancel, CancelRecord
\* The task's own part of Control survives a change of another field of ps.
<1>3. ASSUME UNCHANGED task,
             \A j \in Jobs, p \in Providers :
               /\ ps'[j][p].cursor = ps[j][p].cursor
               /\ ps[j][p].run # NoRun => ps'[j][p].run # NoRun,
             cancel'.step # "idle" => cancel'.job \in Jobs,
             cancel'.step \in {"mark", "build", "save"} => cancel'.i <= cancel'.n,
             cancel'.step = "save" => cancel'.run \in Jobs
      PROVE  Control'
  <2>1. ASSUME task.step \in {"loop", "await"} \/ (task.step = "write" /\ task.after = "loop")
        PROVE  State'.cursor # NoCursor /\ State'.run # NoRun
    <3>1. State.cursor # NoCursor /\ State.run # NoRun
      BY <2>1 DEF Control
    <3>2. task.job \in Jobs /\ Prov \in Providers
      BY <2>1, StateType
    <3>3. State' = ps'[task.job][Prov]
      BY <1>3 DEF State, Prov
    <3>4. QED
      BY <1>3, <3>1, <3>2, <3>3 DEF State
  <2>2. QED
    BY <1>3, <2>1 DEF Control
<1>4. CASE CancelCheck
  <2>1. cancel' \in CancelRecord
    <3>1. cancel.i \in 1 .. Len(Order) /\ cancel.i + 1 \in 1 .. Len(Order) + 1
      BY <1>1, <1>4, ConstantTypes DEF CancelCheck, CancelRecord
    <3>2. QED
      BY <1>1, <1>4, <3>1 DEF CancelCheck, CancelRecord
  <2>2. /\ cancel'.job = cancel.job /\ cancel'.step \in {"mark", "check"}
        /\ cancel'.step = "mark" => cancel'.i <= cancel'.n
    BY <1>1, <1>4 DEF CancelCheck, CancelRecord
  <2>3. UNCHANGED <<job, ps, active, task, source, cps, snaps, audit, answered, admitted, high, faults, cancels>>
    BY <1>4 DEF CancelCheck, durable, history, bounds
  <2>4. TypeOK'
    BY <2>1, <2>3 DEF TypeOK
  <2>5. Control'
    BY <1>3, <1>4, <2>2, <2>3 DEF Control, CancelCheck
  <2>6. QED
    BY <2>4, <2>5
<1>5. CASE CancelMark
  <2> DEFINE j == cancel.job
             p == CancelTarget
             s == [ps[j][p] EXCEPT !.status = "cancelled", !.resumable = TRUE]
  <2>1. j \in Jobs /\ p \in Providers /\ ps[j][p] \in ProviderState
    BY <1>1, <1>5 DEF CancelMark, TypeOK
  <2>2. s \in ProviderState /\ s.cursor = ps[j][p].cursor /\ s.run = ps[j][p].run
    BY <2>1 DEF ProviderState, ProviderStatus
  <2>3. ps' = [ps EXCEPT ![j][p] = s]
    BY <1>5, <2>1 DEF CancelMark, TypeOK, ProviderState
  <2>4. cancel' \in CancelRecord /\ cancel'.step = "build" /\ cancel'.job = cancel.job
        /\ cancel'.i = cancel.i /\ cancel'.n = cancel.n
    BY <1>1, <1>5 DEF CancelMark, CancelRecord
  <2>5. UNCHANGED <<job, active, task, source, cps, snaps, audit, answered, admitted, high, faults, cancels>>
    BY <1>5 DEF CancelMark, durable, history, bounds
  <2> HIDE DEF j, p, s
  <2>6. /\ ps' \in [Jobs -> [Providers -> ProviderState]]
        /\ \A i \in Jobs, q \in Providers :
             ps'[i][q].cursor = ps[i][q].cursor /\ ps'[i][q].run = ps[i][q].run
    BY <2>1, <2>2, <2>3 DEF TypeOK
  <2>7. TypeOK'
    BY <2>4, <2>5, <2>6 DEF TypeOK
  <2>8. Control'
    BY <1>3, <1>5, <2>4, <2>5, <2>6 DEF Control, CancelMark
  <2>9. QED
    BY <2>7, <2>8
<1>6. CASE CancelBuild
  <2> DEFINE j == cancel.job
             p == CancelTarget
             k == RunOf(j, p)
             row == Row(j, p, ps[j][p].cursor, TRUE)
  <2>1. j \in Jobs /\ p \in Providers /\ ps[j][p] \in ProviderState
    BY <1>1, <1>6 DEF CancelBuild, TypeOK
  <2>2. ps[j][p].cursor \in Cursors
    BY <2>1 DEF ProviderState
  <2>3. ps' = Prepared(j, p, TRUE) /\ cancel' = [cancel EXCEPT !.step = "save", !.run = k, !.row = row]
    BY <1>6 DEF CancelBuild
  <2>4. k \in Jobs /\ row \in Checkpoint /\ ps' \in [Jobs -> [Providers -> ProviderState]]
    BY <2>1, <2>2, <2>3, RowType
  <2>5. UNCHANGED <<job, active, task, source, cps, snaps, audit, answered, admitted, high, faults, cancels>>
    BY <1>6 DEF CancelBuild, durable, history, bounds
  <2>6. \A i \in Jobs, q \in Providers :
          /\ ps'[i][q].cursor = ps[i][q].cursor
          /\ ps[i][q].run # NoRun => ps'[i][q].run # NoRun
    BY <2>1, <2>3, ConstantTypes DEF Prepared, TypeOK, ProviderState
  <2> HIDE DEF j, p, k, row
  <2>7. cancel' \in CancelRecord /\ cancel'.step = "save" /\ cancel'.job = cancel.job
        /\ cancel'.i = cancel.i /\ cancel'.n = cancel.n /\ cancel'.run = k
    BY <1>1, <2>3, <2>4 DEF CancelRecord
  <2>8. TypeOK'
    BY <2>4, <2>5, <2>7 DEF TypeOK
  <2>9. Control'
    BY <1>3, <1>6, <2>4, <2>5, <2>6, <2>7 DEF Control, CancelBuild
  <2>10. QED
    BY <2>8, <2>9
<1>7. CASE CancelSave
  <2>1. /\ CancelTarget \in Providers /\ cancel.run \in Jobs /\ cancel.row \in Checkpoint
        /\ cancel.i \in 1 .. Len(Order) /\ cancel.job \in Jobs
    BY <1>1, <1>7 DEF CancelSave, Control, CancelRecord
  <2>2. /\ cps' \in [Providers -> [Jobs -> Checkpoint]]
        /\ high' \in [Providers -> [Jobs -> 0 .. LastPage + 1]]
    BY <1>7, <2>1, UpsertType DEF CancelSave
  <2>3. cancel.i + 1 \in 1 .. Len(Order) + 1
    BY <2>1, ConstantTypes
  <2>4. cancel' \in CancelRecord /\ cancel'.step = "check" /\ cancel'.job = cancel.job
    BY <1>1, <1>7, <2>3 DEF CancelSave, CancelRecord
  <2>5. UNCHANGED <<job, ps, active, task, source, snaps, audit, answered, admitted, faults, cancels>>
    BY <1>7 DEF CancelSave, bounds
  <2>6. TypeOK'
    BY <2>2, <2>4, <2>5 DEF TypeOK
  <2>7. Control'
    BY <1>3, <2>1, <2>4, <2>5
  <2>8. QED
    BY <2>6, <2>7
<1>8. CASE CancelFails
  <2>1. cancel' = IdleCancel /\ faults' \in Nat
    BY <1>8 DEF CancelFails, TypeOK
  <2>2. UNCHANGED <<job, ps, active, task, source, cps, snaps, audit, answered, admitted, high, cancels>>
    BY <1>8 DEF CancelFails, durable, history
  <2>3. TypeOK'
    BY <1>2, <2>1, <2>2 DEF TypeOK
  <2>4. Control'
    BY <1>3, <2>1, <2>2 DEF IdleCancel
  <2>5. QED
    BY <2>3, <2>4
<1>9. CASE CancelReturn
  <2>1. cancel' = IdleCancel
    BY <1>9 DEF CancelReturn
  <2>2. UNCHANGED <<job, ps, active, task, source, cps, snaps, audit, answered, admitted, high, faults, cancels>>
    BY <1>9 DEF CancelReturn, durable, history, bounds
  <2>3. TypeOK'
    BY <1>2, <2>1, <2>2 DEF TypeOK
  <2>4. Control'
    BY <1>3, <2>1, <2>2 DEF IdleCancel
  <2>5. QED
    BY <2>3, <2>4
<1>10. QED
  BY <1>4, <1>5, <1>6, <1>7, <1>8, <1>9

\* A cancel request, a failing job, and the death of the process.
LEMMA FaultType ==
  ASSUME TypeInv, (\E j \in Jobs : CancelBegin(j)) \/ JobFails \/ Crash
  PROVE  TypeInv'
<1> USE DEF TypeInv
<1>1. /\ NoCheckpoint \in Checkpoint /\ IdleCancel \in CancelRecord
      /\ FreshProvider \in ProviderState /\ IdleTask \in TaskRecord
  <2>1. NoCheckpoint \in Checkpoint /\ FreshProvider \in ProviderState /\ IdleTask \in TaskRecord
    BY ConstantTypes DEF NoCheckpoint, Checkpoint, ProviderStatus, Cursors, NoRun, NoCursor,
       FreshProvider, ProviderState, IdleTask, TaskRecord, TaskSteps
  <2>2. QED
    BY <2>1, ConstantTypes DEF IdleCancel, CancelRecord
<1>2. ASSUME NEW j \in Jobs, CancelBegin(j)
      PROVE  TypeInv'
  <2>1. job[j] \in JobRecord
    BY DEF TypeOK
  <2>2. job' = [job EXCEPT ![j] = [job[j] EXCEPT !.cancelled = TRUE]]
    BY <1>2 DEF CancelBegin, TypeOK
  <2>3. job' \in [Jobs -> JobRecord]
    <3>1. [job[j] EXCEPT !.cancelled = TRUE] \in JobRecord
      BY <2>1 DEF JobRecord
    <3>2. QED
      BY <2>2, <3>1 DEF TypeOK
  <2>4. cancel' \in CancelRecord /\ cancel'.step = "check" /\ cancel'.job = j
    <3> DEFINE n == IF task.step = "init" THEN 0 ELSE Len(Order)
    <3>1. n \in 0 .. Len(Order)
      BY ConstantTypes
    <3>2. cancel' = [IdleCancel EXCEPT !.step = "check", !.job = j, !.n = n]
      BY <1>2 DEF CancelBegin
    <3> HIDE DEF n
    <3>3. QED
      BY <1>1, <3>1, <3>2 DEF CancelRecord
  <2>5. cancels' \in Nat
    <3>1. cancels \in Nat
      BY DEF TypeOK
    <3>2. cancels' = cancels + 1
      BY <1>2 DEF CancelBegin
    <3>3. QED
      BY <3>1, <3>2
  <2>6. UNCHANGED <<ps, active, task, source, cps, snaps, audit, answered, admitted, high, faults>>
    BY <1>2 DEF CancelBegin, durable, history
  <2>7. TypeOK'
    BY <2>3, <2>4, <2>5, <2>6 DEF TypeOK
  <2>8. State' = State
    BY <2>6 DEF State, Prov
  <2>9. Control'
    BY <2>4, <2>6, <2>8 DEF Control
  <2>10. QED
    BY <2>7, <2>9
<1>3. CASE JobFails
  <2>1. task.job \in Jobs /\ task.step \in {"init", "write", "audit", "persist"}
    BY <1>3 DEF JobFails, Control
  <2>2. job[task.job] \in JobRecord
    BY <2>1 DEF TypeOK
  <2>3. [job[task.job] EXCEPT !.status = "failed"] \in JobRecord
    BY <2>2 DEF JobRecord, JobStatus
  <2>4. job' = [job EXCEPT ![task.job] = [job[task.job] EXCEPT !.status = "failed"]]
    BY <1>3, <2>1 DEF JobFails, TypeOK
  <2>5. job' \in [Jobs -> JobRecord]
    BY <2>3, <2>4 DEF TypeOK
  <2>6. ps' \in [Jobs -> [Providers -> ProviderState]]
    <3>1. CASE task.step = "write"
      <4>1. ps' = Prepared(task.job, Prov, task.res)
        BY <1>3, <3>1 DEF JobFails
      <4>2. task.cur \in Cursors /\ task.res \in BOOLEAN
        BY DEF TypeOK, TaskRecord
      <4>3. Prov \in Providers
        BY <3>1, StateType
      <4>4. QED
        BY <2>1, <4>1, <4>2, <4>3, RowType
    <3>2. CASE task.step # "write"
      BY <1>3, <3>2 DEF JobFails, TypeOK
    <3>3. QED
      BY <3>1, <3>2
  <2>7. task' \in TaskRecord /\ task'.step = "release" /\ task'.job = task.job
    BY <1>3 DEF JobFails, Goto, TypeOK, TaskRecord, TaskSteps
  <2>8. faults' \in Nat
    BY <1>3 DEF JobFails, TypeOK
  <2>9. UNCHANGED <<active, source, cancel, cps, snaps, audit, answered, admitted, high, cancels>>
    BY <1>3 DEF JobFails, durable, history
  <2>10. TypeOK'
    BY <2>5, <2>6, <2>7, <2>8, <2>9 DEF TypeOK
  <2>11. Control'
    BY <2>1, <2>7, <2>9 DEF Control
  <2>12. QED
    BY <2>10, <2>11
<1>4. CASE Crash
  <2>1. job' \in [Jobs -> JobRecord]
    <3> DEFINE g(j) == IF job[j].status = "none" THEN job[j]
                       ELSE [job[j] EXCEPT !.status = "gone", !.cancelled = FALSE, !.result = FALSE]
    <3>1. ASSUME NEW j \in Jobs PROVE g(j) \in JobRecord
      <4>1. job[j] \in JobRecord
        BY DEF TypeOK
      <4>2. QED
        BY <4>1 DEF JobRecord, JobStatus
    <3>2. job' = [j \in Jobs |-> g(j)]
      BY <1>4 DEF Crash
    <3> HIDE DEF g
    <3>3. QED
      BY <3>1, <3>2
  <2>2. /\ ps' \in [Jobs -> [Providers -> ProviderState]]
        /\ active' = NoJob /\ task' = IdleTask /\ cancel' = IdleCancel /\ faults' \in Nat
        /\ source' \in [Providers -> [run : Jobs \cup {NoRun}, cp : Checkpoint]]
    <3>1. faults \in Nat
      BY DEF TypeOK
    <3>2. /\ faults' = faults + 1 /\ ps' = [j \in Jobs |-> [p \in Providers |-> FreshProvider]]
          /\ active' = NoJob /\ task' = IdleTask /\ cancel' = IdleCancel /\ source' = NoSource
      BY <1>4 DEF Crash
    <3>3. NoSource \in [Providers -> [run : Jobs \cup {NoRun}, cp : Checkpoint]]
      BY <1>1 DEF NoSource
    <3>4. QED
      BY <1>1, <3>1, <3>2, <3>3
  <2>3. UNCHANGED <<cps, snaps, audit, answered, admitted, high, cancels>>
    BY <1>4 DEF Crash, durable, history
  <2>4. TypeOK'
    BY <1>1, <2>1, <2>2, <2>3 DEF TypeOK
  <2>5. Control'
    BY <2>2 DEF Control, IdleTask, IdleCancel
  <2>6. QED
    BY <2>4, <2>5
<1>5. QED
  BY <1>2, <1>3, <1>4

LEMMA NextType == TypeInv /\ [Next]_vars => TypeInv'
<1> SUFFICES ASSUME TypeInv, [Next]_vars PROVE TypeInv'
  OBVIOUS
<1>1. CASE UNCHANGED vars
  BY <1>1 DEF vars, TypeInv, TypeOK, Control, State, Prov
<1>2. CASE (\E j \in Jobs : Start(j)) \/ \E j, old \in Jobs : Resume(j, old)
  BY <1>2, StartType
<1>3. CASE TaskStep
  BY <1>3, BeginJobType, SkipCancelledType, CarryOverType, BeginProviderType,
     WriteCheckpointType, LoopType, FinishType DEF TaskStep
<1>4. CASE CancelStep \/ CancelFails
  BY <1>4, CancelType DEF CancelStep
<1>5. CASE (\E j \in Jobs : CancelBegin(j)) \/ JobFails \/ Crash
  BY <1>5, FaultType
<1>6. QED
  BY <1>1, <1>2, <1>3, <1>4, <1>5 DEF Next

\* Every variable always has the shape TypeOK gives it.
THEOREM TypeCorrect == Spec => []TypeOK
<1>1. TypeInv => TypeOK
  BY DEF TypeInv
<1>2. Spec => []TypeInv
  BY InitType, NextType, PTL DEF Spec
<1>3. QED
  BY <1>1, <1>2, PTL

-----------------------------------------------------------------------------
(* The project's slot is an exact lock.                                    *)

\* The task holds the slot as long as it lives, and its job stops being
\* reported as running before the task lets go.
SlotInv ==
  /\ SlotIsHeld
  /\ task.step # "idle" => active = task.job
  /\ task.step \in {"audit", "persist", "release"} => job[task.job].status # "running"

LEMMA InitSlot == Init => SlotInv
BY DEF Init, SlotInv, SlotIsHeld, IdleTask, NoJob

LEMMA NextSlot == TypeInv /\ SlotInv /\ [Next]_vars => SlotInv'
<1> SUFFICES ASSUME TypeInv, SlotInv, [Next]_vars PROVE SlotInv'
  OBVIOUS
<1> USE DEF SlotInv, SlotIsHeld
<1>0. /\ job \in [Jobs -> JobRecord] /\ task \in TaskRecord
      /\ active \in Jobs \cup {NoJob} /\ NoJob \notin Jobs
      /\ task.step # "idle" => task.job \in Jobs
  BY ConstantTypes DEF TypeInv, TypeOK, Control
\* Nothing the lock is about changes, but for the task's own position.
<1>1. ASSUME UNCHANGED active,
             \A j \in Jobs : job'[j].status = job[j].status,
             task.step # "idle", task'.step # "idle", task'.job = task.job,
             task'.step \in {"audit", "persist", "release"} =>
               task.step \in {"audit", "persist", "release"}
      PROVE  SlotInv'
  BY <1>0, <1>1
<1>2. ASSUME UNCHANGED <<active, task>>, \A j \in Jobs : job'[j].status = job[j].status
      PROVE  SlotInv'
  BY <1>0, <1>2
<1>3. CASE UNCHANGED vars
  BY <1>2, <1>3 DEF vars
<1>4. ASSUME NEW j \in Jobs, NEW old \in Jobs, Start(j) \/ Resume(j, old)
      PROVE  SlotInv'
  <2>1. /\ active = NoJob /\ active' = j
        /\ task' = [IdleTask EXCEPT !.step = "init", !.job = j]
        /\ \A i \in Jobs : i # j => job'[i] = job[i]
    <3>1. CASE Start(j)
      BY <1>0, <3>1 DEF Start, NewJob
    <3>2. CASE Resume(j, old)
      BY <1>0, <3>2 DEF Resume, NewJob
    <3>3. QED
      BY <1>4, <3>1, <3>2
  <2>2. task'.step = "init" /\ task'.job = j
    BY <2>1 DEF IdleTask
  <2>3. \A i \in Jobs : job'[i].status = "running" => i = j
    BY <1>0, <2>1
  <2>4. QED
    BY <1>0, <2>1, <2>2, <2>3
<1>5. CASE BeginJob \/ SkipCancelled \/ CarryOver \/ BeginProvider \/ WriteCheckpoint
           \/ LoopCancelled \/ LoopLimit \/ Request \/ PageNext \/ PageLast \/ PageEmpty
           \/ PageRepeated \/ FetchFails \/ PlanIncompatible
  <2>1. /\ UNCHANGED <<job, active>> /\ task.step # "idle"
        /\ task'.step \in {"provider", "loop", "await", "write"} /\ task'.job = task.job
    <3>1. task.after \in {"loop", "provider"}
      BY <1>0 DEF TaskRecord
    <3>2. CASE BeginJob
      BY <1>0, <3>2 DEF BeginJob, Goto, TaskRecord
    <3>3. CASE SkipCancelled
      BY <1>0, <3>3 DEF SkipCancelled, AtProvider, GotoWrite, TaskRecord
    <3>4. CASE CarryOver
      BY <1>0, <3>4 DEF CarryOver, AtProvider, GotoWrite, TaskRecord
    <3>5. CASE BeginProvider
      BY <1>0, <3>5 DEF BeginProvider, AtProvider, GotoWrite, TaskRecord
    <3>6. CASE WriteCheckpoint
      BY <1>0, <3>1, <3>6 DEF WriteCheckpoint, TaskRecord
    <3>7. CASE LoopCancelled
      BY <1>0, <3>7 DEF LoopCancelled, StopProvider, GotoWrite, TaskRecord
    <3>8. CASE LoopLimit
      BY <1>0, <3>8 DEF LoopLimit, StopProvider, GotoWrite, TaskRecord
    <3>9. CASE Request
      BY <1>0, <3>9 DEF Request, TaskRecord
    <3>10. CASE PageNext
      BY <1>0, <3>10 DEF PageNext, Receive, GotoWrite, TaskRecord
    <3>11. CASE PageLast
      BY <1>0, <3>11 DEF PageLast, Receive, GotoWrite, TaskRecord
    <3>12. CASE PageEmpty
      BY <1>0, <3>12 DEF PageEmpty, Receive, GotoWrite, TaskRecord
    <3>13. CASE PageRepeated
      BY <1>0, <3>13 DEF PageRepeated, Receive, GotoWrite, TaskRecord
    <3>14. CASE FetchFails
      BY <1>0, <3>14 DEF FetchFails, StopProvider, GotoWrite, TaskRecord
    <3>15. CASE PlanIncompatible
      BY <1>0, <3>15 DEF PlanIncompatible, StopProvider, GotoWrite, TaskRecord
    <3>16. QED
      BY <1>5, <3>2, <3>3, <3>4, <3>5, <3>6, <3>7, <3>8, <3>9, <3>10, <3>11, <3>12, <3>13,
         <3>14, <3>15
  <2>2. QED
    BY <1>1, <2>1
<1>6. CASE FinalizeStatus
  <2>1. task.job \in Jobs /\ active = task.job
    BY <1>0, <1>6 DEF FinalizeStatus
  <2>2. /\ \A i \in Jobs : i # task.job => job'[i] = job[i]
        /\ job'[task.job].status # "running"
    BY <1>0, <1>6, <2>1 DEF FinalizeStatus, JobRecord
  <2>3. task'.step = "audit" /\ task'.job = task.job /\ UNCHANGED active
    BY <1>0, <1>6 DEF FinalizeStatus, TaskRecord
  <2>4. QED
    BY <1>0, <2>1, <2>2, <2>3
<1>7. CASE WriteAudit \/ AuditsWritten \/ PersistSnapshot
  <2>1. /\ UNCHANGED <<job, active>> /\ task.step \in {"audit", "persist"}
        /\ task'.step \in {"audit", "persist"} /\ task'.job = task.job
    BY <1>0, <1>7 DEF WriteAudit, AuditsWritten, PersistSnapshot, Goto, TaskRecord
  <2>2. QED
    BY <1>1, <2>1
<1>8. CASE PublishResult
  <2>1. /\ UNCHANGED active /\ task.step = "persist"
        /\ task'.step = "release" /\ task'.job = task.job
    BY <1>0, <1>8 DEF PublishResult, Goto, TaskRecord
  <2>2. \A j \in Jobs : job'[j].status = job[j].status
    BY <1>0, <1>8 DEF PublishResult, JobRecord
  <2>3. QED
    BY <1>1, <2>1, <2>2
<1>9. CASE JobFails
  <2>1. task.job \in Jobs /\ active = task.job
    BY <1>0, <1>9 DEF JobFails
  <2>2. /\ \A i \in Jobs : i # task.job => job'[i] = job[i]
        /\ job'[task.job].status = "failed"
    BY <1>0, <1>9, <2>1 DEF JobFails, JobRecord
  <2>3. task'.step = "release" /\ task'.job = task.job /\ UNCHANGED active
    BY <1>0, <1>9 DEF JobFails, Goto, TaskRecord
  <2>4. QED
    BY <1>0, <2>1, <2>2, <2>3
<1>10. CASE ReleaseSlot
  <2>1. /\ active' = NoJob /\ task' = IdleTask /\ UNCHANGED job
        /\ job[task.job].status # "running" /\ active = task.job
    BY <1>10 DEF ReleaseSlot
  <2>2. QED
    BY <1>0, <2>1 DEF IdleTask
<1>11. CASE CancelStep \/ CancelFails
  BY <1>2, <1>11 DEF CancelStep, CancelCheck, CancelMark, CancelBuild, CancelSave, CancelFails,
     CancelReturn
<1>12. ASSUME NEW j \in Jobs, CancelBegin(j)
       PROVE  SlotInv'
  <2>1. UNCHANGED <<active, task>>
    BY <1>12 DEF CancelBegin
  <2>2. \A i \in Jobs : job'[i].status = job[i].status
    BY <1>0, <1>12 DEF CancelBegin, JobRecord
  <2>3. QED
    BY <1>2, <2>1, <2>2
<1>13. CASE Crash
  <2>1. \A j \in Jobs : job'[j].status # "running"
    BY <1>0, <1>13 DEF Crash, JobRecord
  <2>2. active' = NoJob /\ task' = IdleTask
    BY <1>13 DEF Crash
  <2>3. QED
    BY <2>1, <2>2 DEF IdleTask
<1>14. QED
  BY <1>3, <1>4, <1>5, <1>6, <1>7, <1>8, <1>9, <1>10, <1>11, <1>12, <1>13 DEF Next, TaskStep

\* At most one job of the project runs, and the slot it holds is always held
\* by a live task that will come to release it.
THEOREM SlotIsExact == Spec => []SlotIsHeld
<1>1. SlotInv => SlotIsHeld
  BY DEF SlotInv
<1>2. Init => TypeInv /\ SlotInv
  BY InitType, InitSlot
<1>3. TypeInv /\ SlotInv /\ [Next]_vars => (TypeInv /\ SlotInv)'
  BY NextType, NextSlot
<1>4. Spec => [](TypeInv /\ SlotInv)
  BY <1>2, <1>3, PTL DEF Spec
<1>5. QED
  BY <1>1, <1>4, PTL

-----------------------------------------------------------------------------
(* A resume never skips a page.                                            *)

\* A cursor of a run that asks for no page beyond the first unanswered one;
\* a(nswered) is a parameter, to speak of the next state too.
Behind(a, p, k, c) ==
  c # NoCursor => c = 1 \/ (k \in Jobs /\ 1 .. c - 1 \subseteq a[p][k])

\* The cursor of a row comes from a provider's state, from the row a task or a
\* cancel handler is about to write, or from an older row: each stays behind.
ResumeInv ==
  /\ \A p \in Providers, k \in Jobs : Behind(answered, p, k, cps[p][k].cursor)
  /\ \A j \in Jobs, p \in Providers : Behind(answered, p, ps[j][p].run, ps[j][p].cursor)
  /\ \A p \in Providers : Behind(answered, p, source[p].run, source[p].cp.cursor)
  /\ task.step = "write" => Behind(answered, Prov, State.run, task.cur)
  /\ cancel.step = "save" => Behind(answered, CancelTarget, cancel.run, cancel.row.cursor)

LEMMA InitResume == Init => ResumeInv
<1> SUFFICES ASSUME Init PROVE ResumeInv
  OBVIOUS
<1>1. /\ \A p \in Providers, k \in Jobs : cps[p][k].cursor = NoCursor
      /\ \A j \in Jobs, p \in Providers : ps[j][p].cursor = NoCursor
      /\ \A p \in Providers : source[p].cp.cursor = NoCursor
      /\ task.step = "idle" /\ cancel.step = "idle"
  BY DEF Init, NoCheckpoint, FreshProvider, NoSource, IdleTask, IdleCancel
<1>2. QED
  BY <1>1 DEF ResumeInv, Behind

\* Answering more pages leaves every cursor behind.
LEMMA BehindGrows ==
  ASSUME NEW a, NEW b, NEW p \in Providers, NEW k, NEW c,
         \A l \in Jobs : a[p][l] \subseteq b[p][l],
         Behind(a, p, k, c)
  PROVE  Behind(b, p, k, c)
BY DEF Behind

\* Drawing a run id does not move a cursor.
LEMMA BehindPrepared ==
  ASSUME TypeInv, ResumeInv, NEW j \in Jobs, NEW p \in Providers, NEW res \in BOOLEAN,
         ps' = Prepared(j, p, res), UNCHANGED answered
  PROVE  /\ \A i \in Jobs, q \in Providers : Behind(answered', q, ps'[i][q].run, ps'[i][q].cursor)
         /\ \A i \in Jobs, q \in Providers, c \in Cursors :
              Behind(answered, q, ps[i][q].run, c) => Behind(answered', q, ps'[i][q].run, c)
<1>1. \A i \in Jobs, q \in Providers :
        /\ ps'[i][q].cursor = ps[i][q].cursor
        /\ ps'[i][q].run = ps[i][q].run \/ ps[i][q].run = NoRun
  BY DEF Prepared, TypeInv, TypeOK, ProviderState
<1>2. \A i \in Jobs, q \in Providers, c \in Cursors :
        Behind(answered, q, ps[i][q].run, c) => Behind(answered', q, ps'[i][q].run, c)
  BY <1>1, ConstantTypes DEF Behind
<1>3. \A i \in Jobs, q \in Providers : ps[i][q].cursor \in Cursors
  BY DEF TypeInv, TypeOK, ProviderState
<1>4. QED
  BY <1>1, <1>2, <1>3 DEF ResumeInv

\* An upsert of a row that is behind.
LEMMA BehindUpsert ==
  ASSUME TypeInv, ResumeInv, NEW p \in Providers, NEW k \in Jobs, NEW row \in Checkpoint,
         Behind(answered, p, k, row.cursor), Upsert(p, k, row), UNCHANGED answered
  PROVE  \A q \in Providers, l \in Jobs : Behind(answered', q, l, cps'[q][l].cursor)
BY DEF Upsert, TypeInv, TypeOK, ResumeInv

\* Changing one provider's state, with a cursor that is behind.
LEMMA BehindState ==
  ASSUME TypeInv, ResumeInv, NEW j \in Jobs, NEW p \in Providers, NEW s,
         ps' = [ps EXCEPT ![j][p] = s], Behind(answered', p, s.run, s.cursor),
         \A q \in Providers, l \in Jobs : answered[q][l] \subseteq answered'[q][l]
  PROVE  \A i \in Jobs, q \in Providers : Behind(answered', q, ps'[i][q].run, ps'[i][q].cursor)
<1> SUFFICES ASSUME NEW i \in Jobs, NEW q \in Providers
             PROVE  Behind(answered', q, ps'[i][q].run, ps'[i][q].cursor)
  OBVIOUS
<1>1. CASE i = j /\ q = p
  BY <1>1 DEF TypeInv, TypeOK
<1>2. CASE ~(i = j /\ q = p)
  <2>1. ps'[i][q] = ps[i][q]
    BY <1>2 DEF TypeInv, TypeOK
  <2>2. Behind(answered, q, ps[i][q].run, ps[i][q].cursor)
    BY DEF ResumeInv
  <2>3. QED
    BY <2>1, <2>2, BehindGrows
<1>3. QED
  BY <1>1, <1>2

\* The rows, the sources and the pending row of a cancel, when only the pages
\* answered grow.
LEMMA BehindFrame ==
  ASSUME TypeInv, ResumeInv, UNCHANGED <<cps, source, cancel>>,
         \A q \in Providers, l \in Jobs : answered[q][l] \subseteq answered'[q][l]
  PROVE  /\ \A p \in Providers, k \in Jobs : Behind(answered', p, k, cps'[p][k].cursor)
         /\ \A p \in Providers : Behind(answered', p, source'[p].run, source'[p].cp.cursor)
         /\ cancel'.step = "save" =>
              Behind(answered', CancelTarget', cancel'.run, cancel'.row.cursor)
<1>1. cancel.step = "save" => CancelTarget \in Providers
  BY ConstantTypes DEF TypeInv, TypeOK, Control, CancelRecord, CancelTarget
<1>2. CancelTarget' = CancelTarget
  BY DEF CancelTarget
<1>3. QED
  BY <1>1, <1>2, BehindGrows DEF ResumeInv

LEMMA StopResume ==
  ASSUME TypeInv, ResumeInv, task.step \in {"loop", "await"},
         NEW status, NEW res, NEW save, StopProvider(status, State.cursor, res, save)
  PROVE  ResumeInv'
<1>1. /\ task.job \in Jobs /\ Prov \in Providers /\ State \in ProviderState
  BY StateType
<1> DEFINE s == [State EXCEPT !.status = status, !.resumable = res]
<1>2. /\ ps' = [ps EXCEPT ![task.job][Prov] = s]
      /\ s.run = State.run /\ s.cursor = State.cursor
  BY <1>1 DEF StopProvider, State, TypeInv, TypeOK, ProviderState
<1> HIDE DEF s
<1>3. UNCHANGED <<cps, source, cancel, answered>>
  BY DEF StopProvider, durable, history
<1>4. Behind(answered', Prov, State.run, State.cursor)
  BY <1>1, <1>3 DEF ResumeInv, State
<1>5. task'.step = "write" /\ task'.job = task.job /\ task'.i = task.i /\ task'.cur = State.cursor
  BY DEF StopProvider, GotoWrite, TypeInv, TypeOK, TaskRecord
<1>6. Prov' = Prov /\ State' = s
  BY <1>1, <1>2, <1>5 DEF Prov, State, TypeInv, TypeOK
<1>7. \A i \in Jobs, q \in Providers : Behind(answered', q, ps'[i][q].run, ps'[i][q].cursor)
  BY <1>1, <1>2, <1>3, <1>4, BehindState
<1>8. QED
  BY <1>2, <1>3, <1>4, <1>5, <1>6, <1>7, BehindFrame DEF ResumeInv

LEMMA ReceiveResume ==
  ASSUME TypeInv, ResumeInv, task.step = "await",
         NEW records \in SUBSET Records, NEW cursor \in Cursors,
         NEW status \in ProviderStatus, NEW resumable \in BOOLEAN,
         NEW res \in BOOLEAN, NEW after \in {"loop", "provider"},
         cursor # NoCursor => cursor <= State.cursor + 1,
         Receive(records, cursor, status, resumable), GotoWrite(cursor, res, after)
  PROVE  ResumeInv'
<1>1. /\ task.job \in Jobs /\ Prov \in Providers /\ State \in ProviderState
  BY StateType
<1>2. State.cursor \in Pages /\ State.run \in Jobs
  BY <1>1 DEF TypeInv, Control, ProviderState, Cursors
<1> DEFINE s == Received(State, records \ State.seen, cursor, status, resumable)
<1>3. /\ ps' = [ps EXCEPT ![task.job][Prov] = s]
      /\ answered' = [answered EXCEPT ![Prov][State.run] = @ \cup {State.cursor}]
      /\ UNCHANGED <<cps, source, cancel>>
  BY DEF Receive, durable
<1>4. s.run = State.run /\ s.cursor = cursor
  <2>1. records \ State.seen \in SUBSET Records
    OBVIOUS
  <2>2. QED
    BY <1>1, <2>1, ReceivedType
<1> HIDE DEF s
<1>5. /\ \A q \in Providers, l \in Jobs : answered[q][l] \subseteq answered'[q][l]
      /\ answered'[Prov][State.run] = answered[Prov][State.run] \cup {State.cursor}
  BY <1>1, <1>2, <1>3 DEF TypeInv, TypeOK
<1>6. Behind(answered', Prov, State.run, cursor)
  <2>1. State.cursor # 1 => 1 .. State.cursor - 1 \subseteq answered[Prov][State.run]
    BY <1>1, <1>2, ConstantTypes DEF ResumeInv, Behind, State
  <2>2. 1 .. State.cursor \subseteq answered'[Prov][State.run]
    BY <1>2, <1>5, <2>1, ConstantTypes DEF Pages
  <2>3. cursor # NoCursor => 1 .. cursor - 1 \subseteq 1 .. State.cursor
    BY <1>2, ConstantTypes DEF Cursors, Pages
  <2>4. QED
    BY <1>2, <2>2, <2>3 DEF Behind
<1>7. task'.step = "write" /\ task'.job = task.job /\ task'.i = task.i /\ task'.cur = cursor
  BY DEF GotoWrite, TypeInv, TypeOK, TaskRecord
<1>8. Prov' = Prov /\ State' = s
  BY <1>1, <1>3, <1>7 DEF Prov, State, TypeInv, TypeOK
<1>9. \A i \in Jobs, q \in Providers : Behind(answered', q, ps'[i][q].run, ps'[i][q].cursor)
  BY <1>1, <1>3, <1>4, <1>5, <1>6, BehindState
<1>10. QED
  BY <1>3, <1>4, <1>5, <1>6, <1>7, <1>8, <1>9, BehindFrame DEF ResumeInv

\* The actions that end a provider's loop or receive a page.
LEMMA LoopResume ==
  ASSUME TypeInv, ResumeInv,
         LoopCancelled \/ LoopLimit \/ PageNext \/ PageLast \/ PageEmpty \/ PageRepeated
         \/ FetchFails \/ PlanIncompatible
  PROVE  ResumeInv'
<1>1. /\ "partial" \in ProviderStatus /\ "failed" \in ProviderStatus
      /\ "complete" \in ProviderStatus /\ "cancelled" \in ProviderStatus
      /\ NoCursor \in Cursors
  BY DEF ProviderStatus, Cursors
<1>2. ASSUME task.step = "await"
      PROVE  /\ State.cursor \in Pages /\ State.status \in ProviderStatus
             /\ State.resumable \in BOOLEAN /\ State.start \in Cursors
             /\ Content[Prov][State.cursor] \in SUBSET Records
             /\ \A c \in NextCursors : c \in Cursors /\ c # NoCursor /\ c <= State.cursor + 1
  <2>1. State \in ProviderState /\ Prov \in Providers
    BY <1>2, StateType
  <2>2. State.cursor \in Pages
    BY <1>2, <2>1 DEF TypeInv, Control, ProviderState, Cursors
  <2>3. Content[Prov][State.cursor] \in SUBSET Records
    BY <2>1, <2>2, FetchAllAssumption DEF FetchAllAssumption
  <2>4. \A c \in NextCursors : c \in Cursors /\ c # NoCursor /\ c <= State.cursor + 1
    BY DEF NextCursors, Pages, Cursors, NoCursor
  <2>5. QED
    BY <2>1, <2>2, <2>3, <2>4 DEF ProviderState
<1>3. CASE LoopCancelled
  BY <1>3, StopResume DEF LoopCancelled
<1>4. CASE LoopLimit
  BY <1>4, StopResume DEF LoopLimit
<1>5. CASE PageNext
  <2>1. task.step = "await"
    BY <1>5 DEF PageNext
  <2>2. PICK c \in NextCursors :
          /\ Receive(Content[Prov][State.cursor], c, State.status, State.resumable)
          /\ GotoWrite(c, TRUE, "loop")
    BY <1>5 DEF PageNext
  <2>3. QED
    BY <1>2, <2>1, <2>2, ReceiveResume
<1>6. CASE PageLast
  BY <1>1, <1>2, <1>6, ReceiveResume DEF PageLast
<1>7. CASE PageEmpty
  <2>1. task.step = "await"
    BY <1>7 DEF PageEmpty
  <2>2. PICK c \in NextCursors : Receive({}, c, "partial", FALSE) /\ GotoWrite(c, TRUE, "provider")
    BY <1>7 DEF PageEmpty
  <2>3. {} \in SUBSET Records
    OBVIOUS
  <2>4. QED
    BY <1>1, <1>2, <2>1, <2>2, <2>3, ReceiveResume
<1>8. CASE PageRepeated
  <2>1. task.step = "await"
    BY <1>8 DEF PageRepeated
  <2>2. PICK c \in NextCursors :
          /\ Receive(Content[Prov][State.cursor], c, "partial", FALSE)
          /\ GotoWrite(c, FALSE, "provider")
    BY <1>8 DEF PageRepeated
  <2>4. QED
    BY <1>1, <1>2, <2>1, <2>2, ReceiveResume
<1>9. CASE FetchFails
  BY <1>9, StopResume DEF FetchFails
<1>10. CASE PlanIncompatible
  BY <1>10, StopResume DEF PlanIncompatible
<1>11. QED
  BY <1>3, <1>4, <1>5, <1>6, <1>7, <1>8, <1>9, <1>10

\* A step that leaves the cursors and the pages answered alone.
LEMMA KeepResume ==
  ASSUME ResumeInv, UNCHANGED <<ps, cps, source, answered>>,
         task'.step # "write",
         cancel'.step # "save" \/ UNCHANGED cancel
  PROVE  ResumeInv'
<1>1. cancel'.step = "save" => CancelTarget' = CancelTarget /\ cancel' = cancel
  BY DEF CancelTarget
<1>2. QED
  BY <1>1 DEF ResumeInv

\* A task takes its checkpoints from rows, and its provider states from those.
LEMMA StartResume ==
  ASSUME TypeInv, ResumeInv, NEW j \in Jobs, NEW old \in Jobs, Start(j) \/ Resume(j, old)
  PROVE  ResumeInv'
<1>1. UNCHANGED <<ps, cps, cancel, answered>> /\ task'.step = "init"
  BY DEF Start, Resume, NewJob, IdleTask, durable, history
<1>2. \A p \in Providers : Behind(answered, p, source'[p].run, source'[p].cp.cursor)
  <2>1. CASE Start(j)
    BY <2>1 DEF Start, NoSource, NoCheckpoint, Behind
  <2>2. CASE Resume(j, old)
    <3> SUFFICES ASSUME NEW p \in Providers
                 PROVE  Behind(answered, p, source'[p].run, source'[p].cp.cursor)
      OBVIOUS
    <3>1. CASE \E k \in Jobs : cps[p][k].job = old
      <4> DEFINE row == CHOOSE k \in Jobs : cps[p][k].job = old
      <4>1. row \in Jobs
        BY <3>1
      <4>2. source'[p] = [run |-> row, cp |-> cps[p][row]]
        BY <2>2, <3>1 DEF Resume
      <4> HIDE DEF row
      <4>3. QED
        BY <4>1, <4>2 DEF ResumeInv
    <3>2. CASE ~(\E k \in Jobs : cps[p][k].job = old)
      <4>1. source'[p] = [run |-> NoRun, cp |-> NoCheckpoint]
        BY <2>2, <3>2 DEF Resume
      <4>2. QED
        BY <4>1 DEF NoCheckpoint, Behind
    <3>3. QED
      BY <3>1, <3>2
  <2>3. QED
    BY <2>1, <2>2
<1>3. cancel'.step = "save" => CancelTarget' = CancelTarget
  BY <1>1 DEF CancelTarget
<1>4. QED
  BY <1>1, <1>2, <1>3 DEF ResumeInv

LEMMA BeginJobResume == ASSUME TypeInv, ResumeInv, BeginJob PROVE ResumeInv'
<1>1. /\ UNCHANGED <<cps, cancel, answered>> /\ source' = NoSource
      /\ task'.step = "provider"
  BY DEF BeginJob, Goto, durable, history, TypeInv, TypeOK, TaskRecord
<1>2. \A p \in Providers : Behind(answered, p, Restored(p).run, Restored(p).cursor)
  <2> SUFFICES ASSUME NEW p \in Providers
               PROVE  Behind(answered, p, Restored(p).run, Restored(p).cursor)
    OBVIOUS
  <2>1. CASE source[p].run = NoRun
    BY <2>1 DEF Restored, FreshProvider, Behind
  <2>2. CASE source[p].run # NoRun
    <3>1. Restored(p).run = source[p].run /\ Restored(p).cursor = source[p].cp.cursor
      BY <2>2 DEF Restored, FreshProvider
    <3>2. QED
      BY <3>1 DEF ResumeInv
  <2>3. QED
    BY <2>1, <2>2
<1>3. ps' = [ps EXCEPT ![task.job] = [p \in Providers |-> Restored(p)]]
  BY DEF BeginJob
<1>4. \A i \in Jobs, q \in Providers : Behind(answered', q, ps'[i][q].run, ps'[i][q].cursor)
  <2> SUFFICES ASSUME NEW i \in Jobs, NEW q \in Providers
               PROVE  Behind(answered', q, ps'[i][q].run, ps'[i][q].cursor)
    OBVIOUS
  <2>1. CASE i = task.job
    <3>1. ps'[i][q] = Restored(q)
      BY <1>3, <2>1 DEF TypeInv, TypeOK
    <3>2. QED
      BY <1>1, <1>2, <3>1
  <2>2. CASE i # task.job
    <3>1. ps'[i] = ps[i]
      BY <1>3, <2>2 DEF TypeInv, TypeOK
    <3>2. QED
      BY <1>1, <3>1 DEF ResumeInv
  <2>3. QED
    BY <2>1, <2>2
<1>5. \A p \in Providers : Behind(answered', p, source'[p].run, source'[p].cp.cursor)
  BY <1>1 DEF NoSource, NoCheckpoint, Behind
<1>6. cancel'.step = "save" => CancelTarget' = CancelTarget
  BY <1>1 DEF CancelTarget
<1>7. QED
  BY <1>1, <1>4, <1>5, <1>6 DEF ResumeInv

\* A provider's turn: its new state and the row to write are both behind.
LEMMA TurnResume ==
  ASSUME TypeInv, ResumeInv, AtProvider, NEW s, NEW cur, NEW res, NEW after,
         ps' = [ps EXCEPT ![task.job][Prov] = s], GotoWrite(cur, res, after),
         UNCHANGED <<cps, source, cancel, answered>>,
         Behind(answered, Prov, s.run, s.cursor), Behind(answered, Prov, s.run, cur)
  PROVE  ResumeInv'
<1>1. task.job \in Jobs /\ Prov \in Providers
  BY ConstantTypes DEF AtProvider, Prov, TypeInv, TypeOK, Control, TaskRecord
<1>2. task'.step = "write" /\ task'.job = task.job /\ task'.i = task.i /\ task'.cur = cur
  BY DEF GotoWrite, TypeInv, TypeOK, TaskRecord
<1>3. Prov' = Prov /\ State' = s
  BY <1>1, <1>2 DEF Prov, State, TypeInv, TypeOK
<1>4. \A i \in Jobs, q \in Providers : Behind(answered', q, ps'[i][q].run, ps'[i][q].cursor)
  BY <1>1, BehindState
<1>5. QED
  BY <1>2, <1>3, <1>4, BehindFrame DEF ResumeInv

LEMMA ProviderResume ==
  ASSUME TypeInv, ResumeInv, SkipCancelled \/ CarryOver \/ BeginProvider
  PROVE  ResumeInv'
<1>1. AtProvider
  BY DEF SkipCancelled, CarryOver, BeginProvider
<1>2. task.job \in Jobs /\ Prov \in Providers
  BY <1>1, ConstantTypes DEF AtProvider, Prov, TypeInv, TypeOK, Control, TaskRecord
<1>3. State \in ProviderState
  BY <1>2 DEF State, TypeInv, TypeOK
<1>4. /\ Behind(answered, Prov, State.run, State.cursor)
      /\ \A k : Behind(answered, Prov, k, 1)
      /\ State.cursor # NoCursor => State.cursor = 1 \/ State.run \in Jobs
  BY <1>2 DEF ResumeInv, State, Behind
<1>5. UNCHANGED <<cps, source, cancel, answered>>
  BY DEF SkipCancelled, CarryOver, BeginProvider, durable, history
<1> DEFINE c == IF State.cursor = NoCursor THEN 1 ELSE State.cursor
<1>6. CASE SkipCancelled
  <2> DEFINE s == [State EXCEPT !.status = "cancelled", !.resumable = TRUE]
  <2>1. ps' = [ps EXCEPT ![task.job][Prov] = s] /\ s.run = State.run /\ s.cursor = State.cursor
    BY <1>2, <1>3, <1>6 DEF SkipCancelled, State, TypeInv, TypeOK, ProviderState
  <2>2. GotoWrite(c, TRUE, "provider") /\ Behind(answered, Prov, State.run, c)
    BY <1>4, <1>6 DEF SkipCancelled
  <2> HIDE DEF s, c
  <2>3. QED
    BY <1>1, <1>4, <1>5, <2>1, <2>2, TurnResume
<1>7. CASE CarryOver
  <2>1. ps' = [ps EXCEPT ![task.job][Prov] = State]
    BY <1>2, <1>7 DEF CarryOver, State, TypeInv, TypeOK
  <2>2. GotoWrite(State.cursor, FALSE, "provider")
    BY <1>7 DEF CarryOver
  <2>3. QED
    BY <1>1, <1>4, <1>5, <2>1, <2>2, TurnResume
<1>8. CASE BeginProvider
  <2> DEFINE s == [State EXCEPT !.status = "running", !.cursor = c, !.start = c,
                     !.run = IF State.run = NoRun THEN task.job ELSE State.run]
  <2>1. ps' = [ps EXCEPT ![task.job][Prov] = s] /\ GotoWrite(c, TRUE, "loop")
    BY <1>8 DEF BeginProvider
  <2>2. /\ s.cursor = c
        /\ s.run = IF State.run = NoRun THEN task.job ELSE State.run
    BY <1>3 DEF ProviderState
  <2>3. Behind(answered, Prov, s.run, c)
    <3>1. CASE State.run = NoRun
      BY <1>4, <2>2, <3>1, ConstantTypes
    <3>2. CASE State.run # NoRun
      BY <1>4, <2>2, <3>2
    <3>3. QED
      BY <3>1, <3>2
  <2> HIDE DEF s, c
  <2>4. QED
    BY <1>1, <1>5, <2>1, <2>2, <2>3, TurnResume
<1>9. QED
  BY <1>6, <1>7, <1>8

LEMMA WriteResume == ASSUME TypeInv, ResumeInv, WriteCheckpoint PROVE ResumeInv'
<1> DEFINE k   == RunOf(task.job, Prov)
           row == Row(task.job, Prov, task.cur, task.res)
<1>1. /\ task.job \in Jobs /\ Prov \in Providers /\ State \in ProviderState
      /\ task.res \in BOOLEAN /\ task.cur \in Cursors
  BY StateType DEF WriteCheckpoint, TypeInv, TypeOK, TaskRecord
<1>2. /\ ps' = Prepared(task.job, Prov, task.res) /\ Upsert(Prov, k, row)
      /\ UNCHANGED <<source, cancel, answered>>
  BY DEF WriteCheckpoint, durable, history
<1>3. k \in Jobs /\ row \in Checkpoint /\ row.cursor = task.cur
  <2>1. k \in Jobs /\ row \in Checkpoint
    BY <1>1, RowType DEF TypeInv
  <2>2. QED
    BY <2>1 DEF Row
<1>4. Behind(answered, Prov, k, task.cur)
  <2>1. Behind(answered, Prov, State.run, task.cur)
    BY DEF ResumeInv, WriteCheckpoint
  <2>2. k = State.run \/ State.run = NoRun
    BY DEF RunOf, State
  <2>3. QED
    BY <2>1, <2>2, ConstantTypes DEF Behind
<1> HIDE DEF k, row
<1>5. \A q \in Providers, l \in Jobs : Behind(answered', q, l, cps'[q][l].cursor)
  BY <1>1, <1>2, <1>3, <1>4, BehindUpsert
<1>6. \A i \in Jobs, q \in Providers : Behind(answered', q, ps'[i][q].run, ps'[i][q].cursor)
  BY <1>1, <1>2, BehindPrepared
<1>7. task'.step # "write"
  BY DEF WriteCheckpoint, TypeInv, TypeOK, TaskRecord
<1>8. CancelTarget' = CancelTarget
  BY <1>2 DEF CancelTarget
<1>9. QED
  BY <1>2, <1>5, <1>6, <1>7, <1>8 DEF ResumeInv

\* A cancel handler changes states and rows, never a cursor.
LEMMA CancelResume ==
  ASSUME TypeInv, ResumeInv, CancelStep
  PROVE  ResumeInv'
<1>0. UNCHANGED <<task, source, answered>>
  BY DEF CancelStep, CancelCheck, CancelMark, CancelBuild, CancelSave, CancelReturn, durable, history
<1>1. /\ cancel.step \in {"mark", "build", "save"} => CancelTarget \in Providers /\ cancel.job \in Jobs
      /\ task.step = "write" => task.job \in Jobs /\ Prov \in Providers /\ State \in ProviderState
      /\ task.cur \in Cursors
  <2>1. cancel.step \in {"mark", "build", "save"} => CancelTarget \in Providers /\ cancel.job \in Jobs
    BY ConstantTypes DEF CancelTarget, TypeInv, TypeOK, Control, CancelRecord
  <2>2. QED
    BY <2>1, StateType DEF TypeInv, TypeOK, TaskRecord
<1>2. Prov' = Prov
  BY <1>0 DEF Prov
\* Steps that leave the states alone.
<1>3. ASSUME UNCHANGED ps, \A p \in Providers, k \in Jobs : Behind(answered, p, k, cps'[p][k].cursor),
             cancel'.step # "save"
      PROVE  ResumeInv'
  <2>1. State' = State
    BY <1>0, <1>3 DEF State, Prov
  <2>2. QED
    BY <1>0, <1>2, <1>3, <2>1 DEF ResumeInv
<1>4. CASE CancelCheck \/ CancelReturn
  <2>1. UNCHANGED <<ps, cps>>
    BY <1>4 DEF CancelCheck, CancelReturn, durable
  <2>2. cancel'.step # "save"
    <3>1. CASE CancelCheck
      <4>1. cancel \in CancelRecord /\ cancel.step = "check"
        BY <3>1 DEF CancelCheck, TypeInv, TypeOK
      <4>2. \/ cancel' = [cancel EXCEPT !.step = "mark"]
            \/ cancel' = [cancel EXCEPT !.i = @ + 1]
        BY <3>1 DEF CancelCheck
      <4>3. QED
        BY <4>1, <4>2 DEF CancelRecord
    <3>2. CASE CancelReturn
      BY <3>2 DEF CancelReturn, IdleCancel
    <3>3. QED
      BY <1>4, <3>1, <3>2
  <2>3. QED
    BY <1>3, <2>1, <2>2 DEF ResumeInv
<1>5. CASE CancelMark
  <2>1. \A j \in Jobs, p \in Providers :
          ps'[j][p].run = ps[j][p].run /\ ps'[j][p].cursor = ps[j][p].cursor
    BY <1>1, <1>5 DEF CancelMark, TypeInv, TypeOK, ProviderState
  <2>2. task.step = "write" => State'.run = State.run
    BY <1>0, <1>1, <2>1 DEF State, Prov
  <2>3. UNCHANGED cps /\ cancel'.step = "build"
    BY <1>5 DEF CancelMark, durable, TypeInv, TypeOK, CancelRecord
  <2>4. QED
    BY <1>0, <1>2, <2>1, <2>2, <2>3 DEF ResumeInv
<1>6. CASE CancelBuild
  <2> DEFINE j == cancel.job
             p == CancelTarget
  <2>1. j \in Jobs /\ p \in Providers
    BY <1>1, <1>6 DEF CancelBuild
  <2>2. /\ ps' = Prepared(j, p, TRUE) /\ UNCHANGED cps
        /\ cancel' = [cancel EXCEPT !.step = "save", !.run = RunOf(j, p),
                        !.row = Row(j, p, ps[j][p].cursor, TRUE)]
    BY <1>6 DEF CancelBuild, durable
  <2>3. /\ cancel'.run = RunOf(j, p) /\ cancel'.row.cursor = ps[j][p].cursor /\ cancel'.i = cancel.i
    BY <2>2 DEF Row, TypeInv, TypeOK, CancelRecord
  <2>4. CancelTarget' = p
    BY <2>3 DEF CancelTarget
  <2> HIDE DEF p
  <2>5. Behind(answered, p, RunOf(j, p), ps[j][p].cursor)
    <3>1. Behind(answered, p, ps[j][p].run, ps[j][p].cursor)
      BY <2>1 DEF ResumeInv
    <3>2. QED
      BY <3>1, ConstantTypes DEF RunOf, Behind
  <2>6. /\ \A i \in Jobs, q \in Providers : Behind(answered', q, ps'[i][q].run, ps'[i][q].cursor)
        /\ \A i \in Jobs, q \in Providers, c \in Cursors :
             Behind(answered, q, ps[i][q].run, c) => Behind(answered', q, ps'[i][q].run, c)
    BY <1>0, <2>1, <2>2, BehindPrepared
  <2>7. task.step = "write" => Behind(answered', Prov', State'.run, task'.cur)
    <3>1. task.step = "write" => Behind(answered, Prov, State.run, task.cur)
      BY DEF ResumeInv
    <3>2. QED
      BY <1>0, <1>1, <2>6, <3>1 DEF State, Prov
  <2>8. QED
    BY <1>0, <2>2, <2>3, <2>4, <2>5, <2>6, <2>7 DEF ResumeInv
<1>7. CASE CancelSave
  <2>1. /\ Upsert(CancelTarget, cancel.run, cancel.row) /\ UNCHANGED ps
        /\ cancel'.step = "check" /\ cancel.step = "save"
    BY <1>7 DEF CancelSave, TypeInv, TypeOK, CancelRecord
  <2>2. cancel.run \in Jobs /\ cancel.row \in Checkpoint
    BY <2>1 DEF TypeInv, TypeOK, Control, CancelRecord
  <2>3. \A p \in Providers, k \in Jobs : Behind(answered', p, k, cps'[p][k].cursor)
    BY <1>0, <1>1, <2>1, <2>2, BehindUpsert DEF ResumeInv
  <2>4. QED
    BY <1>0, <1>3, <2>1, <2>3
<1>8. QED
  BY <1>4, <1>5, <1>6, <1>7 DEF CancelStep

\* Database and factory errors, and the death of the process.
LEMMA FaultResume ==
  ASSUME TypeInv, ResumeInv, JobFails \/ CancelFails \/ Crash
  PROVE  ResumeInv'
<1>1. CASE JobFails
  <2>1. /\ UNCHANGED <<cps, source, cancel, answered>> /\ task'.step = "release"
    BY <1>1 DEF JobFails, Goto, durable, history, TypeInv, TypeOK, TaskRecord
  <2>2. \A i \in Jobs, q \in Providers : Behind(answered', q, ps'[i][q].run, ps'[i][q].cursor)
    <3>1. CASE task.step = "write"
      <4>1. ps' = Prepared(task.job, Prov, task.res) /\ task.res \in BOOLEAN
        BY <1>1, <3>1 DEF JobFails, TypeInv, TypeOK, TaskRecord
      <4>2. QED
        BY <2>1, <3>1, <4>1, StateType, BehindPrepared
    <3>2. CASE task.step # "write"
      BY <1>1, <2>1, <3>2 DEF JobFails, ResumeInv
    <3>3. QED
      BY <3>1, <3>2
  <2>3. CancelTarget' = CancelTarget
    BY <2>1 DEF CancelTarget
  <2>4. QED
    BY <2>1, <2>2, <2>3 DEF ResumeInv
<1>2. CASE CancelFails
  <2>1. UNCHANGED <<ps, cps, task, source, answered>> /\ cancel'.step = "idle"
    BY <1>2 DEF CancelFails, IdleCancel, durable, history
  <2>2. State' = State /\ Prov' = Prov
    BY <2>1 DEF State, Prov
  <2>3. QED
    BY <2>1, <2>2 DEF ResumeInv
<1>3. CASE Crash
  <2>1. /\ UNCHANGED <<cps, answered>> /\ task'.step = "idle" /\ cancel'.step = "idle"
        /\ \A j \in Jobs, p \in Providers : ps'[j][p].cursor = NoCursor
        /\ \A p \in Providers : source'[p].cp.cursor = NoCursor
    BY <1>3 DEF Crash, durable, history, FreshProvider, NoSource, NoCheckpoint, IdleTask, IdleCancel
  <2>2. QED
    BY <2>1 DEF ResumeInv, Behind
<1>4. QED
  BY <1>1, <1>2, <1>3

LEMMA NextResume == TypeInv /\ ResumeInv /\ [Next]_vars => ResumeInv'
<1> SUFFICES ASSUME TypeInv, ResumeInv, [Next]_vars PROVE ResumeInv'
  OBVIOUS
<1>1. CASE UNCHANGED vars
  <2>1. State' = State /\ Prov' = Prov /\ CancelTarget' = CancelTarget
    BY <1>1 DEF vars, State, Prov, CancelTarget
  <2>2. QED
    BY <1>1, <2>1 DEF vars, ResumeInv
<1>2. ASSUME NEW j \in Jobs, NEW old \in Jobs, Start(j) \/ Resume(j, old)
      PROVE  ResumeInv'
  BY <1>2, StartResume
<1>3. CASE Request \/ FinalizeStatus \/ WriteAudit \/ AuditsWritten \/ PersistSnapshot \/ PublishResult
  <2>1. UNCHANGED <<ps, cps, source, cancel, answered>>
    BY <1>3 DEF Request, FinalizeStatus, WriteAudit, AuditsWritten, PersistSnapshot, PublishResult,
       durable, history
  <2>2. task'.step # "write"
    BY <1>3 DEF Request, FinalizeStatus, WriteAudit, AuditsWritten, PersistSnapshot, PublishResult,
       Goto, TypeInv, TypeOK, TaskRecord
  <2>3. QED
    BY <2>1, <2>2, KeepResume
<1>4. CASE ReleaseSlot
  <2>1. UNCHANGED <<ps, cps, cancel, answered>> /\ task'.step = "idle" /\ source' = NoSource
    BY <1>4 DEF ReleaseSlot, IdleTask, durable, history
  <2>2. CancelTarget' = CancelTarget
    BY <2>1 DEF CancelTarget
  <2>3. QED
    BY <2>1, <2>2 DEF ResumeInv, NoSource, NoCheckpoint, Behind
<1>5. ASSUME NEW j \in Jobs, CancelBegin(j)
      PROVE  ResumeInv'
  <2>1. UNCHANGED <<ps, cps, task, source, answered>> /\ cancel'.step = "check"
    BY <1>5 DEF CancelBegin, IdleCancel, durable, history
  <2>2. State' = State /\ Prov' = Prov
    BY <2>1 DEF State, Prov
  <2>3. QED
    BY <2>1, <2>2 DEF ResumeInv
<1>6. QED
  BY <1>1, <1>2, <1>3, <1>4, <1>5, BeginJobResume, ProviderResume, WriteResume, LoopResume,
     CancelResume, FaultResume DEF Next, TaskStep

\* Whatever mixture of failures, cancels and restarts wrote a row, the pages
\* before its cursor have been answered: no resume skips one.
THEOREM ResumeIsComplete == Spec => []ResumeNeverSkips
<1>1. TypeInv /\ ResumeInv => ResumeNeverSkips
  <2> SUFFICES ASSUME TypeInv, ResumeInv, NEW p \in Providers, NEW k \in Jobs,
                      cps[p][k].cursor # NoCursor
               PROVE  1 .. cps[p][k].cursor - 1 \subseteq answered[p][k]
    BY DEF ResumeNeverSkips
  <2>1. Behind(answered, p, k, cps[p][k].cursor)
    BY DEF ResumeInv
  <2>2. QED
    BY <2>1 DEF Behind
<1>2. Init => TypeInv /\ ResumeInv
  BY InitType, InitResume
<1>3. TypeInv /\ ResumeInv /\ [Next]_vars => (TypeInv /\ ResumeInv)'
  BY NextType, NextResume
<1>4. Spec => [](TypeInv /\ ResumeInv)
  BY <1>2, <1>3, PTL DEF Spec
<1>5. QED
  BY <1>1, <1>4, PTL

-----------------------------------------------------------------------------
(* Rows, states and audits, when no cancel handler interferes.             *)

WorkSteps == {"write", "loop", "await"}
LiveSteps == WorkSteps \cup {"provider", "audit", "persist"}

\* The providers whose turn is over: all of them once the loop has ended.
Over(t) ==
  {Order[n] : n \in 1 .. (IF t.step \in {"audit", "persist"} THEN Len(Order) ELSE t.i - 1)}

\* What a provider's state is when its run is taken up from its row.
FromRow(p, k) ==
  [FreshProvider EXCEPT
     !.status = IF cps[p][k].status \in Closed /\ ~cps[p][k].resumable
                THEN cps[p][k].status ELSE "pending",
     !.resumable = cps[p][k].resumable, !.cursor = cps[p][k].cursor,
     !.fetched = cps[p][k].fetched, !.kept = cps[p][k].kept,
     !.recs = snaps[p][k], !.seen = snaps[p][k] \cup cps[p][k].diag, !.run = k]

\* A provider in state s waits for its turn in job j: what its run left, or nothing.
Waits(p, s, j) ==
  /\ \A k \in Jobs : cps[p][k].job # j
  /\ \/ s = FreshProvider /\ cps[p][j].job = NoJob
     \/ s.run \in Jobs /\ cps[p][s.run].job # NoJob /\ s = FromRow(p, s.run)

\* The task t is at provider p, in state s: it is not behind the run's row, what
\* it counts is what it has seen, and a row it closes has a reason.
Works(p, s, t) ==
  /\ s.run \in Jobs /\ job[s.run].status # "none"
  /\ \A k \in Jobs : cps[p][k].job = t.job => k = s.run
  /\ p \in Crossref =>
       /\ s.fetched = Cardinality(s.seen)
       /\ s.recs \subseteq s.seen /\ snaps[p][s.run] \subseteq s.seen
  /\ t.step \in {"loop", "await"} => s.cursor >= high[p][s.run]
  /\ t.step = "write" =>
       /\ t.res => t.cur # NoCursor /\ t.cur >= high[p][s.run]
       /\ ~t.res => s.status \in Closed
       /\ t.after = "loop" => t.res /\ t.cur = s.cursor

\* Job j has done with provider p: the row is its own and says what the state says.
Did(p, s, j) ==
  /\ s.run \in Jobs /\ cps[p][s.run].job = j /\ cps[p][s.run].fetched = s.fetched
  /\ \A k \in Jobs : cps[p][k].job = j => k = s.run
  /\ p \in Crossref => cps[p][s.run].diag = s.seen /\ s.recs \subseteq s.seen

Uncancelled ==
  /\ cancel.step = "idle"
  /\ \A j \in Jobs : /\ ~job[j].cancelled
                     /\ job[j].status = "none" => ~job[j].result /\ ~job[j].resumed
  /\ task.step # "idle" => job[task.job].status # "none"

RowOK(p, k) ==
  /\ cps[p][k].job = NoJob => cps[p][k] = NoCheckpoint /\ high[p][k] = 0
  /\ cps[p][k].job # NoJob =>
       /\ job[cps[p][k].job].status # "none" /\ job[k].status # "none"
       /\ cps[p][k].resumable => cps[p][k].cursor # NoCursor /\ cps[p][k].cursor >= high[p][k]
       /\ ~cps[p][k].resumable => cps[p][k].status \in Closed
  /\ p \in Crossref =>
       cps[p][k].fetched = Cardinality(cps[p][k].diag) /\ snaps[p][k] \subseteq cps[p][k].diag

SourceOK ==
  task.step = "init" =>
    /\ task.i = 1
    /\ \A p \in Providers :
         /\ cps[p][task.job].job = NoJob /\ \A k \in Jobs : cps[p][k].job # task.job
         /\ source[p].run # NoRun =>
              source[p].cp = cps[p][source[p].run] /\ source[p].cp.job # NoJob

LiveOK ==
  task.step \in LiveSteps =>
    /\ \A p \in Over(task) : Did(p, ps[task.job][p], task.job)
    /\ task.step \in WorkSteps => Works(Prov, State, task)
    /\ \A p \in Providers \ Over(task) :
         ~(task.step \in WorkSteps /\ p = Prov) => Waits(p, ps[task.job][p], task.job)

\* The audits written so far, and those of the jobs that have their result.
AuditOK ==
  /\ task.step \in LiveSteps \cup {"init"} => ~job[task.job].result
  /\ task.step \in {"audit", "persist"} =>
       \A n \in 1 .. (IF task.step = "audit" THEN task.i - 1 ELSE Len(Order)) :
         audit[Order[n]][ps[task.job][Order[n]].run] = ps[task.job][Order[n]].fetched
  /\ AuditMatchesCheckpoint

UndisturbedInv ==
  /\ Uncancelled /\ SourceOK /\ LiveOK /\ AuditOK
  /\ \A p \in Providers, k \in Jobs : RowOK(p, k)

\* What is said of rows, states and the task depends on the tables alone.
LEMMA SameTables ==
  ASSUME UNCHANGED <<job, cps, snaps, high>>
  PROVE  /\ \A p, s, j : Did(p, s, j)' <=> Did(p, s, j)
         /\ \A p, s, j : Waits(p, s, j)' <=> Waits(p, s, j)
         /\ \A p, s, t : Works(p, s, t)' <=> Works(p, s, t)
         /\ \A p, k : RowOK(p, k)' <=> RowOK(p, k)
<1>1. \A p, k : FromRow(p, k)' = FromRow(p, k)
  BY DEF FromRow
<1>2. QED
  BY <1>1 DEF Did, Waits, Works, RowOK

\* The pages a run has passed matter only to the provider the task is at.
LEMMA SameRows ==
  ASSUME UNCHANGED <<job, cps, snaps>>
  PROVE  /\ \A p, s, j : Did(p, s, j)' <=> Did(p, s, j)
         /\ \A p, s, j : Waits(p, s, j)' <=> Waits(p, s, j)
<1>1. \A p, k : FromRow(p, k)' = FromRow(p, k)
  BY DEF FromRow
<1>2. QED
  BY <1>1 DEF Did, Waits

\* A run that the provider sends back stays ahead of its row.
LEMMA SentBack ==
  ASSUME UNCHANGED <<job, cps, snaps>>, NEW p, NEW k, RowOK(p, k),
         \/ high'[p][k] = high[p][k]
         \/ high'[p][k] \in Nat /\ high[p][k] \in Nat /\ high'[p][k] <= high[p][k],
         cps[p][k].cursor \in Nat
  PROVE  RowOK(p, k)'
<1>1. CASE high'[p][k] = high[p][k]
  BY <1>1 DEF RowOK
<1>2. CASE /\ high'[p][k] \in Nat /\ high[p][k] \in Nat
           /\ high'[p][k] <= high[p][k]
  <2>1. cps[p][k].job = NoJob => high'[p][k] = 0
    BY <1>2 DEF RowOK
  <2>2. cps[p][k].cursor >= high[p][k] => cps[p][k].cursor >= high'[p][k]
    BY <1>2
  <2>3. QED
    BY <2>1, <2>2 DEF RowOK
<1>3. QED
  BY <1>1, <1>2

\* A provider whose turn it is is not over, as no provider has two turns.
LEMMA TurnIsNotOver ==
  ASSUME TypeInv, task.step \in WorkSteps \cup {"provider"}, task.i <= Len(Order)
  PROVE  Prov \in Providers \ Over(task)
<1>1. task.i \in 1 .. Len(Order)
  BY ConstantTypes DEF TypeInv, TypeOK, TaskRecord
<1>2. Over(task) = {Order[n] : n \in 1 .. task.i - 1}
  BY DEF Over, WorkSteps
<1>3. ASSUME NEW n \in 1 .. task.i - 1, Order[n] = Order[task.i]
      PROVE  FALSE
  <2>1. n \in 1 .. Len(Order) /\ n # task.i
    BY <1>1, ConstantTypes
  <2>2. QED
    BY <1>1, <1>3, <2>1, FetchAllAssumption DEF FetchAllAssumption
<1>4. QED
  BY <1>1, <1>2, <1>3, ConstantTypes DEF Prov

\* Steps that change the state of the provider at hand and go on working on it,
\* and may take its run back.
LEMMA GoesBack ==
  ASSUME TypeInv, UndisturbedInv, task.step \in {"provider", "loop", "await"},
         task.i <= Len(Order), NEW s, NEW t, task' = t,
         t.step \in WorkSteps, t.job = task.job, t.i = task.i,
         ps' = [ps EXCEPT ![task.job][Prov] = s],
         UNCHANGED <<job, cancel, cps, snaps, audit>>,
         \A p \in Providers, k \in Jobs : RowOK(p, k)',
         \A p : p = Prov => Works(p, s, t)'
  PROVE  UndisturbedInv'
<1>1. task.job \in Jobs /\ Prov \in Providers \ Over(task)
  BY TurnIsNotOver DEF TypeInv, Control, WorkSteps
<1>2. task.step \in LiveSteps /\ task'.step \in LiveSteps /\ task'.step \in WorkSteps
      /\ task'.step # "init" /\ task'.step \notin {"audit", "persist"} /\ task'.job = task.job
  BY DEF LiveSteps, WorkSteps
<1>3. Over(task)' = Over(task)
  BY <1>2 DEF Over, WorkSteps
<1>4. Prov' = Prov /\ State' = s
  BY <1>1, <1>2 DEF Prov, State, TypeInv, TypeOK
<1>5. \A p \in Providers : p # Prov => ps'[task.job][p] = ps[task.job][p]
  BY <1>1 DEF TypeInv, TypeOK
<1>6. LiveOK'
  <2>1. ASSUME NEW p \in Over(task) PROVE Did(p, ps[task.job][p], task.job)'
    <3>1. p \in Providers /\ p # Prov
      <4>1. p \in {Order[n] : n \in 1 .. task.i - 1}
        BY DEF Over
      <4>2. QED
        BY <1>1, <4>1, ConstantTypes DEF TypeInv, TypeOK, TaskRecord
    <3>2. PICK q, j : q = ps[task.job][p] /\ j = task.job
      OBVIOUS
    <3>3. Did(p, q, j)
      BY <1>2, <3>2 DEF UndisturbedInv, LiveOK
    <3>4. Did(p, q, j)'
      BY <3>3, SameRows
    <3>5. QED
      BY <1>2, <1>5, <3>1, <3>2, <3>4
  <2>2. Works(Prov, s, t)'
    <3>1. PICK p : p = Prov
      OBVIOUS
    <3>2. Works(p, s, t)'
      BY <3>1
    <3>3. QED
      BY <1>4, <3>1, <3>2
  <2>3. ASSUME NEW p \in Providers \ Over(task), p # Prov
        PROVE  Waits(p, ps[task.job][p], task.job)'
    <3>1. PICK q, j : q = ps[task.job][p] /\ j = task.job
      OBVIOUS
    <3>2. Waits(p, q, j)
      BY <1>2, <2>3, <3>1 DEF UndisturbedInv, LiveOK
    <3>3. Waits(p, q, j)'
      BY <3>2, SameRows
    <3>4. QED
      BY <1>2, <1>5, <2>3, <3>1, <3>3
  <2>4. QED
    BY <1>2, <1>3, <1>4, <2>1, <2>2, <2>3 DEF LiveOK
<1>7. AuditOK'
  BY <1>2 DEF UndisturbedInv, AuditOK, AuditMatchesCheckpoint
<1>8. SourceOK' /\ Uncancelled'
  BY <1>2 DEF UndisturbedInv, SourceOK, Uncancelled, LiveSteps, WorkSteps
<1>10. QED
  BY <1>6, <1>7, <1>8 DEF UndisturbedInv

LEMMA GoesOn ==
  ASSUME TypeInv, UndisturbedInv, task.step \in {"provider", "loop", "await"},
         task.i <= Len(Order), NEW s, NEW t, task' = t,
         t.step \in WorkSteps, t.job = task.job, t.i = task.i,
         ps' = [ps EXCEPT ![task.job][Prov] = s],
         UNCHANGED <<job, cancel, cps, snaps, audit, high>>, Works(Prov, s, t)
  PROVE  UndisturbedInv'
<1>1. \A p \in Providers, k \in Jobs : RowOK(p, k)'
  BY SameTables DEF UndisturbedInv
<1>2. \A p : p = Prov => Works(p, s, t)'
  BY SameTables
<1>3. QED
  BY <1>1, <1>2, GoesBack

\* The loop ends for a reason: the row to write may be taken up again at a cursor
\* it has not passed, or it is closed.
LEMMA StopUndisturbed ==
  ASSUME TypeInv, UndisturbedInv, task.step \in {"loop", "await"},
         NEW status \in ProviderStatus, NEW res \in BOOLEAN, NEW save \in BOOLEAN,
         ~save => status \in Closed,
         StopProvider(status, State.cursor, res, save)
  PROVE  UndisturbedInv'
<1>1. /\ task.job \in Jobs /\ task.i <= Len(Order) /\ Prov \in Providers /\ State \in ProviderState
      /\ State.cursor # NoCursor /\ task.step \in WorkSteps /\ task.step \in LiveSteps
  BY StateType, LoopState, ConstantTypes DEF WorkSteps, LiveSteps, TypeInv, Control
<1> DEFINE s == [State EXCEPT !.status = status, !.resumable = res]
           t == [task EXCEPT !.step = "write", !.cur = State.cursor, !.res = save, !.after = "provider"]
<1>2. ps' = [ps EXCEPT ![task.job][Prov] = s] /\ task' = t
      /\ UNCHANGED <<job, cancel, cps, snaps, audit, high>>
  BY <1>1 DEF StopProvider, GotoWrite, State, TypeInv, TypeOK, ProviderState, durable, history
<1>3. t.step = "write" /\ t.job = task.job /\ t.i = task.i /\ t.cur = State.cursor
      /\ t.res = save /\ t.after = "provider"
  BY DEF TypeInv, TypeOK, TaskRecord
<1>4. s.run = State.run /\ s.cursor = State.cursor /\ s.status = status /\ s.seen = State.seen
      /\ s.recs = State.recs /\ s.fetched = State.fetched
  BY <1>1 DEF ProviderState
<1>5. Works(Prov, State, task) /\ State.cursor >= high[Prov][State.run]
  BY <1>1 DEF UndisturbedInv, LiveOK, Works
<1> HIDE DEF s, t
<1>6. Works(Prov, s, t)
  BY <1>1, <1>3, <1>4, <1>5 DEF Works
<1>7. QED
  BY <1>1, <1>2, <1>3, <1>6, GoesOn DEF WorkSteps

\* A page is counted once, and the run moves on.
LEMMA ReceiveUndisturbed ==
  ASSUME TypeInv, UndisturbedInv, task.step = "await",
         NEW records \in SUBSET Records, NEW cursor \in Cursors,
         NEW status \in ProviderStatus, NEW resumable \in BOOLEAN,
         NEW res \in BOOLEAN, NEW after \in {"loop", "provider"},
         res => cursor # NoCursor, ~res => status \in Closed, after = "loop" => res,
         Receive(records, cursor, status, resumable), GotoWrite(cursor, res, after)
  PROVE  UndisturbedInv'
<1>1. /\ task.job \in Jobs /\ task.i <= Len(Order) /\ Prov \in Providers /\ State \in ProviderState
      /\ State.cursor \in Pages /\ task.step \in WorkSteps /\ task.step \in LiveSteps
  BY StateType, LoopState, ConstantTypes DEF WorkSteps, LiveSteps, TypeInv, Control
<1>11. \A p \in Providers, k \in Jobs : high[p][k] \in Nat /\ cps[p][k].cursor \in Nat
  BY ConstantTypes DEF TypeInv, TypeOK, Checkpoint, Cursors, Pages, NoCursor
<1>12. cursor \in Nat
  BY ConstantTypes DEF Cursors, Pages, NoCursor
<1> DEFINE new == records \ State.seen
           s == Received(State, new, cursor, status, resumable)
           t == [task EXCEPT !.step = "write", !.cur = cursor, !.res = res, !.after = after]
<1>2. ps' = [ps EXCEPT ![task.job][Prov] = s] /\ task' = t
      /\ UNCHANGED <<job, cancel, cps, snaps, audit>>
  BY DEF Receive, GotoWrite, durable
<1>13. high' = [high EXCEPT ![Prov][State.run] =
                  IF cursor # NoCursor /\ cursor < @ THEN cursor ELSE @]
  BY DEF Receive
<1>3. t.step = "write" /\ t.job = task.job /\ t.i = task.i /\ t.cur = cursor
      /\ t.res = res /\ t.after = after
  BY DEF TypeInv, TypeOK, TaskRecord
<1>4. new \in SUBSET Records
  OBVIOUS
<1>5. s.run = State.run /\ s.cursor = cursor /\ s.status = status /\ s.seen = State.seen \cup new
      /\ s.recs = State.recs \cup (new \ Rejected) /\ s.fetched = State.fetched + Cardinality(new)
  <2> DEFINE pages   == State.execPages + 1
             count   == State.execFetched + Cardinality(new)
             fetched == State.fetched + Cardinality(new)
             kept    == State.kept + Cardinality(new \ Rejected)
             recs    == State.recs \cup (new \ Rejected)
             seen    == State.seen \cup new
  <2>1. s = [State EXCEPT !.execPages = pages, !.execFetched = count, !.fetched = fetched,
               !.kept = kept, !.recs = recs, !.seen = seen,
               !.cursor = cursor, !.status = status, !.resumable = resumable]
    BY Zenon DEF Received
  <2> HIDE DEF s, pages, count, fetched, kept, recs, seen
  <2>2. s.run = State.run /\ s.cursor = cursor /\ s.status = status /\ s.seen = seen
        /\ s.recs = recs /\ s.fetched = fetched
    BY <1>1, <2>1 DEF ProviderState
  <2>3. QED
    BY <2>2 DEF seen, recs, fetched
<1>6. Works(Prov, State, task) /\ State.cursor >= high[Prov][State.run]
  BY <1>1 DEF UndisturbedInv, LiveOK, Works
<1>7. State.fetched = Cardinality(State.seen) => s.fetched = Cardinality(s.seen)
  <2>1. IsFiniteSet(State.seen) /\ IsFiniteSet(new) /\ State.seen \cap new = {}
    BY <1>1, <1>4, FetchAllAssumption, FS_Subset DEF FetchAllAssumption, ProviderState
  <2>2. Cardinality(State.seen \cup new) = Cardinality(State.seen) + Cardinality(new) - Cardinality(State.seen \cap new)
    BY <2>1, FS_Union
  <2>3. Cardinality(State.seen) \in Nat /\ Cardinality(new) \in Nat /\ Cardinality({}) = 0
    BY <2>1, FS_CardinalityType, FS_EmptySet
  <2>4. PICK n \in Nat, m \in Nat : n = Cardinality(State.seen) /\ m = Cardinality(new)
    BY <2>3
  <2>5. Cardinality(State.seen \cap new) = 0
    BY <2>1, <2>3
  <2>6. Cardinality(State.seen \cup new) = n + m
    BY <2>2, <2>4, <2>5
  <2> HIDE DEF new, s
  <2>7. QED
    BY <1>5, <2>4, <2>6
<1>14. State.run \in Jobs
  BY <1>6 DEF Works
<1>15. \A p \in Providers, k \in Jobs :
         high'[p][k] = IF p = Prov /\ k = State.run /\ cursor # NoCursor /\ cursor < high[p][k]
                       THEN cursor ELSE high[p][k]
  BY <1>1, <1>13, <1>14 DEF TypeInv, TypeOK
<1>8. res => cursor # NoCursor /\ cursor >= high'[Prov][State.run]
  BY <1>1, <1>11, <1>12, <1>14, <1>15
<1> HIDE DEF s, t, new
<1>16. PICK p, u, v : p = Prov /\ u = s /\ v = t
  OBVIOUS
<1>17. /\ v.step = "write" /\ v.job = task.job /\ v.i = task.i /\ v.cur = cursor
       /\ v.res = res /\ v.after = after
       /\ u.run = State.run /\ u.cursor = cursor /\ u.status = status
       /\ ps' = [ps EXCEPT ![task.job][Prov] = u] /\ task' = v
  BY <1>2, <1>3, <1>5, <1>16
<1>9. Works(p, u, v)'
  <2>1. p \in Crossref => u.recs \subseteq u.seen /\ snaps'[p][u.run] \subseteq u.seen
                          /\ u.fetched = Cardinality(u.seen)
    BY <1>2, <1>5, <1>6, <1>7, <1>16 DEF Works
  <2>2. u.run \in Jobs /\ job'[u.run].status # "none"
        /\ \A k \in Jobs : cps'[p][k].job = v.job => k = u.run
    BY <1>2, <1>3, <1>5, <1>6, <1>16 DEF Works
  <2>3. v.res => v.cur # NoCursor /\ v.cur >= high'[p][u.run]
    BY <1>8, <1>16, <1>17
  <2>4. QED
    BY <1>17, <2>1, <2>2, <2>3 DEF Works
<1>18. \A q \in Providers, k \in Jobs : RowOK(q, k)'
  <2> SUFFICES ASSUME NEW q \in Providers, NEW k \in Jobs PROVE RowOK(q, k)'
    OBVIOUS
  <2>1. high'[q][k] \in Nat /\ high[q][k] \in Nat /\ high'[q][k] <= high[q][k]
    BY <1>11, <1>12, <1>15
  <2>2. RowOK(q, k) /\ cps[q][k].cursor \in Nat
    BY <1>11 DEF UndisturbedInv
  <2>3. QED
    BY <1>2, <2>1, <2>2, SentBack
<1>19. \A x : x = Prov => Works(x, u, v)'
  BY <1>9, <1>16
<1>20. v.step \in WorkSteps /\ task.step \in {"provider", "loop", "await"} /\ task.i <= Len(Order)
  BY <1>1, <1>17 DEF WorkSteps
<1>21. UNCHANGED <<job, cancel, cps, snaps, audit>>
  BY <1>2
<1>10. QED
  BY <1>17, <1>18, <1>19, <1>20, <1>21, GoesBack

\* The page loop.
LEMMA LoopUndisturbed ==
  ASSUME TypeInv, UndisturbedInv,
         LoopCancelled \/ LoopLimit \/ Request \/ PageNext \/ PageLast \/ PageEmpty \/ PageRepeated
         \/ FetchFails \/ PlanIncompatible
  PROVE  UndisturbedInv'
<1>0. /\ "partial" \in ProviderStatus /\ "failed" \in ProviderStatus /\ "complete" \in ProviderStatus
      /\ NoCursor \in Cursors /\ {"partial", "failed", "complete"} \subseteq Closed
  BY DEF ProviderStatus, Cursors, Closed
<1>1. CASE LoopCancelled
  <2>1. task.job \in Jobs /\ job[task.job].cancelled
    BY <1>1 DEF LoopCancelled, TypeInv, Control
  <2>2. QED
    BY <2>1 DEF UndisturbedInv, Uncancelled
<1>2. CASE LoopLimit
  <2> DEFINE progress == State.cursor # State.start \/ State.execFetched > 0
  <2>1. StopProvider("partial", State.cursor, progress, progress) /\ task.step \in {"loop", "await"}
    BY <1>2 DEF LoopLimit
  <2>2. progress \in BOOLEAN
    OBVIOUS
  <2> HIDE DEF progress
  <2>3. QED
    BY <1>0, <2>1, <2>2, StopUndisturbed
<1>3. CASE Request
  <2> DEFINE t == [task EXCEPT !.step = "await", !.asked = @ \cup {State.cursor}]
  <2>1. /\ task.step = "loop" /\ task.job \in Jobs /\ task.i <= Len(Order)
        /\ Prov \in Providers /\ State \in ProviderState
    BY <1>3, StateType, ConstantTypes DEF Request, TypeInv, Control
  <2>2. task' = t /\ UNCHANGED <<job, ps, cancel, cps, snaps, audit, high>>
    BY <1>3 DEF Request, durable, history
  <2>3. t.step = "await" /\ t.job = task.job /\ t.i = task.i
    BY DEF TypeInv, TypeOK, TaskRecord
  <2>4. Works(Prov, State, task)
    BY <2>1 DEF UndisturbedInv, LiveOK, LiveSteps, WorkSteps
  <2> HIDE DEF t
  <2>5. Works(Prov, State, t)
    BY <2>1, <2>3, <2>4 DEF Works
  <2>6. ps' = [ps EXCEPT ![task.job][Prov] = State]
    BY <2>1, <2>2 DEF State, TypeInv, TypeOK
  <2>7. QED
    BY <2>1, <2>2, <2>3, <2>5, <2>6, GoesOn DEF WorkSteps
<1>4. ASSUME task.step \in {"loop", "await"}
      PROVE  /\ State.status \in ProviderStatus /\ State.resumable \in BOOLEAN
             /\ Content[Prov][State.cursor] \in SUBSET Records
             /\ \A c \in NextCursors : c \in Cursors /\ c # NoCursor
  BY <1>4, LoopState
<1>5. CASE PageNext
  <2>1. task.step = "await"
    BY <1>5 DEF PageNext
  <2>2. PICK c \in NextCursors :
          /\ Receive(Content[Prov][State.cursor], c, State.status, State.resumable)
          /\ GotoWrite(c, TRUE, "loop")
    BY <1>5 DEF PageNext
  <2>3. QED
    BY <1>4, <2>1, <2>2, ReceiveUndisturbed
<1>6. CASE PageLast
  BY <1>0, <1>4, <1>6, ReceiveUndisturbed DEF PageLast
<1>7. CASE PageEmpty
  <2>1. task.step = "await"
    BY <1>7 DEF PageEmpty
  <2>2. PICK c \in NextCursors : Receive({}, c, "partial", FALSE) /\ GotoWrite(c, TRUE, "provider")
    BY <1>7 DEF PageEmpty
  <2>3. {} \in SUBSET Records
    OBVIOUS
  <2>4. QED
    BY <1>0, <1>4, <2>1, <2>2, <2>3, ReceiveUndisturbed
<1>8. CASE PageRepeated
  <2>1. task.step = "await"
    BY <1>8 DEF PageRepeated
  <2>2. PICK c \in NextCursors :
          /\ Receive(Content[Prov][State.cursor], c, "partial", FALSE)
          /\ GotoWrite(c, FALSE, "provider")
    BY <1>8 DEF PageRepeated
  <2>4. QED
    BY <1>0, <1>4, <2>1, <2>2, ReceiveUndisturbed
<1>9. CASE FetchFails
  <2> DEFINE st == IF State.fetched > 0 THEN "partial" ELSE "failed"
  <2>1. StopProvider(st, State.cursor, TRUE, TRUE) /\ task.step \in {"loop", "await"}
    BY <1>9 DEF FetchFails
  <2>2. st \in ProviderStatus
    BY <1>0
  <2> HIDE DEF st
  <2>3. QED
    BY <2>1, <2>2, StopUndisturbed
<1>10. CASE PlanIncompatible
  BY <1>0, <1>10, StopUndisturbed DEF PlanIncompatible
<1>11. QED
  BY <1>1, <1>2, <1>3, <1>5, <1>6, <1>7, <1>8, <1>9, <1>10

\* The provider whose turn comes has waited until now.
LEMMA TurnHasWaited ==
  ASSUME TypeInv, UndisturbedInv, AtProvider
  PROVE  /\ task.job \in Jobs /\ task.i <= Len(Order) /\ task.step = "provider"
         /\ Prov \in Providers /\ State \in ProviderState
         /\ Waits(Prov, State, task.job)
<1>1. task.job \in Jobs /\ task.i <= Len(Order) /\ task.step = "provider"
  BY DEF AtProvider, TypeInv, Control
<1>2. Prov \in Providers \ Over(task)
  BY <1>1, TurnIsNotOver
<1>3. Waits(Prov, State, task.job)
  BY <1>1, <1>2 DEF UndisturbedInv, LiveOK, LiveSteps, WorkSteps, State
<1>4. QED
  BY <1>1, <1>2, <1>3 DEF State, TypeInv, TypeOK

\* The fields of a state taken up from a row.
LEMMA FromRowFields ==
  ASSUME NEW p, NEW k
  PROVE  /\ FromRow(p, k).status = IF cps[p][k].status \in Closed /\ ~cps[p][k].resumable
                                   THEN cps[p][k].status ELSE "pending"
         /\ FromRow(p, k).resumable = cps[p][k].resumable
         /\ FromRow(p, k).cursor = cps[p][k].cursor
         /\ FromRow(p, k).fetched = cps[p][k].fetched
         /\ FromRow(p, k).recs = snaps[p][k]
         /\ FromRow(p, k).seen = snaps[p][k] \cup cps[p][k].diag
         /\ FromRow(p, k).run = k
<1> DEFINE st == IF cps[p][k].status \in Closed /\ ~cps[p][k].resumable
                 THEN cps[p][k].status ELSE "pending"
           res == cps[p][k].resumable
           cur == cps[p][k].cursor
           n == cps[p][k].fetched
           m == cps[p][k].kept
           recs == snaps[p][k]
           seen == snaps[p][k] \cup cps[p][k].diag
<1>1. FromRow(p, k) =
        [FreshProvider EXCEPT
           !.status = st, !.resumable = res, !.cursor = cur, !.fetched = n, !.kept = m,
           !.recs = recs, !.seen = seen, !.run = k]
  BY Zenon DEF FromRow
<1> HIDE DEF st, res, cur, n, m, recs, seen
<1>2. /\ FromRow(p, k).status = st /\ FromRow(p, k).resumable = res
      /\ FromRow(p, k).cursor = cur /\ FromRow(p, k).fetched = n
      /\ FromRow(p, k).recs = recs /\ FromRow(p, k).seen = seen /\ FromRow(p, k).run = k
  BY <1>1 DEF FreshProvider
<1>3. QED
  BY <1>2 DEF st, res, cur, n, recs, seen

LEMMA ProviderUndisturbed ==
  ASSUME TypeInv, UndisturbedInv, SkipCancelled \/ CarryOver \/ BeginProvider
  PROVE  UndisturbedInv'
<1>1. AtProvider
  BY DEF SkipCancelled, CarryOver, BeginProvider
<1>2. /\ task.job \in Jobs /\ task.i <= Len(Order) /\ task.step = "provider"
      /\ Prov \in Providers /\ State \in ProviderState /\ Waits(Prov, State, task.job)
  BY <1>1, TurnHasWaited
<1>3. ~SkipCancelled
  BY <1>2 DEF SkipCancelled, UndisturbedInv, Uncancelled
<1>4. ASSUME State # FreshProvider
      PROVE  LET k == State.run
                 c == cps[Prov][k]
             IN /\ k \in Jobs /\ c.job # NoJob /\ job[k].status # "none"
                /\ State.status = IF c.status \in Closed /\ ~c.resumable THEN c.status ELSE "pending"
                /\ State.resumable = c.resumable /\ State.cursor = c.cursor
                /\ c.resumable => c.cursor # NoCursor /\ c.cursor >= high[Prov][k]
                /\ ~c.resumable => c.status \in Closed
                /\ Prov \in Crossref => /\ State.fetched = Cardinality(State.seen)
                                        /\ State.recs \subseteq State.seen
                                        /\ snaps[Prov][k] \subseteq State.seen
  <2> DEFINE k == State.run
             c == cps[Prov][k]
  <2>1. k \in Jobs /\ c.job # NoJob /\ State = FromRow(Prov, k)
    BY <1>2, <1>4 DEF Waits
  <2>2. RowOK(Prov, k)
    BY <1>2, <2>1 DEF UndisturbedInv
  <2> HIDE DEF k, c
  <2>4. /\ State.status = IF c.status \in Closed /\ ~c.resumable THEN c.status ELSE "pending"
        /\ State.resumable = c.resumable /\ State.cursor = c.cursor /\ State.fetched = c.fetched
        /\ State.recs = snaps[Prov][k] /\ State.seen = snaps[Prov][k] \cup c.diag
    BY <2>1, FromRowFields DEF c
  <2>5. Prov \in Crossref => c.fetched = Cardinality(c.diag) /\ snaps[Prov][k] \subseteq c.diag
    BY <2>2 DEF RowOK, c
  <2>6. Prov \in Crossref => State.seen = c.diag
    BY <2>4, <2>5
  <2>7. /\ job[k].status # "none"
        /\ c.resumable => c.cursor # NoCursor /\ c.cursor >= high[Prov][k]
        /\ ~c.resumable => c.status \in Closed
    BY <2>1, <2>2 DEF RowOK, c
  <2>8. QED
    BY <2>1, <2>4, <2>5, <2>6, <2>7 DEF k, c
<1>5. UNCHANGED <<job, cancel, cps, snaps, audit, high>>
  BY DEF SkipCancelled, CarryOver, BeginProvider, durable, history
<1>6. CASE CarryOver
  <2> DEFINE t == [task EXCEPT !.step = "write", !.cur = State.cursor, !.res = FALSE, !.after = "provider"]
  <2>1. State # FreshProvider /\ State.status \in Closed
    BY <1>6 DEF CarryOver, FreshProvider, Closed
  <2>2. task' = t /\ ps' = [ps EXCEPT ![task.job][Prov] = State]
    BY <1>2, <1>6 DEF CarryOver, GotoWrite, State, TypeInv, TypeOK
  <2>3. t.step = "write" /\ t.job = task.job /\ t.i = task.i /\ t.res = FALSE /\ t.after = "provider"
    BY DEF TypeInv, TypeOK, TaskRecord
  <2> HIDE DEF t
  <2>4. Works(Prov, State, t)
    BY <1>2, <1>4, <2>1, <2>3 DEF Works, Waits
  <2>5. QED
    BY <1>2, <1>5, <2>2, <2>3, <2>4, GoesOn DEF WorkSteps
<1>7. CASE BeginProvider
  <2> DEFINE c == IF State.cursor = NoCursor THEN 1 ELSE State.cursor
             k == IF State.run = NoRun THEN task.job ELSE State.run
             s == [State EXCEPT !.status = "running", !.cursor = c, !.start = c, !.run = k]
             t == [task EXCEPT !.step = "write", !.cur = c, !.res = TRUE, !.after = "loop"]
  <2>1. task' = t /\ ps' = [ps EXCEPT ![task.job][Prov] = s]
    BY <1>7 DEF BeginProvider, GotoWrite
  <2>2. t.step = "write" /\ t.job = task.job /\ t.i = task.i /\ t.res = TRUE
        /\ t.after = "loop" /\ t.cur = c
    BY DEF TypeInv, TypeOK, TaskRecord
  <2>3. s.cursor = c /\ s.run = k /\ s.fetched = State.fetched /\ s.seen = State.seen
        /\ s.recs = State.recs
    BY <1>2 DEF ProviderState
  <2>4. /\ k \in Jobs /\ job[k].status # "none" /\ c # NoCursor /\ c >= high[Prov][k]
        /\ Prov \in Crossref => /\ State.fetched = Cardinality(State.seen)
                                /\ State.recs \subseteq State.seen
                                /\ snaps[Prov][k] \subseteq State.seen
    <3>1. CASE State = FreshProvider
      <4>1. k = task.job /\ c = 1 /\ State.fetched = 0 /\ State.seen = {} /\ State.recs = {}
        BY <3>1 DEF FreshProvider
      <4>2. cps[Prov][task.job].job = NoJob
        <5>1. CASE cps[Prov][task.job].job = NoJob
          BY <5>1
        <5>2. CASE State.run \in Jobs
          BY <3>1, <5>2, ConstantTypes DEF FreshProvider
        <5>3. QED
          BY <1>2, <5>1, <5>2 DEF Waits
      <4>3. RowOK(Prov, task.job)
        BY <1>2 DEF UndisturbedInv
      <4>4. cps[Prov][task.job] = NoCheckpoint /\ high[Prov][task.job] = 0
        BY <4>2, <4>3 DEF RowOK
      <4>5. Prov \in Crossref => snaps[Prov][task.job] = {}
        BY <4>3, <4>4 DEF RowOK, NoCheckpoint
      <4>6. job[task.job].status # "none"
        BY <1>2 DEF UndisturbedInv, Uncancelled
      <4>7. Cardinality({}) = 0
        BY FS_EmptySet
      <4>8. QED
        BY <1>2, <4>1, <4>4, <4>5, <4>6, <4>7 DEF NoCursor
    <3>2. CASE State # FreshProvider
      <4>1. State.resumable
        BY <1>4, <1>7, <3>2 DEF BeginProvider
      <4>2. State.run \in Jobs /\ State.run # NoRun /\ c = State.cursor /\ k = State.run
        BY <1>4, <3>2, <4>1, ConstantTypes
      <4>3. QED
        BY <1>4, <3>2, <4>1, <4>2
    <3>3. QED
      BY <3>1, <3>2
  <2> HIDE DEF c, k, s, t
  <2>5. Works(Prov, s, t)
    BY <1>2, <2>2, <2>3, <2>4 DEF Works, Waits
  <2>6. QED
    BY <1>2, <1>5, <2>1, <2>2, <2>5, GoesOn DEF WorkSteps
<1>8. QED
  BY <1>3, <1>6, <1>7

\* Rows stay sound as long as no job that was started becomes unknown.
LEMMA RowsStay ==
  ASSUME TypeInv, UndisturbedInv, UNCHANGED <<cps, snaps, high>>,
         \A j \in Jobs : job[j].status # "none" => job'[j].status # "none"
  PROVE  \A p \in Providers, k \in Jobs : RowOK(p, k)'
<1> SUFFICES ASSUME NEW p \in Providers, NEW k \in Jobs PROVE RowOK(p, k)'
  OBVIOUS
<1>1. RowOK(p, k) /\ cps[p][k] \in Checkpoint
  BY DEF UndisturbedInv, TypeInv, TypeOK
<1>2. cps[p][k].job # NoJob => cps[p][k].job \in Jobs
  BY <1>1 DEF Checkpoint
<1>3. QED
  BY <1>1, <1>2 DEF RowOK

\* What is said of a provider depends on its own rows alone.
LEMMA OtherProvider ==
  ASSUME NEW p, NEW s, NEW j, cps'[p] = cps[p], snaps'[p] = snaps[p]
  PROVE  /\ Did(p, s, j) => Did(p, s, j)'
         /\ Waits(p, s, j) => Waits(p, s, j)'
<1>1. \A k : FromRow(p, k)' = FromRow(p, k)
  BY DEF FromRow
<1>2. QED
  BY <1>1 DEF Did, Waits

\* A new job finds no row of its own, and takes up the rows of an earlier one.
LEMMA StartUndisturbed ==
  ASSUME TypeInv, UndisturbedInv, NEW j \in Jobs, NEW old \in Jobs, Start(j) \/ Resume(j, old)
  PROVE  UndisturbedInv'
<1>1. PICK b \in BOOLEAN : NewJob(j, b)
  BY DEF Start, Resume
<1>2. /\ job[j].status = "none" /\ UNCHANGED <<ps, cancel, cps, snaps, audit, high>>
      /\ task' = [IdleTask EXCEPT !.step = "init", !.job = j]
      /\ job' = [job EXCEPT ![j].status = "running", ![j].resumed = b]
  BY <1>1 DEF NewJob, Unused, durable, history
<1>3. task'.step = "init" /\ task'.job = j /\ task'.i = 1
  BY <1>2 DEF IdleTask
<1>4. /\ job'[j].status = "running" /\ job'[j].cancelled = job[j].cancelled
      /\ job'[j].result = job[j].result
      /\ \A i \in Jobs : i # j => job'[i] = job[i]
  BY <1>2 DEF TypeInv, TypeOK, JobRecord
<1>5. ASSUME NEW p \in Providers
      PROVE  cps[p][j].job = NoJob /\ \A k \in Jobs : cps[p][k].job # j
  <2>1. \A k \in Jobs : RowOK(p, k)
    BY DEF UndisturbedInv
  <2>2. QED
    BY <1>2, <2>1, ConstantTypes DEF RowOK
<1>6. ASSUME NEW p \in Providers, source'[p].run # NoRun
      PROVE  source'[p].cp = cps[p][source'[p].run] /\ source'[p].cp.job # NoJob
  <2>1. CASE Start(j)
    BY <1>6, <2>1 DEF Start, NoSource
  <2>2. CASE Resume(j, old)
    <3> DEFINE k == CHOOSE k \in Jobs : cps[p][k].job = old
    <3>1. source'[p] = IF \E i \in Jobs : cps[p][i].job = old THEN [run |-> k, cp |-> cps[p][k]]
                       ELSE [run |-> NoRun, cp |-> NoCheckpoint]
      BY <2>2 DEF Resume
    <3>2. (\E i \in Jobs : cps[p][i].job = old) => cps[p][k].job = old
      OBVIOUS
    <3> HIDE DEF k
    <3>3. QED
      BY <1>6, <3>1, <3>2, ConstantTypes
  <2>3. QED
    BY <2>1, <2>2
<1>7. Uncancelled'
  BY <1>2, <1>3, <1>4 DEF UndisturbedInv, Uncancelled
<1>8. SourceOK' /\ LiveOK'
  BY <1>2, <1>3, <1>5, <1>6 DEF SourceOK, LiveOK, LiveSteps, WorkSteps
<1>9. AuditOK'
  <2>1. ~job'[j].result
    BY <1>2, <1>4 DEF UndisturbedInv, Uncancelled
  <2>2. AuditMatchesCheckpoint'
    <3>1. ASSUME NEW p \in Providers, NEW k \in Jobs
          PROVE  LET i == cps[p][k].job
                 IN  i # NoJob /\ job'[i].result /\ ~job'[i].cancelled => audit[p][k] = cps[p][k].fetched
      <4>1. cps[p][k].job # NoJob => cps[p][k].job \in Jobs
        BY DEF TypeInv, TypeOK, Checkpoint
      <4>2. QED
        BY <1>4, <2>1, <4>1 DEF UndisturbedInv, AuditOK, AuditMatchesCheckpoint
    <3>2. QED
      BY <1>2, <3>1 DEF AuditMatchesCheckpoint
  <2>3. QED
    BY <1>3, <2>1, <2>2 DEF AuditOK
<1>10. \A p \in Providers, k \in Jobs : RowOK(p, k)'
  BY <1>2, <1>4, RowsStay
<1>11. QED
  BY <1>7, <1>8, <1>9, <1>10 DEF UndisturbedInv

\* The task begins: every provider is what its run left, or fresh.
LEMMA BeginJobUndisturbed == ASSUME TypeInv, UndisturbedInv, BeginJob PROVE UndisturbedInv'
<1>1. /\ task.step = "init" /\ task.job \in Jobs /\ task.i = 1
      /\ UNCHANGED <<job, cancel, cps, snaps, audit, high>>
      /\ ps' = [ps EXCEPT ![task.job] = [p \in Providers |-> Restored(p)]]
      /\ task' = [task EXCEPT !.step = "provider"]
  BY DEF BeginJob, Goto, durable, history, TypeInv, Control, UndisturbedInv, SourceOK
<1>2. task'.step = "provider" /\ task'.job = task.job /\ task'.i = 1
  BY <1>1 DEF TypeInv, TypeOK, TaskRecord
<1>3. Over(task)' = {}
  BY <1>2 DEF Over
<1>4. ASSUME NEW p \in Providers
      PROVE  Waits(p, Restored(p), task.job)
  <2>1. /\ cps[p][task.job].job = NoJob /\ \A k \in Jobs : cps[p][k].job # task.job
        /\ source[p].run # NoRun =>
             source[p].cp = cps[p][source[p].run] /\ source[p].cp.job # NoJob
        /\ source[p].run \in Jobs \cup {NoRun}
    BY <1>1 DEF UndisturbedInv, SourceOK, TypeInv, TypeOK
  <2>2. CASE source[p].run = NoRun
    BY <2>1, <2>2 DEF Restored, Waits
  <2>3. CASE source[p].run # NoRun
    <3>1. Restored(p) = FromRow(p, source[p].run)
      BY <2>1, <2>3, Zenon DEF Restored, FromRow
    <3>2. Restored(p).run = source[p].run
      BY <3>1, FromRowFields
    <3>3. QED
      BY <2>1, <2>3, <3>1, <3>2 DEF Waits
  <2>4. QED
    BY <2>2, <2>3
<1>5. ASSUME NEW p \in Providers
      PROVE  Waits(p, ps[task.job][p], task.job)'
  <2>1. PICK s, j : s = Restored(p) /\ j = task.job
    OBVIOUS
  <2>2. Waits(p, s, j)'
    BY <1>1, <1>4, <2>1, SameTables
  <2>3. ps'[task.job][p] = s
    BY <1>1, <2>1 DEF TypeInv, TypeOK
  <2>4. QED
    BY <1>2, <2>1, <2>2, <2>3
<1>6. LiveOK'
  BY <1>2, <1>3, <1>5 DEF LiveOK, WorkSteps
<1>7. SourceOK' /\ Uncancelled'
  BY <1>1, <1>2 DEF SourceOK, UndisturbedInv, Uncancelled
<1>8. AuditOK'
  BY <1>1, <1>2 DEF UndisturbedInv, AuditOK, AuditMatchesCheckpoint, LiveSteps, WorkSteps
<1>9. \A p \in Providers, k \in Jobs : RowOK(p, k)'
  BY <1>1, SameTables DEF UndisturbedInv
<1>10. QED
  BY <1>6, <1>7, <1>8, <1>9 DEF UndisturbedInv

\* The row is written: the provider is worked on with a row that follows it, or
\* its turn is over and the row says what the state says.
LEMMA WriteUndisturbed == ASSUME TypeInv, UndisturbedInv, WriteCheckpoint PROVE UndisturbedInv'
<1>1. PICK p, t, s, j, k, row, s1 :
        /\ p = Prov /\ t = task /\ s = State /\ j = task.job /\ k = State.run
        /\ row = Row(task.job, Prov, task.cur, task.res)
        /\ s1 = [State EXCEPT !.resumable = task.res]
  OBVIOUS
<1>2. /\ t.step = "write" /\ j \in Jobs /\ t.i \in 1 .. Len(Order)
      /\ p \in Providers \ Over(task) /\ s \in ProviderState /\ t \in TaskRecord
      /\ t.after \in {"loop", "provider"} /\ Works(p, s, t) /\ t.job = j /\ s.run = k
  <2>1. task.step = "write"
    BY DEF WriteCheckpoint
  <2>2. /\ task.job \in Jobs /\ task.i \in 1 .. Len(Order) /\ State \in ProviderState
        /\ Prov \in Providers \ Over(task) /\ Works(Prov, State, task)
    BY <2>1, StateType, TurnIsNotOver, ConstantTypes DEF UndisturbedInv, LiveOK, LiveSteps, WorkSteps
  <2>3. QED
    BY <1>1, <2>1, <2>2 DEF TypeInv, TypeOK, TaskRecord
<1>3. k \in Jobs /\ RunOf(j, p) = k
  BY <1>1, <1>2, ConstantTypes DEF Works, RunOf, State
<1>4. /\ ps' = [ps EXCEPT ![j][p] = s1]
      /\ Upsert(p, k, row)
      /\ UNCHANGED <<job, cancel, snaps, audit>>
  <2>1. ps' = Prepared(j, p, t.res) /\ Upsert(p, k, row) /\ UNCHANGED <<job, cancel, snaps, audit>>
    BY <1>1, <1>3 DEF WriteCheckpoint
  <2>2. Prepared(j, p, t.res) = [ps EXCEPT ![j][p] = [@ EXCEPT !.run = RunOf(j, p), !.resumable = t.res]]
    BY <1>2 DEF Prepared, RunOf, TypeInv, TypeOK, ProviderState
  <2>3. [s EXCEPT !.run = k, !.resumable = t.res] = s1
    BY <1>1, <1>2 DEF ProviderState
  <2>4. s = ps[j][p]
    BY <1>1 DEF State
  <2>5. QED
    BY <1>2, <1>3, <2>1, <2>2, <2>3, <2>4 DEF TypeInv, TypeOK
<1>5. /\ task'.step = t.after /\ task'.job = j
      /\ task'.i = IF t.after = "provider" THEN t.i + 1 ELSE t.i
  BY <1>1 DEF WriteCheckpoint, TypeInv, TypeOK, TaskRecord
<1>6. /\ row.job = j /\ row.cursor = t.cur /\ row.fetched = s.fetched
      /\ row.status = s.status /\ row.resumable = t.res
      /\ row.diag = IF p \in Crossref THEN s.seen ELSE {}
  BY <1>1 DEF Row, State
<1>7. /\ s1.run = k /\ s1.cursor = s.cursor /\ s1.status = s.status /\ s1.seen = s.seen
      /\ s1.recs = s.recs /\ s1.fetched = s.fetched
  BY <1>1, <1>2 DEF ProviderState
<1>8. /\ cps'[p][k] = row
      /\ \A l \in Jobs : l # k => cps'[p][l] = cps[p][l] /\ high'[p][l] = high[p][l]
      /\ \A q \in Providers : q # p => cps'[q] = cps[q] /\ high'[q] = high[q]
      /\ high'[p][k] = IF Position(row.cursor) > high[p][k] THEN Position(row.cursor) ELSE high[p][k]
  BY <1>2, <1>3, <1>4 DEF Upsert, TypeInv, TypeOK
<1>9. t.res => t.cur # NoCursor /\ t.cur >= high'[p][k]
  <2>1. t.cur \in Nat /\ high[p][k] \in Nat
    BY <1>2, <1>3, ConstantTypes DEF TypeInv, TypeOK, TaskRecord, Cursors, Pages, NoCursor
  <2>2. t.res => t.cur # NoCursor /\ t.cur >= high[p][k]
    BY <1>2 DEF Works
  <2>3. QED
    BY <1>6, <1>8, <2>1, <2>2 DEF Position
<1>10. job[j].status # "none" /\ ~job[j].result /\ j # NoJob
  BY <1>1, <1>2, ConstantTypes DEF UndisturbedInv, Uncancelled, AuditOK, LiveSteps, WorkSteps
<1>11. /\ ps'[j][p] = s1
       /\ \A q \in Providers : q # p => ps'[j][q] = ps[j][q]
  BY <1>2, <1>4 DEF TypeInv, TypeOK
<1>12. \A l \in Jobs : cps'[p][l].job = j => l = k
  BY <1>2, <1>8 DEF Works
<1>13. Over(task)' = IF t.after = "provider" THEN Over(task) \cup {p} ELSE Over(task)
  <2>1. Over(task) = {Order[n] : n \in 1 .. t.i - 1}
    BY <1>1, <1>2 DEF Over
  <2>2. Over(task)' = {Order[n] : n \in 1 .. task'.i - 1}
    BY <1>2, <1>5 DEF Over
  <2>3. 1 .. t.i = (1 .. t.i - 1) \cup {t.i}
    BY <1>2
  <2>4. CASE t.after = "provider"
    <3>1. task'.i - 1 = t.i
      BY <1>2, <1>5, <2>4
    <3>2. Over(task)' = {Order[n] : n \in (1 .. t.i - 1) \cup {t.i}}
      BY <2>2, <2>3, <3>1
    <3>3. p = Order[t.i]
      BY <1>1 DEF Prov
    <3>4. QED
      BY <2>1, <2>4, <3>2, <3>3
  <2>5. CASE t.after # "provider"
    BY <1>5, <2>1, <2>2, <2>5
  <2>6. QED
    BY <2>4, <2>5
<1>14. \A q \in Over(task) : q \in Providers /\ q # p
  BY <1>1, <1>2, ConstantTypes DEF Over
\* The rows.
<1>15. ASSUME NEW q \in Providers, NEW l \in Jobs
       PROVE  RowOK(q, l)'
  <2>1. RowOK(q, l)
    BY DEF UndisturbedInv
  <2>2. CASE q = p /\ l = k
    <3>1. /\ cps'[p][k].job = j
          /\ cps'[p][k].resumable => cps'[p][k].cursor # NoCursor /\ cps'[p][k].cursor >= high'[p][k]
      BY <1>6, <1>8, <1>9
    <3>2. ~cps'[p][k].resumable => cps'[p][k].status \in Closed
      BY <1>2, <1>6, <1>8 DEF Works
    <3>3. p \in Crossref => /\ cps'[p][k].fetched = Cardinality(cps'[p][k].diag)
                            /\ snaps'[p][k] \subseteq cps'[p][k].diag
      BY <1>2, <1>4, <1>6, <1>8 DEF Works
    <3>4. job'[j].status # "none" /\ job'[k].status # "none"
      BY <1>2, <1>4, <1>10 DEF Works
    <3>5. QED
      BY <1>10, <2>2, <3>1, <3>2, <3>3, <3>4 DEF RowOK
  <2>3. CASE ~(q = p /\ l = k)
    <3>1. cps'[q][l] = cps[q][l] /\ high'[q][l] = high[q][l]
      BY <1>8, <2>3
    <3>2. QED
      BY <1>4, <2>1, <3>1 DEF RowOK
  <2>4. QED
    BY <2>2, <2>3
\* The other providers.
<1>16. ASSUME NEW q \in Providers, q # p
       PROVE  /\ q \in Over(task) => Did(q, ps[task.job][q], task.job)'
              /\ q \notin Over(task) => Waits(q, ps[task.job][q], task.job)'
  <2>1. PICK a : a = ps[j][q]
    OBVIOUS
  <2>2. /\ q \in Over(task) => Did(q, a, j)
        /\ q \notin Over(task) => Waits(q, a, j)
    BY <1>1, <1>2, <1>16, <2>1 DEF UndisturbedInv, LiveOK, LiveSteps, WorkSteps
  <2>3. /\ Did(q, a, j) => Did(q, a, j)'
        /\ Waits(q, a, j) => Waits(q, a, j)'
    BY <1>4, <1>8, <1>16, OtherProvider
  <2>4. ps'[task'.job][q] = a /\ task'.job = j
    BY <1>5, <1>11, <1>16, <2>1
  <2>5. QED
    BY <2>2, <2>3, <2>4
\* The provider at hand.
<1>17. t.after = "provider" => Did(p, ps[task.job][p], task.job)'
  <2>1. Did(p, s1, j)'
    BY <1>2, <1>3, <1>6, <1>7, <1>8, <1>12 DEF Did, Works
  <2>2. QED
    BY <1>5, <1>11, <2>1
<1>18. t.after = "loop" => Prov' = p /\ Works(Prov, State, task)'
  <2> SUFFICES ASSUME t.after = "loop" PROVE Prov' = p /\ Works(Prov, State, task)'
    OBVIOUS
  <2>1. Prov' = p
    BY <1>1, <1>5 DEF Prov
  <2>2. State' = s1
    BY <1>5, <1>11, <2>1 DEF State
  <2>3. PICK t1 : t1 = task'
    OBVIOUS
  <2>4. s1.cursor >= high'[p][k]
    BY <1>2, <1>7, <1>9 DEF Works
  <2>5. Works(p, s1, t1)'
    BY <1>2, <1>3, <1>4, <1>5, <1>7, <1>12, <2>3, <2>4 DEF Works
  <2>6. QED
    BY <2>1, <2>2, <2>3, <2>5
<1>19. LiveOK'
  <2>1. task'.step \in {"loop", "provider"} /\ (task'.step \in WorkSteps <=> t.after = "loop")
    BY <1>2, <1>5 DEF WorkSteps
  <2>2. ASSUME NEW q \in Over(task)' PROVE Did(q, ps[task.job][q], task.job)'
    BY <1>13, <1>14, <1>16, <1>17, <2>2
  <2>3. ASSUME NEW q \in Providers \ Over(task)', ~(t.after = "loop" /\ q = Prov')
        PROVE  Waits(q, ps[task.job][q], task.job)'
    <3>1. q # p /\ q \notin Over(task)
      BY <1>2, <1>13, <1>18, <2>3
    <3>2. QED
      BY <1>16, <3>1
  <2>4. QED
    BY <1>18, <2>1, <2>2, <2>3 DEF LiveOK
<1>20. AuditOK'
  <2>1. AuditMatchesCheckpoint'
    <3>1. ASSUME NEW q \in Providers, NEW l \in Jobs
          PROVE  LET i == cps'[q][l].job
                 IN  i # NoJob /\ job[i].result /\ ~job[i].cancelled => audit[q][l] = cps'[q][l].fetched
      <4>1. CASE q = p /\ l = k
        BY <1>6, <1>8, <1>10, <4>1
      <4>2. CASE ~(q = p /\ l = k)
        <5>1. cps'[q][l] = cps[q][l]
          BY <1>8, <4>2
        <5>2. QED
          BY <5>1 DEF UndisturbedInv, AuditOK, AuditMatchesCheckpoint
      <4>3. QED
        BY <4>1, <4>2
    <3>2. QED
      BY <1>4, <3>1 DEF AuditMatchesCheckpoint
  <2>2. task'.step \notin {"audit", "persist"} /\ ~job'[task'.job].result
    BY <1>2, <1>4, <1>5, <1>10
  <2>3. QED
    BY <2>1, <2>2 DEF AuditOK
<1>21. SourceOK' /\ Uncancelled'
  <2>1. task'.step \notin {"init", "idle"}
    BY <1>2, <1>5
  <2>2. QED
    BY <1>1, <1>2, <1>4, <1>5, <1>10, <2>1 DEF SourceOK, UndisturbedInv, Uncancelled
<1>22. QED
  BY <1>15, <1>19, <1>20, <1>21 DEF UndisturbedInv

\* The job's status turns terminal once every provider has had its turn.
LEMMA FinalizeUndisturbed == ASSUME TypeInv, UndisturbedInv, FinalizeStatus PROVE UndisturbedInv'
<1>1. /\ task.step = "provider" /\ task.i > Len(Order) /\ task.job \in Jobs
      /\ task.i \in 1 .. Len(Order) + 1
      /\ UNCHANGED <<ps, cancel, cps, snaps, audit, high>>
  BY DEF FinalizeStatus, durable, history, TypeInv, TypeOK, TaskRecord, Control
<1>2. task'.step = "audit" /\ task'.job = task.job /\ task'.i = 1
  BY <1>1 DEF FinalizeStatus, TypeInv, TypeOK, TaskRecord
<1>3. \E st \in {"cancelled", "completed"} : job' = [job EXCEPT ![task.job].status = st]
  BY DEF FinalizeStatus
<1>4. /\ job'[task.job].status # "none"
      /\ \A j \in Jobs : /\ job'[j].cancelled = job[j].cancelled /\ job'[j].result = job[j].result
                         /\ job'[j].resumed = job[j].resumed
                         /\ job'[j].status = "none" => job[j].status = "none"
  BY <1>1, <1>3 DEF TypeInv, TypeOK, JobRecord
<1>5. Over(task)' = Over(task)
  <2>1. task.i - 1 = Len(Order)
    BY <1>1, ConstantTypes
  <2>2. QED
    BY <1>1, <1>2, <2>1 DEF Over
<1>6. ASSUME NEW p \in Providers
      PROVE  /\ Did(p, ps[task.job][p], task.job) => Did(p, ps[task.job][p], task.job)'
             /\ Waits(p, ps[task.job][p], task.job) => Waits(p, ps[task.job][p], task.job)'
  <2>1. PICK s, j : s = ps[task.job][p] /\ j = task.job
    OBVIOUS
  <2>2. /\ Did(p, s, j) => Did(p, s, j)'
        /\ Waits(p, s, j) => Waits(p, s, j)'
    BY <1>1, OtherProvider
  <2>3. QED
    BY <1>1, <1>2, <2>1, <2>2
<1>7. \A p \in Over(task) : p \in Providers
  BY <1>1, ConstantTypes DEF Over
<1>8. LiveOK'
  BY <1>1, <1>2, <1>5, <1>6, <1>7 DEF UndisturbedInv, LiveOK, LiveSteps, WorkSteps
<1>9. AuditOK'
  <2>1. ~job'[task'.job].result
    BY <1>1, <1>2, <1>4 DEF UndisturbedInv, AuditOK, LiveSteps
  <2>2. AuditMatchesCheckpoint'
    <3>1. \A p \in Providers, k \in Jobs : cps[p][k].job # NoJob => cps[p][k].job \in Jobs
      BY DEF TypeInv, TypeOK, Checkpoint
    <3>2. QED
      BY <1>1, <1>4, <3>1 DEF UndisturbedInv, AuditOK, AuditMatchesCheckpoint
  <2>3. QED
    BY <1>2, <2>1, <2>2 DEF AuditOK
<1>10. SourceOK' /\ Uncancelled'
  BY <1>1, <1>2, <1>4 DEF SourceOK, UndisturbedInv, Uncancelled
<1>11. \A p \in Providers, k \in Jobs : RowOK(p, k)'
  BY <1>1, <1>4, RowsStay
<1>12. QED
  BY <1>8, <1>9, <1>10, <1>11 DEF UndisturbedInv

\* One audit row, of a job that has no result yet.
LEMMA WriteAuditUndisturbed == ASSUME TypeInv, UndisturbedInv, WriteAudit PROVE UndisturbedInv'
<1>1. /\ task.step = "audit" /\ task.i \in 1 .. Len(Order) /\ task.job \in Jobs
      /\ UNCHANGED <<job, ps, cancel, cps, snaps, high>>
      /\ audit' = [audit EXCEPT ![Prov][State.run] = State.fetched]
  BY ConstantTypes DEF WriteAudit, history, TypeInv, TypeOK, TaskRecord, Control
<1>2. task'.step = "audit" /\ task'.job = task.job /\ task'.i = task.i + 1
  BY DEF WriteAudit, TypeInv, TypeOK, TaskRecord
<1>3. Prov \in Providers /\ Prov \in Over(task)
  BY <1>1, ConstantTypes DEF Prov, Over
<1>4. Did(Prov, State, task.job)
  BY <1>1, <1>3 DEF UndisturbedInv, LiveOK, LiveSteps, State
<1>5. /\ audit'[Prov][State.run] = State.fetched
      /\ \A p \in Providers, k \in Jobs : ~(p = Prov /\ k = State.run) => audit'[p][k] = audit[p][k]
  BY <1>1, <1>3, <1>4 DEF Did, TypeInv, TypeOK
<1>6. LiveOK'
  <2>1. Over(task)' = Over(task)
    BY <1>1, <1>2 DEF Over
  <2>2. ASSUME NEW p
        PROVE  /\ Did(p, ps[task.job][p], task.job) => Did(p, ps[task.job][p], task.job)'
               /\ Waits(p, ps[task.job][p], task.job) => Waits(p, ps[task.job][p], task.job)'
    <3>1. PICK s, j : s = ps[task.job][p] /\ j = task.job
      OBVIOUS
    <3>2. /\ Did(p, s, j) => Did(p, s, j)'
          /\ Waits(p, s, j) => Waits(p, s, j)'
      BY <1>1, OtherProvider
    <3>3. QED
      BY <1>1, <1>2, <3>1, <3>2
  <2>3. QED
    BY <1>1, <1>2, <2>1, <2>2 DEF UndisturbedInv, LiveOK, LiveSteps, WorkSteps
<1>7. AuditOK'
  <2>1. ~job'[task'.job].result
    BY <1>1, <1>2 DEF UndisturbedInv, AuditOK, LiveSteps
  <2>2. ASSUME NEW n \in 1 .. task.i
        PROVE  audit'[Order[n]][ps[task.job][Order[n]].run] = ps[task.job][Order[n]].fetched
    <3>1. CASE n = task.i
      BY <1>5, <3>1 DEF Prov, State
    <3>2. CASE n # task.i
      <4>1. n \in 1 .. task.i - 1 /\ n \in 1 .. Len(Order)
        BY <1>1, <3>2, ConstantTypes
      <4>2. Order[n] \in Providers /\ Order[n] # Prov /\ Order[n] \in Over(task)
        BY <1>1, <3>2, <4>1, ConstantTypes, FetchAllAssumption DEF FetchAllAssumption, Prov, Over
      <4>3. ps[task.job][Order[n]].run \in Jobs
        BY <1>1, <4>2 DEF UndisturbedInv, LiveOK, LiveSteps, Did
      <4>4. audit[Order[n]][ps[task.job][Order[n]].run] = ps[task.job][Order[n]].fetched
        BY <1>1, <4>1 DEF UndisturbedInv, AuditOK
      <4>5. QED
        BY <1>5, <4>2, <4>3, <4>4
    <3>3. QED
      BY <3>1, <3>2
  <2>3. AuditMatchesCheckpoint'
    <3>1. ASSUME NEW p \in Providers, NEW k \in Jobs
          PROVE  LET i == cps[p][k].job
                 IN  i # NoJob /\ job[i].result /\ ~job[i].cancelled => audit'[p][k] = cps[p][k].fetched
      <4>1. CASE p = Prov /\ k = State.run
        BY <1>1, <1>4, <4>1 DEF Did, UndisturbedInv, AuditOK, LiveSteps
      <4>2. CASE ~(p = Prov /\ k = State.run)
        BY <1>5, <4>2 DEF UndisturbedInv, AuditOK, AuditMatchesCheckpoint
      <4>3. QED
        BY <4>1, <4>2
    <3>2. QED
      BY <1>1, <3>1 DEF AuditMatchesCheckpoint
  <2>4. task'.i - 1 = task.i
    BY <1>1, <1>2
  <2>5. QED
    BY <1>1, <1>2, <2>1, <2>2, <2>3, <2>4 DEF AuditOK
<1>8. SourceOK' /\ Uncancelled'
  BY <1>1, <1>2 DEF SourceOK, UndisturbedInv, Uncancelled
<1>9. \A p \in Providers, k \in Jobs : RowOK(p, k)'
  BY <1>1, SameTables DEF UndisturbedInv
<1>10. QED
  BY <1>6, <1>7, <1>8, <1>9 DEF UndisturbedInv

\* The audits are complete, and nothing else has moved.
LEMMA AuditsUndisturbed == ASSUME TypeInv, UndisturbedInv, AuditsWritten PROVE UndisturbedInv'
<1>1. /\ task.step = "audit" /\ task.i = Len(Order) + 1
      /\ UNCHANGED <<job, ps, cancel, cps, snaps, audit, high>>
      /\ task' = [task EXCEPT !.step = "persist"]
  <2>1. task.i \in 1 .. Len(Order) + 1 /\ task.i > Len(Order)
    BY DEF AuditsWritten, TypeInv, TypeOK, TaskRecord
  <2>2. task.i = Len(Order) + 1
    BY <2>1, ConstantTypes
  <2>3. QED
    BY <2>2 DEF AuditsWritten, Goto, durable, history
<1>2. task'.step = "persist" /\ task'.job = task.job
  BY <1>1 DEF TypeInv, TypeOK, TaskRecord
<1>3. Over(task)' = Over(task)
  BY <1>1, <1>2 DEF Over
<1>4. ASSUME NEW p
      PROVE  /\ Did(p, ps[task.job][p], task.job) => Did(p, ps[task.job][p], task.job)'
             /\ Waits(p, ps[task.job][p], task.job) => Waits(p, ps[task.job][p], task.job)'
  <2>1. PICK s, j : s = ps[task.job][p] /\ j = task.job
    OBVIOUS
  <2>2. /\ Did(p, s, j) => Did(p, s, j)'
        /\ Waits(p, s, j) => Waits(p, s, j)'
    BY <1>1, OtherProvider
  <2>3. QED
    BY <1>1, <1>2, <2>1, <2>2
<1>5. LiveOK'
  BY <1>1, <1>2, <1>3, <1>4 DEF UndisturbedInv, LiveOK, LiveSteps, WorkSteps
<1>6. AuditOK'
  <2>1. task.i - 1 = Len(Order)
    BY <1>1, ConstantTypes
  <2>2. QED
    BY <1>1, <1>2, <2>1 DEF UndisturbedInv, AuditOK, AuditMatchesCheckpoint, LiveSteps
<1>7. SourceOK' /\ Uncancelled'
  BY <1>1, <1>2 DEF SourceOK, UndisturbedInv, Uncancelled
<1>8. \A p \in Providers, k \in Jobs : RowOK(p, k)'
  BY <1>1, SameTables DEF UndisturbedInv
<1>9. QED
  BY <1>5, <1>6, <1>7, <1>8 DEF UndisturbedInv

\* A record that is persisted was seen in its run, and its row says so.
LEMMA PersistUndisturbed == ASSUME TypeInv, UndisturbedInv, PersistSnapshot PROVE UndisturbedInv'
<1>1. /\ task.step = "persist" /\ task.job \in Jobs
      /\ UNCHANGED <<job, ps, task, cancel, cps, audit, high>>
  BY DEF PersistSnapshot, history, TypeInv, Control
<1>2. PICK x \in Unsaved(task.job) :
        snaps' = [snaps EXCEPT ![Order[x[1]]][ps[task.job][Order[x[1]]].run] = @ \cup {x[2]}]
  BY DEF PersistSnapshot
<1>3. PICK p, s : p = Order[x[1]] /\ s = ps[task.job][p]
  OBVIOUS
<1>4. p \in Providers /\ p \in Over(task) /\ x[2] \in s.recs
  BY <1>1, <1>3, ConstantTypes DEF Unsaved, Owns, Over
<1>5. Did(p, s, task.job)
  BY <1>1, <1>3, <1>4 DEF UndisturbedInv, LiveOK, LiveSteps
<1>6. /\ snaps' = [snaps EXCEPT ![p][s.run] = @ \cup {x[2]}]
      /\ p \in Crossref => x[2] \in cps[p][s.run].diag
  BY <1>2, <1>3, <1>4, <1>5 DEF Did
<1>7. \A q \in Providers : q # p => snaps'[q] = snaps[q]
  BY <1>4, <1>6 DEF TypeInv, TypeOK
<1>8. ASSUME NEW q \in Providers, NEW k \in Jobs
      PROVE  RowOK(q, k)'
  <2>1. RowOK(q, k)
    BY DEF UndisturbedInv
  <2>2. q \in Crossref => snaps'[q][k] \subseteq cps[q][k].diag
    BY <1>4, <1>6, <2>1 DEF RowOK, TypeInv, TypeOK
  <2>3. QED
    BY <1>1, <2>1, <2>2 DEF RowOK
<1>9. Over(task)' = Over(task)
  BY <1>1 DEF Over
<1>10. ASSUME NEW q \in Over(task) PROVE Did(q, ps[task.job][q], task.job)'
  BY <1>1, <1>10 DEF UndisturbedInv, LiveOK, LiveSteps, Did
<1>11. ASSUME NEW q \in Providers \ Over(task) PROVE Waits(q, ps[task.job][q], task.job)'
  <2>1. PICK a, j : a = ps[task.job][q] /\ j = task.job
    OBVIOUS
  <2>2. Waits(q, a, j)
    BY <1>1, <1>11, <2>1 DEF UndisturbedInv, LiveOK, LiveSteps, WorkSteps
  <2>3. Waits(q, a, j)'
    BY <1>1, <1>4, <1>7, <1>11, <2>2, OtherProvider
  <2>4. QED
    BY <1>1, <2>1, <2>3
<1>12. LiveOK'
  BY <1>1, <1>9, <1>10, <1>11 DEF LiveOK, WorkSteps
<1>13. AuditOK' /\ SourceOK' /\ Uncancelled'
  BY <1>1 DEF UndisturbedInv, AuditOK, AuditMatchesCheckpoint, SourceOK, Uncancelled
<1>14. QED
  BY <1>8, <1>12, <1>13 DEF UndisturbedInv

\* The result is published: every row that is the job's has had its audit.
LEMMA PublishUndisturbed == ASSUME TypeInv, UndisturbedInv, PublishResult PROVE UndisturbedInv'
<1>1. /\ task.step = "persist" /\ task.job \in Jobs /\ task'.step = "release"
      /\ UNCHANGED <<ps, cancel, cps, snaps, audit, high>> /\ task'.job = task.job
      /\ job' = [job EXCEPT ![task.job].result = TRUE]
  BY DEF PublishResult, Goto, durable, history, TypeInv, TypeOK, TaskRecord, Control
<1>2. \A j \in Jobs : /\ job'[j].cancelled = job[j].cancelled /\ job'[j].status = job[j].status
                      /\ job'[j].resumed = job[j].resumed
                      /\ j # task.job => job'[j].result = job[j].result
  <2> SUFFICES ASSUME NEW j \in Jobs
               PROVE  /\ job'[j].cancelled = job[j].cancelled /\ job'[j].status = job[j].status
                      /\ job'[j].resumed = job[j].resumed
                      /\ j # task.job => job'[j].result = job[j].result
    OBVIOUS
  <2>1. job[j] \in JobRecord /\ job'[j] = IF j = task.job THEN [job[j] EXCEPT !.result = TRUE] ELSE job[j]
    BY <1>1 DEF TypeInv, TypeOK
  <2>2. QED
    BY <2>1 DEF JobRecord
<1>3. ASSUME NEW p \in Providers, NEW k \in Jobs, cps[p][k].job = task.job
      PROVE  audit[p][k] = cps[p][k].fetched
  <2>1. p \in Over(task)
    <3>1. CASE p \notin Over(task)
      <4>1. Waits(p, ps[task.job][p], task.job)
        BY <1>1, <3>1 DEF UndisturbedInv, LiveOK, LiveSteps, WorkSteps
      <4>2. QED
        BY <1>3, <4>1 DEF Waits
    <3>2. QED
      BY <3>1
  <2>2. PICK n \in 1 .. Len(Order) : p = Order[n]
    BY <1>1, <2>1 DEF Over
  <2>3. Did(p, ps[task.job][p], task.job)
    BY <1>1, <2>1 DEF UndisturbedInv, LiveOK, LiveSteps
  <2>4. audit[p][ps[task.job][p].run] = ps[task.job][p].fetched
    BY <1>1, <2>2 DEF UndisturbedInv, AuditOK
  <2>5. QED
    BY <1>3, <2>3, <2>4 DEF Did
<1>4. AuditOK'
  <2>1. ASSUME NEW p \in Providers, NEW k \in Jobs
        PROVE  LET j == cps[p][k].job
               IN  j # NoJob /\ job'[j].result /\ ~job'[j].cancelled => audit[p][k] = cps[p][k].fetched
    <3>1. cps[p][k].job # NoJob => cps[p][k].job \in Jobs
      BY DEF TypeInv, TypeOK, Checkpoint
    <3>2. QED
      BY <1>2, <1>3, <3>1 DEF UndisturbedInv, AuditOK, AuditMatchesCheckpoint
  <2>2. QED
    BY <1>1, <2>1 DEF AuditOK, AuditMatchesCheckpoint, LiveSteps, WorkSteps
<1>5. SourceOK' /\ LiveOK'
  BY <1>1 DEF SourceOK, LiveOK, LiveSteps, WorkSteps
<1>6. Uncancelled'
  <2>1. job[task.job].status # "none"
    BY <1>1 DEF UndisturbedInv, Uncancelled
  <2>2. QED
    BY <1>1, <1>2, <2>1 DEF UndisturbedInv, Uncancelled
<1>7. \A p \in Providers, k \in Jobs : RowOK(p, k)'
  BY <1>1, <1>2, RowsStay
<1>8. QED
  BY <1>4, <1>5, <1>6, <1>7 DEF UndisturbedInv

\* The task lets go, or is cut short: the rows are what they were.
LEMMA EndUndisturbed ==
  ASSUME TypeInv, UndisturbedInv, ReleaseSlot \/ JobFails \/ Crash
  PROVE  UndisturbedInv'
<1>1. /\ UNCHANGED <<cps, snaps, audit, high>>
      /\ task'.step \in {"idle", "release"} /\ (task'.step = "release" => task'.job = task.job)
      /\ task'.step = "release" => task.step # "idle"
  <2>1. CASE ReleaseSlot
    BY <2>1 DEF ReleaseSlot, durable, history, IdleTask
  <2>2. CASE JobFails
    <3>1. task' = [task EXCEPT !.step = "release"] /\ task \in TaskRecord /\ task.step # "idle"
      BY <2>2 DEF JobFails, Goto, TypeInv, TypeOK
    <3>2. QED
      BY <2>2, <3>1 DEF JobFails, durable, history, TaskRecord
  <2>3. CASE Crash
    BY <2>3 DEF Crash, durable, history, IdleTask
  <2>4. QED
    BY <2>1, <2>2, <2>3
<1>2. cancel'.step = "idle"
  <2>1. cancel.step = "idle"
    BY DEF UndisturbedInv, Uncancelled
  <2>2. cancel' = cancel \/ cancel' = IdleCancel
    BY DEF ReleaseSlot, JobFails, Crash
  <2>3. QED
    BY <2>1, <2>2 DEF IdleCancel
<1>3. ASSUME NEW j \in Jobs
      PROVE  /\ job'[j].resumed = job[j].resumed
             /\ job'[j].cancelled => job[j].cancelled
             /\ job'[j].result => job[j].result
             /\ job'[j].status = "none" <=> job[j].status = "none"
  <2>1. job[j] \in JobRecord
    BY DEF TypeInv, TypeOK
  <2>2. CASE ReleaseSlot
    BY <2>2 DEF ReleaseSlot
  <2>3. CASE JobFails
    <3>1. task.job \in Jobs /\ job[task.job].status # "none"
      BY <2>3 DEF JobFails, TypeInv, Control, UndisturbedInv, Uncancelled
    <3>2. job' = [job EXCEPT ![task.job].status = "failed"]
      BY <2>3 DEF JobFails
    <3>3. QED
      BY <2>1, <3>1, <3>2 DEF TypeInv, TypeOK, JobRecord
  <2>4. CASE Crash
    <3>1. job'[j] = IF job[j].status = "none" THEN job[j]
                    ELSE [job[j] EXCEPT !.status = "gone", !.cancelled = FALSE, !.result = FALSE]
      BY <2>4 DEF Crash
    <3>2. QED
      BY <2>1, <3>1 DEF JobRecord
  <2>5. QED
    BY <2>2, <2>3, <2>4
<1>4. AuditOK'
  <2>1. ASSUME NEW p \in Providers, NEW k \in Jobs
        PROVE  LET j == cps[p][k].job
               IN  j # NoJob /\ job'[j].result /\ ~job'[j].cancelled => audit[p][k] = cps[p][k].fetched
    <3>1. cps[p][k].job # NoJob => cps[p][k].job \in Jobs
      BY DEF TypeInv, TypeOK, Checkpoint
    <3>2. \A j \in Jobs : ~job[j].cancelled
      BY DEF UndisturbedInv, Uncancelled
    <3>3. QED
      BY <1>3, <3>1, <3>2 DEF UndisturbedInv, AuditOK, AuditMatchesCheckpoint
  <2>2. QED
    BY <1>1, <2>1 DEF AuditOK, AuditMatchesCheckpoint, LiveSteps, WorkSteps
<1>5. SourceOK' /\ LiveOK'
  BY <1>1 DEF SourceOK, LiveOK, LiveSteps, WorkSteps
<1>6. Uncancelled'
  <2>1. task'.step # "idle" => task.job \in Jobs /\ job[task.job].status # "none"
    BY <1>1 DEF UndisturbedInv, Uncancelled, TypeInv, Control
  <2>2. QED
    BY <1>1, <1>2, <1>3, <2>1 DEF UndisturbedInv, Uncancelled
<1>7. \A p \in Providers, k \in Jobs : RowOK(p, k)'
  BY <1>1, <1>3, RowsStay
<1>8. QED
  BY <1>4, <1>5, <1>6, <1>7 DEF UndisturbedInv

\* No cancel has been requested.
Uncalled == cancels = 0

\* As long as no cancel is requested, no handler runs.
LEMMA NoHandler ==
  ASSUME UndisturbedInv, cancels = 0, cancels' = 0
  PROVE  ~CancelStep /\ ~CancelFails /\ \A j \in Jobs : ~CancelBegin(j)
<1>1. cancel.step = "idle"
  BY DEF UndisturbedInv, Uncancelled
<1>2. QED
  BY <1>1 DEF CancelStep, CancelFails, CancelBegin, CancelCheck, CancelMark, CancelBuild,
     CancelSave, CancelReturn

LEMMA InitUndisturbed == Init => UndisturbedInv
<1> SUFFICES ASSUME Init PROVE UndisturbedInv
  OBVIOUS
<1>1. Uncancelled /\ SourceOK /\ LiveOK
  BY DEF Init, Uncancelled, SourceOK, LiveOK, IdleTask, IdleCancel, LiveSteps, WorkSteps
<1>2. AuditOK
  BY DEF Init, AuditOK, AuditMatchesCheckpoint, IdleTask, NoCheckpoint, LiveSteps, WorkSteps
<1>3. \A p \in Providers, k \in Jobs : RowOK(p, k)
  BY FS_EmptySet DEF Init, RowOK, NoCheckpoint
<1>4. QED
  BY <1>1, <1>2, <1>3 DEF UndisturbedInv

LEMMA NextUndisturbed ==
  TypeInv /\ UndisturbedInv /\ Uncalled /\ Uncalled' /\ [Next]_vars => UndisturbedInv'
<1> SUFFICES ASSUME TypeInv, UndisturbedInv, Uncalled, Uncalled', [Next]_vars PROVE UndisturbedInv'
  OBVIOUS
<1>1. CASE UNCHANGED vars
  <2>1. UNCHANGED <<job, ps, task, source, cancel, cps, snaps, audit, high>>
    BY <1>1 DEF vars
  <2>2. Prov' = Prov /\ State' = State /\ Over(task)' = Over(task)
    BY <2>1 DEF Prov, State, Over
  <2>3. \A p, k : FromRow(p, k)' = FromRow(p, k)
    BY <2>1 DEF FromRow
  <2>4. LiveOK'
    BY <2>1, <2>2, <2>3 DEF UndisturbedInv, LiveOK, Did, Waits, Works
  <2>5. AuditOK' /\ SourceOK' /\ Uncancelled'
    BY <2>1 DEF UndisturbedInv, AuditOK, AuditMatchesCheckpoint, SourceOK, Uncancelled
  <2>6. \A p \in Providers, k \in Jobs : RowOK(p, k)'
    BY <2>1, SameTables DEF UndisturbedInv
  <2>7. QED
    BY <2>4, <2>5, <2>6 DEF UndisturbedInv
<1>2. ASSUME NEW j \in Jobs, NEW old \in Jobs, Start(j) \/ Resume(j, old)
      PROVE  UndisturbedInv'
  BY <1>2, StartUndisturbed
<1>3. CASE TaskStep
  BY <1>3, BeginJobUndisturbed, ProviderUndisturbed, WriteUndisturbed, LoopUndisturbed,
     FinalizeUndisturbed, WriteAuditUndisturbed, AuditsUndisturbed, PersistUndisturbed,
     PublishUndisturbed, EndUndisturbed DEF TaskStep
<1>4. CASE JobFails \/ Crash
  BY <1>4, EndUndisturbed
<1>5. QED
  BY <1>1, <1>2, <1>3, <1>4, NoHandler DEF Uncalled, Next

\* The invariant of the executions in which no cancel is requested, whatever
\* fails, dies or is resumed.
THEOREM Undisturbed == Spec /\ []Uncalled => [](TypeInv /\ UndisturbedInv)
<1>1. Init => TypeInv /\ UndisturbedInv
  BY InitType, InitUndisturbed
<1>2. TypeInv /\ UndisturbedInv /\ Uncalled /\ Uncalled' /\ [Next]_vars
        => (TypeInv /\ UndisturbedInv)'
  BY NextType, NextUndisturbed
<1>3. QED
  BY <1>1, <1>2, PTL DEF Spec

\* A resumed search never asks a provider for a page its run has durably
\* passed, unless the provider sent the run back to it, through any sequence of
\* failures, process deaths and resumes.  A cancel handler that writes late can
\* move a row back, so none may run.
THEOREM RunsMoveForward == Spec /\ []Uncalled => []NoCursorReplay
<1>1. TypeInv /\ UndisturbedInv => NoCursorReplay
  BY DEF UndisturbedInv, LiveOK, LiveSteps, WorkSteps, Works, NoCursorReplay
<1>2. QED
  BY <1>1, Undisturbed, PTL

\* The fetched count of a Crossref run is the number of its checkpointed
\* identities across all the jobs that worked on it (WP2.1): no record is
\* counted twice after a resume, and none is forgotten.
THEOREM CountsAreDistinct == Spec /\ []Uncalled => []CrossrefCountsDistinct
<1>1. TypeInv /\ UndisturbedInv => CrossrefCountsDistinct
  <2>1. Crossref \subseteq Providers
    BY FetchAllAssumption DEF FetchAllAssumption
  <2>2. QED
    BY <2>1 DEF UndisturbedInv, RowOK, CrossrefCountsDistinct
<1>2. QED
  BY <1>1, Undisturbed, PTL

\* A run whose row cannot be resumed was closed: an interruption alone, of
\* whatever kind, never strands it.
THEOREM InterruptedRunsResume == Spec /\ []Uncalled => []NoRunStranded
<1>1. TypeInv /\ UndisturbedInv => NoRunStranded
  BY DEF UndisturbedInv, RowOK, NoRunStranded
<1>2. QED
  BY <1>1, Undisturbed, PTL

\* A job that has published its result has an audit row for every run that is
\* its own, with the count of the checkpoint, over all jobs of that run.
THEOREM AuditsMatch == Spec /\ []Uncalled => []AuditMatchesCheckpoint
<1>1. TypeInv /\ UndisturbedInv => AuditMatchesCheckpoint
  BY DEF UndisturbedInv, AuditOK
<1>2. QED
  BY <1>1, Undisturbed, PTL

-----------------------------------------------------------------------------
(* Records, when nothing fails.                                            *)

\* No write or factory has failed, and the process has not died.
Unfailing == faults = 0

\* A record any run's checkpoint has counted as kept.
Counted(r) == \E p \in Providers, k \in Jobs : r \in admitted[p][k]

Saved(r) == \E q \in Providers, l \in Jobs : r \in snaps[q][l]

\* The task still holds the record in memory, and will get to its snapshot.
InHand(r) == task.step \in LiveSteps /\ \E q \in ProvidersRun : r \in ps[task.job][q].recs

\* A finished job merged the record from several providers, and the merged
\* publication did not match the query.
Refused(r) == \E i \in Jobs : job[i].result /\ Dropped(i, r)

\* No result is withdrawn, and no record leaves the states of a job that has one.
ResultsStay ==
  \A i \in Jobs : job[i].result =>
    job'[i].result /\ \A p \in Providers : ps[i][p].recs \subseteq ps'[i][p].recs

\* A change of a status or of the cancel flag keeps the results.
LEMMA SameResults ==
  ASSUME TypeInv,
         \/ UNCHANGED job
         \/ \E j, st : job' = [job EXCEPT ![j].status = st]
         \/ \E j : job' = [job EXCEPT ![j].cancelled = TRUE]
  PROVE  \A i \in Jobs : job'[i].result = job[i].result
<1>0. \A i \in Jobs : job[i] \in JobRecord
  BY DEF TypeInv, TypeOK
<1>1. CASE UNCHANGED job
  BY <1>1
<1>2. ASSUME NEW j, NEW st, NEW i \in Jobs, job' = [job EXCEPT ![j].status = st]
      PROVE  job'[i].result = job[i].result
  <2>1. job'[i] = IF i = j THEN [job[i] EXCEPT !.status = st] ELSE job[i]
    BY <1>2 DEF TypeInv, TypeOK
  <2>2. QED
    BY <1>0, <2>1 DEF JobRecord
<1>3. ASSUME NEW j, NEW i \in Jobs, job' = [job EXCEPT ![j].cancelled = TRUE]
      PROVE  job'[i].result = job[i].result
  <2>1. job'[i] = IF i = j THEN [job[i] EXCEPT !.cancelled = TRUE] ELSE job[i]
    BY <1>3 DEF TypeInv, TypeOK
  <2>2. QED
    BY <1>0, <2>1 DEF JobRecord
<1>4. QED
  BY <1>1, <1>2, <1>3

LEMMA RefusedStays == ASSUME ResultsStay PROVE \A r : Refused(r) => Refused(r)'
<1>1. \A p \in ProvidersRun : p \in Providers
  BY ConstantTypes DEF ProvidersRun
<1>2. ASSUME NEW i \in Jobs, NEW r, job[i].result, Dropped(i, r)
      PROVE  job'[i].result /\ Dropped(i, r)'
  <2>1. job'[i].result /\ \A p \in Providers : ps[i][p].recs \subseteq ps'[i][p].recs
    BY <1>2 DEF ResultsStay
  <2>2. QED
    BY <1>1, <1>2, <2>1 DEF Dropped, ProvidersRun
<1>3. QED
  BY <1>2 DEF Refused

\* A counted record is in a snapshot, in hand, or refused; a provider that had its
\* turn has a run.
KeepingInv ==
  /\ \A r \in Records : Counted(r) => Saved(r) \/ InHand(r) \/ Refused(r)
  /\ task.step \in LiveSteps => \A p \in Over(task) : ps[task.job][p].run # NoRun
  /\ task.step = "init" => task.i = 1

\* A job with a result has a run for each of its providers: it had no result
\* before it began, and no step takes a run away.
DrawnInv ==
  /\ \A j \in Jobs : job[j].status = "none" => ~job[j].result
  /\ task.step # "idle" => job[task.job].status # "none"
  /\ task.step \notin {"idle", "release"} => ~job[task.job].result
  /\ \A j \in Jobs : job[j].result => \A p \in ProvidersRun : ps[j][p].run # NoRun

\* Steps that add no record to any count keep the invariant, as long as what is in
\* hand stays there.
LEMMA StillInHand ==
  ASSUME TypeInv, KeepingInv, UNCHANGED <<snaps, admitted>>, ResultsStay,
         task'.step \in LiveSteps, task.step \in LiveSteps, task'.job = task.job,
         Over(task)' \subseteq Over(task),
         \A p \in Providers : /\ ps[task.job][p].recs \subseteq ps'[task.job][p].recs
                              /\ ps[task.job][p].run # NoRun => ps'[task.job][p].run # NoRun
  PROVE  KeepingInv'
<1>1. \A p \in Over(task) \cup ProvidersRun : p \in Providers
  <2>1. task.i \in 1 .. Len(Order) + 1
    BY DEF TypeInv, TypeOK, TaskRecord
  <2>2. \A n \in 1 .. task.i - 1 : n \in 1 .. Len(Order)
    BY <2>1, ConstantTypes
  <2>3. QED
    BY <2>2, ConstantTypes DEF Over, ProvidersRun
<1>2. ASSUME NEW r \in Records, InHand(r) PROVE InHand(r)'
  BY <1>1, <1>2 DEF InHand
<1>3. QED
  BY <1>1, <1>2, RefusedStays DEF KeepingInv, Counted, Saved, LiveSteps, WorkSteps

\* Between two live tasks every counted record is in a snapshot, or was refused.
LEMMA NothingInHand ==
  ASSUME KeepingInv, UNCHANGED <<snaps, admitted>>, ResultsStay, task.step \notin LiveSteps,
         task'.step \notin LiveSteps \/ (task'.step \in LiveSteps /\ Over(task)' = {}),
         task'.step = "init" => task'.i = 1
  PROVE  KeepingInv'
BY RefusedStays DEF KeepingInv, InHand, Counted, Saved

\* No state loses a record, and a run that is drawn stays.
StatesGrow ==
  \A i \in Jobs, q \in Providers : /\ ps[i][q].recs \subseteq ps'[i][q].recs
                                   /\ ps[i][q].run # NoRun => ps'[i][q].run = ps[i][q].run

LEMMA OneChanged ==
  ASSUME TypeInv, NEW j \in Jobs, NEW p \in Providers, NEW s, ps' = [ps EXCEPT ![j][p] = s],
         ps[j][p].recs \subseteq s.recs, ps[j][p].run # NoRun => s.run = ps[j][p].run
  PROVE  StatesGrow
<1>1. ASSUME NEW i \in Jobs, NEW q \in Providers
      PROVE  ps'[i][q] = IF i = j /\ q = p THEN s ELSE ps[i][q]
  BY DEF TypeInv, TypeOK
<1>2. QED
  BY <1>1 DEF StatesGrow

\* The page loop and the turns of the providers lose no record from a state, and
\* no run.
LEMMA WorkStates ==
  ASSUME TypeInv,
         \/ SkipCancelled \/ CarryOver \/ BeginProvider \/ LoopCancelled \/ LoopLimit \/ Request
         \/ PageNext \/ PageLast \/ PageEmpty \/ PageRepeated \/ FetchFails \/ PlanIncompatible
  PROVE  /\ UNCHANGED <<job, snaps, admitted>> /\ Over(task)' = Over(task)
         /\ task.step \in LiveSteps /\ task'.step \in LiveSteps /\ task'.job = task.job
         /\ StatesGrow
<1>1. /\ task.step \in {"provider", "loop", "await"} /\ task.job \in Jobs
      /\ task.i \in 1 .. Len(Order) /\ Prov \in Providers /\ State \in ProviderState
  <2>1. task.step \in {"provider", "loop", "await"}
    BY DEF SkipCancelled, CarryOver, BeginProvider, AtProvider, LoopCancelled, LoopLimit, Request,
       PageNext, PageLast, PageEmpty, PageRepeated, FetchFails, PlanIncompatible
  <2>2. task.step = "provider" => task.i <= Len(Order)
    BY DEF SkipCancelled, CarryOver, BeginProvider, AtProvider, LoopCancelled, LoopLimit, Request,
       PageNext, PageLast, PageEmpty, PageRepeated, FetchFails, PlanIncompatible
  <2>3. task.job \in Jobs /\ task.i \in 1 .. Len(Order)
    BY <2>1, <2>2, ConstantTypes DEF TypeInv, TypeOK, Control, TaskRecord
  <2>4. QED
    BY <2>1, <2>3, ConstantTypes DEF Prov, State, TypeInv, TypeOK
<1>2. UNCHANGED <<job, snaps, admitted>>
  BY DEF SkipCancelled, CarryOver, BeginProvider, LoopCancelled, LoopLimit, Request,
     PageNext, PageLast, PageEmpty, PageRepeated, FetchFails, PlanIncompatible, StopProvider,
     Receive, durable, history
<1>3. task'.step \in {"write", "await"} /\ task'.job = task.job /\ task'.i = task.i
  <2>1. \/ \E cur, res, after : GotoWrite(cur, res, after)
        \/ \E asked : task' = [task EXCEPT !.step = "await", !.asked = asked]
    BY DEF SkipCancelled, CarryOver, BeginProvider, LoopCancelled, LoopLimit, Request,
       PageNext, PageLast, PageEmpty, PageRepeated, FetchFails, PlanIncompatible, StopProvider
  <2>2. task \in TaskRecord
    BY DEF TypeInv, TypeOK
  <2>3. QED
    BY <2>1, <2>2 DEF GotoWrite, TaskRecord
<1>4. \/ UNCHANGED ps
      \/ \E s : /\ ps' = [ps EXCEPT ![task.job][Prov] = s]
                /\ State.recs \subseteq s.recs /\ (State.run # NoRun => s.run = State.run)
  <2>1. CASE CarryOver \/ Request
    BY <2>1 DEF CarryOver, Request
  <2>2. CASE \E st, c, res, save : StopProvider(st, c, res, save)
    <3>1. PICK st, res : ps' = [ps EXCEPT ![task.job][Prov].status = st, ![task.job][Prov].resumable = res]
      BY <2>2 DEF StopProvider
    <3> DEFINE s == [State EXCEPT !.status = st, !.resumable = res]
    <3>2. ps' = [ps EXCEPT ![task.job][Prov] = s]
      BY <1>1, <3>1 DEF State, TypeInv, TypeOK, ProviderState
    <3>3. s.recs = State.recs /\ s.run = State.run
      BY <1>1 DEF ProviderState
    <3> HIDE DEF s
    <3>4. QED
      BY <3>2, <3>3
  <2>3. CASE \E records, c, st, res : Receive(records, c, st, res)
    <3>0. PICK records, c, st, res : Receive(records, c, st, res)
      BY <2>3
    <3>1. ps' = [ps EXCEPT ![task.job][Prov] = Received(State, records \ State.seen, c, st, res)]
      BY <3>0 DEF Receive
    <3> DEFINE s == Received(State, records \ State.seen, c, st, res)
    <3>2. s.recs = State.recs \cup ((records \ State.seen) \ Rejected) /\ s.run = State.run
      <4> DEFINE new == records \ State.seen
                 pages   == State.execPages + 1
                 count   == State.execFetched + Cardinality(new)
                 fetched == State.fetched + Cardinality(new)
                 kept    == State.kept + Cardinality(new \ Rejected)
                 recs    == State.recs \cup (new \ Rejected)
                 seen    == State.seen \cup new
      <4>1. s = [State EXCEPT !.execPages = pages, !.execFetched = count, !.fetched = fetched,
                   !.kept = kept, !.recs = recs, !.seen = seen,
                   !.cursor = c, !.status = st, !.resumable = res]
        BY Zenon DEF Received
      <4> HIDE DEF s, pages, count, fetched, kept, recs, seen
      <4>2. s.recs = recs /\ s.run = State.run
        BY <1>1, <4>1 DEF ProviderState
      <4>3. QED
        BY <4>2 DEF recs
    <3> HIDE DEF s
    <3>3. QED
      BY <3>1, <3>2 DEF s
  <2>4. CASE SkipCancelled
    <3> DEFINE s == [State EXCEPT !.status = "cancelled", !.resumable = TRUE]
    <3>1. ps' = [ps EXCEPT ![task.job][Prov] = s]
      BY <1>1, <2>4 DEF SkipCancelled, State, TypeInv, TypeOK, ProviderState
    <3>2. s.recs = State.recs /\ s.run = State.run
      BY <1>1 DEF ProviderState
    <3> HIDE DEF s
    <3>3. QED
      BY <3>1, <3>2
  <2>5. CASE BeginProvider
    <3> DEFINE c == IF State.cursor = NoCursor THEN 1 ELSE State.cursor
               k == IF State.run = NoRun THEN task.job ELSE State.run
               s == [State EXCEPT !.status = "running", !.cursor = c, !.start = c, !.run = k]
    <3>1. ps' = [ps EXCEPT ![task.job][Prov] = s]
      BY <2>5 DEF BeginProvider
    <3> HIDE DEF c, k
    <3>2. s.recs = State.recs /\ s.run = k
      BY <1>1 DEF ProviderState
    <3>3. State.run # NoRun => k = State.run
      BY DEF k
    <3> HIDE DEF s
    <3>4. QED
      BY <3>1, <3>2, <3>3
  <2>6. QED
    BY <2>1, <2>2, <2>3, <2>4, <2>5 DEF LoopCancelled, LoopLimit, PageNext, PageLast, PageEmpty,
       PageRepeated, FetchFails, PlanIncompatible
<1>5. StatesGrow
  <2>1. CASE UNCHANGED ps
    BY <2>1 DEF StatesGrow
  <2>2. CASE \E s : /\ ps' = [ps EXCEPT ![task.job][Prov] = s]
                    /\ State.recs \subseteq s.recs /\ (State.run # NoRun => s.run = State.run)
    BY <1>1, <2>2, OneChanged DEF State
  <2>3. QED
    BY <1>4, <2>1, <2>2
<1>6. task.step \in LiveSteps /\ task'.step \in LiveSteps /\ Over(task)' = Over(task)
  BY <1>1, <1>3 DEF LiveSteps, WorkSteps, Over
<1>7. QED
  BY <1>2, <1>3, <1>5, <1>6

LEMMA WorkKeeps ==
  ASSUME TypeInv, KeepingInv,
         \/ SkipCancelled \/ CarryOver \/ BeginProvider \/ LoopCancelled \/ LoopLimit \/ Request
         \/ PageNext \/ PageLast \/ PageEmpty \/ PageRepeated \/ FetchFails \/ PlanIncompatible
  PROVE  KeepingInv'
<1>1. task.job \in Jobs
  BY WorkStates DEF TypeInv, Control, LiveSteps, WorkSteps
<1>2. QED
  <2>1. ResultsStay
    BY WorkStates DEF StatesGrow, ResultsStay
  <2>2. QED
    BY <1>1, <2>1, WorkStates, StillInHand DEF StatesGrow

\* A checkpoint is written with the run drawn and the records kept.
LEMMA WriteStates ==
  ASSUME TypeInv, WriteCheckpoint
  PROVE  /\ StatesGrow
         /\ ps'[task.job][Prov].run # NoRun
         /\ ps'[task.job][Prov].recs = State.recs
<1>1. PICK j, p, k, t : j = task.job /\ p = Prov /\ k = RunOf(task.job, Prov) /\ t = task
  OBVIOUS
<1>2. j \in Jobs /\ p \in Providers /\ ps[j][p] \in ProviderState /\ ps[j][p] = State
  BY <1>1, StateType DEF WriteCheckpoint, State
<1>3. k \in Jobs /\ k # NoRun /\ (ps[j][p].run # NoRun => k = ps[j][p].run)
  BY <1>1, <1>2, ConstantTypes DEF RunOf, ProviderState
<1>4. ps' = [ps EXCEPT ![j][p] = [ps[j][p] EXCEPT !.run = k, !.resumable = t.res]]
  <2>1. ps' = Prepared(j, p, t.res)
    BY <1>1 DEF WriteCheckpoint
  <2>2. QED
    BY <1>1, <1>2, <2>1 DEF Prepared, RunOf, TypeInv, TypeOK, ProviderState
<1> DEFINE s == [ps[j][p] EXCEPT !.run = k, !.resumable = t.res]
<1>5. s.recs = ps[j][p].recs /\ s.run = k
  BY <1>2 DEF ProviderState
<1>6. ps' = [ps EXCEPT ![j][p] = s] /\ ps'[j][p] = s
  BY <1>2, <1>4 DEF TypeInv, TypeOK
<1> HIDE DEF s
<1>7. StatesGrow
  BY <1>2, <1>3, <1>5, <1>6, OneChanged
<1>8. QED
  BY <1>1, <1>2, <1>3, <1>5, <1>6, <1>7

\* What a checkpoint counts is in the state it was built from.
LEMMA WriteKeeps == ASSUME TypeInv, KeepingInv, WriteCheckpoint PROVE KeepingInv'
<1>1. PICK j, p, k, t : j = task.job /\ p = Prov /\ k = RunOf(task.job, Prov) /\ t = task
  OBVIOUS
<1>2. /\ t.step = "write" /\ j \in Jobs /\ p \in Providers /\ State \in ProviderState
      /\ t.i \in 1 .. Len(Order) /\ p \in ProvidersRun /\ t \in TaskRecord
      /\ t.after \in {"loop", "provider"} /\ k \in Jobs /\ ps[j][p] = State
  <2>1. task.step = "write"
    BY DEF WriteCheckpoint
  <2>2. task.job \in Jobs /\ Prov \in Providers /\ State \in ProviderState /\ task.i \in 1 .. Len(Order)
    BY <2>1, StateType
  <2>3. RunOf(task.job, Prov) \in Jobs
    BY <2>2, ConstantTypes DEF RunOf, State, ProviderState
  <2>4. QED
    BY <1>1, <2>1, <2>2, <2>3 DEF TypeInv, TypeOK, TaskRecord, ProvidersRun, Prov, State
<1>3. /\ task'.step = t.after /\ task'.job = j
      /\ task'.i = IF t.after = "provider" THEN t.i + 1 ELSE t.i
  BY <1>1 DEF WriteCheckpoint, TypeInv, TypeOK, TaskRecord
<1>4. /\ ps' = [ps EXCEPT ![j][p] = [@ EXCEPT !.run = k, !.resumable = t.res]]
      /\ admitted' = [admitted EXCEPT ![p][k] = @ \cup State.recs]
      /\ UNCHANGED snaps
  <2>1. ps' = Prepared(j, p, t.res)
    BY <1>1 DEF WriteCheckpoint
  <2>2. Prepared(j, p, t.res) = [ps EXCEPT ![j][p] = [@ EXCEPT !.run = RunOf(j, p), !.resumable = t.res]]
    BY <1>2 DEF Prepared, RunOf, TypeInv, TypeOK, ProviderState
  <2>3. QED
    BY <1>1, <2>1, <2>2 DEF WriteCheckpoint
<1>5. /\ ps'[j][p].recs = State.recs /\ ps'[j][p].run = k
      /\ \A q \in Providers : q # p => ps'[j][q] = ps[j][q]
  BY <1>2, <1>4 DEF TypeInv, TypeOK, ProviderState
<1>6. task.step \in LiveSteps /\ task'.step \in LiveSteps
  BY <1>1, <1>2, <1>3 DEF LiveSteps, WorkSteps
<1>7. \A q \in ProvidersRun : q \in Providers
  BY ConstantTypes DEF ProvidersRun
<1>8. ASSUME NEW r \in Records, Counted(r)'
      PROVE  Saved(r)' \/ InHand(r)' \/ Refused(r)'
  <2>1. Counted(r) \/ r \in State.recs
    BY <1>2, <1>4, <1>8 DEF Counted, TypeInv, TypeOK
  <2>2. CASE r \in State.recs
    BY <1>2, <1>3, <1>5, <1>6, <2>2 DEF InHand
  <2>3. CASE Counted(r)
    <3>1. Saved(r) \/ Refused(r) \/ \E q \in ProvidersRun : r \in ps[j][q].recs
      BY <1>1, <2>3 DEF KeepingInv, InHand
    <3>2. CASE Saved(r)
      BY <1>4, <3>2 DEF Saved
    <3>5. CASE Refused(r)
      <4>1. ResultsStay
        BY WriteStates DEF StatesGrow, ResultsStay, WriteCheckpoint
      <4>2. QED
        BY <3>5, <4>1, RefusedStays
    <3>3. ASSUME NEW q \in ProvidersRun, r \in ps[j][q].recs
          PROVE  InHand(r)'
      <4>1. r \in ps'[j][q].recs
        BY <1>2, <1>5, <1>7, <3>3
      <4>2. QED
        BY <1>3, <1>6, <4>1 DEF InHand, ProvidersRun
    <3>4. QED
      BY <3>1, <3>2, <3>3, <3>5
  <2>4. QED
    BY <2>1, <2>2, <2>3
<1>9. ASSUME NEW q \in Over(task)'
      PROVE  ps'[task'.job][q].run # NoRun
  <2>1. PICK n \in 1 .. task'.i - 1 : q = Order[n]
    BY <1>2, <1>3 DEF Over
  <2>2. n \in 1 .. t.i /\ n \in 1 .. Len(Order)
    BY <1>2, <1>3, <2>1, ConstantTypes
  <2>3. q \in Providers
    BY <2>1, <2>2, ConstantTypes
  <2>4. CASE q = p
    BY <1>2, <1>3, <1>5, <2>4, ConstantTypes
  <2>5. CASE q # p
    <3>1. n # t.i
      BY <1>1, <2>1, <2>5 DEF Prov
    <3>2. q \in Over(task)
      BY <1>1, <1>2, <2>1, <2>2, <3>1 DEF Over
    <3>3. QED
      BY <1>1, <1>3, <1>5, <1>6, <2>3, <2>5, <3>2 DEF KeepingInv
  <2>6. QED
    BY <2>4, <2>5
<1>10. QED
  BY <1>2, <1>3, <1>8, <1>9 DEF KeepingInv

\* A record in hand when nothing is left unsaved is in a snapshot, of the run of
\* the first provider that kept it, or is dropped.
LEMMA NothingUnsaved ==
  ASSUME TypeInv, KeepingInv, task.step = "persist", task.job \in Jobs, Unsaved(task.job) = {},
         NEW r \in Records, NEW q \in ProvidersRun, r \in ps[task.job][q].recs,
         ~Dropped(task.job, r)
  PROVE  Saved(r)
<1> DEFINE owners == {i \in 1 .. Len(Order) : r \in ps[task.job][Order[i]].recs}
<1>1. owners \in SUBSET Nat /\ owners # {}
  BY ConstantTypes DEF ProvidersRun
<1>2. PICK i \in owners : \A h \in owners : i <= h
  BY <1>1, MinOfSet
<1>3. i \in 1 .. Len(Order) /\ r \in ps[task.job][Order[i]].recs
  OBVIOUS
<1>4. Owns(task.job, i, r)
  <2>1. ASSUME NEW h \in 1 .. i - 1, r \in ps[task.job][Order[h]].recs
        PROVE  FALSE
    <3>1. h \in owners /\ h < i
      BY <1>3, <2>1, ConstantTypes
    <3>2. i <= h
      BY <1>2, <3>1
    <3>3. QED
      BY <1>3, <3>1, <3>2, ConstantTypes
  <2>2. QED
    BY <1>3, <2>1 DEF Owns
<1> HIDE DEF owners
<1>5. <<i, r>> \in (1 .. Len(Order)) \X Records /\ <<i, r>>[1] = i /\ <<i, r>>[2] = r
  BY <1>3
<1>6. r \in snaps[Order[i]][ps[task.job][Order[i]].run]
  BY <1>4, <1>5 DEF Unsaved
<1>7. Order[i] \in Providers /\ Order[i] \in Over(task)
  BY <1>3, ConstantTypes DEF Over
<1>8. ps[task.job][Order[i]].run \in Jobs
  BY <1>7 DEF KeepingInv, LiveSteps, TypeInv, TypeOK, ProviderState
<1>9. QED
  BY <1>6, <1>7, <1>8 DEF Saved

\* Starting, resuming, and the end of a job.
LEMMA BoundaryKeeps ==
  ASSUME TypeInv, SlotInv, KeepingInv, DrawnInv,
         \/ \E j \in Jobs : Start(j) \/ \E old \in Jobs : Resume(j, old)
         \/ BeginJob \/ FinalizeStatus \/ WriteAudit \/ AuditsWritten \/ PersistSnapshot
         \/ PublishResult \/ ReleaseSlot
  PROVE  KeepingInv'
<1>0. task \in TaskRecord /\ task.i \in 1 .. Len(Order) + 1
  BY DEF TypeInv, TypeOK, TaskRecord
<1>1. ASSUME NEW j \in Jobs, NEW old \in Jobs, Start(j) \/ Resume(j, old)
      PROVE  KeepingInv'
  <2>1. PICK b \in BOOLEAN : NewJob(j, b)
    BY <1>1 DEF Start, Resume
  <2>2. active = NoJob /\ task'.step = "init" /\ task'.i = 1 /\ UNCHANGED <<snaps, admitted>>
    BY <2>1 DEF NewJob, IdleTask, durable, history
  <2>3. task.step = "idle"
    BY <2>2, ConstantTypes DEF SlotInv, TypeInv, Control
  <2>5. ResultsStay
    <3>1. UNCHANGED ps /\ job' = [job EXCEPT ![j].status = "running", ![j].resumed = b]
      BY <2>1 DEF NewJob
    <3>2. \A i \in Jobs : job[i] \in JobRecord
      BY DEF TypeInv, TypeOK
    <3>3. \A i \in Jobs : job'[i].result = job[i].result
      BY <3>1, <3>2 DEF TypeInv, TypeOK, JobRecord
    <3>4. QED
      BY <3>1, <3>3 DEF ResultsStay
  <2>4. QED
    BY <2>2, <2>3, <2>5, NothingInHand DEF LiveSteps, WorkSteps
<1>2. CASE BeginJob
  <2>1. /\ task.step = "init" /\ task' = [task EXCEPT !.step = "provider"]
        /\ UNCHANGED <<snaps, admitted>>
    BY <1>2 DEF BeginJob, Goto, durable, history
  <2>4. ResultsStay
    <3>1. /\ UNCHANGED job /\ ~job[task.job].result
          /\ ps' = [ps EXCEPT ![task.job] = [p \in Providers |-> Restored(p)]]
      BY <1>2, <2>1 DEF BeginJob, DrawnInv
    <3>2. \A i \in Jobs : i # task.job => ps'[i] = ps[i]
      BY <3>1 DEF TypeInv, TypeOK
    <3>3. QED
      BY <3>1, <3>2 DEF ResultsStay
  <2>2. task'.step = "provider" /\ task'.i = 1
    BY <1>0, <2>1, <1>2 DEF TaskRecord, KeepingInv
  <2>3. QED
    BY <2>1, <2>2, <2>4, NothingInHand DEF Over, LiveSteps, WorkSteps
<1>3. CASE FinalizeStatus \/ WriteAudit \/ AuditsWritten
  <2>1. /\ task.step \in {"provider", "audit"} /\ task'.step \in {"audit", "persist"}
        /\ task'.job = task.job /\ UNCHANGED <<ps, snaps, admitted>>
        /\ task.step = "provider" => task.i > Len(Order)
    BY <1>0, <1>3 DEF FinalizeStatus, WriteAudit, AuditsWritten, Goto, durable, history, TaskRecord
  <2>2. task.step = "provider" => task.i - 1 = Len(Order)
    BY <1>0, <2>1, ConstantTypes
  <2>3. Over(task)' = Over(task)
    BY <2>1, <2>2 DEF Over
  <2>5. ResultsStay
    <3>1. UNCHANGED job \/ \E j, st : job' = [job EXCEPT ![j].status = st]
      BY <1>3, Zenon DEF FinalizeStatus, WriteAudit, AuditsWritten
    <3>2. QED
      BY <2>1, <3>1, SameResults DEF ResultsStay
  <2>4. QED
    BY <2>1, <2>3, <2>5, StillInHand DEF LiveSteps
<1>4. CASE PersistSnapshot
  <2>1. task.step = "persist" /\ UNCHANGED <<ps, task, admitted>>
    BY <1>4 DEF PersistSnapshot, history
  <2>2. \A q \in Providers, l \in Jobs : snaps[q][l] \subseteq snaps'[q][l]
    <3>0. PICK x \in Unsaved(task.job) :
            snaps' = [snaps EXCEPT ![Order[x[1]]][ps[task.job][Order[x[1]]].run] = @ \cup {x[2]}]
      BY <1>4 DEF PersistSnapshot
    <3>1. PICK p, k, r : snaps' = [snaps EXCEPT ![p][k] = @ \cup {r}]
      BY <3>0
    <3>2. QED
      BY <3>1 DEF TypeInv, TypeOK
  <2>3. Over(task)' = Over(task)
    BY <2>1 DEF Over
  <2>4. \A r \in Records : (Saved(r) => Saved(r)') /\ (InHand(r) => InHand(r)')
    BY <2>1, <2>2 DEF Saved, InHand
  <2>6. \A r : Refused(r) => Refused(r)'
    BY <1>4, <2>1, RefusedStays DEF ResultsStay, PersistSnapshot
  <2>5. QED
    BY <2>1, <2>3, <2>4, <2>6 DEF KeepingInv, Counted
<1>5. CASE PublishResult
  <2>1. /\ task.step = "persist" /\ task.job \in Jobs /\ task'.step = "release"
        /\ UNCHANGED <<ps, snaps, admitted>> /\ Unsaved(task.job) = {}
    BY <1>0, <1>5 DEF PublishResult, Goto, durable, history, TypeInv, Control, TaskRecord
  <2>4. ResultsStay /\ job'[task.job].result
    <3>1. job' = [job EXCEPT ![task.job].result = TRUE]
      BY <1>5 DEF PublishResult
    <3>2. \A i \in Jobs : job[i] \in JobRecord
      BY DEF TypeInv, TypeOK
    <3>3. \A i \in Jobs : job'[i].result = IF i = task.job THEN TRUE ELSE job[i].result
      BY <2>1, <3>1, <3>2 DEF TypeInv, TypeOK, JobRecord
    <3>4. QED
      BY <2>1, <3>3 DEF ResultsStay
  <2>2. ASSUME NEW r \in Records, Counted(r) PROVE Saved(r) \/ Refused(r)'
    <3>1. Saved(r) \/ Refused(r) \/ \E q \in ProvidersRun : r \in ps[task.job][q].recs
      BY <2>2 DEF KeepingInv, InHand
    <3>2. CASE Dropped(task.job, r)
      <4>1. PICK j : j = task.job
        OBVIOUS
      <4>2. Dropped(j, r)'
        BY <2>1, <3>2, <4>1 DEF Dropped, ProvidersRun
      <4>3. j \in Jobs /\ job'[j].result
        BY <2>1, <2>4, <4>1
      <4>4. QED
        BY <4>2, <4>3 DEF Refused
    <3>3. QED
      BY <2>1, <2>4, <3>1, <3>2, NothingUnsaved, RefusedStays
  <2>3. QED
    BY <2>1, <2>2 DEF KeepingInv, Counted, Saved, LiveSteps, WorkSteps
<1>6. CASE ReleaseSlot
  <2>1. task.step = "release" /\ task'.step = "idle" /\ UNCHANGED <<job, ps, snaps, admitted>>
    BY <1>6 DEF ReleaseSlot, IdleTask, durable, history
  <2>2. QED
    BY <2>1, NothingInHand DEF LiveSteps, WorkSteps, ResultsStay
<1>7. QED
  BY <1>1, <1>2, <1>3, <1>4, <1>5, <1>6

\* A cancel handler changes statuses, flags and rows, never what is in hand.
LEMMA CancelStates ==
  ASSUME TypeInv, CancelStep \/ \E j \in Jobs : CancelBegin(j)
  PROVE  UNCHANGED <<task, snaps, admitted>> /\ StatesGrow
<1>1. UNCHANGED <<task, snaps, admitted>>
  BY DEF CancelStep, CancelCheck, CancelMark, CancelBuild, CancelSave, CancelReturn, CancelBegin,
     durable, history
<1>2. ASSUME NEW i \in Jobs, NEW q \in Providers
      PROVE  /\ ps'[i][q].recs = ps[i][q].recs
             /\ ps[i][q].run # NoRun => ps'[i][q].run = ps[i][q].run
  <2>1. CASE UNCHANGED ps
    BY <2>1
  <2>2. CASE CancelMark \/ CancelBuild
    <3>0. cancel.step \in {"mark", "build"} /\ cancel \in CancelRecord
      BY <2>2 DEF CancelMark, CancelBuild, TypeInv, TypeOK
    <3>1. cancel.job \in Jobs /\ CancelTarget \in Providers
      BY <3>0, ConstantTypes DEF CancelTarget, TypeInv, Control, CancelRecord
    <3>2. CASE CancelMark
      BY <3>1, <3>2 DEF CancelMark, TypeInv, TypeOK, ProviderState
    <3>3. CASE CancelBuild
      <4>1. ps' = Prepared(cancel.job, CancelTarget, TRUE)
        BY <3>3 DEF CancelBuild
      <4>2. PICK j, p, k : j = cancel.job /\ p = CancelTarget /\ k = RunOf(cancel.job, CancelTarget)
        OBVIOUS
      <4>3. ps[j][p] \in ProviderState /\ j \in Jobs /\ p \in Providers
        BY <3>1, <4>2 DEF TypeInv, TypeOK
      <4>4. ps' = [ps EXCEPT ![j][p] = [@ EXCEPT !.run = k, !.resumable = TRUE]]
        BY <4>1, <4>2, <4>3 DEF Prepared, RunOf, TypeInv, TypeOK, ProviderState
      <4>5. ps[j][p].run # NoRun => k = ps[j][p].run
        BY <4>2, <4>3, ConstantTypes DEF RunOf
      <4>6. ps'[i][q] = IF i = j /\ q = p THEN [ps[j][p] EXCEPT !.run = k, !.resumable = TRUE] ELSE ps[i][q]
        BY <4>3, <4>4 DEF TypeInv, TypeOK
      <4>7. QED
        BY <4>3, <4>5, <4>6 DEF ProviderState
    <3>4. QED
      BY <2>2, <3>2, <3>3
  <2>3. QED
    BY <2>1, <2>2 DEF CancelStep, CancelCheck, CancelSave, CancelReturn, CancelBegin
<1>3. QED
  BY <1>1, <1>2 DEF StatesGrow

LEMMA CancelKeeps ==
  ASSUME TypeInv, KeepingInv, CancelStep \/ \E j \in Jobs : CancelBegin(j)
  PROVE  KeepingInv'
<1>1. UNCHANGED <<task, snaps, admitted>> /\ StatesGrow
  BY CancelStates
<1>5. ResultsStay
  <2>1. UNCHANGED job \/ \E j \in Jobs : job' = [job EXCEPT ![j].cancelled = TRUE]
    BY DEF CancelStep, CancelCheck, CancelMark, CancelBuild, CancelSave, CancelReturn, CancelBegin
  <2>4. QED
    BY <1>1, <2>1, SameResults DEF ResultsStay, StatesGrow
<1>2. CASE task.step \in LiveSteps
  <2>1. task.job \in Jobs
    BY <1>2 DEF TypeInv, Control, LiveSteps, WorkSteps
  <2>2. Over(task)' = Over(task)
    BY <1>1 DEF Over
  <2>3. QED
    BY <1>1, <1>2, <1>5, <2>1, <2>2, StillInHand DEF StatesGrow
<1>3. CASE task.step \notin LiveSteps
  BY <1>1, <1>3, <1>5, NothingInHand DEF KeepingInv
<1>4. QED
  BY <1>2, <1>3

LEMMA DrawnFrame ==
  ASSUME DrawnInv, StatesGrow,
         \A j \in Jobs : /\ job'[j].result => job[j].result
                         /\ job'[j].status = "none" => job[j].status = "none",
         task'.step # "idle" =>
           /\ task'.job \in Jobs /\ job'[task'.job].status # "none"
           /\ task'.step # "release" => ~job[task'.job].result
  PROVE  DrawnInv'
<1>1. \A p \in ProvidersRun : p \in Providers
  BY ConstantTypes DEF ProvidersRun
<1>2. QED
  BY <1>1 DEF DrawnInv, StatesGrow, ProvidersRun

LEMMA NextDrawn ==
  ASSUME TypeInv, KeepingInv, DrawnInv, Next, ~JobFails, ~CancelFails, ~Crash
  PROVE  DrawnInv'
<1>0. \A j \in Jobs : job[j] \in JobRecord
  BY DEF TypeInv, TypeOK
<1>1. ASSUME NEW j \in Jobs, NEW old \in Jobs, Start(j) \/ Resume(j, old)
      PROVE  DrawnInv'
  <2>1. PICK b \in BOOLEAN : NewJob(j, b)
    BY <1>1 DEF Start, Resume
  <2>2. /\ job[j].status = "none" /\ UNCHANGED ps /\ task'.step = "init" /\ task'.job = j
        /\ job' = [job EXCEPT ![j] = [@ EXCEPT !.status = "running", !.resumed = b]]
    BY <1>0, <2>1 DEF NewJob, Unused, IdleTask, TypeInv, TypeOK, JobRecord
  <2>3. \A i \in Jobs : job'[i].result = job[i].result /\ (job'[i].status = "none" => job[i].status = "none")
    BY <1>0, <2>2 DEF TypeInv, TypeOK, JobRecord
  <2>4. ~job[j].result /\ job'[j].status # "none"
    BY <1>0, <2>2 DEF DrawnInv, TypeInv, TypeOK, JobRecord
  <2>5. StatesGrow
    BY <2>2 DEF StatesGrow
  <2>6. QED
    BY <2>2, <2>3, <2>4, <2>5, DrawnFrame
<1>2. CASE BeginJob
  <2>1. /\ task.step = "init" /\ task.job \in Jobs /\ task' = [task EXCEPT !.step = "provider"]
        /\ UNCHANGED job /\ \A j \in Jobs : j # task.job => ps'[j] = ps[j]
    BY <1>2 DEF BeginJob, Goto, TypeInv, TypeOK, Control
  <2>2. task'.step = "provider" /\ task'.job = task.job
    BY <2>1 DEF TypeInv, TypeOK, TaskRecord
  <2>3. QED
    BY <2>1, <2>2 DEF DrawnInv, ProvidersRun
\* Steps of the task that keep its job as it is, and its states or more.
<1>3. ASSUME StatesGrow, UNCHANGED job, task'.job = task.job, task.step \notin {"idle", "release"}
      PROVE  DrawnInv'
  <2>1. task.job \in Jobs
    BY <1>3 DEF TypeInv, Control
  <2>2. QED
    BY <1>3, <2>1, DrawnFrame DEF DrawnInv
<1>4. CASE \/ SkipCancelled \/ CarryOver \/ BeginProvider \/ LoopCancelled \/ LoopLimit \/ Request
           \/ PageNext \/ PageLast \/ PageEmpty \/ PageRepeated \/ FetchFails \/ PlanIncompatible
  BY <1>3, <1>4, WorkStates DEF LiveSteps, WorkSteps
<1>5. CASE WriteCheckpoint
  <2>1. StatesGrow
    BY <1>5, WriteStates
  <2>2. task.step = "write" /\ UNCHANGED job /\ task'.job = task.job
    BY <1>5 DEF WriteCheckpoint, TypeInv, TypeOK, TaskRecord
  <2>3. QED
    BY <1>3, <2>1, <2>2
<1>6. CASE WriteAudit \/ AuditsWritten \/ PersistSnapshot
  <2>1. UNCHANGED <<job, ps>> /\ task.step \in {"audit", "persist"} /\ task'.job = task.job
    BY <1>6 DEF WriteAudit, AuditsWritten, PersistSnapshot, Goto, TypeInv, TypeOK, TaskRecord
  <2>2. QED
    BY <1>3, <2>1 DEF StatesGrow
<1>7. CASE FinalizeStatus
  <2>1. /\ task.step = "provider" /\ task.job \in Jobs /\ UNCHANGED ps /\ task'.job = task.job
        /\ \E st \in {"cancelled", "completed"} : job' = [job EXCEPT ![task.job].status = st]
    BY <1>7 DEF FinalizeStatus, TypeInv, TypeOK, Control, TaskRecord
  <2>2. \A j \in Jobs : /\ job'[j].result = job[j].result
                        /\ job'[j].status = "none" => job[j].status = "none"
                        /\ job'[task.job].status # "none"
    BY <1>0, <2>1 DEF TypeInv, TypeOK, JobRecord
  <2>3. StatesGrow
    BY <2>1 DEF StatesGrow
  <2>4. QED
    BY <2>1, <2>2, <2>3, DrawnFrame DEF DrawnInv
<1>8. CASE PublishResult
  <2>1. /\ task.step = "persist" /\ task.job \in Jobs /\ UNCHANGED ps /\ task'.step = "release"
        /\ task'.job = task.job /\ job' = [job EXCEPT ![task.job].result = TRUE]
    BY <1>8 DEF PublishResult, Goto, TypeInv, TypeOK, Control, TaskRecord
  <2>2. \A j \in Jobs : /\ job'[j].status = job[j].status
                        /\ j # task.job => job'[j].result = job[j].result
    <3>1. ASSUME NEW j \in Jobs
          PROVE  job'[j] = IF j = task.job THEN [job[j] EXCEPT !.result = TRUE] ELSE job[j]
      BY <2>1 DEF TypeInv, TypeOK
    <3>2. QED
      BY <1>0, <3>1 DEF JobRecord
  <2>3. \A p \in ProvidersRun : ps[task.job][p].run # NoRun
    BY <2>1 DEF KeepingInv, LiveSteps, Over, ProvidersRun
  <2>4. QED
    BY <2>1, <2>2, <2>3 DEF DrawnInv, ProvidersRun
<1>9. CASE ReleaseSlot
  <2>1. UNCHANGED <<job, ps>> /\ task'.step = "idle"
    BY <1>9 DEF ReleaseSlot, IdleTask
  <2>2. QED
    BY <2>1, DrawnFrame DEF StatesGrow
<1>10. CASE CancelStep \/ \E j \in Jobs : CancelBegin(j)
  <2>1. UNCHANGED task /\ StatesGrow
    BY <1>10, CancelStates
  <2>2. UNCHANGED job \/ \E j \in Jobs : job' = [job EXCEPT ![j].cancelled = TRUE]
    BY <1>10 DEF CancelStep, CancelCheck, CancelMark, CancelBuild, CancelSave, CancelReturn, CancelBegin
  <2>3. ASSUME NEW i \in Jobs
        PROVE  job'[i].result = job[i].result /\ job'[i].status = job[i].status
    <3>1. CASE UNCHANGED job
      BY <3>1
    <3>2. ASSUME NEW j \in Jobs, job' = [job EXCEPT ![j].cancelled = TRUE]
          PROVE  job'[i].result = job[i].result /\ job'[i].status = job[i].status
      <4>1. job'[i] = IF i = j THEN [job[i] EXCEPT !.cancelled = TRUE] ELSE job[i]
        BY <3>2 DEF TypeInv, TypeOK
      <4>2. QED
        BY <1>0, <4>1 DEF JobRecord
    <3>3. QED
      BY <2>2, <3>1, <3>2
  <2>4. task.step # "idle" => task.job \in Jobs
    BY DEF TypeInv, Control
  <2>5. QED
    BY <2>1, <2>3, <2>4, DrawnFrame DEF DrawnInv
<1>11. QED
  BY <1>1, <1>2, <1>4, <1>5, <1>6, <1>7, <1>8, <1>9, <1>10 DEF Next, TaskStep

LEMMA InitKeeps == Init => KeepingInv /\ DrawnInv
BY DEF Init, KeepingInv, DrawnInv, Counted, IdleTask, LiveSteps, WorkSteps

LEMMA NextKeeps ==
  TypeInv /\ SlotInv /\ KeepingInv /\ DrawnInv /\ Unfailing /\ Unfailing' /\ [Next]_vars
    => KeepingInv' /\ DrawnInv'
<1> SUFFICES ASSUME TypeInv, SlotInv, KeepingInv, DrawnInv, Unfailing, Unfailing', [Next]_vars
             PROVE  KeepingInv' /\ DrawnInv'
  OBVIOUS
<1>1. CASE UNCHANGED vars
  <2>1. UNCHANGED <<job, ps, task, snaps, admitted>>
    BY <1>1 DEF vars
  <2>2. Over(task)' = Over(task)
    BY <2>1 DEF Over
  <2>3. QED
    BY <2>1, <2>2 DEF KeepingInv, DrawnInv, Counted, Saved, InHand, ProvidersRun, Refused, Dropped
<1>2. ~JobFails /\ ~CancelFails /\ ~Crash
  BY DEF Unfailing, JobFails, CancelFails, Crash
<1>3. TaskStep => KeepingInv'
  BY WorkKeeps, WriteKeeps, BoundaryKeeps DEF TaskStep
<1>4. ASSUME NEW j \in Jobs, Start(j) \/ \E old \in Jobs : Resume(j, old)
      PROVE  KeepingInv'
  BY <1>4, BoundaryKeeps
<1>5. CancelStep \/ (\E j \in Jobs : CancelBegin(j)) => KeepingInv'
  BY CancelKeeps
<1>6. CASE Next
  BY <1>2, <1>3, <1>4, <1>5, <1>6, NextDrawn DEF Next
<1>7. QED
  BY <1>1, <1>6

\* As long as nothing fails, a job that completed or was cancelled leaves every
\* record its runs ever counted as kept in a snapshot, whatever cancel handlers
\* do between its steps, and although the merge folds equal records into one
\* provider's: only a publication merged from several providers, which a finished
\* job found not to match the query, is in none.
THEOREM RecordsAreKept == Spec /\ []Unfailing => []FinishedJobKeepsEveryRecord
<1>1. Init => TypeInv /\ SlotInv /\ KeepingInv /\ DrawnInv
  BY InitType, InitSlot, InitKeeps
<1>2. TypeInv /\ SlotInv /\ KeepingInv /\ DrawnInv /\ Unfailing /\ Unfailing' /\ [Next]_vars
        => (TypeInv /\ SlotInv /\ KeepingInv /\ DrawnInv)'
  BY NextType, NextSlot, NextKeeps
<1>3. TypeInv /\ SlotInv /\ KeepingInv /\ DrawnInv => FinishedJobKeepsEveryRecord
  <2> SUFFICES ASSUME TypeInv, SlotInv, KeepingInv, DrawnInv, active = NoJob,
                      NEW j \in Jobs, NEW p \in ProvidersRun, NEW r \in Records,
                      job[j].result, cps[p][ps[j][p].run].job = j,
                      r \in admitted[p][ps[j][p].run]
               PROVE  \/ \E q \in Providers, k \in Jobs : r \in snaps[q][k]
                      \/ \E i \in Jobs : job[i].result /\ Dropped(i, r)
    BY DEF FinishedJobKeepsEveryRecord
  <2>1. task.step = "idle"
    BY ConstantTypes DEF SlotInv, TypeInv, Control
  <2>2. p \in Providers /\ ps[j][p].run \in Jobs
    BY ConstantTypes DEF ProvidersRun, DrawnInv, TypeInv, TypeOK, ProviderState
  <2>3. Counted(r)
    BY <2>2 DEF Counted
  <2>4. QED
    BY <2>1, <2>3 DEF KeepingInv, InHand, LiveSteps, WorkSteps, Saved, Refused
<1>4. QED
  BY <1>1, <1>2, <1>3, PTL DEF Spec

-----------------------------------------------------------------------------
(* Runs, when a search is started once, nothing fails and nothing is       *)
(* cancelled.                                                              *)

\* At most one job was started from scratch; every other one is a resume.
StartedOnce ==
  \A i, j \in Jobs :
    /\ job[i].status # "none" /\ ~job[i].resumed
    /\ job[j].status # "none" /\ ~job[j].resumed
    => i = j

\* Runs are drawn by the job that was started, never by one that resumes it: a
\* resume finds a run for each provider, as the job before it left a row for each.
SingleInv ==
  /\ \A p \in Providers, k \in Jobs :
       cps[p][k].job # NoJob => ~job[k].resumed /\ p \in ProvidersRun
  /\ task.step \in WorkSteps => ~job[State.run].resumed
  /\ task.step = "init" /\ job[task.job].resumed =>
       \A p \in ProvidersRun : source[p].run # NoRun
  /\ task.step \in LiveSteps /\ job[task.job].resumed =>
       \A p \in ProvidersRun : ps[task.job][p].run # NoRun
  /\ task.step \notin WorkSteps \cup {"provider"} =>
       \A p \in Providers, k \in Jobs :
         cps[p][k].job # NoJob =>
           \A q \in ProvidersRun : \E l \in Jobs : cps[q][l].job = cps[p][k].job

\* Steps that leave the rows, the sources and the jobs' origins alone.
LEMMA SingleFrame ==
  ASSUME TypeInv, SingleInv, StatesGrow, UNCHANGED cps, task'.job = task.job,
         \A j \in Jobs : job'[j].resumed = job[j].resumed,
         task'.step # "init",
         task'.step \in LiveSteps => task.step \in LiveSteps,
         task'.step \in WorkSteps =>
           task.step \in WorkSteps /\ task.i <= Len(Order) /\ State.run # NoRun /\ task'.i = task.i,
         task'.step \notin WorkSteps \cup {"provider"} => task.step \notin WorkSteps \cup {"provider"}
  PROVE  SingleInv'
<1>1. \A p \in ProvidersRun : p \in Providers
  BY ConstantTypes DEF ProvidersRun
<1>2. task'.step \in LiveSteps => task.job \in Jobs
  BY DEF LiveSteps, WorkSteps, TypeInv, Control
<1>3. task'.step \in WorkSteps => ~job'[State'.run].resumed
  <2> SUFFICES ASSUME task'.step \in WorkSteps PROVE ~job'[State'.run].resumed
    OBVIOUS
  <2>1. task.job \in Jobs /\ Prov \in Providers /\ State \in ProviderState
    BY StateType DEF WorkSteps
  <2>2. State'.run = State.run
    BY <2>1 DEF State, Prov, StatesGrow
  <2>3. State.run \in Jobs
    BY <2>1 DEF ProviderState
  <2>4. QED
    BY <2>2, <2>3 DEF SingleInv
<1>4. task'.step \in LiveSteps /\ job'[task'.job].resumed =>
        \A p \in ProvidersRun : ps'[task'.job][p].run # NoRun
  BY <1>1, <1>2 DEF SingleInv, StatesGrow
<1>5. QED
  BY <1>3, <1>4 DEF SingleInv, ProvidersRun

\* A resume takes up a row for each provider.
LEMMA StartSingle ==
  ASSUME TypeInv, SlotInv, UndisturbedInv, SingleInv, NEW j \in Jobs, NEW old \in Jobs,
         Start(j) \/ Resume(j, old)
  PROVE  SingleInv'
<1>1. PICK b \in BOOLEAN : NewJob(j, b) /\ (Start(j) => b = FALSE)
  BY DEF Start, Resume
<1>2. /\ job[j].status = "none" /\ UNCHANGED <<ps, cps>> /\ task'.step = "init" /\ task'.job = j
      /\ job' = [job EXCEPT ![j] = [@ EXCEPT !.status = "running", !.resumed = b]]
      /\ active = NoJob
  BY <1>1 DEF NewJob, Unused, IdleTask, durable, TypeInv, TypeOK, JobRecord
<1>3. /\ \A i \in Jobs : i # j => job'[i] = job[i]
      /\ job'[j].resumed = b
  BY <1>2 DEF TypeInv, TypeOK, JobRecord
<1>4. task.step = "idle"
  BY <1>2, ConstantTypes DEF SlotInv, TypeInv, Control
<1>5. ASSUME NEW p \in Providers, NEW k \in Jobs, cps[p][k].job # NoJob
      PROVE  ~job'[k].resumed /\ p \in ProvidersRun
  <2>1. RowOK(p, k)
    BY DEF UndisturbedInv
  <2>2. k # j
    BY <1>2, <1>5, <2>1 DEF RowOK
  <2>3. QED
    BY <1>3, <1>5, <2>2 DEF SingleInv
<1>6. ASSUME b, NEW q \in ProvidersRun
      PROVE  source'[q].run # NoRun
  <2>1. Resume(j, old)
    BY <1>1, <1>6
  <2>2. PICK p \in Providers, k \in Jobs : cps[p][k].job = old
    BY <2>1 DEF Resume
  <2>3. old # NoJob
    BY ConstantTypes
  <2>4. \E l \in Jobs : cps[q][l].job = old
    BY <1>4, <2>2, <2>3 DEF SingleInv, WorkSteps
  <2>5. q \in Providers
    BY ConstantTypes DEF ProvidersRun
  <2> DEFINE k1 == CHOOSE k1 \in Jobs : cps[q][k1].job = old
  <2>6. source'[q] = [run |-> k1, cp |-> cps[q][k1]]
    BY <2>1, <2>4, <2>5 DEF Resume
  <2>7. k1 \in Jobs
    BY <2>4
  <2> HIDE DEF k1
  <2>8. QED
    BY <2>6, <2>7, ConstantTypes
<1>7. QED
  BY <1>2, <1>3, <1>4, <1>5, <1>6 DEF SingleInv, LiveSteps, WorkSteps, ProvidersRun

\* The provider whose turn it is goes on with its run, or draws one in the job
\* that was started.
LEMMA TurnSingle ==
  ASSUME TypeInv, UndisturbedInv, SingleInv, CarryOver \/ BeginProvider
  PROVE  SingleInv'
<1>1. AtProvider
  BY DEF CarryOver, BeginProvider
<1>2. /\ task.job \in Jobs /\ task.i <= Len(Order) /\ task.step = "provider"
      /\ Prov \in Providers /\ State \in ProviderState /\ Waits(Prov, State, task.job)
  BY <1>1, TurnHasWaited
<1>3. /\ UNCHANGED job /\ StatesGrow /\ task'.job = task.job /\ UNCHANGED cps
      /\ task'.step = "write" /\ task'.i = task.i
  <2>1. UNCHANGED job /\ StatesGrow /\ task'.job = task.job
    BY WorkStates
  <2>2. UNCHANGED cps /\ \E cur, res, after : GotoWrite(cur, res, after)
    BY DEF CarryOver, BeginProvider, durable
  <2>3. task'.step = "write" /\ task'.i = task.i
    BY <2>2 DEF GotoWrite, TypeInv, TypeOK, TaskRecord
  <2>4. QED
    BY <2>1, <2>2, <2>3
<1>4. State.run # NoRun => State.run \in Jobs /\ ~job[State.run].resumed
  <2>1. State.run # NoRun => State.run \in Jobs /\ State # FreshProvider
    BY <1>2 DEF ProviderState, FreshProvider
  <2>2. QED
    BY <1>2, <2>1 DEF Waits, SingleInv
<1>5. State'.run = IF State.run = NoRun THEN task.job ELSE State.run
  <2>1. CASE CarryOver
    <3>1. State # FreshProvider
      BY <2>1 DEF CarryOver, Closed, FreshProvider
    <3>2. State.run \in Jobs /\ UNCHANGED ps
      BY <1>2, <2>1, <3>1 DEF Waits, CarryOver
    <3>3. QED
      BY <1>3, <3>2, ConstantTypes DEF State, Prov
  <2>2. CASE BeginProvider
    <3> DEFINE c == IF State.cursor = NoCursor THEN 1 ELSE State.cursor
               k == IF State.run = NoRun THEN task.job ELSE State.run
               s == [State EXCEPT !.status = "running", !.cursor = c, !.start = c, !.run = k]
    <3>1. ps' = [ps EXCEPT ![task.job][Prov] = s]
      BY <2>2 DEF BeginProvider
    <3> HIDE DEF c
    <3>2. s.run = k
      BY <1>2 DEF ProviderState
    <3> HIDE DEF s, k
    <3>3. State' = s
      BY <1>2, <1>3, <3>1 DEF State, Prov, TypeInv, TypeOK
    <3>4. QED
      BY <3>2, <3>3 DEF k
  <2>3. QED
    BY <2>1, <2>2
<1>6. ~job[State'.run].resumed
  <2>1. CASE State.run = NoRun
    <3>1. Prov \in ProvidersRun
      BY <1>2, ConstantTypes DEF Prov, ProvidersRun, TypeInv, TypeOK, TaskRecord
    <3>2. ~job[task.job].resumed
      BY <1>2, <2>1, <3>1 DEF SingleInv, LiveSteps, State
    <3>3. QED
      BY <1>5, <2>1, <3>2
  <2>2. CASE State.run # NoRun
    BY <1>4, <1>5, <2>2
  <2>3. QED
    BY <2>1, <2>2
<1>7. ASSUME NEW p \in ProvidersRun, ps[task.job][p].run # NoRun
      PROVE  ps'[task.job][p].run # NoRun
  <2>1. p \in Providers
    BY ConstantTypes DEF ProvidersRun
  <2>2. QED
    BY <1>2, <1>3, <1>7, <2>1 DEF StatesGrow
<1>8. QED
  BY <1>2, <1>3, <1>6, <1>7 DEF SingleInv, LiveSteps, WorkSteps, ProvidersRun

LEMMA WriteSingle == ASSUME TypeInv, SingleInv, WriteCheckpoint PROVE SingleInv'
<1>1. PICK j, p, k, t : j = task.job /\ p = Prov /\ k = RunOf(task.job, Prov) /\ t = task
  OBVIOUS
<1>2. /\ t.step = "write" /\ j \in Jobs /\ p \in Providers /\ p \in ProvidersRun
      /\ State \in ProviderState /\ t.after \in {"loop", "provider"} /\ UNCHANGED job
      /\ t.after = "loop" => State.run # NoRun
  <2>1. task.step = "write" /\ UNCHANGED job
    BY DEF WriteCheckpoint
  <2>2. task.job \in Jobs /\ Prov \in Providers /\ State \in ProviderState /\ task.i \in 1 .. Len(Order)
    BY <2>1, StateType
  <2>3. task.after = "loop" => State.run # NoRun
    BY <2>1 DEF TypeInv, Control
  <2>4. Prov \in ProvidersRun
    BY <2>2 DEF Prov, ProvidersRun
  <2>5. QED
    BY <1>1, <2>1, <2>2, <2>3, <2>4 DEF TypeInv, TypeOK, TaskRecord
<1>3. /\ task'.step = t.after /\ task'.job = j
      /\ task'.i = IF t.after = "provider" THEN t.i + 1 ELSE t.i
  BY <1>1 DEF WriteCheckpoint, TypeInv, TypeOK, TaskRecord
<1>4. k \in Jobs /\ (State.run # NoRun => k = State.run)
  BY <1>1, <1>2, ConstantTypes DEF RunOf, State, ProviderState
<1>5. ~job[k].resumed
  <2>1. State.run # NoRun => ~job[k].resumed
    BY <1>1, <1>2, <1>4 DEF SingleInv, WorkSteps
  <2>2. State.run = NoRun => k = j /\ ~job[j].resumed
    BY <1>1, <1>2 DEF RunOf, State, SingleInv, LiveSteps, WorkSteps
  <2>3. QED
    BY <2>1, <2>2
<1>6. \A q \in Providers, l \in Jobs : ~(q = p /\ l = k) => cps'[q][l] = cps[q][l]
  <2>1. \E row : cps' = [cps EXCEPT ![p][k] = row]
    BY <1>1 DEF WriteCheckpoint, Upsert
  <2>2. QED
    BY <1>2, <1>4, <2>1 DEF TypeInv, TypeOK
<1>7. StatesGrow
  BY WriteStates
<1>8. t.after = "loop" => State'.run = k
  <2>1. t.after = "loop" => Prov' = p
    BY <1>1, <1>3 DEF Prov
  <2>2. QED
    BY <1>1, <1>2, <1>3, <1>4, <1>7, <2>1 DEF State, StatesGrow
<1>9. \A q \in Providers, l \in Jobs : cps'[q][l].job # NoJob => ~job[l].resumed /\ q \in ProvidersRun
  BY <1>2, <1>5, <1>6 DEF SingleInv
<1>10. job[j].resumed => \A q \in ProvidersRun : ps'[j][q].run # NoRun
  <2>1. \A q \in ProvidersRun : q \in Providers
    BY ConstantTypes DEF ProvidersRun
  <2>2. QED
    BY <1>1, <1>2, <1>7, <2>1 DEF SingleInv, LiveSteps, WorkSteps, StatesGrow
<1>11. QED
  BY <1>2, <1>3, <1>5, <1>8, <1>9, <1>10 DEF SingleInv, LiveSteps, WorkSteps, ProvidersRun

\* When the last provider has had its turn, every row is the job's.
LEMMA FinalizeSingle ==
  ASSUME TypeInv, UndisturbedInv, SingleInv, StartedOnce, FinalizeStatus
  PROVE  SingleInv'
<1>1. /\ task.step = "provider" /\ task.i > Len(Order) /\ task.job \in Jobs
      /\ UNCHANGED <<ps, cps>> /\ task.i \in 1 .. Len(Order) + 1
      /\ \E st \in {"cancelled", "completed"} : job' = [job EXCEPT ![task.job].status = st]
  BY DEF FinalizeStatus, durable, TypeInv, TypeOK, TaskRecord, Control
<1>2. task'.step = "audit" /\ task'.job = task.job
  BY DEF FinalizeStatus, TypeInv, TypeOK, TaskRecord
<1>3. \A j \in Jobs : job'[j].resumed = job[j].resumed
  BY <1>1 DEF TypeInv, TypeOK, JobRecord
<1>4. ASSUME NEW p \in ProvidersRun
      PROVE  Did(p, ps[task.job][p], task.job) /\ p \in Providers
  <2>1. task.i - 1 = Len(Order)
    BY <1>1, ConstantTypes
  <2>2. p \in Over(task) /\ p \in Providers
    BY <1>1, <2>1, ConstantTypes DEF Over, ProvidersRun
  <2>3. QED
    BY <1>1, <2>2 DEF UndisturbedInv, LiveOK, LiveSteps
<1>5. ASSUME NEW p \in Providers, NEW k \in Jobs, cps[p][k].job # NoJob
      PROVE  cps[p][k].job = task.job
  <2>1. p \in ProvidersRun /\ ~job[k].resumed
    BY <1>5 DEF SingleInv
  <2>2. PICK s : s = ps[task.job][p]
    OBVIOUS
  <2>3. s.run \in Jobs /\ cps[p][s.run].job = task.job
    BY <1>4, <2>1, <2>2 DEF Did
  <2>4. ~job[s.run].resumed /\ job[s.run].status # "none" /\ job[k].status # "none"
    BY <1>1, <1>5, <2>3, ConstantTypes DEF SingleInv, UndisturbedInv, RowOK
  <2>5. s.run = k
    BY <2>1, <2>3, <2>4 DEF StartedOnce
  <2>6. QED
    BY <2>3, <2>5
<1>6. \A q \in ProvidersRun : \E l \in Jobs : cps[q][l].job = task.job
  BY <1>4 DEF Did
<1>7. \A p \in Providers, k \in Jobs : cps[p][k].job # NoJob => ~job'[k].resumed /\ p \in ProvidersRun
  BY <1>3 DEF SingleInv
<1>8. job'[task.job].resumed => \A p \in ProvidersRun : ps[task.job][p].run # NoRun
  BY <1>1, <1>3 DEF SingleInv, LiveSteps
<1>9. QED
  BY <1>1, <1>2, <1>5, <1>6, <1>7, <1>8 DEF SingleInv, LiveSteps, WorkSteps, ProvidersRun

LEMMA NextSingle ==
  ASSUME TypeInv, SlotInv, UndisturbedInv, SingleInv, StartedOnce, Uncalled, Uncalled',
         Unfailing, Unfailing', [Next]_vars
  PROVE  SingleInv'
<1>1. CASE UNCHANGED vars
  <2>1. UNCHANGED <<job, ps, task, source, cps>>
    BY <1>1 DEF vars
  <2>2. State' = State
    BY <2>1 DEF State, Prov
  <2>3. QED
    BY <2>1, <2>2 DEF SingleInv, ProvidersRun
<1>2. ~JobFails /\ ~CancelFails /\ ~Crash
  BY DEF Unfailing, JobFails, CancelFails, Crash
<1>3. ~CancelStep /\ \A j \in Jobs : ~CancelBegin(j)
  BY NoHandler DEF Uncalled
<1>4. ASSUME NEW j \in Jobs, NEW old \in Jobs, Start(j) \/ Resume(j, old)
      PROVE  SingleInv'
  BY <1>4, StartSingle
<1>5. CASE BeginJob
  <2>1. /\ task.step = "init" /\ task.job \in Jobs /\ UNCHANGED <<job, cps>>
        /\ task' = [task EXCEPT !.step = "provider"]
        /\ ps' = [ps EXCEPT ![task.job] = [p \in Providers |-> Restored(p)]]
    BY <1>5 DEF BeginJob, Goto, durable, TypeInv, Control
  <2>2. task'.step = "provider" /\ task'.job = task.job
    BY <2>1 DEF TypeInv, TypeOK, TaskRecord
  <2>3. ASSUME NEW p \in ProvidersRun, job[task.job].resumed
        PROVE  ps'[task.job][p].run # NoRun
    <3>1. p \in Providers
      BY ConstantTypes DEF ProvidersRun
    <3>2. source[p].run # NoRun /\ source[p].cp = cps[p][source[p].run]
      BY <2>1, <2>3, <3>1 DEF SingleInv, UndisturbedInv, SourceOK
    <3>3. Restored(p) = FromRow(p, source[p].run)
      BY <3>2, Zenon DEF Restored, FromRow
    <3>4. Restored(p).run = source[p].run
      BY <3>3, FromRowFields
    <3>5. ps'[task.job][p] = Restored(p)
      BY <2>1, <3>1 DEF TypeInv, TypeOK
    <3>6. QED
      BY <3>2, <3>4, <3>5
  <2>4. QED
    BY <2>1, <2>2, <2>3 DEF SingleInv, LiveSteps, WorkSteps, ProvidersRun
<1>6. CASE CarryOver \/ BeginProvider
  BY <1>6, TurnSingle
<1>7. ~SkipCancelled
  BY TurnHasWaited DEF SkipCancelled, UndisturbedInv, Uncancelled
<1>8. CASE WriteCheckpoint
  BY <1>8, WriteSingle
<1>9. CASE \/ LoopCancelled \/ LoopLimit \/ Request \/ PageNext \/ PageLast \/ PageEmpty
           \/ PageRepeated \/ FetchFails \/ PlanIncompatible
  <2>1. UNCHANGED job /\ StatesGrow /\ task'.job = task.job
    BY <1>9, WorkStates
  <2>2. task.step \in {"loop", "await"} /\ UNCHANGED cps
    BY <1>9 DEF LoopCancelled, LoopLimit, Request, PageNext, PageLast, PageEmpty, PageRepeated,
       FetchFails, PlanIncompatible, StopProvider, Receive, durable
  <2>3. task'.step \in {"write", "await"} /\ task'.i = task.i
    <3>1. \/ \E cur, res, after : GotoWrite(cur, res, after)
          \/ \E asked : task' = [task EXCEPT !.step = "await", !.asked = asked]
      BY <1>9 DEF LoopCancelled, LoopLimit, Request, PageNext, PageLast, PageEmpty, PageRepeated,
         FetchFails, PlanIncompatible, StopProvider
    <3>2. QED
      BY <3>1 DEF GotoWrite, TypeInv, TypeOK, TaskRecord
  <2>4. task.i <= Len(Order) /\ State.run # NoRun
    BY <2>2 DEF TypeInv, Control
  <2>5. QED
    BY <2>1, <2>2, <2>3, <2>4, SingleFrame DEF LiveSteps, WorkSteps
<1>10. CASE FinalizeStatus
  BY <1>10, FinalizeSingle
<1>11. CASE WriteAudit \/ AuditsWritten \/ PersistSnapshot
  <2>1. /\ UNCHANGED <<job, ps, cps>> /\ task.step \in {"audit", "persist"}
        /\ task'.step \in {"audit", "persist"} /\ task'.job = task.job
    BY <1>11 DEF WriteAudit, AuditsWritten, PersistSnapshot, Goto, durable, TypeInv, TypeOK, TaskRecord
  <2>2. StatesGrow
    BY <2>1 DEF StatesGrow
  <2>3. QED
    BY <2>1, <2>2, SingleFrame DEF LiveSteps, WorkSteps
<1>12. CASE PublishResult
  <2>1. /\ UNCHANGED <<ps, cps>> /\ task.step = "persist" /\ task'.step = "release"
        /\ task'.job = task.job /\ job' = [job EXCEPT ![task.job].result = TRUE]
    BY <1>12 DEF PublishResult, Goto, durable, TypeInv, TypeOK, TaskRecord
  <2>2. StatesGrow /\ \A j \in Jobs : job'[j].resumed = job[j].resumed
    BY <2>1 DEF StatesGrow, TypeInv, TypeOK, JobRecord
  <2>3. QED
    BY <2>1, <2>2, SingleFrame DEF LiveSteps, WorkSteps
<1>13. CASE ReleaseSlot
  <2>1. UNCHANGED <<job, cps>> /\ task.step = "release" /\ task'.step = "idle"
    BY <1>13 DEF ReleaseSlot, IdleTask, durable
  <2>2. QED
    BY <2>1 DEF SingleInv, LiveSteps, WorkSteps, ProvidersRun
<1>14. QED
  BY <1>1, <1>2, <1>3, <1>4, <1>5, <1>6, <1>7, <1>8, <1>9, <1>10, <1>11, <1>12, <1>13
     DEF Next, TaskStep

\* A search that was started once, and resumed any number of times, never opens a
\* second run for a provider, as long as nothing fails and nothing is cancelled.
\* (With a process death, or a cancel handler that writes late, it does.)
THEOREM RunsAreContinued ==
  Spec /\ []Uncalled /\ []Unfailing /\ []StartedOnce => []OneRunPerProvider
<1>1. Init => TypeInv /\ SlotInv /\ UndisturbedInv /\ SingleInv
  <2>1. Init => SingleInv
    BY DEF Init, SingleInv, IdleTask, NoCheckpoint, LiveSteps, WorkSteps
  <2>2. QED
    BY <2>1, InitType, InitSlot, InitUndisturbed
<1>2. /\ TypeInv /\ SlotInv /\ UndisturbedInv /\ SingleInv /\ StartedOnce
      /\ Uncalled /\ Uncalled' /\ Unfailing /\ Unfailing' /\ [Next]_vars
      => (TypeInv /\ SlotInv /\ UndisturbedInv /\ SingleInv)'
  BY NextType, NextSlot, NextUndisturbed, NextSingle
<1>3. UndisturbedInv /\ SingleInv /\ StartedOnce => OneRunPerProvider
  BY DEF UndisturbedInv, RowOK, SingleInv, StartedOnce, OneRunPerProvider
<1>4. QED
  BY <1>1, <1>2, <1>3, PTL DEF Spec

================================================================================
