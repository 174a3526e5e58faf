----------------------------- MODULE CorpusProofs -----------------------------
(***************************************************************************)
(* Theorems about Corpus, for every number of records, identifiers, worker *)
(* threads and calls.                                                      *)
(***************************************************************************)
EXTENDS Corpus, FiniteSetTheorems, WellFoundedInduction, TLAPS

\* What a thread holds at each of its program counters.
Held(me) ==
  /\ me.pc \in {"remove", "restore", "screenDecisions", "screenMerges",
                "screenRecheck", "screenSave"} => me.rec \in Records
  /\ me.pc \in {"decideCheck", "decideSave"} => me.group \in Groups

Control == \A w \in Workers : Held(worker[w])

TypeInv == TypeOK /\ Control

-----------------------------------------------------------------------------
(* Lemmas about the operators.                                             *)

\* A group is a set of records, and its canonical record is its oldest member.
LEMMA CanonicalIsOldest ==
  ASSUME NEW g \in Groups
  PROVE  /\ g \subseteq Records
         /\ Canonical(g) \in g
         /\ \A s \in g : Canonical(g) <= s
<1> DEFINE R == {ss \in Nat \X Nat : ss[1] < ss[2]}
<1>1. g \subseteq Records /\ g \subseteq Nat /\ g # {}
  BY CorpusAssumption DEF Groups, CorpusAssumption
<1>2. OpToRel(<, Nat) = R
  BY Zenon DEF OpToRel
<1>3. IsWellFoundedOn(R, Nat)
  BY <1>2, NatLessThanWellFounded, Zenon
<1>4. PICK r \in g : \A s \in g : <<s, r>> \notin R
  <2> HIDE DEF R
  <2>1. QED
    BY <1>1, <1>3, WFMin
<1>5. \A s \in g : r <= s
  <2> SUFFICES ASSUME NEW s \in g, ~ (r <= s) PROVE FALSE
    OBVIOUS
  <2>1. r \in Nat /\ s \in Nat
    BY <1>1
  <2>2. s < r
    BY <2>1
  <2>3. <<s, r>> \in R
    BY <2>1, <2>2
  <2>4. QED
    BY <1>4, <2>3
<1>6. QED
  BY <1>1, <1>5 DEF Canonical

\* How many records a set has is a natural number.
LEMMA CountIsNat ==
  ASSUME NEW S \in SUBSET Records
  PROVE  IsFiniteSet(S) /\ Cardinality(S) \in Nat
BY CorpusAssumption, FS_Subset, FS_CardinalityType DEF CorpusAssumption

\* Materialising the projection observes only groups.
LEMMA MaterializedType ==
  ASSUME snapshots \subseteq Groups, merges' \subseteq Groups, Materialized
  PROVE  snapshots' \subseteq Groups
BY DEF Materialized, GroupsOf

-----------------------------------------------------------------------------
(* Type correctness.                                                       *)

LEMMA IdleType == Idle \in WorkerRecord
BY DEF Idle, WorkerRecord, PCs, NoRecord

LEMMA InitType == Init => TypeInv
BY IdleType DEF Init, TypeInv, TypeOK, Control, Held, NoRow, Row, NoRecord, Idle

\* A thread that moves to a well-formed record keeps the table of threads so.
LEMMA MoveType ==
  ASSUME TypeInv, NEW w \in Workers, NEW me \in WorkerRecord, Held(me), Move(w, me)
  PROVE  worker' \in [Workers -> WorkerRecord] /\ Control'
<1>1. \A v \in Workers : worker'[v] = IF v = w THEN me ELSE worker[v]
  BY DEF TypeInv, TypeOK, Move
<1>2. QED
  BY <1>1 DEF TypeInv, TypeOK, Control, Move

\* A handler that returns needs no more than that.
LEMMA ReturnType ==
  ASSUME TypeInv, NEW w \in Workers, Return(w)
  PROVE  worker' \in [Workers -> WorkerRecord] /\ Control'
<1>1. Held(Idle)
  BY DEF Held, Idle
<1>2. QED
  BY <1>1, IdleType, MoveType DEF Return

\* Steps that change only the thread's own locals, the clock and the bound.
LEMMA LocalType ==
  ASSUME TypeInv, NEW w \in Workers, NEW me \in WorkerRecord, Held(me), Move(w, me),
         UNCHANGED <<corpus, duplicates, screened, final>>,
         clock' \in {clock, clock + 1}, calls' \in {calls, calls + 1}
  PROVE  TypeInv'
<1>1. worker' \in [Workers -> WorkerRecord] /\ Control'
  BY MoveType
<1>2. clock' \in Nat /\ calls' \in Nat
  BY DEF TypeInv, TypeOK
<1>3. QED
  BY <1>1, <1>2 DEF TypeInv, TypeOK, corpus, duplicates

LEMMA EditBeginType ==
  ASSUME TypeInv, NEW w \in Workers, NEW r \in Records, NEW pc \in {"remove", "restore"},
         EditBegin(w, r, pc)
  PROVE  TypeInv'
<1> DEFINE me == [worker[w] EXCEPT !.pc = pc, !.rec = r, !.at = clock + 1]
<1>1. worker[w] \in WorkerRecord /\ clock \in Nat
  BY DEF TypeInv, TypeOK
<1>2. me \in WorkerRecord /\ Held(me)
  <2>1. clock + 1 \in Nat /\ pc \in PCs
    BY <1>1 DEF PCs
  <2>2. me \in WorkerRecord
    BY <1>1, <2>1 DEF WorkerRecord
  <2>3. me.rec = r /\ me.pc = pc
    BY <1>1 DEF WorkerRecord
  <2>4. QED
    BY <2>2, <2>3 DEF Held
<1>3. Move(w, me) /\ clock' = clock + 1 /\ calls' = calls + 1
      /\ UNCHANGED <<corpus, duplicates, screened, final>>
  BY DEF EditBegin, Call
<1>4. QED
  <2> HIDE DEF me
  <2>1. QED
    BY <1>2, <1>3, LocalType

LEMMA DecideType ==
  ASSUME TypeInv, NEW w \in Workers,
         \/ \E g \in Groups, v \in {"approve", "reject"} : DecideFind(w, g, v)
         \/ DecideCheck(w)
  PROVE  TypeInv'
<1>1. worker[w] \in WorkerRecord /\ Held(worker[w])
  BY DEF TypeInv, TypeOK, Control
<1>2. ASSUME NEW g \in Groups, NEW v \in {"approve", "reject"}, DecideFind(w, g, v)
      PROVE  TypeInv'
  <2> DEFINE me == [worker[w] EXCEPT !.pc = "decideCheck", !.group = g, !.verdict = v]
  <2>1. me \in WorkerRecord /\ Held(me)
    BY <1>1 DEF WorkerRecord, PCs, Held
  <2>2. Move(w, me) /\ UNCHANGED <<corpus, duplicates, screened, final, clock>> /\ calls' = calls + 1
    BY <1>2 DEF DecideFind, Call
  <2>3. QED
    <3> HIDE DEF me
    <3>1. QED
      BY <2>1, <2>2, LocalType
<1>3. CASE DecideCheck(w)
  <2> DEFINE me == [worker[w] EXCEPT !.pc = "decideSave"]
  <2>1. me \in WorkerRecord /\ Held(me)
    BY <1>1, <1>3 DEF WorkerRecord, PCs, Held, DecideCheck, At
  <2>2. /\ Move(w, me) \/ Move(w, Idle)
        /\ UNCHANGED <<corpus, duplicates, screened, final, clock, calls>>
    BY <1>3 DEF DecideCheck
  <2>3. Idle \in WorkerRecord /\ Held(Idle)
    BY IdleType DEF Held, Idle
  <2>4. QED
    <3> HIDE DEF me
    <3>1. QED
      BY <2>1, <2>2, <2>3, LocalType
<1>4. QED
  BY <1>2, <1>3

LEMMA ScreenType ==
  ASSUME TypeInv, NEW w \in Workers,
         \/ \E r \in Records : ScreenRead(w, r)
         \/ ScreenDecisions(w) \/ ScreenMerges(w) \/ ScreenRecheck(w)
  PROVE  TypeInv'
<1>1. worker[w] \in WorkerRecord /\ Held(worker[w])
  BY DEF TypeInv, TypeOK, Control
<1>2. Idle \in WorkerRecord /\ Held(Idle)
  BY IdleType DEF Held, Idle
<1>3. ASSUME NEW r \in Records, ScreenRead(w, r)
      PROVE  TypeInv'
  <2> DEFINE me == [worker[w] EXCEPT !.pc = "screenDecisions", !.rec = r,
                                     !.open = GroupsOf(Active)]
  <2>1. GroupsOf(Active) \in SUBSET Groups
    BY DEF GroupsOf
  <2>2. me \in WorkerRecord /\ Held(me)
    BY <1>1, <2>1 DEF WorkerRecord, PCs, Held
  <2>3. Move(w, me) /\ UNCHANGED <<corpus, duplicates, screened, final, clock>> /\ calls' = calls + 1
    BY <1>3 DEF ScreenRead, Call
  <2>4. QED
    <3> HIDE DEF me
    <3>1. QED
      BY <2>2, <2>3, LocalType
<1>4. CASE ScreenDecisions(w)
  <2> DEFINE me == [worker[w] EXCEPT !.pc = "screenMerges", !.open = {g \in @ : decision[g] # "reject"}]
  <2>1. me \in WorkerRecord /\ Held(me)
    BY <1>1, <1>4 DEF WorkerRecord, PCs, Held, ScreenDecisions, At
  <2>2. Move(w, me) /\ UNCHANGED <<corpus, duplicates, screened, final, clock, calls>>
    BY <1>4 DEF ScreenDecisions
  <2>3. QED
    <3> HIDE DEF me
    <3>1. QED
      BY <2>1, <2>2, LocalType
<1>5. CASE ScreenMerges(w)
  <2> DEFINE me == [Idle EXCEPT !.pc = "screenRecheck", !.rec = worker[w].rec]
  <2>1. worker[w].rec \in Records
    BY <1>1, <1>5 DEF ScreenMerges, At, Held
  <2>2. me \in WorkerRecord /\ Held(me)
    BY <1>2, <2>1 DEF WorkerRecord, PCs, Held
  <2>3. /\ Move(w, me) \/ Move(w, Idle)
        /\ UNCHANGED <<corpus, duplicates, screened, final, clock, calls>>
    BY <1>5 DEF ScreenMerges
  <2>4. QED
    <3> HIDE DEF me
    <3>1. QED
      BY <1>2, <2>2, <2>3, LocalType
<1>6. CASE ScreenRecheck(w)
  <2> DEFINE me == [worker[w] EXCEPT !.pc = "screenSave"]
  <2>1. me \in WorkerRecord /\ Held(me)
    BY <1>1, <1>6 DEF WorkerRecord, PCs, Held, ScreenRecheck, At
  <2>2. /\ Move(w, me) \/ Move(w, Idle)
        /\ UNCHANGED <<corpus, duplicates, screened, final, clock, calls>>
    BY <1>6 DEF ScreenRecheck
  <2>3. QED
    <3> HIDE DEF me
    <3>1. QED
      BY <1>2, <2>1, <2>2, LocalType
<1>7. QED
  BY <1>3, <1>4, <1>5, <1>6

LEMMA FinalizeType ==
  ASSUME TypeInv, NEW w \in Workers,
         \/ RebuildBegin(w) \/ FinalizeBegin(w) \/ FinalizeRows(w)
         \/ FinalizeCount(w) \/ FinalizePrepare(w)
  PROVE  TypeInv'
<1>1. worker[w] \in WorkerRecord /\ clock \in Nat
  BY DEF TypeInv, TypeOK
<1>2. CASE RebuildBegin(w) \/ FinalizeBegin(w)
  <2>1. PICK pc \in {"rebuild", "finalizeRows"} : Move(w, [worker[w] EXCEPT !.pc = pc])
    BY <1>2 DEF RebuildBegin, FinalizeBegin
  <2> DEFINE me == [worker[w] EXCEPT !.pc = pc]
  <2>2. me \in WorkerRecord /\ Held(me)
    BY <1>1 DEF WorkerRecord, PCs, Held
  <2>3. UNCHANGED <<corpus, duplicates, screened, final, clock>> /\ calls' = calls + 1
    BY <1>2 DEF RebuildBegin, FinalizeBegin, Call
  <2>4. Move(w, me)
    BY <2>1
  <2>5. QED
    <3> HIDE DEF me
    <3>1. QED
      BY <2>2, <2>3, <2>4, LocalType
<1>3. CASE FinalizeRows(w)
  <2> DEFINE me == [worker[w] EXCEPT !.pc = "finalizeCount", !.rows = Cardinality(Present)]
  <2>1. Cardinality(Present) \in Nat
    BY CountIsNat DEF Present
  <2>2. me \in WorkerRecord /\ Held(me)
    BY <1>1, <2>1 DEF WorkerRecord, PCs, Held
  <2>3. Move(w, me) /\ UNCHANGED <<corpus, duplicates, screened, final, clock, calls>>
    BY <1>3 DEF FinalizeRows
  <2>4. QED
    <3> HIDE DEF me
    <3>1. QED
      BY <2>2, <2>3, LocalType
<1>4. CASE FinalizeCount(w)
  <2> DEFINE me == [worker[w] EXCEPT !.pc = "finalizePrepare", !.dups = Cardinality(Superseded)]
  <2>1. Cardinality(Superseded) \in Nat
    BY CountIsNat DEF Superseded
  <2>2. me \in WorkerRecord /\ Held(me)
    BY <1>1, <2>1 DEF WorkerRecord, PCs, Held
  <2>3. Move(w, me) /\ UNCHANGED <<corpus, duplicates, screened, final, clock, calls>>
    BY <1>4 DEF FinalizeCount
  <2>4. QED
    <3> HIDE DEF me
    <3>1. QED
      BY <2>2, <2>3, LocalType
<1>5. CASE FinalizePrepare(w)
  <2> DEFINE kept == {r \in Present \ Superseded : log[r].status # "removed"}
             gone == {r \in Present \ Superseded : log[r].status = "removed"}
             me == [worker[w] EXCEPT !.pc = "finalizeSave", !.at = clock + 1,
                                     !.kept = kept, !.gone = gone]
  <2>1. kept \in SUBSET Records /\ gone \in SUBSET Records
    BY DEF Present
  <2>2. clock + 1 \in Nat /\ "finalizeSave" \in PCs
    BY <1>1 DEF PCs
  <2>3. Move(w, me) /\ UNCHANGED <<corpus, duplicates, screened, final, calls>> /\ clock' = clock + 1
    BY <1>5 DEF FinalizePrepare
  <2>4. me \in WorkerRecord /\ me.pc = "finalizeSave"
    <3> HIDE DEF kept, gone
    <3>1. QED
      BY <1>1, <2>1, <2>2 DEF WorkerRecord
  <2>5. Held(me)
    BY <2>4 DEF Held
  <2>6. QED
    <3> HIDE DEF me
    <3>1. QED
      BY <2>3, <2>4, <2>5, LocalType
<1>6. QED
  BY <1>2, <1>3, <1>4, <1>5

LEMMA ImportType ==
  ASSUME TypeInv, NEW w \in Workers, NEW r \in Records, Import(w, r)
  PROVE  TypeInv'
<1> DEFINE new == [status |-> IF row[r].status = "absent" THEN "retained" ELSE row[r].status,
                   by |-> row[r].by, keys |-> Identifiers[r]]
<1>1. row[r] \in Row /\ Identifiers[r] \in SUBSET Keys
  BY CorpusAssumption DEF TypeInv, TypeOK, CorpusAssumption
<1>2. new \in Row
  BY <1>1 DEF Row
<1>3. row' = [row EXCEPT ![r] = new]
  BY DEF Import
<1> HIDE DEF new
<1>4. row' \in [Records -> Row]
  BY <1>2, <1>3 DEF TypeInv, TypeOK
<1>5. snapshots' \subseteq Groups
  BY MaterializedType DEF Import, TypeInv, TypeOK
<1>6. replaced' \subseteq Records
  BY DEF Import, TypeInv, TypeOK
<1>7. QED
  BY <1>4, <1>5, <1>6 DEF Import, TypeInv, TypeOK, Control

LEMMA MergeGroupType ==
  ASSUME TypeInv, NEW w \in Workers, NEW g \in Groups, MergeGroup(w, g)
  PROVE  TypeInv'
<1>1. Canonical(g) \in Records
  BY CanonicalIsOldest
<1>2. \A s \in Records : row[s] \in Row
  BY DEF TypeInv, TypeOK
<1>3. UNION {row[s].keys : s \in g} \in SUBSET Keys
  BY <1>2, CanonicalIsOldest DEF Row
<1>4. \A s \in Records : row'[s] \in Row
  BY <1>1, <1>2, <1>3 DEF MergeGroup, Row
<1>5. row' \in [Records -> Row]
  BY <1>4 DEF MergeGroup
<1>6. merges' \subseteq Groups /\ decision' \in [Groups -> {"none", "approve", "reject"}]
  BY DEF MergeGroup, TypeInv, TypeOK
<1>7. snapshots' \subseteq Groups
  BY <1>6, MaterializedType DEF MergeGroup, TypeInv, TypeOK
<1>8. QED
  BY <1>5, <1>6, <1>7 DEF MergeGroup, TypeInv, TypeOK, Control

LEMMA EditCommitType ==
  ASSUME TypeInv, NEW w \in Workers, RemoveCommit(w) \/ RestoreCommit(w)
  PROVE  TypeInv'
<1>1. worker[w] \in WorkerRecord /\ worker[w].rec \in Records
  BY DEF TypeInv, TypeOK, Control, Held, RemoveCommit, RestoreCommit, At
<1>2. worker' \in [Workers -> WorkerRecord] /\ Control'
  BY ReturnType DEF RemoveCommit, RestoreCommit
<1>3. PICK status \in {"retained", "removed"} :
        row' = [row EXCEPT ![worker[w].rec].status = status] /\ Logged(w, status)
  BY DEF RemoveCommit, RestoreCommit
<1>4. row' \in [Records -> Row]
  <2>1. row \in [Records -> Row]
    BY DEF TypeInv, TypeOK
  <2>2. [row[worker[w].rec] EXCEPT !.status = status] \in Row
    BY <1>1, <2>1 DEF Row
  <2>3. row' = [row EXCEPT ![worker[w].rec] = [row[worker[w].rec] EXCEPT !.status = status]]
    BY <1>3
  <2>4. QED
    BY <2>1, <2>2, <2>3
<1>5. log' \in [Records -> [status : {"none", "retained", "removed"}, at : Nat]]
  <2>1. [status |-> status, at |-> worker[w].at] \in [status : {"none", "retained", "removed"}, at : Nat]
    BY <1>1 DEF WorkerRecord
  <2>2. QED
    BY <1>1, <1>3, <2>1 DEF Logged, TypeInv, TypeOK
<1>6. archive' \subseteq Records /\ UNCHANGED <<decision, merges>>
  BY <1>1 DEF RemoveCommit, RestoreCommit, TypeInv, TypeOK
<1>7. snapshots' \subseteq Groups
  BY <1>6, MaterializedType DEF RemoveCommit, RestoreCommit, TypeInv, TypeOK
<1>8. UNCHANGED <<screened, final, clock, calls, replaced>>
  BY DEF RemoveCommit, RestoreCommit
<1>9. QED
  BY <1>2, <1>4, <1>5, <1>6, <1>7, <1>8 DEF TypeInv, TypeOK

LEMMA SaveType ==
  ASSUME TypeInv, NEW w \in Workers,
         DecideSave(w) \/ RebuildCommit(w) \/ ScreenSave(w) \/ FinalizeSave(w)
  PROVE  TypeInv'
<1>1. worker[w] \in WorkerRecord /\ Held(worker[w])
  BY DEF TypeInv, TypeOK, Control
<1>2. worker' \in [Workers -> WorkerRecord] /\ Control'
  BY ReturnType DEF DecideSave, RebuildCommit, ScreenSave, FinalizeSave
<1>3. CASE DecideSave(w)
  <2>1. decision' \in [Groups -> {"none", "approve", "reject"}]
    BY <1>1, <1>3 DEF DecideSave, WorkerRecord, TypeInv, TypeOK
  <2>2. QED
    BY <1>2, <1>3, <2>1 DEF DecideSave, TypeInv, TypeOK, corpus
<1>4. CASE RebuildCommit(w)
  <2>1. merges' \subseteq Groups /\ decision' \in [Groups -> {"none", "approve", "reject"}]
    BY <1>4 DEF RebuildCommit, TypeInv, TypeOK
  <2>2. snapshots' \subseteq Groups
    BY <1>4, <2>1, MaterializedType DEF RebuildCommit, TypeInv, TypeOK
  <2>3. QED
    BY <1>2, <1>4, <2>1, <2>2 DEF RebuildCommit, TypeInv, TypeOK, corpus
<1>5. CASE ScreenSave(w)
  <2>1. screened' \subseteq Records
    BY <1>1, <1>5 DEF ScreenSave, At, Held, TypeInv, TypeOK
  <2>2. QED
    BY <1>2, <1>5, <2>1 DEF ScreenSave, TypeInv, TypeOK, corpus, duplicates
<1>6. CASE FinalizeSave(w)
  <2>1. final' \in [count : Nat, at : Nat, admitted : SUBSET Records]
    BY <1>1, <1>6 DEF FinalizeSave, WorkerRecord, TypeInv, TypeOK
  <2>2. QED
    BY <1>2, <1>6, <2>1 DEF FinalizeSave, TypeInv, TypeOK, corpus, duplicates
<1>7. QED
  BY <1>3, <1>4, <1>5, <1>6

LEMMA NextType == TypeInv /\ [Next]_vars => TypeInv'
<1> SUFFICES ASSUME TypeInv, [Next]_vars PROVE TypeInv'
  OBVIOUS
<1>1. CASE UNCHANGED vars
  BY <1>1 DEF vars, TypeInv, TypeOK, Control
<1>2. CASE Next
  BY <1>2, ImportType, MergeGroupType, EditBeginType, EditCommitType, DecideType, ScreenType,
     FinalizeType, SaveType DEF Next
<1>3. QED
  BY <1>1, <1>2

\* Every reachable state is well formed, whatever the handlers' interleaving.
THEOREM TypeCorrect == Spec => []TypeOK
<1>1. TypeInv => TypeOK
  BY DEF TypeInv
<1>2. Spec => []TypeInv
  BY InitType, NextType, PTL DEF Spec
<1>3. QED
  BY <1>1, <1>2, PTL

-----------------------------------------------------------------------------
(* Which steps touch what.                                                 *)

\* The steps that leave every table alone.
Local(w) ==
  \/ \E r \in Records, pc \in {"remove", "restore"} : EditBegin(w, r, pc)
  \/ \E g \in Groups, v \in {"approve", "reject"} : DecideFind(w, g, v)
  \/ DecideCheck(w) \/ RebuildBegin(w)
  \/ \E r \in Records : ScreenRead(w, r)
  \/ ScreenDecisions(w) \/ ScreenMerges(w) \/ ScreenRecheck(w)
  \/ FinalizeBegin(w) \/ FinalizeRows(w) \/ FinalizeCount(w) \/ FinalizePrepare(w)

\* What w does, written out.
StepOf(w) ==
  \/ Local(w)
  \/ \E r \in Records : Import(w, r)
  \/ \E g \in Groups : MergeGroup(w, g)
  \/ RemoveCommit(w) \/ RestoreCommit(w) \/ DecideSave(w)
  \/ RebuildCommit(w) \/ ScreenSave(w) \/ FinalizeSave(w)

\* A step of Next is local to a thread, or one of the eight that write a table.
LEMMA NextKinds ==
  ASSUME Next
  PROVE  \E w \in Workers : StepOf(w)
BY DEF Next, StepOf, Local

\* A step of one thread leaves the locals of the others alone.
LEMMA OthersKeep ==
  ASSUME TypeInv, NEW w \in Workers, StepOf(w), NEW v \in Workers, v # w
  PROVE  worker'[v] = worker[v]
<1>1. worker' = worker \/ \E me : Move(w, me)
  BY DEF StepOf, Local, Import, MergeGroup, RemoveCommit, RestoreCommit, DecideSave,
     RebuildCommit, ScreenSave, FinalizeSave, EditBegin, DecideFind, DecideCheck, RebuildBegin,
     ScreenRead, ScreenDecisions, ScreenMerges, ScreenRecheck, FinalizeBegin, FinalizeRows,
     FinalizeCount, FinalizePrepare, Return
<1>2. QED
  BY <1>1 DEF Move, TypeInv, TypeOK

\* What a thread holds after each of its local steps.
LEMMA LocalAfter ==
  ASSUME TypeInv, NEW w \in Workers
  PROVE  /\ \A r \in Records, pc \in {"remove", "restore"} : EditBegin(w, r, pc) =>
              worker'[w].pc = pc /\ worker'[w].rec = r /\ worker'[w].at = clock + 1
         /\ \A g \in Groups, v \in {"approve", "reject"} : DecideFind(w, g, v) =>
              worker'[w].pc = "decideCheck" /\ worker'[w].group = g
         /\ DecideCheck(w) =>
              \/ worker'[w] = Idle
              \/ /\ worker'[w].pc = "decideSave" /\ worker'[w].group = worker[w].group
                 /\ worker[w].group \notin merges
         /\ RebuildBegin(w) => worker'[w].pc = "rebuild"
         /\ FinalizeBegin(w) => worker'[w].pc = "finalizeRows"
<1>1. worker \in [Workers -> WorkerRecord] /\ worker[w] \in WorkerRecord
  BY DEF TypeInv, TypeOK
<1>2. ASSUME NEW r \in Records, NEW pc \in {"remove", "restore"}, EditBegin(w, r, pc)
      PROVE  worker'[w].pc = pc /\ worker'[w].rec = r /\ worker'[w].at = clock + 1
  BY <1>1, <1>2 DEF EditBegin, Move, WorkerRecord
<1>3. ASSUME NEW g \in Groups, NEW v \in {"approve", "reject"}, DecideFind(w, g, v)
      PROVE  worker'[w].pc = "decideCheck" /\ worker'[w].group = g
  BY <1>1, <1>3 DEF DecideFind, Move, WorkerRecord
<1>4. ASSUME DecideCheck(w)
      PROVE  \/ worker'[w] = Idle
             \/ /\ worker'[w].pc = "decideSave" /\ worker'[w].group = worker[w].group
                /\ worker[w].group \notin merges
  BY <1>1, <1>4 DEF DecideCheck, Move, WorkerRecord
<1>5. RebuildBegin(w) => worker'[w].pc = "rebuild"
  BY <1>1 DEF RebuildBegin, Move, WorkerRecord
<1>6. FinalizeBegin(w) => worker'[w].pc = "finalizeRows"
  BY <1>1 DEF FinalizeBegin, Move, WorkerRecord
<1>7. QED
  BY <1>2, <1>3, <1>4, <1>5, <1>6

LEMMA ScreenAfter ==
  ASSUME TypeInv, NEW w \in Workers
  PROVE  /\ \A r \in Records : ScreenRead(w, r) =>
              /\ worker'[w].pc = "screenDecisions" /\ worker'[w].rec = r
              /\ worker'[w].open = GroupsOf(Active)
         /\ ScreenDecisions(w) =>
              /\ worker'[w].pc = "screenMerges" /\ worker'[w].rec = worker[w].rec
              /\ worker'[w].open = {g \in worker[w].open : decision[g] # "reject"}
         /\ ScreenMerges(w) =>
              \/ worker'[w] = Idle
              \/ /\ worker'[w].pc = "screenRecheck" /\ worker'[w].rec = worker[w].rec
                 /\ worker[w].open \subseteq merges
         /\ ScreenRecheck(w) =>
              \/ worker'[w] = Idle
              \/ /\ worker'[w].pc = "screenSave" /\ worker'[w].rec = worker[w].rec
                 /\ worker[w].rec \in Active
<1>1. worker \in [Workers -> WorkerRecord] /\ worker[w] \in WorkerRecord
  BY DEF TypeInv, TypeOK
<1>2. ASSUME NEW r \in Records, ScreenRead(w, r)
      PROVE  /\ worker'[w].pc = "screenDecisions" /\ worker'[w].rec = r
             /\ worker'[w].open = GroupsOf(Active)
  BY <1>1, <1>2 DEF ScreenRead, Move, WorkerRecord
<1>3. ASSUME ScreenDecisions(w)
      PROVE  /\ worker'[w].pc = "screenMerges" /\ worker'[w].rec = worker[w].rec
             /\ worker'[w].open = {g \in worker[w].open : decision[g] # "reject"}
  BY <1>1, <1>3 DEF ScreenDecisions, Move, WorkerRecord
<1>4. ASSUME ScreenMerges(w)
      PROVE  \/ worker'[w] = Idle
             \/ /\ worker'[w].pc = "screenRecheck" /\ worker'[w].rec = worker[w].rec
                /\ worker[w].open \subseteq merges
  BY <1>1, <1>4 DEF ScreenMerges, Move, Idle
<1>5. ASSUME ScreenRecheck(w)
      PROVE  \/ worker'[w] = Idle
             \/ /\ worker'[w].pc = "screenSave" /\ worker'[w].rec = worker[w].rec
                /\ worker[w].rec \in Active
  BY <1>1, <1>5 DEF ScreenRecheck, Move, WorkerRecord
<1>6. QED
  BY <1>2, <1>3, <1>4, <1>5

LEMMA FinalizeAfter ==
  ASSUME TypeInv, NEW w \in Workers
  PROVE  /\ FinalizeRows(w) =>
              worker'[w].pc = "finalizeCount" /\ worker'[w].rows = Cardinality(Present)
         /\ FinalizeCount(w) =>
              /\ worker'[w].pc = "finalizePrepare" /\ worker'[w].rows = worker[w].rows
              /\ worker'[w].dups = Cardinality(Superseded)
         /\ FinalizePrepare(w) =>
              /\ worker'[w].pc = "finalizeSave" /\ worker'[w].at = clock + 1
              /\ worker'[w].kept = {r \in Present \ Superseded : log[r].status # "removed"}
<1>1. worker \in [Workers -> WorkerRecord] /\ worker[w] \in WorkerRecord
  BY DEF TypeInv, TypeOK
<1>2. ASSUME FinalizeRows(w)
      PROVE  worker'[w].pc = "finalizeCount" /\ worker'[w].rows = Cardinality(Present)
  BY <1>1, <1>2 DEF FinalizeRows, Move, WorkerRecord
<1>3. ASSUME FinalizeCount(w)
      PROVE  /\ worker'[w].pc = "finalizePrepare" /\ worker'[w].rows = worker[w].rows
             /\ worker'[w].dups = Cardinality(Superseded)
  BY <1>1, <1>3 DEF FinalizeCount, Move, WorkerRecord
<1>4. ASSUME FinalizePrepare(w)
      PROVE  /\ worker'[w].pc = "finalizeSave" /\ worker'[w].at = clock + 1
             /\ worker'[w].kept = {r \in Present \ Superseded : log[r].status # "removed"}
  BY <1>1, <1>4 DEF FinalizePrepare, Move, WorkerRecord
<1>5. QED
  BY <1>2, <1>3, <1>4

\* A handler that commits returns; an import or a merge has no locals.
LEMMA CommitAfter ==
  ASSUME TypeInv, NEW w \in Workers
  PROVE  /\ RemoveCommit(w) \/ RestoreCommit(w) \/ DecideSave(w) \/ RebuildCommit(w)
              \/ ScreenSave(w) \/ FinalizeSave(w) => worker'[w] = Idle
         /\ (\E r \in Records : Import(w, r)) \/ (\E g \in Groups : MergeGroup(w, g))
              => worker' = worker
BY DEF TypeInv, TypeOK, RemoveCommit, RestoreCommit, DecideSave, RebuildCommit, ScreenSave,
   FinalizeSave, Import, MergeGroup, Return, Move

LEMMA LocalFrame ==
  ASSUME NEW w \in Workers, Local(w)
  PROVE  UNCHANGED <<corpus, duplicates, screened, final>>
BY DEF Local, EditBegin, DecideFind, DecideCheck, RebuildBegin, ScreenRead, ScreenDecisions,
   ScreenMerges, ScreenRecheck, FinalizeBegin, FinalizeRows, FinalizeCount, FinalizePrepare,
   corpus, duplicates

\* Only four steps write publication rows.
LEMMA RowSteps ==
  ASSUME [Next]_vars
  PROVE  \/ UNCHANGED <<row, archive, replaced>>
         \/ \E w \in Workers, r \in Records : Import(w, r)
         \/ \E w \in Workers, g \in Groups : MergeGroup(w, g)
         \/ \E w \in Workers : RemoveCommit(w) \/ RestoreCommit(w)
<1>1. CASE UNCHANGED vars
  BY <1>1 DEF vars
<1>2. ASSUME NEW w \in Workers,
             Local(w) \/ DecideSave(w) \/ RebuildCommit(w) \/ ScreenSave(w) \/ FinalizeSave(w)
      PROVE  UNCHANGED <<row, archive, replaced>>
  BY <1>2, LocalFrame DEF DecideSave, RebuildCommit, ScreenSave, FinalizeSave, corpus
<1>3. QED
  BY <1>1, <1>2, NextKinds DEF StepOf

-----------------------------------------------------------------------------
(* Superseded records.                                                     *)

\* A handler that is about to edit a record has seen its row, and no row goes.
EditorsInv ==
  \A w \in Workers : worker[w].pc \in {"remove", "restore"} => row[worker[w].rec].status # "absent"

LEMMA RowsStay ==
  ASSUME TypeInv, [Next]_vars, NEW r \in Records, row[r].status # "absent"
  PROVE  row'[r].status # "absent"
<1>1. \A s \in Records : row[s] \in Row
  BY DEF TypeInv, TypeOK
<1>2. CASE UNCHANGED <<row, archive, replaced>>
  BY <1>2
<1>3. ASSUME NEW w \in Workers, NEW s \in Records, Import(w, s)
      PROVE  row'[r].status # "absent"
  BY <1>3 DEF Import, TypeInv, TypeOK
<1>4. ASSUME NEW w \in Workers, NEW g \in Groups, MergeGroup(w, g)
      PROVE  row'[r].status # "absent"
  <2>1. \/ row'[r] = row[r]
        \/ row'[r] = [row[r] EXCEPT !.keys = UNION {row[s].keys : s \in g}]
        \/ row'[r] = [row[r] EXCEPT !.by = Canonical(g)]
    BY <1>4 DEF MergeGroup
  <2>2. QED
    BY <1>1, <2>1 DEF Row
<1>5. ASSUME NEW w \in Workers, RemoveCommit(w) \/ RestoreCommit(w)
      PROVE  row'[r].status # "absent"
  <2>1. PICK status \in {"retained", "removed"} : row' = [row EXCEPT ![worker[w].rec].status = status]
    BY <1>5 DEF RemoveCommit, RestoreCommit
  <2>2. row'[r].status \in {row[r].status, status}
    BY <1>1, <2>1 DEF TypeInv, TypeOK, Row
  <2>3. QED
    BY <2>2
<1>6. QED
  BY <1>2, <1>3, <1>4, <1>5, RowSteps

LEMMA EditorsHold ==
  ASSUME TypeInv, EditorsInv, [Next]_vars, NEW v \in Workers, worker'[v].pc \in {"remove", "restore"}
  PROVE  row'[worker'[v].rec].status # "absent"
<1>1. /\ worker \in [Workers -> WorkerRecord]
      /\ worker[v].pc \in {"remove", "restore"} =>
           worker[v].rec \in Records /\ row[worker[v].rec].status # "absent"
  BY DEF TypeInv, TypeOK, Control, Held, EditorsInv
<1>2. CASE worker'[v] = worker[v]
  BY <1>1, <1>2, RowsStay
<1>3. CASE UNCHANGED vars
  BY <1>2, <1>3 DEF vars
<1>4. ASSUME NEW w \in Workers, w # v, StepOf(w)
      PROVE  worker'[v] = worker[v]
  BY <1>4, OthersKeep
<1>5. CASE StepOf(v)
  <2>1. CASE Local(v)
    <3>1. ASSUME NEW r \in Records, NEW pc \in {"remove", "restore"}, EditBegin(v, r, pc)
          PROVE  row'[worker'[v].rec].status # "absent"
      <4>1. worker'[v].rec = r
        BY <3>1, LocalAfter
      <4>2. row' = row /\ row[r].status # "absent"
        BY <3>1 DEF EditBegin, Present, corpus
      <4>3. QED
        BY <4>1, <4>2
    <3>2. QED
      BY <2>1, <3>1, LocalAfter, ScreenAfter, FinalizeAfter DEF Local, Idle
  <2>2. CASE \/ RemoveCommit(v) \/ RestoreCommit(v) \/ DecideSave(v)
             \/ RebuildCommit(v) \/ ScreenSave(v) \/ FinalizeSave(v)
    BY <2>2, CommitAfter DEF Idle
  <2>3. CASE (\E r \in Records : Import(v, r)) \/ (\E g \in Groups : MergeGroup(v, g))
    BY <1>2, <2>3, CommitAfter
  <2>4. QED
    BY <1>5, <2>1, <2>2, <2>3 DEF StepOf
<1>6. QED
  BY <1>2, <1>3, <1>4, <1>5, NextKinds

\* Every record carries its own identifiers, so that an import takes nothing
\* from it but what merges gave it.  The record that stands for a superseded one
\* exists, is older, and carries its identifiers until it is replaced.
SupersededInv ==
  /\ \A r \in Records : /\ row[r].status = "absent" => row[r].by = NoRecord
                        /\ row[r].status # "absent" => Identifiers[r] \subseteq row[r].keys
  /\ \A r \in Superseded :
       /\ row[r].by \in Records /\ row[r].by < r
       /\ row[row[r].by].status # "absent"
       /\ row[r].by \notin replaced => row[r].keys \subseteq row[row[r].by].keys

LEMMA ImportSuperseded ==
  ASSUME TypeInv, SupersededInv, NEW w \in Workers, NEW r \in Records, Import(w, r)
  PROVE  SupersededInv'
<1>1. \A s \in Records : s # r => row'[s] = row[s]
  BY DEF Import, TypeInv, TypeOK
<1>2. /\ row'[r].by = row[r].by /\ row'[r].keys = Identifiers[r] /\ row'[r].status # "absent"
      /\ row[r].status # "absent" => r \in replaced'
      /\ replaced \subseteq replaced'
  BY DEF Import, TypeInv, TypeOK, Present
<1>3. ASSUME NEW s \in Records, row'[s].by # NoRecord
      PROVE  /\ row'[s].by \in Records /\ row'[s].by < s
             /\ row'[row'[s].by].status # "absent"
             /\ row'[s].by \notin replaced' => row'[s].keys \subseteq row'[row'[s].by].keys
  <2>1. s \in Superseded /\ row'[s].by = row[s].by /\ row[s].status # "absent"
    BY <1>1, <1>2, <1>3 DEF Superseded, SupersededInv
  <2>2. row'[s].keys \subseteq row[s].keys
    BY <1>1, <1>2, <2>1 DEF SupersededInv
  <2>3. row[s].by \in Records /\ row[s].by < s /\ row[row[s].by].status # "absent"
    BY <2>1 DEF SupersededInv
  <2>4. CASE row[s].by = r
    BY <1>2, <2>1, <2>3, <2>4
  <2>5. CASE row[s].by # r
    BY <1>1, <1>2, <2>1, <2>2, <2>3, <2>5 DEF SupersededInv
  <2>6. QED
    BY <2>4, <2>5
<1>4. ASSUME NEW s \in Records
      PROVE  /\ row'[s].status = "absent" => row'[s].by = NoRecord
             /\ row'[s].status # "absent" => Identifiers[s] \subseteq row'[s].keys
  BY <1>1, <1>2 DEF SupersededInv
<1>5. QED
  BY <1>3, <1>4 DEF SupersededInv, Superseded

LEMMA MergeGroupSuperseded ==
  ASSUME TypeInv, SupersededInv, NEW w \in Workers, NEW g \in Groups, MergeGroup(w, g)
  PROVE  SupersededInv'
<1> DEFINE c == Canonical(g)
<1>1. g \subseteq Records /\ c \in g /\ \A s \in g : c <= s
  BY CanonicalIsOldest
<1>2. \A s \in g : row[s].status = "retained" /\ row[s].by = NoRecord
  BY DEF MergeGroup, GroupsOf, Active
<1>3. \A s \in Records : row[s] \in Row
  BY DEF TypeInv, TypeOK
<1>4. \A s \in Records : s \notin g => row'[s] = row[s]
  BY DEF MergeGroup
<1>5. \A s \in g : s # c => row'[s] = [row[s] EXCEPT !.by = c]
  BY <1>1 DEF MergeGroup
<1>6. row'[c] = [row[c] EXCEPT !.keys = UNION {row[s].keys : s \in g}]
  BY <1>1 DEF MergeGroup
<1> HIDE DEF c
<1>7. \A s \in g : row[s].keys \subseteq row'[c].keys
  BY <1>1, <1>3, <1>6 DEF Row
<1>8. \A s \in Records : /\ row'[s].status = row[s].status
                         /\ row[s].keys \subseteq row'[s].keys
                         /\ s # c => row'[s].keys = row[s].keys
  <2> SUFFICES ASSUME NEW s \in Records
               PROVE  /\ row'[s].status = row[s].status
                      /\ row[s].keys \subseteq row'[s].keys
                      /\ s # c => row'[s].keys = row[s].keys
    OBVIOUS
  <2>1. CASE s \notin g
    BY <1>4, <2>1
  <2>2. CASE s \in g /\ s # c
    BY <1>3, <1>5, <2>2 DEF Row
  <2>3. CASE s = c
    BY <1>1, <1>3, <1>6, <1>7, <2>3 DEF Row
  <2>4. QED
    BY <2>1, <2>2, <2>3
<1>9. ASSUME NEW r \in Records, row'[r].by # NoRecord
      PROVE  /\ row'[r].by \in Records /\ row'[r].by < r
             /\ row'[row'[r].by].status # "absent"
             /\ row'[r].by \notin replaced' => row'[r].keys \subseteq row'[row'[r].by].keys
  <2>1. r # c
    BY <1>1, <1>2, <1>3, <1>6, <1>9 DEF Row
  <2>2. CASE r \in g
    <3>1. row'[r].by = c
      BY <1>1, <1>3, <1>5, <2>1, <2>2 DEF Row
    <3>2. c \in Nat /\ r \in Nat /\ c <= r
      BY <1>1, <2>2, CorpusAssumption DEF CorpusAssumption
    <3>3. QED
      BY <1>1, <1>2, <1>8, <1>7, <2>1, <2>2, <3>1, <3>2
  <2>3. CASE r \notin g
    <3>1. row'[r] = row[r] /\ r \in Superseded
      BY <1>4, <1>9, <2>3 DEF Superseded
    <3>2. replaced' = replaced
      BY DEF MergeGroup
    <3>3. QED
      BY <1>8, <3>1, <3>2 DEF SupersededInv
  <2>4. QED
    BY <2>2, <2>3
<1>10. ASSUME NEW s \in Records
       PROVE  /\ row'[s].status = "absent" => row'[s].by = NoRecord
              /\ row'[s].status # "absent" => Identifiers[s] \subseteq row'[s].keys
  <2>1. CASE s \in g
    BY <1>2, <1>8, <2>1 DEF SupersededInv
  <2>2. CASE s \notin g
    BY <1>4, <2>2 DEF SupersededInv
  <2>3. QED
    BY <2>1, <2>2
<1>11. QED
  BY <1>9, <1>10 DEF SupersededInv, Superseded

LEMMA EditCommitSuperseded ==
  ASSUME TypeInv, EditorsInv, SupersededInv, NEW w \in Workers, RemoveCommit(w) \/ RestoreCommit(w)
  PROVE  SupersededInv'
<1>1. PICK status \in {"retained", "removed"} : row' = [row EXCEPT ![worker[w].rec].status = status]
  BY DEF RemoveCommit, RestoreCommit
<1>2. \A s \in Records : row[s] \in Row
  BY DEF TypeInv, TypeOK
<1>3. \A s \in Records : /\ row'[s].by = row[s].by /\ row'[s].keys = row[s].keys
                         /\ row'[s].status \in {row[s].status, status}
  BY <1>1, <1>2 DEF TypeInv, TypeOK, Row
<1>4. replaced' = replaced /\ row[worker[w].rec].status # "absent" /\ status # "absent"
  BY DEF RemoveCommit, RestoreCommit, At, EditorsInv
<1>5. \A s \in Records : row'[s].status = "absent" <=> row[s].status = "absent"
  BY <1>1, <1>2, <1>4 DEF TypeInv, TypeOK, Row
<1>6. QED
  BY <1>3, <1>4, <1>5 DEF SupersededInv, Superseded

\* No chain of merges, removals, restorations and first imports loses an
\* identifier of a merged record, and none at all makes a record stand for
\* itself or for an older one; only importing the canonical again does the first
\* (repositories/project_publication_repository.py).
THEOREM MergedRecordsAreCovered == Spec => []CanonicalStandsForMerged
<1>1. SupersededInv => CanonicalStandsForMerged
  BY DEF SupersededInv, CanonicalStandsForMerged
<1>2. Init => TypeInv /\ EditorsInv /\ SupersededInv
  BY InitType DEF Init, EditorsInv, Idle, SupersededInv, Superseded, NoRow
<1>3. TypeInv /\ EditorsInv /\ [Next]_vars => (TypeInv /\ EditorsInv)'
  BY NextType, EditorsHold DEF EditorsInv
<1>4. TypeInv /\ EditorsInv /\ SupersededInv /\ [Next]_vars => SupersededInv'
  <2> SUFFICES ASSUME TypeInv, EditorsInv, SupersededInv, [Next]_vars PROVE SupersededInv'
    OBVIOUS
  <2>1. CASE UNCHANGED <<row, archive, replaced>>
    BY <2>1 DEF SupersededInv, Superseded
  <2>2. QED
    BY <2>1, RowSteps, ImportSuperseded, MergeGroupSuperseded, EditCommitSuperseded
<1>5. Spec => [](TypeInv /\ EditorsInv /\ SupersededInv)
  BY <1>2, <1>3, <1>4, PTL DEF Spec
<1>6. QED
  BY <1>1, <1>5, PTL

-----------------------------------------------------------------------------
(* The archive.                                                            *)

LEMMA NextArchive ==
  ASSUME TypeInv, ArchiveMirrorsStatus, [Next]_vars
  PROVE  ArchiveMirrorsStatus'
<1>1. CASE UNCHANGED <<row, archive>>
  BY <1>1 DEF ArchiveMirrorsStatus, Removed
<1>2. ASSUME NEW w \in Workers, NEW r \in Records, Import(w, r)
      PROVE  ArchiveMirrorsStatus'
  <2>1. \A s \in Records : row'[s].status = "removed" <=> row[s].status = "removed"
    BY <1>2 DEF Import, NoRow, TypeInv, TypeOK
  <2>2. archive' = archive
    BY <1>2 DEF Import
  <2>3. QED
    BY <2>1, <2>2 DEF ArchiveMirrorsStatus, Removed
<1>3. ASSUME NEW w \in Workers, NEW g \in Groups, MergeGroup(w, g)
      PROVE  ArchiveMirrorsStatus'
  <2>1. \A s \in Records : row'[s].status = row[s].status
    BY <1>3 DEF MergeGroup, TypeInv, TypeOK, Row
  <2>2. archive' = archive
    BY <1>3 DEF MergeGroup
  <2>3. QED
    BY <2>1, <2>2 DEF ArchiveMirrorsStatus, Removed
<1>4. ASSUME NEW w \in Workers, RemoveCommit(w) \/ RestoreCommit(w)
      PROVE  ArchiveMirrorsStatus'
  <2>1. worker[w].rec \in Records
    BY <1>4 DEF RemoveCommit, RestoreCommit, At, TypeInv, Control, Held
  <2>2. \A s \in Records : row[s] \in Row
    BY DEF TypeInv, TypeOK
  <2>3. CASE RemoveCommit(w)
    <3>1. Removed' = Removed \cup {worker[w].rec}
      BY <2>1, <2>2, <2>3 DEF RemoveCommit, Removed, TypeInv, TypeOK, Row
    <3>2. QED
      BY <2>3, <3>1 DEF RemoveCommit, ArchiveMirrorsStatus
  <2>4. CASE RestoreCommit(w)
    <3>1. Removed' = Removed \ {worker[w].rec}
      BY <2>1, <2>2, <2>4 DEF RestoreCommit, Removed, TypeInv, TypeOK, Row
    <3>2. QED
      BY <2>4, <3>1 DEF RestoreCommit, ArchiveMirrorsStatus
  <2>5. QED
    BY <1>4, <2>3, <2>4
<1>5. QED
  BY <1>1, <1>2, <1>3, <1>4, RowSteps

\* However removals and restorations of the same record interleave, the
\* archive and the row status never part.
THEOREM ArchiveIsExact == Spec => []ArchiveMirrorsStatus
<1>1. Init => TypeInv /\ ArchiveMirrorsStatus
  BY InitType DEF Init, ArchiveMirrorsStatus, Removed, NoRow
<1>2. TypeInv /\ ArchiveMirrorsStatus /\ [Next]_vars => (TypeInv /\ ArchiveMirrorsStatus)'
  BY NextType, NextArchive
<1>3. Spec => [](TypeInv /\ ArchiveMirrorsStatus)
  BY <1>1, <1>2, PTL DEF Spec
<1>4. QED
  BY <1>3, PTL

-----------------------------------------------------------------------------
(* Observed groups.                                                        *)

\* The live groups are observed, and so are the groups that were decided,
\* merged, or are about to be decided by a handler.
ObservedInv ==
  /\ GroupsOf(Active) \subseteq snapshots
  /\ DecidedGroupIsObserved
  /\ \A w \in Workers :
       worker[w].pc \in {"decideCheck", "decideSave"} => worker[w].group \in snapshots

\* Snapshots are never deleted, and every change of the active set takes one.
LEMMA SnapshotsGrow ==
  ASSUME TypeInv, ObservedInv, [Next]_vars
  PROVE  snapshots \subseteq snapshots' /\ (GroupsOf(Active) \subseteq snapshots)'
<1>1. CASE row' = row /\ snapshots' = snapshots
  BY <1>1 DEF ObservedInv, GroupsOf, Active, Apart
<1>2. CASE Materialized
  BY <1>2 DEF Materialized
<1>3. CASE UNCHANGED vars
  BY <1>1, <1>3 DEF vars
<1>4. ASSUME NEW w \in Workers, Local(w) \/ DecideSave(w) \/ ScreenSave(w) \/ FinalizeSave(w)
      PROVE  row' = row /\ snapshots' = snapshots
  BY <1>4, LocalFrame DEF DecideSave, ScreenSave, FinalizeSave, corpus, duplicates
<1>5. ASSUME NEW w \in Workers,
             \/ \E r \in Records : Import(w, r)
             \/ \E g \in Groups : MergeGroup(w, g)
             \/ RemoveCommit(w) \/ RestoreCommit(w) \/ RebuildCommit(w)
      PROVE  Materialized
  BY <1>5 DEF Import, MergeGroup, RemoveCommit, RestoreCommit, RebuildCommit
<1>6. QED
  BY <1>1, <1>2, <1>3, <1>4, <1>5, NextKinds DEF StepOf

\* A thread about to decide a group has found it live or merged.
LEMMA DecidersHold ==
  ASSUME TypeInv, ObservedInv, [Next]_vars, NEW v \in Workers,
         worker'[v].pc \in {"decideCheck", "decideSave"}
  PROVE  worker'[v].group \in snapshots
<1>1. /\ worker \in [Workers -> WorkerRecord]
      /\ worker[v] \in WorkerRecord
      /\ worker[v].pc \in {"decideCheck", "decideSave"} => worker[v].group \in snapshots
  BY DEF TypeInv, TypeOK, ObservedInv
<1>2. CASE worker'[v] = worker[v]
  BY <1>1, <1>2
<1>3. CASE UNCHANGED vars
  BY <1>2, <1>3 DEF vars
<1>4. ASSUME NEW w \in Workers, w # v, StepOf(w)
      PROVE  worker'[v] = worker[v]
  BY <1>4, OthersKeep
<1>5. CASE StepOf(v)
  <2>1. CASE Local(v)
    <3>1. ASSUME NEW g \in Groups, NEW verdict \in {"approve", "reject"}, DecideFind(v, g, verdict)
          PROVE  worker'[v].group \in snapshots
      <4>1. worker'[v].group = g
        BY <3>1, LocalAfter
      <4>2. g \in snapshots
        BY <3>1 DEF DecideFind, ObservedInv, DecidedGroupIsObserved
      <4>3. QED
        BY <4>1, <4>2
    <3>2. CASE DecideCheck(v)
      BY <1>1, <3>2, LocalAfter DEF DecideCheck, At, Idle
    <3>3. QED
      BY <2>1, <3>1, <3>2, LocalAfter, ScreenAfter, FinalizeAfter DEF Local, Idle
  <2>2. CASE \/ RemoveCommit(v) \/ RestoreCommit(v) \/ DecideSave(v)
             \/ RebuildCommit(v) \/ ScreenSave(v) \/ FinalizeSave(v)
    BY <2>2, CommitAfter DEF Idle
  <2>3. CASE (\E r \in Records : Import(v, r)) \/ (\E g \in Groups : MergeGroup(v, g))
    BY <1>2, <2>3, CommitAfter
  <2>4. QED
    BY <1>5, <2>1, <2>2, <2>3 DEF StepOf
<1>6. QED
  BY <1>2, <1>3, <1>4, <1>5, NextKinds

LEMMA NextObserved ==
  ASSUME TypeInv, ObservedInv, [Next]_vars
  PROVE  ObservedInv'
<1>1. snapshots \subseteq snapshots' /\ (GroupsOf(Active) \subseteq snapshots)'
  BY SnapshotsGrow
<1>2. \A v \in Workers :
        worker'[v].pc \in {"decideCheck", "decideSave"} => worker'[v].group \in snapshots'
  BY <1>1, DecidersHold
<1>3. DecidedGroupIsObserved'
  <2>1. CASE UNCHANGED <<decision, merges>>
    BY <1>1, <2>1 DEF ObservedInv, DecidedGroupIsObserved
  <2>2. CASE UNCHANGED vars
    BY <2>1, <2>2 DEF vars
  <2>3. ASSUME NEW w \in Workers,
               \/ Local(w) \/ \E r \in Records : Import(w, r)
               \/ RemoveCommit(w) \/ RestoreCommit(w) \/ ScreenSave(w) \/ FinalizeSave(w)
        PROVE  UNCHANGED <<decision, merges>>
    BY <2>3, LocalFrame DEF Import, RemoveCommit, RestoreCommit, ScreenSave, FinalizeSave, duplicates
  <2>4. ASSUME NEW w \in Workers, NEW g \in Groups, MergeGroup(w, g)
        PROVE  DecidedGroupIsObserved'
    <3>1. merges' \subseteq snapshots' /\ g \in merges'
      BY <2>4 DEF MergeGroup, Materialized
    <3>2. \A h \in Groups : h # g => decision'[h] = decision[h]
      BY <2>4 DEF MergeGroup, TypeInv, TypeOK
    <3>3. QED
      BY <1>1, <3>1, <3>2 DEF ObservedInv, DecidedGroupIsObserved
  <2>5. ASSUME NEW w \in Workers, DecideSave(w)
        PROVE  DecidedGroupIsObserved'
    <3>1. worker[w].group \in snapshots
      BY <2>5 DEF DecideSave, At, ObservedInv
    <3>2. \A h \in Groups : h # worker[w].group => decision'[h] = decision[h]
      BY <2>5 DEF DecideSave, TypeInv, TypeOK
    <3>3. merges' = merges
      BY <2>5 DEF DecideSave
    <3>4. QED
      BY <1>1, <3>1, <3>2, <3>3 DEF ObservedInv, DecidedGroupIsObserved
  <2>6. ASSUME NEW w \in Workers, RebuildCommit(w)
        PROVE  DecidedGroupIsObserved'
    BY <1>1, <2>6 DEF RebuildCommit, ObservedInv, DecidedGroupIsObserved
  <2>7. QED
    BY <2>1, <2>2, <2>3, <2>4, <2>5, <2>6, NextKinds DEF StepOf
<1>4. QED
  BY <1>1, <1>2, <1>3 DEF ObservedInv

\* The membership of every group that was ever decided or merged is on file,
\* although nothing makes the decision and the snapshot one transaction.
THEOREM DecisionsAreOnFile == Spec => []DecidedGroupIsObserved
<1>1. ObservedInv => DecidedGroupIsObserved
  BY DEF ObservedInv
<1>2. Init => TypeInv /\ ObservedInv
  <2> SUFFICES ASSUME Init PROVE ObservedInv
    BY InitType
  <2>1. Active = {}
    BY DEF Init, Active, NoRow
  <2>2. \A g \in Groups : g # {}
    BY DEF Groups
  <2>3. GroupsOf(Active) = {}
    BY <2>1, <2>2 DEF GroupsOf
  <2>4. QED
    BY <2>3 DEF Init, ObservedInv, DecidedGroupIsObserved, Idle
<1>3. TypeInv /\ ObservedInv /\ [Next]_vars => (TypeInv /\ ObservedInv)'
  BY NextType, NextObserved
<1>4. Spec => [](TypeInv /\ ObservedInv)
  BY <1>2, <1>3, PTL DEF Spec
<1>5. QED
  BY <1>1, <1>4, PTL

===============================================================================
