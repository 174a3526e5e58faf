----------------------------- MODULE EvidenceProofs ----------------------------
(***************************************************************************)
(* Theorems about Evidence, for every catalog, set of forms, reviewers,    *)
(* publications and clients.                                               *)
(***************************************************************************)
EXTENDS Evidence, SetFacts

Stored == {"in_progress", "complete"}
Headers == [version : DOMAIN Catalog, status : Stored]
RevisionRows == [index : Nat, by : Reviewers, status : Stored, form : Forms]
AssessmentRows == [pub : Pubs, by : Reviewers, template : DOMAIN QaCatalog, answers : AnswerSheets]

\* What the template calls for is in the form, up to what a draft may lack.
Fits(version, revision) ==
  revision.status = Verdict(Catalog[version], revision.form, FALSE)

Answered(row) == Accepts(QaCatalog[row.template], row.answers)

\* A version a submission may be made for.
Publishable == {v \in DOMAIN Catalog : Catalog[v].active /\ Catalog[v].published}

\* What a request in flight has read.
RequestOK(q) ==
  /\ q.pc = "configure" => q.version \in Publishable
  /\ q.pc = "qa_configure" => q.template \in DOMAIN QaCatalog
  /\ q.pc = "assess" =>
       /\ q.pub \in Pubs /\ q.by \in Reviewers /\ q.template \in DOMAIN QaCatalog
       /\ q.answers \in AnswerSheets /\ Accepts(QaCatalog[q.template], q.answers)
  /\ q.pc = "gated" =>
       /\ q.pub \in Pubs /\ q.by \in Reviewers /\ q.version \in Publishable
       /\ q.form \in Forms /\ q.mark \in BOOLEAN
  /\ q.pc = "append" =>
       /\ q.pub \in Pubs /\ q.new \in BOOLEAN /\ q.version \in Publishable
       /\ q.revision \in RevisionRows /\ Fits(q.version, q.revision)

CallsOK ==
  /\ call = [c \in Clients |-> call[c]]
  /\ \A c \in Clients : RequestOK(call[c])

\* Every revision fits some version that could be offered when it was submitted.
LogOK(p) ==
  /\ records[p] # None => records[p].version \in Publishable
  /\ \A i \in DOMAIN revisions[p] :
       /\ revisions[p][i].index = i
       /\ \E v \in Publishable : Fits(v, revisions[p][i])

ConfigOK ==
  /\ exists \in BOOLEAN /\ seeded \subseteq DOMAIN Catalog
  /\ config \in Publishable \cup {None} /\ qaConfig \in DOMAIN QaCatalog \cup {None}
  /\ ops \in 0 .. MaxOps

ExtractionOK ==
  /\ records \in [Pubs -> Headers \cup {None}]
  /\ revisions \in [Pubs -> Seq(RevisionRows)]
  /\ \A p \in Pubs : LogOK(p)
  /\ HeaderMirrorsLog

AssessmentsOK ==
  /\ assessments \in Seq(AssessmentRows)
  /\ \A i \in DOMAIN assessments : Answered(assessments[i])

IInv == ConfigOK /\ ExtractionOK /\ AssessmentsOK /\ CallsOK

-----------------------------------------------------------------------------
(* Requests in flight.                                                       *)

LEMMA CallsMoved ==
  ASSUME CallsOK, NEW c \in Clients, NEW q, call' = [call EXCEPT ![c] = q], RequestOK(q)
  PROVE  CallsOK'
<1>1. call' = [d \in Clients |-> call'[d]]
  BY DEF CallsOK
<1>2. \A d \in Clients : call'[d] = q \/ (call'[d] = call[d] /\ RequestOK(call[d]))
  BY DEF CallsOK
<1>3. \A d \in Clients : RequestOK(call'[d])
  BY <1>2
<1>4. QED
  BY <1>1, <1>3 DEF CallsOK, RequestOK

LEMMA EndedIsOK == RequestOK(NoCall)
BY DEF RequestOK, NoCall

LEMMA CallsKept ==
  ASSUME CallsOK, UNCHANGED call
  PROVE  CallsOK'
BY DEF CallsOK, RequestOK

\* What has been read stays what a request has read: it is about constants only.
LEMMA SameExtraction ==
  ASSUME ExtractionOK, UNCHANGED <<exists, extraction>>
  PROVE  ExtractionOK'
BY DEF ExtractionOK, extraction, LogOK, HeaderMirrorsLog

LEMMA SameAssessments ==
  ASSUME AssessmentsOK, UNCHANGED assessments
  PROVE  AssessmentsOK'
BY DEF AssessmentsOK

-----------------------------------------------------------------------------
(* The steps.                                                                *)

LEMMA InitOK == Init => IInv
<1> SUFFICES ASSUME Init PROVE IInv
  OBVIOUS
<1>1. ConfigOK
  BY EvidenceAssumption DEF EvidenceAssumption, Init, ConfigOK
<1>2. ExtractionOK
  BY DEF Init, ExtractionOK, LogOK, HeaderMirrorsLog
<1>3. AssessmentsOK
  BY DEF Init, AssessmentsOK
<1>4. CallsOK
  BY EndedIsOK DEF Init, CallsOK
<1>5. QED
  BY <1>1, <1>2, <1>3, <1>4 DEF IInv

LEMMA CountedOK ==
  ASSUME ConfigOK, Counted
  PROVE  ops' \in 0 .. MaxOps
BY EvidenceAssumption DEF EvidenceAssumption, ConfigOK, Counted

\* A request that has read something in order.
LEMMA BeginStep ==
  ASSUME IInv, NEW c \in Clients, NEW q, RequestOK(q), Counted, call' = [call EXCEPT ![c] = q],
         UNCHANGED <<exists, seeded, screening, extraction, quality>>
  PROVE  IInv'
<1>1. ConfigOK'
  BY CountedOK DEF IInv, ConfigOK, extraction, quality
<1>2. QED
  BY <1>1, CallsMoved, SameExtraction, SameAssessments DEF IInv, quality

LEMMA RequestStep ==
  ASSUME IInv, NEW c \in Clients, Request(c)
  PROVE  IInv'
<1>1. ASSUME NEW v \in DOMAIN Catalog, ConfigureCheck(c, v)
      PROVE  IInv'
  <2> DEFINE q == [pc |-> "configure", version |-> v]
  <2>1. RequestOK(q)
    BY <1>1 DEF ConfigureCheck, Offered, RequestOK, Publishable
  <2>2. QED
    BY <1>1, <2>1, BeginStep DEF ConfigureCheck
<1>2. ASSUME NEW t \in DOMAIN QaCatalog, QaConfigure(c, t)
      PROVE  IInv'
  <2> DEFINE q == [pc |-> "qa_configure", template |-> t]
  <2>1. RequestOK(q)
    BY DEF RequestOK
  <2>2. QED
    BY <1>2, <2>1, BeginStep DEF QaConfigure
<1>3. ASSUME NEW p \in Pubs, NEW r \in Reviewers, NEW answers \in AnswerSheets, AssessCheck(c, p, r, answers)
      PROVE  IInv'
  <2> DEFINE q == [pc |-> "assess", pub |-> p, by |-> r, template |-> qaConfig, answers |-> answers]
  <2>1. qaConfig \in DOMAIN QaCatalog /\ Accepts(QaCatalog[qaConfig], answers)
    BY <1>3 DEF AssessCheck, IInv, ConfigOK
  <2>2. RequestOK(q)
    BY <2>1 DEF RequestOK
  <2>3. QED
    BY <1>3, <2>2, BeginStep DEF AssessCheck
<1>4. ASSUME NEW p \in Pubs, NEW r \in Reviewers, NEW form \in Forms, NEW mark \in BOOLEAN,
             SubmitCheck(c, p, r, form, mark)
      PROVE  IInv'
  <2> DEFINE q == [pc |-> "gated", pub |-> p, by |-> r, version |-> config, form |-> form, mark |-> mark]
  <2>1. config \in Publishable
    BY <1>4, EvidenceAssumption DEF SubmitCheck, Offered, IInv, ConfigOK, EvidenceAssumption
  <2>2. RequestOK(q)
    BY <2>1 DEF RequestOK
  <2>3. QED
    BY <1>4, <2>2, BeginStep DEF SubmitCheck
<1>5. QED
  BY <1>1, <1>2, <1>3, <1>4 DEF Request

LEMMA ConfigureWriteStep ==
  ASSUME IInv, NEW c \in Clients, ConfigureWrite(c)
  PROVE  IInv'
<1>1. call[c].version \in Publishable
  BY DEF ConfigureWrite, IInv, CallsOK, RequestOK
<1>2. ConfigOK'
  BY <1>1 DEF ConfigureWrite, IInv, ConfigOK, quality
<1>3. ExtractionOK'
  BY DEF ConfigureWrite, IInv, ExtractionOK, LogOK, HeaderMirrorsLog
<1>4. QED
  BY <1>2, <1>3, CallsMoved, EndedIsOK, SameAssessments DEF ConfigureWrite, IInv, quality

LEMMA QaConfigureWriteStep ==
  ASSUME IInv, NEW c \in Clients, QaConfigureWrite(c)
  PROVE  IInv'
<1>1. call[c].template \in DOMAIN QaCatalog
  BY DEF QaConfigureWrite, IInv, CallsOK, RequestOK
<1>2. ConfigOK'
  BY <1>1 DEF QaConfigureWrite, IInv, ConfigOK, extraction
<1>3. QED
  BY <1>2, CallsMoved, EndedIsOK, SameAssessments, SameExtraction DEF QaConfigureWrite, IInv

LEMMA AssessWriteStep ==
  ASSUME IInv, NEW c \in Clients, AssessWrite(c)
  PROVE  IInv'
<1> DEFINE q == call[c]
           row == [pub |-> q.pub, by |-> q.by, template |-> q.template, answers |-> q.answers]
<1>1. /\ q.pub \in Pubs /\ q.by \in Reviewers /\ q.template \in DOMAIN QaCatalog
      /\ q.answers \in AnswerSheets /\ Accepts(QaCatalog[q.template], q.answers)
  BY DEF AssessWrite, IInv, CallsOK, RequestOK
<1>2. assessments' = Append(assessments, row)
  BY DEF AssessWrite
<1>3. row \in AssessmentRows /\ Answered(row)
  BY <1>1 DEF AssessmentRows, Answered
<1> HIDE DEF row
<1>4. AssessmentsOK'
  <2>1. assessments \in Seq(AssessmentRows)
    BY DEF IInv, AssessmentsOK
  <2>2. \A i \in DOMAIN assessments' : assessments'[i] = row \/ (i \in DOMAIN assessments /\ assessments'[i] = assessments[i])
    BY <1>2, <1>3, <2>1
  <2>3. assessments' \in Seq(AssessmentRows)
    BY <1>2, <1>3, <2>1
  <2>4. QED
    BY <1>3, <2>2, <2>3 DEF IInv, AssessmentsOK
<1>5. ConfigOK'
  BY DEF AssessWrite, IInv, ConfigOK, extraction
<1>6. QED
  BY <1>4, <1>5, CallsMoved, EndedIsOK, SameExtraction DEF AssessWrite, IInv

\* What is not rejected has the verdict it would have without the mark.
LEMMA VerdictOfMark ==
  ASSUME NEW template, NEW form, NEW mark \in BOOLEAN, Verdict(template, form, mark) # "rejected"
  PROVE  /\ Verdict(template, form, mark) \in Stored
         /\ Verdict(template, form, mark) = Verdict(template, form, FALSE)
BY DEF Verdict, Stored

LEMMA SubmitReadStep ==
  ASSUME IInv, NEW c \in Clients, SubmitRead(c)
  PROVE  IInv'
<1> DEFINE q == call[c]
           status == Verdict(Catalog[q.version], q.form, q.mark)
           revision == [index |-> Len(revisions[q.pub]) + 1, by |-> q.by, status |-> status, form |-> q.form]
           next == [pc |-> "append", pub |-> q.pub, new |-> records[q.pub] = None, version |-> q.version,
                    revision |-> revision]
<1>1. /\ q.pub \in Pubs /\ q.by \in Reviewers /\ q.version \in Publishable
      /\ q.form \in Forms /\ q.mark \in BOOLEAN
  BY DEF SubmitRead, IInv, CallsOK, RequestOK
<1>2. call' = [call EXCEPT ![c] = IF status = "rejected" THEN NoCall ELSE next]
  BY DEF SubmitRead
<1>3. status # "rejected" => RequestOK(next)
  <2>1. Len(revisions[q.pub]) + 1 \in Nat
    BY <1>1 DEF IInv, ExtractionOK
  <2>2. status # "rejected" =>
          status \in Stored /\ status = Verdict(Catalog[q.version], q.form, FALSE)
    BY <1>1, VerdictOfMark
  <2> HIDE DEF q, status
  <2>3. status # "rejected" => revision \in RevisionRows /\ Fits(q.version, revision)
    BY <1>1, <2>1, <2>2 DEF RevisionRows, Fits
  <2> HIDE DEF revision
  <2>4. QED
    BY <1>1, <2>3 DEF RequestOK
<1> HIDE DEF status, next
<1>4. CallsOK'
  BY <1>2, <1>3, CallsMoved, EndedIsOK DEF IInv
<1>5. ConfigOK'
  BY DEF SubmitRead, IInv, ConfigOK, extraction, quality
<1>6. QED
  BY <1>4, <1>5, SameExtraction, SameAssessments DEF SubmitRead, IInv, quality

\* The header after a revision has its status, and the template it was made for.
LEMMA HeaderIsOK ==
  ASSUME IInv, NEW q, RequestOK(q), q.pc = "append", Appendable(q)
  PROVE  LET header == HeaderAfter(q)
         IN header \in Headers /\ header.version \in Publishable /\ header.status = q.revision.status
<1>1. /\ q.pub \in Pubs /\ q.version \in Publishable /\ q.revision.status \in Stored
      /\ q.new \in BOOLEAN
  BY DEF RequestOK, RevisionRows
<1>2. CASE q.new
  BY <1>1, <1>2 DEF HeaderAfter, Headers, Publishable
<1>3. CASE ~q.new
  <2>1. records[q.pub] \in Headers /\ records[q.pub].version \in Publishable
    BY <1>1, <1>3 DEF Appendable, IInv, ExtractionOK, LogOK
  <2>2. QED
    BY <1>1, <1>3, <2>1 DEF HeaderAfter, Headers
<1>4. QED
  BY <1>1, <1>2, <1>3

\* The next revision of a log that is in order.
LEMMA AppendedLogIsOK ==
  ASSUME NEW log \in Seq(RevisionRows), NEW revision \in RevisionRows,
         \A i \in DOMAIN log : log[i].index = i /\ \E v \in Publishable : Fits(v, log[i]),
         revision.index = Len(log) + 1, NEW w \in Publishable, Fits(w, revision)
  PROVE  LET new == Append(log, revision)
         IN /\ new \in Seq(RevisionRows) /\ new # <<>> /\ Last(new) = revision
            /\ \A i \in DOMAIN new : new[i].index = i /\ \E v \in Publishable : Fits(v, new[i])
<1> DEFINE new == Append(log, revision)
<1>1. new \in Seq(RevisionRows) /\ Len(new) = Len(log) + 1 /\ new # <<>> /\ Len(log) \in Nat
  OBVIOUS
<1>2. \A i \in DOMAIN new : (i \in DOMAIN log /\ new[i] = log[i]) \/ (i = Len(log) + 1 /\ new[i] = revision)
  OBVIOUS
<1>3. new[Len(new)] = revision
  BY <1>1
<1> HIDE DEF new
<1>4. QED
  BY <1>1, <1>2, <1>3 DEF new, Last

LEMMA SubmitAppendStep ==
  ASSUME IInv, NEW c \in Clients, SubmitAppend(c)
  PROVE  IInv'
<1> DEFINE q == call[c]
           header == HeaderAfter(q)
           log == revisions[q.pub]
           new == Append(log, q.revision)
<1>1. /\ q.pc = "append" /\ RequestOK(q)
      /\ q.pub \in Pubs /\ q.version \in Publishable /\ q.revision \in RevisionRows
      /\ Fits(q.version, q.revision)
  BY DEF SubmitAppend, IInv, CallsOK, RequestOK
<1>2. /\ call' = [call EXCEPT ![c] = NoCall]
      /\ UNCHANGED <<exists, seeded, screening, config, quality, ops>>
  BY DEF SubmitAppend
<1>3. ConfigOK' /\ AssessmentsOK' /\ CallsOK'
  BY <1>2, CallsMoved, EndedIsOK, SameAssessments DEF IInv, ConfigOK, quality
<1>4. CASE Appendable(q)
  <2>1. /\ records' = [records EXCEPT ![q.pub] = header]
        /\ revisions' = [revisions EXCEPT ![q.pub] = new]
    BY <1>4 DEF SubmitAppend
  <2>2. header \in Headers /\ header.version \in Publishable /\ header.status = q.revision.status
    BY <1>1, <1>4, HeaderIsOK
  <2>3. log \in Seq(RevisionRows) /\ q.revision.index = Len(log) + 1
    BY <1>1, <1>4 DEF Appendable, IInv, ExtractionOK
  <2>4. \A i \in DOMAIN log : log[i].index = i /\ \E v \in Publishable : Fits(v, log[i])
    BY <1>1 DEF IInv, ExtractionOK, LogOK
  <2>5. /\ new \in Seq(RevisionRows) /\ new # <<>> /\ Last(new) = q.revision
        /\ \A i \in DOMAIN new : new[i].index = i /\ \E v \in Publishable : Fits(v, new[i])
    BY <1>1, <2>3, <2>4, AppendedLogIsOK
  <2>6. exists
    BY <1>4 DEF Appendable
  <2>7. header # None
    BY <2>2, EvidenceAssumption DEF EvidenceAssumption, Headers, Stored
  <2> HIDE DEF q, header, new, log
  <2>8. \A p \in Pubs : \/ /\ p = q.pub /\ records'[p] = header /\ revisions'[p] = new
                        \/ records'[p] = records[p] /\ revisions'[p] = revisions[p]
    BY <1>1, <2>1 DEF IInv, ExtractionOK
  <2>9. /\ records' \in [Pubs -> Headers \cup {None}]
        /\ revisions' \in [Pubs -> Seq(RevisionRows)]
    BY <1>1, <2>1, <2>2, <2>5 DEF IInv, ExtractionOK
  <2>10. ASSUME NEW p \in Pubs
         PROVE  LogOK(p)'
    <3>1. LogOK(p)
      BY DEF IInv, ExtractionOK
    <3>2. CASE records'[p] = records[p] /\ revisions'[p] = revisions[p]
      BY <3>1, <3>2 DEF LogOK, Fits
    <3>3. CASE records'[p] = header /\ revisions'[p] = new
      <4>1. records'[p].version \in Publishable
        BY <2>2, <3>3
      <4>2. \A i \in DOMAIN revisions'[p] : revisions'[p][i].index = i
        BY <2>5, <3>3
      <4>3. \A i \in DOMAIN revisions'[p] : \E v \in Publishable : Fits(v, revisions'[p][i])
        BY <2>5, <3>3
      <4>4. QED
        BY <4>1, <4>2, <4>3 DEF LogOK, Fits
    <3>4. QED
      BY <2>8, <3>2, <3>3
  <2>11. HeaderMirrorsLog'
    <3>1. HeaderMirrorsLog /\ exists' = exists
      BY <1>2 DEF IInv, ExtractionOK
    <3>2. QED
      BY <2>2, <2>5, <2>6, <2>7, <2>8, <3>1 DEF HeaderMirrorsLog
  <2>12. ExtractionOK'
    BY <2>9, <2>10, <2>11 DEF ExtractionOK
  <2>13. QED
    BY <1>3, <2>12 DEF IInv
<1>5. CASE ~Appendable(q)
  <2>1. UNCHANGED <<exists, extraction>>
    BY <1>2, <1>5 DEF SubmitAppend, extraction
  <2>2. QED
    BY <1>3, <2>1, SameExtraction DEF IInv
<1>6. QED
  BY <1>4, <1>5

LEMMA DeleteProjectStep ==
  ASSUME IInv, DeleteProject
  PROVE  IInv'
<1>1. ConfigOK'
  BY DEF DeleteProject, IInv, ConfigOK
<1>2. ExtractionOK'
  BY DEF DeleteProject, ExtractionOK, LogOK, HeaderMirrorsLog
<1>3. AssessmentsOK'
  BY DEF DeleteProject, AssessmentsOK
<1>4. QED
  BY <1>1, <1>2, <1>3, CallsKept DEF DeleteProject, IInv

LEMMA SurroundingsStep ==
  ASSUME IInv, Surroundings
  PROVE  IInv'
<1>1. ASSUME NEW v \in DOMAIN Catalog, Seed(v)
      PROVE  IInv'
  <2>1. ConfigOK'
    BY <1>1 DEF Seed, IInv, ConfigOK, extraction, quality
  <2>2. QED
    BY <1>1, <2>1, CallsKept, SameExtraction, SameAssessments DEF Seed, IInv, quality
<1>2. ASSUME Counted, UNCHANGED <<exists, seeded, extraction, quality, call>>
      PROVE  IInv'
  <2>1. ConfigOK'
    BY <1>2, CountedOK DEF IInv, ConfigOK, extraction, quality
  <2>2. QED
    BY <1>2, <2>1, CallsKept, SameExtraction, SameAssessments DEF IInv, quality
<1>3. QED
  BY <1>1, <1>2, DeleteProjectStep DEF Surroundings, Vote, Resolve, InputChanges

LEMMA NextOK == IInv /\ [Next]_vars => IInv'
<1> SUFFICES ASSUME IInv, [Next]_vars PROVE IInv'
  OBVIOUS
<1>1. CASE UNCHANGED vars
  BY <1>1, CallsKept, SameExtraction, SameAssessments DEF vars, quality, extraction, IInv, ConfigOK
<1>2. ASSUME NEW c \in Clients, Finish(c)
      PROVE  IInv'
  BY <1>2, ConfigureWriteStep, QaConfigureWriteStep, AssessWriteStep, SubmitReadStep, SubmitAppendStep
     DEF Finish
<1>3. QED
  BY <1>1, <1>2, RequestStep, SurroundingsStep DEF Next

\* Configurations, logs, headers, assessments and the requests in flight stay as
\* IInv says, also while a project is deleted under a request.
THEOREM Invariant == Spec => []IInv
BY InitOK, NextOK, PTL DEF Spec

-----------------------------------------------------------------------------
(* The theorems.                                                             *)

\* Rows are ones the validators accept: values that can be read back, answers that
\* belong to their template and cover what it requires
\* (repositories/extraction_repository.py).
THEOREM TypeCorrect == Spec => []TypeOK
<1>1. IInv => TypeOK
  <2> SUFFICES ASSUME IInv PROVE TypeOK
    OBVIOUS
  <2>1. config \in DOMAIN Catalog \cup {None}
    BY DEF IInv, ConfigOK, Publishable
  <2>2. ASSUME NEW p \in Pubs, records[p] # None
        PROVE  records[p].version \in DOMAIN Catalog /\ records[p].status \in {"in_progress", "complete"}
    BY <2>2 DEF IInv, ExtractionOK, Headers, Stored
  <2>3. ASSUME NEW p \in Pubs, NEW i \in DOMAIN revisions[p], NEW k \in DOMAIN revisions[p][i].form.values
        PROVE  Readable(revisions[p][i].form.values[k])
    <3>1. revisions[p][i] \in RevisionRows
      BY DEF IInv, ExtractionOK
    <3>2. WellFormed(revisions[p][i].form)
      BY <3>1, EvidenceAssumption DEF EvidenceAssumption, RevisionRows
    <3>3. QED
      BY <3>2 DEF WellFormed, Readable
  <2>4. ASSUME NEW i \in DOMAIN assessments
        PROVE  LET a == assessments[i]
               IN /\ DOMAIN a.answers \subseteq DOMAIN QaCatalog[a.template].criteria
                  /\ \A k \in DOMAIN QaCatalog[a.template].criteria :
                       QaCatalog[a.template].criteria[k] => k \in DOMAIN a.answers
    BY DEF IInv, AssessmentsOK, Answered, Accepts
  <2>5. QED
    BY <2>1, <2>2, <2>3, <2>4 DEF IInv, ConfigOK, TypeOK
<1>2. QED
  BY <1>1, Invariant, PTL

\* The header of a record mirrors its log and goes with the project
\* (repositories/extraction_repository.py).
THEOREM HeadersMirrorLogs == Spec => []HeaderMirrorsLog
<1>1. IInv => HeaderMirrorsLog
  BY DEF IInv, ExtractionOK
<1>2. QED
  BY <1>1, Invariant, PTL

\* No two submissions store the same number, and no revision changes or goes before
\* its project does (repositories/extraction_repository.py).
THEOREM RevisionsAreALog == Spec => RevisionLogs
<1>1. Observed \in Pubs
  BY EvidenceAssumption DEF EvidenceAssumption
<1>2. Init => RevisionLog!Init
  BY <1>1 DEF Init, RevisionLog!Init
<1>3. IInv /\ [Next]_vars => [RevisionLog!Add \/ RevisionLog!Discard]_(revisions[Observed])
  <2> DEFINE log == revisions[Observed]
  <2> SUFFICES ASSUME IInv, [Next]_vars
               PROVE  RevisionLog!Add \/ RevisionLog!Discard \/ UNCHANGED log
    OBVIOUS
  <2>1. ASSUME NEW c \in Clients, SubmitAppend(c)
        PROVE  RevisionLog!Add \/ UNCHANGED log
    <3> DEFINE q == call[c]
               new == Append(revisions[q.pub], q.revision)
    <3>1. q.pub \in Pubs /\ q.revision \in RevisionRows
      BY <2>1 DEF SubmitAppend, IInv, CallsOK, RequestOK
    <3>2. log \in Seq(RevisionRows) /\ revisions \in [Pubs -> Seq(RevisionRows)]
      BY <1>1 DEF IInv, ExtractionOK
    <3>3. CASE Appendable(q) /\ q.pub = Observed
      <4>1. log' = Append(log, q.revision)
        BY <1>1, <2>1, <3>2, <3>3 DEF SubmitAppend
      <4>2. q.revision.index = Len(log) + 1
        BY <3>3 DEF Appendable
      <4> HIDE DEF log, q
      <4>3. /\ Len(log') = Len(log) + 1 /\ SubSeq(log', 1, Len(log)) = log
            /\ log'[Len(log')] = q.revision
        BY <3>1, <3>2, <4>1
      <4>4. log'[Len(log')].index = Len(log')
        BY <4>2, <4>3
      <4>5. QED
        BY <4>3, <4>4 DEF log, RevisionLog!Add, RevisionNumber
    <3>4. CASE ~(Appendable(q) /\ q.pub = Observed)
      BY <1>1, <2>1, <3>2, <3>4 DEF SubmitAppend
    <3>5. QED
      BY <3>3, <3>4
  <2>2. CASE DeleteProject
    BY <1>1, <2>2 DEF DeleteProject, RevisionLog!Discard
  <2>3. ASSUME NEW c \in Clients,
               Request(c) \/ ConfigureWrite(c) \/ QaConfigureWrite(c) \/ AssessWrite(c) \/ SubmitRead(c)
        PROVE  UNCHANGED log
    BY <2>3 DEF Request, ConfigureCheck, QaConfigure, AssessCheck, SubmitCheck, ConfigureWrite,
       QaConfigureWrite, AssessWrite, SubmitRead, extraction
  <2>4. CASE UNCHANGED vars \/ (Surroundings /\ ~DeleteProject)
    BY <2>4 DEF vars, extraction, Surroundings, Seed, Vote, Resolve, InputChanges
  <2>5. QED
    BY <2>1, <2>2, <2>3, <2>4 DEF Next, Finish
<1>4. QED
  BY <1>2, <1>3, Invariant, PTL DEF Spec, RevisionLogs, RevisionLog!DiscardableSpec

-----------------------------------------------------------------------------
(* What a verdict says of a form.                                            *)

\* A field without an error a draft may not have holds no wrong value.
LEMMA FieldIsSound ==
  ASSUME NEW fields, NEW values, NEW k \in DOMAIN fields, FieldsErrors(fields, values) \subseteq Lenient
  PROVE  Sound(fields[k], values, k)
<1> DEFINE f == fields[k]
           v == values[k]
<1> SUFFICES ASSUME k \in DOMAIN values, v.status # "unassessed"
             PROVE  /\ v.status \in f.allowed
                    /\ HasConstraint(f.type) /\ v.slots \cap SlotsOf(f.type) # {} =>
                         v.fits \/ v.status \notin {"present", "unclear"}
  BY DEF Sound
<1>1. FieldErrors(f, v) \subseteq Lenient
  BY DEF FieldsErrors
<1> HIDE DEF f, v
<1>2. v.status \in f.allowed
  BY <1>1 DEF FieldErrors, Lenient
<1>3. CASE v.status \in {"present", "unclear"}
  <2>1. ValueErrors(f, v) \subseteq Lenient
    BY <1>1, <1>2, <1>3 DEF FieldErrors
  <2>2. "content" \notin ValueErrors(f, v)
    BY <2>1 DEF Lenient
  <2>3. HasConstraint(f.type) /\ v.slots \cap SlotsOf(f.type) # {} => v.fits
    BY <2>2 DEF ValueErrors
  <2>4. QED
    BY <1>2, <2>3
<1>4. QED
  BY <1>2, <1>3

\* A required field without any error is decided.
LEMMA FieldIsDecided ==
  ASSUME NEW fields, NEW values, NEW k \in DOMAIN fields, fields[k].required,
         FieldsErrors(fields, values) = {}
  PROVE  Decided(fields[k], values, k)
<1> DEFINE f == fields[k]
           v == values[k]
<1>1. k \in DOMAIN values
  BY DEF FieldsErrors
<1>2. FieldErrors(f, v) = {}
  BY <1>1 DEF FieldsErrors
<1> HIDE DEF f, v
<1>3. v.status # "unassessed" /\ v.status \in f.allowed
  BY <1>2 DEF FieldErrors, f
<1>4. v.status = "present" => v.slots \cap SlotsOf(f.type) # {} \/ f.type = "repeating_group"
  <2> SUFFICES ASSUME v.status = "present" PROVE v.slots \cap SlotsOf(f.type) # {} \/ f.type = "repeating_group"
    OBVIOUS
  <2>1. "value" \notin ValueErrors(f, v)
    BY <1>2, <1>3 DEF FieldErrors
  <2>2. QED
    BY <2>1 DEF ValueErrors
<1>5. QED
  BY <1>1, <1>3, <1>4 DEF Decided, f, v

\* A group without an error a draft may not have is not too large, and its items
\* hold no wrong value.
LEMMA GroupIsSound ==
  ASSUME NEW group, ValidGroup(group), NEW g, NEW items, IsFiniteSet(DOMAIN items),
         GroupErrors(g, group, items) \subseteq Lenient
  PROVE  /\ \A j \in ItemsOf(g, items) : Clean(group.fields, items[j].values)
         /\ group.max # None => Cardinality(ItemsOf(g, items)) <= group.max
<1> DEFINE mine == ItemsOf(g, items)
<1>1. ASSUME NEW j \in mine
      PROVE  Clean(group.fields, items[j].values)
  <2>1. FieldsErrors(group.fields, items[j].values) \subseteq GroupErrors(g, group, items)
    BY DEF GroupErrors
  <2>2. QED
    BY <2>1, FieldIsSound DEF Clean
<1>2. ASSUME group.max # None
      PROVE  Cardinality(mine) <= group.max
  <2>1. Cardinality(mine) \in Nat /\ group.max \in Nat
    BY <1>2, FS_Subset, FS_CardinalityType DEF ItemsOf, ValidGroup
  <2>2. "too_many" \notin GroupErrors(g, group, items)
    BY DEF Lenient
  <2>3. ~(Cardinality(mine) > group.max)
    BY <1>2, <2>2 DEF GroupErrors
  <2>4. QED
    BY <2>1, <2>3
<1>3. QED
  BY <1>1, <1>2

\* A group without any error is large enough and its items are whole.
LEMMA GroupIsWhole ==
  ASSUME NEW group, ValidGroup(group), NEW g, NEW items, IsFiniteSet(DOMAIN items),
         GroupErrors(g, group, items) = {}
  PROVE  /\ Cardinality(ItemsOf(g, items)) >= group.min
         /\ \A j \in ItemsOf(g, items) : Whole(group.fields, items[j].values)
<1> DEFINE mine == ItemsOf(g, items)
<1>1. Cardinality(mine) \in Nat /\ group.min \in Nat
  BY FS_Subset, FS_CardinalityType DEF ItemsOf, ValidGroup
<1>2. ~(Cardinality(mine) < group.min)
  <2>1. "too_few" \notin GroupErrors(g, group, items)
    OBVIOUS
  <2>2. QED
    BY <2>1 DEF GroupErrors
<1>3. ASSUME NEW j \in mine
      PROVE  Whole(group.fields, items[j].values)
  <2>1. FieldsErrors(group.fields, items[j].values) \subseteq GroupErrors(g, group, items)
    BY DEF GroupErrors
  <2>2. FieldsErrors(group.fields, items[j].values) = {}
    BY <2>1
  <2>3. QED
    BY <2>2, FieldIsDecided DEF Whole
<1>4. QED
  BY <1>1, <1>2, <1>3

\* A revision that got the verdict of a template fits it.
LEMMA RevisionFits ==
  ASSUME NEW v \in DOMAIN Catalog, NEW revision \in RevisionRows, Fits(v, revision)
  PROVE  LET template == Catalog[v]
             form == revision.form
             of(g) == {j \in DOMAIN form.items : form.items[j].group = g}
         IN /\ Clean(template.fields, form.values)
            /\ \A g \in DOMAIN template.groups :
                 /\ \A j \in of(g) : Clean(template.groups[g].fields, form.items[j].values)
                 /\ template.groups[g].max # None => Cardinality(of(g)) <= template.groups[g].max
            /\ revision.status = "complete" =>
                 /\ Whole(template.fields, form.values)
                 /\ \A g \in DOMAIN template.groups :
                      /\ Cardinality(of(g)) >= template.groups[g].min
                      /\ \A j \in of(g) : Whole(template.groups[g].fields, form.items[j].values)
<1> DEFINE template == Catalog[v]
           form == revision.form
           errors == RevisionErrors(template, form)
<1>1. ValidTemplate(template) /\ WellFormed(form)
  BY EvidenceAssumption DEF EvidenceAssumption, RevisionRows
<1>2. IsFiniteSet(DOMAIN form.items) /\ \A g \in DOMAIN template.groups : ValidGroup(template.groups[g])
  BY <1>1 DEF ValidTemplate, WellFormed
<1>3. errors \subseteq Lenient /\ (revision.status = "complete" => errors = {})
  BY DEF Fits, RevisionRows, Stored, Verdict
<1>4. /\ FieldsErrors(template.fields, form.values) \subseteq errors
      /\ \A g \in DOMAIN template.groups : GroupErrors(g, template.groups[g], form.items) \subseteq errors
  BY DEF RevisionErrors
<1>5. \A g : {j \in DOMAIN form.items : form.items[j].group = g} = ItemsOf(g, form.items)
  BY DEF ItemsOf
<1> HIDE DEF template, form, errors
<1>6. Clean(template.fields, form.values)
  BY <1>3, <1>4, FieldIsSound DEF Clean
<1>7. ASSUME NEW g \in DOMAIN template.groups
      PROVE  /\ \A j \in ItemsOf(g, form.items) : Clean(template.groups[g].fields, form.items[j].values)
             /\ template.groups[g].max # None =>
                  Cardinality(ItemsOf(g, form.items)) <= template.groups[g].max
  <2>1. GroupErrors(g, template.groups[g], form.items) \subseteq Lenient
    BY <1>3, <1>4
  <2>2. QED
    BY <1>2, <2>1, GroupIsSound
<1>8. ASSUME revision.status = "complete"
      PROVE  /\ Whole(template.fields, form.values)
             /\ \A g \in DOMAIN template.groups :
                  /\ Cardinality(ItemsOf(g, form.items)) >= template.groups[g].min
                  /\ \A j \in ItemsOf(g, form.items) :
                       Whole(template.groups[g].fields, form.items[j].values)
  <2>1. FieldsErrors(template.fields, form.values) = {}
    BY <1>3, <1>4, <1>8
  <2>2. ASSUME NEW g \in DOMAIN template.groups
        PROVE  /\ Cardinality(ItemsOf(g, form.items)) >= template.groups[g].min
               /\ \A j \in ItemsOf(g, form.items) :
                    Whole(template.groups[g].fields, form.items[j].values)
    <3>1. GroupErrors(g, template.groups[g], form.items) = {}
      BY <1>3, <1>4, <1>8
    <3>2. QED
      BY <1>2, <3>1, GroupIsWhole
  <2>3. QED
    BY <2>1, <2>2, FieldIsDecided DEF Whole
<1>9. QED
  BY <1>5, <1>6, <1>7, <1>8 DEF template, form

\* While at most one version of the template is active and published, as in the
\* catalog the application ships, the revisions of a record are what the template
\* it names calls for (services/extraction_execution_service.py); with two the
\* records of a project can be made for either.
THEOREM RevisionsFit ==
  ASSUME \A v, w \in Publishable : v = w
  PROVE  Spec => []RevisionsFitRecord
<1>1. IInv => RevisionsFitRecord
  <2> SUFFICES ASSUME IInv, NEW p \in Pubs, records[p] # None, NEW i \in DOMAIN revisions[p]
               PROVE  LET template == Catalog[records[p].version]
                          form == revisions[p][i].form
                          of(g) == {j \in DOMAIN form.items : form.items[j].group = g}
                      IN /\ Clean(template.fields, form.values)
                         /\ \A g \in DOMAIN template.groups :
                              /\ \A j \in of(g) : Clean(template.groups[g].fields, form.items[j].values)
                              /\ template.groups[g].max # None => Cardinality(of(g)) <= template.groups[g].max
                         /\ revisions[p][i].status = "complete" =>
                              /\ Whole(template.fields, form.values)
                              /\ \A g \in DOMAIN template.groups :
                                   /\ Cardinality(of(g)) >= template.groups[g].min
                                   /\ \A j \in of(g) : Whole(template.groups[g].fields, form.items[j].values)
    BY DEF RevisionsFitRecord
  <2>1. revisions[p][i] \in RevisionRows
    BY DEF IInv, ExtractionOK
  <2>2. records[p].version \in Publishable /\ \E v \in Publishable : Fits(v, revisions[p][i])
    BY DEF IInv, ExtractionOK, LogOK
  <2>3. Fits(records[p].version, revisions[p][i]) /\ records[p].version \in DOMAIN Catalog
    BY <2>2 DEF Publishable
  <2>4. QED
    BY <2>1, <2>3, RevisionFits
<1>2. QED
  BY <1>1, Invariant, PTL

-----------------------------------------------------------------------------
(* What the gates read of screening.                                         *)

VoteRows == [by : Reviewers, outcome : Votes]

\* Screening as the gates may rely on it.
VotesOK ==
  /\ votes \in [Pubs -> Seq(VoteRows)]
  /\ resolved = [p \in Pubs |-> resolved[p]]
  /\ \A p \in Pubs : resolved[p] # None => resolved[p].outcome \in Votes
  /\ input.pubs \subseteq Pubs

\* No vote is any of the other answers of the gates.
LEMMA OutcomesAreVotes ==
  None \notin Votes /\ None # "include" /\ Votes \subseteq {"include", "exclude", "uncertain"}
BY EvidenceAssumption DEF EvidenceAssumption

LEMMA VotesInit == Init => VotesOK
BY DEF Init, VotesOK

\* A vote, a resolution or a merge leaves the tables of screening in order.
LEMMA VotesStay == VotesOK /\ [Next]_vars => VotesOK'
<1> SUFFICES ASSUME VotesOK, [Next]_vars PROVE VotesOK'
  OBVIOUS
<1>1. CASE UNCHANGED <<input, votes, resolved>>
  BY <1>1 DEF VotesOK
<1>2. ASSUME NEW p \in Pubs, NEW o \in Votes, Resolve(p, o)
      PROVE  VotesOK'
  <2> DEFINE row == [outcome |-> o, seen |-> Len(votes[p])]
  <2>1. resolved' = [resolved EXCEPT ![p] = row] /\ UNCHANGED <<input, votes>>
    BY <1>2 DEF Resolve
  <2>2. row.outcome \in Votes
    OBVIOUS
  <2> HIDE DEF row
  <2>3. resolved' = [q \in Pubs |-> resolved'[q]]
    BY <2>1 DEF VotesOK
  <2>4. \A q \in Pubs : resolved'[q] # None => resolved'[q].outcome \in Votes
    BY <2>1, <2>2 DEF VotesOK
  <2>5. QED
    BY <2>1, <2>3, <2>4 DEF VotesOK
<1>3. ASSUME NEW p \in Pubs, NEW o \in Votes, NEW r \in Reviewers, Vote(p, r, o)
      PROVE  VotesOK'
  <2> DEFINE row == [by |-> r, outcome |-> o]
  <2>1. votes' = [votes EXCEPT ![p] = Append(votes[p], row)] /\ UNCHANGED <<input, resolved>>
    BY <1>3 DEF Vote
  <2>2. row \in VoteRows /\ votes[p] \in Seq(VoteRows)
    BY DEF VoteRows, VotesOK
  <2> HIDE DEF row
  <2>3. Append(votes[p], row) \in Seq(VoteRows)
    BY <2>2
  <2>4. votes' \in [Pubs -> Seq(VoteRows)]
    BY <2>1, <2>3 DEF VotesOK
  <2>5. QED
    BY <2>1, <2>4 DEF VotesOK
<1>4. ASSUME NEW pubs \in SUBSET Pubs, NEW ready \in BOOLEAN, InputChanges(pubs, ready)
      PROVE  VotesOK'
  BY <1>4 DEF InputChanges, VotesOK
<1>5. CASE DeleteProject
  BY <1>5 DEF DeleteProject, VotesOK
<1>6. ASSUME NEW c \in Clients, Request(c) \/ Finish(c)
      PROVE  UNCHANGED <<input, votes, resolved>>
  BY <1>6 DEF Request, Finish, ConfigureCheck, QaConfigure, AssessCheck, SubmitCheck, ConfigureWrite,
     QaConfigureWrite, AssessWrite, SubmitRead, SubmitAppend, screening
<1>7. ASSUME NEW v \in DOMAIN Catalog, Seed(v)
      PROVE  UNCHANGED <<input, votes, resolved>>
  BY <1>7 DEF Seed, screening
<1>8. CASE UNCHANGED vars
  BY <1>8, <1>1 DEF vars, screening
<1>9. QED
  BY <1>1, <1>2, <1>3, <1>4, <1>5, <1>6, <1>7, <1>8 DEF Next, Surroundings

\* An assessment, stored or about to be, is one of a configured project, and
\* there is nothing to assess in a deleted one.
QaOK ==
  /\ exists /\ qaConfig = None => assessments = <<>> /\ \A c \in Clients : call[c].pc # "assess"
  /\ ~exists => input.pubs = {}

LEMMA QaInit == Init => QaOK
BY DEF Init, QaOK, NoCall

\* A call that only comes or goes keeps the assessments where they belong.
LEMMA QaMoved ==
  ASSUME QaOK, IInv, NEW c \in Clients, NEW q, call' = [call EXCEPT ![c] = q],
         UNCHANGED <<exists, input, assessments>>, qaConfig' # None \/ qaConfig' = qaConfig,
         q.pc = "assess" => qaConfig # None
  PROVE  QaOK'
<1>1. \A d \in Clients : call'[d] = IF d = c THEN q ELSE call[d]
  BY DEF IInv, CallsOK
<1>2. qaConfig' = None => qaConfig = None
  OBVIOUS
<1>3. QED
  BY <1>1, <1>2 DEF QaOK

LEMMA QaStay == QaOK /\ IInv /\ [Next]_vars => QaOK'
<1> SUFFICES ASSUME QaOK, IInv, [Next]_vars PROVE QaOK'
  OBVIOUS
<1>1. NoCall.pc # "assess"
  BY DEF NoCall
<1>2. CASE UNCHANGED <<exists, input, quality, call>>
  BY <1>2 DEF QaOK, quality
<1>3. ASSUME NEW c \in Clients, Request(c)
      PROVE  QaOK'
  <2>1. ASSUME NEW v \in DOMAIN Catalog, ConfigureCheck(c, v)
        PROVE  QaOK'
    <3> DEFINE q == [pc |-> "configure", version |-> v]
    <3>1. call' = [call EXCEPT ![c] = q] /\ UNCHANGED <<exists, input, quality>>
      BY <2>1 DEF ConfigureCheck, screening
    <3>2. q.pc # "assess"
      OBVIOUS
    <3> HIDE DEF q
    <3>3. QED
      BY <3>1, <3>2, QaMoved DEF quality
  <2>2. ASSUME NEW t \in DOMAIN QaCatalog, QaConfigure(c, t)
        PROVE  QaOK'
    <3> DEFINE q == [pc |-> "qa_configure", template |-> t]
    <3>1. call' = [call EXCEPT ![c] = q] /\ UNCHANGED <<exists, input, quality>>
      BY <2>2 DEF QaConfigure, screening
    <3>2. q.pc # "assess"
      OBVIOUS
    <3> HIDE DEF q
    <3>3. QED
      BY <3>1, <3>2, QaMoved DEF quality
  <2>3. ASSUME NEW p \in Pubs, NEW r \in Reviewers, NEW a \in AnswerSheets, AssessCheck(c, p, r, a)
        PROVE  QaOK'
    <3>1. PICK q : call' = [call EXCEPT ![c] = q]
      BY <2>3 DEF AssessCheck
    <3>2. QED
      BY <2>3, <3>1, QaMoved DEF AssessCheck, quality, screening
  <2>4. ASSUME NEW p \in Pubs, NEW r \in Reviewers, NEW f \in Forms, NEW m \in BOOLEAN, SubmitCheck(c, p, r, f, m)
        PROVE  QaOK'
    <3> DEFINE q == [pc |-> "gated", pub |-> p, by |-> r, version |-> config, form |-> f, mark |-> m]
    <3>1. call' = [call EXCEPT ![c] = q] /\ UNCHANGED <<exists, input, quality>>
      BY <2>4 DEF SubmitCheck, screening
    <3>2. q.pc # "assess"
      OBVIOUS
    <3> HIDE DEF q
    <3>3. QED
      BY <3>1, <3>2, QaMoved DEF quality
  <2>5. QED
    BY <1>3, <2>1, <2>2, <2>3, <2>4 DEF Request
<1>4. ASSUME NEW c \in Clients, Finish(c)
      PROVE  QaOK'
  <2>1. CASE ConfigureWrite(c)
    BY <1>1, <2>1, QaMoved DEF ConfigureWrite, quality, screening
  <2>2. CASE QaConfigureWrite(c)
    <3>1. call[c].template \in DOMAIN QaCatalog
      BY <2>2 DEF QaConfigureWrite, IInv, CallsOK, RequestOK
    <3>2. qaConfig' # None
      BY <2>2, <3>1, EvidenceAssumption DEF QaConfigureWrite, EvidenceAssumption
    <3>3. QED
      BY <1>1, <2>2, <3>2, QaMoved DEF QaConfigureWrite, screening
  <2>3. CASE AssessWrite(c)
    <3>1. exists => qaConfig # None
      BY <2>3 DEF AssessWrite, QaOK
    <3>2. UNCHANGED <<exists, input, qaConfig>>
      BY <2>3 DEF AssessWrite, screening
    <3>3. QED
      BY <3>1, <3>2 DEF QaOK
  <2>4. CASE SubmitRead(c)
    <3> DEFINE s == Verdict(Catalog[call[c].version], call[c].form, call[c].mark)
               n == [pc |-> "append", pub |-> call[c].pub, new |-> records[call[c].pub] = None,
                     version |-> call[c].version,
                     revision |-> [index |-> Len(revisions[call[c].pub]) + 1, by |-> call[c].by,
                                   status |-> s, form |-> call[c].form]]
               q == IF s = "rejected" THEN NoCall ELSE n
    <3>1. call' = [call EXCEPT ![c] = q] /\ UNCHANGED <<exists, input, quality>>
      BY <2>4 DEF SubmitRead, screening
    <3>2. n.pc # "assess"
      OBVIOUS
    <3>3. q.pc # "assess"
      BY <1>1, <3>2
    <3> HIDE DEF q
    <3>4. QED
      BY <3>1, <3>3, QaMoved DEF quality
  <2>5. CASE SubmitAppend(c)
    BY <1>1, <2>5, QaMoved DEF SubmitAppend, quality, screening
  <2>6. QED
    BY <1>4, <2>1, <2>2, <2>3, <2>4, <2>5 DEF Finish
<1>5. ASSUME NEW pubs \in SUBSET Pubs, NEW ready \in BOOLEAN, InputChanges(pubs, ready)
      PROVE  QaOK'
  BY <1>5 DEF InputChanges, QaOK, quality
<1>6. CASE DeleteProject
  BY <1>6 DEF DeleteProject, QaOK
<1>7. ASSUME NEW p \in Pubs, NEW o \in Votes, Resolve(p, o) \/ \E r \in Reviewers : Vote(p, r, o)
      PROVE  UNCHANGED <<exists, input, quality, call>>
  BY <1>7 DEF Resolve, Vote
<1>8. ASSUME NEW v \in DOMAIN Catalog, Seed(v)
      PROVE  UNCHANGED <<exists, input, quality, call>>
  BY <1>8 DEF Seed, screening
<1>9. CASE UNCHANGED vars
  BY <1>9, <1>2 DEF vars, screening
<1>10. QED
  BY <1>2, <1>3, <1>4, <1>5, <1>6, <1>7, <1>8, <1>9 DEF Next, Surroundings

\* The outcome of a reviewer is that of a vote.
LEMMA LatestVoteIsVote ==
  ASSUME VotesOK, NEW p \in Pubs, NEW r
  PROVE  /\ LatestVote(p, r) \in Votes \cup {None}
         /\ LatestVote(p, r) # None <=> IndicesOf(votes[p], r) # {}
<1>1. votes[p] \in Seq(VoteRows) /\ IndicesOf(votes[p], r) \in SUBSET DOMAIN votes[p]
  BY DEF VotesOK, IndicesOf
<1>2. CASE IndicesOf(votes[p], r) = {}
  BY <1>2 DEF LatestVote
<1>3. CASE IndicesOf(votes[p], r) # {}
  <2>1. Max(IndicesOf(votes[p], r)) \in DOMAIN votes[p]
    BY <1>1, <1>3, MaxOfPositions
  <2>2. votes[p][Max(IndicesOf(votes[p], r))] \in VoteRows
    BY <1>1, <2>1
  <2>3. votes[p][Max(IndicesOf(votes[p], r))].outcome \in Votes
    BY <2>2 DEF VoteRows
  <2>4. QED
    BY <1>3, <2>3, OutcomesAreVotes DEF LatestVote
<1>4. QED
  BY <1>2, <1>3

\* What the replay of quality assessment does with one decision.
ReplayStep(r, in, d) == IF d.by = r THEN d.outcome = "include" ELSE in

\* Replaying all decisions of a reviewer comes to the last one.
LEMMA ReplayIsLatest ==
  ASSUME VotesOK, NEW p \in Pubs, NEW r \in Reviewers
  PROVE  Replayed(p, r) <=> LatestVote(p, r) = "include"
<1> DEFINE log == votes[p]
           D == BOOLEAN
           G == [n \in DOMAIN log |-> [a \in D |-> ReplayStep(r, a, log[n])]]
           Fold(f) == f = [s \in SUBSET DOMAIN log |-> IF s = {} THEN FALSE
                             ELSE ReplayStep(r, f[s \ {Max(s)}], log[Max(s)])]
           iter == CHOOSE g : Fold(g)
           of(s) == {i \in s : log[i].by = r}
           Q == {s \in SUBSET DOMAIN log : iter[s] = (of(s) # {} /\ log[Max(of(s))].outcome = "include")}
<1>1. log \in Seq(VoteRows) /\ IsFiniteSet(DOMAIN log)
  <2>1. log \in Seq(VoteRows)
    BY DEF VotesOK
  <2>2. QED
    BY <2>1, LastPosition
<1>2. \A n \in DOMAIN log : G[n] \in [D -> D]
  BY DEF ReplayStep
<1>3. PICK f : IsSequenceFold(f, log, D, FALSE, G)
  <2> HIDE DEF G, log
  <2>1. QED
    BY <1>1, <1>2, SequenceFoldExists
<1>4. \A s \in SUBSET DOMAIN log : s # {} => Max(s) \in s /\ Max(s) \in DOMAIN log /\ \A y \in s : Max(s) >= y
  <2> HIDE DEF log
  <2>1. QED
    BY <1>1, MaxOfPositions
<1>5. Fold(f)
  <2>1. ASSUME NEW s \in SUBSET DOMAIN log, s # {}
        PROVE  G[Max(s)][f[s \ {Max(s)}]] = ReplayStep(r, f[s \ {Max(s)}], log[Max(s)])
    <3>1. f[s \ {Max(s)}] \in D
      BY <1>3, <2>1 DEF IsSequenceFold
    <3>2. QED
      BY <1>4, <2>1, <3>1
  <2>2. QED
    <3> HIDE DEF G, log
    <3>1. QED
      BY <1>3, <2>1 DEF IsSequenceFold
<1>6. Fold(iter)
  <2> HIDE DEF Fold
  <2>1. QED
    BY <1>5
<1>7. ASSUME NEW s \in SUBSET DOMAIN log, \A t \in SUBSET s : t # s => t \in Q
      PROVE  s \in Q
  <2> DEFINE m == Max(s)
  <2>1. CASE s = {}
    BY <1>6, <2>1
  <2>2. CASE s # {}
    <3>1. m \in s /\ m \in DOMAIN log /\ \A y \in s : m >= y
      BY <1>4, <2>2
    <3>2. iter[s] = ReplayStep(r, iter[s \ {m}], log[m])
      BY <1>6, <2>2
    <3>3. s \ {m} \in Q
      BY <1>7, <3>1
    <3> HIDE DEF m
    <3>4. CASE log[m].by = r
      <4>1. m \in of(s) /\ of(s) \in SUBSET DOMAIN log
        BY <3>1, <3>4
      <4>2. Max(of(s)) \in of(s) /\ Max(of(s)) >= m /\ m >= Max(of(s))
        BY <1>4, <3>1, <4>1
      <4>3. m \in Nat /\ Max(of(s)) \in Nat
        BY <1>1, <3>1, <4>1, <4>2
      <4>4. Max(of(s)) = m
        BY <4>2, <4>3
      <4>5. iter[s] = (log[m].outcome = "include")
        BY <3>2, <3>4 DEF ReplayStep
      <4>6. iter[s] = (of(s) # {} /\ log[Max(of(s))].outcome = "include")
        <5> HIDE DEF iter, of, log
        <5>1. QED
          BY <4>1, <4>4, <4>5
      <4>7. QED
        <5> HIDE DEF iter, of, log
        <5>1. QED
          BY <4>6
    <3>5. CASE log[m].by # r
      <4>1. of(s) = of(s \ {m})
        BY <3>5
      <4>2. iter[s] = iter[s \ {m}]
        BY <3>2, <3>5 DEF ReplayStep
      <4>3. iter[s] = (of(s) # {} /\ log[Max(of(s))].outcome = "include")
        <5> HIDE DEF iter, of, log
        <5>1. QED
          BY <3>3, <4>1, <4>2
      <4>4. QED
        <5> HIDE DEF iter, of, log
        <5>1. QED
          BY <4>3
    <3>6. QED
      BY <3>4, <3>5
  <2>3. QED
    BY <2>1, <2>2
<1>8. DOMAIN log \in Q
  <2> HIDE DEF Q, log
  <2>1. \A s \in SUBSET DOMAIN log : s \in Q
    BY <1>1, <1>7, SubsetInduction
  <2>2. QED
    BY <2>1
<1>9. Replayed(p, r) = iter[DOMAIN log]
  BY DEF Replayed, FoldLeft, MapThenFoldSet, ReplayStep
<1>10. of(DOMAIN log) = IndicesOf(log, r)
  BY EvidenceAssumption DEF EvidenceAssumption, IndicesOf
<1>11. QED
  <2> HIDE DEF iter, of
  <2>1. Replayed(p, r) = (of(DOMAIN log) # {} /\ log[Max(of(DOMAIN log))].outcome = "include")
    BY <1>8, <1>9
  <2>2. Replayed(p, r) = (IndicesOf(votes[p], r) # {} /\ votes[p][Max(IndicesOf(votes[p], r))].outcome = "include")
    BY <1>10, <2>1
  <2>3. QED
    BY <2>2, OutcomesAreVotes DEF LatestVote

\* A decided outcome of a roster is that of a vote or of a resolution.
LEMMA ProjectOutcomeIsVote ==
  ASSUME VotesOK, NEW p \in Pubs
  PROVE  /\ ProjectOutcome(p).status \in {"incomplete", "agreement", "resolved", "conflict", "stale_resolution"}
         /\ ProjectOutcome(p).status \notin {"incomplete", "conflict", "stale_resolution"} =>
              ProjectOutcome(p).outcome \in Votes
<1> DEFINE latest == {LatestVote(p, r) : r \in roster}
           one == CHOOSE o \in latest : TRUE
           current == resolved[p] # None /\ resolved[p].seen = Len(votes[p])
<1>1. latest \subseteq Votes \cup {None}
  BY LatestVoteIsVote
<1>2. ASSUME None \notin latest, Cardinality(latest) = 1
      PROVE  one \in Votes
  <2> HIDE DEF latest
  <2>1. latest # {}
    BY <1>2, FS_EmptySet
  <2>2. QED
    BY <1>1, <1>2, <2>1
<1>3. current => resolved[p].outcome \in Votes
  BY DEF VotesOK
<1>4. ProjectOutcome(p) =
        CASE None \in latest -> [status |-> "incomplete", outcome |-> None]
          [] None \notin latest /\ Cardinality(latest) = 1 ->
               [status |-> "agreement", outcome |-> one]
          [] OTHER ->
               IF current THEN [status |-> "resolved", outcome |-> resolved[p].outcome]
               ELSE IF resolved[p] = None THEN [status |-> "conflict", outcome |-> None]
               ELSE [status |-> "stale_resolution", outcome |-> None]
  BY DEF ProjectOutcome
<1> HIDE DEF latest, current, one
<1>5. CASE None \in latest
  BY <1>4, <1>5
<1>6. CASE None \notin latest /\ Cardinality(latest) = 1
  BY <1>2, <1>4, <1>6
<1>7. CASE None \notin latest /\ Cardinality(latest) # 1
  BY <1>3, <1>4, <1>7
<1>8. QED
  BY <1>5, <1>6, <1>7

\* What the gate asks of screening when it opens.
LEMMA OpenGate ==
  ASSUME VotesOK, NEW p \in Pubs, NEW r
  PROVE  Evaluate(p, r) = "eligible" <=>
           /\ config # None /\ p \in input.pubs
           /\ ScreeningOutcome(p, r).status \notin {"incomplete", "conflict", "stale_resolution"}
           /\ ScreeningOutcome(p, r).outcome = "include"
           /\ qaConfig # None => HasCompletedAssessment(p, r)
<1> DEFINE s == ScreeningOutcome(p, r)
<1>1. s.status \notin {"incomplete", "conflict", "stale_resolution"} => s.outcome \in Votes
  <2>1. CASE roster # {}
    BY <2>1, ProjectOutcomeIsVote DEF ScreeningOutcome
  <2>2. CASE roster = {}
    BY <2>2, LatestVoteIsVote DEF ScreeningOutcome
  <2>3. QED
    BY <2>1, <2>2
<1>2. s.status \notin {"incomplete", "conflict", "stale_resolution"} => s.outcome # "eligible"
  BY <1>1, OutcomesAreVotes
<1> HIDE DEF s
<1>3. QED
  BY <1>2 DEF Evaluate, s

\* With one reviewer at a time, extraction offers the publications whose last vote
\* of the reviewer is an include and, once quality assessment is configured, those
\* the reviewer has assessed: what quality assessment lists.
LEMMA OfferedIsAssessed ==
  ASSUME VotesOK, NEW r \in Reviewers, input.ready, roster = {}, config # None
  PROVE  EligiblePublications(r) = IF qaConfig = None THEN QaEligible(r) ELSE QaRecords(r, "assessed")
<1>1. r # Anyone
  BY EvidenceAssumption DEF EvidenceAssumption
<1>2. ASSUME NEW p \in input.pubs
      PROVE  Evaluate(p, r) = "eligible" <=> Replayed(p, r) /\ (qaConfig # None => AssessedBy(p, r) # {})
  <2>1. p \in Pubs
    BY DEF VotesOK
  <2>2. /\ ScreeningOutcome(p, r).status \in {"incomplete", "agreement"}
        /\ ScreeningOutcome(p, r).status = "incomplete" <=> LatestVote(p, r) = None
        /\ ScreeningOutcome(p, r).outcome = LatestVote(p, r)
    BY DEF ScreeningOutcome
  <2>3. HasCompletedAssessment(p, r) <=> AssessedBy(p, r) # {}
    BY <1>1 DEF HasCompletedAssessment
  <2>4. Replayed(p, r) <=> LatestVote(p, r) = "include"
    BY <2>1, ReplayIsLatest
  <2>5. QED
    BY <2>1, <2>2, <2>3, <2>4, OpenGate, OutcomesAreVotes
<1>3. EligiblePublications(r) = {p \in input.pubs : Evaluate(p, r) = "eligible"}
  BY DEF EligiblePublications
<1>4. QaEligible(r) = {p \in input.pubs : Replayed(p, r)}
  BY DEF QaEligible
<1>5. QaRecords(r, "assessed") = {p \in QaEligible(r) : AssessedBy(p, r) # {}}
  BY DEF QaRecords
<1>6. CASE qaConfig = None
  BY <1>2, <1>3, <1>4, <1>6
<1>7. CASE qaConfig # None
  BY <1>2, <1>3, <1>4, <1>5, <1>7
<1>8. QED
  BY <1>6, <1>7

\* A request without a reviewer has assessed nothing.
LEMMA AnyoneIsOfferedNothing ==
  ASSUME VotesOK, qaConfig # None
  PROVE  EligiblePublications(Anyone) = {}
<1>1. ASSUME NEW p \in input.pubs
      PROVE  Evaluate(p, Anyone) # "eligible"
  <2>1. p \in Pubs
    BY DEF VotesOK
  <2>2. ~HasCompletedAssessment(p, Anyone)
    BY DEF HasCompletedAssessment
  <2>3. QED
    BY <2>1, <2>2, OpenGate
<1>2. QED
  BY <1>1 DEF EligiblePublications

\* Before quality assessment is configured nothing is listed as assessed.
LEMMA NothingIsAssessed ==
  ASSUME QaOK, qaConfig = None, NEW r
  PROVE  Cardinality(QaRecords(r, "assessed")) = QaOverview(r).assessed
<1>1. QaRecords(r, "assessed") = {p \in QaEligible(r) : AssessedBy(p, r) # {}}
  BY DEF QaRecords
<1>2. QaEligible(r) \subseteq input.pubs
  BY DEF QaEligible
<1>3. exists => \A p : AssessedBy(p, r) = {}
  BY DEF QaOK, AssessedBy
<1>4. ~exists => input.pubs = {}
  BY DEF QaOK
<1>5. QaRecords(r, "assessed") = {}
  BY <1>1, <1>2, <1>3, <1>4
<1>6. QED
  BY <1>5, FS_EmptySet DEF QaOverview

\* The records listed as assessed and as unassessed add up to the overview.
LEMMA RecordsAddUp ==
  ASSUME VotesOK, qaConfig # None, NEW r
  PROVE  /\ Cardinality(QaRecords(r, "assessed")) = QaOverview(r).assessed
         /\ Cardinality(QaRecords(r, "unassessed")) = QaOverview(r).total - QaOverview(r).assessed
<1> DEFINE all == QaEligible(r)
           done == {p \in all : AssessedBy(p, r) # {}}
           open == {p \in all : AssessedBy(p, r) = {}}
<1>1. QaRecords(r, "assessed") = done /\ QaRecords(r, "unassessed") = open
  BY DEF QaRecords
<1>2. QaOverview(r).total = Cardinality(all) /\ QaOverview(r).assessed = Cardinality(done)
  BY DEF QaOverview
<1>3. all \subseteq Pubs
  BY DEF QaEligible, VotesOK
<1>4. open = all \ done /\ all \cap done = done
  OBVIOUS
<1> HIDE DEF all, done, open
<1>5. IsFiniteSet(all)
  BY <1>3, EvidenceAssumption, FS_Subset DEF EvidenceAssumption
<1>6. Cardinality(open) = Cardinality(all) - Cardinality(done)
  <2>1. Cardinality(all \ done) = Cardinality(all) - Cardinality(all \cap done)
    BY <1>5, FS_Difference
  <2>2. QED
    BY <1>4, <2>1
<1>7. QED
  BY <1>1, <1>2, <1>6

\* A profile is a stored assessment, and nobody's is newer than that of everybody.
LEMMA ProfileIsThere ==
  ASSUME IInv, NEW r, NEW p \in QaRecords(r, "assessed")
  PROVE  QaProfile(p, r) # 0 /\ QaProfile(p, Anyone) >= QaProfile(p, r)
<1>1. p \in input.pubs /\ AssessedBy(p, r) # {}
  BY DEF QaRecords, QaEligible
<1>2. AssessedBy(p, r) \subseteq AssessedBy(p, Anyone) /\ AssessedBy(p, Anyone) \in SUBSET DOMAIN assessments
  BY DEF AssessedBy
<1>3. assessments \in Seq(AssessmentRows)
  BY DEF IInv, AssessmentsOK
<1>4. /\ Max(AssessedBy(p, r)) \in AssessedBy(p, r)
      /\ Max(AssessedBy(p, Anyone)) \in AssessedBy(p, Anyone)
      /\ \A i \in AssessedBy(p, Anyone) : Max(AssessedBy(p, Anyone)) >= i
  BY <1>1, <1>2, <1>3, MaxOfPositions
<1>5. Max(AssessedBy(p, r)) \in DOMAIN assessments
  BY <1>2, <1>4
<1>6. Max(AssessedBy(p, r)) # 0
  BY <1>3, <1>5
<1>7. AssessedBy(p, Anyone) # {}
  BY <1>1, <1>2
<1>8. QED
  BY <1>1, <1>2, <1>4, <1>6, <1>7 DEF QaProfile

\* A dataset row is the reviewer's last revision of a publication that is offered.
LEMMA ReadModelIsRevision ==
  ASSUME IInv, VotesOK, NEW r, NEW statuses, NEW m \in ReadModels(r, statuses)
  PROVE  /\ m.pub \in EligiblePublications(r) /\ m.pub \in input.pubs /\ m.pub \in Pubs
         /\ m.index = LatestRevision(m.pub, r) /\ m.index # 0
         /\ m.index \in DOMAIN revisions[m.pub]
<1>1. PICK p \in EligiblePublications(r) :
        LatestRevision(p, r) # 0 /\ m = [pub |-> p, index |-> LatestRevision(p, r), template |-> config]
  BY DEF ReadModels
<1>2. p \in input.pubs /\ p \in Pubs
  BY DEF EligiblePublications, VotesOK
<1>3. revisions[p] \in Seq(RevisionRows)
  BY <1>2 DEF IInv, ExtractionOK
<1>4. IndicesOf(revisions[p], r) \in SUBSET DOMAIN revisions[p] /\ IndicesOf(revisions[p], r) # {}
  BY <1>1 DEF IndicesOf, LatestRevision
<1>5. Max(IndicesOf(revisions[p], r)) \in DOMAIN revisions[p]
  BY <1>3, <1>4, MaxOfPositions
<1>6. LatestRevision(p, r) \in DOMAIN revisions[p]
  BY <1>4, <1>5 DEF LatestRevision
<1>7. m.pub = p /\ m.index = LatestRevision(p, r)
  BY <1>1
<1>8. QED
  BY <1>1, <1>2, <1>6, <1>7

\* Its items and fields can be traced, and the items are in the matrix unless
\* somebody else has revised the record since.
LEMMA DatasetIsTraced ==
  ASSUME IInv, VotesOK, NEW r, NEW m \in ReadModels(r, {"complete"})
  PROVE  /\ \A i \in DOMAIN revisions[m.pub][m.index].form.items :
              /\ Traceable(m.pub, m.index, i)
              /\ m.index = LatestRevision(m.pub, Anyone) => <<m.pub, i>> \in MatrixRows(r)
         /\ \A k \in DOMAIN revisions[m.pub][m.index].form.values : TraceableField(m.pub, m.index, k)
<1>1. /\ m.pub \in EligiblePublications(r) /\ m.pub \in input.pubs
      /\ m.index # 0 /\ m.index \in DOMAIN revisions[m.pub]
  BY ReadModelIsRevision
<1>2. ASSUME NEW i \in DOMAIN revisions[m.pub][m.index].form.items
      PROVE  Traceable(m.pub, m.index, i)
  BY <1>1, <1>2 DEF Traceable
<1>3. ASSUME NEW k \in DOMAIN revisions[m.pub][m.index].form.values
      PROVE  TraceableField(m.pub, m.index, k)
  BY <1>1, <1>3 DEF TraceableField
<1>4. ASSUME NEW i \in DOMAIN revisions[m.pub][m.index].form.items, m.index = LatestRevision(m.pub, Anyone)
      PROVE  <<m.pub, i>> \in MatrixRows(r)
  <2> DEFINE rows(p) == {<<p, j>> : j \in IF LatestRevision(p, Anyone) = 0 THEN {}
                                          ELSE DOMAIN revisions[p][LatestRevision(p, Anyone)].form.items}
  <2>1. <<m.pub, i>> \in rows(m.pub)
    BY <1>1, <1>4
  <2>2. MatrixRows(r) = UNION {rows(p) : p \in EligiblePublications(r)}
    BY DEF MatrixRows
  <2> HIDE DEF rows
  <2>3. QED
    BY <1>1, <2>1, <2>2
<1>5. QED
  BY <1>2, <1>3, <1>4

\* The status of a publication is that of its last revision or not started.
LEMMA StatusIsOne ==
  ASSUME IInv, NEW p \in Pubs
  PROVE  StatusOf(p) \in {"not_started", "in_progress", "complete"}
<1>1. revisions[p] \in Seq(RevisionRows)
  BY DEF IInv, ExtractionOK
<1>2. CASE LatestRevision(p, Anyone) # 0
  <2>1. IndicesOf(revisions[p], Anyone) \in SUBSET DOMAIN revisions[p] /\ IndicesOf(revisions[p], Anyone) # {}
    BY <1>2 DEF IndicesOf, LatestRevision
  <2>2. Max(IndicesOf(revisions[p], Anyone)) \in DOMAIN revisions[p]
    BY <1>1, <2>1, MaxOfPositions
  <2>3. revisions[p][LatestRevision(p, Anyone)] \in RevisionRows
    BY <1>1, <2>1, <2>2 DEF LatestRevision
  <2>4. revisions[p][LatestRevision(p, Anyone)].status \in Stored
    BY <2>3 DEF RevisionRows
  <2>5. QED
    BY <1>2, <2>4 DEF StatusOf, Stored
<1>3. QED
  BY <1>2 DEF StatusOf

\* The counts of progress add up to the list of records.
LEMMA ProgressAddsUp ==
  ASSUME IInv, VotesOK, NEW r
  PROVE  Progress(r)["not_started"] + Progress(r)["in_progress"] + Progress(r)["complete"] =
           Cardinality(Summaries(r))
<1> DEFINE E == EligiblePublications(r)
           A == {p \in E : StatusOf(p) = "not_started"}
           B == {p \in E : StatusOf(p) = "in_progress"}
           C == {p \in E : StatusOf(p) = "complete"}
           f == [p \in E |-> [pub |-> p, status |-> StatusOf(p), index |-> LatestRevision(p, Anyone)]]
<1>1. /\ Progress(r)["not_started"] = Cardinality(A) /\ Progress(r)["in_progress"] = Cardinality(B)
      /\ Progress(r)["complete"] = Cardinality(C)
  BY DEF Progress
<1>2. E \subseteq Pubs
  BY DEF EligiblePublications, VotesOK
<1>3. E = (A \cup B) \cup C /\ A \cap B = {} /\ (A \cup B) \cap C = {}
  BY <1>2, StatusIsOne
<1>4. f \in Bijection(E, Summaries(r))
  <2>1. \A p \in E : f[p].pub = p
    OBVIOUS
  <2>2. Summaries(r) = {f[p] : p \in E} /\ f = [p \in E |-> f[p]]
    BY DEF Summaries
  <2> HIDE DEF f, E
  <2>3. f \in [E -> Summaries(r)]
    BY <2>2
  <2>4. \A p, q \in E : f[p] = f[q] => p = q
    BY <2>1
  <2>5. \A t \in Summaries(r) : \E p \in E : f[p] = t
    BY <2>2
  <2>6. QED
    BY <2>3, <2>4, <2>5, Zenon DEF Bijection, Injection, Surjection, IsInjective
<1> HIDE DEF E, A, B, C, f
<1>5. IsFiniteSet(E) /\ IsFiniteSet(A) /\ IsFiniteSet(B) /\ IsFiniteSet(C)
  <2>1. IsFiniteSet(E)
    BY <1>2, EvidenceAssumption, FS_Subset DEF EvidenceAssumption
  <2>2. A \in SUBSET E /\ B \in SUBSET E /\ C \in SUBSET E
    BY <1>3
  <2>3. QED
    BY <2>1, <2>2, FS_Subset
<1>6. Cardinality(Summaries(r)) = Cardinality(E)
  BY <1>4, <1>5, FS_Bijection DEF ExistsBijection
<1>7. /\ IsFiniteSet(A \cup B)
      /\ Cardinality(A \cup B) = Cardinality(A) + Cardinality(B) - Cardinality(A \cap B)
  BY <1>5, FS_Union
<1>8. Cardinality(E) = Cardinality(A \cup B) + Cardinality(C) - Cardinality((A \cup B) \cap C)
  BY <1>3, <1>5, <1>7, FS_Union
<1>9. /\ Cardinality(A) \in Nat /\ Cardinality(B) \in Nat /\ Cardinality(C) \in Nat
      /\ Cardinality({}) = 0
  BY <1>5, FS_CardinalityType, FS_EmptySet
<1>10. Cardinality(A \cap B) = 0 /\ Cardinality((A \cup B) \cap C) = 0
  BY <1>3, <1>9
<1>11. Cardinality(A) + Cardinality(B) + Cardinality(C) = Cardinality(E)
  BY <1>7, <1>8, <1>9, <1>10
<1>12. QED
  BY <1>1, <1>6, <1>11

\* What is read for complete records is read for complete and incomplete ones.
LEMMA MoreStatusesReadMore ==
  ASSUME NEW r
  PROVE  Relationships(r, {"complete"}) \subseteq Relationships(r, {"complete", "in_progress"})
<1>1. ReadModels(r, {"complete"}) \subseteq ReadModels(r, {"complete", "in_progress"})
  BY DEF ReadModels
<1>2. QED
  BY <1>1 DEF Relationships

\* The gates and the views of extraction, quality assessment and synthesis agree,
\* for any votes, resolutions, merges and submissions before
\* (services/extraction_eligibility_service.py,
\* services/quality_assessment_execution_service.py).
THEOREM GatesAlwaysAgree == Spec => []GatesAgree
<1>1. IInv /\ VotesOK /\ QaOK => GatesAgree
  <2> SUFFICES ASSUME IInv, VotesOK, QaOK PROVE GatesAgree
    OBVIOUS
  <2>1. QED
    BY NothingIsAssessed, RecordsAddUp, OfferedIsAssessed, ProfileIsThere, DatasetIsTraced, ProgressAddsUp,
       MoreStatusesReadMore, AnyoneIsOfferedNothing DEF GatesAgree
<1>2. Spec => []VotesOK
  BY VotesInit, VotesStay, PTL DEF Spec
<1>3. Spec => []QaOK
  BY QaInit, QaStay, Invariant, PTL DEF Spec
<1>4. QED
  BY <1>1, <1>2, <1>3, Invariant, PTL

================================================================================
