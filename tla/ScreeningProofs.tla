---------------------------- MODULE ScreeningProofs ----------------------------
(***************************************************************************)
(* Theorems about Screening, for every corpus, reviewers, criteria and     *)
(* number of concurrent requests.                                          *)
(***************************************************************************)
EXTENDS Screening, SetFacts

StoredCriteria == CriterionRows \cup {Deactivated(c) : c \in CriterionRows}

SurroundingsOK ==
  /\ input.ready \in BOOLEAN /\ input.pubs \subseteq Pubs
  /\ roster \in [Stages -> SUBSET Reviewers]
  /\ criteria \in [Criteria -> StoredCriteria \cup {NoCriterion}]
  /\ \A k \in Criteria : criteria[k] # NoCriterion => ValidCriterion(criteria[k])
  /\ edits \in 0 .. MaxEdits

\* The ids a key was computed from.
LinksOf(key) == {key.latest[r][1] : r \in DOMAIN key.latest}

\* A resolution was made on what its resolver had been shown.
MadeOnWhatWasSeen(q) ==
  /\ q.key = q.seen /\ q.links = LinksOf(q.key)
  /\ q.links \subseteq DOMAIN decisions /\ q.outcome \in Outcomes

KeyRows ==
  [pub : Pubs, stage : Stages,
   latest : UNION {[S -> Nat \X (Outcomes \cup {"PENDING"})] : S \in SUBSET Reviewers}]

ResolutionRows ==
  [pub : Pubs, stage : Stages, key : KeyRows, outcome : Outcomes, links : SUBSET Nat,
   seen : KeyRows, at : Nat]

ResolutionsOK ==
  /\ resolutions \in Seq(ResolutionRows)
  /\ \A x \in DOMAIN resolutions : MadeOnWhatWasSeen(resolutions[x]) /\ resolutions[x].at < Now

DecisionsOK ==
  /\ decisions \in Seq(DecisionRows)
  /\ \A i \in DOMAIN decisions : decisions[i].at < Now

\* A request in flight was let in, and what it resolves was seen.
RequestOK(q) ==
  /\ q.pc = "decide" =>
       /\ q.pub \in Pubs /\ q.stage \in Stages /\ q.reviewer \in Reviewers /\ q.outcome \in Votes
       /\ q.values \in AssessmentInputs /\ q.reasons \subseteq Criteria /\ q.edited \subseteq Criteria
       /\ q = [pc |-> "decide", pub |-> q.pub, stage |-> q.stage, reviewer |-> q.reviewer,
               outcome |-> q.outcome, values |-> q.values, reasons |-> q.reasons,
               edited |-> q.edited]
       /\ q.stage = FT => IncludedBefore(q.pub, Now)
       /\ q.stage = TA => q.reasons = {}
  /\ q.pc = "availability" =>
       q.pub \in Pubs /\ q.status \in Statuses /\ IncludedBefore(q.pub, Now)
  /\ q.pc = "loaded" => q.pub \in Pubs /\ q.stage \in Stages /\ q.seen \in KeyRows
  /\ q.pc = "resolve" =>
       /\ q.pub \in Pubs /\ q.stage \in Stages /\ q.seen \in KeyRows
       /\ MadeOnWhatWasSeen(q)

CallsOK ==
  /\ call = [c \in Clients |-> call[c]]
  /\ \A c \in Clients : RequestOK(call[c])

AvailabilityOK == availability \in [Pubs -> Statuses]

IInv ==
  /\ SurroundingsOK /\ DecisionsOK /\ ResolutionsOK /\ AvailabilityOK /\ CallsOK
  /\ FullTextFollowsInclude

\* The reasons a request has had checked explain an exclusion still, but for those
\* it noted as edited since.
ReasonExplains(k, q) ==
  LET assessed == Assessed(q.values, Automatic(q.pub, q.stage))
  IN /\ k \in DOMAIN assessed
     /\ <<criteria[k].type, assessed[k]>> \in {<<"inclusion", "not_met">>, <<"exclusion", "met">>}

ReasonsHold ==
  /\ ReasonIsAssessed
  /\ \A c \in Clients : call[c].pc = "decide" =>
       \A k \in call[c].reasons \ call[c].edited : ReasonExplains(k, call[c])

-----------------------------------------------------------------------------
(* Lemmas about the decision history.                                        *)

\* The latest decision of a reviewer is one of them, and 0 stands for none.
LEMMA LatestIsOwn ==
  ASSUME DecisionsOK, NEW p, NEW stage, NEW r
  PROVE  /\ LatestDecision(p, stage, r) \in Nat
         /\ LatestDecision(p, stage, r) # 0 =>
              LatestDecision(p, stage, r) \in History(p, stage, r)
         /\ History(p, stage, r) \in SUBSET DOMAIN decisions
<1> DEFINE H == History(p, stage, r)
<1>1. decisions \in Seq(DecisionRows) /\ H \in SUBSET DOMAIN decisions
  BY DEF DecisionsOK, History
<1>2. DOMAIN decisions \subseteq Nat
  BY <1>1
<1>3. H # {} => Max(H) \in H
  <2> HIDE DEF H
  <2>1. QED
    BY <1>1, MaxOfPositions
<1>4. LatestDecision(p, stage, r) = IF H = {} THEN 0 ELSE Max(H)
  BY DEF LatestDecision
<1> HIDE DEF H
<1>5. QED
  BY <1>1, <1>2, <1>3, <1>4 DEF H

\* The greatest of some decisions of a publication and stage is one of them.
LEMMA GreatestIsThere ==
  ASSUME DecisionsOK, NEW S \in SUBSET DOMAIN decisions, S # {}
  PROVE  Max(S) \in S
BY MaxOfPositions DEF DecisionsOK

\* What is listed first is a decision of the reviewer on the publication.
LEMMA FirstListedIsOwn ==
  ASSUME DecisionsOK, NEW p, NEW stage, NEW r, FirstListed(p, stage, r) # 0
  PROVE  FirstListed(p, stage, r) \in History(p, stage, r)
<1> DEFINE mine == {n \in ListByProject(stage) : Newest[n].reviewer = r /\ Newest[n].pub = p}
           n == Min(mine)
<1>1. FirstListed(p, stage, r) = Len(decisions) + 1 - n /\ mine # {}
  BY DEF FirstListed
<1>2. decisions \in Seq(DecisionRows) /\ Len(decisions) \in Nat
  BY DEF DecisionsOK
<1>3. DOMAIN Newest = 1 .. Len(decisions)
      /\ \A m \in 1 .. Len(decisions) : Newest[m] = decisions[(Len(decisions) - m) + 1]
  BY DEF Newest, Reverse
<1>4. mine \in SUBSET Nat
  BY <1>2, <1>3 DEF ListByProject
<1>5. n \in mine
  <2> HIDE DEF mine
  <2>1. QED
    BY <1>1, <1>4, MinOfSet
<1> DEFINE i == Len(decisions) + 1 - n
<1>6. n \in 1 .. Len(decisions) /\ Newest[n] = decisions[(Len(decisions) - n) + 1]
      /\ Newest[n].stage = stage /\ Newest[n].reviewer = r /\ Newest[n].pub = p
  BY <1>3, <1>5 DEF ListByProject
<1> HIDE DEF n, mine
<1>7. i \in DOMAIN decisions /\ i = (Len(decisions) - n) + 1
  BY <1>2, <1>6
<1>8. QED
  BY <1>1, <1>6, <1>7 DEF History

\* The latest resolution of a publication and stage is one of them.
LEMMA LatestResolutionIsThere ==
  ASSUME ResolutionsOK, NEW p, NEW stage, LatestResolution(p, stage) # 0
  PROVE  LET x == LatestResolution(p, stage)
         IN x \in DOMAIN resolutions /\ resolutions[x].pub = p /\ resolutions[x].stage = stage
<1> DEFINE mine == {i \in DOMAIN resolutions : resolutions[i].pub = p /\ resolutions[i].stage = stage}
<1>1. LatestResolution(p, stage) = Max(mine) /\ mine # {}
  BY DEF LatestResolution
<1>2. mine \in SUBSET DOMAIN resolutions /\ resolutions \in Seq(ResolutionRows)
  BY DEF ResolutionsOK
<1>3. Max(mine) \in mine
  <2> HIDE DEF mine
  <2>1. QED
    BY <1>1, <1>2, MaxOfPositions
<1>4. QED
  BY <1>1, <1>3

\* When everyone who is expected has decided, there are outcomes to compare.
LEMMA OutcomesToCompare ==
  ASSUME DecisionsOK, NEW p, NEW stage, HasRecord(p, stage), 0 \notin Range(ByReviewer(p, stage))
  PROVE  LET ids == Range(ByReviewer(p, stage))
         IN /\ ids # {}
            /\ \A i \in ids : i \in DOMAIN decisions /\ decisions[i].pub = p /\ decisions[i].stage = stage
            /\ Cardinality(OutcomesOf(ids)) \in Nat \ {0}
<1> DEFINE ids == Range(ByReviewer(p, stage))
           outcomes == OutcomesOf(ids)
<1>1. ids = {LatestDecision(p, stage, r) : r \in Expected(p, stage)}
  BY DEF ByReviewer, Range
<1>2. ids # {}
  BY <1>1 DEF HasRecord
<1>3. ASSUME NEW i \in ids
      PROVE  i \in DOMAIN decisions /\ decisions[i].pub = p /\ decisions[i].stage = stage
             /\ decisions[i].outcome \in Outcomes
  <2>1. PICK r \in Expected(p, stage) : i = LatestDecision(p, stage, r)
    BY <1>1
  <2>2. i \in History(p, stage, r)
    BY <2>1, LatestIsOwn
  <2>3. decisions[i] \in DecisionRows
    BY <2>2 DEF History, DecisionsOK
  <2>4. QED
    BY <2>2, <2>3 DEF History, DecisionRows
<1>4. outcomes \in SUBSET Outcomes /\ outcomes # {}
  BY <1>2, <1>3 DEF OutcomesOf
<1>5. IsFiniteSet(Outcomes)
  <2>1. Outcomes = {"include"} \cup {"exclude"} \cup {"uncertain"}
    BY DEF Outcomes
  <2>2. QED
    BY <2>1, FS_Singleton, FS_Union
<1>6. Cardinality(outcomes) \in Nat \ {0}
  <2> HIDE DEF outcomes
  <2>1. IsFiniteSet(outcomes)
    BY <1>4, <1>5, FS_Subset
  <2>2. QED
    BY <1>4, <2>1, FS_CardinalityType, FS_EmptySet
<1>7. QED
  BY <1>2, <1>3, <1>6

\* What agreement and resolution say of the decisions.
LEMMA WhatStatusSays ==
  ASSUME DecisionsOK, NEW p, NEW stage, HasRecord(p, stage)
  PROVE  LET ids == Range(ByReviewer(p, stage))
             res == LatestResolution(p, stage)
         IN /\ ConflictStatus(p, stage) \in {"agreement", "resolved"} => 0 \notin ids
            /\ ConflictStatus(p, stage) = "resolved" =>
                 /\ Cardinality(OutcomesOf(ids)) > 1 /\ res # 0
                 /\ resolutions[res].key = DecisionSetKey(p, stage)
<1> DEFINE ids == Range(ByReviewer(p, stage))
           n == Cardinality(OutcomesOf(ids))
           res == LatestResolution(p, stage)
           late == IF res = 0 THEN "conflict"
                   ELSE IF resolutions[res].key = DecisionSetKey(p, stage) THEN "resolved"
                   ELSE "stale_resolution"
<1>1. CASE 0 \in ids
  <2>1. ConflictStatus(p, stage) = "incomplete"
    BY <1>1 DEF ConflictStatus
  <2>2. QED
    BY <2>1
<1>2. CASE 0 \notin ids
  <2>1. n \in Nat \ {0}
    BY <1>2, OutcomesToCompare
  <2>2. CASE n = 1
    <3>1. ConflictStatus(p, stage) = "agreement"
      BY <1>2, <2>2 DEF ConflictStatus
    <3>2. QED
      BY <1>2, <3>1
  <2>3. CASE n > 1
    <3>1. n # 1
      BY <2>1, <2>3
    <3>2. ConflictStatus(p, stage) = late
      BY <1>2, <2>3, <3>1 DEF ConflictStatus
    <3>3. QED
      BY <1>2, <2>3, <3>2
  <2>4. QED
    BY <2>1, <2>2, <2>3
<1>3. QED
  BY <1>1, <1>2

-----------------------------------------------------------------------------
(* The gate of full text.                                                    *)

\* An include, or a resolution to include, that is there was there before now.
LEMMA IncludeIsBeforeNow ==
  ASSUME DecisionsOK, NEW p, NEW i \in DOMAIN decisions, decisions[i].pub = p,
         decisions[i].stage = TA, decisions[i].outcome = "include"
  PROVE  IncludedBefore(p, Now)
BY DEF DecisionsOK, IncludedBefore

LEMMA ResolutionIsBeforeNow ==
  ASSUME ResolutionsOK, NEW p, NEW x \in DOMAIN resolutions, resolutions[x].pub = p,
         resolutions[x].stage = TA, resolutions[x].outcome = "include"
  PROVE  IncludedBefore(p, Now)
BY DEF ResolutionsOK, IncludedBefore

\* A publication whose project outcome is include was included by someone.
LEMMA OutcomeWasMade ==
  ASSUME DecisionsOK, ResolutionsOK, NEW p,
         IsFinal(ProjectOutcome(p, TA)), ProjectOutcome(p, TA).outcome = "include"
  PROVE  IncludedBefore(p, Now)
<1>1. CASE ~HasRecord(p, TA)
  <2> DEFINE all == LatestAll(p, TA)
  <2>1. all # {} /\ decisions[Max(all)].outcome = "include"
    BY <1>1 DEF ProjectOutcome, IsFinal
  <2>2. \A i \in all : i \in DOMAIN decisions /\ decisions[i].pub = p /\ decisions[i].stage = TA
    BY LatestIsOwn DEF LatestAll, History
  <2>3. Max(all) \in all
    <3> HIDE DEF all
    <3>1. all \in SUBSET DOMAIN decisions
      BY <2>2
    <3>2. QED
      BY <2>1, <3>1, GreatestIsThere
  <2> HIDE DEF all
  <2>4. QED
    BY <2>1, <2>2, <2>3, IncludeIsBeforeNow
<1>2. CASE HasRecord(p, TA) /\ ConflictStatus(p, TA) = "agreement"
  <2> DEFINE ids == Range(ByReviewer(p, TA))
  <2>1. decisions[Max(ids)].outcome = "include"
    BY <1>2 DEF ProjectOutcome
  <2>2. /\ ids # {}
        /\ \A i \in ids : i \in DOMAIN decisions /\ decisions[i].pub = p /\ decisions[i].stage = TA
    BY <1>2, WhatStatusSays, OutcomesToCompare
  <2>3. Max(ids) \in ids
    <3> HIDE DEF ids
    <3>1. ids \in SUBSET DOMAIN decisions
      BY <2>2
    <3>2. QED
      BY <2>2, <3>1, GreatestIsThere
  <2> HIDE DEF ids
  <2>4. QED
    BY <2>1, <2>2, <2>3, IncludeIsBeforeNow
<1>3. CASE HasRecord(p, TA) /\ ConflictStatus(p, TA) = "resolved"
  <2> DEFINE x == LatestResolution(p, TA)
  <2>1. resolutions[x].outcome = "include"
    BY <1>3 DEF ProjectOutcome
  <2>2. x # 0
    BY <1>3, WhatStatusSays
  <2>3. QED
    BY <2>1, <2>2, LatestResolutionIsThere, ResolutionIsBeforeNow
<1>4. QED
  BY <1>1, <1>2, <1>3 DEF ProjectOutcome, IsFinal

\* Whom full text accepts was included before, with a roster and without one.
LEMMA EligibleWasIncluded ==
  ASSUME DecisionsOK, ResolutionsOK, NEW p, NEW r, FullTextRecord(p, r)
  PROVE  IncludedBefore(p, Now)
<1>1. p \in WithOutcome(TA, r, "include")
  BY DEF FullTextRecord, EligiblePublications
<1>2. CASE HasActiveRoster(TA)
  <2>1. IsFinal(ProjectOutcome(p, TA)) /\ ProjectOutcome(p, TA).outcome = "include"
    BY <1>1, <1>2 DEF WithOutcome
  <2>2. QED
    BY <2>1, OutcomeWasMade
<1>3. CASE ~HasActiveRoster(TA)
  <2> DEFINE i == FirstListed(p, TA, r)
  <2>1. i # 0 /\ decisions[i].outcome = "include"
    BY <1>1, <1>3 DEF WithOutcome
  <2>2. i \in History(p, TA, r)
    BY <2>1, FirstListedIsOwn
  <2>3. QED
    BY <2>1, <2>2, IncludeIsBeforeNow DEF History
<1>4. QED
  BY <1>2, <1>3

-----------------------------------------------------------------------------
(* What a step leaves as it was.                                             *)

\* Rows are only ever added to the two tables.
Kept ==
  /\ \A i \in DOMAIN decisions : i \in DOMAIN decisions' /\ decisions'[i] = decisions[i]
  /\ \A x \in DOMAIN resolutions : x \in DOMAIN resolutions' /\ resolutions'[x] = resolutions[x]
  /\ Now <= Now'

LEMMA NowIsNatural ==
  ASSUME DecisionsOK, ResolutionsOK
  PROVE  Now \in Nat \ {0} /\ Now = Len(decisions) + Len(resolutions) + 1
<1>1. Len(decisions) \in Nat /\ Len(resolutions) \in Nat
  BY DEF DecisionsOK, ResolutionsOK
<1>2. QED
  BY <1>1 DEF Now

LEMMA TimesAreNatural ==
  ASSUME DecisionsOK, ResolutionsOK
  PROVE  /\ \A i \in DOMAIN decisions : decisions[i].at \in Nat
         /\ \A x \in DOMAIN resolutions : resolutions[x].at \in Nat
<1>1. \A i \in DOMAIN decisions : decisions[i] \in DecisionRows
  BY DEF DecisionsOK
<1>2. \A x \in DOMAIN resolutions : resolutions[x] \in ResolutionRows
  BY DEF ResolutionsOK
<1>3. QED
  BY <1>1, <1>2 DEF DecisionRows, ResolutionRows

\* What was included before stays included before.
LEMMA IncludedStays ==
  ASSUME DecisionsOK, ResolutionsOK, Kept, NEW p, NEW t \in Nat, NEW u \in Nat, t <= u,
         IncludedBefore(p, t)
  PROVE  IncludedBefore(p, u)'
<1>1. CASE \E j \in DOMAIN decisions : /\ decisions[j].at < t /\ decisions[j].pub = p
                                       /\ decisions[j].stage = TA /\ decisions[j].outcome = "include"
  <2>1. PICK j \in DOMAIN decisions : /\ decisions[j].at < t /\ decisions[j].pub = p
                                      /\ decisions[j].stage = TA /\ decisions[j].outcome = "include"
    BY <1>1
  <2>2. decisions[j].at \in Nat
    BY TimesAreNatural
  <2>3. decisions[j].at < u
    BY <2>1, <2>2
  <2>4. j \in DOMAIN decisions' /\ decisions'[j] = decisions[j]
    BY DEF Kept
  <2>5. QED
    BY <2>1, <2>3, <2>4 DEF IncludedBefore, TA
<1>2. CASE \E x \in DOMAIN resolutions : /\ resolutions[x].at < t /\ resolutions[x].pub = p
                                         /\ resolutions[x].stage = TA /\ resolutions[x].outcome = "include"
  <2>1. PICK x \in DOMAIN resolutions : /\ resolutions[x].at < t /\ resolutions[x].pub = p
                                        /\ resolutions[x].stage = TA /\ resolutions[x].outcome = "include"
    BY <1>2
  <2>2. resolutions[x].at \in Nat
    BY TimesAreNatural
  <2>3. resolutions[x].at < u
    BY <2>1, <2>2
  <2>4. x \in DOMAIN resolutions' /\ resolutions'[x] = resolutions[x]
    BY DEF Kept
  <2>5. QED
    BY <2>1, <2>3, <2>4 DEF IncludedBefore, TA
<1>3. QED
  BY <1>1, <1>2 DEF IncludedBefore

LEMMA IncludedStaysNow ==
  ASSUME DecisionsOK, ResolutionsOK, DecisionsOK', ResolutionsOK', Kept, NEW p, IncludedBefore(p, Now)
  PROVE  IncludedBefore(p, Now)'
<1>1. PICK t \in Nat : t = Now
  BY NowIsNatural
<1>2. Len(decisions') \in Nat /\ Len(resolutions') \in Nat
  BY DEF DecisionsOK, ResolutionsOK
<1>3. PICK u \in Nat : u = Now'
  BY <1>2 DEF Now
<1>4. t <= u /\ IncludedBefore(p, t)
  BY <1>1, <1>3 DEF Kept
<1>5. IncludedBefore(p, u)'
  BY <1>4, IncludedStays
<1>6. QED
  BY <1>3, <1>5 DEF IncludedBefore

\* A request that was let in may still be served after rows were added.
LEMMA RequestStays ==
  ASSUME DecisionsOK, ResolutionsOK, DecisionsOK', ResolutionsOK', Kept, NEW q, RequestOK(q)
  PROVE  RequestOK(q)'
<1>1. IncludedBefore(q.pub, Now) => IncludedBefore(q.pub, Now)'
  BY IncludedStaysNow
<1>2. MadeOnWhatWasSeen(q) => MadeOnWhatWasSeen(q)'
  BY DEF MadeOnWhatWasSeen, Kept
<1>3. QED
  BY <1>1, <1>2 DEF RequestOK

LEMMA CallsStay ==
  ASSUME DecisionsOK, ResolutionsOK, DecisionsOK', ResolutionsOK', Kept, CallsOK,
         NEW c \in Clients, call' = [call EXCEPT ![c] = NoCall]
  PROVE  CallsOK'
<1>1. ASSUME NEW d \in Clients PROVE RequestOK(call[d])'
  <2>1. CASE d = c
    <3>1. call'[d] = NoCall
      BY <2>1 DEF CallsOK
    <3>2. QED
      BY <3>1 DEF RequestOK, NoCall
  <2>2. CASE d # c
    <3>1. PICK q : q = call[d]
      OBVIOUS
    <3>2. call'[d] = q
      BY <2>2, <3>1 DEF CallsOK
    <3>3. RequestOK(q)'
      BY <3>1, RequestStays DEF CallsOK
    <3>4. QED
      BY <3>2, <3>3
  <2>3. QED
    BY <2>1, <2>2
<1>2. call' = [d \in Clients |-> call'[d]]
  BY DEF CallsOK
<1>3. QED
  BY <1>1, <1>2 DEF CallsOK

LEMMA IncludesStay ==
  ASSUME DecisionsOK, ResolutionsOK, Kept, FullTextFollowsInclude
  PROVE  \A i \in DOMAIN decisions :
           decisions'[i].stage = FT => IncludedBefore(decisions[i].pub, decisions[i].at)'
<1> SUFFICES ASSUME NEW i \in DOMAIN decisions, decisions'[i].stage = FT
             PROVE  IncludedBefore(decisions[i].pub, decisions[i].at)'
  OBVIOUS
<1>1. decisions'[i] = decisions[i]
  BY DEF Kept
<1>2. PICK p : p = decisions[i].pub
  OBVIOUS
<1>3. PICK t \in Nat : t = decisions[i].at
  BY TimesAreNatural
<1>4. IncludedBefore(p, t)
  BY <1>1, <1>2, <1>3 DEF FullTextFollowsInclude
<1>5. IncludedBefore(p, t)'
  BY <1>4, IncludedStays
<1>6. QED
  BY <1>1, <1>2, <1>3, <1>5 DEF IncludedBefore

\* A step that only writes down what a request has read.
LEMMA RequestNoted ==
  ASSUME IInv, UNCHANGED <<tables, edits>>, NEW c \in Clients, NEW q, RequestOK(q),
         call' = [call EXCEPT ![c] = q]
  PROVE  IInv'
<1> USE DEF tables
<1>1. (SurroundingsOK /\ DecisionsOK /\ ResolutionsOK /\ AvailabilityOK /\ FullTextFollowsInclude)'
  <2>1. SurroundingsOK'
    BY DEF IInv, SurroundingsOK
  <2>2. DecisionsOK' /\ ResolutionsOK' /\ AvailabilityOK'
    BY DEF IInv, DecisionsOK, ResolutionsOK, AvailabilityOK, MadeOnWhatWasSeen, Now
  <2>3. FullTextFollowsInclude'
    BY DEF IInv, FullTextFollowsInclude, IncludedBefore, Now
  <2>4. QED
    BY <2>1, <2>2, <2>3
<1>2. \A p : RequestOK(p) => RequestOK(p)'
  BY DEF RequestOK, MadeOnWhatWasSeen, IncludedBefore, Now
<1>3. ASSUME NEW d \in Clients PROVE RequestOK(call[d])'
  <2>1. PICK p : p = IF d = c THEN q ELSE call[d]
    OBVIOUS
  <2>2. call'[d] = p
    BY <2>1 DEF IInv, CallsOK
  <2>3. RequestOK(p)
    BY <2>1 DEF IInv, CallsOK
  <2>4. RequestOK(p)'
    BY <1>2, <2>3
  <2>5. QED
    BY <2>2, <2>4
<1>4. call' = [d \in Clients |-> call'[d]]
  BY DEF IInv, CallsOK
<1>5. CallsOK'
  BY <1>3, <1>4 DEF CallsOK
<1>6. QED
  BY <1>1, <1>5 DEF IInv

\* A step that only configures, and at most notes that a criterion was edited.
LEMMA Configured ==
  ASSUME IInv, SurroundingsOK', UNCHANGED <<decisions, resolutions, availability>>,
         call' = [c \in Clients |-> call'[c]],
         \A c \in Clients : \E q : call'[c] = q /\ RequestOK(q)
  PROVE  IInv'
<1>1. DecisionsOK' /\ ResolutionsOK' /\ AvailabilityOK'
  BY DEF IInv, DecisionsOK, ResolutionsOK, AvailabilityOK, MadeOnWhatWasSeen, Now
<1>2. FullTextFollowsInclude'
  BY DEF IInv, FullTextFollowsInclude, IncludedBefore, Now
<1>3. \A q : RequestOK(q) => RequestOK(q)'
  BY DEF RequestOK, MadeOnWhatWasSeen, IncludedBefore, Now
<1>4. ASSUME NEW c \in Clients PROVE RequestOK(call[c])'
  <2>1. PICK q : call'[c] = q /\ RequestOK(q)
    OBVIOUS
  <2>2. RequestOK(q)'
    BY <1>3, <2>1
  <2>3. QED
    BY <2>1, <2>2
<1>5. CallsOK'
  BY <1>4 DEF CallsOK
<1>6. QED
  BY <1>1, <1>2, <1>5 DEF IInv

\* What a request notes of an edit changes nothing else of it.
LEMMA NoticedOnly ==
  ASSUME NEW q, RequestOK(q), NEW k \in Criteria
  PROVE  LET p == Noticing(q, k)
         IN /\ RequestOK(p) /\ p.pc = q.pc
            /\ q.pc = "decide" =>
                 /\ p.reasons = q.reasons /\ p.values = q.values
                 /\ p.pub = q.pub /\ p.stage = q.stage
                 /\ q.edited \subseteq p.edited /\ (k \in p.reasons => k \in p.edited)
<1>1. CASE q.pc = "decide" /\ k \in q.reasons
  <2>1. q = [pc |-> "decide", pub |-> q.pub, stage |-> q.stage, reviewer |-> q.reviewer,
             outcome |-> q.outcome, values |-> q.values, reasons |-> q.reasons, edited |-> q.edited]
    BY <1>1 DEF RequestOK
  <2>2. PICK e : e = q.edited \cup {k}
    OBVIOUS
  <2>3. PICK p : p = [pc |-> "decide", pub |-> q.pub, stage |-> q.stage, reviewer |-> q.reviewer,
                      outcome |-> q.outcome, values |-> q.values, reasons |-> q.reasons,
                      edited |-> e]
    OBVIOUS
  <2>4. Noticing(q, k) = p
    BY <1>1, <2>1, <2>2, <2>3 DEF Noticing
  <2>5. /\ p.pc = "decide" /\ p.reasons = q.reasons /\ p.values = q.values /\ p.pub = q.pub
        /\ p.stage = q.stage /\ p.edited = e /\ p.reviewer = q.reviewer /\ p.outcome = q.outcome
    BY <2>3
  <2>6. p = [pc |-> "decide", pub |-> p.pub, stage |-> p.stage, reviewer |-> p.reviewer,
             outcome |-> p.outcome, values |-> p.values, reasons |-> p.reasons, edited |-> p.edited]
    BY <2>3
  <2>7. RequestOK(p)
    BY <1>1, <2>2, <2>5, <2>6 DEF RequestOK
  <2>8. QED
    BY <1>1, <2>2, <2>4, <2>5, <2>7
<1>2. CASE ~(q.pc = "decide" /\ k \in q.reasons)
  BY <1>2 DEF Noticing
<1>3. QED
  BY <1>1, <1>2

LEMMA CallsKept ==
  ASSUME IInv, UNCHANGED call
  PROVE  /\ call' = [c \in Clients |-> call'[c]]
         /\ \A c \in Clients : \E q : call'[c] = q /\ RequestOK(q)
BY DEF IInv, CallsOK

-----------------------------------------------------------------------------
(* The initial state, and one lemma per action.                              *)

LEMMA InitOK == Init => IInv
<1> SUFFICES ASSUME Init PROVE IInv
  OBVIOUS
<1> USE DEF Init
<1>1. SurroundingsOK
  <2>1. 0 \in 0 .. MaxEdits
    BY ScreeningAssumption
  <2>2. roster \in [Stages -> SUBSET Reviewers]
    OBVIOUS
  <2>3. QED
    BY <2>1, <2>2 DEF SurroundingsOK
<1>2. DecisionsOK /\ ResolutionsOK
  BY DEF DecisionsOK, ResolutionsOK
<1>3. AvailabilityOK
  BY DEF AvailabilityOK, Statuses
<1>4. CallsOK
  BY DEF CallsOK, RequestOK, NoCall
<1>5. FullTextFollowsInclude
  BY DEF FullTextFollowsInclude
<1>6. QED
  BY <1>1, <1>2, <1>3, <1>4, <1>5 DEF IInv

LEMMA EditsStayBounded ==
  ASSUME IInv, edits < MaxEdits, edits' = edits + 1
  PROVE  edits' \in 0 .. MaxEdits
BY ScreeningAssumption DEF IInv, SurroundingsOK

\* The three ways a criterion is stored.
LEMMA CriterionStored ==
  ASSUME IInv, NEW k \in Criteria, NEW c \in StoredCriteria, ValidCriterion(c), Saved(k, c)
  PROVE  IInv'
<1>1. edits' \in 0 .. MaxEdits
  BY EditsStayBounded DEF Saved
<1>2. criteria' \in [Criteria -> StoredCriteria \cup {NoCriterion}]
  BY DEF Saved, IInv, SurroundingsOK
<1>3. ASSUME NEW j \in Criteria, criteria'[j] # NoCriterion PROVE ValidCriterion(criteria'[j])
  BY <1>3 DEF Saved, IInv, SurroundingsOK
<1>4. SurroundingsOK'
  <2>1. \A j \in Criteria : criteria'[j] # NoCriterion => ValidCriterion(criteria'[j])
    BY <1>3
  <2>2. QED
    BY <1>1, <1>2, <2>1 DEF SurroundingsOK, IInv, Saved
<1>5. call' = [d \in Clients |-> call'[d]] /\ \A d \in Clients : call'[d] = Noticing(call[d], k)
  BY DEF Saved
<1>6. ASSUME NEW d \in Clients PROVE \E q : call'[d] = q /\ RequestOK(q)
  <2>1. PICK p : p = call[d]
    OBVIOUS
  <2>2. RequestOK(p)
    BY <2>1 DEF IInv, CallsOK
  <2>3. RequestOK(Noticing(p, k))
    BY <2>2, NoticedOnly
  <2>4. QED
    BY <1>5, <2>1, <2>3
<1>7. UNCHANGED <<decisions, resolutions, availability>>
  BY DEF Saved
<1>8. QED
  BY <1>4, <1>5, <1>6, <1>7, Configured

LEMMA ConfigureOK ==
  ASSUME IInv, Configure
  PROVE  IInv'
<1>1. ASSUME NEW k \in Criteria, NEW c \in CriterionRows, CriterionCreate(k, c) \/ CriterionUpdate(k, c)
      PROVE  IInv'
  <2>1. c \in StoredCriteria
    BY DEF StoredCriteria
  <2>2. QED
    BY <1>1, <2>1, CriterionStored DEF CriterionCreate, CriterionUpdate
<1>2. ASSUME NEW k \in Criteria, CriterionDeactivate(k)
      PROVE  IInv'
  <2> DEFINE c == Deactivated(criteria[k])
  <2>1. criteria[k] # NoCriterion /\ Saved(k, c)
    BY <1>2 DEF CriterionDeactivate
  <2>2. criteria[k] \in StoredCriteria /\ ValidCriterion(criteria[k])
    BY <2>1 DEF IInv, SurroundingsOK
  <2>3. PICK row \in CriterionRows : criteria[k] = row \/ criteria[k] = Deactivated(row)
    BY <2>2 DEF StoredCriteria
  <2>4. row \in [type : CriterionTypes, stage : CriterionStages, active : BOOLEAN,
                 required : BOOLEAN, mode : EvaluationModes, rule : {d.rule : d \in CriterionRows}]
    BY ScreeningAssumption
  <2>5. c = Deactivated(row) /\ c.type = criteria[k].type /\ c.stage = criteria[k].stage
        /\ c.mode = criteria[k].mode /\ c.rule = criteria[k].rule
    BY <2>3, <2>4 DEF Deactivated
  <2>6. c \in StoredCriteria
    BY <2>5 DEF StoredCriteria
  <2> HIDE DEF c
  <2>7. ValidCriterion(c)
    BY <2>2, <2>5 DEF ValidCriterion
  <2>8. QED
    BY <1>2, <2>1, <2>6, <2>7, CriterionStored DEF CriterionDeactivate
<1>3. ASSUME NEW stage \in Stages, NEW active \in SUBSET Reviewers, ReplaceRoster(stage, active)
      PROVE  IInv'
  <2>1. edits' \in 0 .. MaxEdits
    BY <1>3, EditsStayBounded DEF ReplaceRoster
  <2>2. roster' \in [Stages -> SUBSET Reviewers]
    BY <1>3 DEF ReplaceRoster, Reassigned, IInv, SurroundingsOK
  <2>3. SurroundingsOK'
    BY <1>3, <2>1, <2>2 DEF ReplaceRoster, IInv, SurroundingsOK
  <2>4. QED
    BY <1>3, <2>3, Configured, CallsKept DEF ReplaceRoster
<1>4. ASSUME NEW ready \in BOOLEAN, NEW pubs \in SUBSET Pubs, InputChanges(ready, pubs)
      PROVE  IInv'
  <2>1. edits' \in 0 .. MaxEdits
    BY <1>4, EditsStayBounded DEF InputChanges
  <2>2. SurroundingsOK'
    BY <1>4, <2>1 DEF InputChanges, IInv, SurroundingsOK
  <2>3. QED
    BY <1>4, <2>2, Configured, CallsKept DEF InputChanges
<1>5. QED
  BY <1>1, <1>2, <1>3, <1>4 DEF Configure

\* The requests that are let in.
LEMMA TitleAbstractBeginOK ==
  ASSUME IInv, NEW c \in Deciders, NEW p \in Pubs, NEW r \in Reviewers, NEW o \in Votes,
         NEW v \in AssessmentInputs, TitleAbstractBegin(c, p, r, o, v)
  PROVE  IInv'
<1> DEFINE q == [pc |-> "decide", pub |-> p, stage |-> TA, reviewer |-> r,
                 outcome |-> o, values |-> v, reasons |-> {}, edited |-> {}]
<1>1. RequestOK(q)
  BY DEF RequestOK, TA, FT, Stages
<1>2. call' = [call EXCEPT ![c] = q] /\ UNCHANGED <<tables, edits>> /\ c \in Clients
  BY DEF TitleAbstractBegin, Clients
<1> HIDE DEF q
<1>3. QED
  BY <1>1, <1>2, RequestNoted

LEMMA FullTextBeginOK ==
  ASSUME IInv, NEW c \in Deciders, NEW p \in Pubs, NEW r \in Reviewers, NEW o \in Votes,
         NEW v \in AssessmentInputs, NEW reasons \in SUBSET Criteria,
         FullTextBegin(c, p, r, o, v, reasons)
  PROVE  IInv'
<1> DEFINE q == [pc |-> "decide", pub |-> p, stage |-> FT, reviewer |-> r,
                 outcome |-> o, values |-> v, reasons |-> reasons, edited |-> {}]
<1>1. IncludedBefore(p, Now)
  BY EligibleWasIncluded DEF FullTextBegin, IInv
<1>2. RequestOK(q)
  BY <1>1 DEF RequestOK, TA, FT, Stages
<1>3. call' = [call EXCEPT ![c] = q] /\ UNCHANGED <<tables, edits>> /\ c \in Clients
  BY DEF FullTextBegin, Clients
<1> HIDE DEF q
<1>4. QED
  BY <1>2, <1>3, RequestNoted

LEMMA AvailabilityBeginOK ==
  ASSUME IInv, NEW c \in Deciders, NEW p \in Pubs, NEW r \in Reviewers,
         AvailabilityBegin(c, p, r, "available")
  PROVE  IInv'
<1> DEFINE q == [pc |-> "availability", pub |-> p, status |-> "available"]
<1>1. IncludedBefore(p, Now)
  BY EligibleWasIncluded DEF AvailabilityBegin, IInv
<1>2. RequestOK(q)
  BY <1>1 DEF RequestOK, Statuses
<1>3. call' = [call EXCEPT ![c] = q] /\ UNCHANGED <<tables, edits>> /\ c \in Clients
  BY DEF AvailabilityBegin, Clients
<1> HIDE DEF q
<1>4. QED
  BY <1>2, <1>3, RequestNoted

-----------------------------------------------------------------------------
(* Saving a decision.                                                        *)

\* A rule comes out met, not met or not assessed, whatever the metadata.
LEMMA RulesComeOut ==
  ASSUME NEW rule, NEW metadata
  PROVE  Evaluate(rule, metadata) \in AssessmentValues
<1> DEFINE actual == metadata[rule.field]
           met(b) == IF b THEN "met" ELSE "not_met"
           other == IF actual = Absent THEN "not_assessed" ELSE met(Holds(rule, actual))
<1>1. \A b : met(b) \in AssessmentValues
  BY DEF AssessmentValues
<1>2. other \in AssessmentValues
  BY DEF AssessmentValues
<1>3. CASE rule.op = "exists"
  <2>1. Evaluate(rule, metadata) = met(actual # Absent)
    BY <1>3 DEF Evaluate
  <2>2. QED
    BY <2>1 DEF AssessmentValues
<1>4. CASE rule.op = "not_exists"
  <2>1. Evaluate(rule, metadata) = met(actual = Absent)
    BY <1>4 DEF Evaluate
  <2>2. QED
    BY <2>1 DEF AssessmentValues
<1>5. CASE rule.op \notin {"exists", "not_exists"}
  <2>1. Evaluate(rule, metadata) = other
    BY <1>5 DEF Evaluate
  <2>2. QED
    BY <1>2, <2>1
<1>6. QED
  BY <1>3, <1>4, <1>5

\* What is assessed: active criteria, each with a value.
LEMMA AssessmentsAreKnown ==
  ASSUME IInv, NEW q, RequestOK(q), q.pc = "decide", Accepted(q),
         NEW k \in DOMAIN Assessed(q.values, Automatic(q.pub, q.stage))
  PROVE  /\ k \in Criteria /\ criteria[k] \in StoredCriteria
         /\ Assessed(q.values, Automatic(q.pub, q.stage))[k] \in AssessmentValues
<1> DEFINE auto == Automatic(q.pub, q.stage)
           assessed == Assessed(q.values, auto)
<1>1. PICK S \in SUBSET Criteria : q.values \in [S -> InputValues]
  BY DEF RequestOK, AssessmentInputs
<1>2. DOMAIN auto = AutomaticCriteria(q.stage)
  BY DEF Automatic
<1>3. DOMAIN assessed = DOMAIN q.values \cup DOMAIN auto
  BY DEF Assessed
<1>4. k \in ActiveCriteria(q.stage)
  <2>1. CASE k \in DOMAIN auto
    BY <1>2, <2>1 DEF AutomaticCriteria
  <2>2. CASE k \in DOMAIN q.values
    BY <2>2 DEF Accepted
  <2>3. QED
    BY <1>3, <2>1, <2>2
<1>5. k \in Criteria /\ criteria[k] \in StoredCriteria
  BY <1>4 DEF ActiveCriteria, IInv, SurroundingsOK
<1>6. assessed[k] \in AssessmentValues
  <2>1. CASE k \in DOMAIN auto
    <3>1. auto[k] = Evaluate(criteria[k].rule, Metadata[q.pub])
      BY <1>2, <2>1 DEF Automatic
    <3>2. assessed[k] = auto[k]
      BY <1>3, <2>1 DEF Assessed
    <3>3. QED
      BY <3>1, <3>2, RulesComeOut
  <2>2. CASE k \notin DOMAIN auto
    <3>1. assessed[k] = q.values[k] /\ k \in DOMAIN q.values
      BY <1>3, <2>2 DEF Assessed
    <3>2. q.values[k] \in InputValues
      BY <1>1, <3>1
    <3>3. QED
      BY <3>1, <3>2, ScreeningAssumption
  <2>3. QED
    BY <2>1, <2>2
<1>7. QED
  BY <1>5, <1>6

LEMMA SavedRowIsKnown ==
  ASSUME IInv, NEW q, RequestOK(q), q.pc = "decide", Accepted(q)
  PROVE  /\ DecisionRow(q) \in DecisionRows
         /\ DecisionRow(q).pub = q.pub /\ DecisionRow(q).stage = q.stage
         /\ DecisionRow(q).at = Now
<1> DEFINE A == Assessed(q.values, Automatic(q.pub, q.stage))
           D == DOMAIN A
           row == [k \in D |-> [value |-> A[k], snapshot |-> criteria[k]]]
           V == [value : AssessmentValues, snapshot : StoredCriteria]
<1>1. \A k \in D : k \in Criteria /\ [value |-> A[k], snapshot |-> criteria[k]] \in V
  <2> SUFFICES ASSUME NEW k \in D PROVE k \in Criteria /\ A[k] \in AssessmentValues
                                        /\ criteria[k] \in StoredCriteria
    OBVIOUS
  <2>1. QED
    BY AssessmentsAreKnown
<1>2. DecisionRow(q) = [pub |-> q.pub, stage |-> q.stage, reviewer |-> q.reviewer,
                        outcome |-> q.outcome, assessed |-> row, reasons |-> q.reasons,
                        edited |-> q.edited, at |-> Now]
  BY DEF DecisionRow
<1>3. D \in SUBSET Criteria /\ row \in [D -> V]
  <2> HIDE DEF D, A, V
  <2>1. QED
    BY <1>1
<1>4. row \in UNION {[S -> V] : S \in SUBSET Criteria}
  <2> HIDE DEF D, row, V
  <2>1. QED
    BY <1>3
<1>5. Now \in Nat \ {0}
  BY NowIsNatural DEF IInv
<1>6. q.pub \in Pubs /\ q.stage \in Stages /\ q.reviewer \in Reviewers /\ q.outcome \in Outcomes
      /\ q.reasons \in SUBSET Criteria /\ q.edited \in SUBSET Criteria
  BY ScreeningAssumption DEF RequestOK
<1>7. DecisionRows = [pub : Pubs, stage : Stages, reviewer : Reviewers, outcome : Outcomes,
                      assessed : UNION {[S -> V] : S \in SUBSET Criteria},
                      reasons : SUBSET Criteria, edited : SUBSET Criteria, at : Nat \ {0}]
  BY DEF DecisionRows, StoredCriteria
<1>8. QED
  <2> DEFINE AA == UNION {[S -> V] : S \in SUBSET Criteria}
  <2>1. row \in AA
    BY <1>4
  <2>2. DecisionRows = [pub : Pubs, stage : Stages, reviewer : Reviewers, outcome : Outcomes,
                        assessed : AA, reasons : SUBSET Criteria, edited : SUBSET Criteria,
                        at : Nat \ {0}]
    BY <1>7
  <2> HIDE DEF AA, row
  <2>3. QED
    BY <1>2, <1>5, <1>6, <2>1, <2>2

LEMMA DecisionSaveOK ==
  ASSUME IInv, NEW c \in Deciders, DecisionSave(c)
  PROVE  IInv'
<1> DEFINE q == call[c]
<1>1. c \in Clients /\ RequestOK(q) /\ q.pc = "decide"
  BY DEF Clients, DecisionSave, IInv, CallsOK
<1>2. DecisionsOK /\ ResolutionsOK /\ CallsOK
  BY DEF IInv
<1>3. UNCHANGED <<input, roster, criteria, resolutions, availability, edits>>
      /\ call' = [call EXCEPT ![c] = NoCall]
  BY DEF DecisionSave
<1>4. SurroundingsOK' /\ AvailabilityOK'
  BY <1>3 DEF IInv, SurroundingsOK, AvailabilityOK
<1>5. CASE Accepted(q)
  <2> DEFINE row == DecisionRow(q)
  <2>1. decisions' = Append(decisions, row)
    BY <1>5 DEF DecisionSave
  <2>2. row \in DecisionRows /\ row.pub = q.pub /\ row.stage = q.stage /\ row.at = Now
    BY <1>1, <1>5, SavedRowIsKnown
  <2> HIDE DEF row
  <2>3. decisions \in Seq(DecisionRows) /\ resolutions \in Seq(ResolutionRows)
    BY <1>2 DEF DecisionsOK, ResolutionsOK
  <2>4. /\ decisions' \in Seq(DecisionRows) /\ Len(decisions') = Len(decisions) + 1
        /\ DOMAIN decisions' = DOMAIN decisions \cup {Len(decisions) + 1}
        /\ decisions'[Len(decisions) + 1] = row
        /\ \A i \in DOMAIN decisions : decisions'[i] = decisions[i]
    BY <2>1, <2>2, <2>3
  <2>5. Now \in Nat /\ Now' = Now + 1
    BY <1>3, <2>3, <2>4 DEF Now
  <2>6. Kept
    BY <1>3, <2>4, <2>5 DEF Kept
  <2>7. DecisionsOK'
    <3>1. \A i \in DOMAIN decisions : decisions[i].at \in Nat /\ decisions[i].at < Now
      BY <1>2, TimesAreNatural DEF DecisionsOK
    <3>2. ASSUME NEW i \in DOMAIN decisions' PROVE decisions'[i].at < Now'
      <4>1. CASE i \in DOMAIN decisions
        BY <2>4, <2>5, <3>1, <4>1
      <4>2. CASE i = Len(decisions) + 1
        BY <2>2, <2>4, <2>5, <4>2
      <4>3. QED
        BY <2>4, <4>1, <4>2
    <3>3. QED
      BY <2>4, <3>2 DEF DecisionsOK
  <2>8. ResolutionsOK'
    <3>1. \A x \in DOMAIN resolutions : resolutions[x].at \in Nat /\ resolutions[x].at < Now
      BY <1>2, TimesAreNatural DEF ResolutionsOK
    <3>2. \A x \in DOMAIN resolutions : resolutions[x].at < Now'
      BY <2>5, <3>1
    <3>3. \A x \in DOMAIN resolutions : MadeOnWhatWasSeen(resolutions[x])'
      BY <1>2, <1>3, <2>4 DEF ResolutionsOK, MadeOnWhatWasSeen
    <3>4. QED
      BY <1>3, <2>3, <3>2, <3>3 DEF ResolutionsOK
  <2>9. CallsOK'
    BY <1>1, <1>2, <1>3, <2>6, <2>7, <2>8, CallsStay
  <2>10. FullTextFollowsInclude'
    <3>1. \A i \in DOMAIN decisions :
            decisions'[i].stage = FT => IncludedBefore(decisions[i].pub, decisions[i].at)'
      BY <1>2, <2>6, IncludesStay DEF IInv
    <3>2. PICK n : n = Len(decisions) + 1
      OBVIOUS
    <3>3. ASSUME decisions'[n].stage = FT PROVE IncludedBefore(decisions[n].pub, decisions[n].at)'
      <4>1. PICK p : p = q.pub
        OBVIOUS
      <4>2. PICK t \in Nat : t = Now
        BY <2>5
      <4>3. decisions'[n].pub = p /\ decisions'[n].at = t /\ q.stage = FT
        BY <2>2, <2>4, <3>2, <3>3, <4>1, <4>2
      <4>4. IncludedBefore(p, t)
        BY <1>1, <4>1, <4>2, <4>3 DEF RequestOK
      <4>5. IncludedBefore(p, t)'
        BY <1>2, <2>6, <4>4, IncludedStays
      <4>6. QED
        BY <4>3, <4>5 DEF IncludedBefore
    <3>4. ASSUME NEW p \in Pubs, availability'[p] # "unknown" PROVE IncludedBefore(p, Now)'
      <4>1. IncludedBefore(p, Now)
        BY <1>3, <3>4 DEF IInv, FullTextFollowsInclude
      <4>2. QED
        BY <1>2, <2>6, <2>7, <2>8, <4>1, IncludedStaysNow
    <3>5. ASSUME NEW i \in DOMAIN decisions', decisions'[i].stage = FT
          PROVE  IncludedBefore(decisions[i].pub, decisions[i].at)'
      <4>1. CASE i \in DOMAIN decisions
        BY <3>1, <3>5, <4>1
      <4>2. CASE i = n
        BY <3>3, <3>5, <4>2
      <4>3. QED
        BY <2>4, <3>2, <4>1, <4>2
    <3>6. QED
      BY <3>4, <3>5 DEF FullTextFollowsInclude
  <2>11. QED
    BY <1>4, <2>7, <2>8, <2>9, <2>10 DEF IInv
<1>6. CASE ~Accepted(q)
  <2>1. UNCHANGED <<tables, edits>>
    BY <1>3, <1>6 DEF DecisionSave, tables
  <2>2. RequestOK(NoCall)
    BY DEF RequestOK, NoCall
  <2>3. QED
    BY <1>1, <1>3, <2>1, <2>2, RequestNoted
<1>7. QED
  BY <1>5, <1>6

LEMMA AvailabilitySaveOK ==
  ASSUME IInv, NEW c \in Deciders, AvailabilitySave(c)
  PROVE  IInv'
<1> DEFINE q == call[c]
<1>1. c \in Clients /\ RequestOK(q) /\ q.pc = "availability"
  BY DEF Clients, AvailabilitySave, IInv, CallsOK
<1>2. UNCHANGED <<input, roster, criteria, decisions, resolutions, edits>>
      /\ call' = [call EXCEPT ![c] = NoCall] /\ availability' = [availability EXCEPT ![q.pub] = q.status]
  BY DEF AvailabilitySave
<1>3. SurroundingsOK' /\ DecisionsOK' /\ ResolutionsOK'
  BY <1>2 DEF IInv, SurroundingsOK, DecisionsOK, ResolutionsOK, MadeOnWhatWasSeen, Now
<1>4. AvailabilityOK'
  BY <1>1, <1>2 DEF IInv, AvailabilityOK, RequestOK
<1>5. Kept
  <2>1. Now \in Nat /\ Now' = Now
    BY <1>2, NowIsNatural DEF IInv, Now
  <2>2. QED
    BY <1>2, <2>1 DEF Kept
<1>6. CallsOK'
  BY <1>1, <1>2, <1>3, <1>5, CallsStay DEF IInv
<1>7. FullTextFollowsInclude'
  <2>1. \A p : IncludedBefore(p, Now) => IncludedBefore(p, Now)'
    BY <1>2 DEF IncludedBefore, Now
  <2>2. ASSUME NEW p \in Pubs, availability'[p] # "unknown" PROVE IncludedBefore(p, Now)
    <3>1. CASE p = q.pub
      BY <1>1, <3>1 DEF RequestOK
    <3>2. CASE p # q.pub
      <4>1. availability'[p] = availability[p]
        BY <1>2, <3>2 DEF IInv, AvailabilityOK
      <4>2. QED
        BY <2>2, <4>1 DEF IInv, FullTextFollowsInclude
    <3>3. QED
      BY <3>1, <3>2
  <2>3. \A i \in DOMAIN decisions' :
          decisions'[i].stage = FT => IncludedBefore(decisions[i].pub, decisions[i].at)'
    BY <1>2 DEF IInv, FullTextFollowsInclude, IncludedBefore
  <2>4. QED
    BY <2>1, <2>2, <2>3 DEF FullTextFollowsInclude
<1>8. QED
  BY <1>3, <1>4, <1>6, <1>7 DEF IInv

-----------------------------------------------------------------------------
(* Resolving a conflict.                                                     *)

\* A key names, for every expected reviewer, its latest decision.
LEMMA KeyIsKnown ==
  ASSUME IInv, NEW p \in Pubs, NEW stage \in Stages
  PROVE  /\ DecisionSetKey(p, stage) \in KeyRows
         /\ DOMAIN DecisionSetKey(p, stage).latest = Expected(p, stage)
         /\ \A r \in Expected(p, stage) :
              DecisionSetKey(p, stage).latest[r][1] = LatestDecision(p, stage, r)
         /\ LinksOf(DecisionSetKey(p, stage)) = Range(ByReviewer(p, stage))
<1> DEFINE E == Expected(p, stage)
           entry(r) == LET i == LatestDecision(p, stage, r)
                       IN IF i = 0 THEN <<0, "PENDING">> ELSE <<i, decisions[i].outcome>>
           latest == [r \in E |-> entry(r)]
           V == Nat \X (Outcomes \cup {"PENDING"})
<1>1. DecisionSetKey(p, stage) = [pub |-> p, stage |-> stage, latest |-> latest]
  BY DEF DecisionSetKey
<1>2. E \in SUBSET Reviewers
  BY DEF Expected, IInv, SurroundingsOK
<1>3. ASSUME NEW r \in E PROVE entry(r) \in V /\ entry(r)[1] = LatestDecision(p, stage, r)
  <2>1. PICK i : i = LatestDecision(p, stage, r)
    OBVIOUS
  <2>2. i \in Nat /\ (i # 0 => i \in History(p, stage, r))
    BY <2>1, LatestIsOwn DEF IInv
  <2>3. CASE i = 0
    <3>1. entry(r) = <<0, "PENDING">>
      BY <2>1, <2>3
    <3>2. QED
      BY <2>1, <2>3, <3>1
  <2>4. CASE i # 0
    <3>1. entry(r) = <<i, decisions[i].outcome>>
      BY <2>1, <2>4
    <3>2. decisions[i] \in DecisionRows
      BY <2>2, <2>4 DEF History, IInv, DecisionsOK
    <3>3. decisions[i].outcome \in Outcomes
      BY <3>2 DEF DecisionRows
    <3>4. QED
      BY <2>1, <2>2, <3>1, <3>3
  <2>5. QED
    BY <2>3, <2>4
<1>4. latest \in UNION {[S -> V] : S \in SUBSET Reviewers}
  <2> HIDE DEF entry, V, E
  <2>1. latest \in [E -> V]
    BY <1>3
  <2>2. QED
    BY <1>2, <2>1
<1>5. DOMAIN latest = E /\ \A r \in E : latest[r][1] = LatestDecision(p, stage, r)
  <2> HIDE DEF entry, V, E
  <2>1. QED
    BY <1>3
<1>6. Range(ByReviewer(p, stage)) = {LatestDecision(p, stage, r) : r \in E}
  BY DEF ByReviewer, Range
<1> HIDE DEF latest, E
<1>7. LinksOf(DecisionSetKey(p, stage)) = {LatestDecision(p, stage, r) : r \in E}
  BY <1>1, <1>5 DEF LinksOf
<1>8. DecisionSetKey(p, stage) \in KeyRows
  <2> DEFINE L == UNION {[S -> V] : S \in SUBSET Reviewers}
  <2>1. latest \in L
    BY <1>4
  <2>2. KeyRows = [pub : Pubs, stage : Stages, latest : L]
    BY DEF KeyRows
  <2> HIDE DEF L
  <2>3. QED
    BY <1>1, <2>1, <2>2
<1>9. QED
  BY <1>1, <1>5, <1>6, <1>7, <1>8 DEF E

LEMMA ConflictLoadOK ==
  ASSUME IInv, NEW c \in Resolvers, NEW p \in Pubs, NEW stage \in Stages, ConflictLoad(c, p, stage)
  PROVE  IInv'
<1> DEFINE q == [pc |-> "loaded", pub |-> p, stage |-> stage, seen |-> DecisionSetKey(p, stage)]
<1>1. RequestOK(q)
  BY KeyIsKnown DEF RequestOK
<1>2. call' = [call EXCEPT ![c] = q] /\ UNCHANGED <<tables, edits>> /\ c \in Clients
  BY DEF ConflictLoad, Clients
<1> HIDE DEF q
<1>3. QED
  BY <1>1, <1>2, RequestNoted

\* A conflict has a decision of everyone who is expected.
LEMMA ConflictIsComplete ==
  ASSUME NEW p, NEW stage, ConflictStatus(p, stage) \in {"conflict", "stale_resolution"}
  PROVE  0 \notin Range(ByReviewer(p, stage))
<1>1. SUFFICES ASSUME 0 \in Range(ByReviewer(p, stage)) PROVE FALSE
  OBVIOUS
<1>2. ConflictStatus(p, stage) = "incomplete"
  BY <1>1 DEF ConflictStatus
<1>3. QED
  BY <1>2

LEMMA ResolveCheckOK ==
  ASSUME IInv, NEW c \in Resolvers, NEW o \in Votes, ResolveCheck(c, o)
  PROVE  IInv'
<1>1. PICK q : q = call[c]
  OBVIOUS
<1>2. c \in Clients /\ q.pc = "loaded" /\ RequestOK(q)
  BY <1>1 DEF Clients, ResolveCheck, IInv, CallsOK
<1>3. q.pub \in Pubs /\ q.stage \in Stages /\ q.seen \in KeyRows
  BY <1>2 DEF RequestOK
<1> DEFINE key == DecisionSetKey(q.pub, q.stage)
           links == Range(ByReviewer(q.pub, q.stage))
           made == [pc |-> "resolve", pub |-> q.pub, stage |-> q.stage, seen |-> q.seen,
                    key |-> key, outcome |-> o, links |-> links]
<1>4. call' = [call EXCEPT ![c] = IF Resolvable(q.pub, q.stage, q.seen) THEN made ELSE NoCall]
      /\ UNCHANGED <<tables, edits>>
  BY <1>1 DEF ResolveCheck
<1>5. CASE Resolvable(q.pub, q.stage, q.seen)
  <2>1. key = q.seen /\ HasRecord(q.pub, q.stage) /\ 0 \notin links
    BY <1>5, ConflictIsComplete DEF Resolvable
  <2>2. links = LinksOf(key)
    BY <1>3, KeyIsKnown
  <2>3. \A i \in links : i \in DOMAIN decisions
    BY <2>1, OutcomesToCompare DEF IInv
  <2>4. o \in Outcomes
    BY ScreeningAssumption
  <2>5. made.pc = "resolve" /\ made.pub = q.pub /\ made.stage = q.stage /\ made.seen = q.seen
        /\ made.key = key /\ made.outcome = o /\ made.links = links
    OBVIOUS
  <2> HIDE DEF made, key, links
  <2>6. RequestOK(made)
    BY <1>3, <2>1, <2>2, <2>3, <2>4, <2>5 DEF RequestOK, MadeOnWhatWasSeen
  <2>7. call' = [call EXCEPT ![c] = made]
    BY <1>4, <1>5
  <2>8. QED
    BY <1>2, <1>4, <2>6, <2>7, RequestNoted
<1>6. CASE ~Resolvable(q.pub, q.stage, q.seen)
  <2>1. RequestOK(NoCall)
    BY DEF RequestOK, NoCall
  <2>2. call' = [call EXCEPT ![c] = NoCall]
    BY <1>4, <1>6
  <2>3. QED
    BY <1>2, <1>4, <2>1, <2>2, RequestNoted
<1>7. QED
  BY <1>5, <1>6

LEMMA ResolveSaveOK ==
  ASSUME IInv, NEW c \in Resolvers, ResolveSave(c)
  PROVE  IInv'
<1>1. PICK q : q = call[c]
  OBVIOUS
<1>2. c \in Clients /\ q.pc = "resolve" /\ RequestOK(q)
  BY <1>1 DEF Clients, ResolveSave, IInv, CallsOK
<1>3. q.pub \in Pubs /\ q.stage \in Stages /\ q.seen \in KeyRows /\ MadeOnWhatWasSeen(q)
  BY <1>2 DEF RequestOK
<1>4. PICK now : now = Now
  OBVIOUS
<1> DEFINE v == [pub |-> q.pub, stage |-> q.stage, key |-> q.key, outcome |-> q.outcome,
                 links |-> q.links, seen |-> q.seen, at |-> now]
<1>5. /\ resolutions' = Append(resolutions, v) /\ call' = [call EXCEPT ![c] = NoCall]
      /\ UNCHANGED <<input, roster, criteria, decisions, availability, edits>>
  BY <1>1, <1>4 DEF ResolveSave
<1>6. DecisionsOK /\ ResolutionsOK /\ CallsOK
  BY DEF IInv
<1>7. decisions \in Seq(DecisionRows) /\ resolutions \in Seq(ResolutionRows) /\ now \in Nat
  BY <1>4, <1>6, NowIsNatural DEF DecisionsOK, ResolutionsOK
<1>8. v \in ResolutionRows /\ MadeOnWhatWasSeen(v)
  <2>1. DOMAIN decisions \subseteq Nat
    BY <1>7
  <2>2. q.key \in KeyRows /\ q.outcome \in Outcomes /\ q.links \in SUBSET Nat
    BY <1>3, <2>1 DEF MadeOnWhatWasSeen
  <2>3. QED
    BY <1>3, <1>7, <2>2 DEF MadeOnWhatWasSeen, ResolutionRows
<1>9. v.at = now
  OBVIOUS
<1> HIDE DEF v
<1>10. /\ resolutions' \in Seq(ResolutionRows) /\ Len(resolutions') = Len(resolutions) + 1
       /\ DOMAIN resolutions' = DOMAIN resolutions \cup {Len(resolutions) + 1}
       /\ resolutions'[Len(resolutions) + 1] = v
       /\ \A x \in DOMAIN resolutions : resolutions'[x] = resolutions[x]
  BY <1>5, <1>7, <1>8
<1>11. Now' = now + 1
  <2>1. Len(decisions) \in Nat /\ Len(resolutions) \in Nat
    BY <1>7
  <2>2. QED
    BY <1>4, <1>5, <1>10, <2>1 DEF Now
<1>12. Kept
  BY <1>4, <1>5, <1>7, <1>10, <1>11 DEF Kept
<1>13. SurroundingsOK' /\ AvailabilityOK'
  BY <1>5 DEF IInv, SurroundingsOK, AvailabilityOK
<1>14. DecisionsOK'
  <2>1. \A i \in DOMAIN decisions : decisions[i].at \in Nat /\ decisions[i].at < now
    BY <1>4, <1>6, TimesAreNatural DEF DecisionsOK
  <2>2. \A i \in DOMAIN decisions : decisions[i].at < Now'
    BY <1>7, <1>11, <2>1
  <2>3. QED
    BY <1>5, <1>7, <2>2 DEF DecisionsOK
<1>15. ResolutionsOK'
  <2>1. \A x \in DOMAIN resolutions : resolutions[x].at \in Nat /\ resolutions[x].at < now
    BY <1>4, <1>6, TimesAreNatural DEF ResolutionsOK
  <2>2. ASSUME NEW x \in DOMAIN resolutions'
        PROVE  MadeOnWhatWasSeen(resolutions[x])' /\ resolutions'[x].at < Now'
    <3>1. CASE x \in DOMAIN resolutions
      <4>1. MadeOnWhatWasSeen(resolutions[x])
        BY <1>6, <3>1 DEF ResolutionsOK
      <4>2. resolutions'[x] = resolutions[x]
        BY <1>10, <3>1
      <4>3. MadeOnWhatWasSeen(resolutions[x])'
        BY <1>5, <4>1, <4>2 DEF MadeOnWhatWasSeen
      <4>4. QED
        BY <1>7, <1>11, <2>1, <3>1, <4>2, <4>3
    <3>2. CASE x = Len(resolutions) + 1
      <4>1. resolutions'[x] = v
        BY <1>10, <3>2
      <4>2. MadeOnWhatWasSeen(resolutions[x])'
        BY <1>5, <1>8, <4>1 DEF MadeOnWhatWasSeen
      <4>3. QED
        BY <1>7, <1>9, <1>11, <4>1, <4>2
    <3>3. QED
      BY <1>10, <3>1, <3>2
  <2>3. QED
    BY <1>10, <2>2 DEF ResolutionsOK
<1>16. CallsOK'
  BY <1>2, <1>5, <1>6, <1>12, <1>14, <1>15, CallsStay
<1>17. FullTextFollowsInclude'
  <2>1. \A i \in DOMAIN decisions :
          decisions'[i].stage = FT => IncludedBefore(decisions[i].pub, decisions[i].at)'
    BY <1>6, <1>12, IncludesStay DEF IInv
  <2>2. ASSUME NEW p \in Pubs, availability'[p] # "unknown" PROVE IncludedBefore(p, Now)'
    <3>1. IncludedBefore(p, Now)
      BY <1>5, <2>2 DEF IInv, FullTextFollowsInclude
    <3>2. QED
      BY <1>6, <1>12, <1>14, <1>15, <3>1, IncludedStaysNow
  <2>3. QED
    BY <1>5, <2>1, <2>2 DEF FullTextFollowsInclude
<1>18. QED
  BY <1>13, <1>14, <1>15, <1>16, <1>17 DEF IInv

-----------------------------------------------------------------------------
(* The theorems.                                                             *)

LEMMA NextOK ==
  ASSUME IInv, [Next]_vars
  PROVE  IInv'
<1>1. CASE Configure
  BY <1>1, ConfigureOK
<1>2. ASSUME NEW c \in Deciders, Decide(c)
      PROVE  IInv'
  <2>1. ASSUME NEW p \in Pubs, NEW r \in Reviewers, NEW o \in Votes, NEW v \in AssessmentInputs,
               TitleAbstractBegin(c, p, r, o, v)
        PROVE  IInv'
    BY <2>1, TitleAbstractBeginOK
  <2>2. ASSUME NEW p \in Pubs, NEW r \in Reviewers, NEW o \in Votes, NEW v \in AssessmentInputs,
               NEW reasons \in SUBSET Criteria, FullTextBegin(c, p, r, o, v, reasons)
        PROVE  IInv'
    BY <2>2, FullTextBeginOK
  <2>3. ASSUME NEW p \in Pubs, NEW r \in Reviewers, AvailabilityBegin(c, p, r, "available")
        PROVE  IInv'
    BY <2>3, AvailabilityBeginOK
  <2>4. CASE DecisionSave(c)
    BY <2>4, DecisionSaveOK
  <2>5. CASE AvailabilitySave(c)
    BY <2>5, AvailabilitySaveOK
  <2>6. QED
    BY <1>2, <2>1, <2>2, <2>3, <2>4, <2>5 DEF Decide
<1>3. ASSUME NEW c \in Resolvers, Resolve(c)
      PROVE  IInv'
  <2>1. ASSUME NEW p \in Pubs, NEW stage \in Stages, ConflictLoad(c, p, stage)
        PROVE  IInv'
    BY <2>1, ConflictLoadOK
  <2>2. ASSUME NEW o \in Votes, ResolveCheck(c, o)
        PROVE  IInv'
    BY <2>2, ResolveCheckOK
  <2>3. CASE ResolveSave(c)
    BY <2>3, ResolveSaveOK
  <2>4. QED
    BY <1>3, <2>1, <2>2, <2>3 DEF Resolve
<1>4. CASE UNCHANGED vars
  <2>1. SurroundingsOK'
    BY <1>4 DEF IInv, SurroundingsOK, vars
  <2>2. QED
    BY <1>4, <2>1, Configured, CallsKept DEF vars
<1>5. QED
  BY <1>1, <1>2, <1>3, <1>4 DEF Next

\* Whatever is stored and whatever is in flight hangs together in every state.
THEOREM Invariant == Spec => []IInv
<1>1. IInv /\ [Next]_vars => IInv'
  BY NextOK
<1>2. QED
  BY InitOK, <1>1, PTL DEF Spec

\* The tables hold rows the validators accept, and resolutions are linked to
\* decisions that are there.
THEOREM TypeCorrect == Spec => []TypeOK
<1>1. IInv => TypeOK
  <2> SUFFICES ASSUME IInv PROVE TypeOK
    OBVIOUS
  <2>1. \A i \in DOMAIN decisions : decisions[i] \in DecisionRows
    BY DEF IInv, DecisionsOK
  <2>2. \A x \in DOMAIN resolutions : resolutions[x].outcome \in Outcomes
                                      /\ resolutions[x].links \subseteq DOMAIN decisions
    BY DEF IInv, ResolutionsOK, MadeOnWhatWasSeen
  <2>3. QED
    BY <2>1, <2>2 DEF IInv, SurroundingsOK, AvailabilityOK, TypeOK
<1>2. QED
  BY Invariant, <1>1, PTL

\* A conflict that counts as resolved was resolved by someone who was shown the
\* decisions that are the latest ones now, and they disagree.
THEOREM ResolutionsStandOnTheirVotes == Spec => []ResolvedIsWhatWasSeen
<1>1. IInv => ResolvedIsWhatWasSeen
  <2> SUFFICES ASSUME IInv, NEW p \in Pubs, NEW stage \in Stages, HasRecord(p, stage),
                      ConflictStatus(p, stage) = "resolved"
               PROVE  LET x == resolutions[LatestResolution(p, stage)]
                      IN /\ DOMAIN x.seen.latest = Expected(p, stage)
                         /\ \A r \in Expected(p, stage) : x.seen.latest[r][1] = LatestDecision(p, stage, r)
                         /\ x.links = {LatestDecision(p, stage, r) : r \in Expected(p, stage)}
                         /\ Cardinality(OutcomesOf(x.links)) > 1
    BY DEF ResolvedIsWhatWasSeen
  <2>1. PICK x : x = LatestResolution(p, stage)
    OBVIOUS
  <2>2. x # 0 /\ resolutions[x].key = DecisionSetKey(p, stage)
        /\ Cardinality(OutcomesOf(Range(ByReviewer(p, stage)))) > 1
    BY <2>1, WhatStatusSays DEF IInv
  <2>3. x \in DOMAIN resolutions
    BY <2>1, <2>2, LatestResolutionIsThere DEF IInv
  <2>4. MadeOnWhatWasSeen(resolutions[x])
    BY <2>3 DEF IInv, ResolutionsOK
  <2>5. resolutions[x].seen = DecisionSetKey(p, stage)
        /\ resolutions[x].links = Range(ByReviewer(p, stage))
    BY <2>2, <2>4, KeyIsKnown DEF MadeOnWhatWasSeen
  <2>6. Range(ByReviewer(p, stage)) = {LatestDecision(p, stage, r) : r \in Expected(p, stage)}
    BY DEF ByReviewer, Range
  <2>7. DOMAIN resolutions[x].seen.latest = Expected(p, stage)
        /\ \A r \in Expected(p, stage) : resolutions[x].seen.latest[r][1] = LatestDecision(p, stage, r)
    BY <2>5, KeyIsKnown
  <2>8. QED
    BY <2>1, <2>2, <2>5, <2>6, <2>7
<1>2. QED
  BY Invariant, <1>1, PTL

\* Nobody works on the full text of a publication that nobody had let in.
THEOREM FullTextWasLetIn == Spec => []FullTextFollowsInclude
<1>1. IInv => FullTextFollowsInclude
  BY DEF IInv
<1>2. QED
  BY Invariant, <1>1, PTL

-----------------------------------------------------------------------------
(* Exclusion reasons, but for those whose criterion is edited in flight.        *)

LEMMA ExplanationStays ==
  ASSUME UNCHANGED criteria, NEW k, NEW q, ReasonExplains(k, q)
  PROVE  ReasonExplains(k, q)'
BY DEF ReasonExplains, Assessed, Automatic, AutomaticCriteria, ActiveCriteria

\* It depends on the request's values and on that criterion only.
LEMMA ExplanationIsLocal ==
  ASSUME NEW k \in Criteria, criteria'[k] = criteria[k], NEW q, NEW p, ReasonExplains(k, q),
         p.values = q.values, p.pub = q.pub, p.stage = q.stage
  PROVE  ReasonExplains(k, p)'
<1> DEFINE auto == Automatic(q.pub, q.stage)
           now == Automatic(p.pub, p.stage)'
<1>1. (k \in AutomaticCriteria(q.stage)) <=> (k \in AutomaticCriteria(p.stage))'
  BY DEF AutomaticCriteria, ActiveCriteria
<1>2. DOMAIN auto = AutomaticCriteria(q.stage) /\ DOMAIN now = AutomaticCriteria(p.stage)'
  BY DEF Automatic
<1>3. k \in DOMAIN auto => now[k] = auto[k]
  BY <1>1 DEF Automatic
<1> HIDE DEF auto, now
<1>4. /\ k \in DOMAIN Assessed(q.values, auto) => k \in DOMAIN Assessed(p.values, now)
      /\ k \in DOMAIN Assessed(q.values, auto) =>
           Assessed(p.values, now)[k] = Assessed(q.values, auto)[k]
  BY <1>1, <1>2, <1>3 DEF Assessed
<1>5. k \in DOMAIN Assessed(q.values, auto)
      /\ <<criteria[k].type, Assessed(q.values, auto)[k]>>
           \in {<<"inclusion", "not_met">>, <<"exclusion", "met">>}
  BY DEF ReasonExplains, auto
<1>6. k \in DOMAIN Assessed(p.values, now)
      /\ <<criteria'[k].type, Assessed(p.values, now)[k]>>
           \in {<<"inclusion", "not_met">>, <<"exclusion", "met">>}
  BY <1>4, <1>5
<1>7. QED
  BY <1>6 DEF ReasonExplains, now, Assessed

LEMMA ReasonsCarriedOver ==
  ASSUME CallsOK, ReasonsHold, UNCHANGED <<decisions, criteria>>, NEW c \in Clients, NEW q,
         call' = [call EXCEPT ![c] = q],
         q.pc = "decide" => \A k \in q.reasons \ q.edited : ReasonExplains(k, q)
  PROVE  ReasonsHold'
<1>1. ReasonIsAssessed'
  BY DEF ReasonsHold, ReasonIsAssessed
<1>2. \A k, p : ReasonExplains(k, p) => ReasonExplains(k, p)'
  BY ExplanationStays
<1>3. ASSUME NEW d \in Clients, call'[d].pc = "decide", NEW k \in call'[d].reasons \ call'[d].edited
      PROVE  ReasonExplains(k, call[d])'
  <2>1. PICK p : p = IF d = c THEN q ELSE call[d]
    OBVIOUS
  <2>2. call'[d] = p
    BY <2>1 DEF CallsOK
  <2>3. ReasonExplains(k, p)
    BY <1>3, <2>1, <2>2 DEF ReasonsHold
  <2>4. ReasonExplains(k, p)'
    BY <1>2, <2>3
  <2>5. QED
    BY <2>2, <2>4
<1>4. QED
  BY <1>1, <1>3 DEF ReasonsHold

LEMMA ReasonsSaved ==
  ASSUME IInv, ReasonsHold, NEW c \in Deciders, DecisionSave(c)
  PROVE  ReasonsHold'
<1>1. PICK q : q = call[c]
  OBVIOUS
<1>2. q.pc = "decide" /\ c \in Clients /\ RequestOK(q)
      /\ (\A k \in q.reasons \ q.edited : ReasonExplains(k, q))
  BY <1>1 DEF DecisionSave, Clients, ReasonsHold, IInv, CallsOK
<1>3. call' = [call EXCEPT ![c] = NoCall] /\ UNCHANGED criteria
  BY DEF DecisionSave
<1>4. CASE ~Accepted(q)
  <2>1. UNCHANGED decisions
    BY <1>1, <1>4 DEF DecisionSave
  <2>2. NoCall.pc # "decide"
    BY DEF NoCall
  <2>3. QED
    BY <1>2, <1>3, <2>1, <2>2, ReasonsCarriedOver DEF IInv
<1>5. CASE Accepted(q)
  <2> DEFINE row == DecisionRow(q)
             A == Assessed(q.values, Automatic(q.pub, q.stage))
  <2>1. decisions' = Append(decisions, row)
    BY <1>1, <1>5 DEF DecisionSave
  <2>2. row \in DecisionRows /\ decisions \in Seq(DecisionRows)
    BY <1>2, <1>5, SavedRowIsKnown DEF IInv, DecisionsOK
  <2>3. row.reasons = q.reasons /\ row.edited = q.edited
        /\ row.assessed = [k \in DOMAIN A |-> [value |-> A[k], snapshot |-> criteria[k]]]
    BY DEF DecisionRow
  <2>4. ASSUME NEW k \in row.reasons \ row.edited
        PROVE  k \in DOMAIN row.assessed
               /\ <<row.assessed[k].snapshot.type, row.assessed[k].value>>
                    \in {<<"inclusion", "not_met">>, <<"exclusion", "met">>}
    <3>1. k \in DOMAIN A
          /\ <<criteria[k].type, A[k]>> \in {<<"inclusion", "not_met">>, <<"exclusion", "met">>}
      BY <1>2, <2>3, <2>4 DEF ReasonExplains
    <3> HIDE DEF A, row
    <3>2. row.assessed[k] = [value |-> A[k], snapshot |-> criteria[k]] /\ DOMAIN row.assessed = DOMAIN A
      BY <2>3, <3>1
    <3>3. QED
      BY <3>1, <3>2
  <2> HIDE DEF row
  <2>5. ReasonIsAssessed'
    <3>1. ASSUME NEW i \in DOMAIN decisions', NEW k \in decisions'[i].reasons \ decisions'[i].edited
          PROVE  k \in DOMAIN decisions'[i].assessed
                 /\ <<decisions'[i].assessed[k].snapshot.type, decisions'[i].assessed[k].value>>
                      \in {<<"inclusion", "not_met">>, <<"exclusion", "met">>}
      <4>1. CASE i \in DOMAIN decisions
        <5>1. decisions'[i] = decisions[i]
          BY <2>1, <2>2, <4>1
        <5>2. QED
          BY <3>1, <4>1, <5>1 DEF ReasonsHold, ReasonIsAssessed
      <4>2. CASE i \notin DOMAIN decisions
        <5>1. decisions'[i] = row
          BY <2>1, <2>2, <4>2
        <5>2. QED
          BY <2>4, <3>1, <5>1
      <4>3. QED
        BY <4>1, <4>2
    <3>2. QED
      BY <3>1 DEF ReasonIsAssessed
  <2>6. \A d \in Clients : call'[d] = IF d = c THEN NoCall ELSE call[d]
    BY <1>3 DEF IInv, CallsOK
  <2>7. ASSUME NEW d \in Clients, call'[d].pc = "decide", NEW k \in call'[d].reasons \ call'[d].edited
        PROVE  ReasonExplains(k, call[d])'
    <3>1. call'[d] = call[d]
      BY <2>6, <2>7 DEF NoCall
    <3>2. ReasonExplains(k, call[d])
      BY <2>7, <3>1 DEF ReasonsHold
    <3>3. QED
      BY <1>3, <3>1, <3>2 DEF ReasonExplains, Assessed, Automatic, AutomaticCriteria, ActiveCriteria
  <2>8. QED
    BY <2>5, <2>7 DEF ReasonsHold
<1>6. QED
  BY <1>4, <1>5

LEMMA ReasonsConfigured ==
  ASSUME IInv, ReasonsHold, Configure
  PROVE  ReasonsHold'
<1>1. UNCHANGED decisions /\ (UNCHANGED <<criteria, call>> \/ \E k \in Criteria : \E row : Saved(k, row))
  <2>1. UNCHANGED <<decisions, criteria, call>> \/ \E k \in Criteria : \E row : Saved(k, row)
    BY DEF Configure, CriterionCreate, CriterionUpdate, CriterionDeactivate, ReplaceRoster, InputChanges
  <2>2. UNCHANGED decisions
    BY <2>1 DEF Saved
  <2>3. QED
    BY <2>1, <2>2
<1>2. ReasonIsAssessed'
  BY <1>1 DEF ReasonsHold, ReasonIsAssessed
<1>3. CASE UNCHANGED <<criteria, call>>
  <2>1. ASSUME NEW c \in Clients, call'[c].pc = "decide", NEW k \in call'[c].reasons \ call'[c].edited
        PROVE  ReasonExplains(k, call[c])'
    <3>1. PICK q : q = call[c]
      OBVIOUS
    <3>2. call'[c] = q /\ ReasonExplains(k, q)
      BY <1>3, <2>1, <3>1 DEF ReasonsHold
    <3>3. QED
      BY <1>3, <3>2, ExplanationStays
  <2>2. QED
    BY <1>2, <2>1 DEF ReasonsHold
<1>4. ASSUME NEW e \in Criteria, NEW row, Saved(e, row)
      PROVE  ReasonsHold'
  <2>1. ASSUME NEW c \in Clients, call'[c].pc = "decide", NEW k \in call'[c].reasons \ call'[c].edited
        PROVE  ReasonExplains(k, call[c])'
    <3>1. PICK q : q = call[c]
      OBVIOUS
    <3>2. PICK p : p = Noticing(q, e)
      OBVIOUS
    <3>3. call'[c] = p /\ RequestOK(q)
      BY <1>4, <3>1, <3>2 DEF Saved, IInv, CallsOK
    <3>4. /\ q.pc = "decide" /\ p.reasons = q.reasons /\ p.values = q.values
          /\ p.pub = q.pub /\ p.stage = q.stage
          /\ q.edited \subseteq p.edited /\ (e \in p.reasons => e \in p.edited)
      BY <2>1, <3>2, <3>3, NoticedOnly
    <3>5. k \in q.reasons \ q.edited /\ k # e /\ k \in Criteria
      BY <2>1, <3>3, <3>4 DEF RequestOK
    <3>6. ReasonExplains(k, q)
      BY <3>1, <3>4, <3>5 DEF ReasonsHold
    <3>7. criteria'[k] = criteria[k]
      BY <1>4, <3>5 DEF Saved, IInv, SurroundingsOK
    <3>8. ReasonExplains(k, p)'
      BY <3>4, <3>5, <3>6, <3>7, ExplanationIsLocal
    <3>9. QED
      BY <3>3, <3>8
  <2>2. QED
    BY <1>2, <2>1 DEF ReasonsHold
<1>5. QED
  BY <1>1, <1>3, <1>4

LEMMA ReasonsStep ==
  ASSUME IInv, ReasonsHold, [Next]_vars
  PROVE  ReasonsHold'
<1> DEFINE Noted(c, q) == /\ UNCHANGED <<decisions, criteria>> /\ call' = [call EXCEPT ![c] = q]
                          /\ q.pc = "decide" => \A k \in q.reasons \ q.edited : ReasonExplains(k, q)
<1>1. ASSUME NEW c \in Clients, NEW q, Noted(c, q)
      PROVE  ReasonsHold'
  BY <1>1, ReasonsCarriedOver DEF IInv
<1>2. CASE Configure
  BY <1>2, ReasonsConfigured
<1>3. ASSUME NEW c \in Deciders, Decide(c)
      PROVE  ReasonsHold'
  <2>0. c \in Clients
    BY DEF Clients
  <2>1. ASSUME NEW p \in Pubs, NEW r \in Reviewers, NEW o \in Votes, NEW v \in AssessmentInputs,
               TitleAbstractBegin(c, p, r, o, v)
        PROVE  ReasonsHold'
    <3> DEFINE q == [pc |-> "decide", pub |-> p, stage |-> TA, reviewer |-> r,
                     outcome |-> o, values |-> v, reasons |-> {}, edited |-> {}]
    <3>1. Noted(c, q)
      BY <2>1 DEF TitleAbstractBegin, tables
    <3> HIDE DEF q
    <3>2. QED
      BY <1>1, <2>0, <3>1
  <2>2. ASSUME NEW p \in Pubs, NEW r \in Reviewers, NEW o \in Votes, NEW v \in AssessmentInputs,
               NEW reasons \in SUBSET Criteria, FullTextBegin(c, p, r, o, v, reasons)
        PROVE  ReasonsHold'
    <3> DEFINE q == [pc |-> "decide", pub |-> p, stage |-> FT, reviewer |-> r,
                     outcome |-> o, values |-> v, reasons |-> reasons, edited |-> {}]
    <3>1. ASSUME NEW k \in reasons PROVE ReasonExplains(k, q)
      <4>1. k \in DOMAIN Assessed(v, Automatic(p, FT))
            /\ \/ criteria[k].type = "inclusion" /\ Assessed(v, Automatic(p, FT))[k] = "not_met"
               \/ criteria[k].type = "exclusion" /\ Assessed(v, Automatic(p, FT))[k] = "met"
        BY <2>2, <3>1 DEF FullTextBegin, ValidReasons
      <4>2. QED
        BY <4>1 DEF ReasonExplains
    <3>2. q.reasons = reasons
      OBVIOUS
    <3>3. UNCHANGED <<decisions, criteria>> /\ call' = [call EXCEPT ![c] = q]
      BY <2>2 DEF FullTextBegin, tables
    <3> HIDE DEF q
    <3>4. QED
      BY <1>1, <2>0, <3>1, <3>2, <3>3
  <2>3. ASSUME NEW p \in Pubs, NEW r \in Reviewers, AvailabilityBegin(c, p, r, "available")
        PROVE  ReasonsHold'
    <3> DEFINE q == [pc |-> "availability", pub |-> p, status |-> "available"]
    <3>1. Noted(c, q)
      BY <2>3 DEF AvailabilityBegin, tables
    <3> HIDE DEF q
    <3>2. QED
      BY <1>1, <2>0, <3>1
  <2>4. CASE DecisionSave(c)
    BY <2>4, ReasonsSaved
  <2>5. CASE AvailabilitySave(c)
    <3>1. Noted(c, NoCall)
      BY <2>5 DEF AvailabilitySave, NoCall
    <3>2. QED
      BY <1>1, <2>0, <3>1
  <2>6. QED
    BY <1>3, <2>1, <2>2, <2>3, <2>4, <2>5 DEF Decide
<1>4. ASSUME NEW c \in Resolvers, Resolve(c)
      PROVE  ReasonsHold'
  <2>0. c \in Clients
    BY DEF Clients
  <2>1. ASSUME NEW p \in Pubs, NEW stage \in Stages, ConflictLoad(c, p, stage)
        PROVE  ReasonsHold'
    <3> DEFINE q == [pc |-> "loaded", pub |-> p, stage |-> stage, seen |-> DecisionSetKey(p, stage)]
    <3>1. Noted(c, q)
      BY <2>1 DEF ConflictLoad, tables
    <3> HIDE DEF q
    <3>2. QED
      BY <1>1, <2>0, <3>1
  <2>2. ASSUME NEW o \in Votes, ResolveCheck(c, o)
        PROVE  ReasonsHold'
    <3>1. PICK q : q = IF Resolvable(call[c].pub, call[c].stage, call[c].seen)
                       THEN [pc |-> "resolve", pub |-> call[c].pub, stage |-> call[c].stage,
                             seen |-> call[c].seen, key |-> DecisionSetKey(call[c].pub, call[c].stage),
                             outcome |-> o, links |-> Range(ByReviewer(call[c].pub, call[c].stage))]
                       ELSE NoCall
      OBVIOUS
    <3>2. call' = [call EXCEPT ![c] = q] /\ q.pc # "decide"
      <4>1. q.pc # "decide"
        BY <3>1 DEF NoCall
      <4>2. QED
        BY <2>2, <3>1, <4>1 DEF ResolveCheck
    <3>3. UNCHANGED <<decisions, criteria>>
      BY <2>2 DEF ResolveCheck, tables
    <3>4. QED
      BY <1>1, <2>0, <3>2, <3>3
  <2>3. CASE ResolveSave(c)
    <3>1. Noted(c, NoCall)
      BY <2>3 DEF ResolveSave, NoCall
    <3>2. QED
      BY <1>1, <2>0, <3>1
  <2>4. QED
    BY <1>4, <2>1, <2>2, <2>3 DEF Resolve
<1>5. CASE UNCHANGED vars
  <2>1. ReasonIsAssessed'
    BY <1>5 DEF ReasonsHold, ReasonIsAssessed, vars
  <2>2. ASSUME NEW c \in Clients, call'[c].pc = "decide", NEW k \in call'[c].reasons \ call'[c].edited
        PROVE  ReasonExplains(k, call[c])'
    <3>1. PICK q : q = call[c]
      OBVIOUS
    <3>2. UNCHANGED criteria /\ call'[c] = q /\ ReasonExplains(k, q)
      BY <1>5, <2>2, <3>1 DEF vars, ReasonsHold
    <3>3. QED
      BY <3>2, ExplanationStays
  <2>3. QED
    BY <2>1, <2>2 DEF ReasonsHold
<1>6. QED
  BY <1>2, <1>3, <1>4, <1>5 DEF Next

\* Every exclusion reason whose criterion was not itself edited in flight is explained
\* by an assessment in the same decision, whatever else runs in between
\* (services/full_text_screening_service.py, services/screening_decision_service.py).
THEOREM ReasonsAreAssessed == Spec => []ReasonIsAssessed
<1>1. Init => ReasonsHold
  <2>1. ASSUME Init PROVE ReasonsHold
    BY <2>1 DEF Init, ReasonsHold, ReasonIsAssessed, NoCall
  <2>2. QED
    BY <2>1
<1>2. IInv /\ ReasonsHold /\ [Next]_vars => ReasonsHold'
  BY ReasonsStep
<1>3. ReasonsHold => ReasonIsAssessed
  BY DEF ReasonsHold
<1>4. QED
  BY Invariant, <1>1, <1>2, <1>3, PTL DEF Spec

-----------------------------------------------------------------------------
(* The reports.                                                              *)

\* The list newest first starts with the decision that is latest by id.
LEMMA FirstListedIsLatest ==
  ASSUME DecisionsOK, NEW p, NEW stage, NEW r
  PROVE  FirstListed(p, stage, r) = LatestDecision(p, stage, r)
<1> DEFINE mine == {n \in ListByProject(stage) : Newest[n].reviewer = r /\ Newest[n].pub = p}
           H == History(p, stage, r)
           L == Len(decisions)
<1>1. decisions \in Seq(DecisionRows) /\ L \in Nat /\ DOMAIN decisions = 1 .. L
  BY DEF DecisionsOK
<1>2. DOMAIN Newest = 1 .. L /\ \A m \in 1 .. L : Newest[m] = decisions[(L - m) + 1]
  BY DEF Newest, Reverse
<1>3. \A n : n \in mine <=> n \in 1 .. L /\ (L - n) + 1 \in H
  <2>1. ASSUME NEW n PROVE n \in mine <=> n \in 1 .. L /\ (L - n) + 1 \in H
    <3>1. n \in mine <=> /\ n \in 1 .. L /\ decisions[(L - n) + 1].stage = stage
                         /\ decisions[(L - n) + 1].reviewer = r /\ decisions[(L - n) + 1].pub = p
      BY <1>2 DEF ListByProject
    <3>2. n \in 1 .. L => (L - n) + 1 \in 1 .. L
      BY <1>1
    <3>3. QED
      BY <1>1, <3>1, <3>2 DEF History
  <2>2. QED
    BY <2>1
<1>4. H \in SUBSET DOMAIN decisions /\ (H # {} => Max(H) \in H /\ \A y \in H : Max(H) >= y)
  <2>1. H \in SUBSET DOMAIN decisions
    BY DEF History
  <2> HIDE DEF H
  <2>2. QED
    BY <1>1, <2>1, MaxOfPositions
<1>5. FirstListed(p, stage, r) = IF mine = {} THEN 0 ELSE L + 1 - Min(mine)
  BY DEF FirstListed
<1>6. LatestDecision(p, stage, r) = IF H = {} THEN 0 ELSE Max(H)
  BY DEF LatestDecision
<1> HIDE DEF mine, H, L
<1>7. CASE H = {}
  BY <1>3, <1>5, <1>6, <1>7
<1>8. CASE H # {}
  <2> DEFINE m == Max(H)
             n == Min(mine)
  <2>1. m \in H /\ m \in 1 .. L /\ \A y \in H : m >= y
    BY <1>1, <1>4, <1>8
  <2>2. (L + 1) - m \in mine
    <3>1. (L + 1) - m \in 1 .. L /\ (L - ((L + 1) - m)) + 1 = m
      BY <1>1, <2>1
    <3>2. QED
      BY <1>3, <2>1, <3>1
  <2>3. mine \in SUBSET Nat /\ mine # {}
    BY <1>1, <1>3, <2>2
  <2>4. n \in mine /\ \A y \in mine : n <= y
    BY <2>3, MinOfSet
  <2> HIDE DEF m, n
  <2>5. n \in 1 .. L /\ (L - n) + 1 \in H
    BY <1>3, <2>4
  <2>6. m >= (L - n) + 1 /\ n <= (L + 1) - m
    BY <2>1, <2>2, <2>4, <2>5
  <2>7. m = L + 1 - n
    BY <1>1, <2>1, <2>5, <2>6
  <2>8. QED
    BY <1>5, <1>6, <1>8, <2>3, <2>7 DEF m, n
<1>9. QED
  BY <1>7, <1>8

\* Different publications have different latest decisions.
LEMMA LatestTellsPublications ==
  ASSUME DecisionsOK, NEW stage, NEW r, NEW p, NEW q, LatestDecision(p, stage, r) # 0,
         LatestDecision(p, stage, r) = LatestDecision(q, stage, r)
  PROVE  p = q
<1>1. LatestDecision(p, stage, r) \in History(p, stage, r) /\ LatestDecision(q, stage, r) \in History(q, stage, r)
  BY LatestIsOwn
<1>2. QED
  BY <1>1 DEF History

\* There are as many latest decisions as publications that have one.
LEMMA LatestAreCounted ==
  ASSUME DecisionsOK, NEW stage, NEW r, NEW S, IsFiniteSet(S), \A p \in S : LatestDecision(p, stage, r) # 0
  PROVE  LET ids == {LatestDecision(p, stage, r) : p \in S}
         IN IsFiniteSet(ids) /\ Cardinality(ids) = Cardinality(S)
<1> DEFINE ids == {LatestDecision(p, stage, r) : p \in S}
           f == [p \in S |-> LatestDecision(p, stage, r)]
<1>1. f \in [S -> ids] /\ \A t \in ids : \E p \in S : f[p] = t
  OBVIOUS
<1>2. \A p, q \in S : f[p] = f[q] => p = q
  BY LatestTellsPublications
<1> HIDE DEF ids, f
<1>3. f \in Bijection(S, ids)
  BY <1>1, <1>2, Zenon DEF Bijection, Injection, Surjection, IsInjective
<1>4. IsFiniteSet(ids) /\ Cardinality(ids) = Cardinality(S)
  BY <1>3, FS_Bijection DEF ExistsBijection
<1>5. QED
  BY <1>4 DEF ids

\* Publications are finitely many.
LEMMA InputIsFinite ==
  ASSUME SurroundingsOK, NEW S \in SUBSET input.pubs
  PROVE  IsFiniteSet(S) /\ Cardinality(S) \in Nat
<1>1. S \in SUBSET Pubs
  BY DEF SurroundingsOK
<1>2. QED
  BY <1>1, ScreeningAssumption, FS_Subset, FS_CardinalityType DEF ScreeningAssumption

\* The report counts for title and abstract what the progress counts, and without a
\* roster also for full text; and its funnel goes on with what was included.
LEMMA ReportIsProgress ==
  ASSUME IInv, input.ready, NEW r
  PROVE  /\ Report(r).titleAbstract = TitleAbstractProgress(r)
         /\ ~HasActiveRoster(TA) => Report(r).fullText = FullTextProgress(r)
         /\ Report(r).fullText.total = Report(r).titleAbstract.included
<1> DEFINE ta == [p \in Pubs |-> LatestDecision(p, TA, r)]
           ft == [p \in Pubs |-> LatestDecision(p, FT, r)]
           eligible == {p \in input.pubs : ta[p] # 0 /\ decisions[ta[p]].outcome = "include"}
           ids == {ta[p] : p \in input.pubs} \ {0}
           in == {i \in ids : decisions[i].outcome = "include"}
<1>0. DecisionsOK /\ SurroundingsOK /\ input.pubs \subseteq Pubs
  BY DEF IInv, SurroundingsOK
<1>1. Report(r).titleAbstract = Progress(input.pubs, ta) /\ Report(r).fullText = Progress(eligible, ft)
  BY DEF Report
<1>2. ta = [p \in Pubs |-> FirstListed(p, TA, r)] /\ ft = [p \in Pubs |-> FirstListed(p, FT, r)]
  BY <1>0, FirstListedIsLatest
<1>3. TitleAbstractProgress(r) = Progress(input.pubs, ta) /\ FullTextProgress(r) = Progress(EligiblePublications(TA, r), ft)
  BY <1>2 DEF TitleAbstractProgress, FullTextProgress
<1>4. ~HasActiveRoster(TA) => EligiblePublications(TA, r) = eligible
  BY <1>0, FirstListedIsLatest DEF EligiblePublications, WithOutcome
<1>5. Progress(eligible, ft).total = Cardinality(eligible) /\ Progress(input.pubs, ta).included = Cardinality(in)
  BY DEF Progress, Count
<1>6. in = {LatestDecision(p, TA, r) : p \in eligible}
  BY <1>0
<1>7. \A p \in eligible : LatestDecision(p, TA, r) # 0
  BY <1>0
<1>8. IsFiniteSet(eligible)
  BY <1>0, InputIsFinite
<1>9. Cardinality(in) = Cardinality(eligible)
  <2> HIDE DEF eligible, in
  <2>1. QED
    BY <1>0, <1>6, <1>7, <1>8, LatestAreCounted
<1>10. QED
  BY <1>1, <1>3, <1>4, <1>5, <1>9

\* Under no roster a reviewer is offered the publications the last decision of the
\* reviewer includes; under a roster as many as the summary of the project counts.
LEMMA OfferedIsOutcome ==
  ASSUME IInv, input.ready, NEW r, NEW p \in Pubs, ~HasActiveRoster(TA)
  PROVE  p \in EligiblePublications(TA, r)
           <=> p \in input.pubs /\ OutcomeFor(p, TA, r).outcome = "include"
<1> DEFINE i == LatestDecision(p, TA, r)
<1>1. FirstListed(p, TA, r) = i
  BY FirstListedIsLatest DEF IInv
<1>2. i # 0 <=> History(p, TA, r) # {}
  <2>1. DecisionsOK
    BY DEF IInv
  <2>2. i # 0 => History(p, TA, r) # {}
    BY <2>1, LatestIsOwn
  <2>3. History(p, TA, r) # {} => i \in DOMAIN decisions
    <3>1. History(p, TA, r) \in SUBSET DOMAIN decisions
      BY DEF History
    <3>2. QED
      BY <2>1, <3>1, GreatestIsThere DEF LatestDecision
  <2>4. 0 \notin DOMAIN decisions
    BY <2>1 DEF DecisionsOK
  <2>5. QED
    BY <2>2, <2>3, <2>4
<1>3. OutcomeFor(p, TA, r) = IF History(p, TA, r) = {} THEN [status |-> "incomplete", outcome |-> "none"]
                             ELSE [status |-> "agreement", outcome |-> decisions[i].outcome]
  BY DEF OutcomeFor, LatestDecision
<1>4. OutcomeFor(p, TA, r).outcome = IF i = 0 THEN "none" ELSE decisions[i].outcome
  BY <1>2, <1>3
<1>5. p \in EligiblePublications(TA, r) <=> p \in input.pubs /\ i # 0 /\ decisions[i].outcome = "include"
  BY <1>1 DEF EligiblePublications, WithOutcome
<1> HIDE DEF i
<1>6. QED
  BY <1>4, <1>5

\* Under a roster of title and abstract every publication has a record.
LEMMA RosterRecordsAll ==
  ASSUME input.ready, HasActiveRoster(TA)
  PROVE  \A p \in input.pubs : HasRecord(p, TA)
BY DEF HasActiveRoster, HasRecord, Expected, TA, FT

LEMMA OfferedIsSummed ==
  ASSUME input.ready, HasActiveRoster(TA), NEW r
  PROVE  /\ Cardinality(EligiblePublications(TA, r)) = ProjectSummary(TA).include
         /\ Cardinality(ExcludedPublications(TA, r)) = ProjectSummary(TA).exclude
<1> DEFINE records == {p \in input.pubs : HasRecord(p, TA)}
           final(o) == {p \in records : /\ IsFinal(ProjectOutcome(p, TA))
                                        /\ ProjectOutcome(p, TA).outcome = o}
<1>1. records = input.pubs
  BY RosterRecordsAll
<1>2. \A o : WithOutcome(TA, r, o) = final(o)
  BY <1>1 DEF WithOutcome
<1>3. /\ ProjectSummary(TA).include = Cardinality(final("include"))
      /\ ProjectSummary(TA).exclude = Cardinality(final("exclude"))
  BY DEF ProjectSummary
<1> HIDE DEF final
<1>4. QED
  BY <1>2, <1>3 DEF EligiblePublications, ExcludedPublications

\* A record has one of five statuses, and its outcome the same.
LEMMA StatusIsOneOfFive ==
  ASSUME DecisionsOK, NEW p, NEW stage, HasRecord(p, stage)
  PROVE  /\ ConflictStatus(p, stage) \in {"incomplete", "agreement", "conflict", "resolved", "stale_resolution"}
         /\ ProjectOutcome(p, stage).status = ConflictStatus(p, stage)
<1> DEFINE ids == Range(ByReviewer(p, stage))
           n == Cardinality(OutcomesOf(ids))
           res == LatestResolution(p, stage)
           late == IF res = 0 THEN "conflict"
                   ELSE IF resolutions[res].key = DecisionSetKey(p, stage) THEN "resolved"
                   ELSE "stale_resolution"
<1>0. ProjectOutcome(p, stage).status = ConflictStatus(p, stage)
  BY DEF ProjectOutcome
<1>1. CASE 0 \in ids
  <2>1. ConflictStatus(p, stage) = "incomplete"
    BY <1>1 DEF ConflictStatus
  <2>2. QED
    BY <1>0, <2>1
<1>2. CASE 0 \notin ids
  <2>1. n \in Nat \ {0}
    BY <1>2, OutcomesToCompare
  <2>2. CASE n = 1
    <3>1. ConflictStatus(p, stage) = "agreement"
      BY <1>2, <2>2 DEF ConflictStatus
    <3>2. QED
      BY <1>0, <3>1
  <2>3. CASE n > 1
    <3>1. n # 1
      BY <2>1, <2>3
    <3>2. ConflictStatus(p, stage) = late
      BY <1>2, <2>3, <3>1 DEF ConflictStatus
    <3>3. QED
      BY <1>0, <3>2
  <2>4. QED
    BY <2>1, <2>2, <2>3
<1>3. QED
  BY <1>1, <1>2

\* The publications with some of the statuses.
LEMMA TwoSetsAdd ==
  ASSUME SurroundingsOK, NEW S \in SUBSET input.pubs, NEW T \in SUBSET input.pubs, S \cap T = {}
  PROVE  Cardinality(S \cup T) = Cardinality(S) + Cardinality(T)
<1>1. IsFiniteSet(S) /\ IsFiniteSet(T) /\ Cardinality(S) \in Nat /\ Cardinality(T) \in Nat
  BY InputIsFinite
<1>2. Cardinality(S \cup T) = Cardinality(S) + Cardinality(T) - Cardinality(S \cap T)
  BY <1>1, FS_Union
<1>3. Cardinality(S \cap T) = 0
  BY FS_EmptySet
<1>4. QED
  BY <1>1, <1>2, <1>3

\* The pending records of the summary are those the metrics list as undecided.
LEMMA PendingIsUndecided ==
  ASSUME IInv, NEW stage \in Stages
  PROVE  ProjectSummary(stage).pending =
           Metrics(stage)["incomplete"] + Metrics(stage)["conflict"] + Metrics(stage)["stale_resolution"]
<1> DEFINE A == Conflicts(stage, "incomplete")
           B == Conflicts(stage, "conflict")
           C == Conflicts(stage, "stale_resolution")
           pending == {p \in {q \in input.pubs : HasRecord(q, stage)} : ~IsFinal(ProjectOutcome(p, stage))}
<1>0. SurroundingsOK /\ DecisionsOK
  BY DEF IInv
<1>1. /\ Metrics(stage)["incomplete"] = Cardinality(A) /\ Metrics(stage)["conflict"] = Cardinality(B)
      /\ Metrics(stage)["stale_resolution"] = Cardinality(C)
  BY DEF Metrics
<1>2. ProjectSummary(stage).pending = Cardinality(pending)
  BY DEF ProjectSummary
<1>3. pending = (A \cup B) \cup C
  <2>1. \A p \in input.pubs : HasRecord(p, stage) =>
          (~IsFinal(ProjectOutcome(p, stage)) <=>
             ConflictStatus(p, stage) \in {"incomplete", "conflict", "stale_resolution"})
    BY <1>0, StatusIsOneOfFive DEF IsFinal
  <2>2. QED
    BY <2>1 DEF Conflicts
<1>4. /\ A \in SUBSET input.pubs /\ B \in SUBSET input.pubs /\ C \in SUBSET input.pubs
      /\ A \cap B = {} /\ (A \cup B) \cap C = {}
  BY DEF Conflicts
<1> HIDE DEF A, B, C, pending
<1>5. Cardinality(A \cup B) = Cardinality(A) + Cardinality(B) /\ A \cup B \in SUBSET input.pubs
  BY <1>0, <1>4, TwoSetsAdd
<1>6. Cardinality(pending) = Cardinality(A \cup B) + Cardinality(C)
  BY <1>0, <1>3, <1>4, <1>5, TwoSetsAdd
<1>7. QED
  BY <1>1, <1>2, <1>5, <1>6

\* The row of the audit is the latest one exactly when the history says so.
LEMMA AuditIsHistory ==
  ASSUME IInv, NEW i \in DOMAIN decisions
  PROVE  AuditRow(i).latest <=> i \in LatestAll(decisions[i].pub, decisions[i].stage)
<1> DEFINE d == decisions[i]
           H == History(d.pub, d.stage, d.reviewer)
<1>0. DecisionsOK
  BY DEF IInv
<1>1. d \in DecisionRows /\ i \in Nat /\ i # 0 /\ decisions \in Seq(DecisionRows)
  BY <1>0 DEF DecisionsOK
<1>2. d.reviewer \in Reviewers
  BY <1>1 DEF DecisionRows
<1>3. i \in H /\ H \in SUBSET DOMAIN decisions
  BY DEF History
<1>4. Max(H) \in H /\ \A y \in H : Max(H) >= y
  <2> HIDE DEF H
  <2>1. QED
    BY <1>1, <1>3, MaxOfPositions
<1>5. Max(H) \in Nat /\ LatestDecision(d.pub, d.stage, d.reviewer) = Max(H)
  BY <1>1, <1>3, <1>4 DEF LatestDecision
<1>6. AuditRow(i).latest <=> \A j \in H : j <= i
  BY DEF AuditRow
<1>7. AuditRow(i).latest <=> i = Max(H)
  <2> HIDE DEF H
  <2>1. \A j \in H : j \in Nat
    BY <1>1, <1>3
  <2>2. QED
    BY <1>1, <1>3, <1>4, <1>5, <1>6, <2>1
<1>8. i \in LatestAll(d.pub, d.stage) <=> i = Max(H)
  <2>1. ASSUME NEW r \in Reviewers, i = LatestDecision(d.pub, d.stage, r)
        PROVE  r = d.reviewer
    <3>1. i \in History(d.pub, d.stage, r)
      BY <1>0, <1>1, <2>1, LatestIsOwn
    <3>2. QED
      BY <3>1 DEF History
  <2>2. i \in LatestAll(d.pub, d.stage) <=> \E r \in Reviewers : i = LatestDecision(d.pub, d.stage, r)
    BY <1>1 DEF LatestAll
  <2>3. QED
    BY <1>2, <1>5, <2>1, <2>2
<1>9. QED
  BY <1>7, <1>8

\* What the audit calls current, the history of the publication does.
LEMMA CurrentIsCurrent ==
  ASSUME IInv, NEW x \in DOMAIN resolutions, AuditCurrent(x)
  PROVE  HistoryCurrent(x)
BY WhatStatusSays DEF AuditCurrent, HistoryCurrent, IInv

\* The workflow counts what was screened: as many publications as the progress of
\* the reviewer, or as the project has decided; at full text never fewer than are
\* screened or let in, and a conflict keeps quality assessment waiting.
LEMMA OwnTitleCounts ==
  ASSUME IInv, input.ready, NEW r, ~HasActiveRoster(TA)
  PROVE  StageCounts(TA, r).evaluated = TitleAbstractProgress(r).screened
<1> DEFINE S == {p \in input.pubs : LatestDecision(p, TA, r) # 0}
           ids == {LatestDecision(p, TA, r) : p \in S}
           first == [p \in Pubs |-> FirstListed(p, TA, r)]
<1>0. DecisionsOK /\ SurroundingsOK /\ input.pubs \subseteq Pubs
  BY DEF IInv, SurroundingsOK
<1>1. StageCounts(TA, r).evaluated = Cardinality(S)
  BY DEF StageCounts, InputPublications
<1>2. TitleAbstractProgress(r).screened = Cardinality({first[p] : p \in input.pubs} \ {0})
  BY DEF TitleAbstractProgress, Progress
<1>3. {first[p] : p \in input.pubs} \ {0} = ids
  BY <1>0, FirstListedIsLatest
<1>4. IsFiniteSet(S) /\ \A p \in S : LatestDecision(p, TA, r) # 0
  BY <1>0, InputIsFinite
<1>5. Cardinality(ids) = Cardinality(S)
  <2> HIDE DEF S
  <2>1. QED
    BY <1>0, <1>4, LatestAreCounted
<1>6. QED
  BY <1>1, <1>2, <1>3, <1>5

LEMMA ProjectTitleCounts ==
  ASSUME IInv, input.ready, NEW r, HasActiveRoster(TA)
  PROVE  StageCounts(TA, r).evaluated = ProjectSummary(TA).total - ProjectSummary(TA).pending
<1> DEFINE done == UNION {Conflicts(TA, s) : s \in {"agreement", "resolved"}}
           records == {p \in input.pubs : HasRecord(p, TA)}
           pending == {p \in records : ~IsFinal(ProjectOutcome(p, TA))}
<1>0. DecisionsOK /\ SurroundingsOK
  BY DEF IInv
<1>1. StageCounts(TA, r).evaluated = Cardinality(done)
  BY DEF StageCounts
<1>2. ProjectSummary(TA).total = Cardinality(records) /\ ProjectSummary(TA).pending = Cardinality(pending)
  BY DEF ProjectSummary
<1>3. records = done \cup pending /\ done \cap pending = {}
  <2>1. \A p \in input.pubs : HasRecord(p, TA) =>
          (IsFinal(ProjectOutcome(p, TA)) <=> ConflictStatus(p, TA) \in {"agreement", "resolved"})
    BY <1>0, StatusIsOneOfFive DEF IsFinal
  <2>2. \A p : p \in done <=> p \in records /\ ConflictStatus(p, TA) \in {"agreement", "resolved"}
    BY DEF Conflicts
  <2> HIDE DEF done
  <2>3. QED
    BY <2>1, <2>2
<1>4. done \in SUBSET input.pubs /\ pending \in SUBSET input.pubs
  BY DEF Conflicts
<1> HIDE DEF done, records, pending
<1>5. Cardinality(records) = Cardinality(done) + Cardinality(pending)
  BY <1>0, <1>3, <1>4, TwoSetsAdd
<1>6. Cardinality(done) \in Nat /\ Cardinality(pending) \in Nat
  BY <1>0, <1>4, InputIsFinite
<1>7. QED
  BY <1>1, <1>2, <1>5, <1>6

LEMMA OwnFullTextCounts ==
  ASSUME IInv, input.ready, NEW r, ~HasActiveRoster(FT)
  PROVE  /\ StageCounts(FT, r).evaluated >= FullTextProgress(r).screened
         /\ StageCounts(FT, r).evaluated >= Cardinality(EligiblePublications(FT, r))
<1> DEFINE S == {p \in input.pubs : LatestDecision(p, FT, r) # 0}
           E == EligiblePublications(TA, r)
           T == {p \in E : LatestDecision(p, FT, r) # 0}
           ids == {LatestDecision(p, FT, r) : p \in T}
           first == [p \in Pubs |-> FirstListed(p, FT, r)]
<1>0. DecisionsOK /\ SurroundingsOK /\ input.pubs \subseteq Pubs
  BY DEF IInv, SurroundingsOK
<1>1. StageCounts(FT, r).evaluated = Cardinality(S)
  BY DEF StageCounts, InputPublications
<1>2. FullTextProgress(r).screened = Cardinality({first[p] : p \in E} \ {0})
  BY DEF FullTextProgress, Progress
<1>3. E \subseteq input.pubs
  BY DEF EligiblePublications, WithOutcome
<1>4. {first[p] : p \in E} \ {0} = ids
  <2> HIDE DEF E
  <2>1. QED
    BY <1>0, <1>3, FirstListedIsLatest
<1>5. T \in SUBSET S /\ S \in SUBSET input.pubs
  BY <1>3
<1>6. EligiblePublications(FT, r) \in SUBSET S
  BY <1>0, FirstListedIsLatest DEF EligiblePublications, WithOutcome
<1>7. IsFiniteSet(S) /\ IsFiniteSet(T) /\ \A p \in T : LatestDecision(p, FT, r) # 0
  BY <1>0, <1>5, InputIsFinite
<1> HIDE DEF S, E
<1>8. Cardinality(ids) = Cardinality(T)
  <2> HIDE DEF T
  <2>1. QED
    BY <1>0, <1>7, LatestAreCounted
<1> HIDE DEF T, ids
<1>9. Cardinality(T) <= Cardinality(S) /\ Cardinality(EligiblePublications(FT, r)) <= Cardinality(S)
  BY <1>5, <1>6, <1>7, FS_Subset
<1>10. IsFiniteSet(EligiblePublications(FT, r))
  BY <1>6, <1>7, FS_Subset
<1>11. Cardinality(T) \in Nat /\ Cardinality(S) \in Nat /\ Cardinality(EligiblePublications(FT, r)) \in Nat
  BY <1>7, <1>10, FS_CardinalityType
<1>12. QED
  BY <1>1, <1>2, <1>4, <1>8, <1>9, <1>11

LEMMA QualityWaits ==
  ASSUME IInv, NEW r, QualityStatus(r) = "ready"
  PROVE  StageCounts(FT, r).conflict + StageCounts(FT, r).stale = 0
<1> DEFINE n == StageCounts(FT, r)
<1>1. n.conflict \in Nat /\ n.stale \in Nat
  <2>1. CASE HasActiveRoster(FT)
    <3> DEFINE A == UNION {Conflicts(FT, s) : s \in {"conflict"}}
               B == UNION {Conflicts(FT, s) : s \in {"stale_resolution"}}
    <3>1. n.conflict = Cardinality(A) /\ n.stale = Cardinality(B)
      BY <2>1 DEF StageCounts
    <3>2. A \in SUBSET input.pubs /\ B \in SUBSET input.pubs
      BY DEF Conflicts
    <3> HIDE DEF A, B
    <3>3. Cardinality(A) \in Nat /\ Cardinality(B) \in Nat
      BY <3>2, InputIsFinite DEF IInv
    <3>4. QED
      BY <3>1, <3>3
  <2>2. CASE ~HasActiveRoster(FT)
    BY <2>2 DEF StageCounts
  <2>3. QED
    BY <2>1, <2>2
<1>2. FullTextStatus(r) = "completed"
  BY DEF QualityStatus
<1> HIDE DEF n
<1>3. ~(n.stale > 0) /\ ~(n.conflict > 0)
  BY <1>2 DEF FullTextStatus, n
<1>4. QED
  BY <1>1, <1>3 DEF n

\* The reasons of one exclusion are as many as its keys.
LEMMA KeysAreReasons ==
  ASSUME DecisionsOK, NEW i \in DOMAIN decisions
  PROVE  IsFiniteSet(ReasonKeys(i)) /\ Cardinality(ReasonKeys(i)) = Cardinality(decisions[i].reasons)
<1> DEFINE S == decisions[i].reasons
           f == [k \in S |-> <<k, decisions[i].assessed[k].snapshot>>]
<1>1. IsFiniteSet(S)
  <2>1. decisions[i] \in DecisionRows
    BY DEF DecisionsOK
  <2>2. S \in SUBSET Criteria
    BY <2>1 DEF DecisionRows
  <2> HIDE DEF S
  <2>3. QED
    BY <2>2, ScreeningAssumption, FS_Subset DEF ScreeningAssumption
<1>2. f \in [S -> ReasonKeys(i)] /\ \A t \in ReasonKeys(i) : \E k \in S : f[k] = t
  BY DEF ReasonKeys
<1>3. \A k, l \in S : f[k] = f[l] => k = l
  OBVIOUS
<1> HIDE DEF f, S
<1>4. f \in Bijection(S, ReasonKeys(i))
  BY <1>2, <1>3, Zenon DEF Bijection, Injection, Surjection, IsInjective
<1>5. QED
  BY <1>1, <1>4, FS_Bijection DEF ExistsBijection, S

\* The reasons of some exclusions are summed in any order.
LEMMA ReasonsAreSummed ==
  ASSUME DecisionsOK, NEW S \in SUBSET DOMAIN decisions
  PROVE  \E it : /\ IsSum(it, S, [i \in S |-> Cardinality(decisions[i].reasons)])
                 /\ MapThenSumSet(LAMBDA i : Cardinality(decisions[i].reasons), S) = it[S]
<1> DEFINE c == [i \in S |-> Cardinality(decisions[i].reasons)]
           Fold(f) == f = [s \in SUBSET S |-> IF s = {} THEN 0
                             ELSE Cardinality(decisions[Pick(s)].reasons) + f[s \ {Pick(s)}]]
           iter == CHOOSE g : Fold(g)
<1>0. IsFiniteSet(S)
  <2>1. IsFiniteSet(DOMAIN decisions)
    BY LastPosition DEF DecisionsOK
  <2>2. QED
    BY <2>1, FS_Subset
<1>1. PICK f : IsSum(f, S, c)
  <2>1. \A x \in S : c[x] \in Nat
    BY KeysAreReasons, FS_CardinalityType
  <2> HIDE DEF c
  <2>2. QED
    BY <1>0, <2>1, SumExists
<1>2. \A s \in SUBSET S : s # {} => c[Pick(s)] = Cardinality(decisions[Pick(s)].reasons)
  BY PickIsMember
<1>3. \A g : Fold(g) <=> IsSum(g, S, c)
  <2> SUFFICES ASSUME NEW g PROVE Fold(g) <=> IsSum(g, S, c)
    OBVIOUS
  <2>1. \A s \in SUBSET S : (IF s = {} THEN 0 ELSE Cardinality(decisions[Pick(s)].reasons) + g[s \ {Pick(s)}])
                              = (IF s = {} THEN 0 ELSE c[Pick(s)] + g[s \ {Pick(s)}])
    <3> HIDE DEF c
    <3>1. QED
      BY <1>2
  <2> HIDE DEF c
  <2>2. QED
    BY <2>1 DEF IsSum
<1>4. Fold(iter)
  <2>1. Fold(f)
    <3> HIDE DEF Fold, c
    <3>1. QED
      BY <1>1, <1>3
  <2> HIDE DEF Fold
  <2>2. QED
    BY <2>1
<1>5. MapThenSumSet(LAMBDA i : Cardinality(decisions[i].reasons), S) = iter[S]
  BY DEF MapThenSumSet, MapThenFoldSet, Pick
<1>6. QED
  <2> HIDE DEF iter, Fold, c
  <2>1. IsSum(iter, S, c)
    BY <1>3, <1>4
  <2>2. QED
    BY <1>5, <2>1 DEF c

\* The counts by reason add up to the reasons given.
LEMMA ReasonsAddUp ==
  ASSUME DecisionsOK, NEW r
  PROVE  MapThenSumSet(LAMBDA key : ReasonCounts(r)[key], DOMAIN ReasonCounts(r)) =
           MapThenSumSet(LAMBDA i : Cardinality(decisions[i].reasons), FullTextExclusions(r))
<1> DEFINE X == FullTextExclusions(r)
           R == [i \in X |-> ReasonKeys(i)]
           Y == UNION {ReasonKeys(i) : i \in X}
           V == [y \in Y |-> {i \in X : y \in ReasonKeys(i)}]
           e == ReasonCounts(r)
           c == [i \in X |-> Cardinality(decisions[i].reasons)]
<1>1. X \in SUBSET DOMAIN decisions /\ IsFiniteSet(X)
  <2>1. X \in SUBSET DOMAIN decisions
    BY DEF FullTextExclusions
  <2>2. IsFiniteSet(DOMAIN decisions)
    BY LastPosition DEF DecisionsOK
  <2> HIDE DEF X
  <2>3. QED
    BY <2>1, <2>2, FS_Subset
<1>2. \A i \in X : R[i] = ReasonKeys(i) /\ IsFiniteSet(R[i]) /\ R[i] \in SUBSET Y /\ c[i] = Cardinality(R[i])
  BY <1>1, KeysAreReasons
<1>3. DOMAIN e = Y /\ \A y \in Y : V[y] \in SUBSET X /\ e[y] = Cardinality(V[y])
  <2>1. e = [key \in Y |-> Cardinality({i \in X : key \in ReasonKeys(i)})]
    BY DEF ReasonCounts
  <2> HIDE DEF e, X, Y
  <2>2. QED
    BY <2>1
<1>4. \A i \in X : \A y \in Y : y \in R[i] <=> i \in V[y]
  OBVIOUS
<1>5. IsFiniteSet(Y)
  <2> DEFINE W == {ReasonKeys(i) : i \in X}
  <2>1. R \in [X -> W] /\ \A w \in W : \E i \in X : R[i] = w
    OBVIOUS
  <2>2. \A w \in W : IsFiniteSet(w)
    BY <1>1, KeysAreReasons
  <2>3. Y = UNION W
    OBVIOUS
  <2> HIDE DEF W, R, X, Y
  <2>4. R \in Surjection(X, W)
    BY <2>1, Zenon DEF Surjection
  <2>5. IsFiniteSet(W)
    BY <1>1, <2>4, FS_Surjection
  <2>6. QED
    BY <2>2, <2>3, <2>5, FS_UNION
<1>6. PICK it : /\ IsSum(it, X, c)
                /\ MapThenSumSet(LAMBDA i : Cardinality(decisions[i].reasons), X) = it[X]
  <2> HIDE DEF X
  <2>1. QED
    BY <1>1, ReasonsAreSummed
<1> HIDE DEF X, R, Y, V, e, c
<1>7. PICK jt : IsSum(jt, Y, e) /\ SumOver(e, Y) = jt[Y]
  <2>1. \A y \in Y : e[y] \in Nat
    BY <1>1, <1>3, FS_Subset, FS_CardinalityType
  <2>2. QED
    BY <1>5, <2>1, SumOverIsSum
<1>8. it[X] = jt[Y]
  <2>1. IsFiniteSet(X) /\ IsFiniteSet(Y)
    BY <1>1, <1>5
  <2>2. \A i \in X : R[i] \in SUBSET Y
    BY <1>2
  <2>3. \A y \in Y : V[y] \in SUBSET X
    BY <1>3
  <2>4. \A i \in X : c[i] = Cardinality(R[i])
    BY <1>2
  <2>5. \A y \in Y : e[y] = Cardinality(V[y])
    BY <1>3
  <2>6. IsSum(it, X, c) /\ IsSum(jt, Y, e)
    BY <1>6, <1>7
  <2>7. QED
    BY ONLY <1>4, <2>1, <2>2, <2>3, <2>4, <2>5, <2>6, DoubleCount
<1>9. MapThenSumSet(LAMBDA key : ReasonCounts(r)[key], DOMAIN ReasonCounts(r)) = SumOver(e, Y)
  BY <1>3 DEF SumOver, e
<1>10. QED
  BY <1>6, <1>7, <1>8, <1>9 DEF X

\* The views of screening agree whenever no request is in flight: report, progress,
\* summary, metrics, audit, history and the status of the workflow
\* (services/screening_reporting_service.py, services/project_workflow_status_service.py).
THEOREM ReportsAlwaysAgree == Spec => []ReportsAgree
<1>1. IInv => ReportsAgree
  <2> SUFFICES ASSUME IInv, input.ready PROVE ReportsAgree
    BY DEF ReportsAgree
  <2>1. DecisionsOK
    BY DEF IInv
  <2>2. QED
    BY <2>1, ReportIsProgress, OfferedIsOutcome, OfferedIsSummed, ReasonsAddUp, OwnTitleCounts,
       ProjectTitleCounts, OwnFullTextCounts, QualityWaits, PendingIsUndecided, AuditIsHistory,
       CurrentIsCurrent DEF ReportsAgree
<1>2. QED
  BY <1>1, Invariant, PTL

================================================================================
