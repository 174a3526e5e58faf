------------------------------ MODULE MCPaging ------------------------------
(***************************************************************************)
(* Paging over the candidate plans of small search expressions: a record   *)
(* answers a free-text query when it has one of its terms, as a ranked     *)
(* free-text search returns it.                                            *)
(***************************************************************************)
EXTENDS Paging, TLC

CONSTANTS r1, r2, r3, r4, Limit, Dense

Plans == INSTANCE CrossrefPlan

\* r2 and r4 are versions of one work; r3 has no title.
MCRecords == {r1, r2, r3, r4}
MCWorks == {"w1", "w2", "w3"}
MCWorkOf == (r1 :> "w1") @@ (r2 :> "w2") @@ (r3 :> "w3") @@ (r4 :> "w2")
MCTitled == {r1, r2, r4}
MCNamed == {r1, r2, r3}
MCProviders == {"crossref", "openalex", "semantic_scholar"}

Hits == "a" :> <<r1, r2>> @@ "b" :> <<r3, r4>> @@ "c" :> <<r1>> @@ "d" :> <<>>

\* The records with a term of the query, in the order of its terms.
Found(query) == Plans!Distinct(Plans!FlattenSeq([i \in DOMAIN query |-> Hits[query[i]]]))

A == Plans!Term("a")
B == Plans!Term("b")
C == Plans!Term("c")
D == Plans!Term("d")

Expressions ==
  {A, Plans!Group("and", <<A, B>>), Plans!Group("or", <<A, D>>),
   Plans!Group("and", <<Plans!Group("or", <<B, C>>), D, Plans!Group("not", <<A>>)>>)}

MCHoldings ==
  "crossref" :> {[i \in DOMAIN plan |-> Found(plan[i])] :
                   plan \in {Plans!CandidatePlan(e).queries : e \in Expressions}}
  @@ "openalex" :> {<<<<r1, r2>>>>, <<<<r1, r4, r2>>>>, <<<<>>>>}
  @@ "semantic_scholar" :> {<<<<r1, r2, r1>>>>, <<<<>>>>}

Denied(j) == Plans!Group("not", <<Plans!Term(<<j, 1>>)>>)

\* An expression over distinct terms: one OR group, or an AND of several, of
\* the given sizes; 0 is a NOT, and Barren an OR of two of them.
Barren == 9

Axis(j, size) ==
  CASE size = 0 -> Denied(j)
    [] size = 1 -> Plans!Term(<<j, 1>>)
    [] size = Barren -> Plans!Group("or", <<Denied(j), Denied(j)>>)
    [] OTHER -> Plans!Group("or", [i \in 1 .. size |-> Plans!Term(<<j, i>>)])

Axes(widths) ==
  IF Len(widths) = 1 THEN Axis(1, widths[1])
  ELSE Plans!Group("and", [j \in DOMAIN widths |-> Axis(j, widths[j])])

Shapes ==
  {<<m>> : m \in 0 .. 9} \cup (0 .. 9) \X (0 .. 9) \cup (0 .. 3) \X (0 .. 3) \X (0 .. 3)
  \cup {<<7, 6, 4>>, <<7, 2, 2>>, <<2, 2, 2, 2>>, <<3, 3, 3, 3>>, <<7, 7, 7, 7, 7, 7>>,
        [j \in 1 .. 14 |-> 2]}

\* The widths of an expression that is only planned, <<>> for one searched.
VARIABLE widths

MCInit ==
  /\ Init
  /\ \/ widths = <<>>
     \/ widths \in Shapes /\ caller = "job" /\ provider = "openalex" /\ upstream = <<<<>>>>

MCNext == widths = <<>> /\ Next /\ UNCHANGED widths

MCSpec == MCInit /\ [][MCNext]_<<vars, widths>> /\ WF_vars(Attempt)

\* A candidate plan over distinct terms asks at most Limit different queries,
\* each with one alternative of every positive axis, and as many alternatives of
\* each axis as the limit allows: no axis collapses onto a few of its alternatives
\* and no NOT takes the place of one (the executable contract at
\* src/app/rendering/crossref.py:133-142).  An expression has a plan unless one of
\* its groups has no positive child, and only a bare NOT has a plan of no query.
PlanRepresentsEveryAxis ==
  widths # <<>> =>
    LET plan == Plans!CandidatePlan(Axes(widths))
        positive == {j \in DOMAIN widths : widths[j] \notin {0, Barren}}
        refused == \/ \E j \in DOMAIN widths : widths[j] = Barren
                   \/ Len(widths) > 1 /\ positive = {}
        Nth(j) == Cardinality({h \in positive : h <= j})
        Chosen(j) == {plan.queries[i][Nth(j)] : i \in DOMAIN plan.queries}
    IN /\ refused <=> plan = Plans!Refused
       /\ ~ refused =>
            /\ plan.queries = <<>> <=> positive = {}
            /\ Len(plan.queries) <= Limit
            /\ \A i, h \in DOMAIN plan.queries : plan.queries[i] = plan.queries[h] => i = h
            /\ \A j \in positive :
                 /\ Chosen(j) \subseteq {<<j, i>> : i \in 1 .. widths[j]}
                 /\ Cardinality(Chosen(j)) = Lowest(widths[j], Limit)
                 /\ plan.represented[Nth(j)] = Cardinality(Chosen(j))
=============================================================================
