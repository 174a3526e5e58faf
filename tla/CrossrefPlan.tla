---------------------------- MODULE CrossrefPlan ----------------------------
(***************************************************************************)
(* The candidate plan of src/app/rendering/crossref.py: the physical       *)
(* free-text queries that stand for a Boolean search expression, which     *)
(* Crossref cannot evaluate.  A query is the sequence of the terms it      *)
(* joins; equal sequences are equal texts because a term of several words  *)
(* is quoted (_render_term).                                               *)
(***************************************************************************)
EXTENDS Naturals, Integers, Sequences, FiniteSets, SequencesExt

CONSTANTS Limit,      \* MAX_CROSSREF_CANDIDATE_QUERIES
          Dense       \* candidate rows up to which every one is scored (10000)

\* Expressions: a term, or AND / OR / NOT over a sequence of children.
Term(t) == [kind |-> "term", text |-> t]

Group(operator, children) == [kind |-> operator, children |-> children]

\* dict.fromkeys(queries): first occurrences, in order.
Distinct(queries) ==
  FoldLeft(LAMBDA kept, q : IF Contains(kept, q) THEN kept ELSE Append(kept, q),
           <<>>, queries)

\* number evenly spaced indices of 1 .. size.
Stratified(size, number) ==
  IF number = 1 THEN <<1>>
  ELSE [i \in 1 .. number |->
          1 + (2 * (i - 1) * (size - 1) + (number - 1)) \div (2 * (number - 1))]

\* The alternatives an axis of the given size is sampled at.
Candidates(size) == IF size <= Limit THEN [i \in 1 .. size |-> i] ELSE Stratified(size, Limit)

Times(plans) == FoldLeft(LAMBDA product, plan : product * Len(plan), 1, plans)

\* itertools.product: the choices of one index per axis, the last axis fastest.
Product(axes) ==
  LET below(j) == Times(SubSeq(axes, j + 1, Len(axes)))
  IN [n \in 1 .. Times(axes) |->
        [j \in DOMAIN axes |-> axes[j][1 + (((n - 1) \div below(j)) % Len(axes[j]))]]]

Usage(chosen, axis, index) == Cardinality({i \in DOMAIN chosen : chosen[i][axis] = index})

PairUsed(chosen, a, b, row) == \E i \in DOMAIN chosen : chosen[i][a] = row[a] /\ chosen[i][b] = row[b]

\* Mutant for Score: only pairs count.
ScorePairs(chosen, row) ==
  Cardinality({ab \in (DOMAIN row) \X (DOMAIN row) : ab[1] < ab[2] /\ ~ PairUsed(chosen, ab[1], ab[2], row)})

\* How much a row adds to the chosen ones: an alternative not used yet counts
\* most, one used again costs, a pair not used yet counts a little.
Score(chosen, row) ==
  LET use(j) == Usage(chosen, j, row[j])
      fresh  == {ab \in (DOMAIN row) \X (DOMAIN row) : ab[1] < ab[2] /\ ~ PairUsed(chosen, ab[1], ab[2], row)}
  IN FoldLeft(LAMBDA sum, j : sum + (IF use(j) = 0 THEN 10000 ELSE -100 * use(j)),
              10 * Cardinality(fresh), [j \in DOMAIN row |-> j])

\* The first row of the highest score not chosen yet.
Best(rows, chosen) ==
  LET free == {i \in DOMAIN rows : ~ Contains(chosen, rows[i])}
      top  == Max({Score(chosen, rows[i]) : i \in free})
  IN rows[Min({i \in free : Score(chosen, rows[i]) = top})]

\* The least used of the candidates of axis j, in order of (usage, index).
LeastUsed(chosen, j, candidates) ==
  SortSeq(candidates, LAMBDA a, b : LET u == Usage(chosen, j, a)
                                        v == Usage(chosen, j, b)
                                    IN u < v \/ (u = v /\ a < b))

\* With too many candidate rows: the least used alternative of every axis, or
\* that row with another alternative on one axis, the last axis first.
Spread(axes, chosen) ==
  LET row    == [j \in DOMAIN axes |-> LeastUsed(chosen, j, axes[j])[1]]
      Other(j) == SelectSeq([i \in DOMAIN axes[j] |->
                               [row EXCEPT ![j] = LeastUsed(chosen, j, axes[j])[i]]],
                            LAMBDA r : ~ Contains(chosen, r))
      usable == {j \in DOMAIN axes : Other(j) # <<>>}
  IN IF ~ Contains(chosen, row) \/ usable = {} THEN row ELSE Other(Max(usable))[1]

\* The rows of an AND plan: all of them when they fit, otherwise Limit chosen
\* one after another.
Combinations(plans) ==
  LET axes    == [j \in DOMAIN plans |-> Candidates(Len(plans[j]))]
      sampled == Product(axes)
      Add(chosen, step) == Append(chosen, IF Times(axes) <= Dense THEN Best(sampled, chosen)
                                          ELSE Spread(axes, chosen))
  IN IF Times(plans) <= Limit
     THEN Product([j \in DOMAIN plans |-> [i \in DOMAIN plans[j] |-> i]])
     ELSE FoldLeft(Add, <<>>, [i \in 1 .. Limit |-> i])

TextOf(plans, row) == FlattenSeq([j \in DOMAIN row |-> plans[j][row[j]]])

\* Rows whose text an earlier row has are dropped; represented counts the
\* alternatives of each axis that are left.
AndPlan(plans) ==
  LET rows == Combinations(plans)
      kept == {i \in DOMAIN rows : \A h \in 1 .. i - 1 :
                 TextOf(plans, rows[h]) # TextOf(plans, rows[i])}
  IN [queries     |-> Distinct([i \in DOMAIN rows |-> TextOf(plans, rows[i])]),
      available   |-> [j \in DOMAIN plans |-> Len(plans[j])],
      represented |-> [j \in DOMAIN plans |-> Cardinality({rows[i][j] : i \in kept})]]

\* The union of the children, sampled only at the root.
OrPlan(plans, root) ==
  LET all     == FlattenSeq(plans)
      sampled == IF root /\ Len(all) > Limit
                 THEN [i \in 1 .. Limit |-> all[Stratified(Len(all), Limit)[i]]] ELSE all
      queries == Distinct(sampled)
  IN [queries |-> queries, available |-> <<Len(all)>>, represented |-> <<Len(queries)>>]

NoPlan == [queries |-> <<>>, available |-> <<>>, represented |-> <<>>]

\* The ValueError of a group none of whose children has a positive term; it ends
\* the planning of the whole expression.
Refused == [refused |-> TRUE]

\* NOT is left to local validation, whatever it denies; a NOT among other
\* children drops out.
RECURSIVE PositivePlan(_, _)
PositivePlan(e, root) ==
  IF e.kind = "term" THEN [queries |-> <<<<e.text>>>>, available |-> <<1>>, represented |-> <<1>>]
  ELSE IF e.kind = "not" THEN NoPlan
  ELSE LET children == [i \in DOMAIN e.children |-> PositivePlan(e.children[i], FALSE)]
           plans == SelectSeq([i \in DOMAIN children |-> children[i].queries],
                              LAMBDA plan : plan # <<>>)
       IN IF \/ \E i \in DOMAIN children : children[i] = Refused
             \/ plans = <<>>
          THEN Refused
          ELSE IF e.kind = "and" THEN AndPlan(plans) ELSE OrPlan(plans, root)

CandidatePlan(e) == PositivePlan(e, TRUE)
=============================================================================
